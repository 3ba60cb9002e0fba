-------------------------- MODULE W5100SocketProofs --------------------------
(***************************************************************************)
(* Theorems about W5100Socket.tla for every number of descriptors and of   *)
(* chip sockets: the pointers between the two tables, that no socket is    *)
(* left without a descriptor to release it, and that the driver knows what *)
(* the chip is doing.                                                      *)
(***************************************************************************)
EXTENDS W5100Socket, TLAPS

(* A polling loop runs on a socket in use. *)
LoopOK ==
    /\ pc = "user" <=> cur = NULL
    /\ pc # "user" => used[cur]

(* An accepted socket has its connection's descriptor until close() of it. *)
AcceptedHasConnection ==
    \A i \in Sockets : state[i] = "ACCEPTED" =>
        connection_data[i] # NULL \/ (cur = i /\ pc \in {"close_conn", "relisten"})

(* The inductive invariant behind NoOrphanSocket. *)
ReleaseInv == NoOrphanSocket /\ LoopOK /\ AcceptedHasConnection

(* NULL is neither a descriptor nor a socket. *)
LEMMA NullOutside == NULL \notin Fds /\ NULL \notin Sockets
BY TableAssumption DEF NULL, Fds, Sockets

(* What accept() does with a client keeps the types of what it changes. *)
LEMMA ClientTypes ==
    ASSUME TypeOK, NEW i \in Sockets \cup {NULL}, accept_client(i)
    PROVE  /\ isallocated' \in [Fds -> BOOLEAN] /\ isopen' \in [Fds -> BOOLEAN]
           /\ opaque' \in [Fds -> Sockets \cup {NULL}] /\ used' \in [Sockets -> BOOLEAN]
           /\ type' \in [Sockets -> Types \cup {"none"}] /\ state' \in [Sockets -> States]
           /\ fd_data' \in [Sockets -> Fds \cup {NULL}]
           /\ connection_data' \in [Sockets -> Fds \cup {NULL}]
           /\ sr' \in [Sockets -> Status]
<1> USE DEF TypeOK, States, Status, fileVars, sockVars
<1>1. CASE Command(i, "LISTEN") /\ UNCHANGED <<fileVars, sockVars>>
  BY <1>1 DEF Command
<1>2. CASE /\ \E g \in Fds :
                /\ fill_fd_struct(g, i)
                /\ connection_data' = [connection_data EXCEPT ![i] = g]
           /\ state' = [state EXCEPT ![i] = "ACCEPTED"]
           /\ UNCHANGED <<used, type, fd_data, sr>>
  <2>1. PICK g \in Fds :
           fill_fd_struct(g, i) /\ connection_data' = [connection_data EXCEPT ![i] = g]
    BY <1>2
  <2>2. /\ isallocated' \in [Fds -> BOOLEAN] /\ isopen' \in [Fds -> BOOLEAN]
        /\ opaque' \in [Fds -> Sockets \cup {NULL}]
    BY <2>1 DEF fill_fd_struct
  <2>3. connection_data' \in [Sockets -> Fds \cup {NULL}]
    BY <2>1
  <2>4. state' \in [Sockets -> States]
    BY <1>2
  <2> QED  BY <1>2, <2>2, <2>3, <2>4
<1> QED  BY <1>1, <1>2 DEF accept_client

(* Every variable keeps its type. *)
THEOREM TypeCorrect == Spec => []TypeOK
<1>1. Init => TypeOK
  <2> SUFFICES ASSUME Init PROVE TypeOK
    OBVIOUS
  <2>1. isallocated \in [Fds -> BOOLEAN] /\ isopen \in [Fds -> BOOLEAN]
    BY DEF Init
  <2>2. opaque \in [Fds -> Sockets \cup {NULL}] /\ used \in [Sockets -> BOOLEAN]
    BY DEF Init
  <2>3. type \in [Sockets -> Types \cup {"none"}] /\ state \in [Sockets -> States]
    BY DEF Init, States
  <2>4. /\ fd_data \in [Sockets -> Fds \cup {NULL}]
        /\ connection_data \in [Sockets -> Fds \cup {NULL}]
    BY DEF Init
  <2>5. sr \in [Sockets -> Status]
    BY DEF Init, Status
  <2> QED  BY <2>1, <2>2, <2>3, <2>4, <2>5 DEF Init, TypeOK
<1>2. TypeOK /\ [Next]_vars => TypeOK'
  <2> SUFFICES ASSUME TypeOK, [Next]_vars PROVE TypeOK'
    OBVIOUS
  <2> USE DEF TypeOK, States, Status, Waits, fileVars, sockVars, threadVars
  <2>1. ASSUME NEW t \in Types, Socket(t) PROVE TypeOK'
    BY <2>1 DEF Socket, fill_fd_struct
  <2>2. ASSUME NEW f \in Fds, Bind(f) PROVE TypeOK'
    BY <2>2 DEF Bind, bind_udp, Command, get_socket_from_fd
  <2>3. ASSUME NEW f \in Fds, Connect(f) PROVE TypeOK'
    BY <2>3 DEF Connect, connect_tcp, connect_udp, ConnectRejected, bind_udp, Command,
                GoTo, get_socket_from_fd
  <2>4. ASSUME NEW f \in Fds, Listen(f) PROVE TypeOK'
    BY <2>4 DEF Listen, Command, GoTo, get_socket_from_fd
  <2>5. ASSUME NEW f \in Fds, Accept(f) PROVE TypeOK'
    <3>1. PICK i \in Sockets :
             /\ stale' = (stale \/ ~isopen[f])
             /\ \/ accept_client(i) /\ UNCHANGED threadVars
                \/ GoTo("accept", i) /\ UNCHANGED <<fileVars, sockVars, sr>>
      BY <2>5 DEF Accept, get_socket_from_fd
    <3>2. stale' \in BOOLEAN  BY <3>1
    <3>3. CASE accept_client(i) /\ UNCHANGED threadVars
      BY <3>2, <3>3, ClientTypes
    <3>4. CASE GoTo("accept", i) /\ UNCHANGED <<fileVars, sockVars, sr>>
      BY <3>2, <3>4 DEF GoTo
    <3> QED  BY <3>1, <3>3, <3>4
  <2>6. ASSUME NEW f \in Fds, Recvfrom(f) PROVE TypeOK'
    BY <2>6 DEF Recvfrom, manage_disconnect, Discon, GoTo, Transfer, get_socket_from_fd
  <2>7. ASSUME NEW f \in Fds, Send(f) PROVE TypeOK'
    BY <2>7 DEF Send, manage_disconnect, Discon, GoTo, Transfer, get_socket_from_fd
  <2>8. ASSUME NEW f \in Fds, Sendto(f) PROVE TypeOK'
    BY <2>8 DEF Sendto, bind_udp, Command, Transfer, get_socket_from_fd
  <2>9. ASSUME NEW f \in Fds, CloseSocket(f) PROVE TypeOK'
    BY <2>9 DEF CloseSocket, file_close, Discon, Command, GoTo, get_socket_from_fd
  <2>10. ASSUME NEW f \in Fds, CloseConnection(f) PROVE TypeOK'
    BY <2>10 DEF CloseConnection, file_close, Discon, GoTo, get_socket_from_fd
  <2>11. CASE ConnectReturns
    BY <2>11 DEF ConnectReturns, Return
  <2>12. CASE ListenReturns
    BY <2>12 DEF ListenReturns, Return
  <2>13. CASE DisconnectDone
    BY <2>13 DEF DisconnectDone, Command, GoTo, Return
  <2>14. CASE CloseReturns
    BY <2>14 DEF CloseReturns, socket_free, Return
  <2>15. CASE CloseConnDone
    BY <2>15 DEF CloseConnDone, socket_free, Command, GoTo, Return
  <2>16. CASE Poll \/ UNCHANGED vars
    BY <2>16 DEF Poll, vars
  <2>18. CASE AcceptReturns
    <3>1. accept_client(cur) /\ Return /\ UNCHANGED stale
      BY <2>18 DEF AcceptReturns
    <3> QED  BY <3>1, ClientTypes DEF Return
  <2>17. ASSUME NEW i \in Sockets,
                ClientConnects(i) \/ ServerAnswers(i) \/ ServerRefuses(i)
                    \/ PeerCloses(i) \/ PeerResets(i) \/ Disconnected(i)
         PROVE TypeOK'
    BY <2>17 DEF ClientConnects, ServerAnswers, ServerRefuses, PeerCloses, PeerResets,
                 Disconnected, Chip
  <2> QED
    BY <2>1, <2>2, <2>3, <2>4, <2>5, <2>6, <2>7, <2>8, <2>9, <2>10, <2>11, <2>12, <2>13,
       <2>14, <2>15, <2>16, <2>17, <2>18 DEF Next, ThreadWaits
<1> QED  BY <1>1, <1>2, PTL DEF Spec

(* Sockets in use can be released, loops run on sockets in use, and an     *)
(* accepted socket has its connection's descriptor.                        *)
LEMMA ReleaseInvariant == Spec => []ReleaseInv
<1>1. Init => ReleaseInv
  BY DEF Init, ReleaseInv, NoOrphanSocket, LoopOK, AcceptedHasConnection
<1>2. TypeOK /\ ReleaseInv /\ [Next]_vars => ReleaseInv'
  <2> SUFFICES ASSUME TypeOK, ReleaseInv, [Next]_vars PROVE ReleaseInv'
    OBVIOUS
  <2> USE NullOutside DEF TypeOK, ReleaseInv, NoOrphanSocket, LoopOK, AcceptedHasConnection
  <2>1. ASSUME UNCHANGED <<used, state, fd_data, connection_data, pc, cur>>
        PROVE  ReleaseInv'
    BY <2>1
  <2>2. ASSUME NEW i \in Sockets, used[i],
               state' = [state EXCEPT ![i] = "BOUND"],
               UNCHANGED <<used, fd_data, connection_data, pc, cur>>
        PROVE  ReleaseInv'
    BY <2>2
  <2>3. ASSUME NEW i \in Sockets, NEW loop \in {"connect", "listen", "accept", "disconnect"},
               used[i], pc = "user", GoTo(loop, i), UNCHANGED sockVars
        PROVE  ReleaseInv'
    BY <2>3 DEF GoTo, sockVars
  <2>4. ASSUME NEW t \in Types, Socket(t) PROVE ReleaseInv'
    <3>1. PICK i \in Sockets, f \in Fds :
            /\ used' = [used EXCEPT ![i] = TRUE]
            /\ state' = [state EXCEPT ![i] = "CREATED"]
            /\ fd_data' = [fd_data EXCEPT ![i] = f]
            /\ connection_data' = [connection_data EXCEPT ![i] = NULL]
            /\ pc = "user" /\ UNCHANGED <<pc, cur>>
      BY <2>4 DEF Socket, threadVars
    <3> QED  BY <3>1
  <2>5. ASSUME NEW f \in Fds, Bind(f) \/ Sendto(f) \/ Connect(f) PROVE ReleaseInv'
    <3>1. PICK i \in Sockets :
            \/ UNCHANGED <<used, state, fd_data, connection_data, pc, cur>>
            \/ /\ state[i] = "CREATED" /\ state' = [state EXCEPT ![i] = "BOUND"]
               /\ UNCHANGED <<used, fd_data, connection_data, pc, cur>>
            \/ /\ state[i] = "CREATED" /\ pc = "user" /\ GoTo("connect", i)
               /\ UNCHANGED sockVars
      BY <2>5 DEF Bind, Sendto, Connect, connect_tcp, connect_udp, ConnectRejected,
           bind_udp, Transfer, get_socket_from_fd, sockVars, threadVars
    <3>2. state[i] = "CREATED" => used[i]  OBVIOUS
    <3> QED  BY <2>1, <2>2, <2>3, <3>1, <3>2
  <2>6. ASSUME NEW f \in Fds, Listen(f) PROVE ReleaseInv'
    <3>1. PICK i \in Sockets : state[i] = "BOUND" /\ pc = "user" /\ GoTo("listen", i)
                                /\ UNCHANGED sockVars
      BY <2>6 DEF Listen, get_socket_from_fd
    <3>2. used[i]  BY <3>1
    <3> QED  BY <2>3, <3>1, <3>2
  <2>7. ASSUME NEW f \in Fds, Recvfrom(f) \/ Send(f) PROVE ReleaseInv'
    <3>1. CASE Transfer
      BY <2>1, <3>1 DEF Transfer, sockVars, threadVars
    <3>2. CASE ~Transfer
      <4>1. PICK i \in Sockets : /\ Connected(i) \/ state[i] \in {"BOUND", "CREATED"}
                                 /\ pc = "user" /\ manage_disconnect(i)
        BY <2>7, <3>2 DEF Recvfrom, Send, get_socket_from_fd
      <4>2. used[i]  BY <4>1 DEF Connected
      <4> QED  BY <2>3, <4>1, <4>2 DEF manage_disconnect
    <3> QED  BY <3>1, <3>2
  <2>8. ASSUME NEW i \in Sockets, used[i], accept_client(i),
               UNCHANGED threadVars \/ Return,
               pc = "user" \/ (pc = "accept" /\ cur = i)
        PROVE  ReleaseInv'
    <3>1. \/ UNCHANGED <<used, state, fd_data, connection_data>>
          \/ \E g \in Fds :
                /\ connection_data' = [connection_data EXCEPT ![i] = g]
                /\ state' = [state EXCEPT ![i] = "ACCEPTED"]
                /\ UNCHANGED <<used, fd_data>>
      BY <2>8 DEF accept_client, sockVars
    <3>2. UNCHANGED <<pc, cur>> \/ (pc' = "user" /\ cur' = NULL)
      BY <2>8 DEF threadVars, Return
    <3>3. CASE UNCHANGED <<used, state, fd_data, connection_data>>
      BY <2>8, <3>2, <3>3
    <3>4. ASSUME NEW g \in Fds,
                 connection_data' = [connection_data EXCEPT ![i] = g],
                 state' = [state EXCEPT ![i] = "ACCEPTED"],
                 UNCHANGED <<used, fd_data>>
          PROVE  ReleaseInv'
      BY <2>8, <3>2, <3>4
    <3> QED  BY <3>1, <3>3, <3>4
  <2>17. CASE AcceptReturns
    <3>1. cur \in Sockets /\ used[cur] /\ accept_client(cur) /\ Return /\ pc = "accept"
      BY <2>17 DEF AcceptReturns
    <3> QED  BY <2>8, <3>1
  <2>18. ASSUME NEW f \in Fds, Accept(f) PROVE ReleaseInv'
    <3>1. PICK i \in Sockets :
             /\ pc = "user" /\ state[i] = "LISTENING"
             /\ \/ accept_client(i) /\ UNCHANGED threadVars
                \/ GoTo("accept", i) /\ UNCHANGED sockVars
      BY <2>18 DEF Accept, get_socket_from_fd
    <3>2. used[i]  BY <3>1
    <3>3. CASE accept_client(i) /\ UNCHANGED threadVars
      BY <2>8, <3>1, <3>2, <3>3
    <3>4. CASE GoTo("accept", i) /\ UNCHANGED sockVars
      BY <2>3, <3>1, <3>2, <3>4
    <3> QED  BY <3>1, <3>3, <3>4
  <2>9. ASSUME NEW f \in Fds, CloseSocket(f) PROVE ReleaseInv'
    <3>1. PICK i \in Sockets :
            /\ fd_data[i] = f /\ pc = "user"
            /\ fd_data' = [fd_data EXCEPT ![i] = NULL]
            /\ UNCHANGED <<used, state, connection_data>>
            /\ \/ state[i] = "ACCEPTED" /\ UNCHANGED <<pc, cur>>
               \/ state[i] # "ACCEPTED" /\ GoTo("close", i)
      BY <2>9 DEF CloseSocket, get_socket_from_fd, threadVars
    <3> QED  BY <3>1 DEF GoTo
  <2>10. ASSUME NEW f \in Fds, CloseConnection(f) PROVE ReleaseInv'
    <3>1. PICK i \in Sockets :
            /\ connection_data[i] = f /\ pc = "user"
            /\ connection_data' = [connection_data EXCEPT ![i] = NULL]
            /\ UNCHANGED <<used, state, fd_data>>
            /\ GoTo("close_conn", i)
      BY <2>10 DEF CloseConnection, get_socket_from_fd
    <3> QED  BY <3>1 DEF GoTo
  <2>11. CASE ConnectReturns
    BY <2>11 DEF ConnectReturns, Return
  <2>12. CASE ListenReturns
    BY <2>12 DEF ListenReturns, Return
  <2>13. CASE DisconnectDone
    BY <2>13 DEF DisconnectDone, GoTo, Return
  <2>14. CASE CloseReturns
    BY <2>14 DEF CloseReturns, socket_free, Return
  <2>15. CASE CloseConnDone
    BY <2>15 DEF CloseConnDone, socket_free, GoTo, Return, sockVars
  <2>16. CASE \/ Poll \/ UNCHANGED vars
              \/ \E i \in Sockets : ClientConnects(i) \/ ServerAnswers(i) \/ ServerRefuses(i)
                                       \/ PeerCloses(i) \/ PeerResets(i) \/ Disconnected(i)
    <3>1. UNCHANGED <<used, state, fd_data, connection_data, pc, cur>>
      BY <2>16 DEF Poll, vars, ClientConnects, ServerAnswers, ServerRefuses, PeerCloses,
           PeerResets, Disconnected, Chip, sockVars, threadVars
    <3> QED  BY <2>1, <3>1
  <2> QED
    BY <2>4, <2>5, <2>6, <2>7, <2>9, <2>10, <2>11, <2>12, <2>13, <2>14, <2>15, <2>16,
       <2>17, <2>18
    DEF Next, ThreadWaits
<1> QED  BY <1>1, <1>2, TypeCorrect, PTL DEF Spec

(* Sockets and descriptors point at each other, whatever is opened,        *)
(* accepted, disconnected and closed in which order.                       *)
THEOREM PointersAgree == Spec => []Ownership
<1>1. Init => Ownership
  BY DEF Init, Ownership
<1>2. TypeOK /\ LoopOK /\ Ownership /\ [Next]_vars => Ownership'
  <2> SUFFICES ASSUME TypeOK, LoopOK, Ownership, [Next]_vars PROVE Ownership'
    OBVIOUS
  <2> USE NullOutside DEF TypeOK, Ownership
  <2>1. ASSUME UNCHANGED <<isallocated, isopen, opaque, fd_data, connection_data>>
        PROVE  Ownership'
    BY <2>1
  <2>2. ASSUME NEW t \in Types, Socket(t) PROVE Ownership'
    <3>1. PICK i \in Sockets, f \in Fds :
            /\ ~isallocated[f]
            /\ fill_fd_struct(f, i)
            /\ fd_data' = [fd_data EXCEPT ![i] = f]
            /\ connection_data' = [connection_data EXCEPT ![i] = NULL]
      BY <2>2 DEF Socket, file_alloc, FreeFds
    <3> QED  BY <3>1 DEF fill_fd_struct
  <2>3. ASSUME NEW i \in Sockets, accept_client(i) PROVE Ownership'
    <3>1. CASE UNCHANGED <<fileVars, sockVars>>
      BY <2>1, <3>1 DEF fileVars, sockVars
    <3>2. CASE ~UNCHANGED <<fileVars, sockVars>>
      <4>1. PICK g \in Fds :
              /\ ~isallocated[g]
              /\ fill_fd_struct(g, i)
              /\ connection_data' = [connection_data EXCEPT ![i] = g]
              /\ fd_data' = fd_data
        BY <2>3, <3>2 DEF accept_client, file_alloc, FreeFds
      <4> QED  BY <4>1 DEF fill_fd_struct
    <3> QED  BY <3>1, <3>2
  <2>6. CASE AcceptReturns \/ \E f \in Fds : Accept(f)
    <3>1. \/ \E i \in Sockets : accept_client(i)
          \/ UNCHANGED <<fileVars, sockVars>>
      BY <2>6 DEF AcceptReturns, Accept, LoopOK, Waits
    <3> QED  BY <2>1, <2>3, <3>1 DEF fileVars, sockVars
  <2>4. ASSUME NEW f \in Fds, CloseSocket(f) PROVE Ownership'
    <3>1. PICK i \in Sockets :
            /\ opaque[f] = i /\ fd_data[i] = f
            /\ file_close(f)
            /\ fd_data' = [fd_data EXCEPT ![i] = NULL]
            /\ connection_data' = connection_data
      BY <2>4 DEF CloseSocket, get_socket_from_fd
    <3> QED  BY <3>1 DEF file_close
  <2>5. ASSUME NEW f \in Fds, CloseConnection(f) PROVE Ownership'
    <3>1. PICK i \in Sockets :
            /\ opaque[f] = i /\ fd_data[i] # f /\ connection_data[i] = f
            /\ file_close(f)
            /\ connection_data' = [connection_data EXCEPT ![i] = NULL]
            /\ fd_data' = fd_data
      BY <2>5 DEF CloseConnection, get_socket_from_fd
    <3> QED  BY <3>1 DEF file_close
  <2>7. CASE CloseReturns \/ CloseConnDone
    <3>1. UNCHANGED fileVars /\ (socket_free(cur) \/ UNCHANGED sockVars)
      BY <2>7 DEF CloseReturns, CloseConnDone
    <3>2. CASE UNCHANGED sockVars
      BY <2>1, <3>1, <3>2 DEF fileVars, sockVars
    <3>3. CASE socket_free(cur)
      BY <3>1, <3>3 DEF socket_free, fileVars
    <3> QED  BY <3>1, <3>2, <3>3
  <2>8. CASE \/ \E f \in Fds : Bind(f) \/ Connect(f) \/ Listen(f) \/ Recvfrom(f)
                              \/ Send(f) \/ Sendto(f)
             \/ ConnectReturns \/ ListenReturns \/ DisconnectDone \/ Poll \/ UNCHANGED vars
             \/ \E i \in Sockets : ClientConnects(i) \/ ServerAnswers(i) \/ ServerRefuses(i)
                                      \/ PeerCloses(i) \/ PeerResets(i) \/ Disconnected(i)
    <3>1. UNCHANGED <<isallocated, isopen, opaque, fd_data, connection_data>>
      BY <2>8 DEF Bind, Connect, connect_tcp, connect_udp, ConnectRejected, Listen, Recvfrom,
           Send, Sendto, Transfer, manage_disconnect, ConnectReturns, ListenReturns,
           DisconnectDone, Poll, vars, ClientConnects, ServerAnswers, ServerRefuses,
           PeerCloses, PeerResets, Disconnected, Chip, fileVars, sockVars
    <3> QED  BY <2>1, <3>1
  <2> QED  BY <2>2, <2>4, <2>5, <2>6, <2>7, <2>8 DEF Next, ThreadWaits
<1>3. ReleaseInv => LoopOK  BY DEF ReleaseInv
<1> QED  BY <1>1, <1>2, <1>3, TypeCorrect, ReleaseInvariant, PTL DEF Spec

(* A socket in use always has a descriptor left whose close() releases it, *)
(* or is being released: no sequence of calls uses a chip socket up.       *)
THEOREM NoSocketLost == Spec => []NoOrphanSocket
<1>1. ReleaseInv => NoOrphanSocket  BY DEF ReleaseInv
<1> QED  BY <1>1, ReleaseInvariant, PTL

-----------------------------------------------------------------------------
(* The driver and the chip. *)

(* ChipAgrees of one socket. *)
Agrees(i) ==
    /\ state[i] \in {"NONE", "CREATED", "DISCONNECTED"} => sr[i] = "CLOSED"
    /\ state[i] = "BOUND" => sr[i] = IF type[i] = "SOCK_STREAM" THEN "INIT" ELSE "UDP"
    /\ state[i] \in {"CONNECTED", "ACCEPTED"} => sr[i] \in {"ESTABLISHED", "CLOSE_WAIT", "CLOSED"}
    /\ state[i] = "LISTENING" => sr[i] \in {"LISTEN", "ESTABLISHED", "CLOSE_WAIT", "CLOSED"}

(* The inductive invariant behind ChipAgrees: the socket of a polling loop *)
(* is left out until the loop has seen a status that settles it, and the   *)
(* loops of connect_tcp and accept run on a socket that is still CREATED   *)
(* or LISTENING.                                                           *)
ChipInv ==
    /\ \A i \in Sockets : i # cur => Agrees(i)
    /\ pc = "connect" => state[cur] = "CREATED"
    /\ pc = "accept" => state[cur] = "LISTENING"

LEMMA AgreesIsChipAgrees == TypeOK => (ChipAgrees <=> \A i \in Sockets : i # cur => Agrees(i))
  BY DEF TypeOK, States, ChipAgrees, Agrees

(* ChipInv is an invariant. *)
LEMMA ChipInvariant == Spec => []ChipInv
<1>1. Init => ChipInv
  BY DEF Init, ChipInv, Agrees
<1>2. TypeOK /\ ReleaseInv /\ ChipInv /\ [Next]_vars => ChipInv'
  <2> SUFFICES ASSUME TypeOK, ReleaseInv, ChipInv, [Next]_vars PROVE ChipInv'
    OBVIOUS
  <2>0. pc = "user" <=> cur = NULL  BY DEF ReleaseInv, LoopOK
  <2> USE NullOutside, <2>0 DEF TypeOK, ChipInv, Agrees, fileVars, sockVars, threadVars
  <2>1. ASSUME NEW t \in Types, Socket(t) PROVE ChipInv'
    <3>1. PICK i \in Sockets :
            /\ ~used[i] /\ pc = "user" /\ UNCHANGED <<sr, pc, cur>>
            /\ type' = [type EXCEPT ![i] = t]
            /\ state' = [state EXCEPT ![i] = "CREATED"]
      BY <2>1 DEF Socket, socket_alloc, FreeSockets
    <3>2. state[i] = "NONE"  BY <3>1 DEF ReleaseInv, NoOrphanSocket
    <3> QED  BY <3>1, <3>2
  <2>2. ASSUME NEW f \in Fds, Bind(f) PROVE ChipInv'
    BY <2>2 DEF Bind, bind_udp, Command, get_socket_from_fd
  <2>3. ASSUME NEW f \in Fds, Connect(f) PROVE ChipInv'
    BY <2>3 DEF Connect, connect_tcp, connect_udp, ConnectRejected, bind_udp, Command,
                GoTo, get_socket_from_fd
  <2>4. ASSUME NEW f \in Fds, Listen(f) PROVE ChipInv'
    BY <2>4 DEF Listen, Command, GoTo, get_socket_from_fd
  <2>5. ASSUME NEW f \in Fds, Accept(f) PROVE ChipInv'
    BY <2>5 DEF Accept, accept_client, Command, GoTo, get_socket_from_fd
  <2>16. CASE AcceptReturns
    BY <2>16 DEF AcceptReturns, accept_client, Command, Return
  <2>6. ASSUME NEW f \in Fds, Recvfrom(f) \/ Send(f) PROVE ChipInv'
    BY <2>6 DEF Recvfrom, Send, manage_disconnect, Discon, GoTo, Transfer, get_socket_from_fd
  <2>7. ASSUME NEW f \in Fds, Sendto(f) PROVE ChipInv'
    BY <2>7 DEF Sendto, bind_udp, Command, Transfer, get_socket_from_fd
  <2>8. ASSUME NEW f \in Fds, CloseSocket(f) PROVE ChipInv'
    BY <2>8 DEF CloseSocket, Discon, Command, GoTo, get_socket_from_fd
  <2>9. ASSUME NEW f \in Fds, CloseConnection(f) PROVE ChipInv'
    BY <2>9 DEF CloseConnection, Discon, GoTo, get_socket_from_fd
  <2>10. CASE ConnectReturns
    BY <2>10 DEF ConnectReturns, Return
  <2>11. CASE ListenReturns
    BY <2>11 DEF ListenReturns, Return
  <2>12. CASE DisconnectDone
    BY <2>12 DEF DisconnectDone, Command, GoTo, Return
  <2>13. CASE CloseReturns \/ CloseConnDone
    BY <2>13 DEF CloseReturns, CloseConnDone, socket_free, Command, GoTo, Return
  <2>14. CASE Poll \/ UNCHANGED vars
    BY <2>14 DEF Poll, vars
  <2>15. ASSUME NEW i \in Sockets,
                ClientConnects(i) \/ ServerAnswers(i) \/ ServerRefuses(i)
                    \/ PeerCloses(i) \/ PeerResets(i) \/ Disconnected(i)
         PROVE ChipInv'
    BY <2>15 DEF ClientConnects, ServerAnswers, ServerRefuses, PeerCloses, PeerResets,
                 Disconnected, Chip, States
  <2> QED
    BY <2>1, <2>2, <2>3, <2>4, <2>5, <2>6, <2>7, <2>8, <2>9, <2>10, <2>11, <2>12, <2>13,
       <2>14, <2>15, <2>16 DEF Next, ThreadWaits
<1> QED  BY <1>1, <1>2, TypeCorrect, ReleaseInvariant, PTL DEF Spec

(* The state the driver keeps of a socket and the status register of the   *)
(* chip stay in step through every sequence of calls, and whatever the     *)
(* peers do.                                                               *)
THEOREM ChipInStep == Spec => []ChipAgrees
<1>1. TypeOK /\ ChipInv => ChipAgrees  BY AgreesIsChipAgrees DEF ChipInv
<1> QED  BY <1>1, TypeCorrect, ChipInvariant, PTL

(* An accepted client stays connected until it leaves by itself or its own *)
(* descriptor is closed, whatever command any other call gives the chip.   *)
THEOREM AcceptedKept == Spec => AcceptedClientKept
<1> DEFINE Kept(i) ==
        state[i] = "ACCEPTED" /\ sr[i] = "ESTABLISHED" /\ sr'[i] # "ESTABLISHED"
            => \/ PeerCloses(i) \/ PeerResets(i)
               \/ \E f \in Fds : connection_data[i] = f /\ isopen[f] /\ ~isopen'[f]
<1>1. TypeOK /\ LoopOK /\ ChipInv /\ [Next]_vars => [\A i \in Sockets : Kept(i)]_vars
  <2> SUFFICES ASSUME TypeOK, LoopOK, ChipInv, Next, NEW i \in Sockets PROVE Kept(i)
    OBVIOUS
  <2> USE NullOutside DEF TypeOK, fileVars, sockVars, threadVars
  <2>1. ASSUME UNCHANGED sr PROVE Kept(i)
    BY <2>1
  <2>2. ASSUME NEW f \in Fds, Bind(f) \/ Sendto(f) PROVE Kept(i)
    BY <2>2 DEF Bind, Sendto, bind_udp, Command, Transfer
  <2>3. ASSUME NEW f \in Fds, Connect(f) \/ Listen(f) \/ Accept(f) PROVE Kept(i)
    BY <2>3 DEF Connect, connect_tcp, connect_udp, ConnectRejected, Listen, Accept,
                accept_client, bind_udp, Command
  <2>4. ASSUME NEW f \in Fds, Recvfrom(f) \/ Send(f) PROVE Kept(i)
    BY <2>4 DEF Recvfrom, Send, manage_disconnect, Discon, Transfer
  <2>5. ASSUME NEW f \in Fds, CloseSocket(f) PROVE Kept(i)
    BY <2>5 DEF CloseSocket, Discon, Command
  <2>6. ASSUME NEW f \in Fds, CloseConnection(f) PROVE Kept(i)
    BY <2>6 DEF CloseConnection, file_close, Discon
  <2>7. CASE DisconnectDone \/ CloseConnDone
    BY <2>7 DEF DisconnectDone, CloseConnDone, Command
  <2>8. CASE \/ \E t \in Types : Socket(t)
             \/ ConnectReturns \/ ListenReturns \/ CloseReturns \/ Poll
    BY <2>1, <2>8 DEF Socket, ConnectReturns, ListenReturns, CloseReturns, Poll, vars
  <2>9. CASE AcceptReturns
    <3>1. state[cur] = "LISTENING" /\ cur \in Sockets  BY <2>9 DEF AcceptReturns, ChipInv, LoopOK
    <3> QED  BY <2>9, <3>1 DEF AcceptReturns, accept_client, Command
  <2>10. ASSUME NEW j \in Sockets,
                ClientConnects(j) \/ ServerAnswers(j) \/ ServerRefuses(j) \/ Disconnected(j)
         PROVE  Kept(i)
    BY <2>10 DEF ClientConnects, ServerAnswers, ServerRefuses, Disconnected, Chip
  <2>11. ASSUME NEW j \in Sockets, PeerCloses(j) \/ PeerResets(j) PROVE Kept(i)
    <3>1. CASE j = i
      BY <2>11, <3>1
    <3>2. CASE j # i
      BY <2>11, <3>2 DEF PeerCloses, PeerResets, Chip
    <3> QED  BY <3>1, <3>2
  <2> QED
    BY <2>2, <2>3, <2>4, <2>5, <2>6, <2>7, <2>8, <2>9, <2>10, <2>11 DEF Next, ThreadWaits
<1>2. ReleaseInv => LoopOK  BY DEF ReleaseInv
<1> QED  BY <1>1, <1>2, TypeCorrect, ReleaseInvariant, ChipInvariant, PTL DEF Spec, AcceptedClientKept
=============================================================================
