----------------------------- MODULE W5100Socket -----------------------------
(***************************************************************************)
(* BSD sockets on the W5100 Ethernet chip: src/src/w5100_socket.c, with    *)
(* the descriptor table of file.c and _close() of syscalls.c under it.     *)
(*                                                                         *)
(* One thread makes the calls.  The chip runs by itself: it opens, closes  *)
(* and resets connections between any two reads of its status register.    *)
(* Every loop that polls that register is a point where the call waits, so *)
(* a call is split there and nowhere else; the fields the calls test are   *)
(* touched by the thread only.  A call that fails without having changed   *)
(* anything is not a step.  Payload bytes, time-outs and O_NONBLOCK are in *)
(* W5100Stream: here a transfer either moves some data, which changes      *)
(* nothing in this state, or finds none and looks for a disconnection.     *)
(***************************************************************************)
EXTENDS Integers, FiniteSets

CONSTANTS
    OPEN_MAX,              \* length of files[]
    W5100_N_SOCKETS,       \* length of w5100_sockets[]
    Types                  \* the socket types the application asks for

ASSUME TableAssumption == OPEN_MAX \in Nat /\ W5100_N_SOCKETS \in Nat
ASSUME TypesAssumption == Types \subseteq {"SOCK_STREAM", "SOCK_DGRAM", "SOCK_RAW"}

VARIABLES
    isallocated,           \* files[fd].isallocated
    isopen,                \* files[fd].isopen
    opaque,                \* files[fd].opaque: a socket, or NULL
    used,                  \* w5100_sockets[i].fd # W5100_SOCKET_FREE
    type,                  \* .type
    state,                 \* .state
    fd_data,               \* .fd_data: the descriptor of socket(), or NULL
    connection_data,       \* .connection_data: the descriptor of accept(), or NULL
    sr,                    \* chip: status register Sn_SR
    pc,                    \* the polling loop the thread is in, or "user"
    cur,                   \* the socket that loop polls
    stale                  \* history: a call went ahead on a closed descriptor

fileVars == <<isallocated, isopen, opaque>>
sockVars == <<used, type, state, fd_data, connection_data>>
threadVars == <<pc, cur>>
vars == <<fileVars, sockVars, sr, threadVars, stale>>

NULL == -1
Fds == 3..(OPEN_MAX - 1)           \* 0, 1 and 2 are the USART's
Sockets == 0..(W5100_N_SOCKETS - 1)

States == {"NONE", "CREATED", "CONNECTED", "BOUND", "LISTENING", "ACCEPTED",
           "DISCONNECTED"}

(* The chip's states; "CLOSING" stands for those of a disconnection. *)
Status == {"CLOSED", "INIT", "LISTEN", "SYNSENT", "ESTABLISHED", "CLOSE_WAIT",
           "CLOSING", "UDP"}

Waits == {"connect", "listen", "accept", "close", "close_conn", "relisten",
          "disconnect"}

TypeOK ==
    /\ isallocated \in [Fds -> BOOLEAN]
    /\ isopen \in [Fds -> BOOLEAN]
    /\ opaque \in [Fds -> Sockets \cup {NULL}]
    /\ used \in [Sockets -> BOOLEAN]
    /\ type \in [Sockets -> Types \cup {"none"}]
    /\ state \in [Sockets -> States]
    /\ fd_data \in [Sockets -> Fds \cup {NULL}]
    /\ connection_data \in [Sockets -> Fds \cup {NULL}]
    /\ sr \in [Sockets -> Status]
    /\ pc \in Waits \cup {"user"}
    /\ cur \in Sockets \cup {NULL}
    /\ stale \in BOOLEAN

(* After w5100_socket_init: the chip is reset and every socket freed. *)
Init ==
    /\ isallocated = [f \in Fds |-> FALSE]
    /\ isopen = [f \in Fds |-> FALSE]
    /\ opaque = [f \in Fds |-> NULL]
    /\ used = [i \in Sockets |-> FALSE]
    /\ type = [i \in Sockets |-> "none"]
    /\ state = [i \in Sockets |-> "NONE"]
    /\ fd_data = [i \in Sockets |-> NULL]
    /\ connection_data = [i \in Sockets |-> NULL]
    /\ sr = [i \in Sockets |-> "CLOSED"]
    /\ pc = "user"
    /\ cur = NULL
    /\ stale = FALSE

-----------------------------------------------------------------------------
(* The descriptor table. *)

FreeFds == {f \in Fds : ~isallocated[f]}

(* file_alloc: the lowest free descriptor. *)
file_alloc(f) == f \in FreeFds /\ \A g \in FreeFds : f <= g

(* Mutant: opaque is set to the entry after the socket's. *)
FillNextSocket(f, i) ==
    /\ isallocated' = [isallocated EXCEPT ![f] = TRUE]
    /\ isopen' = [isopen EXCEPT ![f] = TRUE]
    /\ opaque' = [opaque EXCEPT ![f] = i + 1]

(* file_alloc clears the entry, fill_fd_struct makes it a socket. *)
fill_fd_struct(f, i) ==
    /\ isallocated' = [isallocated EXCEPT ![f] = TRUE]
    /\ isopen' = [isopen EXCEPT ![f] = TRUE]
    /\ opaque' = [opaque EXCEPT ![f] = i]

(* The close of a socket: isopen = 0 and file_free; opaque stays. *)
file_close(f) ==
    /\ isallocated' = [isallocated EXCEPT ![f] = FALSE]
    /\ isopen' = [isopen EXCEPT ![f] = FALSE]
    /\ UNCHANGED opaque

(* get_socket_from_fd succeeds: it looks at the mode and at opaque, and    *)
(* not at isopen.                                                          *)
get_socket_from_fd(f, i) ==
    /\ pc = "user"
    /\ opaque[f] = i
    /\ stale' = (stale \/ ~isopen[f])

(* A polling loop begins, or the call returns. *)
GoTo(loop, i) == pc' = loop /\ cur' = i
Return == pc' = "user" /\ cur' = NULL

(* The effect of a command on the status register: DISCON starts a closing *)
(* handshake unless the socket is closed already.                          *)
Discon(i) == sr' = [sr EXCEPT ![i] = IF @ = "CLOSED" THEN "CLOSED" ELSE "CLOSING"]
Command(i, s) == sr' = [sr EXCEPT ![i] = s]

-----------------------------------------------------------------------------
(* The calls. *)

FreeSockets == {i \in Sockets : ~used[i]}
socket_alloc(i) == i \in FreeSockets /\ \A j \in FreeSockets : i <= j

(* socket(); with no free socket or no free descriptor nothing changes. *)
Socket(t) ==
    /\ pc = "user"
    /\ \E i \in Sockets, f \in Fds :
        /\ socket_alloc(i)
        /\ file_alloc(f)
        /\ fill_fd_struct(f, i)
        /\ used' = [used EXCEPT ![i] = TRUE]
        /\ type' = [type EXCEPT ![i] = t]
        /\ state' = [state EXCEPT ![i] = "CREATED"]
        /\ fd_data' = [fd_data EXCEPT ![i] = f]
        /\ connection_data' = [connection_data EXCEPT ![i] = NULL]
    /\ UNCHANGED <<sr, threadVars, stale>>

(* bind_udp: the chip socket is opened in UDP mode. *)
bind_udp(i) ==
    /\ Command(i, "UDP")
    /\ state' = [state EXCEPT ![i] = "BOUND"]

(* Mutant: a bind that does not open the chip's socket. *)
BindKeepsClosed(f) ==
    \E i \in Sockets :
        /\ get_socket_from_fd(f, i)
        /\ state[i] = "CREATED" /\ type[i] = "SOCK_STREAM"
        /\ state' = [state EXCEPT ![i] = "BOUND"]
        /\ UNCHANGED <<fileVars, used, type, fd_data, connection_data, sr, threadVars>>

(* bind() of a fresh socket; it opens the chip's socket. *)
Bind(f) ==
    \E i \in Sockets :
        /\ get_socket_from_fd(f, i)
        /\ state[i] = "CREATED"
        /\ \/ /\ type[i] = "SOCK_STREAM"
              /\ Command(i, "INIT")
              /\ state' = [state EXCEPT ![i] = "BOUND"]
           \/ type[i] = "SOCK_DGRAM" /\ bind_udp(i)
        /\ UNCHANGED <<fileVars, used, type, fd_data, connection_data, threadVars>>

(* connect() of a stream: OPEN, CONNECT, and the loop on the status. *)
connect_tcp(i) ==
    /\ type[i] = "SOCK_STREAM" /\ state[i] = "CREATED"
    /\ Command(i, "SYNSENT")
    /\ GoTo("connect", i)
    /\ UNCHANGED sockVars

(* connect() of a datagram socket binds it to a free port. *)
connect_udp(i) ==
    /\ type[i] = "SOCK_DGRAM" /\ state[i] = "CREATED"
    /\ bind_udp(i)
    /\ UNCHANGED <<used, type, fd_data, connection_data, threadVars>>

(* connect() in another state: EISCONN, EOPNOTSUPP, EAFNOSUPPORT. *)
ConnectRejected(i) ==
    /\ state[i] # "CREATED" \/ type[i] = "SOCK_RAW"
    /\ UNCHANGED <<sockVars, sr, threadVars>>

Connect(f) ==
    \E i \in Sockets :
        /\ get_socket_from_fd(f, i)
        /\ connect_tcp(i) \/ connect_udp(i) \/ ConnectRejected(i)
        /\ UNCHANGED <<fileVars>>

(* Mutant: the loop of connect_tcp waits for success only. *)
ConnectWaitsForSuccess ==
    /\ pc = "connect" /\ sr[cur] = "ESTABLISHED"
    /\ state' = [state EXCEPT ![cur] = "CONNECTED"]
    /\ Return
    /\ UNCHANGED <<fileVars, used, type, fd_data, connection_data, sr, stale>>

(* The loop of connect_tcp ends: connected, or refused and still CREATED. *)
ConnectReturns ==
    /\ pc = "connect" /\ sr[cur] \in {"CLOSED", "ESTABLISHED"}
    /\ state' = IF sr[cur] = "ESTABLISHED"
                THEN [state EXCEPT ![cur] = "CONNECTED"] ELSE state
    /\ Return
    /\ UNCHANGED <<fileVars, used, type, fd_data, connection_data, sr, stale>>

(* listen() of a bound stream. *)
Listen(f) ==
    \E i \in Sockets :
        /\ get_socket_from_fd(f, i)
        /\ state[i] = "BOUND" /\ type[i] = "SOCK_STREAM"
        /\ Command(i, "LISTEN")
        /\ GoTo("listen", i)
        /\ UNCHANGED <<fileVars, sockVars>>

(* The loop after LISTEN ends, in listen() and wherever a socket goes back *)
(* to listening.                                                           *)
ListenReturns ==
    /\ pc \in {"listen", "relisten"} /\ sr[cur] \in {"LISTEN", "ESTABLISHED"}
    /\ state' = [state EXCEPT ![cur] = "LISTENING"]
    /\ Return
    /\ UNCHANGED <<fileVars, used, type, fd_data, connection_data, sr, stale>>

(* Mutant: the connection is recorded under the listener's descriptor. *)
AcceptReusesFd(i) ==
    /\ sr[i] = "ESTABLISHED"
    /\ connection_data' = [connection_data EXCEPT ![i] = fd_data[i]]
    /\ state' = [state EXCEPT ![i] = "ACCEPTED"]
    /\ UNCHANGED <<fileVars, used, type, fd_data, sr>>

(* accept() finds a client: the connection gets a descriptor of its own on *)
(* the same chip socket.  With no descriptor left the client is dropped    *)
(* and the socket listens again.                                           *)
accept_client(i) ==
    /\ sr[i] = "ESTABLISHED"
    /\ \/ /\ \E g \in Fds :
                /\ file_alloc(g)
                /\ fill_fd_struct(g, i)
                /\ connection_data' = [connection_data EXCEPT ![i] = g]
          /\ state' = [state EXCEPT ![i] = "ACCEPTED"]
          /\ UNCHANGED <<used, type, fd_data, sr>>
       \/ /\ FreeFds = {}
          /\ Command(i, "LISTEN")
          /\ UNCHANGED <<fileVars, sockVars>>

(* accept() on a listening socket: the first look at the status finds a    *)
(* client or, unless the listener is O_NONBLOCK, the call waits for one.   *)
Accept(f) ==
    \E i \in Sockets :
        /\ get_socket_from_fd(f, i)
        /\ state[i] = "LISTENING" /\ type[i] = "SOCK_STREAM"
        /\ \/ accept_client(i) /\ UNCHANGED threadVars
           \/ /\ sr[i] # "ESTABLISHED"
              /\ GoTo("accept", i)
              /\ UNCHANGED <<fileVars, sockVars, sr>>

(* The loop of accept() ends: ESTABLISHED is the only value it looks for. *)
AcceptReturns ==
    /\ pc = "accept"
    /\ accept_client(cur)
    /\ Return
    /\ UNCHANGED stale

(* manage_disconnect: no data, and the connection is not established. *)
manage_disconnect(i) ==
    /\ sr[i] # "ESTABLISHED"
    /\ Discon(i)
    /\ GoTo("disconnect", i)
    /\ UNCHANGED <<fileVars, sockVars>>

(* Its loop ends: back to listening for an accepted connection, else the   *)
(* socket is disconnected.  connection_data is left as it is.              *)
DisconnectDone ==
    /\ pc = "disconnect" /\ sr[cur] = "CLOSED"
    /\ \/ /\ state[cur] = "ACCEPTED" /\ fd_data[cur] # NULL
          /\ Command(cur, "LISTEN")
          /\ GoTo("relisten", cur)
          /\ UNCHANGED state
       \/ /\ state[cur] # "ACCEPTED" \/ fd_data[cur] = NULL
          /\ state' = [state EXCEPT ![cur] = "DISCONNECTED"]
          /\ Return
          /\ UNCHANGED sr
    /\ UNCHANGED <<fileVars, used, type, fd_data, connection_data, stale>>

Connected(i) == state[i] \in {"ACCEPTED", "CONNECTED"}

(* Data is moved, or there is none and the call gives up waiting: how is   *)
(* W5100Stream's subject.                                                  *)
Transfer == UNCHANGED <<fileVars, sockVars, sr, threadVars>>

(* recvfrom(): data is read, or there is none; then a stream looks for a   *)
(* disconnection.                                                          *)
Recvfrom(f) ==
    \E i \in Sockets :
        /\ get_socket_from_fd(f, i)
        /\ \/ type[i] = "SOCK_STREAM" /\ Connected(i)
           \/ type[i] = "SOCK_DGRAM" /\ state[i] \in {"BOUND", "CREATED"}
           \/ type[i] = "SOCK_RAW"
        /\ Transfer \/ (type[i] = "SOCK_STREAM" /\ manage_disconnect(i))

(* send(), and sendto() of a stream: the same when no space is left. *)
Send(f) ==
    \E i \in Sockets :
        /\ get_socket_from_fd(f, i)
        /\ type[i] = "SOCK_STREAM" /\ Connected(i)
        /\ Transfer \/ manage_disconnect(i)

(* sendto() of a datagram socket, and its send(), bind a fresh one first. *)
Sendto(f) ==
    \E i \in Sockets :
        /\ get_socket_from_fd(f, i)
        /\ type[i] = "SOCK_DGRAM"
        /\ \/ /\ state[i] = "CREATED" /\ bind_udp(i)
              /\ UNCHANGED <<fileVars, used, type, fd_data, connection_data, threadVars>>
           \/ state[i] # "CREATED" /\ Transfer

(* Mutant: close() does not ask whether a connection is accepted. *)
CloseSocketAlways(f) ==
    \E i \in Sockets :
        /\ isopen[f] /\ get_socket_from_fd(f, i)
        /\ fd_data[i] = f
        /\ file_close(f)
        /\ fd_data' = [fd_data EXCEPT ![i] = NULL]
        /\ IF state[i] = "CONNECTED" THEN Discon(i) ELSE Command(i, "CLOSED")
        /\ GoTo("close", i)
        /\ UNCHANGED <<used, type, state, connection_data>>

(* close() of an open descriptor that socket() returned.  While a          *)
(* connection is accepted the socket outlives it.                          *)
CloseSocket(f) ==
    \E i \in Sockets :
        /\ isopen[f] /\ get_socket_from_fd(f, i)
        /\ fd_data[i] = f
        /\ file_close(f)
        /\ fd_data' = [fd_data EXCEPT ![i] = NULL]
        /\ \/ /\ state[i] = "ACCEPTED"
              /\ UNCHANGED <<sr, threadVars>>
           \/ /\ state[i] = "CONNECTED" /\ Discon(i)
              /\ GoTo("close", i)
           \/ /\ state[i] \notin {"ACCEPTED", "CONNECTED"} /\ Command(i, "CLOSED")
              /\ GoTo("close", i)
        /\ UNCHANGED <<used, type, state, connection_data>>

socket_free(i) ==
    /\ used' = [used EXCEPT ![i] = FALSE]
    /\ state' = [state EXCEPT ![i] = "NONE"]
    /\ fd_data' = [fd_data EXCEPT ![i] = NULL]
    /\ connection_data' = [connection_data EXCEPT ![i] = NULL]
    /\ UNCHANGED type

(* The chip's socket is closed: the socket is free again. *)
CloseReturns ==
    /\ pc = "close" /\ sr[cur] = "CLOSED"
    /\ socket_free(cur)
    /\ Return
    /\ UNCHANGED <<fileVars, sr, stale>>

(* close() of an open descriptor that accept() returned. *)
CloseConnection(f) ==
    \E i \in Sockets :
        /\ isopen[f] /\ get_socket_from_fd(f, i)
        /\ fd_data[i] # f /\ connection_data[i] = f
        /\ file_close(f)
        /\ connection_data' = [connection_data EXCEPT ![i] = NULL]
        /\ Discon(i)
        /\ GoTo("close_conn", i)
        /\ UNCHANGED <<used, type, state, fd_data>>

(* Mutant: the socket always goes back to listening. *)
CloseConnRelistens ==
    /\ pc = "close_conn" /\ sr[cur] = "CLOSED"
    /\ Command(cur, "LISTEN")
    /\ GoTo("relisten", cur)
    /\ UNCHANGED <<fileVars, sockVars, stale>>

(* The connection is down: the socket is freed if its listener was closed  *)
(* before, and listens again otherwise.                                    *)
CloseConnDone ==
    /\ pc = "close_conn" /\ sr[cur] = "CLOSED"
    /\ \/ /\ fd_data[cur] = NULL
          /\ socket_free(cur)
          /\ Return
          /\ UNCHANGED sr
       \/ /\ fd_data[cur] # NULL
          /\ Command(cur, "LISTEN")
          /\ GoTo("relisten", cur)
          /\ UNCHANGED sockVars
    /\ UNCHANGED <<fileVars, stale>>

(* A polling loop turns without a change. *)
Poll == pc # "user" /\ UNCHANGED vars

-----------------------------------------------------------------------------
(* The chip. *)

Chip(i, from, to) ==
    /\ sr[i] \in from
    /\ sr' = [sr EXCEPT ![i] = to]
    /\ UNCHANGED <<fileVars, sockVars, threadVars, stale>>

ClientConnects(i) == Chip(i, {"LISTEN"}, "ESTABLISHED")
ServerAnswers(i) == Chip(i, {"SYNSENT"}, "ESTABLISHED")
ServerRefuses(i) == Chip(i, {"SYNSENT"}, "CLOSED")
PeerCloses(i) == Chip(i, {"ESTABLISHED"}, "CLOSE_WAIT")
PeerResets(i) == Chip(i, {"ESTABLISHED", "CLOSE_WAIT"}, "CLOSED")
Disconnected(i) == Chip(i, {"CLOSING"}, "CLOSED")

-----------------------------------------------------------------------------

ThreadWaits ==
    \/ ConnectReturns \/ ListenReturns \/ AcceptReturns \/ DisconnectDone
    \/ CloseReturns \/ CloseConnDone

Next ==
    \/ \E t \in Types : Socket(t)
    \/ \E f \in Fds : Bind(f) \/ Connect(f) \/ Listen(f) \/ Accept(f)
                        \/ Recvfrom(f) \/ Send(f) \/ Sendto(f)
                        \/ CloseSocket(f) \/ CloseConnection(f)
    \/ ThreadWaits
    \/ Poll
    \/ \E i \in Sockets : ClientConnects(i) \/ ServerAnswers(i) \/ ServerRefuses(i)
                            \/ PeerCloses(i) \/ PeerResets(i) \/ Disconnected(i)

(* The thread polls on, and the chip ends every handshake: a connection    *)
(* attempt and a disconnection are answered or time out.                   *)
Fairness ==
    /\ WF_vars(ThreadWaits)
    /\ \A i \in Sockets : WF_vars(Disconnected(i))
                            /\ WF_vars(ServerAnswers(i) \/ ServerRefuses(i))

Spec == Init /\ [][Next]_vars
FairSpec == Spec /\ Fairness

-----------------------------------------------------------------------------
(* Properties. *)

Owned == {f \in Fds : \E i \in Sockets : fd_data[i] = f \/ connection_data[i] = f}

(* The pointers between sockets and descriptors agree both ways: what a    *)
(* socket calls its descriptor or its connection is allocated, open and    *)
(* points back at that socket, and a socket's two descriptors differ, so   *)
(* no descriptor is shared by two sockets or by two roles, through any     *)
(* sequence of accepts, disconnections and closes in any order.            *)
Ownership ==
    /\ \A i \in Sockets : \A f \in {fd_data[i], connection_data[i]} \ {NULL} :
            isallocated[f] /\ isopen[f] /\ opaque[f] = i
    /\ \A i \in Sockets : fd_data[i] # NULL => fd_data[i] # connection_data[i]
    /\ \A f \in Fds : isopen[f] => isallocated[f]

(* A socket in use can be released: one of its descriptors is left to      *)
(* close, or close() is releasing it now.  An unused one holds nothing.    *)
NoOrphanSocket ==
    \A i \in Sockets :
        /\ used[i] => \/ fd_data[i] # NULL
                      \/ connection_data[i] # NULL
                      \/ cur = i /\ pc \in {"close", "close_conn"}
        /\ ~used[i] => /\ fd_data[i] = NULL /\ connection_data[i] = NULL
                       /\ state[i] = "NONE"

(* What the driver believes of a socket is what the chip may be doing:     *)
(* every command sequence (OPEN, LISTEN, CONNECT, DISCON, CLOSE) leaves    *)
(* the two in step, in spite of the peer's closes and resets.              *)
ChipAgrees ==
    \A i \in Sockets : i # cur =>
        CASE state[i] \in {"NONE", "CREATED", "DISCONNECTED"} -> sr[i] = "CLOSED"
          [] state[i] = "BOUND" ->
                sr[i] = IF type[i] = "SOCK_STREAM" THEN "INIT" ELSE "UDP"
          [] state[i] \in {"CONNECTED", "ACCEPTED"} ->
                sr[i] \in {"ESTABLISHED", "CLOSE_WAIT", "CLOSED"}
          [] state[i] = "LISTENING" ->
                sr[i] \in {"LISTEN", "ESTABLISHED", "CLOSE_WAIT", "CLOSED"}

(* The peer closed or reset the connection before the loop looked: its     *)
(* exit values are gone, and the loop may turn for ever.                   *)
MissedConnection ==
    \/ pc = "connect" /\ sr[cur] = "CLOSE_WAIT"
    \/ pc \in {"listen", "relisten", "accept"} /\ sr[cur] \in {"CLOSE_WAIT", "CLOSED"}

(* accept() waits and nobody has come. *)
NoClientYet == pc = "accept" /\ sr[cur] = "LISTEN"

(* Every loop that waits for a value of the status register (in connect(), *)
(* listen(), accept(), close() and manage_disconnect()) ends: the chip was *)
(* told to get there.  The exceptions are an accept() to which no client   *)
(* comes, and a connection that came and went between two looks.           *)
CallsReturn == (pc # "user") ~> (pc = "user" \/ MissedConnection \/ NoClientYet)

(* A client that has been accepted stays connected until it closes or     *)
(* resets the connection itself, or close() is called on the connection's  *)
(* own descriptor: no other call takes its chip socket out of ESTABLISHED, *)
(* with DISCON, CLOSE or any other command; not the close of its listener, *)
(* nor a call on another socket or on a closed descriptor.                 *)
AcceptedClientKept ==
    [][\A i \in Sockets :
        state[i] = "ACCEPTED" /\ sr[i] = "ESTABLISHED" /\ sr'[i] # "ESTABLISHED"
            => \/ PeerCloses(i) \/ PeerResets(i)
               \/ \E f \in Fds : connection_data[i] = f /\ isopen[f] /\ ~isopen'[f]]_vars

(* The socket_errors test: a call on a closed descriptor fails with EBADF. *)
ClosedFdRejected == ~stale

(* The socket_nonblock test closes the listener and then the connection    *)
(* after a failed recv(): an open descriptor is one close() will find.     *)
OpenFdCanBeClosed == \A f \in Fds : isopen[f] => f \in Owned
=============================================================================
