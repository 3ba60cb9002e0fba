-------------------------- MODULE DhcpClientProofs --------------------------
(***************************************************************************)
(* Theorems about DhcpClient.tla for any number of servers, of attempts    *)
(* and of failures.                                                        *)
(***************************************************************************)
EXTENDS DhcpClient, TLAPS

(* A transaction in the send phase has an attempt left. *)
AttemptLeft == pc = "send" => attempt < DHCP_DISCOVER_RETRIES

(* The binding of a bound client comes from one complete ACK. *)
BindingComplete == dhcp_isbound => dhcp_server # ANY /\ client = options

(* While an offer is awaited or taken and not yet requested, the current   *)
(* xid has been used for DISCOVERs and OFFERs only.                        *)
OffersOnly ==
    state = "SELECTING" => /\ \A r \in wire : r.kind = "DISCOVER"
                           /\ \A m \in net : m.type = "OFFER"

(* The client selects a complete offer. *)
Selected == pc # "recv" /\ state = "SELECTING" => client # ANY /\ client = dhcp_server

(* A server is asked for a lease once under one xid, and answers once. *)
OneRequest ==
    /\ \A r, q \in wire : r.kind # "DISCOVER" /\ q.kind # "DISCOVER" => r = q
    /\ \A r \in wire, m \in net : m.type # "OFFER" => r.kind = "DISCOVER"
    /\ state = "BOUND" => \A r \in wire : r.kind = "DISCOVER"

(* An ACK on its way is a promise the server still keeps. *)
AckIsGranted == \A m \in net : m.type = "ACK" => m.from \in granted

USE ServerAssumption, BoundsAssumption

USE DEF clientVars, dhcp_isbound, States, Addresses, Requests, Replies, LeaseTimes, Fault

(* The phases and the shape of the state: the attempt counter never passes *)
(* its bound because a send always has an attempt left, and a renewal has  *)
(* a server to go to because a binding is complete.                        *)
TypeInv == TypeOK /\ AttemptLeft /\ BindingComplete

(* The replies the client handles keep the binding well-typed, complete    *)
(* when bound, and the phase within the attempts.                          *)
LEMMA ReplyType ==
    ASSUME TypeInv, NEW m \in net, RecvReply(m)
    PROVE  TypeInv'
<1> USE DEF TypeInv, TypeOK, AttemptLeft, BindingComplete, RecvReply
<1>0. m \in Replies  OBVIOUS
<1>1. CASE RecvOffer(m)
  BY <1>0, <1>1 DEF RecvOffer, EndTransaction, configure, NoResponse, Retry, NextAttempt
<1>2. CASE RecvAck(m)
  BY <1>0, <1>2 DEF RecvAck, EndTransaction, configure, NoResponse, Retry, NextAttempt
<1>3. CASE RecvNak(m)
  BY <1>0, <1>3 DEF RecvNak, EndTransaction, configure
<1>4. CASE RecvOther(m)
  BY <1>0, <1>4 DEF RecvOther, EndTransaction, configure
<1> QED  BY <1>1, <1>2, <1>3, <1>4

LEMMA TypeStep ==
    ASSUME TypeInv, [Next]_vars
    PROVE  TypeInv'
<1> USE DEF TypeInv, TypeOK, AttemptLeft, BindingComplete
<1>1. CASE BeginTransaction  BY <1>1 DEF BeginTransaction
<1>2. CASE SocketFails  BY <1>2 DEF SocketFails, configure
<1>3. CASE SendRequest  BY <1>3 DEF SendRequest, RequestsOf, StateAfter
<1>4. CASE SendFails  BY <1>4 DEF SendFails, configure
<1>5. CASE \E m \in net : RecvReply(m)  BY <1>5, ReplyType
<1>6. CASE Timeout
  BY <1>6 DEF Timeout, NoResponse, Retry, NextAttempt, configure
<1>7. CASE \E r \in wire : ServerReplies(r)  BY <1>7 DEF ServerReplies, Answer
<1>8. CASE Lose  BY <1>8 DEF Lose
<1>9. CASE \E m \in Replies : Duplicate(m)  BY <1>9 DEF Duplicate
<1>10. CASE LeaseRuns  BY <1>10 DEF LeaseRuns
<1>11. CASE \E s \in Servers : Expire(s)  BY <1>11 DEF Expire
<1>12. CASE UNCHANGED vars  BY <1>12 DEF vars
<1> QED
  BY <1>1, <1>2, <1>3, <1>4, <1>5, <1>6, <1>7, <1>8, <1>9, <1>10, <1>11, <1>12 DEF Next

LEMMA TypeAlways == Spec => []TypeInv
<1>1. Init => TypeInv  BY DEF Init, TypeInv, TypeOK, AttemptLeft, BindingComplete
<1>2. TypeInv /\ [Next]_vars => TypeInv'  BY TypeStep
<1> QED  BY <1>1, <1>2, PTL DEF Spec

(* The state of the client stays in its types; in particular no            *)
(* transaction makes more than DHCP_DISCOVER_RETRIES attempts, whatever    *)
(* fails and whoever answers.                                              *)
THEOREM TypeCorrect == Spec => []TypeOK
<1>1. TypeInv => TypeOK  BY DEF TypeInv
<1> QED  BY <1>1, TypeAlways, PTL

-----------------------------------------------------------------------------

(* What keeps the messages under one xid apart, and the two properties     *)
(* about a bound client and about a selected offer.                        *)
LeaseInv == OffersOnly /\ Selected /\ OneRequest /\ AckIsGranted /\ BoundIsGranted

LEMMA ReplyLease ==
    ASSUME TypeInv, LeaseInv, NEW m \in net, RecvReply(m)
    PROVE  LeaseInv'
<1> USE DEF TypeInv, TypeOK, LeaseInv, OffersOnly, Selected, OneRequest, AckIsGranted,
            BoundIsGranted, RecvReply
<1>0. m \in Replies /\ m.from # ANY  OBVIOUS
<1>1. CASE RecvOffer(m)
  BY <1>0, <1>1 DEF RecvOffer, EndTransaction, NoResponse, Retry
<1>2. CASE RecvAck(m)
  BY <1>0, <1>2 DEF RecvAck, EndTransaction, NoResponse, Retry
<1>3. CASE RecvNak(m)
  BY <1>0, <1>3 DEF RecvNak, EndTransaction
<1>4. CASE RecvOther(m)
  BY <1>0, <1>4 DEF RecvOther, EndTransaction
<1> QED  BY <1>1, <1>2, <1>3, <1>4

LEMMA SendLease ==
    ASSUME TypeInv, LeaseInv, SendRequest
    PROVE  LeaseInv'
<1> USE DEF TypeInv, TypeOK, LeaseInv, OffersOnly, Selected, OneRequest, AckIsGranted,
            BoundIsGranted, SendRequest
<1>1. CASE state = "INIT"  BY <1>1 DEF RequestsOf, StateAfter
<1>2. CASE state = "SELECTING"  BY <1>2 DEF RequestsOf, StateAfter
<1>3. CASE state \in {"BOUND", "RENEWING"}  BY <1>3 DEF RequestsOf, StateAfter
<1>4. CASE state = "REQUESTING"  BY <1>4 DEF RequestsOf, StateAfter
<1> QED  BY <1>1, <1>2, <1>3, <1>4

LEMMA AnswerLease ==
    ASSUME TypeInv, LeaseInv, NEW r \in wire, ServerReplies(r)
    PROVE  LeaseInv'
<1> USE DEF TypeInv, TypeOK, LeaseInv, OffersOnly, Selected, OneRequest, AckIsGranted,
            BoundIsGranted
<1>1. PICK m \in Replies :
        /\ m.from = r.to
        /\ m.type \in IF r.kind = "DISCOVER" THEN {"OFFER"} ELSE {"ACK", "NAK"}
        /\ Answer(r, m)
  BY DEF ServerReplies
<1>2. CASE m.type = "OFFER"  BY <1>1, <1>2 DEF Answer
<1>3. CASE m.type = "ACK"  BY <1>1, <1>3 DEF Answer
<1>4. CASE m.type = "NAK"  BY <1>1, <1>4 DEF Answer
<1> QED  BY <1>2, <1>3, <1>4

LEMMA LeaseStep ==
    ASSUME TypeInv, LeaseInv, [Next]_vars
    PROVE  LeaseInv'
<1> USE DEF TypeInv, TypeOK, LeaseInv, OffersOnly, Selected, OneRequest, AckIsGranted,
            BoundIsGranted
<1>1. CASE BeginTransaction  BY <1>1 DEF BeginTransaction
<1>2. CASE SocketFails  BY <1>2 DEF SocketFails
<1>3. CASE SendRequest  BY <1>3, SendLease
<1>4. CASE SendFails  BY <1>4 DEF SendFails
<1>5. CASE \E m \in net : RecvReply(m)  BY <1>5, ReplyLease
<1>6. CASE Timeout  BY <1>6 DEF Timeout, NoResponse, Retry
<1>7. CASE \E r \in wire : ServerReplies(r)  BY <1>7, AnswerLease
<1>8. CASE Lose  BY <1>8 DEF Lose
<1>9. CASE \E m \in Replies : Duplicate(m)  BY <1>9 DEF Duplicate
<1>10. CASE LeaseRuns  BY <1>10 DEF LeaseRuns
<1>11. CASE \E s \in Servers : Expire(s)  BY <1>11 DEF Expire
<1>12. CASE UNCHANGED vars  BY <1>12 DEF vars
<1> QED
  BY <1>1, <1>2, <1>3, <1>4, <1>5, <1>6, <1>7, <1>8, <1>9, <1>10, <1>11, <1>12 DEF Next

LEMMA LeaseAlways == Spec => []LeaseInv
<1>1. Init => LeaseInv
  BY DEF Init, LeaseInv, OffersOnly, Selected, OneRequest, AckIsGranted, BoundIsGranted
<1>2. TypeInv /\ LeaseInv /\ [Next]_vars => LeaseInv'  BY LeaseStep
<1> QED  BY <1>1, <1>2, TypeAlways, PTL DEF Spec

(* A client bound to an unexpired lease holds an address that its server   *)
(* grants: recv_bootp_reply binds on nothing but a complete ACK to the     *)
(* current xid, and that answers the one REQUEST sent under this xid.      *)
THEOREM BoundToGrantedLease == Spec => []BoundIsGranted
<1>1. LeaseInv => BoundIsGranted  BY DEF LeaseInv
<1> QED  BY <1>1, LeaseAlways, PTL

(* A REQUEST that selects an offer names address and server of one         *)
(* complete offer: send_bootp_request finds in SELECTING what the last     *)
(* transaction of recv_bootp_reply accepted.                               *)
THEOREM RequestsNameOffers == Spec => []RequestNamesOffer
<1>1. LeaseInv => RequestNamesOffer  BY DEF LeaseInv, Selected, RequestNamesOffer
<1> QED  BY <1>1, LeaseAlways, PTL

-----------------------------------------------------------------------------

(* The chip is configured from one ACK at a time: configure() runs only    *)
(* when the binding is complete, and always before a bound client is idle. *)
THEOREM ConfiguredFromOneServer == Spec => []ConfigOfOneServer
<1> USE DEF TypeInv, TypeOK, BindingComplete, ConfigOfOneServer
<1>1. Init => ConfigOfOneServer  BY DEF Init
<1>2. ASSUME TypeInv, TypeInv', ConfigOfOneServer, [Next]_vars
      PROVE  ConfigOfOneServer'
  <2>1. CASE BeginTransaction  BY <1>2, <2>1 DEF BeginTransaction
  <2>2. CASE SocketFails  BY <1>2, <2>2 DEF SocketFails, configure
  <2>3. CASE SendRequest  BY <1>2, <2>3 DEF SendRequest
  <2>4. CASE SendFails  BY <1>2, <2>4 DEF SendFails, configure
  <2>5. CASE \E m \in net : RecvReply(m)
    <3>1. PICK m \in net : RecvReply(m)  BY <2>5
    <3>2. EndTransaction \/ Retry
      BY <3>1 DEF RecvReply, RecvOffer, RecvAck, RecvNak, RecvOther, NoResponse
    <3> QED  BY <1>2, <3>2 DEF EndTransaction, Retry, configure
  <2>6. CASE Timeout
    BY <1>2, <2>6 DEF Timeout, NoResponse, Retry, configure
  <2>7. CASE \E r \in wire : ServerReplies(r)
    BY <1>2, <2>7 DEF ServerReplies, Answer
  <2>8. CASE Lose  BY <1>2, <2>8 DEF Lose
  <2>9. CASE \E m \in Replies : Duplicate(m)  BY <1>2, <2>9 DEF Duplicate
  <2>10. CASE LeaseRuns  BY <1>2, <2>10 DEF LeaseRuns
  <2>11. CASE \E s \in Servers : Expire(s)  BY <1>2, <2>11 DEF Expire
  <2>12. CASE UNCHANGED vars  BY <1>2, <2>12 DEF vars
  <2> QED
    BY <1>2, <2>1, <2>2, <2>3, <2>4, <2>5, <2>6, <2>7, <2>8, <2>9, <2>10, <2>11, <2>12 DEF Next
<1> QED  BY <1>1, <1>2, TypeAlways, PTL DEF Spec
=============================================================================
