----------------------------- MODULE DhcpClient -----------------------------
(***************************************************************************)
(* The DHCP client: src/src/dhcp_client.c, and src/src/w5100_dhcp.c, which *)
(* drives it and writes the binding into the W5100.                        *)
(*                                                                         *)
(* w5100_dhcp() is called again and again from one thread.  A call that is *)
(* due runs bootp_transaction(): up to three times a request and the first *)
(* reply that carries its xid.  The network loses, repeats, delays and     *)
(* reorders; several servers answer.  A reply under an old xid is skipped  *)
(* by bootp_check_reply, so whatever is on the wire is forgotten when a    *)
(* new xid is drawn.  Server s leases one address, which is also called s. *)
(***************************************************************************)
EXTENDS Naturals, FiniteSets

CONSTANTS
    Servers,               \* the DHCP servers on the network
    ANY,                   \* INADDR_ANY
    DHCP_DISCOVER_RETRIES, \* attempts of bootp_transaction
    MaxFaults              \* bound: failures the environment may still cause

ASSUME ServerAssumption == ANY \notin Servers
ASSUME BoundsAssumption == DHCP_DISCOVER_RETRIES \in Nat \ {0} /\ MaxFaults \in Nat

VARIABLES
    state,                 \* binding.state
    client,                \* binding.client
    dhcp_server,           \* binding.dhcp_server
    options,               \* gateway, subnet, DNS server: whose they are
    lease,                 \* how far the lease of the binding has run
    pc,                    \* "idle", or the phase of the transaction
    attempt,               \* attempts begun in this transaction
    dest,                  \* the servers its socket reaches
    wire,                  \* requests under the current xid, not yet answered
    net,                   \* replies under the current xid
    granted,               \* servers that hold their address for this client
    config,                \* the address and the options written to the chip
    faults                 \* failures left

clientVars == <<state, client, dhcp_server, options>>
vars == <<clientVars, lease, pc, attempt, dest, wire, net, granted, config, faults>>

States == {"INIT", "SELECTING", "REQUESTING", "BOUND", "RENEWING"}
Addresses == Servers \cup {ANY}
Requests == [kind : {"DISCOVER", "REQUEST", "RENEW"}, to : Servers]
Replies == [type : {"OFFER", "ACK", "NAK"}, from : Servers, complete : BOOLEAN]

(* The lease runs past T1 (1/2), T2 (7/8) and its end. *)
LeaseTimes == {"none", "fresh", "T1", "T2", "over"}

TypeOK ==
    /\ state \in States
    /\ client \in Addresses
    /\ dhcp_server \in Addresses
    /\ options \in Addresses
    /\ lease \in LeaseTimes
    /\ pc \in {"idle", "send", "recv"}
    /\ attempt \in 0..DHCP_DISCOVER_RETRIES
    /\ dest \in SUBSET Servers
    /\ wire \in SUBSET Requests
    /\ net \in SUBSET Replies
    /\ granted \in SUBSET Servers
    /\ config \in [client : Addresses, options : Addresses]
    /\ faults \in 0..MaxFaults

(* dhcp_init. *)
Init ==
    /\ state = "INIT"
    /\ client = ANY
    /\ dhcp_server = ANY
    /\ options = ANY
    /\ lease = "none"
    /\ pc = "idle"
    /\ attempt = 0
    /\ dest = {}
    /\ wire = {}
    /\ net = {}
    /\ granted = {}
    /\ config = [client |-> ANY, options |-> ANY]
    /\ faults = MaxFaults

dhcp_isbound == state \in {"BOUND", "RENEWING"}

Fault == faults > 0 /\ faults' = faults - 1

-----------------------------------------------------------------------------
(* dhcp_step. *)

(* get_dhcp_next_event returns 0: there is something to do now. *)
Due ==
    \/ ~dhcp_isbound
    \/ state = "BOUND" /\ lease \in {"T1", "T2", "over"}
    \/ state = "RENEWING" /\ lease \in {"T2", "over"}

(* bootp_socket_create connects to the server that gave the lease, or to   *)
(* the broadcast address.                                                  *)
BeginTransaction ==
    /\ pc = "idle" /\ Due
    /\ pc' = "send"
    /\ attempt' = 0
    /\ dest' = IF state = "BOUND" THEN {dhcp_server} ELSE Servers
    /\ UNCHANGED <<clientVars, lease, wire, net, granted, config, faults>>

(* configure(), which w5100_dhcp() calls after a step that ends bound. *)
configure(bound, c, o) ==
    config' = IF bound THEN [client |-> c, options |-> o] ELSE config

(* No socket: the step returns an error and the state stays. *)
SocketFails ==
    /\ pc = "idle" /\ Due
    /\ Fault
    /\ configure(dhcp_isbound, client, options)
    /\ UNCHANGED <<clientVars, lease, pc, attempt, dest, wire, net, granted>>

(* Mutant: the test of the loop lets one more attempt through. *)
OneAttemptMore == attempt <= DHCP_DISCOVER_RETRIES

(* Another attempt, or the transaction ends: the socket is closed, and the *)
(* chip is configured if the client is bound.                              *)
NextAttempt == attempt < DHCP_DISCOVER_RETRIES

Retry ==
    \/ NextAttempt /\ pc' = "send" /\ UNCHANGED config
    \/ /\ ~NextAttempt /\ pc' = "idle"
       /\ configure(state' \in {"BOUND", "RENEWING"}, client', options')

EndTransaction ==
    /\ pc' = "idle"
    /\ configure(state' \in {"BOUND", "RENEWING"}, client', options')

(* send_bootp_request: the requests a state puts on the wire, under a new  *)
(* xid except in SELECTING.  In the states that "should never get here"    *)
(* the request has neither address nor server, and nobody answers it.      *)
RequestsOf(s) ==
    CASE s = "INIT" -> [kind : {"DISCOVER"}, to : dest]
      [] s = "SELECTING" -> [kind : {"REQUEST"}, to : dest \cap {dhcp_server}]
      [] s \in {"BOUND", "RENEWING"} -> [kind : {"RENEW"}, to : dest \cap {dhcp_server}]
      [] OTHER -> {}

(* dhcp_update_state after a request. *)
StateAfter(s) ==
    CASE s = "INIT" -> "SELECTING"
      [] s = "SELECTING" -> "REQUESTING"
      [] s = "BOUND" -> "RENEWING"
      [] OTHER -> s

SendRequest ==
    /\ pc = "send"
    /\ wire' = RequestsOf(state) \cup (IF state = "SELECTING" THEN wire ELSE {})
    /\ net' = IF state = "SELECTING" THEN net ELSE {}
    /\ state' = StateAfter(state)
    /\ attempt' = attempt + 1
    /\ pc' = "recv"
    /\ UNCHANGED <<client, dhcp_server, options, lease, dest, granted, config, faults>>

(* send() fails: the attempt is spent and the state stays. *)
SendFails ==
    /\ pc = "send"
    /\ Fault
    /\ wire' = IF state = "SELECTING" THEN wire ELSE {}
    /\ net' = IF state = "SELECTING" THEN net ELSE {}
    /\ attempt' = attempt + 1
    /\ \/ attempt + 1 < DHCP_DISCOVER_RETRIES /\ pc' = "send" /\ UNCHANGED config
       \/ /\ attempt + 1 = DHCP_DISCOVER_RETRIES /\ pc' = "idle"
          /\ configure(dhcp_isbound, client, options)
    /\ UNCHANGED <<clientVars, lease, dest, granted>>

(* Mutant: no answer leaves the state, and the next request is sent in it. *)
NoResponseStays ==
    /\ UNCHANGED state
    /\ Retry

(* dhcp_update_state_noresp, and the next attempt. *)
NoResponse ==
    /\ state' = "INIT"
    /\ Retry

(* Mutant: an offer is taken before its options are checked. *)
OfferUnchecked(m) ==
    /\ m.type = "OFFER" /\ state = "SELECTING"
    /\ client' = m.from
    /\ dhcp_server' = IF m.complete THEN m.from ELSE dhcp_server
    /\ UNCHANGED <<options, lease, state>>
    /\ EndTransaction

(* An OFFER while SELECTING: taken if its options are complete.  The state *)
(* is left for the next step, which sends the REQUEST.                     *)
RecvOffer(m) ==
    /\ m.type = "OFFER" /\ state = "SELECTING"
    /\ UNCHANGED <<options, lease>>
    /\ \/ /\ m.complete
          /\ client' = m.from
          /\ dhcp_server' = m.from
          /\ UNCHANGED state
          /\ EndTransaction
       \/ /\ ~m.complete
          /\ UNCHANGED <<client, dhcp_server>>
          /\ NoResponse

(* Mutant: the binding takes the address and leaves the options. *)
AckKeepsOptions(m) ==
    /\ m.type = "ACK" /\ state \in {"REQUESTING", "RENEWING"}
    /\ client' = m.from
    /\ dhcp_server' = m.from
    /\ lease' = "fresh"
    /\ UNCHANGED options
    /\ \/ m.complete /\ state' = "BOUND" /\ EndTransaction
       \/ ~m.complete /\ NoResponse

(* Mutant: an incomplete ACK binds too. *)
AckUnchecked(m) ==
    /\ m.type = "ACK" /\ state \in {"REQUESTING", "RENEWING"}
    /\ client' = m.from
    /\ dhcp_server' = IF m.complete THEN m.from ELSE ANY
    /\ options' = m.from
    /\ lease' = "fresh"
    /\ state' = "BOUND" /\ EndTransaction

(* An ACK: the binding takes everything in it, what it lacks as INADDR_ANY, *)
(* and is bound if it lacks nothing that dhcp_check_options asks for.      *)
RecvAck(m) ==
    /\ m.type = "ACK" /\ state \in {"REQUESTING", "RENEWING"}
    /\ client' = m.from
    /\ dhcp_server' \in {m.from, ANY}
    /\ options' \in {m.from, ANY}
    /\ m.complete <=> dhcp_server' # ANY /\ options' # ANY
    /\ lease' = "fresh"
    /\ \/ m.complete /\ state' = "BOUND" /\ EndTransaction
       \/ ~m.complete /\ NoResponse

(* A NAK: the address is given up. *)
RecvNak(m) ==
    /\ m.type = "NAK" /\ state \in {"REQUESTING", "RENEWING"}
    /\ client' = ANY
    /\ dhcp_server' = ANY
    /\ state' = "INIT"
    /\ EndTransaction
    /\ UNCHANGED <<options, lease>>

(* Any other reply is ignored, and ends the transaction all the same. *)
RecvOther(m) ==
    /\ IF state = "SELECTING" THEN m.type # "OFFER" ELSE m.type = "OFFER"
    /\ UNCHANGED <<clientVars, lease>>
    /\ EndTransaction

(* recv_bootp_reply handles the first reply with the current xid. *)
RecvReply(m) ==
    /\ pc = "recv"
    /\ m \in net
    /\ net' = net \ {m}
    /\ RecvOffer(m) \/ RecvAck(m) \/ RecvNak(m) \/ RecvOther(m)
    /\ UNCHANGED <<attempt, dest, wire, granted, faults>>

(* One second without a reply: recvfrom fails.  A timeout with a reply on  *)
(* its way counts as a fault of the network.                               *)
Timeout ==
    /\ pc = "recv"
    /\ IF wire \cup net = {} THEN UNCHANGED faults ELSE Fault
    /\ UNCHANGED <<client, dhcp_server, options, lease, attempt, dest, wire, net, granted>>
    /\ NoResponse

-----------------------------------------------------------------------------
(* Servers, network and time: outside the program. *)

(* A server answers the request it got; an incomplete reply or a NAK is a  *)
(* fault.                                                                  *)
Answer(r, m) ==
    /\ r \in wire
    /\ wire' = wire \ {r}
    /\ net' = net \cup {m}
    /\ IF m.complete /\ m.type # "NAK" THEN UNCHANGED faults ELSE Fault
    /\ granted' = CASE m.type = "ACK" -> granted \cup {r.to}
                    [] m.type = "NAK" -> granted \ {r.to}
                    [] OTHER -> granted
    /\ UNCHANGED <<clientVars, lease, pc, attempt, dest, config>>

ServerReplies(r) ==
    \E m \in Replies :
        /\ m.from = r.to
        /\ m.type \in IF r.kind = "DISCOVER" THEN {"OFFER"} ELSE {"ACK", "NAK"}
        /\ Answer(r, m)

(* A request or a reply is lost ... *)
Lose ==
    /\ Fault
    /\ \/ \E r \in wire : wire' = wire \ {r} /\ UNCHANGED net
       \/ \E m \in net : net' = net \ {m} /\ UNCHANGED wire
    /\ UNCHANGED <<clientVars, lease, pc, attempt, dest, granted, config>>

(* ... or delivered once more. *)
Duplicate(m) ==
    /\ pc = "recv" /\ m \notin net
    /\ m.type = "OFFER" /\ m.complete /\ state = "REQUESTING" /\ client = m.from
    /\ Fault
    /\ net' = net \cup {m}
    /\ UNCHANGED <<clientVars, lease, pc, attempt, dest, wire, granted, config>>

(* The lease runs on while the client is bound. *)
LeaseRuns ==
    /\ dhcp_isbound /\ pc = "idle"
    /\ lease' = CASE lease = "fresh" -> "T1" [] lease = "T1" -> "T2" [] OTHER -> "over"
    /\ UNCHANGED <<clientVars, pc, attempt, dest, wire, net, granted, config, faults>>

(* A server takes back an address it no longer owes the client. *)
Expire(s) ==
    /\ s \in granted
    /\ client # s \/ ~dhcp_isbound \/ lease = "over"
    /\ \A m \in net : m.from # s
    /\ granted' = granted \ {s}
    /\ UNCHANGED <<clientVars, lease, pc, attempt, dest, wire, net, config, faults>>

-----------------------------------------------------------------------------

ClientStep ==
    \/ BeginTransaction
    \/ SendRequest
    \/ \E m \in net : RecvReply(m)
    \/ pc = "recv" /\ wire \cup net = {} /\ Timeout

Next ==
    \/ BeginTransaction
    \/ SocketFails
    \/ SendRequest
    \/ SendFails
    \/ \E m \in net : RecvReply(m)
    \/ Timeout
    \/ \E r \in wire : ServerReplies(r)
    \/ Lose
    \/ \E m \in Replies : Duplicate(m)
    \/ LeaseRuns
    \/ \E s \in Servers : Expire(s)

(* The application calls w5100_dhcp() when it is due, the client's code    *)
(* runs, and servers answer what reaches them.                             *)
Fairness ==
    /\ WF_vars(ClientStep)
    /\ WF_vars(\E r \in wire : ServerReplies(r))

Spec == Init /\ [][Next]_vars
FairSpec == Spec /\ Fairness

-----------------------------------------------------------------------------
(* Properties. *)

(* A client that is BOUND to an unexpired lease has an address that the    *)
(* server it names really holds for it: no offer, late reply, reply of     *)
(* another server or broken ACK ever counts as a lease.                    *)
BoundIsGranted ==
    state = "BOUND" /\ lease # "over" =>
        client # ANY /\ client = dhcp_server /\ client \in granted

(* The chip gets address, gateway and subnet of one and the same ACK, and  *)
(* between two calls a bound client's chip has what the binding says.      *)
ConfigOfOneServer ==
    /\ config.client = config.options
    /\ pc = "idle" /\ state = "BOUND" =>
            config = [client |-> client, options |-> options]

(* A DHCPREQUEST that selects an offer names the address and the server of *)
(* one complete offer, whatever came before in earlier transactions.       *)
RequestNamesOffer ==
    pc = "send" /\ state = "SELECTING" => client # ANY /\ client = dhcp_server

(* After finitely many faults the client is bound again and again, unless  *)
(* it keeps sending requests out of REQUESTING: one reply that came too    *)
(* late for it uses up a transaction.                                      *)
BoundAgain ==
    []<>(state = "BOUND" \/ (pc = "send" /\ state = "REQUESTING"))
=============================================================================
