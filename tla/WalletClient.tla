----------------------------- MODULE WalletClient -----------------------------
(***************************************************************************)
(* NWCClient.send over Relay: a request is published as an event, the      *)
(* relay confirms it with OK and forwards it, the wallet's reply comes     *)
(* back through a subscription (src/src/modules/nwc-client.ts, relay.ts;   *)
(* client.ts is the same protocol with another cipher).                    *)
(*                                                                         *)
(* Relay keeps one socket, reconnects 3 seconds after it closed, and then  *)
(* sends again the events that are not confirmed and the subscriptions     *)
(* that are not closed.  What is on the wire of a closed socket is lost.   *)
(* A relay works on its messages concurrently, so the two directions of a  *)
(* socket are sets.  Requests and replies are ephemeral events: the relay  *)
(* forwards them to the subscriptions of the moment and keeps none.  That  *)
(* the wallet carries out an event once however often it is forwarded is   *)
(* assumed of it.                                                          *)
(***************************************************************************)
EXTENDS Naturals

CONSTANTS
  Requests,  \* request events
  MaxFaults  \* bound: lost connections, rejections, closed subscriptions

ASSUME FaultAssumption == MaxFaults \in Nat

VARIABLES
  ws,          \* Relay.ws: "closed", "connecting", "open"
  publishing,  \* Relay.publishing
  subscribed,  \* Relay.reqs holds the client's subscription
  pending,     \* NWCClient.pending
  result,      \* result[e]: "new", "none", "ok", "error", "failed" (to publish),
               \* "late" (either timeout)
  up, down,    \* messages on the socket
  live,        \* relay: the subscription is active on this connection
  inbox,       \* wallet: requests forwarded to it
  handled,     \* wallet: requests carried out
  faults

client == <<publishing, subscribed, pending, result>>
wallet == <<inbox, handled>>
vars   == <<ws, client, up, down, live, wallet, faults>>

Event(e) == [type |-> "EVENT", e |-> e]       \* a request going up
OK(e, b) == [type |-> "OK", e |-> e, ok |-> b]
Reply(e) == [type |-> "REPLY", e |-> e]       \* an EVENT coming down
REQ      == [type |-> "REQ"]
CLOSED   == [type |-> "CLOSED"]

Init ==
  /\ ws = "connecting" /\ publishing = {} /\ subscribed = TRUE /\ pending = {}
  /\ result = [e \in Requests |-> "new"]
  /\ up = {} /\ down = {} /\ live = FALSE
  /\ inbox = {} /\ handled = {} /\ faults = 0

Fault   == faults < MaxFaults /\ faults' = faults + 1
NoFault == UNCHANGED faults
-----------------------------------------------------------------------------
(* The socket                                                              *)

\* Mutation: the subscriptions are not opened again.
OnOpen_NoReqs == {Event(e) : e \in publishing}
\* onOpen: what the client sends on a new connection
OnOpen == {Event(e) : e \in publishing} \cup (IF subscribed THEN {REQ} ELSE {})

Open ==
  /\ ws = "connecting" /\ ws' = "open" /\ up' = OnOpen
  /\ UNCHANGED <<client, down, live, wallet>> /\ NoFault

\* onClose, of an open socket or of an attempt that failed
Drop ==
  /\ ws # "closed" /\ Fault /\ ws' = "closed"
  /\ up' = {} /\ down' = {} /\ live' = FALSE
  /\ UNCHANGED <<client, wallet>>

\* the timer of onClose
Reconnect ==
  /\ ws = "closed" /\ ws' = "connecting"
  /\ UNCHANGED <<client, up, down, live, wallet>> /\ NoFault
-----------------------------------------------------------------------------
(* Calls                                                                   *)

\* NWCClient.send up to its await, Relay.publish
Send(e) ==
  /\ result[e] = "new" /\ result' = [result EXCEPT ![e] = "none"]
  /\ publishing' = publishing \cup {e}
  /\ up' = IF ws = "open" THEN up \cup {Event(e)} ELSE up
  /\ UNCHANGED <<ws, subscribed, pending, down, live, wallet>> /\ NoFault

\* onOK, and the rest of send
OnOK(e) == /\ publishing' = publishing \ {e} /\ pending' = pending \cup {e}
           /\ UNCHANGED result
OnReject(e) == /\ publishing' = publishing \ {e} /\ UNCHANGED pending
               /\ result' = [result EXCEPT ![e] = "failed"]
ReceiveOK(m) ==
  /\ m \in down /\ m.type = "OK" /\ down' = down \ {m}
  /\ CASE m.e \notin publishing -> UNCHANGED <<publishing, pending, result>>
       [] m.e \in publishing /\ m.ok -> OnOK(m.e)
       [] OTHER -> OnReject(m.e)
  /\ UNCHANGED <<ws, subscribed, up, live, wallet>> /\ NoFault

\* Mutation: a confirmed request counts as answered.
OnReplyEvent_AnyTime(e) ==
  /\ pending' = pending \ {e} /\ publishing' = publishing \ {e}
  /\ result' = [result EXCEPT ![e] = "ok"]
\* onReplyEvent: a reply to a call that does not wait for one is dropped
OnReplyEvent(e) ==
  /\ pending' = pending \ {e} /\ UNCHANGED publishing
  /\ IF e \in pending THEN \E r \in {"ok", "error"} : result' = [result EXCEPT ![e] = r]
     ELSE UNCHANGED result
ReceiveReply(m) ==
  /\ m \in down /\ m.type = "REPLY" /\ down' = down \ {m}
  /\ IF subscribed THEN OnReplyEvent(m.e)
     ELSE UNCHANGED <<publishing, pending, result>>
  /\ UNCHANGED <<ws, subscribed, up, live, wallet>> /\ NoFault

\* onClosed deletes the subscription for good
ReceiveClosed ==
  /\ CLOSED \in down /\ down' = down \ {CLOSED} /\ subscribed' = FALSE
  /\ UNCHANGED <<ws, publishing, pending, result, up, live, wallet>> /\ NoFault

\* the timer of publish: "Publish timeout"
PublishTimeout(e) ==
  /\ e \in publishing /\ publishing' = publishing \ {e}
  /\ result' = [result EXCEPT ![e] = "late"]
  /\ UNCHANGED <<ws, subscribed, pending, up, down, live, wallet>> /\ NoFault

\* Mutation: the timer looks at a map that never has the request.
Expire_Missed(e) == UNCHANGED <<pending, result>>
Expire(e) == /\ pending' = pending \ {e}
             /\ result' = [result EXCEPT ![e] = "late"]
\* the timer of send: "Request timeout"
ReplyTimeout(e) ==
  /\ e \in pending /\ Expire(e)
  /\ UNCHANGED <<ws, publishing, subscribed, up, down, live, wallet>> /\ NoFault
-----------------------------------------------------------------------------
(* The relay and the wallet service                                        *)

\* An event is accepted, confirmed and forwarded, or refused.
TakeEvent(e) ==
  /\ Event(e) \in up /\ up' = up \ {Event(e)}
  /\ \/ down' = down \cup {OK(e, TRUE)} /\ inbox' = inbox \cup {e} /\ NoFault
     \/ down' = down \cup {OK(e, FALSE)} /\ UNCHANGED inbox /\ Fault
  /\ UNCHANGED <<ws, client, live, handled>>

\* A subscription is opened, or refused ("auth-required").
TakeReq ==
  /\ REQ \in up /\ up' = up \ {REQ}
  /\ \/ live' = TRUE /\ UNCHANGED down /\ NoFault
     \/ down' = down \cup {CLOSED} /\ UNCHANGED live /\ Fault
  /\ UNCHANGED <<ws, client, wallet>>

\* The wallet serves a request; its reply reaches a live subscription or nobody.
Handle(e) ==
  /\ e \in inbox \ handled /\ handled' = handled \cup {e}
  /\ down' = IF live THEN down \cup {Reply(e)} ELSE down
  /\ UNCHANGED <<ws, client, up, live, inbox>> /\ NoFault
-----------------------------------------------------------------------------
Socket  == Open \/ Reconnect
Timer(e) == PublishTimeout(e) \/ ReplyTimeout(e)
Next == \/ Socket \/ Drop \/ ReceiveClosed \/ TakeReq
        \/ \E m \in down : ReceiveOK(m) \/ ReceiveReply(m)
        \/ \E e \in Requests : Send(e) \/ Timer(e) \/ TakeEvent(e) \/ Handle(e)
Spec == Init /\ [][Next]_vars

\* Timers run, the relay answers REQ, a refused subscription is noticed.
\* Nothing is assumed of the wallet or of the confirmations.
FairSpec == /\ Spec /\ WF_vars(Socket) /\ WF_vars(TakeReq) /\ WF_vars(ReceiveClosed)
            /\ \A e \in Requests : WF_vars(Timer(e))
-----------------------------------------------------------------------------
Results == {"new", "none", "ok", "error", "failed", "late"}
Messages == [type : {"EVENT", "REPLY"}, e : Requests] \cup {REQ, CLOSED}
            \cup [type : {"OK"}, e : Requests, ok : BOOLEAN]
TypeOK ==
  /\ ws \in {"closed", "connecting", "open"}
  /\ publishing \subseteq Requests /\ pending \subseteq Requests
  /\ subscribed \in BOOLEAN /\ live \in BOOLEAN
  /\ result \in [Requests -> Results]
  /\ up \subseteq Messages /\ down \subseteq Messages
  /\ inbox \subseteq Requests /\ handled \subseteq Requests
  /\ faults \in Nat

\* Every call whose caller still waits has exactly one timer that can end it:
\* that of publish or that of send, and a call that ended has none
\* (relay.ts:225-229, nwc-client.ts:162-171).
OneTimer ==
  /\ publishing \cap pending = {}
  /\ \A e \in Requests : (e \in publishing \cup pending) <=> result[e] = "none"

\* A reply is only ever on its way for a request that was carried out, and no
\* request is carried out that was not sent.
RepliesAreTrue ==
  /\ \A e \in Requests : Reply(e) \in down \/ result[e] \in {"ok", "error"}
                            => e \in handled
  /\ \A e \in Requests : e \in inbox \/ Event(e) \in up => result[e] # "new"

\* The inductive invariant of the calls.
IInv == TypeOK /\ OneTimer /\ RepliesAreTrue /\ handled \subseteq inbox

\* Every call ends, whatever the relay and the wallet do.
EveryCallEnds == \A e \in Requests : (result[e] = "none") ~> (result[e] # "none")

\* After every lost connection the client can hear replies again, unless the
\* relay closed its subscription: then it never can, and only timers end its
\* calls (relay.ts:166-170).
HearsAgain == []<>(live \/ ~subscribed)

\* The calls are what Billing takes them for (RemoteCall).
Outcome == [e \in Requests |-> CASE result[e] = "new" -> "new"
                                [] result[e] = "none" -> "asked"
                                [] result[e] \in {"ok", "error"} -> "answered"
                                [] OTHER -> "failed"]
Abstract == INSTANCE RemoteCall WITH served <- handled, state <- Outcome
ImplementsRemoteCall == Abstract!Spec
=============================================================================
