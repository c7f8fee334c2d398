------------------------------- MODULE Listener -------------------------------
(***************************************************************************)
(* How requests reach the server: RequestListener (modules/listeners.ts)   *)
(* groups the keys it listens for in batches (PubkeyBatcher of             *)
(* modules/utils.ts), one subscription of a Relay (modules/relay.ts) per   *)
(* batch; the handler of enclave/index.ts replies on the same relay and    *)
(* reconnects it when a reply is not accepted.                             *)
(*                                                                         *)
(* One relay is modelled: a listener keeps the batches of different relays *)
(* apart.  The program adds one key and removes none; the class is         *)
(* modelled for the calls it offers.  Requests are ephemeral events, which *)
(* a relay forwards to the subscriptions of the moment and does not keep.  *)
(* A request is stamped by the clock of its sender, ahead of the server's  *)
(* or behind it, and takes any time to reach the relay.  What the server   *)
(* sends is handled by the relay at once; what comes down is delayed, and  *)
(* lost with the socket.  Times are seconds; the 10 seconds that a filter  *)
(* reaches back are Slack.                                                 *)
(***************************************************************************)
EXTENDS Integers, FiniteSets

CONSTANTS
  Keys,       \* pubkeys
  BatchSize,  \* BATCH_SIZE
  Ids,        \* what randomBytes can return for a batch
  Requests,   \* request events
  KeyOf,      \* KeyOf[r]: the key that r tags
  AheadOf,    \* AheadOf[r]: how far the clock of its sender is ahead, or behind
  Slack,
  MaxClock,   \* bound: time
  MaxFaults,  \* bound: lost connections, CLOSED, rejected or late replies
  MaxRemoves  \* bound: calls of removePubkey

ASSUME BatchAssumption == BatchSize \in Nat \ {0} /\ Slack \in Nat
ASSUME RequestAssumption ==
  KeyOf \in [Requests -> Keys] /\ AheadOf \in [Requests -> Int]
ASSUME BoundAssumption ==
  MaxClock \in Nat /\ MaxFaults \in Nat /\ MaxRemoves \in Nat

VARIABLES
  known,    \* PubkeyBatcher.has: keys that were ever added
  added,    \* keys whose relays hold this relay
  batch,    \* relayReqs of this relay: the keys under an id, {} without entry
  ws,       \* Relay.ws: "none", "connecting", "open", "closed"
  reqs,     \* ids in Relay.reqs
  floor,    \* filter.since of a req
  cursor,   \* req.since of a req, 0 before its first event
  live,     \* relay: the filter it has for an id, [keys, since]
  down,     \* messages on the socket
  clock,
  at,       \* at[r]: created_at of r, 0 before it is signed
  signed,   \* requests that their senders have signed and published
  sent,     \* requests that have reached the relay
  reply,    \* reply[r]: "none", "working", "publishing", "ok", "failed"
  faults, removes

batcher == <<known, added, batch>>
relay   == <<ws, reqs, floor, cursor>>
server  == <<live, down>>
users   == <<at, signed, sent>>
bounds  == <<faults, removes>>
vars    == <<batcher, relay, server, clock, users, reply, bounds>>

NoFilter == [keys |-> {}, since |-> 0]
EVENT(i, r, t) == [type |-> "EVENT", id |-> i, req |-> r, at |-> t]
CLOSED(i) == [type |-> "CLOSED", id |-> i]

Init ==
  /\ known = {} /\ added = {} /\ batch = [i \in Ids |-> {}]
  /\ ws = "none" /\ reqs = {}
  /\ floor = [i \in Ids |-> 0] /\ cursor = [i \in Ids |-> 0]
  /\ live = [i \in Ids |-> NoFilter] /\ down = {}
  /\ clock = Slack
  /\ at = [r \in Requests |-> 0] /\ signed = {} /\ sent = {}
  /\ reply = [r \in Requests |-> "none"]
  /\ faults = 0 /\ removes = 0

Fault == faults < MaxFaults /\ faults' = faults + 1 /\ UNCHANGED removes
Most(a, b) == IF a > b THEN a ELSE b
-----------------------------------------------------------------------------
(* Subscriptions                                                           *)

\* Relay.send: the later of the filter's since and the cursor
Since(f, c) == Most(f, c)

\* Mutation: the filter does not reach back.
FilterSince_Now == clock
FilterSince == clock - Slack

\* RequestListener.req and Relay.req: a new req for id i with keys K, sent at
\* once on an open socket, where it replaces the filter of the same id
Req(i, K) ==
  /\ reqs' = reqs \cup {i}
  /\ floor' = [floor EXCEPT ![i] = FilterSince]
  /\ cursor' = [cursor EXCEPT ![i] = 0]
  /\ live' = IF ws = "open"
               THEN [live EXCEPT ![i] = [keys |-> K, since |-> FilterSince]]
               ELSE live

\* Relay.close
Close(i) ==
  /\ reqs' = reqs \ {i} /\ UNCHANGED <<floor, cursor>>
  /\ live' = IF i \in reqs /\ ws = "open" THEN [live EXCEPT ![i] = NoFilter]
             ELSE live

Taken(i) == batch[i] # {}
\* Mutation: one more key than fits.
Room_OneMore(i) == Taken(i) /\ Cardinality(batch[i]) <= BatchSize
Room(i) == Taken(i) /\ Cardinality(batch[i]) < BatchSize

\* addPubkey: the first batch with room, or a new one.
Add(k) ==
  /\ k \notin added
  /\ known' = known \cup {k} /\ added' = added \cup {k}
  /\ \E i \in Ids :
       /\ IF \E j \in Ids : Room(j) THEN Room(i) ELSE ~Taken(i)
       /\ batch' = [batch EXCEPT ![i] = @ \cup {k}]
       /\ Req(i, batch[i] \cup {k})
  /\ ws' = IF ws = "none" THEN "connecting" ELSE ws
  /\ UNCHANGED <<down, clock, users, reply, bounds>>

\* Mutation: the relay is not told of the smaller batch.
Renew_Quiet(i, K) == UNCHANGED <<reqs, floor, cursor, live>>
\* removePubkey: a smaller batch, or none
Renew(i, K) == IF K = {} THEN Close(i) ELSE Req(i, K)

Remove(k) ==
  /\ k \in added /\ removes < MaxRemoves /\ removes' = removes + 1
  /\ added' = added \ {k}
  /\ \E i \in Ids : /\ k \in batch[i]
                    /\ batch' = [batch EXCEPT ![i] = @ \ {k}]
                    /\ Renew(i, batch[i] \ {k})
  /\ UNCHANGED <<known, ws, down, clock, users, reply, faults>>
-----------------------------------------------------------------------------
(* The socket                                                              *)

\* Mutation: subscriptions are not sent again.
Resent_None == [i \in Ids |-> NoFilter]
\* onOpen sends every req, with the keys its batch has now
Resent ==
  [i \in Ids |-> IF i \in reqs
     THEN [keys |-> batch[i], since |-> Since(floor[i], cursor[i])]
     ELSE NoFilter]

Open ==
  /\ ws = "connecting" /\ ws' = "open" /\ live' = Resent
  /\ UNCHANGED <<batcher, reqs, floor, cursor, down, clock, users, reply, bounds>>

Gone == ws' = "closed" /\ down' = {} /\ live' = [i \in Ids |-> NoFilter]

\* the connection, or an attempt to connect, fails
Drop ==
  /\ ws \in {"connecting", "open"} /\ Fault /\ Gone
  /\ UNCHANGED <<batcher, reqs, floor, cursor, clock, users, reply>>

\* the timer of onClose
Reconnect ==
  /\ ws = "closed" /\ ws' = "connecting"
  /\ UNCHANGED <<batcher, reqs, floor, cursor, server, clock, users, reply, bounds>>

\* The relay gives a subscription up.
Refuse(i) ==
  /\ live[i] # NoFilter /\ Fault
  /\ live' = [live EXCEPT ![i] = NoFilter] /\ down' = down \cup {CLOSED(i)}
  /\ UNCHANGED <<batcher, relay, clock, users, reply>>

\* onClosed: the req is dropped, also when it was sent again meanwhile; the
\* batch stays.
ReceiveClosed(i) ==
  /\ CLOSED(i) \in down /\ down' = down \ {CLOSED(i)} /\ Close(i)
  /\ UNCHANGED <<batcher, ws, clock, users, reply, bounds>>
-----------------------------------------------------------------------------
(* Requests                                                                *)

\* A user stamps and publishes a request.
Sign(r) ==
  /\ r \notin signed /\ signed' = signed \cup {r}
  /\ at' = [at EXCEPT ![r] = clock + AheadOf[r]]
  /\ UNCHANGED <<batcher, relay, server, clock, sent, reply, bounds>>

Matches(r) ==
  {i \in Ids : KeyOf[r] \in live[i].keys /\ at[r] >= live[i].since}

\* It reaches the relay, which forwards it to whoever listens.
Send(r) ==
  /\ r \in signed \ sent /\ sent' = sent \cup {r}
  /\ down' = down \cup {EVENT(i, r, at[r]) : i \in Matches(r)}
  /\ UNCHANGED <<batcher, relay, live, clock, at, signed, reply, bounds>>

\* Relay.onEvent moves the cursor, so that after a reconnect the relay is asked
\* from there on; then RequestListener.onEvent, and process up to its await:
\* what was seen before, or is for a key that was never added, is ignored.
Receive(m) ==
  /\ m \in down /\ m.type = "EVENT" /\ down' = down \ {m}
  /\ cursor' = IF m.id \in reqs THEN [cursor EXCEPT ![m.id] = m.at] ELSE cursor
  /\ reply' = IF m.id \in reqs /\ KeyOf[m.req] \in known /\ reply[m.req] = "none"
                THEN [reply EXCEPT ![m.req] = "working"] ELSE reply
  /\ UNCHANGED <<batcher, ws, reqs, floor, live, clock, users, bounds>>

Reply(r) ==
  /\ reply[r] = "working" /\ reply' = [reply EXCEPT ![r] = "publishing"]
  /\ UNCHANGED <<batcher, relay, server, clock, users, bounds>>

\* the relay says OK to the reply
Accepted(r) ==
  /\ reply[r] = "publishing" /\ ws = "open" /\ reply' = [reply EXCEPT ![r] = "ok"]
  /\ UNCHANGED <<batcher, relay, server, clock, users, bounds>>

\* The relay rejects the reply, or publish times out, perhaps on a socket that
\* is not open: reconnect closes the socket unless it is connecting, and with
\* it goes what the relay had sent to the other keys.
Failed(r) ==
  /\ reply[r] = "publishing" /\ Fault /\ reply' = [reply EXCEPT ![r] = "failed"]
  /\ IF ws = "open" THEN Gone ELSE UNCHANGED <<ws, server>>
  /\ UNCHANGED <<batcher, reqs, floor, cursor, clock, users>>

Tick ==
  /\ clock < MaxClock /\ clock' = clock + 1
  /\ UNCHANGED <<batcher, relay, server, users, reply, bounds>>
-----------------------------------------------------------------------------
Next ==
  \/ Open \/ Drop \/ Reconnect \/ Tick
  \/ \E k \in Keys : Add(k) \/ Remove(k)
  \/ \E i \in Ids : Refuse(i) \/ ReceiveClosed(i)
  \/ \E r \in Requests : Sign(r) \/ Send(r) \/ Reply(r) \/ Accepted(r) \/ Failed(r)
  \/ \E m \in down : Receive(m)

\* The timer of onClose fires, a socket opens in the end and what the relay
\* sends on it arrives.  Nothing is promised about users and handlers.
Fairness ==
  /\ WF_vars(Open) /\ WF_vars(Reconnect)
  /\ WF_vars(\E i \in Ids : ReceiveClosed(i))

Spec == Init /\ [][Next]_vars
FairSpec == Spec /\ Fairness
-----------------------------------------------------------------------------
Messages ==
  [type : {"EVENT"}, id : Ids, req : Requests, at : Int] \cup [type : {"CLOSED"}, id : Ids]

TypeOK ==
  /\ known \subseteq Keys /\ added \subseteq known
  /\ batch \in [Ids -> SUBSET Keys]
  /\ ws \in {"none", "connecting", "open", "closed"} /\ reqs \subseteq Ids
  /\ floor \in [Ids -> Nat] /\ cursor \in [Ids -> Int]
  /\ live \in [Ids -> [keys : SUBSET Keys, since : Int]]
  /\ down \subseteq Messages /\ clock \in Nat
  /\ at \in [Requests -> Int] /\ signed \subseteq Requests /\ sent \subseteq signed
  /\ reply \in [Requests -> {"none", "working", "publishing", "ok", "failed"}]
  /\ faults \in Nat /\ removes \in Nat

\* However keys come and go, every key the listener serves is in exactly one
\* batch, no other key is in any, no batch outgrows what relays take in one
\* filter, and a subscription exists only for a batch that has keys
\* (utils.ts:18-69).
Batched ==
  /\ \A k \in Keys : Cardinality({i \in Ids : k \in batch[i]}) =
                     IF k \in added THEN 1 ELSE 0
  /\ \A i \in Ids : Cardinality(batch[i]) <= BatchSize
  /\ \A i \in reqs : Taken(i)

\* On an open socket the relay listens for exactly the keys of the batches
\* whose subscription it has not given up: nothing is left of removed keys,
\* of closed subscriptions or of earlier connections (listeners.ts:51-79).
RelayAgrees ==
  ws = "open" => \A i \in Ids :
    CLOSED(i) \in down \/ live[i].keys = IF i \in reqs THEN batch[i] ELSE {}

\* A request that reaches the relay while the relay listens for its key is
\* passed over only if its stamp is more than the slack behind the server's
\* clock at that time, by the delay or by its sender's clock, or behind the
\* stamp of a request that came before it and moved the cursor
\* (listeners.ts:44, relay.ts:133-135, 188-189).
PassedOverIsOld ==
  [][\A r \in sent' \ sent :
       /\ \E i \in Ids : KeyOf[r] \in live[i].keys
       /\ Matches(r) = {}
       => at[r] < clock - Slack \/ \E s \in sent : at[s] > at[r]]_vars

\* A key that is served is listened for again after every loss of connection,
\* unless the relay gave up the subscription of its batch, which nothing
\* renews until the batch changes (relay.ts:66-68, 158-171).
HearsItsKeys ==
  \A k \in Keys : k \in added ~>
    \/ k \notin added
    \/ \E i \in Ids : k \in live[i].keys
    \/ \E i \in Ids \ reqs : k \in batch[i]
-----------------------------------------------------------------------------
(* The inductive invariant of ListenerProofs                               *)

\* The batches share out the keys.
Placed ==
  /\ \A i \in Ids : /\ IsFiniteSet(batch[i]) /\ Cardinality(batch[i]) <= BatchSize
                    /\ batch[i] \subseteq added
  /\ \A k \in added : \E i \in Ids : k \in batch[i]
  /\ \A i, j \in Ids : i # j => batch[i] \cap batch[j] = {}
  /\ \A i \in reqs : Taken(i)

\* The relay has no filter without a req, and none on a socket that is not open.
Silent == \A i \in Ids : i \notin reqs \/ ws # "open" => live[i].keys = {}

\* No filter starts later than the slack before now, or than a request that the
\* relay forwarded.
Reached(t) == t <= clock - Slack \/ \E s \in sent : t <= at[s]
Begun ==
  /\ Slack <= clock
  /\ \A i \in Ids : floor[i] <= clock - Slack /\ Reached(cursor[i]) /\ Reached(live[i].since)
  /\ \A m \in down : m.type = "EVENT" => m.req \in sent /\ m.at = at[m.req]

IInv == TypeOK /\ Placed /\ Silent /\ RelayAgrees /\ Begun
===============================================================================
