---------------------------- MODULE ListenerProofs ----------------------------
(***************************************************************************)
(* Listener's inductive invariant and what follows from it, for any number *)
(* of keys, requests and faults and any size of a batch.  TLC checks the   *)
(* same properties on three keys (MCListener); that a key is listened for  *)
(* again after a loss of connection (HearsItsKeys) is left to TLC.         *)
(***************************************************************************)
EXTENDS Listener, FiniteSetTheorems, TLAPS

\* Every step keeps the types.
LEMMA NextTypeOK == IInv /\ [Next]_vars => TypeOK'
<1> SUFFICES ASSUME IInv, [Next]_vars PROVE TypeOK'
  OBVIOUS
<1> USE BatchAssumption, RequestAssumption
    DEF IInv, TypeOK, Messages, EVENT, CLOSED, Begun, batcher,
        relay, server, users, bounds
<1>1. CASE Open
  BY <1>1 DEF Open, Resent, Since, Most, NoFilter
<1>2. CASE Drop
  BY <1>2 DEF Drop, Fault, Gone, NoFilter
<1>3. CASE Reconnect
  BY <1>3 DEF Reconnect
<1>4. CASE Tick
  BY <1>4 DEF Tick
<1>5. ASSUME NEW k \in Keys, Add(k) PROVE TypeOK'
  <2>1. FilterSince \in Nat
    BY DEF FilterSince
  <2> QED
    BY <1>5, <2>1 DEF Add, Req
<1>6. ASSUME NEW k \in Keys, Remove(k) PROVE TypeOK'
  <2>1. PICK i \in Ids : /\ batch' = [batch EXCEPT ![i] = @ \ {k}]
                         /\ Renew(i, batch[i] \ {k})
    BY <1>6 DEF Remove
  <2>2. FilterSince \in Nat
    BY DEF FilterSince
  <2>3. /\ reqs' \subseteq Ids /\ floor' \in [Ids -> Nat] /\ cursor' \in [Ids -> Int]
        /\ live' \in [Ids -> [keys : SUBSET Keys, since : Int]]
    <3>1. CASE Close(i)
      BY ONLY <3>1, IInv DEF Close, NoFilter, IInv, TypeOK
    <3>2. CASE Req(i, batch[i] \ {k})
      BY ONLY <2>2, <3>2, IInv DEF Req, IInv, TypeOK
    <3> QED
      BY ONLY <2>1, <3>1, <3>2 DEF Renew
  <2>4. batch' \in [Ids -> SUBSET Keys]
    BY ONLY <2>1, IInv DEF IInv, TypeOK
  <2>5. /\ added' \subseteq known /\ removes' \in Nat
        /\ UNCHANGED <<known, ws, down, clock, users, reply, faults>>
    BY ONLY <1>6, IInv DEF Remove, IInv, TypeOK
  <2> HIDE DEF Messages, Begun
  <2> QED
    BY <2>3, <2>4, <2>5
<1>7. ASSUME NEW i \in Ids, Refuse(i) PROVE TypeOK'
  BY <1>7 DEF Refuse, Fault, NoFilter
<1>8. ASSUME NEW i \in Ids, ReceiveClosed(i) PROVE TypeOK'
  BY <1>8 DEF ReceiveClosed, Close, NoFilter
<1>9. ASSUME NEW r \in Requests, Send(r) PROVE TypeOK'
  <2>1. {EVENT(i, r, at[r]) : i \in Matches(r)} \subseteq Messages
    BY DEF Matches
  <2>2. down' \subseteq Messages
    BY ONLY <1>9, <2>1, IInv DEF Send, IInv, TypeOK
  <2>3. sent' \subseteq signed' /\ signed' \subseteq Requests /\ UNCHANGED at
    BY ONLY <1>9, IInv DEF Send, IInv, TypeOK
  <2> HIDE DEF Messages, EVENT
  <2> QED
    BY <1>9, <2>2, <2>3 DEF Send
<1>10. ASSUME NEW r \in Requests, Reply(r) PROVE TypeOK'
  BY <1>10 DEF Reply
<1>11. ASSUME NEW r \in Requests, Accepted(r) PROVE TypeOK'
  BY <1>11 DEF Accepted
<1>12. ASSUME NEW r \in Requests, Failed(r) PROVE TypeOK'
  BY <1>12 DEF Failed, Fault, Gone, NoFilter
<1>13. ASSUME NEW m \in down, Receive(m) PROVE TypeOK'
  BY <1>13 DEF Receive
<1>14. CASE UNCHANGED vars
  BY <1>14 DEF vars
<1>15. ASSUME NEW r \in Requests, Sign(r) PROVE TypeOK'
  BY <1>15 DEF Sign
<1> HIDE DEF IInv, TypeOK, Messages, EVENT, CLOSED, Begun
<1> QED
  BY <1>1, <1>2, <1>3, <1>4, <1>5, <1>6, <1>7, <1>8, <1>9, <1>10,
     <1>11, <1>12, <1>13, <1>14, <1>15
  DEF Next

\* Every step keeps the keys shared out: addPubkey finds room or a free id,
\* removePubkey frees an id with its last key.
LEMMA NextPlaced == IInv /\ [Next]_vars => Placed'
<1> SUFFICES ASSUME IInv, [Next]_vars PROVE Placed'
  OBVIOUS
<1> USE BatchAssumption, RequestAssumption
    DEF IInv, TypeOK, Placed, Taken, batcher, relay, server, users, bounds
<1>1. CASE Open
  BY <1>1 DEF Open, Resent, Since, Most, NoFilter
<1>2. CASE Drop
  BY <1>2 DEF Drop, Fault, Gone, NoFilter
<1>3. CASE Reconnect
  BY <1>3 DEF Reconnect
<1>4. CASE Tick
  BY <1>4 DEF Tick
<1>5. ASSUME NEW k \in Keys, Add(k) PROVE Placed'
  <2>1. PICK i \in Ids :
          /\ IF \E j \in Ids : Room(j) THEN Room(i) ELSE ~Taken(i)
          /\ batch' = [batch EXCEPT ![i] = @ \cup {k}] /\ Req(i, batch[i] \cup {k})
    BY <1>5 DEF Add
  <2>2. k \notin added /\ added' = added \cup {k} /\ reqs' = reqs \cup {i}
    BY <1>5, <2>1 DEF Add, Req
  <2>3. IsFiniteSet(batch[i]) /\ k \notin batch[i] /\ Cardinality(batch[i]) < BatchSize
    <3>1. CASE Room(i)
      BY <2>2, <3>1 DEF Room
    <3>2. CASE ~Taken(i)
      BY <3>2, FS_EmptySet
    <3> QED
      BY <2>1, <3>1, <3>2
  <2>4. IsFiniteSet(batch'[i]) /\ Cardinality(batch'[i]) <= BatchSize
    <3>1. batch'[i] = batch[i] \cup {k}
      BY <2>1
    <3>2. Cardinality(batch'[i]) = Cardinality(batch[i]) + 1 /\ IsFiniteSet(batch'[i])
      BY ONLY <2>3, <3>1, FS_AddElement
    <3> QED
      BY ONLY <2>3, <3>2, FS_CardinalityType, BatchAssumption
  <2>5. \A j \in Ids : /\ IsFiniteSet(batch'[j]) /\ Cardinality(batch'[j]) <= BatchSize
                       /\ batch'[j] \subseteq added'
    BY <2>1, <2>2, <2>4
  <2>6. \A l \in added' : \E j \in Ids : l \in batch'[j]
    BY <2>1, <2>2
  <2>7. \A j, l \in Ids : j # l => batch'[j] \cap batch'[l] = {}
    BY <2>1, <2>2
  <2>8. \A j \in reqs' : batch'[j] # {}
    BY <2>1, <2>2
  <2> QED
    BY <2>5, <2>6, <2>7, <2>8
<1>6. ASSUME NEW k \in Keys, Remove(k) PROVE Placed'
  <2>1. PICK i \in Ids : /\ k \in batch[i] /\ batch' = [batch EXCEPT ![i] = @ \ {k}]
                         /\ Renew(i, batch[i] \ {k})
    BY <1>6 DEF Remove
  <2>2. added' = added \ {k}
    BY <1>6 DEF Remove
  <2>3. IsFiniteSet(batch'[i]) /\ Cardinality(batch'[i]) <= BatchSize
    <3>1. /\ batch'[i] = batch[i] \ {k} /\ k \in batch[i]
          /\ IsFiniteSet(batch[i]) /\ Cardinality(batch[i]) <= BatchSize
      BY <2>1
    <3>2. Cardinality(batch'[i]) = Cardinality(batch[i]) - 1 /\ IsFiniteSet(batch'[i])
      BY ONLY <3>1, FS_RemoveElement
    <3> QED
      BY ONLY <3>1, <3>2, FS_CardinalityType, BatchAssumption
  <2>4. \A j \in Ids : /\ IsFiniteSet(batch'[j]) /\ Cardinality(batch'[j]) <= BatchSize
                       /\ batch'[j] \subseteq added'
    BY <2>1, <2>2, <2>3
  <2>5. \A l \in added' : \E j \in Ids : l \in batch'[j]
    BY <2>1, <2>2
  <2>6. \A j, l \in Ids : j # l => batch'[j] \cap batch'[l] = {}
    BY <2>1
  <2>7. \A j \in reqs' : batch'[j] # {}
    BY <2>1 DEF Renew, Req, Close
  <2> QED
    BY <2>4, <2>5, <2>6, <2>7
<1>7. ASSUME NEW i \in Ids, Refuse(i) PROVE Placed'
  BY <1>7 DEF Refuse, Fault, NoFilter
<1>8. ASSUME NEW i \in Ids, ReceiveClosed(i) PROVE Placed'
  BY <1>8 DEF ReceiveClosed, Close, NoFilter
<1>9. ASSUME NEW r \in Requests, Send(r) PROVE Placed'
  BY <1>9 DEF Send, Matches
<1>10. ASSUME NEW r \in Requests, Reply(r) PROVE Placed'
  BY <1>10 DEF Reply
<1>11. ASSUME NEW r \in Requests, Accepted(r) PROVE Placed'
  BY <1>11 DEF Accepted
<1>12. ASSUME NEW r \in Requests, Failed(r) PROVE Placed'
  BY <1>12 DEF Failed, Fault, Gone, NoFilter
<1>13. ASSUME NEW m \in down, Receive(m) PROVE Placed'
  BY <1>13 DEF Receive
<1>14. CASE UNCHANGED vars
  BY <1>14 DEF vars
<1>15. ASSUME NEW r \in Requests, Sign(r) PROVE Placed'
  BY <1>15 DEF Sign
<1> HIDE DEF IInv, TypeOK, Placed, Taken
<1> QED
  BY <1>1, <1>2, <1>3, <1>4, <1>5, <1>6, <1>7, <1>8, <1>9, <1>10,
     <1>11, <1>12, <1>13, <1>14, <1>15
  DEF Next

\* Every step keeps the relay silent for an id without a req.
LEMMA NextSilent == IInv /\ [Next]_vars => Silent'
<1> SUFFICES ASSUME IInv, [Next]_vars PROVE Silent'
  OBVIOUS
<1> USE BatchAssumption, RequestAssumption
    DEF IInv, TypeOK, Silent, RelayAgrees, EVENT, CLOSED, Messages,
        batcher, relay, server, users, bounds
<1>1. CASE Open
  BY <1>1 DEF Open, Resent, Since, Most, NoFilter
<1>2. CASE Drop
  BY <1>2 DEF Drop, Fault, Gone, NoFilter
<1>3. CASE Reconnect
  BY <1>3 DEF Reconnect
<1>4. CASE Tick
  BY <1>4 DEF Tick
<1>5. ASSUME NEW k \in Keys, Add(k) PROVE Silent'
  BY <1>5 DEF Add, Req, FilterSince, Room, Taken
<1>6. ASSUME NEW k \in Keys, Remove(k) PROVE Silent'
  BY <1>6 DEF Remove, Renew, Req, Close, FilterSince, NoFilter
<1>7. ASSUME NEW i \in Ids, Refuse(i) PROVE Silent'
  BY <1>7 DEF Refuse, Fault, NoFilter
<1>8. ASSUME NEW i \in Ids, ReceiveClosed(i) PROVE Silent'
  BY <1>8 DEF ReceiveClosed, Close, NoFilter
<1>9. ASSUME NEW r \in Requests, Send(r) PROVE Silent'
  BY <1>9 DEF Send, Matches
<1>10. ASSUME NEW r \in Requests, Reply(r) PROVE Silent'
  BY <1>10 DEF Reply
<1>11. ASSUME NEW r \in Requests, Accepted(r) PROVE Silent'
  BY <1>11 DEF Accepted
<1>12. ASSUME NEW r \in Requests, Failed(r) PROVE Silent'
  BY <1>12 DEF Failed, Fault, Gone, NoFilter
<1>13. ASSUME NEW m \in down, Receive(m) PROVE Silent'
  BY <1>13 DEF Receive
<1>14. CASE UNCHANGED vars
  BY <1>14 DEF vars
<1>15. ASSUME NEW r \in Requests, Sign(r) PROVE Silent'
  BY <1>15 DEF Sign
<1> HIDE DEF IInv, TypeOK, Silent, RelayAgrees, EVENT, CLOSED,
             Messages
<1> QED
  BY <1>1, <1>2, <1>3, <1>4, <1>5, <1>6, <1>7, <1>8, <1>9, <1>10,
     <1>11, <1>12, <1>13, <1>14, <1>15
  DEF Next

\* Every step keeps the filters of the relay equal to the batches.
LEMMA NextRelayAgrees == IInv /\ [Next]_vars => RelayAgrees'
<1> SUFFICES ASSUME IInv, [Next]_vars PROVE RelayAgrees'
  OBVIOUS
<1> USE BatchAssumption, RequestAssumption
    DEF IInv, TypeOK, Silent, RelayAgrees, EVENT, CLOSED, Messages,
        batcher, relay, server, users, bounds
<1>1. CASE Open
  BY <1>1 DEF Open, Resent, Since, Most, NoFilter
<1>2. CASE Drop
  BY <1>2 DEF Drop, Fault, Gone, NoFilter
<1>3. CASE Reconnect
  BY <1>3 DEF Reconnect
<1>4. CASE Tick
  BY <1>4 DEF Tick
<1>5. ASSUME NEW k \in Keys, Add(k) PROVE RelayAgrees'
  <2>1. PICK i \in Ids :
          /\ batch' = [batch EXCEPT ![i] = @ \cup {k}] /\ Req(i, batch[i] \cup {k})
    BY <1>5 DEF Add
  <2>2. (ws' = "open") => (ws = "open")
    BY <1>5 DEF Add
  <2>3. down' = down
    BY <1>5 DEF Add
  <2> QED
    BY <2>1, <2>2, <2>3 DEF Req
<1>6. ASSUME NEW k \in Keys, Remove(k) PROVE RelayAgrees'
  <2>1. PICK i \in Ids :
          batch' = [batch EXCEPT ![i] = @ \ {k}] /\ Renew(i, batch[i] \ {k})
    BY <1>6 DEF Remove
  <2>2. UNCHANGED <<ws, down>>
    BY <1>6 DEF Remove
  <2> HIDE DEF CLOSED, Messages, EVENT
  <2> SUFFICES ASSUME ws = "open", NEW j \in Ids, CLOSED(j) \notin down
               PROVE  live'[j].keys = IF j \in reqs' THEN batch'[j] ELSE {}
    BY <2>2
  <2>3. live[j].keys = IF j \in reqs THEN batch[j] ELSE {}
    OBVIOUS
  <2>4. CASE j # i
    BY <2>1, <2>3, <2>4 DEF Renew, Close, Req
  <2>5. CASE j = i /\ batch[i] \ {k} = {}
    <3>1. Close(i)
      BY ONLY <2>1, <2>5 DEF Renew
    <3> QED
      BY <2>1, <2>3, <2>5, <3>1 DEF Close, NoFilter
  <2>6. CASE j = i /\ batch[i] \ {k} # {}
    <3>1. Req(i, batch[i] \ {k})
      BY ONLY <2>1, <2>6 DEF Renew
    <3> QED
      BY <2>1, <2>6, <3>1 DEF Req
  <2> QED
    BY <2>4, <2>5, <2>6
<1>7. ASSUME NEW i \in Ids, Refuse(i) PROVE RelayAgrees'
  BY <1>7 DEF Refuse, Fault, NoFilter
<1>8. ASSUME NEW i \in Ids, ReceiveClosed(i) PROVE RelayAgrees'
  BY <1>8 DEF ReceiveClosed, Close, NoFilter
<1>9. ASSUME NEW r \in Requests, Send(r) PROVE RelayAgrees'
  BY <1>9 DEF Send, Matches
<1>10. ASSUME NEW r \in Requests, Reply(r) PROVE RelayAgrees'
  BY <1>10 DEF Reply
<1>11. ASSUME NEW r \in Requests, Accepted(r) PROVE RelayAgrees'
  BY <1>11 DEF Accepted
<1>12. ASSUME NEW r \in Requests, Failed(r) PROVE RelayAgrees'
  BY <1>12 DEF Failed, Fault, Gone, NoFilter
<1>13. ASSUME NEW m \in down, Receive(m) PROVE RelayAgrees'
  BY <1>13 DEF Receive
<1>14. CASE UNCHANGED vars
  BY <1>14 DEF vars
<1>15. ASSUME NEW r \in Requests, Sign(r) PROVE RelayAgrees'
  BY <1>15 DEF Sign
<1> HIDE DEF IInv, TypeOK, Silent, RelayAgrees, EVENT, CLOSED,
             Messages
<1> QED
  BY <1>1, <1>2, <1>3, <1>4, <1>5, <1>6, <1>7, <1>8, <1>9, <1>10,
     <1>11, <1>12, <1>13, <1>14, <1>15
  DEF Next

\* Every step keeps the start of every filter within what was sent.
LEMMA NextBegun == IInv /\ [Next]_vars => Begun'
<1> SUFFICES ASSUME IInv, [Next]_vars PROVE Begun'
  OBVIOUS
<1> USE BatchAssumption, RequestAssumption
    DEF IInv, TypeOK, Begun, Reached, EVENT, CLOSED, Messages,
        batcher, relay, server, users, bounds
<1>1. CASE Open
  BY <1>1 DEF Open, Resent, Since, Most, NoFilter
<1>2. CASE Drop
  BY <1>2 DEF Drop, Fault, Gone, NoFilter
<1>3. CASE Reconnect
  BY <1>3 DEF Reconnect
<1>4. CASE Tick
  BY <1>4 DEF Tick
<1>5. ASSUME NEW k \in Keys, Add(k) PROVE Begun'
  BY <1>5 DEF Add, Req, FilterSince, Room, Taken
<1>6. ASSUME NEW k \in Keys, Remove(k) PROVE Begun'
  BY <1>6 DEF Remove, Renew, Req, Close, FilterSince, NoFilter
<1>7. ASSUME NEW i \in Ids, Refuse(i) PROVE Begun'
  BY <1>7 DEF Refuse, Fault, NoFilter
<1>8. ASSUME NEW i \in Ids, ReceiveClosed(i) PROVE Begun'
  BY <1>8 DEF ReceiveClosed, Close, NoFilter
<1>9. ASSUME NEW r \in Requests, Send(r) PROVE Begun'
  BY <1>9 DEF Send, Matches
<1>10. ASSUME NEW r \in Requests, Reply(r) PROVE Begun'
  BY <1>10 DEF Reply
<1>11. ASSUME NEW r \in Requests, Accepted(r) PROVE Begun'
  BY <1>11 DEF Accepted
<1>12. ASSUME NEW r \in Requests, Failed(r) PROVE Begun'
  BY <1>12 DEF Failed, Fault, Gone, NoFilter
<1>13. ASSUME NEW m \in down, Receive(m) PROVE Begun'
  BY <1>13 DEF Receive
<1>14. CASE UNCHANGED vars
  BY <1>14 DEF vars
<1>15. ASSUME NEW r \in Requests, Sign(r) PROVE Begun'
  BY <1>15 DEF Sign
<1> HIDE DEF IInv, TypeOK, Begun, Reached, EVENT, CLOSED,
             Messages
<1> QED
  BY <1>1, <1>2, <1>3, <1>4, <1>5, <1>6, <1>7, <1>8, <1>9, <1>10,
     <1>11, <1>12, <1>13, <1>14, <1>15
  DEF Next

\* A listener without keys.
LEMMA InitIInv == Init => IInv
<1> SUFFICES ASSUME Init PROVE IInv
  OBVIOUS
<1> USE BatchAssumption, RequestAssumption DEF Init, NoFilter
<1>1. TypeOK
  BY DEF TypeOK
<1>2. Placed
  BY FS_EmptySet DEF Placed
<1>3. Silent /\ RelayAgrees /\ Begun
  BY DEF Silent, RelayAgrees, Begun, Reached
<1> QED
  BY <1>1, <1>2, <1>3 DEF IInv

\* The inductive invariant holds in every state, over every loss of the
\* connection and every subscription that the relay gives up.
THEOREM ListenerInductive == Spec => []IInv
<1>1. IInv /\ [Next]_vars => IInv'
  BY NextTypeOK, NextPlaced, NextSilent, NextRelayAgrees, NextBegun DEF IInv
<1> QED
  BY InitIInv, <1>1, PTL DEF Spec

\* Every variable keeps its type.
THEOREM ListenerTypeCorrect == Spec => []TypeOK
<1>1. IInv => TypeOK
  BY DEF IInv
<1> QED
  BY ListenerInductive, <1>1, PTL

\* Disjoint batches that cover the keys hold each key once.
LEMMA PlacedBatched == IInv => Batched
<1> SUFFICES ASSUME IInv PROVE Batched
  OBVIOUS
<1> USE DEF IInv, Placed
<1>1. ASSUME NEW k \in Keys
      PROVE  Cardinality({i \in Ids : k \in batch[i]}) = IF k \in added THEN 1 ELSE 0
  <2>1. CASE k \in added
    <3>1. PICK j \in Ids : k \in batch[j]
      BY <2>1
    <3>2. {i \in Ids : k \in batch[i]} = {j}
      BY <3>1
    <3> QED
      BY ONLY <2>1, <3>2, FS_Singleton
  <2>2. CASE k \notin added
    <3>1. {i \in Ids : k \in batch[i]} = {}
      BY <2>2
    <3> QED
      BY ONLY <2>2, <3>1, FS_EmptySet
  <2> QED
    BY <2>1, <2>2
<1> QED
  BY <1>1 DEF Batched

\* However keys come and go, every key is in exactly one batch, and no batch is
\* larger than BATCH_SIZE (utils.ts:18-69).
THEOREM BatchesShareTheKeys == Spec => []Batched
BY ListenerInductive, PlacedBatched, PTL

\* On an open socket the relay listens for what the batches say, unless it has
\* given the subscription up (listeners.ts:51-79).
THEOREM RelayListens == Spec => []RelayAgrees
<1>1. IInv => RelayAgrees
  BY DEF IInv
<1> QED
  BY ListenerInductive, <1>1, PTL

\* The filters start the slack before some time that has passed or at the stamp
\* of a request that was forwarded, so only an older request is passed over.
LEMMA NextPassedOver ==
  IInv /\ [Next]_vars =>
    \A r \in sent' \ sent :
      /\ \E i \in Ids : KeyOf[r] \in live[i].keys
      /\ Matches(r) = {}
      => at[r] < clock - Slack \/ \E s \in sent : at[s] > at[r]
<1> SUFFICES ASSUME IInv, [Next]_vars, NEW r \in sent' \ sent,
                    NEW i \in Ids, KeyOf[r] \in live[i].keys, Matches(r) = {}
             PROVE  at[r] < clock - Slack \/ \E s \in sent : at[s] > at[r]
  OBVIOUS
<1>1. r \in Requests
  <2>1. TypeOK'
    BY NextTypeOK
  <2> QED
    BY <2>1 DEF TypeOK
<1>2. at[r] \in Int /\ live[i].since \in Int /\ clock - Slack \in Int
  BY <1>1, BatchAssumption DEF IInv, TypeOK
<1>3. at[r] < live[i].since
  BY <1>2 DEF Matches
<1>4. Reached(live[i].since)
  BY DEF IInv, Begun
<1>5. \A s \in sent : at[s] \in Int
  BY DEF IInv, TypeOK
<1> QED
  BY <1>2, <1>3, <1>4, <1>5 DEF Reached

\* A request is passed over only if it is more than the slack behind the clock,
\* or behind one that came before it (listeners.ts:44, relay.ts:133-135, 188-189).
THEOREM PassedOverOnlyIfOld == Spec => PassedOverIsOld
<1>1. IInv /\ [Next]_vars =>
        [\A r \in sent' \ sent :
           /\ \E i \in Ids : KeyOf[r] \in live[i].keys
           /\ Matches(r) = {}
           => at[r] < clock - Slack \/ \E s \in sent : at[s] > at[r]]_vars
  BY NextPassedOver
<1> QED
  BY ListenerInductive, <1>1, PTL DEF Spec, PassedOverIsOld
===============================================================================
