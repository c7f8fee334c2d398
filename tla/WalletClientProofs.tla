--------------------------- MODULE WalletClientProofs ---------------------------
(***************************************************************************)
(* The invariant of the wallet calls, and that they implement RemoteCall,  *)
(* for any set of requests and any number of faults.                       *)
(***************************************************************************)
EXTENDS WalletClient, TLAPS

\* The messages that name a request name one of the requests.
LEMMA MessageKinds ==
  ASSUME NEW m \in Messages
  PROVE  /\ m.type \in {"OK", "REPLY"} => m.e \in Requests
         /\ m.type = "REPLY" => m = Reply(m.e)
  BY DEF Messages, Event, Reply, OK, REQ, CLOSED

\* What the socket carries are messages.
LEMMA SocketMessages ==
  /\ REQ \in Messages /\ CLOSED \in Messages
  /\ \A e \in Requests : /\ Event(e) \in Messages /\ Reply(e) \in Messages
                         /\ OK(e, TRUE) \in Messages /\ OK(e, FALSE) \in Messages
  BY DEF Messages, Event, Reply, OK, REQ, CLOSED

\* Messages are told apart by their type and request.
LEMMA MessagesDiffer ==
  /\ \A e, f : Reply(e) = Reply(f) <=> e = f
  /\ \A e, f : Event(e) = Event(f) <=> e = f
  /\ \A e, f, b : Reply(e) # OK(f, b) /\ Reply(e) # CLOSED
  /\ \A e : Event(e) # REQ
  BY DEF Event, Reply, OK, REQ, CLOSED

\* The invariant holds at the start.
LEMMA InitIInv == Init => IInv
<1> SUFFICES ASSUME Init PROVE IInv OBVIOUS
<1> USE DEF Init
<1>1. TypeOK BY DEF TypeOK, Results
<1>2. OneTimer BY DEF OneTimer
<1>3. RepliesAreTrue /\ handled \subseteq inbox BY DEF RepliesAreTrue
<1> QED BY <1>1, <1>2, <1>3 DEF IInv

\* A fault is counted.
LEMMA FaultsCounted ==
  ASSUME faults \in Nat, Fault \/ NoFault PROVE faults' \in Nat
  BY FaultAssumption DEF Fault, NoFault

\* Every step keeps the types.
LEMMA NextType == IInv /\ [Next]_vars => TypeOK'
<1> SUFFICES ASSUME IInv, [Next]_vars PROVE TypeOK' OBVIOUS
<1> USE DEF IInv, TypeOK
<1>0. CASE UNCHANGED vars BY <1>0 DEF vars, client, wallet
<1>1. CASE Open
  BY <1>1, SocketMessages DEF Open, OnOpen, client, wallet, NoFault
<1>2. CASE Reconnect BY <1>2 DEF Reconnect, client, wallet, NoFault
<1>3. CASE Drop
  <2>1. faults' \in Nat BY <1>3, FaultsCounted DEF Drop
  <2> QED BY <1>3, <2>1 DEF Drop, client, wallet
<1>4. CASE ReceiveClosed BY <1>4 DEF ReceiveClosed, wallet, NoFault
<1>5. CASE TakeReq
  <2>1. faults' \in Nat BY <1>5, FaultsCounted DEF TakeReq
  <2>2. live' \in BOOLEAN /\ down' \subseteq Messages
    BY <1>5, SocketMessages DEF TakeReq
  <2> QED BY <1>5, <2>1, <2>2 DEF TakeReq, client, wallet
<1>6. ASSUME NEW m \in down, ReceiveOK(m) PROVE TypeOK'
  <2>1. m.e \in Requests BY <1>6, MessageKinds DEF ReceiveOK
  <2> QED BY <1>6, <2>1 DEF ReceiveOK, OnOK, OnReject, Results, wallet, NoFault
<1>7. ASSUME NEW m \in down, ReceiveReply(m) PROVE TypeOK'
  <2>1. m.e \in Requests BY <1>7, MessageKinds DEF ReceiveReply
  <2> QED BY <1>7, <2>1 DEF ReceiveReply, OnReplyEvent, Results, wallet, NoFault
<1>8. ASSUME NEW e \in Requests, Send(e) PROVE TypeOK'
  BY <1>8, SocketMessages DEF Send, Results, wallet, NoFault
<1>9. ASSUME NEW e \in Requests, Timer(e) PROVE TypeOK'
  BY <1>9 DEF Timer, PublishTimeout, ReplyTimeout, Expire, Results, wallet, NoFault
<1>10. ASSUME NEW e \in Requests, TakeEvent(e) PROVE TypeOK'
  <2>1. faults' \in Nat BY <1>10, FaultsCounted DEF TakeEvent
  <2>2. inbox' \subseteq Requests /\ down' \subseteq Messages
    BY <1>10, SocketMessages DEF TakeEvent
  <2> QED BY <1>10, <2>1, <2>2 DEF TakeEvent, client
<1>11. ASSUME NEW e \in Requests, Handle(e) PROVE TypeOK'
  BY <1>11, SocketMessages DEF Handle, NoFault, client
<1> QED
  BY <1>0, <1>1, <1>2, <1>3, <1>4, <1>5, <1>6, <1>7, <1>8, <1>9, <1>10, <1>11
     DEF Next, Socket

\* Every step keeps one timer for each call that waits.
LEMMA NextOneTimer == IInv /\ [Next]_vars => OneTimer'
<1> SUFFICES ASSUME IInv, [Next]_vars PROVE OneTimer' OBVIOUS
<1> USE DEF IInv, OneTimer
<1>0. CASE UNCHANGED <<publishing, pending, result>> BY <1>0
<1>1. ASSUME NEW m \in down, ReceiveOK(m) PROVE OneTimer'
  <2>1. m.e \in Requests BY <1>1, MessageKinds DEF ReceiveOK, TypeOK
  <2> QED BY <1>1, <2>1 DEF ReceiveOK, OnOK, OnReject, TypeOK
<1>2. ASSUME NEW m \in down, ReceiveReply(m) PROVE OneTimer'
  <2>1. m.e \in Requests BY <1>2, MessageKinds DEF ReceiveReply, TypeOK
  <2> QED BY <1>2, <2>1 DEF ReceiveReply, OnReplyEvent, TypeOK
<1>3. ASSUME NEW e \in Requests, Send(e) PROVE OneTimer'
  BY <1>3 DEF Send, TypeOK
<1>4. ASSUME NEW e \in Requests, Timer(e) PROVE OneTimer'
  BY <1>4 DEF Timer, PublishTimeout, ReplyTimeout, Expire, TypeOK
<1> QED
  BY <1>0, <1>1, <1>2, <1>3, <1>4
     DEF Next, Socket, Open, Reconnect, Drop, ReceiveClosed, TakeReq, TakeEvent,
         Handle, client, vars

\* Every step leaves only true replies on their way.
LEMMA NextReplies ==
  IInv /\ [Next]_vars => RepliesAreTrue' /\ (handled \subseteq inbox)'
<1> SUFFICES ASSUME IInv, [Next]_vars
             PROVE  RepliesAreTrue' /\ (handled \subseteq inbox)'
  OBVIOUS
<1> DEFINE Goal == RepliesAreTrue' /\ (handled \subseteq inbox)'
<1> USE DEF IInv, RepliesAreTrue
<1>0. CASE UNCHANGED vars BY <1>0 DEF vars, client, wallet
<1>1. CASE Open
  BY <1>1, MessagesDiffer DEF Open, OnOpen, OneTimer, TypeOK, client, wallet
<1>2. CASE Reconnect \/ Drop
  BY <1>2 DEF Reconnect, Drop, client, wallet
<1>3. CASE ReceiveClosed \/ TakeReq
  BY <1>3, MessagesDiffer DEF ReceiveClosed, TakeReq, client, wallet
<1>4. ASSUME NEW m \in down, ReceiveOK(m) PROVE Goal
  <2>1. m.e \in Requests BY <1>4, MessageKinds DEF ReceiveOK, TypeOK
  <2> QED BY <1>4, <2>1 DEF ReceiveOK, OnOK, OnReject, OneTimer, TypeOK, wallet
<1>5. ASSUME NEW m \in down, ReceiveReply(m) PROVE Goal
  <2>1. m.e \in Requests /\ m = Reply(m.e)
    BY <1>5, MessageKinds DEF ReceiveReply, TypeOK
  <2>2. m.e \in handled BY <1>5, <2>1
  <2> QED BY <1>5, <2>1, <2>2
          DEF ReceiveReply, OnReplyEvent, OneTimer, TypeOK, wallet
<1>6. ASSUME NEW e \in Requests, Send(e) PROVE Goal
  BY <1>6, MessagesDiffer DEF Send, TypeOK, wallet
<1>7. ASSUME NEW e \in Requests, Timer(e) PROVE Goal
  BY <1>7 DEF Timer, PublishTimeout, ReplyTimeout, Expire, TypeOK, wallet
<1>8. ASSUME NEW e \in Requests, TakeEvent(e) PROVE Goal
  BY <1>8, MessagesDiffer DEF TakeEvent, TypeOK, client
<1>9. ASSUME NEW e \in Requests, Handle(e) PROVE Goal
  BY <1>9, MessagesDiffer DEF Handle, TypeOK, client
<1> QED
  BY <1>0, <1>1, <1>2, <1>3, <1>4, <1>5, <1>6, <1>7, <1>8, <1>9 DEF Next, Socket

\* Every call whose caller waits has one timer that ends it, and answers come
\* only from requests the wallet carried out (NWCClient.send, onReplyEvent,
\* Relay.publish, onOK), for every set of requests.
THEOREM CallsAreSound == Spec => []IInv
<1>1. IInv /\ [Next]_vars => IInv' BY NextType, NextOneTimer, NextReplies DEF IInv
<1> QED BY InitIInv, <1>1, PTL DEF Spec

\* The timers alone.
THEOREM OneTimerHolds == Spec => []OneTimer
<1>1. IInv => OneTimer BY DEF IInv
<1> QED BY CallsAreSound, <1>1, PTL
-----------------------------------------------------------------------------
(* The calls implement RemoteCall.                                         *)

\* A call whose result changes moves in the abstract as its result says.
LEMMA OutcomeMoves ==
  ASSUME TypeOK, NEW e \in Requests, NEW r \in Results,
         result' = [result EXCEPT ![e] = r]
  PROVE  Outcome' = [Outcome EXCEPT ![e] =
                       CASE r = "new" -> "new" [] r = "none" -> "asked"
                         [] r \in {"ok", "error"} -> "answered" [] OTHER -> "failed"]
  BY DEF Outcome, TypeOK

\* Every step is a step of RemoteCall or leaves its state as it is.
LEMMA NextImplements ==
  IInv /\ [Next]_vars => [Abstract!Next]_<<Outcome, handled>>
<1> SUFFICES ASSUME IInv, [Next]_vars PROVE [Abstract!Next]_<<Outcome, handled>>
  OBVIOUS
<1> DEFINE Goal == [Abstract!Next]_<<Outcome, handled>>
<1> USE DEF IInv, Abstract!Next
<1>0. CASE UNCHANGED <<result, handled>> BY <1>0 DEF Outcome
<1>1. ASSUME NEW m \in down, ReceiveOK(m) PROVE Goal
  <2>1. m.e \in Requests BY <1>1, MessageKinds DEF ReceiveOK, TypeOK
  <2>2. CASE m.e \in publishing /\ ~m.ok
    <3>1. result' = [result EXCEPT ![m.e] = "failed"] /\ UNCHANGED handled
      BY <1>1, <2>2 DEF ReceiveOK, OnReject, wallet
    <3>2. Outcome[m.e] = "asked" BY <2>1, <2>2 DEF OneTimer, Outcome
    <3>3. Outcome' = [Outcome EXCEPT ![m.e] = "failed"]
      BY <2>1, <3>1, OutcomeMoves DEF Results
    <3> QED BY <2>1, <3>1, <3>2, <3>3 DEF Abstract!Fail
  <2>3. CASE ~(m.e \in publishing /\ ~m.ok)
    BY <1>0, <1>1, <2>3 DEF ReceiveOK, OnOK, wallet
  <2> QED BY <2>2, <2>3
<1>2. ASSUME NEW m \in down, ReceiveReply(m) PROVE Goal
  <2>1. m.e \in Requests /\ m = Reply(m.e)
    BY <1>2, MessageKinds DEF ReceiveReply, TypeOK
  <2>2. CASE subscribed /\ m.e \in pending
    <3>1. PICK r \in {"ok", "error"} : result' = [result EXCEPT ![m.e] = r]
      BY <1>2, <2>2 DEF ReceiveReply, OnReplyEvent
    <3>2. Outcome[m.e] = "asked" BY <2>1, <2>2 DEF OneTimer, Outcome
    <3>3. Outcome' = [Outcome EXCEPT ![m.e] = "answered"]
      BY <2>1, <3>1, OutcomeMoves DEF Results
    <3>4. m.e \in handled /\ UNCHANGED handled
      BY <1>2, <2>1 DEF RepliesAreTrue, ReceiveReply, wallet
    <3> QED BY <2>1, <3>2, <3>3, <3>4 DEF Abstract!Answer
  <2>3. CASE ~(subscribed /\ m.e \in pending)
    BY <1>0, <1>2, <2>3 DEF ReceiveReply, OnReplyEvent, wallet
  <2> QED BY <2>2, <2>3
<1>3. ASSUME NEW e \in Requests, Send(e) PROVE Goal
  <2>1. Outcome[e] = "new" /\ UNCHANGED handled BY <1>3 DEF Send, Outcome, wallet
  <2>2. Outcome' = [Outcome EXCEPT ![e] = "asked"]
    BY <1>3, OutcomeMoves DEF Send, Results
  <2> QED BY <2>1, <2>2 DEF Abstract!Ask
<1>4. ASSUME NEW e \in Requests, Timer(e) PROVE Goal
  <2>1. result' = [result EXCEPT ![e] = "late"] /\ UNCHANGED handled
    BY <1>4 DEF Timer, PublishTimeout, ReplyTimeout, Expire, wallet
  <2>2. Outcome[e] = "asked"
    BY <1>4 DEF Timer, PublishTimeout, ReplyTimeout, OneTimer, Outcome
  <2>3. Outcome' = [Outcome EXCEPT ![e] = "failed"]
    BY <2>1, OutcomeMoves DEF Results
  <2> QED BY <2>1, <2>2, <2>3 DEF Abstract!Fail
<1>5. ASSUME NEW e \in Requests, Handle(e) PROVE Goal
  <2>1. e \notin handled /\ handled' = handled \cup {e} /\ UNCHANGED result
    BY <1>5 DEF Handle, client
  <2>2. UNCHANGED Outcome BY <2>1 DEF Outcome
  <2>3. Outcome[e] # "new" BY <1>5 DEF Handle, RepliesAreTrue, Outcome, TypeOK
  <2> QED BY <2>1, <2>2, <2>3 DEF Abstract!Serve
<1> QED
  BY <1>0, <1>1, <1>2, <1>3, <1>4, <1>5
     DEF Next, Socket, Open, Reconnect, Drop, ReceiveClosed, TakeReq, TakeEvent,
         client, wallet, vars

\* A call of the wallet is what its callers may take it for: carried out at most
\* once and perhaps late, answered only if it was carried out, and of a call
\* that failed or timed out nothing is known (nwc-client.ts send, relay.ts).
THEOREM CallsImplementRemoteCall == Spec => ImplementsRemoteCall
<1>1. Init => Abstract!Init BY DEF Init, Abstract!Init, Outcome
<1> QED BY <1>1, NextImplements, CallsAreSound, PTL
        DEF Spec, ImplementsRemoteCall, Abstract!Spec
=============================================================================
