---------------------------- MODULE ParentLinkProofs ----------------------------
(***************************************************************************)
(* The safety of the link between enclave and parent for any number of     *)
(* broken connections, crashes and calls.                                  *)
(***************************************************************************)
EXTENDS ParentLink, TLAPS

\* A fault is counted, and seen if a shutdown was asked for.
LEMMA FaultsCounted ==
  ASSUME TypeOK, (Fault /\ UNCHANGED asked) \/ NoFault
  PROVE  faults' \in Nat /\ asked' \in BOOLEAN /\ hurt' \in BOOLEAN
<1>1. faults' \in Nat BY BoundAssumption DEF Fault, NoFault, TypeOK
<1>2. asked' \in BOOLEAN /\ hurt' \in BOOLEAN BY DEF Fault, NoFault, TypeOK
<1> QED BY <1>1, <1>2

\* A connection is a positive number.
LEMMA ConnsPositive == \A i \in Conns : i \in Nat /\ i # 0
  BY BoundAssumption DEF Conns

\* The link before the enclave starts.
LEMMA InitIInv == Init => IInv /\ OneSignal
<1> SUFFICES ASSUME Init PROVE IInv /\ OneSignal OBVIOUS
<1> USE DEF Init
<1>1. TypeOK BY DEF TypeOK, NoCall
<1>2. OneLink BY DEF OneLink, Running
<1>3. SignalsOpenSocket /\ OneSignal BY DEF SignalsOpenSocket, OneSignal
<1> QED BY <1>1, <1>2, <1>3 DEF IInv

\* A call is in one of its states.
LEMMA CallTyped ==
  ASSUME NEW p \in {"idle", "wait", "sent", "lost"}, NEW c \in Conns \cup {0}
  PROVE  [pc |-> p, conn |-> c] \in
           [pc : {"idle", "wait", "sent", "lost"}, conn : Conns \cup {0}]
  OBVIOUS

\* Every step keeps the types.
LEMMA NextType == IInv /\ [Next]_vars => TypeOK'
<1> SUFFICES ASSUME IInv, [Next]_vars PROVE TypeOK' OBVIOUS
<1> USE ConnsPositive DEF IInv
<1>a. NoFault => faults' \in Nat /\ asked' \in BOOLEAN /\ hurt' \in BOOLEAN
  BY FaultsCounted
<1>b. NoCall \in [pc : {"idle", "wait", "sent", "lost"}, conn : Conns \cup {0}]
  BY CallTyped DEF NoCall
<1>0. CASE UNCHANGED vars BY <1>0 DEF vars, client, server, TypeOK
<1>1. ASSUME Start \/ Reconnect PROVE TypeOK'
  BY <1>1, <1>a DEF Start, Reconnect, Connect, server, TypeOK
<1>2. ASSUME Open PROVE TypeOK'
  <2>1. call' \in [pc : {"idle", "wait", "sent", "lost"}, conn : Conns \cup {0}]
    BY <1>2, CallTyped DEF Open, TypeOK
  <2> QED BY <1>2, <2>1, <1>a DEF Open, server, TypeOK
<1>3. ASSUME Close PROVE TypeOK'
  BY <1>3, <1>a DEF Close, OnClose, server, TypeOK
<1>4. ASSUME Die, (Fault /\ UNCHANGED asked) \/ NoFault PROVE TypeOK'
  <2>1. faults' \in Nat /\ asked' \in BOOLEAN /\ hurt' \in BOOLEAN
    BY <1>4, FaultsCounted
  <2>2. cli' \in [Conns -> {"none", "connecting", "open", "closed"}]
    BY <1>4 DEF Die, TypeOK
  <2>3. broken' \subseteq Conns BY <1>4 DEF Die, TypeOK
  <2> QED BY <1>4, <2>1, <2>2, <2>3, <1>b DEF Die, server, TypeOK
<1>5. ASSUME Call PROVE TypeOK'
  <2>1. call' \in [pc : {"idle", "wait", "sent", "lost"}, conn : Conns \cup {0}]
    BY <1>5, CallTyped DEF Call, TypeOK
  <2>2. calls' \in Nat BY <1>5 DEF Call, TypeOK
  <2> QED BY <1>5, <2>1, <2>2, <1>a DEF Call, client, server, TypeOK
<1>6. ASSUME Reply PROVE TypeOK'
  BY <1>6, <1>a, <1>b DEF Reply, client, server, TypeOK
<1>7. ASSUME Timeout PROVE TypeOK'
  BY <1>4, <1>7, <1>a, <1>b DEF Timeout, client, server, TypeOK
<1>8. ASSUME NEW i \in Conns, Accept(i) \/ ServerClose(i) PROVE TypeOK'
  BY <1>8, <1>a DEF Accept, ServerClose, OnServerClose, client, TypeOK
<1>9. ASSUME CheckShutdown PROVE TypeOK'
  BY <1>9, <1>a DEF CheckShutdown, Consume, client, server, TypeOK
<1>10. ASSUME ParentCrash PROVE TypeOK'
  <2>1. faults' \in Nat /\ asked' \in BOOLEAN /\ hurt' \in BOOLEAN
    BY <1>10, FaultsCounted DEF ParentCrash
  <2>2. srv' \in [Conns -> {"none", "open", "closed"}]
    BY <1>10 DEF ParentCrash, TypeOK
  <2>3. broken' \subseteq Conns BY <1>10 DEF ParentCrash, TypeOK
  <2> QED BY <1>10, <2>1, <2>2, <2>3 DEF ParentCrash, client, TypeOK
<1>11. ASSUME Ask PROVE TypeOK' BY <1>11 DEF Ask, client, server, TypeOK
<1>12. ASSUME Deliver PROVE TypeOK'
  BY <1>12, <1>a DEF Deliver, OnShutdown, client, server, TypeOK
<1>13. ASSUME Halt PROVE TypeOK'
  <2>1. cli' \in [Conns -> {"none", "connecting", "open", "closed"}]
    BY <1>13 DEF Halt, TypeOK
  <2>2. broken' \subseteq Conns BY <1>13 DEF Halt, TypeOK
  <2> QED BY <1>13, <2>1, <2>2, <1>a, <1>b DEF Halt, server, TypeOK
<1>14. ASSUME NEW i \in Conns, Break(i) PROVE TypeOK'
  <2>1. faults' \in Nat /\ asked' \in BOOLEAN /\ hurt' \in BOOLEAN
    BY <1>14, FaultsCounted DEF Break
  <2> QED BY <1>14, <2>1 DEF Break, client, server, TypeOK
<1> QED
  BY <1>0, <1>1, <1>2, <1>3, <1>4, <1>5, <1>6, <1>7, <1>8, <1>9, <1>10, <1>11,
     <1>12, <1>13, <1>14
     DEF Next, Link, Parent, Signal, ConnectFails, Crash

\* A process that dies leaves no socket behind.
LEMMA DeadHasNoLink ==
  ASSUME TypeOK, cli' = [i \in Conns |-> IF cli[i] = "none" THEN "none" ELSE "closed"],
         proc' \in {"down", "off"}, cur' = 0
  PROVE  OneLink'
  BY DEF OneLink, Running, TypeOK

\* Every step leaves the client one link at most.
LEMMA NextOneLink == IInv /\ [Next]_vars => OneLink'
<1> SUFFICES ASSUME IInv, [Next]_vars PROVE OneLink' OBVIOUS
<1> USE ConnsPositive DEF IInv
<1>1. ASSUME UNCHANGED client, UNCHANGED proc PROVE OneLink'
  BY <1>1 DEF OneLink, Running, client
<1>2. ASSUME Start \/ Reconnect PROVE OneLink'
  <2>1. Connect BY <1>2 DEF Start, Reconnect
  <2>2. \A j \in Conns : cli[j] \notin {"connecting", "open"}
    BY <1>2 DEF Start, Reconnect, Running, OneLink, TypeOK
  <2>3. PICK i \in Conns : /\ cli' = [cli EXCEPT ![i] = "connecting"]
                           /\ cur' = i /\ timer' = FALSE
    BY <2>1 DEF Connect
  <2>4. cli'[i] = "connecting" /\ cur' # 0 BY <2>3 DEF TypeOK
  <2>5. Running' BY <1>2 DEF Start, Reconnect, Running
  <2>6. \A j \in Conns : cli'[j] \in {"connecting", "open"} => j = i
    BY <2>2, <2>3 DEF TypeOK
  <2> QED BY <2>3, <2>4, <2>5, <2>6 DEF OneLink
<1>3. ASSUME Open PROVE OneLink'
  BY <1>3 DEF Open, OneLink, Running, TypeOK
<1>4. ASSUME Close PROVE OneLink'
  BY <1>4 DEF Close, OnClose, OneLink, Running, TypeOK
<1>5. ASSUME Die \/ Halt PROVE OneLink'
  BY <1>5, DeadHasNoLink DEF Die, Halt
<1>6. ASSUME Deliver PROVE OneLink'
  BY <1>6 DEF Deliver, OnShutdown, OneLink, Running, client
<1> QED
  BY <1>1, <1>2, <1>3, <1>4, <1>5, <1>6
     DEF Next, Link, Parent, Signal, ConnectFails, Crash, Timeout, Accept, ServerClose,
         CheckShutdown, ParentCrash, Ask, Break, Call, Reply, vars

\* Every step leaves the parent with a socket it holds open, or none.
LEMMA NextSignals == IInv /\ [Next]_vars => SignalsOpenSocket'
<1> SUFFICES ASSUME IInv, [Next]_vars PROVE SignalsOpenSocket' OBVIOUS
<1> USE ConnsPositive DEF IInv, SignalsOpenSocket, TypeOK
<1>1. CASE UNCHANGED server BY <1>1 DEF server
<1>2. ASSUME NEW i \in Conns, Accept(i) PROVE SignalsOpenSocket'
  BY <1>2 DEF Accept
<1>3. ASSUME NEW i \in Conns, ServerClose(i) PROVE SignalsOpenSocket'
  BY <1>3 DEF ServerClose, OnServerClose
<1>4. ASSUME ParentCrash PROVE SignalsOpenSocket'
  BY <1>4 DEF ParentCrash
<1> QED
  BY <1>1, <1>2, <1>3, <1>4
     DEF Next, Link, Parent, Signal, Start, Reconnect, Open, Close, ConnectFails, Die,
         Crash, Call, Reply, Timeout, CheckShutdown, Ask, Deliver, Halt, Break, vars

\* The enclave has one link and the parent signals a socket it holds open,
\* however many connections break (WSClient.connect and onclose, ParentServer).
THEOREM LinkIsSound == Spec => []IInv
<1>1. IInv /\ [Next]_vars => IInv'
  BY NextType, NextOneLink, NextSignals DEF IInv
<1> QED BY InitIInv, <1>1, PTL DEF Spec

\* The client's half of it.
THEOREM OneLinkHolds == Spec => []OneLink
<1>1. IInv => OneLink BY DEF IInv
<1> QED BY LinkIsSound, <1>1, PTL

\* Every step keeps the signal in one place.
LEMMA NextOneSignal == IInv /\ OneSignal /\ [Next]_vars => OneSignal'
<1> SUFFICES ASSUME IInv, OneSignal, [Next]_vars PROVE OneSignal' OBVIOUS
<1> USE DEF IInv, OneSignal
<1>1. CASE /\ UNCHANGED <<file, wire, asked>>
           /\ proc' \in {"halting", "off"} => proc \in {"halting", "off"}
  BY <1>1
<1>2. ASSUME CheckShutdown PROVE OneSignal'
  BY <1>2 DEF CheckShutdown, Consume, NoFault
<1>3. ASSUME Ask PROVE OneSignal'
  BY <1>3 DEF Ask
<1>4. ASSUME Deliver PROVE OneSignal'
  BY <1>4 DEF Deliver, OnShutdown, NoFault
<1> QED
  BY <1>1, <1>2, <1>3, <1>4
     DEF Next, Link, Parent, Signal, Start, Reconnect, Open, Close, OnClose, ConnectFails,
         Die, Crash, Call, Reply, Timeout, Accept, ServerClose, ParentCrash, Halt, Break,
         vars, client, server, NoFault

\* One request of the operator stops the enclave at most once, and nothing else
\* does (ParentServer.checkShutdown, ParentClient.onEvent).
THEOREM OneSignalHolds == Spec => []OneSignal
<1> QED BY InitIInv, LinkIsSound, NextOneSignal, PTL DEF Spec
=============================================================================
