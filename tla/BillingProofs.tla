---------------------------- MODULE BillingProofs ----------------------------
(***************************************************************************)
(* What holds of Billing for any number of containers, any interval and    *)
(* any number of faults: the inductive invariant IInv with the safety      *)
(* properties, DockerInv for docker, and AccountInv for the refinement of  *)
(* Account.  One lemma per conjunct says that every step keeps it.         *)
(***************************************************************************)
EXTENDS BillingRefinement, TLAPS

(* Types.  TypeOK needs Parked (a pc that waits for a container names one) *)
(* and Ordered (a row or a container in memory has a launch invoice).      *)

\* A record of Infos stays one when a field of it is assigned.
LEMMA InfoTypes ==
  ASSUME NEW i \in Infos
  PROVE  /\ i.state \in States /\ i.count \in Nat /\ i.paid \in Nat
         /\ i.balance \in Nat
         /\ \A s \in States : [i EXCEPT !.state = s] \in Infos
         /\ \A n \in Nat : /\ [i EXCEPT !.count = n] \in Infos
                           /\ [i EXCEPT !.paid = n] \in Infos
                           /\ [i EXCEPT !.balance = n] \in Infos
BY DEF Infos

\* What Init and the resets assign is well typed.
LEMMA InitTypes ==
  /\ NewInfo \in Infos /\ MonIdle \in Mons /\ LoadIdle \in Loads
  /\ HaltIdle \in Halts /\ FreeSlot \in Refreshes
BY DEF Infos, States, NewInfo, MonIdle, Mons, MonPcs, LoadIdle, Loads, LoadPcs,
       HaltIdle, Halts, FreeSlot, Refreshes, MaybeContainer

\* The fields of chargeMonitor's frame.
LEMMA MonTypes ==
  ASSUME mon \in Mons
  PROVE  /\ mon.pc \in MonPcs /\ mon.c \in MaybeContainer /\ mon.val \in Nat
         /\ mon.seen \in SUBSET Containers
BY DEF Mons

\* The two ways chargeMonitor moves on keep its frame well typed.
LEMMA MonMoves ==
  ASSUME mon \in Mons, NEW c \in Containers
  PROVE  /\ MonNext(c) => mon' \in Mons
         /\ \A pc \in MonPcs : MonAt(pc, c) => mon' \in Mons
BY DEF Mons, MonPcs, MonAt, MonNext, MaybeContainer

\* The fields of startContainers' frame.
LEMMA LoadTypes ==
  ASSUME load \in Loads
  PROVE  /\ load.pc \in LoadPcs /\ load.c \in MaybeContainer
         /\ load.val \in Nat /\ load.todo \in SUBSET Containers
BY DEF Loads

\* The two ways startContainers moves on keep its frame well typed.
LEMMA LoadMoves ==
  ASSUME load \in Loads
  PROVE  /\ LoadNext => load' \in Loads
         /\ \A pc \in LoadPcs, n \in Nat : LoadAt(pc, n) => load' \in Loads
<1>1. LoadNext => load' \in Loads
  BY DEF Loads, LoadPcs, LoadNext, LoadIdle, MaybeContainer
<1>2. ASSUME NEW pc \in LoadPcs, NEW n \in Nat, LoadAt(pc, n)
      PROVE  load' \in Loads
  BY <1>2 DEF Loads, LoadAt
<1> QED
  BY <1>1, <1>2

\* The frame of shutdown stays well typed.
LEMMA HaltMoves ==
  ASSUME halt \in Halts, NEW c \in Containers
  PROVE  /\ halt.c \in MaybeContainer
         /\ HaltNext(c) => halt' \in Halts
         /\ [pc |-> "down", c |-> c, seen |-> halt.seen] \in Halts
BY DEF Halts, HaltNext, MaybeContainer

\* Whatever chargeMonitor does with the result of charge is well typed.
LEMMA AfterChargeType ==
  ASSUME TypeOK, NEW c \in Containers, NEW i \in Infos, NEW ok \in BOOLEAN,
         AfterCharge(c, i, ok)
  PROVE  info' \in [Containers -> Infos] /\ mon' \in Mons
<1>1. i \in Infos /\ [i EXCEPT !.state = "deployed"] \in Infos
      /\ [i EXCEPT !.state = "paused"] \in Infos
  BY InfoTypes DEF States
<1>2. {"up", "down"} \subseteq MonPcs
  BY DEF MonPcs
<1> QED
  BY <1>1, <1>2, MonMoves DEF AfterCharge, Deploying, Pausing, TypeOK

\* Counting a request nobody waits for any more is well typed.
LEMMA OrphanType ==
  ASSUME TypeOK, Parked, OrphanRequest
  PROVE  late' \in [Containers -> Nat]
<1>1. CASE UNCHANGED late
  BY <1>1 DEF TypeOK
<1>2. CASE mon.pc = "pay" /\ late' = [late EXCEPT ![mon.c] = @ + 1]
  <2>1. mon.c \in Containers
    BY <1>2 DEF Parked, TypeOK
  <2> QED
    BY <1>2, <2>1 DEF TypeOK
<1> QED
  BY <1>1, <1>2 DEF OrphanRequest

\* A payment leaves natural balances: the wallet checks the funds first.
LEMMA SettleType ==
  ASSUME TypeOK, NEW c \in Containers, Settle(c)
  PROVE  /\ funds' \in [Containers -> Nat] /\ charged' \in [Containers -> Nat]
         /\ notes' \in [Containers -> Nat]
<1>1. funds[c] - 1 \in Nat /\ charged[c] + 1 \in Nat /\ notes[c] + 1 \in Nat
  BY DEF TypeOK, Settle
<1> QED
  BY <1>1 DEF TypeOK, Settle

\* A background updateBalance is well typed.
LEMMA SpawnType ==
  ASSUME TypeOK, NEW c \in Containers, Spawn(c)
  PROVE  refresh' \in [Slots -> Refreshes]
<1>1. [st |-> "asked", c |-> c, val |-> 0] \in Refreshes
  BY DEF Refreshes, MaybeContainer
<1> QED
  BY <1>1 DEF Spawn, TypeOK

\* Counting a fault is well typed.
LEMMA FaultType ==
  ASSUME TypeOK
  PROVE  faults + 1 \in Nat /\ (Fault => faults' \in Nat)
BY DEF TypeOK, Fault

\* No step of any loop, callback or fault leaves the types.
LEMMA TypeStep ==
  ASSUME TypeOK, Parked, Ordered, [Next]_vars
  PROVE  TypeOK'
<1> USE IntervalAssumption, InfoTypes, InitTypes DEF TypeOK, process, loops,
    disk, wallet
<1>1. ASSUME Forget, OrphanRequest, faults' \in Nat,
             docker' \in [Containers -> BOOLEAN],
             UNCHANGED <<disk, invoice, overdue, funds, charged, notes, topups>>
      PROVE  TypeOK'
  <2>1. late' \in [Containers -> Nat]
    BY <1>1, OrphanType
  <2> QED
    BY <1>1, <2>1 DEF Forget
<1>2. CASE Die /\ faults' \in Nat
  BY <1>1, <1>2 DEF Die
<1>3. CASE Start
  BY <1>3 DEF Start
<1>4. CASE WalletReady
  <2> load' \in Loads
    BY <1>4 DEF WalletReady, Loads, LoadIdle, LoadPcs, MaybeContainer
  <2> QED BY <1>4 DEF WalletReady
<1>5. ASSUME NEW c \in Containers, LoadRow(c) PROVE TypeOK'
  <2> load' \in Loads
    BY <1>5 DEF LoadRow, Loads, LoadIdle, LoadPcs, MaybeContainer
  <2> QED BY <1>5 DEF LoadRow
<1>6. CASE LoadAnswer
  BY <1>6, LoadMoves, LoadTypes DEF LoadAnswer, LoadPcs, Parked, MaybeContainer
<1>7. CASE LoadTold
  <2>1. load.c \in Containers /\ load.val \in Nat /\ load' \in Loads
    BY <1>7, LoadTypes, LoadMoves DEF LoadTold, Parked, ChangeState, LoadPcs
  <2>2. /\ [info[load.c] EXCEPT !.balance = load.val] \in Infos
        /\ [row[load.c] EXCEPT !.balance = load.val] \in Infos
    BY <2>1
  <2> QED
  BY <1>7, <2>1, <2>2 DEF LoadTold
<1>8. CASE LoadCompose
  BY <1>8, LoadMoves DEF LoadCompose, Parked
<1>9. CASE LoadDone
  BY <1>9 DEF LoadDone
<1>10. ASSUME NEW c \in Containers, Visit(c) PROVE TypeOK'
  <2>1. [info[c] EXCEPT !.state = "deployed"] \in Infos
    BY DEF States
  <2>2. info' \in [Containers -> Infos] /\ mon' \in Mons
    BY <2>1, <1>10, MonMoves DEF Visit, Deploying, MonPcs
  <2> QED
  BY <1>10, <2>2 DEF Visit
<1>11. CASE PassDone
  BY <1>11 DEF PassDone, OnlyMon, Mons, MonPcs, MonIdle
<1>12. CASE PayReply
  <2> DEFINE c == mon.c  i == Extend(info[c])
  <2>a. c \in Containers
    BY <1>12 DEF PayReply, Parked
  <2>b. info[c] \in Infos /\ info[c].paid + ChargeInterval \in Nat
    BY <2>a
  <2>1. c \in Containers /\ i \in Infos /\ i.paid \in Nat
    BY <2>a, <2>b DEF Extend
  <2>c. \/ info' = [info EXCEPT ![c] = i] /\ MonAt("invoice", c)
        \/ AfterCharge(c, i, TRUE)
    BY <1>12 DEF PayReply
  <2>3. row' \in [Containers -> Infos]
    BY <2>1, <1>12 DEF PayReply
  <2>d. "invoice" \in MonPcs /\ mon \in Mons /\ info \in [Containers -> Infos]
    BY DEF MonPcs
  <2> HIDE DEF i, c
  <2>2. info' \in [Containers -> Infos] /\ mon' \in Mons
    <3> HIDE DEF TypeOK
    <3>1. CASE info' = [info EXCEPT ![c] = i] /\ MonAt("invoice", c)
      BY <2>1, <2>d, <3>1, MonMoves
    <3>2. CASE AfterCharge(c, i, TRUE)
      BY <2>1, <3>2, AfterChargeType
    <3> QED
      BY <2>c, <3>1, <3>2
  <2>4. refresh' \in [Slots -> Refreshes]
    BY <2>1, <1>12, SpawnType DEF PayReply, c
  <2> QED
    BY <1>12, <2>2, <2>3, <2>4 DEF PayReply
<1>13. CASE MonTold
  <2> DEFINE c == mon.c  i == [info[c] EXCEPT !.balance = mon.val]
  <2>1. c \in Containers /\ i \in Infos /\ mon.val \in Nat
    BY <1>13, MonTypes DEF MonTold, Parked
  <2>2. info' \in [Containers -> Infos] /\ mon' \in Mons
    BY <2>1, <1>13, AfterChargeType, MonMoves DEF MonTold, MonPcs
  <2>3. row' \in [Containers -> Infos]
    BY <2>1, <1>13 DEF MonTold
  <2> QED
  BY <1>13, <2>2, <2>3 DEF MonTold
<1>14. CASE Tick
  <2>1. ASSUME NEW c \in Containers
        PROVE  [info[c] EXCEPT !.count = info[c].count + 1] \in Infos
    <3>1. info[c] \in Infos /\ info[c].count + 1 \in Nat
      OBVIOUS
    <3> QED BY <3>1
  <2>2. info' \in [Containers -> Infos]
    BY <1>14, <2>1 DEF Tick
  <2>3. \A c \in Containers : [row[c] EXCEPT !.count = info'[c].count] \in Infos
    BY <2>2
  <2>4. row' \in [Containers -> Infos]
    BY <1>14, <2>3 DEF Tick
  <2> QED
  BY <1>14, <2>2, <2>4 DEF Tick
<1>15. ASSUME NEW s \in Slots, RefreshTold(s) PROVE TypeOK'
  <2>1. refresh[s].c \in Containers /\ refresh[s].val \in Nat
    BY <1>15 DEF RefreshTold, Parked, Refreshes
  <2>2. /\ [info[refresh[s].c] EXCEPT !.balance = refresh[s].val] \in Infos
        /\ [row[refresh[s].c] EXCEPT !.balance = refresh[s].val] \in Infos
    BY <2>1
  <2> QED
  BY <1>15, <2>1, <2>2 DEF RefreshTold
<1>16. ASSUME mon' \in Mons, OnlyMon PROVE TypeOK'
  BY <1>16 DEF OnlyMon
<1>17. CASE \/ InvoiceMade \/ WalletRefuses \/ BrokeReply \/ Retry
            \/ LookupAnswer
  <2>1. mon.c \in Containers
    BY <1>17 DEF InvoiceMade, WalletRefuses, BrokeReply, Retry, LookupAnswer,
                 Parked
  <2>2. /\ {"pay", "broke", "ask", "invoice", "settled", "pending"}
             \subseteq MonPcs
        /\ LookupAnswer => invoice[mon.c] \in {"settled", "pending"}
    BY <2>1 DEF MonPcs, LookupAnswer, Ordered, Parked
  <2> QED
    BY <1>16, <1>17, <2>1, <2>2, MonMoves
    DEF InvoiceMade, WalletRefuses, BrokeReply, Retry, LookupAnswer
<1>18. CASE MonAnswer
  <2>1. mon.c \in Containers
    BY <1>18 DEF MonAnswer, Parked
  <2>2. mon' \in Mons
    BY <2>1, <1>18 DEF MonAnswer, Mons, MonPcs
  <2> QED
    BY <1>16, <1>18, <2>2 DEF MonAnswer
<1>19. CASE WalletPays
  <2>1. mon.c \in Containers /\ mon' \in Mons
    BY <1>19, MonMoves DEF WalletPays, Parked, MonPcs
  <2> QED
    BY <1>19, <2>1, SettleType DEF WalletPays
<1>20. CASE LookupSettled
  <2>1. mon.c \in Containers /\ [info[mon.c] EXCEPT !.state = "deployed"] \in Infos
    BY <1>20 DEF LookupSettled, Parked, States
  <2> QED
    BY <1>20, <2>1, MonMoves DEF LookupSettled, Deploying, MonPcs
<1>21. CASE LookupPending
  BY <1>21, MonMoves DEF LookupPending, Parked
<1>22. CASE ComposeDone
  <2>1. mon.c \in Containers /\ [row[mon.c] EXCEPT !.state = info[mon.c].state] \in Infos
    BY <1>22 DEF ComposeDone, Parked
  <2> QED
    BY <1>22, <2>1, MonMoves DEF ComposeDone, SaveState
<1>23. CASE LookupFails
  <2>1. mon.c \in Containers /\ faults' \in Nat
    BY <1>23, FaultType DEF LookupFails, Parked
  <2> QED
    BY <1>23, <2>1, MonMoves DEF LookupFails
<1>24. CASE ChargeFails
  <2>1. mon.c \in Containers /\ mon' \in Mons
    BY <1>24, MonMoves DEF ChargeFails, Parked, MonPcs
  <2> QED
    BY <1>24, <2>1, OrphanType, FaultType DEF ChargeFails
<1>25. ASSUME NEW c \in Containers, HaltVisit(c) PROVE TypeOK'
  BY <1>25, HaltMoves DEF HaltVisit
<1>26. CASE HaltDown
  BY <1>26, HaltMoves DEF HaltDown, Parked
<1>27. CASE PowerOff
  BY <1>27, <1>1, FaultType DEF PowerOff
<1>28. ASSUME NEW c \in Containers,
              NotifyLost(c) \/ PayLaunch(c) \/ Expire(c) \/ TopUp(c)
       PROVE  TypeOK'
  <2>1. CASE NotifyLost(c)
    <3>1. notes[c] - 1 \in Nat
      BY <2>1 DEF NotifyLost
    <3>2. faults' \in Nat
      BY <2>1, FaultType DEF NotifyLost
    <3> QED
      BY <2>1, <3>1, <3>2 DEF NotifyLost
  <2>a. funds[c] + 1 \in Nat /\ notes[c] + 1 \in Nat /\ funds[c] + 0 \in Nat
        /\ topups + 1 \in Nat
    BY DEF TypeOK
  <2>2. CASE PayLaunch(c)
    BY <2>2, <2>a DEF PayLaunch
  <2>3. CASE Expire(c)
    BY <2>3 DEF Expire
  <2>4. CASE TopUp(c)
    <3>1. PICK v \in {0, 1} : funds' = [funds EXCEPT ![c] = @ + v]
      BY <2>4 DEF TopUp
    <3>2. funds[c] + v \in Nat
      BY <3>1, <2>a
    <3> QED
      BY <2>4, <2>a, <3>1, <3>2 DEF TopUp
  <2> QED
    BY <1>28, <2>1, <2>2, <2>3, <2>4
<1>29. CASE Shutdown
  BY <1>29, FaultType DEF Shutdown
<1>30. ASSUME NEW c \in Containers, Launch(c) PROVE TypeOK'
  BY <1>30 DEF Launch
<1>31. ASSUME NEW c \in Containers, WalletPaysLate(c) PROVE TypeOK'
  <2>1. late[c] - 1 \in Nat
    BY <1>31 DEF WalletPaysLate
  <2> QED
    BY <1>31, <2>1, SettleType DEF WalletPaysLate
<1>32. ASSUME NEW c \in Containers, Notify(c) PROVE TypeOK'
  <2>1. refresh' \in [Slots -> Refreshes]
    BY <1>32, SpawnType DEF Notify
  <2>2. notes[c] - 1 \in Nat
    BY <1>32 DEF Notify
  <2> QED
    BY <1>32, <2>1, <2>2 DEF Notify
<1>33. ASSUME NEW s \in Slots, RefreshAnswer(s) PROVE TypeOK'
  <2>1. refresh[s].c \in Containers
    BY <1>33 DEF RefreshAnswer, Parked
  <2>2. refresh' \in [Slots -> Refreshes]
    BY <1>33, <2>1 DEF RefreshAnswer, Refreshes
  <2> QED
    BY <1>33, <2>2 DEF RefreshAnswer
<1>34. CASE UNCHANGED vars
  BY <1>34 DEF vars
<1> QED
  BY <1>2, <1>3, <1>4, <1>5, <1>6, <1>7, <1>8, <1>9, <1>10, <1>11, <1>12,
     <1>13, <1>14, <1>15, <1>17, <1>18, <1>19, <1>20, <1>21, <1>22, <1>23,
     <1>24, <1>25, <1>26, <1>27, <1>28, <1>29, <1>30, <1>31, <1>32, <1>33,
         <1>34,
     FaultType
  DEF Next, Boot, Loading, Charging, Refreshing, Halting, Faults, Outside,
      Crash, LoadFails, MonDies, RefreshFails, RefreshOrphan

(* One lemma per conjunct of IInv *)

\* Where AfterCharge leaves the container: its counters are those of i, and its
\* state is the one the docker command it waits for will establish.
LEMMA AfterChargeEffect ==
  ASSUME info \in [Containers -> Infos], NEW c \in Containers, NEW i \in Infos,
         AfterCharge(c, i, TRUE) \/ AfterCharge(c, i, FALSE)
  PROVE  /\ \A d \in Containers \ {c} : info'[d] = info[d]
         /\ info'[c].count = i.count /\ info'[c].paid = i.paid
         /\ info'[c].balance = i.balance
         /\ \/ mon'.pc = "idle" /\ info'[c].state = i.state
            \/ mon'.pc = "up" /\ mon'.c = c /\ info'[c].state = "deployed"
            \/ mon'.pc = "down" /\ mon'.c = c /\ info'[c].state = "paused"
BY DEF AfterCharge, Deploying, Pausing, MonAt, MonNext, Infos

\* Extend touches uptimePaid and nothing else.
LEMMA ExtendEffect ==
  ASSUME NEW i \in Infos
  PROVE  /\ Extend(i) \in Infos /\ Extend(i).paid = i.paid + ChargeInterval
         /\ Extend(i).state = i.state /\ Extend(i).count = i.count
         /\ Extend(i).balance = i.balance
BY IntervalAssumption DEF Extend, Infos

\* Multiples of the interval, as the steps below count payments one by one.
LEMMA Distribute ==
  ASSUME NEW n \in Nat, NEW m \in Nat
  PROVE  /\ ChargeInterval * n \in Nat
         /\ ChargeInterval * (n + 1) = ChargeInterval * n + ChargeInterval
         /\ n <= m => ChargeInterval * n <= ChargeInterval * m
         /\ ChargeInterval * 1 = ChargeInterval /\ ChargeInterval * 0 = 0
BY IntervalAssumption

\* A loop that is parked keeps its container: nobody else removes a container
\* from conts while chargeMonitor or startContainers waits for it.
LEMMA ParkedStep ==
  ASSUME TypeOK, Parked, conts \subseteq rows, [Next]_vars
  PROVE  Parked'
<1> USE DEF TypeOK, Parked, process, loops, disk, wallet, MonIdle, LoadIdle,
      HaltIdle, FreeSlot
<1>1. CASE Die /\ faults' = faults + 1
  BY <1>1 DEF Die, Forget
<1>2. ASSUME NEW c \in Containers, LoadRow(c)
      PROVE  Parked'
  BY <1>2 DEF LoadRow
<1>3. CASE LoadTold
  BY <1>3 DEF LoadTold, ChangeState, LoadAt, LoadNext, LoadIdle
<1>4. CASE LoadCompose
  BY <1>4 DEF LoadCompose, LoadNext, LoadIdle
<1>5. ASSUME NEW c \in Containers, Visit(c)
      PROVE  Parked'
  BY <1>5 DEF Visit, MonAt, MonNext, Deploying
<1>6. CASE PassDone
  BY <1>6 DEF PassDone, OnlyMon, MonIdle
<1>7. CASE InvoiceMade
  BY <1>7 DEF InvoiceMade, MonAt, OnlyMon
<1>8. CASE WalletPays
  BY <1>8 DEF WalletPays, Settle, MonAt
<1>9. CASE WalletRefuses
  BY <1>9 DEF WalletRefuses, MonAt, OnlyMon
<1>10. CASE PayReply
  BY <1>10 DEF PayReply, Spawn, AfterCharge, MonAt, MonNext, Deploying,
      Pausing
<1>11. CASE BrokeReply
  BY <1>11 DEF BrokeReply, MonAt, OnlyMon
<1>12. CASE MonAnswer
  BY <1>12 DEF MonAnswer, OnlyMon
<1>13. CASE MonTold
  BY <1>13 DEF MonTold, AfterCharge, MonNext, MonAt, Deploying, Pausing
<1>14. CASE Retry
  BY <1>14 DEF Retry, MonAt, OnlyMon
<1>15. CASE LookupAnswer
  BY <1>15 DEF LookupAnswer, MonAt, OnlyMon
<1>16. CASE LookupSettled
  BY <1>16 DEF LookupSettled, Deploying, MonAt
<1>17. CASE LookupPending
  BY <1>17 DEF LookupPending, MonNext
<1>18. CASE ComposeDone
  BY <1>18 DEF ComposeDone, MonNext, SaveState
<1>19. CASE PowerOff
  BY <1>19 DEF PowerOff, Forget
<1>20. CASE ChargeFails
  BY <1>20 DEF ChargeFails, MonAt, OrphanRequest
<1>21. CASE LookupFails
  BY <1>21 DEF LookupFails, MonNext
<1>22. CASE Tick
  BY <1>22 DEF Tick
<1>23. ASSUME NEW c \in Containers, Launch(c)
      PROVE  Parked'
  BY <1>23 DEF Launch
<1>24. ASSUME NEW c \in Containers, WalletPaysLate(c)
      PROVE  Parked'
  BY <1>24 DEF WalletPaysLate, Settle
<1>25. ASSUME NEW s \in Slots, RefreshTold(s)
      PROVE  Parked'
  BY <1>25 DEF RefreshTold
<1>26. CASE Start \/ WalletReady \/ LoadAnswer \/ LoadDone
  BY <1>26 DEF Start, WalletReady, LoadAnswer, LoadAt, LoadDone
<1>27. CASE HaltDown \/ Shutdown
  BY <1>27 DEF HaltDown, HaltNext, Shutdown
<1>28. ASSUME NEW c \in Containers,
             HaltVisit(c) \/
             NotifyLost(c) \/ Expire(c) \/ TopUp(c) \/ PayLaunch(c) \/
             Notify(c)
      PROVE  Parked'
  BY <1>28 DEF HaltVisit, HaltNext, NotifyLost, Expire, TopUp, PayLaunch,
      Notify, Spawn
<1>29. ASSUME NEW s \in Slots,
             RefreshAnswer(s)
      PROVE  Parked'
  BY <1>29 DEF RefreshAnswer
<1>30. CASE UNCHANGED vars
  BY <1>30 DEF vars
<1> QED
  BY <1>1, <1>2, <1>3, <1>4, <1>5, <1>6, <1>7, <1>8, <1>9, <1>10, <1>11,
     <1>12, <1>13, <1>14, <1>15, <1>16, <1>17, <1>18, <1>19, <1>20, <1>21,
     <1>22, <1>23, <1>24, <1>25, <1>26, <1>27, <1>28, <1>29, <1>30
  DEF Next, Boot, Loading, Charging, Refreshing, Halting, Faults, Outside,
      Crash, LoadFails, MonDies, RefreshFails, RefreshOrphan, Fault

\* Every setter writes memory and sqlite alike, and what is in neither yet is
\* covered by the docker command chargeMonitor waits for (container.ts 40-64).
LEMMA MemoryStep ==
  ASSUME TypeOK, Parked, MemoryMatchesDb, Remembered, Ordered, [Next]_vars
  PROVE  MemoryMatchesDb'
<1> USE DEF TypeOK, process, loops, disk, wallet, MonIdle, LoadIdle, HaltIdle,
      FreeSlot, MemoryMatchesDb, Parked
<1>1. CASE Die /\ faults' = faults + 1
  BY <1>1 DEF Die, Forget
<1>2. ASSUME NEW c \in Containers, LoadRow(c)
      PROVE  MemoryMatchesDb'
  BY <1>2 DEF LoadRow
<1>3. CASE LoadTold
  BY <1>3 DEF LoadTold, ChangeState, LoadAt, LoadNext, LoadIdle, Infos
<1>4. CASE LoadCompose
  BY <1>4 DEF LoadCompose, LoadNext, LoadIdle
<1>5. ASSUME NEW c \in Containers, Visit(c)
      PROVE  MemoryMatchesDb'
  <2>1. [info[c] EXCEPT !.state = "deployed"].count = info[c].count
        /\ [info[c] EXCEPT !.state = "deployed"].paid = info[c].paid
        /\ [info[c] EXCEPT !.state = "deployed"].balance = info[c].balance
    BY DEF Infos
  <2>2. CASE UNCHANGED info
    BY <1>5, <2>2 DEF Visit, MonAt, MonNext, Deploying
  <2>3. CASE Deploying(c, info[c])
    BY <1>5, <2>1, <2>3 DEF Visit, MonAt, Deploying
  <2> QED
    BY <1>5, <2>2, <2>3 DEF Visit
<1>6. CASE PassDone
  BY <1>6 DEF PassDone, OnlyMon, MonIdle
<1>7. CASE InvoiceMade
  BY <1>7 DEF InvoiceMade, MonAt, OnlyMon
<1>8. CASE WalletPays
  BY <1>8 DEF WalletPays, Settle, MonAt
<1>9. CASE WalletRefuses
  BY <1>9 DEF WalletRefuses, MonAt, OnlyMon
<1>10. CASE PayReply
  <2> DEFINE c == mon.c  i == Extend(info[c])
  <2>1. c \in Containers /\ info[c] \in Infos /\ row[c] \in Infos
    BY <1>10 DEF PayReply
  <2>2. i \in Infos /\ i.paid = info[c].paid + ChargeInterval
        /\ i.state = info[c].state /\ i.count = info[c].count
        /\ i.balance = info[c].balance
    BY <2>1, ExtendEffect
  <2>3. /\ row' = [row EXCEPT ![c].paid = i.paid]
        /\ conts' = conts /\ rows' = rows
    BY <1>10 DEF PayReply
  <2>4. /\ row'[c].paid = i.paid /\ row'[c].state = row[c].state
        /\ row'[c].count = row[c].count /\ row'[c].balance = row[c].balance
        /\ \A d \in Containers \ {c} : row'[d] = row[d]
    BY <2>1, <2>3 DEF Infos
  <2>5. info[c].state = row[c].state
    BY <1>10 DEF PayReply
  <2> HIDE DEF i
  <2>6. CASE info' = [info EXCEPT ![c] = i] /\ MonAt("invoice", c)
    BY <1>10, <2>1, <2>2, <2>3, <2>4, <2>5, <2>6 DEF MonAt, PayReply
  <2>7. CASE AfterCharge(c, i, TRUE)
    <3>1. /\ \A d \in Containers \ {c} : info'[d] = info[d]
          /\ info'[c].count = i.count /\ info'[c].paid = i.paid
          /\ info'[c].balance = i.balance
          /\ info'[c].state = i.state \/ (mon'.c = c /\ mon'.pc \in {"up", "down"})
      <4>1. info \in [Containers -> Infos]
        OBVIOUS
      <4> HIDE DEF TypeOK, Parked, MemoryMatchesDb, c
      <4> QED
        BY <2>1, <2>2, <2>7, <4>1, AfterChargeEffect
    <3>2. \A d \in conts : info[d].state = row[d].state
      BY <1>10 DEF PayReply
    <3> QED
      BY <2>1, <2>2, <2>3, <2>4, <2>5, <3>1, <3>2
  <2> QED
    BY <1>10, <2>6, <2>7 DEF PayReply, i
<1>11. CASE BrokeReply
  BY <1>11 DEF BrokeReply, MonAt, OnlyMon
<1>12. CASE MonAnswer
  BY <1>12 DEF MonAnswer, OnlyMon
<1>13. CASE MonTold
  <2> DEFINE c == mon.c  i == [info[c] EXCEPT !.balance = mon.val]
  <2>1. c \in Containers /\ info[c] \in Infos /\ row[c] \in Infos
        /\ mon.val \in Nat
    BY <1>13 DEF MonTold, Mons
  <2>2. i \in Infos /\ i.balance = mon.val
        /\ i.state = info[c].state /\ i.count = info[c].count
        /\ i.paid = info[c].paid
    BY <2>1 DEF Infos
  <2>3. /\ row' = [row EXCEPT ![c].balance = mon.val]
        /\ conts' = conts /\ rows' = rows /\ AfterCharge(c, i, FALSE)
    BY <1>13 DEF MonTold
  <2>4. /\ row'[c].balance = mon.val /\ row'[c].state = row[c].state
        /\ row'[c].count = row[c].count /\ row'[c].paid = row[c].paid
        /\ \A d \in Containers \ {c} : row'[d] = row[d]
    BY <2>1, <2>3 DEF Infos
  <2>5. info[c].state = row[c].state
    BY <1>13 DEF MonTold
  <2>6. \A d \in conts : info[d].state = row[d].state
    BY <1>13 DEF MonTold
  <2> HIDE DEF i
  <2>7. /\ \A d \in Containers \ {c} : info'[d] = info[d]
        /\ info'[c].count = i.count /\ info'[c].paid = i.paid
        /\ info'[c].balance = i.balance
        /\ info'[c].state = i.state \/ (mon'.c = c /\ mon'.pc \in {"up", "down"})
    <3>1. info \in [Containers -> Infos]
      OBVIOUS
    <3> HIDE DEF TypeOK, Parked, MemoryMatchesDb, c
    <3> QED
      BY <2>1, <2>2, <2>3, <3>1, AfterChargeEffect
  <2> QED
    BY <2>1, <2>2, <2>3, <2>4, <2>5, <2>6, <2>7
<1>14. CASE Retry
  BY <1>14 DEF Retry, MonAt, OnlyMon
<1>15. CASE LookupAnswer
  BY <1>15 DEF LookupAnswer, MonAt, OnlyMon
<1>16. CASE LookupSettled
  BY <1>16 DEF LookupSettled, Deploying, MonAt, Infos
<1>17. CASE LookupPending
  BY <1>17 DEF LookupPending, MonNext
<1>18. CASE ComposeDone
  BY <1>18 DEF ComposeDone, MonNext, SaveState, Infos
<1>19. CASE PowerOff
  BY <1>19 DEF PowerOff, Forget
<1>20. CASE ChargeFails
  BY <1>20 DEF ChargeFails, MonAt, OrphanRequest
<1>21. CASE LookupFails
  BY <1>21 DEF LookupFails, MonNext
<1>22. CASE Tick
  BY <1>22 DEF Tick, Deployed, Infos
<1>23. ASSUME NEW c \in Containers, Launch(c)
      PROVE  MemoryMatchesDb'
  BY <1>23 DEF Launch, NewInfo, Ordered
<1>24. ASSUME NEW c \in Containers, WalletPaysLate(c)
      PROVE  MemoryMatchesDb'
  BY <1>24 DEF WalletPaysLate, Settle
<1>25. ASSUME NEW s \in Slots, RefreshTold(s)
      PROVE  MemoryMatchesDb'
  BY <1>25 DEF RefreshTold, Infos
<1>26. CASE Start \/ WalletReady \/ LoadAnswer \/ LoadDone
  BY <1>26 DEF Start, WalletReady, LoadAnswer, LoadAt, LoadDone
<1>27. CASE HaltDown \/ Shutdown
  BY <1>27 DEF HaltDown, HaltNext, Shutdown
<1>28. ASSUME NEW c \in Containers,
             HaltVisit(c) \/
             NotifyLost(c) \/ Expire(c) \/ TopUp(c) \/ PayLaunch(c) \/
             Notify(c)
      PROVE  MemoryMatchesDb'
  BY <1>28 DEF HaltVisit, HaltNext, NotifyLost, Expire, TopUp, PayLaunch,
      Notify, Spawn
<1>29. ASSUME NEW s \in Slots,
             RefreshAnswer(s)
      PROVE  MemoryMatchesDb'
  BY <1>29 DEF RefreshAnswer
<1>30. CASE UNCHANGED vars
  BY <1>30 DEF vars
<1> QED
  BY <1>1, <1>2, <1>3, <1>4, <1>5, <1>6, <1>7, <1>8, <1>9, <1>10, <1>11,
     <1>12, <1>13, <1>14, <1>15, <1>16, <1>17, <1>18, <1>19, <1>20, <1>21,
     <1>22, <1>23, <1>24, <1>25, <1>26, <1>27, <1>28, <1>29, <1>30
  DEF Next, Boot, Loading, Charging, Refreshing, Halting, Faults, Outside,
      Crash, LoadFails, MonDies, RefreshFails, RefreshOrphan, Fault

\* The other loops and callbacks change nothing chargeMonitor still relies on
\* after an await: only charge() pays, only chargeMonitor changes states.
LEMMA RememberedStep ==
  ASSUME TypeOK, Parked, MemoryMatchesDb, Remembered, Ordered, [Next]_vars
  PROVE  Remembered'
<1> USE IntervalAssumption DEF TypeOK, process, loops, disk, wallet, MonIdle,
      LoadIdle, HaltIdle, FreeSlot, Remembered, Unpaid, Parked
<1>1. CASE Die /\ faults' = faults + 1
  BY <1>1 DEF Die, Forget
<1>2. ASSUME NEW c \in Containers, LoadRow(c)
      PROVE  Remembered'
  BY <1>2 DEF LoadRow
<1>3. CASE LoadTold
  BY <1>3 DEF LoadTold, ChangeState, LoadAt, LoadNext, LoadIdle, Infos
<1>4. CASE LoadCompose
  BY <1>4 DEF LoadCompose, LoadNext, LoadIdle
<1>5. ASSUME NEW c \in Containers, Visit(c)
      PROVE  Remembered'
  BY <1>5 DEF Visit, MonAt, MonNext, Deploying, Infos
<1>6. CASE PassDone
  BY <1>6 DEF PassDone, OnlyMon, MonIdle
<1>7. CASE InvoiceMade
  BY <1>7 DEF InvoiceMade, MonAt, OnlyMon
<1>8. CASE WalletPays
  BY <1>8 DEF WalletPays, Settle, MonAt
<1>9. CASE WalletRefuses
  BY <1>9 DEF WalletRefuses, MonAt, OnlyMon
<1>10. CASE PayReply
  <2> DEFINE c == mon.c  i == Extend(info[c])
  <2>1. c \in Containers /\ info[c] \in Infos
    BY <1>10 DEF PayReply
  <2>2. i \in Infos /\ i.state = info[c].state /\ info[c].state # "waiting"
    BY <1>10, <2>1, ExtendEffect DEF PayReply
  <2> HIDE DEF i
  <2>5. info \in [Containers -> Infos]
    OBVIOUS
  <2>3. CASE Unpaid(i) /\ info' = [info EXCEPT ![c] = i] /\ MonAt("invoice", c)
    BY <2>1, <2>2, <2>3 DEF MonAt
  <2>4. CASE AfterCharge(c, i, TRUE)
    <3>1. \/ mon'.pc = "idle"
          \/ mon'.pc = "up" /\ mon'.c = c /\ info'[c].state = "deployed"
          \/ mon'.pc = "down" /\ mon'.c = c /\ info'[c].state = "paused"
      BY <2>1, <2>2, <2>4, <2>5, AfterChargeEffect
    <3>2. row'[c].state = row[c].state /\ row[c].state = info[c].state
      BY <1>10, <2>1 DEF PayReply, MemoryMatchesDb, Infos
    <3> QED
      BY <2>1, <2>2, <3>1, <3>2
  <2> QED
    BY <1>10, <2>3, <2>4 DEF PayReply, i
<1>11. CASE BrokeReply
  BY <1>11 DEF BrokeReply, MonAt, OnlyMon
<1>12. CASE MonAnswer
  BY <1>12 DEF MonAnswer, OnlyMon
<1>13. CASE MonTold
  <2> DEFINE c == mon.c  i == [info[c] EXCEPT !.balance = mon.val]
  <2>1. c \in Containers /\ i \in Infos
    BY <1>13 DEF MonTold, Mons, Infos
  <2>2. AfterCharge(c, i, FALSE)
    BY <1>13 DEF MonTold
  <2> HIDE DEF i
  <2>3. info \in [Containers -> Infos]
    OBVIOUS
  <2>4. \/ mon'.pc = "idle"
        \/ mon'.pc = "up" /\ mon'.c = c /\ info'[c].state = "deployed"
        \/ mon'.pc = "down" /\ mon'.c = c /\ info'[c].state = "paused"
    BY <2>1, <2>2, <2>3, AfterChargeEffect
  <2>5. row'[c].state = row[c].state /\ row[c].state = info[c].state
    BY <1>13, <2>1 DEF MonTold, MemoryMatchesDb, Infos
  <2>6. info[c].state # "waiting"
    BY <1>13 DEF MonTold
  <2> QED
    BY <2>1, <2>4, <2>5, <2>6
<1>14. CASE Retry
  BY <1>14 DEF Retry, MonAt, OnlyMon
<1>15. CASE LookupAnswer
  BY <1>15 DEF LookupAnswer, MonAt, OnlyMon
<1>16. CASE LookupSettled
  BY <1>16 DEF LookupSettled, Deploying, MonAt, Infos
<1>17. CASE LookupPending
  BY <1>17 DEF LookupPending, MonNext
<1>18. CASE ComposeDone
  BY <1>18 DEF ComposeDone, MonNext, SaveState
<1>19. CASE PowerOff
  BY <1>19 DEF PowerOff, Forget
<1>20. CASE ChargeFails
  BY <1>20 DEF ChargeFails, MonAt, OrphanRequest
<1>21. CASE LookupFails
  BY <1>21 DEF LookupFails, MonNext
<1>22. CASE Tick
  BY <1>22 DEF Tick, Deployed, Infos
<1>23. ASSUME NEW c \in Containers, Launch(c)
      PROVE  Remembered'
  BY <1>23 DEF Launch, NewInfo, Ordered
<1>24. ASSUME NEW c \in Containers, WalletPaysLate(c)
      PROVE  Remembered'
  BY <1>24 DEF WalletPaysLate, Settle
<1>25. ASSUME NEW s \in Slots, RefreshTold(s)
      PROVE  Remembered'
  BY <1>25 DEF RefreshTold, Infos
<1>26. CASE Start \/ WalletReady \/ LoadAnswer \/ LoadDone
  BY <1>26 DEF Start, WalletReady, LoadAnswer, LoadAt, LoadDone
<1>27. CASE HaltDown \/ Shutdown
  BY <1>27 DEF HaltDown, HaltNext, Shutdown
<1>28. ASSUME NEW c \in Containers,
             HaltVisit(c) \/
             NotifyLost(c) \/ Expire(c) \/ TopUp(c) \/ PayLaunch(c) \/
             Notify(c)
      PROVE  Remembered'
  BY <1>28 DEF HaltVisit, HaltNext, NotifyLost, Expire, TopUp, PayLaunch,
      Notify, Spawn
<1>29. ASSUME NEW s \in Slots,
             RefreshAnswer(s)
      PROVE  Remembered'
  BY <1>29 DEF RefreshAnswer
<1>30. CASE UNCHANGED vars
  BY <1>30 DEF vars
<1> QED
  BY <1>1, <1>2, <1>3, <1>4, <1>5, <1>6, <1>7, <1>8, <1>9, <1>10, <1>11,
     <1>12, <1>13, <1>14, <1>15, <1>16, <1>17, <1>18, <1>19, <1>20, <1>21,
     <1>22, <1>23, <1>24, <1>25, <1>26, <1>27, <1>28, <1>29, <1>30
  DEF Next, Boot, Loading, Charging, Refreshing, Halting, Faults, Outside,
      Crash, LoadFails, MonDies, RefreshFails, RefreshOrphan, Fault

\* Whatever can end in a charge or in a running container keeps its settled
\* invoice: an invoice never goes back.
LEMMA OrderedStep ==
  ASSUME TypeOK, Parked, MemoryMatchesDb, Remembered, Ordered, RunsOnlyIfPaid,
         [Next]_vars
  PROVE  Ordered'
<1> USE DEF TypeOK, process, loops, disk, wallet, MonIdle, LoadIdle, HaltIdle,
      FreeSlot, Ordered, Remembered, RunsOnlyIfPaid, MemoryMatchesDb, Parked,
      Deployed
<1>1. CASE Die /\ faults' = faults + 1
  BY <1>1 DEF Die, Forget, OrphanRequest
<1>2. ASSUME NEW c \in Containers, LoadRow(c)
      PROVE  Ordered'
  BY <1>2 DEF LoadRow
<1>3. CASE LoadTold
  BY <1>3 DEF LoadTold, ChangeState, LoadAt, LoadNext, LoadIdle
<1>4. CASE LoadCompose
  BY <1>4 DEF LoadCompose, LoadNext, LoadIdle
<1>5. ASSUME NEW c \in Containers, Visit(c)
      PROVE  Ordered'
  BY <1>5 DEF Visit, MonAt, MonNext, Deploying
<1>6. CASE PassDone
  BY <1>6 DEF PassDone, OnlyMon, MonIdle
<1>7. CASE InvoiceMade
  BY <1>7 DEF InvoiceMade, MonAt, OnlyMon
<1>8. CASE WalletPays
  BY <1>8 DEF WalletPays, Settle, MonAt
<1>9. CASE WalletRefuses
  BY <1>9 DEF WalletRefuses, MonAt, OnlyMon
<1>10. CASE PayReply
  BY <1>10 DEF PayReply, Spawn, AfterCharge, MonAt, MonNext, Deploying,
      Pausing
<1>11. CASE BrokeReply
  BY <1>11 DEF BrokeReply, MonAt, OnlyMon
<1>12. CASE MonAnswer
  BY <1>12 DEF MonAnswer, OnlyMon
<1>13. CASE MonTold
  BY <1>13 DEF MonTold, AfterCharge, MonNext, MonAt, Deploying, Pausing
<1>14. CASE Retry
  BY <1>14 DEF Retry, MonAt, OnlyMon
<1>15. CASE LookupAnswer
  BY <1>15 DEF LookupAnswer, MonAt, OnlyMon
<1>16. CASE LookupSettled
  BY <1>16 DEF LookupSettled, Deploying, MonAt
<1>17. CASE LookupPending
  BY <1>17 DEF LookupPending, MonNext
<1>18. CASE ComposeDone
  BY <1>18 DEF ComposeDone, MonNext, SaveState
<1>19. ASSUME NEW c \in Containers, HaltVisit(c)
      PROVE  Ordered'
  BY <1>19 DEF HaltVisit, HaltNext
<1>20. CASE PowerOff
  BY <1>20 DEF PowerOff, Forget, OrphanRequest
<1>21. CASE ChargeFails
  BY <1>21 DEF ChargeFails, MonAt, OrphanRequest
<1>22. CASE LookupFails
  BY <1>22 DEF LookupFails, MonNext
<1>23. ASSUME NEW c \in Containers, PayLaunch(c)
      PROVE  Ordered'
  BY <1>23 DEF PayLaunch
<1>24. CASE Tick
  BY <1>24 DEF Tick
<1>25. ASSUME NEW c \in Containers, Launch(c)
      PROVE  Ordered'
  BY <1>25 DEF Launch, NewInfo
<1>26. ASSUME NEW c \in Containers, WalletPaysLate(c)
      PROVE  Ordered'
  BY <1>26 DEF WalletPaysLate, Settle
<1>27. ASSUME NEW s \in Slots, RefreshTold(s)
      PROVE  Ordered'
  BY <1>27 DEF RefreshTold
<1>28. CASE Start \/ WalletReady \/ LoadAnswer \/ LoadDone
  BY <1>28 DEF Start, WalletReady, LoadAnswer, LoadAt, LoadDone
<1>29. CASE HaltDown \/ Shutdown
  BY <1>29 DEF HaltDown, HaltNext, Shutdown
<1>30. ASSUME NEW c \in Containers,
             NotifyLost(c) \/ Expire(c) \/
             TopUp(c) \/ Notify(c)
      PROVE  Ordered'
  BY <1>30 DEF NotifyLost, Expire, TopUp, Notify, Spawn
<1>31. ASSUME NEW s \in Slots,
             RefreshAnswer(s)
      PROVE  Ordered'
  BY <1>31 DEF RefreshAnswer
<1>32. CASE UNCHANGED vars
  BY <1>32 DEF vars
<1> QED
  BY <1>1, <1>2, <1>3, <1>4, <1>5, <1>6, <1>7, <1>8, <1>9, <1>10, <1>11,
     <1>12, <1>13, <1>14, <1>15, <1>16, <1>17, <1>18, <1>19, <1>20, <1>21,
     <1>22, <1>23, <1>24, <1>25, <1>26, <1>27, <1>28, <1>29, <1>30, <1>31,
     <1>32
  DEF Next, Boot, Loading, Charging, Refreshing, Halting, Faults, Outside,
      Crash, LoadFails, MonDies, RefreshFails, RefreshOrphan, Fault

\* docker is brought up, and a state stored, only for containers whose launch
\* invoice was seen settled, also by startContainers and after a crash.
LEMMA RunsStep ==
  ASSUME TypeOK, Parked, MemoryMatchesDb, Remembered, Ordered, RunsOnlyIfPaid,
         [Next]_vars
  PROVE  RunsOnlyIfPaid'
<1> USE DEF TypeOK, process, loops, disk, wallet, MonIdle, LoadIdle, HaltIdle,
      FreeSlot, Ordered, RunsOnlyIfPaid, Remembered, MemoryMatchesDb, Parked
<1>1. CASE Die /\ faults' = faults + 1
  BY <1>1 DEF Die, Forget, Changing
<1>2. ASSUME NEW c \in Containers, LoadRow(c)
      PROVE  RunsOnlyIfPaid'
  BY <1>2 DEF LoadRow
<1>3. CASE LoadTold
  BY <1>3 DEF LoadTold, ChangeState, LoadAt, LoadNext, LoadIdle
<1>4. CASE LoadCompose
  BY <1>4 DEF LoadCompose, LoadNext, LoadIdle
<1>5. ASSUME NEW c \in Containers, Visit(c)
      PROVE  RunsOnlyIfPaid'
  BY <1>5 DEF Visit, MonAt, MonNext, Deploying
<1>6. CASE PassDone
  BY <1>6 DEF PassDone, OnlyMon, MonIdle
<1>7. CASE InvoiceMade
  BY <1>7 DEF InvoiceMade, MonAt, OnlyMon
<1>8. CASE WalletPays
  BY <1>8 DEF WalletPays, Settle, MonAt
<1>9. CASE WalletRefuses
  BY <1>9 DEF WalletRefuses, MonAt, OnlyMon
<1>10. CASE PayReply
  BY <1>10 DEF PayReply, Spawn, AfterCharge, MonAt, MonNext, Deploying,
      Pausing
<1>11. CASE BrokeReply
  BY <1>11 DEF BrokeReply, MonAt, OnlyMon
<1>12. CASE MonAnswer
  BY <1>12 DEF MonAnswer, OnlyMon
<1>13. CASE MonTold
  BY <1>13 DEF MonTold, AfterCharge, MonNext, MonAt, Deploying, Pausing
<1>14. CASE Retry
  BY <1>14 DEF Retry, MonAt, OnlyMon
<1>15. CASE LookupAnswer
  BY <1>15 DEF LookupAnswer, MonAt, OnlyMon
<1>16. CASE LookupSettled
  BY <1>16 DEF LookupSettled, Deploying, MonAt
<1>17. CASE LookupPending
  BY <1>17 DEF LookupPending, MonNext
<1>18. CASE ComposeDone
  BY <1>18 DEF ComposeDone, MonNext, SaveState
<1>19. CASE PowerOff
  BY <1>19 DEF PowerOff, Forget
<1>20. CASE ChargeFails
  BY <1>20 DEF ChargeFails, MonAt, OrphanRequest
<1>21. CASE LookupFails
  BY <1>21 DEF LookupFails, MonNext
<1>22. CASE Tick
  BY <1>22 DEF Tick
<1>23. ASSUME NEW c \in Containers, Launch(c)
      PROVE  RunsOnlyIfPaid'
  BY <1>23 DEF Launch, NewInfo
<1>24. ASSUME NEW c \in Containers, WalletPaysLate(c)
      PROVE  RunsOnlyIfPaid'
  BY <1>24 DEF WalletPaysLate, Settle
<1>25. ASSUME NEW s \in Slots, RefreshTold(s)
      PROVE  RunsOnlyIfPaid'
  BY <1>25 DEF RefreshTold
<1>26. CASE Start \/ WalletReady \/ LoadAnswer \/ LoadDone
  BY <1>26 DEF Start, WalletReady, LoadAnswer, LoadAt, LoadDone
<1>27. CASE HaltDown \/ Shutdown
  BY <1>27 DEF HaltDown, HaltNext, Shutdown
<1>28. ASSUME NEW c \in Containers,
             HaltVisit(c) \/
             NotifyLost(c) \/ Expire(c) \/ TopUp(c) \/ PayLaunch(c) \/
             Notify(c)
      PROVE  RunsOnlyIfPaid'
  BY <1>28 DEF HaltVisit, HaltNext, NotifyLost, Expire, TopUp, PayLaunch,
      Notify, Spawn
<1>29. ASSUME NEW s \in Slots,
             RefreshAnswer(s)
      PROVE  RunsOnlyIfPaid'
  BY <1>29 DEF RefreshAnswer
<1>30. CASE UNCHANGED vars
  BY <1>30 DEF vars
<1> QED
  BY <1>1, <1>2, <1>3, <1>4, <1>5, <1>6, <1>7, <1>8, <1>9, <1>10, <1>11,
     <1>12, <1>13, <1>14, <1>15, <1>16, <1>17, <1>18, <1>19, <1>20, <1>21,
     <1>22, <1>23, <1>24, <1>25, <1>26, <1>27, <1>28, <1>29, <1>30
  DEF Next, Boot, Loading, Charging, Refreshing, Halting, Faults, Outside,
      Crash, LoadFails, MonDies, RefreshFails, RefreshOrphan, Fault

\* A credit is written only after its own payment settled (charge, 407-411).
LEMMA CreditStep ==
  ASSUME TypeOK, Parked, MemoryMatchesDb, Remembered, Ordered, RunsOnlyIfPaid,
         CreditBacked, [Next]_vars
  PROVE  CreditBacked'
<1> USE IntervalAssumption DEF TypeOK, process, loops, disk, wallet, MonIdle,
      LoadIdle, HaltIdle, FreeSlot, CreditBacked, Confirming, Parked,
      MemoryMatchesDb, Infos
<1>1. CASE Die /\ faults' = faults + 1
  <2>1. rows' = rows /\ row' = row /\ charged' = charged /\ mon' = MonIdle
    BY <1>1 DEF Die, Forget
  <2> QED
    BY <2>1
<1>2. ASSUME NEW c \in Containers, LoadRow(c)
      PROVE  CreditBacked'
  BY <1>2 DEF LoadRow
<1>3. CASE LoadTold
  BY <1>3 DEF LoadTold, ChangeState, LoadAt, LoadNext, LoadIdle
<1>4. ASSUME NEW c \in Containers, Visit(c)
      PROVE  CreditBacked'
  BY <1>4 DEF Visit, MonAt, MonNext, Deploying
<1>5. CASE PassDone
  BY <1>5 DEF PassDone, OnlyMon, MonIdle
<1>6. CASE InvoiceMade
  BY <1>6 DEF InvoiceMade, MonAt, OnlyMon
<1>7. CASE WalletPays
  <2>1. mon.c \in Containers /\ charged[mon.c] \in Nat
    BY <1>7 DEF WalletPays
  <2>2. ChargeInterval * (charged[mon.c] + 1)
          = ChargeInterval * charged[mon.c] + ChargeInterval
    BY <2>1, Distribute
  <2>3. ChargeInterval * 1 = ChargeInterval /\ ChargeInterval * 0 = 0
    BY <2>1, Distribute
  <2> QED
    BY <1>7, <2>1, <2>2, <2>3 DEF WalletPays, Settle, MonAt
<1>8. CASE WalletRefuses
  BY <1>8 DEF WalletRefuses, MonAt, OnlyMon
<1>9. CASE PayReply
  BY <1>9 DEF PayReply, Spawn, AfterCharge, MonAt, MonNext, Deploying,
      Pausing, Extend
<1>10. CASE BrokeReply
  BY <1>10 DEF BrokeReply, MonAt, OnlyMon
<1>11. CASE MonAnswer
  BY <1>11 DEF MonAnswer, OnlyMon
<1>12. CASE MonTold
  BY <1>12 DEF MonTold, AfterCharge, MonNext, MonAt, Deploying, Pausing
<1>13. CASE Retry
  BY <1>13 DEF Retry, MonAt, OnlyMon
<1>14. CASE LookupAnswer
  BY <1>14 DEF LookupAnswer, MonAt, OnlyMon
<1>15. CASE LookupSettled
  BY <1>15 DEF LookupSettled, Deploying, MonAt
<1>16. CASE LookupPending
  BY <1>16 DEF LookupPending, MonNext
<1>17. CASE ComposeDone
  BY <1>17 DEF ComposeDone, MonNext, SaveState
<1>18. CASE PowerOff
  <2>1. rows' = rows /\ row' = row /\ charged' = charged /\ mon' = MonIdle
    BY <1>18 DEF PowerOff, Forget
  <2> QED
    BY <2>1
<1>19. CASE ChargeFails
  BY <1>19 DEF ChargeFails, MonAt, OrphanRequest
<1>20. CASE LookupFails
  BY <1>20 DEF LookupFails, MonNext
<1>21. CASE Tick
  BY <1>21 DEF Tick, Deployed
<1>22. ASSUME NEW c \in Containers, Launch(c)
      PROVE  CreditBacked'
  BY <1>22 DEF Launch, NewInfo, Ordered, RunsOnlyIfPaid
<1>23. ASSUME NEW c \in Containers, WalletPaysLate(c)
      PROVE  CreditBacked'
  <2>1. charged[c] \in Nat /\ charged[c] <= charged[c] + 1
    OBVIOUS
  <2>2. ChargeInterval * charged[c] <= ChargeInterval * (charged[c] + 1)
    BY <2>1, Distribute
  <2>3. /\ rows' = rows /\ row' = row /\ mon' = mon
        /\ charged' = charged \/ charged' = [charged EXCEPT ![c] = @ + 1]
    BY <1>23 DEF WalletPaysLate, Settle
  <2> QED
    BY <2>1, <2>2, <2>3
<1>24. ASSUME NEW s \in Slots, RefreshTold(s)
      PROVE  CreditBacked'
  BY <1>24 DEF RefreshTold
<1>25. CASE Start \/ WalletReady \/ LoadAnswer \/ LoadCompose \/ LoadDone
  BY <1>25 DEF Start, WalletReady, LoadAnswer, LoadAt, LoadCompose, LoadNext,
      LoadDone
<1>26. CASE HaltDown \/ Shutdown
  BY <1>26 DEF HaltDown, HaltNext, Shutdown
<1>27. ASSUME NEW c \in Containers,
             HaltVisit(c) \/
             NotifyLost(c) \/ Expire(c) \/ TopUp(c) \/ PayLaunch(c) \/
             Notify(c)
      PROVE  CreditBacked'
  BY <1>27 DEF HaltVisit, HaltNext, NotifyLost, Expire, TopUp, PayLaunch,
      Notify, Spawn
<1>28. ASSUME NEW s \in Slots,
             RefreshAnswer(s)
      PROVE  CreditBacked'
  BY <1>28 DEF RefreshAnswer
<1>29. CASE UNCHANGED vars
  BY <1>29 DEF vars
<1> QED
  BY <1>1, <1>2, <1>3, <1>4, <1>5, <1>6, <1>7, <1>8, <1>9, <1>10, <1>11,
     <1>12, <1>13, <1>14, <1>15, <1>16, <1>17, <1>18, <1>19, <1>20, <1>21,
     <1>22, <1>23, <1>24, <1>25, <1>26, <1>27, <1>28, <1>29
  DEF Next, Boot, Loading, Charging, Refreshing, Halting, Faults, Outside,
      Crash, LoadFails, MonDies, RefreshFails, RefreshOrphan, Fault

\* Arithmetic of OverchargeBounded: spending grows no faster than its excuses.
LEMMA OverchargeArithmetic ==
  ASSUME NEW a \in Nat, NEW b \in Nat, NEW p \in Nat, NEW x \in Nat,
         NEW y \in Nat, ChargeInterval * a <= p + ChargeInterval * x,
         b + x <= a + y
  PROVE  ChargeInterval * b <= p + ChargeInterval * y
<1>1. ChargeInterval \in Nat
  BY IntervalAssumption
<1>2. ChargeInterval * (b + x) <= ChargeInterval * (a + y)
  BY <1>1, Distribute
<1>3. /\ ChargeInterval * (b + x) = ChargeInterval * b + ChargeInterval * x
      /\ ChargeInterval * (a + y) = ChargeInterval * a + ChargeInterval * y
  BY <1>1
<1> QED
  BY <1>1, <1>2, <1>3, Distribute

\* A step that credits nothing keeps OverchargeBounded if it spends no more
\* than it adds to the answers in flight and the faults.
LEMMA OverchargeKept ==
  ASSUME TypeOK, TypeOK', OverchargeBounded,
         \A d \in rows' :
           /\ d \in rows /\ row'[d].paid = row[d].paid
           /\ (charged'[d] + late'[d]) + (Confirming(d) + faults)
                <= (charged[d] + late[d]) + (Confirming(d)' + faults')
  PROVE  OverchargeBounded'
<1> SUFFICES ASSUME NEW d \in rows'
             PROVE  ChargeInterval * (charged'[d] + late'[d])
                      <= row'[d].paid
                         + ChargeInterval * (Confirming(d)' + faults')
  BY DEF OverchargeBounded
<1>1. d \in Containers /\ d \in rows /\ row[d] \in Infos
  BY DEF TypeOK
<1>3. charged[d] + late[d] \in Nat /\ charged'[d] + late'[d] \in Nat
  BY <1>1 DEF TypeOK
<1>4. Confirming(d) + faults \in Nat
  BY DEF TypeOK, Confirming
<1>5. Confirming(d)' + faults' \in Nat
  <2>1. Confirming(d)' \in {0, 1}
    BY DEF Confirming
  <2>2. faults' \in Nat
    BY DEF TypeOK
  <2> QED
    BY <2>1, <2>2
<1>6. row[d].paid \in Nat
  BY <1>1 DEF Infos
<1>2. ChargeInterval * (charged[d] + late[d])
        <= row[d].paid + ChargeInterval * (Confirming(d) + faults)
  BY DEF OverchargeBounded
<1> QED
  BY <1>1, <1>2, <1>3, <1>4, <1>5, <1>6, OverchargeArithmetic

\* A payment is in flight, late, or recorded; every fault excuses one.
LEMMA OverStep ==
  ASSUME TypeOK, Parked, MemoryMatchesDb, Remembered, Ordered, RunsOnlyIfPaid,
         OverchargeBounded, [Next]_vars
  PROVE  OverchargeBounded'
<1>0. TypeOK'
  BY TypeStep
<1> USE IntervalAssumption DEF TypeOK, process, loops, disk, wallet, MonIdle,
      LoadIdle, HaltIdle, FreeSlot, OverchargeBounded, Confirming, Parked,
      MemoryMatchesDb, Infos, Fault
<1>1. CASE Die /\ faults' = faults + 1
  <2>1. /\ rows' = rows /\ row' = row /\ charged' = charged
        /\ mon' = MonIdle /\ faults' = faults + 1
    BY <1>1 DEF Die, Forget
  <2>2. late' = late \/ (mon.pc = "pay" /\ late' = [late EXCEPT ![mon.c] = @ + 1])
    BY <1>1 DEF Die, OrphanRequest
  <2>3. ASSUME NEW d \in rows'
        PROVE  /\ d \in rows /\ row'[d].paid = row[d].paid
               /\ (charged'[d] + late'[d]) + (Confirming(d) + faults)
                    <= (charged[d] + late[d]) + (Confirming(d)' + faults')
    <3>1. d \in Containers /\ Confirming(d)' = 0 /\ Confirming(d) \in {0, 1}
      BY <2>1
    <3>2. Confirming(d) = 1 => mon.pc = "paid"
      OBVIOUS
    <3> HIDE DEF Confirming, MonIdle
    <3>3. \/ late'[d] = late[d]
          \/ late'[d] = late[d] + 1 /\ Confirming(d) = 0
      BY <2>2, <3>1, <3>2
    <3>4. late[d] \in Nat /\ charged[d] \in Nat /\ faults \in Nat
      BY <3>1
    <3> QED
      BY <2>1, <3>1, <3>3, <3>4
  <2> QED
    BY <1>0, <2>3, OverchargeKept
<1>2. ASSUME NEW c \in Containers, LoadRow(c)
      PROVE  OverchargeBounded'
  BY <1>2 DEF LoadRow
<1>3. CASE LoadTold
  BY <1>3 DEF LoadTold, ChangeState, LoadAt, LoadNext, LoadIdle
<1>4. CASE LoadCompose
  BY <1>4 DEF LoadCompose, LoadNext, LoadIdle
<1>5. ASSUME NEW c \in Containers, Visit(c)
      PROVE  OverchargeBounded'
  BY <1>5 DEF Visit, MonAt, MonNext, Deploying
<1>6. CASE PassDone
  BY <1>6 DEF PassDone, OnlyMon, MonIdle
<1>7. CASE InvoiceMade
  BY <1>7 DEF InvoiceMade, MonAt, OnlyMon
<1>8. CASE WalletPays
  <2>1. \A d \in rows' :
          /\ d \in rows /\ row'[d].paid = row[d].paid
          /\ (charged'[d] + late'[d]) + (Confirming(d) + faults)
               <= (charged[d] + late[d]) + (Confirming(d)' + faults')
    BY <1>8 DEF WalletPays, Settle, MonAt
  <2> QED
    BY <1>0, <2>1, OverchargeKept
<1>9. CASE WalletRefuses
  BY <1>9 DEF WalletRefuses, MonAt, OnlyMon
<1>10. CASE PayReply
  BY <1>10 DEF PayReply, Spawn, AfterCharge, MonAt, MonNext, Deploying,
      Pausing, Extend
<1>11. CASE BrokeReply
  BY <1>11 DEF BrokeReply, MonAt, OnlyMon
<1>12. CASE MonAnswer
  BY <1>12 DEF MonAnswer, OnlyMon
<1>13. CASE MonTold
  BY <1>13 DEF MonTold, AfterCharge, MonNext, MonAt, Deploying, Pausing
<1>14. CASE Retry
  BY <1>14 DEF Retry, MonAt, OnlyMon
<1>15. CASE LookupAnswer
  BY <1>15 DEF LookupAnswer, MonAt, OnlyMon
<1>16. CASE LookupSettled
  BY <1>16 DEF LookupSettled, Deploying, MonAt
<1>17. CASE LookupPending
  BY <1>17 DEF LookupPending, MonNext
<1>18. CASE ComposeDone
  BY <1>18 DEF ComposeDone, MonNext, SaveState
<1>19. CASE HaltDown
  BY <1>19 DEF HaltDown, HaltNext
<1>20. CASE PowerOff
  <2>1. /\ rows' = rows /\ row' = row /\ charged' = charged
        /\ mon' = MonIdle /\ faults' = faults + 1
    BY <1>20 DEF PowerOff, Forget
  <2>2. late' = late \/ (mon.pc = "pay" /\ late' = [late EXCEPT ![mon.c] = @ + 1])
    BY <1>20 DEF PowerOff, OrphanRequest
  <2>3. ASSUME NEW d \in rows'
        PROVE  /\ d \in rows /\ row'[d].paid = row[d].paid
               /\ (charged'[d] + late'[d]) + (Confirming(d) + faults)
                    <= (charged[d] + late[d]) + (Confirming(d)' + faults')
    <3>1. d \in Containers /\ Confirming(d)' = 0 /\ Confirming(d) \in {0, 1}
      BY <2>1
    <3>2. Confirming(d) = 1 => mon.pc = "paid"
      OBVIOUS
    <3> HIDE DEF Confirming, MonIdle
    <3>3. \/ late'[d] = late[d]
          \/ late'[d] = late[d] + 1 /\ Confirming(d) = 0
      BY <2>2, <3>1, <3>2
    <3>4. late[d] \in Nat /\ charged[d] \in Nat /\ faults \in Nat
      BY <3>1
    <3> QED
      BY <2>1, <3>1, <3>3, <3>4
  <2> QED
    BY <1>0, <2>3, OverchargeKept
<1>21. CASE ChargeFails
  <2>1. \A d \in rows' :
          /\ d \in rows /\ row'[d].paid = row[d].paid
          /\ (charged'[d] + late'[d]) + (Confirming(d) + faults)
               <= (charged[d] + late[d]) + (Confirming(d)' + faults')
    BY <1>21 DEF ChargeFails, MonAt, OrphanRequest
  <2> QED
    BY <1>0, <2>1, OverchargeKept
<1>22. CASE LookupFails
  <2>1. \A d \in rows' :
          /\ d \in rows /\ row'[d].paid = row[d].paid
          /\ (charged'[d] + late'[d]) + (Confirming(d) + faults)
               <= (charged[d] + late[d]) + (Confirming(d)' + faults')
    BY <1>22 DEF LookupFails, MonNext
  <2> QED
    BY <1>0, <2>1, OverchargeKept
<1>23. ASSUME NEW c \in Containers, NotifyLost(c)
      PROVE  OverchargeBounded'
  <2>1. \A d \in rows' :
          /\ d \in rows /\ row'[d].paid = row[d].paid
          /\ (charged'[d] + late'[d]) + (Confirming(d) + faults)
               <= (charged[d] + late[d]) + (Confirming(d)' + faults')
    BY <1>23 DEF NotifyLost
  <2> QED
    BY <1>0, <2>1, OverchargeKept
<1>24. CASE Tick
  BY <1>24 DEF Tick, Deployed
<1>25. CASE Shutdown
  <2>1. \A d \in rows' :
          /\ d \in rows /\ row'[d].paid = row[d].paid
          /\ (charged'[d] + late'[d]) + (Confirming(d) + faults)
               <= (charged[d] + late[d]) + (Confirming(d)' + faults')
    BY <1>25 DEF Shutdown
  <2> QED
    BY <1>0, <2>1, OverchargeKept
<1>26. ASSUME NEW c \in Containers, Launch(c)
      PROVE  OverchargeBounded'
  BY <1>26 DEF Launch, NewInfo, Ordered, RunsOnlyIfPaid
<1>27. ASSUME NEW c \in Containers, WalletPaysLate(c)
      PROVE  OverchargeBounded'
  <2>1. \A d \in rows' :
          /\ d \in rows /\ row'[d].paid = row[d].paid
          /\ (charged'[d] + late'[d]) + (Confirming(d) + faults)
               <= (charged[d] + late[d]) + (Confirming(d)' + faults')
    BY <1>27 DEF WalletPaysLate, Settle
  <2> QED
    BY <1>0, <2>1, OverchargeKept
<1>28. ASSUME NEW s \in Slots, RefreshTold(s)
      PROVE  OverchargeBounded'
  BY <1>28 DEF RefreshTold
<1>29. CASE Start \/ WalletReady \/ LoadAnswer \/ LoadDone
  BY <1>29 DEF Start, WalletReady, LoadAnswer, LoadAt, LoadDone
<1>30. ASSUME NEW c \in Containers,
             HaltVisit(c) \/ Expire(c) \/
             TopUp(c) \/ PayLaunch(c) \/ Notify(c)
      PROVE  OverchargeBounded'
  BY <1>30 DEF HaltVisit, HaltNext, Expire, TopUp, PayLaunch, Notify, Spawn
<1>31. ASSUME NEW s \in Slots,
             RefreshAnswer(s)
      PROVE  OverchargeBounded'
  BY <1>31 DEF RefreshAnswer
<1>32. CASE UNCHANGED vars
  BY <1>32 DEF vars
<1> QED
  BY <1>1, <1>2, <1>3, <1>4, <1>5, <1>6, <1>7, <1>8, <1>9, <1>10, <1>11,
     <1>12, <1>13, <1>14, <1>15, <1>16, <1>17, <1>18, <1>19, <1>20, <1>21,
     <1>22, <1>23, <1>24, <1>25, <1>26, <1>27, <1>28, <1>29, <1>30, <1>31,
     <1>32
  DEF Next, Boot, Loading, Charging, Refreshing, Halting, Faults, Outside,
      Crash, LoadFails, MonDies, RefreshFails, RefreshOrphan, Fault

\* charge() credits an interval only while the container is unpaid (387-411),
\* and that is still so when the answer comes.
LEMMA PrepaidStep ==
  ASSUME TypeOK, Parked, MemoryMatchesDb, Remembered, Ordered, RunsOnlyIfPaid,
         PrepaidBound, [Next]_vars
  PROVE  PrepaidBound'
<1> USE IntervalAssumption DEF TypeOK, process, loops, disk, wallet, MonIdle,
      LoadIdle, HaltIdle, FreeSlot, PrepaidBound, Remembered, Unpaid, Parked,
      MemoryMatchesDb, Infos
<1>1. CASE Die /\ faults' = faults + 1
  BY <1>1 DEF Die, Forget
<1>2. ASSUME NEW c \in Containers, LoadRow(c)
      PROVE  PrepaidBound'
  BY <1>2 DEF LoadRow
<1>3. CASE LoadTold
  BY <1>3 DEF LoadTold, ChangeState, LoadAt, LoadNext, LoadIdle
<1>4. CASE LoadCompose
  BY <1>4 DEF LoadCompose, LoadNext, LoadIdle
<1>5. ASSUME NEW c \in Containers, Visit(c)
      PROVE  PrepaidBound'
  BY <1>5 DEF Visit, MonAt, MonNext, Deploying
<1>6. CASE PassDone
  BY <1>6 DEF PassDone, OnlyMon, MonIdle
<1>7. CASE InvoiceMade
  BY <1>7 DEF InvoiceMade, MonAt, OnlyMon
<1>8. CASE WalletPays
  BY <1>8 DEF WalletPays, Settle, MonAt
<1>9. CASE WalletRefuses
  BY <1>9 DEF WalletRefuses, MonAt, OnlyMon
<1>10. CASE PayReply
  BY <1>10 DEF PayReply, Spawn, AfterCharge, MonAt, MonNext, Deploying,
      Pausing, Extend
<1>11. CASE BrokeReply
  BY <1>11 DEF BrokeReply, MonAt, OnlyMon
<1>12. CASE MonAnswer
  BY <1>12 DEF MonAnswer, OnlyMon
<1>13. CASE MonTold
  BY <1>13 DEF MonTold, AfterCharge, MonNext, MonAt, Deploying, Pausing
<1>14. CASE Retry
  BY <1>14 DEF Retry, MonAt, OnlyMon
<1>15. CASE LookupAnswer
  BY <1>15 DEF LookupAnswer, MonAt, OnlyMon
<1>16. CASE LookupSettled
  BY <1>16 DEF LookupSettled, Deploying, MonAt
<1>17. CASE LookupPending
  BY <1>17 DEF LookupPending, MonNext
<1>18. CASE ComposeDone
  BY <1>18 DEF ComposeDone, MonNext, SaveState
<1>19. ASSUME NEW c \in Containers, HaltVisit(c)
      PROVE  PrepaidBound'
  BY <1>19 DEF HaltVisit, HaltNext
<1>20. CASE PowerOff
  BY <1>20 DEF PowerOff, Forget
<1>21. CASE ChargeFails
  BY <1>21 DEF ChargeFails, MonAt, OrphanRequest
<1>22. CASE LookupFails
  BY <1>22 DEF LookupFails, MonNext
<1>23. ASSUME NEW c \in Containers, PayLaunch(c)
      PROVE  PrepaidBound'
  BY <1>23 DEF PayLaunch
<1>24. CASE Tick
  BY <1>24 DEF Tick, Deployed
<1>25. ASSUME NEW c \in Containers, Launch(c)
      PROVE  PrepaidBound'
  BY <1>25 DEF Launch, NewInfo
<1>26. ASSUME NEW c \in Containers, WalletPaysLate(c)
      PROVE  PrepaidBound'
  BY <1>26 DEF WalletPaysLate, Settle
<1>27. ASSUME NEW s \in Slots, RefreshTold(s)
      PROVE  PrepaidBound'
  BY <1>27 DEF RefreshTold
<1>28. CASE Start \/ WalletReady \/ LoadAnswer \/ LoadDone
  BY <1>28 DEF Start, WalletReady, LoadAnswer, LoadAt, LoadDone
<1>29. CASE HaltDown \/ Shutdown
  BY <1>29 DEF HaltDown, HaltNext, Shutdown
<1>30. ASSUME NEW c \in Containers,
             NotifyLost(c) \/ Expire(c) \/
             TopUp(c) \/ Notify(c)
      PROVE  PrepaidBound'
  BY <1>30 DEF NotifyLost, Expire, TopUp, Notify, Spawn
<1>31. ASSUME NEW s \in Slots,
             RefreshAnswer(s)
      PROVE  PrepaidBound'
  BY <1>31 DEF RefreshAnswer
<1>32. CASE UNCHANGED vars
  BY <1>32 DEF vars
<1> QED
  BY <1>1, <1>2, <1>3, <1>4, <1>5, <1>6, <1>7, <1>8, <1>9, <1>10, <1>11,
     <1>12, <1>13, <1>14, <1>15, <1>16, <1>17, <1>18, <1>19, <1>20, <1>21,
     <1>22, <1>23, <1>24, <1>25, <1>26, <1>27, <1>28, <1>29, <1>30, <1>31,
     <1>32
  DEF Next, Boot, Loading, Charging, Refreshing, Halting, Faults, Outside,
      Crash, LoadFails, MonDies, RefreshFails, RefreshOrphan, Fault

\* uptimeMonitor adds one to what is stored for the containers that run.
LEMMA TickEffect ==
  ASSUME TypeOK, MemoryMatchesDb, Tick
  PROVE  /\ \A d \in Containers \ Deployed : row'[d] = row[d]
         /\ \A d \in Deployed : /\ row'[d].count = row[d].count + 1
                                /\ row'[d].paid = row[d].paid
                                /\ row'[d].state = row[d].state
         /\ UNCHANGED <<rows, conts, invoice, charged>>
<1>1. /\ info \in [Containers -> Infos] /\ row \in [Containers -> Infos]
      /\ conts \subseteq Containers
  BY DEF TypeOK
<1>2. /\ info' = [c \in Containers |->
           IF c \in Deployed THEN [info[c] EXCEPT !.count = @ + 1] ELSE info[c]]
      /\ row' = [c \in Containers |->
           IF c \in Deployed THEN [row[c] EXCEPT !.count = info'[c].count]
                             ELSE row[c]]
      /\ UNCHANGED <<rows, conts, invoice, charged>>
  BY DEF Tick, disk, wallet
<1>3. \A d \in Deployed : d \in Containers /\ info[d].count = row[d].count
  BY <1>1 DEF Deployed, MemoryMatchesDb
<1>4. \A d \in Deployed : info'[d].count = info[d].count + 1
  BY <1>1, <1>2, <1>3 DEF Infos
<1>5. \A d \in Deployed : row'[d] = [row[d] EXCEPT !.count = info'[d].count]
  BY <1>2, <1>3
<1>6. ASSUME NEW d \in Deployed
      PROVE  /\ row'[d].count = info'[d].count
             /\ row'[d].paid = row[d].paid /\ row'[d].state = row[d].state
  <2>1. row[d] \in Infos /\ row'[d] = [row[d] EXCEPT !.count = info'[d].count]
    BY <1>1, <1>3, <1>5
  <2> QED
    BY <2>1 DEF Infos
<1>7. \A d \in Deployed : row'[d].count = row[d].count + 1
  BY <1>3, <1>4, <1>6
<1>8. \A d \in Containers \ Deployed : row'[d] = row[d]
  BY <1>2
<1> QED
  BY <1>2, <1>6, <1>7, <1>8

\* What one step may do to the rows, as RowsOnlyAdvance says.
Advance ==
  \A c \in rows :
    IF c \in rows'
      THEN /\ row'[c].count >= row[c].count /\ row'[c].paid >= row[c].paid
           /\ row'[c].state = "waiting" => row[c].state = "waiting"
           /\ row'[c].state = "paused" => row[c].state # "waiting"
      ELSE row[c].state = "waiting" /\ overdue[c]

\* A row only grows, is only written by its own loop, and is deleted only
\* while it waits and its invoice has expired.
LEMMA AdvanceStep ==
  ASSUME TypeOK, TypeOK', Parked, MemoryMatchesDb, Remembered, Ordered,
         [Next]_vars
  PROVE  Advance
<1> USE IntervalAssumption DEF TypeOK, process, loops, disk, wallet, MonIdle,
      LoadIdle, HaltIdle, FreeSlot, Parked, Infos, Advance
<1>1. CASE Die /\ faults' = faults + 1
  BY <1>1 DEF Die, Forget
<1>2. ASSUME NEW c \in Containers, LoadRow(c)
      PROVE  Advance
  BY <1>2 DEF LoadRow
<1>3. CASE LoadTold
  BY <1>3 DEF LoadTold, ChangeState, LoadAt, LoadNext, LoadIdle
<1>4. ASSUME NEW c \in Containers, Visit(c)
      PROVE  Advance
  BY <1>4 DEF Visit, MonAt, MonNext, Deploying
<1>5. CASE PassDone
  BY <1>5 DEF PassDone, OnlyMon, MonIdle
<1>6. CASE InvoiceMade
  BY <1>6 DEF InvoiceMade, MonAt, OnlyMon
<1>7. CASE WalletPays
  BY <1>7 DEF WalletPays, Settle, MonAt
<1>8. CASE WalletRefuses
  BY <1>8 DEF WalletRefuses, MonAt, OnlyMon
<1>9. CASE PayReply
  BY <1>9 DEF PayReply, Spawn, AfterCharge, MonAt, MonNext, Deploying,
      Pausing, Extend, MemoryMatchesDb
<1>10. CASE BrokeReply
  BY <1>10 DEF BrokeReply, MonAt, OnlyMon
<1>11. CASE MonAnswer
  BY <1>11 DEF MonAnswer, OnlyMon
<1>12. CASE MonTold
  BY <1>12 DEF MonTold, AfterCharge, MonNext, MonAt, Deploying, Pausing
<1>13. CASE Retry
  BY <1>13 DEF Retry, MonAt, OnlyMon
<1>14. CASE LookupAnswer
  BY <1>14 DEF LookupAnswer, MonAt, OnlyMon
<1>15. CASE LookupSettled
  BY <1>15 DEF LookupSettled, Deploying, MonAt
<1>16. CASE LookupPending
  BY <1>16 DEF LookupPending, MonNext, Remembered, MemoryMatchesDb, Expired
<1>17. CASE ComposeDone
  BY <1>17 DEF ComposeDone, MonNext, SaveState, Remembered
<1>18. CASE PowerOff
  BY <1>18 DEF PowerOff, Forget
<1>19. CASE ChargeFails
  BY <1>19 DEF ChargeFails, MonAt, OrphanRequest
<1>20. CASE LookupFails
  BY <1>20 DEF LookupFails, MonNext
<1>21. CASE Tick
  <2>1. /\ \A d \in Containers \ Deployed : row'[d] = row[d]
        /\ \A d \in Deployed : /\ row'[d].count = row[d].count + 1
                               /\ row'[d].paid = row[d].paid
                               /\ row'[d].state = row[d].state
        /\ rows' = rows
    <3> HIDE DEF TypeOK
    <3> QED
      BY <1>21, TickEffect
  <2>2. \A d \in rows : /\ d \in Containers
                        /\ row[d].count \in Nat /\ row[d].paid \in Nat
    OBVIOUS
  <2> HIDE DEF TypeOK
  <2> QED
    BY <2>1, <2>2
<1>22. ASSUME NEW c \in Containers, Launch(c)
      PROVE  Advance
  BY <1>22 DEF Launch, Ordered
<1>23. ASSUME NEW c \in Containers, WalletPaysLate(c)
      PROVE  Advance
  BY <1>23 DEF WalletPaysLate, Settle
<1>24. ASSUME NEW s \in Slots, RefreshTold(s)
      PROVE  Advance
  BY <1>24 DEF RefreshTold
<1>25. CASE Start \/ WalletReady \/ LoadAnswer \/ LoadDone \/ LoadCompose
  BY <1>25 DEF Start, WalletReady, LoadAnswer, LoadAt, LoadDone, LoadCompose,
      LoadNext
<1>26. CASE HaltDown \/ Shutdown
  BY <1>26 DEF HaltDown, HaltNext, Shutdown
<1>27. ASSUME NEW c \in Containers,
             HaltVisit(c) \/
             NotifyLost(c) \/ Expire(c) \/ TopUp(c) \/ PayLaunch(c) \/
             Notify(c)
      PROVE  Advance
  BY <1>27 DEF HaltVisit, HaltNext, NotifyLost, Expire, TopUp, PayLaunch,
      Notify, Spawn
<1>28. ASSUME NEW s \in Slots,
             RefreshAnswer(s)
      PROVE  Advance
  BY <1>28 DEF RefreshAnswer
<1>29. CASE UNCHANGED vars
  BY <1>29 DEF vars
<1> QED
  BY <1>1, <1>2, <1>3, <1>4, <1>5, <1>6, <1>7, <1>8, <1>9, <1>10, <1>11,
     <1>12, <1>13, <1>14, <1>15, <1>16, <1>17, <1>18, <1>19, <1>20, <1>21,
     <1>22, <1>23, <1>24, <1>25, <1>26, <1>27, <1>28, <1>29
  DEF Next, Boot, Loading, Charging, Refreshing, Halting, Faults, Outside,
      Crash, LoadFails, MonDies, RefreshFails, RefreshOrphan, Fault

(* The inductive invariant *)

\* The process starts with no container and no money moved.
LEMMA InitIInv == Init => IInv
<1> SUFFICES ASSUME Init PROVE IInv
  OBVIOUS
<1> USE InitTypes, IntervalAssumption DEF Init
<1>1. TypeOK
  BY DEF TypeOK
<1>2. Parked
  BY DEF Parked, MonIdle, LoadIdle, HaltIdle, FreeSlot
<1>3. Remembered
  BY DEF Remembered, MonIdle
<1>4. Ordered
  BY DEF Ordered, LoadIdle, HaltIdle
<1>5. MemoryMatchesDb /\ RunsOnlyIfPaid
  BY DEF MemoryMatchesDb, RunsOnlyIfPaid
<1>6. CreditBacked /\ OverchargeBounded /\ PrepaidBound
  BY DEF CreditBacked, OverchargeBounded, PrepaidBound
<1> QED
  BY <1>1, <1>2, <1>3, <1>4, <1>5, <1>6 DEF IInv

\* Every step keeps every conjunct.
LEMMA IInvStep == IInv /\ [Next]_vars => IInv'
<1> SUFFICES ASSUME IInv, [Next]_vars PROVE IInv'
  OBVIOUS
<1>1. TypeOK'
  BY TypeStep DEF IInv
<1>2. Parked'
  BY ParkedStep DEF IInv, MemoryMatchesDb
<1>3. MemoryMatchesDb'
  BY MemoryStep DEF IInv
<1>4. Remembered'
  BY RememberedStep DEF IInv
<1>5. Ordered'
  BY OrderedStep DEF IInv
<1>6. RunsOnlyIfPaid'
  BY RunsStep DEF IInv
<1>7. CreditBacked'
  BY CreditStep DEF IInv
<1>8. OverchargeBounded'
  BY OverStep DEF IInv
<1>9. PrepaidBound'
  BY PrepaidStep DEF IInv
<1> QED
  BY <1>1, <1>2, <1>3, <1>4, <1>5, <1>6, <1>7, <1>8, <1>9 DEF IInv

(* Docker and the states in memory *)

\* startContainers acts on the state of the container it holds, which no other
\* loop changes meanwhile; shutdown's loop runs only once off is set.
LEMMA ReconcilingStep ==
  ASSUME TypeOK, Parked, Ordered, Reconciling, [Next]_vars
  PROVE  Reconciling'
<1> USE DEF TypeOK, process, loops, disk, wallet, MonIdle, LoadIdle,
      HaltIdle, FreeSlot, Parked, Infos, Reconciling
<1>1. CASE Die /\ faults' = faults + 1
  BY <1>1 DEF Die, Forget, OrphanRequest
<1>2. ASSUME NEW c \in Containers, LoadRow(c)
      PROVE  Reconciling'
  BY <1>2 DEF LoadRow
<1>3. CASE LoadTold
  <2>1. info'[load.c].state = info[load.c].state /\ UNCHANGED <<halt, off>>
    BY <1>3, LoadTypes DEF LoadTold
  <2>2. CASE info[load.c].state \in {"deployed", "paused"}
    BY <1>3, <2>1, <2>2 DEF LoadTold, ChangeState, LoadAt, LoadNext
  <2>3. CASE info[load.c].state = "waiting"
    <3>1. LoadNext
      BY <1>3, <2>3 DEF LoadTold, ChangeState
    <3>2. load'.pc = "idle" /\ load'.c = None
      BY <3>1 DEF LoadNext
    <3> QED
      BY <2>1, <3>2
  <2> QED
    BY <1>3, <2>2, <2>3 DEF LoadTold, States
<1>4. CASE LoadCompose
  BY <1>4 DEF LoadCompose, LoadNext, LoadIdle
<1>5. ASSUME NEW c \in Containers, Visit(c)
      PROVE  Reconciling'
  BY <1>5 DEF Visit, MonAt, MonNext, Deploying
<1>6. CASE PassDone
  BY <1>6 DEF PassDone, OnlyMon, MonIdle
<1>7. CASE InvoiceMade
  BY <1>7 DEF InvoiceMade, MonAt, OnlyMon
<1>8. CASE WalletPays
  BY <1>8 DEF WalletPays, Settle, MonAt
<1>9. CASE WalletRefuses
  BY <1>9 DEF WalletRefuses, MonAt, OnlyMon
<1>10. CASE PayReply
  BY <1>10 DEF PayReply, Spawn, AfterCharge, MonAt, MonNext, Deploying,
       Pausing, Extend
<1>11. CASE BrokeReply
  BY <1>11 DEF BrokeReply, MonAt, OnlyMon
<1>12. CASE MonAnswer
  BY <1>12 DEF MonAnswer, OnlyMon
<1>13. CASE MonTold
  BY <1>13 DEF MonTold, AfterCharge, MonNext, MonAt, Deploying, Pausing
<1>14. CASE Retry
  BY <1>14 DEF Retry, MonAt, OnlyMon
<1>15. CASE LookupAnswer
  BY <1>15 DEF LookupAnswer, MonAt, OnlyMon
<1>16. CASE LookupSettled
  BY <1>16 DEF LookupSettled, Deploying, MonAt
<1>17. CASE LookupPending
  BY <1>17 DEF LookupPending, MonNext, Expired
<1>18. CASE ComposeDone
  BY <1>18 DEF ComposeDone, MonNext, SaveState
<1>19. ASSUME NEW c \in Containers, HaltVisit(c)
      PROVE  Reconciling'
  BY <1>19 DEF HaltVisit, HaltNext
<1>20. CASE PowerOff
  BY <1>20 DEF PowerOff, Forget, OrphanRequest
<1>21. CASE ChargeFails
  BY <1>21 DEF ChargeFails, MonAt, OrphanRequest
<1>22. CASE LookupFails
  BY <1>22 DEF LookupFails, MonNext
<1>23. ASSUME NEW c \in Containers, PayLaunch(c)
      PROVE  Reconciling'
  BY <1>23 DEF PayLaunch
<1>24. CASE Tick
  BY <1>24 DEF Tick, Deployed
<1>25. ASSUME NEW c \in Containers, Launch(c)
      PROVE  Reconciling'
  BY <1>25 DEF Launch, NewInfo, Ordered
<1>26. ASSUME NEW c \in Containers, WalletPaysLate(c)
      PROVE  Reconciling'
  BY <1>26 DEF WalletPaysLate, Settle
<1>27. ASSUME NEW s \in Slots, RefreshTold(s)
      PROVE  Reconciling'
  BY <1>27 DEF RefreshTold
<1>28. CASE Start \/ WalletReady \/ LoadAnswer \/ LoadDone
  BY <1>28 DEF Start, WalletReady, LoadAnswer, LoadAt, LoadDone
<1>29. CASE HaltDown \/ Shutdown
  BY <1>29 DEF HaltDown, HaltNext, Shutdown
<1>30. ASSUME NEW c \in Containers,
             NotifyLost(c) \/ Expire(c) \/ TopUp(c) \/ Notify(c)
      PROVE  Reconciling'
  BY <1>30 DEF NotifyLost, Expire, TopUp, Notify, Spawn
<1>31. ASSUME NEW s \in Slots, RefreshAnswer(s)
      PROVE  Reconciling'
  BY <1>31 DEF RefreshAnswer
<1>32. CASE UNCHANGED vars
  BY <1>32 DEF vars
<1> QED
  BY <1>1, <1>2, <1>3, <1>4, <1>5, <1>6, <1>7, <1>8, <1>9, <1>10, <1>11,
     <1>12, <1>13, <1>14, <1>15, <1>16, <1>17, <1>18, <1>19, <1>20, <1>21,
     <1>22, <1>23, <1>24, <1>25, <1>26, <1>27, <1>28, <1>29, <1>30, <1>31,
     <1>32
  DEF Next, Boot, Loading, Charging, Refreshing, Halting, Faults, Outside,
      Crash, LoadFails, MonDies, RefreshFails, RefreshOrphan, Fault

\* The loop whose frame is p waits for a docker command on c.
Works(p, c) == p.pc \in {"up", "down"} /\ p.c = c

\* Membership in the set of containers that loops in the frames m, l, h await.
LEMMA BusyLoops ==
  ASSUME NEW m, NEW l, NEW h, NEW c
  PROVE  c \in {p.c : p \in {q \in {m, l, h} : q.pc \in {"up", "down"}}}
           <=> Works(m, c) \/ Works(l, c) \/ Works(h, c)
BY DEF Works

\* A container is in a docker command when one of the three loops runs it.
LEMMA ChangingMembers ==
  \A c :
    /\ c \in Changing <=> Works(mon, c) \/ Works(load, c) \/ Works(halt, c)
    /\ c \in Changing' <=> Works(mon', c) \/ Works(load', c) \/ Works(halt', c)
BY BusyLoops DEF Changing

\* A step of chargeMonitor that changes info.state of no container but the one
\* it then awaits docker for leaves docker and the states in agreement.
LEMMA OnlyMonMoves ==
  ASSUME DockerMatchesState, mon.pc \notin {"up", "down"},
         UNCHANGED <<off, conts, docker, load, halt>>,
         \A d \in conts :
           info'[d].state = info[d].state \/ Works(mon', d)
  PROVE  DockerMatchesState'
BY ChangingMembers DEF DockerMatchesState, Works

\* The result of charge changes the state of the charged container only, and
\* only together with the docker command that follows.
LEMMA ChargeMoves ==
  ASSUME info \in [Containers -> Infos], NEW c \in Containers, NEW i \in Infos,
         i.state = info[c].state,
         AfterCharge(c, i, TRUE) \/ AfterCharge(c, i, FALSE)
  PROVE  /\ \A d \in Containers \ {c} : info'[d].state = info[d].state
         /\ info'[c].state = info[c].state \/ Works(mon', c)
BY AfterChargeEffect DEF Works

\* Every step keeps docker and the states in memory in agreement.
LEMMA DockerStep ==
  ASSUME TypeOK, Parked, MemoryMatchesDb, Remembered, Ordered, RunsOnlyIfPaid,
         Reconciling, DockerMatchesState, [Next]_vars
  PROVE  DockerMatchesState'
<1> USE NoneAssumption, ChangingMembers DEF TypeOK, process, loops, disk,
    wallet, MonIdle,
      LoadIdle, HaltIdle, FreeSlot, Parked, Infos, Reconciling, Remembered,
      DockerMatchesState, Works
<1>1. CASE Die /\ faults' = faults + 1
  BY <1>1 DEF Die, Forget, OrphanRequest
<1>2. ASSUME NEW c \in Containers, LoadRow(c)
      PROVE  DockerMatchesState'
  BY <1>2 DEF LoadRow
<1>3. CASE LoadTold
  BY <1>3 DEF LoadTold, ChangeState, LoadAt, LoadNext, LoadIdle
<1>4. CASE LoadCompose
  <2>1. PICK c \in Containers : c = load.c
    BY <1>4 DEF LoadCompose
  <2>2. /\ load.pc \in {"up", "down"} /\ load'.pc = "idle" /\ load'.c = None
        /\ docker' = [docker EXCEPT ![c] = (load.pc = "up")]
        /\ UNCHANGED <<app, off, conts, info, mon, halt>>
    BY <1>4, <2>1 DEF LoadCompose, LoadNext, LoadIdle
  <2>3. \A d \in Containers \ {c} : d \in Changing => d \in Changing'
    BY <2>1, <2>2
  <2>4. \A d \in Containers \ {c} : docker'[d] = docker[d]
    BY <2>2
  <2>5. /\ info[c].state = "deployed" => docker'[c]
        /\ info[c].state = "paused" => ~docker'[c]
    BY <2>1, <2>2
  <2>6. conts \subseteq Containers
    OBVIOUS
  <2> HIDE DEF TypeOK, Parked, Infos, Reconciling, Remembered, Works
  <2> QED
    BY <2>1, <2>2, <2>3, <2>4, <2>5, <2>6
<1>5. ASSUME NEW c \in Containers, Visit(c)
      PROVE  DockerMatchesState'
  <2>1. \/ info' = info
        \/ /\ info' =
                [info EXCEPT ![c] = [info[c] EXCEPT !.state = "deployed"]]
           /\ mon'.pc = "up" /\ mon'.c = c
    BY <1>5 DEF Visit, MonAt, MonNext, Deploying
  <2>2. UNCHANGED <<off, conts, docker, load, halt>> /\ mon.pc = "idle"
    BY <1>5 DEF Visit
  <2> QED
    BY <2>1, <2>2, OnlyMonMoves
<1>6. CASE PassDone
  BY <1>6 DEF PassDone, OnlyMon, MonIdle
<1>7. CASE InvoiceMade
  BY <1>7 DEF InvoiceMade, MonAt, OnlyMon
<1>8. CASE WalletPays
  BY <1>8 DEF WalletPays, Settle, MonAt
<1>9. CASE WalletRefuses
  BY <1>9 DEF WalletRefuses, MonAt, OnlyMon
<1>10. CASE PayReply
  <2>0. PICK c \in Containers : c = mon.c
    BY <1>10 DEF PayReply
  <2>1. info[c] \in Infos /\ Extend(info[c]) \in Infos
        /\ Extend(info[c]).state = info[c].state
    BY ExtendEffect
  <2>2. \/ info' = [info EXCEPT ![c] = Extend(info[c])]
        \/ AfterCharge(c, Extend(info[c]), TRUE)
    BY <1>10, <2>0 DEF PayReply
  <2>6. PICK i \in Infos : i = Extend(info[c])
    BY <2>1
  <2>3. UNCHANGED <<off, conts, docker, load, halt>> /\ mon.pc = "paid"
    BY <1>10 DEF PayReply
  <2>4. info \in [Containers -> Infos]
    OBVIOUS
  <2>5. /\ \A d \in Containers \ {c} : info'[d].state = info[d].state
        /\ info'[c].state = info[c].state \/ Works(mon', c)
    <3>1. CASE info' = [info EXCEPT ![c] = Extend(info[c])]
      BY <2>1, <2>4, <3>1
    <3>2. CASE AfterCharge(c, Extend(info[c]), TRUE)
      BY <2>1, <2>4, <2>6, <3>2, ChargeMoves
    <3> QED
      BY <2>2, <3>1, <3>2
  <2> QED
    BY <2>3, <2>5, OnlyMonMoves
<1>11. CASE BrokeReply
  BY <1>11 DEF BrokeReply, MonAt, OnlyMon
<1>12. CASE MonAnswer
  BY <1>12 DEF MonAnswer, OnlyMon
<1>13. CASE MonTold
  <2>0. PICK c \in Containers : c = mon.c
    BY <1>13 DEF MonTold
  <2>6. [info[c] EXCEPT !.balance = mon.val] \in Infos
    <3>1. info[c] \in Infos /\ mon \in Mons
      OBVIOUS
    <3> HIDE DEF TypeOK
    <3> QED
      BY <3>1, MonTypes
  <2>1. PICK i \in Infos : i = [info[c] EXCEPT !.balance = mon.val]
    BY <2>6
  <2>2. AfterCharge(c, i, FALSE) /\ i.state = info[c].state
    BY <1>13, <2>0, <2>1 DEF MonTold
  <2>3. UNCHANGED <<off, conts, docker, load, halt>> /\ mon.pc = "told"
    BY <1>13 DEF MonTold
  <2>4. info \in [Containers -> Infos]
    OBVIOUS
  <2>5. /\ \A d \in Containers \ {c} : info'[d].state = info[d].state
        /\ info'[c].state = info[c].state \/ Works(mon', c)
    BY <2>2, <2>4, ChargeMoves
  <2> QED
    BY <2>3, <2>5, OnlyMonMoves
<1>14. CASE Retry
  BY <1>14 DEF Retry, MonAt, OnlyMon
<1>15. CASE LookupAnswer
  BY <1>15 DEF LookupAnswer, MonAt, OnlyMon
<1>16. CASE LookupSettled
  <2>1. /\ info' =
             [info EXCEPT ![mon.c] = [info[mon.c] EXCEPT !.state = "deployed"]]
        /\ mon'.pc = "up" /\ mon'.c = mon.c /\ mon.c \in Containers
        /\ UNCHANGED <<off, conts, docker, load, halt>> /\ mon.pc = "settled"
    BY <1>16 DEF LookupSettled, Deploying, MonAt
  <2> QED
    BY <2>1, OnlyMonMoves
<1>17. CASE LookupPending
  BY <1>17 DEF LookupPending, MonNext, Expired
<1>18. CASE ComposeDone
  BY <1>18 DEF ComposeDone, MonNext, SaveState
<1>19. ASSUME NEW c \in Containers, HaltVisit(c)
      PROVE  DockerMatchesState'
  BY <1>19 DEF HaltVisit, HaltNext
<1>20. CASE PowerOff
  BY <1>20 DEF PowerOff, Forget, OrphanRequest
<1>21. CASE ChargeFails
  BY <1>21 DEF ChargeFails, MonAt, OrphanRequest
<1>22. CASE LookupFails
  BY <1>22 DEF LookupFails, MonNext
<1>23. ASSUME NEW c \in Containers, PayLaunch(c)
      PROVE  DockerMatchesState'
  BY <1>23 DEF PayLaunch
<1>24. CASE Tick
  BY <1>24 DEF Tick, Deployed
<1>25. ASSUME NEW c \in Containers, Launch(c)
      PROVE  DockerMatchesState'
  BY <1>25 DEF Launch, NewInfo, Ordered
<1>26. ASSUME NEW c \in Containers, WalletPaysLate(c)
      PROVE  DockerMatchesState'
  BY <1>26 DEF WalletPaysLate, Settle
<1>27. ASSUME NEW s \in Slots, RefreshTold(s)
      PROVE  DockerMatchesState'
  BY <1>27 DEF RefreshTold
<1>28. CASE Start \/ WalletReady \/ LoadAnswer \/ LoadDone
  BY <1>28 DEF Start, WalletReady, LoadAnswer, LoadAt, LoadDone
<1>29. CASE HaltDown \/ Shutdown
  BY <1>29 DEF HaltDown, HaltNext, Shutdown
<1>30. ASSUME NEW c \in Containers,
             NotifyLost(c) \/ Expire(c) \/ TopUp(c) \/ Notify(c)
      PROVE  DockerMatchesState'
  BY <1>30 DEF NotifyLost, Expire, TopUp, Notify, Spawn
<1>31. ASSUME NEW s \in Slots, RefreshAnswer(s)
      PROVE  DockerMatchesState'
  BY <1>31 DEF RefreshAnswer
<1>32. CASE UNCHANGED vars
  BY <1>32 DEF vars
<1> QED
  BY <1>1, <1>2, <1>3, <1>4, <1>5, <1>6, <1>7, <1>8, <1>9, <1>10, <1>11,
     <1>12, <1>13, <1>14, <1>15, <1>16, <1>17, <1>18, <1>19, <1>20, <1>21,
     <1>22, <1>23, <1>24, <1>25, <1>26, <1>27, <1>28, <1>29, <1>30, <1>31,
     <1>32
  DEF Next, Boot, Loading, Charging, Refreshing, Halting, Faults, Outside,
      Crash, LoadFails, MonDies, RefreshFails, RefreshOrphan, Fault

\* DockerInv holds when the process starts: nothing is loaded or running.
LEMMA InitDockerInv == Init => DockerInv
<1>1. Init => Reconciling
  BY DEF Init, Reconciling, LoadIdle, HaltIdle
<1>2. Init => DockerMatchesState
  BY DEF Init, DockerMatchesState
<1> QED
  BY <1>1, <1>2, InitIInv DEF DockerInv

\* Every step keeps DockerInv.
LEMMA DockerInvStep == DockerInv /\ [Next]_vars => DockerInv'
<1> SUFFICES ASSUME DockerInv, [Next]_vars PROVE DockerInv'
  OBVIOUS
<1>1. IInv'
  BY IInvStep DEF DockerInv
<1>2. Reconciling'
  BY ReconcilingStep DEF DockerInv, IInv
<1>3. DockerMatchesState'
  BY DockerStep DEF DockerInv, IInv
<1> QED
  BY <1>1, <1>2, <1>3 DEF DockerInv

(* Billing implements Account *)

\* A launch that can still be withdrawn has not run and not paid: every step
\* keeps that, also the lookup whose answer is old when it is used.
LEMMA WithdrawableStep ==
  ASSUME TypeOK, Parked, MemoryMatchesDb, Remembered, Ordered, RunsOnlyIfPaid,
         Withdrawable, [Next]_vars
  PROVE  Withdrawable'
<1> USE IntervalAssumption DEF TypeOK, process, loops, disk, wallet, MonIdle,
      LoadIdle, HaltIdle, FreeSlot, Parked, Infos, Withdrawable, Ordered
<1>1. CASE Die /\ faults' = faults + 1
  BY <1>1 DEF Die, Forget, OrphanRequest
<1>2. ASSUME NEW c \in Containers, LoadRow(c)
      PROVE  Withdrawable'
  BY <1>2 DEF LoadRow
<1>3. CASE LoadTold
  BY <1>3 DEF LoadTold, ChangeState, LoadAt, LoadNext, LoadIdle
<1>4. CASE LoadCompose
  BY <1>4 DEF LoadCompose, LoadNext, LoadIdle
<1>5. ASSUME NEW c \in Containers, Visit(c)
      PROVE  Withdrawable'
  BY <1>5 DEF Visit, MonAt, MonNext, Deploying, Remembered
<1>6. CASE PassDone
  BY <1>6 DEF PassDone, OnlyMon, MonIdle
<1>7. CASE InvoiceMade
  BY <1>7 DEF InvoiceMade, MonAt, OnlyMon
<1>8. CASE WalletPays
  BY <1>8 DEF WalletPays, Settle, MonAt
<1>9. CASE WalletRefuses
  BY <1>9 DEF WalletRefuses, MonAt, OnlyMon
<1>10. CASE PayReply
  BY <1>10 DEF PayReply, Spawn, AfterCharge, MonAt, MonNext, Deploying,
       Pausing, Extend, MemoryMatchesDb, Remembered
<1>11. CASE BrokeReply
  BY <1>11 DEF BrokeReply, MonAt, OnlyMon
<1>12. CASE MonAnswer
  BY <1>12 DEF MonAnswer, OnlyMon
<1>13. CASE MonTold
  BY <1>13 DEF MonTold, AfterCharge, MonNext, MonAt, Deploying, Pausing
<1>14. CASE Retry
  BY <1>14 DEF Retry, MonAt, OnlyMon
<1>15. CASE LookupAnswer
  <2>1. /\ mon'.pc = invoice[mon.c] /\ mon'.c = mon.c
        /\ mon.c \in Containers
        /\ UNCHANGED <<rows, row, charged, late, invoice, overdue>>
    BY <1>15 DEF LookupAnswer, MonAt, OnlyMon
  <2>2. /\ row[mon.c].count \in Nat /\ charged[mon.c] \in Nat
        /\ late[mon.c] \in Nat
    BY <2>1
  <2>3. invoice[mon.c] # "settled" =>
          /\ ~(row[mon.c].count > 0) /\ ~(charged[mon.c] > 0)
          /\ ~(late[mon.c] > 0)
    BY <2>1 DEF RunsOnlyIfPaid
  <2> QED
    BY <2>1, <2>2, <2>3
<1>16. CASE LookupSettled
  BY <1>16 DEF LookupSettled, Deploying, MonAt
<1>17. CASE LookupPending
  BY <1>17 DEF LookupPending, MonNext, Expired, Remembered
<1>18. CASE ComposeDone
  BY <1>18 DEF ComposeDone, MonNext, SaveState
<1>19. ASSUME NEW c \in Containers, HaltVisit(c)
      PROVE  Withdrawable'
  BY <1>19 DEF HaltVisit, HaltNext
<1>20. CASE PowerOff
  BY <1>20 DEF PowerOff, Forget, OrphanRequest
<1>21. CASE ChargeFails
  BY <1>21 DEF ChargeFails, MonAt, OrphanRequest
<1>22. CASE LookupFails
  BY <1>22 DEF LookupFails, MonNext
<1>23. ASSUME NEW c \in Containers, PayLaunch(c)
      PROVE  Withdrawable'
  BY <1>23 DEF PayLaunch
<1>24. CASE Tick
  <2>1. /\ \A c \in Containers \ Deployed : row'[c] = row[c]
        /\ \A c \in Deployed : row'[c].paid = row[c].paid
        /\ UNCHANGED <<rows, charged, late, invoice, overdue, mon>>
    BY <1>24 DEF Tick, Deployed
  <2>2. \A c \in Deployed : invoice[c] = "settled"
    BY DEF Deployed
  <2>3. mon.pc = "pending" => mon.c \notin Deployed
    BY DEF Deployed, Remembered
  <2> QED
    BY <2>1, <2>2, <2>3
<1>25. ASSUME NEW c \in Containers, Launch(c)
      PROVE  Withdrawable'
  BY <1>25 DEF Launch, NewInfo
<1>26. ASSUME NEW c \in Containers, WalletPaysLate(c)
      PROVE  Withdrawable'
  BY <1>26 DEF WalletPaysLate, Settle
<1>27. ASSUME NEW s \in Slots, RefreshTold(s)
      PROVE  Withdrawable'
  BY <1>27 DEF RefreshTold
<1>28. CASE Start \/ WalletReady \/ LoadAnswer \/ LoadDone
  BY <1>28 DEF Start, WalletReady, LoadAnswer, LoadAt, LoadDone
<1>29. CASE HaltDown \/ Shutdown
  BY <1>29 DEF HaltDown, HaltNext, Shutdown
<1>30. ASSUME NEW c \in Containers,
             NotifyLost(c) \/ Expire(c) \/ TopUp(c) \/ Notify(c)
      PROVE  Withdrawable'
  BY <1>30 DEF NotifyLost, Expire, TopUp, Notify, Spawn
<1>31. ASSUME NEW s \in Slots, RefreshAnswer(s)
      PROVE  Withdrawable'
  BY <1>31 DEF RefreshAnswer
<1>32. CASE UNCHANGED vars
  BY <1>32 DEF vars
<1> QED
  BY <1>1, <1>2, <1>3, <1>4, <1>5, <1>6, <1>7, <1>8, <1>9, <1>10, <1>11,
     <1>12, <1>13, <1>14, <1>15, <1>16, <1>17, <1>18, <1>19, <1>20, <1>21,
     <1>22, <1>23, <1>24, <1>25, <1>26, <1>27, <1>28, <1>29, <1>30, <1>31,
     <1>32
  DEF Next, Boot, Loading, Charging, Refreshing, Halting, Faults, Outside,
      Crash, LoadFails, MonDies, RefreshFails, RefreshOrphan, Fault

\* Each of the owner's actions is a step of the account.
LEMMA AccountMoves ==
  /\ \A c \in Containers : A!Offer(c) \/ A!Order(c) \/ A!Open(c) \/ A!Close(c)
                        \/ A!Pay(c) \/ A!Credit(c) => A!Next
  /\ \A S \in SUBSET Containers : A!Use(S) => A!Next
BY DEF A!Next

\* The account sees the rows' counters and states, the invoices and the
\* payments: a step that leaves those alone leaves the account alone.
LEMMA AccountUnchanged ==
  ASSUME UNCHANGED <<invoice, rows, charged>>,
         \A c \in Containers :
           /\ row'[c].paid = row[c].paid /\ row'[c].count = row[c].count
           /\ row'[c].state = row[c].state
  PROVE  UNCHANGED A!vars
<1>1. \A c \in Containers : Stage(c)' = Stage(c)
  BY DEF Stage
<1> QED
  BY <1>1 DEF A!vars

\* When only c changes its stage, the account sees c move.
LEMMA StageMoves ==
  ASSUME NEW c \in Containers, \A d \in Containers \ {c} : Stage(d)' = Stage(d)
  PROVE  A!To(c, Stage(c), Stage(c)')
BY DEF A!To

\* Moving one container on in its life moves nothing else in the account.
LEMMA LifeMoves ==
  ASSUME NEW c \in Containers,
         \A d \in Containers \ {c} : Stage(d)' = Stage(d),
         \A d \in Containers :
           /\ row'[d].paid = row[d].paid /\ row'[d].count = row[d].count
           /\ (invoice'[d] = "settled") = (invoice[d] = "settled"),
         UNCHANGED charged
  PROVE  /\ Stage(c) = "new" /\ Stage(c)' = "offered" => A!Offer(c)
         /\ /\ Stage(c) = "offered" /\ Stage(c)' = "open"
            /\ invoice[c] = "settled"
            => A!Open(c)
         /\ /\ Stage(c) = "offered" /\ Stage(c)' = "closed"
            /\ row[c].count = 0 /\ charged[c] = 0
            => A!Close(c)
         /\ Stage(c)' = Stage(c) => UNCHANGED A!vars
<1>1. A!To(c, Stage(c), Stage(c)')
  BY StageMoves
<1>2. /\ UNCHANGED [d \in Containers |-> invoice[d] = "settled"]
      /\ UNCHANGED [d \in Containers |-> row[d].paid]
      /\ UNCHANGED [d \in Containers |-> row[d].count]
      /\ UNCHANGED charged
  OBVIOUS
<1>3. Stage(c)' = Stage(c) => UNCHANGED [d \in Containers |-> Stage(d)]
  OBVIOUS
<1> QED
  BY <1>1, <1>2, <1>3 DEF A!Offer, A!Open, A!Close, A!vars

\* A payment of an ordered container is the account's Pay.
LEMMA PayMoves ==
  ASSUME TypeOK, NEW c \in Containers, invoice[c] = "settled", Settle(c),
         UNCHANGED <<invoice, rows, row>>
  PROVE  A!Pay(c)
<1>1. \A d \in Containers : Stage(d)' = Stage(d)
  BY DEF Stage
<1>2. charged' = [charged EXCEPT ![c] = @ + 1]
  BY DEF Settle
<1> QED
  BY <1>1, <1>2 DEF A!Pay

\* One interval credited, when it is due and paid for, is the account's Credit.
LEMMA CreditMoves ==
  ASSUME NEW c \in Containers, row[c].paid <= row[c].count,
         row[c].paid + ChargeInterval <= ChargeInterval * charged[c],
         row'[c].paid = row[c].paid + ChargeInterval,
         \A d \in Containers \ {c} : row'[d].paid = row[d].paid,
         \A d \in Containers : /\ row'[d].count = row[d].count
                             /\ row'[d].state = row[d].state,
         UNCHANGED <<rows, invoice, charged>>
  PROVE  A!Credit(c)
<1>1. \A d \in Containers : Stage(d)' = Stage(d)
  BY DEF Stage
<1> QED
  BY <1>1 DEF A!Credit

\* A tick of uptimeMonitor is the account's Use of what is deployed.
LEMMA UseMoves ==
  ASSUME NEW S \in SUBSET Containers,
         \A c \in S : /\ invoice[c] = "settled" /\ c \in rows
                     /\ row'[c].count = row[c].count + 1,
         \A c \in Containers \ S : row'[c].count = row[c].count,
         \A c \in Containers : /\ row'[c].paid = row[c].paid
                             /\ row'[c].state = row[c].state,
         UNCHANGED <<rows, invoice, charged>>
  PROVE  A!Use(S)
<1>1. \A c \in Containers : Stage(c)' = Stage(c)
  BY DEF Stage
<1>2. \A c \in S : Stage(c) \in {"offered", "open"}
  BY DEF Stage
<1> QED
  BY <1>1, <1>2 DEF A!Use

\* Every step of the loops, callbacks, wallet and crashes is a step of the
\* owner's account, or leaves it unchanged.
LEMMA AccountStep ==
  ASSUME IInv, Withdrawable, [Next]_vars
  PROVE  [A!Next]_(A!vars)
<1> USE IntervalAssumption DEF IInv, TypeOK, process, loops, disk, wallet,
    MonIdle,
      LoadIdle, HaltIdle, FreeSlot, Parked, Infos, Withdrawable, Ordered,
      Remembered,
      RunsOnlyIfPaid
<1>1. CASE Die /\ faults' = faults + 1
  BY <1>1, AccountUnchanged DEF Die, Forget, OrphanRequest
<1>2. ASSUME NEW c \in Containers, LoadRow(c)
      PROVE  [A!Next]_(A!vars)
  BY <1>2, AccountUnchanged DEF LoadRow
<1>3. CASE LoadTold
  BY <1>3, AccountUnchanged DEF LoadTold, ChangeState, LoadAt, LoadNext,
      LoadIdle
<1>4. CASE LoadCompose
  BY <1>4, AccountUnchanged DEF LoadCompose, LoadNext, LoadIdle
<1>5. ASSUME NEW c \in Containers, Visit(c)
      PROVE  [A!Next]_(A!vars)
  BY <1>5, AccountUnchanged DEF Visit, MonAt, MonNext, Deploying
<1>6. CASE PassDone
  BY <1>6, AccountUnchanged DEF PassDone, OnlyMon, MonIdle
<1>7. CASE InvoiceMade
  BY <1>7, AccountUnchanged DEF InvoiceMade, MonAt, OnlyMon
<1>8. CASE WalletPays
  <2>1. mon.c \in Containers /\ invoice[mon.c] = "settled"
    BY <1>8 DEF WalletPays
  <2>2. PICK c \in Containers : c = mon.c
    BY <2>1
  <2>3. A!Pay(c)
    BY <1>8, <2>1, <2>2, PayMoves DEF WalletPays
  <2> QED
    BY <2>3, AccountMoves
<1>9. CASE WalletRefuses
  BY <1>9, AccountUnchanged DEF WalletRefuses, MonAt, OnlyMon
<1>10. CASE PayReply
  <2>0. PICK c \in Containers : c = mon.c
    BY <1>10 DEF PayReply
  <2>1. /\ c \in Containers /\ c \in rows /\ row[c].paid <= row[c].count
        /\ row[c].paid + ChargeInterval * 1 <= ChargeInterval * charged[c]
    BY <1>10, <2>0 DEF PayReply, MemoryMatchesDb, CreditBacked, Confirming,
        Unpaid
  <2>2. ChargeInterval * 1 = ChargeInterval
    BY IntervalAssumption
  <2>3. /\ row' = [row EXCEPT ![c].paid = Extend(info[c]).paid]
        /\ UNCHANGED <<rows, invoice, charged>>
        /\ info[c] \in Infos /\ info[c].paid = row[c].paid
    BY <1>10, <2>0, <2>1 DEF PayReply, MemoryMatchesDb
  <2>4. /\ row'[c].paid = row[c].paid + ChargeInterval
        /\ \A d \in Containers \ {c} : row'[d].paid = row[d].paid
        /\ \A d \in Containers : /\ row'[d].count = row[d].count
                                /\ row'[d].state = row[d].state
    BY <2>1, <2>3, ExtendEffect
  <2> HIDE DEF IInv, TypeOK, Parked, Withdrawable, Ordered, Remembered,
      RunsOnlyIfPaid
  <2>5. A!Credit(c)
    BY <2>1, <2>2, <2>3, <2>4, CreditMoves
  <2> QED
    BY <2>1, <2>5, AccountMoves
<1>11. CASE BrokeReply
  BY <1>11, AccountUnchanged DEF BrokeReply, MonAt, OnlyMon
<1>12. CASE MonAnswer
  BY <1>12, AccountUnchanged DEF MonAnswer, OnlyMon
<1>13. CASE MonTold
  BY <1>13, AccountUnchanged DEF MonTold, AfterCharge, MonNext, MonAt,
      Deploying, Pausing
<1>14. CASE Retry
  BY <1>14, AccountUnchanged DEF Retry, MonAt, OnlyMon
<1>15. CASE LookupAnswer
  BY <1>15, AccountUnchanged DEF LookupAnswer, MonAt, OnlyMon
<1>16. CASE LookupSettled
  BY <1>16, AccountUnchanged DEF LookupSettled, Deploying, MonAt
<1>17. CASE LookupPending
  <2>0. PICK c \in Containers : c = mon.c
    BY <1>17 DEF LookupPending
  <2>1. CASE UNCHANGED rows
    BY <1>17, <2>0, <2>1, AccountUnchanged DEF LookupPending
  <2>2. CASE Expired(c) /\ rows' = rows \ {c}
    <3>1. /\ c \in Containers /\ c \in rows /\ row[c].state = "waiting"
          /\ invoice[c] # "none" /\ row[c].count = 0 /\ charged[c] = 0
          /\ UNCHANGED <<invoice, row, charged>>
      BY <1>17, <2>0, <2>2 DEF LookupPending, MemoryMatchesDb
    <3> HIDE DEF IInv, TypeOK, Parked, Withdrawable, Ordered, Remembered,
        RunsOnlyIfPaid
    <3>2. Stage(c) = "offered" /\ Stage(c)' = "closed"
      BY <2>2, <3>1 DEF Stage
    <3>3. \A d \in Containers \ {c} : Stage(d)' = Stage(d)
      BY <2>2, <3>1 DEF Stage
    <3>4. A!Close(c)
      BY <3>1, <3>2, <3>3, LifeMoves
    <3> QED
      BY <3>1, <3>4, AccountMoves
  <2> QED
    BY <1>17, <2>0, <2>1, <2>2 DEF LookupPending
<1>18. CASE ComposeDone
  <2>0. PICK c \in Containers : c = mon.c
    BY <1>18 DEF ComposeDone
  <2>1. /\ c \in Containers /\ c \in rows /\ info[c].state # "waiting"
        /\ info[c].state \in States /\ invoice[c] = "settled"
        /\ row' = [row EXCEPT ![c].state = info[c].state]
        /\ UNCHANGED <<rows, invoice, charged>>
    BY <1>18, <2>0 DEF ComposeDone, SaveState, MemoryMatchesDb
  <2>2. /\ \A d \in Containers : /\ row'[d].count = row[d].count
                                 /\ row'[d].paid = row[d].paid
        /\ row'[c].state # "waiting"
    BY <2>1
  <2>3. \A d \in Containers \ {c} : Stage(d)' = Stage(d)
    BY <2>1 DEF Stage
  <2> HIDE DEF IInv, TypeOK, Parked, Withdrawable, Ordered, Remembered,
      RunsOnlyIfPaid
  <2>4. Stage(c)' = "open" /\ Stage(c) \in {"offered", "open"}
    BY <2>1, <2>2 DEF Stage
  <2>5. Stage(c) = "open" \/ A!Open(c)
    BY <2>1, <2>2, <2>3, <2>4, LifeMoves
  <2>6. Stage(c) = "open" => UNCHANGED A!vars
    BY <2>1, <2>2, <2>3, <2>4, LifeMoves
  <2> QED
    BY <2>1, <2>5, <2>6, AccountMoves
<1>19. ASSUME NEW c \in Containers, HaltVisit(c)
      PROVE  [A!Next]_(A!vars)
  BY <1>19, AccountUnchanged DEF HaltVisit, HaltNext
<1>20. CASE PowerOff
  BY <1>20, AccountUnchanged DEF PowerOff, Forget, OrphanRequest
<1>21. CASE ChargeFails
  BY <1>21, AccountUnchanged DEF ChargeFails, MonAt, OrphanRequest
<1>22. CASE LookupFails
  BY <1>22, AccountUnchanged DEF LookupFails, MonNext
<1>23. ASSUME NEW c \in Containers, PayLaunch(c)
      PROVE  [A!Next]_(A!vars)
  <2>1. /\ Stage(c) = "offered" /\ invoice[c] # "settled"
        /\ invoice' = [invoice EXCEPT ![c] = "settled"]
        /\ UNCHANGED <<rows, row, charged>>
    BY <1>23 DEF PayLaunch, Stage
  <2>2. \A d \in Containers : Stage(d)' = Stage(d)
    BY <2>1 DEF Stage
  <2>3. A!Order(c)
    BY <2>1, <2>2 DEF A!Order
  <2> QED
    BY <2>3, AccountMoves
<1>24. CASE Tick
  <2>1. /\ \A d \in Containers \ Deployed : row'[d] = row[d]
        /\ \A d \in Deployed : /\ row'[d].count = row[d].count + 1
                              /\ row'[d].paid = row[d].paid
                              /\ row'[d].state = row[d].state
        /\ UNCHANGED <<rows, invoice, charged>>
    <3> HIDE DEF TypeOK
    <3> QED
      BY <1>24, TickEffect
  <2>2. PICK S \in SUBSET Containers : S = Deployed
    BY DEF Deployed
  <2>3. \A d \in S : invoice[d] = "settled" /\ d \in rows
    BY <2>2 DEF Deployed, MemoryMatchesDb
  <2> HIDE DEF IInv, TypeOK, Parked, Withdrawable, Ordered, Remembered,
      RunsOnlyIfPaid
  <2>4. A!Use(S)
    BY <2>1, <2>2, <2>3, UseMoves
  <2> QED
    BY <2>4, AccountMoves
<1>25. ASSUME NEW c \in Containers, Launch(c)
      PROVE  [A!Next]_(A!vars)
  <2>1. /\ invoice[c] = "none" /\ Stage(c) = "new"
        /\ row[c].count = 0 /\ row[c].paid = 0
        /\ invoice' = [invoice EXCEPT ![c] = "pending"]
        /\ rows' = rows \cup {c} /\ row' = [row EXCEPT ![c] = NewInfo]
        /\ charged' = charged
    BY <1>25 DEF Launch, Stage
  <2>2. \A d \in Containers : /\ row'[d].count = row[d].count
                              /\ row'[d].paid = row[d].paid
    BY <2>1 DEF NewInfo
  <2>3. \A d \in Containers \ {c} : Stage(d)' = Stage(d)
    BY <2>1 DEF Stage
  <2>4. Stage(c)' = "offered"
    BY <2>1 DEF Stage, NewInfo
  <2>5. \A d \in Containers :
          (invoice'[d] = "settled") = (invoice[d] = "settled")
    BY <2>1
  <2>6. A!Offer(c)
    BY <2>1, <2>2, <2>3, <2>4, <2>5, LifeMoves
  <2> QED
    BY <2>6, AccountMoves
<1>26. ASSUME NEW c \in Containers, WalletPaysLate(c)
      PROVE  [A!Next]_(A!vars)
  <2>1. CASE Settle(c)
    <3>1. A!Pay(c)
      BY <1>26, <2>1, PayMoves DEF WalletPaysLate
    <3> QED
      BY <3>1, AccountMoves
  <2>2. CASE UNCHANGED <<funds, charged, notes>>
    BY <1>26, <2>2, AccountUnchanged DEF WalletPaysLate
  <2> QED
    BY <1>26, <2>1, <2>2 DEF WalletPaysLate
<1>27. ASSUME NEW s \in Slots, RefreshTold(s)
      PROVE  [A!Next]_(A!vars)
  BY <1>27, AccountUnchanged DEF RefreshTold
<1>28. CASE Start \/ WalletReady \/ LoadAnswer \/ LoadDone
  BY <1>28, AccountUnchanged DEF Start, WalletReady, LoadAnswer, LoadAt,
      LoadDone
<1>29. CASE HaltDown \/ Shutdown
  BY <1>29, AccountUnchanged DEF HaltDown, HaltNext, Shutdown
<1>30. ASSUME NEW c \in Containers,
             NotifyLost(c) \/ Expire(c) \/ TopUp(c) \/ Notify(c)
      PROVE  [A!Next]_(A!vars)
  BY <1>30, AccountUnchanged DEF NotifyLost, Expire, TopUp, Notify, Spawn
<1>31. ASSUME NEW s \in Slots, RefreshAnswer(s)
      PROVE  [A!Next]_(A!vars)
  BY <1>31, AccountUnchanged DEF RefreshAnswer
<1>32. CASE UNCHANGED vars
  BY <1>32, AccountUnchanged DEF vars
<1> QED
  BY <1>1, <1>2, <1>3, <1>4, <1>5, <1>6, <1>7, <1>8, <1>9, <1>10, <1>11,
     <1>12, <1>13, <1>14, <1>15, <1>16, <1>17, <1>18, <1>19, <1>20, <1>21,
     <1>22, <1>23, <1>24, <1>25, <1>26, <1>27, <1>28, <1>29, <1>30, <1>31,
     <1>32
  DEF Next, Boot, Loading, Charging, Refreshing, Halting, Faults, Outside,
      Crash, LoadFails, MonDies, RefreshFails, RefreshOrphan, Fault

\* Nothing is launched when the process starts: no launch can be withdrawn.
LEMMA InitAccountInv == Init => AccountInv
<1>1. Init => Withdrawable
  BY DEF Init, Withdrawable, NewInfo, MonIdle
<1> QED
  BY <1>1, InitIInv DEF AccountInv

\* Every step keeps AccountInv.
LEMMA AccountInvStep == AccountInv /\ [Next]_vars => AccountInv'
<1> SUFFICES ASSUME AccountInv, [Next]_vars PROVE AccountInv'
  OBVIOUS
<1>1. IInv'
  BY IInvStep DEF AccountInv
<1>2. Withdrawable'
  BY WithdrawableStep DEF AccountInv, IInv
<1> QED
  BY <1>1, <1>2 DEF AccountInv

\* The owner's account starts empty.
LEMMA InitAccount == Init => A!Init
<1> SUFFICES ASSUME Init PROVE A!Init
  OBVIOUS
<1>1. \A c \in Containers : Stage(c) = "new"
  BY DEF Init, Stage, NewInfo
<1>2. \A c \in Containers :
        invoice[c] # "settled" /\ row[c].paid = 0 /\ row[c].count = 0
  BY DEF Init, NewInfo
<1>3. [c \in Containers |-> Stage(c)] = [c \in Containers |-> "new"]
  BY <1>1
<1>4. [c \in Containers |-> invoice[c] = "settled"]
        = [c \in Containers |-> FALSE]
  BY <1>2, Zenon
<1>5. /\ [c \in Containers |-> row[c].paid] = [c \in Containers |-> 0]
      /\ [c \in Containers |-> row[c].count] = [c \in Containers |-> 0]
  BY <1>2
<1>6. charged = [c \in Containers |-> 0]
  BY DEF Init
<1> QED
  BY <1>3, <1>4, <1>5, <1>6 DEF A!Init

(* The theorems *)

\* The loops, the callbacks, the wallet and the crashes keep IInv.
THEOREM Inductive == Spec => []IInv
BY InitIInv, IInvStep, PTL DEF Spec

\* Type correctness of every reachable state.
THEOREM TypeCorrect == Spec => []TypeOK
<1>1. IInv => TypeOK
  BY DEF IInv
<1> QED
  BY Inductive, <1>1, PTL

\* Uptime is credited only for money that reached the parent's wallet, for any
\* number of containers, crashes, lost answers and retries.
THEOREM CreditIsBacked == Spec => []CreditBacked
<1>1. IInv => CreditBacked
  BY DEF IInv
<1> QED
  BY Inductive, <1>1, PTL

\* Each fault costs an owner at most one payment that is not credited.
THEOREM OverchargeIsBounded == Spec => []OverchargeBounded
<1>1. IInv => OverchargeBounded
  BY DEF IInv
<1> QED
  BY Inductive, <1>1, PTL

\* No container is credited more than one interval ahead of its uptime.
THEOREM PrepaidIsBounded == Spec => []PrepaidBound
<1>1. IInv => PrepaidBound
  BY DEF IInv
<1> QED
  BY Inductive, <1>1, PTL

\* No container runs, is charged, or is stored as deployed or paused before
\* its launch invoice was settled.
THEOREM OnlyPaidRuns == Spec => []RunsOnlyIfPaid
<1>1. IInv => RunsOnlyIfPaid
  BY DEF IInv
<1> QED
  BY Inductive, <1>1, PTL

\* Memory and sqlite agree outside docker commands.
THEOREM MemoryIsSaved == Spec => []MemoryMatchesDb
<1>1. IInv => MemoryMatchesDb
  BY DEF IInv
<1> QED
  BY Inductive, <1>1, PTL

\* Rows are never rolled back, and only unpaid expired launches are deleted.
THEOREM RowsAdvance == Spec => RowsOnlyAdvance
<1>1. IInv /\ [Next]_vars => IInv'
  BY IInvStep
<1>2. IInv /\ IInv' /\ [Next]_vars => [Advance]_vars
  BY AdvanceStep DEF IInv
<1>3. Spec => [][Advance]_vars
  BY Inductive, <1>2, PTL DEF Spec
<1> QED
  BY <1>3 DEF RowsOnlyAdvance, Advance

\* Outside docker commands what deployed containers pay for is up and paused
\* ones are down, also after a crash and startContainers' reconciliation.
THEOREM DockerFollows == Spec => []DockerMatchesState
<1>1. DockerInv => DockerMatchesState
  BY DEF DockerInv
<1> QED
  BY InitDockerInv, DockerInvStep, <1>1, PTL DEF Spec

\* The detailed loops implement the owner's account: every step, retry, crash
\* and reload is one of the account's steps or invisible to the owner.
THEOREM BillingImplementsAccount == Spec => ImplementsAccount
<1>1. AccountInv /\ [Next]_vars => [A!Next]_(A!vars)
  BY AccountStep DEF AccountInv
<1> QED
  BY <1>1, InitAccount, InitAccountInv, AccountInvStep, PTL
  DEF Spec, ImplementsAccount, A!Spec
=============================================================================
