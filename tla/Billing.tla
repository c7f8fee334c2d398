------------------------------- MODULE Billing -------------------------------
(***************************************************************************)
(* The life of the paid containers of one enclave: the charge, uptime and  *)
(* launch loops of AppServer (src/src/enclave/app-server.ts), the          *)
(* Container state machine (container.ts), the sqlite rows (modules/db.ts) *)
(* and, as the environment, docker and the NWC wallet.                     *)
(*                                                                         *)
(* The process is single-threaded: what runs between two awaits is one     *)
(* action.  A pc names the await a loop is parked at.  Money is counted in *)
(* charges: 1 is what one interval of the container costs                  *)
(* (getAmountMsat), and a remainder that buys no interval is not counted.  *)
(* What the process keeps only in memory is lost when it dies; rows,       *)
(* docker and the wallet survive.                                          *)
(***************************************************************************)
EXTENDS Integers, FiniteSets

CONSTANTS
  Containers,      \* the containers that can ever be launched
  None,            \* "no container"
  ChargeInterval,  \* CHARGE_INTERVAL, in ticks of uptimeMonitor
  Slots,           \* background updateBalance calls that can be in flight
  MaxUptime,       \* bound: uptimeCount of a container
  MaxTopUps,       \* bound: deposits on the wallet in a behaviour
  MaxFaults        \* bound: crashes, timeouts, failures, shutdowns

ASSUME IntervalAssumption == ChargeInterval \in Nat \ {0}
ASSUME NoneAssumption == None \notin Containers
ASSUME BoundAssumption ==
  MaxUptime \in Nat /\ MaxTopUps \in Nat /\ MaxFaults \in Nat

VARIABLES
  app,      \* "down", "booting", "loading" (startContainers), "running"
  off,      \* AppServer.off: shutdown() was called
  conts,    \* keys of AppServer.conts, without the builtin containers
  info,     \* cont.info of the containers in conts
  rows,     \* keys of the containers table
  row,      \* its records
  docker,   \* docker[c]: the container's compose project is up
  mon,      \* chargeMonitor: [pc, c, val, seen]
  load,     \* startContainers: [pc, c, val, todo]
  halt,     \* AppServer.shutdown: [pc, c, seen]
  refresh,  \* refresh[s]: a background updateBalance [st, c, val]
  invoice,  \* wallet: the launch invoice, "none", "pending" or "settled"
  overdue,  \* overdue[c]: the launch invoice's expires_at has passed
  funds,    \* wallet: balance of c
  charged,  \* wallet: payments of c to the parent that settled
  late,     \* wallet: pay requests of c that nobody waits for any more
  notes,    \* notifications of c's transactions still to be delivered
  topups, faults

process == <<app, off, conts, info>>
loops   == <<mon, load, halt, refresh>>
disk    == <<rows, row>>
wallet  == <<invoice, overdue, funds, charged, late, notes, topups>>
vars    == <<process, loops, disk, docker, wallet, faults>>

States == {"waiting", "deployed", "paused"}
Infos  == [state : States, count : Nat, paid : Nat, balance : Nat]

\* createContainerFromParams
NewInfo == [state |-> "waiting", count |-> 0, paid |-> 0, balance |-> 0]

MonIdle  == [pc |-> "idle", c |-> None, val |-> 0, seen |-> {}]
LoadIdle == [pc |-> "idle", c |-> None, val |-> 0, todo |-> {}]
HaltIdle == [pc |-> "idle", c |-> None, seen |-> {}]
FreeSlot == [st |-> "free", c |-> None, val |-> 0]

Init ==
  /\ app = "down" /\ off = FALSE
  /\ conts = {} /\ info = [c \in Containers |-> NewInfo]
  /\ rows = {}  /\ row  = [c \in Containers |-> NewInfo]
  /\ docker = [c \in Containers |-> FALSE]
  /\ mon = MonIdle /\ load = LoadIdle /\ halt = HaltIdle
  /\ refresh = [s \in Slots |-> FreeSlot]
  /\ invoice = [c \in Containers |-> "none"]
  /\ overdue = [c \in Containers |-> FALSE]
  /\ funds   = [c \in Containers |-> 0]
  /\ charged = [c \in Containers |-> 0]
  /\ late    = [c \in Containers |-> 0]
  /\ notes   = [c \in Containers |-> 0]
  /\ topups = 0 /\ faults = 0

Fault == faults < MaxFaults /\ faults' = faults + 1
-----------------------------------------------------------------------------
(* Process death: supervisord restarts the process, its memory is gone.    *)

Forget ==
  /\ app' = "down" /\ off' = FALSE /\ conts' = {}
  /\ info' = [c \in Containers |-> NewInfo]
  /\ mon' = MonIdle /\ load' = LoadIdle /\ halt' = HaltIdle
  /\ refresh' = [s \in Slots |-> FreeSlot]

\* Containers with a docker command in progress.
Changing == {p.c : p \in {q \in {mon, load, halt} : q.pc \in {"up", "down"}}}

\* The wallet may still handle the pay request the process was waiting for.
OrphanRequest ==
  \/ UNCHANGED late
  \/ mon.pc = "pay" /\ late' = [late EXCEPT ![mon.c] = @ + 1]

\* The process dies (an unhandled rejection ends Node, or it is killed); a
\* compose command that was running may have done its work or not.
Die ==
  /\ Forget
  /\ OrphanRequest
  /\ docker' \in {d \in [Containers -> BOOLEAN] :
                    \A c \in Containers \ Changing : d[c] = docker[c]}
  /\ UNCHANGED <<disk, invoice, overdue, funds, charged, notes, topups>>

Crash == app # "down" /\ Fault /\ Die

\* supervisord starts the process: startEnclave, start, startBuiltin
Start ==
  /\ app = "down" /\ app' = "booting"
  /\ UNCHANGED <<off, conts, info, loops, disk, docker, wallet, faults>>
-----------------------------------------------------------------------------
(* startContainers                                                         *)

LoadAt(pc, val) ==
  load' = [pc |-> pc, c |-> load.c, val |-> val, todo |-> load.todo]
LoadNext == load' = [LoadIdle EXCEPT !.todo = load.todo]

\* setContainerAppInfo: the builtin wallet reports its pubkey
WalletReady ==
  /\ app = "booting" /\ app' = "loading"
  /\ load' = [LoadIdle EXCEPT !.todo = rows]
  /\ UNCHANGED <<off, conts, info, mon, halt, refresh, disk, docker, wallet,
                 faults>>

\* The next row becomes a Container; ensureWallet swallows its errors.
LoadRow(c) ==
  /\ app = "loading" /\ load.pc = "idle" /\ c \in load.todo
  /\ conts' = conts \cup {c}
  /\ info' = [info EXCEPT ![c] = row[c]]
  /\ load' = [pc |-> "ask", c |-> c, val |-> 0, todo |-> load.todo \ {c}]
  /\ UNCHANGED <<app, off, mon, halt, refresh, disk, docker, wallet, faults>>

\* the wallet reads the balance for getBalance
LoadAnswer ==
  /\ load.pc = "ask" /\ LoadAt("told", funds[load.c])
  /\ UNCHANGED <<process, mon, halt, refresh, disk, docker, wallet, faults>>

\* Mutation: startContainers trusts docker to be as the row says.
ChangeState_Trusting(s) == LoadNext

\* changeState of a Container that has no state yet
ChangeState(s) ==
  \/ s = "deployed" /\ LoadAt("up", 0)
  \/ s = "paused" /\ LoadAt("down", 0)
  \/ s = "waiting" /\ LoadNext

\* updateBalance, then changeState(info.state)
LoadTold ==
  LET c == load.c IN
  /\ load.pc = "told"
  /\ info' = [info EXCEPT ![c].balance = load.val]
  /\ row'  = [row  EXCEPT ![c].balance = load.val]
  /\ ChangeState(info[c].state)
  /\ UNCHANGED <<app, off, conts, mon, halt, refresh, rows, docker, wallet,
                 faults>>

LoadCompose ==
  /\ load.pc \in {"up", "down"} /\ LoadNext
  /\ docker' = [docker EXCEPT ![load.c] = (load.pc = "up")]
  /\ UNCHANGED <<process, mon, halt, refresh, disk, wallet, faults>>

\* Nothing catches a failing updateBalance, up or down.
LoadFails == load.pc # "idle" /\ Fault /\ Die

LoadDone ==
  /\ app = "loading" /\ load.pc = "idle" /\ load.todo = {}
  /\ app' = "running"
  /\ UNCHANGED <<off, conts, info, loops, disk, docker, wallet, faults>>
-----------------------------------------------------------------------------
(* launch: the segment that publishes the container (see module Launch)    *)

Launch(c) ==
  /\ app \in {"loading", "running"} /\ invoice[c] = "none"
  /\ invoice' = [invoice EXCEPT ![c] = "pending"]
  /\ rows' = rows \cup {c}   /\ row'  = [row  EXCEPT ![c] = NewInfo]
  /\ conts' = conts \cup {c} /\ info' = [info EXCEPT ![c] = NewInfo]
  /\ UNCHANGED <<app, off, loops, docker, overdue, funds, charged, late, notes,
                 topups, faults>>
-----------------------------------------------------------------------------
(* uptimeMonitor                                                           *)

Deployed == {c \in conts : info[c].state = "deployed"}

Tick ==
  /\ app # "down" /\ ~off /\ Deployed # {}
  /\ \A c \in Deployed : info[c].count < MaxUptime
  /\ info' = [c \in Containers |->
                IF c \in Deployed THEN [info[c] EXCEPT !.count = @ + 1]
                                  ELSE info[c]]
  /\ row'  = [c \in Containers |->
                IF c \in Deployed THEN [row[c] EXCEPT !.count = info'[c].count]
                                  ELSE row[c]]
  /\ UNCHANGED <<app, off, conts, loops, rows, docker, wallet, faults>>
-----------------------------------------------------------------------------
(* chargeMonitor                                                           *)

MonAt(pc, c) == mon' = [pc |-> pc, c |-> c, val |-> 0, seen |-> mon.seen]
OnlyMon == UNCHANGED <<process, load, halt, refresh, disk, docker, wallet,
                       faults>>
MonNext(c) == mon' = [pc |-> "idle", c |-> None, val |-> 0,
                      seen |-> mon.seen \cup {c}]

\* Mutation: charge an interval before the paid one runs out.
Unpaid_Early(i) == i.paid <= i.count + ChargeInterval
Unpaid(i) == i.paid <= i.count
HasEnoughBalance(i) == 1 <= i.balance

\* Mutation: the payment is not recorded.
Extend_Forgotten(i) == i

\* charge: the container is paid for one more interval
Extend(i) == [i EXCEPT !.paid = @ + ChargeInterval]

\* setState: info.state changes first, then docker is awaited (up, down).
Deploying(c, i) ==
  /\ info' = [info EXCEPT ![c] = [i EXCEPT !.state = "deployed"]]
  /\ MonAt("up", c)
Pausing(c, i) ==
  /\ info' = [info EXCEPT ![c] = [i EXCEPT !.state = "paused"]]
  /\ MonAt("down", c)

\* Mutation: the result of charge is ignored.
AfterCharge_Ignored(c, i, ok) ==
  info' = [info EXCEPT ![c] = i] /\ MonNext(c)

\* What chargeMonitor does with the result of charge; i is the updated info.
\* A container already in the right state is left alone.
AfterCharge(c, i, ok) ==
  \/ /\ ok = (i.state = "deployed")
     /\ info' = [info EXCEPT ![c] = i] /\ MonNext(c)
  \/ ok /\ i.state # "deployed" /\ Deploying(c, i)
  \/ ~ok /\ i.state = "deployed" /\ Pausing(c, i)

\* One step of the for loop over conts, up to its first await.
Visit(c) ==
  LET i == info[c] IN
  /\ app = "running" /\ mon.pc = "idle" /\ c \in conts \ mon.seen
  /\ off => mon.seen # {}
  /\ \/ /\ \/ i.state = "deployed" /\ Unpaid(i)
           \/ i.state = "paused" /\ Unpaid(i) /\ HasEnoughBalance(i)
        /\ MonAt("invoice", c) /\ UNCHANGED info
     \/ i.state = "paused" /\ ~Unpaid(i) /\ Deploying(c, i)
     \/ i.state = "waiting" /\ MonAt("lookup", c) /\ UNCHANGED info
     \/ /\ \/ i.state = "deployed" /\ ~Unpaid(i)
           \/ i.state = "paused" /\ Unpaid(i) /\ ~HasEnoughBalance(i)
        /\ MonNext(c) /\ UNCHANGED info
  /\ UNCHANGED <<app, off, conts, load, halt, refresh, disk, docker, wallet,
                 faults>>

\* The pass is over: sleep a second and start another, unless off by then.
PassDone ==
  /\ app = "running" /\ mon.pc = "idle"
  /\ conts \subseteq mon.seen \/ (off /\ mon.seen = {})
  /\ mon' = (IF off THEN [MonIdle EXCEPT !.pc = "stopped"] ELSE MonIdle)
  /\ OnlyMon

\* parent.makeInvoice
InvoiceMade ==
  /\ mon.pc = "invoice" /\ MonAt("pay", mon.c) /\ OnlyMon

\* The wallet handles container.payInvoice.
Settle(c) ==
  /\ funds[c] >= 1
  /\ funds' = [funds EXCEPT ![c] = @ - 1]
  /\ charged' = [charged EXCEPT ![c] = @ + 1]
  /\ notes' = [notes EXCEPT ![c] = @ + 1]
WalletPays ==
  /\ mon.pc = "pay" /\ Settle(mon.c) /\ MonAt("paid", mon.c)
  /\ UNCHANGED <<process, load, halt, refresh, disk, docker, invoice, overdue,
                 late, topups, faults>>
WalletRefuses ==
  /\ mon.pc = "pay" /\ funds[mon.c] = 0 /\ MonAt("broke", mon.c) /\ OnlyMon

\* A request the client gave up on reaches the wallet after all.
WalletPaysLate(c) ==
  /\ late[c] > 0 /\ late' = [late EXCEPT ![c] = @ - 1]
  /\ Settle(c) \/ (funds[c] = 0 /\ UNCHANGED <<funds, charged, notes>>)
  /\ UNCHANGED <<process, loops, disk, docker, invoice, overdue, topups,
                 faults>>

\* updateBalance is called and not awaited.
Spawn(c) ==
  \E s \in Slots : /\ refresh[s].st = "free"
                   /\ refresh' = [refresh EXCEPT ![s] = [st |-> "asked",
                                                         c |-> c, val |-> 0]]

\* The payment is confirmed: extend, refresh the balance, loop or leave.
PayReply ==
  LET c == mon.c
      i == Extend(info[c]) IN
  /\ mon.pc = "paid"
  /\ row' = [row EXCEPT ![c].paid = i.paid]
  /\ Spawn(c)
  /\ \/ Unpaid(i) /\ info' = [info EXCEPT ![c] = i] /\ MonAt("invoice", c)
     \/ ~Unpaid(i) /\ AfterCharge(c, i, TRUE)
  /\ UNCHANGED <<app, off, conts, load, halt, rows, docker, wallet, faults>>

\* Mutation: an error of the wallet passes for a result.
BrokeReply_AsPaid ==
  mon.pc = "broke" /\ MonAt("paid", mon.c) /\ OnlyMon

\* INSUFFICIENT_BALANCE: the balance is read before charge returns false.
BrokeReply ==
  /\ mon.pc = "broke" /\ MonAt("ask", mon.c) /\ OnlyMon
MonAnswer ==
  /\ mon.pc = "ask" /\ OnlyMon
  /\ mon' = [mon EXCEPT !.pc = "told", !.val = funds[mon.c]]
MonTold ==
  LET c == mon.c IN
  /\ mon.pc = "told"
  /\ row' = [row EXCEPT ![c].balance = mon.val]
  /\ AfterCharge(c, [info[c] EXCEPT !.balance = mon.val], FALSE)
  /\ UNCHANGED <<app, off, conts, load, halt, refresh, rows, docker, wallet,
                 faults>>

\* makeInvoice or payInvoice ends in any other error: wait a second.
ChargeFails ==
  /\ mon.pc \in {"invoice", "pay", "paid", "broke"} /\ Fault
  /\ MonAt("backoff", mon.c) /\ OrphanRequest
  /\ UNCHANGED <<process, load, halt, refresh, disk, docker, invoice, overdue,
                 funds, charged, notes, topups>>
\* ... and start over with a new invoice: only charge raises uptimePaid.
Retry ==
  /\ mon.pc = "backoff" /\ MonAt("invoice", mon.c) /\ OnlyMon

\* checkWaitingPayment: the wallet reads the invoice, the answer comes later.
LookupAnswer ==
  /\ mon.pc = "lookup"
  /\ MonAt(invoice[mon.c], mon.c) /\ OnlyMon
LookupFails ==
  /\ mon.pc \in {"lookup", "settled", "pending"} /\ Fault /\ MonNext(mon.c)
  /\ UNCHANGED <<process, load, halt, refresh, disk, docker, wallet>>

\* Mutations: any invoice that exists deploys; a settled one changes nothing.
LookupSettled_AnyState ==
  /\ mon.pc \in {"settled", "pending"} /\ Deploying(mon.c, info[mon.c])
  /\ UNCHANGED <<app, off, conts, load, halt, refresh, disk, docker, wallet,
                 faults>>
LookupSettled_Ignored == mon.pc = "settled" /\ MonNext(mon.c) /\ OnlyMon
LookupSettled ==
  /\ mon.pc = "settled" /\ Deploying(mon.c, info[mon.c])
  /\ UNCHANGED <<app, off, conts, load, halt, refresh, disk, docker, wallet,
                 faults>>

\* Mutations: the expiry is not checked; an expired launch is kept.
Expired_Always(c) == TRUE
Expired_Never(c) == FALSE
Expired(c) == overdue[c]
LookupPending ==
  LET c == mon.c IN
  /\ mon.pc = "pending" /\ MonNext(c)
  /\ IF Expired(c) THEN conts' = conts \ {c} /\ rows' = rows \ {c}
                   ELSE UNCHANGED <<conts, rows>>
  /\ UNCHANGED <<app, off, info, load, halt, refresh, row, docker, wallet,
                 faults>>

\* Mutation: the new state stays in memory.
SaveState_Forgotten(c) == UNCHANGED row
SaveState(c) == row' = [row EXCEPT ![c].state = info[c].state]

\* docker is done: only now the state is written to the db.
ComposeDone ==
  LET c == mon.c IN
  /\ mon.pc \in {"up", "down"} /\ MonNext(c)
  /\ docker' = [docker EXCEPT ![c] = (mon.pc = "up")]
  /\ SaveState(c)
  /\ UNCHANGED <<process, load, halt, refresh, rows, wallet, faults>>

\* Nothing catches a failing up, down, or balance read of the charge loop.
MonDies == mon.pc \in {"up", "down", "ask", "told"} /\ Fault /\ Die
-----------------------------------------------------------------------------
(* Background updateBalance                                                *)

\* onWalletTx, for every transaction of c
Notify(c) ==
  /\ notes[c] > 0 /\ notes' = [notes EXCEPT ![c] = @ - 1]
  /\ IF c \in conts THEN Spawn(c) ELSE UNCHANGED refresh
  /\ UNCHANGED <<process, mon, load, halt, disk, docker, invoice, overdue,
                 funds, charged, late, topups, faults>>
NotifyLost(c) ==
  /\ notes[c] > 0 /\ Fault /\ notes' = [notes EXCEPT ![c] = @ - 1]
  /\ UNCHANGED <<process, loops, disk, docker, invoice, overdue, funds,
                 charged, late, topups>>
RefreshAnswer(s) ==
  /\ refresh[s].st = "asked"
  /\ refresh' = [refresh EXCEPT ![s].st = "told",
                               ![s].val = funds[refresh[s].c]]
  /\ UNCHANGED <<process, mon, load, halt, disk, docker, wallet, faults>>
RefreshTold(s) ==
  LET c == refresh[s].c
      known == refresh[s].val = info[c].balance IN
  /\ refresh[s].st = "told"
  /\ known \/ c \in rows
  /\ refresh' = [refresh EXCEPT ![s] = FreeSlot]
  /\ info' = [info EXCEPT ![c].balance = refresh[s].val]
  /\ row' = IF known THEN row ELSE [row EXCEPT ![c].balance = refresh[s].val]
  /\ UNCHANGED <<app, off, conts, mon, load, halt, rows, docker, wallet,
                 faults>>
\* setContainerBalance throws: the row was deleted while the balance was read.
RefreshOrphan(s) ==
  /\ refresh[s].st = "told" /\ refresh[s].c \notin rows
  /\ refresh[s].val # info[refresh[s].c].balance
  /\ faults' = faults + 1 /\ Die
\* getBalance fails and nobody awaits the promise.
RefreshFails(s) == refresh[s].st # "free" /\ Fault /\ Die
-----------------------------------------------------------------------------
(* Shutdown                                                                *)

Shutdown ==
  /\ app # "down" /\ ~off /\ Fault /\ off' = TRUE
  /\ UNCHANGED <<app, conts, info, loops, disk, docker, wallet>>
HaltNext(c) == halt' = [pc |-> "idle", c |-> None, seen |-> halt.seen \cup {c}]
HaltVisit(c) ==
  /\ off /\ halt.pc = "idle" /\ c \in conts \ halt.seen
  /\ IF info[c].state = "deployed"
       THEN halt' = [pc |-> "down", c |-> c, seen |-> halt.seen] ELSE HaltNext(c)
  /\ UNCHANGED <<process, mon, load, refresh, disk, docker, wallet, faults>>
HaltDown ==
  /\ halt.pc = "down" /\ HaltNext(halt.c)
  /\ docker' = [docker EXCEPT ![halt.c] = FALSE]
  /\ UNCHANGED <<process, mon, load, refresh, disk, wallet, faults>>
\* The loop is done, or a down failed and was caught: supervisord ends every
\* process; the next boot of the enclave starts with no container running.
PowerOff ==
  /\ off
  /\ \/ halt.pc = "idle" /\ conts \subseteq halt.seen
     \/ halt.pc = "down"
  /\ Forget /\ OrphanRequest
  /\ faults' = faults + 1
  /\ docker' = [c \in Containers |-> FALSE]
  /\ UNCHANGED <<disk, invoice, overdue, funds, charged, notes, topups>>
-----------------------------------------------------------------------------
(* The outside world                                                       *)

PayLaunch(c) ==
  /\ invoice[c] = "pending" /\ ~overdue[c]
  /\ invoice' = [invoice EXCEPT ![c] = "settled"]
  /\ funds' = [funds EXCEPT ![c] = @ + 1]
  /\ notes' = [notes EXCEPT ![c] = @ + 1]
  /\ UNCHANGED <<process, loops, disk, docker, overdue, charged, late, topups,
                 faults>>
Expire(c) ==
  /\ invoice[c] # "none" /\ ~overdue[c]
  /\ overdue' = [overdue EXCEPT ![c] = TRUE]
  /\ UNCHANGED <<process, loops, disk, docker, invoice, funds, charged, late,
                 notes, topups, faults>>
\* A deposit that buys one interval, or too little for one.
TopUp(c) ==
  /\ invoice[c] # "none" /\ topups < MaxTopUps /\ topups' = topups + 1
  /\ \E v \in {0, 1} : funds' = [funds EXCEPT ![c] = @ + v]
  /\ notes' = [notes EXCEPT ![c] = @ + 1]
  /\ UNCHANGED <<process, loops, disk, docker, invoice, overdue, charged, late,
                 faults>>
-----------------------------------------------------------------------------
Boot    == Start \/ WalletReady
Loading == \/ \E c \in Containers : LoadRow(c)
           \/ LoadAnswer \/ LoadTold \/ LoadCompose \/ LoadDone
Charging == \/ \E c \in Containers : Visit(c)
            \/ PassDone \/ InvoiceMade \/ WalletPays \/ WalletRefuses
            \/ PayReply \/ BrokeReply \/ MonAnswer \/ MonTold \/ Retry
            \/ LookupAnswer \/ LookupSettled \/ LookupPending \/ ComposeDone
Refreshing(s) == RefreshAnswer(s) \/ RefreshTold(s) \/ RefreshOrphan(s)
Halting == (\E c \in Containers : HaltVisit(c)) \/ HaltDown \/ PowerOff
Faults  == \/ Crash \/ LoadFails \/ ChargeFails \/ LookupFails \/ MonDies
           \/ \E c \in Containers : NotifyLost(c)
           \/ \E s \in Slots : RefreshFails(s)
Outside == \E c \in Containers : PayLaunch(c) \/ Expire(c) \/ TopUp(c)

Next == \/ Boot \/ Loading \/ Charging \/ Halting \/ Faults \/ Outside
        \/ Tick \/ Shutdown
        \/ \E c \in Containers : Launch(c) \/ WalletPaysLate(c) \/ Notify(c)
        \/ \E s \in Slots : Refreshing(s)

Spec == Init /\ [][Next]_vars

(* Fairness: the event loop runs every timer and callback that is due, the *)
(* wallet and docker answer, supervisord restarts the process.  Nothing is *)
(* promised about payers, faults, launches or shutdowns.                   *)
Fairness ==
  /\ WF_vars(Boot) /\ WF_vars(Loading) /\ WF_vars(Charging)
  /\ WF_vars(Halting)
  /\ \A c \in Containers : WF_vars(Notify(c)) /\ WF_vars(WalletPaysLate(c))
  /\ \A s \in Slots : WF_vars(Refreshing(s))
FairSpec == Spec /\ Fairness
-----------------------------------------------------------------------------
(* Type invariant                                                          *)

MonPcs == {"idle", "invoice", "pay", "paid", "broke", "ask", "told", "backoff",
           "lookup", "settled", "pending", "up", "down", "stopped"}
LoadPcs == {"idle", "ask", "told", "up", "down"}
MaybeContainer == Containers \cup {None}

Mons  == [pc : MonPcs, c : MaybeContainer, val : Nat, seen : SUBSET Containers]
Loads == [pc : LoadPcs, c : MaybeContainer, val : Nat, todo : SUBSET Containers]
Halts == [pc : {"idle", "down"}, c : MaybeContainer, seen : SUBSET Containers]
Refreshes == [st : {"free", "asked", "told"}, c : MaybeContainer, val : Nat]

TypeOK ==
  /\ app \in {"down", "booting", "loading", "running"} /\ off \in BOOLEAN
  /\ conts \subseteq Containers /\ info \in [Containers -> Infos]
  /\ rows \subseteq Containers /\ row \in [Containers -> Infos]
  /\ docker \in [Containers -> BOOLEAN]
  /\ mon \in Mons /\ load \in Loads /\ halt \in Halts
  /\ refresh \in [Slots -> Refreshes]
  /\ invoice \in [Containers -> {"none", "pending", "settled"}]
  /\ overdue \in [Containers -> BOOLEAN]
  /\ funds \in [Containers -> Nat] /\ charged \in [Containers -> Nat]
  /\ late \in [Containers -> Nat] /\ notes \in [Containers -> Nat]
  /\ topups \in Nat /\ faults \in Nat

(* Safety *)

\* A payment of c that settled and whose confirmation is on its way.
Confirming(c) == IF mon.pc = "paid" /\ mon.c = c THEN 1 ELSE 0

\* Uptime is credited only for money that reached the parent's wallet: a row
\* never records more paid time than charge() really collected, whatever
\* crashes and timeouts come between the payment and the write (402-411).
CreditBacked ==
  \A c \in rows :
    row[c].paid + ChargeInterval * Confirming(c) <= ChargeInterval * charged[c]

\* charge() retries with a fresh invoice after any error, so an owner can pay
\* an interval twice; but each crash, restart or lost answer costs at most
\* one payment: what settled beyond the credit, the answer in flight and the
\* requests nobody waits for are bounded by the faults that happened.
OverchargeBounded ==
  \A c \in rows :
    ChargeInterval * (charged[c] + late[c])
      <= row[c].paid + ChargeInterval * (Confirming(c) + faults)

\* charge() runs only while unpaid, so a container is never credited more
\* than one interval ahead of the time it ran, across retries and restarts.
PrepaidBound == \A c \in rows : row[c].paid <= row[c].count + ChargeInterval

\* No container runs, and none is charged or stored as deployed or paused,
\* unless its launch invoice was settled.
RunsOnlyIfPaid ==
  \A c \in Containers :
    docker[c] \/ charged[c] > 0 \/ (c \in rows /\ row[c].state # "waiting")
      => invoice[c] = "settled"

\* Every setter of AppServer writes memory and sqlite alike: outside a docker
\* command the two records of a live container are equal, so a crash at an
\* await loses nothing but the step that was in progress.
MemoryMatchesDb ==
  /\ conts \subseteq rows
  /\ \A c \in conts :
       /\ info[c].count = row[c].count /\ info[c].paid = row[c].paid
       /\ info[c].balance = row[c].balance
       /\ \/ info[c].state = row[c].state
          \/ mon.c = c /\ mon.pc \in {"up", "down"}

\* Outside docker commands the compose projects agree with the states in
\* memory: what deployed containers pay for is up, and paused ones are down,
\* also after startContainers reconciled what a crash left behind.
DockerMatchesState ==
  ~off => \A c \in conts \ (Changing \cup {load.c}) :
            /\ info[c].state = "deployed" => docker[c]
            /\ info[c].state = "paused" => ~docker[c]

(* The inductive invariant behind the safety properties *)

\* A loop that is parked at an await works for a container it can see, and
\* startContainers and chargeMonitor never run at the same time.
Parked ==
  /\ mon.pc \notin {"idle", "stopped"} => mon.c \in conts /\ app = "running"
  /\ load.pc # "idle" => load.c \in conts /\ app = "loading"
  /\ halt.pc # "idle" => halt.c \in Containers
  /\ \A s \in Slots : refresh[s].st # "free" => refresh[s].c \in Containers
  /\ app = "loading" => load.todo \subseteq rows

\* What chargeMonitor knows about its container stays true across its awaits.
Remembered ==
  LET i == info[mon.c] IN
  /\ mon.pc \in {"invoice", "pay", "paid", "broke", "ask", "told", "backoff"}
       => i.state # "waiting" /\ Unpaid(i)
  /\ mon.pc \in {"lookup", "settled", "pending"} => i.state = "waiting"
  /\ mon.pc = "settled" => invoice[mon.c] = "settled"
  /\ mon.pc = "up" => i.state = "deployed"
  /\ mon.pc = "down" => i.state = "paused" /\ row[mon.c].state # "waiting"

\* Whatever can end in a charge or a running container was paid for.
Ordered ==
  /\ \A c \in Containers :
       \/ late[c] > 0
       \/ c \in conts /\ info[c].state # "waiting"
       \/ load.pc \in {"up", "down"} /\ load.c = c
       \/ halt.pc # "idle" /\ halt.c = c
       => invoice[c] = "settled"
  /\ \A c \in rows \cup conts : invoice[c] # "none"

\* What docker is told follows what memory says: startContainers reconciles the
\* container it loads, and only a shutdown brings containers down on its own.
Reconciling ==
  /\ load.pc = "idle" => load.c = None
  /\ load.pc = "up" => info[load.c].state = "deployed"
  /\ load.pc = "down" => info[load.c].state = "paused"
  /\ halt.pc # "idle" => off

IInv ==
  /\ TypeOK /\ Parked /\ MemoryMatchesDb /\ Remembered
  /\ Ordered /\ RunsOnlyIfPaid
  /\ CreditBacked /\ OverchargeBounded /\ PrepaidBound

DockerInv == IInv /\ Reconciling /\ DockerMatchesState

(* Action properties *)

\* The states a row goes through: a launched container is deployed or removed,
\* a deployed one is only ever paused and resumed; uptime and paid time of a
\* container never decrease, not even across a crash and a reload.
RowsOnlyAdvance ==
  [][\A c \in rows :
       IF c \in rows'
         THEN /\ row'[c].count >= row[c].count /\ row'[c].paid >= row[c].paid
              /\ row'[c].state = "waiting" => row[c].state = "waiting"
              /\ row'[c].state = "paused" => row[c].state # "waiting"
         ELSE row[c].state = "waiting" /\ overdue[c]]_vars

(* Liveness *)

\* A deployed container that owes an interval does not stay so: it is
\* charged or paused, whatever the other containers' charges meet.
DebtIsResolved ==
  \A c \in Containers :
    (c \in Deployed /\ Unpaid(info[c]))
      ~> ~(c \in Deployed /\ Unpaid(info[c]))

\* Once the launch invoice is settled the container is deployed, unless its
\* row is gone.
PaidIsDeployed ==
  \A c \in Containers :
    (c \in rows /\ invoice[c] = "settled")
      ~> (c \notin rows \/ row[c].state # "waiting")

\* A launch that is never paid gives its ports and units back.
UnpaidIsRemoved ==
  \A c \in Containers :
    (c \in rows /\ overdue[c]) ~> (c \notin rows \/ invoice[c] = "settled")

(* What the code's words promise and the code does not keep *)

\* app-server.ts:361-362 "check the launch invoice, if ok - deploy, if expired
\* - the container will be removed": a container that was paid is not deleted.
PaidIsNotRemoved ==
  \A c \in Containers : invoice[c] = "settled" => c \in rows

\* app-server.ts:90-92 "from now on we'll be subscribed to balance events and
\* will keep it updated": a paused container whose wallet can pay does not
\* stay paused because the process remembers an older balance.
TopUpResumes ==
  \A c \in Containers :
    (c \in conts /\ info[c].state = "paused" /\ funds[c] >= 1)
      ~> ~(c \in conts /\ info[c].state = "paused" /\ funds[c] >= 1)
=============================================================================
