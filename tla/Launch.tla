-------------------------------- MODULE Launch --------------------------------
(***************************************************************************)
(* Launch requests: EnclavedServer.process and AppServer.launch, with what *)
(* becomes of the launched containers as far as it frees or needs units,   *)
(* ports and rows (src/src/enclave/app-server.ts, modules/enclaved.ts,     *)
(* modules/db.ts).                                                         *)
(*                                                                         *)
(* launch awaits the image registry and the wallet between checking the    *)
(* free units, choosing the ports and publishing the container, and        *)
(* several requests are processed at a time.  Ports are counted in ranges  *)
(* of PORTS_PER_CONTAINER from MIN_PORTS_FROM.                             *)
(*                                                                         *)
(* Of chargeMonitor the module has the part for waiting containers: it     *)
(* awaits the wallet's word on the launch invoice and then docker's up.    *)
(* Charging and pausing are module Billing.                                *)
(*                                                                         *)
(* params.units is whatever JSON value the sender gave: a positive integer *)
(* or a member of Odd.                                                     *)
(***************************************************************************)
EXTENDS Integers, FiniteSets, FiniteSetsExt

CONSTANTS
  Requests,    \* launch events that users send
  Keys,        \* container keys generateSecretKey can return
  Names,       \* container names users ask for
  NameOf,      \* NameOf[r]: params.name, or Unnamed
  UnitsOf,     \* UnitsOf[r]: params.units
  Odd,         \* what parseInt lets through and is no positive integer: strings,
               \* fractions, negative numbers
  AsInteger,   \* AsInteger[u]: what the INTEGER column makes of such a value
  Unnamed, NoKey,
  TotalUnits,  \* TOTAL_UNITS
  MaxUnits,    \* what docker's up accepts for one container
  MaxCrashes   \* bound: crashes in a behaviour

ASSUME NameAssumption ==
  Unnamed \notin Names /\ NameOf \in [Requests -> Names \cup {Unnamed}]
ASSUME KeyAssumption ==
  /\ IsFiniteSet(Keys) /\ Keys # {}
  /\ NoKey \notin Keys /\ Names \cap Keys = {}
ASSUME UnitAssumption ==
  /\ Odd \cap Nat = {} /\ UnitsOf \in [Requests -> (Nat \ {0}) \cup Odd]
  /\ AsInteger \in [Odd -> Nat \cup Odd]
  /\ \A u \in Odd : AsInteger[u] \in Odd => AsInteger[AsInteger[u]] = AsInteger[u]
  /\ TotalUnits \in Nat /\ MaxUnits \in Nat /\ MaxCrashes \in Nat

VARIABLES
  app,      \* "down", "booting", "loading" (startContainers), "running"
  done,     \* EnclavedServer.done: events already handled
  call,     \* launch of r: [pc, key, port, alone]
  loop,     \* chargeMonitor at a waiting container: [pc, key, paid]
  conts,    \* keys of AppServer.conts
  info,     \* their info: [port, units, name, state]
  rows,     \* names of the stored containers
  row,      \* their records: info and the key
  todo,     \* records startContainers has read and not yet loaded
  invoice,  \* wallet: the launch invoice made for a key
  overdue,  \* overdue[k]: its expires_at has passed
  quotes,   \* keys the sender of r was told to pay for
  made,     \* keys made for r since the process started
  alone,    \* alone[k]: nothing raced with the launch of k
  late,     \* late[k]: the name of k had a row already
  crashes

memory == <<app, done, call, loop, conts, info, todo, made>>
stored == <<rows, row>>
wallet == <<invoice, overdue>>
history == <<quotes, alone, late>>
vars == <<memory, stored, wallet, history, crashes>>

RowNames == Names \cup Keys
Ports  == 0..(Cardinality(Keys) - 1)
States == {"waiting", "deployed"}
NoCall == [pc |-> "idle", key |-> NoKey, port |-> 0, alone |-> FALSE]
NoLook == [pc |-> "idle", key |-> NoKey, paid |-> FALSE]
NoInfo == [port |-> 0, units |-> 0, name |-> Unnamed, state |-> "waiting"]
NoRow  == [key |-> NoKey, info |-> NoInfo]

Init ==
  /\ app = "down" /\ done = {} /\ call = [r \in Requests |-> NoCall]
  /\ loop = NoLook
  /\ conts = {} /\ info = [k \in Keys |-> NoInfo]
  /\ rows = {} /\ row = [n \in RowNames |-> NoRow] /\ todo = {}
  /\ invoice = [k \in Keys |-> "none"] /\ overdue = [k \in Keys |-> FALSE]
  /\ quotes = [r \in Requests |-> {}] /\ made = [r \in Requests |-> {}]
  /\ alone = [k \in Keys |-> FALSE] /\ late = [k \in Keys |-> FALSE] /\ crashes = 0
-----------------------------------------------------------------------------
(* The life of the process                                                 *)

Die ==
  /\ app' = "down" /\ done' = {} /\ call' = [r \in Requests |-> NoCall]
  /\ loop' = NoLook
  /\ conts' = {} /\ info' = [k \in Keys |-> NoInfo] /\ todo' = {}
  /\ made' = [r \in Requests |-> {}]

Crash ==
  /\ app # "down" /\ crashes < MaxCrashes /\ crashes' = crashes + 1 /\ Die
  /\ UNCHANGED <<stored, wallet, history>>

Start ==
  /\ app = "down" /\ app' = "booting"
  /\ UNCHANGED <<done, call, loop, conts, info, stored, todo, wallet, made,
                 history, crashes>>

\* startContainers: from here on launches are accepted.
WalletReady ==
  /\ app = "booting" /\ app' = "loading" /\ todo' = {row[n] : n \in rows}
  /\ UNCHANGED <<done, call, loop, conts, info, stored, wallet, made, history,
                 crashes>>

\* One turn of its loop over the rows read at the start; each turn awaits the
\* wallet and docker.
LoadRow(x) ==
  /\ app = "loading" /\ x \in todo /\ todo' = todo \ {x}
  /\ conts' = conts \cup {x.key} /\ info' = [info EXCEPT ![x.key] = x.info]
  /\ UNCHANGED <<app, done, call, loop, stored, wallet, made, history, crashes>>

LoadDone ==
  /\ app = "loading" /\ todo = {} /\ app' = "running"
  /\ UNCHANGED <<done, call, loop, conts, info, stored, todo, wallet, made,
                 history, crashes>>
-----------------------------------------------------------------------------
(* launch                                                                  *)

InFlight == {r \in Requests : call[r].pc # "idle"}
Amount(u) == IF u \in Odd THEN 0 ELSE u
UsedUnits(C) == SumFunctionOnSet([k \in Keys |-> Amount(info[k].units)], C)
NoLaunch ==
  UNCHANGED <<loop, conts, info, stored, wallet, made, history>>
End(r) == call' = [call EXCEPT ![r] = NoCall]

\* Mutation: an event that was handled is handled again.
New_Always(r) == TRUE
New(r) == r \notin done

\* The sum of the units is a sum only without Odd values: + appends a string,
\* and what is no number is never > TOTAL_UNITS.
Adds(r) == UnitsOf[r] \notin Odd /\ \A k \in conts : info[k].units \notin Odd

\* Mutation: a launch takes what is left, however little.
EnoughUnits_Any(r) == UsedUnits(conts) < TotalUnits
EnoughUnits(r) == UsedUnits(conts) + UnitsOf[r] <= TotalUnits

\* process and launch up to the request to the registry; any event may be
\* delivered again.  A launch is alone when no other one is under way and no
\* row is waiting to be loaded.
Receive(r) ==
  /\ app # "down" /\ New(r) /\ done' = done \cup {r}
  /\ \/ /\ app # "booting"
        /\ Adds(r) => EnoughUnits(r)
        /\ call' = [call EXCEPT ![r] =
             [pc |-> "image", key |-> NoKey, port |-> 0,
              alone |-> InFlight = {} /\ todo = {}]]
     \/ /\ app = "booting" \/ (Adds(r) => ~EnoughUnits(r))
        /\ UNCHANGED call
  /\ UNCHANGED <<app, todo, crashes>> /\ NoLaunch

\* the image cannot be fetched, or needs more units
ImageFails(r) ==
  /\ call[r].pc = "image" /\ End(r)
  /\ UNCHANGED <<app, done, todo, crashes>> /\ NoLaunch

UsedPorts == {info[k].port : k \in conts}

\* Mutations: the ranges are handed out by the number of containers, or of
\* their units.
FreePort_Count == Cardinality(conts)
FreePort_Units == UsedUnits(conts)
\* find unused range
FreePort == Min(Ports \ UsedPorts)

Fresh(k) == invoice[k] = "none" /\ \A r \in Requests : call[r].key # k

\* createContainerFromParams
ImageFetched(r, k) ==
  /\ call[r].pc = "image" /\ Fresh(k)
  /\ call' = [call EXCEPT ![r] =
       [pc |-> "invoice", key |-> k, port |-> FreePort, alone |-> @.alone]]
  /\ UNCHANGED <<app, done, todo, crashes>> /\ NoLaunch

InvoiceFails(r) ==
  /\ call[r].pc = "invoice" /\ End(r)
  /\ UNCHANGED <<app, done, todo, crashes>> /\ NoLaunch

NewInfo(r) ==
  [port |-> call[r].port, units |-> UnitsOf[r], state |-> "waiting",
   name |-> IF NameOf[r] = Unnamed THEN call[r].key ELSE NameOf[r]]

\* What a row gives back for an info that was written to it.
Column(u) == IF u \in Odd THEN AsInteger[u] ELSE u
AsStored(i) == [i EXCEPT !.units = Column(@)]

\* Mutation: a conflict replaces the key with the rest of the row.
Upsert_Key(k, i) ==
  /\ rows' = rows \cup {i.name}
  /\ row' = [row EXCEPT ![i.name] = [key |-> k, info |-> AsStored(i)]]
\* upsertContainer: ON CONFLICT(name) the key of the old row stays.
Upsert(k, i) ==
  /\ rows' = rows \cup {i.name}
  /\ row' = [row EXCEPT ![i.name] =
       [key |-> IF i.name \in rows THEN @.key ELSE k, info |-> AsStored(i)]]

\* Everything after the last await: write the row, add the container, reply.
InvoiceReady(r) ==
  LET k == call[r].key IN
  /\ call[r].pc = "invoice" /\ End(r)
  /\ invoice' = [invoice EXCEPT ![k] = "pending"]
  /\ Upsert(k, NewInfo(r))
  /\ conts' = conts \cup {k} /\ info' = [info EXCEPT ![k] = NewInfo(r)]
  /\ quotes' = [quotes EXCEPT ![r] = @ \cup {k}]
  /\ made' = [made EXCEPT ![r] = @ \cup {k}]
  /\ alone' = [alone EXCEPT ![k] = call[r].alone]
  /\ late' = [late EXCEPT ![k] = NewInfo(r).name \in rows]
  /\ UNCHANGED <<app, done, loop, todo, overdue, crashes>>
-----------------------------------------------------------------------------
(* The launch invoice                                                      *)

Pay(k) ==
  /\ invoice[k] = "pending" /\ ~overdue[k]
  /\ invoice' = [invoice EXCEPT ![k] = "settled"]
  /\ UNCHANGED <<memory, stored, overdue, history, crashes>>
Expire(k) ==
  /\ invoice[k] # "none" /\ ~overdue[k] /\ overdue' = [overdue EXCEPT ![k] = TRUE]
  /\ UNCHANGED <<memory, stored, invoice, history, crashes>>

RowsOf(k) == {n \in rows : row[n].key = k}
Waits(k) == app = "running" /\ k \in conts /\ info[k].state = "waiting"
Loop(pc, k) == loop.pc = pc /\ loop.key = k

\* The loop asks the wallet for the invoice of a waiting container; what the
\* wallet knows now is what arrives later.  Nothing follows a failed lookup.
LookUp(k) ==
  /\ Waits(k) /\ loop = NoLook
  /\ loop' = [pc |-> "told", key |-> k, paid |-> invoice[k] = "settled"]
  /\ UNCHANGED <<app, done, call, conts, info, todo, made, stored, wallet,
                 history, crashes>>

\* deploy: setState writes the state in memory and awaits docker's up.
Deploy(k) ==
  /\ Loop("told", k) /\ loop.paid /\ loop' = [loop EXCEPT !.pc = "up"]
  /\ info' = [info EXCEPT ![k].state = "deployed"]
  /\ UNCHANGED <<app, done, call, conts, todo, made, stored, wallet, history,
                 crashes>>

\* up refuses a number that is too large; what it does with a string depends.
MayStart(u) == u \notin Odd => u <= MaxUnits
MayRefuse(u) == u \notin Odd => u > MaxUnits

\* Mutation: the row is left as it was.
WriteState_Forgotten(k) == UNCHANGED row
\* setContainerState
WriteState(k) ==
  row' = [n \in RowNames |-> IF n \in RowsOf(k)
            THEN [row[n] EXCEPT !.info.state = info[k].state] ELSE row[n]]

\* up has returned: the state is written to the row.
Deployed(k) ==
  /\ Loop("up", k) /\ MayStart(info[k].units) /\ RowsOf(k) # {} /\ WriteState(k)
  /\ loop' = NoLook
  /\ UNCHANGED <<app, done, call, conts, info, todo, made, rows, wallet,
                 history, crashes>>

\* up or setContainerState throws; nothing catches it and the process ends.
DeployDies(k) ==
  /\ Loop("up", k)
  /\ MayRefuse(info[k].units) \/ RowsOf(k) = {}
  /\ Die /\ UNCHANGED <<stored, wallet, history, crashes>>

\* Mutation: whatever is not paid is removed.
TooLate_Unpaid(k) == TRUE
TooLate(k) == overdue[k]

\* The invoice was not paid when the wallet was asked: the container is removed
\* if the invoice has expired by the time the answer arrives.
RemoveExpired(k) ==
  /\ Loop("told", k) /\ ~loop.paid /\ TooLate(k) /\ loop' = NoLook
  /\ conts' = conts \ {k} /\ info' = [info EXCEPT ![k] = NoInfo]
  /\ rows' = rows \ RowsOf(k)
  /\ row' = [n \in RowNames |-> IF n \in RowsOf(k) THEN NoRow ELSE row[n]]
  /\ UNCHANGED <<app, done, call, todo, made, wallet, history, crashes>>

KeepWaiting(k) ==
  /\ Loop("told", k) /\ ~loop.paid /\ ~TooLate(k) /\ loop' = NoLook
  /\ UNCHANGED <<app, done, call, conts, info, todo, made, stored, wallet,
                 history, crashes>>
-----------------------------------------------------------------------------
Boot == Start \/ WalletReady \/ LoadDone \/ \E x \in todo : LoadRow(x)
Answer(r) == \/ ImageFails(r) \/ InvoiceFails(r) \/ InvoiceReady(r)
             \/ \E k \in Keys : ImageFetched(r, k)
Settle(k) == \/ LookUp(k) \/ Deploy(k) \/ Deployed(k) \/ DeployDies(k)
             \/ RemoveExpired(k) \/ KeepWaiting(k)

Next == \/ Boot \/ Crash
        \/ \E r \in Requests : Receive(r) \/ Answer(r)
        \/ \E k \in Keys : Settle(k) \/ Pay(k) \/ Expire(k)

Spec == Init /\ [][Next]_vars

-----------------------------------------------------------------------------
Units == Nat \cup Odd
Calls == [pc : {"idle", "image", "invoice"}, key : Keys \cup {NoKey},
          port : Ports, alone : BOOLEAN]
Looks == [pc : {"idle", "told", "up"}, key : Keys \cup {NoKey}, paid : BOOLEAN]
Infos == [port : Ports, units : Units, state : States,
          name : RowNames \cup {Unnamed}]
Rows  == [key : Keys \cup {NoKey}, info : Infos]

TypeOK ==
  /\ app \in {"down", "booting", "loading", "running"} /\ done \subseteq Requests
  /\ call \in [Requests -> Calls] /\ loop \in Looks
  /\ conts \subseteq Keys /\ info \in [Keys -> Infos]
  /\ rows \subseteq RowNames /\ row \in [RowNames -> Rows] /\ todo \subseteq Rows
  /\ invoice \in [Keys -> {"none", "pending", "settled"}]
  /\ overdue \in [Keys -> BOOLEAN]
  /\ quotes \in [Requests -> SUBSET Keys] /\ made \in [Requests -> SUBSET Keys]
  /\ alone \in [Keys -> BOOLEAN] /\ late \in [Keys -> BOOLEAN] /\ crashes \in Nat

\* The key k was offered under the name n; another launch had that name too.
NameFor(r, k) == IF NameOf[r] = Unnamed THEN k ELSE NameOf[r]
Offered(k, n) == \E r \in Requests : k \in quotes[r] /\ n = NameFor(r, k)
Contested(k, n) == \E j \in Keys \ {k} : Offered(j, n)

\* Launched alone, and nobody else has the name.
Undisturbed == {k \in conts : alone[k] /\ ~Contested(k, info[k].name)}

\* Two containers hold the same range of ports only if their launches raced
\* with another launch or with the loading of the rows, or another took a
\* name from one of them: all others stay apart, across removals, crashes and
\* reloads (121-123).
LonePortsDisjoint ==
  \A j, k \in Undisturbed : j # k => info[j].port # info[k].port

\* As long as every answered launch gave its units as a positive integer, the
\* units of those containers fit the machine, whatever else was admitted
\* meanwhile (653-657).
Plain == \A r \in Requests : quotes[r] # {} => UnitsOf[r] \notin Odd
LoneUnitsFit == Plain => UsedUnits(Undisturbed) <= TotalUnits

\* What the row of a container says.
Written(k) ==
  [key |-> k, info |-> IF Loop("up", k)
                         THEN [AsStored(info[k]) EXCEPT !.state = "waiting"]
                         ELSE AsStored(info[k])]

\* Every container the process serves has the row of its name, with its key,
\* unless that row was another one's already when it was launched; and as long
\* as nobody else takes the name, the row has its ports and units and the state
\* in memory, except while the loop brings the container up: then the row still
\* waits, so that after a crash the wallet is asked again and the payment is not
\* lost (db.ts:133-139, container.ts:55-62, app-server.ts:451-458).
LaunchedIsStored ==
  \A k \in conts :
    \/ late[k]
    \/ LET n == info[k].name IN
       n \in rows /\ row[n].key = k /\ (Contested(k, n) \/ row[n] = Written(k))

\* Who was quoted a price can pay it: the quoted container is on disk until the
\* invoice expires, whatever crash follows the reply and however old the answer
\* is that the loop acts on.  A conflict of names (db.ts:133) costs the later
\* launch its row and never the earlier.
QuoteIsDurable ==
  \A r \in Requests : \A k \in quotes[r] :
    overdue[k] \/ late[k] \/ RowsOf(k) # {}

\* However often the relay delivers a request, a process makes at most one
\* container for it, also while the first delivery is still being handled.
OncePerRequest == \A r \in Requests : Cardinality(made[r]) <= 1

-----------------------------------------------------------------------------
(* The inductive invariants behind them.                                   *)

\* A key is generated for one launch, and belongs to an invoice before it
\* belongs to a container, a row or an answer.
Keyed ==
  /\ \A k \in conts : invoice[k] # "none"
  /\ \A x \in {row[n] : n \in rows} \cup todo :
       x.key \in Keys /\ invoice[x.key] # "none"
  /\ \A r \in Requests :
       call[r].pc = "invoice" =>
         call[r].key \in Keys /\ invoice[call[r].key] = "none"
  /\ \A q, r \in Requests :
       call[q].pc = "invoice" /\ call[q].key = call[r].key => q = r
  /\ \A r \in Requests : \A k \in quotes[r] : invoice[k] # "none"

\* A request that is being handled is marked as done, and neither it nor one
\* that was not received yet was answered by this process.
Marked ==
  \A r \in Requests :
    /\ call[r].pc # "idle" => r \in done /\ made[r] = {}
    /\ r \notin done => made[r] = {}

\* What there is in each phase of the process.
Phases ==
  /\ app # "loading" => todo = {}
  /\ app \notin {"loading", "running"} =>
       conts = {} /\ \A r \in Requests : call[r] = NoCall
  /\ loop # NoLook =>
       /\ app = "running" /\ loop.key \in conts
       /\ \/ loop.pc = "told" /\ info[loop.key].state = "waiting"
          \/ loop.pc = "up" /\ info[loop.key].state = "deployed"

\* Every container and row is known by a name that was offered with its key,
\* each key was offered once, and rows hold what the columns make of the units.
Named ==
  /\ \A q, r \in Requests : \A k \in Keys :
       k \in quotes[q] /\ k \in quotes[r] => q = r
  /\ \A k \in conts : Offered(k, info[k].name)
  /\ \A n \in rows : Offered(row[n].key, n) /\ row[n].info.name = n
  /\ \A x \in todo : Offered(x.key, x.info.name)
  /\ \A x \in {row[n] : n \in rows} \cup todo : Column(x.info.units) = x.info.units

\* A launch is late only if another had its name.
Lates == \A k \in Keys : late[k] => \E n \in RowNames : Offered(k, n) /\ Contested(k, n)

\* Containers, records that wait to be loaded and quotes have their rows, and
\* until another launch takes the name the rows say what they should.
Has(k, n) == n \in rows /\ row[n].key = k
Kept ==
  /\ \A k \in conts :
       \/ late[k]
       \/ /\ Has(k, info[k].name)
          /\ Contested(k, info[k].name) \/ row[info[k].name] = Written(k)
  /\ \A x \in todo :
       /\ Has(x.key, x.info.name)
       /\ Contested(x.key, x.info.name) \/ row[x.info.name] = x
  /\ \A r \in Requests : \A k \in quotes[r] :
       overdue[k] \/ late[k] \/ Has(k, NameFor(r, k))

\* Where nobody chooses a name, every row has a container or is about to be
\* loaded.  A name that comes twice leaves containers and rows apart (db.ts:133).
NobodyNames == \A r \in Requests : NameOf[r] = Unnamed
Loaded ==
  /\ \A x \in todo : x.key \notin conts
  /\ app \in {"loading", "running"} =>
       \A n \in rows : n \in conts \/ row[n] \in todo

LoneRows == {k \in rows \cap Keys : alone[k]}
StoredUnits(C) == SumFunctionOnSet([k \in Keys |-> Amount(row[k].info.units)], C)

\* What a launch that is alone checked stays true until it is published:
\* nothing else that counts as alone is launched or loaded meanwhile.
Lone ==
  /\ \A r \in Requests : call[r].alone => call[r].pc # "idle" /\ todo = {}
  /\ \A q, r \in Requests : call[q].alone /\ call[r].alone => q = r
  /\ \A j, k \in LoneRows : j # k => row[j].info.port # row[k].info.port
  /\ \A r \in Requests : \A k \in LoneRows :
       call[r].alone /\ call[r].pc = "invoice" =>
         row[k].info.port # call[r].port

\* The same for the units, as long as they can be added.
Numbers ==
  /\ \A k \in conts : info[k].units \notin Odd
  /\ \A x \in {row[n] : n \in rows} \cup todo : x.info.units \notin Odd
LoneFits ==
  /\ StoredUnits(LoneRows) <= TotalUnits
  /\ \A r \in Requests :
       call[r].alone /\ UnitsOf[r] \notin Odd =>
         StoredUnits(LoneRows) + UnitsOf[r] <= TotalUnits

TypeInv  == TypeOK /\ Keyed
OnceInv  == Marked /\ OncePerRequest
StoreInv == TypeInv /\ Phases /\ Named /\ Lates /\ Kept
LoneInv  == StoreInv /\ Loaded /\ Lone /\ (Plain => Numbers /\ LoneFits)
=============================================================================
