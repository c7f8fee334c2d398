------------------------------- MODULE Account -------------------------------
(***************************************************************************)
(* What the enclave promises the owner of a container, without saying how: *)
(* a container is offered for an invoice, opened once the invoice is       *)
(* settled, or withdrawn; running uses up paid time, an interval at a time *)
(* is paid for, and credit follows money.  Billing implements this.        *)
(***************************************************************************)
EXTENDS Integers

CONSTANTS Containers, ChargeInterval

VARIABLES
  stage,     \* "new", "offered", "open" or "closed"
  ordered,   \* the launch invoice was settled
  paid,      \* time credited
  used,      \* time the container was counted as running
  payments   \* intervals the owner's wallet paid for

vars == <<stage, ordered, paid, used, payments>>

Init ==
  /\ stage    = [c \in Containers |-> "new"]
  /\ ordered  = [c \in Containers |-> FALSE]
  /\ paid     = [c \in Containers |-> 0]
  /\ used     = [c \in Containers |-> 0]
  /\ payments = [c \in Containers |-> 0]

To(c, from, to) == stage[c] = from /\ stage' = [stage EXCEPT ![c] = to]

Offer(c) == To(c, "new", "offered") /\ UNCHANGED <<ordered, paid, used, payments>>
Order(c) ==
  /\ stage[c] = "offered" /\ ~ordered[c]
  /\ ordered' = [ordered EXCEPT ![c] = TRUE]
  /\ UNCHANGED <<stage, paid, used, payments>>
Open(c) ==
  /\ ordered[c] /\ To(c, "offered", "open")
  /\ UNCHANGED <<ordered, paid, used, payments>>
\* Only an offer can be withdrawn, never an open container.
Close(c) ==
  /\ To(c, "offered", "closed") /\ used[c] = 0 /\ payments[c] = 0
  /\ UNCHANGED <<ordered, paid, used, payments>>

\* Every payment follows an order ...
Pay(c) ==
  /\ ordered[c] /\ payments' = [payments EXCEPT ![c] = @ + 1]
  /\ UNCHANGED <<stage, ordered, paid, used>>
\* ... every credit a payment of its own, and the time before it is used up.
Credit(c) ==
  /\ paid[c] <= used[c]
  /\ paid[c] + ChargeInterval <= ChargeInterval * payments[c]
  /\ paid' = [paid EXCEPT ![c] = @ + ChargeInterval]
  /\ UNCHANGED <<stage, ordered, used, payments>>
Use(S) ==
  /\ \A c \in S : ordered[c] /\ stage[c] \in {"offered", "open"}
  /\ used' = [c \in Containers |-> IF c \in S THEN used[c] + 1 ELSE used[c]]
  /\ UNCHANGED <<stage, ordered, paid, payments>>

Next ==
  \/ \E c \in Containers : \/ Offer(c) \/ Order(c) \/ Open(c) \/ Close(c)
                           \/ Pay(c) \/ Credit(c)
  \/ \E S \in SUBSET Containers : Use(S)

Spec == Init /\ [][Next]_vars
=============================================================================
