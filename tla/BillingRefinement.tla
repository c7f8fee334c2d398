-------------------------- MODULE BillingRefinement --------------------------
(* Billing implements Account: the owner's view is the sqlite row and the   *)
(* wallet, whatever the loops, the memory and docker are doing.             *)
EXTENDS Billing

Stage(c) == IF invoice[c] = "none" THEN "new"
            ELSE IF c \notin rows THEN "closed"
            ELSE IF row[c].state = "waiting" THEN "offered" ELSE "open"

A == INSTANCE Account WITH
       stage    <- [c \in Containers |-> Stage(c)],
       ordered  <- [c \in Containers |-> invoice[c] = "settled"],
       paid     <- [c \in Containers |-> row[c].paid],
       used     <- [c \in Containers |-> row[c].count],
       payments <- charged

\* Every step of the loops, the wallet and the crashes is a step of the
\* owner's account or none: in particular money, credit and use stay in
\* order through retries (charge, 387-443) and reloads (66-107).
ImplementsAccount == A!Spec

(* The invariant behind the refinement *)

\* Before it is launched a container has no history; time is counted only
\* after the launch invoice settled; a row goes only after the expiry; and the
\* container whose unpaid launch is being looked up has never run or paid,
\* even if the answer is old by now (checkWaitingPayment, 585-628).
Withdrawable ==
  /\ \A c \in Containers :
       /\ invoice[c] = "none" => row[c].count = 0 /\ row[c].paid = 0
       /\ row[c].count > 0 => invoice[c] = "settled"
       /\ invoice[c] # "none" /\ c \notin rows => overdue[c]
  /\ mon.pc = "pending" =>
       row[mon.c].count = 0 /\ charged[mon.c] = 0 /\ late[mon.c] = 0

AccountInv == IInv /\ Withdrawable
=============================================================================
