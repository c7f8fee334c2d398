------------------------------ MODULE RemoteCall ------------------------------
(***************************************************************************)
(* What a caller of the wallet may rely on, whatever the relay in between  *)
(* does: a request is carried out at most once and perhaps after the       *)
(* caller gave up, an answer means that it was carried out, and any other  *)
(* end of the call says nothing.  Billing assumes no more than this of its *)
(* pay, balance and invoice requests.                                      *)
(***************************************************************************)
CONSTANT Requests

VARIABLES
  state,  \* state[e]: "new", "asked", "answered", "failed"
  served  \* requests the wallet carried out

Init == state = [e \in Requests |-> "new"] /\ served = {}

Ask(e)    == /\ state[e] = "new" /\ state' = [state EXCEPT ![e] = "asked"]
             /\ UNCHANGED served
Serve(e)  == /\ state[e] # "new" /\ e \notin served
             /\ served' = served \cup {e} /\ UNCHANGED state
Answer(e) == /\ state[e] = "asked" /\ e \in served
             /\ state' = [state EXCEPT ![e] = "answered"] /\ UNCHANGED served
Fail(e)   == /\ state[e] = "asked" /\ state' = [state EXCEPT ![e] = "failed"]
             /\ UNCHANGED served

Next == \E e \in Requests : Ask(e) \/ Serve(e) \/ Answer(e) \/ Fail(e)
Spec == Init /\ [][Next]_<<state, served>>
=============================================================================
