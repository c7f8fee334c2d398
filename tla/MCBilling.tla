------------------------------ MODULE MCBilling ------------------------------
(* Instances of Billing for TLC; the configurations give the constants.      *)
EXTENDS BillingRefinement, TLC

\* Containers and the slots of background calls are interchangeable.
Symmetry == Permutations(Containers) \cup Permutations(Slots)
=============================================================================
