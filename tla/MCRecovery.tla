------------------------------ MODULE MCRecovery ------------------------------
(* Instances of Recovery.                                                    *)
EXTENDS Recovery
=============================================================================
