---------------------------- MODULE MCParentLink ----------------------------
(* Instances of ParentLink.                                                 *)
EXTENDS ParentLink
=============================================================================
