--------------------------- MODULE MCWalletClient ---------------------------
(* Instances of WalletClient.                                               *)
EXTENDS WalletClient
=============================================================================
