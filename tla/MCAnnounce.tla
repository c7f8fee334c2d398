------------------------------ MODULE MCAnnounce ------------------------------
(* Announce for one container.  The functions of Releases have no state:   *)
(* TLC evaluates what they promise, over bounded references and releases,  *)
(* as an assumption when the run starts.                                   *)
EXTENDS Announce, Releases

MCHosts == {<<>>, <<"ghcr.io", "/">>, <<"localhost", ":", "5000", "/">>}
MCVersions == {<<1, 2>>, <<1, 10>>, <<2, 1>>, <<1, 2, 0>>, <<2>>}
MCNaN == -1

ASSUME FunctionsKeepTheirPromises == ParsesReferences /\ UpgradesSettle
=============================================================================
