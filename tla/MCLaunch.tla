------------------------------ MODULE MCLaunch ------------------------------
(* Launch on a request that chooses a name and gives its units as a string, *)
(* and one that does neither; after a crash each may be delivered again.    *)
EXTENDS Launch, TLC

CONSTANTS named, plain, n1, text

OneNamed   == [r \in Requests |-> IF r = named THEN n1 ELSE Unnamed]
TextAndTwo == [r \in Requests |-> IF r = named THEN text ELSE 2]
TextAsOne  == text :> 1
Symmetry   == Permutations(Keys)
=============================================================================
