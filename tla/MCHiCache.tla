------------------------------ MODULE MCHiCache ------------------------------
EXTENDS HiCache, TLC

CONSTANTS c1, c2, c3, h1, h2, l1, l2

(* The background thread of sitecustomize.py and the server script.         *)
BothPatch == (c1 :> h1) @@ (c2 :> h2)

(* ... and a call without hooks, at any time.                               *)
AllThree == (c1 :> h1) @@ (c2 :> h1) @@ (c3 :> NoHooks)

AllLayers == {l1, l2}
OneLayer == {l1}

Symmetric == Permutations(Token)
=============================================================================
