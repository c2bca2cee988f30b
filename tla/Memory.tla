------------------------------- MODULE Memory -------------------------------
(***************************************************************************)
(* The Allocator protocol of contracts/protocols.py, as its callers rely   *)
(* on it: memory is a set of buffers, each with a handle that no other     *)
(* buffer has had, and a request is granted exactly when the buffers leave *)
(* room for it.  How much is in use follows from the buffers; only what is *)
(* lost when the memory is filled over them from outside must be counted.  *)
(* Of a buffer only its length is kept.                                    *)
(***************************************************************************)
EXTENDS Integers, FiniteSetsExt

VARIABLES
    length,     \* length[h]: bytes of the buffer at handle h
    budget,     \* bytes there are
    issued,     \* handles given out since the memory was empty
    answer,     \* the last request: its size and the handle returned
    wasted      \* bytes of buffers others were put in place of

vars == <<length, budget, issued, answer, wasted>>

Failed == -1

Total(f) == MapThenSumSet(LAMBDA h : f[h], DOMAIN f)

With(f, h, n) == [g \in DOMAIN f \cup {h} |-> IF g = h THEN n ELSE f[g]]
Without(f, h) == [g \in DOMAIN f \ {h} |-> f[g]]

Init ==
    /\ length = <<>>
    /\ budget \in Nat
    /\ issued = {}
    /\ answer = [size |-> 0, handle |-> Failed]
    /\ wasted = 0

Room == budget - (Total(length) + wasted)

Grant ==
    /\ answer'.handle \in Nat \ issued
    /\ answer'.size <= Room
    /\ length' = With(length, answer'.handle, answer'.size)
    /\ issued' = issued \cup {answer'.handle}
    /\ UNCHANGED <<budget, wasted>>

(* There is no room, or nothing was asked for.                             *)
Refuse ==
    /\ answer'.handle = Failed
    /\ answer'.size <= 0 \/ answer'.size > Room
    /\ UNCHANGED <<length, budget, issued, wasted>>

Free ==
    /\ \E h \in DOMAIN length : length' = Without(length, h)
    /\ UNCHANGED <<budget, issued, answer, wasted>>

(* A write may give a buffer another length, to the caller's account.      *)
Write ==
    /\ DOMAIN length' = DOMAIN length
    /\ \E h \in DOMAIN length : length' = With(length, h, length'[h])
    /\ UNCHANGED <<budget, issued, answer, wasted>>

(* From outside the protocol: memory is emptied, resized or filled.        *)
SetUp ==
    \/ /\ length' = <<>>
       /\ issued' = {}
       /\ wasted' = 0
       /\ UNCHANGED <<budget, answer>>
    \/ /\ budget' \in Nat
       /\ UNCHANGED <<length, issued, answer, wasted>>
    \/ /\ \E h \in DOMAIN length' :
            /\ length' = With(length, h, length'[h])
            /\ issued' = issued \cup {h}
            /\ wasted' = wasted + (IF h \in DOMAIN length THEN length[h] ELSE 0)
       /\ UNCHANGED <<budget, answer>>

Next == Grant \/ Refuse \/ Free \/ Write \/ SetUp

Spec == Init /\ [][Next]_vars
=============================================================================
