------------------------------- MODULE Breakers -------------------------------
(***************************************************************************)
(* What migrate() relies on of the breaker registry: a set of tripped      *)
(* transitions.  A transition in it may be refused, or be let through and  *)
(* thereby leave it; only the failure of the transition that was let       *)
(* through puts it in.  This is the breaker of module Migration; module    *)
(* CircuitBreaker, with clocks and failure lists, implements it.           *)
(***************************************************************************)
CONSTANTS
    Key,        \* breaker names, "<from>_to_<to>"
    NoKey       \* no call in progress

VARIABLES
    tripped,    \* the transitions whose breaker refuses them
    pending     \* the transition migrate() was let through with, or NoKey

breakerVars == <<tripped, pending>>

BreakersInit == tripped = {} /\ pending = NoKey

Refuse(k) ==
    /\ pending = NoKey
    /\ k \in tripped
    /\ UNCHANGED breakerVars

Admit(k) ==
    /\ pending = NoKey
    /\ pending' = k
    /\ tripped' = tripped \ {k}

Fail ==
    /\ pending \in Key
    /\ pending' = NoKey
    /\ tripped' \in {tripped, tripped \cup {pending}}

Pass ==
    /\ pending \in Key
    /\ pending' = NoKey
    /\ UNCHANGED tripped

ResetAll == tripped' = {} /\ UNCHANGED pending

BreakersNext ==
    \/ \E k \in Key : Refuse(k) \/ Admit(k)
    \/ Fail
    \/ Pass
    \/ ResetAll

BreakersSpec == BreakersInit /\ [][BreakersNext]_breakerVars
=============================================================================
