------------------------------ MODULE Controller ------------------------------
(***************************************************************************)
(* The policy of the hot path: runtime/score.py, runtime/controller.py and *)
(* what the compiler binds into them (compiler/codec_resolver.py,          *)
(* compiler/runtime_builder.py).  In every decode step the integration     *)
(* layer scores the pages, asks the controller for their targets and hands *)
(* each page that is not at its target to migrate(), which Migration       *)
(* models: here it moves the page, leaves it, or the fallback puts it back *)
(* into BF16.  A promotion encodes what the page's buffer holds and is      *)
(* verified against the page's BF16 checksum, so it can only succeed where *)
(* the buffer still holds the BF16 bytes (see run migration_promotion).    *)
(*                                                                         *)
(* Weights and features are percentages; scores, thresholds and pressure   *)
(* are in units of 1/10000.  float32 rounding is left out.                 *)
(***************************************************************************)
EXTENDS Integers, FiniteSets

CONSTANTS
    Page,
    Weight,         \* w_T, w_S, w_N, w_P
    ThetaHigh, ThetaLow, Delta, PEmergency,
    CodecConfigs,   \* the configurations: slot -> "auto", a name, or "none"
    HasFp8,         \* has_fp8_native of the hardware probe
    Registry,       \* the names that are registered
    Identity,       \* the names of codecs that return the bytes they are given
    Features,       \* the rows update_score_inputs may write
    Pressures       \* the readings of the allocator's pressure

One == 10000

BF16 == 0
FP8 == 1
INT4 == 2
ARCHIVE == 3
CPU == 4
DISK == 5
Tier == BF16 .. DISK

(* The slot whose codec leads to a tier from the next hotter one.          *)
Slots == <<"bf16_to_compressed", "compressed_to_cold", "cold_to_archive", "archive_to_cpu">>

ASSUME ControllerAssumption ==
    /\ Weight \in [{"T", "S", "N", "P"} -> 0 .. 100]
    /\ Weight.T + Weight.S + Weight.N + Weight.P = 100
    /\ ThetaHigh \in 0 .. One
    /\ ThetaLow \in 0 .. One
    /\ ThetaLow < ThetaHigh
    /\ Delta \in Nat
    /\ PEmergency \in 1 .. One - 1
    /\ Pressures \subseteq 0 .. One
    /\ "none" \notin Registry
    /\ Features \subseteq [{"T", "S", "N", "P"} -> Int]

VARIABLES
    codec_config,   \* the configuration the runtime was compiled with
    features,       \* page -> its score inputs in the page table
    tier,           \* page -> its tier in the page table
    pressure,       \* what the allocator reports
    targets,        \* page -> the controller's answer in this decode step
    scored,         \* page -> the score that answer was given for
    todo,           \* pages this decode step has still to migrate
    last            \* history: page -> its last move, with the score it was made for

vars == <<codec_config, features, tier, pressure, targets, scored, todo, last>>

-----------------------------------------------------------------------------
(* The codec table: a slot that is empty, or names a codec that is not     *)
(* registered, serves no transition.                                       *)
DefaultCodec ==
    [bf16_to_compressed |-> IF HasFp8 THEN "fp8_default" ELSE "int8_default",
     compressed_to_cold |-> "int4_default",
     cold_to_archive    |-> "lowrank_default",
     archive_to_cpu     |-> "none"]

Resolve(slot) == IF codec_config[slot] = "auto" THEN DefaultCodec[slot] ELSE codec_config[slot]

Available(slot) == Resolve(slot) \in Registry

Faithful(slot) == Available(slot) /\ Resolve(slot) \in Identity

Both(a, b) == {<<a, b>>, <<b, a>>}

(* Defect: the direct path does not ask whether the first slot is filled.  *)
ServedDirect ==
    {e \in Both(BF16, FP8) : Available("bf16_to_compressed")}
    \cup {e \in Both(FP8, INT4) \cup Both(BF16, INT4) : Available("compressed_to_cold")}
    \cup {e \in Both(INT4, ARCHIVE) : Available("cold_to_archive")}
    \cup {e \in Both(ARCHIVE, CPU) : Available("archive_to_cpu")}

Served ==
    {e \in Both(BF16, FP8) : Available("bf16_to_compressed")}
    \cup {e \in Both(FP8, INT4) : Available("compressed_to_cold")}
    \cup {e \in Both(BF16, INT4) : /\ Available("compressed_to_cold")
                                   /\ Available("bf16_to_compressed")}
    \cup {e \in Both(INT4, ARCHIVE) : Available("cold_to_archive")}
    \cup {e \in Both(ARCHIVE, CPU) : Available("archive_to_cpu")}

ColderServed(t) == {u \in Tier : u > t /\ <<t, u>> \in Served}
HotterServed(t) == {u \in Tier : u < t /\ <<t, u>> \in Served}

Nearest(t, ts) ==
    CHOOSE u \in ts : \A v \in ts : (IF u > t THEN u - t ELSE t - u) <= (IF v > t THEN v - t ELSE t - v)

(* Defect: the farthest tier that can be reached instead of the nearest.   *)
NextColderFar(t) ==
    IF ColderServed(t) # {}
    THEN CHOOSE u \in ColderServed(t) : \A v \in ColderServed(t) : v <= u
    ELSE IF t = DISK THEN t ELSE t + 1

(* next_colder and next_hotter of compile_controller: the nearest tier the *)
(* table serves, and the neighbour when it serves none.                    *)
NextColder(t) ==
    IF ColderServed(t) # {} THEN Nearest(t, ColderServed(t))
    ELSE IF t = DISK THEN t ELSE t + 1

NextHotter(t) ==
    IF HotterServed(t) # {} THEN Nearest(t, HotterServed(t))
    ELSE IF t = BF16 THEN t ELSE t - 1

-----------------------------------------------------------------------------
Clip(x) == IF x < 0 THEN 0 ELSE IF x > One THEN One ELSE x

Score(f) == Clip(Weight.T * f.T + Weight.S * f.S + Weight.N * f.N + Weight.P * f.P)

BoostCap == 1500

Boost(pr) ==
    IF pr < PEmergency THEN 0
    ELSE IF 2 * (pr - PEmergency) > BoostCap THEN BoostCap
    ELSE 2 * (pr - PEmergency)

(* Defect: pressure lowers the threshold it should raise.                  *)
WantsColderRelaxed(r, t, pr) == r <= ThetaLow - Boost(pr) - Delta /\ t < INT4

(* Defect: FP8 is taken for the coldest GPU tier.                          *)
WantsColderOnce(r, t, pr) == r <= ThetaLow + Boost(pr) - Delta /\ t < FP8

WantsHotter(r, t) == r >= ThetaHigh + Delta /\ t > BF16
WantsColder(r, t, pr) == r <= ThetaLow + Boost(pr) - Delta /\ t < INT4

(* Defect: no dead band between the thresholds.                            *)
DesiredNoBand(r, t, pr) ==
    IF r > ThetaLow /\ t > BF16 THEN NextHotter(t)
    ELSE IF WantsColder(r, t, pr) THEN NextColder(t) ELSE t

(* desired_tiers: the demotion is written last, over the promotion.        *)
Desired(r, t, pr) ==
    IF WantsColder(r, t, pr) THEN NextColder(t)
    ELSE IF WantsHotter(r, t) THEN NextHotter(t)
    ELSE t

-----------------------------------------------------------------------------
NoMove == [dir |-> "none", score |-> 0]
Moves == [dir : {"none", "hotter", "colder"}, score : 0 .. One]

TypeOK ==
    /\ codec_config \in CodecConfigs
    /\ features \in [Page -> Features]
    /\ tier \in [Page -> Tier]
    /\ pressure \in Pressures
    /\ targets \in [Page -> Tier]
    /\ scored \in [Page -> 0 .. One]
    /\ todo \subseteq Page
    /\ last \in [Page -> Moves]

(* A page is admitted in BF16.                                             *)
Init ==
    /\ codec_config \in CodecConfigs
    /\ features \in [Page -> Features]
    /\ tier = [p \in Page |-> BF16]
    /\ pressure \in Pressures
    /\ targets = tier
    /\ scored = [p \in Page |-> 0]
    /\ todo = {}
    /\ last = [p \in Page |-> NoMove]

(* The engine writes a page's score inputs, by the handle of the row.      *)
UpdateScoreInputs(p, f) ==
    /\ features' = [features EXCEPT ![p] = f]
    /\ UNCHANGED <<codec_config, tier, pressure, targets, scored, todo, last>>

PressureChanges(pr) ==
    /\ pressure' = pr
    /\ UNCHANGED <<codec_config, features, tier, targets, scored, todo, last>>

(* score_fn and controller_fn, on a snapshot.                              *)
Decide ==
    /\ todo = {}
    /\ scored' = [p \in Page |-> Score(features[p])]
    /\ targets' = [p \in Page |-> Desired(Score(features[p]), tier[p], pressure)]
    /\ todo' = {p \in Page : targets'[p] # tier[p]}
    /\ UNCHANGED <<codec_config, features, tier, pressure, last>>

(* The slot whose codec serves the move between two neighbouring tiers.    *)
SlotBetween(t, u) == Slots[IF t < u THEN u ELSE t]

(* The bytes of a page at tier t are its BF16 bytes.                       *)
Plain(t) == \A u \in FP8 .. t : Faithful(Slots[u])

(* migrate_fn: OK ...                                                      *)
Moved(p) ==
    /\ p \in todo
    /\ <<tier[p], targets[p]>> \in Served
    /\ Plain(tier[p])
    /\ tier' = [tier EXCEPT ![p] = targets[p]]
    /\ last' = [last EXCEPT ![p] = [dir |-> IF targets[p] > tier[p] THEN "colder" ELSE "hotter",
                                    score |-> scored[p]]]
    /\ todo' = todo \ {p}
    /\ UNCHANGED <<codec_config, features, pressure, targets, scored>>

(* ... SKIPPED, for want of a codec among others, or failed ...            *)
Kept(p) ==
    /\ p \in todo
    /\ todo' = todo \ {p}
    /\ UNCHANGED <<codec_config, features, tier, pressure, targets, scored, last>>

(* ... or failed and handed to handle_migration_failure.                   *)
Recovered(p) ==
    /\ p \in todo
    /\ <<tier[p], targets[p]>> \in Served
    /\ tier' = [tier EXCEPT ![p] = BF16]
    /\ last' = [last EXCEPT ![p] = NoMove]
    /\ todo' = todo \ {p}
    /\ UNCHANGED <<codec_config, features, pressure, targets, scored>>

Next ==
    \/ \E p \in Page, f \in Features : UpdateScoreInputs(p, f)
    \/ \E pr \in Pressures : PressureChanges(pr)
    \/ Decide
    \/ \E p \in Page : Moved(p) \/ Kept(p) \/ Recovered(p)

Spec == Init /\ [][Next]_vars

(* Decode steps go on, a step's migrations are made, and what goes wrong   *)
(* with a page that is asked again and again to leave a tier, by a codec   *)
(* that returns the bytes it is given, does not go wrong for ever (a pin,  *)
(* a full allocator, a tripped breaker).  Of any other codec nothing is    *)
(* assumed: it may refuse a page's contents every time.                    *)
Leaves(p, t) ==
    /\ tier[p] = t
    /\ Moved(p)
    /\ Faithful(SlotBetween(t, targets[p]))

FairSpec ==
    /\ Spec
    /\ WF_vars(Decide)
    /\ \A p \in Page :
        /\ WF_vars(Moved(p) \/ Kept(p) \/ Recovered(p))
        /\ \A t \in BF16 .. INT4 : SF_vars(Leaves(p, t))

-----------------------------------------------------------------------------
(* What a move was asked for: the page has to have been beyond the         *)
(* threshold, which pressure raises by Boost(One) at most, and moves by    *)
(* one tier between BF16 and INT4.                                         *)
ColdEnough(r) == r <= ThetaLow + Boost(One) - Delta
HotEnough(r) == r >= ThetaHigh + Delta

JustifiedMove(r, t, d) ==
    \/ t < INT4 /\ d = t + 1 /\ ColdEnough(r)
    \/ t > BF16 /\ d = t - 1 /\ HotEnough(r)

Asked(p) == JustifiedMove(scored[p], tier[p], targets[p])

PolicyInv ==
    /\ TypeOK
    /\ \A p \in Page : tier[p] <= INT4
    /\ \A p \in todo : Asked(p)
    /\ \A p \in Page :
        /\ last[p].dir = "colder" => ColdEnough(last[p].score)
        /\ last[p].dir = "hotter" => HotEnough(last[p].score)

(* To be moved back, a page's score has to cross the dead band, of which   *)
(* the highest pressure takes Boost(One) and no more: whatever happened    *)
(* between the two moves.                                                  *)
Band == ThetaHigh - ThetaLow + 2 * Delta - Boost(One)

HysteresisBand ==
    [][\A p \in Page :
        LET m == last[p]
            n == last'[p]
        IN  /\ m.dir = "colder" /\ n.dir = "hotter" => n.score >= m.score + Band
            /\ m.dir = "hotter" /\ n.dir = "colder" => n.score <= m.score - Band]_vars

(* "Gradual, not jump-to-BF16": a move is to a neighbouring tier.          *)
GradualMoves == \A p \in todo : targets[p] - tier[p] \in {-1, 1}

(* CodecConfig: "None: no codec for this slot (tier is unreachable)".      *)
(* Under every configuration, a page is at a tier only if every slot on    *)
(* the way there has a codec, and what the controller asks for in vain,    *)
(* step after step, is a tier behind a slot that has none.                 *)
EmptySlotsUnreachable ==
    /\ \A p \in Page : \A t \in FP8 .. tier[p] : Available(Slots[t])
    /\ \A p \in todo :
        \/ <<tier[p], targets[p]>> \in Served
        \/ ~Available(SlotBetween(tier[p], targets[p]))

(* More pressure never makes a page hotter.                                *)
PressureOnlyColder ==
    \A p \in Page, pr \in Pressures :
        pr >= pressure =>
            Desired(Score(features[p]), tier[p], pr)
                >= Desired(Score(features[p]), tier[p], pressure)

(* Demotion ends at the coldest GPU tier, whatever the table would serve.  *)
StaysOnGpu == \A p \in Page : tier[p] <= INT4

Cold(p) == Score(features[p]) <= ThetaLow - Delta
Hot(p) == Score(features[p]) >= ThetaHigh + Delta

Sunk == [p \in Page |-> Cold(p) =>
            \A t \in BF16 .. INT4 : Plain(t) => tier[p] >= t]
Risen == [p \in Page |-> Hot(p) /\ Plain(tier[p]) => tier[p] = BF16]

(* Codecs that return the bytes they are given take a page that stays cold *)
(* down to the last tier they serve, and bring one that stays hot back to  *)
(* BF16, step by step, though moves fail and are undone.  (From a tier     *)
(* whose codec changes the bytes only the recovery brings a page back.)    *)
PagesFollowScores == \A p \in Page : []<>Sunk[p] /\ []<>Risen[p]
=============================================================================
