--------------------------- MODULE TelemetryProofs ---------------------------
(***************************************************************************)
(* No port ever serves more events than happened: for any set of metrics,  *)
(* ports and pages, whatever is recorded, reset, started and stopped while *)
(* an update is under way.  And the gauges count the pages, however late   *)
(* their changes are recorded.                                             *)
(***************************************************************************)
EXTENDS Telemetry, FiniteSetTheorems, TLAPS

LEMMA Names == Metric \subseteq Counted /\ Counted \subseteq Name
BY DEF Metric, Name

LEMMA InitInv == Init => TelemetryInv
<1> SUFFICES ASSUME Init PROVE TelemetryInv
  OBVIOUS
<1> USE DEF Init
<1>1. TypeOK
  <2>1. <<>> \in Seq(Change)
    OBVIOUS
  <2>2. IdleUpdate \in Update
    BY DEF IdleUpdate, Update, Blank
  <2>3. NoPort \in Port \cup {NoPort} /\ {} \subseteq Port
    OBVIOUS
  <2>4. QED BY <2>1, <2>2, <2>3 DEF TypeOK, Zero, Blank
<1>2. Behind(count, happened)
  BY Names DEF Behind, Zero, Blank
<1>3. Snapshot
  BY DEF Snapshot, IdleUpdate
<1>4. QED BY <1>1, <1>2, <1>3 DEF TelemetryInv

-----------------------------------------------------------------------------
LEMMA RecordInv ==
    ASSUME TelemetryInv, NEW n \in Counted, Record(n) PROVE TelemetryInv'
<1> USE DEF Record, exporter, pages
<1>1. TypeOK /\ Behind(count, happened) /\ Snapshot
  BY DEF TelemetryInv
<1>2. /\ n \in Name
      /\ count' = [count EXCEPT ![n] = @ + 1]
      /\ happened' = [happened EXCEPT ![n] = @ + 1]
  BY Names
<1>3. TypeOK'
  BY <1>1, <1>2 DEF TypeOK
<1>4. ASSUME NEW m \in Metric
      PROVE  /\ count[m] \in Nat /\ happened[m] \in Nat
             /\ count'[m] - count[m] = happened'[m] - happened[m]
             /\ happened'[m] >= happened[m] /\ count'[m] \in Nat /\ happened'[m] \in Nat
  BY <1>1, <1>2, Names DEF TypeOK
<1>5. Behind(count, happened)'
  <2>1. \A p \in Port, m \in Metric : exported[p][m] \in Nat /\ last[p][m] \in Nat
    BY <1>1 DEF TypeOK
  <2>2. QED BY <1>1, <1>4, <2>1 DEF Behind
<1>6. Snapshot'
  <2>1. \A m \in update.todo : m \in Metric /\ update.base[m] \in Nat /\ update.snap[m] \in Nat
    BY <1>1 DEF TypeOK, Update
  <2>2. QED BY <1>1, <1>4, <2>1 DEF Snapshot
<1>7. QED BY <1>3, <1>5, <1>6 DEF TelemetryInv

LEMMA RecordTierChangeInv ==
    ASSUME TelemetryInv, RecordTierChange PROVE TelemetryInv'
<1> USE DEF RecordTierChange, exporter
<1>1. TypeOK /\ Behind(count, happened) /\ Snapshot
  BY DEF TelemetryInv
<1> DEFINE r == Head(reports)
<1>2. reports \in Seq(Change) /\ reports # <<>> /\ r \in Change /\ Tail(reports) \in Seq(Change)
  BY <1>1 DEF TypeOK
<1>3. r.page \in Page /\ r.new \in Tier \cup {Absent} /\ r.old \in Tier \cup {Absent}
  BY <1>2 DEF Change
<1>4. count' = Incremented(Decremented(count, r.old), r.new)
  OBVIOUS
<1> HIDE DEF r
<1>5. count' \in [Name -> Nat]
  <2>1. Decremented(count, r.old) \in [Name -> Nat]
    BY <1>1 DEF Decremented, TypeOK
  <2>2. QED BY <2>1, <1>4 DEF Incremented
<1>6. seen' \in [Page -> Tier \cup {Absent}]
  BY <1>1, <1>3 DEF TypeOK, r
<1>7. TypeOK'
  BY <1>1, <1>2, <1>5, <1>6 DEF TypeOK
<1>8. \A n \in Metric : count'[n] = count[n]
  <2>1. ASSUME NEW n \in Metric, NEW t PROVE n # <<"pages_in", t>>
    <3>1. n[1] \in {"migrations", "pressure"}
      BY DEF Metric, Counted
    <3>2. QED BY <3>1
  <2>2. \A n \in Metric : n \in Name
    BY Names
  <2>3. QED BY <2>1, <2>2, <1>4 DEF Incremented, Decremented
<1>9. Behind(count, happened)'
  BY <1>1, <1>8 DEF Behind
<1>10. Snapshot'
  <2>1. update.todo \subseteq Metric
    BY <1>1 DEF TypeOK, Update
  <2>2. QED BY <1>1, <1>8, <2>1 DEF Snapshot
<1>11. QED BY <1>7, <1>9, <1>10 DEF TelemetryInv

LEMMA ResetInv == ASSUME TelemetryInv, Reset PROVE TelemetryInv'
<1> USE DEF Reset, exporter, pages
<1>1. TypeOK /\ Behind(count, happened) /\ Snapshot
  BY DEF TelemetryInv
<1>2. count' \in [Name -> Nat] /\ \A n \in Metric : count'[n] = 0
  BY Names DEF Zero
<1>3. TypeOK'
  BY <1>1, <1>2 DEF TypeOK
<1>4. Behind(count, happened)'
  <2>1. \A p \in Port, n \in Metric :
            last[p][n] \in Nat /\ exported[p][n] \in Nat /\ happened[n] \in Nat
    BY <1>1, Names DEF TypeOK
  <2>2. QED BY <1>1, <1>2, <2>1 DEF Behind
<1>5. Snapshot'
  <2>1. \A n \in update.todo : /\ n \in Metric
                               /\ update.snap[n] \in Nat /\ update.base[n] \in Nat
                               /\ happened[n] \in Nat
    BY <1>1, Names DEF TypeOK, Update
  <2>2. QED BY <1>1, <1>2, <2>1 DEF Snapshot
<1>6. QED BY <1>3, <1>4, <1>5 DEF TelemetryInv

LEMMA ChangeTierInv ==
    ASSUME TelemetryInv, NEW p \in Page, NEW t \in Tier \cup {Absent}, ChangeTier(p, t)
    PROVE  TelemetryInv'
<1> USE DEF ChangeTier, exporter
<1>1. TypeOK
  BY DEF TelemetryInv
<1>2. [page |-> p, old |-> tier[p], new |-> t] \in Change
  BY <1>1 DEF TypeOK, Change
<1>3. reports' \in Seq(Change)
  BY <1>1, <1>2 DEF TypeOK
<1>4. TypeOK'
  BY <1>1, <1>3 DEF TypeOK
<1>5. QED BY <1>4 DEF TelemetryInv, Behind, Snapshot

-----------------------------------------------------------------------------
LEMMA StartInv == ASSUME TelemetryInv, NEW p \in Port, Start(p) PROVE TelemetryInv'
BY DEF Start, pages, TelemetryInv, TypeOK, Behind, Snapshot

LEMMA StopInv == ASSUME TelemetryInv, Stop PROVE TelemetryInv'
BY DEF Stop, pages, TelemetryInv, TypeOK, Behind, Snapshot

LEMMA UpdateRaisesInv == ASSUME TelemetryInv, UpdateRaises PROVE TelemetryInv'
<1>1. IdleUpdate \in Update /\ IdleUpdate.todo = {}
  BY DEF IdleUpdate, Update, Blank
<1>2. QED BY <1>1 DEF UpdateRaises, pages, TelemetryInv, TypeOK, Behind, Snapshot

LEMMA BeginUpdateInv == ASSUME TelemetryInv, BeginUpdate PROVE TelemetryInv'
<1> USE DEF BeginUpdate, pages
<1>1. TypeOK /\ Behind(count, happened)
  BY DEF TelemetryInv
<1>2. \A n \in Metric : n \in Name /\ n \in Counted /\ count[n] \in Nat /\ happened[n] \in Nat
  BY <1>1, Names DEF TypeOK
<1>3. /\ update' \in Update
      /\ \A n \in Metric : update'.snap[n] = count[n] /\ update'.base[n] = happened[n]
      /\ update'.todo = Metric
  BY <1>2 DEF Update
<1>4. TypeOK'
  BY <1>1, <1>3 DEF TypeOK
<1>5. Snapshot'
  BY <1>1, <1>2, <1>3 DEF Behind, Snapshot
<1>6. QED BY <1>1, <1>4, <1>5 DEF TelemetryInv, Behind

(* The step that matters: what an update adds had happened at its snapshot.*)
LEMMA WriteMetricInv ==
    ASSUME TelemetryInv, NEW n \in Metric, WriteMetric(n) PROVE TelemetryInv'
<1> USE DEF WriteMetric, pages
<1>1. TypeOK /\ Behind(count, happened) /\ Snapshot
  BY DEF TelemetryInv
<1>2. n \in update.todo
  BY DEF IsNext
<1>3. \A m \in Metric : /\ count[m] \in Nat /\ happened[m] \in Nat
                        /\ update.snap[m] \in Nat /\ update.base[m] \in Nat
                        /\ \A p \in Port : exported[p][m] \in Nat /\ last[p][m] \in Nat
  BY <1>1, Names DEF TypeOK, Update
<1>4. /\ update' \in Update
      /\ \A m \in update'.todo : /\ m \in update.todo /\ m # n
                                 /\ update'.snap[m] = update.snap[m]
                                 /\ update'.base[m] = update.base[m]
  <2>1. CASE update.todo = {n}
    BY <2>1 DEF Written, IdleUpdate, Update, Blank
  <2>2. CASE update.todo # {n}
    <3>1. update' = [update EXCEPT !.todo = @ \ {n}]
      BY <2>2 DEF Written
    <3>2. QED BY <3>1, <1>1 DEF TypeOK, Update
  <2>3. QED BY <2>1, <2>2
<1>5. CASE current = NoPort
  BY <1>1, <1>4, <1>5 DEF TelemetryInv, TypeOK, Behind, Snapshot
<1>6. CASE current # NoPort
  <2>1. current \in Port
    BY <1>1, <1>6 DEF TypeOK
  <2> DEFINE delta == IF update.snap[n] > last[current][n]
                      THEN update.snap[n] - last[current][n] ELSE 0
  <2>2. delta \in Nat
    BY <1>3, <2>1
  <2>3. /\ exported' = [exported EXCEPT ![current][n] =
                IF update.snap[n] > last[current][n]
                THEN @ + (update.snap[n] - last[current][n]) ELSE @]
        /\ last' = [last EXCEPT ![current][n] = update.snap[n]]
    BY <1>6
  <2>4. /\ exported' \in [Port -> [Metric -> Nat]]
        /\ last' \in [Port -> [Metric -> Nat]]
    BY <1>1, <1>3, <2>1, <2>3 DEF TypeOK
  <2>5. ASSUME NEW p \in Port, NEW m \in Metric, p # current \/ m # n
        PROVE  exported'[p][m] = exported[p][m] /\ last'[p][m] = last[p][m]
    BY <1>1, <2>3, <2>5 DEF TypeOK
  <2>6. exported'[current][n] = exported[current][n] + delta /\ last'[current][n] = update.snap[n]
    BY <1>1, <1>3, <2>1, <2>3 DEF TypeOK
  <2>7. TypeOK'
    BY <1>1, <1>4, <2>4 DEF TypeOK
  <2>8. /\ exported'[current][n] <= happened[n]
        /\ exported'[current][n] + count[n] - last'[current][n] <= happened[n]
    <3>1. /\ update.base[n] <= happened[n]
          /\ count[n] - update.snap[n] <= happened[n] - update.base[n]
          /\ exported[current][n] <= update.base[n]
          /\ exported[current][n] + update.snap[n] - last[current][n] <= update.base[n]
      BY <1>1, <1>2, <2>1 DEF Snapshot
    <3>2. exported[current][n] + delta <= update.base[n]
      BY <3>1, <1>3, <2>1
    <3> HIDE DEF delta
    <3>3. QED BY <3>1, <3>2, <2>6, <2>2, <1>3, <2>1
  <2>9. Behind(count, happened)'
    BY <1>1, <2>5, <2>8 DEF Behind
  <2>10. Snapshot'
    <3>1. ASSUME NEW m \in update'.todo, NEW p \in Port
          PROVE  exported'[p][m] = exported[p][m] /\ last'[p][m] = last[p][m]
      <4>1. m \in Metric /\ m # n
        BY <1>1, <1>4 DEF TypeOK, Update
      <4>2. QED BY <4>1, <2>5
    <3>2. QED BY <1>1, <1>4, <3>1 DEF Snapshot
  <2>11. QED BY <2>7, <2>9, <2>10 DEF TelemetryInv
<1>7. QED BY <1>5, <1>6

-----------------------------------------------------------------------------
LEMMA StepInv == TelemetryInv /\ [Next]_vars => TelemetryInv'
<1> SUFFICES ASSUME TelemetryInv, [Next]_vars PROVE TelemetryInv'
  OBVIOUS
<1>1. ASSUME NEW n \in Counted, Record(n) PROVE TelemetryInv'
  BY <1>1, RecordInv
<1>2. ASSUME NEW p \in Page, NEW t \in Tier \cup {Absent}, ChangeTier(p, t)
      PROVE  TelemetryInv'
  BY <1>2, ChangeTierInv
<1>3. CASE RecordTierChange
  BY <1>3, RecordTierChangeInv
<1>4. CASE Reset
  BY <1>4, ResetInv
<1>5. ASSUME NEW p \in Port, Start(p) PROVE TelemetryInv'
  BY <1>5, StartInv
<1>6. CASE Stop
  BY <1>6, StopInv
<1>7. CASE BeginUpdate
  BY <1>7, BeginUpdateInv
<1>8. ASSUME NEW n \in Metric, WriteMetric(n) PROVE TelemetryInv'
  BY <1>8, WriteMetricInv
<1>9. CASE UpdateRaises
  BY <1>9, UpdateRaisesInv
<1>10. CASE UNCHANGED vars
  BY <1>10 DEF vars, exporter, pages, TelemetryInv, TypeOK, Behind, Snapshot
<1>11. QED BY <1>1, <1>2, <1>3, <1>4, <1>5, <1>6, <1>7, <1>8, <1>9, <1>10
           DEF Next, Loop, Exporter

(* Types, and the bound on what is counted and has not been served yet.    *)
THEOREM TelemetryInvariant == Spec => []TelemetryInv
BY InitInv, StepInv, PTL DEF Spec

(* No port is ever ahead of what happened.                                 *)
THEOREM NoPortIsAhead == Spec => []NeverAhead
<1>1. TelemetryInv => NeverAhead
  BY DEF TelemetryInv, Behind, NeverAhead
<1>2. QED BY <1>1, TelemetryInvariant, PTL

-----------------------------------------------------------------------------
(* Reports and gauges.                                                     *)
Tiers == [Page -> Tier \cup {Absent}]

Follows(path, changes) ==
    \A i \in DOMAIN changes :
        /\ changes[i].old = path[i - 1][changes[i].page]
        /\ changes[i].old # changes[i].new
        /\ path[i] = [path[i - 1] EXCEPT ![changes[i].page] = changes[i].new]

LEMMA PathLeads ==
    ASSUME NEW changes, NEW n, n = Len(changes),
           NEW path \in [0 .. n -> Tiers], Follows(path, changes)
    PROVE  Leads(changes, path[0], path[n])
BY DEF Leads, Tiers, Follows

LEMMA AppendLeads ==
    ASSUME NEW changes \in Seq(Change), NEW from \in Tiers, NEW to \in Tiers,
           Leads(changes, from, to),
           NEW p \in Page, NEW t \in Tier \cup {Absent}, t # to[p]
    PROVE  Leads(Append(changes, [page |-> p, old |-> to[p], new |-> t]),
                 from, [to EXCEPT ![p] = t])
<1> DEFINE n == Len(changes)
           c == [page |-> p, old |-> to[p], new |-> t]
           longer == Append(changes, c)
           end == [to EXCEPT ![p] = t]
<1>1. PICK tiers \in [0 .. n -> Tiers] :
            /\ tiers[0] = from
            /\ tiers[n] = to
            /\ \A i \in DOMAIN changes :
                /\ changes[i].old = tiers[i - 1][changes[i].page]
                /\ changes[i].old # changes[i].new
                /\ tiers[i] = [tiers[i - 1] EXCEPT ![changes[i].page] = changes[i].new]
  BY DEF Leads, Tiers
<1>2. n \in Nat /\ DOMAIN changes = 1 .. n
  OBVIOUS
<1>3. /\ Len(longer) = n + 1 /\ DOMAIN longer = 1 .. n + 1
      /\ longer[n + 1] = c /\ \A i \in 1 .. n : longer[i] = changes[i]
  OBVIOUS
<1>4. c.page = p /\ c.old = to[p] /\ c.new = t /\ end \in Tiers
  BY DEF Tiers
<1> HIDE DEF c, longer, n, end
<1> DEFINE path == [i \in 0 .. n + 1 |-> IF i = n + 1 THEN end ELSE tiers[i]]
<1>5. path \in [0 .. n + 1 -> Tiers]
  BY <1>1, <1>2, <1>4
<1>6. path[0] = from /\ path[n + 1] = end
  BY <1>1, <1>2
<1>7. ASSUME NEW i \in 1 .. n + 1
      PROVE  /\ longer[i].old = path[i - 1][longer[i].page]
             /\ longer[i].old # longer[i].new
             /\ path[i] = [path[i - 1] EXCEPT ![longer[i].page] = longer[i].new]
  <2>1. i - 1 \in 0 .. n + 1 /\ i - 1 # n + 1 /\ path[i - 1] = tiers[i - 1]
    BY <1>2
  <2>2. CASE i = n + 1
    <3>1. path[i] = end /\ tiers[i - 1] = to /\ longer[i] = c
      BY <1>1, <1>2, <1>3, <2>2
    <3> HIDE DEF path
    <3>2. QED BY <1>4, <2>1, <3>1 DEF end
  <2>3. CASE i # n + 1
    <3>1. i \in 1 .. n /\ path[i] = tiers[i] /\ longer[i] = changes[i]
      BY <1>2, <1>3, <2>3
    <3> HIDE DEF path
    <3>2. QED BY <1>1, <1>2, <2>1, <3>1
  <2>4. QED BY <2>2, <2>3
<1> HIDE DEF path
<1> DEFINE m == n + 1
<1>8. Leads(longer, from, end)
  <2>1. m = Len(longer) /\ path \in [0 .. m -> Tiers] /\ path[m] = end
    BY <1>3, <1>5, <1>6
  <2>2. Follows(path, longer)
    BY <1>3, <1>7 DEF Follows
  <2> HIDE DEF m
  <2>3. Leads(longer, path[0], path[m])
    BY <2>1, <2>2, PathLeads
  <2>4. QED BY <1>6, <2>1, <2>3
<1>9. QED BY <1>8 DEF longer, c, end

LEMMA TailLeads ==
    ASSUME NEW changes \in Seq(Change), NEW from \in Tiers, NEW to \in Tiers,
           Leads(changes, from, to), changes # <<>>
    PROVE  LET c == Head(changes)
           IN  /\ c.old = from[c.page] /\ c.old # c.new
               /\ Leads(Tail(changes), [from EXCEPT ![c.page] = c.new], to)
<1> DEFINE n == Len(changes)
           c == Head(changes)
           rest == Tail(changes)
           start == [from EXCEPT ![c.page] = c.new]
<1>1. PICK tiers \in [0 .. n -> Tiers] :
            /\ tiers[0] = from
            /\ tiers[n] = to
            /\ \A i \in DOMAIN changes :
                /\ changes[i].old = tiers[i - 1][changes[i].page]
                /\ changes[i].old # changes[i].new
                /\ tiers[i] = [tiers[i - 1] EXCEPT ![changes[i].page] = changes[i].new]
  BY DEF Leads, Tiers
<1>2. n \in Nat \ {0} /\ DOMAIN changes = 1 .. n /\ changes[1] = c
  OBVIOUS
<1>3. /\ Len(rest) = n - 1 /\ DOMAIN rest = 1 .. n - 1
      /\ \A i \in 1 .. n - 1 : rest[i] = changes[i + 1]
  BY <1>2
<1> HIDE DEF c, rest, n
<1>4. c.old = from[c.page] /\ c.old # c.new /\ tiers[1] = start
  <2>1. 1 \in 1 .. n /\ 1 - 1 = 0
    BY <1>2
  <2>2. QED BY <1>1, <1>2, <2>1
<1> HIDE DEF start
<1> DEFINE path == [i \in 0 .. n - 1 |-> tiers[i + 1]]
<1>5. path \in [0 .. n - 1 -> Tiers] /\ path[0] = start /\ path[n - 1] = to
  BY <1>1, <1>2, <1>4
<1>6. ASSUME NEW i \in 1 .. n - 1
      PROVE  /\ rest[i].old = path[i - 1][rest[i].page]
             /\ rest[i].old # rest[i].new
             /\ path[i] = [path[i - 1] EXCEPT ![rest[i].page] = rest[i].new]
  <2>1. i + 1 \in 1 .. n /\ (i + 1) - 1 = i /\ i \in 0 .. n - 1 /\ i - 1 \in 0 .. n - 1
        /\ (i - 1) + 1 = i
    BY <1>2
  <2>2. path[i] = tiers[i + 1] /\ path[i - 1] = tiers[i] /\ rest[i] = changes[i + 1]
    BY <1>3, <2>1
  <2> HIDE DEF path
  <2> DEFINE j == i + 1
  <2>3. j \in DOMAIN changes /\ j - 1 = i
    BY <1>2, <2>1
  <2> HIDE DEF j
  <2>4. /\ changes[j].old = tiers[i][changes[j].page]
        /\ changes[j].old # changes[j].new
        /\ tiers[j] = [tiers[i] EXCEPT ![changes[j].page] = changes[j].new]
    BY <1>1, <2>3
  <2>5. QED BY <2>2, <2>4 DEF j
<1> HIDE DEF path
<1> DEFINE m == n - 1
<1>7. Leads(rest, start, to)
  <2>1. m = Len(rest) /\ path \in [0 .. m -> Tiers] /\ path[m] = to
    BY <1>3, <1>5
  <2>2. Follows(path, rest)
    BY <1>3, <1>6 DEF Follows
  <2> HIDE DEF m
  <2>3. Leads(rest, path[0], path[m])
    BY <2>1, <2>2, PathLeads
  <2>4. QED BY <1>5, <2>1, <2>3
<1>8. QED BY <1>4, <1>7 DEF c, rest, start

(* A recorded change moves its page from one gauge to another.             *)
LEMMA RecordGauges ==
    ASSUME GaugesInv, TypeOK', RecordTierChange
    PROVE  GaugesInv'
<1> DEFINE r == Head(reports)
<1>1. /\ TypeOK /\ seen \in Tiers /\ tier \in Tiers /\ reports \in Seq(Change)
      /\ reports # <<>> /\ Leads(reports, seen, tier)
  BY DEF GaugesInv, TypeOK, RecordTierChange, Tiers
<1>2. /\ count' = Incremented(Decremented(count, r.old), r.new)
      /\ seen' = [seen EXCEPT ![r.page] = r.new]
      /\ reports' = Tail(reports) /\ tier' = tier /\ wasReset' = wasReset
  BY DEF RecordTierChange
<1>3. /\ r.page \in Page /\ r.old \in Tier \cup {Absent} /\ r.new \in Tier \cup {Absent}
  <2>1. r \in Change
    BY <1>1
  <2>2. QED BY <2>1 DEF Change
<1>4. r.old = seen[r.page] /\ r.old # r.new /\ Leads(reports', seen', tier')
  BY <1>1, <1>2, TailLeads
<1> HIDE DEF r
<1>5. ASSUME ~wasReset, NEW t \in Tier
      PROVE  count'[<<"pages_in", t>>] = Cardinality(PagesIn(t)')
  <2> DEFINE g == <<"pages_in", t>>
             old == PagesIn(t)
  <2>1. /\ g \in Name /\ count[g] = Cardinality(old) /\ count[g] \in Nat
        /\ \A u : <<"pages_in", u>> = g => u = t
    BY <1>1, <1>5 DEF GaugesInv, GaugesCountPages, TypeOK, Name, Gauges
  <2>2. IsFiniteSet(old) /\ old \subseteq Page
    BY FS_Subset, TelemetryAssumption DEF PagesIn, TelemetryAssumption
  <2>3. /\ \A q \in Page : seen'[q] = IF q = r.page THEN r.new ELSE seen[q]
    BY <1>1, <1>2, <1>3 DEF Tiers
  <2>4. CASE t = r.old
    <3>1. PagesIn(t)' = old \ {r.page} /\ r.page \in old
      BY <1>3, <1>4, <2>3, <2>4 DEF PagesIn
    <3>2. Cardinality(PagesIn(t)') = count[g] - 1 /\ count[g] > 0
      <4> HIDE DEF old, g
      <4>1. Cardinality(old \ {r.page}) = Cardinality(old) - 1
        BY <2>2, <3>1, FS_RemoveElement
      <4>2. Cardinality(old) # 0
        BY <2>2, <3>1, FS_EmptySet
      <4>3. QED BY <2>1, <3>1, <4>1, <4>2
    <3>3. count'[g] = count[g] - 1
      BY <1>2, <1>4, <2>1, <2>4, <3>2 DEF Incremented, Decremented
    <3>4. QED BY <3>2, <3>3
  <2>5. CASE t = r.new
    <3>1. PagesIn(t)' = old \cup {r.page} /\ r.page \notin old
      BY <1>3, <1>4, <2>3, <2>5 DEF PagesIn
    <3>2. Cardinality(PagesIn(t)') = count[g] + 1
      <4> HIDE DEF old, g
      <4>1. Cardinality(old \cup {r.page}) = Cardinality(old) + 1
        BY <2>2, <3>1, FS_AddElement
      <4>2. QED BY <2>1, <3>1, <4>1
    <3>3. count'[g] = count[g] + 1
      BY <1>2, <1>4, <2>1, <2>5 DEF Incremented, Decremented
    <3>4. QED BY <3>2, <3>3
  <2>6. CASE t # r.old /\ t # r.new
    <3>1. PagesIn(t)' = old
      BY <1>4, <2>3, <2>6 DEF PagesIn
    <3>2. count'[g] = count[g]
      BY <1>2, <2>1, <2>6 DEF Incremented, Decremented
    <3>3. QED BY <2>1, <3>1, <3>2
  <2>7. QED BY <2>4, <2>5, <2>6
<1>6. GaugesCountPages'
  BY <1>2, <1>5 DEF GaugesCountPages
<1>7. QED BY <1>4, <1>6 DEF GaugesInv

(* Every other step leaves the gauges alone, or resets them.               *)
LEMMA OtherGauges ==
    ASSUME GaugesInv, TypeOK', UNCHANGED <<tier, reports, seen>>,
           \/ wasReset'
           \/ /\ wasReset' = wasReset
              /\ \A t \in Tier : count'[<<"pages_in", t>>] = count[<<"pages_in", t>>]
    PROVE  GaugesInv'
BY DEF GaugesInv, GaugesCountPages, PagesIn

LEMMA GaugesStep ==
    ASSUME TelemetryInv, GaugesInv, [Next]_vars
    PROVE  GaugesInv'
<1>1. TypeOK /\ TypeOK'
  BY StepInv DEF TelemetryInv
<1>2. ASSUME NEW n \in Counted, Record(n) PROVE GaugesInv'
  <2>1. \A t \in Tier : <<"pages_in", t>> # n /\ <<"pages_in", t>> \in Name
    <3>1. n[1] \in {"migrations", "pressure"}
      BY DEF Counted
    <3>2. QED BY <3>1 DEF Name, Gauges
  <2>2. \A t \in Tier : count'[<<"pages_in", t>>] = count[<<"pages_in", t>>]
    BY <1>1, <1>2, <2>1 DEF Record, TypeOK
  <2>3. QED BY <1>1, <1>2, <2>2, OtherGauges DEF Record, pages
<1>3. ASSUME NEW p \in Page, NEW t \in Tier \cup {Absent}, ChangeTier(p, t)
      PROVE  GaugesInv'
  <2>1. Leads(reports, seen, tier)'
    <3>1. /\ tier' = [tier EXCEPT ![p] = t] /\ seen' = seen /\ t # tier[p]
          /\ reports' = Append(reports, [page |-> p, old |-> tier[p], new |-> t])
      BY <1>3 DEF ChangeTier
    <3>2. /\ seen \in Tiers /\ tier \in Tiers /\ reports \in Seq(Change)
          /\ Leads(reports, seen, tier)
      BY <1>1 DEF GaugesInv, TypeOK, Tiers
    <3>3. QED BY <3>1, <3>2, AppendLeads
  <2>2. GaugesCountPages'
    BY <1>3 DEF ChangeTier, GaugesInv, GaugesCountPages, PagesIn
  <2>3. QED BY <1>1, <2>1, <2>2 DEF GaugesInv
<1>4. CASE RecordTierChange
  BY <1>1, <1>4, RecordGauges
<1>5. CASE Reset
  BY <1>1, <1>5, OtherGauges DEF Reset, pages
<1>6. CASE Exporter \/ UNCHANGED vars
  <2>1. UNCHANGED <<count, tier, reports, seen, wasReset>>
    BY <1>6 DEF Exporter, Start, Stop, BeginUpdate, WriteMetric, UpdateRaises, pages, vars
  <2>2. QED BY <1>1, <2>1, OtherGauges
<1>7. QED BY <1>2, <1>3, <1>4, <1>5, <1>6 DEF Next, Loop

(* The gauges count the pages: for any number of pages and tiers, and any  *)
(* number of changes that are recorded late.                               *)
THEOREM GaugesAreRight == Spec => []GaugesCountPages
<1>1. Init => GaugesInv
  <2> SUFFICES ASSUME Init PROVE GaugesInv
    OBVIOUS
  <2>1. TypeOK
    BY InitInv DEF TelemetryInv
  <2>2. Leads(reports, seen, tier)
    <3> DEFINE path == [i \in 0 .. 0 |-> tier]
    <3>1. path \in [0 .. 0 -> [Page -> Tier \cup {Absent}]] /\ path[0] = tier
      BY <2>1 DEF TypeOK
    <3>2. seen = tier /\ Len(reports) = 0 /\ DOMAIN reports = {}
      BY DEF Init
    <3> HIDE DEF path
    <3>3. QED BY <3>1, <3>2 DEF Leads
  <2>3. GaugesCountPages
    <3>1. \A t \in Tier : PagesIn(t) = {} /\ count[<<"pages_in", t>>] = 0
      BY TelemetryAssumption
         DEF Init, PagesIn, Zero, Name, Gauges, TelemetryAssumption, Absent
    <3>2. QED BY <3>1, FS_EmptySet DEF GaugesCountPages
  <2>4. QED BY <2>1, <2>2, <2>3 DEF GaugesInv
<1>2. TelemetryInv /\ GaugesInv /\ [Next]_vars => GaugesInv'
  BY GaugesStep
<1>3. GaugesInv => GaugesCountPages
  BY DEF GaugesInv
<1>4. QED BY <1>1, <1>2, <1>3, TelemetryInvariant, PTL DEF Spec
=============================================================================
