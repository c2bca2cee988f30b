------------------------------ MODULE Telemetry ------------------------------
(***************************************************************************)
(* telemetry/counters.py and telemetry/prometheus.py: counters that the    *)
(* decode loop increments, and the exporter that copies them, on a scrape  *)
(* interval and in a thread of its own, to the metrics of an HTTP server.  *)
(*                                                                         *)
(* The counters are protected by one lock, so each of their operations is  *)
(* one step; update() is not, and is a step per metric it writes.          *)
(***************************************************************************)
EXTENDS Integers, FiniteSets, Sequences

CONSTANTS
    Status,         \* status_int of the migrations recorded
    Tier,           \* tiers with a gauge
    State,          \* state_int of the pressures recorded
    Page,           \* pages whose tier changes are recorded
    Port,           \* ports start() is called with
    NoPort,         \* the exporter is stopped
    MaxCount,       \* bound on the events recorded under one name
    MaxReports      \* bound on the tier changes not recorded yet

Absent == -1    \* the tier of a page that is not in the table

Counted == ({"migrations"} \X Status) \cup ({"pressure"} \X State)
Gauges == {"pages_in"} \X Tier
Name == Counted \cup Gauges

OK == 0
FAILURE == 2
CORRUPT == 4

(* start() makes no metric for SKIPPED and FALLBACK.  The metrics of the   *)
(* gauges, which are set to what the snapshot says, are left out.          *)
Metric == {n \in Counted : n[1] = "migrations" => n[2] \in {OK, FAILURE, CORRUPT}}

ASSUME TelemetryAssumption ==
    /\ Status \subseteq Nat
    /\ Tier \subseteq Nat
    /\ State \subseteq Nat
    /\ IsFiniteSet(Page)
    /\ NoPort \notin Port
    /\ MaxCount \in Nat
    /\ MaxReports \in Nat

VARIABLES
    count,      \* Counters: the value of each name
    tier,       \* page table: the tier of each page
    reports,    \* integration: tier changes to be recorded, oldest first
    current,    \* exporter: its registry, named by the port that serves it
    bound,      \* ports a server of this process listens on
    exported,   \* exported[p][n]: the metric n that port p serves
    last,       \* last[p][n]: its _ashkv_last
    update,     \* the update() in progress
    happened,   \* history: the events recorded under each name
    seen,       \* history: the tier of each page that was last recorded
    wasReset    \* history

exporter == <<current, bound, exported, last, update>>
pages == <<tier, reports, seen>>
vars == <<count, exporter, pages, happened, wasReset>>

Zero == [n \in Name |-> 0]
Blank == [n \in Metric |-> 0]

(* update()'s locals: its snapshot, the metrics it has yet to write; and,  *)
(* for the properties, the events recorded when the snapshot was taken.    *)
Update ==
    [snap : [Metric -> Nat], todo : SUBSET Metric, base : [Metric -> Nat]]
IdleUpdate == [snap |-> Blank, todo |-> {}, base |-> Blank]

Change == [page : Page, old : Tier \cup {Absent}, new : Tier \cup {Absent}]

TypeOK ==
    /\ count \in [Name -> Nat]
    /\ tier \in [Page -> Tier \cup {Absent}]
    /\ reports \in Seq(Change)
    /\ current \in Port \cup {NoPort}
    /\ bound \subseteq Port
    /\ exported \in [Port -> [Metric -> Nat]]
    /\ last \in [Port -> [Metric -> Nat]]
    /\ update \in Update
    /\ happened \in [Counted -> Nat]
    /\ seen \in [Page -> Tier \cup {Absent}]
    /\ wasReset \in BOOLEAN

-----------------------------------------------------------------------------
Init ==
    /\ count = Zero
    /\ tier = [p \in Page |-> Absent]
    /\ reports = <<>>
    /\ current = NoPort
    /\ bound = {}
    /\ exported = [p \in Port |-> Blank]
    /\ last = [p \in Port |-> Blank]
    /\ update = IdleUpdate
    /\ happened = [n \in Counted |-> 0]
    /\ seen = [p \in Page |-> Absent]
    /\ wasReset = FALSE

(* record_migration() and record_pressure().                               *)
Record(n) ==
    /\ happened[n] < MaxCount
    /\ count' = [count EXCEPT ![n] = @ + 1]
    /\ happened' = [happened EXCEPT ![n] = @ + 1]
    /\ UNCHANGED <<exporter, pages, wasReset>>

(* A page comes, is migrated or goes; the loop will record it.  Counters   *)
(* have no operation for a page that comes or goes: it is recorded as a    *)
(* change from, or to, a tier that no branch of the if-chains knows.       *)
ChangeTier(p, t) ==
    /\ t # tier[p]
    /\ Len(reports) < MaxReports
    /\ tier' = [tier EXCEPT ![p] = t]
    /\ reports' = Append(reports, [page |-> p, old |-> tier[p], new |-> t])
    /\ UNCHANGED <<count, exporter, seen, happened, wasReset>>

(* _decrement_tier() and _increment_tier().                                *)
Decremented(c, t) ==
    [n \in Name |-> IF n = <<"pages_in", t>> /\ c[n] > 0 THEN c[n] - 1 ELSE c[n]]

Incremented(c, t) ==
    [n \in Name |-> IF n = <<"pages_in", t>> THEN c[n] + 1 ELSE c[n]]

(* Defect: the lock is given up between the decrement and the increment,   *)
(* which is done as a change of its own.                                   *)
RecordTierChangeInTwoSteps ==
    /\ reports # <<>>
    /\ LET r == Head(reports)
       IN  IF r.old # Absent /\ r.new # Absent
           THEN /\ count' = Decremented(count, r.old)
                /\ reports' = <<[r EXCEPT !.old = Absent]>> \o Tail(reports)
                /\ UNCHANGED seen
           ELSE /\ count' = Incremented(Decremented(count, r.old), r.new)
                /\ reports' = Tail(reports)
                /\ seen' = [seen EXCEPT ![r.page] = r.new]
    /\ UNCHANGED <<tier, exporter, happened, wasReset>>

(* record_tier_change().                                                   *)
RecordTierChange ==
    /\ reports # <<>>
    /\ LET r == Head(reports)
       IN  /\ count' = Incremented(Decremented(count, r.old), r.new)
           /\ seen' = [seen EXCEPT ![r.page] = r.new]
    /\ reports' = Tail(reports)
    /\ UNCHANGED <<tier, exporter, happened, wasReset>>

(* reset(); bound: once.                                                   *)
Reset ==
    /\ ~wasReset
    /\ count' = Zero
    /\ wasReset' = TRUE
    /\ UNCHANGED <<exporter, pages, happened>>

-----------------------------------------------------------------------------
(* The exporter.                                                           *)

(* Defect: a new registry continues where the counters are.                *)
StartFromNow(p) ==
    /\ current = NoPort
    /\ p \notin bound
    /\ current' = p
    /\ bound' = bound \cup {p}
    /\ last' = [last EXCEPT ![p] = [n \in Metric |-> count[n]]]
    /\ UNCHANGED <<exported, update, count, pages, happened, wasReset>>

(* start(): a registry with fresh metrics, served on the port.  Where the  *)
(* port is in use start_http_server raises, as it may for other reasons,   *)
(* and the exporter stays stopped; when started already, nothing happens.  *)
Start(p) ==
    /\ current = NoPort
    /\ p \notin bound
    /\ current' = p
    /\ bound' = bound \cup {p}
    /\ UNCHANGED <<exported, last, update, count, pages, happened, wasReset>>

(* stop(): forgets registry and metrics; the server goes on serving them.  *)
Stop ==
    /\ current # NoPort
    /\ current' = NoPort
    /\ UNCHANGED <<bound, exported, last, update, count, pages, happened, wasReset>>

(* update(): takes a snapshot ...                                          *)
BeginUpdate ==
    /\ current # NoPort
    /\ update.todo = {}
    /\ update' = [snap |-> [n \in Metric |-> count[n]], todo |-> Metric,
                   base |-> [n \in Metric |-> happened[n]]]
    /\ UNCHANGED <<current, bound, exported, last, count, pages, happened, wasReset>>

(* The loop is over the names in the order of the snapshot, always the     *)
(* same; which one it is matters to nothing here.                          *)
IsNext(n) == update.todo # {} /\ n = CHOOSE m \in update.todo : TRUE

Written(n) ==
    update' = IF update.todo = {n} THEN IdleUpdate
              ELSE [update EXCEPT !.todo = @ \ {n}]

(* Defect: the value is read again, and the one of the snapshot remembered.*)
WriteMetricReadsAgain(n) ==
    /\ IsNext(n)
    /\ Written(n)
    /\ IF current = NoPort
       THEN UNCHANGED <<exported, last>>
       ELSE /\ exported' = [exported EXCEPT ![current][n] =
                    IF count[n] > last[current][n]
                    THEN @ + (count[n] - last[current][n]) ELSE @]
            /\ last' = [last EXCEPT ![current][n] = update.snap[n]]
    /\ UNCHANGED <<current, bound, count, pages, happened, wasReset>>

(* ... and writes it, metric by metric, to the registry of the moment: a   *)
(* counter is incremented by what came since the value seen last.          *)
WriteMetric(n) ==
    /\ IsNext(n)
    /\ Written(n)
    /\ IF current = NoPort
       THEN UNCHANGED <<exported, last>>
       ELSE /\ exported' = [exported EXCEPT ![current][n] =
                    IF update.snap[n] > last[current][n]
                    THEN @ + (update.snap[n] - last[current][n]) ELSE @]
            /\ last' = [last EXCEPT ![current][n] = update.snap[n]]
    /\ UNCHANGED <<current, bound, count, pages, happened, wasReset>>

(* The client library raises: the metrics not written yet are left.        *)
UpdateRaises ==
    /\ update.todo # {}
    /\ update' = IdleUpdate
    /\ UNCHANGED <<current, bound, exported, last, count, pages, happened, wasReset>>

-----------------------------------------------------------------------------
Loop ==
    \/ \E n \in Counted : Record(n)
    \/ \E p \in Page, t \in Tier \cup {Absent} : ChangeTier(p, t)
    \/ RecordTierChange
    \/ Reset

Exporter ==
    \/ \E p \in Port : Start(p)
    \/ Stop
    \/ BeginUpdate
    \/ \E n \in Metric : WriteMetric(n)
    \/ UpdateRaises

Next == Loop \/ Exporter

Spec == Init /\ [][Next]_vars

(* update() is called again and again while the exporter runs, and not     *)
(* every call of it fails before a given metric.                           *)
FairSpec ==
    /\ Spec
    /\ WF_vars(BeginUpdate)
    /\ \A n \in Metric : SF_vars(WriteMetric(n))

-----------------------------------------------------------------------------
PagesIn(t) == {p \in Page : seen[p] = t}

(* The gauges count the pages, at every moment, as far as changes were     *)
(* recorded: no page is missing or counted twice between two of them, and  *)
(* the clamp at zero never swallows a page, as long as nobody resets.      *)
GaugesCountPages ==
    ~wasReset => \A t \in Tier : count[<<"pages_in", t>>] = Cardinality(PagesIn(t))

(* No port ever serves more events than happened, whatever is reset,       *)
(* stopped and started again, and whenever an update reads and writes.     *)
NeverAhead ==
    \A p \in Port, n \in Metric : exported[p][n] <= happened[n]

(* A counted event is served some time, unless the exporter is stopped or  *)
(* the counters are reset before.                                          *)
CatchesUp ==
    \A p \in Port, n \in Metric, k \in 1 .. MaxCount :
        (current = p /\ count[n] >= k)
            ~> (exported[p][n] >= k \/ current # p \/ wasReset)

-----------------------------------------------------------------------------
(* What makes NeverAhead inductive: an event that has been counted and not *)
(* been served yet has happened since the value the exporter saw last; and *)
(* an update in progress writes no more than had happened at its snapshot. *)
Behind(c, h) ==
    \A p \in Port, n \in Metric :
        /\ exported[p][n] <= h[n]
        /\ exported[p][n] + c[n] - last[p][n] <= h[n]

Snapshot ==
    \A n \in update.todo  :
        /\ update.base[n] <= happened[n]
        /\ count[n] - update.snap[n] <= happened[n] - update.base[n]
        /\ \A p \in Port :
            /\ exported[p][n] <= update.base[n]
            /\ exported[p][n] + update.snap[n] - last[p][n] <= update.base[n]

TelemetryInv == TypeOK /\ Behind(count, happened) /\ Snapshot

(* What makes GaugesCountPages inductive: the changes still to be recorded *)
(* lead, one after the other, from the tiers last recorded to the tiers    *)
(* the pages are in, so that none of them decrements a gauge in vain.      *)
Leads(changes, from, to) ==
    \E tiers \in [0 .. Len(changes) -> [Page -> Tier \cup {Absent}]] :
        /\ tiers[0] = from
        /\ tiers[Len(changes)] = to
        /\ \A i \in DOMAIN changes :
            LET c == changes[i]
            IN  /\ c.old = tiers[i - 1][c.page]
                /\ c.old # c.new
                /\ tiers[i] = [tiers[i - 1] EXCEPT ![c.page] = c.new]

GaugesInv == TypeOK /\ Leads(reports, seen, tier) /\ GaugesCountPages
=============================================================================
