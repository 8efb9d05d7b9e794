----------------------------- MODULE DashboardCache -----------------------------
(***************************************************************************)
(* The dashboard of one user (domain/dashboard) and the cache it is kept in *)
(* (core/cache): the metrics hold counts of their own, and the KPIs and the *)
(* recent activities, which are cached for all users of the tenant under    *)
(* keys of their own.  Whoever changes what it counts commits, and then     *)
(* deletes the keys of the tenant's dashboards, one after the other.        *)
(*                                                                          *)
(* Redis may fail at any call: what is asked for is not found, what is set  *)
(* or deleted is not.  Data are represented by their age, in ticks, since   *)
(* they were read from the database, and by whether they miss a change.     *)
(***************************************************************************)
EXTENDS Integers

CONSTANTS
    Viewer,       \* requests for the dashboard
    Part,         \* what the metrics include from keys of their own
    TTL_METRICS,  \* lifetimes, in ticks
    TTL_PART,     \* a function of the part
    MaxDelay      \* bound: ticks that a request takes

VARIABLES
    metrics,   \* the entry of the metrics
    parts,     \* those of the parts
    view,      \* the requests
    deleting,  \* keys that whoever changed the data has still to delete
    raced      \* history: a dashboard was computed while a change was committed or the
               \* keys deleted, or Redis failed to delete

vars == <<metrics, parts, view, deleting, raced>>

\* Data read age ticks ago, since when there was a change (stale) or not.
Fresh == [age |-> 0, stale |-> FALSE]

Nothing == [age |-> -1, stale |-> FALSE]

\* No entry.
Missing == [left |-> 0, data |-> Nothing]

NoMetrics == [left |-> 0, data |-> Nothing, parts |-> [p \in Part |-> Nothing]]

NoView == [stage |-> "none", took |-> 0, data |-> Nothing, parts |-> [p \in Part |-> Nothing], computed |-> Nothing]

Init ==
    /\ metrics = NoMetrics /\ parts = [p \in Part |-> Missing]
    /\ view = [v \in Viewer |-> NoView]
    /\ deleting = {} /\ raced = FALSE

Working(v) == view[v].stage # "none"

------------------------------------------------------------------------------
(* get_metrics.                                                             *)

\* The metrics are not in the cache, or Redis fails: the counts are read.
\* (When they are, they are the answer, and nothing changes.)
Miss(v) ==
    /\ ~Working(v)
    /\ view' = [view EXCEPT ![v] = [NoView EXCEPT !.stage = "counted", !.data = Fresh]]
    /\ raced' = (raced \/ deleting # {})
    /\ UNCHANGED <<metrics, parts, deleting>>

\* (As Kept, beginning its lifetime again.)
KeptAgain(entry, ttl) == IF entry.left > 0 THEN [entry EXCEPT !.left = ttl] ELSE entry

\* What being asked for makes of an entry.
Kept(entry, ttl) == entry

\* The next part is in the cache.
PartHit(v, p) ==
    /\ view[v].stage = "counted" /\ view[v].parts[p] = Nothing
    /\ parts[p].left > 0
    /\ view' = [view EXCEPT ![v].parts[p] = parts[p].data]
    /\ parts' = [parts EXCEPT ![p] = Kept(@, TTL_PART[p])]
    /\ UNCHANGED <<metrics, deleting, raced>>

\* It is not, or Redis fails: _recent_all, _compute_kpis read the database,
PartRead(v, p) ==
    /\ view[v].stage = "counted" /\ view[v].parts[p] = Nothing /\ view[v].computed = Nothing
    /\ view' = [view EXCEPT ![v].computed = Fresh]
    /\ UNCHANGED <<metrics, parts, deleting, raced>>

\* and set it, unless Redis fails.
PartSet(v, p) ==
    /\ view[v].stage = "counted" /\ view[v].parts[p] = Nothing /\ view[v].computed # Nothing
    /\ parts' \in {parts, [parts EXCEPT ![p] = [left |-> TTL_PART[p], data |-> view[v].computed]]}
    /\ view' = [view EXCEPT ![v].parts[p] = view[v].computed, ![v].computed = Nothing]
    /\ UNCHANGED <<metrics, deleting, raced>>

\* The metrics are set, and are the answer.
Answer(v) ==
    /\ view[v].stage = "counted" /\ \A p \in Part : view[v].parts[p] # Nothing
    /\ metrics' \in {metrics, [left |-> TTL_METRICS, data |-> view[v].data, parts |-> view[v].parts]}
    /\ view' = [view EXCEPT ![v] = NoView]
    /\ UNCHANGED <<parts, deleting, raced>>

\* The request ends without an answer.
Abort(v) ==
    /\ Working(v)
    /\ view' = [view EXCEPT ![v] = NoView]
    /\ UNCHANGED <<metrics, parts, deleting, raced>>

------------------------------------------------------------------------------
(* Changes.                                                                 *)

Missed(data) == IF data = Nothing THEN data ELSE [data EXCEPT !.stale = TRUE]

MissedByAll(included) == [p \in Part |-> Missed(included[p])]

\* The commit of a change of a work order, a punch, an adjustment.
Change ==
    /\ deleting = {}
    /\ metrics' = [metrics EXCEPT !.data = Missed(@), !.parts = MissedByAll(@)]
    /\ parts' = [p \in Part |-> [parts[p] EXCEPT !.data = Missed(@)]]
    /\ view' = [v \in Viewer |-> [view[v] EXCEPT !.data = Missed(@), !.parts = MissedByAll(@), !.computed = Missed(@)]]
    /\ deleting' = Part \cup {"metrics"}
    /\ raced' = (raced \/ \E v \in Viewer : Working(v))

\* (As Keys, of the metrics alone.)
MetricsKey == {"metrics"}

\* The keys that the pattern of invalidate_dashboard matches.
Keys == Part \cup {"metrics"}

\* invalidate deletes the next key.
Invalidate ==
    \E k \in deleting :
        /\ deleting' = deleting \ {k}
        /\ metrics' = IF k = "metrics" /\ k \in Keys THEN NoMetrics ELSE metrics
        /\ parts' = IF k \in Part \cap Keys THEN [parts EXCEPT ![k] = Missing] ELSE parts
        /\ raced' = (raced \/ \E v \in Viewer : Working(v))
        /\ UNCHANGED view

\* Redis fails: the others stay.
InvalidateFails ==
    /\ deleting # {} /\ deleting' = {} /\ raced' = TRUE
    /\ UNCHANGED <<metrics, parts, view>>

------------------------------------------------------------------------------
(* Time.                                                                    *)

Older(data) == IF data = Nothing THEN data ELSE [data EXCEPT !.age = @ + 1]

AllOlder(included) == [p \in Part |-> Older(included[p])]

Tick ==
    /\ \A v \in Viewer : Working(v) => view[v].took < MaxDelay
    /\ metrics' = IF metrics.left <= 1 THEN NoMetrics
                  ELSE [left |-> metrics.left - 1, data |-> Older(metrics.data), parts |-> AllOlder(metrics.parts)]
    /\ parts' = [p \in Part |-> IF parts[p].left <= 1 THEN Missing
                                ELSE [left |-> parts[p].left - 1, data |-> Older(parts[p].data)]]
    /\ view' = [v \in Viewer |->
                    IF Working(v)
                    THEN [view[v] EXCEPT !.took = @ + 1, !.data = Older(@), !.parts = AllOlder(@), !.computed = Older(@)]
                    ELSE view[v]]
    /\ UNCHANGED <<deleting, raced>>

Next ==
    \/ Change \/ Invalidate \/ InvalidateFails \/ Tick
    \/ \E v \in Viewer :
        \/ Miss(v) \/ Answer(v) \/ Abort(v)
        \/ \E p \in Part : PartHit(v, p) \/ PartRead(v, p) \/ PartSet(v, p)

Spec == Init /\ [][Next]_vars

------------------------------------------------------------------------------
(* Properties.                                                              *)

Data == [age : Nat, stale : BOOLEAN] \cup {Nothing}

\* Every variable keeps its type.
TypeOK ==
    /\ metrics.left \in 0..TTL_METRICS /\ metrics.data \in Data /\ \A p \in Part : metrics.parts[p] \in Data
    /\ \A p \in Part : parts[p].left \in 0..TTL_PART[p] /\ parts[p].data \in Data
    /\ \A v \in Viewer : view[v].stage \in {"none", "counted"} /\ view[v].took \in 0..MaxDelay
    /\ deleting \subseteq Part \cup {"metrics"} /\ raced \in BOOLEAN

\* Whatever is deleted too late, or not at all, what is shown is not older than
\* the lifetimes allow: a part is read before it is set, is found when its
\* lifetime is over, and is then part of metrics with a lifetime of their own.
AgeIsBounded ==
    /\ metrics.data.age < TTL_METRICS + MaxDelay
    /\ \A p \in Part :
        /\ parts[p].data.age < TTL_PART[p] + MaxDelay
        /\ metrics.parts[p].age < TTL_PART[p] + TTL_METRICS + 2 * MaxDelay

\* As long as no dashboard was computed during a change or its invalidation, and
\* Redis did not fail to delete, nothing that misses a change survives its invalidation.
InvalidatedIsGone ==
    (~raced /\ deleting = {}) =>
        /\ ~metrics.data.stale
        /\ \A p \in Part : ~parts[p].data.stale /\ ~metrics.parts[p].stale

DashboardIsFresh == AgeIsBounded /\ InvalidatedIsGone
=============================================================================
