------------------------------- MODULE Labels --------------------------------
(***************************************************************************)
(* Label routing inside the leader's rebalance: readWorkerLabels, the      *)
(* topology and the assignment per pool (internal/assignment/labels.go),   *)
(* the defer, park and spill decisions with their grace clock and the      *)
(* re-check that must follow (labels_state.go), as the calculator's        *)
(* labelRoutedAssignments puts them together.                              *)
(*                                                                         *)
(* A rebalance is one step (rebalanceMu).  What the strategy makes of a    *)
(* pool is not told apart: the model publishes the pool a partition was    *)
(* routed to, the empty pool for a parked one.  Time is counted in ticks.  *)
(***************************************************************************)
EXTENDS Integers, FiniteSets, FiniteSetsExt

CONSTANTS Member, Label, Labelled,
          policy,      \* UnlabeledPartitionPolicy
          SpillGrace,  \* LabelSpillGrace, in ticks
          MaxChanges,  \* bound: changes of the fleet and of the partitions
          MaxErrors    \* bound: unreadable heartbeats and failed publications

VARIABLES
    fleet,          \* worker -> "off" or its label ("" for none)
    group,          \* partition -> its label ("" for none)
    emptySince,     \* label -> ticks since the first empty observation
    emptyStreak, unknownStreak,
    pending,        \* pendingLabelRecheck
    timer,          \* labelRecheckTimer
    owed,           \* another lifecycle has a change to rebalance for
    routed,         \* partition -> the pool it was last published to
    changes, errors,
    vacant,         \* history: ticks since a rebalance saw a worker of the label
    spilled,        \* history: labels spilled by the last rebalance
    dropped         \* history: a re-check ended in an error

\* LabelSpillGrace is a duration that Validate accepts.
ASSUME SpillGraceAssumption == SpillGrace \in Nat

labelState == <<emptySince, emptyStreak, unknownStreak>>
env == <<fleet, group, changes>>
labelsVars == <<env, labelState, pending, timer, owed, routed, errors, vacant, spilled, dropped>>

Unset == -1
Nil == -1
Fired == -2
Unlabeled == ""
Off == "off"

LabelsInit ==
    /\ fleet \in [Member -> Label \cup {Unlabeled}]
    /\ group \in [Labelled -> Label \cup {Unlabeled}]
    /\ emptySince = [l \in Label |-> Unset]
    /\ emptyStreak = [l \in Label |-> 0]
    /\ unknownStreak = [w \in Member |-> 0]
    /\ pending = FALSE /\ timer = Nil /\ owed = TRUE
    /\ routed = [p \in Labelled |-> {}]
    /\ changes = 0 /\ errors = 0
    /\ vacant = [l \in Label |-> 0] /\ spilled = {} /\ dropped = FALSE

-----------------------------------------------------------------------------
(* buildLabelTopology over the active workers minus the unknown ones. *)

Active == {w \in Member : fleet[w] # Off}
AllWorkers(unknown) == Active \ unknown
FallbackPool(unknown) == {w \in AllWorkers(unknown) : fleet[w] = Unlabeled}
Pool(l, unknown) == {w \in AllWorkers(unknown) : fleet[w] = l}
GeneralPool(unknown) ==
    IF policy = "shared" THEN AllWorkers(unknown) ELSE FallbackPool(unknown)
SortedLabels == {group[p] : p \in Labelled} \ {Unlabeled}
EmptyLabels(unknown) == {l \in SortedLabels : Pool(l, unknown) = {}}

\* computeLabelAssignments: an empty pool falls back to all workers.
OrAll(pool, unknown) == IF pool = {} THEN AllWorkers(unknown) ELSE pool

computeLabelAssignments(unknown, spill) ==
    [p \in Labelled |->
        CASE group[p] = Unlabeled -> OrAll(GeneralPool(unknown), unknown)
          [] group[p] # Unlabeled /\ Pool(group[p], unknown) # {} -> Pool(group[p], unknown)
          [] group[p] \in spill -> OrAll(FallbackPool(unknown), unknown)
          [] OTHER -> {}]

-----------------------------------------------------------------------------
(* labelState. *)

\* observeUnknownWorkers keeps only the streaks of workers unknown now.
observeUnknownWorkers(unknown) ==
    unknownStreak' = [w \in Member |->
        IF w \notin unknown THEN 0
        ELSE IF unknownStreak[w] < 2 THEN unknownStreak[w] + 1 ELSE 2]

UnknownDeferred(unknown) == \E w \in unknown : unknownStreak[w] = 0

NonEmptyForgotten(l, unknown) == l \notin SortedLabels

\* observeNonEmpty and prune forget the label.
Forgets(l, unknown) == l \notin SortedLabels \/ Pool(l, unknown) # {}

observeEmptyPools(unknown) ==
    /\ emptySince' = [l \in Label |->
           IF Forgets(l, unknown) THEN Unset
           ELSE IF emptySince[l] = Unset THEN 0 ELSE emptySince[l]]
    /\ emptyStreak' = [l \in Label |->
           IF Forgets(l, unknown) THEN 0
           ELSE IF emptyStreak[l] < 2 THEN emptyStreak[l] + 1 ELSE 2]

EmptyDeferred(unknown) == \E l \in EmptyLabels(unknown) : emptyStreak[l] = 0
Spills(unknown) == {l \in EmptyLabels(unknown) : emptySince[l] >= SpillGrace}

\* minRemainingGrace over every clock, the crossed ones of spilled labels
\* included, which count as zero.
minRemainingGrace(since) ==
    Min({SpillGrace - since[l] : l \in {x \in Label : since[x] # Unset}})

\* The 50 ms added to the remaining grace are one tick.
Margin == 1

ArmOnce(parked, flag) ==
    timer' = IF parked /\ timer = Nil THEN minRemainingGrace(emptySince') + Margin ELSE timer

armLabelRecheckAfterRebalance(parked, flag) ==
    timer' = IF parked THEN minRemainingGrace(emptySince') + Margin
             ELSE IF flag THEN timer ELSE Nil

-----------------------------------------------------------------------------
(* The rebalance. *)

\* readWorkerLabels: at most max(1, n/10) unreadable workers are tolerated.
BroadFailure(unknown) == Cardinality(unknown) > Max({1, Cardinality(Active) \div 10})

\* The rebalance returns an error before or in Publish.  observed tells
\* whether the observation was made (the read did not fail broadly).
RoutingFails(unknown, observed) ==
    /\ errors < MaxErrors /\ errors' = errors + 1
    /\ IF observed THEN observeUnknownWorkers(unknown) /\ observeEmptyPools(unknown)
       ELSE UNCHANGED labelState
    /\ UNCHANGED <<timer, routed, spilled>>

Deferred(unknown) == UnknownDeferred(unknown) \/ EmptyDeferred(unknown)

\* labelRoutedAssignments, publication and armLabelRecheckAfterRebalance, or
\* the deferral with its requestLabelRecheck.  flag is pendingLabelRecheck
\* while the rebalance runs.
RoutingRuns(unknown, flag) ==
    /\ errors + Cardinality(unknown) <= MaxErrors
    /\ errors' = errors + Cardinality(unknown)
    /\ ~BroadFailure(unknown)
    /\ observeUnknownWorkers(unknown)
    /\ observeEmptyPools(unknown)
    /\ IF Deferred(unknown)
       THEN /\ pending' = TRUE
            /\ UNCHANGED <<timer, routed, spilled>>
       ELSE LET spill == Spills(unknown) IN
            /\ pending' = flag
            /\ AllWorkers(unknown) # {}
            /\ routed' = computeLabelAssignments(unknown, spill)
            /\ spilled' = spill
            /\ armLabelRecheckAfterRebalance(EmptyLabels(unknown) \ spill # {}, flag)

\* vacant is reset by every observation that saw a worker of the label, and
\* for a label no partition has.
Vacancy(unknown) ==
    vacant' = [l \in Label |->
        IF l \notin SortedLabels \/ Pool(l, unknown) # {} THEN 0 ELSE vacant[l]]

\* A rebalance of another lifecycle.  A failed one is tried again.
LifecycleRebalance ==
    /\ owed /\ Active # {}
    /\ \E unknown \in SUBSET Active :
        \/ /\ RoutingRuns(unknown, pending)
           /\ owed' = FALSE
           /\ Vacancy(unknown)
        \/ \E observed \in BOOLEAN :
           /\ RoutingFails(unknown, observed)
           /\ (observed => ~BroadFailure(unknown))
           /\ UNCHANGED <<owed, pending>>
           /\ IF observed THEN Vacancy(unknown) ELSE UNCHANGED vacant
    /\ UNCHANGED <<env, dropped>>

\* monitorLabelRecheck takes the flag, rebalances, and puts the flag back only
\* after a deferral.
monitorLabelRecheck ==
    /\ pending /\ Active # {}
    /\ \E unknown \in SUBSET Active :
        \/ /\ RoutingRuns(unknown, FALSE)
           /\ Vacancy(unknown)
           /\ UNCHANGED dropped
        \/ \E observed \in BOOLEAN :
           /\ RoutingFails(unknown, observed)
           /\ (observed => ~BroadFailure(unknown))
           /\ pending' = FALSE
           /\ dropped' = TRUE
           /\ IF observed THEN Vacancy(unknown) ELSE UNCHANGED vacant
    /\ UNCHANGED <<env, owed>>

\* The timer's function requests a re-check.
TimerFires ==
    /\ timer = 0
    /\ timer' = Fired /\ pending' = TRUE
    /\ UNCHANGED <<env, labelState, owed, routed, errors, vacant, spilled, dropped>>

-----------------------------------------------------------------------------
(* The clock and the environment. *)

OneTickOn(n) == IF n \in 0 .. SpillGrace - 1 THEN n + 1 ELSE n

Tick ==
    /\ emptySince' = [l \in Label |-> OneTickOn(emptySince[l])]
    /\ vacant' = [l \in Label |-> OneTickOn(vacant[l])]
    /\ timer' = IF timer > 0 THEN timer - 1 ELSE timer
    /\ timer # 0
    /\ UNCHANGED <<env, emptyStreak, unknownStreak, pending, owed, routed, errors,
                   spilled, dropped>>

\* A worker leaves, joins or restarts with another label.
PoolsChange ==
    /\ changes < MaxChanges /\ changes' = changes + 1
    /\ \E w \in Member, l \in Label \cup {Unlabeled, Off} :
           l # fleet[w] /\ fleet' = [fleet EXCEPT ![w] = l]
    /\ owed' = TRUE
    /\ UNCHANGED <<group, labelState, pending, timer, routed, errors, vacant,
                   spilled, dropped>>

\* A partition is relabelled in the source.
PartitionRelabelled ==
    /\ changes < MaxChanges /\ changes' = changes + 1
    /\ \E p \in Labelled, l \in Label \cup {Unlabeled} :
           l # group[p] /\ group' = [group EXCEPT ![p] = l]
    /\ owed' = TRUE
    /\ UNCHANGED <<fleet, labelState, pending, timer, routed, errors, vacant,
                   spilled, dropped>>

LabelsNext == \/ LifecycleRebalance \/ monitorLabelRecheck \/ TimerFires
        \/ Tick \/ PoolsChange \/ PartitionRelabelled

LabelsFairness ==
    /\ WF_labelsVars(LifecycleRebalance)
    /\ WF_labelsVars(monitorLabelRecheck)
    /\ WF_labelsVars(TimerFires)
    /\ WF_labelsVars(Tick)

LabelsSpec == LabelsInit /\ [][LabelsNext]_labelsVars
FairLabelsSpec == LabelsSpec /\ LabelsFairness

-----------------------------------------------------------------------------
(* Properties. *)

SpillStep == <<spilled, routed>>' # <<spilled, routed>> => \A l \in spilled' : vacant[l] >= SpillGrace

\* observeEmptyPools and observeNonEmpty: partitions leave their label's pool
\* only when every rebalance of the last LabelSpillGrace found the pool empty.
SpillWaitsForGrace == [][SpillStep]_labelsVars

Parked(p) == routed[p] = {} /\ Active # {} /\ ~dropped

=============================================================================
