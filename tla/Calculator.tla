----------------------------- MODULE Calculator -----------------------------
(***************************************************************************)
(* The leader's calculator: the lifecycle state machine                    *)
(* (internal/assignment/state_machine.go) and the goroutines of            *)
(* internal/assignment/calculator.go that drive it.                        *)
(*                                                                         *)
(*   poll    the worker monitor's callback, pollForChanges                 *)
(*   part    monitorPartitions: source changes and its drain ticker        *)
(*   label   monitorLabelRecheck                                           *)
(*   audit   auditLoop (calculator_audit.go)                               *)
(*   timers  the goroutines EnterScaling leaves behind, one per window     *)
(*                                                                         *)
(* A rebalance is two steps, the reading of workers and source and the     *)
(* publication, under rebalanceMu.  The worker set and the source are      *)
(* truth the environment changes; pub is what the last commit was computed *)
(* from.  Emergency confirmation (a disappearance that outlives the grace  *)
(* period) and the cooldown are nondeterministic choices of Decide.        *)
(***************************************************************************)
EXTENDS Naturals, FiniteSets

CONSTANTS
    Peer,         \* worker IDs
    Timer,        \* bound: scaling windows open at the same time
    MaxEvents,    \* bound: changes of workers, source, grace and scan
    MaxFailures,  \* bound: rebalances that fail
    Faults        \* which faults happen: "error", "part_shrink", "bad_scan"

\* A mutex is held by a goroutine or free.
ASSUME CalculatorAssumption == "free" \notin Timer

VARIABLES
    st,       \* sm.current
    pollMu,   \* holder of pollMu, or "free"
    rebMu,    \* holder of rebalanceMu, or "free"
    at,       \* goroutine -> where it is
    life,     \* goroutine -> lifecycle of the rebalance it runs
    snap,     \* goroutine -> what it read: worker set, source version
    res,      \* goroutine -> result of its rebalance
    pendPart, \* pendingPartitionUpdate
    pendLabel,\* pendingLabelRecheck
    watch,    \* a notification waits in the source's Watch channel
    lastW,    \* lastWorkers, as updated by handleRebalance
    curW,     \* currentWorkers, the workers of the last publication
    pub,      \* what the live commit was computed from
    alive,    \* truth: workers with a heartbeat
    src,      \* truth: version of the partition source
    grace,    \* the manager is in its recovery grace period
    bad,      \* the heartbeat scan is truncated
    events, failures

goVars == <<at, life, snap, res>>
truth == <<alive, src, grace, bad, events>>
flags == <<pendPart, pendLabel, watch>>
mem == <<lastW, curW, pub>>
calculatorVars == <<st, pollMu, rebMu, goVars, flags, mem, truth, failures>>

Loop == {"poll", "part", "label", "audit"}
G == Loop \cup Timer
MachineState == {"Idle", "Scaling", "Rebalancing", "Emergency"}
NoSnap == [w |-> {}, src |-> 0]

\* One more event of the environment, within the bound.
Fresh == events < MaxEvents /\ events' = events + 1

CalculatorInit ==
    /\ at = [g \in G |-> IF g = CHOOSE t \in Timer : TRUE THEN "window" ELSE "idle"]
    /\ st = "Scaling"   \* Start published once and opened the first window
    /\ pollMu = "free" /\ rebMu = "free"
    /\ life = [g \in G |-> "none"]
    /\ snap = [g \in G |-> NoSnap]
    /\ res = [g \in G |-> "none"]
    /\ pendPart = FALSE /\ pendLabel = FALSE /\ watch = FALSE
    /\ alive \in (SUBSET Peer) \ {{}}
    /\ lastW = alive /\ curW = alive /\ pub = [w |-> alive, src |-> 0]
    /\ src = 0 /\ grace = FALSE /\ bad = FALSE
    /\ events = 0 /\ failures = 0

-----------------------------------------------------------------------------
(* observeAndDecide: the critical section under pollMu *)

\* getActiveWorkers, by the worker monitor or as monitorPartitions' tail check.
Observe(g) ==
    /\ at[g] = "tail" \/ (at[g] = "idle" /\ g = "poll")
    /\ pollMu = "free" /\ pollMu' = g
    /\ at' = [at EXCEPT ![g] = "decide"]
    /\ snap' = [snap EXCEPT ![g] = [w |-> alive, src |-> 0]]
    /\ UNCHANGED <<st, rebMu, life, res, flags, mem, truth, failures>>

Changed(g) == snap[g].w # lastW
Disappeared(g) == lastW \ snap[g].w

\* Leave the critical section without doing anything.
Leave(g) ==
    /\ pollMu' = "free"
    /\ at' = [at EXCEPT ![g] = "idle"]
    /\ snap' = [snap EXCEPT ![g] = NoSnap]

\* Unchanged, not fresh, a disappearance still in its grace period, recovery
\* grace, cooldown, or a lifecycle in flight.
DecideNothing(g) ==
    /\ at[g] = "decide"
    /\ Leave(g)
    /\ UNCHANGED <<st, rebMu, life, res, flags, mem, truth, failures>>

\* claimEmergency: CAS from Idle or Scaling; the claim is made under pollMu,
\* the rebalance runs after it is released.
DecideEmergency(g) ==
    /\ at[g] = "decide" /\ ~bad
    /\ Changed(g) /\ Disappeared(g) # {}
    /\ st \in {"Idle", "Scaling"}
    /\ st' = "Emergency"
    /\ pollMu' = "free"
    /\ at' = [at EXCEPT ![g] = "run"]
    /\ life' = [life EXCEPT ![g] = "emergency"]
    /\ UNCHANGED <<rebMu, snap, res, flags, mem, truth, failures>>

\* detectRebalanceType wants a window and the state was Idle when read, here
\* and once more at the top of EnterScaling.
DecideScaling(g) ==
    /\ at[g] = "decide" /\ ~bad
    /\ Changed(g) /\ Disappeared(g) = {}
    /\ ~grace /\ st = "Idle"
    /\ at' = [at EXCEPT ![g] = "emit"]
    /\ UNCHANGED <<st, pollMu, rebMu, life, snap, res, flags, mem, truth, failures>>

\* maybeEscalateAudit calls EnterScaling without pollMu: Idle is read.
AuditEscalates ==
    /\ at["audit"] = "idle" /\ Fresh /\ st = "Idle"
    /\ at' = [at EXCEPT !["audit"] = "emit"]
    /\ UNCHANGED <<st, pollMu, rebMu, life, snap, res, flags, mem, alive, src, grace, bad, failures>>

\* EnterScaling's emitStateChange(Scaling), which replaces any state, and the
\* goroutine that waits for the window (any free one: they are alike).
EnterScaling(g) ==
    /\ at[g] = "emit"
    /\ st' = "Scaling"
    /\ \E t \in Timer : at[t] = "idle"
    /\ at' = [at EXCEPT ![CHOOSE t \in Timer : at[t] = "idle"] = "window", ![g] = "idle"]
    /\ pollMu' = IF pollMu = g THEN "free" ELSE pollMu
    /\ snap' = [snap EXCEPT ![g] = NoSnap]
    /\ UNCHANGED <<rebMu, life, res, flags, mem, truth, failures>>

-----------------------------------------------------------------------------
(* Claimed rebalances *)

\* The window ends: EnterRebalancing, a strict CAS from Scaling.
WindowEnds(t) ==
    /\ at[t] = "window"
    /\ IF st = "Scaling"
       THEN /\ st' = "Rebalancing"
            /\ at' = [at EXCEPT ![t] = "run"]
            /\ life' = [life EXCEPT ![t] = "scale"]
       ELSE /\ at' = [at EXCEPT ![t] = "idle"]
            /\ UNCHANGED <<st, life>>
    /\ UNCHANGED <<pollMu, rebMu, snap, res, flags, mem, truth, failures>>

\* TryClaimRebalancing, a strict CAS from Idle; a busy machine (or grace)
\* leaves the request in its sticky flag for the drain ticker.
TryClaim(g, busy) ==
    IF st = "Idle" /\ ~busy
    THEN /\ st' = "Rebalancing"
         /\ at' = [at EXCEPT ![g] = "run"]
         /\ life' = [life EXCEPT ![g] = g]
         /\ pendPart' = (pendPart /\ g # "part")
         /\ pendLabel' = (pendLabel /\ g # "label")
    ELSE /\ pendPart' = (pendPart \/ g = "part")
         /\ pendLabel' = (pendLabel \/ g = "label")
         /\ UNCHANGED <<st, at, life>>

\* monitorPartitions: a source notification, or its drain ticker.
PartitionsWake ==
    /\ at["part"] = "idle"
    /\ watch \/ pendPart
    /\ TryClaim("part", grace)
    /\ watch' = FALSE
    /\ UNCHANGED <<pollMu, rebMu, snap, res, mem, truth, failures>>

\* monitorLabelRecheck: its channel or its drain ticker.
LabelsWake ==
    /\ at["label"] = "idle"
    /\ pendLabel
    /\ TryClaim("label", grace)
    /\ UNCHANGED <<pollMu, rebMu, snap, res, watch, mem, truth, failures>>

\* Wrong variant: an emergency rebalances the source snapshot Start took.
RebalanceReadsCached(g) ==
    /\ at[g] = "run" /\ rebMu = "free"
    /\ at' = [at EXCEPT ![g] = "publish"]
    /\ rebMu' = g
    /\ snap' = [snap EXCEPT ![g] = [w |-> alive, src |-> IF life[g] = "emergency" THEN 0 ELSE src]]
    /\ UNCHANGED <<st, pollMu, life, res, flags, mem, truth, failures>>

\* rebalance: the partition lifecycles check recovery grace again under
\* rebalanceMu; then the scan and the source snapshot.
RebalanceReads(g) ==
    /\ at[g] = "run" /\ rebMu = "free"
    /\ IF grace /\ life[g] \in {"part", "label"}
       THEN /\ at' = [at EXCEPT ![g] = "return"]
            /\ res' = [res EXCEPT ![g] = "grace"]
            /\ UNCHANGED <<rebMu, snap>>
       ELSE /\ at' = [at EXCEPT ![g] = "publish"]
            /\ rebMu' = g
            /\ snap' = [snap EXCEPT ![g] = [w |-> alive, src |-> src]]
            /\ UNCHANGED res
    /\ UNCHANGED <<st, pollMu, life, flags, mem, truth, failures>>

EndRun(g, r) ==
    /\ rebMu' = "free"
    /\ at' = [at EXCEPT ![g] = "return"]
    /\ res' = [res EXCEPT ![g] = r]
    /\ snap' = [snap EXCEPT ![g] = NoSnap]

\* Wrong variant: only the scaling lifecycle brings lastWorkers up to date.
RebalancePublishesNoRefresh(g) ==
    /\ at[g] = "publish" /\ (~bad \/ life[g] = "emergency")
    /\ EndRun(g, "ok")
    /\ IF snap[g].w = {} THEN UNCHANGED <<pub, curW>>
       ELSE pub' = snap[g] /\ curW' = snap[g].w
    /\ lastW' = IF life[g] = "scale" THEN curW' ELSE lastW
    /\ UNCHANGED <<st, pollMu, life, flags, truth, failures>>

\* The publication succeeds; handleRebalance (not the partition callback)
\* then brings lastWorkers up to date.  An empty fleet publishes nothing.
RebalancePublishes(g) ==
    /\ at[g] = "publish" /\ (~bad \/ life[g] = "emergency")
    /\ EndRun(g, "ok")
    /\ IF snap[g].w = {} THEN UNCHANGED <<pub, curW>>
       ELSE pub' = snap[g] /\ curW' = snap[g].w
    /\ lastW' = IF life[g] \in {"scale", "emergency"} THEN curW' ELSE lastW
    /\ UNCHANGED <<st, pollMu, life, flags, truth, failures>>

\* The rebalance publishes nothing.  "error": a read or the publication
\* fails; "part_shrink": the source shrank too sharply to be believed yet;
\* "cached": the scan degraded to the cached workers, and a label re-check is
\* requested; "floor": the truncated scan was accepted by the poll guard but
\* no death is confirmed, so the worker floor blocks.
RebalanceFails(g) ==
    /\ at[g] = "publish"
    /\ \E r \in {"error", "part_shrink", "cached", "floor"} :
          /\ IF r \in {"cached", "floor"}
             THEN bad /\ life[g] # "emergency" /\ UNCHANGED failures
             ELSE r \in Faults /\ failures < MaxFailures /\ failures' = failures + 1
          /\ EndRun(g, r)
          /\ pendLabel' = (pendLabel \/ r = "cached")
    /\ UNCHANGED <<st, pollMu, life, pendPart, watch, mem, truth>>

\* Wrong variant: only a grace bail re-arms the partition update.
RearmsGraceOnly(r) == r = "grace"

\* Results after which monitorPartitions re-arms pendingPartitionUpdate.
Rearms(r) == r \in {"grace", "part_shrink"}

\* ReturnToIdle, which replaces any state, and what the goroutine does with
\* the result: monitorPartitions goes on to its tail check.
ReturnToIdle(g) ==
    /\ at[g] = "return"
    /\ st' = "Idle"
    /\ at' = [at EXCEPT ![g] = IF life[g] = "part" THEN "tail" ELSE "idle"]
    /\ life' = [life EXCEPT ![g] = "none"]
    /\ res' = [res EXCEPT ![g] = "none"]
    /\ pendPart' = (pendPart \/ (life[g] = "part" /\ Rearms(res[g])))
    /\ pendLabel' = (pendLabel \/ (life[g] = "label" /\ res[g] = "grace"))
    /\ UNCHANGED <<pollMu, rebMu, snap, watch, mem, truth, failures>>

-----------------------------------------------------------------------------
(* Environment *)

Others == <<st, pollMu, rebMu, goVars, pendPart, pendLabel, mem, failures>>

\* external: a worker appears or its heartbeat disappears.
FleetChanges ==
    /\ Fresh
    /\ \E w \in Peer : alive' = IF w \in alive THEN alive \ {w} ELSE alive \cup {w}
    /\ alive' # {}
    /\ UNCHANGED <<Others, watch, src, grace, bad>>

\* external: the partition source changes and notifies its watcher.
SourceChanges ==
    /\ Fresh
    /\ src' = src + 1 /\ watch' = TRUE
    /\ UNCHANGED <<Others, alive, grace, bad>>

\* external: the manager enters its recovery grace period, which ends.
GraceBegins == Fresh /\ ~grace /\ grace' = TRUE /\ UNCHANGED <<Others, watch, alive, src, bad>>
GraceEnds == grace /\ grace' = FALSE /\ UNCHANGED <<Others, watch, alive, src, bad, events>>

\* external: heartbeat scans come back truncated for a while (shorter than
\* the emergency grace period), then heal.
ScanBreaks ==
    /\ "bad_scan" \in Faults /\ Fresh /\ ~bad /\ bad' = TRUE
    /\ UNCHANGED <<Others, watch, alive, src, grace>>
ScanHeals == bad /\ bad' = FALSE /\ UNCHANGED <<Others, watch, alive, src, grace, events>>

CalculatorNext ==
    \/ \E g \in G :
          \/ Observe(g) \/ DecideNothing(g) \/ DecideEmergency(g) \/ DecideScaling(g)
          \/ EnterScaling(g)
          \/ RebalanceReads(g) \/ RebalancePublishes(g) \/ RebalanceFails(g)
          \/ ReturnToIdle(g)
    \/ \E t \in Timer : WindowEnds(t)
    \/ PartitionsWake \/ LabelsWake \/ AuditEscalates
    \/ FleetChanges \/ SourceChanges \/ GraceBegins \/ GraceEnds \/ ScanBreaks \/ ScanHeals

CalculatorSpec == CalculatorInit /\ [][CalculatorNext]_calculatorVars

\* What a goroutine does without choosing among outcomes of a poll.
Step(g) ==
    \/ Observe(g) \/ DecideNothing(g) \/ EnterScaling(g)
    \/ RebalanceReads(g) \/ RebalancePublishes(g) \/ RebalanceFails(g) \/ ReturnToIdle(g)

\* Every goroutine is scheduled and timers fire; Go's mutexes do not starve
\* monitorPartitions' tail check; polls are not for ever inside the cooldown
\* or the emergency grace period; drain ticks do not always find the state
\* machine busy; recovery grace and broken scans end.
CalculatorFairness ==
    /\ \A g \in G : WF_calculatorVars(Step(g))
    /\ \A t \in Timer : WF_calculatorVars(WindowEnds(t))
    /\ SF_calculatorVars(Observe("part"))
    /\ SF_calculatorVars(\E g \in G : DecideEmergency(g) \/ DecideScaling(g))
    /\ SF_calculatorVars(PartitionsWake /\ st = "Idle")
    /\ SF_calculatorVars(LabelsWake /\ st = "Idle")
    /\ WF_calculatorVars(GraceEnds) /\ WF_calculatorVars(ScanHeals)

FairCalculatorSpec == CalculatorSpec /\ CalculatorFairness

-----------------------------------------------------------------------------
(* Properties *)

\* calculator.go rebalance: because workers and source are read under
\* rebalanceMu, no publication is computed from an older source than the one
\* before it, whichever goroutines the two rebalances ran in.
PublishedSourceMonotone == [][pub'.src >= pub.src]_calculatorVars

\* calculator.go triggerPartitionRebalance, monitorPartitions: no source change
\* is forgotten.  Once the source is quiet, what is published was computed
\* from it, through busy lifecycles, grace periods and shrink confirmations;
\* unless a partition rebalance ended in an error or met a truncated scan,
\* after which the code re-arms nothing.
SourceConverges ==
    [](res["part"] \notin {"error", "cached", "floor"}) => <>[](pub.src = src)

\* calculator.go observeAndDecide, handleRebalance: no change of the fleet is
\* forgotten by the poll loop.  Once the fleet is quiet, a scaling or an
\* emergency lifecycle has worked off every change, including one whose
\* window was overrun by another lifecycle or whose rebalance failed.
FleetWorkedOff == <>[](lastW = alive)

\* calculator.go:975 on the partition lifecycles, which publish but do not
\* update lastWorkers: "If the tail-check observes a worker-set change it
\* claims emergency / scaling and handleRebalance refreshes lastWorkers on
\* that path; if it does not, the next observeAndDecide cycle refreshes
\* lastWorkers naturally on its own write path."  So once the fleet is quiet,
\* what is published was computed for exactly the workers that are there.
FleetConverges == <>[](pub.w = alive)
=============================================================================
