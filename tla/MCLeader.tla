------------------------------ MODULE MCLeader ------------------------------
(***************************************************************************)
(* What the leader's calculator works from, side by side in one run: a     *)
(* behaviour is one of its view of the fleet (Fleet), of its routing by    *)
(* labels (Labels), of its placement strategies (Placement) or of its      *)
(* partition source (Source).  Fleet, Labels and Source rest in an initial *)
(* state while another part runs.                                          *)
(***************************************************************************)
EXTENDS Fleet, Labels, Source

CONSTANTS Node, Placed, Ring, Weights, Overload, Extreme, MinCount

VARIABLES
    part,
    strategy, node, place, weight, order, workers, held

P == INSTANCE Placement WITH Worker <- Node, Partition <- Placed

ofPlacement == <<strategy, node, place, weight, order, workers, held>>
vars == <<part, fleetVars, labelsVars, sourceVars, ofPlacement>>

InFleet == part = "fleet"
InLabels == part = "labels"
InPlacement == part = "placement"
InSource == part = "source"

Unused(v) == v = <<>>
NoPlacement ==
    /\ Unused(strategy) /\ Unused(node) /\ Unused(place) /\ Unused(weight) /\ Unused(order)
    /\ Unused(workers) /\ Unused(held)

Init ==
    /\ part \in {"fleet", "labels", "placement", "source"}
    /\ FleetInit /\ LabelsInit /\ SourceInit
    /\ InLabels \/ fleet = [w \in Member |-> Unlabeled]
    /\ InLabels \/ group = [p \in Labelled |-> Unlabeled]
    /\ InSource \/ bucket.log = <<>>
    /\ IF InPlacement THEN P!Init ELSE NoPlacement

Next ==
    \/ InFleet /\ FleetNext /\ UNCHANGED <<part, labelsVars, sourceVars, ofPlacement>>
    \/ InLabels /\ LabelsNext /\ UNCHANGED <<part, fleetVars, sourceVars, ofPlacement>>
    \/ InSource /\ SourceNext /\ UNCHANGED <<part, fleetVars, labelsVars, ofPlacement>>
    \/ InPlacement /\ P!Next /\ UNCHANGED <<part, fleetVars, labelsVars, sourceVars>>

\* The fairness of the modules, each for its own part.
Fairness ==
    /\ WF_fleetVars(InFleet /\ publishLoop) /\ WF_fleetVars(InFleet /\ monitorWatcherWithRetry)
    /\ WF_fleetVars(InFleet /\ observeAndDecide) /\ WF_fleetVars(InFleet /\ RunClaimed)
    /\ WF_fleetVars(InFleet /\ RecheckRuns)
    /\ WF_labelsVars(InLabels /\ LifecycleRebalance) /\ WF_labelsVars(InLabels /\ monitorLabelRecheck)
    /\ WF_labelsVars(InLabels /\ TimerFires) /\ WF_labelsVars(InLabels /\ Tick)
    /\ WF_sourceVars(InSource /\ Watcher) /\ WF_sourceVars(InSource /\ Reconciler)
    /\ WF_sourceVars(InSource /\ (Caller \/ OutOfRoom))

Spec == Init /\ [][Next]_vars /\ Fairness

-----------------------------------------------------------------------------
\* armLabelRecheckAfterRebalance and monitorLabelRecheck: a parked partition is
\* placed in the end, without any external event, while a worker lives and no
\* re-check ended in an error.
ParkedIsPlaced == \A p \in Labelled : []<>(InLabels => ~Parked(p))

\* Assign: each partition once, no move that is not needed, and beyond the soft
\* cap only the lightest worker.
AssignMeetsGoals ==
    /\ [](InPlacement => P!EachPartitionOnce /\ P!BeyondCapWasLightest)
    /\ [][InPlacement => P!MoveStep]_vars

=============================================================================
