---------------------------- MODULE MCAssignment ----------------------------
(***************************************************************************)
(* A worker's assignment, side by side in one run: a behaviour is one of   *)
(* the appliers (AssignmentApply), of the watchers that feed them (Watch), *)
(* of the handoff of one partition between workers (Handoff), of the sweep *)
(* over the claims (ClaimSweep) or of the resolver's view of them          *)
(* (ClaimResolver).  The other parts rest in an initial state, in which    *)
(* their properties hold.                                                  *)
(***************************************************************************)
EXTENDS AssignmentApply, Handoff, Watch, ClaimSweep, ClaimResolver

VARIABLE part

sumVars == <<part, vars, handoffVars, watchVars, sweepVars, resolverVars>>

InApply == part = "apply"
InWatch == part = "watch"
InHandoff == part = "handoff"
InSweep == part = "sweep"
InResolver == part = "resolver"

SumInit ==
    /\ part \in {"apply", "watch", "handoff", "sweep", "resolver"}
    /\ Init /\ HandoffInit /\ WatchInit /\ SweepInit /\ ResolverInit
    /\ InWatch \/ (debounce /\ sess = "off")
    /\ InSweep \/ (entry = NoEntry /\ leader)
    /\ InResolver \/ hist = <<>>

SumNext ==
    \/ InApply /\ Next /\ UNCHANGED <<part, handoffVars, watchVars, sweepVars, resolverVars>>
    \/ InHandoff /\ HandoffNext /\ UNCHANGED <<part, vars, watchVars, sweepVars, resolverVars>>
    \/ InWatch /\ WatchNext /\ UNCHANGED <<part, vars, handoffVars, sweepVars, resolverVars>>
    \/ InSweep /\ SweepNext /\ UNCHANGED <<part, vars, handoffVars, watchVars, resolverVars>>
    \/ InResolver /\ ResolverNext /\ UNCHANGED <<part, vars, handoffVars, watchVars, sweepVars>>

\* The fairness of the modules, each for its own part.
SumFairness ==
    /\ WF_watchVars(InWatch /\ CommitWatchOpens) /\ WF_watchVars(InWatch /\ CommitReceived)
    /\ WF_watchVars(InWatch /\ CommitTimerFires) /\ WF_watchVars(InWatch /\ CommitSessionEnds)
    /\ WF_watchVars(InWatch /\ AliasWatchOpens) /\ WF_watchVars(InWatch /\ AliasReceived)
    /\ WF_watchVars(InWatch /\ AliasTimerFires) /\ WF_watchVars(InWatch /\ AliasSessionEnds)
    /\ \A w \in Worker : WF_handoffVars(InHandoff /\ Apply(w))
    /\ WF_sweepVars(InSweep /\ Tick) /\ WF_sweepVars(InSweep /\ Pass)
    /\ WF_resolverVars(InResolver /\ Reconciler)

SumSpec == SumInit /\ [][SumNext]_sumVars /\ SumFairness

=============================================================================
