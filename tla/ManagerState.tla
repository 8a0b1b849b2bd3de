---------------------------- MODULE ManagerState ----------------------------
(***************************************************************************)
(* The manager's lifecycle state and its writers: transitionState          *)
(* (manager_state.go), the startup runner (manager_startup_async.go), the  *)
(* degraded-mode circuit (manager_degraded.go), the calculator-state       *)
(* monitors and stopCalculator (manager_assignment.go).                    *)
(*                                                                         *)
(* The state is one atomic; the degraded record is another; the flag that  *)
(* the startup assignment was applied a third.  Each action is the code    *)
(* between two accesses to them.  A transitionState call is one step: its  *)
(* CAS loop ends in a valid transition of the current state or in none.    *)
(***************************************************************************)
EXTENDS Naturals, Sequences

CONSTANTS
    MaxCalc,   \* bound: calculators this manager starts
    MaxEnv,    \* bound: outages reported and calculator state changes, in all
    BufCap,    \* capacity of a state subscription (4 in the code)
    Versioned, \* assignments that occur: 1 with partitions, 2 revoke-all
    Reason     \* degrade reasons that occur; "exhausted" is the terminal one

\* A record is a pointer, and carries a reason.
ASSUME ReasonAssumption == "nil" \notin Reason

VARIABLES
    state,    \* m.state
    rec,      \* m.degraded: the reason of the live record, or "nil"
    latched,  \* m.streamMissingExhausted
    applied,  \* m.startupAssignmentApplied
    asg,      \* m.assignment: 0 is the zero value, else see Versioned
    com,      \* m.committedAssignment, likewise
    boot,     \* runStartupBackground
    mark,     \* markStartupAssignmentApplied
    pc,       \* goroutines inside enterDegraded or recovery
    why,      \* the reason each of them enters with
    env,      \* outages reported and calculator state changes so far
    lead,     \* stopCalculator, in the election monitor
    cur,      \* m.calculator: 0 is the Nop calculator
    calc,     \* calculator -> its state, and whether it runs
    pend,     \* calculator -> states stored but not yet sent to the monitor
    ch,       \* calculator -> its monitor's subscription channel
    mon       \* calculator -> monitorCalculatorState

degVars == <<rec, latched, pc, why, env>>
bootVars == <<applied, asg, com, boot, mark>>
calcVars == <<cur, calc, pend, ch>>
vars == <<state, degVars, bootVars, lead, calcVars, mon>>

Active == {"Scaling", "Rebalancing", "Emergency"}
State == Active \cup {"Election", "WaitingAssignment", "Stable", "Degraded", "Shutdown"}
CalcState == Active \cup {"Idle"}
Calc == 1..MaxCalc
Go == {"conn", "other"}   \* the connection monitor; any other reporter
Off == [st |-> "Idle", run |-> FALSE]
NoMon == [pc |-> "off", k |-> "Idle", last |-> "none"]
HasPartitions(a) == a = 1

\* isValidTransition, from Election on.
Valid(from, to) ==
    CASE from = "Election" -> to \in {"WaitingAssignment", "Shutdown"}
      [] from = "WaitingAssignment" -> to \in Active \cup {"Stable", "Degraded", "Shutdown"}
      [] from = "Stable" -> to \in Active \cup {"Degraded", "Shutdown"}
      [] from = "Scaling" -> to \in {"Rebalancing", "WaitingAssignment", "Stable", "Degraded", "Shutdown"}
      [] from \in {"Rebalancing", "Emergency"} -> to \in {"Stable", "WaitingAssignment", "Degraded", "Shutdown"}
      [] from = "Degraded" -> to \in {"Stable", "Shutdown"}
      [] OTHER -> FALSE

\* What transitionState(to) makes of the state.
Moved(to) == IF Valid(state, to) THEN to ELSE state

Init ==
    /\ state = "Election"
    /\ rec = "nil" /\ latched = FALSE
    /\ applied = FALSE /\ asg = 0 /\ com = 0
    /\ boot = "off" /\ mark = "idle"
    /\ pc = [g \in Go |-> "idle"] /\ why = [g \in Go |-> "nil"]
    /\ lead = "idle" /\ cur = 0
    /\ calc = [c \in Calc |-> Off]
    /\ env = 0 /\ pend = [c \in Calc |-> {}]
    /\ ch = [c \in Calc |-> <<>>]
    /\ mon = [c \in Calc |-> NoMon]

-----------------------------------------------------------------------------
(* Startup: the last step of Start, and runStartupBackground *)

StartReturns ==
    /\ state = "Election" /\ boot = "off"
    /\ state' = Moved("WaitingAssignment")
    /\ boot' = "wait"
    /\ UNCHANGED <<degVars, applied, asg, com, mark, lead, calcVars, mon>>

\* waitForAssignment stores what it fetched; on an error the monitors start.
WaitForAssignment ==
    /\ boot = "wait"
    /\ \/ asg' \in {0} \cup Versioned /\ boot' = "apply"
       \/ UNCHANGED asg /\ boot' = "done"
    /\ UNCHANGED <<state, degVars, applied, com, mark, lead, calcVars, mon>>

\* An apply that succeeds stores, commits and acknowledges the assignment; the
\* first one goes on to markStartupAssignmentApplied.
Applies(a) ==
    /\ asg' = a /\ com' = a
    /\ mark' = IF applied THEN "idle" ELSE "claim"

\* applyInitialAssignment: applied, failed, or rejected because the commit is
\* for another incarnation of the worker ID, which is not an error.
ApplyInitial ==
    /\ boot = "apply"
    /\ \/ \E a \in {asg} \cup Versioned : Applies(a) /\ boot' = "cas"
       \/ boot' = "done" /\ UNCHANGED <<asg, com, mark>>
       \/ asg' = 0 /\ boot' = "cas" /\ UNCHANGED <<com, mark>>
    /\ UNCHANGED <<state, degVars, applied, lead, calcVars, mon>>

\* casToStableFromWaitingAssignment.
StableIfWaiting == IF state = "WaitingAssignment" THEN "Stable" ELSE state

BootStable ==
    /\ boot = "cas" /\ mark = "idle"
    /\ state' = StableIfWaiting
    /\ boot' = "done"
    /\ UNCHANGED <<degVars, applied, asg, com, mark, lead, calcVars, mon>>

\* Later applies, by the watchers and the retry loops.
WatcherApplies ==
    /\ boot = "done" /\ mark = "idle"
    /\ \E a \in Versioned : Applies(a)
    /\ UNCHANGED <<state, degVars, applied, boot, lead, calcVars, mon>>

\* markStartupAssignmentApplied, first half: the flag and the CAS.
MarkClaims ==
    /\ mark = "claim"
    /\ applied' = TRUE
    /\ state' = StableIfWaiting
    /\ mark' = "active"
    /\ UNCHANGED <<degVars, asg, com, boot, lead, calcVars, mon>>

\* It goes on only in a calculator-owned state, and reads the calculator
\* under m.mu, which stopCalculator holds until it has swapped it out.
MarkReads ==
    /\ mark = "active" /\ lead # "move"
    /\ mark' = IF state \in Active /\ cur # 0 /\ calc[cur].st = "Idle" THEN "move" ELSE "idle"
    /\ UNCHANGED <<state, degVars, applied, asg, com, boot, lead, calcVars, mon>>

\* Wrong variant: the calculator's Idle is left to its monitor.
MarkMovesNot ==
    /\ mark = "move"
    /\ mark' = "idle"
    /\ UNCHANGED <<state, degVars, applied, asg, com, boot, lead, calcVars, mon>>

MarkMoves ==
    /\ mark = "move"
    /\ state' = Moved("Stable")
    /\ mark' = "idle"
    /\ UNCHANGED <<degVars, applied, asg, com, boot, lead, calcVars, mon>>

-----------------------------------------------------------------------------
(* The degraded circuit *)

\* A caller of enterDegraded passes its first check.  The connection monitor
\* starts with the post-stable monitors; onStreamMissingError sets its latch.
EnterChecks(g, r) ==
    /\ pc[g] = "idle" /\ state # "Shutdown"
    /\ env < MaxEnv /\ env' = env + 1
    /\ g = "conn" => boot = "done" /\ r # "exhausted"
    /\ pc' = [pc EXCEPT ![g] = "claim"]
    /\ why' = [why EXCEPT ![g] = r]
    /\ latched' = (latched \/ r = "exhausted")
    /\ UNCHANGED <<state, rec, bootVars, lead, calcVars, mon>>

\* The CAS on the record.
EnterClaims(g) ==
    /\ pc[g] = "claim"
    /\ IF rec = "nil"
       THEN rec' = why[g] /\ pc' = [pc EXCEPT ![g] = "move"] /\ UNCHANGED why
       ELSE pc' = [pc EXCEPT ![g] = "idle"] /\ why' = [why EXCEPT ![g] = "nil"] /\ UNCHANGED rec
    /\ UNCHANGED <<state, latched, env, bootVars, lead, calcVars, mon>>

\* transitionState(Degraded), or the rollback of the record.
EnterMoves(g) ==
    /\ pc[g] = "move"
    /\ state' = Moved("Degraded")
    /\ rec' = IF state' = "Degraded" THEN rec ELSE "nil"
    /\ pc' = [pc EXCEPT ![g] = "idle"]
    /\ why' = [why EXCEPT ![g] = "nil"]
    /\ UNCHANGED <<latched, env, bootVars, lead, calcVars, mon>>

\* Wrong variant: a leader takes its own assignment for applied and waits.
RecoverFollowersOnly ==
    /\ pc["conn"] = "idle" /\ boot = "done" /\ rec # "nil" /\ cur = 0
    /\ asg' \in {asg} \cup Versioned
    /\ pc' = [pc EXCEPT !["conn"] = IF asg' = com THEN "gates" ELSE "idle"]
    /\ UNCHANGED <<state, rec, latched, why, env, applied, com, boot, mark, lead, calcVars, mon>>

\* attemptRecoveryFromDegraded: the record, then the refreshed assignment; one
\* that is not the applied one is handed to the retry loop.
RecoverRefreshes ==
    /\ pc["conn"] = "idle" /\ boot = "done" /\ rec # "nil"
    /\ asg' \in {asg} \cup Versioned
    /\ pc' = [pc EXCEPT !["conn"] = IF asg' = com THEN "gates" ELSE "idle"]
    /\ UNCHANGED <<state, rec, latched, why, env, applied, com, boot, mark, lead, calcVars, mon>>

\* The terminal hold and its latch; then the probes, which take their time.
RecoverPasses ==
    /\ pc["conn"] = "gates"
    /\ pc' = [pc EXCEPT !["conn"] = IF rec = "exhausted" \/ latched THEN "idle" ELSE "probe"]
    /\ UNCHANGED <<state, rec, latched, why, env, bootVars, lead, calcVars, mon>>

\* A probe or a recovery-signal gate keeps the worker degraded.
RecoverHeld ==
    /\ pc["conn"] = "probe"
    /\ pc' = [pc EXCEPT !["conn"] = "idle"]
    /\ UNCHANGED <<state, rec, latched, why, env, bootVars, lead, calcVars, mon>>

\* Wrong variant: exitDegraded calls transitionState(Stable).
ExitMovesAny ==
    /\ pc["conn"] = "probe"
    /\ state' = Moved("Stable")
    /\ pc' = [pc EXCEPT !["conn"] = IF state' = "Stable" THEN "clear" ELSE "idle"]
    /\ UNCHANGED <<rec, latched, why, env, bootVars, lead, calcVars, mon>>

\* exitDegraded: casToStableFromDegraded.
ExitMoves ==
    /\ pc["conn"] = "probe"
    /\ state' = IF state = "Degraded" THEN "Stable" ELSE state
    /\ pc' = [pc EXCEPT !["conn"] = IF state = "Degraded" THEN "clear" ELSE "idle"]
    /\ UNCHANGED <<rec, latched, why, env, bootVars, lead, calcVars, mon>>

\* exitDegraded: the record is cleared after the transition.
ExitClears ==
    /\ pc["conn"] = "clear"
    /\ rec' = "nil"
    /\ pc' = [pc EXCEPT !["conn"] = "idle"]
    /\ UNCHANGED <<state, latched, why, env, bootVars, lead, calcVars, mon>>

-----------------------------------------------------------------------------
(* Calculators, their monitors, and leadership *)

\* startCalculator; the monitor subscribes first and is sent the state.  If
\* the calculator's Start fails its monitor stays behind.
StartCalculator ==
    /\ lead = "idle" /\ cur = 0 /\ state # "Shutdown"
    /\ \E c \in Calc, ok \in BOOLEAN :
          /\ mon[c].pc = "off" /\ \A d \in 1..(c - 1) : mon[d].pc # "off"
          /\ cur' = IF ok THEN c ELSE 0
          /\ calc' = [calc EXCEPT ![c].run = ok]
          /\ ch' = [ch EXCEPT ![c] = <<"Idle">>]
          /\ mon' = [mon EXCEPT ![c].pc = "idle"]
    /\ UNCHANGED <<state, degVars, bootVars, lead, pend>>

\* stopCalculator after the lease is lost: a leader-only state is left below.
StopCalculatorReads ==
    /\ lead = "idle" /\ cur # 0
    /\ lead' = IF state \in Active THEN "move" ELSE "drain"
    /\ cur' = IF state \in Active THEN cur ELSE 0
    /\ UNCHANGED <<state, degVars, bootVars, calc, pend, ch, mon>>

StopCalculatorMoves ==
    /\ lead = "move"
    /\ state' = Moved(IF HasPartitions(asg) THEN "Stable" ELSE "WaitingAssignment")
    /\ lead' = "drain" /\ cur' = 0
    /\ UNCHANGED <<degVars, bootVars, calc, pend, ch, mon>>

\* calc.Stop returns: its goroutines are gone, its state stays as it was and
\* its monitor keeps its subscription.
StopCalculatorDrains ==
    /\ lead = "drain"
    /\ lead' = "idle"
    /\ \E c \in Calc :
          /\ calc[c].run /\ pend[c] = {}
          /\ calc' = [calc EXCEPT ![c].run = FALSE]
    /\ UNCHANGED <<state, degVars, bootVars, cur, pend, ch, mon>>

\* The calculator's state machine moves (module Calculator); subscribers are
\* notified after the store, by the goroutine that stored.
CalculatorMoves(c) ==
    /\ calc[c].run /\ env < MaxEnv /\ env' = env + 1
    /\ \E k \in CalcState \ {calc[c].st} :
          /\ k \in {"Rebalancing", "Emergency"} => calc[c].st \in {"Idle", "Scaling"}
          /\ calc' = [calc EXCEPT ![c].st = k]
          /\ pend' = [pend EXCEPT ![c] = @ \cup {k}]
    /\ UNCHANGED <<state, rec, latched, pc, why, bootVars, lead, cur, ch, mon>>

\* notifyStateChange, trySend: a full channel drops the state.
Notify(c) ==
    /\ \E k \in pend[c] :
          /\ pend' = [pend EXCEPT ![c] = @ \ {k}]
          /\ ch' = IF Len(ch[c]) < BufCap THEN [ch EXCEPT ![c] = Append(@, k)] ELSE ch
    /\ UNCHANGED <<state, degVars, bootVars, lead, cur, calc, mon>>

\* syncStateFromCalculator(k) reads the manager's state and decides.
SyncReads(c, k) ==
    LET next == CASE state \in {"Election", "Shutdown", k} -> "idle"
                  [] k # "Idle" -> "move"
                  [] state \in Active -> "load"
                  [] OTHER -> "idle"
    IN  mon' = [mon EXCEPT ![c] = [pc |-> next, last |-> k,
                                   k |-> IF next = "idle" THEN "Idle" ELSE k]]

\* monitorCalculatorState takes a state from its channel.
MonitorReceives(c) ==
    /\ mon[c].pc = "idle" /\ ch[c] # <<>>
    /\ SyncReads(c, Head(ch[c]))
    /\ ch' = [ch EXCEPT ![c] = Tail(@)]
    /\ UNCHANGED <<state, degVars, bootVars, lead, cur, calc, pend>>

\* Its reconcile tick reads the calculator's state.
MonitorReconciles(c) ==
    /\ mon[c].pc = "idle" /\ mon[c].last # calc[c].st
    /\ SyncReads(c, calc[c].st)
    /\ UNCHANGED <<state, degVars, bootVars, lead, calcVars>>

\* Idle counts only once the startup assignment is applied.
SyncLoads(c) ==
    /\ mon[c].pc = "load"
    /\ mon' = [mon EXCEPT ![c].pc = IF applied THEN "move" ELSE "idle"]
    /\ UNCHANGED <<state, degVars, bootVars, lead, calcVars>>

SyncMoves(c) ==
    /\ mon[c].pc = "move"
    /\ state' = Moved(IF mon[c].k = "Idle" THEN "Stable" ELSE mon[c].k)
    /\ mon' = [mon EXCEPT ![c].pc = "idle", ![c].k = "Idle"]
    /\ UNCHANGED <<degVars, bootVars, lead, calcVars>>

\* Stop's transition; the goroutines find every later one invalid.
Stop ==
    /\ state # "Shutdown"
    /\ state' = Moved("Shutdown")
    /\ UNCHANGED <<degVars, bootVars, lead, calcVars, mon>>

-----------------------------------------------------------------------------
Startup == StartReturns \/ WaitForAssignment \/ ApplyInitial \/ BootStable
Mark == MarkClaims \/ MarkReads \/ MarkMoves
Enter(g) == EnterClaims(g) \/ EnterMoves(g)
Recover == RecoverRefreshes \/ RecoverPasses \/ ExitMoves \/ ExitClears
Monitor(c) == MonitorReceives(c) \/ MonitorReconciles(c) \/ SyncLoads(c) \/ SyncMoves(c)

Next ==
    \/ Startup \/ WatcherApplies \/ Mark
    \/ \E g \in Go : Enter(g) \/ \E r \in Reason : EnterChecks(g, r)
    \/ Recover \/ RecoverHeld
    \/ StartCalculator \/ StopCalculatorReads \/ StopCalculatorMoves \/ StopCalculatorDrains
    \/ \E c \in Calc : CalculatorMoves(c) \/ Notify(c) \/ Monitor(c)
    \/ Stop

Spec == Init /\ [][Next]_vars

\* Goroutines run on; the assignment a recovery finds unapplied is applied in
\* the end, and probes of a healthy cluster do not hold for ever.
Fairness ==
    /\ WF_vars(Startup) /\ WF_vars(Mark)
    /\ \A g \in Go : WF_vars(Enter(g))
    /\ WF_vars(Recover) /\ SF_vars(RecoverRefreshes /\ asg' = com) /\ SF_vars(ExitMoves)
    /\ SF_vars(WatcherApplies)
    /\ WF_vars(StopCalculatorMoves) /\ WF_vars(StopCalculatorDrains)
    /\ \A c \in Calc : WF_vars(Notify(c)) /\ WF_vars(Monitor(c))

FairSpec == Spec /\ Fairness

-----------------------------------------------------------------------------
(* Properties *)

\* manager_degraded.go casToStableFromDegraded: the worker is never stranded
\* "in Degraded with a nil record (recovery and alerting both early-return on
\* a nil record)", however entries and exits interleave.
DegradedHasRecord == state = "Degraded" => rec # "nil"

\* manager_assignment.go:179 "Reconcile guarantees eventual projection of the
\* CURRENT calculator state": once the leader's calculator stays idle and the
\* startup assignment is applied, the manager leaves the calculator-owned
\* states for good, through dropped, late and reordered notifications.
IdleIsProjected ==
    (<>[](cur # 0 /\ calc[1].st = "Idle" /\ applied)) => <>[](state \notin Active)

\* manager_degraded.go attemptRecoveryFromDegraded: a worker degraded for a
\* reason that heals comes back.
DegradedRecovers == []<>(state # "Degraded" \/ latched)

=============================================================================
