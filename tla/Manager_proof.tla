--------------------------- MODULE Manager_proof ----------------------------
(***************************************************************************)
(* Theorems about the manager around its assignment: the degraded circuit  *)
(* of ManagerState, the reconciled buckets of Health and the provisioner   *)
(* of Provision. Each part is a specification of its own (Spec,            *)
(* HealthSpec, ProvisionSpec) and its theorems hold for every value of its *)
(* constants.                                                              *)
(*                                                                         *)
(* The degraded state and its record are two atomics that four writers     *)
(* change without a lock, so "never degraded without a record" is not      *)
(* inductive. What carries it is the order of the writes: the record is    *)
(* claimed before the state moves into Degraded and cleared after it has   *)
(* moved out, and whoever is between the two writes is alone there.        *)
(***************************************************************************)
EXTENDS ManagerState, Health, Provision, FiniteSetTheorems, TLAPS

-----------------------------------------------------------------------------
(* The invariant *)

\* A calculator's monitor: where it is, the state in hand and the last one.
MonitorState == [pc : {"off", "idle", "load", "move"}, k : CalcState, last : CalcState \cup {"none"}]

\* What reaches the monitors are states of a calculator, none of which is
\* Degraded.
Projected ==
    /\ calc \in [Calc -> [st : CalcState, run : BOOLEAN]]
    /\ pend \in [Calc -> SUBSET CalcState]
    /\ ch \in [Calc -> Seq(CalcState)]
    /\ mon \in [Calc -> MonitorState]

Place == {"idle", "claim", "move", "gates", "probe", "clear"}
Circuit ==
    /\ pc \in [Go -> Place] /\ why \in [Go -> Reason \cup {"nil"}]
    /\ \A g \in Go : pc[g] = "claim" => why[g] # "nil"

\* A goroutine between its two writes: it holds the record, the state is not
\* Degraded yet, or no longer, and no other goroutine is between its own two.
Between(g) == pc[g] \in {"move", "clear"}
Alone ==
    \A g \in Go : Between(g) =>
        /\ rec # "nil" /\ state # "Degraded"
        /\ \A h \in Go : Between(h) => h = g

DInv == Projected /\ Circuit /\ Alone /\ DegradedHasRecord

\* The invariant holds initially.
LEMMA InitDInv == Init => DInv
<1> SUFFICES ASSUME Init PROVE DInv   OBVIOUS
<1>1. Projected
  <2>1. Off \in [st : CalcState, run : BOOLEAN]   BY Zenon DEF Off, CalcState
  <2>2. NoMon \in MonitorState
    BY Zenon DEF MonitorState, NoMon, CalcState
  <2>3. <<>> \in Seq(CalcState)   OBVIOUS
  <2> QED BY Zenon, <2>1, <2>2, <2>3 DEF Init, Projected
<1>2. Circuit   BY Zenon DEF Init, Circuit, Place
<1>3. Alone /\ DegradedHasRecord   BY Zenon DEF Init, Alone, Between, DegradedHasRecord
<1> QED BY Zenon, <1>1, <1>2, <1>3 DEF DInv

-----------------------------------------------------------------------------
(* Steps *)

\* transitionState to any state but Degraded makes no state Degraded.
LEMMA MovedElsewhere ==
    ASSUME NEW to, to # "Degraded", state' = Moved(to)
    PROVE  state' = "Degraded" => state = "Degraded"
BY Zenon DEF Moved

\* A step outside the circuit that does not degrade the manager keeps what the
\* circuit relies on.
LEMMA CircuitQuiet ==
    ASSUME DInv, UNCHANGED <<rec, pc, why>>, state' = "Degraded" => state = "Degraded"
    PROVE  Circuit' /\ Alone' /\ DegradedHasRecord'
<1>1. Circuit'   BY Zenon DEF DInv, Circuit
<1>2. Alone'   BY Zenon DEF DInv, Alone, Between
<1>3. DegradedHasRecord'   BY Zenon DEF DInv, DegradedHasRecord
<1> QED BY Zenon, <1>1, <1>2, <1>3

\* Startup, and the applies: none of them degrades the manager.
LEMMA StartupKeeps ==
    ASSUME DInv, Startup \/ WatcherApplies \/ Mark
    PROVE  DInv'
<1>1. UNCHANGED <<rec, pc, why, calc, pend, ch, mon>>
  BY Zenon DEF Startup, StartReturns, WaitForAssignment, ApplyInitial, BootStable, WatcherApplies, Mark,
         MarkClaims, MarkReads, MarkMoves, degVars, calcVars
<1>2. state' = "Degraded" => state = "Degraded"
  <2>1. CASE StartReturns   BY Zenon, <2>1, MovedElsewhere DEF StartReturns
  <2>2. CASE MarkMoves   BY Zenon, <2>2, MovedElsewhere DEF MarkMoves
  <2>3. CASE WaitForAssignment \/ ApplyInitial \/ BootStable \/ WatcherApplies \/ MarkClaims \/ MarkReads
    BY Zenon, <2>3 DEF WaitForAssignment, ApplyInitial, BootStable, WatcherApplies, MarkClaims, MarkReads, StableIfWaiting
  <2> QED BY Zenon, <2>1, <2>2, <2>3 DEF Startup, Mark
<1>3. Projected'   BY Zenon, <1>1 DEF DInv, Projected
<1> QED BY Zenon, <1>1, <1>2, <1>3, CircuitQuiet DEF DInv

\* enterDegraded: the first check, the claim of the record, the transition or
\* the rollback.
LEMMA EnterKeeps ==
    ASSUME DInv, NEW g \in Go, Enter(g) \/ \E r \in Reason : EnterChecks(g, r)
    PROVE  DInv'
<1>0. pc \in [Go -> Place] /\ why \in [Go -> Reason \cup {"nil"}]   BY Zenon DEF DInv, Circuit
<1>1. CASE \E r \in Reason : EnterChecks(g, r)
  <2>1. PICK r \in Reason : EnterChecks(g, r)   BY Zenon, <1>1
  <2>2. /\ UNCHANGED <<state, rec, calc, pend, ch, mon>> /\ pc[g] = "idle"
        /\ pc' = [pc EXCEPT ![g] = "claim"] /\ why' = [why EXCEPT ![g] = r]
    BY Zenon, <2>1 DEF EnterChecks, calcVars
  <2>3. Circuit'   BY Zenon, <1>0, <2>2, ReasonAssumption DEF DInv, Circuit, Place
  <2>4. Alone' /\ DegradedHasRecord'   BY Zenon, <1>0, <2>2 DEF DInv, Alone, Between, DegradedHasRecord
  <2>5. Projected'   BY Zenon, <2>2 DEF DInv, Projected
  <2> QED BY Zenon, <2>3, <2>4, <2>5 DEF DInv
<1>2. CASE EnterClaims(g)
  <2>1. UNCHANGED <<state, calc, pend, ch, mon>> /\ pc[g] = "claim"   BY Zenon, <1>2 DEF EnterClaims, calcVars
  <2>2. CASE rec = "nil"
    <3>1. rec' = why[g] /\ pc' = [pc EXCEPT ![g] = "move"] /\ UNCHANGED why   BY Zenon, <1>2, <2>2 DEF EnterClaims
    <3>2. why[g] # "nil" /\ \A h \in Go : ~Between(h)   BY Zenon, <2>1, <2>2 DEF DInv, Circuit, Alone
    <3>3. Circuit'   BY Zenon, <1>0, <3>1 DEF DInv, Circuit, Place
    <3>4. Alone' /\ DegradedHasRecord'   BY Zenon, <1>0, <2>1, <2>2, <3>1, <3>2 DEF DInv, Alone, Between, DegradedHasRecord
    <3> QED BY Zenon, <2>1, <3>3, <3>4 DEF DInv, Projected
  <2>3. CASE rec # "nil"
    <3>1. rec' = rec /\ pc' = [pc EXCEPT ![g] = "idle"] /\ why' = [why EXCEPT ![g] = "nil"]
      BY Zenon, <1>2, <2>3 DEF EnterClaims
    <3>2. Circuit'   BY Zenon, <1>0, <3>1 DEF DInv, Circuit, Place
    <3>3. Alone' /\ DegradedHasRecord'   BY Zenon, <1>0, <2>1, <3>1 DEF DInv, Alone, Between, DegradedHasRecord
    <3> QED BY Zenon, <2>1, <3>2, <3>3 DEF DInv, Projected
  <2> QED BY Zenon, <2>2, <2>3
<1>3. CASE EnterMoves(g)
  <2>1. /\ UNCHANGED <<calc, pend, ch, mon>> /\ pc[g] = "move" /\ rec' = (IF state' = "Degraded" THEN rec ELSE "nil")
        /\ pc' = [pc EXCEPT ![g] = "idle"] /\ why' = [why EXCEPT ![g] = "nil"]
    BY Zenon, <1>3 DEF EnterMoves, calcVars
  <2>2. rec # "nil" /\ \A h \in Go : Between(h) => h = g   BY Zenon, <2>1 DEF DInv, Alone, Between
  <2>3. Circuit'   BY Zenon, <1>0, <2>1 DEF DInv, Circuit, Place
  <2>4. Alone' /\ DegradedHasRecord'   BY Zenon, <1>0, <2>1, <2>2 DEF Alone, Between, DegradedHasRecord
  <2> QED BY Zenon, <2>1, <2>3, <2>4 DEF DInv, Projected
<1> QED BY Zenon, <1>1, <1>2, <1>3 DEF Enter

\* Recovery: exitDegraded leaves Degraded only from Degraded, and clears the
\* record after it has.
LEMMA RecoverKeeps ==
    ASSUME DInv, Recover \/ RecoverHeld
    PROVE  DInv'
<1>0. pc \in [Go -> Place] /\ "conn" \in Go   BY Zenon DEF DInv, Circuit, Go
<1>1. UNCHANGED <<why, calc, pend, ch, mon>>
  BY Zenon DEF Recover, RecoverRefreshes, RecoverPasses, ExitMoves, ExitClears, RecoverHeld, calcVars
<1>2. PICK p \in {"idle", "gates", "probe", "clear"} : pc' = [pc EXCEPT !["conn"] = p]
  BY Zenon DEF Recover, RecoverRefreshes, RecoverPasses, ExitMoves, ExitClears, RecoverHeld
<1>3. Circuit'   BY Zenon, <1>0, <1>1, <1>2 DEF DInv, Circuit, Place
<1>4. CASE RecoverRefreshes \/ RecoverPasses \/ RecoverHeld
  <2>1. UNCHANGED <<rec, state>> /\ p # "clear"
    BY Zenon, <1>0, <1>2, <1>4 DEF RecoverRefreshes, RecoverPasses, RecoverHeld
  <2>2. Alone' /\ DegradedHasRecord'   BY Zenon, <1>0, <1>2, <2>1 DEF DInv, Alone, Between, DegradedHasRecord
  <2> QED BY Zenon, <1>1, <1>3, <2>2 DEF DInv, Projected
<1>5. CASE ExitMoves
  <2>1. /\ rec' = rec /\ pc["conn"] = "probe" /\ state' = (IF state = "Degraded" THEN "Stable" ELSE state)
        /\ pc'["conn"] = IF state = "Degraded" THEN "clear" ELSE "idle"
    BY Zenon, <1>0, <1>5 DEF ExitMoves
  <2>2. \A h \in Go : Between(h)' => (h = "conn" /\ state = "Degraded") \/ (h # "conn" /\ Between(h))
    BY Zenon, <1>0, <1>2, <2>1 DEF Between
  <2>3. state = "Degraded" => rec # "nil" /\ \A h \in Go : ~Between(h)   BY Zenon DEF DInv, Alone, DegradedHasRecord
  <2>4. Alone'   BY Zenon, <2>1, <2>2, <2>3 DEF DInv, Alone
  <2>5. DegradedHasRecord'   BY Zenon, <2>1 DEF DInv, DegradedHasRecord
  <2> QED BY Zenon, <1>1, <1>3, <2>4, <2>5 DEF DInv, Projected
<1>6. CASE ExitClears
  <2>1. state' = state /\ pc["conn"] = "clear" /\ pc'["conn"] = "idle"   BY Zenon, <1>0, <1>6 DEF ExitClears
  <2>2. state # "Degraded" /\ \A h \in Go : Between(h) => h = "conn"   BY Zenon, <1>0, <2>1 DEF DInv, Alone, Between
  <2>3. Alone' /\ DegradedHasRecord'   BY Zenon, <1>0, <1>2, <2>1, <2>2 DEF Alone, Between, DegradedHasRecord
  <2> QED BY Zenon, <1>1, <1>3, <2>3 DEF DInv, Projected
<1> QED BY Zenon, <1>4, <1>5, <1>6 DEF Recover

\* Leadership: calculators start and stop, which leaves the manager in Stable
\* or WaitingAssignment.
LEMMA LeadershipKeeps ==
    ASSUME DInv, StartCalculator \/ StopCalculatorReads \/ StopCalculatorMoves \/ StopCalculatorDrains
    PROVE  DInv'
<1>1. UNCHANGED <<rec, pc, why>> /\ (state' = "Degraded" => state = "Degraded")
  <2>1. CASE StopCalculatorMoves
    <3>1. UNCHANGED <<rec, pc, why>>   BY Zenon, <2>1 DEF StopCalculatorMoves, degVars
    <3>2. PICK to : to # "Degraded" /\ state' = Moved(to)   BY <2>1 DEF StopCalculatorMoves
    <3> QED BY Zenon, <3>1, <3>2, MovedElsewhere
  <2>2. CASE StartCalculator \/ StopCalculatorReads \/ StopCalculatorDrains
    BY Zenon, <2>2 DEF StartCalculator, StopCalculatorReads, StopCalculatorDrains, degVars
  <2> QED BY Zenon, <2>1, <2>2
<1>2. Projected'
  <2>1. CASE StartCalculator
    <3>1. PICK c \in Calc, ok \in BOOLEAN :
              /\ calc' = [calc EXCEPT ![c].run = ok]
              /\ ch' = [ch EXCEPT ![c] = <<"Idle">>]
              /\ mon' = [mon EXCEPT ![c].pc = "idle"]
      BY Zenon, <2>1 DEF StartCalculator
    <3>2. pend' = pend   BY Zenon, <2>1 DEF StartCalculator
    <3>3. <<"Idle">> \in Seq(CalcState)   BY DEF CalcState
    <3>4. calc' \in [Calc -> [st : CalcState, run : BOOLEAN]]   BY Zenon, <3>1 DEF DInv, Projected
    <3>5. ch' \in [Calc -> Seq(CalcState)]   BY Zenon, <3>1, <3>3 DEF DInv, Projected
    <3>6. mon' \in [Calc -> MonitorState]
      BY ZenonT(30), <3>1 DEF MonitorState, DInv, Projected
    <3> QED BY Zenon, <3>2, <3>4, <3>5, <3>6 DEF DInv, Projected
  <2>2. CASE StopCalculatorDrains
    <3>1. PICK c \in Calc : calc' = [calc EXCEPT ![c].run = FALSE]   BY Zenon, <2>2 DEF StopCalculatorDrains
    <3>2. UNCHANGED <<pend, ch, mon>>   BY Zenon, <2>2 DEF StopCalculatorDrains
    <3>3. calc' \in [Calc -> [st : CalcState, run : BOOLEAN]]   BY Zenon, <3>1 DEF DInv, Projected
    <3> QED BY Zenon, <3>2, <3>3 DEF DInv, Projected
  <2>3. CASE StopCalculatorReads \/ StopCalculatorMoves
    BY Zenon, <2>3 DEF StopCalculatorReads, StopCalculatorMoves, DInv, Projected
  <2> QED BY Zenon, <2>1, <2>2, <2>3
<1> QED BY Zenon, <1>1, <1>2, CircuitQuiet DEF DInv

\* A calculator moves and its subscribers are notified.
LEMMA CalculatorKeeps ==
    ASSUME DInv, NEW c \in Calc, CalculatorMoves(c) \/ Notify(c)
    PROVE  DInv'
<1>1. UNCHANGED <<state, rec, pc, why, mon>>   BY Zenon DEF CalculatorMoves, Notify, degVars
<1>2. Projected'
  <2>1. CASE CalculatorMoves(c)
    <3>1. PICK k \in CalcState :
              calc' = [calc EXCEPT ![c].st = k] /\ pend' = [pend EXCEPT ![c] = @ \cup {k}] /\ ch' = ch
      BY Zenon, <2>1 DEF CalculatorMoves
    <3>2. calc' \in [Calc -> [st : CalcState, run : BOOLEAN]]   BY Zenon, <3>1 DEF DInv, Projected
    <3>3. pend' \in [Calc -> SUBSET CalcState]   BY Zenon, <3>1 DEF DInv, Projected
    <3> QED BY Zenon, <1>1, <3>1, <3>2, <3>3 DEF DInv, Projected
  <2>2. CASE Notify(c)
    <3>1. PICK k \in pend[c] :
              /\ pend' = [pend EXCEPT ![c] = @ \ {k}] /\ calc' = calc
              /\ ch' = IF Len(ch[c]) < BufCap THEN [ch EXCEPT ![c] = Append(@, k)] ELSE ch
      BY Zenon, <2>2 DEF Notify
    <3>2. k \in CalcState /\ ch[c] \in Seq(CalcState)   BY Zenon, <3>1 DEF DInv, Projected
    <3>3. Append(ch[c], k) \in Seq(CalcState)   BY <3>2
    <3>4. ch' \in [Calc -> Seq(CalcState)]   BY Zenon, <3>1, <3>3 DEF DInv, Projected
    <3>5. pend' \in [Calc -> SUBSET CalcState]   BY Zenon, <3>1 DEF DInv, Projected
    <3> QED BY Zenon, <1>1, <3>1, <3>4, <3>5 DEF DInv, Projected
  <2> QED BY Zenon, <2>1, <2>2
<1> QED BY Zenon, <1>1, <1>2, CircuitQuiet DEF DInv

\* syncStateFromCalculator decides on a state of the calculator.
LEMMA SyncReadsType ==
    ASSUME Projected, NEW c \in Calc, NEW k \in CalcState, SyncReads(c, k)
    PROVE  mon' \in [Calc -> MonitorState]
<1> DEFINE next == CASE state \in {"Election", "Shutdown", k} -> "idle"
                     [] k # "Idle" -> "move"
                     [] state \in Active -> "load"
                     [] OTHER -> "idle"
           kept == IF next = "idle" THEN "Idle" ELSE k
<1>1. next \in {"idle", "load", "move"}   OBVIOUS
<1>2. mon' = [mon EXCEPT ![c] = [pc |-> next, last |-> k, k |-> kept]]   BY Zenon DEF SyncReads
<1> HIDE DEF next
<1>3. kept \in CalcState   BY Zenon DEF CalcState
<1> HIDE DEF kept
<1> QED BY Zenon, <1>1, <1>2, <1>3 DEF MonitorState, Projected

\* The monitor of a calculator projects its state: Scaling, Rebalancing,
\* Emergency, or Stable for Idle.
LEMMA MonitorKeeps ==
    ASSUME DInv, NEW c \in Calc, Monitor(c)
    PROVE  DInv'
<1>1. UNCHANGED <<rec, pc, why, calc, pend>>
  BY Zenon DEF Monitor, MonitorReceives, MonitorReconciles, SyncLoads, SyncMoves, degVars, calcVars
<1>2. state' = "Degraded" => state = "Degraded"
  <2>1. CASE SyncMoves(c)
    <3>1. mon[c].k # "Degraded"   BY Zenon DEF MonitorState, DInv, Projected, CalcState, Active
    <3>2. PICK to : to # "Degraded" /\ state' = Moved(to)   BY Zenon, <2>1, <3>1 DEF SyncMoves
    <3> QED BY Zenon, <3>2, MovedElsewhere
  <2>2. CASE ~SyncMoves(c)   BY Zenon, <2>2 DEF Monitor, MonitorReceives, MonitorReconciles, SyncLoads
  <2> QED BY Zenon, <2>1, <2>2
<1>3. Projected'
  <2>0. mon[c] \in MonitorState
    BY Zenon DEF DInv, Projected
  <2>1. CASE MonitorReceives(c)
    <3>1. /\ ch[c] \in Seq(CalcState) /\ ch[c] # <<>> /\ SyncReads(c, Head(ch[c]))
          /\ ch' = [ch EXCEPT ![c] = Tail(@)]
      BY Zenon, <2>1 DEF MonitorReceives, DInv, Projected
    <3>2. Head(ch[c]) \in CalcState /\ Tail(ch[c]) \in Seq(CalcState)   BY <3>1
    <3>3. ch' \in [Calc -> Seq(CalcState)]   BY Zenon, <3>1, <3>2 DEF DInv, Projected
    <3> QED BY Zenon, <1>1, <3>1, <3>2, <3>3, SyncReadsType DEF DInv, Projected
  <2>2. CASE MonitorReconciles(c)
    <3>1. calc[c].st \in CalcState /\ SyncReads(c, calc[c].st) /\ ch' = ch
      BY Zenon, <2>2 DEF MonitorReconciles, calcVars, DInv, Projected
    <3> QED BY Zenon, <1>1, <3>1, SyncReadsType DEF DInv, Projected
  <2>3. CASE SyncLoads(c)
    <3>1. ch' = ch /\ mon' = [mon EXCEPT ![c].pc = IF applied THEN "move" ELSE "idle"]
      BY Zenon, <2>3 DEF SyncLoads, calcVars
    <3> DEFINE m == [mon[c] EXCEPT !.pc = IF applied THEN "move" ELSE "idle"]
    <3>2. m \in MonitorState   BY <2>0 DEF MonitorState
    <3>3. mon' = [mon EXCEPT ![c] = m]   BY Zenon, <3>1
    <3> HIDE DEF m
    <3> QED BY Zenon, <1>1, <3>1, <3>2, <3>3 DEF DInv, Projected
  <2>4. CASE SyncMoves(c)
    <3>1. ch' = ch /\ mon' = [mon EXCEPT ![c].pc = "idle", ![c].k = "Idle"]   BY Zenon, <2>4 DEF SyncMoves, calcVars
    <3> DEFINE m == [mon[c] EXCEPT !.pc = "idle", !.k = "Idle"]
    <3>2. m \in MonitorState   BY Zenon, <2>0 DEF MonitorState, CalcState
    <3>3. mon' = [mon EXCEPT ![c] = m]   BY Zenon, <2>4 DEF SyncMoves
    <3> HIDE DEF m
    <3> QED BY Zenon, <1>1, <3>1, <3>2, <3>3 DEF DInv, Projected
  <2> QED BY Zenon, <2>1, <2>2, <2>3, <2>4 DEF Monitor
<1> QED BY Zenon, <1>1, <1>2, <1>3, CircuitQuiet DEF DInv

\* Every step keeps the invariant.
LEMMA NextDInv == DInv /\ [Next]_vars => DInv'
<1> SUFFICES ASSUME DInv, [Next]_vars PROVE DInv'   OBVIOUS
<1>1. CASE Startup \/ WatcherApplies \/ Mark   BY Zenon, <1>1, StartupKeeps
<1>2. CASE \E g \in Go : Enter(g) \/ \E r \in Reason : EnterChecks(g, r)   BY Zenon, <1>2, EnterKeeps
<1>3. CASE Recover \/ RecoverHeld   BY Zenon, <1>3, RecoverKeeps
<1>4. CASE StartCalculator \/ StopCalculatorReads \/ StopCalculatorMoves \/ StopCalculatorDrains
  BY Zenon, <1>4, LeadershipKeeps
<1>5. CASE \E c \in Calc : CalculatorMoves(c) \/ Notify(c) \/ Monitor(c)
  BY Zenon, <1>5, CalculatorKeeps, MonitorKeeps
<1>6. CASE Stop
  <2>1. UNCHANGED <<rec, pc, why, calc, pend, ch, mon>>   BY Zenon, <1>6 DEF Stop, degVars, calcVars
  <2>2. state' = "Degraded" => state = "Degraded"   BY Zenon, <1>6, MovedElsewhere DEF Stop
  <2> QED BY Zenon, <2>1, <2>2, CircuitQuiet DEF DInv, Projected
<1>7. CASE UNCHANGED vars
  <2>1. UNCHANGED <<state, rec, pc, why, calc, pend, ch, mon>>   BY Zenon, <1>7 DEF vars, degVars, calcVars
  <2> QED BY Zenon, <2>1, CircuitQuiet DEF DInv, Projected
<1> QED BY Zenon, <1>1, <1>2, <1>3, <1>4, <1>5, <1>6, <1>7 DEF Next

-----------------------------------------------------------------------------
(* The theorem *)

\* manager_degraded.go enterDegraded, exitDegraded: however entries, rollbacks,
\* recoveries, calculator monitors, the startup and Stop interleave, a manager
\* in Degraded has the record that recovery and alerting work from.
THEOREM NeverStranded == Spec => []DegradedHasRecord
<1>1. DInv => DegradedHasRecord   BY Zenon DEF DInv
<1> QED BY InitDInv, NextDInv, <1>1, PTL DEF Spec

-----------------------------------------------------------------------------
(* Health: the MaxAge of the buckets Start verified *)

\* A verified incarnation is one the bucket has had.
AgesKept ==
    /\ bk \in [Bucket -> [gen : Nat, here : BOOLEAN, age : {"right", "wrong"}]]
    /\ verified \in [Bucket -> Nat]
    /\ \A b \in Bucket : verified[b] <= bk[b].gen
    /\ VerifiedAgeHolds

\* The invariant holds initially.
LEMMA AgesInit == HealthInit => AgesKept
<1> SUFFICES ASSUME HealthInit PROVE AgesKept   OBVIOUS
<1>1. PICK h \in SUBSET Bucket, w \in SUBSET Reconciled :
        bk = [b \in Bucket |-> [gen |-> IF b \in h THEN 1 ELSE 0, here |-> b \in h,
                                age |-> IF b \in w THEN "wrong" ELSE "right"]]
  BY Zenon DEF HealthInit
<1>2. bk \in [Bucket -> [gen : Nat, here : BOOLEAN, age : {"right", "wrong"}]]   BY <1>1
<1>3. verified = [b \in Bucket |-> 0]   BY DEF HealthInit
<1>4. \A b \in Bucket : verified[b] = 0 /\ bk[b].gen \in Nat   BY <1>2, <1>3
<1> QED BY <1>2, <1>3, <1>4, ReconciledAssumption DEF AgesKept, VerifiedAgeHolds

\* What one bucket's step may do: nothing is verified and the same incarnation
\* keeps or repairs its MaxAge, a new incarnation is made, or the bucket is
\* verified when its MaxAge is right.
LEMMA AgesStep ==
    ASSUME AgesKept, NEW b \in Bucket,
           NEW r \in [gen : Nat, here : BOOLEAN, age : {"right", "wrong"}], NEW v \in Nat,
           bk' = [bk EXCEPT ![b] = r], verified' = [verified EXCEPT ![b] = v],
           \/ v = verified[b] /\ r.gen = bk[b].gen /\ (r.age = "wrong" => bk[b].age = "wrong")
           \/ v = verified[b] /\ r.gen = bk[b].gen + 1
           \/ v = r.gen /\ r.gen = bk[b].gen /\ r.age = "right"
    PROVE  AgesKept'
<1>1. bk' \in [Bucket -> [gen : Nat, here : BOOLEAN, age : {"right", "wrong"}]] /\ verified' \in [Bucket -> Nat]
  BY DEF AgesKept
<1>2. bk'[b] = r /\ verified'[b] = v   BY DEF AgesKept
<1>3. \A c \in Bucket : c # b => bk'[c] = bk[c] /\ verified'[c] = verified[c]   BY DEF AgesKept
<1>4. verified[b] <= bk[b].gen /\ bk[b].gen \in Nat /\ verified[b] \in Nat   BY DEF AgesKept
<1>5. v <= r.gen   BY <1>4
<1>6. b \in Reconciled /\ r.age = "wrong" => r.gen # v \/ r.gen = 0   BY <1>4 DEF AgesKept, VerifiedAgeHolds
<1>7. \A c \in Bucket : verified'[c] <= bk'[c].gen   BY <1>2, <1>3, <1>5 DEF AgesKept
<1>8. VerifiedAgeHolds'
  BY <1>2, <1>3, <1>6, ReconciledAssumption DEF AgesKept, VerifiedAgeHolds
<1> QED BY <1>1, <1>7, <1>8 DEF AgesKept

\* The bucket Start is at.
LEMMA OrderInBucket == \A s : At(s) => Order[booting] \in Bucket
BY DEF At, Bucket

\* Leaving both alone is a step of the first kind.
LEMMA AgesQuiet == AgesKept /\ UNCHANGED <<bk, verified>> => AgesKept'
BY DEF AgesKept, VerifiedAgeHolds

\* The server and the peers: wiping and repairing keep the incarnation,
\* creating makes a new one.
LEMMA EnvironmentKeepsAges == AgesKept /\ Environment => AgesKept'
<1> SUFFICES ASSUME AgesKept, Environment PROVE AgesKept'   OBVIOUS
<1>0. bk \in [Bucket -> [gen : Nat, here : BOOLEAN, age : {"right", "wrong"}]] /\ verified \in [Bucket -> Nat]
  BY DEF AgesKept
<1>1. CASE ConnectionMoves \/ QuorumMoves \/ LeadershipMoves
  BY <1>1, AgesQuiet DEF ConnectionMoves, QuorumMoves, LeadershipMoves, setup
<1>2. ASSUME NEW b \in Bucket, Wiped(b) \/ Recreated(b) \/ PeerReconciles(b) PROVE AgesKept'
  <2>1. verified' = [verified EXCEPT ![b] = verified[b]]
    BY <1>0, <1>2 DEF Wiped, Recreated, PeerReconciles, setup
  <2>2. CASE Wiped(b)
    <3>1. bk' = [bk EXCEPT ![b] = [bk[b] EXCEPT !.here = FALSE]]   BY <2>2 DEF Wiped
    <3> QED BY ZenonT(30), <1>0, <2>1, <3>1, AgesStep
  <2>3. CASE Recreated(b)
    <3>1. PICK a \in {"right", "wrong"} :
            bk' = [bk EXCEPT ![b] = [gen |-> bk[b].gen + 1, here |-> TRUE, age |-> a]]
      BY Zenon, <2>3 DEF Recreated
    <3> DEFINE r == [gen |-> bk[b].gen + 1, here |-> TRUE, age |-> a]
    <3>2. bk[b].gen \in Nat /\ verified[b] \in Nat   BY <1>0
    <3>3. r \in [gen : Nat, here : BOOLEAN, age : {"right", "wrong"}] /\ r.gen = bk[b].gen + 1   BY <3>2
    <3>4. bk' = [bk EXCEPT ![b] = r]   BY <3>1
    <3> HIDE DEF r
    <3> QED BY Zenon, <2>1, <3>2, <3>3, <3>4, AgesStep
  <2>4. CASE PeerReconciles(b)
    <3>1. bk' = [bk EXCEPT ![b] = [bk[b] EXCEPT !.age = "right"]]   BY <2>4 DEF PeerReconciles
    <3> QED BY ZenonT(30), <1>0, <2>1, <3>1, AgesStep
  <2> QED BY <1>2, <2>2, <2>3, <2>4
<1> QED BY <1>1, <1>2 DEF Environment

\* Start: a bucket is marked verified only where its MaxAge was read or
\* written right.
LEMMA StartKeepsAges == AgesKept /\ Start => AgesKept'
<1> SUFFICES ASSUME AgesKept, Start PROVE AgesKept'   OBVIOUS
<1> DEFINE b == Order[booting]
<1>0. bk \in [Bucket -> [gen : Nat, here : BOOLEAN, age : {"right", "wrong"}]] /\ verified \in [Bucket -> Nat]
  BY DEF AgesKept
<1>1. b \in Bucket
  BY OrderInBucket DEF Start, EnsureKVBucket, CaptureBucketEpoch, ReconcileReads, ReconcileUpdates, ReconcileRechecks
<1>2. verified[b] \in Nat /\ bk[b] \in [gen : Nat, here : BOOLEAN, age : {"right", "wrong"}]   BY <1>0, <1>1
<1> HIDE DEF b
<1>3. CASE EnsureKVBucket
  <2>1. verified' = verified   BY <1>3 DEF EnsureKVBucket, StartFails
  <2>2. bk' = bk \/ bk' = [bk EXCEPT ![b] = [gen |-> bk[b].gen + 1, here |-> TRUE, age |-> "right"]]
    BY <1>3 DEF EnsureKVBucket, b
  <2>3. CASE bk' = [bk EXCEPT ![b] = [gen |-> bk[b].gen + 1, here |-> TRUE, age |-> "right"]]
    <3> DEFINE r == [gen |-> bk[b].gen + 1, here |-> TRUE, age |-> "right"]
    <3>1. verified' = [verified EXCEPT ![b] = verified[b]]   BY <1>0, <2>1
    <3>2. r \in [gen : Nat, here : BOOLEAN, age : {"right", "wrong"}] /\ r.gen = bk[b].gen + 1   BY <1>2
    <3>3. bk' = [bk EXCEPT ![b] = r]   BY <2>3
    <3> HIDE DEF r
    <3> QED BY Zenon, <1>1, <1>2, <3>1, <3>2, <3>3, AgesStep
  <2> QED BY <2>1, <2>2, <2>3, AgesQuiet
<1>4. CASE CaptureBucketEpoch   BY <1>4, AgesQuiet DEF CaptureBucketEpoch, cluster
<1>5. CASE ReconcileReads \/ ReconcileRechecks
  <2>1. bk' = bk   BY <1>5 DEF ReconcileReads, ReconcileRechecks, cluster
  <2>2. verified' = verified \/ (bk[b].age = "right" /\ verified' = [verified EXCEPT ![b] = bk[b].gen])
    BY <1>5 DEF ReconcileReads, ReconcileRechecks, StartFails, Verified, b
  <2>3. CASE bk[b].age = "right" /\ verified' = [verified EXCEPT ![b] = bk[b].gen]
    <3>1. bk' = [bk EXCEPT ![b] = bk[b]]   BY <1>0, <2>1
    <3> QED BY Zenon, <1>1, <1>2, <2>3, <3>1, AgesStep
  <2> QED BY Zenon, <2>1, <2>2, <2>3, AgesQuiet
<1>6. CASE ReconcileUpdates
  <2>1. \/ UNCHANGED <<bk, verified>>
        \/ /\ bk' = [bk EXCEPT ![b] = [bk[b] EXCEPT !.age = "right"]]
           /\ verified' = [verified EXCEPT ![b] = bk[b].gen]
    BY <1>6 DEF ReconcileUpdates, b
  <2>2. CASE /\ bk' = [bk EXCEPT ![b] = [bk[b] EXCEPT !.age = "right"]]
             /\ verified' = [verified EXCEPT ![b] = bk[b].gen]
    BY Zenon, <1>1, <1>2, <2>2, AgesStep
  <2> QED BY <2>1, <2>2, AgesQuiet
<1> QED BY <1>3, <1>4, <1>5, <1>6 DEF Start

\* The circuit, the gates and the clock look at the buckets only.
LEMMA HealthNextKeepsAges == AgesKept /\ [HealthNext]_healthVars => AgesKept'
<1> SUFFICES ASSUME AgesKept, [HealthNext]_healthVars PROVE AgesKept'   OBVIOUS
<1>1. CASE UNCHANGED healthVars   BY <1>1, AgesQuiet DEF healthVars, cluster, setup
<1>2. CASE Start \/ Environment   BY <1>2, StartKeepsAges, EnvironmentKeepsAges
<1>3. CASE Connection \/ RecoveryBegins \/ Recovery
  BY Zenon, <1>3, AgesQuiet DEF Connection, ConnectionLost, ConnectionStillDown, ConnectionRestored, RecoveryBegins,
     Recovery, RecoveryGates, HeartbeatBucketUnavailable, RecoveryEnds, EpochMismatchOutstanding, cluster, setup
<1>4. CASE \/ \E b \in Bucket : CheckBucketEpoch(b) \/ KVOperationFails(b)
           \/ RecordKVError \/ HeartbeatSucceeds \/ EnumerationSucceeds
           \/ OnEnumerationStall \/ OnStreamMissingError \/ GraceTimerFires \/ Tick
  BY <1>4, AgesQuiet DEF CheckBucketEpoch, KVOperationFails, RecordKVError, HeartbeatSucceeds, EnumerationSucceeds,
     OnEnumerationStall, OnStreamMissingError, GraceTimerFires, Tick, cluster, setup
<1> QED BY <1>1, <1>2, <1>3, <1>4 DEF HealthNext

\* The MaxAge of a verified bucket holds, for every list of buckets, whichever
\* of them are reconciled, and any number of incarnations and outages.
THEOREM VerifiedMaxAgeHolds == HealthSpec => []VerifiedAgeHolds
<1>1. AgesKept => VerifiedAgeHolds   BY DEF AgesKept
<1> QED BY <1>1, AgesInit, HealthNextKeepsAges, PTL DEF HealthSpec

-----------------------------------------------------------------------------
(* The provisioner *)

\* A configuration of a resource, field by field.
Conf == [Fields -> {"want", "x", "y", "absent", "missing"}]

\* The fields an update writes.
Updated(k) == {"settings", "managed", "instance"} \cup (IF k = "controlplane" THEN {} ELSE {"size"})
\* It differs in a field that cannot be updated.
OutOfLine(l) == l.fixed # "want" \/ l.component # "want"

\* What is planned, in closed form.
Proposal(k, pol, prune, l, t) ==
    IF k = "table" THEN IF t = Desired THEN "nothing" ELSE "write"
    ELSE IF l = Missing THEN IF pol = "adopt" /\ k # "consumer" THEN "nothing" ELSE "create"
    ELSE IF k = "consumer" THEN IF l.fixed # "want" /\ pol = "force" /\ prune THEN "recreate" ELSE "nothing"
    ELSE IF ParseMarker(l) /\ OutOfLine(l) /\ pol = "force" /\ prune THEN "recreate"
    ELSE IF pol \in {"safe-update", "force"} /\ ParseMarker(l) /\ \E f \in Updated(k) : l[f] # "want" THEN "update"
    ELSE IF pol = "adopt" /\ ~ParseMarker(l) THEN "stamp"
    ELSE "nothing"

\* The types the argument needs.
ProvisionTypes ==
    /\ kind \in Kinds /\ policy \in Policies /\ allow \in BOOLEAN
    /\ live \in Conf /\ snap \in Conf /\ table \in Tables /\ plan.records \in Tables
    /\ rev \in Nat /\ seen \in Nat /\ seen <= rev

\* The absent and the wanted configuration are configurations.
LEMMA MissingConf == Missing \in Conf /\ Wanted \in Conf
BY DEF Missing, Wanted, Conf

\* The target of an update: the fields it writes as wanted, the others kept.
LEMMA TargetIs ==
    ASSUME NEW l \in Conf
    PROVE  /\ buildUpdateKVTargetForBucket(l) \in Conf
           /\ \A f \in Fields : buildUpdateKVTargetForBucket(l)[f] = IF f \in Updated(kind) THEN "want" ELSE l[f]
BY Zenon DEF buildUpdateKVTargetForBucket, buildControlPlaneUpdateTarget, buildPartitionSourceUpdateTarget,
       buildStreamUpdateTarget, mergeUpdateKVMetadata, Conf, Fields, Updated

\* Stamping the marker writes the three marker fields only.
LEMMA MarkerIs ==
    ASSUME NEW l \in Conf
    PROVE  /\ mergeMarkerMetadata(l) \in Conf
           /\ \A f \in Fields : mergeMarkerMetadata(l)[f] = IF f \in {"managed", "component", "instance"} THEN "want" ELSE l[f]
BY Zenon DEF mergeMarkerMetadata, BuildMarker, Conf, Fields

\* The three drift classifiers agree on what only a recreation can repair.
LEMMA ImmutableFinding ==
    ASSUME NEW l \in Conf
    PROVE  /\ classifyControlPlaneDrift(l) = (ParseMarker(l) /\ OutOfLine(l))
           /\ classifyPartitionSourceDrift(l) = (ParseMarker(l) /\ OutOfLine(l))
           /\ classifyStreamDrift(l) = (ParseMarker(l) /\ OutOfLine(l))
<1>1. OutOfLine(l) => ~kvConfigsEqual(wantedControlPlaneKV(l), l)
  BY Zenon DEF OutOfLine, kvConfigsEqual, wantedControlPlaneKV, mergeMarkerMetadata, BuildMarker, Conf, Fields
<1>2. OutOfLine(l) => ~kvConfigsEqual(wantedPartitionSourceKV(l), l)
  BY Zenon DEF OutOfLine, kvConfigsEqual, wantedPartitionSourceKV, wantedControlPlaneKV, mergeMarkerMetadata, BuildMarker, Conf, Fields
<1>3. OutOfLine(l) => ~streamConfigsEqual(wantedStreamConfig(l), l)
  BY Zenon DEF OutOfLine, streamConfigsEqual, wantedStreamConfig, wantedControlPlaneKV, mergeMarkerMetadata, BuildMarker, Conf, Fields
<1> QED BY <1>1, <1>2, <1>3 DEF classifyControlPlaneDrift, classifyPartitionSourceDrift, classifyStreamDrift,
           kvImmutableDriftPresent, streamImmutableDriftPresent, OutOfLine

\* A target that differs from the configuration differs in a field it writes.
LEMMA TargetDiffers ==
    ASSUME NEW l \in Conf
    PROVE  ConfigsEqual(l, buildUpdateKVTargetForBucket(l)) <=> \A f \in Updated(kind) : l[f] = "want"
<1>1. Updated(kind) \subseteq Fields \ {"kept"}   BY DEF Updated, Fields
<1>2. ConfigsEqual(l, buildUpdateKVTargetForBucket(l))
        <=> \A f \in Fields \ {"kept"} : l[f] = buildUpdateKVTargetForBucket(l)[f]
  BY DEF ConfigsEqual, kvConfigsEqual, streamConfigsEqual
<1> QED BY <1>1, <1>2, TargetIs

\* What the planner answers is the closed form.
LEMMA PlanIs == ProvisionTypes => Plan.do = Proposal(kind, policy, allow, live, table) /\ Plan.records \in Tables
<1> SUFFICES ASSUME ProvisionTypes PROVE Plan.do = Proposal(kind, policy, allow, live, table) /\ Plan.records \in Tables
  OBVIOUS
<1>0. /\ kind \in Kinds /\ policy \in Policies /\ allow \in BOOLEAN /\ live \in Conf /\ table \in Tables
      /\ NoTable \in Tables
  BY DEF ProvisionTypes, NoTable, Tables
<1>1. /\ Nothing.do = "nothing" /\ Nothing.records = NoTable
      /\ \A a, l : Do(a, l).do = a /\ Do(a, l).records = NoTable
  BY DEF Nothing, Do
<1>2. CASE kind = "table"
  <2>1. Desired \in Tables   BY DEF Desired, Tables
  <2>2. diffPartitions(table, Desired) = {} <=> table = Desired   BY <1>0, <2>1 DEF diffPartitions, Tables
  <2>3. Plan = PlanPartitions(table)   BY <1>2 DEF Plan
  <2>4. [Do("write", Missing) EXCEPT !.records = table].do = "write"
        /\ [Do("write", Missing) EXCEPT !.records = table].records = table
    BY DEF Do, Nothing
  <2> QED BY <1>0, <1>1, <1>2, <2>2, <2>3, <2>4 DEF PlanPartitions, Proposal
<1>3. CASE kind = "consumer"
  <2>1. Plan = classifyConsumer(live)   BY <1>3 DEF Plan, PlanConsumers
  <2> QED BY <1>0, <1>1, <1>3, <2>1
        DEF classifyConsumer, Proposal, checkConsumerIdentityFields, policyRecreatesImmutable
<1>4. CASE kind \in {"controlplane", "partitionsource", "stream"}
  <2>1. Plan = PlanMarked(live, ParseMarker(live) /\ OutOfLine(live), buildUpdateKVTargetForBucket(live))
    BY <1>0, <1>4, ImmutableFinding DEF Plan, planControlPlane, planPartitionSource, planStreams,
       buildUpdateKVTargetForBucket
  <2>2. kind # "table" /\ kind # "consumer"   BY <1>4
  <2> QED BY <1>0, <1>1, <1>4, <2>1, <2>2, TargetDiffers
        DEF PlanMarked, Proposal, policyRecreatesImmutable, policyReconcilesMutable
<1> QED BY <1>0, <1>2, <1>3, <1>4 DEF Kinds

\* The same in the next state.
LEMMA PlanIsNext == (ProvisionTypes => Plan.do = Proposal(kind, policy, allow, live, table) /\ Plan.records \in Tables)'
BY PlanIs, PTL

\* A plan depends on nothing but the configuration and the server.
LEMMA PlanKept ==
    ASSUME ProvisionTypes, ProvisionTypes', UNCHANGED <<config, live, table>>
    PROVE  Plan.do' = Plan.do
BY PlanIs, PlanIsNext DEF config

\* A run that nothing disturbed since its plan.
Undisturbed ==
    /\ phase \in {"create", "update", "stamp", "recreate", "write"} => Plan.do = phase
    /\ phase = "updatewrite" => Plan.do = "update" /\ snap = live
    /\ phase = "stampwrite" => Plan.do = "stamp" /\ snap = live
    /\ phase = "deleted" => live = Missing
    /\ phase = "cas" => kind = "table"
    /\ phase \notin {"createonly", "verify", "verifydeleted"}
    /\ phase = "idle" /\ result = "done" => Plan.do = "nothing"

Fenced ==
    phase = "cas" /\ rev = seen =>
        /\ table = plan.records
        /\ ~allow => \A p \in Part : table[p] > 0 => Desired[p] > 0

PInv == ProvisionTypes /\ Fenced /\ (steady => Undisturbed)

\* What is found on the server is a configuration.
LEMMA FoundConf == Found \subseteq Conf
<1> DEFINE V == {"want", "x", "y", "absent", "missing"}
           A == UNION {Drifted(f) : f \in Fields}
           c1 == [Wanted EXCEPT !["fixed"] = "x", !["settings"] = "x"]
           c2 == [Wanted EXCEPT !["managed"] = "absent", !["fixed"] = "x"]
           c3 == [Wanted EXCEPT !["managed"] = "absent", !["component"] = "absent"]
<1>1. \A l \in Conf, f \in Fields, v \in V : [l EXCEPT ![f] = v] \in Conf   BY DEF Conf
<1>2. "x" \in V /\ "y" \in V /\ "absent" \in V   OBVIOUS
<1>3. {"fixed", "settings", "managed", "component"} \subseteq Fields   BY DEF Fields
<1> HIDE DEF V
<1>4. c1 \in Conf /\ c2 \in Conf /\ c3 \in Conf
  <2>1. /\ [Wanted EXCEPT !["fixed"] = "x"] \in Conf /\ [Wanted EXCEPT !["managed"] = "absent"] \in Conf
    BY Zenon, <1>1, <1>2, <1>3, MissingConf
  <2>2. /\ [[Wanted EXCEPT !["fixed"] = "x"] EXCEPT !["settings"] = "x"] \in Conf
        /\ [[Wanted EXCEPT !["managed"] = "absent"] EXCEPT !["fixed"] = "x"] \in Conf
        /\ [[Wanted EXCEPT !["managed"] = "absent"] EXCEPT !["component"] = "absent"] \in Conf
    BY Zenon, <1>1, <1>2, <1>3, <2>1
  <2> QED BY Zenon, <2>2
<1>5. \A f \in Fields : Drifted(f) \subseteq Conf
  <2> TAKE f \in Fields
  <2>1. [Wanted EXCEPT ![f] = "x"] \in Conf /\ [Wanted EXCEPT ![f] = "y"] \in Conf
    BY Zenon, <1>1, <1>2, MissingConf
  <2> QED BY Zenon, <2>1 DEF Drifted
<1>6. A \subseteq Conf   BY Zenon, <1>5
<1>7. Configs = {Wanted} \cup A \cup {c1} \cup {c2, c3}   BY Zenon DEF Configs
<1> HIDE DEF A, c1, c2, c3
<1>8. Configs \subseteq Conf   BY Zenon, <1>4, <1>6, <1>7, MissingConf
<1>9. Drifted("fixed") \subseteq Conf   BY ZenonT(30), <1>3, <1>5
<1> QED BY Zenon, <1>8, <1>9, MissingConf DEF Found

\* The invariant holds initially.
LEMMA PInvInit == ProvisionInit => PInv
<1> SUFFICES ASSUME ProvisionInit PROVE PInv   OBVIOUS
<1>1. Found \subseteq Conf   BY FoundConf
<1>2. NoTable \in Tables   BY DEF NoTable, Tables
<1>3. live \in Conf /\ table \in Tables /\ rev \in Nat   BY <1>1, <1>2, MissingConf DEF ProvisionInit
<1>4. plan.records \in Tables   BY <1>2 DEF ProvisionInit, Nothing
<1>5. ProvisionTypes   BY SMTT(30), <1>3, <1>4, MissingConf DEF ProvisionInit, ProvisionTypes
<1> QED BY <1>5 DEF ProvisionInit, PInv, Fenced

\* Ending a run.
LEMMA Ends ==
    ASSUME PInv, NEW r, foldActionResult(r), UNCHANGED config,
           live' \in Conf, table' \in Tables, rev' \in Nat,
           steady' /\ r = "done" => Proposal(kind, policy, allow, live', table') = "nothing"
    PROVE  PInv'
<1>1. phase' = "idle" /\ result' = r /\ plan' = Nothing /\ snap' = Missing /\ seen' = 0
  BY DEF foldActionResult
<1>2. NoTable \in Tables   BY DEF NoTable, Tables
<1>3. plan'.records \in Tables   BY Zenon, <1>1, <1>2 DEF Nothing
<1>4. ProvisionTypes'   BY <1>1, <1>3, MissingConf DEF PInv, ProvisionTypes, config
<1>5. steady' /\ r = "done" => Plan.do' = "nothing"   BY Zenon, <1>4, PlanIsNext DEF config
<1> QED BY <1>1, <1>4, <1>5 DEF PInv, Fenced, Undisturbed

\* Ending a run with anything but success, or one that was disturbed.
LEMMA EndsUndone ==
    ASSUME PInv, NEW r, foldActionResult(r), UNCHANGED config, live' \in Conf, UNCHANGED <<table, rev>>,
           r # "done" \/ ~steady'
    PROVE  PInv'
BY Ends DEF PInv, ProvisionTypes

\* Going on to another step of the run without a change on the server.
LEMMA GoesOn ==
    ASSUME PInv, UNCHANGED <<config, live, table, rev, steady>>, snap' \in Conf, seen' \in Nat, seen' <= rev,
           plan' = plan, phase' # "idle", phase' # "cas",
           steady => /\ phase' \notin {"create", "update", "stamp", "recreate", "write", "deleted", "createonly",
                                       "verify", "verifydeleted"}
                     /\ phase' = "updatewrite" => Plan.do = "update" /\ snap' = live
                     /\ phase' = "stampwrite" => Plan.do = "stamp" /\ snap' = live
    PROVE  PInv'
<1>1. ProvisionTypes'   BY DEF PInv, ProvisionTypes, config
<1>2. Plan.do' = Plan.do   BY Zenon, <1>1, PlanKept DEF PInv
<1> QED BY <1>1, <1>2 DEF PInv, Fenced, Undisturbed

\* For a resource as wanted nothing is planned.
LEMMA WantedIsPlanned ==
    ASSUME PInv, kind # "table" PROVE Proposal(kind, policy, allow, Wanted, table) = "nothing"
BY DEF PInv, ProvisionTypes, Kinds, Proposal, Wanted, Missing, Fields, ParseMarker, OutOfLine, Updated

\* A run plans and begins.
LEMMA BeginKeeps == PInv /\ Begin => PInv'
<1> SUFFICES ASSUME PInv, Begin PROVE PInv'   OBVIOUS
<1>1. Plan.do = Proposal(kind, policy, allow, live, table) /\ Plan.records \in Tables   BY Zenon, PlanIs DEF PInv
<1>2. ProvisionTypes'   BY <1>1 DEF Begin, PInv, ProvisionTypes, config, resource
<1>3. Plan.do' = Plan.do   BY <1>2, PlanKept DEF PInv, Begin, resource
<1>4. Plan.do \in {"nothing", "create", "update", "stamp", "recreate", "write"}   BY <1>1 DEF Proposal
<1>5. phase' = IF Plan.do = "nothing" THEN "idle" ELSE Plan.do   BY DEF Begin
<1>6. Fenced' /\ Undisturbed'   BY <1>3, <1>4, <1>5 DEF Fenced, Undisturbed
<1> QED BY <1>2, <1>6 DEF PInv

\* A run fails its validation or is aborted, or another operator steps in.
LEMMA OutsideKeeps == PInv /\ (ValidateLive \/ Abort \/ OtherOperator) => PInv'
<1> SUFFICES ASSUME PInv, ValidateLive \/ Abort \/ OtherOperator PROVE PInv'   OBVIOUS
<1>0. live \in Conf /\ table \in Tables /\ rev \in Nat   BY DEF PInv, ProvisionTypes
<1>1. CASE ValidateLive   BY <1>0, <1>1, EndsUndone DEF ValidateLive, resource
<1>2. CASE Abort   BY <1>0, <1>2, EndsUndone DEF Abort, resource
<1>3. CASE OtherOperator
  <2>1. UNCHANGED <<config, phase, plan, snap, seen>> /\ ~steady'   BY <1>3 DEF OtherOperator
  <2>2. /\ live' \in Conf /\ table' \in Tables
        /\ (rev' = rev /\ table' = table) \/ rev' = rev + 1
    BY <1>0, <1>3, FoundConf DEF OtherOperator
  <2>3. ProvisionTypes'   BY SMTT(30), <1>0, <2>1, <2>2 DEF PInv, ProvisionTypes, config
  <2>4. Fenced'   BY <2>1, <2>2 DEF PInv, ProvisionTypes, Fenced, config
  <2> QED BY Zenon, <2>1, <2>3, <2>4 DEF PInv
<1> QED BY <1>1, <1>2, <1>3

\* What the phase says of the plan in an undisturbed run.
LEMMA Steadily ==
    ASSUME PInv, steady
    PROVE  /\ Undisturbed /\ Plan.do = Proposal(kind, policy, allow, live, table)
BY PlanIs DEF PInv

\* The creations, which another operator may have raced.
LEMMA CreateKeeps ==
    PInv /\ (applyCreateKVAction \/ applyCreateStreamAction \/ applyCreateConsumerAction) => PInv'
<1> SUFFICES ASSUME PInv, applyCreateKVAction \/ applyCreateStreamAction \/ applyCreateConsumerAction
             PROVE  PInv'
  OBVIOUS
<1>0. live \in Conf /\ table \in Tables /\ rev \in Nat   BY DEF PInv, ProvisionTypes
<1>1. phase = "create" /\ kind # "table" /\ UNCHANGED <<config, table, rev, steady>>
  BY DEF applyCreateKVAction, applyCreateStreamAction, applyCreateConsumerAction
<1>2. NewConfig = Wanted
  BY DEF NewConfig, newCreateKVAction, buildPartitionSourceKVConfig, buildStreamConfig
<1>3. steady => live = Missing
  <2>1. steady => Proposal(kind, policy, allow, live, table) = "create"   BY <1>1, Steadily DEF Undisturbed
  <2> QED BY <2>1 DEF Proposal
<1>4. CASE live = Missing
  <2>1. live' = Wanted /\ foldActionResult("done")
    BY <1>2, <1>4 DEF applyCreateKVAction, applyCreateStreamAction, applyCreateConsumerAction
  <2> QED BY Zenon, <1>0, <1>1, <2>1, WantedIsPlanned, MissingConf, Ends
<1>5. CASE live # Missing
  <2>1. live' = live /\ ~steady'
    BY Zenon, <1>1, <1>3, <1>5 DEF applyCreateKVAction, applyCreateStreamAction, applyCreateConsumerAction
  <2>2. foldActionResult("done") \/ Goto("verify")
    BY Zenon, <1>5 DEF applyCreateKVAction, applyCreateStreamAction, applyCreateConsumerAction
  <2>3. CASE foldActionResult("done")   BY Zenon, <1>0, <1>1, <2>1, <2>3, EndsUndone
  <2>4. CASE Goto("verify")   BY Zenon, <1>0, <1>1, <2>1, <2>4, GoesOn DEF Goto, PInv, ProvisionTypes
  <2> QED BY Zenon, <2>2, <2>3, <2>4
<1> QED BY <1>4, <1>5

\* A raced consumer is compared with what was wanted.
LEMMA VerifyKeeps == PInv /\ verifyRacedConsumer => PInv'
<1> SUFFICES ASSUME PInv, verifyRacedConsumer PROVE PInv'   OBVIOUS
<1>0. live \in Conf   BY Zenon DEF PInv, ProvisionTypes
<1>1. ~steady   BY Zenon, Steadily DEF Undisturbed, verifyRacedConsumer
<1> QED BY Zenon, <1>0, <1>1, EndsUndone DEF verifyRacedConsumer, resource

\* An update leaves nothing to plan: it writes every field it would be planned
\* for, and none of those a recreation would be.
LEMMA UpdateIsPlanned ==
    ASSUME PInv, steady, Plan.do = "update"
    PROVE  /\ kind \in {"controlplane", "partitionsource", "stream"} /\ live # Missing
           /\ ~ConfigsEqual(live, buildUpdateKVTargetForBucket(live))
           /\ Proposal(kind, policy, allow, buildUpdateKVTargetForBucket(live), table) = "nothing"
<1> DEFINE t == buildUpdateKVTargetForBucket(live)
<1>0. kind \in Kinds /\ policy \in Policies /\ live \in Conf   BY DEF PInv, ProvisionTypes
<1>1. Proposal(kind, policy, allow, live, table) = "update"   BY Zenon, Steadily
<1>2. /\ kind \in {"controlplane", "partitionsource", "stream"} /\ live # Missing
      /\ ParseMarker(live) /\ policy \in {"safe-update", "force"}
      /\ ~(OutOfLine(live) /\ policy = "force" /\ allow)
      /\ \E f \in Updated(kind) : live[f] # "want"
  BY Zenon, <1>0, <1>1 DEF Proposal, Kinds
<1>3. ~ConfigsEqual(live, t)   BY Zenon, <1>0, <1>2, TargetDiffers
<1>4. t \in Conf /\ \A f \in Fields : t[f] = IF f \in Updated(kind) THEN "want" ELSE live[f]
  BY Zenon, <1>0, <1>2, TargetIs
<1> HIDE DEF t
<1>5. /\ t.managed = "want" /\ t.fixed = live.fixed /\ t.component = live.component
      /\ \A f \in Updated(kind) : t[f] = "want"
  BY Zenon, <1>4 DEF Fields, Updated
<1>6. t # Missing /\ ParseMarker(t)   BY <1>5 DEF Missing, Fields, ParseMarker
<1>7. OutOfLine(t) = OutOfLine(live)   BY Zenon, <1>5 DEF OutOfLine
<1>8. Proposal(kind, policy, allow, t, table) = "nothing"   BY Zenon, <1>2, <1>5, <1>6, <1>7 DEF Proposal
<1> QED BY Zenon, <1>2, <1>3, <1>8 DEF t

\* So does the stamping of the marker.
LEMMA StampIsPlanned ==
    ASSUME PInv, steady, Plan.do = "stamp"
    PROVE  /\ live # Missing /\ ~ConfigsEqual(live, mergeMarkerMetadata(live))
           /\ Proposal(kind, policy, allow, mergeMarkerMetadata(live), table) = "nothing"
<1> DEFINE t == mergeMarkerMetadata(live)
<1>0. kind \in Kinds /\ policy \in Policies /\ live \in Conf   BY DEF PInv, ProvisionTypes
<1>1. Proposal(kind, policy, allow, live, table) = "stamp"   BY Steadily
<1>2. kind \notin {"table", "consumer"} /\ live # Missing /\ ~ParseMarker(live) /\ policy = "adopt"
  BY <1>0, <1>1 DEF Proposal
<1>3. t \in Conf /\ \A f \in Fields : t[f] = IF f \in {"managed", "component", "instance"} THEN "want" ELSE live[f]
  BY <1>0, MarkerIs
<1> HIDE DEF t
<1>4. t.managed = "want" /\ live.managed = "absent"   BY <1>2, <1>3 DEF Fields, ParseMarker
<1>5. t # Missing /\ ParseMarker(t)   BY <1>4 DEF Missing, Fields, ParseMarker
<1>6. ~ConfigsEqual(live, t)
  <2>1. "managed" \in Fields \ {"kept"} /\ live["managed"] # t["managed"]   BY <1>4 DEF Fields
  <2> QED BY <2>1 DEF ConfigsEqual, kvConfigsEqual, streamConfigsEqual
<1>7. Proposal(kind, policy, allow, t, table) = "nothing"   BY <1>2, <1>5 DEF Proposal
<1> QED BY <1>2, <1>6, <1>7 DEF t

\* The second read of an update or a stamp.
LEMMA RereadKeeps == PInv /\ (UpdateReread \/ StampReread) => PInv'
<1> SUFFICES ASSUME PInv, UpdateReread \/ StampReread PROVE PInv'   OBVIOUS
<1>0. live \in Conf /\ snap \in Conf /\ seen \in Nat /\ seen <= rev   BY DEF PInv, ProvisionTypes
<1>1. UNCHANGED <<config, live, table, rev, steady>>   BY DEF UpdateReread, StampReread, resource
<1>2. CASE UpdateReread
  <2>1. steady => Plan.do = "update"   BY <1>2, Steadily DEF UpdateReread, Undisturbed
  <2>2. CASE foldActionResult("error")   BY Zenon, <1>0, <1>1, <2>2, EndsUndone
  <2>3. CASE ConfigsEqual(live, buildUpdateKVTargetForBucket(live)) /\ foldActionResult("done")
    BY Zenon, <1>0, <1>1, <2>1, <2>3, UpdateIsPlanned, EndsUndone
  <2>4. CASE snap' = live /\ phase' = "updatewrite" /\ UNCHANGED <<plan, result, seen>>
    BY <1>0, <1>1, <2>1, <2>4, GoesOn
  <2> QED BY <1>2, <2>2, <2>3, <2>4 DEF UpdateReread
<1>3. CASE StampReread
  <2>1. steady => Plan.do = "stamp"   BY Zenon, <1>3, Steadily DEF StampReread, Undisturbed
  <2>2. CASE foldActionResult("error")   BY <1>0, <1>1, <2>2, EndsUndone
  <2>3. CASE ConfigsEqual(live, mergeMarkerMetadata(live)) /\ foldActionResult("done")
    BY Zenon, <1>0, <1>1, <2>1, <2>3, StampIsPlanned, EndsUndone
  <2>4. CASE snap' = live /\ phase' = "stampwrite" /\ UNCHANGED <<plan, result, seen>>
    BY Zenon, <1>0, <1>1, <2>1, <2>4, GoesOn
  <2> QED BY <1>3, <2>2, <2>3, <2>4 DEF StampReread
<1> QED BY <1>2, <1>3

\* Their write: over the configuration that was read, if nothing disturbed the
\* run.
LEMMA WriteKeeps == PInv /\ (UpdateWrite \/ StampWrite) => PInv'
<1> SUFFICES ASSUME PInv, UpdateWrite \/ StampWrite PROVE PInv'   OBVIOUS
<1>0. live \in Conf /\ snap \in Conf /\ table \in Tables /\ rev \in Nat   BY DEF PInv, ProvisionTypes
<1>1. UNCHANGED <<config, table, rev, steady>>   BY DEF UpdateWrite, StampWrite
<1>2. CASE foldActionResult("error") /\ UNCHANGED live   BY Zenon, <1>0, <1>1, <1>2, EndsUndone
<1>3. CASE UpdateWrite /\ foldActionResult("done") /\ live' = buildUpdateKVTargetForBucket(snap)
  <2>1. live' \in Conf   BY <1>0, <1>3, TargetIs
  <2>2. steady => Plan.do = "update" /\ snap = live   BY <1>3, Steadily DEF UpdateWrite, Undisturbed
  <2>3. steady => Proposal(kind, policy, allow, live', table) = "nothing"   BY <1>3, <2>2, UpdateIsPlanned
  <2> QED BY Zenon, <1>0, <1>1, <1>3, <2>1, <2>3, Ends
<1>4. CASE StampWrite /\ foldActionResult("done") /\ live' = mergeMarkerMetadata(snap)
  <2>1. live' \in Conf   BY Zenon, <1>0, <1>4, MarkerIs
  <2>2. steady => Plan.do = "stamp" /\ snap = live   BY <1>4, Steadily DEF StampWrite, Undisturbed
  <2>3. steady => Proposal(kind, policy, allow, live', table) = "nothing"   BY <1>4, <2>2, StampIsPlanned
  <2> QED BY <1>0, <1>1, <1>4, <2>1, <2>3, Ends
<1> QED BY <1>2, <1>3, <1>4 DEF UpdateWrite, StampWrite, UpdateKeyValue

\* A recreation is planned for a resource that is there and drifted.
LEMMA RecreateIsPlanned ==
    ASSUME PInv, steady, Plan.do = "recreate"
    PROVE  live # Missing /\ ImmutableDriftPresent(live)
<1>1. Proposal(kind, policy, allow, live, table) = "recreate"   BY Steadily
<1>2. /\ live # Missing /\ kind \in Kinds
      /\ kind = "consumer" => live.fixed # "want"
      /\ kind # "consumer" => OutOfLine(live)
  BY <1>1 DEF Proposal, PInv, ProvisionTypes
<1> QED BY <1>2 DEF ImmutableDriftPresent, checkConsumerIdentityFields, kvImmutableDriftPresent,
        streamImmutableDriftPresent, OutOfLine

\* Delete and create again.
LEMMA RecreateKeeps == PInv /\ kind # "table" /\ RecreateStep => PInv'
<1> SUFFICES ASSUME PInv, kind # "table", RecreateStep PROVE PInv'   OBVIOUS
<1>0. live \in Conf /\ snap \in Conf /\ table \in Tables /\ rev \in Nat /\ seen \in Nat /\ seen <= rev
  BY DEF PInv, ProvisionTypes
<1>1. CASE reReadForRecreate
  <2>1. UNCHANGED <<config, live, table, rev, steady>>   BY <1>1 DEF reReadForRecreate, resource
  <2>2. steady => live # Missing /\ ImmutableDriftPresent(live)
    BY <1>1, Steadily, RecreateIsPlanned DEF reReadForRecreate, Undisturbed
  <2>3. CASE live = Missing /\ Goto("createonly")   BY Zenon, <1>0, <2>1, <2>2, <2>3, GoesOn DEF Goto
  <2>4. CASE ~ImmutableDriftPresent(live) /\ foldActionResult("done")   BY Zenon, <1>0, <2>1, <2>2, <2>4, EndsUndone
  <2>5. CASE snap' = live /\ phase' = "delete" /\ UNCHANGED <<plan, result, seen>>   BY <1>0, <2>1, <2>5, GoesOn
  <2> QED BY <1>1, <2>3, <2>4, <2>5 DEF reReadForRecreate
<1>2. CASE RecreateDelete
  <2>1. UNCHANGED <<config, table, rev, steady>>   BY <1>2 DEF RecreateDelete
  <2>2. CASE foldActionResult("error") /\ UNCHANGED live   BY Zenon, <1>0, <2>1, <2>2, EndsUndone
  <2>3. CASE Goto("deleted") /\ live' = Missing
    <3>1. ProvisionTypes'   BY <2>1, <2>3, MissingConf DEF PInv, ProvisionTypes, Goto, config
    <3> QED BY Zenon, <2>3, <3>1 DEF PInv, Fenced, Undisturbed, Goto
  <2> QED BY <1>2, <2>2, <2>3 DEF RecreateDelete
<1>3. CASE RecreateDeleteLost   BY <1>0, <1>3, MissingConf, EndsUndone DEF RecreateDeleteLost
<1>4. CASE RecreateCreate
  <2>1. UNCHANGED <<config, table, rev, steady>>   BY <1>4 DEF RecreateCreate
  <2>2. steady => live = Missing   BY <1>4, Steadily DEF RecreateCreate, Undisturbed
  <2>3. CASE live' = Wanted /\ foldActionResult("done")
    BY Zenon, <1>0, <2>1, <2>3, WantedIsPlanned, MissingConf, Ends
  <2>4. CASE live # Missing /\ UNCHANGED live /\ foldActionResult("done")   BY Zenon, <1>0, <2>1, <2>2, <2>4, EndsUndone
  <2>5. CASE live # Missing /\ UNCHANGED live /\ (Goto("verify") \/ Goto("verifydeleted"))
    BY Zenon, <1>0, <2>1, <2>2, <2>5, GoesOn DEF Goto
  <2> QED BY <1>4, <2>3, <2>4, <2>5 DEF RecreateCreate
<1>5. CASE recreateInterruptedAfterDelete
  BY <1>0, <1>5, EndsUndone DEF recreateInterruptedAfterDelete, resource
<1> QED BY <1>1, <1>2, <1>3, <1>4, <1>5 DEF RecreateStep

\* The table: what is read is the planned table and, without prune, keeps every
\* partition it has; the write goes through only at the revision read.
LEMMA TableKeeps == PInv /\ applyWritePartitionsAction => PInv'
<1> SUFFICES ASSUME PInv, applyWritePartitionsAction PROVE PInv'   OBVIOUS
<1>0. /\ live \in Conf /\ snap \in Conf /\ table \in Tables /\ rev \in Nat /\ seen \in Nat /\ plan.records \in Tables
      /\ Desired \in Tables
  BY DEF PInv, ProvisionTypes, Desired, Tables
<1>1. \A a, b \in Tables : partitionTablesEqual(a, b) <=> a = b
  BY DEF partitionTablesEqual, diffPartitions, Tables
<1>2. CASE WritePartitionsReread
  <2>1. UNCHANGED <<config, live, table, rev, steady>> /\ phase = "write"   BY <1>2 DEF WritePartitionsReread, resource
  <2>2. steady => kind = "table" /\ table # Desired
    <3>1. steady => Proposal(kind, policy, allow, live, table) = "write"   BY Zenon, <2>1, Steadily DEF Undisturbed
    <3> QED BY <3>1 DEF Proposal
  <2>3. CASE partitionTablesEqual(table, Desired) /\ foldActionResult("done")
    BY Zenon, <1>0, <1>1, <2>1, <2>2, <2>3, EndsUndone
  <2>4. CASE foldActionResult("error")   BY <1>0, <2>1, <2>4, EndsUndone
  <2>5. CASE /\ partitionTablesEqual(table, plan.records) /\ ~(countRemovals(table) > 0 /\ ~allow)
             /\ seen' = rev /\ phase' = "cas" /\ UNCHANGED <<plan, result, snap>>
    <3>1. ProvisionTypes'   BY <1>0, <2>1, <2>5 DEF PInv, ProvisionTypes, config
    <3>2. table = plan.records   BY Zenon, <1>0, <1>1, <2>5
    <3>3. ASSUME ~allow, NEW p \in Part, table[p] > 0 PROVE Desired[p] > 0
      <4> DEFINE S == {q \in Part : table[q] > 0 /\ Desired[q] = 0}
      <4>1. IsFiniteSet(S)   BY Zenon, PartAssumption, FS_Subset
      <4>2. Cardinality(S) \in Nat /\ (Cardinality(S) = 0 <=> S = {})   BY Zenon, <4>1, FS_CardinalityType, FS_EmptySet
      <4>3. ~(Cardinality(S) > 0)   BY Zenon, <2>5, <3>3 DEF countRemovals
      <4>4. Desired[p] # 0   BY SMTT(30), <3>3, <4>2, <4>3
      <4> QED BY SMTT(30), <1>0, <4>4 DEF Desired, Tables
    <3>4. Fenced'   BY Zenon, <2>1, <2>5, <3>2, <3>3 DEF Fenced, config
    <3>5. steady => Undisturbed'   BY <2>1, <2>2, <2>5 DEF Undisturbed, config
    <3> QED BY Zenon, <2>1, <3>1, <3>4, <3>5 DEF PInv
  <2> QED BY <1>2, <2>3, <2>4, <2>5 DEF WritePartitionsReread
<1>3. CASE WritePartitionsWrite
  <2>1. UNCHANGED <<config, live, steady>> /\ phase = "cas"   BY <1>3 DEF WritePartitionsWrite
  <2>2. steady => kind = "table"   BY <2>1, Steadily DEF Undisturbed
  <2>3. CASE table' = Desired /\ rev' = rev + 1 /\ foldActionResult("done")
    <3>1. steady => Proposal(kind, policy, allow, live', table') = "nothing"   BY <2>2, <2>3 DEF Proposal
    <3> QED BY SMTT(30), <1>0, <2>1, <2>3, <3>1, Ends
  <2>4. CASE foldActionResult("error") /\ UNCHANGED <<table, rev>>   BY Zenon, <1>0, <2>1, <2>4, EndsUndone
  <2> QED BY <1>3, <2>3, <2>4 DEF WritePartitionsWrite
<1> QED BY Zenon, <1>2, <1>3 DEF applyWritePartitionsAction

\* The invariant is inductive.
LEMMA PInvNext == PInv /\ [ProvisionNext]_provisionVars => PInv'
<1> SUFFICES ASSUME PInv, [ProvisionNext]_provisionVars PROVE PInv'   OBVIOUS
<1>1. CASE UNCHANGED provisionVars
  <2>1. UNCHANGED <<config, live, table, rev, phase, plan, snap, seen, result, steady>>
    BY <1>1 DEF provisionVars, config
  <2>2. ProvisionTypes'   BY Zenon, <2>1 DEF PInv, ProvisionTypes, config
  <2>3. Plan.do' = Plan.do   BY <2>1, <2>2, PlanKept DEF PInv
  <2> QED BY Zenon, <2>1, <2>2, <2>3 DEF PInv, Fenced, Undisturbed, config
<1>2. CASE ValidateLive \/ Abort \/ OtherOperator   BY <1>2, OutsideKeeps
<1>3. CASE Apply \/ ApplyConsumers \/ ApplyPartitions   BY <1>3, BeginKeeps DEF Apply, ApplyConsumers, ApplyPartitions
<1>4. CASE applyCreateKVAction \/ applyCreateStreamAction \/ applyCreateConsumerAction   BY <1>4, CreateKeeps
<1>5. CASE verifyRacedConsumer   BY <1>5, VerifyKeeps
<1>6. CASE \/ applyUpdateKVAction \/ applyUpdateStreamAction \/ applyStampMarkerAction \/ applyStampStreamMarkerAction
  BY <1>6, RereadKeeps, WriteKeeps DEF applyUpdateKVAction, applyUpdateStreamAction, applyStampMarkerAction,
     applyStampStreamMarkerAction
<1>7. CASE applyRecreateKVAction \/ applyRecreateStreamAction \/ applyRecreateConsumerAction
  BY Zenon, <1>7, RecreateKeeps DEF applyRecreateKVAction, applyRecreateStreamAction, applyRecreateConsumerAction
<1>8. CASE applyWritePartitionsAction   BY <1>8, TableKeeps
<1> QED BY Zenon, <1>1, <1>2, <1>3, <1>4, <1>5, <1>6, <1>7, <1>8 DEF ProvisionNext

\* An apply that reports success and that nobody disturbed leaves nothing to
\* plan, for every kind of resource, policy and configuration found (Plan,
\* Apply, foldActionResult).
THEOREM UndisturbedRunsSettle == ProvisionSpec => []ApplyLeavesNothingToPlan
<1>1. PInv => ApplyLeavesNothingToPlan   BY DEF PInv, Undisturbed, ApplyLeavesNothingToPlan
<1> QED BY <1>1, PInvInit, PInvNext, PTL DEF ProvisionSpec

\* Only the write of a run and another operator change the table, and only the
\* other operator counts as a change from outside.
LEMMA TableChanges ==
    ASSUME PInv, changes \in Nat, ProvisionNext
    PROVE  /\ changes' \in Nat
           /\ table' # table /\ changes' = changes => phase = "cas" /\ rev = seen /\ table' = Desired
<1>1. CASE ValidateLive \/ Abort
  BY Zenon, <1>1 DEF ValidateLive, Abort, resource
<1>2. CASE Apply \/ ApplyConsumers \/ ApplyPartitions
  BY Zenon, <1>2 DEF Apply, ApplyConsumers, ApplyPartitions, Begin, resource
<1>3. CASE applyCreateKVAction \/ applyCreateStreamAction \/ applyCreateConsumerAction \/ verifyRacedConsumer
  BY <1>3 DEF applyCreateKVAction, applyCreateStreamAction, applyCreateConsumerAction, verifyRacedConsumer, resource,
     bounds
<1>4. CASE \/ applyUpdateKVAction \/ applyUpdateStreamAction \/ applyStampMarkerAction \/ applyStampStreamMarkerAction
  BY Zenon, <1>4 DEF applyUpdateKVAction, applyUpdateStreamAction, applyStampMarkerAction, applyStampStreamMarkerAction,
     UpdateReread, UpdateWrite, StampReread, StampWrite, resource, bounds
<1>5. CASE applyRecreateKVAction \/ applyRecreateStreamAction \/ applyRecreateConsumerAction
  BY <1>5 DEF applyRecreateKVAction, applyRecreateStreamAction, applyRecreateConsumerAction, RecreateStep,
     reReadForRecreate, RecreateDelete, RecreateDeleteLost, RecreateCreate, recreateInterruptedAfterDelete, resource,
     bounds
<1>6. CASE applyWritePartitionsAction
  BY <1>6 DEF applyWritePartitionsAction, WritePartitionsReread, WritePartitionsWrite, CompareAndSwap, resource, bounds
<1>7. CASE OtherOperator
  <2>1. changes' = changes + 1   BY <1>7 DEF OtherOperator
  <2> QED BY <2>1
<1> QED BY Zenon, <1>1, <1>2, <1>3, <1>4, <1>5, <1>6, <1>7 DEF ProvisionNext

\* A run writes the partition table only over the table its plan was made
\* against, whatever others wrote between the plan, the second read and the
\* write, and without prune it removes no partition
\* (applyWritePartitionsAction): a table that another operator wrote in
\* between is never overwritten.
THEOREM TableWritesArePlanned == ProvisionSpec => TableWriteIsPlanned
<1> DEFINE Inv == PInv /\ changes \in Nat
<1>1. ProvisionInit => Inv   BY SMTT(30), PInvInit DEF ProvisionInit
<1>2. Inv /\ [ProvisionNext]_provisionVars => Inv'
  BY Zenon, PInvNext, TableChanges DEF provisionVars
<1>3. Inv /\ [ProvisionNext]_provisionVars => [TableStep]_provisionVars
  <2> SUFFICES ASSUME PInv, changes \in Nat, ProvisionNext, table' # table, changes' = changes
               PROVE  table = plan.records /\ (~allow => \A p \in Part : table[p] > 0 => table'[p] > 0)
    BY DEF TableStep
  <2> QED BY Zenon, TableChanges DEF PInv, Fenced
<1> QED BY <1>1, <1>2, <1>3, PTL DEF ProvisionSpec, TableWriteIsPlanned
=============================================================================
