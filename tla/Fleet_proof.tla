---------------------------- MODULE Fleet_proof -----------------------------
(***************************************************************************)
(* Theorems about what is said of the fleet: the losses that the leader's  *)
(* detector declares (Fleet), the spills its label clocks allow (Labels)   *)
(* and the status that the Kubernetes operator reports (Operator).  Each   *)
(* part is a specification of its own (FleetSpec, LabelsSpec,              *)
(* OperatorSpec) and its theorem holds for every value of that part's      *)
(* constants.                                                              *)
(***************************************************************************)
EXTENDS Fleet, Labels, Operator, FiniteSetTheorems, TLAPS

-----------------------------------------------------------------------------
(* The fleet detector *)

\* No clock of the detector is ahead of the time since a fresh scan listed the
\* worker.
DetectorBehind ==
    /\ gone \in [Worker -> Int] /\ sighted \in [Worker -> Nat]
    /\ \A w \in Worker : gone[w] <= sighted[w]

\* The cache holds enough workers for the last known size, and the guard's
\* counter counts the scans in a row that listed too few.
GuardHolds ==
    /\ lastKnown \in Nat /\ thin \in Nat /\ shrunk = thin
    /\ cached \subseteq Worker /\ ~TooFew(cached)

\* The inductive invariant.
FInv ==
    /\ DetectorBehind /\ GuardHolds
    /\ lastWorkers \subseteq Worker /\ currentWorkers \subseteq Worker /\ deaths \subseteq Worker

\* A set of workers has a size.
LEMMA SizeIs == ASSUME NEW S \in SUBSET Worker PROVE Cardinality(S) \in Nat /\ IsFiniteSet(S)
BY FleetAssumption, FS_Subset, FS_CardinalityType

\* A smaller set of workers is no larger.
LEMMA SizeGrows ==
    ASSUME NEW S \in SUBSET Worker, NEW T \in SUBSET S PROVE Cardinality(T) <= Cardinality(S)
BY SizeIs, FS_Subset

\* A set that is no smaller is not too small by a percentage.
LEMMA Shares ==
    ASSUME NEW a \in Nat, NEW b \in Nat, b <= a PROVE ~(a * 100 < b * ShrinkPct)
<1>1. b * ShrinkPct <= b * 100 BY FleetAssumption
<1> QED BY <1>1, FleetAssumption

\* The invariant holds initially.
LEMMA FInvInit == FleetInit => FInv
<1> SUFFICES ASSUME FleetInit PROVE FInv OBVIOUS
<1>1. DetectorBehind BY DEF FleetInit, DetectorBehind, Never
<1>2. lastKnown = Cardinality(Worker) /\ cached = Worker /\ lastKnown \in Nat BY SizeIs DEF FleetInit
<1>3. ~TooFew(cached) BY <1>2, Shares DEF TooFew
<1> QED BY <1>1, <1>2, <1>3 DEF FInv, GuardHolds, FleetInit

\* getActiveWorkers: what a scan comes to.  A listing of too few workers is
\* taken for fresh only once it is confirmed, and the cache never falls behind.
LEMMA ScanIs ==
    ASSUME FInv, NEW s \in Scans
    PROVE  /\ s[1].workers \subseteq Worker /\ s[1].cached \subseteq Worker
           /\ s[3] \in Nat /\ s[1].shrunk = s[3]
           /\ ~TooFew(s[1].cached)
           /\ s[1].ok => Cardinality(s[1].workers) <= Cardinality(s[1].cached)
           /\ s[1].ok /\ TooFew(s[1].workers) => s[3] >= ConfirmCount
           /\ s[1].fresh \in BOOLEAN /\ s[1].ok \in BOOLEAN
<1> USE DEF FInv, GuardHolds
<1>1. Cardinality(cached) \in Nat BY SizeIs
<1>2. ASSUME NEW n \in Nat, s[1] = cacheFallbackOrDegraded(n), s[3] = n
      PROVE  /\ s[1].workers \subseteq Worker /\ s[1].cached = cached /\ s[1].shrunk = n
             /\ (s[1].ok => s[1].workers = cached)
             /\ s[1].fresh \in BOOLEAN /\ s[1].ok \in BOOLEAN
  BY <1>2 DEF cacheFallbackOrDegraded, Failed
<1>3. CASE s = <<cacheFallbackOrDegraded(shrunk), 1, thin>>
  <2>1. s[1] = cacheFallbackOrDegraded(thin) /\ s[3] = thin BY <1>3
  <2> QED BY <1>1, <1>2, <2>1
<1>4. CASE s = <<Failed, 1, thin>>
  <2>1. s[1] = Failed /\ s[3] = thin BY <1>4
  <2> QED BY <2>1 DEF Failed
<1>5. ASSUME NEW S \in SUBSET Worker, s[1] = getActiveWorkers(S), s[3] = Thinner(S)
      PROVE  /\ s[1].workers \subseteq Worker /\ s[1].cached \subseteq Worker
             /\ s[3] \in Nat /\ s[1].shrunk = s[3]
             /\ ~TooFew(s[1].cached)
             /\ s[1].ok => Cardinality(s[1].workers) <= Cardinality(s[1].cached)
             /\ s[1].ok /\ TooFew(s[1].workers) => s[3] >= ConfirmCount
             /\ s[1].fresh \in BOOLEAN /\ s[1].ok \in BOOLEAN
  <2>1. Cardinality(S) \in Nat BY SizeIs
  <2>2. workerObservationSuspicious(S) <=> TooFew(S)
    <3>1. CASE lastKnown = 0 BY <2>1, <3>1, FleetAssumption DEF workerObservationSuspicious, TooFew
    <3>2. CASE lastKnown > 0 BY <3>2 DEF workerObservationSuspicious, TooFew
    <3> QED BY <3>1, <3>2
  <2>3. CASE ~TooFew(S)
    <3>1. s[1] = [ok |-> TRUE, fresh |-> TRUE, workers |-> S, shrunk |-> 0, cached |-> S] /\ s[3] = 0
      BY <1>5, <2>2, <2>3 DEF getActiveWorkers, Thinner
    <3> QED BY <2>1, <2>3, <3>1
  <2>4. CASE TooFew(S)
    <3> DEFINE n == IF shrunk < ConfirmCount THEN shrunk + 1 ELSE shrunk
    <3>1. n \in Nat /\ s[3] = n BY <1>5, <2>4, FleetAssumption DEF Thinner
    <3>2. CASE n < ConfirmCount
      <4>1. s[1] = cacheFallbackOrDegraded(n) BY <1>5, <2>2, <2>4, <3>2 DEF getActiveWorkers
      <4> HIDE DEF n
      <4> QED BY <1>1, <1>2, <3>1, <4>1
    <3>3. CASE ~(n < ConfirmCount)
      <4>1. s[1] = [ok |-> TRUE, fresh |-> TRUE, workers |-> S, shrunk |-> n, cached |-> cached]
        BY <1>5, <2>2, <2>4, <3>3 DEF getActiveWorkers
      <4> HIDE DEF n
      <4>2. Cardinality(S) * 100 < Cardinality(cached) * 100
        <5>1. PICK t : t = lastKnown * ShrinkPct OBVIOUS
        <5>2. t \in Int BY <5>1, FleetAssumption
        <5>3. Cardinality(S) * 100 < t /\ ~(Cardinality(cached) * 100 < t) BY <2>4, <5>1 DEF TooFew
        <5> QED BY <1>1, <2>1, <5>2, <5>3
      <4>3. Cardinality(S) <= Cardinality(cached) BY <1>1, <2>1, <4>2
      <4> QED BY <3>1, <3>3, <4>1, <4>3, FleetAssumption
    <3> QED BY <3>2, <3>3
  <2> QED BY <2>3, <2>4
<1>6. CASE s = <<getActiveWorkers(Beating), 0, Thinner(Beating)>>
  <2>1. s[1] = getActiveWorkers(Beating) /\ s[3] = Thinner(Beating) /\ Beating \in SUBSET Worker
    BY <1>6 DEF Beating
  <2> QED BY <1>5, <2>1
<1>7. ASSUME NEW S \in (SUBSET Beating) \ {Beating}, s = <<getActiveWorkers(S), 1, Thinner(S)>>
      PROVE  s[1] = getActiveWorkers(S) /\ s[3] = Thinner(S) /\ S \in SUBSET Worker
  BY <1>7 DEF Beating
<1> QED BY <1>3, <1>4, <1>5, <1>6, <1>7 DEF Scans

\* Steps that make no observation leave the guard alone.
LEMMA QuietKeeps ==
    ASSUME FInv, UNCHANGED <<lastWorkers, currentWorkers, lastKnown, shrunk, cached, thin, deaths>>,
           DetectorBehind'
    PROVE  FInv' /\ DeathStep /\ ShrinkStep
BY DEF FInv, GuardHolds, TooFew, DeathStep, ShrinkStep

\* Workers come and go, and the watcher breaks and is set up again, without
\* the leader deciding anything.
LEMMA WorldKeeps ==
    ASSUME FInv,
           \/ \E w \in Worker, l \in WorkerLabel : WorkerStarts(w, l)
           \/ \E w \in Worker, graceful \in BOOLEAN : WorkerLeaves(w, graceful)
           \/ SessionEnds \/ monitorWatcherWithRetry \/ UNCHANGED fleetVars
    PROVE  FInv' /\ DeathStep /\ ShrinkStep
<1>1. UNCHANGED <<gone, sighted>>
  BY Zenon DEF WorkerStarts, WorkerLeaves, SessionEnds, monitorWatcherWithRetry, fleetVars
<1>2. UNCHANGED <<lastWorkers, currentWorkers, lastKnown, shrunk, cached, thin, deaths>>
  BY Zenon DEF WorkerStarts, WorkerLeaves, SessionEnds, monitorWatcherWithRetry, fleetVars, view, published
<1> QED BY <1>1, <1>2, QuietKeeps DEF FInv, DetectorBehind

\* publishLoop: with a round of heartbeats every clock goes on.
LEMMA HeartbeatKeeps == ASSUME FInv, publishLoop PROVE FInv' /\ DeathStep /\ ShrinkStep
<1>1. UNCHANGED <<lastWorkers, currentWorkers, lastKnown, shrunk, cached, thin, deaths>>
  BY DEF publishLoop, view
<1>2. gone' = Older(gone) /\ sighted' = Older(sighted) BY DEF publishLoop
<1>3. DetectorBehind'
  <2>1. gone' \in [Worker -> Int] /\ sighted' \in [Worker -> Nat]
    BY <1>2, FleetAssumption DEF FInv, DetectorBehind, Older
  <2>2. ASSUME NEW w \in Worker PROVE gone'[w] <= sighted'[w]
    BY <1>2, FleetAssumption DEF FInv, DetectorBehind, Older
  <2> QED BY <2>1, <2>2 DEF DetectorBehind
<1> QED BY <1>1, <1>3, QuietKeeps

\* observeAndDecide: a confirmed death was missing from the scan as well, so
\* its clock did not move.
LEMMA ObserveKeeps == ASSUME FInv, observeAndDecide PROVE FInv' /\ DeathStep /\ ShrinkStep
<1>1. PICK s \in Scans :
        /\ Scanned(s)
        /\ gone' = IF s[1].fresh THEN CheckEmergency(lastWorkers, s[1].workers) ELSE gone
        /\ \/ UNCHANGED deaths
           \/ deaths' = Confirmed(lastWorkers, gone')
        /\ UNCHANGED <<published, lastKnown, lastWorkers>>
  BY DEF observeAndDecide
<1>2. /\ s[1].workers \subseteq Worker /\ s[1].cached \subseteq Worker
      /\ s[3] \in Nat /\ s[1].shrunk = s[3] /\ ~TooFew(s[1].cached) /\ s[1].fresh \in BOOLEAN
  BY ScanIs
<1>3. UNCHANGED <<currentWorkers, lastKnown, lastWorkers>> BY <1>1 DEF published
<1>4. shrunk' = s[1].shrunk /\ cached' = s[1].cached /\ thin' = s[3]
      /\ sighted' = [w \in Worker |-> IF s[1].fresh /\ w \in s[1].workers THEN 0 ELSE sighted[w]]
  BY <1>1 DEF Scanned
<1>5. GuardHolds' BY <1>2, <1>3, <1>4 DEF GuardHolds, TooFew, FInv
<1>6. DetectorBehind'
  <2>1. sighted' \in [Worker -> Nat] BY <1>4 DEF FInv, DetectorBehind
  <2>2. gone' \in [Worker -> Int] BY <1>1 DEF FInv, DetectorBehind, CheckEmergency, Never
  <2>3. ASSUME NEW w \in Worker PROVE gone'[w] <= sighted'[w]
    BY <1>1, <1>2, <1>4 DEF FInv, DetectorBehind, CheckEmergency, Never
  <2> QED BY <2>1, <2>2, <2>3 DEF DetectorBehind
<1>7. DeathStep
  <2>1. ASSUME NEW w \in Confirmed(lastWorkers, gone') PROVE sighted[w] >= EmergencyGrace
    <3>1. w \in Worker /\ gone'[w] >= EmergencyGrace BY DEF Confirmed, FInv
    <3>2. CASE gone'[w] = gone[w] BY <3>1, <3>2, FleetAssumption DEF FInv, DetectorBehind
    <3>3. CASE gone'[w] # gone[w]
      <4>1. gone'[w] = 0 \/ gone'[w] = Never BY <1>1, <3>1, <3>3 DEF CheckEmergency, FInv, DetectorBehind
      <4> QED BY <3>1, <4>1, FleetAssumption DEF FInv, DetectorBehind, Never
    <3> QED BY <3>2, <3>3
  <2> QED BY <1>1, <2>1 DEF DeathStep
<1>8. ShrinkStep BY <1>3 DEF ShrinkStep
<1>9. deaths' \subseteq Worker BY <1>1 DEF Confirmed, FInv
<1> QED BY <1>3, <1>5, <1>6, <1>7, <1>8, <1>9 DEF FInv

\* rebalance: the floor, the cache and the guard before a publication.
LEMMA RebalanceKeeps ==
    ASSUME FInv, NEW s \in Scans, NEW D, NEW adopts \in BOOLEAN, NEW ok \in BOOLEAN,
           rebalance(s, D, adopts, ok), deaths' \subseteq deaths,
           D = {} \/ (state = "Emergency" /\ D = deaths)
    PROVE  FInv' /\ DeathStep /\ ShrinkStep
<1> DEFINE ws == s[1].workers \ D
           verdict == Verdict(s[1], ws, D)
<1>1. /\ s[1].workers \subseteq Worker /\ s[1].cached \subseteq Worker
      /\ s[3] \in Nat /\ s[1].shrunk = s[3] /\ ~TooFew(s[1].cached)
      /\ s[1].ok => Cardinality(s[1].workers) <= Cardinality(s[1].cached)
      /\ s[1].ok /\ TooFew(s[1].workers) => s[3] >= ConfirmCount
      /\ s[1].fresh \in BOOLEAN /\ s[1].ok \in BOOLEAN
  BY ScanIs
<1>2. ws \subseteq Worker /\ Cardinality(ws) \in Nat /\ Cardinality(s[1].workers) \in Nat
      /\ Cardinality(s[1].cached) \in Nat
      /\ Cardinality(ws) <= Cardinality(s[1].workers)
  BY SMTT(30), <1>1, SizeIs, SizeGrows
<1>3. shrunk' = s[1].shrunk /\ cached' = s[1].cached /\ thin' = s[3]
      /\ sighted' = [w \in Worker |-> IF s[1].fresh /\ w \in ws THEN 0 ELSE sighted[w]]
      /\ gone' = (IF s[1].fresh THEN ObserveAlive(ws) ELSE gone)
  BY DEF rebalance
<1>4. DetectorBehind'
  <2>1. sighted' \in [Worker -> Nat] BY <1>3 DEF FInv, DetectorBehind
  <2>2. gone' \in [Worker -> Int] BY SMTT(30), <1>3 DEF FInv, DetectorBehind, ObserveAlive, Never
  <2>3. ASSUME NEW w \in Worker PROVE gone'[w] <= sighted'[w]
    BY SMTT(30), <1>1, <1>3 DEF FInv, DetectorBehind, ObserveAlive, Never
  <2> QED BY <2>1, <2>2, <2>3 DEF DetectorBehind
<1>5. /\ lastKnown' = lastKnown \/ (s[1].ok /\ lastKnown' = Cardinality(ws))
      /\ currentWorkers' = currentWorkers \/ (s[1].ok /\ verdict = "publish" /\ currentWorkers' = ws)
      /\ lastWorkers' = lastWorkers \/ lastWorkers' = currentWorkers'
  <2>1. CASE s[1].ok
    <3>1. lastKnown' = IF verdict \in {"cached", "publish"} THEN Cardinality(ws) ELSE lastKnown
      BY SMTT(30), <2>1 DEF rebalance
    <3>2. IF verdict = "publish" THEN Publication(ws, ok) ELSE ok /\ UNCHANGED published
      BY <2>1 DEF rebalance
    <3>3. currentWorkers' = currentWorkers \/ (verdict = "publish" /\ currentWorkers' = ws)
      BY Zenon, <3>2 DEF Publication, published
    <3>4. lastWorkers' = lastWorkers \/ lastWorkers' = currentWorkers'
      BY Zenon, <2>1 DEF rebalance, LastWorkers
    <3> QED BY ZenonT(30), <2>1, <3>1, <3>3, <3>4
  <2>2. CASE ~s[1].ok BY Zenon, <2>2 DEF rebalance, published
  <2> QED BY Zenon, <1>1, <2>1, <2>2
<1>6. GuardHolds'
  <2>1. CASE lastKnown' = lastKnown BY Zenon, <1>1, <1>3, <2>1 DEF GuardHolds, TooFew, FInv
  <2>2. CASE s[1].ok /\ lastKnown' = Cardinality(ws)
    <3>1. ~(Cardinality(s[1].cached) * 100 < Cardinality(ws) * ShrinkPct) BY SMTT(30), <1>1, <1>2, <2>2, Shares
    <3> QED BY ZenonT(30), <1>1, <1>2, <1>3, <2>2, <3>1 DEF GuardHolds, TooFew
  <2> QED BY Zenon, <1>5, <2>1, <2>2
<1>7. lastWorkers' \subseteq Worker /\ currentWorkers' \subseteq Worker /\ deaths' \subseteq Worker
  BY <1>2, <1>5 DEF FInv
<1>8. DeathStep BY DEF DeathStep
<1>9. ShrinkStep
  <2> SUFFICES ASSUME currentWorkers' # currentWorkers, TooFew(ws), currentWorkers' = ws, s[1].ok,
                      verdict = "publish"
               PROVE  /\ state = "Emergency" /\ deaths # {}
                      /\ TooFew(ws \cup deaths) => thin' >= ConfirmCount
    BY Zenon, <1>5 DEF ShrinkStep, TooFew
  <2>1. workerObservationSuspicious(ws)
    BY <1>2, FleetAssumption DEF workerObservationSuspicious, TooFew, FInv, GuardHolds
  <2>2. D # {} BY Zenon, <2>1 DEF Verdict
  <2>3. ASSUME TooFew(ws \cup deaths) PROVE thin' >= ConfirmCount
    <3>1. s[1].workers \subseteq ws \cup deaths /\ ws \cup deaths \subseteq Worker BY Zenon, <1>2, <2>2 DEF FInv
    <3>2. Cardinality(s[1].workers) <= Cardinality(ws \cup deaths) BY ZenonT(30), <3>1, SizeGrows
    <3>3. Cardinality(ws \cup deaths) \in Nat BY <3>1, SizeIs
    <3>4. PICK t : t = lastKnown * ShrinkPct OBVIOUS
    <3>5. t \in Int BY SMTT(30), <3>4, FleetAssumption DEF FInv, GuardHolds
    <3>6. Cardinality(ws \cup deaths) * 100 < t BY Zenon, <2>3, <3>4 DEF TooFew
    <3>7. Cardinality(s[1].workers) * 100 < t BY SMTT(30), <1>2, <3>2, <3>3, <3>5, <3>6
    <3>8. TooFew(s[1].workers) BY <3>4, <3>7 DEF TooFew
    <3> QED BY Zenon, <1>1, <1>3, <3>8
  <2> QED BY Zenon, <2>2, <2>3
<1> QED BY SMTT(30), <1>4, <1>6, <1>7, <1>8, <1>9 DEF FInv

\* The invariant is inductive, and every step keeps both promises.
LEMMA FInvNext == FInv /\ [FleetNext]_fleetVars => FInv' /\ DeathStep /\ ShrinkStep
<1> SUFFICES ASSUME FInv, FleetNext \/ UNCHANGED fleetVars PROVE FInv' /\ DeathStep /\ ShrinkStep OBVIOUS
<1>1. CASE RunClaimed
  <2> DEFINE D == IF state = "Emergency" THEN deaths ELSE {}
  <2>1. PICK s \in Scans, ok \in BOOLEAN : rebalance(s, D, TRUE, ok) BY Zenon, <1>1 DEF RunClaimed
  <2>2. deaths' \subseteq deaths BY <1>1 DEF RunClaimed
  <2>3. D = {} \/ (state = "Emergency" /\ D = deaths) OBVIOUS
  <2> HIDE DEF D
  <2> QED BY Zenon, <2>1, <2>2, <2>3, RebalanceKeeps
<1>2. CASE RecheckRuns
  <2>1. PICK s \in Scans, ok \in BOOLEAN : rebalance(s, {}, FALSE, ok) BY Zenon, <1>2 DEF RecheckRuns
  <2>2. deaths' \subseteq deaths BY <1>2 DEF RecheckRuns
  <2> QED BY Zenon, <2>1, <2>2, RebalanceKeeps
<1> QED BY <1>1, <1>2, WorldKeeps, HeartbeatKeeps, ObserveKeeps DEF FleetNext

\* The leader declares a worker dead, and publishes for a fleet that shrank
\* below the threshold, only on confirmed evidence: a death was missing from
\* every fresh scan for the whole grace period, and a drop that not even the
\* deaths explain was seen in ConfirmCount scans in a row (CheckEmergency,
\* workerObservationSuspicious, rebalance).
THEOREM LossesAreConfirmed == FleetSpec => LossIsConfirmed
BY FInvInit, FInvNext, PTL DEF FleetSpec, LossIsConfirmed

-----------------------------------------------------------------------------
(* The label clocks *)

\* No grace clock of observeEmptyPools is ahead of the time the label has been
\* without a worker.
ClocksBehind ==
    /\ emptySince \in [Label -> Int] /\ vacant \in [Label -> Nat]
    /\ \A l \in Label : emptySince[l] <= vacant[l]
    /\ group \in [Labelled -> Label \cup {Unlabeled}]

\* The clocks start unset.
LEMMA ClocksInit == LabelsInit => ClocksBehind
BY DEF LabelsInit, ClocksBehind, Unset

\* An observation forgets a clock exactly when it resets the history.
LEMMA ObservationKeeps ==
    ASSUME ClocksBehind, NEW unknown, observeEmptyPools(unknown), Vacancy(unknown), UNCHANGED group
    PROVE  ClocksBehind'
<1>1. emptySince' \in [Label -> Int] /\ vacant' \in [Label -> Nat]
  BY DEF ClocksBehind, observeEmptyPools, Vacancy, Unset
<1>2. ASSUME NEW l \in Label PROVE emptySince'[l] <= vacant'[l]
  BY DEF ClocksBehind, observeEmptyPools, Vacancy, Forgets, Unset
<1> QED BY <1>1, <1>2 DEF ClocksBehind

\* RebalanceFails: nothing is spilled, and only an observation moves a clock.
LEMMA FailureKeeps ==
    ASSUME ClocksBehind, NEW unknown, NEW observed \in BOOLEAN, RoutingFails(unknown, observed),
           IF observed THEN Vacancy(unknown) ELSE UNCHANGED vacant, UNCHANGED group
    PROVE  ClocksBehind' /\ SpillStep
<1>1. SpillStep BY DEF RoutingFails, SpillStep
<1>2. CASE observed BY <1>1, <1>2, ObservationKeeps DEF RoutingFails
<1>3. CASE ~observed BY <1>1, <1>3 DEF RoutingFails, ClocksBehind, labelState
<1> QED BY <1>2, <1>3

\* labelRoutedAssignments: a spilled label's clock has crossed the grace.
LEMMA RoutingKeeps ==
    ASSUME ClocksBehind, NEW unknown, NEW flag, RoutingRuns(unknown, flag), Vacancy(unknown), UNCHANGED group
    PROVE  ClocksBehind' /\ SpillStep
<1>1. ClocksBehind' BY ObservationKeeps DEF RoutingRuns
<1>2. SpillStep
  <2>1. CASE UNCHANGED <<routed, spilled>> BY <2>1 DEF SpillStep
  <2>2. CASE ~UNCHANGED <<routed, spilled>>
    <3>1. spilled' = Spills(unknown) BY <2>2 DEF RoutingRuns
    <3>2. ASSUME NEW l \in Spills(unknown) PROVE vacant[l] >= SpillGrace
      <4>1. l \in Label /\ emptySince[l] >= SpillGrace
        BY DEF Spills, EmptyLabels, SortedLabels, ClocksBehind
      <4> QED BY <4>1, SpillGraceAssumption DEF ClocksBehind
    <3> QED BY <3>1, <3>2 DEF SpillStep
  <2> QED BY <2>1, <2>2
<1> QED BY <1>1, <1>2

\* No clock runs ahead, and no step spills early.
LEMMA ClocksNext == ClocksBehind /\ [LabelsNext]_labelsVars => ClocksBehind' /\ SpillStep
<1> SUFFICES ASSUME ClocksBehind, LabelsNext \/ UNCHANGED labelsVars PROVE ClocksBehind' /\ SpillStep
  OBVIOUS
<1>1. CASE LifecycleRebalance
  <2>1. UNCHANGED group BY <1>1 DEF LifecycleRebalance, env
  <2>2. PICK unknown \in SUBSET Active :
          \/ RoutingRuns(unknown, pending) /\ Vacancy(unknown)
          \/ \E observed \in BOOLEAN : /\ RoutingFails(unknown, observed)
                                       /\ IF observed THEN Vacancy(unknown) ELSE UNCHANGED vacant
    BY Zenon, <1>1 DEF LifecycleRebalance
  <2> QED BY <2>1, <2>2, RoutingKeeps, FailureKeeps
<1>2. CASE monitorLabelRecheck
  <2>1. UNCHANGED group BY <1>2 DEF monitorLabelRecheck, env
  <2>2. PICK unknown \in SUBSET Active :
          \/ RoutingRuns(unknown, FALSE) /\ Vacancy(unknown)
          \/ \E observed \in BOOLEAN : /\ RoutingFails(unknown, observed)
                                       /\ IF observed THEN Vacancy(unknown) ELSE UNCHANGED vacant
    BY Zenon, <1>2 DEF monitorLabelRecheck
  <2> QED BY Zenon, <2>1, <2>2, RoutingKeeps, FailureKeeps
<1>3. CASE Tick
  <2>1. UNCHANGED <<group, spilled, routed>> BY Zenon, <1>3 DEF Tick, env
  <2>2. emptySince' \in [Label -> Int] /\ vacant' \in [Label -> Nat]
    BY <1>3, SpillGraceAssumption DEF Tick, OneTickOn, ClocksBehind
  <2>3. ASSUME NEW l \in Label PROVE emptySince'[l] <= vacant'[l]
    <3>1. emptySince'[l] = OneTickOn(emptySince[l]) /\ vacant'[l] = OneTickOn(vacant[l]) BY SMTT(30), <1>3 DEF Tick
    <3> QED BY SMTT(30), <3>1, SpillGraceAssumption DEF OneTickOn, ClocksBehind
  <2> QED BY SMTT(30), <2>1, <2>2, <2>3 DEF ClocksBehind, SpillStep
<1>4. CASE TimerFires \/ PoolsChange \/ UNCHANGED labelsVars
  BY <1>4 DEF TimerFires, PoolsChange, labelsVars, env, labelState, ClocksBehind, SpillStep
<1>5. CASE PartitionRelabelled
  <2>1. group' \in [Labelled -> Label \cup {Unlabeled}] BY <1>5 DEF PartitionRelabelled, ClocksBehind
  <2>2. UNCHANGED <<emptySince, vacant, spilled, routed>> BY <1>5 DEF PartitionRelabelled, labelState
  <2> QED BY <2>1, <2>2 DEF ClocksBehind, SpillStep
<1> QED BY <1>1, <1>2, <1>3, <1>4, <1>5 DEF LabelsNext

\* A rebalance spills the partitions of a label only when every rebalance of
\* the last LabelSpillGrace found its pool empty, for every grace, however
\* many routings fail and whatever the fleet does in between
\* (observeEmptyPools, observeNonEmpty).
THEOREM SpillsWaitForGrace == LabelsSpec => SpillWaitsForGrace
BY ClocksInit, ClocksNext, PTL DEF LabelsSpec, SpillWaitsForGrace

-----------------------------------------------------------------------------
(* The operator's status *)

Place == {"idle", "secret", "connect", "plan", "apply", "finish"}
Reason == {"none", "InvalidSpec", "SecretMissing", "NATSUnreachable", "ApplyError", "Reconciled"}
Result == {"none", "error", "resync"}
Object == [here : BOOLEAN, gen : Nat, spec : Specs, obs : Nat, reason : Reason]
Reconciling == [pc : Place, gen : Nat, spec : Specs, reason : Reason, result : Result, tries : Nat]

\* A version of the object that says Ready does so of a generation that was
\* applied.
Truthful(o) == o.reason = "Reconciled" => o.obs \in clean

\* Every version on its way to the cache is truthful, and so is the status a
\* reconcile is about to write.
Earned ==
    /\ Truthful(cache) /\ \A i \in DOMAIN events : Truthful(events[i])
    /\ rec.pc = "finish" /\ rec.reason = "Reconciled" => rec.gen \in clean

OInv == cache \in Object /\ events \in Seq(Object) /\ rec \in Reconciling /\ Earned

\* The server's object is the cached one or the last under way.
LEMMA ServerIs ==
    ASSUME OInv PROVE Server \in Object /\ Truthful(Server)
<1>1. events \in Seq(Object) /\ cache \in Object /\ Truthful(cache)   BY Zenon DEF OInv, Earned
<1>2. CASE events = <<>>   BY Zenon, <1>1, <1>2 DEF Server
<1>3. CASE events # <<>>
  <2>1. Len(events) \in DOMAIN events   BY <1>1, <1>3
  <2>2. Server = events[Len(events)]   BY <1>3 DEF Server
  <2>3. events[Len(events)] \in Object   BY <1>1, <2>1
  <2> QED BY Zenon, <2>1, <2>2, <2>3 DEF OInv, Earned
<1> QED BY <1>2, <1>3

\* No reconcile is under way.
LEMMA IdleIs == Idle \in Reconciling /\ Idle.pc = "idle"
BY DEF Idle, Reconciling, Specs, Place, Reason, Result

\* A step of the reconcile before its status write: it goes on, ends, or comes
\* to its status with a reason other than Ready or with its generation applied.
LEMMA ReconcileMoves ==
    ASSUME OInv, UNCHANGED informer, clean \subseteq clean', rec' \in Reconciling,
           rec'.pc = "finish" /\ rec'.reason = "Reconciled" => rec'.gen \in clean'
    PROVE  OInv'
<1>1. cache' = cache /\ events' = events   BY Zenon DEF informer
<1>2. Truthful(cache)'   BY Zenon, <1>1 DEF OInv, Earned, Truthful
<1>3. (\A i \in DOMAIN events : Truthful(events[i]))'   BY Zenon, <1>1 DEF OInv, Earned, Truthful
<1> QED BY Zenon, <1>1, <1>2, <1>3 DEF OInv, Earned

\* finish up to its retry loop.
LEMMA FinishIs ==
    ASSUME NEW r \in Reconciling, NEW reason \in Reason, NEW result \in Result, finish(r, reason, result)
    PROVE  rec' \in Reconciling /\ (rec'.pc = "finish" => rec'.reason = reason /\ rec'.gen = r.gen)
<1>1. CASE ~alive   BY Zenon, <1>1, IdleIs DEF finish, Return
<1>2. CASE alive
  <2>1. rec' = [r EXCEPT !.pc = "finish", !.reason = reason, !.result = result]   BY Zenon, <1>2 DEF finish
  <2>2. "finish" \in Place   BY DEF Place
  <2> QED BY Zenon, <2>1, <2>2 DEF Reconciling
<1> QED BY <1>1, <1>2

\* A step to the reconcile's next wait.
LEMMA GoOnIs ==
    ASSUME NEW r \in Reconciling, NEW p \in Place, p # "finish", GoOn(r, p)
    PROVE  rec' \in Reconciling /\ rec'.pc # "finish"
BY Zenon DEF GoOn, Reconciling

\* The end of a reconcile.
LEMMA ReturnIs ==
    ASSUME NEW r, Return(r) PROVE rec' \in Reconciling /\ rec'.pc # "finish"
BY Zenon, IdleIs DEF Return

\* Reconcile up to Plan: nothing is Ready yet.
LEMMA BeforeApplyKeeps ==
    ASSUME OInv, Reconcile \/ GetSecret \/ Connect \/ RunPlan PROVE OInv'
<1>0. rec \in Reconciling /\ cache \in Object   BY Zenon DEF OInv
<1>1. UNCHANGED informer /\ clean' = clean   BY Zenon DEF Reconcile, GetSecret, Connect, RunPlan
<1>2. rec' \in Reconciling /\ ~(rec'.pc = "finish" /\ rec'.reason = "Reconciled")
  <2>1. CASE Reconcile
    <3>1. PICK r : r = [Idle EXCEPT !.gen = cache.gen, !.spec = cache.spec]   OBVIOUS
    <3>2. r \in Reconciling
      <4>1. cache.gen \in Nat /\ cache.spec \in Specs   BY Zenon, <1>0 DEF Object
      <4> QED BY Zenon, <3>1, <4>1, IdleIs DEF Reconciling
    <3>3. \/ Return("none") \/ finish(r, "InvalidSpec", "none") \/ GoOn(r, "secret") \/ GoOn(r, "connect")
      BY Zenon, <2>1, <3>1 DEF Reconcile
    <3> QED BY <3>2, <3>3, ReturnIs, FinishIs, GoOnIs DEF Place, Reason, Result
  <2>2. CASE GetSecret
    <3>1. finish(rec, "SecretMissing", "error") \/ GoOn(rec, "connect")   BY Zenon, <2>2 DEF GetSecret
    <3> QED BY <1>0, <3>1, FinishIs, GoOnIs DEF Place, Reason, Result
  <2>3. CASE Connect
    <3>1. \/ finish(rec, "InvalidSpec", "none") \/ finish(rec, "SecretMissing", "error")
          \/ finish(rec, "NATSUnreachable", "error") \/ GoOn(rec, "plan")
      BY <2>3 DEF Connect
    <3> QED BY <1>0, <3>1, FinishIs, GoOnIs DEF Place, Reason, Result
  <2>4. CASE RunPlan
    <3>1. \/ finish(rec, "InvalidSpec", "none") \/ finish(rec, "NATSUnreachable", "error") \/ GoOn(rec, "apply")
          \/ Return("none") \/ Return("error")
      BY Zenon, <2>4 DEF RunPlan, Aborted
    <3> QED BY <1>0, <3>1, FinishIs, GoOnIs, ReturnIs DEF Place, Reason, Result
  <2> QED BY Zenon, <2>1, <2>2, <2>3, <2>4
<1> QED BY Zenon, <1>1, <1>2, ReconcileMoves

\* Apply: the generation that is to be Ready was applied.
LEMMA RunApplyKeeps == ASSUME OInv, RunApply PROVE OInv'
<1>0. rec \in Reconciling   BY Zenon DEF OInv
<1>1. UNCHANGED informer   BY Zenon DEF RunApply
<1>2. \/ (Return("none") \/ Return("error")) /\ clean' = clean
      \/ finish(rec, "Reconciled", "resync") /\ clean' = clean \cup {rec.gen}
      \/ (finish(rec, "ApplyError", "resync") \/ finish(rec, "NATSUnreachable", "error")) /\ clean' = clean
  BY Zenon DEF RunApply, Aborted
<1>3. CASE (Return("none") \/ Return("error")) /\ clean' = clean
  BY <1>1, <1>3, ReturnIs, ReconcileMoves
<1>4. CASE finish(rec, "Reconciled", "resync") /\ clean' = clean \cup {rec.gen}
  <2>1. rec' \in Reconciling /\ (rec'.pc = "finish" => rec'.gen = rec.gen)   BY <1>0, <1>4, FinishIs DEF Reason, Result
  <2>2. clean \subseteq clean' /\ rec.gen \in clean'   BY <1>4
  <2> QED BY Zenon, <1>1, <2>1, <2>2, ReconcileMoves
<1>5. CASE (finish(rec, "ApplyError", "resync") \/ finish(rec, "NATSUnreachable", "error")) /\ clean' = clean
  <2>1. rec' \in Reconciling /\ (rec'.pc = "finish" => rec'.reason # "Reconciled")   BY <1>0, <1>5, FinishIs DEF Reason, Result
  <2> QED BY <1>1, <1>5, <2>1, ReconcileMoves
<1> QED BY Zenon, <1>2, <1>3, <1>4, <1>5

\* finish: the status written is of the generation the reconcile read.
LEMMA FinishKeeps == ASSUME OInv, Finish PROVE OInv'
<1>0. rec \in Reconciling /\ cache \in Object   BY Zenon DEF OInv
<1>1. clean' = clean   BY ZenonT(30) DEF Finish, WriteStatus
<1>2. CASE UNCHANGED informer
  <2>1. rec' \in Reconciling /\ (rec'.pc = "finish" => rec'.reason = rec.reason /\ rec'.gen = rec.gen /\ rec.pc = "finish")
    <3>1. \/ Return(rec.result) \/ Return("error")
          \/ rec' = [rec EXCEPT !.tries = rec.tries + 1]
      BY Zenon DEF Finish, WriteStatus
    <3>2. rec.pc = "finish"   BY Zenon DEF Finish, WriteStatus
    <3>3. CASE rec' = [rec EXCEPT !.tries = rec.tries + 1]
      <4>1. rec.tries + 1 \in Nat   BY <1>0 DEF Reconciling
      <4> QED BY Zenon, <1>0, <3>2, <3>3, <4>1 DEF Reconciling
    <3> QED BY <3>1, <3>3, ReturnIs
  <2> QED BY <1>1, <1>2, <2>1, ReconcileMoves DEF OInv, Earned
<1>3. CASE ~UNCHANGED informer
  <2> DEFINE new == StatusOf(cache, rec)
  <2>0. /\ cache' = cache /\ Return(rec.result) /\ rec.pc = "finish"
        /\ events' \in {<<new>>} \cup (IF new = cache THEN {<<>>} ELSE {})
    BY Zenon, <1>3 DEF Finish, WriteStatus, informer
  <2>1. cache' = cache /\ Return(rec.result) /\ (events' = <<new>> \/ events' = <<>>) /\ rec.pc = "finish"
    BY Zenon, <2>0
  <2>2. new \in Object /\ new.obs = rec.gen /\ new.reason = rec.reason   BY Zenon, <1>0 DEF StatusOf, Object, Reconciling
  <2>3. new.reason = "Reconciled" => new.obs \in clean   BY Zenon, <2>1, <2>2 DEF OInv, Earned
  <2> HIDE DEF new
  <2>4. events' \in Seq(Object) /\ \A i \in DOMAIN events' : events'[i] = new
    <3>1. <<new>> \in Seq(Object) /\ DOMAIN <<new>> = {1} /\ <<new>>[1] = new   BY <2>2
    <3>2. <<>> \in Seq(Object) /\ DOMAIN <<>> = {}   OBVIOUS
    <3> QED BY Zenon, <2>1, <3>1, <3>2
  <2>5. rec' \in Reconciling /\ rec'.pc # "finish"   BY <2>1, ReturnIs
  <2>6. Truthful(cache)'   BY Zenon, <1>1, <2>1 DEF OInv, Earned, Truthful
  <2> QED BY Zenon, <1>0, <1>1, <2>1, <2>3, <2>4, <2>5, <2>6 DEF OInv, Earned, Truthful
<1> QED BY <1>2, <1>3

\* The informer, and a restart: the cache becomes a version that was under way.
LEMMA InformerKeeps == ASSUME OInv, Deliver \/ Restart PROVE OInv'
<1>0. rec \in Reconciling /\ cache \in Object /\ events \in Seq(Object)   BY Zenon DEF OInv
<1>1. clean' = clean   BY Zenon DEF Deliver, Restart
<1>2. CASE Deliver
  <2>1. cache' = Head(events) /\ events' = Tail(events) /\ rec' = rec /\ events # <<>>   BY Zenon, <1>2 DEF Deliver
  <2>2. 1 \in DOMAIN events /\ cache' = events[1] /\ cache' \in Object /\ events' \in Seq(Object)   BY <1>0, <2>1
  <2>3. \A i \in DOMAIN events' : i + 1 \in DOMAIN events /\ events'[i] = events[i + 1]   BY <1>0, <2>1
  <2>4. Truthful(cache)' /\ (\A i \in DOMAIN events : Truthful(events[i]))'
    BY Zenon, <1>1, <2>2, <2>3 DEF OInv, Earned, Truthful
  <2> QED BY Zenon, <1>0, <1>1, <2>1, <2>2, <2>4 DEF OInv, Earned
<1>3. CASE Restart
  <2>1. cache' = Server /\ events' = <<>> /\ rec' = Idle   BY Zenon, <1>3 DEF Restart
  <2>2. cache' \in Object /\ Truthful(cache)'   BY Zenon, <1>1, <2>1, ServerIs DEF Truthful
  <2>3. events' \in Seq(Object) /\ DOMAIN events' = {}   BY <2>1
  <2> QED BY Zenon, <2>1, <2>2, <2>3, IdleIs DEF OInv, Earned
<1> QED BY <1>2, <1>3

\* A user changes the object and leaves its status as it was.
LEMMA UserKeeps == ASSUME OInv, Edit \/ Delete PROVE OInv'
<1>0. rec \in Reconciling /\ cache \in Object /\ events \in Seq(Object)   BY Zenon DEF OInv
<1>1. clean' = clean /\ cache' = cache /\ rec' = rec   BY Zenon DEF Edit, Delete
<1>2. PICK new \in Object : events' = Append(events, new) /\ new.reason = Server.reason /\ new.obs = Server.obs
  <2>0. Server \in Object   BY Zenon, ServerIs
  <2>1. CASE Edit
    <3>1. PICK s \in Specs : events' = Append(events, [Server EXCEPT !.gen = Server.gen + 1, !.spec = s])
      BY Zenon, <2>1 DEF Edit
    <3>2. Server.gen + 1 \in Nat   BY <2>0 DEF Object
    <3>3. PICK new : new = [Server EXCEPT !.gen = Server.gen + 1, !.spec = s]   OBVIOUS
    <3>4. new \in Object /\ new.reason = Server.reason /\ new.obs = Server.obs
      BY Zenon, <2>0, <3>2, <3>3 DEF Object
    <3> QED BY Zenon, <3>1, <3>3, <3>4
  <2>2. CASE Delete
    <3>1. PICK new : new = [Server EXCEPT !.here = FALSE] /\ events' = Append(events, new)   BY Zenon, <2>2 DEF Delete
    <3>2. new \in Object /\ new.reason = Server.reason /\ new.obs = Server.obs   BY Zenon, <2>0, <3>1 DEF Object
    <3> QED BY Zenon, <3>1, <3>2
  <2> QED BY <2>1, <2>2
<1>3. events' \in Seq(Object) /\ \A i \in DOMAIN events' : events'[i] = new \/ (i \in DOMAIN events /\ events'[i] = events[i])
  BY <1>0, <1>2
<1>4. Truthful(new)   BY Zenon, <1>2, ServerIs DEF Truthful
<1>5. Truthful(cache)' /\ (\A i \in DOMAIN events : Truthful(events[i]))'
  BY Zenon, <1>1, <1>3, <1>4 DEF OInv, Earned, Truthful
<1> QED BY Zenon, <1>0, <1>1, <1>3, <1>5 DEF OInv, Earned

\* The invariant holds initially.
LEMMA OInvInit == OperatorInit => OInv
<1> SUFFICES ASSUME OperatorInit PROVE OInv   OBVIOUS
<1>1. PICK s \in Specs : cache = [here |-> TRUE, gen |-> 1, spec |-> s, obs |-> 0, reason |-> "none"]
  BY Zenon DEF OperatorInit
<1>2. cache \in Object /\ cache.reason = "none"   BY <1>1 DEF Object, Reason
<1>3. events = <<>> /\ rec = Idle   BY Zenon DEF OperatorInit
<1>4. events \in Seq(Object) /\ DOMAIN events = {}   BY <1>3
<1> QED BY <1>2, <1>3, <1>4, IdleIs DEF OInv, Earned, Truthful

\* Every step keeps it.
LEMMA OInvNext == OInv /\ [OperatorNext]_operatorVars => OInv'
<1> SUFFICES ASSUME OInv, OperatorNext \/ UNCHANGED operatorVars PROVE OInv'   BY Zenon
<1>1. CASE DelayedAdd \/ Shutdown \/ Fault \/ UNCHANGED operatorVars
  <2>1. UNCHANGED informer /\ rec' = rec /\ clean' = clean
    BY Zenon, <1>1 DEF DelayedAdd, Shutdown, Fault, operatorVars, informer
  <2> QED BY Zenon, <2>1, ReconcileMoves DEF OInv, Earned
<1> QED BY Zenon, <1>1, BeforeApplyKeeps, RunApplyKeeps, FinishKeeps, InformerKeeps, UserKeeps DEF OperatorNext

\* Ready=True at an observed generation means that Apply of that very generation
\* completed without an error (Reconcile, finish), however edits, lagging
\* reads, conflicts, failed writes and restarts fall between the read and the
\* write of the status.
THEOREM ReadyMeansApplied == OperatorSpec => []ReadyIsEarned
<1>1. OInv => ReadyIsEarned   BY Zenon, ServerIs DEF ReadyIsEarned, Truthful
<1> QED BY <1>1, OInvInit, OInvNext, PTL DEF OperatorSpec
=============================================================================
