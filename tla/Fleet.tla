-------------------------------- MODULE Fleet --------------------------------
(***************************************************************************)
(* How the leader learns who is alive.  Every worker renews a heartbeat    *)
(* key (internal/heartbeat/publisher.go); the leader's monitor scans the   *)
(* keys and watches them (internal/assignment/worker_monitor.go); the      *)
(* calculator filters each scan through a shrink guard and a cache and     *)
(* decides on a rebalance (internal/assignment/calculator.go), with the    *)
(* emergency detector (emergency.go) confirming deaths.                    *)
(*                                                                         *)
(* Time is a tick of one heartbeat interval: every running worker renews   *)
(* in a tick or its Put fails.  A rebalance is one step here; what happens *)
(* inside it is modules Calculator and Publisher.  The watcher's debounced *)
(* check and the poll call the same function at any time: one action.      *)
(***************************************************************************)
EXTENDS Integers, FiniteSets

CONSTANTS Worker, WorkerLabel,
          TTL,             \* heartbeat bucket TTL, in ticks
          EmergencyGrace,  \* EmergencyGracePeriod, in ticks
          ConfirmCount,    \* WorkerShrinkConfirmationCount
          ShrinkPct,       \* WorkerShrinkConfirmationThresholdPct
          MaxLife,         \* bound: stops, crashes and starts of workers
          MaxFaults        \* bound: failed Puts, bad scans, failed publications

\* What the configuration's defaults and the fields' meanings give.
ASSUME FleetAssumption ==
    /\ IsFiniteSet(Worker) /\ EmergencyGrace \in Nat
    /\ ConfirmCount \in Nat /\ ShrinkPct \in 0 .. 100

VARIABLES
    up, label,    \* the worker processes and the labels they run with
    key,          \* the heartbeat bucket
    session, fp,  \* the watcher session; WorkerMonitor.labelFingerprints
    lastWorkers, currentWorkers, lastKnown, shrunk, cached,
    gone,         \* EmergencyDetector.disappearedWorkers: ticks since first missed
    deaths,       \* Calculator.disappearedWorkers
    state,        \* the state machine: Idle, Scaling or Emergency
    cool,         \* LastRebalanceTime is less than Cooldown ago
    recheck,      \* pendingLabelRecheck
    recorded,     \* labels of record in the last published payloads
    lives, faults,
    sighted,      \* history: ticks since a fresh scan listed the worker, scans
                  \* that filtered it out as dead left aside
    thin          \* history: scans in a row that listed too few workers

procs == <<up, label, lives>>
watching == <<session, fp>>
view == <<lastKnown, shrunk, cached>>
published == <<currentWorkers, recorded, cool>>
fleetVars == <<procs, watching, view, published, key, lastWorkers, gone, deaths, state,
               recheck, faults, sighted, thin>>

NoLabel == "none"
NoCache == {"no cache"}
Never == -1
Absent == [on |-> "none", age |-> 0, label |-> NoLabel]
Key(l) == [on |-> "put", age |-> 0, label |-> l]
Marker == [on |-> "deleted", age |-> 0, label |-> NoLabel]
Beating == {w \in Worker : key[w].on = "put"}

FleetInit ==
    /\ up = [w \in Worker |-> TRUE]
    /\ label \in [Worker -> {CHOOSE l \in WorkerLabel : TRUE}]
    /\ key = [w \in Worker |-> Key(label[w])]
    /\ session = TRUE /\ fp = label
    /\ lastWorkers = Worker /\ currentWorkers = Worker
    /\ lastKnown = Cardinality(Worker) /\ shrunk = 0 /\ cached = Worker
    /\ gone = [w \in Worker |-> Never] /\ deaths = {}
    /\ state = "Idle" /\ cool = FALSE /\ recheck = FALSE
    /\ recorded = label
    /\ lives = 0 /\ faults = 0
    /\ sighted = [w \in Worker |-> 0] /\ thin = 0

-----------------------------------------------------------------------------
(* Workers and the watcher. *)

\* checkLabelChange seeds silently and reports a difference.
LabelChanged(k) ==
    \E w \in Worker : k[w].on = "put" /\ fp[w] \notin {NoLabel, k[w].label}

\* dropLabelFingerprint on a delete, checkLabelChange on a put.
Fingerprints(k) ==
    [w \in Worker |-> CASE k[w].on = "put" -> k[w].label
                        [] k[w].on = "deleted" -> NoLabel
                        [] OTHER -> fp[w]]

\* processWatcherEvents on the events that lead to the keys k.  A session that
\* opens replays the last entry of every key, so it is the same function.
processWatcherEvents(k, live) ==
    IF live
    THEN /\ fp' = Fingerprints(k)
         /\ recheck' = (recheck \/ LabelChanged(k))
    ELSE UNCHANGED <<fp, recheck>>

WorkerStarts(w, l) ==
    /\ ~up[w] /\ lives < MaxLife
    /\ lives' = lives + 1
    /\ up' = [up EXCEPT ![w] = TRUE]
    /\ label' = [label EXCEPT ![w] = l]
    /\ key' = [key EXCEPT ![w] = Key(l)]
    /\ processWatcherEvents(key', session)
    /\ UNCHANGED <<session, view, published, lastWorkers, gone, deaths, state,
                   faults, sighted, thin>>

\* Publisher.Stop waits for the publish in flight and deletes the key; a
\* crash leaves the key to its TTL.
WorkerLeaves(w, graceful) ==
    /\ up[w] /\ lives < MaxLife
    /\ lives' = lives + 1
    /\ up' = [up EXCEPT ![w] = FALSE]
    /\ key' = IF graceful THEN [key EXCEPT ![w] = Marker] ELSE key
    /\ processWatcherEvents(key', session)
    /\ UNCHANGED <<label, session, view, published, lastWorkers, gone, deaths,
                   state, faults, sighted, thin>>

Aged(k) == IF k.on = "put" /\ k.age + 1 < TTL THEN [k EXCEPT !.age = @ + 1]
           ELSE IF k.on = "put" THEN Absent ELSE k

Older(ages) == [w \in Worker |-> IF ages[w] \in 0 .. EmergencyGrace - 1
                                 THEN ages[w] + 1 ELSE ages[w]]

\* One heartbeat interval: every publishLoop puts, except the ones in F, whose
\* Put fails; keys past their TTL go without an event.
publishLoop ==
    \E F \in SUBSET {w \in Worker : up[w]} :
        /\ faults + Cardinality(F) <= MaxFaults
        /\ faults' = faults + Cardinality(F)
        /\ key' = [w \in Worker |->
               IF up[w] /\ w \notin F THEN Key(label[w]) ELSE Aged(key[w])]
        /\ processWatcherEvents(key', session)
        /\ gone' = Older(gone) /\ sighted' = Older(sighted)
        /\ cool' = FALSE
        /\ UNCHANGED <<procs, session, view, currentWorkers, recorded,
                       lastWorkers, deaths, state, thin>>

SessionEnds ==
    /\ session /\ faults < MaxFaults
    /\ session' = FALSE /\ faults' = faults + 1
    /\ UNCHANGED <<procs, fp, view, published, key, lastWorkers, gone, deaths,
                   state, recheck, sighted, thin>>

monitorWatcherWithRetry ==
    /\ ~session
    /\ session' = TRUE
    /\ processWatcherEvents(key, TRUE)
    /\ UNCHANGED <<procs, view, published, key, lastWorkers, gone, deaths,
                   state, faults, sighted, thin>>

-----------------------------------------------------------------------------
(* One observation of the fleet. *)

Failed == [ok |-> FALSE, fresh |-> FALSE, workers |-> {}, shrunk |-> shrunk,
           cached |-> cached]

cacheFallbackOrDegraded(n) ==
    IF cached = NoCache THEN [Failed EXCEPT !.shrunk = n]
    ELSE [ok |-> TRUE, fresh |-> FALSE, workers |-> cached, shrunk |-> n,
          cached |-> cached]

RoundedSuspicious(S) ==
    lastKnown > 0 /\ Cardinality(S) < (lastKnown * ShrinkPct) \div 100

workerObservationSuspicious(S) ==
    lastKnown > 0 /\ Cardinality(S) * 100 < lastKnown * ShrinkPct

\* getActiveWorkers on a scan that listed S.
getActiveWorkers(S) ==
    LET n == IF shrunk < ConfirmCount THEN shrunk + 1 ELSE shrunk
    IN  IF ~workerObservationSuspicious(S)
        THEN [ok |-> TRUE, fresh |-> TRUE, workers |-> S, shrunk |-> 0,
              cached |-> S]
        ELSE IF n < ConfirmCount THEN cacheFallbackOrDegraded(n)
        ELSE [ok |-> TRUE, fresh |-> TRUE, workers |-> S, shrunk |-> n,
              cached |-> cached]

TooFew(S) == Cardinality(S) * 100 < lastKnown * ShrinkPct
Thinner(S) == IF ~TooFew(S) THEN 0 ELSE IF thin < ConfirmCount THEN thin + 1 ELSE thin

\* The outcomes of one scan with what they cost and what they make of thin:
\* complete, cut short, a connectivity error, any other error.
Scans ==
    {<<getActiveWorkers(Beating), 0, Thinner(Beating)>>}
    \cup {<<getActiveWorkers(S), 1, Thinner(S)>> : S \in (SUBSET Beating) \ {Beating}}
    \cup {<<cacheFallbackOrDegraded(shrunk), 1, thin>>, <<Failed, 1, thin>>}

Scanned(s) ==
    /\ faults + s[2] <= MaxFaults
    /\ faults' = faults + s[2]
    /\ shrunk' = s[1].shrunk /\ cached' = s[1].cached /\ thin' = s[3]
    /\ sighted' = [w \in Worker |->
           IF s[1].fresh /\ w \in s[1].workers THEN 0 ELSE sighted[w]]

-----------------------------------------------------------------------------
(* The emergency detector. *)

NoObserveAlive(alive) == gone

ObserveAlive(alive) == [w \in Worker |-> IF w \in alive THEN Never ELSE gone[w]]

RestartedCheck(prev, curr) ==
    [w \in Worker |-> IF w \in curr THEN Never
                      ELSE IF w \in prev THEN 0 ELSE gone[w]]

\* CheckEmergency: forget the present, note the newly missing, keep the rest.
\* The sweep of entries past ten graces only bounds the map.
CheckEmergency(prev, curr) ==
    [w \in Worker |-> IF w \in curr THEN Never
                      ELSE IF w \in prev /\ gone[w] = Never THEN 0 ELSE gone[w]]

Confirmed(prev, g) == {w \in prev : g[w] >= EmergencyGrace}
Pending(prev, g) == \E w \in prev : g[w] # Never

\* observeAndDecide: from the poll ticker and the watcher's debounced check.
observeAndDecide ==
    \E s \in Scans :
        LET obs == s[1]
            g == IF obs.fresh THEN CheckEmergency(lastWorkers, obs.workers) ELSE gone
            sure == Confirmed(lastWorkers, g)
            acts == obs.ok /\ obs.fresh /\ obs.workers # lastWorkers
        IN  /\ Scanned(s)
            /\ gone' = g
            /\ IF acts /\ sure # {}
               THEN \/ /\ state # "Emergency"
                       /\ state' = "Emergency" /\ deaths' = sure
                    \/ /\ state = "Emergency"
                       /\ UNCHANGED <<state, deaths>>
               ELSE /\ state' = IF acts /\ ~Pending(lastWorkers, g) /\ ~cool
                                   /\ state = "Idle"
                                THEN "Scaling" ELSE state
                    /\ UNCHANGED deaths
            /\ UNCHANGED <<procs, watching, published, lastKnown, key,
                           lastWorkers, recheck>>

-----------------------------------------------------------------------------
(* rebalance, run by the owner of the state machine's claim. *)

\* What a rebalance of the observation with the deaths D comes to: "none"
\* (no worker left), "floor", "cached" or "publish".
Verdict(obs, ws, D) ==
    CASE ws = {} -> "none"
      [] D = {} /\ workerObservationSuspicious(ws) -> "floor"
      [] ~obs.fresh /\ D = {} -> "cached"
      [] OTHER -> "publish"

\* Publish succeeds, or fails and leaves the last commit.
Publication(ws, ok) ==
    IF ok
    THEN /\ currentWorkers' = ws
         /\ recorded' = [w \in Worker |-> IF w \in ws /\ key[w].on = "put"
                                          THEN key[w].label ELSE NoLabel]
         /\ cool' = TRUE
    ELSE UNCHANGED published

\* handleRebalance takes lastWorkers over unless the rebalance failed or was
\* declined; a partition or label rebalance never does.
LastWorkers(adopts, verdict, covered, ok) ==
    lastWorkers' = IF adopts /\ \/ verdict = "none"
                                \/ verdict = "cached" /\ covered
                                \/ verdict = "publish" /\ ok
                   THEN currentWorkers' ELSE lastWorkers

\* rebalance on the scan s with the confirmed deaths D.
rebalance(s, D, adopts, ok) ==
    LET obs == s[1]
        ws == obs.workers \ D
        verdict == Verdict(obs, ws, D)
    IN  /\ faults + s[2] + (IF ok THEN 0 ELSE 1) <= MaxFaults
        /\ faults' = faults + s[2] + (IF ok THEN 0 ELSE 1)
        /\ shrunk' = obs.shrunk /\ cached' = obs.cached /\ thin' = s[3]
        /\ sighted' = [w \in Worker |->
               IF obs.fresh /\ w \in ws THEN 0 ELSE sighted[w]]
        /\ gone' = IF obs.fresh THEN ObserveAlive(ws) ELSE gone
        /\ IF obs.ok
           THEN /\ lastKnown' = IF verdict \in {"cached", "publish"}
                                THEN Cardinality(ws) ELSE lastKnown
                /\ IF verdict = "publish" THEN Publication(ws, ok)
                   ELSE ok /\ UNCHANGED published
                /\ LastWorkers(adopts, verdict, ws = currentWorkers, ok)
                /\ recheck' = IF verdict = "cached" THEN TRUE
                              ELSE IF adopts THEN recheck ELSE FALSE
           ELSE /\ ok
                /\ recheck' = IF adopts THEN recheck ELSE FALSE
                /\ UNCHANGED <<lastKnown, published, lastWorkers>>

\* The claimed emergency consumes the deaths; the scaling window's timer runs
\* a rebalance that ignores them.
RunClaimed ==
    /\ state \in {"Scaling", "Emergency"}
    /\ state' = "Idle"
    /\ deaths' = IF state = "Emergency" THEN {} ELSE deaths
    /\ \E s \in Scans, ok \in BOOLEAN :
           rebalance(s, IF state = "Emergency" THEN deaths ELSE {}, TRUE, ok)
    /\ UNCHANGED <<procs, watching, key>>

RecheckRuns ==
    /\ recheck /\ state = "Idle"
    /\ \E s \in Scans, ok \in BOOLEAN : rebalance(s, {}, FALSE, ok)
    /\ UNCHANGED <<procs, watching, key, state, deaths>>

FleetNext ==
    \/ \E w \in Worker, l \in WorkerLabel : WorkerStarts(w, l)
    \/ \E w \in Worker, graceful \in BOOLEAN : WorkerLeaves(w, graceful)
    \/ publishLoop
    \/ SessionEnds
    \/ monitorWatcherWithRetry
    \/ observeAndDecide
    \/ RunClaimed
    \/ RecheckRuns

FleetFairness ==
    /\ WF_fleetVars(publishLoop)
    /\ WF_fleetVars(monitorWatcherWithRetry)
    /\ WF_fleetVars(observeAndDecide)
    /\ WF_fleetVars(RunClaimed)
    /\ WF_fleetVars(RecheckRuns)

FleetSpec == FleetInit /\ [][FleetNext]_fleetVars
FairFleetSpec == FleetSpec /\ FleetFairness

-----------------------------------------------------------------------------
(* Properties. *)

DeathStep == \A w \in deaths' \ deaths : sighted[w] >= EmergencyGrace

ShrinkStep ==
    currentWorkers' # currentWorkers /\ TooFew(currentWorkers')
    => /\ state = "Emergency" /\ deaths # {}
       /\ TooFew(currentWorkers' \cup deaths) => thin' >= ConfirmCount

\* CheckEmergency and ObserveAlive: a worker the leader declares dead has been
\* missing from every fresh scan for the whole grace period, whichever of the
\* poll and the rebalances made the scan.  The floor in rebalance: a
\* publication takes the fleet below the threshold only in an emergency, after
\* a death was confirmed.  getActiveWorkers with its cache: even then the scan
\* behind it listed enough workers, the dead ones included, unless it was at
\* least the WorkerShrinkConfirmationCount-th in a row that did not.
LossIsConfirmed == [][DeathStep /\ ShrinkStep]_fleetVars

Unnoticed(w) == ~up[w] /\ w \in lastWorkers /\ \E v \in Worker : up[v]

\* The guard, the floor, the cache and the detector together: a worker that
\* stays down leaves lastWorkers while some other worker lives.
LossIsNoticed == \A w \in Worker : []<>~Unnoticed(w)

=============================================================================
