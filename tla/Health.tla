------------------------------- MODULE Health -------------------------------
(***************************************************************************)
(* When a worker degrades and when it may come back: manager_setup.go (the *)
(* buckets Start ensures and reconciles, the bucket-epoch fence) and       *)
(* manager_degraded.go (the connection monitor, the KV-error window, the   *)
(* recovery gates, the grace period).                                      *)
(*                                                                         *)
(* A tick is the connection monitor's period; ages are counted in ticks    *)
(* and saturate where the code no longer tells them apart.  enterDegraded  *)
(* and exitDegraded are one step each: their races on state and record are *)
(* module ManagerState.                                                    *)
(***************************************************************************)
EXTENDS Integers, Sequences, FiniteSets

CONSTANTS
    Order,               \* the buckets, in the order Start ensures them
    Reconciled,          \* those whose MaxAge is reconciled (stable IDs, handoff)
    EnterThreshold, ExitThreshold, KVErrorThreshold, KVErrorWindow, RecoveryGracePeriod,
    MaxGen,              \* bound: incarnations of a bucket
    MaxOutages           \* bound: what goes wrong

VARIABLES
    bk,           \* bucket -> its incarnation, whether it exists, whether its MaxAge is right
    conn,         \* the NATS connection is up
    slow,         \* KV operations time out on a live connection
    leader,
    outages,      \* what went wrong so far
    booting,      \* the bucket Start is at; Len(Order) + 1 when it is done, 0 if it failed
    step,         \* where Start is with that bucket
    epoch,        \* m.bucketEpochs: the captured incarnation, 0 if none
    verified,     \* bucket -> the incarnation whose MaxAge Start verified, 0 if none
    down, up,     \* age of connDownSince and connUpSince; Unset if zero
    window,       \* kvErrorWindow: [age, transient] of each error
    report,       \* an error between recordKVError's degraded check and its lock
    degradedFor,  \* the degraded record's reason, or "nil"
    recAge,       \* 0 within the tick the record was made in, else 1
    hb, en,       \* lastHeartbeatSuccessAt, lastEnumerationSuccessAt against the record
    exhausted,    \* streamMissingExhausted
    ticked,       \* the connection monitor's ticker has fired
    gate,         \* attemptRecoveryFromDegraded
    todo,         \* buckets its epoch re-probe has still to look at
    grace,        \* inRecoveryGrace
    timers        \* what the grace-period timers have left

cluster == <<bk, conn, slow, leader>>
setup == <<booting, step, epoch, verified>>
circuit == <<down, up, window, report>>
record == <<degradedFor, recAge, hb, en, exhausted>>
recovery == <<ticked, gate, todo>>
gracePeriod == <<grace, timers>>
healthVars == <<cluster, outages, setup, circuit, record, recovery, gracePeriod>>

Bucket == {Order[i] : i \in DOMAIN Order}
\* MaxAge is reconciled only on buckets that Start ensures.
ASSUME ReconciledAssumption == Reconciled \subseteq Bucket
Running == booting = Len(Order) + 1
Unset == -1
None == [age |-> 0, transient |-> FALSE, busy |-> FALSE]
Cap(n, max) == IF n < max THEN n + 1 ELSE max

HealthInit ==
    /\ \E h \in SUBSET Bucket, w \in SUBSET Reconciled :
          /\ w \subseteq h
          /\ bk = [b \in Bucket |-> [gen |-> IF b \in h THEN 1 ELSE 0, here |-> b \in h,
                                    age |-> IF b \in w THEN "wrong" ELSE "right"]]
    /\ conn = TRUE /\ slow = FALSE /\ leader = TRUE /\ outages = 0
    /\ booting = 1 /\ step = "ensure"
    /\ epoch = [b \in Bucket |-> 0] /\ verified = [b \in Bucket |-> 0]
    /\ down = Unset /\ up = Unset /\ window = <<>> /\ report = None
    /\ degradedFor = "nil" /\ recAge = 1 /\ hb = "before" /\ en = "before" /\ exhausted = FALSE
    /\ ticked = TRUE /\ gate = "idle" /\ todo = {}
    /\ grace = FALSE /\ timers = <<>>

-----------------------------------------------------------------------------
(* external: the server, the operator, the other workers *)

Reachable(b) == conn /\ ~slow /\ bk[b].here
Fault == outages < MaxOutages /\ outages' = outages + 1

ConnectionMoves ==
    /\ Fault /\ conn' = ~conn
    /\ UNCHANGED <<bk, slow, leader, setup, circuit, record, recovery, gracePeriod>>

QuorumMoves ==
    /\ Fault /\ slow' = ~slow
    /\ UNCHANGED <<bk, conn, leader, setup, circuit, record, recovery, gracePeriod>>

LeadershipMoves ==
    /\ Fault /\ Running /\ leader' = ~leader
    /\ UNCHANGED <<bk, conn, slow, setup, circuit, record, recovery, gracePeriod>>

\* A bucket is wiped.
Wiped(b) ==
    /\ Fault /\ bk[b].here
    /\ bk' = [bk EXCEPT ![b].here = FALSE]
    /\ UNCHANGED <<conn, slow, leader, setup, circuit, record, recovery, gracePeriod>>

\* Somebody creates it again, perhaps with another MaxAge.
Recreated(b) ==
    /\ ~bk[b].here /\ bk[b].gen < MaxGen
    /\ \E a \in IF b \in Reconciled THEN {"right", "wrong"} ELSE {"right"} :
          bk' = [bk EXCEPT ![b] = [gen |-> @.gen + 1, here |-> TRUE, age |-> a]]
    /\ UNCHANGED <<conn, slow, leader, outages, setup, circuit, record, recovery, gracePeriod>>

\* Another worker that starts reconciles the MaxAge; it matters to one that
\* starts too.
PeerReconciles(b) ==
    /\ ~Running
    /\ b \in Reconciled /\ bk[b].here /\ bk[b].age = "wrong"
    /\ bk' = [bk EXCEPT ![b].age = "right"]
    /\ UNCHANGED <<conn, slow, leader, outages, setup, circuit, record, recovery, gracePeriod>>

-----------------------------------------------------------------------------
(* Start: ensureStableIDKV, ensureCoreKVBuckets, setupHandoff *)

At(s) == booting \in DOMAIN Order /\ step = s

StartFails ==
    /\ booting' = 0 /\ step' = "ensure"
    /\ UNCHANGED <<epoch, verified>>

NextBucket == booting' = booting + 1 /\ step' = "ensure"

\* ensureKVBucket: open or create; when that keeps failing Start fails.
EnsureKVBucket ==
    /\ At("ensure")
    /\ LET b == Order[booting] IN
       IF ~conn \/ slow
       THEN StartFails /\ UNCHANGED bk
       ELSE /\ bk' = IF bk[b].here THEN bk
                     ELSE [bk EXCEPT ![b] = [gen |-> @.gen + 1, here |-> TRUE, age |-> "right"]]
            /\ step' = "capture" /\ UNCHANGED <<booting, epoch, verified>>
    /\ UNCHANGED <<conn, slow, leader, outages, circuit, record, recovery, gracePeriod>>

\* captureBucketEpoch: a failure leaves the bucket outside the fence.
CaptureBucketEpoch ==
    /\ At("capture")
    /\ LET b == Order[booting] IN
          /\ epoch' = IF Reachable(b) THEN [epoch EXCEPT ![b] = bk[b].gen] ELSE epoch
          /\ IF b \in Reconciled THEN step' = "read" /\ UNCHANGED booting ELSE NextBucket
    /\ UNCHANGED <<cluster, outages, verified, circuit, record, recovery, gracePeriod>>

Verified(b) == verified' = [verified EXCEPT ![b] = bk[b].gen] /\ NextBucket /\ UNCHANGED epoch

\* reconcileStableIDBucketMaxAge, reconcileHandoffBucketMaxAge.
ReconcileReads ==
    /\ At("read")
    /\ LET b == Order[booting] IN
       IF ~Reachable(b) THEN StartFails
       ELSE IF bk[b].age = "right" THEN Verified(b)
       ELSE step' = "update" /\ UNCHANGED <<booting, epoch, verified>>
    /\ UNCHANGED <<cluster, outages, circuit, record, recovery, gracePeriod>>

\* kvStreamUpdate.
ReconcileUpdates ==
    /\ At("update")
    /\ LET b == Order[booting] IN
       \/ /\ Reachable(b)
          /\ bk' = [bk EXCEPT ![b].age = "right"]
          /\ verified' = [verified EXCEPT ![b] = bk[b].gen] /\ NextBucket /\ UNCHANGED <<epoch, outages>>
       \/ /\ IF Reachable(b) THEN Fault ELSE UNCHANGED outages
          /\ step' = "recheck" /\ UNCHANGED <<bk, booting, epoch, verified>>
    /\ UNCHANGED <<conn, slow, leader, circuit, record, recovery, gracePeriod>>

\* Wrong variant: a failed update is left to the peer that caused it.
RecheckTrusts ==
    /\ At("recheck")
    /\ Verified(Order[booting])
    /\ UNCHANGED <<cluster, outages, circuit, record, recovery, gracePeriod>>

\* The update failed: a peer may have done it (bucketMaxAgeReconciled).
ReconcileRechecks ==
    /\ At("recheck")
    /\ LET b == Order[booting] IN
       IF Reachable(b) /\ bk[b].age = "right" THEN Verified(b) ELSE StartFails
    /\ UNCHANGED <<cluster, outages, circuit, record, recovery, gracePeriod>>

-----------------------------------------------------------------------------
(* Entering degraded mode *)

\* enterDegraded: the first reason stays.
EnterDegraded(r) ==
    IF degradedFor # "nil" THEN UNCHANGED <<degradedFor, recAge, hb, en>>
    ELSE degradedFor' = r /\ recAge' = 0 /\ hb' = "before" /\ en' = "before"

\* A recovery signal is stamped with the time; within the record's own tick it
\* does not count as later.  A stamp is kept while its gate's reason holds.
Stamp == IF recAge = 0 THEN "at" ELSE "after"

\* checkBucketEpochs, one bucket: a probe that fails is not acted on.
CheckBucketEpoch(b) ==
    /\ Running /\ epoch[b] # 0 /\ Reachable(b) /\ bk[b].gen # epoch[b]
    /\ EnterDegraded("recreated")
    /\ UNCHANGED <<cluster, outages, setup, circuit, exhausted, recovery, gracePeriod>>

\* classifyKVError: a timeout on a live connection to a bucket that exists, against whole-bucket loss.
Transient(b) == conn /\ bk[b].here

\* recordKVOpError for an operation on b: markKVUnavailable and classifyKVError
\* tell a lost bucket or connection from a timeout; nothing is recorded while
\* degraded.
KVOperationFails(b) ==
    /\ Running /\ ~Reachable(b) /\ degradedFor = "nil" /\ ~report.busy
    /\ report' = [age |-> 0, transient |-> Transient(b), busy |-> TRUE]
    /\ UNCHANGED <<cluster, outages, setup, down, up, window, record, recovery, gracePeriod>>

\* The window without what was too old when the error happened.
Trim(w) ==
    LET fresh == {i \in DOMAIN w : w[i].age - report.age < KVErrorWindow}
    IN  IF fresh = {} THEN w ELSE SubSeq(w, CHOOSE i \in fresh : \A j \in fresh : i <= j, Len(w))

\* recordKVError under m.mu.
RecordKVError ==
    /\ report.busy
    /\ window' = Trim(Append(window, [age |-> report.age, transient |-> report.transient]))
    /\ IF Len(window') >= KVErrorThreshold
       THEN EnterDegraded(IF report.transient THEN "kvUnavailable" ELSE "kvErrors")
       ELSE UNCHANGED <<degradedFor, recAge, hb, en>>
    /\ report' = None
    /\ UNCHANGED <<cluster, outages, setup, down, up, exhausted, recovery, gracePeriod>>

\* A heartbeat is written: recordKVHealthyOp.
HeartbeatSucceeds ==
    /\ Running /\ Reachable("heartbeat")
    /\ hb' = IF degradedFor = "kvUnavailable" THEN Stamp ELSE hb
    /\ window' = IF degradedFor = "nil" THEN SelectSeq(window, LAMBDA e : ~e.transient) ELSE window
    /\ UNCHANGED <<cluster, outages, setup, down, up, report, degradedFor, recAge, en, exhausted, recovery, gracePeriod>>

\* The leader's enumeration of the workers succeeds, or has failed often enough.
EnumerationSucceeds ==
    /\ Running /\ leader /\ Reachable("heartbeat")
    /\ en' = IF degradedFor = "stall" THEN Stamp ELSE en
    /\ UNCHANGED <<cluster, outages, setup, circuit, degradedFor, recAge, hb, exhausted, recovery, gracePeriod>>

OnEnumerationStall ==
    /\ Running /\ leader /\ Fault
    /\ EnterDegraded("stall")
    /\ UNCHANGED <<cluster, setup, circuit, exhausted, recovery, gracePeriod>>

\* onStreamMissingError: the latch first.
OnStreamMissingError ==
    /\ Running /\ ~exhausted /\ Fault
    /\ exhausted' = TRUE
    /\ EnterDegraded("exhausted")
    /\ UNCHANGED <<cluster, setup, circuit, recovery, gracePeriod>>

-----------------------------------------------------------------------------
(* checkConnectionHealth and attemptRecoveryFromDegraded, one goroutine *)

Ticked == Running /\ gate = "idle" /\ ticked /\ ticked' = FALSE

ConnectionLost ==
    /\ Ticked /\ ~conn /\ down = Unset
    /\ down' = 0 /\ up' = Unset
    /\ UNCHANGED <<cluster, outages, setup, window, report, record, gate, todo, gracePeriod>>

ConnectionStillDown ==
    /\ Ticked /\ ~conn /\ down >= EnterThreshold
    /\ EnterDegraded("connection")
    /\ UNCHANGED <<cluster, outages, setup, circuit, exhausted, gate, todo, gracePeriod>>

ConnectionRestored ==
    /\ Ticked /\ conn /\ up = Unset
    /\ up' = 0 /\ down' = Unset
    /\ UNCHANGED <<cluster, outages, setup, window, report, record, gate, todo, gracePeriod>>

\* The assignment is refreshed; if it is the applied one the recovery goes on.
RecoveryBegins ==
    /\ Ticked /\ conn /\ up >= ExitThreshold /\ degradedFor # "nil"
    /\ ~slow
    /\ window' = <<>>
    /\ gate' = "gates"
    /\ UNCHANGED <<cluster, outages, setup, down, up, report, record, todo, gracePeriod>>

\* Wrong variant: the leadership-loss escape is missing.
StalledAlways(reason, sig, leaderOnly) == degradedFor = reason /\ sig # "after"

\* recoverySignalStalled.
recoverySignalStalled(reason, sig, leaderOnly) ==
    degradedFor = reason /\ (leaderOnly => leader) /\ sig # "after"

\* The terminal hold and the kv-unavailable gate.
RecoveryGates ==
    /\ gate = "gates"
    /\ IF degradedFor = "exhausted" \/ exhausted \/ recoverySignalStalled("kvUnavailable", hb, FALSE)
       THEN gate' = "idle" /\ UNCHANGED todo
       ELSE gate' = "probe" /\ todo' = {b \in Bucket : epoch[b] # 0}
    /\ UNCHANGED <<cluster, outages, setup, circuit, record, ticked, gracePeriod>>

\* Wrong variant: only the bucket of the heartbeats is probed.
ProbeHeartbeatOnly(b) ==
    /\ gate = "probe" /\ b \in todo
    /\ IF b = "heartbeat" /\ Reachable(b) /\ bk[b].gen # epoch[b]
       THEN gate' = "idle" /\ todo' = {}
       ELSE gate' = gate /\ todo' = todo \ {b}
    /\ UNCHANGED <<cluster, outages, setup, circuit, record, ticked, gracePeriod>>

\* epochMismatchOutstanding, one bucket: a failed probe is skipped.
EpochMismatchOutstanding(b) ==
    /\ gate = "probe" /\ b \in todo
    /\ IF Reachable(b) /\ bk[b].gen # epoch[b]
       THEN gate' = "idle" /\ todo' = {}
       ELSE gate' = gate /\ todo' = todo \ {b}
    /\ UNCHANGED <<cluster, outages, setup, circuit, record, ticked, gracePeriod>>

\* heartbeatBucketUnavailable.
HeartbeatBucketUnavailable ==
    /\ gate = "probe" /\ todo = {}
    /\ gate' = IF Reachable("heartbeat") THEN "exit" ELSE "idle"
    /\ UNCHANGED <<cluster, outages, setup, circuit, record, ticked, todo, gracePeriod>>

\* The enumeration gate, exitDegraded, enterRecoveryGracePeriod on a leader.
RecoveryEnds ==
    /\ gate = "exit"
    /\ gate' = "idle"
    /\ IF recoverySignalStalled("stall", en, TRUE)
       THEN UNCHANGED <<record, gracePeriod>>
       ELSE /\ degradedFor' = "nil" /\ recAge' = 1 /\ hb' = "before" /\ en' = "before" /\ UNCHANGED exhausted
            /\ IF leader
               THEN grace' = TRUE /\ timers' = Append(timers, RecoveryGracePeriod)
               ELSE UNCHANGED gracePeriod
    /\ UNCHANGED <<cluster, outages, setup, circuit, ticked, todo>>

\* A grace-period timer fires: exitRecoveryGracePeriod.
GraceTimerFires ==
    /\ \E i \in DOMAIN timers :
          /\ timers[i] = 0
          /\ timers' = SubSeq(timers, 1, i - 1) \o SubSeq(timers, i + 1, Len(timers))
    /\ grace' = FALSE
    /\ UNCHANGED <<cluster, outages, setup, circuit, record, recovery>>

\* Time passes.  An error is recorded within a tick of its being met, and a
\* timer that is due fires.
Tick ==
    /\ Running /\ ~(report.busy /\ report.age = 1) /\ \A i \in DOMAIN timers : timers[i] > 0
    /\ down' = IF down = Unset THEN Unset ELSE Cap(down, EnterThreshold)
    /\ up' = IF up = Unset THEN Unset ELSE Cap(up, ExitThreshold)
    /\ window' = [i \in DOMAIN window |-> [window[i] EXCEPT !.age = Cap(@, KVErrorWindow + 1)]]
    /\ report' = IF report.busy THEN [report EXCEPT !.age = 1] ELSE report
    /\ recAge' = 1
    /\ timers' = [i \in DOMAIN timers |-> timers[i] - 1]
    /\ ticked' = TRUE
    /\ UNCHANGED <<cluster, outages, setup, degradedFor, hb, en, exhausted, gate, todo, grace>>

-----------------------------------------------------------------------------
Start == EnsureKVBucket \/ CaptureBucketEpoch \/ ReconcileReads \/ ReconcileUpdates \/ ReconcileRechecks
Environment ==
    \/ ConnectionMoves \/ QuorumMoves \/ LeadershipMoves
    \/ \E b \in Bucket : Wiped(b) \/ Recreated(b) \/ PeerReconciles(b)
Connection == ConnectionLost \/ ConnectionStillDown \/ ConnectionRestored
Recovery ==
    \/ RecoveryGates \/ HeartbeatBucketUnavailable \/ RecoveryEnds
    \/ \E b \in Bucket : EpochMismatchOutstanding(b)

HealthNext ==
    \/ Start \/ Environment \/ Connection \/ RecoveryBegins \/ Recovery
    \/ \E b \in Bucket : CheckBucketEpoch(b) \/ KVOperationFails(b)
    \/ RecordKVError \/ HeartbeatSucceeds \/ EnumerationSucceeds
    \/ OnEnumerationStall \/ OnStreamMissingError
    \/ GraceTimerFires \/ Tick

HealthSpec == HealthInit /\ [][HealthNext]_healthVars

\* Tickers tick, heartbeats are written and enumerations made where they can
\* be, the goroutines run.
HealthFairness ==
    /\ WF_healthVars(Start) /\ WF_healthVars(Tick) /\ WF_healthVars(Connection) /\ WF_healthVars(RecoveryBegins) /\ WF_healthVars(Recovery)
    /\ WF_healthVars(RecordKVError) /\ WF_healthVars(GraceTimerFires)
    /\ WF_healthVars(HeartbeatSucceeds) /\ WF_healthVars(EnumerationSucceeds)
    /\ \A b \in Bucket : WF_healthVars(CheckBucketEpoch(b))

FairHealthSpec == HealthSpec /\ HealthFairness

-----------------------------------------------------------------------------
(* Properties *)

\* reconcileHandoffBucketMaxAge, reconcileStableIDBucketMaxAge: a worker that
\* got past a bucket has the right MaxAge on it, through failed updates and
\* peers that reconcile at the same time, unless the bucket was replaced since.
VerifiedAgeHolds ==
    \A b \in Reconciled : bk[b].age = "wrong" => bk[b].gen # verified[b] \/ bk[b].gen = 0

\* The fence has seen the bucket, which was replaced since and can be read.
Replaced(b) == epoch[b] # 0 /\ Reachable(b) /\ bk[b].gen # epoch[b]

OnReplaced == Running /\ \E b \in Bucket : Replaced(b)
AllWell == Running /\ (\A b \in Bucket : Reachable(b) /\ ~Replaced(b)) /\ ~exhausted

\* attemptRecoveryFromDegraded and its gates: a worker whose bucket was wiped
\* and recreated under it ends up degraded and stays so, whatever other reason
\* it was degraded for (monitorBucketEpochs, epochMismatchOutstanding); and no
\* gate keeps a worker whose cluster is healthy degraded: not a signal that
\* only a leader could stamp, not a stamp that came at the moment of the entry,
\* not an error still on its way into the window.
GatesAreExact ==
    /\ <>[]OnReplaced => <>[](degradedFor # "nil")
    /\ <>[]AllWell => <>[](degradedFor = "nil")

=============================================================================
