------------------------------- MODULE Source -------------------------------
(***************************************************************************)
(* The partition source over one key of a KV bucket (source/nats_kv.go):   *)
(* the local copy of the list that the watcher, the reconciler and a       *)
(* writing call keep up to date, each reading the bucket first and         *)
(* applying what it read later, under s.mu.                                *)
(*                                                                         *)
(* The bucket holds the one key; an operator may delete and recreate it,   *)
(* and then its revisions start again.  What Created() tells apart is the  *)
(* bucket's incarnation.  Cadences are left out: a tick may come any time. *)
(***************************************************************************)
EXTENDS Naturals, Sequences

CONSTANTS
    Sourced,  \* partitions of the list
    MaxRev,   \* writes in one incarnation of the bucket
    MaxInc,   \* incarnations of the bucket
    UpdateRetries,
    MaxAttempts,    \* watcherMaxAttempts
    MaxOps          \* calls of Update and Modify, and faults

VARIABLES
    bucket,         \* up, incarnation, and the values written to the key
    running,
    partitions, revision, known,
    moved,          \* applyGen differs from what the reconciler remembers
    watcher,        \* status, restart attempts, and the events it has buffered
    recon,          \* where reconcileOnce is, with the entry it holds
    skip,           \* reconcileRev, reconcileCreated, reconcileKnown
    bucketMissing,  \* the gauge
    call,           \* the call of Update or Modify
    prov,           \* history: the entry that gave the revision
    late,           \* history: what was applied last is not what the bucket holds
                    \* any more: an entry of a dead incarnation, or "no entry"
    ops

local == <<partitions, revision, known, moved, prov, late>>
sourceVars == <<bucket, running, local, watcher, recon, skip, bucketMissing, call, ops>>

-----------------------------------------------------------------------------
(* The bucket, as the code uses it.                                        *)

Deleted == {"deleted"}
Undecodable == {"undecodable"}
List == SUBSET Sourced
NotFound == [inc |-> 0, rev |-> 0, value |-> {}]

Latest ==
    LET n == Len(bucket.log) IN
    IF n = 0 \/ bucket.log[n] = Deleted THEN NotFound
    ELSE [inc |-> bucket.inc, rev |-> n, value |-> bucket.log[n]]

Written(v) == [bucket EXCEPT !.log = Append(@, v)]
Event(v) == [inc |-> bucket.inc, rev |-> Len(bucket.log) + 1, value |-> v]
Delivered(v) == IF watcher.status = "live" THEN [watcher EXCEPT !.queue = Append(@, Event(v))] ELSE watcher

\* kv.Create succeeds over a delete marker, kv.Update only over its revision.
CreateWins == bucket.up /\ Latest = NotFound
UpdateWins(rev) == bucket.up /\ Len(bucket.log) = rev
Room == Len(bucket.log) < MaxRev
Operation == ops < MaxOps /\ ops' = ops + 1
Fault == Operation

NoEntry == NotFound
NoSkip == [known |-> FALSE, rev |-> 0, inc |-> 0]
IdleRecon == [at |-> "idle", entry |-> NoEntry, baseline |-> 0]
IdleCall == [at |-> "idle", kind |-> "none", value |-> {}, attempt |-> 0, rev |-> 0, entry |-> NoEntry]
Dead == [status |-> "none", attempts |-> 0, queue |-> <<>>]

\* NewNatsKV.
SourceInit ==
    /\ bucket \in {[up |-> TRUE, inc |-> 1, log |-> l] : l \in {<<>>, <<Sourced>>}}
    /\ running = FALSE
    /\ partitions = {} /\ revision = 0 /\ known = FALSE /\ moved = FALSE
    /\ watcher = Dead /\ recon = IdleRecon
    /\ skip = NoSkip
    /\ bucketMissing = FALSE /\ call = IdleCall
    /\ prov = [inc |-> 0, rev |-> 0] /\ late = FALSE
    /\ ops = 0

-----------------------------------------------------------------------------
(* Applying to the local copy, under s.mu.                                 *)

Passes(rev, base) == rev = 0 \/ rev >= base

Remembered == recon.at \in {"confirm", "reset"}

applyLocalLocked(e, base) ==
    IF Passes(e.rev, base)
    THEN /\ partitions' = e.value /\ revision' = e.rev /\ known' = TRUE /\ moved' = Remembered
         /\ prov' = [inc |-> e.inc, rev |-> e.rev]
         /\ late' = (e.inc < bucket.inc)
    ELSE UNCHANGED local

applyLocal(e) == applyLocalLocked(e, revision)

\* The reset gives up the baseline only if nothing was applied since.
ResetUngated(e, baseline) == IF revision = baseline THEN 0 ELSE revision
ResetBaseline(e, baseline) == IF revision = baseline /\ ~moved THEN 0 ELSE revision
applyReconcileReset(e, baseline) == applyLocalLocked(e, ResetBaseline(e, baseline))

applyEmptyPreservingKnown ==
    IF known
    THEN partitions' = {} /\ late' = (Latest # NotFound) /\ UNCHANGED <<revision, known, moved, prov>>
    ELSE UNCHANGED local

noteBucketUnavailable == bucketMissing' = TRUE
noteBucketAvailable == bucketMissing' = FALSE

-----------------------------------------------------------------------------
(* Start and Stop.                                                         *)

Live(queue) == [status |-> "live", attempts |-> 0, queue |-> queue]
Initial ==
    LET n == Len(bucket.log) IN
    IF n = 0 THEN <<>>
    ELSE <<[inc |-> bucket.inc, rev |-> n, value |-> bucket.log[n]]>>

Start ==
    /\ ~running /\ bucket.up /\ Latest.value # Undecodable
    /\ IF Latest = NotFound
       THEN /\ partitions' = {} /\ revision' = 0 /\ known' = FALSE /\ moved' = FALSE
            /\ prov' = [inc |-> 0, rev |-> 0] /\ UNCHANGED late
       ELSE applyLocalLocked(Latest, revision)
    /\ running' = TRUE /\ watcher' = Live(Initial)
    /\ UNCHANGED <<bucket, recon, skip, bucketMissing, call, ops>>

StartFails == ~running /\ (~bucket.up \/ Latest.value = Undecodable) /\ UNCHANGED sourceVars

Stop ==
    /\ running /\ recon = IdleRecon
    /\ running' = FALSE /\ watcher' = Dead /\ Fault
    /\ UNCHANGED <<bucket, local, recon, skip, bucketMissing, call>>

-----------------------------------------------------------------------------
(* The watcher.                                                            *)

watchLoop ==
    /\ watcher.queue # <<>>
    /\ LET e == Head(watcher.queue) IN
         \/ e.value = Deleted /\ applyLocal([e EXCEPT !.value = {}])
         \/ e.value = Undecodable /\ UNCHANGED local
         \/ e.value \in List /\ applyLocal(e)
    /\ watcher' = [watcher EXCEPT !.queue = Tail(@)]
    /\ UNCHANGED <<bucket, running, recon, skip, bucketMissing, call, ops>>

\* The channel is closed and empty: an attempt of restartWatcher.
tryRebindWatcher ==
    /\ running /\ watcher.status = "closed" /\ watcher.queue = <<>>
    /\ \/ bucket.up /\ watcher' = Live(Initial) /\ noteBucketAvailable
       \/ /\ ~bucket.up /\ noteBucketUnavailable
          /\ watcher' = [watcher EXCEPT !.attempts = @ + 1,
                                    !.status = IF watcher.attempts + 1 >= MaxAttempts THEN "exhausted" ELSE "closed"]
    /\ UNCHANGED <<bucket, running, local, recon, skip, call, ops>>

-----------------------------------------------------------------------------
(* The reconciler.                                                         *)

SameRevision(e) == skip.known /\ e.rev = skip.rev
Unchanged(e) == skip.known /\ e.rev = skip.rev /\ e.inc = skip.inc

markReconcileApplied(e) == skip' = [known |-> TRUE, rev |-> e.rev, inc |-> e.inc]
Marked(e, accepted) == IF accepted THEN markReconcileApplied(e) ELSE UNCHANGED skip
ReconGoes(at, e, baseline) == recon' = [at |-> at, entry |-> e, baseline |-> baseline]

\* A tick reads the key.
reconcileOnce ==
    /\ running /\ recon.at = "idle"
    /\ \/ ~bucket.up /\ noteBucketUnavailable /\ UNCHANGED <<recon, ops>>
       \/ bucket.up /\ Fault /\ noteBucketUnavailable /\ UNCHANGED recon
       \/ bucket.up /\ Latest = NotFound /\ noteBucketAvailable /\ ReconGoes("empty", NoEntry, 0) /\ UNCHANGED ops
       \/ /\ bucket.up /\ Latest # NotFound /\ noteBucketAvailable /\ UNCHANGED ops
          /\ IF Unchanged(Latest) \/ Latest.value = Undecodable THEN UNCHANGED recon
             ELSE ReconGoes("got", Latest, 0)
    /\ UNCHANGED <<bucket, running, local, watcher, skip, call>>

\* The key was not there.
ReconcileEmpty ==
    /\ recon.at = "empty"
    /\ applyEmptyPreservingKnown
    /\ skip' = NoSkip
    /\ recon' = IdleRecon
    /\ UNCHANGED <<bucket, running, watcher, bucketMissing, call, ops>>

\* applyReconcileEntry looks at the baseline first ...
applyReconcileEntry ==
    /\ recon.at = "got"
    /\ moved' = FALSE
    /\ IF Passes(recon.entry.rev, revision) THEN ReconGoes("apply", recon.entry, 0)
       ELSE ReconGoes("confirm", NoEntry, revision)
    /\ UNCHANGED <<bucket, running, partitions, revision, known, prov, late, watcher, skip, bucketMissing, call, ops>>

\* ... reads again when the entry is below it ...
ConfirmatoryRead ==
    /\ recon.at = "confirm"
    /\ \/ ~bucket.up /\ noteBucketUnavailable /\ recon' = IdleRecon
       \/ /\ bucket.up /\ UNCHANGED bucketMissing
          /\ \/ Latest = NotFound /\ recon' = IdleRecon
             \/ Latest.value = Undecodable /\ recon' = IdleRecon
             \/ /\ Latest # NotFound /\ Latest.value # Undecodable
                /\ IF Latest.rev < recon.baseline THEN ReconGoes("reset", Latest, recon.baseline) ELSE ReconGoes("apply", Latest, 0)
    /\ UNCHANGED <<bucket, running, local, watcher, skip, call, ops>>

\* ... and applies.
ReconcileApplies ==
    /\ \/ recon.at = "apply" /\ applyLocal(recon.entry) /\ Marked(recon.entry, Passes(recon.entry.rev, revision))
       \/ /\ recon.at = "reset" /\ applyReconcileReset(recon.entry, recon.baseline)
          /\ Marked(recon.entry, Passes(recon.entry.rev, ResetBaseline(recon.entry, recon.baseline)))
    /\ recon' = IdleRecon
    /\ UNCHANGED <<bucket, running, watcher, bucketMissing, call, ops>>

-----------------------------------------------------------------------------
(* Update and Modify.                                                      *)

CallGoes(f) == call' = f /\ UNCHANGED <<bucket, running, local, watcher, recon, skip, bucketMissing>>

\* validateAndDedupe accepted the list.
Update ==
    /\ running /\ call.at = "idle" /\ Operation
    /\ \E list \in {Sourced, {}} : CallGoes([IdleCall EXCEPT !.at = "snapshot", !.kind = "update", !.value = list])

UpdateReads ==
    /\ call.at = "snapshot"
    /\ CallGoes([call EXCEPT !.at = IF known THEN "update" ELSE "create", !.rev = revision])
    /\ UNCHANGED ops

\* Modify adds or removes one partition: AddPartitions, RemovePartitions.
AddPartitions(list, p) == list \cup {p}
RemovePartitions(list, p) == list \ {p}
Modify ==
    /\ running /\ call.at = "idle" /\ Operation
    /\ CallGoes([IdleCall EXCEPT !.at = "fetch", !.kind = "modify"])

fetchFromKV ==
    /\ call.at = "fetch"
    /\ \/ (~bucket.up \/ Latest.value = Undecodable) /\ CallGoes(IdleCall)
       \/ /\ bucket.up /\ Latest.value # Undecodable
          /\ \E p \in Sourced : \E list \in {AddPartitions(Latest.value, p), RemovePartitions(Latest.value, p)} :
               CallGoes([call EXCEPT !.at = IF Latest.rev = 0 THEN "create" ELSE "update", !.rev = Latest.rev, !.value = list])
    /\ UNCHANGED ops

Wins == \/ call.at = "create" /\ CreateWins
        \/ call.at = "update" /\ UpdateWins(call.rev)

CallWrites ==
    /\ Wins /\ Room
    /\ bucket' = Written(call.value) /\ watcher' = Delivered(call.value)
    /\ call' = [IdleCall EXCEPT !.at = "apply", !.entry = Event(call.value)]
    /\ UNCHANGED <<running, local, recon, skip, bucketMissing, ops>>

CallApplies ==
    /\ call.at = "apply"
    /\ applyLocal(call.entry)
    /\ call' = IdleCall
    /\ UNCHANGED <<bucket, running, watcher, recon, skip, bucketMissing, ops>>

Retry == IF call.attempt + 1 >= UpdateRetries THEN IdleCall
         ELSE [call EXCEPT !.at = IF @ = "refreshed" THEN "snapshot" ELSE "fetch", !.attempt = @ + 1, !.rev = 0, !.entry = NoEntry]

\* isCASConflict: Update refreshes first, Modify fetches again.
CallConflicts ==
    /\ call.at \in {"create", "update"} /\ bucket.up /\ ~Wins
    /\ CallGoes(IF call.kind = "update" THEN [call EXCEPT !.at = "refresh", !.rev = 0] ELSE Retry)
    /\ UNCHANGED ops

CallFails ==
    /\ call.at \in {"create", "update", "refresh"}
    /\ \/ ~bucket.up /\ UNCHANGED ops
       \/ bucket.up /\ Fault
    /\ CallGoes(IdleCall)

RefreshReads ==
    /\ call.at = "refresh" /\ bucket.up
    /\ CallGoes(IF Latest.value = Undecodable THEN IdleCall ELSE [call EXCEPT !.at = "refreshed", !.entry = Latest])
    /\ UNCHANGED ops

refreshFromKV ==
    /\ call.at = "refreshed"
    /\ IF call.entry = NotFound THEN applyEmptyPreservingKnown ELSE applyLocal(call.entry)
    /\ call' = Retry
    /\ UNCHANGED <<bucket, running, watcher, recon, skip, bucketMissing, ops>>

-----------------------------------------------------------------------------
(* Others.                                                                 *)

OthersWrite ==
    /\ bucket.up /\ Room
    /\ \E v \in {Sourced, Deleted, Undecodable} :
         /\ v = Deleted => Latest # NotFound
         /\ IF v = Undecodable THEN Fault ELSE UNCHANGED ops
         /\ bucket' = Written(v) /\ watcher' = Delivered(v)
    /\ UNCHANGED <<running, local, recon, skip, bucketMissing, call>>

BucketDeleted ==
    /\ bucket.up /\ bucket.inc < MaxInc
    /\ bucket' = [bucket EXCEPT !.up = FALSE]
    /\ watcher' = IF watcher.status = "live" THEN [watcher EXCEPT !.status = "stalled"] ELSE watcher
    /\ UNCHANGED <<running, local, recon, skip, bucketMissing, call, ops>>

BucketRecreated ==
    /\ ~bucket.up
    /\ bucket' = [up |-> TRUE, inc |-> bucket.inc + 1, log |-> <<>>]
    /\ UNCHANGED <<running, local, watcher, recon, skip, bucketMissing, call, ops>>

\* A watcher stops delivering, or its channel is closed.
WatcherBreaks ==
    /\ watcher.status \in {"live", "stalled"}
    /\ \E s \in {"stalled", "closed"} : s # watcher.status /\ watcher' = [watcher EXCEPT !.status = s]
    /\ Fault
    /\ UNCHANGED <<bucket, running, local, recon, skip, bucketMissing, call>>

Watcher == watchLoop \/ tryRebindWatcher
Reconciler == reconcileOnce \/ ReconcileEmpty \/ applyReconcileEntry \/ ConfirmatoryRead \/ ReconcileApplies
Caller ==
    \/ UpdateReads \/ fetchFromKV \/ CallWrites \/ CallApplies \/ CallConflicts \/ CallFails
    \/ RefreshReads \/ refreshFromKV

\* The write budget of the model is used up.
OutOfRoom ==
    /\ Wins /\ ~Room /\ CallGoes(IdleCall) /\ UNCHANGED ops

SourceNext ==
    \/ Start \/ StartFails \/ Stop
    \/ Watcher \/ Reconciler \/ Update \/ Modify \/ Caller \/ OutOfRoom
    \/ OthersWrite \/ BucketDeleted \/ BucketRecreated \/ WatcherBreaks

\* The goroutines of Start run, and a tick comes again and again.
SourceFairness == WF_sourceVars(Watcher) /\ WF_sourceVars(Reconciler) /\ WF_sourceVars(Caller \/ OutOfRoom)
SourceSpec == SourceInit /\ [][SourceNext]_sourceVars
FairSourceSpec == SourceSpec /\ SourceFairness

-----------------------------------------------------------------------------
(* Properties.                                                             *)

RollStep == prov'.inc = prov.inc => prov'.rev >= prov.rev

\* Within one incarnation of the bucket the local copy never goes back to an
\* earlier entry, whoever applies: the stale gate of applyLocalLocked and the
\* generation check of applyReconcileReset.
CopyNeverGoesBack == [][RollStep]_sourceVars

Synced ==
    /\ bucketMissing = ~bucket.up
    /\ bucket.up /\ Latest.value # Undecodable => partitions = Latest.value

\* Watcher and reconciler bring the copy to what the bucket holds, and the
\* gauge to whether it is there (reconcileOnce and its skip guard), unless what
\* was applied last was overtaken by the bucket before it was applied.
CopyFollowsBucket == <>[](running /\ ~late => Synced)
=============================================================================
