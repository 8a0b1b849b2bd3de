---------------------------- MODULE ClaimResolver ---------------------------
(***************************************************************************)
(* A worker's view of one partition's claim: internal/durable              *)
(* claim_resolver.go (the cache with its watcher, supervisor, reconciler   *)
(* and forced refresh) and processing_gate.go (the handler that admits a   *)
(* message on that view), against a claims bucket that others write.       *)
(*                                                                         *)
(* A claim's value is what the gate tells apart: "mine" (owned here and    *)
(* in an allowed state) or "theirs".  The two cooldowns, of forced         *)
(* refreshes and of drift restarts, are a choice where they are tested.    *)
(***************************************************************************)
EXTENDS Naturals, Sequences

CONSTANTS
    MaxSeq,               \* bound: writes of the claim
    gateMaxSkips,
    watcherMaxAttempts,
    MaxStalls             \* bound: stalls, closes and failures

VARIABLES
    hist,         \* the bucket's stream: what each of its sequences wrote
    claimCache,   \* the key's cache entry
    watch,        \* the watcher
    queue,        \* revisions that the watcher has still to deliver
    attempts,     \* failed re-establishments in a row
    scan,         \* the reconciler's pass
    latch,        \* gateLatch and gateLatchValid
    gateSkips,    \* gateSkipsSinceFull
    msg,          \* the message in the gate, and the last verdict
    stalls

watching == <<watch, queue, attempts>>
recon == <<scan, latch, gateSkips>>
resolverVars == <<hist, claimCache, watching, recon, msg, stalls>>

Value == {"mine", "theirs"}
Absent == [rev |-> 0, val |-> "unknown", deleted |-> FALSE]
NoScan ==
    [at |-> "off", pos |-> 0, ok |-> FALSE, snap |-> Absent, listed |-> FALSE, pend |-> Absent, clean |-> TRUE]
NoMsg == [at |-> "none", rev |-> 0]
NoLatch == [valid |-> FALSE, pos |-> 0]

\* The key's last revision, 0 if it was never written.
lastSeq == Len(hist)
Present == lastSeq # 0 /\ hist[lastSeq] # "deleted"
Entry(rev) ==
    [rev |-> rev, val |-> IF hist[rev] = "deleted" THEN "unknown" ELSE hist[rev], deleted |-> hist[rev] = "deleted"]

\* warm reads the key and WatchAll, called next, replays its last revision.
ResolverInit ==
    /\ hist \in {<<>>, <<"mine">>}
    /\ claimCache = IF lastSeq = 0 THEN Absent ELSE Entry(lastSeq)
    /\ watch = "live" /\ queue = IF lastSeq = 0 THEN <<>> ELSE <<lastSeq>>
    /\ attempts = 0
    /\ scan = NoScan /\ latch = NoLatch /\ gateSkips = 0
    /\ msg = NoMsg /\ stalls = 0

Stall == stalls < MaxStalls /\ stalls' = stalls + 1

-----------------------------------------------------------------------------
(* external: the claims bucket *)

\* The claim is written or deleted.
BucketChanges ==
    /\ lastSeq < MaxSeq
    /\ \E v \in Value \cup {"deleted"} :
         /\ v = "deleted" => Present
         /\ hist' = Append(hist, v)
    /\ queue' = IF watch = "live" THEN Append(queue, lastSeq + 1) ELSE queue
    /\ UNCHANGED <<claimCache, watch, attempts, recon, msg, stalls>>

\* The subscription dies without the channel closing, or the channel closes.
WatcherStalls ==
    /\ Stall /\ watch = "live" /\ watch' = "stalled" /\ queue' = <<>>
    /\ UNCHANGED <<hist, claimCache, attempts, recon, msg>>

WatcherCloses ==
    /\ Stall /\ watch = "live" /\ watch' = "closed" /\ queue' = <<>>
    /\ UNCHANGED <<hist, claimCache, attempts, recon, msg>>

-----------------------------------------------------------------------------
(* The cache *)

\* Wrong variant: the last to arrive wins.
AppliedLast(e) == e

\* applyPendingBatch and ForceRefreshPartition: an entry at the same or a
\* newer revision stays.
Applied(e) == IF claimCache.rev >= e.rev THEN claimCache ELSE e

\* processWatcher: the updates of a batch, of which the last one wins, are
\* applied on the timer, at its size, or when the channel closes.
Delivers ==
    /\ watch = "live"
    /\ \E n \in 1..Len(queue) :
         claimCache' = Applied(Entry(queue[n])) /\ queue' = SubSeq(queue, n + 1, Len(queue))
    /\ UNCHANGED <<hist, watch, attempts, recon, msg, stalls>>

\* supervise: restartWatcherWithEnvelope after a close.
WatcherRestarts ==
    /\ watch = "closed"
    /\ \/ /\ watch' = "live" /\ attempts' = 0 /\ UNCHANGED stalls
          /\ queue' = IF lastSeq = 0 THEN <<>> ELSE <<lastSeq>>
       \/ /\ Stall /\ attempts' = attempts + 1 /\ UNCHANGED queue
          /\ watch' = IF attempts + 1 = watcherMaxAttempts THEN "given up" ELSE watch
    /\ UNCHANGED <<hist, claimCache, recon, msg>>

-----------------------------------------------------------------------------
(* The reconciler *)

\* reconcileOnce: the first probe, which may fail.  A full pass goes on to
\* reconcileScan, whose snapshot of the cache is taken before the listing.
Probe ==
    /\ scan.at = "off"
    /\ \/ /\ LET skip == latch.valid /\ latch.pos = lastSeq /\ gateSkips < gateMaxSkips
             IN scan' = [NoScan EXCEPT !.at = IF skip THEN "confirm" ELSE "list",
                                       !.pos = lastSeq, !.ok = TRUE, !.snap = claimCache]
          /\ UNCHANGED <<latch, stalls>>
       \/ Stall /\ latch' = NoLatch /\ scan' = [NoScan EXCEPT !.at = "list", !.snap = claimCache]
    /\ UNCHANGED <<hist, claimCache, watching, gateSkips, msg>>

\* The second probe: the pass is skipped, or is a full one after all.
Confirm ==
    /\ scan.at = "confirm"
    /\ IF latch.pos = lastSeq
       THEN gateSkips' = gateSkips + 1 /\ scan' = NoScan
       ELSE scan' = [scan EXCEPT !.at = "list", !.pos = lastSeq, !.snap = claimCache] /\ UNCHANGED gateSkips
    /\ UNCHANGED <<hist, claimCache, watching, latch, msg, stalls>>

ScanEnds(clean) ==
    /\ latch' = (IF scan.ok /\ clean THEN [valid |-> TRUE, pos |-> scan.pos] ELSE NoLatch)
    /\ gateSkips' = 0 /\ scan' = NoScan

ScanLists ==
    /\ scan.at = "list"
    /\ \/ scan' = [scan EXCEPT !.at = "get", !.listed = Present] /\ UNCHANGED <<latch, gateSkips, stalls>>
       \/ Stall /\ ScanEnds(FALSE)
    /\ UNCHANGED <<hist, claimCache, watching, msg>>

\* Wrong variant: a key that the listing lacks is never taken for deleted.
VerdictNoTombstones(readable) ==
    IF scan.listed /\ readable /\ Present /\ scan.snap.rev < lastSeq THEN Entry(lastSeq) ELSE Absent

\* Wrong variant: a listed key that could not be read is taken for deleted.
VerdictUnread(readable) ==
    CASE scan.listed /\ readable /\ Present -> IF scan.snap.rev >= lastSeq THEN Absent ELSE Entry(lastSeq)
      [] scan.snap.rev # 0 /\ ~scan.snap.deleted /\ (scan.listed => ~readable) ->
           [rev |-> scan.snap.rev + 1, val |-> "unknown", deleted |-> TRUE]
      [] OTHER -> Absent

\* What a scan finds for the key: a newer claim, a tombstone at the revision
\* after the snapshot's for one that is gone, or nothing.
Verdict(readable) ==
    CASE scan.listed /\ readable /\ Present -> IF scan.snap.rev >= lastSeq THEN Absent ELSE Entry(lastSeq)
      [] scan.listed /\ ~readable -> Absent
      [] ~scan.listed /\ scan.snap.rev # 0 /\ ~scan.snap.deleted ->
           [rev |-> scan.snap.rev + 1, val |-> "unknown", deleted |-> TRUE]
      [] OTHER -> Absent

\* A key that was deleted since it was listed reads as an error.
ScanGets ==
    /\ scan.at = "get"
    /\ \E readable \in BOOLEAN :
         /\ readable => Present
         /\ IF scan.listed /\ Present /\ ~readable THEN Stall ELSE UNCHANGED stalls
         /\ LET clean == readable \/ ~scan.listed
            IN IF Verdict(readable) = Absent THEN ScanEnds(clean)
               ELSE /\ scan' = [scan EXCEPT !.at = "apply", !.pend = Verdict(readable), !.clean = clean]
                    /\ UNCHANGED <<latch, gateSkips>>
    /\ UNCHANGED <<hist, claimCache, watching, msg>>

\* The rescue is applied, and requestWatcherRestartFromReconcile stops the
\* watcher unless the cooldown runs.
Rescues ==
    /\ scan.at = "apply"
    /\ claimCache' = Applied(scan.pend)
    /\ ScanEnds(scan.clean)
    /\ \/ UNCHANGED <<watch, queue>>
       \/ /\ watch \in {"live", "stalled"}
          /\ watch' = "closed" /\ queue' = <<>>
    /\ UNCHANGED <<hist, attempts, msg, stalls>>

-----------------------------------------------------------------------------
(* The processing gate *)

Known == claimCache.rev # 0 /\ ~claimCache.deleted

Admission ==
    IF Known /\ claimCache.val = "mine"
    THEN [at |-> "admitted", rev |-> claimCache.rev] ELSE [at |-> "nakked", rev |-> 0]

\* Wrap: the message is admitted or nakked, or, its owner unknown, held for a
\* forced refresh, which the cooldown may turn into nothing.
MessageArrives ==
    /\ msg.at \in {"none", "admitted", "nakked"}
    /\ \/ Known /\ msg' = Admission
       \/ ~Known /\ \E at \in {"get", "again"} : msg' = [at |-> at, rev |-> 0]
    /\ UNCHANGED <<hist, claimCache, watching, recon, stalls>>

\* ForceRefreshPartition: the read, which fails if the claim is gone, and the
\* application under the lock.
ForceRefreshReads ==
    /\ msg.at = "get"
    /\ \/ Present /\ msg' = [at |-> "apply", rev |-> lastSeq]
       \/ msg' = [at |-> "again", rev |-> 0]
    /\ UNCHANGED <<hist, claimCache, watching, recon, stalls>>

ForceRefreshApplies ==
    /\ msg.at = "apply"
    /\ claimCache' = Applied(Entry(msg.rev)) /\ msg' = [at |-> "again", rev |-> 0]
    /\ UNCHANGED <<hist, watching, recon, stalls>>

DecidesAgain ==
    /\ msg.at = "again" /\ msg' = Admission
    /\ UNCHANGED <<hist, claimCache, watching, recon, stalls>>

-----------------------------------------------------------------------------
Reconciler == Probe \/ Confirm \/ ScanLists \/ ScanGets \/ Rescues
ProcessingGate == MessageArrives \/ ForceRefreshReads \/ ForceRefreshApplies \/ DecidesAgain

ResolverNext ==
    \/ BucketChanges \/ WatcherStalls \/ WatcherCloses
    \/ Delivers \/ WatcherRestarts \/ Reconciler \/ ProcessingGate

\* The reconciler's ticker fires and its passes go on; nothing is assumed of
\* the watcher.
ResolverFairness == WF_resolverVars(Reconciler)

ResolverSpec == ResolverInit /\ [][ResolverNext]_resolverVars
FairResolverSpec == ResolverSpec /\ ResolverFairness

-----------------------------------------------------------------------------
(* Properties *)

Shows == IF Present THEN Known /\ claimCache.val = hist[lastSeq] ELSE ~Known

\* The view is of the stream: it is at no revision that the stream has yet to
\* reach, where the next write would be taken for an old one, and what it shows
\* of the owner was written there.
ViewIsOfStream == claimCache.rev <= lastSeq /\ (Known => claimCache.val = hist[claimCache.rev])

\* The last message was admitted on a claim of this worker that was written.
AdmissionIsEarned == msg.at = "admitted" => hist[msg.rev] = "mine"

\* applyPendingBatch, ForceRefreshPartition: the view is of the stream, although
\* reconcileScan makes up the revision of a tombstone, and messages are admitted
\* on nothing else; it never goes back to an older revision, whichever of
\* watcher, scan and message gate applies; and once the bucket rests it comes to
\* show it, with the watcher stalled, closed or given up and with scans skipped
\* on the gate.
CacheFollowsBucket ==
    /\ [](ViewIsOfStream /\ AdmissionIsEarned)
    /\ [][claimCache'.rev >= claimCache.rev]_resolverVars
    /\ <>[]Shows

=============================================================================
