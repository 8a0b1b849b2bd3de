------------------------------- MODULE Watch --------------------------------
(***************************************************************************)
(* The two watchers of a worker, manager_assignment.go: the commit watcher *)
(* (monitorCommitChanges, the commit debouncer) and the alias watcher      *)
(* (monitorAssignmentChanges, latest-wins debounce), with their reconcile  *)
(* ticks, their sessions and the way each one reconnects.  What the        *)
(* handlers make of a commit or an alias is module AssignmentApply; here   *)
(* they are called and the order of the calls is what counts.              *)
(*                                                                         *)
(* A commit is known by its version, its leader and the payload hash this  *)
(* worker has in it ("none" when the worker is not listed).  The watchers  *)
(* share nothing here but the context: a behaviour has one of them.        *)
(***************************************************************************)
EXTENDS Naturals, Sequences, FiniteSets

CONSTANTS
    MaxCommits,    \* bound: commits and alias writes
    MaxTakeovers,  \* bound: leaders
    Hash,          \* payload hashes of this worker
    MaxAttempts,   \* watcherMaxAttempts
    MaxBreaks      \* bound: channel closes and failed establishes

ASSUME MaxTakeoversAssumption == MaxTakeovers \in Nat

VARIABLES
    liveCommit,  \* the live commit; NoCommit if there is none
    al,          \* the live alias: its version, 0 if none, and whether deleted
    breaks,      \* channel closes and failed establishes so far
    debounce,    \* AssignmentWatcherDebounce > 0
    ctx,         \* the manager's context is live
    sess,        \* commit watcher: "off", "live" or "done"; "none" if absent
    chan,        \* commits the open channel has still to deliver
    closed,      \* the commit channel is closed behind them
    pending,     \* commitDebouncer.pending
    timer,       \* its timer is armed
    staged,      \* own hashes staged in this session, consecutive repeats once
    sent,        \* own hashes dispatched in this session, likewise
    dispatched,  \* versions handleCommitValue has been called with
    lsr,         \* lastSeenLeaderRevision, as far as commits raise it
    fleet,       \* lastFleetVersion, lastFleetLeaderRev
    asess,       \* alias watcher: "off", "live", "dead" or "done"; "none" if absent
    atries,      \* attempts of the running envelope
    achan, aclosed, apending, atimer,
    handled   \* the highest alias version handleAssignmentEntry was called with

keys == <<liveCommit, al>>
commitVars == <<sess, chan, closed, pending, timer, staged, sent, dispatched, lsr, fleet>>
aliasVars == <<asess, atries, achan, aclosed, apending, atimer, handled>>
watchVars == <<keys, breaks, debounce, ctx, commitVars, aliasVars>>

NoCommit == [v |-> 0, lr |-> 0, h |-> "none"]
NoAlias == [v |-> 0, del |-> FALSE]
Commit == [v : 1..MaxCommits, lr : 1..MaxTakeovers, h : Hash \cup {"none"}]

WatchInit ==
    /\ liveCommit = NoCommit /\ al = NoAlias /\ breaks = 0
    /\ debounce \in BOOLEAN /\ ctx = TRUE
    /\ \/ sess = "off" /\ asess = "none"
       \/ sess = "none" /\ asess = "off"
    /\ chan = <<>> /\ closed = FALSE /\ pending = NoCommit /\ timer = FALSE
    /\ staged = <<>> /\ sent = <<>> /\ dispatched = {} /\ lsr = 0
    /\ fleet = [v |-> 0, lr |-> 0]
    /\ atries = 0 /\ achan = <<>> /\ aclosed = FALSE /\ apending = NoAlias /\ atimer = FALSE
    /\ handled = 0

-----------------------------------------------------------------------------
(* external: the keys, as the leaders write them, and the watch channels *)

\* A watch delivers what is written while it is open.
Deliver(ch, open, e) == IF open THEN Append(ch, e) ELSE ch

\* The leaders' commits form a chain (module CommitChain).
LeaderCommits ==
    /\ sess # "none" /\ liveCommit.v < MaxCommits
    /\ \E t \in liveCommit.lr..MaxTakeovers, h \in Hash \cup {"none"} :
          /\ t > 0
          /\ liveCommit' = [v |-> liveCommit.v + 1, lr |-> t, h |-> h]
    /\ chan' = Deliver(chan, sess = "live" /\ ~closed, liveCommit')
    /\ UNCHANGED <<al, breaks, debounce, ctx, sess, closed, pending, timer, staged, sent, dispatched,
                   lsr, fleet, aliasVars>>

\* The worker's alias is written, or deleted.
LeaderWritesAlias ==
    /\ asess # "none" /\ al.v < MaxCommits
    /\ \E del \in BOOLEAN :
          /\ del => al.v > 0 /\ ~al.del
          /\ al' = [v |-> IF del THEN al.v ELSE al.v + 1, del |-> del]
    /\ achan' = Deliver(achan, asess = "live" /\ ~aclosed, al')
    /\ UNCHANGED <<liveCommit, breaks, debounce, ctx, commitVars, asess, atries, aclosed, apending, atimer, handled>>

\* The client closes a channel; what the server had not yet sent is lost.
CommitChannelCloses ==
    /\ sess = "live" /\ ~closed /\ breaks < MaxBreaks /\ breaks' = breaks + 1
    /\ \E n \in 0..Len(chan) : chan' = SubSeq(chan, 1, n)
    /\ closed' = TRUE
    /\ UNCHANGED <<keys, debounce, ctx, sess, pending, timer, staged, sent, dispatched,
                   lsr, fleet, aliasVars>>

AliasChannelCloses ==
    /\ asess = "live" /\ ~aclosed /\ breaks < MaxBreaks /\ breaks' = breaks + 1
    /\ \E n \in 0..Len(achan) : achan' = SubSeq(achan, 1, n)
    /\ aclosed' = TRUE
    /\ UNCHANGED <<keys, debounce, ctx, commitVars, asess, atries, apending, atimer, handled>>

\* Manager.Stop cancels the context.
Stop ==
    /\ ctx /\ ctx' = FALSE
    /\ UNCHANGED <<keys, breaks, debounce, commitVars, aliasVars>>

-----------------------------------------------------------------------------
(* The commit watcher *)

\* A run of equal hashes counts once.
AppendRun(s, h) == IF s # <<>> /\ s[Len(s)] = h THEN s ELSE Append(s, h)

\* workerAssignmentChanged: membership or payload hash differs.
workerAssignmentChanged(prev, next) == prev.h # next.h

\* observeFleetSizeN: the stale-leader fence and the supersession fence.
ObserveFleetSize(c) ==
    fleet' = IF c.lr < lsr \/ c.v < fleet.v \/ (c.v = fleet.v /\ c.lr <= fleet.lr) THEN fleet
             ELSE [v |-> c.v, lr |-> c.lr]

\* dispatch, if there is a commit: handleCommitValue raises the leader revision
\* unless the commit is of a stale leader.
Dispatch(c) ==
    IF c = NoCommit THEN UNCHANGED <<sent, dispatched, lsr>>
    ELSE /\ sent' = AppendRun(sent, c.h)
         /\ dispatched' = dispatched \cup {c.v}
         /\ lsr' = IF c.lr > lsr THEN c.lr ELSE lsr

Drops(c) == pending # NoCommit /\ c.v < pending.v

\* Wrong variant: the pending commit is replaced whatever the new one holds.
StageLatestWins(c) ==
    IF ~debounce
    THEN Dispatch(c) /\ staged' = AppendRun(staged, c.h) /\ UNCHANGED <<pending, timer>>
    ELSE IF Drops(c)
    THEN Dispatch(NoCommit) /\ UNCHANGED <<staged, pending, timer>>
    ELSE /\ Dispatch(NoCommit)
         /\ staged' = AppendRun(staged, c.h)
         /\ pending' = c /\ timer' = TRUE

\* commitDebouncer.stage: the out-of-order guard, the flush before a commit
\* that changes this worker's payload, the timer.
Stage(c) ==
    IF ~debounce
    THEN Dispatch(c) /\ staged' = AppendRun(staged, c.h) /\ UNCHANGED <<pending, timer>>
    ELSE IF Drops(c)
    THEN Dispatch(NoCommit) /\ UNCHANGED <<staged, pending, timer>>
    ELSE /\ Dispatch(IF workerAssignmentChanged(pending, c) THEN pending ELSE NoCommit)
         /\ staged' = AppendRun(staged, c.h)
         /\ pending' = c /\ timer' = TRUE

\* commitDebouncer.flush.
Flush ==
    /\ Dispatch(pending)
    /\ pending' = NoCommit
    /\ UNCHANGED staged

\* monitorCommitChanges, watchCommit: a new session with its own debouncer; the
\* watch starts with the live commit.
CommitWatchOpens ==
    /\ sess = "off" /\ ctx
    /\ sess' = "live" /\ closed' = FALSE
    /\ chan' = IF liveCommit = NoCommit THEN <<>> ELSE <<liveCommit>>
    /\ pending' = NoCommit /\ timer' = FALSE /\ staged' = <<>> /\ sent' = <<>>
    /\ UNCHANGED <<keys, breaks, debounce, ctx, dispatched, lsr, fleet, aliasVars>>

\* kv.Watch fails: recordKVOpError, and again after a backoff, without end.
CommitWatchFails ==
    /\ sess = "off" /\ ctx /\ breaks < MaxBreaks /\ breaks' = breaks + 1
    /\ UNCHANGED <<keys, debounce, ctx, commitVars, aliasVars>>

CommitReceived ==
    /\ sess = "live" /\ chan # <<>>
    /\ LET c == Head(chan) IN
          /\ ObserveFleetSize(c)
          /\ Stage(c)
    /\ chan' = Tail(chan)
    /\ UNCHANGED <<keys, breaks, debounce, ctx, sess, closed, aliasVars>>

CommitTimerFires ==
    /\ sess = "live" /\ timer
    /\ timer' = FALSE
    /\ Flush
    /\ UNCHANGED <<keys, breaks, debounce, ctx, sess, chan, closed, fleet, aliasVars>>

\* The reconcile tick stages the commit it reads.
CommitReconciles ==
    /\ sess = "live" /\ liveCommit # NoCommit
    /\ ObserveFleetSize(liveCommit)
    /\ Stage(liveCommit)
    /\ UNCHANGED <<keys, breaks, debounce, ctx, sess, chan, closed, aliasVars>>

\* Wrong variant: a closed channel is taken for a clean exit.
CommitSessionReturns ==
    /\ sess = "live" /\ closed /\ chan = <<>> /\ ctx
    /\ Flush
    /\ sess' = "done"
    /\ UNCHANGED <<keys, breaks, debounce, ctx, chan, closed, timer, fleet, aliasVars>>

\* runWatchSession sees the closed channel: flush, and back to the outer loop.
CommitSessionEnds ==
    /\ sess = "live" /\ closed /\ chan = <<>> /\ ctx
    /\ Flush
    /\ sess' = "off"
    /\ UNCHANGED <<keys, breaks, debounce, ctx, chan, closed, timer, fleet, aliasVars>>

\* The context is cancelled: the pending commit is not flushed.
CommitWatcherStops ==
    /\ ~ctx /\ sess \in {"off", "live"}
    /\ sess' = "done"
    /\ UNCHANGED <<keys, breaks, debounce, ctx, chan, closed, pending, timer, staged, sent, dispatched,
                   lsr, fleet, aliasVars>>

-----------------------------------------------------------------------------
(* The alias watcher *)

\* handleAssignmentEntry ignores deletions.
Handle(a) == handled' = IF ~a.del /\ a.v > handled THEN a.v ELSE handled

AliasWatchOpens ==
    /\ asess = "off" /\ ctx
    /\ asess' = "live" /\ atries' = 0 /\ aclosed' = FALSE
    /\ achan' = IF al.v = 0 THEN <<>> ELSE <<al>>
    /\ apending' = NoAlias /\ atimer' = FALSE
    /\ UNCHANGED <<keys, breaks, debounce, ctx, commitVars, handled>>

\* One attempt of the envelope fails; the last one degrades the manager and
\* ends the watcher.
AliasWatchFails ==
    /\ asess = "off" /\ ctx /\ breaks < MaxBreaks /\ breaks' = breaks + 1
    /\ atries' = atries + 1
    /\ asess' = IF atries + 1 = MaxAttempts THEN "dead" ELSE "off"
    /\ UNCHANGED <<keys, debounce, ctx, commitVars, achan, aclosed, apending, atimer, handled>>

AliasReceived ==
    /\ asess = "live" /\ achan # <<>>
    /\ IF debounce
       THEN apending' = Head(achan) /\ atimer' = TRUE /\ UNCHANGED handled
       ELSE Handle(Head(achan)) /\ UNCHANGED <<apending, atimer>>
    /\ achan' = Tail(achan)
    /\ UNCHANGED <<keys, breaks, debounce, ctx, commitVars, asess, atries, aclosed>>

\* Wrong variant: the timer's entry is left to the reconcile tick, which a
\* session may never get to.
AliasTimerForgets ==
    /\ asess = "live" /\ atimer
    /\ atimer' = FALSE /\ UNCHANGED <<handled, apending>>
    /\ UNCHANGED <<keys, breaks, debounce, ctx, commitVars, asess, atries, achan, aclosed>>

AliasTimerFires ==
    /\ asess = "live" /\ atimer
    /\ atimer' = FALSE
    /\ Handle(apending) /\ apending' = NoAlias
    /\ UNCHANGED <<keys, breaks, debounce, ctx, commitVars, asess, atries, achan, aclosed>>

\* The reconcile tick reads the alias; a deleted one is not found.
AliasReconciles ==
    /\ asess = "live" /\ al.v > 0 /\ ~al.del
    /\ Handle(al)
    /\ UNCHANGED <<keys, breaks, debounce, ctx, commitVars, asess, atries, achan, aclosed, apending, atimer>>

AliasSessionEnds ==
    /\ asess = "live" /\ aclosed /\ achan = <<>> /\ ctx
    /\ Handle(apending) /\ apending' = NoAlias
    /\ asess' = "off"
    /\ UNCHANGED <<keys, breaks, debounce, ctx, commitVars, atries, achan, aclosed, atimer>>

AliasWatcherStops ==
    /\ ~ctx /\ asess \in {"off", "live"}
    /\ asess' = "done"
    /\ UNCHANGED <<keys, breaks, debounce, ctx, commitVars, atries, achan, aclosed, apending, atimer, handled>>

-----------------------------------------------------------------------------
CommitSession == CommitReceived \/ CommitTimerFires \/ CommitSessionEnds
AliasSession == AliasReceived \/ AliasTimerFires \/ AliasSessionEnds

WatchNext ==
    \/ LeaderCommits \/ LeaderWritesAlias \/ CommitChannelCloses \/ AliasChannelCloses \/ Stop
    \/ CommitWatchOpens \/ CommitWatchFails \/ CommitSession \/ CommitReconciles \/ CommitWatcherStops
    \/ AliasWatchOpens \/ AliasWatchFails \/ AliasSession \/ AliasReconciles \/ AliasWatcherStops

WatchSpec == WatchInit /\ [][WatchNext]_watchVars

\* The goroutines run: a session takes what its select offers and a watcher
\* reconnects.  Nothing is assumed of the reconcile ticks.
WatchFairness ==
    /\ WF_watchVars(CommitWatchOpens) /\ WF_watchVars(CommitReceived) /\ WF_watchVars(CommitTimerFires)
    /\ WF_watchVars(CommitSessionEnds)
    /\ WF_watchVars(AliasWatchOpens) /\ WF_watchVars(AliasReceived) /\ WF_watchVars(AliasTimerFires)
    /\ WF_watchVars(AliasSessionEnds)

FairWatchSpec == WatchSpec /\ WatchFairness

-----------------------------------------------------------------------------
(* Properties *)

\* commitDebouncer.stage, flush: what a session dispatches is what it staged
\* with consecutive commits of one payload merged, the pending one still to
\* come: no burst merges away a change of this worker's partitions.
BurstKeepsShuffles ==
    sess = "live" => staged = IF pending = NoCommit THEN sent ELSE AppendRun(sent, pending.h)

EntryIsFinal == ctx /\ (liveCommit.v = MaxCommits \/ (al.v = MaxCommits /\ ~al.del))

EntryIsHandled ==
    \/ ~ctx
    \/ liveCommit.v = MaxCommits /\ liveCommit.v \in dispatched /\ fleet.v = liveCommit.v
    \/ al.v = MaxCommits /\ (asess = "dead" \/ al.del \/ handled = al.v)

\* monitorCommitChanges, runWatchSession, monitorAssignmentChanges: through
\* closed channels, failed watches and debouncing, and without a single
\* reconcile tick, the commit that stays live reaches handleCommitValue, and
\* the fleet size follows it; the alias that stays live reaches
\* handleAssignmentEntry, unless its watch could not be established and the
\* watcher gave up.
LiveEntryHandled == <>[](EntryIsFinal => EntryIsHandled)

=============================================================================
