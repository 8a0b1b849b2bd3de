----------------------------- MODULE ClaimSweep -----------------------------
(***************************************************************************)
(* The claim sweep of one worker: internal/assignment/handoff/twophase.go, *)
(* Start to sweepReconcile.  The ticker with the follower backstop, the    *)
(* single-flight pass with its scan gate, the reconcile of a claim and the *)
(* reaper of orphans with its generation fence, against the other workers' *)
(* writes of one claim, the only one of its bucket, and against changes of *)
(* leadership.                                                             *)
(*                                                                         *)
(* unvouchedGen is only ever compared with a snapshot of it, so a snapshot *)
(* is a flag, fresh, that each advance clears.  Time is three events: the  *)
(* TTL of a claim, OrphanGrace, and the sweep interval after an            *)
(* Apply-origin pass.                                                      *)
(***************************************************************************)
EXTENDS Naturals

CONSTANTS
    BackstopEvery,  \* backstopEveryFor of the interval
    MaxSkips,       \* sweepMaxSkips
    MaxWrites,      \* bound: writes of the other workers
    MaxLosses       \* bound: failures and changes of leadership and of the live set

VARIABLES
    entry,     \* the claim: its state and epoch
    position,  \* the position of the bucket's stream
    overdue,   \* the claim's TTL has elapsed
    late,      \* the revision of a delete that is still under way, or 0
    live,      \* the partition is in the source or in the live commit
    leader,    \* the worker believes it leads
    tick,      \* the ticker, modulo BackstopEvery
    due,       \* backstopDue
    recent,    \* an Apply-origin pass began within the sweep interval
    pass,      \* the pass that holds sweepMu
    clock,     \* orphanAbsentSince of the partition
    cache,     \* sweepCache, sweepCachePos, sweepCacheValid
    skips,     \* sweepSkipsSinceFull
    gap,       \* absence is not vouched for without a break since the clock began
    writes,
    losses

bucket == <<entry, position, overdue, late>>
ticker == <<tick, due, recent>>
bounds == <<writes, losses>>
sweepVars == <<bucket, live, leader, ticker, pass, clock, cache, skips, gap, bounds>>

NoEntry == [state |-> "none", epoch |-> 0]
NoClock == [on |-> FALSE, ripe |-> FALSE, fresh |-> FALSE]
NoCache == [valid |-> FALSE, pos |-> 0, claim |-> NoEntry]
PassOff == [at |-> "off", origin |-> "none", gated |-> FALSE, cached |-> FALSE, latch |-> 0, vouched |-> FALSE, live |-> FALSE,
           fresh |-> FALSE, seen |-> NoEntry, epoch |-> 0, new |-> NoEntry, rev |-> 0]

\* The worker may start in the middle of another worker's handoff.
SweepInit ==
    /\ entry \in {NoEntry, [state |-> "prepare", epoch |-> 2], [state |-> "commit", epoch |-> 3]}
    /\ position = entry.epoch
    /\ overdue = FALSE /\ late = 0 /\ live = TRUE /\ leader \in BOOLEAN
    /\ tick = 0 /\ due = FALSE /\ recent = FALSE
    /\ pass = PassOff /\ clock = NoClock /\ cache = NoCache /\ skips = 0
    /\ gap = TRUE /\ writes = 0 /\ losses = 0

Loses == losses < MaxLosses /\ losses' = losses + 1

Put(c) == entry' = c /\ position' = position + 1 /\ overdue' = FALSE

-----------------------------------------------------------------------------
(* external: the other workers, the source and the commit, the election, time *)

OthersWrite ==
    /\ writes < MaxWrites /\ writes' = writes + 1
    /\ \/ entry.state = "none" /\ Put([state |-> "stable", epoch |-> 1])
       \/ entry.state # "none" /\ Put([state |-> "prepare", epoch |-> entry.epoch + 1])
       \/ entry.state = "prepare" /\ Put([state |-> "commit", epoch |-> entry.epoch + 1])
       \/ entry.state = "commit" /\ Put([state |-> "stable", epoch |-> entry.epoch + 1])
       \/ entry.state \in {"prepare", "commit"} /\ overdue /\ Put([entry EXCEPT !.state = "stable"])
       \/ entry.state = "stable" /\ ~live /\ Put(NoEntry)
    /\ UNCHANGED <<late, live, leader, ticker, pass, clock, cache, skips, gap, losses>>

LiveChanges ==
    /\ Loses /\ live' = ~live
    /\ UNCHANGED <<bucket, leader, ticker, pass, clock, cache, skips, gap, writes>>

LeaderChanges ==
    /\ Loses /\ leader' = ~leader
    /\ UNCHANGED <<bucket, live, ticker, pass, clock, cache, skips, gap, writes>>

TTLElapses ==
    /\ entry.state \in {"prepare", "commit"} /\ ~overdue /\ overdue' = TRUE
    /\ UNCHANGED <<entry, position, late, live, leader, ticker, pass, clock, cache, skips, gap, bounds>>

\* A pass measures the grace at its start.
GraceEnds ==
    /\ clock.on /\ ~clock.ripe /\ pass.at = "off" /\ clock' = [clock EXCEPT !.ripe = TRUE]
    /\ UNCHANGED <<bucket, live, leader, ticker, pass, cache, skips, gap, bounds>>

\* The server applies a delete whose caller has given up.
LateDelete ==
    /\ late # 0 /\ late' = 0
    /\ IF position = late THEN Put(NoEntry) ELSE UNCHANGED <<entry, position, overdue>>
    /\ UNCHANGED <<live, leader, ticker, pass, clock, cache, skips, gap, bounds>>

-----------------------------------------------------------------------------
(* The ticker *)

\* Wrong variant: a worker that does not lead makes no attempt.
AttemptsOnlyAsLeader == leader

\* A worker that leads sweeps on every tick, another on its backstop ticks
\* and after one that was not admitted.
Attempts == leader \/ (tick + 1) % BackstopEvery = 0 \/ due

\* sampleAuthority: a false sample advances unvouchedGen.
SampleAuthority ==
    /\ tick' = (tick + 1) % BackstopEvery
    /\ clock' = [clock EXCEPT !.fresh = @ /\ leader]
    /\ gap' = (gap \/ ~leader)

\* maybeSweepClaims up to the pass: the first probe decides between a full
\* pass, which latches what was probed, and the confirmation of a cached one.
Probes ==
    \/ /\ pass' = [PassOff EXCEPT !.at = IF cache.valid /\ cache.pos = position /\ skips < MaxSkips THEN "confirm" ELSE "list",
                                 !.origin = "ticker", !.gated = TRUE, !.latch = position]
       /\ UNCHANGED <<cache, losses>>
    \/ \* the probe fails: the pass is full and latches nothing
       /\ Loses /\ cache' = NoCache
       /\ pass' = [PassOff EXCEPT !.at = "list", !.origin = "ticker"]

Tick ==
    /\ pass.at = "off"
    /\ SampleAuthority
    /\ IF ~Attempts THEN UNCHANGED <<due, recent, pass, cache, losses>>
       ELSE \/ recent /\ due' = ~leader /\ recent' = FALSE /\ UNCHANGED <<pass, cache, losses>>
            \/ due' = FALSE /\ recent' = FALSE /\ Probes
    /\ UNCHANGED <<bucket, live, leader, skips, writes>>

\* A tick while an Apply-origin pass holds sweepMu is not admitted.  A delete
\* holds authMu, and the sample waits for it.
TickRefused ==
    /\ pass.origin = "apply" /\ pass.at # "delete"
    /\ SampleAuthority
    /\ due' = (due \/ (Attempts /\ ~leader))
    /\ pass' = [pass EXCEPT !.fresh = @ /\ leader]
    /\ UNCHANGED <<bucket, live, leader, recent, cache, skips, bounds>>

\* The opportunistic sweep of Apply, which is never gated.
ApplySweeps ==
    /\ pass.at = "off" /\ ~recent /\ recent' = TRUE
    /\ pass' = [PassOff EXCEPT !.at = "list", !.origin = "apply"]
    /\ UNCHANGED <<bucket, live, leader, tick, due, clock, cache, skips, gap, bounds>>

\* The second probe, after sweepConfirmGap.
Confirms ==
    /\ pass.at = "confirm"
    /\ \/ /\ cache.pos = position
          /\ pass' = IF cache.claim = NoEntry THEN PassOff ELSE [pass EXCEPT !.at = "vouch", !.gated = FALSE, !.cached = TRUE]
          /\ skips' = skips + 1 /\ UNCHANGED <<cache, losses>>
       \/ cache.pos # position /\ pass' = [pass EXCEPT !.at = "list", !.latch = position] /\ UNCHANGED <<cache, losses, skips>>
       \/ Loses /\ cache' = NoCache /\ pass' = [pass EXCEPT !.at = "list", !.gated = FALSE] /\ UNCHANGED skips
    /\ UNCHANGED <<bucket, live, leader, ticker, clock, gap, writes>>

-----------------------------------------------------------------------------
(* The pass *)

\* latchCache at the position probed before the pass.
latchCache(c) == cache' = IF pass.gated THEN [valid |-> TRUE, pos |-> pass.latch, claim |-> c] ELSE cache

PassEnds == pass' = PassOff /\ skips' = IF pass.origin = "ticker" /\ ~pass.cached THEN 0 ELSE skips

\* The end of a pass that read c, or of a cached one.
CleanEnds(c) == PassEnds /\ latchCache(c)

\* ListKeys of a full pass; it fails, or there is no claim.
Lists ==
    /\ pass.at = "list"
    /\ \/ entry = NoEntry /\ CleanEnds(NoEntry) /\ UNCHANGED losses
       \/ entry # NoEntry /\ pass' = [pass EXCEPT !.at = "fullvouch"] /\ UNCHANGED <<cache, skips, losses>>
       \/ Loses /\ PassEnds /\ cache' = IF pass.gated THEN NoCache ELSE cache
    /\ UNCHANGED <<bucket, live, leader, ticker, clock, gap, writes>>

\* The clocks after resolveLiveSet.
Resolved(ok) == IF ok /\ ~live THEN clock ELSE NoClock

\* resolveLiveSet: livePartitionSet vouches only on a leader that can read
\* the source and the commit.
Vouches ==
    /\ pass.at \in {"vouch", "fullvouch"}
    /\ \E ok \in BOOLEAN :
         /\ ok => leader
         /\ IF ok = leader THEN UNCHANGED losses ELSE Loses
         /\ clock' = Resolved(ok)
         /\ gap' = (~ok \/ live \/ (gap /\ clock'.on))
         /\ pass' = [pass EXCEPT !.at = IF @ = "vouch" THEN "cached" ELSE "get",
                                 !.vouched = ok, !.live = live, !.fresh = ok]
    /\ UNCHANGED <<bucket, live, leader, ticker, cache, skips, writes>>

sweepReconcile(c) ==
    CASE c.state = "commit" -> [state |-> "stable", epoch |-> c.epoch + 1]
      [] c.state = "prepare" /\ overdue -> [c EXCEPT !.state = "stable"]
      [] OTHER -> c

\* maybeReapOrphan up to the delete: what becomes of the clock, and whether
\* the delete is issued.
OrphanClock(c) ==
    IF ~pass.vouched \/ c.state # "stable" THEN clock
    ELSE IF pass.live \/ (clock.on /\ clock.ripe /\ ~clock.fresh) THEN NoClock
    ELSE IF ~clock.on THEN [on |-> TRUE, ripe |-> FALSE, fresh |-> pass.fresh]
    ELSE clock
\* Wrong variant: the generation is not compared.
ReapableUnfenced(c) == pass.vouched /\ ~pass.live /\ c.state = "stable" /\ clock.on /\ clock.ripe

Reapable(c) == pass.vouched /\ ~pass.live /\ c.state = "stable" /\ clock.on /\ clock.ripe /\ clock.fresh

\* sweepClaim of the claim seen at revision rev.  A reconcile decides again
\* on a fresh read.
Sweeps(seen, rev) ==
    IF sweepReconcile(seen) # seen
    THEN /\ IF sweepReconcile(entry) # entry
            THEN /\ pass' = [pass EXCEPT !.at = "write", !.seen = seen, !.epoch = entry.epoch, !.new = sweepReconcile(entry)]
                 /\ UNCHANGED <<cache, skips>>
            ELSE CleanEnds(seen)
         /\ UNCHANGED clock
    ELSE IF Reapable(seen)
    THEN pass' = [pass EXCEPT !.at = "delete", !.seen = seen, !.rev = rev] /\ UNCHANGED <<clock, cache, skips>>
    ELSE clock' = OrphanClock(seen) /\ CleanEnds(seen)

\* A full pass reads the claim, which may fail or find it gone.
Gets ==
    /\ pass.at = "get"
    /\ \/ entry # NoEntry /\ Sweeps(entry, position) /\ UNCHANGED losses
       \/ entry = NoEntry /\ CleanEnds(NoEntry) /\ UNCHANGED <<clock, losses>>
       \/ Loses /\ PassEnds /\ cache' = (IF pass.gated THEN NoCache ELSE cache) /\ UNCHANGED clock
    /\ UNCHANGED <<bucket, live, leader, ticker, gap, writes>>

\* sweepCachedPass.
Cached ==
    /\ pass.at = "cached"
    /\ Sweeps(cache.claim, cache.pos)
    /\ UNCHANGED <<bucket, live, leader, ticker, gap, bounds>>

\* updateClaim's PutIfEpoch; a conflict is decided again on the next pass.
Reconciles ==
    /\ pass.at = "write"
    /\ \/ entry.epoch = pass.epoch /\ Put(pass.new)
       \/ entry.epoch # pass.epoch /\ UNCHANGED <<entry, position, overdue>>
    /\ CleanEnds(pass.seen)
    /\ UNCHANGED <<late, live, leader, ticker, clock, gap, bounds>>

\* The conditioned delete: applied, refused, or ambiguous, which advances
\* unvouchedGen.
Deletes ==
    /\ pass.at = "delete"
    /\ \/ position = pass.rev /\ Put(NoEntry) /\ clock' = NoClock /\ UNCHANGED <<late, gap, losses>>
       \/ position # pass.rev /\ UNCHANGED <<bucket, clock, gap, losses>>
       \/ Loses /\ late' = pass.rev /\ clock' = [clock EXCEPT !.fresh = FALSE] /\ gap' = TRUE /\ UNCHANGED <<entry, position, overdue>>
    /\ CleanEnds(pass.seen)
    /\ UNCHANGED <<live, leader, ticker, writes>>

Pass == Confirms \/ Lists \/ Vouches \/ Gets \/ Cached \/ Reconciles \/ Deletes

-----------------------------------------------------------------------------
SweepNext ==
    \/ OthersWrite \/ LiveChanges \/ LeaderChanges \/ TTLElapses \/ GraceEnds \/ LateDelete
    \/ Tick \/ TickRefused \/ ApplySweeps \/ Pass

\* The ticker ticks and a pass that began goes on.
SweepFairness == WF_sweepVars(Tick) /\ WF_sweepVars(Pass)

SweepSpec == SweepInit /\ [][SweepNext]_sweepVars /\ SweepFairness

-----------------------------------------------------------------------------
(* Properties *)

\* A claim is deleted as an orphan only at the end of a window in which every
\* vouch of this worker said that the partition is gone, and in which it saw
\* itself without authority, could not vouch, or lost the answer of a delete
\* at no time (the fence of maybeReapOrphan, the clears of resolveLiveSet).
ReapIsVouched == pass.at = "delete" => ~gap /\ pass.vouched /\ ~pass.live

Healed == entry.state # "commit" /\ ~(entry.state = "prepare" /\ overdue)

\* When the workers stop writing, no claim stays in commit, and none in prepare
\* past its TTL: a sweep finishes it, whether or not this worker leads and
\* however many passes are answered from the cache.
SweepHeals == <>[]Healed

=============================================================================
