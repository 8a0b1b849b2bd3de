-------------------------- MODULE AssignmentApply ---------------------------
(***************************************************************************)
(* How one worker applies assignments: manager_assignment.go (the alias    *)
(* and commit watchers, the apply pipeline, the two retry loops),          *)
(* applyInitialAssignment in manager.go, the refresh of degraded recovery. *)
(*                                                                         *)
(* Six goroutines meet: startup, the two watchers, the apply-retry and     *)
(* fetch-retry loops, recovery.  applyStoreMu serialises the pipeline; the *)
(* other fields are atomics.  An action is the code between two points at  *)
(* which another goroutine can interfere.  Only the commit watcher calls   *)
(* handleCommitValue, so pendingApplyInFlight is never found set and       *)
(* stashedCommit stays empty; neither is a variable.  The debounce windows *)
(* are 0, their default, and labels match.  An assignment is known by its  *)
(* version, its leader revision and whether its source revision is known,  *)
(* which tells a commit from an alias; partitions are left out.            *)
(***************************************************************************)
EXTENDS Naturals

CONSTANTS
    MaxVer,     \* bound: versions
    MaxTerm,    \* bound: leadership terms
    MaxEvents,  \* bound: new leaders, commits and alias writes together
    MaxRefresh  \* bound: recoveries that get as far as the refresh

VARIABLES
    term,     \* the last leader's LeaderRevision
    base,     \* term -> the version that was live when its leader was deposed
    com,      \* the live commit; Zero if there is none
    old,      \* superseded commits the watch may still deliver
    alias,    \* the worker's legacy alias; Zero if there is none
    events,   \* new leaders, commits and alias writes so far
    assignment, committedAssignment, lastSeenLeaderRevision,
    highestAcceptedTarget,
    lastObservedCommit, lastSeenAlias,  \* their leader revisions; 0 if nil
    stashedApplyRetry, stashedFetchRetry,
    pc,       \* where each goroutine is
    cand,     \* the target each goroutine has in hand
    stable,   \* startup is complete
    hand,     \* the last target handed to the handoff coordinator
    refused,  \* the newest alias that raised the fence and was then denied the authority
    refreshes \* refreshes so far

leaderVars == <<term, base, com, old, alias, events>>
seen == <<lastObservedCommit, lastSeenAlias>>
applied == <<assignment, committedAssignment, lastSeenLeaderRevision>>
stashes == <<stashedApplyRetry, stashedFetchRetry>>
where == <<pc, cand>>
aux == <<hand, refused, refreshes>>
vars == <<leaderVars, seen, applied, highestAcceptedTarget, stashes, where, stable, aux>>

Term == 1..MaxTerm
Zero == [v |-> 0, lr |-> 0, src |-> FALSE]
Loop == {"apply", "fetch"}
Watcher == {"alias", "commit"}
Go == {"boot", "recover"} \cup Loop \cup Watcher

Init ==
    /\ term = 0 /\ base = [t \in Term |-> 0]
    /\ com = Zero /\ old = {} /\ alias = Zero /\ events = 0
    /\ assignment = Zero /\ committedAssignment = Zero /\ lastSeenLeaderRevision = 0
    /\ highestAcceptedTarget = Zero
    /\ lastObservedCommit = 0 /\ lastSeenAlias = 0
    /\ stashedApplyRetry = Zero /\ stashedFetchRetry = Zero
    /\ pc = [g \in Go |-> IF g = "boot" THEN "wait" ELSE "off"]
    /\ cand = [g \in Go |-> Zero]
    /\ stable = FALSE /\ hand = Zero /\ refused = Zero /\ refreshes = 0

Higher(a, b) == IF a > b THEN a ELSE b

\* Goroutine g goes on at l with target a in hand.
Step(g, l, a) == pc' = [pc EXCEPT ![g] = l] /\ cand' = [cand EXCEPT ![g] = a]

\* applyStoreMu is not held.
Free == \A g \in Go : pc[g] \notin {"handoff", "ack"}

-----------------------------------------------------------------------------
(* The orders *)

\* isApplyResultStale.
isApplyResultStale(c, cur) ==
    \/ c.v < cur.v
    \/ c.v # 0 /\ c.v = cur.v /\ c.lr < cur.lr

\* assignmentSupersedesForStash and commitSupersedesForStash.
SupersedesForStash(c, cur) ==
    \/ c.v > cur.v
    \/ c.v = cur.v /\ c.lr > cur.lr
    \/ c.v = cur.v /\ c.lr = cur.lr /\ c # cur

\* raiseAcceptedTarget.
Raised(a) ==
    IF isApplyResultStale(highestAcceptedTarget, a) THEN [a EXCEPT !.src = FALSE]
    ELSE highestAcceptedTarget

\* selectAuthority on the leader revisions of commit and alias.  Callers have
\* already held the alias against lastSeenLeaderRevision.
selectAuthority(c, a) ==
    IF c # 0 /\ (a = 0 \/ c >= a) THEN "commit"
    ELSE IF a # 0 /\ (c = 0 \/ a > c) THEN "alias" ELSE "none"

\* A stash keeps the newer target.
Stash(cur, c) == IF cur # Zero /\ ~SupersedesForStash(c, cur) THEN cur ELSE c

-----------------------------------------------------------------------------
(* external: what the leaders publish (modules Publisher and CommitChain) *)

NewLeader ==
    /\ term < MaxTerm /\ term' = term + 1
    /\ base' = [t \in Term |-> IF t = term THEN com.v ELSE base[t]]
    /\ UNCHANGED <<com, old, alias>>

\* A leader that passed checkLeadership finishes the batch it is in after it
\* was deposed, if no other commit was written meanwhile.
MayPublish(t) == com.v < MaxVer /\ com.lr <= t /\ (t = term \/ (t < term /\ base[t] = com.v))

\* The alias barrier, before the commit that may never follow.
BarrierWritesAlias(t) ==
    /\ MayPublish(t)
    /\ alias' = [v |-> com.v + 1, lr |-> t, src |-> FALSE]
    /\ UNCHANGED <<term, base, com, old>>

Commits(t) ==
    /\ MayPublish(t)
    /\ com' = [v |-> com.v + 1, lr |-> t, src |-> TRUE]
    /\ old' = old \cup ({com} \ {Zero})
    /\ UNCHANGED <<term, base, alias>>

\* The best-effort alias after the commit.
CommitWritesAlias ==
    /\ com # Zero
    /\ alias' = [com EXCEPT !.src = FALSE]
    /\ UNCHANGED <<term, base, com, old>>

Leaders ==
    /\ events < MaxEvents /\ events' = events + 1
    /\ NewLeader \/ CommitWritesAlias \/ \E t \in Term : BarrierWritesAlias(t) \/ Commits(t)
    /\ UNCHANGED <<seen, applied, highestAcceptedTarget, stashes, where, stable, aux>>

-----------------------------------------------------------------------------
(* The apply pipeline: applyAssignmentWithPrevCore *)

\* Where goroutine g goes on once the pipeline has returned.
Return(g, err) ==
    Step(g, CASE g = "boot" -> IF err THEN "failed" ELSE "applied"
              [] g \in Loop -> "wait"
              [] OTHER -> "idle",
         IF g = "boot" THEN cand[g] ELSE Zero)

\* Wrong variant: the snapshot alone decides.
GateSnapshotOnly(a) == ~isApplyResultStale(a, assignment)

\* The stale gate and the accepted-target fence.
Gate(a) == ~isApplyResultStale(a, assignment) /\ ~isApplyResultStale(a, highestAcceptedTarget)

\* A candidate that loses at the gates is dropped without an error.
ApplyDropped(g) ==
    /\ pc[g] = "lock" /\ Free /\ ~Gate(cand[g])
    /\ Return(g, FALSE)
    /\ UNCHANGED <<leaderVars, seen, applied, highestAcceptedTarget, stashes, stable, aux>>

\* Otherwise it raises the fence and goes to the handoff coordinator.
ApplyBegins(g) ==
    /\ pc[g] = "lock" /\ Free /\ Gate(cand[g])
    /\ highestAcceptedTarget' = Raised(cand[g])
    /\ hand' = cand[g]
    /\ Step(g, "handoff", cand[g])
    /\ UNCHANGED <<leaderVars, seen, applied, stashes, stable, refused, refreshes>>

\* scheduleApplyRetry by goroutine g, and on at l: stash, and start the loop
\* unless it runs.
ScheduleApplyRetry(g, l, a) ==
    /\ stashedApplyRetry' = Stash(stashedApplyRetry, a)
    /\ pc' = [pc EXCEPT ![g] = l, !["apply"] = IF @ = "off" \/ g = "apply" THEN "wait" ELSE @]
    /\ cand' = [cand EXCEPT ![g] = Zero]

\* Apply returned an error: unlock and schedule the retry.
ApplyFails(g) ==
    /\ pc[g] = "handoff"
    /\ ScheduleApplyRetry(g, CASE g = "boot" -> "failed" [] g \in Loop -> "wait" [] OTHER -> "idle", cand[g])
    /\ UNCHANGED <<leaderVars, seen, applied, highestAcceptedTarget, stashedFetchRetry, stable, aux>>

\* It succeeded: the leader revision is raised, the snapshot stored ...
ApplySucceeds(g) ==
    /\ pc[g] = "handoff"
    /\ lastSeenLeaderRevision' = Higher(lastSeenLeaderRevision, cand[g].lr)
    /\ assignment' = cand[g]
    /\ Step(g, "ack", cand[g])
    /\ UNCHANGED <<leaderVars, seen, committedAssignment, highestAcceptedTarget, stashes, stable, aux>>

\* ... recorded as committed and acknowledged, the lock released, and startup
\* completed if it was not (markStartupAssignmentApplied).
ApplyAcks(g) ==
    /\ pc[g] = "ack"
    /\ committedAssignment' = cand[g] /\ stable' = TRUE
    /\ Return(g, FALSE)
    /\ UNCHANGED <<leaderVars, seen, assignment, lastSeenLeaderRevision, highestAcceptedTarget, stashes, aux>>

Pipeline(g) ==
    ApplyDropped(g) \/ ApplyBegins(g) \/ ApplyFails(g) \/ ApplySucceeds(g) \/ ApplyAcks(g)

-----------------------------------------------------------------------------
(* Startup: runStartupBackground *)

\* waitForAssignment stores the alias as it is, or fails to read it.
WaitForAssignment ==
    /\ pc["boot"] = "wait"
    /\ \/ alias # Zero /\ assignment' = alias /\ Step("boot", "build", Zero)
       \/ Step("boot", "failed", Zero) /\ UNCHANGED assignment
    /\ UNCHANGED <<leaderVars, seen, committedAssignment, lastSeenLeaderRevision, highestAcceptedTarget,
                   stashes, stable, aux>>

\* applyInitialAssignment: the live commit unless it is older or cannot be
\* read and built, else the alias.
ApplyInitialAssignment ==
    /\ pc["boot"] = "build"
    /\ \/ com # Zero /\ com.v >= assignment.v /\ Step("boot", "lock", com)
       \/ Step("boot", "lock", assignment)
    /\ UNCHANGED <<leaderVars, seen, applied, highestAcceptedTarget, stashes, stable, aux>>

\* Its result; the monitors start in any case.
StartupDone ==
    /\ pc["boot"] \in {"applied", "failed"}
    /\ pc' = [g \in Go |-> CASE g = "boot" -> "done" [] g \in Loop -> pc[g] [] OTHER -> "idle"]
    /\ cand' = [cand EXCEPT !["boot"] = Zero]
    /\ stable' = (stable \/ pc["boot"] = "applied")
    /\ lastObservedCommit' = IF pc["boot"] = "applied" /\ cand["boot"].src THEN cand["boot"].lr
                             ELSE lastObservedCommit
    /\ UNCHANGED <<leaderVars, lastSeenAlias, applied, highestAcceptedTarget, stashes, aux>>

-----------------------------------------------------------------------------
(* The watchers *)

\* handleAssignmentEntry up to the lastSeenAlias store.  An alias that the
\* gates reject changes nothing.
HandleAssignmentEntry ==
    /\ pc["alias"] = "idle" /\ alias # Zero
    /\ alias.lr >= lastSeenLeaderRevision /\ alias.v > assignment.v
    /\ highestAcceptedTarget' = Raised(alias)
    /\ lastSeenAlias' = alias.lr
    /\ Step("alias", "select", alias)
    /\ UNCHANGED <<leaderVars, lastObservedCommit, applied, stashes, stable, aux>>

\* The dual-read rule: the alias goes on only if it has the authority.
SelectAlias ==
    /\ pc["alias"] = "select"
    /\ IF selectAuthority(lastObservedCommit, cand["alias"].lr) = "alias"
       THEN Step("alias", "lock", cand["alias"]) /\ UNCHANGED refused
       ELSE Step("alias", "idle", Zero) /\ refused' = IF isApplyResultStale(refused, cand["alias"]) THEN cand["alias"] ELSE refused
    /\ UNCHANGED <<leaderVars, seen, applied, highestAcceptedTarget, stashes, stable, hand, refreshes>>

\* The watch delivers commits in order and may skip some; the reconcile tick
\* reads the live one.
CommitArrives(c) ==
    /\ pc["commit"] = "idle"
    /\ \/ c \in old /\ old' = {x \in old : x.v > c.v}
       \/ c = com /\ c # Zero /\ UNCHANGED old

\* handleCommitValueOnce, case (a).
CommitNotNewer(c) ==
    /\ c.v <= assignment.v
    /\ lastObservedCommit' = c.lr
    /\ lastSeenLeaderRevision' = Higher(lastSeenLeaderRevision, c.lr)
    /\ UNCHANGED where

\* Case (b).
CommitOfStaleLeader(c) ==
    /\ c.v > assignment.v /\ c.lr < lastSeenLeaderRevision
    /\ UNCHANGED <<lastObservedCommit, lastSeenLeaderRevision, where>>

CommitObserved(c) ==
    /\ c.v > assignment.v /\ c.lr >= lastSeenLeaderRevision
    /\ lastObservedCommit' = c.lr
    /\ Step("commit", "select", c)
    /\ UNCHANGED lastSeenLeaderRevision

HandleCommitValue ==
    /\ \E c \in old \cup {com} :
          CommitArrives(c) /\ (CommitNotNewer(c) \/ CommitOfStaleLeader(c) \/ CommitObserved(c))
    /\ UNCHANGED <<term, base, com, alias, events, lastSeenAlias, assignment, committedAssignment,
                   highestAcceptedTarget, stashes, stable, aux>>

\* The dual-read rule; a commit that goes on raises the fence before its
\* payload is fetched.
SelectCommit ==
    /\ pc["commit"] = "select"
    /\ IF selectAuthority(cand["commit"].lr, lastSeenAlias) = "commit"
       THEN highestAcceptedTarget' = Raised(cand["commit"]) /\ Step("commit", "build", cand["commit"])
       ELSE Step("commit", "idle", Zero) /\ UNCHANGED highestAcceptedTarget
    /\ UNCHANGED <<leaderVars, seen, applied, stashes, stable, aux>>

\* buildAssignmentFromCommit: the payload is verified (or the worker has none).
Built(g) ==
    /\ g \in {"commit", "fetch"} /\ pc[g] = "build"
    /\ Step(g, "lock", cand[g])
    /\ UNCHANGED <<leaderVars, seen, applied, highestAcceptedTarget, stashes, stable, aux>>

\* Wrong variant: a commit that cannot be fetched is left to the reconcile tick.
FetchGivesUp(g) ==
    /\ g \in {"commit", "fetch"} /\ pc[g] = "build"
    /\ Step(g, IF g = "commit" THEN "idle" ELSE "wait", Zero)
    /\ UNCHANGED <<leaderVars, seen, applied, highestAcceptedTarget, stashes, stable, aux>>

\* It is not: scheduleCommitFetchRetry, and in the loop itself the re-stash.
FetchFails(g) ==
    /\ g \in {"commit", "fetch"} /\ pc[g] = "build"
    /\ stashedFetchRetry' = Stash(stashedFetchRetry, cand[g])
    /\ pc' = [pc EXCEPT !["commit"] = IF g = "commit" THEN "idle" ELSE @,
                        !["fetch"] = IF @ = "off" \/ g = "fetch" THEN "wait" ELSE @]
    /\ cand' = [cand EXCEPT ![g] = Zero]
    /\ UNCHANGED <<leaderVars, seen, applied, highestAcceptedTarget, stashedApplyRetry, stable, aux>>

-----------------------------------------------------------------------------
(* The retry loops: activateApplyRetryLoop, activateFetchRetryLoop *)

StashOf(g) == IF g = "apply" THEN stashedApplyRetry ELSE stashedFetchRetry

\* The backoff is over: the stash is swapped out.  A stashed commit behind the
\* fence is dropped unfetched.
RetryTakes(g) ==
    /\ pc[g] = "wait" /\ StashOf(g) # Zero
    /\ stashedApplyRetry' = IF g = "apply" THEN Zero ELSE stashedApplyRetry
    /\ stashedFetchRetry' = IF g = "fetch" THEN Zero ELSE stashedFetchRetry
    /\ CASE g = "apply" -> Step(g, "lock", StashOf(g))
         [] g = "fetch" /\ isApplyResultStale(StashOf(g), highestAcceptedTarget) -> UNCHANGED where
         [] OTHER -> Step(g, "build", StashOf(g))
    /\ UNCHANGED <<leaderVars, seen, applied, highestAcceptedTarget, stable, aux>>

\* After the backoff or an attempt the loop finds its stash empty ...
RetryEmpty(g) ==
    /\ pc[g] = "wait" /\ StashOf(g) = Zero
    /\ Step(g, "leave", Zero)
    /\ UNCHANGED <<leaderVars, seen, applied, highestAcceptedTarget, stashes, stable, aux>>

\* Wrong variant: a stash that came in during the exit is left.
RetryForgets(g) ==
    /\ pc[g] = "leave"
    /\ Step(g, "off", Zero)
    /\ UNCHANGED <<leaderVars, seen, applied, highestAcceptedTarget, stashes, stable, aux>>

\* ... and its deferred exit clears the active flag, looks at the stash again
\* and activates a loop for what came in meanwhile.
RetryLeaves(g) ==
    /\ pc[g] = "leave"
    /\ Step(g, IF StashOf(g) = Zero THEN "off" ELSE "wait", Zero)
    /\ UNCHANGED <<leaderVars, seen, applied, highestAcceptedTarget, stashes, stable, aux>>

Retry(g) == RetryTakes(g) \/ RetryEmpty(g) \/ RetryLeaves(g)

-----------------------------------------------------------------------------
(* Recovery: attemptRecoveryFromDegraded up to its self-heal guard *)

\* refreshAssignmentFromNATS reads the alias ...
RefreshReads ==
    /\ pc["recover"] = "idle" /\ refreshes < MaxRefresh /\ alias # Zero
    /\ refreshes' = refreshes + 1
    /\ Step("recover", "refresh", alias)
    /\ UNCHANGED <<leaderVars, seen, applied, highestAcceptedTarget, stashes, stable, hand, refused>>

\* monotonicStore, under applyStoreMu.
monotonicStore(a) ==
    /\ Free
    /\ IF isApplyResultStale(a, assignment) THEN UNCHANGED <<lastSeenLeaderRevision, assignment>>
       ELSE lastSeenLeaderRevision' = Higher(lastSeenLeaderRevision, a.lr) /\ assignment' = a

\* ... and stores it.
RefreshStores ==
    /\ pc["recover"] = "refresh"
    /\ monotonicStore(cand["recover"])
    /\ Step("recover", "guard", Zero)
    /\ UNCHANGED <<leaderVars, seen, committedAssignment, highestAcceptedTarget, stashes, stable, aux>>

\* currentAssignmentApplied: the whole identity, but an unknown source matches.
currentAssignmentApplied(cur) ==
    committedAssignment = [cur EXCEPT !.src = @ \/ committedAssignment.src]

\* The self-heal guard re-arms the apply of a snapshot that was not applied.
SelfHeals ==
    /\ pc["recover"] = "guard"
    /\ IF currentAssignmentApplied(assignment)
       THEN Step("recover", "idle", Zero) /\ UNCHANGED stashedApplyRetry
       ELSE ScheduleApplyRetry("recover", "idle", assignment)
    /\ UNCHANGED <<leaderVars, seen, applied, highestAcceptedTarget, stashedFetchRetry, stable, aux>>

-----------------------------------------------------------------------------
Next ==
    \/ Leaders
    \/ WaitForAssignment \/ ApplyInitialAssignment \/ StartupDone
    \/ HandleAssignmentEntry \/ SelectAlias
    \/ HandleCommitValue \/ SelectCommit
    \/ \E g \in Go : Pipeline(g) \/ Built(g) \/ FetchFails(g)
    \/ \E g \in Loop : Retry(g)
    \/ RefreshReads \/ RefreshStores \/ SelfHeals

Spec == Init /\ [][Next]_vars

-----------------------------------------------------------------------------
(* Properties *)

\* A goroutine or a stash has a target at least as new as the fence.
Pursued ==
    \E a \in {cand[g] : g \in Go} \cup {stashedApplyRetry, stashedFetchRetry} :
        a # Zero /\ ~isApplyResultStale(a, highestAcceptedTarget)

\* raiseAcceptedTarget and all the paths below it: the newest target admitted
\* keeps everything older out, so it is itself applied and acknowledged, or
\* still in somebody's hands, or about to be re-armed; only an alias that was
\* denied the authority may be given up.  No stash is left without a loop that
\* will look at it (activateApplyRetryLoop, activateFetchRetryLoop), although a
\* loop sees the empty stash and gives up its flag in two steps.
AcceptedTargetPursued ==
    /\ \/ ~isApplyResultStale(committedAssignment, highestAcceptedTarget)
       \/ Pursued \/ pc["recover"] = "guard"
       \/ ~isApplyResultStale(refused, highestAcceptedTarget)
    /\ \A g \in Loop : StashOf(g) # Zero => pc[g] # "off"

AdvanceStep == ~isApplyResultStale(hand', hand) /\ ~isApplyResultStale(assignment', assignment)

\* applyAssignmentWithPrevCore, monotonicStore and the stale gates: no goroutine
\* hands the coordinator a target older than one it was handed before, and the
\* snapshot never goes back, whichever of startup, watchers, retries and
\* recovery acts and whatever the stashes held.
TargetsOnlyAdvance == [][AdvanceStep]_vars
=============================================================================
