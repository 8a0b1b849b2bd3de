----------------------- MODULE AssignmentApply_proof ------------------------
(***************************************************************************)
(* Theorems about how one worker follows the commits: the debouncer that   *)
(* takes them from the bucket (Watch) and the pipeline that applies them   *)
(* (AssignmentApply), for every number of versions, terms, writes and      *)
(* recoveries. Each is a specification of its own (WatchSpec, Spec).       *)
(*                                                                         *)
(* The argument of the pipeline: the fence (highestAcceptedTarget) and the *)
(* snapshot (assignment) are each covered, which means that somebody holds *)
(* a target at least as new, or that one was committed. A target that      *)
(* loses at the gates is older than one of the two, so the other's cover   *)
(* takes over.                                                             *)
(***************************************************************************)
EXTENDS Watch, AssignmentApply, TLAPS

-----------------------------------------------------------------------------
(* The commit debouncer *)

SeenHash == Hash \cup {"none"}
SeenCommit == [v : Nat \ {0}, lr : Nat, h : SeenHash]

\* The types of what the debouncer works on, and its own invariant: without a
\* window nothing is ever pending.
Staging ==
    /\ liveCommit \in SeenCommit \cup {NoCommit} /\ pending \in SeenCommit \cup {NoCommit}
    /\ chan \in Seq(SeenCommit) /\ staged \in Seq(SeenHash) /\ sent \in Seq(SeenHash)
    /\ ~debounce => pending = NoCommit
    /\ BurstKeepsShuffles

\* A sequence stays one of its set when a member is appended.
LEMMA AppendStays == ASSUME NEW S, NEW q \in Seq(S), NEW e \in S PROVE Append(q, e) \in Seq(S)
BY SMTT(30)

\* The invariant holds initially.
LEMMA WatchStarts == WatchInit => Staging
<1>1. SUFFICES ASSUME WatchInit PROVE Staging   OBVIOUS
<1>2. <<>> \in Seq(SeenCommit) /\ <<>> \in Seq(SeenHash)   OBVIOUS
<1> QED BY <1>1, <1>2 DEF WatchInit, Staging, BurstKeepsShuffles

\* A hash that ends a run is not appended again.
LEMMA RunsEnd ==
    ASSUME NEW s \in Seq(SeenHash), NEW h \in SeenHash
    PROVE  /\ AppendRun(s, h) \in Seq(SeenHash)
           /\ AppendRun(AppendRun(s, h), h) = AppendRun(s, h)
<1>1. CASE s # <<>> /\ s[Len(s)] = h   BY <1>1 DEF AppendRun
<1>2. CASE ~(s # <<>> /\ s[Len(s)] = h)
  <2> DEFINE t == Append(s, h)
  <2>1. t \in Seq(SeenHash) /\ t # <<>> /\ t[Len(t)] = h   OBVIOUS
  <2>2. AppendRun(s, h) = t   BY <1>2 DEF AppendRun
  <2> HIDE DEF t
  <2> QED BY Zenon, <2>1, <2>2 DEF AppendRun
<1> QED BY <1>1, <1>2

\* commitDebouncer.stage: a commit that goes on with the pending one's payload
\* merges with it, any other flushes it first.
LEMMA StageKeeps ==
    ASSUME Staging, NEW c \in SeenCommit, sess = "live", Stage(c), UNCHANGED debounce
    PROVE  /\ pending' \in SeenCommit \cup {NoCommit} /\ staged' \in Seq(SeenHash) /\ sent' \in Seq(SeenHash)
           /\ ~debounce' => pending' = NoCommit
           /\ staged' = IF pending' = NoCommit THEN sent' ELSE AppendRun(sent', pending'.h)
<1>1. /\ c # NoCommit /\ c.h \in SeenHash /\ sent \in Seq(SeenHash) /\ staged \in Seq(SeenHash)
      /\ pending # NoCommit => pending \in SeenCommit /\ pending.h \in SeenHash
      /\ staged = IF pending = NoCommit THEN sent ELSE AppendRun(sent, pending.h)
  BY SMTT(40) DEF Staging, SeenCommit, NoCommit, BurstKeepsShuffles
<1>2. AppendRun(sent, c.h) \in Seq(SeenHash) /\ AppendRun(staged, c.h) \in Seq(SeenHash)
  BY <1>1, RunsEnd
<1>3. CASE ~debounce
  <2>1. pending = NoCommit /\ sent' = AppendRun(sent, c.h) /\ staged' = AppendRun(staged, c.h) /\ pending' = pending
    BY <1>1, <1>3 DEF Stage, Dispatch, Staging
  <2> QED BY <1>1, <1>2, <1>3, <2>1
<1>4. CASE debounce /\ Drops(c)
  <2>1. UNCHANGED <<sent, staged, pending>>   BY Zenon, <1>4 DEF Stage, Dispatch
  <2> QED BY Zenon, <1>1, <1>4, <2>1 DEF Staging
<1>5. CASE debounce /\ ~Drops(c)
  <2>1. /\ staged' = AppendRun(staged, c.h) /\ pending' = c
        /\ Dispatch(IF workerAssignmentChanged(pending, c) THEN pending ELSE NoCommit)
    BY Zenon, <1>5 DEF Stage
  <2>2. CASE pending = NoCommit
    <3>1. sent' = sent   BY ZenonT(40), <2>1, <2>2 DEF Dispatch
    <3> QED BY <1>1, <1>2, <1>5, <2>1, <2>2, <3>1
  <2>3. CASE pending # NoCommit /\ pending.h # c.h
    <3>1. sent' = AppendRun(sent, pending.h)   BY ZenonT(40), <2>1, <2>3 DEF Dispatch, workerAssignmentChanged
    <3> QED BY Zenon, <1>1, <1>2, <1>5, <2>1, <2>3, <3>1
  <2>4. CASE pending # NoCommit /\ pending.h = c.h
    <3>1. sent' = sent   BY ZenonT(40), <2>1, <2>4 DEF Dispatch, workerAssignmentChanged
    <3>2. staged' = AppendRun(sent, c.h)   BY <1>1, <2>1, <2>4, RunsEnd
    <3> QED BY <1>1, <1>2, <1>5, <2>1, <3>1, <3>2
  <2> QED BY Zenon, <2>2, <2>3, <2>4
<1> QED BY <1>3, <1>4, <1>5

\* flush: what was pending is dispatched, and all that was staged is sent.
LEMMA FlushKeeps ==
    ASSUME Staging, sess = "live", Flush, UNCHANGED debounce
    PROVE  /\ pending' = NoCommit /\ staged' \in Seq(SeenHash) /\ sent' \in Seq(SeenHash)
           /\ staged' = sent'
<1>1. CASE pending = NoCommit   BY Zenon, <1>1 DEF Staging, Flush, Dispatch, BurstKeepsShuffles
<1>2. CASE pending # NoCommit
  <2>1. pending.h \in SeenHash   BY <1>2 DEF Staging, SeenCommit
  <2>2. AppendRun(sent, pending.h) \in Seq(SeenHash)   BY <2>1, RunsEnd DEF Staging
  <2> QED BY <1>2, <2>2 DEF Staging, Flush, Dispatch, BurstKeepsShuffles
<1> QED BY Zenon, <1>1, <1>2

\* The commits of the leaders and the channel that delivers them.
LEMMA ChannelKeeps ==
    ASSUME Staging, LeaderCommits \/ CommitChannelCloses \/ CommitWatchOpens
    PROVE  Staging'
<1>1. CASE LeaderCommits
  <2>1. PICK t \in liveCommit.lr..MaxTakeovers, h \in SeenHash : liveCommit' = [v |-> liveCommit.v + 1, lr |-> t, h |-> h]
    BY Zenon, <1>1 DEF LeaderCommits, SeenHash
  <2>2. liveCommit.v \in Nat /\ liveCommit.lr \in Nat   BY SMTT(40) DEF Staging, SeenCommit, NoCommit
  <2>3. liveCommit' \in SeenCommit   BY SMTT(40), <2>1, <2>2, MaxTakeoversAssumption DEF SeenCommit
  <2>4. chan' \in Seq(SeenCommit)
    <3>1. chan' = chan \/ chan' = Append(chan, liveCommit')   BY ZenonT(40), <1>1 DEF LeaderCommits, Deliver
    <3>2. chan \in Seq(SeenCommit)   BY Zenon DEF Staging
    <3> QED BY Zenon, <2>3, <3>1, <3>2, AppendStays
  <2>5. UNCHANGED <<debounce, sess, pending, staged, sent>>   BY ZenonT(40), <1>1 DEF LeaderCommits
  <2> QED BY <2>3, <2>4, <2>5 DEF Staging, BurstKeepsShuffles
<1>2. CASE CommitChannelCloses
  <2>1. PICK n \in 0..Len(chan) : chan' = SubSeq(chan, 1, n)   BY Zenon, <1>2 DEF CommitChannelCloses
  <2>2. chan' \in Seq(SeenCommit)   BY SMTT(40), <2>1 DEF Staging
  <2>3. UNCHANGED <<liveCommit, debounce, sess, pending, staged, sent>>   BY Zenon, <1>2 DEF CommitChannelCloses, keys
  <2> QED BY <2>2, <2>3 DEF Staging, BurstKeepsShuffles
<1>3. CASE CommitWatchOpens
  <2>1. /\ chan' = (IF liveCommit = NoCommit THEN <<>> ELSE <<liveCommit>>) /\ UNCHANGED <<liveCommit, debounce>>
        /\ pending' = NoCommit /\ staged' = <<>> /\ sent' = <<>>
    BY Zenon, <1>3 DEF CommitWatchOpens, keys
  <2>2. chan' \in Seq(SeenCommit) /\ staged' \in Seq(SeenHash) /\ sent' \in Seq(SeenHash)   BY SMTT(40), <2>1 DEF Staging
  <2> QED BY Zenon, <2>1, <2>2 DEF Staging, BurstKeepsShuffles
<1> QED BY <1>1, <1>2, <1>3

\* The commit watcher's session: it takes a commit from the channel, its timer
\* fires, its reconcile tick reads the live commit, it ends.
LEMMA SessionKeeps ==
    ASSUME Staging, CommitSession \/ CommitReconciles
    PROVE  Staging'
<1>1. CASE CommitReceived
  <2> DEFINE c == Head(chan)
  <2>1. /\ sess = "live" /\ chan # <<>> /\ Stage(c) /\ chan' = Tail(chan) /\ UNCHANGED <<liveCommit, debounce, sess>>
    BY <1>1 DEF CommitReceived, keys
  <2>2. c \in SeenCommit /\ chan' \in Seq(SeenCommit)   BY SMTT(40), <2>1 DEF Staging
  <2> HIDE DEF c
  <2> QED BY Zenon, <2>1, <2>2, StageKeeps DEF Staging, BurstKeepsShuffles
<1>2. CASE CommitReconciles
  <2>1. /\ sess = "live" /\ Stage(liveCommit) /\ UNCHANGED <<liveCommit, debounce, sess, chan>>
        /\ liveCommit \in SeenCommit
    BY Zenon, <1>2 DEF CommitReconciles, keys, Staging
  <2> QED BY <2>1, StageKeeps DEF Staging, BurstKeepsShuffles
<1>3. CASE CommitTimerFires \/ CommitSessionEnds
  <2>1. sess = "live" /\ Flush /\ UNCHANGED <<liveCommit, debounce, chan>>
    BY Zenon, <1>3 DEF CommitTimerFires, CommitSessionEnds, keys
  <2> QED BY <2>1, FlushKeeps DEF Staging, BurstKeepsShuffles
<1> QED BY Zenon, <1>1, <1>2, <1>3 DEF CommitSession

\* Every step of the watchers keeps the invariant.
LEMMA WatchSteps == Staging /\ [WatchNext]_watchVars => Staging'
<1>2. SUFFICES ASSUME Staging, [WatchNext]_watchVars PROVE Staging'   OBVIOUS
<1>3. CASE LeaderCommits \/ CommitChannelCloses \/ CommitWatchOpens   BY Zenon, <1>2, <1>3, ChannelKeeps
<1>4. CASE CommitSession \/ CommitReconciles   BY Zenon, <1>2, <1>4, SessionKeeps
<1>5. CASE CommitWatcherStops \/ CommitWatchFails \/ UNCHANGED watchVars
  <2>1. UNCHANGED <<liveCommit, pending, chan, staged, sent, debounce>> /\ (sess' = "live" => sess = "live")
    BY Zenon, <1>5 DEF CommitWatcherStops, CommitWatchFails, watchVars, keys, commitVars
  <2> QED BY Zenon, <1>2, <2>1 DEF Staging, BurstKeepsShuffles
<1>6. CASE \/ LeaderWritesAlias \/ AliasChannelCloses \/ Stop \/ AliasWatchOpens \/ AliasWatchFails
           \/ AliasSession \/ AliasReconciles \/ AliasWatcherStops
  <2>1. UNCHANGED <<liveCommit, pending, chan, staged, sent, debounce, sess>>
    BY ZenonT(40), <1>6 DEF LeaderWritesAlias, AliasChannelCloses, Stop, AliasWatchOpens, AliasWatchFails,
                AliasSession, AliasReceived, AliasTimerFires, AliasSessionEnds, AliasReconciles,
                AliasWatcherStops, keys, commitVars
  <2> QED BY Zenon, <1>2, <2>1 DEF Staging, BurstKeepsShuffles
<1> QED BY <1>2, <1>3, <1>4, <1>5, <1>6 DEF WatchNext

\* commitDebouncer.stage, flush: whatever the window, the channel's closes, the
\* reconcile ticks and the order they come in, a session dispatches every run of
\* commits with one payload of this worker that it stages, the last one still
\* pending: no change of the worker's partitions is merged away.
THEOREM ShufflesAreKept == WatchSpec => []BurstKeepsShuffles
<1>1. Staging => BurstKeepsShuffles   BY DEF Staging
<1> QED BY WatchStarts, WatchSteps, <1>1, PTL DEF WatchSpec

-----------------------------------------------------------------------------
(* The inductive invariant                                                 *)

Target == {Zero} \cup [v : Nat \ {0}, lr : Nat, src : BOOLEAN]
Where == {"wait", "build", "lock", "handoff", "ack", "applied", "failed", "done",
          "off", "idle", "select", "leave", "refresh", "guard"}

TypeOK ==
    /\ term \in Nat /\ base \in [Term -> Nat] /\ events \in Nat /\ refreshes \in Nat
    /\ com \in Target /\ old \subseteq Target /\ alias \in Target
    /\ assignment \in Target /\ committedAssignment \in Target /\ highestAcceptedTarget \in Target
    /\ lastSeenLeaderRevision \in Nat /\ lastObservedCommit \in Nat /\ lastSeenAlias \in Nat
    /\ stashedApplyRetry \in Target /\ stashedFetchRetry \in Target
    /\ pc \in [Go -> Where] /\ cand \in [Go -> Target]
    /\ stable \in BOOLEAN /\ hand \in Target /\ refused \in Target

\* a is not older than b.
AtLeast(a, b) == ~isApplyResultStale(a, b)

\* applyStoreMu: one goroutine is in the pipeline's critical section, and its
\* target is not older than the snapshot, which nobody else moves.
Locked ==
    /\ \A g, h \in Go : {pc[g], pc[h]} \subseteq {"handoff", "ack"} => g = h
    /\ \A g \in Go : pc[g] = "handoff" => AtLeast(cand[g], assignment)
    /\ \A g \in Go : pc[g] = "ack" => cand[g] = assignment

\* A goroutine between two targets holds none.
HandsEmpty ==
    /\ \A g \in Go : pc[g] \in {"wait", "off", "idle", "leave", "guard", "failed", "done"} => cand[g] = Zero
    /\ pc["boot"] = "build" => cand["boot"] = Zero

\* The monitors start when startup is over, and nothing runs before it.
StartupFirst ==
    /\ pc["boot"] # "done" => \A g \in Watcher \cup {"recover"} : pc[g] = "off"
    /\ pc["boot"] = "wait" =>
          /\ \A g \in Loop : pc[g] = "off"
          /\ assignment = Zero /\ highestAcceptedTarget = Zero /\ committedAssignment = Zero

\* What startup was handed back as applied was applied or lost at the gates.
StartupApplied ==
    pc["boot"] = "applied" => AtLeast(committedAssignment, cand["boot"]) \/ ~Gate(cand["boot"])

\* A target in hand, but for a commit that has not raised the fence yet.
Held(a) ==
    \/ \E g \in Go : cand[g] = a /\ (g = "commit" => pc[g] # "select")
    \/ a = stashedApplyRetry \/ a = stashedFetchRetry

Covered(t) == AtLeast(committedAssignment, t) \/ \E a \in Target : Held(a) /\ AtLeast(a, t)

FenceCovered ==
    \/ Covered(highestAcceptedTarget)
    \/ AtLeast(refused, highestAcceptedTarget)
    \/ pc["recover"] = "guard" /\ AtLeast(assignment, highestAcceptedTarget)

\* The exception is the alias that startup stored and did not apply.
SnapshotCovered ==
    \/ AtLeast(highestAcceptedTarget, assignment)
    \/ Covered(assignment)
    \/ pc["recover"] = "guard"
    \/ /\ highestAcceptedTarget = Zero
       /\ pc["commit"] = "select" => cand["commit"].v > assignment.v

StashesWatched == \A g \in Loop : StashOf(g) # Zero => pc[g] # "off"

Fenced ==
    /\ AtLeast(highestAcceptedTarget, hand)
    /\ AtLeast(assignment, committedAssignment)
    /\ pc["alias"] = "select" => AtLeast(highestAcceptedTarget, cand["alias"])

LockInv == TypeOK /\ Locked /\ StartupFirst /\ Fenced
IInv ==
    /\ LockInv /\ HandsEmpty /\ StartupApplied
    /\ FenceCovered /\ SnapshotCovered /\ StashesWatched

-----------------------------------------------------------------------------
(* The operators                                                           *)

\* isApplyResultStale is a total order on targets, up to what tells two
\* targets of one version and leader apart; Zero is the oldest.
LEMMA Order ==
    /\ \A a \in Target : AtLeast(a, a) /\ AtLeast(a, Zero)
    /\ \A a, b, c \in Target : AtLeast(a, b) /\ AtLeast(b, c) => AtLeast(a, c)
    /\ \A a, b \in Target : AtLeast(a, b) \/ AtLeast(b, a)
<1>1. \A a \in Target : a.v \in Nat /\ a.lr \in Nat
  BY DEF Target, Zero
<1>2. Zero.v = 0
  BY Zenon DEF Zero
<1> QED BY <1>1, <1>2 DEF AtLeast, isApplyResultStale

USE Order

\* A newer version is newer.
LEMMA NewerVersion ==
    ASSUME NEW a \in Target, NEW b \in Target, a.v > b.v
    PROVE  AtLeast(a, b)
<1>1. a.v \in Nat /\ b.v \in Nat
  BY DEF Target, Zero
<1> QED BY Zenon, <1>1 DEF AtLeast, isApplyResultStale

\* Only Zero has no version.
LEMMA NonZero ==
    ASSUME NEW a \in Target, NEW b \in Target, AtLeast(a, b), b # Zero
    PROVE  a # Zero
BY DEF Target, Zero, AtLeast, isApplyResultStale

\* raiseAcceptedTarget: the fence rises to the target, or stays.
LEMMA RaisedFacts ==
    ASSUME TypeOK, NEW a \in Target
    PROVE  /\ Raised(a) \in Target
           /\ AtLeast(Raised(a), a) /\ AtLeast(Raised(a), highestAcceptedTarget)
           /\ Raised(a) = highestAcceptedTarget \/ AtLeast(a, Raised(a))
<1>0. highestAcceptedTarget \in Target
  BY Zenon DEF TypeOK
<1>1. CASE isApplyResultStale(highestAcceptedTarget, a)
  <2>1. a # Zero
    BY Zenon, <1>0, <1>1, Order DEF AtLeast
  <2>2. a \in [v : Nat \ {0}, lr : Nat, src : BOOLEAN] /\ Raised(a) = [a EXCEPT !.src = FALSE]
    BY Zenon, <1>1, <2>1 DEF Target, Raised
  <2>3. Raised(a) \in Target /\ Raised(a).v = a.v /\ Raised(a).lr = a.lr
    BY Zenon, <2>2 DEF Target
  <2>4. AtLeast(Raised(a), a) /\ AtLeast(a, Raised(a))
    BY Zenon, <2>2, <2>3 DEF AtLeast, isApplyResultStale
  <2>5. AtLeast(a, highestAcceptedTarget)
    BY Zenon, <1>0, <1>1, Order DEF AtLeast
  <2> QED BY Zenon, <1>0, <2>3, <2>4, <2>5, Order
<1>2. CASE ~isApplyResultStale(highestAcceptedTarget, a)
  BY Zenon, <1>0, <1>2, Order DEF Raised, AtLeast
<1> QED BY Zenon, <1>1, <1>2

\* The stashes keep the newer target.
LEMMA StashFacts ==
    ASSUME NEW a \in Target, NEW b \in Target
    PROVE  /\ Stash(a, b) \in Target
           /\ AtLeast(Stash(a, b), a) /\ AtLeast(Stash(a, b), b)
<1>0. a.v \in Nat /\ a.lr \in Nat /\ b.v \in Nat /\ b.lr \in Nat
  BY DEF Target, Zero
<1>1. CASE a # Zero /\ ~SupersedesForStash(b, a)
  <2>1. AtLeast(a, b)
    BY Zenon, <1>0, <1>1 DEF SupersedesForStash, AtLeast, isApplyResultStale
  <2> QED BY Zenon, <1>1, <2>1, Order DEF Stash
<1>2. CASE a = Zero
  BY Zenon, <1>2, Order DEF Stash
<1>3. CASE SupersedesForStash(b, a)
  <2>1. AtLeast(b, a)
    BY Zenon, <1>0, <1>3 DEF SupersedesForStash, AtLeast, isApplyResultStale
  <2> QED BY Zenon, <1>3, <2>1, Order DEF Stash
<1> QED BY Zenon, <1>1, <1>2, <1>3

\* A goroutine's step moves that goroutine alone.
LEMMA StepFacts ==
    ASSUME TypeOK, NEW g \in Go, NEW l \in Where, NEW a \in Target, Step(g, l, a)
    PROVE  /\ pc' \in [Go -> Where] /\ cand' \in [Go -> Target]
           /\ pc'[g] = l /\ cand'[g] = a
           /\ \A h \in Go \ {g} : pc'[h] = pc[h] /\ cand'[h] = cand[h]
BY Zenon DEF TypeOK, Step

\* scheduleApplyRetry moves its caller, and the apply-retry loop if it is off.
LEMMA ScheduleFacts ==
    ASSUME TypeOK, NEW g \in Go, NEW l \in Where, NEW a \in Target, ScheduleApplyRetry(g, l, a),
           g = "apply" => l = "wait"
    PROVE  /\ pc' \in [Go -> Where] /\ cand' \in [Go -> Target]
           /\ pc'[g] = l /\ cand'[g] = Zero
           /\ \A h \in Go \ {g} : cand'[h] = cand[h]
           /\ \A h \in Go \ {g, "apply"} : pc'[h] = pc[h]
           /\ g # "apply" => pc'["apply"] = IF pc["apply"] = "off" THEN "wait" ELSE pc["apply"]
           /\ stashedApplyRetry' \in Target
           /\ AtLeast(stashedApplyRetry', stashedApplyRetry) /\ AtLeast(stashedApplyRetry', a)
<1>1. stashedApplyRetry' \in Target
           /\ AtLeast(stashedApplyRetry', stashedApplyRetry) /\ AtLeast(stashedApplyRetry', a)
  BY Zenon, StashFacts DEF TypeOK, ScheduleApplyRetry
<1>2. "apply" \in Go /\ "wait" \in Where /\ Zero \in Target
  BY Zenon DEF Go, Loop, Where, Target
<1>3. cand' = [cand EXCEPT ![g] = Zero] /\ cand \in [Go -> Target] /\ pc \in [Go -> Where]
  BY Zenon DEF TypeOK, ScheduleApplyRetry
<1>4. pc' = [pc EXCEPT ![g] = l, !["apply"] = IF @ = "off" \/ g = "apply" THEN "wait" ELSE @]
  BY Zenon DEF ScheduleApplyRetry
<1>5. CASE g = "apply"
  BY Zenon, <1>1, <1>2, <1>3, <1>4, <1>5
<1>6. CASE g # "apply"
  BY Zenon, <1>1, <1>2, <1>3, <1>4, <1>6
<1> QED BY Zenon, <1>5, <1>6

-----------------------------------------------------------------------------
(* Types                                                                   *)

\* The goroutines by name.
LEMMA GoNames ==
    /\ Loop \subseteq Go /\ Watcher \subseteq Go /\ Zero \in Target
    /\ "boot" \in Go /\ "recover" \in Go /\ "apply" \in Go /\ "fetch" \in Go
    /\ "alias" \in Go /\ "commit" \in Go
BY Zenon DEF Go, Loop, Watcher, Target

USE GoNames

\* What the leaders publish are targets (Publish, the alias writes).
LEMMA LeadersType == ASSUME TypeOK, Leaders PROVE TypeOK'
<1>0. com \in Target /\ com.v \in Nat /\ com.lr \in Nat /\ alias \in Target /\ term \in Nat /\ events \in Nat
  BY DEF TypeOK, Target, Zero
<1>1. CASE NewLeader
  BY <1>0, <1>1 DEF Leaders, NewLeader, TypeOK, seen, applied, stashes, where, aux, Term
<1>2. ASSUME NEW t \in Term, BarrierWritesAlias(t) PROVE TypeOK'
  <2>1. t \in Nat
    BY DEF Term
  <2>2. [v |-> com.v + 1, lr |-> t, src |-> FALSE] \in Target
    BY <1>0, <2>1 DEF Target
  <2>3. alias' \in Target /\ UNCHANGED <<term, base, com, old>>
    BY Zenon, <1>2, <2>2 DEF BarrierWritesAlias
  <2> QED BY <1>0, <2>3 DEF Leaders, TypeOK, seen, applied, stashes, where, aux
<1>3. ASSUME NEW t \in Term, Commits(t) PROVE TypeOK'
  <2>1. t \in Nat
    BY DEF Term
  <2>2. [v |-> com.v + 1, lr |-> t, src |-> TRUE] \in Target
    BY <1>0, <2>1 DEF Target
  <2> QED BY <1>0, <1>3, <2>2 DEF Leaders, Commits, TypeOK, seen, applied, stashes, where, aux
<1>4. CASE CommitWritesAlias
  <2>1. com \in [v : Nat \ {0}, lr : Nat, src : BOOLEAN]
    BY Zenon, <1>0, <1>4 DEF CommitWritesAlias, Target
  <2>2. [com EXCEPT !.src = FALSE] \in Target
    BY Zenon, <2>1 DEF Target
  <2> QED BY <1>0, <1>4, <2>2 DEF Leaders, CommitWritesAlias, TypeOK, seen, applied, stashes, where, aux
<1> QED BY Zenon, <1>1, <1>2, <1>3, <1>4 DEF Leaders

\* The steps of the pipeline keep the types.
LEMMA PipelineType == ASSUME TypeOK, NEW g \in Go, Pipeline(g) PROVE TypeOK'
<1>0. cand[g] \in Target /\ pc[g] \in Where /\ cand[g].lr \in Nat /\ lastSeenLeaderRevision \in Nat
  BY DEF TypeOK, Target, Zero
<1>1. ASSUME Return(g, FALSE) PROVE pc' \in [Go -> Where] /\ cand' \in [Go -> Target]
  BY Zenon, <1>0, <1>1, GoNames DEF Return, Step, TypeOK, Where
<1>2. CASE ApplyDropped(g)
  BY Zenon, <1>1, <1>2 DEF ApplyDropped, TypeOK, leaderVars, seen, applied, stashes, aux
<1>3. CASE ApplyBegins(g)
  BY Zenon, <1>0, <1>3, StepFacts, RaisedFacts DEF ApplyBegins, Where, TypeOK, leaderVars, seen, applied, stashes
<1>4. CASE ApplyFails(g)
  <2>1. stashedApplyRetry' \in Target /\ pc' \in [Go -> Where] /\ cand' \in [Go -> Target]
    BY Zenon, <1>0, <1>4, ScheduleFacts DEF ApplyFails, Where, Loop
  <2> QED BY Zenon, <1>4, <2>1 DEF ApplyFails, TypeOK, leaderVars, seen, applied, aux
<1>5. CASE ApplySucceeds(g)
  BY Zenon, <1>0, <1>5, StepFacts DEF ApplySucceeds, Where, Higher, TypeOK, leaderVars, seen, stashes, aux
<1>6. CASE ApplyAcks(g)
  BY Zenon, <1>0, <1>1, <1>6 DEF ApplyAcks, TypeOK, leaderVars, seen, stashes, aux
<1> QED BY Zenon, <1>2, <1>3, <1>4, <1>5, <1>6 DEF Pipeline

\* Startup keeps the types.
LEMMA StartupType ==
    ASSUME TypeOK, WaitForAssignment \/ ApplyInitialAssignment \/ StartupDone PROVE TypeOK'
<1>1. CASE WaitForAssignment
  BY <1>1, StepFacts, GoNames DEF WaitForAssignment, Where, TypeOK, leaderVars, seen, stashes, aux
<1>2. CASE ApplyInitialAssignment
  BY Zenon, <1>2, StepFacts, GoNames DEF ApplyInitialAssignment, Where, TypeOK, leaderVars, seen, applied, stashes, aux
<1>3. CASE StartupDone
  <2>1. cand["boot"].lr \in Nat
    BY GoNames DEF TypeOK, Target, Zero
  <2>2. pc' \in [Go -> Where] /\ cand' \in [Go -> Target]
    BY Zenon, <1>3, GoNames DEF StartupDone, TypeOK, Where
  <2> QED BY Zenon, <1>3, <2>1, <2>2 DEF StartupDone, TypeOK, leaderVars, seen, applied, stashes, aux
<1> QED BY Zenon, <1>1, <1>2, <1>3

\* The watchers keep the types.
LEMMA WatcherType ==
    ASSUME TypeOK, HandleAssignmentEntry \/ SelectAlias \/ HandleCommitValue \/ SelectCommit PROVE TypeOK'
<1>1. CASE HandleAssignmentEntry
  <2>1. alias \in Target /\ alias.lr \in Nat
    BY DEF TypeOK, Target, Zero
  <2> QED BY Zenon, <1>1, <2>1, StepFacts, RaisedFacts, GoNames
          DEF HandleAssignmentEntry, Where, TypeOK, leaderVars, seen, applied, stashes, aux
<1>2. CASE SelectAlias
  <2>1. cand["alias"] \in Target
    BY Zenon, GoNames DEF TypeOK
  <2>2. pc' \in [Go -> Where] /\ cand' \in [Go -> Target]
    BY Zenon, <1>2, <2>1, StepFacts, GoNames DEF SelectAlias, Where
  <2> QED BY Zenon, <1>2, <2>1, <2>2 DEF SelectAlias, TypeOK, leaderVars, seen, applied, stashes, aux
<1>3. CASE HandleCommitValue
  <2>1. PICK c \in old \cup {com} :
           CommitArrives(c) /\ (CommitNotNewer(c) \/ CommitOfStaleLeader(c) \/ CommitObserved(c))
    BY Zenon, <1>3 DEF HandleCommitValue
  <2>2. c \in Target /\ c.lr \in Nat /\ lastSeenLeaderRevision \in Nat
    BY DEF TypeOK, Target, Zero
  <2>3. pc' \in [Go -> Where] /\ cand' \in [Go -> Target]
    BY Zenon, <2>1, <2>2, StepFacts, GoNames DEF CommitNotNewer, CommitOfStaleLeader, CommitObserved, where, Where, TypeOK
  <2>4. old' \subseteq Target
    BY Zenon, <2>1 DEF CommitArrives, TypeOK
  <2>5. lastObservedCommit' \in Nat /\ lastSeenLeaderRevision' \in Nat
    BY Zenon, <2>1, <2>2 DEF CommitNotNewer, CommitOfStaleLeader, CommitObserved, Higher, TypeOK
  <2> QED BY Zenon, <1>3, <2>3, <2>4, <2>5 DEF HandleCommitValue, TypeOK, stashes, aux
<1>4. CASE SelectCommit
  <2>1. cand["commit"] \in Target
    BY Zenon, GoNames DEF TypeOK
  <2>2. pc' \in [Go -> Where] /\ cand' \in [Go -> Target] /\ highestAcceptedTarget' \in Target
    BY <1>4, <2>1, StepFacts, RaisedFacts, GoNames DEF SelectCommit, Where, TypeOK
  <2> QED BY Zenon, <1>4, <2>2 DEF SelectCommit, TypeOK, leaderVars, seen, applied, stashes, aux
<1> QED BY Zenon, <1>1, <1>2, <1>3, <1>4

\* The retries and recovery keep the types.
LEMMA RetryType ==
    ASSUME TypeOK,
           \/ \E g \in Go : Built(g) \/ FetchFails(g)
           \/ \E g \in Loop : Retry(g)
           \/ RefreshReads \/ RefreshStores \/ SelfHeals
    PROVE  TypeOK'
<1>0. /\ stashedApplyRetry \in Target /\ stashedFetchRetry \in Target
      /\ \A g \in Go : StashOf(g) \in Target /\ cand[g] \in Target
  BY Zenon DEF TypeOK, StashOf
<1>1. ASSUME NEW g \in Go, Built(g) PROVE TypeOK'
  BY Zenon, <1>0, <1>1, StepFacts DEF Built, Where, TypeOK, leaderVars, seen, applied, stashes, aux
<1>2. ASSUME NEW g \in Go, FetchFails(g) PROVE TypeOK'
  <2>1. stashedFetchRetry' \in Target
    BY Zenon, <1>0, <1>2, StashFacts DEF FetchFails
  <2>2. pc' \in [Go -> Where] /\ cand' \in [Go -> Target]
    BY Zenon, <1>2, GoNames DEF FetchFails, TypeOK, Where
  <2> QED BY Zenon, <1>2, <2>1, <2>2 DEF FetchFails, TypeOK, leaderVars, seen, applied, aux
<1>3. ASSUME NEW g \in Loop, RetryTakes(g) PROVE TypeOK'
  <2>1. pc' \in [Go -> Where] /\ cand' \in [Go -> Target]
    BY ZenonT(30), <1>0, <1>3, StepFacts, GoNames DEF RetryTakes, where, TypeOK, Where, Loop
  <2>2. stashedApplyRetry' \in Target /\ stashedFetchRetry' \in Target
    BY Zenon, <1>0, <1>3, GoNames DEF RetryTakes
  <2> QED BY Zenon, <1>3, <2>1, <2>2 DEF RetryTakes, TypeOK, leaderVars, seen, applied, aux
<1>4. ASSUME NEW g \in Loop, RetryEmpty(g) \/ RetryLeaves(g) PROVE TypeOK'
  <2>1. pc' \in [Go -> Where] /\ cand' \in [Go -> Target]
    BY Zenon, <1>4, StepFacts, GoNames DEF RetryEmpty, RetryLeaves, Where
  <2> QED BY <1>4, <2>1 DEF RetryEmpty, RetryLeaves, TypeOK, leaderVars, seen, applied, stashes, aux
<1>5. CASE RefreshReads
  <2>1. pc' \in [Go -> Where] /\ cand' \in [Go -> Target]
    BY Zenon, <1>5, StepFacts, GoNames DEF RefreshReads, Where, TypeOK
  <2> QED BY <1>5, <2>1 DEF RefreshReads, TypeOK, leaderVars, seen, applied, stashes
<1>6. CASE RefreshStores
  <2>1. pc' \in [Go -> Where] /\ cand' \in [Go -> Target]
    BY Zenon, <1>6, StepFacts, GoNames DEF RefreshStores, Where
  <2>2. cand["recover"] \in Target /\ cand["recover"].lr \in Nat /\ lastSeenLeaderRevision \in Nat
    BY GoNames DEF TypeOK, Target, Zero
  <2>3. assignment' \in Target /\ lastSeenLeaderRevision' \in Nat
    BY Zenon, <1>6, <2>2 DEF RefreshStores, monotonicStore, Higher, TypeOK
  <2> QED BY Zenon, <1>6, <2>1, <2>3 DEF RefreshStores, TypeOK, leaderVars, seen, stashes, aux
<1>7. CASE SelfHeals
  <2>1. assignment \in Target
    BY Zenon DEF TypeOK
  <2>2. CASE Step("recover", "idle", Zero) /\ UNCHANGED stashedApplyRetry
    <3>1. pc' \in [Go -> Where] /\ cand' \in [Go -> Target]
      BY Zenon, <2>2, StepFacts, GoNames DEF Where
    <3> QED BY Zenon, <1>7, <2>2, <3>1 DEF SelfHeals, TypeOK, leaderVars, seen, applied, aux
  <2>3. CASE ScheduleApplyRetry("recover", "idle", assignment)
    <3>1. stashedApplyRetry' \in Target /\ pc' \in [Go -> Where] /\ cand' \in [Go -> Target]
      BY Zenon, <2>1, <2>3, ScheduleFacts, GoNames DEF Where
    <3> QED BY Zenon, <1>7, <3>1 DEF SelfHeals, TypeOK, leaderVars, seen, applied, aux
  <2> QED BY Zenon, <1>7, <2>2, <2>3 DEF SelfHeals
<1> QED BY Zenon, <1>1, <1>2, <1>3, <1>4, <1>5, <1>6, <1>7 DEF Retry

\* Every step keeps the types.
LEMMA NextType == ASSUME TypeOK, [Next]_vars PROVE TypeOK'
<1>1. CASE UNCHANGED vars
  BY Zenon, <1>1 DEF TypeOK, vars, leaderVars, seen, applied, stashes, where, aux
<1> QED BY Zenon, <1>1, LeadersType, PipelineType, StartupType, WatcherType, RetryType DEF Next

-----------------------------------------------------------------------------
(* What a step has to respect                                              *)

\* Something at least as new as a is in hand after the step, or committed.
Kept(a) == AtLeast(committedAssignment', a) \/ \E b \in Target : Held(b)' /\ AtLeast(b, a)

\* What a goroutine or a stash holds after the step is kept, and so is Zero.
LEMMA KeptFacts ==
    ASSUME TypeOK', NEW a \in Target
    PROVE  /\ Kept(Zero)
           /\ \A g \in Go : AtLeast(cand'[g], a) /\ (g = "commit" => pc'[g] # "select") => Kept(a)
           /\ AtLeast(stashedApplyRetry', a) => Kept(a)
           /\ AtLeast(stashedFetchRetry', a) => Kept(a)
           /\ AtLeast(committedAssignment', a) => Kept(a)
<1>0. /\ committedAssignment' \in Target /\ stashedApplyRetry' \in Target /\ stashedFetchRetry' \in Target
      /\ \A g \in Go : cand'[g] \in Target
  BY Zenon DEF TypeOK
<1>1. Kept(Zero)
  BY Zenon, <1>0, Order DEF Kept
<1>2. ASSUME NEW g \in Go, AtLeast(cand'[g], a), g = "commit" => pc'[g] # "select" PROVE Kept(a)
  BY Zenon, <1>0, <1>2 DEF Kept, Held
<1>3. ASSUME AtLeast(stashedApplyRetry', a) \/ AtLeast(stashedFetchRetry', a) PROVE Kept(a)
  BY Zenon, <1>0, <1>3 DEF Kept, Held
<1>4. AtLeast(committedAssignment', a) => Kept(a)
  BY Zenon DEF Kept
<1> QED BY Zenon, <1>1, <1>2, <1>3, <1>4

\* A step of goroutine g that passes on what the stashes held uncovers only
\* what g alone covered.
LEMMA CoverDrops ==
    ASSUME TypeOK, TypeOK', AtLeast(committedAssignment', committedAssignment),
           NEW g \in Go,
           \A h \in Go \ {g} : cand'[h] = cand[h] /\ (pc'[h] = "select" => pc[h] = "select"),
           Kept(stashedApplyRetry), Kept(stashedFetchRetry),
           NEW t \in Target, Covered(t)
    PROVE  Kept(t) \/ (AtLeast(cand[g], t) /\ (g = "commit" => pc[g] # "select"))
<1>0. /\ committedAssignment \in Target /\ stashedApplyRetry \in Target /\ stashedFetchRetry \in Target
      /\ committedAssignment' \in Target /\ \A h \in Go : cand[h] \in Target /\ cand'[h] \in Target
  BY Zenon DEF TypeOK
<1>1. ASSUME NEW a \in Target, AtLeast(a, t), Kept(a) PROVE Kept(t)
  BY Zenon, <1>0, <1>1, Order DEF Kept
<1>2. CASE AtLeast(committedAssignment, t)
  BY Zenon, <1>0, <1>2, Order DEF Kept
<1>3. ASSUME NEW h \in Go \ {g}, AtLeast(cand[h], t), h = "commit" => pc[h] # "select" PROVE Kept(t)
  <2>1. AtLeast(cand'[h], t) /\ (h = "commit" => pc'[h] # "select")
    BY Zenon, <1>3
  <2> QED BY Zenon, <2>1, KeptFacts
<1>4. CASE AtLeast(stashedApplyRetry, t) \/ AtLeast(stashedFetchRetry, t)
  BY Zenon, <1>0, <1>1, <1>4
<1> QED BY <1>2, <1>3, <1>4 DEF Covered, Held

\* If it passes on what g held as well, it uncovers nothing.
LEMMA CoverMoves ==
    ASSUME TypeOK, TypeOK', AtLeast(committedAssignment', committedAssignment),
           NEW g \in Go,
           \A h \in Go \ {g} : cand'[h] = cand[h] /\ (pc'[h] = "select" => pc[h] = "select"),
           (g = "commit" => pc[g] # "select") => Kept(cand[g]),
           Kept(stashedApplyRetry), Kept(stashedFetchRetry),
           NEW t \in Target, Covered(t)
    PROVE  Kept(t)
<1>1. Kept(t) \/ (AtLeast(cand[g], t) /\ (g = "commit" => pc[g] # "select"))
  BY Zenon, CoverDrops
<1>2. cand[g] \in Target
  BY Zenon DEF TypeOK
<1> QED BY <1>1, <1>2, Order DEF Kept, TypeOK

\* A cover that is kept covers the fence and the snapshot after the step.
LEMMA KeptCovers ==
    /\ Kept(highestAcceptedTarget') => Covered(highestAcceptedTarget)'
    /\ Kept(assignment') => Covered(assignment)'
BY Zenon DEF Kept, Covered

\* A step that uncovers nothing and moves neither the fence nor the snapshot.
LEMMA CalmKeeps ==
    ASSUME IInv, TypeOK', UNCHANGED <<highestAcceptedTarget, assignment>>, AtLeast(refused', refused),
           \A t \in Target : Covered(t) => Kept(t),
           pc["recover"] = "guard" => pc'["recover"] = "guard",
           pc'["commit"] = "select" =>
              \/ cand'["commit"].v > assignment.v
              \/ pc["commit"] = "select" /\ cand'["commit"] = cand["commit"]
    PROVE  FenceCovered' /\ SnapshotCovered'
<1>0. /\ highestAcceptedTarget \in Target /\ assignment \in Target
      /\ refused \in Target /\ refused' \in Target
  BY Zenon DEF IInv, LockInv, TypeOK
<1>1. ASSUME NEW t \in Target, t = highestAcceptedTarget, Kept(t) PROVE Covered(highestAcceptedTarget)'
  BY Zenon, <1>1 DEF Kept, Covered
<1>2. ASSUME NEW t \in Target, t = assignment, Kept(t) PROVE Covered(assignment)'
  BY Zenon, <1>2 DEF Kept, Covered
<1>3. Covered(highestAcceptedTarget) => Covered(highestAcceptedTarget)'
  BY Zenon, <1>0, <1>1
<1>4. Covered(assignment) => Covered(assignment)'
  BY Zenon, <1>0, <1>2
<1>5. FenceCovered /\ SnapshotCovered
  BY Zenon DEF IInv
<1>6. FenceCovered'
  BY Zenon, <1>0, <1>3, <1>5, Order DEF FenceCovered
<1>7. SnapshotCovered'
  BY Zenon, <1>0, <1>4, <1>5 DEF SnapshotCovered
<1> QED BY Zenon, <1>6, <1>7

\* A step that gives up a target that lost at the gates: it is older than the
\* fence or the snapshot, and what covers that one covers the other.
LEMMA DropKeeps ==
    ASSUME IInv, TypeOK', UNCHANGED <<highestAcceptedTarget, assignment, refused>>,
           NEW a \in Target, ~Gate(a),
           \A t \in Target : Covered(t) => Kept(t) \/ AtLeast(a, t),
           pc["recover"] = "guard" => pc'["recover"] = "guard",
           pc'["commit"] = "select" => pc["commit"] = "select" /\ cand'["commit"] = cand["commit"]
    PROVE  FenceCovered' /\ SnapshotCovered'
<1>0. highestAcceptedTarget \in Target /\ assignment \in Target /\ committedAssignment' \in Target
  BY Zenon DEF IInv, LockInv, TypeOK
<1>1. Covered(highestAcceptedTarget) => Kept(highestAcceptedTarget) \/ AtLeast(a, highestAcceptedTarget)
  BY Zenon, <1>0
<1>2. Covered(assignment) => Kept(assignment) \/ AtLeast(a, assignment)
  BY Zenon, <1>0
<1>3. Kept(assignment) /\ AtLeast(assignment, highestAcceptedTarget) => Kept(highestAcceptedTarget)
  BY Zenon, <1>0, Order DEF Kept
<1>4. /\ Kept(highestAcceptedTarget) => Covered(highestAcceptedTarget)'
      /\ Kept(assignment) => Covered(assignment)'
  BY Zenon, KeptCovers
<1>5. ~AtLeast(a, assignment) \/ ~AtLeast(a, highestAcceptedTarget)
  BY Zenon DEF Gate, AtLeast
<1>6. FenceCovered /\ SnapshotCovered
  BY Zenon DEF IInv
<1>7. SnapshotCovered'
  BY Zenon, <1>0, <1>2, <1>4, <1>5, <1>6, Order DEF SnapshotCovered
<1>8. FenceCovered'
  <2>1. CASE Covered(highestAcceptedTarget) /\ ~Kept(highestAcceptedTarget)
    <3>1. AtLeast(a, highestAcceptedTarget) /\ ~AtLeast(a, assignment)
      BY Zenon, <1>1, <1>5, <2>1
    <3>2. AtLeast(assignment, highestAcceptedTarget) /\ ~AtLeast(highestAcceptedTarget, assignment)
      BY Zenon, <1>0, <3>1, Order
    <3>3. highestAcceptedTarget # Zero
      BY Zenon, <2>1, KeptFacts, Order
    <3>4. Kept(assignment) \/ pc["recover"] = "guard"
      BY Zenon, <1>2, <1>6, <3>1, <3>2, <3>3 DEF SnapshotCovered
    <3> QED BY Zenon, <1>3, <2>1, <3>2, <3>4 DEF FenceCovered
  <2> QED BY Zenon, <1>4, <1>6, <2>1 DEF FenceCovered
<1> QED BY Zenon, <1>7, <1>8

\* A step outside the critical section that moves none of the four targets
\* keeps the lock and the order of startup.
LEMMA QuietKeeps ==
    ASSUME IInv, TypeOK', UNCHANGED <<highestAcceptedTarget, assignment, committedAssignment, hand>>,
           pc["boot"] # "wait", pc'["boot"] # "wait", pc["boot"] = "done" => pc'["boot"] = "done",
           \A h \in Watcher \cup {"recover"} : pc[h] = "off" => pc'[h] = "off",
           \A h \in Go : pc'[h] \in {"handoff", "ack"} => pc'[h] = pc[h] /\ cand'[h] = cand[h],
           pc'["alias"] = "select" => pc["alias"] = "select" /\ cand'["alias"] = cand["alias"],
           pc'["boot"] = "applied" =>
              cand'["boot"] = cand["boot"] /\ (pc["boot"] = "applied" \/ ~Gate(cand["boot"]))
    PROVE  LockInv' /\ StartupApplied'
<1>0. TypeOK /\ Locked /\ StartupFirst /\ Fenced /\ StartupApplied
  BY Zenon DEF IInv, LockInv
<1>1. Locked'
  BY <1>0 DEF Locked
<1>2. StartupFirst'
  BY Zenon, <1>0 DEF StartupFirst
<1>3. Fenced'
  BY Zenon, <1>0 DEF Fenced
<1>4. StartupApplied'
  BY Zenon, <1>0 DEF StartupApplied, Gate
<1> QED BY Zenon, <1>1, <1>2, <1>3, <1>4 DEF LockInv

\* Who has started, and what the four targets are.
LEMMA Started ==
    ASSUME IInv
    PROVE  /\ \A g \in Go : pc[g] \notin {"off", "wait"} => pc["boot"] # "wait"
           /\ \A g \in Loop : pc[g] # "off" => pc["boot"] # "wait"
           /\ \A g \in Watcher \cup {"recover"} : pc[g] # "off" => pc["boot"] = "done"
           /\ TypeOK /\ HandsEmpty /\ StashesWatched
BY Zenon DEF IInv, LockInv, StartupFirst, Go

\* A step of goroutine g outside the critical section, which moves none of the
\* targets and keeps what g held.
LEMMA StepKeeps ==
    ASSUME IInv, TypeOK', NEW g \in Go, NEW l \in Where, NEW a \in Target, Step(g, l, a),
           UNCHANGED <<highestAcceptedTarget, assignment, committedAssignment, hand, refused, stashes>>,
           pc[g] # "off", g = "boot" => pc[g] # "wait" /\ pc[g] # "done" /\ l # "wait",
           l \notin {"handoff", "ack", "applied"}, g = "recover" => pc[g] # "guard",
           l \in {"wait", "off", "idle", "leave", "guard", "failed", "done"} => a = Zero,
           l = "build" => g # "boot",
           l = "off" => g \in Loop /\ StashOf(g) = Zero,
           l = "select" => g = "commit" /\ a.v > assignment.v,
           (g = "commit" /\ pc[g] = "select") \/ cand[g] = Zero \/ (a = cand[g] /\ l # "select")
    PROVE  IInv'
<1>0. TypeOK /\ TypeOK' /\ HandsEmpty /\ StashesWatched
  BY Zenon, Started
<1>1. /\ pc'[g] = l /\ cand'[g] = a
      /\ \A h \in Go \ {g} : pc'[h] = pc[h] /\ cand'[h] = cand[h]
  BY Zenon, <1>0, StepFacts
<1>2. /\ committedAssignment \in Target /\ stashedApplyRetry \in Target /\ stashedFetchRetry \in Target
      /\ refused \in Target /\ cand[g] \in Target
      /\ stashedApplyRetry' = stashedApplyRetry /\ stashedFetchRetry' = stashedFetchRetry
  BY Zenon, <1>0 DEF TypeOK, stashes
<1>3. Kept(stashedApplyRetry) /\ Kept(stashedFetchRetry)
  BY Zenon, <1>2, KeptFacts, Order
<1>4. (g = "commit" => pc[g] # "select") => Kept(cand[g])
  BY ZenonT(30), <1>1, <1>2, KeptFacts, Order
<1>5. \A t \in Target : Covered(t) => Kept(t)
  BY SMTT(40), <1>0, <1>1, <1>2, <1>3, <1>4, CoverMoves, Order
<1>6. pc["recover"] = "guard" => pc'["recover"] = "guard"
  BY Zenon, <1>1, GoNames
<1>7. pc'["commit"] = "select" =>
         \/ cand'["commit"].v > assignment.v
         \/ pc["commit"] = "select" /\ cand'["commit"] = cand["commit"]
  BY Zenon, <1>1, GoNames
<1>8. FenceCovered' /\ SnapshotCovered'
  BY Zenon, <1>0, <1>2, <1>5, <1>6, <1>7, CalmKeeps, Order
<1>9. HandsEmpty'
  BY Zenon, <1>0, <1>1, GoNames DEF HandsEmpty
<1>10. StashesWatched'
  BY Zenon, <1>0, <1>1, <1>2, GoNames DEF StashesWatched, StashOf, Loop
<1>11. LockInv' /\ StartupApplied'
  <2>1. pc["boot"] # "wait" /\ pc'["boot"] # "wait" /\ (pc["boot"] = "done" => pc'["boot"] = "done")
    <3>1. pc["boot"] # "wait"
      <4>1. CASE pc[g] # "wait"
        BY Zenon, <4>1, Started
      <4>2. CASE pc[g] = "wait" /\ g # "boot"
        BY Zenon, <4>2, Started, GoNames DEF IInv, LockInv, StartupFirst, Go
      <4> QED BY Zenon, <4>1, <4>2
    <3> QED BY Zenon, <1>1, <3>1, GoNames
  <2>2. \A h \in Watcher \cup {"recover"} : pc[h] = "off" => pc'[h] = "off"
    BY Zenon, <1>1, GoNames
  <2>3. \A h \in Go : pc'[h] \in {"handoff", "ack"} => pc'[h] = pc[h] /\ cand'[h] = cand[h]
    BY Zenon, <1>1
  <2>4. pc'["alias"] = "select" => pc["alias"] = "select" /\ cand'["alias"] = cand["alias"]
    BY Zenon, <1>1, GoNames
  <2>5. pc'["boot"] = "applied" => cand'["boot"] = cand["boot"] /\ pc["boot"] = "applied"
    BY Zenon, <1>1, GoNames
  <2> QED BY ZenonT(40), <2>1, <2>2, <2>3, <2>4, <2>5, QuietKeeps
<1> QED BY Zenon, <1>8, <1>9, <1>10, <1>11 DEF IInv

-----------------------------------------------------------------------------
(* The actions                                                             *)

\* What the leaders publish does not touch the worker.
LEMMA LeadersKeep == ASSUME IInv, Leaders \/ UNCHANGED vars PROVE IInv'
<1>0. TypeOK'
  BY Zenon, NextType DEF IInv, LockInv, Next
<1>1. UNCHANGED <<seen, applied, highestAcceptedTarget, stashes, where, stable, aux>>
  BY Zenon DEF Leaders, vars
<1>2. LockInv'
  BY Zenon, <1>0, <1>1 DEF IInv, LockInv, Locked, StartupFirst, Fenced, applied, where, aux
<1>3. HandsEmpty' /\ StartupApplied' /\ StashesWatched'
  BY Zenon, <1>1 DEF IInv, HandsEmpty, StartupApplied, StashesWatched, StashOf, Gate, applied, where, stashes
<1>4. FenceCovered' /\ SnapshotCovered'
  BY Zenon, <1>1 DEF IInv, FenceCovered, SnapshotCovered, Covered, Held, applied, where, stashes, aux
<1> QED BY Zenon, <1>2, <1>3, <1>4 DEF IInv

\* waitForAssignment stores the alias while nothing else runs.
LEMMA WaitKeeps == ASSUME IInv, WaitForAssignment PROVE IInv'
<1>0. TypeOK /\ TypeOK' /\ HandsEmpty /\ Locked /\ StartupFirst /\ Fenced /\ StashesWatched
  BY Zenon, NextType DEF IInv, LockInv, Next
<1>1. PICK l \in {"build", "failed"} : Step("boot", l, Zero)
  BY Zenon DEF WaitForAssignment
<1>2. /\ pc'["boot"] = l /\ cand'["boot"] = Zero
      /\ \A h \in Go \ {"boot"} : pc'[h] = pc[h] /\ cand'[h] = cand[h]
  BY <1>0, <1>1, StepFacts, GoNames DEF Where
<1>3. /\ \A h \in Go \ {"boot"} : pc[h] = "off"
      /\ highestAcceptedTarget = Zero /\ committedAssignment = Zero
  BY Zenon, <1>0 DEF WaitForAssignment, StartupFirst, Go, Watcher, Loop
<1>4. UNCHANGED <<highestAcceptedTarget, committedAssignment, hand, stashes>>
  BY ZenonT(30) DEF WaitForAssignment, aux
<1>5. Locked' /\ StartupFirst' /\ HandsEmpty' /\ StartupApplied'
  BY ZenonT(30), <1>0, <1>2, <1>3, GoNames DEF Locked, StartupFirst, HandsEmpty, StartupApplied, Watcher
<1>6. Fenced'
  BY Zenon, <1>0, <1>2, <1>3, <1>4, Order, GoNames DEF Fenced, TypeOK
<1>7. StashesWatched'
  BY Zenon, <1>0, <1>2, <1>4, GoNames DEF StashesWatched, StashOf, stashes, Loop
<1>8. FenceCovered' /\ SnapshotCovered'
  BY Zenon, <1>0, <1>2, <1>3, <1>4, Order, GoNames DEF FenceCovered, SnapshotCovered, Covered
<1> QED BY Zenon, <1>0, <1>5, <1>6, <1>7, <1>8 DEF IInv, LockInv

\* applyInitialAssignment chooses between the live commit and the alias.
LEMMA InitialKeeps == ASSUME IInv, ApplyInitialAssignment PROVE IInv'
<1>0. TypeOK /\ TypeOK' /\ HandsEmpty
  BY Zenon, NextType DEF IInv, LockInv, Next
<1>1. PICK a \in Target : Step("boot", "lock", a)
  BY Zenon, <1>0 DEF ApplyInitialAssignment, TypeOK
<1>2. pc["boot"] = "build" /\ cand["boot"] = Zero
  BY Zenon, <1>0 DEF ApplyInitialAssignment, HandsEmpty
<1>3. UNCHANGED <<highestAcceptedTarget, assignment, committedAssignment, hand, refused, stashes>>
  BY Zenon DEF ApplyInitialAssignment, applied, aux
<1> QED BY Zenon, <1>0, <1>1, <1>2, <1>3, StepKeeps, GoNames DEF Where

\* A payload that was fetched goes on to the pipeline.
LEMMA BuiltKeeps == ASSUME IInv, NEW g \in Go, Built(g) PROVE IInv'
<1>0. TypeOK /\ TypeOK' /\ cand[g] \in Target
  BY Zenon, NextType DEF IInv, LockInv, Next, TypeOK
<1>1. UNCHANGED <<highestAcceptedTarget, assignment, committedAssignment, hand, refused, stashes>>
  BY Zenon DEF Built, applied, aux
<1>2. Step(g, "lock", cand[g]) /\ pc[g] = "build" /\ g \in {"commit", "fetch"}
  BY Zenon DEF Built
<1> QED BY Zenon, <1>0, <1>1, <1>2, StepKeeps DEF Where

\* A loop that found its stash empty leaves, or looks again.
LEMMA LeaveKeeps == ASSUME IInv, NEW g \in Loop, RetryEmpty(g) \/ RetryLeaves(g) PROVE IInv'
<1>0. TypeOK /\ TypeOK' /\ HandsEmpty
  BY Zenon, NextType DEF IInv, LockInv, Next, Retry
<1>1. UNCHANGED <<highestAcceptedTarget, assignment, committedAssignment, hand, refused, stashes>>
  BY Zenon DEF RetryEmpty, RetryLeaves, applied, aux
<1>2. PICK l \in {"leave", "off", "wait"} : Step(g, l, Zero) /\ (l = "off" => StashOf(g) = Zero)
  BY Zenon DEF RetryEmpty, RetryLeaves
<1>3. pc[g] \in {"wait", "leave"} /\ cand[g] = Zero /\ g \in {"apply", "fetch"}
  BY Zenon, <1>0, GoNames DEF RetryEmpty, RetryLeaves, HandsEmpty, Loop
<1>4. l \in Where /\ l \notin {"handoff", "ack", "applied"} /\ l # "build" /\ l # "select"
  BY Zenon DEF Where
<1>5. g \in Go /\ g # "boot" /\ g # "recover" /\ pc[g] # "off"   BY Zenon, <1>3, GoNames
<1> QED BY Zenon, <1>0, <1>1, <1>2, <1>3, <1>4, <1>5, StepKeeps, GoNames

\* refreshAssignmentFromNATS reads the alias.
LEMMA RefreshReadsKeeps == ASSUME IInv, RefreshReads PROVE IInv'
<1>0. TypeOK /\ TypeOK' /\ HandsEmpty /\ alias \in Target
  BY Zenon, NextType DEF IInv, LockInv, Next, TypeOK
<1>1. UNCHANGED <<highestAcceptedTarget, assignment, committedAssignment, hand, refused, stashes>>
  BY Zenon DEF RefreshReads, applied
<1>2. pc["recover"] = "idle" /\ cand["recover"] = Zero /\ Step("recover", "refresh", alias)
  BY Zenon, <1>0, GoNames DEF RefreshReads, HandsEmpty
<1> QED BY Zenon, <1>0, <1>1, <1>2, StepKeeps, GoNames DEF Where

\* handleCommitValueOnce up to the dual-read rule.
LEMMA CommitValueKeeps == ASSUME IInv, HandleCommitValue PROVE IInv'
<1>0. TypeOK /\ TypeOK' /\ HandsEmpty
  BY Zenon, NextType DEF IInv, LockInv, Next
<1>1. UNCHANGED <<highestAcceptedTarget, assignment, committedAssignment, hand, refused, stashes>>
  BY Zenon DEF HandleCommitValue, aux
<1>2. PICK c \in old \cup {com} :
         CommitArrives(c) /\ (CommitNotNewer(c) \/ CommitOfStaleLeader(c) \/ CommitObserved(c))
  BY Zenon DEF HandleCommitValue
<1>3. c \in Target
  BY Zenon, <1>0 DEF TypeOK
<1>4. CASE CommitObserved(c)
  <2>1. pc["commit"] = "idle" /\ cand["commit"] = Zero /\ Step("commit", "select", c) /\ c.v > assignment.v
    BY Zenon, <1>0, <1>2, <1>4, GoNames DEF CommitArrives, CommitObserved, HandsEmpty
  <2> QED BY Zenon, <1>0, <1>1, <1>3, <2>1, StepKeeps, GoNames DEF Where
<1>5. CASE UNCHANGED where
  <2>1. LockInv'
    BY Zenon, <1>0, <1>1, <1>5 DEF IInv, LockInv, Locked, StartupFirst, Fenced, where
  <2>2. HandsEmpty' /\ StartupApplied' /\ StashesWatched'
    BY Zenon, <1>1, <1>5 DEF IInv, HandsEmpty, StartupApplied, StashesWatched, StashOf, Gate, where, stashes
  <2>3. FenceCovered' /\ SnapshotCovered'
    BY Zenon, <1>1, <1>5 DEF IInv, FenceCovered, SnapshotCovered, Covered, Held, where, stashes
  <2> QED BY Zenon, <2>1, <2>2, <2>3 DEF IInv
<1> QED BY Zenon, <1>2, <1>4, <1>5 DEF CommitNotNewer, CommitOfStaleLeader

\* What Return does to its goroutine.
LEMMA ReturnFacts ==
    ASSUME TypeOK, NEW g \in Go, Return(g, FALSE)
    PROVE  /\ pc'[g] = IF g = "boot" THEN "applied" ELSE IF g \in Loop THEN "wait" ELSE "idle"
           /\ cand'[g] = IF g = "boot" THEN cand[g] ELSE Zero
           /\ \A h \in Go \ {g} : pc'[h] = pc[h] /\ cand'[h] = cand[h]
<1>0. cand[g] \in Target
  BY Zenon DEF TypeOK
<1>1. CASE g = "boot"
  <2>1. Step(g, "applied", cand[g])
    BY Zenon, <1>1 DEF Return, Loop
  <2> QED BY <1>0, <1>1, <2>1, StepFacts DEF Where
<1>2. CASE g \in Loop
  <2>1. Step(g, "wait", Zero) /\ g # "boot"
    BY Zenon, <1>2 DEF Return, Loop
  <2> QED BY Zenon, <1>2, <2>1, StepFacts, GoNames DEF Where
<1>3. CASE g # "boot" /\ g \notin Loop
  <2>1. Step(g, "idle", Zero)
    BY Zenon, <1>3 DEF Return
  <2> QED BY Zenon, <1>3, <2>1, StepFacts, GoNames DEF Where
<1> QED BY Zenon, <1>1, <1>2, <1>3

\* A candidate that loses at the gates is dropped.
LEMMA DroppedKeeps == ASSUME IInv, NEW g \in Go, ApplyDropped(g) PROVE IInv'
<1>0. TypeOK /\ TypeOK' /\ HandsEmpty /\ StashesWatched
  BY Zenon, NextType DEF IInv, LockInv, Next, Pipeline
<1>1. /\ pc[g] = "lock" /\ ~Gate(cand[g]) /\ Return(g, FALSE)
      /\ UNCHANGED <<highestAcceptedTarget, assignment, committedAssignment, hand, refused>>
      /\ stashedApplyRetry' = stashedApplyRetry /\ stashedFetchRetry' = stashedFetchRetry
  BY Zenon DEF ApplyDropped, applied, stashes, aux
<1>2. /\ pc'[g] = IF g = "boot" THEN "applied" ELSE IF g \in Loop THEN "wait" ELSE "idle"
      /\ cand'[g] = IF g = "boot" THEN cand[g] ELSE Zero
      /\ \A h \in Go \ {g} : pc'[h] = pc[h] /\ cand'[h] = cand[h]
  BY ZenonT(40), <1>0, <1>1, ReturnFacts
<1>3. /\ committedAssignment \in Target /\ stashedApplyRetry \in Target /\ stashedFetchRetry \in Target
      /\ cand[g] \in Target
  BY Zenon, <1>0 DEF TypeOK
<1>4. Kept(stashedApplyRetry) /\ Kept(stashedFetchRetry)
  BY Zenon, <1>0, <1>1, <1>3, KeptFacts, Order
<1>5. \A t \in Target : Covered(t) => Kept(t) \/ AtLeast(cand[g], t)
  BY Zenon, <1>0, <1>1, <1>2, <1>3, <1>4, CoverDrops, Order
<1>6. /\ pc["recover"] = "guard" => pc'["recover"] = "guard"
      /\ pc'["commit"] = "select" => pc["commit"] = "select" /\ cand'["commit"] = cand["commit"]
  BY Zenon, <1>1, <1>2, GoNames
<1>7. FenceCovered' /\ SnapshotCovered'
  BY Zenon, <1>0, <1>1, <1>3, <1>5, <1>6, DropKeeps
<1>8. HandsEmpty' /\ StashesWatched'
  BY Zenon, <1>0, <1>1, <1>2, GoNames DEF HandsEmpty, StashesWatched, StashOf, Loop
<1>9. LockInv' /\ StartupApplied'
  <2>1. pc["boot"] # "wait" /\ pc'["boot"] # "wait" /\ (pc["boot"] = "done" => pc'["boot"] = "done")
    BY Zenon, <1>1, <1>2, Started, GoNames
  <2>2. \A h \in Watcher \cup {"recover"} : pc[h] = "off" => pc'[h] = "off"
    BY Zenon, <1>1, <1>2, GoNames
  <2>3. \A h \in Go : pc'[h] \in {"handoff", "ack"} => pc'[h] = pc[h] /\ cand'[h] = cand[h]
    BY Zenon, <1>2
  <2>4. pc'["alias"] = "select" => pc["alias"] = "select" /\ cand'["alias"] = cand["alias"]
    BY Zenon, <1>2, GoNames
  <2>5. pc'["boot"] = "applied" =>
           cand'["boot"] = cand["boot"] /\ (pc["boot"] = "applied" \/ ~Gate(cand["boot"]))
    BY Zenon, <1>1, <1>2, GoNames
  <2> QED BY Zenon, <1>0, <1>1, <2>1, <2>2, <2>3, <2>4, <2>5, QuietKeeps
<1> QED BY Zenon, <1>7, <1>8, <1>9 DEF IInv

\* Startup's result stays applied or outdone when the targets advance.
LEMMA AppliedStays ==
    ASSUME TypeOK, TypeOK', StartupApplied,
           AtLeast(highestAcceptedTarget', highestAcceptedTarget), AtLeast(assignment', assignment),
           AtLeast(committedAssignment', committedAssignment),
           pc'["boot"] = "applied" => pc["boot"] = "applied" /\ cand'["boot"] = cand["boot"]
    PROVE  StartupApplied'
<1>0. /\ highestAcceptedTarget \in Target /\ assignment \in Target /\ committedAssignment \in Target
      /\ highestAcceptedTarget' \in Target /\ assignment' \in Target /\ committedAssignment' \in Target
      /\ cand["boot"] \in Target
  BY Zenon, GoNames DEF TypeOK
<1>1. ASSUME pc'["boot"] = "applied", AtLeast(committedAssignment, cand["boot"])
      PROVE  AtLeast(committedAssignment', cand'["boot"])
  BY ZenonT(30), <1>0, <1>1, Order
<1>2. ASSUME pc'["boot"] = "applied", ~Gate(cand["boot"])
      PROVE  ~AtLeast(cand'["boot"], assignment') \/ ~AtLeast(cand'["boot"], highestAcceptedTarget')
  <2>1. ~AtLeast(cand["boot"], assignment) \/ ~AtLeast(cand["boot"], highestAcceptedTarget)
    BY Zenon, <1>2 DEF Gate, AtLeast
  <2> QED BY Zenon, <1>0, <1>2, <2>1, Order
<1> QED BY Zenon, <1>1, <1>2 DEF StartupApplied, Gate, AtLeast

\* A candidate that passes the gates raises the fence.
LEMMA BeginsKeeps == ASSUME IInv, NEW g \in Go, ApplyBegins(g) PROVE IInv' /\ AdvanceStep
<1>0. TypeOK /\ TypeOK' /\ HandsEmpty /\ StashesWatched /\ StartupFirst /\ StartupApplied /\ Fenced
  BY Zenon, NextType DEF IInv, LockInv, Next, Pipeline
<1>1. /\ pc[g] = "lock" /\ Free /\ AtLeast(cand[g], assignment) /\ AtLeast(cand[g], highestAcceptedTarget)
      /\ highestAcceptedTarget' = Raised(cand[g]) /\ hand' = cand[g] /\ Step(g, "handoff", cand[g])
      /\ UNCHANGED <<assignment, committedAssignment, refused, stashedApplyRetry, stashedFetchRetry>>
  BY Zenon DEF ApplyBegins, applied, stashes, Gate, AtLeast
<1>2. /\ highestAcceptedTarget \in Target /\ assignment \in Target /\ cand[g] \in Target
      /\ highestAcceptedTarget' \in Target /\ hand \in Target /\ committedAssignment \in Target
  BY Zenon, <1>0 DEF TypeOK
<1>3. /\ pc'[g] = "handoff" /\ cand'[g] = cand[g]
      /\ \A h \in Go \ {g} : pc'[h] = pc[h] /\ cand'[h] = cand[h]
  BY ZenonT(30), <1>0, <1>1, <1>2, StepFacts DEF Where
<1>4. /\ AtLeast(highestAcceptedTarget', cand[g]) /\ AtLeast(highestAcceptedTarget', highestAcceptedTarget)
      /\ AtLeast(cand[g], highestAcceptedTarget')
  BY Zenon, <1>0, <1>1, <1>2, RaisedFacts
<1>5. AdvanceStep
  <2>1. AtLeast(hand', hand)
    BY Zenon, <1>0, <1>1, <1>2, Order DEF Fenced
  <2>2. AtLeast(assignment', assignment)
    BY Zenon, <1>1, <1>2, Order
  <2> QED BY Zenon, <2>1, <2>2 DEF AdvanceStep, AtLeast
<1>6. Locked'
  BY ZenonT(30), <1>1, <1>3 DEF Locked, Free
<1>7. StartupFirst'
  <2>1. pc["boot"] # "wait"   BY Zenon, <1>1, Started
  <2>2. pc'["boot"] # "wait"   BY Zenon, <1>3, <2>1, GoNames
  <2>3. ASSUME pc'["boot"] # "done", NEW h \in Watcher \cup {"recover"} PROVE pc'[h] = "off"
    <3>1. h \in Go /\ h # "boot"   BY Zenon DEF Go, Watcher
    <3>2. pc["boot"] # "done"   BY Zenon, <1>1, <1>3, <2>3, GoNames
    <3>3. pc[h] = "off"   BY Zenon, <1>0, <3>2 DEF StartupFirst
    <3> QED BY Zenon, <1>1, <1>3, <3>1, <3>3
  <2> QED BY Zenon, <2>2, <2>3 DEF StartupFirst
<1>8. Fenced'
  <2>1. \A a \in Target : AtLeast(highestAcceptedTarget, a) => AtLeast(highestAcceptedTarget', a)
    BY Zenon, <1>2, <1>4, Order
  <2>2. cand["alias"] \in Target /\ (pc'["alias"] = "select" => pc["alias"] = "select" /\ cand'["alias"] = cand["alias"])
    BY Zenon, <1>0, <1>3, GoNames DEF TypeOK
  <2> QED BY Zenon, <1>0, <1>1, <1>4, <2>1, <2>2 DEF Fenced
<1>9. StartupApplied'
  BY ZenonT(40), <1>0, <1>1, <1>2, <1>3, <1>4, AppliedStays, Order, GoNames
<1>10. HandsEmpty' /\ StashesWatched'
  BY Zenon, <1>0, <1>1, <1>3, GoNames DEF HandsEmpty, StashesWatched, StashOf, Loop
<1>11. FenceCovered'
  <2>1. Kept(highestAcceptedTarget')
    BY Zenon, <1>0, <1>2, <1>3, <1>4, KeptFacts
  <2> QED BY Zenon, <2>1, KeptCovers DEF FenceCovered
<1>12. SnapshotCovered'
  BY Zenon, <1>1, <1>2, <1>4, Order DEF SnapshotCovered
<1> QED BY Zenon, <1>0, <1>5, <1>6, <1>7, <1>8, <1>9, <1>10, <1>11, <1>12 DEF IInv, LockInv

\* The coordinator returned an error: the target goes to the stash.
LEMMA FailsKeeps == ASSUME IInv, NEW g \in Go, ApplyFails(g) PROVE IInv'
<1>0. TypeOK /\ TypeOK' /\ HandsEmpty /\ StashesWatched
  BY Zenon, NextType DEF IInv, LockInv, Next, Pipeline
<1>1. PICK l \in {"failed", "wait", "idle"} :
         /\ ScheduleApplyRetry(g, l, cand[g])
         /\ l = IF g = "boot" THEN "failed" ELSE IF g \in Loop THEN "wait" ELSE "idle"
  <2>1. CASE g = "boot"
    BY Zenon, <2>1 DEF ApplyFails, ScheduleApplyRetry, Loop
  <2>2. CASE g \in Loop
    BY ZenonT(40), <2>2 DEF ApplyFails, ScheduleApplyRetry, Loop
  <2>3. CASE g # "boot" /\ g \notin Loop
    BY Zenon, <2>3 DEF ApplyFails, ScheduleApplyRetry
  <2> QED BY Zenon, <2>1, <2>2, <2>3
<1>2. /\ pc[g] = "handoff"
      /\ UNCHANGED <<highestAcceptedTarget, assignment, committedAssignment, hand, refused, stashedFetchRetry>>
  BY Zenon DEF ApplyFails, applied, aux
<1>3. /\ committedAssignment \in Target /\ stashedApplyRetry \in Target /\ stashedFetchRetry \in Target
      /\ cand[g] \in Target /\ refused \in Target
  BY Zenon, <1>0 DEF TypeOK
<1>4. g = "apply" => l = "wait"
  BY Zenon, <1>1 DEF Loop
<1>5. /\ pc'[g] = l /\ cand'[g] = Zero
      /\ \A h \in Go \ {g} : cand'[h] = cand[h]
      /\ \A h \in Go \ {g, "apply"} : pc'[h] = pc[h]
      /\ g # "apply" => pc'["apply"] = IF pc["apply"] = "off" THEN "wait" ELSE pc["apply"]
      /\ AtLeast(stashedApplyRetry', stashedApplyRetry) /\ AtLeast(stashedApplyRetry', cand[g])
  BY <1>0, <1>1, <1>3, <1>4, ScheduleFacts DEF Where
<1>6. \A h \in Go \ {g} : pc'[h] = pc[h] \/ (h = "apply" /\ pc'[h] = "wait" /\ pc[h] = "off")
  BY Zenon, <1>5
<1>7. Kept(stashedApplyRetry) /\ Kept(stashedFetchRetry) /\ Kept(cand[g])
  BY ZenonT(40), <1>0, <1>2, <1>3, <1>5, KeptFacts, Order
<1>8. \A t \in Target : Covered(t) => Kept(t)
  <2>1. \A h \in Go \ {g} : cand'[h] = cand[h] /\ (pc'[h] = "select" => pc[h] = "select")
    BY ZenonT(40), <1>5, <1>6
  <2> QED BY ZenonT(40), <1>0, <1>2, <1>3, <1>7, <2>1, CoverMoves, Order
<1>9. /\ pc["recover"] = "guard" => pc'["recover"] = "guard"
      /\ pc'["commit"] = "select" => pc["commit"] = "select" /\ cand'["commit"] = cand["commit"]
  BY Zenon, <1>2, <1>5, <1>6, GoNames
<1>10. FenceCovered' /\ SnapshotCovered'
  BY Zenon, <1>0, <1>2, <1>3, <1>8, <1>9, CalmKeeps, Order
<1>11. HandsEmpty'
  BY Zenon, <1>0, <1>5, <1>6, GoNames DEF HandsEmpty
<1>12. StashesWatched'
  <2>1. pc'["apply"] # "off"
    BY Zenon, <1>1, <1>5, GoNames
  <2>2. pc'["fetch"] # "off" \/ pc'["fetch"] = pc["fetch"]
    BY Zenon, <1>1, <1>5, <1>6, GoNames
  <2> QED BY Zenon, <1>0, <1>2, <2>1, <2>2 DEF StashesWatched, StashOf, Loop
<1>13. LockInv' /\ StartupApplied'
  <2>1. pc["boot"] # "wait" /\ pc'["boot"] # "wait" /\ (pc["boot"] = "done" => pc'["boot"] = "done")
    BY ZenonT(40), <1>1, <1>2, <1>5, <1>6, Started, GoNames
  <2>2. \A h \in Watcher \cup {"recover"} : pc[h] = "off" => pc'[h] = "off"
    BY ZenonT(40), <1>2, <1>5, <1>6, GoNames DEF Watcher
  <2>3. \A h \in Go : pc'[h] \in {"handoff", "ack"} => pc'[h] = pc[h] /\ cand'[h] = cand[h]
    BY Zenon, <1>5, <1>6
  <2>4. pc'["alias"] = "select" => pc["alias"] = "select" /\ cand'["alias"] = cand["alias"]
    BY Zenon, <1>5, <1>6, GoNames
  <2>5. pc'["boot"] = "applied" => cand'["boot"] = cand["boot"] /\ pc["boot"] = "applied"
    BY Zenon, <1>5, <1>6, GoNames
  <2> QED BY Zenon, <1>0, <1>2, <2>1, <2>2, <2>3, <2>4, <2>5, QuietKeeps
<1> QED BY Zenon, <1>10, <1>11, <1>12, <1>13 DEF IInv

\* The coordinator succeeded: the snapshot is stored under the lock.
LEMMA SucceedsKeeps == ASSUME IInv, NEW g \in Go, ApplySucceeds(g) PROVE IInv' /\ AtLeast(assignment', assignment)
<1>0. TypeOK /\ TypeOK' /\ HandsEmpty /\ StashesWatched /\ StartupFirst /\ StartupApplied /\ Fenced /\ Locked
  BY Zenon, NextType DEF IInv, LockInv, Next, Pipeline
<1>1. /\ pc[g] = "handoff" /\ assignment' = cand[g] /\ Step(g, "ack", cand[g])
      /\ UNCHANGED <<highestAcceptedTarget, committedAssignment, hand, refused, stashedApplyRetry, stashedFetchRetry>>
  BY Zenon DEF ApplySucceeds, stashes, aux
<1>2. /\ highestAcceptedTarget \in Target /\ assignment \in Target /\ cand[g] \in Target /\ assignment' \in Target
      /\ committedAssignment \in Target /\ stashedApplyRetry \in Target /\ stashedFetchRetry \in Target
  BY Zenon, <1>0 DEF TypeOK
<1>3. /\ pc'[g] = "ack" /\ cand'[g] = cand[g]
      /\ \A h \in Go \ {g} : pc'[h] = pc[h] /\ cand'[h] = cand[h]
  BY <1>0, <1>1, <1>2, StepFacts DEF Where
<1>4. AtLeast(assignment', assignment)
  BY Zenon, <1>0, <1>1 DEF Locked
<1>5. Locked'
  BY <1>0, <1>1, <1>3 DEF Locked
<1>6. StartupFirst'
  BY Zenon, <1>0, <1>1, <1>3, Started, GoNames DEF StartupFirst
<1>7. Fenced'
  BY ZenonT(40), <1>0, <1>1, <1>2, <1>3, <1>4, Order, GoNames DEF Fenced
<1>8. StartupApplied'
  BY ZenonT(40), <1>0, <1>1, <1>2, <1>3, <1>4, AppliedStays, Order, GoNames
<1>9. HandsEmpty' /\ StashesWatched'
  BY ZenonT(40), <1>0, <1>1, <1>3, GoNames DEF HandsEmpty, StashesWatched, StashOf, Loop
<1>10. Kept(stashedApplyRetry) /\ Kept(stashedFetchRetry) /\ Kept(cand[g])
  BY ZenonT(40), <1>0, <1>1, <1>2, <1>3, KeptFacts, Order
<1>11. \A t \in Target : Covered(t) => Kept(t)
  BY ZenonT(30), <1>0, <1>1, <1>2, <1>3, <1>10, CoverMoves, Order
<1>12. SnapshotCovered'
  BY Zenon, <1>1, <1>10, KeptCovers DEF SnapshotCovered
<1>13. FenceCovered'
  <2>1. Covered(highestAcceptedTarget) => Covered(highestAcceptedTarget)'
    BY Zenon, <1>1, <1>2, <1>11, KeptCovers
  <2>2. pc["recover"] = "guard" => pc'["recover"] = "guard"
    BY ZenonT(40), <1>1, <1>3, GoNames
  <2>3. AtLeast(assignment, highestAcceptedTarget) => AtLeast(assignment', highestAcceptedTarget')
    BY Zenon, <1>1, <1>2, <1>4, Order
  <2> QED BY Zenon, <1>1, <2>1, <2>2, <2>3 DEF IInv, FenceCovered
<1> QED BY Zenon, <1>0, <1>4, <1>5, <1>6, <1>7, <1>8, <1>9, <1>12, <1>13 DEF IInv, LockInv

\* The snapshot is recorded as committed.
LEMMA AcksKeeps == ASSUME IInv, NEW g \in Go, ApplyAcks(g) PROVE IInv'
<1>0. TypeOK /\ TypeOK' /\ HandsEmpty /\ StashesWatched /\ StartupFirst /\ StartupApplied /\ Fenced /\ Locked
  BY Zenon, NextType DEF IInv, LockInv, Next, Pipeline
<1>1. /\ pc[g] = "ack" /\ committedAssignment' = cand[g] /\ Return(g, FALSE)
      /\ UNCHANGED <<highestAcceptedTarget, assignment, hand, refused, stashedApplyRetry, stashedFetchRetry>>
  BY Zenon DEF ApplyAcks, stashes, aux
<1>2. /\ highestAcceptedTarget \in Target /\ assignment \in Target /\ cand[g] \in Target /\ refused \in Target
      /\ committedAssignment \in Target /\ stashedApplyRetry \in Target /\ stashedFetchRetry \in Target
  BY Zenon, <1>0 DEF TypeOK
<1>3. /\ pc'[g] = IF g = "boot" THEN "applied" ELSE IF g \in Loop THEN "wait" ELSE "idle"
      /\ cand'[g] = IF g = "boot" THEN cand[g] ELSE Zero
      /\ \A h \in Go \ {g} : pc'[h] = pc[h] /\ cand'[h] = cand[h]
  BY Zenon, <1>0, <1>1, ReturnFacts
<1>4. cand[g] = assignment /\ AtLeast(committedAssignment', committedAssignment)
  BY Zenon, <1>0, <1>1 DEF Locked, Fenced
<1>5. Locked'
  BY SMTT(40), <1>0, <1>1, <1>3 DEF Locked
<1>6. StartupFirst'
  BY Zenon, <1>0, <1>1, <1>3, Started, GoNames DEF StartupFirst
<1>7. Fenced'
  BY Zenon, <1>0, <1>1, <1>2, <1>3, <1>4, Order, GoNames DEF Fenced
<1>8. StartupApplied'
  <2>1. CASE g = "boot"
    BY ZenonT(40), <1>1, <1>2, <1>3, <2>1, Order DEF StartupApplied
  <2>2. CASE g # "boot"
    BY ZenonT(40), <1>0, <1>1, <1>2, <1>3, <1>4, <2>2, AppliedStays, Order, GoNames
  <2> QED BY Zenon, <2>1, <2>2
<1>9. HandsEmpty' /\ StashesWatched'
  BY ZenonT(40), <1>0, <1>1, <1>3, GoNames DEF HandsEmpty, StashesWatched, StashOf, Loop
<1>10. Kept(stashedApplyRetry) /\ Kept(stashedFetchRetry) /\ Kept(cand[g])
  BY ZenonT(40), <1>0, <1>1, <1>2, KeptFacts, Order
<1>11. \A t \in Target : Covered(t) => Kept(t)
  BY Zenon, <1>0, <1>1, <1>2, <1>3, <1>4, <1>10, CoverMoves
<1>12. /\ pc["recover"] = "guard" => pc'["recover"] = "guard"
       /\ pc'["commit"] = "select" => pc["commit"] = "select" /\ cand'["commit"] = cand["commit"]
  BY Zenon, <1>1, <1>3, GoNames
<1>13. FenceCovered' /\ SnapshotCovered'
  BY Zenon, <1>0, <1>1, <1>2, <1>11, <1>12, CalmKeeps, Order
<1> QED BY Zenon, <1>0, <1>5, <1>6, <1>7, <1>8, <1>9, <1>13 DEF IInv, LockInv

\* handleAssignmentEntry raises the fence with the alias in hand.
LEMMA EntryKeeps == ASSUME IInv, HandleAssignmentEntry PROVE IInv'
<1>0. TypeOK /\ TypeOK' /\ HandsEmpty /\ StashesWatched /\ StartupFirst /\ StartupApplied /\ Fenced /\ Locked
  BY Zenon, NextType DEF IInv, LockInv, Next
<1>1. /\ pc["alias"] = "idle" /\ alias.v > assignment.v
      /\ highestAcceptedTarget' = Raised(alias) /\ Step("alias", "select", alias)
      /\ UNCHANGED <<assignment, committedAssignment, hand, refused, stashedApplyRetry, stashedFetchRetry>>
  BY Zenon DEF HandleAssignmentEntry, applied, stashes, aux
<1>2. /\ highestAcceptedTarget \in Target /\ assignment \in Target /\ alias \in Target /\ refused \in Target
      /\ highestAcceptedTarget' \in Target /\ hand \in Target
      /\ committedAssignment \in Target /\ stashedApplyRetry \in Target /\ stashedFetchRetry \in Target
  BY Zenon, <1>0 DEF TypeOK
<1>3. /\ pc'["alias"] = "select" /\ cand'["alias"] = alias
      /\ \A h \in Go \ {"alias"} : pc'[h] = pc[h] /\ cand'[h] = cand[h]
  BY Zenon, <1>0, <1>1, <1>2, StepFacts, GoNames DEF Where
<1>4. /\ AtLeast(highestAcceptedTarget', alias) /\ AtLeast(highestAcceptedTarget', highestAcceptedTarget)
      /\ highestAcceptedTarget' = highestAcceptedTarget \/ AtLeast(alias, highestAcceptedTarget')
  BY Zenon, <1>0, <1>1, <1>2, RaisedFacts
<1>5. Locked'
  BY <1>0, <1>1, <1>3 DEF Locked
<1>6. StartupFirst'
  BY Zenon, <1>0, <1>1, <1>3, Started, GoNames DEF StartupFirst, Watcher
<1>7. Fenced'
  BY Zenon, <1>0, <1>1, <1>2, <1>3, <1>4, Order DEF Fenced
<1>8. StartupApplied'
  BY ZenonT(40), <1>0, <1>1, <1>2, <1>3, <1>4, AppliedStays, Order, GoNames
<1>9. HandsEmpty' /\ StashesWatched'
  BY Zenon, <1>0, <1>1, <1>3, GoNames DEF HandsEmpty, StashesWatched, StashOf, Loop
<1>10. Kept(stashedApplyRetry) /\ Kept(stashedFetchRetry) /\ Kept(cand["alias"])
  BY ZenonT(40), <1>0, <1>1, <1>2, KeptFacts, Order, GoNames DEF HandsEmpty
<1>11. \A t \in Target : Covered(t) => Kept(t)
  BY ZenonT(40), <1>0, <1>1, <1>2, <1>3, <1>10, CoverMoves, Order, GoNames
<1>12. SnapshotCovered'
  BY Zenon, <1>1, <1>2, <1>4, NewerVersion, Order DEF SnapshotCovered
<1>13. FenceCovered'
  <2>1. CASE AtLeast(alias, highestAcceptedTarget')
    <3>1. Kept(highestAcceptedTarget')
      BY Zenon, <1>0, <1>2, <1>3, <2>1, KeptFacts, GoNames
    <3> QED BY Zenon, <3>1, KeptCovers DEF FenceCovered
  <2>2. CASE highestAcceptedTarget' = highestAcceptedTarget
    <3>1. Covered(highestAcceptedTarget) => Covered(highestAcceptedTarget)'
      BY Zenon, <1>2, <1>11, <2>2, KeptCovers
    <3> QED BY Zenon, <1>1, <1>3, <2>2, <3>1, GoNames DEF IInv, FenceCovered
  <2> QED BY Zenon, <1>4, <2>1, <2>2
<1> QED BY Zenon, <1>0, <1>5, <1>6, <1>7, <1>8, <1>9, <1>12, <1>13 DEF IInv, LockInv

\* The dual-read rule lets the alias on, or it is recorded as refused.
LEMMA SelectAliasKeeps == ASSUME IInv, SelectAlias PROVE IInv'
<1>0. TypeOK /\ TypeOK' /\ HandsEmpty /\ StashesWatched /\ Fenced
  BY Zenon, NextType DEF IInv, LockInv, Next
<1> DEFINE a == cand["alias"]
<1>1. /\ pc["alias"] = "select"
      /\ UNCHANGED <<highestAcceptedTarget, assignment, committedAssignment, hand, stashes>>
  BY Zenon DEF SelectAlias, applied
<1>2. /\ highestAcceptedTarget \in Target /\ assignment \in Target /\ a \in Target
      /\ refused \in Target /\ refused' \in Target /\ committedAssignment \in Target
      /\ stashedApplyRetry \in Target /\ stashedFetchRetry \in Target
      /\ stashedApplyRetry' = stashedApplyRetry /\ stashedFetchRetry' = stashedFetchRetry
  BY Zenon, <1>0, <1>1, GoNames DEF TypeOK, stashes
<1>3. CASE Step("alias", "lock", a) /\ UNCHANGED refused
  BY Zenon, <1>0, <1>1, <1>2, <1>3, StepKeeps, GoNames DEF Where
<1>4. CASE Step("alias", "idle", Zero) /\ refused' = IF isApplyResultStale(refused, a) THEN a ELSE refused
  <2>1. AtLeast(refused', a) /\ AtLeast(refused', refused) /\ AtLeast(highestAcceptedTarget, a)
    BY Zenon, <1>0, <1>1, <1>2, <1>4, Order DEF Fenced, AtLeast
  <2>2. /\ pc'["alias"] = "idle" /\ cand'["alias"] = Zero
        /\ \A h \in Go \ {"alias"} : pc'[h] = pc[h] /\ cand'[h] = cand[h]
    BY Zenon, <1>0, <1>4, StepFacts, GoNames DEF Where
  <2>3. Kept(stashedApplyRetry) /\ Kept(stashedFetchRetry)
    BY Zenon, <1>0, <1>2, KeptFacts, Order
  <2>4. \A t \in Target : Covered(t) => Kept(t) \/ AtLeast(a, t)
    BY Zenon, <1>0, <1>1, <1>2, <2>2, <2>3, CoverDrops, Order, GoNames
  <2>5. /\ pc'["recover"] = pc["recover"] /\ pc'["commit"] = pc["commit"] /\ cand'["commit"] = cand["commit"]
        /\ FenceCovered /\ SnapshotCovered
    BY Zenon, <2>2, GoNames DEF IInv
  <2>6. FenceCovered'
    <3>1. Covered(highestAcceptedTarget) =>
             Covered(highestAcceptedTarget)' \/ AtLeast(a, highestAcceptedTarget)
      BY Zenon, <1>1, <1>2, <2>4, KeptCovers
    <3> QED BY Zenon, <1>1, <1>2, <2>1, <2>5, <3>1, Order DEF FenceCovered
  <2>7. SnapshotCovered'
    <3>1. Covered(assignment) => Covered(assignment)' \/ AtLeast(a, assignment)
      BY Zenon, <1>1, <1>2, <2>4, KeptCovers
    <3> QED BY Zenon, <1>1, <1>2, <2>1, <2>5, <3>1, Order DEF SnapshotCovered
  <2>8. HandsEmpty' /\ StashesWatched'
    BY Zenon, <1>0, <1>2, <2>2, GoNames DEF HandsEmpty, StashesWatched, StashOf, Loop
  <2>9. LockInv' /\ StartupApplied'
    <3>1. pc["boot"] # "wait" /\ pc'["boot"] = pc["boot"] /\ cand'["boot"] = cand["boot"]
      BY Zenon, <1>1, <2>2, Started, GoNames
    <3> QED BY Zenon, <1>0, <1>1, <2>2, <3>1, QuietKeeps, GoNames
  <2> QED BY Zenon, <2>6, <2>7, <2>8, <2>9 DEF IInv
<1> QED BY Zenon, <1>3, <1>4 DEF SelectAlias

\* The dual-read rule lets the commit on, which raises the fence.
LEMMA SelectCommitKeeps == ASSUME IInv, SelectCommit PROVE IInv'
<1>0. TypeOK /\ TypeOK' /\ HandsEmpty /\ StashesWatched /\ StartupFirst /\ StartupApplied /\ Fenced /\ Locked
  BY Zenon, NextType DEF IInv, LockInv, Next
<1> DEFINE a == cand["commit"]
<1>1. /\ pc["commit"] = "select" /\ UNCHANGED <<assignment, committedAssignment, hand, refused, stashes>>
  BY Zenon DEF SelectCommit, applied, aux
<1>2. /\ highestAcceptedTarget \in Target /\ assignment \in Target /\ a \in Target /\ refused \in Target
      /\ highestAcceptedTarget' \in Target /\ hand \in Target
      /\ committedAssignment \in Target /\ stashedApplyRetry \in Target /\ stashedFetchRetry \in Target
      /\ stashedApplyRetry' = stashedApplyRetry /\ stashedFetchRetry' = stashedFetchRetry
  BY Zenon, <1>0, <1>1, GoNames DEF TypeOK, stashes
<1>3. CASE Step("commit", "idle", Zero) /\ UNCHANGED highestAcceptedTarget
  BY Zenon, <1>0, <1>1, <1>2, <1>3, StepKeeps, GoNames DEF Where
<1>4. CASE highestAcceptedTarget' = Raised(a) /\ Step("commit", "build", a)
  <2>1. /\ pc'["commit"] = "build" /\ cand'["commit"] = a
        /\ \A h \in Go \ {"commit"} : pc'[h] = pc[h] /\ cand'[h] = cand[h]
    BY <1>0, <1>2, <1>4, StepFacts, GoNames DEF Where
  <2>2. /\ AtLeast(highestAcceptedTarget', a) /\ AtLeast(highestAcceptedTarget', highestAcceptedTarget)
        /\ highestAcceptedTarget' = highestAcceptedTarget \/ AtLeast(a, highestAcceptedTarget')
    BY Zenon, <1>0, <1>2, <1>4, RaisedFacts
  <2>3. Locked'
    BY SMTT(40), <1>0, <1>1, <2>1 DEF Locked
  <2>4. StartupFirst'
    BY Zenon, <1>0, <1>1, <2>1, Started, GoNames DEF StartupFirst, Watcher
  <2>5. Fenced'
    <3>1. cand["alias"] \in Target /\ cand'["alias"] = cand["alias"] /\ pc'["alias"] = pc["alias"]
      BY Zenon, <1>0, <2>1, GoNames DEF TypeOK
    <3> QED BY Zenon, <1>0, <1>1, <1>2, <2>2, <3>1, Order DEF Fenced
  <2>6. StartupApplied'
    BY ZenonT(40), <1>0, <1>1, <1>2, <2>1, <2>2, AppliedStays, Order, GoNames
  <2>7. HandsEmpty' /\ StashesWatched'
    BY ZenonT(40), <1>0, <1>2, <2>1, GoNames DEF HandsEmpty, StashesWatched, StashOf, Loop
  <2>8. Kept(stashedApplyRetry) /\ Kept(stashedFetchRetry)
    BY ZenonT(40), <1>0, <1>2, KeptFacts, Order
  <2>9. \A t \in Target : Covered(t) => Kept(t)
    BY ZenonT(30), <1>0, <1>1, <1>2, <2>1, <2>8, CoverMoves, Order, GoNames
  <2>10. SnapshotCovered'
    <3>1. Covered(assignment) => Covered(assignment)'
      BY Zenon, <1>1, <1>2, <2>9, KeptCovers
    <3>2. a.v > assignment.v => AtLeast(highestAcceptedTarget', assignment)
      BY Zenon, <1>2, <2>2, NewerVersion, Order
    <3>3. AtLeast(highestAcceptedTarget, assignment) => AtLeast(highestAcceptedTarget', assignment)
      BY Zenon, <1>2, <2>2, Order
    <3>4. pc'["recover"] = pc["recover"]
      BY Zenon, <2>1, GoNames
    <3> QED BY Zenon, <1>1, <3>1, <3>2, <3>3, <3>4 DEF IInv, SnapshotCovered
  <2>11. FenceCovered'
    <3>1. CASE AtLeast(a, highestAcceptedTarget')
      <4>1. Kept(highestAcceptedTarget')
        BY Zenon, <1>0, <1>2, <2>1, <3>1, KeptFacts, GoNames
      <4> QED BY Zenon, <4>1, KeptCovers DEF FenceCovered
    <3>2. CASE highestAcceptedTarget' = highestAcceptedTarget
      <4>1. Covered(highestAcceptedTarget) => Covered(highestAcceptedTarget)'
        BY Zenon, <1>2, <2>9, <3>2, KeptCovers
      <4> QED BY Zenon, <1>1, <2>1, <3>2, <4>1, GoNames DEF IInv, FenceCovered
    <3> QED BY Zenon, <2>2, <3>1, <3>2
  <2> QED BY Zenon, <1>0, <2>3, <2>4, <2>5, <2>6, <2>7, <2>10, <2>11 DEF IInv, LockInv
<1> QED BY Zenon, <1>3, <1>4 DEF SelectCommit

\* A commit that could not be fetched goes to the stash.
LEMMA FetchFailsKeeps == ASSUME IInv, NEW g \in Go, FetchFails(g) PROVE IInv'
<1>0. TypeOK /\ TypeOK' /\ HandsEmpty /\ StashesWatched
  BY Zenon, NextType DEF IInv, LockInv, Next
<1>1. /\ g \in {"commit", "fetch"} /\ pc[g] = "build"
      /\ UNCHANGED <<highestAcceptedTarget, assignment, committedAssignment, hand, refused, stashedApplyRetry>>
      /\ stashedFetchRetry' = Stash(stashedFetchRetry, cand[g])
  BY Zenon DEF FetchFails, applied, aux
<1>2. /\ committedAssignment \in Target /\ stashedApplyRetry \in Target /\ stashedFetchRetry \in Target
      /\ cand[g] \in Target /\ refused \in Target
  BY Zenon, <1>0 DEF TypeOK
<1>3. /\ pc'[g] = IF g = "commit" THEN "idle" ELSE "wait"
      /\ cand'[g] = Zero /\ pc'["fetch"] # "off"
      /\ \A h \in Go \ {g} : cand'[h] = cand[h] /\ (pc'[h] = pc[h] \/ (h = "fetch" /\ pc'[h] = "wait" /\ pc[h] = "off"))
  <2>1. pc \in [Go -> Where] /\ cand \in [Go -> Target]
    BY Zenon, <1>0 DEF TypeOK
  <2> QED BY Zenon, <1>1, <2>1, GoNames DEF FetchFails
<1>4. AtLeast(stashedFetchRetry', stashedFetchRetry) /\ AtLeast(stashedFetchRetry', cand[g])
  BY Zenon, <1>1, <1>2, StashFacts
<1>5. Kept(stashedApplyRetry) /\ Kept(stashedFetchRetry) /\ Kept(cand[g])
  BY ZenonT(40), <1>0, <1>1, <1>2, <1>4, KeptFacts, Order
<1>6. \A t \in Target : Covered(t) => Kept(t)
  <2>1. \A h \in Go \ {g} : cand'[h] = cand[h] /\ (pc'[h] = "select" => pc[h] = "select")
    BY Zenon, <1>3
  <2> QED BY Zenon, <1>0, <1>1, <1>2, <1>5, <2>1, CoverMoves, Order
<1>7. /\ pc["recover"] = "guard" => pc'["recover"] = "guard"
      /\ pc'["commit"] = "select" => pc["commit"] = "select" /\ cand'["commit"] = cand["commit"]
  BY Zenon, <1>1, <1>3, GoNames
<1>8. FenceCovered' /\ SnapshotCovered'
  BY Zenon, <1>0, <1>1, <1>2, <1>6, <1>7, CalmKeeps, Order
<1>9. HandsEmpty'
  BY ZenonT(40), <1>0, <1>1, <1>3, GoNames DEF HandsEmpty
<1>10. StashesWatched'
  <2>1. pc'["apply"] = pc["apply"]
    BY Zenon, <1>1, <1>3, GoNames
  <2> QED BY Zenon, <1>0, <1>1, <1>3, <2>1 DEF StashesWatched, StashOf, Loop
<1>11. LockInv' /\ StartupApplied'
  <2>1. pc["boot"] # "wait" /\ pc'["boot"] = pc["boot"] /\ cand'["boot"] = cand["boot"]
    BY Zenon, <1>1, <1>3, Started, GoNames
  <2>2. \A h \in Watcher \cup {"recover"} : pc[h] = "off" => pc'[h] = "off"
    BY Zenon, <1>1, <1>3, GoNames DEF Watcher
  <2>3. \A h \in Go : pc'[h] \in {"handoff", "ack"} => pc'[h] = pc[h] /\ cand'[h] = cand[h]
    BY Zenon, <1>3
  <2>4. pc'["alias"] = "select" => pc["alias"] = "select" /\ cand'["alias"] = cand["alias"]
    BY Zenon, <1>1, <1>3, GoNames
  <2> QED BY Zenon, <1>0, <1>1, <2>1, <2>2, <2>3, <2>4, QuietKeeps
<1> QED BY Zenon, <1>8, <1>9, <1>10, <1>11 DEF IInv

\* A loop takes its stash; a stashed commit behind the fence is dropped.
LEMMA TakesKeeps == ASSUME IInv, NEW g \in Loop, RetryTakes(g) PROVE IInv'
<1>0. TypeOK /\ TypeOK' /\ HandsEmpty /\ StashesWatched /\ g \in Go
  BY Zenon, NextType, GoNames DEF IInv, LockInv, Next, Retry
<1> DEFINE a == StashOf(g)
<1>1. /\ pc[g] = "wait" /\ cand[g] = Zero /\ g \in {"apply", "fetch"}
      /\ UNCHANGED <<highestAcceptedTarget, assignment, committedAssignment, hand, refused>>
      /\ stashedApplyRetry' = IF g = "apply" THEN Zero ELSE stashedApplyRetry
      /\ stashedFetchRetry' = IF g = "fetch" THEN Zero ELSE stashedFetchRetry
  BY Zenon, <1>0 DEF RetryTakes, applied, aux, HandsEmpty, Loop
<1>2. /\ committedAssignment \in Target /\ stashedApplyRetry \in Target /\ stashedFetchRetry \in Target
      /\ a \in Target /\ refused \in Target
      /\ a = IF g = "apply" THEN stashedApplyRetry ELSE stashedFetchRetry
  BY Zenon, <1>0 DEF TypeOK, StashOf
<1>3. CASE g = "fetch" /\ isApplyResultStale(a, highestAcceptedTarget) /\ UNCHANGED where
  <2>1. pc' = pc /\ cand' = cand /\ ~Gate(a)
    BY Zenon, <1>3 DEF where, Gate
  <2>2. \A t \in Target : Covered(t) => Kept(t) \/ AtLeast(a, t)
    <3>1. SUFFICES ASSUME NEW t \in Target, Covered(t) PROVE Kept(t) \/ AtLeast(a, t)
      OBVIOUS
    <3>0. stashedApplyRetry' = stashedApplyRetry /\ committedAssignment' = committedAssignment   BY <1>1, <1>3
    <3>2. CASE AtLeast(committedAssignment, t) \/ AtLeast(stashedApplyRetry, t)
      BY Zenon, <1>0, <3>0, <3>2, KeptFacts
    <3>3. ASSUME NEW h \in Go, AtLeast(cand[h], t), h = "commit" => pc[h] # "select" PROVE Kept(t)
      BY Zenon, <1>0, <2>1, <3>3, KeptFacts
    <3>4. CASE AtLeast(stashedFetchRetry, t)   BY <1>2, <1>3, <3>4
    <3>5. \/ AtLeast(committedAssignment, t) \/ AtLeast(stashedApplyRetry, t) \/ AtLeast(stashedFetchRetry, t)
          \/ \E h \in Go : AtLeast(cand[h], t) /\ (h = "commit" => pc[h] # "select")
      BY <3>1 DEF Covered, Held
    <3> QED BY Zenon, <3>2, <3>3, <3>4, <3>5
  <2>3. FenceCovered' /\ SnapshotCovered'
    BY Zenon, <1>0, <1>1, <1>2, <2>1, <2>2, DropKeeps
  <2>4. HandsEmpty' /\ StashesWatched'
    BY Zenon, <1>0, <1>1, <1>3, <2>1 DEF HandsEmpty, StashesWatched, StashOf, Loop
  <2>5. LockInv' /\ StartupApplied'
    BY Zenon, <1>0, <1>1, <2>1, QuietKeeps, Started
  <2> QED BY Zenon, <2>3, <2>4, <2>5 DEF IInv
<1>4. ASSUME NEW l \in {"lock", "build"}, Step(g, l, a) PROVE IInv'
  <2>1. /\ pc'[g] = l /\ cand'[g] = a
        /\ \A h \in Go \ {g} : pc'[h] = pc[h] /\ cand'[h] = cand[h]
    <3>1. l \in Where   BY Zenon DEF Where
    <3> QED BY Zenon, <1>0, <1>2, <1>4, <3>1, StepFacts
  <2>2. Kept(a) /\ Kept(cand[g])
    BY SMTT(40), <1>0, <1>1, <1>2, <2>1, KeptFacts, Order
  <2>3. Kept(stashedApplyRetry) /\ Kept(stashedFetchRetry)
    BY Zenon, <1>0, <1>1, <1>2, <2>2, KeptFacts, Order
  <2>4. \A t \in Target : Covered(t) => Kept(t)
    BY ZenonT(40), <1>0, <1>1, <1>2, <2>1, <2>2, <2>3, CoverMoves, Order
  <2>5. pc'["boot"] = pc["boot"] /\ cand'["boot"] = cand["boot"] /\ \A h \in Watcher \cup {"recover"} : pc'[h] = pc[h] /\ cand'[h] = cand[h]
    BY ZenonT(40), <1>1, <2>1, GoNames DEF Watcher
  <2>6. FenceCovered' /\ SnapshotCovered'
    <3>1. pc'["recover"] = pc["recover"] /\ pc'["commit"] = pc["commit"] /\ cand'["commit"] = cand["commit"]
      BY Zenon, <2>5 DEF Watcher
    <3> QED BY Zenon, <1>0, <1>1, <1>2, <2>4, <3>1, CalmKeeps, Order
  <2>7. HandsEmpty' /\ StashesWatched'
    BY Zenon, <1>0, <1>1, <2>1, GoNames DEF HandsEmpty, StashesWatched, StashOf, Loop
  <2>8. LockInv' /\ StartupApplied'
    <3>1. pc["boot"] # "wait" /\ pc'["alias"] = pc["alias"] /\ cand'["alias"] = cand["alias"]
      BY Zenon, <1>1, <2>5, Started DEF Watcher
    <3> QED BY Zenon, <1>0, <1>1, <2>1, <2>5, <3>1, QuietKeeps
  <2> QED BY Zenon, <2>6, <2>7, <2>8 DEF IInv
<1> QED BY Zenon, <1>1, <1>3, <1>4 DEF RetryTakes

\* Startup is over: what it held was applied, stashed or outdone.
LEMMA StartupDoneKeeps == ASSUME IInv, StartupDone PROVE IInv'
<1>0. TypeOK /\ TypeOK' /\ HandsEmpty /\ StashesWatched /\ StartupFirst /\ StartupApplied /\ Fenced /\ Locked
  BY Zenon, NextType DEF IInv, LockInv, Next
<1> DEFINE a == cand["boot"]
<1>1. /\ pc["boot"] \in {"applied", "failed"}
      /\ UNCHANGED <<highestAcceptedTarget, assignment, committedAssignment, hand, refused>>
      /\ stashedApplyRetry' = stashedApplyRetry /\ stashedFetchRetry' = stashedFetchRetry
  BY Zenon DEF StartupDone, applied, stashes, aux
<1>2. /\ committedAssignment \in Target /\ stashedApplyRetry \in Target /\ stashedFetchRetry \in Target
      /\ a \in Target /\ refused \in Target /\ highestAcceptedTarget \in Target /\ assignment \in Target
  BY Zenon, <1>0, GoNames DEF TypeOK
<1>3. /\ pc'["boot"] = "done" /\ cand'["boot"] = Zero
      /\ \A h \in Loop : pc'[h] = pc[h]
      /\ \A h \in Watcher \cup {"recover"} : pc'[h] = "idle" /\ pc[h] = "off" /\ cand[h] = Zero
      /\ \A h \in Go \ {"boot"} : cand'[h] = cand[h]
  <2>1. \A h \in Watcher \cup {"recover"} : pc[h] = "off" /\ h \in Go
    BY Zenon, <1>0, <1>1, GoNames DEF StartupFirst
  <2>2. pc' = [g \in Go |-> CASE g = "boot" -> "done" [] g \in Loop -> pc[g] [] OTHER -> "idle"]
    BY Zenon DEF StartupDone
  <2>3. cand' = [cand EXCEPT !["boot"] = Zero] /\ cand \in [Go -> Target]
    BY Zenon, <1>0 DEF StartupDone, TypeOK
  <2>4. pc'["boot"] = "done" /\ \A h \in Loop : pc'[h] = pc[h]
    BY Zenon, <2>2, GoNames DEF Loop
  <2>5. \A h \in Watcher \cup {"recover"} : pc'[h] = "idle"
    BY Zenon, <2>1, <2>2 DEF Loop, Watcher
  <2> QED BY Zenon, <1>0, <2>1, <2>3, <2>4, <2>5, GoNames DEF HandsEmpty
<1>4. Kept(stashedApplyRetry) /\ Kept(stashedFetchRetry)
  BY Zenon, <1>0, <1>1, <1>2, KeptFacts, Order
<1>5. \A h \in Go \ {"boot"} : cand'[h] = cand[h] /\ (pc'[h] = "select" => pc[h] = "select")
  BY Zenon, <1>3 DEF Go
<1>6. \A t \in Target : Covered(t) => Kept(t) \/ AtLeast(a, t)
  BY Zenon, <1>0, <1>1, <1>2, <1>4, <1>5, CoverDrops, Order, GoNames
<1>7. pc["recover"] # "guard" /\ pc'["commit"] # "select"
  BY Zenon, <1>3 DEF Watcher
<1>8. FenceCovered' /\ SnapshotCovered'
  <2>1. CASE ~Gate(a)
    BY Zenon, <1>0, <1>1, <1>2, <1>6, <1>7, <2>1, DropKeeps
  <2>2. CASE Kept(a)
    <3>1. \A t \in Target : Covered(t) => Kept(t)
      BY ZenonT(40), <1>0, <1>1, <1>2, <1>4, <1>5, <2>2, CoverMoves, Order, GoNames
    <3> QED BY ZenonT(40), <1>0, <1>1, <1>2, <1>7, <3>1, CalmKeeps, Order
  <2>3. ~Gate(a) \/ Kept(a)
    BY ZenonT(40), <1>0, <1>1, <1>2, KeptFacts, GoNames DEF StartupApplied, HandsEmpty
  <2> QED BY Zenon, <2>1, <2>2, <2>3
<1>9. HandsEmpty'
  BY ZenonT(40), <1>0, <1>3 DEF HandsEmpty, Go
<1>10. StashesWatched'
  BY ZenonT(30), <1>0, <1>1, <1>3 DEF StashesWatched, StashOf
<1>11. Locked'
  BY <1>0, <1>1, <1>3 DEF Locked, Go
<1>12. StartupFirst' /\ StartupApplied'
  BY Zenon, <1>3 DEF StartupFirst, StartupApplied
<1>13. Fenced'
  BY Zenon, <1>0, <1>1, <1>3 DEF Fenced, Watcher
<1> QED BY Zenon, <1>0, <1>8, <1>9, <1>10, <1>11, <1>12, <1>13 DEF IInv, LockInv

\* refreshAssignmentFromNATS stores the alias unless it is stale.
LEMMA StoresKeeps == ASSUME IInv, RefreshStores PROVE IInv' /\ AtLeast(assignment', assignment)
<1>0. TypeOK /\ TypeOK' /\ HandsEmpty /\ StashesWatched /\ StartupFirst /\ StartupApplied /\ Fenced /\ Locked
  BY Zenon, NextType DEF IInv, LockInv, Next
<1> DEFINE a == cand["recover"]
<1>1. /\ pc["recover"] = "refresh" /\ Free /\ Step("recover", "guard", Zero)
      /\ assignment' = IF isApplyResultStale(a, assignment) THEN assignment ELSE a
      /\ UNCHANGED <<highestAcceptedTarget, committedAssignment, hand, refused>>
      /\ stashedApplyRetry' = stashedApplyRetry /\ stashedFetchRetry' = stashedFetchRetry
  BY Zenon DEF RefreshStores, monotonicStore, stashes, aux
<1>2. /\ committedAssignment \in Target /\ stashedApplyRetry \in Target /\ stashedFetchRetry \in Target
      /\ a \in Target /\ assignment \in Target /\ assignment' \in Target /\ highestAcceptedTarget \in Target
  BY Zenon, <1>0, GoNames DEF TypeOK
<1>3. /\ pc'["recover"] = "guard" /\ cand'["recover"] = Zero
      /\ \A h \in Go \ {"recover"} : pc'[h] = pc[h] /\ cand'[h] = cand[h]
  BY Zenon, <1>0, <1>1, StepFacts, GoNames DEF Where
<1>4. AtLeast(assignment', assignment) /\ AtLeast(assignment', a)
  BY Zenon, <1>1, <1>2, Order DEF AtLeast
<1>5. Locked'
  BY Zenon, <1>1, <1>3 DEF Locked, Free
<1>6. StartupFirst'
  BY Zenon, <1>0, <1>1, <1>3, Started, GoNames DEF StartupFirst, Watcher
<1>7. Fenced'
  BY ZenonT(40), <1>0, <1>1, <1>2, <1>3, <1>4, Order, GoNames DEF Fenced
<1>8. StartupApplied'
  BY ZenonT(40), <1>0, <1>1, <1>2, <1>3, <1>4, AppliedStays, Order, GoNames
<1>9. HandsEmpty' /\ StashesWatched'
  BY ZenonT(40), <1>0, <1>1, <1>3, GoNames DEF HandsEmpty, StashesWatched, StashOf, Loop
<1>10. Kept(stashedApplyRetry) /\ Kept(stashedFetchRetry)
  BY ZenonT(40), <1>0, <1>1, <1>2, KeptFacts, Order
<1>11. Covered(highestAcceptedTarget) => Kept(highestAcceptedTarget) \/ AtLeast(a, highestAcceptedTarget)
  BY ZenonT(40), <1>0, <1>1, <1>2, <1>3, <1>10, CoverDrops, Order, GoNames
<1>12. FenceCovered'
  <2>1. AtLeast(a, highestAcceptedTarget) => AtLeast(assignment', highestAcceptedTarget')
    BY Zenon, <1>1, <1>2, <1>4, Order
  <2> QED BY Zenon, <1>1, <1>3, <1>11, <2>1, KeptCovers DEF IInv, FenceCovered
<1>13. SnapshotCovered'
  BY Zenon, <1>3 DEF SnapshotCovered
<1> QED BY Zenon, <1>0, <1>4, <1>5, <1>6, <1>7, <1>8, <1>9, <1>12, <1>13 DEF IInv, LockInv

\* The self-heal guard finds the snapshot applied or stashes it.
LEMMA HealsKeeps == ASSUME IInv, SelfHeals PROVE IInv'
<1>0. TypeOK /\ TypeOK' /\ HandsEmpty /\ StashesWatched
  BY Zenon, NextType DEF IInv, LockInv, Next
<1>1. /\ pc["recover"] = "guard" /\ cand["recover"] = Zero
      /\ UNCHANGED <<highestAcceptedTarget, assignment, committedAssignment, hand, refused, stashedFetchRetry>>
  BY Zenon, <1>0, GoNames DEF SelfHeals, applied, aux, HandsEmpty
<1>2. /\ committedAssignment \in Target /\ stashedApplyRetry \in Target /\ stashedFetchRetry \in Target
      /\ stashedApplyRetry' \in Target /\ assignment \in Target /\ highestAcceptedTarget \in Target
  BY Zenon, <1>0 DEF TypeOK
<1>3. /\ pc'["recover"] = "idle" /\ cand'["recover"] = Zero
      /\ \A h \in Go \ {"recover"} :
            cand'[h] = cand[h] /\ (pc'[h] = pc[h] \/ (h = "apply" /\ pc'[h] = "wait" /\ pc[h] = "off"))
      /\ AtLeast(stashedApplyRetry', stashedApplyRetry)
      /\ AtLeast(stashedApplyRetry', assignment) \/ AtLeast(committedAssignment, assignment)
      /\ pc'["apply"] = "off" => stashedApplyRetry' = stashedApplyRetry /\ pc["apply"] = "off"
  <2>1. CASE currentAssignmentApplied(assignment) /\ Step("recover", "idle", Zero) /\ UNCHANGED stashedApplyRetry
    <3>1. AtLeast(committedAssignment, assignment)
      <4>1. committedAssignment = [assignment EXCEPT !.src = assignment.src \/ committedAssignment.src]
        BY Zenon, <2>1 DEF currentAssignmentApplied
      <4>2. committedAssignment.v = assignment.v /\ committedAssignment.lr = assignment.lr
        BY Zenon, <1>2, <4>1 DEF Target, Zero
      <4>3. assignment.v \in Nat /\ assignment.lr \in Nat
        BY <1>2 DEF Target, Zero
      <4> QED BY <4>2, <4>3 DEF AtLeast, isApplyResultStale
    <3>2. /\ pc'["recover"] = "idle" /\ cand'["recover"] = Zero
          /\ \A h \in Go \ {"recover"} : pc'[h] = pc[h] /\ cand'[h] = cand[h]
      BY Zenon, <1>0, <2>1, StepFacts, GoNames DEF Where
    <3> QED BY Zenon, <1>2, <2>1, <3>1, <3>2, Order, GoNames
  <2>2. CASE ScheduleApplyRetry("recover", "idle", assignment)
    <3>1. /\ pc'["recover"] = "idle" /\ cand'["recover"] = Zero
          /\ \A h \in Go \ {"recover"} : cand'[h] = cand[h]
          /\ \A h \in Go \ {"recover", "apply"} : pc'[h] = pc[h]
          /\ pc'["apply"] = IF pc["apply"] = "off" THEN "wait" ELSE pc["apply"]
          /\ AtLeast(stashedApplyRetry', stashedApplyRetry) /\ AtLeast(stashedApplyRetry', assignment)
      BY SMTT(40), <1>0, <1>2, <2>2, ScheduleFacts, GoNames DEF Where
    <3> QED BY Zenon, <3>1, GoNames
  <2> QED BY ZenonT(40), <2>1, <2>2 DEF SelfHeals
<1>4. Kept(stashedApplyRetry) /\ Kept(stashedFetchRetry) /\ Kept(cand["recover"]) /\ Kept(assignment)
  BY ZenonT(40), <1>0, <1>1, <1>2, <1>3, KeptFacts, Order
<1>5. \A t \in Target : Covered(t) => Kept(t)
  <2>1. \A h \in Go \ {"recover"} : cand'[h] = cand[h] /\ (pc'[h] = "select" => pc[h] = "select")
    BY ZenonT(40), <1>3
  <2> QED BY ZenonT(40), <1>0, <1>1, <1>2, <1>4, <2>1, CoverMoves, Order, GoNames
<1>6. SnapshotCovered'
  BY Zenon, <1>1, <1>4, KeptCovers DEF SnapshotCovered
<1>7. FenceCovered'
  <2>1. Covered(highestAcceptedTarget) => Covered(highestAcceptedTarget)'
    BY Zenon, <1>1, <1>2, <1>5, KeptCovers
  <2>2. AtLeast(assignment, highestAcceptedTarget) => Kept(highestAcceptedTarget)
    BY Zenon, <1>0, <1>1, <1>2, <1>4, Order DEF Kept
  <2> QED BY Zenon, <1>1, <2>1, <2>2, KeptCovers DEF IInv, FenceCovered
<1>8. HandsEmpty'
  BY Zenon, <1>0, <1>1, <1>3, GoNames DEF HandsEmpty
<1>9. StashesWatched'
  <2>1. pc'["fetch"] = pc["fetch"]
    BY Zenon, <1>3, GoNames
  <2> QED BY Zenon, <1>0, <1>1, <1>3, <2>1 DEF StashesWatched, StashOf, Loop
<1>10. LockInv' /\ StartupApplied'
  <2>1. pc["boot"] # "wait" /\ pc'["boot"] = pc["boot"] /\ cand'["boot"] = cand["boot"]
    BY Zenon, <1>1, <1>3, Started, GoNames
  <2>2. \A h \in Watcher \cup {"recover"} : pc[h] = "off" => pc'[h] = "off"
    BY ZenonT(40), <1>1, <1>3, GoNames DEF Watcher
  <2>3. \A h \in Go : pc'[h] \in {"handoff", "ack"} => pc'[h] = pc[h] /\ cand'[h] = cand[h]
    BY Zenon, <1>3
  <2>4. pc'["alias"] = "select" => pc["alias"] = "select" /\ cand'["alias"] = cand["alias"]
    BY Zenon, <1>3, GoNames
  <2> QED BY ZenonT(40), <1>0, <1>1, <2>1, <2>2, <2>3, <2>4, QuietKeeps
<1> QED BY Zenon, <1>6, <1>7, <1>8, <1>9, <1>10 DEF IInv

-----------------------------------------------------------------------------
(* The theorems                                                            *)

\* The invariant holds when the worker starts.
LEMMA InitIInv == Init => IInv
<1>0. SUFFICES ASSUME Init PROVE IInv
  OBVIOUS
<1>1. /\ pc["boot"] = "wait" /\ \A g \in Go \ {"boot"} : pc[g] = "off"
      /\ \A g \in Go : cand[g] = Zero
      /\ pc \in [Go -> Where] /\ cand \in [Go -> Target]
  BY Zenon, <1>0, GoNames DEF Init, Where
<1>2. /\ assignment = Zero /\ committedAssignment = Zero /\ highestAcceptedTarget = Zero
      /\ stashedApplyRetry = Zero /\ stashedFetchRetry = Zero /\ hand = Zero /\ refused = Zero
      /\ com = Zero /\ old = {} /\ alias = Zero
  BY Zenon, <1>0 DEF Init
<1>3. TypeOK
  <2>1. base \in [Term -> Nat]
    BY Zenon, <1>0 DEF Init
  <2> QED BY ZenonT(40), <1>0, <1>1, <1>2, <2>1, GoNames DEF Init, TypeOK
<1>4. Locked
  BY Zenon, <1>1 DEF Locked
<1>5. StartupFirst /\ HandsEmpty /\ StartupApplied /\ StashesWatched
  BY Zenon, <1>1, <1>2, GoNames DEF StartupFirst, HandsEmpty, StartupApplied, StashesWatched, StashOf, Loop, Watcher
<1>6. Fenced /\ FenceCovered /\ SnapshotCovered
  BY Zenon, <1>1, <1>2, Order, GoNames DEF Fenced, FenceCovered, SnapshotCovered, Covered
<1> QED BY Zenon, <1>3, <1>4, <1>5, <1>6 DEF IInv, LockInv

\* Every step keeps the invariant, and no target goes back.
LEMMA NextIInv == IInv /\ [Next]_vars => IInv' /\ AdvanceStep
<1>0. SUFFICES ASSUME IInv, [Next]_vars PROVE IInv' /\ AdvanceStep
  OBVIOUS
<1>1. hand \in Target /\ assignment \in Target /\ assignment' \in Target
  BY Zenon, <1>0, NextType DEF IInv, LockInv, TypeOK
<1>2. UNCHANGED hand /\ AtLeast(assignment', assignment) => AdvanceStep
  BY Zenon, <1>1, Order DEF AdvanceStep, AtLeast
<1>3. UNCHANGED <<hand, assignment>> => AdvanceStep
  BY Zenon, <1>1, <1>2, Order
<1>4. CASE Leaders \/ UNCHANGED vars
  BY Zenon, <1>0, <1>3, <1>4, LeadersKeep DEF Leaders, vars, applied, aux
<1>5. CASE WaitForAssignment
  <2>1. assignment = Zero /\ UNCHANGED hand
    BY Zenon, <1>0, <1>5 DEF WaitForAssignment, IInv, LockInv, StartupFirst, aux
  <2> QED BY Zenon, <1>0, <1>1, <1>2, <1>5, <2>1, WaitKeeps, Order
<1>6. CASE ApplyInitialAssignment \/ StartupDone
  BY Zenon, <1>0, <1>3, <1>6, InitialKeeps, StartupDoneKeeps DEF ApplyInitialAssignment, StartupDone, applied, aux
<1>7. CASE HandleAssignmentEntry \/ HandleCommitValue \/ SelectCommit
  BY ZenonT(40), <1>0, <1>3, <1>7, EntryKeeps, CommitValueKeeps, SelectCommitKeeps
     DEF HandleAssignmentEntry, HandleCommitValue, SelectCommit, applied, aux
<1>8. CASE SelectAlias \/ RefreshReads
  BY Zenon, <1>0, <1>3, <1>8, SelectAliasKeeps, RefreshReadsKeeps DEF SelectAlias, RefreshReads, applied
<1>9. ASSUME NEW g \in Go, ApplyDropped(g) \/ ApplyFails(g) PROVE IInv' /\ AdvanceStep
  BY ZenonT(40), <1>0, <1>3, <1>9, DroppedKeeps, FailsKeeps DEF ApplyDropped, ApplyFails, applied, aux
<1>10. ASSUME NEW g \in Go, ApplyBegins(g) PROVE IInv' /\ AdvanceStep
  BY Zenon, <1>0, <1>10, BeginsKeeps
<1>11. ASSUME NEW g \in Go, ApplySucceeds(g) PROVE IInv' /\ AdvanceStep
  BY Zenon, <1>0, <1>2, <1>11, SucceedsKeeps DEF ApplySucceeds, aux
<1>12. ASSUME NEW g \in Go, ApplyAcks(g) PROVE IInv' /\ AdvanceStep
  BY ZenonT(40), <1>0, <1>3, <1>12, AcksKeeps DEF ApplyAcks, aux
<1>13. ASSUME NEW g \in Go, Built(g) \/ FetchFails(g) PROVE IInv' /\ AdvanceStep
  BY Zenon, <1>0, <1>3, <1>13, BuiltKeeps, FetchFailsKeeps DEF Built, FetchFails, applied, aux
<1>14. ASSUME NEW g \in Loop, Retry(g) PROVE IInv' /\ AdvanceStep
  BY Zenon, <1>0, <1>3, <1>14, TakesKeeps, LeaveKeeps DEF Retry, RetryTakes, RetryEmpty, RetryLeaves, applied, aux
<1>15. CASE RefreshStores
  BY Zenon, <1>0, <1>2, <1>15, StoresKeeps DEF RefreshStores, aux
<1>16. CASE SelfHeals
  BY Zenon, <1>0, <1>3, <1>16, HealsKeeps DEF SelfHeals, applied, aux
<1> QED BY Zenon, <1>0, <1>4, <1>5, <1>6, <1>7, <1>8, <1>9, <1>10, <1>11, <1>12, <1>13, <1>14, <1>15, <1>16
        DEF Next, Pipeline

\* The invariant gives what raiseAcceptedTarget promises: the newest target
\* admitted is applied, in somebody's hands or about to be re-armed, unless it is
\* an alias that was denied the authority; and no stash is left without its loop.
LEMMA FencePursued == IInv => AcceptedTargetPursued
<1>1. SUFFICES ASSUME IInv PROVE AcceptedTargetPursued
  OBVIOUS
<1>0. /\ TypeOK /\ FenceCovered /\ StashesWatched /\ committedAssignment \in Target
      /\ highestAcceptedTarget \in Target
  BY Zenon, <1>1 DEF IInv, LockInv, TypeOK
<1>2. CASE highestAcceptedTarget = Zero
  <2>1. AtLeast(committedAssignment, highestAcceptedTarget)
    BY Zenon, <1>0, <1>2, Order
  <2> QED BY Zenon, <1>0, <2>1 DEF AcceptedTargetPursued, AtLeast, StashesWatched
<1>3. ASSUME NEW a \in Target, Held(a), AtLeast(a, highestAcceptedTarget), highestAcceptedTarget # Zero
      PROVE  Pursued
  BY Zenon, <1>0, <1>3, NonZero DEF Pursued, Held, AtLeast
<1> QED BY Zenon, <1>0, <1>2, <1>3 DEF FenceCovered, Covered, AcceptedTargetPursued, AtLeast, StashesWatched

-----------------------------------------------------------------------------
(* The theorems *)

\* Neither what the coordinator is handed nor the snapshot ever goes back
\* (applyAssignmentWithPrevCore, monotonicStore), however startup, watchers,
\* retries and recovery interleave.
THEOREM TargetsAdvance == Spec => TargetsOnlyAdvance
<1>1. IInv /\ [Next]_vars => [AdvanceStep]_vars
  BY Zenon, NextIInv
<1>2. IInv /\ [Next]_vars => IInv'
  BY Zenon, NextIInv
<1> QED BY <1>1, <1>2, InitIInv, PTL DEF Spec, TargetsOnlyAdvance

\* The newest target admitted (raiseAcceptedTarget) is applied, in somebody's
\* hands or about to be re-armed, unless it is an alias that was denied the
\* authority; and no stash is left without its loop.
THEOREM FenceIsPursued == Spec => []AcceptedTargetPursued
<1>1. IInv /\ [Next]_vars => IInv'
  BY Zenon, NextIInv
<1> QED BY <1>1, InitIInv, FencePursued, PTL DEF Spec
=============================================================================
