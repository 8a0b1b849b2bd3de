------------------------------ MODULE Recovery ------------------------------
(***************************************************************************)
(* The pull loop of one JetStream durable and its recovery: the partition  *)
(* consumer of internal/durable with its bounded-retry envelope and its    *)
(* stream-missing detour, and the simpler loops of the queue, broadcast    *)
(* and static consumers, around the recovery controller of                 *)
(* internal/recovery (checkpoint, stream epoch, burst detector).           *)
(*                                                                         *)
(* The stream has incarnations; in each, messages 1..stream.n.  A durable  *)
(* delivers from its start sequence on.  Time is left out: a cool-down or  *)
(* a failure window ends when an action says so.                           *)
(***************************************************************************)
EXTENDS Integers, FiniteSets, FiniteSetsExt

CONSTANTS
    MaxSeq,         \* messages of one incarnation of the stream
    MaxInc,         \* incarnations of the stream
    MaxAttempts,    \* RecoveryRetry.MaxAttempts
    Threshold,      \* burst and escalation threshold
    MaxPullFaults   \* faults of the environment

\* RecoveryRetry.MaxAttempts is a count.
ASSUME MaxAttemptsAssumption == MaxAttempts \in Nat

VARIABLES
    conf,           \* the consumer: kind, strategy, hook, manual
    stream,         \* server: the stream
    durable,        \* server: the durable consumer
    pc,             \* where the loop is
    site,           \* which detour a rebuild belongs to: "A" or "B"
    attempts,       \* attempts of the iterator-creation envelope
    failures,       \* recent failures: burst, iter, and esc (just escalated)
    checkpoint, streamEpoch, recreatedSinceLastBuild,
    streamMissingFailures,
    cooling,        \* lastRecoveryTime is recent
    ack,            \* an acknowledgement that another goroutine makes
    permanent,      \* calls of OnPermanentFailure
    done,           \* history: messages acked, or left out by an earlier DeliverNew
    misses,         \* history: failed detours since the last message
    stale,          \* history: the checkpoint may be of an earlier stream
    pullFaults

server == <<stream, durable>>
ctl == <<checkpoint, streamEpoch, recreatedSinceLastBuild>>
pulling == <<pc, site, attempts, failures, streamMissingFailures, permanent>>
hist == <<done, misses, stale>>
recoveryVars == <<conf, server, ctl, pulling, cooling, ack, hist, pullFaults>>

Kind == {"dynamic", "queue", "broadcast", "static"}
Strategy == {"disabled", "new", "last", "all"}
NoAck == [step |-> "none", seq |-> 0, inc |-> 0, epoch |-> 0]
Gone == [ok |-> FALSE, start |-> 1, acked |-> {}, high |-> 0, policy |-> "all"]

Calm == [burst |-> 0, iter |-> 0, esc |-> FALSE]

\* What NewDynamic and NewQueue refuse.
validateStreamMissingHookStrategy(c) == c.hook => c.kind = "dynamic" /\ c.strategy \in {"last", "all"}
ValidateQueue(c) == c.kind = "queue" => c.strategy # "last"
Validate(c) == validateStreamMissingHookStrategy(c) /\ ValidateQueue(c)

RecoveryInit ==
    /\ conf \in {c \in [kind : Kind, strategy : Strategy, hook : BOOLEAN, manual : BOOLEAN] : Validate(c)}
    /\ stream = [inc |-> 1, up |-> TRUE, n |-> 0, by |-> "operator"]
    /\ durable = [Gone EXCEPT !.ok = TRUE]
    /\ pc = "iter" /\ site = "B" /\ attempts = 0 /\ failures = Calm
    /\ checkpoint = 0 /\ streamEpoch = 0 /\ recreatedSinceLastBuild = FALSE
    /\ streamMissingFailures = 0 /\ cooling = FALSE
    /\ ack = NoAck /\ permanent = 0 /\ done = {} /\ misses = 0 /\ stale = FALSE /\ pullFaults = 0

PullFault == pullFaults < MaxPullFaults /\ pullFaults' = pullFaults + 1
Tracks == conf.strategy = "last"

-----------------------------------------------------------------------------
(* The server and the operator.                                            *)

\* A message is published.
Publishes ==
    /\ stream.up /\ stream.n < MaxSeq
    /\ stream' = [stream EXCEPT !.n = @ + 1]
    /\ UNCHANGED <<conf, durable, ctl, pulling, cooling, ack, hist, pullFaults>>

\* The durable is deleted, or ends after InactiveThreshold.
ConsumerDeleted ==
    /\ durable.ok /\ PullFault
    /\ durable' = Gone
    /\ done' = IF durable.policy = "new" THEN done \cup 1 .. durable.start - 1 ELSE done
    /\ UNCHANGED <<conf, stream, ctl, pulling, cooling, ack, misses, stale>>

\* The stream is deleted, and its durables with it.
StreamDeleted ==
    /\ stream.up /\ stream.inc < MaxInc /\ PullFault
    /\ stream' = [stream EXCEPT !.up = FALSE, !.n = 0]
    /\ durable' = Gone /\ done' = {}
    /\ UNCHANGED <<conf, ctl, pulling, cooling, ack, misses, stale>>

\* Somebody else recreates it: the operator, or the hook of another subject's
\* loop.  No epoch of this controller moves.
StreamRecreatedElsewhere ==
    /\ ~stream.up /\ PullFault
    /\ stream' = [stream EXCEPT !.up = TRUE, !.inc = @ + 1, !.by = "operator"]
    /\ stale' = (stale \/ checkpoint > 0 \/ ack # NoAck)
    /\ UNCHANGED <<conf, durable, ctl, pulling, cooling, ack, done, misses>>

\* CreateOrUpdateConsumer of a stream that exists: a durable of the name is
\* left as it is when its delivery policy is the same, and refused otherwise.
StartOf(policy) ==
    CASE policy = "all" -> 1
      [] policy = "new" -> stream.n + 1
      [] policy = "seq" -> checkpoint + 1
Takes(policy) == durable.ok => durable.policy = policy /\ (policy = "seq" => durable.start = StartOf(policy))
Create(policy) ==
    durable' = IF durable.ok THEN durable
               ELSE [Gone EXCEPT !.ok = TRUE, !.start = StartOf(policy), !.policy = policy,
                                 !.high = StartOf(policy) - 1]

-----------------------------------------------------------------------------
(* The recovery controller.                                                *)

\* BuildConfig: the delivery policy of a recreated durable.
BuildConfig(recreated) ==
    CASE conf.strategy = "new" -> "new"
      [] conf.strategy = "last" -> IF checkpoint > 0 THEN "seq" ELSE IF recreated THEN "all" ELSE "new"
      [] conf.strategy = "all" -> "all"
      [] OTHER -> "new"

\* Seed and Advance never lower the checkpoint.
Raised(seq) == Max({checkpoint, seq})
AckFloor == Max({s \in 0 .. durable.high : \A t \in durable.start .. s : t \in durable.acked})

\* SeedCheckpoint: the ack floor of the durable, when the call succeeds.
SeedCheckpoint ==
    checkpoint' = IF Tracks /\ durable.ok /\ AckFloor > 0 THEN Raised(AckFloor) ELSE checkpoint

\* A message of the durable that is not acknowledged, redelivered or next.
Deliverable ==
    {s \in durable.start .. Min({stream.n, durable.high + 1}) :
        s \notin durable.acked /\ ~(ack.step # "none" /\ ack.seq = s /\ ack.inc = stream.inc)}

\* Next returns a message and Dispatch runs the handler.  The framework acks
\* or naks in the loop's goroutine; a manual ack, and the key dispatcher's,
\* may come later from another one.
NextReturns ==
    /\ pc = "pull" /\ durable.ok
    /\ \E s \in Deliverable :
         \/ /\ durable' = [durable EXCEPT !.acked = @ \cup {s}, !.high = Max({@, s})]
            /\ done' = done \cup {s}
            /\ checkpoint' = IF Tracks THEN Raised(s) ELSE checkpoint
            /\ UNCHANGED <<ack, pullFaults>>
         \/ /\ PullFault
            /\ durable' = [durable EXCEPT !.high = Max({@, s})]
            /\ UNCHANGED <<ack, done, checkpoint>>
         \/ /\ conf.manual \/ conf.kind = "static"
            /\ conf.kind # "queue" /\ Tracks /\ ack = NoAck
            /\ durable' = [durable EXCEPT !.high = Max({@, s})]
            /\ ack' = [step |-> "held", seq |-> s, inc |-> stream.inc, epoch |-> streamEpoch]
            /\ UNCHANGED <<done, checkpoint, pullFaults>>
    /\ misses' = 0
    /\ UNCHANGED <<conf, stream, streamEpoch, recreatedSinceLastBuild, pulling, cooling, stale>>

\* AdvanceCheckpoint's fence: the epoch of the dispatch is the current one.
SameEpoch == ack.epoch = streamEpoch

\* The held message is acked: the server takes the ack if the durable is
\* still the one that delivered it, and the epoch is compared.
AckSent ==
    /\ ack.step = "held"
    /\ durable' = IF durable.ok /\ ack.inc = stream.inc /\ ack.seq >= durable.start
                  THEN [durable EXCEPT !.acked = @ \cup {ack.seq}] ELSE durable
    /\ done' = IF ack.inc = stream.inc /\ stream.up THEN done \cup {ack.seq} ELSE done
    /\ ack' = IF SameEpoch THEN [ack EXCEPT !.step = "passed"] ELSE NoAck
    /\ UNCHANGED <<conf, stream, ctl, pulling, cooling, misses, stale, pullFaults>>

\* AdvanceCheckpoint raises the checkpoint, which may have been reset since.
AckAdvances ==
    /\ ack.step = "passed"
    /\ checkpoint' = Raised(ack.seq)
    /\ stale' = (stale \/ ack.epoch # streamEpoch)
    /\ ack' = NoAck
    /\ UNCHANGED <<conf, server, streamEpoch, recreatedSinceLastBuild, pulling, cooling, done, misses, pullFaults>>

CooldownEnds ==
    /\ cooling /\ cooling' = FALSE
    /\ UNCHANGED <<conf, server, ctl, pulling, ack, hist, pullFaults>>

\* A healthy stretch ages the recorded failures out of their windows; the
\* escalation's own window also passes while failures go on.
WindowPasses ==
    /\ \/ pc = "pull" /\ durable.ok /\ failures # Calm /\ failures' = Calm
       \/ failures.esc /\ failures' = [failures EXCEPT !.esc = FALSE]
    /\ UNCHANGED <<conf, server, ctl, pc, site, attempts, streamMissingFailures, permanent, cooling,
                   ack, hist, pullFaults>>

-----------------------------------------------------------------------------
(* The loop.  Backoff delays are left out.                                 *)

Dynamic == conf.kind = "dynamic"

\* OnPermanentFailure fires and the loop exits.
Exhausted == pc' = "done" /\ permanent' = permanent + 1
Again == pc' = "iter" /\ UNCHANGED permanent

\* One more attempt of the envelope failed.
AttemptFailed ==
    /\ attempts' = attempts + 1
    /\ IF attempts + 1 >= MaxAttempts THEN Exhausted ELSE Again

\* handleStreamMissingFailure: the Site B budget.
handleStreamMissingFailure ==
    /\ streamMissingFailures' = streamMissingFailures + 1
    /\ misses' = misses + 1
    /\ IF streamMissingFailures + 1 >= MaxAttempts THEN Exhausted ELSE Again

DetourFailed ==
    IF site = "A" THEN AttemptFailed /\ UNCHANGED <<streamMissingFailures, misses>>
    ELSE handleStreamMissingFailure /\ UNCHANGED attempts

\* maybeEscalateIteratorFailures counts the failure and, at the threshold,
\* looks at the durable and binds it again with the original config.
Counted == Min({failures.iter + 1, Threshold})
Escalates == Counted >= Threshold /\ ~failures.esc
EscalationSaysMissing == Escalates /\ ~stream.up
maybeEscalateIteratorFailures ==
    /\ failures' = [failures EXCEPT !.iter = Counted, !.esc = @ \/ Escalates]
    /\ IF Escalates /\ stream.up /\ Takes("all") THEN Create("all") ELSE UNCHANGED durable

\* An iterator is created: the envelope ends, the next one starts afresh.
IteratorCreated ==
    /\ pc = "iter" /\ pc' = "pull" /\ attempts' = 0
    /\ UNCHANGED <<conf, server, ctl, site, failures, streamMissingFailures, permanent, cooling,
                   ack, hist, pullFaults>>

\* Creating it fails.  Only the dynamic consumer counts and escalates.
IteratorFailed ==
    /\ pc = "iter" /\ PullFault
    /\ IF ~Dynamic THEN UNCHANGED <<pulling, durable>>
       ELSE /\ maybeEscalateIteratorFailures
            /\ IF EscalationSaysMissing
               THEN /\ pc' = "hook" /\ site' = "A"
                    /\ UNCHANGED <<attempts, streamMissingFailures, permanent>>
               ELSE /\ AttemptFailed
                    /\ streamMissingFailures' =
                         IF Escalates /\ (durable.ok \/ durable'.ok) THEN 0 ELSE streamMissingFailures
                    /\ UNCHANGED site
    /\ UNCHANGED <<conf, stream, ctl, cooling, ack, hist>>

\* What is left as it is when the loop only backs off.
BacksOff(f) ==
    /\ Again /\ failures' = f
    /\ UNCHANGED <<durable, site, streamMissingFailures, misses, checkpoint, cooling>>

\* Classify answered ActionStreamMissing.
ActionStreamMissing(f) ==
    \/ ~Dynamic /\ BacksOff(f)
    \/ /\ Dynamic /\ pc' = "hook" /\ site' = "B" /\ failures' = f
       /\ UNCHANGED <<durable, streamMissingFailures, permanent, misses, checkpoint, cooling>>

KeepsStreamMissingFailures == UNCHANGED streamMissingFailures
ResetsStreamMissingFailures == streamMissingFailures' = 0

\* Classify answered ActionContinue: the failure counters start again and the
\* checkpoint is seeded from the new durable.
ActionContinue ==
    /\ ResetsStreamMissingFailures
    /\ failures' = [Calm EXCEPT !.iter = IF Dynamic THEN 0 ELSE failures.iter]
    /\ checkpoint' = IF Tracks THEN Raised(durable'.start - 1) ELSE checkpoint
    /\ cooling' = TRUE
    /\ Again /\ UNCHANGED <<site, misses>>

\* recover: nothing during the cool-down; otherwise the durable is created
\* with the strategy's policy, which may fail.
recover(f) ==
    \/ cooling /\ BacksOff(f) /\ UNCHANGED pullFaults
    \/ /\ ~cooling /\ stream.up /\ Takes(BuildConfig(FALSE))
       /\ Create(BuildConfig(FALSE)) /\ ActionContinue /\ UNCHANGED pullFaults
    \/ ~cooling /\ stream.up /\ BacksOff(f) /\ PullFault
    \/ ~cooling /\ ~stream.up /\ ActionStreamMissing(f) /\ UNCHANGED pullFaults

\* Classify of a missed heartbeat: recorded, and from the threshold on
\* confirmed by the durable's Info.
Recorded == [failures EXCEPT !.burst = Min({@ + 1, Threshold})]
HeartbeatTransientForever ==
    \/ (Recorded.burst < Threshold \/ ~stream.up) /\ BacksOff(Recorded) /\ UNCHANGED pullFaults
    \/ Recorded.burst >= Threshold /\ stream.up /\ recover(Recorded)
ClassifyHeartbeat ==
    \/ Recorded.burst < Threshold /\ BacksOff(Recorded) /\ UNCHANGED pullFaults
    \/ Recorded.burst >= Threshold /\ ~stream.up /\ ActionStreamMissing(Recorded) /\ UNCHANGED pullFaults
    \/ Recorded.burst >= Threshold /\ stream.up /\ recover(Recorded)

\* With recovery disabled the dynamic consumer falls back on the escalation.
HandleWithoutRecovery ==
    /\ conf.strategy = "disabled"
    /\ IF ~Dynamic THEN BacksOff(failures)
       ELSE /\ maybeEscalateIteratorFailures
            /\ IF EscalationSaysMissing THEN handleStreamMissingFailure
               ELSE /\ Again /\ UNCHANGED misses
                    /\ streamMissingFailures' = IF Escalates /\ durable'.ok THEN 0 ELSE streamMissingFailures
            /\ UNCHANGED <<site, checkpoint, cooling>>

\* Next fails because the durable is gone: the server said so, or heartbeats
\* are missing.  handleIteratorFailure classifies the error.
NextFailed ==
    /\ pc = "pull" /\ ~durable.ok
    /\ \/ HandleWithoutRecovery /\ UNCHANGED pullFaults
       \/ conf.strategy # "disabled" /\ recover(failures)
       \/ conf.strategy # "disabled" /\ ClassifyHeartbeat
    /\ UNCHANGED <<conf, stream, streamEpoch, recreatedSinceLastBuild, attempts, ack, done, stale>>

\* Next fails although the durable is there: an outage, a late heartbeat, an
\* iterator closed from outside.
NextFailedSpuriously ==
    /\ pc = "pull" /\ durable.ok /\ PullFault
    /\ \/ HandleWithoutRecovery
       \/ BacksOff(failures)
       \/ conf.strategy # "disabled" /\ BacksOff(Recorded)
    /\ UNCHANGED <<conf, stream, streamEpoch, recreatedSinceLastBuild, attempts, ack, done, stale>>

-----------------------------------------------------------------------------
(* The stream-missing detour of the dynamic consumer.                      *)

\* handleStreamMissing: without a hook, or when it fails, the detour failed.
HookFailed ==
    /\ pc = "hook"
    /\ \/ ~conf.hook /\ UNCHANGED pullFaults
       \/ conf.hook /\ PullFault
    /\ DetourFailed
    /\ UNCHANGED <<conf, server, ctl, site, failures, cooling, ack, done, stale>>

\* The hook recreates the stream, unless it is there again, and the epoch is
\* bumped.
HookSucceeded ==
    /\ pc = "hook" /\ conf.hook
    /\ stream' = IF stream.up THEN stream ELSE [stream EXCEPT !.up = TRUE, !.inc = @ + 1, !.by = "hook"]
    /\ streamEpoch' = streamEpoch + 1
    /\ pc' = "reset"
    /\ UNCHANGED <<conf, durable, checkpoint, recreatedSinceLastBuild, site, attempts, failures,
                   streamMissingFailures, permanent, cooling, ack, hist, pullFaults>>

NoReset == checkpoint
ResetForStreamRecreate == 0

\* The checkpoint is dropped.
CheckpointReset ==
    /\ pc = "reset" /\ pc' = "seed"
    /\ checkpoint' = ResetForStreamRecreate
    /\ UNCHANGED <<conf, server, streamEpoch, recreatedSinceLastBuild, site, attempts, failures,
                   streamMissingFailures, permanent, cooling, ack, hist, pullFaults>>

\* It is seeded from the durable, if there is one, and the flag is set.
CheckpointSeeded ==
    /\ pc = "seed" /\ pc' = "build"
    /\ SeedCheckpoint
    /\ recreatedSinceLastBuild' = TRUE
    /\ UNCHANGED <<conf, server, streamEpoch, site, attempts, failures,
                   streamMissingFailures, permanent, cooling, ack, hist, pullFaults>>

\* RebuildAfterStreamRecreated takes the flag and creates the durable; the
\* escalation and both budgets start again.  Site A also needs an iterator.
Rebuilt ==
    /\ pc = "build" /\ stream.up /\ Takes(BuildConfig(recreatedSinceLastBuild))
    /\ Create(BuildConfig(recreatedSinceLastBuild))
    /\ recreatedSinceLastBuild' = FALSE
    /\ failures' = Calm /\ streamMissingFailures' = 0 /\ cooling' = TRUE
    /\ \/ site = "B" /\ Again /\ UNCHANGED <<attempts, pullFaults>>
       \/ site = "A" /\ pc' = "pull" /\ attempts' = 0 /\ UNCHANGED <<permanent, pullFaults>>
       \/ site = "A" /\ PullFault /\ AttemptFailed
    /\ UNCHANGED <<conf, stream, checkpoint, streamEpoch, site, ack, hist>>

\* It takes the flag and fails.
RebuildFailed ==
    /\ pc = "build"
    /\ \/ PullFault
       \/ ~(stream.up /\ Takes(BuildConfig(recreatedSinceLastBuild))) /\ UNCHANGED pullFaults
    /\ recreatedSinceLastBuild' = FALSE
    /\ DetourFailed
    /\ UNCHANGED <<conf, server, checkpoint, streamEpoch, site, failures, cooling, ack, done, stale>>

\* The four loops take the same steps; the first three never enter the detour.
PullLoop == IteratorCreated \/ NextFailed
Detour == HookFailed \/ HookSucceeded \/ CheckpointReset \/ CheckpointSeeded \/ Rebuilt \/ RebuildFailed

QueueRunLoop == conf.kind = "queue" /\ PullLoop
QueueProcessIterator == conf.kind = "queue" /\ NextReturns
BroadcastRunLoop == conf.kind = "broadcast" /\ PullLoop
BroadcastProcessIterator == conf.kind = "broadcast" /\ NextReturns
StaticRun == conf.kind = "static" /\ PullLoop
StaticProcessIterator == conf.kind = "static" /\ NextReturns
PartitionRun == Dynamic /\ (PullLoop \/ Detour)
PartitionProcessIterator == Dynamic /\ NextReturns

Loop ==
    \/ QueueRunLoop \/ QueueProcessIterator \/ BroadcastRunLoop \/ BroadcastProcessIterator
    \/ StaticRun \/ StaticProcessIterator \/ PartitionRun \/ PartitionProcessIterator
PullEnvironment ==
    \/ Publishes \/ ConsumerDeleted \/ StreamDeleted \/ StreamRecreatedElsewhere
    \/ IteratorFailed \/ NextFailedSpuriously
\* The loop exited, or Next waits for a message.
Idle ==
    /\ \/ pc = "done"
       \/ pc = "pull" /\ durable.ok /\ Deliverable = {}
    /\ UNCHANGED recoveryVars

RecoveryNext == Loop \/ PullEnvironment \/ AckSent \/ AckAdvances \/ CooldownEnds \/ WindowPasses \/ Idle

\* The loop's goroutine runs until it exits: Next of a durable that is gone
\* returns an error when heartbeats stop.  The clocks run.
RecoveryFairness == WF_recoveryVars(Loop) /\ WF_recoveryVars(CooldownEnds) /\ WF_recoveryVars(WindowPasses)
RecoverySpec == RecoveryInit /\ [][RecoveryNext]_recoveryVars
FairRecoverySpec == RecoverySpec /\ RecoveryFairness

-----------------------------------------------------------------------------
Skipped == {s \in 1 .. durable.start - 1 : s \notin done}
Passed(s) == \E t \in done : t > s

SkipsOnlyPassed ==
    durable.ok /\ ~stale =>
        /\ conf.strategy = "all" => Skipped = {}
        /\ conf.strategy = "last" /\ durable.policy # "new" => \A s \in Skipped : Passed(s)

BudgetStep == permanent' # permanent => misses' >= MaxAttempts \/ attempts' >= MaxAttempts

Surfaced == Dynamic => stream.up \/ permanent > 0
Settled == durable.ok \/ ~stream.up \/ pc = "done" \/ (conf.strategy = "disabled" /\ ~Dynamic)

\* A durable that recovery creates leaves out only messages that were passed:
\* none under FromBeginning; under FromLastProcessed those below the highest
\* acked message, except by the fallback to new messages when nothing was
\* acked yet.  (A checkpoint that belongs to an earlier stream is another case.)
\* OnPermanentFailure fires only after MaxAttempts failures in one episode: a
\* message that was delivered in between gives the full budget back, although
\* the two counters live in different places and are reset on different paths.
\* When the stream of a dynamic consumer is gone for good, the loop ends in
\* OnPermanentFailure and does not alternate between errors and backoff; and a
\* deleted durable of a stream that exists is created again, unless the loop
\* gave up, or recovery is disabled on a consumer without escalation.
LossIsSettled == []SkipsOnlyPassed /\ [][BudgetStep]_recoveryVars /\ []<>Surfaced /\ []<>Settled
=============================================================================
