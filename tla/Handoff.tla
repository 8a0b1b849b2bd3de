------------------------------ MODULE Handoff -------------------------------
(***************************************************************************)
(* The two-phase handoff of one partition between workers:                 *)
(* internal/assignment/handoff (claims and coordinator) and the manager's  *)
(* removal guard, hygiene and resume.                                      *)
(*                                                                         *)
(* Claims of different partitions do not interact, so there is one, and    *)
(* the claims bucket is its claim and the sequence of its stream.  A       *)
(* PutIfEpoch reads, compares the epoch and writes under the revision it   *)
(* read: another write in between makes it fail, so it is one step.  The   *)
(* TTL of a claim is an event.                                             *)
(***************************************************************************)
EXTENDS Naturals, FiniteSets

CONSTANTS
    Worker, NoOne,
    MaxPlans,    \* bound: commits
    MaxRetries,  \* Config.MaxRetries
    MaxFaults    \* bound: failures, lost answers, crashes and expiries

ASSUME HandoffAssumption == MaxPlans \in Nat /\ NoOne \notin Worker

VARIABLES
    plan,     \* version -> the worker it gives the partition, NoOne if it is gone
    ver,      \* the live commit's version
    source,   \* the partition is in the partition source
    claim,    \* the claim in the bucket
    seq,      \* the last sequence of the bucket's stream
    expired,  \* the claim's TTL has elapsed
    faults,
    at,       \* worker -> its phase of Apply, "idle" between two
    target,   \* worker -> the version it applies or last tried to
    done,     \* worker -> committedAssignment's version
    snap,     \* worker -> the claim it read for its update, or Unread
    resume,   \* worker -> pendingHandoffResume and the pass that it starts
    tries,    \* worker -> conflicts of that update
    sub,      \* the workers whose consumer has the partition's subject
    sweep,    \* the sweep pass under way
    died,     \* the workers that ever crashed
    mishaps,  \* what happened to the claim that may leave a handoff unfinished
    released  \* the claim's owner let go of the subject

kv == <<claim, seq, expired>>
commits == <<plan, ver, source>>
applies == <<at, target, done, snap, tries, sub>>
traces == <<died, mishaps, released>>
handoffVars == <<commits, kv, faults, applies, resume, sweep, traces>>

Version == 1..MaxPlans
Someone == Worker \cup {NoOne}
Claim == [owner : Worker, pending : Someone, state : {"stable", "prepare", "commit"}, epoch : Nat \ {0}]
NoClaim == [owner |-> NoOne, pending |-> NoOne, state |-> "none", epoch |-> 0]
Unread == [NoClaim EXCEPT !.state = "unread"]
NoPass == [at |-> "off", seen |-> NoClaim, new |-> NoClaim, rev |-> 0]
NoResume == [at |-> "off", seen |-> NoClaim]
ClaimPhase == {"hygiene", "prepare", "commit", "stabilize"}

HandoffInit ==
    /\ plan = [v \in Version |-> NoOne] /\ ver = 0 /\ source = TRUE
    /\ claim = NoClaim /\ seq = 0 /\ expired = FALSE /\ faults = 0
    /\ at = [w \in Worker |-> "idle"] /\ target = [w \in Worker |-> 0]
    /\ done = [w \in Worker |-> 0] /\ snap = [w \in Worker |-> Unread]
    /\ tries = [w \in Worker |-> 0] /\ sub = {}
    /\ sweep = NoPass /\ died = {} /\ mishaps = {} /\ released = FALSE
    /\ resume = [w \in Worker |-> NoResume]

Fault == faults < MaxFaults /\ faults' = faults + 1

-----------------------------------------------------------------------------
(* Claims *)

NewInitialClaim(w) == [owner |-> w, pending |-> NoOne, state |-> "stable", epoch |-> 1]
NextPrepare(c, w) == [c EXCEPT !.pending = w, !.state = "prepare", !.epoch = @ + 1]
NextCommit(c) ==
    [c EXCEPT !.owner = IF c.pending # NoOne THEN c.pending ELSE @,
              !.pending = NoOne, !.state = "commit", !.epoch = @ + 1]
NextStable(c) == [c EXCEPT !.state = "stable", !.epoch = @ + 1]
\* The claim a reset leaves; its epoch stays.
Reset(c) == [c EXCEPT !.state = "stable", !.pending = NoOne]

\* The transforms of the phases: the next claim, or c itself for no update.
Prepared(w, c) ==
    CASE c = NoClaim -> NewInitialClaim(w)
      [] c # NoClaim /\ c.owner # w -> NextPrepare(c, w)
      [] c.owner = w /\ (c.state # "stable" \/ c.pending # NoOne) -> [Reset(c) EXCEPT !.epoch = @ + 1]
      [] OTHER -> c

\* Wrong variant: only the owner commits.
CommittedByOwner(w, c) == IF c.owner = w /\ c.state = "prepare" THEN NextCommit(c) ELSE c

Committed(w, c) ==
    IF c # NoClaim /\ ~(c.owner = w /\ c.state = "stable") /\ (c.pending = w \/ c.owner # w) /\ c.state # "commit"
    THEN NextCommit(c) ELSE c

Stabilized(w, c) == IF c.owner = w /\ c.state = "commit" THEN NextStable(c) ELSE c

Reconciled(c) ==
    CASE c = NoClaim \/ c.state = "stable" -> c
      [] c.state = "commit" /\ c.pending = NoOne -> NextStable(c)
      [] expired -> Reset(c)
      [] OTHER -> c

\* What the phase makes of a claim it read, and whether that is written: the
\* commit phase writes a claim that another worker has in commit as it is.
Transformed(w, c) ==
    CASE at[w] = "prepare" -> Prepared(w, c)
      [] at[w] = "commit" -> Committed(w, c)
      [] at[w] = "hygiene" -> Reset(c)
      [] OTHER -> Stabilized(w, c)
Writes(w, c) ==
    IF at[w] = "hygiene" THEN c.state \in {"prepare", "commit"} /\ expired
    ELSE Transformed(w, c) # c \/ (at[w] = "commit" /\ c.state = "commit" /\ c.owner # w)

SameEpoch(old) == claim.epoch = old.epoch

\* What a write of new over old tells: a reset that keeps the epoch.
ResetOf(old, new) == IF new.state = "stable" /\ new.epoch = old.epoch THEN {"reset"} ELSE {}

\* PutIfEpoch when it takes effect; a missing claim has epoch 0.
PutIfEpoch(old, new) ==
    /\ SameEpoch(old)
    /\ claim' = new /\ seq' = seq + 1 /\ expired' = FALSE

-----------------------------------------------------------------------------
(* external: the leader's commits, the source, time, crashes *)

Publish ==
    /\ ver < MaxPlans /\ ver' = ver + 1
    /\ \E w \in Someone : (w # NoOne) = source /\ plan' = [plan EXCEPT ![ver + 1] = w]
    /\ UNCHANGED <<source, kv, faults, applies, sweep, traces, resume>>

SourceChanges ==
    /\ ver < MaxPlans
    /\ source' = ~source
    /\ UNCHANGED <<plan, ver, kv, faults, applies, sweep, traces, resume>>

Expires ==
    /\ Fault /\ claim.state \in {"prepare", "commit"} /\ ~expired
    /\ expired' = TRUE
    /\ UNCHANGED <<commits, claim, seq, applies, sweep, traces, resume>>

\* The process is restarted: its memory and its consumer are gone, and the
\* first assignment it will see is the live one or a later one.
Crashes(w) ==
    /\ Fault
    /\ at' = [at EXCEPT ![w] = "hygiene"] /\ target' = [target EXCEPT ![w] = ver]
    /\ done' = [done EXCEPT ![w] = 0] /\ snap' = [snap EXCEPT ![w] = Unread]
    /\ tries' = [tries EXCEPT ![w] = 0] /\ sub' = sub \ {w} /\ died' = died \cup {w}
    /\ resume' = [resume EXCEPT ![w] = NoResume]
    /\ UNCHANGED <<commits, kv, sweep, mishaps, released>>

-----------------------------------------------------------------------------
(* Apply *)

Has(w, v) == v > 0 /\ plan[v] = w

\* transitionVersionAdjacent.
transitionVersionAdjacent(w) == done[w] + 1 = target[w]

\* The partition is in the walk of the phase: prepare walks what is new
\* against the committed assignment, everything after a gap.
Walks(w) ==
    IF at[w] = "prepare" THEN Has(w, target[w]) /\ ~(transitionVersionAdjacent(w) /\ Has(w, done[w]))
    ELSE at[w] = "hygiene" \/ Has(w, target[w])

After(w) ==
    CASE at[w] = "hygiene" -> "idle" [] at[w] = "prepare" -> "guard" [] at[w] = "commit" -> "stabilize"
      [] OTHER -> "idle"

\* The phase is over; with the last one the assignment is applied, and
\* runInitialHandoffResumeIfPending starts the resume pass.
PhaseEnds(w) ==
    /\ at' = [at EXCEPT ![w] = After(w)]
    /\ snap' = [snap EXCEPT ![w] = Unread] /\ tries' = [tries EXCEPT ![w] = 0]
    /\ done' = [done EXCEPT ![w] = IF at[w] = "stabilize" THEN target[w] ELSE @]
    /\ resume' = [resume EXCEPT ![w].at = IF at[w] = "stabilize" /\ @ = "pending" THEN "run"
                                         ELSE IF at[w] = "hygiene" /\ claim.state \in {"prepare", "commit"} /\ snap[w] = Unread
                                         THEN "pending" ELSE @]
    /\ UNCHANGED <<target, sub>>

\* The pipeline hands the coordinator a newer target or the same again.
ApplyStarts(w) ==
    /\ at[w] = "idle"
    /\ \E v \in Version : v <= ver /\ v > done[w] /\ v >= target[w] /\ target' = [target EXCEPT ![w] = v]
    /\ at' = [at EXCEPT ![w] = "prepare"]
    /\ UNCHANGED <<commits, kv, faults, done, snap, tries, sub, sweep, traces, resume>>

\* updateClaim: the read, and the end of the phase when there is nothing to do.
ClaimRead(w) ==
    /\ at[w] \in ClaimPhase /\ snap[w] = Unread
    /\ IF Walks(w) /\ Writes(w, claim)
       THEN snap' = [snap EXCEPT ![w] = claim] /\ UNCHANGED <<at, target, done, tries, sub, resume>>
       ELSE PhaseEnds(w)
    /\ UNCHANGED <<commits, kv, faults, sweep, traces>>

\* updateClaim: the write takes effect ...
ClaimWritten(w) ==
    /\ at[w] \in ClaimPhase /\ snap[w] # Unread
    /\ PutIfEpoch(snap[w], Transformed(w, snap[w]))
    /\ mishaps' = mishaps \cup ResetOf(snap[w], Transformed(w, snap[w]))
                         \cup (IF at[w] # "hygiene" /\ target[w] # ver THEN {"stale"} ELSE {})
    /\ \/ PhaseEnds(w) /\ UNCHANGED faults
       \/ \* its answer is lost, and it counts as a conflict
          /\ Fault /\ snap' = [snap EXCEPT ![w] = Unread] /\ tries' = [tries EXCEPT ![w] = @ + 1]
          /\ tries[w] < MaxRetries /\ at[w] # "hygiene" /\ UNCHANGED <<at, target, done, sub, resume>>
    /\ UNCHANGED <<commits, sweep, died, released>>

\* ... or meets a conflict and is tried again from the read; hygiene
\* does not try again.
ClaimConflict(w) ==
    /\ at[w] \in ClaimPhase /\ snap[w] # Unread
    /\ ~SameEpoch(snap[w])
    /\ IF at[w] = "hygiene" THEN PhaseEnds(w)
       ELSE /\ snap' = [snap EXCEPT ![w] = Unread]
            /\ tries' = [tries EXCEPT ![w] = IF @ < MaxRetries THEN @ + 1 ELSE 0]
            /\ at' = [at EXCEPT ![w] = IF tries[w] < MaxRetries THEN @ ELSE "idle"]
            /\ UNCHANGED <<target, done, sub, resume>>
    /\ UNCHANGED <<commits, kv, faults, sweep, traces>>

\* Any step of Apply returns an error; the apply-retry loop will be back.
HandoffFails(w) ==
    /\ Fault /\ at[w] \in {"prepare", "guard", "update", "commit", "stabilize"}
    /\ at' = [at EXCEPT ![w] = "idle"]
    /\ snap' = [snap EXCEPT ![w] = Unread] /\ tries' = [tries EXCEPT ![w] = 0]
    /\ UNCHANGED <<commits, kv, target, done, sub, sweep, traces, resume>>

\* Wrong variant: a prepared transfer is taken for a committed one.
committedElsewherePrepared(w) == claim # NoClaim /\ (claim.owner # w \/ claim.pending \notin {NoOne, w})

\* The claim proves that another worker has taken the partition.
committedElsewhere(w) == claim # NoClaim /\ claim.owner # w /\ claim.state \in {"commit", "stable"}

\* guardHandoffRemoval: it blocks a transfer of the live commit that is not
\* proved, and only that.
GuardHandoffRemoval(w) ==
    /\ at[w] = "guard"
    /\ LET removed == Has(w, done[w]) /\ ~Has(w, target[w])
           transfer == ver = target[w] /\ plan[ver] # NoOne
       IN at' = [at EXCEPT ![w] = IF removed /\ transfer /\ ~committedElsewhere(w) THEN "idle" ELSE "update"]
    /\ UNCHANGED <<commits, kv, faults, target, done, snap, tries, sub, sweep, traces, resume>>

\* UpdateWorkerConsumer.
UpdateWorkerConsumer(w) ==
    /\ at[w] = "update"
    /\ sub' = IF Has(w, target[w]) THEN sub \cup {w} ELSE sub \ {w}
    /\ at' = [at EXCEPT ![w] = "commit"]
    /\ released' = (released \/ (w \in sub /\ ~Has(w, target[w]) /\ claim.owner = w))
    /\ UNCHANGED <<commits, kv, faults, target, done, snap, tries, sweep, died, mishaps, resume>>

\* finalizeResumeClaims, beside the worker's next Apply.
Resumes(w) ==
    /\ \/ /\ resume[w].at = "run"
          /\ resume' = [resume EXCEPT ![w] = IF claim.owner = w /\ claim.state = "commit"
                                             THEN [at |-> "write", seen |-> claim] ELSE NoResume]
          /\ UNCHANGED kv
       \/ /\ resume[w].at = "write" /\ resume' = [resume EXCEPT ![w] = NoResume]
          /\ \/ PutIfEpoch(resume[w].seen, NextStable(resume[w].seen))
             \/ ~SameEpoch(resume[w].seen) /\ UNCHANGED kv
    /\ UNCHANGED <<commits, faults, applies, sweep, traces>>

-----------------------------------------------------------------------------
(* What a sweep of any worker does to the claim (ClaimSweep has the passes) *)

\* livePartitionSet: the union of the source and the live commit.
Live == source \/ (ver > 0 /\ plan[ver] # NoOne)

\* A pass vouches, reads the claim, and goes on to reconcile it or to delete
\* it as an orphan whose grace has passed.
SweepReads ==
    /\ sweep.at = "off" /\ claim # NoClaim
    /\ \/ Reconciled(claim) # claim /\ sweep' = [at |-> "write", seen |-> claim, new |-> Reconciled(claim), rev |-> seq]
       \/ ~Live /\ claim.state = "stable" /\ sweep' = [at |-> "delete", seen |-> claim, new |-> claim, rev |-> seq]
    /\ UNCHANGED <<commits, kv, faults, applies, traces, resume>>

SweepWrites ==
    /\ sweep.at = "write" /\ sweep' = NoPass
    /\ \/ PutIfEpoch(sweep.seen, sweep.new) /\ mishaps' = mishaps \cup ResetOf(sweep.seen, sweep.new)
       \/ ~SameEpoch(sweep.seen) /\ UNCHANGED <<kv, mishaps>>
    /\ UNCHANGED <<commits, faults, applies, resume, died, released>>

\* The delete is conditioned on the revision that was read.
SweepReaps ==
    /\ sweep.at = "delete" /\ sweep' = NoPass
    /\ \/ /\ seq = sweep.rev /\ claim' = NoClaim /\ seq' = seq + 1 /\ expired' = FALSE
          /\ mishaps' = mishaps \cup {"reaped"}
       \/ seq # sweep.rev /\ UNCHANGED <<kv, mishaps>>
    /\ UNCHANGED <<commits, faults, applies, resume, died, released>>

Apply(w) ==
    \/ ApplyStarts(w) \/ ClaimRead(w) \/ ClaimWritten(w) \/ ClaimConflict(w)
    \/ GuardHandoffRemoval(w) \/ UpdateWorkerConsumer(w) \/ Resumes(w)

-----------------------------------------------------------------------------
HandoffNext ==
    \/ Publish \/ SourceChanges \/ Expires \/ SweepReads \/ SweepWrites \/ SweepReaps
    \/ \E w \in Worker : Apply(w) \/ HandoffFails(w) \/ Crashes(w)

\* Apply and the apply-retry loop's next Apply go on; nothing else has to.
HandoffFairness ==
    /\ \A w \in Worker : WF_handoffVars(Apply(w))

HandoffSpec == HandoffInit /\ [][HandoffNext]_handoffVars /\ HandoffFairness

-----------------------------------------------------------------------------
(* Properties *)

RemovalStep ==
    \A w \in Worker :
        w \in sub \ sub' /\ at'[w] = "commit" /\ Has(w, done[w]) /\ target[w] = ver /\ plan[ver] # NoOne /\ mishaps = {} /\ ~released
          => \E x \in Worker \ {w} : x \in sub \/ x \in died

\* A worker drops the subject of a partition of its committed assignment that
\* the live commit gives to another only when another has it (RemovalGuard
\* before UpdateWorkerConsumer, commit after it), or crashed since.  It holds as
\* long as the claim has met none of the mishaps that HandoffCompletes excepts,
\* and no owner of the claim has let go of the subject: the guard does not stop
\* one whose committed assignment lacks the partition, because its Apply failed
\* after the consumer update, or whose target is no longer the live commit.
RemovalAfterTakeover == [][RemovalStep]_handoffVars

HandedOver ==
    \/ mishaps # {} \/ ver = 0
    \/ plan[ver] = NoOne /\ sub = {}
    \/ claim.owner = plan[ver] /\ claim.state = "stable" /\ sub = {plan[ver]}

\* Once the commits stop, the partition's claim settles on the worker the last
\* one gives it, and that worker alone has the subject -- unless on the way a
\* claim expired and was reset, was reaped, or was written by an Apply of an
\* older version.
HandoffCompletes == <>[]HandedOver

=============================================================================
