---------------------------- MODULE Claims_proof ----------------------------
(***************************************************************************)
(* Theorems about the partition claims: the two-phase handoff (Handoff),   *)
(* the orphan reaper (ClaimSweep) and a worker's view of a claim           *)
(* (ClaimResolver). Each part is a specification of its own (HandoffSpec,  *)
(* SweepSpec, ResolverSpec) and its theorem holds for any number of        *)
(* workers, versions, writes, retries and faults.                          *)
(*                                                                         *)
(* The handoff's argument follows the claim's owner. As long as nothing on *)
(* the way reset, reaped or wrote the claim for an older version, every    *)
(* write of a phase is one of the worker the live commit names, over the   *)
(* very claim it read; so a commit makes the committing worker the owner,  *)
(* and that worker has the subject already.                                *)
(*                                                                         *)
(* The view's argument is that whatever is on its way to the cache, from   *)
(* the watcher, the reconciler or the message gate, is of the stream when  *)
(* it is made, and the stream only grows.                                  *)
(***************************************************************************)
EXTENDS Handoff, ClaimSweep, ClaimResolver, TLAPS

-----------------------------------------------------------------------------
(* The two-phase handoff *)

Phase == {"idle", "hygiene", "prepare", "guard", "update", "commit", "stabilize"}
SomeClaim == [owner : Someone, pending : Someone, state : {"none", "unread", "stable", "prepare", "commit"}, epoch : Nat]
PassOf == [at : {"off", "write", "delete"}, seen : SomeClaim, new : SomeClaim, rev : Nat]

HTypeOK ==
    /\ MaxPlans \in Nat /\ NoOne \notin Worker
    /\ plan \in [Version -> Someone] /\ ver \in 0..MaxPlans
    /\ claim \in SomeClaim
    /\ seq \in Nat
    /\ at \in [Worker -> Phase] /\ target \in [Worker -> Nat] /\ done \in [Worker -> Nat]
    /\ snap \in [Worker -> SomeClaim] /\ tries \in [Worker -> Nat]
    /\ resume \in [Worker -> [at : {"off", "pending", "run", "write"}, seen : SomeClaim]]
    /\ sub \subseteq Worker /\ died \subseteq Worker /\ sweep \in PassOf

\* Versions applied or tried are not ahead of the live commit.
Behind == \A w \in Worker : done[w] <= target[w] /\ target[w] <= ver

\* A worker that is about to write walks the partition.
WritesWhatItWalks == \A w \in Worker : snap[w] # Unread => at[w] \in ClaimPhase /\ Walks(w)

\* The consumer has the subject from its update to the end of the Apply.
Subscribed == \A w \in Worker : at[w] \in {"commit", "stabilize"} /\ Has(w, target[w]) => w \in sub

\* Nothing went wrong with the claim.
Undisturbed == mishaps = {} /\ ~released

\* The claim of the bucket is the one that was read, or has a higher epoch.
Read(c) == c = claim \/ c.epoch < claim.epoch

\* What a sweep or a resume will write keeps the owner, or is a reset.
Pending ==
    /\ \A w \in Worker : snap[w] # Unread => Read(snap[w])
    /\ \A w \in Worker : resume[w].at = "write" => Read(resume[w].seen) /\ resume[w].seen.state = "commit"
    /\ sweep.at = "write" =>
         /\ Read(sweep.seen)
         /\ \/ sweep.seen.state = "commit" /\ sweep.new = NextStable(sweep.seen)
            \/ sweep.new.state = "stable" /\ sweep.new.epoch = sweep.seen.epoch

\* Every commit since v gives the partition to w.
Stays(w, v) == v > 0 /\ \A u \in v..ver : plan[u] = w

Owns(w) == claim.owner = w /\ claim.pending = NoOne
Claims(w) == Owns(w) \/ (claim # NoClaim /\ claim.pending = w /\ claim.state = "prepare")

\* A worker the commits have not left since: the claim is prepared for it once
\* its prepare phase is over, and its own once its commit phase is.
KeptClaim(w) ==
    /\ at[w] \in {"guard", "update", "commit"} /\ Stays(w, target[w]) => Claims(w)
    /\ at[w] = "stabilize" /\ Stays(w, target[w]) => Owns(w)
    /\ Stays(w, done[w]) => Owns(w)

\* Once a worker has committed the partition, the claim's owner has the subject
\* or crashed.
OwnerHasIt(w) ==
    Has(w, done[w]) \/ (at[w] = "stabilize" /\ Has(w, target[w])) => claim.owner \in sub \cup died
Prepares(w) == at[w] \in {"guard", "update", "commit"} /\ Has(w, target[w]) => claim # NoClaim

\* A worker that passed the guard to drop the partition no longer owns it.
GuardPassed(w) ==
    at[w] = "update" /\ Has(w, done[w]) /\ ~Has(w, target[w]) /\ target[w] = ver /\ plan[ver] # NoOne
      => claim.owner # w

Good(w) == KeptClaim(w) /\ OwnerHasIt(w) /\ Prepares(w) /\ GuardPassed(w)
Claimed == Pending /\ \A w \in Worker : Good(w)

HInv ==
    /\ HTypeOK /\ Behind /\ WritesWhatItWalks /\ Subscribed
    /\ Undisturbed => Claimed


-----------------------------------------------------------------------------
(* The operators *)

\* The phases' transforms, the sweep's and the resets make claims of claims.
LEMMA ClaimsStayClaims ==
    ASSUME NEW c \in SomeClaim
    PROVE  /\ \A w \in Worker : Transformed(w, c) \in SomeClaim
           /\ Reconciled(c) \in SomeClaim
           /\ NextStable(c) \in SomeClaim
<1>1. NoOne \in Someone   BY Zenon DEF Someone
<1> DEFINE r == [c EXCEPT !.epoch = @ + 1]
<1>0. r \in SomeClaim /\ r.owner = c.owner /\ r.pending = c.pending /\ c.pending \in Someone
  BY DEF SomeClaim
<1>2. NextStable(c) \in SomeClaim
  <2>1. NextStable(c) = [r EXCEPT !.state = "stable"]   BY Zenon DEF NextStable, SomeClaim
  <2> QED BY Zenon, <1>0, <2>1 DEF SomeClaim
<1>3. Reset(c) \in SomeClaim   BY Zenon, <1>1 DEF Reset, SomeClaim
<1>4. NextCommit(c) \in SomeClaim
  <2>1. NextCommit(c) = [r EXCEPT !.owner = IF c.pending # NoOne THEN c.pending ELSE @, !.pending = NoOne, !.state = "commit"]
    BY Zenon DEF NextCommit, SomeClaim
  <2> HIDE DEF r
  <2> QED BY Zenon, <1>0, <1>1, <2>1 DEF SomeClaim
<1>5. [Reset(c) EXCEPT !.epoch = @ + 1] \in SomeClaim
  BY <1>3 DEF SomeClaim
<1>6. Reconciled(c) \in SomeClaim   BY Zenon, <1>2, <1>3 DEF Reconciled
<1>7. ASSUME NEW w \in Worker PROVE Transformed(w, c) \in SomeClaim
  <2>1. w \in Someone   BY Zenon DEF Someone
  <2>2. NextPrepare(c, w) = [r EXCEPT !.pending = w, !.state = "prepare"]   BY Zenon DEF NextPrepare, SomeClaim
  <2>3. NewInitialClaim(w) \in SomeClaim   BY Zenon, <1>1, <2>1 DEF NewInitialClaim, SomeClaim
  <2>4. NextPrepare(c, w) \in SomeClaim
    <3> HIDE DEF r
    <3> QED BY Zenon, <1>0, <2>1, <2>2 DEF SomeClaim
  <2>5. Prepared(w, c) \in SomeClaim   BY Zenon, <1>5, <2>3, <2>4 DEF Prepared
  <2> QED BY Zenon, <1>2, <1>3, <1>4, <2>5 DEF Transformed, Committed, Stabilized
<1> QED BY Zenon, <1>2, <1>6, <1>7

\* What the transforms do to the fields of a claim.
LEMMA ClaimFields ==
    ASSUME NEW c \in SomeClaim
    PROVE  /\ NextStable(c).owner = c.owner /\ NextStable(c).pending = c.pending
           /\ NextStable(c).state = "stable" /\ NextStable(c).epoch = c.epoch + 1
           /\ \A w \in Worker : /\ NextPrepare(c, w).owner = c.owner /\ NextPrepare(c, w).pending = w
                                /\ NextPrepare(c, w).state = "prepare" /\ NextPrepare(c, w).epoch = c.epoch + 1
           /\ NextCommit(c).owner = IF c.pending # NoOne THEN c.pending ELSE c.owner
           /\ NextCommit(c).pending = NoOne
           /\ NextCommit(c).state = "commit" /\ NextCommit(c).epoch = c.epoch + 1
           /\ Reset(c).owner = c.owner /\ Reset(c).pending = NoOne
           /\ Reset(c).state = "stable" /\ Reset(c).epoch = c.epoch
<1>1. /\ NextStable(c).owner = c.owner /\ NextStable(c).pending = c.pending
      /\ NextStable(c).state = "stable" /\ NextStable(c).epoch = c.epoch + 1
  BY Zenon DEF NextStable, SomeClaim
<1>2. \A w \in Worker : /\ NextPrepare(c, w).owner = c.owner /\ NextPrepare(c, w).pending = w
                        /\ NextPrepare(c, w).state = "prepare" /\ NextPrepare(c, w).epoch = c.epoch + 1
  BY Zenon DEF NextPrepare, SomeClaim
<1>3. /\ NextCommit(c).owner = IF c.pending # NoOne THEN c.pending ELSE c.owner
      /\ NextCommit(c).pending = NoOne
      /\ NextCommit(c).state = "commit" /\ NextCommit(c).epoch = c.epoch + 1
  BY Zenon DEF NextCommit, SomeClaim
<1>4. /\ Reset(c).owner = c.owner /\ Reset(c).pending = NoOne
      /\ Reset(c).state = "stable" /\ Reset(c).epoch = c.epoch
  BY Zenon DEF Reset, SomeClaim
<1> QED BY Zenon, <1>1, <1>2, <1>3, <1>4

\* The worker every commit since v names is the live commit's, and it was named in v.
LEMMA StaysLive ==
    ASSUME HTypeOK, NEW w, NEW v \in Nat, v <= ver
    PROVE  /\ Stays(w, v) => Has(w, v) /\ ver > 0 /\ plan[ver] = w
           /\ Has(w, v) /\ v = ver => Stays(w, v)
<1>1. ver \in Nat   BY DEF HTypeOK
<1>2. Stays(w, v) => v > 0 /\ v \in v..ver /\ ver \in v..ver   BY <1>1 DEF Stays
<1> QED BY <1>1, <1>2 DEF Stays, Has

\* The initial state satisfies the invariant.
LEMMA InvInit ==
    ASSUME HandoffInit
    PROVE  HInv
<1>0. MaxPlans \in Nat /\ NoOne \notin Worker   BY Zenon, HandoffAssumption
<1>1. NoClaim \in SomeClaim /\ Unread \in SomeClaim   BY Zenon DEF NoClaim, Unread, SomeClaim, Someone
<1>2. HTypeOK
  <2>1. sweep \in PassOf   BY Zenon, <1>1 DEF HandoffInit, PassOf, NoPass
  <2>2. NoResume \in [at : {"off", "pending", "run", "write"}, seen : SomeClaim]   BY Zenon, <1>1 DEF NoResume
  <2>3. resume \in [Worker -> [at : {"off", "pending", "run", "write"}, seen : SomeClaim]]   BY Zenon, <2>2 DEF HandoffInit
  <2>4. plan \in [Version -> Someone] /\ snap \in [Worker -> SomeClaim] /\ claim \in SomeClaim
    BY Zenon, <1>1 DEF HandoffInit, Someone
  <2>5. "idle" \in Phase   BY Zenon DEF Phase
  <2>7. ver \in 0..MaxPlans /\ seq \in Nat /\ sub \subseteq Worker /\ died \subseteq Worker   BY <1>0 DEF HandoffInit
  <2>8. at \in [Worker -> Phase] /\ target \in [Worker -> Nat] /\ done \in [Worker -> Nat] /\ tries \in [Worker -> Nat]
    BY Zenon, <2>5 DEF HandoffInit
  <2> QED BY Zenon, <1>0, <2>1, <2>3, <2>4, <2>7, <2>8 DEF HTypeOK
<1>3. Behind /\ WritesWhatItWalks /\ Subscribed
  BY DEF HandoffInit, Behind, WritesWhatItWalks, Subscribed
<1>4. Pending   BY Zenon DEF HandoffInit, Pending, NoPass, NoResume
<1>5. ASSUME NEW w \in Worker PROVE Good(w)
  <2>1. at[w] = "idle" /\ done[w] = 0   BY Zenon DEF HandoffInit
  <2> QED BY <2>1 DEF Good, KeptClaim, OwnerHasIt, Prepares, GuardPassed, Stays, Has
<1> QED BY Zenon, <1>2, <1>3, <1>4, <1>5 DEF HInv, Claimed

-----------------------------------------------------------------------------
(* Types, versions, and the subject *)

Resume == [at : {"off", "pending", "run", "write"}, seen : SomeClaim]
Basic == HTypeOK /\ Behind /\ WritesWhatItWalks /\ Subscribed

\* The end of a phase moves only the worker's own Apply on.
LEMMA PhaseEnding ==
    ASSUME HTypeOK, NEW w \in Worker, PhaseEnds(w)
    PROVE  /\ at' \in [Worker -> Phase] /\ snap' \in [Worker -> SomeClaim] /\ tries' \in [Worker -> Nat]
           /\ done' \in [Worker -> Nat] /\ resume' \in [Worker -> Resume] /\ target' = target /\ sub' = sub
           /\ \A x \in Worker : x # w => /\ at'[x] = at[x] /\ snap'[x] = snap[x]
                                         /\ done'[x] = done[x] /\ resume'[x] = resume[x]
           /\ snap'[w] = Unread
           /\ at[w] = "prepare" => at'[w] = "guard" /\ done'[w] = done[w]
           /\ at[w] = "commit" => at'[w] = "stabilize" /\ done'[w] = done[w]
           /\ at[w] = "stabilize" => at'[w] = "idle" /\ done'[w] = target[w]
           /\ at[w] = "hygiene" => at'[w] = "idle" /\ done'[w] = done[w]
           /\ resume'[w].seen = resume[w].seen /\ (resume'[w].at = "write" => resume[w].at = "write")
<1>1. After(w) \in {"idle", "guard", "stabilize"}   BY Zenon DEF After
<1>2. Unread \in SomeClaim   BY Zenon DEF Unread, NoClaim, SomeClaim, Someone
<1>3. at' \in [Worker -> Phase] /\ \A x \in Worker : at'[x] = IF x = w THEN After(w) ELSE at[x]
  BY Zenon, <1>1 DEF PhaseEnds, HTypeOK, Phase
<1>4. /\ snap' \in [Worker -> SomeClaim] /\ snap'[w] = Unread
      /\ \A x \in Worker : x # w => snap'[x] = snap[x]
      /\ tries' \in [Worker -> Nat]
  BY Zenon, <1>2 DEF PhaseEnds, HTypeOK
<1>5. done' \in [Worker -> Nat] /\ \A x \in Worker : done'[x] = IF x = w /\ at[w] = "stabilize" THEN target[w] ELSE done[x]
  BY Zenon DEF PhaseEnds, HTypeOK
<1>6. /\ resume' \in [Worker -> Resume]
      /\ \A x \in Worker : x # w => resume'[x] = resume[x]
      /\ resume'[w].seen = resume[w].seen /\ (resume'[w].at = "write" => resume[w].at = "write")
  BY DEF PhaseEnds, HTypeOK, Resume
<1>7. /\ at[w] = "prepare" => After(w) = "guard"
      /\ at[w] = "commit" => After(w) = "stabilize"
      /\ at[w] \in {"stabilize", "hygiene"} => After(w) = "idle"
  BY Zenon DEF After
<1> QED BY <1>3, <1>4, <1>5, <1>6, <1>7 DEF PhaseEnds

\* It is enough to look at the worker that takes a step of its Apply.
LEMMA OwnStep ==
    ASSUME Basic, NEW w \in Worker, UNCHANGED commits, sweep' = sweep,
           at' \in [Worker -> Phase], target' \in [Worker -> Nat], done' \in [Worker -> Nat],
           snap' \in [Worker -> SomeClaim], tries' \in [Worker -> Nat], resume' \in [Worker -> Resume],
           sub' \subseteq Worker, died' \subseteq Worker, claim' \in SomeClaim, seq' \in Nat,
           \A x \in Worker : x # w => /\ at'[x] = at[x] /\ target'[x] = target[x] /\ done'[x] = done[x]
                                     /\ snap'[x] = snap[x] /\ (x \in sub' <=> x \in sub),
           done'[w] <= target'[w], target'[w] <= ver,
           snap'[w] # Unread => at'[w] \in ClaimPhase /\ Walks(w)',
           at'[w] \in {"commit", "stabilize"} /\ Has(w, target'[w]) => w \in sub'
    PROVE  Basic'
<1> USE DEF Basic
<1>1. HTypeOK'   BY Zenon DEF HTypeOK, commits, Resume
<1>2. \A x \in Worker : x # w => (Walks(x)' <=> Walks(x)) /\ (Has(x, target[x])' <=> Has(x, target[x]))
  BY Zenon DEF Walks, Has, transitionVersionAdjacent, commits
<1>3. Behind'   BY Zenon DEF Behind, commits
<1>4. WritesWhatItWalks'   BY Zenon, <1>2 DEF WritesWhatItWalks
<1>5. Subscribed'   BY Zenon, <1>2 DEF Subscribed, Has, commits
<1> QED BY Zenon, <1>1, <1>3, <1>4, <1>5

\* The end of a phase keeps them, whatever it wrote.
LEMMA PhaseEndKeeps ==
    ASSUME Basic, NEW w \in Worker, PhaseEnds(w), at[w] \in ClaimPhase, UNCHANGED commits, sweep' = sweep,
           died' = died, claim' \in SomeClaim, seq' \in Nat
    PROVE  Basic'
<1>1. /\ at' \in [Worker -> Phase] /\ snap' \in [Worker -> SomeClaim] /\ tries' \in [Worker -> Nat]
      /\ done' \in [Worker -> Nat] /\ resume' \in [Worker -> Resume] /\ target' = target /\ sub' = sub
      /\ \A x \in Worker : x # w => at'[x] = at[x] /\ snap'[x] = snap[x] /\ done'[x] = done[x]
      /\ snap'[w] = Unread /\ done'[w] \in {done[w], target[w]}
      /\ at'[w] \in {"idle", "guard", "stabilize"} /\ (at'[w] = "stabilize" => at[w] = "commit")
  BY PhaseEnding DEF Basic, ClaimPhase
<1>2. done'[w] <= target'[w] /\ target'[w] <= ver
  BY <1>1 DEF Basic, HTypeOK, Behind
<1>3. at'[w] \in {"commit", "stabilize"} /\ Has(w, target'[w]) => w \in sub'
  BY Zenon, <1>1 DEF Basic, Subscribed
<1>4. target' \in [Worker -> Nat] /\ sub' \subseteq Worker /\ died' \subseteq Worker
  BY Zenon, <1>1 DEF Basic, HTypeOK
<1> QED BY Zenon, <1>1, <1>2, <1>3, <1>4, OwnStep

\* Every step keeps the types, the order of the versions, and the two invariants
\* of an Apply by itself.
LEMMA BasicNext ==
    ASSUME Basic, [HandoffNext]_handoffVars
    PROVE  Basic'
<1> USE DEF Basic
<1>0. /\ MaxPlans \in Nat /\ NoOne \notin Worker /\ ver \in Nat /\ Unread \in SomeClaim /\ NoClaim \in SomeClaim
      /\ \A w \in Worker : /\ at[w] \in Phase /\ target[w] \in Nat /\ done[w] \in Nat
                           /\ snap[w] \in SomeClaim /\ resume[w] \in Resume /\ resume[w].seen \in SomeClaim
  BY DEF HTypeOK, Unread, NoClaim, SomeClaim, Someone, Resume
<1>1. CASE Publish
  <2>1. /\ ver' = ver + 1 /\ ver' \in 0..MaxPlans /\ plan' \in [Version -> Someone]
        /\ \A v \in Nat : v <= ver => plan'[v] = plan[v]
    BY <1>1 DEF Publish, HTypeOK, Version
  <2>2. HTypeOK'
    BY Zenon, <1>1, <2>1 DEF Publish, HTypeOK, kv, applies, traces
  <2>3. Behind'   BY <1>0, <1>1, <2>1 DEF Publish, Behind, applies
  <2>4. \A w \in Worker : (Has(w, target[w])' <=> Has(w, target[w])) /\ (Has(w, done[w])' <=> Has(w, done[w]))
    BY <1>0, <1>1, <2>1 DEF Publish, applies, Has, Behind
  <2>5. WritesWhatItWalks' /\ Subscribed'
    BY Zenon, <1>1, <2>4 DEF Publish, applies, WritesWhatItWalks, Subscribed, Walks, transitionVersionAdjacent
  <2> QED BY Zenon, <2>2, <2>3, <2>5
<1>2. CASE SourceChanges \/ Expires
  <2>1. HTypeOK'   BY Zenon, <1>2 DEF SourceChanges, Expires, HTypeOK, kv, applies, traces, commits, handoffVars
  <2> QED BY Zenon, <1>2, <2>1 DEF SourceChanges, Expires, commits, applies, Behind, WritesWhatItWalks, Subscribed, Walks,
                            transitionVersionAdjacent, Has
<1>3. CASE SweepReads \/ SweepWrites \/ SweepReaps
  <2>1. UNCHANGED <<commits, applies, resume, died, released>>
    BY Zenon, <1>3 DEF SweepReads, SweepWrites, SweepReaps, commits, applies, traces
  <2>2. sweep' \in PassOf
    <3>1. CASE SweepReads
      BY <3>1, ClaimsStayClaims DEF SweepReads, HTypeOK, PassOf
    <3>2. CASE ~SweepReads
      BY <1>0, <1>3, <3>2 DEF SweepWrites, SweepReaps, PassOf, NoPass
    <3> QED BY Zenon, <3>1, <3>2
  <2>3. claim' \in SomeClaim /\ seq' \in Nat
    <3>1. CASE SweepReads   BY Zenon, <3>1 DEF SweepReads, HTypeOK, kv
    <3>2. CASE SweepWrites   BY <3>2 DEF SweepWrites, HTypeOK, PassOf, PutIfEpoch, kv
    <3>3. CASE SweepReaps   BY <1>0, <3>3 DEF SweepReaps, HTypeOK, kv
    <3> QED BY Zenon, <1>3, <3>1, <3>2, <3>3
  <2>4. HTypeOK'   BY Zenon, <2>1, <2>2, <2>3 DEF HTypeOK, commits, applies
  <2> QED BY Zenon, <2>1, <2>4 DEF commits, applies, Behind, WritesWhatItWalks, Subscribed, Walks,
                            transitionVersionAdjacent, Has
<1>4. ASSUME NEW w \in Worker, Apply(w) \/ HandoffFails(w) \/ Crashes(w)
      PROVE  Basic'
  <2>0. UNCHANGED commits /\ sweep' = sweep
    BY Zenon, <1>4 DEF Apply, ApplyStarts, ClaimRead, ClaimWritten, ClaimConflict, GuardHandoffRemoval,
                UpdateWorkerConsumer, Resumes, HandoffFails, Crashes
  <2>1. CASE ApplyStarts(w)
    <3>1. snap[w] = Unread   BY Zenon, <2>1 DEF ApplyStarts, WritesWhatItWalks, ClaimPhase
    <3>2. PICK v \in Version : v <= ver /\ v > done[w] /\ target' = [target EXCEPT ![w] = v]
      BY Zenon, <2>1 DEF ApplyStarts
    <3>3. /\ at' \in [Worker -> Phase] /\ target' \in [Worker -> Nat] /\ at'[w] = "prepare" /\ target'[w] = v
          /\ \A x \in Worker : x # w => at'[x] = at[x] /\ target'[x] = target[x]
      BY <2>1, <3>2 DEF ApplyStarts, HTypeOK, Version, Phase
    <3>4. v \in Nat /\ done[w] <= v   BY <1>0, <3>2 DEF Version
    <3> QED BY Zenon, <1>0, <2>0, <2>1, <3>1, <3>2, <3>3, <3>4, OwnStep DEF ApplyStarts, HTypeOK, Resume, kv, traces
  <2>2. CASE ClaimRead(w)
    <3>1. CASE Walks(w) /\ Writes(w, claim)
      <4>1. snap' = [snap EXCEPT ![w] = claim] /\ UNCHANGED <<at, target, done, tries, sub, resume>>
        BY Zenon, <2>2, <3>1 DEF ClaimRead
      <4>2. Walks(w)'   BY Zenon, <2>0, <3>1, <4>1 DEF Walks, transitionVersionAdjacent, Has, commits
      <4> QED BY Zenon, <1>0, <2>0, <2>2, <4>1, <4>2, OwnStep DEF ClaimRead, HTypeOK, Resume, kv, traces, Behind, Subscribed
    <3>2. CASE ~(Walks(w) /\ Writes(w, claim))
      <4>1. PhaseEnds(w)   BY Zenon, <2>2, <3>2 DEF ClaimRead
      <4> QED BY Zenon, <2>0, <2>2, <4>1, PhaseEndKeeps DEF ClaimRead, HTypeOK, kv, traces
    <3> QED BY Zenon, <3>1, <3>2
  <2>3. CASE ClaimWritten(w)
    <3>1. claim' \in SomeClaim /\ seq' \in Nat /\ died' = died
      <4>1. claim' = Transformed(w, snap[w]) /\ seq' = seq + 1 /\ died' = died
        BY Zenon, <2>3 DEF ClaimWritten, PutIfEpoch
      <4>2. Transformed(w, snap[w]) \in SomeClaim   BY Zenon, <1>0, ClaimsStayClaims
      <4> QED BY <4>1, <4>2 DEF HTypeOK
    <3>2. CASE PhaseEnds(w)
      BY Zenon, <2>0, <2>3, <3>1, <3>2, PhaseEndKeeps DEF ClaimWritten
    <3>3. CASE ~PhaseEnds(w)
      <4>1. /\ snap' = [snap EXCEPT ![w] = Unread] /\ tries' = [tries EXCEPT ![w] = @ + 1]
            /\ UNCHANGED <<at, target, done, sub, resume>>
        BY Zenon, <2>3, <3>3 DEF ClaimWritten
      <4> QED BY <1>0, <2>0, <3>1, <4>1, OwnStep DEF HTypeOK, Resume, Behind, Subscribed
    <3> QED BY Zenon, <3>2, <3>3
  <2>4. CASE ClaimConflict(w)
    <3>1. CASE at[w] = "hygiene"
      <4>1. PhaseEnds(w)   BY Zenon, <2>4, <3>1 DEF ClaimConflict
      <4> QED BY Zenon, <2>0, <2>4, <4>1, PhaseEndKeeps DEF ClaimConflict, HTypeOK, kv, traces
    <3>2. CASE at[w] # "hygiene"
      <4>1. /\ snap' = [snap EXCEPT ![w] = Unread]
            /\ tries' = [tries EXCEPT ![w] = IF @ < MaxRetries THEN @ + 1 ELSE 0]
            /\ at' = [at EXCEPT ![w] = IF tries[w] < MaxRetries THEN @ ELSE "idle"]
            /\ UNCHANGED <<target, done, sub, resume>>
        BY Zenon, <2>4, <3>2 DEF ClaimConflict
      <4>2. tries' \in [Worker -> Nat] /\ at' \in [Worker -> Phase] /\ at'[w] \in {at[w], "idle"}
        BY <4>1 DEF HTypeOK, Phase
      <4> QED BY ZenonT(30), <1>0, <2>0, <2>4, <4>1, <4>2, OwnStep DEF ClaimConflict, HTypeOK, Resume, kv, traces, Behind, Subscribed
    <3> QED BY Zenon, <3>1, <3>2
  <2>5. CASE GuardHandoffRemoval(w)
    <3>1. at' \in [Worker -> Phase] /\ at'[w] \in {"idle", "update"} /\ \A x \in Worker : x # w => at'[x] = at[x]
      BY Zenon, <2>5 DEF GuardHandoffRemoval, HTypeOK, Phase
    <3>2. snap[w] = Unread   BY ZenonT(40), <2>5 DEF GuardHandoffRemoval, WritesWhatItWalks, ClaimPhase
    <3> QED BY Zenon, <1>0, <2>0, <2>5, <3>1, <3>2, OwnStep DEF GuardHandoffRemoval, HTypeOK, Resume, kv, traces, Behind
  <2>6. CASE UpdateWorkerConsumer(w)
    <3>1. at' \in [Worker -> Phase] /\ \A x \in Worker : x # w => at'[x] = at[x]
      BY Zenon, <2>6 DEF UpdateWorkerConsumer, HTypeOK, Phase
    <3>2. snap[w] = Unread   BY Zenon, <2>6 DEF UpdateWorkerConsumer, WritesWhatItWalks, ClaimPhase
    <3>3. sub' \subseteq Worker /\ (Has(w, target[w]) => w \in sub') /\ \A x \in Worker : x # w => (x \in sub' <=> x \in sub)
      BY Zenon, <2>6 DEF UpdateWorkerConsumer, HTypeOK
    <3> QED BY Zenon, <1>0, <2>0, <2>6, <3>1, <3>2, <3>3, OwnStep DEF UpdateWorkerConsumer, HTypeOK, Resume, kv, traces, Behind
  <2>7. CASE Resumes(w)
    <3>1. claim' \in SomeClaim /\ seq' \in Nat
      BY SMTT(40), <1>0, <2>7, ClaimsStayClaims DEF Resumes, PutIfEpoch, HTypeOK, kv
    <3>2. NoResume \in Resume /\ [at |-> "write", seen |-> claim] \in Resume
      BY ZenonT(30), <1>0 DEF NoResume, Resume, HTypeOK
    <3>3. resume' \in [Worker -> Resume]
      BY <2>7, <3>2 DEF Resumes, HTypeOK, Resume
    <3>4. UNCHANGED <<applies, died>>   BY Zenon, <2>7 DEF Resumes, traces
    <3> QED BY ZenonT(30), <1>0, <2>0, <3>1, <3>3, <3>4, OwnStep DEF HTypeOK, applies, Behind, Subscribed, WritesWhatItWalks, Walks,
              transitionVersionAdjacent, Has, commits
  <2>8. CASE HandoffFails(w)
    BY ZenonT(30), <1>0, <2>0, <2>8, OwnStep DEF HandoffFails, HTypeOK, Phase, Resume, kv, traces, Behind
  <2>9. CASE Crashes(w)
    <3>1. NoResume \in Resume   BY Zenon, <1>0 DEF NoResume, Resume
    <3>2. resume' \in [Worker -> Resume] /\ UNCHANGED <<claim, seq>>   BY Zenon, <2>9, <3>1 DEF Crashes, HTypeOK, Resume, kv
    <3>3. /\ at' = [at EXCEPT ![w] = "hygiene"] /\ target' = [target EXCEPT ![w] = ver]
          /\ done' = [done EXCEPT ![w] = 0] /\ snap' = [snap EXCEPT ![w] = Unread]
          /\ tries' = [tries EXCEPT ![w] = 0] /\ sub' = sub \ {w} /\ died' = died \cup {w}
      BY Zenon, <2>9 DEF Crashes
    <3>4. /\ at' \in [Worker -> Phase] /\ target' \in [Worker -> Nat] /\ done' \in [Worker -> Nat]
          /\ snap' \in [Worker -> SomeClaim] /\ tries' \in [Worker -> Nat]
          /\ sub' \subseteq Worker /\ died' \subseteq Worker
          /\ at'[w] = "hygiene" /\ target'[w] = ver /\ done'[w] = 0 /\ snap'[w] = Unread
          /\ \A x \in Worker : x # w => /\ at'[x] = at[x] /\ target'[x] = target[x] /\ done'[x] = done[x]
                                        /\ snap'[x] = snap[x] /\ (x \in sub' <=> x \in sub)
      BY Zenon, <1>0, <3>3 DEF HTypeOK, Phase
    <3>5. claim' \in SomeClaim /\ seq' \in Nat   BY Zenon, <3>2 DEF HTypeOK
    <3>6. /\ done'[w] <= target'[w] /\ target'[w] <= ver /\ snap'[w] = Unread
          /\ at'[w] \notin {"commit", "stabilize"}
      BY <1>0, <3>4 DEF HTypeOK
    <3> QED BY Zenon, <1>0, <2>0, <2>9, <3>2, <3>4, <3>5, <3>6, OwnStep DEF Crashes
  <2> QED BY Zenon, <1>4, <2>1, <2>2, <2>3, <2>4, <2>5, <2>6, <2>7, <2>8, <2>9 DEF Apply
<1>5. CASE UNCHANGED handoffVars
  BY Zenon, <1>5 DEF handoffVars, kv, commits, applies, traces, HTypeOK, Behind, WritesWhatItWalks, Subscribed, Walks,
              transitionVersionAdjacent, Has
<1> QED BY Zenon, <1>1, <1>2, <1>3, <1>4, <1>5 DEF HandoffNext

-----------------------------------------------------------------------------
(* The claim *)

\* A mishap stays one.
LEMMA StillUndisturbed ==
    ASSUME [HandoffNext]_handoffVars, Undisturbed'
    PROVE  Undisturbed
<1>1. mishaps \subseteq mishaps' /\ (released => released')
  <2>1. CASE Publish \/ SourceChanges \/ Expires \/ SweepReads \/ SweepWrites \/ SweepReaps
    BY <2>1 DEF Publish, SourceChanges, Expires, SweepReads, SweepWrites, SweepReaps, traces
  <2>2. ASSUME NEW w \in Worker, Apply(w) \/ HandoffFails(w) \/ Crashes(w)
        PROVE  mishaps \subseteq mishaps' /\ (released => released')
    <3>1. CASE ClaimWritten(w)   BY Zenon, <3>1 DEF ClaimWritten
    <3>2. CASE UpdateWorkerConsumer(w)
      <4>1. released' = (released \/ (w \in sub /\ ~Has(w, target[w]) /\ claim.owner = w)) /\ mishaps' = mishaps
        BY Zenon, <3>2 DEF UpdateWorkerConsumer
      <4> QED BY Zenon, <4>1, Zenon
    <3>3. CASE ~(ClaimWritten(w) \/ UpdateWorkerConsumer(w))
      BY <2>2, <3>3 DEF Apply, ApplyStarts, ClaimRead, ClaimConflict, GuardHandoffRemoval,
                        Resumes, HandoffFails, Crashes, traces
    <3> QED BY Zenon, <3>1, <3>2, <3>3
  <2> QED BY <2>1, <2>2 DEF HandoffNext, handoffVars, traces
<1> QED BY Zenon, <1>1 DEF Undisturbed

\* The claim stays, or a commit becomes stable.
Settles == claim' = claim \/ (claim.state = "commit" /\ claim' = NextStable(claim))

\* Then its owner and pending owner are the same.
LEMMA SettlesKeeps ==
    ASSUME HTypeOK, Settles
    PROVE  /\ claim'.owner = claim.owner /\ (claim # NoClaim => claim' # NoClaim)
           /\ \A x \in Worker : (Owns(x)' <=> Owns(x)) /\ (Claims(x) => Claims(x)')
           /\ \A c \in SomeClaim : Read(c) => c = claim' \/ c.epoch < claim'.epoch
<1>1. claim \in SomeClaim   BY Zenon DEF HTypeOK
<1>2. CASE claim' = claim   BY Zenon, <1>2 DEF Owns, Claims, Read
<1>3. CASE claim.state = "commit" /\ claim' = NextStable(claim)
  <2>1. /\ claim'.owner = claim.owner /\ claim'.pending = claim.pending
        /\ claim'.state = "stable" /\ claim'.epoch = claim.epoch + 1
    BY Zenon, <1>1, <1>3, ClaimFields
  <2>2. claim' # NoClaim   BY <2>1 DEF NoClaim
  <2>3. \A c \in SomeClaim : Read(c) => c.epoch < claim'.epoch
    BY SMTT(40), <1>1, <2>1 DEF Read, SomeClaim
  <2> QED BY Zenon, <1>3, <2>1, <2>2, <2>3 DEF Owns, Claims
<1> QED BY Zenon, <1>2, <1>3 DEF Settles

\* ClaimWritten leaves the claim undisturbed only when the worker is the live
\* commit's and writes over the very claim it read: prepare makes it pending or
\* finds it the owner, commit makes it the owner, and stabilize leaves it so.
LEMMA LiveWrite ==
    ASSUME HInv, Undisturbed, NEW w \in Worker, ClaimWritten(w), Undisturbed'
    PROVE  /\ target[w] = ver /\ Has(w, ver) /\ at[w] \in {"prepare", "commit", "stabilize"}
           /\ claim' = claim \/ claim'.epoch > claim.epoch
           /\ Claims(w)' /\ (Owns(w) => Owns(w)')
           /\ at[w] # "prepare" => Owns(w)'
           /\ claim'.owner = claim.owner \/ claim = NoClaim \/ (claim'.owner = w /\ w \in sub)
           /\ claim'.owner \in {claim.owner, w} /\ claim' # NoClaim
<1>1. /\ at[w] \in ClaimPhase /\ snap[w] # Unread /\ claim.epoch = snap[w].epoch
      /\ claim' = Transformed(w, snap[w])
      /\ mishaps' = mishaps \cup ResetOf(snap[w], Transformed(w, snap[w]))
                            \cup (IF at[w] # "hygiene" /\ target[w] # ver THEN {"stale"} ELSE {})
  BY Zenon DEF ClaimWritten, PutIfEpoch, SameEpoch
<1>2. claim \in SomeClaim /\ snap[w] \in SomeClaim /\ ver \in Nat /\ NoOne \notin Worker /\ target[w] \in Nat
  BY DEF HInv, HTypeOK
<1>3. snap[w] = claim
  BY <1>1, <1>2 DEF HInv, Claimed, Pending, Read, SomeClaim
<1>4. at[w] # "hygiene"
  <2>1. SUFFICES ASSUME at[w] = "hygiene" PROVE FALSE   OBVIOUS
  <2>2. Transformed(w, snap[w]) = Reset(snap[w])   BY Zenon, <2>1 DEF Transformed
  <2>3. ResetOf(snap[w], Transformed(w, snap[w])) = {"reset"}
    BY <1>2, <2>2, ClaimFields DEF ResetOf
  <2> QED BY Zenon, <1>1, <2>3 DEF Undisturbed
<1>5. target[w] = ver   BY Zenon, <1>1, <1>4 DEF Undisturbed
<1>6. Has(w, ver) /\ Has(w, target[w])
  BY Zenon, <1>1, <1>4, <1>5 DEF HInv, WritesWhatItWalks, Walks
<1>7. Stays(w, target[w])   BY <1>2, <1>5, <1>6, StaysLive DEF HInv
<1>8. CASE at[w] = "prepare"
  <2>1. claim' = Prepared(w, claim)   BY Zenon, <1>1, <1>3, <1>8 DEF Transformed
  <2>2. CASE claim = NoClaim
    <3>1. claim' = NewInitialClaim(w) /\ claim.epoch = 0   BY Zenon, <1>2, <2>1, <2>2 DEF Prepared, NoClaim
    <3> QED BY <1>2, <1>5, <1>6, <1>8, <2>2, <3>1 DEF NewInitialClaim, Owns, Claims, NoClaim
  <2>3. CASE claim # NoClaim /\ claim.owner # w
    <3>1. claim' = NextPrepare(claim, w)   BY Zenon, <2>1, <2>3 DEF Prepared
    <3>2. /\ claim'.owner = claim.owner /\ claim'.pending = w /\ claim'.state = "prepare"
          /\ claim'.epoch = claim.epoch + 1
      BY <1>2, <3>1, ClaimFields
    <3> QED BY <1>2, <1>5, <1>6, <1>8, <2>3, <3>2 DEF Owns, Claims, NoClaim, SomeClaim
  <2>4. CASE claim # NoClaim /\ claim.owner = w
    <3>1. CASE claim.state # "stable" \/ claim.pending # NoOne
      <4>1. claim' = [Reset(claim) EXCEPT !.epoch = @ + 1]   BY Zenon, <2>1, <2>4, <3>1 DEF Prepared
      <4>2. Reset(claim) \in SomeClaim   BY Zenon, <1>2 DEF Reset, SomeClaim, Someone
      <4>3. claim'.owner = w /\ claim'.pending = NoOne /\ claim'.state = "stable" /\ claim'.epoch = claim.epoch + 1
        BY <1>2, <2>4, <4>1, <4>2, ClaimFields DEF SomeClaim
      <4> QED BY <1>2, <1>5, <1>6, <1>8, <2>4, <4>3 DEF Owns, Claims, NoClaim, SomeClaim
    <3>2. CASE ~(claim.state # "stable" \/ claim.pending # NoOne)
      <4>1. claim' = claim   BY Zenon, <2>1, <2>4, <3>2 DEF Prepared
      <4> QED BY Zenon, <1>2, <1>5, <1>6, <1>8, <2>4, <3>2, <4>1 DEF Owns, Claims
    <3> QED BY Zenon, <3>1, <3>2
  <2> QED BY Zenon, <2>2, <2>3, <2>4
<1>9. CASE at[w] = "commit"
  <2>1. claim' = Committed(w, claim) /\ Claims(w) /\ w \in sub
    BY Zenon, <1>1, <1>3, <1>6, <1>7, <1>9 DEF Transformed, HInv, Claimed, Good, KeptClaim, Subscribed
  <2>2. CASE Owns(w)
    <3>1. claim' = claim   BY Zenon, <1>2, <2>1, <2>2 DEF Owns, Committed
    <3>2. claim # NoClaim   BY <1>2, <2>2 DEF Owns, NoClaim
    <3> QED BY Zenon, <1>5, <1>6, <1>9, <2>2, <3>1, <3>2 DEF Owns, Claims
  <2>3. CASE claim # NoClaim /\ claim.pending = w /\ claim.state = "prepare"
    <3>1. claim' = NextCommit(claim)   BY Zenon, <2>1, <2>3 DEF Committed
    <3>2. claim'.owner = w /\ claim'.pending = NoOne /\ claim'.epoch = claim.epoch + 1
      BY Zenon, <1>2, <2>3, <3>1, ClaimFields
    <3> QED BY <1>2, <1>5, <1>6, <1>9, <2>1, <3>2 DEF Owns, Claims, NoClaim, SomeClaim
  <2> QED BY Zenon, <2>1, <2>2, <2>3 DEF Claims
<1>10. CASE at[w] = "stabilize"
  <2>1. claim' = Stabilized(w, claim) /\ Owns(w)
    BY Zenon, <1>1, <1>3, <1>7, <1>10 DEF Transformed, HInv, Claimed, Good, KeptClaim
  <2>2. Settles /\ claim # NoClaim
    BY <1>2, <2>1 DEF Stabilized, Settles, Owns, NoClaim
  <2>3. Owns(w)' /\ claim'.owner = claim.owner /\ claim' # NoClaim
    BY Zenon, <2>1, <2>2, SettlesKeeps DEF HInv
  <2>4. claim' = claim \/ claim'.epoch > claim.epoch
    BY <1>2, <2>2, ClaimFields DEF Settles, SomeClaim
  <2> QED BY Zenon, <1>5, <1>6, <1>10, <2>1, <2>3, <2>4 DEF Claims
<1> QED BY ZenonT(40), <1>1, <1>4, <1>8, <1>9, <1>10 DEF ClaimPhase

\* A worker whose own Apply stands still stays good as long as the owner does.
LEMMA GoodKept ==
    ASSUME NEW w \in Worker, Good(w), plan' = plan, ver' = ver,
           at'[w] = at[w], target'[w] = target[w], done'[w] = done[w],
           claim'.owner = claim.owner, claim # NoClaim => claim' # NoClaim,
           Owns(w) => Owns(w)', Claims(w) => Claims(w)',
           claim.owner \in sub \cup died => claim.owner \in sub' \cup died'
    PROVE  Good(w)'
<1>1. /\ Stays(w, target[w])' <=> Stays(w, target[w])
      /\ Stays(w, done[w])' <=> Stays(w, done[w])
      /\ Has(w, target[w])' <=> Has(w, target[w])
      /\ Has(w, done[w])' <=> Has(w, done[w])
  BY Zenon DEF Stays, Has
<1>2. KeptClaim(w)'   BY Zenon, <1>1 DEF Good, KeptClaim
<1>3. OwnerHasIt(w)'   BY Zenon, <1>1 DEF Good, OwnerHasIt
<1>4. Prepares(w)'   BY Zenon, <1>1 DEF Good, Prepares
<1>5. GuardPassed(w)'   BY Zenon, <1>1 DEF Good, GuardPassed
<1> QED BY Zenon, <1>2, <1>3, <1>4, <1>5 DEF Good

\* A step that settles the claim and leaves the Applies alone.
LEMMA SettledStep ==
    ASSUME HTypeOK, Claimed, Settles, UNCHANGED <<plan, ver, applies, died>>, Pending'
    PROVE  Claimed'
<1>1. ASSUME NEW x \in Worker PROVE Good(x)'
  <2>1. Good(x)   BY Zenon DEF Claimed
  <2>2. plan' = plan /\ ver' = ver /\ at' = at /\ target' = target /\ done' = done /\ sub' = sub /\ died' = died
    BY Zenon DEF applies
  <2>3. /\ claim'.owner = claim.owner /\ (claim # NoClaim => claim' # NoClaim)
        /\ (Owns(x) => Owns(x)') /\ (Claims(x) => Claims(x)')
    BY Zenon, SettlesKeeps
  <2> QED BY Zenon, <2>1, <2>2, <2>3, GoodKept
<1> QED BY Zenon, <1>1 DEF Claimed

\* A step of a worker's Apply that leaves the claim alone: it is enough to look
\* at that worker, and at the owner's subject.
LEMMA QuietStep ==
    ASSUME Claimed, NEW w \in Worker, plan' = plan, ver' = ver, claim' = claim,
           \A x \in Worker : x # w => at'[x] = at[x] /\ target'[x] = target[x] /\ done'[x] = done[x],
           claim.owner \in sub \cup died => claim.owner \in sub' \cup died',
           Good(w)', Pending'
    PROVE  Claimed'
<1>1. ASSUME NEW x \in Worker, x # w PROVE Good(x)'
  <2>1. (Owns(x) => Owns(x)') /\ (Claims(x) => Claims(x)')   BY Zenon DEF Owns, Claims
  <2>2. Good(x)   BY Zenon DEF Claimed
  <2> QED BY Zenon, <1>1, <2>1, <2>2, GoodKept
<1> QED BY Zenon, <1>1 DEF Claimed

\* An Apply that has not begun its phases, or is over, depends on the committed
\* assignment alone.
LEMMA Resting ==
    ASSUME NEW w \in Worker, Good(w), plan' = plan, ver' = ver, claim' = claim,
           at'[w] \in {"idle", "hygiene", "prepare"},
           done'[w] = done[w] \/ done'[w] = 0 \/ (done'[w] = target[w] /\ at[w] = "stabilize"),
           claim.owner \in sub \cup died => claim.owner \in sub' \cup died'
    PROVE  Good(w)'
<1>1. /\ Stays(w, done'[w]) => Owns(w)
      /\ Has(w, done'[w]) => claim.owner \in sub \cup died
  <2>1. CASE done'[w] = done[w]   BY Zenon, <2>1 DEF Good, KeptClaim, OwnerHasIt
  <2>2. CASE done'[w] = 0   BY <2>2 DEF Stays, Has
  <2>3. CASE done'[w] = target[w] /\ at[w] = "stabilize"   BY Zenon, <2>3 DEF Good, KeptClaim, OwnerHasIt
  <2> QED BY Zenon, <2>1, <2>2, <2>3
<1>2. /\ Stays(w, done[w])' <=> Stays(w, done'[w])
      /\ Has(w, done[w])' <=> Has(w, done'[w])
  BY Zenon DEF Stays, Has
<1>3. at'[w] \notin {"guard", "update", "commit", "stabilize"}   OBVIOUS
<1>4. KeptClaim(w)'   BY Zenon, <1>1, <1>2, <1>3 DEF KeptClaim, Owns
<1>5. OwnerHasIt(w)'   BY Zenon, <1>1, <1>2, <1>3 DEF OwnerHasIt
<1>6. Prepares(w)' /\ GuardPassed(w)'   BY Zenon, <1>3 DEF Prepares, GuardPassed
<1> QED BY Zenon, <1>4, <1>5, <1>6 DEF Good

\* What was read before is the claim or behind it, after a read and after a write.
LEMMA PendingKept ==
    ASSUME HTypeOK, Pending, sweep' = sweep \/ sweep'.at # "write",
           \A c \in SomeClaim : Read(c) => c = claim' \/ c.epoch < claim'.epoch,
           \A x \in Worker : snap'[x] \in {snap[x], Unread, claim'},
           \A x \in Worker : resume'[x].at = "write" =>
                                \/ resume[x].at = "write" /\ resume'[x].seen = resume[x].seen
                                \/ resume'[x].seen = claim' /\ claim'.state = "commit"
    PROVE  Pending'
<1>1. \A x \in Worker : snap'[x] # Unread => snap'[x] = claim' \/ snap'[x].epoch < claim'.epoch
  BY Zenon DEF Pending, HTypeOK
<1>2. \A x \in Worker : resume'[x].at = "write" =>
        /\ resume'[x].seen = claim' \/ resume'[x].seen.epoch < claim'.epoch
        /\ resume'[x].seen.state = "commit"
  <2>1. \A x \in Worker : resume[x].seen \in SomeClaim   BY Zenon DEF HTypeOK
  <2> QED BY Zenon, <2>1 DEF Pending
<1>3. sweep'.at = "write" =>
         /\ sweep'.seen = claim' \/ sweep'.seen.epoch < claim'.epoch
         /\ \/ sweep'.seen.state = "commit" /\ sweep'.new = NextStable(sweep'.seen)
            \/ sweep'.new.state = "stable" /\ sweep'.new.epoch = sweep'.seen.epoch
  <2>1. sweep.seen \in SomeClaim   BY Zenon DEF HTypeOK, PassOf
  <2> QED BY Zenon, <2>1 DEF Pending
<1> QED BY Zenon, <1>1, <1>2, <1>3 DEF Pending, Read, NextStable

\* In particular when the claim stays.
LEMMA PendingQuiet ==
    ASSUME HTypeOK, Claimed, sweep' = sweep, claim' = claim,
           \A x \in Worker : snap'[x] \in {snap[x], Unread, claim},
           \A x \in Worker : resume'[x].at = "write" =>
                                \/ resume[x].at = "write" /\ resume'[x].seen = resume[x].seen
                                \/ resume'[x].seen = claim /\ claim.state = "commit"
    PROVE  Pending'
<1>1. \A c \in SomeClaim : Read(c) => c = claim' \/ c.epoch < claim'.epoch   BY Zenon DEF Read
<1>2. Pending   BY Zenon DEF Claimed
<1> QED BY Zenon, <1>1, <1>2, PendingKept

\* A prepare phase that has nothing to write finds the claim its worker's, and
\* one that does not walk the partition follows an Apply that committed it.
LEMMA PreparedAlready ==
    ASSUME HTypeOK, NEW w \in Worker, Good(w), at[w] = "prepare", done[w] <= target[w], target[w] <= ver,
           ~(Walks(w) /\ Writes(w, claim)), Has(w, target[w])
    PROVE  claim # NoClaim /\ (Stays(w, target[w]) => Owns(w))
<1>1. /\ claim \in SomeClaim /\ NoOne \notin Worker /\ ver \in Nat /\ target[w] \in Nat /\ done[w] \in Nat
      /\ sub \cup died \subseteq Worker
  BY DEF HTypeOK
<1>2. CASE Walks(w)
  <2>1. Prepared(w, claim) = claim   BY Zenon, <1>2 DEF Writes, Transformed
  <2>2. claim # NoClaim
    <3>1. NewInitialClaim(w) # NoClaim   BY Zenon, <1>1 DEF NewInitialClaim, NoClaim
    <3> QED BY <1>1, <2>1, <3>1 DEF Prepared, NoClaim
  <2>3. claim.owner = w
    <3>1. NextPrepare(claim, w) # claim
      <4>1. NextPrepare(claim, w).epoch = claim.epoch + 1 /\ claim.epoch \in Nat   BY ZenonT(30), <1>1, ClaimFields DEF SomeClaim
      <4> QED BY SMTT(40), <4>1
    <3> QED BY ZenonT(30), <2>1, <2>2, <3>1 DEF Prepared
  <2>4. claim.pending = NoOne
    <3> DEFINE d == [Reset(claim) EXCEPT !.epoch = @ + 1]
    <3>1. Reset(claim) \in SomeClaim /\ Reset(claim).epoch = claim.epoch /\ claim.epoch \in Nat
      BY ZenonT(40), <1>1, ClaimFields DEF Reset, SomeClaim, Someone
    <3>2. d.epoch = claim.epoch + 1   BY Zenon, <3>1 DEF SomeClaim
    <3>3. claim.pending # NoOne => claim = d   BY ZenonT(30), <2>1, <2>2, <2>3 DEF Prepared
    <3> HIDE DEF d
    <3> QED BY SMTT(40), <3>1, <3>2, <3>3
  <2> QED BY Zenon, <2>2, <2>3, <2>4 DEF Owns
<1>3. CASE ~Walks(w)
  <2>1. done[w] + 1 = target[w] /\ Has(w, done[w])   BY Zenon, <1>3 DEF Walks, transitionVersionAdjacent
  <2>2. claim.owner \in Worker   BY Zenon, <1>1, <2>1 DEF Good, OwnerHasIt
  <2>3. Stays(w, target[w]) => Stays(w, done[w])
    <3>1. \A u \in done[w]..ver : u = done[w] \/ u \in target[w]..ver   BY <1>1, <2>1
    <3> QED BY Zenon, <2>1, <3>1 DEF Stays, Has
  <2> QED BY <1>1, <2>2, <2>3 DEF Good, KeptClaim, NoClaim
<1> QED BY Zenon, <1>2, <1>3

\* A commit phase that has nothing to write finds its worker the owner.
LEMMA CommittedAlready ==
    ASSUME HTypeOK, Subscribed, NEW w \in Worker, Good(w), at[w] = "commit",
           ~(Walks(w) /\ Writes(w, claim)), Has(w, target[w])
    PROVE  claim.owner = w /\ w \in sub /\ (Stays(w, target[w]) => Owns(w))
<1>1. claim \in SomeClaim /\ NoOne \notin Worker /\ claim # NoClaim /\ w \in sub
  BY Zenon DEF HTypeOK, Good, Prepares, Subscribed
<1>2. Committed(w, claim) = claim /\ ~(claim.state = "commit" /\ claim.owner # w)
  BY Zenon DEF Walks, Writes, Transformed
<1>3. NextCommit(claim) # claim
  <2>1. NextCommit(claim).epoch = claim.epoch + 1 /\ claim.epoch \in Nat   BY Zenon, <1>1, ClaimFields DEF SomeClaim
  <2> QED BY SMTT(40), <2>1
<1>4. \/ claim.owner = w /\ claim.state = "stable"
      \/ claim.pending # w /\ claim.owner = w
      \/ claim.state = "commit"
  BY Zenon, <1>1, <1>2, <1>3 DEF Committed
<1>5. claim.owner = w   BY Zenon, <1>2, <1>4
<1>6. Stays(w, target[w]) => Claims(w)   BY Zenon DEF Good, KeptClaim
<1>7. claim.state = "prepare" => claim.pending # w   BY Zenon, <1>1, <1>2, <1>3 DEF Committed
<1> QED BY Zenon, <1>1, <1>5, <1>6, <1>7 DEF Claims

-----------------------------------------------------------------------------
(* The claim, step by step *)

\* Publish: a new commit only makes fewer workers the ones every commit names.
LEMMA PublishKeeps ==
    ASSUME HTypeOK, Behind, Claimed, Publish
    PROVE  Claimed'
<1>1. ver \in Nat /\ \A x \in Worker : target[x] \in Nat /\ done[x] \in Nat /\ done[x] <= ver /\ target[x] <= ver
  BY DEF HTypeOK, Behind
<1>2. ver' = ver + 1 /\ \A v \in Nat : v <= ver => plan'[v] = plan[v]
  BY <1>1 DEF Publish, HTypeOK, Version
<1>3. claim' = claim /\ at' = at /\ target' = target /\ done' = done /\ snap' = snap /\ sub' = sub
  BY Zenon DEF Publish, kv, applies
<1>4. sweep' = sweep /\ resume' = resume /\ died' = died   BY Zenon DEF Publish, traces
<1>5. Pending'   BY Zenon, <1>3, <1>4, PendingQuiet
<1>6. ASSUME NEW x, NEW v \in Nat, v <= ver
      PROVE  /\ (v > 0 /\ \A u \in v..ver' : plan'[u] = x) => Stays(x, v)
             /\ (v > 0 /\ plan'[v] = x) <=> Has(x, v)
  <2>1. v..ver \subseteq v..ver' /\ \A u \in v..ver : plan'[u] = plan[u]   BY <1>1, <1>2, <1>6
  <2> QED BY Zenon, <1>2, <1>6, <2>1 DEF Stays, Has
<1>7. ASSUME NEW x \in Worker PROVE Good(x)'
  <2>1. Good(x)   BY Zenon DEF Claimed
  <2>2. /\ Stays(x, target[x])' => Stays(x, target[x])
        /\ Has(x, target[x])' <=> Has(x, target[x])
    <3>1. target[x] \in Nat /\ target[x] <= ver   BY Zenon, <1>1
    <3> QED BY Zenon, <1>3, <1>6, <3>1 DEF Stays, Has
  <2>3. /\ Stays(x, done[x])' => Stays(x, done[x])
        /\ Has(x, done[x])' <=> Has(x, done[x])
    <3>1. done[x] \in Nat /\ done[x] <= ver   BY Zenon, <1>1
    <3> QED BY Zenon, <1>3, <1>6, <3>1 DEF Stays, Has
  <2>4. KeptClaim(x)'   BY Zenon, <1>3, <2>1, <2>2, <2>3 DEF Good, KeptClaim, Owns, Claims
  <2>5. OwnerHasIt(x)'   BY Zenon, <1>3, <1>4, <2>1, <2>2, <2>3 DEF Good, OwnerHasIt
  <2>6. Prepares(x)'   BY Zenon, <1>3, <2>1, <2>2 DEF Good, Prepares
  <2>7. target'[x] # ver'   BY <1>1, <1>2, <1>3
  <2>8. GuardPassed(x)'   BY Zenon, <2>7 DEF GuardPassed
  <2> QED BY Zenon, <2>4, <2>5, <2>6, <2>8 DEF Good
<1> QED BY Zenon, <1>5, <1>7 DEF Claimed

\* SweepReads: what a pass goes on to write over the claim it read.
LEMMA SweepReadsKeeps ==
    ASSUME HTypeOK, Claimed, SweepReads
    PROVE  Claimed'
<1>1. Settles /\ UNCHANGED <<plan, ver, applies, died, claim, resume>>
  BY Zenon DEF SweepReads, Settles, kv, commits, traces
<1>2. snap' = snap /\ resume' = resume /\ claim' = claim   BY Zenon, <1>1 DEF applies
<1>3. ASSUME sweep'.at = "write"
      PROVE  /\ sweep'.seen = claim
             /\ \/ claim.state = "commit" /\ sweep'.new = NextStable(claim)
                \/ sweep'.new.state = "stable" /\ sweep'.new.epoch = claim.epoch
  <2>1. Reconciled(claim) # claim /\ sweep'.seen = claim /\ sweep'.new = Reconciled(claim)
    BY <1>3 DEF SweepReads
  <2>2. \/ claim.state = "commit" /\ Reconciled(claim) = NextStable(claim)
        \/ Reconciled(claim) = Reset(claim)
    BY Zenon, <2>1 DEF Reconciled
  <2>3. Reset(claim).state = "stable" /\ Reset(claim).epoch = claim.epoch
    <3>1. claim \in SomeClaim   BY Zenon DEF HTypeOK
    <3> QED BY Zenon, <3>1, ClaimFields
  <2> QED BY Zenon, <2>1, <2>2, <2>3
<1>4. /\ \A w \in Worker : snap'[w] # Unread => Read(snap[w])'
      /\ \A w \in Worker : resume'[w].at = "write" => Read(resume[w].seen)' /\ resume'[w].seen.state = "commit"
  BY Zenon, <1>2 DEF Claimed, Pending, Read
<1>5. sweep'.at = "write" =>
        /\ Read(sweep.seen)'
        /\ \/ sweep'.seen.state = "commit" /\ sweep'.new = NextStable(sweep.seen)'
           \/ sweep'.new.state = "stable" /\ sweep'.new.epoch = sweep'.seen.epoch
  <2>1. SUFFICES ASSUME sweep'.at = "write"
                 PROVE  /\ sweep'.seen = claim'
                        /\ \/ sweep'.seen.state = "commit" /\ sweep'.new = NextStable(sweep.seen)'
                           \/ sweep'.new.state = "stable" /\ sweep'.new.epoch = sweep'.seen.epoch
    BY Zenon DEF Read
  <2>2. NextStable(sweep.seen)' = NextStable(sweep'.seen)   BY Zenon DEF NextStable
  <2> QED BY Zenon, <1>2, <1>3, <2>1, <2>2
<1>6. Pending'   BY Zenon, <1>4, <1>5 DEF Pending
<1> QED BY Zenon, <1>1, <1>6, SettledStep

\* SweepWrites and SweepReaps: without a mishap they settle the claim.
LEMMA SweepWritesKeeps ==
    ASSUME HTypeOK, Claimed, Undisturbed', SweepWrites \/ SweepReaps
    PROVE  Claimed'
<1>1. UNCHANGED <<plan, ver, applies, died, resume>> /\ sweep' = NoPass
  BY Zenon DEF SweepWrites, SweepReaps, commits
<1>2. SweepReaps => Settles   BY Zenon DEF SweepReaps, Undisturbed, Settles, kv
<1>3. ASSUME PutIfEpoch(sweep.seen, sweep.new), mishaps' = mishaps \cup ResetOf(sweep.seen, sweep.new), sweep.at = "write"
      PROVE  Settles
  <2>1. claim' = sweep.new /\ claim.epoch = sweep.seen.epoch
    BY Zenon, <1>3 DEF PutIfEpoch, SameEpoch
  <2>2. ~(sweep.new.state = "stable" /\ sweep.new.epoch = sweep.seen.epoch)
    BY Zenon, <1>3 DEF ResetOf, Undisturbed
  <2>3. sweep.seen.epoch \in Nat   BY Zenon DEF HTypeOK, PassOf, SomeClaim
  <2>4. Read(sweep.seen) /\ sweep.seen.state = "commit" /\ sweep.new = NextStable(sweep.seen)
    BY Zenon, <1>3, <2>2 DEF Claimed, Pending
  <2>5. sweep.seen = claim   BY <2>1, <2>3, <2>4 DEF Read
  <2> QED BY Zenon, <2>1, <2>4, <2>5 DEF Settles
<1>4. SweepWrites => Settles   BY Zenon, <1>3 DEF SweepWrites, Settles, kv
<1>5. Settles   BY Zenon, <1>2, <1>4
<1>6. /\ \A c \in SomeClaim : Read(c) => c = claim' \/ c.epoch < claim'.epoch
      /\ snap' = snap /\ resume' = resume /\ Pending
  BY Zenon, <1>1, <1>5, SettlesKeeps DEF applies, Claimed
<1>7. sweep'.at # "write"   BY Zenon, <1>1 DEF NoPass
<1>8. Pending'   BY Zenon, <1>6, <1>7, PendingKept
<1> QED BY Zenon, <1>1, <1>5, <1>8, SettledStep

\* Resumes: its read finds a commit of its own, its write settles it.
LEMMA ResumesKeeps ==
    ASSUME HTypeOK, Claimed, NEW w \in Worker, Resumes(w)
    PROVE  Claimed'
<1>1. UNCHANGED <<plan, ver, applies, died, sweep>>   BY Zenon DEF Resumes, commits, traces
<1>2. snap' = snap /\ sweep' = sweep   BY Zenon, <1>1 DEF applies
<1>3. \A x \in Worker : x # w => resume'[x] = resume[x]
  BY Zenon DEF Resumes, HTypeOK
<1>4. CASE resume[w].at = "run" /\ UNCHANGED kv
  <2>1. claim' = claim /\ Settles   BY Zenon, <1>4 DEF Settles, kv
  <2>2. resume'[w] \in {[at |-> "write", seen |-> claim], NoResume} /\ (claim.state # "commit" => resume'[w] = NoResume)
    BY Zenon, <1>4 DEF Resumes, HTypeOK
  <2>3. resume'[w].at = "write" => resume'[w].seen = claim /\ claim.state = "commit"
    BY <2>2 DEF NoResume
  <2>4. Pending'   BY Zenon, <1>2, <1>3, <2>1, <2>3, PendingQuiet
  <2> QED BY Zenon, <1>1, <2>1, <2>4, SettledStep
<1>5. CASE resume[w].at = "write"
  <2>1. resume[w].seen.epoch \in Nat   BY Zenon DEF HTypeOK, SomeClaim
  <2>2. Read(resume[w].seen) /\ resume[w].seen.state = "commit"   BY Zenon, <1>5 DEF Claimed, Pending
  <2>3. /\ \/ claim.epoch = resume[w].seen.epoch /\ claim' = NextStable(resume[w].seen)
           \/ claim' = claim
        /\ resume'[w] = NoResume
    BY Zenon, <1>5 DEF Resumes, PutIfEpoch, SameEpoch, kv, HTypeOK
  <2>4. claim.epoch = resume[w].seen.epoch => resume[w].seen = claim   BY <2>1, <2>2 DEF Read
  <2>5. Settles   BY Zenon, <2>2, <2>3, <2>4 DEF Settles
  <2>6. resume'[w].at # "write"   BY <2>3 DEF NoResume
  <2>7. /\ \A c \in SomeClaim : Read(c) => c = claim' \/ c.epoch < claim'.epoch
        /\ Pending
    BY Zenon, <2>5, SettlesKeeps DEF Claimed
  <2>8. Pending'   BY Zenon, <1>2, <1>3, <2>6, <2>7, PendingKept
  <2> QED BY Zenon, <1>1, <2>5, <2>8, SettledStep
<1> QED BY Zenon, <1>4, <1>5 DEF Resumes

\* ClaimWritten: the worker is the live commit's, and every other one has been
\* left by it.
LEMMA ClaimWrittenKeeps ==
    ASSUME HInv, Undisturbed, Claimed, Undisturbed', claim' \in SomeClaim, NEW w \in Worker, ClaimWritten(w)
    PROVE  Claimed'
<1>0. /\ HTypeOK /\ claim \in SomeClaim /\ ver \in Nat /\ NoOne \notin Worker /\ sub \cup died \subseteq Worker
      /\ \A x \in Worker : target[x] \in Nat /\ done[x] \in Nat /\ done[x] <= ver /\ target[x] <= ver
  BY DEF HInv, HTypeOK, Behind
<1>1. /\ target[w] = ver /\ Has(w, ver) /\ at[w] \in {"prepare", "commit", "stabilize"}
      /\ claim' = claim \/ claim'.epoch > claim.epoch
      /\ Claims(w)' /\ (Owns(w) => Owns(w)') /\ (at[w] # "prepare" => Owns(w)')
      /\ claim'.owner = claim.owner \/ claim = NoClaim \/ (claim'.owner = w /\ w \in sub)
      /\ claim'.owner \in {claim.owner, w} /\ claim' # NoClaim
  BY Zenon, LiveWrite
<1>2. plan' = plan /\ ver' = ver /\ sweep' = sweep /\ died' = died   BY Zenon DEF ClaimWritten, commits
<1>3. /\ \A x \in Worker : x # w => at'[x] = at[x] /\ snap'[x] = snap[x] /\ done'[x] = done[x]
      /\ target' = target /\ sub' = sub /\ snap'[w] = Unread
      /\ \/ at'[w] = at[w] /\ done'[w] = done[w]
         \/ at[w] = "prepare" /\ at'[w] = "guard" /\ done'[w] = done[w]
         \/ at[w] = "commit" /\ at'[w] = "stabilize" /\ done'[w] = done[w]
         \/ at[w] = "stabilize" /\ at'[w] = "idle" /\ done'[w] = target[w]
      /\ \A x \in Worker : resume'[x].at = "write" => resume[x].at = "write" /\ resume'[x].seen = resume[x].seen
  <2>1. CASE PhaseEnds(w)   BY ZenonT(30), <1>0, <1>1, <2>1, PhaseEnding
  <2>2. CASE ~PhaseEnds(w)
    <3>1. snap' = [snap EXCEPT ![w] = Unread] /\ UNCHANGED <<at, target, done, sub, resume>>
      BY Zenon, <2>2 DEF ClaimWritten
    <3>2. snap'[w] = Unread /\ \A x \in Worker : x # w => snap'[x] = snap[x]   BY Zenon, <1>0, <3>1 DEF HTypeOK
    <3> QED BY Zenon, <3>1, <3>2
  <2> QED BY Zenon, <2>1, <2>2
<1>4. Pending'
  <2>1. claim.epoch \in Nat /\ claim'.epoch \in Nat /\ \A c \in SomeClaim : c.epoch \in Nat   BY Zenon, <1>0 DEF SomeClaim
  <2>2. \A c \in SomeClaim : Read(c) => c = claim' \/ c.epoch < claim'.epoch   BY <1>1, <2>1 DEF Read
  <2>3. Pending   BY Zenon DEF Claimed
  <2> QED BY Zenon, <1>0, <1>2, <1>3, <2>2, <2>3, PendingKept
<1>5. ASSUME NEW x \in Worker
      PROVE  /\ Stays(x, target[x])' <=> Stays(x, target[x])
             /\ Stays(x, done[x])' <=> Stays(x, done'[x])
             /\ Has(x, target[x])' <=> Has(x, target[x])
             /\ Has(x, done[x])' <=> Has(x, done'[x])
  BY Zenon, <1>2, <1>3 DEF Stays, Has
<1>6. ASSUME NEW x \in Worker PROVE OwnerHasIt(x)'
  <2>1. SUFFICES ASSUME Has(x, done'[x]) \/ (at'[x] = "stabilize" /\ Has(x, target[x]))
                 PROVE  claim'.owner \in sub \cup died
    BY Zenon, <1>2, <1>3, <1>5 DEF OwnerHasIt
  <2>2. CASE at[w] # "prepare"
    <3>1. Has(w, target[w]) /\ at[w] \in {"commit", "stabilize"}   BY Zenon, <1>1, <2>2
    <3>2. w \in sub   BY Zenon, <3>1 DEF HInv, Subscribed
    <3> QED BY Zenon, <1>1, <2>2, <3>2 DEF Owns
  <2>3. CASE at[w] = "prepare"
    <3>1. Good(x)   BY Zenon DEF Claimed
    <3>2. done'[x] = done[x] /\ (at'[x] = "stabilize" => at[x] = "stabilize")   BY Zenon, <1>3, <2>3
    <3>3. claim.owner \in sub \cup died   BY ZenonT(30), <2>1, <3>1, <3>2 DEF Good, OwnerHasIt
    <3>4. claim # NoClaim   BY <1>0, <3>3 DEF NoClaim
    <3> QED BY Zenon, <1>1, <3>3, <3>4
  <2> QED BY Zenon, <2>2, <2>3
<1>7. ASSUME NEW x \in Worker PROVE Prepares(x)'   BY Zenon, <1>1 DEF Prepares
<1>8. ASSUME NEW x \in Worker, x # w PROVE KeptClaim(x)' /\ GuardPassed(x)'
  <2>1. ~Stays(x, target[x]) /\ ~Stays(x, done[x])
    <3>1. plan[ver] # x   BY Zenon, <1>1, <1>8 DEF Has
    <3>2. Stays(x, target[x]) => plan[ver] = x   BY Zenon, <1>0, StaysLive
    <3>3. Stays(x, done[x]) => plan[ver] = x   BY Zenon, <1>0, StaysLive
    <3> QED BY Zenon, <3>1, <3>2, <3>3
  <2>2. at'[x] = at[x] /\ done'[x] = done[x]   BY Zenon, <1>3, <1>8
  <2>3. KeptClaim(x)'   BY Zenon, <1>5, <2>1, <2>2 DEF KeptClaim
  <2>4. Good(x) /\ (claim.owner # x => claim'.owner # x)   BY Zenon, <1>1, <1>8 DEF Claimed
  <2>5. GuardPassed(x)'   BY Zenon, <1>2, <1>3, <1>5, <2>2, <2>4 DEF Good, GuardPassed
  <2> QED BY Zenon, <2>3, <2>5
<1>9. KeptClaim(w)'
  <2>1. Good(w)   BY Zenon DEF Claimed
  <2>2. Stays(w, done'[w]) => Owns(w)'
    BY Zenon, <1>1, <1>3, <2>1 DEF Good, KeptClaim
  <2>3. at'[w] = "stabilize" => Owns(w)'   BY Zenon, <1>1, <1>3
  <2> QED BY Zenon, <1>1, <1>5, <2>2, <2>3 DEF KeptClaim
<1>10. GuardPassed(w)'
  <2>1. at'[w] # "update"   BY Zenon, <1>1, <1>3
  <2> QED BY Zenon, <2>1 DEF GuardPassed
<1>11. ASSUME NEW x \in Worker PROVE Good(x)'
  BY Zenon, <1>6, <1>7, <1>8, <1>9, <1>10 DEF Good
<1> QED BY Zenon, <1>4, <1>11 DEF Claimed

\* The steps that leave the worker between two Applies or before its phases.
LEMMA RestingKeeps ==
    ASSUME HTypeOK, Claimed, NEW w \in Worker, ApplyStarts(w) \/ HandoffFails(w) \/ Crashes(w)
    PROVE  Claimed'
<1>1. plan' = plan /\ ver' = ver /\ claim' = claim /\ sweep' = sweep
  BY Zenon DEF ApplyStarts, HandoffFails, Crashes, commits, kv
<1>2. \A x \in Worker : x # w => /\ at'[x] = at[x] /\ target'[x] = target[x] /\ done'[x] = done[x]
                                 /\ snap'[x] = snap[x] /\ resume'[x] = resume[x]
  BY Zenon DEF ApplyStarts, HandoffFails, Crashes, HTypeOK
<1>3. /\ at'[w] \in {"idle", "hygiene", "prepare"} /\ (done'[w] = done[w] \/ done'[w] = 0)
      /\ snap'[w] \in {snap[w], Unread} /\ resume'[w] \in {resume[w], NoResume}
  BY Zenon DEF ApplyStarts, HandoffFails, Crashes, HTypeOK
<1>4. claim.owner \in sub \cup died => claim.owner \in sub' \cup died'
  <2>1. CASE ApplyStarts(w) \/ HandoffFails(w)
    BY Zenon, <2>1 DEF ApplyStarts, HandoffFails, traces
  <2>2. CASE Crashes(w)   BY Zenon, <2>2 DEF Crashes
  <2> QED BY Zenon, <2>1, <2>2
<1>5. resume'[w].at = "write" => resume'[w] = resume[w]   BY <1>3 DEF NoResume
<1>6. Pending'   BY Zenon, <1>1, <1>2, <1>3, <1>5, PendingQuiet
<1>7. Good(w)   BY Zenon DEF Claimed
<1>8. Good(w)'   BY Zenon, <1>1, <1>3, <1>4, <1>7, Resting
<1> QED BY Zenon, <1>1, <1>2, <1>4, <1>6, <1>8, QuietStep

\* ClaimRead: the claim is taken for the update, or needs none.
LEMMA ClaimReadKeeps ==
    ASSUME HTypeOK, Behind, Subscribed, Claimed, NEW w \in Worker, ClaimRead(w)
    PROVE  Claimed'
<1>1. plan' = plan /\ ver' = ver /\ claim' = claim /\ sweep' = sweep /\ died' = died
  BY Zenon DEF ClaimRead, commits, kv, traces
<1>2. Good(w) /\ (Owns(w)' <=> Owns(w)) /\ (Claims(w)' <=> Claims(w))
  BY Zenon, <1>1 DEF Claimed, Owns, Claims
<1>3. CASE Walks(w) /\ Writes(w, claim)
  <2>1. snap' = [snap EXCEPT ![w] = claim] /\ UNCHANGED <<at, target, done, sub, resume>>
    BY Zenon, <1>3 DEF ClaimRead
  <2>2. \A x \in Worker : snap'[x] \in {snap[x], claim}   BY Zenon, <2>1 DEF HTypeOK
  <2>3. Pending'   BY Zenon, <1>1, <2>1, <2>2, PendingQuiet
  <2>4. Good(w)'   BY Zenon, <1>1, <1>2, <2>1, GoodKept
  <2> QED BY Zenon, <1>1, <2>1, <2>3, <2>4, QuietStep
<1>4. CASE ~(Walks(w) /\ Writes(w, claim))
  <2>1. PhaseEnds(w) /\ at[w] \in ClaimPhase   BY Zenon, <1>4 DEF ClaimRead
  <2>2. /\ \A x \in Worker : x # w => at'[x] = at[x] /\ snap'[x] = snap[x] /\ done'[x] = done[x] /\ resume'[x] = resume[x]
        /\ target' = target /\ sub' = sub /\ snap'[w] = Unread
        /\ at[w] = "prepare" => at'[w] = "guard" /\ done'[w] = done[w]
        /\ at[w] = "commit" => at'[w] = "stabilize" /\ done'[w] = done[w]
        /\ at[w] = "stabilize" => at'[w] = "idle" /\ done'[w] = target[w]
        /\ at[w] = "hygiene" => at'[w] = "idle" /\ done'[w] = done[w]
        /\ resume'[w].seen = resume[w].seen /\ (resume'[w].at = "write" => resume[w].at = "write")
    BY ZenonT(30), <2>1, PhaseEnding
  <2>3. Pending'   BY Zenon, <1>1, <2>2, PendingQuiet
  <2>4. SUFFICES Good(w)'   BY Zenon, <1>1, <2>2, <2>3, QuietStep
  <2>5. CASE at[w] \in {"stabilize", "hygiene"}
    BY Zenon, <1>1, <1>2, <2>2, <2>5, Resting
  <2>6. /\ target[w] \in Nat /\ done[w] \in Nat /\ ver \in Nat /\ done[w] <= target[w] /\ target[w] <= ver
        /\ (Stays(w, target[w]) => Has(w, target[w]))
    <3>1. target[w] \in Nat /\ done[w] \in Nat /\ ver \in Nat /\ done[w] <= target[w] /\ target[w] <= ver
      BY DEF HTypeOK, Behind
    <3> QED BY Zenon, <3>1, StaysLive
  <2>7. CASE at[w] \in {"prepare", "commit"}
    <3>0. done'[w] = done[w] /\ target'[w] = target[w]   BY Zenon, <2>2, <2>7
    <3>1. /\ Stays(w, target[w])' <=> Stays(w, target[w])
          /\ Stays(w, done[w])' <=> Stays(w, done[w])
          /\ Has(w, target[w])' <=> Has(w, target[w])
          /\ Has(w, done[w])' <=> Has(w, done[w])
      BY Zenon, <1>1, <3>0 DEF Stays, Has
    <3>2. (Stays(w, done[w])' => Owns(w)') /\ (Has(w, done[w])' => claim.owner \in sub \cup died)
      BY Zenon, <1>2, <3>1 DEF Good, KeptClaim, OwnerHasIt
    <3>3. CASE at[w] = "prepare"
      <4>1. at'[w] = "guard" /\ at'[w] # "stabilize" /\ at'[w] # "update"   BY Zenon, <2>2, <3>3
      <4>2. Has(w, target[w]) => claim # NoClaim /\ (Stays(w, target[w]) => Owns(w))
        BY Zenon, <1>2, <1>4, <2>6, <3>3, PreparedAlready
      <4>3. KeptClaim(w)'   BY Zenon, <1>2, <2>6, <3>1, <3>2, <4>1, <4>2 DEF KeptClaim, Claims
      <4>4. OwnerHasIt(w)'   BY Zenon, <1>1, <2>2, <3>2, <4>1 DEF OwnerHasIt
      <4>5. Prepares(w)' /\ GuardPassed(w)'   BY Zenon, <1>1, <3>1, <4>1, <4>2 DEF Prepares, GuardPassed
      <4> QED BY Zenon, <4>3, <4>4, <4>5 DEF Good
    <3>4. CASE at[w] = "commit"
      <4>1. at'[w] \notin {"guard", "update", "commit"}   BY Zenon, <2>2, <3>4
      <4>2. Has(w, target[w]) => claim.owner = w /\ w \in sub /\ (Stays(w, target[w]) => Owns(w))
        BY Zenon, <1>2, <1>4, <3>4, CommittedAlready
      <4>3. KeptClaim(w)'   BY Zenon, <1>2, <2>6, <3>1, <3>2, <4>1, <4>2 DEF KeptClaim
      <4>4. OwnerHasIt(w)'   BY Zenon, <1>1, <2>2, <3>1, <3>2, <4>2 DEF OwnerHasIt
      <4>5. Prepares(w)' /\ GuardPassed(w)'   BY Zenon, <4>1 DEF Prepares, GuardPassed
      <4> QED BY Zenon, <4>3, <4>4, <4>5 DEF Good
    <3> QED BY Zenon, <2>7, <3>3, <3>4
  <2> QED BY Zenon, <2>1, <2>5, <2>7 DEF ClaimPhase
<1> QED BY Zenon, <1>3, <1>4

\* ClaimConflict: the phase starts again, or the Apply is over.
LEMMA ClaimConflictKeeps ==
    ASSUME HTypeOK, Claimed, NEW w \in Worker, ClaimConflict(w)
    PROVE  Claimed'
<1>1. plan' = plan /\ ver' = ver /\ claim' = claim /\ sweep' = sweep /\ died' = died
  BY Zenon DEF ClaimConflict, commits, kv, traces
<1>2. Good(w) /\ (Owns(w)' <=> Owns(w)) /\ (Claims(w)' <=> Claims(w))
  BY Zenon, <1>1 DEF Claimed, Owns, Claims
<1>3. /\ \A x \in Worker : x # w => at'[x] = at[x] /\ snap'[x] = snap[x] /\ done'[x] = done[x]
      /\ target' = target /\ sub' = sub /\ snap'[w] = Unread /\ done'[w] = done[w]
      /\ at'[w] = at[w] \/ at'[w] = "idle"
      /\ \A x \in Worker : resume'[x].at = "write" => resume[x].at = "write" /\ resume'[x].seen = resume[x].seen
  <2>1. CASE at[w] = "hygiene"
    <3>1. PhaseEnds(w)   BY Zenon, <2>1 DEF ClaimConflict
    <3> QED BY ZenonT(30), <2>1, <3>1, PhaseEnding
  <2>2. CASE at[w] # "hygiene"
    <3>1. /\ snap' = [snap EXCEPT ![w] = Unread]
          /\ at' = [at EXCEPT ![w] = IF tries[w] < MaxRetries THEN @ ELSE "idle"]
          /\ UNCHANGED <<target, done, sub, resume>>
      BY Zenon, <2>2 DEF ClaimConflict
    <3>2. /\ snap'[w] = Unread /\ (at'[w] = at[w] \/ at'[w] = "idle")
          /\ \A x \in Worker : x # w => at'[x] = at[x] /\ snap'[x] = snap[x]
      BY Zenon, <3>1 DEF HTypeOK
    <3> QED BY Zenon, <3>1, <3>2
  <2> QED BY Zenon, <2>1, <2>2
<1>4. Pending'   BY Zenon, <1>1, <1>3, PendingQuiet
<1>5. Good(w)'
  <2>1. CASE at'[w] = at[w]   BY Zenon, <1>1, <1>2, <1>3, <2>1, GoodKept
  <2>2. CASE at'[w] = "idle"   BY Zenon, <1>1, <1>2, <1>3, <2>2, Resting
  <2> QED BY Zenon, <1>3, <2>1, <2>2
<1> QED BY Zenon, <1>1, <1>3, <1>4, <1>5, QuietStep

\* GuardHandoffRemoval: who passes it to drop the partition is not the owner.
LEMMA GuardKeeps ==
    ASSUME HTypeOK, Claimed, NEW w \in Worker, GuardHandoffRemoval(w)
    PROVE  Claimed'
<1>1. plan' = plan /\ ver' = ver /\ claim' = claim /\ sweep' = sweep /\ died' = died
  BY Zenon DEF GuardHandoffRemoval, commits, kv, traces
<1>2. target' = target /\ done' = done /\ snap' = snap /\ resume' = resume /\ sub' = sub /\ at[w] = "guard"
  BY Zenon DEF GuardHandoffRemoval
<1>3. /\ \A x \in Worker : x # w => at'[x] = at[x]
      /\ \/ at'[w] = "idle"
         \/ /\ at'[w] = "update"
            /\ Has(w, done[w]) /\ ~Has(w, target[w]) /\ target[w] = ver /\ plan[ver] # NoOne => claim.owner # w
  BY Zenon DEF GuardHandoffRemoval, HTypeOK, committedElsewhere
<1>4. Pending'   BY Zenon, <1>1, <1>2, PendingQuiet
<1>5. Good(w) /\ (Owns(w)' <=> Owns(w)) /\ (Claims(w)' <=> Claims(w))
  BY Zenon, <1>1 DEF Claimed, Owns, Claims
<1>6. CASE at'[w] = "idle"
  <2>1. Good(w)'   BY Zenon, <1>1, <1>2, <1>5, <1>6, Resting
  <2> QED BY Zenon, <1>1, <1>2, <1>3, <1>4, <2>1, QuietStep
<1>7. CASE at'[w] = "update"
  <2>1. at'[w] # "stabilize" /\ at'[w] # "idle"   BY Zenon, <1>7
  <2>2. /\ Stays(w, target[w])' <=> Stays(w, target[w])
        /\ Stays(w, done[w])' <=> Stays(w, done[w])
        /\ Has(w, target[w])' <=> Has(w, target[w])
        /\ Has(w, done[w])' <=> Has(w, done[w])
    BY Zenon, <1>1, <1>2 DEF Stays, Has
  <2>3. KeptClaim(w)'   BY Zenon, <1>2, <1>5, <2>1, <2>2 DEF Good, KeptClaim
  <2>4. OwnerHasIt(w)'   BY Zenon, <1>1, <1>2, <1>5, <2>1, <2>2 DEF Good, OwnerHasIt
  <2>5. Prepares(w)'   BY Zenon, <1>1, <1>2, <1>5, <2>2 DEF Good, Prepares
  <2>6. GuardPassed(w)'   BY Zenon, <1>1, <1>2, <1>3, <2>1, <2>2 DEF GuardPassed
  <2>7. Good(w)'   BY Zenon, <2>3, <2>4, <2>5, <2>6 DEF Good
  <2> QED BY Zenon, <1>1, <1>2, <1>3, <1>4, <2>7, QuietStep
<1> QED BY Zenon, <1>3, <1>6, <1>7

\* UpdateWorkerConsumer: while no owner lets go, the owner keeps the subject.
LEMMA UpdateKeeps ==
    ASSUME HTypeOK, Claimed, Undisturbed', NEW w \in Worker, UpdateWorkerConsumer(w)
    PROVE  Claimed'
<1>1. plan' = plan /\ ver' = ver /\ claim' = claim /\ sweep' = sweep /\ died' = died
  BY Zenon DEF UpdateWorkerConsumer, commits, kv
<1>2. target' = target /\ done' = done /\ snap' = snap /\ resume' = resume /\ at[w] = "update"
  BY Zenon DEF UpdateWorkerConsumer
<1>3. at'[w] = "commit" /\ \A x \in Worker : x # w => at'[x] = at[x]
  BY Zenon DEF UpdateWorkerConsumer, HTypeOK
<1>4. claim.owner \in sub \cup died => claim.owner \in sub' \cup died'
  <2>1. ~(w \in sub /\ ~Has(w, target[w]) /\ claim.owner = w)
    BY Zenon DEF UpdateWorkerConsumer, Undisturbed
  <2>2. \A x : x \in sub => x \in sub' \/ (x = w /\ ~Has(w, target[w]))
    BY Zenon DEF UpdateWorkerConsumer
  <2> QED BY Zenon, <1>1, <2>1, <2>2
<1>5. Pending'   BY Zenon, <1>1, <1>2, PendingQuiet
<1>6. Good(w) /\ (Owns(w)' <=> Owns(w)) /\ (Claims(w)' <=> Claims(w))
  BY Zenon, <1>1 DEF Claimed, Owns, Claims
<1>7. at'[w] # "stabilize" /\ at'[w] # "update"   BY Zenon, <1>3
<1>8. /\ Stays(w, target[w])' <=> Stays(w, target[w])
      /\ Stays(w, done[w])' <=> Stays(w, done[w])
      /\ Has(w, target[w])' <=> Has(w, target[w])
      /\ Has(w, done[w])' <=> Has(w, done[w])
  BY Zenon, <1>1, <1>2 DEF Stays, Has
<1>9. KeptClaim(w)'   BY Zenon, <1>2, <1>6, <1>7, <1>8 DEF Good, KeptClaim
<1>10. OwnerHasIt(w)'   BY Zenon, <1>1, <1>4, <1>6, <1>7, <1>8 DEF Good, OwnerHasIt
<1>11. Prepares(w)' /\ GuardPassed(w)'   BY Zenon, <1>1, <1>2, <1>6, <1>7, <1>8 DEF Good, Prepares, GuardPassed
<1>12. Good(w)'   BY Zenon, <1>9, <1>10, <1>11 DEF Good
<1> QED BY Zenon, <1>1, <1>2, <1>3, <1>4, <1>5, <1>12, QuietStep

\* Every step that leaves the claim undisturbed keeps the claim's invariants.
LEMMA ClaimedNext ==
    ASSUME HInv, [HandoffNext]_handoffVars, Undisturbed', claim' \in SomeClaim
    PROVE  Claimed'
<1>1. Undisturbed /\ Claimed /\ HTypeOK /\ Behind /\ Subscribed   BY Zenon, StillUndisturbed DEF HInv
<1>2. CASE SourceChanges \/ Expires \/ UNCHANGED handoffVars
  <2>1. Settles /\ UNCHANGED <<plan, ver, applies, died>>
    BY Zenon, <1>2 DEF SourceChanges, Expires, handoffVars, Settles, kv, commits, traces
  <2>2. snap' = snap /\ resume' = resume /\ sweep' = sweep /\ claim' = claim
    BY Zenon, <1>2 DEF SourceChanges, Expires, handoffVars, kv, applies
  <2>3. Pending'   BY Zenon, <1>1, <2>2, PendingQuiet
  <2> QED BY Zenon, <1>1, <2>1, <2>3, SettledStep
<1>3. CASE Publish   BY Zenon, <1>1, <1>3, PublishKeeps
<1>4. CASE SweepReads   BY Zenon, <1>1, <1>4, SweepReadsKeeps
<1>5. CASE SweepWrites \/ SweepReaps   BY Zenon, <1>1, <1>5, SweepWritesKeeps
<1>6. ASSUME NEW w \in Worker, Apply(w) \/ HandoffFails(w) \/ Crashes(w) PROVE Claimed'
  <2>1. CASE ClaimRead(w)   BY Zenon, <1>1, <2>1, ClaimReadKeeps
  <2>2. CASE ClaimWritten(w)   BY Zenon, <1>1, <2>2, ClaimWrittenKeeps
  <2>3. CASE ClaimConflict(w)   BY Zenon, <1>1, <2>3, ClaimConflictKeeps
  <2>4. CASE GuardHandoffRemoval(w)   BY Zenon, <1>1, <2>4, GuardKeeps
  <2>5. CASE UpdateWorkerConsumer(w)   BY Zenon, <1>1, <2>5, UpdateKeeps
  <2>6. CASE Resumes(w)   BY Zenon, <1>1, <2>6, ResumesKeeps
  <2>7. CASE ApplyStarts(w) \/ HandoffFails(w) \/ Crashes(w)   BY Zenon, <1>1, <2>7, RestingKeeps
  <2> QED BY Zenon, <1>6, <2>1, <2>2, <2>3, <2>4, <2>5, <2>6, <2>7 DEF Apply
<1> QED BY Zenon, <1>2, <1>3, <1>4, <1>5, <1>6 DEF HandoffNext

-----------------------------------------------------------------------------
(* The invariant, and what it is for *)

\* HInv is inductive.
LEMMA InvNext ==
    ASSUME HInv, [HandoffNext]_handoffVars
    PROVE  HInv'
<1>1. Basic'   BY Zenon, BasicNext DEF HInv, Basic
<1>2. claim' \in SomeClaim   BY Zenon, <1>1 DEF Basic, HTypeOK
<1>3. Undisturbed' => Claimed'   BY Zenon, <1>2, ClaimedNext
<1> QED BY Zenon, <1>1, <1>3 DEF HInv, Basic

\* A worker that drops the subject of a partition it had committed has passed
\* the guard, so the claim's owner is another one, which has the subject or
\* crashed.
LEMMA RemovalGuarded ==
    ASSUME HInv, [HandoffNext]_handoffVars
    PROVE  RemovalStep
<1>1. SUFFICES ASSUME NEW w \in Worker, w \in sub, w \notin sub', at'[w] = "commit", Has(w, done[w]),
                      target[w] = ver, plan[ver] # NoOne, mishaps = {}, ~released
               PROVE  \E x \in Worker \ {w} : x \in sub \/ x \in died
  BY Zenon DEF RemovalStep
<1>2. UpdateWorkerConsumer(w) /\ ~Has(w, target[w])
  <2>1. ~UNCHANGED sub   BY Zenon, <1>1
  <2>2. PICK x \in Worker : UpdateWorkerConsumer(x) \/ Crashes(x)
    <3>1. ~(UNCHANGED handoffVars) /\ ~Publish /\ ~SourceChanges /\ ~Expires /\ ~SweepReads /\ ~SweepWrites /\ ~SweepReaps
      BY Zenon, <2>1 DEF handoffVars, applies, Publish, SourceChanges, Expires, SweepReads, SweepWrites, SweepReaps
    <3>2. \A x \in Worker : ~(ApplyStarts(x) \/ ClaimRead(x) \/ ClaimConflict(x) \/ GuardHandoffRemoval(x)
                              \/ ClaimWritten(x) \/ Resumes(x) \/ HandoffFails(x))
      BY <2>1 DEF ApplyStarts, ClaimRead, ClaimWritten, ClaimConflict, GuardHandoffRemoval, Resumes, HandoffFails,
                  PhaseEnds, applies
    <3> QED BY Zenon, <3>1, <3>2 DEF HandoffNext, Apply
  <2>3. CASE Crashes(x)   BY Zenon, <1>1, <2>3 DEF Crashes, HInv, HTypeOK
  <2>4. CASE UpdateWorkerConsumer(x)
    <3>1. x = w /\ ~Has(w, target[w])   BY Zenon, <1>1, <2>4 DEF UpdateWorkerConsumer
    <3> QED BY Zenon, <2>4, <3>1
  <2> QED BY Zenon, <2>2, <2>3, <2>4
<1>3. Good(w) /\ at[w] = "update"   BY Zenon, <1>1, <1>2 DEF HInv, Undisturbed, Claimed, UpdateWorkerConsumer
<1>4. claim.owner # w   BY Zenon, <1>1, <1>2, <1>3 DEF Good, GuardPassed
<1>5. claim.owner \in sub \cup died   BY Zenon, <1>1, <1>3 DEF Good, OwnerHasIt
<1>6. sub \cup died \subseteq Worker   BY Zenon DEF HInv, HTypeOK
<1> QED BY Zenon, <1>4, <1>5, <1>6

\* RemovalGuard before UpdateWorkerConsumer, the commit after it: for any number
\* of workers, versions, retries and faults, a worker drops a partition's subject
\* for a transfer only when another worker has it or crashed, unless the claim
\* was disturbed on the way.
THEOREM RemovalWaitsForTakeover == HandoffSpec => RemovalAfterTakeover
<1>1. HandoffInit => HInv   BY Zenon, InvInit
<1>2. HInv /\ [HandoffNext]_handoffVars => HInv'   BY Zenon, InvNext
<1>3. HInv /\ [HandoffNext]_handoffVars => [RemovalStep]_handoffVars   BY Zenon, RemovalGuarded
<1> QED BY <1>1, <1>2, <1>3, PTL DEF HandoffSpec, RemovalAfterTakeover

-----------------------------------------------------------------------------
(* The orphan reaper *)

SweptClaim == [state : {"none", "stable", "prepare", "commit"}, epoch : Nat]
SweepPass == [at : {"off", "confirm", "list", "vouch", "fullvouch", "get", "cached", "write", "delete"},
              origin : {"none", "ticker", "apply"}, gated : BOOLEAN, cached : BOOLEAN, latch : Nat, vouched : BOOLEAN,
              live : BOOLEAN, fresh : BOOLEAN, seen : SweptClaim, epoch : Nat, new : SweptClaim, rev : Nat]
SweepTypeOK ==
    /\ entry \in SweptClaim /\ position \in Nat /\ live \in BOOLEAN /\ leader \in BOOLEAN /\ gap \in BOOLEAN
    /\ pass \in SweepPass /\ clock \in [on : BOOLEAN, ripe : BOOLEAN, fresh : BOOLEAN]
    /\ cache \in [valid : BOOLEAN, pos : Nat, claim : SweptClaim]

\* The fence: the clock of an orphan is fresh, and the vouch of the pass under
\* way is, only while there was no gap; and a delete is issued under both.
Fenced ==
    /\ clock.on /\ clock.fresh => ~gap
    /\ pass.vouched /\ ~pass.live /\ pass.fresh /\ ~clock.on => ~gap
    /\ pass.at = "off" => ~pass.vouched
    /\ ReapIsVouched

SweepInv == SweepTypeOK /\ Fenced

\* The invariant holds initially.
LEMMA SweepStarts == SweepInit => SweepInv
<1>1. SUFFICES ASSUME SweepInit PROVE SweepTypeOK /\ Fenced   BY DEF SweepInv
<1>2. NoEntry \in SweptClaim   BY DEF NoEntry, SweptClaim
<1>3. PassOff \in SweepPass   BY <1>2 DEF PassOff, SweepPass
<1>4. entry \in SweptClaim /\ position \in Nat   BY SMTT(40), <1>1, <1>2 DEF SweepInit, SweptClaim
<1>5. cache \in [valid : BOOLEAN, pos : Nat, claim : SweptClaim]   BY <1>1, <1>2 DEF SweepInit, NoCache
<1>6. clock \in [on : BOOLEAN, ripe : BOOLEAN, fresh : BOOLEAN] /\ ~clock.on   BY <1>1 DEF SweepInit, NoClock
<1>7. live \in BOOLEAN /\ leader \in BOOLEAN /\ gap \in BOOLEAN   BY <1>1 DEF SweepInit
<1>8. pass = PassOff /\ ~pass.vouched /\ pass.at = "off"   BY <1>1 DEF SweepInit, PassOff
<1> QED BY <1>3, <1>4, <1>5, <1>6, <1>7, <1>8 DEF SweepTypeOK, Fenced, ReapIsVouched

\* The values the sweep starts and ends with, and the claim it reconciles to.
LEMMA SweepValues ==
    /\ NoEntry \in SweptClaim
    /\ PassOff \in SweepPass /\ ~PassOff.vouched /\ PassOff.at = "off"
    /\ NoClock \in [on : BOOLEAN, ripe : BOOLEAN, fresh : BOOLEAN] /\ ~NoClock.on
    /\ NoCache \in [valid : BOOLEAN, pos : Nat, claim : SweptClaim]
    /\ \A c \in SweptClaim : sweepReconcile(c) \in SweptClaim
<1>1. NoEntry \in SweptClaim   BY DEF NoEntry, SweptClaim
<1>2. PassOff \in SweepPass /\ ~PassOff.vouched /\ PassOff.at = "off"   BY <1>1 DEF PassOff, SweepPass
<1>3. NoClock \in [on : BOOLEAN, ripe : BOOLEAN, fresh : BOOLEAN] /\ ~NoClock.on   BY DEF NoClock
<1>4. NoCache \in [valid : BOOLEAN, pos : Nat, claim : SweptClaim]   BY <1>1 DEF NoCache
<1>5. ASSUME NEW c \in SweptClaim PROVE sweepReconcile(c) \in SweptClaim
  BY DEF sweepReconcile, SweptClaim
<1> QED BY <1>1, <1>2, <1>3, <1>4, <1>5

\* What a pass does with the cache keeps its type.
LEMMA SweepEnds ==
    ASSUME SweepTypeOK, NEW c \in SweptClaim
    PROVE  /\ CleanEnds(c) => /\ pass' = PassOff
                              /\ cache' \in [valid : BOOLEAN, pos : Nat, claim : SweptClaim]
           /\ PassEnds => pass' = PassOff
<1>1. [valid |-> TRUE, pos |-> pass.latch, claim |-> c] \in [valid : BOOLEAN, pos : Nat, claim : SweptClaim]
  BY DEF SweepTypeOK, SweepPass
<1>2. cache \in [valid : BOOLEAN, pos : Nat, claim : SweptClaim]   BY DEF SweepTypeOK
<1> QED BY Zenon, <1>1, <1>2 DEF CleanEnds, PassEnds, latchCache

\* Steps outside the pass keep the invariant.
LEMMA OutsidePass ==
    ASSUME SweepTypeOK, Fenced,
           \/ OthersWrite \/ LiveChanges \/ LeaderChanges \/ TTLElapses \/ GraceEnds \/ LateDelete
           \/ ApplySweeps
    PROVE  SweepTypeOK' /\ Fenced'
<1>1. CASE OthersWrite \/ LateDelete \/ TTLElapses \/ LiveChanges \/ LeaderChanges
  <2>1. UNCHANGED <<pass, clock, cache, gap>>
    BY <1>1 DEF OthersWrite, LateDelete, TTLElapses, LiveChanges, LeaderChanges
  <2>2. entry' \in SweptClaim /\ position' \in Nat
    <3>1. CASE OthersWrite
      BY <3>1, SweepValues DEF OthersWrite, Put, SweepTypeOK, SweptClaim
    <3>2. CASE LateDelete   BY <3>2, SweepValues DEF LateDelete, Put, SweepTypeOK
    <3>3. CASE TTLElapses \/ LiveChanges \/ LeaderChanges
      BY Zenon, <3>3 DEF TTLElapses, LiveChanges, LeaderChanges, SweepTypeOK, bucket
    <3> QED BY <1>1, <3>1, <3>2, <3>3
  <2>3. live' \in BOOLEAN /\ leader' \in BOOLEAN
    BY ZenonT(40), <1>1 DEF OthersWrite, LateDelete, TTLElapses, LiveChanges, LeaderChanges, SweepTypeOK
  <2> QED BY <2>1, <2>2, <2>3 DEF SweepTypeOK, Fenced, ReapIsVouched
<1>2. CASE GraceEnds
  <2>1. UNCHANGED <<entry, position, live, leader, pass, cache, gap>> /\ clock' = [clock EXCEPT !.ripe = TRUE]
    BY <1>2 DEF GraceEnds, bucket
  <2>2. clock' \in [on : BOOLEAN, ripe : BOOLEAN, fresh : BOOLEAN] /\ clock'.on = clock.on /\ clock'.fresh = clock.fresh
    BY ZenonT(40), <2>1 DEF SweepTypeOK
  <2> QED BY <2>1, <2>2 DEF SweepTypeOK, Fenced, ReapIsVouched
<1>3. CASE ApplySweeps
  <2>1. UNCHANGED <<entry, position, live, leader, clock, cache, gap>>
    BY <1>3 DEF ApplySweeps, bucket
  <2>2. pass' \in SweepPass /\ ~pass'.vouched /\ pass'.at # "delete"
    BY ZenonT(40), <1>3, SweepValues DEF ApplySweeps, SweepPass
  <2> QED BY <2>1, <2>2 DEF SweepTypeOK, Fenced, ReapIsVouched
<1> QED BY <1>1, <1>2, <1>3

\* A tick samples the authority: where it fails, the clocks and the vouch of the
\* pass under way lose their freshness together with the window.
LEMMA TicksKeep ==
    ASSUME SweepTypeOK, Fenced, Tick \/ TickRefused
    PROVE  SweepTypeOK' /\ Fenced'
<1>1. UNCHANGED <<entry, position, live, leader>>   BY DEF Tick, TickRefused, bucket
<1>2. clock' = [clock EXCEPT !.fresh = @ /\ leader] /\ gap' = (gap \/ ~leader)
  BY DEF Tick, TickRefused, SampleAuthority
<1>3. /\ clock' \in [on : BOOLEAN, ripe : BOOLEAN, fresh : BOOLEAN] /\ gap' \in BOOLEAN
      /\ clock'.on = clock.on /\ clock'.fresh = (clock.fresh /\ leader)
  BY <1>2 DEF SweepTypeOK
<1>4. CASE Tick
  <2>1. \/ pass' = pass /\ cache' = cache
        \/ Probes
    BY <1>4 DEF Tick
  <2>2. cache' \in [valid : BOOLEAN, pos : Nat, claim : SweptClaim]
    BY <2>1, SweepValues DEF Probes, SweepTypeOK
  <2>3. CASE Probes
    <3>1. pass' \in SweepPass /\ ~pass'.vouched /\ pass'.at # "delete"
      <4>0. PassOff \in SweepPass /\ ~PassOff.vouched   BY Zenon, SweepValues
      <4>1. CASE pass' = [PassOff EXCEPT !.at = "list", !.origin = "ticker"]
        BY Zenon, <4>0, <4>1 DEF SweepPass
      <4>2. CASE pass' # [PassOff EXCEPT !.at = "list", !.origin = "ticker"]
        <5>1. PICK a \in {"confirm", "list"} :
                pass' = [PassOff EXCEPT !.at = a, !.origin = "ticker", !.gated = TRUE, !.latch = position]
          BY Zenon, <2>3, <4>2 DEF Probes
        <5> QED BY ZenonT(40), <4>0, <5>1 DEF SweepPass, SweepTypeOK
      <4> QED BY <4>1, <4>2
    <3> QED BY <1>1, <1>2, <1>3, <2>2, <3>1 DEF SweepTypeOK, Fenced, ReapIsVouched
  <2>4. CASE pass' = pass /\ cache' = cache
    <3>1. pass.at = "off"   BY Zenon, <1>4 DEF Tick
    <3> QED BY <1>1, <1>2, <1>3, <2>4, <3>1 DEF SweepTypeOK, Fenced, ReapIsVouched
  <2> QED BY <2>1, <2>3, <2>4
<1>5. CASE TickRefused
  <2>1. pass' = [pass EXCEPT !.fresh = @ /\ leader] /\ pass.at # "delete" /\ cache' = cache   BY <1>5 DEF TickRefused
  <2>2. /\ pass' \in SweepPass /\ pass'.at = pass.at /\ pass'.vouched = pass.vouched /\ pass'.live = pass.live
        /\ pass'.fresh = (pass.fresh /\ leader)
    BY <2>1 DEF SweepTypeOK, SweepPass
  <2> QED BY <1>1, <1>2, <1>3, <2>1, <2>2 DEF SweepTypeOK, Fenced, ReapIsVouched
<1> QED BY <1>4, <1>5

\* resolveLiveSet keeps the clock only on a vouched absence; any other answer
\* ends the window.
LEMMA VouchesKeeps ==
    ASSUME SweepTypeOK, Fenced, Vouches
    PROVE  SweepTypeOK' /\ Fenced'
<1>1. UNCHANGED <<entry, position, live, leader, cache>> /\ pass.at \in {"vouch", "fullvouch"}   BY Zenon DEF Vouches, bucket
<1>2. PICK ok \in BOOLEAN :
        /\ clock' = Resolved(ok) /\ gap' = (~ok \/ live \/ (gap /\ clock'.on))
        /\ pass' = [pass EXCEPT !.at = IF @ = "vouch" THEN "cached" ELSE "get",
                                !.vouched = ok, !.live = live, !.fresh = ok]
  BY Zenon DEF Vouches
<1>3. /\ pass' \in SweepPass /\ pass'.at \in {"cached", "get"} /\ pass'.vouched = ok /\ pass'.live = live /\ pass'.fresh = ok
  <2>1. PICK a \in {"cached", "get"} : pass' = [pass EXCEPT !.at = a, !.vouched = ok, !.live = live, !.fresh = ok]
    BY ZenonT(40), <1>2 DEF SweepTypeOK, SweepPass
  <2> QED BY ZenonT(30), <2>1 DEF SweepTypeOK, SweepPass
<1>4. /\ clock' \in [on : BOOLEAN, ripe : BOOLEAN, fresh : BOOLEAN]
      /\ clock'.on => clock' = clock /\ ok /\ ~live
  BY <1>2, SweepValues DEF Resolved, SweepTypeOK
<1>5. gap' \in BOOLEAN   BY <1>2
<1>6. clock'.on /\ clock'.fresh => ~gap'   BY Zenon, <1>2, <1>4 DEF Fenced
<1>7. pass'.vouched /\ ~pass'.live /\ pass'.fresh /\ ~clock'.on => ~gap'   BY ZenonT(40), <1>2, <1>3
<1> QED BY <1>1, <1>3, <1>4, <1>5, <1>6, <1>7 DEF SweepTypeOK, Fenced, ReapIsVouched

\* sweepClaim issues the delete only under a fresh clock, and starts a clock as
\* fresh as the pass's vouch.
LEMMA SweepsKeeps ==
    ASSUME SweepTypeOK, Fenced, NEW c \in SweptClaim, NEW n \in Nat, Sweeps(c, n), pass.at \in {"get", "cached"},
           UNCHANGED <<entry, position, live, leader, gap>>
    PROVE  SweepTypeOK' /\ Fenced'
<1>1. CASE pass' = PassOff /\ clock' \in {clock, NoClock} /\ CleanEnds(c)
  <2>1. cache' \in [valid : BOOLEAN, pos : Nat, claim : SweptClaim]   BY <1>1, SweepEnds
  <2>2. clock' \in [on : BOOLEAN, ripe : BOOLEAN, fresh : BOOLEAN] /\ (clock'.on => clock' = clock)
    BY <1>1, SweepValues DEF SweepTypeOK
  <2>3. pass' \in SweepPass /\ ~pass'.vouched /\ pass'.at = "off"   BY <1>1, SweepValues
  <2> QED BY <2>1, <2>2, <2>3 DEF SweepTypeOK, Fenced, ReapIsVouched
<1>2. CASE sweepReconcile(c) # c
  <2>1. CASE CleanEnds(c) /\ clock' = clock   BY <1>1, <2>1, SweepEnds
  <2>2. CASE ~CleanEnds(c)
    <3>1. /\ pass' = [pass EXCEPT !.at = "write", !.seen = c, !.epoch = entry.epoch, !.new = sweepReconcile(entry)]
          /\ UNCHANGED <<cache, clock>>
      BY <1>2, <2>2 DEF Sweeps
    <3>2. sweepReconcile(entry) \in SweptClaim /\ entry.epoch \in Nat   BY SweepValues DEF SweepTypeOK, SweptClaim
    <3>3. /\ pass' \in SweepPass /\ pass'.at = "write" /\ pass'.vouched = pass.vouched /\ pass'.live = pass.live
          /\ pass'.fresh = pass.fresh
      BY ZenonT(40), <3>1, <3>2 DEF SweepTypeOK, SweepPass
    <3> QED BY <3>1, <3>3 DEF SweepTypeOK, Fenced, ReapIsVouched
  <2> QED BY Zenon, <1>2, <2>1, <2>2 DEF Sweeps
<1>3. CASE sweepReconcile(c) = c /\ Reapable(c)
  <2>1. pass' = [pass EXCEPT !.at = "delete", !.seen = c, !.rev = n] /\ UNCHANGED <<clock, cache>>
    BY <1>3 DEF Sweeps
  <2>2. /\ pass' \in SweepPass /\ pass'.at = "delete" /\ pass'.vouched = pass.vouched /\ pass'.live = pass.live
        /\ pass'.fresh = pass.fresh
    BY Zenon, <2>1 DEF SweepTypeOK, SweepPass
  <2>3. pass.vouched /\ ~pass.live /\ clock.on /\ clock.fresh   BY <1>3 DEF Reapable
  <2> QED BY <2>1, <2>2, <2>3 DEF SweepTypeOK, Fenced, ReapIsVouched
<1>4. CASE sweepReconcile(c) = c /\ ~Reapable(c)
  <2>1. clock' = OrphanClock(c) /\ CleanEnds(c)   BY <1>4 DEF Sweeps
  <2>2. CASE clock' \in {clock, NoClock}   BY Zenon, <1>1, <2>1, <2>2, SweepEnds
  <2>3. CASE clock' \notin {clock, NoClock}
    <3>1. /\ pass.vouched /\ ~pass.live /\ ~clock.on
          /\ clock' = [on |-> TRUE, ripe |-> FALSE, fresh |-> pass.fresh]
      BY <2>1, <2>3 DEF OrphanClock
    <3>2. /\ pass' \in SweepPass /\ ~pass'.vouched /\ pass'.at = "off"
          /\ cache' \in [valid : BOOLEAN, pos : Nat, claim : SweptClaim]
      BY <2>1, SweepEnds, SweepValues
    <3>3. clock' \in [on : BOOLEAN, ripe : BOOLEAN, fresh : BOOLEAN] /\ clock'.fresh = pass.fresh
      BY <3>1 DEF SweepTypeOK, SweepPass
    <3> QED BY Zenon, <3>1, <3>2, <3>3 DEF SweepTypeOK, Fenced, ReapIsVouched
  <2> QED BY <2>2, <2>3
<1> QED BY <1>2, <1>3, <1>4

\* The other steps of a pass end it, or leave its vouch and the clock alone.
LEMMA PassKeeps ==
    ASSUME SweepTypeOK, Fenced, Pass
    PROVE  SweepTypeOK' /\ Fenced'
<1>0. NoEntry \in SweptClaim /\ entry \in SweptClaim /\ cache.claim \in SweptClaim /\ pass.seen \in SweptClaim
      /\ pass.new \in SweptClaim /\ position \in Nat /\ cache.pos \in Nat
  BY Zenon, SweepValues DEF SweepTypeOK, SweepPass
<1>1. ASSUME pass' = PassOff, cache' \in [valid : BOOLEAN, pos : Nat, claim : SweptClaim],
             UNCHANGED <<live, leader, clock, gap>>, entry' \in SweptClaim, position' \in Nat
      PROVE  SweepTypeOK' /\ Fenced'
  <2>1. pass' \in SweepPass /\ ~pass'.vouched /\ pass'.at = "off"   BY <1>1, SweepValues
  <2> QED BY Zenon, <1>1, <2>1 DEF SweepTypeOK, Fenced, ReapIsVouched
<1>2. ASSUME pass' \in SweepPass, pass'.at \notin {"off", "delete"}, pass'.vouched = pass.vouched,
             pass'.live = pass.live, pass'.fresh = pass.fresh,
             cache' \in [valid : BOOLEAN, pos : Nat, claim : SweptClaim], UNCHANGED <<entry, position, live, leader, clock, gap>>
      PROVE  SweepTypeOK' /\ Fenced'
  BY Zenon, <1>2 DEF SweepTypeOK, Fenced, ReapIsVouched
<1>3. CASE Confirms
  <2>1. UNCHANGED <<entry, position, live, leader, clock, gap>>   BY Zenon, <1>3 DEF Confirms, bucket
  <2>2. cache' \in [valid : BOOLEAN, pos : Nat, claim : SweptClaim]
    BY <1>3, SweepValues DEF Confirms, SweepTypeOK
  <2>3. CASE pass' = PassOff   BY Zenon, <1>0, <1>1, <2>1, <2>2, <2>3
  <2>4. CASE pass' # PassOff
    <3>1. \/ pass' = [pass EXCEPT !.at = "vouch", !.gated = FALSE, !.cached = TRUE]
          \/ pass' = [pass EXCEPT !.at = "list", !.latch = position]
          \/ pass' = [pass EXCEPT !.at = "list", !.gated = FALSE]
      BY <1>3, <2>4 DEF Confirms
    <3>2. /\ pass' \in SweepPass /\ pass'.at \in {"vouch", "list"} /\ pass'.vouched = pass.vouched
          /\ pass'.live = pass.live /\ pass'.fresh = pass.fresh
      <4>1. CASE pass' = [pass EXCEPT !.at = "vouch", !.gated = FALSE, !.cached = TRUE]
        BY Zenon, <4>1 DEF SweepTypeOK, SweepPass
      <4>2. CASE pass' = [pass EXCEPT !.at = "list", !.latch = position]
        BY Zenon, <1>0, <4>2 DEF SweepTypeOK, SweepPass
      <4>3. CASE pass' = [pass EXCEPT !.at = "list", !.gated = FALSE]
        BY Zenon, <4>3 DEF SweepTypeOK, SweepPass
      <4> QED BY Zenon, <3>1, <4>1, <4>2, <4>3
    <3> QED BY <1>2, <2>1, <2>2, <3>2
  <2> QED BY <2>3, <2>4
<1>4. CASE Lists
  <2>1. UNCHANGED <<entry, position, live, leader, clock, gap>>   BY Zenon, <1>4 DEF Lists, bucket
  <2>2. CASE CleanEnds(NoEntry)   BY <1>0, <1>1, <2>1, <2>2, SweepEnds
  <2>3. CASE pass' = [pass EXCEPT !.at = "fullvouch"] /\ cache' = cache
    <3>1. /\ pass' \in SweepPass /\ pass'.at = "fullvouch" /\ pass'.vouched = pass.vouched
          /\ pass'.live = pass.live /\ pass'.fresh = pass.fresh
      BY <2>3 DEF SweepTypeOK, SweepPass
    <3> QED BY Zenon, <1>2, <2>1, <2>3, <3>1 DEF SweepTypeOK
  <2>4. CASE PassEnds /\ cache' = IF pass.gated THEN NoCache ELSE cache
    <3>1. cache' \in [valid : BOOLEAN, pos : Nat, claim : SweptClaim]   BY <2>4, SweepValues DEF SweepTypeOK
    <3> QED BY <1>0, <1>1, <2>1, <2>4, <3>1 DEF PassEnds
  <2> QED BY <1>4, <2>2, <2>3, <2>4 DEF Lists
<1>5. CASE Gets
  <2>1. UNCHANGED <<entry, position, live, leader, gap>> /\ pass.at = "get"   BY Zenon, <1>5 DEF Gets, bucket
  <2>2. CASE Sweeps(entry, position)   BY Zenon, <1>0, <2>1, <2>2, SweepsKeeps
  <2>3. CASE CleanEnds(NoEntry) /\ clock' = clock   BY Zenon, <1>0, <1>1, <2>1, <2>3, SweepEnds
  <2>4. CASE PassEnds /\ cache' = (IF pass.gated THEN NoCache ELSE cache) /\ clock' = clock
    <3>1. cache' \in [valid : BOOLEAN, pos : Nat, claim : SweptClaim]   BY Zenon, <2>4, SweepValues DEF SweepTypeOK
    <3> QED BY <1>0, <1>1, <2>1, <2>4, <3>1 DEF PassEnds
  <2> QED BY <1>5, <2>2, <2>3, <2>4 DEF Gets
<1>6. CASE Cached
  <2>1. UNCHANGED <<entry, position, live, leader, gap>> /\ pass.at = "cached" /\ Sweeps(cache.claim, cache.pos)
    BY Zenon, <1>6 DEF Cached, bucket
  <2> QED BY <1>0, <2>1, SweepsKeeps
<1>7. CASE Reconciles
  <2>1. UNCHANGED <<live, leader, clock, gap>> /\ CleanEnds(pass.seen)   BY Zenon, <1>7 DEF Reconciles
  <2>2. entry' \in SweptClaim /\ position' \in Nat   BY SMTT(30), <1>0, <1>7 DEF Reconciles, Put
  <2> QED BY Zenon, <1>0, <1>1, <2>1, <2>2, SweepEnds
<1>8. CASE Deletes
  <2>1. UNCHANGED <<live, leader>> /\ CleanEnds(pass.seen)   BY <1>8 DEF Deletes
  <2>2. entry' \in SweptClaim /\ position' \in Nat   BY <1>0, <1>8 DEF Deletes, Put, bucket
  <2>3. /\ pass' \in SweepPass /\ ~pass'.vouched /\ pass'.at = "off"
        /\ cache' \in [valid : BOOLEAN, pos : Nat, claim : SweptClaim]
    BY <1>0, <2>1, SweepEnds, SweepValues
  <2>4. \/ clock' = clock /\ gap' = gap
        \/ clock' = NoClock /\ gap' = gap
        \/ clock' = [clock EXCEPT !.fresh = FALSE] /\ gap' = TRUE
    BY Zenon, <1>8 DEF Deletes
  <2>5. /\ clock' \in [on : BOOLEAN, ripe : BOOLEAN, fresh : BOOLEAN]
        /\ clock'.on /\ clock'.fresh => clock' = clock /\ gap' = gap
    BY Zenon, <2>4, SweepValues DEF SweepTypeOK
  <2>6. gap' \in BOOLEAN   BY ZenonT(40), <2>4 DEF SweepTypeOK
  <2> QED BY SMTT(40), <2>1, <2>2, <2>3, <2>5, <2>6 DEF SweepTypeOK, Fenced, ReapIsVouched
<1> QED BY Zenon, <1>3, <1>4, <1>5, <1>6, <1>7, <1>8, VouchesKeeps DEF Pass

\* Every step keeps the sweep's invariant.
LEMMA SweepSteps == SweepInv /\ [SweepNext]_sweepVars => SweepInv'
<1>1. SUFFICES ASSUME SweepTypeOK, Fenced, [SweepNext]_sweepVars PROVE SweepTypeOK' /\ Fenced'   BY DEF SweepInv
<1>4. CASE SweepNext   BY Zenon, <1>1, <1>4, OutsidePass, TicksKeep, PassKeeps DEF SweepNext
<1>5. CASE UNCHANGED sweepVars
  BY <1>1, <1>5 DEF sweepVars, bucket, SweepTypeOK, Fenced, ReapIsVouched
<1> QED BY <1>1, <1>4, <1>5

\* maybeReapOrphan's fence: however passes, ticks, lost authority, failed vouches
\* and ambiguous deletes interleave, a claim is deleted as an orphan only after a
\* window of unbroken vouched absence.
THEOREM ReapsOnlyVouchedOrphans == SweepSpec => []ReapIsVouched
<1>1. SweepInv => ReapIsVouched   BY Zenon DEF SweepInv, Fenced, ReapIsVouched
<1> QED BY <1>1, SweepStarts, SweepSteps, PTL DEF SweepSpec

-----------------------------------------------------------------------------
(* The resolver's view *)

Written == Value \cup {"deleted"}
Entries == [rev : Nat, val : Value \cup {"unknown"}, deleted : BOOLEAN]
ScanState ==
    [at : {"off", "confirm", "list", "get", "apply"}, pos : Nat, ok : BOOLEAN, snap : Entries,
     listed : BOOLEAN, pend : Entries, clean : BOOLEAN]
Message == [at : {"none", "admitted", "nakked", "get", "apply", "again"}, rev : Nat]

\* An entry of the stream, or a tombstone at a revision the stream has reached.
Backed(e) == e.rev <= lastSeq /\ (e.rev # 0 /\ ~e.deleted => e.val = hist[e.rev])

\* A key that the listing lacks was deleted after the snapshot.
GoneIsLater ==
    scan.at = "get" /\ ~scan.listed /\ scan.snap.rev # 0 /\ ~scan.snap.deleted => scan.snap.rev < lastSeq

\* What the gate has in hand was written.
MessageBacked ==
    /\ msg.at = "apply" => msg.rev \in 1 .. lastSeq
    /\ msg.at = "admitted" => msg.rev \in 1 .. lastSeq /\ hist[msg.rev] = "mine"

ResolverTypes ==
    /\ hist \in Seq(Written) /\ claimCache \in Entries /\ queue \in Seq(Nat)
    /\ scan \in ScanState /\ msg \in Message

\* The inductive invariant: all that is under way to the cache is of the stream.
ViewInv ==
    /\ ResolverTypes
    /\ Backed(claimCache) /\ Backed(scan.snap) /\ Backed(scan.pend)
    /\ \A i \in DOMAIN queue : queue[i] \in 1 .. lastSeq
    /\ GoneIsLater /\ MessageBacked

\* Nothing is known of a key that was never seen.
LEMMA AbsentIs == Absent \in Entries /\ Absent.rev = 0
BY DEF Absent, Entries, Value

\* No pass is under way.
LEMMA NoScanIs == NoScan \in ScanState /\ NoScan.at = "off" /\ NoScan.snap = Absent /\ NoScan.pend = Absent
<1>1. NoScan \in ScanState   BY AbsentIs DEF NoScan, ScanState
<1> QED BY Zenon, <1>1 DEF NoScan, ScanState

\* An entry of the stream.
LEMMA EntryIs ==
    ASSUME hist \in Seq(Written), NEW r \in 1 .. lastSeq PROVE Entry(r) \in Entries /\ Backed(Entry(r)) /\ Entry(r).rev = r
<1>1. lastSeq \in Nat /\ r \in Nat /\ r <= lastSeq   BY DEF lastSeq
<1>2. hist[r] \in Written   BY DEF lastSeq
<1>3. PICK e : e = Entry(r)   BY Zenon
<1>4. e = [rev |-> r, val |-> IF hist[r] = "deleted" THEN "unknown" ELSE hist[r], deleted |-> hist[r] = "deleted"]
  BY Zenon, <1>3 DEF Entry
<1>5. e \in Entries   BY <1>1, <1>2, <1>4 DEF Entries, Written
<1>6. e.rev = r /\ (~e.deleted => e.val = hist[r])   BY Zenon, <1>4
<1> QED BY Zenon, <1>1, <1>3, <1>5, <1>6 DEF Backed

\* An absent entry is backed.
LEMMA AbsentBacked == hist \in Seq(Written) => Backed(Absent)
BY DEF Backed, Absent, lastSeq

\* applyPendingBatch and ForceRefreshPartition: the revision never falls.
LEMMA AppliedIs ==
    ASSUME claimCache \in Entries, Backed(claimCache), NEW e \in Entries, Backed(e)
    PROVE  Applied(e) \in Entries /\ Backed(Applied(e)) /\ Applied(e).rev >= claimCache.rev
<1>1. claimCache.rev \in Nat /\ e.rev \in Nat   BY DEF Entries
<1>2. CASE claimCache.rev >= e.rev   BY <1>1, <1>2 DEF Applied
<1>3. CASE ~(claimCache.rev >= e.rev)   BY <1>1, <1>3 DEF Applied
<1> QED BY <1>2, <1>3

\* The invariant holds initially.
LEMMA ViewInit == ResolverInit => ViewInv
<1> SUFFICES ASSUME ResolverInit PROVE ViewInv   OBVIOUS
<1>1. hist \in Seq(Written) /\ lastSeq \in {0, 1}
  <2>1. hist = <<>> \/ hist = <<"mine">>   BY Zenon DEF ResolverInit
  <2>2. "mine" \in Written   BY DEF Written, Value
  <2> HIDE DEF Written
  <2>3. <<>> \in Seq(Written) /\ Len(<<>>) = 0   OBVIOUS
  <2>4. <<"mine">> \in Seq(Written) /\ Len(<<"mine">>) = 1   BY <2>2
  <2> QED BY Zenon, <2>1, <2>3, <2>4 DEF lastSeq
<1>2. claimCache \in Entries /\ Backed(claimCache)
  <2>1. CASE lastSeq = 0   BY Zenon, <1>1, <2>1, AbsentIs, AbsentBacked DEF ResolverInit
  <2>2. CASE lastSeq # 0
    <3>1. lastSeq \in 1 .. lastSeq   BY <1>1, <2>2
    <3> QED BY Zenon, <1>1, <2>2, <3>1, EntryIs DEF ResolverInit
  <2> QED BY <2>1, <2>2
<1>3. queue \in Seq(Nat) /\ \A i \in DOMAIN queue : queue[i] \in 1 .. lastSeq   BY <1>1 DEF ResolverInit
<1>4. scan = NoScan /\ msg = NoMsg   BY Zenon DEF ResolverInit
<1>5. msg \in Message /\ msg.at = "none"   BY <1>4 DEF NoMsg, Message
<1>6. scan \in ScanState /\ scan.at = "off" /\ Backed(scan.snap) /\ Backed(scan.pend)
  BY Zenon, <1>1, <1>4, NoScanIs, AbsentBacked
<1> QED BY <1>1, <1>2, <1>3, <1>5, <1>6 DEF ViewInv, ResolverTypes, GoneIsLater, MessageBacked

\* A write of the claim extends the stream and leaves what it held.
LEMMA BucketChangesKeeps == ASSUME ViewInv, BucketChanges PROVE ViewInv'
<1>0. ResolverTypes   BY Zenon DEF ViewInv
<1>1. PICK v \in Written : hist' = Append(hist, v)   BY Zenon DEF BucketChanges, Written
<1>2. /\ UNCHANGED <<claimCache, scan, msg>>
      /\ queue' = IF watch = "live" THEN Append(queue, lastSeq + 1) ELSE queue
  BY Zenon DEF BucketChanges, recon
<1>3. /\ hist' \in Seq(Written) /\ lastSeq \in Nat /\ lastSeq' = lastSeq + 1
      /\ \A i \in 1 .. lastSeq : hist'[i] = hist[i]
  BY <1>0, <1>1 DEF ResolverTypes, lastSeq
<1>4. ASSUME NEW e \in Entries, Backed(e) PROVE e.rev <= lastSeq' /\ (e.rev # 0 /\ ~e.deleted => e.val = hist'[e.rev])
  BY <1>3, <1>4 DEF Backed, Entries
<1>5. claimCache \in Entries /\ scan.snap \in Entries /\ scan.pend \in Entries   BY Zenon, <1>0 DEF ResolverTypes, ScanState
<1>6. Backed(claimCache)' /\ Backed(scan.snap)' /\ Backed(scan.pend)'
  BY Zenon, <1>2, <1>4, <1>5 DEF ViewInv, Backed
<1>7. queue' \in Seq(Nat) /\ \A i \in DOMAIN queue' : queue'[i] \in 1 .. lastSeq'
  <2>1. queue \in Seq(Nat) /\ \A i \in DOMAIN queue : queue[i] \in 1 .. lastSeq   BY Zenon, <1>0 DEF ViewInv, ResolverTypes
  <2>2. CASE watch = "live"   BY <1>2, <1>3, <2>1, <2>2
  <2>3. CASE watch # "live"   BY <1>2, <1>3, <2>1, <2>3
  <2> QED BY <2>2, <2>3
<1>8. GoneIsLater'
  <2>1. scan.snap.rev \in Nat   BY Zenon, <1>5 DEF Entries
  <2> QED BY <1>2, <1>3, <2>1 DEF ViewInv, GoneIsLater
<1>9. MessageBacked'
  <2>1. msg.rev \in Nat   BY Zenon, <1>0 DEF ResolverTypes, Message
  <2> QED BY <1>2, <1>3, <2>1 DEF ViewInv, MessageBacked
<1> QED BY Zenon, <1>0, <1>2, <1>3, <1>6, <1>7, <1>8, <1>9 DEF ViewInv, ResolverTypes

\* The cache, the queue and the message move.
LEMMA ViewMoves ==
    ASSUME ViewInv, UNCHANGED <<hist, scan>>,
           claimCache' \in Entries, Backed(claimCache'),
           queue' \in Seq(Nat), \A i \in DOMAIN queue' : queue'[i] \in 1 .. lastSeq,
           msg' \in Message, msg'.at = "apply" => msg'.rev \in 1 .. lastSeq,
           msg'.at = "admitted" => msg'.rev \in 1 .. lastSeq /\ hist[msg'.rev] = "mine"
    PROVE  ViewInv'
<1>1. lastSeq' = lastSeq   BY DEF lastSeq
<1>2. Backed(claimCache)' /\ Backed(scan.snap)' /\ Backed(scan.pend)'   BY Zenon, <1>1 DEF ViewInv, Backed
<1>3. GoneIsLater' /\ MessageBacked'   BY Zenon, <1>1 DEF ViewInv, GoneIsLater, MessageBacked
<1>4. ResolverTypes'   BY Zenon DEF ViewInv, ResolverTypes
<1>5. (\A i \in DOMAIN queue : queue[i] \in 1 .. lastSeq)'   BY Zenon, <1>1
<1> QED BY Zenon, <1>2, <1>3, <1>4, <1>5 DEF ViewInv

\* The pass moves, up to its verdict.
LEMMA ScanMoves ==
    ASSUME ViewInv, UNCHANGED <<hist, claimCache, queue, msg>>, scan' \in ScanState,
           Backed(scan'.snap), Backed(scan'.pend),
           scan'.at = "get" /\ ~scan'.listed /\ scan'.snap.rev # 0 /\ ~scan'.snap.deleted => scan'.snap.rev < lastSeq
    PROVE  ViewInv'
<1>1. lastSeq' = lastSeq   BY DEF lastSeq
<1>2. Backed(claimCache)' /\ Backed(scan.snap)' /\ Backed(scan.pend)'   BY Zenon, <1>1 DEF ViewInv, Backed
<1>3. GoneIsLater' /\ MessageBacked'   BY Zenon, <1>1 DEF ViewInv, GoneIsLater, MessageBacked
<1>4. ResolverTypes'   BY Zenon DEF ViewInv, ResolverTypes
<1>5. (\A i \in DOMAIN queue : queue[i] \in 1 .. lastSeq)'   BY Zenon, <1>1 DEF ViewInv
<1> QED BY Zenon, <1>2, <1>3, <1>4, <1>5 DEF ViewInv

\* The watcher: what it delivers and what it replays are entries of the stream.
LEMMA WatcherKeeps ==
    ASSUME ViewInv, WatcherStalls \/ WatcherCloses \/ Delivers \/ WatcherRestarts
    PROVE  ViewInv' /\ claimCache'.rev >= claimCache.rev
<1>0. ResolverTypes /\ Backed(claimCache) /\ MessageBacked   BY Zenon DEF ViewInv
<1>a. hist \in Seq(Written) /\ lastSeq \in Nat /\ claimCache \in Entries /\ claimCache.rev \in Nat
  BY <1>0 DEF ResolverTypes, lastSeq, Entries
<1>b. queue \in Seq(Nat) /\ \A i \in DOMAIN queue : queue[i] \in 1 .. lastSeq   BY Zenon, <1>0 DEF ViewInv, ResolverTypes
<1>1. UNCHANGED <<hist, scan, msg>>   BY Zenon DEF WatcherStalls, WatcherCloses, Delivers, WatcherRestarts, recon
<1>2. /\ claimCache' \in Entries /\ Backed(claimCache') /\ claimCache'.rev >= claimCache.rev
      /\ queue' \in Seq(Nat) /\ \A i \in DOMAIN queue' : queue'[i] \in 1 .. lastSeq
  <2>1. CASE WatcherStalls \/ WatcherCloses
    <3>1. claimCache' = claimCache /\ queue' = <<>>   BY Zenon, <2>1 DEF WatcherStalls, WatcherCloses
    <3> QED BY <1>0, <1>a, <3>1
  <2>2. CASE WatcherRestarts
    <3>1. claimCache' = claimCache /\ (queue' = <<>> \/ (lastSeq # 0 /\ queue' = <<lastSeq>>) \/ queue' = queue)
      BY Zenon, <2>2 DEF WatcherRestarts
    <3>2. CASE lastSeq # 0 /\ queue' = <<lastSeq>>
      <4>1. queue' \in Seq(Nat) /\ \A i \in DOMAIN queue' : queue'[i] = lastSeq   BY <1>a, <3>2
      <4>2. lastSeq \in 1 .. lastSeq   BY <1>a, <3>2
      <4> QED BY <1>0, <1>a, <3>1, <4>1, <4>2
    <3>3. CASE queue' = <<>>   BY <1>0, <1>a, <3>1, <3>3
    <3>4. CASE queue' = queue   BY <1>0, <1>a, <1>b, <3>1, <3>4
    <3> QED BY <3>1, <3>2, <3>3, <3>4
  <2>3. CASE Delivers
    <3>1. PICK n \in 1 .. Len(queue) : claimCache' = Applied(Entry(queue[n])) /\ queue' = SubSeq(queue, n + 1, Len(queue))
      BY Zenon, <2>3 DEF Delivers
    <3>2. queue[n] \in 1 .. lastSeq   BY <1>b
    <3>3. Entry(queue[n]) \in Entries /\ Backed(Entry(queue[n]))   BY Zenon, <1>a, <3>2, EntryIs
    <3>4. claimCache' \in Entries /\ Backed(claimCache') /\ claimCache'.rev >= claimCache.rev
      BY Zenon, <1>0, <1>a, <3>1, <3>3, AppliedIs
    <3>5. queue' \in Seq(Nat) /\ \A i \in DOMAIN queue' : n + i \in DOMAIN queue /\ queue'[i] = queue[n + i]
      BY SMTT(30), <1>b, <3>1
    <3> QED BY Zenon, <1>b, <3>4, <3>5
  <2> QED BY <2>1, <2>2, <2>3
<1>3. /\ msg' \in Message /\ (msg'.at = "apply" => msg'.rev \in 1 .. lastSeq)
      /\ (msg'.at = "admitted" => msg'.rev \in 1 .. lastSeq /\ hist[msg'.rev] = "mine")
  BY Zenon, <1>0, <1>1 DEF ResolverTypes, MessageBacked
<1> QED BY Zenon, <1>1, <1>2, <1>3, ViewMoves

\* The gate: a forced refresh applies an entry it read, and a message is
\* admitted on what the view shows.
LEMMA GateKeeps ==
    ASSUME ViewInv, ProcessingGate PROVE ViewInv' /\ claimCache'.rev >= claimCache.rev
<1>0. ResolverTypes /\ Backed(claimCache) /\ MessageBacked   BY Zenon DEF ViewInv
<1>a. hist \in Seq(Written) /\ lastSeq \in Nat /\ claimCache \in Entries /\ claimCache.rev \in Nat
  BY <1>0 DEF ResolverTypes, lastSeq, Entries
<1>b. queue \in Seq(Nat) /\ \A i \in DOMAIN queue : queue[i] \in 1 .. lastSeq   BY Zenon, <1>0 DEF ViewInv, ResolverTypes
<1>1. UNCHANGED <<hist, scan, queue>>
  BY Zenon DEF ProcessingGate, MessageArrives, ForceRefreshReads, ForceRefreshApplies, DecidesAgain, recon, watching
<1>2. claimCache' \in Entries /\ Backed(claimCache') /\ claimCache'.rev >= claimCache.rev
  <2>1. CASE ForceRefreshApplies
    <3>1. claimCache' = Applied(Entry(msg.rev)) /\ msg.rev \in 1 .. lastSeq   BY Zenon, <1>0, <2>1 DEF ForceRefreshApplies, MessageBacked
    <3>2. Entry(msg.rev) \in Entries /\ Backed(Entry(msg.rev))   BY Zenon, <1>a, <3>1, EntryIs
    <3> QED BY Zenon, <1>0, <1>a, <3>1, <3>2, AppliedIs
  <2>2. CASE ~ForceRefreshApplies
    <3>1. claimCache' = claimCache   BY Zenon, <2>2 DEF ProcessingGate, MessageArrives, ForceRefreshReads, DecidesAgain
    <3> QED BY <1>0, <1>a, <3>1
  <2> QED BY <2>1, <2>2
<1>3. /\ msg' \in Message /\ (msg'.at = "apply" => msg'.rev \in 1 .. lastSeq)
      /\ (msg'.at = "admitted" => msg'.rev \in 1 .. lastSeq /\ hist[msg'.rev] = "mine")
  <2>1. /\ Admission \in Message /\ Admission.at # "apply"
        /\ Admission.at = "admitted" => Admission.rev \in 1 .. lastSeq /\ hist[Admission.rev] = "mine"
    <3>1. CASE Known /\ claimCache.val = "mine"
      <4>1. Admission = [at |-> "admitted", rev |-> claimCache.rev]   BY Zenon, <3>1 DEF Admission
      <4>2. claimCache.rev \in 1 .. lastSeq /\ hist[claimCache.rev] = "mine"   BY <1>0, <1>a, <3>1 DEF Known, Backed
      <4> QED BY <1>a, <4>1, <4>2 DEF Message
    <3>2. CASE ~(Known /\ claimCache.val = "mine")
      <4>1. Admission = [at |-> "nakked", rev |-> 0]   BY Zenon, <3>2 DEF Admission
      <4> QED BY <4>1 DEF Message
    <3> QED BY <3>1, <3>2
  <2>2. \/ msg' = Admission
        \/ msg' = [at |-> "get", rev |-> 0] \/ msg' = [at |-> "again", rev |-> 0]
        \/ Present /\ msg' = [at |-> "apply", rev |-> lastSeq]
    BY Zenon DEF ProcessingGate, MessageArrives, ForceRefreshReads, ForceRefreshApplies, DecidesAgain
  <2>3. CASE Present /\ msg' = [at |-> "apply", rev |-> lastSeq]
    <3>1. lastSeq \in 1 .. lastSeq   BY <1>a, <2>3 DEF Present
    <3> QED BY <1>a, <2>3, <3>1 DEF Message
  <2>4. CASE msg' = [at |-> "get", rev |-> 0] \/ msg' = [at |-> "again", rev |-> 0]   BY <2>4 DEF Message
  <2> QED BY Zenon, <2>1, <2>2, <2>3, <2>4
<1> QED BY Zenon, <1>1, <1>2, <1>3, <1>b, ViewMoves

\* reconcileScan's verdict is an entry of the stream, or a tombstone at a
\* revision the stream has reached.
LEMMA VerdictIs ==
    ASSUME ViewInv, scan.at = "get", NEW readable \in BOOLEAN
    PROVE  Verdict(readable) \in Entries /\ Backed(Verdict(readable))
<1>0. ResolverTypes   BY Zenon DEF ViewInv
<1>a. hist \in Seq(Written) /\ lastSeq \in Nat   BY <1>0 DEF ResolverTypes, lastSeq
<1>b. scan.snap \in Entries /\ scan.listed \in BOOLEAN   BY Zenon, <1>0 DEF ResolverTypes, ScanState
<1>c. scan.snap.rev \in Nat   BY Zenon, <1>b DEF Entries
<1>1. CASE Verdict(readable) = Absent   BY Zenon, <1>a, <1>1, AbsentIs, AbsentBacked
<1>2. CASE Present /\ Verdict(readable) = Entry(lastSeq)
  <2>1. lastSeq \in 1 .. lastSeq   BY <1>a, <1>2 DEF Present
  <2> QED BY Zenon, <1>a, <1>2, <2>1, EntryIs
<1>3. CASE /\ ~scan.listed /\ scan.snap.rev # 0 /\ ~scan.snap.deleted
           /\ Verdict(readable) = [rev |-> scan.snap.rev + 1, val |-> "unknown", deleted |-> TRUE]
  <2>1. scan.snap.rev < lastSeq   BY Zenon, <1>3 DEF ViewInv, GoneIsLater
  <2>2. scan.snap.rev + 1 \in Nat /\ scan.snap.rev + 1 <= lastSeq   BY <1>a, <1>c, <2>1
  <2>3. PICK e : e = [rev |-> scan.snap.rev + 1, val |-> "unknown", deleted |-> TRUE]   BY Zenon
  <2>4. e \in Entries   BY <2>2, <2>3 DEF Entries
  <2>5. e.rev = scan.snap.rev + 1 /\ e.deleted   BY Zenon, <2>3
  <2> QED BY Zenon, <1>3, <2>2, <2>3, <2>4, <2>5 DEF Backed
<1> QED BY <1>1, <1>2, <1>3, <1>b DEF Verdict

\* The pass up to its verdict.
LEMMA ScanPassKeeps == ASSUME ViewInv, Probe \/ Confirm \/ ScanLists \/ ScanGets PROVE ViewInv' /\ claimCache' = claimCache
<1>0. ResolverTypes /\ Backed(claimCache) /\ Backed(scan.snap) /\ Backed(scan.pend) /\ GoneIsLater   BY Zenon DEF ViewInv
<1>a. hist \in Seq(Written) /\ lastSeq \in Nat   BY <1>0 DEF ResolverTypes, lastSeq
<1>b. claimCache \in Entries /\ scan \in ScanState   BY Zenon, <1>0 DEF ResolverTypes
<1>c. scan.snap \in Entries   BY Zenon, <1>b DEF ScanState
<1>1. UNCHANGED <<hist, claimCache, queue, msg>>   BY Zenon DEF Probe, Confirm, ScanLists, ScanGets, watching
<1>2. /\ scan' \in ScanState /\ Backed(scan'.snap) /\ Backed(scan'.pend)
      /\ scan'.at = "get" /\ ~scan'.listed /\ scan'.snap.rev # 0 /\ ~scan'.snap.deleted => scan'.snap.rev < lastSeq
  <2>0. NoScan \in ScanState /\ NoScan.at = "off" /\ Backed(NoScan.snap) /\ Backed(NoScan.pend)
    BY Zenon, <1>a, NoScanIs, AbsentBacked
  <2>1. CASE scan' = NoScan   BY <2>0, <2>1
  <2>2. CASE Probe
    <3>1. PICK p \in {"confirm", "list"} :
            \/ scan' = [NoScan EXCEPT !.at = p, !.pos = lastSeq, !.ok = TRUE, !.snap = claimCache]
            \/ scan' = [NoScan EXCEPT !.at = p, !.snap = claimCache]
      BY Zenon, <2>2 DEF Probe
    <3>2. p \in {"off", "confirm", "list", "get", "apply"} /\ p # "get"   BY <3>1
    <3>3. scan' \in ScanState /\ scan'.at = p /\ scan'.snap = claimCache /\ scan'.pend = NoScan.pend
      BY Zenon, <1>a, <1>b, <2>0, <3>1, <3>2 DEF ScanState
    <3> QED BY Zenon, <1>0, <2>0, <3>2, <3>3
  <2>3. CASE Confirm /\ scan' # NoScan
    <3>1. scan' = [scan EXCEPT !.at = "list", !.pos = lastSeq, !.snap = claimCache]   BY Zenon, <2>3 DEF Confirm
    <3>2. scan' \in ScanState /\ scan'.at = "list" /\ scan'.snap = claimCache /\ scan'.pend = scan.pend
      BY Zenon, <1>a, <1>b, <3>1 DEF ScanState
    <3> QED BY <1>0, <3>2
  <2>4. CASE ScanLists /\ scan' # NoScan
    <3>1. scan' = [scan EXCEPT !.at = "get", !.listed = Present]   BY Zenon, <2>4 DEF ScanLists, ScanEnds
    <3>2. Present \in BOOLEAN   BY Zenon DEF Present
    <3>3. scan' \in ScanState /\ scan'.listed = Present /\ scan'.snap = scan.snap /\ scan'.pend = scan.pend
      BY Zenon, <1>b, <3>1, <3>2 DEF ScanState
    <3>4. ASSUME ~Present, scan.snap.rev # 0, ~scan.snap.deleted PROVE scan.snap.rev < lastSeq
      <4>1. scan.snap.rev \in Nat /\ scan.snap.val \in Value \cup {"unknown"}   BY Zenon, <1>c DEF Entries
      <4>2. scan.snap.rev <= lastSeq /\ scan.snap.val = hist[scan.snap.rev]   BY Zenon, <1>0, <3>4 DEF Backed
      <4>3. CASE scan.snap.rev = lastSeq
        <5>1. hist[lastSeq] = "deleted"   BY Zenon, <3>4, <4>3 DEF Present
        <5> QED BY <4>1, <4>2, <4>3, <5>1 DEF Value
      <4> QED BY <1>a, <4>1, <4>2, <4>3
    <3> QED BY Zenon, <1>0, <3>3, <3>4
  <2>5. CASE ScanGets /\ scan' # NoScan
    <3>1. PICK readable \in BOOLEAN, clean \in BOOLEAN :
            scan.at = "get" /\ scan' = [scan EXCEPT !.at = "apply", !.pend = Verdict(readable), !.clean = clean]
      <4>1. scan.listed \in BOOLEAN   BY Zenon, <1>b DEF ScanState
      <4> QED BY Zenon, <2>5, <4>1 DEF ScanGets, ScanEnds
    <3>2. Verdict(readable) \in Entries /\ Backed(Verdict(readable))   BY Zenon, <3>1, VerdictIs
    <3>3. scan' \in ScanState /\ scan'.at = "apply" /\ scan'.snap = scan.snap /\ scan'.pend = Verdict(readable)
      BY Zenon, <1>b, <3>1, <3>2 DEF ScanState
    <3> QED BY <1>0, <3>2, <3>3
  <2> QED BY Zenon, <2>1, <2>2, <2>3, <2>4, <2>5
<1> QED BY Zenon, <1>1, <1>2, ScanMoves

\* The rescue is applied.
LEMMA RescuesKeeps == ASSUME ViewInv, Rescues PROVE ViewInv' /\ claimCache'.rev >= claimCache.rev
<1>0. ResolverTypes /\ Backed(claimCache) /\ Backed(scan.pend) /\ MessageBacked   BY Zenon DEF ViewInv
<1>a. hist \in Seq(Written) /\ lastSeq' = lastSeq   BY Zenon, <1>0 DEF ResolverTypes, lastSeq, Rescues
<1>b. claimCache \in Entries /\ scan.pend \in Entries   BY Zenon, <1>0 DEF ResolverTypes, ScanState
<1>1. /\ UNCHANGED <<hist, msg>> /\ claimCache' = Applied(scan.pend) /\ scan' = NoScan
      /\ (queue' = queue \/ queue' = <<>>)
  BY Zenon DEF Rescues, ScanEnds
<1>2. claimCache' \in Entries /\ Backed(claimCache') /\ claimCache'.rev >= claimCache.rev
  BY Zenon, <1>0, <1>b, <1>1, AppliedIs
<1>3. queue' \in Seq(Nat) /\ \A i \in DOMAIN queue' : queue'[i] \in 1 .. lastSeq'
  <2>1. queue \in Seq(Nat) /\ \A i \in DOMAIN queue : queue[i] \in 1 .. lastSeq   BY Zenon, <1>0 DEF ViewInv, ResolverTypes
  <2>2. CASE queue' = queue   BY Zenon, <1>a, <2>1, <2>2
  <2>3. CASE queue' = <<>>   BY <2>3
  <2> QED BY <1>1, <2>2, <2>3
<1>4. scan' \in ScanState /\ scan'.at = "off" /\ Backed(scan'.snap) /\ Backed(scan'.pend)
  BY Zenon, <1>1, <1>a, NoScanIs, AbsentBacked
<1>5. Backed(claimCache)' /\ Backed(scan.snap)' /\ Backed(scan.pend)'   BY Zenon, <1>1, <1>a, <1>2, <1>4 DEF Backed
<1>6. GoneIsLater' /\ MessageBacked'
  <2>1. GoneIsLater'   BY <1>4 DEF GoneIsLater
  <2> QED BY Zenon, <1>0, <1>1, <1>a, <2>1 DEF MessageBacked
<1>7. ResolverTypes'   BY Zenon, <1>0, <1>1, <1>2, <1>3, <1>4 DEF ResolverTypes
<1> QED BY Zenon, <1>2, <1>3, <1>5, <1>6, <1>7 DEF ViewInv

\* Every step keeps the invariant and takes the view to no older revision.
LEMMA ViewStep ==
    ViewInv /\ [ResolverNext]_resolverVars => ViewInv' /\ [claimCache'.rev >= claimCache.rev]_resolverVars
<1> SUFFICES ASSUME ViewInv, ResolverNext \/ UNCHANGED resolverVars
             PROVE  ViewInv' /\ (claimCache'.rev >= claimCache.rev \/ UNCHANGED resolverVars)
  BY Zenon
<1>0. claimCache.rev \in Nat   BY Zenon DEF ViewInv, ResolverTypes, Entries
<1>1. CASE BucketChanges
  <2>1. claimCache' = claimCache   BY Zenon, <1>1 DEF BucketChanges
  <2> QED BY <1>0, <1>1, <2>1, BucketChangesKeeps
<1>2. CASE Probe \/ Confirm \/ ScanLists \/ ScanGets
  <2>1. ViewInv' /\ claimCache' = claimCache   BY Zenon, <1>2, ScanPassKeeps
  <2> QED BY <1>0, <2>1
<1>3. CASE UNCHANGED resolverVars
  <2>1. UNCHANGED <<hist, claimCache, queue, scan, msg>>   BY Zenon, <1>3 DEF resolverVars, watching, recon
  <2>2. ViewInv'
    BY Zenon, <2>1 DEF ViewInv, ResolverTypes, GoneIsLater, MessageBacked, Backed, lastSeq
  <2> QED BY Zenon, <1>3, <2>2
<1> QED BY Zenon, <1>1, <1>2, <1>3, WatcherKeeps, RescuesKeeps, GateKeeps DEF ResolverNext, Reconciler

\* The resolver's view is of the claim's stream: reconcileScan's tombstone, whose
\* revision is made up, is never ahead of it, so that no later write is taken
\* for an old one; a message is admitted only on a claim of this worker that was
\* written; and no entry is replaced by an older one (applyPendingBatch,
\* ForceRefreshPartition).
THEOREM ViewNeverAhead ==
    ResolverSpec => [](ViewIsOfStream /\ AdmissionIsEarned) /\ [][claimCache'.rev >= claimCache.rev]_resolverVars
<1>1. ViewInv => ViewIsOfStream /\ AdmissionIsEarned
  BY Zenon DEF ViewInv, ViewIsOfStream, AdmissionIsEarned, Backed, MessageBacked, Known
<1> QED BY <1>1, ViewInit, ViewStep, PTL DEF ResolverSpec

=============================================================================
