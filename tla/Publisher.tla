----------------------------- MODULE Publisher ------------------------------
(***************************************************************************)
(* Publication of assignments: internal/assignment/assignment_publisher.go *)
(* and the payload garbage collector, internal/assignment/commit_gc.go.    *)
(*                                                                         *)
(* Every leadership term has a calculator with a publisher of its own, so  *)
(* a publisher is named by its term, the LeaderRevision it stamps.  A      *)
(* deposed one may still be anywhere inside Publish.  The assignment of a  *)
(* batch is one content-addressed payload; aliases are followed for one    *)
(* worker, which the heartbeat read of a batch takes for legacy or not.    *)
(* A request whose answer is not awaited may land at once, later or never. *)
(***************************************************************************)
EXTENDS Naturals, FiniteSets

CONSTANTS
    Content,   \* what a batch may assign; also the name of its payload key
    MaxTerm,   \* bound: leadership terms
    MaxBatch,  \* bound: calls of Publish
    MaxPay     \* bound: writes of payload keys

ASSUME ContentAssumption == "none" \notin Content
ASSUME MaxTermAssumption == MaxTerm \in Nat
ASSUME MaxBatchAssumption == MaxBatch \in Nat
ASSUME MaxPayAssumption == MaxPay \in Nat

VARIABLES
    lease,   \* the term whose leader key is live, or 0
    terms,   \* terms so far
    com,     \* <prefix>._commit: revision (0 = absent), version, leader revision, content
    alias,   \* the version of the worker's legacy alias (0 = absent)
    pay,     \* content -> its payload key: revision (0 = absent), older than Retention
    pseq,    \* payload writes so far
    wire,    \* commit writes whose caller does not wait any more
    lastCommitRev, currentVersion, commitReseedPending,   \* term -> the publisher's fields
    pc,      \* term -> where its Publish is
    bat,     \* term -> the batch: version, content, payload revision read, alias barrier
    down,    \* terms whose calculator is stopped
    batches, \* calls of Publish so far
    gc       \* the collector: term, keys held live, revisions old at its start, victim

kv == <<com, alias, pay, pseq, wire>>
lead == <<lease, terms>>
pub == <<lastCommitRev, currentVersion, commitReseedPending>>
vars == <<lead, kv, pub, pc, bat, down, batches, gc>>

Term == 1..MaxTerm
NoCommit == [rev |-> 0, ver |-> 0, lr |-> 0, c |-> "none"]
NoBatch == [ver |-> 0, c |-> "none", seen |-> 0, legacy |-> FALSE]
NoGC == [pc |-> "idle", t |-> 0, live |-> {}, old |-> {}, c |-> "none", rev |-> 0]

Init ==
    /\ lease = 0 /\ terms = 0
    /\ com = NoCommit /\ alias = 0
    /\ pay = [c \in Content |-> [rev |-> 0, old |-> FALSE]] /\ pseq = 0
    /\ wire = {}
    /\ lastCommitRev = [t \in Term |-> 0] /\ currentVersion = [t \in Term |-> 0]
    /\ commitReseedPending = [t \in Term |-> FALSE]
    /\ pc = [t \in Term |-> "off"]
    /\ bat = [t \in Term |-> NoBatch]
    /\ down = {} /\ batches = 0
    /\ gc = NoGC

-----------------------------------------------------------------------------
(* Leadership (module Election) and the life of a publisher *)

\* A new term begins and its calculator is started.
Elected ==
    /\ terms < MaxTerm /\ terms' = terms + 1
    /\ lease' = terms + 1
    /\ pc' = [pc EXCEPT ![terms + 1] = "boot"]
    /\ UNCHANGED <<kv, pub, bat, down, batches, gc>>

\* The lease ends; the manager may find out much later, or not at all.
LeaseEnds ==
    /\ lease # 0 /\ lease' = 0
    /\ UNCHANGED <<terms, kv, pub, pc, bat, down, batches, gc>>

\* Calculator.Stop closes stopCh.
StopCalculator(t) ==
    /\ pc[t] # "off" /\ t \notin down
    /\ down' = down \cup {t}
    /\ UNCHANGED <<lead, kv, pub, pc, bat, batches, gc>>

Higher(a, b) == IF a > b THEN a ELSE b

\* Wrong variant: the revision is taken without the version.
SeedRevisionOnly(t) ==
    /\ lastCommitRev' = [lastCommitRev EXCEPT ![t] = Higher(@, com.rev)]
    /\ UNCHANGED currentVersion

\* Revision and version of the live commit, each taken if it is higher.
Seed(t) ==
    /\ lastCommitRev' = [lastCommitRev EXCEPT ![t] = Higher(@, com.rev)]
    /\ currentVersion' = [currentVersion EXCEPT ![t] = Higher(@, com.ver)]

\* reseedFromLiveCommitLocked: the whole view, and the latch is cleared.
SeedAndClear(t) == Seed(t) /\ commitReseedPending' = [commitReseedPending EXCEPT ![t] = FALSE]

\* DiscoverHighestVersion: the live commit, or the aliases if there is none
\* to be read; or nothing at all.
DiscoverHighestVersion(t) ==
    /\ pc[t] = "boot"
    /\ pc' = [pc EXCEPT ![t] = "idle"]
    /\ \/ com.rev # 0 /\ Seed(t)
       \/ currentVersion' = [currentVersion EXCEPT ![t] = Higher(@, alias)] /\ UNCHANGED lastCommitRev
       \/ UNCHANGED <<lastCommitRev, currentVersion>>
    /\ UNCHANGED <<lead, kv, commitReseedPending, bat, down, batches, gc>>

\* BootstrapLastCommit, once the first publication is over.
BootstrapLastCommit(t) ==
    /\ pc[t] = "idle" /\ com.rev # 0 /\ t \notin down
    /\ Seed(t)
    /\ UNCHANGED <<lead, kv, commitReseedPending, pc, bat, down, batches, gc>>

-----------------------------------------------------------------------------
(* Publish *)

Abort(t) == pc' = [pc EXCEPT ![t] = "idle"] /\ bat' = [bat EXCEPT ![t] = NoBatch]

\* Publish up to the proposed version.  With a reseed pending it goes on only
\* if the live commit can be read now.
Publish(t) ==
    /\ pc[t] = "idle" /\ t \notin down
    /\ batches < MaxBatch /\ batches' = batches + 1
    /\ \/ /\ IF commitReseedPending[t] THEN SeedAndClear(t) ELSE UNCHANGED pub
          /\ \E c \in Content :
                bat' = [bat EXCEPT ![t] = [ver |-> currentVersion'[t] + 1, c |-> c,
                                           seen |-> 0, legacy |-> FALSE]]
          /\ pc' = [pc EXCEPT ![t] = "payload"]
       \/ commitReseedPending[t] /\ UNCHANGED <<pub, bat, pc>>
    /\ UNCHANGED <<lead, kv, down, gc>>

WritePayload(c) ==
    /\ pseq < MaxPay /\ pseq' = pseq + 1
    /\ pay' = [pay EXCEPT ![c] = [rev |-> pseq + 1, old |-> FALSE]]

\* createOrAdoptPayload: Create, or the Get of what is already there.  A call
\* that fails may have written the key all the same.
CreatePayload(t) ==
    /\ pc[t] = "payload"
    /\ LET c == bat[t].c IN
       \/ pay[c].rev = 0 /\ WritePayload(c) /\ pc' = [pc EXCEPT ![t] = "fence"] /\ UNCHANGED bat
       \/ /\ pay[c].rev # 0
          /\ bat' = [bat EXCEPT ![t].seen = pay[c].rev]
          /\ pc' = [pc EXCEPT ![t] = "adopt"]
          /\ UNCHANGED <<pay, pseq>>
       \/ Abort(t) /\ UNCHANGED <<pay, pseq>>
       \/ Abort(t) /\ pay[c].rev = 0 /\ WritePayload(c)
    /\ UNCHANGED <<lead, com, alias, wire, pub, down, batches, gc>>

\* Wrong variant: the existing key is taken as it is.
AdoptUntouched(t) ==
    /\ pc[t] = "adopt"
    /\ pc' = [pc EXCEPT ![t] = "fence"]
    /\ UNCHANGED <<lead, kv, pub, bat, down, batches, gc>>

\* Its touch: the same bytes at the revision read; a conflict starts again.
AdoptPayload(t) ==
    /\ pc[t] = "adopt"
    /\ LET c == bat[t].c IN
       \/ /\ pay[c].rev = bat[t].seen
          /\ WritePayload(c)
          /\ pc' = [pc EXCEPT ![t] = "fence"] /\ UNCHANGED bat
       \/ /\ pay[c].rev # bat[t].seen
          /\ pc' = [pc EXCEPT ![t] = "payload"] /\ UNCHANGED <<pay, pseq, bat>>
       \/ Abort(t) /\ UNCHANGED <<pay, pseq>>
       \/ Abort(t) /\ pay[c].rev = bat[t].seen /\ WritePayload(c)
    /\ UNCHANGED <<lead, com, alias, wire, pub, down, batches, gc>>

\* Wrong variant: the revision compare-and-set alone has to fence.
CheckLeadershipNever(t, from, to) ==
    /\ pc[t] = from
    /\ pc' = [pc EXCEPT ![t] = to]
    /\ \E l \in BOOLEAN : bat' = [bat EXCEPT ![t].legacy = IF from = "fence" THEN l ELSE @]
    /\ UNCHANGED <<lead, kv, pub, down, batches, gc>>

\* checkLeadership, before and after the alias barrier; the first is followed
\* by classifyLegacyWorkers.
CheckLeadership(t, from, to) ==
    /\ pc[t] = from
    /\ IF lease = t
       THEN /\ pc' = [pc EXCEPT ![t] = to]
            /\ \E l \in BOOLEAN : bat' = [bat EXCEPT ![t].legacy = IF from = "fence" THEN l ELSE @]
       ELSE Abort(t)
    /\ UNCHANGED <<lead, kv, pub, down, batches, gc>>

\* runAliasBarrier: the alias of a legacy worker is written at the proposed
\* version, or the batch fails (its last attempt may have landed).
RunAliasBarrier(t) ==
    /\ pc[t] = "alias"
    /\ \/ ~bat[t].legacy /\ pc' = [pc EXCEPT ![t] = "recheck"] /\ UNCHANGED <<alias, bat>>
       \/ bat[t].legacy /\ alias' = bat[t].ver /\ pc' = [pc EXCEPT ![t] = "recheck"] /\ UNCHANGED bat
       \/ bat[t].legacy /\ alias' \in {alias, bat[t].ver} /\ Abort(t)
    /\ UNCHANGED <<lead, com, pay, pseq, wire, pub, down, batches, gc>>

Write(t) == [exp |-> lastCommitRev[t], ver |-> bat[t].ver, lr |-> t, c |-> bat[t].c]

\* external: the server accepts a write at the live revision (Create at 0).
Land(w) ==
    /\ com.rev = w.exp
    /\ com' = [rev |-> com.rev + 1, ver |-> w.ver, lr |-> w.lr, c |-> w.c]

\* casWriteCommitLocked succeeds: the commit point.
CommitWins(t) ==
    /\ pc[t] = "commit" /\ t \notin down
    /\ Land(Write(t))
    /\ lastCommitRev' = [lastCommitRev EXCEPT ![t] = com.rev + 1]
    /\ currentVersion' = [currentVersion EXCEPT ![t] = bat[t].ver]
    /\ pc' = [pc EXCEPT ![t] = "after"]
    /\ UNCHANGED <<lead, alias, pay, pseq, wire, commitReseedPending, bat, down, batches, gc>>

\* It conflicts: surrenderCommitCASLocked latches the reseed.
CommitLoses(t) ==
    /\ pc[t] = "commit" /\ t \notin down
    /\ com.rev # lastCommitRev[t]
    /\ commitReseedPending' = [commitReseedPending EXCEPT ![t] = TRUE]
    /\ pc' = [pc EXCEPT ![t] = "reseed"]
    /\ UNCHANGED <<lead, kv, lastCommitRev, currentVersion, bat, down, batches, gc>>

\* Any other error, whatever became of the request; or the shutdown gate.
CommitFails(t) ==
    /\ pc[t] = "commit"
    /\ \/ UNCHANGED <<com, wire>>
       \/ t \notin down /\ Land(Write(t)) /\ UNCHANGED wire
       \/ t \notin down /\ wire' = wire \cup {Write(t)} /\ UNCHANGED com
    /\ Abort(t)
    /\ UNCHANGED <<lead, alias, pay, pseq, pub, down, batches, gc>>

\* external: an abandoned commit write arrives, or is lost.
Arrives(w) ==
    /\ wire' = wire \ {w}
    /\ Land(w) \/ UNCHANGED com
    /\ UNCHANGED <<lead, alias, pay, pseq, pub, pc, bat, down, batches, gc>>

\* reseedAfterCommitCASLossLocked: the whole view, or nothing.
Reseed(t) ==
    /\ pc[t] = "reseed"
    /\ SeedAndClear(t) \/ UNCHANGED pub
    /\ Abort(t)
    /\ UNCHANGED <<lead, kv, down, batches, gc>>

\* The rest of Publish: the compat alias of a worker that is not legacy, the
\* sweep of a removed worker's alias; each may fail, and both are unfenced.
AfterCommit(t) ==
    /\ pc[t] = "after"
    /\ \/ ~bat[t].legacy /\ alias' = bat[t].ver
       \/ ~bat[t].legacy /\ alias' = 0
       \/ UNCHANGED alias
    /\ Abort(t)
    /\ UNCHANGED <<lead, com, pay, pseq, wire, pub, down, batches, gc>>

-----------------------------------------------------------------------------
(* CommitGC.RunOnce *)

\* Keys the publisher of the same process holds in inflightRefs.
LiveRefs(t) == {bat[s].c : s \in {t} \cap {u \in Term : pc[u] \in {"fence", "alias", "recheck", "commit", "reseed", "after"}}}

\* computeLiveSet, then LiveRefs, the key listing and the clock.  The commit
\* log, which only protects further keys, is taken to be empty.
GCScans(t) ==
    /\ gc.pc = "idle" /\ pc[t] # "off" /\ t \notin down
    /\ gc' = [NoGC EXCEPT !.pc = "scan", !.t = t,
                          !.live = ({com.c} \ {"none"}) \cup LiveRefs(t),
                          !.old = {pay[c].rev : c \in {d \in Content : pay[d].old}}]
    /\ UNCHANGED <<lead, kv, pub, pc, bat, down, batches>>

\* The age gate on one key: its entry must be old by the clock of the scan.
GCPicks(c) ==
    /\ gc.pc = "scan" /\ c \notin gc.live
    /\ pay[c].rev # 0 /\ pay[c].rev \in gc.old
    /\ c \notin LiveRefs(gc.t)
    /\ gc' = [gc EXCEPT !.pc = "delete", !.c = c, !.rev = pay[c].rev]
    /\ UNCHANGED <<lead, kv, pub, pc, bat, down, batches>>

\* Wrong variant: the delete is not conditioned on the revision.
GCDeletesAnyRevision ==
    /\ gc.pc = "delete"
    /\ pay' = [pay EXCEPT ![gc.c] = [rev |-> 0, old |-> FALSE]]
    /\ gc' = [gc EXCEPT !.pc = "scan", !.c = "none", !.rev = 0]
    /\ UNCHANGED <<lead, com, alias, pseq, wire, pub, pc, bat, down, batches>>

\* The conditioned delete, which fails if the revision has moved.
GCDeletes ==
    /\ gc.pc = "delete"
    /\ pay' = IF pay[gc.c].rev = gc.rev THEN [pay EXCEPT ![gc.c] = [rev |-> 0, old |-> FALSE]] ELSE pay
    /\ gc' = [gc EXCEPT !.pc = "scan", !.c = "none", !.rev = 0]
    /\ UNCHANGED <<lead, com, alias, pseq, wire, pub, pc, bat, down, batches>>

GCEnds ==
    /\ gc.pc = "scan" /\ gc' = NoGC
    /\ UNCHANGED <<lead, kv, pub, pc, bat, down, batches>>

\* external: a payload becomes older than Retention.  The retention lease: a
\* publish is over, its commit landed or lost, before its payload is old.
Ages(c) ==
    /\ pay[c].rev # 0 /\ ~pay[c].old
    /\ \A t \in Term : bat[t].c = c => pc[t] \in {"payload", "adopt"}
    /\ \A w \in wire : w.c # c
    /\ pay' = [pay EXCEPT ![c].old = TRUE]
    /\ UNCHANGED <<lead, com, alias, pseq, wire, pub, pc, bat, down, batches, gc>>

-----------------------------------------------------------------------------
Next ==
    \/ Elected \/ LeaseEnds
    \/ \E t \in Term :
          \/ StopCalculator(t) \/ DiscoverHighestVersion(t) \/ BootstrapLastCommit(t)
          \/ Publish(t) \/ CreatePayload(t) \/ AdoptPayload(t)
          \/ CheckLeadership(t, "fence", "alias") \/ RunAliasBarrier(t)
          \/ CheckLeadership(t, "recheck", "commit")
          \/ CommitWins(t) \/ CommitLoses(t) \/ CommitFails(t) \/ Reseed(t) \/ AfterCommit(t)
          \/ GCScans(t)
    \/ \E w \in wire : Arrives(w)
    \/ \E c \in Content : GCPicks(c) \/ Ages(c)
    \/ GCDeletes \/ GCEnds

Spec == Init /\ [][Next]_vars

-----------------------------------------------------------------------------
(* Properties *)

\* Every variable stays in its type, and no publisher is ahead of the key:
\* lastCommitRev is a revision that the commit key has had.
TypeOK ==
    /\ lease \in 0..MaxTerm /\ terms \in 0..MaxTerm
    /\ com \in [rev : Nat, ver : Nat, lr : 0..MaxTerm, c : Content \cup {"none"}]
    /\ alias \in Nat
    /\ pay \in [Content -> [rev : Nat, old : BOOLEAN]]
    /\ pseq \in 0..MaxPay /\ \A c \in Content : pay[c].rev <= pseq
    /\ wire \subseteq [exp : Nat, ver : Nat, lr : Term, c : Content]
    /\ lastCommitRev \in [Term -> Nat] /\ \A t \in Term : lastCommitRev[t] <= com.rev
    /\ currentVersion \in [Term -> Nat] /\ commitReseedPending \in [Term -> BOOLEAN]
    /\ pc \in [Term -> {"off", "boot", "idle", "payload", "adopt", "fence", "alias",
                        "recheck", "commit", "reseed", "after"}]
    /\ bat \in [Term -> [ver : Nat, c : Content \cup {"none"}, seen : Nat, legacy : BOOLEAN]]
    /\ \A t \in Term : pc[t] \notin {"off", "boot", "idle"} => bat[t].c \in Content
    /\ down \subseteq Term /\ batches \in 0..MaxBatch
    /\ gc \in [pc : {"idle", "scan", "delete"}, t : 0..MaxTerm, live : SUBSET Content,
               old : SUBSET Nat, c : Content \cup {"none"}, rev : Nat]

\* The commits of all leaders form one chain: assignment_publisher.go relies
\* on it wherever it says that workers drop an equal version.
Chain == INSTANCE CommitChain WITH com <- com
CommitsFormChain == Chain!Spec

\* commit_gc.go "Live keys are never deleted", "safe to call concurrently with
\* Publisher.Publish, including across processes": the payload of the live
\* commit exists, however a collection overlaps with adoption and take-over.
CommittedPayloadExists == com.rev # 0 => pay[com.c].rev # 0

-----------------------------------------------------------------------------
(* The inductive strengthening of the two, proved in Publisher_proof *)

Writing == {"payload", "adopt", "fence", "alias", "recheck", "commit"}

\* A commit write that would be accepted now carries on the chain: a view at
\* the live revision has the live version, and the leader who sends it was
\* the last one when it was checked.
ChainInv ==
    /\ lease \in {0, terms} /\ com.lr <= terms
    /\ \A t \in Term :
          /\ lastCommitRev[t] = com.rev => currentVersion[t] >= com.ver
          /\ pc[t] # "off" => t <= terms
          /\ pc[t] \in Writing => bat[t].ver = currentVersion[t] + 1
          /\ pc[t] = "commit" /\ lastCommitRev[t] = com.rev => com.lr <= t
    /\ \A w \in wire :
          /\ w.exp <= com.rev /\ w.lr <= terms
          /\ w.exp = com.rev => w.ver > com.ver /\ com.lr <= w.lr

\* A payload out of the collector's reach: protected, or written after the
\* scan; and one that no scan will find old while it is needed.
Safe(c) == pay[c].rev # 0 /\ (c \in gc.live \/ pay[c].rev \notin gc.old)
Held(c) == pay[c].rev # 0 /\ ~pay[c].old /\ pay[c].rev \notin gc.old

Holding == {"fence", "alias", "recheck", "commit"}

PayloadInv ==
    /\ gc.old \subseteq 0..pseq
    /\ gc.pc = "delete" => gc.c \in Content \ gc.live /\ gc.rev \in gc.old
    /\ \A c, d \in Content : pay[c].rev # 0 /\ pay[c].rev = pay[d].rev => c = d
    /\ \A t \in Term : pc[t] \in Holding => Held(bat[t].c)
    /\ \A w \in wire : Held(w.c)
    /\ com.rev # 0 => com.c \in Content /\ Safe(com.c)
=============================================================================
