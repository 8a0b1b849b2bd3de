-------------------------- MODULE Publisher_proof ---------------------------
(***************************************************************************)
(* Proofs about Publisher, for every number of terms, batches, contents    *)
(* and payload writes: type correctness, the chain of the commits (the     *)
(* publishers implement CommitChain), and that the payload of the live     *)
(* commit exists.                                                          *)
(***************************************************************************)
EXTENDS Publisher, TLAPS

-----------------------------------------------------------------------------
(* TypeOK by groups of variables *)

PC == {"off", "boot", "idle", "payload", "adopt", "fence", "alias",
       "recheck", "commit", "reseed", "after"}
Batch == [ver : Nat, c : Content \cup {"none"}, seen : Nat, legacy : BOOLEAN]
Pass == [pc : {"idle", "scan", "delete"}, t : 0..MaxTerm, live : SUBSET Content,
         old : SUBSET Nat, c : Content \cup {"none"}, rev : Nat]

TypeLead ==
    /\ lease \in 0..MaxTerm /\ terms \in 0..MaxTerm
    /\ down \subseteq Term /\ batches \in 0..MaxBatch
TypeCom ==
    /\ com \in [rev : Nat, ver : Nat, lr : 0..MaxTerm, c : Content \cup {"none"}]
    /\ wire \subseteq [exp : Nat, ver : Nat, lr : Term, c : Content]
TypePay ==
    /\ alias \in Nat /\ pay \in [Content -> [rev : Nat, old : BOOLEAN]]
    /\ pseq \in 0..MaxPay /\ \A c \in Content : pay[c].rev <= pseq
TypePub ==
    /\ lastCommitRev \in [Term -> Nat] /\ \A t \in Term : lastCommitRev[t] <= com.rev
    /\ currentVersion \in [Term -> Nat] /\ commitReseedPending \in [Term -> BOOLEAN]
TypeBat ==
    /\ pc \in [Term -> PC] /\ bat \in [Term -> Batch]
    /\ \A t \in Term : pc[t] \notin {"off", "boot", "idle"} => bat[t].c \in Content
TypeGC == gc \in Pass

\* TypeOK is the conjunction of its groups.
LEMMA Groups == TypeOK <=> TypeLead /\ TypeCom /\ TypePay /\ TypePub /\ TypeBat /\ TypeGC
  BY Zenon DEF TypeOK, TypeLead, TypeCom, TypePay, TypePub, TypeBat, TypeGC, PC, Batch, Pass

\* The same after a step.
LEMMA GroupsNext == TypeLead' /\ TypeCom' /\ TypePay' /\ TypePub' /\ TypeBat' /\ TypeGC' => TypeOK'
  BY Zenon DEF TypeOK, TypeLead, TypeCom, TypePay, TypePub, TypeBat, TypeGC, PC, Batch, Pass

\* Higher is the larger of two revisions or versions.
LEMMA HigherFact ==
    ASSUME NEW a \in Nat, NEW b \in Nat
    PROVE  /\ Higher(a, b) \in Nat /\ Higher(a, b) >= a /\ Higher(a, b) >= b
           /\ a <= b => Higher(a, b) = b
  BY DEF Higher

\* A batch of a publisher is replaced: abort, or any step of Publish.
LEMMA BatchSet ==
    ASSUME TypeBat, NEW t \in Term, NEW p \in PC, NEW b \in Batch,
           p \notin {"off", "boot", "idle"} => b.c \in Content,
           pc' = [pc EXCEPT ![t] = p], bat' = [bat EXCEPT ![t] = b]
    PROVE  TypeBat'
  <1>1. pc' \in [Term -> PC] /\ bat' \in [Term -> Batch]
    BY Zenon DEF TypeBat
  <1>2. ASSUME NEW s \in Term, pc'[s] \notin {"off", "boot", "idle"} PROVE bat'[s].c \in Content
    BY Zenon, <1>2 DEF TypeBat
  <1> QED BY Zenon, <1>1, <1>2 DEF TypeBat

\* The empty batch is a batch.
LEMMA NoBatchType == NoBatch \in Batch
  BY Zenon DEF NoBatch, Batch

\* A Publish that returns early leaves a well-typed publisher.
LEMMA AbortType == ASSUME TypeBat, NEW t \in Term, Abort(t) PROVE TypeBat'
  BY ZenonT(30), BatchSet, NoBatchType DEF Abort, PC

\* The place in Publish moves on and the batch keeps its content.
LEMMA PlaceSet ==
    ASSUME TypeBat, NEW t \in Term, NEW p \in PC, pc' = [pc EXCEPT ![t] = p], UNCHANGED bat,
           p \notin {"off", "boot", "idle"} => pc[t] \notin {"off", "boot", "idle"} \/ bat[t].c \in Content
    PROVE  TypeBat'
  <1>1. pc' \in [Term -> PC] /\ bat' \in [Term -> Batch]
    BY Zenon DEF TypeBat
  <1>2. ASSUME NEW s \in Term, pc'[s] \notin {"off", "boot", "idle"} PROVE bat'[s].c \in Content
    BY Zenon, <1>2 DEF TypeBat
  <1> QED BY Zenon, <1>1, <1>2 DEF TypeBat

\* Seed makes a view of the live commit.
LEMMA SeedFact ==
    ASSUME TypeCom, TypePub, NEW t \in Term, Seed(t)
    PROVE  /\ lastCommitRev' = [lastCommitRev EXCEPT ![t] = com.rev]
           /\ currentVersion' \in [Term -> Nat]
           /\ currentVersion'[t] >= com.ver
           /\ \A s \in Term \ {t} : currentVersion'[s] = currentVersion[s]
  <1>1. com.rev \in Nat /\ com.ver \in Nat
    BY Zenon DEF TypeCom
  <1>2. Higher(lastCommitRev[t], com.rev) = com.rev
    BY ZenonT(30), <1>1, HigherFact DEF TypePub
  <1>3. Higher(currentVersion[t], com.ver) \in Nat /\ Higher(currentVersion[t], com.ver) >= com.ver
    BY ZenonT(30), <1>1, HigherFact DEF TypePub
  <1> QED BY Zenon, <1>2, <1>3 DEF Seed, TypePub

\* Seed keeps the publisher's fields in their types.
LEMMA SeedType ==
    ASSUME TypeCom, TypePub, NEW t \in Term, Seed(t), UNCHANGED com,
           commitReseedPending' \in [Term -> BOOLEAN]
    PROVE  TypePub'
  <1>1. com.rev \in Nat
    BY Zenon DEF TypeCom
  <1> QED BY <1>1, SeedFact DEF TypePub

\* A payload key is written.
LEMMA WritePayloadType ==
    ASSUME TypePay, NEW c \in Content, WritePayload(c), UNCHANGED alias
    PROVE  TypePay'
  <1>1. pseq' \in 0..MaxPay /\ pseq' = pseq + 1 /\ pseq \in Nat
    BY MaxPayAssumption DEF TypePay, WritePayload
  <1>2. pay' \in [Content -> [rev : Nat, old : BOOLEAN]]
    BY <1>1 DEF TypePay, WritePayload
  <1>3. \A d \in Content : pay'[d].rev <= pseq'
    BY <1>1 DEF TypePay, WritePayload
  <1> QED BY Zenon, <1>1, <1>2, <1>3 DEF TypePay

\* The write of a publisher is a request of the commit key's type.
LEMMA WriteType ==
    ASSUME TypeBat, TypePub, NEW t \in Term, pc[t] = "commit"
    PROVE  Write(t) \in [exp : Nat, ver : Nat, lr : Term, c : Content]
  <1>1. bat[t].ver \in Nat /\ bat[t].c \in Content /\ lastCommitRev[t] \in Nat
    BY Zenon DEF TypeBat, TypePub, Batch
  <1> QED BY Zenon, <1>1 DEF Write

\* A write that lands keeps the type of the commit key and of every view.
LEMMA LandType ==
    ASSUME TypeCom, TypePub, NEW w \in [exp : Nat, ver : Nat, lr : Term, c : Content],
           Land(w)
    PROVE  /\ com' \in [rev : Nat, ver : Nat, lr : 0..MaxTerm, c : Content \cup {"none"}]
           /\ com'.rev = com.rev + 1 /\ com'.ver = w.ver /\ com'.lr = w.lr /\ com'.c = w.c
           /\ \A t \in Term : lastCommitRev[t] <= com'.rev /\ lastCommitRev[t] # com'.rev
  <1>1. com.rev \in Nat /\ \A t \in Term : lastCommitRev[t] \in Nat /\ lastCommitRev[t] <= com.rev
    BY Zenon DEF TypeCom, TypePub
  <1>2. w.ver \in Nat /\ w.lr \in 0..MaxTerm /\ w.c \in Content
    BY MaxTermAssumption DEF Term
  <1> QED BY <1>1, <1>2 DEF Land

-----------------------------------------------------------------------------
(* Type correctness *)

\* The initial state is well typed.
LEMMA TypeInit == Init => TypeOK
  BY MaxTermAssumption, MaxBatchAssumption, MaxPayAssumption
  DEF Init, TypeOK, NoCommit, NoBatch, NoGC, Term

\* Elected keeps every variable in its type.
LEMMA TypeElected ==
    ASSUME TypeOK, Elected
    PROVE  TypeOK'
  <1>0. TypeLead /\ TypeCom /\ TypePay /\ TypePub /\ TypeBat /\ TypeGC
    BY Zenon, Groups
  <1>1. TypeCom' /\ TypePay' /\ TypePub' /\ TypeGC'
    BY Zenon, <1>0 DEF Elected, lead, kv, pub, TypeCom, TypePay, TypePub, TypeGC
  <1>2. TypeLead'
    BY <1>0, MaxTermAssumption DEF TypeLead, Elected
  <1>3. TypeBat'
    <2>1. terms + 1 \in Term
      BY <1>0, MaxTermAssumption DEF Elected, TypeLead, Term
    <2> QED BY Zenon, <1>0, <2>1 DEF Elected, TypeBat, PC
  <1> QED BY Zenon, <1>1, <1>2, <1>3, GroupsNext

\* LeaseEnds keeps every variable in its type.
LEMMA TypeLeaseEnds ==
    ASSUME TypeOK, LeaseEnds
    PROVE  TypeOK'
  <1>0. TypeLead /\ TypeCom /\ TypePay /\ TypePub /\ TypeBat /\ TypeGC
    BY Zenon, Groups
  <1>1. TypeCom' /\ TypePay' /\ TypePub' /\ TypeBat' /\ TypeGC'
    BY Zenon, <1>0 DEF LeaseEnds, lead, kv, pub, TypeCom, TypePay, TypePub, TypeBat, TypeGC
  <1>2. TypeLead'
    BY <1>0, MaxTermAssumption DEF TypeLead, LeaseEnds
  <1> QED BY Zenon, <1>1, <1>2, GroupsNext

\* StopCalculator keeps every variable in its type.
LEMMA TypeStopCalculator ==
    ASSUME TypeOK, NEW t \in Term, StopCalculator(t)
    PROVE  TypeOK'
  <1>0. TypeLead /\ TypeCom /\ TypePay /\ TypePub /\ TypeBat /\ TypeGC
    BY Zenon, Groups
  <1>1. TypeCom' /\ TypePay' /\ TypePub' /\ TypeBat' /\ TypeGC'
    BY Zenon, <1>0 DEF StopCalculator, lead, kv, pub, TypeCom, TypePay, TypePub, TypeBat, TypeGC
  <1>2. TypeLead'
    BY Zenon, <1>0 DEF TypeLead, StopCalculator, lead
  <1> QED BY Zenon, <1>1, <1>2, GroupsNext

\* Discover keeps every variable in its type.
LEMMA TypeDiscover ==
    ASSUME TypeOK, NEW t \in Term, DiscoverHighestVersion(t)
    PROVE  TypeOK'
  <1>0. TypeLead /\ TypeCom /\ TypePay /\ TypePub /\ TypeBat /\ TypeGC
    BY Zenon, Groups
  <1>1. TypeLead' /\ TypeCom' /\ TypePay' /\ TypeGC'
    BY Zenon, <1>0 DEF DiscoverHighestVersion, lead, kv, pub, TypeLead, TypeCom, TypePay, TypeGC
  <1>2. TypePub'
    <2>1. UNCHANGED <<com, commitReseedPending>>
      BY Zenon DEF DiscoverHighestVersion, kv
    <2>2. CASE Seed(t)
      BY Zenon, <1>0, <2>1, <2>2, SeedType DEF TypePub
    <2>3. CASE currentVersion' = [currentVersion EXCEPT ![t] = Higher(@, alias)] /\ UNCHANGED lastCommitRev
      <3>1. Higher(currentVersion[t], alias) \in Nat
        BY ZenonT(30), <1>0, HigherFact DEF TypePub, TypePay
      <3> QED BY Zenon, <1>0, <2>1, <2>3, <3>1 DEF TypePub
    <2>4. CASE UNCHANGED <<lastCommitRev, currentVersion>>
      BY Zenon, <1>0, <2>1, <2>4 DEF TypePub
    <2> QED BY Zenon, <2>2, <2>3, <2>4 DEF DiscoverHighestVersion
  <1>3. TypeBat'
    BY ZenonT(30), <1>0, PlaceSet DEF DiscoverHighestVersion, PC
  <1> QED BY Zenon, <1>1, <1>2, <1>3, GroupsNext

\* Bootstrap keeps every variable in its type.
LEMMA TypeBootstrap ==
    ASSUME TypeOK, NEW t \in Term, BootstrapLastCommit(t)
    PROVE  TypeOK'
  <1>0. TypeLead /\ TypeCom /\ TypePay /\ TypePub /\ TypeBat /\ TypeGC
    BY Zenon, Groups
  <1>1. TypeLead' /\ TypeCom' /\ TypePay' /\ TypeBat' /\ TypeGC'
    BY Zenon, <1>0 DEF BootstrapLastCommit, lead, kv, pub, TypeLead, TypeCom, TypePay, TypeBat, TypeGC
  <1>2. TypePub'
    BY Zenon, <1>0, SeedType DEF BootstrapLastCommit, kv, TypePub
  <1> QED BY Zenon, <1>1, <1>2, GroupsNext

\* Publish keeps every variable in its type.
LEMMA TypePublish ==
    ASSUME TypeOK, NEW t \in Term, Publish(t)
    PROVE  TypeOK'
  <1>0. TypeLead /\ TypeCom /\ TypePay /\ TypePub /\ TypeBat /\ TypeGC
    BY Zenon, Groups
  <1>1. TypeCom' /\ TypePay' /\ TypeGC'
    BY Zenon, <1>0 DEF Publish, lead, kv, pub, TypeCom, TypePay, TypeGC
  <1>2. TypeLead'
    BY SMTT(30), <1>0, MaxBatchAssumption DEF TypeLead, Publish, lead
  <1>3. TypePub'
    <2>1. UNCHANGED com
      BY Zenon DEF Publish, kv
    <2>2. CASE SeedAndClear(t)
      <3>1. Seed(t) /\ commitReseedPending' \in [Term -> BOOLEAN]
        BY Zenon, <1>0, <2>2 DEF SeedAndClear, TypePub
      <3> QED BY Zenon, <1>0, <2>1, <3>1, SeedType
    <2>3. CASE UNCHANGED pub
      BY Zenon, <1>0, <2>1, <2>3 DEF TypePub, pub
    <2> QED BY Zenon, <2>2, <2>3 DEF Publish
  <1>4. TypeBat'
    <2>1. CASE UNCHANGED <<pc, bat>>
      BY Zenon, <1>0, <2>1 DEF TypeBat
    <2>2. CASE /\ pc' = [pc EXCEPT ![t] = "payload"]
               /\ \E c \in Content : bat' = [bat EXCEPT ![t] = [ver |-> currentVersion'[t] + 1, c |-> c,
                                                              seen |-> 0, legacy |-> FALSE]]
      <3>1. PICK c \in Content : bat' = [bat EXCEPT ![t] = [ver |-> currentVersion'[t] + 1, c |-> c,
                                                          seen |-> 0, legacy |-> FALSE]]
        BY ZenonT(30), <2>2
      <3>2. [ver |-> currentVersion'[t] + 1, c |-> c, seen |-> 0, legacy |-> FALSE] \in Batch
        BY <1>3 DEF TypePub, Batch
      <3> QED BY ZenonT(30), <1>0, <2>2, <3>1, <3>2, BatchSet DEF PC
    <2> QED BY Zenon, <2>1, <2>2 DEF Publish, pub
  <1> QED BY Zenon, <1>1, <1>2, <1>3, <1>4, GroupsNext

\* CreatePayload keeps every variable in its type.
LEMMA TypeCreatePayload ==
    ASSUME TypeOK, NEW t \in Term, CreatePayload(t)
    PROVE  TypeOK'
  <1>0. TypeLead /\ TypeCom /\ TypePay /\ TypePub /\ TypeBat /\ TypeGC
    BY Zenon, Groups
  <1>1. TypeLead' /\ TypeCom' /\ TypePub' /\ TypeGC'
    BY Zenon, <1>0 DEF CreatePayload, lead, kv, pub, TypeLead, TypeCom, TypePub, TypeGC
  <1>2. TypePay'
    <2>1. bat[t].c \in Content /\ UNCHANGED alias
      BY Zenon, <1>0 DEF TypeBat, CreatePayload
    <2>2. CASE WritePayload(bat[t].c)
      BY Zenon, <1>0, <2>1, <2>2, WritePayloadType
    <2>3. CASE UNCHANGED <<pay, pseq>>
      BY Zenon, <1>0, <2>1, <2>3 DEF TypePay
    <2> QED BY Zenon, <2>2, <2>3 DEF CreatePayload
  <1>3. TypeBat'
    <2>1. CASE Abort(t)
      BY Zenon, <1>0, <2>1, AbortType
    <2>2. CASE pc' = [pc EXCEPT ![t] = "fence"] /\ UNCHANGED bat
      BY ZenonT(30), <1>0, <2>2, PlaceSet DEF CreatePayload, PC
    <2>3. CASE pc' = [pc EXCEPT ![t] = "adopt"] /\ bat' = [bat EXCEPT ![t].seen = pay[bat[t].c].rev]
      <3>1. bat[t] \in Batch /\ bat[t].c \in Content
        BY Zenon, <1>0 DEF TypeBat, CreatePayload
      <3>2. pay[bat[t].c].rev \in Nat
        BY Zenon, <1>0, <3>1 DEF TypePay
      <3>3. [bat[t] EXCEPT !.seen = pay[bat[t].c].rev] \in Batch
            /\ [bat[t] EXCEPT !.seen = pay[bat[t].c].rev].c = bat[t].c
        BY Zenon, <3>1, <3>2 DEF Batch
      <3>4. bat' = [bat EXCEPT ![t] = [bat[t] EXCEPT !.seen = pay[bat[t].c].rev]]
        BY Zenon, <2>3
      <3> QED BY ZenonT(30), <1>0, <2>3, <3>1, <3>3, <3>4, BatchSet DEF PC
    <2> QED BY Zenon, <2>1, <2>2, <2>3 DEF CreatePayload
  <1> QED BY Zenon, <1>1, <1>2, <1>3, GroupsNext

\* AdoptPayload keeps every variable in its type.
LEMMA TypeAdoptPayload ==
    ASSUME TypeOK, NEW t \in Term, AdoptPayload(t)
    PROVE  TypeOK'
  <1>0. TypeLead /\ TypeCom /\ TypePay /\ TypePub /\ TypeBat /\ TypeGC
    BY Zenon, Groups
  <1>1. TypeLead' /\ TypeCom' /\ TypePub' /\ TypeGC'
    BY Zenon, <1>0 DEF AdoptPayload, lead, kv, pub, TypeLead, TypeCom, TypePub, TypeGC
  <1>2. TypePay'
    <2>1. bat[t].c \in Content /\ UNCHANGED alias
      BY Zenon, <1>0 DEF TypeBat, AdoptPayload
    <2>2. CASE WritePayload(bat[t].c)
      BY Zenon, <1>0, <2>1, <2>2, WritePayloadType
    <2>3. CASE UNCHANGED <<pay, pseq>>
      BY Zenon, <1>0, <2>1, <2>3 DEF TypePay
    <2> QED BY Zenon, <2>2, <2>3 DEF AdoptPayload
  <1>3. TypeBat'
    <2>1. CASE Abort(t)
      BY Zenon, <1>0, <2>1, AbortType
    <2>2. CASE pc' = [pc EXCEPT ![t] = "fence"] /\ UNCHANGED bat
      BY ZenonT(30), <1>0, <2>2, PlaceSet DEF AdoptPayload, PC
    <2>3. CASE pc' = [pc EXCEPT ![t] = "payload"] /\ UNCHANGED bat
      BY ZenonT(30), <1>0, <2>3, PlaceSet DEF AdoptPayload, PC
    <2> QED BY Zenon, <2>1, <2>2, <2>3 DEF AdoptPayload
  <1> QED BY Zenon, <1>1, <1>2, <1>3, GroupsNext

\* CheckLeadership keeps every variable in its type.
LEMMA TypeCheckLeadership ==
    ASSUME TypeOK, NEW t \in Term, NEW from \in {"fence", "recheck"}, NEW to \in {"alias", "commit"}, CheckLeadership(t, from, to)
    PROVE  TypeOK'
  <1>0. TypeLead /\ TypeCom /\ TypePay /\ TypePub /\ TypeBat /\ TypeGC
    BY Zenon, Groups
  <1>1. TypeLead' /\ TypeCom' /\ TypePay' /\ TypePub' /\ TypeGC'
    BY Zenon, <1>0 DEF CheckLeadership, lead, kv, pub, TypeLead, TypeCom, TypePay, TypePub, TypeGC
  <1>2. TypeBat'
    <2>1. CASE Abort(t)
      BY Zenon, <1>0, <2>1, AbortType
    <2>2. CASE /\ pc' = [pc EXCEPT ![t] = to]
               /\ \E l \in BOOLEAN : bat' = [bat EXCEPT ![t].legacy = IF from = "fence" THEN l ELSE @]
      <3>1. PICK l \in BOOLEAN : bat' = [bat EXCEPT ![t].legacy = IF from = "fence" THEN l ELSE @]
        BY ZenonT(30), <2>2
      <3>2. bat[t] \in Batch /\ bat[t].c \in Content
        BY Zenon, <1>0 DEF TypeBat, CheckLeadership
      <3> DEFINE m == IF from = "fence" THEN l ELSE bat[t].legacy
      <3>3. m \in BOOLEAN
        BY Zenon, <3>2 DEF Batch
      <3>4. bat' = [bat EXCEPT ![t] = [bat[t] EXCEPT !.legacy = m]]
        BY Zenon, <3>1
      <3> HIDE DEF m
      <3>5. [bat[t] EXCEPT !.legacy = m] \in Batch /\ [bat[t] EXCEPT !.legacy = m].c = bat[t].c
        BY Zenon, <3>2, <3>3 DEF Batch
      <3> QED BY ZenonT(30), <1>0, <2>2, <3>2, <3>4, <3>5, BatchSet DEF PC
    <2> QED BY Zenon, <2>1, <2>2 DEF CheckLeadership
  <1> QED BY Zenon, <1>1, <1>2, GroupsNext

\* RunAliasBarrier keeps every variable in its type.
LEMMA TypeRunAliasBarrier ==
    ASSUME TypeOK, NEW t \in Term, RunAliasBarrier(t)
    PROVE  TypeOK'
  <1>0. TypeLead /\ TypeCom /\ TypePay /\ TypePub /\ TypeBat /\ TypeGC
    BY Zenon, Groups
  <1>1. TypeLead' /\ TypeCom' /\ TypePub' /\ TypeGC'
    BY Zenon, <1>0 DEF RunAliasBarrier, lead, kv, pub, TypeLead, TypeCom, TypePub, TypeGC
  <1>2. TypePay'
    <2>1. bat[t].ver \in Nat
      BY Zenon, <1>0 DEF TypeBat, Batch
    <2> QED BY Zenon, <1>0, <2>1 DEF TypePay, RunAliasBarrier
  <1>3. TypeBat'
    <2>1. CASE Abort(t)
      BY Zenon, <1>0, <2>1, AbortType
    <2>2. CASE pc' = [pc EXCEPT ![t] = "recheck"] /\ UNCHANGED bat
      BY ZenonT(30), <1>0, <2>2, PlaceSet DEF RunAliasBarrier, PC
    <2> QED BY Zenon, <2>1, <2>2 DEF RunAliasBarrier
  <1> QED BY Zenon, <1>1, <1>2, <1>3, GroupsNext

\* CommitWins keeps every variable in its type.
LEMMA TypeCommitWins ==
    ASSUME TypeOK, NEW t \in Term, CommitWins(t)
    PROVE  TypeOK'
  <1>0. TypeLead /\ TypeCom /\ TypePay /\ TypePub /\ TypeBat /\ TypeGC
    BY Zenon, Groups
  <1>1. TypeLead' /\ TypePay' /\ TypeGC'
    BY Zenon, <1>0 DEF CommitWins, lead, kv, pub, TypeLead, TypePay, TypeGC
  <1>2. TypeCom'
    <2>1. Land(Write(t)) /\ UNCHANGED wire /\ pc[t] = "commit"
      BY Zenon DEF CommitWins
    <2> QED BY Zenon, <1>0, <2>1, WriteType, LandType DEF TypeCom
  <1>3. TypePub'
    <2>1. Land(Write(t)) /\ pc[t] = "commit"
      BY Zenon DEF CommitWins
    <2>2. com.rev \in Nat /\ com'.rev = com.rev + 1 /\ \A s \in Term : lastCommitRev[s] <= com'.rev
      BY Zenon, <1>0, <2>1, WriteType, LandType DEF TypeCom
    <2>3. bat[t].ver \in Nat
      BY Zenon, <1>0 DEF TypeBat, Batch
    <2> QED BY <1>0, <2>2, <2>3 DEF TypePub, CommitWins
  <1>4. TypeBat'
    BY ZenonT(30), <1>0, PlaceSet DEF CommitWins, PC
  <1> QED BY Zenon, <1>1, <1>2, <1>3, <1>4, GroupsNext

\* CommitLoses keeps every variable in its type.
LEMMA TypeCommitLoses ==
    ASSUME TypeOK, NEW t \in Term, CommitLoses(t)
    PROVE  TypeOK'
  <1>0. TypeLead /\ TypeCom /\ TypePay /\ TypePub /\ TypeBat /\ TypeGC
    BY Zenon, Groups
  <1>1. TypeLead' /\ TypeCom' /\ TypePay' /\ TypeGC'
    BY Zenon, <1>0 DEF CommitLoses, lead, kv, pub, TypeLead, TypeCom, TypePay, TypeGC
  <1>2. TypePub'
    BY Zenon, <1>0 DEF CommitLoses, kv, TypePub
  <1>3. TypeBat'
    BY ZenonT(30), <1>0, PlaceSet DEF CommitLoses, PC
  <1> QED BY Zenon, <1>1, <1>2, <1>3, GroupsNext

\* CommitFails keeps every variable in its type.
LEMMA TypeCommitFails ==
    ASSUME TypeOK, NEW t \in Term, CommitFails(t)
    PROVE  TypeOK'
  <1>0. TypeLead /\ TypeCom /\ TypePay /\ TypePub /\ TypeBat /\ TypeGC
    BY Zenon, Groups
  <1>1. TypeLead' /\ TypePay' /\ TypeGC'
    BY Zenon, <1>0 DEF CommitFails, lead, kv, pub, TypeLead, TypePay, TypeGC
  <1>2. TypeCom'
    <2>0. Write(t) \in [exp : Nat, ver : Nat, lr : Term, c : Content]
      BY Zenon, <1>0, WriteType DEF CommitFails
    <2>1. CASE UNCHANGED <<com, wire>>
      BY Zenon, <1>0, <2>1 DEF TypeCom
    <2>2. CASE Land(Write(t)) /\ UNCHANGED wire
      BY Zenon, <1>0, <2>0, <2>2, LandType DEF TypeCom
    <2>3. CASE wire' = wire \cup {Write(t)} /\ UNCHANGED com
      BY Zenon, <1>0, <2>0, <2>3 DEF TypeCom
    <2> QED BY Zenon, <2>1, <2>2, <2>3 DEF CommitFails
  <1>3. TypePub'
    <2>0. Write(t) \in [exp : Nat, ver : Nat, lr : Term, c : Content] /\ UNCHANGED pub
      BY Zenon, <1>0, WriteType DEF CommitFails
    <2>1. CASE UNCHANGED com
      BY Zenon, <1>0, <2>0, <2>1 DEF TypePub, pub
    <2>2. CASE Land(Write(t))
      BY Zenon, <1>0, <2>0, <2>2, LandType DEF TypePub, pub
    <2> QED BY Zenon, <2>1, <2>2 DEF CommitFails
  <1>4. TypeBat'
    BY Zenon, <1>0, AbortType DEF CommitFails
  <1> QED BY Zenon, <1>1, <1>2, <1>3, <1>4, GroupsNext

\* Reseed keeps every variable in its type.
LEMMA TypeReseed ==
    ASSUME TypeOK, NEW t \in Term, Reseed(t)
    PROVE  TypeOK'
  <1>0. TypeLead /\ TypeCom /\ TypePay /\ TypePub /\ TypeBat /\ TypeGC
    BY Zenon, Groups
  <1>1. TypeLead' /\ TypeCom' /\ TypePay' /\ TypeGC'
    BY Zenon, <1>0 DEF Reseed, lead, kv, pub, TypeLead, TypeCom, TypePay, TypeGC
  <1>2. TypePub'
    <2>1. UNCHANGED com
      BY Zenon DEF Reseed, kv
    <2>2. CASE SeedAndClear(t)
      <3>1. Seed(t) /\ commitReseedPending' \in [Term -> BOOLEAN]
        BY Zenon, <1>0, <2>2 DEF SeedAndClear, TypePub
      <3> QED BY Zenon, <1>0, <2>1, <3>1, SeedType
    <2>3. CASE UNCHANGED pub
      BY Zenon, <1>0, <2>1, <2>3 DEF TypePub, pub
    <2> QED BY Zenon, <2>2, <2>3 DEF Reseed
  <1>3. TypeBat'
    BY Zenon, <1>0, AbortType DEF Reseed
  <1> QED BY Zenon, <1>1, <1>2, <1>3, GroupsNext

\* AfterCommit keeps every variable in its type.
LEMMA TypeAfterCommit ==
    ASSUME TypeOK, NEW t \in Term, AfterCommit(t)
    PROVE  TypeOK'
  <1>0. TypeLead /\ TypeCom /\ TypePay /\ TypePub /\ TypeBat /\ TypeGC
    BY Zenon, Groups
  <1>1. TypeLead' /\ TypeCom' /\ TypePub' /\ TypeGC'
    BY Zenon, <1>0 DEF AfterCommit, lead, kv, pub, TypeLead, TypeCom, TypePub, TypeGC
  <1>2. TypePay'
    <2>1. bat[t].ver \in Nat
      BY Zenon, <1>0 DEF TypeBat, Batch
    <2> QED BY <1>0, <2>1 DEF TypePay, AfterCommit
  <1>3. TypeBat'
    BY Zenon, <1>0, AbortType DEF AfterCommit
  <1> QED BY Zenon, <1>1, <1>2, <1>3, GroupsNext

\* GCScans keeps every variable in its type.
LEMMA TypeGCScans ==
    ASSUME TypeOK, NEW t \in Term, GCScans(t)
    PROVE  TypeOK'
  <1>0. TypeLead /\ TypeCom /\ TypePay /\ TypePub /\ TypeBat /\ TypeGC
    BY Zenon, Groups
  <1>1. TypeLead' /\ TypeCom' /\ TypePay' /\ TypePub' /\ TypeBat'
    BY Zenon, <1>0 DEF GCScans, lead, kv, pub, TypeLead, TypeCom, TypePay, TypePub, TypeBat
  <1>2. TypeGC'
    <2>1. com.c \in Content \cup {"none"} /\ \A d \in Content : pay[d].rev \in Nat
      BY Zenon, <1>0 DEF TypeCom, TypePay
    <2>2. LiveRefs(t) \subseteq Content
      BY Zenon, <1>0 DEF LiveRefs, TypeBat
    <2> DEFINE L == ({com.c} \ {"none"}) \cup LiveRefs(t)
               O == {pay[c].rev : c \in {d \in Content : pay[d].old}}
    <2>3. L \in SUBSET Content /\ O \in SUBSET Nat
      BY Zenon, <2>1, <2>2
    <2>4. gc' = [NoGC EXCEPT !.pc = "scan", !.t = t, !.live = L, !.old = O]
      BY Zenon DEF GCScans
    <2>5. gc' = [pc |-> "scan", t |-> t, live |-> L, old |-> O, c |-> "none", rev |-> 0]
      BY ZenonT(30), <2>4 DEF NoGC
    <2> HIDE DEF L, O
    <2> QED BY <2>3, <2>5, MaxTermAssumption DEF TypeGC, Pass, Term
  <1> QED BY Zenon, <1>1, <1>2, GroupsNext

\* Arrives keeps every variable in its type.
LEMMA TypeArrives ==
    ASSUME TypeOK, NEW w \in wire, Arrives(w)
    PROVE  TypeOK'
  <1>0. TypeLead /\ TypeCom /\ TypePay /\ TypePub /\ TypeBat /\ TypeGC
    BY Zenon, Groups
  <1>1. TypeLead' /\ TypePay' /\ TypeBat' /\ TypeGC'
    BY Zenon, <1>0 DEF Arrives, lead, kv, pub, TypeLead, TypePay, TypeBat, TypeGC
  <1>2. TypeCom'
    <2>0. w \in [exp : Nat, ver : Nat, lr : Term, c : Content]
      BY Zenon, <1>0 DEF TypeCom
    <2>1. CASE UNCHANGED com
      BY Zenon, <1>0, <2>1 DEF TypeCom, Arrives
    <2>2. CASE Land(w)
      BY Zenon, <1>0, <2>0, <2>2, LandType DEF TypeCom, Arrives
    <2> QED BY Zenon, <2>1, <2>2 DEF Arrives
  <1>3. TypePub'
    <2>0. w \in [exp : Nat, ver : Nat, lr : Term, c : Content] /\ UNCHANGED pub
      BY Zenon, <1>0 DEF Arrives, TypeCom
    <2>1. CASE UNCHANGED com
      BY Zenon, <1>0, <2>0, <2>1 DEF TypePub, pub
    <2>2. CASE Land(w)
      BY Zenon, <1>0, <2>0, <2>2, LandType DEF TypePub, pub
    <2> QED BY Zenon, <2>1, <2>2 DEF Arrives
  <1> QED BY Zenon, <1>1, <1>2, <1>3, GroupsNext

\* GCPicks keeps every variable in its type.
LEMMA TypeGCPicks ==
    ASSUME TypeOK, NEW c \in Content, GCPicks(c)
    PROVE  TypeOK'
  <1>0. TypeLead /\ TypeCom /\ TypePay /\ TypePub /\ TypeBat /\ TypeGC
    BY Zenon, Groups
  <1>1. TypeLead' /\ TypeCom' /\ TypePay' /\ TypePub' /\ TypeBat'
    BY Zenon, <1>0 DEF GCPicks, lead, kv, pub, TypeLead, TypeCom, TypePay, TypePub, TypeBat
  <1>2. TypeGC'
    <2>1. pay[c].rev \in Nat
      BY Zenon, <1>0 DEF TypePay
    <2> QED BY ZenonT(30), <1>0, <2>1 DEF TypeGC, Pass, GCPicks
  <1> QED BY Zenon, <1>1, <1>2, GroupsNext

\* Ages keeps every variable in its type.
LEMMA TypeAges ==
    ASSUME TypeOK, NEW c \in Content, Ages(c)
    PROVE  TypeOK'
  <1>0. TypeLead /\ TypeCom /\ TypePay /\ TypePub /\ TypeBat /\ TypeGC
    BY Zenon, Groups
  <1>1. TypeLead' /\ TypeCom' /\ TypePub' /\ TypeBat' /\ TypeGC'
    BY Zenon, <1>0 DEF Ages, lead, kv, pub, TypeLead, TypeCom, TypePub, TypeBat, TypeGC
  <1>2. TypePay'
    <2>1. pay' \in [Content -> [rev : Nat, old : BOOLEAN]]
      BY ZenonT(30), <1>0 DEF TypePay, Ages
    <2>2. \A d \in Content : pay'[d].rev = pay[d].rev
      BY Zenon, <1>0 DEF TypePay, Ages
    <2> QED BY Zenon, <1>0, <2>1, <2>2 DEF TypePay, Ages
  <1> QED BY Zenon, <1>1, <1>2, GroupsNext

\* GCDeletes keeps every variable in its type.
LEMMA TypeGCDeletes ==
    ASSUME TypeOK, GCDeletes
    PROVE  TypeOK'
  <1>0. TypeLead /\ TypeCom /\ TypePay /\ TypePub /\ TypeBat /\ TypeGC
    BY Zenon, Groups
  <1>1. TypeLead' /\ TypeCom' /\ TypePub' /\ TypeBat'
    BY Zenon, <1>0 DEF GCDeletes, lead, kv, pub, TypeLead, TypeCom, TypePub, TypeBat
  <1>2. TypePay'
    <2>1. pay' \in [Content -> [rev : Nat, old : BOOLEAN]]
      BY ZenonT(30), <1>0 DEF TypePay, GCDeletes
    <2>2. \A d \in Content : pay'[d].rev \in {0, pay[d].rev}
      BY Zenon, <1>0 DEF TypePay, GCDeletes
    <2>3. pseq \in Nat
      BY <1>0, MaxPayAssumption DEF TypePay
    <2> QED BY <1>0, <2>1, <2>2, <2>3 DEF TypePay, GCDeletes
  <1>3. TypeGC'
    BY ZenonT(30), <1>0 DEF TypeGC, Pass, GCDeletes
  <1> QED BY Zenon, <1>1, <1>2, <1>3, GroupsNext

\* GCEnds keeps every variable in its type.
LEMMA TypeGCEnds ==
    ASSUME TypeOK, GCEnds
    PROVE  TypeOK'
  <1>0. TypeLead /\ TypeCom /\ TypePay /\ TypePub /\ TypeBat /\ TypeGC
    BY Zenon, Groups
  <1>1. TypeLead' /\ TypeCom' /\ TypePay' /\ TypePub' /\ TypeBat'
    BY Zenon, <1>0 DEF GCEnds, lead, kv, pub, TypeLead, TypeCom, TypePay, TypePub, TypeBat
  <1>2. TypeGC'
    BY <1>0, MaxTermAssumption DEF TypeGC, Pass, GCEnds, NoGC
  <1> QED BY Zenon, <1>1, <1>2, GroupsNext

\* Every step keeps every variable in its type.
LEMMA TypeStep == TypeOK /\ [Next]_vars => TypeOK'
  <1> SUFFICES ASSUME TypeOK, [Next]_vars PROVE TypeOK' OBVIOUS
  <1>1. CASE UNCHANGED vars
    BY Zenon, <1>1 DEF vars, lead, kv, pub, TypeOK
  <1>2. ASSUME NEW t \in Term, CheckLeadership(t, "fence", "alias") PROVE TypeOK'
    BY Zenon, <1>2, TypeCheckLeadership
  <1>3. ASSUME NEW t \in Term, CheckLeadership(t, "recheck", "commit") PROVE TypeOK'
    BY Zenon, <1>3, TypeCheckLeadership
  <1> QED
    BY Zenon, <1>1, <1>2, <1>3, TypeElected, TypeLeaseEnds, TypeStopCalculator, TypeDiscover, TypeBootstrap,
       TypePublish, TypeCreatePayload, TypeAdoptPayload, TypeRunAliasBarrier, TypeCommitWins,
       TypeCommitLoses, TypeCommitFails, TypeReseed, TypeAfterCommit, TypeGCScans,
       TypeArrives, TypeGCPicks, TypeAges, TypeGCDeletes, TypeGCEnds DEF Next

\* Type correctness: in particular no publisher's lastCommitRev is ahead of
\* the revision of the commit key, whatever was lost or came late.
THEOREM TypeCorrect == Spec => []TypeOK
  BY TypeInit, TypeStep, PTL DEF Spec

-----------------------------------------------------------------------------
(* The chain of commits *)

\* A step that leaves the commit key and the views alone, and lets a publisher
\* reach the commit write only as the last leader.
LEMMA ChainQuiet ==
    ASSUME TypeOK, ChainInv, UNCHANGED <<com, wire, lastCommitRev, currentVersion>>,
           lease' \in {0, terms'}, terms' \in Nat, terms' >= terms,
           \A s \in Term : pc'[s] # "off" => s <= terms',
           \A s \in Term : pc'[s] \in Writing => pc[s] \in Writing /\ bat'[s].ver = bat[s].ver,
           \A s \in Term : pc'[s] = "commit" => pc[s] = "commit" \/ com.lr <= s
    PROVE  ChainInv'
  <1>1. com.lr \in Nat /\ terms \in Nat /\ \A w \in wire : w.lr \in Nat
    BY SMTT(30), MaxTermAssumption DEF TypeOK, Term
  <1>2. lease' \in {0, terms'} /\ com'.lr <= terms'
    BY <1>1 DEF ChainInv
  <1>3. ASSUME NEW s \in Term
        PROVE /\ lastCommitRev'[s] = com'.rev => currentVersion'[s] >= com'.ver
              /\ pc'[s] # "off" => s <= terms'
              /\ pc'[s] \in Writing => bat'[s].ver = currentVersion'[s] + 1
              /\ pc'[s] = "commit" /\ lastCommitRev'[s] = com'.rev => com'.lr <= s
    BY Zenon, <1>3 DEF ChainInv
  <1>4. ASSUME NEW w \in wire'
        PROVE /\ w.exp <= com'.rev /\ w.lr <= terms'
              /\ w.exp = com'.rev => w.ver > com'.ver /\ com'.lr <= w.lr
    BY <1>1, <1>4 DEF ChainInv
  <1> QED BY Zenon, <1>2, <1>3, <1>4 DEF ChainInv

\* A step that makes the view of one publisher a view of the live commit.
LEMMA ChainSeed ==
    ASSUME TypeOK, ChainInv, NEW t \in Term, Seed(t), UNCHANGED <<com, wire, lease, terms>>,
           pc'[t] # "off" => t <= terms, pc'[t] # "commit",
           pc'[t] \in Writing => bat'[t].ver = currentVersion'[t] + 1,
           \A s \in Term \ {t} : pc'[s] = pc[s] /\ bat'[s] = bat[s]
    PROVE  ChainInv'
  <1>1. /\ lastCommitRev' = [lastCommitRev EXCEPT ![t] = com.rev]
        /\ currentVersion'[t] >= com.ver
        /\ \A s \in Term \ {t} : currentVersion'[s] = currentVersion[s]
    BY Zenon, Groups, SeedFact
  <1>2. \A s \in Term \ {t} : lastCommitRev'[s] = lastCommitRev[s]
    BY Zenon, <1>1 DEF TypeOK
  <1>3. ASSUME NEW s \in Term
        PROVE /\ lastCommitRev'[s] = com'.rev => currentVersion'[s] >= com'.ver
              /\ pc'[s] # "off" => s <= terms'
              /\ pc'[s] \in Writing => bat'[s].ver = currentVersion'[s] + 1
              /\ pc'[s] = "commit" /\ lastCommitRev'[s] = com'.rev => com'.lr <= s
    <2>1. CASE s = t
      BY Zenon, <1>1, <2>1
    <2>2. CASE s # t
      BY Zenon, <1>1, <1>2, <2>2 DEF ChainInv
    <2> QED BY Zenon, <2>1, <2>2
  <1> QED BY Zenon, <1>3 DEF ChainInv

\* A write lands: every view and every request but the writer's is behind.
LEMMA ChainLand ==
    ASSUME TypeOK, ChainInv, NEW w \in [exp : Nat, ver : Nat, lr : Term, c : Content],
           Land(w), w.lr <= terms, UNCHANGED <<lease, terms>>, wire' \subseteq wire,
           \A s \in Term : lastCommitRev'[s] = lastCommitRev[s] \/ currentVersion'[s] = w.ver,
           \A s \in Term : pc'[s] # "off" => pc[s] # "off",
           \A s \in Term : pc'[s] \in Writing =>
                /\ pc[s] \in Writing /\ bat'[s].ver = bat[s].ver
                /\ lastCommitRev'[s] = lastCommitRev[s] /\ currentVersion'[s] = currentVersion[s]
    PROVE  ChainInv'
  <1>1. /\ com'.rev = com.rev + 1 /\ com'.ver = w.ver /\ com'.lr = w.lr
        /\ \A s \in Term : lastCommitRev[s] # com'.rev
    BY Zenon, Groups, LandType
  <1>2. com.rev \in Nat /\ w.ver \in Nat /\ \A x \in wire : x.exp \in Nat
    BY Zenon DEF TypeOK
  <1>3. ASSUME NEW s \in Term
        PROVE /\ lastCommitRev'[s] = com'.rev => currentVersion'[s] >= com'.ver
              /\ pc'[s] # "off" => s <= terms'
              /\ pc'[s] \in Writing => bat'[s].ver = currentVersion'[s] + 1
              /\ pc'[s] = "commit" /\ lastCommitRev'[s] = com'.rev => com'.lr <= s
    BY <1>1, <1>2 DEF ChainInv, Writing
  <1>4. ASSUME NEW x \in wire'
        PROVE /\ x.exp <= com'.rev /\ x.lr <= terms'
              /\ x.exp = com'.rev => x.ver > com'.ver /\ com'.lr <= x.lr
    BY <1>1, <1>2 DEF ChainInv
  <1> QED BY Zenon, <1>1, <1>3, <1>4 DEF ChainInv

\* An accepted write continues the chain.
LEMMA LandCommits ==
    ASSUME TypeOK, NEW w \in [exp : Nat, ver : Nat, lr : Term, c : Content], Land(w),
           w.exp = com.rev => w.ver > com.ver /\ com.lr <= w.lr
    PROVE  Chain!Commit
  <1>1. w.exp = com.rev /\ com'.rev = com.rev + 1 /\ com'.ver = w.ver /\ com'.lr = w.lr
    BY Zenon, Groups, LandType DEF Land
  <1>2. com.lr \in Nat /\ w.lr \in Nat
    BY MaxTermAssumption DEF TypeOK, Term
  <1> QED BY Zenon, <1>1, <1>2 DEF Chain!Commit

\* What a publisher at its commit write would send.
LEMMA WriteChains ==
    ASSUME TypeOK, ChainInv, NEW t \in Term, pc[t] = "commit"
    PROVE  /\ Write(t) \in [exp : Nat, ver : Nat, lr : Term, c : Content]
           /\ Write(t).exp <= com.rev /\ Write(t).lr <= terms /\ Write(t).ver = bat[t].ver
           /\ Write(t).exp = com.rev => Write(t).ver > com.ver /\ com.lr <= Write(t).lr
  <1>1. Write(t) \in [exp : Nat, ver : Nat, lr : Term, c : Content]
    BY Zenon, Groups, WriteType
  <1>2. /\ Write(t).exp = lastCommitRev[t] /\ Write(t).ver = bat[t].ver /\ Write(t).lr = t
    BY Zenon DEF Write
  <1>3. /\ lastCommitRev[t] <= com.rev /\ t <= terms /\ bat[t].ver = currentVersion[t] + 1
        /\ lastCommitRev[t] = com.rev => currentVersion[t] >= com.ver /\ com.lr <= t
    BY Zenon DEF TypeOK, ChainInv, Writing
  <1>4. currentVersion[t] \in Nat /\ com.ver \in Nat
    BY Zenon DEF TypeOK
  <1> QED BY <1>1, <1>2, <1>3, <1>4

\* Abort leaves no publisher with more to do than it had.
LEMMA AbortFrame ==
    ASSUME TypeOK, NEW t \in Term, Abort(t)
    PROVE  /\ pc'[t] = "idle"
           /\ \A s \in Term \ {t} : pc'[s] = pc[s] /\ bat'[s] = bat[s]
  BY Zenon DEF Abort, TypeOK

\* The chain invariant holds of an empty commit key.
LEMMA ChainInit == Init => ChainInv
  BY MaxTermAssumption DEF Init, ChainInv, NoCommit, Writing, Term

\* No step breaks the chain invariant.
LEMMA ChainStep == TypeOK /\ ChainInv /\ [Next]_vars => ChainInv'
  <1> SUFFICES ASSUME TypeOK, ChainInv, [Next]_vars PROVE ChainInv' OBVIOUS
  <1>0. /\ terms \in Nat /\ com.lr \in Nat /\ lease \in {0, terms} /\ com.lr <= terms
        /\ \A s \in Term : s \in Nat /\ (pc[s] # "off" => s <= terms)
    BY MaxTermAssumption DEF TypeOK, ChainInv, Term
  <1>1. ASSUME UNCHANGED <<com, wire, lastCommitRev, currentVersion, pc, bat, terms>>,
               lease' \in {0, lease}
        PROVE ChainInv'
    BY <1>0, <1>1, ChainQuiet
  <1>2. ASSUME NEW t \in Term, Abort(t), UNCHANGED <<com, wire, lastCommitRev, currentVersion, lease, terms>>,
               pc[t] # "off"
        PROVE ChainInv'
    <2>1. /\ pc'[t] = "idle"
          /\ \A s \in Term \ {t} : pc'[s] = pc[s] /\ bat'[s] = bat[s]
      BY Zenon, <1>2, AbortFrame
    <2> QED BY <1>0, <1>2, <2>1, ChainQuiet DEF Writing
  <1>3. ASSUME NEW t \in Term, NEW p, pc' = [pc EXCEPT ![t] = p], pc[t] # "off",
               UNCHANGED <<com, wire, lastCommitRev, currentVersion, lease, terms>>,
               \A s \in Term : bat'[s].ver = bat[s].ver,
               p \in Writing => pc[t] \in Writing, p = "commit" => com.lr <= t
        PROVE ChainInv'
    <2>1. pc'[t] = p /\ \A s \in Term \ {t} : pc'[s] = pc[s]
      BY Zenon, <1>3 DEF TypeOK
    <2> QED BY <1>0, <1>3, <2>1, ChainQuiet
  <1>4. CASE UNCHANGED vars
    BY Zenon, <1>1, <1>4 DEF vars, lead, kv, pub
  <1>5. CASE Elected
    <2>1. terms + 1 \in Term /\ terms' = terms + 1 /\ lease' = terms + 1
      BY <1>0, <1>5, MaxTermAssumption DEF Elected, Term
    <2>2. pc'[terms + 1] = "boot" /\ \A s \in Term \ {terms + 1} : pc'[s] = pc[s]
      BY Zenon, <1>5, <2>1 DEF Elected, TypeOK
    <2>3. UNCHANGED <<com, wire, lastCommitRev, currentVersion, bat>>
      BY Zenon, <1>5 DEF Elected, kv, pub
    <2> QED BY <1>0, <2>1, <2>2, <2>3, ChainQuiet DEF Writing
  <1>6. CASE LeaseEnds \/ GCDeletes \/ GCEnds
    BY Zenon, <1>1, <1>6 DEF LeaseEnds, GCDeletes, GCEnds, lead, kv, pub
  <1>7. ASSUME NEW c \in Content, GCPicks(c) \/ Ages(c) PROVE ChainInv'
    BY Zenon, <1>1, <1>7 DEF GCPicks, Ages, lead, kv, pub
  <1>8. ASSUME NEW t \in Term, StopCalculator(t) \/ GCScans(t) PROVE ChainInv'
    BY Zenon, <1>1, <1>8 DEF StopCalculator, GCScans, lead, kv, pub
  <1>9. ASSUME NEW t \in Term, DiscoverHighestVersion(t) PROVE ChainInv'
    <2>1. /\ pc[t] = "boot" /\ pc'[t] = "idle" /\ \A s \in Term \ {t} : pc'[s] = pc[s]
          /\ UNCHANGED <<com, wire, lease, terms, bat>>
      BY Zenon, <1>9 DEF DiscoverHighestVersion, TypeOK, lead, kv
    <2>2. CASE Seed(t)
      BY Zenon, <1>0, <2>1, <2>2, ChainSeed DEF Writing
    <2>3. CASE currentVersion' = [currentVersion EXCEPT ![t] = Higher(@, alias)] /\ UNCHANGED lastCommitRev
      <3>1. \A s \in Term \ {t} : currentVersion'[s] = currentVersion[s]
        BY Zenon, <2>3 DEF TypeOK
      <3>2. currentVersion[t] \in Nat /\ alias \in Nat /\ com.ver \in Nat
        BY Zenon DEF TypeOK
      <3>3. currentVersion'[t] \in Nat /\ currentVersion'[t] >= currentVersion[t]
        BY SMTT(30), <2>3, <3>2, HigherFact DEF TypeOK
      <3>4. ASSUME NEW s \in Term
            PROVE lastCommitRev'[s] = com'.rev => currentVersion'[s] >= com'.ver
        BY SMTT(30), <2>1, <2>3, <3>1, <3>2, <3>3 DEF ChainInv
      <3>5. ASSUME NEW s \in Term
            PROVE /\ pc'[s] # "off" => s <= terms'
                  /\ pc'[s] \in Writing => bat'[s].ver = currentVersion'[s] + 1
                  /\ pc'[s] = "commit" /\ lastCommitRev'[s] = com'.rev => com'.lr <= s
        BY Zenon, <1>0, <2>1, <2>3, <3>1 DEF ChainInv, Writing
      <3> QED BY Zenon, <2>1, <3>4, <3>5 DEF ChainInv
    <2>4. CASE UNCHANGED <<lastCommitRev, currentVersion>>
      BY <1>0, <2>1, <2>4, ChainQuiet DEF Writing
    <2> QED BY Zenon, <1>9, <2>2, <2>3, <2>4 DEF DiscoverHighestVersion
  <1>10. ASSUME NEW t \in Term, BootstrapLastCommit(t) PROVE ChainInv'
    BY Zenon, <1>0, <1>10, ChainSeed DEF BootstrapLastCommit, lead, kv, Writing
  <1>11. ASSUME NEW t \in Term, Publish(t) PROVE ChainInv'
    <2>1. pc[t] = "idle" /\ UNCHANGED <<com, wire, lease, terms>>
      BY Zenon, <1>11 DEF Publish, lead, kv
    <2>2. CASE UNCHANGED <<pub, bat, pc>>
      BY Zenon, <1>1, <2>1, <2>2 DEF pub
    <2>3. ASSUME NEW c \in Content, pc' = [pc EXCEPT ![t] = "payload"],
                 bat' = [bat EXCEPT ![t] = [ver |-> currentVersion'[t] + 1, c |-> c,
                                            seen |-> 0, legacy |-> FALSE]],
                 SeedAndClear(t) \/ UNCHANGED pub
          PROVE ChainInv'
      <3>1. /\ pc'[t] = "payload" /\ bat'[t].ver = currentVersion'[t] + 1
            /\ \A s \in Term \ {t} : pc'[s] = pc[s] /\ bat'[s] = bat[s]
        BY Zenon, <2>3 DEF TypeOK
      <3>2. CASE SeedAndClear(t)
        BY Zenon, <1>0, <2>1, <3>1, <3>2, ChainSeed DEF SeedAndClear
      <3>3. CASE UNCHANGED pub
        <4>1. ASSUME NEW s \in Term
              PROVE /\ lastCommitRev'[s] = com'.rev => currentVersion'[s] >= com'.ver
                    /\ pc'[s] # "off" => s <= terms'
                    /\ pc'[s] \in Writing => bat'[s].ver = currentVersion'[s] + 1
                    /\ pc'[s] = "commit" /\ lastCommitRev'[s] = com'.rev => com'.lr <= s
          <5>1. UNCHANGED <<lastCommitRev, currentVersion>>
            BY Zenon, <3>3 DEF pub
          <5>2. CASE s = t
            BY Zenon, <1>0, <2>1, <3>1, <5>1, <5>2 DEF ChainInv
          <5>3. CASE s # t
            BY Zenon, <1>0, <2>1, <3>1, <5>1, <5>3 DEF ChainInv
          <5> QED BY Zenon, <5>2, <5>3
        <4> QED BY Zenon, <2>1, <4>1 DEF ChainInv
      <3> QED BY Zenon, <2>3, <3>2, <3>3
    <2> QED BY Zenon, <1>11, <2>2, <2>3 DEF Publish
  <1>12. ASSUME NEW t \in Term, CreatePayload(t) PROVE ChainInv'
    <2>1. pc[t] = "payload" /\ UNCHANGED <<com, wire, lastCommitRev, currentVersion, lease, terms>>
      BY Zenon, <1>12 DEF CreatePayload, lead, pub
    <2>2. CASE Abort(t)
      BY Zenon, <1>2, <2>1, <2>2
    <2>3. CASE pc' = [pc EXCEPT ![t] = "fence"] /\ UNCHANGED bat
      BY ZenonT(30), <1>3, <2>1, <2>3 DEF Writing
    <2>4. CASE pc' = [pc EXCEPT ![t] = "adopt"] /\ bat' = [bat EXCEPT ![t].seen = pay[bat[t].c].rev]
      <3>1. \A s \in Term : bat'[s].ver = bat[s].ver
        BY <2>4 DEF TypeOK
      <3> QED BY ZenonT(30), <1>3, <2>1, <2>4, <3>1 DEF Writing
    <2> QED BY Zenon, <1>12, <2>2, <2>3, <2>4 DEF CreatePayload
  <1>13. ASSUME NEW t \in Term, AdoptPayload(t) PROVE ChainInv'
    <2>1. pc[t] = "adopt" /\ UNCHANGED <<com, wire, lastCommitRev, currentVersion, lease, terms>>
      BY Zenon, <1>13 DEF AdoptPayload, lead, pub
    <2>2. CASE Abort(t)
      BY Zenon, <1>2, <2>1, <2>2
    <2>3. CASE pc' = [pc EXCEPT ![t] = "fence"] /\ UNCHANGED bat
      BY ZenonT(30), <1>3, <2>1, <2>3 DEF Writing
    <2>4. CASE pc' = [pc EXCEPT ![t] = "payload"] /\ UNCHANGED bat
      BY ZenonT(30), <1>3, <2>1, <2>4 DEF Writing
    <2> QED BY Zenon, <1>13, <2>2, <2>3, <2>4 DEF AdoptPayload
  <1>14. ASSUME NEW t \in Term, NEW from \in {"fence", "recheck"}, NEW to \in {"alias", "commit"},
                CheckLeadership(t, from, to)
         PROVE ChainInv'
    <2>1. pc[t] = from /\ UNCHANGED <<com, wire, lastCommitRev, currentVersion, lease, terms>>
      BY Zenon, <1>14 DEF CheckLeadership, lead, kv, pub
    <2>2. CASE Abort(t)
      BY Zenon, <1>2, <2>1, <2>2
    <2>3. ASSUME lease = t, pc' = [pc EXCEPT ![t] = to], NEW l \in BOOLEAN,
                 bat' = [bat EXCEPT ![t].legacy = IF from = "fence" THEN l ELSE @]
          PROVE ChainInv'
      <3>1. \A s \in Term : bat'[s].ver = bat[s].ver
        BY <2>3 DEF TypeOK
      <3>2. com.lr <= t
        BY <1>0, <2>3 DEF Term
      <3> QED BY ZenonT(30), <1>3, <2>1, <2>3, <3>1, <3>2 DEF Writing
    <2> QED BY Zenon, <1>14, <2>2, <2>3 DEF CheckLeadership
  <1>15. ASSUME NEW t \in Term, RunAliasBarrier(t) PROVE ChainInv'
    <2>1. pc[t] = "alias" /\ UNCHANGED <<com, wire, lastCommitRev, currentVersion, lease, terms>>
      BY Zenon, <1>15 DEF RunAliasBarrier, lead, pub
    <2>2. CASE Abort(t)
      BY Zenon, <1>2, <2>1, <2>2
    <2>3. CASE pc' = [pc EXCEPT ![t] = "recheck"] /\ UNCHANGED bat
      BY ZenonT(30), <1>3, <2>1, <2>3 DEF Writing
    <2> QED BY Zenon, <1>15, <2>2, <2>3 DEF RunAliasBarrier
  <1>16. ASSUME NEW t \in Term, CommitWins(t) PROVE ChainInv'
    <2>1. pc[t] = "commit" /\ Land(Write(t)) /\ UNCHANGED <<wire, lease, terms, bat>>
      BY Zenon, <1>16 DEF CommitWins, lead
    <2>2. /\ pc'[t] = "after" /\ \A s \in Term \ {t} : pc'[s] = pc[s]
          /\ currentVersion'[t] = bat[t].ver
          /\ \A s \in Term \ {t} : /\ lastCommitRev'[s] = lastCommitRev[s]
                                   /\ currentVersion'[s] = currentVersion[s]
      BY Zenon, <1>16 DEF CommitWins, TypeOK
    <2> QED BY Zenon, <2>1, <2>2, WriteChains, ChainLand DEF Writing
  <1>17. ASSUME NEW t \in Term, CommitLoses(t) PROVE ChainInv'
    BY ZenonT(30), <1>3, <1>17 DEF CommitLoses, lead, kv, Writing
  <1>18. ASSUME NEW t \in Term, CommitFails(t) PROVE ChainInv'
    <2>1. /\ pc[t] = "commit" /\ Abort(t)
          /\ UNCHANGED <<lastCommitRev, currentVersion, lease, terms>>
      BY Zenon, <1>18 DEF CommitFails, lead, pub
    <2>2. /\ pc'[t] = "idle"
          /\ \A s \in Term \ {t} : pc'[s] = pc[s] /\ bat'[s] = bat[s]
      BY Zenon, <2>1, AbortFrame
    <2>3. CASE UNCHANGED <<com, wire>>
      BY Zenon, <1>2, <2>1, <2>3
    <2>4. CASE Land(Write(t)) /\ UNCHANGED wire
      BY Zenon, <2>1, <2>2, <2>4, WriteChains, ChainLand DEF Writing
    <2>5. CASE wire' = wire \cup {Write(t)} /\ UNCHANGED com
      <3>1. ASSUME NEW w \in wire'
            PROVE /\ w.exp <= com'.rev /\ w.lr <= terms'
                  /\ w.exp = com'.rev => w.ver > com'.ver /\ com'.lr <= w.lr
        <4>1. CASE w = Write(t)
          BY Zenon, <2>1, <2>5, <4>1, WriteChains
        <4>2. CASE w \in wire
          BY Zenon, <2>1, <2>5, <4>2 DEF ChainInv
        <4> QED BY Zenon, <2>5, <4>1, <4>2
      <3>2. ASSUME NEW s \in Term
            PROVE /\ lastCommitRev'[s] = com'.rev => currentVersion'[s] >= com'.ver
                  /\ pc'[s] # "off" => s <= terms'
                  /\ pc'[s] \in Writing => bat'[s].ver = currentVersion'[s] + 1
                  /\ pc'[s] = "commit" /\ lastCommitRev'[s] = com'.rev => com'.lr <= s
        BY Zenon, <2>1, <2>2, <2>5 DEF ChainInv, Writing
      <3> QED BY Zenon, <2>1, <2>5, <3>1, <3>2 DEF ChainInv
    <2> QED BY Zenon, <1>18, <2>3, <2>4, <2>5 DEF CommitFails
  <1>19. ASSUME NEW t \in Term, Reseed(t) PROVE ChainInv'
    <2>1. pc[t] = "reseed" /\ Abort(t) /\ UNCHANGED <<com, wire, lease, terms>>
      BY Zenon, <1>19 DEF Reseed, lead, kv
    <2>2. /\ pc'[t] = "idle"
          /\ \A s \in Term \ {t} : pc'[s] = pc[s] /\ bat'[s] = bat[s]
      BY Zenon, <2>1, AbortFrame
    <2>3. CASE SeedAndClear(t)
      BY Zenon, <1>0, <2>1, <2>2, <2>3, ChainSeed DEF SeedAndClear, Writing
    <2>4. CASE UNCHANGED pub
      BY Zenon, <1>2, <2>1, <2>4 DEF pub
    <2> QED BY Zenon, <1>19, <2>3, <2>4 DEF Reseed
  <1>20. ASSUME NEW t \in Term, AfterCommit(t) PROVE ChainInv'
    BY Zenon, <1>2, <1>20 DEF AfterCommit, lead, pub
  <1>21. ASSUME NEW w \in wire, Arrives(w) PROVE ChainInv'
    <2>1. /\ wire' \subseteq wire
          /\ UNCHANGED <<lastCommitRev, currentVersion, pc, bat, lease, terms>>
      BY Zenon, <1>21 DEF Arrives, lead, pub
    <2>2. /\ w \in [exp : Nat, ver : Nat, lr : Term, c : Content] /\ w.lr <= terms
      BY Zenon DEF TypeOK, ChainInv
    <2>3. CASE Land(w)
      BY Zenon, <2>1, <2>2, <2>3, ChainLand
    <2>4. CASE UNCHANGED com
      BY Zenon, <2>1, <2>4 DEF ChainInv
    <2> QED BY Zenon, <1>21, <2>3, <2>4 DEF Arrives
  <1>22. ASSUME NEW t \in Term, CheckLeadership(t, "fence", "alias") \/ CheckLeadership(t, "recheck", "commit")
         PROVE ChainInv'
    BY Zenon, <1>14, <1>22
  <1> QED
    BY Zenon, <1>4, <1>5, <1>6, <1>7, <1>8, <1>9, <1>10, <1>11, <1>12, <1>13, <1>15, <1>16, <1>17,
       <1>18, <1>19, <1>20, <1>21, <1>22 DEF Next

\* Every step is a step of the chain or leaves the commit key alone.
LEMMA ChainRefines == TypeOK /\ ChainInv /\ [Next]_vars => [Chain!Commit]_com
  <1> SUFFICES ASSUME TypeOK, ChainInv, [Next]_vars, com' # com PROVE Chain!Commit OBVIOUS
  <1>1. ASSUME NEW t \in Term, pc[t] = "commit", Land(Write(t)) PROVE Chain!Commit
    BY Zenon, <1>1, WriteChains, LandCommits
  <1>2. ASSUME NEW t \in Term, CommitWins(t) PROVE Chain!Commit
    BY Zenon, <1>1, <1>2 DEF CommitWins
  <1>3. ASSUME NEW t \in Term, CommitFails(t) PROVE Chain!Commit
    BY Zenon, <1>1, <1>3 DEF CommitFails
  <1>4. ASSUME NEW w \in wire, Arrives(w) PROVE Chain!Commit
    <2>1. Land(w)
      BY Zenon, <1>4 DEF Arrives
    <2>2. /\ w \in [exp : Nat, ver : Nat, lr : Term, c : Content]
          /\ w.exp = com.rev => w.ver > com.ver /\ com.lr <= w.lr
      BY Zenon DEF TypeOK, ChainInv
    <2> QED BY Zenon, <2>1, <2>2, LandCommits
  <1>5. CASE UNCHANGED vars \/ Elected \/ LeaseEnds \/ GCDeletes \/ GCEnds
    BY Zenon, <1>5 DEF vars, kv, Elected, LeaseEnds, GCDeletes, GCEnds
  <1>6. ASSUME NEW c \in Content, GCPicks(c) \/ Ages(c) PROVE FALSE
    BY Zenon, <1>6 DEF GCPicks, Ages, kv
  <1>7. ASSUME NEW t \in Term,
               \/ StopCalculator(t) \/ DiscoverHighestVersion(t) \/ BootstrapLastCommit(t)
               \/ Publish(t) \/ CommitLoses(t) \/ Reseed(t) \/ GCScans(t)
               \/ CheckLeadership(t, "fence", "alias") \/ CheckLeadership(t, "recheck", "commit")
        PROVE FALSE
    BY Zenon, <1>7 DEF StopCalculator, DiscoverHighestVersion, BootstrapLastCommit, Publish, CommitLoses,
                Reseed, GCScans, CheckLeadership, kv
  <1>8. ASSUME NEW t \in Term,
               CreatePayload(t) \/ AdoptPayload(t) \/ RunAliasBarrier(t) \/ AfterCommit(t)
        PROVE FALSE
    BY Zenon, <1>8 DEF CreatePayload, AdoptPayload, RunAliasBarrier, AfterCommit
  <1> QED BY Zenon, <1>2, <1>3, <1>4, <1>5, <1>6, <1>7, <1>8 DEF Next

\* The publishers of all terms, with lost and late writes, implement the
\* abstract chain: a commit is only ever replaced by one of a higher version
\* and of the same or a later leader (step 9 of Publish).
THEOREM PublishersImplementChain == Spec => CommitsFormChain
  <1>1. Init => Chain!Init
    BY DEF Init, Chain!Init, NoCommit
  <1>2. Spec => [](TypeOK /\ ChainInv)
    BY TypeInit, TypeStep, ChainInit, ChainStep, PTL DEF Spec
  <1>3. TypeOK /\ ChainInv /\ [Next]_vars => [Chain!Commit]_com
    BY Zenon, ChainRefines
  <1> QED BY <1>1, <1>2, <1>3, PTL DEF Spec, CommitsFormChain, Chain!Spec

-----------------------------------------------------------------------------
(* The payload of the live commit *)

\* A step without a payload write or a collector's step, after which no
\* further publisher relies on a payload.
LEMMA PayloadQuiet ==
    ASSUME PayloadInv, UNCHANGED <<pay, pseq, gc, com>>, wire' \subseteq wire,
           \A s \in Term : pc'[s] \in Holding => pc[s] \in Holding /\ bat'[s].c = bat[s].c
    PROVE  PayloadInv'
  <1>2. ASSUME NEW s \in Term, pc'[s] \in Holding PROVE pay'[bat'[s].c].rev # 0 /\ ~pay'[bat'[s].c].old /\ pay'[bat'[s].c].rev \notin gc'.old
    BY Zenon, <1>2 DEF PayloadInv, Held
  <1>3. ASSUME NEW w \in wire' PROVE pay'[w.c].rev # 0 /\ ~pay'[w.c].old /\ pay'[w.c].rev \notin gc'.old
    BY Zenon, <1>3 DEF PayloadInv, Held
  <1>4. com'.rev # 0 => com'.c \in Content /\ pay'[com'.c].rev # 0 /\ (com'.c \in gc'.live \/ pay'[com'.c].rev \notin gc'.old)
    BY Zenon DEF PayloadInv, Safe
  <1> QED BY Zenon, <1>2, <1>3, <1>4 DEF PayloadInv, Held, Safe

\* The same for a batch that ends.
LEMMA PayloadAbort ==
    ASSUME TypeOK, PayloadInv, NEW t \in Term, Abort(t), UNCHANGED <<pay, pseq, gc, com, wire>>
    PROVE  PayloadInv'
  BY Zenon, AbortFrame, PayloadQuiet DEF Holding

\* What is written is held by its writer and stays within everybody's reach.
LEMMA PayloadWrite ==
    ASSUME TypeOK, PayloadInv, NEW t \in Term, WritePayload(bat[t].c), bat[t].c \in Content,
           UNCHANGED <<gc, com, wire>>,
           \A s \in Term \ {t} : pc'[s] = pc[s] /\ bat'[s] = bat[s],
           pc'[t] \in Holding => bat'[t].c = bat[t].c
    PROVE  PayloadInv'
  <1> DEFINE b == bat[t].c
  <1>1. pseq \in Nat /\ pseq' = pseq + 1 /\ \A c \in Content : pay[c].rev \in Nat /\ pay[c].rev <= pseq
    BY SMTT(30), MaxPayAssumption DEF TypeOK, WritePayload
  <1>2. /\ pay'[b].rev = pseq + 1 /\ pay'[b].old = FALSE
        /\ \A c \in Content \ {b} : pay'[c] = pay[c]
    BY Zenon DEF WritePayload, TypeOK
  <1>3. gc.old \subseteq 0..pseq
    BY Zenon DEF PayloadInv
  <1>4. pay'[b].rev # 0 /\ ~pay'[b].old /\ pay'[b].rev \notin gc'.old
    BY <1>1, <1>2, <1>3
  <1>5. ASSUME NEW c \in Content, Held(c) \/ c = b PROVE pay'[c].rev # 0 /\ ~pay'[c].old /\ pay'[c].rev \notin gc'.old
    BY Zenon, <1>2, <1>4, <1>5 DEF Held
  <1>6. ASSUME NEW c \in Content, Safe(c) PROVE pay'[c].rev # 0 /\ (c \in gc'.live \/ pay'[c].rev \notin gc'.old)
    BY Zenon, <1>2, <1>4, <1>6 DEF Safe
  <1>7. ASSUME NEW c \in Content, NEW d \in Content, pay'[c].rev # 0, pay'[c].rev = pay'[d].rev
        PROVE c = d
    <2>1. \A x \in Content \ {b} : pay'[x].rev # pseq + 1
      BY <1>1, <1>2
    <2> QED BY <1>2, <1>7, <2>1 DEF PayloadInv
  <1>8. ASSUME NEW s \in Term, pc'[s] \in Holding PROVE pay'[bat'[s].c].rev # 0 /\ ~pay'[bat'[s].c].old /\ pay'[bat'[s].c].rev \notin gc'.old
    <2>1. CASE s = t
      BY Zenon, <1>5, <1>8, <2>1
    <2>2. CASE s # t
      <3>1. bat[s].c \in Content /\ Held(bat[s].c) /\ bat'[s].c = bat[s].c
        BY Zenon, <1>8, <2>2 DEF PayloadInv, TypeOK, Holding
      <3> QED BY Zenon, <1>5, <3>1
    <2> QED BY Zenon, <2>1, <2>2
  <1>9. ASSUME NEW w \in wire' PROVE pay'[w.c].rev # 0 /\ ~pay'[w.c].old /\ pay'[w.c].rev \notin gc'.old
    <2>1. w.c \in Content /\ Held(w.c)
      BY Zenon, <1>9 DEF PayloadInv, TypeOK
    <2> QED BY Zenon, <1>5, <2>1
  <1>10. com'.rev # 0 => com'.c \in Content /\ pay'[com'.c].rev # 0 /\ (com'.c \in gc'.live \/ pay'[com'.c].rev \notin gc'.old)
    BY Zenon, <1>6 DEF PayloadInv
  <1>11. gc'.old \subseteq 0..pseq' /\ (gc'.pc = "delete" => gc'.c \in Content \ gc'.live /\ gc'.rev \in gc'.old)
    BY SMTT(30), <1>1 DEF PayloadInv
  <1> QED BY Zenon, <1>7, <1>8, <1>9, <1>10, <1>11 DEF PayloadInv, Held, Safe

\* A commit lands whose payload is held.
LEMMA PayloadLand ==
    ASSUME TypeOK, PayloadInv, NEW w \in [exp : Nat, ver : Nat, lr : Term, c : Content],
           Land(w), Held(w.c), UNCHANGED <<pay, pseq, gc>>, wire' \subseteq wire,
           \A s \in Term : pc'[s] \in Holding => pc[s] \in Holding /\ bat'[s].c = bat[s].c
    PROVE  PayloadInv'
  <1>1. com'.c = w.c /\ w.c \in Content
    BY Zenon, Groups, LandType
  <1>2. pay'[w.c].rev # 0 /\ (w.c \in gc'.live \/ pay'[w.c].rev \notin gc'.old)
    BY Zenon DEF Held, Safe
  <1>3. ASSUME NEW s \in Term, pc'[s] \in Holding PROVE pay'[bat'[s].c].rev # 0 /\ ~pay'[bat'[s].c].old /\ pay'[bat'[s].c].rev \notin gc'.old
    BY Zenon, <1>3 DEF PayloadInv, Held
  <1>4. ASSUME NEW x \in wire' PROVE pay'[x.c].rev # 0 /\ ~pay'[x.c].old /\ pay'[x.c].rev \notin gc'.old
    BY Zenon, <1>4 DEF PayloadInv, Held
  <1>5. com'.c \in Content /\ pay'[com'.c].rev # 0 /\ (com'.c \in gc'.live \/ pay'[com'.c].rev \notin gc'.old)
    BY Zenon, <1>1, <1>2
  <1> QED BY Zenon, <1>3, <1>4, <1>5 DEF PayloadInv, Held, Safe

\* There is nothing to collect at first.
LEMMA PayloadInit == Init => PayloadInv
  BY DEF Init, PayloadInv, NoCommit, NoGC, Holding

\* No step takes a payload away from a batch under way or from the commit.
LEMMA PayloadStep == TypeOK /\ PayloadInv /\ [Next]_vars => PayloadInv'
  <1> SUFFICES ASSUME TypeOK, PayloadInv, [Next]_vars PROVE PayloadInv' OBVIOUS
  <1>1. ASSUME UNCHANGED <<pay, pseq, gc, com, wire, pc, bat>> PROVE PayloadInv'
    BY Zenon, <1>1, PayloadQuiet
  <1>2. ASSUME NEW t \in Term, NEW p, pc' = [pc EXCEPT ![t] = p],
               UNCHANGED <<pay, pseq, gc, com, wire>>,
               \A s \in Term : bat'[s].c = bat[s].c,
               p \in Holding => pc[t] \in Holding
        PROVE PayloadInv'
    <2>1. pc'[t] = p /\ \A s \in Term \ {t} : pc'[s] = pc[s]
      BY Zenon, <1>2 DEF TypeOK
    <2> QED BY Zenon, <1>2, <2>1, PayloadQuiet
  <1>3. CASE UNCHANGED vars \/ LeaseEnds
    BY Zenon, <1>1, <1>3 DEF vars, kv, LeaseEnds
  <1>4. CASE Elected
    BY Zenon, <1>4, PayloadQuiet DEF Elected, kv, Holding, TypeOK
  <1>5. ASSUME NEW t \in Term, StopCalculator(t) \/ BootstrapLastCommit(t) PROVE PayloadInv'
    BY Zenon, <1>1, <1>5 DEF StopCalculator, BootstrapLastCommit, kv
  <1>6. ASSUME NEW t \in Term, DiscoverHighestVersion(t) PROVE PayloadInv'
    BY ZenonT(30), <1>2, <1>6 DEF DiscoverHighestVersion, kv, Holding
  <1>7. ASSUME NEW t \in Term, Publish(t) PROVE PayloadInv'
    <2>1. UNCHANGED <<pay, pseq, gc, com, wire>>
      BY Zenon, <1>7 DEF Publish, kv
    <2>2. CASE UNCHANGED <<pc, bat>>
      BY Zenon, <1>1, <2>1, <2>2
    <2>3. ASSUME pc' = [pc EXCEPT ![t] = "payload"], NEW c \in Content,
                 bat' = [bat EXCEPT ![t] = [ver |-> currentVersion'[t] + 1, c |-> c,
                                            seen |-> 0, legacy |-> FALSE]]
          PROVE PayloadInv'
      <3>1. pc'[t] = "payload" /\ \A s \in Term \ {t} : pc'[s] = pc[s] /\ bat'[s] = bat[s]
        BY Zenon, <2>3 DEF TypeOK
      <3> QED BY Zenon, <2>1, <3>1, PayloadQuiet DEF Holding
    <2> QED BY Zenon, <1>7, <2>2, <2>3 DEF Publish
  <1>8. ASSUME NEW t \in Term, CreatePayload(t) PROVE PayloadInv'
    <2>1. pc[t] = "payload" /\ bat[t].c \in Content /\ UNCHANGED <<com, wire, gc>>
      BY Zenon, <1>8 DEF CreatePayload, TypeOK
    <2>2. CASE Abort(t) /\ UNCHANGED <<pay, pseq>>
      BY Zenon, <2>1, <2>2, PayloadAbort
    <2>3. CASE Abort(t) /\ WritePayload(bat[t].c)
      BY Zenon, <2>1, <2>3, AbortFrame, PayloadWrite DEF Holding
    <2>4. CASE WritePayload(bat[t].c) /\ pc' = [pc EXCEPT ![t] = "fence"] /\ UNCHANGED bat
      <3>1. \A s \in Term \ {t} : pc'[s] = pc[s]
        BY Zenon, <2>4 DEF TypeOK
      <3> QED BY Zenon, <2>1, <2>4, <3>1, PayloadWrite
    <2>5. CASE /\ bat' = [bat EXCEPT ![t].seen = pay[bat[t].c].rev]
               /\ pc' = [pc EXCEPT ![t] = "adopt"] /\ UNCHANGED <<pay, pseq>>
      <3>1. \A s \in Term : bat'[s].c = bat[s].c
        BY <2>5 DEF TypeOK
      <3> QED BY ZenonT(30), <1>2, <2>1, <2>5, <3>1 DEF Holding
    <2> QED BY Zenon, <1>8, <2>2, <2>3, <2>4, <2>5 DEF CreatePayload
  <1>9. ASSUME NEW t \in Term, AdoptPayload(t) PROVE PayloadInv'
    <2>1. pc[t] = "adopt" /\ bat[t].c \in Content /\ UNCHANGED <<com, wire, gc>>
      BY Zenon, <1>9 DEF AdoptPayload, TypeOK
    <2>2. CASE Abort(t) /\ UNCHANGED <<pay, pseq>>
      BY Zenon, <2>1, <2>2, PayloadAbort
    <2>3. CASE Abort(t) /\ WritePayload(bat[t].c)
      BY Zenon, <2>1, <2>3, AbortFrame, PayloadWrite DEF Holding
    <2>4. CASE WritePayload(bat[t].c) /\ pc' = [pc EXCEPT ![t] = "fence"] /\ UNCHANGED bat
      <3>1. \A s \in Term \ {t} : pc'[s] = pc[s]
        BY Zenon, <2>4 DEF TypeOK
      <3> QED BY Zenon, <2>1, <2>4, <3>1, PayloadWrite
    <2>5. CASE pc' = [pc EXCEPT ![t] = "payload"] /\ UNCHANGED <<pay, pseq, bat>>
      BY ZenonT(30), <1>2, <2>1, <2>5 DEF Holding
    <2> QED BY Zenon, <1>9, <2>2, <2>3, <2>4, <2>5 DEF AdoptPayload
  <1>10. ASSUME NEW t \in Term, NEW from \in {"fence", "recheck"}, NEW to \in {"alias", "commit"},
                CheckLeadership(t, from, to)
         PROVE PayloadInv'
    <2>1. pc[t] = from /\ UNCHANGED <<pay, pseq, gc, com, wire>>
      BY Zenon, <1>10 DEF CheckLeadership, kv
    <2>2. CASE Abort(t)
      BY Zenon, <2>1, <2>2, PayloadAbort
    <2>3. ASSUME pc' = [pc EXCEPT ![t] = to], NEW l \in BOOLEAN,
                 bat' = [bat EXCEPT ![t].legacy = IF from = "fence" THEN l ELSE @]
          PROVE PayloadInv'
      <3>1. \A s \in Term : bat'[s].c = bat[s].c
        BY <2>3 DEF TypeOK
      <3> QED BY ZenonT(30), <1>2, <2>1, <2>3, <3>1 DEF Holding
    <2> QED BY Zenon, <1>10, <2>2, <2>3 DEF CheckLeadership
  <1>11. ASSUME NEW t \in Term, RunAliasBarrier(t) PROVE PayloadInv'
    <2>1. pc[t] = "alias" /\ UNCHANGED <<pay, pseq, gc, com, wire>>
      BY Zenon, <1>11 DEF RunAliasBarrier
    <2>2. CASE Abort(t)
      BY Zenon, <2>1, <2>2, PayloadAbort
    <2>3. CASE pc' = [pc EXCEPT ![t] = "recheck"] /\ UNCHANGED bat
      BY ZenonT(30), <1>2, <2>1, <2>3 DEF Holding
    <2> QED BY Zenon, <1>11, <2>2, <2>3 DEF RunAliasBarrier
  <1>12. ASSUME NEW t \in Term, pc[t] = "commit"
         PROVE /\ Write(t) \in [exp : Nat, ver : Nat, lr : Term, c : Content]
               /\ Write(t).c = bat[t].c /\ Held(Write(t).c)
    <2>1. Write(t) \in [exp : Nat, ver : Nat, lr : Term, c : Content]
      BY Zenon, <1>12, Groups, WriteType
    <2>2. Write(t).c = bat[t].c
      BY Zenon DEF Write
    <2>3. Held(bat[t].c)
      BY Zenon, <1>12 DEF PayloadInv, Holding
    <2> QED BY Zenon, <2>1, <2>2, <2>3
  <1>13. ASSUME NEW t \in Term, CommitWins(t) PROVE PayloadInv'
    <2>1. pc[t] = "commit" /\ Land(Write(t)) /\ UNCHANGED <<pay, pseq, gc, wire, bat>>
      BY Zenon, <1>13 DEF CommitWins
    <2>2. pc'[t] = "after" /\ \A s \in Term \ {t} : pc'[s] = pc[s]
      BY Zenon, <1>13 DEF CommitWins, TypeOK
    <2> QED BY Zenon, <1>12, <2>1, <2>2, PayloadLand DEF Holding
  <1>14. ASSUME NEW t \in Term, CommitLoses(t) PROVE PayloadInv'
    BY ZenonT(30), <1>2, <1>14 DEF CommitLoses, kv, Holding
  <1>15. ASSUME NEW t \in Term, CommitFails(t) PROVE PayloadInv'
    <2>1. pc[t] = "commit" /\ Abort(t) /\ UNCHANGED <<pay, pseq, gc>>
      BY Zenon, <1>15 DEF CommitFails
    <2>2. CASE UNCHANGED <<com, wire>>
      BY Zenon, <2>1, <2>2, PayloadAbort
    <2>3. CASE Land(Write(t)) /\ UNCHANGED wire
      BY Zenon, <1>12, <2>1, <2>3, AbortFrame, PayloadLand DEF Holding
    <2>4. CASE wire' = wire \cup {Write(t)} /\ UNCHANGED com
      <3>1. ASSUME NEW s \in Term, pc'[s] \in Holding
            PROVE pay'[bat'[s].c].rev # 0 /\ ~pay'[bat'[s].c].old /\ pay'[bat'[s].c].rev \notin gc'.old
        BY ZenonT(30), <2>1, <3>1, AbortFrame DEF PayloadInv, Held, Holding
      <3>2. ASSUME NEW w \in wire'
            PROVE pay'[w.c].rev # 0 /\ ~pay'[w.c].old /\ pay'[w.c].rev \notin gc'.old
        BY Zenon, <1>12, <2>1, <2>4, <3>2 DEF PayloadInv, Held
      <3> QED BY ZenonT(30), <2>1, <2>4, <3>1, <3>2 DEF PayloadInv, Held, Safe
    <2> QED BY Zenon, <1>15, <2>2, <2>3, <2>4 DEF CommitFails
  <1>16. ASSUME NEW t \in Term, Reseed(t) \/ AfterCommit(t) PROVE PayloadInv'
    BY ZenonT(30), <1>16, PayloadAbort DEF Reseed, AfterCommit, kv
  <1>17. ASSUME NEW w \in wire, Arrives(w) PROVE PayloadInv'
    <2>1. wire' \subseteq wire /\ UNCHANGED <<pay, pseq, gc, pc, bat>>
      BY Zenon, <1>17 DEF Arrives
    <2>2. w \in [exp : Nat, ver : Nat, lr : Term, c : Content] /\ Held(w.c)
      BY Zenon DEF TypeOK, PayloadInv
    <2>3. CASE Land(w)
      BY Zenon, <2>1, <2>2, <2>3, PayloadLand
    <2>4. CASE UNCHANGED com
      BY Zenon, <2>1, <2>4, PayloadQuiet
    <2> QED BY Zenon, <1>17, <2>3, <2>4 DEF Arrives
  <1>18. ASSUME NEW t \in Term, GCScans(t) PROVE PayloadInv'
    <2> DEFINE L == ({com.c} \ {"none"}) \cup LiveRefs(t)
               O == {pay[c].rev : c \in {d \in Content : pay[d].old}}
    <2>1. gc' = [pc |-> "scan", t |-> t, live |-> L, old |-> O, c |-> "none", rev |-> 0]
      BY ZenonT(30), <1>18 DEF GCScans, NoGC
    <2>2. UNCHANGED <<pay, pseq, com, wire, pc, bat>>
      BY Zenon, <1>18 DEF GCScans, kv
    <2>3. O \subseteq 0..pseq
      BY MaxPayAssumption DEF TypeOK
    <2>4. ASSUME NEW c \in Content, Held(c) PROVE pay[c].rev \notin O
      BY Zenon, <2>4 DEF Held, PayloadInv
    <2>5. com.rev # 0 => com.c \in L
      BY Zenon, ContentAssumption DEF PayloadInv
    <2>6. gc'.pc = "scan" /\ gc'.live = L /\ gc'.old = O
      BY Zenon, <2>1
    <2> HIDE DEF L, O
    <2>7. ASSUME NEW s \in Term, pc'[s] \in Holding
          PROVE pay'[bat'[s].c].rev # 0 /\ ~pay'[bat'[s].c].old /\ pay'[bat'[s].c].rev \notin gc'.old
      BY ZenonT(30), <2>2, <2>4, <2>6, <2>7 DEF PayloadInv, Held, TypeOK, Holding
    <2>8. ASSUME NEW w \in wire'
          PROVE pay'[w.c].rev # 0 /\ ~pay'[w.c].old /\ pay'[w.c].rev \notin gc'.old
      BY SMTT(30), <2>2, <2>4, <2>6, <2>8 DEF PayloadInv, Held, TypeOK
    <2>9. com'.rev # 0 => com'.c \in Content /\ pay'[com'.c].rev # 0 /\ com'.c \in gc'.live
      BY Zenon, <2>2, <2>5, <2>6 DEF PayloadInv, Safe
    <2> QED BY ZenonT(30), <2>2, <2>3, <2>6, <2>7, <2>8, <2>9 DEF PayloadInv, Held, Safe
  <1>19. ASSUME NEW c \in Content, GCPicks(c) PROVE PayloadInv'
    <2>1. /\ gc'.old = gc.old /\ gc'.live = gc.live /\ gc'.c = c /\ gc'.rev = pay[c].rev
          /\ c \notin gc.live /\ pay[c].rev \in gc.old /\ UNCHANGED <<pay, pseq, com, wire, pc, bat>>
      BY ZenonT(30), <1>19 DEF GCPicks, kv, TypeOK
    <2> QED BY Zenon, <2>1 DEF PayloadInv, Held, Safe
  <1>20. ASSUME NEW c \in Content, Ages(c) PROVE PayloadInv'
    <2>1. /\ \A d \in Content : pay'[d].rev = pay[d].rev
          /\ \A d \in Content \ {c} : pay'[d].old = pay[d].old
          /\ UNCHANGED <<pseq, gc, com, wire, pc, bat>>
      BY <1>20 DEF Ages, TypeOK
    <2>2. ASSUME NEW s \in Term, pc[s] \in Holding PROVE bat[s].c \in Content \ {c} /\ Held(bat[s].c)
      BY SMTT(30), <1>20, <2>2 DEF Ages, Holding, TypeOK, PayloadInv
    <2>3. ASSUME NEW w \in wire PROVE w.c \in Content \ {c} /\ Held(w.c)
      BY <1>20, <2>3 DEF Ages, TypeOK, PayloadInv
    <2>4. ASSUME NEW s \in Term, pc'[s] \in Holding
          PROVE pay'[bat'[s].c].rev # 0 /\ ~pay'[bat'[s].c].old /\ pay'[bat'[s].c].rev \notin gc'.old
      BY Zenon, <2>1, <2>2, <2>4 DEF Held
    <2>5. ASSUME NEW w \in wire'
          PROVE pay'[w.c].rev # 0 /\ ~pay'[w.c].old /\ pay'[w.c].rev \notin gc'.old
      BY Zenon, <2>1, <2>3, <2>5 DEF Held
    <2> QED BY <2>1, <2>4, <2>5 DEF PayloadInv, Held, Safe
  <1>21. CASE GCDeletes
    <2>1. /\ gc'.pc = "scan" /\ gc'.old = gc.old /\ gc'.live = gc.live
          /\ UNCHANGED <<pseq, com, wire, pc, bat>>
      BY Zenon, <1>21 DEF GCDeletes, TypeOK
    <2>2. gc.c \in Content \ gc.live /\ gc.rev \in gc.old
      BY Zenon, <1>21 DEF GCDeletes, PayloadInv
    <2>3. ASSUME NEW d \in Content, Safe(d) PROVE pay'[d] = pay[d]
      BY Zenon, <1>21, <2>2, <2>3 DEF GCDeletes, Safe, TypeOK
    <2>4. ASSUME NEW d \in Content PROVE pay'[d].rev \in {0, pay[d].rev}
      BY Zenon, <1>21 DEF GCDeletes, TypeOK
    <2>5. ASSUME NEW d \in Content, Held(d) PROVE pay'[d] = pay[d]
      BY Zenon, <2>3, <2>5 DEF Held, Safe
    <2>6. ASSUME NEW s \in Term, pc'[s] \in Holding
          PROVE pay'[bat'[s].c].rev # 0 /\ ~pay'[bat'[s].c].old /\ pay'[bat'[s].c].rev \notin gc'.old
      <3>1. bat[s].c \in Content /\ Held(bat[s].c)
        BY Zenon, <2>1, <2>6 DEF PayloadInv, TypeOK, Holding
      <3> QED BY Zenon, <2>1, <2>5, <3>1 DEF Held
    <2>7. ASSUME NEW w \in wire'
          PROVE pay'[w.c].rev # 0 /\ ~pay'[w.c].old /\ pay'[w.c].rev \notin gc'.old
      <3>1. w.c \in Content /\ Held(w.c)
        BY Zenon, <2>1, <2>7 DEF PayloadInv, TypeOK
      <3> QED BY Zenon, <2>1, <2>5, <3>1 DEF Held
    <2>8. com'.rev # 0 => /\ com'.c \in Content /\ pay'[com'.c].rev # 0
                          /\ com'.c \in gc'.live \/ pay'[com'.c].rev \notin gc'.old
      BY Zenon, <2>1, <2>3 DEF PayloadInv, Safe
    <2>9. \A c, d \in Content : pay'[c].rev # 0 /\ pay'[c].rev = pay'[d].rev => c = d
      BY Zenon, <2>4 DEF PayloadInv
    <2> QED BY Zenon, <2>1, <2>6, <2>7, <2>8, <2>9 DEF PayloadInv, Held, Safe
  <1>22. CASE GCEnds
    <2>1. /\ gc'.pc = "idle" /\ gc'.old = {} /\ UNCHANGED <<pay, pseq, com, wire, pc, bat>>
      BY Zenon, <1>22 DEF GCEnds, NoGC, kv
    <2> QED BY ZenonT(30), <2>1 DEF PayloadInv, Held, Safe
  <1>23. ASSUME NEW t \in Term, CheckLeadership(t, "fence", "alias") \/ CheckLeadership(t, "recheck", "commit")
         PROVE PayloadInv'
    BY Zenon, <1>10, <1>23
  <1> QED
    BY Zenon, <1>3, <1>4, <1>5, <1>6, <1>7, <1>8, <1>9, <1>11, <1>13, <1>14, <1>15, <1>16, <1>17, <1>18,
       <1>19, <1>20, <1>21, <1>22, <1>23 DEF Next

\* The payload of the live commit exists: neither a collection that scanned
\* before an adoption nor a commit that lands late can leave the commit
\* without it (createOrAdoptPayload and CommitGC.RunOnce).
THEOREM CommittedPayloadSafe == Spec => []CommittedPayloadExists
  <1>1. PayloadInv => CommittedPayloadExists
    BY Zenon DEF PayloadInv, Safe, CommittedPayloadExists
  <1> QED BY <1>1, TypeInit, TypeStep, PayloadInit, PayloadStep, PTL DEF Spec
=============================================================================
