-------------------------- MODULE Leadership_proof --------------------------
(***************************************************************************)
(* Theorems about leadership. About leader election: Stop leaves no        *)
(* calculator behind, a lease keeps its holder and its term while it       *)
(* exists, and a leadership check that passes speaks of the live term, for *)
(* every set of processes and every number of writes and of requests       *)
(* abandoned on the wire. About the leader's calculator: what it publishes *)
(* never goes back to an older set of partitions, for every set of workers *)
(* and every number of events and failures.                                *)
(***************************************************************************)
EXTENDS Election, Calculator, TLAPS

-----------------------------------------------------------------------------
(* The inductive invariant.                                                *)

\* If revision r is the live one, process p wrote it.
Known(p, r) == r # 0 /\ key.rev = r => key.by = p

\* What process p holds a revision of is its own, and not of the future.
Learnt(p, r) == r <= seq /\ Known(p, r)

\* The requests p abandoned are its own.
WireOwn(p) == \A i \in DOMAIN wire[p] : wire[p][i].by = p /\ Learnt(p, wire[p][i].exp)

NoCreate(p) == \A i \in DOMAIN wire[p] : wire[p][i].op # "create"

\* Once p counts itself the leader none of its Creates is under way, so that
\* a live key of p is of the term p remembers; the same holds from the moment
\* its Create is accepted to the moment it learns so.
TermOwn(p) ==
    /\ IF el[p].leads THEN NoCreate(p) /\ (key.by = p => key.term = el[p].term)
                      ELSE el[p].term = 0
    /\ call[p].op = "create" => ~el[p].leads
    /\ call[p].op = "create" /\ call[p].res = "ok" =>
          NoCreate(p) /\ (key.by = p => key.term = call[p].rev)

ProcInv(p) == Learnt(p, el[p].rev) /\ Learnt(p, call[p].rev) /\ WireOwn(p) /\ TermOwn(p)

KeyInv == key.rev <= seq /\ (key.rev # 0 => key.by \in Proc)

IInv == TypeOK /\ KeyInv /\ \A p \in Proc : ProcInv(p)

-----------------------------------------------------------------------------
(* What a step may do to the key.                                          *)

Creates(p) == key.rev = 0 /\ seq' = seq + 1 /\ key' = [rev |-> seq + 1, by |-> p, term |-> seq + 1]
Renews(p) == key.by = p /\ seq' = seq + 1 /\ key' = [rev |-> seq + 1, by |-> p, term |-> key.term]
Removes == key' = NoKey /\ seq' \in {seq, seq + 1}
Keeps == key' = key /\ seq' = seq
KeyStep(p) == Creates(p) \/ Renews(p) \/ Removes \/ Keeps

\* A request that lands does what its kind says: a Create needs the key
\* absent, and an Update renews the holder's own lease (nats_election.go).
LEMMA LandIsKeyStep ==
    ASSUME TypeOK, NEW p \in Proc, NEW r \in Request, r.by = p, Known(p, r.exp), Land(r)
    PROVE  /\ r.op = "create" => Creates(p)
           /\ r.op = "update" => Renews(p)
           /\ r.op = "delete" => Removes
           /\ KeyStep(p)
<1>1. CASE r.op = "create"
  BY Zenon, <1>1 DEF Land, Accepts, Creates, KeyStep
<1>2. CASE r.op = "update"
  <2>1. key.rev = r.exp /\ key.rev # 0 /\ seq' = seq + 1 /\ key' = [rev |-> seq + 1, by |-> r.by, term |-> key.term]
    BY Zenon, <1>2 DEF Land, Accepts
  <2>2. key.by = p
    BY Zenon, <2>1 DEF Known
  <2> QED BY Zenon, <1>2, <2>1, <2>2 DEF Renews, KeyStep
<1>3. CASE r.op = "delete"
  BY Zenon, <1>3 DEF Land, Accepts, Removes, KeyStep
<1> QED BY Zenon, <1>1, <1>2, <1>3 DEF Request

\* The key stays well-formed.
LEMMA KeyStepKeepsKey ==
    ASSUME TypeOK, KeyInv, NEW p \in Proc, KeyStep(p)
    PROVE  key' \in Key /\ seq' \in Nat /\ seq <= seq' /\ KeyInv'
<1>0. key \in Key /\ seq \in Nat
  BY Zenon DEF TypeOK
<1>1. CASE Creates(p)
  BY <1>0, <1>1 DEF Creates, Key, KeyInv
<1>2. CASE Renews(p)
  BY <1>0, <1>2 DEF Renews, Key, KeyInv
<1>3. CASE Removes
  BY <1>0, <1>3 DEF Removes, NoKey, Key, KeyInv
<1>4. CASE Keeps
  BY <1>0, <1>4 DEF Keeps, KeyInv
<1> QED BY Zenon, <1>1, <1>2, <1>3, <1>4 DEF KeyStep

\* Sequence numbers are not used twice: what was learnt stays true.
LEMMA LearntStays ==
    ASSUME TypeOK, NEW p \in Proc, KeyStep(p), NEW q \in Proc, NEW n \in Nat, Learnt(q, n)
    PROVE  Learnt(q, n)'
<1>0. seq \in Nat
  BY Zenon DEF TypeOK
<1>1. CASE Creates(p)
  BY <1>0, <1>1 DEF Creates, Learnt, Known
<1>2. CASE Renews(p)
  BY <1>0, <1>2 DEF Renews, Learnt, Known
<1>3. CASE Removes
  BY <1>0, <1>3 DEF Removes, NoKey, Learnt, Known
<1>4. CASE Keeps
  BY Zenon, <1>0, <1>4 DEF Keeps, Learnt, Known
<1> QED BY Zenon, <1>1, <1>2, <1>3, <1>4 DEF KeyStep

\* Only a Create of q gives q a key of another term.
LEMMA TermStays ==
    ASSUME TypeOK, NEW p \in Proc, KeyStep(p), NEW q \in Proc, q # p \/ ~Creates(p),
           NEW t, key.by = q => key.term = t
    PROVE  key'.by = q => key'.term = t
<1>1. CASE Creates(p)
  BY Zenon, <1>1 DEF Creates
<1>2. CASE Renews(p)
  BY Zenon, <1>2 DEF Renews
<1>3. CASE Removes
  BY Zenon, <1>3, NobodyIsNoProc DEF Removes, NoKey
<1>4. CASE Keeps
  BY Zenon, <1>4 DEF Keeps
<1> QED BY Zenon, <1>1, <1>2, <1>3, <1>4 DEF KeyStep

\* A process whose own state a step leaves alone keeps its invariant.
LEMMA OthersKeep ==
    ASSUME IInv, NEW p \in Proc, KeyStep(p), NEW q \in Proc, q # p \/ ~Creates(p),
           el'[q] = el[q], call'[q] = call[q], wire'[q] = wire[q]
    PROVE  ProcInv(q)'
<1>0. TypeOK /\ ProcInv(q)
  BY Zenon DEF IInv
<1>1. el[q].rev \in Nat /\ call[q].rev \in Nat /\ \A i \in DOMAIN wire[q] : wire[q][i].exp \in Nat
  <2>1. el[q] \in ElState /\ call[q] \in Call /\ wire[q] \in Seq(Request)
    BY Zenon, <1>0 DEF TypeOK
  <2>2. \A i \in DOMAIN wire[q] : wire[q][i] \in Request
    BY <2>1
  <2> QED BY Zenon, <2>1, <2>2 DEF ElState, Call, Request
<1>2. Learnt(q, el[q].rev)' /\ Learnt(q, call[q].rev)'
  <2>1. Learnt(q, el[q].rev) /\ Learnt(q, call[q].rev)
    BY Zenon, <1>0 DEF ProcInv
  <2>2. \A n \in Nat : Learnt(q, n) => Learnt(q, n)'
    BY Zenon, <1>0, LearntStays
  <2> QED BY Zenon, <1>1, <2>1, <2>2 DEF Learnt, Known
<1>3. WireOwn(q)'
  <2>1. \A n \in Nat : Learnt(q, n) => Learnt(q, n)'
    BY Zenon, <1>0, LearntStays
  <2>2. WireOwn(q)
    BY Zenon, <1>0 DEF ProcInv
  <2> QED BY Zenon, <1>1, <2>1, <2>2 DEF WireOwn, Learnt, Known
<1>4. TermOwn(q)'
  <2>1. \A t : (key.by = q => key.term = t) => (key'.by = q => key'.term = t)
    BY Zenon, <1>0, TermStays
  <2>2. NoCreate(q)' <=> NoCreate(q)
    BY Zenon DEF NoCreate
  <2>3. TermOwn(q)
    BY Zenon, <1>0 DEF ProcInv
  <2> QED BY Zenon, <2>1, <2>2, <2>3 DEF TermOwn
<1> QED BY Zenon, <1>2, <1>3, <1>4 DEF ProcInv

-----------------------------------------------------------------------------
(* One KV write, and the state of the process that makes it.               *)

\* The state of q in the types' terms.
LEMMA ProcTypes ==
    ASSUME TypeOK, NEW q \in Proc
    PROVE  /\ el[q] \in ElState /\ el[q].leads \in BOOLEAN /\ el[q].rev \in Nat /\ el[q].term \in Nat
           /\ call[q] \in Call /\ call[q].rev \in Nat
           /\ wire[q] \in Seq(Request) /\ \A i \in DOMAIN wire[q] : wire[q][i] \in Request
<1>1. el[q] \in ElState /\ call[q] \in Call /\ wire[q] \in Seq(Request)
  BY Zenon DEF TypeOK
<1>2. \A i \in DOMAIN wire[q] : wire[q][i] \in Request
  BY <1>1
<1> QED BY Zenon, <1>1, <1>2 DEF ElState, Call

\* The requests a process makes are well-formed and its own.
LEMMA RequestTypes ==
    ASSUME TypeOK, NEW p \in Proc
    PROVE  /\ Create(p) \in Request /\ Create(p).by = p /\ Create(p).op = "create" /\ Create(p).exp = 0
           /\ Update(p) \in Request /\ Update(p).by = p /\ Update(p).op = "update" /\ Update(p).exp = el[p].rev
           /\ Delete(p) \in Request /\ Delete(p).by = p /\ Delete(p).op = "delete" /\ Delete(p).exp = 0
BY Zenon, ProcTypes DEF Create, Update, Delete, Request

\* A request that its caller no longer waits for joins p's wire, or is lost.
LEMMA AbandonKeepsWire ==
    ASSUME IInv, NEW p \in Proc, NEW r \in Request, r.by = p, Learnt(p, r.exp), Abandon(p, r)
    PROVE  /\ Keeps /\ wire' \in [Proc -> Seq(Request)] /\ WireOwn(p)'
           /\ \A q \in Proc \ {p} : wire'[q] = wire[q]
           /\ r.op # "create" /\ NoCreate(p) => NoCreate(p)'
<1>0. TypeOK /\ WireOwn(p) /\ wire[p] \in Seq(Request) /\ wire \in [Proc -> Seq(Request)]
  BY Zenon, ProcTypes DEF IInv, ProcInv, TypeOK
<1>1. Keeps /\ (wire' = wire \/ wire' = [wire EXCEPT ![p] = Append(wire[p], r)])
  BY Zenon DEF Abandon, Keeps
<1>2. wire' \in [Proc -> Seq(Request)] /\ \A q \in Proc \ {p} : wire'[q] = wire[q]
  <2>1. Append(wire[p], r) \in Seq(Request)
    BY <1>0
  <2> QED BY Zenon, <1>0, <1>1, <2>1
<1>3. wire'[p] = wire[p] \/ wire'[p] = Append(wire[p], r)
  BY Zenon, <1>0, <1>1
<1>4. \A i \in DOMAIN wire'[p] : wire'[p][i] = r \/ (i \in DOMAIN wire[p] /\ wire'[p][i] = wire[p][i])
  BY <1>0, <1>3
<1>5. WireOwn(p)'
  BY <1>0, <1>1, <1>4 DEF WireOwn, Learnt, Known, Keeps
<1>6. r.op # "create" /\ NoCreate(p) => NoCreate(p)'
  BY Zenon, <1>4 DEF NoCreate
<1> QED BY Zenon, <1>1, <1>2, <1>5, <1>6

\* Revisions that p knows of, and the requests on its wire, stay its own.
LEMMA OwnStays ==
    ASSUME IInv, NEW p \in Proc, KeyStep(p)
    PROVE  /\ \A n \in Nat : Learnt(p, n) => Learnt(p, n)'
           /\ wire' = wire => WireOwn(p)'
           /\ wire' = wire /\ NoCreate(p) => NoCreate(p)'
<1>0. TypeOK /\ WireOwn(p)
  BY Zenon DEF IInv, ProcInv
<1>1. \A n \in Nat : Learnt(p, n) => Learnt(p, n)'
  BY Zenon, <1>0, LearntStays
<1>2. \A i \in DOMAIN wire[p] : wire[p][i].exp \in Nat
  BY Zenon, <1>0, ProcTypes DEF Request
<1>3. ASSUME wire' = wire PROVE WireOwn(p)'
  BY Zenon, <1>0, <1>1, <1>2, <1>3 DEF WireOwn, Learnt, Known
<1> QED BY Zenon, <1>1, <1>3 DEF NoCreate

\* What p's election call leaves behind, when its answer is recorded.
Sent(p, op, answer) == call' = [call EXCEPT ![p] = [op |-> op, res |-> answer, rev |-> IF answer = "ok" THEN seq + 1 ELSE 0]]

\* The answer of one round trip is well-formed, and only its caller has it.
LEMMA SentTypes ==
    ASSUME TypeOK, NEW p \in Proc, NEW op \in {"renew", "rerenew", "create"},
           NEW answer \in {"ok", "refused", "ctx", "error"}, Sent(p, op, answer)
    PROVE  /\ call' \in [Proc -> Call] /\ \A q \in Proc \ {p} : call'[q] = call[q]
           /\ call'[p].op = op /\ call'[p].res = answer
           /\ call'[p].rev = IF answer = "ok" THEN seq + 1 ELSE 0
<1>1. call \in [Proc -> Call] /\ seq \in Nat
  BY Zenon DEF TypeOK
<1>2. [op |-> op, res |-> answer, rev |-> IF answer = "ok" THEN seq + 1 ELSE 0] \in Call
  BY <1>1 DEF Call
<1> QED BY Zenon, <1>1, <1>2 DEF Sent

\* One write of p, from the request to the answer, keeps p's invariant: an
\* Update is sent by an agent that leads, a Create by one that does not.
LEMMA SendKeeps ==
    ASSUME IInv, NEW p \in Proc, NEW op \in {"renew", "rerenew", "create"}, NEW r \in Request,
           r.by = p, Learnt(p, r.exp), Send(p, op, r),
           el'[p] = el[p] \/ el'[p] = NotLeading,
           op = "create" => r.op = "create" /\ ~el'[p].leads /\ el'[p].term = 0,
           op # "create" => r.op = "update" /\ el'[p] = el[p]
    PROVE  /\ KeyStep(p) /\ wire' \in [Proc -> Seq(Request)] /\ call' \in [Proc -> Call]
           /\ \A q \in Proc \ {p} : wire'[q] = wire[q] /\ call'[q] = call[q]
           /\ ProcInv(p)'
<1>0. TypeOK /\ ProcInv(p) /\ wire \in [Proc -> Seq(Request)] /\ seq \in Nat
  BY Zenon DEF IInv, TypeOK
<1>1. PICK answer \in {"ok", "refused", "ctx", "error"} :
        /\ \/ answer = "ok" /\ wire[p] = <<>> /\ Land(r) /\ wire' = wire
           \/ answer \in {"refused", "error"} /\ Keeps /\ wire' = wire
           \/ answer = "ctx" /\ Abandon(p, r)
        /\ Sent(p, op, answer)
  BY Zenon DEF Send, Sent, Keeps, kvVars
<1>2. /\ call' \in [Proc -> Call] /\ \A q \in Proc \ {p} : call'[q] = call[q]
      /\ call'[p].op = op /\ call'[p].res = answer
      /\ call'[p].rev = IF answer = "ok" THEN seq + 1 ELSE 0
  BY <1>0, <1>1, SentTypes
<1>3. el'[p].rev \in Nat /\ Learnt(p, el'[p].rev)
  BY <1>0, ProcTypes DEF ProcInv, NotLeading, Learnt, Known
<1>4. Learnt(p, 0)
  BY <1>0 DEF Learnt, Known
<1>5. CASE answer = "ok"
  <2>1. wire[p] = <<>> /\ Land(r) /\ wire' = wire
    BY Zenon, <1>1, <1>5
  <2>2. KeyStep(p) /\ (op = "create" => Creates(p)) /\ (op # "create" => Renews(p))
    BY Zenon, <1>0, <2>1, LandIsKeyStep DEF Learnt
  <2>3. Learnt(p, el[p].rev)' /\ WireOwn(p)' /\ NoCreate(p)'
    BY <1>3, <2>1, <2>2, OwnStays DEF NoCreate, Learnt, Known
  <2>4. Learnt(p, call[p].rev)'
    BY <1>0, <1>2, <1>5, <2>2 DEF Learnt, Known, Creates, Renews
  <2>5. TermOwn(p)'
    <3>1. CASE op = "create"
      BY <1>2, <1>5, <2>2, <2>3, <3>1 DEF TermOwn, Creates
    <3>2. CASE op # "create"
      BY <1>0, <1>2, <2>2, <2>3, <3>2 DEF ProcInv, TermOwn, Renews
    <3> QED BY Zenon, <3>1, <3>2
  <2> QED BY Zenon, <1>0, <1>2, <2>1, <2>2, <2>3, <2>4, <2>5 DEF ProcInv
<1>6. CASE answer # "ok"
  <2>1. Keeps /\ KeyStep(p) /\ WireOwn(p)' /\ wire' \in [Proc -> Seq(Request)] /\ \A q \in Proc \ {p} : wire'[q] = wire[q]
    BY Zenon, <1>0, <1>1, <1>6, OwnStays, AbandonKeepsWire DEF KeyStep
  <2>2. op # "create" /\ NoCreate(p) => NoCreate(p)'
    BY Zenon, <1>0, <1>1, <1>6, <2>1, OwnStays, AbandonKeepsWire
  <2>3. Learnt(p, el[p].rev)' /\ Learnt(p, call[p].rev)'
    BY Zenon, <1>2, <1>3, <1>4, <1>6, <2>1 DEF Learnt, Known, Keeps
  <2>4. TermOwn(p)'
    <3>1. CASE op = "create"
      BY Zenon, <1>2, <1>6, <3>1 DEF TermOwn
    <3>2. CASE op # "create"
      BY Zenon, <1>0, <1>2, <2>1, <2>2, <3>2 DEF ProcInv, TermOwn, Keeps
    <3> QED BY Zenon, <3>1, <3>2
  <2> QED BY Zenon, <1>2, <2>1, <2>3, <2>4 DEF ProcInv
<1> QED BY Zenon, <1>5, <1>6

-----------------------------------------------------------------------------
(* Every action keeps the invariant.                                       *)

\* It is enough that the acting process keeps its own part of it.
LEMMA StepKeeps ==
    ASSUME IInv, NEW p \in Proc, KeyStep(p), ProcInv(p)', TypeOK',
           \A q \in Proc \ {p} : el'[q] = el[q] /\ call'[q] = call[q] /\ wire'[q] = wire[q]
    PROVE  IInv'
<1>1. KeyInv'
  BY Zenon, KeyStepKeepsKey DEF IInv
<1>2. \A q \in Proc \ {p} : ProcInv(q)'
  BY Zenon, OthersKeep
<1> QED BY Zenon, <1>1, <1>2 DEF IInv

\* A step that leaves the key, the wire, the agent and its call alone.
LEMMA QuietKeeps ==
    ASSUME IInv, TypeOK', UNCHANGED <<key, seq, wire, el, call>>
    PROVE  IInv'
<1>1. \A p \in Proc : ProcInv(p)' /\ KeyInv'
  BY DEF IInv, ProcInv, KeyInv, Learnt, Known, WireOwn, TermOwn, NoCreate
<1>2. KeyInv'
  BY Zenon DEF IInv, KeyInv
<1> QED BY Zenon, <1>1, <1>2 DEF IInv

\* A tick of monitorLeadership, or the call of participateElection, sends an
\* Update with the revision the agent knows, or a Create when the agent does not
\* lead.
LEMMA TickKeeps == ASSUME IInv, NEW p \in Proc, Tick(p) PROVE IInv'
<1>0. TypeOK /\ ProcInv(p)
  BY Zenon DEF IInv
<1>1. el' = el /\ leader' = leader /\ calc' = calc /\ boot' = boot /\ stop' = stop
  BY Zenon DEF Tick
<1>2. \/ el[p].leads /\ \E op \in {"renew", "rerenew"} : Send(p, op, Update(p))
      \/ ~el[p].leads /\ Send(p, "create", Create(p))
  BY Zenon DEF Tick, RequestLeadership
<1>3. Learnt(p, Update(p).exp) /\ Learnt(p, Create(p).exp) /\ (~el[p].leads => el[p].term = 0)
  BY <1>0, RequestTypes DEF ProcInv, TermOwn, Learnt, Known, TypeOK
<1>4. /\ KeyStep(p) /\ wire' \in [Proc -> Seq(Request)] /\ call' \in [Proc -> Call]
      /\ \A q \in Proc \ {p} : wire'[q] = wire[q] /\ call'[q] = call[q]
      /\ ProcInv(p)'
  BY <1>0, <1>1, <1>2, <1>3, RequestTypes, SendKeeps
<1>5. TypeOK'
  BY Zenon, <1>0, <1>1, <1>4, KeyStepKeepsKey DEF IInv, TypeOK
<1> QED BY Zenon, <1>1, <1>4, <1>5, StepKeeps

\* A renewal of an agent that does not lead sends nothing (RenewLeadership).
LEMMA TickNotLeaderKeeps == ASSUME IInv, NEW p \in Proc, TickNotLeader(p) PROVE IInv'
<1>1. TypeOK'
  BY Zenon DEF IInv, TypeOK, TickNotLeader, kvVars
<1> QED BY Zenon, <1>1, QuietKeeps DEF TickNotLeader, kvVars

\* The answer to a call is taken over with the bucket at rest: the agent
\* keeps its lease and term, or forgets both.
LEMMA AnswerKeeps ==
    ASSUME IInv, NEW p \in Proc, UNCHANGED <<key, seq, wire>>,
           NEW e \in ElState, el' = [el EXCEPT ![p] = e], Learnt(p, e.rev),
           (e.leads = el[p].leads /\ e.term = el[p].term) \/ e = NotLeading,
           NEW c \in Call, call' = [call EXCEPT ![p] = c], c.rev = 0, c.op # "create"
    PROVE  /\ KeyStep(p) /\ el' \in [Proc -> ElState] /\ call' \in [Proc -> Call] /\ ProcInv(p)'
           /\ \A q \in Proc \ {p} : el'[q] = el[q] /\ call'[q] = call[q] /\ wire'[q] = wire[q]
<1>0. TypeOK /\ ProcInv(p) /\ el \in [Proc -> ElState] /\ call \in [Proc -> Call] /\ seq \in Nat
  BY Zenon DEF IInv, TypeOK
<1>1. el'[p] = e /\ call'[p] = c
  BY Zenon, <1>0
<1>2. Learnt(p, el[p].rev)' /\ Learnt(p, call[p].rev)' /\ WireOwn(p)'
  BY <1>0, <1>1 DEF ProcInv, WireOwn, Learnt, Known
<1>3. TermOwn(p)'
  BY <1>0, <1>1 DEF ProcInv, TermOwn, NoCreate, NotLeading
<1> QED BY Zenon, <1>0, <1>2, <1>3 DEF ProcInv, KeyStep, Keeps

\* An agent with no election call under way, and one that starts its
\* calculator, have an empty answer.
LEMMA NoCallType == NoCall \in Call /\ NoCall.rev = 0 /\ NoCall.op = "none"
                    /\ [NoCall EXCEPT !.op = "startcalc"] \in Call
                    /\ [NoCall EXCEPT !.op = "startcalc"].rev = 0 /\ [NoCall EXCEPT !.op = "startcalc"].op = "startcalc"
BY Zenon DEF NoCall, Call

\* An agent that takes over the revision of an answer changes nothing else.
LEMMA AgentTypes ==
    ASSUME TypeOK, NEW p \in Proc, NEW n \in Nat
    PROVE  /\ NotLeading \in ElState /\ NotLeading.rev = 0 /\ Learnt(p, 0)
           /\ [el EXCEPT ![p].rev = n] = [el EXCEPT ![p] = [el[p] EXCEPT !.rev = n]]
           /\ [el[p] EXCEPT !.rev = n] \in ElState
           /\ [el[p] EXCEPT !.rev = n].rev = n
           /\ [el[p] EXCEPT !.rev = n].leads = el[p].leads
           /\ [el[p] EXCEPT !.rev = n].term = el[p].term
<1>1. NotLeading \in ElState /\ NotLeading.rev = 0 /\ Learnt(p, 0)
  BY DEF NotLeading, ElState, Learnt, Known, TypeOK
<1>2. el[p] \in ElState /\ el \in [Proc -> ElState]
  BY Zenon, ProcTypes DEF TypeOK
<1> QED BY Zenon, <1>1, <1>2 DEF ElState

\* The answer of a renewal is the agent's next revision, a refusal ends its
\* term (monitorLeadership).
LEMMA RenewDoneKeeps == ASSUME IInv, NEW p \in Proc, RenewDone(p) PROVE IInv'
<1>0. TypeOK /\ ProcInv(p) /\ el \in [Proc -> ElState] /\ call[p].rev \in Nat /\ el[p] \in ElState
  BY Zenon, ProcTypes DEF IInv, TypeOK
<1>1. PICK e \in ElState :
        /\ el' = [el EXCEPT ![p] = e] /\ Learnt(p, e.rev)
        /\ (e.leads = el[p].leads /\ e.term = el[p].term) \/ e = NotLeading
  <2>1. CASE el' = [el EXCEPT ![p].rev = call[p].rev]
    <3> DEFINE e == [el[p] EXCEPT !.rev = call[p].rev]
    <3>1. e \in ElState /\ el' = [el EXCEPT ![p] = e] /\ Learnt(p, e.rev) /\ e.leads = el[p].leads /\ e.term = el[p].term
      BY Zenon, <1>0, <2>1, AgentTypes DEF ProcInv
    <3> QED BY Zenon, <3>1
  <2>2. CASE el' = el
    <3>1. el' = [el EXCEPT ![p] = el[p]]
      BY Zenon, <1>0, <2>2
    <3> QED BY Zenon, <1>0, <3>1 DEF ProcInv
  <2>3. CASE el' = [el EXCEPT ![p] = NotLeading]
    BY Zenon, <1>0, <2>3, AgentTypes
  <2> QED BY Zenon, <2>1, <2>2, <2>3 DEF RenewDone
<1>2. call' = [call EXCEPT ![p] = NoCall] /\ UNCHANGED <<key, seq, wire, boot, stop>>
  BY Zenon DEF RenewDone, kvVars
<1>3. /\ KeyStep(p) /\ el' \in [Proc -> ElState] /\ call' \in [Proc -> Call] /\ ProcInv(p)'
      /\ \A q \in Proc \ {p} : el'[q] = el[q] /\ call'[q] = call[q] /\ wire'[q] = wire[q]
  BY Zenon, <1>1, <1>2, AnswerKeeps, NoCallType
<1>4. leader' \in [Proc -> BOOLEAN] /\ calc' \in [Proc -> BOOLEAN]
  BY Zenon, <1>0 DEF RenewDone, TypeOK
<1>5. TypeOK'
  BY Zenon, <1>0, <1>2, <1>3, <1>4 DEF TypeOK
<1> QED BY Zenon, <1>3, <1>5, StepKeeps

\* The same for the renewal that RequestLeadership makes of a lease it holds; a
\* lease that turns out to be lost falls through to a Create.
LEMMA RerenewDoneKeeps == ASSUME IInv, NEW p \in Proc, RerenewDone(p) PROVE IInv'
<1>0. TypeOK /\ ProcInv(p) /\ el \in [Proc -> ElState] /\ call[p].rev \in Nat /\ el[p] \in ElState
  BY Zenon, ProcTypes DEF IInv, TypeOK
<1>t. leader' \in [Proc -> BOOLEAN] /\ UNCHANGED <<calc, boot, stop>>
  BY Zenon, <1>0 DEF RerenewDone, TypeOK
<1>1. CASE /\ el' = [el EXCEPT ![p].rev = call[p].rev] /\ call' = [call EXCEPT ![p] = [NoCall EXCEPT !.op = "startcalc"]]
           /\ UNCHANGED kvVars
  <2> DEFINE e == [el[p] EXCEPT !.rev = call[p].rev]
  <2>1. e \in ElState /\ el' = [el EXCEPT ![p] = e] /\ Learnt(p, e.rev) /\ e.leads = el[p].leads /\ e.term = el[p].term
    BY Zenon, <1>0, <1>1, AgentTypes DEF ProcInv
  <2> HIDE DEF e
  <2>2. /\ KeyStep(p) /\ el' \in [Proc -> ElState] /\ call' \in [Proc -> Call] /\ ProcInv(p)'
        /\ \A q \in Proc \ {p} : el'[q] = el[q] /\ call'[q] = call[q] /\ wire'[q] = wire[q]
    BY Zenon, <1>1, <2>1, AnswerKeeps, NoCallType DEF kvVars
  <2>3. TypeOK'
    BY Zenon, <1>0, <1>t, <1>1, <2>2 DEF TypeOK, kvVars
  <2> QED BY Zenon, <2>2, <2>3, StepKeeps
<1>2. CASE call' = [call EXCEPT ![p] = NoCall] /\ UNCHANGED <<kvVars, el>>
  <2>1. el' = [el EXCEPT ![p] = el[p]] /\ Learnt(p, el[p].rev)
    BY Zenon, <1>0, <1>2 DEF ProcInv
  <2>2. /\ KeyStep(p) /\ el' \in [Proc -> ElState] /\ call' \in [Proc -> Call] /\ ProcInv(p)'
        /\ \A q \in Proc \ {p} : el'[q] = el[q] /\ call'[q] = call[q] /\ wire'[q] = wire[q]
    BY Zenon, <1>0, <1>2, <2>1, AnswerKeeps, NoCallType DEF kvVars
  <2>3. TypeOK'
    BY Zenon, <1>0, <1>t, <1>2, <2>2 DEF TypeOK, kvVars
  <2> QED BY Zenon, <2>2, <2>3, StepKeeps
<1>3. CASE el' = [el EXCEPT ![p] = NotLeading] /\ Send(p, "create", Create(p))
  <2>1. el'[p] = NotLeading /\ el' \in [Proc -> ElState] /\ \A q \in Proc \ {p} : el'[q] = el[q]
    BY Zenon, <1>0, <1>3, AgentTypes
  <2>2. ~el'[p].leads /\ el'[p].term = 0 /\ Learnt(p, Create(p).exp)
    <3>1. Learnt(p, 0)
      BY Zenon, <1>0, AgentTypes
    <3>2. Create(p).exp = 0
      BY Zenon DEF Create
    <3> QED BY <2>1, <3>1, <3>2 DEF NotLeading
  <2>3. /\ KeyStep(p) /\ wire' \in [Proc -> Seq(Request)] /\ call' \in [Proc -> Call]
        /\ \A q \in Proc \ {p} : wire'[q] = wire[q] /\ call'[q] = call[q]
        /\ ProcInv(p)'
    BY Zenon, <1>0, <1>3, <2>1, <2>2, RequestTypes, SendKeeps
  <2>4. TypeOK'
    BY Zenon, <1>0, <1>t, <2>1, <2>3, KeyStepKeepsKey DEF IInv, TypeOK
  <2> QED BY Zenon, <2>1, <2>3, <2>4, StepKeeps
<1> QED BY Zenon, <1>1, <1>2, <1>3 DEF RerenewDone

\* The answer of a Create begins a term of the agent's own, numbered by the
\* revision the server gave it (RequestLeadership).
LEMMA CreateDoneKeeps == ASSUME IInv, NEW p \in Proc, CreateDone(p) PROVE IInv'
<1>0. /\ TypeOK /\ ProcInv(p) /\ el \in [Proc -> ElState] /\ call \in [Proc -> Call] /\ seq \in Nat
      /\ call[p].rev \in Nat /\ el[p] \in ElState
  BY Zenon, ProcTypes DEF IInv, TypeOK
<1>1. UNCHANGED <<key, seq, wire, calc>> /\ call[p].op = "create"
  BY Zenon DEF CreateDone, kvVars
<1>2. PICK c \in Call : call' = [call EXCEPT ![p] = c] /\ c.rev = 0 /\ c.op # "create"
  BY Zenon, NoCallType DEF CreateDone
<1>3. call' \in [Proc -> Call] /\ call'[p] = c
  BY Zenon, <1>0, <1>2
<1>4. leader' \in [Proc -> BOOLEAN]
  BY Zenon, <1>0 DEF CreateDone, TypeOK
<1>5. boot' \in [Proc -> {"boot", "elected", "starting", "done"}]
  BY Zenon, <1>0 DEF CreateDone, TypeOK
<1>6. stop' \in [Proc -> {"no", "delete", "drain", "stopped"}]
  BY Zenon, <1>0 DEF CreateDone, TypeOK
<1>7. CASE call[p].res = "ok"
  <2> DEFINE e == [leads |-> TRUE, rev |-> call[p].rev, term |-> call[p].rev]
  <2>1. el' = [el EXCEPT ![p] = e] /\ e \in ElState
    BY Zenon, <1>0, <1>7 DEF CreateDone, ElState
  <2>2. el'[p] = e /\ el' \in [Proc -> ElState]
    BY Zenon, <1>0, <2>1
  <2>3. NoCreate(p) /\ (key.by = p => key.term = call[p].rev)
    BY Zenon, <1>0, <1>1, <1>7 DEF ProcInv, TermOwn
  <2>4. ProcInv(p)'
    <3>1. Learnt(p, el[p].rev)' /\ Learnt(p, call[p].rev)' /\ WireOwn(p)'
      BY <1>0, <1>1, <1>2, <1>3, <2>2 DEF ProcInv, WireOwn, Learnt, Known
    <3>2. TermOwn(p)'
      BY <1>1, <1>2, <1>3, <2>2, <2>3 DEF TermOwn, NoCreate
    <3> QED BY Zenon, <3>1, <3>2 DEF ProcInv
  <2>5. TypeOK'
    BY Zenon, <1>0, <1>1, <1>3, <1>4, <1>5, <1>6, <2>2 DEF TypeOK
  <2>6. \A q \in Proc \ {p} : el'[q] = el[q] /\ call'[q] = call[q] /\ wire'[q] = wire[q]
    BY Zenon, <1>0, <1>1, <1>2, <2>1
  <2> QED BY Zenon, <1>1, <2>4, <2>5, <2>6, StepKeeps DEF KeyStep, Keeps
<1>8. CASE call[p].res # "ok"
  <2>1. el' = [el EXCEPT ![p] = el[p]] /\ Learnt(p, el[p].rev)
    BY Zenon, <1>0, <1>8 DEF CreateDone, ProcInv
  <2>2. /\ KeyStep(p) /\ el' \in [Proc -> ElState] /\ call' \in [Proc -> Call] /\ ProcInv(p)'
        /\ \A q \in Proc \ {p} : el'[q] = el[q] /\ call'[q] = call[q] /\ wire'[q] = wire[q]
    BY Zenon, <1>0, <1>1, <1>2, <2>1, AnswerKeeps
  <2>3. TypeOK'
    BY Zenon, <1>0, <1>1, <1>4, <1>5, <1>6, <2>2 DEF TypeOK
  <2> QED BY Zenon, <2>2, <2>3, StepKeeps
<1> QED BY Zenon, <1>7, <1>8

\* ReleaseLeadership: the Delete is answered and the agent forgets its lease,
\* or it is abandoned and the agent keeps it.
LEMMA DeleteKeeps ==
    ASSUME IInv, NEW p \in Proc,
           \/ wire[p] = <<>> /\ Land(Delete(p)) /\ el' = [el EXCEPT ![p] = NotLeading] /\ wire' = wire
           \/ Abandon(p, Delete(p)) /\ el' = el,
           call'[p] = call[p] \/ call'[p] = NoCall
    PROVE  /\ KeyStep(p) /\ wire' \in [Proc -> Seq(Request)] /\ el' \in [Proc -> ElState]
           /\ \A q \in Proc \ {p} : wire'[q] = wire[q] /\ el'[q] = el[q]
           /\ ProcInv(p)'
<1>0. /\ TypeOK /\ ProcInv(p) /\ el \in [Proc -> ElState] /\ wire \in [Proc -> Seq(Request)] /\ seq \in Nat
      /\ el[p].rev \in Nat /\ call[p].rev \in Nat
  BY Zenon, ProcTypes DEF IInv, TypeOK
<1>1. /\ Delete(p) \in Request /\ Delete(p).by = p /\ Delete(p).op = "delete" /\ Learnt(p, Delete(p).exp)
  <2>1. Learnt(p, 0)
    BY Zenon, <1>0, AgentTypes
  <2> QED BY Zenon, <1>0, <2>1, RequestTypes
<1>2. call'[p].rev \in {0, call[p].rev} /\ (call'[p].op = "create" => call'[p] = call[p])
  BY Zenon, NoCallType
<1>3. CASE wire[p] = <<>> /\ Land(Delete(p)) /\ el' = [el EXCEPT ![p] = NotLeading] /\ wire' = wire
  <2>1. Removes /\ KeyStep(p)
    BY Zenon, <1>0, <1>1, <1>3, LandIsKeyStep DEF Learnt
  <2>2. el'[p] = NotLeading /\ el' \in [Proc -> ElState] /\ \A q \in Proc \ {p} : el'[q] = el[q]
    BY Zenon, <1>0, <1>3, AgentTypes
  <2>3. Learnt(p, 0)' /\ Learnt(p, call[p].rev) /\ \A n \in Nat : Learnt(p, n) => Learnt(p, n)'
    BY Zenon, <1>0, <2>1, OwnStays, AgentTypes DEF ProcInv
  <2>4. Learnt(p, el[p].rev)' /\ Learnt(p, call[p].rev)'
    BY <1>0, <1>2, <2>2, <2>3 DEF NotLeading, Learnt, Known
  <2>5. TermOwn(p)'
    BY <1>2, <1>3, <2>1, <2>2, NobodyIsNoProc DEF TermOwn, NoCreate, NotLeading, Removes, NoKey
  <2>6. WireOwn(p)'
    BY Zenon, <1>3, <2>1, OwnStays
  <2> QED BY Zenon, <1>0, <1>3, <2>1, <2>2, <2>4, <2>5, <2>6 DEF ProcInv
<1>4. CASE Abandon(p, Delete(p)) /\ el' = el
  <2>1. /\ Keeps /\ wire' \in [Proc -> Seq(Request)] /\ WireOwn(p)'
        /\ \A q \in Proc \ {p} : wire'[q] = wire[q]
        /\ (NoCreate(p) => NoCreate(p)')
    BY Zenon, <1>0, <1>1, <1>4, AbandonKeepsWire
  <2>2. Learnt(p, el[p].rev)' /\ Learnt(p, call[p].rev)'
    BY <1>0, <1>2, <1>4, <2>1 DEF ProcInv, Learnt, Known, Keeps
  <2>3. TermOwn(p)'
    BY Zenon, <1>0, <1>2, <1>4, <2>1 DEF ProcInv, TermOwn, Keeps
  <2> QED BY Zenon, <1>0, <1>4, <2>1, <2>2, <2>3 DEF ProcInv, KeyStep
<1> QED BY Zenon, <1>3, <1>4

\* A calculator that fails to start releases the lease
\* (releaseLeadershipAfterCalculatorFailure): the Delete may be sent, and then
\* lands or is given up while it is on the wire.
LEMMA StartCalcKeeps == ASSUME IInv, NEW p \in Proc, StartCalc(p) PROVE IInv'
<1>0. /\ TypeOK /\ ProcInv(p) /\ el \in [Proc -> ElState] /\ call \in [Proc -> Call] /\ el[p] \in ElState
  BY Zenon, ProcTypes DEF IInv, TypeOK
<1>1. call' = [call EXCEPT ![p] = NoCall] /\ UNCHANGED <<boot, stop>>
  BY Zenon DEF StartCalc
<1>2. call' \in [Proc -> Call] /\ call'[p] = NoCall /\ \A q \in Proc \ {p} : call'[q] = call[q]
  BY Zenon, <1>0, <1>1, NoCallType
<1>3. leader' \in [Proc -> BOOLEAN] /\ calc' \in [Proc -> BOOLEAN]
  BY Zenon, <1>0 DEF StartCalc, TypeOK
<1>4. CASE UNCHANGED <<key, seq, wire, el>>
  <2>1. el' = [el EXCEPT ![p] = el[p]] /\ Learnt(p, el[p].rev)
    BY Zenon, <1>0, <1>4 DEF ProcInv
  <2>2. /\ KeyStep(p) /\ el' \in [Proc -> ElState] /\ ProcInv(p)'
        /\ \A q \in Proc \ {p} : el'[q] = el[q] /\ wire'[q] = wire[q]
    BY Zenon, <1>0, <1>1, <1>4, <2>1, AnswerKeeps, NoCallType
  <2>3. TypeOK'
    BY Zenon, <1>0, <1>1, <1>2, <1>3, <1>4 DEF TypeOK
  <2> QED BY Zenon, <1>2, <2>2, <2>3, StepKeeps
<1>5. CASE \/ wire[p] = <<>> /\ Land(Delete(p)) /\ el' = [el EXCEPT ![p] = NotLeading] /\ wire' = wire
           \/ Abandon(p, Delete(p)) /\ el' = el
  <2>1. /\ KeyStep(p) /\ wire' \in [Proc -> Seq(Request)] /\ el' \in [Proc -> ElState]
        /\ \A q \in Proc \ {p} : wire'[q] = wire[q] /\ el'[q] = el[q]
        /\ ProcInv(p)'
    BY Zenon, <1>2, <1>5, DeleteKeeps
  <2>2. TypeOK'
    BY Zenon, <1>0, <1>1, <1>2, <1>3, <2>1, KeyStepKeepsKey DEF IInv, TypeOK
  <2> QED BY Zenon, <1>2, <2>1, <2>2, StepKeeps
<1> QED BY Zenon, <1>4, <1>5 DEF StartCalc, kvVars

\* The release that Stop makes removes the key, whoever holds it.
LEMMA StopDeleteKeeps == ASSUME IInv, NEW p \in Proc, StopDelete(p) PROVE IInv'
<1>0. TypeOK
  BY Zenon DEF IInv
<1>1. UNCHANGED <<leader, calc, call, boot>> /\ stop' = [stop EXCEPT ![p] = "drain"]
  BY Zenon DEF StopDelete
<1>2. /\ KeyStep(p) /\ wire' \in [Proc -> Seq(Request)] /\ el' \in [Proc -> ElState]
      /\ \A q \in Proc \ {p} : wire'[q] = wire[q] /\ el'[q] = el[q]
      /\ ProcInv(p)'
  BY Zenon, <1>1, DeleteKeeps DEF StopDelete
<1>3. TypeOK'
  BY Zenon, <1>0, <1>1, <1>2, KeyStepKeepsKey DEF IInv, TypeOK
<1> QED BY Zenon, <1>1, <1>2, <1>3, StepKeeps

\* A late request arrives or is lost.  A late Create of p finds p without a
\* term: that is what keeps the live term the one p remembers.
LEMMA DeliverKeeps == ASSUME IInv, NEW p \in Proc, Deliver(p) PROVE IInv'
<1>0. /\ TypeOK /\ ProcInv(p) /\ wire \in [Proc -> Seq(Request)] /\ wire[p] \in Seq(Request) /\ seq \in Nat
      /\ el[p].rev \in Nat /\ call[p].rev \in Nat
  BY Zenon, ProcTypes DEF IInv, TypeOK
<1>1. /\ wire[p] # <<>> /\ wire' = [wire EXCEPT ![p] = Tail(wire[p])]
      /\ UNCHANGED <<el, leader, calc, call, boot, stop>>
  BY Zenon DEF Deliver
<1> DEFINE r == Head(wire[p])
<1>2. 1 \in DOMAIN wire[p] /\ r = wire[p][1] /\ r \in Request /\ Tail(wire[p]) \in Seq(Request)
  BY <1>0, <1>1
<1>3. wire' \in [Proc -> Seq(Request)] /\ wire'[p] = Tail(wire[p]) /\ \A q \in Proc \ {p} : wire'[q] = wire[q]
  BY Zenon, <1>0, <1>1, <1>2
<1>4. \A i \in DOMAIN wire'[p] : i + 1 \in DOMAIN wire[p] /\ wire'[p][i] = wire[p][i + 1]
  BY <1>0, <1>1, <1>3
<1>5. r.by = p /\ Learnt(p, r.exp)
  BY Zenon, <1>0, <1>2 DEF ProcInv, WireOwn
<1>6. KeyStep(p) /\ (Creates(p) => Keeps \/ r.op = "create")
  <2>1. CASE Land(r)
    <3>1. /\ KeyStep(p) /\ (r.op = "update" => Renews(p)) /\ (r.op = "delete" => Removes)
      BY Zenon, <1>0, <1>2, <1>5, <2>1, LandIsKeyStep DEF Learnt
    <3>2. Creates(p) => key' # NoKey /\ key.rev = 0 /\ key'.term = seq + 1
      BY <1>0 DEF Creates, NoKey
    <3>3. r.op = "update" => key.rev # 0
      BY Zenon, <2>1 DEF Land, Accepts
    <3> QED BY Zenon, <1>2, <3>1, <3>2, <3>3 DEF Request, Removes
  <2>2. CASE UNCHANGED <<key, seq>>
    BY Zenon, <2>2 DEF KeyStep, Keeps
  <2> QED BY Zenon, <2>1, <2>2 DEF Deliver
<1>7. WireOwn(p)'
  <2>1. \A n \in Nat : Learnt(p, n) => Learnt(p, n)'
    BY Zenon, <1>6, OwnStays
  <2>2. \A i \in DOMAIN wire[p] : wire[p][i].exp \in Nat /\ wire[p][i].by = p /\ Learnt(p, wire[p][i].exp)
    BY Zenon, <1>0, ProcTypes DEF ProcInv, WireOwn, Request
  <2> QED BY <1>4, <2>1, <2>2 DEF WireOwn, Learnt, Known
<1>8. Learnt(p, el[p].rev)' /\ Learnt(p, call[p].rev)'
  <2>1. \A n \in Nat : Learnt(p, n) => Learnt(p, n)'
    BY Zenon, <1>6, OwnStays
  <2> QED BY Zenon, <1>0, <1>1, <2>1 DEF ProcInv, Learnt, Known
<1>9. TermOwn(p)'
  <2>1. NoCreate(p) => NoCreate(p)' /\ r.op # "create"
    BY Zenon, <1>2, <1>4 DEF NoCreate
  <2>2. NoCreate(p) => \A t : (key.by = p => key.term = t) => (key'.by = p => key'.term = t)
    <3>1. SUFFICES ASSUME NoCreate(p) PROVE \A t : (key.by = p => key.term = t) => (key'.by = p => key'.term = t)
      OBVIOUS
    <3>2. CASE Creates(p)
      BY Zenon, <1>6, <2>1, <3>1, <3>2 DEF Keeps
    <3>3. CASE ~Creates(p)
      BY Zenon, <1>0, <1>6, <3>3, TermStays
    <3> QED BY Zenon, <3>2, <3>3
  <2>3. TermOwn(p)
    BY Zenon, <1>0 DEF ProcInv
  <2> QED BY Zenon, <1>1, <2>1, <2>2, <2>3 DEF TermOwn
<1>10. TypeOK'
  BY Zenon, <1>0, <1>1, <1>3, <1>6, KeyStepKeepsKey DEF IInv, TypeOK
<1> QED BY Zenon, <1>1, <1>3, <1>6, <1>7, <1>8, <1>9, <1>10, StepKeeps DEF ProcInv

\* The bucket's TTL removes the key; what an agent knows of it stays true.
LEMMA ExpireKeeps == ASSUME IInv, Expire PROVE IInv'
<1>1. Removes /\ UNCHANGED <<seq, wire, el, leader, calc, call, boot, stop>>
  BY Zenon DEF Expire, Removes
<1>2. TypeOK'
  BY Zenon, <1>1 DEF IInv, TypeOK, Removes, NoKey, Key
<1>3. KeyInv'
  BY <1>1 DEF IInv, TypeOK, KeyInv, Removes, NoKey
<1>4. ASSUME NEW q \in Proc PROVE ProcInv(q)'
  <2>1. KeyStep(q) /\ ~Creates(q)
    BY <1>1 DEF KeyStep, Removes, Creates, IInv, TypeOK, NoKey
  <2> QED BY Zenon, <1>1, <2>1, OthersKeep
<1> QED BY Zenon, <1>2, <1>3, <1>4 DEF IInv

\* The other steps of Start and Stop touch neither the lease nor the agent.
LEMMA StartStopKeep ==
    ASSUME IInv, NEW p \in Proc, StartReadsLeader(p) \/ StartStartsCalc(p) \/ Stop(p) \/ StopDrain(p)
    PROVE  IInv'
<1>0. TypeOK
  BY Zenon DEF IInv
<1>1. TypeOK'
  <2>1. CASE StartReadsLeader(p)
    BY Zenon, <1>0, <2>1 DEF TypeOK, StartReadsLeader, kvVars
  <2>2. CASE StartStartsCalc(p)
    BY Zenon, <1>0, <2>2 DEF TypeOK, StartStartsCalc, kvVars
  <2>3. CASE Stop(p)
    BY Zenon, <1>0, <2>3 DEF TypeOK, Stop, kvVars
  <2>4. CASE StopDrain(p)
    BY Zenon, <1>0, <2>4 DEF TypeOK, StopDrain, kvVars
  <2> QED BY Zenon, <2>1, <2>2, <2>3, <2>4
<1>2. UNCHANGED <<key, seq, wire, el, call>>
  BY Zenon DEF StartReadsLeader, StartStartsCalc, Stop, StopDrain, kvVars
<1> QED BY Zenon, <1>1, <1>2, QuietKeeps

\* NewNATSElection starts from an empty bucket and knows no revision.
LEMMA InitIInv == Init => IInv
<1>1. SUFFICES ASSUME Init PROVE IInv
  OBVIOUS
<1>2. TypeOK
  <2>1. <<>> \in Seq(Request)
    OBVIOUS
  <2> QED BY Zenon, <1>1, <2>1 DEF Init, TypeOK, NoKey, Key, NotLeading, ElState, NoCall, Call
<1>3. KeyInv /\ \A p \in Proc : ProcInv(p)
  BY <1>1, NobodyIsNoProc DEF Init, KeyInv, ProcInv, Learnt, Known, WireOwn, TermOwn, NoCreate, NoKey, NotLeading, NoCall
<1> QED BY Zenon, <1>2, <1>3 DEF IInv

\* Every step of the election, of Start and Stop and of the network keeps it.
LEMMA NextIInv == IInv /\ [Next]_vars => IInv'
<1>1. SUFFICES ASSUME IInv, [Next]_vars PROVE IInv'
  OBVIOUS
<1>2. CASE UNCHANGED vars
  BY Zenon, <1>1, <1>2, QuietKeeps DEF vars, IInv, TypeOK
<1>3. CASE Next
  BY Zenon, <1>1, <1>3, TickKeeps, TickNotLeaderKeeps, RenewDoneKeeps, RerenewDoneKeeps, CreateDoneKeeps, StartCalcKeeps,
     StopDeleteKeeps, StartStopKeep, DeliverKeeps, ExpireKeeps DEF Next
<1> QED BY Zenon, <1>1, <1>2, <1>3

\* The state of every agent stays well-formed, what a process holds a revision
\* of is its own, and a process that counts itself the leader has no Create
\* under way.
THEOREM InductiveInvariant == Spec => []IInv
BY InitIInv, NextIInv, PTL DEF Spec

-----------------------------------------------------------------------------
(* The properties.                                                         *)

\* The writes of p reach the key as its own requests.
LEMMA SendMovesKey ==
    ASSUME IInv, NEW p \in Proc, NEW op, NEW r \in Request, r.by = p, Known(p, r.exp), Send(p, op, r)
    PROVE  KeyStep(p)
<1>1. Land(r) \/ Keeps
  BY Zenon DEF Send, Abandon, Keeps, kvVars
<1> QED BY Zenon, <1>1, LandIsKeyStep DEF IInv, KeyStep

\* Every step of the program moves the key in one of the four ways.
LEMMA StepMovesKey ==
    ASSUME IInv, [Next]_vars
    PROVE  Removes \/ Keeps \/ \E p \in Proc : Creates(p) \/ Renews(p)
<1>0. TypeOK
  BY Zenon DEF IInv
<1>1. ASSUME NEW p \in Proc PROVE Known(p, Update(p).exp) /\ Known(p, Create(p).exp) /\ Known(p, Delete(p).exp)
  BY <1>0, RequestTypes DEF IInv, ProcInv, Learnt, Known
<1>2. CASE UNCHANGED <<key, seq>>
  BY Zenon, <1>2 DEF Keeps
<1>3. ASSUME NEW p \in Proc, Tick(p) \/ RerenewDone(p) PROVE KeyStep(p)
  <2>1. CASE UNCHANGED <<key, seq>>
    BY Zenon, <2>1 DEF KeyStep, Keeps
  <2>2. CASE \E op : Send(p, op, Update(p)) \/ Send(p, op, Create(p))
    BY Zenon, <1>0, <1>1, <2>2, RequestTypes, SendMovesKey
  <2> QED BY Zenon, <1>3, <2>1, <2>2 DEF Tick, RequestLeadership, RerenewDone, kvVars
<1>4. ASSUME NEW p \in Proc, StartCalc(p) \/ StopDelete(p) PROVE KeyStep(p)
  <2>1. UNCHANGED <<key, seq>> \/ Land(Delete(p))
    BY Zenon, <1>4 DEF StartCalc, StopDelete, Abandon, kvVars
  <2> QED BY Zenon, <1>0, <1>1, <2>1, RequestTypes, LandIsKeyStep DEF KeyStep, Keeps
<1>5. ASSUME NEW p \in Proc, Deliver(p) PROVE KeyStep(p)
  <2>1. wire[p] \in Seq(Request) /\ wire[p] # <<>>
    BY Zenon, <1>0, <1>5, ProcTypes DEF Deliver
  <2>2. Head(wire[p]) = wire[p][1] /\ 1 \in DOMAIN wire[p] /\ Head(wire[p]) \in Request
    BY <2>1
  <2>3. Head(wire[p]).by = p /\ Known(p, Head(wire[p]).exp)
    BY Zenon, <2>2 DEF IInv, ProcInv, WireOwn, Learnt
  <2> QED BY Zenon, <1>0, <1>5, <2>2, <2>3, LandIsKeyStep DEF Deliver, KeyStep, Keeps
<1>6. CASE Expire
  BY Zenon, <1>6 DEF Expire, Removes
<1>7. ASSUME NEW p \in Proc,
             \/ TickNotLeader(p) \/ RenewDone(p) \/ CreateDone(p) \/ StartReadsLeader(p)
             \/ StartStartsCalc(p) \/ Stop(p) \/ StopDrain(p)
      PROVE  UNCHANGED <<key, seq>>
  BY Zenon, <1>7 DEF TickNotLeader, RenewDone, CreateDone, StartReadsLeader, StartStartsCalc, Stop, StopDrain, kvVars
<1> QED BY Zenon, <1>2, <1>3, <1>4, <1>5, <1>6, <1>7 DEF Next, vars, KeyStep

\* A lease is never taken from its holder, and a leadership check that passes
\* speaks of the live term (RequestLeadership, RenewLeadership,
\* CheckLeadership): however many processes, however late their requests.
THEOREM LeaseFenced == Spec => TermsAreFenced
<1>1. IInv => \A p \in Proc : CheckPasses(p, el[p].term) => key.by = p /\ key.term = el[p].term
  <2>1. SUFFICES ASSUME IInv, NEW p \in Proc, CheckPasses(p, el[p].term)
                 PROVE  key.by = p /\ key.term = el[p].term
    OBVIOUS
  <2>2. key.by = p
    BY Zenon, <2>1, OwnWorkerIDs DEF CheckPasses, IInv, KeyInv
  <2>3. el[p].term # 0 /\ TermOwn(p)
    BY Zenon, <2>1 DEF CheckPasses, IInv, ProcInv
  <2> QED BY Zenon, <2>2, <2>3 DEF TermOwn
<1>2. IInv /\ [Next]_vars => [key.rev # 0 /\ key'.rev # 0 => key'.by = key.by /\ key'.term = key.term]_vars
  <2>1. SUFFICES ASSUME IInv, [Next]_vars, key.rev # 0, key'.rev # 0
                 PROVE  key'.by = key.by /\ key'.term = key.term
    OBVIOUS
  <2>2. Keeps \/ \E p \in Proc : Renews(p)
    BY <2>1, StepMovesKey DEF Removes, NoKey, Creates
  <2> QED BY <2>2 DEF Keeps, Renews
<1> QED BY <1>1, <1>2, InductiveInvariant, PTL DEF Spec, TermsAreFenced

\* Stop leaves no calculator running, whatever election call or Start was in
\* flight when it began (Manager.Stop, startCalculator).
THEOREM StopLeavesNoCalculator == Spec => []NoCalculatorAfterStop
<1>1. Init => NoCalculatorAfterStop
  BY Zenon DEF Init, NoCalculatorAfterStop
<1>2. IInv /\ NoCalculatorAfterStop /\ [Next]_vars => NoCalculatorAfterStop'
  <2>1. SUFFICES ASSUME TypeOK, NoCalculatorAfterStop, [Next]_vars, NEW q \in Proc, stop'[q] = "stopped"
                 PROVE  ~calc'[q]
    BY Zenon DEF IInv, NoCalculatorAfterStop
  <2>0. stop \in [Proc -> {"no", "delete", "drain", "stopped"}] /\ calc \in [Proc -> BOOLEAN]
    BY Zenon, <2>1 DEF TypeOK
  <2>2. CASE UNCHANGED <<stop, calc>>
    BY Zenon, <2>1, <2>2 DEF NoCalculatorAfterStop
  <2>3. ASSUME NEW p \in Proc, RenewDone(p) \/ TickNotLeader(p) PROVE ~calc'[q]
    BY Zenon, <2>0, <2>1, <2>3 DEF RenewDone, TickNotLeader, NoCalculatorAfterStop
  <2>4. ASSUME NEW p \in Proc, CreateDone(p) PROVE ~calc'[q]
    BY Zenon, <2>0, <2>1, <2>4 DEF CreateDone, NoCalculatorAfterStop
  <2>5. ASSUME NEW p \in Proc, StartCalc(p) PROVE ~calc'[q]
    BY Zenon, <2>0, <2>1, <2>5 DEF StartCalc, Alive, NoCalculatorAfterStop
  <2>6. ASSUME NEW p \in Proc, StartStartsCalc(p) PROVE ~calc'[q]
    BY Zenon, <2>0, <2>1, <2>6 DEF StartStartsCalc, Alive, NoCalculatorAfterStop
  <2>7. ASSUME NEW p \in Proc, Stop(p) \/ StopDelete(p) \/ StopDrain(p) PROVE ~calc'[q]
    BY Zenon, <2>0, <2>1, <2>7 DEF Stop, StopDelete, StopDrain, Alive, NoCalculatorAfterStop
  <2>8. ASSUME NEW p \in Proc, Tick(p) \/ RerenewDone(p) \/ StartReadsLeader(p) \/ Deliver(p)
        PROVE  UNCHANGED <<stop, calc>>
    BY Zenon, <2>8 DEF Tick, RerenewDone, StartReadsLeader, Deliver
  <2> QED BY Zenon, <2>1, <2>2, <2>3, <2>4, <2>5, <2>6, <2>7, <2>8 DEF Next, vars, Expire
<1> QED BY <1>1, <1>2, InductiveInvariant, PTL DEF Spec

-----------------------------------------------------------------------------
(* The calculator's rebalances *)

Where == {"idle", "tail", "decide", "emit", "window", "run", "publish", "return"}

Goroutines ==
    /\ at \in [G -> Where]
    /\ snap \in [G -> [w : SUBSET Peer, src : Nat]]
    /\ alive \in SUBSET Peer
    /\ src \in Nat /\ pub \in [w : SUBSET Peer, src : Nat]

\* A goroutine that is about to publish holds rebalanceMu, and what it read is
\* between what is published and what the source holds now.
Publishing(g) == rebMu = g /\ pub.src <= snap[g].src /\ snap[g].src <= src
CInv ==
    /\ Goroutines /\ pub.src <= src
    /\ \A g \in G : at[g] = "publish" => Publishing(g)

\* The mutex is not one of the goroutines.
LEMMA FreeIsNobody == "free" \notin G
BY CalculatorAssumption DEF G, Loop

\* The invariant holds initially.
LEMMA InitCInv == CalculatorInit => CInv
<1> SUFFICES ASSUME CalculatorInit PROVE CInv   OBVIOUS
<1>1. NoSnap \in [w : SUBSET Peer, src : Nat]   BY DEF NoSnap
<1>2. Goroutines   BY <1>1 DEF CalculatorInit, Goroutines, Where
<1>3. pub.src <= src   BY DEF CalculatorInit
<1>4. \A g \in G : at[g] # "publish"   BY DEF CalculatorInit
<1> QED BY <1>2, <1>3, <1>4 DEF CInv

\* A step that leaves the mutex, what is published and the source alone, and
\* neither begins a publication nor changes what a publisher has read.
LEMMA ElsewhereKeeps ==
    ASSUME CInv, UNCHANGED <<rebMu, pub, src>>, Goroutines',
           \A h \in G : at'[h] = "publish" => at[h] = "publish" /\ snap'[h] = snap[h]
    PROVE  CInv'
BY DEF CInv, Publishing

\* observeAndDecide, EnterScaling and the windows.
LEMMA PollKeeps ==
    ASSUME CInv, NEW g \in G,
           \/ Observe(g) \/ DecideNothing(g) \/ DecideEmergency(g) \/ DecideScaling(g) \/ EnterScaling(g)
    PROVE  CInv'
<1>0. Goroutines   BY DEF CInv
<1>1. UNCHANGED <<rebMu, pub, src, alive>>
  BY Zenon DEF Observe, DecideNothing, DecideEmergency, DecideScaling, EnterScaling, mem, truth
<1>2. /\ Goroutines'
      /\ \A h \in G : at'[h] = "publish" => at[h] = "publish" /\ snap'[h] = snap[h]
  <2>0. NoSnap \in [w : SUBSET Peer, src : Nat]   BY DEF NoSnap
  <2>1. CASE Observe(g)
    <3>1. at' = [at EXCEPT ![g] = "decide"] /\ snap' = [snap EXCEPT ![g] = [w |-> alive, src |-> 0]]
      BY <2>1 DEF Observe
    <3> QED BY <1>0, <1>1, <3>1 DEF Goroutines, Where
  <2>2. CASE DecideNothing(g)
    <3>1. at' = [at EXCEPT ![g] = "idle"] /\ snap' = [snap EXCEPT ![g] = NoSnap]
      BY <2>2 DEF DecideNothing, Leave
    <3> QED BY <1>0, <1>1, <2>0, <3>1 DEF Goroutines, Where
  <2>3. CASE DecideEmergency(g) \/ DecideScaling(g)
    <3>1. snap' = snap /\ \E p \in {"run", "emit"} : at' = [at EXCEPT ![g] = p]
      BY <2>3 DEF DecideEmergency, DecideScaling
    <3> QED BY <1>0, <1>1, <3>1 DEF Goroutines, Where
  <2>4. CASE EnterScaling(g)
    <3>1. PICK t \in Timer : at' = [at EXCEPT ![t] = "window", ![g] = "idle"]   BY Zenon, <2>4 DEF EnterScaling
    <3>2. snap' = [snap EXCEPT ![g] = NoSnap] /\ t \in G   BY <2>4 DEF EnterScaling, G
    <3> QED BY <1>0, <1>1, <2>0, <3>1, <3>2 DEF Goroutines, Where
  <2> QED BY <2>1, <2>2, <2>3, <2>4
<1> QED BY <1>1, <1>2, ElsewhereKeeps

\* The claims and their ends: no goroutine publishes.
LEMMA ClaimKeeps ==
    ASSUME CInv,
           \/ \E t \in Timer : WindowEnds(t)
           \/ PartitionsWake \/ LabelsWake \/ AuditEscalates
           \/ \E g \in G : ReturnToIdle(g)
    PROVE  CInv'
<1>0. Goroutines   BY DEF CInv
<1>1. UNCHANGED <<rebMu, pub, src, alive, snap>>
  BY DEF WindowEnds, PartitionsWake, LabelsWake, AuditEscalates, ReturnToIdle, mem, truth
<1>2. \/ at' = at
      \/ \E g \in G, p \in {"run", "idle", "emit", "tail"} : at' = [at EXCEPT ![g] = p]
  BY Zenon DEF WindowEnds, PartitionsWake, LabelsWake, AuditEscalates, ReturnToIdle, TryClaim, G, Loop
<1>3. Goroutines'   BY <1>0, <1>1, <1>2 DEF Goroutines, Where
<1>4. \A h \in G : at'[h] = "publish" => at[h] = "publish"   BY <1>0, <1>2 DEF Goroutines
<1> QED BY <1>1, <1>3, <1>4, ElsewhereKeeps

\* rebalance reads: it takes the mutex, which nobody held, and what it reads is
\* at least what is published.
LEMMA SnapshotKeeps ==
    ASSUME CInv, NEW g \in G, RebalanceReads(g)
    PROVE  CInv'
<1>0. Goroutines   BY DEF CInv
<1>1. UNCHANGED <<pub, src, alive>> /\ rebMu = "free"   BY DEF RebalanceReads, mem, truth
<1>2. \A h \in G : at[h] # "publish"   BY <1>1, FreeIsNobody DEF CInv, Publishing
<1>3. CASE grace /\ life[g] \in {"part", "label"}
  <2>1. at' = [at EXCEPT ![g] = "return"] /\ UNCHANGED <<rebMu, snap>>   BY <1>3 DEF RebalanceReads
  <2>2. Goroutines'   BY <1>0, <1>1, <2>1 DEF Goroutines, Where
  <2>3. \A h \in G : at'[h] # "publish"   BY <1>0, <1>2, <2>1 DEF Goroutines
  <2> QED BY <1>1, <2>1, <2>2, <2>3, ElsewhereKeeps
<1>4. CASE ~(grace /\ life[g] \in {"part", "label"})
  <2>1. /\ at' = [at EXCEPT ![g] = "publish"] /\ rebMu' = g
        /\ snap' = [snap EXCEPT ![g] = [w |-> alive, src |-> src]]
    BY <1>4 DEF RebalanceReads
  <2>2. Goroutines'   BY <1>0, <1>1, <2>1 DEF Goroutines, Where
  <2>3. \A h \in G : at'[h] = "publish" => h = g   BY <1>0, <1>2, <2>1 DEF Goroutines
  <2>4. snap'[g].src = src   BY <1>0, <2>1 DEF Goroutines
  <2>5. Publishing(g)'   BY <1>0, <1>1, <2>1, <2>4 DEF Publishing, CInv, Goroutines
  <2> QED BY <1>1, <2>2, <2>3, <2>5 DEF CInv
<1> QED BY <1>3, <1>4

\* The end of a rebalance, published or not: the mutex is released by the only
\* goroutine that was publishing.
LEMMA EndKeeps ==
    ASSUME CInv, NEW g \in G, RebalancePublishes(g) \/ RebalanceFails(g)
    PROVE  CInv' /\ pub'.src >= pub.src
<1>0. Goroutines /\ Publishing(g)   BY DEF CInv, RebalancePublishes, RebalanceFails
<1>1. UNCHANGED <<src, alive>>   BY DEF RebalancePublishes, RebalanceFails, mem, truth
<1>2. at' = [at EXCEPT ![g] = "return"] /\ snap' = [snap EXCEPT ![g] = NoSnap]
  BY DEF RebalancePublishes, RebalanceFails, EndRun
<1>3. pub' = pub \/ pub' = snap[g]   BY DEF RebalancePublishes, RebalanceFails, mem
<1>4. Goroutines'
  <2>1. NoSnap \in [w : SUBSET Peer, src : Nat]   BY DEF NoSnap
  <2> QED BY Zenon, <1>0, <1>1, <1>2, <1>3, <2>1 DEF Goroutines, Where
<1>5. \A h \in G : at'[h] # "publish"   BY <1>0, <1>2 DEF CInv, Publishing, Goroutines
<1>6. pub'.src <= src /\ pub'.src >= pub.src   BY <1>0, <1>3 DEF CInv, Publishing, Goroutines
<1> QED BY Zenon, <1>1, <1>4, <1>5, <1>6 DEF CInv

\* The environment: the source only advances.
LEMMA NotARebalanceKeeps ==
    ASSUME CInv, FleetChanges \/ SourceChanges \/ GraceBegins \/ GraceEnds \/ ScanBreaks \/ ScanHeals
    PROVE  CInv' /\ pub' = pub
<1>0. Goroutines   BY DEF CInv
<1>1. UNCHANGED <<rebMu, at, snap, pub>>
  BY DEF FleetChanges, SourceChanges, GraceBegins, GraceEnds, ScanBreaks, ScanHeals, Others, goVars, mem
<1>2. src' = src \/ src' = src + 1
  BY DEF FleetChanges, SourceChanges, GraceBegins, GraceEnds, ScanBreaks, ScanHeals
<1>3. alive' \in SUBSET Peer
  BY <1>0 DEF FleetChanges, SourceChanges, GraceBegins, GraceEnds, ScanBreaks, ScanHeals, Goroutines
<1>4. Goroutines' /\ src' >= src   BY <1>0, <1>1, <1>2, <1>3 DEF Goroutines
<1> QED BY <1>0, <1>1, <1>4 DEF CInv, Publishing, Goroutines

\* Every step keeps the invariant and takes the published source forward.
LEMMA CNext == CInv /\ [CalculatorNext]_calculatorVars => CInv' /\ pub'.src >= pub.src
<1> SUFFICES ASSUME CInv, [CalculatorNext]_calculatorVars PROVE CInv' /\ pub'.src >= pub.src   OBVIOUS
<1>0. pub.src >= pub.src   BY DEF CInv, Goroutines
<1>1. CASE UNCHANGED calculatorVars
  BY <1>0, <1>1 DEF calculatorVars, goVars, truth, mem, CInv, Goroutines, Publishing
<1>2. CASE \E g \in G : \/ Observe(g) \/ DecideNothing(g) \/ DecideEmergency(g) \/ DecideScaling(g)
                        \/ EnterScaling(g)
  <2>1. pub' = pub   BY <1>2 DEF Observe, DecideNothing, DecideEmergency, DecideScaling, EnterScaling, mem
  <2> QED BY Zenon, <1>0, <1>2, <2>1, PollKeeps
<1>3. CASE \/ \E t \in Timer : WindowEnds(t)
           \/ PartitionsWake \/ LabelsWake \/ AuditEscalates
           \/ \E g \in G : ReturnToIdle(g)
  <2>1. pub' = pub   BY <1>3 DEF WindowEnds, PartitionsWake, LabelsWake, AuditEscalates, ReturnToIdle, mem
  <2> QED BY <1>0, <1>3, <2>1, ClaimKeeps
<1>4. CASE \E g \in G : RebalanceReads(g)
  <2>1. pub' = pub   BY <1>4 DEF RebalanceReads, mem
  <2> QED BY <1>0, <1>4, <2>1, SnapshotKeeps
<1>5. CASE \E g \in G : RebalancePublishes(g) \/ RebalanceFails(g)   BY <1>5, EndKeeps
<1>6. CASE FleetChanges \/ SourceChanges \/ GraceBegins \/ GraceEnds \/ ScanBreaks \/ ScanHeals
  BY <1>0, <1>6, NotARebalanceKeeps
<1> QED BY <1>1, <1>2, <1>3, <1>4, <1>5, <1>6 DEF CalculatorNext

\* The published source never goes back, for every fleet, any number of open
\* windows and any faults.
THEOREM PublicationsAdvance == CalculatorSpec => PublishedSourceMonotone
<1>1. CInv /\ [CalculatorNext]_calculatorVars => [pub'.src >= pub.src]_calculatorVars   BY CNext
<1> QED BY <1>1, InitCInv, CNext, PTL DEF CalculatorSpec, PublishedSourceMonotone
=============================================================================
