--------------------------- MODULE Buckets_proof ----------------------------
(***************************************************************************)
(* Theorems about the two clients of a bucket that keep a revision they    *)
(* read: the stable-ID claimer and the partition source.                   *)
(*                                                                         *)
(* StableID, for every set of claimers, pool size and bound: a write is    *)
(* accepted only at the key's current revision, so it is enough to know    *)
(* who may be holding that revision as a credential. Holds and Sent say    *)
(* that only the key's writer does, except for claimers that read the      *)
(* revision of a stale key in order to take the key over. A key moves only *)
(* to a revision never used before, to absent, or to stale, and none of    *)
(* these makes an old credential current again; so a step has to be looked *)
(* at only for the claimer that takes it and for the request it leaves on  *)
(* the wire.                                                               *)
(*                                                                         *)
(* Source, for every set of partitions and bound: every entry that a       *)
(* watcher, a reconcile pass or a call holds is one the bucket held, in    *)
(* this or an earlier incarnation, so the incarnation and the revision an  *)
(* entry carries are enough to see that applying it does not take the copy *)
(* back.                                                                   *)
(***************************************************************************)
EXTENDS StableID, Source, TLAPS

-----------------------------------------------------------------------------
(* The stable-ID claimer *)

\* Where a claimer is that will never write its attempt's key again.
Ended == {"failed", "crashed"}

\* No revision is known before the stream issued it; revision 0 is "absent".
Keys == \A i \in ID : kv[i].rev <= seq /\ (kv[i].rev = 0 => kv[i] = Absent)

\* What a claimer knows.  One that was never told it won holds nothing and
\* runs no renewal; one about to take a key over at its current revision saw
\* it stale; one holding the current revision of its ID's key wrote that key.
Holds(c) ==
    /\ pc[c] # "held" => worker[c] = NoID /\ loop[c] = "off" /\ reply[c] = NoReply
    /\ pc[c] \in {"create", "get", "recreate", "takeover"} => tryID[c] \in ID
    /\ lastRev[c] <= seq /\ seenRev[c] <= seq /\ reply[c].rev <= seq
    /\ pc[c] = "takeover" =>
          /\ seenRev[c] # 0
          /\ seenRev[c] = kv[tryID[c]].rev => kv[tryID[c]].stale
    /\ worker[c] # NoID =>
          /\ lastRev[c] # 0
          /\ lastRev[c] = kv[worker[c]].rev => kv[worker[c]].by = c
    /\ worker[c] # NoID /\ reply[c].kind = "ok" =>
          /\ reply[c].rev # 0
          /\ reply[c].rev = kv[worker[c]].rev => kv[worker[c]].by = c

\* What an abandoned request can still do.  A put that would be accepted
\* comes from the key's writer, or from a failed Claim of a key that is absent
\* or stale; a delete comes from a Release of the claimer that wrote the key.
Sent(r) ==
    /\ r.exp <= seq
    /\ r.op = "put" =>
          /\ r.exp = 0 => pc[r.by] \in Ended
          /\ r.exp = kv[r.id].rev =>
                \/ r.by = kv[r.id].by
                \/ pc[r.by] \in Ended /\ (kv[r.id].rev = 0 \/ kv[r.id].stale)
    /\ r.op = "del" =>
          /\ r.exp # 0 /\ rel[r.by] = "released"
          /\ r.exp = kv[r.id].rev => r.by = kv[r.id].by

IInv == TypeOK /\ Keys /\ (\A c \in Claimer : Holds(c)) /\ (\A r \in wire : Sent(r))

\* What a step can do to the keys: give one a revision never used before,
\* remove it, or let it go stale.
Moves ==
    /\ seq <= seq'
    /\ \A i \in ID :
          \/ kv'[i] = kv[i]
          \/ kv'[i].rev = seq + 1 /\ seq' = seq + 1
          \/ kv'[i] = Absent
          \/ kv'[i].rev = kv[i].rev /\ kv'[i].by = kv[i].by /\ kv'[i].stale /\ kv[i].rev # 0

\* The step teaches claimer d nothing: what it knows stays as it is, except
\* that a holder's loop may start or stop, that it may give its ID up, and
\* that its renewal may fail.
Same(d) ==
    /\ pc'[d] = pc[d] /\ tryID'[d] = tryID[d]
    /\ seenRev'[d] = seenRev[d] /\ lastRev'[d] = lastRev[d]
    /\ worker'[d] = worker[d] \/ worker'[d] = NoID
    /\ loop'[d] = loop[d] \/ pc[d] = "held"
    /\ \/ reply'[d] = reply[d]
       \/ pc[d] = "held" /\ reply'[d].kind # "ok" /\ reply'[d].rev = 0

\* An attempt that ended stays ended, and a Release is not taken back.
Final(d) ==
    /\ pc[d] \in Ended => pc'[d] \in Ended
    /\ rel[d] = "released" => rel'[d] = "released"

-----------------------------------------------------------------------------
\* The initial state satisfies the inductive invariant.
LEMMA InitIInv == Init => IInv
  BY MaxIDAssumption, NobodyAssumption
  DEF Init, IInv, TypeOK, Keys, Holds, Entry, Request, Reply, NoReply, Absent, ID, NoID

\* What the type invariant says of one claimer.
LEMMA ClaimerType ==
    ASSUME TypeOK, NEW c \in Claimer
    PROVE  /\ lastRev[c] \in Nat /\ seenRev[c] \in Nat /\ reply[c].rev \in Nat
           /\ reply[c] \in Reply /\ worker[c] \in ID \cup {NoID}
  BY Zenon DEF TypeOK, Reply

\* What the type invariant says of the bucket.
LEMMA KeyType ==
    ASSUME TypeOK
    PROVE  seq \in Nat /\ \A i \in ID : kv[i] \in Entry /\ kv[i].rev \in Nat
  BY Zenon DEF TypeOK, Entry

\* What the type invariant says of an abandoned request.
LEMMA RequestType ==
    ASSUME TypeOK, NEW r \in wire
    PROVE  r \in Request /\ r.id \in ID /\ r.by \in Claimer /\ r.exp \in Nat
           /\ r.op \in {"put", "del"}
  BY Zenon DEF TypeOK, Request

\* The absent entry.
LEMMA AbsentEntry ==
    Absent \in Entry /\ Absent.rev = 0 /\ Absent.by = Nobody /\ ~Absent.stale
  BY Zenon DEF Absent, Entry

\* Whatever moves a key keeps the revisions within those issued.
LEMMA KeysKept ==
    ASSUME IInv, TypeOK', Moves
    PROVE  Keys'
<1>. SUFFICES ASSUME NEW i \in ID
              PROVE  kv'[i].rev <= seq' /\ (kv'[i].rev = 0 => kv'[i] = Absent)
  BY Zenon DEF Keys
<1>1. seq \in Nat /\ kv[i].rev \in Nat /\ kv[i].rev <= seq /\ (kv[i].rev = 0 => kv[i] = Absent)
  BY Zenon, KeyType DEF IInv, Keys
<1>2. seq' \in Nat
  BY Zenon DEF TypeOK
<1>. QED  BY <1>1, <1>2, AbsentEntry DEF Moves

\* No movement of the keys makes a credential of a claimer that is left alone
\* current again.
LEMMA ClaimerKept ==
    ASSUME IInv, TypeOK', Moves, NEW d \in Claimer, Same(d)
    PROVE  Holds(d)'
<1>1. /\ lastRev[d] \in Nat /\ seenRev[d] \in Nat /\ reply[d].rev \in Nat
      /\ worker[d] \in ID \cup {NoID} /\ seq \in Nat /\ seq' \in Nat /\ seq <= seq' /\ Holds(d)
      /\ Same(d)
  BY Zenon, ClaimerType, KeyType DEF IInv, Moves, TypeOK
<1>2. ASSUME NEW n \in Nat, NEW i \in ID, n <= seq, n # 0, n = kv'[i].rev
      PROVE  n = kv[i].rev /\ kv'[i].by = kv[i].by /\ (kv[i].stale => kv'[i].stale)
  BY <1>1, <1>2, KeyType, AbsentEntry DEF Moves
<1>3. pc[d] = "takeover" =>
          /\ seenRev[d] # 0
          /\ seenRev[d] = kv'[tryID[d]].rev => kv'[tryID[d]].stale
  BY Zenon, <1>1, <1>2 DEF Holds
<1>4. worker[d] # NoID =>
          /\ lastRev[d] # 0
          /\ lastRev[d] = kv'[worker[d]].rev => kv'[worker[d]].by = d
  BY <1>1, <1>2 DEF Holds
<1>5. worker'[d] # NoID /\ reply'[d].kind = "ok" =>
          /\ reply'[d].rev # 0
          /\ reply'[d].rev = kv'[worker'[d]].rev => kv'[worker'[d]].by = d
  BY <1>1, <1>2 DEF Holds, Same
<1>6. lastRev'[d] <= seq' /\ seenRev'[d] <= seq' /\ reply'[d].rev <= seq'
  BY <1>1 DEF Holds, Same
<1>7. /\ pc'[d] # "held" => worker'[d] = NoID /\ loop'[d] = "off" /\ reply'[d] = NoReply
      /\ pc'[d] \in {"create", "get", "recreate", "takeover"} => tryID'[d] \in ID
  BY Zenon, <1>1 DEF Holds, Same
<1>8. pc'[d] = pc[d] /\ tryID'[d] = tryID[d] /\ seenRev'[d] = seenRev[d]
      /\ lastRev'[d] = lastRev[d] /\ worker'[d] \in {worker[d], NoID}
  BY Zenon DEF Same
<1>. QED  BY Zenon, <1>3, <1>4, <1>5, <1>6, <1>7, <1>8 DEF Holds

\* Nor of a request on the wire.
LEMMA RequestKept ==
    ASSUME IInv, TypeOK', Moves, NEW r \in wire, Final(r.by)
    PROVE  Sent(r)'
<1>1. /\ r.id \in ID /\ r.by \in Claimer /\ r.exp \in Nat /\ Sent(r) /\ r.exp <= seq
      /\ seq \in Nat /\ seq' \in Nat /\ seq <= seq'
  BY Zenon, RequestType, KeyType DEF IInv, Moves, TypeOK, Sent
<1>2. /\ kv[r.id].rev \in Nat /\ kv'[r.id].rev \in Nat
      /\ \/ kv'[r.id] = kv[r.id]
         \/ kv'[r.id].rev = seq + 1
         \/ kv'[r.id].rev = 0
         \/ kv'[r.id].rev = kv[r.id].rev /\ kv'[r.id].by = kv[r.id].by /\ kv'[r.id].stale
  <2>1. kv[r.id].rev \in Nat /\ kv'[r.id].rev \in Nat
    BY Zenon, <1>1 DEF IInv, TypeOK, Entry
  <2>. QED  BY Zenon, <1>1, <2>1, AbsentEntry DEF Moves
<1>3. r.op = "put" =>
          /\ r.exp = 0 => pc'[r.by] \in Ended
          /\ r.exp = kv'[r.id].rev =>
                \/ r.by = kv'[r.id].by
                \/ pc'[r.by] \in Ended /\ (kv'[r.id].rev = 0 \/ kv'[r.id].stale)
  BY <1>1, <1>2 DEF Sent, Final
<1>4. r.op = "del" =>
          /\ r.exp # 0 /\ rel'[r.by] = "released"
          /\ r.exp = kv'[r.id].rev => r.by = kv'[r.id].by
  BY <1>1, <1>2 DEF Sent, Final
<1>. QED  BY <1>1, <1>3, <1>4 DEF Sent

\* So a step preserves the invariant if it is right about the claimers it
\* touches and about the requests it adds to the wire.
LEMMA StepKeeps ==
    ASSUME IInv, TypeOK', Moves,
           \A d \in Claimer : Final(d) /\ (Same(d) \/ Holds(d)'),
           \A r \in wire' : r \in wire \/ Sent(r)'
    PROVE  IInv'
<1>1. \A d \in Claimer : Holds(d)'
  BY Zenon, ClaimerKept
<1>2. \A r \in wire : r.by \in Claimer
  BY Zenon, RequestType DEF IInv
<1>3. \A r \in wire' : Sent(r)'
  BY Zenon, <1>2, RequestKept
<1>. QED  BY Zenon, <1>1, <1>3, KeysKept DEF IInv

-----------------------------------------------------------------------------
(* What accepted writes do to the keys *)

\* Put and Del build requests of the expected shape.
LEMMA Shapes ==
    ASSUME NEW c \in Claimer, NEW i \in ID, NEW e \in Nat
    PROVE  /\ Put(c, i, e) \in Request /\ Del(c, i, e) \in Request
           /\ Put(c, i, e).op = "put" /\ Put(c, i, e).id = i
           /\ Put(c, i, e).exp = e /\ Put(c, i, e).by = c
           /\ Del(c, i, e).op = "del" /\ Del(c, i, e).id = i
           /\ Del(c, i, e).exp = e /\ Del(c, i, e).by = c
  BY Zenon DEF Put, Del, Request

\* An accepted put gives its key, and no other, a revision never used before.
LEMMA LandPut ==
    ASSUME TypeOK, NEW r \in Request, r.op = "put", Land(r)
    PROVE  /\ r.exp = kv[r.id].rev
           /\ seq' = seq + 1 /\ seq' \in Nat /\ kv' \in [ID -> Entry] /\ Moves
           /\ \A i \in ID : i # r.id => kv'[i] = kv[i]
           /\ kv'[r.id].rev = seq + 1 /\ kv'[r.id].by = r.by /\ ~kv'[r.id].stale
<1>. DEFINE e == [rev |-> seq + 1, by |-> r.by, stale |-> FALSE]
<1>1. /\ r.id \in ID /\ r.by \in Claimer /\ r.exp = kv[r.id].rev
      /\ seq \in Nat /\ seq' = seq + 1 /\ kv \in [ID -> Entry]
  BY Zenon DEF TypeOK, Land, Accepts, Request
<1>2. e \in Entry /\ e.rev = seq + 1 /\ e.by = r.by /\ ~e.stale
  BY <1>1 DEF Entry
<1>3. kv' = [kv EXCEPT ![r.id] = e]
  BY Zenon DEF Land
<1>. HIDE DEF e
<1>4. kv' \in [ID -> Entry] /\ kv'[r.id] = e /\ \A i \in ID : i # r.id => kv'[i] = kv[i]
  BY Zenon, <1>1, <1>2, <1>3
<1>5. Moves
  BY <1>1, <1>2, <1>4 DEF Moves
<1>. QED  BY <1>1, <1>2, <1>4, <1>5

\* An accepted delete removes its key, and no other.
LEMMA LandDel ==
    ASSUME TypeOK, NEW r \in Request, r.op = "del", Land(r)
    PROVE  /\ r.exp = kv[r.id].rev
           /\ seq' = seq + 1 /\ seq' \in Nat /\ kv' \in [ID -> Entry] /\ Moves
           /\ \A i \in ID : i # r.id => kv'[i] = kv[i]
           /\ kv'[r.id] = Absent
<1>1. /\ r.id \in ID /\ r.exp = kv[r.id].rev
      /\ seq \in Nat /\ seq' = seq + 1 /\ kv \in [ID -> Entry]
  BY Zenon DEF TypeOK, Land, Accepts, Request
<1>2. kv' = [kv EXCEPT ![r.id] = Absent]
  BY Zenon DEF Land
<1>3. kv' \in [ID -> Entry] /\ kv'[r.id] = Absent /\ \A i \in ID : i # r.id => kv'[i] = kv[i]
  BY Zenon, <1>1, <1>2, AbsentEntry
<1>4. Moves
  BY <1>1, <1>3 DEF Moves
<1>. QED  BY <1>1, <1>3, <1>4

\* A step that leaves the bucket alone moves no key.
LEMMA NoMove == ASSUME TypeOK, UNCHANGED <<kv, seq>> PROVE Moves
  BY DEF TypeOK, Moves

-----------------------------------------------------------------------------
(* The steps of Claim *)

\* Claimer c, which holds nothing yet, tries to write a key that it takes to
\* be absent, or saw stale at the revision its request expects.
Attempt(c, r) ==
    /\ pc[c] \in {"create", "recreate", "takeover"} /\ tryID[c] \in ID
    /\ worker[c] = NoID /\ loop[c] = "off" /\ reply[c] = NoReply
    /\ r \in Request /\ r.op = "put" /\ r.id = tryID[c] /\ r.by = c /\ r.exp <= seq
    /\ r.exp = kv[r.id].rev => kv[r.id].rev = 0 \/ kv[r.id].stale

\* Every write of Claim is such an attempt.
LEMMA Attempts ==
    ASSUME IInv, NEW c \in Claimer,
           pc[c] \in {"create", "recreate", "takeover"}
    PROVE  /\ pc[c] \in {"create", "recreate"} => Attempt(c, Put(c, tryID[c], 0))
           /\ pc[c] = "takeover" => Attempt(c, Put(c, tryID[c], seenRev[c]))
<1>1. /\ worker[c] = NoID /\ loop[c] = "off" /\ reply[c] = NoReply /\ tryID[c] \in ID
      /\ seenRev[c] \in Nat /\ seenRev[c] <= seq /\ seq \in Nat
      /\ pc[c] = "takeover" => (seenRev[c] = kv[tryID[c]].rev => kv[tryID[c]].stale)
  BY Zenon, ClaimerType, KeyType DEF IInv, Holds
<1>2. CASE pc[c] \in {"create", "recreate"}
  <2>. DEFINE r == Put(c, tryID[c], 0)
  <2>1. r \in Request /\ r.op = "put" /\ r.id = tryID[c] /\ r.by = c /\ r.exp = 0
    BY <1>1, Shapes
  <2>. HIDE DEF r
  <2>2. Attempt(c, r)
    BY <1>1, <1>2, <2>1 DEF Attempt
  <2>. QED  BY Zenon, <1>2, <2>2 DEF r
<1>3. CASE pc[c] = "takeover"
  <2>. DEFINE r == Put(c, tryID[c], seenRev[c])
  <2>1. r \in Request /\ r.op = "put" /\ r.id = tryID[c] /\ r.by = c /\ r.exp = seenRev[c]
    BY <1>1, Shapes
  <2>. HIDE DEF r
  <2>2. Attempt(c, r)
    BY Zenon, <1>1, <1>3, <2>1 DEF Attempt
  <2>. QED  BY Zenon, <1>3, <2>2 DEF r
<1>. QED  BY Zenon, <1>2, <1>3

\* The attempt succeeds: the claimer now holds the key's current revision.
LEMMA WonKeeps ==
    ASSUME IInv, NEW c \in Claimer, NEW r, Attempt(c, r),
           Land(r), Won(c), UNCHANGED <<loop, reply, rel>>
    PROVE  IInv'
<1>. USE DEF NoID
<1>1. /\ seq' = seq + 1 /\ seq' \in Nat /\ kv' \in [ID -> Entry] /\ Moves
      /\ kv'[r.id].rev = seq + 1 /\ kv'[r.id].by = r.by
  BY Zenon, LandPut DEF IInv, Attempt
<1>2. TypeOK'
  BY Zenon, <1>1, MaxIDAssumption DEF IInv, TypeOK, Won, Attempt, ID
<1>3. \A d \in Claimer : Final(d) /\ (d # c => Same(d))
  BY DEF IInv, TypeOK, Won, Attempt, Final, Same, Ended
<1>4. /\ pc'[c] = "held" /\ tryID'[c] = 1 /\ seenRev'[c] = 0 /\ worker'[c] = r.id
      /\ lastRev'[c] = seq + 1 /\ loop'[c] = "off" /\ reply'[c] = NoReply /\ seq \in Nat
      /\ r.by = c
  BY Zenon DEF IInv, TypeOK, Won, Attempt
<1>5. Holds(c)'
  BY <1>1, <1>4 DEF Holds, NoReply
<1>6. wire' = wire
  BY Zenon DEF Won
<1>. QED  BY Zenon, <1>1, <1>2, <1>3, <1>5, <1>6, StepKeeps

\* The attempt fails: the call is over, and its write may still arrive.
LEMMA AbortedKeeps ==
    ASSUME IInv, NEW c \in Claimer, NEW r, Attempt(c, r),
           Aborted(c, r), UNCHANGED <<loop, reply, rel>>
    PROVE  IInv'
<1>. USE DEF NoID
<1>1. /\ UNCHANGED <<kv, seq, loop, reply, rel, worker, lastRev>>
      /\ wire' = wire \/ wire' = wire \cup {r}
  BY Zenon DEF Aborted, TimesOut
<1>2. TypeOK'
  BY Zenon, <1>1 DEF IInv, TypeOK, Aborted, Attempt
<1>3. \A d \in Claimer : Final(d) /\ (d # c => Same(d))
  BY Zenon, <1>1 DEF IInv, TypeOK, Aborted, Attempt, Final, Same, Ended
<1>4. /\ pc'[c] = "failed" /\ tryID'[c] = 1 /\ seenRev'[c] = 0 /\ worker[c] = NoID
      /\ loop[c] = "off" /\ reply[c] = NoReply /\ seq \in Nat
  BY Zenon DEF IInv, TypeOK, Aborted, Attempt
<1>5. Holds(c)'
  BY <1>1, <1>4 DEF IInv, Holds, NoReply
<1>6. Sent(r)'
  BY Zenon, <1>1, <1>4 DEF Attempt, Sent, Ended
<1>7. Moves
  BY Zenon, <1>1, NoMove DEF IInv
<1>. QED  BY Zenon, <1>1, <1>2, <1>3, <1>5, <1>6, <1>7, StepKeeps

\* The attempt is refused: the walk goes on with the next ID, or ends.
LEMMA NextIDKeeps ==
    ASSUME IInv, NEW c \in Claimer,
           pc[c] \in {"create", "get", "recreate", "takeover"},
           NextID(c), UNCHANGED <<kv, seq, loop, reply, rel>>
    PROVE  IInv'
<1>. USE DEF NoID
<1>1. /\ worker[c] = NoID /\ loop[c] = "off" /\ reply[c] = NoReply /\ tryID[c] \in ID
      /\ seq \in Nat
  BY Zenon, KeyType DEF IInv, Holds
<1>2. /\ tryID'[c] \in ID /\ seenRev'[c] = 0 /\ pc'[c] \in {"create", "failed"}
      /\ UNCHANGED <<worker, lastRev, wire>>
  BY <1>1, MaxIDAssumption DEF IInv, TypeOK, NextID, ID
<1>3. TypeOK'
  BY Zenon, <1>1, <1>2 DEF IInv, TypeOK, NextID
<1>4. \A d \in Claimer : Final(d) /\ (d # c => Same(d))
  BY Zenon, <1>2 DEF IInv, TypeOK, NextID, Final, Same, Ended
<1>5. Holds(c)'
  BY <1>1, <1>2 DEF IInv, Holds, NoReply
<1>. QED  BY Zenon, <1>2, <1>3, <1>4, <1>5, NoMove, StepKeeps DEF IInv

\* A claim attempt begins: ClaimStart preserves the invariant.
LEMMA InvClaimStart == ASSUME IInv, NEW c \in Claimer, ClaimStart(c) PROVE IInv'
<1>. USE DEF NoID
<1>1. /\ pc'[c] \in {"failed", "create"} /\ tryID[c] \in ID \cup {1} /\ MaxID \in Nat
      /\ (MaxID = 0 => pc'[c] = "failed")
      /\ UNCHANGED <<kv, seq, wire, tryID, seenRev, worker, lastRev, loop, reply, rel>>
  BY Zenon, MaxIDAssumption DEF IInv, TypeOK, ClaimStart
<1>2. TypeOK'
  BY Zenon, <1>1 DEF IInv, TypeOK, ClaimStart
<1>3. \A d \in Claimer : Final(d) /\ (d # c => Same(d))
  BY Zenon, <1>1 DEF IInv, TypeOK, ClaimStart, Final, Same, Ended
<1>4. pc'[c] = "create" => tryID[c] \in ID
  BY <1>1 DEF ID
<1>5. Holds(c)'
  BY Zenon, <1>1, <1>4 DEF IInv, Holds, ClaimStart
<1>. QED  BY Zenon, <1>1, <1>2, <1>3, <1>5, NoMove, StepKeeps DEF IInv

\* The create of a key: ClaimCreate preserves the invariant.
LEMMA InvClaimCreate == ASSUME IInv, NEW c \in Claimer, ClaimCreate(c) PROVE IInv'
<1>. DEFINE r == Put(c, tryID[c], 0)
<1>1. Attempt(c, r) /\ pc[c] = "create" /\ UNCHANGED <<loop, reply, rel>>
  BY Zenon, Attempts DEF ClaimCreate
<1>2. \/ Land(r) /\ Won(c)
      \/ /\ Refused(r) /\ pc' = [pc EXCEPT ![c] = "get"]
         /\ UNCHANGED <<wire, tryID, seenRev, worker, lastRev>>
      \/ Aborted(c, r)
  BY Zenon DEF ClaimCreate
<1>. HIDE DEF r
<1>3. CASE /\ Refused(r) /\ pc' = [pc EXCEPT ![c] = "get"]
           /\ UNCHANGED <<wire, tryID, seenRev, worker, lastRev>>
  <2>1. UNCHANGED <<kv, seq, wire, tryID, seenRev, worker, lastRev, loop, reply, rel>> /\ pc'[c] = "get"
    BY Zenon, <1>1, <1>3 DEF IInv, TypeOK, Refused
  <2>2. TypeOK'
    BY Zenon, <1>3, <2>1 DEF IInv, TypeOK
  <2>3. \A d \in Claimer : Final(d) /\ (d # c => Same(d))
    BY Zenon, <1>1, <1>3, <2>1 DEF IInv, TypeOK, Final, Same, Ended
  <2>4. Holds(c)'
    BY Zenon, <1>1, <2>1 DEF IInv, Holds
  <2>. QED  BY Zenon, <2>1, <2>2, <2>3, <2>4, NoMove, StepKeeps DEF IInv
<1>. QED  BY Zenon, <1>1, <1>2, <1>3, WonKeeps, AbortedKeeps

\* The read of a key that is taken: ClaimGet preserves the invariant.
LEMMA InvClaimGet == ASSUME IInv, NEW c \in Claimer, ClaimGet(c) PROVE IInv'
<1>1. /\ pc[c] = "get" /\ UNCHANGED <<kv, seq, loop, reply, rel>>
      /\ Holds(c) /\ TypeOK /\ tryID[c] \in ID /\ Moves
  BY Zenon, NoMove DEF ClaimGet, IInv, Holds
<1>2. CASE NextID(c)
  BY Zenon, <1>1, <1>2, NextIDKeeps
<1>3. CASE /\ pc' = [pc EXCEPT ![c] = "recreate"]
           /\ UNCHANGED <<wire, tryID, seenRev, worker, lastRev>>
  <2>1. TypeOK'
    BY Zenon, <1>1, <1>3 DEF TypeOK
  <2>2. \A d \in Claimer : Final(d) /\ (d # c => Same(d))
    BY Zenon, <1>1, <1>3 DEF TypeOK, Final, Same, Ended
  <2>3. Holds(c)'
    BY Zenon, <1>1, <1>3 DEF TypeOK, Holds
  <2>. QED  BY Zenon, <1>1, <1>3, <2>1, <2>2, <2>3, StepKeeps
<1>4. CASE /\ kv[tryID[c]].stale
           /\ pc' = [pc EXCEPT ![c] = "takeover"]
           /\ seenRev' = [seenRev EXCEPT ![c] = kv[tryID[c]].rev]
           /\ UNCHANGED <<wire, tryID, worker, lastRev>>
  <2>0. /\ kv[tryID[c]].rev \in Nat /\ kv[tryID[c]].rev <= seq /\ kv[tryID[c]].rev # 0
        /\ pc'[c] = "takeover" /\ seenRev'[c] = kv[tryID[c]].rev
    BY Zenon, <1>1, <1>4, KeyType, AbsentEntry DEF IInv, TypeOK, Keys
  <2>1. TypeOK'
    BY Zenon, <1>1, <1>4, <2>0 DEF TypeOK
  <2>2. \A d \in Claimer : Final(d) /\ (d # c => Same(d))
    BY Zenon, <1>1, <1>4 DEF TypeOK, Final, Same, Ended
  <2>3. Holds(c)'
    BY Zenon, <1>1, <1>4, <2>0 DEF Holds
  <2>. QED  BY Zenon, <1>1, <1>4, <2>1, <2>2, <2>3, StepKeeps
<1>. QED  BY Zenon, <1>2, <1>3, <1>4 DEF ClaimGet

\* A second attempt, after the key disappeared or went stale: ClaimRetry
\* preserves the invariant.
LEMMA InvClaimRetry == ASSUME IInv, NEW c \in Claimer, ClaimRetry(c) PROVE IInv'
<1>. DEFINE r == Put(c, tryID[c], IF pc[c] = "recreate" THEN 0 ELSE seenRev[c])
<1>1. pc[c] \in {"recreate", "takeover"} /\ UNCHANGED <<loop, reply, rel>>
  BY Zenon DEF ClaimRetry
<1>2. Attempt(c, r)
  BY Zenon, <1>1, Attempts
<1>3. (Land(r) /\ Won(c)) \/ (Refused(r) /\ NextID(c)) \/ Aborted(c, r)
  BY Zenon DEF ClaimRetry
<1>. HIDE DEF r
<1>4. CASE Refused(r) /\ NextID(c)
  BY Zenon, <1>1, <1>4, NextIDKeeps DEF Refused
<1>. QED  BY Zenon, <1>1, <1>2, <1>3, <1>4, WonKeeps, AbortedKeeps

-----------------------------------------------------------------------------
(* Renewal *)

\* The renewal loop starts: StartRenewal preserves the invariant.
LEMMA InvStartRenewal == ASSUME IInv, NEW c \in Claimer, StartRenewal(c) PROVE IInv'
<1>1. /\ UNCHANGED <<kv, seq, wire, pc, tryID, seenRev, worker, lastRev, reply, rel>>
      /\ TypeOK /\ Moves /\ pc[c] = "held" /\ loop' = [loop EXCEPT ![c] = "run"]
  BY Zenon, NoMove DEF StartRenewal, claimVars, IInv, Holds
<1>2. TypeOK'
  BY Zenon, <1>1 DEF TypeOK
<1>3. \A d \in Claimer : Final(d) /\ Same(d)
  BY Zenon, <1>1 DEF TypeOK, Final, Same
<1>. QED  BY Zenon, <1>1, <1>2, <1>3, StepKeeps

\* What the renewal loop of a claimer that holds an ID sends.
LEMMA RenewShape ==
    ASSUME IInv, NEW c \in Claimer, worker[c] # NoID
    PROVE  /\ RenewRequest(c) \in Request /\ RenewRequest(c).op = "put"
           /\ RenewRequest(c).id = worker[c] /\ RenewRequest(c).by = c
           /\ RenewRequest(c).exp = lastRev[c] /\ lastRev[c] # 0 /\ lastRev[c] <= seq
           /\ lastRev[c] = kv[worker[c]].rev => kv[worker[c]].by = c
           /\ pc[c] = "held" /\ worker[c] \in ID
<1>1. /\ worker[c] \in ID /\ lastRev[c] \in Nat /\ lastRev[c] # 0 /\ lastRev[c] <= seq
      /\ lastRev[c] = kv[worker[c]].rev => kv[worker[c]].by = c
      /\ pc[c] = "held"
  BY Zenon, ClaimerType DEF IInv, Holds
<1>. QED  BY <1>1, Shapes DEF RenewRequest

\* The renewal's Update is answered: RenewUpdate preserves the invariant.
LEMMA InvRenewUpdate == ASSUME IInv, NEW c \in Claimer, RenewUpdate(c) PROVE IInv'
<1>1. /\ UNCHANGED <<wire, pc, tryID, seenRev, worker, lastRev, loop, rel>>
      /\ worker[c] # NoID /\ TypeOK /\ seq \in Nat
  BY Zenon DEF RenewUpdate, claimVars, IInv, TypeOK
<1>2. PICK r \in Request :
        /\ r = RenewRequest(c) /\ r.op = "put" /\ r.id = worker[c] /\ r.by = c
        /\ pc[c] = "held"
  BY Zenon, <1>1, RenewShape
<1>3. CASE /\ Land(r)
           /\ reply' = [reply EXCEPT ![c] = [kind |-> "ok", rev |-> seq + 1]]
  <2>1. /\ seq' = seq + 1 /\ seq' \in Nat /\ kv' \in [ID -> Entry] /\ Moves
        /\ kv'[worker[c]].rev = seq + 1 /\ kv'[worker[c]].by = c
    BY Zenon, <1>1, <1>2, <1>3, LandPut
  <2>2. reply' \in [Claimer -> Reply] /\ reply'[c].kind = "ok" /\ reply'[c].rev = seq + 1
    BY <1>1, <1>3 DEF TypeOK, Reply
  <2>3. TypeOK'
    BY Zenon, <1>1, <2>1, <2>2 DEF TypeOK
  <2>4. \A d \in Claimer : Final(d) /\ (d # c => Same(d))
    BY Zenon, <1>1, <1>3 DEF TypeOK, Final, Same
  <2>5. /\ lastRev[c] \in Nat /\ lastRev[c] <= seq /\ lastRev[c] # 0
        /\ seenRev[c] \in Nat /\ seenRev[c] <= seq
    BY Zenon, <1>1, ClaimerType DEF IInv, Holds
  <2>6. Holds(c)'
    BY <1>1, <1>2, <2>1, <2>2, <2>5 DEF Holds
  <2>. QED  BY Zenon, <1>1, <2>1, <2>3, <2>4, <2>6, StepKeeps
<1>4. CASE /\ Refused(r)
           /\ reply' = [reply EXCEPT ![c] = [kind |-> "mismatch", rev |-> 0]]
  <2>1. UNCHANGED <<kv, seq>> /\ Moves
    BY Zenon, <1>1, <1>4, NoMove DEF Refused
  <2>2. reply' \in [Claimer -> Reply]
    BY Zenon, <1>1, <1>4 DEF TypeOK, Reply
  <2>3. TypeOK'
    BY Zenon, <1>1, <2>1, <2>2 DEF TypeOK
  <2>4. \A d \in Claimer : Final(d) /\ Same(d)
    BY Zenon, <1>1, <1>2, <1>4 DEF TypeOK, Final, Same
  <2>. QED  BY Zenon, <1>1, <2>1, <2>3, <2>4, StepKeeps
<1>. QED  BY Zenon, <1>2, <1>3, <1>4 DEF RenewUpdate

\* The Update times out or finds no stream: RenewFails preserves the invariant.
LEMMA InvRenewFails == ASSUME IInv, NEW c \in Claimer, RenewFails(c) PROVE IInv'
<1>1. /\ UNCHANGED <<kv, seq, pc, tryID, seenRev, worker, lastRev, loop, rel>>
      /\ worker[c] # NoID /\ TypeOK /\ Moves
  BY Zenon, NoMove DEF RenewFails, TimesOut, claimVars, IInv
<1>2. PICK r \in Request :
        /\ r = RenewRequest(c) /\ r.op = "put" /\ r.id = worker[c] /\ r.by = c
        /\ r.exp = lastRev[c] /\ r.exp # 0 /\ r.exp <= seq /\ pc[c] = "held"
        /\ r.exp = kv[r.id].rev => r.by = kv[r.id].by
  BY <1>1, RenewShape
<1>3. wire' = wire \/ wire' = wire \cup {r}
  BY Zenon, <1>2 DEF RenewFails, TimesOut
<1>4. PICK k \in {"error", "gone"} : reply' = [reply EXCEPT ![c] = [kind |-> k, rev |-> 0]]
  BY Zenon DEF RenewFails
<1>5. reply' \in [Claimer -> Reply]
  BY Zenon, <1>1, <1>4 DEF TypeOK, Reply
<1>6. \A d \in Claimer : Final(d) /\ Same(d)
  BY Zenon, <1>1, <1>2, <1>4 DEF TypeOK, Final, Same
<1>7. TypeOK'
  BY Zenon, <1>1, <1>3, <1>5 DEF TypeOK
<1>8. Sent(r)'
  BY Zenon, <1>1, <1>2 DEF Sent
<1>. QED  BY Zenon, <1>1, <1>3, <1>6, <1>7, <1>8, StepKeeps

\* The loop reads the answer: RenewDone preserves the invariant.
LEMMA InvRenewDone == ASSUME IInv, NEW c \in Claimer, RenewDone(c) PROVE IInv'
<1>1. /\ UNCHANGED <<kv, seq, wire, pc, tryID, seenRev, worker, rel>>
      /\ TypeOK /\ Holds(c) /\ Moves /\ pc[c] = "held" /\ seq \in Nat
  BY Zenon, NoMove, KeyType DEF RenewDone, claimVars, IInv, Holds
<1>2. /\ reply[c] \in Reply /\ reply[c].rev \in Nat /\ lastRev[c] \in Nat
      /\ NoReply \in Reply /\ NoReply.rev = 0 /\ NoReply.kind = "none"
  BY Zenon, <1>1, ClaimerType DEF NoReply, Reply
<1>3. /\ reply' \in [Claimer -> Reply] /\ reply'[c] = NoReply
      /\ lastRev' \in [Claimer -> Nat]
      /\ lastRev'[c] = IF reply[c].kind = "ok" THEN reply[c].rev ELSE lastRev[c]
  BY Zenon, <1>1, <1>2 DEF RenewDone, TypeOK
<1>4. loop' \in [Claimer -> {"off", "run", "lost", "gone", "stopped"}]
  BY Zenon, <1>1 DEF RenewDone, TypeOK
<1>5. TypeOK'
  BY Zenon, <1>1, <1>3, <1>4 DEF TypeOK
<1>6. \A d \in Claimer : Final(d) /\ (d # c => Same(d))
  BY Zenon, <1>1 DEF RenewDone, TypeOK, Final, Same
<1>7. Holds(c)'
  BY <1>1, <1>2, <1>3 DEF Holds
<1>. QED  BY Zenon, <1>1, <1>5, <1>6, <1>7, StepKeeps

\* The loop stops: LoopStops preserves the invariant.
LEMMA InvLoopStops == ASSUME IInv, NEW c \in Claimer, LoopStops(c) PROVE IInv'
<1>1. /\ UNCHANGED <<kv, seq, wire, pc, tryID, seenRev, worker, lastRev, reply, rel>>
      /\ TypeOK /\ Moves /\ pc[c] = "held" /\ loop' = [loop EXCEPT ![c] = "stopped"]
  BY Zenon, NoMove DEF LoopStops, claimVars, IInv, Holds
<1>2. TypeOK'
  BY Zenon, <1>1 DEF TypeOK
<1>3. \A d \in Claimer : Final(d) /\ Same(d)
  BY Zenon, <1>1 DEF TypeOK, Final, Same
<1>. QED  BY Zenon, <1>1, <1>2, <1>3, StepKeeps

-----------------------------------------------------------------------------
(* Shutdown, crashes and the environment *)

\* The stop channel is closed: Close preserves the invariant.
LEMMA InvClose == ASSUME IInv, NEW c \in Claimer, Close(c) PROVE IInv'
<1>1. /\ UNCHANGED <<kv, seq, wire, pc, tryID, seenRev, worker, lastRev, loop, reply>>
      /\ TypeOK /\ Moves /\ rel[c] = "no" /\ rel' = [rel EXCEPT ![c] = "closed"]
  BY Zenon, NoMove DEF Close, claimVars, IInv
<1>2. TypeOK'
  BY Zenon, <1>1 DEF TypeOK
<1>3. \A d \in Claimer : Final(d) /\ Same(d)
  BY Zenon, <1>1 DEF TypeOK, Final, Same
<1>. QED  BY Zenon, <1>1, <1>2, <1>3, StepKeeps

\* What Release sends.
LEMMA ReleaseShape ==
    ASSUME IInv, NEW c \in Claimer, worker[c] # NoID
    PROVE  \E r \in Request :
              /\ r = Del(c, worker[c], lastRev[c]) /\ r.op = "del" /\ r.by = c
              /\ r.exp # 0 /\ r.exp <= seq
              /\ r.exp = kv[r.id].rev => r.by = kv[r.id].by
<1>1. /\ worker[c] \in ID /\ lastRev[c] \in Nat /\ lastRev[c] # 0 /\ lastRev[c] <= seq
      /\ lastRev[c] = kv[worker[c]].rev => kv[worker[c]].by = c
  BY Zenon, ClaimerType DEF IInv, Holds
<1>. QED  BY <1>1, Shapes

\* The delete of a shutdown, whatever its answer: Release preserves the
\* invariant.
LEMMA InvRelease == ASSUME IInv, NEW c \in Claimer, Release(c) PROVE IInv'
<1>1. PICK r \in Request :
        /\ r = Del(c, worker[c], lastRev[c]) /\ r.op = "del" /\ r.by = c
        /\ r.exp # 0 /\ r.exp <= seq
        /\ r.exp = kv[r.id].rev => r.by = kv[r.id].by
  BY Zenon, ReleaseShape DEF Release
<1>2. /\ UNCHANGED <<pc, tryID, seenRev, lastRev, loop, reply>> /\ TypeOK
      /\ rel' = [rel EXCEPT ![c] = "released"]
      /\ worker' = [worker EXCEPT ![c] = NoID] \/ UNCHANGED worker
  BY Zenon DEF Release, claimVars, IInv
<1>3. /\ rel' \in [Claimer -> {"no", "closed", "released"}] /\ rel'[c] = "released"
      /\ worker' \in [Claimer -> ID \cup {NoID}]
      /\ \A d \in Claimer : Final(d) /\ Same(d)
  BY Zenon, <1>2 DEF TypeOK, Final, Same
<1>4. CASE Land(r)
  <2>1. seq' = seq + 1 /\ seq' \in Nat /\ kv' \in [ID -> Entry] /\ Moves /\ seq \in Nat
    BY Zenon, <1>1, <1>2, <1>4, LandDel DEF TypeOK
  <2>2. wire' = wire
    BY <1>1, <2>1 DEF Release, TimesOut
  <2>3. TypeOK'
    BY Zenon, <1>2, <1>3, <2>1, <2>2 DEF TypeOK
  <2>. QED  BY Zenon, <1>3, <2>1, <2>2, <2>3, StepKeeps
<1>5. CASE ~Land(r)
  <2>1. UNCHANGED <<kv, seq>> /\ (wire' = wire \/ wire' = wire \cup {r})
    BY Zenon, <1>1, <1>5 DEF Release, Refused, TimesOut
  <2>2. TypeOK'
    BY Zenon, <1>2, <1>3, <2>1 DEF TypeOK
  <2>3. Sent(r)'
    BY Zenon, <1>1, <1>3, <2>1 DEF Sent
  <2>. QED  BY Zenon, <1>2, <1>3, <2>1, <2>2, <2>3, NoMove, StepKeeps
<1>. QED  BY Zenon, <1>4, <1>5

\* A process dies: Crash preserves the invariant.
LEMMA InvCrash == ASSUME IInv, NEW c \in Claimer, Crash(c) PROVE IInv'
<1>. USE DEF NoID
<1>1. UNCHANGED <<kv, seq, wire, rel>> /\ TypeOK /\ Moves /\ seq \in Nat
  BY Zenon, NoMove, KeyType DEF Crash, IInv
<1>2. TypeOK'
  BY Zenon, <1>1 DEF Crash, TypeOK, NoReply, Reply
<1>3. \A d \in Claimer : Final(d) /\ (d # c => Same(d))
  BY ZenonT(30), <1>1 DEF Crash, TypeOK, Final, Same, Ended
<1>4. /\ pc'[c] = "crashed" /\ seenRev'[c] = 0 /\ worker'[c] = NoID /\ lastRev'[c] = 0
      /\ loop'[c] = "off" /\ reply'[c] = NoReply
  BY Zenon, <1>1 DEF Crash, TypeOK
<1>5. Holds(c)'
  BY <1>1, <1>4 DEF Holds, NoReply
<1>. QED  BY Zenon, <1>1, <1>2, <1>3, <1>5, StepKeeps

\* A step of the environment touches no claimer.
LEMMA Untouched ==
    ASSUME UNCHANGED <<claimVars, worker, lastRev, loop, reply, rel>>
    PROVE  \A d \in Claimer : Final(d) /\ Same(d)
  BY Zenon DEF claimVars, Final, Same

\* A key goes stale: Age preserves the invariant.
LEMMA InvAge == ASSUME IInv, NEW i \in ID, Age(i) PROVE IInv'
<1>1. /\ UNCHANGED <<seq, wire, claimVars, worker, lastRev, loop, reply, rel>>
      /\ TypeOK /\ kv[i] \in Entry /\ kv[i].rev # 0 /\ kv' = [kv EXCEPT ![i].stale = TRUE]
      /\ kv \in [ID -> Entry]
  BY Zenon DEF Age, IInv, TypeOK
<1>2. /\ kv'[i] \in Entry /\ kv'[i].rev = kv[i].rev /\ kv'[i].by = kv[i].by /\ kv'[i].stale
      /\ \A j \in ID : j # i => kv'[j] = kv[j]
  BY Zenon, <1>1 DEF Entry
<1>3. kv' \in [ID -> Entry]
  BY Zenon, <1>1, <1>2
<1>4. TypeOK'
  BY Zenon, <1>1, <1>3 DEF TypeOK, claimVars
<1>5. Moves
  BY <1>1, <1>2 DEF Moves, TypeOK
<1>. QED  BY Zenon, <1>1, <1>4, <1>5, Untouched, StepKeeps

\* A key expires: Expire preserves the invariant.
LEMMA InvExpire == ASSUME IInv, NEW i \in ID, Expire(i) PROVE IInv'
<1>1. /\ UNCHANGED <<seq, wire, claimVars, worker, lastRev, loop, reply, rel>>
      /\ TypeOK /\ kv' = [kv EXCEPT ![i] = Absent] /\ kv \in [ID -> Entry]
  BY Zenon DEF Expire, IInv, TypeOK
<1>2. kv' \in [ID -> Entry] /\ kv'[i] = Absent /\ \A j \in ID : j # i => kv'[j] = kv[j]
  BY Zenon, <1>1, AbsentEntry
<1>3. TypeOK'
  BY Zenon, <1>1, <1>2 DEF TypeOK, claimVars
<1>4. Moves
  BY <1>1, <1>2 DEF Moves, TypeOK
<1>. QED  BY Zenon, <1>1, <1>3, <1>4, Untouched, StepKeeps

\* An abandoned request arrives or is lost: Deliver preserves the invariant.
LEMMA InvDeliver == ASSUME IInv, NEW r \in wire, Deliver(r) PROVE IInv'
<1>1. /\ UNCHANGED <<claimVars, worker, lastRev, loop, reply, rel>> /\ wire' = wire \ {r}
      /\ TypeOK /\ r \in Request /\ r.op \in {"put", "del"}
      /\ Land(r) \/ UNCHANGED <<kv, seq>>
  BY Zenon, RequestType DEF Deliver, IInv
<1>2. Moves /\ kv' \in [ID -> Entry] /\ seq' \in Nat
  BY Zenon, <1>1, LandPut, LandDel, NoMove DEF TypeOK
<1>3. TypeOK'
  BY Zenon, <1>1, <1>2 DEF TypeOK, claimVars
<1>. QED  BY Zenon, <1>1, <1>2, <1>3, Untouched, StepKeeps

\* Every step preserves the inductive invariant.
LEMMA NextIInv == IInv /\ [Next]_vars => IInv'
<1>. SUFFICES ASSUME IInv, [Next]_vars PROVE IInv'
  OBVIOUS
<1>1. CASE UNCHANGED vars
  <2>1. /\ UNCHANGED <<kv, seq, wire, claimVars, worker, lastRev, loop, reply, rel>>
        /\ TypeOK /\ Moves
    BY Zenon, <1>1, NoMove DEF vars, claimVars, IInv
  <2>2. TypeOK'
    BY Zenon, <2>1 DEF TypeOK, claimVars
  <2>. QED  BY Zenon, <2>1, <2>2, Untouched, StepKeeps
<1>2. CASE Next
  BY Zenon, <1>2, InvClaimStart, InvClaimCreate, InvClaimGet, InvClaimRetry, InvStartRenewal, InvRenewUpdate,
     InvRenewFails, InvRenewDone, InvLoopStops, InvClose, InvRelease, InvCrash,
     InvAge, InvExpire, InvDeliver DEF Next
<1>. QED  BY Zenon, <1>1, <1>2

-----------------------------------------------------------------------------
(* The theorems *)

\* The inductive invariant holds throughout.
LEMMA Invariance == Spec => []IInv
  BY InitIInv, NextIInv, PTL DEF Spec

\* What a step can do to a key: its writer renews it (or it ages), it is
\* removed (by expiry, or by its writer's Release), or a claimer that holds no
\* ID claims it, which needs the key to be absent or stale.
KeyChange(k) ==
    \/ kv'[k].by = kv[k].by
    \/ /\ kv'[k].rev = 0 /\ kv'[k].by = Nobody
       /\ kv[k].stale \/ rel'[kv[k].by] = "released"
    \/ /\ kv[k].rev = 0 \/ kv[k].stale
       /\ \E c \in Claimer : kv'[k].by = c /\ worker[c] = NoID

\* A request is entitled to the change it asks for: it comes from the key's
\* writer, or it claims an absent or stale key for a claimer without an ID.
Entitled(r) ==
    /\ r.op = "put" => \/ r.by = kv[r.id].by
                       \/ worker[r.by] = NoID /\ (kv[r.id].rev = 0 \/ kv[r.id].stale)
    /\ r.op = "del" => r.by = kv[r.id].by /\ rel'[r.by] = "released"

\* An entitled request that is accepted changes its key as KeyChange says.
LEMMA LandStep ==
    ASSUME TypeOK, NEW r \in Request, Land(r), Entitled(r), NEW k \in ID, kv'[k] # kv[k]
    PROVE  KeyChange(k)
<1>1. r.by \in Claimer /\ r.id \in ID /\ r.op \in {"put", "del"}
  BY Zenon DEF Request
<1>2. CASE r.op = "put"
  <2>1. k = r.id /\ kv'[k].by = r.by
    BY Zenon, <1>2, LandPut
  <2>. QED  BY Zenon, <1>1, <1>2, <2>1 DEF Entitled, KeyChange
<1>3. CASE r.op = "del"
  <2>1. k = r.id /\ kv'[k].rev = 0 /\ kv'[k].by = Nobody
    BY Zenon, <1>3, LandDel, AbsentEntry
  <2>. QED  BY Zenon, <1>3, <2>1 DEF Entitled, KeyChange
<1>. QED  BY Zenon, <1>1, <1>2, <1>3

\* The invariant entitles whoever changes a key.
LEMMA KeyStep ==
    ASSUME IInv, Next, NEW k \in ID, kv'[k] # kv[k]
    PROVE  KeyChange(k)
<1>0. TypeOK
  BY Zenon DEF IInv
<1>1. ASSUME NEW c \in Claimer, ClaimCreate(c) \/ ClaimRetry(c) PROVE KeyChange(k)
  <2>1. PICK r : Attempt(c, r) /\ Land(r)
    BY Zenon, <1>1, Attempts DEF ClaimCreate, ClaimRetry, Refused, Aborted, TimesOut
  <2>2. r \in Request /\ Entitled(r)
    BY Zenon, <2>1 DEF Attempt, Entitled, Land, Accepts
  <2>. QED  BY Zenon, <1>0, <2>1, <2>2, LandStep
<1>2. ASSUME NEW c \in Claimer, RenewUpdate(c) PROVE KeyChange(k)
  <2>1. Land(RenewRequest(c)) /\ worker[c] # NoID
    BY Zenon, <1>2 DEF RenewUpdate, Refused
  <2>2. RenewRequest(c) \in Request /\ Entitled(RenewRequest(c))
    BY <2>1, RenewShape DEF Entitled, Land, Accepts
  <2>. QED  BY Zenon, <1>0, <2>1, <2>2, LandStep
<1>3. ASSUME NEW c \in Claimer, Release(c) PROVE KeyChange(k)
  <2>1. PICK r \in Request :
          /\ r = Del(c, worker[c], lastRev[c]) /\ r.op = "del" /\ r.by = c
          /\ r.exp = kv[r.id].rev => r.by = kv[r.id].by
    BY Zenon, <1>3, ReleaseShape DEF Release
  <2>2. Land(r) /\ rel'[c] = "released"
    BY Zenon, <1>0, <1>3, <2>1 DEF Release, Refused, TimesOut, TypeOK
  <2>3. Entitled(r)
    BY Zenon, <2>1, <2>2 DEF Entitled, Land, Accepts
  <2>. QED  BY Zenon, <1>0, <2>2, <2>3, LandStep
<1>4. ASSUME NEW i \in ID, Age(i) PROVE KeyChange(k)
  <2>1. kv \in [ID -> Entry] /\ kv' = [kv EXCEPT ![i].stale = TRUE]
    BY Zenon, <1>0, <1>4 DEF Age, TypeOK
  <2>2. kv'[k].by = kv[k].by
    BY Zenon, <2>1 DEF Entry
  <2>. QED  BY Zenon, <2>2 DEF KeyChange
<1>5. ASSUME NEW i \in ID, Expire(i) PROVE KeyChange(k)
  <2>1. k = i /\ kv'[k] = Absent /\ kv[k].stale
    BY Zenon, <1>0, <1>5 DEF Expire, TypeOK
  <2>. QED  BY Zenon, <2>1, AbsentEntry DEF KeyChange
<1>6. ASSUME NEW r \in wire, Deliver(r) PROVE KeyChange(k)
  <2>1. Land(r) /\ r \in Request /\ r.by \in Claimer /\ rel'[r.by] = rel[r.by]
    BY Zenon, <1>0, <1>6, RequestType DEF Deliver
  <2>2. Sent(r) /\ (pc[r.by] \in Ended => worker[r.by] = NoID)
    BY Zenon, <2>1 DEF IInv, Holds, Ended
  <2>3. Entitled(r)
    BY Zenon, <2>1, <2>2 DEF Entitled, Land, Accepts, Sent
  <2>. QED  BY Zenon, <1>0, <2>1, <2>3, LandStep
<1>7. ASSUME NEW c \in Claimer,
             \/ ClaimStart(c) \/ ClaimGet(c) \/ StartRenewal(c) \/ RenewFails(c)
             \/ RenewDone(c) \/ LoopStops(c) \/ Close(c) \/ Crash(c)
      PROVE  FALSE
  BY Zenon, <1>7 DEF ClaimStart, ClaimGet, StartRenewal, RenewFails, TimesOut, RenewDone,
     LoopStops, Close, Crash
<1>. QED  BY Zenon, <1>1, <1>2, <1>3, <1>4, <1>5, <1>6, <1>7 DEF Next

\* claimer.go keeps every variable in its type: Claim never leaves the pool
\* and every reply and revision is one the server can produce.
THEOREM TypeCorrect == Spec => []TypeOK
  BY Invariance, PTL DEF IInv

\* A key that has not gone stale is changed by nobody but the claimer that
\* wrote it, however requests are delayed (Claim, renew and Release all
\* condition their write on the revision).
THEOREM FreshKeySafe == Spec => FreshKeyIsOwners
<1>1. IInv /\ [Next]_vars =>
        [\A i \in ID :
          (kv[i].rev # 0 /\ ~kv[i].stale /\ kv'[i] # kv[i])
          => \/ kv'[i].by = kv[i].by
             \/ kv'[i].rev = 0 /\ rel'[kv[i].by] = "released"]_vars
  <2>. SUFFICES ASSUME IInv, Next, NEW i \in ID, kv[i].rev # 0, ~kv[i].stale, kv'[i] # kv[i]
                PROVE  \/ kv'[i].by = kv[i].by
                       \/ kv'[i].rev = 0 /\ rel'[kv[i].by] = "released"
    BY Zenon DEF vars
  <2>. QED  BY Zenon, KeyStep DEF KeyChange
<1>. QED  BY Invariance, <1>1, PTL DEF Spec, FreshKeyIsOwners

\* A claimer whose key passed to somebody else, or disappeared, never makes
\* the key its own again (renew's revision check fences it for ever).
THEOREM SupersededFenced == Spec => SupersededNeverWrites
<1>1. IInv /\ [Next]_vars =>
        [\A c \in Claimer : Superseded(c) => kv'[worker[c]].by # c]_vars
  <2>. SUFFICES ASSUME IInv, Next, NEW c \in Claimer, Superseded(c)
                PROVE  kv'[worker[c]].by # c
    BY Zenon DEF vars
  <2>1. worker[c] \in ID /\ worker[c] # NoID /\ kv[worker[c]].by # c
    BY Zenon DEF IInv, TypeOK, Superseded
  <2>2. CASE kv'[worker[c]] = kv[worker[c]]
    BY Zenon, <2>1, <2>2
  <2>3. CASE kv'[worker[c]] # kv[worker[c]]
    BY Zenon, <2>1, <2>3, KeyStep, NobodyAssumption DEF KeyChange
  <2>. QED  BY Zenon, <2>2, <2>3
<1>. QED  BY Invariance, <1>1, PTL DEF Spec, SupersededNeverWrites

-----------------------------------------------------------------------------
(* The partition source *)

\* What the key can hold, and an entry of it.
Value == (SUBSET Sourced) \cup {Deleted, Undecodable}
BucketEntry == [inc : Nat, rev : Nat, value : Value]

\* e is an entry the key held in an incarnation of the bucket up to now.
Real(e) ==
    /\ e \in BucketEntry /\ e.inc # 0 /\ e.rev # 0
    /\ e.inc <= bucket.inc /\ (e.inc = bucket.inc => e.rev <= Len(bucket.log))

\* The bucket: an incarnation, and the values the key had in it.
BucketOK == bucket \in [up : BOOLEAN, inc : Nat \ {0}, log : Seq(Value)]

\* The copy comes from an entry that the bucket held.
CopyOK ==
    /\ prov \in [inc : Nat, rev : Nat] /\ revision = prov.rev
    /\ prov.inc <= bucket.inc /\ (prov.inc = bucket.inc => prov.rev <= Len(bucket.log))
    /\ prov.inc = 0 => prov.rev = 0

\* Every event a watcher still holds is such an entry.
WatcherOK ==
    /\ watcher \in [status : {"none", "live", "stalled", "closed", "exhausted"}, attempts : Nat, queue : Seq(BucketEntry)]
    /\ \A i \in 1 .. Len(watcher.queue) : Real(watcher.queue[i])

\* What the reconciler holds for a reset is of a later incarnation than the
\* copy, unless something was applied since it looked.
ReconOK ==
    /\ recon \in [at : {"idle", "empty", "got", "confirm", "reset", "apply"}, entry : BucketEntry, baseline : Nat]
    /\ recon.at \in {"got", "apply", "reset"} => Real(recon.entry)
    /\ recon.at = "reset" /\ ~moved /\ revision = recon.baseline => prov.inc < recon.entry.inc
    /\ running \/ recon = IdleRecon

\* An Update or a Modify under way; what it is about to apply was written or
\* read.
Calls == [at : {"idle", "snapshot", "fetch", "create", "update", "apply", "refresh", "refreshed"},
          kind : {"none", "update", "modify"}, value : SUBSET Sourced, attempt : Nat, rev : Nat,
          entry : BucketEntry]

CallOK ==
    /\ call \in Calls
    /\ call.at = "apply" => Real(call.entry)
    /\ call.at = "refreshed" => call.entry = NotFound \/ Real(call.entry)

\* The inductive invariant.
SInv == BucketOK /\ CopyOK /\ WatcherOK /\ ReconOK /\ CallOK

-----------------------------------------------------------------------------
\* The invariant holds initially.
LEMMA SInvInit == SourceInit => SInv
<1> SUFFICES ASSUME SourceInit PROVE SInv OBVIOUS
<1>0. Sourced \in Value BY DEF Value
<1>1. BucketOK
  <2>1. PICK l \in {<<>>, <<Sourced>>} : bucket = [up |-> TRUE, inc |-> 1, log |-> l] BY DEF SourceInit
  <2>2. <<>> \in Seq(Value) OBVIOUS
  <2>3. <<Sourced>> \in Seq(Value)
    <3> HIDE DEF Value
    <3> QED BY <1>0
  <2>4. l \in Seq(Value) BY Zenon, <2>1, <2>2, <2>3
  <2> QED BY <2>1, <2>4 DEF BucketOK
<1>2. CopyOK BY <1>1 DEF SourceInit, CopyOK, BucketOK
<1>3. NotFound \in BucketEntry
  <2>1. {} \in Value BY DEF Value
  <2> QED BY <2>1 DEF NotFound, BucketEntry
<1>4. WatcherOK BY DEF SourceInit, WatcherOK, Dead
<1>5. ReconOK BY <1>3 DEF SourceInit, ReconOK, IdleRecon, NoEntry
<1>6. CallOK BY <1>3 DEF SourceInit, CallOK, Calls, IdleCall, NoEntry
<1> QED BY <1>1, <1>2, <1>4, <1>5, <1>6 DEF SInv

\* Latest: what the bucket answers is an entry it holds, or none.
LEMMA LatestIs ==
    ASSUME BucketOK
    PROVE  /\ \/ Latest = NotFound
              \/ Real(Latest) /\ Latest.inc = bucket.inc /\ Latest.rev = Len(bucket.log)
           /\ Latest \in BucketEntry
           /\ Latest.value # Undecodable => Latest.value \in SUBSET Sourced
<1>1. NotFound \in BucketEntry /\ NotFound.value = {}
  <2>1. {} \in Value BY DEF Value
  <2> QED BY <2>1 DEF NotFound, BucketEntry
<1>2. CASE Len(bucket.log) = 0 \/ bucket.log[Len(bucket.log)] = Deleted
  <2>1. Latest = NotFound BY <1>2 DEF Latest
  <2>2. {} \in SUBSET Sourced OBVIOUS
  <2> QED BY <1>1, <2>1, <2>2
<1>3. CASE ~(Len(bucket.log) = 0 \/ bucket.log[Len(bucket.log)] = Deleted)
  <2> DEFINE n == Len(bucket.log)
  <2>1. n \in Nat \ {0} /\ bucket.log[n] \in Value /\ bucket.log[n] # Deleted
    BY <1>3 DEF BucketOK
  <2>2. Latest = [inc |-> bucket.inc, rev |-> n, value |-> bucket.log[n]]
    BY <1>3 DEF Latest
  <2>3. Latest \in BucketEntry /\ Latest.inc # 0 /\ Latest.rev # 0 BY <2>1, <2>2 DEF BucketEntry, BucketOK
  <2>4. Real(Latest) BY <2>1, <2>2, <2>3 DEF Real, BucketOK
  <2> QED BY <2>1, <2>2, <2>3, <2>4 DEF Value
<1> QED BY <1>2, <1>3

\* Appending to the log or starting a new incarnation.
Grows ==
    /\ BucketOK'
    /\ \/ bucket'.inc > bucket.inc
       \/ bucket'.inc = bucket.inc /\ Len(bucket'.log) >= Len(bucket.log)

\* An entry that was real stays real.
LEMMA RealStays == ASSUME NEW e, BucketOK, Grows, Real(e) PROVE Real(e)'
BY DEF Grows, BucketOK, Real, BucketEntry

\* A bucket that is left alone counts as growing.
LEMMA SameGrows == ASSUME BucketOK, UNCHANGED bucket PROVE Grows
BY DEF BucketOK, Grows

\* applyLocalLocked over the copy's revision.
LEMMA ApplyRolls ==
    ASSUME SInv, NEW e, Real(e), applyLocal(e), UNCHANGED bucket
    PROVE  CopyOK' /\ RollStep /\ (moved' \/ UNCHANGED <<prov, revision, moved>> \/ ~Remembered)
<1>1. CASE Passes(e.rev, revision)
  <2>1. prov' = [inc |-> e.inc, rev |-> e.rev] /\ revision' = e.rev /\ moved' = Remembered
    BY <1>1 DEF applyLocal, applyLocalLocked
  <2>2. e.rev >= prov.rev BY <1>1 DEF Passes, SInv, CopyOK, Real
  <2>3. CopyOK' BY <2>1 DEF CopyOK, Real, BucketEntry
  <2> QED BY <2>1, <2>2, <2>3 DEF RollStep
<1>2. CASE ~Passes(e.rev, revision)
  <2>1. UNCHANGED <<prov, revision, moved>> BY <1>2 DEF applyLocal, applyLocalLocked, local
  <2> QED BY <2>1 DEF SInv, CopyOK, RollStep
<1> QED BY <1>1, <1>2

\* The parts that a step on the watcher, the reconciler or the call leaves
\* alone stay in order while the bucket grows and the copy moves on.
LEMMA Rest ==
    ASSUME SInv, Grows
    PROVE  /\ UNCHANGED watcher => WatcherOK'
           /\ UNCHANGED call => CallOK'
           /\ UNCHANGED <<prov, revision>> => CopyOK'
           /\ UNCHANGED <<recon, running>> /\ (moved' \/ UNCHANGED <<prov, revision, moved>> \/ ~Remembered) => ReconOK'
<1>1. ASSUME UNCHANGED watcher PROVE WatcherOK'
  BY <1>1, RealStays DEF SInv, WatcherOK
<1>2. ASSUME UNCHANGED call PROVE CallOK'
  BY <1>2, RealStays DEF SInv, CallOK
<1>3. ASSUME UNCHANGED <<prov, revision>> PROVE CopyOK'
  BY <1>3 DEF SInv, CopyOK, Grows, BucketOK
<1>4. ASSUME UNCHANGED <<recon, running>>, moved' \/ UNCHANGED <<prov, revision, moved>> \/ ~Remembered PROVE ReconOK'
  BY <1>4, RealStays DEF SInv, ReconOK, Remembered
<1> QED BY <1>1, <1>2, <1>3, <1>4

-----------------------------------------------------------------------------
(* Start, Stop and the watcher. *)

\* applyEmptyPreservingKnown moves neither the revision nor the origin of
\* the copy.
LEMMA EmptyKeeps ==
    ASSUME SInv, applyEmptyPreservingKnown
    PROVE  RollStep /\ UNCHANGED <<prov, revision, moved>>
<1>1. UNCHANGED <<prov, revision, moved>> BY DEF applyEmptyPreservingKnown, local
<1> QED BY <1>1 DEF RollStep, SInv, CopyOK

\* A sequence of one.
LEMMA Single == ASSUME NEW x PROVE Len(<<x>>) = 1 /\ <<x>>[1] = x
OBVIOUS

\* A new watcher gets the entries the bucket holds.
LEMMA InitialIs == ASSUME BucketOK, UNCHANGED bucket, watcher' = Live(Initial) PROVE WatcherOK'
<1>1. CASE Len(bucket.log) = 0
  BY <1>1 DEF Initial, Live, WatcherOK
<1>2. CASE Len(bucket.log) # 0
  <2>1. PICK e : e = [inc |-> bucket.inc, rev |-> Len(bucket.log), value |-> bucket.log[Len(bucket.log)]]
    BY Zenon
  <2>2. bucket.log[Len(bucket.log)] \in Value BY <1>2 DEF BucketOK
  <2>3. Real(e) BY <1>2, <2>1, <2>2 DEF BucketEntry, BucketOK, Real
  <2>4. e \in BucketEntry /\ Real(e)' BY <2>3, SameGrows, RealStays DEF Real
  <2>5. watcher' = [status |-> "live", attempts |-> 0, queue |-> <<e>>] BY <1>2, <2>1 DEF Initial, Live
  <2>6. <<e>> \in Seq(BucketEntry) BY <2>4
  <2> QED BY <2>4, <2>5, <2>6, Single DEF WatcherOK
<1> QED BY <1>1, <1>2

\* Start loads the key and opens the watcher.
LEMMA StartKeeps == ASSUME SInv, Start PROVE SInv' /\ RollStep
<1> USE DEF SInv
<1>1. UNCHANGED <<bucket, recon, call>> /\ Grows /\ BucketOK' BY SameGrows DEF Start, BucketOK
<1>2. WatcherOK' BY <1>1, InitialIs DEF Start
<1>3. CallOK' BY <1>1, Rest
<1>4. recon = IdleRecon BY DEF Start, ReconOK
<1>5. ReconOK' BY <1>1, <1>4 DEF ReconOK, IdleRecon
<1>6. CopyOK' /\ RollStep
  <2>1. CASE Latest = NotFound
    <3>1. prov' = [inc |-> 0, rev |-> 0] /\ revision' = 0 BY <2>1 DEF Start
    <3> QED BY <1>1, <3>1 DEF CopyOK, RollStep, BucketOK
  <2>2. CASE Latest # NotFound
    <3>1. Real(Latest) /\ applyLocal(Latest) BY <2>2, LatestIs DEF Start, applyLocal
    <3> QED BY <1>1, <3>1, ApplyRolls
  <2> QED BY <2>1, <2>2
<1> QED BY <1>1, <1>2, <1>3, <1>5, <1>6

\* Stop waits for the goroutines, so no pass of the reconciler is left over.
LEMMA StopKeeps == ASSUME SInv, Stop PROVE SInv' /\ RollStep
<1> USE DEF SInv
<1>1. UNCHANGED <<bucket, prov, revision, recon, call>> /\ recon = IdleRecon /\ watcher' = Dead
  BY DEF Stop, local
<1>2. Grows /\ BucketOK' BY <1>1, SameGrows DEF BucketOK
<1>3. WatcherOK' BY <1>1 DEF WatcherOK, Dead
<1>4. ReconOK' BY <1>1 DEF ReconOK, IdleRecon
<1>5. CallOK' /\ CopyOK' BY <1>1, <1>2, Rest
<1>6. RollStep BY <1>1 DEF RollStep, CopyOK
<1> QED BY <1>2, <1>3, <1>4, <1>5, <1>6

\* watchLoop applies the event at the head of the queue, if its revision
\* passes.
LEMMA WatchLoopKeeps == ASSUME SInv, watchLoop PROVE SInv' /\ RollStep
<1> USE DEF SInv
<1> DEFINE e == Head(watcher.queue)
<1>1. UNCHANGED <<bucket, running, recon, call>> /\ Grows /\ BucketOK'
  BY SameGrows DEF watchLoop, BucketOK
<1>2. watcher.queue # <<>> /\ watcher.queue \in Seq(BucketEntry) /\ Real(e)
  BY DEF watchLoop, WatcherOK
<1>3. WatcherOK'
  <2>1. PICK q : q = Tail(watcher.queue) BY Zenon
  <2>2. watcher' = [watcher EXCEPT !.queue = q] BY <2>1 DEF watchLoop
  <2>3. q \in Seq(BucketEntry) /\ Len(q) = Len(watcher.queue) - 1
        /\ \A i \in 1 .. Len(q) : q[i] = watcher.queue[i + 1]
    BY <1>2, <2>1
  <2>4. ASSUME NEW i \in 1 .. Len(q) PROVE Real(q[i])'
    <3>1. i + 1 \in 1 .. Len(watcher.queue) BY <1>2, <2>3
    <3>2. Real(q[i]) BY <2>3, <3>1 DEF WatcherOK
    <3> QED BY <1>1, <3>2, RealStays
  <2> QED BY <2>2, <2>3, <2>4 DEF WatcherOK
<1>4. CallOK' BY <1>1, Rest
<1>5. CopyOK' /\ RollStep /\ (moved' \/ UNCHANGED <<prov, revision, moved>> \/ ~Remembered)
  <2>1. CASE applyLocal([e EXCEPT !.value = {}])
    <3>1. Real([e EXCEPT !.value = {}]) BY <1>2 DEF Real, BucketEntry, Value
    <3> QED BY <1>1, <2>1, <3>1, ApplyRolls
  <2>2. CASE UNCHANGED local BY <1>1, <2>2, Rest DEF local, RollStep, CopyOK
  <2>3. CASE applyLocal(e) BY <1>1, <1>2, <2>3, ApplyRolls
  <2> QED BY <2>1, <2>2, <2>3 DEF watchLoop
<1>6. ReconOK' BY <1>1, <1>5, Rest
<1> QED BY <1>1, <1>3, <1>4, <1>5, <1>6

\* tryRebindWatcher opens a new watcher or gives up; the copy stays.
LEMMA RebindKeeps == ASSUME SInv, tryRebindWatcher PROVE SInv' /\ RollStep
<1> USE DEF SInv
<1>1. UNCHANGED <<bucket, running, recon, call, prov, revision, moved>> /\ Grows /\ BucketOK'
  BY SameGrows DEF tryRebindWatcher, BucketOK, local
<1>2. CallOK' /\ CopyOK' /\ ReconOK' BY <1>1, Rest
<1>3. WatcherOK'
  <2>1. CASE watcher' = Live(Initial) BY <1>1, <2>1, InitialIs
  <2>2. CASE ~bucket.up
    <3>1. PICK st \in {"closed", "exhausted"} : watcher' = [watcher EXCEPT !.attempts = @ + 1, !.status = st]
      BY Zenon, <2>2 DEF tryRebindWatcher
    <3>2. watcher.attempts + 1 \in Nat /\ watcher.queue \in Seq(BucketEntry) BY DEF WatcherOK
    <3>3. watcher' = [status |-> st, attempts |-> watcher.attempts + 1, queue |-> watcher.queue]
      BY Zenon, <3>1 DEF WatcherOK
    <3>4. ASSUME NEW i \in 1 .. Len(watcher'.queue) PROVE (Real(watcher.queue[i]))'
      BY <1>1, <3>3, RealStays DEF WatcherOK, Real
    <3> QED BY <3>1, <3>2, <3>3, <3>4 DEF WatcherOK
  <2> QED BY <2>1, <2>2 DEF tryRebindWatcher
<1>4. RollStep BY <1>1 DEF RollStep, CopyOK
<1> QED BY <1>1, <1>2, <1>3, <1>4

-----------------------------------------------------------------------------
(* The reconciler. *)

\* The reconciler's steps change neither the bucket nor the watcher nor the call.
LEMMA ReconKeeps == ASSUME SInv, Reconciler PROVE SInv' /\ RollStep
<1> USE DEF SInv
<1>1. UNCHANGED <<bucket, running, watcher, call>> /\ Grows /\ BucketOK'
  BY SameGrows DEF Reconciler, reconcileOnce, ReconcileEmpty, applyReconcileEntry, ConfirmatoryRead,
                   ReconcileApplies, BucketOK
<1>2. WatcherOK' /\ CallOK' BY Zenon, <1>1, Rest
<1>3. NotFound \in BucketEntry /\ IdleRecon = [at |-> "idle", entry |-> NotFound, baseline |-> 0]
  <2>1. {} \in Value BY DEF Value
  <2> QED BY <2>1 DEF NotFound, BucketEntry, IdleRecon, NoEntry
<1>4. CASE reconcileOnce
  <2>1. UNCHANGED <<prov, revision, moved>> BY <1>4 DEF reconcileOnce, local
  <2>2. CopyOK' /\ RollStep BY <1>1, <2>1, Rest DEF RollStep, CopyOK
  <2>3. ReconOK'
    <3>1. CASE UNCHANGED recon BY <1>1, <2>1, <3>1, Rest
    <3>2. CASE ReconGoes("empty", NoEntry, 0)
      BY SMTT(30), <1>1, <1>3, <1>4, <3>2 DEF ReconGoes, ReconOK, reconcileOnce, NoEntry
    <3>3. CASE Latest # NotFound /\ ReconGoes("got", Latest, 0)
      <4>1. Real(Latest) /\ Latest \in BucketEntry BY <3>3, LatestIs
      <4>2. PICK e : e = Latest OBVIOUS
      <4>3. Real(e)' BY <1>1, <4>1, <4>2, RealStays
      <4>4. recon' = [at |-> "got", entry |-> e, baseline |-> 0] BY <3>3, <4>2 DEF ReconGoes
      <4> QED BY <1>1, <1>4, <4>1, <4>2, <4>3, <4>4 DEF ReconOK, reconcileOnce
    <3> QED BY <1>4, <3>1, <3>2, <3>3 DEF reconcileOnce
  <2> QED BY <1>1, <1>2, <2>2, <2>3
<1>5. CASE ReconcileEmpty
  <2>1. UNCHANGED <<prov, revision, moved>> /\ RollStep BY <1>5, EmptyKeeps DEF ReconcileEmpty
  <2>2. CopyOK' BY <1>1, <2>1, Rest
  <2>3. ReconOK' BY <1>3, <1>5 DEF ReconcileEmpty, ReconOK
  <2> QED BY <1>1, <1>2, <2>1, <2>2, <2>3
<1>6. CASE applyReconcileEntry
  <2>1. UNCHANGED <<prov, revision>> BY <1>6 DEF applyReconcileEntry
  <2>2. CopyOK' /\ RollStep BY <1>1, <2>1, Rest DEF RollStep, CopyOK
  <2>3. revision \in Nat BY DEF CopyOK
  <2>4. running BY <1>6 DEF applyReconcileEntry, ReconOK, IdleRecon
  <2>5. Real(recon.entry) BY <1>6 DEF applyReconcileEntry, ReconOK
  <2>6. PICK e : e = recon.entry OBVIOUS
  <2>7. Real(e)' /\ e \in BucketEntry BY Zenon, <1>1, <2>5, <2>6, RealStays DEF Real
  <2>8. \/ recon' = [at |-> "apply", entry |-> e, baseline |-> 0]
        \/ recon' = [at |-> "confirm", entry |-> NotFound, baseline |-> revision]
    BY <1>6, <2>6 DEF applyReconcileEntry, ReconGoes, NoEntry
  <2>9. ReconOK' BY <1>1, <1>3, <2>3, <2>4, <2>7, <2>8 DEF ReconOK
  <2> QED BY <1>1, <1>2, <2>2, <2>9
<1>7. CASE ConfirmatoryRead
  <2>1. UNCHANGED <<prov, revision, moved>> BY Zenon, <1>7 DEF ConfirmatoryRead, local
  <2>2. CopyOK' /\ RollStep BY <1>1, <2>1, Rest DEF RollStep, CopyOK
  <2>3. running /\ recon.baseline \in Nat BY <1>7 DEF ConfirmatoryRead, ReconOK, IdleRecon
  <2>4. ASSUME recon' = IdleRecon PROVE ReconOK' BY <1>3, <2>4 DEF ReconOK
  <2>5. ASSUME recon' # IdleRecon PROVE ReconOK'
    <3>1. Latest # NotFound BY <1>7, <2>5 DEF ConfirmatoryRead
    <3>2. PICK e : e = Latest OBVIOUS
    <3>3. Real(e) /\ e.inc = bucket.inc /\ e.rev = Len(bucket.log) BY <3>1, <3>2, LatestIs
    <3>4. Real(e)' /\ e \in BucketEntry BY Zenon, <1>1, <3>3, RealStays DEF Real
    <3>5. \/ recon' = [at |-> "apply", entry |-> e, baseline |-> 0]
          \/ recon' = [at |-> "reset", entry |-> e, baseline |-> recon.baseline] /\ e.rev < recon.baseline
      BY <1>7, <2>5, <3>2 DEF ConfirmatoryRead, ReconGoes
    <3>6. e.rev < recon.baseline /\ revision = recon.baseline => prov.inc < e.inc
      BY <2>3, <3>3 DEF CopyOK, Real, BucketEntry, BucketOK
    <3> QED BY <1>1, <2>1, <2>3, <3>4, <3>5, <3>6 DEF ReconOK
  <2> QED BY <1>1, <1>2, <2>2, <2>4, <2>5
<1>8. CASE ReconcileApplies
  <2>1. ReconOK' BY <1>3, <1>8 DEF ReconcileApplies, ReconOK
  <2>2. CASE recon.at = "apply" /\ applyLocal(recon.entry)
    <3>1. Real(recon.entry) BY <2>2 DEF ReconOK
    <3> QED BY <1>1, <1>2, <2>1, <2>2, <3>1, ApplyRolls
  <2>3. CASE recon.at = "reset" /\ applyReconcileReset(recon.entry, recon.baseline)
    <3> DEFINE e == recon.entry
    <3>1. Real(e) BY <2>3 DEF ReconOK
    <3>2. CASE revision = recon.baseline /\ ~moved
      <4>1. prov.inc < e.inc BY Zenon, <2>3, <3>2 DEF ReconOK
      <4>2. (prov' = [inc |-> e.inc, rev |-> e.rev] /\ revision' = e.rev) \/ UNCHANGED <<prov, revision>>
        BY Zenon, <2>3 DEF applyReconcileReset, applyLocalLocked, local
      <4>3. CopyOK' /\ RollStep BY <1>1, <3>1, <4>1, <4>2 DEF CopyOK, RollStep, Real, BucketEntry
      <4> QED BY <1>1, <1>2, <2>1, <4>3
    <3>3. CASE ~(revision = recon.baseline /\ ~moved)
      <4>1. applyLocal(e) BY Zenon, <2>3, <3>3 DEF applyReconcileReset, applyLocal, ResetBaseline
      <4> QED BY <1>1, <1>2, <2>1, <3>1, <4>1, ApplyRolls
    <3> QED BY <3>2, <3>3
  <2> QED BY <1>8, <2>2, <2>3 DEF ReconcileApplies
<1> QED BY Zenon, <1>4, <1>5, <1>6, <1>7, <1>8 DEF Reconciler

-----------------------------------------------------------------------------
(* Update and Modify. *)

\* No call is a call.
LEMMA IdleIsCall == IdleCall \in Calls /\ IdleCall.at = "idle"
<1>1. {} \in Value /\ {} \in SUBSET Sourced BY DEF Value
<1>2. NotFound \in BucketEntry BY <1>1 DEF NotFound, BucketEntry
<1> QED BY <1>1, <1>2 DEF IdleCall, Calls, NoEntry

\* CallGoes: a step of the call alone.
LEMMA CallGoesKeeps ==
    ASSUME SInv, NEW f \in Calls, CallGoes(f), f.at # "apply",
           f.at = "refreshed" => f.entry = NotFound \/ Real(f.entry)
    PROVE  SInv' /\ RollStep
<1> USE DEF SInv
<1>1. call' = f /\ UNCHANGED <<bucket, running, watcher, recon, prov, revision, moved>> BY Zenon DEF CallGoes, local
<1>2. Grows /\ BucketOK' BY <1>1, SameGrows DEF BucketOK
<1>3. CopyOK' /\ WatcherOK' /\ ReconOK' BY <1>1, <1>2, Rest
<1>4. CallOK' BY <1>1, <1>2, RealStays DEF CallOK
<1>5. RollStep BY <1>1 DEF RollStep, CopyOK
<1> QED BY <1>2, <1>3, <1>4, <1>5

\* The retry of a call, after a conflict or a refresh.
LEMMA RetryIs == ASSUME call \in Calls PROVE Retry \in Calls /\ Retry.at \notin {"apply", "refreshed"}
<1>1. {} \in Value BY DEF Value
<1>2. NoEntry \in BucketEntry BY <1>1 DEF NoEntry, NotFound, BucketEntry
<1>3. call.attempt + 1 \in Nat BY DEF Calls
<1>4. CASE Retry = IdleCall BY <1>4, IdleIsCall
<1>5. CASE Retry # IdleCall
  <2>1. PICK a \in {"snapshot", "fetch"} :
          Retry = [call EXCEPT !.at = a, !.attempt = call.attempt + 1, !.rev = 0, !.entry = NoEntry]
    BY Zenon, <1>5 DEF Retry
  <2>2. Retry = [at |-> a, kind |-> call.kind, value |-> call.value, attempt |-> call.attempt + 1, rev |-> 0,
                 entry |-> NoEntry]
    BY Zenon, <2>1 DEF Calls
  <2> QED BY <1>2, <1>3, <2>2 DEF Calls
<1> QED BY <1>4, <1>5

\* Update and Modify begin.
LEMMA BeginKeeps == ASSUME SInv, Update \/ Modify PROVE SInv' /\ RollStep
<1>1. ASSUME NEW k \in {"update", "modify"}, NEW a \in {"snapshot", "fetch"}, NEW list \in SUBSET Sourced
      PROVE  [IdleCall EXCEPT !.at = a, !.kind = k, !.value = list] \in Calls
             /\ [IdleCall EXCEPT !.at = a, !.kind = k].at = a
             /\ [IdleCall EXCEPT !.at = a, !.kind = k, !.value = list].at = a
             /\ [IdleCall EXCEPT !.at = a, !.kind = k] \in Calls
  BY Zenon, IdleIsCall DEF Calls
<1>2. CASE Update
  <2>1. PICK list \in {Sourced, {}} :
          CallGoes([IdleCall EXCEPT !.at = "snapshot", !.kind = "update", !.value = list])
    BY Zenon, <1>2 DEF Update
  <2> QED BY Zenon, <1>1, <2>1, CallGoesKeeps
<1>3. CASE Modify
  <2>1. CallGoes([IdleCall EXCEPT !.at = "fetch", !.kind = "modify"]) BY <1>3 DEF Modify
  <2> QED BY Zenon, <1>1, <2>1, CallGoesKeeps
<1> QED BY <1>2, <1>3

\* The steps of a call that read, conflict, fail or give up.
LEMMA ReadsKeep ==
    ASSUME SInv, UpdateReads \/ fetchFromKV \/ CallConflicts \/ CallFails \/ RefreshReads \/ OutOfRoom
    PROVE  SInv' /\ RollStep
<1>1. call \in Calls BY DEF SInv, CallOK
<1>2. BucketOK /\ revision \in Nat BY DEF SInv, CopyOK
<1>3. CASE CallGoes(IdleCall) BY <1>3, IdleIsCall, CallGoesKeeps
<1>4. CASE CallGoes(Retry) BY <1>1, <1>4, RetryIs, CallGoesKeeps
<1>5. CASE UpdateReads
  <2>1. PICK a \in {"update", "create"} : CallGoes([call EXCEPT !.at = a, !.rev = revision])
    BY Zenon, <1>5 DEF UpdateReads
  <2>2. [call EXCEPT !.at = a, !.rev = revision] \in Calls BY Zenon, <1>1, <1>2 DEF Calls
  <2>3. [call EXCEPT !.at = a, !.rev = revision].at = a BY <1>1 DEF Calls
  <2> QED BY Zenon, <2>1, <2>2, <2>3, CallGoesKeeps
<1>6. CASE fetchFromKV /\ ~CallGoes(IdleCall)
  <2>1. Latest.value \in SUBSET Sourced /\ Latest \in BucketEntry BY Zenon, <1>2, <1>6, LatestIs DEF fetchFromKV
  <2>2. PICK p \in Sourced : \E list \in {AddPartitions(Latest.value, p), RemovePartitions(Latest.value, p)} :
          CallGoes([call EXCEPT !.at = IF Latest.rev = 0 THEN "create" ELSE "update", !.rev = Latest.rev, !.value = list])
    BY Zenon, <1>6 DEF fetchFromKV
  <2>3. PICK list \in {AddPartitions(Latest.value, p), RemovePartitions(Latest.value, p)} :
          CallGoes([call EXCEPT !.at = IF Latest.rev = 0 THEN "create" ELSE "update", !.rev = Latest.rev, !.value = list])
    BY Zenon, <2>2
  <2>4. list \in SUBSET Sourced BY <2>1, <2>3 DEF AddPartitions, RemovePartitions
  <2>5. PICK a \in {"update", "create"} : CallGoes([call EXCEPT !.at = a, !.rev = Latest.rev, !.value = list])
    BY Zenon, <2>3
  <2>6. Latest.rev \in Nat BY <2>1 DEF BucketEntry
  <2>7. [call EXCEPT !.at = a, !.rev = Latest.rev, !.value = list] \in Calls BY Zenon, <1>1, <2>4, <2>5, <2>6 DEF Calls
  <2>8. [call EXCEPT !.at = a, !.rev = Latest.rev, !.value = list].at = a BY <1>1 DEF Calls
  <2> QED BY ZenonT(30), <2>5, <2>7, <2>8, CallGoesKeeps
<1>7. CASE CallConflicts /\ ~CallGoes(Retry)
  <2>1. CallGoes([call EXCEPT !.at = "refresh", !.rev = 0]) BY <1>7 DEF CallConflicts
  <2>2. [call EXCEPT !.at = "refresh", !.rev = 0] \in Calls BY Zenon, <1>1 DEF Calls
  <2>3. [call EXCEPT !.at = "refresh", !.rev = 0].at = "refresh" BY <1>1 DEF Calls
  <2> QED BY Zenon, <2>1, <2>2, <2>3, CallGoesKeeps
<1>8. CASE RefreshReads /\ ~CallGoes(IdleCall)
  <2>1. CallGoes([call EXCEPT !.at = "refreshed", !.entry = Latest]) BY <1>8 DEF RefreshReads
  <2>2. Latest \in BucketEntry /\ (Latest = NotFound \/ Real(Latest)) BY <1>2, LatestIs
  <2>3. [call EXCEPT !.at = "refreshed", !.entry = Latest] \in Calls BY Zenon, <1>1, <2>2 DEF Calls
  <2>4. [call EXCEPT !.at = "refreshed", !.entry = Latest].at = "refreshed"
        /\ [call EXCEPT !.at = "refreshed", !.entry = Latest].entry = Latest
    BY <1>1 DEF Calls
  <2> QED BY Zenon, <2>1, <2>2, <2>3, <2>4, CallGoesKeeps
<1> QED BY <1>3, <1>4, <1>5, <1>6, <1>7, <1>8 DEF CallFails, OutOfRoom

\* A write: the bucket's log grows by v, and a live watcher gets the event.
LEMMA WriteGrows ==
    ASSUME SInv, NEW v \in Value, bucket' = Written(v), watcher' = Delivered(v)
    PROVE  Grows /\ WatcherOK' /\ \E e \in BucketEntry : e = Event(v) /\ Real(e)'
<1> USE DEF SInv
<1>1. Len(bucket.log) \in Nat BY DEF BucketOK
<1>2. Append(bucket.log, v) \in Seq(Value) /\ Len(Append(bucket.log, v)) = Len(bucket.log) + 1 BY DEF BucketOK
<1>3. bucket' = [up |-> bucket.up, inc |-> bucket.inc, log |-> Append(bucket.log, v)] BY Zenon DEF Written, BucketOK
<1>4. Grows BY <1>1, <1>2, <1>3 DEF Grows, BucketOK
<1>5. PICK e : e = Event(v) OBVIOUS
<1>6. e \in BucketEntry /\ e.inc = bucket.inc /\ e.rev = Len(bucket.log) + 1 BY <1>1, <1>5 DEF Event, BucketEntry, BucketOK
<1>7. Real(e)' BY <1>1, <1>2, <1>3, <1>6 DEF Real, BucketOK
<1>8. WatcherOK'
  <2>1. CASE watcher.status = "live"
    <3>1. PICK q : q = Append(watcher.queue, e) BY Zenon
    <3>2. watcher.queue \in Seq(BucketEntry) BY DEF WatcherOK
    <3>3. q \in Seq(BucketEntry) /\ Len(q) = Len(watcher.queue) + 1 /\ q[Len(watcher.queue) + 1] = e
          /\ \A i \in 1 .. Len(watcher.queue) : q[i] = watcher.queue[i]
      BY <1>6, <3>1, <3>2
    <3>4. watcher' = [status |-> watcher.status, attempts |-> watcher.attempts, queue |-> q]
      BY Zenon, <1>5, <2>1, <3>1 DEF Delivered, WatcherOK
    <3>5. ASSUME NEW i \in 1 .. Len(q) PROVE Real(q[i])'
      <4>1. CASE i = Len(watcher.queue) + 1 BY <1>7, <3>3, <4>1
      <4>2. CASE i # Len(watcher.queue) + 1
        <5>1. i \in 1 .. Len(watcher.queue) BY <3>2, <3>3, <4>2
        <5>2. Real(q[i]) BY <3>3, <5>1 DEF WatcherOK
        <5> QED BY <1>4, <5>2, RealStays
      <4> QED BY <4>1, <4>2
    <3> QED BY <3>3, <3>4, <3>5 DEF WatcherOK
  <2>2. CASE watcher.status # "live"
    BY <1>4, <2>2, Rest DEF Delivered
  <2> QED BY Zenon, <2>1, <2>2
<1> QED BY <1>4, <1>5, <1>6, <1>7, <1>8

\* The writes: a call's own, and those of others.
LEMMA WritesKeep == ASSUME SInv, CallWrites \/ OthersWrite PROVE SInv' /\ RollStep
<1> USE DEF SInv
<1>1. PICK v \in Value : bucket' = Written(v) /\ watcher' = Delivered(v) /\ (CallWrites => v = call.value)
  <2>1. CASE CallWrites BY <2>1 DEF CallWrites, CallOK, Calls, Value
  <2>2. CASE OthersWrite /\ ~CallWrites
    <3>1. Sourced \in Value /\ Deleted \in Value /\ Undecodable \in Value BY DEF Value
    <3> QED BY <2>2, <3>1 DEF OthersWrite
  <2> QED BY <2>1, <2>2
<1>2. UNCHANGED <<running, recon, prov, revision, moved>> BY DEF CallWrites, OthersWrite, local
<1>3. Grows /\ WatcherOK' BY <1>1, WriteGrows
<1>4. BucketOK' /\ CopyOK' /\ ReconOK' BY <1>2, <1>3, Rest DEF Grows
<1>5. RollStep BY <1>2 DEF RollStep, CopyOK
<1>6. CallOK'
  <2>1. CASE CallWrites
    <3>1. PICK e \in BucketEntry : e = Event(v) /\ Real(e)' BY <1>1, WriteGrows
    <3>2. call' = [IdleCall EXCEPT !.at = "apply", !.entry = e] BY Zenon, <1>1, <2>1, <3>1 DEF CallWrites
    <3>3. call' \in Calls /\ call'.at = "apply" /\ call'.entry = e BY Zenon, <3>2, IdleIsCall DEF Calls
    <3> QED BY <3>1, <3>3 DEF CallOK
  <2>2. CASE OthersWrite BY <1>3, <2>2, Rest DEF OthersWrite
  <2> QED BY <2>1, <2>2
<1> QED BY <1>3, <1>4, <1>5, <1>6

\* A call applies what it wrote, or what it read when it refreshed the copy.
LEMMA AppliesKeep == ASSUME SInv, CallApplies \/ refreshFromKV PROVE SInv' /\ RollStep
<1> USE DEF SInv
<1>1. UNCHANGED <<bucket, running, watcher, recon>> BY DEF CallApplies, refreshFromKV
<1>2. Grows /\ BucketOK' BY <1>1, SameGrows DEF BucketOK
<1>3. WatcherOK' BY <1>1, <1>2, Rest
<1>4. CallOK'
  <2>1. call' = IdleCall \/ call' = Retry BY DEF CallApplies, refreshFromKV
  <2> QED BY <2>1, IdleIsCall, RetryIs DEF CallOK
<1>5. CopyOK' /\ RollStep /\ (moved' \/ UNCHANGED <<prov, revision, moved>> \/ ~Remembered)
  <2>1. CASE applyLocal(call.entry) /\ Real(call.entry) BY <1>1, <2>1, ApplyRolls
  <2>2. CASE applyEmptyPreservingKnown BY <1>2, <2>2, EmptyKeeps, Rest
  <2> QED BY <2>1, <2>2 DEF CallApplies, refreshFromKV, CallOK
<1>6. ReconOK' BY <1>1, <1>2, <1>5, Rest
<1> QED BY <1>2, <1>3, <1>4, <1>5, <1>6

\* The bucket is deleted or recreated, or a watcher breaks.
LEMMA OutsideKeeps ==
    ASSUME SInv, BucketDeleted \/ BucketRecreated \/ WatcherBreaks \/ UNCHANGED sourceVars
    PROVE  SInv' /\ RollStep
<1> USE DEF SInv
<1>1. UNCHANGED <<running, recon, prov, revision, moved, call>>
  BY DEF BucketDeleted, BucketRecreated, WatcherBreaks, sourceVars, local
<1>2. Grows
  <2>1. CASE UNCHANGED bucket BY Zenon, <2>1, SameGrows
  <2>2. CASE BucketDeleted
    <3>1. bucket' = [up |-> FALSE, inc |-> bucket.inc, log |-> bucket.log] BY Zenon, <2>2 DEF BucketDeleted, BucketOK
    <3> QED BY <3>1 DEF Grows, BucketOK
  <2>3. CASE BucketRecreated
    <3>1. bucket' = [up |-> TRUE, inc |-> bucket.inc + 1, log |-> <<>>] BY <2>3 DEF BucketRecreated
    <3> QED BY <3>1 DEF Grows, BucketOK
  <2> QED BY <2>1, <2>2, <2>3 DEF WatcherBreaks, sourceVars
<1>3. BucketOK' /\ CopyOK' /\ ReconOK' /\ CallOK' BY <1>1, <1>2, Rest DEF Grows
<1>4. WatcherOK'
  <2>1. CASE UNCHANGED watcher BY <1>2, <2>1, Rest
  <2>2. CASE ~UNCHANGED watcher
    <3>1. PICK st \in {"stalled", "closed"} : watcher' = [watcher EXCEPT !.status = st]
      BY <2>2 DEF BucketDeleted, BucketRecreated, WatcherBreaks, sourceVars
    <3>2. watcher' = [status |-> st, attempts |-> watcher.attempts, queue |-> watcher.queue]
      BY Zenon, <3>1 DEF WatcherOK
    <3>3. watcher.queue \in Seq(BucketEntry) /\ watcher.attempts \in Nat BY DEF WatcherOK
    <3>4. ASSUME NEW i \in 1 .. Len(watcher'.queue) PROVE (Real(watcher.queue[i]))'
      BY <1>2, <3>2, RealStays DEF WatcherOK, Real
    <3> QED BY <3>1, <3>2, <3>3, <3>4 DEF WatcherOK
  <2> QED BY <2>1, <2>2
<1>5. RollStep BY <1>1 DEF RollStep, CopyOK
<1> QED BY <1>3, <1>4, <1>5

\* The partition source never goes back: within an incarnation of the bucket
\* the copy moves to later revisions only, whether a watch event, a
\* reconcile pass, an Update or a refresh is what applies an entry, in
\* whatever order they run (applyLocalLocked, applyReconcileReset).
THEOREM CopyOnlyAdvances == SourceSpec => CopyNeverGoesBack
<1>1. SInv /\ [SourceNext]_sourceVars => SInv' /\ RollStep
  <2> SUFFICES ASSUME SInv, SourceNext \/ UNCHANGED sourceVars PROVE SInv' /\ RollStep OBVIOUS
  <2> QED BY Zenon, StartKeeps, StopKeeps, WatchLoopKeeps, RebindKeeps, ReconKeeps, BeginKeeps, ReadsKeep, WritesKeep,
             AppliesKeep, OutsideKeeps
          DEF SourceNext, StartFails, Watcher, Caller
<1> QED BY <1>1, SInvInit, PTL DEF SourceSpec, CopyNeverGoesBack
=============================================================================
