------------------------------ MODULE StableID ------------------------------
(***************************************************************************)
(* Stable worker-ID claiming: internal/stableid/claimer.go.                *)
(*                                                                         *)
(* Every process that wants to be a worker owns one Claimer.  A claimer    *)
(* walks the ID pool, claims the first free or stale ID with a             *)
(* revision-checked write, renews its key from a background loop, and      *)
(* deletes it on Release.  The KV bucket gives every write a new stream    *)
(* sequence number as its revision; a write is accepted only if the key's  *)
(* revision is the one the request expects (0 for Create).                 *)
(*                                                                         *)
(* A request whose reply is lost (deadline exceeded) stays on the wire and *)
(* may land at the server at any later time, or never.                     *)
(***************************************************************************)
EXTENDS Naturals, FiniteSets

CONSTANTS
    Claimer,    \* the processes, one Claimer object each
    MaxID,      \* the pool is 1..MaxID (minID..maxID in the code)
    MaxSeq,     \* bound: stream sequence numbers TLC may use
    MaxWire     \* bound: abandoned requests travelling at the same time

ASSUME MaxIDAssumption == MaxID \in Nat
ASSUME MaxSeqAssumption == MaxSeq \in Nat

ID == 1..MaxID
NoID == 0
Nobody == "nobody"
ASSUME NobodyAssumption == Nobody \notin Claimer

VARIABLES
    kv,       \* ID -> the live entry of its key; rev = 0 when absent
    seq,      \* last stream sequence number
    wire,     \* write requests whose sender gave up waiting
    pc,       \* claimer -> where its Claim call is
    tryID,    \* claimer -> loop variable of Claim
    seenRev,  \* claimer -> revision read by the Get of a stale key
    worker,   \* claimer -> c.workerID
    lastRev,  \* claimer -> c.lastRevision
    loop,     \* claimer -> the renewal loop
    reply,    \* claimer -> the answer an in-flight renewal is about to read
    rel       \* claimer -> where its Release call is

vars == <<kv, seq, wire, pc, tryID, seenRev, worker, lastRev, loop, reply, rel>>
claimVars == <<pc, tryID, seenRev>>

Absent == [rev |-> 0, by |-> Nobody, stale |-> FALSE]
Entry == [rev : Nat, by : Claimer \cup {Nobody}, stale : BOOLEAN]
Request == [op : {"put", "del"}, id : ID, exp : Nat, by : Claimer]

\* The answers of a renewal's Update as renew() tells them apart.
NoReply == [kind |-> "none", rev |-> 0]
Reply == [kind : {"none", "ok", "mismatch", "gone", "error"}, rev : Nat]

Put(c, id, exp) == [op |-> "put", id |-> id, exp |-> exp, by |-> c]
\* Wrong variant: the delete is not conditioned on the claimer's revision.
DelUnchecked(c, id, exp) == [op |-> "del", id |-> id, exp |-> kv[id].rev, by |-> c]
Del(c, id, exp) == [op |-> "del", id |-> id, exp |-> exp, by |-> c]

\* The server accepts a request iff the key still has the expected revision.
Accepts(r) == kv[r.id].rev = r.exp

\* What an accepted request does to the bucket.
Land(r) ==
    /\ Accepts(r)
    /\ seq < MaxSeq
    /\ seq' = seq + 1
    /\ kv' = [kv EXCEPT ![r.id] =
                 IF r.op = "put"
                 THEN [rev |-> seq + 1, by |-> r.by, stale |-> FALSE]
                 ELSE Absent]

Refused(r) == ~Accepts(r) /\ UNCHANGED <<kv, seq>>

\* The sender gives up: the request is still travelling.
TimesOut(r) ==
    /\ Cardinality(wire) < MaxWire
    /\ wire' = wire \cup {r}
    /\ UNCHANGED <<kv, seq>>

Init ==
    /\ kv = [i \in ID |-> Absent]
    /\ seq = 0
    /\ wire = {}
    /\ pc = [c \in Claimer |-> "idle"]
    /\ tryID = [c \in Claimer |-> 1]
    /\ seenRev = [c \in Claimer |-> 0]
    /\ worker = [c \in Claimer |-> NoID]
    /\ lastRev = [c \in Claimer |-> 0]
    /\ loop = [c \in Claimer |-> "off"]
    /\ reply = [c \in Claimer |-> NoReply]
    /\ rel = [c \in Claimer |-> "no"]

-----------------------------------------------------------------------------
(* Claim *)

\* Claim enters its loop; an exhausted pool returns ErrNoAvailableID.
ClaimStart(c) ==
    /\ pc[c] = "idle"
    /\ pc' = [pc EXCEPT ![c] = IF MaxID = 0 THEN "failed" ELSE "create"]
    /\ UNCHANGED <<kv, seq, wire, tryID, seenRev, worker, lastRev, loop, reply, rel>>

\* A successful write: this claimer now holds the ID at the new revision.
Won(c) ==
    /\ worker' = [worker EXCEPT ![c] = tryID[c]]
    /\ lastRev' = [lastRev EXCEPT ![c] = seq + 1]
    /\ pc' = [pc EXCEPT ![c] = "held"]
    /\ tryID' = [tryID EXCEPT ![c] = 1]
    /\ seenRev' = [seenRev EXCEPT ![c] = 0]
    /\ UNCHANGED wire

NextID(c) ==
    /\ tryID' = [tryID EXCEPT ![c] = IF tryID[c] = MaxID THEN 1 ELSE @ + 1]
    /\ pc' = [pc EXCEPT ![c] = IF tryID[c] = MaxID THEN "failed" ELSE "create"]
    /\ seenRev' = [seenRev EXCEPT ![c] = 0]
    /\ UNCHANGED <<wire, worker, lastRev>>

\* An unexpected error aborts the call; a timed-out request may still land.
Aborted(c, r) ==
    /\ pc' = [pc EXCEPT ![c] = "failed"]
    /\ tryID' = [tryID EXCEPT ![c] = 1]
    /\ seenRev' = [seenRev EXCEPT ![c] = 0]
    /\ TimesOut(r) \/ UNCHANGED <<kv, seq, wire>>
    /\ UNCHANGED <<worker, lastRev>>

\* kv.Create: the key is ours, or it exists and is looked at next.
ClaimCreate(c) ==
    /\ pc[c] = "create"
    /\ LET r == Put(c, tryID[c], 0) IN
       \/ Land(r) /\ Won(c)
       \/ /\ Refused(r)
          /\ pc' = [pc EXCEPT ![c] = "get"]
          /\ UNCHANGED <<wire, tryID, seenRev, worker, lastRev>>
       \/ Aborted(c, r)
    /\ UNCHANGED <<loop, reply, rel>>

\* kv.Get: any failure (the key is gone, or the read failed) retries Create;
\* a stale key is a take-over candidate, a fresh one sends us to the next ID.
ClaimGet(c) ==
    /\ pc[c] = "get"
    /\ \/ /\ pc' = [pc EXCEPT ![c] = "recreate"]
          /\ UNCHANGED <<wire, tryID, seenRev, worker, lastRev>>
       \/ /\ kv[tryID[c]].stale
          /\ pc' = [pc EXCEPT ![c] = "takeover"]
          /\ seenRev' = [seenRev EXCEPT ![c] = kv[tryID[c]].rev]
          /\ UNCHANGED <<wire, tryID, worker, lastRev>>
       \/ kv[tryID[c]].rev # 0 /\ ~kv[tryID[c]].stale /\ NextID(c)
    /\ UNCHANGED <<kv, seq, loop, reply, rel>>

\* The Create retry after the key disappeared, and the revision-checked
\* Update that takes a stale key over.  Losing either race means next ID.
ClaimRetry(c) ==
    /\ pc[c] \in {"recreate", "takeover"}
    /\ LET r == Put(c, tryID[c], IF pc[c] = "recreate" THEN 0 ELSE seenRev[c]) IN
       \/ Land(r) /\ Won(c)
       \/ Refused(r) /\ NextID(c)
       \/ Aborted(c, r)
    /\ UNCHANGED <<loop, reply, rel>>

-----------------------------------------------------------------------------
(* Renewal *)

StartRenewal(c) ==
    /\ worker[c] # NoID /\ rel[c] = "no" /\ loop[c] = "off"
    /\ loop' = [loop EXCEPT ![c] = "run"]
    /\ UNCHANGED <<kv, seq, wire, claimVars, worker, lastRev, reply, rel>>

\* Wrong variant: renewal by Put, which no revision guards.
RenewByPut(c) == Put(c, worker[c], kv[worker[c]].rev)

RenewRequest(c) == Put(c, worker[c], lastRev[c])

\* One tick of the renewal loop: the Update reaches the server.  Its answer
\* is read by RenewDone, so a Release may run in between.
RenewUpdate(c) ==
    /\ loop[c] = "run" /\ reply[c] = NoReply /\ worker[c] # NoID
    /\ \/ /\ Land(RenewRequest(c))
          /\ reply' = [reply EXCEPT ![c] = [kind |-> "ok", rev |-> seq + 1]]
       \/ /\ Refused(RenewRequest(c))
          /\ reply' = [reply EXCEPT ![c] = [kind |-> "mismatch", rev |-> 0]]
    /\ UNCHANGED <<wire, claimVars, worker, lastRev, loop, rel>>

\* The Update fails otherwise: its deadline passes with the request possibly
\* still under way, or the bucket's stream is missing and nothing is written.
RenewFails(c) ==
    /\ loop[c] = "run" /\ reply[c] = NoReply /\ worker[c] # NoID
    /\ \/ /\ TimesOut(RenewRequest(c))
          /\ reply' = [reply EXCEPT ![c] = [kind |-> "error", rev |-> 0]]
       \/ /\ reply' = [reply EXCEPT ![c] = [kind |-> "gone", rev |-> 0]]
          /\ UNCHANGED <<kv, seq, wire>>
    /\ UNCHANGED <<claimVars, worker, lastRev, loop, rel>>

\* Wrong variant: a revision mismatch is reported and retried for ever.
RenewRetriesMismatch(c) ==
    /\ reply[c] # NoReply
    /\ lastRev' = IF reply[c].kind = "ok"
                  THEN [lastRev EXCEPT ![c] = reply[c].rev] ELSE lastRev
    /\ loop' = [loop EXCEPT ![c] = IF reply[c].kind = "gone" THEN "gone" ELSE @]
    /\ reply' = [reply EXCEPT ![c] = NoReply]
    /\ UNCHANGED <<kv, seq, wire, claimVars, worker, rel>>

\* renew() stores the new revision, or returns ErrClaimLost (which ends the
\* loop), or an error the loop only reports.
RenewDone(c) ==
    /\ reply[c] # NoReply
    /\ lastRev' = IF reply[c].kind = "ok"
                  THEN [lastRev EXCEPT ![c] = reply[c].rev] ELSE lastRev
    /\ loop' = [loop EXCEPT ![c] =
                  CASE reply[c].kind = "mismatch" -> "lost"
                    [] reply[c].kind = "gone" -> "gone"
                    [] OTHER -> @]
    /\ reply' = [reply EXCEPT ![c] = NoReply]
    /\ UNCHANGED <<kv, seq, wire, claimVars, worker, rel>>

\* The loop sees stopCh closed.
LoopStops(c) ==
    /\ loop[c] = "run" /\ reply[c] = NoReply /\ rel[c] # "no"
    /\ loop' = [loop EXCEPT ![c] = "stopped"]
    /\ UNCHANGED <<kv, seq, wire, claimVars, worker, lastRev, reply, rel>>

-----------------------------------------------------------------------------
(* Release and Close *)

\* Close stopCh.  Close() does only this ("closed"), Release goes on.
Close(c) ==
    /\ worker[c] # NoID /\ rel[c] = "no"
    /\ rel' = [rel EXCEPT ![c] = "closed"]
    /\ UNCHANGED <<kv, seq, wire, claimVars, worker, lastRev, loop, reply>>

\* Release waits for the loop or for 5 seconds, whichever is first, so its
\* delete may overtake a renewal in flight.  A lost race (ErrKeyExists) is
\* tolerated; any other error keeps workerID, and Release may be called again.
Release(c) ==
    /\ worker[c] # NoID
    /\ rel' = [rel EXCEPT ![c] = "released"]
    /\ LET r == Del(c, worker[c], lastRev[c]) IN
       \/ /\ Land(r) \/ Refused(r)
          /\ worker' = [worker EXCEPT ![c] = NoID]
          /\ UNCHANGED wire
       \/ TimesOut(r) /\ UNCHANGED worker
    /\ UNCHANGED <<claimVars, lastRev, loop, reply>>

-----------------------------------------------------------------------------
(* Environment: the server, the network and crashes *)

\* external: the key's age passes staleThreshold (3 renewal intervals).
Age(i) ==
    /\ kv[i].rev # 0 /\ ~kv[i].stale
    /\ kv' = [kv EXCEPT ![i].stale = TRUE]
    /\ UNCHANGED <<seq, wire, claimVars, worker, lastRev, loop, reply, rel>>

\* external: the bucket TTL removes a key nobody renewed.
Expire(i) ==
    /\ kv[i].stale
    /\ kv' = [kv EXCEPT ![i] = Absent]
    /\ UNCHANGED <<seq, wire, claimVars, worker, lastRev, loop, reply, rel>>

\* external: a request whose sender gave up reaches the server, or is lost.
Deliver(r) ==
    /\ r \in wire
    /\ wire' = wire \ {r}
    /\ Land(r) \/ UNCHANGED <<kv, seq>>
    /\ UNCHANGED <<claimVars, worker, lastRev, loop, reply, rel>>

\* The process dies; only what is on the wire and in the bucket survives.
Crash(c) ==
    /\ pc[c] # "crashed"
    /\ pc' = [pc EXCEPT ![c] = "crashed"]
    /\ tryID' = [tryID EXCEPT ![c] = 1]
    /\ seenRev' = [seenRev EXCEPT ![c] = 0]
    /\ worker' = [worker EXCEPT ![c] = NoID]
    /\ lastRev' = [lastRev EXCEPT ![c] = 0]
    /\ loop' = [loop EXCEPT ![c] = "off"]
    /\ reply' = [reply EXCEPT ![c] = NoReply]
    /\ UNCHANGED <<kv, seq, wire, rel>>

Next ==
    \/ \E c \in Claimer :
          \/ ClaimStart(c) \/ ClaimCreate(c) \/ ClaimGet(c) \/ ClaimRetry(c)
          \/ StartRenewal(c) \/ RenewUpdate(c) \/ RenewFails(c) \/ RenewDone(c)
          \/ LoopStops(c) \/ Close(c) \/ Release(c) \/ Crash(c)
    \/ \E i \in ID : Age(i) \/ Expire(i)
    \/ \E r \in wire : Deliver(r)

Spec == Init /\ [][Next]_vars

\* The renewal ticker fires for as long as the loop runs and its Update is
\* answered again and again; the loop goroutine is scheduled.
Fairness ==
    \A c \in Claimer : SF_vars(RenewUpdate(c)) /\ WF_vars(RenewDone(c))

FairSpec == Spec /\ Fairness

-----------------------------------------------------------------------------
(* Properties *)

\* Every variable stays in its type; in particular Claim's loop variable never
\* leaves the pool and every revision in use was issued by the stream.
TypeOK ==
    /\ kv \in [ID -> Entry]
    /\ seq \in Nat
    /\ wire \subseteq Request
    /\ pc \in [Claimer -> {"idle", "create", "get", "recreate", "takeover",
                          "held", "failed", "crashed"}]
    /\ tryID \in [Claimer -> ID \cup {1}]
    /\ seenRev \in [Claimer -> Nat]
    /\ worker \in [Claimer -> ID \cup {NoID}]
    /\ lastRev \in [Claimer -> Nat]
    /\ loop \in [Claimer -> {"off", "run", "lost", "gone", "stopped"}]
    /\ reply \in [Claimer -> Reply]
    /\ rel \in [Claimer -> {"no", "closed", "released"}]

\* The claimer thinks it holds an ID whose key is no longer its own.
Superseded(c) == worker[c] # NoID /\ kv[worker[c]].by # c

\* claimer.go Claim/renew/Release: a key that has not gone stale is only ever
\* changed by the claimer that wrote it: renewed by its loop, or removed by a
\* delete its own Release issued.  No take-over, late renewal, late delete or
\* shutdown of a former holder ever touches a live holder's key.
FreshKeyIsOwners ==
    [][\A i \in ID :
          (kv[i].rev # 0 /\ ~kv[i].stale /\ kv'[i] # kv[i])
          => \/ kv'[i].by = kv[i].by
             \/ kv'[i].rev = 0 /\ rel'[kv[i].by] = "released"]_vars

\* claimer.go renew: once its key has passed to somebody else, or is gone, a
\* claimer never gets it back by renewing: whatever it or a request it left on
\* the wire does, the key does not become its own again.
SupersededNeverWrites ==
    [][\A c \in Claimer : Superseded(c) => kv'[worker[c]].by # c]_vars

\* claimer.go renewalLoop: a claimer that lost its key finds out: its renewal
\* loop does not go on for ever against the new owner.
SupersededLearns ==
    \A c \in Claimer :
        (Superseded(c) /\ loop[c] = "run") ~> (loop[c] # "run" \/ worker[c] = NoID)

=============================================================================
