------------------------------ MODULE Election ------------------------------
(***************************************************************************)
(* Leader election: internal/election/nats_election.go, and the parts of   *)
(* the manager that drive it (manager_election.go: participateElection,    *)
(* monitorLeadership, releaseLeadershipAfterCalculatorFailure; manager.go: *)
(* the election steps of Start and Stop).                                  *)
(*                                                                         *)
(* The lease is one key in a KV bucket whose TTL is the lease.  A manager  *)
(* acquires it with Create, renews it with a revision-checked Update and   *)
(* releases it with an unconditional Delete.  All requests of a process    *)
(* use one connection, so they reach the server in order; one whose reply  *)
(* is not awaited any longer (deadline, cancellation) may still arrive.    *)
(***************************************************************************)
EXTENDS Naturals, Sequences

CONSTANTS
    Proc,       \* the processes, one Manager and one NATSElection each
    WorkerOf,   \* process -> the worker ID it claimed
    Running,    \* processes whose Start is over when the model begins, as followers
    MaxSeq,     \* bound: stream sequence numbers TLC may use
    MaxWire     \* bound: abandoned requests of a process still travelling

Nobody == "nobody"

\* The stable IDs of live processes differ (module StableID).
ASSUME OwnWorkerIDs == \A p, q \in Proc : WorkerOf[p] = WorkerOf[q] => p = q
ASSUME NobodyIsNoProc == Nobody \notin Proc

VARIABLES
    key,     \* the leader key: revision (0 = absent), writer; ghost: its term
    seq,     \* last stream sequence number
    wire,    \* process -> its abandoned requests that may still arrive
    el,      \* process -> NATSElection's isLeader, revision, termRevision
    leader,  \* process -> Manager.isLeader
    calc,    \* process -> a calculator is running
    call,    \* process -> the election call monitorLeadership is in
    boot,    \* process -> how far Start is
    stop     \* process -> how far Stop is; m.ctx is cancelled unless "no"

vars == <<key, seq, wire, el, leader, calc, call, boot, stop>>
kvVars == <<key, seq, wire>>

NoKey == [rev |-> 0, by |-> Nobody, term |-> 0]
Key == [rev : Nat, by : Proc \cup {Nobody}, term : Nat]
NotLeading == [leads |-> FALSE, rev |-> 0, term |-> 0]
ElState == [leads : BOOLEAN, rev : Nat, term : Nat]
Request == [op : {"create", "update", "delete"}, exp : Nat, by : Proc]
NoCall == [op |-> "none", res |-> "none", rev |-> 0]
Call == [op : {"none", "renew", "rerenew", "create", "startcalc"},
         res : {"none", "ok", "refused", "ctx", "error"}, rev : Nat]

\* Wrong variant: the lease is taken with a Put, which replaces a live key.
CreateByPut(p) ==
    [op |-> IF key.rev = 0 THEN "create" ELSE "update", exp |-> key.rev, by |-> p]
Create(p) == [op |-> "create", exp |-> 0, by |-> p]
Delete(p) == [op |-> "delete", exp |-> 0, by |-> p]
Update(p) == [op |-> "update", exp |-> el[p].rev, by |-> p]

Alive(p) == stop[p] = "no"

Accepts(r) ==
    CASE r.op = "create" -> key.rev = 0
      [] r.op = "update" -> key.rev = r.exp /\ key.rev # 0
      [] OTHER -> TRUE

\* What an accepted request does to the bucket; only Create starts a term.
Land(r) ==
    /\ Accepts(r)
    /\ seq < MaxSeq
    /\ seq' = seq + 1
    /\ key' = CASE r.op = "create" -> [rev |-> seq + 1, by |-> r.by, term |-> seq + 1]
                [] r.op = "update" -> [rev |-> seq + 1, by |-> r.by, term |-> key.term]
                [] OTHER -> NoKey

\* The caller stops waiting: the request travels on (past the bound: is lost).
Abandon(p, r) ==
    /\ wire' = IF Len(wire[p]) < MaxWire THEN [wire EXCEPT ![p] = Append(@, r)] ELSE wire
    /\ UNCHANGED <<key, seq>>

\* One KV write of process p, up to the moment its caller learns the result.
Send(p, op, r) ==
    \E res \in {"ok", "refused", "ctx", "error"} :
        /\ \/ res = "ok" /\ Alive(p) /\ wire[p] = <<>> /\ Land(r) /\ UNCHANGED wire
           \/ res = "refused" /\ Alive(p) /\ wire[p] = <<>> /\ ~Accepts(r) /\ UNCHANGED kvVars
           \/ res = "ctx" /\ Abandon(p, r)
           \/ res = "error" /\ UNCHANGED kvVars
        /\ call' = [call EXCEPT ![p] =
                       [op |-> op, res |-> res, rev |-> IF res = "ok" THEN seq + 1 ELSE 0]]

Init ==
    /\ key = NoKey
    /\ seq = 0
    /\ wire = [p \in Proc |-> <<>>]
    /\ el = [p \in Proc |-> NotLeading]
    /\ leader = [p \in Proc |-> FALSE]
    /\ calc = [p \in Proc |-> FALSE]
    /\ call = [p \in Proc |-> NoCall]
    /\ boot = [p \in Proc |-> IF p \in Running THEN "done" ELSE "boot"]
    /\ stop = [p \in Proc |-> "no"]

-----------------------------------------------------------------------------
(* NATSElection, as monitorLeadership calls it *)

\* RequestLeadership's first request: an agent that still counts itself the
\* leader renews, any other tries to create the key.  participateElection
\* makes the same call while Start is in its election step.
RequestLeadership(p) ==
    IF el[p].leads THEN Send(p, "rerenew", Update(p)) ELSE Send(p, "create", Create(p))

\* A tick of monitorLeadership, or the call of participateElection.
Tick(p) ==
    /\ Alive(p) /\ call[p] = NoCall
    /\ boot[p] = "boot" => ~leader[p]
    /\ leader[p] => el[p].leads
    /\ IF leader[p] THEN Send(p, "renew", Update(p)) ELSE RequestLeadership(p)
    /\ UNCHANGED <<el, leader, calc, boot, stop>>

\* RenewLeadership answers ErrNotLeader without asking the server.  A tick
\* may win the select once more after m.ctx is cancelled.
TickNotLeader(p) ==
    /\ call[p] = NoCall /\ boot[p] # "boot"
    /\ leader[p] /\ ~el[p].leads
    /\ leader' = [leader EXCEPT ![p] = FALSE]
    /\ calc' = [calc EXCEPT ![p] = FALSE]
    /\ UNCHANGED <<kvVars, el, call, boot, stop>>

\* Wrong variant: a refused renewal is tried again like a failed request.
RenewDoneRetries(p) ==
    /\ call[p].op = "renew"
    /\ call' = [call EXCEPT ![p] = NoCall]
    /\ IF call[p].res = "ok" THEN el' = [el EXCEPT ![p].rev = call[p].rev] ELSE UNCHANGED el
    /\ UNCHANGED <<kvVars, leader, calc, boot, stop>>

\* RenewLeadership returns to a leader: any error stops the calculator, but
\* a context error keeps the agent's own state for a later release.
RenewDone(p) ==
    /\ call[p].op = "renew"
    /\ call' = [call EXCEPT ![p] = NoCall]
    /\ \/ /\ call[p].res = "ok"
          /\ el' = [el EXCEPT ![p].rev = call[p].rev]
          /\ UNCHANGED <<leader, calc>>
       \/ /\ call[p].res = "ctx" /\ ~Alive(p)
          /\ UNCHANGED <<el, leader, calc>>
       \/ /\ call[p].res # "ok"
          /\ el' = IF call[p].res = "ctx" THEN el ELSE [el EXCEPT ![p] = NotLeading]
          /\ leader' = [leader EXCEPT ![p] = FALSE]
          /\ calc' = [calc EXCEPT ![p] = FALSE]
    /\ UNCHANGED <<kvVars, boot, stop>>

\* RequestLeadership's renewal returns: success keeps the term, a context
\* error is returned as it is, a lost lease falls through to Create.
RerenewDone(p) ==
    /\ call[p].op = "rerenew"
    /\ \/ /\ call[p].res = "ok"
          /\ el' = [el EXCEPT ![p].rev = call[p].rev]
          /\ leader' = [leader EXCEPT ![p] = TRUE]
          /\ call' = [call EXCEPT ![p] = [NoCall EXCEPT !.op = "startcalc"]]
          /\ UNCHANGED kvVars
       \/ /\ call[p].res = "ctx"
          /\ call' = [call EXCEPT ![p] = NoCall]
          /\ UNCHANGED <<kvVars, el, leader>>
       \/ /\ call[p].res \in {"refused", "error"}
          /\ el' = [el EXCEPT ![p] = NotLeading]
          /\ Send(p, "create", Create(p))
          /\ UNCHANGED leader
    /\ UNCHANGED <<calc, boot, stop>>

\* RequestLeadership's Create returns: the new key's revision is the term.
\* During Start an error ends Start, which cleans up by calling Stop.
CreateDone(p) ==
    /\ call[p].op = "create"
    /\ LET won == call[p].res = "ok"
           booting == boot[p] = "boot" IN
       /\ el' = IF won
                THEN [el EXCEPT ![p] = [leads |-> TRUE, rev |-> call[p].rev, term |-> call[p].rev]]
                ELSE el
       /\ leader' = [leader EXCEPT ![p] = won]
       /\ call' = [call EXCEPT ![p] = IF won /\ ~booting
                                      THEN [NoCall EXCEPT !.op = "startcalc"] ELSE NoCall]
       /\ boot' = [boot EXCEPT ![p] = CASE ~booting -> @
                                        [] call[p].res \in {"ok", "refused"} -> "elected"
                                        [] OTHER -> "done"]
       /\ stop' = [stop EXCEPT ![p] = IF booting /\ call[p].res \in {"ctx", "error"} /\ @ = "no"
                                      THEN "drain" ELSE @]
    /\ UNCHANGED <<kvVars, calc>>

\* startCalculator after a take-over.  Its Start publishes, so it fails when
\* m.ctx is cancelled, and may fail otherwise; then leadership is released.
StartCalc(p) ==
    /\ call[p].op = "startcalc"
    /\ call' = [call EXCEPT ![p] = NoCall]
    /\ \/ /\ calc[p] \/ Alive(p)
          /\ calc' = [calc EXCEPT ![p] = TRUE]
          /\ UNCHANGED <<kvVars, el, leader>>
       \/ /\ ~calc[p]
          /\ leader' = [leader EXCEPT ![p] = FALSE]
          /\ \/ /\ el[p].leads /\ Alive(p) /\ wire[p] = <<>> /\ Land(Delete(p))
                /\ el' = [el EXCEPT ![p] = NotLeading]
                /\ UNCHANGED wire
             \/ el[p].leads /\ Abandon(p, Delete(p)) /\ UNCHANGED el
             \/ UNCHANGED <<kvVars, el>>
          /\ UNCHANGED calc
    /\ UNCHANGED <<boot, stop>>

-----------------------------------------------------------------------------
(* Start and Stop *)

\* Start, step 4: `if m.IsLeader()`, read before startCalculator's lock.
StartReadsLeader(p) ==
    /\ boot[p] = "elected"
    /\ boot' = [boot EXCEPT ![p] = IF leader[p] THEN "starting" ELSE "done"]
    /\ UNCHANGED <<kvVars, el, leader, calc, call, stop>>

\* Start, step 4: startCalculator.  A failure ends Start, which calls Stop.
StartStartsCalc(p) ==
    /\ boot[p] = "starting"
    /\ boot' = [boot EXCEPT ![p] = "done"]
    /\ \/ /\ calc[p] \/ Alive(p)
          /\ calc' = [calc EXCEPT ![p] = TRUE]
          /\ UNCHANGED stop
       \/ /\ ~calc[p]
          /\ stop' = [stop EXCEPT ![p] = CASE @ # "no" -> @
                                           [] el[p].leads -> "delete"
                                           [] OTHER -> "drain"]
          /\ UNCHANGED calc
    /\ UNCHANGED <<kvVars, el, leader, call>>

\* Stop cancels m.ctx and looks whether there is a lease to release.
Stop(p) ==
    /\ Alive(p) /\ boot[p] # "boot"
    /\ stop' = [stop EXCEPT ![p] = IF el[p].leads THEN "delete" ELSE "drain"]
    /\ UNCHANGED <<kvVars, el, leader, calc, call, boot>>

\* ReleaseLeadership's Delete, which no revision guards.
StopDelete(p) ==
    /\ stop[p] = "delete"
    /\ stop' = [stop EXCEPT ![p] = "drain"]
    /\ \/ /\ wire[p] = <<>> /\ Land(Delete(p)) /\ UNCHANGED wire
          /\ el' = [el EXCEPT ![p] = NotLeading]
       \/ Abandon(p, Delete(p)) /\ UNCHANGED el
    /\ UNCHANGED <<leader, calc, call, boot>>

\* Wrong variant: Stop leaves the calculator to the cancelled context.
StopSkipsCalculator(p) ==
    /\ stop[p] = "drain"
    /\ stop' = [stop EXCEPT ![p] = "stopped"]
    /\ UNCHANGED <<kvVars, el, leader, calc, call, boot>>

\* stopCalculator, then the rest of Stop.
StopDrain(p) ==
    /\ stop[p] = "drain"
    /\ stop' = [stop EXCEPT ![p] = "stopped"]
    /\ calc' = [calc EXCEPT ![p] = FALSE]
    /\ UNCHANGED <<kvVars, el, leader, call, boot>>

-----------------------------------------------------------------------------
(* Environment *)

\* external: the bucket TTL ends the lease.  The operation timeout may be as
\* long as the lease, so a leader that is waiting for an answer can miss it.
Expire ==
    /\ key.rev # 0
    /\ key' = NoKey
    /\ UNCHANGED <<seq, wire, el, leader, calc, call, boot, stop>>

\* external: an abandoned request arrives, or is lost.
Deliver(p) ==
    /\ wire[p] # <<>>
    /\ wire' = [wire EXCEPT ![p] = Tail(@)]
    /\ Land(Head(wire[p])) \/ UNCHANGED <<key, seq>>
    /\ UNCHANGED <<el, leader, calc, call, boot, stop>>

Next ==
    \/ \E p \in Proc :
          \/ Tick(p) \/ TickNotLeader(p) \/ RenewDone(p) \/ RerenewDone(p)
          \/ CreateDone(p) \/ StartCalc(p) \/ StartReadsLeader(p) \/ StartStartsCalc(p)
          \/ Stop(p) \/ StopDelete(p) \/ StopDrain(p) \/ Deliver(p)
    \/ Expire

Spec == Init /\ [][Next]_vars

\* monitorLeadership is a ticker loop: while m.ctx lives it ticks again and
\* again, and every call it makes returns within OperationTimeout.
Fairness ==
    \A p \in Proc :
        /\ WF_vars(Tick(p)) /\ WF_vars(TickNotLeader(p)) /\ WF_vars(RenewDone(p))
        /\ WF_vars(RerenewDone(p)) /\ WF_vars(CreateDone(p)) /\ WF_vars(StartCalc(p))

FairSpec == Spec /\ Fairness

-----------------------------------------------------------------------------
(* Properties *)

TypeOK ==
    /\ key \in Key /\ seq \in Nat
    /\ wire \in [Proc -> Seq(Request)]
    /\ el \in [Proc -> ElState] /\ call \in [Proc -> Call]
    /\ leader \in [Proc -> BOOLEAN] /\ calc \in [Proc -> BOOLEAN]
    /\ boot \in [Proc -> {"boot", "elected", "starting", "done"}]
    /\ stop \in [Proc -> {"no", "delete", "drain", "stopped"}]

\* Wrong variant: the live value is not compared, only its revision.
CheckPassesByRevision(p, claimed) ==
    /\ claimed # 0 /\ el[p].term = claimed
    /\ key.rev # 0 /\ key.rev >= claimed

\* CheckLeadership(claimed) of process p returns nil.
CheckPasses(p, claimed) ==
    /\ claimed # 0 /\ el[p].term = claimed
    /\ key.rev # 0 /\ key.rev >= claimed
    /\ WorkerOf[key.by] = WorkerOf[p]

\* nats_election.go CheckLeadership "verifies that this election agent still
\* holds the live leadership term claimed by the caller": when it passes, the
\* live key belongs to the very term the caller claims.  And a lease is never
\* taken from its holder (RequestLeadership, RenewLeadership): while the key
\* exists its holder and its term are fixed, however late a request arrives.
TermsAreFenced ==
    /\ [](\A p \in Proc : CheckPasses(p, el[p].term) => key.by = p /\ key.term = el[p].term)
    /\ [][key.rev # 0 /\ key'.rev # 0 => key'.by = key.by /\ key'.term = key.term]_vars

\* manager.go Stop: no calculator is running once Stop is past its calculator
\* step, whatever election call was in flight when it began.
NoCalculatorAfterStop ==
    \A p \in Proc : stop[p] = "stopped" => ~calc[p]

Deposed(p) == leader[p] /\ key.by # p /\ Alive(p)

\* manager_election.go monitorLeadership: a manager whose lease ended finds
\* out: it gives up the leader role, unless it stops first.
DeposedLearns == \A p \in Proc : []<>~Deposed(p)

\* docs/plans/worker-state-hardening/06-pr6-spec.md:8 says of a Stop that is
\* slower than the lease: "A second worker acquires leadership via Create; the
\* original worker's eventual ReleaseLeadership hits a revision mismatch".
ReleaseKeepsOthersLease ==
    [][\A p \in Proc :
          stop[p] = "delete" /\ stop'[p] = "drain" /\ seq' # seq
          => key.by = p \/ key.rev = 0]_vars
=============================================================================
