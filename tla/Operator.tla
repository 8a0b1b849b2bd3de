------------------------------ MODULE Operator ------------------------------
(***************************************************************************)
(* The Kubernetes operator (k8s/internal/controller): one                  *)
(* ProvisionedPartiEnv object, the reconcile worker that turns its spec    *)
(* into NATS resources, and the status it writes back.                     *)
(*                                                                         *)
(* The controller reads the object through an informer cache that lags     *)
(* behind the API server by the watch events not yet delivered, so the     *)
(* server's object is the last undelivered event, or the cached one when   *)
(* there is none; a status write based on a stale cached object conflicts. *)
(* A reconcile is split where it waits: for the Secret, the connection,    *)
(* Plan, Apply and the status write.  What Apply does to NATS is module    *)
(* Provision; here only the class of its outcome matters.                  *)
(***************************************************************************)
EXTENDS Naturals, Sequences

CONSTANTS
    MaxGen,         \* bound on the generations of the object's spec
    MaxOperatorFaults,
                    \* bound on changes of the Secret and of NATS, failed status writes, shutdowns
    MaxLag,         \* bound on the watch events under way to the cache
    Retries         \* attempts of retry.RetryOnConflict (retry.DefaultRetry: 5)

VARIABLES
    cache,          \* the informer's copy of the object
    events,         \* versions of the object the informer has not seen yet
    queued,         \* the workqueue holds the object's key
    delayed,        \* pending delayed adds: "backoff", "resync"
    rec,            \* the reconcile under way
    alive,          \* the manager's context is not cancelled
    secret,         \* the auth Secret: "none", "nokey", "malformed", "good"
    nats,           \* NATS: "up", "down", "slow" (answers after the API timeout), "rejects" (refuses a resource)
    clean,          \* history: generations whose Apply completed without error
    swallowed,      \* history: the last reconcile ended with no status, no error and a live context
    operatorFaults

operatorVars == <<cache, events, queued, delayed, rec, alive, secret, nats, clean, swallowed, operatorFaults>>
world == <<secret, nats, operatorFaults>>
informer == <<cache, events>>

-----------------------------------------------------------------------------

\* What the code tells specs apart by: a History out of range (mapping.go), the number of auth keys
\* named, and provision.Validate's verdict.
Specs == {"plain", "auth", "twokeys", "badHistory", "invalid"}

authKeyCount(spec) == CASE spec = "auth" -> 1 [] spec = "twokeys" -> 2 [] OTHER -> 0

toProvisionConfigFails(spec) == spec = "badHistory"

Server == IF events = <<>> THEN cache ELSE events[Len(events)]

Idle == [pc |-> "idle", gen |-> 0, spec |-> "plain", reason |-> "none", result |-> "none", tries |-> 0]

\* ctrl.Result and error of a reconcile: an error is retried with backoff, RequeueAfter after ResyncPeriod.
Return(result) ==
    /\ rec' = Idle
    /\ delayed' = delayed \cup (CASE result = "error" -> {"backoff"} [] result = "resync" -> {"resync"} [] OTHER -> {})

\* finish up to its retry loop: with a dead context nothing is written; otherwise the generation
\* the reconcile read and its outcome are captured.
finish(r, reason, result) ==
    IF ~alive THEN Return("error")
    ELSE rec' = [r EXCEPT !.pc = "finish", !.reason = reason, !.result = result] /\ UNCHANGED delayed

GoOn(r, pc) == rec' = [r EXCEPT !.pc = pc] /\ UNCHANGED delayed

OperatorInit ==
    \E s \in Specs :
        /\ cache = [here |-> TRUE, gen |-> 1, spec |-> s, obs |-> 0, reason |-> "none"]
        /\ events = <<>> /\ queued = TRUE /\ delayed = {} /\ rec = Idle /\ alive = TRUE
        /\ secret \in {"none", "good"} /\ nats = "up"
        /\ clean = {} /\ swallowed = FALSE /\ operatorFaults = 0

-----------------------------------------------------------------------------
(* The reconcile *)

\* Reconcile, Steps 1 and 2: the cached object and its mapping to a provision.Config.
Reconcile ==
    /\ alive /\ queued /\ rec.pc = "idle"
    /\ queued' = FALSE /\ swallowed' = FALSE
    /\ LET r == [Idle EXCEPT !.gen = cache.gen, !.spec = cache.spec] IN
       IF ~cache.here THEN Return("none")
       ELSE IF toProvisionConfigFails(cache.spec) THEN finish(r, "InvalidSpec", "none")
       ELSE GoOn(r, IF authKeyCount(cache.spec) = 1 THEN "secret" ELSE "connect")
    /\ UNCHANGED <<informer, world, alive, clean>>

\* Step 3: the Secret is read only when exactly one auth key is named.
GetSecret ==
    /\ rec.pc = "secret"
    /\ IF secret = "none" THEN finish(rec, "SecretMissing", "error") ELSE GoOn(rec, "connect")
    /\ UNCHANGED <<informer, queued, world, alive, clean, swallowed>>

\* buildAuthOption and buildNkeyOption: the error class of the auth spec against the Secret.
buildAuthOption(spec) ==
    CASE authKeyCount(spec) > 1 -> "errAuthSpecInvalid"
      [] authKeyCount(spec) = 0 -> "ok"
      [] OTHER -> CASE secret \in {"none", "nokey"} -> "errSecretKeyMissing"
                    [] secret = "malformed" -> "error"
                    [] OTHER -> "ok"

\* connectNATS: the auth option, nats.Connect, and the context checked after it.
connectNATS(spec) ==
    IF buildAuthOption(spec) # "ok" THEN buildAuthOption(spec)
    ELSE IF nats = "down" \/ ~alive THEN "error" ELSE "ok"

\* Step 4.
Connect ==
    /\ rec.pc = "connect"
    /\ LET err == connectNATS(rec.spec) IN
       CASE err = "errAuthSpecInvalid" -> finish(rec, "InvalidSpec", "none")
         [] err = "errSecretKeyMissing" -> finish(rec, "SecretMissing", "error")
         [] err = "error" -> finish(rec, "NATSUnreachable", "error")
         [] OTHER -> GoOn(rec, "plan")
    /\ UNCHANGED <<informer, queued, world, alive, clean, swallowed>>

\* isCancellation: the error wraps Canceled or DeadlineExceeded; a JetStream request that outlives
\* the client's own API timeout is a DeadlineExceeded too, with the reconcile's context alive.
isCancellation == ~alive \/ nats = "slow"

\* ClassApplyAborted: no status, and ctx.Err() is returned, nil when the context is alive.
Aborted ==
    /\ Return(IF alive THEN "none" ELSE "error")
    /\ swallowed' = alive

\* runProvision, Validate and Plan.
RunPlan ==
    /\ rec.pc = "plan"
    /\ IF rec.spec = "invalid" THEN finish(rec, "InvalidSpec", "none") /\ UNCHANGED swallowed
       ELSE IF isCancellation THEN Aborted
       ELSE IF nats = "down" THEN finish(rec, "NATSUnreachable", "error") /\ UNCHANGED swallowed
       ELSE GoOn(rec, "apply") /\ UNCHANGED swallowed
    /\ UNCHANGED <<informer, queued, world, alive, clean>>

\* classifyApplyResult: cancellation first, then the Report; NATS lost before the first action
\* leaves an empty Report, lost in the middle of them one with an error.
classifyApplyResult ==
    CASE isCancellation -> {"ClassApplyAborted"}
      [] nats = "up" -> {"ClassOK"}
      [] nats = "rejects" -> {"ClassApplyResourceError"}
      [] OTHER -> {"ClassTransientNATS", "ClassApplyResourceError"}

\* runProvision's Apply, and Reconcile's switch on the class.
RunApply ==
    /\ rec.pc = "apply"
    /\ \E class \in classifyApplyResult :
        \/ class = "ClassApplyAborted" /\ Aborted /\ UNCHANGED clean
        \/ class = "ClassOK" /\ finish(rec, "Reconciled", "resync")
           /\ clean' = clean \cup {rec.gen} /\ UNCHANGED swallowed
        \/ class = "ClassApplyResourceError" /\ finish(rec, "ApplyError", "resync") /\ UNCHANGED <<clean, swallowed>>
        \/ class = "ClassTransientNATS" /\ finish(rec, "NATSUnreachable", "error") /\ UNCHANGED <<clean, swallowed>>
    /\ UNCHANGED <<informer, queued, world, alive>>

StampsFresh(fresh, r) == [fresh EXCEPT !.obs = fresh.gen, !.reason = r.reason]

\* The status fields finish writes: the captured generation, never the re-fetched one.
StatusOf(fresh, r) == [fresh EXCEPT !.obs = r.gen, !.reason = r.reason]

\* One attempt of finish's retry loop: re-fetch from the cache and update the server's object.  A
\* write that changes nothing (LastReconcileTime has seconds, so only one of the same second) makes
\* no new version.  An error other than a conflict, or the last conflict, becomes the reconcile's error.
WriteStatus(failure) ==
    /\ rec.pc = "finish"
    /\ \/ ~cache.here /\ Return(rec.result) /\ UNCHANGED <<informer, operatorFaults>>
       \/ /\ cache.here /\ events = <<>> /\ alive
          /\ LET new == StatusOf(cache, rec) IN
             events' \in {<<new>>} \cup (IF new = cache THEN {<<>>} ELSE {})
          /\ Return(rec.result)
          /\ UNCHANGED <<cache, operatorFaults>>
       \/ /\ cache.here /\ events # <<>> /\ alive /\ Server.here
          /\ IF rec.tries + 1 < Retries
             THEN rec' = [rec EXCEPT !.tries = @ + 1] /\ UNCHANGED delayed
             ELSE Return(failure)
          /\ UNCHANGED <<informer, operatorFaults>>
       \/ cache.here /\ (~alive \/ ~Server.here) /\ Return(failure) /\ UNCHANGED <<informer, operatorFaults>>
       \/ /\ cache.here /\ operatorFaults < MaxOperatorFaults /\ operatorFaults' = operatorFaults + 1
          /\ Return(failure) /\ UNCHANGED informer
    /\ UNCHANGED <<queued, secret, nats, alive, clean, swallowed>>

FinishIgnoresWriteError == WriteStatus(rec.result)

Finish == WriteStatus("error")

-----------------------------------------------------------------------------
(* The controller runtime *)

\* For(&ProvisionedPartiEnv{}) with no predicate: every event, the controller's own status writes
\* included, enqueues the key.
Deliver ==
    /\ alive /\ events # <<>>
    /\ cache' = Head(events) /\ events' = Tail(events)
    /\ queued' = TRUE
    /\ UNCHANGED <<delayed, rec, world, alive, clean, swallowed>>

DelayedAdd ==
    /\ alive
    /\ \E d \in delayed : delayed' = delayed \ {d}
    /\ queued' = TRUE
    /\ UNCHANGED <<informer, rec, world, alive, clean, swallowed>>

\* SIGTERM cancels the manager's context; a reconcile under way runs to its end.
Shutdown ==
    /\ alive /\ operatorFaults < MaxOperatorFaults
    /\ alive' = FALSE /\ operatorFaults' = operatorFaults + 1
    /\ UNCHANGED <<informer, queued, delayed, rec, secret, nats, clean, swallowed>>

\* The Deployment starts a new process, also after one that died in the middle of a reconcile: the
\* informer lists the objects and enqueues each.
Restart ==
    /\ ~alive
    /\ alive' = TRUE /\ rec' = Idle /\ delayed' = {} /\ swallowed' = FALSE
    /\ cache' = Server /\ events' = <<>> /\ queued' = Server.here
    /\ UNCHANGED <<world, clean>>

-----------------------------------------------------------------------------
(* The user, the Secret and NATS *)

Edit ==
    /\ Server.here /\ Server.gen < MaxGen /\ Len(events) < MaxLag
    /\ \E s \in Specs : events' = Append(events, [Server EXCEPT !.gen = @ + 1, !.spec = s])
    /\ UNCHANGED <<cache, queued, delayed, rec, world, alive, clean, swallowed>>

Delete ==
    /\ Server.here /\ Server.gen = MaxGen /\ Len(events) < MaxLag
    /\ events' = Append(events, [Server EXCEPT !.here = FALSE])
    /\ UNCHANGED <<cache, queued, delayed, rec, world, alive, clean, swallowed>>

Fault ==
    /\ operatorFaults < MaxOperatorFaults /\ operatorFaults' = operatorFaults + 1
    /\ \/ secret' \in {"none", "nokey", "malformed", "good"} \ {secret} /\ UNCHANGED nats
       \/ nats' \in {"up", "down", "slow", "rejects"} \ {nats} /\ UNCHANGED secret
    /\ UNCHANGED <<informer, queued, delayed, rec, alive, clean, swallowed>>

OperatorNext ==
    \/ Reconcile \/ GetSecret \/ Connect \/ RunPlan \/ RunApply \/ Finish
    \/ Deliver \/ DelayedAdd \/ Shutdown \/ Restart \/ Edit \/ Delete \/ Fault

OperatorSpec == OperatorInit /\ [][OperatorNext]_operatorVars

\* The worker runs its reconcile, the informer delivers, delayed adds fire and the Deployment
\* restarts the process; nobody has to edit, and NATS and the Secret need not heal.
Steps == Reconcile \/ GetSecret \/ Connect \/ RunPlan \/ RunApply \/ Finish
FairOperatorSpec ==
    /\ OperatorSpec
    /\ WF_operatorVars(Steps) /\ WF_operatorVars(Deliver)
    /\ WF_operatorVars(DelayedAdd) /\ WF_operatorVars(Restart)

-----------------------------------------------------------------------------
(* Properties *)

Healthy == nats = "up" /\ (Server.spec = "plain" \/ (Server.spec = "auth" /\ secret = "good"))

Reported == ~Server.here \/ (Server.obs = Server.gen /\ (Healthy => Server.reason = "Reconciled"))

\* Ready at a generation: Apply of that generation completed without an error (finish).
ReadyIsEarned == Server.reason = "Reconciled" => Server.obs \in clean

\* Ready=True with observedGeneration g means Apply of generation g's spec completed cleanly, also
\* when an edit lands between the reconcile's read and its status write (finish captures the
\* generation before its retry loop).  Once the edits and the faults are over, the status ends up
\* describing the last generation, and as Ready when that spec can be applied: no conflict, failed
\* write, shutdown or stale read is the last word, although InvalidSpec asks for no requeue.
\* Reconciles that Aborted leaves without a status under a live context are excluded here.
StatusIsTrue == []ReadyIsEarned /\ <>[](Reported \/ swallowed)

\* The comment on the ClassApplyAborted branch (provisionedpartienv_controller.go:170-172): "no status
\* is persisted for an aborted reconcile, and the next reconcile on a fresh ctx records the real outcome".
OutcomeRecorded == <>[]Reported
=============================================================================
