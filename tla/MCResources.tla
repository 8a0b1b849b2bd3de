---------------------------- MODULE MCResources -----------------------------
(***************************************************************************)
(* The buckets and streams behind parti, side by side in one run: a        *)
(* behaviour is one of a worker's setup and verification of its buckets    *)
(* with the health gates above it (Health), of partictl's plan and apply   *)
(* (Provision), of the operator (Operator) or of a pull loop that recovers *)
(* its durable (Recovery).  Health, Provision and Recovery rest in an      *)
(* initial state, in which their properties hold, while another part runs. *)
(***************************************************************************)
EXTENDS Health, Provision, Recovery

CONSTANTS
    MaxOperatorFaults, MaxLag, Retries

VARIABLES
    part,
    cache, events, queued, delayed, reconcile, alive, secret, nats, clean, swallowed, operatorFaults

O == INSTANCE Operator WITH rec <- reconcile

operatorVars == <<cache, events, queued, delayed, reconcile, alive, secret, nats, clean, swallowed, operatorFaults>>
vars == <<part, healthVars, provisionVars, recoveryVars, operatorVars>>

BucketOrder == <<"heartbeat", "handoff">>

InHealth == part = "health"
InProvision == part = "provision"
InOperator == part = "operator"
InRecovery == part = "recovery"

Unused(v) == v = <<>>
NoOperator ==
    /\ Unused(cache) /\ Unused(events) /\ Unused(queued) /\ Unused(delayed) /\ Unused(reconcile)
    /\ Unused(alive) /\ Unused(secret) /\ Unused(nats) /\ Unused(clean) /\ Unused(swallowed) /\ Unused(operatorFaults)

Init ==
    /\ part \in {"health", "provision", "operator", "recovery"}
    /\ HealthInit /\ ProvisionInit /\ RecoveryInit
    /\ InHealth \/ \A b \in Bucket : ~bk[b].here
    /\ InProvision \/ (kind = "table" /\ policy = "warn" /\ ~allow /\ rev = 0)
    /\ InRecovery \/ conf = [kind |-> "queue", strategy |-> "new", hook |-> FALSE, manual |-> FALSE]
    /\ IF InOperator THEN O!OperatorInit ELSE NoOperator

Next ==
    \/ InHealth /\ HealthNext /\ UNCHANGED <<part, provisionVars, recoveryVars, operatorVars>>
    \/ InProvision /\ ProvisionNext /\ UNCHANGED <<part, healthVars, recoveryVars, operatorVars>>
    \/ InOperator /\ O!OperatorNext /\ UNCHANGED <<part, healthVars, provisionVars, recoveryVars>>
    \/ InRecovery /\ RecoveryNext /\ UNCHANGED <<part, healthVars, provisionVars, operatorVars>>

\* The fairness of the modules, each for its own part.
Fairness ==
    /\ WF_healthVars(InHealth /\ Start) /\ WF_healthVars(InHealth /\ Tick)
    /\ WF_healthVars(InHealth /\ Connection) /\ WF_healthVars(InHealth /\ RecoveryBegins)
    /\ WF_healthVars(InHealth /\ Recovery) /\ WF_healthVars(InHealth /\ RecordKVError)
    /\ WF_healthVars(InHealth /\ GraceTimerFires) /\ WF_healthVars(InHealth /\ HeartbeatSucceeds)
    /\ WF_healthVars(InHealth /\ EnumerationSucceeds)
    /\ \A b \in Bucket : WF_healthVars(InHealth /\ CheckBucketEpoch(b))
    /\ WF_operatorVars(InOperator /\ O!Steps) /\ WF_operatorVars(InOperator /\ O!Deliver)
    /\ WF_operatorVars(InOperator /\ O!DelayedAdd) /\ WF_operatorVars(InOperator /\ O!Restart)
    /\ WF_recoveryVars(InRecovery /\ Loop) /\ WF_recoveryVars(InRecovery /\ CooldownEnds)
    /\ WF_recoveryVars(InRecovery /\ WindowPasses)

Spec == Init /\ [][Next]_vars /\ Fairness

-----------------------------------------------------------------------------
\* Reconcile, finish: Ready at a generation means that generation was applied,
\* and the status comes to describe the last generation.
StatusIsTrue ==
    /\ [](InOperator => O!ReadyIsEarned)
    /\ <>[](InOperator => O!Reported \/ swallowed)

=============================================================================
