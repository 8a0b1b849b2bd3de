------------------------------ MODULE Provision ------------------------------
(***************************************************************************)
(* provision: Plan/Apply for the control-plane buckets, the partition-      *)
(* source bucket and the application streams, PlanConsumers/ApplyConsumers  *)
(* and PlanPartitions/ApplyPartitions, for one resource, against a server   *)
(* that other operators change at any moment.  A plan is computed from one  *)
(* read; every action reads again before it writes, and nothing but the     *)
(* partition table is written with a compare-and-swap.                      *)
(*                                                                          *)
(* A live configuration is a record of the groups of fields the code treats *)
(* alike: "fixed" (storage, history, retention; a consumer's identity),     *)
(* "settings" (TTL, replicas, subjects, limits), "size" (MaxValueSize), the *)
(* three marker keys, the other metadata, and the fields no comparison      *)
(* looks at.  "want" is the configured value, "x" and "y" are two others.   *)
(***************************************************************************)
EXTENDS Integers, FiniteSets

CONSTANTS Part,         \* partitions a table may hold
          Keep,         \* the ones the configuration declares
          MaxRuns,      \* bound: runs of partictl
          MaxChanges,   \* bound: changes by other operators
          MaxMishaps    \* bound: failed or cancelled remote calls

\* A table is a finite list of records.
ASSUME PartAssumption == IsFiniteSet(Part)

VARIABLES kind,    \* the resource under provisioning
          policy,  \* Config.Policy
          allow,   \* AllowDeleteRecreate; for the table, prune
          live,    \* the configuration on the server, or Missing
          table,   \* partition table on the server: weight, 0 = not there
          rev,     \* revision of the table's key, 0 = key not there
          phase,   \* the step the run is at
          plan,    \* the planned action
          snap,    \* what the action read again
          seen,    \* the revision it read with it
          result,  \* how the run ended
          runs, changes, mishaps,
          steady     \* nothing changed or failed since the plan was made

provisionVars == <<kind, policy, allow, live, table, rev, phase, plan, snap, seen,
          result, runs, changes, mishaps, steady>>

config == <<kind, policy, allow>>
resource == <<live, table, rev>>
bounds == <<runs, changes, mishaps>>

Kinds == {"controlplane", "partitionsource", "stream", "consumer", "table"}
Policies == {"warn", "adopt", "safe-update", "force"}

Fields == {"fixed", "settings", "size", "managed", "component", "instance",
           "foreign", "kept"}

Missing == [f \in Fields |-> "missing"]
Wanted == [f \in Fields |-> "want"]
Drifted(f) == {[Wanted EXCEPT ![f] = v] : v \in {"x", "y"}}

\* Configurations a resource can be found in: as wanted, one group off, or both
\* a fixed and a mutable group off.
Configs == {Wanted} \cup (UNION {Drifted(f) : f \in Fields})
           \cup {[Wanted EXCEPT !["fixed"] = "x", !["settings"] = "x"]}
           \cup {[Wanted EXCEPT !["managed"] = "absent", !["fixed"] = "x"],
                 [Wanted EXCEPT !["managed"] = "absent", !["component"] = "absent"]}

\* What may be found on the server: only a consumer's identity is looked at.
Found == IF kind = "consumer" THEN {Missing, Wanted} \cup Drifted("fixed")
         ELSE Configs \cup {Missing}

Tables == [Part -> 0 .. 2]
Desired == [p \in Part |-> IF p \in Keep THEN 1 ELSE 0]
NoTable == [p \in Part |-> 0]

ParseMarker(l) == l.managed # "absent"
policyReconcilesMutable == policy \in {"safe-update", "force"}
policyRecreatesImmutable == policy = "force"

(***************************************************************************)
(* Building and comparing configurations.                                   *)
(***************************************************************************)
BuildMarker(l) == [l EXCEPT !.managed = "want", !.component = "want",
                            !.instance = "want"]

mergeMarkerMetadata(l) == BuildMarker(l)

\* An update refreshes the marker but keeps the component: it is immutable.
mergeUpdateKVMetadata(l) == [l EXCEPT !.managed = "want", !.instance = "want"]

newCreateKVAction == Wanted
buildPartitionSourceKVConfig == Wanted
buildStreamConfig == Wanted

wantedControlPlaneKV(l) ==
    mergeMarkerMetadata([l EXCEPT !.fixed = "want", !.settings = "want"])
wantedPartitionSourceKV(l) == [wantedControlPlaneKV(l) EXCEPT !.size = "want"]
wantedStreamConfig(l) == [wantedControlPlaneKV(l) EXCEPT !.size = "want"]

buildControlPlaneUpdateTarget(l) ==
    mergeUpdateKVMetadata([l EXCEPT !.settings = "want"])
buildPartitionSourceUpdateTarget(l) ==
    mergeUpdateKVMetadata([l EXCEPT !.settings = "want", !.size = "want"])
buildStreamUpdateTarget(l) ==
    mergeUpdateKVMetadata([l EXCEPT !.settings = "want", !.size = "want"])

\* Wrong variant: every bucket is rebuilt as a control-plane bucket.
ControlPlaneTargetOnly(l) == buildControlPlaneUpdateTarget(l)

buildUpdateKVTargetForBucket(l) ==
    CASE kind = "controlplane" -> buildControlPlaneUpdateTarget(l)
      [] kind = "partitionsource" -> buildPartitionSourceUpdateTarget(l)
      [] OTHER -> buildStreamUpdateTarget(l)

kvConfigsEqual(a, b) == \A f \in Fields \ {"kept"} : a[f] = b[f]
streamConfigsEqual(a, b) == \A f \in Fields \ {"kept"} : a[f] = b[f]
ConfigsEqual(a, b) ==
    IF kind = "stream" THEN streamConfigsEqual(a, b) ELSE kvConfigsEqual(a, b)

kvImmutableDriftPresent(l) == l.fixed # "want" \/ l.component # "want"
streamImmutableDriftPresent(l) == l.fixed # "want" \/ l.component # "want"
checkConsumerIdentityFields(l) == l.fixed # "want"

(***************************************************************************)
(* Planning.                                                                *)
(***************************************************************************)
Nothing == [do |-> "nothing", before |-> Missing, records |-> NoTable]
Do(a, l) == [Nothing EXCEPT !.do = a, !.before = l]

\* The "immutable" finding of a marked resource that is not as wanted.
classifyControlPlaneDrift(l) ==
    ParseMarker(l) /\ ~kvConfigsEqual(wantedControlPlaneKV(l), l)
                   /\ kvImmutableDriftPresent(l)
classifyPartitionSourceDrift(l) ==
    ParseMarker(l) /\ ~kvConfigsEqual(wantedPartitionSourceKV(l), l)
                   /\ kvImmutableDriftPresent(l)
classifyStreamDrift(l) ==
    ParseMarker(l) /\ ~streamConfigsEqual(wantedStreamConfig(l), l)
                   /\ streamImmutableDriftPresent(l)

PlanMarked(l, hasImmutable, target) ==
    CASE l = Missing -> IF policy = "adopt" THEN Nothing ELSE Do("create", l)
      [] l # Missing /\ hasImmutable /\ policyRecreatesImmutable /\ allow ->
           Do("recreate", l)
      [] OTHER ->
           IF policyReconcilesMutable /\ ParseMarker(l) /\ ~ConfigsEqual(l, target)
           THEN Do("update", l)
           ELSE IF policy = "adopt" /\ ~ParseMarker(l) THEN Do("stamp", l)
           ELSE Nothing

planControlPlane(l) ==
    PlanMarked(l, classifyControlPlaneDrift(l), buildControlPlaneUpdateTarget(l))
planPartitionSource(l) ==
    PlanMarked(l, classifyPartitionSourceDrift(l), buildPartitionSourceUpdateTarget(l))
planStreams(l) ==
    PlanMarked(l, classifyStreamDrift(l), buildStreamUpdateTarget(l))

\* A dynamic consumer has no marker: its name is derived from the config.
classifyConsumer(l) ==
    IF l = Missing THEN Do("create", l)
    ELSE IF checkConsumerIdentityFields(l) /\ policyRecreatesImmutable /\ allow
    THEN Do("recreate", l) ELSE Nothing
PlanConsumers(l) == classifyConsumer(l)

diffPartitions(t, d) == {p \in Part : t[p] # d[p]}
PlanPartitions(t) ==
    IF diffPartitions(t, Desired) = {} THEN Nothing
    ELSE [Do("write", Missing) EXCEPT !.records = t]

\* What planning the resource proposes.
Plan ==
    CASE kind = "controlplane" -> planControlPlane(live)
      [] kind = "partitionsource" -> planPartitionSource(live)
      [] kind = "stream" -> planStreams(live)
      [] kind = "consumer" -> PlanConsumers(live)
      [] OTHER -> PlanPartitions(table)

(***************************************************************************)
(* Ending a run: newReport, foldActionResult, appendSkipped.                *)
(***************************************************************************)
foldActionResult(r) ==
    /\ result' = r
    /\ phase' = "idle"
    /\ plan' = Nothing
    /\ snap' = Missing
    /\ seen' = 0

Goto(step) == phase' = step /\ UNCHANGED <<plan, result, snap, seen>>

\* ValidateLive cannot reach the server: the run ends before any change.
ValidateLive ==
    /\ kind \notin {"consumer", "table"}
    /\ phase = "idle" /\ runs < MaxRuns /\ mishaps < MaxMishaps
    /\ runs' = runs + 1 /\ mishaps' = mishaps + 1
    /\ foldActionResult("error")
    /\ UNCHANGED <<config, resource, changes, steady>>

\* A plan is made and its action, if it has one, is dispatched.
Begin ==
    /\ phase = "idle" /\ runs < MaxRuns
    /\ runs' = runs + 1
    /\ steady' = TRUE
    /\ plan' = Plan
    /\ phase' = IF Plan.do = "nothing" THEN "idle" ELSE Plan.do
    /\ result' = IF Plan.do = "nothing" THEN "done" ELSE "running"
    /\ UNCHANGED <<config, resource, snap, seen, changes, mishaps>>

\* partictl apply, partictl consumers apply, partictl partitions apply.
Apply == kind \notin {"consumer", "table"} /\ Begin
ApplyConsumers == kind = "consumer" /\ Begin
ApplyPartitions == kind = "table" /\ Begin

\* The context is cancelled, or a call fails, before the action changed
\* anything: a clean abort or an ordinary resource error.
Abort ==
    /\ phase \notin {"idle", "deleted", "verifydeleted"}
    /\ mishaps < MaxMishaps
    /\ mishaps' = mishaps + 1
    /\ steady' = FALSE
    /\ \E r \in {"aborted", "error"} : foldActionResult(r)
    /\ UNCHANGED <<config, resource, runs, changes>>

(***************************************************************************)
(* Create.                                                                  *)
(***************************************************************************)
NewConfig ==
    CASE kind = "controlplane" -> newCreateKVAction
      [] kind = "partitionsource" -> buildPartitionSourceKVConfig
      [] OTHER -> buildStreamConfig

\* A bucket that exists by now counts as a success and is not looked at.
applyCreateKVAction ==
    /\ phase = "create" /\ kind \in {"controlplane", "partitionsource"}
    /\ live' = IF live = Missing THEN NewConfig ELSE live
    /\ foldActionResult("done")
    /\ UNCHANGED <<config, table, rev, bounds, steady>>

applyCreateStreamAction ==
    /\ phase = "create" /\ kind = "stream"
    /\ live' = IF live = Missing THEN NewConfig ELSE live
    /\ foldActionResult("done")
    /\ UNCHANGED <<config, table, rev, bounds, steady>>

\* A consumer that exists by now is read back.
applyCreateConsumerAction ==
    /\ phase = "create" /\ kind = "consumer"
    /\ IF live = Missing
       THEN live' = Wanted /\ foldActionResult("done")
       ELSE Goto("verify") /\ UNCHANGED live
    /\ UNCHANGED <<config, table, rev, bounds, steady>>

\* "verifydeleted" is the same read made after this run deleted the consumer.
verifyRacedConsumer ==
    /\ phase \in {"verify", "verifydeleted"}
    /\ foldActionResult(
         IF live # Missing /\ ~checkConsumerIdentityFields(live) THEN "done"
         ELSE IF phase = "verify" THEN "error" ELSE "interrupted")
    /\ UNCHANGED <<config, resource, bounds, steady>>

(***************************************************************************)
(* Update and stamp.                                                        *)
(***************************************************************************)
UpdateReread ==
    /\ phase = "update"
    /\ CASE live = Missing -> foldActionResult("error")
         [] live # Missing /\ ConfigsEqual(live, buildUpdateKVTargetForBucket(live)) ->
              foldActionResult("done")
         [] OTHER ->
              IF ~ConfigsEqual(live, plan.before) THEN foldActionResult("error")
              ELSE /\ snap' = live /\ phase' = "updatewrite"
                   /\ UNCHANGED <<plan, result, seen>>
    /\ UNCHANGED <<config, resource, bounds, steady>>

\* The whole configuration is written.  The server refuses to change the
\* storage or the retention, but not a bucket's history.
UpdateKeyValue(target) ==
    \/ (live = Missing \/ live.fixed # target.fixed)
       /\ foldActionResult("error") /\ UNCHANGED live
    \/ live # Missing /\ (live.fixed = target.fixed \/ kind # "stream")
       /\ foldActionResult("done") /\ live' = target

UpdateWrite ==
    /\ phase = "updatewrite"
    /\ UpdateKeyValue(buildUpdateKVTargetForBucket(snap))
    /\ UNCHANGED <<config, table, rev, bounds, steady>>

applyUpdateKVAction == kind # "stream" /\ (UpdateReread \/ UpdateWrite)
applyUpdateStreamAction == kind = "stream" /\ (UpdateReread \/ UpdateWrite)

StampReread ==
    /\ phase = "stamp"
    /\ CASE live = Missing -> foldActionResult("error")
         [] live # Missing /\ ConfigsEqual(live, mergeMarkerMetadata(live)) ->
              foldActionResult("done")
         [] OTHER -> snap' = live /\ phase' = "stampwrite" /\ UNCHANGED <<plan, result, seen>>
    /\ UNCHANGED <<config, resource, bounds, steady>>

StampWrite ==
    /\ phase = "stampwrite"
    /\ UpdateKeyValue(mergeMarkerMetadata(snap))
    /\ UNCHANGED <<config, table, rev, bounds, steady>>

applyStampMarkerAction == kind # "stream" /\ (StampReread \/ StampWrite)
applyStampStreamMarkerAction == kind = "stream" /\ (StampReread \/ StampWrite)

(***************************************************************************)
(* Delete and create again.                                                 *)
(***************************************************************************)
ImmutableDriftPresent(l) ==
    CASE kind = "consumer" -> checkConsumerIdentityFields(l)
      [] kind = "stream" -> streamImmutableDriftPresent(l)
      [] OTHER -> kvImmutableDriftPresent(l)

\* Already gone: only the create is left.  No drift any more: raced, no delete.
reReadForRecreate ==
    /\ phase = "recreate"
    /\ CASE live = Missing -> Goto("createonly")
         [] live # Missing /\ ~ImmutableDriftPresent(live) -> foldActionResult("done")
         [] OTHER -> snap' = live /\ phase' = "delete" /\ UNCHANGED <<plan, result, seen>>
    /\ UNCHANGED <<config, resource, bounds, steady>>

RecreateDelete ==
    /\ phase = "delete"
    /\ IF live = Missing THEN foldActionResult("error") /\ UNCHANGED live
       ELSE Goto("deleted") /\ live' = Missing
    /\ UNCHANGED <<config, table, rev, bounds, steady>>

\* The delete took effect but its reply was lost with the context: the code
\* sees a cancellation and reports a clean abort.
RecreateDeleteLost ==
    /\ phase = "delete" /\ live # Missing
    /\ mishaps < MaxMishaps /\ mishaps' = mishaps + 1
    /\ live' = Missing
    /\ steady' = FALSE
    /\ foldActionResult("aborted")
    /\ UNCHANGED <<config, table, rev, runs, changes>>

RecreateCreate ==
    /\ phase \in {"deleted", "createonly"}
    /\ CASE live = Missing -> live' = Wanted /\ foldActionResult("done")
         [] live # Missing /\ kind # "consumer" ->
              foldActionResult("done") /\ UNCHANGED live
         [] OTHER ->
              /\ Goto(IF phase = "deleted" THEN "verifydeleted" ELSE "verify")
              /\ UNCHANGED live
    /\ UNCHANGED <<config, table, rev, bounds, steady>>

\* ErrRecreateInterrupted, whatever the cause.
recreateInterruptedAfterDelete ==
    /\ phase \in {"deleted", "verifydeleted"}
    /\ mishaps < MaxMishaps /\ mishaps' = mishaps + 1
    /\ steady' = FALSE
    /\ foldActionResult("interrupted")
    /\ UNCHANGED <<config, resource, runs, changes>>

RecreateStep == reReadForRecreate \/ RecreateDelete \/ RecreateDeleteLost
                \/ RecreateCreate \/ recreateInterruptedAfterDelete

applyRecreateKVAction == kind \in {"controlplane", "partitionsource"} /\ RecreateStep
applyRecreateStreamAction == kind = "stream" /\ RecreateStep
applyRecreateConsumerAction == kind = "consumer" /\ RecreateStep

(***************************************************************************)
(* The partition table.                                                     *)
(***************************************************************************)
partitionTablesEqual(a, b) == diffPartitions(a, b) = {}
countRemovals(t) == Cardinality({p \in Part : t[p] > 0 /\ Desired[p] = 0})

WritePartitionsReread ==
    /\ phase = "write"
    /\ CASE partitionTablesEqual(table, Desired) -> foldActionResult("done")
         [] ~partitionTablesEqual(table, Desired)
              /\ ~partitionTablesEqual(table, plan.records) -> foldActionResult("error")
         [] OTHER ->
              IF countRemovals(table) > 0 /\ ~allow THEN foldActionResult("error")
              ELSE /\ seen' = rev
                   /\ phase' = "cas" /\ UNCHANGED <<plan, result, snap>>
    /\ UNCHANGED <<config, resource, bounds, steady>>

\* Wrong variant: a plain Put.
PlainPut == TRUE

\* Update at the revision that was read, Create when there was no key.
CompareAndSwap == rev = seen

WritePartitionsWrite ==
    /\ phase = "cas"
    /\ IF CompareAndSwap
       THEN table' = Desired /\ rev' = rev + 1 /\ foldActionResult("done")
       ELSE foldActionResult("error") /\ UNCHANGED <<table, rev>>
    /\ UNCHANGED <<config, live, bounds, steady>>

applyWritePartitionsAction == WritePartitionsReread \/ WritePartitionsWrite

(***************************************************************************)
(* Everybody else, and the specification.                                   *)
(***************************************************************************)
\* Another operator, a worker's manager or the nats CLI changes the resource.
OtherOperator ==
    /\ changes < MaxChanges /\ changes' = changes + 1
    /\ steady' = FALSE
    /\ IF kind = "table"
       THEN table' \in Tables \ {table} /\ rev' = rev + 1 /\ UNCHANGED live
       ELSE live' \in Found \ {live} /\ UNCHANGED <<table, rev>>
    /\ UNCHANGED <<config, phase, plan, snap, seen, result, runs, mishaps>>

ProvisionInit ==
    /\ kind \in Kinds /\ policy \in Policies /\ allow \in BOOLEAN
    /\ IF kind = "table"
       THEN live = Missing /\ table \in Tables /\ rev \in IF table = NoTable THEN {0, 1} ELSE {1}
       ELSE live \in Found /\ table = NoTable /\ rev = 0
    /\ phase = "idle" /\ plan = Nothing /\ snap = Missing /\ seen = 0
    /\ result = "none" /\ steady = FALSE
    /\ runs = 0 /\ changes = 0 /\ mishaps = 0

ProvisionNext ==
    \/ ValidateLive \/ Apply \/ ApplyConsumers \/ ApplyPartitions \/ Abort \/ OtherOperator
    \/ applyCreateKVAction \/ applyCreateStreamAction
    \/ applyCreateConsumerAction \/ verifyRacedConsumer
    \/ applyUpdateKVAction \/ applyUpdateStreamAction
    \/ applyStampMarkerAction \/ applyStampStreamMarkerAction
    \/ applyRecreateKVAction \/ applyRecreateStreamAction
    \/ applyRecreateConsumerAction
    \/ applyWritePartitionsAction

ProvisionSpec == ProvisionInit /\ [][ProvisionNext]_provisionVars

(***************************************************************************)
(* Properties.                                                              *)
(***************************************************************************)
\* provision/doc.go calls Plan a deterministic drift report and Apply its
\* execution: a run that ends without an error, with nothing else changing the
\* resource and no call failing since its plan, leaves nothing to plan.  The
\* plan compares with one target, the action rebuilds another from its own
\* read, and a recreate builds a third; were they to disagree on a field, every
\* run would propose the same action again.
ApplyLeavesNothingToPlan ==
    phase = "idle" /\ result = "done" /\ steady => Plan.do = "nothing"

TableStep ==
    table' # table /\ changes' = changes =>
      /\ table = plan.records
      /\ ~allow => \A p \in Part : table[p] > 0 => table'[p] > 0

\* applyWritePartitionsAction: the table is written only over the table the
\* plan was made against, whatever was written between the plan, the second
\* read and the write; and without prune a write removes no partition.
TableWriteIsPlanned == [][TableStep]_provisionVars

=============================================================================
