------------------------------ MODULE Placement ------------------------------
(***************************************************************************)
(* The assignment strategies: strategy.RoundRobin, ConsistentHash and       *)
(* WeightedConsistentHash over internal/hash.Ring, as functions of the      *)
(* active workers and the partitions, called again each time a worker comes *)
(* or goes.                                                                 *)
(*                                                                          *)
(* Workers and partitions are numbers, so that their order is the order of  *)
(* their names; a hash is a place on a ring of Ring places.  Two virtual    *)
(* nodes never share a place (a 64-bit collision), a partition and a node   *)
(* may.  Thresholds are percentages, compared without dividing.             *)
(***************************************************************************)
EXTENDS Integers, FiniteSets, Sequences, SequencesExt

CONSTANTS Worker,         \* a set of numbers
          Partition,      \* a set of numbers
          Ring,           \* bound: places on the ring
          Weights,        \* weights a partition may carry, 0 = unset
          Overload,       \* overloadThreshold, in percent
          Extreme,        \* extremeThreshold, in percent
          MinCount        \* minPartitionCountFactor, in percent

VARIABLES strategy,   \* the strategy in use
          node,       \* place of each worker's virtual node
          place,      \* place of each partition
          weight,     \* weight of each partition
          order,      \* the order in which the source lists the partitions
          workers,    \* active workers
          held        \* the last assignment: worker -> sequence of partitions

vars == <<strategy, node, place, weight, order, workers, held>>

SortedWorkers(ws) == SetToSortSeq(ws, <)
WorkerIdx(w, ws) == CHOOSE i \in 1 .. Cardinality(ws) : SortedWorkers(ws)[i] = w
NoBuckets(ws) == [w \in ws |-> <<>>]

(***************************************************************************)
(* The ring: the first node at or after the partition, or the first of all. *)
(***************************************************************************)
\* Wrong variant: the worker is chosen by the hash modulo the number of workers.
HashModulo(p, ws) == SortedWorkers(ws)[(place[p] % Cardinality(ws)) + 1]

GetNodeIndexForPartition(p, ws) ==
    LET after == {w \in ws : node[w] >= place[p]}
        first(S) == CHOOSE w \in S : \A v \in S : node[w] <= node[v]
    IN  first(IF after = {} THEN ws ELSE after)

GetNodeForPartition(p, ws) == GetNodeIndexForPartition(p, ws)

Put(buckets, w, p) == [buckets EXCEPT ![w] = Append(@, p)]

(***************************************************************************)
(* The strategies.                                                          *)
(***************************************************************************)
RoundRobinAssign(ws) ==
    LET parts == SetToSortSeq(Partition, <)
    IN  [w \in ws |-> SelectSeq(parts,
            LAMBDA p : ((CHOOSE i \in DOMAIN parts : parts[i] = p) - 1)
                         % Cardinality(ws) = WorkerIdx(w, ws) - 1)]

ConsistentHashAssign(ws) ==
    FoldLeft(LAMBDA b, p : Put(b, GetNodeForPartition(p, ws), p),
             NoBuckets(ws), order)

effectiveWeight(p) == IF weight[p] > 0 THEN weight[p] ELSE 1
Load(b, w) == FoldLeft(LAMBDA n, p : n + effectiveWeight(p), 0, b[w])

totalWeight == FoldLeft(LAMBDA n, p : n + effectiveWeight(p), 0, order)
allEqual == \A p, q \in Partition : effectiveWeight(p) = effectiveWeight(q)

\* w * 100 * count > total * threshold is w > average * threshold.
IsExtreme(p) ==
    effectiveWeight(p) * 100 * Cardinality(Partition) > totalWeight * Extreme
OverCap(load, ws) == load * 100 * Cardinality(ws) > totalWeight * Overload
MinPartitionCount(ws) ==
    (Cardinality(Partition) * MinCount) \div (100 * Cardinality(ws))

\* Heaviest first, then by name.
splitPartitions ==
    SetToSortSeq({p \in Partition : IsExtreme(p)},
                 LAMBDA p, q : \/ effectiveWeight(p) > effectiveWeight(q)
                               \/ effectiveWeight(p) = effectiveWeight(q) /\ p < q)

assignExtremePartitionsIndexed(ws) ==
    FoldLeft(LAMBDA b, i : Put(b, SortedWorkers(ws)[((i - 1) % Cardinality(ws)) + 1],
                               splitPartitions[i]),
             NoBuckets(ws), [i \in DOMAIN splitPartitions |-> i])

\* Wrong variant: the last worker is taken for the lightest.
LastWorker(b, ws) == SortedWorkers(ws)[Cardinality(ws)]

findLightestWorkerIndexed(b, ws) ==
    CHOOSE w \in ws : \A v \in ws :
        Load(b, w) < Load(b, v) \/ (Load(b, w) = Load(b, v) /\ w <= v)

assignNormalPartition(b, p, ws) ==
    LET w == GetNodeIndexForPartition(p, ws)
        isOverloaded == OverCap(Load(b, w) + effectiveWeight(p), ws)
        hasMinCount == Len(b[w]) >= MinPartitionCount(ws)
    IN  Put(b, IF isOverloaded /\ hasMinCount
               THEN findLightestWorkerIndexed(b, ws) ELSE w, p)

\* Wrong variant: the extreme partitions are not left out of the second pass.
AllByRingIndex(b, ws) ==
    FoldLeft(LAMBDA c, p : assignNormalPartition(c, p, ws), b, order)

assignNormalPartitionsByRingIndex(b, ws) ==
    FoldLeft(LAMBDA c, p : assignNormalPartition(c, p, ws),
             b, SelectSeq(order, LAMBDA p : ~IsExtreme(p)))

WeightedAssign(ws) ==
    IF allEqual THEN ConsistentHashAssign(ws)
    ELSE assignNormalPartitionsByRingIndex(assignExtremePartitionsIndexed(ws), ws)

Assign(ws) ==
    CASE strategy = "roundrobin" -> RoundRobinAssign(ws)
      [] strategy = "consistent" -> ConsistentHashAssign(ws)
      [] strategy = "weighted"   -> WeightedAssign(ws)

(***************************************************************************)
(* Workers come and go, and each time the strategy is asked again.          *)
(***************************************************************************)
Rebalance(ws) ==
    /\ workers' = ws
    /\ held' = Assign(ws)
    /\ UNCHANGED <<strategy, node, place, weight, order>>

Join == \E w \in Worker \ workers : Rebalance(workers \cup {w})
Leave == \E w \in workers : workers # {w} /\ Rebalance(workers \ {w})

Init ==
    /\ strategy \in {"roundrobin", "consistent", "weighted"}
    /\ node \in {f \in [Worker -> 1 .. Ring] : IsInjective(f)}
    /\ node[CHOOSE w \in Worker : \A v \in Worker : w <= v] = 1
    /\ place \in [Partition -> 1 .. Ring]
    /\ weight \in [Partition -> Weights]
    /\ order \in {SetToSortSeq(Partition, <), SetToSortSeq(Partition, >)}
    /\ workers = {CHOOSE w \in Worker : \A v \in Worker : w <= v}
    /\ held = Assign(workers)

Next == Join \/ Leave
Spec == Init /\ [][Next]_vars

(***************************************************************************)
(* Properties.                                                              *)
(***************************************************************************)
Owner(h, p) == {w \in DOMAIN h : p \in ToSet(h[w])}

EachPartitionOnce ==
    \A p \in Partition :
        /\ Cardinality(Owner(held, p)) = 1 /\ Owner(held, p) \subseteq workers
        /\ \A w \in workers : Cardinality({i \in DOMAIN held[w] : held[w][i] = p}) <= 1

MoveStep ==
    strategy = "consistent" \/ (strategy = "weighted" /\ allEqual) =>
      \A p \in Partition :
         \/ Owner(held', p) = Owner(held, p)
         \/ Owner(held', p) \subseteq workers' \ workers
         \/ Owner(held, p) \subseteq workers \ workers'

BeyondCapWasLightest ==
    strategy = "weighted" /\ ~allEqual =>
      \A w \in workers :
         (/\ OverCap(Load(held, w), workers)
          /\ Len(held[w]) > MinPartitionCount(workers)
          /\ ~IsExtreme(Last(held[w])))
         => \A v \in workers :
               Load(held, w) - effectiveWeight(Last(held[w])) <= Load(held, v)

\* What Assign is for.  Every strategy puts each partition into one bucket, once,
\* and the bucket is an active worker's, whichever way the weights split the
\* partitions between the extreme pass, the ring and the lightest worker.
\* Goal 1 of weighted_consistent_hash.go, cache affinity: with consistent
\* hashing, and with the weighted strategy's equal-weight path, a worker that
\* comes only takes partitions over, and one that goes only gives its own away.
\* Goal 2, load balance: a worker beyond the soft cap that has its minimum count
\* was the lightest when it took its last partition, so without it no other
\* worker is lighter.
AssignMeetsGoals == [](EachPartitionOnce /\ BeyondCapWasLightest) /\ [][MoveStep]_vars
=============================================================================
