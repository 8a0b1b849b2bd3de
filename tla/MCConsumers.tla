---------------------------- MODULE MCConsumers -----------------------------
(***************************************************************************)
(* The consumers, side by side in one run: a behaviour is one of Start and *)
(* Stop of a consumer with one loop (Lifecycle), of the per-subject loops  *)
(* of a dynamic consumer (WorkerConsumer), or of the per-key dispatcher    *)
(* (KeyDispatcher).  The other parts rest in an initial state, in which    *)
(* their properties hold.                                                  *)
(***************************************************************************)
EXTENDS WorkerConsumer, KeyDispatcher

CONSTANTS Callers, MaxStarts, MaxUses

VARIABLES part, kind, loopStarted, stopped, current, runs, use, updateMu, uses

L == INSTANCE Lifecycle WITH loop <- runs, call <- use, calls <- uses, MaxLoops <- MaxStarts, MaxCalls <- MaxUses

lifecycleVars == <<kind, loopStarted, stopped, current, runs, use, updateMu, uses>>
vars == <<part, lifecycleVars, workerVars, keysVars>>

InLifecycle == part = "lifecycle"
InWorker == part = "worker"
InKeys == part = "keys"

Init ==
    /\ part \in {"lifecycle", "worker", "keys"}
    /\ L!Init /\ WorkerInit /\ KeysInit
    /\ InLifecycle \/ kind = "queue"
    /\ InKeys \/ key = [m \in Msg |-> CHOOSE k \in Key : TRUE]

Next ==
    \/ InLifecycle /\ L!Next /\ UNCHANGED <<part, workerVars, keysVars>>
    \/ InWorker /\ WorkerNext /\ UNCHANGED <<part, lifecycleVars, keysVars>>
    \/ InKeys /\ KeysNext /\ UNCHANGED <<part, lifecycleVars, workerVars>>

\* The fairness of the modules, each for its own part.
Fairness ==
    /\ WF_lifecycleVars(InLifecycle /\ \E i \in 1 .. MaxStarts : L!LoopExits(i))
    /\ WF_lifecycleVars(InLifecycle /\ \E c \in Callers : L!Returns(c))
    /\ WF_workerVars(InWorker /\ Proceeds) /\ WF_workerVars(InWorker /\ LoopProceeds)
    /\ \A w \in Worker : WF_keysVars(InKeys /\ Runs(w))

Spec == Init /\ [][Next]_vars /\ Fairness

-----------------------------------------------------------------------------
\* Once Stop or Close was called, every loop ends and none is launched.
StopIsTerminal == <>[](L!Quiet /\ Quiet)

=============================================================================
