--------------------------- MODULE WorkerConsumer ---------------------------
(***************************************************************************)
(* The per-subject loops of one dynamic consumer (internal/durable's       *)
(* WorkerConsumer behind consumer.Dynamic).  UpdateWorkerConsumer and      *)
(* Close are serialised by updateMu, but they wait for loops that run on   *)
(* their own and may not stop in time.  The pull loop itself is that of    *)
(* module Recovery; here it runs, handles a message, or gives up.          *)
(***************************************************************************)
EXTENDS Naturals, FiniteSets

CONSTANTS
    Subject,                \* subjects that partitions map to
    MaxConcurrentSubjects,  \* the cap, 0 for none
    MaxLoops,               \* loops started
    MaxCalls                \* calls of Update and Close

ASSUME MaxLoopsAssumption == MaxLoops \in Nat

VARIABLES
    subjects,   \* subjects[s]: the loop in the map, 0 for no entry
    loop,       \* loop[i]: subject, state of its goroutine, stopped
    closed,
    compatCheck,\* the cached verdict of the work-queue preflight
    call,       \* the call that holds updateMu
    timedOut,   \* history: a removal stopped waiting for its loops
    calls

workerVars == <<subjects, loop, closed, compatCheck, call, timedOut, calls>>

Loops == 1 .. MaxLoops
None == 0
NoLoop == [subject |-> None, state |-> "none", stopped |-> FALSE]
NoCall == [step |-> "idle", want |-> {}, remove |-> {}, add |-> {}, ok |-> FALSE]

WorkerInit ==
    /\ subjects = [s \in Subject |-> None]
    /\ loop = [i \in Loops |-> NoLoop]
    /\ closed = FALSE /\ compatCheck = "none"
    /\ call = NoCall /\ timedOut = FALSE /\ calls = 0

Existing == {s \in Subject : subjects[s] # None}
Live(i) == loop[i].state \in {"launched", "pulling", "handling"}
Returns(ok) == call' = [NoCall EXCEPT !.ok = ok]
Calling == call.step = "idle" /\ calls < MaxCalls /\ calls' = calls + 1

-----------------------------------------------------------------------------
(* UpdateWorkerConsumer.                                                   *)

Open == ~closed
WithinCap(want) == MaxConcurrentSubjects > 0 => Cardinality(want) <= MaxConcurrentSubjects

\* computeSubjectDiff
toAdd(want) == want \ Existing
toRemove(want) == Existing \ want

\* Dynamic.Update: ErrConsumerStopped goes first, then the preflight, whose
\* verdict is kept; an incompatible stream refuses every update.
ensureCompatChecked(verdict) ==
    /\ compatCheck \in {"none", verdict}
    /\ compatCheck' = verdict

UpdateRefused ==
    /\ Calling /\ Returns(FALSE)
    /\ \/ closed /\ UNCHANGED compatCheck
       \/ Open /\ ensureCompatChecked("incompatible")
    /\ UNCHANGED <<subjects, loop, closed, timedOut>>

\* The cap is enforced before anything changes.
UpdateOverCap ==
    /\ Calling /\ Open /\ ensureCompatChecked("compatible")
    /\ \E want \in SUBSET Subject : ~WithinCap(want)
    /\ Returns(FALSE)
    /\ UNCHANGED <<subjects, loop, closed, timedOut>>

\* validateUpdateParams: no handler, no worker ID, or another worker ID than
\* the first one; buildSubjects: a subject that cannot be built.
validateUpdateParams ==
    /\ Calling /\ Open /\ ensureCompatChecked("compatible")
    /\ Returns(FALSE)
    /\ UNCHANGED <<subjects, loop, closed, timedOut>>

StopAll(entries) ==
    [i \in Loops |-> IF \E s \in entries : subjects[s] = i THEN [loop[i] EXCEPT !.stopped = TRUE] ELSE loop[i]]

\* The diff is taken and removeSubjectLoops stops the loops to remove, after
\* an optional drain that waits for their acknowledgements.
UpdateWorkerConsumer ==
    /\ Calling /\ Open /\ ensureCompatChecked("compatible")
    /\ \E want \in SUBSET Subject :
         /\ WithinCap(want)
         /\ call' = [step |-> "remove", want |-> want, remove |-> toRemove(want), add |-> toAdd(want), ok |-> FALSE]
         /\ loop' = StopAll(toRemove(want))
    /\ UNCHANGED <<subjects, closed, timedOut>>

NotAwaited(entries) == TRUE
Stopped(entries) == \A s \in entries : ~Live(subjects[s])
KeepEntries(entries) == UNCHANGED subjects
DeleteEntries(entries) == subjects' = [s \in Subject |-> IF s \in entries THEN None ELSE subjects[s]]

\* All removed loops exited: their entries go and the additions begin.
LoopsRemoved ==
    /\ call.step = "remove" /\ Stopped(call.remove)
    /\ DeleteEntries(call.remove)
    /\ call' = [call EXCEPT !.step = "add"]
    /\ UNCHANGED <<loop, closed, compatCheck, timedOut, calls>>

\* Or the wait ended first: the entries go all the same, the update fails and
\* adds nothing.
RemovalTimesOut ==
    /\ call.step = "remove" /\ ~Stopped(call.remove)
    /\ DeleteEntries(call.remove)
    /\ timedOut' = TRUE
    /\ Returns(FALSE)
    /\ UNCHANGED <<loop, closed, compatCheck, calls>>

\* addSubjectLoop: the durable is there, the loop is stored and launched.
addSubjectLoop(s) ==
    \E i \in Loops :
        /\ loop[i] = NoLoop /\ \A j \in 1 .. i - 1 : loop[j] # NoLoop
        /\ loop' = [loop EXCEPT ![i] = [subject |-> s, state |-> "launched", stopped |-> FALSE]]
        /\ subjects' = [subjects EXCEPT ![s] = i]

SubjectAdded ==
    /\ call.step = "add"
    /\ \E s \in call.add :
         /\ addSubjectLoop(s)
         /\ call' = [call EXCEPT !.add = @ \ {s}]
    /\ UNCHANGED <<closed, compatCheck, timedOut, calls>>

\* A durable cannot be created, or its gate: what was added before stays.
AddFails ==
    /\ call.step = "add" /\ call.add # {}
    /\ Returns(FALSE)
    /\ UNCHANGED <<subjects, loop, closed, compatCheck, timedOut, calls>>

UpdateReturns ==
    /\ call.step = "add" /\ call.add = {}
    /\ Returns(TRUE)
    /\ UNCHANGED <<subjects, loop, closed, compatCheck, timedOut, calls>>

-----------------------------------------------------------------------------
(* Close, the loops, and the stream's recreation.                          *)

Close ==
    /\ Calling
    /\ closed' = TRUE
    /\ loop' = StopAll(Existing)
    /\ call' = [NoCall EXCEPT !.step = "close", !.remove = Existing]
    /\ UNCHANGED <<subjects, compatCheck, timedOut>>

\* Every loop exited, or the caller's context ended: the entries go.
CloseReturns ==
    /\ call.step = "close"
    /\ DeleteEntries(call.remove)
    /\ timedOut' = (timedOut \/ ~Stopped(call.remove))
    /\ Returns(Stopped(call.remove))
    /\ UNCHANGED <<loop, closed, compatCheck, calls>>

Moves(i, from, to) ==
    /\ loop[i].state = from
    /\ loop' = [loop EXCEPT ![i].state = to]
    /\ UNCHANGED <<subjects, closed, compatCheck, call, timedOut, calls>>

\* Run, on a goroutine of its own, looks at stopped before it begins.
LoopBegins(i) == Moves(i, "launched", IF loop[i].stopped THEN "exited" ELSE "pulling")
LoopHandles(i) == ~loop[i].stopped /\ Moves(i, "pulling", "handling")
LoopHandled(i) == Moves(i, "handling", "pulling")
LoopExits(i) == loop[i].stopped /\ Moves(i, "pulling", "exited")
\* The loop gives up on its own: OnPermanentFailure.
LoopFails(i) == ~loop[i].stopped /\ Moves(i, "pulling", "failed")

\* resetCompatCheck after the stream was recreated; the recreated one may be
\* of the other kind.
StreamRecreated ==
    /\ compatCheck # "none" /\ compatCheck' = "none"
    /\ UNCHANGED <<subjects, loop, closed, call, timedOut, calls>>

Proceeds == LoopsRemoved \/ SubjectAdded \/ UpdateReturns \/ CloseReturns
LoopProceeds == \E i \in Loops : LoopBegins(i) \/ LoopHandled(i) \/ LoopExits(i)

Done == calls = MaxCalls /\ UNCHANGED workerVars

WorkerNext ==
    \/ UpdateRefused \/ validateUpdateParams \/ UpdateOverCap \/ UpdateWorkerConsumer \/ Close \/ StreamRecreated
    \/ Proceeds \/ RemovalTimesOut \/ AddFails
    \/ LoopProceeds \/ \E i \in Loops : LoopHandles(i) \/ LoopFails(i)
    \/ Done

\* Goroutines run and handlers return.
WorkerFairness == WF_workerVars(Proceeds) /\ WF_workerVars(LoopProceeds)
WorkerSpec == WorkerInit /\ [][WorkerNext]_workerVars /\ WorkerFairness

-----------------------------------------------------------------------------
\* The map and the goroutines agree, after failed, timed-out and repeated
\* updates alike: a loop that was not told to stop is in the map, so that
\* Close and the next update reach it and no subject is pulled twice; and
\* between calls an entry is never a stopped loop, which would turn a later
\* addition of its subject into a silent no-op.  When an update or a Close
\* reports success, no handler runs for a subject that was removed, unless some
\* earlier removal gave up waiting: the success is what lets the claim be
\* committed to the next owner.
MapMatchesLoops ==
    /\ \A i \in Loops : Live(i) /\ ~loop[i].stopped => subjects[loop[i].subject] = i
    /\ call.step = "idle" => \A s \in Existing : ~loop[subjects[s]].stopped
    /\ call.step = "idle" /\ call.ok /\ ~timedOut =>
         \A i \in Loops : loop[i].state = "handling" => subjects[loop[i].subject] = i

\* Close has returned and every loop has ended.
Quiet == closed /\ call.step = "idle" => \A i \in Loops : ~Live(i)
=============================================================================
