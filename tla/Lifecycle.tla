----------------------------- MODULE Lifecycle -----------------------------
(***************************************************************************)
(* Start and Stop of the three consumers that own one pull loop: Queue     *)
(* (consumer), BroadcastConsumer (internal/durable) and JSConsumer         *)
(* (internal/ipartition, behind Static).  Callers run concurrently; a call *)
(* takes a lock, releases it to wait for the loop, and takes it again.     *)
(* The loop itself is that of module Recovery; here it runs until it is    *)
(* cancelled.                                                              *)
(***************************************************************************)
EXTENDS Naturals, FiniteSets

CONSTANTS
    Callers,
    MaxLoops,       \* loops started
    MaxCalls        \* calls made

VARIABLES
    kind,           \* "queue", "broadcast" or "static"
    loopStarted,    \* Queue, BroadcastConsumer: loopStarted; JSConsumer: cancel # nil
    stopped,        \* BroadcastConsumer.closed, JSConsumer.stopped
    current,        \* the loop that loopCancel and loopDone belong to; 0: none
    loop,           \* loop[i]: "none", "running", "cancelled" or "exited"
    call,           \* call[c]: what caller c waits for
    updateMu,       \* BroadcastConsumer: the caller that holds it, or 0
    calls

vars == <<kind, loopStarted, stopped, current, loop, call, updateMu, calls>>

Loops == 1 .. MaxLoops
Idle == [step |-> "idle", loop |-> 0]
Free == 0

Init ==
    /\ kind \in {"queue", "broadcast", "static"}
    /\ loopStarted = FALSE /\ stopped = FALSE /\ current = 0
    /\ loop = [i \in Loops |-> "none"]
    /\ call = [c \in Callers |-> Idle]
    /\ updateMu = Free /\ calls = 0

Calling(c) == call[c] = Idle /\ calls < MaxCalls /\ calls' = calls + 1

\* Whether a Start goes on to launch a loop.
MayStartAgain == ~loopStarted /\ (kind = "broadcast" => ~stopped)
MayStart ==
    /\ ~loopStarted
    /\ kind # "queue" => ~stopped

\* Queue.Start and JSConsumer.Start hold the lock throughout;
\* BroadcastConsumer's first Update holds updateMu.  The durable is ensured,
\* which may fail; then the loop's goroutine is launched.
Launch ==
    \E i \in Loops :
        /\ loop[i] = "none" /\ \A j \in 1 .. i - 1 : loop[j] # "none"
        /\ loop' = [loop EXCEPT ![i] = "running"]
        /\ current' = i
        /\ loopStarted' = TRUE

QueueStart(c) ==
    /\ kind = "queue" /\ Calling(c) /\ MayStart /\ Launch
    /\ UNCHANGED <<kind, stopped, call, updateMu>>

BroadcastUpdate(c) ==
    /\ kind = "broadcast" /\ Calling(c) /\ updateMu = Free /\ MayStart /\ Launch
    /\ UNCHANGED <<kind, stopped, call, updateMu>>

StaticStart(c) ==
    /\ kind = "static" /\ Calling(c) /\ MayStart /\ Launch
    /\ UNCHANGED <<kind, stopped, call, updateMu>>

\* A Start that is refused, or whose durable cannot be ensured.
StartRefused(c) ==
    /\ Calling(c) /\ updateMu = Free
    /\ UNCHANGED <<kind, loopStarted, stopped, current, loop, call, updateMu>>

Cancelled(i) == IF i # 0 /\ loop[i] = "running" THEN [loop EXCEPT ![i] = "cancelled"] ELSE loop

\* Queue.Stop reads the loop under the lock, releases it and cancels.
QueueStop(c) ==
    /\ kind = "queue" /\ Calling(c) /\ loopStarted
    /\ loop' = Cancelled(current)
    /\ call' = [call EXCEPT ![c] = [step |-> "wait", loop |-> current]]
    /\ UNCHANGED <<kind, loopStarted, stopped, current, updateMu>>

\* The loop has exited; the lock is taken again to clear loopStarted.
QueueStopped(c) ==
    /\ kind = "queue" /\ call[c].step = "wait" /\ loop[call[c].loop] = "exited"
    /\ loopStarted' = FALSE
    /\ call' = [call EXCEPT ![c] = Idle]
    /\ UNCHANGED <<kind, stopped, current, loop, updateMu, calls>>

\* BroadcastConsumer.Close keeps updateMu while it waits.
BroadcastClose(c) ==
    /\ kind = "broadcast" /\ Calling(c) /\ updateMu = Free
    /\ stopped' = TRUE
    /\ loop' = Cancelled(current)
    /\ IF loopStarted
       THEN updateMu' = c /\ call' = [call EXCEPT ![c] = [step |-> "wait", loop |-> current]]
       ELSE UNCHANGED <<updateMu, call>>
    /\ UNCHANGED <<kind, loopStarted, current>>

BroadcastClosed(c) ==
    /\ kind = "broadcast" /\ call[c].step = "wait" /\ loop[call[c].loop] = "exited"
    /\ call' = [call EXCEPT ![c] = Idle] /\ updateMu' = Free
    /\ UNCHANGED <<kind, loopStarted, stopped, current, loop, calls>>

\* JSConsumer.Stop takes the cancel function: a second Stop finds none and
\* returns at once.
StaticStop(c) ==
    /\ kind = "static" /\ Calling(c)
    /\ stopped' = TRUE /\ loopStarted' = FALSE
    /\ loop' = IF loopStarted THEN Cancelled(current) ELSE loop
    /\ call' = IF loopStarted THEN [call EXCEPT ![c] = [step |-> "wait", loop |-> current]] ELSE call
    /\ UNCHANGED <<kind, current, updateMu>>

StaticStopped(c) ==
    /\ kind = "static" /\ call[c].step = "wait" /\ loop[call[c].loop] = "exited"
    /\ call' = [call EXCEPT ![c] = Idle]
    /\ UNCHANGED <<kind, loopStarted, stopped, current, loop, updateMu, calls>>

\* The caller's context ends before the loop does.
StopTimesOut(c) ==
    /\ call[c].step = "wait" /\ loop[call[c].loop] # "exited"
    /\ call' = [call EXCEPT ![c] = Idle]
    /\ updateMu' = IF updateMu = c THEN Free ELSE updateMu
    /\ UNCHANGED <<kind, loopStarted, stopped, current, loop, calls>>

\* A cancelled loop finishes its handler and exits.
LoopExits(i) ==
    /\ loop[i] = "cancelled"
    /\ loop' = [loop EXCEPT ![i] = "exited"]
    /\ UNCHANGED <<kind, loopStarted, stopped, current, call, updateMu, calls>>

Returns(c) == QueueStopped(c) \/ BroadcastClosed(c) \/ StaticStopped(c)

Done == calls = MaxCalls /\ UNCHANGED vars

Next ==
    \/ \E c \in Callers :
         \/ QueueStart(c) \/ BroadcastUpdate(c) \/ StaticStart(c) \/ StartRefused(c)
         \/ QueueStop(c) \/ BroadcastClose(c) \/ StaticStop(c)
         \/ Returns(c) \/ StopTimesOut(c)
    \/ \E i \in Loops : LoopExits(i)
    \/ Done

\* A handler returns some time after its context was cancelled.
Fairness == WF_vars(\E i \in Loops : LoopExits(i)) /\ WF_vars(\E c \in Callers : Returns(c))
Spec == Init /\ [][Next]_vars /\ Fairness

Quiet == kind # "queue" /\ stopped => \A i \in Loops : loop[i] \in {"none", "exited"}

\* Stop is terminal for Static and Broadcast: once a Stop or Close was called,
\* the loop ends and none is ever launched, whatever Starts are under way.
StopIsTerminal == <>[]Quiet
=============================================================================
