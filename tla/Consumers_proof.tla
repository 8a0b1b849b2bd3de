-------------------------- MODULE Consumers_proof ---------------------------
(***************************************************************************)
(* The safety of the dynamic consumer's subject loops (WorkerConsumer), of *)
(* the per-key dispatcher (KeyDispatcher) and of the recovery of a pull    *)
(* loop's durable consumer (Recovery), for any number of subjects, keys,   *)
(* messages, loops, workers, calls, losses and configured attempts.        *)
(***************************************************************************)
EXTENDS WorkerConsumer, KeyDispatcher, Recovery, TLAPS

-----------------------------------------------------------------------------
(* The dispatcher: what its map, its workers and its channels have in      *)
(* common.                                                                 *)

WorkerState == {"none", "run", "handling", "drain", "draining", "leaving"}

KeysTypeOK ==
    /\ key \in [Msg -> Key]
    /\ pull \in [at : {"send", "wait", "create", "stopped"}, msg : 0 .. MaxMsg, worker : 0 .. MaxWorkers]
    /\ pull.at # "stopped" => pull.msg \in Msg
    /\ workers \in [Key -> 0 .. MaxWorkers]
    /\ worker \in [Worker -> [key : Key \cup {0}, msgCh : Seq(Msg), hand : 0 .. MaxMsg, state : WorkerState]]
    /\ closing \in BOOLEAN /\ handled \in Seq(Msg)

\* The message that is dispatched next; all before it are in a channel, handled
\* or were never accepted.
Position == IF pull.at = "stopped" THEN MaxMsg + 1 ELSE pull.msg

Works(w) == worker[w].state \in {"run", "handling", "drain", "draining"}

\* A worker that takes messages is the one in the map, and one that leaves has
\* nothing left.
Registered(w) ==
    /\ Works(w) => worker[w].key \in Key /\ workers[worker[w].key] = w
    /\ worker[w].hand # 0 => worker[w].state \in {"handling", "draining"} /\ \E h \in DOMAIN handled : handled[h] = worker[w].hand
    /\ worker[w].state \in {"none", "leaving"} => worker[w].msgCh = <<>>
    /\ worker[w].state \in {"drain", "draining"} => closing

\* The entry of a key is a worker of that key, which leaves only when the
\* dispatcher closes.
EntryOwned(k) ==
    workers[k] # 0 =>
        /\ worker[workers[k]].key = k /\ worker[workers[k]].state # "none"
        /\ worker[workers[k]].state = "leaving" => closing

\* A channel holds messages of its key in order, none of them handled out of
\* turn.
Ordered(w) ==
    /\ \A i \in DOMAIN worker[w].msgCh : key[worker[w].msgCh[i]] = worker[w].key /\ worker[w].msgCh[i] < Position
    /\ \A i, j \in DOMAIN worker[w].msgCh : i < j => worker[w].msgCh[i] < worker[w].msgCh[j]
    /\ \A i \in DOMAIN worker[w].msgCh, h \in DOMAIN handled :
         key[handled[h]] = worker[w].key => handled[h] < worker[w].msgCh[i]

HandledInOrder ==
    /\ \A h \in DOMAIN handled : handled[h] < Position
    /\ \A i, j \in DOMAIN handled : i < j /\ key[handled[i]] = key[handled[j]] => handled[i] < handled[j]

KeysInv ==
    /\ KeysTypeOK
    /\ closing => pull.at = "stopped"
    /\ \A w \in Worker : Registered(w) /\ Ordered(w)
    /\ \A k \in Key : EntryOwned(k)
    /\ HandledInOrder


-----------------------------------------------------------------------------
(* The subject loops: what the map, the goroutines and the call that holds *)
(* updateMu have in common.                                                *)

LoopState == {"none", "launched", "pulling", "handling", "exited", "failed"}
CallType ==
    [step : {"idle", "remove", "add", "close"}, want : SUBSET Subject, remove : SUBSET Subject, add : SUBSET Subject,
     ok : BOOLEAN]

LoopsTypeOK ==
    /\ subjects \in [Subject -> 0 .. MaxLoops]
    /\ loop \in [Loops -> [subject : Subject \cup {0}, state : LoopState, stopped : BOOLEAN]]
    /\ call \in CallType
    /\ timedOut \in BOOLEAN

\* The entry of a subject is a loop of that subject, and it was told to stop
\* exactly if the call under way removes it.
EntryLoop(s) ==
    subjects[s] # 0 =>
        /\ loop[subjects[s]].subject = s /\ loop[subjects[s]].state # "none"
        /\ loop[subjects[s]].stopped <=> (call.step \in {"remove", "close"} /\ s \in call.remove)

\* A loop that runs is in the map, unless it was told to stop and the call that
\* did so gave up waiting.
LoopMapped(i) ==
    Live(i) => /\ loop[i].subject \in Subject
               /\ (loop[i].stopped /\ timedOut) \/ subjects[loop[i].subject] = i

LoopsInv ==
    /\ LoopsTypeOK
    /\ \A s \in Subject : EntryLoop(s)
    /\ \A i \in Loops : LoopMapped(i)
    /\ call.step \in {"remove", "add"} => \A s \in call.add : subjects[s] = 0

-----------------------------------------------------------------------------
(* The subject loops, step by step.                                        *)

\* A consumer starts with an empty map and no loops.
LEMMA LoopsStart == WorkerInit => LoopsInv
<1>1. SUFFICES ASSUME WorkerInit PROVE LoopsInv
  OBVIOUS
<1>2. /\ \A s \in Subject : subjects[s] = 0
      /\ \A i \in Loops : ~Live(i)
      /\ call.step = "idle"
  BY Zenon, <1>1 DEF WorkerInit, None, NoLoop, NoCall, Live
<1>3. LoopsTypeOK
  <2>1. NoLoop \in [subject : Subject \cup {0}, state : LoopState, stopped : BOOLEAN]
    BY Zenon DEF NoLoop, None, LoopState
  <2>2. NoCall \in CallType
    BY Zenon DEF NoCall, CallType
  <2>3. 0 \in 0 .. MaxLoops
    BY MaxLoopsAssumption
  <2> QED BY Zenon, <1>1, <2>1, <2>2, <2>3 DEF WorkerInit, LoopsTypeOK, None
<1> QED BY Zenon, <1>2, <1>3 DEF LoopsInv, EntryLoop, LoopMapped

\* What a call that neither adds nor removes leaves behind: an idle or a new
\* call that removes nothing of the map.
LEMMA CallEnds ==
    ASSUME LoopsInv, UNCHANGED <<subjects, loop, timedOut>>, call' \in CallType, call'.step = "idle",
           call.step \in {"idle", "add"}
    PROVE  LoopsInv'
<1>1. LoopsTypeOK'
  BY Zenon DEF LoopsInv, LoopsTypeOK
<1>2. \A s \in Subject : EntryLoop(s)'
  BY Zenon DEF LoopsInv, EntryLoop
<1>3. \A i \in Loops : LoopMapped(i)'
  BY Zenon DEF LoopsInv, LoopMapped, Live
<1> QED BY Zenon, <1>1, <1>2, <1>3 DEF LoopsInv

\* StopAll tells exactly the loops of the entries to stop.
LEMMA StopAllStops ==
    ASSUME LoopsInv, NEW entries \in SUBSET Existing, loop' = StopAll(entries)
    PROVE  /\ loop' \in [Loops -> [subject : Subject \cup {0}, state : LoopState, stopped : BOOLEAN]]
           /\ \A i \in Loops : loop'[i].subject = loop[i].subject /\ loop'[i].state = loop[i].state
           /\ \A i \in Loops : loop[i].stopped => loop'[i].stopped
           /\ \A s \in Subject : subjects[s] # 0 =>
                (loop'[subjects[s]].stopped <=> loop[subjects[s]].stopped \/ s \in entries)
<1>1. loop \in [Loops -> [subject : Subject \cup {0}, state : LoopState, stopped : BOOLEAN]]
  BY Zenon DEF LoopsInv, LoopsTypeOK
<1>2. \A i \in Loops :
        loop'[i] = IF \E s \in entries : subjects[s] = i THEN [loop[i] EXCEPT !.stopped = TRUE] ELSE loop[i]
  BY Zenon DEF StopAll
<1>3. \A s, t \in Subject : subjects[s] # 0 /\ subjects[s] = subjects[t] => s = t
  BY DEF LoopsInv, EntryLoop
<1>4. \A s \in Subject : subjects[s] # 0 => subjects[s] \in Loops
  BY MaxLoopsAssumption DEF LoopsInv, LoopsTypeOK, Loops
<1>5. loop' \in [Loops -> [subject : Subject \cup {0}, state : LoopState, stopped : BOOLEAN]]
  BY Zenon, <1>1 DEF StopAll
<1>6. ASSUME NEW i \in Loops
      PROVE  /\ loop'[i].subject = loop[i].subject /\ loop'[i].state = loop[i].state
             /\ (\E s \in entries : subjects[s] = i) => loop'[i].stopped
             /\ ~(\E s \in entries : subjects[s] = i) => loop'[i] = loop[i]
  <2>1. loop[i] \in [subject : Subject \cup {0}, state : LoopState, stopped : BOOLEAN]
    BY Zenon, <1>1
  <2>2. CASE \E s \in entries : subjects[s] = i
    <3>1. loop'[i] = [loop[i] EXCEPT !.stopped = TRUE]
      BY Zenon, <1>2, <2>2
    <3> QED BY Zenon, <2>1, <2>2, <3>1
  <2>3. CASE ~\E s \in entries : subjects[s] = i
    BY Zenon, <1>2, <2>3
  <2> QED BY Zenon, <2>2, <2>3
<1>7. \A i \in Loops : loop[i].stopped => loop'[i].stopped
  BY Zenon, <1>6
<1>8. ASSUME NEW s \in Subject, subjects[s] # 0
      PROVE  loop'[subjects[s]].stopped <=> loop[subjects[s]].stopped \/ s \in entries
  <2>1. (\E t \in entries : subjects[t] = subjects[s]) <=> s \in entries
    BY Zenon, <1>3, <1>8 DEF Existing
  <2> QED BY Zenon, <1>4, <1>6, <1>8, <2>1
<1> QED BY Zenon, <1>5, <1>6, <1>7, <1>8

\* An update or a Close begins: the loops of the entries it removes are told to
\* stop, and nothing in the map is to be added.
LEMMA CallBegins ==
    ASSUME LoopsInv, NEW entries \in SUBSET Existing, loop' = StopAll(entries), UNCHANGED <<subjects, timedOut>>,
           call.step = "idle", call' \in CallType, call'.step \in {"remove", "close"}, call'.remove = entries,
           \A s \in call'.add : subjects[s] = 0
    PROVE  LoopsInv'
<1>1. LoopsTypeOK'
  BY Zenon, StopAllStops DEF LoopsInv, LoopsTypeOK
<1>2. \A s \in Subject : EntryLoop(s)'
  <2>1. \A s \in Subject : subjects[s] # 0 => subjects[s] \in Loops
    BY MaxLoopsAssumption DEF LoopsInv, LoopsTypeOK, Loops
  <2> QED BY <2>1, StopAllStops DEF LoopsInv, EntryLoop
<1>3. \A i \in Loops : LoopMapped(i)'
  BY StopAllStops DEF LoopsInv, LoopMapped, Live
<1> QED BY Zenon, <1>1, <1>2, <1>3 DEF LoopsInv

\* The removal ends: the entries go, and either every loop of theirs has exited
\* or the call is known to have given up waiting.
LEMMA EntriesGo ==
    ASSUME LoopsInv, call.step \in {"remove", "close"}, DeleteEntries(call.remove), loop' = loop,
           timedOut' \in BOOLEAN, timedOut => timedOut', timedOut' \/ Stopped(call.remove),
           call' \in CallType, call'.step \in {"idle", "add"},
           call'.step = "add" => call.step = "remove" /\ call'.add = call.add
    PROVE  LoopsInv'
<1>0. subjects \in [Subject -> 0 .. MaxLoops] /\ 0 \in 0 .. MaxLoops
  BY MaxLoopsAssumption DEF LoopsInv, LoopsTypeOK
<1>1. /\ subjects' \in [Subject -> 0 .. MaxLoops]
      /\ \A s \in Subject : subjects'[s] = IF s \in call.remove THEN 0 ELSE subjects[s]
  BY Zenon, <1>0 DEF DeleteEntries, None
<1>2. LoopsTypeOK'
  BY Zenon, <1>1 DEF LoopsInv, LoopsTypeOK
<1>3. \A s \in Subject : EntryLoop(s)'
  BY <1>1 DEF LoopsInv, EntryLoop
<1>4. ASSUME NEW i \in Loops PROVE LoopMapped(i)'
  <2>0. Live(i)' => Live(i)
    BY Zenon DEF Live
  <2>1. SUFFICES ASSUME Live(i), ~(loop[i].stopped /\ timedOut') PROVE subjects'[loop[i].subject] = i
    BY Zenon, <2>0 DEF LoopMapped, LoopsInv
  <2>2. loop[i].subject \in Subject /\ subjects[loop[i].subject] = i
    BY Zenon, <2>1 DEF LoopsInv, LoopMapped
  <2>3. loop[i].subject \notin call.remove
    <3>1. CASE ~loop[i].stopped
      <4>1. i # 0
        BY MaxLoopsAssumption DEF Loops
      <4> QED BY Zenon, <2>2, <3>1, <4>1 DEF LoopsInv, EntryLoop
    <3>2. CASE loop[i].stopped
      BY Zenon, <2>1, <2>2, <3>2 DEF Stopped
    <3> QED BY Zenon, <3>1, <3>2
  <2> QED BY Zenon, <1>1, <2>2, <2>3
<1>5. call'.step \in {"remove", "add"} => \A s \in call'.add : subjects'[s] = 0
  <2>1. SUFFICES ASSUME call'.step = "add", NEW s \in call'.add PROVE subjects'[s] = 0
    OBVIOUS
  <2>2. s \in Subject /\ subjects[s] = 0
    BY Zenon, <2>1 DEF LoopsInv, LoopsTypeOK, CallType
  <2> QED BY Zenon, <1>1, <2>2
<1> QED BY Zenon, <1>2, <1>3, <1>4, <1>5 DEF LoopsInv

\* addSubjectLoop stores a new loop for a subject that has none.
LEMMA SubjectAddedKeeps == ASSUME LoopsInv, SubjectAdded PROVE LoopsInv'
<1>1. PICK s \in call.add : addSubjectLoop(s) /\ call' = [call EXCEPT !.add = @ \ {s}]
  BY Zenon DEF SubjectAdded
<1>2. PICK i \in Loops :
        /\ loop[i] = NoLoop
        /\ loop' = [loop EXCEPT ![i] = [subject |-> s, state |-> "launched", stopped |-> FALSE]]
        /\ subjects' = [subjects EXCEPT ![s] = i]
  BY Zenon, <1>1 DEF addSubjectLoop
<1>3. /\ call.step = "add" /\ s \in Subject /\ subjects[s] = 0 /\ i \in 0 .. MaxLoops /\ i # 0
      /\ timedOut' = timedOut
  BY <1>1, MaxLoopsAssumption DEF SubjectAdded, LoopsInv, LoopsTypeOK, CallType, Loops
<1>4. call' \in CallType /\ call'.step = "add" /\ call'.add = call.add \ {s}
  BY Zenon, <1>1, <1>3 DEF LoopsInv, LoopsTypeOK, CallType
<1>5. /\ loop'[i].subject = s /\ loop'[i].state = "launched" /\ ~loop'[i].stopped /\ subjects'[s] = i
      /\ \A j \in Loops \ {i} : loop'[j] = loop[j]
      /\ \A t \in Subject \ {s} : subjects'[t] = subjects[t] /\ subjects[t] # i
  <2>1. \A t \in Subject : subjects[t] # i
    BY <1>2, <1>3 DEF LoopsInv, EntryLoop, NoLoop
  <2> QED BY Zenon, <1>2, <1>3, <2>1 DEF LoopsInv, LoopsTypeOK
<1>6. LoopsTypeOK'
  <2>1. [subject |-> s, state |-> "launched", stopped |-> FALSE] \in [subject : Subject \cup {0}, state : LoopState, stopped : BOOLEAN]
    BY Zenon, <1>3 DEF LoopState
  <2> QED BY Zenon, <1>2, <1>3, <1>4, <2>1 DEF LoopsInv, LoopsTypeOK
<1>7. ASSUME NEW t \in Subject PROVE EntryLoop(t)'
  <2>1. CASE t = s
    BY Zenon, <1>3, <1>4, <1>5, <2>1 DEF EntryLoop
  <2>2. CASE t # s
    <3>1. subjects[t] # 0 => subjects[t] \in Loops \ {i}
      BY <1>5, <2>2, MaxLoopsAssumption DEF LoopsInv, LoopsTypeOK, Loops
    <3>2. subjects[t] # 0 => loop[subjects[t]].subject = t /\ loop[subjects[t]].state # "none" /\ ~loop[subjects[t]].stopped
      BY Zenon, <1>3 DEF EntryLoop, LoopsInv
    <3>3. subjects'[t] = subjects[t] /\ (subjects[t] # 0 => loop'[subjects[t]] = loop[subjects[t]])
      BY Zenon, <1>5, <2>2, <3>1
    <3> QED BY Zenon, <1>4, <3>2, <3>3 DEF EntryLoop
  <2> QED BY Zenon, <2>1, <2>2
<1>8. ASSUME NEW j \in Loops PROVE LoopMapped(j)'
  <2>1. CASE j = i
    BY Zenon, <1>3, <1>5, <2>1 DEF LoopMapped
  <2>2. CASE j # i
    <3>1. j # 0 /\ loop'[j] = loop[j]
      BY <1>5, <2>2, MaxLoopsAssumption DEF Loops
    <3>2. Live(j)' => Live(j)
      BY Zenon, <3>1 DEF Live
    <3>3. Live(j) => loop[j].subject \in Subject /\ ((loop[j].stopped /\ timedOut) \/ subjects[loop[j].subject] = j)
      BY Zenon DEF LoopMapped, LoopsInv
    <3> QED BY <1>3, <1>5, <3>1, <3>2, <3>3 DEF LoopMapped
  <2> QED BY Zenon, <2>1, <2>2
<1> QED BY <1>3, <1>4, <1>5, <1>6, <1>7, <1>8 DEF LoopsInv, LoopsTypeOK, CallType

\* A step of a loop's goroutine changes its own state alone.
LEMMA MovesKeeps ==
    ASSUME LoopsInv, NEW i \in Loops, NEW from \in LoopState, NEW to \in LoopState \ {"none"}, from # "none",
           to \in {"launched", "pulling", "handling"} => from \in {"launched", "pulling", "handling"},
           Moves(i, from, to)
    PROVE  LoopsInv'
<1>1. /\ UNCHANGED <<subjects, call, timedOut>>
      /\ loop[i].state = from
      /\ loop' = [loop EXCEPT ![i] = [loop[i] EXCEPT !.state = to]]
  BY Zenon DEF Moves
<1>2. loop \in [Loops -> [subject : Subject \cup {0}, state : LoopState, stopped : BOOLEAN]]
  BY Zenon DEF LoopsInv, LoopsTypeOK
<1>3. [loop[i] EXCEPT !.state = to] \in [subject : Subject \cup {0}, state : LoopState, stopped : BOOLEAN]
  BY Zenon, <1>2
<1>4. /\ loop' \in [Loops -> [subject : Subject \cup {0}, state : LoopState, stopped : BOOLEAN]]
      /\ loop'[i].subject = loop[i].subject /\ loop'[i].stopped = loop[i].stopped /\ loop'[i].state = to
      /\ \A j \in Loops \ {i} : loop'[j] = loop[j]
  BY Zenon, <1>1, <1>2, <1>3
<1>5. \A s \in Subject : subjects[s] # 0 => subjects[s] \in Loops
  BY MaxLoopsAssumption DEF LoopsInv, LoopsTypeOK, Loops
<1>6. LoopsTypeOK'
  BY Zenon, <1>1, <1>4 DEF LoopsInv, LoopsTypeOK
<1>7. \A s \in Subject : EntryLoop(s)'
  BY <1>1, <1>4, <1>5 DEF LoopsInv, EntryLoop
<1>8. \A j \in Loops : LoopMapped(j)'
  BY <1>1, <1>4 DEF LoopsInv, LoopMapped, Live
<1> QED BY Zenon, <1>1, <1>6, <1>7, <1>8 DEF LoopsInv

\* Every step of the dynamic consumer keeps the map and the loops in line.
LEMMA LoopsStep == LoopsInv /\ [WorkerNext]_workerVars => LoopsInv'
<1>1. SUFFICES ASSUME LoopsInv, [WorkerNext]_workerVars PROVE LoopsInv'
  OBVIOUS
<1>2. NoCall \in CallType /\ \A ok \in BOOLEAN : [NoCall EXCEPT !.ok = ok] \in CallType /\ [NoCall EXCEPT !.ok = ok].step = "idle"
  BY Zenon DEF NoCall, CallType
<1>3. call \in CallType /\ Existing \in SUBSET Subject
  BY Zenon, <1>1 DEF LoopsInv, LoopsTypeOK, Existing
<1>4. CASE UpdateRefused \/ validateUpdateParams \/ UpdateOverCap
  <2>1. Returns(FALSE) /\ call.step = "idle" /\ UNCHANGED <<subjects, loop, timedOut>>
    BY Zenon, <1>4 DEF UpdateRefused, validateUpdateParams, UpdateOverCap, Calling
  <2> QED BY Zenon, <1>1, <1>2, <2>1, CallEnds DEF Returns
<1>5. CASE UpdateWorkerConsumer
  <2>1. PICK want \in SUBSET Subject :
          /\ call' = [step |-> "remove", want |-> want, remove |-> toRemove(want), add |-> toAdd(want), ok |-> FALSE]
          /\ loop' = StopAll(toRemove(want))
    BY Zenon, <1>5 DEF UpdateWorkerConsumer
  <2>2. /\ toRemove(want) \in SUBSET Existing /\ toAdd(want) \in SUBSET Subject
        /\ \A s \in toAdd(want) : subjects[s] = 0
    BY Zenon, <1>3 DEF toRemove, toAdd, Existing, None
  <2>3. call' \in CallType /\ call'.step = "remove" /\ call'.remove = toRemove(want) /\ call'.add = toAdd(want)
    BY Zenon, <1>3, <2>1, <2>2 DEF CallType
  <2>4. call.step = "idle" /\ UNCHANGED <<subjects, timedOut>>
    BY Zenon, <1>5 DEF UpdateWorkerConsumer, Calling
  <2> QED BY Zenon, <1>1, <2>1, <2>2, <2>3, <2>4, CallBegins
<1>6. CASE Close
  <2>1. call' \in CallType /\ call'.step = "close" /\ call'.remove = Existing /\ call'.add = {}
    BY Zenon, <1>2, <1>3, <1>6 DEF Close, NoCall, CallType
  <2>2. call.step = "idle" /\ UNCHANGED <<subjects, timedOut>> /\ loop' = StopAll(Existing)
    BY Zenon, <1>6 DEF Close, Calling
  <2> QED BY Zenon, <1>1, <2>1, <2>2, CallBegins
<1>7. CASE LoopsRemoved
  <2>1. call' \in CallType /\ call'.step = "add" /\ call'.add = call.add
    BY Zenon, <1>3, <1>7 DEF LoopsRemoved, CallType
  <2> QED BY Zenon, <1>1, <1>7, <2>1, EntriesGo DEF LoopsRemoved, LoopsInv, LoopsTypeOK
<1>8. CASE RemovalTimesOut
  BY Zenon, <1>1, <1>2, <1>8, EntriesGo DEF RemovalTimesOut, Returns
<1>9. CASE CloseReturns
  <2>1. timedOut \in BOOLEAN /\ Stopped(call.remove) \in BOOLEAN
    BY Zenon, <1>1 DEF LoopsInv, LoopsTypeOK, Stopped
  <2>2. call' \in CallType /\ call'.step = "idle"
    BY Zenon, <1>2, <1>9, <2>1 DEF CloseReturns, Returns
  <2> QED BY Zenon, <1>1, <1>9, <2>1, <2>2, EntriesGo DEF CloseReturns
<1>10. CASE AddFails \/ UpdateReturns
  BY Zenon, <1>1, <1>2, <1>10, CallEnds DEF AddFails, UpdateReturns, Returns
<1>11. CASE LoopProceeds \/ \E i \in Loops : LoopHandles(i) \/ LoopFails(i)
  <2>1. PICK i \in Loops : LoopBegins(i) \/ LoopHandled(i) \/ LoopExits(i) \/ LoopHandles(i) \/ LoopFails(i)
    BY Zenon, <1>11 DEF LoopProceeds
  <2>2. \E from \in LoopState, to \in LoopState \ {"none"} :
          /\ from # "none" /\ (to \in {"launched", "pulling", "handling"} => from \in {"launched", "pulling", "handling"})
          /\ Moves(i, from, to)
    BY Zenon, <2>1 DEF LoopBegins, LoopHandled, LoopExits, LoopHandles, LoopFails, LoopState
  <2> QED BY Zenon, <1>1, <2>2, MovesKeeps
<1>12. CASE StreamRecreated \/ Done \/ UNCHANGED workerVars
  <2>1. UNCHANGED <<subjects, loop, call, timedOut>>
    BY Zenon, <1>12 DEF StreamRecreated, Done, workerVars
  <2> QED BY Zenon, <1>1, <2>1 DEF LoopsInv, LoopsTypeOK, EntryLoop, LoopMapped, Live
<1> QED BY Zenon, <1>1, <1>4, <1>5, <1>6, <1>7, <1>8, <1>9, <1>10, <1>11, <1>12, SubjectAddedKeeps DEF WorkerNext, Proceeds

\* The invariant says what MapMatchesLoops asks for.
LEMMA LoopsMatch == LoopsInv => MapMatchesLoops
<1>1. SUFFICES ASSUME LoopsInv PROVE MapMatchesLoops
  OBVIOUS
<1>2. \A i \in Loops : Live(i) /\ ~loop[i].stopped => subjects[loop[i].subject] = i
  BY Zenon, <1>1 DEF LoopsInv, LoopMapped
<1>3. call.step = "idle" => \A s \in Existing : ~loop[subjects[s]].stopped
  BY Zenon, <1>1 DEF LoopsInv, EntryLoop, Existing, None
<1>4. ~timedOut => \A i \in Loops : loop[i].state = "handling" => subjects[loop[i].subject] = i
  BY Zenon, <1>1 DEF LoopsInv, LoopMapped, Live
<1> QED BY Zenon, <1>2, <1>3, <1>4 DEF MapMatchesLoops

-----------------------------------------------------------------------------
(* The dispatcher, step by step.                                           *)

\* A dispatcher starts without workers, before its first message.
LEMMA KeysStart == KeysInit => KeysInv
<1>1. SUFFICES ASSUME KeysInit PROVE KeysInv
  OBVIOUS
<1>2. /\ \A w \in Worker : worker[w] = NoWorker
      /\ \A k \in Key : workers[k] = 0
      /\ pull = [at |-> "send", msg |-> 1, worker |-> 0] /\ closing = FALSE /\ handled = <<>>
  BY Zenon, <1>1 DEF KeysInit
<1>3. NoWorker \in [key : Key \cup {0}, msgCh : Seq(Msg), hand : 0 .. MaxMsg, state : WorkerState]
  <2>1. <<>> \in Seq(Msg) /\ 0 \in 0 .. MaxMsg
    BY KeyDispatcherAssumption
  <2> QED BY Zenon, <2>1 DEF NoWorker, WorkerState
<1>4. KeysTypeOK
  <2>1. 1 \in Msg /\ 1 \in 0 .. MaxMsg /\ 0 \in 0 .. MaxWorkers /\ <<>> \in Seq(Msg)
    BY KeyDispatcherAssumption DEF Msg
  <2> QED BY Zenon, <1>1, <1>3, <2>1 DEF KeysInit, KeysTypeOK
<1>5. \A w \in Worker : Registered(w) /\ Ordered(w)
  BY <1>2 DEF Registered, Ordered, Works, NoWorker
<1> QED BY <1>2, <1>4, <1>5 DEF KeysInv, EntryOwned, HandledInOrder

\* What the types say of one worker and of one message.
LEMMA KeysTypes ==
    ASSUME KeysInv
    PROVE  /\ \A w \in Worker : worker[w].msgCh \in Seq(Msg) /\ w \in Nat /\ w # 0 /\ w \in 0 .. MaxWorkers
           /\ \A w \in Worker : \A i \in DOMAIN worker[w].msgCh : worker[w].msgCh[i] \in Msg
           /\ \A h \in DOMAIN handled : handled[h] \in Msg
           /\ \A k \in Key : workers[k] # 0 => workers[k] \in Worker
           /\ Position \in Nat /\ MaxMsg \in Nat /\ Msg \subseteq Nat
           /\ \A m \in Msg : m < MaxMsg + 1
<1>1. KeysTypeOK
  BY Zenon DEF KeysInv
<1>2. \A w \in Worker : worker[w].msgCh \in Seq(Msg) /\ w \in Nat /\ w # 0 /\ w \in 0 .. MaxWorkers
  BY <1>1, KeyDispatcherAssumption DEF KeysTypeOK, Worker
<1>3. \A w \in Worker : \A i \in DOMAIN worker[w].msgCh : worker[w].msgCh[i] \in Msg
  BY <1>2
<1>4. \A h \in DOMAIN handled : handled[h] \in Msg
  BY <1>1 DEF KeysTypeOK
<1>5. \A k \in Key : workers[k] # 0 => workers[k] \in Worker
  BY <1>1, KeyDispatcherAssumption DEF KeysTypeOK, Worker
<1>6. MaxMsg \in Nat /\ Msg \subseteq Nat /\ \A m \in Msg : m < MaxMsg + 1
  BY KeyDispatcherAssumption DEF Msg
<1>7. Position \in Nat
  BY <1>1, <1>6 DEF Position, KeysTypeOK
<1> QED BY Zenon, <1>2, <1>3, <1>4, <1>5, <1>6, <1>7

\* A channel that nobody touches stays in order while the dispatcher goes on.
LEMMA OrderStays ==
    ASSUME KeysInv, NEW w \in Worker, UNCHANGED <<key, handled>>, Position' \in Nat, Position <= Position',
           \/ worker'[w].msgCh = worker[w].msgCh /\ worker'[w].key = worker[w].key
           \/ worker'[w].msgCh = <<>>
    PROVE  Ordered(w)'
<1>1. CASE worker'[w].msgCh = <<>>
  BY <1>1 DEF Ordered
<1>2. CASE worker'[w].msgCh = worker[w].msgCh /\ worker'[w].key = worker[w].key
  <2>1. \A i \in DOMAIN worker[w].msgCh : worker[w].msgCh[i] < Position /\ worker[w].msgCh[i] \in Nat
    BY Zenon, KeysTypes DEF KeysInv, Ordered
  <2>2. \A i \in DOMAIN worker[w].msgCh : worker[w].msgCh[i] < Position'
    BY <2>1, KeysTypes
  <2> QED BY Zenon, <1>2, <2>2 DEF KeysInv, Ordered
<1> QED BY Zenon, <1>1, <1>2

\* What was handled stays before the dispatcher's position.
LEMMA HandledStays ==
    ASSUME KeysInv, UNCHANGED <<key, handled>>, Position' \in Nat, Position <= Position'
    PROVE  HandledInOrder'
<1>1. \A h \in DOMAIN handled : handled[h] < Position /\ handled[h] \in Nat
  BY Zenon, KeysTypes DEF KeysInv, HandledInOrder
<1>2. \A h \in DOMAIN handled : handled[h] < Position'
  BY <1>1, KeysTypes
<1> QED BY Zenon, <1>2 DEF KeysInv, HandledInOrder

\* The dispatcher's steps that touch no worker.
LEMMA PullKeeps ==
    ASSUME KeysInv, UNCHANGED <<key, workers, worker, handled>>, KeysTypeOK', Position <= Position',
           closing => closing', closing' => pull'.at = "stopped"
    PROVE  KeysInv'
<1>1. Position' \in Nat
  BY KeysTypes, KeyDispatcherAssumption DEF KeysTypeOK, Position, Msg
<1>2. \A w \in Worker : Registered(w)' /\ Ordered(w)'
  BY Zenon, <1>1, OrderStays DEF KeysInv, Registered, Works
<1>3. \A k \in Key : EntryOwned(k)'
  BY Zenon DEF KeysInv, EntryOwned
<1> QED BY Zenon, <1>1, <1>2, <1>3, HandledStays DEF KeysInv

\* The record of a worker is changed alone, in its map entry's lifetime.
LEMMA WorkerKeeps ==
    ASSUME KeysInv, NEW w \in Worker, NEW new, UNCHANGED <<key, pull, workers, closing, handled>>,
           worker' = [worker EXCEPT ![w] = new],
           new \in [key : Key \cup {0}, msgCh : Seq(Msg), hand : 0 .. MaxMsg, state : WorkerState],
           new.key = worker[w].key, new.msgCh = worker[w].msgCh, new.state # "none", new.state = "leaving" => closing,
           Registered(w)'
    PROVE  KeysInv'
<1>1. KeysTypeOK'
  BY Zenon DEF KeysInv, KeysTypeOK
<1>2. /\ worker'[w] = new /\ \A v \in Worker \ {w} : worker'[v] = worker[v]
      /\ Position' = Position /\ Position \in Nat
  BY Zenon, KeysTypes DEF KeysInv, KeysTypeOK, Position
<1>3. \A v \in Worker : Registered(v)'
  BY <1>2 DEF KeysInv, Registered, Works
<1>4. \A v \in Worker : Ordered(v)'
  BY <1>2, OrderStays
<1>5. \A k \in Key : EntryOwned(k)'
  BY <1>2, KeysTypes DEF KeysInv, EntryOwned
<1>6. HandledInOrder'
  BY <1>2, HandledStays
<1> QED BY Zenon, <1>1, <1>3, <1>4, <1>5, <1>6 DEF KeysInv

\* processMessage, drainWorker and the end of the drain.
LEMMA ProcessKeeps ==
    ASSUME KeysInv, NEW w \in Worker, processMessage(w) \/ drainWorker(w) \/ DrainEnds(w)
    PROVE  KeysInv'
<1>0. /\ worker \in [Worker -> [key : Key \cup {0}, msgCh : Seq(Msg), hand : 0 .. MaxMsg, state : WorkerState]]
      /\ worker[w] \in [key : Key \cup {0}, msgCh : Seq(Msg), hand : 0 .. MaxMsg, state : WorkerState]
      /\ Registered(w) /\ 0 \in 0 .. MaxMsg
  BY KeyDispatcherAssumption DEF KeysInv, KeysTypeOK
<1>1. CASE processMessage(w)
  <2> DEFINE new == [worker[w] EXCEPT !.hand = 0, !.state = IF worker[w].state = "handling" THEN "run" ELSE "drain"]
  <2>1. /\ worker[w].state \in {"handling", "draining"}
        /\ worker' = [worker EXCEPT ![w] = new]
        /\ UNCHANGED <<key, pull, workers, closing, handled>>
    BY Zenon, <1>0, <1>1 DEF processMessage
  <2>2. /\ new \in [key : Key \cup {0}, msgCh : Seq(Msg), hand : 0 .. MaxMsg, state : WorkerState]
        /\ new.key = worker[w].key /\ new.msgCh = worker[w].msgCh /\ new.hand = 0
        /\ new.state = IF worker[w].state = "handling" THEN "run" ELSE "drain"
    BY Zenon, <1>0 DEF WorkerState
  <2>3. worker'[w] = new
    BY Zenon, <1>0, <2>1
  <2>4. Registered(w)'
    BY Zenon, <1>0, <2>1, <2>2, <2>3 DEF Registered, Works
  <2> HIDE DEF new
  <2> QED BY Zenon, <2>1, <2>2, <2>4, WorkerKeeps
<1>2. CASE drainWorker(w)
  <2> DEFINE new == [worker[w] EXCEPT !.state = "drain"]
  <2>1. /\ worker[w].state = "run" /\ closing
        /\ worker' = [worker EXCEPT ![w] = new]
        /\ UNCHANGED <<key, pull, workers, closing, handled>>
    BY Zenon, <1>0, <1>2 DEF drainWorker
  <2>2. /\ new \in [key : Key \cup {0}, msgCh : Seq(Msg), hand : 0 .. MaxMsg, state : WorkerState]
        /\ new.key = worker[w].key /\ new.msgCh = worker[w].msgCh /\ new.hand = worker[w].hand /\ new.state = "drain"
    BY Zenon, <1>0 DEF WorkerState
  <2>3. worker'[w] = new
    BY Zenon, <1>0, <2>1
  <2>4. Registered(w)'
    BY Zenon, <1>0, <2>1, <2>2, <2>3 DEF Registered, Works
  <2> HIDE DEF new
  <2> QED BY Zenon, <2>1, <2>2, <2>4, WorkerKeeps
<1>3. CASE DrainEnds(w)
  <2> DEFINE new == [worker[w] EXCEPT !.state = "leaving"]
  <2>1. /\ worker[w].state = "drain" /\ worker[w].msgCh = <<>>
        /\ worker' = [worker EXCEPT ![w] = new]
        /\ UNCHANGED <<key, pull, workers, closing, handled>>
    BY Zenon, <1>0, <1>3 DEF DrainEnds
  <2>2. /\ new \in [key : Key \cup {0}, msgCh : Seq(Msg), hand : 0 .. MaxMsg, state : WorkerState]
        /\ new.key = worker[w].key /\ new.msgCh = worker[w].msgCh /\ new.hand = worker[w].hand /\ new.state = "leaving"
    BY Zenon, <1>0 DEF WorkerState
  <2>3. worker'[w] = new
    BY Zenon, <1>0, <2>1
  <2>4. Registered(w)' /\ closing
    BY Zenon, <1>0, <2>1, <2>2, <2>3 DEF Registered, Works
  <2> HIDE DEF new
  <2> QED BY Zenon, <2>1, <2>2, <2>4, WorkerKeeps
<1> QED BY Zenon, <1>1, <1>2, <1>3

\* A worker leaves the map, or the goroutine is gone: no other worker of the
\* key is touched.
LEMMA LeavingKeeps ==
    ASSUME KeysInv, NEW w \in Worker, IdleExit(w) \/ removeWorker(w)
    PROVE  KeysInv'
<1>0. /\ worker \in [Worker -> [key : Key \cup {0}, msgCh : Seq(Msg), hand : 0 .. MaxMsg, state : WorkerState]]
      /\ worker[w] \in [key : Key \cup {0}, msgCh : Seq(Msg), hand : 0 .. MaxMsg, state : WorkerState]
      /\ workers \in [Key -> 0 .. MaxWorkers] /\ 0 \in 0 .. MaxWorkers
      /\ Registered(w) /\ \A k \in Key : EntryOwned(k)
  BY KeyDispatcherAssumption DEF KeysInv, KeysTypeOK
<1>1. UNCHANGED <<key, pull, closing, handled>> /\ Position' = Position /\ Position \in Nat
  BY Zenon, KeysTypes DEF IdleExit, removeWorker, Position
<1>2. /\ worker' \in [Worker -> [key : Key \cup {0}, msgCh : Seq(Msg), hand : 0 .. MaxMsg, state : WorkerState]]
      /\ \A v \in Worker \ {w} : worker'[v] = worker[v]
      /\ worker'[w].msgCh = <<>> /\ worker'[w].hand = 0 /\ worker'[w].state \in {"leaving", "none"}
  <2>1. CASE IdleExit(w)
    <3>1. worker' = [worker EXCEPT ![w] = [worker[w] EXCEPT !.state = "leaving"]] /\ worker[w].msgCh = <<>> /\ worker[w].state = "run"
      BY Zenon, <1>0, <2>1 DEF IdleExit, IdleConfirmed
    <3>2. [worker[w] EXCEPT !.state = "leaving"] \in [key : Key \cup {0}, msgCh : Seq(Msg), hand : 0 .. MaxMsg, state : WorkerState]
      BY Zenon, <1>0 DEF WorkerState
    <3> QED BY Zenon, <1>0, <3>1, <3>2 DEF Registered
  <2>2. CASE removeWorker(w)
    <3>1. worker' = [worker EXCEPT ![w] = NoWorker]
      BY Zenon, <2>2 DEF removeWorker
    <3>2. NoWorker \in [key : Key \cup {0}, msgCh : Seq(Msg), hand : 0 .. MaxMsg, state : WorkerState]
      BY KeyDispatcherAssumption DEF NoWorker, WorkerState
    <3> QED BY Zenon, <1>0, <3>1, <3>2 DEF NoWorker
  <2> QED BY Zenon, <2>1, <2>2
<1>3. /\ workers' \in [Key -> 0 .. MaxWorkers]
      /\ \A k \in Key : workers'[k] = IF workers[k] = w THEN 0 ELSE workers[k]
  <2>1. w # 0 /\ \A k \in Key : workers[k] = w => k = worker[w].key
    BY Zenon, <1>0, KeysTypes DEF EntryOwned
  <2>2. CASE IdleExit(w)
    <3>1. worker[w].key \in Key /\ workers[worker[w].key] = w /\ workers' = [workers EXCEPT ![worker[w].key] = 0]
      BY Zenon, <1>0, <2>2 DEF IdleExit, Registered, Works
    <3> QED BY Zenon, <1>0, <2>1, <3>1
  <2>3. CASE removeWorker(w)
    <3>1. workers' = IF workers[worker[w].key] = w THEN [workers EXCEPT ![worker[w].key] = 0] ELSE workers
      BY Zenon, <2>3 DEF removeWorker, RemoveThisWorker
    <3> QED BY Zenon, <1>0, <2>1, <3>1
  <2> QED BY Zenon, <2>2, <2>3
<1>4. KeysTypeOK'
  BY Zenon, <1>1, <1>2, <1>3 DEF KeysInv, KeysTypeOK
<1>5. ASSUME NEW v \in Worker PROVE Registered(v)'
  <2>1. CASE v = w
    BY Zenon, <1>2, <2>1 DEF Registered, Works
  <2>2. CASE v # w
    <3>1. worker'[v] = worker[v] /\ Registered(v) /\ (Works(v)' <=> Works(v))
      BY Zenon, <1>2, <2>2 DEF KeysInv, Works
    <3>2. Works(v) => worker[v].key \in Key /\ workers'[worker[v].key] = v
      BY Zenon, <1>3, <2>2, <3>1 DEF Registered
    <3> QED BY Zenon, <1>1, <3>1, <3>2 DEF Registered
  <2> QED BY Zenon, <2>1, <2>2
<1>6. \A v \in Worker : Ordered(v)'
  BY SMTT(40), <1>1, <1>2, OrderStays
<1>7. \A k \in Key : EntryOwned(k)'
  BY SMTT(40), <1>0, <1>1, <1>2, <1>3, KeysTypes DEF EntryOwned
<1>8. HandledInOrder'
  BY <1>1, HandledStays
<1> QED BY Zenon, <1>1, <1>4, <1>5, <1>6, <1>7, <1>8 DEF KeysInv

\* A worker is made for a key that has none (getOrCreateWorker).
LEMMA CreateKeeps == ASSUME KeysInv, getOrCreateWorker PROVE KeysInv'
<1>0. /\ worker \in [Worker -> [key : Key \cup {0}, msgCh : Seq(Msg), hand : 0 .. MaxMsg, state : WorkerState]]
      /\ workers \in [Key -> 0 .. MaxWorkers]
      /\ pull \in [at : {"send", "wait", "create", "stopped"}, msg : 0 .. MaxMsg, worker : 0 .. MaxWorkers]
      /\ pull.at = "create" /\ pull.msg \in Msg /\ key[pull.msg] \in Key
      /\ pull' = [pull EXCEPT !.at = "send"] /\ UNCHANGED <<key, closing, handled>>
  BY Zenon DEF KeysInv, KeysTypeOK, getOrCreateWorker
<1>1. /\ pull' \in [at : {"send", "wait", "create", "stopped"}, msg : 0 .. MaxMsg, worker : 0 .. MaxWorkers]
      /\ pull'.at = "send" /\ pull'.msg = pull.msg /\ ~closing
  BY Zenon, <1>0 DEF KeysInv
<1>2. Position' = Position /\ Position \in Nat
  BY Zenon, <1>0, <1>1, KeysTypes DEF Position
<1>3. CASE UNCHANGED <<workers, worker>>
  <2>1. KeysTypeOK'
    BY Zenon, <1>0, <1>1, <1>3 DEF KeysInv, KeysTypeOK
  <2> QED BY <1>0, <1>1, <1>2, <1>3, <2>1, PullKeeps
<1>4. ASSUME NEW w \in Worker, workers[key[pull.msg]] = 0, worker[w] = NoWorker,
             worker' = [worker EXCEPT ![w] = [NoWorker EXCEPT !.key = key[pull.msg], !.state = "run"]],
             workers' = [workers EXCEPT ![key[pull.msg]] = w]
      PROVE  KeysInv'
  <2> DEFINE new == [NoWorker EXCEPT !.key = key[pull.msg], !.state = "run"]
  <2>1. /\ new.key = key[pull.msg] /\ new.msgCh = <<>> /\ new.hand = 0 /\ new.state = "run"
        /\ new \in [key : Key \cup {0}, msgCh : Seq(Msg), hand : 0 .. MaxMsg, state : WorkerState]
    <3>1. /\ NoWorker \in [key : Key \cup {0}, msgCh : Seq(Msg), hand : 0 .. MaxMsg, state : WorkerState]
          /\ NoWorker.msgCh = <<>> /\ NoWorker.hand = 0
      BY SMTT(40), KeyDispatcherAssumption DEF NoWorker, WorkerState
    <3> QED BY Zenon, <1>0, <3>1 DEF WorkerState
  <2> HIDE DEF new
  <2>2. /\ worker'[w] = new /\ \A v \in Worker \ {w} : worker'[v] = worker[v]
        /\ workers'[key[pull.msg]] = w /\ \A k \in Key \ {key[pull.msg]} : workers'[k] = workers[k]
    BY Zenon, <1>0, <1>4 DEF new
  <2>3. KeysTypeOK'
    <3>1. worker' \in [Worker -> [key : Key \cup {0}, msgCh : Seq(Msg), hand : 0 .. MaxMsg, state : WorkerState]]
      BY Zenon, <1>0, <1>4, <2>1 DEF new
    <3>2. workers' \in [Key -> 0 .. MaxWorkers]
      BY Zenon, <1>0, <1>4, KeysTypes
    <3> QED BY Zenon, <1>0, <1>1, <3>1, <3>2 DEF KeysInv, KeysTypeOK
  <2>4. ASSUME NEW v \in Worker PROVE Registered(v)'
    <3>1. CASE v = w
      BY Zenon, <1>0, <2>1, <2>2, <3>1 DEF Registered, Works
    <3>2. CASE v # w
      <4>1. worker'[v] = worker[v] /\ Registered(v) /\ (Works(v)' <=> Works(v))
        BY Zenon, <2>2, <3>2 DEF KeysInv, Works
      <4>2. Works(v) => worker[v].key \in Key /\ workers'[worker[v].key] = v
        BY Zenon, <1>4, <2>2, <4>1, KeysTypes DEF Registered
      <4> QED BY Zenon, <1>0, <4>1, <4>2 DEF Registered
    <3> QED BY Zenon, <3>1, <3>2
  <2>5. \A v \in Worker : Ordered(v)'
    <3>1. worker'[w].msgCh = <<>> /\ Position' \in Nat /\ Position <= Position'
      BY <1>2, <2>1, <2>2
    <3>2. \A v \in Worker : worker'[v].msgCh = <<>> \/ worker'[v] = worker[v]
      BY Zenon, <2>2, <3>1
    <3> QED BY Zenon, <1>0, <3>1, <3>2, OrderStays
  <2>6. ASSUME NEW k \in Key PROVE EntryOwned(k)'
    <3>1. CASE k = key[pull.msg]
      BY Zenon, <2>1, <2>2, <3>1 DEF EntryOwned
    <3>2. CASE k # key[pull.msg]
      <4>1. workers'[k] = workers[k] /\ EntryOwned(k)
        BY Zenon, <2>2, <3>2 DEF KeysInv
      <4>2. workers[k] # 0 => workers[k] \in Worker \ {w}
        BY <1>4, <4>1, KeysTypes DEF EntryOwned, NoWorker
      <4> QED BY SMTT(40), <1>0, <2>2, <4>1, <4>2 DEF EntryOwned
    <3> QED BY Zenon, <3>1, <3>2
  <2>7. HandledInOrder'
    BY <1>0, <1>2, HandledStays
  <2> QED BY Zenon, <1>0, <1>1, <2>3, <2>4, <2>5, <2>6, <2>7 DEF KeysInv
<1> QED BY Zenon, <1>3, <1>4 DEF getOrCreateWorker

\* The pull loop goes on to the next message or stops.
LEMMA NextMessage ==
    ASSUME KeysInv, pull.at = "send", pull' \in {Next1(pull.msg), Next1(MaxMsg)}
    PROVE  /\ pull' \in [at : {"send", "wait", "create", "stopped"}, msg : 0 .. MaxMsg, worker : 0 .. MaxWorkers]
           /\ pull'.at # "stopped" => pull'.msg \in Msg
           /\ Position = pull.msg /\ pull.msg \in Msg /\ Position' \in Nat /\ Position < Position' /\ ~closing
<1>1. pull.msg \in Msg /\ Position = pull.msg /\ ~closing
  BY Zenon DEF KeysInv, KeysTypeOK, Position
<1>2. CASE pull' = [at |-> "stopped", msg |-> 0, worker |-> 0]
  BY <1>1, <1>2, KeyDispatcherAssumption DEF Position, Msg
<1>3. CASE pull' = [at |-> "send", msg |-> pull.msg + 1, worker |-> 0] /\ pull.msg # MaxMsg
  BY <1>1, <1>3, KeyDispatcherAssumption DEF Position, Msg
<1> QED BY Zenon, <1>2, <1>3 DEF Next1

\* What Append and Tail do to a channel and to the history.
LEMMA AppendFacts ==
    ASSUME NEW S, NEW s \in Seq(S), NEW m \in S
    PROVE  /\ Append(s, m) \in Seq(S)
           /\ \A i \in DOMAIN Append(s, m) : \/ i \in DOMAIN s /\ Append(s, m)[i] = s[i]
                                             \/ i = Len(s) + 1 /\ Append(s, m)[i] = m
           /\ \A i \in DOMAIN s : i < Len(s) + 1 /\ i \in Nat /\ i \in DOMAIN Append(s, m) /\ Append(s, m)[i] = s[i]
           /\ Len(s) + 1 \in DOMAIN Append(s, m) /\ Append(s, m)[Len(s) + 1] = m /\ Len(s) \in Nat
OBVIOUS

\* The first message leaves the queue and every other one moves up by one place.
LEMMA TailFacts ==
    ASSUME NEW S, NEW s \in Seq(S), s # <<>>
    PROVE  /\ 1 \in DOMAIN s /\ Head(s) = s[1] /\ Head(s) \in S /\ Tail(s) \in Seq(S)
           /\ \A i \in DOMAIN Tail(s) : i \in Nat /\ i + 1 \in DOMAIN s /\ 1 < i + 1 /\ Tail(s)[i] = s[i + 1]
<1>1. Len(s) \in Nat /\ Len(s) # 0 /\ DOMAIN s = 1 .. Len(s) /\ \A i \in 1 .. Len(s) : s[i] \in S
  OBVIOUS
<1>2. /\ Head(s) = s[1] /\ Tail(s) \in Seq(S) /\ DOMAIN Tail(s) = 1 .. (Len(s) - 1)
      /\ \A i \in 1 .. (Len(s) - 1) : Tail(s)[i] = s[i + 1]
  BY <1>1
<1>3. 1 \in 1 .. Len(s) /\ \A i \in 1 .. (Len(s) - 1) : i \in Nat /\ i + 1 \in 1 .. Len(s) /\ 1 < i + 1
  BY <1>1
<1> QED BY Zenon, <1>1, <1>2, <1>3

\* A message behind all the others keeps a channel in order.
LEMMA AppendKeepsOrder ==
    ASSUME NEW S \in SUBSET Nat, NEW s \in Seq(S), NEW m \in S, \A i \in DOMAIN s : s[i] < m,
           \A i, j \in DOMAIN s : i < j => s[i] < s[j]
    PROVE  \A i, j \in DOMAIN Append(s, m) : i < j => Append(s, m)[i] < Append(s, m)[j]
<1>1. SUFFICES ASSUME NEW i \in DOMAIN Append(s, m), NEW j \in DOMAIN Append(s, m), i < j
      PROVE  Append(s, m)[i] < Append(s, m)[j]
  OBVIOUS
<1>2. CASE i \in DOMAIN s /\ j \in DOMAIN s
  BY <1>1, <1>2, AppendFacts
<1>3. CASE i \in DOMAIN s /\ j = Len(s) + 1
  BY <1>1, <1>3, AppendFacts
<1>4. CASE i = Len(s) + 1
  <2>1. j \in 1 .. Len(s) + 1 /\ Len(s) \in Nat
    BY <1>1
  <2> QED BY <1>1, <1>4, <2>1
<1> QED BY <1>2, <1>3, <1>4, AppendFacts

\* The message goes into the channel of its key's worker, behind the others.
LEMMA SentKeeps ==
    ASSUME KeysInv, pull.at = "send", NEW w, w = workers[key[pull.msg]], w # 0,
           worker' = Sent(w, pull.msg), pull' = Next1(pull.msg), UNCHANGED <<key, workers, closing, handled>>
    PROVE  KeysInv'
<1>0. /\ worker \in [Worker -> [key : Key \cup {0}, msgCh : Seq(Msg), hand : 0 .. MaxMsg, state : WorkerState]]
      /\ pull.msg \in Msg /\ pull.msg \in Nat /\ key[pull.msg] \in Key /\ w \in Worker
      /\ Position = pull.msg /\ Position' \in Nat /\ Position < Position' /\ Position <= Position' /\ ~closing
  <2>1. pull.msg \in Msg /\ Position = pull.msg /\ Position' \in Nat /\ Position < Position' /\ ~closing
    BY Zenon, NextMessage
  <2> QED BY SMTT(40), <2>1, KeysTypes DEF KeysInv, KeysTypeOK
<1>1. /\ worker[w] \in [key : Key \cup {0}, msgCh : Seq(Msg), hand : 0 .. MaxMsg, state : WorkerState]
      /\ worker[w].key = key[pull.msg] /\ worker[w].state \notin {"none", "leaving"}
  BY ZenonT(40), <1>0 DEF KeysInv, EntryOwned
<1> DEFINE ch == Append(worker[w].msgCh, pull.msg)
           new == [worker[w] EXCEPT !.msgCh = ch]
<1>2. worker' = [worker EXCEPT ![w] = new]
  BY ZenonT(40), <1>0 DEF Sent
<1>3. ch \in Seq(Msg)
  <2>1. worker[w].msgCh \in Seq(Msg)   BY Zenon, <1>1
  <2>2. pull.msg \in Msg   BY Zenon, <1>0
  <2> QED BY <2>1, <2>2
<1>4. /\ new \in [key : Key \cup {0}, msgCh : Seq(Msg), hand : 0 .. MaxMsg, state : WorkerState]
      /\ new.key = worker[w].key /\ new.msgCh = ch /\ new.hand = worker[w].hand /\ new.state = worker[w].state
  <2> HIDE DEF ch
  <2> QED BY Zenon, <1>1, <1>3
<1> HIDE DEF ch, new
<1>5. worker'[w] = new /\ \A v \in Worker \ {w} : worker'[v] = worker[v]
  BY Zenon, <1>0, <1>2
<1>6. KeysTypeOK'
  <2>1. worker' \in [Worker -> [key : Key \cup {0}, msgCh : Seq(Msg), hand : 0 .. MaxMsg, state : WorkerState]]
    BY ZenonT(40), <1>0, <1>2, <1>4
  <2> QED BY ZenonT(40), <2>1, NextMessage DEF KeysInv, KeysTypeOK
<1>7. ASSUME NEW v \in Worker PROVE Registered(v)'
  <2>1. Registered(v) /\ worker'[v].key = worker[v].key /\ worker'[v].state = worker[v].state /\ worker'[v].hand = worker[v].hand
    BY ZenonT(40), <1>4, <1>5 DEF KeysInv
  <2>2. worker[v].state \in {"none", "leaving"} => worker'[v].msgCh = worker[v].msgCh
    BY ZenonT(40), <1>1, <1>5
  <2> QED BY ZenonT(40), <2>1, <2>2 DEF Registered, Works
<1>8. ASSUME NEW k \in Key PROVE EntryOwned(k)'
  <2>1. EntryOwned(k) /\ (workers[k] # 0 => workers[k] \in Worker)
    BY ZenonT(40), KeysTypes DEF KeysInv
  <2>2. \A v \in Worker : worker'[v].key = worker[v].key /\ worker'[v].state = worker[v].state
    BY ZenonT(40), <1>4, <1>5
  <2> QED BY ZenonT(40), <2>1, <2>2 DEF EntryOwned
<1>9. \A v \in Worker \ {w} : Ordered(v)'
  BY ZenonT(40), <1>0, <1>5, OrderStays
<1>10. Ordered(w)'
  <2>1. Ordered(w) /\ HandledInOrder /\ worker'[w].msgCh = ch /\ worker'[w].key = key[pull.msg]
    BY ZenonT(40), <1>0, <1>1, <1>4, <1>5 DEF KeysInv
  <2> DEFINE old == worker[w].msgCh
  <2>2. \A i \in DOMAIN old : old[i] < pull.msg /\ old[i] < Position' /\ key[old[i]] = key[pull.msg]
    <3>1. \A i \in DOMAIN old : old[i] \in Nat /\ old[i] < Position /\ key[old[i]] = worker[w].key
      BY ZenonT(40), <1>0, <2>1, KeysTypes DEF Ordered
    <3> HIDE DEF old
    <3>2. \A n \in Nat : n < Position => n < Position' /\ n < pull.msg
      BY SMTT(40), <1>0
    <3> QED BY ZenonT(40), <1>1, <3>1, <3>2
  <2>3. \A h \in DOMAIN handled : handled[h] < pull.msg
    BY ZenonT(40), <1>0, <2>1 DEF HandledInOrder
  <2>4. /\ \A i, j \in DOMAIN old : i < j => old[i] < old[j]
        /\ \A i \in DOMAIN old, h \in DOMAIN handled : key[handled[h]] = key[pull.msg] => handled[h] < old[i]
    BY ZenonT(30), <1>1, <2>1 DEF Ordered
  <2>5. old \in Seq(Msg) /\ Msg \in SUBSET Nat
    BY ZenonT(40), <1>1, KeysTypes
  <2> HIDE DEF old
  <2>6. \A i \in DOMAIN ch : (i \in DOMAIN old /\ ch[i] = old[i]) \/ ch[i] = pull.msg
    <3>1. pull.msg \in Msg /\ ch = Append(old, pull.msg)   BY Zenon, <1>0 DEF ch, old
    <3>2. old \in Seq(Msg)   BY Zenon, <2>5
    <3> QED BY <3>1, <3>2
  <2>7. \A i, j \in DOMAIN ch : i < j => ch[i] < ch[j]
    BY Zenon, <1>0, <2>2, <2>4, <2>5, AppendKeepsOrder DEF ch, old
  <2>8. \A i \in DOMAIN ch : key[ch[i]] = key[pull.msg] /\ ch[i] < Position'
    BY ZenonT(40), <1>0, <2>2, <2>6
  <2>9. \A i \in DOMAIN ch, h \in DOMAIN handled : key[handled[h]] = key[pull.msg] => handled[h] < ch[i]
    BY ZenonT(30), <2>3, <2>4, <2>6
  <2>10. /\ \A i \in DOMAIN worker'[w].msgCh : key'[worker'[w].msgCh[i]] = worker'[w].key /\ worker'[w].msgCh[i] < Position'
         /\ \A i, j \in DOMAIN worker'[w].msgCh : i < j => worker'[w].msgCh[i] < worker'[w].msgCh[j]
    BY SMTT(40), <2>1, <2>7, <2>8
  <2>11. \A i \in DOMAIN worker'[w].msgCh, h \in DOMAIN handled' :
           key'[handled'[h]] = worker'[w].key => handled'[h] < worker'[w].msgCh[i]
    BY SMTT(40), <2>1, <2>9
  <2> QED BY ZenonT(40), <2>10, <2>11 DEF Ordered
<1>11. HandledInOrder'
  BY Zenon, <1>0, HandledStays
<1> QED BY ZenonT(30), <1>0, <1>6, <1>7, <1>8, <1>9, <1>10, <1>11 DEF KeysInv

\* The rest of what the pull loop does leaves the workers alone.
LEMMA PullSteps ==
    ASSUME KeysInv, Dispatch \/ DispatchRetries \/ LoopCancelled \/ CloseKeys
    PROVE  KeysInv'
<1>0. /\ pull \in [at : {"send", "wait", "create", "stopped"}, msg : 0 .. MaxMsg, worker : 0 .. MaxWorkers]
      /\ pull.at # "stopped" => pull.msg \in Msg /\ key[pull.msg] \in Key /\ workers[key[pull.msg]] \in 0 .. MaxWorkers
      /\ Position \in Nat /\ 0 \in 0 .. MaxWorkers
  BY KeysTypes, KeyDispatcherAssumption DEF KeysInv, KeysTypeOK
<1>1. ASSUME UNCHANGED <<key, workers, worker, closing, handled>>, pull.at # "stopped",
             NEW at \in {"send", "wait", "create"}, NEW w \in 0 .. MaxWorkers,
             pull' = [pull EXCEPT !.at = at, !.worker = w] \/ pull' = [pull EXCEPT !.at = at]
      PROVE  KeysInv'
  <2>1. /\ pull' \in [at : {"send", "wait", "create", "stopped"}, msg : 0 .. MaxMsg, worker : 0 .. MaxWorkers]
        /\ pull'.at = at /\ pull'.msg = pull.msg
    BY ZenonT(40), <1>0, <1>1
  <2>2. KeysTypeOK' /\ Position' = Position
    BY Zenon, <1>0, <1>1, <2>1 DEF KeysInv, KeysTypeOK, Position
  <2> QED BY <1>0, <1>1, <2>1, <2>2, PullKeeps DEF KeysInv
<1>2. CASE Dispatch
  <2>1. pull.at = "send" /\ UNCHANGED <<key, workers, closing, handled>>
    BY Zenon, <1>2 DEF Dispatch
  <2> DEFINE w == workers[key[pull.msg]]
  <2>2. \/ w # 0 /\ worker' = Sent(w, pull.msg) /\ pull' = Next1(pull.msg)
        \/ pull' = [pull EXCEPT !.at = "wait", !.worker = w] /\ UNCHANGED worker
        \/ pull' = [pull EXCEPT !.at = "create"] /\ UNCHANGED worker
    BY Zenon, <1>2 DEF Dispatch
  <2>3. w \in 0 .. MaxWorkers
    BY Zenon, <1>0, <2>1
  <2>4. CASE w # 0 /\ worker' = Sent(w, pull.msg) /\ pull' = Next1(pull.msg)
    BY Zenon, <2>1, <2>4, SentKeeps
  <2>5. CASE pull' = [pull EXCEPT !.at = "wait", !.worker = w] /\ UNCHANGED worker
    <3> HIDE DEF w
    <3> QED BY ZenonT(40), <1>1, <2>1, <2>3, <2>5
  <2>6. CASE pull' = [pull EXCEPT !.at = "create"] /\ UNCHANGED worker
    <3> HIDE DEF w
    <3> QED BY ZenonT(40), <1>1, <2>1, <2>3, <2>6
  <2> QED BY Zenon, <2>2, <2>4, <2>5, <2>6
<1>3. CASE DispatchRetries
  BY ZenonT(40), <1>0, <1>1, <1>3 DEF DispatchRetries
<1>4. CASE LoopCancelled
  <2>1. pull.at = "send" /\ pull' = Next1(MaxMsg) /\ UNCHANGED <<key, workers, worker, closing, handled>>
    BY Zenon, <1>4 DEF LoopCancelled
  <2>2. KeysTypeOK' /\ Position <= Position' /\ ~closing
    BY SMTT(40), <1>0, <2>1, NextMessage DEF KeysInv, KeysTypeOK
  <2> QED BY Zenon, <2>1, <2>2, PullKeeps
<1>5. CASE CloseKeys
  <2>1. pull.at = "stopped" /\ closing' = TRUE /\ UNCHANGED <<key, pull, workers, worker, handled>>
    BY Zenon, <1>5 DEF CloseKeys
  <2>2. KeysTypeOK' /\ Position' = Position
    BY ZenonT(40), <2>1 DEF KeysInv, KeysTypeOK, Position
  <2> QED BY SMTT(40), <1>0, <2>1, <2>2, PullKeeps
<1> QED BY Zenon, <1>2, <1>3, <1>4, <1>5

\* A worker takes the head of its channel: everything of its key that was
\* handled before is older, and nobody else has messages of the key.
LEMMA ReceiveKeeps == ASSUME KeysInv, NEW w \in Worker, Receive(w) PROVE KeysInv'
<1>0. /\ worker \in [Worker -> [key : Key \cup {0}, msgCh : Seq(Msg), hand : 0 .. MaxMsg, state : WorkerState]]
      /\ worker[w] \in [key : Key \cup {0}, msgCh : Seq(Msg), hand : 0 .. MaxMsg, state : WorkerState]
      /\ worker[w].state \in {"run", "drain"} /\ worker[w].msgCh # <<>> /\ handled \in Seq(Msg)
      /\ UNCHANGED <<key, pull, workers, closing>> /\ Position' = Position /\ Position \in Nat
  BY Zenon, KeysTypes DEF Receive, KeysInv, KeysTypeOK, Position
<1> DEFINE s == worker[w].msgCh
           m == Head(s)
           new == [worker[w] EXCEPT !.msgCh = Tail(s), !.hand = m,
                                    !.state = IF worker[w].state = "run" THEN "handling" ELSE "draining"]
<1>1. worker' = [worker EXCEPT ![w] = new] /\ handled' = Append(handled, m)
  BY Zenon, <1>0 DEF Receive
<1>2. /\ s \in Seq(Msg) /\ s # <<>> /\ m = s[1] /\ m \in Msg /\ m \in Nat /\ m # 0 /\ Tail(s) \in Seq(Msg) /\ 1 \in DOMAIN s
      /\ \A i \in DOMAIN Tail(s) : i \in Nat /\ i + 1 \in DOMAIN s /\ 1 < i + 1 /\ Tail(s)[i] = s[i + 1]
      /\ m \in 0 .. MaxMsg
  <2>1. s \in Seq(Msg) /\ s # <<>>
    BY Zenon, <1>0
  <2> HIDE DEF s
  <2>2. m \in Msg /\ m \in Nat /\ m # 0 /\ m \in 0 .. MaxMsg
    <3>1. Head(s) \in Msg
      BY Zenon, <2>1, TailFacts
    <3> QED BY <3>1, KeyDispatcherAssumption DEF Msg
  <2> QED BY Zenon, <2>1, <2>2, TailFacts
<1>3. /\ new \in [key : Key \cup {0}, msgCh : Seq(Msg), hand : 0 .. MaxMsg, state : WorkerState]
      /\ new.key = worker[w].key /\ new.msgCh = Tail(s) /\ new.hand = m
      /\ new.state = IF worker[w].state = "run" THEN "handling" ELSE "draining"
  <2> HIDE DEF s, m
  <2> QED BY ZenonT(40), <1>0, <1>2 DEF WorkerState
<1> HIDE DEF new, m
<1>4. worker'[w] = new /\ \A v \in Worker \ {w} : worker'[v] = worker[v]
  BY Zenon, <1>0, <1>1
<1>5. /\ handled' \in Seq(Msg)
      /\ \A h \in DOMAIN handled' : \/ h \in DOMAIN handled /\ handled'[h] = handled[h]
                                    \/ h = Len(handled) + 1 /\ handled'[h] = m
      /\ \A h \in DOMAIN handled : h < Len(handled) + 1 /\ h \in Nat /\ h \in DOMAIN handled' /\ handled'[h] = handled[h]
      /\ Len(handled) + 1 \in DOMAIN handled' /\ handled'[Len(handled) + 1] = m /\ Len(handled) \in Nat
  BY SMTT(40), <1>0, <1>1, <1>2, AppendFacts
<1>6. /\ worker[w].key \in Key /\ workers[worker[w].key] = w /\ Registered(w) /\ Ordered(w) /\ HandledInOrder
  BY Zenon, <1>0 DEF KeysInv, Registered, Works
<1>7. /\ key[m] = worker[w].key /\ m < Position
      /\ \A h \in DOMAIN handled : key[handled[h]] = worker[w].key => handled[h] < m
      /\ \A i \in DOMAIN Tail(s) : m < Tail(s)[i]
  <2>1. /\ key[s[1]] = worker[w].key /\ s[1] < Position
        /\ \A h \in DOMAIN handled : key[handled[h]] = worker[w].key => handled[h] < s[1]
        /\ \A j \in DOMAIN s : 1 < j => s[1] < s[j]
    BY ZenonT(40), <1>2, <1>6 DEF Ordered
  <2> HIDE DEF s
  <2> QED BY ZenonT(40), <1>2, <2>1
<1>8. KeysTypeOK'
  <2>1. worker' \in [Worker -> [key : Key \cup {0}, msgCh : Seq(Msg), hand : 0 .. MaxMsg, state : WorkerState]]
    BY Zenon, <1>0, <1>1, <1>3
  <2> QED BY ZenonT(40), <1>0, <1>5, <2>1 DEF KeysInv, KeysTypeOK
<1>9. ASSUME NEW v \in Worker PROVE Registered(v)'
  <2>1. CASE v = w
    <3>1. \E h \in DOMAIN handled' : handled'[h] = m
      BY Zenon, <1>5
    <3> QED BY ZenonT(40), <1>0, <1>3, <1>4, <1>6, <2>1, <3>1 DEF Registered, Works
  <2>2. CASE v # w
    <3>1. worker'[v] = worker[v] /\ Registered(v) /\ (Works(v)' <=> Works(v))
      BY ZenonT(40), <1>4, <2>2 DEF KeysInv, Works
    <3>2. worker[v].hand # 0 => worker[v].state \in {"handling", "draining"} /\ \E h \in DOMAIN handled' : handled'[h] = worker[v].hand
      BY ZenonT(40), <1>5, <3>1 DEF Registered
    <3>3. /\ Works(v)' => worker[v].key \in Key /\ workers[worker[v].key] = v
          /\ worker[v].state \in {"none", "leaving"} => worker[v].msgCh = <<>>
          /\ worker[v].state \in {"drain", "draining"} => closing
      BY Zenon, <3>1 DEF Registered
    <3> QED BY ZenonT(40), <1>0, <3>1, <3>2, <3>3 DEF Registered
  <2> QED BY Zenon, <2>1, <2>2
<1>10. ASSUME NEW k \in Key PROVE EntryOwned(k)'
  <2>1. EntryOwned(k) /\ (workers[k] # 0 => workers[k] \in Worker)
    BY ZenonT(40), KeysTypes DEF KeysInv
  <2>2. worker'[w].key = worker[w].key /\ worker'[w].state \notin {"none", "leaving"}
    BY ZenonT(40), <1>3, <1>4
  <2> QED BY ZenonT(40), <1>0, <1>4, <2>1, <2>2 DEF EntryOwned
<1>11. ASSUME NEW v \in Worker \ {w} PROVE Ordered(v)'
  <2>1. worker'[v] = worker[v] /\ Ordered(v)
    BY Zenon, <1>4 DEF KeysInv
  <2>2. worker[v].msgCh # <<>> => worker[v].key # worker[w].key
    <3>1. worker[v].msgCh # <<>> => Works(v)
      BY SMTT(40) DEF KeysInv, KeysTypeOK, Registered, Works, WorkerState
    <3> QED BY ZenonT(30), <1>6, <3>1 DEF KeysInv, Registered
  <2>3. \A i \in DOMAIN worker[v].msgCh, h \in DOMAIN handled' :
          key[handled'[h]] = worker[v].key => handled'[h] < worker[v].msgCh[i]
    BY SMTT(40), <1>5, <1>7, <2>1, <2>2 DEF Ordered
  <2> QED BY ZenonT(40), <1>0, <2>1, <2>3 DEF Ordered
<1>12. Ordered(w)'
  <2>1. worker'[w].msgCh = Tail(s) /\ worker'[w].key = worker[w].key
    BY ZenonT(40), <1>3, <1>4
  <2>2. /\ \A i \in DOMAIN s : key[s[i]] = worker[w].key /\ s[i] < Position
        /\ \A i, j \in DOMAIN s : i < j => s[i] < s[j]
        /\ \A i \in DOMAIN s, h \in DOMAIN handled : key[handled[h]] = worker[w].key => handled[h] < s[i]
    BY ZenonT(40), <1>6 DEF Ordered
  <2> HIDE DEF s
  <2>3. /\ \A i \in DOMAIN Tail(s) : key[Tail(s)[i]] = worker[w].key /\ Tail(s)[i] < Position
        /\ \A i, j \in DOMAIN Tail(s) : i < j => Tail(s)[i] < Tail(s)[j]
    BY SMTT(40), <1>2, <2>2
  <2>4. \A i \in DOMAIN Tail(s), h \in DOMAIN handled' : key[handled'[h]] = worker[w].key => handled'[h] < Tail(s)[i]
    BY SMTT(30), <1>2, <1>5, <1>7, <2>2
  <2>5. /\ \A i \in DOMAIN worker'[w].msgCh : key'[worker'[w].msgCh[i]] = worker'[w].key /\ worker'[w].msgCh[i] < Position'
        /\ \A i, j \in DOMAIN worker'[w].msgCh : i < j => worker'[w].msgCh[i] < worker'[w].msgCh[j]
    BY Zenon, <1>0, <2>1, <2>3
  <2>6. \A i \in DOMAIN worker'[w].msgCh, h \in DOMAIN handled' :
          key'[handled'[h]] = worker'[w].key => handled'[h] < worker'[w].msgCh[i]
    BY Zenon, <1>0, <2>1, <2>4
  <2> QED BY Zenon, <2>5, <2>6 DEF Ordered
<1>13. HandledInOrder'
  <2>1. \A h \in DOMAIN handled' : handled'[h] < Position'
    BY ZenonT(40), <1>0, <1>5, <1>6, <1>7 DEF HandledInOrder
  <2>2. ASSUME NEW i \in DOMAIN handled', NEW j \in DOMAIN handled', i < j, key[handled'[i]] = key[handled'[j]]
        PROVE  handled'[i] < handled'[j]
    <3>1. i \in DOMAIN handled /\ handled'[i] = handled[i]
      BY SMTT(40), <1>5, <2>2
    <3> QED BY ZenonT(40), <1>5, <1>6, <1>7, <2>2, <3>1 DEF HandledInOrder
  <2> QED BY Zenon, <1>0, <2>1, <2>2 DEF HandledInOrder
<1> QED BY ZenonT(40), <1>0, <1>8, <1>9, <1>10, <1>11, <1>12, <1>13 DEF KeysInv

\* Every step of the dispatcher keeps the channels and the history in order.
LEMMA KeysStep == KeysInv /\ [KeysNext]_keysVars => KeysInv'
<1>1. SUFFICES ASSUME KeysInv, [KeysNext]_keysVars PROVE KeysInv'
  OBVIOUS
<1>2. CASE UNCHANGED keysVars
  <2>1. UNCHANGED <<key, pull, workers, worker, closing, handled>>
    BY Zenon, <1>2 DEF keysVars
  <2>2. KeysTypeOK' /\ Position' = Position /\ Position \in Nat
    BY Zenon, <1>1, <2>1, KeysTypes DEF KeysInv, KeysTypeOK, Position
  <2> QED BY <1>1, <2>1, <2>2, PullKeeps DEF KeysInv
<1>3. CASE \E w \in Worker : Runs(w) \/ IdleExit(w)
  BY Zenon, <1>1, <1>3, ReceiveKeeps, ProcessKeeps, LeavingKeeps DEF Runs
<1> QED BY Zenon, <1>1, <1>2, <1>3, PullSteps, CreateKeeps DEF KeysNext, Closed

\* The invariant says what FIFOWithinKey asks for: two workers with a message
\* in hand are each the one in the map.
LEMMA KeysFIFO == KeysInv => FIFOWithinKey
<1>1. SUFFICES ASSUME KeysInv PROVE FIFOWithinKey
  OBVIOUS
<1>2. \A w \in Worker : worker[w].hand # 0 => worker[w].key \in Key /\ workers[worker[w].key] = w
  BY Zenon, <1>1 DEF KeysInv, Registered, Works
<1> QED BY SMTT(40), <1>1, <1>2 DEF FIFOWithinKey, KeysInv, HandledInOrder

Holds(w, m) == m = worker[w].hand \/ \E i \in DOMAIN worker[w].msgCh : worker[w].msgCh[i] = m
WasHandled(m) == \E h \in DOMAIN handled : handled[h] = m

\* What a worker holds it holds after the step, or it was handled: a worker
\* that leaves has an empty channel and empty hands.
LEMMA HeldStays ==
    ASSUME KeysInv, KeysNext, NEW w \in Worker, NEW m \in Msg, Holds(w, m)
    PROVE  Holds(w, m)' \/ WasHandled(m)'
<1>0. /\ worker \in [Worker -> [key : Key \cup {0}, msgCh : Seq(Msg), hand : 0 .. MaxMsg, state : WorkerState]]
      /\ worker[w] \in [key : Key \cup {0}, msgCh : Seq(Msg), hand : 0 .. MaxMsg, state : WorkerState]
      /\ handled \in Seq(Msg) /\ Registered(w) /\ m # 0
  BY SMTT(40), KeyDispatcherAssumption DEF KeysInv, KeysTypeOK, Msg
<1>1. worker[w] # NoWorker /\ worker[w].state # "leaving"
  BY <1>0 DEF Holds, Registered, NoWorker
<1>2. CASE worker' = worker
  BY Zenon, <1>2 DEF Holds
<1>3. CASE Dispatch
  <2>1. worker' = worker \/ \E v : v = workers[key[pull.msg]] /\ v # 0 /\ worker' = Sent(v, pull.msg) /\ pull.at = "send"
    BY Zenon, <1>3 DEF Dispatch
  <2>2. ASSUME NEW v \in Worker \ {w}, worker' = Sent(v, pull.msg) PROVE worker'[w] = worker[w]
    BY Zenon, <1>0, <2>2 DEF Sent
  <2>3. CASE worker' = Sent(w, pull.msg) /\ pull.at = "send"
    <3>1. worker' = [worker EXCEPT ![w] = [worker[w] EXCEPT !.msgCh = Append(worker[w].msgCh, pull.msg)]]
      BY Zenon, <1>0, <2>3 DEF Sent
    <3>2. worker'[w] = [worker[w] EXCEPT !.msgCh = Append(worker[w].msgCh, pull.msg)]
      BY Zenon, <1>0, <3>1
    <3>3. worker'[w].hand = worker[w].hand /\ worker'[w].msgCh = Append(worker[w].msgCh, pull.msg)
      BY Zenon, <1>0, <3>2
    <3>4. pull.msg \in Msg
      BY Zenon, <2>3 DEF KeysInv, KeysTypeOK
    <3>5. \A i \in DOMAIN worker[w].msgCh : i \in DOMAIN worker'[w].msgCh /\ worker'[w].msgCh[i] = worker[w].msgCh[i]
      BY SMTT(40), <1>0, <3>3, <3>4, AppendFacts
    <3> QED BY Zenon, <3>3, <3>5 DEF Holds
  <2>4. pull.at = "send" /\ workers[key[pull.msg]] # 0 => workers[key[pull.msg]] \in Worker
    BY Zenon, KeysTypes DEF KeysInv, KeysTypeOK
  <2> QED BY ZenonT(40), <1>2, <2>1, <2>2, <2>3, <2>4 DEF Holds
<1>4. CASE getOrCreateWorker
  <2>1. worker' = worker \/ \E v \in Worker : \E new : worker[v] = NoWorker /\ worker' = [worker EXCEPT ![v] = new]
    BY Zenon, <1>4 DEF getOrCreateWorker
  <2>2. worker'[w] = worker[w]
    BY ZenonT(40), <1>0, <1>1, <2>1
  <2> QED BY Zenon, <2>2 DEF Holds
<1>5. ASSUME NEW v \in Worker, v # w, Runs(v) \/ IdleExit(v) PROVE Holds(w, m)'
  <2>1. worker'[w] = worker[w]
    BY Zenon, <1>0, <1>5 DEF Runs, IdleExit, Receive, processMessage, drainWorker, DrainEnds, removeWorker
  <2> QED BY Zenon, <2>1 DEF Holds
<1>6. CASE drainWorker(w) \/ DrainEnds(w) \/ IdleExit(w)
  <2>1. \E st : worker' = [worker EXCEPT ![w] = [worker[w] EXCEPT !.state = st]]
    BY Zenon, <1>0, <1>6 DEF drainWorker, DrainEnds, IdleExit
  <2>2. worker'[w].hand = worker[w].hand /\ worker'[w].msgCh = worker[w].msgCh
    BY Zenon, <1>0, <2>1
  <2> QED BY Zenon, <2>2 DEF Holds
<1>7. CASE processMessage(w)
  <2>1. PICK st : worker' = [worker EXCEPT ![w] = [worker[w] EXCEPT !.hand = 0, !.state = st]]
    BY Zenon, <1>0, <1>7 DEF processMessage
  <2>2. worker'[w].msgCh = worker[w].msgCh /\ handled' = handled
    BY <1>0, <1>7, <2>1 DEF processMessage
  <2> QED BY Zenon, <1>0, <2>2 DEF Holds, Registered, WasHandled
<1>8. CASE Receive(w)
  <2> DEFINE s == worker[w].msgCh
  <2>1. /\ worker[w].state \in {"run", "drain"} /\ s # <<>> /\ s \in Seq(Msg) /\ handled' = Append(handled, Head(s))
        /\ \E st : worker' = [worker EXCEPT ![w] = [worker[w] EXCEPT !.msgCh = Tail(s), !.hand = Head(s), !.state = st]]
    BY Zenon, <1>0, <1>8 DEF Receive
  <2>2. worker'[w].msgCh = Tail(s) /\ worker[w].hand = 0
    BY SMTT(40), <1>0, <2>1 DEF Registered
  <2>3. PICK i \in DOMAIN s : s[i] = m
    BY Zenon, <1>0, <2>2 DEF Holds
  <2> HIDE DEF s
  <2>4. CASE i = 1
    <3>1. Head(s) = m
      BY <2>1, <2>3, <2>4
    <3>2. Len(handled) + 1 \in DOMAIN handled' /\ handled'[Len(handled) + 1] = m
      BY SMTT(40), <1>0, <2>1, <3>1, AppendFacts
    <3> QED BY Zenon, <3>2 DEF WasHandled
  <2>5. CASE i # 1
    <3>1. i - 1 \in DOMAIN Tail(s) /\ Tail(s)[i - 1] = m
      BY <2>1, <2>3, <2>5
    <3> QED BY Zenon, <2>2, <3>1 DEF Holds
  <2> QED BY Zenon, <2>4, <2>5
<1>9. CASE DispatchRetries \/ LoopCancelled \/ CloseKeys \/ Closed
  BY Zenon, <1>2, <1>9 DEF DispatchRetries, LoopCancelled, CloseKeys, Closed, keysVars
<1>10. ~removeWorker(w)
  BY Zenon, <1>1 DEF removeWorker
<1> QED BY Zenon, <1>3, <1>4, <1>5, <1>6, <1>7, <1>8, <1>9, <1>10 DEF KeysNext, Runs

\* So nothing that was accepted is lost.
LEMMA AcceptedStays == KeysInv /\ [KeysNext]_keysVars => Accepted \subseteq Accepted' \cup Handled'
<1>1. SUFFICES ASSUME KeysInv, [KeysNext]_keysVars, NEW m \in Accepted PROVE m \in Accepted' \/ m \in Handled'
  OBVIOUS
<1>2. PICK w \in Worker : m \in {worker[w].hand} \cup {worker[w].msgCh[i] : i \in DOMAIN worker[w].msgCh}
  BY Zenon, <1>1 DEF Accepted
<1>3. Holds(w, m) /\ m # 0
  <2>1. m # 0
    BY Zenon, <1>1 DEF Accepted
  <2> QED BY Zenon, <1>2, <2>1 DEF Holds
<1>4. m \in Msg
  <2>1. worker[w].hand \in 0 .. MaxMsg /\ \A i \in DOMAIN worker[w].msgCh : worker[w].msgCh[i] \in Msg
    BY Zenon, <1>1, KeysTypes DEF KeysInv, KeysTypeOK
  <2> QED BY SMTT(40), <1>3, <2>1, KeyDispatcherAssumption DEF Holds, Msg
<1>5. Holds(w, m)' \/ WasHandled(m)'
  <2>1. CASE UNCHANGED keysVars
    BY Zenon, <1>3, <2>1 DEF keysVars, Holds
  <2> QED BY Zenon, <1>1, <1>3, <1>4, <2>1, HeldStays
<1>6. CASE Holds(w, m)'
  <2>1. m \in {worker'[w].hand} \cup {worker'[w].msgCh[i] : i \in DOMAIN worker'[w].msgCh}
    BY Zenon, <1>6 DEF Holds
  <2>2. m \in UNION {{worker'[v].hand} \cup {worker'[v].msgCh[i] : i \in DOMAIN worker'[v].msgCh} : v \in Worker}
    BY Zenon, <2>1
  <2> QED BY Zenon, <1>3, <2>2 DEF Accepted
<1>7. CASE WasHandled(m)'
  BY Zenon, <1>7 DEF WasHandled, Handled
<1> QED BY Zenon, <1>5, <1>6, <1>7


-----------------------------------------------------------------------------
(* The theorems *)

\* The subject map and the loops' goroutines agree, after failed, timed-out and
\* repeated updates alike (WorkerConsumer.UpdateWorkerConsumer, Close).
THEOREM MapAndLoopsAgree == WorkerSpec => []MapMatchesLoops
BY LoopsStart, LoopsStep, LoopsMatch, PTL DEF WorkerSpec

\* The dispatcher's invariant.
LEMMA KeysInvariant == KeysSpec => []KeysInv
BY KeysStart, KeysStep, PTL DEF KeysSpec

\* Messages of one key are handled one at a time and in the order they were
\* delivered, across the workers that come and go for the key
\* (KeyDispatcher.Dispatch, runWorker).
THEOREM KeyOrderIsKept == KeysSpec => []FIFOWithinKey
BY KeysInvariant, KeysFIFO, PTL

\* A message that Dispatch put into a channel is never lost, not by a worker
\* that decides to leave nor by Close (runWorker, drainWorker, removeWorker);
\* that the channels drain is left to the model checker.
THEOREM AcceptedIsNeverLost == KeysSpec => [][Accepted \subseteq Accepted' \cup Handled']_keysVars
<1>1. KeysInv /\ [KeysNext]_keysVars => [Accepted \subseteq Accepted' \cup Handled']_keysVars   BY Zenon, AcceptedStays
<1> QED BY <1>1, KeysInvariant, PTL DEF KeysSpec

-----------------------------------------------------------------------------
(* Recovery: where the durable, the checkpoint and the acknowledgements    *)
(* stand to the messages that were passed.                                 *)

Detouring == {"hook", "reset", "seed", "build"}
Stream == [inc : Nat, up : BOOLEAN, n : Nat, by : {"operator", "hook"}]
Durable == [ok : BOOLEAN, start : Nat \ {0}, acked : SUBSET Nat, high : Nat, policy : {"all", "new", "seq"}]
Ack == [step : {"none", "held", "passed"}, seq : Nat, inc : Nat, epoch : Nat]

PullTypes ==
    /\ conf \in [kind : Kind, strategy : Strategy, hook : BOOLEAN, manual : BOOLEAN]
    /\ stream \in Stream /\ durable \in Durable /\ ack \in Ack
    /\ pc \in {"iter", "pull", "done"} \cup Detouring
    /\ checkpoint \in Nat /\ streamEpoch \in Nat /\ recreatedSinceLastBuild \in BOOLEAN
    /\ streamMissingFailures \in Nat /\ misses \in Nat
    /\ done \in SUBSET Nat /\ stale \in BOOLEAN

\* While there is a durable there is nothing to repair: its stream exists, the
\* loop is in no detour and the budget of the detours is whole.
NothingToRepair == durable.ok => stream.up /\ pc \notin Detouring /\ streamMissingFailures = 0

\* Each failure of the budget is one since the last message.
BudgetCounts == streamMissingFailures <= misses

\* What a durable leaves out, by its delivery policy.
LeavesOut ==
    durable.ok =>
        /\ durable.policy = "all" => durable.start = 1
        /\ conf.strategy = "all" => durable.policy = "all"
        /\ ~stale /\ durable.policy = "seq" => durable.start - 1 \in done

\* The checkpoint is a message that was passed, or below the start of a durable
\* of new messages.
CheckpointPassed ==
    ~stale /\ stream.up /\ pc # "reset" =>
        \/ checkpoint = 0 \/ checkpoint \in done
        \/ durable.ok /\ durable.policy = "new" /\ checkpoint < durable.start

\* An acknowledgement under way that the fence lets pass is of this stream.
AckIsOfStream ==
    /\ ack.epoch <= streamEpoch
    /\ ~stale /\ stream.up /\ ack.step # "none" /\ ack.epoch = streamEpoch =>
           ack.inc = stream.inc /\ (ack.step = "passed" => ack.seq \in done)

PullInv == PullTypes /\ NothingToRepair /\ BudgetCounts /\ LeavesOut /\ CheckpointPassed /\ AckIsOfStream

\* The larger of two numbers.
LEMMA MaxOfTwo ==
    ASSUME NEW a \in Int, NEW b \in Int
    PROVE  Max({a, b}) \in {a, b} /\ Max({a, b}) >= a /\ Max({a, b}) >= b
<1>1. \E x \in {a, b} : \A y \in {a, b} : x >= y   OBVIOUS
<1> QED BY <1>1 DEF Max

\* The smaller of two numbers.
LEMMA MinOfTwo ==
    ASSUME NEW a \in Int, NEW b \in Int
    PROVE  Min({a, b}) \in {a, b}
<1>1. \E x \in {a, b} : \A y \in {a, b} : x <= y   OBVIOUS
<1> QED BY <1>1 DEF Min

\* Seed and Advance: the checkpoint afterwards is the old one or the new.
LEMMA RaisedIs == ASSUME PullTypes, NEW s \in Nat PROVE Raised(s) \in {checkpoint, s} /\ Raised(s) >= s /\ Raised(s) >= checkpoint
<1>1. checkpoint \in Nat   BY Zenon DEF PullTypes
<1> QED BY <1>1, MaxOfTwo DEF Raised

\* What a stream is after it changed.
LEMMA StreamChange ==
    ASSUME NEW x \in Stream
    PROVE  /\ [x EXCEPT !.n = @ + 1] \in Stream
           /\ [x EXCEPT !.up = FALSE, !.n = 0] \in Stream
           /\ \A by \in {"operator", "hook"} : [x EXCEPT !.up = TRUE, !.inc = @ + 1, !.by = by] \in Stream
<1>1. x.n + 1 \in Nat /\ x.inc + 1 \in Nat   BY DEF Stream
<1>2. [x EXCEPT !.n = x.n + 1] \in Stream   BY Zenon, <1>1 DEF Stream
<1>3. [x EXCEPT !.up = FALSE, !.n = 0] \in Stream   BY Zenon DEF Stream
<1>4. ASSUME NEW by \in {"operator", "hook"} PROVE [x EXCEPT !.up = TRUE, !.inc = x.inc + 1, !.by = by] \in Stream
  BY Zenon, <1>1 DEF Stream
<1> QED BY Zenon, <1>2, <1>3, <1>4

\* A durable after a delivery or an ack: its start and its policy stay.
SameButFor(x, y) == y \in Durable /\ y.ok = x.ok /\ y.start = x.start /\ y.policy = x.policy

\* An ack leaves the start and the policy of a durable alone.
LEMMA DurableAcks ==
    ASSUME NEW x \in Durable, NEW a \in SUBSET Nat PROVE SameButFor(x, [x EXCEPT !.acked = a])
<1>1. [x EXCEPT !.acked = a] \in Durable   BY Zenon DEF Durable
<1> QED BY Zenon, <1>1 DEF Durable, SameButFor

\* So does a delivery.
LEMMA DurableDelivers ==
    ASSUME NEW x \in Durable, NEW h \in Nat PROVE SameButFor(x, [x EXCEPT !.high = h])
<1>1. [x EXCEPT !.high = h] \in Durable   BY Zenon DEF Durable
<1> QED BY Zenon, <1>1 DEF Durable, SameButFor

\* And a delivery that acknowledges.
LEMMA DurableDeliversAcks ==
    ASSUME NEW x \in Durable, NEW a \in SUBSET Nat, NEW h \in Nat
    PROVE  SameButFor(x, [x EXCEPT !.acked = a, !.high = h])
<1>1. [x EXCEPT !.acked = a, !.high = h] \in Durable   BY Zenon DEF Durable
<1> QED BY Zenon, <1>1 DEF Durable, SameButFor

\* The invariant holds initially.
LEMMA PullInvInit == RecoveryInit => PullInv
<1> SUFFICES ASSUME RecoveryInit PROVE PullInv   OBVIOUS
<1>1. conf \in [kind : Kind, strategy : Strategy, hook : BOOLEAN, manual : BOOLEAN]   BY DEF RecoveryInit
<1>2. durable = [ok |-> TRUE, start |-> 1, acked |-> {}, high |-> 0, policy |-> "all"]   BY Zenon DEF RecoveryInit, Gone
<1>3. PullTypes
  <2>1. durable \in Durable   BY <1>2 DEF Durable
  <2>2. stream \in Stream   BY DEF RecoveryInit, Stream
  <2>3. ack \in Ack   BY DEF RecoveryInit, Ack, NoAck
  <2> QED BY Zenon, <1>1, <2>1, <2>2, <2>3 DEF RecoveryInit, PullTypes
<1>4. NothingToRepair /\ BudgetCounts   BY <1>2 DEF RecoveryInit, NothingToRepair, BudgetCounts, Detouring
<1>5. LeavesOut   BY <1>2 DEF LeavesOut
<1> QED BY <1>3, <1>4, <1>5 DEF PullInv, RecoveryInit, CheckpointPassed, AckIsOfStream, NoAck

\* A step of the loop that leaves the server, the checkpoint and the messages
\* alone.
LEMMA LoopMoves ==
    ASSUME PullInv, UNCHANGED <<conf, stream, durable, checkpoint, streamEpoch, ack, done, stale>>,
           recreatedSinceLastBuild' \in BOOLEAN, pc' \in {"iter", "pull", "done"} \cup Detouring,
           pc # "reset" \/ pc' = "reset", streamMissingFailures' \in Nat, misses' \in Nat,
           durable.ok => pc' \notin Detouring /\ streamMissingFailures' = 0,
           streamMissingFailures' <= misses'
    PROVE  PullInv'
<1>1. PullTypes'   BY DEF PullInv, PullTypes
<1>2. NothingToRepair' /\ BudgetCounts'   BY DEF PullInv, NothingToRepair, BudgetCounts
<1>3. LeavesOut' /\ AckIsOfStream'   BY DEF PullInv, LeavesOut, AckIsOfStream
<1>4. CheckpointPassed'   BY DEF PullInv, CheckpointPassed
<1> QED BY <1>1, <1>2, <1>3, <1>4 DEF PullInv

\* CreateOrUpdateConsumer of a durable that was gone.
LEMMA Created ==
    ASSUME PullInv, ~durable.ok, stream.up, NEW policy \in {"all", "new", "seq"}, Create(policy),
           policy = "seq" => checkpoint > 0, conf.strategy = "all" => policy = "all",
           UNCHANGED <<conf, stream, streamEpoch, ack, done, stale>>,
           checkpoint' = checkpoint \/ checkpoint' = Raised(durable'.start - 1),
           recreatedSinceLastBuild' \in BOOLEAN, pc # "reset", pc' \in {"iter", "pull", "done"},
           streamMissingFailures' = 0, misses' \in Nat
    PROVE  PullInv'
<1>0. PullTypes   BY DEF PullInv
<1>a. checkpoint \in Nat /\ stream \in Stream /\ done \in SUBSET Nat   BY Zenon, <1>0 DEF PullTypes
<1>b. stream.n \in Nat   BY <1>a DEF Stream
<1>1. StartOf(policy) \in Nat \ {0} /\ (policy = "all" => StartOf(policy) = 1)
      /\ (policy = "new" => StartOf(policy) = stream.n + 1) /\ (policy = "seq" => StartOf(policy) = checkpoint + 1)
  BY <1>a, <1>b DEF StartOf
<1>2. durable' = [ok |-> TRUE, start |-> StartOf(policy), acked |-> {}, high |-> StartOf(policy) - 1, policy |-> policy]
  BY ZenonT(30) DEF Create, Gone
<1>3. checkpoint' \in Nat /\ (checkpoint' = checkpoint \/ (policy = "new" /\ checkpoint' < StartOf(policy)))
  <2>1. durable'.start = StartOf(policy)   BY <1>2
  <2>2. checkpoint' = checkpoint \/ checkpoint' = Raised(StartOf(policy) - 1)   BY Zenon, <2>1
  <2>3. StartOf(policy) - 1 \in Nat   BY <1>1
  <2>4. /\ Raised(StartOf(policy) - 1) \in {checkpoint, StartOf(policy) - 1}
        /\ Raised(StartOf(policy) - 1) >= checkpoint
    BY Zenon, <1>0, <2>3, RaisedIs
  <2> QED BY <1>a, <1>1, <2>2, <2>3, <2>4
<1>4. durable' \in Durable   BY <1>1, <1>2 DEF Durable
<1>5. PullTypes'
  <2>1. streamMissingFailures' \in Nat   OBVIOUS
  <2> QED BY Zenon, <1>0, <1>3, <1>4, <2>1 DEF PullTypes
<1>6. NothingToRepair' /\ BudgetCounts'   BY <1>2 DEF NothingToRepair, BudgetCounts, Detouring
<1>7. ~stale => checkpoint = 0 \/ checkpoint \in done   BY DEF PullInv, CheckpointPassed
<1>8. LeavesOut'
  <2>1. durable'.policy = policy /\ durable'.start = StartOf(policy)   BY <1>2
  <2>2. ~stale /\ policy = "seq" => StartOf(policy) - 1 \in done   BY <1>a, <1>1, <1>7
  <2> QED BY <1>1, <2>1, <2>2 DEF LeavesOut
<1>9. CheckpointPassed'   BY SMTT(30), <1>2, <1>3, <1>7 DEF CheckpointPassed
<1>10. AckIsOfStream'   BY DEF PullInv, AckIsOfStream
<1> QED BY <1>5, <1>6, <1>8, <1>9, <1>10 DEF PullInv

-----------------------------------------------------------------------------
(* The server and the operator *)

\* A message is published.
LEMMA PublishesKeeps == ASSUME PullInv, Publishes PROVE PullInv'
<1>0. PullTypes   BY DEF PullInv
<1>1. stream \in Stream   BY Zenon, <1>0 DEF PullTypes
<1>2. stream' \in Stream /\ stream'.up = stream.up /\ stream'.inc = stream.inc
  <2>1. stream' = [stream EXCEPT !.n = @ + 1]   BY Zenon DEF Publishes
  <2> QED BY <1>1, <2>1 DEF Stream
<1>3. UNCHANGED <<conf, durable, ack, pc, checkpoint, streamEpoch, recreatedSinceLastBuild, streamMissingFailures, misses, done, stale>>
  BY DEF Publishes, ctl, pulling, hist
<1>4. PullTypes'   BY Zenon, <1>0, <1>2, <1>3 DEF PullTypes
<1>5. NothingToRepair' /\ BudgetCounts' /\ LeavesOut'   BY <1>2, <1>3 DEF PullInv, NothingToRepair, BudgetCounts, LeavesOut
<1>6. CheckpointPassed' /\ AckIsOfStream'   BY <1>2, <1>3 DEF PullInv, CheckpointPassed, AckIsOfStream
<1> QED BY <1>4, <1>5, <1>6 DEF PullInv

\* The durable is deleted: what a durable of new messages left out counts as
\* passed from now on.
LEMMA DeletedKeeps == ASSUME PullInv, ConsumerDeleted PROVE PullInv'
<1>0. PullTypes   BY DEF PullInv
<1>1. durable.start \in Nat   BY <1>0 DEF PullTypes, Durable
<1>2. durable' = Gone /\ Gone \in Durable /\ ~durable'.ok   BY DEF ConsumerDeleted, Gone, Durable
<1>3. UNCHANGED <<conf, stream, ack, pc, checkpoint, streamEpoch, recreatedSinceLastBuild, streamMissingFailures, misses, stale>>
  BY DEF ConsumerDeleted, ctl, pulling
<1>4. done' \in SUBSET Nat /\ done \subseteq done'
  <2>1. done \in SUBSET Nat   BY Zenon, <1>0 DEF PullTypes
  <2>2. done' \in {done, done \cup 1 .. durable.start - 1}   BY Zenon DEF ConsumerDeleted
  <2> QED BY <1>1, <2>1, <2>2
<1>5. PullTypes'   BY Zenon, <1>0, <1>2, <1>3, <1>4 DEF PullTypes
<1>6. NothingToRepair' /\ BudgetCounts' /\ LeavesOut'   BY <1>2, <1>3 DEF PullInv, NothingToRepair, BudgetCounts, LeavesOut
<1>7. CheckpointPassed'
  <2>1. checkpoint \in Nat   BY Zenon, <1>0 DEF PullTypes
  <2>2. durable.policy = "new" /\ checkpoint < durable.start /\ checkpoint # 0 => checkpoint \in done'
    BY <1>1, <2>1 DEF ConsumerDeleted
  <2> QED BY Zenon, <1>3, <1>4, <2>2 DEF PullInv, CheckpointPassed
<1>8. AckIsOfStream'   BY Zenon, <1>3, <1>4 DEF PullInv, AckIsOfStream
<1> QED BY <1>5, <1>6, <1>7, <1>8 DEF PullInv

\* The stream is deleted or recreated by somebody else.
LEMMA StreamGoesKeeps == ASSUME PullInv, StreamDeleted \/ StreamRecreatedElsewhere PROVE PullInv'
<1>0. PullTypes /\ ack \in Ack   BY Zenon DEF PullInv, PullTypes
<1>1. stream \in Stream   BY Zenon, <1>0 DEF PullTypes
<1>2. stream' \in Stream
  <2>1. \/ stream' = [stream EXCEPT !.up = FALSE, !.n = 0]
        \/ stream' = [stream EXCEPT !.up = TRUE, !.inc = @ + 1, !.by = "operator"]
    BY Zenon DEF StreamDeleted, StreamRecreatedElsewhere
  <2> QED BY Zenon, <1>1, <2>1, StreamChange
<1>3. UNCHANGED <<conf, ack, pc, checkpoint, streamEpoch, recreatedSinceLastBuild, streamMissingFailures, misses>>
  BY DEF StreamDeleted, StreamRecreatedElsewhere, ctl, pulling
<1>4. durable' \in Durable /\ ~durable'.ok
  <2>1. CASE StreamDeleted   BY <2>1 DEF StreamDeleted, Gone, Durable
  <2>2. CASE StreamRecreatedElsewhere
    <3>1. durable' = durable /\ ~stream.up   BY <2>2 DEF StreamRecreatedElsewhere
    <3>2. ~durable.ok   BY <3>1 DEF PullInv, NothingToRepair
    <3> QED BY Zenon, <1>0, <3>1, <3>2 DEF PullTypes
  <2> QED BY <2>1, <2>2
<1>5. done' \in SUBSET Nat /\ stale' \in BOOLEAN
  BY Zenon, <1>0 DEF StreamDeleted, StreamRecreatedElsewhere, PullTypes
<1>6. PullTypes'   BY ZenonT(30), <1>0, <1>2, <1>3, <1>4, <1>5 DEF PullTypes
<1>7. NothingToRepair' /\ BudgetCounts' /\ LeavesOut'   BY <1>3, <1>4 DEF PullInv, NothingToRepair, BudgetCounts, LeavesOut
<1>8. ~stale' /\ stream'.up => checkpoint' = 0 /\ ack'.step = "none"
  <2>1. checkpoint \in Nat   BY Zenon, <1>0 DEF PullTypes
  <2>2. CASE StreamDeleted   BY <1>1, <2>2 DEF StreamDeleted, Stream
  <2>3. CASE StreamRecreatedElsewhere
    <3>1. stale' = (stale \/ checkpoint > 0 \/ ack # NoAck)   BY Zenon, <2>3 DEF StreamRecreatedElsewhere
    <3>2. ~stale' => ~(checkpoint > 0) /\ ack = NoAck   BY Zenon, <3>1
    <3>3. NoAck.step = "none" /\ (~(checkpoint > 0) => checkpoint = 0)   BY <2>1 DEF NoAck
    <3> QED BY Zenon, <1>3, <3>2, <3>3
  <2> QED BY <2>2, <2>3
<1>9. CheckpointPassed' /\ AckIsOfStream'   BY <1>3, <1>8 DEF PullInv, CheckpointPassed, AckIsOfStream
<1> QED BY <1>6, <1>7, <1>9 DEF PullInv

-----------------------------------------------------------------------------
(* Messages and acknowledgements *)

\* What is delivered is a message of the durable.
LEMMA DeliveredIs == ASSUME PullTypes, NEW s \in Deliverable PROVE s \in Nat
<1>1. stream \in Stream /\ durable \in Durable   BY Zenon DEF PullTypes
<1>2. stream.n \in Nat /\ durable.high \in Nat /\ durable.start \in Nat   BY <1>1 DEF Stream, Durable
<1>3. Min({stream.n, durable.high + 1}) \in Int   BY <1>2, MinOfTwo
<1>4. s \in durable.start .. Min({stream.n, durable.high + 1})   BY Zenon DEF Deliverable
<1> QED BY <1>2, <1>3, <1>4

\* A message is passed: a step that only adds to what is done and may raise the
\* checkpoint to a message that is done.
LEMMA PassedKeeps ==
    ASSUME PullInv, UNCHANGED <<conf, stream, streamEpoch, recreatedSinceLastBuild, pc, streamMissingFailures>>,
           durable' \in Durable, durable'.ok = durable.ok, durable'.start = durable.start, durable'.policy = durable.policy,
           done' \in SUBSET Nat, done \subseteq done', stale => stale', stale' \in BOOLEAN,
           checkpoint' \in Nat, ~stale' /\ stream.up /\ pc # "reset" => checkpoint' = checkpoint \/ checkpoint' \in done',
           misses' = misses \/ (misses' = 0 /\ durable.ok),
           ack' \in Ack, AckIsOfStream'
    PROVE  PullInv'
<1>0. PullTypes   BY DEF PullInv
<1>a. misses \in Nat   BY Zenon, <1>0 DEF PullTypes
<1>1. misses' \in Nat   BY <1>a
<1>2. PullTypes'   BY Zenon, <1>0, <1>1 DEF PullTypes
<1>3. NothingToRepair'   BY Zenon DEF PullInv, NothingToRepair
<1>4. BudgetCounts'   BY DEF PullInv, NothingToRepair, BudgetCounts
<1>5. LeavesOut'   BY Zenon DEF PullInv, LeavesOut
<1>6. CheckpointPassed'   BY DEF PullInv, CheckpointPassed
<1> QED BY <1>2, <1>3, <1>4, <1>5, <1>6 DEF PullInv

\* A message is delivered and acked, or refused, or kept for a later ack.
LEMMA ReturnsKeeps == ASSUME PullInv, NextReturns PROVE PullInv'
<1>0. PullTypes /\ durable \in Durable /\ ack \in Ack /\ stream \in Stream   BY Zenon DEF PullInv, PullTypes
<1>1. UNCHANGED <<conf, stream, streamEpoch, recreatedSinceLastBuild, pc, streamMissingFailures, stale>> /\ misses' = 0 /\ durable.ok
  BY DEF NextReturns, pulling
<1>2. checkpoint \in Nat /\ streamEpoch \in Nat /\ done \in SUBSET Nat /\ stale \in BOOLEAN   BY Zenon, <1>0 DEF PullTypes
<1>3. PICK s \in Deliverable :
         \/ /\ durable' = [durable EXCEPT !.acked = @ \cup {s}, !.high = Max({@, s})]
            /\ done' = done \cup {s} /\ checkpoint' \in {Raised(s), checkpoint} /\ ack' = ack
         \/ /\ durable' = [durable EXCEPT !.high = Max({@, s})]
            /\ UNCHANGED <<ack, done, checkpoint>>
         \/ /\ durable' = [durable EXCEPT !.high = Max({@, s})]
            /\ ack' = [step |-> "held", seq |-> s, inc |-> stream.inc, epoch |-> streamEpoch]
            /\ UNCHANGED <<done, checkpoint>>
  BY Zenon DEF NextReturns
<1>4. s \in Nat   BY <1>0, DeliveredIs
<1>5. Max({durable.high, s}) \in Nat
  <2>1. durable.high \in Nat   BY <1>0 DEF Durable
  <2>2. durable.high \in Int /\ s \in Int   BY <1>4, <2>1
  <2> QED BY Zenon, <1>4, <2>1, <2>2, MaxOfTwo
<1>6. durable' \in Durable /\ durable'.ok = durable.ok /\ durable'.start = durable.start /\ durable'.policy = durable.policy
  <2> DEFINE a == durable.acked \cup {s}
             h == Max({durable.high, s})
             d1 == [durable EXCEPT !.acked = a, !.high = h]
             d2 == [durable EXCEPT !.high = h]
  <2>1. a \in SUBSET Nat   BY <1>0, <1>4 DEF Durable
  <2>2. h \in Nat   BY Zenon, <1>5
  <2>3. durable' \in {d1, d2}   BY Zenon, <1>3
  <2> HIDE DEF a, h
  <2>4. SameButFor(durable, d1)   BY Zenon, <1>0, <2>1, <2>2, DurableDeliversAcks
  <2>5. SameButFor(durable, d2)   BY Zenon, <1>0, <2>2, DurableDelivers
  <2> HIDE DEF d1, d2
  <2> QED BY Zenon, <2>3, <2>4, <2>5 DEF SameButFor
<1>7. done' \in SUBSET Nat /\ done \subseteq done'   BY Zenon, <1>2, <1>3, <1>4
<1>8. checkpoint' = checkpoint \/ (checkpoint' = s /\ s \in done')   BY Zenon, <1>0, <1>3, <1>4, RaisedIs
<1>9. ack' \in Ack /\ AckIsOfStream'
  <2>1. CASE ack' = ack   BY Zenon, <1>0, <1>1, <1>7, <2>1 DEF PullInv, AckIsOfStream
  <2>2. CASE ack' = [step |-> "held", seq |-> s, inc |-> stream.inc, epoch |-> streamEpoch]
    <3>1. stream.inc \in Nat   BY <1>0 DEF Stream
    <3>2. ack' \in Ack   BY <1>2, <1>4, <2>2, <3>1 DEF Ack
    <3>3. ack'.step = "held" /\ ack'.inc = stream.inc /\ ack'.epoch = streamEpoch   BY <2>2
    <3> QED BY <1>1, <1>2, <3>2, <3>3 DEF AckIsOfStream
  <2> QED BY Zenon, <1>3, <2>1, <2>2
<1>10. checkpoint' \in Nat   BY Zenon, <1>2, <1>4, <1>8
<1> QED BY Zenon, <1>1, <1>2, <1>6, <1>7, <1>8, <1>9, <1>10, PassedKeeps

\* AckSent: the server takes the ack and the fence compares the epochs.
LEMMA AckSentKeeps == ASSUME PullInv, AckSent PROVE PullInv'
<1>0. PullTypes /\ durable \in Durable /\ ack \in Ack   BY Zenon DEF PullInv, PullTypes
<1>1. UNCHANGED <<conf, stream, streamEpoch, recreatedSinceLastBuild, pc, streamMissingFailures, stale, misses, checkpoint>>
      /\ ack.step = "held"
  BY DEF AckSent, pulling, ctl
<1>2. checkpoint \in Nat /\ done \in SUBSET Nat /\ stale \in BOOLEAN   BY Zenon, <1>0 DEF PullTypes
<1>3. ack.seq \in Nat   BY <1>0 DEF Ack
<1>4. durable' \in Durable /\ durable'.ok = durable.ok /\ durable'.start = durable.start /\ durable'.policy = durable.policy
  <2> DEFINE a == durable.acked \cup {ack.seq}
             d == [durable EXCEPT !.acked = a]
  <2>1. a \in SUBSET Nat   BY <1>0, <1>3 DEF Durable
  <2>2. durable' \in {durable, d}   BY Zenon DEF AckSent
  <2> HIDE DEF a
  <2>3. SameButFor(durable, d)   BY Zenon, <1>0, <2>1, DurableAcks
  <2> HIDE DEF d
  <2> QED BY Zenon, <1>0, <2>2, <2>3 DEF SameButFor
<1>5. done' = IF ack.inc = stream.inc /\ stream.up THEN done \cup {ack.seq} ELSE done   BY Zenon DEF AckSent
<1>6. done' \in SUBSET Nat /\ done \subseteq done'   BY Zenon, <1>2, <1>3, <1>5
<1>7. ack' \in Ack /\ AckIsOfStream'
  <2>1. CASE SameEpoch
    <3>1. ack' = [ack EXCEPT !.step = "passed"]   BY Zenon, <2>1 DEF AckSent
    <3>2. ack' \in Ack /\ ack'.seq = ack.seq /\ ack'.inc = ack.inc /\ ack'.epoch = ack.epoch   BY Zenon, <1>0, <3>1 DEF Ack
    <3>3. ~stale /\ stream.up /\ ack.epoch = streamEpoch => ack.inc = stream.inc   BY Zenon, <1>1 DEF PullInv, AckIsOfStream
    <3>4. ack.epoch <= streamEpoch   BY Zenon DEF PullInv, AckIsOfStream
    <3> QED BY Zenon, <1>1, <1>5, <3>2, <3>3, <3>4 DEF AckIsOfStream
  <2>2. CASE ~SameEpoch
    <3>1. ack' = NoAck /\ NoAck \in Ack /\ NoAck.step = "none" /\ NoAck.epoch = 0   BY <2>2 DEF AckSent, NoAck, Ack
    <3>2. 0 <= streamEpoch'   BY <1>0, <1>1 DEF PullTypes
    <3> QED BY Zenon, <3>1, <3>2 DEF AckIsOfStream
  <2> QED BY <2>1, <2>2
<1> QED BY Zenon, <1>1, <1>2, <1>4, <1>6, <1>7, PassedKeeps

\* AdvanceCheckpoint, after its fence: the checkpoint may be raised to a message
\* of an earlier stream only when the epoch has moved since.
LEMMA AckAdvancesKeeps == ASSUME PullInv, AckAdvances PROVE PullInv'
<1>0. PullTypes /\ ack \in Ack /\ durable \in Durable   BY Zenon DEF PullInv, PullTypes
<1>1. UNCHANGED <<conf, stream, durable, streamEpoch, recreatedSinceLastBuild, pc, streamMissingFailures, misses, done>>
      /\ ack.step = "passed" /\ checkpoint' = Raised(ack.seq) /\ ack' = NoAck
      /\ stale' = (stale \/ ack.epoch # streamEpoch)
  BY DEF AckAdvances, pulling, server
<1>2. done \in SUBSET Nat /\ stale \in BOOLEAN /\ checkpoint \in Nat /\ streamEpoch \in Nat   BY Zenon, <1>0 DEF PullTypes
<1>3. ack.seq \in Nat   BY <1>0 DEF Ack
<1>4. checkpoint' \in {checkpoint, ack.seq}   BY Zenon, <1>0, <1>1, <1>3, RaisedIs
<1>5. stale' \in BOOLEAN /\ (stale => stale') /\ (~stale' => ~stale /\ ack.epoch = streamEpoch)   BY Zenon, <1>1, <1>2
<1>6. ~stale' /\ stream.up => ack.seq \in done   BY Zenon, <1>1, <1>5 DEF PullInv, AckIsOfStream
<1>7. ack' \in Ack /\ ack'.step = "none" /\ ack'.epoch = 0   BY <1>1 DEF NoAck, Ack
<1>8. AckIsOfStream'
  <2>1. 0 <= streamEpoch   BY <1>2
  <2> QED BY Zenon, <1>1, <1>7, <2>1 DEF AckIsOfStream
<1>9. checkpoint' \in Nat   BY Zenon, <1>2, <1>3, <1>4
<1> QED BY Zenon, <1>0, <1>1, <1>2, <1>4, <1>5, <1>6, <1>7, <1>8, <1>9, PassedKeeps

-----------------------------------------------------------------------------
(* The loop *)

\* Clocks, and the steps of the loop between two calls.
LEMMA QuietKeeps ==
    ASSUME PullInv, CooldownEnds \/ WindowPasses \/ IteratorCreated \/ UNCHANGED recoveryVars PROVE PullInv'
<1>0. PullTypes   BY DEF PullInv
<1>1. UNCHANGED <<conf, stream, durable, checkpoint, streamEpoch, ack, done, stale, recreatedSinceLastBuild,
                  streamMissingFailures, misses>>
  BY DEF CooldownEnds, WindowPasses, IteratorCreated, recoveryVars, server, ctl, pulling, hist
<1>2. pc' = pc \/ (pc = "iter" /\ pc' = "pull")
  BY DEF CooldownEnds, WindowPasses, IteratorCreated, recoveryVars, pulling
<1>3. recreatedSinceLastBuild' \in BOOLEAN /\ streamMissingFailures' \in Nat /\ misses' \in Nat
      /\ pc' \in {"iter", "pull", "done"} \cup Detouring
  BY Zenon, <1>0, <1>1, <1>2 DEF PullTypes
<1>4. durable.ok => pc' \notin Detouring /\ streamMissingFailures' = 0
  BY Zenon, <1>1, <1>2 DEF PullInv, NothingToRepair, Detouring
<1>5. streamMissingFailures' <= misses'   BY Zenon, <1>1 DEF PullInv, BudgetCounts
<1> QED BY Zenon, <1>1, <1>2, <1>3, <1>4, <1>5, LoopMoves

\* The budgets: the loop gives up only after MaxAttempts failures.
LEMMA DetourCounts ==
    ASSUME PullInv, ~durable.ok, DetourFailed
    PROVE  /\ pc' \in {"iter", "done"} /\ streamMissingFailures' \in Nat /\ misses' \in Nat
           /\ streamMissingFailures' <= misses' /\ BudgetStep
<1>1. streamMissingFailures \in Nat /\ misses \in Nat   BY Zenon DEF PullInv, PullTypes
<1>2. streamMissingFailures <= misses   BY Zenon DEF PullInv, BudgetCounts
<1>3. CASE AttemptFailed /\ UNCHANGED <<streamMissingFailures, misses>>
  BY <1>1, <1>2, <1>3 DEF AttemptFailed, Exhausted, Again, BudgetStep
<1>4. CASE handleStreamMissingFailure
  BY <1>1, <1>2, <1>4, MaxAttemptsAssumption DEF handleStreamMissingFailure, Exhausted, Again, BudgetStep
<1> QED BY Zenon, <1>3, <1>4 DEF DetourFailed

\* The detour fails: without a hook, in the hook, or in the rebuild.
LEMMA DetourFailsKeeps == ASSUME PullInv, HookFailed \/ RebuildFailed PROVE PullInv' /\ BudgetStep
<1>0. PullTypes /\ pc \in {"hook", "build"} /\ DetourFailed   BY Zenon DEF PullInv, HookFailed, RebuildFailed
<1>1. UNCHANGED <<conf, stream, durable, checkpoint, streamEpoch, ack, done, stale>>
  BY Zenon DEF HookFailed, RebuildFailed, server, ctl
<1>2. recreatedSinceLastBuild' \in BOOLEAN   BY Zenon, <1>0 DEF HookFailed, RebuildFailed, ctl, PullTypes
<1>3. ~durable.ok   BY Zenon, <1>0 DEF PullInv, NothingToRepair, Detouring
<1>4. /\ pc' \in {"iter", "done"} /\ streamMissingFailures' \in Nat /\ misses' \in Nat
      /\ streamMissingFailures' <= misses' /\ BudgetStep
  BY Zenon, <1>0, <1>3, DetourCounts
<1>5. pc # "reset" /\ pc' \in {"iter", "pull", "done"} \cup Detouring   BY Zenon, <1>0, <1>4
<1> QED BY Zenon, <1>1, <1>2, <1>3, <1>4, <1>5, LoopMoves

\* The hook recreated the stream: until the checkpoint is reset, nothing is
\* known of it, and no acknowledgement under way passes the fence.
LEMMA HookSucceededKeeps == ASSUME PullInv, HookSucceeded PROVE PullInv'
<1>0. PullTypes /\ stream \in Stream /\ ack \in Ack /\ streamEpoch \in Nat   BY Zenon DEF PullInv, PullTypes
<1>1. UNCHANGED <<conf, durable, checkpoint, recreatedSinceLastBuild, ack, done, stale, streamMissingFailures, misses>>
      /\ streamEpoch' = streamEpoch + 1 /\ pc = "hook" /\ pc' = "reset"
  BY DEF HookSucceeded, hist
<1>2. stream' \in Stream   BY Zenon, <1>0, StreamChange DEF HookSucceeded
<1>3. ~durable.ok   BY Zenon, <1>1 DEF PullInv, NothingToRepair, Detouring
<1>4. ack.epoch \in Nat /\ ack.epoch <= streamEpoch   BY <1>0 DEF Ack, PullInv, AckIsOfStream
<1>5. streamEpoch' \in Nat /\ ack.epoch < streamEpoch'   BY <1>0, <1>1, <1>4
<1>6. PullTypes'   BY Zenon, <1>0, <1>1, <1>2, <1>5 DEF PullTypes, Detouring
<1>7. NothingToRepair' /\ BudgetCounts' /\ LeavesOut' /\ CheckpointPassed'
  BY ZenonT(30), <1>1, <1>3 DEF PullInv, NothingToRepair, BudgetCounts, LeavesOut, CheckpointPassed
<1>8. AckIsOfStream'   BY <1>1, <1>4, <1>5 DEF AckIsOfStream
<1> QED BY Zenon, <1>6, <1>7, <1>8 DEF PullInv

\* The checkpoint is dropped.
LEMMA CheckpointResetKeeps == ASSUME PullInv, CheckpointReset PROVE PullInv'
<1>0. PullTypes   BY DEF PullInv
<1>1. UNCHANGED <<conf, stream, durable, streamEpoch, recreatedSinceLastBuild, ack, done, stale, streamMissingFailures, misses>>
      /\ checkpoint' = 0 /\ pc = "reset" /\ pc' = "seed"
  BY DEF CheckpointReset, ResetForStreamRecreate, hist, server
<1>2. ~durable.ok   BY Zenon, <1>1 DEF PullInv, NothingToRepair, Detouring
<1>3. checkpoint' \in Nat   BY <1>1
<1>4. PullTypes'   BY Zenon, <1>0, <1>1, <1>3 DEF PullTypes, Detouring
<1>5. NothingToRepair' /\ BudgetCounts' /\ LeavesOut' /\ CheckpointPassed' /\ AckIsOfStream'
  BY Zenon, <1>1, <1>2 DEF PullInv, NothingToRepair, BudgetCounts, LeavesOut, CheckpointPassed, AckIsOfStream
<1> QED BY Zenon, <1>4, <1>5 DEF PullInv

\* There is no durable to seed the checkpoint from.
LEMMA CheckpointSeededKeeps == ASSUME PullInv, CheckpointSeeded PROVE PullInv'
<1>0. PullTypes   BY DEF PullInv
<1>1. UNCHANGED <<conf, stream, durable, streamEpoch, ack, done, stale, streamMissingFailures, misses>>
      /\ recreatedSinceLastBuild' = TRUE /\ pc = "seed" /\ pc' = "build" /\ SeedCheckpoint
  BY DEF CheckpointSeeded, hist, server
<1>2. ~durable.ok   BY Zenon, <1>1 DEF PullInv, NothingToRepair, Detouring
<1>3. checkpoint' = checkpoint   BY Zenon, <1>1, <1>2 DEF SeedCheckpoint
<1>4. streamMissingFailures' \in Nat /\ misses' \in Nat /\ streamMissingFailures' <= misses'
  BY Zenon, <1>0, <1>1 DEF PullTypes, PullInv, BudgetCounts
<1>5. pc # "reset" /\ pc' \in {"iter", "pull", "done"} \cup Detouring /\ recreatedSinceLastBuild' \in BOOLEAN
  BY Zenon, <1>1 DEF Detouring
<1> QED BY Zenon, <1>1, <1>2, <1>3, <1>4, <1>5, LoopMoves

\* BuildConfig: the policies of a recreated durable.
LEMMA PolicyIs ==
    ASSUME PullTypes, NEW r \in BOOLEAN
    PROVE  /\ BuildConfig(r) \in {"all", "new", "seq"}
           /\ BuildConfig(r) = "seq" => checkpoint > 0
           /\ conf.strategy = "all" => BuildConfig(r) = "all"
BY DEF BuildConfig

\* The loop backs off.
LEMMA BacksOffKeeps ==
    ASSUME PullInv, pc # "reset", NEW f, BacksOff(f),
           UNCHANGED <<conf, stream, streamEpoch, recreatedSinceLastBuild, ack, done, stale>>
    PROVE  PullInv' /\ BudgetStep
<1>1. UNCHANGED <<durable, checkpoint, streamMissingFailures, misses, permanent>> /\ pc' = "iter"   BY Zenon DEF BacksOff, Again
<1>2. PullTypes /\ streamMissingFailures <= misses   BY Zenon DEF PullInv, BudgetCounts
<1>3. recreatedSinceLastBuild' \in BOOLEAN /\ streamMissingFailures' \in Nat /\ misses' \in Nat   BY Zenon, <1>1, <1>2 DEF PullTypes
<1>4. durable.ok => pc' \notin Detouring /\ streamMissingFailures' = 0
  BY Zenon, <1>1 DEF PullInv, NothingToRepair, Detouring
<1>5. pc' \in {"iter", "pull", "done"} \cup Detouring /\ streamMissingFailures' <= misses'   BY Zenon, <1>1, <1>2
<1>6. PullInv'   BY Zenon, <1>1, <1>3, <1>4, <1>5, LoopMoves
<1> QED BY Zenon, <1>1, <1>6 DEF BudgetStep

\* The stream is gone and the detour begins.
LEMMA MissingKeeps ==
    ASSUME PullInv, pc # "reset", ~stream.up, NEW f, ActionStreamMissing(f),
           UNCHANGED <<conf, stream, streamEpoch, recreatedSinceLastBuild, ack, done, stale>>
    PROVE  PullInv' /\ BudgetStep
<1>1. CASE BacksOff(f)   BY Zenon, <1>1, BacksOffKeeps
<1>2. CASE pc' = "hook" /\ UNCHANGED <<durable, streamMissingFailures, permanent, misses, checkpoint>>
  <2>1. ~durable.ok   BY Zenon DEF PullInv, NothingToRepair
  <2>2. PullTypes /\ streamMissingFailures <= misses   BY Zenon DEF PullInv, BudgetCounts
  <2>3. recreatedSinceLastBuild' \in BOOLEAN /\ streamMissingFailures' \in Nat /\ misses' \in Nat   BY Zenon, <1>2, <2>2 DEF PullTypes
  <2>4. pc' \in {"iter", "pull", "done"} \cup Detouring /\ streamMissingFailures' <= misses'   BY Zenon, <1>2, <2>2 DEF Detouring
  <2>5. PullInv'   BY Zenon, <1>2, <2>1, <2>3, <2>4, LoopMoves
  <2> QED BY Zenon, <1>2, <2>5 DEF BudgetStep
<1> QED BY Zenon, <1>1, <1>2 DEF ActionStreamMissing

\* recover: the durable is created with the strategy's policy.
LEMMA RecoverKeeps ==
    ASSUME PullInv, pc = "pull", ~durable.ok, NEW f, recover(f),
           UNCHANGED <<conf, stream, streamEpoch, recreatedSinceLastBuild, ack, done, stale>>
    PROVE  PullInv' /\ BudgetStep
<1>0. PullTypes /\ pc # "reset"   BY Zenon DEF PullInv
<1>1. CASE BacksOff(f)   BY Zenon, <1>0, <1>1, BacksOffKeeps
<1>2. CASE ~stream.up /\ ActionStreamMissing(f)   BY Zenon, <1>0, <1>2, MissingKeeps
<1>3. CASE stream.up /\ Create(BuildConfig(FALSE)) /\ ActionContinue
  <2>1. /\ BuildConfig(FALSE) \in {"all", "new", "seq"} /\ (BuildConfig(FALSE) = "seq" => checkpoint > 0)
        /\ (conf.strategy = "all" => BuildConfig(FALSE) = "all")
    BY Zenon, <1>0, PolicyIs
  <2>2. /\ streamMissingFailures' = 0 /\ pc' = "iter" /\ UNCHANGED <<permanent, misses>>
        /\ checkpoint' = checkpoint \/ checkpoint' = Raised(durable'.start - 1)
    BY Zenon, <1>3 DEF ActionContinue, ResetsStreamMissingFailures, Again
  <2>3. recreatedSinceLastBuild' \in BOOLEAN /\ misses' \in Nat /\ pc' \in {"iter", "pull", "done"}
    BY Zenon, <1>0, <2>2 DEF PullTypes
  <2>4. PullInv'   BY Zenon, <1>0, <1>3, <2>1, <2>2, <2>3, Created
  <2> QED BY Zenon, <2>2, <2>4 DEF BudgetStep
<1> QED BY Zenon, <1>1, <1>2, <1>3 DEF recover

\* The escalation leaves the durable alone or binds it again.
LEMMA Escalation ==
    ASSUME PullInv, pc \in {"iter", "pull"},
           durable' = durable \/ (~durable.ok /\ stream.up /\ Create("all") /\ streamMissingFailures' = 0),
           UNCHANGED <<conf, stream, checkpoint, streamEpoch, recreatedSinceLastBuild, ack, done, stale, misses>>,
           pc' \in {"iter", "done"}, streamMissingFailures' \in {streamMissingFailures, 0}
    PROVE  PullInv'
<1>1. PullTypes /\ streamMissingFailures <= misses /\ pc # "reset"   BY Zenon DEF PullInv, BudgetCounts
<1>2. recreatedSinceLastBuild' \in BOOLEAN /\ streamMissingFailures \in Nat /\ misses \in Nat   BY Zenon, <1>1 DEF PullTypes
<1>3. streamMissingFailures' \in Nat /\ misses' \in Nat /\ streamMissingFailures' <= misses'   BY <1>1, <1>2
<1>4. CASE durable' = durable
  <2>1. durable.ok => pc' \notin Detouring /\ streamMissingFailures' = 0
    BY Zenon DEF PullInv, NothingToRepair, Detouring
  <2> QED BY Zenon, <1>1, <1>2, <1>3, <1>4, <2>1, LoopMoves
<1>5. CASE ~durable.ok /\ stream.up /\ Create("all") /\ streamMissingFailures' = 0
  BY Zenon, <1>1, <1>2, <1>3, <1>5, Created
<1> QED BY Zenon, <1>4, <1>5

\* maybeEscalateIteratorFailures creates the durable only in a stream that exists.
LEMMA EscalationIs ==
    ASSUME maybeEscalateIteratorFailures
    PROVE  /\ durable' = durable \/ (~durable.ok /\ stream.up /\ Escalates /\ Create("all") /\ durable'.ok)
           /\ ~stream.up => durable' = durable
<1>1. CASE ~(Escalates /\ stream.up /\ Takes("all"))   BY Zenon, <1>1 DEF maybeEscalateIteratorFailures
<1>2. CASE Escalates /\ stream.up /\ Create("all")
  <2>1. ~durable.ok => durable'.ok   BY <1>2 DEF Create, Gone
  <2>2. durable.ok => durable' = durable   BY Zenon, <1>2 DEF Create
  <2> QED BY Zenon, <1>2, <2>1, <2>2
<1> QED BY Zenon, <1>1, <1>2 DEF maybeEscalateIteratorFailures

\* One more attempt failed: the loop gives up only when it was the last.
LEMMA AttemptCounts == ASSUME AttemptFailed PROVE pc' \in {"iter", "done"} /\ BudgetStep
BY Zenon DEF AttemptFailed, Exhausted, Again, BudgetStep

\* Creating the iterator fails.
LEMMA IteratorFailedKeeps == ASSUME PullInv, IteratorFailed PROVE PullInv' /\ BudgetStep
<1>0. PullTypes /\ pc = "iter"   BY Zenon DEF PullInv, IteratorFailed
<1>1. UNCHANGED <<conf, stream, checkpoint, streamEpoch, recreatedSinceLastBuild, ack, done, stale, misses>>
  BY Zenon DEF IteratorFailed, ctl, hist
<1>2. CASE UNCHANGED <<pulling, durable>>
  <2>1. UNCHANGED <<durable, pc, streamMissingFailures, permanent>>   BY <1>2 DEF pulling
  <2> QED BY Zenon, <1>0, <1>1, <2>1, Escalation DEF BudgetStep
<1>3. CASE maybeEscalateIteratorFailures /\ EscalationSaysMissing /\ pc' = "hook" /\ UNCHANGED <<streamMissingFailures, permanent>>
  <2>1. ~stream.up /\ durable' = durable   BY Zenon, <1>3, EscalationIs DEF EscalationSaysMissing
  <2>2. ~durable.ok /\ streamMissingFailures <= misses   BY Zenon, <2>1 DEF PullInv, NothingToRepair, BudgetCounts
  <2>3. recreatedSinceLastBuild' \in BOOLEAN /\ streamMissingFailures' \in Nat /\ misses' \in Nat
    BY Zenon, <1>0, <1>1, <1>3 DEF PullTypes
  <2>4. pc # "reset" /\ pc' \in {"iter", "pull", "done"} \cup Detouring /\ streamMissingFailures' <= misses'
    BY Zenon, <1>0, <1>1, <1>3, <2>2 DEF Detouring
  <2>5. PullInv'   BY Zenon, <1>1, <2>1, <2>2, <2>3, <2>4, LoopMoves
  <2> QED BY Zenon, <1>3, <2>5 DEF BudgetStep
<1>4. CASE /\ maybeEscalateIteratorFailures /\ AttemptFailed
           /\ streamMissingFailures' = IF Escalates /\ (durable.ok \/ durable'.ok) THEN 0 ELSE streamMissingFailures
  <2>1. durable' = durable \/ (~durable.ok /\ stream.up /\ Create("all") /\ streamMissingFailures' = 0)
    BY Zenon, <1>4, EscalationIs
  <2>2. streamMissingFailures' \in {streamMissingFailures, 0}   BY Zenon, <1>4
  <2> QED BY Zenon, <1>0, <1>1, <1>4, <2>1, <2>2, Escalation, AttemptCounts
<1> QED BY Zenon, <1>2, <1>3, <1>4 DEF IteratorFailed

\* Without recovery: the escalation, or one more failure of the budget.
LEMMA WithoutRecoveryKeeps ==
    ASSUME PullInv, pc = "pull", HandleWithoutRecovery,
           UNCHANGED <<conf, stream, streamEpoch, recreatedSinceLastBuild, ack, done, stale>>
    PROVE  PullInv' /\ BudgetStep
<1>0. PullTypes /\ pc # "reset"   BY Zenon DEF PullInv
<1>1. CASE BacksOff(failures)   BY Zenon, <1>0, <1>1, BacksOffKeeps
<1>2. CASE maybeEscalateIteratorFailures /\ EscalationSaysMissing /\ handleStreamMissingFailure /\ checkpoint' = checkpoint
  <2>1. ~stream.up /\ durable' = durable   BY Zenon, <1>2, EscalationIs DEF EscalationSaysMissing
  <2>2. ~durable.ok /\ streamMissingFailures <= misses   BY Zenon, <2>1 DEF PullInv, NothingToRepair, BudgetCounts
  <2>3. recreatedSinceLastBuild' \in BOOLEAN /\ streamMissingFailures \in Nat /\ misses \in Nat   BY Zenon, <1>0 DEF PullTypes
  <2>4. streamMissingFailures' = streamMissingFailures + 1 /\ misses' = misses + 1   BY Zenon, <1>2 DEF handleStreamMissingFailure
  <2>5. streamMissingFailures' \in Nat /\ misses' \in Nat /\ streamMissingFailures' <= misses'   BY <2>2, <2>3, <2>4
  <2>6. pc' \in {"iter", "pull", "done"} \cup Detouring   BY Zenon, <1>2 DEF handleStreamMissingFailure, Exhausted, Again
  <2>7. PullInv'   BY ZenonT(30), <1>0, <1>2, <2>1, <2>2, <2>3, <2>5, <2>6, LoopMoves
  <2>8. streamMissingFailures + 1 >= MaxAttempts => misses' >= MaxAttempts   BY <2>2, <2>3, <2>4, MaxAttemptsAssumption
  <2>9. BudgetStep   BY Zenon, <1>2, <2>8 DEF handleStreamMissingFailure, Exhausted, Again, BudgetStep
  <2> QED BY <2>7, <2>9
<1>3. CASE /\ maybeEscalateIteratorFailures /\ Again /\ UNCHANGED <<misses, checkpoint>>
           /\ streamMissingFailures' = IF Escalates /\ durable'.ok THEN 0 ELSE streamMissingFailures
  <2>1. durable' = durable \/ (~durable.ok /\ stream.up /\ Create("all") /\ streamMissingFailures' = 0)
    BY Zenon, <1>3, EscalationIs
  <2>2. streamMissingFailures' \in {streamMissingFailures, 0} /\ pc' \in {"iter", "done"} /\ permanent' = permanent
    BY Zenon, <1>3 DEF Again
  <2> QED BY Zenon, <1>3, <2>1, <2>2, Escalation DEF BudgetStep
<1> QED BY Zenon, <1>1, <1>2, <1>3 DEF HandleWithoutRecovery

\* Next returns an error.
LEMMA NextFailedKeeps == ASSUME PullInv, NextFailed \/ NextFailedSpuriously PROVE PullInv' /\ BudgetStep
<1>1. UNCHANGED <<conf, stream, streamEpoch, recreatedSinceLastBuild, ack, done, stale>> /\ pc = "pull" /\ pc # "reset"
  BY Zenon DEF NextFailed, NextFailedSpuriously
<1>2. CASE HandleWithoutRecovery   BY Zenon, <1>1, <1>2, WithoutRecoveryKeeps
<1>3. CASE BacksOff(failures) \/ BacksOff(Recorded)   BY Zenon, <1>1, <1>3, BacksOffKeeps
<1>4. CASE ~durable.ok /\ (recover(failures) \/ recover(Recorded))   BY Zenon, <1>1, <1>4, RecoverKeeps
<1>5. CASE ~stream.up /\ ActionStreamMissing(Recorded)   BY Zenon, <1>1, <1>5, MissingKeeps
<1> QED BY Zenon, <1>2, <1>3, <1>4, <1>5 DEF NextFailed, NextFailedSpuriously, ClassifyHeartbeat

\* RebuildAfterStreamRecreated creates the durable.
LEMMA RebuiltKeeps == ASSUME PullInv, Rebuilt PROVE PullInv' /\ BudgetStep
<1>0. PullTypes /\ pc = "build" /\ recreatedSinceLastBuild \in BOOLEAN /\ misses \in Nat   BY Zenon DEF PullInv, PullTypes, Rebuilt
<1>1. UNCHANGED <<conf, stream, checkpoint, streamEpoch, ack, done, stale, misses>>   BY Zenon DEF Rebuilt, hist
<1>2. stream.up /\ Create(BuildConfig(recreatedSinceLastBuild)) /\ streamMissingFailures' = 0 /\ recreatedSinceLastBuild' = FALSE
  BY Zenon DEF Rebuilt
<1>3. ~durable.ok   BY Zenon, <1>0 DEF PullInv, NothingToRepair, Detouring
<1>4. pc' \in {"iter", "pull", "done"} /\ BudgetStep   BY Zenon, AttemptCounts DEF Rebuilt, Again, BudgetStep
<1>5. PICK p : p = BuildConfig(recreatedSinceLastBuild)   OBVIOUS
<1>6. p \in {"all", "new", "seq"} /\ (p = "seq" => checkpoint > 0) /\ (conf.strategy = "all" => p = "all")
  BY Zenon, <1>0, <1>5, PolicyIs
<1>7. Create(p)   BY Zenon, <1>2, <1>5
<1> QED BY Zenon, <1>0, <1>1, <1>2, <1>3, <1>4, <1>6, <1>7, Created

\* The actions that leave the budgets alone.
LEMMA PermanentStays ==
    ASSUME \/ Publishes \/ ConsumerDeleted \/ StreamDeleted \/ StreamRecreatedElsewhere \/ NextReturns \/ AckSent
           \/ AckAdvances \/ CooldownEnds \/ WindowPasses \/ IteratorCreated \/ HookSucceeded \/ CheckpointReset
           \/ CheckpointSeeded \/ UNCHANGED recoveryVars
    PROVE  BudgetStep
BY Zenon DEF Publishes, ConsumerDeleted, StreamDeleted, StreamRecreatedElsewhere, NextReturns, AckSent, AckAdvances,
   CooldownEnds, WindowPasses, IteratorCreated, HookSucceeded, CheckpointReset, CheckpointSeeded, recoveryVars, pulling,
   BudgetStep

\* Every step keeps the invariant and the budget.
LEMMA PullStep == ASSUME PullInv, [RecoveryNext]_recoveryVars PROVE PullInv' /\ BudgetStep
<1>1. CASE Publishes \/ ConsumerDeleted \/ StreamDeleted \/ StreamRecreatedElsewhere
  BY Zenon, <1>1, PublishesKeeps, DeletedKeeps, StreamGoesKeeps, PermanentStays
<1>2. CASE NextReturns \/ AckSent \/ AckAdvances
  BY Zenon, <1>2, ReturnsKeeps, AckSentKeeps, AckAdvancesKeeps, PermanentStays
<1>3. CASE CooldownEnds \/ WindowPasses \/ IteratorCreated \/ UNCHANGED recoveryVars
  BY Zenon, <1>3, QuietKeeps, PermanentStays
<1>4. CASE HookSucceeded \/ CheckpointReset \/ CheckpointSeeded
  BY Zenon, <1>4, HookSucceededKeeps, CheckpointResetKeeps, CheckpointSeededKeeps, PermanentStays
<1>5. CASE HookFailed \/ RebuildFailed \/ Rebuilt \/ IteratorFailed \/ NextFailed \/ NextFailedSpuriously
  BY Zenon, <1>5, DetourFailsKeeps, RebuiltKeeps, IteratorFailedKeeps, NextFailedKeeps
<1>6. Loop => PullLoop \/ NextReturns \/ Detour
  BY Zenon DEF Loop, QueueRunLoop, QueueProcessIterator, BroadcastRunLoop, BroadcastProcessIterator, StaticRun,
     StaticProcessIterator, PartitionRun, PartitionProcessIterator
<1> QED BY Zenon, <1>1, <1>2, <1>3, <1>4, <1>5, <1>6 DEF RecoveryNext, PullEnvironment, PullLoop, Detour, Idle

\* The invariant gives the property.
LEMMA SkipsArePassed == PullInv => SkipsOnlyPassed
<1> SUFFICES ASSUME PullInv, durable.ok, ~stale
             PROVE  /\ conf.strategy = "all" => Skipped = {}
                    /\ conf.strategy = "last" /\ durable.policy # "new" => \A s \in Skipped : Passed(s)
  BY Zenon DEF SkipsOnlyPassed
<1>1. durable.start \in Nat /\ durable.policy \in {"all", "new", "seq"}   BY DEF PullInv, PullTypes, Durable
<1>2. LeavesOut   BY DEF PullInv
<1>3. durable.policy = "all" => Skipped = {}   BY <1>1, <1>2 DEF LeavesOut, Skipped
<1>4. ASSUME durable.policy = "seq", NEW s \in Skipped PROVE Passed(s)
  <2>1. durable.start - 1 \in done   BY Zenon, <1>2, <1>4 DEF LeavesOut
  <2>2. s \in 1 .. durable.start - 1 /\ s \notin done   BY Zenon DEF Skipped
  <2>3. s # durable.start - 1   BY Zenon, <2>1, <2>2
  <2>4. durable.start - 1 > s   BY <1>1, <2>2, <2>3
  <2> QED BY Zenon, <2>1, <2>4 DEF Passed
<1> QED BY Zenon, <1>1, <1>2, <1>3, <1>4 DEF LeavesOut

\* A durable that recovery creates leaves out only messages that were passed,
\* and the loop gives up only after a full budget of failures without a message
\* in between, for every length of the stream, every budget and any number of
\* incarnations and faults (BuildConfig, SeedCheckpoint, AdvanceCheckpoint,
\* ResetForStreamRecreate, handleStreamMissingFailure).
THEOREM RecoveryLeavesOutOnlyPassed == RecoverySpec => []SkipsOnlyPassed /\ [][BudgetStep]_recoveryVars
<1>1. PullInv /\ [RecoveryNext]_recoveryVars => PullInv' /\ [BudgetStep]_recoveryVars   BY PullStep
<1> QED BY <1>1, PullInvInit, SkipsArePassed, PTL DEF RecoverySpec
=============================================================================
