--------------------------- MODULE KeyDispatcher ---------------------------
(***************************************************************************)
(* The per-key dispatcher of the static consumer                           *)
(* (internal/ipartition/key_dispatcher.go): the pull loop sends each       *)
(* message to the worker of its key, workers come and go, and Close drains *)
(* them after the loop has stopped (JSConsumer.Stop).                      *)
(*                                                                         *)
(* kd.mu is not a variable: a step that the code takes under it is one     *)
(* action.                                                                 *)
(***************************************************************************)
EXTENDS Naturals, Sequences, FiniteSets

CONSTANTS
    Key,
    MaxMsg,         \* messages 1..MaxMsg, delivered in this order
    MaxWorkers,     \* worker goroutines at a time
    ChannelBuf

ASSUME KeyDispatcherAssumption == MaxMsg \in Nat \ {0} /\ MaxWorkers \in Nat

VARIABLES
    key,        \* key[m]: what the key extractor says
    pull,       \* the pull loop: the message it dispatches, and where it is
    workers,    \* workers[k]: the worker of key k in the map, 0 for none
    worker,     \* worker[w]: key, channel, message in hand, state
    closing,    \* kd.ctx is cancelled
    handled     \* history: messages in the order their handlers began

keysVars == <<key, pull, workers, worker, closing, handled>>

Msg == 1 .. MaxMsg
Worker == 1 .. MaxWorkers
NoWorker == [key |-> 0, msgCh |-> <<>>, hand |-> 0, state |-> "none"]

KeysInit ==
    /\ key \in [Msg -> Key]
    /\ pull = [at |-> "send", msg |-> 1, worker |-> 0]
    /\ workers = [k \in Key |-> 0]
    /\ worker = [w \in Worker |-> NoWorker]
    /\ closing = FALSE /\ handled = <<>>

-----------------------------------------------------------------------------
(* Dispatch, by the pull loop.                                             *)

Next1(m) == IF m = MaxMsg THEN [at |-> "stopped", msg |-> 0, worker |-> 0]
            ELSE [at |-> "send", msg |-> m + 1, worker |-> 0]
Sent(w, m) == [worker EXCEPT ![w].msgCh = Append(@, m)]

\* The fast path: the lookup and the non-blocking send under one read lock.
Dispatch ==
    /\ pull.at = "send"
    /\ LET w == workers[key[pull.msg]] IN
         \/ w # 0 /\ Len(worker[w].msgCh) < ChannelBuf
            /\ worker' = Sent(w, pull.msg) /\ pull' = Next1(pull.msg)
         \/ w # 0 /\ Len(worker[w].msgCh) >= ChannelBuf
            /\ pull' = [pull EXCEPT !.at = "wait", !.worker = w] /\ UNCHANGED worker
         \/ w = 0 /\ pull' = [pull EXCEPT !.at = "create"] /\ UNCHANGED worker
    /\ UNCHANGED <<key, workers, closing, handled>>

\* Back pressure: a millisecond passes, or the worker closed and is done.
DispatchRetries ==
    /\ pull.at = "wait"
    /\ pull' = [pull EXCEPT !.at = "send", !.worker = 0]
    /\ UNCHANGED <<key, workers, worker, closing, handled>>

\* The worker of the key is looked up again under the write lock, or made.
getOrCreateWorker ==
    /\ pull.at = "create"
    /\ LET k == key[pull.msg] IN
         \/ workers[k] # 0 /\ UNCHANGED <<workers, worker>>
         \/ /\ workers[k] = 0
            /\ \E w \in Worker :
                 /\ worker[w] = NoWorker /\ \A v \in 1 .. w - 1 : worker[v] # NoWorker
                 /\ worker' = [worker EXCEPT ![w] = [NoWorker EXCEPT !.key = k, !.state = "run"]]
                 /\ workers' = [workers EXCEPT ![k] = w]
    /\ pull' = [pull EXCEPT !.at = "send"]
    /\ UNCHANGED <<key, closing, handled>>

\* The loop is cancelled between two messages; one in dispatch is unaffected.
LoopCancelled ==
    /\ pull.at = "send" /\ pull.msg > 1
    /\ pull' = Next1(MaxMsg)
    /\ UNCHANGED <<key, workers, worker, closing, handled>>

\* JSConsumer.Stop closes the dispatcher once the loop has exited.
CloseKeys ==
    /\ pull.at = "stopped" /\ ~closing
    /\ closing' = TRUE
    /\ UNCHANGED <<key, pull, workers, worker, handled>>

-----------------------------------------------------------------------------
(* runWorker.                                                              *)

\* A message is taken from the channel and its handler runs.
Receive(w) ==
    /\ worker[w].state \in {"run", "drain"} /\ worker[w].msgCh # <<>>
    /\ worker' = [worker EXCEPT ![w].msgCh = Tail(@), ![w].hand = Head(worker[w].msgCh),
                                ![w].state = IF @ = "run" THEN "handling" ELSE "draining"]
    /\ handled' = Append(handled, Head(worker[w].msgCh))
    /\ UNCHANGED <<key, pull, workers, closing>>

\* processMessage: the handler returns and the message is acked or naked.
processMessage(w) ==
    /\ worker[w].state \in {"handling", "draining"}
    /\ worker' = [worker EXCEPT ![w].hand = 0, ![w].state = IF @ = "handling" THEN "run" ELSE "drain"]
    /\ UNCHANGED <<key, pull, workers, closing, handled>>

IdleUnchecked(w) == TRUE
IdleConfirmed(w) == worker[w].msgCh = <<>>

\* The idle timer fires: under the write lock the worker leaves the map if
\* its channel is empty.
IdleExit(w) ==
    /\ worker[w].state = "run" /\ IdleConfirmed(w)
    /\ workers' = [workers EXCEPT ![worker[w].key] = 0]
    /\ worker' = [worker EXCEPT ![w].state = "leaving"]
    /\ UNCHANGED <<key, pull, closing, handled>>

\* The dispatcher is closing: what is left in the channel is handled.
drainWorker(w) ==
    /\ worker[w].state = "run" /\ closing
    /\ worker' = [worker EXCEPT ![w].state = "drain"]
    /\ UNCHANGED <<key, pull, workers, closing, handled>>

DrainEnds(w) ==
    /\ worker[w].state = "drain" /\ worker[w].msgCh = <<>>
    /\ worker' = [worker EXCEPT ![w].state = "leaving"]
    /\ UNCHANGED <<key, pull, workers, closing, handled>>

RemoveAnyWorker(w) == [workers EXCEPT ![worker[w].key] = 0]
RemoveThisWorker(w) == IF workers[worker[w].key] = w THEN [workers EXCEPT ![worker[w].key] = 0] ELSE workers

\* The deferred cleanup removes the entry only if it is still this worker.
removeWorker(w) ==
    /\ worker[w].state = "leaving"
    /\ workers' = RemoveThisWorker(w)
    /\ worker' = [worker EXCEPT ![w] = NoWorker]
    /\ UNCHANGED <<key, pull, closing, handled>>

Runs(w) == Receive(w) \/ processMessage(w) \/ drainWorker(w) \/ DrainEnds(w) \/ removeWorker(w)

\* The dispatcher is closed and every worker has finished.
Closed ==
    /\ closing /\ \A w \in Worker : worker[w] = NoWorker
    /\ UNCHANGED keysVars

KeysNext ==
    \/ Dispatch \/ DispatchRetries \/ getOrCreateWorker \/ LoopCancelled \/ CloseKeys
    \/ \E w \in Worker : Runs(w) \/ IdleExit(w)
    \/ Closed

\* Goroutines run and handlers return.
KeysFairness == \A w \in Worker : WF_keysVars(Runs(w))
KeysSpec == KeysInit /\ [][KeysNext]_keysVars /\ KeysFairness

-----------------------------------------------------------------------------
\* "Messages with the same key are processed sequentially (FIFO within key)",
\* across the workers that come and go for the key.
FIFOWithinKey ==
    /\ \A i, j \in DOMAIN handled : i < j /\ key[handled[i]] = key[handled[j]] => handled[i] < handled[j]
    /\ \A v, w \in Worker : v # w /\ worker[v].hand # 0 /\ worker[w].hand # 0 => worker[v].key # worker[w].key

Handled == {handled[i] : i \in DOMAIN handled}
Accepted ==
    (UNION {{worker[w].hand} \cup {worker[w].msgCh[i] : i \in DOMAIN worker[w].msgCh} : w \in Worker}) \ {0}

\* A message that Dispatch put into a channel is handled: it is not lost by a
\* worker that decided to leave, nor when the dispatcher closes, and the
\* channels drain.
AcceptedIsHandled == [][Accepted \subseteq Accepted' \cup Handled']_keysVars /\ <>[](Accepted = {})
=============================================================================
