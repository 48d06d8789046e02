----------------------------- MODULE AsyncDispatch -----------------------------
(***************************************************************************)
(* @nitroAsync calls of the C++ bridge.  Dart allocates an error slot and  *)
(* calls <method>_dispatch, which hands a job to NitroWorkerPool and       *)
(* returns; a worker runs the implementation, moves an error from its      *)
(* thread-local record into the slot and posts; Dart then looks at the     *)
(* slot, takes the texts of the error over and frees the slot.  A          *)
(* @NitroNativeAsync method does its own threading and writes the slot     *)
(* from a detached thread (throwNativeNativeAsync).                        *)
(*                                                                         *)
(* The texts of an error are one allocation here, named by the call whose  *)
(* implementation threw.  What happens between a post and the isolate is   *)
(* the subject of CompletionBatch: here messages arrive in posting order.  *)
(***************************************************************************)
EXTENDS Naturals, Sequences, FiniteSets

CONSTANTS
  Isolates,   \* Dart isolates that make calls
  Workers,    \* threads of the pool: hardware_concurrency, 2 to 4
  MaxCalls    \* bound: calls

ASSUME DispatchOK == Workers # {} /\ MaxCalls \in Nat

Calls == 1 .. MaxCalls
NoCall == 0
Texts == Calls \cup {NoCall}

VARIABLES
  made,      \* history: the isolate of each call
  throws,    \* history: the calls whose implementation threw
  slot,      \* per call: its error slot, and the texts in it
  queue,     \* queue_
  caller,    \* per isolate: inside enqueue, between the mutex and notify_one
  worker,    \* per worker: where it is, its call, and its thread-local texts
  thread,    \* per call: the detached thread of a @NitroNativeAsync method
  inbox,     \* per isolate: messages posted, oldest first
  answer,    \* history: per call, what its future completed with
  freed      \* history: how often the texts of a call were freed

vars == <<made, throws, slot, queue, caller, worker, thread, inbox, answer, freed>>

NoSlot == [state |-> "none", text |-> NoCall]
AtRest == [pc |-> "none", call |-> NoCall, text |-> NoCall]

TypeOK ==
  /\ made \in Seq(Isolates) /\ Len(made) <= MaxCalls
  /\ throws \subseteq Calls
  /\ slot \in [Calls -> [state : {"none", "live", "freed"}, text : Texts]]
  /\ queue \in Seq(Calls)
  /\ caller \in [Isolates -> {"idle", "notify"}]
  /\ worker \in [Workers -> [pc : {"none", "look", "asleep", "run", "move", "post"},
                             call : Texts, text : Texts]]
  /\ thread \in [Calls -> {"none", "write", "post", "done"}]
  /\ inbox \in [Isolates -> Seq(Calls)]
  /\ answer \in [Calls -> Seq([kind : {"value", "error"}, text : Texts])]
  /\ freed \in [Calls -> Nat]

Init ==
  /\ made = <<>>
  /\ throws = {}
  /\ slot = [n \in Calls |-> NoSlot]
  /\ queue = <<>>
  /\ caller = [i \in Isolates |-> "idle"]
  /\ worker = [w \in Workers |-> AtRest]
  /\ thread = [n \in Calls |-> "none"]
  /\ inbox = [i \in Isolates |-> <<>>]
  /\ answer = [n \in Calls |-> <<>>]
  /\ freed = [n \in Calls |-> 0]

-----------------------------------------------------------------------------
\* A new call of isolate i: calloc the slot, and hasError = 0.
NewCall(i, n) ==
  /\ caller[i] = "idle"
  /\ n = Len(made) + 1 /\ n <= MaxCalls
  /\ made' = Append(made, i)
  /\ slot' = [slot EXCEPT ![n] = [state |-> "live", text |-> NoCall]]

\* The threads start on first use.
Started == IF \A w \in Workers : worker[w].pc = "none"
           THEN [w \in Workers |-> [AtRest EXCEPT !.pc = "look"]] ELSE worker

(* <method>_dispatch: enqueue, under the mutex ...                         *)
Dispatch(i, n) ==
  /\ NewCall(i, n)
  /\ queue' = Append(queue, n)
  /\ worker' = Started
  /\ caller' = [caller EXCEPT ![i] = "notify"]
  /\ UNCHANGED <<throws, thread, inbox, answer, freed>>

(* ... then notify_one, outside it: lost when no worker is asleep.         *)
Notify(i) ==
  /\ caller[i] = "notify"
  /\ caller' = [caller EXCEPT ![i] = "idle"]
  /\ \/ \E w \in Workers : /\ worker[w].pc = "asleep"
                           /\ worker' = [worker EXCEPT ![w].pc = "look"]
     \/ (\A w \in Workers : worker[w].pc # "asleep") /\ UNCHANGED worker
  /\ UNCHANGED <<made, throws, slot, queue, thread, inbox, answer, freed>>

(* A @NitroNativeAsync method starts its own thread.                       *)
CallDetached(i, n) ==
  /\ NewCall(i, n)
  /\ thread' = [thread EXCEPT ![n] = "write"]
  /\ UNCHANGED <<throws, queue, caller, worker, inbox, answer, freed>>

-----------------------------------------------------------------------------
\* Mutant: the job is copied out of the queue and stays there.
LookKeeps(w) ==
  /\ worker[w].pc = "look"
  /\ queue # <<>>
  /\ worker' = [worker EXCEPT ![w].pc = "run", ![w].call = Head(queue)]
  /\ UNCHANGED <<made, throws, slot, queue, caller, thread, inbox, answer, freed>>

(* loop: take the oldest job ...                                           *)
Look(w) ==
  /\ worker[w].pc = "look"
  /\ queue # <<>>
  /\ queue' = Tail(queue)
  /\ worker' = [worker EXCEPT ![w].pc = "run", ![w].call = Head(queue)]
  /\ UNCHANGED <<made, throws, slot, caller, thread, inbox, answer, freed>>

\* Mutant: cv_.wait without a predicate.
SleepAnyway(w) ==
  /\ worker[w].pc = "look"
  /\ worker' = [worker EXCEPT ![w].pc = "asleep"]
  /\ UNCHANGED <<made, throws, slot, queue, caller, thread, inbox, answer, freed>>

(* ... or wait for one.                                                    *)
Sleep(w) ==
  /\ worker[w].pc = "look"
  /\ queue = <<>>
  /\ worker' = [worker EXCEPT ![w].pc = "asleep"]
  /\ UNCHANGED <<made, throws, slot, queue, caller, thread, inbox, answer, freed>>

\* clear_error on the worker's own record.
ClearError(w) ==
  freed' = IF worker[w].text = NoCall THEN freed
           ELSE [freed EXCEPT ![worker[w].text] = @ + 1]

(* The job: clear what an earlier call left, run the implementation; when  *)
(* it throws, nitro_report_error makes the texts.                          *)
Run(w) ==
  /\ worker[w].pc = "run"
  /\ ClearError(w)
  /\ \/ /\ throws' = throws \cup {worker[w].call}
        /\ worker' = [worker EXCEPT ![w].pc = "move", ![w].text = worker[w].call]
     \/ /\ worker' = [worker EXCEPT ![w].pc = "post", ![w].text = NoCall]
        /\ UNCHANGED throws
  /\ UNCHANGED <<made, slot, queue, caller, thread, inbox, answer>>

\* Mutant: copies the pointers and leaves them in the thread's record too.
MoveErrorShares(w) ==
  /\ worker[w].pc = "move"
  /\ slot' = [slot EXCEPT ![worker[w].call].text = worker[w].text]
  /\ worker' = [worker EXCEPT ![w].pc = "post"]
  /\ UNCHANGED <<made, throws, queue, caller, thread, inbox, answer, freed>>

\* Mutant: posts null and leaves the error in the thread's record.
MoveErrorNot(w) ==
  /\ worker[w].pc = "move"
  /\ worker' = [worker EXCEPT ![w].pc = "post"]
  /\ UNCHANGED <<made, throws, slot, queue, caller, thread, inbox, answer, freed>>

(* _nitro_move_err: the slot gets the texts, the thread forgets them.      *)
MoveError(w) ==
  /\ worker[w].pc = "move"
  /\ slot' = [slot EXCEPT ![worker[w].call].text = worker[w].text]
  /\ worker' = [worker EXCEPT ![w].pc = "post", ![w].text = NoCall]
  /\ UNCHANGED <<made, throws, queue, caller, thread, inbox, answer, freed>>

PostTo(n) == inbox' = [inbox EXCEPT ![made[n]] = Append(@, n)]

(* The result, or null for an error; back to the loop.                     *)
Post(w) ==
  /\ worker[w].pc = "post"
  /\ PostTo(worker[w].call)
  /\ worker' = [worker EXCEPT ![w].pc = "look", ![w].call = NoCall]
  /\ UNCHANGED <<made, throws, slot, queue, caller, thread, answer, freed>>

\* Mutant: the thread posts before it writes the slot.
DetachedWriteAfterPost(n) ==
  /\ thread[n] = "write"
  /\ PostTo(n)
  /\ thread' = [thread EXCEPT ![n] = "done"]
  /\ throws' = throws \cup {n}
  /\ UNCHANGED <<made, slot, queue, caller, worker, answer, freed>>

(* throwNativeNativeAsync: fill the slot in, then post null.               *)
DetachedWrite(n) ==
  /\ thread[n] = "write"
  /\ throws' = throws \cup {n}
  /\ slot' = [slot EXCEPT ![n].text = n]
  /\ thread' = [thread EXCEPT ![n] = "post"]
  /\ UNCHANGED <<made, queue, caller, worker, inbox, answer, freed>>

DetachedPost(n) ==
  /\ thread[n] = "post"
  /\ PostTo(n)
  /\ thread' = [thread EXCEPT ![n] = "done"]
  /\ UNCHANGED <<made, throws, slot, queue, caller, worker, answer, freed>>

-----------------------------------------------------------------------------
(* The isolate takes a message between two calls: throwIfOutParamError     *)
(* turns a filled slot into an exception and frees its texts, else the     *)
(* message is the value; cleanup frees the slot.                           *)
Answer(i) ==
  LET n == Head(inbox[i]) IN
  /\ caller[i] = "idle"
  /\ inbox[i] # <<>>
  /\ inbox' = [inbox EXCEPT ![i] = Tail(@)]
  /\ answer' = [answer EXCEPT ![n] = Append(@,
                  [kind |-> IF slot[n].text = NoCall THEN "value" ELSE "error",
                   text |-> slot[n].text])]
  /\ freed' = IF slot[n].text = NoCall THEN freed
              ELSE [freed EXCEPT ![slot[n].text] = @ + 1]
  /\ slot' = [slot EXCEPT ![n] = [state |-> "freed", text |-> NoCall]]
  /\ UNCHANGED <<made, throws, queue, caller, worker, thread>>

-----------------------------------------------------------------------------
WorkerStep(w) == Look(w) \/ Sleep(w) \/ Run(w) \/ MoveError(w) \/ Post(w)
ThreadStep(n) == DetachedWrite(n) \/ DetachedPost(n)

Next ==
  \/ \E i \in Isolates : \/ \E n \in Calls : Dispatch(i, n) \/ CallDetached(i, n)
                         \/ Notify(i) \/ Answer(i)
  \/ \E w \in Workers : WorkerStep(w)
  \/ \E n \in Calls : ThreadStep(n)

Spec == Init /\ [][Next]_vars

-----------------------------------------------------------------------------
\* Call n is still to be written to, or its message still to be read.
UnderWay(n) ==
  \/ \E k \in DOMAIN queue : queue[k] = n
  \/ \E w \in Workers : worker[w].call = n
  \/ thread[n] \in {"write", "post"}
  \/ \E i \in Isolates : \E k \in DOMAIN inbox[i] : inbox[i][k] = n

(* The slot lives as long as somebody may write or read it: Dart frees it  *)
(* when the message arrives, while workers run other calls of the isolate. *)
SlotOutlivesCall == \A n \in Calls : UnderWay(n) => slot[n].state = "live"

(* A future completes once, with the outcome of its own call: no error is  *)
(* lost between the thread's record and the slot, and none shows up in the *)
(* next call that happens to run on the same worker ("VALUES are always    *)
(* correct", LIMITATIONS.md section 6).                                    *)
OwnOutcome ==
  \A n \in Calls : answer[n] # <<>> =>
    answer[n] = << IF n \in throws THEN [kind |-> "error", text |-> n]
                   ELSE [kind |-> "value", text |-> NoCall] >>

(* The texts of an error are freed by one of Dart and clear_error, and not *)
(* while the slot still holds them.                                        *)
TextsFreedOnce ==
  \A n \in Calls : /\ freed[n] <= 1
                   /\ slot[n].text # NoCall => freed[slot[n].text] = 0

(* A job in the queue has somebody to take it: a worker that is not asleep *)
(* and will look again, or a caller that has yet to notify.  Notifications *)
(* that come while no worker waits are lost, and nothing hangs on them.    *)
NoJobForgotten ==
  queue # <<>> => \/ \E i \in Isolates : caller[i] = "notify"
                  \/ \E w \in Workers : worker[w].pc \notin {"none", "asleep"}

=============================================================================
