-------------------------- MODULE AsyncDispatchProofs --------------------------
(***************************************************************************)
(* Proofs about AsyncDispatch and AsyncCalls for any sets of isolates and  *)
(* workers and any number of calls: who may still write to the slot of a   *)
(* call, what its future completes with, who frees the texts of an error,  *)
(* and who owns the argument and the result of a call.                     *)
(***************************************************************************)
EXTENDS AsyncCalls, TLAPS

In(s, n) == \E k \in 1 .. Len(s) : s[k] = n
Distinct(s) == \A k, m \in 1 .. Len(s) : s[k] = s[m] => k = m

\* Where a call can be: in the queue, with a worker, with its own thread, posted.
Queued(n)    == In(queue, n)
Detached(n)  == thread[n] \in {"write", "post"}
With(w, n)   == worker[w].call = n
Posted(i, n) == In(inbox[i], n)

\* A call is in one place at a time, and once.
PlaceOf(n) ==
  /\ Queued(n) => ~Detached(n)
  /\ \A w \in Workers : With(w, n) =>
       ~Queued(n) /\ ~Detached(n) /\ \A u \in Workers : With(u, n) => u = w
  /\ \A i \in Isolates : Posted(i, n) =>
       made[n] = i /\ ~Queued(n) /\ ~Detached(n) /\ \A w \in Workers : ~With(w, n)
  /\ n > Len(made) => /\ ~Queued(n) /\ thread[n] = "none"
                      /\ \A w \in Workers : ~With(w, n)
                      /\ \A i \in Isolates : ~Posted(i, n)

PlaceInv == /\ Distinct(queue) /\ \A i \in Isolates : Distinct(inbox[i])
            /\ \A n \in Calls : PlaceOf(n)

\* A worker holds texts only between the implementation and the slot.
WorkerInv ==
  \A w \in Workers :
    /\ worker[w].pc \in {"run", "move", "post"} <=> worker[w].call # NoCall
    /\ worker[w].text = IF worker[w].pc = "move" THEN worker[w].call ELSE NoCall

\* A call is somewhere: UnderWay(n), said with the places.
Placed(n) == \/ Queued(n) \/ Detached(n)
             \/ \E w \in Workers : With(w, n)
             \/ \E i \in Isolates : Posted(i, n)

Fresh(n)    == slot[n].text = NoCall /\ n \notin throws
Thrown(n)   == slot[n].text = NoCall /\ n \in throws
Complete(n) == slot[n].text = IF n \in throws THEN n ELSE NoCall

\* What is known of the slot, the texts and the answer in each place.
SlotOf(n) ==
  /\ n > Len(made) => slot[n] = NoSlot /\ n \notin throws /\ answer[n] = <<>> /\ freed[n] = 0
  /\ Placed(n) => slot[n].state = "live" /\ answer[n] = <<>> /\ freed[n] = 0
  /\ Queued(n) \/ thread[n] = "write" => Fresh(n)
  /\ \A w \in Workers : With(w, n) => /\ worker[w].pc = "run" => Fresh(n)
                                      /\ worker[w].pc = "move" => Thrown(n)
                                      /\ worker[w].pc = "post" => Complete(n)
  /\ thread[n] = "post" \/ (\E i \in Isolates : Posted(i, n)) => Complete(n)
  /\ n <= Len(made) /\ ~Placed(n) =>
       /\ slot[n].text = NoCall /\ freed[n] <= 1
       /\ answer[n] = << IF n \in throws THEN [kind |-> "error", text |-> n]
                         ELSE [kind |-> "value", text |-> NoCall] >>

SlotInv == \A n \in Calls : SlotOf(n)

IInv == TypeOK /\ PlaceInv /\ WorkerInv /\ SlotInv

-----------------------------------------------------------------------------
\* Sequences without repetition, as queue_ and a port's messages are.
LEMMA AppendFacts ==
  ASSUME NEW S, NEW s \in Seq(S), NEW e \in S
  PROVE  /\ \A n : In(Append(s, e), n) <=> In(s, n) \/ n = e
         /\ Distinct(s) /\ ~In(s, e) => Distinct(Append(s, e))
<1>1. /\ Len(Append(s, e)) = Len(s) + 1 /\ Len(s) \in Nat
      /\ Append(s, e)[Len(s) + 1] = e
      /\ \A k \in 1 .. Len(s) : Append(s, e)[k] = s[k]
  OBVIOUS
<1>2. \A k \in 1 .. Len(s) + 1 : k \in 1 .. Len(s) \/ k = Len(s) + 1
  BY <1>1
<1>3. \A k \in 1 .. Len(s) : k \in 1 .. Len(s) + 1
  BY <1>1
<1>4. Len(s) + 1 \in 1 .. Len(s) + 1
  BY <1>1
<1> QED
  BY <1>1, <1>2, <1>3, <1>4 DEF In, Distinct

\* What taking the first job leaves in a queue.
LEMMA TailFacts ==
  ASSUME NEW S, NEW s \in Seq(S), s # <<>>, Distinct(s)
  PROVE  /\ Head(s) \in S /\ In(s, Head(s))
         /\ \A n : In(Tail(s), n) <=> In(s, n) /\ n # Head(s)
         /\ Distinct(Tail(s))
<1>1. /\ Len(s) \in Nat /\ Len(s) >= 1 /\ Len(Tail(s)) = Len(s) - 1
      /\ Head(s) = s[1] /\ Head(s) \in S
      /\ \A k \in 1 .. Len(s) - 1 : Tail(s)[k] = s[k + 1]
  OBVIOUS
<1>2. 1 \in 1 .. Len(s)
  BY <1>1
<1>3. \A k \in 1 .. Len(s) - 1 : k + 1 \in 1 .. Len(s) /\ k + 1 # 1
  BY <1>1
<1>4. ASSUME NEW n, In(s, n), n # Head(s)
      PROVE  In(Tail(s), n)
  <2>1. PICK k \in 1 .. Len(s) : s[k] = n
    BY <1>4 DEF In
  <2>2. k - 1 \in 1 .. Len(s) - 1 /\ (k - 1) + 1 = k
    BY <1>1, <1>4, <2>1
  <2> QED
    BY <1>1, <2>1, <2>2 DEF In
<1>5. ASSUME NEW n, In(Tail(s), n)
      PROVE  In(s, n) /\ n # Head(s)
  <2>1. PICK k \in 1 .. Len(s) - 1 : s[k + 1] = n
    BY <1>1, <1>5 DEF In
  <2> QED
    BY <1>1, <1>2, <1>3, <2>1 DEF In, Distinct
<1>6. Distinct(Tail(s))
  <2>1. ASSUME NEW k \in 1 .. Len(s) - 1, NEW m \in 1 .. Len(s) - 1, s[k + 1] = s[m + 1]
        PROVE  k = m
    BY <1>1, <1>3, <2>1 DEF Distinct
  <2> QED
    BY <1>1, <2>1 DEF Distinct
<1> QED
  BY <1>1, <1>2, <1>4, <1>5, <1>6 DEF In

\* The places of a call are the ones SlotOutlivesCall lists.
LEMMA UnderWayPlaces ==
  ASSUME TypeOK, NEW n
  PROVE  UnderWay(n) <=> Placed(n)
<1>1. DOMAIN queue = 1 .. Len(queue)
  BY DEF TypeOK
<1>2. \A i \in Isolates : DOMAIN inbox[i] = 1 .. Len(inbox[i])
  BY DEF TypeOK
<1> QED
  BY <1>1, <1>2 DEF UnderWay, Placed, Queued, Detached, With, Posted, In

-----------------------------------------------------------------------------
\* The record of a worker, and the ones it can become.
Working == [pc : {"none", "look", "asleep", "run", "move", "post"}, call : Texts, text : Texts]
Slots   == [state : {"none", "live", "freed"}, text : Texts]

\* A call that is made: it was nowhere, and its slot is live and empty.
LEMMA NewCallFacts ==
  ASSUME TypeOK, NEW i \in Isolates, NEW n \in Calls, NewCall(i, n)
  PROVE  /\ made' \in Seq(Isolates) /\ Len(made') = n /\ n > Len(made) /\ Len(made') <= MaxCalls
         /\ \A m \in Calls : m # n => (m > Len(made') <=> m > Len(made))
         /\ \A m \in Calls : m <= Len(made) => made'[m] = made[m]
         /\ slot' \in [Calls -> Slots]
         /\ slot'[n].state = "live" /\ slot'[n].text = NoCall
         /\ \A m \in Calls : m # n => slot'[m] = slot[m]
<1>1. made \in Seq(Isolates) /\ Len(made) \in Nat /\ made' = Append(made, i)
      /\ n = Len(made) + 1 /\ n <= MaxCalls
  BY DEF TypeOK, NewCall
<1>2. /\ made' \in Seq(Isolates) /\ Len(made') = n
      /\ \A m \in 1 .. Len(made) : made'[m] = made[m]
  BY <1>1
<1>3. \A m \in Calls : m \in Nat /\ m >= 1
  BY DispatchOK DEF Calls
<1>4. slot' = [slot EXCEPT ![n] = [state |-> "live", text |-> NoCall]]
  BY DEF NewCall
<1> QED
  BY <1>1, <1>2, <1>3, <1>4 DEF TypeOK, Slots, Texts, NoCall

\* The threads start when the first job is there: they have no call.
LEMMA StartedFacts ==
  ASSUME TypeOK, WorkerInv, NEW w \in Workers
  PROVE  /\ Started \in [Workers -> Working]
         /\ Started[w].call = worker[w].call /\ Started[w].text = worker[w].text
         /\ Started[w].pc = worker[w].pc \/ (worker[w].pc = "none" /\ Started[w].pc = "look")
<1>1. CASE \A u \in Workers : worker[u].pc = "none"
  <2>1. worker[w].call = NoCall /\ worker[w].text = NoCall
    BY <1>1 DEF WorkerInv
  <2>2. Started = [u \in Workers |-> [AtRest EXCEPT !.pc = "look"]]
    BY <1>1 DEF Started
  <2> QED
    BY <1>1, <2>1, <2>2 DEF AtRest, Working, Texts
<1>2. CASE ~\A u \in Workers : worker[u].pc = "none"
  BY <1>2 DEF Started, TypeOK, Working
<1> QED
  BY <1>1, <1>2

\* What a step that does not concern a call leaves as it is.
SameCall(m) ==
  /\ m > Len(made') <=> m > Len(made)
  /\ m <= Len(made) => made'[m] = made[m]
  /\ slot'[m] = slot[m] /\ thread'[m] = thread[m] /\ answer'[m] = answer[m]
  /\ freed'[m] = freed[m] /\ (m \in throws' <=> m \in throws)
  /\ Queued(m)' <=> Queued(m)
  /\ \A w \in Workers : With(w, m)' <=> With(w, m)
  /\ \A w \in Workers : With(w, m) => worker'[w].pc = worker[w].pc
  /\ \A i \in Isolates : Posted(i, m)' <=> Posted(i, m)

OthersSame(n) == \A m \in Calls : m # n => SameCall(m)

\* A step that touches none of a call's state keeps what is said of the call.
LEMMA SameCallStep ==
  ASSUME NEW m \in Calls, SameCall(m), PlaceOf(m), SlotOf(m), TypeOK, TypeOK'
  PROVE  PlaceOf(m)' /\ SlotOf(m)'
<1> USE DEF Queued, With, Posted, Detached
<1>1. m <= Len(made') <=> m <= Len(made)
  BY DispatchOK DEF SameCall, TypeOK, Calls
<1>2. \A i \in Isolates : Posted(i, m) => m <= Len(made)
  BY DispatchOK DEF PlaceOf, TypeOK, Calls
<1>3. PlaceOf(m)'
  BY <1>2 DEF SameCall, PlaceOf, Detached
<1>4. /\ Placed(m)' <=> Placed(m)
      /\ Fresh(m)' <=> Fresh(m)
      /\ Thrown(m)' <=> Thrown(m)
      /\ Complete(m)' <=> Complete(m)
  <2>1. Placed(m)' <=> Placed(m)
    BY DEF SameCall, Placed
  <2>2. slot'[m].text = slot[m].text /\ (m \in throws' <=> m \in throws)
    BY DEF SameCall
  <2>3. (Fresh(m)' <=> Fresh(m)) /\ (Thrown(m)' <=> Thrown(m))
    BY <2>2 DEF Fresh, Thrown
  <2>4. Complete(m)' <=> Complete(m)
    BY <2>2 DEF Complete
  <2> QED
    BY <2>1, <2>3, <2>4
<1>5. SlotOf(m)'
  <2>1. m > Len(made') => slot'[m] = NoSlot /\ m \notin throws' /\ answer'[m] = <<>> /\ freed'[m] = 0
    BY DEF SameCall, SlotOf
  <2>2. /\ Placed(m)' => slot'[m].state = "live" /\ answer'[m] = <<>> /\ freed'[m] = 0
        /\ Queued(m)' \/ thread'[m] = "write" => Fresh(m)'
        /\ thread'[m] = "post" \/ (\E i \in Isolates : Posted(i, m)') => Complete(m)'
    BY <1>4 DEF SameCall, SlotOf
  <2>3. \A w \in Workers : With(w, m)' => /\ worker'[w].pc = "run" => Fresh(m)'
                                          /\ worker'[w].pc = "move" => Thrown(m)'
                                          /\ worker'[w].pc = "post" => Complete(m)'
    BY <1>4 DEF SameCall, SlotOf
  <2>4. m <= Len(made') /\ ~Placed(m)' =>
          /\ slot'[m].text = NoCall /\ freed'[m] <= 1
          /\ answer'[m] = << IF m \in throws' THEN [kind |-> "error", text |-> m]
                             ELSE [kind |-> "value", text |-> NoCall] >>
    BY <1>1, <1>4 DEF SameCall, SlotOf
  <2> QED
    BY <2>1, <2>2, <2>3, <2>4 DEF SlotOf
<1> QED
  BY <1>3, <1>5

\* Dispatching a call to the pool keeps the invariant.
LEMMA DispatchStep ==
  ASSUME IInv, NEW i \in Isolates, NEW n \in Calls, Dispatch(i, n)
  PROVE  IInv' /\ OthersSame(n)
<1> USE DEF IInv, Queued, With, Posted, Detached
<1>1. /\ NewCall(i, n) /\ queue' = Append(queue, n) /\ worker' = Started
      /\ caller' = [caller EXCEPT ![i] = "notify"]
      /\ UNCHANGED <<throws, thread, inbox, answer, freed>>
  BY DEF Dispatch
<1>2. TypeOK'
  <2>1. worker' \in [Workers -> Working]
    BY <1>1, StartedFacts DEF Started, TypeOK, AtRest, Working, Texts
  <2>2. made' \in Seq(Isolates) /\ Len(made') <= MaxCalls /\ slot' \in [Calls -> Slots]
    BY <1>1, NewCallFacts
  <2>3. queue' \in Seq(Calls) /\ caller' \in [Isolates -> {"idle", "notify"}]
    BY <1>1 DEF TypeOK
  <2> QED
    BY <1>1, <2>1, <2>2, <2>3 DEF TypeOK, Working, Slots
<1>3. /\ n > Len(made) /\ Len(made') = n
      /\ \A m \in Calls : m # n => (m > Len(made') <=> m > Len(made))
      /\ \A m \in Calls : m <= Len(made) => made'[m] = made[m]
      /\ slot'[n].state = "live" /\ slot'[n].text = NoCall
      /\ \A m \in Calls : m # n => slot'[m] = slot[m]
  BY <1>1, NewCallFacts
<1>4. \A w \in Workers :
        /\ worker'[w].call = worker[w].call /\ worker'[w].text = worker[w].text
        /\ worker'[w].pc = worker[w].pc \/ (worker[w].pc = "none" /\ worker'[w].pc = "look")
  BY <1>1, StartedFacts
<1>5. ~Queued(n)
  BY <1>3 DEF PlaceInv, PlaceOf
<1>6. Distinct(queue)' /\ \A m : Queued(m)' <=> Queued(m) \/ m = n
  BY <1>1, <1>5, AppendFacts DEF TypeOK, PlaceInv, Queued
<1>7. /\ UNCHANGED <<throws, thread, inbox, answer, freed>>
      /\ \A m : Detached(m)' <=> Detached(m)
      /\ \A m \in Calls, w \in Workers : With(w, m)' <=> With(w, m)
      /\ \A m \in Calls, j \in Isolates : Posted(j, m)' <=> Posted(j, m)
  BY <1>1, <1>4 DEF Detached, With, Posted
<1>8. WorkerInv'
  BY <1>4 DEF WorkerInv
<1>9. ASSUME NEW m \in Calls PROVE PlaceOf(m)' /\ SlotOf(m)' /\ (m # n => SameCall(m))
  <2>1. PlaceOf(m) /\ SlotOf(m)
    BY DEF PlaceInv, SlotInv
  <2>2. CASE m # n
    <3>1. SameCall(m)
      <4>1. \A w \in Workers : With(w, m) => worker'[w].pc = worker[w].pc
        BY <1>4, DispatchOK DEF WorkerInv, Calls, NoCall
      <4> QED
        BY <1>3, <1>6, <1>7, <2>2, <4>1 DEF SameCall
    <3> QED
      BY <1>2, <2>1, <3>1, SameCallStep
  <2>3. CASE m = n
    BY <1>2, <1>3, <1>4, <1>6, <1>7, <2>1, <2>3, DispatchOK
       DEF PlaceOf, SlotOf, Placed, Fresh, Thrown, Complete, NoSlot, Detached
  <2> QED
    BY <2>2, <2>3
<1>10. \A j \in Isolates : Distinct(inbox[j])'
  BY <1>7 DEF PlaceInv
<1> QED
  BY <1>2, <1>6, <1>8, <1>9, <1>10 DEF PlaceInv, SlotInv, OthersSame

\* Starting a detached call keeps the invariant.
LEMMA CallDetachedStep ==
  ASSUME IInv, NEW i \in Isolates, NEW n \in Calls, CallDetached(i, n)
  PROVE  IInv' /\ OthersSame(n)
<1> USE DEF IInv, Queued, With, Posted, Detached
<1>1. /\ NewCall(i, n) /\ thread' = [thread EXCEPT ![n] = "write"]
      /\ UNCHANGED <<throws, queue, caller, worker, inbox, answer, freed>>
  BY DEF CallDetached
<1>2. TypeOK'
  <2>1. made' \in Seq(Isolates) /\ Len(made') <= MaxCalls /\ slot' \in [Calls -> Slots]
    BY <1>1, NewCallFacts
  <2> QED
    BY <1>1, <2>1 DEF TypeOK, Slots
<1>3. /\ n > Len(made) /\ Len(made') = n
      /\ \A m \in Calls : m # n => (m > Len(made') <=> m > Len(made))
      /\ \A m \in Calls : m <= Len(made) => made'[m] = made[m]
      /\ slot'[n].state = "live" /\ slot'[n].text = NoCall
      /\ \A m \in Calls : m # n => slot'[m] = slot[m]
  BY <1>1, NewCallFacts
<1>4. /\ thread'[n] = "write" /\ \A m \in Calls : m # n => thread'[m] = thread[m]
      /\ UNCHANGED <<throws, queue, worker, inbox, answer, freed>>
  BY <1>1 DEF TypeOK
<1>5. ASSUME NEW m \in Calls PROVE PlaceOf(m)' /\ SlotOf(m)' /\ (m # n => SameCall(m))
  <2>1. PlaceOf(m) /\ SlotOf(m)
    BY DEF PlaceInv, SlotInv
  <2>2. CASE m # n
    <3>1. SameCall(m)
      BY <1>3, <1>4, <2>2 DEF SameCall
    <3> QED
      BY <1>2, <2>1, <3>1, SameCallStep
  <2>3. CASE m = n
    BY <1>2, <1>3, <1>4, <2>1, <2>3, DispatchOK
       DEF PlaceOf, SlotOf, Placed, Fresh, Thrown, Complete, NoSlot
  <2> QED
    BY <2>2, <2>3
<1> QED
  BY <1>2, <1>4, <1>5 DEF PlaceInv, SlotInv, OthersSame, WorkerInv

\* A worker that falls asleep or is woken has no call.
LEMMA QuietStep ==
  ASSUME IInv, TypeOK', UNCHANGED <<made, throws, slot, queue, thread, inbox, answer, freed>>,
         \A w \in Workers : /\ worker'[w].call = worker[w].call
                            /\ worker'[w].text = worker[w].text
                            /\ \/ worker'[w].pc = worker[w].pc
                               \/ /\ worker[w].pc \in {"look", "asleep"}
                                  /\ worker'[w].pc \in {"look", "asleep"}
  PROVE  IInv' /\ \A m \in Calls : SameCall(m)
<1> USE DEF IInv, Queued, With, Posted, Detached
<1>1. ASSUME NEW m \in Calls PROVE PlaceOf(m)' /\ SlotOf(m)' /\ SameCall(m)
  <2>1. PlaceOf(m) /\ SlotOf(m)
    BY DEF PlaceInv, SlotInv
  <2>2. \A w \in Workers : With(w, m) => worker'[w].pc = worker[w].pc
    BY DispatchOK DEF WorkerInv, Calls, NoCall
  <2>3. SameCall(m)
    BY <2>2 DEF SameCall
  <2> QED
    BY <2>1, <2>3, SameCallStep
<1>2. WorkerInv'
  BY DEF WorkerInv
<1> QED
  BY <1>1, <1>2 DEF PlaceInv, SlotInv

\* notify_one keeps the invariant.
LEMMA NotifyStep ==
  ASSUME IInv, NEW i \in Isolates, Notify(i)
  PROVE  IInv' /\ \A m \in Calls : SameCall(m)
<1> USE DEF IInv
<1>1. CASE UNCHANGED worker
  <2>1. TypeOK'
    BY <1>1 DEF Notify, TypeOK
  <2> QED
    BY <1>1, <2>1, QuietStep DEF Notify
<1>2. ASSUME NEW w \in Workers, worker[w].pc = "asleep",
             worker' = [worker EXCEPT ![w].pc = "look"]
      PROVE  IInv' /\ \A m \in Calls : SameCall(m)
  <2>1. worker[w] \in Working
    BY DEF TypeOK, Working
  <2>2. [worker[w] EXCEPT !.pc = "look"] \in Working
    BY <2>1 DEF Working
  <2>3. TypeOK'
    BY <1>2, <2>2 DEF Notify, TypeOK, Working
  <2>4. worker'[w] = [worker[w] EXCEPT !.pc = "look"]
        /\ \A u \in Workers : u # w => worker'[u] = worker[u]
    BY <1>2 DEF TypeOK
  <2>5. worker'[w].pc = "look" /\ worker'[w].call = worker[w].call
        /\ worker'[w].text = worker[w].text
    BY <2>1, <2>4 DEF Working
  <2> QED
    BY <1>2, <2>3, <2>4, <2>5, QuietStep DEF Notify
<1> QED
  BY <1>1, <1>2 DEF Notify

\* A worker that goes to sleep keeps the invariant.
LEMMA SleepStep ==
  ASSUME IInv, NEW w \in Workers, Sleep(w)
  PROVE  IInv' /\ \A m \in Calls : SameCall(m)
<1> USE DEF IInv
<1> DEFINE r == [worker[w] EXCEPT !.pc = "asleep"]
<1>1. worker[w].pc = "look" /\ worker' = [worker EXCEPT ![w] = r]
  BY DEF Sleep
<1>2. /\ worker[w] \in Working /\ r \in Working /\ r.pc = "asleep"
      /\ r.call = worker[w].call /\ r.text = worker[w].text
  <2>1. worker[w] \in Working
    BY DEF TypeOK, Working
  <2> QED
    BY <2>1 DEF Working
<1> HIDE DEF r
<1>3. TypeOK'
  <2>1. worker' \in [Workers -> Working]
    BY <1>1, <1>2 DEF TypeOK, Working
  <2> QED
    BY <2>1 DEF Sleep, TypeOK, Working
<1>4. worker'[w] = r /\ \A u \in Workers : u # w => worker'[u] = worker[u]
  BY <1>1 DEF TypeOK
<1> QED
  BY <1>1, <1>2, <1>3, <1>4, QuietStep DEF Sleep

\* A worker that takes a job keeps the invariant.
LEMMA LookStep ==
  ASSUME IInv, NEW w \in Workers, Look(w)
  PROVE  IInv' /\ OthersSame(Head(queue))
<1> USE DEF IInv, Queued, With, Posted, Detached
<1> DEFINE n == Head(queue)
           r == [worker[w] EXCEPT !.pc = "run", !.call = n]
<1>1. /\ worker[w].pc = "look" /\ queue # <<>> /\ queue' = Tail(queue)
      /\ worker' = [worker EXCEPT ![w] = r]
      /\ UNCHANGED <<made, throws, slot, caller, thread, inbox, answer, freed>>
  BY DEF Look
<1>2. /\ n \in Calls /\ Queued(n) /\ \A m : In(queue', m) <=> Queued(m) /\ m # n
      /\ Distinct(queue')
  BY <1>1, TailFacts DEF TypeOK, PlaceInv
<1>3. /\ r \in Working /\ r.pc = "run" /\ r.call = n /\ r.text = worker[w].text
      /\ worker[w].call = NoCall /\ worker[w].text = NoCall
  <2>1. worker[w] \in Working /\ n \in Texts
    BY <1>2 DEF TypeOK, Working, Texts
  <2>2. worker[w].call = NoCall /\ worker[w].text = NoCall
    BY <1>1 DEF WorkerInv
  <2> QED
    BY <2>1, <2>2 DEF Working
<1>9. n = Head(queue)
  OBVIOUS
<1> HIDE DEF r, n
<1>4. TypeOK'
  <2>1. queue' \in Seq(Calls)
    BY <1>1 DEF TypeOK
  <2> QED
    BY <1>1, <1>3, <2>1 DEF TypeOK, Working
<1>5. /\ worker'[w] = r /\ \A u \in Workers : u # w => worker'[u] = worker[u]
      /\ UNCHANGED <<made, throws, slot, thread, inbox, answer, freed>>
  BY <1>1 DEF TypeOK
<1>6. n # NoCall /\ NoCall \notin Calls
  BY <1>2, DispatchOK DEF Calls, NoCall
<1>7. WorkerInv'
  BY <1>3, <1>5, <1>6 DEF WorkerInv
<1>8. ASSUME NEW m \in Calls PROVE PlaceOf(m)' /\ SlotOf(m)' /\ (m # n => SameCall(m))
  <2>1. PlaceOf(m) /\ SlotOf(m)
    BY DEF PlaceInv, SlotInv
  <2>2. CASE m # n
    <3>1. SameCall(m)
      BY <1>2, <1>3, <1>5, <1>6, <2>2 DEF SameCall
    <3> QED
      BY <1>4, <2>1, <3>1, SameCallStep
  <2>3. CASE m = n
    <3>1. PlaceOf(m)'
      BY <1>2, <1>3, <1>5, <1>6, <2>1, <2>3 DEF PlaceOf
    <3> QED
      BY <1>2, <1>3, <1>5, <1>6, <2>1, <2>3, <3>1
         DEF PlaceOf, SlotOf, Placed, Fresh, Thrown, Complete
  <2> QED
    BY <2>2, <2>3
<1> QED
  BY <1>2, <1>4, <1>5, <1>7, <1>8, <1>9 DEF PlaceInv, SlotInv, OthersSame

\* A worker that goes on with its call: its new record, and the others'.
LEMMA WorkerStepFacts ==
  ASSUME TypeOK, NEW w \in Workers, NEW x \in {"move", "post"}, NEW s \in Texts,
         worker' = [worker EXCEPT ![w].pc = x, ![w].text = s]
  PROVE  /\ worker' \in [Workers -> Working]
         /\ worker'[w].pc = x /\ worker'[w].call = worker[w].call /\ worker'[w].text = s
         /\ \A u \in Workers : u # w => worker'[u] = worker[u]
<1> DEFINE r == [worker[w] EXCEPT !.pc = x, !.text = s]
<1>1. worker \in [Workers -> Working] /\ worker[w] \in Working
  BY DEF TypeOK, Working
<1>2. worker' = [worker EXCEPT ![w] = r]
  OBVIOUS
<1>3. r \in Working /\ r.pc = x /\ r.call = worker[w].call /\ r.text = s
  BY <1>1 DEF Working
<1> HIDE DEF r
<1> QED
  BY <1>1, <1>2, <1>3

\* A worker that runs a job has a call, and its record holds an error or none.
LEMMA RunningFacts ==
  ASSUME TypeOK, WorkerInv, NEW w \in Workers, worker[w].pc \in {"run", "move", "post"}
  PROVE  /\ worker[w].call \in Calls /\ worker[w].call # NoCall /\ worker[w].call \in Texts
         /\ NoCall \notin Calls /\ NoCall \in Texts
         /\ worker[w].text = IF worker[w].pc = "move" THEN worker[w].call ELSE NoCall
<1>1. worker[w] \in Working
  BY DEF TypeOK, Working
<1>2. worker[w].call \in Texts
  BY <1>1 DEF Working
<1>3. worker[w].call # NoCall /\ worker[w].text = IF worker[w].pc = "move" THEN worker[w].call
                                                  ELSE NoCall
  BY DEF WorkerInv
<1> QED
  BY <1>2, <1>3, DispatchOK DEF Texts, Calls, NoCall

\* Running a job, with what it clears and reports, keeps the invariant.
LEMMA RunStep ==
  ASSUME IInv, NEW w \in Workers, Run(w)
  PROVE  IInv' /\ OthersSame(worker[w].call)
<1> USE DEF IInv, Queued, With, Posted, Detached
<1> DEFINE n == worker[w].call
<1>1. /\ n = worker[w].call /\ worker[w].pc = "run" /\ worker[w].text = NoCall
      /\ n \in Calls /\ n # NoCall /\ NoCall \notin Calls /\ n \in Texts /\ NoCall \in Texts
  BY RunningFacts DEF Run
<1>2. UNCHANGED <<made, slot, queue, caller, thread, inbox, answer, freed>>
  BY <1>1 DEF Run, ClearError
<1>5. \/ /\ throws' = throws \cup {n}
         /\ worker' = [worker EXCEPT ![w].pc = "move", ![w].text = n]
      \/ /\ throws' = throws
         /\ worker' = [worker EXCEPT ![w].pc = "post", ![w].text = NoCall]
  BY DEF Run
<1>6. /\ worker' \in [Workers -> Working]
      /\ worker'[w].call = n
      /\ \/ throws' = throws \cup {n} /\ worker'[w].pc = "move" /\ worker'[w].text = n
         \/ throws' = throws /\ worker'[w].pc = "post" /\ worker'[w].text = NoCall
      /\ \A u \in Workers : u # w => worker'[u] = worker[u]
  BY <1>1, <1>5, WorkerStepFacts
<1>10. n = worker[w].call
  OBVIOUS
<1> HIDE DEF n
<1>7. TypeOK'
  BY <1>1, <1>2, <1>6 DEF TypeOK, Working
<1>8. WorkerInv'
  BY <1>1, <1>6 DEF WorkerInv
<1>9. ASSUME NEW m \in Calls PROVE PlaceOf(m)' /\ SlotOf(m)' /\ (m # n => SameCall(m))
  <2>1. PlaceOf(m) /\ SlotOf(m)
    BY DEF PlaceInv, SlotInv
  <2>2. CASE m # n
    <3>1. SameCall(m)
      BY <1>1, <1>2, <1>6, <2>2 DEF SameCall
    <3> QED
      BY <1>7, <2>1, <3>1, SameCallStep
  <2>3. CASE m = n
    <3>1. PlaceOf(m)'
      BY <1>1, <1>2, <1>6, <2>1, <2>3 DEF PlaceOf
    <3>2. With(w, m) /\ Placed(m) /\ Placed(m)' /\ Fresh(m)
      BY <1>1, <1>6, <2>1, <2>3 DEF Placed, SlotOf
    <3>3. /\ ~Queued(m) /\ ~Detached(m) /\ m <= Len(made) /\ ~(m > Len(made))
          /\ \A u \in Workers : With(u, m) => u = w
          /\ \A j \in Isolates : ~Posted(j, m)
      <4>1. /\ m \in Nat /\ Len(made) \in Nat
        BY DispatchOK DEF TypeOK, Calls
      <4>2. worker[w].call = m
        BY <1>1, <2>3
      <4>3. ~(m > Len(made))
        BY <2>1, <4>2 DEF PlaceOf
      <4>4. m <= Len(made)
        BY <4>1, <4>3
      <4> QED
        BY <2>1, <4>2, <4>3, <4>4 DEF PlaceOf
    <3> QED
      BY <1>1, <1>2, <1>6, <2>1, <2>3, <3>1, <3>2, <3>3
         DEF SlotOf, Fresh, Thrown, Complete
  <2> QED
    BY <2>2, <2>3
<1> QED
  BY <1>2, <1>7, <1>8, <1>9, <1>10 DEF PlaceInv, SlotInv, OthersSame

\* The slot of one call is written to.
LEMMA SlotStepFacts ==
  ASSUME TypeOK, NEW n \in Calls, NEW x \in Texts, slot' = [slot EXCEPT ![n].text = x]
  PROVE  /\ slot' \in [Calls -> Slots]
         /\ slot'[n].text = x /\ slot'[n].state = slot[n].state
         /\ \A m \in Calls : m # n => slot'[m] = slot[m]
<1> DEFINE r == [slot[n] EXCEPT !.text = x]
<1>1. slot \in [Calls -> Slots] /\ slot[n] \in Slots
  BY DEF TypeOK, Slots
<1>2. slot' = [slot EXCEPT ![n] = r]
  OBVIOUS
<1>3. r \in Slots /\ r.text = x /\ r.state = slot[n].state
  BY <1>1 DEF Slots
<1> HIDE DEF r
<1> QED
  BY <1>1, <1>2, <1>3

\* Moving the error from the thread's record to the slot keeps the invariant.
LEMMA MoveErrorStep ==
  ASSUME IInv, NEW w \in Workers, MoveError(w)
  PROVE  IInv' /\ OthersSame(worker[w].call)
<1> USE DEF IInv, Queued, With, Posted, Detached
<1> DEFINE n == worker[w].call
<1>1. /\ n = worker[w].call /\ worker[w].pc = "move" /\ worker[w].text = n
      /\ n \in Calls /\ n # NoCall /\ NoCall \notin Calls /\ n \in Texts /\ NoCall \in Texts
  BY RunningFacts DEF MoveError
<1>2. UNCHANGED <<made, throws, queue, caller, thread, inbox, answer, freed>>
  BY DEF MoveError
<1>3. slot' = [slot EXCEPT ![n].text = n]
  BY <1>1 DEF MoveError
<1>4. worker' = [worker EXCEPT ![w].pc = "post", ![w].text = NoCall]
  BY DEF MoveError
<1>5. /\ worker' \in [Workers -> Working]
      /\ worker'[w].pc = "post" /\ worker'[w].call = n /\ worker'[w].text = NoCall
      /\ \A u \in Workers : u # w => worker'[u] = worker[u]
  BY <1>1, <1>4, WorkerStepFacts
<1>6. /\ slot' \in [Calls -> Slots]
      /\ slot'[n].text = n /\ slot'[n].state = slot[n].state
      /\ \A m \in Calls : m # n => slot'[m] = slot[m]
  BY <1>1, <1>3, SlotStepFacts
<1>10. n = worker[w].call
  OBVIOUS
<1> HIDE DEF n
<1>7. TypeOK'
  BY <1>2, <1>5, <1>6 DEF TypeOK, Working, Slots
<1>8. WorkerInv'
  BY <1>1, <1>5 DEF WorkerInv
<1>9. ASSUME NEW m \in Calls PROVE PlaceOf(m)' /\ SlotOf(m)' /\ (m # n => SameCall(m))
  <2>1. PlaceOf(m) /\ SlotOf(m)
    BY DEF PlaceInv, SlotInv
  <2>2. CASE m # n
    <3>1. SameCall(m)
      BY <1>1, <1>2, <1>5, <1>6, <2>2 DEF SameCall
    <3> QED
      BY <1>7, <2>1, <3>1, SameCallStep
  <2>3. CASE m = n
    <3>1. PlaceOf(m)'
      BY <1>1, <1>2, <1>5, <2>1, <2>3 DEF PlaceOf
    <3>2. With(w, m) /\ Placed(m) /\ Placed(m)' /\ Thrown(m)
      BY <1>1, <1>5, <2>1, <2>3 DEF Placed, SlotOf
    <3>3. /\ ~Queued(m) /\ ~Detached(m) /\ m <= Len(made) /\ ~(m > Len(made))
          /\ \A u \in Workers : With(u, m) => u = w
          /\ \A j \in Isolates : ~Posted(j, m)
      <4>1. /\ m \in Nat /\ Len(made) \in Nat
        BY DispatchOK DEF TypeOK, Calls
      <4>2. worker[w].call = m
        BY <1>1, <2>3
      <4>3. ~(m > Len(made))
        BY <2>1, <4>2 DEF PlaceOf
      <4>4. m <= Len(made)
        BY <4>1, <4>3
      <4> QED
        BY <2>1, <4>2, <4>3, <4>4 DEF PlaceOf
    <3> QED
      BY <1>1, <1>2, <1>5, <1>6, <2>1, <2>3, <3>1, <3>2, <3>3
         DEF SlotOf, Fresh, Thrown, Complete
  <2> QED
    BY <2>2, <2>3
<1> QED
  BY <1>2, <1>7, <1>8, <1>9, <1>10 DEF PlaceInv, SlotInv, OthersSame

\* A message is posted to the isolate of its call.
LEMMA PostToFacts ==
  ASSUME TypeOK, PlaceInv, NEW n \in Calls, n <= Len(made), \A i \in Isolates : ~Posted(i, n),
         PostTo(n)
  PROVE  /\ inbox' \in [Isolates -> Seq(Calls)] /\ made[n] \in Isolates
         /\ \A i \in Isolates : Distinct(inbox[i])'
         /\ \A i \in Isolates, m \in Calls :
              Posted(i, m)' <=> Posted(i, m) \/ (i = made[n] /\ m = n)
<1>1. made[n] \in Isolates
  BY DispatchOK DEF TypeOK, Calls
<1>2. inbox' = [inbox EXCEPT ![made[n]] = Append(@, n)]
  BY DEF PostTo
<1>3. \A i \in Isolates : inbox'[i] = IF i = made[n] THEN Append(inbox[i], n) ELSE inbox[i]
  BY <1>1, <1>2 DEF TypeOK
<1>4. inbox' \in [Isolates -> Seq(Calls)]
  BY <1>1, <1>2 DEF TypeOK
<1>5. ASSUME NEW i \in Isolates
      PROVE  /\ Distinct(inbox'[i])
             /\ \A m \in Calls : In(inbox'[i], m) <=> In(inbox[i], m) \/ (i = made[n] /\ m = n)
  <2>1. inbox[i] \in Seq(Calls) /\ Distinct(inbox[i]) /\ ~In(inbox[i], n)
    BY DEF TypeOK, PlaceInv, Posted
  <2>2. CASE i = made[n]
    BY <1>3, <2>1, <2>2, AppendFacts
  <2>3. CASE i # made[n]
    BY <1>3, <2>1, <2>3
  <2> QED
    BY <2>2, <2>3
<1> QED
  BY <1>1, <1>4, <1>5 DEF Posted

\* Posting the result keeps the invariant.
LEMMA PostStep ==
  ASSUME IInv, NEW w \in Workers, Post(w)
  PROVE  IInv' /\ OthersSame(worker[w].call)
<1> USE DEF IInv, Queued, With, Posted, Detached
<1> DEFINE n == worker[w].call
           r == [worker[w] EXCEPT !.pc = "look", !.call = NoCall]
<1>1. /\ n = worker[w].call /\ worker[w].pc = "post" /\ worker[w].text = NoCall
      /\ n \in Calls /\ n # NoCall /\ NoCall \notin Calls /\ NoCall \in Texts
  BY RunningFacts DEF Post
<1>2. /\ PostTo(n) /\ worker' = [worker EXCEPT ![w] = r]
      /\ UNCHANGED <<made, throws, slot, queue, caller, thread, answer, freed>>
  BY DEF Post
<1>3. /\ PlaceOf(n) /\ SlotOf(n) /\ n <= Len(made) /\ ~(n > Len(made))
      /\ ~Queued(n) /\ ~Detached(n) /\ \A u \in Workers : With(u, n) => u = w
      /\ \A j \in Isolates : ~Posted(j, n)
  <2>1. n \in Nat /\ Len(made) \in Nat
    BY <1>1, DispatchOK DEF TypeOK, Calls
  <2>2. PlaceOf(n) /\ SlotOf(n)
    BY <1>1 DEF PlaceInv, SlotInv
  <2>3. ~(n > Len(made))
    BY <1>1, <2>2 DEF PlaceOf
  <2>4. n <= Len(made)
    BY <2>1, <2>3
  <2> QED
    BY <1>1, <2>2, <2>3, <2>4 DEF PlaceOf
<1>4. /\ inbox' \in [Isolates -> Seq(Calls)] /\ made[n] \in Isolates
      /\ \A i \in Isolates : Distinct(inbox[i])'
      /\ \A i \in Isolates, m \in Calls :
           Posted(i, m)' <=> Posted(i, m) \/ (i = made[n] /\ m = n)
  BY <1>1, <1>2, <1>3, PostToFacts
<1>5. /\ worker \in [Workers -> Working]
      /\ r \in Working /\ r.pc = "look" /\ r.call = NoCall /\ r.text = NoCall
  <2>1. worker \in [Workers -> Working] /\ worker[w] \in Working
    BY DEF TypeOK, Working
  <2> QED
    BY <1>1, <2>1 DEF Working
<1>11. n = worker[w].call
  OBVIOUS
<1> HIDE DEF n, r
<1>6. /\ worker' \in [Workers -> Working] /\ worker'[w] = r
      /\ \A u \in Workers : u # w => worker'[u] = worker[u]
  BY <1>2, <1>5
<1>7. TypeOK'
  BY <1>2, <1>4, <1>6 DEF TypeOK, Working
<1>8. WorkerInv'
  BY <1>1, <1>5, <1>6 DEF WorkerInv
<1>9. UNCHANGED <<made, throws, slot, queue, thread, answer, freed>>
  BY <1>2
<1>10. ASSUME NEW m \in Calls PROVE PlaceOf(m)' /\ SlotOf(m)' /\ (m # n => SameCall(m))
  <2>1. PlaceOf(m) /\ SlotOf(m)
    BY DEF PlaceInv, SlotInv
  <2>2. CASE m # n
    <3>1. SameCall(m)
      BY <1>1, <1>4, <1>5, <1>6, <1>9, <2>2 DEF SameCall
    <3> QED
      BY <1>7, <2>1, <3>1, SameCallStep
  <2>3. CASE m = n
    <3>1. \A u \in Workers : ~With(u, m)'
      BY <1>1, <1>3, <1>5, <1>6, <2>3
    <3>2. Placed(m) /\ Placed(m)' /\ Complete(m) /\ (Complete(m)' <=> Complete(m))
      BY <1>1, <1>3, <1>4, <1>9, <2>3 DEF Placed, SlotOf, Complete
    <3>3. PlaceOf(m)'
      BY <1>3, <1>4, <1>9, <2>3, <3>1 DEF PlaceOf
    <3> QED
      BY <1>3, <1>9, <2>3, <3>1, <3>2, <3>3 DEF SlotOf
  <2> QED
    BY <2>2, <2>3
<1> QED
  BY <1>4, <1>7, <1>8, <1>9, <1>10, <1>11 DEF PlaceInv, SlotInv, OthersSame

\* The detached thread's write to the slot keeps the invariant.
LEMMA DetachedWriteStep ==
  ASSUME IInv, NEW n \in Calls, DetachedWrite(n)
  PROVE  IInv' /\ OthersSame(n)
<1> USE DEF IInv, Queued, With, Posted, Detached
<1>1. /\ thread[n] = "write" /\ throws' = throws \cup {n}
      /\ slot' = [slot EXCEPT ![n].text = n] /\ thread' = [thread EXCEPT ![n] = "post"]
      /\ UNCHANGED <<made, queue, caller, worker, inbox, answer, freed>>
  BY DEF DetachedWrite
<1>2. /\ slot' \in [Calls -> Slots] /\ slot'[n].text = n /\ slot'[n].state = slot[n].state
      /\ \A m \in Calls : m # n => slot'[m] = slot[m]
  BY <1>1, SlotStepFacts DEF Texts
<1>3. /\ thread'[n] = "post" /\ \A m \in Calls : m # n => thread'[m] = thread[m]
      /\ thread[n] = "write" /\ throws' = throws \cup {n}
      /\ UNCHANGED <<made, queue, worker, inbox, answer, freed>>
  BY <1>1 DEF TypeOK
<1>4. TypeOK'
  BY <1>1, <1>2 DEF TypeOK, Slots
<1>5. WorkerInv'
  BY <1>3 DEF WorkerInv
<1>6. ASSUME NEW m \in Calls PROVE PlaceOf(m)' /\ SlotOf(m)' /\ (m # n => SameCall(m))
  <2>1. PlaceOf(m) /\ SlotOf(m)
    BY DEF PlaceInv, SlotInv
  <2>2. CASE m # n
    <3>1. SameCall(m)
      BY <1>2, <1>3, <2>2 DEF SameCall
    <3> QED
      BY <1>4, <2>1, <3>1, SameCallStep
  <2>3. CASE m = n
    <3>1. /\ ~Queued(m) /\ m <= Len(made) /\ ~(m > Len(made))
          /\ \A u \in Workers : ~With(u, m)
          /\ \A j \in Isolates : ~Posted(j, m)
      BY <1>3, <2>1, <2>3, DispatchOK DEF PlaceOf, TypeOK, Calls
    <3>2. PlaceOf(m)'
      BY <1>3, <2>3, <3>1 DEF PlaceOf
    <3>3. Placed(m) /\ Placed(m)' /\ Complete(m)'
      BY <1>2, <1>3, <2>3 DEF Placed, Complete
    <3> QED
      BY <1>2, <1>3, <2>1, <2>3, <3>1, <3>2, <3>3 DEF SlotOf
  <2> QED
    BY <2>2, <2>3
<1> QED
  BY <1>3, <1>4, <1>5, <1>6 DEF PlaceInv, SlotInv, OthersSame

\* The detached thread's post keeps the invariant.
LEMMA DetachedPostStep ==
  ASSUME IInv, NEW n \in Calls, DetachedPost(n)
  PROVE  IInv' /\ OthersSame(n)
<1> USE DEF IInv, Queued, With, Posted, Detached
<1>1. /\ thread[n] = "post" /\ PostTo(n) /\ thread' = [thread EXCEPT ![n] = "done"]
      /\ UNCHANGED <<made, throws, slot, queue, caller, worker, answer, freed>>
  BY DEF DetachedPost
<1>2. /\ PlaceOf(n) /\ SlotOf(n) /\ n <= Len(made) /\ ~(n > Len(made))
      /\ ~Queued(n) /\ \A u \in Workers : ~With(u, n)
      /\ \A j \in Isolates : ~Posted(j, n)
  BY <1>1, DispatchOK DEF PlaceInv, SlotInv, PlaceOf, TypeOK, Calls
<1>3. /\ inbox' \in [Isolates -> Seq(Calls)] /\ made[n] \in Isolates
      /\ \A i \in Isolates : Distinct(inbox[i])'
      /\ \A i \in Isolates, m \in Calls :
           Posted(i, m)' <=> Posted(i, m) \/ (i = made[n] /\ m = n)
  BY <1>1, <1>2, PostToFacts
<1>4. /\ thread'[n] = "done" /\ \A m \in Calls : m # n => thread'[m] = thread[m]
      /\ thread[n] = "post"
      /\ UNCHANGED <<made, throws, slot, queue, worker, answer, freed>>
  BY <1>1 DEF TypeOK
<1>5. TypeOK'
  BY <1>1, <1>3 DEF TypeOK
<1>6. WorkerInv'
  BY <1>4 DEF WorkerInv
<1>7. ASSUME NEW m \in Calls PROVE PlaceOf(m)' /\ SlotOf(m)' /\ (m # n => SameCall(m))
  <2>1. PlaceOf(m) /\ SlotOf(m)
    BY DEF PlaceInv, SlotInv
  <2>2. CASE m # n
    <3>1. SameCall(m)
      BY <1>3, <1>4, <2>2 DEF SameCall
    <3> QED
      BY <1>5, <2>1, <3>1, SameCallStep
  <2>3. CASE m = n
    <3>1. PlaceOf(m)'
      BY <1>2, <1>3, <1>4, <2>3 DEF PlaceOf
    <3>2. Placed(m) /\ Placed(m)' /\ Complete(m) /\ (Complete(m)' <=> Complete(m))
      BY <1>2, <1>3, <1>4, <2>3 DEF Placed, SlotOf, Complete
    <3> QED
      BY <1>2, <1>4, <2>3, <3>1, <3>2 DEF SlotOf
  <2> QED
    BY <2>2, <2>3
<1> QED
  BY <1>3, <1>4, <1>5, <1>6, <1>7 DEF PlaceInv, SlotInv, OthersSame

\* The isolate's handler, which reads and frees the slot, keeps the invariant.
LEMMA AnswerStep ==
  ASSUME IInv, NEW i \in Isolates, Answer(i)
  PROVE  IInv' /\ OthersSame(Head(inbox[i]))
<1> USE DEF IInv, Queued, With, Posted, Detached
<1> DEFINE n == Head(inbox[i])
           a == [kind |-> IF slot[n].text = NoCall THEN "value" ELSE "error",
                 text |-> slot[n].text]
<1>1. /\ inbox[i] # <<>> /\ inbox' = [inbox EXCEPT ![i] = Tail(@)]
      /\ answer' = [answer EXCEPT ![n] = Append(@, a)]
      /\ freed' = IF slot[n].text = NoCall THEN freed
                  ELSE [freed EXCEPT ![slot[n].text] = @ + 1]
      /\ slot' = [slot EXCEPT ![n] = [state |-> "freed", text |-> NoCall]]
      /\ UNCHANGED <<made, throws, queue, caller, worker, thread>>
  BY DEF Answer
<1>2. /\ n \in Calls /\ Posted(i, n) /\ Distinct(Tail(inbox[i]))
      /\ \A m : In(Tail(inbox[i]), m) <=> Posted(i, m) /\ m # n
  BY <1>1, TailFacts DEF TypeOK, PlaceInv
<1>3. /\ inbox' \in [Isolates -> Seq(Calls)]
      /\ inbox'[i] = Tail(inbox[i]) /\ \A j \in Isolates : j # i => inbox'[j] = inbox[j]
  <2>1. Tail(inbox[i]) \in Seq(Calls)
    BY <1>1 DEF TypeOK
  <2> QED
    BY <1>1, <2>1 DEF TypeOK
<1>4. /\ PlaceOf(n) /\ SlotOf(n) /\ n <= Len(made) /\ ~(n > Len(made))
      /\ ~Queued(n) /\ ~Detached(n) /\ \A u \in Workers : ~With(u, n)
      /\ \A j \in Isolates : Posted(j, n) => j = i
      /\ n # NoCall
  <2>1. n # NoCall /\ n \in Nat /\ Len(made) \in Nat
    <3>1. \A m \in Calls : m # NoCall /\ m \in Nat
      BY DispatchOK DEF Calls, NoCall
    <3>2. Len(made) \in Nat
      BY DEF TypeOK
    <3> QED
      BY <1>2, <3>1, <3>2
  <2>2. PlaceOf(n) /\ SlotOf(n)
    BY <1>2 DEF PlaceInv, SlotInv
  <2>3. ~(n > Len(made)) /\ n <= Len(made)
    BY <1>2, <2>1, <2>2 DEF PlaceOf
  <2>4. \A j \in Isolates : Posted(j, n) => j = i
    BY <1>2, <2>2 DEF PlaceOf
  <2>5. ~Queued(n) /\ ~Detached(n) /\ \A u \in Workers : ~With(u, n)
    BY <1>2, <2>2 DEF PlaceOf
  <2> QED
    BY <2>1, <2>2, <2>3, <2>4, <2>5
<1>5. /\ answer[n] = <<>> /\ freed[n] = 0 /\ Complete(n)
  BY <1>2, <1>4 DEF SlotOf, Placed
<1>6. /\ freed' \in [Calls -> Nat] /\ freed'[n] <= 1
      /\ \A m \in Calls : m # n => freed'[m] = freed[m]
  <2>1. freed \in [Calls -> Nat]
    BY DEF TypeOK
  <2>2. slot[n].text = NoCall \/ slot[n].text = n
    BY <1>5 DEF Complete
  <2>3. freed' = freed \/ freed' = [freed EXCEPT ![n] = @ + 1]
    BY <1>1, <2>2
  <2> HIDE DEF n
  <2> QED
    BY <1>2, <1>5, <2>1, <2>3
<1>7. /\ slot' \in [Calls -> Slots] /\ slot'[n].text = NoCall
      /\ \A m \in Calls : m # n => slot'[m] = slot[m]
  BY <1>1, <1>2 DEF TypeOK, Slots, Texts
<1>8. a \in [kind : {"value", "error"}, text : Texts]
  <2>1. slot[n].text \in Texts
    BY <1>2 DEF TypeOK
  <2> QED
    BY <2>1
<1>9. a = IF n \in throws THEN [kind |-> "error", text |-> n]
          ELSE [kind |-> "value", text |-> NoCall]
  BY <1>4, <1>5 DEF Complete
<1>16. n = Head(inbox[i])
  OBVIOUS
<1> HIDE DEF n, a
<1>10. /\ answer' \in [Calls -> Seq([kind : {"value", "error"}, text : Texts])]
       /\ answer'[n] = <<a>> /\ \A m \in Calls : m # n => answer'[m] = answer[m]
  <2>1. Append(answer[n], a) = <<a>>
    BY <1>5
  <2>2. <<a>> \in Seq([kind : {"value", "error"}, text : Texts])
    BY <1>8
  <2> QED
    BY <1>1, <1>2, <2>1, <2>2 DEF TypeOK
<1>11. TypeOK'
  BY <1>1, <1>3, <1>6, <1>7, <1>10 DEF TypeOK, Slots
<1>12. UNCHANGED <<made, throws, queue, worker, thread>>
  BY <1>1
<1>13. WorkerInv'
  BY <1>12 DEF WorkerInv
<1>14. ASSUME NEW m \in Calls PROVE PlaceOf(m)' /\ SlotOf(m)' /\ (m # n => SameCall(m))
  <2>1. PlaceOf(m) /\ SlotOf(m)
    BY DEF PlaceInv, SlotInv
  <2>2. CASE m # n
    <3>1. \A j \in Isolates : Posted(j, m)' <=> Posted(j, m)
      BY <1>2, <1>3, <2>2
    <3>2. SameCall(m)
      BY <1>6, <1>7, <1>10, <1>12, <2>2, <3>1 DEF SameCall
    <3> QED
      BY <1>11, <2>1, <3>2, SameCallStep
  <2>3. CASE m = n
    <3>1. \A j \in Isolates : ~Posted(j, m)'
      BY <1>2, <1>3, <1>4, <2>3
    <3>2. ~Placed(m)'
      BY <1>4, <1>12, <2>3, <3>1 DEF Placed
    <3>3. PlaceOf(m)'
      BY <1>4, <1>12, <2>3, <3>1 DEF PlaceOf
    <3> QED
      BY <1>4, <1>6, <1>7, <1>9, <1>10, <1>12, <2>3, <3>1, <3>2, <3>3 DEF SlotOf
  <2> QED
    BY <2>2, <2>3
<1>15. \A j \in Isolates : Distinct(inbox[j])'
  BY <1>2, <1>3 DEF PlaceInv
<1> QED
  BY <1>11, <1>12, <1>13, <1>14, <1>15, <1>16 DEF PlaceInv, SlotInv, OthersSame

\* Before the first call nothing is anywhere.
LEMMA InitInv ==
  ASSUME Init
  PROVE  IInv
<1> USE DEF Init, Queued, With, Posted, Detached
<1>1. TypeOK
  BY DispatchOK DEF TypeOK, NoSlot, AtRest, Texts
<1>2. NoCall \notin Calls /\ Len(made) = 0 /\ \A n \in Calls : n > 0 /\ ~(n <= 0)
  BY DispatchOK DEF Calls, NoCall
<1>3. /\ \A n : ~In(queue, n)
      /\ \A i \in Isolates, n \in Calls : ~In(inbox[i], n)
      /\ \A w \in Workers : worker[w] = AtRest
      /\ \A n \in Calls : thread[n] = "none"
  BY DEF In
<1>4. \A w \in Workers, n \in Calls : worker[w].call # n
  BY <1>2, <1>3 DEF AtRest
<1>5. PlaceInv
  BY <1>3, <1>4 DEF PlaceInv, PlaceOf, Distinct
<1>6. WorkerInv
  BY <1>3 DEF WorkerInv, AtRest
<1>7. SlotInv
  BY <1>2, <1>3, <1>4 DEF SlotInv, SlotOf, Placed, NoSlot, Fresh, Thrown, Complete
<1> QED
  BY <1>1, <1>5, <1>6, <1>7 DEF IInv

\* Every step keeps the inductive invariant.
LEMMA InvStep ==
  ASSUME IInv, [Next]_vars
  PROVE  IInv'
<1>1. ASSUME NEW i \in Isolates, NEW n \in Calls, Dispatch(i, n) \/ CallDetached(i, n)
      PROVE  IInv'
  BY <1>1, DispatchStep, CallDetachedStep
<1>2. ASSUME NEW i \in Isolates, Notify(i) \/ Answer(i) PROVE IInv'
  BY <1>2, NotifyStep, AnswerStep
<1>3. ASSUME NEW w \in Workers, WorkerStep(w) PROVE IInv'
  BY <1>3, LookStep, SleepStep, RunStep, MoveErrorStep, PostStep DEF WorkerStep
<1>4. ASSUME NEW n \in Calls, ThreadStep(n) PROVE IInv'
  BY <1>4, DetachedWriteStep, DetachedPostStep DEF ThreadStep
<1>5. CASE UNCHANGED vars
  <2>1. TypeOK'
    BY <1>5 DEF IInv, TypeOK, vars
  <2> QED
    BY <1>5, <2>1, QuietStep DEF vars
<1> QED
  BY <1>1, <1>2, <1>3, <1>4, <1>5 DEF Next

\* The inductive invariant holds in every behaviour.
LEMMA Invariant == Spec => []IInv
<1>1. Init => IInv
  BY InitInv
<1>2. IInv /\ [Next]_vars => IInv'
  BY InvStep
<1> QED
  BY <1>1, <1>2, PTL DEF Spec

-----------------------------------------------------------------------------
(***************************************************************************)
(* The pool, the slots, the isolates' messages and the answers are what    *)
(* the code takes them for.                                                *)
(***************************************************************************)
THEOREM TypeCorrect == Spec => []TypeOK
  BY Invariant, PTL DEF IInv

(***************************************************************************)
(* The error slot Dart allocated is live while the job is queued, while a  *)
(* worker or the method's own thread may write to it, and until its        *)
(* message is handled: for any number of isolates, workers and calls.      *)
(***************************************************************************)
THEOREM SlotsCorrect == Spec => []SlotOutlivesCall
<1>1. IInv => SlotOutlivesCall
  BY UnderWayPlaces DEF IInv, SlotInv, SlotOf, SlotOutlivesCall
<1> QED
  BY <1>1, Invariant, PTL

(***************************************************************************)
(* A future completes once and with the outcome of its own call, whatever  *)
(* ran on the worker before.                                               *)
(***************************************************************************)
THEOREM OutcomesCorrect == Spec => []OwnOutcome
<1>1. ASSUME IInv, NEW n \in Calls, answer[n] # <<>>
      PROVE  answer[n] = << IF n \in throws THEN [kind |-> "error", text |-> n]
                            ELSE [kind |-> "value", text |-> NoCall] >>
  <2>1. SlotOf(n) /\ (n > Len(made) \/ n <= Len(made))
    BY <1>1, DispatchOK DEF IInv, SlotInv, TypeOK, Calls
  <2> QED
    BY <1>1, <2>1 DEF SlotOf
<1>2. IInv => OwnOutcome
  BY <1>1 DEF OwnOutcome
<1> QED
  BY <1>2, Invariant, PTL

(***************************************************************************)
(* Nobody frees the texts of an error twice, and nobody frees them while   *)
(* the slot still names them.                                              *)
(***************************************************************************)
THEOREM TextsCorrect == Spec => []TextsFreedOnce
<1>1. ASSUME IInv, NEW n \in Calls
      PROVE  freed[n] <= 1 /\ (slot[n].text # NoCall => freed[slot[n].text] = 0)
  <2>1. SlotOf(n) /\ (n > Len(made) \/ n <= Len(made))
    BY <1>1, DispatchOK DEF IInv, SlotInv, TypeOK, Calls
  <2>2. CASE n > Len(made)
    BY <2>1, <2>2 DEF SlotOf, NoSlot
  <2>3. CASE n <= Len(made) /\ ~Placed(n)
    BY <2>1, <2>3 DEF SlotOf
  <2>4. CASE Placed(n)
    <3>1. freed[n] = 0
      BY <2>1, <2>4 DEF SlotOf
    <3>2. slot[n].text = NoCall \/ slot[n].text = n
      <4>1. \A w \in Workers : With(w, n) => worker[w].pc \in {"run", "move", "post"}
        BY <1>1, DispatchOK DEF IInv, WorkerInv, With, Calls, NoCall
      <4> QED
        BY <2>1, <2>4, <4>1 DEF SlotOf, Placed, Detached, Fresh, Thrown, Complete
    <3> QED
      BY <3>1, <3>2
  <2> QED
    BY <2>1, <2>2, <2>3, <2>4
<1>2. IInv => TextsFreedOnce
  BY <1>1 DEF TextsFreedOnce
<1> QED
  BY <1>2, Invariant, PTL

-----------------------------------------------------------------------------
\* The threads are started together, before the first job; then none is "none".
StartInv == (\E w \in Workers : worker[w].pc = "none") =>
              /\ queue = <<>> /\ \A i \in Isolates : caller[i] = "idle"
              /\ \A w \in Workers : worker[w].pc = "none"

WakeInv == StartInv /\ NoJobForgotten

Awake(w) == worker[w].pc \notin {"none", "asleep"}

\* A step of a worker that is awake afterwards.
LEMMA AwakeStep ==
  ASSUME TypeOK, WakeInv, NEW w \in Workers, worker[w].pc # "none", UNCHANGED caller,
         \A u \in Workers : u # w => worker'[u] = worker[u], Awake(w)'
  PROVE  WakeInv'
<1>1. \A u \in Workers : worker'[u].pc # "none"
  BY DEF WakeInv, StartInv, Awake
<1> QED
  BY <1>1 DEF WakeInv, StartInv, NoJobForgotten, Awake

\* A step of no worker and no caller.
LEMMA StillStep ==
  ASSUME WakeInv, UNCHANGED <<queue, caller, worker>>
  PROVE  WakeInv'
BY DEF WakeInv, StartInv, NoJobForgotten

\* Every step leaves somebody to take what is in the queue.
LEMMA WakeStep ==
  ASSUME TypeOK, WakeInv, [Next]_vars
  PROVE  WakeInv'
<1>1. ASSUME NEW i \in Isolates, NEW n \in Calls, Dispatch(i, n) PROVE WakeInv'
  <2>1. caller' = [caller EXCEPT ![i] = "notify"] /\ worker' = Started
    BY <1>1 DEF Dispatch
  <2>2. caller'[i] = "notify"
    BY <2>1 DEF TypeOK
  <2>3. \A w \in Workers : worker'[w].pc # "none"
    <3>1. CASE \A u \in Workers : worker[u].pc = "none"
      BY <2>1, <3>1 DEF Started, AtRest
    <3>2. CASE ~\A u \in Workers : worker[u].pc = "none"
      BY <2>1, <3>2 DEF Started, WakeInv, StartInv
    <3> QED
      BY <3>1, <3>2
  <2> QED
    BY <2>2, <2>3 DEF WakeInv, StartInv, NoJobForgotten
<1>2. ASSUME NEW i \in Isolates, Notify(i) PROVE WakeInv'
  <2>1. /\ caller[i] = "notify" /\ caller' = [caller EXCEPT ![i] = "idle"] /\ queue' = queue
        /\ \/ \E w \in Workers : worker[w].pc = "asleep" /\ worker' = [worker EXCEPT ![w].pc = "look"]
           \/ (\A w \in Workers : worker[w].pc # "asleep") /\ UNCHANGED worker
    BY <1>2 DEF Notify
  <2>2. \A w \in Workers : worker[w].pc # "none"
    BY <2>1 DEF WakeInv, StartInv
  <2>3. \E w \in Workers : Awake(w)'
    <3>1. CASE \E w \in Workers : worker[w].pc = "asleep" /\ worker' = [worker EXCEPT ![w].pc = "look"]
      BY <3>1 DEF TypeOK, Awake
    <3>2. CASE (\A w \in Workers : worker[w].pc # "asleep") /\ UNCHANGED worker
      BY <2>2, <3>2, DispatchOK DEF Awake
    <3> QED
      BY <2>1, <3>1, <3>2
  <2>4. \A w \in Workers : worker'[w].pc # "none"
    BY <2>1, <2>2 DEF TypeOK
  <2> QED
    BY <2>3, <2>4 DEF WakeInv, StartInv, NoJobForgotten, Awake
<1>3. ASSUME NEW i \in Isolates, Answer(i) PROVE WakeInv'
  BY <1>3, StillStep DEF Answer
<1>4. ASSUME NEW i \in Isolates, NEW n \in Calls, CallDetached(i, n) PROVE WakeInv'
  BY <1>4, StillStep DEF CallDetached
<1>5. ASSUME NEW n \in Calls, ThreadStep(n) PROVE WakeInv'
  BY <1>5, StillStep DEF ThreadStep, DetachedWrite, DetachedPost
<1>6. ASSUME NEW w \in Workers, Look(w) \/ Run(w) \/ MoveError(w) \/ Post(w) PROVE WakeInv'
  <2>1. worker[w].pc # "none" /\ UNCHANGED caller
    BY <1>6 DEF Look, Run, MoveError, Post
  <2>2. (\A u \in Workers : u # w => worker'[u] = worker[u]) /\ Awake(w)'
    BY <1>6 DEF Look, Run, MoveError, Post, TypeOK, Awake
  <2> QED
    BY <2>1, <2>2, AwakeStep
<1>7. ASSUME NEW w \in Workers, Sleep(w) PROVE WakeInv'
  <2>1. queue' = <<>> /\ caller' = caller /\ worker[w].pc = "look"
        /\ worker' = [worker EXCEPT ![w].pc = "asleep"]
    BY <1>7 DEF Sleep
  <2>2. \A u \in Workers : worker'[u].pc # "none"
    BY <2>1 DEF WakeInv, StartInv, TypeOK
  <2> QED
    BY <2>1, <2>2 DEF WakeInv, StartInv, NoJobForgotten
<1>8. CASE UNCHANGED vars
  BY <1>8, StillStep DEF vars
<1> QED
  BY <1>1, <1>2, <1>3, <1>4, <1>5, <1>6, <1>7, <1>8 DEF Next, WorkerStep

(***************************************************************************)
(* No wake-up is lost, with any number of workers, isolates and jobs: a    *)
(* queue with jobs has a worker awake or a caller that has yet to notify.  *)
(***************************************************************************)
THEOREM JobsNotForgotten == Spec => []NoJobForgotten
<1>1. Init => WakeInv
  BY DispatchOK DEF Init, AtRest, WakeInv, StartInv, NoJobForgotten
<1>2. TypeOK /\ WakeInv /\ [Next]_vars => WakeInv'
  BY WakeStep
<1>3. WakeInv => NoJobForgotten
  BY DEF WakeInv
<1> QED
  BY <1>1, <1>2, <1>3, TypeCorrect, PTL DEF Spec

-----------------------------------------------------------------------------
(***************************************************************************)
(* The memory of the calls (module AsyncCalls).  Its steps are steps of    *)
(* the pool, so IInv says where a call is; what is held for the call goes  *)
(* with its place.                                                         *)
(***************************************************************************)
\* What the export of call n has given.
Given(n) == IF Failed(n) \/ n \in null THEN {} ELSE Gives(platform, method[n])

\* A call whose export has not run yet.
Asked(n) == n \notin null /\ held[n] = Arguments(method[n])

LedgerOf(n) ==
  /\ n > Len(made) => method[n] = NoMethod /\ n \notin null
  /\ method[n] = NoMethod => held[n] = {} /\ n \notin lists
  /\ Placed(n) => n \notin lists
  /\ thread[n] # "none" => method[n] = NoMethod
  /\ Queued(n) => method[n] # NoMethod /\ Asked(n)
  /\ \A w \in Workers : With(w, n) =>
       /\ method[n] # NoMethod
       /\ worker[w].pc = "run"  => Asked(n)
       /\ worker[w].pc = "move" => held[n] = Arguments(method[n]) \ {"clone"}
       /\ worker[w].pc = "post" => held[n] = (Arguments(method[n]) \ {"clone"}) \cup Given(n)
  /\ \A i \in Isolates : Posted(i, n) /\ method[n] # NoMethod =>
       held[n] = Awaits[method[n]].arena \cup (Given(n) \ {"text"})
  /\ n <= Len(made) /\ ~Placed(n) => held[n] = Listed(n)

LedgerInv == CallTypeOK /\ misused = {} /\ \A n \in Calls : LedgerOf(n)

\* What the tables say of a method, as the proofs use it.
LEMMA TableFacts ==
  ASSUME CallTypeOK, NEW m \in Methods
  PROVE  /\ m # NoMethod
         /\ Awaits[m].arena \subseteq {"arena"} /\ Jobs[m].copies \subseteq {"copy", "clone"}
         /\ Awaits[m].frees \cup Awaits[m].keeps \subseteq {"optional", "struct", "block"}
         /\ Awaits[m].frees \cap Awaits[m].keeps = {}
         /\ Gives(platform, m) = Awaits[m].frees \cup Awaits[m].keeps \cup
                                 (IF Jobs[m].posts = "text" THEN {"text"} ELSE {})
         /\ Arguments(m) = Awaits[m].arena \cup Jobs[m].copies
         /\ Arguments(m) \subseteq Allocations /\ Gives(platform, m) \subseteq Allocations
<1>1. platform \in Platforms /\ m \in DOMAIN Jobs
  BY MethodsAssumption DEF CallTypeOK
<1>2. /\ Jobs[m].copies \subseteq {"copy", "clone"} /\ Awaits[m].arena \subseteq {"arena"}
      /\ Awaits[m].frees \cup Awaits[m].keeps \subseteq Results \ {"text"}
      /\ Awaits[m].frees \cap Awaits[m].keeps = {}
      /\ Gives(platform, m) = Awaits[m].frees \cup Awaits[m].keeps \cup
                              (IF Jobs[m].posts = "text" THEN {"text"} ELSE {})
  BY <1>1, AsyncTablesAgree
<1>3. m # NoMethod
  BY MethodsAssumption
<1>4. Arguments(m) = Awaits[m].arena \cup Jobs[m].copies
  BY DEF Arguments
<1> QED
  BY <1>2, <1>3, <1>4 DEF Results, Allocations

SameLedger(m) == /\ method'[m] = method[m] /\ held'[m] = held[m]
                 /\ m \in null' <=> m \in null
                 /\ m \in lists' <=> m \in lists

\* A step that concerns neither the place nor the memory of a call.
LEMMA SameLedgerStep ==
  ASSUME NEW m \in Calls, TypeOK, TypeOK', SameCall(m), SameLedger(m), platform' = platform,
         LedgerOf(m)
  PROVE  LedgerOf(m)'
<1>1. m <= Len(made') <=> m <= Len(made)
  BY DispatchOK DEF SameCall, TypeOK, Calls
<1>2. /\ Placed(m)' <=> Placed(m)
      /\ Failed(m)' <=> Failed(m)
      /\ Given(m)' = Given(m)
      /\ Asked(m)' <=> Asked(m)
      /\ Listed(m)' = Listed(m)
  <2>1. Placed(m)' <=> Placed(m)
    BY DEF SameCall, Placed, Detached
  <2>2. Failed(m)' <=> Failed(m)
    BY DEF SameCall, Failed
  <2>3. Gives(platform, method[m])' = Gives(platform, method[m])
    BY DEF SameLedger, Gives
  <2>4. Given(m)' = Given(m)
    BY <2>2, <2>3 DEF SameLedger, Given
  <2>5. Asked(m)' <=> Asked(m)
    BY DEF SameLedger, Asked, Arguments
  <2>6. Listed(m)' = Listed(m)
    BY DEF SameLedger, Listed
  <2> QED
    BY <2>1, <2>2, <2>4, <2>5, <2>6
<1>3. Arguments(method'[m]) = Arguments(method[m])
  BY DEF SameLedger
<1> QED
  BY <1>1, <1>2, <1>3 DEF SameCall, SameLedger, LedgerOf

\* A step of one call keeps the ledger of the others.
LEMMA OthersLedger ==
  ASSUME IInv, IInv', LedgerInv, NEW n, OthersSame(n), platform' = platform,
         \A m \in Calls : m # n => SameLedger(m)
  PROVE  \A m \in Calls : m # n => LedgerOf(m)'
<1>1. ASSUME NEW m \in Calls, m # n PROVE LedgerOf(m)'
  BY <1>1, SameLedgerStep DEF OthersSame, LedgerInv, IInv
<1> QED
  BY <1>1

\* Where a call is after a step of it, from the invariant of the pool.
LEMMA InQueue ==
  ASSUME TypeOK, PlaceInv, NEW n \in Calls, Queued(n)
  PROVE  /\ Placed(n) /\ ~(n > Len(made)) /\ thread[n] \notin {"write", "post"}
         /\ \A w \in Workers : ~With(w, n)
         /\ \A i \in Isolates : ~Posted(i, n)
  BY DEF PlaceInv, PlaceOf, Placed, Detached

LEMMA AtWorker ==
  ASSUME TypeOK, PlaceInv, NEW n \in Calls, NEW w \in Workers, With(w, n)
  PROVE  /\ Placed(n) /\ ~(n > Len(made)) /\ ~Queued(n)
         /\ \A u \in Workers : With(u, n) => u = w
         /\ \A i \in Isolates : ~Posted(i, n)
  BY DEF PlaceInv, PlaceOf, Placed

LEMMA InMessage ==
  ASSUME TypeOK, PlaceInv, NEW n \in Calls, NEW i \in Isolates, Posted(i, n)
  PROVE  /\ Placed(n) /\ ~(n > Len(made)) /\ ~Queued(n)
         /\ \A w \in Workers : ~With(w, n)
  BY DEF PlaceInv, PlaceOf, Placed

-----------------------------------------------------------------------------
\* A call through the pool: the argument in the arena and the job's copy of it.
LEMMA CallPoolStep ==
  ASSUME IInv, LedgerInv, NEW i \in Isolates, NEW n \in Calls, NEW m \in Methods,
         CallPool(i, n, m)
  PROVE  LedgerInv'
<1>1. /\ Dispatch(i, n) /\ method' = [method EXCEPT ![n] = m]
      /\ held' = [held EXCEPT ![n] = Arguments(m)]
      /\ UNCHANGED <<platform, lists, null, misused, crashed>>
  BY DEF CallPool
<1>2. IInv' /\ OthersSame(n)
  BY <1>1, DispatchStep
<1>3. /\ CallTypeOK /\ misused = {} /\ LedgerOf(n) /\ TypeOK /\ PlaceOf(n)
  BY DEF LedgerInv, IInv, PlaceInv
<1>4. CallTypeOK' /\ misused' = {}
  BY <1>1, <1>3, TableFacts DEF CallTypeOK
<1>5. /\ method'[n] = m /\ held'[n] = Arguments(m) /\ null' = null
      /\ \A k \in Calls : k # n => SameLedger(k)
  BY <1>1, <1>3 DEF CallTypeOK, SameLedger
<1>6. n > Len(made) /\ thread'[n] = thread[n] /\ queue' = Append(queue, n)
  <2>1. n = Len(made) + 1 /\ thread' = thread /\ queue' = Append(queue, n)
    BY <1>1 DEF Dispatch, NewCall
  <2> QED
    BY <1>3, <2>1 DEF TypeOK
<1>7. Queued(n)'
  BY <1>3, <1>6, AppendFacts DEF TypeOK, Queued
<1>8. /\ Placed(n)' /\ ~(n > Len(made'))
      /\ \A w \in Workers : ~With(w, n)'
      /\ \A j \in Isolates : ~Posted(j, n)'
  <2>1. TypeOK' /\ PlaceInv'
    BY <1>2 DEF IInv
  <2>2. PlaceOf(n)'
    BY <2>1 DEF PlaceInv
  <2> QED
    BY <1>7, <2>2 DEF PlaceOf, Placed
<1>9. thread'[n] = "none" /\ n \notin null' /\ n \notin lists'
  BY <1>1, <1>3, <1>5, <1>6 DEF PlaceOf, LedgerOf
<1>10. Asked(n)'
  BY <1>5, <1>9 DEF Asked, Arguments
<1>11. LedgerOf(n)'
  BY <1>3, <1>5, <1>8, <1>9, <1>10, TableFacts DEF LedgerOf
<1>12. \A k \in Calls : k # n => LedgerOf(k)'
  BY <1>1, <1>2, <1>5, OthersLedger
<1> QED
  BY <1>4, <1>11, <1>12 DEF LedgerInv

\* The export runs on the job's copy; a cloned struct is released.
LEMMA RunExportStep ==
  ASSUME IInv, LedgerInv, NEW w \in Workers, RunExport(w)
  PROVE  LedgerInv'
<1>1. PICK n : n = worker[w].call
  OBVIOUS
<1>2. PICK m : m = method[n]
  OBVIOUS
<1>3. /\ Run(w) /\ Uses(n, Jobs[m].copies) /\ UNCHANGED <<platform, method, lists, crashed>>
      /\ \/ worker'[w].pc = "move" /\ Frees(n, {"clone"}) /\ UNCHANGED null
         \/ /\ worker'[w].pc = "post" /\ UNCHANGED null
            /\ held' = [held EXCEPT ![n] = (@ \ {"clone"}) \cup Gives(platform, m)]
         \/ /\ worker'[w].pc = "post" /\ Frees(n, {"clone"})
            /\ null' = null \cup {n}
  BY <1>1, <1>2 DEF RunExport
<1>4. IInv' /\ OthersSame(n)
  BY <1>1, <1>3, RunStep
<1>5. /\ TypeOK /\ PlaceInv /\ WorkerInv /\ SlotInv /\ CallTypeOK /\ misused = {}
      /\ TypeOK' /\ PlaceInv' /\ WorkerInv'
  BY <1>4 DEF IInv, LedgerInv
<1>6. /\ worker[w].pc = "run" /\ n \in Calls /\ With(w, n)
      /\ UNCHANGED <<made, slot, thread>>
  <2>1. worker[w].pc = "run"
    BY <1>3 DEF Run
  <2>2. n \in Calls
    BY <1>1, <1>5, <2>1, RunningFacts
  <2>3. UNCHANGED <<made, slot, thread>>
    BY <1>3 DEF Run
  <2> QED
    BY <1>1, <2>1, <2>2, <2>3 DEF With
<1>7. With(w, n)'
  <2>1. \/ worker' = [worker EXCEPT ![w].pc = "move", ![w].text = worker[w].call]
        \/ worker' = [worker EXCEPT ![w].pc = "post", ![w].text = NoCall]
    BY <1>3 DEF Run
  <2>2. worker[w].call \in Texts /\ NoCall \in Texts
    BY <1>5, <1>6, RunningFacts
  <2>3. worker'[w].call = worker[w].call
    BY <1>5, <2>1, <2>2, WorkerStepFacts
  <2> QED
    BY <1>1, <2>3 DEF With
<1>8. LedgerOf(n) /\ SlotOf(n)
  BY <1>5, <1>6 DEF LedgerInv, SlotInv
<1>9. m \in Methods /\ method'[n] = m /\ Asked(n) /\ ~Failed(n)
  <2>1. m # NoMethod /\ Asked(n) /\ Fresh(n)
    BY <1>2, <1>6, <1>8 DEF LedgerOf, SlotOf
  <2>2. m \in Methods
    BY <1>2, <1>5, <1>6, <2>1 DEF CallTypeOK
  <2> QED
    BY <1>2, <1>3, <2>1, <2>2 DEF Fresh, Failed
<1>10. /\ held[n] = Arguments(m) /\ n \notin null /\ ~Failed(n)'
       /\ held[n] = Awaits[m].arena \cup Jobs[m].copies
  BY <1>2, <1>5, <1>6, <1>9, TableFacts DEF Asked, Failed
<1>11. misused' = {}
  <2>1. Jobs[m].copies \subseteq held[n]
    BY <1>10
  <2> QED
    BY <1>3, <1>5, <2>1 DEF Uses
<1>12. /\ \A k \in Calls : k # n => SameLedger(k)
       /\ CallTypeOK'
       /\ \/ worker'[w].pc = "move" /\ held'[n] = Arguments(m) \ {"clone"}
          \/ /\ worker'[w].pc = "post"
             /\ held'[n] = (Arguments(m) \ {"clone"}) \cup Gives(platform, m)
             /\ n \notin null'
          \/ /\ worker'[w].pc = "post" /\ held'[n] = Arguments(m) \ {"clone"}
             /\ n \in null'
  <2>1. Arguments(m) \subseteq Allocations /\ Gives(platform, m) \subseteq Allocations
    BY <1>5, <1>9, TableFacts
  <2>2. /\ held \in [Calls -> SUBSET Allocations] /\ null \subseteq Calls
        /\ method' = method /\ platform' = platform /\ crashed' = crashed
        /\ lists' = lists /\ lists \subseteq Calls
    BY <1>3, <1>5 DEF CallTypeOK
  <2>3. PICK h \in SUBSET Allocations :
          /\ held' = [held EXCEPT ![n] = h]
          /\ \/ worker'[w].pc = "move" /\ h = Arguments(m) \ {"clone"} /\ null' = null
             \/ /\ worker'[w].pc = "post" /\ null' = null
                /\ h = (Arguments(m) \ {"clone"}) \cup Gives(platform, m)
             \/ /\ worker'[w].pc = "post" /\ h = Arguments(m) \ {"clone"}
                /\ null' = null \cup {n}
    BY <1>3, <1>6, <1>10, <2>1, <2>2 DEF Frees
  <2>4. held' \in [Calls -> SUBSET Allocations] /\ held'[n] = h
        /\ \A k \in Calls : k # n => held'[k] = held[k]
    BY <1>6, <2>2, <2>3
  <2>5. CallTypeOK'
    BY <1>5, <1>6, <1>11, <2>2, <2>3, <2>4 DEF CallTypeOK
  <2>6. \A k \in Calls : k # n => SameLedger(k)
    BY <2>2, <2>3, <2>4 DEF SameLedger
  <2> QED
    BY <1>10, <2>3, <2>4, <2>5, <2>6
<1>13. worker'[w].pc = "post" => held'[n] = (Arguments(m) \ {"clone"}) \cup Given(n)'
  <2>1. CASE n \in null'
    <3>1. Given(n)' = {}
      BY <2>1 DEF Given
    <3> QED
      BY <1>12, <2>1, <3>1
  <2>2. CASE n \notin null'
    <3>1. Given(n)' = Gives(platform, m)
      BY <1>3, <1>9, <1>10, <2>2 DEF Given, Gives
    <3> QED
      BY <1>12, <2>2, <3>1
  <2> QED
    BY <2>1, <2>2
<1>14. LedgerOf(n)'
  <2>1. /\ Placed(n)' /\ ~(n > Len(made')) /\ ~Queued(n)'
        /\ \A u \in Workers : With(u, n)' => u = w
        /\ \A i \in Isolates : ~Posted(i, n)'
    <3>1. PlaceOf(n)'
      BY <1>5, <1>6 DEF PlaceInv
    <3> QED
      BY <1>7, <3>1 DEF PlaceOf, Placed
  <2>2. thread'[n] # "none" => method'[n] = NoMethod
    BY <1>3, <1>6, <1>8 DEF LedgerOf
  <2>3. m # NoMethod
    BY <1>5, <1>9, TableFacts
  <2>5. n \notin lists'
    BY <1>2, <1>3, <1>5, <1>6, <1>8, AtWorker DEF LedgerOf
  <2>4. worker'[w].pc # "run" /\ (worker'[w].pc = "move" => held'[n] = Arguments(m) \ {"clone"})
    BY <1>12
  <2> QED
    BY <1>9, <1>13, <2>1, <2>2, <2>3, <2>4, <2>5 DEF LedgerOf
<1>15. \A k \in Calls : k # n => LedgerOf(k)'
  BY <1>3, <1>4, <1>12, OthersLedger
<1> QED
  BY <1>11, <1>12, <1>14, <1>15 DEF LedgerInv

\* What an export has given is what its job frees and what Dart frees.
LEMMA GivenFacts ==
  ASSUME CallTypeOK, NEW n \in Calls, NEW m \in Methods, method[n] = m
  PROVE  /\ PostFrees(n) \subseteq Given(n) /\ PostFrees(n) \subseteq {"text"}
         /\ Given(n) \ PostFrees(n) = Given(n) \ {"text"}
         /\ Given(n) \ {"text"} = IF Failed(n) \/ n \in null THEN {}
                                  ELSE Awaits[m].frees \cup Awaits[m].keeps
         /\ "copy" \notin Given(n) /\ Given(n) \subseteq Allocations
<1>1. /\ Awaits[m].frees \cup Awaits[m].keeps \subseteq {"optional", "struct", "block"}
      /\ Gives(platform, m) = Awaits[m].frees \cup Awaits[m].keeps \cup
                              (IF Jobs[m].posts = "text" THEN {"text"} ELSE {})
      /\ Gives(platform, m) \subseteq Allocations
  BY TableFacts
<1>2. CASE Failed(n) \/ n \in null
  BY <1>2 DEF Given, PostFrees
<1>3. CASE ~(Failed(n) \/ n \in null)
  <2>1. /\ Given(n) = Gives(platform, m)
        /\ PostFrees(n) = IF Jobs[m].posts = "text" THEN {"text"} ELSE {}
    BY <1>3 DEF Given, PostFrees
  <2> QED
    BY <1>1, <1>3, <2>1
<1> QED
  BY <1>2, <1>3

\* The job posts and ends: its text and its copy are gone.
LEMMA PostResultStep ==
  ASSUME IInv, LedgerInv, NEW w \in Workers, PostResult(w)
  PROVE  LedgerInv'
<1>1. PICK n : n = worker[w].call
  OBVIOUS
<1>2. PICK m : m = method[n]
  OBVIOUS
<1>3. /\ Post(w) /\ Uses(n, PostFrees(n)) /\ Frees(n, PostFrees(n) \cup {"copy"})
      /\ UNCHANGED <<platform, method, lists, null, crashed>>
  BY <1>1 DEF PostResult
<1>4. IInv' /\ OthersSame(n)
  BY <1>1, <1>3, PostStep
<1>5. /\ TypeOK /\ PlaceInv /\ WorkerInv /\ CallTypeOK /\ misused = {}
      /\ TypeOK' /\ PlaceInv' /\ WorkerInv'
  BY <1>4 DEF IInv, LedgerInv
<1>6. /\ worker[w].pc = "post" /\ n \in Calls /\ With(w, n)
      /\ UNCHANGED <<made, slot, thread>> /\ PostTo(n)
  <2>1. worker[w].pc = "post"
    BY <1>3 DEF Post
  <2>2. n \in Calls
    BY <1>1, <1>5, <2>1, RunningFacts
  <2>3. UNCHANGED <<made, slot, thread>> /\ PostTo(n)
    BY <1>1, <1>3 DEF Post
  <2> QED
    BY <1>1, <2>1, <2>2, <2>3 DEF With
<1>7. LedgerOf(n)
  BY <1>5, <1>6 DEF LedgerInv
<1>8. m \in Methods /\ held[n] = (Arguments(m) \ {"clone"}) \cup Given(n)
  <2>1. m # NoMethod /\ held[n] = (Arguments(m) \ {"clone"}) \cup Given(n)
    BY <1>2, <1>6, <1>7 DEF LedgerOf
  <2> QED
    BY <1>2, <1>5, <1>6, <2>1 DEF CallTypeOK
<1>9. /\ PostFrees(n) \subseteq Given(n) /\ PostFrees(n) \subseteq {"text"}
      /\ Given(n) \ PostFrees(n) = Given(n) \ {"text"}
      /\ "copy" \notin Given(n)
  BY <1>2, <1>5, <1>6, <1>8, GivenFacts
<1>10. /\ m # NoMethod /\ Awaits[m].arena \subseteq {"arena"}
       /\ Jobs[m].copies \subseteq {"copy", "clone"}
       /\ Arguments(m) = Awaits[m].arena \cup Jobs[m].copies
  BY <1>5, <1>8, TableFacts
<1>11. misused' = {}
  BY <1>3, <1>5, <1>8, <1>9 DEF Uses
<1>12. held[n] \ (PostFrees(n) \cup {"copy"}) = Awaits[m].arena \cup (Given(n) \ {"text"})
  <2>1. PICK g : g = Given(n)
    OBVIOUS
  <2>2. PICK f : f = PostFrees(n)
    OBVIOUS
  <2>3. PICK a : a = Awaits[m].arena
    OBVIOUS
  <2>4. PICK c : c = Jobs[m].copies
    OBVIOUS
  <2>5. /\ held[n] = ((a \cup c) \ {"clone"}) \cup g /\ a \subseteq {"arena"}
        /\ c \subseteq {"copy", "clone"} /\ f \subseteq {"text"} /\ "copy" \notin g
        /\ g \ f = g \ {"text"}
    BY <1>8, <1>9, <1>10, <2>1, <2>2, <2>3, <2>4
  <2>6. (((a \cup c) \ {"clone"}) \cup g) \ (f \cup {"copy"}) = a \cup (g \ {"text"})
    <3>1. ASSUME NEW x PROVE x \in g \ f <=> x \in g \ {"text"}
      BY <2>5
    <3> QED
      BY <2>5, <3>1
  <2> QED
    BY <2>1, <2>2, <2>3, <2>5, <2>6
<1>13. /\ held'[n] = Awaits[m].arena \cup (Given(n) \ {"text"})
       /\ held' \in [Calls -> SUBSET Allocations]
       /\ \A k \in Calls : k # n => SameLedger(k)
  <2>1. held \in [Calls -> SUBSET Allocations]
    BY <1>5 DEF CallTypeOK
  <2>2. held' = [held EXCEPT ![n] = @ \ (PostFrees(n) \cup {"copy"})]
    BY <1>3 DEF Frees
  <2>3. held'[n] = held[n] \ (PostFrees(n) \cup {"copy"})
    BY <1>6, <2>1, <2>2
  <2>4. held' \in [Calls -> SUBSET Allocations] /\ \A k \in Calls : k # n => held'[k] = held[k]
    BY <1>6, <2>1, <2>2
  <2> QED
    BY <1>3, <1>12, <2>3, <2>4 DEF SameLedger
<1>14. CallTypeOK'
  BY <1>3, <1>5, <1>11, <1>13 DEF CallTypeOK
<1>15. Given(n)' = Given(n) /\ method'[n] = m
  BY <1>2, <1>3, <1>6 DEF Given, Failed, Gives
<1>16. \E j \in Isolates : Posted(j, n)'
  <2>1. /\ ~(n > Len(made)) /\ \A j \in Isolates : ~Posted(j, n)
    BY <1>5, <1>6, AtWorker
  <2>2. n <= Len(made)
    BY <1>5, <1>6, <2>1, DispatchOK DEF TypeOK, Calls
  <2>3. PostTo(n)
    BY <1>6
  <2>4. made[n] \in Isolates /\ \A j \in Isolates : j = made[n] => Posted(j, n)'
    BY <1>5, <1>6, <2>1, <2>2, <2>3, PostToFacts
  <2>5. PICK j \in Isolates : j = made[n]
    BY <2>4
  <2> QED
    BY <2>4, <2>5
<1>17. /\ Placed(n)' /\ ~(n > Len(made')) /\ ~Queued(n)' /\ \A u \in Workers : ~With(u, n)'
  <2>1. PlaceOf(n)'
    BY <1>5, <1>6 DEF PlaceInv
  <2> QED
    BY <1>16, <2>1 DEF PlaceOf, Placed
<1>18. LedgerOf(n)'
  <2>1. thread'[n] # "none" => method'[n] = NoMethod
    BY <1>3, <1>6, <1>7 DEF LedgerOf
  <2>2. n \notin lists'
    BY <1>3, <1>5, <1>6, <1>7, AtWorker DEF LedgerOf
  <2> QED
    BY <1>10, <1>13, <1>15, <1>17, <2>1, <2>2 DEF LedgerOf
<1>19. \A k \in Calls : k # n => LedgerOf(k)'
  BY <1>3, <1>4, <1>13, OthersLedger
<1> QED
  BY <1>11, <1>14, <1>18, <1>19 DEF LedgerInv

\* Dart has decoded and freed the result, or has made a list that owns it, and
\* the arena is released.
LEMMA CompleteFutureStep ==
  ASSUME IInv, LedgerInv, NEW i \in Isolates, CompleteFuture(i)
  PROVE  LedgerInv'
<1>1. PICK n : n = Head(inbox[i])
  OBVIOUS
<1>2. PICK m : m = method[n]
  OBVIOUS
<1> DEFINE value == m # NoMethod /\ ~Failed(n) /\ n \notin null
<1>3. PICK gone : gone = (IF value THEN Awaits[m].frees ELSE {})
                         \cup (IF m = NoMethod THEN {} ELSE Awaits[m].arena)
  OBVIOUS
<1>4. /\ Answer(i) /\ Uses(n, gone) /\ Frees(n, gone)
      /\ lists' = IF value /\ Awaits[m].keeps # {} THEN lists \cup {n} ELSE lists
      /\ UNCHANGED <<platform, method, null, crashed>>
  BY <1>1, <1>2, <1>3 DEF CompleteFuture
<1>5. IInv' /\ OthersSame(n)
  BY <1>1, <1>4, AnswerStep
<1>6. /\ TypeOK /\ PlaceInv /\ CallTypeOK /\ misused = {} /\ TypeOK'
      /\ inbox[i] # <<>> /\ inbox' = [inbox EXCEPT ![i] = Tail(@)]
      /\ UNCHANGED <<made, queue, worker, thread>>
  BY <1>4, <1>5 DEF IInv, LedgerInv, Answer
<1>7. /\ n \in Calls /\ Posted(i, n) /\ \A j : In(Tail(inbox[i]), j) <=> In(inbox[i], j) /\ j # n
  BY <1>1, <1>6, TailFacts DEF TypeOK, PlaceInv, Posted
<1>8. LedgerOf(n) /\ n \notin lists
  BY <1>6, <1>7, InMessage DEF LedgerInv, LedgerOf
<1>17. PICK left : left = (IF value THEN Awaits[m].keeps ELSE {})
  OBVIOUS
<1>9. held[n] = gone \cup left /\ gone \cap left = {}
  <2>1. CASE m = NoMethod
    BY <1>2, <1>3, <1>8, <1>17, <2>1 DEF LedgerOf
  <2>2. CASE m # NoMethod
    <3>1. m \in Methods
      BY <1>2, <1>6, <1>7, <2>2 DEF CallTypeOK
    <3>2. held[n] = Awaits[m].arena \cup (Given(n) \ {"text"})
      BY <1>2, <1>7, <1>8, <2>2 DEF LedgerOf
    <3>3. Given(n) \ {"text"} = IF value THEN Awaits[m].frees \cup Awaits[m].keeps ELSE {}
      BY <1>2, <1>6, <1>7, <2>2, <3>1, GivenFacts
    <3>4. /\ Awaits[m].arena \subseteq {"arena"}
          /\ Awaits[m].frees \cup Awaits[m].keeps \subseteq {"optional", "struct", "block"}
          /\ Awaits[m].frees \cap Awaits[m].keeps = {}
      BY <1>6, <3>1, TableFacts
    <3> QED
      BY <1>3, <1>17, <2>2, <3>2, <3>3, <3>4
  <2> QED
    BY <2>1, <2>2
<1>10. misused' = {}
  BY <1>4, <1>6, <1>9 DEF Uses
<1>11. /\ held'[n] = left /\ held' \in [Calls -> SUBSET Allocations]
       /\ \A k \in Calls : k # n => SameLedger(k)
  <2>1. held \in [Calls -> SUBSET Allocations]
    BY <1>6 DEF CallTypeOK
  <2>2. held' = [held EXCEPT ![n] = @ \ gone]
    BY <1>4 DEF Frees
  <2>3. held'[n] = held[n] \ gone
    BY <1>7, <2>1, <2>2
  <2>4. held' \in [Calls -> SUBSET Allocations] /\ \A k \in Calls : k # n => held'[k] = held[k]
    BY <1>7, <2>1, <2>2
  <2>5. \A k : k # n => (k \in lists' <=> k \in lists)
    BY <1>4
  <2>6. held'[n] = left
    BY <1>9, <2>3
  <2> QED
    BY <1>4, <2>4, <2>5, <2>6 DEF SameLedger
<1>12. CallTypeOK'
  <2>1. lists' \subseteq Calls
    BY <1>4, <1>6, <1>7 DEF CallTypeOK
  <2> QED
    BY <1>4, <1>6, <1>10, <1>11, <2>1 DEF CallTypeOK
<1>13. /\ ~(n > Len(made')) /\ ~Queued(n)' /\ \A w \in Workers : ~With(w, n)'
       /\ \A j \in Isolates : ~Posted(j, n)' /\ ~Placed(n)'
  <2>1. /\ ~(n > Len(made)) /\ ~Queued(n) /\ \A w \in Workers : ~With(w, n)
        /\ \A j \in Isolates : Posted(j, n) => j = i
        /\ ~Detached(n)
    <3>1. PlaceOf(n)
      BY <1>6, <1>7 DEF PlaceInv
    <3> QED
      BY <1>7, <3>1 DEF PlaceOf
  <2>2. ASSUME NEW j \in Isolates PROVE ~Posted(j, n)'
    <3>1. CASE j = i
      <4>1. inbox'[i] = Tail(inbox[i])
        BY <1>6 DEF TypeOK
      <4>2. ~In(Tail(inbox[i]), n)
        BY <1>7
      <4> QED
        BY <3>1, <4>1, <4>2 DEF Posted
    <3>2. CASE j # i
      BY <1>6, <2>1, <3>2 DEF Posted, TypeOK
    <3> QED
      BY <3>1, <3>2
  <2>3. ~Queued(n)' /\ (\A w \in Workers : ~With(w, n)') /\ ~Detached(n)'
    BY <1>6, <2>1 DEF Queued, With, Detached
  <2> QED
    BY <1>6, <2>1, <2>2, <2>3 DEF Placed
<1>18. Listed(n)' = left /\ method'[n] = m /\ (m = NoMethod => left = {} /\ n \notin lists')
  BY <1>2, <1>4, <1>8, <1>17 DEF Listed
<1>14. LedgerOf(n)'
  BY <1>2, <1>4, <1>6, <1>8, <1>11, <1>13, <1>18 DEF LedgerOf
<1>15. \A k \in Calls : k # n => LedgerOf(k)'
  BY <1>4, <1>5, <1>11, OthersLedger
<1> QED
  BY <1>10, <1>12, <1>14, <1>15 DEF LedgerInv

\* Dart has dropped a lazy list: its finalizer frees the block, and only that.
LEMMA CollectStep ==
  ASSUME IInv, IInv', LedgerInv, NEW n \in Calls, Collect(n)
  PROVE  LedgerInv'
<1>1. /\ n \in lists /\ Uses(n, Listed(n)) /\ Frees(n, Listed(n)) /\ lists' = lists \ {n}
      /\ UNCHANGED <<vars, platform, method, null, crashed>>
  BY DEF Collect
<1>2. /\ TypeOK /\ CallTypeOK /\ misused = {} /\ LedgerOf(n)
  BY DEF IInv, LedgerInv
<1>3. ~Placed(n) /\ method[n] # NoMethod /\ n <= Len(made)
  BY <1>1, <1>2, DispatchOK DEF LedgerOf, TypeOK, Calls
<1>4. held[n] = Listed(n)
  BY <1>2, <1>3 DEF LedgerOf
<1>5. misused' = {}
  BY <1>1, <1>2, <1>4 DEF Uses
<1>6. /\ held'[n] = {} /\ held' \in [Calls -> SUBSET Allocations]
      /\ \A k \in Calls : k # n => held'[k] = held[k]
  BY <1>1, <1>2, <1>4 DEF Frees, CallTypeOK
<1>7. CallTypeOK'
  BY <1>1, <1>2, <1>5, <1>6 DEF CallTypeOK
<1>8. \A m \in Calls : SameCall(m)
  BY <1>1 DEF SameCall, Queued, With, Posted, vars
<1>9. ASSUME NEW m \in Calls, m # n PROVE LedgerOf(m)'
  <2>1. SameLedger(m)
    BY <1>1, <1>6, <1>9 DEF SameLedger
  <2> QED
    BY <1>1, <1>8, <2>1, SameLedgerStep DEF LedgerInv, IInv
<1>10. LedgerOf(n)'
  <2>1. /\ ~Placed(n) /\ ~Queued(n) /\ (\A w \in Workers : ~With(w, n))
        /\ (\A i \in Isolates : ~Posted(i, n)) /\ thread[n] = "none"
    BY <1>2, <1>3 DEF Placed, LedgerOf
  <2>2. /\ ~Placed(n)' /\ ~Queued(n)' /\ (\A w \in Workers : ~With(w, n)')
        /\ (\A i \in Isolates : ~Posted(i, n)')
    BY <1>1, <2>1 DEF Placed, Detached, Queued, With, Posted, vars
  <2>3. Listed(n)' = {} /\ n \notin lists'
    BY <1>1 DEF Listed
  <2> QED
    BY <1>1, <1>2, <1>3, <1>6, <2>1, <2>2, <2>3 DEF LedgerOf, vars
<1> QED
  BY <1>5, <1>7, <1>9, <1>10 DEF LedgerInv

\* Nothing happens to the memory when every call is left as it is.
LEMMA QuietLedger ==
  ASSUME IInv, IInv', LedgerInv, UNCHANGED <<platform, method, held, lists, null, misused>>,
         crashed' \in BOOLEAN, \A m \in Calls : SameCall(m)
  PROVE  LedgerInv'
<1>1. ASSUME NEW m \in Calls PROVE LedgerOf(m)'
  <2>1. SameLedger(m)
    BY DEF SameLedger
  <2> QED
    BY <2>1, SameLedgerStep DEF LedgerInv, IInv
<1>2. CallTypeOK' /\ misused' = {}
  BY DEF LedgerInv, CallTypeOK
<1> QED
  BY <1>1, <1>2 DEF LedgerInv

\* A step of the pool that concerns one call and no memory.
LEMMA OneCallLedger ==
  ASSUME IInv, IInv', LedgerInv, UNCHANGED ledger, NEW n \in Calls, OthersSame(n), LedgerOf(n)'
  PROVE  LedgerInv'
<1>1. \A m \in Calls : SameLedger(m)
  BY DEF SameLedger, ledger
<1>2. \A m \in Calls : m # n => LedgerOf(m)'
  BY <1>1, OthersLedger DEF ledger
<1>3. CallTypeOK' /\ misused' = {}
  BY DEF LedgerInv, CallTypeOK, ledger
<1> QED
  BY <1>2, <1>3 DEF LedgerInv

\* A worker takes the job of a call: the memory goes with it.
LEMMA LookLedger ==
  ASSUME IInv, LedgerInv, NEW w \in Workers, Look(w), UNCHANGED ledger
  PROVE  LedgerInv'
<1>1. PICK n : n = Head(queue)
  OBVIOUS
<1>2. IInv' /\ OthersSame(n)
  BY <1>1, LookStep
<1>3. /\ TypeOK /\ PlaceInv /\ WorkerInv /\ PlaceInv' /\ TypeOK'
      /\ queue # <<>> /\ UNCHANGED <<made, slot, thread>>
      /\ worker' = [worker EXCEPT ![w].pc = "run", ![w].call = n]
  BY <1>1, <1>2 DEF IInv, Look
<1>4. n \in Calls /\ Queued(n)
  BY <1>1, <1>3, TailFacts DEF TypeOK, PlaceInv, Queued
<1>5. LedgerOf(n)
  BY <1>4 DEF LedgerInv
<1>6. worker'[w].pc = "run" /\ worker'[w].call = n
  BY <1>3 DEF TypeOK
<1>7. With(w, n)' /\ Placed(n)' /\ ~Queued(n)' /\ ~(n > Len(made'))
      /\ (\A u \in Workers : With(u, n)' => u = w) /\ \A i \in Isolates : ~Posted(i, n)'
  <2>1. PlaceOf(n)'
    BY <1>3, <1>4 DEF PlaceInv
  <2>2. With(w, n)'
    BY <1>6 DEF With
  <2> QED
    BY <2>1, <2>2 DEF PlaceOf, Placed
<1>8. method[n] # NoMethod /\ Asked(n)' /\ method'[n] = method[n] /\ n \notin lists'
  BY <1>3, <1>4, <1>5, InQueue DEF LedgerOf, Asked, Arguments, ledger
<1>9. LedgerOf(n)'
  BY <1>3, <1>5, <1>6, <1>7, <1>8 DEF LedgerOf
<1> QED
  BY <1>2, <1>4, <1>9, OneCallLedger

\* The error goes to the slot, so the call gives nothing.
LEMMA MoveErrorLedger ==
  ASSUME IInv, LedgerInv, NEW w \in Workers, MoveError(w), UNCHANGED ledger
  PROVE  LedgerInv'
<1>1. PICK n : n = worker[w].call
  OBVIOUS
<1>2. IInv' /\ OthersSame(n)
  BY <1>1, MoveErrorStep
<1>3. /\ TypeOK /\ PlaceInv /\ WorkerInv /\ PlaceInv' /\ TypeOK'
      /\ worker[w].pc = "move" /\ UNCHANGED <<made, thread, queue, inbox>>
      /\ slot' = [slot EXCEPT ![n].text = worker[w].text]
      /\ worker' = [worker EXCEPT ![w].pc = "post", ![w].text = NoCall]
  BY <1>1, <1>2 DEF IInv, MoveError
<1>4. n \in Calls /\ n # NoCall /\ n \in Texts /\ NoCall \in Texts
  BY <1>1, <1>3, RunningFacts
<1>5. With(w, n) /\ LedgerOf(n)
  BY <1>1, <1>4 DEF With, LedgerInv
<1>6. Failed(n)'
  <2>1. worker[w].text = n
    BY <1>1, <1>3 DEF WorkerInv
  <2>2. slot' = [slot EXCEPT ![n].text = n] /\ TypeOK
    BY <1>3, <2>1
  <2>3. slot'[n].text = n
    BY <1>4, <2>2, SlotStepFacts
  <2> QED
    BY <1>4, <2>3 DEF Failed
<1>7. worker'[w].call = n /\ worker'[w].pc = "post"
  BY <1>1, <1>3, <1>4, WorkerStepFacts
<1>8. With(w, n)' /\ Placed(n)' /\ ~Queued(n)' /\ ~(n > Len(made'))
      /\ (\A u \in Workers : With(u, n)' => u = w) /\ \A i \in Isolates : ~Posted(i, n)'
  <2>1. PlaceOf(n)'
    BY <1>3, <1>4 DEF PlaceInv
  <2>2. With(w, n)'
    BY <1>7 DEF With
  <2> QED
    BY <2>1, <2>2 DEF PlaceOf, Placed
<1>9. /\ method'[n] = method[n] /\ method[n] # NoMethod /\ Given(n)' = {}
      /\ held'[n] = (Arguments(method'[n]) \ {"clone"}) \cup Given(n)' /\ n \notin lists'
  <2>1. method'[n] = method[n] /\ held'[n] = held[n]
    BY DEF ledger
  <2>2. method[n] # NoMethod /\ held[n] = Arguments(method[n]) \ {"clone"}
    BY <1>3, <1>5 DEF LedgerOf
  <2>4. n \notin lists'
    BY <1>3, <1>4, <1>5, AtWorker DEF LedgerOf, ledger
  <2>3. Given(n)' = {}
    BY <1>6 DEF Given
  <2> QED
    BY <2>1, <2>2, <2>3, <2>4
<1>10. LedgerOf(n)'
  BY <1>3, <1>5, <1>7, <1>8, <1>9 DEF LedgerOf
<1> QED
  BY <1>2, <1>4, <1>10, OneCallLedger

\* A call with a thread of its own keeps nothing.
LEMMA DetachedLedger ==
  ASSUME IInv, IInv', LedgerInv, UNCHANGED ledger, NEW n \in Calls, OthersSame(n),
         n > Len(made) \/ Detached(n), thread'[n] # "none", UNCHANGED <<queue, worker>>
  PROVE  LedgerInv'
<1>1. PlaceOf(n) /\ PlaceOf(n)' /\ LedgerOf(n)
  BY DEF IInv, PlaceInv, LedgerInv
<1>2. method[n] = NoMethod /\ held[n] = {} /\ n \notin lists
  BY <1>1 DEF LedgerOf, Detached
<1>3. method'[n] = NoMethod /\ held'[n] = {} /\ n \notin lists'
  BY <1>2 DEF ledger
<1>4. /\ ~Queued(n) /\ \A w \in Workers : ~With(w, n)
  BY <1>1 DEF PlaceOf
<1>5. /\ ~Queued(n)' /\ \A w \in Workers : ~With(w, n)'
  BY <1>4 DEF Queued, With
<1>6. ~(n > Len(made'))
  BY <1>1 DEF PlaceOf
<1>7. LedgerOf(n)'
  BY <1>3, <1>5, <1>6 DEF LedgerOf, Listed
<1> QED
  BY <1>7, OneCallLedger

\* The steps of the pool that own nothing keep the ledger.
LEMMA OtherStepLedger ==
  ASSUME IInv, LedgerInv, OtherStep
  PROVE  LedgerInv'
<1>1. UNCHANGED ledger /\ crashed \in BOOLEAN
  BY DEF OtherStep, LedgerInv, CallTypeOK
<1>2. UNCHANGED <<platform, method, held, lists, null, misused>> /\ crashed' \in BOOLEAN
  BY <1>1 DEF ledger
<1>3. ASSUME NEW i \in Isolates, Notify(i) PROVE LedgerInv'
  BY <1>2, <1>3, NotifyStep, QuietLedger
<1>4. ASSUME NEW w \in Workers, Sleep(w) PROVE LedgerInv'
  BY <1>2, <1>4, SleepStep, QuietLedger
<1>5. ASSUME NEW w \in Workers, Look(w) \/ MoveError(w) PROVE LedgerInv'
  BY <1>1, <1>5, LookLedger, MoveErrorLedger
<1>6. ASSUME NEW i \in Isolates, NEW n \in Calls, CallDetached(i, n) PROVE LedgerInv'
  <2>1. IInv' /\ OthersSame(n)
    BY <1>6, CallDetachedStep
  <2>2. n = Len(made) + 1 /\ thread' = [thread EXCEPT ![n] = "write"] /\ UNCHANGED <<queue, worker>>
    BY <1>6 DEF CallDetached, NewCall
  <2>3. n > Len(made) /\ thread'[n] # "none"
    BY <2>2 DEF IInv, TypeOK
  <2> QED
    BY <1>1, <2>1, <2>2, <2>3, DetachedLedger
<1>7. ASSUME NEW n \in Calls, ThreadStep(n) PROVE LedgerInv'
  <2>1. IInv' /\ OthersSame(n)
    BY <1>7, DetachedWriteStep, DetachedPostStep DEF ThreadStep
  <2>2. /\ thread[n] \in {"write", "post"} /\ UNCHANGED <<queue, worker>>
        /\ \/ thread' = [thread EXCEPT ![n] = "post"]
           \/ thread' = [thread EXCEPT ![n] = "done"]
    BY <1>7 DEF ThreadStep, DetachedWrite, DetachedPost
  <2>3. Detached(n) /\ thread'[n] # "none"
    BY <2>2 DEF IInv, TypeOK, Detached
  <2> QED
    BY <1>1, <2>1, <2>2, <2>3, DetachedLedger
<1> QED
  BY <1>3, <1>4, <1>5, <1>6, <1>7 DEF OtherStep

-----------------------------------------------------------------------------
\* Every step of a call is a step of the pool.
LEMMA CallStepRefines ==
  ASSUME [CallNext]_callVars
  PROVE  [Next]_vars
<1>1. ASSUME NEW i \in Isolates, NEW n \in Calls, NEW m \in Methods, CallPool(i, n, m)
      PROVE  Next
  BY <1>1 DEF CallPool, Next
<1>2. ASSUME NEW i \in Isolates, CompleteFuture(i) PROVE Next
  BY <1>2 DEF CompleteFuture, Next
<1>3. ASSUME NEW i \in Isolates, ReadNull(i) PROVE UNCHANGED vars
  BY <1>3 DEF ReadNull
<1>4. ASSUME NEW w \in Workers, RunExport(w) \/ PostResult(w) PROVE Next
  BY <1>4 DEF RunExport, PostResult, Next, WorkerStep
<1>5. ASSUME OtherStep PROVE Next
  BY <1>5 DEF OtherStep, Next, WorkerStep
<1>6. CASE UNCHANGED callVars
  BY <1>6 DEF callVars, vars
<1>7. ASSUME NEW n \in Calls, Collect(n) PROVE UNCHANGED vars
  BY <1>7 DEF Collect
<1> QED
  BY <1>1, <1>2, <1>3, <1>4, <1>5, <1>6, <1>7 DEF CallNext

(***************************************************************************)
(* The calls run on the pool as it is: whatever AsyncDispatch promises of  *)
(* slots, answers and error texts holds of calls that pass memory.         *)
(***************************************************************************)
THEOREM CallsRefinePool == CallSpec => Spec
<1>1. CallInit => Init
  BY DEF CallInit
<1>2. [CallNext]_callVars => [Next]_vars
  BY CallStepRefines
<1> QED
  BY <1>1, <1>2, PTL DEF CallSpec, Spec

LEMMA CallInitInv ==
  ASSUME CallInit
  PROVE  LedgerInv
<1>1. IInv
  BY InitInv DEF CallInit
<1>2. CallTypeOK /\ misused = {}
  BY DEF CallInit, CallTypeOK
<1>3. ASSUME NEW n \in Calls PROVE LedgerOf(n)
  <2>1. method[n] = NoMethod /\ held[n] = {} /\ n \notin null /\ n \notin lists
    BY DEF CallInit
  <2>2. n > Len(made)
    BY DispatchOK DEF CallInit, Init, Calls
  <2>3. ~Queued(n) /\ (\A w \in Workers : ~With(w, n)) /\ (\A i \in Isolates : ~Posted(i, n))
    BY <1>1, <2>2 DEF IInv, PlaceInv, PlaceOf
  <2>4. ~(n <= Len(made))
    BY <1>1, <2>2 DEF IInv, TypeOK, Calls
  <2> QED
    BY <2>1, <2>3, <2>4 DEF LedgerOf
<1> QED
  BY <1>2, <1>3 DEF LedgerInv

LEMMA LedgerStep ==
  ASSUME IInv, LedgerInv, [CallNext]_callVars
  PROVE  LedgerInv'
<1>1. IInv'
  BY CallStepRefines, InvStep
<1>2. ASSUME NEW i \in Isolates, NEW n \in Calls, NEW m \in Methods, CallPool(i, n, m)
      PROVE  LedgerInv'
  BY <1>2, CallPoolStep
<1>3. ASSUME NEW i \in Isolates, CompleteFuture(i) PROVE LedgerInv'
  BY <1>3, CompleteFutureStep
<1>4. ASSUME NEW w \in Workers, RunExport(w) \/ PostResult(w) PROVE LedgerInv'
  BY <1>4, RunExportStep, PostResultStep
<1>5. ASSUME OtherStep PROVE LedgerInv'
  BY <1>5, OtherStepLedger
<1>6. ASSUME UNCHANGED <<vars, platform, method, held, lists, null, misused>>, crashed' \in BOOLEAN
      PROVE  LedgerInv'
  <2>1. \A m \in Calls : SameCall(m)
    BY <1>6 DEF SameCall, Queued, With, Posted, vars
  <2> QED
    BY <1>1, <1>6, <2>1, QuietLedger
<1>7. ASSUME NEW i \in Isolates, ReadNull(i) PROVE LedgerInv'
  BY <1>6, <1>7 DEF ReadNull
<1>9. ASSUME NEW n \in Calls, Collect(n) PROVE LedgerInv'
  BY <1>1, <1>9, CollectStep
<1>8. CASE UNCHANGED callVars
  <2>1. crashed \in BOOLEAN
    BY DEF LedgerInv, CallTypeOK
  <2> QED
    BY <1>6, <1>8, <2>1 DEF callVars, vars
<1> QED
  BY <1>2, <1>3, <1>4, <1>5, <1>7, <1>8, <1>9 DEF CallNext

\* The pool's invariant and the ledger hold in every behaviour of the calls.
LEMMA CallInvariant == CallSpec => [](IInv /\ LedgerInv)
<1>1. CallInit => IInv /\ LedgerInv
  BY InitInv, CallInitInv DEF CallInit
<1>2. IInv /\ LedgerInv /\ [CallNext]_callVars => (IInv /\ LedgerInv)'
  BY CallStepRefines, InvStep, LedgerStep
<1> QED
  BY <1>1, <1>2, PTL DEF CallSpec

(***************************************************************************)
(* On every build, and for any number of calls, isolates and workers: what *)
(* a job or Dart reads or frees is allocated for its call and not freed.   *)
(***************************************************************************)
THEOREM OwnersCorrect == CallSpec => []OwnersAgree
<1>1. IInv /\ LedgerInv => OwnersAgree
  BY DEF LedgerInv, OwnersAgree
<1> QED
  BY <1>1, CallInvariant, PTL

(***************************************************************************)
(* An answered call has given back its arena, its copies and its result,   *)
(* whether it threw, gave null or gave a value; all it may keep is the     *)
(* block of a lazy list that Dart still has, for the list's finalizer.     *)
(***************************************************************************)
THEOREM NothingKeptCorrect == CallSpec => []NothingKept
<1>1. ASSUME IInv, LedgerInv, NEW n \in Calls, answer[n] # <<>>
      PROVE  held[n] = Listed(n)
  <2>1. SlotOf(n) /\ LedgerOf(n) /\ TypeOK
    BY <1>1 DEF IInv, SlotInv, LedgerInv
  <2>2. ~(n > Len(made)) /\ ~Placed(n)
    BY <1>1, <2>1 DEF SlotOf
  <2>3. n <= Len(made)
    BY <2>1, <2>2, DispatchOK DEF TypeOK, Calls
  <2> QED
    BY <2>1, <2>2, <2>3 DEF LedgerOf
<1>2. IInv /\ LedgerInv => NothingKept
  BY <1>1 DEF NothingKept
<1> QED
  BY <1>2, CallInvariant, PTL

================================================================================
