-------------------------- MODULE InstanceTableProofs --------------------------
(***************************************************************************)
(* Proofs about InstanceTable for any sets of threads, ports and addresses, *)
(* any number of instances and any number of cache slots: what a lookup    *)
(* without the mutex finds, and which ports the registry holds.            *)
(***************************************************************************)
EXTENDS InstanceTable, TLAPS

\* A thread that holds the mutex between two steps, and one that is in a call.
Holds(t)  == th[t].pc \in {"fill", "clearId", "clearPtr"}
InCall(t) == th[t].pc \in {"hit", "miss", "fill", "found"}

\* Ids are given out once, in order, and live instances have an address each.
IdsInv ==
  /\ \A i \in Ids : was[i] # None <=> i <= nextId
  /\ \A i \in Ids : table[i] # None => table[i] = was[i]
  /\ \A i, j \in Ids : table[i] # None /\ table[i] = table[j] => i = j
  /\ \A t \in Threads : th[t].pc = "insert" =>
       /\ th[t].ptr \in Heap /\ nextId < MaxId
       /\ \A i \in Ids : table[i] # th[t].ptr
       /\ \A u \in Threads : th[u].pc = "insert" => u = t

MutexInv == \A t \in Threads : Holds(t) <=> mtx = t

\* What a thread in a call knows of the instance it asked for.
CallInv ==
  \A t \in Threads :
    /\ InCall(t) => was[th[t].id] # None
    /\ InCall(t) /\ t \in Isolates => home[th[t].id] = t /\ table[th[t].id] # None
    /\ th[t].pc = "miss" => th[t].ptr = None
    /\ th[t].pc = "fill" => /\ th[t].ptr = table[th[t].id] /\ table[th[t].id] # None
                            /\ cache[Slot(th[t].id)].ptr = th[t].ptr

\* A slot that names an instance has its pointer, or that of a miss half done.
CacheInv ==
  /\ \A s \in Slots : cache[s].id # -1 =>
       /\ Slot(cache[s].id) = s /\ was[cache[s].id] # None
       /\ cache[s].ptr # was[cache[s].id] =>
            \E t \in Threads : /\ th[t].pc = "fill" /\ Slot(th[t].id) = s
                               /\ th[t].id # cache[s].id
  /\ \A t \in Threads : th[t].pc = "clearPtr" => cache[th[t].slot].id = -1

\* A hit will load the pointer of its instance, unless something passed between.
HitInv ==
  \A t \in Threads : th[t].pc = "hit" /\ ~th[t].crossed =>
    LET c == cache[Slot(th[t].id)] IN
    c.ptr = was[th[t].id] \/ (c.ptr = None /\ th[t].cleared)

\* A port is being opened by the thread that carries it, and by no other.
PortInv ==
  /\ \A t \in Threads : th[t].port # None =>
       /\ InCall(t) /\ t \in Isolates
       /\ port[th[t].port].state = "opening"
       /\ port[th[t].port].id = th[t].id /\ port[th[t].port].iso = t
  /\ \A p \in Ports : /\ was[port[p].id] # None
                      /\ port[p].state \in {"new", "opening"} =>
                           \A a \in Pointer : p \notin subs[a]

IInv == /\ TypeOK /\ IdsInv /\ MutexInv /\ CallInv /\ CacheInv /\ HitInv
        /\ PortInv /\ LookupFindsOwn /\ SubscribersExact


\* An id has a slot of the cache.
LEMMA SlotType == ASSUME NEW i \in Ids PROVE Slot(i) \in Slots
  BY InstanceOK DEF Ids, Slot, Slots

\* Whether a slot is half filled is a yes or a no.
LEMMA HalfFilledType == ASSUME NEW i PROVE HalfFilled(i) \in BOOLEAN
  BY DEF HalfFilled

\* The fields of a record of a lookup under way, and what a change of one leaves.
LEMMA CallingFields ==
  ASSUME TypeOK, NEW t \in Threads
  PROVE  /\ th[t] \in Calling /\ th[t].id \in Ids /\ th[t].slot \in Slots
         /\ th[t].ptr \in Pointer /\ th[t].port \in Ports \cup {None}
         /\ Slot(th[t].id) \in Slots /\ cache[Slot(th[t].id)] \in Line
  BY SlotType DEF TypeOK, Calling

\* What a step makes of a record of a thread, of a port and of the cache.
LEMMA CallingSteps ==
  ASSUME NEW c \in Calling
  PROVE  /\ [c EXCEPT !.pc = "found"] \in Calling
         /\ [c EXCEPT !.pc = "clearPtr"] \in Calling
         /\ [c EXCEPT !.crossed = TRUE] \in Calling
         /\ [c EXCEPT !.cleared = TRUE] \in Calling
         /\ [c EXCEPT !.pc = "clearId", !.slot = 0] \in Calling
<1>1. 0 \in Slots
  BY InstanceOK DEF Slots
<1> QED
  BY <1>1 DEF Calling

\* A lookup that loads or finds a pointer stays a lookup.
LEMMA CallingPtrSteps ==
  ASSUME NEW c \in Calling, NEW a \in Pointer
  PROVE  /\ [c EXCEPT !.pc = "found", !.ptr = a] \in Calling
         /\ [c EXCEPT !.pc = "fill", !.ptr = a] \in Calling
  BY DEF Calling

\* The record of a user that does nothing is a record of a lookup.
LEMMA IdleType == /\ Idle \in Calling
                  /\ Idle.pc = "idle" /\ Idle.port = None
  BY InstanceOK DEF Idle, Calling, Ids, Pointer, Slots

\* What the actions do to the record of a port keeps its type.
LEMMA SubscriptionSteps ==
  ASSUME NEW q \in Subscription
  PROVE  /\ [q EXCEPT !.state = "closed"] \in Subscription
         /\ \A i \in Ids, t \in Isolates :
              [q EXCEPT !.state = "opening", !.id = i, !.iso = t] \in Subscription
         /\ \A c \in Calling :
              [q EXCEPT !.state = "open", !.crossed = c.crossed, !.cleared = c.cleared]
                \in Subscription
  BY DEF Subscription, Calling

\* What the actions do to a line of the cache keeps its type.
LEMMA LineSteps ==
  ASSUME NEW l \in Line
  PROVE  /\ [l EXCEPT !.id = -1] \in Line /\ [l EXCEPT !.ptr = None] \in Line
         /\ \A i \in Ids : [l EXCEPT !.id = i] \in Line
         /\ \A a \in Pointer : [l EXCEPT !.ptr = a] \in Line
  BY DEF Line, Pointer

\* A call that starts: what the first load of the cache tells its thread.
LEMMA LoadIdFacts ==
  ASSUME TypeOK, IdsInv, CacheInv, NEW t \in Threads, NEW i \in Ids,
         NEW q \in Ports \cup {None}, LoadId(t, i, q)
  PROVE  /\ th[t].pc = "idle" /\ was[i] # None
         /\ t \in Isolates => home[i] = t /\ table[i] # None
         /\ th' \in [Threads -> Calling]
         /\ th'[t].pc \in {"hit", "miss"} /\ th'[t].id = i /\ th'[t].ptr = None
         /\ th'[t].port = q
         /\ th'[t].pc = "hit" /\ ~th'[t].crossed => cache[Slot(i)].ptr = was[i]
         /\ \A u \in Threads : u # t => th'[u] = th[u]
<1> DEFINE c == [Idle EXCEPT !.pc = IF cache[Slot(i)].id = i THEN "hit" ELSE "miss",
                             !.id = i, !.port = q,
                             !.crossed = cache[Slot(i)].id = i /\ HalfFilled(i)]
<1>1. was[i] # None /\ (t \in Isolates => home[i] = t /\ table[i] # None)
  BY InstanceOK DEF LoadId, MayCall, IdsInv, Threads
<1>2. th[t].pc = "idle" /\ th' = [th EXCEPT ![t] = c]
  BY DEF LoadId
<1>3. /\ c.pc = IF cache[Slot(i)].id = i THEN "hit" ELSE "miss"
      /\ c.id = i /\ c.ptr = None /\ c.port = q
      /\ c.crossed = (cache[Slot(i)].id = i /\ HalfFilled(i))
  BY DEF Idle
<1>4. c \in Calling
  <2>1. ASSUME NEW x \in {"hit", "miss"}, NEW b \in BOOLEAN
        PROVE  [Idle EXCEPT !.pc = x, !.id = i, !.port = q, !.crossed = b] \in Calling
    BY IdleType DEF Calling
  <2>2. (cache[Slot(i)].id = i /\ HalfFilled(i)) \in BOOLEAN
    OBVIOUS
  <2> QED
    BY <2>1, <2>2
<1> HIDE DEF c
<1>5. c.pc = "hit" /\ ~c.crossed => cache[Slot(i)].ptr = was[i]
  <2>1. SUFFICES ASSUME c.pc = "hit", ~c.crossed PROVE cache[Slot(i)].ptr = was[i]
    OBVIOUS
  <2>2. cache[Slot(i)].id = i
    BY <1>3, <2>1
  <2>3. ~HalfFilled(i)
    BY <1>3, <2>1, <2>2, Zenon
  <2>4. i # -1
    BY InstanceOK DEF Ids
  <2> QED
    BY <2>2, <2>3, <2>4, SlotType DEF HalfFilled, CacheInv
<1> QED
  BY <1>1, <1>2, <1>3, <1>4, <1>5 DEF TypeOK

\* A miss that finds its instance: who is told, and what is in the slot then.
LEMMA FindFacts ==
  ASSUME TypeOK, NEW t \in Threads, Find(t), table[th[t].id] # None
  PROVE  LET i == th[t].id IN
         /\ th'[t] = [th[t] EXCEPT !.pc = "fill", !.ptr = table[i]]
         /\ th'[t].pc = "fill" /\ th'[t].id = i /\ th'[t].ptr = table[i]
         /\ th'[t].port = th[t].port
         /\ \A u \in Threads \ {t} :
              /\ th'[u] \in {th[u], [th[u] EXCEPT !.crossed = TRUE]}
              /\ th'[u].pc = th[u].pc /\ th'[u].id = th[u].id /\ th'[u].ptr = th[u].ptr
              /\ th'[u].port = th[u].port /\ th'[u].slot = th[u].slot
              /\ th'[u].cleared = th[u].cleared
              /\ ~th'[u].crossed => ~th[u].crossed /\ ~(Between(u, Slot(i)) /\ th[u].id # i)
         /\ cache' = [cache EXCEPT ![Slot(i)] = [@ EXCEPT !.ptr = table[i]]]
         /\ \A s \in Slots : /\ cache'[s].id = cache[s].id
                             /\ cache'[s].ptr = IF s = Slot(i) THEN table[i] ELSE cache[s].ptr
<1> DEFINE i == th[t].id
<1>1. th[t] \in Calling /\ i \in Ids /\ Slot(i) \in Slots
  BY CallingFields
<1>2. th'[t] = [th[t] EXCEPT !.pc = "fill", !.ptr = table[i]]
  BY <1>1 DEF Find
<1>3. /\ th'[t].pc = "fill" /\ th'[t].id = i /\ th'[t].ptr = table[i]
      /\ th'[t].port = th[t].port
  BY <1>1, <1>2 DEF Calling
<1>4. ASSUME NEW u \in Threads \ {t}
      PROVE  /\ th'[u] \in {th[u], [th[u] EXCEPT !.crossed = TRUE]}
             /\ th'[u].pc = th[u].pc /\ th'[u].id = th[u].id /\ th'[u].ptr = th[u].ptr
             /\ th'[u].port = th[u].port /\ th'[u].slot = th[u].slot
             /\ th'[u].cleared = th[u].cleared
             /\ ~th'[u].crossed => ~th[u].crossed /\ ~(Between(u, Slot(i)) /\ th[u].id # i)
  <2>1. th[u] \in Calling
    BY DEF TypeOK
  <2>2. th'[u] = IF Between(u, Slot(i)) /\ th[u].id # i
                 THEN [th[u] EXCEPT !.crossed = TRUE] ELSE th[u]
    BY <1>1 DEF Find
  <2>3. CASE Between(u, Slot(i)) /\ th[u].id # i
    <3>1. th'[u] = [th[u] EXCEPT !.crossed = TRUE]
      BY <2>2, <2>3
    <3> QED
      BY <3>1, <2>1 DEF Calling
  <2>4. CASE ~(Between(u, Slot(i)) /\ th[u].id # i)
    BY <2>2, <2>4
  <2> QED
    BY <2>3, <2>4
<1>5. cache' = [cache EXCEPT ![Slot(i)] = [@ EXCEPT !.ptr = table[i]]]
  BY DEF Find
<1>6. \A s \in Slots : /\ cache'[s].id = cache[s].id
                       /\ cache'[s].ptr = IF s = Slot(i) THEN table[i] ELSE cache[s].ptr
  BY <1>1, <1>5 DEF TypeOK, Line
<1> QED
  BY <1>2, <1>3, <1>4, <1>5, <1>6

\* A slot whose pointer is cleared: where the thread goes on, and who is told.
LEMMA ClearPtrFacts ==
  ASSUME TypeOK, NEW t \in Isolates, ClearPtr(t)
  PROVE  LET s == th[t].slot IN
         /\ th' \in [Threads -> Calling]
         /\ th'[t].port = None
         /\ \/ th'[t].pc = "clearId" /\ mtx' = mtx
            \/ th'[t].pc = "idle" /\ mtx' = None
         /\ \A u \in Threads \ {t} :
              /\ th'[u].pc = th[u].pc /\ th'[u].id = th[u].id /\ th'[u].ptr = th[u].ptr
              /\ th'[u].port = th[u].port /\ th'[u].slot = th[u].slot
              /\ th'[u].crossed = th[u].crossed
              /\ th[u].cleared \/ Between(u, s) => th'[u].cleared
         /\ cache' = [cache EXCEPT ![s] = [@ EXCEPT !.ptr = None]]
         /\ \A r \in Slots : /\ cache'[r].id = cache[r].id
                             /\ cache'[r].ptr = IF r = s THEN None ELSE cache[r].ptr
<1> DEFINE s == th[t].slot
           next == IF s + 1 \in Slots THEN [Idle EXCEPT !.pc = "clearId", !.slot = s + 1]
                   ELSE Idle
<1>1. t \in Threads /\ s \in Slots
  BY CallingFields DEF Threads
<1>2. next \in Calling /\ next.port = None
  BY IdleType, InstanceOK DEF Calling, Idle
<1>3. \/ next.pc = "clearId" /\ next # Idle
      \/ next.pc = "idle" /\ next = Idle
  <2>1. Idle.pc = "idle" /\ [Idle EXCEPT !.pc = "clearId", !.slot = s + 1].pc = "clearId"
    BY DEF Idle
  <2>2. CASE s + 1 \in Slots
    BY <2>1, <2>2
  <2>3. CASE s + 1 \notin Slots
    BY <2>1, <2>3
  <2> QED
    BY <2>2, <2>3
<1>4. /\ cache' = [cache EXCEPT ![s] = [@ EXCEPT !.ptr = None]]
      /\ mtx' = IF next = Idle THEN None ELSE mtx
      /\ th' = [u \in Threads |-> IF u = t THEN next
                                  ELSE IF Between(u, s) THEN [th[u] EXCEPT !.cleared = TRUE]
                                  ELSE th[u]]
  BY DEF ClearPtr
<1> HIDE DEF next
<1>5. th'[t] = next
  BY <1>1, <1>4
<1>6. ASSUME NEW u \in Threads \ {t}
      PROVE  /\ th'[u].pc = th[u].pc /\ th'[u].id = th[u].id /\ th'[u].ptr = th[u].ptr
             /\ th'[u].port = th[u].port /\ th'[u].slot = th[u].slot
             /\ th'[u].crossed = th[u].crossed /\ th'[u] \in Calling
             /\ th[u].cleared \/ Between(u, s) => th'[u].cleared
  <2>1. th[u] \in Calling
    BY DEF TypeOK
  <2>2. CASE Between(u, s)
    <3>1. th'[u] = [th[u] EXCEPT !.cleared = TRUE]
      BY <1>4, <2>2
    <3> QED
      BY <3>1, <2>1 DEF Calling
  <2>3. CASE ~Between(u, s)
    BY <1>4, <2>1, <2>3
  <2> QED
    BY <2>2, <2>3
<1>7. th' \in [Threads -> Calling]
  BY <1>2, <1>4, <1>5, <1>6
<1>8. \A r \in Slots : /\ cache'[r].id = cache[r].id
                       /\ cache'[r].ptr = IF r = s THEN None ELSE cache[r].ptr
  BY <1>1, <1>4 DEF TypeOK, Line
<1> QED
  BY <1>2, <1>3, <1>4, <1>5, <1>6, <1>7, <1>8

\* Every step keeps every variable typed.
LEMMA TypeStep ==
  ASSUME IInv, [Next]_vars
  PROVE  TypeOK'
<1> USE DEF IInv, TypeOK
<1>1. ASSUME NEW t \in Threads, StartCall(t) PROVE TypeOK'
  BY <1>1, LoadIdFacts DEF StartCall
<1>2. ASSUME NEW t \in Isolates, StartRegister(t) PROVE TypeOK'
  <2>1. PICK i \in Ids, p \in Ports :
          /\ LoadId(t, i, p)
          /\ port' = [port EXCEPT ![p] = [@ EXCEPT !.state = "opening", !.id = i, !.iso = t]]
    BY <1>2 DEF StartRegister
  <2>2. th' \in [Threads -> Calling]
    BY <2>1, LoadIdFacts DEF Threads
  <2>3. port' \in [Ports -> Subscription]
    BY <2>1, SubscriptionSteps
  <2> QED
    BY <1>2, <2>2, <2>3 DEF StartRegister
<1>3. ASSUME NEW t \in Threads, LoadPtr(t) PROVE TypeOK'
  <2>1. cache[Slot(th[t].id)].ptr \in Pointer
    BY CallingFields DEF Line
  <2>2. th' \in [Threads -> Calling]
    BY <1>3, <2>1, CallingPtrSteps DEF LoadPtr
  <2> QED
    BY <1>3, <2>2 DEF LoadPtr
<1>4. ASSUME NEW t \in Threads, Find(t) PROVE TypeOK'
  <2>1. CASE table[th[t].id] = None
    <3>1. th' \in [Threads -> Calling]
      <4>1. th' = [th EXCEPT ![t] = [th[t] EXCEPT !.pc = "found"]]
        BY <1>4, <2>1 DEF Find
      <4>2. [th[t] EXCEPT !.pc = "found"] \in Calling
        BY CallingFields, CallingSteps
      <4> QED
        BY <4>1, <4>2
    <3> QED
      BY <1>4, <2>1, <3>1 DEF Find
  <2>2. CASE table[th[t].id] # None
    <3>1. /\ th[t].id \in Ids /\ Slot(th[t].id) \in Slots
          /\ table[th[t].id] \in Pointer /\ th[t] \in Calling
      BY CallingFields
    <3>2. th'[t] \in Calling
      <4>1. th'[t] = [th[t] EXCEPT !.pc = "fill", !.ptr = table[th[t].id]]
        BY <1>4, <2>2, FindFacts
      <4>2. [th[t] EXCEPT !.pc = "fill", !.ptr = table[th[t].id]] \in Calling
        BY <3>1, CallingPtrSteps
      <4> QED
        BY <4>1, <4>2
    <3>3. ASSUME NEW u \in Threads \ {t} PROVE th'[u] \in Calling
      <4>1. th'[u] \in {th[u], [th[u] EXCEPT !.crossed = TRUE]} /\ th[u] \in Calling
        BY <1>4, <2>2, FindFacts
      <4> QED
        BY <4>1, CallingSteps
    <3>4. th' \in [Threads -> Calling]
      BY <1>4, <2>2, <3>2, <3>3 DEF Find
    <3>5. cache' \in [Slots -> Line]
      <4>1. cache' = [cache EXCEPT ![Slot(th[t].id)] = [@ EXCEPT !.ptr = table[th[t].id]]]
        BY <1>4, <2>2, FindFacts
      <4> QED
        BY <3>1, <4>1, LineSteps
    <3> QED
      BY <1>4, <2>2, <3>4, <3>5 DEF Find
  <2> QED
    BY <2>1, <2>2
<1>5. ASSUME NEW t \in Threads, Fill(t) PROVE TypeOK'
  <2>1. th' \in [Threads -> Calling]
    BY <1>5, CallingFields, CallingSteps DEF Fill
  <2>2. cache' \in [Slots -> Line]
    BY <1>5, CallingFields, LineSteps DEF Fill
  <2> QED
    BY <1>5, <2>1, <2>2 DEF Fill
<1>6. ASSUME NEW t \in Threads, Return(t) PROVE TypeOK'
  BY <1>6, IdleType DEF Return
<1>7. ASSUME NEW t \in Isolates, Add(t) PROVE TypeOK'
  <2>1. th[t] \in Calling /\ th[t].port \in Ports /\ th[t].ptr \in Pointer
    BY <1>7, CallingFields DEF Threads, Add
  <2>2. port' \in [Ports -> Subscription]
    BY <1>7, <2>1, SubscriptionSteps DEF Add
  <2> QED
    BY <1>7, <2>1, <2>2, IdleType DEF Add
<1>8. ASSUME NEW t \in Isolates, Release(t) PROVE TypeOK'
  <2>1. port' \in [Ports -> Subscription]
    <3>1. \A p \in Ports : [port[p] EXCEPT !.state = "closed"] \in Subscription
      BY SubscriptionSteps
    <3> QED
      BY <1>8, <3>1 DEF Release
  <2>2. subs' \in [Pointer -> SUBSET Ports]
    BY <1>8 DEF Release, Without
  <2> QED
    BY <1>8, <2>1, <2>2 DEF Release
<1>9. ASSUME NEW t \in Isolates, Construct(t) PROVE TypeOK'
  <2>1. ASSUME NEW a \in Heap
        PROVE  [Idle EXCEPT !.pc = "insert", !.ptr = a] \in Calling
    BY IdleType DEF Calling, Pointer, Address
  <2>2. th' \in [Threads -> Calling]
    BY <1>9, <2>1 DEF Construct
  <2> QED
    BY <1>9, <2>2 DEF Construct
<1>10. ASSUME NEW t \in Isolates, Insert(t) PROVE TypeOK'
  <2>1. nextId + 1 \in Ids /\ nextId' \in 1 .. MaxId /\ th[t].ptr \in Pointer /\ t \in Threads
    BY <1>10, CallingFields, InstanceOK DEF Insert, IdsInv, Ids, Threads
  <2>2. /\ table' \in [Ids -> Pointer] /\ was' \in [Ids -> Pointer]
        /\ home' \in [Ids -> Isolates \cup {None}] /\ th' \in [Threads -> Calling]
    BY <1>10, <2>1, IdleType DEF Insert
  <2> QED
    BY <1>10, <2>1, <2>2 DEF Insert
<1>11. ASSUME NEW t \in Isolates, Destroy(t) PROVE TypeOK'
  <2>1. PICK i \in Ids : /\ subs' = [subs EXCEPT ![table[i]] = {}]
                         /\ table' = [table EXCEPT ![i] = None]
    BY <1>11 DEF Destroy
  <2>2. subs' \in [Pointer -> SUBSET Ports] /\ table' \in [Ids -> Pointer]
    BY <2>1 DEF Pointer
  <2>3. th' \in [Threads -> Calling]
    BY <1>11, CallingSteps DEF Destroy, Threads
  <2> QED
    BY <1>11, <2>2, <2>3 DEF Destroy, Threads
<1>12. ASSUME NEW t \in Isolates, ClearId(t) PROVE TypeOK'
  <2>1. th[t].slot \in Slots /\ th[t] \in Calling
    BY CallingFields DEF Threads
  <2>2. cache' \in [Slots -> Line]
    BY <1>12, <2>1, LineSteps DEF ClearId
  <2>3. th' \in [Threads -> Calling]
    BY <1>12, <2>1, CallingSteps DEF ClearId
  <2> QED
    BY <1>12, <2>2, <2>3 DEF ClearId
<1>13. ASSUME NEW t \in Isolates, ClearPtr(t) PROVE TypeOK'
  <2>1. th[t].slot \in Slots
    BY CallingFields DEF Threads
  <2>2. cache' \in [Slots -> Line]
    <3>1. cache' = [cache EXCEPT ![th[t].slot] = [@ EXCEPT !.ptr = None]]
      BY <1>13, ClearPtrFacts
    <3> QED
      BY <2>1, <3>1, LineSteps
  <2> QED
    BY <1>13, <2>2, ClearPtrFacts DEF ClearPtr, Threads
<1>14. ASSUME NEW i \in Ids, Emit(i) PROVE TypeOK'
  <2>1. subs[table[i]] \in SUBSET Ports
    OBVIOUS
  <2> QED
    BY <1>14, <2>1 DEF Emit
<1>15. ASSUME NEW p \in Ports, Abandon(p) PROVE TypeOK'
  <2>1. port' \in [Ports -> Subscription]
    BY <1>15, SubscriptionSteps DEF Abandon
  <2> QED
    BY <1>15, <2>1 DEF Abandon
<1>16. ASSUME NEW p \in Ports, Post(p) PROVE TypeOK'
  <2>1. Without(p) \in [Pointer -> SUBSET Ports]
    BY DEF Without
  <2>2. NoEmission \in [id : Ids, to : SUBSET Ports]
    BY DEF NoEmission, Ids
  <2>3. /\ emission.id \in Ids
        /\ [emission EXCEPT !.to = @ \ {p}] \in [id : Ids, to : SUBSET Ports]
    OBVIOUS
  <2>4. emission' \in [id : Ids, to : SUBSET Ports]
    BY <1>16, <2>2, <2>3 DEF Post
  <2>5. subs' \in [Pointer -> SUBSET Ports] /\ got' \subseteq Ports \X Ids
    BY <1>16, <2>1, <2>3 DEF Post
  <2> QED
    BY <1>16, <2>4, <2>5 DEF Post
<1>17. CASE UNCHANGED vars
  BY <1>17 DEF vars
<1> QED
  BY <1>1, <1>2, <1>3, <1>4, <1>5, <1>6, <1>7, <1>8, <1>9, <1>10, <1>11, <1>12, <1>13,
     <1>14, <1>15, <1>16, <1>17 DEF Next, Lookup, IsolateStep

\* The fields of the record of a port.
LEMMA PortFields ==
  ASSUME TypeOK, NEW p \in Ports
  PROVE  port[p].id \in Ids /\ table[port[p].id] \in Pointer
  BY DEF TypeOK, Subscription

\* The addresses are the pointers other than None.
LEMMA AddressFacts ==
  /\ \A a \in Address : a \in Pointer /\ a # None
  /\ \A a \in Pointer : a # None => a \in Address
  BY InstanceOK DEF Pointer, Address

\* A call starts.
LEMMA StartCallStep ==
  ASSUME IInv, NEW t \in Threads, StartCall(t)
  PROVE  IInv'
<1> USE DEF IInv
<1>a. PICK i \in Ids : LoadId(t, i, None)
  BY DEF StartCall
<1>b. /\ th[t].pc = "idle" /\ was[i] # None
      /\ t \in Isolates => home[i] = t /\ table[i] # None
      /\ th'[t].pc \in {"hit", "miss"} /\ th'[t].id = i /\ th'[t].ptr = None
      /\ th'[t].port = None
      /\ th'[t].pc = "hit" /\ ~th'[t].crossed => cache[Slot(i)].ptr = was[i]
      /\ \A u \in Threads : u # t => th'[u] = th[u]
      /\ UNCHANGED <<nextId, table, mtx, cache, subs, port, home, was>>
  BY <1>a, LoadIdFacts DEF StartCall
<1>1. TypeOK'
  BY TypeStep DEF Next, Lookup, IsolateStep, Threads
<1>2. IdsInv'
  BY <1>a, <1>b DEF IdsInv
<1>3. MutexInv'
  BY <1>a, <1>b DEF MutexInv, Holds
<1>4. CallInv'
  BY <1>a, <1>b DEF CallInv, InCall
<1>5. CacheInv'
  BY <1>a, <1>b DEF CacheInv
<1>6. HitInv'
  BY <1>a, <1>b DEF HitInv
<1>7. PortInv'
  BY <1>a, <1>b DEF PortInv, InCall
<1>8. LookupFindsOwn'
  BY <1>a, <1>b DEF LookupFindsOwn
<1>9. SubscribersExact'
  BY <1>a, <1>b DEF SubscribersExact
<1> QED
  BY <1>1, <1>2, <1>3, <1>4, <1>5, <1>6, <1>7, <1>8, <1>9

\* A port is about to be registered.
LEMMA StartRegisterStep ==
  ASSUME IInv, NEW t \in Isolates, StartRegister(t)
  PROVE  IInv'
<1> USE DEF IInv
<1>a. PICK i \in Ids, p \in Ports :
        /\ LoadId(t, i, p) /\ port[p].state = "new"
        /\ port' = [port EXCEPT ![p] = [@ EXCEPT !.state = "opening", !.id = i, !.iso = t]]
  BY DEF StartRegister
<1>b. /\ th[t].pc = "idle" /\ was[i] # None /\ t \in Threads
      /\ t \in Isolates => home[i] = t /\ table[i] # None
      /\ th'[t].pc \in {"hit", "miss"} /\ th'[t].id = i /\ th'[t].ptr = None
      /\ th'[t].port = p
      /\ th'[t].pc = "hit" /\ ~th'[t].crossed => cache[Slot(i)].ptr = was[i]
      /\ \A u \in Threads : u # t => th'[u] = th[u]
      /\ UNCHANGED <<nextId, table, mtx, cache, subs, home, was>>
  BY <1>a, LoadIdFacts DEF StartRegister, Threads
<1>c. /\ port'[p].state = "opening" /\ port'[p].id = i /\ port'[p].iso = t
      /\ port'[p].crossed = port[p].crossed
      /\ \A q \in Ports : q # p => port'[q] = port[q]
  BY <1>a DEF TypeOK, Subscription
<1>1. TypeOK'
  BY TypeStep DEF Next, Lookup, IsolateStep, Threads
<1>2. IdsInv'
  BY <1>a, <1>b, <1>c DEF IdsInv
<1>3. MutexInv'
  BY <1>a, <1>b, <1>c DEF MutexInv, Holds
<1>4. CallInv'
  BY <1>a, <1>b, <1>c DEF CallInv, InCall
<1>5. CacheInv'
  BY <1>a, <1>b, <1>c DEF CacheInv
<1>6. HitInv'
  BY <1>a, <1>b, <1>c DEF HitInv
<1>7. PortInv'
  BY <1>a, <1>b, <1>c DEF PortInv, InCall
<1>8. LookupFindsOwn'
  BY <1>a, <1>b, <1>c DEF LookupFindsOwn
<1>9. SubscribersExact'
  BY <1>a, <1>b, <1>c DEF SubscribersExact, PortInv, Pointer
<1> QED
  BY <1>1, <1>2, <1>3, <1>4, <1>5, <1>6, <1>7, <1>8, <1>9

\* The second load of a hit.
LEMMA LoadPtrStep ==
  ASSUME IInv, NEW t \in Threads, LoadPtr(t)
  PROVE  IInv'
<1> USE DEF IInv
<1> DEFINE i == th[t].id
<1>a. /\ i \in Ids /\ Slot(i) \in Slots /\ th[t].pc = "hit"
      /\ \A u \in Threads : u # t => th'[u] = th[u]
      /\ UNCHANGED <<nextId, table, mtx, cache, subs, port, home, was>>
  BY CallingFields DEF LoadPtr, TypeOK
<1>b. /\ th'[t].pc = "found" /\ th'[t].id = i /\ th'[t].ptr = cache[Slot(i)].ptr
      /\ th'[t].port = th[t].port /\ th'[t].crossed = th[t].crossed
      /\ th'[t].cleared = th[t].cleared
  <2>1. /\ th[t] \in Calling
        /\ th'[t] = [th[t] EXCEPT !.pc = "found", !.ptr = cache[Slot(i)].ptr]
    BY DEF LoadPtr, TypeOK
  <2> QED
    BY <2>1 DEF Calling
<1>c. i = th[t].id
  OBVIOUS
<1> HIDE DEF i
<1>1. TypeOK'
  BY TypeStep DEF Next, Lookup, IsolateStep, Threads
<1>2. IdsInv'
  BY <1>a, <1>b, <1>c DEF IdsInv
<1>3. MutexInv'
  BY <1>a, <1>b, <1>c DEF MutexInv, Holds
<1>4. CallInv'
  BY <1>a, <1>b, <1>c DEF CallInv, InCall
<1>5. CacheInv'
  BY <1>a, <1>b, <1>c DEF CacheInv
<1>6. HitInv'
  BY <1>a, <1>b, <1>c DEF HitInv
<1>7. PortInv'
  BY <1>a, <1>b, <1>c DEF PortInv, InCall
<1>8. LookupFindsOwn'
  BY <1>a, <1>b, <1>c DEF LookupFindsOwn, HitInv, CallInv, InCall, IdsInv
<1>9. SubscribersExact'
  BY <1>a, <1>b, <1>c DEF SubscribersExact
<1> QED
  BY <1>1, <1>2, <1>3, <1>4, <1>5, <1>6, <1>7, <1>8, <1>9

\* A miss that finds nothing.
LEMMA FindNoneStep ==
  ASSUME IInv, NEW t \in Threads, Find(t), table[th[t].id] = None
  PROVE  IInv'
<1> USE DEF IInv
<1>a. /\ th[t].pc = "miss"
      /\ \A u \in Threads : u # t => th'[u] = th[u]
      /\ UNCHANGED <<nextId, table, mtx, cache, subs, port, home, was>>
  BY DEF Find, TypeOK
<1>b. /\ th'[t].pc = "found" /\ th'[t].id = th[t].id /\ th'[t].ptr = th[t].ptr
      /\ th'[t].port = th[t].port
  <2>1. th[t] \in Calling /\ th'[t] = [th[t] EXCEPT !.pc = "found"]
    BY DEF Find, TypeOK
  <2> QED
    BY <2>1 DEF Calling
<1>1. TypeOK'
  BY TypeStep DEF Next, Lookup, IsolateStep, Threads
<1>2. IdsInv'
  BY <1>a, <1>b DEF IdsInv
<1>3. MutexInv'
  BY <1>a, <1>b DEF MutexInv, Holds
<1>4. CallInv'
  BY <1>a, <1>b DEF CallInv, InCall
<1>5. CacheInv'
  BY <1>a, <1>b DEF CacheInv
<1>6. HitInv'
  BY <1>a, <1>b DEF HitInv
<1>7. PortInv'
  BY <1>a, <1>b DEF PortInv, InCall
<1>8. LookupFindsOwn'
  BY <1>a, <1>b DEF LookupFindsOwn, CallInv, InCall, Threads
<1>9. SubscribersExact'
  BY <1>a, <1>b DEF SubscribersExact
<1> QED
  BY <1>1, <1>2, <1>3, <1>4, <1>5, <1>6, <1>7, <1>8, <1>9

\* A miss that fills the first half of its slot.
LEMMA FindFillStep ==
  ASSUME IInv, NEW t \in Threads, Find(t), table[th[t].id] # None
  PROVE  IInv'
<1> USE DEF IInv
<1> DEFINE i == th[t].id
<1>a. /\ i = th[t].id /\ i \in Ids /\ Slot(i) \in Slots /\ th[t].pc = "miss"
      /\ was[i] = table[i] /\ table[i] # None
      /\ mtx = None /\ mtx' = t
      /\ UNCHANGED <<nextId, table, subs, port, home, was>>
  BY CallingFields DEF Find, IdsInv
<1>b. /\ th'[t].pc = "fill" /\ th'[t].id = i /\ th'[t].ptr = table[i]
      /\ th'[t].port = th[t].port
      /\ \A u \in Threads \ {t} :
           /\ th'[u].pc = th[u].pc /\ th'[u].id = th[u].id /\ th'[u].ptr = th[u].ptr
           /\ th'[u].port = th[u].port /\ th'[u].slot = th[u].slot
           /\ th'[u].cleared = th[u].cleared
           /\ ~th'[u].crossed => ~th[u].crossed /\ ~(Between(u, Slot(i)) /\ th[u].id # i)
      /\ \A s \in Slots : /\ cache'[s].id = cache[s].id
                          /\ cache'[s].ptr = IF s = Slot(i) THEN table[i] ELSE cache[s].ptr
  BY FindFacts
<1>c. \A u \in Threads : th[u].pc \notin {"fill", "clearId", "clearPtr"}
  BY <1>a, InstanceOK DEF MutexInv, Holds, Threads
<1> HIDE DEF i
<1>1. TypeOK'
  BY TypeStep DEF Next, Lookup, IsolateStep, Threads
<1>2. IdsInv'
  BY <1>a, <1>b, <1>c DEF IdsInv
<1>3. MutexInv'
  BY <1>a, <1>b, <1>c DEF MutexInv, Holds
<1>4. CallInv'
  BY <1>a, <1>b, <1>c DEF CallInv, InCall
<1>5. CacheInv'
  BY <1>a, <1>b, <1>c DEF CacheInv
<1>6. HitInv'
  BY <1>a, <1>b, <1>c, CallingFields DEF HitInv, Between
<1>7. PortInv'
  BY <1>a, <1>b, <1>c DEF PortInv, InCall
<1>8. LookupFindsOwn'
  BY <1>a, <1>b, <1>c DEF LookupFindsOwn
<1>9. SubscribersExact'
  BY <1>a, <1>b, <1>c DEF SubscribersExact
<1> QED
  BY <1>1, <1>2, <1>3, <1>4, <1>5, <1>6, <1>7, <1>8, <1>9

\* A miss that fills the second half.
LEMMA FillStep ==
  ASSUME IInv, NEW t \in Threads, Fill(t)
  PROVE  IInv'
<1> USE DEF IInv
<1> DEFINE i == th[t].id
<1>a. /\ i = th[t].id /\ i \in Ids /\ Slot(i) \in Slots /\ th[t].pc = "fill" /\ mtx' = None
      /\ \A u \in Threads : u # t => th'[u] = th[u]
      /\ UNCHANGED <<nextId, table, subs, port, home, was>>
  BY CallingFields DEF Fill, TypeOK
<1>b. /\ th'[t].pc = "found" /\ th'[t].id = i /\ th'[t].ptr = th[t].ptr
      /\ th'[t].port = th[t].port
  <2>1. th[t] \in Calling /\ th'[t] = [th[t] EXCEPT !.pc = "found"]
    BY DEF Fill, TypeOK
  <2> QED
    BY <2>1 DEF Calling
<1>c. /\ \A s \in Slots : /\ cache'[s].id = IF s = Slot(i) THEN i ELSE cache[s].id
                          /\ cache'[s].ptr = cache[s].ptr
      /\ cache[Slot(i)].ptr = was[i] /\ th[t].ptr = was[i] /\ was[i] # None
      /\ th[t].ptr = table[i]
  <2>1. cache' = [cache EXCEPT ![Slot(i)] = [@ EXCEPT !.id = i]]
    BY DEF Fill
  <2>2. \A s \in Slots : /\ cache'[s].id = IF s = Slot(i) THEN i ELSE cache[s].id
                         /\ cache'[s].ptr = cache[s].ptr
    BY <1>a, <2>1 DEF TypeOK, Line
  <2> QED
    BY <1>a, <2>2 DEF CallInv, IdsInv
<1>d. /\ mtx = t /\ t # None
      /\ \A u \in Threads : u # t => th[u].pc \notin {"fill", "clearId", "clearPtr"}
  BY <1>a, InstanceOK DEF MutexInv, Holds, Threads
<1> HIDE DEF i
<1>1. TypeOK'
  BY TypeStep DEF Next, Lookup, IsolateStep, Threads
<1>2. IdsInv'
  BY <1>a, <1>b, <1>c, <1>d DEF IdsInv
<1>3. MutexInv'
  BY <1>a, <1>b, <1>c, <1>d, InstanceOK DEF MutexInv, Holds, Threads
<1>4. CallInv'
  BY <1>a, <1>b, <1>c, <1>d DEF CallInv, InCall
<1>5. CacheInv'
  <2>1. ASSUME NEW s \in Slots, cache'[s].id # -1
        PROVE  /\ Slot(cache'[s].id) = s /\ was'[cache'[s].id] # None
               /\ cache'[s].ptr = was'[cache'[s].id]
    <3>1. CASE s = Slot(i)
      BY <1>a, <1>c, <3>1
    <3>2. CASE s # Slot(i)
      <4>1. cache'[s].id = cache[s].id /\ cache'[s].ptr = cache[s].ptr
        BY <1>c, <3>2
      <4>2. \A u \in Threads : th[u].pc = "fill" => Slot(th[u].id) # s
        BY <1>a, <1>d, <3>2
      <4> QED
        BY <1>a, <2>1, <4>1, <4>2 DEF CacheInv
    <3> QED
      BY <3>1, <3>2
  <2>2. \A u \in Threads : th'[u].pc # "clearPtr"
    BY <1>a, <1>b, <1>d
  <2> QED
    BY <2>1, <2>2 DEF CacheInv
<1>6. HitInv'
  BY <1>a, <1>b, <1>c, <1>d, CallingFields DEF HitInv
<1>7. PortInv'
  <2>1. \A u \in Threads : th'[u].port = th[u].port /\ th'[u].id = th[u].id
                           /\ (InCall(u) => InCall(u)')
    BY <1>a, <1>b DEF InCall
  <2> QED
    BY <1>a, <2>1 DEF PortInv
<1>8. LookupFindsOwn'
  <2>1. th[t].ptr # None /\ th[t].ptr = was[i] /\ table[i] = th[t].ptr
    BY <1>c
  <2> QED
    BY <1>a, <1>b, <2>1 DEF LookupFindsOwn
<1>9. SubscribersExact'
  BY <1>a, <1>b, <1>c, <1>d DEF SubscribersExact
<1> QED
  BY <1>1, <1>2, <1>3, <1>4, <1>5, <1>6, <1>7, <1>8, <1>9

\* A call returns.
LEMMA ReturnStep ==
  ASSUME IInv, NEW t \in Threads, Return(t)
  PROVE  IInv'
<1> USE DEF IInv
<1>a. /\ th[t].pc = "found" /\ th'[t].pc = "idle" /\ th'[t].port = None
      /\ \A u \in Threads : u # t => th'[u] = th[u]
      /\ UNCHANGED <<nextId, table, mtx, cache, subs, port, home, was>>
  BY IdleType DEF Return, TypeOK
<1>1. TypeOK'
  BY TypeStep DEF Next, Lookup, IsolateStep, Threads
<1>2. IdsInv'
  BY <1>a DEF IdsInv
<1>3. MutexInv'
  BY <1>a DEF MutexInv, Holds
<1>4. CallInv'
  BY <1>a DEF CallInv, InCall
<1>5. CacheInv'
  BY <1>a DEF CacheInv
<1>6. HitInv'
  BY <1>a DEF HitInv
<1>7. PortInv'
  BY <1>a DEF PortInv, InCall
<1>8. LookupFindsOwn'
  BY <1>a DEF LookupFindsOwn
<1>9. SubscribersExact'
  BY <1>a DEF SubscribersExact
<1> QED
  BY <1>1, <1>2, <1>3, <1>4, <1>5, <1>6, <1>7, <1>8, <1>9

\* A port is registered.
LEMMA AddStep ==
  ASSUME IInv, NEW t \in Isolates, Add(t)
  PROVE  IInv'
<1> USE DEF IInv
<1> DEFINE p == th[t].port
           a == th[t].ptr
<1>a. /\ t \in Threads /\ p = th[t].port /\ a = th[t].ptr /\ p \in Ports /\ a \in Pointer
      /\ th[t].pc = "found" /\ th'[t].pc = "idle" /\ th'[t].port = None
      /\ \A u \in Threads : u # t => th'[u] = th[u]
      /\ UNCHANGED <<nextId, table, mtx, cache, home, was>>
  BY CallingFields, IdleType DEF Add, TypeOK, Threads
<1>b. /\ port'[p].state = "open" /\ port'[p].id = port[p].id
      /\ port'[p].crossed = th[t].crossed /\ port'[p].cleared = th[t].cleared
      /\ \A q \in Ports : q # p => port'[q] = port[q]
      /\ port[p].state = "opening" /\ port[p].id = th[t].id /\ port[p].iso = t
  <2>1. port' = [port EXCEPT ![p] = [@ EXCEPT !.state = "open", !.crossed = th[t].crossed,
                                              !.cleared = th[t].cleared]]
    BY DEF Add
  <2> QED
    BY <1>a, <2>1, InstanceOK DEF TypeOK, Subscription, PortInv
<1>c. \A x \in Pointer : subs'[x] = IF x = a THEN subs[x] \cup {p} ELSE subs[x]
  BY <1>a DEF Add, TypeOK
<1>d. /\ \A u \in Threads : th[u].port \in Ports \cup {None}
      /\ ~th[t].crossed => \/ a # None /\ a = table[th[t].id]
                           \/ a = None /\ th[t].cleared
  BY <1>a, CallingFields, InstanceOK DEF LookupFindsOwn
<1> HIDE DEF p, a
<1>1. TypeOK'
  BY TypeStep DEF Next, Lookup, IsolateStep, Threads
<1>2. IdsInv'
  BY <1>a, <1>b, <1>c, <1>d DEF IdsInv
<1>3. MutexInv'
  BY <1>a, <1>b, <1>c, <1>d DEF MutexInv, Holds
<1>4. CallInv'
  BY <1>a DEF CallInv, InCall
<1>5. CacheInv'
  BY <1>a DEF CacheInv
<1>6. HitInv'
  BY <1>a DEF HitInv
<1>7. PortInv'
  <2>1. ASSUME NEW u \in Threads, th'[u].port # None
        PROVE  /\ InCall(u)' /\ u \in Isolates
               /\ port'[th'[u].port].state = "opening"
               /\ port'[th'[u].port].id = th'[u].id /\ port'[th'[u].port].iso = u
    <3>1. u # t /\ th'[u] = th[u] /\ th[u].port \in Ports /\ th[u].port # None
      BY <1>a, <1>d, <2>1, InstanceOK
    <3>2. InCall(u) /\ u \in Isolates /\ port[th[u].port].state = "opening"
          /\ port[th[u].port].id = th[u].id /\ port[th[u].port].iso = u
      BY <3>1 DEF PortInv
    <3>3. th[u].port # p
      BY <1>b, <3>1, <3>2
    <3> QED
      BY <1>b, <3>1, <3>2, <3>3 DEF InCall
  <2>2. ASSUME NEW q \in Ports
        PROVE  /\ was'[port'[q].id] # None
               /\ port'[q].state \in {"new", "opening"} => \A x \in Pointer : q \notin subs'[x]
    <3>1. was' = was /\ was[port[q].id] # None /\ port'[q].id = port[q].id
      BY <1>a, <1>b DEF PortInv
    <3>2. CASE q = p
      BY <1>b, <3>1, <3>2
    <3>3. CASE q # p
      <4>1. port'[q] = port[q]
        BY <1>b, <3>3
      <4>2. \A x \in Pointer : q \in subs'[x] => q \in subs[x]
        BY <1>c, <3>3
      <4> QED
        BY <3>1, <4>1, <4>2 DEF PortInv
    <3> QED
      BY <3>2, <3>3
  <2> QED
    BY <2>1, <2>2 DEF PortInv
<1>8. LookupFindsOwn'
  BY <1>a, <1>b, <1>c, <1>d DEF LookupFindsOwn
<1>9. SubscribersExact'
  <2>1. ASSUME NEW q \in Ports, q # p, ~port'[q].crossed
        PROVE  /\ \A x \in Address : q \in subs'[x] => table'[port'[q].id] = x
               /\ port'[q].state = "open" /\ ~port'[q].cleared /\ table'[port'[q].id] # None
                    => q \in subs'[table'[port'[q].id]]
    <3>1. port'[q] = port[q] /\ table' = table
      BY <1>a, <1>b, <2>1
    <3>2. \A x \in Pointer : q \in subs'[x] <=> q \in subs[x]
      BY <1>c, <2>1
    <3> QED
      BY <2>1, <3>1, <3>2, AddressFacts, PortFields DEF SubscribersExact
  <2>2. ASSUME ~port'[p].crossed
        PROVE  /\ \A x \in Address : p \in subs'[x] => table'[port'[p].id] = x
               /\ port'[p].state = "open" /\ ~port'[p].cleared /\ table'[port'[p].id] # None
                    => p \in subs'[table'[port'[p].id]]
    <3>1. \A x \in Pointer : p \in subs'[x] <=> x = a
      BY <1>a, <1>b, <1>c DEF PortInv
    <3> QED
      BY <1>a, <1>b, <1>d, <2>2, <3>1, AddressFacts, PortFields
  <2> QED
    BY <2>1, <2>2 DEF SubscribersExact
<1> QED
  BY <1>1, <1>2, <1>3, <1>4, <1>5, <1>6, <1>7, <1>8, <1>9

\* A port is released.
LEMMA ReleaseStep ==
  ASSUME IInv, NEW t \in Isolates, Release(t)
  PROVE  IInv'
<1> USE DEF IInv
<1>a. PICK p \in Ports : /\ port[p].state = "open"
                         /\ subs' = Without(p)
                         /\ port' = [port EXCEPT ![p] = [@ EXCEPT !.state = "closed"]]
  BY DEF Release
<1>b. /\ port[p].state = "open" /\ port'[p].state = "closed" /\ port'[p].id = port[p].id
      /\ port'[p].crossed = port[p].crossed
      /\ \A q \in Ports : q # p => port'[q] = port[q]
  BY <1>a DEF TypeOK, Subscription
<1>c. \A x \in Pointer : subs'[x] = subs[x] \ {p}
  BY <1>a DEF Without
<1>d. /\ UNCHANGED <<nextId, table, mtx, cache, th, home, was>>
      /\ \A u \in Threads : th[u].port \in Ports \cup {None}
  BY CallingFields DEF Release
<1>1. TypeOK'
  BY TypeStep DEF Next, Lookup, IsolateStep, Threads
<1>2. IdsInv'
  BY <1>b, <1>c, <1>d DEF IdsInv
<1>3. MutexInv'
  BY <1>b, <1>c, <1>d DEF MutexInv, Holds
<1>4. CallInv'
  BY <1>b, <1>c, <1>d DEF CallInv, InCall
<1>5. CacheInv'
  BY <1>b, <1>c, <1>d DEF CacheInv
<1>6. HitInv'
  BY <1>b, <1>c, <1>d DEF HitInv
<1>7. PortInv'
  BY <1>b, <1>c, <1>d DEF PortInv, InCall
<1>8. LookupFindsOwn'
  BY <1>b, <1>c, <1>d DEF LookupFindsOwn
<1>9. SubscribersExact'
  BY <1>b, <1>c, <1>d, AddressFacts, PortFields DEF SubscribersExact
<1> QED
  BY <1>1, <1>2, <1>3, <1>4, <1>5, <1>6, <1>7, <1>8, <1>9

\* A port is closed behind the library's back.
LEMMA AbandonStep ==
  ASSUME IInv, NEW p \in Ports, Abandon(p)
  PROVE  IInv'
<1> USE DEF IInv
<1>a. /\ port[p].state = "open" /\ port'[p].state = "closed" /\ port'[p].id = port[p].id
      /\ port'[p].crossed = port[p].crossed
      /\ \A q \in Ports : q # p => port'[q] = port[q]
      /\ UNCHANGED <<nextId, table, mtx, cache, th, subs, home, was>>
  <2>1. port' = [port EXCEPT ![p] = [@ EXCEPT !.state = "closed"]]
    BY DEF Abandon
  <2> QED
    BY <2>1 DEF Abandon, TypeOK, Subscription
<1>1. TypeOK'
  BY TypeStep DEF Next, Lookup, IsolateStep, Threads
<1>2. IdsInv'
  BY <1>a DEF IdsInv
<1>3. MutexInv'
  BY <1>a DEF MutexInv, Holds
<1>4. CallInv'
  BY <1>a DEF CallInv, InCall
<1>5. CacheInv'
  BY <1>a DEF CacheInv
<1>6. HitInv'
  BY <1>a DEF HitInv
<1>7. PortInv'
  BY <1>a, CallingFields DEF PortInv, InCall
<1>8. LookupFindsOwn'
  BY <1>a DEF LookupFindsOwn
<1>9. SubscribersExact'
  BY <1>a DEF SubscribersExact
<1> QED
  BY <1>1, <1>2, <1>3, <1>4, <1>5, <1>6, <1>7, <1>8, <1>9

\* An item is posted to a port, or the port is removed.
LEMMA PostStep ==
  ASSUME IInv, NEW p \in Ports, Post(p)
  PROVE  IInv'
<1> USE DEF IInv
<1>a. UNCHANGED <<nextId, table, mtx, cache, th, port, home, was>>
  BY DEF Post
<1>b. \A x \in Pointer : /\ subs'[x] \subseteq subs[x]
                         /\ \A q \in subs[x] \ subs'[x] :
                              q = p /\ port[p].state \notin {"opening", "open"}
  BY DEF Post, Without, TypeOK
<1>1. TypeOK'
  BY TypeStep DEF Next, Lookup, IsolateStep, Threads
<1>2. IdsInv'
  BY <1>a, <1>b DEF IdsInv
<1>3. MutexInv'
  BY <1>a, <1>b DEF MutexInv, Holds
<1>4. CallInv'
  BY <1>a, <1>b DEF CallInv, InCall
<1>5. CacheInv'
  BY <1>a, <1>b DEF CacheInv
<1>6. HitInv'
  BY <1>a, <1>b DEF HitInv
<1>7. PortInv'
  BY <1>a, <1>b DEF PortInv, InCall
<1>8. LookupFindsOwn'
  BY <1>a, <1>b DEF LookupFindsOwn
<1>9. SubscribersExact'
  BY <1>a, <1>b, AddressFacts, PortFields DEF SubscribersExact
<1> QED
  BY <1>1, <1>2, <1>3, <1>4, <1>5, <1>6, <1>7, <1>8, <1>9

\* An isolate's factory makes an instance.
LEMMA ConstructStep ==
  ASSUME IInv, NEW t \in Isolates, Construct(t)
  PROVE  IInv'
<1> USE DEF IInv
<1>a. PICK a \in Heap : /\ \A i \in Ids : table[i] # a
                        /\ th' = [th EXCEPT ![t] = [Idle EXCEPT !.pc = "insert", !.ptr = a]]
  BY DEF Construct
<1>b. /\ t \in Threads /\ th[t].pc = "idle" /\ nextId < MaxId
      /\ \A u \in Threads : th[u].pc # "insert"
      /\ UNCHANGED <<nextId, table, mtx, cache, subs, port, home, was>>
  BY DEF Construct, Threads
<1>c. /\ th'[t].pc = "insert" /\ th'[t].ptr = a /\ th'[t].port = None
      /\ \A u \in Threads : u # t => th'[u] = th[u]
      /\ \A i \in Ids : table[i] # a
  BY <1>a, <1>b DEF TypeOK, Idle
<1>1. TypeOK'
  BY TypeStep DEF Next, Lookup, IsolateStep, Threads
<1>2. IdsInv'
  BY <1>b, <1>c DEF IdsInv
<1>3. MutexInv'
  BY <1>b, <1>c DEF MutexInv, Holds
<1>4. CallInv'
  BY <1>b, <1>c DEF CallInv, InCall
<1>5. CacheInv'
  BY <1>b, <1>c DEF CacheInv
<1>6. HitInv'
  BY <1>b, <1>c DEF HitInv
<1>7. PortInv'
  BY <1>b, <1>c DEF PortInv, InCall
<1>8. LookupFindsOwn'
  BY <1>b, <1>c DEF LookupFindsOwn
<1>9. SubscribersExact'
  BY <1>b, <1>c DEF SubscribersExact
<1> QED
  BY <1>1, <1>2, <1>3, <1>4, <1>5, <1>6, <1>7, <1>8, <1>9

\* The instance gets the next id.
LEMMA InsertStep ==
  ASSUME IInv, NEW t \in Isolates, Insert(t)
  PROVE  IInv'
<1> USE DEF IInv
<1> DEFINE i == nextId + 1
<1>a. /\ i = nextId + 1 /\ i \in Ids /\ ~(i <= nextId) /\ nextId' = i
      /\ t \in Threads /\ th[t].pc = "insert" /\ th[t].ptr \in Heap /\ mtx = None /\ mtx' = None
      /\ \A j \in Ids : j <= i <=> j <= nextId \/ j = i
  BY InstanceOK DEF Insert, IdsInv, TypeOK, Ids, Threads
<1>b. /\ \A j \in Ids : /\ table'[j] = IF j = i THEN th[t].ptr ELSE table[j]
                        /\ was'[j] = IF j = i THEN th[t].ptr ELSE was[j]
                        /\ home'[j] = IF j = i THEN t ELSE home[j]
      /\ th'[t].pc = "idle" /\ th'[t].port = None
      /\ \A u \in Threads : u # t => th'[u] = th[u]
      /\ UNCHANGED <<cache, subs, port>>
  BY <1>a, IdleType DEF Insert, TypeOK
<1>c. /\ was[i] = None /\ table[i] = None /\ th[t].ptr # None
      /\ \A j \in Ids : table[j] # th[t].ptr
      /\ \A u \in Threads : u # t => th[u].pc # "insert"
  BY <1>a, InstanceOK DEF IdsInv
<1>d. /\ \A u \in Threads : th[u].id \in Ids
      /\ \A s \in Slots : cache[s].id \in Ids \cup {-1}
      /\ \A p \in Ports : port[p].id \in Ids
  BY CallingFields DEF TypeOK, Line, Subscription
<1> HIDE DEF i
<1>1. TypeOK'
  BY TypeStep DEF Next, Lookup, IsolateStep, Threads
<1>2. IdsInv'
  BY <1>a, <1>b, <1>c, <1>d DEF IdsInv
<1>3. MutexInv'
  BY <1>a, <1>b, <1>c, <1>d, InstanceOK DEF MutexInv, Holds, Threads
<1>4. CallInv'
  BY <1>a, <1>b, <1>c, <1>d DEF CallInv, InCall
<1>5. CacheInv'
  BY <1>a, <1>b, <1>c, <1>d DEF CacheInv
<1>6. HitInv'
  <2>1. SUFFICES ASSUME NEW u \in Threads, th'[u].pc = "hit", ~th'[u].crossed
                 PROVE  \/ cache'[Slot(th'[u].id)].ptr = was'[th'[u].id]
                        \/ cache'[Slot(th'[u].id)].ptr = None /\ th'[u].cleared
    BY DEF HitInv
  <2>2. th'[u] = th[u] /\ cache' = cache
    BY <1>b, <2>1
  <2>3. th[u].id # i /\ th[u].id \in Ids
    BY <1>c, <1>d, <2>1, <2>2 DEF CallInv, InCall
  <2>4. was'[th[u].id] = was[th[u].id]
    BY <1>b, <2>3
  <2> QED
    BY <2>1, <2>2, <2>4 DEF HitInv
<1>7. PortInv'
  BY <1>a, <1>b, <1>c, <1>d DEF PortInv, InCall
<1>8. LookupFindsOwn'
  <2>1. SUFFICES ASSUME NEW u \in Threads, th'[u].pc = "found", ~th'[u].crossed
                 PROVE  LET c == th'[u] IN
                   \/ /\ c.ptr # None /\ c.ptr = was'[c.id]
                      /\ u \in Isolates => table'[c.id] = c.ptr
                   \/ c.ptr = None /\ (c.cleared \/ (u \in Workers /\ table'[c.id] = None))
    BY DEF LookupFindsOwn
  <2>2. th'[u] = th[u]
    BY <1>b, <2>1
  <2>3. th[u].id # i /\ th[u].id \in Ids
    BY <1>c, <1>d, <2>1, <2>2 DEF CallInv, InCall
  <2>4. was'[th[u].id] = was[th[u].id] /\ table'[th[u].id] = table[th[u].id]
    BY <1>b, <2>3
  <2> QED
    BY <2>1, <2>2, <2>4 DEF LookupFindsOwn
<1>9. SubscribersExact'
  BY <1>a, <1>b, <1>c, <1>d, AddressFacts, PortFields DEF SubscribersExact, PortInv
<1> QED
  BY <1>1, <1>2, <1>3, <1>4, <1>5, <1>6, <1>7, <1>8, <1>9

\* An instance is erased with its subscriptions.
LEMMA DestroyStep ==
  ASSUME IInv, NEW t \in Isolates, Destroy(t)
  PROVE  IInv'
<1> USE DEF IInv
<1>a. PICK i \in Ids \ {0} : /\ home[i] = t /\ table[i] # None
                             /\ subs' = [subs EXCEPT ![table[i]] = {}]
                             /\ table' = [table EXCEPT ![i] = None]
  BY DEF Destroy
<1>b. /\ t \in Threads /\ th[t].pc = "idle" /\ mtx = None /\ mtx' = t
      /\ \A u \in Threads : u # t => th'[u] = th[u]
      /\ UNCHANGED <<nextId, cache, port, home, was>>
  BY DEF Destroy, Threads, TypeOK
<1>c. th'[t].pc = "clearId" /\ th'[t].port = th[t].port
  <2>1. th[t] \in Calling /\ th'[t] = [th[t] EXCEPT !.pc = "clearId", !.slot = 0]
    BY <1>b DEF Destroy, TypeOK
  <2> QED
    BY <2>1 DEF Calling
<1>d. /\ i \in Ids /\ table[i] # None /\ home[i] = t
      /\ \A j \in Ids : table'[j] = IF j = i THEN None ELSE table[j]
      /\ \A x \in Pointer : subs'[x] = IF x = table[i] THEN {} ELSE subs[x]
      /\ \A j \in Ids : j # i /\ table[j] # None => table[j] # table[i]
  BY <1>a DEF TypeOK, IdsInv
<1>e. /\ \A u \in Threads : th[u].id \in Ids /\ ~Holds(u)
      /\ \A p \in Ports : port[p].id \in Ids
  BY <1>b, CallingFields, InstanceOK DEF TypeOK, Subscription, MutexInv, Threads
<1>1. TypeOK'
  BY TypeStep DEF Next, Lookup, IsolateStep, Threads
<1>2. IdsInv'
  BY <1>b, <1>c, <1>d, InstanceOK DEF IdsInv
<1>3. MutexInv'
  BY <1>b, <1>c, <1>d, <1>e DEF MutexInv, Holds
<1>4. CallInv'
  BY <1>b, <1>c, <1>d, <1>e DEF CallInv, InCall, Holds
<1>5. CacheInv'
  BY <1>b, <1>c, <1>d, <1>e DEF CacheInv
<1>6. HitInv'
  BY <1>b, <1>c, <1>d, <1>e DEF HitInv
<1>7. PortInv'
  BY <1>b, <1>c, <1>d, <1>e DEF PortInv, InCall
<1>8. LookupFindsOwn'
  BY <1>b, <1>c, <1>d, <1>e DEF LookupFindsOwn, CallInv, InCall
<1>9. SubscribersExact'
  BY <1>b, <1>c, <1>d, <1>e, AddressFacts, PortFields DEF SubscribersExact
<1> QED
  BY <1>1, <1>2, <1>3, <1>4, <1>5, <1>6, <1>7, <1>8, <1>9

\* The first half of a slot is cleared.
LEMMA ClearIdStep ==
  ASSUME IInv, NEW t \in Isolates, ClearId(t)
  PROVE  IInv'
<1> USE DEF IInv
<1> DEFINE s == th[t].slot
<1>a. /\ s = th[t].slot /\ s \in Slots /\ t \in Threads /\ th[t].pc = "clearId"
      /\ \A u \in Threads : u # t => th'[u] = th[u]
      /\ UNCHANGED <<nextId, table, mtx, subs, port, home, was>>
  BY CallingFields DEF ClearId, Threads, TypeOK
<1>b. /\ th'[t].pc = "clearPtr" /\ th'[t].port = th[t].port /\ th'[t].slot = s
  <2>1. th[t] \in Calling /\ th'[t] = [th[t] EXCEPT !.pc = "clearPtr"]
    BY <1>a DEF ClearId, TypeOK
  <2> QED
    BY <2>1 DEF Calling
<1>c. \A r \in Slots : /\ cache'[r].id = IF r = s THEN -1 ELSE cache[r].id
                       /\ cache'[r].ptr = cache[r].ptr
  <2>1. cache' = [cache EXCEPT ![s] = [@ EXCEPT !.id = -1]]
    BY DEF ClearId
  <2> QED
    BY <1>a, <2>1 DEF TypeOK, Line
<1>d. /\ \A u \in Threads : u # t => ~Holds(u)
      /\ \A u \in Threads : Slot(th[u].id) \in Slots /\ th[u].slot \in Slots
  BY <1>a, CallingFields DEF MutexInv, Holds
<1> HIDE DEF s
<1>1. TypeOK'
  BY TypeStep DEF Next, Lookup, IsolateStep, Threads
<1>2. IdsInv'
  BY <1>a, <1>b, <1>c, <1>d DEF IdsInv
<1>3. MutexInv'
  BY <1>a, <1>b, <1>c, <1>d DEF MutexInv, Holds
<1>4. CallInv'
  BY <1>a, <1>b, <1>c, <1>d DEF CallInv, InCall
<1>5. CacheInv'
  BY <1>a, <1>b, <1>c, <1>d DEF CacheInv, Holds
<1>6. HitInv'
  BY <1>a, <1>b, <1>c, <1>d DEF HitInv
<1>7. PortInv'
  BY <1>a, <1>b, <1>c, <1>d DEF PortInv, InCall
<1>8. LookupFindsOwn'
  BY <1>a, <1>b, <1>c, <1>d DEF LookupFindsOwn
<1>9. SubscribersExact'
  BY <1>a, <1>b, <1>c, <1>d DEF SubscribersExact
<1> QED
  BY <1>1, <1>2, <1>3, <1>4, <1>5, <1>6, <1>7, <1>8, <1>9

\* The second half of a slot is cleared.
LEMMA ClearPtrStep ==
  ASSUME IInv, NEW t \in Isolates, ClearPtr(t)
  PROVE  IInv'
<1> USE DEF IInv
<1> DEFINE s == th[t].slot
<1>a. /\ s = th[t].slot /\ s \in Slots /\ t \in Threads /\ th[t].pc = "clearPtr"
      /\ cache[s].id = -1
      /\ UNCHANGED <<nextId, table, subs, port, home, was>>
  BY CallingFields DEF ClearPtr, Threads, CacheInv
<1>b. /\ th'[t].port = None
      /\ \/ th'[t].pc = "clearId" /\ mtx' = mtx
         \/ th'[t].pc = "idle" /\ mtx' = None
      /\ \A u \in Threads \ {t} :
           /\ th'[u].pc = th[u].pc /\ th'[u].id = th[u].id /\ th'[u].ptr = th[u].ptr
           /\ th'[u].port = th[u].port /\ th'[u].slot = th[u].slot
           /\ th'[u].crossed = th[u].crossed
           /\ th[u].cleared \/ Between(u, s) => th'[u].cleared
  BY ClearPtrFacts
<1>c. \A r \in Slots : /\ cache'[r].id = cache[r].id
                       /\ cache'[r].ptr = IF r = s THEN None ELSE cache[r].ptr
  BY ClearPtrFacts
<1>d. /\ mtx = t /\ \A u \in Threads : u # t => ~Holds(u)
      /\ \A u \in Threads : Slot(th[u].id) \in Slots /\ th[u].slot \in Slots
  BY <1>a, CallingFields DEF MutexInv, Holds
<1> HIDE DEF s
<1>1. TypeOK'
  BY TypeStep DEF Next, Lookup, IsolateStep, Threads
<1>2. IdsInv'
  BY <1>a, <1>b, <1>c, <1>d DEF IdsInv
<1>3. MutexInv'
  BY <1>a, <1>b, <1>c, <1>d, InstanceOK DEF MutexInv, Holds, Threads
<1>4. CallInv'
  BY <1>a, <1>b, <1>c, <1>d DEF CallInv, InCall, Holds
<1>5. CacheInv'
  BY <1>a, <1>b, <1>c, <1>d DEF CacheInv, Holds
<1>6. HitInv'
  BY <1>a, <1>b, <1>c, <1>d DEF HitInv, Between
<1>7. PortInv'
  BY <1>a, <1>b, <1>c, <1>d DEF PortInv, InCall
<1>8. LookupFindsOwn'
  BY <1>a, <1>b, <1>c, <1>d DEF LookupFindsOwn
<1>9. SubscribersExact'
  BY <1>a, <1>b, <1>c, <1>d DEF SubscribersExact
<1> QED
  BY <1>1, <1>2, <1>3, <1>4, <1>5, <1>6, <1>7, <1>8, <1>9

\* What a step that changes nothing of what the invariant speaks of keeps.
LEMMA SameStep ==
  ASSUME IInv, TypeOK', UNCHANGED <<nextId, table, mtx, cache, th, subs, port, home, was>>
  PROVE  IInv'
<1>1. IdsInv' /\ MutexInv'
  BY DEF IInv, IdsInv, MutexInv, Holds
<1>2. CallInv' /\ CacheInv'
  BY DEF IInv, CallInv, InCall, CacheInv
<1>3. HitInv' /\ PortInv'
  BY DEF IInv, HitInv, PortInv, InCall
<1>4. LookupFindsOwn'
  BY DEF IInv, LookupFindsOwn
<1>5. SubscribersExact'
  BY DEF IInv, SubscribersExact
<1> QED
  BY <1>1, <1>2, <1>3, <1>4, <1>5 DEF IInv

\* The snapshot of an emission is taken: nothing it reads changes.
LEMMA EmitStep ==
  ASSUME IInv, NEW i \in Ids, Emit(i)
  PROVE  IInv'
<1>1. TypeOK'
  BY TypeStep DEF IInv, Next
<1>2. UNCHANGED <<nextId, table, mtx, cache, th, subs, port, home, was>>
  BY DEF Emit
<1> QED
  BY <1>1, <1>2, SameStep

\* When the library is loaded there is instance 0, and nobody calls it yet.
LEMMA InitInv ==
  ASSUME Init
  PROVE  IInv
<1> USE InstanceOK DEF Init
<1>1. TypeOK
  <2>1. th \in [Threads -> Calling] /\ mtx \in Threads \cup {None}
    BY IdleType
  <2>2. port \in [Ports -> Subscription] /\ home \in [Ids -> Isolates \cup {None}]
    BY DEF Subscription, Ids
  <2>3. cache \in [Slots -> Line] /\ subs \in [Pointer -> SUBSET Ports]
    BY DEF Line, Pointer
  <2>4. table \in [Ids -> Pointer] /\ nextId \in 1 .. MaxId
    BY DEF Pointer, Address
  <2>5. emission \in [id : Ids, to : SUBSET Ports] /\ got \subseteq Ports \X Ids
    BY DEF NoEmission, Ids
  <2> QED
    BY <2>1, <2>2, <2>3, <2>4, <2>5 DEF TypeOK
<1>2. IdsInv
  <2>1. \A i \in Ids : i <= 1 <=> i = 0
    BY DEF Ids
  <2> QED
    BY <2>1, IdleType DEF IdsInv
<1>3. \A t \in Threads : th[t].pc = "idle" /\ th[t].port = None
  BY IdleType
<1>4. /\ MutexInv /\ CallInv /\ CacheInv /\ HitInv /\ LookupFindsOwn
  BY <1>3 DEF MutexInv, Holds, CallInv, InCall, CacheInv, HitInv, LookupFindsOwn, Threads
<1>5. was[0] # None
  BY DEF Ids
<1>6. PortInv
  BY <1>3, <1>5 DEF PortInv
<1>7. SubscribersExact
  BY AddressFacts DEF SubscribersExact
<1> QED
  BY <1>1, <1>2, <1>4, <1>6, <1>7 DEF IInv

\* Every step keeps the inductive invariant.
LEMMA InvStep ==
  ASSUME IInv, [Next]_vars
  PROVE  IInv'
<1>1. ASSUME NEW t \in Threads, Lookup(t) PROVE IInv'
  BY <1>1, StartCallStep, LoadPtrStep, FindNoneStep, FindFillStep, FillStep, ReturnStep
     DEF Lookup
<1>2. ASSUME NEW t \in Isolates, IsolateStep(t) PROVE IInv'
  BY <1>2, StartRegisterStep, AddStep, ReleaseStep, ConstructStep, InsertStep, DestroyStep,
     ClearIdStep, ClearPtrStep DEF IsolateStep
<1>3. ASSUME NEW p \in Ports, Abandon(p) \/ Post(p) PROVE IInv'
  BY <1>3, AbandonStep, PostStep
<1>4. CASE UNCHANGED vars
  <2>1. TypeOK'
    BY TypeStep DEF IInv
  <2> QED
    BY <1>4, <2>1, SameStep DEF vars
<1> QED
  BY <1>1, <1>2, <1>3, <1>4, EmitStep DEF Next

\* The inductive invariant holds in every behaviour.
LEMMA Invariant == Spec => []IInv
<1>1. Init => IInv
  BY InitInv
<1>2. IInv /\ [Next]_vars => IInv'
  BY InvStep
<1> QED
  BY <1>1, <1>2, PTL DEF Spec

-----------------------------------------------------------------------------
(***************************************************************************)
(* The table, the cache, the threads in a lookup and the registry stay     *)
(* what the code takes them for.                                           *)
(***************************************************************************)
THEOREM TypeCorrect == Spec => []TypeOK
  BY Invariant, PTL DEF IInv

(***************************************************************************)
(* _nitro_get_instance without the mutex: for any number of threads,       *)
(* instances and cache slots, a lookup whose two loads no miss for another *)
(* instance of the slot got between returns the instance asked for, or     *)
(* nothing if it was destroyed or the cache was invalidated meanwhile.     *)
(***************************************************************************)
THEOREM LookupCorrect == Spec => []LookupFindsOwn
  BY Invariant, PTL DEF IInv

(***************************************************************************)
(* _NitroStreamPorts: a registered port belongs to the live instance it    *)
(* was opened on, and an open one stays registered, although addresses are *)
(* used again by later instances.                                          *)
(***************************************************************************)
THEOREM RegistryCorrect == Spec => []SubscribersExact
  BY Invariant, PTL DEF IInv

-----------------------------------------------------------------------------
\* A port keeps the instance it was opened on, from its registration on.
Settled(p) == port[p].state \in {"open", "closed"}

\* An item under way, or one that arrived, is for a registered port and from the
\* port's own instance, unless the lookup that registered it was crossed.
Owns(p, i) == Settled(p) /\ (port[p].id # i => port[p].crossed)

EventInv ==
  /\ \A p \in emission.to : Owns(p, emission.id)
  /\ \A g \in got : Owns(g[1], g[2])

\* No step changes what a registered port was registered for.
LEMMA SettledStays ==
  ASSUME IInv, [Next]_vars, NEW p \in Ports, Settled(p)
  PROVE  /\ Settled(p)'
         /\ port'[p].id = port[p].id /\ port'[p].crossed = port[p].crossed
<1> USE DEF Settled
<1>1. CASE UNCHANGED port
  BY <1>1
<1>2. ASSUME NEW t \in Isolates, StartRegister(t) PROVE port'[p] = port[p]
  BY <1>2 DEF StartRegister, IInv, TypeOK
<1>3. ASSUME NEW t \in Isolates, Add(t) PROVE port'[p] = port[p]
  <2>1. /\ th[t].port # None
        /\ port' = [port EXCEPT ![th[t].port] = [@ EXCEPT !.state = "open",
              !.crossed = th[t].crossed, !.cleared = th[t].cleared]]
    BY <1>3 DEF Add
  <2>2. port[th[t].port].state = "opening"
    BY <2>1 DEF IInv, PortInv, Threads
  <2> QED
    BY <2>1, <2>2 DEF IInv, TypeOK
<1>4. ASSUME NEW q \in Ports, port' = [port EXCEPT ![q].state = "closed"]
      PROVE  /\ Settled(p)'
             /\ port'[p].id = port[p].id /\ port'[p].crossed = port[p].crossed
  BY <1>4 DEF IInv, TypeOK, Subscription
<1>5. ASSUME NEW t \in Isolates, Release(t)
      PROVE  \E q \in Ports : port' = [port EXCEPT ![q].state = "closed"]
  BY <1>5 DEF Release
<1>6. ASSUME NEW q \in Ports, Abandon(q)
      PROVE  port' = [port EXCEPT ![q].state = "closed"]
  BY <1>6 DEF Abandon
<1>7. \/ UNCHANGED port
      \/ \E t \in Isolates : StartRegister(t) \/ Add(t) \/ Release(t)
      \/ \E q \in Ports : Abandon(q)
  BY DEF Next, Lookup, IsolateStep, StartCall, LoadPtr, Find, Fill, Return, Construct,
         Insert, Destroy, ClearId, ClearPtr, Emit, Post, vars
<1> QED
  BY <1>1, <1>2, <1>3, <1>4, <1>5, <1>6, <1>7

\* The snapshot of an emission holds ports of its own instance.
LEMMA SnapshotOwn ==
  ASSUME IInv, NEW i \in Ids, table[i] # None, NEW p \in subs[table[i]]
  PROVE  p \in Ports /\ Owns(p, i)
<1>1. table[i] \in Address /\ p \in Ports
  BY DEF IInv, TypeOK, Pointer
<1>2. Settled(p)
  BY <1>1 DEF IInv, TypeOK, PortInv, Settled, Subscription, Pointer
<1>3. ~port[p].crossed => port[p].id = i
  BY <1>1, PortFields DEF IInv, SubscribersExact, IdsInv
<1> QED
  BY <1>1, <1>2, <1>3 DEF Owns

LEMMA EventStep ==
  ASSUME IInv, EventInv, [Next]_vars
  PROVE  EventInv'
<1>1. \A p \in Ports, i \in Ids : Owns(p, i) => Owns(p, i)'
  BY SettledStays DEF Owns
<1>2. /\ emission.to \subseteq Ports /\ emission.id \in Ids
      /\ \A g \in got : g[1] \in Ports /\ g[2] \in Ids
  BY DEF IInv, TypeOK
<1>3. CASE UNCHANGED <<emission, got>>
  BY <1>1, <1>2, <1>3 DEF EventInv
<1>4. ASSUME NEW i \in Ids, Emit(i) PROVE EventInv'
  <2>1. /\ emission' = [id |-> i, to |-> subs[table[i]]]
        /\ table[i] # None /\ got' = got
    BY <1>4 DEF Emit
  <2>2. emission'.id = i /\ \A p \in emission'.to : Owns(p, i)'
    BY <1>1, <2>1, SnapshotOwn
  <2>3. \A g \in got : Owns(g[1], g[2])'
    BY <1>1, <1>2 DEF EventInv
  <2> QED
    BY <2>1, <2>2, <2>3 DEF EventInv, Owns, Settled
<1>5. ASSUME NEW p \in Ports, Post(p) PROVE EventInv'
  <2>1. p \in emission.to
    BY <1>5 DEF Post
  <2>2. got' \subseteq got \cup {<<p, emission.id>>}
    BY <1>5 DEF Post
  <2>3. /\ emission'.to \subseteq emission.to
        /\ emission'.to # {} => emission'.id = emission.id
    BY <1>5 DEF Post, NoEmission, IInv, TypeOK
  <2>4. (\A q \in emission.to : Owns(q, emission.id))'
    <3>1. \A q \in emission'.to : Owns(q, emission.id) /\ q \in Ports
      BY <1>2, <2>3 DEF EventInv
    <3> QED
      BY <1>1, <1>2, <2>3, <3>1 DEF Owns, Settled
  <2>5. (\A g \in got : Owns(g[1], g[2]))'
    BY <1>1, <1>2, <2>1, <2>2 DEF EventInv
  <2> QED
    BY <2>4, <2>5 DEF EventInv
<1>6. \/ UNCHANGED <<emission, got>>
      \/ \E i \in Ids : Emit(i)
      \/ \E p \in Ports : Post(p)
  BY DEF Next, Lookup, IsolateStep, StartCall, LoadPtr, Find, Fill, Return, Construct,
         Insert, Destroy, ClearId, ClearPtr, StartRegister, Add, Release, Abandon, vars
<1> QED
  BY <1>3, <1>4, <1>5, <1>6

(***************************************************************************)
(* "A subscriber on one instance never receives another instance's events" *)
(* (bridge, 6964-6966): true for any number of instances at addresses used *)
(* again, whatever emissions are under way when one is disposed of, except *)
(* for a subscriber whose registering lookup was crossed.                  *)
(***************************************************************************)
THEOREM EventsCorrect == Spec => []OwnEventsUnlessCrossed
<1>1. Init => EventInv
  BY DEF Init, EventInv, NoEmission
<1>2. IInv /\ EventInv /\ [Next]_vars => EventInv'
  BY EventStep
<1>3. EventInv => OwnEventsUnlessCrossed
  BY DEF EventInv, Owns, OwnEventsUnlessCrossed
<1> QED
  BY <1>1, <1>2, <1>3, Invariant, PTL DEF Spec

================================================================================
