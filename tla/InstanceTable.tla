----------------------------- MODULE InstanceTable -----------------------------
(***************************************************************************)
(* The instances of the C++ bridge and the stream ports that belong to     *)
(* them: the table guarded by a mutex (create_instance, destroy_instance), *)
(* the cache in front of it that calls read without the mutex              *)
(* (_nitro_get_instance), and the registry of ports that is keyed by the   *)
(* address of an instance (_NitroStreamPorts, one of the 24 alike).        *)
(* Isolates make, use and dispose of their own instances; the workers of   *)
(* the pool run asynchronous calls that were submitted for any of them.    *)
(***************************************************************************)
EXTENDS Integers, FiniteSets

CONSTANTS
  Isolates, Workers,  \* the threads
  Ports,              \* receive ports of stream subscriptions, used once
  Heap,               \* addresses the factory's instances are allocated at
  Static,             \* the address of g_impl, instance 0
  None,               \* the null pointer; also: nobody, no port
  MaxId,              \* bound: the last instance id
  Ways                \* _kNitroCacheWays

ASSUME InstanceOK ==
  /\ Isolates \cap Workers = {} /\ None \notin Isolates \cup Workers \cup Ports
  /\ Static \notin Heap /\ None \notin Heap \cup {Static}
  /\ MaxId \in Nat /\ MaxId >= 1 /\ Ways \in Nat \ {0}

Threads == Isolates \cup Workers
Address == Heap \cup {Static}
Pointer == Address \cup {None}
Ids     == {0} \cup (2 .. MaxId)     \* _g_next_instance_id is 1 before the first
Slots   == 0 .. (Ways - 1)
Slot(i) == i % Ways

VARIABLES
  nextId,     \* _g_next_instance_id
  table,      \* _g_instances
  mtx,        \* the thread that holds _g_instances_mtx between two steps
  cache,      \* _g_inst_cache
  th,         \* per thread: the call it is in
  subs,       \* byInstance of one stream
  port,       \* per port: its state in Dart and what it was registered for
  emission,   \* an emit_<stream>() of an instance: the ports still to post to
  home,       \* history: the isolate that made an instance
  was,        \* history: the address an instance has or had
  got         \* history: the ports with the instances whose items they got

vars == <<nextId, table, mtx, cache, th, subs, port, emission, home, was, got>>

Idle == [pc |-> "idle", id |-> 0, ptr |-> None, port |-> None, slot |-> 0,
         crossed |-> FALSE, cleared |-> FALSE]

NoEmission == [id |-> 0, to |-> {}]

Line == [id : Ids \cup {-1}, ptr : Pointer]

Calling == [pc : {"idle", "hit", "miss", "fill", "found", "insert", "clearId", "clearPtr"},
            id : Ids, ptr : Pointer, port : Ports \cup {None}, slot : Slots,
            crossed : BOOLEAN, cleared : BOOLEAN]

Subscription == [state : {"new", "opening", "open", "closed"}, id : Ids,
                 iso : Isolates \cup {None}, crossed : BOOLEAN, cleared : BOOLEAN]

TypeOK ==
  /\ nextId \in 1 .. MaxId
  /\ table \in [Ids -> Pointer] /\ was \in [Ids -> Pointer]
  /\ mtx \in Threads \cup {None}
  /\ cache \in [Slots -> Line]
  /\ th \in [Threads -> Calling]
  /\ subs \in [Pointer -> SUBSET Ports]
  /\ port \in [Ports -> Subscription]
  /\ emission \in [id : Ids, to : SUBSET Ports]
  /\ home \in [Ids -> Isolates \cup {None}]
  /\ got \subseteq Ports \X Ids

\* register_impl(&g_impl) has run when the library was loaded.
Init ==
  /\ nextId = 1
  /\ table = [i \in Ids |-> IF i = 0 THEN Static ELSE None]
  /\ was = table
  /\ mtx = None
  /\ cache = [s \in Slots |-> [id |-> -1, ptr |-> None]]
  /\ th = [t \in Threads |-> Idle]
  /\ subs = [a \in Pointer |-> {}]
  /\ port = [p \in Ports |-> [state |-> "new", id |-> 0, iso |-> None,
                              crossed |-> FALSE, cleared |-> FALSE]]
  /\ emission = NoEmission
  /\ home = [i \in Ids |-> None]
  /\ got = {}

-----------------------------------------------------------------------------
(* _nitro_get_instance *)

\* An isolate calls its own instances until it disposes of them; a native thread
\* calls those an asynchronous call was submitted for, and get_impl().
MayCall(t, i) ==
  \/ t \in Isolates /\ home[i] = t /\ table[i] # None
  \/ t \in Workers /\ was[i] # None

\* A miss for another instance of the slot has stored its pointer, not its id.
HalfFilled(i) ==
  \E u \in Threads : th[u].pc = "fill" /\ Slot(th[u].id) = Slot(i) /\ th[u].id # i

\* The threads between the two loads of a hit in slot s.
Between(u, s) == th[u].pc = "hit" /\ Slot(th[u].id) = s

\* The first load: the id of the slot.
LoadId(t, i, p) ==
  /\ th[t].pc = "idle"
  /\ MayCall(t, i)
  /\ th' = [th EXCEPT ![t] =
       [Idle EXCEPT !.pc = IF cache[Slot(i)].id = i THEN "hit" ELSE "miss",
                    !.id = i, !.port = p, !.crossed = cache[Slot(i)].id = i /\ HalfFilled(i)]]

\* A call of a method, or the registration of a port for a stream.
StartCall(t) ==
  /\ \E i \in Ids : LoadId(t, i, None)
  /\ UNCHANGED <<nextId, table, mtx, cache, subs, port, emission, home, was, got>>

StartRegister(t) ==
  /\ t \in Isolates
  /\ \E i \in Ids, p \in Ports :
       /\ port[p].state = "new"
       /\ LoadId(t, i, p)
       /\ port' = [port EXCEPT ![p] = [@ EXCEPT !.state = "opening", !.id = i, !.iso = t]]
  /\ UNCHANGED <<nextId, table, mtx, cache, subs, emission, home, was, got>>

\* The second load: the pointer, whatever the slot holds by now.
LoadPtr(t) ==
  /\ th[t].pc = "hit"
  /\ th' = [th EXCEPT ![t].pc = "found", ![t].ptr = cache[Slot(th[t].id)].ptr]
  /\ UNCHANGED <<nextId, table, mtx, cache, subs, port, emission, home, was, got>>

\* Mutant: the slot's pointer gets the id.
FindStoresId(t) ==
  LET i == th[t].id IN
  /\ th[t].pc = "miss" /\ mtx = None /\ table[i] # None
  /\ mtx' = t
  /\ cache' = [cache EXCEPT ![Slot(i)].ptr = i]
  /\ th' = [th EXCEPT ![t].pc = "fill", ![t].ptr = table[i]]
  /\ UNCHANGED <<nextId, table, subs, port, emission, home, was, got>>

\* A miss, under the mutex: find the instance and store its pointer in the slot.
Find(t) ==
  LET i == th[t].id IN
  /\ th[t].pc = "miss"
  /\ mtx = None
  /\ IF table[i] = None
     THEN /\ th' = [th EXCEPT ![t].pc = "found"]
          /\ UNCHANGED <<mtx, cache>>
     ELSE /\ mtx' = t
          /\ cache' = [cache EXCEPT ![Slot(i)].ptr = table[i]]
          /\ th' = [u \in Threads |->
               IF u = t THEN [th[t] EXCEPT !.pc = "fill", !.ptr = table[i]]
               ELSE IF Between(u, Slot(i)) /\ th[u].id # i
               THEN [th[u] EXCEPT !.crossed = TRUE] ELSE th[u]]
  /\ UNCHANGED <<nextId, table, subs, port, emission, home, was, got>>

\* Then the id, and the mutex is left.
Fill(t) ==
  /\ th[t].pc = "fill"
  /\ cache' = [cache EXCEPT ![Slot(th[t].id)].id = th[t].id]
  /\ mtx' = None
  /\ th' = [th EXCEPT ![t].pc = "found"]
  /\ UNCHANGED <<nextId, table, subs, port, emission, home, was, got>>

\* The method runs on the pointer; without one the call reports NotInitialized.
Return(t) ==
  /\ th[t].pc = "found" /\ th[t].port = None
  /\ th' = [th EXCEPT ![t] = Idle]
  /\ UNCHANGED <<nextId, table, mtx, cache, subs, port, emission, home, was, got>>
-----------------------------------------------------------------------------
(* _NitroStreamPorts *)

\* register_<stream>: add(pointer, port), also when the pointer is null.
Add(t) ==
  LET p == th[t].port IN
  /\ th[t].pc = "found" /\ p # None
  /\ subs' = [subs EXCEPT ![th[t].ptr] = @ \cup {p}]
  /\ port' = [port EXCEPT ![p] = [@ EXCEPT !.state = "open", !.crossed = th[t].crossed,
                                           !.cleared = th[t].cleared]]
  /\ th' = [th EXCEPT ![t] = Idle]
  /\ UNCHANGED <<nextId, table, mtx, cache, emission, home, was, got>>

\* remove(p): wherever it is registered.
Without(p) == [a \in Pointer |-> subs[a] \ {p}]

\* release_<stream>: Dart cancelled the subscription.
Release(t) ==
  /\ th[t].pc = "idle"
  /\ \E p \in Ports :
       /\ port[p].state = "open" /\ port[p].iso = t
       /\ subs' = Without(p)
       /\ port' = [port EXCEPT ![p].state = "closed"]
  /\ UNCHANGED <<nextId, table, mtx, cache, th, emission, home, was, got>>

\* A port closes and nobody releases it: its isolate was shut down.
Abandon(p) ==
  /\ port[p].state = "open"
  /\ port' = [port EXCEPT ![p].state = "closed"]
  /\ UNCHANGED <<nextId, table, mtx, cache, th, subs, emission, home, was, got>>

\* emit_<stream>: the snapshot of the ports of this instance, if there are any ...
Emit(i) ==
  /\ emission = NoEmission
  /\ table[i] # None /\ subs[table[i]] # {}
  /\ emission' = [id |-> i, to |-> subs[table[i]]]
  /\ UNCHANGED <<nextId, table, mtx, cache, th, subs, port, home, was, got>>

\* ... and a post to each; a port that refuses the item is removed.
Post(p) ==
  /\ p \in emission.to
  /\ emission' = IF emission.to = {p} THEN NoEmission ELSE [emission EXCEPT !.to = @ \ {p}]
  /\ IF port[p].state \in {"opening", "open"}
     THEN got' = got \cup {<<p, emission.id>>} /\ UNCHANGED subs
     ELSE subs' = Without(p) /\ UNCHANGED got
  /\ UNCHANGED <<nextId, table, mtx, cache, th, port, home, was>>
-----------------------------------------------------------------------------
(* create_instance, destroy_instance *)

\* The factory allocates outside the mutex.  (When it returns no instance, or
\* there is no factory, nothing changes.)
Construct(t) ==
  /\ th[t].pc = "idle" /\ nextId < MaxId
  /\ \A u \in Threads : th[u].pc # "insert"   \* bound: one at a time
  /\ \E a \in Heap :
       /\ \A i \in Ids : table[i] # a
       /\ th' = [th EXCEPT ![t] = [Idle EXCEPT !.pc = "insert", !.ptr = a]]
  /\ UNCHANGED <<nextId, table, mtx, cache, subs, port, emission, home, was, got>>

Insert(t) ==
  LET i == nextId + 1 IN
  /\ th[t].pc = "insert" /\ mtx = None
  /\ nextId' = i
  /\ table' = [table EXCEPT ![i] = th[t].ptr]
  /\ was' = [was EXCEPT ![i] = th[t].ptr]
  /\ home' = [home EXCEPT ![i] = t]
  /\ th' = [th EXCEPT ![t] = Idle]
  /\ UNCHANGED <<mtx, cache, subs, port, emission, got>>

\* Mutant: an instance is erased and its streams are not dropped.
DestroyKeepsStreams(t) ==
  /\ th[t].pc = "idle" /\ mtx = None
  /\ \E i \in Ids \ {0} :
       /\ home[i] = t /\ table[i] # None
       /\ table' = [table EXCEPT ![i] = None]
  /\ mtx' = t
  /\ th' = [th EXCEPT ![t].pc = "clearId", ![t].slot = 0]
  /\ UNCHANGED <<nextId, cache, subs, port, emission, home, was, got>>

\* dispose() or the finalizer: under the mutex the streams of the instance are
\* dropped and it is erased, which frees its address.  Instance 0 stays.
Destroy(t) ==
  /\ th[t].pc = "idle" /\ mtx = None
  /\ \E i \in Ids \ {0} :
       /\ home[i] = t /\ table[i] # None
       /\ subs' = [subs EXCEPT ![table[i]] = {}]
       /\ table' = [table EXCEPT ![i] = None]
  /\ mtx' = t
  /\ th' = [th EXCEPT ![t].pc = "clearId", ![t].slot = 0]
  /\ UNCHANGED <<nextId, cache, port, emission, home, was, got>>

\* Mutant: the erased instance stays in the cache until the next miss.
ClearIdKeeps(t) ==
  /\ th[t].pc = "clearId"
  /\ th' = [th EXCEPT ![t].pc = "clearPtr"]
  /\ UNCHANGED <<nextId, table, mtx, cache, subs, port, emission, home, was, got>>

\* _nitro_invalidate_cache, still under the mutex: every slot, first its id ...
ClearId(t) ==
  /\ th[t].pc = "clearId"
  /\ cache' = [cache EXCEPT ![th[t].slot].id = -1]
  /\ th' = [th EXCEPT ![t].pc = "clearPtr"]
  /\ UNCHANGED <<nextId, table, mtx, subs, port, emission, home, was, got>>

\* ... then its pointer.
ClearPtr(t) ==
  LET s == th[t].slot
      next == IF s + 1 \in Slots THEN [Idle EXCEPT !.pc = "clearId", !.slot = s + 1] ELSE Idle IN
  /\ th[t].pc = "clearPtr"
  /\ cache' = [cache EXCEPT ![s].ptr = None]
  /\ mtx' = IF next = Idle THEN None ELSE mtx
  /\ th' = [u \in Threads |-> IF u = t THEN next
                              ELSE IF Between(u, s) THEN [th[u] EXCEPT !.cleared = TRUE]
                              ELSE th[u]]
  /\ UNCHANGED <<nextId, table, subs, port, emission, home, was, got>>
-----------------------------------------------------------------------------
Lookup(t) == StartCall(t) \/ LoadPtr(t) \/ Find(t) \/ Fill(t) \/ Return(t)

IsolateStep(t) ==
  \/ StartRegister(t) \/ Add(t) \/ Release(t)
  \/ Construct(t) \/ Insert(t)
  \/ Destroy(t) \/ ClearId(t) \/ ClearPtr(t)

Next ==
  \/ \E t \in Threads : Lookup(t)
  \/ \E t \in Isolates : IsolateStep(t)
  \/ \E i \in Ids : Emit(i)
  \/ \E p \in Ports : Abandon(p) \/ Post(p)

Spec == Init /\ [][Next]_vars
-----------------------------------------------------------------------------
(***************************************************************************)
(* What a lookup returns, unless a miss for another instance of the slot   *)
(* got between its two loads (crossed).  An isolate finds its instance,    *)
(* alive, and a worker the one its call was submitted for: never the one   *)
(* that has its address by now under another id.  Nothing is found only    *)
(* when an invalidation passed between the loads (cleared) or, by a        *)
(* worker, when the instance is gone.                                      *)
(***************************************************************************)
LookupFindsOwn ==
  \A t \in Threads : LET c == th[t] IN
    c.pc = "found" /\ ~c.crossed =>
      \/ c.ptr # None /\ c.ptr = was[c.id] /\ (t \in Isolates => table[c.id] = c.ptr)
      \/ c.ptr = None /\ (c.cleared \/ (t \in Workers /\ table[c.id] = None))

(***************************************************************************)
(* "Partitioned by instance": a registered port is registered for the      *)
(* instance it was opened on, and a live instance has all its open ports;  *)
(* a disposed instance leaves none behind, neither at its address nor for  *)
(* the instance that is allocated there next.                              *)
(***************************************************************************)
SubscribersExact ==
  \A p \in Ports : ~port[p].crossed =>
    /\ \A a \in Address : p \in subs[a] => table[port[p].id] = a
    /\ port[p].state = "open" /\ ~port[p].cleared /\ table[port[p].id] # None =>
         p \in subs[table[port[p].id]]

(***************************************************************************)
(* The comment on the registry (6964-6966): a subscriber on one instance   *)
(* never receives another instance's events.  It does only if a miss for   *)
(* another instance of its slot fell between the two loads of the lookup   *)
(* that registered it; not through an address that is used again, nor      *)
(* through an emission that was under way.                                 *)
(***************************************************************************)
OwnEventsUnlessCrossed ==
  \A g \in got : port[g[1]].id # g[2] => port[g[1]].crossed
================================================================================
