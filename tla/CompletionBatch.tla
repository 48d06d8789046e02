--------------------------- MODULE CompletionBatch ---------------------------
(***************************************************************************)
(* NitroCompletionBatch (src/src/native/nitro_completion_batch.h): the     *)
(* object every generated bridge posts through.  It lets the results and   *)
(* stream items that arrive while a Dart isolate is busy with a message    *)
(* travel together in the next one.                                        *)
(*                                                                         *)
(* post() and ack() take the mutex to decide, release it, and only then    *)
(* call Dart_PostCObject: each is two actions here, so that every other    *)
(* operation can run in the gap.  The Dart side (receive ports, the        *)
(* isolate's event loop, the call to ack after each message) is external   *)
(* and is modelled from what the header says of it.                        *)
(*                                                                         *)
(* An object that copyable() refuses (a send port, a capability, a native  *)
(* pointer) cannot wait for an ack: post() sends it at once, ahead of what *)
(* is pending.  PostNow is that path, and `overtaken` remembers the ports  *)
(* it was taken on: the promises about one message and about order are for *)
(* the others.                                                             *)
(***************************************************************************)
EXTENDS Integers, Sequences, FiniteSets

CONSTANTS
  BatchPorts,    \* shared completion ports, one per isolate using the library
  StreamPorts,   \* receive ports of coalesced stream subscriptions
  HeapStreams,   \* the streams whose items are malloc'd (coalesce got a FreeItem)
  Threads,       \* native threads that post
  MaxBinds,      \* bound: ids that Dart reserves
  MaxPosts,      \* bound: calls of post()
  NoPort

ASSUME ConstantsOK ==
  /\ BatchPorts \cap StreamPorts = {}
  /\ HeapStreams \subseteq StreamPorts
  /\ NoPort \notin BatchPorts \cup StreamPorts
  /\ MaxBinds \in Nat
  /\ MaxPosts \in Nat
  /\ (1 .. MaxBinds) \cap StreamPorts = {}

Ports == BatchPorts \cup StreamPorts
Ids   == 1 .. MaxBinds

\* An object is the number of the call of post() that brought it, in the order
\* of the mutex: object n was posted to log[n].
Objects == 1 .. MaxPosts

VARIABLES
  seq,        \* seq_: last id handed out
  bound,      \* bound_: id -> batch port, NoPort when absent
  coalesced,  \* coalesced_: "on" while registered; "fresh" before, "off" after
  inFlight,   \* ports_[p].inFlight (FALSE also stands for no entry)
  pending,    \* ports_[p].pending  (<<>> also stands for no entry)
  log,        \* history: what each call of post() was called with
  send,       \* per thread: the message it posts now that it left the mutex
  open,       \* the Dart receive port is open
  queue,      \* messages, each a sequence of objects, the VM holds for the port
  dart,       \* the isolate behind the port: between a message and its ack
  handled,    \* history: objects given to Dart, which then owns them
  overtaken,  \* history: ports where an object went ahead of a message in flight
  freed,      \* history: times native code freed an object
  lost        \* history: objects the VM discarded with a closed port's queue

vars == <<seq, bound, coalesced, inFlight, pending, log, send, open, queue, dart,
          handled, overtaken, freed, lost>>

Idle == [port |-> NoPort, items |-> <<>>]
AtRest == [pc |-> "idle", items |-> <<>>]

TypeOK ==
  /\ seq \in 0 .. MaxBinds
  /\ bound \in [Ids -> BatchPorts \cup {NoPort}]
  /\ coalesced \in [StreamPorts -> {"fresh", "on", "off"}]
  /\ inFlight \in [Ports -> BOOLEAN]
  /\ pending \in [Ports -> Seq(Objects)]
  /\ log \in Seq(Ids \cup StreamPorts) /\ Len(log) <= MaxPosts
  /\ send \in [Threads -> {Idle} \cup [port : Ports, items : Seq(Objects)]]
  /\ open \in [Ports -> BOOLEAN]
  /\ queue \in [Ports -> Seq(Seq(Objects))]
  /\ dart \in [Ports -> [pc : {"idle", "handled", "flush"}, items : Seq(Objects)]]
  /\ handled \in [Ports -> Seq(Objects)]
  /\ overtaken \subseteq Ports
  /\ freed \in [Objects -> Nat]
  /\ lost \subseteq Objects

Init ==
  /\ seq = 0
  /\ bound = [i \in Ids |-> NoPort]
  /\ coalesced = [p \in StreamPorts |-> "fresh"]
  /\ inFlight = [p \in Ports |-> FALSE]
  /\ pending = [p \in Ports |-> <<>>]
  /\ log = <<>>
  /\ send = [t \in Threads |-> Idle]
  /\ open = [p \in Ports |-> TRUE]
  /\ queue = [p \in Ports |-> <<>>]
  /\ dart = [p \in Ports |-> AtRest]
  /\ handled = [p \in Ports |-> <<>>]
  /\ overtaken = {}
  /\ freed = [n \in Objects |-> 0]
  /\ lost = {}

-----------------------------------------------------------------------------
Occurrences(n, items) == Cardinality({i \in DOMAIN items : items[i] = n})

\* freeItems: every object of a stream with a FreeItem is released once more.
FreeItems(p, items) ==
  freed' = IF p \in HeapStreams
           THEN [n \in Objects |-> freed[n] + Occurrences(n, items)]
           ELSE freed

\* Dart_PostCObject: an open port queues the message, a closed one refuses it
\* and whoever made the objects for it frees them (ack, or the emitter).
PostOrFree(p, items) ==
  \/ /\ open[p]
     /\ queue' = [queue EXCEPT ![p] = Append(@, items)]
     /\ UNCHANGED freed
  \/ /\ ~open[p]
     /\ FreeItems(p, items)
     /\ UNCHANGED queue

-----------------------------------------------------------------------------
(* Dart, before a call: reserve an id routed to the batch port.            *)
Bind(p) ==
  /\ open[p]
  /\ seq < MaxBinds
  /\ seq' = seq + 1
  /\ bound' = [bound EXCEPT ![seq + 1] = p]
  /\ UNCHANGED <<coalesced, inFlight, pending, log, send, open, queue, dart,
                 handled, overtaken, freed, lost>>

(* Stream register.  A Dart port number is never reused.                   *)
Coalesce(p) ==
  /\ coalesced[p] = "fresh"
  /\ open[p]
  /\ coalesced' = [coalesced EXCEPT ![p] = "on"]
  /\ UNCHANGED <<seq, bound, inFlight, pending, log, send, open, queue, dart,
                 handled, overtaken, freed, lost>>

\* Mutant: release drops the pending items without freeing them.
UncoalesceLeaking(p) ==
  /\ coalesced[p] = "on"
  /\ dart[p].pc # "flush"
  /\ coalesced' = [coalesced EXCEPT ![p] = "off"]
  /\ inFlight' = [inFlight EXCEPT ![p] = FALSE]
  /\ pending' = [pending EXCEPT ![p] = <<>>]
  /\ UNCHANGED <<seq, bound, log, send, open, queue, dart, handled, overtaken,
                 freed, lost>>

(* Stream release: forget the port and its state, free what was pending.   *)
(* The isolate that releases is the one that acks, so never inside an ack. *)
Uncoalesce(p) ==
  /\ coalesced[p] = "on"
  /\ dart[p].pc # "flush"
  /\ coalesced' = [coalesced EXCEPT ![p] = "off"]
  /\ inFlight' = [inFlight EXCEPT ![p] = FALSE]
  /\ pending' = [pending EXCEPT ![p] = <<>>]
  /\ FreeItems(p, pending[p])
  /\ UNCHANGED <<seq, bound, log, send, open, queue, dart, handled, overtaken,
                 lost>>

-----------------------------------------------------------------------------
\* post() is called with the id of a call that has not answered yet, or with
\* the port of a stream an emitter has seen registered (its snapshot of the
\* registry may be older than the release).
CanPost(t, to) ==
  /\ send[t] = Idle
  /\ Len(log) < MaxPosts
  /\ \/ /\ to \in Ids
        /\ to <= seq
        /\ \A i \in DOMAIN log : log[i] # to
     \/ to \in StreamPorts /\ coalesced[to] # "fresh"

\* The port the batcher sends `to` through, NoPort for a direct post.
Target(to) ==
  IF to \in Ids THEN bound[to]
  ELSE IF coalesced[to] = "on" THEN to ELSE NoPort

\* Under the mutex: a bound id is erased.
EnterPost(to) ==
  /\ log' = Append(log, to)
  /\ bound' = IF to \in Ids THEN [bound EXCEPT ![to] = NoPort] ELSE bound

NewObject == Len(log) + 1

(* Neither bound nor coalesced: posted as it is, still under the mutex.    *)
PostDirect(t, to) ==
  /\ CanPost(t, to)
  /\ to \in StreamPorts
  /\ Target(to) = NoPort
  /\ EnterPost(to)
  /\ PostOrFree(to, <<NewObject>>)
  /\ UNCHANGED <<seq, coalesced, inFlight, pending, send, open, dart, handled,
                 overtaken, lost>>

\* Mutant: a later post is put before those already waiting.
PostPendInFront(t, to) ==
  /\ CanPost(t, to)
  /\ Target(to) # NoPort
  /\ inFlight[Target(to)]
  /\ EnterPost(to)
  /\ pending' = [pending EXCEPT ![Target(to)] = <<NewObject>> \o @]
  /\ UNCHANGED <<seq, coalesced, inFlight, send, open, queue, dart, handled,
                 overtaken, freed, lost>>

(* A message is in flight and the object is copyable: keep a copy for the  *)
(* next ack.                                                               *)
PostPend(t, to) ==
  /\ CanPost(t, to)
  /\ Target(to) # NoPort
  /\ inFlight[Target(to)]
  /\ EnterPost(to)
  /\ pending' = [pending EXCEPT ![Target(to)] = Append(@, NewObject)]
  /\ UNCHANGED <<seq, coalesced, inFlight, send, open, queue, dart, handled,
                 overtaken, freed, lost>>

\* Mutant: posts to the id it was called with instead of the batch port.
PostFirstToId(t, to) ==
  /\ CanPost(t, to)
  /\ Target(to) # NoPort
  /\ ~inFlight[Target(to)]
  /\ EnterPost(to)
  /\ inFlight' = [inFlight EXCEPT ![Target(to)] = TRUE]
  /\ send' = [send EXCEPT ![t] = [port |-> to, items |-> <<NewObject>>]]
  /\ UNCHANGED <<seq, coalesced, pending, open, queue, dart, handled,
                 overtaken, freed, lost>>

(* Nothing in flight: mark the port and leave the mutex to post, whatever  *)
(* the object is.                                                          *)
PostFirst(t, to) ==
  /\ CanPost(t, to)
  /\ Target(to) # NoPort
  /\ ~inFlight[Target(to)]
  /\ EnterPost(to)
  /\ inFlight' = [inFlight EXCEPT ![Target(to)] = TRUE]
  /\ send' = [send EXCEPT ![t] = [port |-> Target(to), items |-> <<NewObject>>]]
  /\ UNCHANGED <<seq, coalesced, pending, open, queue, dart, handled,
                 overtaken, freed, lost>>

(* A message is in flight, but the object cannot be copied: it is posted   *)
(* at once as well, as a second message.  (A malloc'd item is an address,  *)
(* which is copyable.)                                                     *)
PostNow(t, to) ==
  /\ CanPost(t, to)
  /\ Target(to) # NoPort
  /\ inFlight[Target(to)]
  /\ to \notin HeapStreams
  /\ EnterPost(to)
  /\ send' = [send EXCEPT ![t] = [port |-> Target(to), items |-> <<NewObject>>]]
  /\ overtaken' = overtaken \cup {Target(to)}
  /\ UNCHANGED <<seq, coalesced, inFlight, pending, open, queue, dart, handled,
                 freed, lost>>

(* postItems / postPairs outside the mutex.  A refusal is returned to the  *)
(* caller; nothing resets inFlight.                                        *)
PostSend(t) ==
  /\ send[t] # Idle
  /\ PostOrFree(send[t].port, send[t].items)
  /\ send' = [send EXCEPT ![t] = Idle]
  /\ UNCHANGED <<seq, bound, coalesced, inFlight, pending, log, open, dart,
                 handled, overtaken, lost>>

-----------------------------------------------------------------------------
\* Mutant: ack without pending items forgets to clear inFlight.
AckIdleStuck(p) ==
  /\ dart[p].pc = "handled"
  /\ pending[p] = <<>>
  /\ dart' = [dart EXCEPT ![p] = AtRest]
  /\ UNCHANGED <<seq, bound, coalesced, inFlight, pending, log, send, open,
                 queue, handled, overtaken, freed, lost>>

(* ack with nothing pending, or for a port already released: go idle.      *)
AckIdle(p) ==
  /\ dart[p].pc = "handled"
  /\ pending[p] = <<>>
  /\ inFlight' = [inFlight EXCEPT ![p] = FALSE]
  /\ dart' = [dart EXCEPT ![p] = AtRest]
  /\ UNCHANGED <<seq, bound, coalesced, pending, log, send, open, queue,
                 handled, overtaken, freed, lost>>

\* Mutant: ack clears inFlight before it posts what it took.
AckTakeIdle(p) ==
  /\ dart[p].pc = "handled"
  /\ pending[p] # <<>>
  /\ dart' = [dart EXCEPT ![p] = [pc |-> "flush", items |-> pending[p]]]
  /\ pending' = [pending EXCEPT ![p] = <<>>]
  /\ inFlight' = [inFlight EXCEPT ![p] = FALSE]
  /\ UNCHANGED <<seq, bound, coalesced, log, send, open, queue, handled,
                 overtaken, freed, lost>>

\* Mutant: ack copies what is pending but does not take it.
AckTakeAgain(p) ==
  /\ dart[p].pc = "handled"
  /\ pending[p] # <<>>
  /\ dart' = [dart EXCEPT ![p] = [pc |-> "flush", items |-> pending[p]]]
  /\ UNCHANGED <<seq, bound, coalesced, inFlight, pending, log, send, open,
                 queue, handled, overtaken, freed, lost>>

(* ack with objects pending: take them under the mutex, stay in flight ... *)
AckTake(p) ==
  /\ dart[p].pc = "handled"
  /\ pending[p] # <<>>
  /\ dart' = [dart EXCEPT ![p] = [pc |-> "flush", items |-> pending[p]]]
  /\ pending' = [pending EXCEPT ![p] = <<>>]
  /\ UNCHANGED <<seq, bound, coalesced, inFlight, log, send, open, queue,
                 handled, overtaken, freed, lost>>

(* ... and post them outside the mutex.                                    *)
AckFlush(p) ==
  /\ dart[p].pc = "flush"
  /\ PostOrFree(p, dart[p].items)
  /\ dart' = [dart EXCEPT ![p] = AtRest]
  /\ UNCHANGED <<seq, bound, coalesced, inFlight, pending, log, send, open,
                 handled, overtaken, lost>>

-----------------------------------------------------------------------------
(* The isolate takes the next message of the port; the ack follows it.     *)
Handle(p) ==
  /\ open[p]
  /\ queue[p] # <<>>
  /\ dart[p].pc = "idle"
  /\ handled' = [handled EXCEPT ![p] = @ \o Head(queue[p])]
  /\ queue' = [queue EXCEPT ![p] = Tail(@)]
  /\ dart' = [dart EXCEPT ![p].pc = "handled"]
  /\ UNCHANGED <<seq, bound, coalesced, inFlight, pending, log, send, open,
                 freed, overtaken, lost>>

(* The receive port closes (subscription cancelled, isolate gone): the VM  *)
(* discards the messages it still held for it.                             *)
Close(p) ==
  /\ open[p]
  /\ dart[p].pc # "flush"
  /\ open' = [open EXCEPT ![p] = FALSE]
  /\ queue' = [queue EXCEPT ![p] = <<>>]
  /\ lost' = lost \cup {n \in Objects : \E i \in DOMAIN queue[p] :
                                       Occurrences(n, queue[p][i]) # 0}
  /\ UNCHANGED <<seq, bound, coalesced, inFlight, pending, log, send, dart,
                 handled, overtaken, freed>>

Post(t) == \E to \in Ids \cup StreamPorts :
             \/ PostDirect(t, to) \/ PostPend(t, to)
             \/ PostFirst(t, to)  \/ PostNow(t, to)
Ack(p)  == AckIdle(p) \/ AckTake(p)

Next ==
  \/ \E p \in BatchPorts : Bind(p)
  \/ \E p \in StreamPorts : Coalesce(p) \/ Uncoalesce(p)
  \/ \E t \in Threads : Post(t) \/ PostSend(t)
  \/ \E p \in Ports : Ack(p) \/ AckFlush(p) \/ Handle(p) \/ Close(p)

Spec == Init /\ [][Next]_vars

\* A thread that left the mutex reaches its post; an isolate runs its event
\* loop and acks every message.  Nobody owes a post, a release or a close.
Fairness ==
  /\ \A t \in Threads : WF_vars(PostSend(t))
  /\ \A p \in Ports : WF_vars(Handle(p)) /\ WF_vars(Ack(p)) /\ WF_vars(AckFlush(p))

FairSpec == Spec /\ Fairness

-----------------------------------------------------------------------------
\* The batcher is responsible for p: a batch port, or a subscribed stream.
Live(p) == p \in BatchPorts \/ coalesced[p] = "on"

Sending(t, p) == send[t].port = p

\* A message for p is out: about to be posted, queued, or with the isolate.
Carried(p) ==
  \/ \E t \in Threads : Sending(t, p)
  \/ queue[p] # <<>>
  \/ dart[p].pc # "idle"

\* ... and it is with only one of a thread, the VM's queue and the isolate.
OneCarrier(p) ==
  /\ \A t, u \in Threads : Sending(t, p) /\ Sending(u, p) => t = u
  /\ (\E t \in Threads : Sending(t, p)) => queue[p] = <<>> /\ dart[p].pc = "idle"
  /\ queue[p] # <<>> => Len(queue[p]) = 1 /\ dart[p].pc = "idle"

(* nitro_completion_batch.h:16-18, "At most one message is in flight per   *)
(* batch port": however threads and acks interleave, a message is with at  *)
(* most one of a posting thread, the VM's queue and the isolate.  The      *)
(* exception is the code's own: a port through which an object went that   *)
(* cannot be copied, while a message was out (:158), may have two.         *)
AtMostOneInFlight ==
  \A p \in Ports : Live(p) /\ p \notin overtaken => OneCarrier(p)

(* No lost wake-up: objects wait only while a message is out whose ack     *)
(* will flush them.  post()'s decision to wait and ack's decision to go    *)
(* idle race for the mutex; an object left pending on an idle port would   *)
(* stay there until some later post overtook it.  A closed port never acks.*)
PendingHasCarrier ==
  \A p \in Ports : Live(p) /\ open[p] /\ pending[p] # <<>> => Carried(p)

\* Nothing was ever posted to a stream that has not subscribed.
Untouched(p) ==
  ~Carried(p) /\ ~inFlight[p] /\ pending[p] = <<>> /\ p \notin overtaken

(* The inductive invariant behind the two: a port that is not marked in    *)
(* flight keeps nothing waiting, one that is has a carrier, and, unless it *)
(* was overtaken, one carrier and none when it is not marked.              *)
CarrierAt(p) ==
  /\ dart[p].pc # "flush" => dart[p].items = <<>>
  /\ Live(p) => /\ ~inFlight[p] => pending[p] = <<>>
                /\ inFlight[p] /\ open[p] => Carried(p)
  /\ Live(p) /\ p \notin overtaken => /\ OneCarrier(p)
                                      /\ ~inFlight[p] => ~Carried(p)
  /\ p \in StreamPorts /\ coalesced[p] = "fresh" => Untouched(p)

CarrierInv == \A p \in Ports : CarrierAt(p)

\* The places where the library, the VM or Dart hold object n.
Held(n, where) ==
  Cardinality({at \in (DOMAIN where) \X Objects :
                 at[2] \in DOMAIN where[at[1]] /\ where[at[1]][at[2]] = n})
Holders(n) ==
  Held(n, pending) + Held(n, handled)
  + Held(n, [p \in Ports |-> dart[p].items])
  + Held(n, [t \in Threads |-> send[t].items])
  + Cardinality({at \in Ports \X Objects :
                   /\ at[2] \in DOMAIN queue[at[1]]
                   /\ Occurrences(n, queue[at[1]][at[2]]) # 0})
  + freed[n]
  + IF n \in lost THEN 1 ELSE 0

(* Each malloc'd stream item has exactly one owner at every moment, and is *)
(* released by exactly one of Dart's unpack, freeItem (header :115-118),   *)
(* and the emitter whose post was refused - or sits in a message the VM    *)
(* discarded.  A completion never has two.                                 *)
OwnedOnce ==
  \A n \in DOMAIN log :
    /\ Holders(n) <= 1
    /\ log[n] \in HeapStreams => Holders(n) = 1

\* Everything on its way to p, oldest first: what is in flight, then what waits.
OnTheWay(p) ==
  (IF queue[p] = <<>> THEN <<>> ELSE Head(queue[p]))
  \o (IF \E t \in Threads : Sending(t, p)
      THEN send[CHOOSE t \in Threads : Sending(t, p)].items ELSE <<>>)
  \o dart[p].items
  \o pending[p]

\* The batcher as the channels of OrderedDelivery.
Served == {p \in Ports : Live(p) /\ open[p] /\ p \notin overtaken}
Channels == INSTANCE OrderedDelivery WITH
  served    <- Served,
  posts     <- Len(log),
  chan      <- [p \in Ports |-> IF p \in Served THEN OnTheWay(p) ELSE <<>>],
  delivered <- handled

(* The batcher implements ordered, exactly-once channels: neither the gaps *)
(* between the mutex and Dart_PostCObject, nor the copies kept for an ack, *)
(* nor a release in the middle of a burst is visible through a served port.*)
(* A port stops being a channel when it closes, when its stream is         *)
(* released, or when an object that cannot be copied overtakes what was    *)
(* pending (header :158); OwnedOnce and EveryPostArrives still hold then.  *)
ImplementsChannels == Channels!Spec

\* Object n is on the way to p through the batcher.
Travelling(n, p) ==
  /\ Live(p) /\ open[p]
  /\ \/ Occurrences(n, pending[p]) # 0
     \/ Occurrences(n, dart[p].items) # 0
     \/ \E i \in DOMAIN queue[p] : Occurrences(n, queue[p][i]) # 0
     \/ \E t \in Threads : Sending(t, p) /\ Occurrences(n, send[t].items) # 0

(* Whatever post() accepted arrives, unless its port closes or its stream  *)
(* is released first: the Dart future completes, the listener is called.   *)
EveryPostArrives ==
  \A n \in Objects, p \in Ports :
    Travelling(n, p) ~>
      (Occurrences(n, handled[p]) # 0 \/ ~open[p] \/ ~Live(p))

=============================================================================
