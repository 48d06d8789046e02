------------------------ MODULE CompletionBatchProofs ------------------------
(***************************************************************************)
(* Proofs about CompletionBatch for any sets of ports and threads, and any *)
(* number of ids and posts.                                                *)
(***************************************************************************)
EXTENDS CompletionBatch, FiniteSetTheorems, SequenceTheorems, TLAPS

\* How often an object occurs in a sequence is a natural number.
LEMMA OccurrencesType ==
  ASSUME NEW S, NEW items \in Seq(S), NEW n
  PROVE  Occurrences(n, items) \in Nat
<1>1. IsFiniteSet(1 .. Len(items))
  BY FS_Interval
<1>2. {i \in DOMAIN items : items[i] = n} \subseteq 1 .. Len(items)
  OBVIOUS
<1>3. IsFiniteSet({i \in DOMAIN items : items[i] = n})
  BY <1>1, <1>2, FS_Subset
<1> QED
  BY <1>3, FS_CardinalityType DEF Occurrences

\* Freeing what a port held keeps the counters natural numbers.
LEMMA FreeItemsType ==
  ASSUME freed \in [Objects -> Nat], NEW p, NEW items \in Seq(Objects),
         FreeItems(p, items)
  PROVE  freed' \in [Objects -> Nat]
<1>1. \A n \in Objects : Occurrences(n, items) \in Nat
  BY OccurrencesType
<1>2. \A n \in Objects : freed[n] + Occurrences(n, items) \in Nat
  BY <1>1
<1> QED
  BY <1>2 DEF FreeItems

\* A post, accepted or refused, touches the queue and the counters as typed.
LEMMA PostOrFreeType ==
  ASSUME TypeOK, NEW p \in Ports, NEW items \in Seq(Objects),
         PostOrFree(p, items)
  PROVE  /\ queue' \in [Ports -> Seq(Seq(Objects))]
         /\ freed' \in [Objects -> Nat]
<1>1. CASE open[p] /\ queue' = [queue EXCEPT ![p] = Append(@, items)]
           /\ UNCHANGED freed
  BY <1>1 DEF TypeOK
<1>2. CASE ~open[p] /\ FreeItems(p, items) /\ UNCHANGED queue
  BY <1>2, FreeItemsType DEF TypeOK
<1> QED
  BY <1>1, <1>2 DEF PostOrFree

\* The first half of post() keeps log and bound typed, whatever branch follows.
LEMMA EnterPostType ==
  ASSUME TypeOK, NEW t \in Threads, NEW to \in Ids \cup StreamPorts,
         CanPost(t, to), EnterPost(to)
  PROVE  /\ log' \in Seq(Ids \cup StreamPorts)
         /\ Len(log') <= MaxPosts
         /\ bound' \in [Ids -> BatchPorts \cup {NoPort}]
         /\ NewObject \in Objects
         /\ <<NewObject>> \in Seq(Objects)
         /\ Target(to) # NoPort => Target(to) \in Ports
<1>1. log \in Seq(Ids \cup StreamPorts) /\ Len(log) \in Nat /\ Len(log) < MaxPosts
  BY DEF TypeOK, CanPost
<1>2. /\ log' \in Seq(Ids \cup StreamPorts)
      /\ Len(log') = Len(log) + 1
  BY <1>1 DEF EnterPost
<1>3. NewObject \in Objects
  BY <1>1, ConstantsOK DEF NewObject, Objects
<1>4. bound' \in [Ids -> BatchPorts \cup {NoPort}]
  BY DEF EnterPost, TypeOK
<1>5. Target(to) # NoPort => Target(to) \in Ports
  BY DEF Target, TypeOK, Ports
<1>6. Len(log') <= MaxPosts
  BY <1>1, <1>2, ConstantsOK
<1> QED
  BY <1>2, <1>3, <1>4, <1>5, <1>6

\* Every step keeps every variable of the batcher, the VM and the isolates typed.
LEMMA TypeStep ==
  ASSUME TypeOK, [Next]_vars
  PROVE  TypeOK'
<1> USE DEF TypeOK
<1>1. ASSUME NEW p \in BatchPorts, Bind(p) PROVE TypeOK'
  <2>1. seq + 1 \in Ids /\ seq' \in 0 .. MaxBinds
    BY <1>1, ConstantsOK DEF Bind, Ids
  <2> QED
    BY <1>1, <2>1 DEF Bind
<1>2. ASSUME NEW p \in StreamPorts, Coalesce(p) PROVE TypeOK'
  BY <1>2 DEF Coalesce
<1>3. ASSUME NEW p \in StreamPorts, Uncoalesce(p) PROVE TypeOK'
  <2>1. p \in Ports /\ pending[p] \in Seq(Objects)
    BY DEF Ports
  <2>2. freed' \in [Objects -> Nat]
    BY <1>3, <2>1, FreeItemsType DEF Uncoalesce
  <2> QED
    BY <1>3, <2>1, <2>2 DEF Uncoalesce
<1>4. ASSUME NEW t \in Threads, NEW to \in Ids \cup StreamPorts, PostDirect(t, to)
      PROVE  TypeOK'
  <2>1. to \in Ports
    BY <1>4 DEF PostDirect, Ports
  <2>2. /\ log' \in Seq(Ids \cup StreamPorts) /\ Len(log') <= MaxPosts
        /\ bound' \in [Ids -> BatchPorts \cup {NoPort}]
        /\ <<NewObject>> \in Seq(Objects)
    BY <1>4, EnterPostType DEF PostDirect
  <2>3. queue' \in [Ports -> Seq(Seq(Objects))] /\ freed' \in [Objects -> Nat]
    BY <1>4, <2>1, <2>2, PostOrFreeType DEF PostDirect
  <2> QED
    BY <1>4, <2>2, <2>3 DEF PostDirect
<1>5. ASSUME NEW t \in Threads, NEW to \in Ids \cup StreamPorts, PostPend(t, to)
      PROVE  TypeOK'
  <2>1. /\ log' \in Seq(Ids \cup StreamPorts) /\ Len(log') <= MaxPosts
        /\ bound' \in [Ids -> BatchPorts \cup {NoPort}]
        /\ NewObject \in Objects /\ Target(to) \in Ports
    BY <1>5, EnterPostType DEF PostPend
  <2>2. pending' \in [Ports -> Seq(Objects)]
    BY <1>5, <2>1 DEF PostPend
  <2> QED
    BY <1>5, <2>1, <2>2 DEF PostPend
<1>6. ASSUME NEW t \in Threads, NEW to \in Ids \cup StreamPorts, PostFirst(t, to)
      PROVE  TypeOK'
  <2>1. /\ log' \in Seq(Ids \cup StreamPorts) /\ Len(log') <= MaxPosts
        /\ bound' \in [Ids -> BatchPorts \cup {NoPort}]
        /\ <<NewObject>> \in Seq(Objects) /\ Target(to) \in Ports
    BY <1>6, EnterPostType DEF PostFirst
  <2>2. send' \in [Threads -> {Idle} \cup [port : Ports, items : Seq(Objects)]]
    BY <1>6, <2>1 DEF PostFirst
  <2> QED
    BY <1>6, <2>1, <2>2 DEF PostFirst
<1>14. ASSUME NEW t \in Threads, NEW to \in Ids \cup StreamPorts, PostNow(t, to)
       PROVE  TypeOK'
  <2>1. /\ log' \in Seq(Ids \cup StreamPorts) /\ Len(log') <= MaxPosts
        /\ bound' \in [Ids -> BatchPorts \cup {NoPort}]
        /\ <<NewObject>> \in Seq(Objects) /\ Target(to) \in Ports
    BY <1>14, EnterPostType DEF PostNow
  <2>2. send' \in [Threads -> {Idle} \cup [port : Ports, items : Seq(Objects)]]
    BY <1>14, <2>1 DEF PostNow
  <2> QED
    BY <1>14, <2>1, <2>2 DEF PostNow
<1>7. ASSUME NEW t \in Threads, PostSend(t) PROVE TypeOK'
  <2>1. send[t].port \in Ports /\ send[t].items \in Seq(Objects)
    BY <1>7 DEF PostSend
  <2>2. queue' \in [Ports -> Seq(Seq(Objects))] /\ freed' \in [Objects -> Nat]
    BY <1>7, <2>1, PostOrFreeType DEF PostSend
  <2> QED
    BY <1>7, <2>2 DEF PostSend
<1>8. ASSUME NEW p \in Ports, AckIdle(p) PROVE TypeOK'
  BY <1>8 DEF AckIdle, AtRest
<1>9. ASSUME NEW p \in Ports, AckTake(p) PROVE TypeOK'
  <2>1. pending' \in [Ports -> Seq(Objects)]
    BY <1>9 DEF AckTake
  <2>2. dart' \in [Ports -> [pc : {"idle", "handled", "flush"}, items : Seq(Objects)]]
    BY <1>9 DEF AckTake
  <2> QED
    BY <1>9, <2>1, <2>2 DEF AckTake
<1>10. ASSUME NEW p \in Ports, AckFlush(p) PROVE TypeOK'
  <2>1. queue' \in [Ports -> Seq(Seq(Objects))] /\ freed' \in [Objects -> Nat]
    BY <1>10, PostOrFreeType DEF AckFlush
  <2>2. dart' \in [Ports -> [pc : {"idle", "handled", "flush"}, items : Seq(Objects)]]
    BY <1>10 DEF AckFlush, AtRest
  <2> QED
    BY <1>10, <2>1, <2>2 DEF AckFlush
<1>11. ASSUME NEW p \in Ports, Handle(p) PROVE TypeOK'
  <2>1. Head(queue[p]) \in Seq(Objects) /\ Tail(queue[p]) \in Seq(Seq(Objects))
    <3>1. queue[p] \in Seq(Seq(Objects)) /\ queue[p] # <<>>
      BY <1>11 DEF Handle
    <3> QED
      BY <3>1, HeadTailProperties
  <2>2. handled[p] \o Head(queue[p]) \in Seq(Objects)
    BY <2>1
  <2>3. dart' \in [Ports -> [pc : {"idle", "handled", "flush"}, items : Seq(Objects)]]
    BY <1>11 DEF Handle
  <2>4. queue' \in [Ports -> Seq(Seq(Objects))]
    BY <1>11, <2>1 DEF Handle
  <2>5. handled' \in [Ports -> Seq(Objects)]
    BY <1>11, <2>2 DEF Handle
  <2> QED
    BY <1>11, <2>3, <2>4, <2>5 DEF Handle
<1>12. ASSUME NEW p \in Ports, Close(p) PROVE TypeOK'
  BY <1>12 DEF Close
<1>13. CASE UNCHANGED vars
  BY <1>13 DEF vars
<1> QED
  BY <1>1, <1>2, <1>3, <1>4, <1>5, <1>6, <1>7, <1>8, <1>9, <1>10, <1>11, <1>12,
     <1>13, <1>14 DEF Next, Post, Ack

\* Type correctness (the states of NitroCompletionBatch and of the ports).
THEOREM TypeCorrect == Spec => []TypeOK
<1>1. Init => TypeOK
  BY ConstantsOK DEF Init, TypeOK, AtRest
<1>2. TypeOK /\ [Next]_vars => TypeOK'
  BY TypeStep
<1> QED
  BY <1>1, <1>2, PTL DEF Spec
-----------------------------------------------------------------------------
\* What the carrier invariant of a port depends on.
SameCarrier(p) ==
  /\ inFlight'[p] = inFlight[p]
  /\ pending'[p] = pending[p]
  /\ open'[p] = open[p]
  /\ queue'[p] = queue[p]
  /\ dart'[p] = dart[p]
  /\ p \in overtaken' <=> p \in overtaken
  /\ p \in StreamPorts => coalesced'[p] = coalesced[p]
  /\ \A t \in Threads : send'[t].port = p <=> send[t].port = p

\* A step that leaves a port alone keeps its invariant.
LEMMA CarrierFrame ==
  ASSUME NEW p \in Ports, CarrierAt(p), SameCarrier(p)
  PROVE  CarrierAt(p)'
BY DEF SameCarrier, CarrierAt, Ports, Live, OneCarrier, Carried, Untouched, Sending

\* A target of post() is a port the batcher is responsible for.
LEMMA TargetLive ==
  ASSUME TypeOK, NEW to \in Ids \cup StreamPorts, Target(to) # NoPort
  PROVE  Target(to) \in Ports /\ Live(Target(to))
BY ConstantsOK DEF TypeOK, Target, Live, Ports, Ids

\* The four branches of post().
LEMMA CarrierPostDirect ==
  ASSUME TypeOK, CarrierInv, NEW t \in Threads, NEW to \in Ids \cup StreamPorts,
         PostDirect(t, to)
  PROVE  CarrierInv'
<1>1. to \in Ports /\ to \in StreamPorts /\ coalesced[to] = "off" /\ to \notin BatchPorts
  BY ConstantsOK DEF PostDirect, CanPost, Target, TypeOK, Ports, Ids
<1>2. ASSUME NEW p \in Ports, p # to PROVE CarrierAt(p)'
  BY <1>2, CarrierFrame DEF CarrierInv, PostDirect, PostOrFree, SameCarrier, TypeOK
<1>3. CarrierAt(to)'
  BY <1>1 DEF CarrierInv, CarrierAt, PostDirect, Live
<1> QED
  BY <1>2, <1>3 DEF CarrierInv

LEMMA CarrierPostPend ==
  ASSUME TypeOK, CarrierInv, NEW t \in Threads, NEW to \in Ids \cup StreamPorts,
         PostPend(t, to)
  PROVE  CarrierInv'
<1>1. PICK q \in Ports : q = Target(to) /\ Live(q) /\ inFlight[q]
  BY TargetLive DEF PostPend
<1>2. /\ pending' = [pending EXCEPT ![q] = Append(@, NewObject)]
      /\ UNCHANGED <<coalesced, inFlight, send, open, queue, dart, overtaken>>
  BY <1>1 DEF PostPend
<1>3. ASSUME NEW p \in Ports, p # q PROVE CarrierAt(p)'
  BY <1>2, <1>3, CarrierFrame DEF CarrierInv, SameCarrier, TypeOK
<1>4. q \in StreamPorts => coalesced[q] = "on"
  BY <1>1, ConstantsOK DEF Live
<1>5. CarrierAt(q)'
  BY <1>1, <1>2, <1>4
  DEF CarrierInv, CarrierAt, Live, OneCarrier, Carried, Sending
<1> QED
  BY <1>3, <1>5 DEF CarrierInv

LEMMA CarrierPostFirst ==
  ASSUME TypeOK, CarrierInv, NEW t \in Threads, NEW to \in Ids \cup StreamPorts,
         PostFirst(t, to)
  PROVE  CarrierInv'
<1>1. PICK q \in Ports : q = Target(to) /\ Live(q) /\ ~inFlight[q]
  BY TargetLive DEF PostFirst
<1>2. /\ send[t].port = NoPort /\ q # NoPort
      /\ send' = [send EXCEPT ![t] = [port |-> q, items |-> <<NewObject>>]]
      /\ inFlight' = [inFlight EXCEPT ![q] = TRUE]
      /\ UNCHANGED <<coalesced, pending, open, queue, dart, overtaken>>
  BY <1>1, ConstantsOK DEF PostFirst, CanPost, Idle, Ports
<1>3. send'[t].port = q /\ \A u \in Threads \ {t} : send'[u] = send[u]
  BY <1>2 DEF TypeOK
<1>4. ASSUME NEW p \in Ports, p # q PROVE CarrierAt(p)'
  <2>1. p # NoPort
    BY ConstantsOK DEF Ports
  <2>2. \A u \in Threads : send'[u].port = p <=> send[u].port = p
    BY <1>2, <1>3, <1>4, <2>1
  <2>3. inFlight'[p] = inFlight[p]
    BY <1>2, <1>4 DEF TypeOK
  <2> QED
    BY <1>2, <2>2, <2>3, CarrierFrame DEF CarrierInv, SameCarrier
<1>5. CarrierAt(q)'
  <2>1. CarrierAt(q) /\ pending[q] = <<>> /\ (q \notin overtaken => ~Carried(q))
    BY <1>1 DEF CarrierInv, CarrierAt
  <2>2. inFlight'[q] /\ queue'[q] = queue[q] /\ dart'[q] = dart[q] /\ pending'[q] = <<>>
    BY <1>2, <2>1 DEF TypeOK
  <2>3. Carried(q)'
    BY <1>3 DEF Carried, Sending
  <2>4. ~(q \in StreamPorts /\ coalesced'[q] = "fresh")
    BY <1>1, <1>2, ConstantsOK DEF Live
  <2>5. ASSUME q \notin overtaken PROVE OneCarrier(q)'
    <3>1. queue'[q] = <<>> /\ dart'[q].pc = "idle"
      BY <2>1, <2>2, <2>5 DEF Carried
    <3>2. \A u \in Threads : send'[u].port = q <=> u = t
      BY <1>3, <2>1, <2>5 DEF Carried, Sending
    <3> QED
      BY <3>1, <3>2 DEF OneCarrier, Sending
  <2> QED
    BY <1>2, <2>1, <2>2, <2>3, <2>4, <2>5 DEF CarrierAt
<1> QED
  BY <1>4, <1>5 DEF CarrierInv

LEMMA CarrierPostNow ==
  ASSUME TypeOK, CarrierInv, NEW t \in Threads, NEW to \in Ids \cup StreamPorts,
         PostNow(t, to)
  PROVE  CarrierInv'
<1>1. PICK q \in Ports : q = Target(to) /\ Live(q) /\ inFlight[q]
  BY TargetLive DEF PostNow
<1>2. /\ send[t].port = NoPort /\ q # NoPort
      /\ send' = [send EXCEPT ![t] = [port |-> q, items |-> <<NewObject>>]]
      /\ overtaken' = overtaken \cup {q}
      /\ UNCHANGED <<coalesced, inFlight, pending, open, queue, dart>>
  BY <1>1, ConstantsOK DEF PostNow, CanPost, Idle, Ports
<1>3. send'[t].port = q /\ \A u \in Threads \ {t} : send'[u] = send[u]
  BY <1>2 DEF TypeOK
<1>4. ASSUME NEW p \in Ports, p # q PROVE CarrierAt(p)'
  <2>1. p # NoPort
    BY ConstantsOK DEF Ports
  <2>2. \A u \in Threads : send'[u].port = p <=> send[u].port = p
    BY <1>2, <1>3, <1>4, <2>1
  <2> QED
    BY <1>2, <1>4, <2>2, CarrierFrame DEF CarrierInv, SameCarrier
<1>5. CarrierAt(q)'
  <2>1. Carried(q)' /\ q \in overtaken'
    BY <1>2, <1>3 DEF Carried, Sending
  <2>2. ~(q \in StreamPorts /\ coalesced'[q] = "fresh")
    BY <1>1, <1>2, ConstantsOK DEF Live
  <2> QED
    BY <1>1, <1>2, <2>1, <2>2 DEF CarrierInv, CarrierAt
<1> QED
  BY <1>4, <1>5 DEF CarrierInv

\* What an idle port's queue holds once a message is posted to it.
LEMMA AppendToEmpty ==
  ASSUME NEW items
  PROVE  Len(Append(<<>>, items)) = 1 /\ Append(<<>>, items) # <<>>
<1>1. <<>> \in Seq({items})
  OBVIOUS
<1> QED
  BY <1>1

\* The second half of post() and of ack(): a carrier hands the message over.
LEMMA CarrierPostSend ==
  ASSUME TypeOK, CarrierInv, NEW t \in Threads, PostSend(t)
  PROVE  CarrierInv'
<1>1. PICK q \in Ports : q = send[t].port
  BY DEF TypeOK, PostSend
<1>2. /\ send' = [send EXCEPT ![t] = Idle]
      /\ UNCHANGED <<coalesced, inFlight, pending, open, dart, overtaken>>
  BY DEF PostSend
<1>3. /\ send'[t].port = NoPort
      /\ \A u \in Threads \ {t} : send'[u] = send[u]
      /\ \A p \in Ports : p # NoPort
  BY <1>2, ConstantsOK DEF TypeOK, Idle, Ports
<1>4. /\ \A p \in Ports \ {q} : queue'[p] = queue[p]
      /\ open[q] => queue'[q] = Append(queue[q], send[t].items)
      /\ ~open[q] => queue'[q] = queue[q]
  BY <1>1 DEF PostSend, PostOrFree, TypeOK
<1>5. ASSUME NEW p \in Ports, p # q PROVE CarrierAt(p)'
  <2>1. \A u \in Threads : send'[u].port = p <=> send[u].port = p
    BY <1>1, <1>3, <1>5
  <2> QED
    BY <1>2, <1>4, <1>5, <2>1, CarrierFrame DEF CarrierInv, SameCarrier
<1>6. CarrierAt(q)'
  <2>1. CarrierAt(q) /\ Sending(t, q)
    BY <1>1 DEF CarrierInv, Sending
  <2>2. ~Untouched(q)
    BY <2>1 DEF Untouched, Carried
  <2>3. ~(q \in StreamPorts /\ coalesced'[q] = "fresh")
    BY <1>2, <2>1, <2>2 DEF CarrierAt
  <2>4. open[q] => queue'[q] # <<>>
    <3>1. queue[q] \in Seq(Seq(Objects)) /\ send[t].items \in Seq(Objects)
      BY DEF TypeOK, PostSend
    <3> QED
      BY <1>4, <3>1
  <2>5. ASSUME Live(q), q \notin overtaken
        PROVE  OneCarrier(q)' /\ (~inFlight'[q] => ~Carried(q)')
    <3>1. OneCarrier(q) /\ inFlight[q]
      BY <2>1, <2>5 DEF CarrierAt, Carried
    <3>2. queue[q] = <<>> /\ dart[q].pc = "idle"
      BY <2>1, <3>1 DEF OneCarrier
    <3>3. \A u \in Threads : ~Sending(u, q)'
      BY <1>3, <2>1, <3>1 DEF OneCarrier, Sending
    <3>4. open[q] => Len(queue'[q]) = 1
      BY <1>4, <3>2, AppendToEmpty
    <3> QED
      BY <1>2, <1>4, <3>1, <3>2, <3>3, <3>4 DEF OneCarrier
  <2> QED
    BY <1>2, <2>1, <2>3, <2>4, <2>5 DEF CarrierAt, Live, Carried
<1> QED
  BY <1>5, <1>6 DEF CarrierInv

LEMMA CarrierAckFlush ==
  ASSUME TypeOK, CarrierInv, NEW q \in Ports, AckFlush(q)
  PROVE  CarrierInv'
<1>1. /\ dart' = [dart EXCEPT ![q] = AtRest]
      /\ UNCHANGED <<coalesced, inFlight, pending, open, send, overtaken>>
  BY DEF AckFlush
<1>2. /\ \A p \in Ports \ {q} : queue'[p] = queue[p] /\ dart'[p] = dart[p]
      /\ open[q] => queue'[q] = Append(queue[q], dart[q].items)
      /\ ~open[q] => queue'[q] = queue[q]
      /\ dart'[q] = [pc |-> "idle", items |-> <<>>]
  BY <1>1 DEF AckFlush, PostOrFree, TypeOK, AtRest
<1>3. ASSUME NEW p \in Ports, p # q PROVE CarrierAt(p)'
  BY <1>1, <1>2, <1>3, CarrierFrame DEF CarrierInv, SameCarrier
<1>4. CarrierAt(q)'
  <2>1. CarrierAt(q) /\ Carried(q)
    BY DEF CarrierInv, AckFlush, Carried
  <2>2. ~(q \in StreamPorts /\ coalesced'[q] = "fresh")
    BY <1>1, <2>1 DEF CarrierAt, Untouched
  <2>3. open[q] => queue'[q] # <<>>
    <3>1. queue[q] \in Seq(Seq(Objects)) /\ dart[q].items \in Seq(Objects)
      BY DEF TypeOK
    <3> QED
      BY <1>2, <3>1
  <2>4. ASSUME Live(q), q \notin overtaken
        PROVE  OneCarrier(q)' /\ (~inFlight'[q] => ~Carried(q)')
    <3>1. OneCarrier(q) /\ inFlight[q]
      BY <2>1, <2>4 DEF CarrierAt
    <3>2. queue[q] = <<>> /\ \A u \in Threads : ~Sending(u, q)
      BY <3>1 DEF OneCarrier, AckFlush
    <3>3. open[q] => Len(queue'[q]) = 1
      BY <1>2, <3>2, AppendToEmpty
    <3> QED
      BY <1>1, <1>2, <3>1, <3>2, <3>3 DEF OneCarrier, Sending
  <2> QED
    BY <1>1, <1>2, <2>1, <2>2, <2>3, <2>4 DEF CarrierAt, Live, Carried
<1> QED
  BY <1>3, <1>4 DEF CarrierInv

\* The operations that do not hand a message over.
LEMMA CarrierBind ==
  ASSUME TypeOK, CarrierInv, NEW b \in BatchPorts, Bind(b)
  PROVE  CarrierInv'
BY CarrierFrame DEF CarrierInv, Bind, SameCarrier

LEMMA CarrierCoalesce ==
  ASSUME TypeOK, CarrierInv, NEW q \in StreamPorts, Coalesce(q)
  PROVE  CarrierInv'
<1>1. /\ coalesced[q] = "fresh" /\ coalesced' = [coalesced EXCEPT ![q] = "on"]
      /\ UNCHANGED <<inFlight, pending, open, send, queue, dart, overtaken>>
  BY DEF Coalesce
<1>2. q \in Ports
  BY DEF Ports
<1>3. ASSUME NEW p \in Ports, p # q PROVE CarrierAt(p)'
  BY <1>1, <1>3, CarrierFrame DEF CarrierInv, SameCarrier, TypeOK
<1>4. CarrierAt(q)'
  <2>1. CarrierAt(q) /\ Untouched(q)
    BY <1>1, <1>2 DEF CarrierInv, CarrierAt
  <2>2. ~Carried(q) /\ ~inFlight[q] /\ pending[q] = <<>> /\ coalesced'[q] = "on"
    BY <1>1, <2>1 DEF Untouched, TypeOK
  <2> QED
    BY <1>1, <2>1, <2>2 DEF CarrierAt, OneCarrier, Carried, Sending
<1> QED
  BY <1>3, <1>4 DEF CarrierInv

LEMMA CarrierUncoalesce ==
  ASSUME TypeOK, CarrierInv, NEW q \in StreamPorts, Uncoalesce(q)
  PROVE  CarrierInv'
<1>1. /\ coalesced[q] = "on" /\ coalesced' = [coalesced EXCEPT ![q] = "off"]
      /\ inFlight' = [inFlight EXCEPT ![q] = FALSE]
      /\ pending' = [pending EXCEPT ![q] = <<>>]
      /\ UNCHANGED <<open, send, queue, dart, overtaken>>
  BY DEF Uncoalesce
<1>2. q \in Ports /\ q \notin BatchPorts
  BY ConstantsOK DEF Ports
<1>3. ASSUME NEW p \in Ports, p # q PROVE CarrierAt(p)'
  BY <1>1, <1>3, CarrierFrame DEF CarrierInv, SameCarrier, TypeOK
<1>4. CarrierAt(q)'
  BY <1>1, <1>2 DEF CarrierInv, CarrierAt, Live, TypeOK
<1> QED
  BY <1>3, <1>4 DEF CarrierInv

LEMMA CarrierAckIdle ==
  ASSUME TypeOK, CarrierInv, NEW q \in Ports, AckIdle(q)
  PROVE  CarrierInv'
<1>1. /\ dart[q].pc = "handled" /\ pending[q] = <<>>
      /\ inFlight' = [inFlight EXCEPT ![q] = FALSE]
      /\ dart' = [dart EXCEPT ![q] = AtRest]
      /\ UNCHANGED <<coalesced, pending, open, send, queue, overtaken>>
  BY DEF AckIdle
<1>2. ASSUME NEW p \in Ports, p # q PROVE CarrierAt(p)'
  BY <1>1, <1>2, CarrierFrame DEF CarrierInv, SameCarrier, TypeOK
<1>3. CarrierAt(q)'
  <2>1. CarrierAt(q) /\ Carried(q)
    BY <1>1 DEF CarrierInv, Carried
  <2>2. ~(q \in StreamPorts /\ coalesced[q] = "fresh")
    BY <2>1 DEF CarrierAt, Untouched
  <2>3. Live(q) /\ q \notin overtaken
          => queue[q] = <<>> /\ \A t \in Threads : ~Sending(t, q)
    BY <1>1, <2>1 DEF CarrierAt, OneCarrier
  <2>4. ~inFlight'[q] /\ dart'[q] = [pc |-> "idle", items |-> <<>>]
    BY <1>1 DEF TypeOK, AtRest
  <2> QED
    BY <1>1, <2>1, <2>2, <2>3, <2>4
    DEF CarrierAt, OneCarrier, Carried, Sending, Live
<1> QED
  BY <1>2, <1>3 DEF CarrierInv

LEMMA CarrierAckTake ==
  ASSUME TypeOK, CarrierInv, NEW q \in Ports, AckTake(q)
  PROVE  CarrierInv'
<1>1. /\ dart[q].pc = "handled" /\ pending[q] # <<>>
      /\ dart' = [dart EXCEPT ![q] = [pc |-> "flush", items |-> pending[q]]]
      /\ pending' = [pending EXCEPT ![q] = <<>>]
      /\ UNCHANGED <<coalesced, inFlight, open, send, queue, overtaken>>
  BY DEF AckTake
<1>2. ASSUME NEW p \in Ports, p # q PROVE CarrierAt(p)'
  BY <1>1, <1>2, CarrierFrame DEF CarrierInv, SameCarrier, TypeOK
<1>3. CarrierAt(q)'
  <2>1. CarrierAt(q) /\ Carried(q)
    BY <1>1 DEF CarrierInv, Carried
  <2>2. ~(q \in StreamPorts /\ coalesced[q] = "fresh")
    BY <2>1 DEF CarrierAt, Untouched
  <2>3. dart'[q].pc = "flush" /\ Carried(q)'
    BY <1>1 DEF TypeOK, Carried
  <2>4. Live(q) => inFlight[q]
    BY <1>1, <2>1 DEF CarrierAt
  <2>5. Live(q) /\ q \notin overtaken
          => queue[q] = <<>> /\ \A t \in Threads : ~Sending(t, q)
    BY <1>1, <2>1 DEF CarrierAt, OneCarrier
  <2> QED
    BY <1>1, <2>1, <2>2, <2>3, <2>4, <2>5
    DEF CarrierAt, OneCarrier, Sending, Live
<1> QED
  BY <1>2, <1>3 DEF CarrierInv

\* What is left of a queue of one message.
LEMMA TailOfOne ==
  ASSUME NEW S, NEW s \in Seq(S), Len(s) = 1
  PROVE  Tail(s) = <<>>
<1>1. s # <<>>
  BY EmptySeq
<1>2. Tail(s) \in Seq(S) /\ Len(Tail(s)) = 0
  BY <1>1, HeadTailProperties
<1> QED
  BY <1>2, EmptySeq

LEMMA CarrierHandle ==
  ASSUME TypeOK, CarrierInv, NEW q \in Ports, Handle(q)
  PROVE  CarrierInv'
<1>1. /\ open[q] /\ queue[q] # <<>> /\ dart[q].pc = "idle"
      /\ queue' = [queue EXCEPT ![q] = Tail(@)]
      /\ dart' = [dart EXCEPT ![q].pc = "handled"]
      /\ UNCHANGED <<coalesced, inFlight, pending, open, send, overtaken>>
  BY DEF Handle
<1>2. ASSUME NEW p \in Ports, p # q PROVE CarrierAt(p)'
  BY <1>1, <1>2, CarrierFrame DEF CarrierInv, SameCarrier, TypeOK
<1>3. CarrierAt(q)'
  <2>1. CarrierAt(q) /\ Carried(q)
    BY <1>1 DEF CarrierInv, Carried
  <2>2. ~(q \in StreamPorts /\ coalesced[q] = "fresh")
    BY <2>1 DEF CarrierAt, Untouched
  <2>3. dart'[q].pc = "handled" /\ dart'[q].items = dart[q].items /\ Carried(q)'
    BY <1>1 DEF TypeOK, Carried
  <2>4. Live(q) /\ q \notin overtaken
          => /\ inFlight[q] /\ Len(queue[q]) = 1
             /\ \A t \in Threads : ~Sending(t, q)
    BY <1>1, <2>1 DEF CarrierAt, OneCarrier
  <2>5. Live(q) /\ q \notin overtaken => queue'[q] = <<>>
    <3>1. queue[q] \in Seq(Seq(Objects)) /\ queue'[q] = Tail(queue[q])
      BY <1>1 DEF TypeOK
    <3> QED
      BY <3>1, <2>4, TailOfOne
  <2> QED
    BY <1>1, <2>1, <2>2, <2>3, <2>4, <2>5
    DEF CarrierAt, OneCarrier, Sending, Live
<1> QED
  BY <1>2, <1>3 DEF CarrierInv

LEMMA CarrierClose ==
  ASSUME TypeOK, CarrierInv, NEW q \in Ports, Close(q)
  PROVE  CarrierInv'
<1>1. /\ open' = [open EXCEPT ![q] = FALSE]
      /\ queue' = [queue EXCEPT ![q] = <<>>]
      /\ UNCHANGED <<coalesced, inFlight, pending, send, dart, overtaken>>
  BY DEF Close
<1>2. ASSUME NEW p \in Ports, p # q PROVE CarrierAt(p)'
  BY <1>1, <1>2, CarrierFrame DEF CarrierInv, SameCarrier, TypeOK
<1>3. CarrierAt(q)'
  BY <1>1 DEF CarrierInv, CarrierAt, OneCarrier, Carried, Sending, Live, Untouched,
              TypeOK
<1> QED
  BY <1>2, <1>3 DEF CarrierInv

LEMMA CarrierStep ==
  ASSUME TypeOK, CarrierInv, [Next]_vars
  PROVE  CarrierInv'
<1>1. CASE UNCHANGED vars
  BY <1>1, CarrierFrame DEF CarrierInv, SameCarrier, vars
<1>2. CASE Next
  BY <1>2, CarrierBind, CarrierCoalesce, CarrierUncoalesce, CarrierPostDirect,
     CarrierPostPend, CarrierPostFirst, CarrierPostNow, CarrierPostSend, CarrierAckIdle,
     CarrierAckTake, CarrierAckFlush, CarrierHandle, CarrierClose
  DEF Next, Post, Ack
<1> QED
  BY <1>1, <1>2

\* The marking of a port agrees with where its message is, in every state: a
\* port in flight has a message out, one that is not keeps nothing waiting; and
\* a port that no uncopyable object overtook has one message at most.
THEOREM CarrierCorrect == Spec => []CarrierInv
<1>1. Init => CarrierInv
  BY ConstantsOK DEF Init, CarrierInv, CarrierAt, OneCarrier, Carried, Untouched,
                     Sending, Live, Ports, Idle, AtRest
<1>2. TypeOK /\ CarrierInv /\ [Next]_vars => CarrierInv'
  BY CarrierStep
<1> QED
  BY <1>1, <1>2, TypeCorrect, PTL DEF Spec

\* The header's promise (nitro_completion_batch.h:16-18), for any number of
\* ports, threads, ids and posts, and for every port but those through which
\* post() sent an uncopyable object past the message in flight (:158).
THEOREM OneMessageInFlight == Spec => []AtMostOneInFlight
<1>1. CarrierInv => AtMostOneInFlight
  BY DEF CarrierInv, CarrierAt, AtMostOneInFlight
<1> QED
  BY <1>1, CarrierCorrect, PTL

\* The absence of a lost wake-up between post() and ack().
THEOREM NothingStranded == Spec => []PendingHasCarrier
<1>1. CarrierInv => PendingHasCarrier
  BY DEF CarrierInv, CarrierAt, PendingHasCarrier
<1> QED
  BY <1>1, CarrierCorrect, PTL

-----------------------------------------------------------------------------
(* The batcher implements OrderedDelivery.  The message in transit to port *)
(* p is what its only carrier holds; it is empty between a message and its *)
(* ack, and when nobody carries one.                                       *)
Transit(q, s, d, p, m) ==
  \/ \E t \in Threads : s[t].port = p /\ m = s[t].items
  \/ q # <<>> /\ m = Head(q)
  \/ d.pc # "idle" /\ m = d.items
  \/ q = <<>> /\ d.pc = "idle" /\ (\A t \in Threads : s[t].port # p) /\ m = <<>>

InTransit(p, m) == Transit(queue[p], send, dart[p], p, m)

\* OnTheWay of what the places hold, and what it is with one carrier.
Way(q, s, d, w, p) ==
  (IF q = <<>> THEN <<>> ELSE Head(q))
  \o (IF \E t \in Threads : s[t].port = p
      THEN s[CHOOSE t \in Threads : s[t].port = p].items ELSE <<>>)
  \o d.items \o w

\* The places are typed and only one of them holds a message.
OnePlace(q, s, d, w, p) ==
  /\ q \in Seq(Seq(Objects)) /\ w \in Seq(Objects) /\ d.items \in Seq(Objects)
  /\ \A t \in Threads : s[t].port = p => s[t].items \in Seq(Objects)
  /\ d.pc # "flush" => d.items = <<>>
  /\ \A t, u \in Threads : s[t].port = p /\ s[u].port = p => t = u
  /\ (\E t \in Threads : s[t].port = p) => q = <<>> /\ d.pc = "idle"
  /\ q # <<>> => d.pc = "idle"

LEMMA WayOf ==
  ASSUME NEW p, NEW q, NEW s, NEW d, NEW w, NEW m,
         OnePlace(q, s, d, w, p), Transit(q, s, d, p, m)
  PROVE  m \in Seq(Objects) /\ Way(q, s, d, w, p) = m \o w
<1> USE DEF OnePlace
<1> DEFINE a == IF q = <<>> THEN <<>> ELSE Head(q)
           b == IF \E t \in Threads : s[t].port = p
                THEN s[CHOOSE t \in Threads : s[t].port = p].items ELSE <<>>
           c == d.items
<1>1. Way(q, s, d, w, p) = ((a \o b) \o c) \o w
  BY DEF Way
<1>2. \A x \in Seq(Objects) : x \o <<>> = x /\ <<>> \o x = x
  BY ConcatEmptySeq
<1>3. <<>> \in Seq(Objects)
  BY EmptySeq
<1>4. CASE \E t \in Threads : s[t].port = p
  <2>1. PICK t \in Threads : s[t].port = p
    BY <1>4
  <2>2. (CHOOSE u \in Threads : s[u].port = p) = t
    BY <2>1
  <2>3. b = s[t].items /\ a = <<>> /\ c = <<>> /\ b \in Seq(Objects)
    BY <2>1, <2>2
  <2>4. m = b
    BY <2>1, <2>3 DEF Transit
  <2> HIDE DEF a, b, c
  <2> QED BY <1>1, <1>2, <1>3, <2>3, <2>4
<1>5. CASE q # <<>>
  <2>1. a = Head(q) /\ b = <<>> /\ c = <<>> /\ a \in Seq(Objects)
    BY <1>5, HeadTailProperties
  <2>2. m = a
    BY <1>5, <2>1 DEF Transit
  <2> HIDE DEF a, b, c
  <2> QED BY <1>1, <1>2, <1>3, <2>1, <2>2
<1>6. CASE q = <<>> /\ ~\E t \in Threads : s[t].port = p
  <2>1. a = <<>> /\ b = <<>> /\ m = c
    BY <1>6 DEF Transit
  <2>2. c \in Seq(Objects)
    OBVIOUS
  <2> HIDE DEF a, b, c
  <2> QED BY <1>1, <1>2, <1>3, <2>1, <2>2
<1> QED BY <1>4, <1>5, <1>6

\* The same for the variables, before a step and after it.
LEMMA WayIs ==
  ASSUME NEW p \in Ports, NEW m
  PROVE  /\ TypeOK /\ CarrierAt(p) /\ Live(p) /\ p \notin overtaken /\ InTransit(p, m)
            => m \in Seq(Objects) /\ OnTheWay(p) = m \o pending[p]
         /\ TypeOK' /\ CarrierAt(p)' /\ Live(p)' /\ p \notin overtaken' /\ InTransit(p, m)'
            => m \in Seq(Objects) /\ OnTheWay(p)' = m \o pending'[p]
<1>1. p # NoPort
  BY ConstantsOK DEF Ports
<1>2. ASSUME TypeOK, CarrierAt(p), Live(p), p \notin overtaken, InTransit(p, m)
      PROVE  m \in Seq(Objects) /\ OnTheWay(p) = m \o pending[p]
  <2>1. PICK q, s, d, w : q = queue[p] /\ s = send /\ d = dart[p] /\ w = pending[p]
    OBVIOUS
  <2>2. OnTheWay(p) = Way(q, s, d, w, p)
    BY <2>1 DEF OnTheWay, Way, Sending
  <2>3. OnePlace(q, s, d, w, p)
    <3>1. /\ q \in Seq(Seq(Objects)) /\ w \in Seq(Objects) /\ d.items \in Seq(Objects)
          /\ \A t \in Threads : s[t].port = p => s[t].items \in Seq(Objects)
      BY <1>1, <1>2, <2>1 DEF TypeOK, Idle
    <3> QED
      BY <1>2, <2>1, <3>1 DEF OnePlace, CarrierAt, OneCarrier, Sending
  <2>4. Transit(q, s, d, p, m)
    BY <1>2, <2>1 DEF InTransit
  <2>5. m \in Seq(Objects) /\ Way(q, s, d, w, p) = m \o w
    BY <2>3, <2>4, WayOf
  <2> QED BY <2>1, <2>2, <2>5
<1>3. ASSUME TypeOK', CarrierAt(p)', Live(p)', p \notin overtaken', InTransit(p, m)'
      PROVE  m \in Seq(Objects) /\ OnTheWay(p)' = m \o pending'[p]
  <2>1. PICK q, s, d, w : q = queue'[p] /\ s = send' /\ d = dart'[p] /\ w = pending'[p]
    OBVIOUS
  <2>2. OnTheWay(p)' = Way(q, s, d, w, p)
    BY <2>1 DEF OnTheWay, Way, Sending
  <2>3. OnePlace(q, s, d, w, p)
    <3>1. /\ q \in Seq(Seq(Objects)) /\ w \in Seq(Objects) /\ d.items \in Seq(Objects)
          /\ \A t \in Threads : s[t].port = p => s[t].items \in Seq(Objects)
      BY <1>1, <1>3, <2>1 DEF TypeOK, Idle
    <3> QED
      BY <1>3, <2>1, <3>1 DEF OnePlace, CarrierAt, OneCarrier, Sending
  <2>4. Transit(q, s, d, p, m)
    BY <1>3, <2>1 DEF InTransit
  <2>5. m \in Seq(Objects) /\ Way(q, s, d, w, p) = m \o w
    BY <2>3, <2>4, WayOf
  <2> QED BY <2>1, <2>2, <2>5
<1> QED BY <1>2, <1>3

\* Some message is in transit, at worst an empty one.
LEMMA SomeTransit ==
  ASSUME NEW p \in Ports
  PROVE  \E m : InTransit(p, m)
BY DEF InTransit, Transit

\* A stream that never subscribed has received nothing.
FreshInv == \A p \in StreamPorts : coalesced[p] = "fresh" => handled[p] = <<>>

BatchInv == TypeOK /\ CarrierInv /\ FreshInv

\* The channel of a port as OrderedDelivery sees it.
Chan(p) == IF p \in Served THEN OnTheWay(p) ELSE <<>>
Chans   == [p \in Ports |-> IF p \in Served THEN OnTheWay(p) ELSE <<>>]

\* A step that leaves a port's places alone leaves its channel alone.
SameWay(p) ==
  /\ Live(p)' <=> Live(p)
  /\ p \in overtaken' <=> p \in overtaken
  /\ UNCHANGED <<open[p], pending[p], queue[p], dart[p], handled[p]>>
  /\ \A t \in Threads : /\ send'[t].port = p <=> send[t].port = p
                        /\ send[t].port = p => send'[t] = send[t]

LEMMA ChanFrame ==
  ASSUME BatchInv, BatchInv', NEW p \in Ports, SameWay(p)
  PROVE  (p \in Served' <=> p \in Served) /\ Chan(p)' = Chan(p)
<1>1. p \in Served' <=> p \in Served
  BY DEF SameWay, Served
<1>2. CASE p \notin Served
  BY <1>1, <1>2 DEF Chan
<1>3. CASE p \in Served
  <2>1. /\ Live(p) /\ Live(p)' /\ CarrierAt(p) /\ CarrierAt(p)' /\ TypeOK /\ TypeOK'
        /\ pending'[p] = pending[p] /\ p \notin overtaken /\ p \notin overtaken'
    BY <1>3 DEF Served, SameWay, BatchInv, CarrierInv
  <2>2. PICK m : InTransit(p, m)
    BY SomeTransit
  <2>3. InTransit(p, m)'
    BY <2>2 DEF InTransit, Transit, SameWay
  <2>4. OnTheWay(p) = m \o pending[p] /\ OnTheWay(p)' = m \o pending'[p]
    BY <2>1, <2>2, <2>3, WayIs
  <2> QED BY <1>1, <1>3, <2>1, <2>4 DEF Chan
<1> QED BY <1>2, <1>3

\* A step of one port, as OrderedDelivery sees it.
LEMMA ChanStep ==
  ASSUME BatchInv, BatchInv', NEW q \in Ports, \A p \in Ports \ {q} : SameWay(p)
  PROVE  /\ Chans' = [Chans EXCEPT ![q] = Chan(q)']
         /\ Chans[q] = Chan(q)
         /\ handled' = [handled EXCEPT ![q] = handled'[q]]
         /\ Served \subseteq Ports /\ Served' \subseteq Ports
         /\ Served' \ {q} = Served \ {q}
<1>1. \A p \in Ports \ {q} : (p \in Served' <=> p \in Served) /\ Chan(p)' = Chan(p)
  BY ChanFrame
<1>2. Served \subseteq Ports /\ Served' \subseteq Ports
  BY DEF Served
<1>3. handled' = [handled EXCEPT ![q] = handled'[q]]
  BY DEF SameWay, BatchInv, TypeOK
<1>4. Chans' = [Chans EXCEPT ![q] = Chan(q)']
  BY <1>1 DEF Chans, Chan
<1> QED BY <1>1, <1>2, <1>3, <1>4 DEF Chans, Chan

\* The actions of OrderedDelivery, by what they change of their port.
LEMMA ChanMoves ==
  ASSUME BatchInv, BatchInv', NEW q \in Ports, \A p \in Ports \ {q} : SameWay(p)
  PROVE  /\ /\ Len(log') = Len(log) /\ q \notin Served /\ q \in Served'
            /\ handled[q] = <<>> /\ handled'[q] = handled[q] /\ Chan(q)' = Chan(q)
            => Channels!Serve(q)
         /\ /\ Len(log') = Len(log) + 1 /\ q \in Served /\ q \in Served'
            /\ handled'[q] = handled[q] /\ Chan(q)' = Append(Chan(q), Len(log) + 1)
            => Channels!Accept(q)
         /\ /\ Len(log') = Len(log) + 1 /\ (q \in Served' <=> q \in Served)
            /\ handled'[q] = handled[q] /\ Chan(q)' = Chan(q)
            => Channels!Refuse
         /\ \A k \in 1 .. Len(Chan(q)) :
              /\ Len(log') = Len(log) /\ q \in Served /\ q \in Served'
              /\ handled'[q] = handled[q] \o SubSeq(Chan(q), 1, k)
              /\ Chan(q)' = SubSeq(Chan(q), k + 1, Len(Chan(q)))
              => Channels!Deliver(q)
         /\ /\ Len(log') = Len(log) /\ q \in Served /\ q \notin Served'
            /\ handled'[q] = handled[q]
            => Channels!Stop(q)
         /\ /\ Len(log') = Len(log) + 1 /\ q \in Served /\ q \notin Served'
            /\ handled'[q] = handled[q]
            => Channels!Overtake(q)
         /\ /\ Len(log') = Len(log) /\ q \notin Served /\ q \notin Served'
            /\ Len(handled'[q]) >= Len(handled[q])
            => Channels!Stray(q)
         /\ /\ Len(log') = Len(log) /\ (q \in Served' <=> q \in Served)
            /\ handled'[q] = handled[q] /\ Chan(q)' = Chan(q)
            => UNCHANGED <<Served, Len(log), Chans, handled>>
<1>1. /\ Chans' = [Chans EXCEPT ![q] = Chan(q)']
      /\ Chans[q] = Chan(q)
      /\ handled' = [handled EXCEPT ![q] = handled'[q]]
      /\ Served \subseteq Ports /\ Served' \subseteq Ports
      /\ Served' \ {q} = Served \ {q}
  BY ChanStep
<1>2. handled = [handled EXCEPT ![q] = handled[q]] /\ Chans = [Chans EXCEPT ![q] = Chans[q]]
  BY DEF BatchInv, TypeOK, Chans
<1>0. (q \in Served' <=> q \in Served) => Served' = Served
  <2> SUFFICES ASSUME q \in Served' <=> q \in Served
               PROVE  \A p : p \in Served' <=> p \in Served
    OBVIOUS
  <2> QED BY <1>1
<1>3. q \notin Served' => Chan(q)' = <<>>
  BY DEF Chan
<1>4. q \notin Served => Chan(q) = <<>>
  BY DEF Chan
<1>5. ASSUME Len(log') = Len(log), q \notin Served, q \in Served',
             handled[q] = <<>>, handled'[q] = handled[q], Chan(q)' = Chan(q)
      PROVE  Channels!Serve(q)
  BY <1>1, <1>2, <1>5 DEF Channels!Serve, Chans
<1>6. ASSUME Len(log') = Len(log) + 1, q \in Served, q \in Served',
             handled'[q] = handled[q], Chan(q)' = Append(Chan(q), Len(log) + 1)
      PROVE  Channels!Accept(q)
  <2>1. /\ Chans' = [Chans EXCEPT ![q] = Append(Chans[q], Len(log) + 1)]
        /\ Served' = Served /\ handled' = handled
    BY <1>0, <1>1, <1>2, <1>6
  <2> QED BY <1>6, <2>1 DEF Channels!Accept, Chans
<1>7. ASSUME Len(log') = Len(log) + 1, q \in Served' <=> q \in Served,
             handled'[q] = handled[q], Chan(q)' = Chan(q)
      PROVE  Channels!Refuse
  <2>1. Served' = Served /\ Chans' = Chans /\ handled' = handled
    BY <1>0, <1>1, <1>2, <1>7
  <2> QED BY <1>7, <2>1 DEF Channels!Refuse, Chans
<1>8. ASSUME NEW k \in 1 .. Len(Chan(q)),
             Len(log') = Len(log), q \in Served, q \in Served',
             handled'[q] = handled[q] \o SubSeq(Chan(q), 1, k),
             Chan(q)' = SubSeq(Chan(q), k + 1, Len(Chan(q)))
      PROVE  Channels!Deliver(q)
  BY <1>1, <1>8 DEF Channels!Deliver, Chans
<1>9. ASSUME Len(log') = Len(log), q \in Served, q \notin Served', handled'[q] = handled[q]
      PROVE  Channels!Stop(q)
  BY <1>1, <1>2, <1>3, <1>9 DEF Channels!Stop, Chans
<1>10. ASSUME Len(log') = Len(log), q \notin Served, q \notin Served',
              Len(handled'[q]) >= Len(handled[q])
       PROVE  Channels!Stray(q)
  <2>1. Chans' = Chans /\ Served' = Served
    BY <1>0, <1>1, <1>2, <1>3, <1>4, <1>10
  <2> QED BY <1>1, <1>10, <2>1 DEF Channels!Stray, Chans
<1>11. ASSUME Len(log') = Len(log), q \in Served' <=> q \in Served,
              handled'[q] = handled[q], Chan(q)' = Chan(q)
       PROVE  UNCHANGED <<Served, Len(log), Chans, handled>>
  <2>1. Served' = Served
    BY <1>0, <1>11
  <2>2. Chans' = Chans /\ handled' = handled
    BY <1>1, <1>2, <1>11
  <2> QED BY <1>11, <2>1, <2>2
<1>12. ASSUME Len(log') = Len(log) + 1, q \in Served, q \notin Served',
              handled'[q] = handled[q]
       PROVE  Channels!Overtake(q)
  BY <1>1, <1>2, <1>3, <1>12 DEF Channels!Overtake, Chans
<1> QED BY <1>5, <1>6, <1>7, <1>8, <1>9, <1>10, <1>11, <1>12

LEMMA ChanIs ==
  ASSUME NEW p \in Ports, NEW m
  PROVE  /\ BatchInv /\ p \in Served /\ InTransit(p, m)
            => m \in Seq(Objects) /\ Chan(p) = m \o pending[p]
         /\ BatchInv' /\ p \in Served' /\ InTransit(p, m)'
            => m \in Seq(Objects) /\ Chan(p)' = m \o pending'[p]
<1>1. BatchInv /\ p \in Served => TypeOK /\ CarrierAt(p) /\ Live(p) /\ p \notin overtaken
  BY DEF BatchInv, CarrierInv, Served
<1>2. BatchInv' /\ p \in Served' => TypeOK' /\ CarrierAt(p)' /\ Live(p)'
                                 /\ p \notin overtaken'
  BY DEF BatchInv, CarrierInv, Served
<1> QED BY <1>1, <1>2, WayIs DEF Chan

\* A subscription starts with an empty channel.
LEMMA ChanCoalesce ==
  ASSUME BatchInv, BatchInv', NEW q \in StreamPorts, Coalesce(q)
  PROVE  Channels!Next
<1>1. /\ coalesced[q] = "fresh" /\ open[q] /\ q \in Ports /\ q \notin BatchPorts
      /\ coalesced' = [coalesced EXCEPT ![q] = "on"]
      /\ UNCHANGED <<inFlight, pending, log, send, open, queue, dart, handled, overtaken>>
  BY ConstantsOK DEF Coalesce, Ports
<1>2. coalesced'[q] = "on" /\ \A p \in StreamPorts \ {q} : coalesced'[p] = coalesced[p]
  BY <1>1 DEF BatchInv, TypeOK
<1>3. \A p \in Ports \ {q} : SameWay(p)
  BY <1>1, <1>2 DEF SameWay, Live, Ports
<1>5. handled[q] = <<>> /\ Untouched(q)
  BY <1>1 DEF BatchInv, FreshInv, CarrierInv, CarrierAt
<1>4. q \notin Served /\ q \in Served'
  BY <1>1, <1>2, <1>5 DEF Served, Live, Untouched
<1>6. InTransit(q, <<>>)' /\ pending'[q] = <<>>
  <2>1. queue[q] = <<>> /\ dart[q].pc = "idle" /\ \A t \in Threads : send[t].port # q
    BY <1>5 DEF Untouched, Carried, Sending
  <2> QED BY <1>1, <1>5, <2>1 DEF InTransit, Transit, Untouched
<1>7. Chan(q)' = <<>> /\ Chan(q) = <<>>
  <2>1. Chan(q)' = <<>> \o <<>>
    BY <1>1, <1>4, <1>6, ChanIs
  <2>2. <<>> \o <<>> = <<>>
    OBVIOUS
  <2> QED BY <1>4, <2>1, <2>2 DEF Chan
<1>8. Channels!Serve(q)
  BY <1>1, <1>3, <1>4, <1>5, <1>7, ChanMoves
<1> QED BY <1>1, <1>8 DEF Channels!Next

\* A release or a close drops what the channel holds, if it was served.
LEMMA ChanStop ==
  ASSUME BatchInv, BatchInv', NEW q \in Ports,
         (Uncoalesce(q) /\ q \in StreamPorts) \/ Close(q)
  PROVE  [Channels!Next]_<<Served, Len(log), Chans, handled>>
<1>1. /\ open[q] => ~(open'[q] /\ Live(q)')
      /\ open'[q] => open[q]
      /\ log' = log /\ handled' = handled
      /\ \A p \in Ports \ {q} : SameWay(p)
  <2>1. CASE Uncoalesce(q) /\ q \in StreamPorts
    <3>1. /\ q \notin BatchPorts
          /\ coalesced'[q] = "off" /\ \A p \in StreamPorts \ {q} : coalesced'[p] = coalesced[p]
          /\ \A p \in Ports \ {q} : pending'[p] = pending[p]
          /\ UNCHANGED <<log, send, open, queue, dart, handled, overtaken>>
      BY <2>1, ConstantsOK DEF Uncoalesce, BatchInv, TypeOK
    <3> QED BY <3>1 DEF SameWay, Live, Ports
  <2>2. CASE Close(q)
    <3>1. /\ ~open'[q] /\ \A p \in Ports \ {q} : open'[p] = open[p] /\ queue'[p] = queue[p]
          /\ UNCHANGED <<coalesced, pending, log, send, dart, handled, overtaken>>
          /\ open[q]
      BY <2>2 DEF Close, BatchInv, TypeOK
    <3> QED BY <3>1 DEF SameWay, Live
  <2> QED BY <2>1, <2>2
<1>2. q \notin Served'
  BY <1>1 DEF Served
<1>3. CASE q \in Served
  <2>1. Channels!Stop(q)
    BY <1>1, <1>2, <1>3, ChanMoves
  <2> QED BY <2>1 DEF Channels!Next
<1>4. CASE q \notin Served
  BY <1>1, <1>2, <1>4, ChanMoves DEF Chan
<1> QED BY <1>3, <1>4

LEMMA ConcatAppend ==
  ASSUME NEW S, NEW s \in Seq(S), NEW w \in Seq(S), NEW e \in S
  PROVE  s \o Append(w, e) = Append(s \o w, e)
<1>1. <<e>> \in Seq(S) /\ s \o w \in Seq(S)
  OBVIOUS
<1>2. Append(w, e) = w \o <<e>> /\ Append(s \o w, e) = (s \o w) \o <<e>>
  BY <1>1, AppendIsConcat
<1> QED BY <1>1, <1>2, ConcatAssociative

\* A post the batcher takes is accepted at the end of the channel.
LEMMA ChanPost ==
  ASSUME BatchInv, BatchInv', NEW t \in Threads, NEW to \in Ids \cup StreamPorts,
         PostPend(t, to) \/ PostFirst(t, to)
  PROVE  Channels!Next
<1>1. PICK q \in Ports : q = Target(to) /\ Live(q)
  BY TargetLive DEF PostPend, PostFirst, BatchInv
<1>2. PICK n : n = NewObject
  OBVIOUS
<1>3. /\ n = Len(log) + 1 /\ Len(log') = Len(log) + 1
      /\ UNCHANGED <<coalesced, open, queue, dart, handled, overtaken>>
      /\ send[t] = Idle /\ q # NoPort
  BY <1>2, ConstantsOK DEF PostPend, PostFirst, EnterPost, NewObject, CanPost, BatchInv,
                           TypeOK, Ports
<1>4. \/ inFlight[q] /\ send' = send /\ pending' = [pending EXCEPT ![q] = Append(@, n)]
      \/ /\ ~inFlight[q] /\ pending' = pending
         /\ send' = [send EXCEPT ![t] = [port |-> q, items |-> <<n>>]]
  BY <1>1, <1>2 DEF PostPend, PostFirst
<1>5. \A p \in Ports \ {q} : SameWay(p)
  <2>1. \A p \in Ports : p # NoPort
    BY ConstantsOK DEF Ports
  <2>2. \A p \in Ports \ {q} : /\ pending'[p] = pending[p]
                               /\ \A u \in Threads : /\ send'[u].port = p <=> send[u].port = p
                                                     /\ send[u].port = p => send'[u] = send[u]
    <3>1. CASE send' = send /\ pending' = [pending EXCEPT ![q] = Append(@, n)]
      BY <3>1 DEF BatchInv, TypeOK
    <3>2. CASE /\ pending' = pending
               /\ send' = [send EXCEPT ![t] = [port |-> q, items |-> <<n>>]]
      <4>1. send'[t].port = q /\ send[t].port = NoPort
            /\ \A u \in Threads \ {t} : send'[u] = send[u]
        BY <1>3, <3>2 DEF BatchInv, TypeOK, Idle
      <4> QED BY <2>1, <3>2, <4>1
    <3> QED BY <1>4, <3>1, <3>2
  <2> QED BY <1>3, <2>2 DEF SameWay, Live
<1>6. q \in Served' <=> q \in Served
  BY <1>3 DEF Served, Live
<1>7. CASE q \notin Served
  <2>1. Channels!Refuse
    BY <1>3, <1>5, <1>6, <1>7, ChanMoves DEF Chan
  <2> QED BY <2>1 DEF Channels!Next
<1>8. CASE q \in Served
  <2>1. Chan(q)' = Append(Chan(q), n)
    <3>1. CASE inFlight[q]
      <4>1. /\ UNCHANGED <<queue, send, dart>> /\ pending'[q] = Append(pending[q], n)
            /\ pending[q] \in Seq(Objects) /\ n \in Objects
        <5>1. n \in Objects
          BY <1>2, <1>3, EnterPostType DEF PostPend, PostFirst, BatchInv
        <5> QED BY <1>3, <1>4, <3>1, <5>1 DEF BatchInv, TypeOK
      <4>2. PICK m : InTransit(q, m)
        BY SomeTransit
      <4>3. InTransit(q, m)'
        BY <4>1, <4>2 DEF InTransit
      <4>4. /\ m \in Seq(Objects) /\ Chan(q) = m \o pending[q]
            /\ Chan(q)' = m \o Append(pending[q], n)
        BY <1>6, <1>8, <4>1, <4>2, <4>3, ChanIs
      <4>5. m \o Append(pending[q], n) = Append(m \o pending[q], n)
        BY <4>1, <4>4, ConcatAppend
      <4> QED BY <4>4, <4>5
    <3>2. CASE ~inFlight[q]
      <4>1. ~Carried(q) /\ pending[q] = <<>> /\ pending'[q] = <<>>
        BY <1>1, <1>4, <1>8, <3>2 DEF BatchInv, CarrierInv, CarrierAt, Served
      <4>2. InTransit(q, <<>>)
        BY <4>1 DEF InTransit, Transit, Carried, Sending
      <4>3. InTransit(q, <<n>>)'
        <5>1. send'[t].port = q /\ send'[t].items = <<n>>
          BY <1>4, <3>2 DEF BatchInv, TypeOK
        <5> QED BY <5>1 DEF InTransit, Transit
      <4>4. Chan(q) = <<>> \o <<>> /\ Chan(q)' = <<n>> \o <<>> /\ <<n>> \in Seq(Objects)
        BY <1>6, <1>8, <4>1, <4>2, <4>3, ChanIs
      <4>5. <<n>> \o <<>> = <<n>> /\ <<>> \o <<>> = <<>> /\ Append(<<>>, n) = <<n>>
        BY <4>4
      <4> QED BY <4>4, <4>5
    <3> QED BY <3>1, <3>2
  <2>2. Channels!Accept(q)
    BY <1>3, <1>5, <1>6, <1>8, <2>1, ChanMoves
  <2> QED BY <2>2 DEF Channels!Next
<1> QED BY <1>7, <1>8

\* An object that goes ahead of the message in flight ends the channel.
LEMMA ChanPostNow ==
  ASSUME BatchInv, BatchInv', NEW t \in Threads, NEW to \in Ids \cup StreamPorts,
         PostNow(t, to)
  PROVE  Channels!Next
<1>1. PICK q \in Ports : q = Target(to)
  BY TargetLive DEF PostNow, BatchInv
<1>2. /\ Len(log') = Len(log) + 1 /\ overtaken' = overtaken \cup {q}
      /\ UNCHANGED <<coalesced, open, pending, queue, dart, handled>>
      /\ send[t] = Idle /\ send' = [send EXCEPT ![t] = [port |-> q, items |-> <<NewObject>>]]
  BY <1>1 DEF PostNow, EnterPost, CanPost, BatchInv, TypeOK
<1>3. /\ send'[t].port = q /\ send[t].port = NoPort
      /\ \A u \in Threads \ {t} : send'[u] = send[u]
      /\ \A p \in Ports : p # NoPort
  BY <1>2, ConstantsOK DEF BatchInv, TypeOK, Idle, Ports
<1>4. \A p \in Ports \ {q} : SameWay(p)
  BY <1>2, <1>3 DEF SameWay, Live
<1>5. q \notin Served'
  BY <1>2 DEF Served
<1>6. CASE q \in Served
  <2>1. Channels!Overtake(q)
    BY <1>2, <1>4, <1>5, <1>6, ChanMoves
  <2> QED BY <2>1 DEF Channels!Next
<1>7. CASE q \notin Served
  <2>1. Channels!Refuse
    BY <1>2, <1>4, <1>5, <1>7, ChanMoves DEF Chan
  <2> QED BY <2>1 DEF Channels!Next
<1> QED BY <1>6, <1>7

LEMMA ChanPostDirect ==
  ASSUME BatchInv, BatchInv', NEW t \in Threads, NEW to \in Ids \cup StreamPorts,
         PostDirect(t, to)
  PROVE  Channels!Next
<1>1. /\ to \in Ports /\ ~Live(to) /\ ~Live(to)'
      /\ Len(log') = Len(log) + 1 /\ handled' = handled
  BY ConstantsOK DEF PostDirect, Target, Live, Ports, Ids, EnterPost, BatchInv, TypeOK
<1>2. \A p \in Ports \ {to} : SameWay(p)
  BY DEF PostDirect, PostOrFree, SameWay, Live, BatchInv, TypeOK
<1>3. Channels!Refuse
  BY <1>1, <1>2, ChanMoves DEF Chan, Served
<1> QED BY <1>3 DEF Channels!Next

\* The message in transit goes from its poster to the VM's queue.
LEMMA ChanHandOver ==
  ASSUME BatchInv, BatchInv', NEW q \in Ports, NEW items,
         log' = log, UNCHANGED <<coalesced, open, pending, handled, overtaken>>,
         \A p \in Ports \ {q} : SameWay(p),
         PostOrFree(q, items), InTransit(q, items), queue[q] = <<>> \/ q \notin Served
  PROVE  UNCHANGED <<Served, Len(log), Chans, handled>>
<1>1. q \in Served' <=> q \in Served
  BY DEF Served, Live
<1>2. CASE q \notin Served
  BY <1>1, <1>2, ChanMoves DEF Chan
<1>3. CASE q \in Served
  <2>1. open[q] /\ queue'[q] = Append(<<>>, items)
    BY <1>3 DEF Served, PostOrFree, BatchInv, TypeOK
  <2>2. Append(<<>>, items) # <<>> /\ Head(Append(<<>>, items)) = items
    <3>1. <<>> \in Seq({items})
      OBVIOUS
    <3> QED BY <3>1
  <2>3. InTransit(q, items)'
    BY <2>1, <2>2 DEF InTransit, Transit
  <2>4. Chan(q)' = Chan(q)
    BY <1>1, <1>3, <2>3, ChanIs
  <2> QED BY <1>1, <2>4, ChanMoves
<1> QED BY <1>2, <1>3

LEMMA ChanPostSend ==
  ASSUME BatchInv, BatchInv', NEW t \in Threads, PostSend(t)
  PROVE  UNCHANGED <<Served, Len(log), Chans, handled>>
<1>1. PICK q \in Ports : q = send[t].port
  BY DEF PostSend, BatchInv, TypeOK
<1>2. PICK items : items = send[t].items
  OBVIOUS
<1>3. /\ PostOrFree(q, items) /\ send' = [send EXCEPT ![t] = Idle]
      /\ UNCHANGED <<coalesced, open, pending, handled, log, dart, overtaken>>
  BY <1>1, <1>2 DEF PostSend
<1>4. InTransit(q, items)
  BY <1>1, <1>2 DEF InTransit, Transit
<1>5. queue[q] = <<>> \/ q \notin Served
  BY <1>1 DEF Served, BatchInv, CarrierInv, CarrierAt, OneCarrier, Sending
<1>6. \A p \in Ports \ {q} : SameWay(p)
  <2>1. /\ send'[t].port = NoPort /\ \A u \in Threads \ {t} : send'[u] = send[u]
        /\ \A p \in Ports : p # NoPort
    BY <1>3, ConstantsOK DEF BatchInv, TypeOK, Idle, Ports
  <2>2. \A p \in Ports \ {q} : queue'[p] = queue[p]
    BY <1>3 DEF PostOrFree, BatchInv, TypeOK
  <2> QED BY <1>1, <1>3, <2>1, <2>2 DEF SameWay, Live
<1> QED BY <1>3, <1>4, <1>5, <1>6, ChanHandOver

LEMMA ChanAckFlush ==
  ASSUME BatchInv, BatchInv', NEW q \in Ports, AckFlush(q)
  PROVE  UNCHANGED <<Served, Len(log), Chans, handled>>
<1>1. PICK items : items = dart[q].items
  OBVIOUS
<1>2. /\ PostOrFree(q, items) /\ dart' = [dart EXCEPT ![q] = AtRest] /\ dart[q].pc = "flush"
      /\ UNCHANGED <<coalesced, open, pending, handled, log, send, overtaken>>
  BY <1>1 DEF AckFlush
<1>3. InTransit(q, items)
  BY <1>1, <1>2 DEF InTransit, Transit
<1>4. queue[q] = <<>> \/ q \notin Served
  BY <1>2 DEF Served, BatchInv, CarrierInv, CarrierAt, OneCarrier
<1>5. \A p \in Ports \ {q} : SameWay(p)
  BY <1>2 DEF SameWay, Live, PostOrFree, BatchInv, TypeOK
<1> QED BY <1>2, <1>3, <1>4, <1>5, ChanHandOver

\* An ack moves what is pending into transit.
LEMMA ChanAck ==
  ASSUME BatchInv, BatchInv', NEW q \in Ports, Ack(q)
  PROVE  UNCHANGED <<Served, Len(log), Chans, handled>>
<1>1. /\ dart[q].pc = "handled" /\ UNCHANGED <<coalesced, open, queue, handled, log, send, overtaken>>
      /\ \/ pending[q] = <<>> /\ pending' = pending /\ dart'[q] = AtRest
         \/ pending'[q] = <<>> /\ dart'[q] = [pc |-> "flush", items |-> pending[q]]
      /\ \A p \in Ports \ {q} : pending'[p] = pending[p] /\ dart'[p] = dart[p]
  BY DEF Ack, AckIdle, AckTake, BatchInv, TypeOK
<1>2. \A p \in Ports \ {q} : SameWay(p)
  BY <1>1 DEF SameWay, Live
<1>3. q \in Served' <=> q \in Served
  BY <1>1 DEF Served, Live
<1>4. CASE q \notin Served
  BY <1>1, <1>2, <1>3, <1>4, ChanMoves DEF Chan
<1>5. CASE q \in Served
  <2>1. InTransit(q, <<>>)
    BY <1>1 DEF InTransit, Transit, BatchInv, CarrierInv, CarrierAt
  <2>2. queue[q] = <<>> /\ \A t \in Threads : send[t].port # q
    BY <1>1, <1>5 DEF BatchInv, CarrierInv, CarrierAt, OneCarrier, Served, Sending
  <2>3. PICK w \in Seq(Objects) : w = pending[q]
    BY DEF BatchInv, TypeOK
  <2>4. InTransit(q, w)' /\ pending'[q] = <<>>
    BY <1>1, <2>2, <2>3 DEF InTransit, Transit, AtRest
  <2>5. Chan(q) = <<>> \o w /\ Chan(q)' = w \o <<>>
    BY <1>3, <1>5, <2>1, <2>3, <2>4, ChanIs
  <2>6. <<>> \o w = w /\ w \o <<>> = w
    BY ConcatEmptySeq
  <2> QED BY <1>1, <1>2, <1>3, <2>5, <2>6, ChanMoves
<1> QED BY <1>4, <1>5

\* The message that the isolate takes is the front of the channel.
LEMMA ChanHandle ==
  ASSUME BatchInv, BatchInv', NEW q \in Ports, Handle(q)
  PROVE  [Channels!Next]_<<Served, Len(log), Chans, handled>>
<1>1. PICK m : m = Head(queue[q])
  OBVIOUS
<1>2. /\ queue[q] # <<>> /\ dart[q].pc = "idle" /\ UNCHANGED <<coalesced, open, pending, log, overtaken>>
      /\ send' = send /\ dart'[q].pc = "handled" /\ dart'[q].items = dart[q].items
      /\ handled'[q] = handled[q] \o m
      /\ \A p \in Ports \ {q} : UNCHANGED <<handled[p], dart[p], queue[p]>>
  <2>1. /\ queue[q] # <<>> /\ dart[q].pc = "idle"
        /\ UNCHANGED <<coalesced, open, pending, log, send, overtaken>>
        /\ handled' = [handled EXCEPT ![q] = @ \o m]
        /\ queue' = [queue EXCEPT ![q] = Tail(@)]
        /\ dart' = [dart EXCEPT ![q].pc = "handled"]
    BY <1>1 DEF Handle
  <2>2. dart'[q].pc = "handled" /\ dart'[q].items = dart[q].items
    BY <2>1 DEF BatchInv, TypeOK
  <2>3. \A p \in Ports \ {q} : UNCHANGED <<handled[p], dart[p], queue[p]>>
    BY <2>1 DEF BatchInv, TypeOK
  <2>4. handled'[q] = handled[q] \o m
    <3>1. DOMAIN handled = Ports
      BY DEF BatchInv, TypeOK
    <3> QED BY <2>1, <3>1
  <2> QED BY <2>1, <2>2, <2>3, <2>4
<1>3. \A p \in Ports \ {q} : SameWay(p)
  BY <1>2 DEF SameWay, Live
<1>4. q \in Served' <=> q \in Served
  BY <1>2 DEF Served, Live
<1>5. m \in Seq(Objects) /\ handled[q] \in Seq(Objects)
  <2>1. queue[q] \in Seq(Seq(Objects)) /\ handled[q] \in Seq(Objects)
    BY DEF BatchInv, TypeOK
  <2> QED BY <1>1, <1>2, <2>1, HeadTailProperties
<1>6. CASE q \notin Served
  <2>1. Len(handled'[q]) >= Len(handled[q])
    BY <1>2, <1>5
  <2>2. Channels!Stray(q)
    BY <1>2, <1>3, <1>4, <1>6, <2>1, ChanMoves
  <2> QED BY <2>2 DEF Channels!Next
<1>7. CASE q \in Served
  <2>1. PICK w \in Seq(Objects) : w = pending[q]
    BY DEF BatchInv, TypeOK
  <2>2. InTransit(q, m) /\ InTransit(q, <<>>)'
    <3>1. dart'[q].items = <<>>
      BY <1>2 DEF BatchInv, CarrierInv, CarrierAt
    <3> QED BY <1>1, <1>2, <3>1 DEF InTransit, Transit
  <2>3. Chan(q) = m \o w /\ Chan(q)' = <<>> \o w
    BY <1>2, <1>4, <1>7, <2>1, <2>2, ChanIs
  <2>4. <<>> \o w = w
    BY ConcatEmptySeq
  <2>5. CASE m = <<>>
    <3>1. handled'[q] = handled[q] /\ Chan(q)' = Chan(q)
      BY <1>2, <1>5, <2>3, <2>4, <2>5, ConcatEmptySeq
    <3> QED BY <1>2, <1>3, <1>4, <3>1, ChanMoves
  <2>6. CASE m # <<>>
    <3>1. PICK k \in Nat : k = Len(m)
      BY <1>5
    <3>2. /\ k >= 1 /\ k <= Len(m \o w) /\ Len(m \o w) = k + Len(w)
          /\ SubSeq(m \o w, 1, k) = m
          /\ SubSeq(m \o w, k + 1, Len(m \o w)) = w
      BY <1>5, <2>6, <3>1
    <3>3. k \in 1 .. Len(Chan(q))
      BY <2>3, <3>1, <3>2, <1>5
    <3>4. /\ handled'[q] = handled[q] \o SubSeq(Chan(q), 1, k)
          /\ Chan(q)' = SubSeq(Chan(q), k + 1, Len(Chan(q)))
      BY <1>2, <2>3, <2>4, <3>2
    <3>5. Channels!Deliver(q)
      BY <1>2, <1>3, <1>4, <1>7, <3>3, <3>4, ChanMoves
    <3> QED BY <3>5 DEF Channels!Next
  <2> QED BY <2>5, <2>6
<1> QED BY <1>6, <1>7

LEMMA FreshStep ==
  ASSUME BatchInv, [Next]_vars
  PROVE  FreshInv'
<1>1. \A p \in StreamPorts : coalesced'[p] = "fresh" => coalesced[p] = "fresh"
  BY DEF BatchInv, TypeOK, Next, vars, Bind, Coalesce, Uncoalesce, Post, PostDirect,
         PostPend, PostFirst, PostNow, PostSend, Ack, AckIdle, AckTake, AckFlush, Handle, Close
<1>2. ASSUME NEW q \in Ports, Handle(q) PROVE FreshInv'
  <2>1. q \in StreamPorts => coalesced[q] # "fresh"
    BY <1>2 DEF BatchInv, CarrierInv, CarrierAt, Untouched, Carried, Handle
  <2>2. \A p \in Ports \ {q} : handled'[p] = handled[p]
    BY <1>2 DEF Handle, BatchInv, TypeOK
  <2> QED BY <1>1, <2>1, <2>2 DEF BatchInv, FreshInv, Ports
<1>3. CASE handled' = handled
  BY <1>1, <1>3 DEF BatchInv, FreshInv
<1>4. \/ handled' = handled
      \/ \E q \in Ports : Handle(q)
  BY DEF Next, vars, Bind, Coalesce, Uncoalesce, Post, PostDirect,
         PostPend, PostFirst, PostNow, PostSend, Ack, AckIdle, AckTake, AckFlush, Close
<1> QED BY <1>2, <1>3, <1>4

LEMMA BatchStep ==
  ASSUME BatchInv, [Next]_vars
  PROVE  BatchInv' /\ [Channels!Next]_<<Served, Len(log), Chans, handled>>
<1>1. BatchInv'
  BY TypeStep, CarrierStep, FreshStep DEF BatchInv
<1>2. ASSUME NEW q \in BatchPorts, Bind(q) PROVE UNCHANGED <<Served, Len(log), Chans, handled>>
  <2>1. q \in Ports /\ \A p \in Ports : SameWay(p)
    BY <1>2 DEF Bind, SameWay, Live, Ports
  <2>2. /\ (q \in Served' <=> q \in Served) /\ Chan(q)' = Chan(q)
        /\ Len(log') = Len(log) /\ handled'[q] = handled[q]
    BY <1>1, <1>2, <2>1, ChanFrame DEF Bind
  <2> QED BY <1>1, <2>1, <2>2, ChanMoves
<1>3. ASSUME NEW q \in StreamPorts, Coalesce(q) PROVE Channels!Next
  BY <1>1, <1>3, ChanCoalesce
<1>4. ASSUME NEW q \in Ports,
         (Uncoalesce(q) /\ q \in StreamPorts) \/ Close(q)
      PROVE  [Channels!Next]_<<Served, Len(log), Chans, handled>>
  BY <1>1, <1>4, ChanStop
<1>5. ASSUME NEW t \in Threads, Post(t) PROVE Channels!Next
  BY <1>1, <1>5, ChanPost, ChanPostNow, ChanPostDirect DEF Post
<1>6. ASSUME NEW t \in Threads, PostSend(t)
      PROVE  UNCHANGED <<Served, Len(log), Chans, handled>>
  BY <1>1, <1>6, ChanPostSend
<1>7. ASSUME NEW q \in Ports, Ack(q) \/ AckFlush(q)
      PROVE  UNCHANGED <<Served, Len(log), Chans, handled>>
  BY <1>1, <1>7, ChanAck, ChanAckFlush
<1>8. ASSUME NEW q \in Ports, Handle(q)
      PROVE  [Channels!Next]_<<Served, Len(log), Chans, handled>>
  BY <1>1, <1>8, ChanHandle
<1>9. CASE UNCHANGED vars
  <2>1. \A p \in Ports : SameWay(p)
    BY <1>9 DEF vars, SameWay, Live
  <2>2. \A p \in Ports : (p \in Served' <=> p \in Served) /\ Chan(p)' = Chan(p)
    BY <1>1, <2>1, ChanFrame
  <2>3. Served' = Served /\ Chans' = Chans
    <3>1. Served \subseteq Ports /\ Served' \subseteq Ports
      BY DEF Served
    <3> QED BY <2>2, <3>1 DEF Chans, Chan
  <2>4. log' = log /\ handled' = handled
    BY <1>9 DEF vars
  <2> QED BY <1>1, <2>3, <2>4
<1>10. StreamPorts \subseteq Ports
  BY DEF Ports
<1> QED BY <1>1, <1>2, <1>3, <1>4, <1>5, <1>6, <1>7, <1>8, <1>9, <1>10 DEF Next

LEMMA InitBatch == Init => BatchInv /\ Channels!Init
<1> SUFFICES ASSUME Init PROVE BatchInv /\ Channels!Init
  OBVIOUS
<1>1. BatchInv
  <2>1. TypeOK
    BY ConstantsOK DEF Init, TypeOK, AtRest
  <2>2. CarrierInv
    BY ConstantsOK DEF Init, CarrierInv, CarrierAt, OneCarrier, Carried, Untouched,
                       Sending, Live, Ports, Idle, AtRest
  <2>3. FreshInv
    BY DEF Init, FreshInv, Ports
  <2> QED BY <2>1, <2>2, <2>3 DEF BatchInv
<1>2. \A p \in Ports : Chan(p) = <<>>
  <2> TAKE p \in Ports
  <2>1. InTransit(p, <<>>) /\ pending[p] = <<>>
    BY ConstantsOK DEF Init, InTransit, Transit, Idle, AtRest, Ports
  <2>2. p \in Served => Chan(p) = <<>> \o <<>>
    BY <1>1, <2>1, ChanIs
  <2>3. <<>> \o <<>> = <<>>
    OBVIOUS
  <2> QED BY <2>2, <2>3 DEF Chan
<1>3. Served \subseteq Ports /\ Len(log) = 0 /\ Chans = [p \in Ports |-> <<>>]
  BY <1>2 DEF Init, Served, Chans, Chan
<1> QED BY <1>1, <1>3 DEF Channels!Init, Init, Chans

(* The batcher implements OrderedDelivery, for any number of ports,        *)
(* threads, ids and posts: through a port that is served every object      *)
(* arrives once and in the order of the mutex, however the posts and acks  *)
(* that left the mutex interleave.  A release or a close drops the rest,   *)
(* and an uncopyable object posted ahead of what is out (header :158) ends *)
(* the claim for its port, as its arrival out of order would break it.     *)
THEOREM ImplementsOrderedDelivery == Spec => ImplementsChannels
<1>1. BatchInv /\ [Next]_vars
        => BatchInv' /\ [Channels!Next]_<<Served, Len(log), Chans, handled>>
  BY BatchStep
<1> QED BY <1>1, InitBatch, PTL
        DEF Spec, ImplementsChannels, Channels!Spec, Channels!avars, Chans

-----------------------------------------------------------------------------
(* Who owns an object.  A place is a position in one of the sequences that *)
(* the library, the VM and Dart keep; being freed and being lost are places *)
(* too.  At names them by kind, port or thread, message and position.      *)
AtPending(n, p, k)  == p \in Ports /\ k \in DOMAIN pending[p] /\ pending[p][k] = n
AtHandled(n, p, k)  == p \in Ports /\ k \in DOMAIN handled[p] /\ handled[p][k] = n
AtDart(n, p, k)     == p \in Ports /\ k \in DOMAIN dart[p].items /\ dart[p].items[k] = n
AtSend(n, t, k)     == t \in Threads /\ k \in DOMAIN send[t].items /\ send[t].items[k] = n
AtQueue(n, p, i, k) == /\ p \in Ports /\ i \in DOMAIN queue[p]
                       /\ k \in DOMAIN queue[p][i] /\ queue[p][i][k] = n
AtFreed(n, k)       == k \in 1 .. freed[n]
AtLost(n)           == n \in lost

At(n, a, p, i, k) ==
  \/ a = "pending" /\ i = 0 /\ AtPending(n, p, k)
  \/ a = "handled" /\ i = 0 /\ AtHandled(n, p, k)
  \/ a = "dart" /\ i = 0 /\ AtDart(n, p, k)
  \/ a = "send" /\ i = 0 /\ AtSend(n, p, k)
  \/ a = "queue" /\ AtQueue(n, p, i, k)
  \/ a = "freed" /\ p = NoPort /\ i = 0 /\ AtFreed(n, k)
  \/ a = "lost" /\ p = NoPort /\ i = 0 /\ k = 1 /\ AtLost(n)

Only(n, a, p, i, k) ==
  \A b, q, j, m : At(n, b, q, j, m) => b = a /\ q = p /\ j = i /\ m = k
Unique(n) == \A a, p, i, k : At(n, a, p, i, k) => Only(n, a, p, i, k)
Somewhere(n) == \E a, p, i, k : At(n, a, p, i, k)

\* A malloc'd item goes to its own stream's port.
Heads(n) ==
  /\ \A p, k : AtPending(n, p, k) \/ AtDart(n, p, k) => p = log[n]
  /\ \A p, i, k : AtQueue(n, p, i, k) => p = log[n]
  /\ \A t, k : AtSend(n, t, k) => send[t].port = log[n]

\* Each object that was posted is in one place at most, a malloc'd one in one;
\* no message is empty.
OwnInv ==
  /\ \A n \in Objects : Unique(n)
  /\ \A n \in Objects : Somewhere(n) => n \in DOMAIN log
  /\ \A n \in DOMAIN log : log[n] \in HeapStreams => Somewhere(n) /\ Heads(n)
  /\ \A p \in Ports : \A i \in DOMAIN queue[p] : queue[p][i] # <<>>
  /\ \A t \in Threads : send[t] # Idle => send[t].items # <<>>
  /\ \A p \in Ports : dart[p].pc = "flush" => dart[p].items # <<>>

\* What a step may do with object n: leave it, or put it into one place.
Same(n) == \A a, p, i, k : At(n, a, p, i, k)' <=> At(n, a, p, i, k)
Kept(n) ==
  \/ Same(n) /\ (n \in DOMAIN log' => n \in DOMAIN log)
  \/ /\ n \in DOMAIN log' /\ Unique(n)'
     /\ log'[n] \in HeapStreams => Somewhere(n)' /\ Heads(n)'

\* An object in the places of a thread's message keeps the message's port.
LEMMA OwnStep ==
  ASSUME TypeOK, OwnInv, \A n \in Objects : Kept(n),
         \A n \in DOMAIN log : n \in Objects /\ n \in DOMAIN log' /\ log'[n] = log[n],
         \A n \in DOMAIN log' : n \in Objects,
         \A t \in Threads : send'[t] = send[t] \/ send[t] = Idle \/ send'[t] = Idle,
         \A p \in Ports : \A i \in DOMAIN queue'[p] : queue'[p][i] # <<>>,
         \A t \in Threads : send'[t] # Idle => send'[t].items # <<>>,
         \A p \in Ports : dart'[p].pc = "flush" => dart'[p].items # <<>>
  PROVE  OwnInv'
<1>1. \A n \in Objects : Unique(n)'
  <2> TAKE n \in Objects
  <2>1. Unique(n)
    BY DEF OwnInv
  <2>2. CASE Same(n)
    BY <2>1, <2>2 DEF Same, Unique, Only
  <2> QED BY <2>2 DEF Kept
<1>2. \A n \in Objects : Somewhere(n)' => n \in DOMAIN log'
  <2> SUFFICES ASSUME NEW n \in Objects, Somewhere(n)' PROVE n \in DOMAIN log'
    OBVIOUS
  <2>1. CASE Same(n)
    <3>1. Somewhere(n)
      BY <2>1 DEF Same, Somewhere
    <3> QED BY <3>1 DEF OwnInv
  <2> QED BY <2>1 DEF Kept
<1>3. ASSUME NEW n \in DOMAIN log', log'[n] \in HeapStreams
      PROVE  Somewhere(n)' /\ Heads(n)'
  <2>1. CASE Same(n) /\ n \in DOMAIN log
    <3>1. Somewhere(n) /\ Heads(n) /\ log'[n] = log[n]
      BY <1>3, <2>1 DEF OwnInv
    <3>2. Somewhere(n)'
      BY <2>1, <3>1 DEF Same, Somewhere
    <3>3. /\ \A p, k : AtPending(n, p, k)' => AtPending(n, p, k)
          /\ \A p, k : AtDart(n, p, k)' => AtDart(n, p, k)
          /\ \A t, k : AtSend(n, t, k)' => AtSend(n, t, k)
          /\ \A p, i, k : AtQueue(n, p, i, k)' => AtQueue(n, p, i, k)
      <4>1. \A p, k : At(n, "pending", p, 0, k)' => At(n, "pending", p, 0, k)
        BY <2>1 DEF Same
      <4>2. \A p, k : At(n, "dart", p, 0, k)' => At(n, "dart", p, 0, k)
        BY <2>1 DEF Same
      <4>3. \A p, k : At(n, "send", p, 0, k)' => At(n, "send", p, 0, k)
        BY <2>1 DEF Same
      <4>4. \A p, i, k : At(n, "queue", p, i, k)' => At(n, "queue", p, i, k)
        BY <2>1 DEF Same
      <4> QED BY <4>1, <4>2, <4>3, <4>4 DEF At
    <3>4. \A t, k : AtSend(n, t, k)' => send'[t].port = log[n]
      <4>1. \A t, k : AtSend(n, t, k) /\ AtSend(n, t, k)' => send'[t] = send[t]
        BY DEF AtSend, Idle
      <4> QED BY <3>1, <3>3, <4>1 DEF Heads
    <3> QED BY <3>1, <3>2, <3>3, <3>4 DEF Heads
  <2> QED BY <1>3, <2>1 DEF Kept
<1> QED BY <1>1, <1>2, <1>3 DEF OwnInv


\* An object that a sequence holds once occurs once in it ...
LEMMA OccursOnce ==
  ASSUME NEW items, NEW n, NEW k \in DOMAIN items, items[k] = n,
         \A m \in DOMAIN items : items[m] = n => m = k
  PROVE  Occurrences(n, items) = 1
<1>1. {i \in DOMAIN items : items[i] = n} = {k}
  OBVIOUS
<1> QED
  BY <1>1, FS_Singleton DEF Occurrences

\* ... and one that it does not hold, never.
LEMMA OccursNever ==
  ASSUME NEW items, NEW n, \A m \in DOMAIN items : items[m] # n
  PROVE  Occurrences(n, items) = 0
<1>1. {i \in DOMAIN items : items[i] = n} = {}
  OBVIOUS
<1> QED
  BY <1>1, FS_EmptySet DEF Occurrences

\* The places of an object are tuples of constants; these are the kinds.
LEMMA PlaceIs ==
  ASSUME NEW n, NEW a, NEW p, NEW i, NEW k
  PROVE  /\ At(n, "pending", p, 0, k) <=> AtPending(n, p, k)
         /\ At(n, "handled", p, 0, k) <=> AtHandled(n, p, k)
         /\ At(n, "dart", p, 0, k) <=> AtDart(n, p, k)
         /\ At(n, "send", p, 0, k) <=> AtSend(n, p, k)
         /\ At(n, "queue", p, i, k) <=> AtQueue(n, p, i, k)
         /\ At(n, "freed", NoPort, 0, k) <=> AtFreed(n, k)
         /\ At(n, "lost", NoPort, 0, 1) <=> AtLost(n)
  BY DEF At

\* An object held elsewhere was not freed.
LEMMA NotFreed ==
  ASSUME TypeOK, NEW n \in Objects,
         NEW a, NEW p, NEW i, NEW k, Only(n, a, p, i, k), a # "freed"
  PROVE  freed[n] = 0
<1>1. freed[n] \in Nat
  BY DEF TypeOK
<1>2. ~At(n, "freed", NoPort, 0, 1)
  BY DEF Only
<1>3. ~AtFreed(n, 1)
  BY <1>2 DEF At
<1> QED
  BY <1>1, <1>3 DEF AtFreed

\* Freeing the items of a heap stream frees each that it holds once, once.
LEMMA FreeItemsAt ==
  ASSUME TypeOK, NEW p, NEW items \in Seq(Objects), FreeItems(p, items),
         NEW n \in Objects
  PROVE  /\ p \notin HeapStreams => freed'[n] = freed[n]
         /\ (\A m \in DOMAIN items : items[m] # n) => freed'[n] = freed[n]
         /\ \A k \in DOMAIN items :
              /\ p \in HeapStreams
              /\ items[k] = n
              /\ \A m \in DOMAIN items : items[m] = n => m = k
              => freed'[n] = freed[n] + 1
<1>0. freed[n] \in Nat
  BY DEF TypeOK
<1>1. p \in HeapStreams => freed'[n] = freed[n] + Occurrences(n, items)
  BY DEF FreeItems
<1>2. (\A m \in DOMAIN items : items[m] # n) => Occurrences(n, items) = 0
  BY OccursNever
<1>3. \A k \in DOMAIN items :
        /\ items[k] = n
        /\ \A m \in DOMAIN items : items[m] = n => m = k
        => Occurrences(n, items) = 1
  BY OccursOnce
<1>4. p \notin HeapStreams => freed'[n] = freed[n]
  BY DEF FreeItems
<1> QED
  BY <1>0, <1>1, <1>2, <1>3, <1>4

\* An object whose places are all left alone is kept; so is one with a new,
\* only place, if that is a place of its own port.
LEMMA KeptSame ==
  ASSUME NEW n,
         \A p, k : AtPending(n, p, k)' <=> AtPending(n, p, k),
         \A p, k : AtHandled(n, p, k)' <=> AtHandled(n, p, k),
         \A p, k : AtDart(n, p, k)' <=> AtDart(n, p, k),
         \A p, k : AtSend(n, p, k)' <=> AtSend(n, p, k),
         \A p, i, k : AtQueue(n, p, i, k)' <=> AtQueue(n, p, i, k),
         \A k : AtFreed(n, k)' <=> AtFreed(n, k),
         AtLost(n)' <=> AtLost(n)
  PROVE  Same(n)
  BY DEF Same, At

LEMMA KeptMoved ==
  ASSUME NEW n, NEW a, NEW p, NEW i, NEW k,
         At(n, a, p, i, k)', Only(n, a, p, i, k)',
         n \in DOMAIN log', log'[n] \in HeapStreams => Heads(n)'
  PROVE  Kept(n)
<1>1. Unique(n)'
  <2>1. ASSUME NEW b, NEW q, NEW j, NEW m, At(n, b, q, j, m)'
        PROVE  b = a /\ q = p /\ j = i /\ m = k
    BY <2>1 DEF Only
  <2> QED
    BY <2>1 DEF Unique, Only
<1>2. Somewhere(n)'
  BY DEF Somewhere
<1> QED
  BY <1>1, <1>2 DEF Kept


\* Nothing holds n any more: it is nowhere, or was freed.
Gone(n) ==
  /\ \A p, k : /\ ~AtPending(n, p, k) /\ ~AtHandled(n, p, k)
               /\ ~AtDart(n, p, k) /\ ~AtSend(n, p, k)
  /\ \A p, i, k : ~AtQueue(n, p, i, k)
  /\ ~AtLost(n)

\* An object whose only place is given up, and whose item is freed if it is of
\* a heap stream, is kept.
LEMMA KeptFreed ==
  ASSUME TypeOK, NEW n \in Objects, NEW p, NEW items \in Seq(Objects),
         FreeItems(p, items), Gone(n)', freed[n] = 0,
         NEW k \in DOMAIN items, items[k] = n,
         \A m \in DOMAIN items : items[m] = n => m = k,
         n \in DOMAIN log', log'[n] \in HeapStreams => p \in HeapStreams
  PROVE  Kept(n)
<1>1. CASE p \in HeapStreams
  <2>1. freed'[n] = 1
    BY <1>1, FreeItemsAt
  <2>2. \A m : AtFreed(n, m)' <=> m = 1
    BY <2>1 DEF AtFreed
  <2>3. At(n, "freed", NoPort, 0, 1)'
    BY <2>2 DEF At
  <2>4. Only(n, "freed", NoPort, 0, 1)'
    BY <2>2 DEF Only, At, Gone
  <2>5. Heads(n)'
    BY DEF Heads, Gone
  <2> QED
    BY <2>3, <2>4, <2>5, KeptMoved
<1>2. CASE p \notin HeapStreams
  <2>1. freed'[n] = 0
    BY <1>2, FreeItemsAt
  <2>2. \A m : ~AtFreed(n, m)'
    BY <2>1 DEF AtFreed
  <2>3. Unique(n)'
    BY <2>2 DEF Unique, At, Gone
  <2> QED
    BY <1>2, <2>3 DEF Kept
<1> QED
  BY <1>1, <1>2

LEMMA LogObjects ==
  ASSUME TypeOK
  PROVE  \A n \in DOMAIN log : n \in Objects
<1>1. DOMAIN log = 1 .. Len(log) /\ Len(log) \in Nat /\ Len(log) <= MaxPosts
  BY DEF TypeOK
<1> QED
  BY <1>1, ConstantsOK DEF Objects

\* Steps that touch no object: an id, a registration, an ack of nothing.
LEMMA OwnQuiet ==
  ASSUME TypeOK, OwnInv,
         UNCHANGED <<log, pending, handled, send, queue, freed, lost>>,
         \A p \in Ports : /\ dart'[p].items = dart[p].items
                          /\ dart'[p].pc = "flush" => dart[p].pc = "flush"
  PROVE  OwnInv'
<1>1. ASSUME NEW n \in Objects PROVE Kept(n)
  <2>1. Same(n)
    <3>1. \A p, k : AtDart(n, p, k)' <=> AtDart(n, p, k)
      BY DEF AtDart
    <3>2. \A p, k : AtPending(n, p, k)' <=> AtPending(n, p, k)
      BY DEF AtPending
    <3>3. \A p, k : AtHandled(n, p, k)' <=> AtHandled(n, p, k)
      BY DEF AtHandled
    <3>4. \A p, k : AtSend(n, p, k)' <=> AtSend(n, p, k)
      BY DEF AtSend
    <3>5. \A p, i, k : AtQueue(n, p, i, k)' <=> AtQueue(n, p, i, k)
      BY DEF AtQueue
    <3>6. (\A k : AtFreed(n, k)' <=> AtFreed(n, k)) /\ (AtLost(n)' <=> AtLost(n))
      BY DEF AtFreed, AtLost
    <3> QED
      BY <3>1, <3>2, <3>3, <3>4, <3>5, <3>6, KeptSame
  <2> QED
    BY <2>1 DEF Kept
<1>2. \A n \in DOMAIN log : n \in Objects
  BY LogObjects
<1> QED
  BY <1>1, <1>2, OwnStep DEF OwnInv

\* A release moves what was pending to freed (or, of a batch port, never runs).
LEMMA OwnUncoalesce ==
  ASSUME TypeOK, ConstantsOK, OwnInv, NEW p \in StreamPorts, Uncoalesce(p)
  PROVE  OwnInv'
<1>0. /\ p \in Ports /\ pending[p] \in Seq(Objects)
      /\ pending' = [pending EXCEPT ![p] = <<>>]
      /\ FreeItems(p, pending[p])
      /\ UNCHANGED <<log, handled, send, queue, dart, lost>>
  BY DEF Uncoalesce, TypeOK, Ports
<1>1. ASSUME NEW n \in Objects PROVE Kept(n)
  <2>0. Unique(n)
    BY DEF OwnInv
  <2>1. /\ \A q, k : AtDart(n, q, k)' <=> AtDart(n, q, k)
        /\ \A q, k : AtHandled(n, q, k)' <=> AtHandled(n, q, k)
        /\ \A q, k : AtSend(n, q, k)' <=> AtSend(n, q, k)
        /\ \A q, i, k : AtQueue(n, q, i, k)' <=> AtQueue(n, q, i, k)
        /\ AtLost(n)' <=> AtLost(n)
    BY <1>0 DEF AtDart, AtHandled, AtSend, AtQueue, AtLost
  <2>2. \A q, k : AtPending(n, q, k)' <=> AtPending(n, q, k) /\ q # p
    BY <1>0 DEF AtPending, TypeOK
  <2>3. CASE \A k : ~AtPending(n, p, k)
    <3>1. \A m \in DOMAIN pending[p] : pending[p][m] # n
      BY <1>0, <2>3 DEF AtPending
    <3>2. freed'[n] = freed[n]
      BY <1>0, <3>1, FreeItemsAt
    <3>3. \A k : AtFreed(n, k)' <=> AtFreed(n, k)
      BY <3>2 DEF AtFreed
    <3>4. \A q, k : AtPending(n, q, k)' <=> AtPending(n, q, k)
      BY <2>2, <2>3
    <3>5. Same(n)
      BY <2>1, <3>3, <3>4, KeptSame
    <3> QED
      BY <1>0, <3>5 DEF Kept
  <2>4. ASSUME NEW k, AtPending(n, p, k) PROVE Kept(n)
    <3>1. At(n, "pending", p, 0, k)
      BY <2>4 DEF At
    <3>2. Only(n, "pending", p, 0, k)
      BY <2>0, <3>1 DEF Unique
    <3>3. freed[n] = 0
      BY <3>2, NotFreed
    <3>4. /\ k \in DOMAIN pending[p] /\ pending[p][k] = n
          /\ \A m \in DOMAIN pending[p] : pending[p][m] = n => m = k
      <4>1. \A m : At(n, "pending", p, 0, m) => m = k
        BY <3>2 DEF Only
      <4> QED
        BY <1>0, <2>4, <4>1 DEF At, AtPending
    <3>5. Gone(n)'
      <4>1. \A q, m : ~At(n, "dart", q, 0, m) /\ ~At(n, "handled", q, 0, m) /\ ~At(n, "send", q, 0, m)
        BY <3>2 DEF Only
      <4>2. \A q, i, m : ~At(n, "queue", q, i, m) /\ ~At(n, "lost", q, i, m)
        BY <3>2 DEF Only
      <4>3. \A q, m : At(n, "pending", q, 0, m) => q = p
        BY <3>2 DEF Only
      <4> QED
        BY <2>1, <2>2, <4>1, <4>2, <4>3 DEF At, Gone
    <3>6. n \in DOMAIN log
      BY <3>1 DEF OwnInv, Somewhere
    <3>7. log[n] \in HeapStreams => p = log[n]
      BY <2>4, <3>6 DEF OwnInv, Heads
    <3> QED
      BY <1>0, <3>3, <3>4, <3>5, <3>6, <3>7, KeptFreed
  <2> QED
    BY <2>3, <2>4
<1>2. \A n \in DOMAIN log : n \in Objects
  BY LogObjects
<1> QED
  BY <1>0, <1>1, <1>2, OwnStep DEF OwnInv


\* post() brings an object that nothing holds yet.
LEMMA NewIsNowhere ==
  ASSUME TypeOK, OwnInv, NEW t \in Threads, NEW to \in Ids \cup StreamPorts,
         CanPost(t, to), EnterPost(to)
  PROVE  \E new \in Objects :
           /\ new = NewObject
           /\ Gone(new) /\ freed[new] = 0
           /\ new \in DOMAIN log' /\ log'[new] = to
           /\ \A n \in DOMAIN log : n # new /\ n \in Objects /\ n \in DOMAIN log' /\ log'[n] = log[n]
           /\ \A n \in DOMAIN log' : n \in DOMAIN log \/ n = new
<1>1. /\ log \in Seq(Ids \cup StreamPorts) /\ Len(log) \in Nat /\ Len(log) < MaxPosts
      /\ DOMAIN log = 1 .. Len(log)
  BY DEF TypeOK, CanPost
<1>2. log' = Append(log, to)
  BY DEF EnterPost
<1>3. /\ DOMAIN log' = 1 .. Len(log) + 1 /\ log'[Len(log) + 1] = to
      /\ \A n \in 1 .. Len(log) : log'[n] = log[n]
  BY <1>1, <1>2
<1>4. NewObject \in Objects /\ NewObject = Len(log) + 1 /\ NewObject \notin DOMAIN log
  BY <1>1, ConstantsOK DEF NewObject, Objects
<1>5. PICK new \in Objects : new = NewObject
  BY <1>4
<1>6. ~Somewhere(new)
  BY <1>4, <1>5 DEF OwnInv
<1>7. \A a, p, i, k : ~At(new, a, p, i, k)
  BY <1>6 DEF Somewhere
<1>8. Gone(new)
  BY <1>7 DEF Gone, At
<1>9. freed[new] = 0
  <2>1. ~At(new, "freed", NoPort, 0, 1)
    BY <1>7
  <2>2. ~AtFreed(new, 1) /\ freed[new] \in Nat
    BY <2>1 DEF At, TypeOK
  <2> QED
    BY <2>2 DEF AtFreed
<1>10. \A n \in 1 .. Len(log) : n \in Objects
  BY <1>1, ConstantsOK DEF Objects
<1> QED
  BY <1>1, <1>3, <1>4, <1>5, <1>8, <1>9, <1>10

\* Every other object is where it was.
OthersSame(new) ==
  \A n : n # new =>
    /\ \A p, k : AtPending(n, p, k)' <=> AtPending(n, p, k)
    /\ \A p, k : AtHandled(n, p, k)' <=> AtHandled(n, p, k)
    /\ \A p, k : AtDart(n, p, k)' <=> AtDart(n, p, k)
    /\ \A p, k : AtSend(n, p, k)' <=> AtSend(n, p, k)
    /\ \A p, i, k : AtQueue(n, p, i, k)' <=> AtQueue(n, p, i, k)
    /\ n \in Objects => freed'[n] = freed[n]
    /\ AtLost(n)' <=> AtLost(n)

LEMMA KeptOthers ==
  ASSUME NEW new, OthersSame(new), NEW n \in Objects, n # new,
         n \in DOMAIN log' => n \in DOMAIN log
  PROVE  Kept(n)
<1>1. \A k : AtFreed(n, k)' <=> AtFreed(n, k)
  BY DEF OthersSame, AtFreed
<1>2. Same(n)
  BY <1>1, KeptSame DEF OthersSame
<1> QED
  BY <1>2 DEF Kept

\* A message is in flight: the new object waits.
LEMMA OwnPostPend ==
  ASSUME TypeOK, ConstantsOK, OwnInv, NEW t \in Threads, NEW to \in Ids \cup StreamPorts,
         PostPend(t, to)
  PROVE  OwnInv'
<1>0. /\ CanPost(t, to) /\ EnterPost(to) /\ Target(to) # NoPort
      /\ pending' = [pending EXCEPT ![Target(to)] = Append(@, NewObject)]
      /\ UNCHANGED <<send, queue, dart, handled, freed, lost>>
  BY DEF PostPend
<1>1. Target(to) \in Ports
  BY <1>0, EnterPostType
<1>2. PICK q \in Ports : q = Target(to)
  BY <1>1
<1>3. PICK new \in Objects :
           /\ new = NewObject
           /\ Gone(new) /\ freed[new] = 0
           /\ new \in DOMAIN log' /\ log'[new] = to
           /\ \A n \in DOMAIN log : n # new /\ n \in Objects /\ n \in DOMAIN log' /\ log'[n] = log[n]
           /\ \A n \in DOMAIN log' : n \in DOMAIN log \/ n = new
  BY <1>0, NewIsNowhere
<1>4. /\ pending' = [pending EXCEPT ![q] = Append(@, new)]
      /\ pending[q] \in Seq(Objects) /\ pending \in [Ports -> Seq(Objects)]
  BY <1>0, <1>2, <1>3 DEF TypeOK
<1>5. PICK l \in Nat : l = Len(pending[q])
  BY <1>4
<1>6. \A n, p, k : AtPending(n, p, k)' <=> \/ AtPending(n, p, k)
                                           \/ n = new /\ p = q /\ k = l + 1
  <2>1. /\ DOMAIN pending[q] = 1 .. l /\ DOMAIN pending'[q] = 1 .. l + 1
        /\ pending'[q][l + 1] = new
        /\ \A k \in 1 .. l : pending'[q][k] = pending[q][k]
    BY <1>4, <1>5
  <2>2. \A p \in Ports : p # q => pending'[p] = pending[p]
    BY <1>4
  <2>3. \A n, p, k : p # q => (AtPending(n, p, k)' <=> AtPending(n, p, k))
    BY <2>2 DEF AtPending
  <2>4. \A n, k : AtPending(n, q, k)' <=> AtPending(n, q, k) \/ (n = new /\ k = l + 1)
    BY <2>1 DEF AtPending
  <2> QED
    BY <2>3, <2>4
<1>7. OthersSame(new)
  BY <1>0, <1>6 DEF OthersSame, AtHandled, AtDart, AtSend, AtQueue, AtLost
<1>8. Kept(new)
  <2>1. /\ \A p, k : ~AtHandled(new, p, k)' /\ ~AtDart(new, p, k)' /\ ~AtSend(new, p, k)'
        /\ \A p, i, k : ~AtQueue(new, p, i, k)'
        /\ ~AtLost(new)'
    BY <1>0, <1>3 DEF Gone, AtHandled, AtDart, AtSend, AtQueue, AtLost
  <2>2. \A k : ~AtFreed(new, k)'
    BY <1>0, <1>3 DEF AtFreed
  <2>3. \A p, k : AtPending(new, p, k)' <=> p = q /\ k = l + 1
    BY <1>3, <1>6 DEF Gone
  <2>4. At(new, "pending", q, 0, l + 1)'
    BY <2>3 DEF At
  <2>5. Only(new, "pending", q, 0, l + 1)'
    BY <2>1, <2>2, <2>3 DEF Only, At
  <2>6. to \in HeapStreams => q = to
    BY <1>0, <1>2, ConstantsOK DEF Target, Ids
  <2>7. to \in HeapStreams => Heads(new)'
    BY <1>3, <2>1, <2>3, <2>6 DEF Heads
  <2> QED
    BY <1>3, <2>4, <2>5, <2>7, KeptMoved
<1>9. \A n \in Objects : Kept(n)
  BY <1>3, <1>7, <1>8, KeptOthers
<1> QED
  BY <1>0, <1>3, <1>9, OwnStep DEF OwnInv


\* Nothing in flight, or an object that cannot wait: it is with the thread.
LEMMA OwnPostFirst ==
  ASSUME TypeOK, ConstantsOK, OwnInv, NEW t \in Threads, NEW to \in Ids \cup StreamPorts,
         PostFirst(t, to) \/ PostNow(t, to)
  PROVE  OwnInv'
<1>0. /\ CanPost(t, to) /\ EnterPost(to) /\ Target(to) # NoPort /\ send[t] = Idle
      /\ send' = [send EXCEPT ![t] = [port |-> Target(to), items |-> <<NewObject>>]]
      /\ UNCHANGED <<pending, queue, dart, handled, freed, lost>>
  BY DEF PostFirst, PostNow, CanPost
<1>1. Target(to) \in Ports
  BY <1>0, EnterPostType
<1>2. PICK q \in Ports : q = Target(to)
  BY <1>1
<1>3. PICK new \in Objects :
           /\ new = NewObject
           /\ Gone(new) /\ freed[new] = 0
           /\ new \in DOMAIN log' /\ log'[new] = to
           /\ \A n \in DOMAIN log : n # new /\ n \in Objects /\ n \in DOMAIN log' /\ log'[n] = log[n]
           /\ \A n \in DOMAIN log' : n \in DOMAIN log \/ n = new
  BY <1>0, NewIsNowhere
<1>4. /\ send'[t] = [port |-> q, items |-> <<new>>]
      /\ \A u \in Threads : u # t => send'[u] = send[u]
  BY <1>0, <1>2, <1>3 DEF TypeOK
<1>5. \A n, u, k : AtSend(n, u, k)' <=> \/ AtSend(n, u, k)
                                        \/ n = new /\ u = t /\ k = 1
  <2>1. \A n, k : ~AtSend(n, t, k)
    BY <1>0 DEF AtSend, Idle
  <2>2. \A n, k : AtSend(n, t, k)' <=> n = new /\ k = 1
    BY <1>4 DEF AtSend
  <2>3. \A n, u, k : u # t => (AtSend(n, u, k)' <=> AtSend(n, u, k))
    BY <1>4 DEF AtSend
  <2> QED
    BY <2>1, <2>2, <2>3
<1>6. OthersSame(new)
  BY <1>0, <1>5 DEF OthersSame, AtHandled, AtDart, AtPending, AtQueue, AtLost
<1>7. Kept(new)
  <2>1. /\ \A p, k : ~AtHandled(new, p, k)' /\ ~AtDart(new, p, k)' /\ ~AtPending(new, p, k)'
        /\ \A p, i, k : ~AtQueue(new, p, i, k)'
        /\ ~AtLost(new)'
    BY <1>0, <1>3 DEF Gone, AtHandled, AtDart, AtPending, AtQueue, AtLost
  <2>2. \A k : ~AtFreed(new, k)'
    BY <1>0, <1>3 DEF AtFreed
  <2>3. \A u, k : AtSend(new, u, k)' <=> u = t /\ k = 1
    BY <1>3, <1>5 DEF Gone
  <2>4. At(new, "send", t, 0, 1)'
    BY <2>3 DEF At
  <2>5. Only(new, "send", t, 0, 1)'
    BY <2>1, <2>2, <2>3 DEF Only, At
  <2>6. to \in HeapStreams => q = to
    BY <1>0, <1>2, ConstantsOK DEF Target, Ids
  <2>7. to \in HeapStreams => Heads(new)'
    BY <1>3, <1>4, <2>1, <2>3, <2>6 DEF Heads
  <2> QED
    BY <1>3, <2>4, <2>5, <2>7, KeptMoved
<1>8. \A n \in Objects : Kept(n)
  BY <1>3, <1>6, <1>7, KeptOthers
<1>9. \A u \in Threads : send'[u] # Idle => send'[u].items # <<>>
  BY <1>4 DEF OwnInv
<1>10. \A u \in Threads : send'[u] = send[u] \/ send[u] = Idle \/ send'[u] = Idle
  BY <1>0, <1>4
<1> QED
  BY <1>0, <1>3, <1>8, <1>9, <1>10, OwnStep DEF OwnInv

\* A message that the VM accepts stands at the end of its port's queue.
NoEmptyMessage == \A q \in Ports : \A i \in DOMAIN queue[q] : queue[q][i] # <<>>

QueueGrew(p, items, l) ==
  /\ \A n, q, i, k : AtQueue(n, q, i, k)' <=>
       \/ AtQueue(n, q, i, k)
       \/ q = p /\ i = l /\ k \in DOMAIN items /\ items[k] = n
  /\ \A n, k : ~AtQueue(n, p, l, k)
  /\ items # <<>> /\ NoEmptyMessage => NoEmptyMessage'

LEMMA QueueAppend ==
  ASSUME TypeOK, NEW p \in Ports, NEW items \in Seq(Objects),
         queue' = [queue EXCEPT ![p] = Append(@, items)]
  PROVE  \E l \in Nat : QueueGrew(p, items, l)
<1>1. queue[p] \in Seq(Seq(Objects))
  BY DEF TypeOK
<1>2. PICK l \in Nat : l = Len(queue[p])
  BY <1>1
<1>3. /\ DOMAIN queue[p] = 1 .. l /\ DOMAIN queue'[p] = 1 .. l + 1
      /\ queue'[p][l + 1] = items
      /\ \A i \in 1 .. l : queue'[p][i] = queue[p][i]
  BY <1>1, <1>2 DEF TypeOK
<1>4. \A q \in Ports : q # p => queue'[q] = queue[q]
  BY DEF TypeOK
<1>5. \A n, q, i, k : AtQueue(n, q, i, k)' <=>
                \/ AtQueue(n, q, i, k)
                \/ q = p /\ i = l + 1 /\ k \in DOMAIN items /\ items[k] = n
  BY <1>3, <1>4 DEF AtQueue
<1>6. \A n, k : ~AtQueue(n, p, l + 1, k)
  BY <1>3 DEF AtQueue
<1>7. ASSUME items # <<>>, NoEmptyMessage PROVE NoEmptyMessage'
  BY <1>3, <1>4, <1>7 DEF NoEmptyMessage
<1>8. QueueGrew(p, items, l + 1)
  BY <1>5, <1>6, <1>7 DEF QueueGrew
<1>9. l + 1 \in Nat
  OBVIOUS
<1> QED
  BY <1>8, <1>9


\* Not registered: the new object is in the queue at once, or was freed.
LEMMA OwnPostDirect ==
  ASSUME TypeOK, ConstantsOK, OwnInv, NEW t \in Threads, NEW to \in Ids \cup StreamPorts,
         PostDirect(t, to)
  PROVE  OwnInv'
<1>0. /\ CanPost(t, to) /\ EnterPost(to) /\ to \in Ports
      /\ PostOrFree(to, <<NewObject>>)
      /\ UNCHANGED <<pending, send, dart, handled, lost>>
  BY DEF PostDirect, Ports
<1>3. PICK new \in Objects :
           /\ new = NewObject
           /\ Gone(new) /\ freed[new] = 0
           /\ new \in DOMAIN log' /\ log'[new] = to
           /\ \A n \in DOMAIN log : n # new /\ n \in Objects /\ n \in DOMAIN log' /\ log'[n] = log[n]
           /\ \A n \in DOMAIN log' : n \in DOMAIN log \/ n = new
  BY <1>0, NewIsNowhere
<1>4. /\ \A n, p, k : AtHandled(n, p, k)' <=> AtHandled(n, p, k)
      /\ \A n, p, k : AtDart(n, p, k)' <=> AtDart(n, p, k)
      /\ \A n, p, k : AtPending(n, p, k)' <=> AtPending(n, p, k)
      /\ \A n, p, k : AtSend(n, p, k)' <=> AtSend(n, p, k)
      /\ \A n : AtLost(n)' <=> AtLost(n)
  BY <1>0 DEF AtHandled, AtDart, AtPending, AtSend, AtLost
<1>50. PICK items : items = <<new>>
  OBVIOUS
<1>5. /\ items = <<new>> /\ items \in Seq(Objects) /\ DOMAIN items = {1}
      /\ items[1] = new /\ items # <<>>
  BY <1>50
<1>6. CASE queue' = [queue EXCEPT ![to] = Append(@, items)] /\ UNCHANGED freed
  <2>0. PICK l \in Nat : QueueGrew(to, items, l)
    BY <1>0, <1>5, <1>6, QueueAppend
  <2>1. /\ \A n, q, i, k : AtQueue(n, q, i, k)' <=>
             \/ AtQueue(n, q, i, k)
             \/ q = to /\ i = l /\ k \in DOMAIN items /\ items[k] = n
        /\ \A q \in Ports : \A i \in DOMAIN queue'[q] : queue'[q][i] # <<>>
    BY <1>5, <2>0 DEF OwnInv, QueueGrew, NoEmptyMessage
  <2>2. OthersSame(new)
    BY <1>4, <1>5, <1>6, <2>1 DEF OthersSame
  <2>3. \A p, i, k : AtQueue(new, p, i, k)' <=> p = to /\ i = l /\ k = 1
    BY <1>3, <1>5, <2>1 DEF Gone
  <2>4. At(new, "queue", to, l, 1)'
    BY <2>3 DEF At
  <2>5. \A k : ~AtFreed(new, k)'
    BY <1>3, <1>6 DEF AtFreed
  <2>6. Only(new, "queue", to, l, 1)'
    BY <1>3, <1>4, <2>3, <2>5 DEF Only, At, Gone
  <2>7. Heads(new)'
    BY <1>3, <1>4, <2>3 DEF Heads, Gone
  <2>8. Kept(new)
    BY <1>3, <2>4, <2>6, <2>7, KeptMoved
  <2>9. \A n \in Objects : Kept(n)
    BY <1>3, <2>2, <2>8, KeptOthers
  <2> QED
    BY <1>0, <1>3, <2>1, <2>9, OwnStep DEF OwnInv
<1>7. CASE FreeItems(to, items) /\ UNCHANGED queue
  <2>1. ASSUME NEW n \in Objects, n # new PROVE freed'[n] = freed[n]
    <3>1. \A m \in DOMAIN items : items[m] # n
      BY <1>5, <2>1
    <3>2. items \in Seq(Objects) /\ FreeItems(to, items)
      BY <1>5, <1>7
    <3> QED
      BY <3>1, <3>2, FreeItemsAt
  <2>2. \A n, p, i, k : AtQueue(n, p, i, k)' <=> AtQueue(n, p, i, k)
    BY <1>7 DEF AtQueue
  <2>3. OthersSame(new)
    BY <1>4, <2>1, <2>2 DEF OthersSame
  <2>4. Gone(new)'
    BY <1>3, <1>4, <2>2 DEF Gone
  <2>5. Kept(new)
    <3>1. 1 \in DOMAIN items /\ \A m \in DOMAIN items : items[m] = new => m = 1
      BY <1>5
    <3>2. /\ items \in Seq(Objects) /\ 1 \in DOMAIN items /\ items[1] = new
          /\ FreeItems(to, items)
          /\ log'[new] \in HeapStreams => to \in HeapStreams
      BY <1>3, <1>5, <1>7
    <3> QED
      BY <1>3, <2>4, <3>1, <3>2, KeptFreed
  <2>6. \A n \in Objects : Kept(n)
    BY <1>3, <2>3, <2>5, KeptOthers
  <2> QED
    BY <1>0, <1>3, <1>7, <2>6, OwnStep DEF OwnInv
<1> QED
  BY <1>0, <1>3, <1>5, <1>6, <1>7 DEF PostOrFree

\* A message that leaves a thread or an ack is in the queue, or its items are
\* freed.
Leaves(a, s, p, items) ==
  /\ a \in {"send", "dart"}
  /\ \A n, k : At(n, a, s, 0, k) <=> k \in DOMAIN items /\ items[k] = n
  /\ \A n, b, q, j, m : b \notin {"queue", "freed"} =>
       (At(n, b, q, j, m)' <=> At(n, b, q, j, m) /\ ~(b = a /\ q = s))
  /\ \A n \in DOMAIN log : \A k \in DOMAIN items :
       log[n] \in HeapStreams /\ items[k] = n => log[n] = p

LEMMA OwnHandOver ==
  ASSUME TypeOK, OwnInv, NEW p \in Ports, NEW items \in Seq(Objects),
         PostOrFree(p, items), log' = log, NEW a, NEW s, Leaves(a, s, p, items),
         NEW n \in Objects
  PROVE  Kept(n)
<1>0. Unique(n)
  BY DEF OwnInv
<1>1. \A q, m : /\ AtPending(n, q, m)' <=> AtPending(n, q, m)
                /\ AtHandled(n, q, m)' <=> AtHandled(n, q, m)
  <2>1. \A q, m : At(n, "pending", q, 0, m)' <=> At(n, "pending", q, 0, m)
    BY DEF Leaves
  <2>2. \A q, m : At(n, "handled", q, 0, m)' <=> At(n, "handled", q, 0, m)
    BY DEF Leaves
  <2> QED
    BY <2>1, <2>2 DEF At
<1>2. /\ \A q, m : AtDart(n, q, m)' <=> AtDart(n, q, m) /\ ~(a = "dart" /\ q = s)
      /\ \A q, m : AtSend(n, q, m)' <=> AtSend(n, q, m) /\ ~(a = "send" /\ q = s)
  <2>1. \A q, m : At(n, "dart", q, 0, m)' <=> At(n, "dart", q, 0, m) /\ ~(a = "dart" /\ q = s)
    BY DEF Leaves
  <2>2. \A q, m : At(n, "send", q, 0, m)' <=> At(n, "send", q, 0, m) /\ ~(a = "send" /\ q = s)
    BY DEF Leaves
  <2> QED
    BY <2>1, <2>2 DEF At
<1>3. AtLost(n)' <=> AtLost(n)
  <2>1. At(n, "lost", NoPort, 0, 1)' <=> At(n, "lost", NoPort, 0, 1)
    BY DEF Leaves
  <2> QED
    BY <2>1 DEF At
<1>4. ASSUME \A k \in DOMAIN items : items[k] # n PROVE Kept(n)
  <2>1. \A k : ~At(n, a, s, 0, k)
    BY <1>4 DEF Leaves
  <2>2. /\ \A q, m : AtDart(n, q, m)' <=> AtDart(n, q, m)
        /\ \A q, m : AtSend(n, q, m)' <=> AtSend(n, q, m)
    BY <1>2, <2>1 DEF At
  <2>3. \A q, i, k : AtQueue(n, q, i, k)' <=> AtQueue(n, q, i, k)
    <3>1. CASE queue' = [queue EXCEPT ![p] = Append(@, items)]
      <4>1. PICK l \in Nat : QueueGrew(p, items, l)
        BY <3>1, QueueAppend
      <4> QED
        BY <1>4, <4>1 DEF QueueGrew
    <3>2. CASE UNCHANGED queue
      BY <3>2 DEF AtQueue
    <3> QED
      BY <3>1, <3>2 DEF PostOrFree
  <2>4. freed'[n] = freed[n]
    BY <1>4, FreeItemsAt DEF PostOrFree
  <2>5. \A k : AtFreed(n, k)' <=> AtFreed(n, k)
    BY <2>4 DEF AtFreed
  <2>6. Same(n)
    BY <1>1, <1>3, <2>2, <2>3, <2>5, KeptSame
  <2> QED
    BY <2>6 DEF Kept
<1>5. ASSUME NEW k \in DOMAIN items, items[k] = n PROVE Kept(n)
  <2>1. At(n, a, s, 0, k)
    BY <1>5 DEF Leaves
  <2>2. Only(n, a, s, 0, k)
    BY <1>0, <2>1 DEF Unique
  <2>3. freed[n] = 0
    BY <2>2, NotFreed DEF Leaves
  <2>4. \A m \in DOMAIN items : items[m] = n => m = k
    <3>1. \A m \in DOMAIN items : items[m] = n => At(n, a, s, 0, m)
      BY DEF Leaves
    <3> QED
      BY <2>2, <3>1 DEF Only
  <2>5. n \in DOMAIN log /\ n \in DOMAIN log' /\ log'[n] = log[n]
    BY <2>1 DEF OwnInv, Somewhere
  <2>6. /\ \A q, m : ~AtPending(n, q, m)' /\ ~AtHandled(n, q, m)'
        /\ \A q, m : ~AtDart(n, q, m)' /\ ~AtSend(n, q, m)'
        /\ ~AtLost(n)'
    <3>0. a \in {"send", "dart"}
      BY DEF Leaves
    <3>1. \A b, q, j, m : At(n, b, q, j, m) => b = a /\ q = s
      BY <2>2 DEF Only
    <3>2. /\ \A q, m : ~At(n, "pending", q, 0, m) /\ ~At(n, "handled", q, 0, m)
          /\ \A q, m : At(n, "dart", q, 0, m) => a = "dart" /\ q = s
          /\ \A q, m : At(n, "send", q, 0, m) => a = "send" /\ q = s
          /\ ~At(n, "lost", NoPort, 0, 1)
      BY <3>0, <3>1
    <3>3. /\ \A q, m : ~AtPending(n, q, m) /\ ~AtHandled(n, q, m)
          /\ \A q, m : AtDart(n, q, m) => a = "dart" /\ q = s
          /\ \A q, m : AtSend(n, q, m) => a = "send" /\ q = s
          /\ ~AtLost(n)
      BY <3>2 DEF At
    <3> QED
      BY <1>1, <1>2, <1>3, <3>3
  <2>7. \A q, i, m : ~AtQueue(n, q, i, m)
    <3>1. \A q, i, m : ~At(n, "queue", q, i, m)
      BY <2>2 DEF Only, Leaves
    <3> QED
      BY <3>1 DEF At
  <2>8. log[n] \in HeapStreams => log[n] = p
    BY <1>5, <2>5 DEF Leaves
  <2>9. CASE queue' = [queue EXCEPT ![p] = Append(@, items)] /\ UNCHANGED freed
    <3>0. PICK l \in Nat : QueueGrew(p, items, l)
      BY <2>9, QueueAppend
    <3>1. \A q, i, m : AtQueue(n, q, i, m)' <=>
            \/ AtQueue(n, q, i, m)
            \/ q = p /\ i = l /\ m \in DOMAIN items /\ items[m] = n
      BY <3>0 DEF QueueGrew
    <3>2. \A q, i, m : AtQueue(n, q, i, m)' <=> q = p /\ i = l /\ m = k
      BY <1>5, <2>4, <2>7, <3>1
    <3>3. At(n, "queue", p, l, k)'
      BY <3>2 DEF At
    <3>4. \A m : ~AtFreed(n, m)'
      BY <2>3, <2>9 DEF AtFreed
    <3>5. Only(n, "queue", p, l, k)'
      BY <2>6, <3>2, <3>4 DEF Only, At
    <3>6. log'[n] \in HeapStreams => Heads(n)'
      BY <2>5, <2>6, <2>8, <3>2 DEF Heads
    <3> QED
      BY <2>5, <3>3, <3>5, <3>6, KeptMoved
  <2>10. CASE FreeItems(p, items) /\ UNCHANGED queue
    <3>1. \A q, i, m : ~AtQueue(n, q, i, m)'
      BY <2>7, <2>10 DEF AtQueue
    <3>2. Gone(n)'
      BY <2>6, <3>1 DEF Gone
    <3> QED
      BY <1>5, <2>3, <2>4, <2>5, <2>8, <2>10, <3>2, KeptFreed
  <2> QED
    BY <2>9, <2>10 DEF PostOrFree
<1> QED
  BY <1>4, <1>5


LEMMA OwnPostSend ==
  ASSUME TypeOK, OwnInv, NEW t \in Threads, PostSend(t)
  PROVE  OwnInv'
<1>0. /\ send[t] # Idle /\ send[t].port \in Ports /\ send[t].items \in Seq(Objects)
      /\ PostOrFree(send[t].port, send[t].items)
      /\ send' = [send EXCEPT ![t] = Idle]
      /\ UNCHANGED <<log, pending, dart, handled, lost>>
  BY DEF PostSend, TypeOK
<1>1. PICK p \in Ports : p = send[t].port
  BY <1>0
<1>2. PICK items \in Seq(Objects) : items = send[t].items
  BY <1>0
<1>3. items # <<>> /\ PostOrFree(p, items)
  BY <1>0, <1>1, <1>2 DEF OwnInv
<1>4. send'[t] = Idle /\ \A u \in Threads : u # t => send'[u] = send[u]
  BY <1>0 DEF TypeOK
<1>5. \A n, k : At(n, "send", t, 0, k) <=> k \in DOMAIN items /\ items[k] = n
  BY <1>2 DEF At, AtSend
<1>6. \A n, b, q, j, m : b \notin {"queue", "freed"} =>
        (At(n, b, q, j, m)' <=> At(n, b, q, j, m) /\ ~(b = "send" /\ q = t))
  <2>1. \A n, u, m : AtSend(n, u, m)' <=> AtSend(n, u, m) /\ u # t
    <3>1. \A n, m : ~AtSend(n, t, m)'
      BY <1>4 DEF AtSend, Idle
    <3>2. \A n, u, m : u # t => (AtSend(n, u, m)' <=> AtSend(n, u, m))
      BY <1>4 DEF AtSend
    <3> QED
      BY <3>1, <3>2
  <2>2. /\ \A n, q, m : AtPending(n, q, m)' <=> AtPending(n, q, m)
        /\ \A n, q, m : AtHandled(n, q, m)' <=> AtHandled(n, q, m)
        /\ \A n, q, m : AtDart(n, q, m)' <=> AtDart(n, q, m)
        /\ \A n : AtLost(n)' <=> AtLost(n)
    BY <1>0 DEF AtPending, AtHandled, AtDart, AtLost
  <2> QED
    BY <2>1, <2>2 DEF At
<1>7. \A n \in DOMAIN log : \A k \in DOMAIN items :
        log[n] \in HeapStreams /\ items[k] = n => log[n] = p
  BY <1>1, <1>2 DEF OwnInv, Heads, AtSend
<1>8. log' = log
  BY <1>0
<1>9. \A n \in Objects : Kept(n)
  <2>1. Leaves("send", t, p, items)
    BY <1>5, <1>6, <1>7 DEF Leaves
  <2> QED
    BY <1>3, <1>8, <2>1, OwnHandOver
<1>10. \A q \in Ports : \A i \in DOMAIN queue'[q] : queue'[q][i] # <<>>
  <2>1. CASE queue' = [queue EXCEPT ![p] = Append(@, items)]
    <3>1. PICK l \in Nat : QueueGrew(p, items, l)
      BY <2>1, QueueAppend
    <3> QED
      BY <1>3, <3>1 DEF QueueGrew, OwnInv, NoEmptyMessage
  <2>2. CASE UNCHANGED queue
    BY <2>2 DEF OwnInv
  <2> QED
    BY <1>3, <2>1, <2>2 DEF PostOrFree
<1>11. \A n \in DOMAIN log : n \in Objects
  BY LogObjects
<1> QED
  BY <1>0, <1>4, <1>8, <1>9, <1>10, <1>11, OwnStep DEF OwnInv

LEMMA OwnAckFlush ==
  ASSUME TypeOK, OwnInv, NEW p \in Ports, AckFlush(p)
  PROVE  OwnInv'
<1>0. /\ dart[p].pc = "flush" /\ dart[p].items \in Seq(Objects)
      /\ PostOrFree(p, dart[p].items)
      /\ dart' = [dart EXCEPT ![p] = AtRest]
      /\ UNCHANGED <<log, pending, send, handled, lost>>
  BY DEF AckFlush, TypeOK
<1>2. PICK items \in Seq(Objects) : items = dart[p].items
  BY <1>0
<1>3. items # <<>> /\ PostOrFree(p, items)
  BY <1>0, <1>2 DEF OwnInv
<1>4. dart'[p] = AtRest /\ \A q \in Ports : q # p => dart'[q] = dart[q]
  BY <1>0 DEF TypeOK
<1>5. \A n, k : At(n, "dart", p, 0, k) <=> k \in DOMAIN items /\ items[k] = n
  BY <1>2 DEF At, AtDart
<1>6. \A n, b, q, j, m : b \notin {"queue", "freed"} =>
        (At(n, b, q, j, m)' <=> At(n, b, q, j, m) /\ ~(b = "dart" /\ q = p))
  <2>1. \A n, q, m : AtDart(n, q, m)' <=> AtDart(n, q, m) /\ q # p
    <3>1. \A n, m : ~AtDart(n, p, m)'
      BY <1>4 DEF AtDart, AtRest
    <3>2. \A n, q, m : q # p => (AtDart(n, q, m)' <=> AtDart(n, q, m))
      BY <1>4 DEF AtDart
    <3> QED
      BY <3>1, <3>2
  <2>2. /\ \A n, q, m : AtPending(n, q, m)' <=> AtPending(n, q, m)
        /\ \A n, q, m : AtHandled(n, q, m)' <=> AtHandled(n, q, m)
        /\ \A n, q, m : AtSend(n, q, m)' <=> AtSend(n, q, m)
        /\ \A n : AtLost(n)' <=> AtLost(n)
    BY <1>0 DEF AtPending, AtHandled, AtSend, AtLost
  <2> QED
    BY <2>1, <2>2 DEF At
<1>7. \A n \in DOMAIN log : \A k \in DOMAIN items :
        log[n] \in HeapStreams /\ items[k] = n => log[n] = p
  BY <1>2 DEF OwnInv, Heads, AtDart
<1>8. log' = log
  BY <1>0
<1>9. \A n \in Objects : Kept(n)
  <2>1. Leaves("dart", p, p, items)
    BY <1>5, <1>6, <1>7 DEF Leaves
  <2> QED
    BY <1>3, <1>8, <2>1, OwnHandOver
<1>10. \A q \in Ports : \A i \in DOMAIN queue'[q] : queue'[q][i] # <<>>
  <2>1. CASE queue' = [queue EXCEPT ![p] = Append(@, items)]
    <3>1. PICK l \in Nat : QueueGrew(p, items, l)
      BY <2>1, QueueAppend
    <3> QED
      BY <1>3, <3>1 DEF QueueGrew, OwnInv, NoEmptyMessage
  <2>2. CASE UNCHANGED queue
    BY <2>2 DEF OwnInv
  <2> QED
    BY <1>3, <2>1, <2>2 DEF PostOrFree
<1>11. \A n \in DOMAIN log : n \in Objects
  BY LogObjects
<1>12. \A q \in Ports : dart'[q].pc = "flush" => dart'[q].items # <<>>
  BY <1>4 DEF AtRest, OwnInv
<1> QED
  BY <1>0, <1>8, <1>9, <1>10, <1>11, <1>12, OwnStep DEF OwnInv

\* ack takes what was pending for its port; the positions are the same.
LEMMA OwnAckTake ==
  ASSUME TypeOK, CarrierInv, OwnInv, NEW p \in Ports, AckTake(p)
  PROVE  OwnInv'
<1>0. /\ dart[p].pc = "handled" /\ pending[p] # <<>> /\ pending[p] \in Seq(Objects)
      /\ dart' = [dart EXCEPT ![p] = [pc |-> "flush", items |-> pending[p]]]
      /\ pending' = [pending EXCEPT ![p] = <<>>]
      /\ UNCHANGED <<log, send, queue, handled, freed, lost>>
  BY DEF AckTake, TypeOK
<1>1. dart[p].items = <<>>
  BY <1>0 DEF CarrierInv, CarrierAt
<1>2. /\ dart'[p] = [pc |-> "flush", items |-> pending[p]] /\ pending'[p] = <<>>
      /\ \A q \in Ports : q # p => dart'[q] = dart[q] /\ pending'[q] = pending[q]
  BY <1>0 DEF TypeOK
<1>3. /\ \A n, q, m : AtHandled(n, q, m)' <=> AtHandled(n, q, m)
      /\ \A n, q, m : AtSend(n, q, m)' <=> AtSend(n, q, m)
      /\ \A n, q, i, m : AtQueue(n, q, i, m)' <=> AtQueue(n, q, i, m)
      /\ \A n, m : AtFreed(n, m)' <=> AtFreed(n, m)
      /\ \A n : AtLost(n)' <=> AtLost(n)
  BY <1>0 DEF AtHandled, AtSend, AtQueue, AtFreed, AtLost
<1>4. /\ \A n, q, m : AtPending(n, q, m)' <=> AtPending(n, q, m) /\ q # p
      /\ \A n, q, m : AtDart(n, q, m)' <=> AtDart(n, q, m) \/ (q = p /\ AtPending(n, p, m))
  <2>1. \A n, m : ~AtPending(n, p, m)' /\ ~AtDart(n, p, m)
    BY <1>1, <1>2 DEF AtPending, AtDart
  <2>2. \A n, m : AtDart(n, p, m)' <=> AtPending(n, p, m)
    BY <1>2 DEF AtPending, AtDart
  <2>3. \A n, q, m : q # p => /\ AtPending(n, q, m)' <=> AtPending(n, q, m)
                              /\ AtDart(n, q, m)' <=> AtDart(n, q, m)
    BY <1>2 DEF AtPending, AtDart
  <2>4. \A n, q, m : AtPending(n, q, m)' <=> AtPending(n, q, m) /\ q # p
    BY <2>1, <2>3
  <2>5. ASSUME NEW n, NEW q, NEW m
        PROVE  AtDart(n, q, m)' <=> AtDart(n, q, m) \/ (q = p /\ AtPending(n, p, m))
    <3>1. CASE q = p
      BY <2>1, <2>2, <3>1
    <3>2. CASE q # p
      <4>1. AtDart(n, q, m)' <=> AtDart(n, q, m)
        BY <2>3, <3>2
      <4> QED
        BY <3>2, <4>1
    <3> QED
      BY <3>1, <3>2
  <2> QED
    BY <2>4, <2>5
<1>5. ASSUME NEW n \in Objects PROVE Kept(n)
  <2>1. CASE \A m : ~AtPending(n, p, m)
    <3>1. /\ \A q, m : AtPending(n, q, m)' <=> AtPending(n, q, m)
          /\ \A q, m : AtDart(n, q, m)' <=> AtDart(n, q, m)
      <4>1. ASSUME NEW q, NEW m PROVE AtPending(n, q, m)' <=> AtPending(n, q, m)
        <5>1. q = p => ~AtPending(n, q, m)
          BY <2>1
        <5> QED
          BY <1>4, <5>1
      <4>2. ASSUME NEW q, NEW m PROVE AtDart(n, q, m)' <=> AtDart(n, q, m)
        <5>1. AtDart(n, q, m)' <=> AtDart(n, q, m) \/ (q = p /\ AtPending(n, p, m))
          BY <1>4
        <5>2. ~AtPending(n, p, m)
          BY <2>1
        <5> QED
          BY <5>1, <5>2
      <4> QED
        BY <4>1, <4>2
    <3>2. Same(n)
      BY <1>3, <3>1, KeptSame
    <3> QED
      BY <1>0, <3>2 DEF Kept
  <2>2. ASSUME NEW k, AtPending(n, p, k) PROVE Kept(n)
    <3>1. At(n, "pending", p, 0, k)
      BY <2>2 DEF At
    <3>2. Only(n, "pending", p, 0, k)
      BY <3>1 DEF OwnInv, Unique
    <3>3. At(n, "dart", p, 0, k)'
      BY <1>4, <2>2 DEF At
    <3>4. /\ \A q, m : ~AtPending(n, q, m)' /\ ~AtHandled(n, q, m)' /\ ~AtSend(n, q, m)'
          /\ \A q, m : AtDart(n, q, m)' => q = p /\ m = k
          /\ \A q, i, m : ~AtQueue(n, q, i, m)'
          /\ \A m : ~AtFreed(n, m)'
          /\ ~AtLost(n)'
      <4>1. /\ \A q, m : ~At(n, "handled", q, 0, m) /\ ~At(n, "send", q, 0, m) /\ ~At(n, "dart", q, 0, m)
            /\ \A q, i, m : ~At(n, "queue", q, i, m)
            /\ \A m : ~At(n, "freed", NoPort, 0, m)
            /\ ~At(n, "lost", NoPort, 0, 1)
            /\ \A q, m : At(n, "pending", q, 0, m) => q = p /\ m = k
        BY <3>2 DEF Only
      <4>2. /\ \A q, m : ~AtHandled(n, q, m) /\ ~AtSend(n, q, m) /\ ~AtDart(n, q, m)
            /\ \A q, i, m : ~AtQueue(n, q, i, m)
            /\ \A m : ~AtFreed(n, m)
            /\ ~AtLost(n)
            /\ \A q, m : AtPending(n, q, m) => q = p /\ m = k
        BY <4>1 DEF At
      <4>3. \A q, m : ~AtPending(n, q, m)'
        BY <1>4, <4>2
      <4>4. \A q, m : AtDart(n, q, m)' => q = p /\ m = k
        BY <1>4, <4>2
      <4>5. /\ \A q, m : ~AtHandled(n, q, m)' /\ ~AtSend(n, q, m)'
            /\ \A q, i, m : ~AtQueue(n, q, i, m)'
            /\ (\A m : ~AtFreed(n, m)') /\ ~AtLost(n)'
        BY <1>3, <4>2
      <4> QED
        BY <4>3, <4>4, <4>5
    <3>5. Only(n, "dart", p, 0, k)'
      BY <3>4 DEF Only, At
    <3>6. n \in DOMAIN log /\ n \in DOMAIN log' /\ log'[n] = log[n]
      BY <1>0, <3>1 DEF OwnInv, Somewhere
    <3>7. log'[n] \in HeapStreams => Heads(n)'
      <4>1. log[n] \in HeapStreams => Heads(n)
        BY <3>6 DEF OwnInv
      <4> QED
        BY <1>0, <1>3, <1>4, <3>6, <4>1 DEF Heads
    <3> QED
      BY <3>3, <3>5, <3>6, <3>7, KeptMoved
  <2> QED
    BY <2>1, <2>2
<1>6. \A n \in DOMAIN log : n \in Objects
  BY LogObjects
<1>7. \A q \in Ports : dart'[q].pc = "flush" => dart'[q].items # <<>>
  BY <1>0, <1>2 DEF OwnInv
<1> QED
  BY <1>0, <1>5, <1>6, <1>7, OwnStep DEF OwnInv


\* Taking the first message shifts the others by one place.
LEMMA QueueTail ==
  ASSUME TypeOK, NEW p \in Ports, queue[p] # <<>>,
         queue' = [queue EXCEPT ![p] = Tail(@)]
  PROVE  /\ \A n, q, i, k : q # p => (AtQueue(n, q, i, k)' <=> AtQueue(n, q, i, k))
         /\ \A n, i, k : i \in Nat => (AtQueue(n, p, i, k)' <=> i # 0 /\ AtQueue(n, p, i + 1, k))
         /\ \A n, i, k : AtQueue(n, p, i, k) \/ AtQueue(n, p, i, k)' => i \in Nat /\ i # 0
         /\ \A n, k : AtQueue(n, p, 1, k) <=> k \in DOMAIN Head(queue[p]) /\ Head(queue[p])[k] = n
         /\ (\A q \in Ports : \A i \in DOMAIN queue[q] : queue[q][i] # <<>>)
              => \A q \in Ports : \A i \in DOMAIN queue'[q] : queue'[q][i] # <<>>
<1>1. queue[p] \in Seq(Seq(Objects)) /\ Len(queue[p]) \in Nat /\ Len(queue[p]) # 0
  BY DEF TypeOK
<1>2. PICK l \in Nat : l = Len(queue[p])
  BY <1>1
<1>3. /\ DOMAIN queue[p] = 1 .. l /\ DOMAIN queue'[p] = 1 .. l - 1 /\ l # 0
      /\ \A i \in 1 .. l - 1 : queue'[p][i] = queue[p][i + 1]
      /\ Head(queue[p]) = queue[p][1]
  BY <1>1, <1>2 DEF TypeOK
<1>4. \A q \in Ports : q # p => queue'[q] = queue[q]
  BY DEF TypeOK
<1>5. \A n, i, k : i \in Nat => (AtQueue(n, p, i, k)' <=> i # 0 /\ AtQueue(n, p, i + 1, k))
  BY <1>3 DEF AtQueue
<1>6. \A n, i, k : AtQueue(n, p, i, k) \/ AtQueue(n, p, i, k)' => i \in Nat /\ i # 0
  BY <1>3 DEF AtQueue
<1>7. \A n, k : AtQueue(n, p, 1, k) <=> k \in DOMAIN Head(queue[p]) /\ Head(queue[p])[k] = n
  BY <1>3 DEF AtQueue
<1>8. \A n, q, i, k : q # p => (AtQueue(n, q, i, k)' <=> AtQueue(n, q, i, k))
  BY <1>4 DEF AtQueue
<1>9. ASSUME \A q \in Ports : \A i \in DOMAIN queue[q] : queue[q][i] # <<>>,
             NEW q \in Ports, NEW i \in DOMAIN queue'[q]
      PROVE  queue'[q][i] # <<>>
  BY <1>3, <1>4, <1>9
<1> QED
  BY <1>5, <1>6, <1>7, <1>8, <1>9

\* The isolate takes a message: its objects are handled, in their order.
LEMMA OwnHandle ==
  ASSUME TypeOK, CarrierInv, OwnInv, NEW p \in Ports, Handle(p)
  PROVE  OwnInv'
<1>0. /\ queue[p] # <<>> /\ dart[p].pc = "idle"
      /\ handled' = [handled EXCEPT ![p] = @ \o Head(queue[p])]
      /\ queue' = [queue EXCEPT ![p] = Tail(@)]
      /\ dart' = [dart EXCEPT ![p].pc = "handled"]
      /\ UNCHANGED <<log, pending, send, freed, lost>>
  BY DEF Handle
<1>1. Head(queue[p]) \in Seq(Objects) /\ handled[p] \in Seq(Objects)
  BY <1>0 DEF TypeOK
<1>2. PICK items \in Seq(Objects) : items = Head(queue[p])
  BY <1>1
<1>3. PICK l \in Nat : l = Len(handled[p])
  BY <1>1
<1>4. /\ \A n, q, i, k : q # p => (AtQueue(n, q, i, k)' <=> AtQueue(n, q, i, k))
      /\ \A n, i, k : i \in Nat => (AtQueue(n, p, i, k)' <=> i # 0 /\ AtQueue(n, p, i + 1, k))
      /\ \A n, i, k : AtQueue(n, p, i, k) \/ AtQueue(n, p, i, k)' => i \in Nat /\ i # 0
      /\ \A n, k : AtQueue(n, p, 1, k) <=> k \in DOMAIN items /\ items[k] = n
      /\ \A q \in Ports : \A i \in DOMAIN queue'[q] : queue'[q][i] # <<>>
  BY <1>0, <1>2, QueueTail DEF OwnInv
<1>5. /\ \A n, q, m : AtPending(n, q, m)' <=> AtPending(n, q, m)
      /\ \A n, q, m : AtSend(n, q, m)' <=> AtSend(n, q, m)
      /\ \A n, m : AtFreed(n, m)' <=> AtFreed(n, m)
      /\ \A n : AtLost(n)' <=> AtLost(n)
  BY <1>0 DEF AtPending, AtSend, AtFreed, AtLost
<1>6. \A q \in Ports : dart'[q].items = dart[q].items /\ (dart'[q].pc = "flush" => dart[q].pc = "flush")
  BY <1>0 DEF TypeOK
<1>7. \A n, q, m : AtDart(n, q, m)' <=> AtDart(n, q, m)
  BY <1>6 DEF AtDart
<1>8. /\ \A n, q, m : q # p => (AtHandled(n, q, m)' <=> AtHandled(n, q, m))
      /\ \A n, m : AtHandled(n, p, m)' <=>
           \/ AtHandled(n, p, m)
           \/ m \in Nat /\ m > l /\ m - l \in DOMAIN items /\ items[m - l] = n
  <2>1. \A q \in Ports : q # p => handled'[q] = handled[q]
    BY <1>0 DEF TypeOK
  <2>2. handled'[p] = handled[p] \o items
    BY <1>0, <1>2 DEF TypeOK
  <2>3. PICK h \in Nat : h = Len(items)
    BY <1>2
  <2>4. /\ DOMAIN items = 1 .. h /\ DOMAIN handled[p] = 1 .. l /\ DOMAIN handled'[p] = 1 .. l + h
        /\ \A m \in 1 .. l + h : handled'[p][m] = IF m <= l THEN handled[p][m] ELSE items[m - l]
    <3>1. PICK old \in Seq(Objects) : old = handled[p]
      BY <1>1
    <3>2. PICK both : both = old \o items
      OBVIOUS
    <3>3. Len(old) = l /\ DOMAIN old = 1 .. l /\ DOMAIN items = 1 .. h /\ DOMAIN both = 1 .. l + h
      BY <1>3, <2>3, <3>1, <3>2
    <3>4. \A m \in 1 .. l + h : both[m] = IF m <= l THEN old[m] ELSE items[m - l]
      <4>1. \A m \in 1 .. Len(old) + Len(items) :
              (old \o items)[m] = IF m <= Len(old) THEN old[m] ELSE items[m - Len(old)]
        BY <1>2, <3>1, ConcatProperties
      <4> QED
        BY <2>3, <3>2, <3>3, <4>1
    <3> QED
      BY <1>2, <2>2, <3>1, <3>2, <3>3, <3>4
  <2>5. ASSUME NEW n, NEW m
        PROVE  AtHandled(n, p, m)' <=>
                 \/ AtHandled(n, p, m)
                 \/ m \in Nat /\ m > l /\ m - l \in DOMAIN items /\ items[m - l] = n
    <3>1. AtHandled(n, p, m) <=> m \in 1 .. l /\ handled[p][m] = n
      BY <2>4 DEF AtHandled
    <3>2. AtHandled(n, p, m)' <=> m \in 1 .. l + h /\ handled'[p][m] = n
      BY <2>4 DEF AtHandled
    <3>3. m \in 1 .. l + h => handled'[p][m] = IF m <= l THEN handled[p][m] ELSE items[m - l]
      BY <2>4
    <3>4. m \in Nat /\ m > l => (m - l \in DOMAIN items <=> m \in 1 .. l + h)
      BY <2>3, <2>4
    <3>5. CASE m \in 1 .. l
      BY <2>3, <3>1, <3>2, <3>3, <3>5
    <3>6. CASE m \in Nat /\ m > l
      BY <2>3, <3>1, <3>2, <3>3, <3>4, <3>6
    <3>7. CASE m \notin Nat \/ m = 0
      BY <2>3, <3>1, <3>2, <3>7
    <3> QED
      BY <3>5, <3>6, <3>7
  <2>6. \A n, q, m : q # p => (AtHandled(n, q, m)' <=> AtHandled(n, q, m))
    BY <2>1 DEF AtHandled
  <2> QED
    BY <2>5, <2>6
<1>9. ASSUME NEW n \in Objects PROVE Kept(n)
  <2>0. Unique(n)
    BY DEF OwnInv
  <2>1. ASSUME \A i, k : ~AtQueue(n, p, i, k) PROVE Kept(n)
    <3>1. \A q, i, k : AtQueue(n, q, i, k)' <=> AtQueue(n, q, i, k)
      BY <1>4, <2>1
    <3>2. \A k \in DOMAIN items : items[k] # n
      BY <1>4, <2>1
    <3>3. \A q, m : AtHandled(n, q, m)' <=> AtHandled(n, q, m)
      BY <1>8, <3>2
    <3>4. Same(n)
      BY <1>5, <1>7, <3>1, <3>3, KeptSame
    <3> QED
      BY <1>0, <3>4 DEF Kept
  <2>2. ASSUME NEW i, NEW k, AtQueue(n, p, i, k) PROVE Kept(n)
    <3>1. At(n, "queue", p, i, k) /\ i \in Nat /\ i # 0
      BY <1>4, <2>2 DEF At
    <3>2. Only(n, "queue", p, i, k)
      BY <2>0, <3>1 DEF Unique
    <3>3. /\ \A q, m : /\ ~AtPending(n, q, m)' /\ ~AtSend(n, q, m)' /\ ~AtDart(n, q, m)'
                       /\ ~AtHandled(n, q, m)
          /\ \A m : ~AtFreed(n, m)'
          /\ ~AtLost(n)'
      <4>1. /\ \A q, m : /\ ~At(n, "pending", q, 0, m) /\ ~At(n, "send", q, 0, m)
                         /\ ~At(n, "dart", q, 0, m) /\ ~At(n, "handled", q, 0, m)
            /\ \A m : ~At(n, "freed", NoPort, 0, m)
            /\ ~At(n, "lost", NoPort, 0, 1)
        BY <3>2 DEF Only
      <4>2. /\ \A q, m : /\ ~AtPending(n, q, m) /\ ~AtSend(n, q, m)
                         /\ ~AtDart(n, q, m) /\ ~AtHandled(n, q, m)
            /\ \A m : ~AtFreed(n, m)
            /\ ~AtLost(n)
        BY <4>1 DEF At
      <4> QED
        BY <1>5, <1>7, <4>2
    <3>4. /\ \A j, m : AtQueue(n, p, j, m) => j = i /\ m = k
          /\ \A q, j, m : q # p => ~AtQueue(n, q, j, m)'
      <4>1. \A q, j, m : At(n, "queue", q, j, m) => q = p /\ j = i /\ m = k
        BY <3>2 DEF Only
      <4> QED
        BY <1>4, <4>1 DEF At
    <3>5. n \in DOMAIN log /\ n \in DOMAIN log' /\ log'[n] = log[n]
      BY <1>0, <3>1 DEF OwnInv, Somewhere
    <3>6. log[n] \in HeapStreams => p = log[n]
      BY <2>2, <3>5 DEF OwnInv, Heads
    <3>7. CASE i = 1
      <4>1. k \in DOMAIN items /\ items[k] = n /\ \A m \in DOMAIN items : items[m] = n => m = k
        <5>1. AtQueue(n, p, 1, k) /\ \A m : AtQueue(n, p, 1, m) => m = k
          BY <2>2, <3>4, <3>7
        <5> QED
          BY <1>4, <5>1
      <4>2. k \in Nat /\ k # 0
        <5>1. DOMAIN items = 1 .. Len(items) /\ Len(items) \in Nat
          BY <1>2
        <5> QED
          BY <4>1, <5>1
      <4>3. \A q, m : AtHandled(n, q, m)' <=> q = p /\ m = l + k
        BY <1>8, <3>3, <4>1, <4>2
      <4>4. \A q, j, m : ~AtQueue(n, q, j, m)'
        BY <1>4, <3>4, <3>7
      <4>5. At(n, "handled", p, 0, l + k)'
        BY <4>3 DEF At
      <4>6. Only(n, "handled", p, 0, l + k)'
        BY <3>3, <4>3, <4>4 DEF Only, At
      <4>7. Heads(n)'
        BY <3>3, <4>4 DEF Heads
      <4> QED
        BY <3>5, <4>5, <4>6, <4>7, KeptMoved
    <3>8. CASE i # 1
      <4>1. i - 1 \in Nat /\ i - 1 # 0 /\ (i - 1) + 1 = i
        BY <3>1, <3>8
      <4>2. \A m \in DOMAIN items : items[m] # n
        BY <1>4, <3>4, <3>8
      <4>3. \A q, m : ~AtHandled(n, q, m)'
        BY <1>8, <3>3, <4>2
      <4>4. AtQueue(n, p, i - 1, k)'
        BY <1>4, <2>2, <4>1
      <4>5. \A q, j, m : AtQueue(n, q, j, m)' => q = p /\ j = i - 1 /\ m = k
        <5>1. ASSUME NEW j, NEW m, AtQueue(n, p, j, m)' PROVE j = i - 1 /\ m = k
          <6>1. j \in Nat /\ AtQueue(n, p, j + 1, m)
            BY <1>4, <5>1
          <6>2. j + 1 = i /\ m = k
            BY <3>4, <6>1
          <6> QED
            BY <3>1, <6>1, <6>2
        <5> QED
          BY <3>4, <5>1
      <4>6. At(n, "queue", p, i - 1, k)'
        BY <4>4 DEF At
      <4>7. Only(n, "queue", p, i - 1, k)'
        BY <3>3, <4>3, <4>5 DEF Only, At
      <4>8. log'[n] \in HeapStreams => Heads(n)'
        BY <3>3, <3>5, <3>6, <4>5 DEF Heads
      <4> QED
        BY <3>5, <4>6, <4>7, <4>8, KeptMoved
    <3> QED
      BY <3>7, <3>8
  <2> QED
    BY <2>1, <2>2
<1>10. \A n \in DOMAIN log : n \in Objects
  BY LogObjects
<1>11. \A q \in Ports : dart'[q].pc = "flush" => dart'[q].items # <<>>
  BY <1>6 DEF OwnInv
<1> QED
  BY <1>0, <1>4, <1>9, <1>10, <1>11, OwnStep DEF OwnInv

\* A closed port's queue is lost.
LEMMA OwnClose ==
  ASSUME TypeOK, OwnInv, NEW p \in Ports, Close(p)
  PROVE  OwnInv'
<1>0. /\ queue' = [queue EXCEPT ![p] = <<>>]
      /\ lost' = lost \cup {n \in Objects : \E i \in DOMAIN queue[p] :
                                            Occurrences(n, queue[p][i]) # 0}
      /\ UNCHANGED <<log, pending, send, dart, handled, freed>>
  BY DEF Close
<1>1. queue'[p] = <<>> /\ \A q \in Ports : q # p => queue'[q] = queue[q]
  BY <1>0 DEF TypeOK
<1>2. /\ \A n, q, m : AtPending(n, q, m)' <=> AtPending(n, q, m)
      /\ \A n, q, m : AtSend(n, q, m)' <=> AtSend(n, q, m)
      /\ \A n, q, m : AtDart(n, q, m)' <=> AtDart(n, q, m)
      /\ \A n, q, m : AtHandled(n, q, m)' <=> AtHandled(n, q, m)
      /\ \A n, m : AtFreed(n, m)' <=> AtFreed(n, m)
  BY <1>0 DEF AtPending, AtSend, AtDart, AtHandled, AtFreed
<1>3. \A n, q, i, k : AtQueue(n, q, i, k)' <=> q # p /\ AtQueue(n, q, i, k)
  <2>1. \A n, i, k : ~AtQueue(n, p, i, k)'
    BY <1>1 DEF AtQueue
  <2>2. \A n, q, i, k : q # p => (AtQueue(n, q, i, k)' <=> AtQueue(n, q, i, k))
    BY <1>1 DEF AtQueue
  <2> QED
    BY <2>1, <2>2
<1>4. ASSUME NEW n \in Objects PROVE Kept(n)
  <2>0. Unique(n)
    BY DEF OwnInv
  <2>1. ASSUME \A i, k : ~AtQueue(n, p, i, k) PROVE Kept(n)
    <3>1. \A i \in DOMAIN queue[p] : \A m \in DOMAIN queue[p][i] : queue[p][i][m] # n
      BY <2>1 DEF AtQueue
    <3>2. \A i \in DOMAIN queue[p] : Occurrences(n, queue[p][i]) = 0
      BY <3>1, OccursNever
    <3>3. AtLost(n)' <=> AtLost(n)
      BY <1>0, <3>2 DEF AtLost
    <3>4. \A q, i, k : AtQueue(n, q, i, k)' <=> AtQueue(n, q, i, k)
      BY <1>3, <2>1
    <3>5. Same(n)
      BY <1>2, <3>3, <3>4, KeptSame
    <3> QED
      BY <1>0, <3>5 DEF Kept
  <2>2. ASSUME NEW i, NEW k, AtQueue(n, p, i, k) PROVE Kept(n)
    <3>1. At(n, "queue", p, i, k)
      BY <2>2 DEF At
    <3>2. Only(n, "queue", p, i, k)
      BY <2>0, <3>1 DEF Unique
    <3>3. \A q, j, m : At(n, "queue", q, j, m) => q = p /\ j = i /\ m = k
      BY <3>2 DEF Only
    <3>4. /\ i \in DOMAIN queue[p] /\ k \in DOMAIN queue[p][i] /\ queue[p][i][k] = n
          /\ \A m \in DOMAIN queue[p][i] : queue[p][i][m] = n => m = k
      BY <2>2, <3>3 DEF At, AtQueue
    <3>5. Occurrences(n, queue[p][i]) = 1
      BY <3>4, OccursOnce
    <3>6. AtLost(n)'
      BY <1>0, <3>4, <3>5 DEF AtLost
    <3>7. \A q, j, m : ~AtQueue(n, q, j, m)'
      BY <1>3, <3>3 DEF At
    <3>8. /\ \A q, m : /\ ~AtPending(n, q, m)' /\ ~AtSend(n, q, m)' /\ ~AtDart(n, q, m)'
                       /\ ~AtHandled(n, q, m)'
          /\ \A m : ~AtFreed(n, m)'
      <4>1. /\ \A q, m : /\ ~At(n, "pending", q, 0, m) /\ ~At(n, "send", q, 0, m)
                         /\ ~At(n, "dart", q, 0, m) /\ ~At(n, "handled", q, 0, m)
            /\ \A m : ~At(n, "freed", NoPort, 0, m)
        BY <3>2 DEF Only
      <4>2. /\ \A q, m : /\ ~AtPending(n, q, m) /\ ~AtSend(n, q, m)
                         /\ ~AtDart(n, q, m) /\ ~AtHandled(n, q, m)
            /\ \A m : ~AtFreed(n, m)
        BY <4>1 DEF At
      <4> QED
        BY <1>2, <4>2
    <3>9. At(n, "lost", NoPort, 0, 1)'
      BY <3>6 DEF At
    <3>10. Only(n, "lost", NoPort, 0, 1)'
      BY <3>7, <3>8 DEF Only, At
    <3>11. Heads(n)'
      BY <3>7, <3>8 DEF Heads
    <3>12. n \in DOMAIN log'
      BY <1>0, <3>1 DEF OwnInv, Somewhere
    <3> QED
      BY <3>9, <3>10, <3>11, <3>12, KeptMoved
  <2> QED
    BY <2>1, <2>2
<1>5. \A n \in DOMAIN log : n \in Objects
  BY LogObjects
<1>6. \A q \in Ports : \A i \in DOMAIN queue'[q] : queue'[q][i] # <<>>
  BY <1>1 DEF OwnInv
<1> QED
  BY <1>0, <1>4, <1>5, <1>6, OwnStep DEF OwnInv


LEMMA OwnNext ==
  ASSUME TypeOK, ConstantsOK, CarrierInv, OwnInv, [Next]_vars
  PROVE  OwnInv'
<1>1. CASE UNCHANGED vars
  BY <1>1, OwnQuiet DEF vars, OwnInv
<1>2. ASSUME NEW p \in BatchPorts, Bind(p) PROVE OwnInv'
  BY <1>2, OwnQuiet DEF Bind, OwnInv
<1>3. ASSUME NEW p \in StreamPorts, Coalesce(p) PROVE OwnInv'
  BY <1>3, OwnQuiet DEF Coalesce, OwnInv
<1>4. ASSUME NEW p \in StreamPorts, Uncoalesce(p) PROVE OwnInv'
  BY <1>4, OwnUncoalesce
<1>5. ASSUME NEW t \in Threads, Post(t) PROVE OwnInv'
  BY <1>5, OwnPostDirect, OwnPostPend, OwnPostFirst DEF Post
<1>6. ASSUME NEW t \in Threads, PostSend(t) PROVE OwnInv'
  BY <1>6, OwnPostSend
<1>7. ASSUME NEW p \in Ports, AckIdle(p) PROVE OwnInv'
  <2>1. dart[p].items = <<>> /\ dart' = [dart EXCEPT ![p] = AtRest]
    BY <1>7 DEF AckIdle, CarrierInv, CarrierAt
  <2>2. \A q \in Ports : /\ dart'[q].items = dart[q].items
                         /\ dart'[q].pc = "flush" => dart[q].pc = "flush"
    BY <2>1 DEF TypeOK, AtRest
  <2> QED
    BY <1>7, <2>2, OwnQuiet DEF AckIdle
<1>8. ASSUME NEW p \in Ports, AckTake(p) PROVE OwnInv'
  BY <1>8, OwnAckTake
<1>9. ASSUME NEW p \in Ports, AckFlush(p) PROVE OwnInv'
  BY <1>9, OwnAckFlush
<1>10. ASSUME NEW p \in Ports, Handle(p) PROVE OwnInv'
  BY <1>10, OwnHandle
<1>11. ASSUME NEW p \in Ports, Close(p) PROVE OwnInv'
  BY <1>11, OwnClose
<1> QED
  BY <1>1, <1>2, <1>3, <1>4, <1>5, <1>6, <1>7, <1>8, <1>9, <1>10, <1>11 DEF Next, Ack

LEMMA InitOwn ==
  ASSUME Init
  PROVE  OwnInv
<1>1. ASSUME NEW n \in Objects, NEW a, NEW p, NEW i, NEW k PROVE ~At(n, a, p, i, k)
  <2>1. freed[n] = 0
    BY DEF Init
  <2> QED
    BY <2>1 DEF Init, At, AtPending, AtHandled, AtDart, AtSend, AtQueue, AtFreed, AtLost,
                Idle, AtRest
<1>2. \A n \in Objects : Unique(n) /\ ~Somewhere(n)
  BY <1>1 DEF Unique, Somewhere
<1> QED
  BY <1>2 DEF Init, OwnInv, AtRest

-----------------------------------------------------------------------------
(* From places to the counts of OwnedOnce.  They look at positions up to   *)
(* MaxPosts only, which is enough as long as no object is held twice.      *)
LEMMA ShortSeq ==
  ASSUME ConstantsOK, NEW s \in Seq(Objects),
         \A i, j \in DOMAIN s : s[i] = s[j] => i = j
  PROVE  DOMAIN s \subseteq Objects
<1>1. PICK l \in Nat : l = Len(s)
  OBVIOUS
<1>2. DOMAIN s = 1 .. l /\ s \in [1 .. l -> Objects]
  BY <1>1
<1>3. /\ IsFiniteSet(1 .. l) /\ Cardinality(1 .. l) = l
      /\ IsFiniteSet(Objects) /\ Cardinality(Objects) = MaxPosts
  <2>1. IsFiniteSet(1 .. l) /\ Cardinality(1 .. l) = IF 1 > l THEN 0 ELSE l - 1 + 1
    BY FS_Interval
  <2>2. /\ IsFiniteSet(1 .. MaxPosts)
        /\ Cardinality(1 .. MaxPosts) = IF 1 > MaxPosts THEN 0 ELSE MaxPosts - 1 + 1
    BY FS_Interval, ConstantsOK
  <2> QED
    BY <2>1, <2>2, ConstantsOK DEF Objects
<1>4. ~(MaxPosts < l)
  <2> SUFFICES ASSUME MaxPosts < l PROVE FALSE
    OBVIOUS
  <2>1. \E i, j \in 1 .. l : i # j /\ s[i] = s[j]
    BY <1>2, <1>3, FS_PigeonHole
  <2> QED
    BY <1>2, <2>1
<1> QED
  BY <1>2, <1>4, ConstantsOK DEF Objects

LEMMA AtMostOne ==
  ASSUME NEW S, \A x, y \in S : x = y
  PROVE  Cardinality(S) = IF S = {} THEN 0 ELSE 1
<1>1. CASE S = {}
  BY <1>1, FS_EmptySet
<1>2. CASE S # {}
  <2>1. PICK x \in S : TRUE
    BY <1>2
  <2>2. S = {x}
    BY <2>1
  <2> QED
    BY <1>2, <2>2, FS_Singleton
<1> QED
  BY <1>1, <1>2

\* In one container of sequences an object is counted 0 or 1 times.
LEMMA HeldIs ==
  ASSUME ConstantsOK, NEW n \in Objects, NEW D, NEW w, DOMAIN w = D,
         \A d \in D : w[d] \in Seq(Objects),
         \A d \in D : \A i, j \in DOMAIN w[d] : w[d][i] = w[d][j] => i = j,
         \A d, e \in D : \A i \in DOMAIN w[d] : \A j \in DOMAIN w[e] :
            w[d][i] = n /\ w[e][j] = n => d = e
  PROVE  Held(n, w) = IF \E d \in D : \E i \in DOMAIN w[d] : w[d][i] = n THEN 1 ELSE 0
<1> DEFINE S == {at \in D \X Objects : at[2] \in DOMAIN w[at[1]] /\ w[at[1]][at[2]] = n}
<1>1. Held(n, w) = Cardinality(S)
  BY DEF Held
<1>2. \A x, y \in S : x = y
  <2> SUFFICES ASSUME NEW x \in S, NEW y \in S PROVE x = y
    OBVIOUS
  <2>1. PICK d \in D, i \in Objects : x = <<d, i>> /\ i \in DOMAIN w[d] /\ w[d][i] = n
    OBVIOUS
  <2>2. PICK e \in D, j \in Objects : y = <<e, j>> /\ j \in DOMAIN w[e] /\ w[e][j] = n
    OBVIOUS
  <2>3. d = e
    BY <2>1, <2>2
  <2>4. i = j
    BY <2>1, <2>2, <2>3
  <2> QED
    BY <2>1, <2>2, <2>3, <2>4
<1>3. Cardinality(S) = IF S = {} THEN 0 ELSE 1
  BY <1>2, AtMostOne
<1>4. S # {} <=> \E d \in D : \E i \in DOMAIN w[d] : w[d][i] = n
  <2>1. ASSUME NEW d \in D, NEW i \in DOMAIN w[d], w[d][i] = n PROVE S # {}
    <3>1. DOMAIN w[d] \subseteq Objects
      BY ShortSeq
    <3>2. <<d, i>> \in S
      BY <2>1, <3>1
    <3> QED
      BY <3>2
  <2>2. ASSUME S # {} PROVE \E d \in D : \E i \in DOMAIN w[d] : w[d][i] = n
    <3>1. PICK x \in S : TRUE
      BY <2>2
    <3> QED
      BY <3>1
  <2> QED
    BY <2>1, <2>2
<1> QED
  BY <1>1, <1>3, <1>4


\* The same for a container that is one of the kinds of places.
Container(a, D, w) ==
  /\ DOMAIN w = D
  /\ \A d \in D : w[d] \in Seq(Objects)
  /\ \A m, d, i : At(m, a, d, 0, i) <=> d \in D /\ i \in DOMAIN w[d] /\ w[d][i] = m

LEMMA HeldAt ==
  ASSUME ConstantsOK, OwnInv, NEW n \in Objects, NEW a, NEW D, NEW w, Container(a, D, w)
  PROVE  Held(n, w) = IF \E d, i : At(n, a, d, 0, i) THEN 1 ELSE 0
<1>0. /\ DOMAIN w = D
      /\ \A d \in D : w[d] \in Seq(Objects)
      /\ \A m, d, i : At(m, a, d, 0, i) <=> d \in D /\ i \in DOMAIN w[d] /\ w[d][i] = m
  BY DEF Container
<1>1. ASSUME NEW d \in D, NEW i \in DOMAIN w[d], NEW j \in DOMAIN w[d], w[d][i] = w[d][j]
      PROVE  i = j
  <2>1. PICK m \in Objects : m = w[d][i]
    BY <1>0
  <2>2. At(m, a, d, 0, i) /\ At(m, a, d, 0, j)
    BY <1>0, <1>1, <2>1
  <2>3. Unique(m)
    BY DEF OwnInv
  <2> QED
    BY <2>2, <2>3 DEF Unique, Only
<1>2. ASSUME NEW d \in D, NEW e \in D, NEW i \in DOMAIN w[d], NEW j \in DOMAIN w[e],
             w[d][i] = n, w[e][j] = n
      PROVE  d = e
  <2>1. At(n, a, d, 0, i) /\ At(n, a, e, 0, j)
    BY <1>0, <1>2
  <2>2. Unique(n)
    BY DEF OwnInv
  <2> QED
    BY <2>1, <2>2 DEF Unique, Only
<1>3. Held(n, w) = IF \E d \in D : \E i \in DOMAIN w[d] : w[d][i] = n THEN 1 ELSE 0
  BY <1>0, <1>1, <1>2, HeldIs
<1>4. (\E d, i : At(n, a, d, 0, i)) <=> \E d \in D : \E i \in DOMAIN w[d] : w[d][i] = n
  BY <1>0
<1> QED
  BY <1>3, <1>4

\* No message is empty and none shares an object, so a queue is not longer than
\* the number of objects.
LEMMA ShortQueue ==
  ASSUME TypeOK, ConstantsOK, OwnInv, NEW p \in Ports
  PROVE  DOMAIN queue[p] \subseteq Objects
<1>1. queue[p] \in Seq(Seq(Objects))
  BY DEF TypeOK
<1>2. PICK l \in Nat : l = Len(queue[p])
  BY <1>1
<1>3. DOMAIN queue[p] = 1 .. l /\ \A i \in 1 .. l : queue[p][i] \in Seq(Objects)
  BY <1>1, <1>2
<1>4. PICK f : f = [i \in 1 .. l |-> queue[p][i][1]]
  OBVIOUS
<1>5. ASSUME NEW i \in 1 .. l
      PROVE  1 \in DOMAIN queue[p][i] /\ queue[p][i][1] \in Objects
  <2>1. queue[p][i] \in Seq(Objects) /\ queue[p][i] # <<>>
    BY <1>3 DEF OwnInv
  <2> QED
    BY <2>1
<1>6. ASSUME NEW i \in 1 .. l, NEW j \in 1 .. l, f[i] = f[j] PROVE i = j
  <2>1. PICK m \in Objects : m = queue[p][i][1] /\ m = queue[p][j][1]
    BY <1>4, <1>5, <1>6
  <2>2. At(m, "queue", p, i, 1) /\ At(m, "queue", p, j, 1)
    BY <1>3, <1>5, <2>1 DEF At, AtQueue
  <2>3. Unique(m)
    BY DEF OwnInv
  <2> QED
    BY <2>2, <2>3 DEF Unique, Only
<1>7. f \in Seq(Objects) /\ DOMAIN f = 1 .. l
  BY <1>4, <1>5
<1>8. DOMAIN f \subseteq Objects
  BY <1>6, <1>7, ShortSeq
<1> QED
  BY <1>3, <1>7, <1>8

LEMMA QueueIs ==
  ASSUME TypeOK, ConstantsOK, OwnInv, NEW n \in Objects
  PROVE  Cardinality({at \in Ports \X Objects :
                        /\ at[2] \in DOMAIN queue[at[1]]
                        /\ Occurrences(n, queue[at[1]][at[2]]) # 0})
         = IF \E p, i, k : At(n, "queue", p, i, k) THEN 1 ELSE 0
<1> DEFINE S == {at \in Ports \X Objects :
                   /\ at[2] \in DOMAIN queue[at[1]]
                   /\ Occurrences(n, queue[at[1]][at[2]]) # 0}
<1>0. Unique(n)
  BY DEF OwnInv
<1>1. ASSUME NEW p \in Ports, NEW i \in DOMAIN queue[p]
      PROVE  Occurrences(n, queue[p][i]) # 0 <=> \E k : At(n, "queue", p, i, k)
  <2>1. ASSUME \A k : ~At(n, "queue", p, i, k) PROVE Occurrences(n, queue[p][i]) = 0
    <3>1. \A m \in DOMAIN queue[p][i] : queue[p][i][m] # n
      BY <2>1 DEF At, AtQueue
    <3> QED
      BY <3>1, OccursNever
  <2>2. ASSUME NEW k, At(n, "queue", p, i, k) PROVE Occurrences(n, queue[p][i]) = 1
    <3>1. \A m : At(n, "queue", p, i, m) => m = k
      BY <1>0, <2>2 DEF Unique, Only
    <3>2. /\ k \in DOMAIN queue[p][i] /\ queue[p][i][k] = n
          /\ \A m \in DOMAIN queue[p][i] : queue[p][i][m] = n => m = k
      BY <2>2, <3>1 DEF At, AtQueue
    <3> QED
      BY <3>2, OccursOnce
  <2> QED
    BY <2>1, <2>2
<1>2. \A x, y \in S : x = y
  <2> SUFFICES ASSUME NEW x \in S, NEW y \in S PROVE x = y
    OBVIOUS
  <2>1. PICK p \in Ports, i \in Objects :
          x = <<p, i>> /\ i \in DOMAIN queue[p] /\ Occurrences(n, queue[p][i]) # 0
    OBVIOUS
  <2>2. PICK q \in Ports, j \in Objects :
          y = <<q, j>> /\ j \in DOMAIN queue[q] /\ Occurrences(n, queue[q][j]) # 0
    OBVIOUS
  <2>3. PICK k, m : At(n, "queue", p, i, k) /\ At(n, "queue", q, j, m)
    BY <1>1, <2>1, <2>2
  <2>4. p = q /\ i = j
    BY <1>0, <2>3 DEF Unique, Only
  <2> QED
    BY <2>1, <2>2, <2>4
<1>3. Cardinality(S) = IF S = {} THEN 0 ELSE 1
  BY <1>2, AtMostOne
<1>4. S # {} <=> \E p, i, k : At(n, "queue", p, i, k)
  <2>1. ASSUME NEW p, NEW i, NEW k, At(n, "queue", p, i, k) PROVE S # {}
    <3>1. p \in Ports /\ i \in DOMAIN queue[p]
      BY <2>1 DEF At, AtQueue
    <3>2. i \in Objects
      BY <3>1, ShortQueue
    <3>3. <<p, i>> \in S
      BY <1>1, <2>1, <3>1, <3>2
    <3> QED
      BY <3>3
  <2>2. ASSUME S # {} PROVE \E p, i, k : At(n, "queue", p, i, k)
    <3>1. PICK x \in S : TRUE
      BY <2>2
    <3>2. PICK p \in Ports, i \in Objects :
            x = <<p, i>> /\ i \in DOMAIN queue[p] /\ Occurrences(n, queue[p][i]) # 0
      BY <3>1
    <3> QED
      BY <1>1, <3>2
  <2> QED
    BY <2>1, <2>2
<1> QED
  BY <1>3, <1>4

\* Unique places add up to at most one owner, and to one if there is a place.
LEMMA OwnersAdd ==
  ASSUME TypeOK, ConstantsOK, OwnInv, NEW n \in Objects
  PROVE  Holders(n) = IF Somewhere(n) THEN 1 ELSE 0
<1> DEFINE Kind(a) == \E p, i, k : At(n, a, p, i, k)
           One(a) == IF Kind(a) THEN 1 ELSE 0
<1>0. Unique(n)
  BY DEF OwnInv
<1>1. Held(n, pending) = One("pending")
  <2>1. PICK w : w = pending
    OBVIOUS
  <2>2. Container("pending", Ports, w)
    <3>1. DOMAIN w = Ports /\ \A d \in Ports : w[d] \in Seq(Objects)
      BY <2>1 DEF TypeOK
    <3>2. \A m, d, i : At(m, "pending", d, 0, i) <=> d \in Ports /\ i \in DOMAIN w[d] /\ w[d][i] = m
      BY <2>1, <3>1 DEF At, AtPending
    <3> QED
      BY <3>1, <3>2 DEF Container
  <2>3. Held(n, w) = IF \E d, i : At(n, "pending", d, 0, i) THEN 1 ELSE 0
    BY <2>2, HeldAt
  <2>4. Kind("pending") <=> \E d, i : At(n, "pending", d, 0, i)
    BY DEF At
  <2> QED
    BY <2>1, <2>3, <2>4
<1>2. Held(n, handled) = One("handled")
  <2>1. PICK w : w = handled
    OBVIOUS
  <2>2. Container("handled", Ports, w)
    <3>1. DOMAIN w = Ports /\ \A d \in Ports : w[d] \in Seq(Objects)
      BY <2>1 DEF TypeOK
    <3>2. \A m, d, i : At(m, "handled", d, 0, i) <=> d \in Ports /\ i \in DOMAIN w[d] /\ w[d][i] = m
      BY <2>1, <3>1 DEF At, AtHandled
    <3> QED
      BY <3>1, <3>2 DEF Container
  <2>3. Held(n, w) = IF \E d, i : At(n, "handled", d, 0, i) THEN 1 ELSE 0
    BY <2>2, HeldAt
  <2>4. Kind("handled") <=> \E d, i : At(n, "handled", d, 0, i)
    BY DEF At
  <2> QED
    BY <2>1, <2>3, <2>4
<1>3. Held(n, [p \in Ports |-> dart[p].items]) = One("dart")
  <2>1. PICK w : w = [p \in Ports |-> dart[p].items]
    OBVIOUS
  <2>2. Container("dart", Ports, w)
    <3>1. DOMAIN w = Ports /\ \A d \in Ports : w[d] \in Seq(Objects)
      BY <2>1 DEF TypeOK
    <3>2. \A m, d, i : At(m, "dart", d, 0, i) <=> d \in Ports /\ i \in DOMAIN w[d] /\ w[d][i] = m
      BY <2>1, <3>1 DEF At, AtDart
    <3> QED
      BY <3>1, <3>2 DEF Container
  <2>3. Held(n, w) = IF \E d, i : At(n, "dart", d, 0, i) THEN 1 ELSE 0
    BY <2>2, HeldAt
  <2>4. Kind("dart") <=> \E d, i : At(n, "dart", d, 0, i)
    BY DEF At
  <2> QED
    BY <2>1, <2>3, <2>4
<1>4. Held(n, [t \in Threads |-> send[t].items]) = One("send")
  <2>1. PICK w : w = [t \in Threads |-> send[t].items]
    OBVIOUS
  <2>2. Container("send", Threads, w)
    <3>1. DOMAIN w = Threads /\ \A d \in Threads : w[d] \in Seq(Objects)
      <4>1. \A t \in Threads : send[t] = Idle \/ send[t].items \in Seq(Objects)
        BY DEF TypeOK
      <4>2. Idle.items \in Seq(Objects)
        BY DEF Idle
      <4> QED
        BY <2>1, <4>1, <4>2
    <3>2. \A m, d, i : At(m, "send", d, 0, i) <=> d \in Threads /\ i \in DOMAIN w[d] /\ w[d][i] = m
      BY <2>1, <3>1 DEF At, AtSend
    <3> QED
      BY <3>1, <3>2 DEF Container
  <2>3. Held(n, w) = IF \E d, i : At(n, "send", d, 0, i) THEN 1 ELSE 0
    BY <2>2, HeldAt
  <2>4. Kind("send") <=> \E d, i : At(n, "send", d, 0, i)
    BY DEF At
  <2> QED
    BY <2>1, <2>3, <2>4
<1>5. Cardinality({at \in Ports \X Objects :
                     /\ at[2] \in DOMAIN queue[at[1]]
                     /\ Occurrences(n, queue[at[1]][at[2]]) # 0}) = One("queue")
  BY QueueIs
<1>6. freed[n] = One("freed")
  <2>1. freed[n] \in Nat
    BY DEF TypeOK
  <2>2. ~(freed[n] >= 2)
    <3> SUFFICES ASSUME freed[n] >= 2 PROVE FALSE
      OBVIOUS
    <3>1. At(n, "freed", NoPort, 0, 1) /\ At(n, "freed", NoPort, 0, 2)
      BY <2>1 DEF At, AtFreed
    <3> QED
      BY <1>0, <3>1 DEF Unique, Only
  <2>3. Kind("freed") <=> \E k : k \in 1 .. freed[n]
    BY DEF At, AtFreed
  <2> QED
    BY <2>1, <2>2, <2>3
<1>7. (IF n \in lost THEN 1 ELSE 0) = One("lost")
  <2>1. Kind("lost") <=> n \in lost
    BY DEF At, AtLost
  <2> QED
    BY <2>1
<1>8. \A a, b : Kind(a) /\ Kind(b) => a = b
  BY <1>0 DEF Unique, Only
<1>9. Somewhere(n) <=> \/ Kind("pending") \/ Kind("handled") \/ Kind("dart") \/ Kind("send")
                       \/ Kind("queue") \/ Kind("freed") \/ Kind("lost")
  BY DEF Somewhere, At
<1>10. Holders(n) = One("pending") + One("handled") + One("dart") + One("send")
                    + One("queue") + One("freed") + One("lost")
  BY <1>1, <1>2, <1>3, <1>4, <1>5, <1>6, <1>7 DEF Holders
<1> HIDE DEF Kind
<1> QED
  BY <1>8, <1>9, <1>10

\* OwnedOnce: every object has at most one owner, a malloc'd one exactly one,
\* between the post and the release.
THEOREM OneOwner == Spec => []OwnedOnce
<1>1. Init => TypeOK /\ CarrierInv /\ OwnInv
  BY InitBatch, InitOwn DEF BatchInv
<1>2. TypeOK /\ CarrierInv /\ OwnInv /\ [Next]_vars => OwnInv'
  BY OwnNext, ConstantsOK
<1>3. TypeOK /\ OwnInv => OwnedOnce
  <2> SUFFICES ASSUME TypeOK, OwnInv, NEW n \in DOMAIN log
               PROVE  /\ Holders(n) <= 1
                      /\ log[n] \in HeapStreams => Holders(n) = 1
    BY DEF OwnedOnce
  <2>1. n \in Objects
    BY LogObjects
  <2>2. Holders(n) = IF Somewhere(n) THEN 1 ELSE 0
    BY <2>1, OwnersAdd, ConstantsOK
  <2> QED
    BY <2>2 DEF OwnInv
<1> QED
  BY <1>1, <1>2, <1>3, TypeCorrect, CarrierCorrect, PTL DEF Spec

=============================================================================
