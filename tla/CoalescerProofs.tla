---------------------------- MODULE CoalescerProofs ----------------------------
(***************************************************************************)
(* Proofs about Coalescer for any callers, ports and number of calls and   *)
(* for both builds: each call is answered once, on its port and in order,  *)
(* and the destructor leaves none behind.                                  *)
(***************************************************************************)
EXTENDS Coalescer, TLAPS

\* The calls of each caller in s are in the order they were made.
Ordered(s) ==
  \A k \in 1 .. Len(s) : \A m \in 1 .. k - 1 : s[m][1] = s[k][1] => s[m][2] < s[k][2]

\* What a caller has in s it called before what it has in t.
Before(s, t) ==
  \A x, y \in Calls :
    Contains(s, x) /\ Contains(t, y) /\ x[1] = y[1] => x[2] < y[2]

\* The call a caller has not pushed yet, and the calls that wait to be posted.
Pushing(c) == caller[c].pc = "push"
Waiting(x) == Contains(coalBuf, x) \/ Contains(flusher.batch, x)

\* A call has a port once it was made.
MadeInv ==
  /\ \A x \in Calls : portOf[x] # NoPort <=> x[2] <= caller[x[1]].calls
  /\ \A c \in Callers : Pushing(c) => caller[c].calls >= 1

\* Calls that are not answered were all made with the port stored last.
PortInv ==
  /\ \A x \in Calls : Waiting(x) => portOf[x] = coalPort /\ portOf[x] # NoPort
  /\ \A c \in Callers : Pushing(c) => portOf[ThisCall(c)] = coalPort
  /\ flusher.pc = "post" /\ flusher.batch # <<>> => flusher.port = coalPort
  /\ \A p \in Ports : \A x \in Calls : Contains(inbox[p], x) => portOf[x] = p

\* A call that was made is being pushed, waits or is answered.
PlaceInv ==
  \A x \in Calls : portOf[x] # NoPort =>
    Waiting(x) \/ Answered(x) \/ (Pushing(x[1]) /\ x[2] = caller[x[1]].calls)

\* Answers, batch, buffer and the pushes to come, each in order and one after the other.
OrderInv ==
  /\ Ordered(coalBuf) /\ Ordered(flusher.batch)
  /\ Before(flusher.batch, coalBuf)
  /\ \A p \in Ports : /\ Ordered(inbox[p])
                      /\ Before(inbox[p], flusher.batch)
                      /\ Before(inbox[p], coalBuf)
  /\ \A x \in Calls : Pushing(x[1]) /\ x[2] = caller[x[1]].calls =>
                        ~Waiting(x) /\ ~Answered(x)

\* Where the flush thread is says what it carries and what may still come.
FlushInv ==
  /\ flusher.pc \notin {"load", "post"} => flusher.batch = <<>>
  /\ Web => flusher.pc = "gone"
  /\ scheduled => Web
  /\ ~running => \A c \in Callers : caller[c].pc = "idle"
  /\ ~Web /\ flusher.pc = "gone" => ~running /\ coalBuf = <<>>

IInv == TypeOK /\ MadeInv /\ PortInv /\ PlaceInv /\ OrderInv /\ FlushInv

-----------------------------------------------------------------------------
\* A call is a caller with a number.
LEMMA CallFacts ==
  \A x \in Calls : /\ x[1] \in Callers /\ x[2] \in 1 .. MaxCalls
                   /\ x = <<x[1], x[2]>> /\ x[2] \in Nat
  BY CoalescerOK DEF Calls

\* Nothing is in the empty sequence.
LEMMA EmptyFacts == Ordered(<<>>) /\ \A x : ~Contains(<<>>, x)
  BY DEF Ordered, Contains

\* A sequence with nothing in it is the empty one.
LEMMA EmptyIfNothing ==
  ASSUME NEW s \in Seq(Calls), \A x \in Calls : ~Contains(s, x)
  PROVE  s = <<>>
<1>1. Len(s) \in Nat /\ \A k \in 1 .. Len(s) : s[k] \in Calls /\ Contains(s, s[k])
  BY DEF Contains
<1>2. Len(s) = 0
  BY <1>1
<1> QED
  BY <1>2

\* What a message adds to the answers on a port.
LEMMA ConcatFacts ==
  ASSUME NEW s \in Seq(Calls), NEW t \in Seq(Calls)
  PROVE  /\ s \o t \in Seq(Calls)
         /\ \A x : Contains(s \o t, x) <=> Contains(s, x) \/ Contains(t, x)
         /\ Ordered(s) /\ Ordered(t) /\ Before(s, t) => Ordered(s \o t)
<1>1. /\ Len(s) \in Nat /\ Len(t) \in Nat /\ Len(s \o t) = Len(s) + Len(t)
      /\ \A k \in 1 .. Len(s) : (s \o t)[k] = s[k] /\ s[k] \in Calls
      /\ \A k \in 1 .. Len(t) : (s \o t)[Len(s) + k] = t[k] /\ t[k] \in Calls
  OBVIOUS
<1>2. \A k \in 1 .. Len(s) + Len(t) :
        \/ k \in 1 .. Len(s) /\ (s \o t)[k] = s[k]
        \/ k - Len(s) \in 1 .. Len(t) /\ (s \o t)[k] = t[k - Len(s)]
  <2> TAKE k \in 1 .. Len(s) + Len(t)
  <2>1. k \in 1 .. Len(s) \/ (k - Len(s) \in 1 .. Len(t) /\ Len(s) + (k - Len(s)) = k)
    BY <1>1
  <2> QED
    BY <1>1, <2>1
<1>3. ASSUME NEW x PROVE Contains(s \o t, x) <=> Contains(s, x) \/ Contains(t, x)
  <2>1. Contains(s \o t, x) => Contains(s, x) \/ Contains(t, x)
    BY <1>1, <1>2 DEF Contains
  <2>2. Contains(s, x) => Contains(s \o t, x)
    BY <1>1 DEF Contains
  <2>3. ASSUME Contains(t, x) PROVE Contains(s \o t, x)
    <3>1. PICK k \in 1 .. Len(t) : t[k] = x
      BY <2>3 DEF Contains
    <3>2. Len(s) + k \in 1 .. Len(s \o t)
      BY <1>1
    <3> QED
      BY <1>1, <3>1, <3>2 DEF Contains
  <2> QED
    BY <2>1, <2>2, <2>3
<1>4. ASSUME Ordered(s), Ordered(t), Before(s, t) PROVE Ordered(s \o t)
  <2>1. SUFFICES ASSUME NEW k \in 1 .. Len(s) + Len(t), NEW m \in 1 .. k - 1,
                        (s \o t)[m][1] = (s \o t)[k][1]
                 PROVE  (s \o t)[m][2] < (s \o t)[k][2]
    BY <1>1 DEF Ordered
  <2>2. m \in 1 .. Len(s) + Len(t)
    BY <1>1
  <2>3. CASE k \in 1 .. Len(s)
    <3>1. m \in 1 .. Len(s)
      BY <2>3, <1>1
    <3> QED
      BY <2>1, <2>3, <3>1, <1>1, <1>4 DEF Ordered
  <2>4. CASE k \notin 1 .. Len(s) /\ m \notin 1 .. Len(s)
    <3>1. /\ k - Len(s) \in 1 .. Len(t) /\ m - Len(s) \in 1 .. Len(t)
          /\ (s \o t)[k] = t[k - Len(s)] /\ (s \o t)[m] = t[m - Len(s)]
      BY <1>2, <2>2, <2>4
    <3>2. m - Len(s) \in 1 .. (k - Len(s)) - 1
      BY <1>1, <3>1
    <3> QED
      BY <2>1, <3>1, <3>2, <1>4 DEF Ordered
  <2>5. CASE k \notin 1 .. Len(s) /\ m \in 1 .. Len(s)
    <3>1. /\ k - Len(s) \in 1 .. Len(t) /\ (s \o t)[k] = t[k - Len(s)]
          /\ (s \o t)[m] = s[m]
      BY <1>1, <1>2, <2>5
    <3>2. Contains(s, s[m]) /\ Contains(t, t[k - Len(s)])
      BY <2>5, <3>1 DEF Contains
    <3> QED
      BY <1>1, <2>1, <2>5, <3>1, <3>2, <1>4 DEF Before
  <2> QED
    BY <2>3, <2>4, <2>5
<1> QED
  BY <1>3, <1>4

\* What a push adds to the buffer.
LEMMA AppendFacts ==
  ASSUME NEW s \in Seq(Calls), NEW e \in Calls
  PROVE  /\ Append(s, e) \in Seq(Calls)
         /\ \A x : Contains(Append(s, e), x) <=> Contains(s, x) \/ x = e
         /\ Ordered(s) /\ (\A x \in Calls : Contains(s, x) /\ x[1] = e[1] => x[2] < e[2])
              => Ordered(Append(s, e))
<1>1. /\ Append(s, e) = s \o <<e>> /\ <<e>> \in Seq(Calls)
      /\ Len(<<e>>) = 1 /\ <<e>>[1] = e
  OBVIOUS
<1>2. \A x : Contains(<<e>>, x) <=> x = e
  BY <1>1 DEF Contains
<1>3. Ordered(<<e>>)
  BY <1>1 DEF Ordered
<1>4. (\A x \in Calls : Contains(s, x) /\ x[1] = e[1] => x[2] < e[2]) => Before(s, <<e>>)
  BY <1>2 DEF Before
<1> QED
  BY <1>1, <1>2, <1>3, <1>4, ConcatFacts

-----------------------------------------------------------------------------
\* The record of the flush thread and what the actions make of it.
LEMMA FlusherFacts ==
  ASSUME TypeOK
  PROVE  /\ flusher.batch \in Seq(Calls) /\ flusher.port \in Ports \cup {NoPort}
         /\ Woken.batch = flusher.batch /\ Woken.port = flusher.port
         /\ Woken.pc = IF flusher.pc = "asleep" THEN "check" ELSE flusher.pc
         /\ Woken.pc \in {"check", "asleep", "window", "load", "post", "gone"}
         /\ Woken \in [pc : {"check", "asleep", "window", "load", "post", "gone"},
                       batch : Seq(Calls), port : Ports \cup {NoPort}]
  BY DEF TypeOK, Woken

\* The call that is being made is a call.
LEMMA ThisCallFacts ==
  ASSUME TypeOK, MadeInv, NEW c \in Callers, Pushing(c)
  PROVE  /\ ThisCall(c) \in Calls /\ ThisCall(c)[1] = c
         /\ ThisCall(c)[2] = caller[c].calls /\ portOf[ThisCall(c)] # NoPort
<1>1. caller[c].calls \in 1 .. MaxCalls
  BY CoalescerOK DEF TypeOK, MadeInv
<1>2. ThisCall(c) \in Calls /\ ThisCall(c)[1] = c /\ ThisCall(c)[2] = caller[c].calls
  BY <1>1 DEF ThisCall, Calls
<1> QED
  BY <1>1, <1>2, CoalescerOK DEF MadeInv

\* A message with answers keeps the type of the answers.
LEMMA PostBatchType ==
  ASSUME TypeOK, NEW p \in Ports \cup {NoPort}, NEW s \in Seq(Calls), PostBatch(p, s)
  PROVE  inbox' \in [Ports -> Seq(Calls)]
<1>1. CASE p = NoPort \/ s = <<>>
  BY <1>1 DEF PostBatch, TypeOK
<1>2. CASE p # NoPort /\ s # <<>>
  <2>1. p \in Ports /\ inbox[p] \o s \in Seq(Calls)
    BY <1>2, ConcatFacts DEF TypeOK
  <2> QED
    BY <1>2, <2>1 DEF PostBatch, TypeOK
<1> QED
  BY <1>1, <1>2

\* The types are inductive, given that a call being pushed is a call.
LEMMA TypeStep ==
  ASSUME TypeOK, MadeInv, [Next]_vars
  PROVE  TypeOK'
<1> USE DEF TypeOK
<1>1. ASSUME NEW c \in Callers, NEW p \in Ports, StorePort(c, p), UNCHANGED build
      PROVE  TypeOK'
  <2>1. caller[c].calls + 1 \in 1 .. MaxCalls
    BY <1>1, CoalescerOK DEF StorePort
  <2>2. [pc |-> "push", calls |-> caller[c].calls + 1]
          \in [pc : {"idle", "push", "notify"}, calls : 0 .. MaxCalls]
    BY <2>1
  <2>3. caller' \in [Callers -> [pc : {"idle", "push", "notify"}, calls : 0 .. MaxCalls]]
    BY <1>1, <2>2 DEF StorePort
  <2>4. portOf' \in [Calls -> Ports \cup {NoPort}]
    BY <1>1 DEF StorePort
  <2> QED
    BY <1>1, <2>3, <2>4 DEF StorePort
<1>2. ASSUME NEW c \in Callers, Push(c), UNCHANGED build PROVE TypeOK'
  <2>1. coalBuf' \in Seq(Calls)
    BY <1>2, ThisCallFacts, AppendFacts DEF Push, Pushing
  <2>2. caller' \in [Callers -> [pc : {"idle", "push", "notify"}, calls : 0 .. MaxCalls]]
    BY <1>2 DEF Push
  <2> QED
    BY <1>2, <2>1, <2>2 DEF Push
<1>3. ASSUME NEW c \in Callers, Notify(c), UNCHANGED build PROVE TypeOK'
  <2>1. caller' \in [Callers -> [pc : {"idle", "push", "notify"}, calls : 0 .. MaxCalls]]
    BY <1>3 DEF Notify
  <2> QED
    BY <1>3, <2>1, FlusherFacts DEF Notify
<1>4. ASSUME NEW c \in Callers, PushWeb(c), UNCHANGED build PROVE TypeOK'
  <2>1. coalBuf' \in Seq(Calls)
    BY <1>4, ThisCallFacts, AppendFacts DEF PushWeb, Pushing
  <2>2. caller' \in [Callers -> [pc : {"idle", "push", "notify"}, calls : 0 .. MaxCalls]]
    BY <1>4 DEF PushWeb
  <2> QED
    BY <1>4, <2>1, <2>2 DEF PushWeb
<1>5. ASSUME Shutdown, UNCHANGED build PROVE TypeOK'
  BY <1>5, FlusherFacts DEF Shutdown
<1>6. ASSUME FlushCheck, UNCHANGED build PROVE TypeOK'
  BY <1>6 DEF FlushCheck
<1>7. ASSUME FlushTake, UNCHANGED build PROVE TypeOK'
  <2>1. <<>> \in Seq(Calls)
    OBVIOUS
  <2> QED
    BY <1>7, <2>1 DEF FlushTake
<1>8. ASSUME FlushLoad, UNCHANGED build PROVE TypeOK'
  BY <1>8 DEF FlushLoad
<1>9. ASSUME FlushPost, UNCHANGED build PROVE TypeOK'
  <2>1. inbox' \in [Ports -> Seq(Calls)]
    BY <1>9, FlusherFacts, PostBatchType DEF FlushPost
  <2>2. <<>> \in Seq(Calls)
    OBVIOUS
  <2> QED
    BY <1>9, <2>1, <2>2 DEF FlushPost, NoBatch
<1>10. ASSUME FlushWeb, UNCHANGED build PROVE TypeOK'
  <2>1. inbox' \in [Ports -> Seq(Calls)]
    BY <1>10, PostBatchType DEF FlushWeb
  <2>2. <<>> \in Seq(Calls)
    OBVIOUS
  <2> QED
    BY <1>10, <2>1, <2>2 DEF FlushWeb
<1>11. CASE UNCHANGED vars
  BY <1>11 DEF vars
<1> QED
  BY <1>1, <1>2, <1>3, <1>4, <1>5, <1>6, <1>7, <1>8, <1>9, <1>10, <1>11
     DEF Next, CallerStep, FlushStep

\* A call that waits is not answered yet.
LEMMA WaitingNotAnswered ==
  ASSUME TypeOK, OrderInv, NEW x \in Calls, Waiting(x)
  PROVE  ~Answered(x)
<1>1. \A p \in Ports : ~Contains(inbox[p], x)
  <2>1. SUFFICES ASSUME NEW p \in Ports, Contains(inbox[p], x) PROVE FALSE
    OBVIOUS
  <2>2. x[2] < x[2]
    BY <2>1 DEF OrderInv, Before, Waiting
  <2> QED
    BY <2>2, CallFacts
<1> QED
  BY <1>1 DEF Answered

\* What was called by a caller before the call it is pushing.
LEMMA PushedLast ==
  ASSUME IInv, NEW c \in Callers, Pushing(c), NEW x \in Calls, x[1] = c,
         Waiting(x) \/ Answered(x)
  PROVE  x[2] < ThisCall(c)[2]
<1>1. portOf[x] # NoPort
  BY CoalescerOK DEF IInv, PortInv, Answered
<1>2. x[2] <= caller[c].calls
  BY <1>1 DEF IInv, MadeInv
<1>3. x[2] # caller[c].calls
  BY DEF IInv, OrderInv
<1>4. caller[c].calls \in Nat
  BY CoalescerOK DEF IInv, TypeOK
<1> QED
  BY <1>2, <1>3, <1>4, CallFacts, ThisCallFacts DEF IInv

\* Storing the port for a new call.
LEMMA StorePortStep ==
  ASSUME IInv, NEW c \in Callers, NEW p \in Ports, StorePort(c, p), TypeOK', UNCHANGED build
  PROVE  IInv'
<1> DEFINE n == caller[c].calls + 1
           new == <<c, n>>
<1>1. /\ running /\ caller[c].pc = "idle" /\ n \in 1 .. MaxCalls /\ n \in Nat
      /\ caller'[c].pc = "push" /\ caller'[c].calls = n
      /\ \A d \in Callers : d # c => caller'[d] = caller[d]
  BY CoalescerOK DEF IInv, TypeOK, StorePort
<1>2. new \in Calls /\ new[1] = c /\ new[2] = n
  BY <1>1 DEF Calls
<1>3. /\ portOf'[new] = p
      /\ \A x \in Calls : x # new => portOf'[x] = portOf[x]
  BY <1>2 DEF StorePort, IInv, TypeOK
<1>4. /\ coalPort' = p /\ p # NoPort
      /\ UNCHANGED <<coalBuf, running, scheduled, flusher, inbox>>
      /\ \A x : Waiting(x)' <=> Waiting(x)
      /\ \A x : Answered(x)' <=> Answered(x)
  BY CoalescerOK DEF StorePort, Waiting, Answered
<1>5. portOf[new] = NoPort
  <2>1. ~(n <= caller[c].calls)
    BY <1>1 DEF IInv, TypeOK
  <2> QED
    BY <1>2, <2>1 DEF IInv, MadeInv
<1>6. /\ ~Waiting(new) /\ ~Answered(new)
      /\ \A q \in Ports : ~Contains(inbox[q], new)
  BY <1>2, <1>5, CoalescerOK DEF IInv, PortInv, Answered
<1>7. ASSUME NEW x \in Calls, portOf[x] # NoPort, ~Answered(x) PROVE portOf[x] = p
  BY <1>7 DEF StorePort, MayUse, Made
<1>8. ASSUME NEW x \in Calls, Waiting(x) PROVE x # new /\ coalPort = p
  BY <1>6, <1>7, <1>8, WaitingNotAnswered DEF IInv, PortInv
<1>9. ASSUME NEW d \in Callers, Pushing(d)
      PROVE  d # c /\ coalPort = p /\ ThisCall(d) \in Calls /\ ThisCall(d) # new
  <2>1. d # c /\ ThisCall(d) \in Calls /\ ThisCall(d)[1] = d
        /\ ThisCall(d)[2] = caller[d].calls /\ portOf[ThisCall(d)] # NoPort
    BY <1>1, <1>9, ThisCallFacts DEF IInv, Pushing
  <2>2. ~Answered(ThisCall(d))
    BY <1>9, <2>1 DEF IInv, OrderInv
  <2> QED
    BY <1>2, <1>7, <1>9, <2>1, <2>2 DEF IInv, PortInv
<1>10. MadeInv'
  <2>1. ASSUME NEW x \in Calls
        PROVE  portOf'[x] # NoPort <=> x[2] <= caller'[x[1]].calls
    <3>1. CASE x = new
      BY <3>1, <1>1, <1>2, <1>3, <1>4
    <3>2. CASE x # new /\ x[1] # c
      BY <3>2, <1>1, <1>3, CallFacts DEF IInv, MadeInv
    <3>3. CASE x # new /\ x[1] = c
      <4>1. x[2] # n /\ x[2] \in Nat /\ caller[c].calls \in Nat
        BY <3>3, CallFacts, CoalescerOK DEF IInv, TypeOK
      <4>2. x[2] <= n <=> x[2] <= caller[c].calls
        BY <4>1
      <4> QED
        BY <3>3, <4>2, <1>1, <1>3 DEF IInv, MadeInv
    <3> QED
      BY <3>1, <3>2, <3>3
  <2>2. ASSUME NEW d \in Callers, Pushing(d)' PROVE caller'[d].calls >= 1
    BY <2>2, <1>1 DEF IInv, MadeInv, Pushing
  <2> QED
    BY <2>1, <2>2 DEF MadeInv
<1>11. PortInv'
  <2>1. \A x \in Calls : Waiting(x)' => portOf'[x] = coalPort' /\ portOf'[x] # NoPort
    BY <1>3, <1>4, <1>8 DEF IInv, PortInv
  <2>2. ASSUME NEW d \in Callers, Pushing(d)' PROVE portOf'[ThisCall(d)'] = coalPort'
    <3>1. CASE d = c
      BY <3>1, <1>1, <1>3, <1>4 DEF ThisCall
    <3>2. CASE d # c
      <4>1. Pushing(d) /\ ThisCall(d)' = ThisCall(d)
        BY <2>2, <3>2, <1>1 DEF Pushing, ThisCall
      <4> QED
        BY <4>1, <1>3, <1>4, <1>9 DEF IInv, PortInv
    <3> QED
      BY <3>1, <3>2
  <2>3. flusher'.pc = "post" /\ flusher'.batch # <<>> => flusher'.port = coalPort'
    <3>1. SUFFICES ASSUME flusher.pc = "post", flusher.batch # <<>> PROVE coalPort = p
      BY <1>4 DEF IInv, PortInv
    <3>2. PICK x \in Calls : Contains(flusher.batch, x)
      BY <3>1, FlusherFacts, EmptyIfNothing DEF IInv
    <3> QED
      BY <3>2, <1>8 DEF Waiting
  <2>4. \A q \in Ports : \A x \in Calls : Contains(inbox'[q], x) => portOf'[x] = q
    BY <1>3, <1>4, <1>6 DEF IInv, PortInv
  <2> QED
    BY <2>1, <2>2, <2>3, <2>4 DEF PortInv
<1>12. PlaceInv'
  <2>1. SUFFICES ASSUME NEW x \in Calls, portOf'[x] # NoPort, ~Waiting(x), ~Answered(x)
                 PROVE  Pushing(x[1])' /\ x[2] = caller'[x[1]].calls
    BY <1>4 DEF PlaceInv
  <2>2. CASE x = new
    BY <2>2, <1>1, <1>2 DEF Pushing
  <2>3. CASE x # new
    <3>1. Pushing(x[1]) /\ x[2] = caller[x[1]].calls
      BY <2>1, <2>3, <1>3 DEF IInv, PlaceInv
    <3> QED
      BY <3>1, <1>1, CallFacts DEF Pushing
  <2> QED
    BY <2>2, <2>3
<1>13. OrderInv'
  <2>1. ASSUME NEW x \in Calls, Pushing(x[1])', x[2] = caller'[x[1]].calls
        PROVE  ~Waiting(x) /\ ~Answered(x)
    <3>1. CASE x[1] = c
      <4>1. x = new
        BY <2>1, <3>1, <1>1, CallFacts
      <4> QED
        BY <4>1, <1>6
    <3>2. CASE x[1] # c
      BY <2>1, <3>2, <1>1, CallFacts DEF IInv, OrderInv, Pushing
    <3> QED
      BY <3>1, <3>2
  <2> QED
    BY <2>1, <1>4 DEF IInv, OrderInv
<1>14. FlushInv'
  BY <1>1, <1>4 DEF IInv, FlushInv, StorePort, Web
<1> QED
  BY <1>10, <1>11, <1>12, <1>13, <1>14 DEF IInv

\* The pair goes into the buffer, in either build.
LEMMA PushStep ==
  ASSUME IInv, NEW c \in Callers, Push(c) \/ PushWeb(c), TypeOK', UNCHANGED build
  PROVE  IInv'
<1> DEFINE new == ThisCall(c)
<1>1. /\ Pushing(c) /\ caller'[c].pc # "push" /\ caller'[c].calls = caller[c].calls
      /\ \A d \in Callers : d # c => caller'[d] = caller[d]
      /\ Web => caller'[c].pc = "idle"
  BY DEF IInv, TypeOK, Push, PushWeb, Pushing
<1>2. /\ coalBuf' = Append(coalBuf, new)
      /\ UNCHANGED <<coalPort, running, flusher, portOf, inbox>>
      /\ scheduled' => scheduled \/ Web
  BY DEF Push, PushWeb
<1>3. /\ new \in Calls /\ new[1] = c /\ new[2] = caller[c].calls /\ portOf[new] # NoPort
      /\ portOf[new] = coalPort /\ ~Waiting(new) /\ ~Answered(new)
  BY <1>1, ThisCallFacts DEF IInv, PortInv, OrderInv
<1>4. /\ \A x : Contains(coalBuf', x) <=> Contains(coalBuf, x) \/ x = new
      /\ \A x : Waiting(x)' <=> Waiting(x) \/ x = new
      /\ \A x : Answered(x)' <=> Answered(x)
  BY <1>2, <1>3, AppendFacts DEF IInv, TypeOK, Waiting, Answered
<1>5. \A x \in Calls : x[1] = c /\ (Waiting(x) \/ Answered(x)) => x[2] < new[2]
  BY <1>1, PushedLast
<1>6. \A d \in Callers : Pushing(d)' => d # c /\ Pushing(d) /\ ThisCall(d)' = ThisCall(d)
  BY <1>1 DEF Pushing, ThisCall
<1>7. MadeInv'
  BY <1>1, <1>2, <1>6, CallFacts DEF IInv, MadeInv
<1>8. PortInv'
  BY <1>2, <1>3, <1>4, <1>6 DEF IInv, PortInv
<1>9. PlaceInv'
  <2>1. ASSUME NEW x \in Calls, Pushing(x[1]), x[2] = caller[x[1]].calls, x # new
        PROVE  Pushing(x[1])' /\ x[2] = caller'[x[1]].calls
    <3>1. x[1] # c
      BY <2>1, <1>3, CallFacts
    <3> QED
      BY <2>1, <3>1, <1>1, CallFacts DEF Pushing
  <2> QED
    BY <2>1, <1>2, <1>4 DEF IInv, PlaceInv
<1>10. OrderInv'
  <2>1. Ordered(coalBuf')
    BY <1>2, <1>3, <1>5, AppendFacts DEF IInv, TypeOK, OrderInv, Waiting
  <2>2. Before(flusher'.batch, coalBuf')
    BY <1>2, <1>3, <1>4, <1>5 DEF IInv, OrderInv, Before, Waiting
  <2>3. \A p \in Ports : Before(inbox'[p], coalBuf')
    BY <1>2, <1>3, <1>4, <1>5 DEF IInv, OrderInv, Before, Answered
  <2>4. ASSUME NEW x \in Calls, Pushing(x[1])', x[2] = caller'[x[1]].calls
        PROVE  ~Waiting(x)' /\ ~Answered(x)'
    BY <2>4, <1>1, <1>3, <1>4, <1>6, CallFacts DEF IInv, OrderInv
  <2> QED
    BY <2>1, <2>2, <2>3, <2>4, <1>2 DEF IInv, OrderInv
<1>11. FlushInv'
  <2>1. running
    BY <1>1 DEF IInv, FlushInv, Pushing
  <2> QED
    BY <2>1, <1>2 DEF IInv, FlushInv, Web
<1> QED
  BY <1>7, <1>8, <1>9, <1>10, <1>11 DEF IInv

\* The flush thread is woken.
LEMMA NotifyStep ==
  ASSUME IInv, NEW c \in Callers, Notify(c), TypeOK', UNCHANGED build
  PROVE  IInv'
<1>1. /\ ~Pushing(c) /\ ~Pushing(c)' /\ caller'[c].calls = caller[c].calls
      /\ caller'[c].pc = "idle"
      /\ \A d \in Callers : d # c => caller'[d] = caller[d]
      /\ UNCHANGED <<coalPort, coalBuf, running, scheduled, portOf, inbox>>
  BY DEF IInv, TypeOK, Notify, Pushing
<1>2. /\ flusher'.batch = flusher.batch /\ flusher'.port = flusher.port
      /\ flusher'.pc = IF flusher.pc = "asleep" THEN "check" ELSE flusher.pc
  BY FlusherFacts DEF IInv, Notify
<1>3. /\ \A d \in Callers : /\ Pushing(d)' <=> Pushing(d)
                            /\ caller'[d].calls = caller[d].calls
                            /\ ThisCall(d)' = ThisCall(d)
      /\ \A x : Waiting(x)' <=> Waiting(x)
      /\ \A x : Answered(x)' <=> Answered(x)
  BY <1>1, <1>2 DEF Pushing, ThisCall, Waiting, Answered
<1>4. MadeInv'
  BY <1>1, <1>3, CallFacts DEF IInv, MadeInv
<1>5. PortInv'
  BY <1>1, <1>2, <1>3 DEF IInv, PortInv
<1>6. PlaceInv'
  BY <1>1, <1>3, CallFacts DEF IInv, PlaceInv
<1>7. OrderInv'
  BY <1>1, <1>2, <1>3, CallFacts DEF IInv, OrderInv
<1>8. FlushInv'
  BY <1>1, <1>2 DEF IInv, FlushInv, Web
<1> QED
  BY <1>4, <1>5, <1>6, <1>7, <1>8 DEF IInv

\* Steps that change the flush thread and at most the shutdown flag.
LEMMA FlusherStep ==
  ASSUME IInv, Shutdown \/ FlushCheck \/ FlushLoad, TypeOK', UNCHANGED build
  PROVE  IInv'
<1>1. UNCHANGED <<coalPort, coalBuf, scheduled, caller, portOf, inbox>>
  BY DEF Shutdown, FlushCheck, FlushLoad
<1>2. /\ flusher'.batch = flusher.batch
      /\ flusher'.pc = "post" /\ flusher'.batch # <<>> => flusher'.port = coalPort
  BY FlusherFacts DEF IInv, PortInv, TypeOK, Shutdown, FlushCheck, FlushLoad
<1>3. /\ \A d \in Callers : (Pushing(d)' <=> Pushing(d)) /\ ThisCall(d)' = ThisCall(d)
      /\ \A x : Waiting(x)' <=> Waiting(x)
      /\ \A x : Answered(x)' <=> Answered(x)
  BY <1>1, <1>2 DEF Pushing, ThisCall, Waiting, Answered
<1>4. MadeInv'
  BY <1>1, <1>3 DEF IInv, MadeInv
<1>5. PortInv'
  BY <1>1, <1>2, <1>3 DEF IInv, PortInv
<1>6. PlaceInv'
  BY <1>1, <1>3, CallFacts DEF IInv, PlaceInv
<1>7. OrderInv'
  BY <1>1, <1>2, <1>3, CallFacts DEF IInv, OrderInv
<1>8. FlushInv'
  <2>1. CASE Shutdown
    BY <2>1, <1>1, FlusherFacts DEF IInv, FlushInv, Shutdown, Web
  <2>2. CASE FlushCheck
    BY <2>2, <1>1, FlusherFacts DEF IInv, TypeOK, FlushInv, FlushCheck, Web
  <2>3. CASE FlushLoad
    BY <2>3, <1>1, FlusherFacts DEF IInv, TypeOK, FlushInv, FlushLoad, Web
  <2> QED
    BY <2>1, <2>2, <2>3
<1> QED
  BY <1>4, <1>5, <1>6, <1>7, <1>8 DEF IInv

\* The burst is taken out of the buffer.
LEMMA FlushTakeStep ==
  ASSUME IInv, FlushTake, TypeOK', UNCHANGED build
  PROVE  IInv'
<1>1. /\ flusher.pc = "window" /\ flusher'.pc = "load" /\ flusher'.batch = coalBuf
      /\ coalBuf' = <<>>
      /\ UNCHANGED <<coalPort, running, scheduled, caller, portOf, inbox>>
  BY DEF IInv, TypeOK, FlushTake
<1>2. flusher.batch = <<>>
  BY <1>1 DEF IInv, FlushInv
<1>3. /\ \A d \in Callers : (Pushing(d)' <=> Pushing(d)) /\ ThisCall(d)' = ThisCall(d)
      /\ \A x : ~Contains(coalBuf', x) /\ ~Contains(flusher.batch, x)
      /\ \A x : Waiting(x)' <=> Waiting(x)
      /\ \A x : Answered(x)' <=> Answered(x)
  BY <1>1, <1>2, EmptyFacts DEF Pushing, ThisCall, Waiting, Answered
<1>4. MadeInv'
  BY <1>1, <1>3 DEF IInv, MadeInv
<1>5. PortInv'
  BY <1>1, <1>3 DEF IInv, PortInv
<1>6. PlaceInv'
  BY <1>1, <1>3, CallFacts DEF IInv, PlaceInv
<1>7. OrderInv'
  <2>1. Ordered(coalBuf') /\ Ordered(flusher'.batch)
    BY <1>1, EmptyFacts DEF IInv, OrderInv
  <2>2. Before(flusher'.batch, coalBuf') /\ \A p \in Ports : Before(inbox'[p], coalBuf')
    BY <1>3 DEF Before
  <2> QED
    BY <2>1, <2>2, <1>1, <1>3, CallFacts DEF IInv, OrderInv
<1>8. FlushInv'
  BY <1>1 DEF IInv, FlushInv, Web
<1> QED
  BY <1>4, <1>5, <1>6, <1>7, <1>8 DEF IInv

\* A message that takes all of what waits for its port leaves what is owed to others.
LEMMA AnsweredMore ==
  ASSUME TypeOK, PortInv, OrderInv, NEW s \in Seq(Calls), NEW p \in Ports \cup {NoPort},
         PostBatch(p, s), s # <<>> => p = coalPort, Ordered(s),
         \A x \in Calls : Contains(s, x) => Waiting(x),
         \A q \in Ports : Before(inbox[q], s)
  PROVE  /\ \A q \in Ports : Ordered(inbox'[q])
         /\ \A q \in Ports : \A x \in Calls : Contains(inbox'[q], x) =>
              Contains(inbox[q], x) \/ (q = coalPort /\ Contains(s, x))
         /\ \A x \in Calls : Answered(x)' <=> Answered(x) \/ Contains(s, x)
<1>1. CASE s = <<>>
  <2>1. inbox' = inbox
    BY <1>1 DEF PostBatch
  <2>2. \A x : ~Contains(s, x)
    BY <1>1, EmptyFacts
  <2> QED
    BY <2>1, <2>2 DEF OrderInv, Answered
<1>2. CASE s # <<>>
  <2>1. PICK x \in Calls : Contains(s, x)
    BY <1>2, EmptyIfNothing
  <2>2. p = coalPort /\ p \in Ports
    BY <1>2, <2>1 DEF PortInv
  <2>3. inbox' = [inbox EXCEPT ![p] = inbox[p] \o s]
    BY <1>2, <2>2, CoalescerOK DEF PostBatch
  <2>4. /\ inbox'[p] = inbox[p] \o s /\ inbox[p] \in Seq(Calls)
        /\ \A q \in Ports : q # p => inbox'[q] = inbox[q]
    BY <2>2, <2>3 DEF TypeOK
  <2>5. /\ Ordered(inbox'[p])
        /\ \A y : Contains(inbox'[p], y) <=> Contains(inbox[p], y) \/ Contains(s, y)
    BY <2>2, <2>4, ConcatFacts DEF OrderInv
  <2> QED
    BY <2>2, <2>4, <2>5 DEF OrderInv, Answered
<1> QED
  BY <1>1, <1>2

\* The message is posted, in either build.
LEMMA PostStep ==
  ASSUME IInv, FlushPost \/ FlushWeb, TypeOK', UNCHANGED build
  PROVE  IInv'
<1> DEFINE s == IF Web THEN coalBuf ELSE flusher.batch
           p == IF Web THEN coalPort ELSE flusher.port
<1>1. /\ PostBatch(p, s) /\ flusher'.batch = <<>>
      /\ UNCHANGED <<coalPort, running, caller, portOf>>
      /\ s # <<>> => p = coalPort
      /\ Web => coalBuf' = <<>> /\ flusher'.pc = "gone" /\ flusher.batch = <<>>
      /\ ~Web => coalBuf' = coalBuf /\ flusher'.pc = "check"
      /\ scheduled' => Web
  BY DEF IInv, FlushInv, PortInv, FlushPost, FlushWeb, NoBatch
<1>2. /\ s \in Seq(Calls) /\ p \in Ports \cup {NoPort} /\ Ordered(s)
      /\ \A x \in Calls : Contains(s, x) => Waiting(x)
      /\ \A q \in Ports : Before(inbox[q], s)
  BY FlusherFacts DEF IInv, TypeOK, OrderInv, Waiting
<1>3. \A x : ~Contains(flusher'.batch, x)
  BY <1>1, EmptyFacts
<1>4. /\ \A q \in Ports : Ordered(inbox'[q])
      /\ \A q \in Ports : \A x \in Calls : Contains(inbox'[q], x) =>
           Contains(inbox[q], x) \/ (q = coalPort /\ Contains(s, x))
      /\ \A x \in Calls : Answered(x)' <=> Answered(x) \/ Contains(s, x)
  <2> HIDE DEF s, p
  <2> QED
    BY <1>1, <1>2, AnsweredMore DEF IInv
<1>5. \A x \in Calls : /\ Waiting(x) <=> Waiting(x)' \/ Contains(s, x)
                       /\ Contains(coalBuf', x) => Contains(coalBuf, x)
  BY <1>1, <1>3, EmptyFacts DEF Waiting
<1>6. \A d \in Callers : (Pushing(d)' <=> Pushing(d)) /\ ThisCall(d)' = ThisCall(d)
  BY <1>1 DEF Pushing, ThisCall
<1>7. \A x, y \in Calls : Contains(s, x) /\ Contains(coalBuf', y) /\ x[1] = y[1] => x[2] < y[2]
  BY <1>1, EmptyFacts DEF IInv, OrderInv, Before
<1> HIDE DEF s, p
<1>8. MadeInv'
  BY <1>1, <1>6 DEF IInv, MadeInv
<1>9. PortInv'
  <2>1. \A x \in Calls : Waiting(x)' => portOf'[x] = coalPort' /\ portOf'[x] # NoPort
    BY <1>1, <1>5 DEF IInv, PortInv
  <2>2. \A q \in Ports : \A x \in Calls : Contains(inbox'[q], x) => portOf'[x] = q
    BY <1>1, <1>2, <1>4 DEF IInv, PortInv
  <2> QED
    BY <2>1, <2>2, <1>1, <1>6 DEF IInv, PortInv
<1>10. PlaceInv'
  BY <1>1, <1>4, <1>5, <1>6, CallFacts DEF IInv, PlaceInv
<1>11. OrderInv'
  <2>1. Ordered(coalBuf') /\ Ordered(flusher'.batch)
    BY <1>1, EmptyFacts DEF IInv, OrderInv
  <2>2. /\ Before(flusher'.batch, coalBuf')
        /\ \A q \in Ports : Before(inbox'[q], flusher'.batch)
    BY <1>3 DEF Before
  <2>3. \A q \in Ports : Before(inbox'[q], coalBuf')
    BY <1>4, <1>5, <1>7 DEF IInv, OrderInv, Before
  <2>4. \A x \in Calls : Pushing(x[1])' /\ x[2] = caller'[x[1]].calls =>
                           ~Waiting(x)' /\ ~Answered(x)'
    BY <1>1, <1>4, <1>5, <1>6, CallFacts DEF IInv, OrderInv
  <2> QED
    BY <2>1, <2>2, <2>3, <2>4, <1>4 DEF OrderInv
<1>12. FlushInv'
  BY <1>1 DEF IInv, FlushInv, Web
<1> QED
  BY <1>8, <1>9, <1>10, <1>11, <1>12 DEF IInv

\* The initial states.
LEMMA InitInv == Init => IInv
<1> SUFFICES ASSUME Init PROVE IInv
  OBVIOUS
<1>1. /\ coalBuf = <<>> /\ flusher.batch = <<>> /\ coalPort = NoPort
      /\ \A c \in Callers : caller[c].pc = "idle" /\ caller[c].calls = 0
      /\ \A x \in Calls : portOf[x] = NoPort
      /\ \A q \in Ports : inbox[q] = <<>>
      /\ flusher.pc = IF Web THEN "gone" ELSE "check"
      /\ running = TRUE /\ scheduled = FALSE
  BY DEF Init, NoBatch
<1>2. /\ \A x : ~Waiting(x) /\ \A q \in Ports : ~Contains(inbox[q], x)
      /\ \A c \in Callers : ~Pushing(c)
  BY <1>1, EmptyFacts DEF Waiting, Pushing
<1>3. TypeOK
  <2>1. <<>> \in Seq(Calls) /\ 0 \in 0 .. MaxCalls
    BY CoalescerOK
  <2> QED
    BY <2>1 DEF Init, TypeOK, NoBatch
<1>4. MadeInv
  BY <1>1, <1>2, CallFacts DEF MadeInv
<1>5. PortInv
  BY <1>1, <1>2 DEF PortInv
<1>6. PlaceInv
  BY <1>1 DEF PlaceInv
<1>7. OrderInv
  BY <1>1, <1>2, CallFacts, EmptyFacts DEF OrderInv, Before, Answered
<1>8. FlushInv
  BY <1>1 DEF FlushInv
<1> QED
  BY <1>3, <1>4, <1>5, <1>6, <1>7, <1>8 DEF IInv

\* Every step keeps the inductive invariant.
LEMMA InvStep ==
  ASSUME IInv, [Next]_vars
  PROVE  IInv'
<1>1. TypeOK'
  BY TypeStep DEF IInv
<1>2. CASE UNCHANGED vars
  BY <1>2 DEF vars, IInv, TypeOK, MadeInv, PortInv, PlaceInv, OrderInv, FlushInv, Waiting,
              Answered, Pushing, ThisCall, Web
<1>3. CASE Next
  BY <1>1, <1>3, StorePortStep, PushStep, NotifyStep, FlusherStep, FlushTakeStep, PostStep
     DEF Next, CallerStep, FlushStep
<1> QED
  BY <1>2, <1>3

\* The inductive invariant holds in every behaviour.
LEMMA Invariant == Spec => []IInv
<1>1. IInv /\ [Next]_vars => IInv'
  BY InvStep
<1> QED
  BY InitInv, <1>1, PTL DEF Spec

-----------------------------------------------------------------------------
(***************************************************************************)
(* The buffer, the batch, the flags and the answers are what the code      *)
(* takes them for.                                                         *)
(***************************************************************************)
THEOREM TypeCorrect == Spec => []TypeOK
<1>1. IInv => TypeOK
  BY DEF IInv
<1> QED
  BY <1>1, Invariant, PTL

(***************************************************************************)
(* submitCoalesced and the flush: a call is answered at most once and on   *)
(* the port it was made with, although port, buffer and batch are read at  *)
(* three times; for any number of callers, calls and coalescers.           *)
(***************************************************************************)
THEOREM AnsweredCorrect == Spec => []AnsweredOnceOnOwnPort
<1>1. IInv => AnsweredOnceOnOwnPort
  <2>1. SUFFICES ASSUME IInv, NEW p \in Ports, NEW k \in DOMAIN inbox[p]
                 PROVE  /\ portOf[inbox[p][k]] = p
                        /\ \A m \in 1 .. k - 1 : inbox[p][m] # inbox[p][k]
    BY DEF AnsweredOnceOnOwnPort
  <2>2. inbox[p] \in Seq(Calls) /\ k \in 1 .. Len(inbox[p]) /\ inbox[p][k] \in Calls
    BY <2>1 DEF IInv, TypeOK
  <2>3. Contains(inbox[p], inbox[p][k])
    BY <2>2 DEF Contains
  <2>4. portOf[inbox[p][k]] = p
    BY <2>1, <2>2, <2>3 DEF IInv, PortInv
  <2>5. Ordered(inbox[p]) /\ ~(inbox[p][k][2] < inbox[p][k][2])
    BY <2>1, <2>2, CallFacts DEF IInv, OrderInv
  <2>6. \A m \in 1 .. k - 1 : inbox[p][m] # inbox[p][k]
    BY <2>2, <2>5 DEF Ordered
  <2> QED
    BY <2>4, <2>6
<1> QED
  BY <1>1, Invariant, PTL

(***************************************************************************)
(* The answers to one caller come in the order of its calls, whichever     *)
(* bursts they were in.                                                    *)
(***************************************************************************)
THEOREM OrderCorrect == Spec => []AnsweredInOrder
<1>1. IInv => AnsweredInOrder
  <2>1. SUFFICES ASSUME IInv, NEW p \in Ports PROVE
          \A k \in DOMAIN inbox[p] : \A m \in 1 .. k - 1 :
            inbox[p][m][1] = inbox[p][k][1] => inbox[p][m][2] < inbox[p][k][2]
    BY DEF AnsweredInOrder
  <2>2. inbox[p] \in Seq(Calls) /\ Ordered(inbox[p])
    BY <2>1 DEF IInv, TypeOK, OrderInv
  <2> QED
    BY <2>2 DEF Ordered
<1> QED
  BY <1>1, Invariant, PTL

(***************************************************************************)
(* The destructor joins a flush thread that ended with nothing left: every *)
(* call made before it is answered.                                        *)
(***************************************************************************)
THEOREM ShutdownCorrect == Spec => []ShutdownDrains
<1>1. IInv => ShutdownDrains
  <2>1. SUFFICES ASSUME IInv, ~Web, flusher.pc = "gone", NEW x \in Calls, portOf[x] # NoPort
                 PROVE  Answered(x)
    BY DEF ShutdownDrains, Made
  <2>2. coalBuf = <<>> /\ flusher.batch = <<>> /\ \A c \in Callers : ~Pushing(c)
    BY <2>1 DEF IInv, FlushInv, Pushing
  <2>3. ~Waiting(x)
    BY <2>2, EmptyFacts DEF Waiting
  <2> QED
    BY <2>1, <2>2, <2>3, CallFacts DEF IInv, PlaceInv
<1> QED
  BY <1>1, Invariant, PTL

=============================================================================
