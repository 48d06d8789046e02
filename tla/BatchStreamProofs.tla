--------------------------- MODULE BatchStreamProofs ---------------------------
(***************************************************************************)
(* Proofs about BatchStream for any number of ranges, subscriptions and    *)
(* items and for the three kinds of sender: what of a superseded range     *)
(* still arrives, and in which order a range reaches its subscribers.      *)
(***************************************************************************)
EXTENDS BatchStream, WellFoundedInduction, TLAPS

\* The items of each range in s are in order, and none is there twice.
InOrder(s) ==
  \A k \in 1 .. Len(s) : \A m \in 1 .. k - 1 : s[m][1] = s[k][1] => s[m][2] < s[k][2]

\* What came out of the channel for s: received, or held by its collector.
Holds(s, x) == collector[s].pc = "hold" /\ collector[s].held = x
Taken(s, x) == Contains(received[s], x) \/ Holds(s, x)

\* What the sender of x's range is done with, as far as s is concerned.
SentTo(s, x) ==
  LET t == sender[x[1]] IN
  x[2] < t.next \/ (x[2] = t.next /\ t.pc = "post" /\ s \notin t.to)

\* A range has no sender before it is configured; what its thread can do, and
\* who is known to have heard of it.
SenderInv ==
  /\ \A r \in Ranges : r > gen \/ (r = gen /\ draining) => sender[r] = NotStarted
  /\ \A r \in Ranges : sender[r].pc \in {"emit", "post"} =>
       ~Buffered /\ sender[r].next <= Count
  /\ \A r \in Ranges : sender[r].pc = "launched" => Buffered /\ sender[r].next = 1
  /\ \A r \in Ranges : Buffered /\ sender[r].pc = "check" => sender[r].next <= Count
  /\ draining => Buffered /\ gen >= 1
  /\ ~Buffered => \A s \in Subs : collector[s].pc = "none"
  /\ \A s \in Subs : collector[s].pc = "hold" => collector[s].held \in Items
  /\ \A r \in Ranges : \A s \in heard[r] : sub[s] # "new"

\* The generation is looked at between any two items.
StaleInv ==
  style = "generation" =>
    \A r \in Ranges, s \in Subs :
      /\ stale[r][s] <= 1
      /\ r >= gen \/ sender[r].pc = "emit" => stale[r][s] = 0
      /\ sender[r].pc = "post" /\ s \in sender[r].to => stale[r][s] = 0

\* Without a channel: what arrived was sent, and what was sent to an open port arrived.
PlainInv ==
  ~Buffered => \A s \in Subs : \A x \in Items :
    /\ Contains(received[s], x) => SentTo(s, x)
    /\ SentTo(s, x) /\ s \in heard[x[1]] /\ s \in Open => Contains(received[s], x)

\* With one: received, held, in the channel, to be sent - in this order.
ChannelInv ==
  Buffered =>
    /\ InOrder(channel)
    /\ \A x \in Items : Contains(channel, x) => x[2] < sender[x[1]].next
    /\ \A s \in Subs : \A x, y \in Items :
         /\ Taken(s, x) => x[2] < sender[x[1]].next
         /\ Taken(s, x) /\ Contains(channel, y) /\ x[1] = y[1] => x[2] < y[2]
         /\ Contains(received[s], x) /\ Holds(s, y) /\ x[1] = y[1] => x[2] < y[2]
    /\ \A s, t \in Subs : \A x \in Items : s # t => ~(Taken(s, x) /\ Taken(t, x))

\* A subscriber sees the items of a range in order and, if it heard of it, all up to one.
ReceivedInv ==
  \A s \in Subs :
    /\ InOrder(received[s])
    /\ ~Buffered => \A x \in Items :
         Contains(received[s], x) /\ s \in heard[x[1]] /\ x[2] > 1 =>
           Contains(received[s], <<x[1], x[2] - 1>>)

IInv == TypeOK /\ SenderInv /\ StaleInv /\ PlainInv /\ ChannelInv /\ ReceivedInv

-----------------------------------------------------------------------------
\* An item is a range with a number.
LEMMA ItemFacts ==
  \A x \in Items : /\ x[1] \in Ranges /\ x[2] \in 1 .. Count
                   /\ x = <<x[1], x[2]>> /\ x[2] \in Nat
  BY StreamOK DEF Items

\* A set of numbers has a least one: the oldest port of a snapshot.
LEMMA MinFacts ==
  ASSUME NEW T \in SUBSET Nat, T # {}
  PROVE  Min(T) \in T
<1> DEFINE R == OpToRel(<, Nat)
<1>1. IsWellFoundedOn(R, Nat)
  BY NatLessThanWellFounded
<1>2. \A x, y \in Nat : <<x, y>> \in R <=> x < y
  BY DEF OpToRel
<1> HIDE DEF R
<1>3. PICK x \in T : \A y \in T : ~(<<y, x>> \in R)
  BY <1>1, WFMin
<1>4. \A y \in T : x <= y
  <2> TAKE y \in T
  <2>1. x \in Nat /\ y \in Nat /\ ~(<<y, x>> \in R)
    BY <1>3
  <2>2. ~(y < x)
    BY <1>2, <2>1
  <2> QED
    BY <2>1, <2>2
<1> QED
  BY <1>4 DEF Min

\* What one more item does to a sequence of items.
LEMMA AppendFacts ==
  ASSUME NEW s \in Seq(Items), NEW e \in Items
  PROVE  /\ Append(s, e) \in Seq(Items)
         /\ \A x : Contains(Append(s, e), x) <=> Contains(s, x) \/ x = e
         /\ InOrder(s) /\ (\A x \in Items : Contains(s, x) /\ x[1] = e[1] => x[2] < e[2])
              => InOrder(Append(s, e))
<1>1. /\ Len(s) \in Nat /\ Len(Append(s, e)) = Len(s) + 1 /\ Append(s, e)[Len(s) + 1] = e
      /\ \A k \in 1 .. Len(s) : Append(s, e)[k] = s[k] /\ s[k] \in Items
  OBVIOUS
<1>2. \A k \in 1 .. Len(s) + 1 : k \in 1 .. Len(s) \/ k = Len(s) + 1
  BY <1>1
<1>3. /\ \A k \in 1 .. Len(s) : k \in 1 .. Len(s) + 1
      /\ Len(s) + 1 \in 1 .. Len(s) + 1
  BY <1>1
<1>4. \A x : Contains(Append(s, e), x) <=> Contains(s, x) \/ x = e
  BY <1>1, <1>2, <1>3 DEF Contains
<1>5. ASSUME InOrder(s), \A x \in Items : Contains(s, x) /\ x[1] = e[1] => x[2] < e[2],
             NEW k \in 1 .. Len(s) + 1, NEW m \in 1 .. k - 1,
             Append(s, e)[m][1] = Append(s, e)[k][1]
      PROVE  Append(s, e)[m][2] < Append(s, e)[k][2]
  <2>1. m \in 1 .. Len(s)
    BY <1>1
  <2>2. CASE k \in 1 .. Len(s)
    BY <1>1, <1>5, <2>1, <2>2 DEF InOrder
  <2>3. CASE k = Len(s) + 1
    <3>1. Contains(s, s[m])
      BY <2>1 DEF Contains
    <3> QED
      BY <1>1, <1>5, <2>1, <2>3, <3>1
  <2> QED
    BY <1>2, <2>2, <2>3
<1> QED
  BY <1>1, <1>4, <1>5 DEF InOrder

\* What the first item and the others of a sequence are.
LEMMA TailFacts ==
  ASSUME NEW s \in Seq(Items), s # <<>>
  PROVE  /\ Head(s) \in Items /\ Tail(s) \in Seq(Items)
         /\ \A x : Contains(s, x) <=> x = Head(s) \/ Contains(Tail(s), x)
         /\ InOrder(s) => InOrder(Tail(s))
         /\ InOrder(s) => \A x \in Items :
              Contains(Tail(s), x) /\ x[1] = Head(s)[1] => Head(s)[2] < x[2]
<1>1. /\ Len(s) \in Nat /\ Len(s) >= 1 /\ Len(Tail(s)) = Len(s) - 1
      /\ Head(s) = s[1] /\ Head(s) \in Items /\ Tail(s) \in Seq(Items)
      /\ \A k \in 1 .. Len(s) - 1 : Tail(s)[k] = s[k + 1]
  OBVIOUS
<1>2. /\ 1 \in 1 .. Len(s)
      /\ \A k \in 1 .. Len(s) - 1 : k + 1 \in 1 .. Len(s) /\ 1 \in 1 .. (k + 1) - 1
      /\ \A k \in 1 .. Len(s) : k = 1 \/ (k - 1 \in 1 .. Len(s) - 1 /\ (k - 1) + 1 = k)
  BY <1>1
<1>3. ASSUME NEW x PROVE Contains(s, x) <=> x = Head(s) \/ Contains(Tail(s), x)
  <2>1. x = Head(s) \/ Contains(Tail(s), x) => Contains(s, x)
    BY <1>1, <1>2 DEF Contains
  <2>2. ASSUME Contains(s, x), x # Head(s) PROVE Contains(Tail(s), x)
    <3>1. PICK k \in 1 .. Len(s) : s[k] = x
      BY <2>2 DEF Contains
    <3>2. k - 1 \in 1 .. Len(s) - 1 /\ Tail(s)[k - 1] = x
      BY <1>1, <1>2, <2>2, <3>1
    <3> QED
      BY <1>1, <3>2 DEF Contains
  <2> QED
    BY <2>1, <2>2
<1>4. ASSUME InOrder(s) PROVE InOrder(Tail(s))
  <2>1. SUFFICES ASSUME NEW k \in 1 .. Len(s) - 1, NEW m \in 1 .. k - 1,
                        Tail(s)[m][1] = Tail(s)[k][1]
                 PROVE  Tail(s)[m][2] < Tail(s)[k][2]
    BY <1>1 DEF InOrder
  <2>2. m \in 1 .. Len(s) - 1 /\ m + 1 \in 1 .. (k + 1) - 1
    BY <1>1
  <2>3. Tail(s)[k] = s[k + 1] /\ Tail(s)[m] = s[m + 1] /\ k + 1 \in 1 .. Len(s)
    BY <1>1, <1>2, <2>2
  <2> QED
    BY <1>4, <2>1, <2>2, <2>3 DEF InOrder
<1>5. ASSUME InOrder(s), NEW x \in Items, Contains(Tail(s), x), x[1] = Head(s)[1]
      PROVE  Head(s)[2] < x[2]
  <2>1. PICK k \in 1 .. Len(s) - 1 : Tail(s)[k] = x
    BY <1>1, <1>5 DEF Contains
  <2> QED
    BY <1>1, <1>2, <1>5, <2>1 DEF InOrder
<1> QED
  BY <1>1, <1>3, <1>4, <1>5

-----------------------------------------------------------------------------
\* What the post of an item to a port does.
LEMMA ArrivesFacts ==
  ASSUME TypeOK, NEW s \in Subs, NEW item \in Items, Arrives(s, item)
  PROVE  /\ received' \in [Subs -> Seq(Items)] /\ stale' \in [Ranges -> [Subs -> Nat]]
         /\ \A t \in Subs : t # s => received'[t] = received[t]
         /\ \A x : Contains(received'[s], x) <=>
                     Contains(received[s], x) \/ (s \in Open /\ x = item)
         /\ InOrder(received[s]) /\ (\A x \in Items :
              Contains(received[s], x) /\ x[1] = item[1] => x[2] < item[2])
              => InOrder(received'[s])
         /\ \A r \in Ranges, t \in Subs :
              \/ stale'[r][t] = stale[r][t]
              \/ r = item[1] /\ t = s /\ stale'[r][t] = stale[r][t] + 1 /\ Superseded(r)
<1>1. received[s] \in Seq(Items) /\ item[1] \in Ranges
  BY ItemFacts DEF TypeOK
<1>2. CASE s \notin Open
  BY <1>2 DEF Arrives, TypeOK
<1>3. CASE s \in Open
  <2>1. /\ received' = [received EXCEPT ![s] = Append(received[s], item)]
        /\ stale' = IF Superseded(item[1])
                    THEN [stale EXCEPT ![item[1]][s] = @ + 1] ELSE stale
    BY <1>3 DEF Arrives
  <2>2. /\ received' \in [Subs -> Seq(Items)] /\ received'[s] = Append(received[s], item)
        /\ \A t \in Subs : t # s => received'[t] = received[t]
    BY <1>1, <2>1, AppendFacts DEF TypeOK
  <2>3. stale' \in [Ranges -> [Subs -> Nat]]
    BY <1>1, <2>1 DEF TypeOK
  <2>4. \A r \in Ranges, t \in Subs :
          \/ stale'[r][t] = stale[r][t]
          \/ r = item[1] /\ t = s /\ stale'[r][t] = stale[r][t] + 1 /\ Superseded(r)
    BY <1>1, <2>1 DEF TypeOK
  <2>5. /\ \A x : Contains(received'[s], x) <=> Contains(received[s], x) \/ x = item
        /\ InOrder(received[s]) /\ (\A x \in Items :
             Contains(received[s], x) /\ x[1] = item[1] => x[2] < item[2])
             => InOrder(received'[s])
    BY <1>1, <2>2, AppendFacts
  <2> QED
    BY <1>3, <2>2, <2>3, <2>4, <2>5
<1> QED
  BY <1>2, <1>3

\* What the actions make of the record of a sender.
LEMMA SendingSteps ==
  ASSUME NEW t \in Sending
  PROVE  /\ \A c \in {"launched", "check", "emit", "done"} : [t EXCEPT !.pc = c] \in Sending
         /\ [t EXCEPT !.pc = "post", !.to = Open] \in Sending
         /\ \A s : [t EXCEPT !.to = @ \ {s}] \in Sending
         /\ t.next <= Count =>
              /\ [pc |-> "check", next |-> t.next + 1, to |-> {}] \in Sending
              /\ \A c \in {"check", "done"} :
                   [t EXCEPT !.next = t.next + 1, !.pc = c] \in Sending
<1>1. t.next \in 1 .. Count + 1 /\ t.to \in SUBSET Subs
  BY DEF Sending
<1>2. t.next <= Count => t.next + 1 \in 1 .. Count + 1
  BY <1>1, StreamOK
<1>3. Open \in SUBSET Subs
  BY DEF Open
<1> QED
  BY <1>1, <1>2, <1>3 DEF Sending

\* What the actions make of the record of a collector.
LEMMA CollectingSteps ==
  ASSUME NEW c \in Collecting
  PROVE  /\ \A p \in {"collect", "wait", "gone"} : [c EXCEPT !.pc = p] \in Collecting
         /\ \A x \in Items : [pc |-> "hold", held |-> x] \in Collecting
         /\ [pc |-> "collect", held |-> <<>>] \in Collecting
  BY DEF Collecting

\* The item a sender is at is an item.
LEMMA NextFacts ==
  ASSUME TypeOK, NEW r \in Ranges, sender[r].next <= Count
  PROVE  <<r, sender[r].next>> \in Items
  BY StreamOK DEF TypeOK, Sending, Items

\* The type of senders is kept by a step of one.
LEMMA SenderType ==
  ASSUME TypeOK, NEW r \in Ranges, NEW t \in Sending, sender' = [sender EXCEPT ![r] = t]
  PROVE  sender' \in [Ranges -> Sending]
  BY DEF TypeOK

\* The types are inductive, given what is known of the senders.
LEMMA TypeStep ==
  ASSUME TypeOK, SenderInv, [Next]_vars
  PROVE  TypeOK'
<1> USE DEF TypeOK
<1>0. Open \in SUBSET Subs
  BY DEF Open
<1>1. ASSUME NEW s \in Subs, Listen(s), UNCHANGED style PROVE TypeOK'
  BY <1>1, CollectingSteps DEF Listen
<1>2. ASSUME NEW s \in Subs, Unlisten(s), UNCHANGED style PROVE TypeOK'
  BY <1>2, CollectingSteps DEF Unlisten
<1>3. ASSUME NEW r \in Ranges, Launch(r)
      PROVE  sender' \in [Ranges -> Sending] /\ heard' \in [Ranges -> SUBSET Subs]
  <2>1. sender[r] \in Sending
    OBVIOUS
  <2>2. sender' = [sender EXCEPT ![r] = [sender[r] EXCEPT !.pc =
                     IF Buffered THEN "launched" ELSE "check"]]
    BY <1>3 DEF Launch
  <2> QED
    BY <1>0, <1>3, <2>1, <2>2, SendingSteps, SenderType DEF Launch
<1>4. ASSUME Configure, UNCHANGED style PROVE TypeOK'
  <2>1. gen + 1 \in Ranges /\ gen + 1 \in 0 .. MaxConfigs
    BY <1>4, StreamOK DEF Configure, Ranges
  <2> QED
    BY <1>3, <1>4, <2>1 DEF Configure
<1>5. ASSUME CancelJob, UNCHANGED style PROVE TypeOK'
  <2>1. gen + 1 \in 0 .. MaxConfigs
    BY <1>5, StreamOK DEF CancelJob
  <2> QED
    BY <1>5, <2>1 DEF CancelJob
<1>6. ASSUME Drain, UNCHANGED style PROVE TypeOK'
  BY <1>6, TailFacts DEF Drain
<1>7. ASSUME LaunchJob, UNCHANGED style PROVE TypeOK'
  <2>1. gen \in Ranges
    BY <1>7, StreamOK DEF LaunchJob, SenderInv, Ranges
  <2> QED
    BY <1>3, <1>7, <2>1 DEF LaunchJob
<1>8. ASSUME NEW r \in Ranges, Check(r), UNCHANGED style PROVE TypeOK'
  <2>1. sender' = [sender EXCEPT ![r] =
                     [sender[r] EXCEPT !.pc = IF Ends(r) THEN "done" ELSE "emit"]]
    BY <1>8 DEF Check
  <2>2. sender' \in [Ranges -> Sending]
    BY <2>1, SendingSteps, SenderType
  <2> QED
    BY <1>8, <2>2 DEF Check
<1>9. ASSUME NEW r \in Ranges, Snapshot(r), UNCHANGED style PROVE TypeOK'
  <2>1. sender' = [sender EXCEPT ![r] = [sender[r] EXCEPT !.pc = "post", !.to = Open]]
    BY <1>9 DEF Snapshot
  <2>2. sender' \in [Ranges -> Sending]
    BY <2>1, SendingSteps, SenderType
  <2> QED
    BY <1>9, <2>2 DEF Snapshot
<1>10. ASSUME NEW r \in Ranges, Post(r), UNCHANGED style PROVE TypeOK'
  <2>1. sender[r].next <= Count /\ sender[r] \in Sending
    BY <1>10 DEF Post, SenderInv
  <2>2. CASE sender[r].to = {}
    <3>1. sender' = [sender EXCEPT ![r] =
                       [pc |-> "check", next |-> sender[r].next + 1, to |-> {}]]
      BY <1>10, <2>2 DEF Post, NextItem
    <3>2. sender' \in [Ranges -> Sending]
      BY <2>1, <3>1, SendingSteps, SenderType
    <3> QED
      BY <1>10, <2>2, <3>2 DEF Post
  <2>3. CASE sender[r].to # {}
    <3> DEFINE s == Min(sender[r].to)
    <3>1. s \in Subs
      <4>1. sender[r].to \in SUBSET Subs /\ sender[r].to \in SUBSET Nat
        BY <2>1, StreamOK DEF Sending, Subs
      <4>2. s \in sender[r].to
        BY <2>3, <4>1, MinFacts
      <4> QED
        BY <4>1, <4>2
    <3>2. /\ Arrives(s, <<r, sender[r].next>>)
          /\ sender' = [sender EXCEPT ![r] = [sender[r] EXCEPT !.to = @ \ {s}]]
      BY <1>10, <2>3 DEF Post
    <3>3. sender' \in [Ranges -> Sending]
      BY <2>1, <3>2, SendingSteps, SenderType
    <3>4. received' \in [Subs -> Seq(Items)] /\ stale' \in [Ranges -> [Subs -> Nat]]
      BY <2>1, <3>1, <3>2, NextFacts, ArrivesFacts
    <3> QED
      BY <1>10, <3>3, <3>4 DEF Post
  <2> QED
    BY <2>2, <2>3
<1>11. ASSUME NEW r \in Ranges, Dispatch(r), UNCHANGED style PROVE TypeOK'
  <2>1. sender' = [sender EXCEPT ![r] =
                     [sender[r] EXCEPT !.pc = IF gen = r THEN "check" ELSE "done"]]
    BY <1>11 DEF Dispatch
  <2>2. sender' \in [Ranges -> Sending]
    BY <2>1, SendingSteps, SenderType
  <2> QED
    BY <1>11, <2>2 DEF Dispatch
<1>12. ASSUME NEW r \in Ranges, Send(r), UNCHANGED style PROVE TypeOK'
  <2>1. sender[r].next <= Count /\ sender[r] \in Sending
    BY <1>12 DEF Send, SenderInv
  <2>2. sender' = [sender EXCEPT ![r] = [sender[r] EXCEPT !.next = sender[r].next + 1,
                     !.pc = IF sender[r].next = Count THEN "done" ELSE "check"]]
    BY <1>12, <2>1 DEF Send
  <2>3. sender' \in [Ranges -> Sending]
    BY <2>1, <2>2, SendingSteps, SenderType
  <2>4. channel' \in Seq(Items)
    BY <1>12, <2>1, NextFacts, AppendFacts DEF Send
  <2> QED
    BY <1>12, <2>3, <2>4 DEF Send
<1>13. ASSUME NEW s \in Subs, Collect(s), UNCHANGED style PROVE TypeOK'
  BY <1>13, TailFacts, CollectingSteps DEF Collect
<1>14. ASSUME NEW s \in Subs, Deliver(s), UNCHANGED style PROVE TypeOK'
  <2>1. collector[s].held \in Items
    BY <1>14 DEF Deliver, SenderInv
  <2>2. received' \in [Subs -> Seq(Items)] /\ stale' \in [Ranges -> [Subs -> Nat]]
    BY <1>14, <2>1, ArrivesFacts DEF Deliver
  <2> QED
    BY <1>14, <2>2, CollectingSteps DEF Deliver
<1>15. ASSUME NEW s \in Subs, CollectorWaits(s), UNCHANGED style PROVE TypeOK'
  BY <1>15, CollectingSteps DEF CollectorWaits
<1>16. CASE UNCHANGED vars
  BY <1>16 DEF vars
<1> QED
  BY <1>1, <1>2, <1>4, <1>5, <1>6, <1>7, <1>8, <1>9, <1>10, <1>11, <1>12, <1>13, <1>14,
     <1>15, <1>16 DEF Next, SenderStep, CollectorStep

\* Steps of the isolate and the collectors that neither deliver nor launch.
LEMMA QuietStep ==
  ASSUME IInv, TypeOK', SenderInv', UNCHANGED <<style, sender, received, stale, heard>>,
         Buffered \/ gen' = gen,
         Buffered \/ \A r \in Ranges : \A s \in heard[r] : s \in Open' => s \in Open,
         Buffered => InOrder(channel') /\ \A x : Contains(channel', x) => Contains(channel, x),
         \A s \in Subs : \A x : Holds(s, x)' => Holds(s, x)
  PROVE  IInv'
<1>1. \A s \in Subs : \A x : Taken(s, x)' => Taken(s, x)
  BY DEF Taken
<1>2. (Buffered' <=> Buffered) /\ (style' = style)
  BY DEF Buffered
<1>3. StaleInv'
  BY DEF IInv, StaleInv, Buffered
<1>4. PlainInv'
  <2>1. SUFFICES ASSUME ~Buffered, NEW s \in Subs, NEW x \in Items
                 PROVE  /\ Contains(received[s], x) => SentTo(s, x)
                        /\ SentTo(s, x) /\ s \in heard[x[1]] /\ s \in Open' =>
                             Contains(received[s], x)
    BY <1>2 DEF PlainInv, SentTo
  <2>2. s \in heard[x[1]] /\ s \in Open' => s \in Open
    BY <2>1, ItemFacts
  <2> QED
    BY <2>1, <2>2 DEF IInv, PlainInv
<1>5. ChannelInv'
  <2>1. SUFFICES ASSUME Buffered PROVE ChannelInv'
    BY <1>2 DEF ChannelInv
  <2>2. InOrder(channel') /\ \A x \in Items : Contains(channel', x) => x[2] < sender'[x[1]].next
    BY <2>1 DEF IInv, ChannelInv
  <2>3. \A s \in Subs : \A x, y \in Items :
          /\ Taken(s, x)' => x[2] < sender'[x[1]].next
          /\ Taken(s, x)' /\ Contains(channel', y) /\ x[1] = y[1] => x[2] < y[2]
    BY <1>1, <2>1 DEF IInv, ChannelInv
  <2>4. \A s \in Subs : \A x, y \in Items :
          Contains(received'[s], x) /\ Holds(s, y)' /\ x[1] = y[1] => x[2] < y[2]
    BY <2>1 DEF IInv, ChannelInv
  <2>5. \A s, t \in Subs : \A x \in Items : s # t => ~(Taken(s, x)' /\ Taken(t, x)')
    BY <1>1, <2>1 DEF IInv, ChannelInv
  <2> QED
    BY <2>2, <2>3, <2>4, <2>5 DEF ChannelInv
<1>6. ReceivedInv'
  BY <1>2 DEF IInv, ReceivedInv
<1> QED
  BY <1>3, <1>4, <1>5, <1>6 DEF IInv

\* The isolate opens a port.
LEMMA ListenStep ==
  ASSUME IInv, NEW s \in Subs, Listen(s), UNCHANGED style, TypeOK'
  PROVE  IInv'
<1>1. /\ sub[s] = "new" /\ sub'[s] # "new"
      /\ \A t \in Subs : t # s => sub'[t] = sub[t]
      /\ UNCHANGED <<gen, draining, sender, channel, received, stale, heard, style>>
  BY DEF IInv, TypeOK, Listen
<1>2. /\ Buffered => collector'[s].pc = "collect"
      /\ ~Buffered => collector' = collector
      /\ \A t \in Subs : t # s => collector'[t] = collector[t]
  BY DEF IInv, TypeOK, Listen, Collecting
<1>3. SenderInv'
  BY <1>1, <1>2 DEF IInv, SenderInv, Buffered, TypeOK
<1>4. \A t \in Subs : \A x : Holds(t, x)' => Holds(t, x)
  BY <1>2 DEF Holds
<1>5. \A r \in Ranges : \A t \in heard[r] : t \in Open' => t \in Open
  BY <1>1 DEF IInv, SenderInv, Open
<1> QED
  BY <1>1, <1>3, <1>4, <1>5, QuietStep DEF IInv, ChannelInv

\* The isolate releases and closes one.
LEMMA UnlistenStep ==
  ASSUME IInv, NEW s \in Subs, Unlisten(s), UNCHANGED style, TypeOK'
  PROVE  IInv'
<1>1. /\ sub[s] = "open" /\ sub'[s] = "closed"
      /\ \A t \in Subs : t # s => sub'[t] = sub[t]
      /\ UNCHANGED <<gen, draining, sender, channel, received, stale, heard, style>>
  BY DEF IInv, TypeOK, Unlisten
<1>2. /\ collector'[s].pc = collector[s].pc \/ (collector[s].pc = "wait" /\ collector'[s].pc = "gone")
      /\ collector'[s].held = collector[s].held
      /\ \A t \in Subs : t # s => collector'[t] = collector[t]
  BY DEF IInv, TypeOK, Unlisten, Collecting
<1>3. SenderInv'
  BY <1>1, <1>2 DEF IInv, SenderInv, Buffered, TypeOK
<1>4. \A t \in Subs : \A x : Holds(t, x)' => Holds(t, x)
  BY <1>2 DEF Holds
<1>5. \A r \in Ranges : \A t \in heard[r] : t \in Open' => t \in Open
  BY <1>1 DEF Open
<1> QED
  BY <1>1, <1>3, <1>4, <1>5, QuietStep DEF IInv, ChannelInv

\* A collector finds the channel empty.
LEMMA CollectorWaitsStep ==
  ASSUME IInv, NEW s \in Subs, CollectorWaits(s), UNCHANGED style, TypeOK'
  PROVE  IInv'
<1>1. /\ UNCHANGED <<gen, draining, sender, channel, received, stale, heard, style>>
      /\ \A t \in Subs : sub'[t] = sub[t] \/ sub'[t] = "open"
      /\ collector[s].pc = "collect" /\ collector'[s].pc \in {"wait", "gone"}
      /\ \A t \in Subs : t # s => collector'[t] = collector[t]
  BY DEF IInv, TypeOK, CollectorWaits, Collecting
<1>2. Buffered
  BY <1>1 DEF IInv, SenderInv
<1>3. SenderInv'
  BY <1>1, <1>2 DEF IInv, SenderInv, Buffered, TypeOK
<1>4. \A t \in Subs : \A x : Holds(t, x)' => Holds(t, x)
  BY <1>1 DEF Holds
<1> QED
  BY <1>1, <1>2, <1>3, <1>4, QuietStep DEF IInv, ChannelInv

\* Kotlin's configure cancels the job that ran ...
LEMMA CancelJobStep ==
  ASSUME IInv, CancelJob, UNCHANGED style, TypeOK'
  PROVE  IInv'
<1>1. /\ UNCHANGED <<sender, sub, collector, channel, received, stale, heard, style>>
      /\ gen' = gen + 1 /\ draining' = TRUE /\ Buffered /\ ~draining
  BY DEF CancelJob, IsolateFree
<1>2. \A r \in Ranges : r > gen' \/ r = gen' => r > gen
  BY <1>1, StreamOK DEF IInv, TypeOK, Ranges
<1>3. gen' >= 1
  BY <1>1 DEF IInv, TypeOK
<1>4. SenderInv'
  BY <1>1, <1>2, <1>3 DEF IInv, SenderInv, Buffered
<1>5. \A t \in Subs : \A x : Holds(t, x)' => Holds(t, x)
  BY <1>1 DEF Holds
<1> QED
  BY <1>1, <1>4, <1>5, QuietStep DEF IInv, ChannelInv

\* ... and empties the channel.
LEMMA DrainStep ==
  ASSUME IInv, Drain, UNCHANGED style, TypeOK'
  PROVE  IInv'
<1>1. /\ UNCHANGED <<gen, draining, sender, sub, collector, received, stale, heard, style>>
      /\ draining /\ channel # <<>> /\ channel' = Tail(channel) /\ channel \in Seq(Items)
  BY DEF IInv, TypeOK, Drain
<1>2. SenderInv'
  BY <1>1 DEF IInv, SenderInv, Buffered
<1>3. Buffered /\ InOrder(channel)
  BY <1>1 DEF IInv, SenderInv, ChannelInv
<1>4. InOrder(channel') /\ \A x : Contains(channel', x) => Contains(channel, x)
  BY <1>1, <1>3, TailFacts
<1>5. \A t \in Subs : \A x : Holds(t, x)' => Holds(t, x)
  BY <1>1 DEF Holds
<1> QED
  BY <1>1, <1>2, <1>3, <1>4, <1>5, QuietStep

\* Steps of the isolate and the senders that nothing arrives by.
LEMMA SilentStep ==
  ASSUME IInv, TypeOK', SenderInv', StaleInv',
         UNCHANGED <<style, sub, collector, channel, received>>,
         Buffered => \A r \in Ranges : sender'[r].next = sender[r].next,
         ~Buffered => \A s \in Subs : \A x \in Items :
           /\ SentTo(s, x) => SentTo(s, x)'
           /\ SentTo(s, x)' /\ s \in Open => SentTo(s, x)
           /\ SentTo(s, x) => heard'[x[1]] = heard[x[1]]
  PROVE  IInv'
<1>1. (Buffered' <=> Buffered) /\ \A s : s \in Open' <=> s \in Open
  BY DEF Buffered, Open
<1>2. PlainInv'
  BY <1>1 DEF IInv, PlainInv
<1>3. ChannelInv'
  BY <1>1, ItemFacts DEF IInv, ChannelInv, Taken, Holds
<1>4. ReceivedInv'
  <2>1. SUFFICES ASSUME NEW s \in Subs, NEW x \in Items, ~Buffered,
                        Contains(received[s], x), s \in heard'[x[1]], x[2] > 1
                 PROVE  Contains(received[s], <<x[1], x[2] - 1>>)
    BY <1>1 DEF IInv, ReceivedInv
  <2>2. s \in heard[x[1]]
    BY <2>1 DEF IInv, PlainInv
  <2> QED
    BY <2>1, <2>2 DEF IInv, ReceivedInv
<1> QED
  BY <1>2, <1>3, <1>4 DEF IInv

\* A range that has no sender gets one.
LEMMA LaunchFacts ==
  ASSUME TypeOK, NEW r \in Ranges, sender[r] = NotStarted, Launch(r)
  PROVE  /\ sender'[r].pc = IF Buffered THEN "launched" ELSE "check"
         /\ sender[r].pc = "none" /\ sender[r].next = 1 /\ sender'[r].next = 1
         /\ \A q \in Ranges : q # r => sender'[q] = sender[q] /\ heard'[q] = heard[q]
         /\ \A s \in Subs : \A x \in Items :
              /\ SentTo(s, x)' <=> SentTo(s, x)
              /\ SentTo(s, x) => x[1] # r
         /\ heard'[r] = Open
<1>1. /\ sender[r] \in Sending /\ sender[r].pc = "none" /\ sender[r].next = 1
      /\ sender' = [sender EXCEPT ![r] = [sender[r] EXCEPT
                      !.pc = IF Buffered THEN "launched" ELSE "check"]]
  <2>1. sender[r] \in Sending
    BY DEF TypeOK
  <2>2. sender[r].pc = "none" /\ sender[r].next = 1
    BY DEF NotStarted
  <2>3. sender' = [sender EXCEPT ![r] = [sender[r] EXCEPT
                      !.pc = IF Buffered THEN "launched" ELSE "check"]]
    BY DEF Launch
  <2> QED
    BY <2>1, <2>2, <2>3
<1>2. /\ sender'[r].pc = IF Buffered THEN "launched" ELSE "check"
      /\ sender'[r].next = 1
      /\ \A q \in Ranges : q # r => sender'[q] = sender[q]
  BY <1>1 DEF TypeOK, Sending
<1>3. heard'[r] = Open /\ \A q \in Ranges : q # r => heard'[q] = heard[q]
  BY DEF TypeOK, Launch
<1>4. \A x \in Items : x[1] \in Ranges /\ ~(x[2] < 1)
  BY ItemFacts, StreamOK
<1>5. sender'[r].pc # "post"
  BY <1>2
<1>6. ASSUME NEW s \in Subs, NEW x \in Items
      PROVE  (SentTo(s, x)' <=> SentTo(s, x)) /\ (SentTo(s, x) => x[1] # r)
  <2>1. CASE x[1] = r
    BY <1>1, <1>2, <1>4, <1>5, <2>1 DEF SentTo
  <2>2. CASE x[1] # r
    BY <1>2, <1>4, <2>2 DEF SentTo
  <2> QED
    BY <2>1, <2>2
<1> QED
  BY <1>1, <1>2, <1>3, <1>6

\* C++: configure moves on to the next generation and starts its thread.
LEMMA ConfigureStep ==
  ASSUME IInv, Configure, UNCHANGED style, TypeOK'
  PROVE  IInv'
<1> DEFINE r == gen + 1
<1>1. /\ r = gen + 1 /\ r \in Ranges /\ ~draining /\ ~Buffered /\ gen' = r /\ Launch(r)
      /\ UNCHANGED <<style, draining, sub, collector, channel, received, stale>>
      /\ \A q \in Ranges : /\ q > r => q > gen
                           /\ q >= r => q >= gen
                           /\ q # r /\ q >= r => q > gen
  BY StreamOK DEF IInv, TypeOK, Configure, IsolateFree, Ranges
<1> HIDE DEF r
<1>2. sender[r] = NotStarted
  <2>1. r > gen
    BY <1>1 DEF IInv, TypeOK
  <2> QED
    BY <1>1, <2>1 DEF IInv, SenderInv
<1>3. /\ sender'[r].pc = "check" /\ heard'[r] = Open
      /\ \A q \in Ranges : q # r => sender'[q] = sender[q] /\ heard'[q] = heard[q]
      /\ \A s \in Subs : \A x \in Items :
           (SentTo(s, x)' <=> SentTo(s, x)) /\ (SentTo(s, x) => x[1] # r)
  BY <1>1, <1>2, LaunchFacts DEF IInv
<1>4. SenderInv'
  <2>1. \A q \in Ranges : q > r => sender'[q] = NotStarted
    <3>1. \A q \in Ranges : q > r => q # r
      BY <1>1 DEF IInv, TypeOK
    <3> QED
      BY <1>1, <1>3, <3>1 DEF IInv, SenderInv
  <2>2. \A q \in Ranges : \A s \in heard'[q] : sub[s] # "new"
    BY <1>3 DEF IInv, SenderInv, Open
  <2> QED
    BY <1>1, <1>3, <2>1, <2>2 DEF IInv, SenderInv, Buffered
<1>5. StaleInv'
  BY <1>1, <1>3 DEF IInv, StaleInv
<1> QED
  BY <1>1, <1>3, <1>4, <1>5, ItemFacts, SilentStep

\* Kotlin: the new job is launched once the channel is empty.
LEMMA LaunchJobStep ==
  ASSUME IInv, LaunchJob, UNCHANGED style, TypeOK'
  PROVE  IInv'
<1>1. /\ draining /\ ~draining' /\ Buffered /\ gen \in Ranges /\ Launch(gen)
      /\ UNCHANGED <<style, gen, sub, collector, channel, received, stale>>
  BY StreamOK DEF IInv, TypeOK, SenderInv, LaunchJob, Ranges
<1>2. sender[gen] = NotStarted /\ gen \in Nat
  BY <1>1, StreamOK DEF IInv, SenderInv, Ranges
<1>3. /\ sender'[gen].pc = "launched" /\ heard'[gen] = Open
      /\ sender'[gen].next = 1 /\ sender[gen].next = 1
      /\ \A q \in Ranges : q # gen => sender'[q] = sender[q] /\ heard'[q] = heard[q]
  BY <1>1, <1>2, LaunchFacts DEF IInv
<1>4. SenderInv'
  <2>1. \A q \in Ranges : q > gen => q # gen
    BY <1>2
  <2>2. \A q \in Ranges : \A s \in heard'[q] : sub[s] # "new"
    BY <1>3 DEF IInv, SenderInv, Open
  <2> QED
    BY <1>1, <1>3, <2>1, <2>2 DEF IInv, SenderInv, Buffered
<1>5. StaleInv'
  BY <1>1 DEF StaleInv, Buffered
<1> QED
  BY <1>1, <1>3, <1>4, <1>5, SilentStep

\* The head of a sender's loop.
LEMMA CheckStep ==
  ASSUME IInv, NEW r \in Ranges, Check(r), UNCHANGED style, TypeOK'
  PROVE  IInv'
<1>1. /\ ~Buffered /\ sender[r].pc = "check" /\ sender[r] \in Sending
      /\ sender' = [sender EXCEPT ![r] =
                      [sender[r] EXCEPT !.pc = IF Ends(r) THEN "done" ELSE "emit"]]
      /\ UNCHANGED <<style, gen, draining, sub, collector, channel, received, stale, heard>>
  BY DEF IInv, TypeOK, Check
<1>2. /\ sender'[r].pc = IF Ends(r) THEN "done" ELSE "emit"
      /\ sender'[r].next = sender[r].next
      /\ \A q \in Ranges : q # r => sender'[q] = sender[q]
  BY <1>1 DEF IInv, TypeOK, Sending
<1>3. /\ ~Ends(r) => sender[r].next <= Count /\ (style = "generation" => gen = r)
      /\ sender[r] # NotStarted
  BY <1>1, StreamOK DEF Ends, Sending, NotStarted
<1>4. SenderInv'
  BY <1>1, <1>2, <1>3 DEF IInv, SenderInv, Buffered
<1>5. StaleInv'
  <2>1. style = "generation" /\ sender'[r].pc = "emit" => gen = r /\ gen \in Nat
    BY <1>2, <1>3, StreamOK DEF IInv, TypeOK
  <2> QED
    BY <1>1, <1>2, <2>1 DEF IInv, StaleInv
<1>6. \A s \in Subs : \A x \in Items : SentTo(s, x)' <=> SentTo(s, x)
  BY <1>1, <1>2, ItemFacts DEF SentTo
<1> QED
  BY <1>1, <1>4, <1>5, <1>6, SilentStep

\* A coroutine is dispatched.
LEMMA DispatchStep ==
  ASSUME IInv, NEW r \in Ranges, Dispatch(r), UNCHANGED style, TypeOK'
  PROVE  IInv'
<1>1. /\ sender[r].pc = "launched" /\ sender[r] \in Sending
      /\ sender' = [sender EXCEPT ![r] =
                      [sender[r] EXCEPT !.pc = IF gen = r THEN "check" ELSE "done"]]
      /\ UNCHANGED <<style, gen, draining, sub, collector, channel, received, stale, heard>>
  BY DEF IInv, TypeOK, Dispatch
<1>2. /\ sender'[r].pc \in {"check", "done"} /\ sender'[r].next = sender[r].next
      /\ \A q \in Ranges : q # r => sender'[q] = sender[q]
  BY <1>1 DEF IInv, TypeOK, Sending
<1>3. Buffered /\ sender[r].next = 1 /\ 1 <= Count /\ sender[r] # NotStarted
  BY <1>1, StreamOK DEF IInv, SenderInv, NotStarted
<1>4. SenderInv'
  BY <1>1, <1>2, <1>3 DEF IInv, SenderInv, Buffered
<1>5. StaleInv'
  BY <1>1, <1>3 DEF StaleInv, Buffered
<1> QED
  BY <1>1, <1>2, <1>3, <1>4, <1>5, SilentStep

\* A sender copies the ports.
LEMMA SnapshotStep ==
  ASSUME IInv, NEW r \in Ranges, Snapshot(r), UNCHANGED style, TypeOK'
  PROVE  IInv'
<1>1. /\ sender[r].pc = "emit" /\ sender[r] \in Sending
      /\ sender' = [sender EXCEPT ![r] = [sender[r] EXCEPT !.pc = "post", !.to = Open]]
      /\ UNCHANGED <<style, gen, draining, sub, collector, channel, received, stale, heard>>
  BY DEF IInv, TypeOK, Snapshot
<1>2. /\ sender'[r].pc = "post" /\ sender'[r].next = sender[r].next /\ sender'[r].to = Open
      /\ \A q \in Ranges : q # r => sender'[q] = sender[q]
  BY <1>1 DEF IInv, TypeOK, Sending
<1>3. ~Buffered /\ sender[r].next <= Count /\ sender[r] # NotStarted
  BY <1>1 DEF IInv, SenderInv, NotStarted
<1>4. SenderInv'
  BY <1>1, <1>2, <1>3 DEF IInv, SenderInv, Buffered
<1>5. StaleInv'
  BY <1>1, <1>2 DEF IInv, StaleInv
<1>6. \A s \in Subs : \A x \in Items : /\ SentTo(s, x) => SentTo(s, x)'
                                       /\ SentTo(s, x)' /\ s \in Open => SentTo(s, x)
  BY <1>1, <1>2, ItemFacts DEF SentTo
<1> QED
  BY <1>1, <1>3, <1>4, <1>5, <1>6, SilentStep

\* A sender has posted to all the ports it copied.
LEMMA NextItemStep ==
  ASSUME IInv, NEW r \in Ranges, Post(r), sender[r].to = {}, UNCHANGED style, TypeOK'
  PROVE  IInv'
<1>1. /\ sender[r].pc = "post" /\ sender[r] \in Sending /\ sender[r].to = {}
      /\ sender' = [sender EXCEPT ![r] =
                      [pc |-> "check", next |-> sender[r].next + 1, to |-> {}]]
      /\ UNCHANGED <<style, gen, draining, sub, collector, channel, received, stale, heard>>
  BY DEF IInv, TypeOK, Post, NextItem
<1>2. /\ sender'[r].pc = "check" /\ sender'[r].next = sender[r].next + 1
      /\ sender[r].next \in Nat
      /\ \A q \in Ranges : q # r => sender'[q] = sender[q]
  BY <1>1, StreamOK DEF IInv, TypeOK, Sending
<1>3. ~Buffered /\ sender[r] # NotStarted
  BY <1>1 DEF IInv, SenderInv, NotStarted
<1>4. SenderInv'
  BY <1>1, <1>2, <1>3 DEF IInv, SenderInv, Buffered
<1>5. StaleInv'
  BY <1>1, <1>2 DEF IInv, StaleInv
<1>6. ASSUME NEW s \in Subs, NEW x \in Items PROVE SentTo(s, x)' <=> SentTo(s, x)
  <2>1. CASE x[1] = r
    <3>1. x[2] < sender[r].next + 1 <=> x[2] < sender[r].next \/ x[2] = sender[r].next
      BY <1>2, ItemFacts
    <3> QED
      BY <1>1, <1>2, <2>1, <3>1 DEF SentTo
  <2>2. CASE x[1] # r
    BY <1>2, <2>2, ItemFacts DEF SentTo
  <2> QED
    BY <2>1, <2>2
<1> QED
  BY <1>1, <1>3, <1>4, <1>5, <1>6, SilentStep

\* A sender posts an item to the next port.
LEMMA PostStep ==
  ASSUME IInv, NEW r \in Ranges, Post(r), sender[r].to # {}, UNCHANGED style, TypeOK'
  PROVE  IInv'
<1> DEFINE p == Min(sender[r].to)
           e == <<r, sender[r].next>>
<1>1. /\ sender[r].pc = "post" /\ sender[r] \in Sending
      /\ sender' = [sender EXCEPT ![r] = [sender[r] EXCEPT !.to = @ \ {p}]]
      /\ Arrives(p, e)
      /\ UNCHANGED <<style, gen, draining, sub, collector, channel, heard>>
  BY DEF IInv, TypeOK, Post
<1>2. p \in Subs /\ p \in sender[r].to
  <2>1. sender[r].to \in SUBSET Subs /\ sender[r].to \in SUBSET Nat
    BY <1>1, StreamOK DEF Sending, Subs
  <2>2. p \in sender[r].to
    BY <2>1, MinFacts
  <2> QED
    BY <2>1, <2>2
<1>3. ~Buffered /\ sender[r].next <= Count /\ sender[r] # NotStarted
  BY <1>1 DEF IInv, SenderInv, NotStarted
<1>4. e \in Items /\ e[1] = r /\ e[2] = sender[r].next
  BY <1>3, NextFacts DEF IInv
<1> HIDE DEF p, e
<1>5. /\ \A t \in Subs : t # p => received'[t] = received[t]
      /\ \A x : Contains(received'[p], x) <=> Contains(received[p], x) \/ (p \in Open /\ x = e)
      /\ InOrder(received[p]) /\ (\A x \in Items :
           Contains(received[p], x) /\ x[1] = r => x[2] < e[2]) => InOrder(received'[p])
      /\ \A q \in Ranges, t \in Subs :
           \/ stale'[q][t] = stale[q][t]
           \/ q = r /\ t = p /\ stale'[q][t] = stale[q][t] + 1 /\ Superseded(q)
  <2>1. TypeOK
    BY DEF IInv
  <2>2. /\ \A t \in Subs : t # p => received'[t] = received[t]
        /\ \A x : Contains(received'[p], x) <=>
                    Contains(received[p], x) \/ (p \in Open /\ x = e)
    BY <1>1, <1>2, <1>4, <2>1, ArrivesFacts
  <2>3. InOrder(received[p]) /\ (\A x \in Items :
           Contains(received[p], x) /\ x[1] = e[1] => x[2] < e[2]) => InOrder(received'[p])
    BY <1>1, <1>2, <1>4, <2>1, ArrivesFacts
  <2>4. \A q \in Ranges, t \in Subs :
           \/ stale'[q][t] = stale[q][t]
           \/ q = e[1] /\ t = p /\ stale'[q][t] = stale[q][t] + 1 /\ Superseded(q)
    BY <1>1, <1>2, <1>4, <2>1, ArrivesFacts
  <2>5. e[1] = r
    BY <1>4
  <2> QED
    BY <2>2, <2>3, <2>4, <2>5
<1>6. /\ sender'[r].pc = "post" /\ sender'[r].next = sender[r].next
      /\ sender'[r].to = sender[r].to \ {p}
      /\ \A q \in Ranges : q # r => sender'[q] = sender[q]
  BY <1>1 DEF IInv, TypeOK, Sending
<1>7. SenderInv'
  BY <1>1, <1>3, <1>6 DEF IInv, SenderInv, Buffered
<1>8. StaleInv'
  <2>1. SUFFICES ASSUME style = "generation", NEW q \in Ranges, NEW t \in Subs
                 PROVE  /\ stale'[q][t] <= 1
                        /\ q >= gen \/ sender'[q].pc = "emit" => stale'[q][t] = 0
                        /\ sender'[q].pc = "post" /\ t \in sender'[q].to => stale'[q][t] = 0
    BY <1>1 DEF StaleInv
  <2>2. CASE stale'[q][t] = stale[q][t]
    <3>1. /\ sender'[q].pc = sender[q].pc
          /\ t \in sender'[q].to => t \in sender[q].to
      BY <1>1, <1>6
    <3> QED
      BY <2>1, <2>2, <3>1 DEF IInv, StaleInv
  <2>3. CASE stale'[q][t] # stale[q][t]
    <3>1. q = r /\ t = p /\ stale'[q][t] = stale[q][t] + 1 /\ q < gen
      BY <1>5, <2>3 DEF Superseded
    <3>2. stale[q][t] = 0
      BY <1>1, <1>2, <2>1, <3>1 DEF IInv, StaleInv
    <3>3. ~(q >= gen)
      BY <3>1, StreamOK DEF IInv, TypeOK, Ranges
    <3> QED
      BY <1>6, <3>1, <3>2, <3>3
  <2> QED
    BY <2>2, <2>3
<1>9. ASSUME NEW s \in Subs, NEW x \in Items
      PROVE  SentTo(s, x)' <=> SentTo(s, x) \/ (s = p /\ x = e)
  <2>1. CASE x[1] = r
    <3>1. x[2] = sender[r].next <=> x = e
      BY <1>4, <2>1, ItemFacts
    <3> QED
      BY <1>1, <1>6, <2>1, <3>1 DEF SentTo
  <2>2. CASE x[1] # r
    BY <1>4, <1>6, <2>2, ItemFacts DEF SentTo
  <2> QED
    BY <2>1, <2>2
<1>10. /\ (Buffered' <=> Buffered) /\ (\A s : s \in Open' <=> s \in Open)
       /\ ~SentTo(p, e)
  <2>1. ~(sender[r].next < sender[r].next)
    BY <1>1, StreamOK DEF Sending
  <2> QED
    BY <1>1, <1>2, <1>4, <2>1 DEF Buffered, Open, SentTo
<1>11. PlainInv'
  BY <1>1, <1>5, <1>9, <1>10 DEF IInv, PlainInv
<1>12. ChannelInv'
  BY <1>3, <1>10 DEF ChannelInv
<1>13. \A x \in Items : Contains(received[p], x) /\ x[1] = r => x[2] < e[2]
  <2> TAKE x \in Items
  <2>1. ASSUME Contains(received[p], x), x[1] = r PROVE x[2] < e[2]
    BY <1>1, <1>2, <1>3, <1>4, <2>1 DEF IInv, PlainInv, SentTo
  <2> QED
    BY <2>1
<1>14. ASSUME p \in heard[r], p \in Open, e[2] > 1
       PROVE  Contains(received[p], <<r, e[2] - 1>>)
  <2>1. <<r, e[2] - 1>> \in Items /\ e[2] - 1 < e[2]
    BY <1>4, <1>14, StreamOK DEF Items
  <2>2. SentTo(p, <<r, e[2] - 1>>)
    BY <1>4, <2>1 DEF SentTo
  <2> QED
    BY <1>2, <1>3, <1>14, <2>1, <2>2 DEF IInv, PlainInv
<1>15. ReceivedInv'
  <2>1. ASSUME NEW s \in Subs PROVE InOrder(received'[s])
    BY <1>5, <1>13 DEF IInv, ReceivedInv
  <2>2. ASSUME NEW s \in Subs, NEW x \in Items, Contains(received'[s], x),
               s \in heard[x[1]], x[2] > 1
        PROVE  Contains(received'[s], <<x[1], x[2] - 1>>)
    <3>1. CASE Contains(received[s], x)
      <4>1. Contains(received[s], <<x[1], x[2] - 1>>)
        BY <1>3, <2>2, <3>1 DEF IInv, ReceivedInv
      <4> QED
        BY <1>5, <4>1
    <3>2. CASE ~Contains(received[s], x)
      <4>1. s = p /\ x = e /\ p \in Open
        BY <1>5, <2>2, <3>2
      <4>2. Contains(received[p], <<r, e[2] - 1>>)
        BY <1>4, <1>14, <2>2, <4>1
      <4> QED
        BY <1>4, <1>5, <4>1, <4>2
    <3> QED
      BY <3>1, <3>2
  <2> QED
    BY <1>1, <2>1, <2>2 DEF ReceivedInv
<1> QED
  BY <1>7, <1>8, <1>11, <1>12, <1>15 DEF IInv

\* A coroutine puts its next item into the channel.
LEMMA SendStep ==
  ASSUME IInv, NEW r \in Ranges, Send(r), UNCHANGED style, TypeOK'
  PROVE  IInv'
<1> DEFINE e == <<r, sender[r].next>>
<1>1. /\ Buffered /\ sender[r].pc = "check" /\ sender[r] \in Sending /\ channel \in Seq(Items)
      /\ channel' = Append(channel, e)
      /\ sender' = [sender EXCEPT ![r] =
           [sender[r] EXCEPT !.next = @ + 1,
                             !.pc = IF sender[r].next = Count THEN "done" ELSE "check"]]
      /\ UNCHANGED <<style, gen, draining, sub, collector, received, stale, heard>>
  BY DEF IInv, TypeOK, Send
<1>2. /\ sender[r].next \in Nat /\ sender[r].next <= Count /\ Count \in Nat
      /\ sender[r] # NotStarted
  BY <1>1, StreamOK DEF IInv, SenderInv, NotStarted, Sending
<1>3. /\ sender'[r].pc = IF sender[r].next = Count THEN "done" ELSE "check"
      /\ sender'[r].next = sender[r].next + 1
      /\ \A q \in Ranges : q # r => sender'[q] = sender[q]
  BY <1>1 DEF IInv, TypeOK, Sending
<1>4. e \in Items /\ e[1] = r /\ e[2] = sender[r].next
  BY <1>2, NextFacts DEF IInv
<1> HIDE DEF e
<1>5. \A x \in Items : x[2] < sender[x[1]].next => x[2] < sender'[x[1]].next
  <2>1. SUFFICES ASSUME NEW x \in Items, x[2] < sender[x[1]].next
                 PROVE  x[2] < sender'[x[1]].next
    OBVIOUS
  <2>2. CASE x[1] = r
    BY <1>2, <1>3, <2>1, <2>2, ItemFacts
  <2>3. CASE x[1] # r
    BY <1>3, <2>1, <2>3, ItemFacts
  <2> QED
    BY <2>2, <2>3
<1>6. /\ \A x : Contains(channel', x) <=> Contains(channel, x) \/ x = e
      /\ InOrder(channel')
  <2>1. \A x \in Items : Contains(channel, x) /\ x[1] = e[1] => x[2] < e[2]
    BY <1>1, <1>4 DEF IInv, ChannelInv
  <2>2. InOrder(channel)
    BY <1>1 DEF IInv, ChannelInv
  <2> QED
    BY <1>1, <1>4, <2>1, <2>2, AppendFacts
<1>7. SenderInv'
  <2>1. sender[r].next # Count => sender[r].next + 1 <= Count
    BY <1>2
  <2> QED
    BY <1>1, <1>2, <1>3, <2>1 DEF IInv, SenderInv, Buffered
<1>8. StaleInv' /\ PlainInv'
  BY <1>1 DEF StaleInv, PlainInv, Buffered
<1>9. e[2] < sender'[e[1]].next
  BY <1>2, <1>3, <1>4
<1>10. \A s \in Subs : \A x \in Items : /\ Taken(s, x)' <=> Taken(s, x)
                                        /\ Holds(s, x)' <=> Holds(s, x)
  BY <1>1 DEF Taken, Holds
<1>11. ASSUME NEW s \in Subs, NEW x \in Items, Taken(s, x), x[1] = e[1]
       PROVE  x[2] < e[2]
  BY <1>1, <1>4, <1>11 DEF IInv, ChannelInv
<1>12. ChannelInv'
  <2>1. \A x \in Items : Contains(channel', x) => x[2] < sender'[x[1]].next
    BY <1>1, <1>5, <1>6, <1>9 DEF IInv, ChannelInv
  <2>2. \A s \in Subs : \A x, y \in Items :
          /\ Taken(s, x)' => x[2] < sender'[x[1]].next
          /\ Taken(s, x)' /\ Contains(channel', y) /\ x[1] = y[1] => x[2] < y[2]
          /\ Contains(received'[s], x) /\ Holds(s, y)' /\ x[1] = y[1] => x[2] < y[2]
    BY <1>1, <1>5, <1>6, <1>10, <1>11 DEF IInv, ChannelInv
  <2>3. \A s, t \in Subs : \A x \in Items : s # t => ~(Taken(s, x)' /\ Taken(t, x)')
    BY <1>1, <1>10 DEF IInv, ChannelInv
  <2> QED
    BY <1>6, <2>1, <2>2, <2>3 DEF ChannelInv
<1>13. ReceivedInv'
  BY <1>1 DEF IInv, ReceivedInv, Buffered
<1> QED
  BY <1>7, <1>8, <1>12, <1>13 DEF IInv

\* A collector takes the first item of the channel.
LEMMA CollectStep ==
  ASSUME IInv, NEW s \in Subs, Collect(s), UNCHANGED style, TypeOK'
  PROVE  IInv'
<1> DEFINE e == Head(channel)
<1>1. /\ collector[s].pc \in {"collect", "wait"}
      /\ channel \in Seq(Items) /\ channel # <<>> /\ channel' = Tail(channel)
      /\ collector'[s].pc = "hold" /\ collector'[s].held = e
      /\ \A t \in Subs : t # s => collector'[t] = collector[t]
      /\ UNCHANGED <<style, gen, draining, sender, sub, received, stale, heard>>
  BY DEF IInv, TypeOK, Collect
<1>2. Buffered /\ (Buffered' <=> Buffered)
  BY <1>1 DEF IInv, SenderInv, Buffered
<1>3. /\ e \in Items /\ \A x : Contains(channel, x) <=> x = e \/ Contains(channel', x)
      /\ InOrder(channel')
      /\ \A x \in Items : Contains(channel', x) /\ x[1] = e[1] => e[2] < x[2]
  <2>1. InOrder(channel)
    BY <1>2 DEF IInv, ChannelInv
  <2> QED
    BY <1>1, <2>1, TailFacts
<1> HIDE DEF e
<1>4. SenderInv'
  BY <1>1, <1>2, <1>3 DEF IInv, SenderInv
<1>5. StaleInv' /\ PlainInv'
  BY <1>1, <1>2 DEF StaleInv, PlainInv, Buffered
<1>6. ASSUME NEW t \in Subs, NEW x \in Items
      PROVE  /\ Holds(t, x)' => Holds(t, x) \/ (t = s /\ x = e)
             /\ Taken(t, x)' => Taken(t, x) \/ (t = s /\ x = e)
  BY <1>1 DEF Taken, Holds
<1>7. ASSUME NEW t \in Subs, NEW x \in Items, Taken(t, x), x[1] = e[1] PROVE x[2] < e[2]
  BY <1>2, <1>3, <1>7 DEF IInv, ChannelInv
<1>8. ~(e[2] < e[2]) /\ \A t \in Subs : ~Taken(t, e)
  <2>1. ~(e[2] < e[2])
    BY <1>3, ItemFacts
  <2> QED
    BY <1>3, <1>7, <2>1
<1>9. ChannelInv'
  <2>1. \A x \in Items : Contains(channel', x) => x[2] < sender'[x[1]].next
    BY <1>1, <1>2, <1>3 DEF IInv, ChannelInv
  <2>2. ASSUME NEW t \in Subs, NEW x \in Items, Taken(t, x)'
        PROVE  x[2] < sender'[x[1]].next
    BY <1>1, <1>2, <1>3, <1>6, <2>2 DEF IInv, ChannelInv
  <2>3. ASSUME NEW t \in Subs, NEW x \in Items, NEW y \in Items,
               Taken(t, x)', Contains(channel', y), x[1] = y[1]
        PROVE  x[2] < y[2]
    BY <1>2, <1>3, <1>6, <2>3 DEF IInv, ChannelInv
  <2>4. ASSUME NEW t \in Subs, NEW x \in Items, NEW y \in Items,
               Contains(received[t], x), Holds(t, y)', x[1] = y[1]
        PROVE  x[2] < y[2]
    <3>1. Taken(t, x)
      BY <2>4 DEF Taken
    <3> QED
      BY <1>2, <1>6, <1>7, <2>4, <3>1 DEF IInv, ChannelInv
  <2>5. ASSUME NEW t \in Subs, NEW u \in Subs, NEW x \in Items, t # u,
               Taken(t, x)', Taken(u, x)'
        PROVE  FALSE
    BY <1>2, <1>6, <1>8, <2>5 DEF IInv, ChannelInv
  <2> QED
    BY <1>1, <1>3, <2>1, <2>2, <2>3, <2>4, <2>5 DEF ChannelInv
<1>10. ReceivedInv'
  BY <1>1, <1>2 DEF IInv, ReceivedInv
<1> QED
  BY <1>4, <1>5, <1>9, <1>10 DEF IInv

\* A collector hands the item it holds to its port.
LEMMA DeliverStep ==
  ASSUME IInv, NEW s \in Subs, Deliver(s), UNCHANGED style, TypeOK'
  PROVE  IInv'
<1> DEFINE e == collector[s].held
<1>1. /\ collector[s].pc = "hold" /\ Arrives(s, e)
      /\ collector'[s].pc = "collect"
      /\ \A t \in Subs : t # s => collector'[t] = collector[t]
      /\ UNCHANGED <<style, gen, draining, sender, sub, channel, heard>>
  BY DEF IInv, TypeOK, Deliver
<1>2. e \in Items /\ Buffered /\ (Buffered' <=> Buffered)
  BY <1>1 DEF IInv, SenderInv, Buffered
<1>3. Holds(s, e) /\ Taken(s, e)
  BY <1>1 DEF Holds, Taken
<1> HIDE DEF e
<1>4. /\ \A t \in Subs : t # s => received'[t] = received[t]
      /\ \A x : Contains(received'[s], x) <=> Contains(received[s], x) \/ (s \in Open /\ x = e)
      /\ InOrder(received[s]) /\ (\A x \in Items :
           Contains(received[s], x) /\ x[1] = e[1] => x[2] < e[2]) => InOrder(received'[s])
  <2>1. TypeOK
    BY DEF IInv
  <2> QED
    BY <1>1, <1>2, <2>1, ArrivesFacts
<1>5. SenderInv'
  BY <1>1, <1>2 DEF IInv, SenderInv
<1>6. StaleInv' /\ PlainInv'
  BY <1>2 DEF StaleInv, PlainInv, Buffered
<1>7. ASSUME NEW t \in Subs, NEW x \in Items
      PROVE  /\ Holds(t, x)' => Holds(t, x) /\ t # s
             /\ Contains(received'[t], x) => Taken(t, x)
             /\ t # s => received'[t] = received[t]
  BY <1>1, <1>3, <1>4 DEF Taken, Holds
<1>8. \A t \in Subs : \A x \in Items : Taken(t, x)' => Taken(t, x)
  BY <1>7 DEF Taken
<1>9. ChannelInv'
  <2>1. ASSUME NEW t \in Subs, NEW x \in Items, NEW y \in Items,
               Contains(received'[t], x), Holds(t, y)', x[1] = y[1]
        PROVE  x[2] < y[2]
    BY <1>2, <1>7, <2>1 DEF IInv, ChannelInv
  <2> QED
    BY <1>1, <1>2, <1>8, <2>1 DEF IInv, ChannelInv
<1>10. \A x \in Items : Contains(received[s], x) /\ x[1] = e[1] => x[2] < e[2]
  BY <1>2, <1>3 DEF IInv, ChannelInv
<1>11. ReceivedInv'
  <2>1. ASSUME NEW t \in Subs PROVE InOrder(received'[t])
    BY <1>4, <1>10 DEF IInv, ReceivedInv
  <2> QED
    BY <1>2, <2>1 DEF ReceivedInv
<1> QED
  BY <1>5, <1>6, <1>9, <1>11 DEF IInv

-----------------------------------------------------------------------------
\* Nothing has been sent when no range is configured.
LEMMA InitInv == Init => IInv
<1> SUFFICES ASSUME Init PROVE IInv
  OBVIOUS
<1>1. TypeOK
  <2>1. NotStarted \in Sending
    BY StreamOK DEF NotStarted, Sending
  <2>2. NoCollector \in Collecting
    BY DEF NoCollector, Collecting
  <2>3. gen \in 0 .. MaxConfigs
    BY StreamOK DEF Init
  <2>4. received \in [Subs -> Seq(Items)] /\ channel \in Seq(Items)
    BY DEF Init
  <2> QED
    BY <2>1, <2>2, <2>3, <2>4 DEF Init, TypeOK
<1>2. /\ \A r \in Ranges : sender[r] = NotStarted /\ heard[r] = {}
      /\ \A s \in Subs : received[s] = <<>> /\ collector[s].pc = "none"
      /\ \A r \in Ranges, s \in Subs : stale[r][s] = 0
      /\ channel = <<>> /\ draining = FALSE
  BY DEF Init, NoCollector
<1>3. NotStarted.pc = "none" /\ NotStarted.next = 1
  BY DEF NotStarted
<1>4. \A x : ~Contains(<<>>, x)
  BY DEF Contains
<1>5. InOrder(<<>>)
  BY DEF InOrder
<1>6. \A s \in Subs : \A x \in Items : ~SentTo(s, x) /\ ~Taken(s, x)
  <2>1. SUFFICES ASSUME NEW s \in Subs, NEW x \in Items
                 PROVE  ~SentTo(s, x) /\ ~Taken(s, x)
    OBVIOUS
  <2>2. x[1] \in Ranges /\ ~(x[2] < 1)
    BY ItemFacts
  <2> QED
    BY <1>2, <1>3, <1>4, <2>2 DEF SentTo, Taken, Holds
<1>7. SenderInv
  BY <1>2, <1>3 DEF SenderInv
<1>8. StaleInv
  BY <1>2, <1>3 DEF StaleInv
<1>9. PlainInv
  BY <1>2, <1>4, <1>6 DEF PlainInv
<1>10. ChannelInv
  BY <1>2, <1>4, <1>5, <1>6 DEF ChannelInv
<1>11. ReceivedInv
  BY <1>2, <1>4, <1>5 DEF ReceivedInv
<1> QED
  BY <1>1, <1>7, <1>8, <1>9, <1>10, <1>11 DEF IInv

\* Every step keeps the invariant.
LEMMA InvStep == IInv /\ [Next]_vars => IInv'
<1> SUFFICES ASSUME IInv, [Next]_vars PROVE IInv'
  OBVIOUS
<1>1. TypeOK'
  BY TypeStep DEF IInv
<1>2. CASE UNCHANGED vars
  <2>1. UNCHANGED <<style, gen, draining, sender, sub, collector, channel, received, stale, heard>>
    BY <1>2 DEF vars
  <2>2. SenderInv'
    BY <2>1 DEF IInv, SenderInv, Buffered
  <2>3. StaleInv' /\ PlainInv'
    BY <2>1 DEF IInv, StaleInv, PlainInv, Buffered, SentTo, Open
  <2>4. ChannelInv' /\ ReceivedInv'
    BY <2>1 DEF IInv, ChannelInv, ReceivedInv, Buffered, Taken, Holds
  <2> QED
    BY <1>1, <2>2, <2>3, <2>4 DEF IInv
<1>3. CASE Next
  <2>1. UNCHANGED style
    BY <1>3 DEF Next
  <2>2. CASE Configure
    BY <1>1, <2>1, <2>2, ConfigureStep
  <2>3. CASE CancelJob
    BY <1>1, <2>1, <2>3, CancelJobStep
  <2>4. CASE Drain
    BY <1>1, <2>1, <2>4, DrainStep
  <2>5. CASE LaunchJob
    BY <1>1, <2>1, <2>5, LaunchJobStep
  <2>6. ASSUME NEW s \in Subs, Listen(s) \/ Unlisten(s) \/ CollectorStep(s) PROVE IInv'
    <3>1. CASE Listen(s)
      BY <1>1, <2>1, <3>1, ListenStep
    <3>2. CASE Unlisten(s)
      BY <1>1, <2>1, <3>2, UnlistenStep
    <3>3. CASE Collect(s)
      BY <1>1, <2>1, <3>3, CollectStep
    <3>4. CASE Deliver(s)
      BY <1>1, <2>1, <3>4, DeliverStep
    <3>5. CASE CollectorWaits(s)
      BY <1>1, <2>1, <3>5, CollectorWaitsStep
    <3> QED
      BY <2>6, <3>1, <3>2, <3>3, <3>4, <3>5 DEF CollectorStep
  <2>7. ASSUME NEW r \in Ranges, SenderStep(r) PROVE IInv'
    <3>1. CASE Check(r)
      BY <1>1, <2>1, <3>1, CheckStep
    <3>2. CASE Snapshot(r)
      BY <1>1, <2>1, <3>2, SnapshotStep
    <3>3. CASE Post(r) /\ sender[r].to = {}
      BY <1>1, <2>1, <3>3, NextItemStep
    <3>4. CASE Post(r) /\ sender[r].to # {}
      BY <1>1, <2>1, <3>4, PostStep
    <3>5. CASE Dispatch(r)
      BY <1>1, <2>1, <3>5, DispatchStep
    <3>6. CASE Send(r)
      BY <1>1, <2>1, <3>6, SendStep
    <3> QED
      BY <2>7, <3>1, <3>2, <3>3, <3>4, <3>5, <3>6 DEF SenderStep
  <2> QED
    BY <1>3, <2>2, <2>3, <2>4, <2>5, <2>6, <2>7 DEF Next
<1> QED
  BY <1>2, <1>3

\* The invariant holds of every state that is reached.
LEMMA Invariant == Spec => []IInv
BY InitInv, InvStep, PTL DEF Spec

\* The state has its shape: a sender's item is never past its range, and a
\* collector holds nothing or an item of the channel.
THEOREM TypeCorrect == Spec => []TypeOK
<1>1. IInv => TypeOK
  BY DEF IInv
<1> QED
  BY <1>1, Invariant, PTL

\* Of a range whose configure was followed by another, at most one more item
\* comes to a subscriber, for however many ranges and subscribers.
THEOREM StaleCorrect == Spec => []AtMostOneStaleItem
<1>1. IInv => AtMostOneStaleItem
  BY DEF IInv, StaleInv, AtMostOneStaleItem
<1> QED
  BY <1>1, Invariant, PTL

\* What a subscriber gets of a range comes in order, without a gap if it was
\* there from the start, and through a channel to nobody else.
THEOREM RangeOrderCorrect == Spec => []InRangeOrder
<1>1. ASSUME IInv PROVE InRangeOrder
  <2>1. ASSUME NEW s \in Subs, NEW k \in DOMAIN received[s]
        PROVE  /\ received[s][k] \in Items /\ Contains(received[s], received[s][k])
               /\ k \in 1 .. Len(received[s])
    BY <1>1 DEF IInv, TypeOK, Contains
  <2>2. ASSUME NEW s \in Subs, NEW k \in DOMAIN received[s], NEW m \in 1 .. k - 1,
               received[s][m][1] = received[s][k][1]
        PROVE  received[s][m][2] < received[s][k][2]
    BY <1>1, <2>1, <2>2 DEF IInv, ReceivedInv, InOrder
  <2>3. ASSUME NEW s \in Subs, NEW k \in DOMAIN received[s], ~Buffered,
               s \in heard[received[s][k][1]], received[s][k][2] > 1
        PROVE  Contains(received[s], <<received[s][k][1], received[s][k][2] - 1>>)
    BY <1>1, <2>1, <2>3 DEF IInv, ReceivedInv
  <2>4. ASSUME Buffered, NEW s \in Subs, NEW t \in Subs, NEW x \in Items, s # t
        PROVE  ~(Contains(received[s], x) /\ Contains(received[t], x))
    BY <1>1, <2>4 DEF IInv, ChannelInv, Taken
  <2> QED
    BY <2>2, <2>3, <2>4 DEF InRangeOrder
<1> QED
  BY <1>1, Invariant, PTL

=============================================================================
