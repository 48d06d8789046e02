------------------------------ MODULE BatchStream ------------------------------
(***************************************************************************)
(* The streams of the implementation: a Dart isolate subscribes, asks for  *)
(* a range of items (configureBatchStream, configureStream), and a thread  *)
(* of its own emits them, while the isolate may cancel, subscribe again    *)
(* and configure again.  The code has three kinds of sender:               *)
(*   "plain"       emits its range to the ports registered for the stream  *)
(*                 (configureStream in HybridNitroTypeCoverage.cpp);       *)
(*   "generation"  looks first whether it was superseded (the batch        *)
(*                 streams there; the Swift ones do it with isCancelled);  *)
(*   "channel"     fills an unlimited channel that a collector per         *)
(*                 subscriber empties (the batch streams in Kotlin).       *)
(***************************************************************************)
EXTENDS Naturals, Sequences, FiniteSetsExt, SequencesExt

CONSTANTS
  MaxConfigs,   \* bound: calls of configure
  MaxSubs,      \* bound: subscriptions
  Count,        \* items in a range
  Styles        \* the kinds of sender

ASSUME StreamOK ==
  /\ {MaxConfigs, MaxSubs, Count} \subseteq Nat \ {0}
  /\ Styles \subseteq {"plain", "generation", "channel"}

Ranges == 1 .. MaxConfigs
Subs   == 1 .. MaxSubs
Items  == Ranges \X (1 .. Count)

VARIABLES
  style,      \* the kind of sender: which implementation this is
  gen,        \* _batchIntGen, or the number of the job in _batchIntJob
  draining,   \* the isolate is inside configure, emptying the channel
  sender,     \* per range: its thread
  sub,        \* per subscription: the port, registered from open to closed
  collector,  \* per subscription: the coroutine of _streamJobs
  channel,    \* _batchIntChannel
  received,   \* history: what the port of a subscription got
  stale,      \* history: of it, the items of a range superseded by then
  heard       \* history: the subscriptions open when a range was configured

vars == <<style, gen, draining, sender, sub, collector, channel, received, stale, heard>>

Buffered == style = "channel"

NotStarted == [pc |-> "none", next |-> 1, to |-> {}]
NoCollector == [pc |-> "none", held |-> <<>>]

\* A sender's thread or coroutine, and a collector.
Sending    == [pc : {"none", "launched", "check", "emit", "post", "done"},
               next : 1 .. Count + 1, to : SUBSET Subs]
Collecting == [pc : {"none", "collect", "wait", "hold", "gone"}, held : {<<>>} \cup Items]

TypeOK ==
  /\ style \in Styles
  /\ gen \in 0 .. MaxConfigs
  /\ draining \in BOOLEAN
  /\ sender \in [Ranges -> Sending]
  /\ sub \in [Subs -> {"new", "opening", "open", "closed"}]
  /\ collector \in [Subs -> Collecting]
  /\ channel \in Seq(Items)
  /\ received \in [Subs -> Seq(Items)]
  /\ stale \in [Ranges -> [Subs -> Nat]]
  /\ heard \in [Ranges -> SUBSET Subs]

Init ==
  /\ style \in Styles
  /\ gen = 0
  /\ draining = FALSE
  /\ sender = [r \in Ranges |-> NotStarted]
  /\ sub = [s \in Subs |-> "new"]
  /\ collector = [s \in Subs |-> NoCollector]
  /\ channel = <<>>
  /\ received = [s \in Subs |-> <<>>]
  /\ stale = [r \in Ranges |-> [s \in Subs |-> 0]]
  /\ heard = [r \in Ranges |-> {}]

-----------------------------------------------------------------------------
\* A range is superseded once a later configure has returned.
Superseded(r) == r < gen /\ ~draining
Open == {s \in Subs : sub[s] \in {"opening", "open"}}

\* The isolate is not inside configure or the registration of a port.
IsolateFree == ~draining /\ \A s \in Subs : sub[s] # "opening"

\* Dart_PostCObject_DL to the port of s: nothing arrives at a closed one.
Arrives(s, item) ==
  IF s \notin Open THEN UNCHANGED <<received, stale>> ELSE
  /\ received' = [received EXCEPT ![s] = Append(@, item)]
  /\ stale' = IF Superseded(item[1]) THEN [stale EXCEPT ![item[1]][s] = @ + 1] ELSE stale

\* The isolate: open a port and register it.  The Kotlin collector runs on the
\* isolate's thread (UNDISPATCHED) until it waits for the first time ...
Listen(s) ==
  /\ IsolateFree
  /\ sub[s] = "new" /\ \A t \in Subs : t < s => sub[t] # "new"
  /\ sub' = [sub EXCEPT ![s] = IF Buffered THEN "opening" ELSE "open"]
  /\ collector' = IF Buffered THEN [collector EXCEPT ![s].pc = "collect"] ELSE collector
  /\ UNCHANGED <<gen, draining, sender, channel, received, stale, heard>>

\* ... cancel: release the port and close it.  The collector is cancelled: one
\* that waits for an item ends, a running one is only told to stop.
Unlisten(s) ==
  /\ IsolateFree
  /\ sub[s] = "open"
  /\ sub' = [sub EXCEPT ![s] = "closed"]
  /\ collector' = IF collector[s].pc = "wait" THEN [collector EXCEPT ![s].pc = "gone"]
                  ELSE collector
  /\ UNCHANGED <<gen, draining, sender, channel, received, stale, heard>>

\* The new range has its sender.
Launch(r) ==
  /\ sender' = [sender EXCEPT ![r].pc = IF Buffered THEN "launched" ELSE "check"]
  /\ heard' = [heard EXCEPT ![r] = Open]

(* configureBatchStream: one step in C++, where it only moves on to a new  *)
(* generation; Kotlin cancels the job, empties the channel, then launches. *)
Configure ==
  /\ IsolateFree /\ ~Buffered
  /\ gen < MaxConfigs
  /\ gen' = gen + 1
  /\ Launch(gen + 1)
  /\ UNCHANGED <<draining, sub, collector, channel, received, stale>>

CancelJob ==
  /\ IsolateFree /\ Buffered
  /\ gen < MaxConfigs
  /\ gen' = gen + 1
  /\ draining' = TRUE
  /\ UNCHANGED <<sender, sub, collector, channel, received, stale, heard>>

Drain ==
  /\ draining
  /\ channel # <<>>
  /\ channel' = Tail(channel)
  /\ UNCHANGED <<gen, draining, sender, sub, collector, received, stale, heard>>

LaunchJob ==
  /\ draining
  /\ channel = <<>>
  /\ draining' = FALSE
  /\ Launch(gen)
  /\ UNCHANGED <<gen, sub, collector, channel, received, stale>>

-----------------------------------------------------------------------------
\* Mutant: the sender looks only once, before its first item.
EndsUnlessBegun(r) ==
  \/ sender[r].next > Count
  \/ style = "generation" /\ sender[r].next = 1 /\ gen # r

\* Mutant: one item too many.
EndsLate(r) == sender[r].next > Count + 1 \/ (style = "generation" /\ gen # r)

Ends(r) == sender[r].next > Count \/ (style = "generation" /\ gen # r)

(* The head of the sender's loop: stop at the end, or when superseded ...  *)
Check(r) ==
  /\ ~Buffered
  /\ sender[r].pc = "check"
  /\ sender' = [sender EXCEPT ![r].pc =
                  IF Ends(r) THEN "done" ELSE "emit"]
  /\ UNCHANGED <<gen, draining, sub, collector, channel, received, stale, heard>>

(* ... emit: the ports registered now, copied under their mutex ...        *)
Snapshot(r) ==
  /\ sender[r].pc = "emit"
  /\ sender' = [sender EXCEPT ![r].pc = "post", ![r].to = Open]
  /\ UNCHANGED <<gen, draining, sub, collector, channel, received, stale, heard>>

NextItem(r) ==
  sender' = [sender EXCEPT ![r] = [pc |-> "check", next |-> @.next + 1, to |-> {}]]

\* Mutant: leaves the loop over the ports after the first.
PostOnlyFirst(r) ==
  /\ sender[r].pc = "post"
  /\ NextItem(r)
  /\ IF sender[r].to = {} THEN UNCHANGED <<received, stale>>
     ELSE Arrives(Min(sender[r].to), <<r, sender[r].next>>)
  /\ UNCHANGED <<gen, draining, sub, collector, channel, heard>>

(* ... and each of them in turn, oldest first, outside the mutex.          *)
Post(r) ==
  /\ sender[r].pc = "post"
  /\ IF sender[r].to = {}
     THEN NextItem(r) /\ UNCHANGED <<received, stale>>
     ELSE LET s == Min(sender[r].to) IN
          /\ sender' = [sender EXCEPT ![r].to = @ \ {s}]
          /\ Arrives(s, <<r, sender[r].next>>)
  /\ UNCHANGED <<gen, draining, sub, collector, channel, heard>>

-----------------------------------------------------------------------------
(* The coroutine: a job cancelled before it was dispatched never runs ...  *)
Dispatch(r) ==
  /\ sender[r].pc = "launched"
  /\ sender' = [sender EXCEPT ![r].pc = IF gen = r THEN "check" ELSE "done"]
  /\ UNCHANGED <<gen, draining, sub, collector, channel, received, stale, heard>>

(* ... and send on an unlimited channel never suspends, so that one which  *)
(* runs does not notice the cancellation.                                  *)
Send(r) ==
  /\ Buffered
  /\ sender[r].pc = "check"
  /\ channel' = Append(channel, <<r, sender[r].next>>)
  /\ sender' = [sender EXCEPT ![r].next = @ + 1,
                              ![r].pc = IF sender[r].next = Count THEN "done" ELSE "check"]
  /\ UNCHANGED <<gen, draining, sub, collector, received, stale, heard>>

(* collect: take an item, cancelled or not; hand it to the port ...        *)
Collect(s) ==
  /\ collector[s].pc \in {"collect", "wait"}
  /\ channel # <<>>
  /\ channel' = Tail(channel)
  /\ collector' = [collector EXCEPT ![s] = [pc |-> "hold", held |-> Head(channel)]]
  /\ UNCHANGED <<gen, draining, sender, sub, received, stale, heard>>

Deliver(s) ==
  /\ collector[s].pc = "hold"
  /\ Arrives(s, collector[s].held)
  /\ collector' = [collector EXCEPT ![s] = [pc |-> "collect", held |-> <<>>]]
  /\ UNCHANGED <<gen, draining, sender, sub, channel, heard>>

(* ... and wait on an empty channel, where a cancellation is noticed.      *)
CollectorWaits(s) ==
  /\ collector[s].pc = "collect"
  /\ channel = <<>>
  /\ collector' = [collector EXCEPT ![s].pc = IF s \in Open THEN "wait" ELSE "gone"]
  /\ sub' = IF s \in Open THEN [sub EXCEPT ![s] = "open"] ELSE sub
  /\ UNCHANGED <<gen, draining, sender, channel, received, stale, heard>>

-----------------------------------------------------------------------------
SenderStep(r) == Check(r) \/ Snapshot(r) \/ Post(r) \/ Dispatch(r) \/ Send(r)
CollectorStep(s) == Collect(s) \/ Deliver(s) \/ CollectorWaits(s)

Next ==
  /\ \/ Configure \/ CancelJob \/ Drain \/ LaunchJob
     \/ \E s \in Subs : Listen(s) \/ Unlisten(s) \/ CollectorStep(s)
     \/ \E r \in Ranges : SenderStep(r)
  /\ UNCHANGED style

Spec == Init /\ [][Next]_vars

\* Threads run, coroutines are dispatched, and configure gets to its end.
Fairness ==
  /\ WF_vars((Drain \/ LaunchJob) /\ UNCHANGED style)
  /\ \A r \in Ranges : WF_vars(SenderStep(r) /\ UNCHANGED style)
  /\ \A s \in Subs : WF_vars(CollectorStep(s) /\ UNCHANGED style)

FairSpec == Spec /\ Fairness

-----------------------------------------------------------------------------
Of(r, s) == SelectSeq(received[s], LAMBDA item : item[1] = r)

(* "A new subscriber never receives tail items from an earlier range"      *)
(* (HybridNitroTypeCoverage.cpp:612-613) holds of the generation counter   *)
(* up to one item: what a sender was emitting between its check and its    *)
(* post is all of a superseded range that still arrives.                   *)
AtMostOneStaleItem ==
  style = "generation" => \A r \in Ranges, s \in Subs : stale[r][s] <= 1

(* A subscriber sees the items of a range in order and none twice, and, if *)
(* it was listening when the range was configured, without a gap - with    *)
(* several senders and several subscribers at work.  What comes through a  *)
(* channel goes to one subscriber only.                                    *)
InRangeOrder ==
  /\ \A s \in Subs : \A k \in DOMAIN received[s] : LET item == received[s][k] IN
       /\ \A m \in 1 .. k - 1 : received[s][m][1] = item[1] => received[s][m][2] < item[2]
       /\ ~Buffered /\ s \in heard[item[1]] /\ item[2] > 1 =>
            Contains(received[s], <<item[1], item[2] - 1>>)
  /\ Buffered => \A s, t \in Subs : \A item \in Items :
       s # t => ~(Contains(received[s], item) /\ Contains(received[t], item))

(* Whoever listens when a range is configured, keeps listening and does    *)
(* not configure again gets the whole range; from a channel, when it is    *)
(* the only subscriber there ever was, although configure drains it first. *)
WholeRangeArrives ==
  \A r \in Ranges, s \in Subs :
    s \in heard[r] /\ (Buffered => heard[r] = {s})
      ~> \/ Len(Of(r, s)) = Count \/ sub[s] = "closed" \/ gen > r
         \/ Buffered /\ \E t \in Subs : t # s /\ sub[t] # "new"
=============================================================================
