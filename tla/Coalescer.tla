------------------------------- MODULE Coalescer -------------------------------
(***************************************************************************)
(* submitCoalesced of HybridNitroTypeCoverage.cpp (issue #39): callers     *)
(* leave (callId, value) in a buffer and return at once; a flush thread    *)
(* lets a burst build up for one window and posts it as one message to the *)
(* port of the latest call, where Dart's NitroCoalescer hands the values   *)
(* to the callers.  The web build has no threads and flushes from a        *)
(* scheduled callback.                                                     *)
(***************************************************************************)
EXTENDS Naturals, FiniteSets, SequencesExt

CONSTANTS
  Callers,    \* Dart isolates that submit
  Ports,      \* ports of NitroCoalescers
  NoPort,     \* 0
  MaxCalls,   \* bound: calls of each caller
  Builds      \* builds of the library

ASSUME CoalescerOK == /\ NoPort \notin Ports /\ MaxCalls \in Nat
                      /\ Builds \subseteq {"native", "web"}

Calls == Callers \X (1 .. MaxCalls)

VARIABLES
  build,     \* which build this is
  coalPort,  \* _coalPort
  coalBuf,   \* _coalBuf
  running,   \* _coalRunning
  scheduled, \* _coalFlushScheduled
  flusher,   \* _coalThread: where it is, the batch it took and its port
  caller,    \* per caller: where it is in submitCoalesced, and its calls so far
  portOf,    \* history: the port each call was made with
  inbox      \* history: per port, the calls answered on it, in the order of arrival

vars == <<build, coalPort, coalBuf, running, scheduled, flusher, caller, portOf, inbox>>

NoBatch == <<>>
Web == build = "web"

TypeOK ==
  /\ build \in Builds
  /\ coalPort \in Ports \cup {NoPort}
  /\ coalBuf \in Seq(Calls)
  /\ running \in BOOLEAN
  /\ scheduled \in BOOLEAN
  /\ flusher \in [pc : {"check", "asleep", "window", "load", "post", "gone"},
                  batch : Seq(Calls), port : Ports \cup {NoPort}]
  /\ caller \in [Callers -> [pc : {"idle", "push", "notify"}, calls : 0 .. MaxCalls]]
  /\ portOf \in [Calls -> Ports \cup {NoPort}]
  /\ inbox \in [Ports -> Seq(Calls)]

Init ==
  /\ build \in Builds
  /\ coalPort = NoPort
  /\ coalBuf = <<>>
  /\ running = TRUE
  /\ scheduled = FALSE
  /\ flusher = [pc |-> IF Web THEN "gone" ELSE "check", batch |-> NoBatch,
                port |-> NoPort]
  /\ caller = [c \in Callers |-> [pc |-> "idle", calls |-> 0]]
  /\ portOf = [x \in Calls |-> NoPort]
  /\ inbox = [p \in Ports |-> <<>>]

-----------------------------------------------------------------------------
Answered(x) == \E p \in Ports : Contains(inbox[p], x)
Made == {x \in Calls : portOf[x] # NoPort}

\* A coalescer is used once the calls of the one before it are answered.
MayUse(p) == \A x \in Made : portOf[x] # p => Answered(x)

\* Waking _coalCv: the flush thread looks at its predicate again.
Woken == IF flusher.pc = "asleep" THEN [flusher EXCEPT !.pc = "check"] ELSE flusher

ThisCall(c) == <<c, caller[c].calls>>

(* submitCoalesced: the port is stored before the mutex is taken ...       *)
StorePort(c, p) ==
  /\ running
  /\ caller[c].pc = "idle" /\ caller[c].calls < MaxCalls
  /\ MayUse(p)
  /\ Web => \A d \in Callers : caller[d].pc = "idle"
  /\ coalPort' = p
  /\ caller' = [caller EXCEPT ![c] = [pc |-> "push", calls |-> @.calls + 1]]
  /\ portOf' = [portOf EXCEPT ![<<c, caller[c].calls + 1>>] = p]
  /\ UNCHANGED <<coalBuf, running, scheduled, flusher, inbox>>

\* Mutant: a push that finds a burst under way leaves the waking to it.
PushQuietly(c) ==
  /\ caller[c].pc = "push" /\ ~Web
  /\ coalBuf' = Append(coalBuf, ThisCall(c))
  /\ caller' = [caller EXCEPT ![c].pc = IF flusher.pc = "check" THEN "notify" ELSE "idle"]
  /\ UNCHANGED <<coalPort, running, scheduled, flusher, portOf, inbox>>

\* Mutant: the newest call first.
PushInFront(c) ==
  /\ caller[c].pc = "push" /\ ~Web
  /\ coalBuf' = <<ThisCall(c)>> \o coalBuf
  /\ caller' = [caller EXCEPT ![c].pc = "notify"]
  /\ UNCHANGED <<coalPort, running, scheduled, flusher, portOf, inbox>>

(* ... the pair goes into the buffer under it ...                          *)
Push(c) ==
  /\ caller[c].pc = "push" /\ ~Web
  /\ coalBuf' = Append(coalBuf, ThisCall(c))
  /\ caller' = [caller EXCEPT ![c].pc = "notify"]
  /\ UNCHANGED <<coalPort, running, scheduled, flusher, portOf, inbox>>

(* ... and the flush thread is woken after it.                             *)
Notify(c) ==
  /\ caller[c].pc = "notify"
  /\ flusher' = Woken
  /\ caller' = [caller EXCEPT ![c].pc = "idle"]
  /\ UNCHANGED <<coalPort, coalBuf, running, scheduled, portOf, inbox>>

(* The web build: push, and schedule a flush unless one is scheduled.      *)
PushWeb(c) ==
  /\ caller[c].pc = "push" /\ Web
  /\ coalBuf' = Append(coalBuf, ThisCall(c))
  /\ scheduled' = TRUE
  /\ caller' = [caller EXCEPT ![c].pc = "idle"]
  /\ UNCHANGED <<coalPort, running, flusher, portOf, inbox>>

\* The destructor; no call is under way and none follows.
Shutdown ==
  /\ running /\ ~Web
  /\ \A c \in Callers : caller[c].pc = "idle"
  /\ running' = FALSE
  /\ flusher' = Woken
  /\ UNCHANGED <<coalPort, coalBuf, scheduled, caller, portOf, inbox>>

-----------------------------------------------------------------------------
\* Mutant: leaves the loop as soon as it is told to stop.
FlushCheckStop ==
  /\ flusher.pc = "check"
  /\ flusher' = [flusher EXCEPT !.pc =
       IF ~running THEN "gone" ELSE IF coalBuf = <<>> THEN "asleep" ELSE "window"]
  /\ UNCHANGED <<coalPort, coalBuf, running, scheduled, caller, portOf, inbox>>

(* _coalesceLoop, under the mutex: sleep while there is nothing to do; end *)
(* when told to and nothing is left ...                                    *)
FlushCheck ==
  /\ flusher.pc = "check"
  /\ flusher' = [flusher EXCEPT !.pc =
       IF coalBuf # <<>> THEN "window" ELSE IF running THEN "asleep" ELSE "gone"]
  /\ UNCHANGED <<coalPort, coalBuf, running, scheduled, caller, portOf, inbox>>

\* Mutant: the batch is copied, not swapped.
FlushCopies ==
  /\ flusher.pc = "window"
  /\ Len(coalBuf) < MaxCalls + 1
  /\ flusher' = [flusher EXCEPT !.pc = "load", !.batch = coalBuf]
  /\ UNCHANGED <<coalPort, coalBuf, running, scheduled, caller, portOf, inbox>>

(* ... let the burst grow for a window, then swap it out ...               *)
FlushTake ==
  /\ flusher.pc = "window"
  /\ flusher' = [flusher EXCEPT !.pc = "load", !.batch = coalBuf]
  /\ coalBuf' = <<>>
  /\ UNCHANGED <<coalPort, running, scheduled, caller, portOf, inbox>>

(* _postBatch: read the port ...                                           *)
FlushLoad ==
  /\ flusher.pc = "load"
  /\ flusher' = [flusher EXCEPT !.pc = "post", !.port = coalPort]
  /\ UNCHANGED <<coalPort, coalBuf, running, scheduled, caller, portOf, inbox>>

\* One message; NitroCoalescer completes the calls in the order of its pairs.
PostBatch(p, batch) ==
  inbox' = IF p = NoPort \/ batch = <<>> THEN inbox
           ELSE [inbox EXCEPT ![p] = @ \o batch]

(* ... and post.                                                           *)
FlushPost ==
  /\ flusher.pc = "post"
  /\ PostBatch(flusher.port, flusher.batch)
  /\ flusher' = [pc |-> "check", batch |-> NoBatch, port |-> NoPort]
  /\ UNCHANGED <<coalPort, coalBuf, running, scheduled, caller, portOf>>

(* _coalFlushNow, in one turn of the event loop between two calls.         *)
FlushWeb ==
  /\ scheduled
  /\ \A c \in Callers : caller[c].pc = "idle"
  /\ scheduled' = FALSE
  /\ PostBatch(coalPort, coalBuf)
  /\ coalBuf' = <<>>
  /\ UNCHANGED <<coalPort, running, flusher, caller, portOf>>

-----------------------------------------------------------------------------
CallerStep(c) == Push(c) \/ Notify(c) \/ PushWeb(c)
FlushStep == FlushCheck \/ FlushTake \/ FlushLoad \/ FlushPost \/ FlushWeb

Next ==
  /\ \/ \E c \in Callers : CallerStep(c) \/ \E p \in Ports : StorePort(c, p)
     \/ Shutdown
     \/ FlushStep
  /\ UNCHANGED build

Spec == Init /\ [][Next]_vars

\* A call that began returns; the flush thread and the event loop run.
Fairness == /\ \A c \in Callers : WF_vars(CallerStep(c) /\ UNCHANGED build)
            /\ WF_vars(FlushStep /\ UNCHANGED build)
FairSpec == Spec /\ Fairness

-----------------------------------------------------------------------------
(* A call is answered at most once and on the port it was made with, while *)
(* the buffer, the batch and the port it goes to are read at three times.  *)
AnsweredOnceOnOwnPort ==
  \A p \in Ports : \A k \in DOMAIN inbox[p] :
    /\ portOf[inbox[p][k]] = p
    /\ \A m \in 1 .. k - 1 : inbox[p][m] # inbox[p][k]

(* The answers to one caller come in the order of its calls, whichever     *)
(* bursts they were in.                                                    *)
AnsweredInOrder ==
  \A p \in Ports : \A k \in DOMAIN inbox[p] : \A m \in 1 .. k - 1 :
    inbox[p][m][1] = inbox[p][k][1] => inbox[p][m][2] < inbox[p][k][2]

(* The flush thread ends with nothing left behind: what was submitted      *)
(* before the destructor is posted.                                        *)
ShutdownDrains ==
  ~Web /\ flusher.pc = "gone" => \A x \in Made : Answered(x)

(* Every call is answered ("expect(coalescer.pendingCount, 0)",            *)
(* coalesce_test.dart:32): no wakeup is lost between the buffer, the       *)
(* window and the wait.                                                    *)
EveryCallAnswered == \A x \in Calls : portOf[x] # NoPort ~> Answered(x)

=============================================================================
