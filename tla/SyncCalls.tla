----------------------------- MODULE SyncCalls -----------------------------
(***************************************************************************)
(* The synchronous calls of one isolate on one instance.                   *)
(*                                                                         *)
(* Dart calls an export, the export runs the implementation on the same    *)
(* thread, and control comes back before anything else of the isolate      *)
(* runs, except that five methods call a Dart callback inside the call:    *)
(* the callback may call any method of the instance again, also the one    *)
(* that is running.  All calls of the instance share the error slot that   *)
(* Dart allocated with it.  A registered callback stays behind a native    *)
(* callable until the method is called again; the old callable is closed   *)
(* by a microtask, which runs when the outermost call has returned.        *)
(*                                                                         *)
(* The record of errors in thread-local storage is not modelled: only      *)
(* asynchronous calls read it (module AsyncDispatch).                      *)
(***************************************************************************)
EXTENDS Naturals, Sequences, SequencesExt, TLC

CONSTANTS Platforms,   \* the builds of the bridge: "jni", "cpp", "apple"
          Methods,     \* the synchronous methods the isolate uses
          Callables,   \* identities of native callables
          NoCallable,  \* no callable
          NoCall,      \* no call ended yet in this turn
          MaxDepth     \* bound: calls inside callbacks inside calls

ASSUME NoCallableAssumption == NoCallable \notin Callables

Dart  == INSTANCE SyncDart
Jni   == INSTANCE SyncJni
Cpp   == INSTANCE SyncCpp
Apple == INSTANCE SyncApple

Traits(m) == Dart!DartMethods[m]

\* What the export of m hands to Dart on a platform.
Gives(p, m) ==
  CASE p = "jni"   -> Jni!JniExports[m].gives
    [] p = "cpp"   -> Cpp!CppExports[m]
    [] p = "apple" -> Apple!AppleExports[m]

\* Local references of the JVM that the export of m leaves to its thread.
LeavesReferences(p, m) ==
  p = "jni" /\ Jni!JniExports[m].makes /\ ~Jni!JniExports[m].framed

\* The methods whose implementation throws.
Throwing == {"throwNative", "throwsFast"}

ASSUME CheckedIsBoolean == \A m \in Methods : Traits(m).checked \in BOOLEAN

\* No method with a callback is a fast one.
ASSUME CallbacksChecked ==
  \A m \in Methods : Traits(m).calls = "local" => Traits(m).checked

\* What a build loses for good: the texts of an error nobody read on all of them;
\* in C++ the texts and structs that are copied to the heap because they may be
\* absent, on iOS every optional and struct, which Dart takes to be borrowed.
KnownLosses ==
  [jni   |-> {"error texts"},
   cpp   |-> {"error texts", "text", "struct"},
   apple |-> {"error texts", "optional", "struct"}]

\* The two sides of the bridge agree, export by export: what an export gives,
\* apart from buffers of the thread and the losses above, Dart frees; a frame
\* holds the references an export makes; and a call that answers by its callback
\* gives nothing else, so nothing is lost when it fails for its callback's sake.
ASSUME TablesAgree ==
  \A p \in Platforms, m \in Methods :
    /\ Gives(p, m) \ (Traits(m).frees \cup {"buffer"}) \subseteq KnownLosses[p]
    /\ ~LeavesReferences(p, m)
    /\ Traits(m).calls = "local" => Gives(p, m) \subseteq {"buffer"}

ASSUME PlatformsAssumption == Platforms \subseteq {"jni", "cpp", "apple"}

CallbackMethods == {m \in Methods : Traits(m).calls # "none"}

VARIABLES
  platform, \* the build this isolate runs on
  stack,    \* the calls under way, the innermost last
  slot,     \* the error slot: whether it is set, whether it names live texts
  current,  \* per callback method, the callable of its latest call
  closing,  \* replaced callables that wait for the microtask
  open,     \* the callables not closed
  ended,    \* how the call that returned last ended
  lost      \* what this turn's calls allocated and nobody can free any more

vars == <<platform, stack, slot, current, closing, open, ended, lost>>

\* A call: its method, the callable it passed, where it is, whether its
\* implementation threw, and whether the last call its callback made was a
\* fast one that threw (history, for the properties).
Call == [method : Methods, callable : Callables \cup {NoCallable},
         phase : {"native", "callback", "returned"},
         threw : BOOLEAN, disturbed : BOOLEAN]

TypeOK ==
  /\ platform \in Platforms
  /\ stack \in Seq(Call)
  /\ slot \in [hasError : BOOLEAN, texts : BOOLEAN]
  /\ current \in [CallbackMethods -> Callables \cup {NoCallable}]
  /\ closing \subseteq Callables
  /\ open \subseteq Callables
  /\ ended \in {NoCall} \cup
       [checked : BOOLEAN, got : {"value", "error"}, threw : BOOLEAN,
        disturbed : BOOLEAN]

Init ==
  /\ platform \in Platforms
  /\ stack = <<>>
  /\ slot = [hasError |-> FALSE, texts |-> FALSE]
  /\ current = [m \in CallbackMethods |-> NoCallable]
  /\ closing = {}
  /\ open = {}
  /\ ended = NoCall
  /\ lost = {}

-----------------------------------------------------------------------------
Innermost(phase) == stack # <<>> /\ Last(stack).phase = phase

\* The innermost call, with some fields changed.
Update(c) == Append(Front(stack), c)

\* The calls that called, as a new call starts: what it finds in the slot is
\* cleared, so an earlier fast call no longer shows.
Callers ==
  IF stack = <<>> THEN <<>> ELSE Update([Last(stack) EXCEPT !.disturbed = FALSE])

\* Mutant: the old callable is closed at once.
RegisterCloses(m, c) ==
  /\ current' = [current EXCEPT ![m] = c]
  /\ open' = (open \ {current[m]}) \cup {c}
  /\ UNCHANGED closing

\* A new callable takes the place of the method's old one.
Register(m, c) ==
  /\ current' = [current EXCEPT ![m] = c]
  /\ open' = open \cup {c}
  /\ closing' = closing \cup ({current[m]} \ {NoCallable})

\* A callback of a method that takes one becomes a callable; others pass none.
Passes(m, c) ==
  IF m \in CallbackMethods
  THEN c \in Callables \ open /\ Register(m, c)
  ELSE c = NoCallable /\ UNCHANGED <<current, open, closing>>

\* Mutant: the export leaves the slot as it is.
ClearNothing == UNCHANGED slot

\* The export clears the slot's flag and leaves the texts it names.
ClearSlot == slot' = [slot EXCEPT !.hasError = FALSE]

\* Dart calls method m, from its own turn or from a callback, and the export is
\* entered.
Enter(m) ==
  /\ stack = <<>> \/ Innermost("callback")
  /\ Len(stack) < MaxDepth
  /\ \E c \in Callables \cup {NoCallable} :
       /\ Passes(m, c)
       /\ stack' = Append(Callers, [method |-> m, callable |-> c,
                                    phase |-> "native", threw |-> FALSE,
                                    disturbed |-> FALSE])
  /\ ClearSlot
  /\ ended' = NoCall
  /\ lost' = IF stack = <<>> THEN {} ELSE lost
  /\ UNCHANGED platform

\* The implementation calls the callback it got; a listener's callback only
\* posts and is not a step.
InvokeCallback ==
  /\ Innermost("native")
  /\ Traits(Last(stack).method).calls = "local"
  /\ stack' = Update([Last(stack) EXCEPT !.phase = "callback"])
  /\ UNCHANGED <<platform, slot, current, closing, open, ended, lost>>

CallbackReturns ==
  /\ Innermost("callback")
  /\ stack' = Update([Last(stack) EXCEPT !.phase = "native"])
  /\ UNCHANGED <<platform, slot, current, closing, open, ended, lost>>

\* The implementation is done and the export returns.
Return ==
  /\ Innermost("native")
  /\ stack' = Update([Last(stack) EXCEPT !.phase = "returned"])
  /\ lost' = lost \cup (IF LeavesReferences(platform, Last(stack).method)
                        THEN {"references"} ELSE {})
  /\ UNCHANGED <<platform, slot, current, closing, open, ended>>

\* Mutant: the export of a throwing method leaves its frame on the thread.
ThrowUnpopped ==
  /\ Innermost("native")
  /\ Last(stack).method \in Throwing
  /\ stack' = Update([Last(stack) EXCEPT !.phase = "returned", !.threw = TRUE])
  /\ slot' = [hasError |-> TRUE, texts |-> TRUE]
  /\ lost' = lost \cup (IF slot.texts THEN {"error texts"} ELSE {})
                  \cup (IF platform = "jni" THEN {"references"} ELSE {})
  /\ UNCHANGED <<platform, current, closing, open, ended>>

\* The implementation throws: the export writes the error over whatever the
\* slot held.
Throw ==
  /\ Innermost("native")
  /\ Last(stack).method \in Throwing
  /\ stack' = Update([Last(stack) EXCEPT !.phase = "returned", !.threw = TRUE])
  /\ slot' = [hasError |-> TRUE, texts |-> TRUE]
  /\ lost' = lost \cup (IF slot.texts THEN {"error texts"} ELSE {})
                  \cup (IF LeavesReferences(platform, Last(stack).method)
                        THEN {"references"} ELSE {})
  /\ UNCHANGED <<platform, current, closing, open, ended>>

\* A throwing fast call leaves its error to the call whose callback made it.
CallersAfter(c) ==
  LET up == Front(stack)
  IN  IF up = <<>> THEN <<>>
      ELSE Append(Front(up), [Last(up) EXCEPT
             !.disturbed = c.threw /\ ~Traits(c.method).checked])

\* throwIfOutParamError, where the method has it: a set slot becomes an exception
\* and its texts are freed.
ReadSlot(m) ==
  IF Traits(m).checked /\ slot.hasError
  THEN slot' = [hasError |-> FALSE, texts |-> FALSE]
  ELSE UNCHANGED slot

\* Back in Dart: a checked method reads the slot and throws or decodes its
\* result and frees what it is to free.
Take ==
  /\ Innermost("returned")
  /\ LET c     == Last(stack)
         got   == IF Traits(c.method).checked /\ slot.hasError
                  THEN "error" ELSE "value"
         given == IF c.threw THEN {} ELSE Gives(platform, c.method)
         freed == IF got = "error" THEN {} ELSE Traits(c.method).frees
     IN  /\ stack' = CallersAfter(c)
         /\ ended' = [checked |-> Traits(c.method).checked, got |-> got,
                      threw |-> c.threw, disturbed |-> c.disturbed]
         /\ lost' = lost \cup (given \ (freed \cup {"buffer"}))
         /\ ReadSlot(c.method)
  /\ UNCHANGED <<platform, current, closing, open>>

\* The isolate's turn is over: deferredClose closes the replaced callables.
Microtask ==
  /\ stack = <<>>
  /\ closing # {}
  /\ open' = open \ closing
  /\ closing' = {}
  /\ UNCHANGED <<platform, stack, slot, current, ended, lost>>

Next ==
  \/ \E m \in Methods : Enter(m)
  \/ InvokeCallback \/ CallbackReturns
  \/ Return \/ Throw \/ Take
  \/ Microtask

Spec == Init /\ [][Next]_vars

-----------------------------------------------------------------------------
\* A checked call throws exactly if its own implementation threw, or if the last
\* call its callback made on the instance was a fast one that threw: nobody read
\* that one's error, and the slot is cleared at entry only.  A fast call never
\* throws.  (The slot shared by nested calls.)
OwnOutcome ==
  ended # NoCall =>
    (ended.got = "error" <=>
       ended.checked /\ (ended.threw \/ ended.disturbed))

\* What the README says of a fast method: an error of its native side is
\* "swallowed by contract", so no other call ends with it.
FastErrorsSwallowed == ended # NoCall /\ ended.got = "error" => ended.threw

\* While a call is in the native library, the callable it passed is open, also
\* when its callback registers another one for the same method.
CallableOpen ==
  \A i \in 1..Len(stack) :
    LET c == stack[i]
    IN  c.phase # "returned" /\ c.callable # NoCallable => c.callable \in open

\* Apart from the losses known of a build, what an export allocates for Dart, Dart frees, and no local
\* reference of the JVM stays behind.
NothingElseLost == lost \subseteq KnownLosses[platform]
=============================================================================
