------------------------------ MODULE WireCalls ------------------------------
(***************************************************************************)
(* A call that passes its argument and its result as bytes, from the Dart  *)
(* class through the C bridge to an implementation and back.  The bridge   *)
(* hands the bytes on in its own way on each platform: the JNI exports copy *)
(* them into a ByteArray, the C++ exports pass a view of the payload, the  *)
(* Apple exports pass the pointer.  The argument lives in an arena of the  *)
(* Dart call: until the answer for a synchronous or @nitroAsync method,    *)
(* until the native function returns for a @nitroNativeAsync one, whose    *)
(* answer is made on another thread.                                       *)
(***************************************************************************)
EXTENDS WireMatch, TLC

CONSTANTS
  Langs,        \* the implementations: "cpp", "kotlin", "swift"
  Values(_),    \* the values of a layout that are passed
  Trips(_, _)   \* the trips that calls of a method make, with their parts

Dart   == INSTANCE WireDart
Cpp    == INSTANCE WireCpp
Kotlin == INSTANCE WireKotlin
Swift  == INSTANCE WireSwift

-----------------------------------------------------------------------------
(***************************************************************************)
(* The calls of each side.                                                 *)
(***************************************************************************)
NativeAsync == Dart!NativeAsyncRecordCalls @@ Dart!NativeAsyncListCalls @@
               Dart!NativeAsyncMapCalls @@ Dart!NativeAsyncOptCalls

DartCalls == Dart!RecordCalls @@ Dart!MoreRecordCalls @@ Dart!VariantCalls @@
             Dart!OptCalls @@ Dart!ListCalls @@ Dart!MoreListCalls @@
             Dart!EnumListCalls @@ Dart!MapCalls @@ Dart!RecordMapCalls @@
             Dart!OptMapCalls @@ Dart!ResultCalls @@ Dart!ConfigResultCalls @@
             Dart!AsyncResultCalls @@ Dart!PairCalls @@ Dart!EnumCalls @@
             Dart!OwnListCalls @@ Dart!AsyncCalls @@ NativeAsync

NativeCalls ==
  [cpp |->
         Cpp!RecordCalls @@ Cpp!OptCalls @@ Cpp!ListCalls @@ Cpp!MapCalls @@
         Cpp!MoreListCalls @@ Cpp!VariantCalls @@ Cpp!EnumListCalls @@
         Cpp!ResultCalls @@ Cpp!ConfigResultCalls @@ Cpp!NativeAsyncCalls @@
         Cpp!PairCalls @@ Cpp!EnumCalls @@ Cpp!OwnListCalls @@ Cpp!AsyncCalls @@
         Cpp!NativeAsyncOptCalls,
   kotlin |->
         Kotlin!OptCalls @@ Kotlin!ListCalls @@ Kotlin!RecordCalls @@
         Kotlin!MapCalls @@ Kotlin!RecordMapCalls @@ Kotlin!OptMapCalls @@
         Kotlin!MoreRecordCalls @@ Kotlin!MoreListCalls @@ Kotlin!VariantCalls @@
         Kotlin!ConfigResultCalls @@ Kotlin!EnumListCalls @@
         Kotlin!NativeAsyncRecordCalls @@ Kotlin!NativeAsyncListCalls @@
         Kotlin!NativeAsyncMapCalls @@ Kotlin!PairCalls @@ Kotlin!EnumCalls @@
         Kotlin!OwnListCalls @@ Kotlin!AsyncCalls @@ Kotlin!NativeAsyncOptCalls,
   swift |->
         Swift!OptCalls @@ Swift!ListCalls @@ Swift!RecordCalls @@
         Swift!MapCalls @@ Swift!RecordMapCalls @@ Swift!OptMapCalls @@
         Swift!MoreRecordCalls @@ Swift!MoreListCalls @@ Swift!VariantCalls @@
         Swift!ConfigResultCalls @@ Swift!EnumListCalls @@
         Swift!NativeAsyncRecordCalls @@ Swift!NativeAsyncListCalls @@
         Swift!NativeAsyncMapCalls @@ Swift!PairCalls @@ Swift!EnumCalls @@
         Swift!OwnListCalls @@ Swift!AsyncCalls @@ Swift!NativeAsyncOptCalls]

Methods(lang) == DOMAIN DartCalls \cap DOMAIN NativeCalls[lang]
Results == DOMAIN Dart!ResultCalls \cup DOMAIN Dart!ConfigResultCalls
           \cup DOMAIN Dart!AsyncResultCalls
Enums   == DOMAIN Dart!EnumCalls \cup
           {"asyncNullableStatus", "nativeAsyncStatus", "nativeAsyncNullableStatus"}
Opts    == DOMAIN Dart!OptCalls \cup
           {"asyncNullableInt", "asyncNullableDouble", "asyncNullableBool",
            "nativeAsyncNullableInt", "nativeAsyncNullableDouble", "nativeAsyncNullableBool"}
Bools   == {"echoNullableBool", "asyncNullableBool", "nativeAsyncNullableBool"}

\* The @nitroAsync methods whose dispatch copies the argument for a worker.
Dispatched == DOMAIN Dart!AsyncCalls \cup DOMAIN Dart!ListCalls \cup
              DOMAIN Dart!MoreListCalls \cup {"asyncDeepRecord", "asyncEchoEvent"}

-----------------------------------------------------------------------------
(***************************************************************************)
(* The bridge: what it makes of the bytes Dart passes.  Size is the int32  *)
(* in front of a payload.                                                  *)
(***************************************************************************)
Size(w) == w[1][2]

JniCopy(w)    == SubSeq(w, 1, 4 + Size(w))           \* SetByteArrayRegion
OptBytes(m, w) == SubSeq(w, 1, IF m \in Bools THEN 2 ELSE 9)
CppView(w)    == SubSeq(w, 5, 4 + Size(w))           \* { value + 4, size }
CopyFramed(w) == SubSeq(w, 1, 4 + Size(w))           \* of a dispatch, for the worker

\* An enum is a number in a register; a null pointer stays one.
Handed(lang, m, w) ==
  LET copied == IF m \notin Dispatched THEN w
                ELSE IF m \in Opts THEN OptBytes(m, w) ELSE CopyFramed(w)
  IN IF w = <<>> \/ m \in Enums THEN w
     ELSE CASE lang = "swift"  -> copied
            [] lang = "cpp"    -> IF m \in Opts THEN copied ELSE CppView(copied)
            [] lang = "kotlin" -> IF m \in Opts THEN OptBytes(m, copied) ELSE JniCopy(copied)

\* Mutant: the bytes of the number, without those of its flag.
ReturnedNumber(lang, m, w) ==
  IF lang = "kotlin" /\ m \in Opts THEN SubSeq(w, 1, IF m \in Bools THEN 1 ELSE 8) ELSE w

\* The bytes of a result: the JNI exports copy the array they got from Kotlin.
Returned(lang, m, w) ==
  IF lang = "kotlin" /\ m \in Opts THEN OptBytes(m, w) ELSE w

-----------------------------------------------------------------------------
(***************************************************************************)
(* The trips of the calls.                                                 *)
(***************************************************************************)
\* What the implementation reads, with the size that the bridge has taken off.
Whole(lang, m) ==
  LET ty == NativeCalls[lang][m].arg
  IN IF lang # "cpp" \/ m \in Enums \cup Opts \/ ty = Void THEN ty
     ELSE IF ty.t = "ptr" THEN Ptr(Frame(ty.of)) ELSE Frame(ty)

Framed(ty) == ty.t \in {"frame", "sized"}

\* A record that begins with a number or a text has bytes.
SomeBytes(ty) == ty.t = "rec" /\ 1 \in DOMAIN ty.fields /\ ty.fields[1][2] \in {I64, F64, Str}

\* The optional numbers that the bridge copies by their size.
OptLayouts(m) == IF m \in Bools THEN {Packed(Bool)} ELSE {Packed(I64), Packed(F64)}

\* The bytes of an argument are of a kind that the bridge knows how to pass on.
PassedOn(lang, m) ==
  LET ty == DartCalls[m].arg
  IN \/ m \in Enums
     \/ m \in Opts /\ ty \in OptLayouts(m)
     \/ m \notin Opts /\ ty = Void
     \/ m \notin Opts /\ Framed(ty)
     \/ /\ m \notin Opts /\ ty.t = "ptr" /\ ty.of.t = "frame"
        /\ SomeBytes(ty.of.of) /\ NativeCalls[lang][m].arg.t = "ptr"

\* What an implementation returns for what it got.
Answers(m, v) == IF DartCalls[m].arg = Void THEN Values(DartCalls[m].ret) ELSE {v}

\* A Swift result whose payload does not fit the byte that its size is taken from.
Cut(lang, m, v) ==
  LET w == Write(NativeCalls[lang][m].ret, v)
  IN lang = "swift" /\ m \in Results /\ Len(w) < 5 + w[2][2]

CallsFit ==
  \A lang \in Langs : \A m \in Methods(lang) :
    LET trips == Trips(lang, m)
    IN /\ lang \in {"cpp", "kotlin", "swift"}
       /\ AllFit(trips)
       /\ PassedOn(lang, m)
       /\ m \in Opts => NativeCalls[lang][m].ret \in OptLayouts(m)
       /\ \A v \in Values(DartCalls[m].arg) :
            /\ Trip(DartCalls[m].arg, Whole(lang, m), v) \in trips
            /\ \A a \in Answers(m, v) :
                 \/ Trip(NativeCalls[lang][m].ret, DartCalls[m].ret, a) \in trips
                 \/ Cut(lang, m, a)

ASSUME CallsAssumption == CallsFit

\* The codecs are the levels of WireFormat, all the way down.
CodecsDefined ==
  \A lang \in Langs : \A m \in Methods(lang) :
    AreCodecs(Trips(lang, m), {I64, NativeCalls[lang][m].arg})

-----------------------------------------------------------------------------
VARIABLES
  pc,     \* how far the call is
  call,   \* the call: platform, method, the values sent and returned
  bytes,  \* the bytes under way
  arena,  \* the memory of the argument
  got,    \* what the implementation decoded
  back    \* what Dart decoded

vars == <<pc, call, bytes, arena, got, back>>

Nothing == <<>>
NoCall  == [lang |-> "cpp", m |-> "none", sent |-> Nothing, returned |-> Nothing]

Init ==
  /\ pc = "idle" /\ call = NoCall /\ bytes = <<>> /\ arena = "none"
  /\ got = Nothing /\ back = Nothing

\* The Dart method: checkDisposed, the codec into the arena, the native call.
Call ==
  /\ pc = "idle"
  /\ \E lang \in Langs :
       \E m \in Methods(lang) :
         \E v \in Values(DartCalls[m].arg) :
           /\ call' = [lang |-> lang, m |-> m, sent |-> v, returned |-> Nothing]
           /\ bytes' = Write(DartCalls[m].arg, v)
  /\ pc' = "called" /\ arena' = "live"
  /\ UNCHANGED <<got, back>>

\* The export of the bridge.
Enter ==
  /\ pc = "called"
  /\ bytes' = Handed(call.lang, call.m, bytes)
  /\ pc' = "entered"
  /\ UNCHANGED <<call, arena, got, back>>

\* The implementation's side reads its argument: bytes of its own when the bridge
\* has copied them, the arena's otherwise.
Copies == call.lang = "kotlin" \/ call.m \in Dispatched

Decoded ==
  LET x == DecodeBy(NativeCalls[call.lang][call.m].arg, bytes)
  IN [x EXCEPT !.ok = @ /\ (arena = "live" \/ Copies)]

Decode ==
  /\ pc = "entered"
  /\ call.m \in DOMAIN NativeAsync => arena = "live"
  /\ got' = Decoded
  /\ pc' = "decoded"
  /\ UNCHANGED <<call, bytes, arena, back>>

\* The native function of a @nitroNativeAsync call returns: the arena goes.
Leave ==
  /\ call.m \in DOMAIN NativeAsync /\ arena = "live"
  /\ pc \in {"decoded", "replied"}
  /\ arena' = "freed"
  /\ UNCHANGED <<pc, call, bytes, got, back>>

\* The implementation returns what it got, or a value of its own, and its side
\* writes it.
Reply ==
  /\ pc = "decoded" /\ got.ok
  /\ \E v \in Answers(call.m, got.v) :
       /\ call' = [call EXCEPT !.returned = v]
       /\ bytes' = Returned(call.lang, call.m, Write(NativeCalls[call.lang][call.m].ret, v))
  /\ pc' = "replied"
  /\ UNCHANGED <<arena, got, back>>

\* Dart reads the result and frees what the call still holds.
Answer ==
  /\ pc = "replied"
  /\ call.m \in DOMAIN NativeAsync => arena = "freed"
  /\ back' = DecodeBy(DartCalls[call.m].ret, bytes)
  /\ pc' = "answered" /\ arena' = "freed"
  /\ UNCHANGED <<call, bytes, got>>

\* The method's result is with its caller.
Complete ==
  /\ pc = "answered"
  /\ pc' = "idle" /\ call' = NoCall /\ bytes' = <<>> /\ arena' = "none"
  /\ got' = Nothing /\ back' = Nothing

Next == Call \/ Enter \/ Decode \/ Leave \/ Reply \/ Answer \/ Complete

Spec == Init /\ [][Next]_vars

-----------------------------------------------------------------------------
(***************************************************************************)
(* Properties.                                                             *)
(***************************************************************************)
\* A Swift result whose payload has 256 bytes or more.
Shortened == call.lang = "swift" /\ call.m \in Results /\ Len(bytes) < 5 + bytes[2][2]

\* An implementation decodes the value Dart encoded, whatever its platform: the
\* four sets of generated codecs agree on the order and the width of fields, on
\* tags, on offset tables and on the bytes the bridge passes on, and the argument
\* is read while its arena lives.
NativeGetsValue == got # Nothing => got.ok /\ got.v = call.sent

\* Dart decodes the value the implementation returned.  (A Swift result that is
\* cut is the subject of ResultWhole.)
DartGetsValue == back # Nothing /\ ~Shortened => back.ok /\ back.v = call.returned

\* The sizes in front of payloads are the number of bytes that belong to them:
\* every decoder ends where the size says, at every level, with no byte left.
FramesExact ==
  /\ got # Nothing => got.exact
  /\ back # Nothing /\ ~Shortened => back.exact

\* A result reaches Dart with "4B prefix + payload bytes", as the comment on the
\* Swift encoders says.  Violated from a payload of 256 bytes on.
ResultWhole == back # Nothing /\ call.m \in Results => back.ok
===============================================================================
