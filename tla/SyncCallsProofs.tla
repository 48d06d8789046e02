-------------------------- MODULE SyncCallsProofs --------------------------
(***************************************************************************)
(* Proofs about the synchronous calls, for any builds, methods, callables  *)
(* and depth of nesting.                                                   *)
(*                                                                         *)
(* The slot belongs to the innermost call: NestInv says that every outer   *)
(* call sits in its callback and has not thrown yet, and what the slot's   *)
(* flag means to the innermost one.                                        *)
(***************************************************************************)
EXTENDS SyncCalls, SequenceTheorems, TLAPS

\* Every call but the innermost waits in its callback, only calls that take a
\* callback get there, and none has thrown before it returned.
OuterInv ==
  \A i \in 1..Len(stack) :
    /\ i < Len(stack) => stack[i].phase = "callback"
    /\ stack[i].phase = "callback" \/ stack[i].disturbed
         => Traits(stack[i].method).calls = "local"
    /\ stack[i].phase # "returned" => ~stack[i].threw

\* The slot is set exactly if the innermost call threw, or has to live with what
\* a fast call in its callback left.
SlotInv ==
  stack # <<>> =>
    (slot.hasError <=> Last(stack).threw \/ Last(stack).disturbed)

NestInv == OuterInv /\ SlotInv /\ OwnOutcome

-----------------------------------------------------------------------------
\* A sequence without its last element, and with another one in its place.
LEMMA FrontLemma ==
  ASSUME NEW S, NEW s \in Seq(S), s # <<>>
  PROVE  /\ Front(s) \in Seq(S) /\ Len(Front(s)) = Len(s) - 1
         /\ Len(s) \in Nat \ {0}
         /\ \A i \in 1..(Len(s) - 1) : Front(s)[i] = s[i]
         /\ Last(s) \in S /\ Last(s) = s[Len(s)]
<1>1. Len(s) \in Nat \ {0}
  BY EmptySeq, LenProperties
<1>2. \A i \in 1..(Len(s) - 1) : s[i] \in S
  BY <1>1, ElementOfSeq
<1>3. 1 \in Int /\ Len(s) - 1 \in Int
  BY <1>1
<1>4. /\ SubSeq(s, 1, Len(s) - 1) \in Seq(S)
      /\ Len(SubSeq(s, 1, Len(s) - 1)) =
           IF 1 <= Len(s) - 1 THEN (Len(s) - 1) - 1 + 1 ELSE 0
      /\ \A i \in 1..((Len(s) - 1) - 1 + 1) :
           SubSeq(s, 1, Len(s) - 1)[i] = s[1 + i - 1]
  BY <1>2, <1>3, SubSeqProperties
<1>5. s[Len(s)] \in S
  BY <1>1, ElementOfSeq
<1>6. \A n \in Nat \ {0} :
        n - 1 = IF 1 <= n - 1 THEN (n - 1) - 1 + 1 ELSE 0
  OBVIOUS
<1>7. \A i \in 1..(Len(s) - 1) :
        i \in 1..((Len(s) - 1) - 1 + 1) /\ 1 + i - 1 = i
  BY <1>1
<1>8. Front(s) = SubSeq(s, 1, Len(s) - 1) /\ Last(s) = s[Len(s)]
  BY DEF Front, Last
<1>9. \A i \in 1..(Len(s) - 1) : SubSeq(s, 1, Len(s) - 1)[i] = s[i]
  BY <1>4, <1>7
<1> QED  BY <1>1, <1>4, <1>5, <1>6, <1>8, <1>9

LEMMA ReplaceLemma ==
  ASSUME NEW S, NEW s \in Seq(S), s # <<>>, NEW c \in S
  PROVE  /\ Append(Front(s), c) \in Seq(S)
         /\ Append(Front(s), c) # <<>>
         /\ Len(Append(Front(s), c)) = Len(s)
         /\ \A i \in 1..Len(s) :
              Append(Front(s), c)[i] = IF i = Len(s) THEN c ELSE s[i]
         /\ Last(Append(Front(s), c)) = c
<1>1. /\ Front(s) \in Seq(S) /\ Len(Front(s)) = Len(s) - 1
      /\ Len(s) \in Nat \ {0}
      /\ \A i \in 1..(Len(s) - 1) : Front(s)[i] = s[i]
  BY FrontLemma
<1>2. /\ Append(Front(s), c) \in Seq(S)
      /\ Append(Front(s), c) # <<>>
      /\ Len(Append(Front(s), c)) = Len(Front(s)) + 1
      /\ \A i \in 1..Len(Front(s)) : Append(Front(s), c)[i] = Front(s)[i]
      /\ Append(Front(s), c)[Len(Front(s)) + 1] = c
  BY <1>1, AppendProperties
<1> QED  BY <1>1, <1>2 DEF Last

LEMMA AppendLemma ==
  ASSUME NEW S, NEW s \in Seq(S), NEW c \in S
  PROVE  /\ Append(s, c) \in Seq(S) /\ Append(s, c) # <<>>
         /\ Len(s) \in Nat /\ Len(Append(s, c)) = Len(s) + 1
         /\ \A i \in 1..Len(s) : Append(s, c)[i] = s[i]
         /\ Append(s, c)[Len(s) + 1] = c
         /\ Last(Append(s, c)) = c
BY AppendProperties, LenProperties DEF Last

-----------------------------------------------------------------------------
\* The stack after the innermost call changed, after a call was entered, and
\* after the innermost one was taken back.
LEMMA UpdateStack ==
  ASSUME TypeOK, stack # <<>>, NEW c \in Call, stack' = Update(c)
  PROVE  /\ stack' \in Seq(Call) /\ stack' # <<>> /\ Len(stack) \in Nat \ {0}
         /\ Len(stack') = Len(stack)
         /\ \A i \in 1..Len(stack) :
              stack'[i] = IF i = Len(stack) THEN c ELSE stack[i]
         /\ Last(stack') = c
<1>1. stack \in Seq(Call)  BY DEF TypeOK
<1> QED  BY <1>1, ReplaceLemma, FrontLemma DEF Update

LEMMA EnterStack ==
  ASSUME TypeOK, NEW c \in Call, stack' = Append(Callers, c)
  PROVE  /\ stack' \in Seq(Call) /\ stack' # <<>> /\ Len(stack) \in Nat
         /\ Len(stack') = Len(stack) + 1
         /\ \A i \in 1..Len(stack) :
              stack'[i] = IF i = Len(stack)
                          THEN [stack[i] EXCEPT !.disturbed = FALSE]
                          ELSE stack[i]
         /\ stack'[Len(stack) + 1] = c
         /\ Last(stack') = c
<1>1. stack \in Seq(Call)  BY DEF TypeOK
<1>2. /\ Callers \in Seq(Call) /\ Len(Callers) = Len(stack)
      /\ \A i \in 1..Len(stack) :
           Callers[i] = IF i = Len(stack)
                        THEN [stack[i] EXCEPT !.disturbed = FALSE]
                        ELSE stack[i]
  <2>1. CASE stack = <<>>
    BY <1>1, <2>1, EmptySeq DEF Callers
  <2>2. CASE stack # <<>>
    <3> DEFINE d == [Last(stack) EXCEPT !.disturbed = FALSE]
    <3>1. Last(stack) \in Call /\ Last(stack) = stack[Len(stack)]
      BY <1>1, <2>2, FrontLemma
    <3>2. d \in Call
      BY <3>1 DEF Call
    <3>3. Callers = Append(Front(stack), d)
      BY <2>2 DEF Callers, Update
    <3>4. d = [stack[Len(stack)] EXCEPT !.disturbed = FALSE]
      BY <3>1
    <3> HIDE DEF d
    <3>5. /\ Append(Front(stack), d) \in Seq(Call)
          /\ Len(Append(Front(stack), d)) = Len(stack)
          /\ \A i \in 1..Len(stack) :
               Append(Front(stack), d)[i] = IF i = Len(stack) THEN d ELSE stack[i]
      BY <1>1, <2>2, <3>2, ReplaceLemma
    <3> QED  BY <3>3, <3>4, <3>5
  <2> QED  BY <2>1, <2>2
<1>3. /\ Append(Callers, c) \in Seq(Call) /\ Append(Callers, c) # <<>>
      /\ Len(Callers) \in Nat /\ Len(Append(Callers, c)) = Len(Callers) + 1
      /\ \A i \in 1..Len(Callers) : Append(Callers, c)[i] = Callers[i]
      /\ Append(Callers, c)[Len(Callers) + 1] = c
      /\ Last(Append(Callers, c)) = c
  BY <1>2, AppendLemma
<1> QED  BY <1>2, <1>3

LEMMA TakeStack ==
  ASSUME TypeOK, stack # <<>>, NEW c, stack' = CallersAfter(c)
  PROVE  /\ stack' \in Seq(Call) /\ Len(stack) \in Nat \ {0}
         /\ Len(stack') = Len(stack) - 1
         /\ \A i \in 1..(Len(stack) - 1) :
              stack'[i] = IF i = Len(stack) - 1
                          THEN [stack[i] EXCEPT !.disturbed =
                                  c.threw /\ ~Traits(c.method).checked]
                          ELSE stack[i]
         /\ stack' # <<>> =>
              /\ Len(stack) - 1 \in 1..(Len(stack) - 1)
              /\ Last(stack') = stack'[Len(stack) - 1]
<1> DEFINE up == Front(stack)
<1>1. stack \in Seq(Call)  BY DEF TypeOK
<1>2. /\ up \in Seq(Call) /\ Len(up) = Len(stack) - 1 /\ Len(stack) \in Nat \ {0}
      /\ \A i \in 1..(Len(stack) - 1) : up[i] = stack[i]
  BY <1>1, FrontLemma
<1>3. CASE up = <<>>
  <2>1. stack' = <<>>
    BY <1>3 DEF CallersAfter
  <2>2. /\ Len(stack) - 1 = 0 /\ Len(stack') = 0 /\ <<>> \in Seq(Call)
    BY <1>2, <1>3, <2>1, EmptySeq
  <2>3. stack' \in Seq(Call) /\ ~(stack' # <<>>)
    BY <2>1, <2>2
  <2>4. Len(stack') = Len(stack) - 1
    BY <2>2
  <2>5. \A i \in 1..(Len(stack) - 1) : FALSE
    BY <2>2
  <2> QED  BY <1>2, <2>3, <2>4, <2>5
<1>4. CASE up # <<>>
  <2> DEFINE d == [Last(up) EXCEPT !.disturbed =
                     c.threw /\ ~Traits(c.method).checked]
  <2>1. stack' = Append(Front(up), d)
    BY <1>4 DEF CallersAfter
  <2> HIDE DEF up
  <2>2. /\ Last(up) \in Call /\ Last(up) = up[Len(up)]
        /\ Len(up) \in Nat \ {0}
    BY <1>2, <1>4, FrontLemma
  <2>3. d \in Call
    BY <2>2 DEF Call
  <2>4. d = [stack[Len(stack) - 1] EXCEPT !.disturbed =
               c.threw /\ ~Traits(c.method).checked]
    BY <1>2, <2>2
  <2> HIDE DEF d
  <2>5. /\ stack' \in Seq(Call) /\ stack' # <<>> /\ Len(stack') = Len(up)
        /\ \A i \in 1..Len(up) : stack'[i] = IF i = Len(up) THEN d ELSE up[i]
    BY <1>2, <1>4, <2>1, <2>3, ReplaceLemma
  <2> QED  BY <1>2, <2>2, <2>4, <2>5 DEF Last
<1> QED  BY <1>3, <1>4

-----------------------------------------------------------------------------
LEMMA LastOfStack ==
  ASSUME TypeOK, stack # <<>>
  PROVE  /\ Last(stack) \in Call /\ Last(stack) = stack[Len(stack)]
         /\ Len(stack) \in 1..Len(stack)
BY FrontLemma DEF TypeOK

\* What Passes leaves of the callables' variables.
LEMMA PassesTyped ==
  ASSUME TypeOK, NEW m \in Methods, NEW c \in Callables \cup {NoCallable},
         Passes(m, c)
  PROVE  /\ current' \in [CallbackMethods -> Callables \cup {NoCallable}]
         /\ closing' \subseteq Callables
         /\ open' \subseteq Callables
         /\ open \subseteq open'
         /\ c # NoCallable => c \in open'
<1>1. CASE m \in CallbackMethods
  <2>1. c \in Callables \ open /\ Register(m, c)
    BY <1>1 DEF Passes
  <2>2. current[m] \in Callables \cup {NoCallable}
    BY <1>1 DEF TypeOK
  <2> QED  BY <2>1, <2>2 DEF Register, TypeOK
<1>2. CASE m \notin CallbackMethods
  BY <1>2 DEF Passes, TypeOK
<1> QED  BY <1>1, <1>2

\* Every variable keeps its type, for any builds, methods, callables and depth.
THEOREM TypeCorrect == Spec => []TypeOK
<1>1. Init => TypeOK
  BY EmptySeq DEF Init, TypeOK
<1>2. TypeOK /\ [Next]_vars => TypeOK'
  <2> SUFFICES ASSUME TypeOK, [Next]_vars
               PROVE  TypeOK'
    OBVIOUS
  <2>1. ASSUME NEW m \in Methods, Enter(m)
        PROVE  TypeOK'
    <3> DEFINE f(c) == [method |-> m, callable |-> c, phase |-> "native",
                        threw |-> FALSE, disturbed |-> FALSE]
    <3>1. PICK c \in Callables \cup {NoCallable} :
            Passes(m, c) /\ stack' = Append(Callers, f(c))
      BY <2>1 DEF Enter
    <3>2. f(c) \in Call
      BY DEF Call
    <3> HIDE DEF f
    <3>3. stack' \in Seq(Call)
      BY <3>1, <3>2, EnterStack
    <3>4. /\ current' \in [CallbackMethods -> Callables \cup {NoCallable}]
          /\ closing' \subseteq Callables /\ open' \subseteq Callables
      BY <3>1, PassesTyped
    <3>5. /\ platform' \in Platforms /\ ended' \in {NoCall}
          /\ slot' \in [hasError : BOOLEAN, texts : BOOLEAN]
      BY <2>1 DEF Enter, ClearSlot, TypeOK
    <3> QED  BY <3>3, <3>4, <3>5 DEF TypeOK
  <2>2. CASE InvokeCallback
    <3> DEFINE d == [Last(stack) EXCEPT !.phase = "callback"]
    <3>1. stack # <<>> /\ stack' = Update(d)
      BY <2>2 DEF InvokeCallback, Innermost
    <3>2. d \in Call
      BY <3>1, LastOfStack DEF Call
    <3> HIDE DEF d
    <3>3. stack' \in Seq(Call)
      BY <3>1, <3>2, UpdateStack
    <3> QED  BY <2>2, <3>3 DEF InvokeCallback, TypeOK
  <2>3. CASE CallbackReturns
    <3> DEFINE d == [Last(stack) EXCEPT !.phase = "native"]
    <3>1. stack # <<>> /\ stack' = Update(d)
      BY <2>3 DEF CallbackReturns, Innermost
    <3>2. d \in Call
      BY <3>1, LastOfStack DEF Call
    <3> HIDE DEF d
    <3>3. stack' \in Seq(Call)
      BY <3>1, <3>2, UpdateStack
    <3> QED  BY <2>3, <3>3 DEF CallbackReturns, TypeOK
  <2>4. CASE Return
    <3> DEFINE d == [Last(stack) EXCEPT !.phase = "returned"]
    <3>1. stack # <<>> /\ stack' = Update(d)
      BY <2>4 DEF Return, Innermost
    <3>2. d \in Call
      BY <3>1, LastOfStack DEF Call
    <3> HIDE DEF d
    <3>3. stack' \in Seq(Call)
      BY <3>1, <3>2, UpdateStack
    <3> QED  BY <2>4, <3>3 DEF Return, TypeOK
  <2>5. CASE Throw
    <3> DEFINE d == [Last(stack) EXCEPT !.phase = "returned", !.threw = TRUE]
    <3>1. stack # <<>> /\ stack' = Update(d)
      BY <2>5 DEF Throw, Innermost
    <3>2. d \in Call
      BY <3>1, LastOfStack DEF Call
    <3> HIDE DEF d
    <3>3. stack' \in Seq(Call)
      BY <3>1, <3>2, UpdateStack
    <3>4. slot' \in [hasError : BOOLEAN, texts : BOOLEAN]
      BY <2>5 DEF Throw
    <3> QED  BY <2>5, <3>3, <3>4 DEF Throw, TypeOK
  <2>6. CASE Take
    <3>1. stack # <<>> /\ stack' = CallersAfter(Last(stack))
      BY <2>6 DEF Take, Innermost
    <3>2. stack' \in Seq(Call)
      BY <3>1, TakeStack
    <3>3. Last(stack) \in Call /\ Last(stack).method \in Methods
      BY <3>1, LastOfStack DEF Call
    <3>4. slot' \in [hasError : BOOLEAN, texts : BOOLEAN]
      <4>1. ReadSlot(Last(stack).method)
        BY <2>6 DEF Take
      <4>2. slot' = [hasError |-> FALSE, texts |-> FALSE] \/ slot' = slot
        BY <4>1 DEF ReadSlot
      <4>3. slot \in [hasError : BOOLEAN, texts : BOOLEAN]
        BY DEF TypeOK
      <4>4. [hasError |-> FALSE, texts |-> FALSE] \in [hasError : BOOLEAN, texts : BOOLEAN]
        OBVIOUS
      <4> QED  BY <4>2, <4>3, <4>4, Zenon
    <3>5. ended' \in [checked : BOOLEAN, got : {"value", "error"},
                      threw : BOOLEAN, disturbed : BOOLEAN]
      BY <2>6, <3>3, CheckedIsBoolean DEF Take, Call
    <3> QED  BY <2>6, <3>2, <3>4, <3>5 DEF Take, TypeOK
  <2>7. CASE Microtask
    BY <2>7 DEF Microtask, TypeOK
  <2>8. CASE UNCHANGED vars
    BY <2>8 DEF vars, TypeOK
  <2> QED  BY <2>1, <2>2, <2>3, <2>4, <2>5, <2>6, <2>7, <2>8 DEF Next
<1> QED  BY <1>1, <1>2, PTL DEF Spec

-----------------------------------------------------------------------------
\* Steps of the innermost call that keep its place and its history: the parts of
\* the invariant that speak of the others stay true.
LEMMA OuterUpdate ==
  ASSUME TypeOK, OuterInv, stack # <<>>, NEW c \in Call, stack' = Update(c),
         c.phase = "callback" \/ c.disturbed => Traits(c.method).calls = "local",
         c.phase # "returned" => ~c.threw
  PROVE  OuterInv'
<1>1. /\ Len(stack') = Len(stack) /\ Len(stack) \in Nat \ {0}
      /\ \A i \in 1..Len(stack) :
           stack'[i] = IF i = Len(stack) THEN c ELSE stack[i]
  BY UpdateStack
<1>2. ASSUME NEW i \in 1..Len(stack), i = Len(stack)
      PROVE  /\ i < Len(stack') => stack'[i].phase = "callback"
             /\ stack'[i].phase = "callback" \/ stack'[i].disturbed
                  => Traits(stack'[i].method).calls = "local"
             /\ stack'[i].phase # "returned" => ~stack'[i].threw
  BY <1>1, <1>2
<1>3. ASSUME NEW i \in 1..Len(stack), i # Len(stack)
      PROVE  /\ i < Len(stack') => stack'[i].phase = "callback"
             /\ stack'[i].phase = "callback" \/ stack'[i].disturbed
                  => Traits(stack'[i].method).calls = "local"
             /\ stack'[i].phase # "returned" => ~stack'[i].threw
  <2>1. stack'[i] = stack[i] /\ i < Len(stack)
    BY <1>1, <1>3
  <2> QED  BY <1>1, <2>1 DEF OuterInv
<1> QED  BY <1>1, <1>2, <1>3 DEF OuterInv

\* The innermost call as the invariant sees it.
LEMMA InnermostInv ==
  ASSUME TypeOK, OuterInv, stack # <<>>
  PROVE  /\ Last(stack).phase = "callback" \/ Last(stack).disturbed
              => Traits(Last(stack).method).calls = "local"
         /\ Last(stack).phase # "returned" => ~Last(stack).threw
BY LastOfStack DEF OuterInv

\* The shape of the nest and the meaning of the slot are kept by every step, and
\* each call that is taken back ends as it should.
LEMMA NestStep ==
  ASSUME TypeOK, NestInv, [Next]_vars
  PROVE  NestInv'
<1> USE DEF NestInv
<1>1. ASSUME NEW m \in Methods, Enter(m)
      PROVE  NestInv'
  <2> DEFINE f(c) == [method |-> m, callable |-> c, phase |-> "native",
                      threw |-> FALSE, disturbed |-> FALSE]
  <2>1. PICK c \in Callables \cup {NoCallable} : stack' = Append(Callers, f(c))
    BY <1>1 DEF Enter
  <2>2. f(c) \in Call /\ f(c).phase = "native" /\ ~f(c).threw /\ ~f(c).disturbed
    BY DEF Call
  <2> HIDE DEF f
  <2>3. /\ Len(stack) \in Nat /\ Len(stack') = Len(stack) + 1
        /\ \A i \in 1..Len(stack) :
             stack'[i] = IF i = Len(stack)
                         THEN [stack[i] EXCEPT !.disturbed = FALSE]
                         ELSE stack[i]
        /\ stack'[Len(stack) + 1] = f(c)
        /\ Last(stack') = f(c)
    BY <2>1, <2>2, EnterStack
  <2>4. ASSUME NEW i \in 1..Len(stack)
        PROVE  /\ stack'[i].phase = "callback"
               /\ Traits(stack'[i].method).calls = "local"
               /\ ~stack'[i].threw
    <3>1. stack[i] \in Call
      BY ElementOfSeq DEF TypeOK
    <3>2. stack'[i].phase = stack[i].phase /\ stack'[i].threw = stack[i].threw
          /\ stack'[i].method = stack[i].method
      BY <2>3, <3>1 DEF Call
    <3>3. stack[i].phase = "callback"
      <4>1. CASE i < Len(stack)
        BY <4>1 DEF OuterInv
      <4>2. CASE i = Len(stack)
        <5>1. Len(stack) # 0
          BY <2>3, <4>2
        <5>2. stack # <<>>
          BY <5>1
        <5> QED  BY <1>1, <4>2, <5>2 DEF Enter, Innermost, Last
      <4> QED  BY <2>3, <4>1, <4>2
    <3> QED  BY <3>2, <3>3 DEF OuterInv
  <2>5. OuterInv'
    <3>1. ASSUME NEW i \in 1..Len(stack'), i = Len(stack) + 1
          PROVE  /\ i < Len(stack') => stack'[i].phase = "callback"
                 /\ stack'[i].phase = "callback" \/ stack'[i].disturbed
                      => Traits(stack'[i].method).calls = "local"
                 /\ stack'[i].phase # "returned" => ~stack'[i].threw
      BY <2>2, <2>3, <3>1
    <3>2. \A i \in 1..Len(stack') : i \in 1..Len(stack) \/ i = Len(stack) + 1
      BY <2>3
    <3> QED  BY <2>4, <3>1, <3>2 DEF OuterInv
  <2>6. ~slot'.hasError
    BY <1>1 DEF Enter, ClearSlot, TypeOK
  <2>7. ended' = NoCall
    BY <1>1 DEF Enter
  <2>8. SlotInv'
    BY <2>2, <2>3, <2>6 DEF SlotInv
  <2> QED  BY <2>5, <2>7, <2>8 DEF OwnOutcome
<1>2. ASSUME NEW c, stack # <<>>, c \in Call, stack' = Update(c),
             c.phase = "callback" \/ c.disturbed
               => Traits(c.method).calls = "local",
             c.phase # "returned" => ~c.threw,
             slot'.hasError <=> c.threw \/ c.disturbed,
             ended' = ended
      PROVE  NestInv'
  <2>1. OuterInv'
    BY <1>2, OuterUpdate
  <2>2. Last(stack') = c
    BY <1>2, UpdateStack
  <2>3. SlotInv'
    BY <1>2, <2>2 DEF SlotInv
  <2> QED  BY <1>2, <2>1, <2>3 DEF OwnOutcome
<1>3. CASE InvokeCallback
  <2> DEFINE d == [Last(stack) EXCEPT !.phase = "callback"]
  <2>1. /\ stack # <<>> /\ stack' = Update(d) /\ slot' = slot /\ ended' = ended
        /\ Last(stack).phase = "native"
        /\ Traits(Last(stack).method).calls = "local"
    BY <1>3 DEF InvokeCallback, Innermost
  <2>2. /\ d \in Call /\ d.phase = "callback" /\ d.threw = Last(stack).threw
        /\ d.disturbed = Last(stack).disturbed /\ d.method = Last(stack).method
    BY <2>1, LastOfStack DEF Call
  <2> HIDE DEF d
  <2>3. ~d.threw
    BY <2>1, <2>2, InnermostInv
  <2>4. slot'.hasError <=> d.threw \/ d.disturbed
    BY <2>1, <2>2 DEF SlotInv
  <2> QED  BY <1>2, <2>1, <2>2, <2>3, <2>4
<1>4. CASE CallbackReturns
  <2> DEFINE d == [Last(stack) EXCEPT !.phase = "native"]
  <2>1. /\ stack # <<>> /\ stack' = Update(d) /\ slot' = slot /\ ended' = ended
        /\ Last(stack).phase = "callback"
    BY <1>4 DEF CallbackReturns, Innermost
  <2>2. /\ d \in Call /\ d.phase = "native" /\ d.threw = Last(stack).threw
        /\ d.disturbed = Last(stack).disturbed /\ d.method = Last(stack).method
    BY <2>1, LastOfStack DEF Call
  <2> HIDE DEF d
  <2>3. ~d.threw /\ (d.disturbed => Traits(d.method).calls = "local")
    BY <2>1, <2>2, InnermostInv
  <2>4. slot'.hasError <=> d.threw \/ d.disturbed
    BY <2>1, <2>2 DEF SlotInv
  <2> QED  BY <1>2, <2>1, <2>2, <2>3, <2>4
<1>5. CASE Return
  <2> DEFINE d == [Last(stack) EXCEPT !.phase = "returned"]
  <2>1. /\ stack # <<>> /\ stack' = Update(d) /\ slot' = slot /\ ended' = ended
    BY <1>5 DEF Return, Innermost
  <2>2. /\ d \in Call /\ d.phase = "returned" /\ d.threw = Last(stack).threw
        /\ d.disturbed = Last(stack).disturbed /\ d.method = Last(stack).method
    BY <2>1, LastOfStack DEF Call
  <2> HIDE DEF d
  <2>3. d.disturbed => Traits(d.method).calls = "local"
    BY <2>1, <2>2, InnermostInv
  <2>4. slot'.hasError <=> d.threw \/ d.disturbed
    BY <2>1, <2>2 DEF SlotInv
  <2> QED  BY <1>2, <2>1, <2>2, <2>3, <2>4
<1>6. CASE Throw
  <2> DEFINE d == [Last(stack) EXCEPT !.phase = "returned", !.threw = TRUE]
  <2>1. /\ stack # <<>> /\ stack' = Update(d) /\ slot'.hasError /\ ended' = ended
    BY <1>6 DEF Throw, Innermost
  <2>2. /\ d \in Call /\ d.phase = "returned" /\ d.threw
        /\ d.disturbed = Last(stack).disturbed /\ d.method = Last(stack).method
    BY <2>1, LastOfStack DEF Call
  <2> HIDE DEF d
  <2>3. d.disturbed => Traits(d.method).calls = "local"
    BY <2>1, <2>2, InnermostInv
  <2> QED  BY <1>2, <2>1, <2>2, <2>3
<1>7. CASE Take
  <2> DEFINE c == Last(stack)
             checked == Traits(c.method).checked
  <2>1. /\ stack # <<>> /\ stack' = CallersAfter(c) /\ ReadSlot(c.method)
        /\ ended' = [checked |-> checked,
                     got |-> IF checked /\ slot.hasError THEN "error"
                             ELSE "value",
                     threw |-> c.threw, disturbed |-> c.disturbed]
    BY <1>7 DEF Take, Innermost
  <2>2. c.method \in Methods /\ c \in Call
    BY <2>1, LastOfStack DEF Call
  <2>3. checked \in BOOLEAN
    BY <2>2, CheckedIsBoolean
  <2>4. slot.hasError <=> c.threw \/ c.disturbed
    BY <2>1 DEF SlotInv
  <2>5. c.disturbed => checked
    BY <2>1, <2>2, InnermostInv, CallbacksChecked
  <2>6. slot'.hasError <=> ~checked /\ c.threw
    <3>1. CASE checked /\ slot.hasError
      BY <2>1, <3>1 DEF ReadSlot
    <3>2. CASE ~(checked /\ slot.hasError)
      <4>1. slot' = slot
        BY <2>1, <3>2 DEF ReadSlot
      <4> QED  BY <2>4, <2>5, <3>2, <4>1
    <3> QED  BY <3>1, <3>2
  <2>7. OwnOutcome'
    <3>1. (ended'.got = "error") <=> checked /\ slot.hasError
      BY <2>1
    <3>2. ended'.checked = checked /\ ended'.threw = c.threw
          /\ ended'.disturbed = c.disturbed
      BY <2>1
    <3> QED  BY <2>4, <3>1, <3>2 DEF OwnOutcome
  <2>8. /\ Len(stack) \in Nat \ {0} /\ Len(stack') = Len(stack) - 1
        /\ \A i \in 1..(Len(stack) - 1) :
             stack'[i] = IF i = Len(stack) - 1
                         THEN [stack[i] EXCEPT !.disturbed = c.threw /\ ~checked]
                         ELSE stack[i]
        /\ stack' # <<>> => /\ Len(stack) - 1 \in 1..(Len(stack) - 1)
                            /\ Last(stack') = stack'[Len(stack) - 1]
    BY <2>1, TakeStack
  <2> HIDE DEF c, checked
  <2>9. ASSUME NEW i \in 1..(Len(stack) - 1)
        PROVE  /\ stack'[i].phase = "callback" /\ ~stack'[i].threw
               /\ Traits(stack'[i].method).calls = "local"
               /\ i = Len(stack) - 1 =>
                    stack'[i].disturbed = (c.threw /\ ~checked)
    <3>1. i \in 1..Len(stack) /\ i < Len(stack)
      BY <2>8
    <3>2. stack[i] \in Call
      BY <3>1, ElementOfSeq DEF TypeOK
    <3>3. /\ stack'[i].phase = stack[i].phase /\ stack'[i].threw = stack[i].threw
          /\ stack'[i].method = stack[i].method
          /\ i = Len(stack) - 1 =>
               stack'[i].disturbed = (c.threw /\ ~checked)
      BY <2>8, <3>2 DEF Call
    <3>4. stack[i].phase = "callback" /\ ~stack[i].threw
          /\ Traits(stack[i].method).calls = "local"
      BY <3>1 DEF OuterInv
    <3> QED  BY <3>3, <3>4
  <2>10. OuterInv'
    BY <2>8, <2>9 DEF OuterInv
  <2>11. SlotInv'
    <3>1. ASSUME stack' # <<>>
          PROVE  /\ ~Last(stack').threw
                 /\ Last(stack').disturbed = (c.threw /\ ~checked)
      BY <2>8, <2>9, <3>1
    <3> QED  BY <2>6, <3>1 DEF SlotInv
  <2> QED  BY <2>7, <2>10, <2>11
<1>8. CASE Microtask
  BY <1>8 DEF Microtask, OuterInv, SlotInv, OwnOutcome
<1>9. CASE UNCHANGED vars
  BY <1>9 DEF vars, OuterInv, SlotInv, OwnOutcome
<1> QED  BY <1>1, <1>3, <1>4, <1>5, <1>6, <1>7, <1>8, <1>9 DEF Next

LEMMA NestInit == Init => NestInv
<1>1. ASSUME Init
      PROVE  stack = <<>> /\ Len(stack) = 0 /\ ended = NoCall
  BY <1>1 DEF Init
<1> QED  BY <1>1 DEF NestInv, OuterInv, SlotInv, OwnOutcome

\* A call that reads the slot ends with an error exactly if its own
\* implementation threw or the last call of its callback was a fast one that
\* threw, however deep calls nest and although all write the same slot.
THEOREM OutcomesCorrect == Spec => []OwnOutcome
<1>1. Init => NestInv
  BY NestInit
<1>2. TypeOK /\ NestInv /\ [Next]_vars => NestInv'
  BY NestStep
<1>3. NestInv => OwnOutcome
  BY DEF NestInv
<1> QED  BY <1>1, <1>2, <1>3, TypeCorrect, PTL DEF Spec

-----------------------------------------------------------------------------
LEMMA CallableUpdate ==
  ASSUME TypeOK, CallableOpen, stack # <<>>, NEW c \in Call, stack' = Update(c),
         c.callable = Last(stack).callable,
         Last(stack).phase # "returned", open' = open
  PROVE  CallableOpen'
<1>1. /\ Len(stack') = Len(stack) /\ Len(stack) \in Nat \ {0}
      /\ \A i \in 1..Len(stack) :
           stack'[i] = IF i = Len(stack) THEN c ELSE stack[i]
  BY UpdateStack
<1>2. c.callable # NoCallable => c.callable \in open
  BY LastOfStack DEF CallableOpen
<1> QED  BY <1>1, <1>2 DEF CallableOpen

\* The callable of a call that is in the native library is open, though its
\* callback may register another one for the method any number of times.
THEOREM CallablesCorrect == Spec => []CallableOpen
<1>1. Init => CallableOpen
  <2>1. ASSUME Init
        PROVE  Len(stack) = 0
    BY <2>1 DEF Init
  <2> QED  BY <2>1 DEF CallableOpen
<1>2. TypeOK /\ CallableOpen /\ [Next]_vars => CallableOpen'
  <2> SUFFICES ASSUME TypeOK, CallableOpen, [Next]_vars
               PROVE  CallableOpen'
    OBVIOUS
  <2>1. ASSUME NEW m \in Methods, Enter(m)
        PROVE  CallableOpen'
    <3> DEFINE f(c) == [method |-> m, callable |-> c, phase |-> "native",
                        threw |-> FALSE, disturbed |-> FALSE]
    <3>1. PICK c \in Callables \cup {NoCallable} :
            Passes(m, c) /\ stack' = Append(Callers, f(c))
      BY <2>1 DEF Enter
    <3>2. f(c) \in Call /\ f(c).callable = c
      BY DEF Call
    <3> HIDE DEF f
    <3>3. /\ Len(stack) \in Nat /\ Len(stack') = Len(stack) + 1
          /\ \A i \in 1..Len(stack) :
               stack'[i] = IF i = Len(stack)
                           THEN [stack[i] EXCEPT !.disturbed = FALSE]
                           ELSE stack[i]
          /\ stack'[Len(stack) + 1] = f(c)
      BY <3>1, <3>2, EnterStack
    <3>4. open \subseteq open' /\ (c # NoCallable => c \in open')
      BY <3>1, PassesTyped
    <3>5. ASSUME NEW i \in 1..Len(stack)
          PROVE  /\ stack'[i].phase = stack[i].phase
                 /\ stack'[i].callable = stack[i].callable
      <4>1. stack[i] \in Call
        BY ElementOfSeq DEF TypeOK
      <4> QED  BY <3>3, <4>1 DEF Call
    <3>6. \A i \in 1..Len(stack') : i \in 1..Len(stack) \/ i = Len(stack) + 1
      BY <3>3
    <3> QED  BY <3>2, <3>3, <3>4, <3>5, <3>6 DEF CallableOpen
  <2>2. CASE InvokeCallback
    <3> DEFINE d == [Last(stack) EXCEPT !.phase = "callback"]
    <3>1. /\ stack # <<>> /\ stack' = Update(d) /\ open' = open
          /\ Last(stack).phase = "native"
      BY <2>2 DEF InvokeCallback, Innermost
    <3>2. d \in Call /\ d.callable = Last(stack).callable
      BY <3>1, LastOfStack DEF Call
    <3> HIDE DEF d
    <3> QED  BY <3>1, <3>2, CallableUpdate
  <2>3. CASE CallbackReturns
    <3> DEFINE d == [Last(stack) EXCEPT !.phase = "native"]
    <3>1. /\ stack # <<>> /\ stack' = Update(d) /\ open' = open
          /\ Last(stack).phase = "callback"
      BY <2>3 DEF CallbackReturns, Innermost
    <3>2. d \in Call /\ d.callable = Last(stack).callable
      BY <3>1, LastOfStack DEF Call
    <3> HIDE DEF d
    <3> QED  BY <3>1, <3>2, CallableUpdate
  <2>4. CASE Return
    <3> DEFINE d == [Last(stack) EXCEPT !.phase = "returned"]
    <3>1. /\ stack # <<>> /\ stack' = Update(d) /\ open' = open
          /\ Last(stack).phase = "native"
      BY <2>4 DEF Return, Innermost
    <3>2. d \in Call /\ d.callable = Last(stack).callable
      BY <3>1, LastOfStack DEF Call
    <3> HIDE DEF d
    <3> QED  BY <3>1, <3>2, CallableUpdate
  <2>5. CASE Throw
    <3> DEFINE d == [Last(stack) EXCEPT !.phase = "returned", !.threw = TRUE]
    <3>1. /\ stack # <<>> /\ stack' = Update(d) /\ open' = open
          /\ Last(stack).phase = "native"
      BY <2>5 DEF Throw, Innermost
    <3>2. d \in Call /\ d.callable = Last(stack).callable
      BY <3>1, LastOfStack DEF Call
    <3> HIDE DEF d
    <3> QED  BY <3>1, <3>2, CallableUpdate
  <2>6. CASE Take
    <3>1. stack # <<>> /\ stack' = CallersAfter(Last(stack)) /\ open' = open
      BY <2>6 DEF Take, Innermost
    <3> DEFINE after == Last(stack).threw /\ ~Traits(Last(stack).method).checked
    <3>2. /\ Len(stack) \in Nat \ {0} /\ Len(stack') = Len(stack) - 1
          /\ \A i \in 1..(Len(stack) - 1) :
               stack'[i] = IF i = Len(stack) - 1
                           THEN [stack[i] EXCEPT !.disturbed = after]
                           ELSE stack[i]
      BY <3>1, TakeStack
    <3> HIDE DEF after
    <3>3. ASSUME NEW i \in 1..(Len(stack) - 1)
          PROVE  /\ i \in 1..Len(stack)
                 /\ stack'[i].phase = stack[i].phase
                 /\ stack'[i].callable = stack[i].callable
      <4>1. i \in 1..Len(stack)
        BY <3>2
      <4>2. stack[i] \in Call
        BY <4>1, ElementOfSeq DEF TypeOK
      <4> QED  BY <3>2, <4>1, <4>2 DEF Call
    <3> QED  BY <3>1, <3>2, <3>3 DEF CallableOpen
  <2>7. CASE Microtask
    <3>1. Len(stack') = 0
      BY <2>7 DEF Microtask
    <3> QED  BY <3>1 DEF CallableOpen
  <2>8. CASE UNCHANGED vars
    BY <2>8 DEF vars, CallableOpen
  <2> QED  BY <2>1, <2>2, <2>3, <2>4, <2>5, <2>6, <2>7, <2>8 DEF Next
<1> QED  BY <1>1, <1>2, TypeCorrect, PTL DEF Spec

-----------------------------------------------------------------------------
\* What a call that returns to Dart leaves behind is a known loss of the build:
\* a value is freed as the tables say, a thrown call gave nothing, and one that
\* fails for a call of its callback gave nothing either.
LEMMA TakeLoses ==
  ASSUME TypeOK, NestInv, Take
  PROVE  lost' \subseteq lost \cup KnownLosses[platform]
<1> DEFINE c     == Last(stack)
           got   == IF Traits(c.method).checked /\ slot.hasError
                    THEN "error" ELSE "value"
           given == IF c.threw THEN {} ELSE Gives(platform, c.method)
           freed == IF got = "error" THEN {} ELSE Traits(c.method).frees
<1>1. stack # <<>> /\ lost' = lost \cup (given \ (freed \cup {"buffer"}))
  BY DEF Take, Innermost
<1>2. c.method \in Methods /\ platform \in Platforms
  BY <1>1, LastOfStack DEF Call, TypeOK
<1>3. slot.hasError <=> c.threw \/ c.disturbed
  BY <1>1 DEF NestInv, SlotInv
<1>4. /\ Gives(platform, c.method) \ (Traits(c.method).frees \cup {"buffer"})
           \subseteq KnownLosses[platform]
      /\ Traits(c.method).calls = "local"
           => Gives(platform, c.method) \subseteq {"buffer"}
  BY <1>2, TablesAgree
<1>5. c.disturbed => Traits(c.method).calls = "local"
  BY <1>1, InnermostInv DEF NestInv
<1>6. given \ (freed \cup {"buffer"}) \subseteq KnownLosses[platform]
  <2>1. CASE c.threw
    BY <2>1
  <2>2. CASE ~c.threw /\ c.disturbed
    BY <2>2, <1>4, <1>5
  <2>3. CASE ~c.threw /\ ~c.disturbed
    <3>1. got = "value"
      BY <2>3, <1>3
    <3>2. given = Gives(platform, c.method) /\ freed = Traits(c.method).frees
      BY <2>3, <3>1
    <3> HIDE DEF given, freed
    <3> QED  BY <3>2, <1>4
  <2> QED  BY <2>1, <2>2, <2>3
<1> HIDE DEF given, freed
<1> QED  BY <1>1, <1>6

LEMMA ErrorTextsKnown ==
  ASSUME TypeOK
  PROVE  "error texts" \in KnownLosses[platform]
<1>1. /\ "error texts" \in KnownLosses["jni"]
      /\ "error texts" \in KnownLosses["cpp"]
      /\ "error texts" \in KnownLosses["apple"]
  BY DEF KnownLosses
<1>2. platform \in {"jni", "cpp", "apple"}
  BY PlatformsAssumption DEF TypeOK
<1> QED  BY <1>1, <1>2

\* Whatever the calls of a turn are, however deep they nest and whichever of them
\* fail, each build loses only what is known of it.
THEOREM LossesKnown == Spec => []NothingElseLost
<1>1. Init => NothingElseLost
  BY DEF Init, NothingElseLost
<1>2. TypeOK /\ NestInv /\ NothingElseLost /\ [Next]_vars => NothingElseLost'
  <2> SUFFICES ASSUME TypeOK, NestInv, NothingElseLost, [Next]_vars
               PROVE  NothingElseLost'
    OBVIOUS
  <2>1. platform' = platform
    BY DEF Next, Enter, InvokeCallback, CallbackReturns, Return, Throw, Take,
           Microtask, vars
  <2>2. ASSUME stack # <<>>
        PROVE  ~LeavesReferences(platform, Last(stack).method)
    <3>1. Last(stack).method \in Methods /\ platform \in Platforms
      BY <2>2, LastOfStack DEF Call, TypeOK
    <3> QED  BY <3>1, TablesAgree
  <2>3. lost' \subseteq lost \cup KnownLosses[platform]
    <3>1. ASSUME NEW m \in Methods, Enter(m)
          PROVE  lost' \subseteq lost
      BY <3>1 DEF Enter
    <3>2. CASE InvokeCallback \/ CallbackReturns \/ Microtask \/ UNCHANGED vars
      BY <3>2 DEF InvokeCallback, CallbackReturns, Microtask, vars
    <3>3. CASE Return
      <4>1. stack # <<>>
        BY <3>3 DEF Return, Innermost
      <4> QED  BY <2>2, <3>3, <4>1 DEF Return
    <3>4. CASE Throw
      <4>1. stack # <<>>
        BY <3>4 DEF Throw, Innermost
      <4> QED  BY <2>2, <3>4, <4>1, ErrorTextsKnown DEF Throw
    <3>5. CASE Take
      BY <3>5, TakeLoses
    <3> QED  BY <3>1, <3>2, <3>3, <3>4, <3>5 DEF Next
  <2> QED  BY <2>1, <2>3 DEF NothingElseLost
<1>3. Init => NestInv
  BY NestInit
<1>4. TypeOK /\ NestInv /\ [Next]_vars => NestInv'
  BY NestStep
<1> QED  BY <1>1, <1>2, <1>3, <1>4, TypeCorrect, PTL DEF Spec
=============================================================================
