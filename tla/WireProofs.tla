------------------------------ MODULE WireProofs ------------------------------
(***************************************************************************)
(* Proofs about the wire codecs, for any values, shapes and calls whose    *)
(* layouts fit (CallsAssumption): what one language writes of a value the  *)
(* other reads back, and a call carries its argument and its result.       *)
(*                                                                         *)
(* The order is that of the bytes.  A number or a text is found where it   *)
(* was written (NumBack, TakeBack); items that are found one by one are    *)
(* found one after the other (EachBack, by induction on their number);     *)
(* a layout of each kind is read back if what it contains is (Carried..).  *)
(* CodecsAgree is the induction on the depth of a trip.  From there it is  *)
(* a call: the bridge passes on bytes that decode (ArgDecodes, RetDecodes), *)
(* and CallInv says so of every step.                                      *)
(*                                                                         *)
(* Of the codecs Write and Read nothing is used but CodecsDefined: that on *)
(* the trips at hand they are WriteBy and ReadBy of WireFormat, which call *)
(* them for what a layout contains.                                        *)
(***************************************************************************)
EXTENDS WireCalls, WellFoundedInduction, SequenceTheorems, FiniteSetTheorems, TLAPS

-----------------------------------------------------------------------------

\* Induction: a set of numbers with 0 and every successor has them all.
LEMMA NatSet ==
  ASSUME NEW T \in SUBSET Nat, 0 \in T, \A n \in T : n + 1 \in T
  PROVE  T = Nat
<1> DEFINE R == OpToRel(<, Nat)
<1> SUFFICES ASSUME Nat \ T # {} PROVE FALSE
  OBVIOUS
<1>1. IsWellFoundedOn(R, Nat)
  BY NatLessThanWellFounded
<1>2. \A i, j \in Nat : i < j => <<i, j>> \in R
  BY DEF OpToRel
<1> HIDE DEF R
<1>3. PICK x \in Nat \ T : \A y \in Nat \ T : <<y, x>> \notin R
  <2> DEFINE U == Nat \ T
  <2>1. U \subseteq Nat /\ U # {}
    OBVIOUS
  <2> HIDE DEF U
  <2>2. \E x \in U : \A y \in U : ~ (<<y, x>> \in R)
    BY <1>1, <2>1, WFMin
  <2> QED BY <2>2 DEF U
<1>4. x - 1 \in Nat /\ x - 1 < x
  BY SMT
<1>5. x - 1 \in T
  BY <1>2, <1>3, <1>4
<1> QED
  BY <1>5, <1>4, <1>3

-----------------------------------------------------------------------------
(***************************************************************************)
(* Items that are flattened to bytes.                                      *)
(***************************************************************************)
\* f is what FlattenSeq computes of s, up to each item.
Flattens(s, f) ==
  f = [i \in 1 .. Len(s) |-> IF i = 1 THEN s[i] ELSE f[i - 1] \o s[i]]

\* Induction on the number of items: such an f exists.
LEMMA FlattensExists ==
  \A s \in Seq(Bytes) : s # <<>> => \E f : Flattens(s, f)
<1> DEFINE T == {n \in Nat : \A s \in Seq(Bytes) : Len(s) = n + 1 => \E f : Flattens(s, f)}
<1>1. 0 \in T
  <2> SUFFICES ASSUME NEW s \in Seq(Bytes), Len(s) = 1 PROVE \E f : Flattens(s, f)
    OBVIOUS
  <2> DEFINE f == [i \in 1 .. 1 |-> s[i]]
  <2>1. Flattens(s, f)
    BY DEF Flattens
  <2> QED BY <2>1
<1>2. \A n \in T : n + 1 \in T
  <2> SUFFICES ASSUME NEW n \in Nat, NEW s \in Seq(Bytes), Len(s) = n + 2,
                      \A t \in Seq(Bytes) : Len(t) = n + 1 => \E f : Flattens(t, f)
               PROVE  \E f : Flattens(s, f)
    <3>1. \A n \in T : n + 1 \in Nat /\ (n + 1) + 1 = n + 2
      OBVIOUS
    <3> QED BY <3>1
  <2> HIDE DEF T
  <2> DEFINE s0 == SubSeq(s, 1, n + 1)
  <2>1. s0 \in Seq(Bytes) /\ Len(s0) = n + 1 /\ \A i \in 1 .. n + 1 : s0[i] = s[i]
    <3>1. \A i \in 1 .. n + 1 : i \in 1 .. Len(s)
      OBVIOUS
    <3>2. \A i \in 1 .. n + 1 : s[i] \in Bytes
      BY <3>1, ElementOfSeq
    <3>3. /\ SubSeq(s, 1, n + 1) \in Seq(Bytes)
          /\ Len(SubSeq(s, 1, n + 1)) = IF 1 <= n + 1 THEN (n + 1) - 1 + 1 ELSE 0
          /\ \A i \in 1 .. (n + 1) - 1 + 1 : SubSeq(s, 1, n + 1)[i] = s[1 + i - 1]
      <4>1. 1 \in Int /\ n + 1 \in Int
        OBVIOUS
      <4> QED BY <3>2, <4>1, SubSeqProperties
    <3> QED BY <3>3
  <2> HIDE DEF s0
  <2>2. PICK g : Flattens(s0, g)
    BY <2>1
  <2> DEFINE f == [i \in 1 .. n + 2 |-> IF i = n + 2 THEN g[n + 1] \o s[i] ELSE g[i]]
  <2>3. ASSUME NEW i \in 1 .. n + 2
        PROVE  f[i] = IF i = 1 THEN s[i] ELSE f[i - 1] \o s[i]
    <3>1. g = [k \in 1 .. n + 1 |-> IF k = 1 THEN s0[k] ELSE g[k - 1] \o s0[k]]
      BY <2>1, <2>2 DEF Flattens
    <3>2. CASE i = n + 2
      <4>0. i # 1
        BY <3>2
      <4>1. f[i] = g[n + 1] \o s[i]
        BY <3>2
      <4>2. n + 1 \in 1 .. n + 2 /\ n + 1 # n + 2 /\ i - 1 = n + 1
        BY <3>2
      <4>3. f[n + 1] = g[n + 1]
        BY <4>2
      <4> QED BY <4>0, <4>1, <4>2, <4>3
    <3>3. CASE i # n + 2
      <4>1. i \in 1 .. n + 1 /\ (i # 1 => i - 1 \in 1 .. n + 1)
        BY <3>3
      <4>2. g[i] = IF i = 1 THEN s0[i] ELSE g[i - 1] \o s0[i]
        BY <3>1, <4>1
      <4>3. f[i] = g[i] /\ (i # 1 => f[i - 1] = g[i - 1]) /\ s0[i] = s[i]
        BY <2>1, <3>3, <4>1
      <4> QED BY <4>2, <4>3
    <3> QED BY <3>2, <3>3
  <2>4. f = [i \in 1 .. Len(s) |-> IF i = 1 THEN s[i] ELSE f[i - 1] \o s[i]]
    BY <2>3
  <2> HIDE DEF f
  <2> QED BY <2>4 DEF Flattens
<1> HIDE DEF T
<1>3. T = Nat
  BY <1>1, <1>2, NatSet DEF T
<1> QED
  <2> SUFFICES ASSUME NEW s \in Seq(Bytes), s # <<>> PROVE \E f : Flattens(s, f)
    OBVIOUS
  <2>1. Len(s) - 1 \in T
    BY <1>3
  <2> QED BY <2>1 DEF T

\* FlattenSeq is the last of what it computes on the way.
LEMMA FlattenIs ==
  ASSUME NEW s \in Seq(Bytes), s # <<>>
  PROVE  \E f : Flattens(s, f) /\ FlattenSeq(s) = f[Len(s)]
<1>1. \E f : Flattens(s, f)
  BY FlattensExists
<1> DEFINE f == CHOOSE f : Flattens(s, f)
<1>2. Flattens(s, f)
  BY <1>1
<1>3. FlattenSeq(s) = f[Len(s)]
  BY DEF FlattenSeq, Flattens
<1> HIDE DEF f
<1> QED BY <1>2, <1>3

\* Whatever the items after them, the same items flatten to the same bytes.
LEMMA FlattensAgree ==
  ASSUME NEW s \in Seq(Bytes), NEW t \in Seq(Bytes), NEW f, NEW g,
         Flattens(s, f), Flattens(t, g), Len(s) <= Len(t),
         \A i \in 1 .. Len(s) : t[i] = s[i]
  PROVE  \A i \in 1 .. Len(s) : f[i] \in Bytes /\ g[i] = f[i]
<1>0. Len(s) \in Nat /\ Len(t) \in Nat /\ \A i \in 1 .. Len(s) : s[i] \in Bytes
  BY ElementOfSeq
<1> DEFINE T == {n \in Nat : n + 1 \in 1 .. Len(s) => f[n + 1] \in Bytes /\ g[n + 1] = f[n + 1]}
<1>f. \A i \in 1 .. Len(s) : f[i] = IF i = 1 THEN s[i] ELSE f[i - 1] \o s[i]
  BY DEF Flattens
<1>g. \A i \in 1 .. Len(s) : g[i] = IF i = 1 THEN s[i] ELSE g[i - 1] \o s[i]
  <2>1. \A i \in 1 .. Len(t) : g[i] = IF i = 1 THEN t[i] ELSE g[i - 1] \o t[i]
    BY DEF Flattens
  <2>2. \A i \in 1 .. Len(s) : i \in 1 .. Len(t)
    BY <1>0
  <2> QED BY <2>1, <2>2
<1>1. 0 \in T
  BY <1>0, <1>f, <1>g
<1>2. \A n \in T : n + 1 \in T
  <2> SUFFICES ASSUME NEW n \in Nat, n + 2 \in 1 .. Len(s),
                      n + 1 \in 1 .. Len(s) => f[n + 1] \in Bytes /\ g[n + 1] = f[n + 1]
               PROVE  f[n + 2] \in Bytes /\ g[n + 2] = f[n + 2]
    <3>1. \A n \in T : n + 1 \in Nat /\ (n + 1) + 1 = n + 2
      OBVIOUS
    <3> QED BY <3>1
  <2> HIDE DEF T
  <2>1. f[n + 1] \in Bytes /\ g[n + 1] = f[n + 1]
    BY <1>0
  <2>2. f[n + 2] = f[n + 1] \o s[n + 2] /\ g[n + 2] = g[n + 1] \o s[n + 2]
    <3>1. n + 2 # 1 /\ (n + 2) - 1 = n + 1
      OBVIOUS
    <3> QED BY <3>1, <1>f, <1>g
  <2> QED BY <1>0, <2>1, <2>2, ConcatProperties DEF Bytes
<1> HIDE DEF T
<1>3. T = Nat
  BY <1>1, <1>2, NatSet DEF T
<1> QED
  <2> SUFFICES ASSUME NEW i \in 1 .. Len(s) PROVE f[i] \in Bytes /\ g[i] = f[i]
    OBVIOUS
  <2>1. i - 1 \in T /\ (i - 1) + 1 = i
    BY <1>0, <1>3
  <2> QED BY <2>1 DEF T

\* The first i of some items, one after the other.
Upto(b, i) == FlattenSeq(SubSeq(b, 1, i))

\* No items have no bytes.
LEMMA FlattenEmpty ==
  \A b : Len(b) = 0 => FlattenSeq(b) = b
BY DEF FlattenSeq

\* The items up to i are those up to i - 1 and item i.
LEMMA UptoFacts ==
  ASSUME NEW b \in Seq(Bytes)
  PROVE  /\ Upto(b, 0) = <<>>
         /\ FlattenSeq(b) = Upto(b, Len(b))
         /\ \A i \in 0 .. Len(b) : Upto(b, i) \in Bytes
         /\ \A i \in 1 .. Len(b) : Upto(b, i) = Upto(b, i - 1) \o b[i]
<1>0. Len(b) \in Nat /\ \A i \in 1 .. Len(b) : b[i] \in Bytes
  BY ElementOfSeq
<1>1. Upto(b, 0) = <<>>
  <2>1. SubSeq(b, 1, 0) = <<>>
    BY SubSeqEmpty
  <2>2. Len(<<>>) = 0
    OBVIOUS
  <2>3. FlattenSeq(<<>>) = <<>>
    BY <2>2, FlattenEmpty
  <2> QED BY <2>1, <2>3 DEF Upto
<1>2. FlattenSeq(b) = Upto(b, Len(b))
  BY SubSeqFull DEF Upto
<1>3. ASSUME NEW i \in 1 .. Len(b)
      PROVE  /\ SubSeq(b, 1, i) \in Seq(Bytes) /\ Len(SubSeq(b, 1, i)) = i
             /\ \A j \in 1 .. i : SubSeq(b, 1, i)[j] = b[j]
  <2>1. \A j \in 1 .. i : b[j] \in Bytes
    BY <1>0
  <2> QED BY <1>0, <2>1, SubSeqProperties
<1>4. ASSUME NEW i \in 1 .. Len(b)
      PROVE  \E f : /\ Upto(b, i) = f[i] /\ f[i] \in Bytes
                    /\ i # 1 => /\ Upto(b, i - 1) = f[i - 1] /\ f[i - 1] \in Bytes
                    /\ f[i] = IF i = 1 THEN b[i] ELSE f[i - 1] \o b[i]
  <2>0. i \in Nat \ {0} /\ i \in 1 .. i /\ (i # 1 => i - 1 \in 1 .. Len(b) /\ i - 1 \in 1 .. i)
    BY <1>0
  <2> DEFINE these == SubSeq(b, 1, i)
  <2>1. these \in Seq(Bytes) /\ Len(these) = i /\ \A j \in 1 .. i : these[j] = b[j]
    BY <1>3
  <2> HIDE DEF these
  <2>2. these # <<>>
    BY <2>0, <2>1
  <2>3. PICK f : Flattens(these, f) /\ FlattenSeq(these) = f[Len(these)]
    BY <2>1, <2>2, FlattenIs
  <2>4. Upto(b, i) = f[i]
    BY <2>1, <2>3 DEF Upto, these
  <2>5. \A j \in 1 .. i : f[j] \in Bytes
    <3>1. Len(these) <= Len(these) /\ \A j \in 1 .. Len(these) : these[j] = these[j]
      BY <2>0, <2>1
    <3>2. \A j \in 1 .. Len(these) : f[j] \in Bytes
      BY <2>1, <2>3, <3>1, FlattensAgree
    <3> QED BY <2>1, <3>2
  <2>6. f[i] = IF i = 1 THEN b[i] ELSE f[i - 1] \o b[i]
    <3>1. \A j \in 1 .. Len(these) : f[j] = IF j = 1 THEN these[j] ELSE f[j - 1] \o these[j]
      BY <2>3 DEF Flattens
    <3> QED BY <2>0, <2>1, <3>1
  <2>7. ASSUME i # 1
        PROVE  Upto(b, i - 1) = f[i - 1]
    <3> DEFINE fewer == SubSeq(b, 1, i - 1)
    <3>1. fewer \in Seq(Bytes) /\ Len(fewer) = i - 1 /\ \A j \in 1 .. i - 1 : fewer[j] = b[j]
      BY <1>3, <2>0, <2>7
    <3> HIDE DEF fewer
    <3>2. fewer # <<>>
      BY <2>0, <2>7, <3>1
    <3>3. PICK g : Flattens(fewer, g) /\ FlattenSeq(fewer) = g[Len(fewer)]
      BY <3>1, <3>2, FlattenIs
    <3>4. Len(fewer) <= Len(these) /\ \A j \in 1 .. Len(fewer) : these[j] = fewer[j]
      <4>1. i - 1 <= i /\ \A j \in 1 .. i - 1 : j \in 1 .. i
        BY <2>0
      <4>2. \A j \in 1 .. i - 1 : these[j] = fewer[j]
        BY <2>1, <3>1, <4>1
      <4> QED BY <2>1, <3>1, <4>1, <4>2
    <3>5. \A j \in 1 .. Len(fewer) : f[j] = g[j]
      <4>1. fewer \in Seq(Bytes) /\ these \in Seq(Bytes) /\ Flattens(fewer, g) /\ Flattens(these, f)
        BY <2>1, <2>3, <3>1, <3>3
      <4> QED BY <3>4, <4>1, FlattensAgree
    <3>6. Upto(b, i - 1) = g[i - 1]
      BY <3>1, <3>3 DEF Upto, fewer
    <3>7. i - 1 \in 1 .. Len(fewer)
      BY <2>0, <2>7, <3>1
    <3> QED BY <3>5, <3>6, <3>7
  <2> WITNESS f
  <2> QED BY <2>0, <2>4, <2>5, <2>6, <2>7
<1>5. \A i \in 0 .. Len(b) : Upto(b, i) \in Bytes
  <2>1. \A i \in 0 .. Len(b) : i = 0 \/ i \in 1 .. Len(b)
    BY <1>0
  <2>2. \A i \in 1 .. Len(b) : Upto(b, i) \in Bytes
    BY <1>4
  <2>3. Upto(b, 0) \in Bytes
    BY <1>1, EmptySeq DEF Bytes
  <2> QED BY <2>1, <2>2, <2>3
<1>6. ASSUME NEW i \in 1 .. Len(b)
      PROVE  Upto(b, i) = Upto(b, i - 1) \o b[i]
  <2>1. CASE i = 1
    BY <1>0, <1>1, <1>4, <2>1, ConcatEmptySeq DEF Bytes
  <2>2. CASE i # 1
    BY <1>4, <2>2
  <2> QED BY <2>1, <2>2
<1> QED BY <1>1, <1>2, <1>5, <1>6

-----------------------------------------------------------------------------
(***************************************************************************)
(* Bytes, and a reader that finds them.                                    *)
(***************************************************************************)
\* The bytes w have b after position p.
Holds(w, p, b) ==
  p + Len(b) <= Len(w) /\ \A j \in 1 .. Len(b) : w[p + j] = b[j]

\* Wherever it finds the bytes b, in reads v and is after them.
Reads(in, b, v) ==
  \A w \in Bytes, p \in Nat :
    Holds(w, p, b) => Read(in, At(w, p)) = Took(At(w, p + Len(b)), v)

\* What out writes of v, in reads back.
Carries(out, in, v) == Write(out, v) \in Bytes /\ Reads(in, Write(out, v), v)

\* A trip on which the two layouts agree.
RoundTrip(x) == Carries(x.out, x.in, x.val)

\* The bytes of a cell.
LEMMA CellIs ==
  ASSUME NEW kind \in Kinds, NEW x \in Int, NEW n \in Nat
  PROVE  /\ Cell(kind, x, n) \in Bytes /\ Len(Cell(kind, x, n)) = n
         /\ \A j \in 1 .. n : Cell(kind, x, n)[j] = <<kind, x, j>>
<1> DEFINE c == [j \in 1 .. n |-> <<kind, x, j>>]
<1>1. \A j \in 1 .. n : <<kind, x, j>> \in Kinds \X Int \X Nat
  <2>1. \A j \in 1 .. n : j \in Nat
    OBVIOUS
  <2> QED BY <2>1, Zenon
<1>2. c \in [1 .. n -> Byte]
  BY <1>1 DEF Byte, Kinds
<1> HIDE DEF c
<1>3. c \in Seq(Byte) /\ Len(c) = n
  <2>1. c \in Seq(Byte)
    BY <1>2, SeqDef
  <2> QED BY <1>2, <2>1, LenProperties
<1> QED BY <1>3 DEF c, Cell, Bytes

\* Every kind of number has a width, which is not 0.
LEMMA Widths ==
  ASSUME NEW kind \in DOMAIN Width
  PROVE  Width[kind] \in {1, 4, 8} /\ Width[kind] \in Nat \ {0}
<1>1. kind \in {"i8", "bool", "i32", "i64", "f64"}
  BY DEF Width
<1>2. Width[kind] \in {1, 4, 8}
  BY <1>1 DEF Width
<1>3. \A n \in {1, 4, 8} : n \in Nat \ {0}
  OBVIOUS
<1> QED BY <1>2, <1>3

\* The widths of the numbers that layouts use by name.
LEMMA WidthOf ==
  /\ {"i8", "bool", "i32", "i64", "f64"} \subseteq DOMAIN Width
  /\ Width["i8"] = 1 /\ Width["bool"] = 1 /\ Width["i32"] = 4
  /\ Width["i64"] = 8 /\ Width["f64"] = 8
BY DEF Width

\* The bytes of a number.
LEMMA NumIs ==
  ASSUME NEW kind \in DOMAIN Width, NEW x \in Int
  PROVE  /\ Num(kind, x) \in Bytes /\ Len(Num(kind, x)) = Width[kind]
         /\ \A j \in 1 .. Width[kind] : Num(kind, x)[j] = <<kind, x, j>>
BY CellIs, Widths DEF Num, Kinds

\* Bytes have a length.
LEMMA BytesLen ==
  \A b \in Bytes : Len(b) \in Nat
BY DEF Bytes

\* A reader that finds a whole cell takes what it holds and is behind it.
LEMMA TakeBack ==
  ASSUME NEW kind \in Kinds, NEW x \in Int, NEW n \in Nat \ {0},
         NEW w \in Bytes, NEW p \in Nat, Holds(w, p, Cell(kind, x, n))
  PROVE  Take(kind, n, At(w, p)) = Took(At(w, p + n), x)
<1> DEFINE r == At(w, p)
<1>1. r = [w |-> w, pos |-> p, ok |-> TRUE, exact |-> TRUE]
  BY DEF At
<1>2. p + n <= Len(w) /\ \A j \in 1 .. n : w[p + j] = <<kind, x, j>>
  BY CellIs DEF Holds
<1>3. Len(w) \in Nat /\ p < Len(w) /\ 1 \in 1 .. n
  BY <1>2, BytesLen
<1>4. w[p + 1] = <<kind, x, 1>>
  BY <1>2, <1>3
<1> DEFINE found == IF r.pos < Len(r.w) THEN r.w[r.pos + 1][2] ELSE 0
           good  == /\ r.ok /\ r.pos + n <= Len(r.w)
                    /\ \A j \in 1 .. n : r.w[r.pos + j] = <<kind, found, j>>
<1>5. found = x
  BY <1>1, <1>3, <1>4
<1> HIDE DEF found
<1>6. good = TRUE
  BY <1>1, <1>2, <1>5
<1> HIDE DEF good
<1>7. [w |-> r.w, pos |-> r.pos + n, ok |-> TRUE, exact |-> r.exact] = At(w, p + n)
  BY <1>1 DEF At
<1>8. Take(kind, n, r) = Took([w |-> r.w, pos |-> r.pos + n, ok |-> good, exact |-> r.exact],
                              IF good THEN found ELSE 0)
  BY DEF Take, good, found
<1> QED BY <1>5, <1>6, <1>7, <1>8

\* The same of a number.
LEMMA NumBack ==
  ASSUME NEW kind \in DOMAIN Width, NEW x \in Int, NEW w \in Bytes, NEW p \in Nat,
         Holds(w, p, Num(kind, x))
  PROVE  TakeNum(kind, At(w, p)) = Took(At(w, p + Width[kind]), x)
BY TakeBack, Widths DEF TakeNum, Num, Kinds

\* Bytes one after the other are found one after the other.
LEMMA Cat ==
  ASSUME NEW a \in Bytes, NEW b \in Bytes
  PROVE  /\ a \o b \in Bytes /\ Len(a \o b) = Len(a) + Len(b)
         /\ \A w \in Bytes, p \in Nat :
              Holds(w, p, a \o b) => Holds(w, p, a) /\ Holds(w, p + Len(a), b)
<1>1. /\ a \o b \in Bytes /\ Len(a \o b) = Len(a) + Len(b)
      /\ \A i \in 1 .. Len(a) + Len(b) :
           (a \o b)[i] = IF i <= Len(a) THEN a[i] ELSE b[i - Len(a)]
  BY ConcatProperties DEF Bytes
<1>2. Len(a) \in Nat /\ Len(b) \in Nat
  BY BytesLen
<1> SUFFICES ASSUME NEW w \in Bytes, NEW p \in Nat, Holds(w, p, a \o b)
             PROVE  Holds(w, p, a) /\ Holds(w, p + Len(a), b)
  BY <1>1
<1>3. /\ p + (Len(a) + Len(b)) <= Len(w) /\ Len(w) \in Nat
      /\ \A j \in 1 .. Len(a) + Len(b) : w[p + j] = (a \o b)[j]
  BY <1>1, BytesLen DEF Holds
<1>4. Holds(w, p, a)
  <2>1. p + Len(a) <= Len(w)
    BY <1>2, <1>3
  <2>2. \A j \in 1 .. Len(a) : w[p + j] = a[j]
    BY <1>1, <1>2, <1>3
  <2> QED BY <2>1, <2>2 DEF Holds
<1>5. Holds(w, p + Len(a), b)
  <2>1. (p + Len(a)) + Len(b) <= Len(w)
    BY <1>2, <1>3
  <2>2. ASSUME NEW j \in 1 .. Len(b)
        PROVE  w[(p + Len(a)) + j] = b[j]
    <3>1. /\ Len(a) + j \in 1 .. Len(a) + Len(b) /\ ~(Len(a) + j <= Len(a))
          /\ (Len(a) + j) - Len(a) = j /\ (p + Len(a)) + j = p + (Len(a) + j)
      BY <1>2
    <3> QED BY <1>1, <1>3, <3>1
  <2> QED BY <2>1, <2>2 DEF Holds
<1> QED BY <1>4, <1>5

\* A number in front of bytes.
LEMMA NumThen ==
  ASSUME NEW kind \in DOMAIN Width, NEW x \in Int, NEW b \in Bytes
  PROVE  /\ Num(kind, x) \o b \in Bytes
         /\ Len(Num(kind, x) \o b) = Width[kind] + Len(b)
         /\ \A w \in Bytes, p \in Nat :
              Holds(w, p, Num(kind, x) \o b) =>
                /\ TakeNum(kind, At(w, p)) = Took(At(w, p + Width[kind]), x)
                /\ Holds(w, p + Width[kind], b)
                /\ p + Width[kind] \in Nat
                /\ p + Len(Num(kind, x) \o b) = (p + Width[kind]) + Len(b)
<1>1. Num(kind, x) \in Bytes /\ Len(Num(kind, x)) = Width[kind] /\ Width[kind] \in Nat
  BY NumIs, Widths
<1>2. /\ Num(kind, x) \o b \in Bytes /\ Len(Num(kind, x) \o b) = Width[kind] + Len(b)
  BY <1>1, Cat
<1>3. Len(b) \in Nat
  BY BytesLen
<1> SUFFICES ASSUME NEW w \in Bytes, NEW p \in Nat, Holds(w, p, Num(kind, x) \o b)
             PROVE  /\ TakeNum(kind, At(w, p)) = Took(At(w, p + Width[kind]), x)
                    /\ Holds(w, p + Width[kind], b)
                    /\ p + Width[kind] \in Nat
                    /\ p + Len(Num(kind, x) \o b) = (p + Width[kind]) + Len(b)
  BY <1>2
<1>4. Holds(w, p, Num(kind, x)) /\ Holds(w, p + Width[kind], b)
  BY <1>1, Cat
<1>5. TakeNum(kind, At(w, p)) = Took(At(w, p + Width[kind]), x)
  BY <1>4, NumBack
<1> QED BY <1>1, <1>2, <1>3, <1>4, <1>5

-----------------------------------------------------------------------------
(***************************************************************************)
(* Items, one after the other.                                             *)
(***************************************************************************)
\* Bytes that have all items have the first i, and item i behind those before.
LEMMA HoldsItems ==
  ASSUME NEW b \in Seq(Bytes), NEW w \in Bytes, NEW p \in Nat, Holds(w, p, FlattenSeq(b))
  PROVE  \A i \in 1 .. Len(b) :
           /\ Holds(w, p + Len(Upto(b, i - 1)), b[i])
           /\ Len(Upto(b, i)) = Len(Upto(b, i - 1)) + Len(b[i])
           /\ Len(Upto(b, i)) \in Nat /\ Len(Upto(b, i - 1)) \in Nat
<1>0. Len(b) \in Nat /\ \A i \in 1 .. Len(b) : b[i] \in Bytes /\ i - 1 \in 0 .. Len(b)
  BY ElementOfSeq
<1>1. \A i \in 1 .. Len(b) :
        /\ Upto(b, i) \in Bytes /\ Upto(b, i - 1) \in Bytes
        /\ Upto(b, i) = Upto(b, i - 1) \o b[i]
  <2>1. \A i \in 1 .. Len(b) : i \in 0 .. Len(b)
    BY <1>0
  <2> QED BY <1>0, <2>1, UptoFacts
<1> DEFINE T == {n \in Nat : n <= Len(b) => Holds(w, p, Upto(b, Len(b) - n))}
<1>2. 0 \in T
  <2>1. Holds(w, p, Upto(b, Len(b)))
    BY UptoFacts
  <2>2. Len(b) - 0 = Len(b)
    BY <1>0
  <2> QED BY <2>1, <2>2
<1>3. \A n \in T : n + 1 \in T
  <2> SUFFICES ASSUME NEW n \in Nat, n + 1 <= Len(b),
                      n <= Len(b) => Holds(w, p, Upto(b, Len(b) - n))
               PROVE  Holds(w, p, Upto(b, Len(b) - (n + 1)))
    <3>1. \A n \in T : n + 1 \in Nat
      OBVIOUS
    <3> QED BY <3>1
  <2> HIDE DEF T
  <2>1. /\ n <= Len(b) /\ Len(b) - n \in 1 .. Len(b)
        /\ (Len(b) - n) - 1 = Len(b) - (n + 1)
    BY <1>0
  <2>2. Holds(w, p, Upto(b, Len(b) - n))
    BY <2>1
  <2>3. Upto(b, Len(b) - n) = Upto(b, Len(b) - (n + 1)) \o b[Len(b) - n]
    BY <1>1, <2>1
  <2>4. Upto(b, Len(b) - (n + 1)) \in Bytes /\ b[Len(b) - n] \in Bytes
    BY <1>0, <1>1, <2>1
  <2>5. Holds(w, p, Upto(b, Len(b) - (n + 1)) \o b[Len(b) - n])
    BY <2>2, <2>3
  <2> HIDE DEF Holds
  <2> QED BY <2>4, <2>5, Cat
<1> HIDE DEF T
<1>4. T = Nat
  BY <1>2, <1>3, NatSet DEF T
<1> SUFFICES ASSUME NEW i \in 1 .. Len(b)
             PROVE  /\ Holds(w, p + Len(Upto(b, i - 1)), b[i])
                    /\ Len(Upto(b, i)) = Len(Upto(b, i - 1)) + Len(b[i])
                    /\ Len(Upto(b, i)) \in Nat /\ Len(Upto(b, i - 1)) \in Nat
  OBVIOUS
<1>5. Holds(w, p, Upto(b, i))
  <2>1. Len(b) - i \in Nat /\ Len(b) - i <= Len(b) /\ Len(b) - (Len(b) - i) = i
    BY <1>0
  <2>2. Len(b) - i \in T
    BY <1>4, <2>1
  <2> QED BY <2>1, <2>2 DEF T
<1>6. Upto(b, i - 1) \in Bytes /\ b[i] \in Bytes /\ Upto(b, i) \in Bytes
      /\ Upto(b, i) = Upto(b, i - 1) \o b[i]
  BY <1>0, <1>1
<1>7. Holds(w, p + Len(Upto(b, i - 1)), b[i])
  BY <1>5, <1>6, Cat
<1>8. Len(Upto(b, i)) = Len(Upto(b, i - 1)) + Len(b[i])
  BY <1>6, Cat
<1> QED BY <1>6, <1>7, <1>8, BytesLen

\* A reader that moves.
LEMMA Moved ==
  ASSUME NEW w, NEW p, NEW q
  PROVE  [At(w, p) EXCEPT !.pos = q] = At(w, q)
<1>1. \A a, b : [[w |-> w, pos |-> p, ok |-> a, exact |-> b] EXCEPT !.pos = q]
                  = [w |-> w, pos |-> q, ok |-> a, exact |-> b]
  OBVIOUS
<1> QED BY <1>1 DEF At

\* A condition that holds changes nothing about a reader.
LEMMA Kept ==
  ASSUME NEW w, NEW p, NEW b, b
  PROVE  If(b, At(w, p)) = At(w, p)
<1>1. At(w, p).w = w /\ At(w, p).pos = p /\ At(w, p).ok /\ At(w, p).exact
  BY DEF At
<1>2. (At(w, p).ok /\ b) = TRUE /\ At(w, p).exact = TRUE
  BY DEF At
<1> QED BY <1>1, <1>2 DEF If, At

\* What ReadEach computes, up to each item.
EachIs(tys, starts, r, got_) ==
  got_ = [i \in 0 .. Len(tys) |->
            IF i = 0 THEN Took(r, <<>>)
            ELSE LET past == got_[i - 1]
                     x    == Read(tys[i], IF i \in DOMAIN starts THEN [past.r EXCEPT !.pos = starts[i]]
                                          ELSE past.r)
                 IN Took(x.r, Append(past.v, x.v))]

\* ReadEach is the last of what it computes on the way.
LEMMA ReadEachIs ==
  ASSUME NEW tys, NEW starts, NEW r, NEW g, EachIs(tys, starts, r, g)
  PROVE  \E f : EachIs(tys, starts, r, f) /\ ReadEach(tys, starts, r) = f[Len(tys)]
<1> DEFINE f == CHOOSE f : EachIs(tys, starts, r, f)
<1>1. EachIs(tys, starts, r, f)
  OBVIOUS
<1>2. ReadEach(tys, starts, r) = f[Len(tys)]
  BY DEF ReadEach, EachIs
<1> HIDE DEF f
<1> QED BY <1>1, <1>2

\* Each of the items b reads back, and starts, if given, says where it is.
EachReads(tys, b, v) ==
  /\ Len(tys) = Len(b) /\ v = [i \in 1 .. Len(b) |-> v[i]]
  /\ \A i \in 1 .. Len(b) : Reads(tys[i], b[i], v[i])

\* Where starts says anything, it is where the items are.
Placed(starts, b, p) ==
  \A i \in 1 .. Len(b) : i \in DOMAIN starts => starts[i] = p + Len(Upto(b, i - 1))

\* Such items read back one after the other.
LEMMA EachBack ==
  ASSUME NEW tys, NEW v, NEW b \in Seq(Bytes), NEW starts,
         NEW w \in Bytes, NEW p \in Nat,
         EachReads(tys, b, v), Placed(starts, b, p), Holds(w, p, FlattenSeq(b))
  PROVE  ReadEach(tys, starts, At(w, p)) = Took(At(w, p + Len(FlattenSeq(b))), v)
<1> DEFINE n == Len(b)
<1>0. /\ n \in Nat /\ Len(tys) = n /\ Len(b) = n /\ v = [i \in 1 .. n |-> v[i]]
      /\ \A i \in 1 .. n : Reads(tys[i], b[i], v[i])
      /\ \A i \in 1 .. n : i \in DOMAIN starts => starts[i] = p + Len(Upto(b, i - 1))
  BY DEF EachReads, Placed
<1> HIDE DEF n
<1> USE <1>0
<1> DEFINE V == {v[i] : i \in 1 .. n}
           at(i) == At(w, p + Len(Upto(b, i)))
           g == [i \in 0 .. n |-> Took(at(i), SubSeq(v, 1, i))]
<1>1. v \in Seq(V) /\ Len(v) = n
  <2>1. v \in [1 .. n -> V]
    OBVIOUS
  <2> HIDE DEF V
  <2>2. v \in Seq(V)
    BY <2>1, SeqDef
  <2> QED BY <2>1, <2>2, LenProperties
<1>2. SubSeq(v, 1, 0) = <<>> /\ SubSeq(v, 1, n) = v
  BY <1>1, SubSeqEmpty, SubSeqFull
<1>3. ASSUME NEW i \in 1 .. n
      PROVE  SubSeq(v, 1, i) = Append(SubSeq(v, 1, i - 1), v[i])
  <2>1. 1 \in 1 .. Len(v) /\ i \in 1 .. Len(v)
    BY <1>1
  <2>2. SubSeq(v, 1, i) = SubSeq(v, 1, i - 1) \o <<v[i]>>
    BY <1>1, <2>1, SubSeqRecursiveSecond
  <2>3. SubSeq(v, 1, i - 1) \in Seq(V) /\ v[i] \in V
    <3>1. \A j \in 1 .. i - 1 : v[j] \in V
      OBVIOUS
    <3>2. 1 \in Int /\ i - 1 \in Int
      OBVIOUS
    <3> QED BY <3>1, <3>2, SubSeqProperties
  <2> QED BY <2>2, <2>3, AppendIsConcat
<1> HIDE DEF V
<1>4. /\ Len(Upto(b, 0)) = 0 /\ Upto(b, n) = FlattenSeq(b)
      /\ \A i \in 1 .. n : /\ Len(Upto(b, i - 1)) \in Nat /\ Len(b[i]) \in Nat
                           /\ Len(Upto(b, i)) = Len(Upto(b, i - 1)) + Len(b[i])
                           /\ Holds(w, p + Len(Upto(b, i - 1)), b[i])
  <2>1. \A i \in 1 .. n : b[i] \in Bytes
    BY ElementOfSeq
  <2>2. Len(<<>>) = 0
    OBVIOUS
  <2> QED BY <2>1, <2>2, UptoFacts, HoldsItems, BytesLen
<1>5. at(0) = At(w, p) /\ at(n) = At(w, p + Len(FlattenSeq(b)))
  BY <1>4
<1>6. ASSUME NEW i \in 1 .. n
      PROVE  /\ Read(tys[i], at(i - 1)) = Took(at(i), v[i])
             /\ i \in DOMAIN starts => [at(i - 1) EXCEPT !.pos = starts[i]] = at(i - 1)
  <2>1. Read(tys[i], at(i - 1)) = Took(At(w, (p + Len(Upto(b, i - 1))) + Len(b[i])), v[i])
    <3>1. p + Len(Upto(b, i - 1)) \in Nat /\ Holds(w, p + Len(Upto(b, i - 1)), b[i])
      BY <1>4
    <3>2. Reads(tys[i], b[i], v[i])
      OBVIOUS
    <3> QED BY <3>1, <3>2 DEF Reads
  <2>2. (p + Len(Upto(b, i - 1))) + Len(b[i]) = p + Len(Upto(b, i))
    <3>1. /\ Len(Upto(b, i - 1)) \in Nat /\ Len(b[i]) \in Nat
          /\ Len(Upto(b, i)) = Len(Upto(b, i - 1)) + Len(b[i])
      BY <1>4
    <3> QED BY <3>1
  <2>3. ASSUME i \in DOMAIN starts
        PROVE  [at(i - 1) EXCEPT !.pos = starts[i]] = at(i - 1)
    <3>1. starts[i] = p + Len(Upto(b, i - 1))
      BY <2>3
    <3> QED BY <3>1, Moved
  <2> QED BY <2>1, <2>2, <2>3
<1> HIDE DEF at
<1>7. ASSUME NEW i \in 1 .. n, NEW past, past = Took(at(i - 1), SubSeq(v, 1, i - 1))
      PROVE  LET x == Read(tys[i], IF i \in DOMAIN starts THEN [past.r EXCEPT !.pos = starts[i]] ELSE past.r)
             IN Took(x.r, Append(past.v, x.v)) = Took(at(i), SubSeq(v, 1, i))
  <2>1. past.r = at(i - 1) /\ past.v = SubSeq(v, 1, i - 1)
    BY <1>7 DEF Took
  <2>2. (IF i \in DOMAIN starts THEN [past.r EXCEPT !.pos = starts[i]] ELSE past.r) = at(i - 1)
    BY <1>6, <2>1
  <2> DEFINE x == Read(tys[i], IF i \in DOMAIN starts THEN [past.r EXCEPT !.pos = starts[i]] ELSE past.r)
  <2>3. x = Took(at(i), v[i])
    BY <1>6, <2>2
  <2> HIDE DEF x
  <2>4. x.r = at(i) /\ x.v = v[i]
    BY <2>3 DEF Took
  <2>5. Took(x.r, Append(past.v, x.v)) = Took(at(i), SubSeq(v, 1, i))
    BY <1>3, <2>1, <2>4
  <2> QED BY <2>5 DEF x
<1>8. EachIs(tys, starts, At(w, p), g)
  <2>1. ASSUME NEW i \in 0 .. n
        PROVE  g[i] = IF i = 0 THEN Took(At(w, p), <<>>)
                      ELSE LET past == g[i - 1]
                               x    == Read(tys[i], IF i \in DOMAIN starts THEN [past.r EXCEPT !.pos = starts[i]]
                                                    ELSE past.r)
                           IN Took(x.r, Append(past.v, x.v))
    <3>1. CASE i = 0
      BY <1>2, <1>5, <3>1
    <3>2. CASE i # 0
      <4>1. i \in 1 .. n /\ i - 1 \in 0 .. n
        BY <3>2
      <4>2. g[i - 1] = Took(at(i - 1), SubSeq(v, 1, i - 1)) /\ g[i] = Took(at(i), SubSeq(v, 1, i))
        BY <4>1
      <4> HIDE DEF g
      <4> QED BY <1>7, <3>2, <4>1, <4>2
    <3> QED BY <3>1, <3>2
  <2> QED BY <2>1 DEF EachIs
<1>9. PICK f : /\ EachIs(tys, starts, At(w, p), f)
               /\ ReadEach(tys, starts, At(w, p)) = f[Len(tys)]
  BY <1>8, ReadEachIs
<1> DEFINE T == {i \in Nat : i <= n => f[i] = g[i]}
<1>10. 0 \in T
  <2>1. 0 \in 0 .. n
    OBVIOUS
  <2>2. f[0] = Took(At(w, p), <<>>)
    BY <1>9, <2>1 DEF EachIs
  <2> QED BY <1>2, <1>5, <2>1, <2>2
<1>11. \A i \in T : i + 1 \in T
  <2> HIDE <1>0
  <2> SUFFICES ASSUME NEW i \in Nat, i + 1 <= n, i <= n => f[i] = g[i]
               PROVE  f[i + 1] = g[i + 1]
    <3> HIDE DEF g
    <3>1. \A i \in T : i + 1 \in Nat
      OBVIOUS
    <3> QED BY <3>1
  <2> HIDE DEF T
  <2>0. n \in Nat /\ Len(tys) = n
    BY <1>0
  <2>1. i + 1 \in 1 .. n /\ i + 1 \in 0 .. n /\ i \in 0 .. n /\ (i + 1) - 1 = i /\ i + 1 # 0
    BY <2>0
  <2>2. f[i] = Took(at(i), SubSeq(v, 1, i))
    BY <2>1
  <2> DEFINE past == f[(i + 1) - 1]
             x    == Read(tys[i + 1], IF i + 1 \in DOMAIN starts THEN [past.r EXCEPT !.pos = starts[i + 1]] ELSE past.r)
  <2>3. f[i + 1] = Took(x.r, Append(past.v, x.v))
    BY <1>9, <2>0, <2>1 DEF EachIs
  <2>4. Took(x.r, Append(past.v, x.v)) = Took(at(i + 1), SubSeq(v, 1, i + 1))
    BY <1>7, <2>1, <2>2
  <2> QED BY <2>1, <2>3, <2>4
<1> HIDE DEF T, g
<1>12. T = Nat
  BY <1>10, <1>11, NatSet DEF T
<1>13. f[n] = g[n]
  BY <1>12 DEF T
<1>14. g[n] = Took(At(w, p + Len(FlattenSeq(b))), v)
  <2>1. n \in 0 .. n
    OBVIOUS
  <2> QED BY <1>2, <1>5, <2>1 DEF g
<1> QED BY <1>9, <1>13, <1>14

-----------------------------------------------------------------------------
(***************************************************************************)
(* Layout by layout: a trip that fits is a round trip if its parts are.    *)
(***************************************************************************)
\* The codecs are a level and themselves on x.
Coded(x) ==
  /\ Write(x.out, x.val) = WriteBy(x.out, x.val)
  /\ \A w \in Bytes, p \in Nat : Read(x.in, At(w, p)) = ReadBy(x.in, At(w, p))

\* What a layout contains is carried.
PartsCarried(x) == \A y \in Parts(x) : RoundTrip(y)

\* The parts of a trip.
LEMMA TripIs ==
  ASSUME NEW out, NEW in, NEW v
  PROVE  /\ RoundTrip(Trip(out, in, v)) <=> Carries(out, in, v)
         /\ Trip(out, in, v).out = out /\ Trip(out, in, v).in = in /\ Trip(out, in, v).val = v
<1>1. Trip(out, in, v).out = out /\ Trip(out, in, v).in = in /\ Trip(out, in, v).val = v
  BY DEF Trip
<1> QED BY <1>1 DEF RoundTrip

\* The parts of what a reader took.
LEMMA TookIs ==
  ASSUME NEW r, NEW v
  PROVE  Took(r, v).r = r /\ Took(r, v).v = v
BY DEF Took

\* A number is written and read at the same width.
LEMMA CarriedNum ==
  ASSUME NEW x, Coded(x), Fits(x), x.out.t = "num"
  PROVE  RoundTrip(x)
<1>1. x.in.t = "num" /\ x.in.kind = x.out.kind /\ x.out.kind \in DOMAIN Width /\ x.val \in Int
  BY DEF Fits
<1>2. Write(x.out, x.val) = Num(x.out.kind, x.val)
  BY DEF Coded, WriteBy
<1>3. \A w \in Bytes, p \in Nat : Read(x.in, At(w, p)) = TakeNum(x.out.kind, At(w, p))
  BY <1>1 DEF Coded, ReadBy
<1>4. Num(x.out.kind, x.val) \in Bytes /\ Len(Num(x.out.kind, x.val)) = Width[x.out.kind]
  BY <1>1, NumIs
<1> QED BY <1>1, <1>2, <1>3, <1>4, NumBack DEF RoundTrip, Carries, Reads

\* A text or a blob of whole elements: as many bytes as the size says.
LEMMA CarriedRun ==
  ASSUME NEW x, Coded(x), Fits(x), x.out.t = "run"
  PROVE  RoundTrip(x)
<1> DEFINE n == x.val
           raw == Cell("raw", n, n)
<1>1. x.in.t = "run" /\ n \in Nat /\ x.in.unit \in {1, 4, 8} /\ n % x.in.unit = 0
  BY DEF Fits
<1>2. Write(x.out, n) = Num("i32", n) \o raw
  BY DEF Coded, WriteBy
<1>3. \A w \in Bytes, p \in Nat : Read(x.in, At(w, p)) = ReadRun(x.in.unit, At(w, p))
  BY <1>1 DEF Coded, ReadBy
<1>4. raw \in Bytes /\ Len(raw) = n /\ "raw" \in Kinds
  <2>1. "raw" \in Kinds
    BY DEF Kinds
  <2>2. n \in Int
    BY <1>1
  <2> QED BY <1>1, <2>1, <2>2, CellIs
<1>5. (n \div x.in.unit) * x.in.unit = n
  <2>1. \A k \in Nat : k % 1 = 0 => (k \div 1) * 1 = k
    OBVIOUS
  <2>2. \A k \in Nat : k % 4 = 0 => (k \div 4) * 4 = k
    OBVIOUS
  <2>3. \A k \in Nat : k % 8 = 0 => (k \div 8) * 8 = k
    OBVIOUS
  <2> QED BY <1>1, <2>1, <2>2, <2>3
<1>6. Num("i32", n) \o raw \in Bytes
  BY <1>1, <1>4, NumThen, WidthOf
<1>7. ASSUME NEW w \in Bytes, NEW p \in Nat, Holds(w, p, Num("i32", n) \o raw)
      PROVE  ReadRun(x.in.unit, At(w, p)) = Took(At(w, p + Len(Num("i32", n) \o raw)), n)
  <2>1. /\ TakeNum("i32", At(w, p)) = Took(At(w, p + 4), n)
        /\ Holds(w, p + 4, raw) /\ p + 4 \in Nat
        /\ p + Len(Num("i32", n) \o raw) = (p + 4) + n
    <3> HIDE DEF raw
    <3>1. "i32" \in DOMAIN Width /\ n \in Int /\ Width["i32"] = 4
      BY <1>1, WidthOf
    <3>2. /\ Len(Num("i32", n) \o raw) = 4 + n
          /\ TakeNum("i32", At(w, p)) = Took(At(w, p + 4), n) /\ Holds(w, p + 4, raw)
      BY <1>4, <1>7, <3>1, NumThen
    <3>3. p + Len(Num("i32", n) \o raw) = (p + 4) + n /\ p + 4 \in Nat
      BY <1>1, <3>2
    <3> QED BY <3>2, <3>3
  <2>2. Take("raw", n, At(w, p + 4)) = Took(At(w, (p + 4) + n), n)
    <3>1. CASE n = 0
      <4>1. (p + 4) + n = p + 4
        BY <2>1, <3>1
      <4> QED BY <3>1, <4>1 DEF Take
    <3>2. CASE n # 0
      <4>1. n \in Nat \ {0}
        BY <1>1, <3>2
      <4> QED BY <1>4, <2>1, <4>1, TakeBack
    <3> QED BY <3>1, <3>2
  <2> DEFINE m == (n \div x.in.unit) * x.in.unit
             y == Take("raw", m, At(w, p + 4))
  <2>3. ReadRun(x.in.unit, At(w, p)) = Took(If(y.v = m, y.r), m)
    BY <2>1, TookIs DEF ReadRun
  <2>4. y.r = At(w, (p + 4) + n) /\ y.v = n /\ m = n
    BY <1>5, <2>2, TookIs
  <2>5. If(y.v = m, y.r) = At(w, (p + 4) + n)
    <3> HIDE DEF y, m
    <3>1. (y.v = m) = TRUE
      BY <2>4
    <3>2. If(TRUE, y.r) = At(w, (p + 4) + n)
      BY <2>4, Kept
    <3> QED BY <3>1, <3>2
  <2> QED BY <2>1, <2>3, <2>4, <2>5
<1> QED BY <1>2, <1>3, <1>6, <1>7 DEF RoundTrip, Carries, Reads

\* The table of an enum, read backwards.
LEMMA Reversed ==
  ASSUME NEW table, NEW i \in DOMAIN table, Distinct(table), NEW u, u = table[i]
  PROVE  /\ \E k \in DOMAIN table : table[k] = u
         /\ (CHOOSE k \in DOMAIN table : table[k] = u) = i
BY DEF Distinct

\* A native value of an enum is read back as the index it was made of.
LEMMA EnumBack ==
  ASSUME NEW table \in Seq(Int), Distinct(table), NEW v \in Nat, v + 1 \in DOMAIN table,
         NEW w \in Bytes, NEW p \in Nat, Holds(w, p, Num("i64", table[v + 1]))
  PROVE  /\ TakeNum("i64", At(w, p)) = Took(At(w, p + 8), table[v + 1])
         /\ ReadEnum(table, At(w, p)) = Took(At(w, p + 8), v)
<1>1. table[v + 1] \in Int
  BY ElementOfSeq, LenProperties
<1>2. TakeNum("i64", At(w, p)) = Took(At(w, p + 8), table[v + 1])
  BY <1>1, NumBack, WidthOf
<1> DEFINE y == TakeNum("i64", At(w, p))
<1>3. y.v = table[v + 1] /\ y.r = At(w, p + 8)
  BY <1>2, TookIs
<1> HIDE DEF y
<1>4. /\ \E k \in DOMAIN table : table[k] = y.v
      /\ (CHOOSE k \in DOMAIN table : table[k] = y.v) = v + 1
  BY <1>3, Reversed
<1>5. (v + 1) - 1 = v
  OBVIOUS
<1>6. ReadEnum(table, At(w, p)) = Took(y.r, (CHOOSE k \in DOMAIN table : table[k] = y.v) - 1)
  BY <1>4 DEF ReadEnum, y
<1> QED BY <1>2, <1>3, <1>4, <1>5, <1>6

\* An enum, with one table on both sides.
LEMMA CarriedEnum ==
  ASSUME NEW x, Coded(x), Fits(x), x.out.t = "enum"
  PROVE  RoundTrip(x)
<1> DEFINE table == x.out.natives
           b == Num("i64", table[x.val + 1])
<1>1. /\ x.in.t = "enum" /\ SameTable(table, x.in.natives, Int)
      /\ x.val \in Nat /\ x.val + 1 \in DOMAIN table
  BY DEF Fits
<1>2. x.in.natives = table /\ table \in Seq(Int) /\ Distinct(table)
  BY <1>1 DEF SameTable
<1>3. Write(x.out, x.val) = b
  BY DEF Coded, WriteBy
<1>4. \A w \in Bytes, p \in Nat : Read(x.in, At(w, p)) = ReadEnum(table, At(w, p))
  BY <1>1, <1>2 DEF Coded, ReadBy
<1>5. b \in Bytes /\ Len(b) = 8
  <2>1. table[x.val + 1] \in Int
    BY <1>1, <1>2, ElementOfSeq, LenProperties
  <2> QED BY <2>1, NumIs, WidthOf
<1> HIDE DEF b, table
<1>6. \A w \in Bytes, p \in Nat :
        Holds(w, p, b) => ReadEnum(table, At(w, p)) = Took(At(w, p + 8), x.val)
  BY <1>1, <1>2, EnumBack DEF b
<1> QED BY <1>3, <1>4, <1>5, <1>6 DEF RoundTrip, Carries, Reads

\* An enum that may be null: -1 is no native value.
LEMMA CarriedEnumOrNull ==
  ASSUME NEW x, Coded(x), Fits(x), x.out.t = "enumornull"
  PROVE  RoundTrip(x)
<1> DEFINE table == x.out.natives
           number == IF x.val = <<>> THEN -1 ELSE table[x.val[1] + 1]
           b == Num("i64", number)
<1>1. /\ x.in.t = "enumornull" /\ SameTable(table, x.in.natives, Nat)
      /\ \/ x.val = <<>>
         \/ /\ x.val = <<x.val[1]>> /\ x.val[1] \in Nat /\ x.val[1] + 1 \in DOMAIN table
  BY DEF Fits
<1>2. x.in.natives = table /\ table \in Seq(Nat) /\ Distinct(table)
  BY <1>1 DEF SameTable
<1>3. Write(x.out, x.val) = b
  BY DEF Coded, WriteBy
<1>4. \A w \in Bytes, p \in Nat : Read(x.in, At(w, p)) = ReadEnumOrNull(table, At(w, p))
  BY <1>1, <1>2 DEF Coded, ReadBy
<1>5. \A i \in DOMAIN table : table[i] \in Nat
  BY <1>2, ElementOfSeq, LenProperties
<1>6. table \in Seq(Int)
  BY <1>2, SeqMonotonic
<1>7. number \in Int /\ (number < 0 <=> x.val = <<>>)
  <2>1. <<x.val[1]>> # <<>>
    OBVIOUS
  <2>2. CASE x.val = <<>>
    BY <2>2
  <2>3. CASE x.val # <<>>
    BY <1>1, <1>5, <2>3
  <2> QED BY <2>2, <2>3
<1>8. b \in Bytes /\ Len(b) = 8
  BY <1>7, NumIs, WidthOf
<1> HIDE DEF table
<1>9. ASSUME NEW w \in Bytes, NEW p \in Nat, Holds(w, p, b)
      PROVE  ReadEnumOrNull(table, At(w, p)) = Took(At(w, p + 8), x.val)
  <2>1. TakeNum("i64", At(w, p)) = Took(At(w, p + 8), number)
    <3> HIDE DEF number
    <3> QED BY <1>7, <1>9, NumBack, WidthOf
  <2>2. CASE x.val = <<>>
    BY <1>7, <2>1, <2>2, TookIs DEF ReadEnumOrNull
  <2>3. CASE x.val # <<>>
    <3>1. ReadEnum(table, At(w, p)) = Took(At(w, p + 8), x.val[1])
      <4>1. number = table[x.val[1] + 1]
        BY <2>3
      <4> HIDE DEF number
      <4> QED BY <1>1, <1>2, <1>6, <1>9, <2>3, <4>1, EnumBack
    <3>2. x.val = <<x.val[1]>>
      BY <1>1, <2>3
    <3> HIDE DEF number
    <3> QED BY <1>7, <2>1, <2>3, <3>1, <3>2, TookIs DEF ReadEnumOrNull
  <2> QED BY <2>2, <2>3
<1> HIDE DEF b
<1> QED BY <1>3, <1>4, <1>8, <1>9 DEF RoundTrip, Carries, Reads

\* What a part carries, in the form that its whole needs.
LEMMA PartBack ==
  ASSUME NEW in, NEW b \in Bytes, NEW v, Reads(in, b, v), NEW w \in Bytes, NEW p \in Nat,
         Holds(w, p, b)
  PROVE  Read(in, At(w, p)).r = At(w, p + Len(b)) /\ Read(in, At(w, p)).v = v
BY TookIs DEF Reads

\* An optional has no item or one.
LEMMA MaybeLen ==
  ASSUME NEW v, v = <<>> \/ v = <<v[1]>>
  PROVE  Len(v) = IF v = <<>> THEN 0 ELSE 1
<1>1. Len(<<>>) = 0
  OBVIOUS
<1>2. \A y : Len(<<y>>) = 1
  OBVIOUS
<1>3. CASE v = <<>>
  BY <1>1, <1>3
<1>4. CASE v # <<>>
  <2>1. v = <<v[1]>>
    BY <1>4
  <2>2. Len(<<v[1]>>) = 1
    BY <1>2
  <2> QED BY <1>4, <2>1, <2>2
<1> QED BY <1>3, <1>4

\* An optional value: the flag, and the value if there is one.
LEMMA CarriedOpt ==
  ASSUME NEW x, Coded(x), Fits(x), PartsCarried(x), x.out.t = "opt"
  PROVE  RoundTrip(x)
<1> DEFINE n == Len(x.val)
           part == IF x.val = <<>> THEN <<>> ELSE Write(x.out.of, x.val[1])
           b == Num("bool", n) \o part
<1>1. x.in.t = "opt" /\ (x.val = <<>> \/ x.val = <<x.val[1]>>)
  BY DEF Fits, MaybeOne
<1>2. Write(x.out, x.val) = b
  BY DEF Coded, WriteBy
<1>3. \A w \in Bytes, p \in Nat : Read(x.in, At(w, p)) = ReadOpt(x.in, At(w, p))
  BY <1>1 DEF Coded, ReadBy
<1>4. n = IF x.val = <<>> THEN 0 ELSE 1
  BY <1>1, MaybeLen
<1>5. x.val # <<>> => Carries(x.out.of, x.in.of, x.val[1])
  <2>1. x.val # <<>> => Trip(x.out.of, x.in.of, x.val[1]) \in Parts(x)
    BY DEF Parts
  <2> QED BY <2>1, TripIs DEF PartsCarried
<1>6. part \in Bytes
  <2>1. <<>> \in Bytes
    BY EmptySeq DEF Bytes
  <2> QED BY <1>5, <2>1 DEF Carries
<1>7. b \in Bytes /\ n \in Int
  <2>1. n \in Int
    BY <1>4
  <2> HIDE DEF part, n
  <2> QED BY <1>6, <2>1, NumThen, WidthOf
<1>8. ASSUME NEW w \in Bytes, NEW p \in Nat, Holds(w, p, b)
      PROVE  ReadOpt(x.in, At(w, p)) = Took(At(w, p + Len(b)), x.val)
  <2> DEFINE has == TakeNum("bool", At(w, p))
             y   == Read(x.in.of, has.r)
  <2>1. /\ has = Took(At(w, p + 1), n) /\ Holds(w, p + 1, part) /\ p + 1 \in Nat
        /\ p + Len(b) = (p + 1) + Len(part)
    <3> HIDE DEF part, n
    <3>1. /\ Len(b) = 1 + Len(part)
          /\ has = Took(At(w, p + 1), n) /\ Holds(w, p + 1, part)
      BY <1>6, <1>7, <1>8, NumThen, WidthOf
    <3>2. Len(part) \in Nat
      BY <1>6, LenProperties DEF Bytes
    <3> HIDE DEF has, b
    <3> QED BY <3>1, <3>2
  <2>2. has.r = At(w, p + 1) /\ has.v = n
    BY <2>1, TookIs
  <2>3. ReadOpt(x.in, At(w, p)) =
          IF has.v = 1 THEN Took(y.r, <<y.v>>)
          ELSE Took(IF x.in.t = "opt" THEN has.r ELSE y.r, <<>>)
    BY DEF ReadOpt
  <2>4. CASE x.val = <<>>
    <3>1. part = <<>> /\ Len(<<>>) = 0 /\ (p + 1) + 0 = p + 1
      BY <2>1, <2>4
    <3>2. p + Len(b) = p + 1
      BY <2>1, <3>1
    <3> HIDE DEF has, y, b, n
    <3> QED BY <1>1, <1>4, <2>2, <2>3, <2>4, <3>2
  <2>5. CASE x.val # <<>>
    <3>1. part = Write(x.out.of, x.val[1]) /\ Reads(x.in.of, part, x.val[1])
      BY <1>5, <2>5 DEF Carries
    <3> HIDE DEF part
    <3>2. y.r = At(w, (p + 1) + Len(part)) /\ y.v = x.val[1]
      BY <1>6, <2>1, <2>2, <3>1, PartBack
    <3> HIDE DEF has, y, b, n
    <3> QED BY <1>1, <1>4, <2>1, <2>2, <2>3, <2>5, <3>2
  <2> QED BY <2>4, <2>5
<1> HIDE DEF b
<1> QED BY <1>2, <1>3, <1>7, <1>8 DEF RoundTrip, Carries, Reads

\* An optional number in a struct: the bytes of a number in any case.
LEMMA CarriedPacked ==
  ASSUME NEW x, Coded(x), Fits(x), PartsCarried(x), x.out.t = "packed"
  PROVE  RoundTrip(x)
<1> DEFINE n == Len(x.val)
           inner == IF x.val = <<>> THEN 0 ELSE x.val[1]
           part == Write(x.out.of, inner)
           b == Num("bool", n) \o part
<1>1. x.in.t = "packed" /\ (x.val = <<>> \/ x.val = <<x.val[1]>>)
  BY DEF Fits, MaybeOne
<1>2. Write(x.out, x.val) = b
  BY DEF Coded, WriteBy
<1>3. \A w \in Bytes, p \in Nat : Read(x.in, At(w, p)) = ReadOpt(x.in, At(w, p))
  BY <1>1 DEF Coded, ReadBy
<1>4. n = IF x.val = <<>> THEN 0 ELSE 1
  BY <1>1, MaybeLen
<1>5. part \in Bytes /\ Reads(x.in.of, part, inner)
  <2>1. Trip(x.out.of, x.in.of, inner) \in Parts(x)
    BY DEF Parts
  <2> QED BY <2>1, TripIs DEF PartsCarried, Carries
<1>6. b \in Bytes /\ n \in Int
  <2>1. n \in Int
    BY <1>4
  <2> HIDE DEF part, n
  <2> QED BY <1>5, <2>1, NumThen, WidthOf
<1>7. ASSUME NEW w \in Bytes, NEW p \in Nat, Holds(w, p, b)
      PROVE  ReadOpt(x.in, At(w, p)) = Took(At(w, p + Len(b)), x.val)
  <2> DEFINE has == TakeNum("bool", At(w, p))
             y   == Read(x.in.of, has.r)
  <2> HIDE DEF part, n
  <2>1. /\ has = Took(At(w, p + 1), n) /\ Holds(w, p + 1, part) /\ p + 1 \in Nat
        /\ p + Len(b) = (p + 1) + Len(part)
    <3>1. part \in Bytes /\ n \in Int
      BY <1>5, <1>6
    <3>2. /\ Len(b) = 1 + Len(part)
          /\ has = Took(At(w, p + 1), n) /\ Holds(w, p + 1, part)
      BY <1>7, <3>1, NumThen, WidthOf
    <3>3. Len(part) \in Nat
      BY <3>1, LenProperties DEF Bytes
    <3> HIDE DEF has, b
    <3> QED BY <3>2, <3>3
  <2>2. has.r = At(w, p + 1) /\ has.v = n
    BY <2>1, TookIs
  <2>3. ReadOpt(x.in, At(w, p)) =
          IF has.v = 1 THEN Took(y.r, <<y.v>>)
          ELSE Took(IF x.in.t = "opt" THEN has.r ELSE y.r, <<>>)
    BY DEF ReadOpt
  <2>4. y.r = At(w, (p + 1) + Len(part)) /\ y.v = inner
    BY <1>5, <2>1, <2>2, PartBack
  <2> HIDE DEF has, y, b
  <2>5. CASE x.val = <<>>
    BY <1>1, <1>4, <2>1, <2>2, <2>3, <2>4, <2>5
  <2>6. CASE x.val # <<>>
    BY <1>1, <1>4, <2>1, <2>2, <2>3, <2>4, <2>6
  <2> QED BY <2>5, <2>6
<1> HIDE DEF b
<1> QED BY <1>2, <1>3, <1>6, <1>7 DEF RoundTrip, Carries, Reads

\* Bytes that are as many as they should be are left as they are.
LEMMA FitIs ==
  ASSUME NEW b \in Bytes
  PROVE  Fit(b, Len(b)) = b
<1>1. b \in Seq(Byte)
  BY DEF Bytes
<1>2. Fit(b, Len(b)) = [j \in 1 .. Len(b) |-> b[j]]
  BY <1>1 DEF Fit
<1> QED BY <1>1, <1>2, LenProperties

\* A frame is four bytes longer than its payload.
LEMMA FrameLen ==
  ASSUME NEW b \in Bytes
  PROVE  FrameOf(b) \in Bytes /\ Len(FrameOf(b)) = 4 + Len(b)
<1> DEFINE f == Num("i32", Len(b)) \o b
<1>1. FrameOf(b) = f
  BY DEF FrameOf
<1>2. Len(b) \in Nat /\ Len(b) \in Int
  BY BytesLen
<1>3. f \in Bytes /\ Len(f) = 4 + Len(b)
  <2>1. "i32" \in DOMAIN Width /\ Width["i32"] = 4
    BY WidthOf
  <2>2. f \in Bytes
    BY <1>2, <2>1, NumThen
  <2>3. Len(f) = Width["i32"] + Len(b)
    BY <1>2, <2>1, NumThen
  <2> HIDE DEF f
  <2> QED BY <2>1, <2>2, <2>3
<1> QED BY <1>1, <1>3

\* A payload behind its size is read back and ends where the size says.
LEMMA FrameBack ==
  ASSUME NEW in, NEW b \in Bytes, NEW v, Reads(in, b, v)
  PROVE  /\ FrameOf(b) \in Bytes
         /\ \A w \in Bytes, p \in Nat :
              Holds(w, p, FrameOf(b)) =>
                ReadFrame(in, At(w, p)) = Took(At(w, p + Len(FrameOf(b))), v)
<1> DEFINE f == Num("i32", Len(b)) \o b
<1>1. FrameOf(b) = f
  BY DEF FrameOf
<1>2. Len(b) \in Nat /\ Len(b) \in Int
  BY BytesLen
<1>3. f \in Bytes /\ Len(f) = 4 + Len(b)
  BY <1>1, FrameLen
<1>4. ASSUME NEW w \in Bytes, NEW p \in Nat, Holds(w, p, f)
      PROVE  ReadFrame(in, At(w, p)) = Took(At(w, p + Len(f)), v)
  <2> DEFINE n == TakeNum("i32", At(w, p))
             y == Read(in, n.r)
             end == n.r.pos + n.v
  <2>1. /\ n = Took(At(w, p + 4), Len(b)) /\ Holds(w, p + 4, b) /\ p + 4 \in Nat
        /\ p + Len(f) = (p + 4) + Len(b)
    BY <1>2, <1>4, NumThen, WidthOf
  <2>2. n.r = At(w, p + 4) /\ n.v = Len(b)
    BY <2>1, TookIs
  <2>3. y.r = At(w, (p + 4) + Len(b)) /\ y.v = v
    BY <2>1, <2>2, PartBack
  <2>4. end = (p + 4) + Len(b)
    BY <2>2 DEF At
  <2>5. ReadFrame(in, At(w, p)) =
          Took([w |-> y.r.w, pos |-> end, ok |-> y.r.ok, exact |-> y.r.exact /\ y.r.pos = end], y.v)
    BY DEF ReadFrame
  <2> HIDE DEF n, y, end, f
  <2>6. /\ y.r.w = w /\ y.r.pos = end /\ y.r.ok = TRUE /\ y.r.exact = TRUE
        /\ (y.r.exact /\ y.r.pos = end) = TRUE
    BY <2>3, <2>4 DEF At
  <2>7. [w |-> y.r.w, pos |-> end, ok |-> y.r.ok, exact |-> y.r.exact /\ y.r.pos = end] = At(w, end)
    BY <2>6 DEF At
  <2> QED BY <2>1, <2>3, <2>4, <2>5, <2>7
<1> QED BY <1>1, <1>3, <1>4

\* A value behind its size.
LEMMA CarriedFrame ==
  ASSUME NEW x, Coded(x), Fits(x), PartsCarried(x), x.out.t = "frame"
  PROVE  RoundTrip(x)
<1> DEFINE payload == Write(x.out.of, x.val)
<1>1. x.in.t = "frame"
  BY DEF Fits
<1>2. Write(x.out, x.val) = FrameOf(payload)
  BY DEF Coded, WriteBy
<1>3. \A w \in Bytes, p \in Nat : Read(x.in, At(w, p)) = ReadFrame(x.in.of, At(w, p))
  BY <1>1 DEF Coded, ReadBy
<1>4. payload \in Bytes /\ Reads(x.in.of, payload, x.val)
  <2>1. Trip(x.out.of, x.in.of, x.val) \in Parts(x)
    BY DEF Parts
  <2> QED BY <2>1, TripIs DEF PartsCarried, Carries
<1> HIDE DEF payload
<1>5. /\ FrameOf(payload) \in Bytes
      /\ \A w \in Bytes, p \in Nat :
           Holds(w, p, FrameOf(payload)) =>
             ReadFrame(x.in.of, At(w, p)) = Took(At(w, p + Len(FrameOf(payload))), x.val)
  <2>1. ASSUME NEW w \in Bytes, NEW p \in Nat, Holds(w, p, FrameOf(payload))
        PROVE  ReadFrame(x.in.of, At(w, p)) = Took(At(w, p + Len(FrameOf(payload))), x.val)
    BY <1>4, <2>1, FrameBack
  <2> QED BY <1>4, <2>1, FrameLen
<1> QED BY <1>2, <1>3, <1>5 DEF RoundTrip, Carries, Reads

\* A value behind a size of which Swift uses the first byte, below 256 bytes.
LEMMA CarriedShortFrame ==
  ASSUME NEW x, Coded(x), Fits(x), PartsCarried(x), x.out.t = "shortframe"
  PROVE  RoundTrip(x)
<1> DEFINE payload == Write(x.out.of, x.val)
<1>1. x.in.t = "frame" /\ Len(payload) < 256
  BY DEF Fits
<1>2. Write(x.out, x.val) = ShortFrameOf(payload)
  BY DEF Coded, WriteBy
<1>3. \A w \in Bytes, p \in Nat : Read(x.in, At(w, p)) = ReadFrame(x.in.of, At(w, p))
  BY <1>1 DEF Coded, ReadBy
<1>4. payload \in Bytes /\ Reads(x.in.of, payload, x.val)
  <2>1. Trip(x.out.of, x.in.of, x.val) \in Parts(x)
    BY DEF Parts
  <2> QED BY <2>1, TripIs DEF PartsCarried, Carries
<1> HIDE DEF payload
<1>5. ShortFrameOf(payload) = FrameOf(payload)
  <2>1. Len(payload) \in Nat
    BY <1>4, BytesLen
  <2>2. \A n \in Nat : n < 256 => n % 256 = n
    OBVIOUS
  <2>3. Len(payload) % 256 = Len(payload)
    BY <1>1, <2>1, <2>2
  <2> QED BY <1>4, <2>3, FitIs DEF ShortFrameOf, FrameOf
<1>6. /\ FrameOf(payload) \in Bytes
      /\ \A w \in Bytes, p \in Nat :
           Holds(w, p, FrameOf(payload)) =>
             ReadFrame(x.in.of, At(w, p)) = Took(At(w, p + Len(FrameOf(payload))), x.val)
  <2>1. ASSUME NEW w \in Bytes, NEW p \in Nat, Holds(w, p, FrameOf(payload))
        PROVE  ReadFrame(x.in.of, At(w, p)) = Took(At(w, p + Len(FrameOf(payload))), x.val)
    BY <1>4, <2>1, FrameBack
  <2> QED BY <1>4, <2>1, FrameLen
<1> QED BY <1>2, <1>3, <1>5, <1>6 DEF RoundTrip, Carries, Reads

\* A tag in front of a part.
LEMMA TagThen ==
  ASSUME NEW tag \in Int, NEW out, NEW in, NEW v, Carries(out, in, v)
  PROVE  LET b == Num("i8", tag) \o Write(out, v) IN
         /\ b \in Bytes
         /\ \A w \in Bytes, p \in Nat :
              Holds(w, p, b) =>
                /\ TakeNum("i8", At(w, p)).r = At(w, p + 1)
                /\ TakeNum("i8", At(w, p)).v = tag
                /\ Read(in, At(w, p + 1)).r = At(w, p + Len(b))
                /\ Read(in, At(w, p + 1)).v = v
<1> DEFINE part == Write(out, v)
           b == Num("i8", tag) \o part
<1>1. part \in Bytes /\ Reads(in, part, v)
  BY DEF Carries
<1> HIDE DEF part
<1>2. b \in Bytes
  BY <1>1, NumThen, WidthOf
<1>3. ASSUME NEW w \in Bytes, NEW p \in Nat, Holds(w, p, b)
      PROVE  /\ TakeNum("i8", At(w, p)).r = At(w, p + 1)
             /\ TakeNum("i8", At(w, p)).v = tag
             /\ Read(in, At(w, p + 1)).r = At(w, p + Len(b))
             /\ Read(in, At(w, p + 1)).v = v
  <2>1. /\ TakeNum("i8", At(w, p)) = Took(At(w, p + 1), tag)
        /\ Holds(w, p + 1, part) /\ p + 1 \in Nat
        /\ p + Len(b) = (p + 1) + Len(part)
    BY <1>1, <1>3, NumThen, WidthOf
  <2> HIDE DEF b
  <2> QED BY <1>1, <2>1, TookIs, PartBack
<1> QED BY <1>2, <1>3 DEF part

\* A variant: its tag, and its case.
LEMMA CarriedVariant ==
  ASSUME NEW x, Coded(x), Fits(x), PartsCarried(x), x.out.t = "variant"
  PROVE  RoundTrip(x)
<1> DEFINE tag == x.val[1]
           v == x.val[2]
           out == x.out.cases[tag + 1]
           in == x.in.cases[tag + 1]
           b == Num("i8", tag) \o Write(out, v)
<1>1. /\ x.in.t = "variant" /\ DOMAIN x.out.cases = DOMAIN x.in.cases
      /\ x.val = <<tag, v>> /\ tag \in Nat /\ tag + 1 \in DOMAIN x.out.cases
  BY DEF Fits
<1>2. Write(x.out, x.val) = b
  BY DEF Coded, WriteBy
<1>3. \A w \in Bytes, p \in Nat : Read(x.in, At(w, p)) = ReadCase(x.in.cases, At(w, p))
  BY <1>1 DEF Coded, ReadBy
<1>4. Carries(out, in, v)
  <2>1. Trip(out, in, v) \in Parts(x)
    BY DEF Parts
  <2> QED BY <2>1, TripIs DEF PartsCarried
<1>5. tag \in Int
  BY <1>1
<1> HIDE DEF tag, v, out
<1>6. b \in Bytes
  BY <1>4, <1>5, TagThen
<1>7. ASSUME NEW w \in Bytes, NEW p \in Nat, Holds(w, p, b)
      PROVE  ReadCase(x.in.cases, At(w, p)) = Took(At(w, p + Len(b)), x.val)
  <2> DEFINE t == TakeNum("i8", At(w, p))
             y == Read(x.in.cases[t.v + 1], t.r)
  <2>1. t.r = At(w, p + 1) /\ t.v = tag
    BY <1>4, <1>5, <1>7, TagThen
  <2>2. y = Read(in, At(w, p + 1))
    BY <2>1
  <2>3. y.r = At(w, p + Len(b)) /\ y.v = v
    BY <1>4, <1>5, <1>7, <2>2, TagThen
  <2>4. ReadCase(x.in.cases, At(w, p)) =
          IF t.v + 1 \notin DOMAIN x.in.cases THEN Took(Garbage(t.r), <<0, 0>>)
          ELSE Took(y.r, <<t.v, y.v>>)
    BY DEF ReadCase
  <2> HIDE DEF t, y, b, in
  <2> QED BY <1>1, <2>1, <2>3, <2>4
<1> HIDE DEF b
<1> QED BY <1>2, <1>3, <1>6, <1>7 DEF RoundTrip, Carries, Reads

\* A value of a map behind its tag, or tag 0 for null.
LEMMA CarriedTagged ==
  ASSUME NEW x, Coded(x), Fits(x), PartsCarried(x), x.out.t = "tagged"
  PROVE  RoundTrip(x)
<1> DEFINE tag == x.out.tag
           null == x.out.nullable /\ x.val = <<>>
           v == IF x.out.nullable THEN x.val[1] ELSE x.val
           full == Num("i8", tag) \o Write(x.out.of, v)
           none == Num("i8", 0)
<1>1. /\ x.in.t = "tagged" /\ x.in.tag = tag /\ tag \in Nat \ {0}
      /\ x.out.nullable = x.in.nullable
      /\ x.out.nullable => x.val = <<>> \/ x.val = <<x.val[1]>>
  BY DEF Fits, MaybeOne
<1>2. Write(x.out, x.val) = IF null THEN none ELSE full
  BY DEF Coded, WriteBy
<1>3. \A w \in Bytes, p \in Nat : Read(x.in, At(w, p)) = ReadTagged(x.in, At(w, p))
  BY <1>1 DEF Coded, ReadBy
<1>4. ~null => Carries(x.out.of, x.in.of, v)
  <2>1. ~null => Trip(x.out.of, x.in.of, v) \in Parts(x)
    BY DEF Parts
  <2> QED BY <2>1, TripIs DEF PartsCarried
<1>5. tag \in Int /\ tag # 0
  BY <1>1
<1>6. none \in Bytes /\ Len(none) = 1
  <2>1. 0 \in Int /\ "i8" \in DOMAIN Width /\ Width["i8"] = 1
    BY WidthOf
  <2> QED BY <2>1, NumIs
<1>7. ~null => full \in Bytes
  <2> HIDE DEF v, null, tag
  <2> QED BY <1>4, <1>5, TagThen
<1>8. ASSUME NEW w \in Bytes, NEW p \in Nat
      PROVE  LET t == TakeNum("i8", At(w, p))
                 y == Read(x.in.of, t.r)
             IN ReadTagged(x.in, At(w, p)) =
                  IF x.in.nullable /\ t.v = 0 THEN Took(t.r, <<>>)
                  ELSE Took(If(x.in.checked => t.v = x.in.tag, y.r),
                            IF x.in.nullable THEN <<y.v>> ELSE y.v)
  BY DEF ReadTagged
<1>9. ASSUME null, NEW w \in Bytes, NEW p \in Nat, Holds(w, p, none)
      PROVE  ReadTagged(x.in, At(w, p)) = Took(At(w, p + 1), x.val)
  <2> DEFINE t == TakeNum("i8", At(w, p))
  <2>1. t = Took(At(w, p + 1), 0)
    BY <1>9, NumBack, WidthOf
  <2>2. t.r = At(w, p + 1) /\ t.v = 0
    BY <2>1, TookIs
  <2> HIDE DEF t
  <2>3. ReadTagged(x.in, At(w, p)) = Took(t.r, <<>>)
    BY <1>1, <1>8, <1>9, <2>2 DEF t
  <2> QED BY <1>9, <2>2, <2>3
<1>10. ASSUME ~null, NEW w \in Bytes, NEW p \in Nat, Holds(w, p, full)
       PROVE  ReadTagged(x.in, At(w, p)) = Took(At(w, p + Len(full)), x.val)
  <2> DEFINE t == TakeNum("i8", At(w, p))
             y == Read(x.in.of, t.r)
             b == x.in.checked => t.v = x.in.tag
  <2>1. t.r = At(w, p + 1) /\ t.v = tag
    <3> HIDE DEF v, null, tag
    <3> QED BY <1>4, <1>5, <1>10, TagThen
  <2>2. y.r = At(w, p + Len(full)) /\ y.v = v
    <3>1. y = Read(x.in.of, At(w, p + 1))
      BY <2>1
    <3> HIDE DEF v, null, tag
    <3> QED BY <1>4, <1>5, <1>10, <3>1, TagThen
  <2>3. b = TRUE
    BY <1>1, <2>1
  <2>4. ReadTagged(x.in, At(w, p)) = Took(If(b, y.r), IF x.in.nullable THEN <<y.v>> ELSE y.v)
    <3>1. ~(x.in.nullable /\ t.v = 0)
      BY <1>5, <2>1
    <3> QED BY <1>8, <3>1
  <2> HIDE DEF t, y, b, full
  <2>5. If(b, y.r) = y.r
    <3>1. If(TRUE, At(w, p + Len(full))) = At(w, p + Len(full))
      BY Kept
    <3> QED BY <2>2, <2>3, <3>1
  <2>6. (IF x.in.nullable THEN <<y.v>> ELSE y.v) = x.val
    BY <1>1, <1>10, <2>2
  <2> QED BY <2>2, <2>4, <2>5, <2>6
<1> HIDE DEF none, full, null
<1>11. CASE null
  BY <1>2, <1>3, <1>6, <1>9, <1>11 DEF RoundTrip, Carries, Reads
<1>12. CASE ~null
  BY <1>2, <1>3, <1>7, <1>10, <1>12 DEF RoundTrip, Carries, Reads
<1> QED BY <1>11, <1>12

\* A value that says what it is: the index of its kind, and the value.
LEMMA CarriedAny ==
  ASSUME NEW x, Coded(x), Fits(x), PartsCarried(x), x.out.t = "any"
  PROVE  RoundTrip(x)
<1> DEFINE tags == x.out.tags
           kind == x.val[1]
           v == x.val[2]
           i == CHOOSE i \in DOMAIN tags : tags[i] = kind
           out == AnyOf(tags, kind)
           b == Num("i8", i - 1) \o Write(out, v)
<1>1. /\ x.in.t = "any" /\ SameTable(tags, x.in.tags, STRING)
      /\ x.val = <<kind, v>> /\ \E k \in DOMAIN tags : tags[k] = kind
  BY DEF Fits
<1>2. x.in.tags = tags /\ tags \in Seq(STRING)
  BY <1>1 DEF SameTable
<1>3. Write(x.out, x.val) = b
  BY DEF Coded, WriteBy
<1>4. \A w \in Bytes, p \in Nat : Read(x.in, At(w, p)) = ReadAny(tags, At(w, p))
  BY <1>1, <1>2 DEF Coded, ReadBy
<1>5. Carries(out, out, v)
  <2>1. Trip(out, AnyOf(x.in.tags, kind), v) \in Parts(x)
    BY DEF Parts
  <2> QED BY <1>2, <2>1, TripIs DEF PartsCarried
<1>6. i \in DOMAIN tags /\ tags[i] = kind
  BY <1>1
<1> HIDE DEF i, kind, v
<1>7. i \in Nat /\ i - 1 \in Int /\ (i - 1) + 1 = i
  <2>1. DOMAIN tags = 1 .. Len(tags) /\ Len(tags) \in Nat
    BY <1>2, LenProperties
  <2> QED BY <1>6, <2>1
<1> HIDE DEF out, tags
<1>8. b \in Bytes
  BY <1>5, <1>7, TagThen
<1>9. ASSUME NEW w \in Bytes, NEW p \in Nat, Holds(w, p, b)
      PROVE  ReadAny(tags, At(w, p)) = Took(At(w, p + Len(b)), x.val)
  <2> DEFINE t == TakeNum("i8", At(w, p))
             y == Read(AnyOf(tags, tags[t.v + 1]), t.r)
  <2>1. t.r = At(w, p + 1) /\ t.v = i - 1
    BY <1>5, <1>7, <1>9, TagThen
  <2>2. t.v + 1 = i
    BY <1>7, <2>1
  <2>3. y = Read(out, At(w, p + 1))
    BY <1>6, <2>1, <2>2 DEF out
  <2>4. y.r = At(w, p + Len(b)) /\ y.v = v
    BY <1>5, <1>7, <1>9, <2>3, TagThen
  <2>5. ReadAny(tags, At(w, p)) =
          IF t.v + 1 \notin DOMAIN tags THEN Took(Garbage(t.r), <<"null", 0>>)
          ELSE Took(y.r, <<tags[t.v + 1], y.v>>)
    BY DEF ReadAny
  <2> HIDE DEF t, y, b
  <2>6. t.v + 1 \in DOMAIN tags /\ tags[t.v + 1] = kind
    BY <1>6, <2>2
  <2> QED BY <1>1, <2>4, <2>5, <2>6
<1> HIDE DEF b
<1> QED BY <1>3, <1>4, <1>8, <1>9 DEF RoundTrip, Carries, Reads

\* Items that are bytes flatten to bytes.
LEMMA ItemsAre ==
  ASSUME NEW n \in Nat, NEW b, b = [i \in 1 .. n |-> b[i]], \A i \in 1 .. n : b[i] \in Bytes
  PROVE  b \in Seq(Bytes) /\ Len(b) = n /\ FlattenSeq(b) \in Bytes
<1>1. b \in [1 .. n -> Bytes]
  OBVIOUS
<1>2. b \in Seq(Bytes)
  BY <1>1, SeqDef
<1>3. Len(b) = n
  BY <1>1, <1>2, LenProperties
<1>4. n \in 0 .. n
  OBVIOUS
<1> QED BY <1>2, <1>3, <1>4, UptoFacts

\* Every item of b reads back as an item of v.
ItemsRead(of, b, v) ==
  v = [i \in 1 .. Len(b) |-> v[i]] /\ \A i \in 1 .. Len(b) : Reads(of, b[i], v[i])

\* A list has the layout of its items as often as it has items.
LEMMA SameTypes ==
  ASSUME NEW of, NEW n \in Nat
  PROVE  Len([i \in 1 .. n |-> of]) = n
<1> DEFINE tys == [i \in 1 .. n |-> of]
<1>1. tys \in [1 .. n -> {of}]
  OBVIOUS
<1> HIDE DEF tys
<1>2. tys \in Seq({of})
  BY <1>1, SeqDef
<1>3. Len(tys) = n
  BY <1>1, <1>2, LenProperties
<1> QED BY <1>3 DEF tys

\* Items of a list, in the form that ReadEach needs.
LEMMA SameTypesRead ==
  ASSUME NEW of, NEW n \in Nat, NEW v, NEW b \in Seq(Bytes), Len(b) = n, ItemsRead(of, b, v)
  PROVE  EachReads([i \in 1 .. n |-> of], b, v)
<1> DEFINE tys == [i \in 1 .. n |-> of]
<1>1. Len(tys) = n
  BY SameTypes
<1>2. \A i \in 1 .. n : tys[i] = of
  OBVIOUS
<1> HIDE DEF tys
<1>3. \A i \in 1 .. Len(b) : Reads(tys[i], b[i], v[i])
  BY <1>2 DEF ItemsRead
<1>4. v = [i \in 1 .. Len(b) |-> v[i]]
  BY DEF ItemsRead
<1>5. EachReads(tys, b, v)
  BY <1>1, <1>3, <1>4 DEF EachReads
<1> QED BY <1>5 DEF tys

\* What a list's reader makes of its count and its items.
ListRead(of, r) ==
  LET n == TakeNum("i32", r) IN ReadEach([i \in 1 .. n.v |-> of], <<>>, n.r)

\* What a list's writer makes of its items.
ListBytes(b) == Num("i32", Len(b)) \o FlattenSeq(b)

\* Items behind their count are read back.
LEMMA ListBack ==
  ASSUME NEW of, NEW v, NEW b \in Seq(Bytes), ItemsRead(of, b, v),
         NEW w \in Bytes, NEW p \in Nat, Holds(w, p, ListBytes(b))
  PROVE  ListRead(of, At(w, p)) = Took(At(w, p + Len(ListBytes(b))), v)
<1> DEFINE n == Len(b)
<1>a. n \in Nat /\ Len(b) = n /\ ListBytes(b) = Num("i32", n) \o FlattenSeq(b)
  BY DEF ListBytes
<1> HIDE DEF n
<1> USE <1>a
<1> DEFINE t == TakeNum("i32", At(w, p))
           tys == [i \in 1 .. n |-> of]
           flat == FlattenSeq(b)
<1>0. flat \in Bytes /\ n \in Int
  <2>1. Len(b) \in 0 .. Len(b)
    OBVIOUS
  <2>2. n \in Int
    OBVIOUS
  <2>3. FlattenSeq(b) \in Bytes
    BY <2>1, UptoFacts
  <2> QED BY <2>2, <2>3
<1> HIDE DEF flat
<1>1. /\ t = Took(At(w, p + 4), n) /\ Holds(w, p + 4, flat) /\ p + 4 \in Nat
      /\ p + Len(Num("i32", n) \o flat) = (p + 4) + Len(flat)
  BY <1>0, NumThen, WidthOf DEF flat
<1>2. t.r = At(w, p + 4) /\ t.v = n
  BY <1>1, TookIs
<1>3. EachReads(tys, b, v)
  BY SameTypesRead
<1>4. ListRead(of, At(w, p)) = ReadEach(tys, <<>>, At(w, p + 4))
  BY <1>2 DEF ListRead
<1> HIDE DEF t, tys
<1>5. ReadEach(tys, <<>>, At(w, p + 4)) = Took(At(w, (p + 4) + Len(flat)), v)
  <2>1. Holds(w, p + 4, FlattenSeq(b)) /\ p + 4 \in Nat
    BY <1>1 DEF flat
  <2> DEFINE starts == <<>>
             q == p + 4
  <2>2. Placed(starts, b, q)
    BY DEF Placed
  <2>3. Holds(w, q, FlattenSeq(b)) /\ q \in Nat
    BY <2>1
  <2> HIDE DEF starts, q
  <2>4. ReadEach(tys, starts, At(w, q)) = Took(At(w, q + Len(FlattenSeq(b))), v)
    BY <1>3, <2>2, <2>3, EachBack
  <2> QED BY <2>4 DEF flat, starts, q
<1> QED BY <1>1, <1>4, <1>5 DEF flat

\* A list: its count, and its items.
LEMMA CarriedList ==
  ASSUME NEW x, Coded(x), Fits(x), PartsCarried(x), x.out.t = "list"
  PROVE  RoundTrip(x)
<1> DEFINE v == x.val
           n == Len(v)
           items == [i \in 1 .. n |-> Write(x.out.of, v[i])]
           b == ListBytes(items)
<1>1. /\ x.in.t = "list" /\ DOMAIN v = 1 .. n /\ n \in Nat /\ v = [i \in 1 .. n |-> v[i]]
  BY DEF Fits, IsList
<1>2. Write(x.out, v) = Num("i32", n) \o FlattenSeq(items)
  BY <1>1 DEF Coded, WriteBy
<1>3. \A w \in Bytes, p \in Nat : Read(x.in, At(w, p)) = ListRead(x.in.of, At(w, p))
  BY <1>1 DEF Coded, ReadBy, ReadList, ReadInOrder, ListRead
<1>4. \A i \in 1 .. n : Carries(x.out.of, x.in.of, v[i])
  <2>1. \A i \in 1 .. n : Trip(x.out.of, x.in.of, v[i]) \in Parts(x)
    BY <1>1 DEF Parts
  <2> QED BY <2>1, TripIs DEF PartsCarried
<1>5. /\ items = [i \in 1 .. n |-> items[i]]
      /\ \A i \in 1 .. n : items[i] \in Bytes /\ Reads(x.in.of, items[i], v[i])
  BY <1>4 DEF Carries
<1> HIDE DEF items, v, n
<1>6. items \in Seq(Bytes) /\ Len(items) = n /\ FlattenSeq(items) \in Bytes
  BY <1>1, <1>5, ItemsAre
<1>7. b \in Bytes /\ Write(x.out, v) = b
  <2>1. n \in Int
    BY <1>1
  <2> QED BY <1>2, <1>6, <2>1, NumThen, WidthOf DEF ListBytes
<1>8. ASSUME NEW w \in Bytes, NEW p \in Nat, Holds(w, p, b)
      PROVE  ListRead(x.in.of, At(w, p)) = Took(At(w, p + Len(b)), v)
  <2>1. ItemsRead(x.in.of, items, v)
    BY <1>1, <1>5, <1>6 DEF ItemsRead
  <2> QED BY <1>1, <1>6, <1>8, <2>1, ListBack
<1> HIDE DEF b
<1> QED BY <1>3, <1>7, <1>8 DEF RoundTrip, Carries, Reads, v

\* What a record's reader makes of its fields.
RecRead(fields, r) ==
  LET xs == ReadEach([i \in DOMAIN fields |-> fields[i][2]], <<>>, r)
      at(name) == CHOOSE i \in DOMAIN fields : fields[i][1] = name
  IN Took(xs.r, [name \in {fields[i][1] : i \in DOMAIN fields} |-> xs.v[at(name)]])

\* A record: its fields in one order on both sides, under distinct names.
LEMMA CarriedRec ==
  ASSUME NEW x, Coded(x), Fits(x), PartsCarried(x), x.out.t = "rec"
  PROVE  RoundTrip(x)
<1> DEFINE outs == x.out.fields
           ins == x.in.fields
           v == x.val
           n == Len(outs)
           name(i) == outs[i][1]
           items == [i \in 1 .. n |-> Write(outs[i][2], v[name(i)])]
           bs == FlattenSeq(items)
           types == [i \in 1 .. n |-> ins[i][2]]
           vals == [i \in 1 .. n |-> v[name(i)]]
<1>1. /\ x.in.t = "rec" /\ DOMAIN outs = 1 .. n /\ n \in Nat /\ DOMAIN ins = 1 .. n
      /\ \A i \in 1 .. n : ins[i][1] = name(i)
      /\ \A i, j \in 1 .. n : name(i) = name(j) => i = j
      /\ v = [a \in {name(i) : i \in 1 .. n} |-> v[a]]
  BY DEF Fits, IsList, Distinct
<1>2. Write(x.out, v) = bs
  BY <1>1 DEF Coded, WriteBy
<1>3. \A w \in Bytes, p \in Nat : Read(x.in, At(w, p)) = RecRead(ins, At(w, p))
  <2>1. \A w \in Bytes, p \in Nat : Read(x.in, At(w, p)) = ReadRec(ins, At(w, p))
    BY <1>1 DEF Coded, ReadBy
  <2>2. \A r : ReadRec(ins, r) = RecRead(ins, r)
    BY Zenon DEF ReadRec, ReadInOrder, RecRead
  <2>3. ASSUME NEW w \in Bytes, NEW p \in Nat
        PROVE  Read(x.in, At(w, p)) = RecRead(ins, At(w, p))
    BY <2>1, <2>2, Zenon
  <2> QED BY <2>3
<1>4. \A i \in 1 .. n : Carries(outs[i][2], ins[i][2], v[name(i)])
  <2>1. \A i \in 1 .. n : Trip(outs[i][2], ins[i][2], v[name(i)]) \in Parts(x)
    BY <1>1 DEF Parts
  <2> QED BY <2>1, TripIs DEF PartsCarried
<1>5. /\ items = [i \in 1 .. n |-> items[i]]
      /\ \A i \in 1 .. n : items[i] \in Bytes /\ Reads(ins[i][2], items[i], v[name(i)])
  BY <1>4 DEF Carries
<1>6. /\ types \in Seq({ins[i][2] : i \in 1 .. n}) /\ Len(types) = n
      /\ \A i \in 1 .. n : types[i] = ins[i][2] /\ vals[i] = v[name(i)]
      /\ vals = [i \in 1 .. n |-> vals[i]]
  <2> DEFINE S == {ins[i][2] : i \in 1 .. n}
  <2>1. types \in [1 .. n -> S]
    OBVIOUS
  <2>2. \A i \in 1 .. n : types[i] = ins[i][2] /\ vals[i] = v[name(i)]
    OBVIOUS
  <2>3. vals = [i \in 1 .. n |-> vals[i]]
    OBVIOUS
  <2> HIDE DEF types, S
  <2>4. types \in Seq(S)
    BY <1>1, <2>1, SeqDef
  <2>5. Len(types) = n
    BY <1>1, <2>1, <2>4, LenProperties
  <2> QED BY <2>2, <2>3, <2>4, <2>5 DEF S
<1>7. types = [i \in DOMAIN ins |-> ins[i][2]]
  BY <1>1
<1> HIDE DEF items, n, types, vals, v
<1>8. items \in Seq(Bytes) /\ Len(items) = n /\ bs \in Bytes
  BY <1>1, <1>5, ItemsAre
<1>9. ASSUME NEW w \in Bytes, NEW p \in Nat, Holds(w, p, bs)
      PROVE  RecRead(ins, At(w, p)) = Took(At(w, p + Len(bs)), v)
  <2> DEFINE none == <<>>
             xs == ReadEach(types, none, At(w, p))
             at(a) == CHOOSE i \in 1 .. n : ins[i][1] = a
  <2>1. Placed(none, items, p) /\ EachReads(types, items, vals)
    <3>1. Placed(none, items, p)
      BY DEF Placed
    <3>2. \A i \in 1 .. Len(items) : Reads(types[i], items[i], vals[i])
      BY <1>5, <1>6, <1>8
    <3>3. Len(types) = Len(items) /\ vals = [i \in 1 .. Len(items) |-> vals[i]]
      BY <1>6, <1>8
    <3> QED BY <3>1, <3>2, <3>3 DEF EachReads
  <2> HIDE DEF none
  <2>2. xs = Took(At(w, p + Len(bs)), vals)
    BY <1>8, <1>9, <2>1, EachBack
  <2>3. xs.r = At(w, p + Len(bs)) /\ xs.v = vals
    BY <2>2, TookIs
  <2>4. RecRead(ins, At(w, p)) = Took(xs.r, [a \in {ins[i][1] : i \in 1 .. n} |-> xs.v[at(a)]])
    BY <1>1, <1>7 DEF RecRead, none
  <2>5. \A i \in 1 .. n : at(name(i)) = i
    BY <1>1
  <2>6. {ins[i][1] : i \in 1 .. n} = {name(i) : i \in 1 .. n}
    BY <1>1
  <2> HIDE DEF xs, bs, at
  <2>7. \A a \in {name(i) : i \in 1 .. n} : vals[at(a)] = v[a]
    BY <1>6, <2>5
  <2>8. [a \in {ins[i][1] : i \in 1 .. n} |-> xs.v[at(a)]] = v
    BY <1>1, <2>3, <2>6, <2>7
  <2> QED BY <2>3, <2>4, <2>8
<1> HIDE DEF bs
<1> QED BY <1>2, <1>3, <1>8, <1>9 DEF RoundTrip, Carries, Reads, v

-----------------------------------------------------------------------------
(***************************************************************************)
(* Lists with offsets.                                                     *)
(***************************************************************************)
\* Items of the same length.
LEMMA SameLength ==
  ASSUME NEW b \in Seq(Bytes), NEW k \in Nat, \A i \in 1 .. Len(b) : Len(b[i]) = k
  PROVE  FlattenSeq(b) \in Bytes /\ Len(FlattenSeq(b)) = k * Len(b)
<1>0. Len(b) \in Nat /\ \A i \in 1 .. Len(b) : b[i] \in Bytes
  BY ElementOfSeq
<1> DEFINE T == {n \in Nat : n <= Len(b) => Len(Upto(b, n)) = k * n}
<1>1. 0 \in T
  <2>1. Upto(b, 0) = <<>>
    BY UptoFacts
  <2>2. Len(Upto(b, 0)) = 0
    BY <2>1
  <2>3. k * 0 = 0
    OBVIOUS
  <2> QED BY <2>2, <2>3
<1>2. \A n \in T : n + 1 \in T
  <2> SUFFICES ASSUME NEW n \in Nat, n + 1 <= Len(b), n <= Len(b) => Len(Upto(b, n)) = k * n
               PROVE  Len(Upto(b, n + 1)) = k * (n + 1)
    <3>1. \A n \in T : n + 1 \in Nat
      OBVIOUS
    <3> QED BY <3>1
  <2> HIDE DEF T
  <2>1. n + 1 \in 1 .. Len(b) /\ n \in 0 .. Len(b) /\ (n + 1) - 1 = n
    BY <1>0
  <2>2. Upto(b, n + 1) = Upto(b, n) \o b[n + 1] /\ Upto(b, n) \in Bytes
    BY <2>1, UptoFacts
  <2>3. b[n + 1] \in Bytes /\ Len(b[n + 1]) = k
    BY <1>0, <2>1
  <2>4. Len(Upto(b, n + 1)) = Len(Upto(b, n)) + k
    BY <2>2, <2>3, Cat
  <2>5. Len(Upto(b, n)) = k * n
    BY <2>1
  <2>6. k * n + k = k * (n + 1)
    OBVIOUS
  <2> QED BY <2>4, <2>5, <2>6
<1> HIDE DEF T
<1>3. T = Nat
  BY <1>1, <1>2, NatSet DEF T
<1>4. Len(Upto(b, Len(b))) = k * Len(b)
  BY <1>0, <1>3 DEF T
<1>5. FlattenSeq(b) = Upto(b, Len(b)) /\ Len(b) \in 0 .. Len(b)
  <2>1. Len(b) \in 0 .. Len(b)
    BY <1>0
  <2> QED BY <2>1, UptoFacts
<1> QED BY <1>4, <1>5, UptoFacts

\* The numbers of an offset table are read as a level and themselves.
I64Coded == \A w \in Bytes, p \in Nat : Read(I64, At(w, p)) = ReadBy(I64, At(w, p))

\* An offset is read back.
LEMMA I64Reads ==
  ASSUME I64Coded, NEW k \in Int
  PROVE  Num("i64", k) \in Bytes /\ Len(Num("i64", k)) = 8 /\ Reads(I64, Num("i64", k), k)
<1>1. "i64" \in DOMAIN Width /\ Width["i64"] = 8
  BY WidthOf
<1>2. Num("i64", k) \in Bytes /\ Len(Num("i64", k)) = 8
  BY <1>1, NumIs
<1>3. \A w \in Bytes, p \in Nat : Read(I64, At(w, p)) = TakeNum("i64", At(w, p))
  BY DEF I64Coded, ReadBy, I64
<1>4. ASSUME NEW w \in Bytes, NEW p \in Nat, Holds(w, p, Num("i64", k))
      PROVE  TakeNum("i64", At(w, p)) = Took(At(w, p + 8), k)
  BY <1>1, <1>4, NumBack
<1>5. Reads(I64, Num("i64", k), k)
  BY <1>2, <1>3, <1>4 DEF Reads
<1> QED BY <1>2, <1>5

\* What the reader of a list with offsets makes of its count, table and items.
IndexedRead(seeks, of, r) ==
  LET n    == TakeNum("i32", r)
      offs == ReadEach([i \in 1 .. n.v |-> I64], <<>>, n.r)
      starts == [i \in 1 .. n.v |-> r.pos + offs.v[i]]
  IN ReadEach([i \in 1 .. n.v |-> of], IF seeks THEN starts ELSE <<>>, offs.r)

\* The offsets of items, and the bytes of their table.
Offsets(items) == [i \in 1 .. Len(items) |-> OffsetOf(items, i)]
Table(items)   == [i \in 1 .. Len(items) |-> Num("i64", OffsetOf(items, i))]

\* The offsets are where the items are, and the table is 8 bytes per item.
LEMMA TableIs ==
  ASSUME I64Coded, NEW b \in Seq(Bytes)
  PROVE  /\ \A i \in 1 .. Len(b) : OffsetOf(b, i) = (4 + 8 * Len(b)) + Len(Upto(b, i - 1))
         /\ Table(b) \in Seq(Bytes) /\ Len(Table(b)) = Len(b)
         /\ \A i \in 1 .. Len(b) : Reads(I64, Table(b)[i], Offsets(b)[i])
         /\ FlattenSeq(Table(b)) \in Bytes /\ Len(FlattenSeq(Table(b))) = 8 * Len(b)
<1>0. Len(b) \in Nat
  OBVIOUS
<1>1. \A i \in 1 .. Len(b) : OffsetOf(b, i) = (4 + 8 * Len(b)) + Len(Upto(b, i - 1))
  BY DEF OffsetOf, Upto
<1>2. \A i \in 1 .. Len(b) : OffsetOf(b, i) \in Int
  <2>1. \A i \in 1 .. Len(b) : i - 1 \in 0 .. Len(b)
    BY <1>0
  <2>2. \A i \in 1 .. Len(b) : Len(Upto(b, i - 1)) \in Nat
    BY <2>1, UptoFacts, BytesLen
  <2> QED BY <1>0, <1>1, <2>2
<1> DEFINE t == Table(b)
<1>3. /\ t = [i \in 1 .. Len(b) |-> t[i]]
      /\ \A i \in 1 .. Len(b) : t[i] = Num("i64", OffsetOf(b, i)) /\ Offsets(b)[i] = OffsetOf(b, i)
  BY DEF Table, Offsets
<1>4. \A i \in 1 .. Len(b) : /\ t[i] \in Bytes /\ Len(t[i]) = 8
                             /\ Reads(I64, t[i], Offsets(b)[i])
  BY <1>2, <1>3, I64Reads
<1> HIDE DEF t
<1>5. t \in Seq(Bytes) /\ Len(t) = Len(b)
  BY <1>0, <1>3, <1>4, ItemsAre
<1>6. FlattenSeq(t) \in Bytes /\ Len(FlattenSeq(t)) = 8 * Len(b)
  <2>1. \A i \in 1 .. Len(t) : Len(t[i]) = 8
    BY <1>4, <1>5
  <2>2. 8 \in Nat
    OBVIOUS
  <2>3. FlattenSeq(t) \in Bytes /\ Len(FlattenSeq(t)) = 8 * Len(t)
    BY <1>5, <2>1, <2>2, SameLength
  <2> QED BY <1>5, <2>3
<1> QED BY <1>1, <1>4, <1>5, <1>6 DEF t

\* What a writer with offsets makes of its items.
IndexedBytes(b) == (Num("i32", Len(b)) \o FlattenSeq(Table(b))) \o FlattenSeq(b)

\* Items behind their count and offsets are read back, by their offsets or not.
LEMMA IndexedBack ==
  ASSUME I64Coded, NEW of, NEW v, NEW b \in Seq(Bytes), ItemsRead(of, b, v),
         NEW seeks, NEW w \in Bytes, NEW p \in Nat, Holds(w, p, IndexedBytes(b))
  PROVE  IndexedRead(seeks, of, At(w, p)) = Took(At(w, p + Len(IndexedBytes(b))), v)
<1> DEFINE full == IndexedBytes(b)
           n == Len(b)
<1>0. n \in Nat /\ Len(b) = n /\ Holds(w, p, full)
  OBVIOUS
<1> HIDE DEF full, n
<1> USE <1>0
<1> DEFINE table == FlattenSeq(Table(b))
           flat == FlattenSeq(b)
           head == Num("i32", n) \o table
           q1 == p + 4
           q2 == p + (4 + 8 * n)
<1>1. flat \in Bytes /\ Len(flat) \in Nat
  <2>1. Len(b) \in 0 .. Len(b)
    OBVIOUS
  <2> QED BY <2>1, UptoFacts, BytesLen
<1>2. table \in Bytes /\ Len(table) = 8 * n
  BY TableIs
<1>3. n \in Int /\ "i32" \in DOMAIN Width /\ Width["i32"] = 4
  BY WidthOf
<1> HIDE DEF table, flat
<1>4. head \in Bytes /\ Len(head) = 4 + 8 * n
  <2>1. head \in Bytes /\ Len(head) = Width["i32"] + Len(table)
    BY <1>2, <1>3, NumThen
  <2> QED BY <1>2, <1>3, <2>1
<1> HIDE DEF head
<1>5. full = head \o flat
  BY DEF head, table, flat, full, IndexedBytes
<1>6. full \in Bytes /\ Len(full) = (4 + 8 * n) + Len(flat)
  BY <1>1, <1>4, <1>5, Cat
<1>7. Holds(w, p, head) /\ Holds(w, p + (4 + 8 * n), flat)
  <2>1. Holds(w, p, head \o flat)
    BY <1>5
  <2>2. Holds(w, p, head) /\ Holds(w, p + Len(head), flat)
    BY <1>1, <1>4, <2>1, Cat
  <2> QED BY <1>4, <2>2
<1>8. /\ TakeNum("i32", At(w, p)) = Took(At(w, p + 4), n)
      /\ Holds(w, p + 4, table)
  BY <1>2, <1>3, <1>7, NumThen DEF head
<1>9. q1 \in Nat /\ q2 \in Nat /\ q1 + 8 * n = q2 /\ p + Len(full) = q2 + Len(flat)
  <2>1. q1 \in Nat /\ q2 \in Nat /\ q1 + 8 * n = q2
    OBVIOUS
  <2>2. Len(full) = (4 + 8 * n) + Len(flat) /\ Len(flat) \in Nat
    BY <1>1, <1>6
  <2>3. \A k \in Nat : p + ((4 + 8 * n) + k) = q2 + k
    OBVIOUS
  <2> QED BY <2>1, <2>2, <2>3
<1>10. Holds(w, q1, table) /\ Holds(w, q2, flat)
  BY <1>7, <1>8
<1> DEFINE t == TakeNum("i32", At(w, p))
           offs == ReadEach([i \in 1 .. t.v |-> I64], <<>>, t.r)
           starts == [i \in 1 .. t.v |-> At(w, p).pos + offs.v[i]]
<1>11. t.r = At(w, q1) /\ t.v = n
  BY <1>8, TookIs
<1> HIDE DEF t, q1, q2
<1>12. offs = Took(At(w, q2), Offsets(b))
  <2>1. EachReads([i \in 1 .. n |-> I64], Table(b), Offsets(b))
    <3> DEFINE s == Table(b)
               o == Offsets(b)
    <3>1. s \in Seq(Bytes) /\ Len(s) = n /\ \A i \in 1 .. n : Reads(I64, s[i], o[i])
      BY TableIs
    <3>2. o = [i \in 1 .. n |-> o[i]]
      BY DEF Offsets
    <3> HIDE DEF s, o
    <3>3. ItemsRead(I64, s, o)
      BY <3>1, <3>2 DEF ItemsRead
    <3>4. EachReads([i \in 1 .. n |-> I64], s, o)
      BY <3>1, <3>3, SameTypesRead
    <3> QED BY <3>4 DEF s, o
  <2> DEFINE none == <<>>
             tys == [i \in 1 .. n |-> I64]
             s == Table(b)
             o == Offsets(b)
  <2>2. Placed(none, s, q1)
    BY DEF Placed
  <2>3. s \in Seq(Bytes)
    BY TableIs
  <2>4. EachReads(tys, s, o)
    BY <2>1
  <2>5. Holds(w, q1, FlattenSeq(s))
    BY <1>10 DEF table
  <2> HIDE DEF none, tys, s, o
  <2>6. ReadEach(tys, none, At(w, q1)) = Took(At(w, q1 + Len(FlattenSeq(s))), o)
    BY <1>9, <2>2, <2>3, <2>4, <2>5, EachBack
  <2>7. q1 + Len(FlattenSeq(s)) = q2
    BY <1>2, <1>9 DEF table, s
  <2>8. offs = ReadEach(tys, none, At(w, q1))
    BY <1>11 DEF none, tys
  <2> QED BY <2>6, <2>7, <2>8 DEF o
<1>13. offs.r = At(w, q2) /\ offs.v = Offsets(b)
  BY <1>12, TookIs
<1> HIDE DEF offs
<1>14. starts = [i \in 1 .. n |-> p + Offsets(b)[i]]
  BY <1>11, <1>13 DEF At
<1>15. ASSUME NEW none, none = (IF seeks THEN starts ELSE <<>>)
       PROVE  Placed(none, b, q2)
  <2>1. \A i \in 1 .. n : p + Offsets(b)[i] = q2 + Len(Upto(b, i - 1))
    <3>1. \A i \in 1 .. n : Offsets(b)[i] = (4 + 8 * n) + Len(Upto(b, i - 1))
      BY TableIs DEF Offsets
    <3>2. \A i \in 1 .. n : Len(Upto(b, i - 1)) \in Nat
      <4>1. \A i \in 1 .. n : i - 1 \in 0 .. Len(b)
        OBVIOUS
      <4> QED BY <4>1, UptoFacts, BytesLen
    <3> QED BY <3>1, <3>2 DEF q2
  <2>2. CASE seeks
    BY <1>14, <1>15, <2>1, <2>2 DEF Placed
  <2>3. CASE ~seeks
    BY <1>15, <2>3 DEF Placed
  <2> QED BY <2>2, <2>3
<1>16. IndexedRead(seeks, of, At(w, p)) =
         ReadEach([i \in 1 .. t.v |-> of], IF seeks THEN starts ELSE <<>>, offs.r)
  BY Zenon DEF IndexedRead, t, offs
<1> HIDE DEF starts
<1> DEFINE none == IF seeks THEN starts ELSE <<>>
           tys == [i \in 1 .. n |-> of]
<1>17. Placed(none, b, q2)
  BY <1>15
<1>18. EachReads(tys, b, v)
  BY SameTypesRead
<1>19. IndexedRead(seeks, of, At(w, p)) = ReadEach(tys, none, At(w, q2))
  BY <1>11, <1>13, <1>16
<1> HIDE DEF none, tys
<1>20. ReadEach(tys, none, At(w, q2)) = Took(At(w, q2 + Len(flat)), v)
  BY <1>9, <1>10, <1>17, <1>18, EachBack DEF flat
<1> QED BY <1>9, <1>19, <1>20 DEF full

\* A list with offsets, by a reader that uses them or not.
LEMMA CarriedIndexed ==
  ASSUME I64Coded, NEW x, Coded(x), Fits(x), PartsCarried(x), x.out.t = "indexed"
  PROVE  RoundTrip(x)
<1> DEFINE v == x.val
           n == Len(v)
           items == [i \in 1 .. n |-> Write(x.out.of, v[i])]
           full == IndexedBytes(items)
<1>1. /\ x.in.t = "indexed" /\ DOMAIN v = 1 .. n /\ n \in Nat /\ v = [i \in 1 .. n |-> v[i]]
  BY DEF Fits, IsList
<1>2. \A i \in 1 .. n : Carries(x.out.of, x.in.of, v[i])
  <2>1. \A i \in 1 .. n : Trip(x.out.of, x.in.of, v[i]) \in Parts(x)
    BY <1>1 DEF Parts
  <2> QED BY <2>1, TripIs DEF PartsCarried
<1>3. /\ items = [i \in 1 .. n |-> items[i]]
      /\ \A i \in 1 .. n : items[i] \in Bytes /\ Reads(x.in.of, items[i], v[i])
  BY <1>2 DEF Carries
<1>4. items \in Seq(Bytes) /\ Len(items) = n /\ FlattenSeq(items) \in Bytes
  <2> HIDE DEF items, n
  <2> QED BY <1>1, <1>3, ItemsAre
<1>5. Write(x.out, v) = full
  <2>1. Write(x.out, v) =
          (Num("i32", n) \o FlattenSeq([i \in 1 .. n |-> Num("i64", OffsetOf(items, i))]))
            \o FlattenSeq(items)
    BY <1>1 DEF Coded, WriteBy
  <2>2. Table(items) = [i \in 1 .. n |-> Num("i64", OffsetOf(items, i))]
    BY <1>4 DEF Table
  <2> QED BY <1>4, <2>1, <2>2 DEF IndexedBytes
<1>6. ASSUME NEW w \in Bytes, NEW p \in Nat
      PROVE  Read(x.in, At(w, p)) = IndexedRead(x.in.seeks, x.in.of, At(w, p))
  <2>1. Read(x.in, At(w, p)) = ReadIndexed(x.in, At(w, p))
    BY <1>1 DEF Coded, ReadBy
  <2>2. \A r : ReadIndexed(x.in, r) = IndexedRead(x.in.seeks, x.in.of, r)
    BY Zenon DEF ReadIndexed, ReadInOrder, IndexedRead
  <2> QED BY <2>1, <2>2, Zenon
<1> HIDE DEF items, v, n, full
<1>7. ASSUME NEW w \in Bytes, NEW p \in Nat, Holds(w, p, full)
      PROVE  IndexedRead(x.in.seeks, x.in.of, At(w, p)) = Took(At(w, p + Len(full)), v)
  <2>2. ItemsRead(x.in.of, items, v)
    BY <1>1, <1>3, <1>4 DEF ItemsRead
  <2> DEFINE of == x.in.of
             seeks == x.in.seeks
  <2>5. ItemsRead(of, items, v)
    BY <2>2
  <2> HIDE DEF of, seeks
  <2>6. IndexedRead(seeks, of, At(w, p)) = Took(At(w, p + Len(full)), v)
    BY <1>4, <1>7, <2>5, IndexedBack DEF full
  <2> QED BY <2>6 DEF of, seeks
<1>8. full \in Bytes
  <2>1. Num("i32", n) \o FlattenSeq(Table(items)) \in Bytes
    <3>1. n \in Int /\ "i32" \in DOMAIN Width
      BY <1>1, WidthOf
    <3>2. FlattenSeq(Table(items)) \in Bytes
      BY <1>4, TableIs
    <3> QED BY <3>1, <3>2, NumThen
  <2> QED BY <1>4, <2>1, Cat DEF full, IndexedBytes
<1> QED BY <1>5, <1>6, <1>7, <1>8 DEF RoundTrip, Carries, Reads, v

-----------------------------------------------------------------------------
(***************************************************************************)
(* Maps.                                                                   *)
(***************************************************************************)
\* The keys of a map, each once.
LEMMA KeysAre ==
  ASSUME NEW v, IsFiniteSet(DOMAIN v), NEW ordered
  PROVE  LET ks == Keys(v, ordered) IN
         /\ Len(ks) \in Nat /\ DOMAIN ks = 1 .. Len(ks)
         /\ \A i, j \in 1 .. Len(ks) : ks[i] = ks[j] => i = j
         /\ DOMAIN v = {ks[i] : i \in 1 .. Len(ks)}
<1> DEFINE S == DOMAIN v
           n == Cardinality(S)
           f == SetToSeq(S)
<1>1. n \in Nat /\ ExistsBijection(1 .. n, S)
  BY FS_CardinalityType
<1>2. f \in [1 .. n -> S] /\ IsInjective(f)
  <2>1. \E g : g \in Bijection(1 .. n, S)
    BY <1>1 DEF ExistsBijection
  <2>2. \E g \in [1 .. n -> S] : IsInjective(g)
    BY <2>1 DEF Bijection, Injection
  <2> QED BY <2>2 DEF SetToSeq
<1> HIDE DEF f
<1>3. \A i, j \in 1 .. n : f[i] = f[j] => i = j
  BY <1>2 DEF IsInjective
<1>4. S = {f[i] : i \in 1 .. n}
  <2>1. f \in Injection(1 .. n, S)
    BY <1>2 DEF Injection
  <2>2. Cardinality(1 .. n) = n
    BY <1>1, FS_Interval
  <2>3. f \in Surjection(1 .. n, S)
    <3> HIDE DEF S
    <3> QED BY <2>1, <2>2, FS_Injection DEF S
  <2>4. \A t \in S : \E s \in 1 .. n : f[s] = t
    BY <2>3 DEF Surjection
  <2> QED BY <1>2, <2>4
<1>5. f \in Seq(S) /\ Len(f) = n
  <2> HIDE DEF S, n
  <2>1. f \in Seq(S)
    BY <1>1, <1>2, SeqDef
  <2> QED BY <1>1, <1>2, <2>1, LenProperties
<1> HIDE DEF n, S
<1> DEFINE g == Reverse(f)
<1>6. g = [i \in 1 .. n |-> f[(n - i) + 1]]
  BY <1>5 DEF Reverse
<1> HIDE DEF g
<1>7. /\ Len(g) = n /\ DOMAIN g = 1 .. n
      /\ \A i \in 1 .. n : g[i] = f[(n - i) + 1] /\ (n - i) + 1 \in 1 .. n
  <2>1. \A i \in 1 .. n : (n - i) + 1 \in 1 .. n
    BY <1>1
  <2>2. g \in [1 .. n -> S]
    BY <1>2, <1>6, <2>1
  <2>3. g \in Seq(S)
    BY <1>1, <2>2, SeqDef
  <2>4. Len(g) = n
    BY <1>1, <2>2, <2>3, LenProperties
  <2> QED BY <1>6, <2>1, <2>2, <2>4
<1>8. \A i, j \in 1 .. n : g[i] = g[j] => i = j
  <2> SUFFICES ASSUME NEW i \in 1 .. n, NEW j \in 1 .. n, g[i] = g[j] PROVE i = j
    OBVIOUS
  <2>1. f[(n - i) + 1] = f[(n - j) + 1] /\ (n - i) + 1 \in 1 .. n /\ (n - j) + 1 \in 1 .. n
    BY <1>7
  <2>2. (n - i) + 1 = (n - j) + 1
    BY <1>3, <2>1
  <2> QED BY <1>1, <2>2
<1>9. S = {g[i] : i \in 1 .. n}
  <2>1. \A i \in 1 .. n : f[i] = g[(n - i) + 1] /\ (n - i) + 1 \in 1 .. n
    <3> SUFFICES ASSUME NEW i \in 1 .. n
                 PROVE  f[i] = g[(n - i) + 1] /\ (n - i) + 1 \in 1 .. n
      OBVIOUS
    <3>1. (n - i) + 1 \in 1 .. n /\ (n - ((n - i) + 1)) + 1 = i
      BY <1>1
    <3> QED BY <1>7, <3>1
  <2>2. \A y \in S : \E i \in 1 .. n : y = g[i]
    <3>1. \A y \in S : \E i \in 1 .. n : y = f[i]
      BY <1>4
    <3> QED BY <2>1, <3>1
  <2>3. \A i \in 1 .. n : g[i] \in S
    BY <1>4, <1>7
  <2> QED BY <2>2, <2>3
<1>10. Keys(v, ordered) = IF ordered THEN f ELSE g
  BY DEF Keys, S, f, g
<1>11. CASE ordered
  BY <1>1, <1>2, <1>3, <1>4, <1>5, <1>10, <1>11 DEF S
<1>12. CASE ~ordered
  BY <1>1, <1>7, <1>8, <1>9, <1>10, <1>12 DEF S
<1> QED BY <1>11, <1>12

\* What a map's reader makes of its entries.
DictOf(es) ==
  LET last(k) == CHOOSE i \in DOMAIN es.v :
                   es.v[i].key = k /\ \A j \in DOMAIN es.v : es.v[j].key = k => j <= i
  IN Took(es.r, [k \in {es.v[i].key : i \in DOMAIN es.v} |-> es.v[last(k)].value])

\* What a map's reader makes of the bytes.
DictRead(of, r) == DictOf(ListRead(Entry(of), r))

\* A map: its entries in any order, as every key is there once.
LEMMA CarriedDict ==
  ASSUME NEW x, Coded(x), Fits(x), PartsCarried(x), x.out.t = "dict"
  PROVE  RoundTrip(x)
<1> DEFINE v == x.val
           ks == Keys(v, x.out.ordered)
           n == Len(ks)
           out == Entry(x.out.of)
           in == Entry(x.in.of)
           vals == [i \in 1 .. n |-> EntryOf(v, ks[i])]
           items == [i \in 1 .. n |-> Write(out, EntryOf(v, ks[i]))]
           b == ListBytes(items)
<1>1. x.in.t = "dict" /\ IsFiniteSet(DOMAIN v) /\ v = [k \in DOMAIN v |-> v[k]]
  BY DEF Fits
<1>2. /\ n \in Nat /\ DOMAIN ks = 1 .. n
      /\ \A i, j \in 1 .. n : ks[i] = ks[j] => i = j
      /\ DOMAIN v = {ks[i] : i \in 1 .. n}
  BY <1>1, KeysAre
<1>3. Write(x.out, v) = Num("i32", n) \o FlattenSeq(items)
  BY <1>2 DEF Coded, WriteBy
<1>4. ASSUME NEW w \in Bytes, NEW p \in Nat
      PROVE  Read(x.in, At(w, p)) = DictRead(x.in.of, At(w, p))
  <2>1. Read(x.in, At(w, p)) = ReadDict(x.in, At(w, p))
    BY <1>1 DEF Coded, ReadBy
  <2>2. \A of, r : ReadList(List(of), r) = ListRead(of, r)
    <3>1. \A of : List(of).of = of
      BY DEF List
    <3> QED BY <3>1, Zenon DEF ReadList, ReadInOrder, ListRead
  <2>3. \A r : ReadDict(x.in, r) = DictOf(ReadList(List(Entry(x.in.of)), r))
    BY Zenon DEF ReadDict, DictOf
  <2>4. \A r : ReadDict(x.in, r) = DictRead(x.in.of, r)
    BY <2>2, <2>3, Zenon DEF DictRead
  <2> QED BY <2>1, <2>4, Zenon
<1>5. \A i \in 1 .. n : Carries(out, in, EntryOf(v, ks[i]))
  <2>1. \A i \in 1 .. n : Trip(out, in, EntryOf(v, ks[i])) \in Parts(x)
    BY <1>2 DEF Parts
  <2> QED BY <2>1, TripIs DEF PartsCarried
<1>6. /\ items = [i \in 1 .. n |-> items[i]] /\ vals = [i \in 1 .. n |-> vals[i]]
      /\ \A i \in 1 .. n : items[i] \in Bytes /\ Reads(in, items[i], vals[i])
      /\ \A i \in 1 .. n : vals[i].key = ks[i] /\ vals[i].value = v[ks[i]]
      /\ DOMAIN vals = 1 .. n
  BY <1>5 DEF Carries, EntryOf
<1> HIDE DEF items, vals, out, in, ks, n, v
<1>7. items \in Seq(Bytes) /\ Len(items) = n /\ FlattenSeq(items) \in Bytes
  BY <1>2, <1>6, ItemsAre
<1>8. b \in Bytes /\ Write(x.out, v) = b
  <2>1. n \in Int /\ "i32" \in DOMAIN Width
    BY <1>2, WidthOf
  <2> QED BY <1>3, <1>7, <2>1, NumThen DEF ListBytes
<1>9. ASSUME NEW w \in Bytes, NEW p \in Nat, Holds(w, p, b)
      PROVE  DictRead(x.in.of, At(w, p)) = Took(At(w, p + Len(b)), v)
  <2> DEFINE es == ListRead(in, At(w, p))
             last(k) == CHOOSE i \in 1 .. n :
                          vals[i].key = k /\ \A j \in 1 .. n : vals[j].key = k => j <= i
  <2>1. ItemsRead(in, items, vals)
    BY <1>6, <1>7 DEF ItemsRead
  <2>2. es = Took(At(w, p + Len(b)), vals)
    BY <1>7, <1>9, <2>1, ListBack
  <2>3. es.r = At(w, p + Len(b)) /\ es.v = vals
    BY <2>2, TookIs
  <2> HIDE DEF es
  <2>4. DictRead(x.in.of, At(w, p)) =
          Took(es.r, [k \in {vals[i].key : i \in 1 .. n} |-> vals[last(k)].value])
    <3>1. DictRead(x.in.of, At(w, p)) = DictOf(es)
      BY Zenon DEF DictRead, es, in
    <3> QED BY <1>6, <2>3, <3>1 DEF DictOf
  <2>5. ASSUME NEW i \in 1 .. n
        PROVE  last(ks[i]) = i
    <3>1. \A j \in 1 .. n : vals[j].key = ks[i] <=> j = i
      BY <1>2, <1>6
    <3>2. i <= i
      OBVIOUS
    <3> QED BY <3>1, <3>2
  <2> HIDE DEF last
  <2>6. {vals[i].key : i \in 1 .. n} = DOMAIN v
    BY <1>2, <1>6
  <2>7. \A k \in DOMAIN v : vals[last(k)].value = v[k]
    BY <1>2, <1>6, <2>5
  <2>8. [k \in {vals[i].key : i \in 1 .. n} |-> vals[last(k)].value] = v
    BY <1>1, <2>6, <2>7
  <2> QED BY <2>3, <2>4, <2>8
<1> HIDE DEF b
<1> QED BY <1>4, <1>8, <1>9 DEF RoundTrip, Carries, Reads, v

-----------------------------------------------------------------------------
(***************************************************************************)
(* The size of a map, added up before it is written.                       *)
(***************************************************************************)
\* Trips that fit with their parts, and on which the codecs are a level and
\* themselves.
Closed(trips) ==
  \A x \in trips : Coded(x) /\ Fits(x) /\ \A y \in Parts(x) : y \in trips

\* What an entry's value is counted for.
ValueSize(ty, v, k) ==
  IF ty.of.of.nullable /\ v[k] = <<>> THEN 1
  ELSE ty.fixed + IF ~ty.text THEN 0 ELSE IF ty.of.of.nullable THEN v[k][1] ELSE v[k]

\* The bytes of a text.
LEMMA TextLen ==
  ASSUME NEW n \in Nat
  PROVE  /\ Num("i32", n) \o Cell("raw", n, n) \in Bytes
         /\ Len(Num("i32", n) \o Cell("raw", n, n)) = 4 + n
<1>1. n \in Int /\ "raw" \in Kinds /\ "i32" \in DOMAIN Width /\ Width["i32"] = 4
  BY WidthOf DEF Kinds
<1>2. Cell("raw", n, n) \in Bytes /\ Len(Cell("raw", n, n)) = n
  BY <1>1, CellIs
<1> HIDE DEF Cell
<1>3. /\ Num("i32", n) \o Cell("raw", n, n) \in Bytes
      /\ Len(Num("i32", n) \o Cell("raw", n, n)) = Width["i32"] + Len(Cell("raw", n, n))
  BY <1>1, <1>2, NumThen
<1> QED BY <1>1, <1>2, <1>3

\* The bytes behind a tag.
LEMMA TagLen ==
  ASSUME NEW tag \in Int, NEW b \in Bytes
  PROVE  /\ Num("i8", tag) \in Bytes /\ Len(Num("i8", tag)) = 1
         /\ Num("i8", tag) \o b \in Bytes /\ Len(Num("i8", tag) \o b) = 1 + Len(b)
<1>1. "i8" \in DOMAIN Width /\ Width["i8"] = 1
  BY WidthOf
<1>2. Num("i8", tag) \in Bytes /\ Len(Num("i8", tag)) = Width["i8"]
  BY <1>1, NumIs
<1>3. Num("i8", tag) \o b \in Bytes /\ Len(Num("i8", tag) \o b) = Width["i8"] + Len(b)
  BY <1>1, NumThen
<1> QED BY <1>1, <1>2, <1>3

\* The bytes of a value of such a map.
LEMMA ValueLen ==
  ASSUME NEW trips, Closed(trips), NEW ty, SizeKnown(ty), NEW y \in trips, y.out = ty.of.of,
         NEW v, NEW k, y.val = v[k]
  PROVE  /\ Write(y.out, v[k]) \in Bytes
         /\ Len(Write(y.out, v[k])) = ValueSize(ty, v, k) /\ ValueSize(ty, v, k) \in Nat
<1> DEFINE u == IF y.out.nullable THEN v[k][1] ELSE v[k]
           null == y.out.nullable /\ v[k] = <<>>
           z == Trip(y.out.of, y.in.of, u)
<1>1. y.out.t = "tagged" /\ y.out.tag \in Int
  <2>1. y.out.t = "tagged"
    BY DEF SizeKnown
  <2>2. Fits(y)
    BY DEF Closed
  <2>3. y.out.tag \in Nat \ {0}
    BY <2>1, <2>2 DEF Fits
  <2> QED BY <2>1, <2>3
<1>2. Write(y.out, v[k]) = IF null THEN Num("i8", 0) ELSE Num("i8", y.out.tag) \o Write(y.out.of, u)
  BY <1>1 DEF Closed, Coded, WriteBy
<1>3. CASE null
  <2>1. ValueSize(ty, v, k) = 1
    BY <1>3 DEF ValueSize
  <2>2. 0 \in Int /\ <<>> \in Bytes
    BY EmptySeq DEF Bytes
  <2>3. Num("i8", 0) \in Bytes /\ Len(Num("i8", 0)) = 1
    BY <2>2, TagLen
  <2>4. Write(y.out, v[k]) = Num("i8", 0)
    BY <1>2, <1>3
  <2> QED BY <2>1, <2>3, <2>4
<1>4. CASE ~null
  <2>1. z \in trips
    <3>1. z \in Parts(y)
      BY <1>1, <1>4 DEF Parts
    <3> QED BY <3>1 DEF Closed
  <2>2. z.out = y.out.of /\ z.val = u
    BY TripIs
  <2>3. Coded(z) /\ Fits(z)
    BY <2>1 DEF Closed
  <2>4. ValueSize(ty, v, k) = ty.fixed + (IF ~ty.text THEN 0 ELSE u)
    BY <1>4 DEF ValueSize
  <2> HIDE DEF z, null, u
  <2>5. CASE y.out.of.t = "num" /\ ty.fixed = 1 + Width[y.out.of.kind] /\ ~ty.text
    <3>1. z.out.kind \in DOMAIN Width /\ u \in Int
      BY <2>2, <2>3, <2>5 DEF Fits
    <3>2. Write(y.out.of, u) = Num(z.out.kind, u)
      BY <2>2, <2>3, <2>5 DEF Coded, WriteBy
    <3>3. Write(y.out.of, u) \in Bytes /\ Len(Write(y.out.of, u)) = Width[z.out.kind]
      BY <3>1, <3>2, NumIs
    <3>4. Width[z.out.kind] \in Nat
      BY <3>1, Widths
    <3>5. ValueSize(ty, v, k) = 1 + Width[z.out.kind]
      BY <2>2, <2>4, <2>5, <3>4
    <3>6. /\ Write(y.out, v[k]) \in Bytes
          /\ Len(Write(y.out, v[k])) = 1 + Len(Write(y.out.of, u))
      BY <1>1, <1>2, <1>4, <3>3, TagLen
    <3> QED BY <3>3, <3>4, <3>5, <3>6
  <2>6. CASE y.out.of = Str /\ ty.fixed = 5 /\ ty.text
    <3>1. z.out.t = "run"
      BY <2>2, <2>6 DEF Str
    <3>2. u \in Nat
      BY <2>2, <2>3, <3>1 DEF Fits
    <3>3. Write(y.out.of, u) = Num("i32", u) \o Cell("raw", u, u)
      BY <2>2, <2>3, <3>1 DEF Coded, WriteBy
    <3>4. Write(y.out.of, u) \in Bytes /\ Len(Write(y.out.of, u)) = 4 + u
      BY <3>2, <3>3, TextLen
    <3>5. ValueSize(ty, v, k) = 5 + u
      BY <2>4, <2>6
    <3>6. Len(Write(y.out, v[k])) = 1 + (4 + u) /\ Write(y.out, v[k]) \in Bytes
      BY <1>1, <1>2, <1>4, <3>4, TagLen
    <3> QED BY <3>2, <3>5, <3>6
  <2> QED BY <2>5, <2>6 DEF SizeKnown
<1> QED BY <1>3, <1>4

\* The bytes of an entry of such a map.
LEMMA EntryLen ==
  ASSUME NEW trips, Closed(trips), NEW ty, SizeKnown(ty), NEW x \in trips, x.out = ty.of,
         NEW k \in DOMAIN x.val
  PROVE  LET b == Write(Entry(ty.of.of), EntryOf(x.val, k)) IN
         /\ b \in Bytes /\ k \in Nat /\ ValueSize(ty, x.val, k) \in Nat
         /\ Len(b) = (4 + k) + ValueSize(ty, x.val, k)
<1> DEFINE v == x.val
           e == Trip(Entry(x.out.of), Entry(x.in.of), EntryOf(v, k))
           s == Trip(Str, Str, k)
           y == Trip(x.out.of, x.in.of, v[k])
           parts == <<Write(Str, k), Write(x.out.of, v[k])>>
<1>1. x.out.t = "dict" /\ DOMAIN v \subseteq Nat
  BY DEF Closed, Fits, SizeKnown
<1>2. e \in trips
  <2>1. e \in Parts(x)
    BY <1>1 DEF Parts
  <2> QED BY <2>1 DEF Closed
<1>3. e.out = Entry(x.out.of) /\ e.in = Entry(x.in.of) /\ e.val = EntryOf(v, k)
  BY TripIs
<1>4. \A of : /\ Entry(of).t = "rec" /\ Entry(of).fields = <<<<"key", Str>>, <<"value", of>>>>
              /\ DOMAIN Entry(of).fields = {1, 2}
              /\ Entry(of).fields[1][1] = "key" /\ Entry(of).fields[1][2] = Str
              /\ Entry(of).fields[2][1] = "value" /\ Entry(of).fields[2][2] = of
  BY DEF Entry, Rec
<1>5. EntryOf(v, k)["key"] = k /\ EntryOf(v, k)["value"] = v[k]
  BY DEF EntryOf
<1> HIDE DEF e
<1>6. s \in trips /\ y \in trips
  <2>1. Parts(e) = {Trip(e.out.fields[i][2], e.in.fields[i][2], e.val[e.out.fields[i][1]]) :
                      i \in DOMAIN e.out.fields}
    <3>1. e.out.t = "rec"
      BY <1>3, <1>4
    <3> QED BY <3>1 DEF Parts
  <2>2. s \in Parts(e)
    BY <1>3, <1>4, <1>5, <2>1
  <2>3. y \in Parts(e)
    BY <1>3, <1>4, <1>5, <2>1
  <2> QED BY <1>2, <2>2, <2>3 DEF Closed
<1>7. Write(e.out, e.val) = FlattenSeq(parts)
  <2>1. Write(e.out, e.val) = FlattenSeq([i \in {1, 2} |->
                                Write(e.out.fields[i][2], e.val[e.out.fields[i][1]])])
    <3>1. Write(e.out, e.val) = WriteBy(e.out, e.val) /\ e.out.t = "rec"
      BY <1>2, <1>3, <1>4 DEF Closed, Coded
    <3>2. Write(e.out, e.val) = FlattenSeq([i \in DOMAIN e.out.fields |->
                                Write(e.out.fields[i][2], e.val[e.out.fields[i][1]])])
      BY <3>1 DEF WriteBy
    <3>3. DOMAIN e.out.fields = {1, 2}
      BY <1>3, <1>4
    <3> QED BY <3>2, <3>3
  <2>2. /\ Write(e.out.fields[1][2], e.val[e.out.fields[1][1]]) = Write(Str, k)
        /\ Write(e.out.fields[2][2], e.val[e.out.fields[2][1]]) = Write(x.out.of, v[k])
    BY <1>3, <1>4, <1>5
  <2>3. [i \in {1, 2} |-> Write(e.out.fields[i][2], e.val[e.out.fields[i][1]])] = parts
    <3> DEFINE f == [i \in {1, 2} |-> Write(e.out.fields[i][2], e.val[e.out.fields[i][1]])]
    <3>1. DOMAIN f = {1, 2} /\ f[1] = Write(Str, k) /\ f[2] = Write(x.out.of, v[k])
      BY <2>2
    <3>2. f = [i \in {1, 2} |-> f[i]]
      OBVIOUS
    <3> HIDE DEF f
    <3>3. \A a, b : f[1] = a /\ f[2] = b => f = <<a, b>>
      BY <3>2
    <3> QED BY <3>1, <3>3 DEF f
  <2> QED BY <2>1, <2>3
<1>8. Write(Str, k) \in Bytes /\ Len(Write(Str, k)) = 4 + k
  <2>1. s.out = Str /\ s.val = k
    BY TripIs
  <2>2. Write(Str, k) = Num("i32", k) \o Cell("raw", k, k)
    <3>1. Write(Str, k) = WriteBy(Str, k)
      BY <1>6, <2>1 DEF Closed, Coded
    <3>2. Str.t = "run"
      BY DEF Str
    <3> QED BY <3>1, <3>2 DEF WriteBy
  <2> QED BY <1>1, <2>2, TextLen
<1>9. /\ Write(x.out.of, v[k]) \in Bytes /\ Len(Write(x.out.of, v[k])) = ValueSize(ty, v, k)
      /\ ValueSize(ty, v, k) \in Nat
  <2>1. y.out = ty.of.of /\ y.val = v[k] /\ y.out = x.out.of
    BY TripIs
  <2> HIDE DEF y
  <2> QED BY <1>6, <2>1, ValueLen
<1>10. FlattenSeq(parts) \in Bytes /\ Len(FlattenSeq(parts)) = (4 + k) + ValueSize(ty, v, k)
  <2> DEFINE a == Write(Str, k)
             c == Write(x.out.of, v[k])
  <2>1. a \in Bytes /\ c \in Bytes /\ Len(a) = 4 + k /\ Len(c) = ValueSize(ty, v, k)
    BY <1>8, <1>9
  <2> HIDE DEF a, c
  <2>2. <<a, c>> \in Seq(Bytes) /\ Len(<<a, c>>) = 2 /\ <<a, c>>[1] = a /\ <<a, c>>[2] = c
    BY <2>1
  <2> DEFINE both == <<a, c>>
  <2> HIDE DEF both
  <2>3. both \in Seq(Bytes) /\ Len(both) = 2 /\ both[1] = a /\ both[2] = c
    BY <2>2 DEF both
  <2>4. /\ FlattenSeq(both) = Upto(both, 2) /\ Upto(both, 0) = <<>>
        /\ Upto(both, 1) = Upto(both, 0) \o a /\ Upto(both, 2) = Upto(both, 1) \o c
    <3>1. 1 \in 1 .. 2 /\ 2 \in 1 .. 2 /\ 1 - 1 = 0 /\ 2 - 1 = 1
      OBVIOUS
    <3> QED BY <2>3, <3>1, UptoFacts
  <2>5. Upto(both, 1) = a
    BY <2>1, <2>4, ConcatEmptySeq DEF Bytes
  <2>6. FlattenSeq(both) = a \o c
    BY <2>4, <2>5
  <2>7. a \o c \in Bytes /\ Len(a \o c) = Len(a) + Len(c)
    BY <2>1, Cat
  <2> QED BY <2>1, <2>6, <2>7 DEF both, a, c
<1>11. k \in Nat
  BY <1>1
<1> QED BY <1>3, <1>7, <1>9, <1>10, <1>11

\* What SizeAhead adds up, to each key.
Sums(ty, v, ks, f) ==
  f = [i \in 0 .. Len(ks) |->
         IF i = 0 THEN 4 ELSE f[i - 1] + 4 + ks[i] + ValueSize(ty, v, ks[i])]

\* SizeAhead is the last of what it adds up.
LEMMA SizeAheadIs ==
  ASSUME NEW ty, NEW v, NEW g, Sums(ty, v, Keys(v, TRUE), g)
  PROVE  \E f : /\ Sums(ty, v, Keys(v, TRUE), f)
                /\ SizeAhead(ty, v) = f[Len(Keys(v, TRUE))]
<1> DEFINE f == CHOOSE f : Sums(ty, v, Keys(v, TRUE), f)
<1>1. Sums(ty, v, Keys(v, TRUE), f)
  OBVIOUS
<1>2. SizeAhead(ty, v) = f[Len(Keys(v, TRUE))]
  BY DEF SizeAhead, Sums, ValueSize
<1> HIDE DEF f
<1> QED BY <1>1, <1>2

\* The size added up ahead is the number of bytes that are written then.
LEMMA SizeAheadLen ==
  ASSUME NEW trips, Closed(trips), NEW ty, SizeKnown(ty), NEW x \in trips, x.out = ty.of
  PROVE  SizeAhead(ty, x.val) = Len(Write(ty.of, x.val))
<1> DEFINE v == x.val
           ks == Keys(v, TRUE)
           n == Len(ks)
           items == [i \in 1 .. n |-> Write(Entry(ty.of.of), EntryOf(v, ks[i]))]
           g == [i \in 0 .. n |-> 4 + Len(Upto(items, i))]
<1>1. x.out.t = "dict" /\ IsFiniteSet(DOMAIN v) /\ ty.of.ordered
  BY DEF Closed, Fits, SizeKnown
<1>2. n \in Nat /\ DOMAIN ks = 1 .. n /\ DOMAIN v = {ks[i] : i \in 1 .. n}
  BY <1>1, KeysAre
<1>3. Write(ty.of, v) = Num("i32", n) \o FlattenSeq(items)
  <2>1. Write(ty.of, v) = WriteBy(ty.of, v)
    BY DEF Closed, Coded
  <2>2. Keys(v, ty.of.ordered) = ks
    BY <1>1 DEF Keys
  <2> QED BY <1>1, <1>2, <2>1, <2>2 DEF WriteBy
<1>4. \A i \in 1 .. n :
        /\ items[i] \in Bytes /\ ks[i] \in Nat /\ ValueSize(ty, v, ks[i]) \in Nat
        /\ Len(items[i]) = (4 + ks[i]) + ValueSize(ty, v, ks[i])
  <2>1. \A i \in 1 .. n : ks[i] \in DOMAIN v
    BY <1>2
  <2>2. \A i \in 1 .. n : items[i] = Write(Entry(ty.of.of), EntryOf(v, ks[i]))
    OBVIOUS
  <2> HIDE DEF items, ks, n
  <2> QED BY <2>1, <2>2, EntryLen
<1>5. items = [i \in 1 .. n |-> items[i]]
  OBVIOUS
<1> HIDE DEF items, ks, n, v
<1>6. items \in Seq(Bytes) /\ Len(items) = n /\ FlattenSeq(items) \in Bytes
  BY <1>2, <1>4, <1>5, ItemsAre
<1>7. /\ Len(Upto(items, 0)) = 0 /\ Upto(items, n) = FlattenSeq(items)
      /\ \A i \in 1 .. n : /\ Len(Upto(items, i - 1)) \in Nat
                           /\ Len(Upto(items, i)) = Len(Upto(items, i - 1)) + Len(items[i])
  <2>1. Len(Upto(items, 0)) = 0
    <3>1. Upto(items, 0) = <<>> /\ Len(<<>>) = 0
      BY <1>6, UptoFacts
    <3> QED BY <3>1
  <2>2. Upto(items, n) = FlattenSeq(items)
    BY <1>6, UptoFacts
  <2>3. ASSUME NEW i \in 1 .. n
        PROVE  /\ Len(Upto(items, i - 1)) \in Nat
               /\ Len(Upto(items, i)) = Len(Upto(items, i - 1)) + Len(items[i])
    <3>1. i - 1 \in 0 .. n
      BY <1>2
    <3>2. Upto(items, i - 1) \in Bytes /\ Upto(items, i) = Upto(items, i - 1) \o items[i]
      BY <1>6, <3>1, UptoFacts
    <3> QED BY <1>4, <3>2, Cat, BytesLen
  <2> QED BY <2>1, <2>2, <2>3
<1>8. \A i \in 1 .. n : 4 + Len(Upto(items, i)) =
                          (4 + Len(Upto(items, i - 1))) + 4 + ks[i] + ValueSize(ty, v, ks[i])
  <2> SUFFICES ASSUME NEW i \in 1 .. n
               PROVE  4 + Len(Upto(items, i)) =
                        (4 + Len(Upto(items, i - 1))) + 4 + ks[i] + ValueSize(ty, v, ks[i])
    OBVIOUS
  <2>1. /\ ks[i] \in Nat /\ ValueSize(ty, v, ks[i]) \in Nat /\ Len(Upto(items, i - 1)) \in Nat
        /\ Len(items[i]) = (4 + ks[i]) + ValueSize(ty, v, ks[i])
        /\ Len(Upto(items, i)) = Len(Upto(items, i - 1)) + Len(items[i])
    BY <1>4, <1>7
  <2>2. \A k, s, l \in Nat : 4 + (l + ((4 + k) + s)) = (4 + l) + 4 + k + s
    OBVIOUS
  <2>3. 4 + Len(Upto(items, i)) =
          4 + (Len(Upto(items, i - 1)) + ((4 + ks[i]) + ValueSize(ty, v, ks[i])))
    BY <2>1
  <2> QED BY <2>1, <2>2, <2>3
<1>9. Sums(ty, v, ks, g)
  <2>1. ASSUME NEW i \in 0 .. n
        PROVE  g[i] = IF i = 0 THEN 4 ELSE g[i - 1] + 4 + ks[i] + ValueSize(ty, v, ks[i])
    <3>1. CASE i = 0
      BY <1>7, <3>1
    <3>2. CASE i # 0
      <4>1. i \in 1 .. n /\ i - 1 \in 0 .. n
        BY <1>2, <3>2
      <4>2. g[i] = 4 + Len(Upto(items, i)) /\ g[i - 1] = 4 + Len(Upto(items, i - 1))
        BY <4>1
      <4> HIDE DEF g
      <4> QED BY <1>8, <3>2, <4>1, <4>2
    <3> QED BY <3>1, <3>2
  <2> QED BY <2>1 DEF Sums, n
<1>10. PICK f : Sums(ty, v, ks, f) /\ SizeAhead(ty, v) = f[n]
  <2> HIDE DEF g
  <2> QED BY <1>9, SizeAheadIs DEF ks, n
<1> DEFINE T == {i \in Nat : i <= n => f[i] = g[i]}
<1>11. 0 \in T
  <2>1. 0 \in 0 .. n /\ Len(ks) = n
    BY <1>2 DEF n
  <2>2. f[0] = 4
    BY <1>10, <2>1 DEF Sums
  <2> QED BY <1>7, <2>1, <2>2
<1>12. \A i \in T : i + 1 \in T
  <2> SUFFICES ASSUME NEW i \in Nat, i + 1 <= n, i <= n => f[i] = g[i]
               PROVE  f[i + 1] = g[i + 1]
    <3> HIDE DEF g
    <3>1. \A i \in T : i + 1 \in Nat
      OBVIOUS
    <3> QED BY <3>1
  <2> HIDE DEF T
  <2>1. i + 1 \in 1 .. n /\ i + 1 \in 0 .. n /\ i \in 0 .. n /\ (i + 1) - 1 = i /\ i + 1 # 0
    BY <1>2
  <2>2. f[i] = 4 + Len(Upto(items, i))
    BY <1>2, <2>1
  <2>3. f[i + 1] = f[(i + 1) - 1] + 4 + ks[i + 1] + ValueSize(ty, v, ks[i + 1])
    <3>1. i + 1 \in 0 .. Len(ks)
      BY <2>1 DEF n
    <3> QED BY <1>10, <2>1, <3>1 DEF Sums
  <2>4. g[i + 1] = 4 + Len(Upto(items, i + 1))
    BY <2>1
  <2> HIDE DEF g
  <2> QED BY <1>8, <2>1, <2>2, <2>3, <2>4
<1> HIDE DEF T
<1>13. T = Nat
  BY <1>11, <1>12, NatSet DEF T
<1>14. SizeAhead(ty, v) = 4 + Len(FlattenSeq(items))
  <2>1. f[n] = g[n]
    <3> HIDE DEF g
    <3>1. n \in T /\ n <= n
      BY <1>2, <1>13
    <3> QED BY <3>1 DEF T
  <2>2. n \in 0 .. n
    BY <1>2
  <2> QED BY <1>7, <1>10, <2>1, <2>2
<1>15. Len(Num("i32", n) \o FlattenSeq(items)) = 4 + Len(FlattenSeq(items))
  <2>1. n \in Int /\ "i32" \in DOMAIN Width /\ Width["i32"] = 4
    BY <1>2, WidthOf
  <2>2. Len(Num("i32", n) \o FlattenSeq(items)) = Width["i32"] + Len(FlattenSeq(items))
    BY <1>6, <2>1, NumThen
  <2> QED BY <2>1, <2>2
<1> QED BY <1>3, <1>14, <1>15 DEF v

\* A map behind a size that is added up ahead.
LEMMA CarriedSized ==
  ASSUME NEW trips, Closed(trips), NEW x \in trips, PartsCarried(x), x.out.t = "sized"
  PROVE  RoundTrip(x)
<1> DEFINE payload == Write(x.out.of, x.val)
           y == Trip(x.out.of, x.in.of, x.val)
           n == SizeAhead(x.out, x.val)
<1>0. Coded(x) /\ Fits(x)
  BY DEF Closed
<1>1. x.in.t = "frame" /\ SizeKnown(x.out)
  BY <1>0 DEF Fits
<1>2. Write(x.out, x.val) = Num("i32", n) \o Fit(payload, n)
  BY <1>0 DEF Coded, WriteBy
<1>3. \A w \in Bytes, p \in Nat : Read(x.in, At(w, p)) = ReadFrame(x.in.of, At(w, p))
  BY <1>0, <1>1 DEF Coded, ReadBy
<1>4. y \in trips /\ payload \in Bytes /\ Reads(x.in.of, payload, x.val)
  <2>1. y \in Parts(x)
    BY DEF Parts
  <2> QED BY <2>1, TripIs DEF PartsCarried, Carries, Closed
<1>5. n = Len(payload)
  <2>1. y.out = x.out.of /\ y.val = x.val
    BY TripIs
  <2> HIDE DEF y
  <2> QED BY <1>1, <1>4, <2>1, SizeAheadLen
<1> HIDE DEF payload, n
<1>6. Write(x.out, x.val) = FrameOf(payload)
  BY <1>2, <1>4, <1>5, FitIs DEF FrameOf
<1>7. /\ FrameOf(payload) \in Bytes
      /\ \A w \in Bytes, p \in Nat :
           Holds(w, p, FrameOf(payload)) =>
             ReadFrame(x.in.of, At(w, p)) = Took(At(w, p + Len(FrameOf(payload))), x.val)
  <2>1. ASSUME NEW w \in Bytes, NEW p \in Nat, Holds(w, p, FrameOf(payload))
        PROVE  ReadFrame(x.in.of, At(w, p)) = Took(At(w, p + Len(FrameOf(payload))), x.val)
    BY <1>4, <2>1, FrameBack
  <2> QED BY <1>4, <2>1, FrameLen
<1> QED BY <1>3, <1>6, <1>7 DEF RoundTrip, Carries, Reads

-----------------------------------------------------------------------------
(***************************************************************************)
(* All layouts.                                                            *)
(***************************************************************************)

\* A trip that fits is a round trip if its parts are, whatever its layout.
LEMMA Carried ==
  ASSUME NEW trips, Closed(trips), I64Coded, NEW x \in trips, PartsCarried(x), x.out.t # "ptr"
  PROVE  RoundTrip(x)
<1>1. Coded(x) /\ Fits(x)
  BY DEF Closed
<1>2. \/ x.out.t = "num"     \/ x.out.t = "run"  \/ x.out.t = "enum"
      \/ x.out.t = "enumornull" \/ x.out.t = "opt"  \/ x.out.t = "packed"
      \/ x.out.t = "rec"     \/ x.out.t = "variant" \/ x.out.t = "list"
      \/ x.out.t = "indexed" \/ x.out.t = "dict" \/ x.out.t = "tagged"
      \/ x.out.t = "frame"   \/ x.out.t = "shortframe" \/ x.out.t = "sized"
      \/ x.out.t = "any"
  BY <1>1, Zenon DEF Fits
<1> QED
  BY <1>1, <1>2, CarriedNum, CarriedRun, CarriedEnum, CarriedEnumOrNull, CarriedOpt,
     CarriedPacked, CarriedRec, CarriedVariant, CarriedList, CarriedIndexed, CarriedDict,
     CarriedTagged, CarriedFrame, CarriedShortFrame, CarriedSized, CarriedAny

\* Trips that all fit are closed under their parts.
LEMMA CodecsClose ==
  ASSUME NEW trips, NEW also, AllFit(trips), AreCodecs(trips, also), I64 \in also
  PROVE  Closed(trips) /\ I64Coded
<1>1. I64Coded
  BY DEF AreCodecs, I64Coded
<1>2. ASSUME NEW x \in trips
      PROVE  Coded(x) /\ Fits(x) /\ \A y \in Parts(x) : y \in trips
  <2>1. Fits(x) /\ \A y \in Parts(x) : y \in trips
    BY DEF AllFit
  <2>2. x.in \in {y.in : y \in trips} \cup also
    OBVIOUS
  <2>3. Coded(x)
    BY <2>2 DEF AreCodecs, Coded
  <2> QED BY <2>1, <2>3
<1> QED BY <1>1, <1>2 DEF Closed

\* Two layouts that fit, with all their parts, agree: whatever one writes of a
\* value, the other reads back, wherever it finds the bytes.
THEOREM CodecsAgree ==
  ASSUME NEW trips, NEW also, AllFit(trips), AreCodecs(trips, also), I64 \in also
  PROVE  \A x \in trips : x.out.t # "ptr" => RoundTrip(x)
<1> DEFINE T == {n \in Nat : \A x \in trips : Rank(x) <= n /\ x.out.t # "ptr" => RoundTrip(x)}
<1>1. Closed(trips) /\ I64Coded
  BY CodecsClose
<1>2. \A x \in trips : /\ Rank(x) \in Nat
                       /\ \A y \in Parts(x) : y \in trips /\ Rank(y) \in Nat /\ Rank(y) < Rank(x)
                                              /\ y.out.t # "ptr"
  <2>1. \A x \in trips : Rank(x) \in Nat
    BY DEF AllFit
  <2> SUFFICES ASSUME NEW x \in trips, NEW y \in Parts(x)
               PROVE  y \in trips /\ Rank(y) \in Nat /\ Rank(y) < Rank(x) /\ y.out.t # "ptr"
    BY <2>1
  <2>2. y \in trips /\ Rank(y) \in 0 .. Rank(x) - 1 /\ y.out.t # "ptr"
    BY DEF AllFit
  <2> QED BY <2>1, <2>2
<1>3. 0 \in T
  <2> SUFFICES ASSUME NEW x \in trips, Rank(x) <= 0, x.out.t # "ptr" PROVE RoundTrip(x)
    OBVIOUS
  <2>1. Parts(x) = {}
    BY <1>2
  <2> QED BY <1>1, <2>1, Carried DEF PartsCarried
<1>4. \A n \in T : n + 1 \in T
  <2> SUFFICES ASSUME NEW n \in Nat, NEW x \in trips, Rank(x) <= n + 1, x.out.t # "ptr",
                      \A y \in trips : Rank(y) <= n /\ y.out.t # "ptr" => RoundTrip(y)
               PROVE  RoundTrip(x)
    <3>1. \A n \in T : n + 1 \in Nat
      OBVIOUS
    <3> QED BY <3>1
  <2> HIDE DEF T
  <2>1. ASSUME NEW y \in Parts(x)
        PROVE  RoundTrip(y)
    <3>1. y \in trips /\ Rank(y) \in Nat /\ Rank(y) < Rank(x) /\ y.out.t # "ptr" /\ Rank(x) \in Nat
      BY <1>2
    <3>2. Rank(y) <= n
      BY <3>1
    <3> QED BY <3>1, <3>2
  <2> QED BY <1>1, <2>1, Carried DEF PartsCarried
<1> HIDE DEF T
<1>5. T = Nat
  BY <1>3, <1>4, NatSet DEF T
<1> QED
  <2> SUFFICES ASSUME NEW x \in trips, x.out.t # "ptr" PROVE RoundTrip(x)
    OBVIOUS
  <2>1. Rank(x) \in T /\ Rank(x) <= Rank(x)
    BY <1>2, <1>5
  <2> QED BY <2>1 DEF T

-----------------------------------------------------------------------------
(***************************************************************************)
(* Decoding all of some bytes.                                             *)
(***************************************************************************)

\* The value, all of it found, and every frame at its end.
Right(v) == [v |-> v, ok |-> TRUE, exact |-> TRUE]

\* All of the bytes b are the value v to a decoder of in.
Decodes(in, b, v) == DecodeBy(in, b) = Right(v)

\* A reader that is at the end of the bytes has decoded all of them.
LEMMA DecodesIs ==
  ASSUME NEW in, NEW b, NEW v, Read(in, At(b, 0)) = Took(At(b, Len(b)), v)
  PROVE  Decodes(in, b, v)
<1> DEFINE x == Read(in, At(b, 0))
<1>1. x.r = At(b, Len(b)) /\ x.v = v
  BY TookIs
<1>2. DecodeBy(in, b) = [v |-> x.v, ok |-> x.r.ok, exact |-> x.r.exact /\ x.r.pos = Len(b)]
  BY DEF DecodeBy, Reader
<1> HIDE DEF x
<1>3. x.r.ok = TRUE /\ (x.r.exact /\ x.r.pos = Len(b)) = TRUE
  BY <1>1 DEF At
<1> QED BY <1>1, <1>2, <1>3 DEF Decodes, Right

\* What reads back wherever it is found decodes from its own bytes.
LEMMA ReadsDecode ==
  ASSUME NEW in, NEW b \in Bytes, NEW v, Reads(in, b, v)
  PROVE  Decodes(in, b, v)
<1>1. Len(b) \in Nat
  BY BytesLen
<1>2. Holds(b, 0, b)
  BY <1>1 DEF Holds
<1>3. 0 \in Nat /\ 0 + Len(b) = Len(b)
  BY <1>1
<1>4. Read(in, At(b, 0)) = Took(At(b, 0 + Len(b)), v)
  BY <1>2, <1>3 DEF Reads
<1> QED BY <1>3, <1>4, DecodesIs

\* A pointer: no bytes for null, otherwise those of a frame, which are some.
LEMMA PtrDecodes ==
  ASSUME NEW in, NEW b \in Bytes, NEW v, in.t = "ptr",
         \A w \in Bytes, p \in Nat : Read(in, At(w, p)) = ReadBy(in, At(w, p)),
         \/ v = <<>> /\ b = <<>>
         \/ v = <<v[1]>> /\ b # <<>> /\ Reads(in.of, b, v[1])
  PROVE  Decodes(in, b, v)
<1>1. 0 \in Nat
  OBVIOUS
<1>2. Read(in, At(b, 0)) = ReadPtr(in.of, At(b, 0))
  BY <1>1 DEF ReadBy
<1> DEFINE y == Read(in.of, At(b, 0))
<1>3. ReadPtr(in.of, At(b, 0)) =
        IF At(b, 0).w = <<>> THEN Took(At(b, 0), <<>>) ELSE Took(y.r, <<y.v>>)
  BY DEF ReadPtr
<1>4. At(b, 0).w = b
  BY DEF At
<1>5. CASE v = <<>> /\ b = <<>>
  <2>1. Len(<<>>) = 0
    OBVIOUS
  <2> QED BY <1>2, <1>3, <1>4, <1>5, <2>1, DecodesIs
<1>6. CASE v = <<v[1]>> /\ b # <<>> /\ Reads(in.of, b, v[1])
  <2>1. Len(b) \in Nat
    BY BytesLen
  <2>2. Holds(b, 0, b) /\ 0 + Len(b) = Len(b)
    BY <2>1 DEF Holds
  <2>3. y.r = At(b, 0 + Len(b)) /\ y.v = v[1]
    BY <1>1, <1>6, <2>2, PartBack
  <2> HIDE DEF y
  <2> QED BY <1>2, <1>3, <1>4, <1>6, <2>2, <2>3, DecodesIs
<1> QED BY <1>5, <1>6

\* A frame has bytes, if only those of its size.
LEMMA FrameNotEmpty ==
  ASSUME NEW b \in Bytes
  PROVE  FrameOf(b) # <<>>
<1>1. Len(FrameOf(b)) = 4 + Len(b) /\ Len(b) \in Nat
  BY FrameLen, BytesLen
<1>2. Len(<<>>) = 0
  OBVIOUS
<1> QED BY <1>1, <1>2

\* What one layout writes of a value, all of it, the other decodes.
LEMMA TripDecodes ==
  ASSUME NEW trips, NEW also, AllFit(trips), AreCodecs(trips, also), I64 \in also,
         NEW x \in trips
  PROVE  Write(x.out, x.val) \in Bytes /\ Decodes(x.in, Write(x.out, x.val), x.val)
<1>0. Coded(x) /\ Fits(x) /\ \A y \in Parts(x) : y \in trips
  BY CodecsClose DEF Closed
<1>1. CASE x.out.t # "ptr"
  BY <1>1, CodecsAgree, ReadsDecode DEF RoundTrip, Carries
<1>2. CASE x.out.t = "ptr"
  <2> DEFINE v == x.val
             y == Trip(x.out.of, x.in.of, v[1])
  <2>1. x.in.t = "ptr" /\ x.out.of.t = "frame" /\ (v = <<>> \/ v = <<v[1]>>)
    BY <1>0, <1>2 DEF Fits, MaybeOne
  <2>2. Write(x.out, v) = IF v = <<>> THEN <<>> ELSE Write(x.out.of, v[1])
    BY <1>0, <1>2 DEF Coded, WriteBy
  <2>3. CASE v = <<>>
    <3>1. <<>> \in Bytes
      BY EmptySeq DEF Bytes
    <3> QED BY <1>0, <2>1, <2>2, <2>3, <3>1, PtrDecodes DEF Coded
  <2>4. CASE v # <<>>
    <3>1. y \in trips
      <4>1. y \in Parts(x)
        BY <1>2, <2>4 DEF Parts
      <4> QED BY <1>0, <4>1
    <3>2. y.out = x.out.of /\ y.in = x.in.of /\ y.val = v[1]
      BY TripIs
    <3> HIDE DEF y
    <3>3. RoundTrip(y)
      BY <2>1, <3>1, <3>2, CodecsAgree
    <3>4. Write(x.out.of, v[1]) \in Bytes /\ Reads(x.in.of, Write(x.out.of, v[1]), v[1])
      BY <3>2, <3>3 DEF RoundTrip, Carries
    <3>5. Write(x.out.of, v[1]) # <<>>
      <4> DEFINE z == Trip(y.out.of, y.in.of, y.val)
      <4>1. Coded(y) /\ Fits(y) /\ \A u \in Parts(y) : u \in trips
        BY <3>1, CodecsClose DEF Closed
      <4>2. y.out.t = "frame"
        BY <2>1, <3>2
      <4>3. Write(y.out, y.val) = FrameOf(Write(y.out.of, y.val))
        BY <4>1, <4>2 DEF Coded, WriteBy
      <4>4. z \in trips
        <5>1. z \in Parts(y)
          BY <4>2 DEF Parts
        <5> QED BY <4>1, <5>1
      <4>5. z.out = y.out.of /\ z.val = y.val /\ z.out.t # "ptr"
        <5>1. z \in Parts(y)
          BY <4>2 DEF Parts
        <5>2. z.out = y.out.of /\ z.val = y.val
          BY TripIs
        <5>3. z.out.t # "ptr"
          BY <3>1, <5>1 DEF AllFit
        <5> QED BY <5>2, <5>3
      <4> HIDE DEF z
      <4>6. Write(y.out.of, y.val) \in Bytes
        BY <4>4, <4>5, CodecsAgree DEF RoundTrip, Carries
      <4> QED BY <3>2, <4>3, <4>6, FrameNotEmpty
    <3> QED BY <1>0, <2>1, <2>2, <2>4, <3>4, <3>5, PtrDecodes DEF Coded
  <2> QED BY <2>3, <2>4
<1> QED BY <1>1, <1>2

-----------------------------------------------------------------------------
(***************************************************************************)
(* The bridge.                                                             *)
(***************************************************************************)
\* What the bridge does to a payload behind its size.
LEMMA BridgeFrame ==
  ASSUME NEW b \in Bytes
  PROVE  /\ SubSeq(FrameOf(b), 1, 4 + Size(FrameOf(b))) = FrameOf(b)
         /\ SubSeq(FrameOf(b), 5, 4 + Size(FrameOf(b))) = b
<1> DEFINE n == Len(b)
           a == Num("i32", n)
           f == a \o b
<1>1. FrameOf(b) = f
  BY DEF FrameOf
<1>2. n \in Nat /\ n \in Int /\ "i32" \in DOMAIN Width /\ Width["i32"] = 4
  BY BytesLen, WidthOf
<1>3. a \in Seq(Byte) /\ Len(a) = 4 /\ a[1] = <<"i32", n, 1>>
  <2>1. 1 \in 1 .. 4
    OBVIOUS
  <2> HIDE DEF n
  <2> QED BY <1>2, <2>1, NumIs DEF Bytes
<1>4. b \in Seq(Byte) /\ Len(b) = n
  BY DEF Bytes
<1> HIDE DEF a, n
<1>5. /\ f \in Seq(Byte) /\ Len(f) = 4 + n
      /\ \A i \in 1 .. 4 + n : f[i] = IF i <= 4 THEN a[i] ELSE b[i - 4]
  <2>1. /\ a \o b \in Seq(Byte) /\ Len(a \o b) = Len(a) + Len(b)
        /\ \A i \in 1 .. Len(a) + Len(b) :
             (a \o b)[i] = IF i <= Len(a) THEN a[i] ELSE b[i - Len(a)]
    BY <1>3, <1>4, ConcatProperties
  <2> QED BY <1>3, <1>4, <2>1
<1>6. Size(f) = n
  <2>1. 1 \in 1 .. 4 + n /\ 1 <= 4
    BY <1>2
  <2>2. f[1] = <<"i32", n, 1>>
    BY <1>3, <1>5, <2>1
  <2> QED BY <2>2 DEF Size
<1> HIDE DEF f
<1>7. SubSeq(f, 1, 4 + n) = f
  BY <1>5, SubSeqFull
<1>8. SubSeq(f, 5, 4 + n) = b
  <2> DEFINE s == SubSeq(f, 5, 4 + n)
  <2>1. /\ s \in Seq(Byte) /\ Len(s) = n
        /\ \A i \in 1 .. n : s[i] = f[4 + i]
    <3>1. \A i \in 5 .. 4 + n : f[i] \in Byte
      <4>1. \A i \in 5 .. 4 + n : i \in 1 .. Len(f)
        BY <1>2, <1>5
      <4> QED BY <1>5, <4>1, ElementOfSeq
    <3>2. 5 \in Int /\ 4 + n \in Int /\ (4 + n) - 5 + 1 = n
      BY <1>2
    <3>3. /\ s \in Seq(Byte) /\ Len(s) = IF 5 <= 4 + n THEN n ELSE 0
          /\ \A i \in 1 .. n : s[i] = f[5 + i - 1]
      BY <3>1, <3>2, SubSeqProperties
    <3>4. (IF 5 <= 4 + n THEN n ELSE 0) = n /\ \A i \in 1 .. n : 5 + i - 1 = 4 + i
      BY <1>2
    <3> QED BY <3>3, <3>4
  <2>2. \A i \in 1 .. n : f[4 + i] = b[i]
    <3> SUFFICES ASSUME NEW i \in 1 .. n PROVE f[4 + i] = b[i]
      OBVIOUS
    <3>1. 4 + i \in 1 .. 4 + n /\ ~(4 + i <= 4) /\ (4 + i) - 4 = i
      BY <1>2
    <3> QED BY <1>5, <3>1
  <2> HIDE DEF s
  <2>3. s = b
    BY <1>4, <2>1, <2>2, SeqEqual
  <2> QED BY <2>3 DEF s
<1> QED BY <1>1, <1>6, <1>7, <1>8

\* What is written with its size in front of it.
LEMMA FramedIs ==
  ASSUME NEW trips, NEW also, AllFit(trips), AreCodecs(trips, also), I64 \in also,
         NEW x \in trips, Framed(x.out)
  PROVE  LET payload == Write(x.out.of, x.val) IN
         /\ Write(x.out, x.val) = FrameOf(payload)
         /\ payload \in Bytes /\ Reads(x.in.of, payload, x.val) /\ x.in.t = "frame"
<1> DEFINE payload == Write(x.out.of, x.val)
           y == Trip(x.out.of, x.in.of, x.val)
           n == SizeAhead(x.out, x.val)
<1>0. Closed(trips) /\ Coded(x) /\ Fits(x)
  BY CodecsClose DEF Closed
<1>1. x.out.t \in {"frame", "sized"} /\ y \in Parts(x)
  BY DEF Framed, Parts
<1>2. y.out = x.out.of /\ y.in = x.in.of /\ y.val = x.val
  BY TripIs
<1>3. y \in trips /\ y.out.t # "ptr"
  <2> HIDE DEF y
  <2> QED BY <1>1 DEF AllFit
<1> HIDE DEF y
<1>4. payload \in Bytes /\ Reads(x.in.of, payload, x.val)
  BY <1>2, <1>3, CodecsAgree DEF RoundTrip, Carries
<1>5. x.in.t = "frame"
  BY <1>0, <1>1 DEF Fits
<1>6. CASE x.out.t = "frame"
  BY <1>0, <1>4, <1>5, <1>6 DEF Coded, WriteBy
<1>7. CASE x.out.t = "sized"
  <2>1. Write(x.out, x.val) = Num("i32", n) \o Fit(payload, n)
    BY <1>0, <1>7 DEF Coded, WriteBy
  <2>2. n = Len(payload)
    <3>1. SizeKnown(x.out)
      BY <1>0, <1>7 DEF Fits
    <3> QED BY <1>0, <1>2, <1>3, <3>1, SizeAheadLen
  <2> HIDE DEF payload, n
  <2>3. Write(x.out, x.val) = FrameOf(payload)
    BY <1>4, <2>1, <2>2, FitIs DEF FrameOf
  <2> QED BY <1>4, <1>5, <2>3 DEF payload
<1> QED BY <1>1, <1>6, <1>7

\* The bytes of an optional number are as many as the bridge copies.
LEMMA OptCopied ==
  ASSUME NEW trips, NEW also, AllFit(trips), AreCodecs(trips, also), I64 \in also,
         NEW m, NEW x \in trips, x.out \in OptLayouts(m)
  PROVE  OptBytes(m, Write(x.out, x.val)) = Write(x.out, x.val)
<1> DEFINE v == x.val
           inner == IF v = <<>> THEN 0 ELSE v[1]
           y == Trip(x.out.of, x.in.of, inner)
           a == Num("bool", Len(v))
           c == Write(x.out.of, inner)
<1>0. Coded(x) /\ Fits(x) /\ \A z \in Parts(x) : z \in trips
  BY CodecsClose DEF Closed
<1>1. x.out.t = "packed" /\ x.out.of \in (IF m \in Bools THEN {Bool} ELSE {I64, F64})
  BY DEF OptLayouts, Packed
<1>2. y \in trips /\ y.out = x.out.of /\ y.val = inner
  <2>1. y \in Parts(x)
    BY <1>1 DEF Parts
  <2> QED BY <1>0, <2>1, TripIs
<1>3. Write(x.out, v) = a \o c
  BY <1>0, <1>1 DEF Coded, WriteBy
<1>4. Coded(y) /\ Fits(y)
  BY <1>2, CodecsClose DEF Closed
<1> HIDE DEF y
<1>5. y.out.t = "num" /\ Width[y.out.kind] = IF m \in Bools THEN 1 ELSE 8
  BY <1>1, <1>2 DEF Bool, I64, F64, Width
<1>6. y.out.kind \in DOMAIN Width /\ inner \in Int
  BY <1>2, <1>4, <1>5 DEF Fits
<1>7. c \in Bytes /\ Len(c) = IF m \in Bools THEN 1 ELSE 8
  <2>1. c = Num(y.out.kind, inner)
    BY <1>2, <1>4, <1>5 DEF Coded, WriteBy
  <2> HIDE DEF inner, c
  <2>2. c \in Bytes /\ Len(c) = Width[y.out.kind]
    BY <1>6, <2>1, NumIs
  <2> QED BY <1>5, <2>2
<1>8. Len(v) \in Int
  <2>1. v = <<>> \/ v = <<v[1]>>
    BY <1>0, <1>1 DEF Fits, MaybeOne
  <2>2. Len(v) = IF v = <<>> THEN 0 ELSE 1
    BY <2>1, MaybeLen
  <2> QED BY <2>2
<1> HIDE DEF c
<1>9. a \o c \in Bytes /\ Len(a \o c) = IF m \in Bools THEN 2 ELSE 9
  <2>1. "bool" \in DOMAIN Width /\ Width["bool"] = 1
    BY WidthOf
  <2> HIDE DEF v
  <2>2. a \o c \in Bytes /\ Len(a \o c) = Width["bool"] + Len(c)
    BY <1>7, <1>8, <2>1, NumThen
  <2> QED BY <1>7, <2>1, <2>2
<1> DEFINE full == a \o c
<1>10. full \in Seq(Byte) /\ Len(full) = IF m \in Bools THEN 2 ELSE 9
  BY <1>9 DEF Bytes
<1> HIDE DEF full
<1>11. SubSeq(full, 1, Len(full)) = full
  BY <1>10, SubSeqFull
<1>12. OptBytes(m, full) = full
  BY <1>10, <1>11 DEF OptBytes
<1> QED BY <1>3, <1>12 DEF full

\* A record that begins with a number or a text has bytes.
LEMMA HasBytes ==
  ASSUME NEW trips, NEW also, AllFit(trips), AreCodecs(trips, also), I64 \in also,
         NEW x \in trips, SomeBytes(x.out)
  PROVE  Write(x.out, x.val) # <<>>
<1> DEFINE outs == x.out.fields
           n == Len(outs)
           items == [i \in 1 .. n |-> Write(outs[i][2], x.val[outs[i][1]])]
           flat == FlattenSeq(items)
           y(i) == Trip(outs[i][2], x.in.fields[i][2], x.val[outs[i][1]])
<1>0. Coded(x) /\ Fits(x)
  BY CodecsClose DEF Closed
<1>1. x.out.t = "rec" /\ 1 \in DOMAIN outs /\ outs[1][2] \in {I64, F64, Str}
  BY DEF SomeBytes
<1>2. DOMAIN outs = 1 .. n /\ n \in Nat
  BY <1>0, <1>1 DEF Fits, IsList
<1>3. Write(x.out, x.val) = flat
  BY <1>0, <1>1, <1>2 DEF Coded, WriteBy
<1>4. \A i \in 1 .. n : y(i) \in trips /\ y(i).out = outs[i][2] /\ y(i).val = x.val[outs[i][1]]
                        /\ y(i).out.t # "ptr"
  <2>1. \A i \in 1 .. n : y(i) \in Parts(x)
    BY <1>1, <1>2 DEF Parts
  <2>2. \A i \in 1 .. n : y(i).out = outs[i][2] /\ y(i).val = x.val[outs[i][1]]
    BY TripIs
  <2> HIDE DEF y, n, outs
  <2> QED BY <2>1, <2>2 DEF AllFit
<1>5. \A i \in 1 .. n : Write(outs[i][2], x.val[outs[i][1]]) \in Bytes
  <2> HIDE DEF y, n, outs
  <2> QED BY <1>4, CodecsAgree DEF RoundTrip, Carries
<1>6. items = [i \in 1 .. n |-> items[i]] /\ \A i \in 1 .. n : items[i] \in Bytes
  BY <1>5
<1>7. 1 \in 1 .. n /\ items[1] = Write(outs[1][2], x.val[outs[1][1]])
  BY <1>1, <1>2
<1> HIDE DEF items
<1>8. items \in Seq(Bytes) /\ Len(items) = n /\ flat \in Bytes
  <2> HIDE DEF n
  <2> QED BY <1>2, <1>6, ItemsAre
<1>9. Len(items[1]) <= Len(flat)
  <2>1. Len(flat) \in Nat /\ 0 \in Nat
    BY <1>8, BytesLen
  <2>2. Holds(flat, 0, flat)
    BY <2>1 DEF Holds
  <2>3. Holds(flat, 0 + Len(Upto(items, 1 - 1)), items[1]) /\ Len(Upto(items, 1 - 1)) \in Nat
    BY <1>7, <1>8, <2>1, <2>2, HoldsItems
  <2>4. Len(items[1]) \in Nat
    BY <1>6, <1>7, BytesLen
  <2> QED BY <2>1, <2>3, <2>4 DEF Holds
<1>10. Len(items[1]) >= 4
  <2> DEFINE of == outs[1][2]
             u == x.val[outs[1][1]]
             z == y(1)
  <2>1. Coded(z) /\ Fits(z) /\ z.out = of /\ z.val = u
    BY <1>4, <1>7, CodecsClose DEF Closed
  <2>2. items[1] = WriteBy(of, u)
    BY <1>7, <2>1 DEF Coded
  <2> HIDE DEF of, u, z
  <2>3. CASE of.t = "num" /\ of.kind \in {"i64", "f64"}
    <3>1. items[1] = Num(of.kind, u)
      BY <2>2, <2>3 DEF WriteBy
    <3>2. u \in Int
      BY <2>1, <2>3 DEF Fits
    <3>3. of.kind \in DOMAIN Width /\ Width[of.kind] = 8
      BY <2>3, WidthOf
    <3>4. Len(items[1]) = Width[of.kind]
      BY <3>1, <3>2, <3>3, NumIs
    <3> QED BY <3>3, <3>4
  <2>4. CASE of.t = "run"
    <3>1. u \in Nat
      BY <2>1, <2>4 DEF Fits
    <3>2. items[1] = Num("i32", u) \o Cell("raw", u, u)
      BY <2>2, <2>4 DEF WriteBy
    <3>3. Len(items[1]) = 4 + u
      BY <3>1, <3>2, TextLen
    <3> QED BY <3>1, <3>3
  <2> QED BY <1>1, <2>3, <2>4 DEF of, I64, F64, Str
<1>11. Len(flat) \in Nat /\ Len(items[1]) \in Nat
  BY <1>6, <1>7, <1>8, BytesLen
<1> HIDE DEF flat
<1>12. Len(<<>>) = 0
  OBVIOUS
<1>13. Len(flat) # 0
  BY <1>9, <1>10, <1>11
<1> QED BY <1>3, <1>12, <1>13

\* An implementation gets the value that is sent, whatever the bridge does.
LEMMA ArgDecodes ==
  ASSUME CodecsDefined, NEW lang \in Langs, NEW m \in Methods(lang),
         NEW v \in Values(DartCalls[m].arg)
  PROVE  Decodes(NativeCalls[lang][m].arg, Handed(lang, m, Write(DartCalls[m].arg, v)), v)
<1> DEFINE out == DartCalls[m].arg
           in == NativeCalls[lang][m].arg
           whole == Whole(lang, m)
           trips == Trips(lang, m)
           also == {I64, in}
           w == Write(out, v)
           x == Trip(out, whole, v)
<1>1. /\ lang \in {"cpp", "kotlin", "swift"} /\ AllFit(trips) /\ PassedOn(lang, m)
      /\ x \in trips
  BY CallsAssumption DEF CallsFit
<1>2. AreCodecs(trips, also) /\ I64 \in also
  BY DEF CodecsDefined
<1>3. x.out = out /\ x.in = whole /\ x.val = v
  BY TripIs
<1> HIDE DEF x
<1>4. Fits(x) /\ w \in Bytes /\ Decodes(whole, w, v)
  <2>1. Fits(x)
    BY <1>1 DEF AllFit
  <2> HIDE DEF trips, also, whole, out, in
  <2>2. Write(x.out, x.val) \in Bytes /\ Decodes(x.in, Write(x.out, x.val), x.val)
    BY <1>1, <1>2, TripDecodes
  <2> QED BY <1>3, <2>1, <2>2
<1>5. whole = IF lang # "cpp" \/ m \in Enums \cup Opts \/ in = Void THEN in
              ELSE IF in.t = "ptr" THEN Ptr(Frame(in.of)) ELSE Frame(in)
  BY DEF Whole
<1> DEFINE copied == IF m \notin Dispatched THEN w
                     ELSE IF m \in Opts THEN OptBytes(m, w) ELSE CopyFramed(w)
           handed == Handed(lang, m, w)
<1>6. handed = IF w = <<>> \/ m \in Enums THEN w
               ELSE CASE lang = "swift"  -> copied
                      [] lang = "cpp"    -> IF m \in Opts THEN copied ELSE CppView(copied)
                      [] lang = "kotlin" -> IF m \in Opts THEN OptBytes(m, copied) ELSE JniCopy(copied)
  BY DEF Handed
<1> SUFFICES Decodes(in, handed, v)
  OBVIOUS
<1>t. /\ Void.t = "rec" /\ \A of : Frame(of).t = "frame" /\ Frame(of).of = of
      /\ \A of : Ptr(of).t = "ptr" /\ Ptr(of).of = of
  BY DEF Void, Rec, Frame, Ptr
<1> HIDE DEF handed, whole, out, in, trips, w, also
<1>7. CASE m \in Enums
  BY <1>4, <1>5, <1>6, <1>7
<1>8. CASE m \notin Enums /\ m \in Opts /\ out \in OptLayouts(m)
  <2>1. OptBytes(m, w) = w
    BY <1>1, <1>2, <1>3, <1>8, OptCopied DEF w
  <2>2. handed = w
    BY <1>1, <1>6, <1>8, <2>1
  <2> QED BY <1>4, <1>5, <1>8, <2>2
<1>9. ASSUME m \notin Enums, m \notin Opts
      PROVE  whole = IF lang # "cpp" \/ in = Void THEN in
                     ELSE IF in.t = "ptr" THEN Ptr(Frame(in.of)) ELSE Frame(in)
  BY <1>5, <1>9
<1>10. CASE m \notin Enums /\ m \notin Opts /\ out = Void
  <2>1. out.t = "rec" /\ whole.t = "rec"
    BY <1>3, <1>4, <1>10, <1>t DEF Fits
  <2>2. whole = in
    BY <1>9, <1>10, <1>t, <2>1
  <2>3. w = <<>>
    <3>1. w = WriteBy(Void, v)
      BY <1>1, <1>2, <1>3, <1>10 DEF AreCodecs, w
    <3>2. w = FlattenSeq([i \in DOMAIN Void.fields |-> Write(Void.fields[i][2], v[Void.fields[i][1]])])
      BY <3>1, <1>t DEF WriteBy
    <3>3. DOMAIN Void.fields = {}
      BY DEF Void, Rec
    <3> DEFINE none == [i \in DOMAIN Void.fields |-> Write(Void.fields[i][2], v[Void.fields[i][1]])]
    <3>4. none = <<>>
      BY <3>3
    <3>5. Len(<<>>) = 0
      OBVIOUS
    <3>6. FlattenSeq(<<>>) = <<>>
      BY <3>5, FlattenEmpty
    <3> QED BY <3>2, <3>4, <3>6
  <2> QED BY <1>4, <1>6, <2>2, <2>3
\* What the bridge makes of a payload behind its size.
<1>11. ASSUME m \notin Enums, m \notin Opts, NEW payload \in Bytes, w = FrameOf(payload)
       PROVE  handed = IF lang = "cpp" THEN payload ELSE w
  <2>1. /\ CopyFramed(w) = w /\ JniCopy(w) = w /\ CppView(w) = payload
    BY <1>11, BridgeFrame DEF CopyFramed, JniCopy, CppView
  <2>2. w # <<>>
    BY <1>11, FrameNotEmpty
  <2>3. copied = w
    BY <1>11, <2>1
  <2> HIDE DEF copied
  <2> QED BY <1>1, <1>6, <1>11, <2>1, <2>2, <2>3
<1> HIDE DEF copied
<1>12. CASE m \notin Enums /\ m \notin Opts /\ Framed(out)
  <2> DEFINE payload == Write(out.of, v)
  <2>1. /\ w = FrameOf(payload) /\ payload \in Bytes /\ Reads(whole.of, payload, v)
        /\ whole.t = "frame"
    BY <1>1, <1>2, <1>3, <1>12, FramedIs DEF w
  <2> HIDE DEF payload
  <2>2. handed = IF lang = "cpp" THEN payload ELSE w
    BY <1>11, <1>12, <2>1
  <2>3. CASE lang # "cpp"
    BY <1>4, <1>9, <1>12, <2>2, <2>3
  <2>4. CASE lang = "cpp"
    <3>1. whole = Frame(in)
      BY <1>9, <1>12, <1>t, <2>1, <2>4
    <3>2. Reads(in, payload, v)
      BY <1>t, <2>1, <3>1
    <3> QED BY <2>1, <2>2, <2>4, <3>2, ReadsDecode
  <2> QED BY <2>3, <2>4
<1>13. CASE /\ m \notin Enums /\ m \notin Opts /\ out.t = "ptr" /\ out.of.t = "frame"
            /\ SomeBytes(out.of.of) /\ in.t = "ptr"
  <2> DEFINE y == Trip(out.of, whole.of, v[1])
             payload == Write(out.of.of, v[1])
  <2>0. v = <<>> \/ v = <<v[1]>>
    BY <1>3, <1>4, <1>13 DEF Fits, MaybeOne
  <2>1. w = IF v = <<>> THEN <<>> ELSE Write(out.of, v[1])
    BY <1>1, <1>2, <1>3, <1>13 DEF AreCodecs, WriteBy, w
  <2>2. CASE lang # "cpp"
    <3>1. whole = in
      BY <1>9, <1>13, <2>2
    <3>2. handed = w
      <4>1. CASE v = <<>>
        BY <1>6, <2>1, <4>1
      <4>2. CASE v # <<>>
        <5>1. y \in trips
          <6>1. y \in Parts(x)
            BY <1>3, <1>13, <4>2 DEF Parts
          <6> QED BY <1>1, <6>1 DEF AllFit
        <5>2. y.out = out.of /\ y.in = whole.of /\ y.val = v[1] /\ Framed(y.out)
          BY <1>13, TripIs DEF Framed
        <5> HIDE DEF y
        <5>3. Write(y.out, y.val) = FrameOf(Write(y.out.of, y.val)) /\ Write(y.out.of, y.val) \in Bytes
          BY <1>1, <1>2, <5>1, <5>2, FramedIs
        <5>4. w = FrameOf(payload) /\ payload \in Bytes
          BY <2>1, <4>2, <5>2, <5>3
        <5> HIDE DEF payload
        <5> QED BY <1>11, <1>13, <2>2, <5>4
      <4> QED BY <4>1, <4>2
    <3> QED BY <1>4, <3>1, <3>2
  <2>3. CASE lang = "cpp"
    <3>0. whole = Ptr(Frame(in.of))
      BY <1>9, <1>13, <1>t, <2>3
    <3>1. ASSUME NEW w_ \in Bytes, NEW p \in Nat
          PROVE  Read(in, At(w_, p)) = ReadBy(in, At(w_, p))
      BY <1>2 DEF AreCodecs, also
    <3>2. CASE v = <<>>
      <4>1. handed = <<>> /\ <<>> \in Bytes
        BY <1>6, <2>1, <3>2, EmptySeq DEF Bytes
      <4> QED BY <1>13, <3>1, <3>2, <4>1, PtrDecodes
    <3>3. CASE v # <<>>
      <4>1. y \in trips
        <5>1. y \in Parts(x)
          BY <1>3, <1>13, <3>3 DEF Parts
        <5> QED BY <1>1, <5>1 DEF AllFit
      <4>2. y.out = out.of /\ y.in = Frame(in.of) /\ y.val = v[1] /\ Framed(y.out)
        BY <1>13, <1>t, <3>0, TripIs DEF Framed
      <4> HIDE DEF y
      <4>3. /\ Write(y.out, y.val) = FrameOf(Write(y.out.of, y.val))
            /\ Write(y.out.of, y.val) \in Bytes
            /\ Reads(y.in.of, Write(y.out.of, y.val), y.val)
        BY <1>1, <1>2, <4>1, <4>2, FramedIs
      <4>4. w = FrameOf(payload) /\ payload \in Bytes /\ Reads(in.of, payload, v[1])
        BY <1>t, <2>1, <3>3, <4>2, <4>3
      <4>5. payload # <<>>
        <5> DEFINE z == Trip(y.out.of, y.in.of, y.val)
        <5>1. z \in Parts(y)
          BY <1>13, <4>2 DEF Parts
        <5>2. z \in trips
          BY <1>1, <4>1, <5>1 DEF AllFit
        <5>3. z.out = out.of.of /\ z.val = v[1]
          BY <4>2, TripIs
        <5> HIDE DEF z
        <5>4. SomeBytes(z.out)
          BY <1>13, <5>3
        <5>5. Write(z.out, z.val) # <<>>
          BY <1>1, <1>2, <5>2, <5>4, HasBytes
        <5> QED BY <5>3, <5>5
      <4> HIDE DEF payload
      <4>6. handed = payload
        BY <1>11, <1>13, <2>3, <4>4
      <4>7. Decodes(in, payload, v)
        BY <1>13, <2>0, <3>1, <3>3, <4>4, <4>5, PtrDecodes
      <4> QED BY <4>6, <4>7
    <3> QED BY <3>2, <3>3
  <2> QED BY <2>2, <2>3
<1> QED BY <1>1, <1>7, <1>8, <1>10, <1>12, <1>13 DEF PassedOn, out, in

\* Dart gets the value that an implementation returns, whatever the bridge does,
\* unless Swift cuts it.
LEMMA RetDecodes ==
  ASSUME CodecsDefined, NEW lang \in Langs, NEW m \in Methods(lang),
         NEW v \in Values(DartCalls[m].arg), NEW a \in Answers(m, v), ~Cut(lang, m, a)
  PROVE  Decodes(DartCalls[m].ret, Returned(lang, m, Write(NativeCalls[lang][m].ret, a)), a)
<1> DEFINE out == NativeCalls[lang][m].ret
           in == DartCalls[m].ret
           trips == Trips(lang, m)
           also == {I64, NativeCalls[lang][m].arg}
           w == Write(out, a)
           x == Trip(out, in, a)
<1>1. AllFit(trips) /\ x \in trips /\ (m \in Opts => out \in OptLayouts(m))
  BY CallsAssumption DEF CallsFit
<1>2. AreCodecs(trips, also) /\ I64 \in also
  BY DEF CodecsDefined
<1>3. x.out = out /\ x.in = in /\ x.val = a
  BY TripIs
<1> HIDE DEF x, trips, also, out, in
<1>4. Decodes(in, w, a)
  BY <1>1, <1>2, <1>3, TripDecodes
<1>5. CASE lang = "kotlin" /\ m \in Opts
  <2>1. OptBytes(m, w) = w
    BY <1>1, <1>2, <1>3, <1>5, OptCopied
  <2> QED BY <1>4, <1>5, <2>1 DEF Returned, out, in
<1>6. CASE ~(lang = "kotlin" /\ m \in Opts)
  BY <1>4, <1>6 DEF Returned, out, in
<1> QED BY <1>5, <1>6

-----------------------------------------------------------------------------
(***************************************************************************)
(* The calls.  At every step of one, the bytes under way are what the last *)
(* writer and the bridge have made of the value, and what has been decoded *)
(* is that value.                                                          *)
(***************************************************************************)

\* How far a call can be.
Places == {"idle", "called", "entered", "decoded", "replied", "answered"}

\* A method that is called, with a value it may be called with.
CallMade ==
  /\ call = [lang |-> call.lang, m |-> call.m, sent |-> call.sent, returned |-> call.returned]
  /\ call.lang \in Langs /\ call.m \in Methods(call.lang)
  /\ call.sent \in Values(DartCalls[call.m].arg)

\* The bytes Dart writes, and those it gets back.
Sent     == Write(DartCalls[call.m].arg, call.sent)
SentBack == Returned(call.lang, call.m,
                     Write(NativeCalls[call.lang][call.m].ret, call.returned))

\* The bytes and the memory they are in on the way to the implementation.
BytesOut ==
  pc \in {"called", "entered"} =>
    /\ bytes = IF pc = "called" THEN Sent ELSE Handed(call.lang, call.m, Sent)
    /\ arena = "live"

\* The bytes on the way back are those of an answer to the value sent.
BytesBack ==
  pc \in {"replied", "answered"} =>
    call.returned \in Answers(call.m, call.sent) /\ bytes = SentBack

\* An implementation that has decoded has the value sent.
GotSent ==
  got = IF pc \in {"decoded", "replied", "answered"} THEN Right(call.sent) ELSE Nothing

\* Dart has read the result when the call is answered.
BackRead ==
  back = IF pc = "answered" THEN DecodeBy(DartCalls[call.m].ret, bytes) ELSE Nothing

\* The invariant of a call.
CallInv ==
  /\ pc \in Places
  /\ pc # "idle" => CallMade
  /\ BytesOut /\ BytesBack /\ GotSent /\ BackRead

\* No call is under way at first.
LEMMA InitCalls == Init => CallInv
BY DEF Init, CallInv, Places, BytesOut, BytesBack, GotSent, BackRead

\* Dart writes the bytes of the value it sends.
LEMMA CallKeeps == CallInv /\ Call => CallInv'
<1> SUFFICES ASSUME CallInv, Call PROVE CallInv'
  OBVIOUS
<1>1. PICK lang \in Langs : \E m \in Methods(lang) : \E v \in Values(DartCalls[m].arg) :
        /\ call' = [lang |-> lang, m |-> m, sent |-> v, returned |-> Nothing]
        /\ bytes' = Write(DartCalls[m].arg, v)
  BY DEF Call
<1>p. PICK m \in Methods(lang) : \E v \in Values(DartCalls[m].arg) :
        /\ call' = [lang |-> lang, m |-> m, sent |-> v, returned |-> Nothing]
        /\ bytes' = Write(DartCalls[m].arg, v)
  BY <1>1
<1>2. PICK v \in Values(DartCalls[m].arg) :
        /\ call' = [lang |-> lang, m |-> m, sent |-> v, returned |-> Nothing]
        /\ bytes' = Write(DartCalls[m].arg, v)
  BY <1>p
<1>3. call'.lang = lang /\ call'.m = m /\ call'.sent = v /\ call'.returned = Nothing
  BY <1>2
<1>4. /\ pc = "idle" /\ pc' = "called" /\ arena' = "live"
      /\ got' = Nothing /\ back' = Nothing
  BY DEF Call, CallInv, GotSent, BackRead
<1>5. CallMade'
  BY <1>2, <1>3 DEF CallMade
<1>6. BytesOut'
  BY <1>2, <1>3, <1>4 DEF BytesOut, Sent
<1> QED BY <1>4, <1>5, <1>6 DEF CallInv, Places, BytesBack, GotSent, BackRead

\* The bridge hands them on.
LEMMA EnterKeeps == CallInv /\ Enter => CallInv'
<1> SUFFICES ASSUME CallInv, Enter PROVE CallInv'
  OBVIOUS
<1>1. /\ pc = "called" /\ pc' = "entered" /\ call' = call /\ arena' = "live"
      /\ bytes = Sent /\ bytes' = Handed(call.lang, call.m, bytes)
      /\ got' = Nothing /\ back' = Nothing /\ CallMade
  BY DEF Enter, CallInv, BytesOut, GotSent, BackRead
<1>2. CallMade' /\ BytesOut'
  BY <1>1 DEF CallMade, BytesOut, Sent
<1> QED BY <1>1, <1>2 DEF CallInv, Places, BytesBack, GotSent, BackRead

\* The implementation reads them while the arena lives: the value sent.
LEMMA DecodeKeeps == ASSUME CodecsDefined PROVE CallInv /\ Decode => CallInv'
<1> SUFFICES ASSUME CallInv, Decode PROVE CallInv'
  OBVIOUS
<1>1. /\ pc = "entered" /\ pc' = "decoded" /\ call' = call /\ arena = "live"
      /\ bytes = Handed(call.lang, call.m, Sent) /\ got' = Decoded
      /\ back' = Nothing /\ CallMade
  BY DEF Decode, CallInv, BytesOut, BackRead
<1>2. DecodeBy(NativeCalls[call.lang][call.m].arg, bytes) = Right(call.sent)
  <2>1. Decodes(NativeCalls[call.lang][call.m].arg, Handed(call.lang, call.m, Sent), call.sent)
    BY <1>1, ArgDecodes DEF CallMade, Sent
  <2> QED BY <1>1, <2>1 DEF Decodes
<1>3. Decoded = [Right(call.sent) EXCEPT !.ok = @ /\ (arena = "live" \/ Copies)]
  BY <1>2 DEF Decoded
<1>4. Decoded = Right(call.sent)
  BY <1>1, <1>3 DEF Right
<1>5. CallMade'
  BY <1>1 DEF CallMade
<1> QED BY <1>1, <1>4, <1>5 DEF CallInv, Places, BytesOut, BytesBack, GotSent, BackRead

\* The arena goes when nothing reads from it any more.
LEMMA LeaveKeeps == CallInv /\ Leave => CallInv'
BY DEF CallInv, Leave, Places, CallMade, BytesOut, BytesBack, Sent, SentBack, GotSent, BackRead

\* The implementation writes an answer to the value sent.
LEMMA ReplyKeeps == CallInv /\ Reply => CallInv'
<1> SUFFICES ASSUME CallInv, Reply PROVE CallInv'
  OBVIOUS
<1>1. /\ pc = "decoded" /\ pc' = "replied" /\ got' = got /\ got = Right(call.sent)
      /\ back' = Nothing /\ CallMade
  BY DEF Reply, CallInv, GotSent, BackRead
<1>2. got.v = call.sent
  BY <1>1 DEF Right
<1>3. PICK v \in Answers(call.m, call.sent) :
        /\ call' = [call EXCEPT !.returned = v]
        /\ bytes' = Returned(call.lang, call.m,
                             Write(NativeCalls[call.lang][call.m].ret, v))
  BY <1>2 DEF Reply
<1>4. call' = [lang |-> call.lang, m |-> call.m, sent |-> call.sent, returned |-> v]
  BY <1>1, <1>3 DEF CallMade
<1>5. call'.lang = call.lang /\ call'.m = call.m /\ call'.sent = call.sent /\ call'.returned = v
  BY <1>4
<1>6. CallMade' /\ BytesBack' /\ GotSent'
  BY <1>1, <1>3, <1>4, <1>5 DEF CallMade, BytesBack, SentBack, GotSent
<1> QED BY <1>1, <1>6 DEF CallInv, Places, BytesOut, BackRead

\* Dart reads the bytes of the answer.
LEMMA AnswerKeeps == CallInv /\ Answer => CallInv'
<1> SUFFICES ASSUME CallInv, Answer PROVE CallInv'
  OBVIOUS
<1>1. /\ pc = "replied" /\ pc' = "answered" /\ call' = call /\ bytes' = bytes /\ got' = got
      /\ back' = DecodeBy(DartCalls[call.m].ret, bytes) /\ CallMade
      /\ call.returned \in Answers(call.m, call.sent) /\ bytes = SentBack
      /\ got = Right(call.sent)
  BY DEF Answer, CallInv, BytesBack, GotSent
<1>2. CallMade' /\ BytesBack'
  BY <1>1 DEF CallMade, BytesBack, SentBack
<1>3. GotSent' /\ BackRead'
  BY <1>1 DEF GotSent, BackRead
<1> QED BY <1>1, <1>2, <1>3 DEF CallInv, Places, BytesOut

\* The call is over.
LEMMA CompleteKeeps == CallInv /\ Complete => CallInv'
BY DEF CallInv, Complete, Places, BytesOut, BytesBack, GotSent, BackRead

\* Nothing happens.
LEMMA CallsStay == CallInv /\ UNCHANGED vars => CallInv'
BY DEF CallInv, vars, Places, CallMade, BytesOut, BytesBack, Sent, SentBack, GotSent, BackRead

\* The bytes under way are those of the values, at every step of a call.
THEOREM CallsCorrect == ASSUME CodecsDefined PROVE Spec => []CallInv
<1>1. Init => CallInv
  BY InitCalls
<1>2. CallInv /\ [Next]_vars => CallInv'
  BY CallKeeps, EnterKeeps, DecodeKeeps, LeaveKeeps, ReplyKeeps, AnswerKeeps, CompleteKeeps,
     CallsStay DEF Next
<1> QED BY <1>1, <1>2, PTL DEF Spec

\* A call that Dart has read the result of, and that Swift has not cut.
LEMMA BackRight ==
  ASSUME CodecsDefined, CallInv, back # Nothing, ~Shortened
  PROVE  back = Right(call.returned)
<1>1. /\ pc = "answered" /\ CallMade /\ call.returned \in Answers(call.m, call.sent)
      /\ bytes = SentBack /\ back = DecodeBy(DartCalls[call.m].ret, bytes)
  BY DEF CallInv, Places, BytesBack, BackRead
<1>2. ~Cut(call.lang, call.m, call.returned)
  BY <1>1 DEF Cut, Shortened, SentBack, Returned
<1>3. Decodes(DartCalls[call.m].ret, SentBack, call.returned)
  BY <1>1, <1>2, RetDecodes DEF CallMade, SentBack
<1> QED BY <1>1, <1>3 DEF Decodes

\* What an implementation has decoded is the value sent.
LEMMA GotRight ==
  ASSUME CallInv, got # Nothing
  PROVE  got = Right(call.sent)
BY DEF CallInv, GotSent

\* An implementation decodes the value Dart encoded, whatever its platform and
\* whatever the bridge does with the bytes (WireCalls.NativeGetsValue).
THEOREM ArgumentsCarried == ASSUME CodecsDefined PROVE Spec => []NativeGetsValue
<1>1. CallInv => NativeGetsValue
  BY GotRight DEF NativeGetsValue, Right
<1> QED BY <1>1, CallsCorrect, PTL

\* Dart decodes the value that the implementation returned, unless the Swift side
\* has cut the result (WireCalls.DartGetsValue).
THEOREM ResultsCarried == ASSUME CodecsDefined PROVE Spec => []DartGetsValue
<1>1. CallInv => DartGetsValue
  BY BackRight DEF DartGetsValue, Right
<1> QED BY <1>1, CallsCorrect, PTL

\* Every decoder ends where the sizes in front of payloads say, at every level,
\* with no byte left (WireCalls.FramesExact).
THEOREM SizesCorrect == ASSUME CodecsDefined PROVE Spec => []FramesExact
<1>1. CallInv => FramesExact
  BY GotRight, BackRight DEF FramesExact, Right
<1> QED BY <1>1, CallsCorrect, PTL
===============================================================================
