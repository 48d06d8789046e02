------------------------------ MODULE WireFormat ------------------------------
(***************************************************************************)
(* The bytes that carry a record, list, map or result between Dart and a   *)
(* native implementation, and the codecs that write and read them.  Every  *)
(* language has codecs of its own, generated from one specification; they  *)
(* are described here by layouts (the constructors below), which the       *)
(* modules WireDart, WireCpp, WireKotlin and WireSwift compose, and by     *)
(* what writing and reading a layout does to the bytes.  The codecs are    *)
(* Write and Read; WriteBy and ReadBy say what they do with a layout, by   *)
(* Write and Read for what it contains.                                    *)
(*                                                                         *)
(* A byte is <<kind, x, j>>: byte j of the cell that holds x as a kind.  A *)
(* reader that does not find the whole cell it expects would make garbage  *)
(* of the bytes; here it stops being ok.  Values: a number, the size of a  *)
(* text or a blob, <<>> or <<v>> for an optional, a function from names    *)
(* for a record, <<tag, v>> for a variant, a sequence for a list, and a    *)
(* function from keys (the sizes of their texts) for a map.                *)
(***************************************************************************)
EXTENDS Integers, Sequences, FiniteSets, SequencesExt

CONSTANTS
  Write(_, _),   \* the bytes of a value in a layout
  Read(_, _)     \* what a layout makes of a reader

Width == [i8 |-> 1, bool |-> 1, i32 |-> 4, i64 |-> 8, f64 |-> 8]

Kinds == DOMAIN Width \cup {"raw", "hole"}
Byte  == Kinds \X Int \X Nat
Bytes == Seq(Byte)

Cell(kind, x, n) == [j \in 1 .. n |-> <<kind, x, j>>]
Num(kind, x)     == Cell(kind, x, Width[kind])

-----------------------------------------------------------------------------
(***************************************************************************)
(* Layouts.                                                                *)
(***************************************************************************)
I64  == [t |-> "num", kind |-> "i64"]
F64  == [t |-> "num", kind |-> "f64"]
Bool == [t |-> "num", kind |-> "bool"]
Str  == [t |-> "run", unit |-> 1]                     \* [4B size][bytes]
Blob(unit)     == [t |-> "run", unit |-> unit]        \* elements of unit bytes
Enum(natives)  == [t |-> "enum", natives |-> natives] \* an int64
Opt(x)         == [t |-> "opt", of |-> x]             \* [1B][value if present]
Packed(x)      == [t |-> "packed", of |-> x]          \* [1B hasValue][value]
Rec(fields)    == [t |-> "rec", fields |-> fields]    \* <<<<name, layout>>, ..>>
Variant(cases) == [t |-> "variant", cases |-> cases]  \* [1B tag][case]
List(x)        == [t |-> "list", of |-> x]            \* [4B count][items]
Ptr(x)        == [t |-> "ptr", of |-> x]         \* a pointer that may be null
EnumOrNull(natives) == [t |-> "enumornull", natives |-> natives]  \* null is -1

\* [4B count][8B offset of each item][items]; a reader uses the offsets or not.
Indexed(x, seeks) == [t |-> "indexed", of |-> x, seeks |-> seeks]

\* [4B count]{[key][value]}; some writers keep no order.
Dict(x, ordered) == [t |-> "dict", of |-> x, ordered |-> ordered]

\* A map's value, [1B tag][value]; tag 0 is null; a reader may go by the tag.
Tagged(tag, x, nullable, checked) ==
  [t |-> "tagged", tag |-> tag, of |-> x, nullable |-> nullable,
   checked |-> checked]

Frame(x)      == [t |-> "frame", of |-> x]       \* [4B size][payload]
ShortFrame(x) == [t |-> "shortframe", of |-> x]  \* as far as its first byte says

\* A frame whose size is added up before its map is written: per entry the key
\* and, for a value, fixed bytes and its own when it is a text.
Sized(x, fixed, text) == [t |-> "sized", of |-> x, fixed |-> fixed, text |-> text]

\* A value that says what it is: [1B tag][value].
AnyValue(tags) == [t |-> "any", tags |-> tags]

\* A call of a method passes an argument and a result; Void is no bytes.
Void       == Rec(<<>>)
Pass(a, b) == [arg |-> a, ret |-> b]
Echo(x)    == Pass(x, x)

AnyOf(tags, kind) ==
  CASE kind = "null"   -> Rec(<<>>)
    [] kind = "bool"   -> Bool
    [] kind = "int"    -> I64
    [] kind = "double" -> F64
    [] kind = "string" -> Str
    [] kind = "list"   -> List(AnyValue(tags))
    [] kind = "object" -> Dict(AnyValue(tags), TRUE)

-----------------------------------------------------------------------------
(***************************************************************************)
(* Writing: the bytes of a value.                                          *)
(***************************************************************************)
Keys(v, ordered) ==
  LET ks == SetToSeq(DOMAIN v) IN IF ordered THEN ks ELSE Reverse(ks)

\* Mutant: a null is counted like a value.
SizeAheadNullAsValue(ty, v) ==
  LET nullable == ty.of.of.nullable
      ks    == Keys(v, TRUE)
      of(k) == ty.fixed + IF ~ty.text \/ (nullable /\ v[k] = <<>>) THEN 0
                          ELSE IF nullable THEN v[k][1] ELSE v[k]
      sum[i \in 0 .. Len(ks)] ==
        IF i = 0 THEN 4 ELSE sum[i - 1] + 4 + ks[i] + of(ks[i])
  IN sum[Len(ks)]

SizeAhead(ty, v) ==
  LET nullable == ty.of.of.nullable
      ks    == Keys(v, TRUE)
      of(k) == IF nullable /\ v[k] = <<>> THEN 1
               ELSE ty.fixed + IF ~ty.text THEN 0 ELSE IF nullable THEN v[k][1] ELSE v[k]
      sum[i \in 0 .. Len(ks)] ==
        IF i = 0 THEN 4 ELSE sum[i - 1] + 4 + ks[i] + of(ks[i])
  IN sum[Len(ks)]

\* Mutant: the offsets leave out the count in front of the table.
OffsetOfTable(items, i) ==
  8 * Len(items) + Len(FlattenSeq(SubSeq(items, 1, i - 1)))

OffsetOf(items, i) ==
  4 + 8 * Len(items) + Len(FlattenSeq(SubSeq(items, 1, i - 1)))

\* The first n bytes; bytes that were never written hold nothing.
Fit(w, n) == [j \in 1 .. n |-> IF j <= Len(w) THEN w[j] ELSE <<"hole", 0, j>>]

\* An entry of a map.
Entry(x)       == Rec(<<<<"key", Str>>, <<"value", x>>>>)
EntryOf(v, k)  == [key |-> k, value |-> v[k]]

FrameOf(w)      == Num("i32", Len(w)) \o w
ShortFrameOf(w) == Num("i32", Len(w)) \o Fit(w, Len(w) % 256)

WriteBy(ty, v) ==
  CASE ty.t = "num"     -> Num(ty.kind, v)
    [] ty.t = "run"     -> Num("i32", v) \o Cell("raw", v, v)
    [] ty.t = "enum"    -> Num("i64", ty.natives[v + 1])
    [] ty.t = "enumornull" -> Num("i64", IF v = <<>> THEN -1 ELSE ty.natives[v[1] + 1])
    [] ty.t = "ptr"     -> IF v = <<>> THEN <<>> ELSE Write(ty.of, v[1])
    [] ty.t = "opt"     -> Num("bool", Len(v)) \o
                           IF v = <<>> THEN <<>> ELSE Write(ty.of, v[1])
    [] ty.t = "packed"  -> Num("bool", Len(v)) \o Write(ty.of, IF v = <<>> THEN 0 ELSE v[1])
    [] ty.t = "rec"     -> FlattenSeq([i \in DOMAIN ty.fields |->
                             Write(ty.fields[i][2], v[ty.fields[i][1]])])
    [] ty.t = "variant" -> Num("i8", v[1]) \o Write(ty.cases[v[1] + 1], v[2])
    [] ty.t = "list"    -> Num("i32", Len(v)) \o
                           FlattenSeq([i \in DOMAIN v |-> Write(ty.of, v[i])])
    [] ty.t = "indexed" -> LET items == [i \in DOMAIN v |-> Write(ty.of, v[i])]
                           IN Num("i32", Len(v)) \o
                              FlattenSeq([i \in DOMAIN v |-> Num("i64", OffsetOf(items, i))])
                              \o FlattenSeq(items)
    [] ty.t = "dict"    -> LET ks == Keys(v, ty.ordered)
                           IN Num("i32", Len(ks)) \o
                              FlattenSeq([i \in DOMAIN ks |->
                                Write(Entry(ty.of), EntryOf(v, ks[i]))])
    [] ty.t = "tagged"  -> IF ty.nullable /\ v = <<>> THEN Num("i8", 0)
                           ELSE Num("i8", ty.tag) \o
                                Write(ty.of, IF ty.nullable THEN v[1] ELSE v)
    [] ty.t = "frame"      -> FrameOf(Write(ty.of, v))
    [] ty.t = "shortframe" -> ShortFrameOf(Write(ty.of, v))
    [] ty.t = "sized"      -> LET n == SizeAhead(ty, v)
                              IN Num("i32", n) \o Fit(Write(ty.of, v), n)
    [] ty.t = "any"        -> LET i == CHOOSE i \in DOMAIN ty.tags : ty.tags[i] = v[1]
                              IN Num("i8", i - 1) \o Write(AnyOf(ty.tags, v[1]), v[2])

-----------------------------------------------------------------------------
(***************************************************************************)
(* Reading: from a reader (the bytes, a position, whether it found what it *)
(* expected so far, whether every frame ended where its size said) to the  *)
(* reader after it and the value.                                          *)
(***************************************************************************)
At(w, p)   == [w |-> w, pos |-> p, ok |-> TRUE, exact |-> TRUE]
Reader(w)  == At(w, 0)
Took(r, v) == [r |-> r, v |-> v]
If(b, r)   == [w |-> r.w, pos |-> r.pos, ok |-> r.ok /\ b, exact |-> r.exact]
Garbage(r) == If(FALSE, r)

Take(kind, n, r) ==
  LET found == IF r.pos < Len(r.w) THEN r.w[r.pos + 1][2] ELSE 0
      good  == /\ r.ok /\ r.pos + n <= Len(r.w)
               /\ \A j \in 1 .. n : r.w[r.pos + j] = <<kind, found, j>>
  IN IF n = 0 THEN Took(r, 0)
     ELSE Took([w |-> r.w, pos |-> r.pos + n, ok |-> good, exact |-> r.exact],
               IF good THEN found ELSE 0)

TakeNum(kind, r) == Take(kind, Width[kind], r)

\* One after the other, each where the last ended or where starts says.
ReadEach(tys, starts, r) ==
  LET got[i \in 0 .. Len(tys)] ==
        IF i = 0 THEN Took(r, <<>>)
        ELSE LET past == got[i - 1]
                 x    == Read(tys[i], IF i \in DOMAIN starts THEN [past.r EXCEPT !.pos = starts[i]]
                                   ELSE past.r)
             IN Took(x.r, Append(past.v, x.v))
  IN got[Len(tys)]

ReadInOrder(tys, r) == ReadEach(tys, <<>>, r)

ReadRun(unit, r) ==
  LET n == TakeNum("i32", r)
      m == (n.v \div unit) * unit
      x == Take("raw", m, n.r)
  IN Took(If(x.v = m, x.r), m)

ReadEnum(natives, r) ==
  LET x == TakeNum("i64", r) IN
  IF \E i \in DOMAIN natives : natives[i] = x.v
  THEN Took(x.r, (CHOOSE i \in DOMAIN natives : natives[i] = x.v) - 1)
  ELSE Took(Garbage(x.r), 0)

ReadEnumOrNull(natives, r) ==
  LET raw == TakeNum("i64", r)
      x   == ReadEnum(natives, r)
  IN IF raw.v < 0 THEN Took(raw.r, <<>>) ELSE Took(x.r, <<x.v>>)

ReadOpt(ty, r) ==
  LET has == TakeNum("bool", r)
      x   == Read(ty.of, has.r)
  IN IF has.v = 1 THEN Took(x.r, <<x.v>>)
     ELSE Took(IF ty.t = "opt" THEN has.r ELSE x.r, <<>>)

ReadRec(fields, r) ==
  LET xs == ReadInOrder([i \in DOMAIN fields |-> fields[i][2]], r)
      at(name) == CHOOSE i \in DOMAIN fields : fields[i][1] = name
  IN Took(xs.r, [name \in {fields[i][1] : i \in DOMAIN fields} |-> xs.v[at(name)]])

ReadCase(cases, r) ==
  LET tag == TakeNum("i8", r)
      x   == Read(cases[tag.v + 1], tag.r)
  IN IF tag.v + 1 \notin DOMAIN cases THEN Took(Garbage(tag.r), <<0, 0>>)
     ELSE Took(x.r, <<tag.v, x.v>>)

ReadList(ty, r) ==
  LET n == TakeNum("i32", r) IN ReadInOrder([i \in 1 .. n.v |-> ty.of], n.r)

ReadIndexed(ty, r) ==
  LET n    == TakeNum("i32", r)
      offs == ReadInOrder([i \in 1 .. n.v |-> I64], n.r)
      starts == [i \in 1 .. n.v |-> r.pos + offs.v[i]]
  IN ReadEach([i \in 1 .. n.v |-> ty.of], IF ty.seeks THEN starts ELSE <<>>, offs.r)

ReadDict(ty, r) ==
  LET es == ReadList(List(Entry(ty.of)), r)
      last(k) == CHOOSE i \in DOMAIN es.v :
                   es.v[i].key = k /\ \A j \in DOMAIN es.v : es.v[j].key = k => j <= i
  IN Took(es.r, [k \in {es.v[i].key : i \in DOMAIN es.v} |-> es.v[last(k)].value])

ReadTagged(ty, r) ==
  LET tag == TakeNum("i8", r)
      x   == Read(ty.of, tag.r)
  IN IF ty.nullable /\ tag.v = 0 THEN Took(tag.r, <<>>)
     ELSE Took(If(ty.checked => tag.v = ty.tag, x.r),
               IF ty.nullable THEN <<x.v>> ELSE x.v)

ReadFrame(x, r) ==
  LET n == TakeNum("i32", r)
      p == Read(x, n.r)
      end == n.r.pos + n.v
  IN Took([w |-> p.r.w, pos |-> end, ok |-> p.r.ok,
           exact |-> p.r.exact /\ p.r.pos = end], p.v)

ReadAny(tags, r) ==
  LET tag == TakeNum("i8", r)
      x   == Read(AnyOf(tags, tags[tag.v + 1]), tag.r)
  IN IF tag.v + 1 \notin DOMAIN tags THEN Took(Garbage(tag.r), <<"null", 0>>)
     ELSE Took(x.r, <<tags[tag.v + 1], x.v>>)

ReadPtr(x, r) ==
  LET p == Read(x, r) IN IF r.w = <<>> THEN Took(r, <<>>) ELSE Took(p.r, <<p.v>>)

ReadBy(ty, r) ==
  CASE ty.t = "num"     -> TakeNum(ty.kind, r)
    [] ty.t = "run"     -> ReadRun(ty.unit, r)
    [] ty.t = "enum"    -> ReadEnum(ty.natives, r)
    [] ty.t = "enumornull" -> ReadEnumOrNull(ty.natives, r)
    [] ty.t = "ptr"     -> ReadPtr(ty.of, r)
    [] ty.t = "opt"     -> ReadOpt(ty, r)
    [] ty.t = "packed"  -> ReadOpt(ty, r)
    [] ty.t = "rec"     -> ReadRec(ty.fields, r)
    [] ty.t = "variant" -> ReadCase(ty.cases, r)
    [] ty.t = "list"    -> ReadList(ty, r)
    [] ty.t = "indexed" -> ReadIndexed(ty, r)
    [] ty.t = "dict"    -> ReadDict(ty, r)
    [] ty.t = "tagged"  -> ReadTagged(ty, r)
    [] ty.t = "frame"   -> ReadFrame(ty.of, r)
    [] ty.t = "any"     -> ReadAny(ty.tags, r)

\* What a decoder makes of the bytes it is given.
DecodeBy(ty, w) ==
  LET x == Read(ty, Reader(w))
  IN [v |-> x.v, ok |-> x.r.ok, exact |-> x.r.exact /\ x.r.pos = Len(w)]
===============================================================================
