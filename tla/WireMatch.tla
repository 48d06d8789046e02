------------------------------- MODULE WireMatch -------------------------------
(***************************************************************************)
(* When a layout reads what another one writes.  A trip is a value with    *)
(* the layout it is written by and the one it is read by, which are        *)
(* generated for two languages by two generators.  Fits says what the two  *)
(* must have in common at the top, Parts are the trips inside; nothing     *)
(* here speaks of bytes.  That fitting layouts carry every value is the    *)
(* theorem of WireProofs.                                                  *)
(***************************************************************************)
EXTENDS WireFormat

CONSTANT Rank(_)   \* how deep a trip is

Trip(out, in, v) == [out |-> out, in |-> in, val |-> v]

Parts(x) ==
  LET out == x.out
      in  == x.in
      v   == x.val
  IN CASE out.t \in {"num", "run", "enum", "enumornull"} -> {}
       [] out.t \in {"opt", "ptr"} ->
            IF v = <<>> THEN {} ELSE {Trip(out.of, in.of, v[1])}
       [] out.t = "packed" -> {Trip(out.of, in.of, IF v = <<>> THEN 0 ELSE v[1])}
       [] out.t = "rec" ->
            {Trip(out.fields[i][2], in.fields[i][2], v[out.fields[i][1]]) :
               i \in DOMAIN out.fields}
       [] out.t = "variant" -> {Trip(out.cases[v[1] + 1], in.cases[v[1] + 1], v[2])}
       [] out.t \in {"list", "indexed"} -> {Trip(out.of, in.of, v[i]) : i \in DOMAIN v}
       [] out.t = "dict" ->
            {Trip(Entry(out.of), Entry(in.of), EntryOf(v, k)) : k \in DOMAIN v}
       [] out.t = "tagged" ->
            IF out.nullable /\ v = <<>> THEN {}
            ELSE {Trip(out.of, in.of, IF out.nullable THEN v[1] ELSE v)}
       [] out.t \in {"frame", "shortframe", "sized"} -> {Trip(out.of, in.of, v)}
       [] out.t = "any" -> {Trip(AnyOf(out.tags, v[1]), AnyOf(in.tags, v[1]), v[2])}

IsList(v)    == DOMAIN v = 1 .. Len(v) /\ Len(v) \in Nat /\ v = [i \in 1 .. Len(v) |-> v[i]]
Distinct(s)  == \A i, j \in DOMAIN s : s[i] = s[j] => i = j
MaybeOne(v)  == v = <<>> \/ v = <<v[1]>>

\* The two layouts of an enum or of the tags have the same table.
SameTable(a, b, S) == a = b /\ a \in Seq(S) /\ Distinct(a)

\* The size that is added up for a value of a map is the size of its bytes.
SizeKnown(ty) ==
  LET x == ty.of.of.of
  IN /\ ty.of.t = "dict" /\ ty.of.ordered /\ ty.of.of.t = "tagged"
     /\ \/ x.t = "num" /\ ty.fixed = 1 + Width[x.kind] /\ ~ty.text
        \/ x = Str /\ ty.fixed = 5 /\ ty.text

Fits(x) ==
  LET out == x.out
      in  == x.in
      v   == x.val
  IN /\ in.t = IF out.t \in {"sized", "shortframe"} THEN "frame" ELSE out.t
     /\ \/ out.t = "num" /\ in.kind = out.kind /\ out.kind \in DOMAIN Width /\ v \in Int
        \/ out.t = "run" /\ v \in Nat /\ in.unit \in {1, 4, 8} /\ v % in.unit = 0
        \/ /\ out.t = "enum" /\ SameTable(out.natives, in.natives, Int)
           /\ v \in Nat /\ v + 1 \in DOMAIN out.natives
        \/ /\ out.t = "enumornull" /\ SameTable(out.natives, in.natives, Nat)
           /\ v = <<>> \/ (v = <<v[1]>> /\ v[1] \in Nat /\ v[1] + 1 \in DOMAIN out.natives)
        \/ out.t \in {"opt", "packed"} /\ MaybeOne(v)
        \/ out.t = "ptr" /\ out.of.t = "frame" /\ MaybeOne(v)
        \/ /\ out.t = "rec" /\ IsList(out.fields) /\ IsList(in.fields)
           /\ Len(out.fields) = Len(in.fields)
           /\ \A i \in DOMAIN out.fields : out.fields[i][1] = in.fields[i][1]
           /\ Distinct([i \in DOMAIN out.fields |-> out.fields[i][1]])
           /\ v = [name \in {out.fields[i][1] : i \in DOMAIN out.fields} |-> v[name]]
        \/ /\ out.t = "variant" /\ DOMAIN out.cases = DOMAIN in.cases
           /\ v = <<v[1], v[2]>> /\ v[1] \in Nat /\ v[1] + 1 \in DOMAIN out.cases
        \/ out.t \in {"list", "indexed"} /\ IsList(v)
        \/ /\ out.t = "dict" /\ DOMAIN v \subseteq Nat /\ IsFiniteSet(DOMAIN v)
           /\ v = [k \in DOMAIN v |-> v[k]]
        \/ /\ out.t = "tagged" /\ out.tag = in.tag /\ out.tag \in Nat \ {0}
           /\ out.nullable = in.nullable /\ (out.nullable => MaybeOne(v))
        \/ out.t = "frame"
        \/ out.t = "shortframe" /\ Len(Write(out.of, v)) < 256
        \/ out.t = "sized" /\ SizeKnown(out)
        \/ /\ out.t = "any" /\ SameTable(out.tags, in.tags, STRING)
           /\ v = <<v[1], v[2]>> /\ \E i \in DOMAIN out.tags : out.tags[i] = v[1]

\* Every trip of a set fits, down to the numbers and texts.  A pointer, which is
\* read by whether there are bytes at all, is not inside anything.
AllFit(trips) ==
  \A x \in trips :
    /\ Fits(x) /\ Rank(x) \in Nat
    /\ \A y \in Parts(x) : y \in trips /\ Rank(y) \in 0 .. Rank(x) - 1 /\ y.out.t # "ptr"
-----------------------------------------------------------------------------
(***************************************************************************)
(* The codecs: on what is written and read, a level of WireFormat, with    *)
(* themselves for what it contains.  (also: layouts read besides.)         *)
(***************************************************************************)
AreCodecs(trips, also) ==
  /\ \A x \in trips : Write(x.out, x.val) = WriteBy(x.out, x.val)
  /\ \A ty \in {x.in : x \in trips} \cup also, w \in Bytes, p \in Nat :
       Read(ty, At(w, p)) = ReadBy(ty, At(w, p))
===============================================================================
