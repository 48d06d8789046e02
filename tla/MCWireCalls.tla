---- MODULE MCWireCalls ----
EXTENDS WireCalls

(***************************************************************************)
(* A value of a layout.  seed sets the fields of a record apart; a shape   *)
(* says how long texts are, how many items lists and maps have, which      *)
(* optional values are present and which case a variant is.                *)
(***************************************************************************)
RECURSIVE Sample(_, _, _)
Sample(ty, seed, shape) ==
  CASE ty.t = "num"  -> IF ty.kind = "bool" THEN seed % 2 ELSE seed
    [] ty.t = "run"  -> IF shape.text = 0 THEN 0
                        ELSE ty.unit * (IF ty.unit = 1 THEN shape.text + seed ELSE seed)
    [] ty.t = "enum" -> seed % Len(ty.natives)
    [] ty.t = "enumornull" ->
         IF shape.present = 0 THEN <<>> ELSE <<shape.case % Len(ty.natives)>>
    [] ty.t \in {"opt", "packed", "ptr"} ->
         IF (seed + shape.present) % 2 = 0 THEN <<>> ELSE <<Sample(ty.of, seed, shape)>>
    [] ty.t = "rec"  ->
         LET at(name) == CHOOSE i \in DOMAIN ty.fields : ty.fields[i][1] = name
         IN [name \in {ty.fields[i][1] : i \in DOMAIN ty.fields} |->
               Sample(ty.fields[at(name)][2], 4 * seed + at(name), shape)]
    [] ty.t = "variant" ->
         LET tag == shape.case % Len(ty.cases)
         IN <<tag, Sample(ty.cases[tag + 1], seed, shape)>>
    [] ty.t \in {"list", "indexed"} ->
         [i \in 1 .. shape.count |-> Sample(ty.of, seed + i, shape)]
    [] ty.t = "dict" ->
         [k \in 0 .. (shape.count - 1) |-> Sample(ty.of, seed + k, shape)]
    [] ty.t = "tagged" ->
         IF ~ty.nullable THEN Sample(ty.of, seed, shape)
         ELSE IF (seed + shape.present) % 2 = 0 THEN <<>>
         ELSE <<Sample(ty.of, seed, shape)>>
    [] ty.t \in {"frame", "shortframe", "sized"} -> Sample(ty.of, seed, shape)
    [] ty.t = "any" ->
         LET kind == ty.tags[((seed + shape.case) % Len(ty.tags)) + 1]
         IN <<kind, Sample(AnyOf(ty.tags, kind), seed + 1, shape)>>

\* Empty texts, lists and maps, and items; both parities of what is present; every
\* case of a variant and kind of a NitroAnyMap value; texts whose result has a
\* payload of more than 255 bytes.
MCShapes == [text : {0, 5, 252}, count : {0, 2, 3}, present : {0, 1}, case : 0 .. 6]
MCValues(ty)   == {Sample(ty, 0, shape) : shape \in MCShapes}

\* Write and Read of the runs: what they do with a layout, all the way down.  The
\* reader is looked at first, or TLC would put off one read until the next needs it.
MCWrite(ty, v) == LET bytesOf == WriteBy(ty, v) IN bytesOf
MCRead(ty, r)  == LET isReader == r.ok \in BOOLEAN IN CASE isReader -> ReadBy(ty, r)

RECURSIVE WithParts(_)
WithParts(xs) ==
  LET inside == UNION {Parts(x) : x \in xs} \ xs
  IN IF inside = {} THEN xs ELSE WithParts(xs \cup inside)

MCTrips(lang, m) ==
  LET dart   == DartCalls[m]
      whole  == Whole(lang, m)
      native == NativeCalls[lang][m]
      sent   == Values(dart.arg)
  IN WithParts({Trip(dart.arg, whole, v) : v \in sent} \cup
               {Trip(native.ret, dart.ret, a) :
                  a \in {a \in UNION {Answers(m, v) : v \in sent} : ~Cut(lang, m, a)}})

RECURSIVE MCRank(_)
MCRank(x) == LET inside == Parts(x)
             IN IF inside = {} THEN 0 ELSE 1 + Max({MCRank(y) : y \in inside})
====
