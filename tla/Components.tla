----------------------------- MODULE Components ----------------------------
(***************************************************************************)
(* The values of components: how many flat values a type has, and how the  *)
(* store lowers a value and lifts it, in ComponentCalls.                   *)
(***************************************************************************)
EXTENDS ComponentCalls, FiniteSets, FiniteSetsExt

(***************************************************************************)
(* Types.                                                                  *)
(***************************************************************************)
Widths == [Bool |-> 1, S8 |-> 1, U8 |-> 1, S16 |-> 2, U16 |-> 2, S32 |-> 4, U32 |-> 4,
           F32 |-> 4, Char |-> 4, S64 |-> 8, U64 |-> 8, F64 |-> 8]
Primitives == DOMAIN Widths
SignedKinds == {"S8", "S16", "S32", "S64"}

\* RawValue::from a number of these bits.
Raw(k, n) == IF Widths[k] = 8 THEN n % 4^8 ELSE IF k = "F32" THEN n ELSE RawI32(n)

\* Of the scaled code points, a quarter are surrogates.
Replacement == 4^4 - 1
IsChar(n) == n \div 4^3 # 2
\* UTF-8 with one lead byte (2) and one continuation byte (3).
IsUtf8(bytes) ==
  /\ \A i \in DOMAIN bytes : bytes[i] = 2 => i < Len(bytes) /\ bytes[i + 1] = 3
  /\ \A i \in DOMAIN bytes : bytes[i] = 3 => i > 1 /\ bytes[i - 1] = 2

\* An optional payload type is <<>> or <<type>>.
RECURSIVE FlatCount(_)
LoadCount(load) == IF load = <<>> THEN 0 ELSE FlatCount(load[1])
MaxPayload(loads) == Max({0} \cup {LoadCount(loads[i]) : i \in DOMAIN loads})
FlagWords(n) == IF n = 0 THEN 1 ELSE (n + 7) \div 8
FlatCount(t) ==
  CASE t.k \in Primitives \cup {"Enum"} -> 1
    [] t.k \in {"String", "List"} -> 2
    [] t.k = "Tuple" -> FoldLeft(LAMBDA n, part : n + FlatCount(part), 0, t.parts)
    [] t.k = "Variant" -> 1 + MaxPayload(t.cases)
    [] t.k = "Option" -> 1 + FlatCount(t.of)
    [] t.k = "Result" -> 1 + MaxPayload(<<t.ok, t.err>>)
    [] t.k = "Flags" -> FlagWords(t.n)
FlatCounts(types) == FoldLeft(LAMBDA n, t : n + FlatCount(t), 0, types)

----------------------------------------------------------------------------
(***************************************************************************)
(* Lowering.  A value is [k, v]; an optional payload is <<>> or <<value>>. *)
(***************************************************************************)
Untyped == [k |-> "None"]

\* How many flat values a lowering pushes.
Count(lowering) ==
  FoldLeft(LAMBDA n, i : n + IF i.does \in {"push", "wrap"} THEN Len(i.raws) ELSE 2, 0, lowering)
Padding(n) == [i \in 1..n |-> RawI32(4^4 \div 2 - 1)]

\* max_payload - written, of unsigned numbers.  A written below zero wraps, if it
\* may, and the difference wraps back; a payload longer than the longest would
\* leave a count no vector has room for.
PaddedTo(max, written) ==
  IF written > max THEN Overflows
  ELSE IF written < 0 THEN Wrapped(Padding(max - written))
  ELSE Pushed(Padding(max - written))

ElementWidth(v, ty) ==
  IF ty.k = "List" THEN Widths[ty.of.k] ELSE IF v = <<>> THEN 1 ELSE Widths[v[1].k]

SetWords(n, set) ==
  [w \in 1..FlagWords(n) |-> RawI32(FoldSet(LAMBDA b, sum : sum + 2^((b - 1) % 8), 0,
                                      {b \in set : (b - 1) \div 8 = w - 1}))]

RECURSIVE lower_value(_, _)
LowerLoad(load) == IF load = <<>> THEN <<>> ELSE lower_value(load[1], Untyped)

\* written is counted from after the discriminant, and still one taken off for
\* it: below zero for a case without payload.
LowerVariant(v, ty) ==
  LET l == LowerLoad(v.load)
      written == Count(l)
  IN  Pushed(<<RawI32(v.case - 1)>>) \o l \o PaddedTo(MaxPayload(ty.cases), written - 1)

\* Mutant: written counted as LowerVariant does.
LowerResultFromPayload(v, ty) ==
  LET l == LowerLoad(v.load)
      written == Count(l)
  IN  Pushed(<<RawI32(IF v.ok THEN 0 ELSE 1)>>) \o l
        \o PaddedTo(MaxPayload(<<ty.ok, ty.err>>), written - 1)

\* written is counted from before the discriminant.
LowerResult(v, ty) ==
  LET l == Pushed(<<RawI32(IF v.ok THEN 0 ELSE 1)>>) \o LowerLoad(v.load)
      written == Count(l)
  IN  l \o PaddedTo(MaxPayload(<<ty.ok, ty.err>>), written - 1)

LowerOption(v, ty) ==
  IF v = <<>> THEN Pushed(<<0>> \o Padding(FlatCount(ty.of)))
  ELSE Pushed(<<1>>) \o LowerLoad(v)

LowerList(v, ty) ==
  LET w == ElementWidth(v, ty)
  IN  Stored(w, Len(v) * w, [i \in DOMAIN v |-> Bytes(v[i].v % 4^w, w)], Len(v))

Named == {"Variant", "Enum", "Option", "Result", "Flags"}   \* kinds that need their type

lower_value(x, ty) ==
  IF x.k \in Named /\ ty.k # x.k THEN Refused
  ELSE CASE x.k \in Primitives -> Pushed(<<Raw(x.k, x.v)>>)
    [] x.k = "String" -> Stored(1, Len(x.v), <<x.v>>, Len(x.v))
    [] x.k = "List" -> LowerList(x.v, ty)
    [] x.k = "Tuple" -> FoldLeft(LAMBDA all, part : all \o lower_value(part, Untyped), <<>>, x.v)
    [] x.k = "Variant" -> LowerVariant(x.v, ty)
    [] x.k = "Enum" -> Pushed(<<RawI32(x.v - 1)>>)
    [] x.k = "Option" -> LowerOption(x.v, ty)
    [] x.k = "Result" -> LowerResult(x.v, ty)
    [] x.k = "Flags" -> Pushed(SetWords(ty.n, x.v))

\* Lowering: one argument after the other, each with the type of its parameter.
LowerArguments(args, types) ==
  FoldLeftDomain(LAMBDA all, i : all \o lower_value(args[i], IF i <= Len(types) THEN types[i]
                                                             ELSE Untyped),
                 <<>>, args)

----------------------------------------------------------------------------
(***************************************************************************)
(* Lifting, from flat at position at of the memory mem: the value, the     *)
(* position behind it, and whether it could be lifted.                     *)
(***************************************************************************)
Lifted(k, v, at, ok) == [value |-> [k |-> k, v |-> v], at |-> at, ok |-> ok]

LiftPrimitive(k, raw) ==
  CASE k = "Bool" -> IF raw % 4^4 = 0 THEN 0 ELSE 1
    [] k = "Char" -> IF IsChar(raw % 4^4) THEN raw % 4^4 ELSE Replacement
    [] k \in SignedKinds -> Signed(raw, Widths[k])
    [] OTHER -> raw % 4^Widths[k]

\* A pointer and a length, in elements of width bytes.
ChunkAt(flat, at, width, mem) ==
  LET ptr == Pointer(flat[at])
      len == Signed(flat[at + 1], 4)
  IN  [ptr |-> ptr, len |-> len, ok |-> DOMAIN mem # {} /\ len >= 0 /\ HasBytes(ptr, len * width)]

LiftString(flat, at, mem) ==
  LET c == ChunkAt(flat, at, 1, mem)
      bytes == IF c.ok THEN BytesAt(mem, c.ptr, c.len) ELSE <<>>
  IN  Lifted("String", bytes, at + 2, c.ok /\ IsUtf8(bytes))

LiftList(of, flat, at, mem) ==
  LET w == Widths[of.k]
      c == ChunkAt(flat, at, w, mem)
      Element(j) == [k |-> of.k, v |-> LiftPrimitive(of.k, Number(BytesAt(mem, c.ptr + (j - 1) * w, w)))]
  IN  Lifted("List", IF c.ok THEN [j \in 1..c.len |-> Element(j)] ELSE <<>>, at + 2, c.ok)

LiftFlags(n, flat, at) ==
  Lifted("Flags", {b \in 1..n : (flat[at + (b - 1) \div 8] \div 2^((b - 1) % 8)) % 2 = 1},
         at + FlagWords(n), TRUE)

RECURSIVE lift_value(_, _, _, _)
LiftParts(types, flat, at, mem) ==
  FoldLeft(LAMBDA a, t : LET r == lift_value(t, flat, a.at, mem)
                         IN  [v |-> Append(a.v, r.value), at |-> r.at, ok |-> a.ok /\ r.ok],
           [v |-> <<>>, at |-> at, ok |-> TRUE], types)

\* Mutant: the position behind the payload lifted, whatever the other cases need.
LiftLoadShort(load, max, flat, at, mem) == LiftParts(load, flat, at, mem)

\* A payload behind a discriminant; the position passes the longest one.
LiftLoad(load, max, flat, at, mem) ==
  [LiftParts(load, flat, at, mem) EXCEPT !.at = at + max]

LiftVariant(cases, flat, at, mem) ==
  LET c == Pointer(flat[at]) + 1
      l == LiftLoad(cases[c], MaxPayload(cases), flat, at + 1, mem)
  IN  Lifted("Variant", [case |-> c, load |-> l.v], l.at, l.ok)

LiftResult(t, flat, at, mem) ==
  LET good == flat[at] % 4^4 = 0
      l == LiftLoad(IF good THEN t.ok ELSE t.err, MaxPayload(<<t.ok, t.err>>), flat, at + 1, mem)
  IN  Lifted("Result", [ok |-> good, load |-> l.v], l.at, l.ok)

LiftOption(of, flat, at, mem) ==
  LET l == LiftLoad(IF flat[at] % 4^4 = 0 THEN <<>> ELSE <<of>>, FlatCount(of), flat, at + 1, mem)
  IN  Lifted("Option", l.v, l.at, l.ok)

lift_value(t, flat, at, mem) ==
  CASE t.k \in Primitives -> Lifted(t.k, LiftPrimitive(t.k, flat[at]), at + 1, TRUE)
    [] t.k = "String" -> LiftString(flat, at, mem)
    [] t.k = "List" -> LiftList(t.of, flat, at, mem)
    [] t.k = "Tuple" -> LET p == LiftParts(t.parts, flat, at, mem) IN Lifted("Tuple", p.v, p.at, p.ok)
    [] t.k = "Variant" -> LiftVariant(t.cases, flat, at, mem)
    [] t.k = "Enum" -> Lifted("Enum", Pointer(flat[at]) + 1, at + 1, TRUE)
    [] t.k = "Option" -> LiftOption(t.of, flat, at, mem)
    [] t.k = "Result" -> LiftResult(t, flat, at, mem)
    [] t.k = "Flags" -> LiftFlags(t.n, flat, at)

\* Lifting: the values from the first flat one on.
LiftResults(types, flat, mem) == LiftParts(types, flat, 1, mem)

----------------------------------------------------------------------------
(***************************************************************************)
(* Properties.                                                             *)
(***************************************************************************)
\* What lower_value can pass: the named kinds only as a parameter of their own, variants never.
RECURSIVE Inner(_)
Inner(t) ==
  \/ t.k \in Primitives \cup {"String", "List"}
  \/ t.k = "Tuple" /\ \A i \in DOMAIN t.parts : Inner(t.parts[i])
Passable(t) ==
  \/ Inner(t)
  \/ t.k \in {"Enum", "Flags"}
  \/ t.k = "Option" /\ Inner(t.of)
  \/ t.k = "Result" /\ \A l \in {t.ok, t.err} : l # <<>> => Inner(l[1])

\* The guests give their arguments back, so a component call that is answered, at once or by
\* resume_component (store.rs:984, 1552), is answered with the very values it was given: what
\* lower_value writes, flat and to the guest's memory, is what lift_value reads, each value at
\* its own place, and no execution's results are lifted as another's, or from fewer than there
\* are (that panics).
AnswersEcho ==
  /\ out.kind = "values" => out.values = asked.args
  /\ out.kind # "panicked"

\* A call is refused (store.rs:1635) only while another execution, or a realloc that ran out of
\* fuel, is paused, or for a type that cannot be lowered or a wrong number of arguments: what
\* is lowered has as many flat values as its type counts, padding included, and in counting
\* them no build overflows but for a type that cannot be lowered (store.rs:1191, 1261).
RefusedForAReason ==
  out.kind \in {"refused", "overflow"} /\ paused = <<>> =>
    LET params == Exports[asked.name].type.params
    IN  Len(asked.args) # Len(params) \/ \E i \in DOMAIN params : ~Passable(params[i])

=============================================================================
