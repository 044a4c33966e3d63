--------------------------- MODULE ValidateProofs ---------------------------
(***************************************************************************)
(* Validation is sound for every module and every body: what validator.rs  *)
(* accepts and compiler.rs lowers never has run() find an operand missing  *)
(* or of another type than it decodes, and the two agree on what is dead.  *)
(***************************************************************************)
EXTENDS Validate, SequenceTheorems, TLAPS

----------------------------------------------------------------------------
(***************************************************************************)
(* Values and subtyping.                                                   *)
(***************************************************************************)
Value == {NumType(n) : n \in Num} \cup References \cup {Null}
OperandTypes == ValueTypes \cup {Bot}

LEMMA NamesApart ==
  /\ "null" \notin TypeIndices /\ "any ref" \notin TypeIndices /\ "extern" \notin TypeIndices /\ "i31" \notin TypeIndices
  /\ \A h \in AbstractHeaps : h \notin TypeIndices
  BY TypesAssumption DEF AbstractHeaps

LEMMA NumFields ==
  ASSUME NEW n
  PROVE  NumType(n).ref = FALSE /\ NumType(n).null = FALSE /\ NumType(n).heap = n
  BY DEF NumType

LEMMA RefFields ==
  ASSUME NEW b, NEW h
  PROVE  RefType(b, h).ref = TRUE /\ RefType(b, h).null = b /\ RefType(b, h).heap = h
  BY DEF RefType

\* A value type is of a number or of references.
LEMMA ValueTypeKinds ==
  ASSUME NEW t \in ValueTypes
  PROVE  \/ t.ref = FALSE /\ \E n \in Num : t = NumType(n)
         \/ t.ref = TRUE /\ t.null \in BOOLEAN /\ t.heap \in Heaps /\ t = RefType(t.null, t.heap)
  <1>1. CASE \E n \in Num : t = NumType(n)
    BY <1>1, NumFields
  <1>2. CASE t \in RefTypes
    <2>1. PICK b \in BOOLEAN, h \in Heaps : t = RefType(b, h)
      BY <1>2 DEF RefTypes
    <2> QED BY <2>1, RefFields
  <1> QED BY <1>1, <1>2 DEF ValueTypes

LEMMA RefTypesBuilt ==
  ASSUME NEW b \in BOOLEAN, NEW h \in Heaps
  PROVE  RefType(b, h) \in RefTypes /\ RefType(b, h) \in ValueTypes
  BY DEF RefTypes, ValueTypes

LEMMA RefTypeKinds ==
  ASSUME NEW t \in RefTypes
  PROVE  t \in ValueTypes /\ t.ref = TRUE
  <1>1. PICK b \in BOOLEAN, h \in Heaps : t = RefType(b, h)
    BY DEF RefTypes
  <1> QED BY <1>1, RefFields DEF ValueTypes

LEMMA ValueKinds ==
  ASSUME NEW v \in Value
  PROVE  \/ v.ref = FALSE /\ \E n \in Num : v = NumType(n)
         \/ v.ref = TRUE /\ v = Null
         \/ v.ref = TRUE /\ v # Null /\ v.heap \in TypeIndices \cup {"extern", "i31"}
  <1>1. CASE \E n \in Num : v = NumType(n)
    BY <1>1, NumFields
  <1>2. CASE v = Null
    BY <1>2, RefFields DEF Null
  <1>3. CASE v \in References
    <2>1. PICK h \in TypeIndices \cup {"extern", "i31"} : v = RefType(FALSE, h)
      BY <1>3 DEF References
    <2>2. v.heap = h /\ v.ref = TRUE /\ v.null = FALSE /\ Null.null = TRUE
      BY <2>1, RefFields DEF Null
    <2> QED BY <2>2
  <1> QED BY <1>1, <1>2, <1>3 DEF Value

\* Bot, and what run() takes a slot for without a type, are no value types.
LEMMA ValueTypesApart ==
  ASSUME NEW t \in ValueTypes
  PROVE  t # Bot /\ t # Anything /\ t # AnyRef
  <1>1. Bot.ref = FALSE /\ Bot.heap = "bot" /\ Anything.ref = FALSE /\ Anything.heap = "any"
    BY NumFields DEF Bot, Anything
  <1>2. AnyRef.ref = TRUE /\ AnyRef.heap = "any ref"
    BY RefFields DEF AnyRef
  <1>3. CASE \E n \in Num : t = NumType(n)
    <2>1. t.ref = FALSE /\ t.heap \in Num
      BY <1>3, NumFields
    <2>2. t.heap # "bot" /\ t.heap # "any"
      BY <2>1 DEF Num
    <2> QED BY <1>1, <1>2, <2>1, <2>2
  <1>4. CASE t.ref = TRUE /\ t.heap \in Heaps
    <2>1. t.heap # "any ref"
      BY <1>4, NamesApart DEF Heaps, AbstractHeaps
    <2> QED BY <1>1, <1>2, <1>4, <2>1
  <1> QED BY <1>3, <1>4, ValueTypeKinds

(***************************************************************************)
(* Subsumption: a value of a type is one of every type above it.           *)
(***************************************************************************)
LEMMA HeapSubsumes ==
  ASSUME NEW a, NEW b, NEW v \in TypeIndices \cup {"extern", "i31"}, heap_subtype(a, b), Admits(a, v)
  PROVE  Admits(b, v)
  <1>1. v \notin {"nofunc", "noextern", "noexn", "none"}
    BY NamesApart DEF AbstractHeaps
  <1>2. Composite("extern") = "none" /\ Composite("i31") = "none"
    BY NamesApart DEF Composite
  <1>3. \A h \in AbstractHeaps : Composite(h) = "none"
    BY NamesApart DEF Composite
  <1>4. CASE a = b
    BY <1>4
  <1>5. CASE a \in {"nofunc", "noextern", "noexn", "none"}
    BY <1>1, <1>5 DEF Admits
  <1>6. CASE a \in {"i31", "struct", "array", "eq"} /\ b \in {"any", "eq"}
    BY <1>6 DEF Admits
  <1>7. CASE Composite(a) \in {"func", "struct", "array"}
    <2>1. a \notin AbstractHeaps
      BY <1>3, <1>7
    <2>2. v = a
      BY <2>1 DEF Admits, AbstractHeaps
    <2>3. \/ Composite(a) = b /\ b \in {"func", "struct", "array"}
          \/ Composite(a) \in {"struct", "array"} /\ b \in {"eq", "any"}
          \/ a = b
      BY <2>1 DEF heap_subtype, AbstractHeaps
    <2> QED BY <2>2, <2>3 DEF Admits
  <1> QED BY <1>4, <1>5, <1>6, <1>7 DEF heap_subtype

LEMMA FitsNum ==
  ASSUME NEW v, NEW t \in ValueTypes, t.ref = FALSE
  PROVE  Fits(v, t) <=> v = t
  BY ValueTypesApart DEF Fits

LEMMA FitsRef ==
  ASSUME NEW v \in Value, NEW t \in ValueTypes, t.ref = TRUE
  PROVE  Fits(v, t) <=> v.ref = TRUE /\ (IF v = Null THEN t.null = TRUE ELSE Admits(t.heap, v.heap))
  <1>1. v.ref \in BOOLEAN /\ t.null \in BOOLEAN
    BY ValueKinds, ValueTypeKinds
  <1> QED BY <1>1, ValueTypesApart DEF Fits

LEMMA Subsumes ==
  ASSUME NEW a \in ValueTypes, NEW b \in ValueTypes, value_subtype(a, b), NEW v \in Value, Fits(v, a)
  PROVE  Fits(v, b)
  <1>1. a.ref \in BOOLEAN /\ b.ref \in BOOLEAN
    BY ValueTypeKinds
  <1>2. CASE a.ref = TRUE /\ b.ref = TRUE
    <2>1. ref_subtype(a, b)
      BY <1>2 DEF value_subtype
    <2>2. a.null \in BOOLEAN /\ b.null \in BOOLEAN
      BY <1>2, ValueTypeKinds
    <2>3. v.ref = TRUE /\ (IF v = Null THEN a.null = TRUE ELSE Admits(a.heap, v.heap))
      BY <1>2, FitsRef
    <2>4. CASE v = Null
      BY <1>2, <2>1, <2>2, <2>3, <2>4, FitsRef DEF ref_subtype
    <2>5. CASE v # Null
      <3>1. v.heap \in TypeIndices \cup {"extern", "i31"}
        BY <2>3, <2>5, ValueKinds
      <3>2. Admits(b.heap, v.heap)
        BY <2>1, <2>3, <2>5, <3>1, HeapSubsumes DEF ref_subtype
      <3> QED BY <1>2, <2>3, <2>5, <3>2, FitsRef
    <2> QED BY <2>4, <2>5
  <1>3. CASE ~(a.ref = TRUE /\ b.ref = TRUE)
    BY <1>1, <1>3 DEF value_subtype
  <1> QED BY <1>2, <1>3

\* The values of a type are values, and those above it are no fewer.
LEMMA ValuesFit ==
  ASSUME NEW t \in ValueTypes, NEW v \in Values(t)
  PROVE  v \in Value /\ Fits(v, t)
  <1>1. CASE t.ref = FALSE
    <2>1. v = t
      BY <1>1 DEF Values
    <2>2. t \in Value
      BY <1>1, ValueTypeKinds DEF Value
    <2> QED BY <1>1, <2>1, <2>2, FitsNum
  <1>2. CASE t.ref = TRUE
    BY <1>2 DEF Values, Value
  <1> QED BY <1>1, <1>2, ValueTypeKinds

LEMMA ValuesGrow ==
  ASSUME NEW a \in RefTypes, NEW b \in RefTypes, ref_subtype(a, b)
  PROVE  Values(a) \subseteq Values(b)
  <1>1. a.ref = TRUE /\ b.ref = TRUE /\ a \in ValueTypes /\ b \in ValueTypes
    BY RefTypeKinds
  <1>2. value_subtype(a, b)
    BY <1>1 DEF value_subtype
  <1>3. ASSUME NEW v \in Values(a) PROVE v \in Values(b)
    <2>1. v \in References \cup {Null} /\ Fits(v, a)
      BY <1>1 DEF Values
    <2>2. Fits(v, b)
      BY <1>1, <1>2, <2>1, Subsumes DEF Value
    <2> QED BY <1>1, <2>1, <2>2 DEF Values
  <1> QED BY <1>3

----------------------------------------------------------------------------
(***************************************************************************)
(* Stacks.  Holds(stack, ts): the stack has values of the types ts.        *)
(***************************************************************************)
Holds(stack, ts) ==
  /\ ts \in Seq(ValueTypes) /\ stack \in Seq(Value)
  /\ Len(stack) = Len(ts)
  /\ \A k \in 1..Len(ts) : Fits(stack[k], ts[k])

\* The operands ts end with what is expected.
Accepts(ts, expected) ==
  /\ Len(expected) <= Len(ts)
  /\ \A k \in 1..Len(expected) :
       value_subtype(ts[Len(ts) - Len(expected) + k], expected[k])

LEMMA HoldsFits ==
  ASSUME NEW stack, NEW ts, Holds(stack, ts)
  PROVE  FitAll(stack, ts)
  BY DEF Holds, FitAll

LEMMA UnderFacts ==
  ASSUME NEW S, NEW s \in Seq(S), NEW n \in 0..Len(s)
  PROVE  /\ Under(s, n) \in Seq(S) /\ Len(Under(s, n)) = Len(s) - n
         /\ \A k \in 1..(Len(s) - n) : Under(s, n)[k] = s[k]
  BY DEF Under

LEMMA TopFacts ==
  ASSUME NEW S, NEW s \in Seq(S), NEW n \in 0..Len(s)
  PROVE  /\ TopOf(s, n) \in Seq(S) /\ Len(TopOf(s, n)) = n
         /\ \A k \in 1..n : TopOf(s, n)[k] = s[Len(s) - n + k]
  BY DEF TopOf

LEMMA ConcatFacts ==
  ASSUME NEW S, NEW s \in Seq(S), NEW t \in Seq(S)
  PROVE  /\ s \o t \in Seq(S) /\ Len(s \o t) = Len(s) + Len(t)
         /\ \A k \in 1..Len(s) : (s \o t)[k] = s[k]
         /\ \A k \in 1..Len(t) : (s \o t)[Len(s) + k] = t[k]
         /\ Len(s) \in Nat /\ Len(t) \in Nat
  OBVIOUS

LEMMA HoldsUnder ==
  ASSUME NEW stack, NEW ts, Holds(stack, ts), NEW n \in 0..Len(ts)
  PROVE  Holds(Under(stack, n), Under(ts, n))
  <1>1. ts \in Seq(ValueTypes) /\ stack \in Seq(Value) /\ Len(stack) = Len(ts)
    BY DEF Holds
  <1>2. Len(ts) \in Nat
    BY <1>1
  <1>3. /\ Under(stack, n) \in Seq(Value) /\ Len(Under(stack, n)) = Len(ts) - n
        /\ \A k \in 1..(Len(ts) - n) : Under(stack, n)[k] = stack[k]
    BY <1>1, UnderFacts
  <1>4. /\ Under(ts, n) \in Seq(ValueTypes) /\ Len(Under(ts, n)) = Len(ts) - n
        /\ \A k \in 1..(Len(ts) - n) : Under(ts, n)[k] = ts[k]
    BY <1>1, UnderFacts
  <1> QED BY <1>2, <1>3, <1>4 DEF Holds

LEMMA HoldsTop ==
  ASSUME NEW stack, NEW ts, Holds(stack, ts), NEW expected \in Seq(ValueTypes), Accepts(ts, expected)
  PROVE  Holds(TopOf(stack, Len(expected)), expected)
  <1> DEFINE n == Len(expected)
             top == TopOf(stack, n)
  <1>1. /\ ts \in Seq(ValueTypes) /\ stack \in Seq(Value) /\ Len(stack) = Len(ts)
        /\ \A k \in 1..Len(ts) : Fits(stack[k], ts[k])
    BY DEF Holds
  <1>2. Len(ts) \in Nat /\ n \in Nat /\ n <= Len(ts)
    BY <1>1 DEF Accepts, n
  <1> HIDE DEF n
  <1>5. n \in 0..Len(stack)
    BY <1>1, <1>2
  <1>6. top \in Seq(Value) /\ Len(top) = n /\ \A k \in 1..n : top[k] = stack[Len(stack) - n + k]
    BY <1>1, <1>5, TopFacts
  <1> HIDE DEF top
  <1>3. top \in Seq(Value) /\ Len(top) = n /\ \A k \in 1..n : top[k] = stack[Len(ts) - n + k]
    BY <1>1, <1>6
  <1>4. ASSUME NEW k \in 1..n PROVE Fits(top[k], expected[k])
    <2>1. PICK j : j = Len(ts) - n + k
      OBVIOUS
    <2>2. j \in 1..Len(ts)
      BY <1>2, <2>1
    <2>3. value_subtype(ts[j], expected[k])
      BY <2>1 DEF Accepts, n
    <2>4. ts[j] \in ValueTypes /\ expected[k] \in ValueTypes /\ stack[j] \in Value
      BY <1>1, <2>2, ElementOfSeq DEF n
    <2>5. Fits(stack[j], ts[j])
      BY <1>1, <2>2
    <2>6. Fits(stack[j], expected[k])
      BY <2>3, <2>4, <2>5, Subsumes
    <2> QED BY <1>3, <2>1, <2>6
  <1> QED BY <1>3, <1>4 DEF Holds, top, n

LEMMA HoldsConcat ==
  ASSUME NEW a, NEW ts, Holds(a, ts), NEW b, NEW us, Holds(b, us)
  PROVE  Holds(a \o b, ts \o us)
  <1>1. /\ ts \in Seq(ValueTypes) /\ a \in Seq(Value) /\ Len(a) = Len(ts)
        /\ us \in Seq(ValueTypes) /\ b \in Seq(Value) /\ Len(b) = Len(us)
        /\ \A k \in 1..Len(ts) : Fits(a[k], ts[k])
        /\ \A k \in 1..Len(us) : Fits(b[k], us[k])
    BY DEF Holds
  <1>5. /\ a \o b \in Seq(Value) /\ Len(a \o b) = Len(a) + Len(b)
        /\ \A k \in 1..Len(a) : (a \o b)[k] = a[k]
        /\ \A k \in 1..Len(b) : (a \o b)[Len(a) + k] = b[k]
    <2>1. a \in Seq(Value) /\ b \in Seq(Value)
      BY <1>1
    <2> QED BY ONLY <2>1, ConcatFacts
  <1>2. /\ a \o b \in Seq(Value) /\ Len(a \o b) = Len(ts) + Len(us)
        /\ \A k \in 1..Len(ts) : (a \o b)[k] = a[k]
        /\ \A k \in 1..Len(us) : (a \o b)[Len(ts) + k] = b[k]
    BY <1>1, <1>5
  <1>3. /\ ts \o us \in Seq(ValueTypes) /\ Len(ts \o us) = Len(ts) + Len(us)
        /\ \A k \in 1..Len(ts) : (ts \o us)[k] = ts[k]
        /\ \A k \in 1..Len(us) : (ts \o us)[Len(ts) + k] = us[k]
        /\ Len(ts) \in Nat /\ Len(us) \in Nat
    BY <1>1, ConcatFacts
  <1> DEFINE s == a \o b
             t == ts \o us
  <1> HIDE DEF s, t
  <1>4. ASSUME NEW k \in 1..(Len(ts) + Len(us)) PROVE Fits(s[k], t[k])
    <2>1. CASE k <= Len(ts)
      BY <1>1, <1>2, <1>3, <2>1 DEF s, t
    <2>2. CASE k > Len(ts)
      <3>1. PICK j : j = k - Len(ts)
        OBVIOUS
      <3>2. j \in 1..Len(us) /\ k = Len(ts) + j
        BY <1>3, <2>2, <3>1
      <3>3. s[k] = b[j] /\ t[k] = us[j]
        BY <1>2, <1>3, <3>2 DEF s, t
      <3> QED BY <1>1, <3>2, <3>3
    <2> QED BY <1>3, <2>1, <2>2
  <1> QED BY <1>2, <1>3, <1>4 DEF Holds, s, t

LEMMA HoldsNothing == Holds(<<>>, <<>>)
  BY DEF Holds

LEMMA UnderTop ==
  ASSUME NEW S, NEW s \in Seq(S), NEW n \in 0..Len(s)
  PROVE  s = Under(s, n) \o TopOf(s, n)
  <1>1. /\ Under(s, n) \in Seq(S) /\ Len(Under(s, n)) = Len(s) - n
        /\ \A k \in 1..(Len(s) - n) : Under(s, n)[k] = s[k]
    BY UnderFacts
  <1>2. /\ TopOf(s, n) \in Seq(S) /\ Len(TopOf(s, n)) = n
        /\ \A k \in 1..n : TopOf(s, n)[k] = s[Len(s) - n + k]
    BY TopFacts
  <1> DEFINE u == Under(s, n)
             t == TopOf(s, n)
  <1> HIDE DEF u, t
  <1>3. /\ u \o t \in Seq(S) /\ Len(u \o t) = Len(u) + Len(t)
        /\ \A k \in 1..Len(u) : (u \o t)[k] = u[k]
        /\ \A k \in 1..Len(t) : (u \o t)[Len(u) + k] = t[k]
    <2>1. u \in Seq(S) /\ t \in Seq(S)
      BY <1>1, <1>2 DEF u, t
    <2> QED BY ONLY <2>1, ConcatFacts
  <1>4. Len(u \o t) = Len(s) /\ Len(s) \in Nat
    BY <1>1, <1>2, <1>3 DEF u, t
  <1> DEFINE c == u \o t
  <1> HIDE DEF c
  <1>5. ASSUME NEW k \in 1..Len(s) PROVE c[k] = s[k]
    <2>1. CASE k <= Len(s) - n
      BY <1>1, <1>3, <1>4, <2>1 DEF u, c
    <2>2. CASE k > Len(s) - n
      <3>1. PICK j : j = k - (Len(s) - n)
        OBVIOUS
      <3>2. j \in 1..n /\ k = Len(s) - n + j
        BY <1>4, <2>2, <3>1
      <3> QED BY <1>1, <1>2, <1>3, <3>2 DEF u, t, c
    <2> QED BY <1>4, <2>1, <2>2
  <1>6. c = s
    BY <1>3, <1>4, <1>5, SeqEqual DEF c
  <1> QED BY <1>6 DEF c, u, t

\* The same stack, its top known by the expected types.
LEMMA HoldsExpected ==
  ASSUME NEW stack, NEW ts, Holds(stack, ts), NEW expected \in Seq(ValueTypes), Accepts(ts, expected)
  PROVE  Holds(stack, Under(ts, Len(expected)) \o expected)
  <1> DEFINE n == Len(expected)
  <1>1. stack \in Seq(Value) /\ Len(stack) = Len(ts) /\ ts \in Seq(ValueTypes)
    BY DEF Holds
  <1>2. n \in 0..Len(ts) /\ Len(ts) \in Nat
    BY <1>1 DEF Accepts
  <1>3. stack = Under(stack, n) \o TopOf(stack, n)
    BY <1>1, <1>2, UnderTop
  <1>4. Holds(Under(stack, n), Under(ts, n)) /\ Holds(TopOf(stack, n), expected)
    BY <1>2, HoldsUnder, HoldsTop
  <1>5. Holds(Under(stack, n) \o TopOf(stack, n), Under(ts, n) \o expected)
    BY <1>4, HoldsConcat
  <1> QED BY <1>3, <1>5

LEMMA ValuesHold ==
  ASSUME NEW ts \in Seq(ValueTypes), NEW vs \in ValuesOf(ts)
  PROVE  Holds(vs, ts)
  <1>1. DOMAIN ts = 1..Len(ts) /\ Len(ts) \in Nat
    OBVIOUS
  <1>2. DOMAIN vs = 1..Len(ts) /\ \A k \in 1..Len(ts) : vs[k] \in Values(ts[k])
    BY <1>1 DEF ValuesOf
  <1>3. \A k \in 1..Len(ts) : vs[k] \in Value /\ Fits(vs[k], ts[k])
    BY <1>2, ValuesFit
  <1>4. vs = [k \in 1..Len(ts) |-> vs[k]]
    BY <1>1, <1>2 DEF ValuesOf
  <1>5. vs \in Seq(Value) /\ Len(vs) = Len(ts)
    BY <1>1, <1>3, <1>4
  <1> QED BY <1>3, <1>5 DEF Holds

----------------------------------------------------------------------------
(***************************************************************************)
(* An instruction with a signature: validator, compiler and run() agree.   *)
(***************************************************************************)
Agrees(i, sig) ==
  /\ sig.params \in Seq(ValueTypes) /\ sig.results \in Seq(ValueTypes)
  /\ Executed(i).takes = sig.params
  /\ \A vs \in ValuesOf(Executed(i).gives) : Holds(vs, sig.results)
  /\ Lowered(i) = Len(sig.results) - Len(sig.params)
  /\ \A m \in Moves(i) : Values(m[1]) \subseteq Values(m[2])

LEMMA JoinFacts ==
  ASSUME NEW fs, NEW x \in DOMAIN Join(fs)
  PROVE  \E k \in DOMAIN fs : x \in DOMAIN fs[k] /\ Join(fs)[x] = fs[k][x]
  <1>1. \E k \in DOMAIN fs : x \in DOMAIN fs[k]
    BY DEF Join
  <1> DEFINE k == CHOOSE k \in DOMAIN fs : x \in DOMAIN fs[k]
  <1>2. k \in DOMAIN fs /\ x \in DOMAIN fs[k]
    BY <1>1
  <1>3. Join(fs)[x] = fs[k][x]
    BY DEF Join
  <1> QED BY <1>2, <1>3

LEMMA SigFields ==
  ASSUME NEW p, NEW r
  PROVE  Sig(p, r).params = p /\ Sig(p, r).results = r
  BY DEF Sig

LEMMA Agreeing ==
  ASSUME NEW i, NEW p \in Seq(ValueTypes), NEW r \in Seq(ValueTypes),
         Executed(i) = Op(p, r), Lowered(i) = Len(r) - Len(p), Moves(i) = {}
  PROVE  Agrees(i, Sig(p, r))
  BY ValuesHold DEF Agrees, Op, Sig

TableNames == {"table.get", "table.set", "table.size", "table.grow", "table.fill",
               "table.copy", "table.init"}
MemoryNames == {"memory.size", "memory.grow", "memory.fill", "memory.init", "memory.copy"}

\* Which instruction i is, and the signature the validator has for it.
LEMMA TablesCases ==
  ASSUME NEW i \in DOMAIN ValidatedTables
  PROVE  LET at == TableAddress(i[2])
             rt == Element(i[2])
             sig == ValidatedTables[i]
         IN  \/ i \in TableInstrs("table.get") /\ sig = Sig(<<at>>, <<rt>>)
             \/ i \in TableInstrs("table.set") /\ sig = Sig(<<at, rt>>, <<>>)
             \/ i \in TableInstrs("table.size") /\ sig = Sig(<<>>, <<at>>)
             \/ i \in TableInstrs("table.grow") /\ sig = Sig(<<rt, at>>, <<at>>)
             \/ i \in TableInstrs("table.fill") /\ sig = Sig(<<at, rt, at>>, <<>>)
             \/ i \in TableCopies /\ sig = Sig(<<at, TableAddress(i[3]),
                                    Shorter(tables[i[2]].addr, tables[i[3]].addr)>>, <<>>)
             \/ i \in InitsThatFit /\ sig = Sig(<<at, I32, I32>>, <<>>)
  BY JoinFacts DEF ValidatedTables

LEMMA MemoryCases ==
  ASSUME NEW i \in DOMAIN ValidatedMemory
  PROVE  LET at == Address(mems[i[2]])
             sig == ValidatedMemory[i]
         IN  \/ i \in MemInstrs("memory.size") /\ sig = Sig(<<>>, <<at>>)
             \/ i \in MemInstrs("memory.grow") /\ sig = Sig(<<at>>, <<at>>)
             \/ i \in MemInstrs("memory.fill") /\ sig = Sig(<<at, I32, at>>, <<>>)
             \/ i \in MemInstrs("memory.init") /\ sig = Sig(<<at, I32, I32>>, <<>>)
             \/ i \in MemoryCopies
                /\ sig = Sig(<<at, Address(mems[i[3]]), Shorter(mems[i[2]], mems[i[3]])>>, <<>>)
  BY JoinFacts DEF ValidatedMemory

LEMMA NumTypes ==
  /\ \A n \in Num : NumType(n) \in ValueTypes
  /\ I32 \in ValueTypes /\ \A a \in Addresses : Address(a) \in ValueTypes
  BY DEF ValueTypes, I32, Address, Num, Addresses

LEMMA SpacesTyped ==
  /\ \A k \in DOMAIN locals : locals[k] \in ValueTypes
  /\ \A k \in DOMAIN globals : globals[k].type \in ValueTypes
  /\ \A k \in DOMAIN mems : mems[k] \in Addresses /\ Address(mems[k]) \in ValueTypes
  /\ \A k \in DOMAIN tables : tables[k].addr \in Addresses /\ TableAddress(k) \in ValueTypes
  /\ \A k \in DOMAIN tables : Element(k) \in RefTypes /\ Element(k) \in ValueTypes
  /\ \A k \in DOMAIN Module.elems : Module.elems[k] \in RefTypes
  /\ \A f \in DOMAIN funcs : funcs[f] \in FuncTypes
  <1>1. ASSUME NEW k \in DOMAIN locals PROVE locals[k] \in ValueTypes
    <2>1. Signature.params \in Seq(ValueTypes) /\ Locals \in Seq(ValueTypes)
      BY BodyAssumption DEF Sigs
    <2>2. locals \in Seq(ValueTypes)
      BY <2>1, ConcatFacts DEF locals
    <2> QED BY <2>2, ElementOfSeq
  <1>2. ASSUME NEW k \in DOMAIN globals PROVE globals[k].type \in ValueTypes
    <2> DEFINE G == [type : ValueTypes, var : BOOLEAN]
    <2>1. globals \in Seq(G)
      BY SpacesAssumption
    <2> HIDE DEF G
    <2>2. globals[k] \in G
      BY <2>1
    <2> QED BY <2>2 DEF G
  <1>3. ASSUME NEW k \in DOMAIN mems PROVE mems[k] \in Addresses /\ Address(mems[k]) \in ValueTypes
    <2>1. mems \in Seq(Addresses)
      BY SpacesAssumption
    <2> QED BY <2>1, NumTypes
  <1>4. ASSUME NEW k \in DOMAIN tables
        PROVE  /\ tables[k].addr \in Addresses /\ TableAddress(k) \in ValueTypes
               /\ Element(k) \in RefTypes /\ Element(k) \in ValueTypes
    <2> DEFINE T == [addr : Addresses, elem : RefTypes, init : BOOLEAN]
    <2>1. tables \in Seq(T)
      BY SpacesAssumption
    <2> HIDE DEF T
    <2>2. tables[k] \in T
      BY <2>1
    <2>3. tables[k].addr \in Addresses /\ tables[k].elem \in RefTypes
      BY <2>2 DEF T
    <2> QED BY <2>3, NumTypes, RefTypeKinds DEF TableAddress, Element
  <1>5. ASSUME NEW k \in DOMAIN Module.elems PROVE Module.elems[k] \in RefTypes
    <2>1. Module.elems \in Seq(RefTypes)
      BY SpacesAssumption
    <2> QED BY <2>1
  <1>6. ASSUME NEW f \in DOMAIN funcs PROVE funcs[f] \in FuncTypes
    <2>1. funcs \in Seq(FuncTypes)
      BY SpacesAssumption
    <2> QED BY <2>1
  <1> QED BY <1>1, <1>2, <1>3, <1>4, <1>5, <1>6

\* What starts out as the default is of a type that has one.
LEMMA DefaultIs ==
  ASSUME NEW t \in ValueTypes, HasDefault(t)
  PROVE  DefaultOr(t) = t
  <1>1. CASE t.ref
    <2>1. PICK null \in BOOLEAN, h \in Heaps : t = RefType(null, h)
      <3>1. t \notin {NumType(n) : n \in Num}
        BY <1>1, NumFields
      <3>2. t \in RefTypes
        BY <3>1 DEF ValueTypes
      <3> QED BY <3>2 DEF RefTypes
    <2>2. t.null = TRUE
      BY <1>1, <2>1 DEF HasDefault, RefType
    <2> QED BY <1>1, <2>1, <2>2 DEF DefaultOr, RefType
  <1>2. CASE ~t.ref
    BY <1>2 DEF DefaultOr
  <1> QED BY <1>1, <1>2

LEMMA HeldIs ==
  ASSUME DefaultsFit
  PROVE  /\ \A k \in DOMAIN locals : HeldLocal(k) = locals[k]
         /\ \A k \in DOMAIN tables : HeldElement(k) = Element(k)
  <1>1. ASSUME NEW k \in DOMAIN locals PROVE HeldLocal(k) = locals[k]
    <2>1. CASE k \in DOMAIN Signature.params
      BY <2>1 DEF HeldLocal
    <2>2. CASE k \notin DOMAIN Signature.params
      <3>1. Signature.params \in Seq(ValueTypes) /\ Locals \in Seq(ValueTypes)
        BY BodyAssumption DEF Sigs
      <3>2. PICK j \in DOMAIN Locals : locals[k] = Locals[j]
        BY <2>2, <3>1 DEF locals
      <3>3. HasDefault(locals[k]) /\ locals[k] \in ValueTypes
        BY <3>2, SpacesTyped DEF DefaultsFit
      <3> QED BY <2>2, <3>3, DefaultIs DEF HeldLocal
    <2> QED BY <2>1, <2>2
  <1>2. ASSUME NEW k \in DOMAIN tables PROVE HeldElement(k) = Element(k)
    BY SpacesTyped, DefaultIs DEF DefaultsFit, HeldElement
  <1> QED BY <1>1, <1>2

LEMMA SigsTyped ==
  ASSUME NEW t \in FuncTypes
  PROVE  func_type(t).params \in Seq(ValueTypes) /\ func_type(t).results \in Seq(ValueTypes)
  <1>1. func_type(t) \in Sigs
    BY TypesAssumption
  <1> QED BY <1>1 DEF Sigs

LEMMA SpacesNamed ==
  /\ \A i \in DOMAIN ValidatedTables : i[1] \in TableNames
  /\ \A i \in DOMAIN ValidatedMemory : i[1] \in MemoryNames
  /\ \A i \in NoOps : i[1] \in {"nop", "elem.drop", "data.drop"}
  <1>1. ASSUME NEW i \in DOMAIN ValidatedTables PROVE i[1] \in TableNames
    <2>1. \/ \E op \in TableNames : i \in TableInstrs(op)
          \/ i \in TableCopies \/ i \in InitsThatFit
      BY TablesCases DEF TableNames
    <2>2. ASSUME NEW op, i \in TableInstrs(op) PROVE i[1] = op
      BY <2>2 DEF TableInstrs
    <2>3. i \in TableCopies => i[1] = "table.copy"
      BY DEF TableCopies, Copies
    <2>4. i \in InitsThatFit => i[1] = "table.init"
      BY DEF InitsThatFit, TableInits
    <2> QED BY <2>1, <2>2, <2>3, <2>4 DEF TableNames
  <1>2. ASSUME NEW i \in DOMAIN ValidatedMemory PROVE i[1] \in MemoryNames
    <2>1. (\E op \in MemoryNames : i \in MemInstrs(op)) \/ i \in MemoryCopies
      BY MemoryCases DEF MemoryNames
    <2>2. ASSUME NEW op, i \in MemInstrs(op) PROVE i[1] = op
      BY <2>2 DEF MemInstrs
    <2>3. i \in MemoryCopies => i[1] = "memory.copy"
      BY DEF MemoryCopies, Copies
    <2> QED BY <2>1, <2>2, <2>3 DEF MemoryNames
  <1>3. ASSUME NEW i \in NoOps PROVE i[1] \in {"nop", "elem.drop", "data.drop"}
    BY DEF NoOps
  <1> QED BY <1>1, <1>2, <1>3

\* Which part of the compiler and of run() an instruction is for.
LEMMA Dispatch ==
  ASSUME NEW i
  PROVE  /\ i[1] = "load" => Executed(i) = ExecutedLoads(i)
         /\ i[1] = "store" => Executed(i) = ExecutedStores(i)
         /\ i[1] \in {"load", "store"} => Lowered(i) = LoweredAccesses(i)
         /\ i[1] = "cvtop" => Executed(i) = ExecutedCvtops(i)
         /\ i[1] = "trunc_sat" => Executed(i) = ExecutedSaturations(i)
         /\ i[1] \in {"cvtop", "trunc_sat"} => Lowered(i) = LoweredCvtops(i)
         /\ i[1] \in {"testop", "relop"} => Lowered(i) = LoweredTests(i)
         /\ i[1] \in {"testop", "relop", "unop", "binop"} =>
              Executed(i) = IF i[2] \in {"i32", "i64"} THEN ExecutedInts(i) ELSE ExecutedFloats(i)
         /\ i[1] \in {"unop", "binop"} /\ i[2] \in {"i32", "i64"} => Lowered(i) = LoweredInts(i)
         /\ i[1] \in {"unop", "binop"} /\ i[2] \in {"f32", "f64"} => Lowered(i) = LoweredFloats(i)
         /\ i[1] \in {"call", "call_indirect"} =>
              Executed(i) = ExecutedCalls(i) /\ Lowered(i) = LoweredCalls(i)
  <1>1. /\ i \in DOMAIN ValidatedTables => i[1] \in TableNames
        /\ i \in DOMAIN ValidatedMemory => i[1] \in MemoryNames
        /\ i \in NoOps => i[1] \in {"nop", "elem.drop", "data.drop"}
    BY SpacesNamed
  <1>2. /\ i[1] = "load" => Executed(i) = ExecutedLoads(i)
        /\ i[1] = "store" => Executed(i) = ExecutedStores(i)
        /\ i[1] = "cvtop" => Executed(i) = ExecutedCvtops(i)
        /\ i[1] = "trunc_sat" => Executed(i) = ExecutedSaturations(i)
        /\ i[1] \in {"testop", "relop", "unop", "binop"} =>
              Executed(i) = IF i[2] \in {"i32", "i64"} THEN ExecutedInts(i) ELSE ExecutedFloats(i)
        /\ i[1] \in {"call", "call_indirect"} => Executed(i) = ExecutedCalls(i)
    BY <1>1 DEF Executed, TableNames, MemoryNames
  <1>3. /\ i[1] \in {"load", "store"} => Lowered(i) = LoweredAccesses(i)
        /\ i[1] \in {"cvtop", "trunc_sat"} => Lowered(i) = LoweredCvtops(i)
        /\ i[1] \in {"testop", "relop"} => Lowered(i) = LoweredTests(i)
        /\ i[1] \in {"unop", "binop"} /\ i[2] \in {"i32", "i64"} => Lowered(i) = LoweredInts(i)
        /\ i[1] \in {"unop", "binop"} /\ i[2] \in {"f32", "f64"} => Lowered(i) = LoweredFloats(i)
        /\ i[1] \in {"call", "call_indirect"} => Lowered(i) = LoweredCalls(i)
    BY <1>1 DEF Lowered, TableNames, MemoryNames
  <1> QED BY <1>2, <1>3

LocalNames == {"const", "local.get", "local.set", "local.tee", "global.get", "global.set",
               "ref.null", "ref.func"}

LEMMA DispatchSpaces ==
  ASSUME NEW i
  PROVE  /\ i \in DOMAIN ValidatedTables =>
              Executed(i) = ExecutedTables(i) /\ Lowered(i) = LoweredTables(i)
         /\ i \in DOMAIN ValidatedMemory =>
              Executed(i) = ExecutedMemory(i) /\ Lowered(i) = LoweredMemory(i)
         /\ i \in NoOps => Executed(i) = Op(<<>>, <<>>) /\ Lowered(i) = 0
         /\ i[1] \in LocalNames =>
              Executed(i) = ExecutedLocals(i) /\ Lowered(i) = LoweredLocals(i)
  <1>1. /\ i \in DOMAIN ValidatedTables => i[1] \in TableNames
        /\ i \in DOMAIN ValidatedMemory => i[1] \in MemoryNames
        /\ i \in NoOps => i[1] \in {"nop", "elem.drop", "data.drop"}
    BY SpacesNamed
  <1>2. /\ i \in DOMAIN ValidatedTables => Executed(i) = ExecutedTables(i)
        /\ i \in DOMAIN ValidatedMemory => Executed(i) = ExecutedMemory(i)
        /\ i \in NoOps => Executed(i) = Op(<<>>, <<>>)
        /\ i[1] \in LocalNames => Executed(i) = ExecutedLocals(i)
    BY <1>1 DEF Executed, TableNames, MemoryNames, LocalNames
  <1>3. /\ i \in DOMAIN ValidatedTables => Lowered(i) = LoweredTables(i)
        /\ i \in DOMAIN ValidatedMemory => Lowered(i) = LoweredMemory(i)
        /\ i \in NoOps => Lowered(i) = 0
        /\ i[1] \in LocalNames => Lowered(i) = LoweredLocals(i)
    BY <1>1 DEF Lowered, TableNames, MemoryNames, LocalNames
  <1> QED BY <1>2, <1>3

LEMMA NothingMoves ==
  ASSUME NEW i, i[1] \notin {"table.copy", "table.init"}
  PROVE  Moves(i) = {}
  BY DEF Moves

LEMMA ShortSequences ==
  ASSUME NEW S
  PROVE  /\ <<>> \in Seq(S) /\ Len(<<>>) = 0
         /\ \A a \in S : <<a>> \in Seq(S) /\ Len(<<a>>) = 1
         /\ \A a, b \in S : <<a, b>> \in Seq(S) /\ Len(<<a, b>>) = 2
         /\ \A a, b, c \in S : <<a, b, c>> \in Seq(S) /\ Len(<<a, b, c>>) = 3
  OBVIOUS

LEMMA TablesAgree ==
  ASSUME DefaultsFit, NEW i \in DOMAIN ValidatedTables
  PROVE  Agrees(i, ValidatedTables[i])
  <1> DEFINE at == TableAddress(i[2])
             rt == Element(i[2])
             at3 == TableAddress(i[3])
  <1>1. Executed(i) = ExecutedTables(i) /\ Lowered(i) = LoweredTables(i)
    BY DispatchSpaces
  <1>2. ASSUME NEW op, i \in TableInstrs(op)
        PROVE  /\ i[1] = op /\ at \in ValueTypes /\ rt \in ValueTypes
    BY <1>2, SpacesTyped DEF TableInstrs
  <1>3. CASE i \in TableInstrs("table.get") /\ ValidatedTables[i] = Sig(<<at>>, <<rt>>)
    <2>1. Executed(i) = Op(<<at>>, <<rt>>) /\ Lowered(i) = 0
      <3>1. HeldElement(i[2]) = rt
        BY <1>3, HeldIs DEF TableInstrs
      <3> QED BY <1>1, <1>2, <1>3, <3>1 DEF ExecutedTables, LoweredTables
    <2>2. <<at>> \in Seq(ValueTypes) /\ <<rt>> \in Seq(ValueTypes)
      BY <1>2, <1>3, ShortSequences
    <2>3. Lowered(i) = Len(<<rt>>) - Len(<<at>>) /\ Moves(i) = {}
      BY <1>2, <1>3, <2>1, NothingMoves
    <2> QED BY <1>3, <2>1, <2>2, <2>3, Agreeing
  <1>4. CASE i \in TableInstrs("table.set") /\ ValidatedTables[i] = Sig(<<at, rt>>, <<>>)
    <2>1. Executed(i) = Op(<<at, rt>>, <<>>) /\ Lowered(i) = -2
      BY <1>1, <1>2, <1>4 DEF ExecutedTables, LoweredTables
    <2>2. <<at, rt>> \in Seq(ValueTypes) /\ <<>> \in Seq(ValueTypes)
      BY <1>2, <1>4, ShortSequences
    <2>3. Lowered(i) = Len(<<>>) - Len(<<at, rt>>) /\ Moves(i) = {}
      BY <1>2, <1>4, <2>1, NothingMoves
    <2> QED BY <1>4, <2>1, <2>2, <2>3, Agreeing
  <1>5. CASE i \in TableInstrs("table.size") /\ ValidatedTables[i] = Sig(<<>>, <<at>>)
    <2>1. Executed(i) = Op(<<>>, <<at>>) /\ Lowered(i) = 1
      BY <1>1, <1>2, <1>5 DEF ExecutedTables, LoweredTables
    <2>2. <<>> \in Seq(ValueTypes) /\ <<at>> \in Seq(ValueTypes)
      BY <1>2, <1>5, ShortSequences
    <2>3. Lowered(i) = Len(<<at>>) - Len(<<>>) /\ Moves(i) = {}
      BY <1>2, <1>5, <2>1, NothingMoves
    <2> QED BY <1>5, <2>1, <2>2, <2>3, Agreeing
  <1>6. CASE i \in TableInstrs("table.grow") /\ ValidatedTables[i] = Sig(<<rt, at>>, <<at>>)
    <2>1. Executed(i) = Op(<<rt, at>>, <<at>>) /\ Lowered(i) = -1
      BY <1>1, <1>2, <1>6 DEF ExecutedTables, LoweredTables
    <2>2. <<rt, at>> \in Seq(ValueTypes) /\ <<at>> \in Seq(ValueTypes)
      BY <1>2, <1>6, ShortSequences
    <2>3. Lowered(i) = Len(<<at>>) - Len(<<rt, at>>) /\ Moves(i) = {}
      BY <1>2, <1>6, <2>1, NothingMoves
    <2> QED BY <1>6, <2>1, <2>2, <2>3, Agreeing
  <1>7. CASE i \in TableInstrs("table.fill") /\ ValidatedTables[i] = Sig(<<at, rt, at>>, <<>>)
    <2>1. Executed(i) = Op(<<at, rt, at>>, <<>>) /\ Lowered(i) = -3
      BY <1>1, <1>2, <1>7 DEF ExecutedTables, LoweredTables
    <2>2. <<at, rt, at>> \in Seq(ValueTypes) /\ <<>> \in Seq(ValueTypes)
      BY <1>2, <1>7, ShortSequences
    <2>3. Lowered(i) = Len(<<>>) - Len(<<at, rt, at>>) /\ Moves(i) = {}
      BY <1>2, <1>7, <2>1, NothingMoves
    <2> QED BY <1>7, <2>1, <2>2, <2>3, Agreeing
  <1>8. CASE i \in TableCopies /\ ValidatedTables[i] =
               Sig(<<at, at3, Shorter(tables[i[2]].addr, tables[i[3]].addr)>>, <<>>)
    <2> DEFINE n == Shorter(tables[i[2]].addr, tables[i[3]].addr)
    <2>1. /\ i[1] = "table.copy" /\ i[2] \in DOMAIN tables /\ i[3] \in DOMAIN tables
          /\ ref_subtype(Element(i[3]), Element(i[2]))
      BY <1>8 DEF TableCopies, Copies
    <2>2. at \in ValueTypes /\ at3 \in ValueTypes
      BY <2>1, SpacesTyped
    <2>3. n = IF at = at3 THEN at ELSE I32
      <3>1. PICK a \in Addresses : a = tables[i[2]].addr
        BY <2>1, SpacesTyped
      <3>2. PICK b \in Addresses : b = tables[i[3]].addr
        BY <2>1, SpacesTyped
      <3>3. at = NumType(a) /\ at3 = NumType(b) /\ n = Shorter(a, b)
        BY <3>1, <3>2 DEF TableAddress, Address
      <3>4. NumType(a).heap = a /\ NumType(b).heap = b
        BY NumFields
      <3> HIDE DEF n, at, at3
      <3> QED BY <3>3, <3>4 DEF Shorter, Addresses, Address, I32
    <2>4. n \in ValueTypes
      BY <2>2, <2>3, NumTypes
    <2>5. Executed(i).takes = <<at, at3, n>> /\ Executed(i).gives = <<>> /\ Lowered(i) = -3
      BY <1>1, <2>1, <2>3 DEF ExecutedTables, LoweredTables, Op
    <2>6. Moves(i) = {<<Element(i[3]), Element(i[2])>>}
      BY <2>1, HeldIs DEF Moves
    <2>7. \A m \in Moves(i) : Values(m[1]) \subseteq Values(m[2])
      <3>1. Values(Element(i[3])) \subseteq Values(Element(i[2]))
        BY <2>1, SpacesTyped, ValuesGrow
      <3> QED BY <2>6, <3>1
    <2> HIDE DEF at, at3, n
    <2>8. <<at, at3, n>> \in Seq(ValueTypes) /\ Len(<<at, at3, n>>) = 3
      BY <2>2, <2>4
    <2>9. Lowered(i) = Len(<<>>) - Len(<<at, at3, n>>)
      BY <2>5, <2>8
    <2>10. /\ ValidatedTables[i].params = <<at, at3, n>> /\ ValidatedTables[i].results = <<>>
          /\ <<>> \in Seq(ValueTypes)
      BY <1>8 DEF Sig, n
    <2> QED BY <2>5, <2>7, <2>8, <2>9, <2>10, ValuesHold DEF Agrees
  <1>9. CASE i \in InitsThatFit /\ ValidatedTables[i] = Sig(<<at, I32, I32>>, <<>>)
    <2>1. /\ i[1] = "table.init" /\ i[2] \in DOMAIN tables /\ i[3] \in DOMAIN Module.elems
          /\ ref_subtype(Module.elems[i[3]], Element(i[2]))
      BY <1>9 DEF InitsThatFit, TableInits
    <2>2. at \in ValueTypes /\ I32 \in ValueTypes
      BY <2>1, SpacesTyped, NumTypes
    <2>3. Executed(i).takes = <<at, I32, I32>> /\ Executed(i).gives = <<>> /\ Lowered(i) = -3
      BY <1>1, <2>1 DEF ExecutedTables, LoweredTables, Op
    <2>4. Moves(i) = {<<Module.elems[i[3]], Element(i[2])>>}
      BY <2>1 DEF Moves
    <2>5. \A m \in Moves(i) : Values(m[1]) \subseteq Values(m[2])
      <3>1. Values(Module.elems[i[3]]) \subseteq Values(Element(i[2]))
        BY <2>1, SpacesTyped, ValuesGrow
      <3> QED BY <2>4, <3>1
    <2> HIDE DEF at
    <2>6. <<at, I32, I32>> \in Seq(ValueTypes) /\ Len(<<at, I32, I32>>) = 3
      BY <2>2
    <2>7. Lowered(i) = Len(<<>>) - Len(<<at, I32, I32>>)
      BY <2>3, <2>6
    <2>8. /\ ValidatedTables[i].params = <<at, I32, I32>> /\ ValidatedTables[i].results = <<>>
          /\ <<>> \in Seq(ValueTypes)
      BY <1>9 DEF Sig
    <2> QED BY <2>3, <2>5, <2>6, <2>7, <2>8, ValuesHold DEF Agrees
  <1> QED BY <1>3, <1>4, <1>5, <1>6, <1>7, <1>8, <1>9, TablesCases


LEMMA MemoryAgrees ==
  ASSUME NEW i \in DOMAIN ValidatedMemory
  PROVE  Agrees(i, ValidatedMemory[i])
  <1> DEFINE at == Address(mems[i[2]])
  <1>1. Executed(i) = ExecutedMemory(i) /\ Lowered(i) = LoweredMemory(i)
    BY DispatchSpaces
  <1>2. ASSUME NEW op, i \in MemInstrs(op)
        PROVE  i[1] = op /\ at \in ValueTypes /\ I32 \in ValueTypes
    BY <1>2, SpacesTyped, NumTypes DEF MemInstrs
  <1>3. CASE i \in MemInstrs("memory.size") /\ ValidatedMemory[i] = Sig(<<>>, <<at>>)
    <2>1. Executed(i) = Op(<<>>, <<at>>) /\ Lowered(i) = 1
      BY <1>1, <1>2, <1>3 DEF ExecutedMemory, LoweredMemory
    <2>2. <<>> \in Seq(ValueTypes) /\ <<at>> \in Seq(ValueTypes)
      BY <1>2, <1>3, ShortSequences
    <2>3. Lowered(i) = Len(<<at>>) - Len(<<>>) /\ Moves(i) = {}
      BY <1>2, <1>3, <2>1, NothingMoves
    <2> QED BY <1>3, <2>1, <2>2, <2>3, Agreeing
  <1>4. CASE i \in MemInstrs("memory.grow") /\ ValidatedMemory[i] = Sig(<<at>>, <<at>>)
    <2>1. Executed(i) = Op(<<at>>, <<at>>) /\ Lowered(i) = 0
      BY <1>1, <1>2, <1>4 DEF ExecutedMemory, LoweredMemory
    <2>2. <<at>> \in Seq(ValueTypes) /\ <<at>> \in Seq(ValueTypes)
      BY <1>2, <1>4, ShortSequences
    <2>3. Lowered(i) = Len(<<at>>) - Len(<<at>>) /\ Moves(i) = {}
      BY <1>2, <1>4, <2>1, NothingMoves
    <2> QED BY <1>4, <2>1, <2>2, <2>3, Agreeing
  <1>5. CASE i \in MemInstrs("memory.fill") /\ ValidatedMemory[i] = Sig(<<at, I32, at>>, <<>>)
    <2>1. Executed(i) = Op(<<at, I32, at>>, <<>>) /\ Lowered(i) = -3
      BY <1>1, <1>2, <1>5 DEF ExecutedMemory, LoweredMemory
    <2>2. <<at, I32, at>> \in Seq(ValueTypes) /\ <<>> \in Seq(ValueTypes)
      BY <1>2, <1>5, ShortSequences
    <2>3. Lowered(i) = Len(<<>>) - Len(<<at, I32, at>>) /\ Moves(i) = {}
      BY <1>2, <1>5, <2>1, NothingMoves
    <2> QED BY <1>5, <2>1, <2>2, <2>3, Agreeing
  <1>6. CASE i \in MemInstrs("memory.init") /\ ValidatedMemory[i] = Sig(<<at, I32, I32>>, <<>>)
    <2>1. Executed(i) = Op(<<at, I32, I32>>, <<>>) /\ Lowered(i) = -3
      BY <1>1, <1>2, <1>6 DEF ExecutedMemory, LoweredMemory
    <2>2. <<at, I32, I32>> \in Seq(ValueTypes) /\ <<>> \in Seq(ValueTypes)
      BY <1>2, <1>6, ShortSequences
    <2>3. Lowered(i) = Len(<<>>) - Len(<<at, I32, I32>>) /\ Moves(i) = {}
      BY <1>2, <1>6, <2>1, NothingMoves
    <2> QED BY <1>6, <2>1, <2>2, <2>3, Agreeing
  <1>7. CASE /\ i \in MemoryCopies
             /\ ValidatedMemory[i] =
                  Sig(<<at, Address(mems[i[3]]), Shorter(mems[i[2]], mems[i[3]])>>, <<>>)
    <2>1. i[1] = "memory.copy" /\ i[2] \in DOMAIN mems /\ mems[i[3]] = mems[i[2]]
      BY <1>7 DEF MemoryCopies, Copies
    <2>2. at \in ValueTypes /\ mems[i[2]] \in Addresses
      BY <2>1, SpacesTyped
    <2>3. Shorter(mems[i[2]], mems[i[3]]) = at
      BY <2>1, <2>2 DEF Shorter, Addresses, Address, I32
    <2>4. ValidatedMemory[i] = Sig(<<at, at, at>>, <<>>)
      BY <1>7, <2>1, <2>3
    <2>5. Executed(i) = Op(<<at, at, at>>, <<>>) /\ Lowered(i) = -3
      BY <1>1, <2>1 DEF ExecutedMemory, LoweredMemory
    <2>6. <<at, at, at>> \in Seq(ValueTypes) /\ <<>> \in Seq(ValueTypes)
      BY <2>2, ShortSequences
    <2>7. Lowered(i) = Len(<<>>) - Len(<<at, at, at>>) /\ Moves(i) = {}
      BY <2>1, <2>5, NothingMoves
    <2> QED BY <2>4, <2>5, <2>6, <2>7, Agreeing
  <1> QED BY <1>3, <1>4, <1>5, <1>6, <1>7, MemoryCases

LEMMA LocalsCases ==
  ASSUME NEW i \in DOMAIN ValidatedLocals
  PROVE  LET sig == ValidatedLocals[i]
         IN  \/ i \in Numeric("const") /\ sig = Sig(<<>>, <<NumOf(i)>>)
             \/ i \in LocalInstrs("local.get") /\ sig = Sig(<<>>, <<locals[i[2]]>>)
             \/ i \in LocalInstrs("local.set") /\ sig = Sig(<<locals[i[2]]>>, <<>>)
             \/ i \in LocalInstrs("local.tee") /\ sig = Sig(<<locals[i[2]]>>, <<locals[i[2]]>>)
  BY JoinFacts DEF ValidatedLocals

LEMMA NumericTyped ==
  ASSUME NEW op, NEW i \in Numeric(op)
  PROVE  i[1] = op /\ i[2] \in Num /\ NumOf(i) \in ValueTypes
  BY NumTypes DEF Numeric, NumOf

LEMMA LocalsAgree ==
  ASSUME DefaultsFit, NEW i \in DOMAIN ValidatedLocals
  PROVE  Agrees(i, ValidatedLocals[i])
  <1> DEFINE t == locals[i[2]]
  <1>1. i[1] \in LocalNames => Executed(i) = ExecutedLocals(i) /\ Lowered(i) = LoweredLocals(i)
    BY DispatchSpaces
  <1>2. ASSUME NEW op, i \in LocalInstrs(op)
        PROVE  i[1] = op /\ t \in ValueTypes
    BY <1>2, SpacesTyped DEF LocalInstrs
  <1>3. CASE i \in Numeric("const") /\ ValidatedLocals[i] = Sig(<<>>, <<NumOf(i)>>)
    <2>1. Executed(i) = Op(<<>>, <<NumOf(i)>>) /\ Lowered(i) = 1
      BY <1>1, NumericTyped, <1>3 DEF ExecutedLocals, LoweredLocals, LocalNames
    <2>2. <<>> \in Seq(ValueTypes) /\ <<NumOf(i)>> \in Seq(ValueTypes)
      BY NumericTyped, <1>3, ShortSequences
    <2>3. Lowered(i) = Len(<<NumOf(i)>>) - Len(<<>>) /\ Moves(i) = {}
      BY NumericTyped, <1>3, <2>1, NothingMoves
    <2> QED BY <1>3, <2>1, <2>2, <2>3, Agreeing
  <1>4. CASE i \in LocalInstrs("local.get") /\ ValidatedLocals[i] = Sig(<<>>, <<t>>)
    <2>1. Executed(i) = Op(<<>>, <<t>>) /\ Lowered(i) = 1
      <3>1. HeldLocal(i[2]) = t
        BY <1>4, HeldIs DEF LocalInstrs
      <3> QED BY <1>1, <1>2, <1>4, <3>1 DEF ExecutedLocals, LoweredLocals, LocalNames
    <2>2. <<>> \in Seq(ValueTypes) /\ <<t>> \in Seq(ValueTypes)
      BY <1>2, <1>4, ShortSequences
    <2>3. Lowered(i) = Len(<<t>>) - Len(<<>>) /\ Moves(i) = {}
      BY <1>2, <1>4, <2>1, NothingMoves
    <2> QED BY <1>4, <2>1, <2>2, <2>3, Agreeing
  <1>5. CASE i \in LocalInstrs("local.set") /\ ValidatedLocals[i] = Sig(<<t>>, <<>>)
    <2>1. Executed(i) = Op(<<t>>, <<>>) /\ Lowered(i) = -1
      BY <1>1, <1>2, <1>5 DEF ExecutedLocals, LoweredLocals, LocalNames
    <2>2. <<t>> \in Seq(ValueTypes) /\ <<>> \in Seq(ValueTypes)
      BY <1>2, <1>5, ShortSequences
    <2>3. Lowered(i) = Len(<<>>) - Len(<<t>>) /\ Moves(i) = {}
      BY <1>2, <1>5, <2>1, NothingMoves
    <2> QED BY <1>5, <2>1, <2>2, <2>3, Agreeing
  <1>6. CASE i \in LocalInstrs("local.tee") /\ ValidatedLocals[i] = Sig(<<t>>, <<t>>)
    <2>1. Executed(i) = Op(<<t>>, <<t>>) /\ Lowered(i) = 0
      BY <1>1, <1>2, <1>6 DEF ExecutedLocals, LoweredLocals, LocalNames
    <2>2. <<t>> \in Seq(ValueTypes) /\ <<t>> \in Seq(ValueTypes)
      BY <1>2, <1>6, ShortSequences
    <2>3. Lowered(i) = Len(<<t>>) - Len(<<t>>) /\ Moves(i) = {}
      BY <1>2, <1>6, <2>1, NothingMoves
    <2> QED BY <1>6, <2>1, <2>2, <2>3, Agreeing
  <1> QED BY <1>3, <1>4, <1>5, <1>6, LocalsCases

LEMMA UnopsAgree ==
  ASSUME NEW i \in DOMAIN ValidatedUnops
  PROVE  Agrees(i, ValidatedUnops[i])
  <1>1. i[1] = "unop" /\ i[2] \in Num /\ NumOf(i) \in ValueTypes
    BY NumericTyped DEF ValidatedUnops
  <1>2. ValidatedUnops[i] = Sig(<<NumOf(i)>>, <<NumOf(i)>>)
    BY DEF ValidatedUnops
  <1>3. Executed(i) = Op(<<NumOf(i)>>, <<NumOf(i)>>) /\ Lowered(i) = 0
    BY <1>1, Dispatch DEF ExecutedInts, ExecutedFloats, LoweredInts, LoweredFloats, Num
  <1>4. <<NumOf(i)>> \in Seq(ValueTypes) /\ <<NumOf(i)>> \in Seq(ValueTypes)
    BY <1>1, ShortSequences
  <1>5. Lowered(i) = Len(<<NumOf(i)>>) - Len(<<NumOf(i)>>) /\ Moves(i) = {}
    BY <1>1, <1>3, NothingMoves
  <1> QED BY <1>2, <1>3, <1>4, <1>5, Agreeing

LEMMA BinopsAgree ==
  ASSUME NEW i \in DOMAIN ValidatedBinops
  PROVE  Agrees(i, ValidatedBinops[i])
  <1>1. i[1] = "binop" /\ i[2] \in Num /\ NumOf(i) \in ValueTypes
    BY NumericTyped DEF ValidatedBinops
  <1>2. ValidatedBinops[i] = Sig(<<NumOf(i), NumOf(i)>>, <<NumOf(i)>>)
    BY DEF ValidatedBinops
  <1>3. Executed(i) = Op(<<NumOf(i), NumOf(i)>>, <<NumOf(i)>>) /\ Lowered(i) = -1
    BY <1>1, Dispatch DEF ExecutedInts, ExecutedFloats, LoweredInts, LoweredFloats, Num
  <1>4. <<NumOf(i), NumOf(i)>> \in Seq(ValueTypes) /\ <<NumOf(i)>> \in Seq(ValueTypes)
    BY <1>1, ShortSequences
  <1>5. Lowered(i) = Len(<<NumOf(i)>>) - Len(<<NumOf(i), NumOf(i)>>) /\ Moves(i) = {}
    BY <1>1, <1>3, NothingMoves
  <1> QED BY <1>2, <1>3, <1>4, <1>5, Agreeing

LEMMA CvtopsAgree ==
  ASSUME NEW i \in DOMAIN ValidatedCvtops
  PROVE  Agrees(i, ValidatedCvtops[i])
  <1>1. /\ i[1] \in {"cvtop", "trunc_sat"}
        /\ NumOf(i) \in ValueTypes /\ NumType(i[3]) \in ValueTypes
    BY NumTypes DEF ValidatedCvtops, Conversions, Saturations, NumOf, Num
  <1>2. ValidatedCvtops[i] = Sig(<<NumOf(i)>>, <<NumType(i[3])>>)
    BY DEF ValidatedCvtops
  <1>3. Executed(i) = Op(<<NumOf(i)>>, <<NumType(i[3])>>) /\ Lowered(i) = 0
    BY <1>1, Dispatch DEF ExecutedCvtops, ExecutedSaturations, LoweredCvtops
  <1>4. <<NumOf(i)>> \in Seq(ValueTypes) /\ <<NumType(i[3])>> \in Seq(ValueTypes)
    BY <1>1, ShortSequences
  <1>5. Lowered(i) = Len(<<NumType(i[3])>>) - Len(<<NumOf(i)>>) /\ Moves(i) = {}
    BY <1>1, <1>3, NothingMoves
  <1> QED BY <1>2, <1>3, <1>4, <1>5, Agreeing

LEMMA LoadsAgree ==
  ASSUME NEW i \in DOMAIN ValidatedLoads
  PROVE  Agrees(i, ValidatedLoads[i])
  <1>1. /\ i[1] = "load" /\ Address(mems[i[2]]) \in ValueTypes
        /\ NumType(i[3]) \in ValueTypes
    BY NumTypes, SpacesTyped DEF ValidatedLoads, Accesses
  <1>2. ValidatedLoads[i] = Sig(<<Address(mems[i[2]])>>, <<NumType(i[3])>>)
    BY DEF ValidatedLoads
  <1>3. Executed(i) = Op(<<Address(mems[i[2]])>>, <<NumType(i[3])>>) /\ Lowered(i) = 0
    BY <1>1, Dispatch DEF ExecutedLoads, LoweredAccesses
  <1>4. <<Address(mems[i[2]])>> \in Seq(ValueTypes) /\ <<NumType(i[3])>> \in Seq(ValueTypes)
    BY <1>1, ShortSequences
  <1>5. Lowered(i) = Len(<<NumType(i[3])>>) - Len(<<Address(mems[i[2]])>>) /\ Moves(i) = {}
    BY <1>1, <1>3, NothingMoves
  <1> QED BY <1>2, <1>3, <1>4, <1>5, Agreeing

LEMMA StoresAgree ==
  ASSUME NEW i \in DOMAIN ValidatedStores
  PROVE  Agrees(i, ValidatedStores[i])
  <1>1. /\ i[1] = "store" /\ Address(mems[i[2]]) \in ValueTypes
        /\ NumType(i[3]) \in ValueTypes
    BY NumTypes, SpacesTyped DEF ValidatedStores, Accesses
  <1>2. ValidatedStores[i] = Sig(<<Address(mems[i[2]]), NumType(i[3])>>, <<>>)
    BY DEF ValidatedStores
  <1>3. Executed(i) = Op(<<Address(mems[i[2]]), NumType(i[3])>>, <<>>) /\ Lowered(i) = -2
    BY <1>1, Dispatch DEF ExecutedStores, LoweredAccesses
  <1>4. <<Address(mems[i[2]]), NumType(i[3])>> \in Seq(ValueTypes) /\ <<>> \in Seq(ValueTypes)
    BY <1>1, ShortSequences
  <1>5. Lowered(i) = Len(<<>>) - Len(<<Address(mems[i[2]]), NumType(i[3])>>) /\ Moves(i) = {}
    BY <1>1, <1>3, NothingMoves
  <1> QED BY <1>2, <1>3, <1>4, <1>5, Agreeing

LEMMA TestsCases ==
  ASSUME NEW i \in DOMAIN ValidatedTests
  PROVE  LET sig == ValidatedTests[i]
         IN  \/ i \in Ints("testop") /\ sig = Sig(<<NumOf(i)>>, <<I32>>)
             \/ i \in Numeric("relop") /\ sig = Sig(<<NumOf(i), NumOf(i)>>, <<I32>>)
  BY JoinFacts DEF ValidatedTests

LEMMA TestsAgree ==
  ASSUME NEW i \in DOMAIN ValidatedTests
  PROVE  Agrees(i, ValidatedTests[i])
  <1>1. I32 \in ValueTypes
    BY NumTypes
  <1>2. ASSUME i \in Ints("testop")
        PROVE  i[1] = "testop" /\ i[2] \in {"i32", "i64"} /\ NumOf(i) \in ValueTypes
    BY <1>2, NumTypes DEF Ints, NumOf, Num
  <1>3. CASE i \in Ints("testop") /\ ValidatedTests[i] = Sig(<<NumOf(i)>>, <<I32>>)
    <2>1. Executed(i) = Op(<<NumOf(i)>>, <<I32>>) /\ Lowered(i) = 0
      BY <1>2, Dispatch, <1>3 DEF ExecutedInts, LoweredTests
    <2>2. <<NumOf(i)>> \in Seq(ValueTypes) /\ <<I32>> \in Seq(ValueTypes)
      BY <1>1, <1>2, <1>3, ShortSequences
    <2>3. Lowered(i) = Len(<<I32>>) - Len(<<NumOf(i)>>) /\ Moves(i) = {}
      BY <1>1, <1>2, <1>3, <2>1, NothingMoves
    <2> QED BY <1>3, <2>1, <2>2, <2>3, Agreeing
  <1>4. CASE i \in Numeric("relop") /\ ValidatedTests[i] = Sig(<<NumOf(i), NumOf(i)>>, <<I32>>)
    <2>1. Executed(i) = Op(<<NumOf(i), NumOf(i)>>, <<I32>>) /\ Lowered(i) = -1
      BY NumericTyped, Dispatch, <1>4 DEF ExecutedInts, ExecutedFloats, LoweredTests, Num
    <2>2. <<NumOf(i), NumOf(i)>> \in Seq(ValueTypes) /\ <<I32>> \in Seq(ValueTypes)
      BY <1>1, NumericTyped, <1>4, ShortSequences
    <2>3. Lowered(i) = Len(<<I32>>) - Len(<<NumOf(i), NumOf(i)>>) /\ Moves(i) = {}
      BY <1>1, NumericTyped, <1>4, <2>1, NothingMoves
    <2> QED BY <1>4, <2>1, <2>2, <2>3, Agreeing
  <1> QED BY <1>3, <1>4, TestsCases

LEMMA GlobalsCases ==
  ASSUME NEW i \in DOMAIN ValidatedGlobals
  PROVE  LET sig == ValidatedGlobals[i]
             t == globals[i[2]].type
         IN  \/ i \in GlobalInstrs("global.get") /\ sig = Sig(<<>>, <<t>>)
             \/ i \in GlobalInstrs("global.set") /\ sig = Sig(<<t>>, <<>>)
  BY JoinFacts DEF ValidatedGlobals, SettableGlobals

LEMMA GlobalsAgree ==
  ASSUME NEW i \in DOMAIN ValidatedGlobals
  PROVE  Agrees(i, ValidatedGlobals[i])
  <1> DEFINE t == globals[i[2]].type
  <1>1. i[1] \in LocalNames => Executed(i) = ExecutedLocals(i) /\ Lowered(i) = LoweredLocals(i)
    BY DispatchSpaces
  <1>2. ASSUME NEW op, i \in GlobalInstrs(op)
        PROVE  i[1] = op /\ t \in ValueTypes
    BY <1>2, SpacesTyped DEF GlobalInstrs
  <1>3. CASE i \in GlobalInstrs("global.get") /\ ValidatedGlobals[i] = Sig(<<>>, <<t>>)
    <2>1. Executed(i) = Op(<<>>, <<t>>) /\ Lowered(i) = 1
      BY <1>1, <1>2, <1>3 DEF ExecutedLocals, LoweredLocals, LocalNames
    <2>2. <<>> \in Seq(ValueTypes) /\ <<t>> \in Seq(ValueTypes)
      BY <1>2, <1>3, ShortSequences
    <2>3. Lowered(i) = Len(<<t>>) - Len(<<>>) /\ Moves(i) = {}
      BY <1>2, <1>3, <2>1, NothingMoves
    <2> QED BY <1>3, <2>1, <2>2, <2>3, Agreeing
  <1>4. CASE i \in GlobalInstrs("global.set") /\ ValidatedGlobals[i] = Sig(<<t>>, <<>>)
    <2>1. Executed(i) = Op(<<t>>, <<>>) /\ Lowered(i) = -1
      BY <1>1, <1>2, <1>4 DEF ExecutedLocals, LoweredLocals, LocalNames
    <2>2. <<t>> \in Seq(ValueTypes) /\ <<>> \in Seq(ValueTypes)
      BY <1>2, <1>4, ShortSequences
    <2>3. Lowered(i) = Len(<<>>) - Len(<<t>>) /\ Moves(i) = {}
      BY <1>2, <1>4, <2>1, NothingMoves
    <2> QED BY <1>4, <2>1, <2>2, <2>3, Agreeing
  <1> QED BY <1>3, <1>4, GlobalsCases

LEMMA CallsCases ==
  ASSUME NEW i \in DOMAIN ValidatedCalls
  PROVE  LET sig == ValidatedCalls[i]
         IN  \/ i \in Calls /\ sig = callee_type(i[2])
             \/ /\ i \in IndirectCalls("call_indirect")
                /\ sig = Sig(Append(func_type(i[2]).params, TableAddress(i[3])),
                             func_type(i[2]).results)
  BY JoinFacts DEF ValidatedCalls

\* What a call of a function, or through a table, pops and pushes.
LEMMA CalleesTyped ==
  /\ \A f \in DOMAIN funcs : /\ callee_type(f).params \in Seq(ValueTypes)
                             /\ callee_type(f).results \in Seq(ValueTypes)
  /\ \A op : \A i \in IndirectCalls(op) :
       /\ i[1] = op /\ func_type(i[2]).results \in Seq(ValueTypes)
       /\ func_type(i[2]).params \in Seq(ValueTypes)
       /\ TableAddress(i[3]) \in ValueTypes
  <1>1. ASSUME NEW f \in DOMAIN funcs
        PROVE  callee_type(f).params \in Seq(ValueTypes) /\ callee_type(f).results \in Seq(ValueTypes)
    <2>1. funcs[f] \in FuncTypes
      BY SpacesTyped
    <2> QED BY <2>1, SigsTyped DEF callee_type
  <1>2. ASSUME NEW op, NEW i \in IndirectCalls(op)
        PROVE  /\ i[1] = op /\ func_type(i[2]).results \in Seq(ValueTypes)
               /\ func_type(i[2]).params \in Seq(ValueTypes)
               /\ TableAddress(i[3]) \in ValueTypes
    <2>1. i[1] = op /\ i[2] \in FuncTypes /\ i[3] \in DOMAIN tables
      BY DEF IndirectCalls
    <2> QED BY <2>1, SigsTyped, SpacesTyped
  <1> QED BY <1>1, <1>2

LEMMA AppendTyped ==
  ASSUME NEW S, NEW s \in Seq(S), NEW e \in S
  PROVE  /\ Append(s, e) \in Seq(S) /\ Len(Append(s, e)) = Len(s) + 1 /\ Len(s) \in Nat
         /\ \A k \in 1..Len(s) : Append(s, e)[k] = s[k]
         /\ Append(s, e)[Len(s) + 1] = e
  OBVIOUS

LEMMA CallsAgree ==
  ASSUME NEW i \in DOMAIN ValidatedCalls
  PROVE  Agrees(i, ValidatedCalls[i])
  <1>1. CASE i \in Calls /\ ValidatedCalls[i] = callee_type(i[2])
    <2> DEFINE p == callee_type(i[2]).params
               r == callee_type(i[2]).results
    <2>1. i[1] = "call" /\ i[2] \in DOMAIN funcs
      BY <1>1 DEF Calls
    <2>2. p \in Seq(ValueTypes) /\ r \in Seq(ValueTypes)
      BY <2>1, CalleesTyped
    <2>3. Executed(i) = ExecutedCalls(i) /\ Lowered(i) = LoweredCalls(i)
      BY <2>1, Dispatch
    <2>4. Executed(i) = Op(p, r) /\ Lowered(i) = Len(r) - Len(p) - 0
      BY <2>1, <2>3 DEF ExecutedCalls, LoweredCalls
    <2>6. Lowered(i) = Len(r) - Len(p) /\ Moves(i) = {}
      BY <2>1, <2>2, <2>4, NothingMoves
    <2>5. ValidatedCalls[i].params = p /\ ValidatedCalls[i].results = r
      BY <1>1
    <2> HIDE DEF p, r
    <2> QED BY <2>2, <2>4, <2>5, <2>6, ValuesHold DEF Agrees, Op
  <1>2. CASE /\ i \in IndirectCalls("call_indirect")
             /\ ValidatedCalls[i] = Sig(Append(func_type(i[2]).params, TableAddress(i[3])),
                                       func_type(i[2]).results)
    <2> DEFINE s == func_type(i[2]).params
               p == Append(s, TableAddress(i[3]))
               r == func_type(i[2]).results
    <2>1. i[1] = "call_indirect" /\ s \in Seq(ValueTypes) /\ TableAddress(i[3]) \in ValueTypes
      BY <1>2, CalleesTyped
    <2>2. r \in Seq(ValueTypes)
      BY <1>2, CalleesTyped
    <2>3. p \in Seq(ValueTypes) /\ Len(p) = Len(s) + 1 /\ Len(s) \in Nat
      BY <2>1, AppendTyped
    <2>4. Executed(i) = Op(p, r) /\ Lowered(i) = Len(r) - Len(s) - 1
      BY <2>1, Dispatch DEF ExecutedCalls, LoweredCalls
    <2>5. Lowered(i) = Len(r) - Len(p) /\ Moves(i) = {}
      BY <2>1, <2>2, <2>3, <2>4, NothingMoves
    <2> HIDE DEF p, r
    <2> QED BY <1>2, <2>2, <2>3, <2>4, <2>5, Agreeing DEF p, r
  <1> QED BY <1>1, <1>2, CallsCases

\* ref.null gives the null reference, a value of every nullable type.
LEMMA NullIsAny ==
  ASSUME NEW h \in Heaps, NEW vs \in ValuesOf(<<Null>>)
  PROVE  Holds(vs, <<RefType(TRUE, h)>>)
  <1> DEFINE t == RefType(TRUE, h)
  <1>1. Null.ref = TRUE /\ Null.heap = "null" /\ AnyRef.heap = "any ref" /\ Bot.ref = FALSE /\ Anything.ref = FALSE
    BY RefFields, NumFields DEF Null, AnyRef, Bot, Anything
  <1>2. DOMAIN vs = 1..1 /\ vs = [k \in 1..1 |-> vs[k]] /\ vs[1] \in Values(Null)
    BY DEF ValuesOf
  <1>3. vs[1] \in References \cup {Null} /\ Fits(vs[1], Null)
    BY <1>1, <1>2 DEF Values
  <1>4. vs[1] = Null
    <2>1. SUFFICES ASSUME vs[1] # Null PROVE FALSE
      OBVIOUS
    <2>2. PICK r \in TypeIndices \cup {"extern", "i31"} : vs[1] = RefType(FALSE, r)
      BY <1>3, <2>1 DEF References
    <2>3. vs[1].heap = r /\ r # "null"
      BY <2>2, RefFields, NamesApart
    <2>4. Null # Anything /\ Null # Bot /\ Null # AnyRef
      BY <1>1
    <2>5. Admits("null", r)
      BY <1>1, <1>3, <2>1, <2>3, <2>4 DEF Fits
    <2> QED BY <2>3, <2>5 DEF Admits
  <1>5. t \in ValueTypes /\ t.ref = TRUE /\ t.null = TRUE
    BY RefTypesBuilt, RefFields
  <1>6. Null \in Value
    BY DEF Value
  <1>7. Fits(Null, t)
    BY <1>1, <1>5, <1>6, FitsRef
  <1>8. vs = <<Null>>
    BY <1>2, <1>4
  <1> HIDE DEF t
  <1>9. <<t>> \in Seq(ValueTypes) /\ Len(<<t>>) = 1 /\ <<Null>> \in Seq(Value) /\ Len(<<Null>>) = 1
    BY <1>5, <1>6, ShortSequences
  <1>10. Holds(<<Null>>, <<t>>)
    BY <1>7, <1>9 DEF Holds
  <1> QED BY <1>8, <1>10 DEF t

LEMMA RefsCases ==
  ASSUME NEW i \in DOMAIN ValidatedRefs
  PROVE  \/ i \in NoOps /\ ValidatedRefs[i] = Sig(<<>>, <<>>)
         \/ i \in RefNulls /\ ValidatedRefs[i] = Sig(<<>>, <<RefType(TRUE, i[2])>>)
         \/ i \in RefFuncs /\ ValidatedRefs[i] = Sig(<<>>, <<RefType(FALSE, funcs[i[2]])>>)
  <1> DEFINE a == [j \in NoOps |-> Sig(<<>>, <<>>)]
             b == [j \in RefNulls |-> Sig(<<>>, <<RefType(TRUE, j[2])>>)]
             c == [j \in RefFuncs |-> Sig(<<>>, <<RefType(FALSE, funcs[j[2]])>>)]
  <1>1. ValidatedRefs = Join(<<a, b, c>>)
    BY DEF ValidatedRefs
  <1> HIDE DEF a, b, c
  <1>2. \/ i \in DOMAIN a /\ ValidatedRefs[i] = a[i]
        \/ i \in DOMAIN b /\ ValidatedRefs[i] = b[i]
        \/ i \in DOMAIN c /\ ValidatedRefs[i] = c[i]
    BY <1>1, JoinFacts
  <1>3. i \in DOMAIN a => i \in NoOps /\ a[i] = Sig(<<>>, <<>>)
    BY DEF a
  <1>4. i \in DOMAIN b => i \in RefNulls /\ b[i] = Sig(<<>>, <<RefType(TRUE, i[2])>>)
    BY DEF b
  <1>5. i \in DOMAIN c => i \in RefFuncs /\ c[i] = Sig(<<>>, <<RefType(FALSE, funcs[i[2]])>>)
    BY DEF c
  <1> QED BY <1>2, <1>3, <1>4, <1>5

LEMMA RefsAgree ==
  ASSUME NEW i \in DOMAIN ValidatedRefs
  PROVE  Agrees(i, ValidatedRefs[i])
  <1>1. CASE i \in NoOps /\ ValidatedRefs[i] = Sig(<<>>, <<>>)
    <2>1. Executed(i) = Op(<<>>, <<>>) /\ Lowered(i) = 0
      BY <1>1, DispatchSpaces
    <2>2. <<>> \in Seq(ValueTypes)
      BY ShortSequences
    <2>3. Lowered(i) = Len(<<>>) - Len(<<>>) /\ Moves(i) = {}
      BY <1>1, <2>1, SpacesNamed, NothingMoves
    <2> QED BY <1>1, <2>1, <2>2, <2>3, Agreeing
  <1>2. CASE i \in RefNulls /\ ValidatedRefs[i] = Sig(<<>>, <<RefType(TRUE, i[2])>>)
    <2> DEFINE t == RefType(TRUE, i[2])
    <2>10. PICK h \in NullHeaps : i = <<"ref.null", h>>
      BY <1>2 DEF RefNulls
    <2>1. i[1] = "ref.null" /\ i[2] \in Heaps
      BY <2>10, BodyAssumption
    <2>2. t \in ValueTypes
      BY <2>1, RefTypesBuilt
    <2>3. Executed(i) = ExecutedLocals(i) /\ Lowered(i) = LoweredLocals(i)
      BY <2>1, DispatchSpaces DEF LocalNames
    <2>11. Executed(i) = Op(<<>>, <<Null>>) /\ Lowered(i) = 1
      BY <2>1, <2>3 DEF ExecutedLocals, LoweredLocals
    <2>4. Executed(i).takes = <<>> /\ Executed(i).gives = <<Null>> /\ Lowered(i) = 1
      BY <2>11 DEF Op
    <2>5. \A vs \in ValuesOf(Executed(i).gives) : Holds(vs, <<t>>)
      <3>1. \A vs \in ValuesOf(<<Null>>) : Holds(vs, <<t>>)
        BY <2>1, NullIsAny
      <3> QED BY <2>4, <3>1
    <2>6. ValidatedRefs[i].params = <<>> /\ ValidatedRefs[i].results = <<t>>
      <3>1. Sig(<<>>, <<t>>).params = <<>> /\ Sig(<<>>, <<t>>).results = <<t>>
        BY SigFields
      <3>2. ValidatedRefs[i] = Sig(<<>>, <<t>>)
        BY <1>2
      <3> QED BY <3>1, <3>2
    <2>7. Moves(i) = {}
      BY <2>1, NothingMoves
    <2> HIDE DEF t
    <2>8. <<>> \in Seq(ValueTypes) /\ <<t>> \in Seq(ValueTypes)
      BY <2>2, ShortSequences
    <2>9. Lowered(i) = Len(<<t>>) - Len(<<>>)
      BY <2>2, <2>4
    <2> QED BY <2>4, <2>5, <2>6, <2>7, <2>8, <2>9 DEF Agrees
  <1>3. CASE i \in RefFuncs /\ ValidatedRefs[i] = Sig(<<>>, <<RefType(FALSE, funcs[i[2]])>>)
    <2> DEFINE t == RefType(FALSE, funcs[i[2]])
    <2>10. PICK f \in refs : i = <<"ref.func", f>>
      BY <1>3 DEF RefFuncs
    <2>1. i[1] = "ref.func" /\ i[2] \in DOMAIN funcs
      BY <2>10, SpacesAssumption
    <2>2. funcs[i[2]] \in Heaps
      BY <2>1, SpacesTyped DEF Heaps, FuncTypes
    <2>3. t \in ValueTypes
      BY <2>2, RefTypesBuilt
    <2>4. Executed(i) = ExecutedLocals(i) /\ Lowered(i) = LoweredLocals(i)
      BY <2>1, DispatchSpaces DEF LocalNames
    <2>5. Executed(i) = Op(<<>>, <<t>>) /\ Lowered(i) = 1
      BY <2>1, <2>4 DEF ExecutedLocals, LoweredLocals
    <2>6. Moves(i) = {}
      BY <2>1, NothingMoves
    <2> HIDE DEF t
    <2>7. <<>> \in Seq(ValueTypes) /\ <<t>> \in Seq(ValueTypes)
      BY <2>3, ShortSequences
    <2>8. Lowered(i) = Len(<<t>>) - Len(<<>>)
      BY <2>3, <2>5
    <2> QED BY <1>3, <2>5, <2>6, <2>7, <2>8, Agreeing DEF t
  <1> QED BY <1>1, <1>2, <1>3, RefsCases

\* Of every instruction with a signature.
LEMMA ValidatedAgrees ==
  ASSUME DefaultsFit, NEW i \in DOMAIN Validated
  PROVE  Agrees(i, Validated[i])
  <1>1. \/ i \in DOMAIN ValidatedLocals /\ Validated[i] = ValidatedLocals[i]
        \/ i \in DOMAIN ValidatedUnops /\ Validated[i] = ValidatedUnops[i]
        \/ i \in DOMAIN ValidatedBinops /\ Validated[i] = ValidatedBinops[i]
        \/ i \in DOMAIN ValidatedCvtops /\ Validated[i] = ValidatedCvtops[i]
        \/ i \in DOMAIN ValidatedTests /\ Validated[i] = ValidatedTests[i]
        \/ i \in DOMAIN ValidatedGlobals /\ Validated[i] = ValidatedGlobals[i]
        \/ i \in DOMAIN ValidatedCalls /\ Validated[i] = ValidatedCalls[i]
        \/ i \in DOMAIN ValidatedLoads /\ Validated[i] = ValidatedLoads[i]
        \/ i \in DOMAIN ValidatedStores /\ Validated[i] = ValidatedStores[i]
        \/ i \in DOMAIN ValidatedMemory /\ Validated[i] = ValidatedMemory[i]
        \/ i \in DOMAIN ValidatedTables /\ Validated[i] = ValidatedTables[i]
        \/ i \in DOMAIN ValidatedRefs /\ Validated[i] = ValidatedRefs[i]
    BY JoinFacts DEF Validated
  <1> QED BY <1>1, LocalsAgree, UnopsAgree, BinopsAgree, CvtopsAgree, TestsAgree, GlobalsAgree,
             CallsAgree, LoadsAgree, StoresAgree, MemoryAgrees, TablesAgree, RefsAgree

----------------------------------------------------------------------------
(***************************************************************************)
(* The inductive invariant.                                                *)
(***************************************************************************)
FrameType ==
  [start_types : Seq(ValueTypes), end_types : Seq(ValueTypes), value_height : Nat,
   unreachable : BOOLEAN, is_loop : BOOLEAN]
ContextType ==
  [kind : {"function", "block", "loop", "then", "else"}, entry : Int, arity : Nat,
   results : Nat, saved : Int]

\* A frame of the validator and a block context of the compiler are of one block.
Matches(f, b) ==
  /\ b.results = Len(f.end_types) /\ b.arity = Len(LabelTypes(f))
  /\ f.is_loop = TRUE <=> b.kind = "loop"

Shaped(vs, fs, bs, h) ==
  /\ vs \in Seq(OperandTypes) /\ Len(vs) <= MaxVals /\ h \in Int
  /\ fs \in Seq(FrameType) /\ bs \in Seq(ContextType) /\ Len(bs) = Len(fs)
  /\ \A k \in 1..Len(fs) : fs[k].value_height <= Len(vs)
  /\ \A j, k \in 1..Len(fs) : j <= k => fs[j].value_height <= fs[k].value_height
  /\ \A k \in 1..Len(fs) : Matches(fs[k], bs[k]) /\ (bs[k].kind = "function" <=> k = 1)
  /\ fs # <<>> => fs[1].value_height = 0 /\ fs[1].end_types = Signature.results

\* The outermost n frames start at the compiler's heights, and control reached
\* the n-th of them.
Params == Len(Signature.params)
Entered(fs, bs, n) == \A k \in 1..n : bs[k].entry = Params + fs[k].value_height
Reached(fs, n) == \A k \in 1..n : fs[k].unreachable = FALSE

\* Control is here.
Lives(vs, fs, bs, h, r) ==
  /\ r.mode = "live" /\ fs # <<>>
  /\ Entered(fs, bs, Len(fs)) /\ Reached(fs, Len(fs))
  /\ h = Params + Len(vs) /\ Holds(r.stack, vs)

\* It will be behind the frame r.to, or in the second arm of that frame.
Left(vs, f, ts) == SubSeq(vs, 1, f.value_height) \o ts
Skips(vs, fs, bs, r) ==
  /\ r.to \in 2..Len(fs) /\ Entered(fs, bs, r.to) /\ Reached(fs, r.to - 1)
  /\ \/ r.mode = "to end" /\ Holds(r.stack, Left(vs, fs[r.to], fs[r.to].end_types))
     \/ /\ r.mode = "to else" /\ Holds(r.stack, Left(vs, fs[r.to], fs[r.to].start_types))
        /\ bs[r.to].kind = "then"
        /\ bs[r.to].saved = Params + fs[r.to].value_height + Len(fs[r.to].start_types)

Follows(vs, fs, bs, h, r) == r = Gone \/ Lives(vs, fs, bs, h, r) \/ Skips(vs, fs, bs, r)

IInv ==
  /\ Shaped(vals, control, blocks, height)
  /\ Follows(vals, control, blocks, height, run)
  /\ fault = "none" /\ uses \in Repertoires

\* The counts of a branch are stored in 16 bits.
FewOperands == MaxVals < 65536

----------------------------------------------------------------------------
(***************************************************************************)
(* Parts of stacks.                                                        *)
(***************************************************************************)
LEMMA PrefixFacts ==
  ASSUME NEW S, NEW s \in Seq(S), NEW m \in 0..Len(s)
  PROVE  /\ SubSeq(s, 1, m) \in Seq(S) /\ Len(SubSeq(s, 1, m)) = m
         /\ \A k \in 1..m : SubSeq(s, 1, m)[k] = s[k]
  OBVIOUS

LEMMA PrefixKept ==
  ASSUME NEW S, NEW s \in Seq(S), NEW t \in Seq(S), NEW m \in Nat, m <= Len(s), m <= Len(t),
         \A k \in 1..m : s[k] = t[k]
  PROVE  SubSeq(s, 1, m) = SubSeq(t, 1, m)
  <1>1. m \in 0..Len(s) /\ m \in 0..Len(t)
    OBVIOUS
  <1>2. /\ SubSeq(s, 1, m) \in Seq(S) /\ Len(SubSeq(s, 1, m)) = m
        /\ \A k \in 1..m : SubSeq(s, 1, m)[k] = s[k]
    BY <1>1, PrefixFacts
  <1>3. /\ SubSeq(t, 1, m) \in Seq(S) /\ Len(SubSeq(t, 1, m)) = m
        /\ \A k \in 1..m : SubSeq(t, 1, m)[k] = t[k]
    BY <1>1, PrefixFacts
  <1> DEFINE a == SubSeq(s, 1, m)
             b == SubSeq(t, 1, m)
  <1> HIDE DEF a, b
  <1>4. \A k \in 1..Len(a) : a[k] = b[k]
    BY <1>2, <1>3 DEF a, b
  <1> QED BY <1>2, <1>3, <1>4, SeqEqual DEF a, b

LEMMA PrefixConcat ==
  ASSUME NEW S, NEW s \in Seq(S), NEW t \in Seq(S), NEW m \in 0..Len(s)
  PROVE  SubSeq(s \o t, 1, m) = SubSeq(s, 1, m)
  <1>1. /\ s \o t \in Seq(S) /\ Len(s \o t) = Len(s) + Len(t)
        /\ \A k \in 1..Len(s) : (s \o t)[k] = s[k]
        /\ Len(s) \in Nat /\ Len(t) \in Nat
    BY ConcatFacts
  <1> DEFINE c == s \o t
  <1> HIDE DEF c
  <1>2. c \in Seq(S) /\ m \in Nat /\ m <= Len(c) /\ m <= Len(s) /\ \A k \in 1..m : c[k] = s[k]
    BY <1>1 DEF c
  <1>3. SubSeq(c, 1, m) = SubSeq(s, 1, m)
    BY <1>2, PrefixKept
  <1> QED BY <1>3 DEF c

LEMMA PrefixWhole ==
  ASSUME NEW S, NEW s \in Seq(S)
  PROVE  SubSeq(s, 1, Len(s)) = s
  <1>1. Len(s) \in 0..Len(s)
    OBVIOUS
  <1>2. /\ SubSeq(s, 1, Len(s)) \in Seq(S) /\ Len(SubSeq(s, 1, Len(s))) = Len(s)
        /\ \A k \in 1..Len(s) : SubSeq(s, 1, Len(s))[k] = s[k]
    BY <1>1, PrefixFacts
  <1> QED BY <1>2, SeqEqual

LEMMA PrefixTwice ==
  ASSUME NEW S, NEW s \in Seq(S), NEW n \in 0..Len(s), NEW m \in 0..n
  PROVE  SubSeq(SubSeq(s, 1, n), 1, m) = SubSeq(s, 1, m)
  <1>1. /\ SubSeq(s, 1, n) \in Seq(S) /\ Len(SubSeq(s, 1, n)) = n
        /\ \A k \in 1..n : SubSeq(s, 1, n)[k] = s[k]
    BY PrefixFacts
  <1> DEFINE p == SubSeq(s, 1, n)
  <1> HIDE DEF p
  <1>2. m \in Nat /\ m <= Len(p) /\ m <= Len(s) /\ \A k \in 1..m : p[k] = s[k]
    BY <1>1 DEF p
  <1>3. SubSeq(p, 1, m) = SubSeq(s, 1, m)
    BY <1>1, <1>2, PrefixKept DEF p
  <1> QED BY <1>3 DEF p

LEMMA UnderPrefix ==
  ASSUME NEW S, NEW s \in Seq(S), NEW m \in 0..Len(s)
  PROVE  Under(s, Len(s) - m) = SubSeq(s, 1, m)
  <1>1. Len(s) \in Nat /\ Len(s) - (Len(s) - m) = m
    OBVIOUS
  <1> QED BY <1>1 DEF Under

LEMMA HoldsPrefix ==
  ASSUME NEW s, NEW ts, Holds(s, ts), NEW m \in 0..Len(ts)
  PROVE  Holds(SubSeq(s, 1, m), SubSeq(ts, 1, m))
  <1>1. ts \in Seq(ValueTypes) /\ s \in Seq(Value) /\ Len(s) = Len(ts) /\ Len(ts) \in Nat
    BY DEF Holds
  <1>2. Len(ts) - m \in 0..Len(ts)
    BY <1>1
  <1>3. Holds(Under(s, Len(ts) - m), Under(ts, Len(ts) - m))
    BY <1>2, HoldsUnder
  <1>4. Under(ts, Len(ts) - m) = SubSeq(ts, 1, m)
    BY <1>1, UnderPrefix
  <1>5. m \in 0..Len(s)
    BY <1>1
  <1>6. Under(s, Len(s) - m) = SubSeq(s, 1, m)
    BY <1>1, <1>5, UnderPrefix
  <1> QED BY <1>1, <1>3, <1>4, <1>6

LEMMA HoldsSplit ==
  ASSUME NEW s, NEW x \in Seq(ValueTypes), NEW t \in Seq(ValueTypes), Holds(s, x \o t)
  PROVE  /\ Len(s) = Len(x) + Len(t)
         /\ Holds(TopOf(s, Len(t)), t) /\ Holds(Under(s, Len(t)), x)
         /\ \A m \in 0..Len(x) : Holds(SubSeq(s, 1, m), SubSeq(x, 1, m))
  <1> DEFINE c == x \o t
  <1>1. /\ c \in Seq(ValueTypes) /\ Len(c) = Len(x) + Len(t)
        /\ \A k \in 1..Len(t) : c[Len(x) + k] = t[k]
        /\ Len(x) \in Nat /\ Len(t) \in Nat
    BY ConcatFacts
  <1>2. s \in Seq(Value) /\ Len(s) = Len(c) /\ \A k \in 1..Len(c) : Fits(s[k], c[k])
    BY DEF Holds
  <1>3. \A m \in 0..Len(x) : SubSeq(c, 1, m) = SubSeq(x, 1, m)
    BY PrefixConcat
  <1> HIDE DEF c
  <1>4. ASSUME NEW m \in 0..Len(x) PROVE Holds(SubSeq(s, 1, m), SubSeq(x, 1, m))
    <2>1. m \in 0..Len(c) /\ Holds(s, c)
      BY <1>1 DEF c
    <2>2. Holds(SubSeq(s, 1, m), SubSeq(c, 1, m))
      BY <2>1, HoldsPrefix
    <2> QED BY <1>3, <2>2
  <1>5. Holds(Under(s, Len(t)), x)
    <2>1. Len(x) \in 0..Len(s) /\ Len(s) - Len(x) = Len(t)
      BY <1>1, <1>2
    <2>2. Under(s, Len(s) - Len(x)) = SubSeq(s, 1, Len(x))
      BY <1>2, <2>1, UnderPrefix
    <2>3. Len(x) \in 0..Len(x)
      BY <1>1
    <2>4. Holds(SubSeq(s, 1, Len(x)), SubSeq(x, 1, Len(x)))
      BY <1>4, <2>3
    <2> QED BY <2>1, <2>2, <2>4, PrefixWhole
  <1>6. Holds(TopOf(s, Len(t)), t)
    <2> DEFINE n == Len(t)
               top == TopOf(s, n)
    <2>1. n \in 0..Len(s)
      BY <1>1, <1>2
    <2>2. top \in Seq(Value) /\ Len(top) = n /\ \A k \in 1..n : top[k] = s[Len(s) - n + k]
      BY <1>2, <2>1, TopFacts
    <2> HIDE DEF top
    <2>3. ASSUME NEW k \in 1..n PROVE Fits(top[k], t[k])
      <3>1. PICK j : j = Len(x) + k
        OBVIOUS
      <3>2. j \in 1..Len(c) /\ j = Len(s) - n + k
        BY <1>1, <1>2, <3>1
      <3>3. c[j] = t[k] /\ top[k] = s[j]
        BY <1>1, <2>2, <3>1, <3>2
      <3> QED BY <1>2, <3>2, <3>3
    <2> QED BY <2>2, <2>3 DEF Holds, top
  <1> QED BY <1>1, <1>2, <1>4, <1>5, <1>6

----------------------------------------------------------------------------
(***************************************************************************)
(* Frames and their operands.                                              *)
(***************************************************************************)
LEMMA FrameFacts ==
  ASSUME NEW vs, NEW fs, NEW bs, NEW h, Shaped(vs, fs, bs, h), NEW k \in 1..Len(fs)
  PROVE  /\ fs[k] \in FrameType /\ bs[k] \in ContextType
         /\ fs[k].start_types \in Seq(ValueTypes) /\ fs[k].end_types \in Seq(ValueTypes)
         /\ fs[k].value_height \in 0..Len(vs) /\ fs[k].value_height \in Nat
         /\ fs[k].unreachable \in BOOLEAN /\ fs[k].is_loop \in BOOLEAN
         /\ LabelTypes(fs[k]) \in Seq(ValueTypes)
         /\ fs[k].is_loop = TRUE => LabelTypes(fs[k]) = fs[k].start_types
         /\ fs[k].is_loop = FALSE => LabelTypes(fs[k]) = fs[k].end_types
         /\ bs[k].entry \in Int /\ bs[k].saved \in Int
         /\ bs[k].arity = Len(LabelTypes(fs[k])) /\ bs[k].results = Len(fs[k].end_types)
         /\ fs[k].is_loop = TRUE <=> bs[k].kind = "loop"
         /\ bs[k].kind = "function" <=> k = 1
         /\ bs[k].kind \in {"function", "block", "loop", "then", "else"}
  <1>1. /\ vs \in Seq(OperandTypes) /\ fs \in Seq(FrameType) /\ bs \in Seq(ContextType)
        /\ Len(bs) = Len(fs) /\ fs[k].value_height <= Len(vs)
        /\ Matches(fs[k], bs[k]) /\ (bs[k].kind = "function" <=> k = 1)
    BY DEF Shaped
  <1>2. fs[k] \in FrameType /\ bs[k] \in ContextType
    BY <1>1
  <1>3. /\ fs[k].start_types \in Seq(ValueTypes) /\ fs[k].end_types \in Seq(ValueTypes)
        /\ fs[k].value_height \in Nat /\ fs[k].unreachable \in BOOLEAN /\ fs[k].is_loop \in BOOLEAN
    BY <1>2 DEF FrameType
  <1>4. /\ bs[k].entry \in Int /\ bs[k].saved \in Int
        /\ bs[k].kind \in {"function", "block", "loop", "then", "else"}
    BY <1>2 DEF ContextType
  <1>5. fs[k].value_height \in 0..Len(vs)
    BY <1>1, <1>3
  <1>6. /\ fs[k].is_loop = TRUE => LabelTypes(fs[k]) = fs[k].start_types
        /\ fs[k].is_loop = FALSE => LabelTypes(fs[k]) = fs[k].end_types
    BY DEF LabelTypes
  <1>7. /\ bs[k].arity = Len(LabelTypes(fs[k])) /\ bs[k].results = Len(fs[k].end_types)
        /\ fs[k].is_loop = TRUE <=> bs[k].kind = "loop"
    BY <1>1 DEF Matches
  <1> QED BY <1>1, <1>2, <1>3, <1>4, <1>5, <1>6, <1>7

LEMMA ShapedLengths ==
  ASSUME NEW vs, NEW fs, NEW bs, NEW h, Shaped(vs, fs, bs, h)
  PROVE  /\ vs \in Seq(OperandTypes) /\ Len(vs) \in Nat /\ Len(vs) <= MaxVals /\ h \in Int
         /\ fs \in Seq(FrameType) /\ bs \in Seq(ContextType)
         /\ Len(fs) \in Nat /\ Len(bs) = Len(fs)
         /\ fs # <<>> <=> Len(fs) > 0
  BY DEF Shaped

Shape == Shaped(vals, control, blocks, height)

LEMMA TopFrame ==
  ASSUME Shape, control # <<>>
  PROVE  /\ Depth \in Nat /\ Depth > 0 /\ Depth \in 1..Depth /\ Len(control) = Depth
         /\ Top = control[Depth]
         /\ Last(blocks) = blocks[Depth] /\ Len(blocks) = Depth
         /\ Top.value_height \in 0..Len(vals) /\ Top.value_height \in Nat /\ Len(vals) \in Nat
         /\ Top.unreachable \in BOOLEAN
         /\ Own = Len(vals) - Top.value_height /\ Own \in Nat
  <1>1. Len(control) \in Nat /\ Len(control) > 0 /\ Len(blocks) = Len(control) /\ Len(vals) \in Nat
    BY ShapedLengths DEF Shape
  <1>2. Depth = Len(control) /\ Top = control[Len(control)] /\ Last(blocks) = blocks[Len(blocks)]
    BY DEF Depth, Top, Last
  <1>3. Depth \in 1..Len(control)
    BY <1>1, <1>2
  <1>4. /\ control[Depth].value_height \in 0..Len(vals) /\ control[Depth].value_height \in Nat
        /\ control[Depth].unreachable \in BOOLEAN
    BY <1>3, FrameFacts DEF Shape
  <1>5. Own = Len(vals) - Top.value_height
    BY DEF Own
  <1> QED BY <1>1, <1>2, <1>3, <1>4, <1>5

\* The operands that stay when n are popped: never those of the frames around.
LEMMA RestFacts ==
  ASSUME Shape, control # <<>>, NEW n \in Nat
  PROVE  /\ Rest(n) \in Seq(OperandTypes) /\ Len(Rest(n)) \in Nat
         /\ Top.value_height <= Len(Rest(n)) /\ Len(Rest(n)) <= Len(vals)
         /\ \A m \in 0..Top.value_height : SubSeq(Rest(n), 1, m) = SubSeq(vals, 1, m)
         /\ n <= Own => Rest(n) = Under(vals, n) /\ Len(Rest(n)) = Len(vals) - n
  <1>1. /\ Len(vals) \in Nat /\ Top.value_height \in 0..Len(vals) /\ Own = Len(vals) - Top.value_height
        /\ vals \in Seq(OperandTypes)
    BY TopFrame, ShapedLengths DEF Shape
  <1> DEFINE c == Len(vals) - Least(n, Own)
  <1>2. c \in Top.value_height..Len(vals) /\ (n <= Own => c = Len(vals) - n)
    <2>1. PICK d : d = Top.value_height
      OBVIOUS
    <2>2. PICK e : e = Least(n, Own)
      OBVIOUS
    <2>3. e = (IF n < Own THEN n ELSE Own)
      BY <2>2 DEF Least
    <2>4. d \in 0..Len(vals) /\ Own = Len(vals) - d /\ Len(vals) \in Nat
      BY <1>1, <2>1
    <2>5. Len(vals) - e \in d..Len(vals) /\ (n <= Own => Len(vals) - e = Len(vals) - n)
      BY ONLY <2>3, <2>4, n \in Nat
    <2> QED BY <2>1, <2>2, <2>5
  <1>3. Rest(n) = SubSeq(vals, 1, c)
    BY DEF Rest
  <1> HIDE DEF c
  <1>4. c \in 0..Len(vals)
    BY <1>1, <1>2
  <1>5. SubSeq(vals, 1, c) \in Seq(OperandTypes) /\ Len(SubSeq(vals, 1, c)) = c
    BY <1>1, <1>4, PrefixFacts
  <1>6. ASSUME NEW m \in 0..Top.value_height
        PROVE  SubSeq(SubSeq(vals, 1, c), 1, m) = SubSeq(vals, 1, m)
    <2>1. m \in 0..c
      BY <1>1, <1>2
    <2> QED BY <1>1, <1>4, <2>1, PrefixTwice
  <1>7. n <= Own => SubSeq(vals, 1, c) = Under(vals, n)
    BY <1>2 DEF Under
  <1> QED BY <1>1, <1>2, <1>3, <1>5, <1>6, <1>7

\* Where control is, popping finds what it expects.
Alive == Shape /\ Lives(vals, control, blocks, height, run)

LEMMA LiveFacts ==
  ASSUME Alive
  PROVE  /\ control # <<>> /\ Live /\ Shape /\ Top.unreachable = FALSE
         /\ Holds(Stack, vals) /\ vals \in Seq(ValueTypes) /\ Len(Stack) = Len(vals)
         /\ Stack \in Seq(Value)
         /\ height = Params + Len(vals) /\ Params \in Nat /\ ~Dropped
         /\ Len(vals) \in Nat /\ Len(vals) <= MaxVals
  <1>1. /\ run.mode = "live" /\ control # <<>> /\ Reached(control, Len(control)) /\ Shape
        /\ height = Params + Len(vals) /\ Holds(run.stack, vals)
    BY DEF Alive, Lives
  <1>2. Top.unreachable = FALSE
    BY <1>1, TopFrame DEF Reached
  <1>3. Len(vals) \in Nat /\ Len(vals) <= MaxVals
    BY <1>1, ShapedLengths DEF Shape
  <1>4. Params \in Nat
    <2>1. Signature.params \in Seq(ValueTypes)
      BY BodyAssumption DEF Sigs
    <2> QED BY <2>1 DEF Params
  <1>5. ~Dropped
    BY <1>1, <1>3, <1>4 DEF Dropped, UnreachableDepth
  <1> QED BY <1>1, <1>2, <1>3, <1>4, <1>5 DEF Live, Stack, Holds

LEMMA LivePops ==
  ASSUME Alive, NEW ts \in Seq(ValueTypes), CanPop(ts)
  PROVE  /\ Len(ts) \in Nat /\ Len(ts) <= Own /\ Accepts(vals, ts)
         /\ Rest(Len(ts)) = Under(vals, Len(ts)) /\ Rest(Len(ts)) \in Seq(ValueTypes)
         /\ Len(Rest(Len(ts))) = Len(vals) - Len(ts)
         /\ CanTake(ts) /\ Holds(Under(Stack, Len(ts)), Rest(Len(ts)))
         /\ Holds(Stack, Rest(Len(ts)) \o ts)
  <1> DEFINE n == Len(ts)
  <1>1. /\ control # <<>> /\ Shape /\ Top.unreachable = FALSE /\ Holds(Stack, vals)
        /\ vals \in Seq(ValueTypes) /\ Len(Stack) = Len(vals) /\ Len(vals) \in Nat
    BY LiveFacts
  <1>2. /\ Own = Len(vals) - Top.value_height /\ Own \in Nat /\ Top.value_height \in Nat
    BY <1>1, TopFrame
  <1>3. n \in Nat /\ n <= Own
    <2>1. n <= Own \/ Top.unreachable
      BY DEF CanPop
    <2>2. n \in Nat
      OBVIOUS
    <2> QED BY <1>1, <2>1, <2>2
  <1>4. Least(n, Own) = n
    BY <1>2, <1>3 DEF Least
  <1>5. \A k \in 1..n : \/ vals[Len(vals) - k + 1] = Bot
                        \/ value_subtype(vals[Len(vals) - k + 1], ts[n - k + 1])
    BY <1>4 DEF CanPop
  <1>6. ASSUME NEW j \in 1..n PROVE value_subtype(vals[Len(vals) - n + j], ts[j])
    <2>1. PICK k : k = n - j + 1
      OBVIOUS
    <2> HIDE DEF n
    <2>2. k \in 1..n /\ Len(vals) - k + 1 = Len(vals) - n + j /\ n - k + 1 = j
      BY <1>1, <1>3, <2>1
    <2>3. PICK q : q = Len(vals) - n + j
      OBVIOUS
    <2>4. q \in 1..Len(vals)
      BY <1>1, <1>2, <1>3, <2>3
    <2>5. vals[q] \in ValueTypes
      BY <1>1, <2>4
    <2>6. vals[q] # Bot
      BY <2>5, ValueTypesApart
    <2> QED BY <1>5, <2>2, <2>3, <2>6
  <1>7. Accepts(vals, ts)
    BY <1>1, <1>2, <1>3, <1>6 DEF Accepts
  <1>8. Rest(n) = Under(vals, n) /\ Len(Rest(n)) = Len(vals) - n
    BY <1>1, <1>3, RestFacts
  <1>9. n \in 0..Len(vals)
    BY <1>1, <1>2, <1>3
  <1>10. Under(vals, n) \in Seq(ValueTypes)
    BY <1>1, <1>9, UnderFacts
  <1>11. Holds(TopOf(Stack, n), ts)
    BY <1>1, <1>7, HoldsTop
  <1>12. Holds(Under(Stack, n), Under(vals, n))
    BY <1>1, <1>9, HoldsUnder
  <1>13. Holds(Stack, Under(vals, n) \o ts)
    BY <1>1, <1>7, HoldsExpected
  <1>14. CanTake(ts)
    BY <1>1, <1>9, <1>11, HoldsFits DEF CanTake
  <1> QED BY <1>3, <1>7, <1>8, <1>10, <1>12, <1>13, <1>14

----------------------------------------------------------------------------
(***************************************************************************)
(* What a step keeps.  The operands of the frames around are its own to    *)
(* leave alone: Around(vs, ws, f) compares them with those before the step. *)
(***************************************************************************)
Around(vs, ws, f) == \A m \in 0..f.value_height : SubSeq(ws, 1, m) = SubSeq(vs, 1, m)

LEMMA ExceptFacts ==
  ASSUME NEW S, NEW s \in Seq(S), NEW n \in 1..Len(s), NEW e \in S
  PROVE  /\ [s EXCEPT ![n] = e] \in Seq(S) /\ Len([s EXCEPT ![n] = e]) = Len(s)
         /\ [s EXCEPT ![n] = e][n] = e
         /\ \A k \in 1..Len(s) : k # n => [s EXCEPT ![n] = e][k] = s[k]
  OBVIOUS

LEMMA FrontFacts ==
  ASSUME NEW S, NEW s \in Seq(S), Len(s) > 0
  PROVE  /\ Front(s) \in Seq(S) /\ Len(Front(s)) = Len(s) - 1 /\ Len(s) \in Nat
         /\ \A k \in 1..(Len(s) - 1) : Front(s)[k] = s[k]
  <1>1. Len(s) - 1 \in 0..Len(s) /\ Len(s) \in Nat
    OBVIOUS
  <1>2. Front(s) = SubSeq(s, 1, Len(s) - 1)
    BY DEF Front
  <1> QED BY <1>1, <1>2, PrefixFacts

\* The nesting of the frames, and that each is of one block for both sides.
Nested(fs, bs) ==
  /\ \A j, k \in 1..Len(fs) : j <= k => fs[j].value_height <= fs[k].value_height
  /\ \A k \in 1..Len(fs) : Matches(fs[k], bs[k]) /\ (bs[k].kind = "function" <=> k = 1)
  /\ fs # <<>> => fs[1].value_height = 0 /\ fs[1].end_types = Signature.results

LEMMA ShapedAgain ==
  ASSUME NEW vs \in Seq(OperandTypes), Len(vs) <= MaxVals, NEW h \in Int,
         NEW fs \in Seq(FrameType), NEW bs \in Seq(ContextType), Len(bs) = Len(fs),
         Nested(fs, bs), fs # <<>> => fs[Len(fs)].value_height <= Len(vs)
  PROVE  Shaped(vs, fs, bs, h)
  <1>1. ASSUME NEW k \in 1..Len(fs) PROVE fs[k].value_height <= Len(vs)
    <2>1. fs # <<>> /\ Len(fs) \in 1..Len(fs) /\ k <= Len(fs)
      OBVIOUS
    <2>2. fs[k] \in FrameType /\ fs[Len(fs)] \in FrameType
      BY <2>1
    <2>3. fs[k].value_height \in Nat /\ fs[Len(fs)].value_height \in Nat
      BY <2>2 DEF FrameType
    <2>4. fs[k].value_height <= fs[Len(fs)].value_height
      BY <2>1 DEF Nested
    <2>5. Len(vs) \in Nat
      OBVIOUS
    <2> QED BY <2>1, <2>3, <2>4, <2>5
  <1> QED BY <1>1 DEF Shaped, Nested

LEMMA ShapedIsNested ==
  ASSUME NEW vs, NEW fs, NEW bs, NEW h, Shaped(vs, fs, bs, h)
  PROVE  Nested(fs, bs)
  BY DEF Shaped, Nested

\* Instructions within a frame.
LEMMA ShapeReplace ==
  ASSUME NEW vs, NEW fs, NEW bs, NEW h, Shaped(vs, fs, bs, h),
         NEW ws \in Seq(OperandTypes), Len(ws) <= MaxVals, NEW g \in Int,
         fs # <<>> => fs[Len(fs)].value_height <= Len(ws)
  PROVE  Shaped(ws, fs, bs, g)
  BY ShapedLengths, ShapedIsNested, ShapedAgain

Marked(fs) == [fs EXCEPT ![Len(fs)].unreachable = TRUE]

LEMMA ShapeMark ==
  ASSUME NEW vs, NEW fs, NEW bs, NEW h, Shaped(vs, fs, bs, h), fs # <<>>,
         NEW ws \in Seq(OperandTypes), Len(ws) <= MaxVals, NEW g \in Int,
         fs[Len(fs)].value_height <= Len(ws),
         NEW gs, gs = Marked(fs)
  PROVE  /\ Shaped(ws, gs, bs, g) /\ Len(gs) = Len(fs)
         /\ \A k \in 1..Len(fs) : /\ gs[k].value_height = fs[k].value_height
                                  /\ gs[k].start_types = fs[k].start_types
                                  /\ gs[k].end_types = fs[k].end_types
                                  /\ k < Len(fs) => gs[k].unreachable = fs[k].unreachable
  <1> DEFINE n == Len(fs)
             e == [fs[n] EXCEPT !.unreachable = TRUE]
  <1>1. fs \in Seq(FrameType) /\ bs \in Seq(ContextType) /\ n \in 1..Len(fs) /\ Len(bs) = n
    BY ShapedLengths
  <1>2. fs[n] \in FrameType
    BY <1>1
  <1>3. /\ e \in FrameType /\ e.value_height = fs[n].value_height /\ e.start_types = fs[n].start_types
        /\ e.end_types = fs[n].end_types /\ e.is_loop = fs[n].is_loop
    BY <1>2 DEF FrameType
  <1>4. gs = [fs EXCEPT ![n] = e]
    BY DEF Marked
  <1> HIDE DEF e, n
  <1>5. /\ gs \in Seq(FrameType) /\ Len(gs) = Len(fs) /\ gs[n] = e
        /\ \A k \in 1..Len(fs) : k # n => gs[k] = fs[k]
    <2>1. fs \in Seq(FrameType) /\ n \in 1..Len(fs) /\ e \in FrameType
      BY <1>1, <1>3
    <2> QED BY ONLY <1>4, <2>1, ExceptFacts
  <1>6. ASSUME NEW k \in 1..Len(fs)
        PROVE  /\ gs[k].value_height = fs[k].value_height /\ gs[k].start_types = fs[k].start_types
               /\ gs[k].end_types = fs[k].end_types /\ gs[k].is_loop = fs[k].is_loop
               /\ k < Len(fs) => gs[k].unreachable = fs[k].unreachable
    <2>1. CASE k = n
      <3>1. gs[k] = e /\ ~(k < Len(fs))
        BY <1>1, <1>5, <2>1 DEF n
      <3> QED BY <1>3, <2>1, <3>1
    <2>2. CASE k # n
      <3>1. gs[k] = fs[k]
        BY <1>5, <2>2
      <3> QED BY <3>1
    <2> QED BY <2>1, <2>2
  <1>7. Nested(fs, bs)
    BY ShapedIsNested
  <1>8. ASSUME NEW k \in 1..Len(fs) PROVE Matches(gs[k], bs[k])
    <2>1. Matches(fs[k], bs[k])
      BY <1>7 DEF Nested
    <2>2. LabelTypes(gs[k]) = LabelTypes(fs[k])
      BY <1>6 DEF LabelTypes
    <2> QED BY <1>6, <2>1, <2>2 DEF Matches
  <1>9. fs # <<>> /\ 1 \in 1..Len(fs) /\ Len(fs) \in 1..Len(fs)
    BY <1>1 DEF n
  <1>13. \A j, k \in 1..Len(fs) : j <= k => gs[j].value_height <= gs[k].value_height
    <2>1. \A j, k \in 1..Len(fs) : j <= k => fs[j].value_height <= fs[k].value_height
      BY <1>7 DEF Nested
    <2>2. \A k \in 1..Len(fs) : gs[k].value_height = fs[k].value_height
      BY <1>6
    <2> QED BY ONLY <2>1, <2>2
  <1>14. \A k \in 1..Len(fs) : bs[k].kind = "function" <=> k = 1
    BY <1>7 DEF Nested
  <1>15. gs[1].value_height = 0 /\ gs[1].end_types = Signature.results
    BY <1>6, <1>7, <1>9 DEF Nested
  <1>10. Nested(gs, bs)
    BY <1>5, <1>8, <1>13, <1>14, <1>15 DEF Nested
  <1>11. gs[Len(gs)].value_height <= Len(ws)
    BY <1>5, <1>6, <1>9
  <1>12. Shaped(ws, gs, bs, g)
    BY <1>1, <1>5, <1>10, <1>11, ShapedAgain DEF n
  <1> QED BY <1>5, <1>6, <1>12

\* A block is opened.
LEMMA ShapeOpen ==
  ASSUME NEW vs, NEW fs, NEW bs, NEW h, Shaped(vs, fs, bs, h), fs # <<>>,
         NEW ws \in Seq(OperandTypes), Len(ws) <= MaxVals, NEW g \in Int,
         NEW f \in FrameType, NEW b \in ContextType, Matches(f, b), b.kind # "function",
         fs[Len(fs)].value_height <= f.value_height, f.value_height <= Len(ws)
  PROVE  Shaped(ws, Append(fs, f), Append(bs, b), g)
  <1> DEFINE n == Len(fs)
             gs == Append(fs, f)
             cs == Append(bs, b)
  <1>1. fs \in Seq(FrameType) /\ bs \in Seq(ContextType) /\ n \in Nat /\ n > 0 /\ Len(bs) = n
    BY ShapedLengths
  <1>2. /\ gs \in Seq(FrameType) /\ Len(gs) = n + 1
        /\ \A k \in 1..n : gs[k] = fs[k]
        /\ gs[n + 1] = f
    BY <1>1, AppendTyped
  <1>3. /\ cs \in Seq(ContextType) /\ Len(cs) = n + 1
        /\ \A k \in 1..n : cs[k] = bs[k]
        /\ cs[n + 1] = b
    BY <1>1, AppendTyped
  <1>4. Nested(fs, bs)
    BY ShapedIsNested
  <1>5. \A k \in 1..n : fs[k].value_height \in Nat
    BY FrameFacts
  <1>6. f.value_height \in Nat
    BY DEF FrameType
  <1> HIDE DEF gs, cs
  <1>7. ASSUME NEW j \in 1..(n + 1), NEW k \in 1..(n + 1), j <= k
        PROVE  gs[j].value_height <= gs[k].value_height
    <2>1. CASE k <= n
      <3>1. j \in 1..n /\ k \in 1..n
        BY <1>1, <1>7, <2>1
      <3> QED BY <1>2, <1>4, <1>7, <3>1 DEF Nested
    <2>2. CASE k = n + 1 /\ j <= n
      <3>1. j \in 1..n /\ n \in 1..n
        BY <1>1, <2>2
      <3>2. fs[j].value_height <= fs[n].value_height
        BY <1>4, <3>1 DEF Nested
      <3> QED BY <1>2, <1>5, <1>6, <2>2, <3>1, <3>2
    <2>3. CASE k = n + 1 /\ j = n + 1
      BY <1>2, <1>6, <2>3
    <2> QED BY <1>1, <2>1, <2>2, <2>3
  <1>8. ASSUME NEW k \in 1..(n + 1)
        PROVE  Matches(gs[k], cs[k]) /\ (cs[k].kind = "function" <=> k = 1)
    <2>1. CASE k <= n
      <3>1. k \in 1..n
        BY <1>1, <2>1
      <3> QED BY <1>2, <1>3, <1>4, <3>1 DEF Nested
    <2>2. CASE k = n + 1
      BY <1>1, <1>2, <1>3, <2>2
    <2> QED BY <1>1, <2>1, <2>2
  <1>9. gs[1] = fs[1]
    BY <1>1, <1>2
  <1>10. Nested(gs, cs)
    BY <1>2, <1>4, <1>7, <1>8, <1>9 DEF Nested
  <1>11. gs[Len(gs)].value_height <= Len(ws)
    BY <1>2
  <1>12. Shaped(ws, gs, cs, g)
    BY <1>2, <1>3, <1>10, <1>11, ShapedAgain
  <1> QED BY <1>12 DEF gs, cs

\* A block other than the function's is closed.
Closing(fs, ws, g) ==
  /\ Len(fs) > 1 /\ ws \in Seq(OperandTypes) /\ Len(ws) <= MaxVals /\ g \in Int
  /\ fs[Len(fs)].value_height <= Len(ws)

LEMMA ShapeClose ==
  ASSUME NEW vs, NEW fs, NEW bs, NEW h, Shaped(vs, fs, bs, h), NEW ws, NEW g, Closing(fs, ws, g)
  PROVE  Shaped(ws, Front(fs), Front(bs), g)
  <1>13. /\ Len(fs) > 1 /\ ws \in Seq(OperandTypes) /\ Len(ws) <= MaxVals /\ g \in Int
         /\ fs[Len(fs)].value_height <= Len(ws)
    BY DEF Closing
  <1> USE <1>13
  <1> DEFINE n == Len(fs)
             gs == Front(fs)
             cs == Front(bs)
  <1>1. fs \in Seq(FrameType) /\ bs \in Seq(ContextType) /\ n \in Nat /\ Len(bs) = n
    BY ShapedLengths
  <1>2. /\ gs \in Seq(FrameType) /\ Len(gs) = n - 1
        /\ \A k \in 1..(n - 1) : gs[k] = fs[k]
    BY <1>1, FrontFacts
  <1>3. /\ cs \in Seq(ContextType) /\ Len(cs) = n - 1
        /\ \A k \in 1..(n - 1) : cs[k] = bs[k]
    BY <1>1, FrontFacts
  <1>4. Nested(fs, bs)
    BY ShapedIsNested
  <1> HIDE DEF gs, cs
  <1>5. \A k \in 1..(n - 1) : k \in 1..n
    BY <1>1
  <1>6. gs[1] = fs[1] /\ fs # <<>>
    BY <1>1, <1>2
  <1>7. Nested(gs, cs)
    BY <1>2, <1>3, <1>4, <1>5, <1>6 DEF Nested
  <1>8. n - 1 \in 1..(n - 1) /\ n - 1 \in 1..n /\ n \in 1..n
    BY <1>1
  <1>9. fs[n - 1].value_height <= fs[n].value_height
    <2>1. \A j, k \in 1..n : j <= k => fs[j].value_height <= fs[k].value_height
      BY <1>4 DEF Nested
    <2>2. PICK j : j = n - 1
      OBVIOUS
    <2>3. j \in 1..n /\ j <= n
      BY <1>1, <1>8, <2>2
    <2>4. fs[j].value_height <= fs[n].value_height
      BY <1>8, <2>1, <2>3
    <2> QED BY <2>2, <2>4
  <1>10. fs[n - 1].value_height \in Nat /\ fs[n].value_height \in Nat /\ Len(ws) \in Nat
    <2>1. \A k \in 1..n : fs[k].value_height \in Nat
      BY FrameFacts
    <2> QED BY <1>8, <2>1
  <1>11. gs[Len(gs)].value_height <= Len(ws)
    BY <1>2, <1>8, <1>9, <1>10
  <1>12. Shaped(ws, gs, cs, g)
    BY <1>2, <1>3, <1>7, <1>11, ShapedAgain
  <1> QED BY <1>12 DEF gs, cs

\* The second arm of an if takes the place of the first.
Turning(fs, bs, ws, g, f, gs, cs) ==
  /\ fs # <<>> /\ bs[Len(fs)].kind = "then"
  /\ ws \in Seq(OperandTypes) /\ Len(ws) <= MaxVals /\ g \in Int
  /\ f \in FrameType /\ f.value_height = fs[Len(fs)].value_height /\ f.is_loop = FALSE
  /\ f.start_types = fs[Len(fs)].start_types /\ f.end_types = fs[Len(fs)].end_types
  /\ fs[Len(fs)].value_height <= Len(ws)
  /\ gs = Append(Front(fs), f) /\ cs = [bs EXCEPT ![Len(bs)].kind = "else"]

LEMMA ShapeElse ==
  ASSUME NEW vs, NEW fs, NEW bs, NEW h, Shaped(vs, fs, bs, h),
         NEW ws, NEW g, NEW f, NEW gs, NEW cs, Turning(fs, bs, ws, g, f, gs, cs)
  PROVE  /\ Shaped(ws, gs, cs, g) /\ Len(gs) = Len(fs) /\ Len(fs) > 1
         /\ \A k \in 1..(Len(fs) - 1) : gs[k] = fs[k] /\ cs[k] = bs[k]
         /\ gs[Len(fs)] = f /\ cs[Len(fs)].entry = bs[Len(fs)].entry
  <1>18. /\ fs # <<>> /\ bs[Len(fs)].kind = "then"
         /\ ws \in Seq(OperandTypes) /\ Len(ws) <= MaxVals /\ g \in Int
         /\ f \in FrameType /\ f.value_height = fs[Len(fs)].value_height /\ f.is_loop = FALSE
         /\ f.start_types = fs[Len(fs)].start_types /\ f.end_types = fs[Len(fs)].end_types
         /\ fs[Len(fs)].value_height <= Len(ws)
         /\ gs = Append(Front(fs), f) /\ cs = [bs EXCEPT ![Len(bs)].kind = "else"]
    BY DEF Turning
  <1> USE <1>18
  <1> DEFINE n == Len(fs)
             b == [bs[n] EXCEPT !.kind = "else"]
  <1>1. /\ fs \in Seq(FrameType) /\ bs \in Seq(ContextType) /\ n \in Nat /\ n > 0 /\ Len(bs) = n
        /\ n \in 1..n
    BY ShapedLengths
  <1>2. n > 1
    <2>1. Shaped(vs, fs, bs, h)
      OBVIOUS
    <2>2. \A k \in 1..Len(fs) : bs[k].kind = "function" <=> k = 1
      BY ONLY <2>1 DEF Shaped
    <2> QED BY <1>1, <2>2
  <1>3. /\ Front(fs) \in Seq(FrameType) /\ Len(Front(fs)) = n - 1
        /\ \A k \in 1..(n - 1) : Front(fs)[k] = fs[k]
    BY <1>1, FrontFacts
  <1>4. /\ gs \in Seq(FrameType) /\ Len(gs) = n
        /\ \A k \in 1..(n - 1) : gs[k] = fs[k]
        /\ gs[n] = f
    <2> DEFINE q == Front(fs)
    <2> HIDE DEF q
    <2>1. q \in Seq(FrameType) /\ f \in FrameType /\ gs = Append(q, f)
      BY <1>3 DEF q
    <2>2. /\ gs \in Seq(FrameType) /\ Len(gs) = Len(q) + 1
          /\ \A k \in 1..Len(q) : gs[k] = q[k]
          /\ gs[Len(q) + 1] = f
      BY ONLY <2>1, AppendTyped
    <2>3. Len(q) = n - 1 /\ Len(q) + 1 = n
      BY <1>1, <1>3 DEF q
    <2> QED BY <1>3, <2>2, <2>3 DEF q
  <1>5. bs[n] \in ContextType
    BY <1>1
  <1>6. /\ b \in ContextType /\ b.kind = "else" /\ b.entry = bs[n].entry
        /\ b.arity = bs[n].arity /\ b.results = bs[n].results
    BY <1>5 DEF ContextType
  <1>7. cs = [bs EXCEPT ![n] = b]
    BY <1>1
  <1> HIDE DEF b
  <1>8. /\ cs \in Seq(ContextType) /\ Len(cs) = n /\ cs[n] = b
        /\ \A k \in 1..n : k # n => cs[k] = bs[k]
    <2>1. bs \in Seq(ContextType) /\ n \in 1..Len(bs) /\ b \in ContextType
      BY <1>1, <1>6
    <2> HIDE DEF n
    <2>2. /\ cs \in Seq(ContextType) /\ Len(cs) = Len(bs) /\ cs[n] = b
          /\ \A k \in 1..Len(bs) : k # n => cs[k] = bs[k]
      BY ONLY <1>7, <2>1, ExceptFacts
    <2> QED BY <1>1, <2>2
  <1> HIDE DEF n
  <1>9. Nested(fs, bs)
    BY ShapedIsNested
  <1>10. \A k \in 1..n : gs[k].value_height = fs[k].value_height /\ gs[k].end_types = fs[k].end_types
    <2>1. ASSUME NEW k \in 1..n
          PROVE  gs[k].value_height = fs[k].value_height /\ gs[k].end_types = fs[k].end_types
      <3>1. CASE k = n
        BY <1>4, <3>1 DEF n
      <3>2. CASE k # n
        <4>1. k \in 1..(n - 1)
          BY <1>1, <3>2
        <4> QED BY <1>4, <4>1
      <3> QED BY <3>1, <3>2
    <2> QED BY <2>1
  <1>11. ASSUME NEW k \in 1..n
         PROVE  Matches(gs[k], cs[k]) /\ (cs[k].kind = "function" <=> k = 1)
    <2>1. Matches(fs[k], bs[k]) /\ (bs[k].kind = "function" <=> k = 1)
      BY <1>9 DEF Nested, n
    <2>2. CASE k = n
      <3>1. fs[n].is_loop = FALSE
        <4>1. \A j \in 1..Len(fs) : /\ fs[j].is_loop \in BOOLEAN
                                    /\ fs[j].is_loop = TRUE <=> bs[j].kind = "loop"
          BY FrameFacts
        <4>2. n \in 1..Len(fs) /\ bs[n].kind = "then"
          BY <1>1 DEF n
        <4> QED BY <4>1, <4>2
      <3>2. LabelTypes(f) = LabelTypes(fs[n])
        BY <3>1 DEF LabelTypes, n
      <3>3. Matches(f, b)
        <4>1. bs[n].results = Len(fs[n].end_types) /\ bs[n].arity = Len(LabelTypes(fs[n]))
          BY <2>1, <2>2 DEF Matches
        <4>2. f.end_types = fs[n].end_types
          BY DEF n
        <4>3. b.results = Len(f.end_types) /\ b.arity = Len(LabelTypes(f))
          BY <1>6, <3>2, <4>1, <4>2
        <4>4. f.is_loop # TRUE /\ b.kind # "loop"
          BY <1>6
        <4> QED BY <4>3, <4>4 DEF Matches
      <3>4. gs[k] = f /\ cs[k] = b /\ b.kind # "function" /\ k # 1
        BY <1>2, <1>4, <1>6, <1>8, <2>2
      <3> QED BY <3>3, <3>4
    <2>3. CASE k # n
      <3>1. k \in 1..(n - 1)
        BY <1>1, <2>3
      <3> QED BY <1>4, <1>8, <2>1, <2>3, <3>1
    <2> QED BY <2>2, <2>3
  <1>12. \A j, k \in 1..n : j <= k => gs[j].value_height <= gs[k].value_height
    <2>1. \A j, k \in 1..n : j <= k => fs[j].value_height <= fs[k].value_height
      BY <1>9 DEF Nested, n
    <2> QED BY ONLY <1>10, <2>1
  <1>13. gs[1].value_height = 0 /\ gs[1].end_types = Signature.results
    <2>1. 1 \in 1..n
      BY <1>1
    <2> QED BY <1>9, <1>10, <2>1 DEF Nested
  <1>14. Nested(gs, cs)
    BY <1>4, <1>11, <1>12, <1>13 DEF Nested
  <1>15. gs[Len(gs)].value_height <= Len(ws)
    BY <1>1, <1>4, <1>10 DEF n
  <1>16. Shaped(ws, gs, cs, g)
    BY <1>4, <1>8, <1>14, <1>15, ShapedAgain
  <1>17. \A k \in 1..(n - 1) : cs[k] = bs[k]
    BY <1>1, <1>8
  <1> QED BY <1>2, <1>4, <1>6, <1>8, <1>16, <1>17 DEF n

\* The function is over.
LEMMA ShapeNone ==
  ASSUME NEW g \in Int
  PROVE  Shaped(<<>>, <<>>, <<>>, g)
  <1>1. <<>> \in Seq(OperandTypes) /\ Len(<<>>) = 0 /\ <<>> \in Seq(FrameType) /\ <<>> \in Seq(ContextType)
    OBVIOUS
  <1>2. 0 <= MaxVals
    BY BodyAssumption
  <1>3. Nested(<<>>, <<>>)
    BY DEF Nested
  <1> QED BY <1>1, <1>2, <1>3, ShapedAgain

\* An execution that is elsewhere stays where it is while the frame it is in,
\* and those around it, stay as they are.
Stays(vs, fs, bs, ws, gs, cs, r) ==
  /\ Len(fs) \in Nat /\ Len(gs) \in Nat /\ r.to <= Len(gs)
  /\ SubSeq(ws, 1, fs[r.to].value_height) = SubSeq(vs, 1, fs[r.to].value_height)
  /\ \A k \in 1..r.to : gs[k].value_height = fs[k].value_height /\ cs[k].entry = bs[k].entry
  /\ \A k \in 1..(r.to - 1) : gs[k].unreachable = fs[k].unreachable
  /\ gs[r.to].start_types = fs[r.to].start_types /\ gs[r.to].end_types = fs[r.to].end_types
  /\ r.mode = "to else" => cs[r.to].kind = bs[r.to].kind /\ cs[r.to].saved = bs[r.to].saved

LEMMA SkipsOn ==
  ASSUME NEW vs, NEW fs, NEW bs, NEW r, Skips(vs, fs, bs, r),
         NEW ws, NEW gs, NEW cs, Stays(vs, fs, bs, ws, gs, cs, r)
  PROVE  Skips(ws, gs, cs, r)
  <1>6. /\ Len(fs) \in Nat /\ Len(gs) \in Nat /\ r.to <= Len(gs)
        /\ SubSeq(ws, 1, fs[r.to].value_height) = SubSeq(vs, 1, fs[r.to].value_height)
        /\ \A k \in 1..r.to : gs[k].value_height = fs[k].value_height /\ cs[k].entry = bs[k].entry
        /\ \A k \in 1..(r.to - 1) : gs[k].unreachable = fs[k].unreachable
        /\ gs[r.to].start_types = fs[r.to].start_types /\ gs[r.to].end_types = fs[r.to].end_types
        /\ r.mode = "to else" => cs[r.to].kind = bs[r.to].kind /\ cs[r.to].saved = bs[r.to].saved
    BY DEF Stays
  <1>1. /\ r.to \in 2..Len(fs) /\ Entered(fs, bs, r.to) /\ Reached(fs, r.to - 1)
        /\ \/ r.mode = "to end" /\ Holds(r.stack, Left(vs, fs[r.to], fs[r.to].end_types))
           \/ /\ r.mode = "to else" /\ Holds(r.stack, Left(vs, fs[r.to], fs[r.to].start_types))
              /\ bs[r.to].kind = "then"
              /\ bs[r.to].saved = Params + fs[r.to].value_height + Len(fs[r.to].start_types)
    BY DEF Skips
  <1>2. r.to \in 2..Len(gs) /\ r.to \in 1..r.to
    <2>1. PICK n : n = r.to
      OBVIOUS
    <2>2. n \in 2..Len(fs)
      BY <1>1, <2>1
    <2>4. n <= Len(gs)
      BY <1>6, <2>1
    <2>5. Len(fs) \in Nat /\ Len(gs) \in Nat
      BY <1>6
    <2>3. n \in 2..Len(gs) /\ n \in 1..n
      BY ONLY <2>2, <2>4, <2>5
    <2> QED BY <2>1, <2>3
  <1>3. Entered(gs, cs, r.to) /\ Reached(gs, r.to - 1)
    <2>1. Entered(gs, cs, r.to)
      <3>1. \A k \in 1..r.to : bs[k].entry = Params + fs[k].value_height
        BY <1>1 DEF Entered
      <3> QED BY <1>6, <3>1 DEF Entered
    <2>2. Reached(gs, r.to - 1)
      <3>1. \A k \in 1..(r.to - 1) : fs[k].unreachable = FALSE
        BY <1>1 DEF Reached
      <3> QED BY <1>6, <3>1 DEF Reached
    <2> QED BY <2>1, <2>2
  <1>4. gs[r.to].value_height = fs[r.to].value_height
    BY <1>2, <1>6
  <1>5. /\ Left(ws, gs[r.to], gs[r.to].end_types) = Left(vs, fs[r.to], fs[r.to].end_types)
        /\ Left(ws, gs[r.to], gs[r.to].start_types) = Left(vs, fs[r.to], fs[r.to].start_types)
    BY <1>4, <1>6 DEF Left
  <1> QED BY <1>1, <1>2, <1>3, <1>4, <1>5, <1>6 DEF Skips

----------------------------------------------------------------------------
(***************************************************************************)
(* Steps that leave the frames as they are.                                *)
(***************************************************************************)
LEMMA ShiftFacts ==
  ASSUME Shape, NEW d \in Int, Shift(d)
  PROVE  height' \in Int /\ (~Dropped => height' = height + d)
  <1>1. height \in Int
    BY ShapedLengths DEF Shape
  <1> QED BY <1>1 DEF Shift

\* The operands after n are popped and ts pushed.
LEMMA ReplaceFacts ==
  ASSUME Shape, control # <<>>, NEW n \in Nat, NEW ts \in Seq(OperandTypes)
  PROVE  /\ Rest(n) \o ts \in Seq(OperandTypes)
         /\ Len(Rest(n) \o ts) = Len(Rest(n)) + Len(ts)
         /\ Top.value_height <= Len(Rest(n) \o ts)
         /\ Around(vals, Rest(n) \o ts, Top)
  <1>1. /\ Rest(n) \in Seq(OperandTypes) /\ Len(Rest(n)) \in Nat
        /\ Top.value_height <= Len(Rest(n)) /\ Top.value_height \in Nat
        /\ \A m \in 0..Top.value_height : SubSeq(Rest(n), 1, m) = SubSeq(vals, 1, m)
    BY RestFacts, TopFrame
  <1> DEFINE x == Rest(n)
             w == x \o ts
  <1> HIDE DEF x
  <1>2. w \in Seq(OperandTypes) /\ Len(w) = Len(x) + Len(ts) /\ Len(x) \in Nat /\ Len(ts) \in Nat
    BY <1>1, ConcatFacts DEF x
  <1>3. ASSUME NEW m \in 0..Top.value_height PROVE SubSeq(w, 1, m) = SubSeq(vals, 1, m)
    <2>1. m \in 0..Len(x)
      BY <1>1 DEF x
    <2>2. SubSeq(w, 1, m) = SubSeq(x, 1, m)
      BY <1>1, <2>1, PrefixConcat DEF x
    <2> QED BY <1>1, <2>2 DEF x
  <1> HIDE DEF w
  <1>4. Top.value_height <= Len(w)
    BY <1>1, <1>2 DEF x
  <1>5. Around(vals, w, Top)
    BY <1>3 DEF Around
  <1> QED BY <1>2, <1>4, <1>5 DEF w, x

LEMMA DeadFacts ==
  ASSUME IInv, ~Live
  PROVE  run = Gone \/ Skips(vals, control, blocks, run)
  BY DEF IInv, Follows, Lives, Live

\* The frame an execution skips to is the innermost or around it.
LEMMA SkipsWithin ==
  ASSUME Shape, NEW r, Skips(vals, control, blocks, r)
  PROVE  /\ r.to \in 2..Depth /\ r.to \in 1..Depth /\ Depth \in Nat /\ control # <<>>
         /\ control[r.to].value_height \in 0..Top.value_height
  <1>1. r.to \in 2..Len(control)
    BY DEF Skips
  <1>2. Len(control) \in Nat /\ (control # <<>> <=> Len(control) > 0)
    BY ShapedLengths DEF Shape
  <1>3. control # <<>>
    BY <1>1, <1>2
  <1>4. Depth = Len(control) /\ Depth \in 1..Depth /\ Top = control[Depth] /\ Top.value_height \in Nat
    BY <1>3, TopFrame
  <1>5. PICK n : n = r.to
    OBVIOUS
  <1>6. n \in 2..Depth /\ n \in 1..Depth /\ n <= Depth
    BY <1>1, <1>2, <1>4, <1>5
  <1>7. \A j, k \in 1..Len(control) : j <= k => control[j].value_height <= control[k].value_height
    BY DEF Shape, Shaped
  <1>8. control[n].value_height <= control[Depth].value_height
    BY <1>4, <1>6, <1>7
  <1>9. \A k \in 1..Len(control) : control[k].value_height \in Nat
    BY FrameFacts DEF Shape
  <1> QED BY <1>2, <1>3, <1>4, <1>5, <1>6, <1>8, <1>9

LEMMA DeadReplace ==
  ASSUME IInv, control # <<>>, ~Live, NEW n \in Nat, NEW ts \in Seq(OperandTypes),
         vals' = Rest(n) \o ts, Len(vals') <= MaxVals, height' \in Int,
         UNCHANGED <<control, blocks, rvars, uses>>
  PROVE  IInv'
  <1>1. Shape /\ Shaped(vals, control, blocks, height) /\ fault = "none" /\ uses \in Repertoires
    BY DEF IInv, Shape
  <1>2. /\ vals' \in Seq(OperandTypes) /\ Top.value_height <= Len(vals') /\ Around(vals, vals', Top)
    BY <1>1, ReplaceFacts
  <1>3. Top = control[Len(control)]
    BY <1>1, TopFrame
  <1>4. Shaped(vals', control, blocks, height')
    BY <1>1, <1>2, <1>3, ShapeReplace
  <1>5. run = Gone \/ Skips(vals, control, blocks, run)
    BY DeadFacts
  <1>6. ASSUME Skips(vals, control, blocks, run) PROVE Skips(vals', control, blocks, run)
    <2>1. /\ run.to \in 2..Depth /\ run.to \in 1..Depth /\ Depth \in Nat
          /\ control[run.to].value_height \in 0..Top.value_height
      BY <1>1, <1>6, SkipsWithin
    <2>2. Depth = Len(control)
      BY DEF Depth
    <2>3. SubSeq(vals', 1, control[run.to].value_height) = SubSeq(vals, 1, control[run.to].value_height)
      BY <1>2, <2>1 DEF Around
    <2>4. run.to <= Len(control)
      BY <2>1, <2>2
    <2>5. Stays(vals, control, blocks, vals', control, blocks, run)
      BY <2>1, <2>2, <2>3, <2>4 DEF Stays
    <2> QED BY <1>6, <2>5, SkipsOn
  <1>7. Follows(vals', control, blocks, height', run)
    BY <1>5, <1>6 DEF Follows
  <1> QED BY <1>1, <1>4, <1>7 DEF IInv, rvars

LEMMA LiveIsAlive ==
  ASSUME IInv, Live
  PROVE  Alive
  <1>1. Gone.mode = "gone"
    BY DEF Gone
  <1> QED BY <1>1 DEF IInv, Follows, Skips, Live, Alive, Shape

LEMMA LiveReplace ==
  ASSUME IInv, Live, NEW n \in Nat, n <= Own, NEW ts \in Seq(ValueTypes),
         vals' = Rest(n) \o ts, Len(vals') <= MaxVals, height' = height + Len(ts) - n,
         UNCHANGED <<control, blocks, fault, uses>>,
         \/ run' = Gone
         \/ run'.mode = "live" /\ Holds(run'.stack, vals')
         \/ Skips(vals', control, blocks, run')
  PROVE  IInv'
  <1>1. /\ Shape /\ Shaped(vals, control, blocks, height) /\ fault = "none" /\ uses \in Repertoires
        /\ Lives(vals, control, blocks, height, run) /\ Alive
    BY LiveIsAlive DEF IInv, Alive, Shape
  <1>2. /\ control # <<>> /\ height = Params + Len(vals) /\ Params \in Nat /\ Len(vals) \in Nat
    BY <1>1, LiveFacts
  <1>3. ts \in Seq(OperandTypes) /\ Len(ts) \in Nat
    <2>1. ValueTypes \subseteq OperandTypes
      BY DEF OperandTypes
    <2> QED BY <2>1
  <1>4. /\ vals' \in Seq(OperandTypes) /\ Top.value_height <= Len(vals')
        /\ Len(vals') = Len(Rest(n)) + Len(ts) /\ Len(Rest(n)) = Len(vals) - n
    BY <1>1, <1>2, <1>3, ReplaceFacts, RestFacts
  <1>5. height' = Params + Len(vals') /\ height' \in Int
    BY <1>2, <1>3, <1>4
  <1>6. Top = control[Len(control)]
    BY <1>1, <1>2, TopFrame
  <1>7. Shaped(vals', control, blocks, height')
    BY <1>1, <1>4, <1>5, <1>6, ShapeReplace
  <1>8. ASSUME run'.mode = "live", Holds(run'.stack, vals')
        PROVE  Lives(vals', control, blocks, height', run')
    BY <1>1, <1>5, <1>8 DEF Lives
  <1>9. Follows(vals', control, blocks, height', run')
    BY <1>8 DEF Follows
  <1> QED BY <1>1, <1>7, <1>9 DEF IInv

\* An op that finds what it takes.
LEMMA ExecuteLive ==
  ASSUME Alive, NEW op, NEW moves, NEW r \in Seq(ValueTypes),
         CanTake(op.takes), Len(op.takes) \in Nat, Len(op.takes) <= Own,
         \A m \in moves : Values(m[1]) \subseteq Values(m[2]),
         \A vs \in ValuesOf(op.gives) : Holds(vs, r),
         Execute(op, moves)
  PROVE  /\ UNCHANGED fault /\ run'.mode = "live"
         /\ Holds(run'.stack, Rest(Len(op.takes)) \o r)
  <1> DEFINE n == Len(op.takes)
  <1>1. Live /\ Shape /\ control # <<>> /\ Holds(Stack, vals) /\ Len(vals) \in Nat
    BY LiveFacts
  <1>2. PICK vs \in ValuesOf(op.gives) : Proceed(LiveOn(Under(Stack, n) \o vs))
    BY <1>1 DEF Execute
  <1>3. Rest(n) = Under(vals, n) /\ Own = Len(vals) - Top.value_height /\ Top.value_height \in Nat
    BY <1>1, RestFacts, TopFrame
  <1>4. n \in 0..Len(vals)
    BY <1>1, <1>3
  <1>5. Holds(Under(Stack, n), Rest(n))
    BY <1>1, <1>3, <1>4, HoldsUnder
  <1>6. Holds(Under(Stack, n) \o vs, Rest(n) \o r)
    BY <1>5, HoldsConcat
  <1>7. /\ run' = LiveOn(Under(Stack, n) \o vs) /\ UNCHANGED fault
    BY <1>2 DEF Proceed
  <1>8. run'.mode = "live" /\ run'.stack = Under(Stack, n) \o vs
    BY <1>7 DEF LiveOn
  <1> QED BY <1>6, <1>7, <1>8

LEMMA PlainKeeps ==
  ASSUME DefaultsFit, IInv, control # <<>>, Plain, Len(vals') <= MaxVals, UNCHANGED uses
  PROVE  IInv'
  <1>1. uses \in Repertoires /\ Shape
    BY DEF IInv, Shape
  <1>2. PICK i \in Usable[uses] :
          /\ CanPop(Validated[i].params)
          /\ vals' = Rest(Len(Validated[i].params)) \o Validated[i].results
          /\ Shift(Lowered(i)) /\ Execute(Executed(i), Moves(i)) /\ UNCHANGED <<control, blocks>>
    BY DEF Plain
  <1>3. i \in DOMAIN Validated
    BY <1>1, <1>2 DEF Usable
  <1> DEFINE p == Validated[i].params
             r == Validated[i].results
  <1>4. /\ p \in Seq(ValueTypes) /\ r \in Seq(ValueTypes) /\ Executed(i).takes = p
        /\ \A vs \in ValuesOf(Executed(i).gives) : Holds(vs, r)
        /\ Lowered(i) = Len(r) - Len(p)
        /\ \A m \in Moves(i) : Values(m[1]) \subseteq Values(m[2])
    BY <1>3, ValidatedAgrees DEF Agrees
  <1> HIDE DEF p, r
  <1>5. Len(p) \in Nat /\ Len(r) \in Nat /\ r \in Seq(OperandTypes)
    <2>1. ValueTypes \subseteq OperandTypes
      BY DEF OperandTypes
    <2> QED BY <1>4, <2>1
  <1>6. Lowered(i) \in Int
    BY <1>4, <1>5
  <1>7. height' \in Int /\ (~Dropped => height' = height + Lowered(i))
    BY <1>1, <1>2, <1>6, ShiftFacts
  <1>8. CASE ~Live
    <2>1. UNCHANGED <<control, blocks, rvars, uses>>
      BY <1>2, <1>8 DEF Execute
    <2> QED BY <1>2, <1>5, <1>7, <1>8, <2>1, DeadReplace DEF p, r
  <1>9. CASE Live
    <2>1. Alive
      BY <1>9, LiveIsAlive
    <2>2. Len(p) <= Own /\ CanTake(p)
      BY <1>2, <1>4, <2>1, LivePops DEF p
    <2>3. UNCHANGED fault /\ run'.mode = "live" /\ Holds(run'.stack, Rest(Len(p)) \o r)
      BY <1>2, <1>4, <1>5, <2>1, <2>2, ExecuteLive
    <2>4. vals' = Rest(Len(p)) \o r
      BY <1>2 DEF p, r
    <2>5. ~Dropped /\ height \in Int
      BY <2>1, LiveFacts
    <2>6. height' = height + Len(r) - Len(p)
      BY <1>4, <1>5, <1>7, <2>5
    <2> QED BY <1>2, <1>4, <1>5, <1>9, <2>2, <2>3, <2>4, <2>6, LiveReplace
  <1> QED BY <1>8, <1>9

\* Operands popped without an expected type.
LEMMA LiveOperands ==
  ASSUME Alive, NEW n \in Nat, Has(n)
  PROVE  /\ n <= Own
         /\ \A k \in 1..n : /\ Operand(k) = vals[Len(vals) - k + 1] /\ Operand(k) \in ValueTypes
                            /\ Operand(k) # Bot
                            /\ Stack[Len(Stack) - k + 1] \in Value
                            /\ Fits(Stack[Len(Stack) - k + 1], Operand(k))
  <1>1. /\ control # <<>> /\ Shape /\ Top.unreachable = FALSE /\ Holds(Stack, vals)
        /\ vals \in Seq(ValueTypes) /\ Len(Stack) = Len(vals) /\ Len(vals) \in Nat
        /\ Stack \in Seq(Value)
    BY LiveFacts
  <1>2. /\ Own = Len(vals) - Top.value_height /\ Own \in Nat /\ Top.value_height \in Nat
    BY <1>1, TopFrame
  <1>3. n <= Own
    BY <1>1 DEF Has
  <1>4. ASSUME NEW k \in 1..n
        PROVE  /\ Operand(k) = vals[Len(vals) - k + 1] /\ Operand(k) \in ValueTypes
               /\ Operand(k) # Bot
               /\ Stack[Len(Stack) - k + 1] \in Value
               /\ Fits(Stack[Len(Stack) - k + 1], Operand(k))
    <2>1. PICK q : q = Len(vals) - k + 1
      OBVIOUS
    <2>2. q \in 1..Len(vals) /\ k <= Own
      BY <1>1, <1>2, <1>3, <2>1
    <2>3. Operand(k) = vals[q]
      BY <2>1, <2>2 DEF Operand
    <2>4. vals[q] \in ValueTypes /\ Stack[q] \in Value
      BY <1>1, <2>2
    <2>5. Fits(Stack[q], vals[q])
      BY <1>1, <2>2 DEF Holds
    <2>6. vals[q] # Bot
      BY <2>4, ValueTypesApart
    <2>7. q = Len(Stack) - k + 1
      BY <1>1, <2>1
    <2> QED BY <2>1, <2>3, <2>4, <2>5, <2>6, <2>7
  <1> QED BY <1>3, <1>4

LEMMA TakesOne ==
  ASSUME Alive, Has(1), NEW t, Fits(Stack[Len(Stack)], t)
  PROVE  /\ CanTake(<<t>>) /\ Len(<<t>>) = 1 /\ 1 <= Own /\ Len(Stack) > 0 /\ Len(Stack) \in Nat
         /\ Stack \in Seq(Value) /\ TopOf(Stack, 1) = <<Stack[Len(Stack)]>>
  <1>1. 1 <= Own
    BY LiveOperands
  <1>2. /\ Stack \in Seq(Value) /\ Len(Stack) = Len(vals) /\ Len(vals) \in Nat /\ Shape /\ control # <<>>
    BY LiveFacts
  <1>3. Own = Len(vals) - Top.value_height /\ Top.value_height \in Nat
    BY <1>2, TopFrame
  <1>4. 1 \in 0..Len(Stack) /\ Len(Stack) > 0
    BY <1>1, <1>2, <1>3
  <1>5. /\ TopOf(Stack, 1) \in Seq(Value) /\ Len(TopOf(Stack, 1)) = 1
        /\ TopOf(Stack, 1)[1] = Stack[Len(Stack) - 1 + 1]
    <2>1. \A k \in 1..1 : TopOf(Stack, 1)[k] = Stack[Len(Stack) - 1 + k]
      BY <1>2, <1>4, TopFacts
    <2>2. TopOf(Stack, 1) \in Seq(Value) /\ Len(TopOf(Stack, 1)) = 1
      BY <1>2, <1>4, TopFacts
    <2>3. 1 \in 1..1
      OBVIOUS
    <2> QED BY <2>1, <2>2, <2>3
  <1>6. Len(Stack) - 1 + 1 = Len(Stack)
    BY <1>2
  <1> DEFINE v == Stack[Len(Stack)]
             top == TopOf(Stack, 1)
  <1> HIDE DEF v, top
  <1>7. top \in Seq(Value) /\ Len(top) = 1 /\ top[1] = v
    BY <1>5, <1>6 DEF top, v
  <1>8. top = <<v>>
    BY <1>7
  <1>9. FitAll(<<v>>, <<t>>)
    BY DEF FitAll, v
  <1>10. CanTake(<<t>>)
    BY <1>4, <1>8, <1>9 DEF CanTake, top
  <1> QED BY <1>1, <1>2, <1>4, <1>8, <1>10 DEF top, v

LEMMA OneOperand ==
  ASSUME NEW t \in OperandTypes
  PROVE  <<t>> \in Seq(OperandTypes) /\ Len(<<t>>) = 1 /\ <<>> \in Seq(OperandTypes) /\ Len(<<>>) = 0
  OBVIOUS

LEMMA OpFields ==
  ASSUME NEW p, NEW r
  PROVE  Op(p, r).takes = p /\ Op(p, r).gives = r
  BY DEF Op

\* An operand of a reference type is decoded by as_ref.
LEMMA TakesReference ==
  ASSUME Alive, Has(1), Operand(1) = Bot \/ Operand(1).ref
  PROVE  /\ CanTake(<<AnyRef>>) /\ 1 <= Own /\ Len(Stack) > 0 /\ Len(Stack) \in Nat
         /\ Operand(1) \in ValueTypes /\ Operand(1).ref = TRUE /\ Operand(1) # Bot
         /\ Stack[Len(Stack)] \in Value /\ Fits(Stack[Len(Stack)], Operand(1))
         /\ Stack \in Seq(Value) /\ TopOf(Stack, 1) = <<Stack[Len(Stack)]>>
  <1> DEFINE v == Stack[Len(Stack)]
             t == Operand(1)
  <1>1. t \in ValueTypes /\ t # Bot /\ v \in Value /\ Fits(v, t)
    <2>1. /\ 1 <= Own
          /\ \A k \in 1..1 : /\ Operand(k) \in ValueTypes /\ Operand(k) # Bot
                             /\ Stack[Len(Stack) - k + 1] \in Value
                             /\ Fits(Stack[Len(Stack) - k + 1], Operand(k))
      BY LiveOperands
    <2>2. 1 \in 1..1 /\ Len(Stack) - 1 + 1 = Len(Stack)
      BY LiveFacts
    <2> QED BY <2>1, <2>2
  <1>2. t.ref = TRUE
    BY <1>1, ValueTypeKinds
  <1>3. v.ref = TRUE
    BY <1>1, <1>2, FitsRef
  <1>4. AnyRef.ref = TRUE
    BY RefFields DEF AnyRef
  <1>5. Fits(v, AnyRef)
    BY <1>3, <1>4 DEF Fits
  <1>6. /\ CanTake(<<AnyRef>>) /\ 1 <= Own /\ Len(Stack) > 0 /\ Len(Stack) \in Nat
        /\ Stack \in Seq(Value) /\ TopOf(Stack, 1) = <<Stack[Len(Stack)]>>
    BY <1>5, TakesOne
  <1> QED BY <1>1, <1>2, <1>6

\* An instruction with a rule of its own: its op finds what it takes, and gives
\* what the validator pushes.
LEMMA OpKeeps ==
  ASSUME IInv, control # <<>>, Len(vals') <= MaxVals, UNCHANGED <<control, blocks, uses>>,
         NEW takes, NEW n \in Nat, Len(takes) = n,
         NEW gives \in Seq(ValueTypes), NEW ts \in Seq(OperandTypes),
         vals' = Rest(n) \o ts, NEW d \in Int, d = Len(ts) - n, Shift(d),
         Execute(Op(takes, gives), {}),
         Alive => CanTake(takes) /\ n <= Own /\ ts = gives
  PROVE  IInv'
  <1>1. Shape
    BY DEF IInv, Shape
  <1>2. height' \in Int /\ (~Dropped => height' = height + d)
    BY <1>1, ShiftFacts
  <1>3. CASE ~Live
    <2>1. UNCHANGED <<control, blocks, rvars, uses>>
      BY <1>3 DEF Execute
    <2> QED BY <1>2, <1>3, <2>1, DeadReplace
  <1>4. CASE Live
    <2>1. Alive
      BY <1>4, LiveIsAlive
    <2> DEFINE op == Op(takes, gives)
    <2>2. op.takes = takes /\ op.gives = gives
      BY OpFields
    <2> HIDE DEF op
    <2>3. \A vs \in ValuesOf(op.gives) : Holds(vs, gives)
      BY <2>2, ValuesHold
    <2>4. CanTake(op.takes) /\ Len(op.takes) = n /\ n <= Own /\ ts = gives
      BY <2>1, <2>2
    <2>5. Execute(op, {})
      BY DEF op
    <2>6. UNCHANGED fault /\ run'.mode = "live" /\ Holds(run'.stack, Rest(n) \o gives)
      BY <2>1, <2>3, <2>4, <2>5, ExecuteLive
    <2>7. ~Dropped /\ height \in Int
      BY <2>1, LiveFacts
    <2>8. height' = height + Len(gives) - n
      BY <1>2, <2>4, <2>7
    <2> QED BY <1>4, <2>4, <2>6, <2>8, LiveReplace
  <1> QED BY <1>3, <1>4

LEMMA DropOneKeeps ==
  ASSUME IInv, control # <<>>, DropOne, Len(vals') <= MaxVals, UNCHANGED uses
  PROVE  IInv'
  <1>1. /\ Has(1) /\ vals' = Rest(1) \o <<>> /\ UNCHANGED control /\ Shift(-1) /\ UNCHANGED blocks
        /\ Execute(Op(<<Anything>>, <<>>), {})
    BY DEF DropOne, Replace
  <1>2. /\ <<>> \in Seq(OperandTypes) /\ <<>> \in Seq(ValueTypes) /\ -1 = Len(<<>>) - 1
        /\ Len(<<Anything>>) = 1 /\ 1 \in Nat /\ -1 \in Int
    OBVIOUS
  <1>3. ASSUME Alive PROVE CanTake(<<Anything>>) /\ 1 <= Own
    <2>1. Fits(Stack[Len(Stack)], Anything)
      BY DEF Fits
    <2> QED BY <1>1, <1>3, <2>1, TakesOne
  <1>4. UNCHANGED <<control, blocks, uses>>
    BY <1>1
  <1> QED BY <1>1, <1>2, <1>3, <1>4, OpKeeps

LEMMA SelectKeeps ==
  ASSUME IInv, control # <<>>, Len(vals') <= MaxVals, UNCHANGED <<control, blocks, uses>>,
         NEW t \in OperandTypes, vals' = Rest(3) \o <<t>>, Shift(-2),
         Execute(Op(<<t, t, I32>>, <<t>>), {}),
         Alive => t \in ValueTypes /\ CanPop(<<t, t, I32>>)
  PROVE  IInv'
  <1>1. Shape
    BY DEF IInv, Shape
  <1>2. /\ <<t>> \in Seq(OperandTypes) /\ -2 = Len(<<t>>) - 3 /\ Len(<<t, t, I32>>) = 3
        /\ 3 \in Nat /\ -2 \in Int
    OBVIOUS
  <1>3. ASSUME Alive PROVE CanTake(<<t, t, I32>>) /\ 3 <= Own /\ <<t>> \in Seq(ValueTypes)
    <2>1. <<t, t, I32>> \in Seq(ValueTypes) /\ <<t>> \in Seq(ValueTypes)
      BY <1>3, NumTypes, ShortSequences
    <2> QED BY <1>2, <1>3, <2>1, LivePops
  <1>4. CASE ~Live
    <2>1. UNCHANGED <<control, blocks, rvars, uses>>
      BY <1>4 DEF Execute
    <2>2. height' \in Int
      BY <1>1, ShiftFacts
    <2> QED BY <1>2, <1>4, <2>1, <2>2, DeadReplace
  <1>5. CASE Live
    <2>1. Alive
      BY <1>5, LiveIsAlive
    <2> QED BY <1>2, <1>3, <2>1, OpKeeps
  <1> QED BY <1>4, <1>5

LEMMA SelectTypedKeeps ==
  ASSUME IInv, control # <<>>, SelectTyped, Len(vals') <= MaxVals, UNCHANGED uses
  PROVE  IInv'
  <1>1. PICK t \in {NumType(n) : n \in Num} \cup {FuncRef} :
          /\ CanPop(<<t, t, I32>>) /\ vals' = Rest(3) \o <<t>> /\ UNCHANGED control
          /\ Shift(-2) /\ UNCHANGED blocks
          /\ Execute(Op(<<t, t, I32>>, <<t>>), {})
    BY DEF SelectTyped, Replace
  <1>2. FuncRef \in ValueTypes
    <2>1. TRUE \in BOOLEAN /\ "func" \in Heaps
      BY DEF Heaps, AbstractHeaps
    <2> QED BY <2>1, RefTypesBuilt DEF FuncRef
  <1>3. t \in ValueTypes /\ t \in OperandTypes
    BY <1>1, <1>2, NumTypes DEF OperandTypes
  <1> QED BY <1>1, <1>3, SelectKeeps

LEMMA OperandTyped ==
  ASSUME Shape, control # <<>>, NEW k \in Nat, k > 0
  PROVE  Operand(k) \in OperandTypes
  <1>1. vals \in Seq(OperandTypes) /\ Own = Len(vals) - Top.value_height /\ Top.value_height \in Nat /\ Len(vals) \in Nat
    BY ShapedLengths, TopFrame DEF Shape
  <1>2. CASE k <= Own
    <2>1. PICK q : q = Len(vals) - k + 1
      OBVIOUS
    <2>2. q \in 1..Len(vals)
      BY <1>1, <1>2, <2>1
    <2>3. vals[q] \in OperandTypes
      BY <1>1, <2>2
    <2> QED BY <1>2, <2>1, <2>3 DEF Operand
  <1>3. CASE ~(k <= Own)
    BY <1>3 DEF Operand, OperandTypes
  <1> QED BY <1>2, <1>3

LEMMA SelectUntypedKeeps ==
  ASSUME IInv, control # <<>>, SelectUntyped, Len(vals') <= MaxVals, UNCHANGED uses
  PROVE  IInv'
  <1> DEFINE t == IF Operand(2) = Bot THEN Operand(3) ELSE Operand(2)
  <1>1. /\ Has(3) /\ (Operand(1) = Bot \/ Operand(1) = I32)
        /\ ~Operand(2).ref /\ ~Operand(3).ref
        /\ Operand(2) = Operand(3) \/ Bot \in {Operand(2), Operand(3)}
        /\ vals' = Rest(3) \o <<t>> /\ UNCHANGED control
        /\ Execute(Op(<<t, t, I32>>, <<t>>), {})
        /\ Shift(-2) /\ UNCHANGED blocks
    BY DEF SelectUntyped, Replace
  <1>2. Shape
    BY DEF IInv, Shape
  <1>3. t \in OperandTypes
    BY <1>2, OperandTyped
  <1>4. ASSUME Alive PROVE t \in ValueTypes /\ CanPop(<<t, t, I32>>)
    <2>1. /\ 3 <= Own
          /\ \A k \in 1..3 : /\ Operand(k) = vals[Len(vals) - k + 1] /\ Operand(k) \in ValueTypes
                             /\ Operand(k) # Bot
      BY <1>1, <1>4, LiveOperands
    <2>2. 1 \in 1..3 /\ 2 \in 1..3 /\ 3 \in 1..3
      OBVIOUS
    <2>3. Operand(1) = I32 /\ Operand(2) = t /\ Operand(3) = t /\ t \in ValueTypes /\ t.ref = FALSE
      BY <1>1, <2>1, <2>2, ValueTypeKinds
    <2>4. I32.ref = FALSE
      BY NumFields DEF I32
    <2> DEFINE e == <<t, t, I32>>
    <2>5. Len(e) = 3 /\ e[1] = t /\ e[2] = t /\ e[3] = I32
      OBVIOUS
    <2> HIDE DEF t
    <2>6. ASSUME NEW k \in 1..3 PROVE value_subtype(vals[Len(vals) - k + 1], e[3 - k + 1])
      <3>1. value_subtype(t, t) /\ value_subtype(I32, I32)
        BY <2>3, <2>4 DEF value_subtype
      <3>2. e[3 - k + 1] = Operand(k)
        <4>1. k = 1 \/ k = 2 \/ k = 3
          OBVIOUS
        <4> HIDE DEF e
        <4> QED BY <2>3, <2>5, <4>1
      <3>3. Operand(k) = t \/ Operand(k) = I32
        <4>1. k = 1 \/ k = 2 \/ k = 3
          OBVIOUS
        <4> QED BY <2>3, <4>1
      <3>4. vals[Len(vals) - k + 1] = Operand(k)
        BY <2>1
      <3> HIDE DEF e
      <3> QED BY <3>1, <3>2, <3>3, <3>4
    <2> HIDE DEF e
    <2>7. Least(3, Own) = 3
      BY <1>2, <2>1, TopFrame DEF Least
    <2>8. CanPop(e)
      BY <2>1, <2>5, <2>6, <2>7 DEF CanPop
    <2> QED BY <2>3, <2>8 DEF e
  <1> HIDE DEF t
  <1> QED BY <1>1, <1>3, <1>4, SelectKeeps

LEMMA RefIsNullKeeps ==
  ASSUME IInv, control # <<>>, RefIsNull, Len(vals') <= MaxVals, UNCHANGED uses
  PROVE  IInv'
  <1>1. /\ Has(1) /\ (Operand(1) = Bot \/ Operand(1).ref)
        /\ vals' = Rest(1) \o <<I32>> /\ UNCHANGED control
        /\ Shift(0) /\ UNCHANGED blocks
        /\ Execute(Op(<<AnyRef>>, <<I32>>), {})
    BY DEF RefIsNull, Replace
  <1>2. /\ <<I32>> \in Seq(OperandTypes) /\ <<I32>> \in Seq(ValueTypes) /\ 0 = Len(<<I32>>) - 1
        /\ Len(<<AnyRef>>) = 1 /\ 1 \in Nat /\ 0 \in Int
    BY NumTypes, ShortSequences DEF OperandTypes
  <1>3. ASSUME Alive PROVE CanTake(<<AnyRef>>) /\ 1 <= Own
    BY <1>1, <1>3, TakesReference
  <1>4. UNCHANGED <<control, blocks, uses>>
    BY <1>1
  <1> QED BY <1>1, <1>2, <1>3, <1>4, OpKeeps

LEMMA NonNull ==
  ASSUME NEW t \in ValueTypes, t.ref = TRUE
  PROVE  /\ RefType(FALSE, t.heap) \in ValueTypes
         /\ \A v \in Value : Fits(v, t) /\ v # Null => Fits(v, RefType(FALSE, t.heap))
  <1> DEFINE u == RefType(FALSE, t.heap)
  <1>1. t.heap \in Heaps
    BY ValueTypeKinds
  <1>2. u \in ValueTypes /\ u.ref = TRUE /\ u.heap = t.heap
    BY <1>1, RefTypesBuilt, RefFields
  <1> HIDE DEF u
  <1>3. ASSUME NEW v \in Value, Fits(v, t), v # Null PROVE Fits(v, u)
    <2>1. v.ref = TRUE /\ Admits(t.heap, v.heap)
      BY <1>3, FitsRef
    <2> QED BY <1>2, <1>3, <2>1, FitsRef
  <1> QED BY <1>2, <1>3 DEF u

LEMMA RefAsNonNullKeeps ==
  ASSUME IInv, control # <<>>, RefAsNonNull, Len(vals') <= MaxVals, UNCHANGED uses
  PROVE  IInv'
  <1> DEFINE t == Operand(1)
             u == IF t = Bot THEN Bot ELSE RefType(FALSE, t.heap)
             v == Stack[Len(Stack)]
  <1>1. /\ Has(1) /\ (t = Bot \/ t.ref)
        /\ vals' = Rest(1) \o <<u>> /\ UNCHANGED control /\ Shift(0) /\ UNCHANGED blocks
        /\ IF Live /\ CanTake(<<AnyRef>>)
           THEN Proceed(IF Last(Stack) = Null THEN Gone ELSE run)
           ELSE Execute(Op(<<AnyRef>>, <<>>), {})
    BY DEF RefAsNonNull, Replace
  <1>2. Shape
    BY DEF IInv, Shape
  <1>3. t \in OperandTypes
    BY <1>2, OperandTyped
  <1>4. u \in OperandTypes
    <2>1. CASE t = Bot
      BY <2>1 DEF OperandTypes
    <2>2. CASE t # Bot
      <3>1. t \in ValueTypes /\ t.ref = TRUE
        BY <1>1, <1>3, <2>2, ValueTypeKinds DEF OperandTypes
      <3>2. RefType(FALSE, t.heap) \in ValueTypes
        BY <3>1, NonNull
      <3> QED BY <2>2, <3>2 DEF OperandTypes
    <2> QED BY <2>1, <2>2
  <1>5. height' \in Int /\ (~Dropped => height' = height + 0)
    BY <1>1, <1>2, ShiftFacts
  <1>6. <<u>> \in Seq(OperandTypes) /\ Len(<<u>>) = 1
    BY <1>4, OneOperand
  <1>7. UNCHANGED <<control, blocks, uses>>
    BY <1>1
  <1>8. CASE ~Live
    <2>1. UNCHANGED <<control, blocks, rvars, uses>>
      BY <1>1, <1>8 DEF Execute
    <2> QED BY <1>1, <1>5, <1>6, <1>8, <2>1, DeadReplace
  <1>9. CASE Live
    <2>1. Alive
      BY <1>9, LiveIsAlive
    <2>2. /\ CanTake(<<AnyRef>>) /\ 1 <= Own /\ t \in ValueTypes /\ t.ref = TRUE /\ t # Bot
          /\ v \in Value /\ Fits(v, t) /\ TopOf(Stack, 1) = <<v>> /\ Last(Stack) = v
          /\ Len(Stack) > 0 /\ Len(Stack) \in Nat
      BY <1>1, <2>1, TakesReference DEF Last
    <2>3. UNCHANGED fault /\ run' = IF v = Null THEN Gone ELSE run
      BY <1>1, <1>9, <2>2 DEF Proceed
    <2>4. u \in ValueTypes /\ (v # Null => Fits(v, u))
      BY <2>2, NonNull
    <2>5. ~Dropped /\ height \in Int
      BY <2>1, LiveFacts
    <2> HIDE DEF u, t, v
    <2>6. <<u>> \in Seq(ValueTypes) /\ Len(<<u>>) = 1
      BY <2>4, ShortSequences
    <2>7. height' = height + Len(<<u>>) - 1
      BY <1>5, <2>5, <2>6
    <2>8. ASSUME v # Null PROVE Holds(Stack, Rest(1) \o <<u>>)
      <3>1. /\ Holds(Stack, vals) /\ Shape /\ control # <<>> /\ Len(Stack) = Len(vals)
            /\ Stack \in Seq(Value)
        BY <2>1, LiveFacts
      <3>2. 1 \in 0..Len(vals) /\ 1 \in 0..Len(Stack)
        BY <2>2, <3>1
      <3>3. Holds(Under(Stack, 1), Under(vals, 1))
        BY <3>1, <3>2, HoldsUnder
      <3>4. Under(vals, 1) = Rest(1)
        BY <2>2, <3>1, RestFacts
      <3>5. <<v>> \in Seq(Value) /\ Len(<<v>>) = 1
        BY <2>2, ShortSequences
      <3>6. Holds(<<v>>, <<u>>)
        BY <2>4, <2>6, <2>8, <3>5 DEF Holds
      <3>7. Stack = Under(Stack, 1) \o <<v>>
        BY <2>2, <3>1, <3>2, UnderTop
      <3>8. Holds(Under(Stack, 1) \o <<v>>, Rest(1) \o <<u>>)
        BY <3>3, <3>4, <3>6, HoldsConcat
      <3> QED BY <3>7, <3>8
    <2>9. run' = Gone \/ (run'.mode = "live" /\ Holds(run'.stack, vals'))
      BY <1>1, <1>9, <2>3, <2>8 DEF Live, Stack
    <2>10. UNCHANGED <<control, blocks, fault, uses>>
      BY <1>7, <2>3
    <2>11. 1 \in Nat
      OBVIOUS
    <2> QED BY <1>1, <1>9, <2>2, <2>6, <2>7, <2>9, <2>10, <2>11, LiveReplace
  <1> QED BY <1>8, <1>9

----------------------------------------------------------------------------
(***************************************************************************)
(* Steps control does not pass: the rest of the frame is unreachable.      *)
(***************************************************************************)
LEMMA MarkSkips ==
  ASSUME NEW vs, NEW fs, NEW bs, NEW h, Shaped(vs, fs, bs, h), fs # <<>>,
         NEW r, Skips(vs, fs, bs, r),
         NEW ws, ws = SubSeq(vs, 1, fs[Len(fs)].value_height), NEW gs, gs = Marked(fs)
  PROVE  Skips(ws, gs, bs, r)
  <1>1. /\ vs \in Seq(OperandTypes) /\ Len(vs) <= MaxVals /\ h \in Int /\ Len(fs) \in Nat
        /\ Len(fs) > 0 /\ Len(vs) \in Nat
    BY ShapedLengths
  <1>2. Len(fs) \in 1..Len(fs)
    BY <1>1
  <1>3. PICK n : n = r.to
    OBVIOUS
  <1>4. n \in 1..Len(fs) /\ n <= Len(fs)
    <2>1. n \in 2..Len(fs)
      BY <1>3 DEF Skips
    <2> QED BY <1>1, <2>1
  <1>5. \A k \in 1..Len(fs) : fs[k].value_height \in 0..Len(vs) /\ fs[k].value_height \in Nat
    BY FrameFacts
  <1>6. fs[n].value_height <= fs[Len(fs)].value_height
    BY <1>2, <1>4 DEF Shaped
  <1>15. PICK m : m = fs[n].value_height
    OBVIOUS
  <1>16. PICK top : top = fs[Len(fs)].value_height
    OBVIOUS
  <1>7. m = fs[n].value_height /\ top = fs[Len(fs)].value_height
    BY <1>15, <1>16
  <1>8. top \in 0..Len(vs) /\ m \in 0..top /\ top <= Len(vs)
    BY <1>2, <1>4, <1>5, <1>6, <1>7
  <1>9. SubSeq(ws, 1, m) = SubSeq(vs, 1, m)
    BY <1>1, <1>7, <1>8, PrefixTwice
  <1>10. fs[Len(fs)].value_height <= Len(vs)
    BY <1>7, <1>8
  <1>11. /\ Len(gs) = Len(fs)
         /\ \A k \in 1..Len(fs) : /\ gs[k].value_height = fs[k].value_height
                                  /\ gs[k].start_types = fs[k].start_types
                                  /\ gs[k].end_types = fs[k].end_types
                                  /\ k < Len(fs) => gs[k].unreachable = fs[k].unreachable
    BY <1>1, <1>10, ShapeMark
  <1>12. (\A k \in 1..n : k \in 1..Len(fs)) /\ \A k \in 1..(n - 1) : k \in 1..Len(fs) /\ k < Len(fs)
    BY <1>1, <1>4
  <1>13. /\ \A k \in 1..n : gs[k].value_height = fs[k].value_height /\ bs[k].entry = bs[k].entry
         /\ \A k \in 1..(n - 1) : gs[k].unreachable = fs[k].unreachable
         /\ gs[n].start_types = fs[n].start_types /\ gs[n].end_types = fs[n].end_types
         /\ n <= Len(gs) /\ Len(gs) \in Nat
    BY <1>1, <1>4, <1>11, <1>12
  <1>14. r.mode = "to else" => bs[r.to].kind = bs[r.to].kind /\ bs[r.to].saved = bs[r.to].saved
    OBVIOUS
  <1>17. Stays(vs, fs, bs, ws, gs, bs, r)
    BY <1>1, <1>3, <1>7, <1>9, <1>13, <1>14 DEF Stays
  <1> QED BY <1>17, SkipsOn

LEMMA MarkKeeps ==
  ASSUME IInv, control # <<>>, MarkUnreachable, height' = UnreachableDepth,
         UNCHANGED <<blocks, fault, uses>>,
         \/ run' = Gone
         \/ ~Live /\ run' = run
         \/ Skips(vals, control, blocks, run')
  PROVE  IInv'
  <1>1. Shape /\ Shaped(vals, control, blocks, height) /\ fault = "none" /\ uses \in Repertoires
    BY DEF IInv, Shape
  <1>2. /\ vals \in Seq(OperandTypes) /\ Len(vals) <= MaxVals /\ Top.value_height \in 0..Len(vals)
        /\ Len(control) = Depth /\ Top = control[Depth] /\ Len(vals) \in Nat /\ MaxVals \in Nat
    BY <1>1, TopFrame, ShapedLengths, BodyAssumption
  <1>3. PICK gs, ws : gs = Marked(control) /\ ws = SubSeq(vals, 1, control[Len(control)].value_height)
    OBVIOUS
  <1>4. vals' = ws /\ control' = gs /\ blocks' = blocks
    BY <1>2, <1>3 DEF MarkUnreachable, Truncated, Marked
  <1>5. ws \in Seq(OperandTypes) /\ Len(ws) = Top.value_height
    BY <1>2, <1>3, PrefixFacts
  <1>6. Len(ws) <= MaxVals /\ control[Len(control)].value_height <= Len(ws) /\ UnreachableDepth \in Int
    BY <1>2, <1>5 DEF UnreachableDepth
  <1>7. Shaped(ws, gs, blocks, UnreachableDepth)
    <2>1. PICK h \in Int : h = UnreachableDepth
      BY <1>6
    <2>2. Shaped(vals, control, blocks, height) /\ control # <<>>
      BY <1>1
    <2>3. /\ ws \in Seq(OperandTypes) /\ Len(ws) <= MaxVals
          /\ control[Len(control)].value_height <= Len(ws)
      BY <1>5, <1>6
    <2>4. gs = Marked(control)
      BY <1>3
    <2>5. Shaped(ws, gs, blocks, h)
      BY ONLY <2>2, <2>3, <2>4, ShapeMark
    <2> QED BY <2>1, <2>5
  <1>8. run' = Gone \/ Skips(vals, control, blocks, run')
    BY DeadFacts
  <1>9. PICK r : r = run'
    OBVIOUS
  <1>10. Skips(vals, control, blocks, r) => Skips(ws, gs, blocks, r)
    BY <1>1, <1>3, MarkSkips
  <1>11. Follows(ws, gs, blocks, UnreachableDepth, r)
    BY <1>8, <1>9, <1>10 DEF Follows
  <1> QED BY <1>1, <1>4, <1>7, <1>9, <1>11 DEF IInv

LEMMA UnreachableKeeps ==
  ASSUME IInv, control # <<>>, Unreachable, UNCHANGED uses
  PROVE  IInv'
  <1>1. MarkUnreachable /\ height' = UnreachableDepth /\ UNCHANGED blocks
    BY DEF Unreachable
  <1>2. UNCHANGED fault /\ (run' = Gone \/ (~Live /\ run' = run))
    BY DEF Unreachable, Proceed, rvars
  <1>3. UNCHANGED <<blocks, fault, uses>>
    BY <1>1, <1>2
  <1> QED BY <1>1, <1>2, <1>3, MarkKeeps

LEMMA ResultsTyped == Signature.results \in Seq(ValueTypes) /\ Signature.params \in Seq(ValueTypes)
  BY BodyAssumption DEF Sigs

\* A function returns with its results on top.
LEMMA Returns ==
  ASSUME NEW stack, NEW x \in Seq(ValueTypes), Holds(stack, x \o Signature.results), Return(stack)
  PROVE  run' = Gone /\ UNCHANGED fault
  <1> DEFINE n == Len(Signature.results)
  <1>1. Len(stack) = Len(x) + n /\ Holds(TopOf(stack, n), Signature.results)
    <2>1. PICK t \in Seq(ValueTypes) : t = Signature.results
      BY ResultsTyped
    <2>2. Holds(stack, x \o t)
      BY <2>1
    <2>3. Len(stack) = Len(x) + Len(t) /\ Holds(TopOf(stack, Len(t)), t)
      BY <2>2, HoldsSplit
    <2> QED BY <2>1, <2>3
  <1>2. Len(x) \in Nat /\ n \in Nat
    BY ResultsTyped
  <1>3. Len(stack) >= n /\ FitAll(TopOf(stack, n), Signature.results)
    BY <1>1, <1>2, HoldsFits
  <1> QED BY <1>3 DEF Return, Proceed

LEMMA ReturnTypes ==
  ASSUME Shape, control # <<>>
  PROVE  return_types = Signature.results
  BY DEF Shape, Shaped, return_types

LEMMA ReturnKeeps ==
  ASSUME IInv, control # <<>>, ReturnOp, UNCHANGED uses
  PROVE  IInv'
  <1>1. /\ CanPop(return_types) /\ MarkUnreachable /\ height' = UnreachableDepth /\ UNCHANGED blocks
        /\ IF Live THEN Return(Stack) ELSE UNCHANGED rvars
    BY DEF ReturnOp
  <1>2. return_types = Signature.results
    BY ReturnTypes DEF IInv, Shape
  <1>3. UNCHANGED fault /\ (run' = Gone \/ (~Live /\ run' = run))
    <2>1. CASE ~Live
      BY <1>1, <2>1 DEF rvars
    <2>2. CASE Live
      <3>1. Alive
        BY <2>2, LiveIsAlive
      <3>2. /\ Rest(Len(Signature.results)) \in Seq(ValueTypes)
            /\ Holds(Stack, Rest(Len(Signature.results)) \o Signature.results)
        BY <1>1, <1>2, <3>1, LivePops, ResultsTyped
      <3> QED BY <1>1, <2>2, <3>2, Returns
    <2> QED BY <2>1, <2>2
  <1>4. UNCHANGED <<blocks, fault, uses>>
    BY <1>1, <1>3
  <1> QED BY <1>1, <1>3, <1>4, MarkKeeps

\* A tail call: the callee's results are the caller's.
LEMMA LeaveKeeps ==
  ASSUME IInv, control # <<>>, UNCHANGED uses, NEW sig, NEW operands \in Seq(ValueTypes),
         sig.results \in Seq(ValueTypes), Leave(sig, operands)
  PROVE  IInv'
  <1>1. /\ ReturnsFit(sig.results) /\ CanPop(operands) /\ MarkUnreachable
        /\ height' = UnreachableDepth /\ UNCHANGED blocks
    BY DEF Leave
  <1>2. return_types = Signature.results
    BY ReturnTypes DEF IInv, Shape
  <1>3. ASSUME NEW vs \in ValuesOf(sig.results) PROVE FitAll(vs, Signature.results)
    <2>1. Holds(vs, sig.results)
      BY <1>3, ValuesHold
    <2>2. /\ vs \in Seq(Value) /\ Len(vs) = Len(sig.results)
          /\ \A k \in 1..Len(sig.results) : Fits(vs[k], sig.results[k])
      BY <2>1 DEF Holds
    <2>3. /\ Len(sig.results) = Len(Signature.results) /\ Len(sig.results) \in Nat
          /\ \A k \in 1..Len(sig.results) : value_subtype(sig.results[k], Signature.results[k])
      BY <1>1, <1>2 DEF ReturnsFit
    <2>4. ASSUME NEW k \in 1..Len(sig.results) PROVE Fits(vs[k], Signature.results[k])
      <3>1. sig.results[k] \in ValueTypes /\ Signature.results[k] \in ValueTypes /\ vs[k] \in Value
        BY <2>2, <2>3, <2>4, ResultsTyped
      <3> QED BY <2>2, <2>3, <3>1, Subsumes
    <2>5. DOMAIN vs = 1..Len(sig.results)
      BY <2>2
    <2> QED BY <2>2, <2>3, <2>4, <2>5 DEF FitAll
  <1>4. UNCHANGED fault /\ (run' = Gone \/ (~Live /\ run' = run))
    <2>1. CASE ~Live
      BY <2>1 DEF Leave, rvars
    <2>2. CASE Live
      <3>1. Alive
        BY <2>2, LiveIsAlive
      <3>2. CanTake(operands)
        BY <1>1, <3>1, LivePops
      <3> QED BY <1>3, <2>2, <3>2 DEF Leave, Proceed
    <2> QED BY <2>1, <2>2
  <1>5. UNCHANGED <<blocks, fault, uses>>
    BY <1>1, <1>4
  <1> QED BY <1>1, <1>4, <1>5, MarkKeeps

LEMMA ReturnCallKeeps ==
  ASSUME IInv, control # <<>>, ReturnCall, UNCHANGED uses
  PROVE  IInv'
  <1>1. PICK f \in DOMAIN funcs : Leave(callee_type(f), callee_type(f).params)
    BY DEF ReturnCall
  <1>2. callee_type(f).params \in Seq(ValueTypes) /\ callee_type(f).results \in Seq(ValueTypes)
    BY CalleesTyped
  <1> QED BY <1>1, <1>2, LeaveKeeps

LEMMA ReturnCallIndirectKeeps ==
  ASSUME IInv, control # <<>>, ReturnCallIndirect, UNCHANGED uses
  PROVE  IInv'
  <1>1. PICK i \in IndirectCalls("return_call_indirect") :
          Leave(func_type(i[2]), Append(func_type(i[2]).params, TableAddress(i[3])))
    BY DEF ReturnCallIndirect
  <1>2. /\ func_type(i[2]).results \in Seq(ValueTypes) /\ func_type(i[2]).params \in Seq(ValueTypes)
        /\ TableAddress(i[3]) \in ValueTypes
    BY CalleesTyped
  <1>3. Append(func_type(i[2]).params, TableAddress(i[3])) \in Seq(ValueTypes)
    BY <1>2, AppendTyped
  <1> QED BY <1>1, <1>2, <1>3, LeaveKeeps

\* A branch drops what is between the operands its label is at and those it
\* carries.
LEMMA Landed ==
  ASSUME NEW stack, NEW base \in Seq(ValueTypes), NEW t \in Seq(ValueTypes), Holds(stack, base \o t),
         NEW v \in 0..Len(base), NEW keep, keep = Len(t), NEW drop, drop = Len(base) - v
  PROVE  /\ Holds(KeepTop(stack, keep, drop), SubSeq(base, 1, v) \o t)
         /\ Len(stack) >= keep + drop
  <1>1. /\ Len(stack) = Len(base) + Len(t) /\ Holds(TopOf(stack, Len(t)), t)
        /\ Holds(SubSeq(stack, 1, v), SubSeq(base, 1, v))
    BY HoldsSplit
  <1>2. Len(base) \in Nat /\ Len(t) \in Nat /\ stack \in Seq(Value) /\ Len(stack) \in Nat /\ v \in Nat
    BY DEF Holds
  <1>3. v \in 0..Len(stack) /\ Len(stack) - v = keep + drop
    BY <1>1, <1>2
  <1>4. Under(stack, keep + drop) = SubSeq(stack, 1, v)
    <2>1. Under(stack, Len(stack) - v) = SubSeq(stack, 1, v)
      BY <1>2, <1>3, UnderPrefix
    <2> QED BY <1>3, <2>1
  <1>5. Len(stack) >= keep + drop
    BY <1>1, <1>2, <1>3
  <1>6. CASE drop = 0
    <2>1. v = Len(base)
      BY <1>2, <1>6
    <2>2. SubSeq(base, 1, v) = base
      BY <2>1, PrefixWhole
    <2>3. KeepTop(stack, keep, drop) = stack
      BY <1>6 DEF KeepTop
    <2> QED BY <1>5, <2>2, <2>3
  <1>7. CASE drop # 0
    <2>1. KeepTop(stack, keep, drop) = SubSeq(stack, 1, v) \o TopOf(stack, Len(t))
      BY <1>4, <1>7 DEF KeepTop
    <2>2. Holds(SubSeq(stack, 1, v) \o TopOf(stack, Len(t)), SubSeq(base, 1, v) \o t)
      BY <1>1, HoldsConcat
    <2> QED BY <1>5, <2>1, <2>2
  <1> QED BY <1>6, <1>7

LEMMA ModSmall ==
  ASSUME NEW w \in Nat, NEW m \in Nat, m < w
  PROVE  m % w = m
  OBVIOUS

LEMMA Short ==
  ASSUME FewOperands, NEW n \in Nat, n <= MaxVals, NEW v \in 0..n, NEW m, m = n - v
  PROVE  U16(m) = m
  <1>1. MaxVals \in Nat
    BY BodyAssumption
  <1>2. PICK w : w = 65536
    OBVIOUS
  <1>3. w \in Nat /\ m \in Nat /\ m < w
    BY <1>1, <1>2 DEF FewOperands
  <1>4. m % w = m
    BY ONLY <1>3, ModSmall
  <1> QED BY <1>2, <1>4 DEF U16

\* Branching where control is: to the label of a frame, with the operands of
\* the label's types on those around the frame.
LEMMA JumpFollows ==
  ASSUME Alive, FewOperands, NEW l \in Labels,
         NEW base \in Seq(ValueTypes), Len(base) <= MaxVals, Top.value_height <= Len(base),
         Around(vals, base, Top),
         NEW stack, Holds(stack, base \o Label(l)),
         NEW h, h = Params + Len(base) + Len(Label(l)),
         NEW keep, keep = Len(Label(l)), Jump(stack, h, l, keep)
  PROVE  UNCHANGED fault /\ (run' = Gone \/ Skips(vals, control, blocks, run'))
  <1>1. /\ Shape /\ Shaped(vals, control, blocks, height) /\ control # <<>> /\ Live
        /\ Params \in Nat /\ Entered(control, blocks, Len(control)) /\ Reached(control, Len(control))
    BY LiveFacts DEF Alive, Lives, Shape
  <1>2. /\ Depth \in Nat /\ Depth > 0 /\ Len(control) = Depth /\ Len(blocks) = Depth
        /\ Top = control[Depth] /\ Top.value_height \in Nat /\ Depth \in 1..Depth
    BY <1>1, TopFrame
  <1>3. PICK d : d = Depth - l
    OBVIOUS
  <1>4. d \in 1..Len(control) /\ d <= Depth /\ d \in Nat
    BY <1>2, <1>3 DEF Labels
  <1>5. PICK f : f = control[d]
    OBVIOUS
  <1>6. PICK b : b = blocks[d]
    OBVIOUS
  <1>7. Frame(l) = f /\ BlockAt(l) = b
    BY <1>2, <1>3, <1>5, <1>6 DEF Frame, BlockAt
  <1>8. PICK t : t = Label(l)
    OBVIOUS
  <1>9. /\ t = LabelTypes(f) /\ t \in Seq(ValueTypes) /\ f.value_height \in Nat
        /\ f.is_loop = TRUE => t = f.start_types
        /\ f.is_loop = FALSE => t = f.end_types
        /\ f.is_loop \in BOOLEAN
        /\ f.start_types \in Seq(ValueTypes) /\ f.end_types \in Seq(ValueTypes)
        /\ f.is_loop = TRUE <=> b.kind = "loop"
        /\ b.kind = "function" <=> d = 1
    <2>1. ASSUME NEW k \in 1..Len(control)
          PROVE  /\ control[k] \in FrameType /\ blocks[k] \in ContextType
                 /\ control[k].start_types \in Seq(ValueTypes) /\ control[k].end_types \in Seq(ValueTypes)
                 /\ control[k].value_height \in 0..Len(vals) /\ control[k].value_height \in Nat
                 /\ control[k].unreachable \in BOOLEAN /\ control[k].is_loop \in BOOLEAN
                 /\ LabelTypes(control[k]) \in Seq(ValueTypes)
                 /\ control[k].is_loop = TRUE => LabelTypes(control[k]) = control[k].start_types
                 /\ control[k].is_loop = FALSE => LabelTypes(control[k]) = control[k].end_types
                 /\ blocks[k].entry \in Int /\ blocks[k].saved \in Int
                 /\ blocks[k].arity = Len(LabelTypes(control[k])) /\ blocks[k].results = Len(control[k].end_types)
                 /\ control[k].is_loop = TRUE <=> blocks[k].kind = "loop"
                 /\ blocks[k].kind = "function" <=> k = 1
                 /\ blocks[k].kind \in {"function", "block", "loop", "then", "else"}
      BY <1>1, FrameFacts
    <2>2. t = LabelTypes(f)
      BY <1>7, <1>8 DEF Label
    <2> QED BY <1>4, <1>5, <1>6, <2>1, <2>2
  <1>10. PICK v : v = f.value_height
    OBVIOUS
  <1>11. b.entry = Params + v /\ v \in Nat
    BY <1>1, <1>4, <1>5, <1>6, <1>9, <1>10 DEF Entered
  <1>12. v <= Top.value_height
    <2>1. \A j, k \in 1..Len(control) : j <= k => control[j].value_height <= control[k].value_height
      BY <1>1 DEF Shaped
    <2> QED BY <1>2, <1>4, <1>5, <1>10, <2>1
  <1>13. v \in 0..Len(base) /\ v \in 0..Top.value_height /\ Len(base) \in Nat /\ Len(t) \in Nat
    BY <1>2, <1>9, <1>11, <1>12
  <1>14. Drop(h, l, keep) = Len(base) - v
    <2>1. h = Params + Len(base) + Len(t) /\ keep = Len(t)
      BY <1>8
    <2>2. PICK n \in Nat, k \in Nat, p \in Nat : n = Len(base) /\ k = Len(t) /\ p = Params
      BY <1>1, <1>13
    <2>7. PICK e : e = b.entry
      OBVIOUS
    <2>3. v \in 0..n /\ h = p + n + k /\ e = p + v /\ n <= MaxVals
      BY <1>11, <1>13, <2>1, <2>2, <2>7
    <2>4. h - e - k = n - v
      BY <1>11, <2>3
    <2>5. PICK m : m = n - v
      OBVIOUS
    <2>6. U16(m) = m
      BY ONLY FewOperands, <2>3, <2>5, Short
    <2> QED BY <1>7, <2>1, <2>2, <2>4, <2>5, <2>6, <2>7 DEF Drop
  <1>15. PICK drop : drop = Drop(h, l, keep)
    OBVIOUS
  <1>16. PICK landed : landed = KeepTop(stack, keep, drop)
    OBVIOUS
  <1>17. PICK x : x = SubSeq(vals, 1, v)
    OBVIOUS
  <1>18. SubSeq(base, 1, v) = x
    BY <1>13, <1>17 DEF Around
  <1>19. x \in Seq(ValueTypes) /\ Len(x) = v
    BY <1>13, <1>18, PrefixFacts
  <1>20. Holds(landed, x \o t) /\ Len(stack) >= keep + drop
    <2>1. Holds(stack, base \o t) /\ keep = Len(t) /\ drop = Len(base) - v
      BY <1>8, <1>14, <1>15
    <2>2. /\ Holds(KeepTop(stack, keep, drop), SubSeq(base, 1, v) \o t)
          /\ Len(stack) >= keep + drop
      BY <1>9, <1>13, <2>1, Landed
    <2> QED BY <1>16, <1>18, <2>2
  <1>21. ~(Len(stack) < keep + drop)
    <2>1. Len(stack) \in Nat /\ keep + drop \in Int
      <3>1. stack \in Seq(Value)
        BY DEF Holds
      <3> QED BY <1>8, <1>13, <1>14, <1>15, <3>1
    <2> QED BY <1>20, <2>1
  <1>22. IF b.kind = "loop" THEN EnterLoop(landed, f)
         ELSE IF b.kind = "function" THEN Return(landed)
         ELSE Proceed(SkipTo("to end", landed, d))
    BY <1>3, <1>7, <1>15, <1>16, <1>21 DEF Jump
  <1>23. CASE b.kind = "loop"
    <2>1. t = f.start_types
      BY <1>9, <1>23
    <2>2. Len(landed) = Len(x) + Len(t) /\ Holds(TopOf(landed, Len(t)), t)
      <3>1. x \in Seq(ValueTypes) /\ t \in Seq(ValueTypes) /\ Holds(landed, x \o t)
        BY <1>9, <1>19, <1>20
      <3> QED BY ONLY <3>1, HoldsSplit
    <2>3. /\ Len(landed) = f.value_height + Len(f.start_types)
          /\ FitAll(TopOf(landed, Len(f.start_types)), f.start_types)
      BY <1>10, <1>19, <2>1, <2>2, HoldsFits
    <2>4. EnterLoop(landed, f)
      BY <1>22, <1>23
    <2> QED BY <2>3, <2>4 DEF EnterLoop, Proceed
  <1>24. CASE b.kind = "function"
    <2>1. d = 1 /\ f.is_loop = FALSE
      BY <1>9, <1>24
    <2>2. t = Signature.results
      <3>1. control[1].end_types = Signature.results
        BY <1>1 DEF Shaped
      <3> QED BY <1>5, <1>9, <2>1, <3>1
    <2>3. Return(landed) /\ Holds(landed, x \o Signature.results)
      BY <1>20, <1>22, <1>24, <2>2
    <2> QED BY <1>19, <2>3, Returns
  <1>25. CASE b.kind # "loop" /\ b.kind # "function"
    <2>1. t = f.end_types /\ d # 1
      BY <1>9, <1>25
    <2>2. run' = SkipTo("to end", landed, d) /\ UNCHANGED fault
      BY <1>22, <1>25 DEF Proceed
    <2>3. run'.mode = "to end" /\ run'.stack = landed /\ run'.to = d
      BY <2>2 DEF SkipTo
    <2>4. d \in 2..Len(control)
      BY <1>4, <2>1
    <2>5. Holds(landed, Left(vals, f, f.end_types))
      BY <1>10, <1>17, <1>20, <2>1 DEF Left
    <2>6. Entered(control, blocks, d) /\ Reached(control, d - 1)
      BY <1>1, <1>2, <1>4 DEF Entered, Reached
    <2>7. Skips(vals, control, blocks, run')
      BY <1>5, <2>3, <2>4, <2>5, <2>6 DEF Skips
    <2> QED BY <2>2, <2>7
  <1> QED BY <1>23, <1>24, <1>25

LEMMA FrameLabel ==
  ASSUME NEW vs, NEW fs, NEW bs, NEW h, Shaped(vs, fs, bs, h), NEW k \in 1..Len(fs)
  PROVE  LabelTypes(fs[k]) \in Seq(ValueTypes) /\ bs[k].arity = Len(LabelTypes(fs[k]))
  <1>1. fs[k].start_types \in Seq(ValueTypes) /\ fs[k].end_types \in Seq(ValueTypes)
    BY FrameFacts
  <1> QED BY <1>1 DEF Shaped, Matches, LabelTypes

LEMMA LabelTyped ==
  ASSUME Shape, control # <<>>, NEW l \in Labels
  PROVE  /\ Label(l) \in Seq(ValueTypes) /\ Len(Label(l)) \in Nat
         /\ BlockAt(l).arity = Len(Label(l))
  <1>1. Depth \in Nat /\ Depth > 0 /\ Len(control) = Depth /\ Len(blocks) = Depth
    BY TopFrame
  <1>2. PICK d : d = Depth - l
    OBVIOUS
  <1>3. d \in 1..Len(control)
    BY <1>1, <1>2 DEF Labels
  <1>4. Frame(l) = control[d] /\ BlockAt(l) = blocks[d]
    BY <1>1, <1>2 DEF Frame, BlockAt
  <1>5. LabelTypes(control[d]) \in Seq(ValueTypes) /\ blocks[d].arity = Len(LabelTypes(control[d]))
    <2>1. Shaped(vals, control, blocks, height)
      BY DEF Shape
    <2> QED BY ONLY <1>3, <2>1, FrameLabel
  <1>6. Label(l) = LabelTypes(control[d])
    BY <1>4 DEF Label
  <1>7. Len(LabelTypes(control[d])) \in Nat
    BY <1>5
  <1> QED BY <1>4, <1>5, <1>6, <1>7

\* n operands are popped, and the branch carries those of the label.
LEMMA Branches ==
  ASSUME Alive, FewOperands, NEW l \in Labels, NEW n \in Nat, n <= Own,
         Rest(n) \in Seq(ValueTypes), NEW stack, Holds(stack, Rest(n) \o Label(l)),
         NEW h, h = Params + Len(Rest(n)) + Len(Label(l)),
         NEW keep, keep = Len(Label(l)), Jump(stack, h, l, keep)
  PROVE  UNCHANGED fault /\ (run' = Gone \/ Skips(vals, control, blocks, run'))
  <1>1. Shape /\ control # <<>> /\ Len(vals) \in Nat /\ Len(vals) <= MaxVals
    BY LiveFacts
  <1>2. /\ Len(Rest(n)) \in Nat /\ Top.value_height <= Len(Rest(n)) /\ Len(Rest(n)) <= Len(vals)
        /\ \A m \in 0..Top.value_height : SubSeq(Rest(n), 1, m) = SubSeq(vals, 1, m)
    BY <1>1, RestFacts
  <1>3. PICK base \in Seq(ValueTypes) : base = Rest(n)
    OBVIOUS
  <1>4. MaxVals \in Nat
    BY BodyAssumption
  <1>5. Len(base) <= MaxVals /\ Top.value_height <= Len(base) /\ Around(vals, base, Top)
    BY <1>1, <1>2, <1>3, <1>4 DEF Around
  <1>6. Holds(stack, base \o Label(l)) /\ h = Params + Len(base) + Len(Label(l))
    BY <1>3
  <1> QED BY <1>5, <1>6, JumpFollows

LEMMA BrKeeps ==
  ASSUME IInv, FewOperands, control # <<>>, Br, UNCHANGED uses
  PROVE  IInv'
  <1>1. PICK l \in Labels :
          /\ CanPop(Label(l)) /\ MarkUnreachable
          /\ height' = UnreachableDepth /\ UNCHANGED blocks
          /\ IF Live THEN Jump(Stack, height, l, BlockAt(l).arity) ELSE UNCHANGED rvars
    BY DEF Br
  <1>2. UNCHANGED fault /\ (run' = Gone \/ (~Live /\ run' = run) \/ Skips(vals, control, blocks, run'))
    <2>1. CASE ~Live
      BY <1>1, <2>1 DEF rvars
    <2>2. CASE Live
      <3>1. Alive /\ Shape
        BY <2>2, LiveIsAlive DEF Alive
      <3>2. PICK n : n = Len(Label(l))
        OBVIOUS
      <3>3. Label(l) \in Seq(ValueTypes) /\ n \in Nat /\ BlockAt(l).arity = n
        BY <3>1, <3>2, LabelTyped
      <3>4. /\ n <= Own /\ Rest(n) \in Seq(ValueTypes) /\ Len(Rest(n)) = Len(vals) - n
            /\ Holds(Stack, Rest(n) \o Label(l))
        BY <1>1, <3>1, <3>2, <3>3, LivePops
      <3>5. height = Params + Len(Rest(n)) + Len(Label(l))
        <4>1. height = Params + Len(vals) /\ Params \in Nat /\ Len(vals) \in Nat
          BY <3>1, LiveFacts
        <4> QED BY <3>2, <3>3, <3>4, <4>1
      <3>6. Jump(Stack, height, l, n) /\ n = Len(Label(l))
        BY <1>1, <2>2, <3>2, <3>3
      <3> QED BY <3>1, <3>3, <3>4, <3>5, <3>6, Branches
    <2> QED BY <2>1, <2>2
  <1>3. UNCHANGED <<blocks, fault, uses>>
    BY <1>1, <1>2
  <1> QED BY <1>1, <1>2, <1>3, MarkKeeps

\* A condition on top of the operands of the types ts.
LEMMA AppendConcat ==
  ASSUME NEW S, NEW x \in Seq(S), NEW t \in Seq(S), NEW e \in S
  PROVE  x \o Append(t, e) = (x \o t) \o <<e>>
  <1>1. PICK u \in Seq(S) : u = Append(t, e)
    BY AppendTyped
  <1>2. PICK c \in Seq(S) : c = <<e>>
    BY ShortSequences
  <1>3. PICK y \in Seq(S) : y = x \o t
    BY ConcatFacts
  <1>4. /\ Len(u) = Len(t) + 1 /\ Len(x) \in Nat /\ Len(t) \in Nat
        /\ (\A k \in 1..Len(t) : u[k] = t[k]) /\ u[Len(t) + 1] = e
    BY <1>1, AppendTyped
  <1>5. Len(c) = 1 /\ c[1] = e
    BY <1>2
  <1>6. /\ Len(y) = Len(x) + Len(t) /\ \A k \in 1..Len(x) : y[k] = x[k]
        /\ \A k \in 1..Len(t) : y[Len(x) + k] = t[k]
    BY <1>3, ConcatFacts
  <1>7. PICK a \in Seq(S) : a = x \o u
    BY ConcatFacts
  <1>8. PICK b \in Seq(S) : b = y \o c
    BY ConcatFacts
  <1>9. /\ Len(a) = Len(x) + Len(u) /\ \A k \in 1..Len(x) : a[k] = x[k]
        /\ \A k \in 1..Len(u) : a[Len(x) + k] = u[k]
    BY <1>7, ConcatFacts
  <1>10. /\ Len(b) = Len(y) + Len(c) /\ \A k \in 1..Len(y) : b[k] = y[k]
         /\ \A k \in 1..Len(c) : b[Len(y) + k] = c[k]
    BY <1>8, ConcatFacts
  <1>11. ASSUME NEW k \in 1..Len(a) PROVE a[k] = b[k]
    <2>1. CASE k <= Len(x)
      <3>1. k \in 1..Len(x) /\ k \in 1..Len(y)
        BY <1>4, <1>6, <2>1
      <3> QED BY <1>6, <1>9, <1>10, <3>1
    <2>2. CASE Len(x) < k /\ k <= Len(x) + Len(t)
      <3>1. PICK j : j = k - Len(x)
        OBVIOUS
      <3>2. j \in 1..Len(t) /\ j \in 1..Len(u) /\ k = Len(x) + j /\ k \in 1..Len(y)
        BY <1>4, <1>6, <2>2, <3>1
      <3> QED BY <1>4, <1>6, <1>9, <1>10, <3>2
    <2>3. CASE k = Len(x) + Len(t) + 1
      <3>1. PICK j : j = Len(t) + 1
        OBVIOUS
      <3>2. j \in 1..Len(u) /\ k = Len(x) + j /\ k = Len(y) + 1 /\ 1 \in 1..Len(c)
        BY <1>4, <1>5, <1>6, <2>3, <3>1
      <3>3. a[k] = u[j] /\ b[k] = c[1]
        BY <1>9, <1>10, <3>2
      <3>4. u[j] = e
        BY <1>4, <3>1
      <3>5. c[1] = e
        BY <1>5
      <3> QED BY ONLY <3>3, <3>4, <3>5
    <2>4. k \in 1..(Len(x) + Len(t) + 1)
      BY <1>4, <1>9
    <2>5. PICK m \in Nat : m = Len(x)
      BY <1>4
    <2>6. PICK n \in Nat : n = Len(t)
      BY <1>4
    <2>7. PICK i : i = k
      OBVIOUS
    <2>8. i \in 1..(m + n + 1)
      BY <2>4, <2>5, <2>6, <2>7
    <2>9. i <= m \/ (m < i /\ i <= m + n) \/ i = m + n + 1
      BY ONLY <2>8
    <2> QED BY <2>1, <2>2, <2>3, <2>5, <2>6, <2>7, <2>9
  <1>12. Len(a) = Len(b)
    BY <1>4, <1>5, <1>6, <1>9, <1>10
  <1> QED BY <1>1, <1>2, <1>3, <1>7, <1>8, <1>11, <1>12, SeqEqual

LEMMA Condition ==
  ASSUME Alive, NEW ts \in Seq(ValueTypes), NEW n \in Nat, n = Len(ts) + 1, CanPop(Append(ts, I32))
  PROVE  /\ CanTake(<<I32>>) /\ n <= Own
         /\ Rest(n) \in Seq(ValueTypes) /\ Len(Rest(n)) = Len(vals) - n
         /\ Holds(Under(Stack, 1), Rest(n) \o ts)
  <1> DEFINE us == Append(ts, I32)
  <1>1. us \in Seq(ValueTypes) /\ Len(us) = n
    BY NumTypes, AppendTyped
  <1>2. CanPop(us)
    OBVIOUS
  <1> HIDE DEF us
  <1>3. /\ n <= Own /\ Rest(n) \in Seq(ValueTypes) /\ Len(Rest(n)) = Len(vals) - n
        /\ Holds(Stack, Rest(n) \o us)
    BY <1>1, <1>2, LivePops
  <1>4. PICK x \in Seq(ValueTypes) : x = Rest(n)
    BY <1>3
  <1>5. PICK c \in Seq(ValueTypes) : c = <<I32>>
    BY NumTypes, ShortSequences
  <1>6. Len(c) = 1 /\ I32 \in ValueTypes
    BY <1>5, NumTypes, ShortSequences
  <1>7. x \o us = (x \o ts) \o c
    BY <1>5, <1>6, AppendConcat DEF us
  <1>8. PICK y \in Seq(ValueTypes) : y = x \o ts
    BY ConcatFacts
  <1>9. Holds(Stack, y \o c)
    BY <1>3, <1>4, <1>7, <1>8
  <1>10. /\ Len(Stack) = Len(y) + Len(c) /\ Holds(TopOf(Stack, Len(c)), c)
         /\ Holds(Under(Stack, Len(c)), y)
    BY ONLY <1>9, HoldsSplit
  <1>11. Len(y) \in Nat
    OBVIOUS
  <1>12. CanTake(c)
    BY <1>6, <1>10, <1>11, HoldsFits DEF CanTake
  <1> QED BY <1>3, <1>4, <1>5, <1>6, <1>8, <1>10, <1>12

\* Skipping goes on over instructions of a frame.
LEMMA SkipsReplace ==
  ASSUME Shape, control # <<>>, NEW n \in Nat, NEW ts \in Seq(OperandTypes),
         NEW ws, ws = Rest(n) \o ts, NEW r, Skips(vals, control, blocks, r)
  PROVE  Skips(ws, control, blocks, r)
  <1>1. Around(vals, ws, Top)
    BY ReplaceFacts
  <1>2. /\ r.to \in 1..Depth /\ Depth \in Nat
        /\ control[r.to].value_height \in 0..Top.value_height
    BY SkipsWithin
  <1>3. SubSeq(ws, 1, control[r.to].value_height) = SubSeq(vals, 1, control[r.to].value_height)
    BY <1>1, <1>2 DEF Around
  <1>4. r.to <= Len(control) /\ Len(control) \in Nat
    BY <1>2 DEF Depth
  <1>5. Stays(vals, control, blocks, ws, control, blocks, r)
    BY <1>3, <1>4 DEF Stays
  <1> QED BY <1>5, SkipsOn

\* What a live execution does at a branch on the condition on top.
LEMMA ConditionBranches ==
  ASSUME Alive, FewOperands, NEW l \in Labels, NEW n \in Nat, n = Len(Label(l)) + 1,
         CanPop(Append(Label(l), I32)), NEW keep, keep = Len(Label(l)),
         Jump(Under(Stack, 1), height - 1, l, keep)
  PROVE  UNCHANGED fault /\ (run' = Gone \/ Skips(vals, control, blocks, run'))
  <1>1. /\ Shape /\ control # <<>> /\ height = Params + Len(vals) /\ Params \in Nat
        /\ Len(vals) \in Nat
    BY LiveFacts
  <1>2. Label(l) \in Seq(ValueTypes) /\ Len(Label(l)) \in Nat
    BY <1>1, LabelTyped
  <1>3. /\ n <= Own /\ Rest(n) \in Seq(ValueTypes) /\ Len(Rest(n)) = Len(vals) - n
        /\ Holds(Under(Stack, 1), Rest(n) \o Label(l))
    BY <1>2, Condition
  <1>4. PICK h : h = height - 1
    OBVIOUS
  <1>5. h = Params + Len(Rest(n)) + Len(Label(l))
    BY <1>1, <1>2, <1>3, <1>4
  <1>6. PICK stack : stack = Under(Stack, 1)
    OBVIOUS
  <1>7. Jump(stack, h, l, keep) /\ Holds(stack, Rest(n) \o Label(l))
    BY <1>3, <1>4, <1>6
  <1> QED BY <1>3, <1>5, <1>7, Branches

LEMMA BrIfKeeps ==
  ASSUME IInv, FewOperands, control # <<>>, BrIf, Len(vals') <= MaxVals, UNCHANGED uses
  PROVE  IInv'
  <1>1. PICK l \in Labels :
          /\ CanPop(Append(Label(l), I32))
          /\ vals' = Rest(1 + Len(Label(l))) \o Label(l) /\ UNCHANGED control
          /\ Shift(-1) /\ UNCHANGED blocks
          /\ IF ~Live THEN UNCHANGED rvars
             ELSE IF ~CanTake(<<I32>>) THEN Fail("operand")
             ELSE \/ Jump(Under(Stack, 1), height - 1, l, BlockAt(l).arity)
                  \/ Proceed(LiveOn(Under(Stack, 1)))
    BY DEF BrIf, Replace
  <1>2. Shape
    BY DEF IInv, Shape
  <1>3. PICK ts : ts = Label(l)
    OBVIOUS
  <1>4. ts \in Seq(ValueTypes) /\ Len(ts) \in Nat /\ BlockAt(l).arity = Len(ts)
    BY <1>2, <1>3, LabelTyped
  <1>5. ts \in Seq(OperandTypes)
    <2>1. ValueTypes \subseteq OperandTypes
      BY DEF OperandTypes
    <2> QED BY <1>4, <2>1
  <1>6. PICK n \in Nat : n = Len(ts) + 1
    BY <1>4
  <1>7. vals' = Rest(n) \o ts
    <2>1. 1 + Len(ts) = n
      BY <1>4, <1>6
    <2> QED BY <1>1, <1>3, <2>1
  <1>8. -1 \in Int
    OBVIOUS
  <1>9. height' \in Int /\ (~Dropped => height' = height + (-1))
    BY <1>1, <1>2, <1>8, ShiftFacts
  <1>10. UNCHANGED <<control, blocks>>
    BY <1>1
  <1>11. CASE ~Live
    <2>1. UNCHANGED <<control, blocks, rvars, uses>>
      BY <1>1, <1>11
    <2> QED BY <1>5, <1>7, <1>9, <1>11, <2>1, DeadReplace
  <1>12. CASE Live
    <2>1. Alive
      BY <1>12, LiveIsAlive
    <2>2. CanPop(Append(ts, I32))
      BY <1>1, <1>3
    <2>3. /\ CanTake(<<I32>>) /\ n <= Own /\ Holds(Under(Stack, 1), Rest(n) \o ts)
      BY <1>4, <1>6, <2>1, <2>2, Condition
    <2>4. height' = height + Len(ts) - n
      <3>1. ~Dropped /\ height \in Int
        BY <2>1, LiveFacts
      <3> QED BY <1>4, <1>6, <1>9, <3>1
    <2>5. \/ Jump(Under(Stack, 1), height - 1, l, Len(ts))
          \/ Proceed(LiveOn(Under(Stack, 1)))
      BY <1>1, <1>4, <1>12, <2>3
    <2>6. /\ UNCHANGED fault
          /\ \/ run' = Gone
             \/ run'.mode = "live" /\ Holds(run'.stack, vals')
             \/ Skips(vals', control, blocks, run')
      <3>1. CASE Jump(Under(Stack, 1), height - 1, l, Len(ts))
        <4>1. PICK keep : keep = Len(ts)
          OBVIOUS
        <4>2. n = Len(Label(l)) + 1 /\ CanPop(Append(Label(l), I32)) /\ keep = Len(Label(l))
              /\ Jump(Under(Stack, 1), height - 1, l, keep)
          BY <1>1, <1>3, <1>6, <3>1, <4>1
        <4>3. UNCHANGED fault /\ (run' = Gone \/ Skips(vals, control, blocks, run'))
          BY <2>1, <4>2, ConditionBranches
        <4>4. PICK r : r = run'
          OBVIOUS
        <4>5. PICK ws : ws = vals'
          OBVIOUS
        <4>6. Skips(vals, control, blocks, r) => Skips(ws, control, blocks, r)
          BY <1>2, <1>5, <1>7, <4>5, SkipsReplace
        <4> QED BY <4>3, <4>4, <4>5, <4>6
      <3>2. CASE Proceed(LiveOn(Under(Stack, 1)))
        <4>1. run'.mode = "live" /\ run'.stack = Under(Stack, 1) /\ UNCHANGED fault
          BY <3>2 DEF Proceed, LiveOn
        <4> QED BY <1>7, <2>3, <4>1
      <3> QED BY <2>5, <3>1, <3>2
    <2>7. UNCHANGED <<control, blocks, fault, uses>>
      BY <1>10, <2>6
    <2> QED BY <1>4, <1>7, <1>12, <2>3, <2>4, <2>6, <2>7, LiveReplace
  <1> QED BY <1>11, <1>12

LEMMA BrTableKeeps ==
  ASSUME IInv, FewOperands, control # <<>>, BrTable, UNCHANGED uses
  PROVE  IInv'
  <1>1. PICK l \in Labels, d \in Labels :
          /\ Len(Label(l)) = Len(Label(d))
          /\ CanPop(Append(Label(l), I32)) /\ CanPop(Append(Label(d), I32)) /\ MarkUnreachable
          /\ height' = UnreachableDepth /\ UNCHANGED blocks
          /\ IF ~Live THEN UNCHANGED rvars
             ELSE IF ~CanTake(<<I32>>) THEN Fail("operand")
             ELSE \E t \in {l, d} : Jump(Under(Stack, 1), height - 1, t, BlockAt(d).arity)
    BY DEF BrTable
  <1>2. UNCHANGED fault /\ (run' = Gone \/ (~Live /\ run' = run) \/ Skips(vals, control, blocks, run'))
    <2>1. CASE ~Live
      BY <1>1, <2>1 DEF rvars
    <2>2. CASE Live
      <3>1. Alive /\ Shape
        BY <2>2, LiveIsAlive DEF Alive
      <3>2. /\ Label(l) \in Seq(ValueTypes) /\ Len(Label(l)) \in Nat
            /\ Label(d) \in Seq(ValueTypes) /\ BlockAt(d).arity = Len(Label(d))
        BY <3>1, LabelTyped
      <3>3. PICK n \in Nat : n = Len(Label(d)) + 1
        BY <1>1, <3>2
      <3>4. CanTake(<<I32>>)
        BY <1>1, <3>1, <3>2, <3>3, Condition
      <3>5. PICK t \in {l, d} : Jump(Under(Stack, 1), height - 1, t, BlockAt(d).arity)
        BY <1>1, <2>2, <3>4
      <3>6. PICK keep : keep = Len(Label(d))
        OBVIOUS
      <3>7. /\ t \in Labels /\ keep = Len(Label(t)) /\ CanPop(Append(Label(t), I32))
            /\ n = Len(Label(t)) + 1 /\ Jump(Under(Stack, 1), height - 1, t, keep)
        BY <1>1, <3>2, <3>3, <3>5, <3>6
      <3> QED BY <3>1, <3>7, ConditionBranches
    <2> QED BY <2>1, <2>2
  <1>3. UNCHANGED <<blocks, fault, uses>>
    BY <1>1, <1>2
  <1> QED BY <1>1, <1>2, <1>3, MarkKeeps

----------------------------------------------------------------------------
(***************************************************************************)
(* Steps that open, turn and close a frame.                                *)
(***************************************************************************)
Fresh(b, v, kind) ==
  [start_types |-> b.params, end_types |-> b.results, value_height |-> v,
   unreachable |-> FALSE, is_loop |-> kind = "loop"]
Context(kind, h, b) ==
  [kind |-> kind, entry |-> Entry(h, Len(b.params)),
   arity |-> Len(IF kind = "loop" THEN b.params ELSE b.results),
   results |-> Len(b.results), saved |-> h]

LEMMA FreshFacts ==
  ASSUME NEW b \in Sigs, NEW v \in Nat, NEW kind
  PROVE  /\ Fresh(b, v, kind) \in FrameType
         /\ Fresh(b, v, kind).start_types = b.params /\ Fresh(b, v, kind).end_types = b.results
         /\ Fresh(b, v, kind).value_height = v /\ Fresh(b, v, kind).unreachable = FALSE
         /\ Fresh(b, v, kind).is_loop = TRUE <=> kind = "loop"
         /\ LabelTypes(Fresh(b, v, kind)) = IF kind = "loop" THEN b.params ELSE b.results
  <1>1. b.params \in Seq(ValueTypes) /\ b.results \in Seq(ValueTypes)
    BY DEF Sigs
  <1>2. (kind = "loop") \in BOOLEAN /\ FALSE \in BOOLEAN
    OBVIOUS
  <1>3. Fresh(b, v, kind) \in FrameType
    BY <1>1, <1>2 DEF Fresh, FrameType
  <1>4. /\ Fresh(b, v, kind).start_types = b.params /\ Fresh(b, v, kind).end_types = b.results
        /\ Fresh(b, v, kind).value_height = v /\ Fresh(b, v, kind).unreachable = FALSE
        /\ Fresh(b, v, kind).is_loop = (kind = "loop")
    BY DEF Fresh
  <1> QED BY <1>3, <1>4 DEF LabelTypes

LEMMA ContextFacts ==
  ASSUME NEW b \in Sigs, NEW h \in Int, NEW kind \in {"block", "loop", "then"}
  PROVE  /\ Context(kind, h, b) \in ContextType
         /\ Context(kind, h, b).kind = kind /\ Context(kind, h, b).saved = h
         /\ Context(kind, h, b).entry = Entry(h, Len(b.params))
         /\ Context(kind, h, b).results = Len(b.results)
         /\ Context(kind, h, b).arity = Len(IF kind = "loop" THEN b.params ELSE b.results)
  <1>1. b.params \in Seq(ValueTypes) /\ b.results \in Seq(ValueTypes)
    BY DEF Sigs
  <1>2. Len(b.params) \in Nat /\ Len(b.results) \in Nat
    BY <1>1
  <1>3. Entry(h, Len(b.params)) \in Int
    BY <1>2 DEF Entry
  <1>4. Len(IF kind = "loop" THEN b.params ELSE b.results) \in Nat
    BY <1>2
  <1>5. kind \in {"function", "block", "loop", "then", "else"}
    OBVIOUS
  <1> QED BY <1>2, <1>3, <1>4, <1>5 DEF Context, ContextType

\* Block, Loop and If: n operands are popped, the block's parameters pushed.
Opening(n, b, ws, kind, name, h, f, c, gs, cs) ==
  /\ n \in Nat /\ b \in Sigs /\ h \in Int
  /\ kind \in {"block", "loop", "then"} /\ (name = "loop" <=> kind = "loop")
  /\ ws = Rest(n) \o b.params /\ Len(ws) <= MaxVals
  /\ f = Fresh(b, Len(Rest(n)), name) /\ c = Context(kind, h, b)
  /\ gs = Append(control, f) /\ cs = Append(blocks, c)

LEMMA Opened ==
  ASSUME Shape, control # <<>>, NEW n, NEW b, NEW ws, NEW kind, NEW name, NEW h, NEW f, NEW c,
         NEW gs, NEW cs, Opening(n, b, ws, kind, name, h, f, c, gs, cs)
  PROVE  /\ Shaped(ws, gs, cs, h)
         /\ Len(gs) = Depth + 1 /\ gs[Depth + 1] = f /\ cs[Depth + 1] = c
         /\ \A k \in 1..Depth : gs[k] = control[k] /\ cs[k] = blocks[k]
         /\ SubSeq(ws, 1, Len(Rest(n))) = Rest(n)
         /\ \A r : Skips(vals, control, blocks, r) => Skips(ws, gs, cs, r)
  <1>15. /\ n \in Nat /\ b \in Sigs /\ h \in Int
         /\ kind \in {"block", "loop", "then"} /\ (name = "loop" <=> kind = "loop")
         /\ ws = Rest(n) \o b.params /\ Len(ws) <= MaxVals
         /\ f = Fresh(b, Len(Rest(n)), name) /\ c = Context(kind, h, b)
         /\ gs = Append(control, f) /\ cs = Append(blocks, c)
    BY DEF Opening
  <1> USE <1>15
  <1>1. /\ Depth \in Nat /\ Depth > 0 /\ Len(control) = Depth /\ Len(blocks) = Depth
        /\ Top = control[Depth] /\ Top.value_height \in Nat
    BY TopFrame
  <1>2. PICK rest \in Seq(OperandTypes) : rest = Rest(n)
    BY RestFacts
  <1>3. Len(rest) \in Nat /\ Top.value_height <= Len(rest)
    BY <1>2, RestFacts
  <1>4. b.params \in Seq(ValueTypes) /\ b.params \in Seq(OperandTypes)
    <2>1. b.params \in Seq(ValueTypes)
      BY DEF Sigs
    <2>2. ValueTypes \subseteq OperandTypes
      BY DEF OperandTypes
    <2> QED BY <2>1, <2>2
  <1>14. PICK p \in Seq(OperandTypes) : p = b.params
    BY <1>4
  <1>5. /\ ws \in Seq(OperandTypes) /\ Around(vals, ws, Top) /\ Len(ws) = Len(rest) + Len(b.params)
        /\ Len(b.params) \in Nat
    <2>1. /\ Rest(n) \o p \in Seq(OperandTypes)
          /\ Len(Rest(n) \o p) = Len(Rest(n)) + Len(p)
          /\ Around(vals, Rest(n) \o p, Top)
      BY ReplaceFacts
    <2>2. Len(p) \in Nat
      OBVIOUS
    <2> QED BY <1>2, <1>14, <2>1, <2>2
  <1>6. /\ f \in FrameType /\ f.value_height = Len(rest)
        /\ f.is_loop = TRUE <=> kind = "loop"
        /\ f.end_types = b.results
        /\ LabelTypes(f) = IF kind = "loop" THEN b.params ELSE b.results
    <2>1. PICK v \in Nat : v = Len(rest)
      BY <1>3
    <2>2. f = Fresh(b, v, name)
      BY <1>2, <2>1
    <2>3. /\ f \in FrameType /\ f.end_types = b.results /\ f.value_height = v
          /\ f.is_loop = TRUE <=> name = "loop"
          /\ LabelTypes(f) = IF name = "loop" THEN b.params ELSE b.results
      <3>1. /\ Fresh(b, v, name) \in FrameType
            /\ Fresh(b, v, name).start_types = b.params /\ Fresh(b, v, name).end_types = b.results
            /\ Fresh(b, v, name).value_height = v /\ Fresh(b, v, name).unreachable = FALSE
            /\ Fresh(b, v, name).is_loop = TRUE <=> name = "loop"
            /\ LabelTypes(Fresh(b, v, name)) = IF name = "loop" THEN b.params ELSE b.results
        <4>1. b \in Sigs
          OBVIOUS
        <4> QED BY ONLY <4>1, FreshFacts
      <3> QED BY ONLY <2>2, <3>1
    <2> QED BY <2>1, <2>3
  <1>7. /\ c \in ContextType /\ c.kind = kind /\ c.results = Len(b.results)
        /\ c.arity = Len(IF kind = "loop" THEN b.params ELSE b.results)
    BY ContextFacts
  <1>8. Matches(f, c) /\ c.kind # "function"
    BY <1>6, <1>7 DEF Matches
  <1>9. Shaped(ws, gs, cs, h)
    <2>1. control[Len(control)].value_height <= f.value_height /\ f.value_height <= Len(ws)
      BY <1>1, <1>3, <1>5, <1>6
    <2>2. Shaped(vals, control, blocks, height)
      BY DEF Shape
    <2>3. Shaped(ws, Append(control, f), Append(blocks, c), h)
      BY <1>5, <1>6, <1>7, <1>8, <2>1, <2>2, ShapeOpen
    <2> QED BY <2>3
  <1>10. /\ Len(gs) = Depth + 1 /\ gs[Depth + 1] = f
         /\ \A k \in 1..Depth : gs[k] = control[k]
    <2>1. control \in Seq(FrameType)
      BY ShapedLengths DEF Shape
    <2> QED BY <1>1, <1>6, <2>1, AppendTyped
  <1>11. cs[Depth + 1] = c /\ \A k \in 1..Depth : cs[k] = blocks[k]
    <2>1. blocks \in Seq(ContextType)
      BY ShapedLengths DEF Shape
    <2> QED BY <1>1, <1>7, <2>1, AppendTyped
  <1>12. SubSeq(ws, 1, Len(Rest(n))) = Rest(n)
    <2>1. Len(rest) \in 0..Len(rest)
      BY <1>3
    <2>2. SubSeq(rest \o p, 1, Len(rest)) = SubSeq(rest, 1, Len(rest))
      BY <2>1, PrefixConcat
    <2>3. SubSeq(rest, 1, Len(rest)) = rest
      BY PrefixWhole
    <2>4. ws = rest \o p
      BY <1>2, <1>14
    <2> QED BY <1>2, <2>2, <2>3, <2>4
  <1>13. ASSUME NEW r, Skips(vals, control, blocks, r) PROVE Skips(ws, gs, cs, r)
    <2>1. /\ r.to \in 1..Depth /\ control[r.to].value_height \in 0..Top.value_height
      BY <1>13, SkipsWithin
    <2>2. PICK m : m = r.to
      OBVIOUS
    <2>3. /\ \A k \in 1..m : k \in 1..Depth
          /\ \A k \in 1..(m - 1) : k \in 1..Depth
          /\ m \in 1..Depth /\ m <= Depth + 1
      BY <1>1, <2>1, <2>2, SMTT(60)
    <2>4. /\ \A k \in 1..m : gs[k].value_height = control[k].value_height /\ cs[k].entry = blocks[k].entry
          /\ \A k \in 1..(m - 1) : gs[k].unreachable = control[k].unreachable
          /\ gs[m].start_types = control[m].start_types /\ gs[m].end_types = control[m].end_types
          /\ cs[m].kind = blocks[m].kind /\ cs[m].saved = blocks[m].saved
      BY <1>10, <1>11, <2>3
    <2>5. SubSeq(ws, 1, control[m].value_height) = SubSeq(vals, 1, control[m].value_height)
      BY <1>5, <2>1, <2>2 DEF Around
    <2>6. Len(gs) \in Nat /\ m <= Len(gs) /\ Len(control) \in Nat
      BY <1>1, <1>10, <2>3
    <2>7. r.mode = "to else" => cs[m].kind = blocks[m].kind /\ cs[m].saved = blocks[m].saved
      BY <2>4
    <2>8. Stays(vals, control, blocks, ws, gs, cs, r)
      BY ONLY <2>2, <2>4, <2>5, <2>6, <2>7 DEF Stays
    <2> QED BY <1>13, <2>8, SkipsOn
  <1> QED BY <1>9, <1>10, <1>11, <1>12, <1>13

\* The new frame starts where the compiler's context does.
LEMMA OpenedLive ==
  ASSUME Alive, NEW gs, NEW cs, Len(gs) = Depth + 1,
         \A k \in 1..Depth : gs[k] = control[k] /\ cs[k] = blocks[k],
         cs[Depth + 1].entry = Params + gs[Depth + 1].value_height,
         gs[Depth + 1].unreachable = FALSE
  PROVE  /\ Entered(gs, cs, Depth + 1) /\ Reached(gs, Depth + 1) /\ Reached(gs, Depth)
         /\ Depth + 1 \in 2..Len(gs) /\ gs # <<>>
  <1>1. /\ Depth \in Nat /\ Depth > 0 /\ Len(control) = Depth
        /\ Entered(control, blocks, Depth) /\ Reached(control, Depth)
    <2>1. Shape /\ control # <<>>
      BY LiveFacts
    <2>2. Depth \in Nat /\ Depth > 0 /\ Len(control) = Depth
      BY <2>1, TopFrame
    <2> QED BY <2>2 DEF Alive, Lives
  <1>2. PICK d : d = Depth
    OBVIOUS
  <1>3. ASSUME NEW k \in 1..(d + 1)
        PROVE  cs[k].entry = Params + gs[k].value_height /\ gs[k].unreachable = FALSE
    <2>1. CASE k \in 1..d
      BY <1>1, <1>2, <2>1 DEF Entered, Reached
    <2>2. CASE k = d + 1
      BY <1>2, <2>2
    <2>3. d \in Nat
      BY <1>1, <1>2
    <2>4. k \in 1..d \/ k = d + 1
      BY ONLY <2>3
    <2> QED BY <2>1, <2>2, <2>4
  <1>4. \A k \in 1..d : k \in 1..(d + 1)
    BY <1>1, <1>2
  <1>5. d + 1 \in 2..Len(gs) /\ gs # <<>>
    BY <1>1, <1>2
  <1> QED BY <1>2, <1>3, <1>4, <1>5 DEF Entered, Reached

LEMMA EntryLive ==
  ASSUME NEW p \in Nat, NEW v \in Nat, NEW n \in 0..v, NEW h, h = p + v
  PROVE  Entry(h, n) = p + (v - n)
  <1>1. h # UnreachableDepth
    BY DEF UnreachableDepth
  <1>2. h - n = p + (v - n)
    OBVIOUS
  <1> QED BY <1>1, <1>2 DEF Entry

LEMMA OpenKeeps ==
  ASSUME IInv, control # <<>>, NEW kind \in {"block", "loop"}, Open(kind),
         Len(vals') <= MaxVals, UNCHANGED uses
  PROVE  IInv'
  <1>1. PICK b \in Blocks :
          /\ CanPop(b.params)
          /\ control' = Append(control, Fresh(b, Len(Rest(Len(b.params))), kind))
          /\ vals' = Rest(Len(b.params)) \o b.params
          /\ blocks' = Append(blocks, Context(kind, height, b))
          /\ UNCHANGED height /\ UNCHANGED rvars
    BY DEF Open, PushControl, PushBlock, Fresh, Context
  <1>2. /\ Shape /\ height \in Int /\ fault = "none" /\ uses \in Repertoires
        /\ UNCHANGED <<run, fault>>
    BY <1>1, ShapedLengths DEF IInv, Shape, rvars
  <1>3. b \in Sigs /\ b.params \in Seq(ValueTypes)
    BY BodyAssumption DEF Sigs
  <1>4. PICK n \in Nat : n = Len(b.params)
    BY <1>3
  <1>5. PICK f : f = Fresh(b, Len(Rest(n)), kind)
    OBVIOUS
  <1>6. PICK c : c = Context(kind, height, b)
    OBVIOUS
  <1>7. PICK gs : gs = Append(control, f)
    OBVIOUS
  <1>8. PICK cs : cs = Append(blocks, c)
    OBVIOUS
  <1>9. PICK ws : ws = Rest(n) \o b.params
    OBVIOUS
  <1>10. control' = gs /\ blocks' = cs /\ vals' = ws /\ height' = height
    BY <1>1, <1>4, <1>5, <1>6, <1>7, <1>8, <1>9
  <1>11. Len(ws) <= MaxVals /\ kind \in {"block", "loop", "then"}
    BY <1>10
  <1>12. /\ Shaped(ws, gs, cs, height)
         /\ Len(gs) = Depth + 1 /\ gs[Depth + 1] = f /\ cs[Depth + 1] = c
         /\ \A k \in 1..Depth : gs[k] = control[k] /\ cs[k] = blocks[k]
         /\ SubSeq(ws, 1, Len(Rest(n))) = Rest(n)
         /\ \A r : Skips(vals, control, blocks, r) => Skips(ws, gs, cs, r)
    <2>1. Opening(n, b, ws, kind, kind, height, f, c, gs, cs)
      BY <1>2, <1>3, <1>5, <1>6, <1>7, <1>8, <1>9, <1>11 DEF Opening
    <2> QED BY <1>2, <2>1, Opened
  <1>13. CASE ~Live
    <2>1. run = Gone \/ Skips(vals, control, blocks, run)
      BY <1>13, DeadFacts
    <2>2. Follows(ws, gs, cs, height, run)
      BY <1>12, <2>1 DEF Follows
    <2> QED BY <1>2, <1>10, <1>12, <2>2 DEF IInv
  <1>14. CASE Live
    <2>1. Alive
      BY <1>14, LiveIsAlive
    <2>2. /\ n <= Own /\ Len(Rest(n)) = Len(vals) - n /\ Holds(Stack, Rest(n) \o b.params)
      BY <1>1, <1>3, <1>4, <2>1, LivePops
    <2>3. height = Params + Len(vals) /\ Params \in Nat /\ Len(vals) \in Nat
      BY <2>1, LiveFacts
    <2>4. n \in 0..Len(vals)
      <3>1. Own = Len(vals) - Top.value_height /\ Top.value_height \in Nat
        BY <1>2, TopFrame
      <3> QED BY <2>2, <2>3, <3>1
    <2>5. Entry(height, n) = Params + (Len(vals) - n)
      BY <2>3, <2>4, EntryLive
    <2>6. PICK v \in Nat : v = Len(Rest(n))
      BY <2>2, <2>3, <2>4
    <2>7. f.value_height = v /\ f.unreachable = FALSE
      <3>1. Fresh(b, v, kind).value_height = v /\ Fresh(b, v, kind).unreachable = FALSE
        BY DEF Fresh
      <3> QED BY <1>5, <2>6, <3>1
    <2>8. c.entry = Params + v
      <3>1. c.entry = Entry(height, Len(b.params))
        BY <1>2, <1>3, <1>6, <1>11, ContextFacts
      <3> QED BY <1>4, <2>2, <2>5, <2>6, <3>1
    <2>9. cs[Depth + 1].entry = Params + gs[Depth + 1].value_height /\ gs[Depth + 1].unreachable = FALSE
      BY <1>12, <2>7, <2>8
    <2>10. /\ Entered(gs, cs, Depth + 1) /\ Reached(gs, Depth + 1) /\ gs # <<>>
      <3>1. /\ Len(gs) = Depth + 1
            /\ \A k \in 1..Depth : gs[k] = control[k] /\ cs[k] = blocks[k]
        BY <1>12
      <3> QED BY ONLY <2>1, <2>9, <3>1, OpenedLive, ZenonT(60)
    <2>11. Holds(Stack, ws) /\ Len(ws) = Len(vals)
      <3>1. Holds(Stack, ws)
        BY <1>9, <2>2
      <3>2. Len(Stack) = Len(ws) /\ Len(Stack) = Len(vals)
        BY <2>1, <3>1, LiveFacts DEF Holds
      <3> QED BY <3>1, <3>2
    <2>12. Lives(ws, gs, cs, height, run)
      BY <1>12, <1>14, <2>3, <2>10, <2>11 DEF Lives, Live, Stack
    <2>13. Follows(ws, gs, cs, height, run)
      BY <2>12 DEF Follows
    <2> QED BY <1>2, <1>10, <1>12, <2>13 DEF IInv
  <1> QED BY <1>13, <1>14

\* The condition of an if is popped, and either arm may be the one that runs.
LEMMA IfKeeps ==
  ASSUME IInv, control # <<>>, If, Len(vals') <= MaxVals, UNCHANGED uses
  PROVE  IInv'
  <1>1. PICK b \in Blocks :
          /\ CanPop(Append(b.params, I32))
          /\ control' = Append(control, Fresh(b, Len(Rest(1 + Len(b.params))), "if"))
          /\ vals' = Rest(1 + Len(b.params)) \o b.params
          /\ Shift(-1) /\ blocks' = Append(blocks, Context("then", height', b))
          /\ IF ~Live THEN UNCHANGED rvars
             ELSE IF ~CanTake(<<I32>>) THEN Fail("operand")
             ELSE \/ Proceed(LiveOn(Under(Stack, 1)))
                  \/ Proceed(SkipTo("to else", Under(Stack, 1), Depth + 1))
    BY DEF If, PushControl, PushBlock, Fresh, Context
  <1>2. Shape /\ height \in Int /\ fault = "none" /\ uses \in Repertoires
    BY ShapedLengths DEF IInv, Shape
  <1>3. b \in Sigs /\ b.params \in Seq(ValueTypes) /\ Len(b.params) \in Nat
    BY BodyAssumption DEF Sigs
  <1>4. PICK n \in Nat : n = Len(b.params) + 1
    BY <1>3
  <1>15. PICK name : name = "if"
    OBVIOUS
  <1>16. PICK kind \in {"block", "loop", "then"} : kind = "then"
    OBVIOUS
  <1>17. -1 \in Int
    OBVIOUS
  <1>18. PICK h \in Int : h = height' /\ (~Dropped => h = height + (-1))
    BY <1>1, <1>2, <1>17, ShiftFacts
  <1>5. PICK f : f = Fresh(b, Len(Rest(n)), name)
    OBVIOUS
  <1>6. PICK c : c = Context(kind, h, b)
    OBVIOUS
  <1>7. PICK gs : gs = Append(control, f)
    OBVIOUS
  <1>8. PICK cs : cs = Append(blocks, c)
    OBVIOUS
  <1>9. PICK ws : ws = Rest(n) \o b.params
    OBVIOUS
  <1>10. control' = gs /\ blocks' = cs /\ vals' = ws /\ height' = h
    <2>1. 1 + Len(b.params) = n
      BY <1>3, <1>4
    <2> QED BY <1>1, <1>5, <1>6, <1>7, <1>8, <1>9, <1>15, <1>16, <1>18, <2>1
  <1>11. Len(ws) <= MaxVals /\ (name = "loop" <=> kind = "loop")
    BY <1>10, <1>15, <1>16
  <1>12. /\ Shaped(ws, gs, cs, h)
         /\ Len(gs) = Depth + 1 /\ gs[Depth + 1] = f /\ cs[Depth + 1] = c
         /\ \A k \in 1..Depth : gs[k] = control[k] /\ cs[k] = blocks[k]
         /\ SubSeq(ws, 1, Len(Rest(n))) = Rest(n)
         /\ \A r : Skips(vals, control, blocks, r) => Skips(ws, gs, cs, r)
    <2>1. Opening(n, b, ws, kind, name, h, f, c, gs, cs)
      BY <1>2, <1>3, <1>5, <1>6, <1>7, <1>8, <1>9, <1>11 DEF Opening
    <2> QED BY <1>2, <2>1, Opened
  <1>13. CASE ~Live
    <2>1. run = Gone \/ Skips(vals, control, blocks, run)
      BY <1>13, DeadFacts
    <2>2. Follows(ws, gs, cs, h, run)
      BY <1>12, <2>1 DEF Follows
    <2>3. UNCHANGED <<run, fault>>
      BY <1>1, <1>13 DEF rvars
    <2> QED BY <1>2, <1>10, <1>12, <2>2, <2>3 DEF IInv
  <1>14. CASE Live
    <2>1. Alive
      BY <1>14, LiveIsAlive
    <2>2. /\ CanTake(<<I32>>) /\ n <= Own /\ Len(Rest(n)) = Len(vals) - n
          /\ Holds(Under(Stack, 1), Rest(n) \o b.params)
      BY <1>1, <1>3, <1>4, <2>1, Condition
    <2>3. height = Params + Len(vals) /\ Params \in Nat /\ Len(vals) \in Nat /\ ~Dropped
      BY <2>1, LiveFacts
    <2>4. n \in 0..Len(vals)
      <3>1. Own = Len(vals) - Top.value_height /\ Top.value_height \in Nat
        BY <1>2, TopFrame
      <3> QED BY <2>2, <2>3, <3>1
    <2>5. PICK v \in Nat : v = Len(Rest(n))
      BY <2>2, <2>3, <2>4
    <2>6. PICK m \in Nat : m = Len(b.params)
      BY <1>3
    <2>7. h = Params + v + m
      BY <1>4, <1>18, <2>2, <2>3, <2>5, <2>6
    <2>8. Entry(h, m) = Params + v
      <3>1. PICK t \in Nat : t = v + m
        OBVIOUS
      <3>2. m \in 0..t /\ h = Params + t
        BY <2>3, <2>7, <3>1
      <3>3. PICK p \in Nat : p = Params
        BY <2>3
      <3>4. m \in 0..t /\ h = p + t
        BY <3>2, <3>3
      <3>5. Entry(h, m) = p + (t - m)
        BY ONLY <3>4, EntryLive
      <3>6. t - m = v
        BY <3>1
      <3> QED BY <3>3, <3>5, <3>6
    <2>9. f.value_height = v /\ f.unreachable = FALSE /\ f.start_types = b.params
      <3>1. /\ Fresh(b, v, name).value_height = v /\ Fresh(b, v, name).unreachable = FALSE
            /\ Fresh(b, v, name).start_types = b.params
        BY DEF Fresh
      <3> QED BY <1>5, <2>5, <3>1
    <2>10. c.entry = Params + v /\ c.saved = h /\ c.kind = "then"
      <3>1. c.entry = Entry(h, Len(b.params)) /\ c.saved = h /\ c.kind = kind
        BY <1>3, <1>6, ContextFacts
      <3> QED BY <1>16, <2>6, <2>8, <3>1
    <2>11. cs[Depth + 1].entry = Params + gs[Depth + 1].value_height /\ gs[Depth + 1].unreachable = FALSE
      BY <1>12, <2>9, <2>10
    <2>12. /\ Entered(gs, cs, Depth + 1) /\ Reached(gs, Depth + 1) /\ Reached(gs, Depth)
           /\ Depth + 1 \in 2..Len(gs) /\ gs # <<>>
      <3>1. /\ Len(gs) = Depth + 1
            /\ \A k \in 1..Depth : gs[k] = control[k] /\ cs[k] = blocks[k]
        BY <1>12
      <3> QED BY ONLY <2>1, <2>11, <3>1, OpenedLive, ZenonT(60)
    <2>13. PICK stack : stack = Under(Stack, 1)
      OBVIOUS
    <2>14. Holds(stack, ws)
      BY <1>9, <2>2, <2>13
    <2>15. Proceed(LiveOn(stack)) \/ Proceed(SkipTo("to else", stack, Depth + 1))
      BY <1>1, <1>14, <2>2, <2>13
    <2>16. UNCHANGED fault /\ Follows(ws, gs, cs, h, run')
      <3>1. CASE Proceed(LiveOn(stack))
        <4>1. run'.mode = "live" /\ run'.stack = stack /\ UNCHANGED fault
          BY <3>1 DEF Proceed, LiveOn
        <4>2. Len(ws) = v + m
          <5>1. PICK p \in Seq(ValueTypes) : p = b.params
            BY <1>3
          <5>2. Rest(n) \in Seq(OperandTypes) /\ p \in Seq(OperandTypes)
            <6>1. ValueTypes \subseteq OperandTypes
              BY DEF OperandTypes
            <6>2. Rest(n) \in Seq(OperandTypes)
              BY <1>2, RestFacts
            <6>3. p \in Seq(OperandTypes)
              BY <6>1
            <6> QED BY <6>2, <6>3
          <5>3. Len(Rest(n) \o p) = Len(Rest(n)) + Len(p)
            BY <5>2, ConcatFacts
          <5> QED BY <1>9, <2>5, <2>6, <5>1, <5>3
        <4>3. h = Params + Len(ws)
          BY <2>3, <2>7, <4>2
        <4>4. Lives(ws, gs, cs, h, run')
          BY <1>12, <2>12, <2>14, <4>1, <4>3 DEF Lives
        <4> QED BY <4>1, <4>4 DEF Follows
      <3>2. CASE Proceed(SkipTo("to else", stack, Depth + 1))
        <4>1. /\ run'.mode = "to else" /\ run'.stack = stack /\ run'.to = Depth + 1
              /\ UNCHANGED fault
          BY <3>2 DEF Proceed, SkipTo
        <4>2. PICK d : d = Depth + 1
          OBVIOUS
        <4>3. Left(ws, gs[d], gs[d].start_types) = ws
          BY <1>9, <1>12, <2>5, <2>9, <4>2 DEF Left
        <4>4. cs[d].saved = Params + gs[d].value_height + Len(gs[d].start_types) /\ cs[d].kind = "then"
          BY <1>12, <2>6, <2>7, <2>9, <2>10, <4>2
        <4>5. d - 1 = Depth
          <5>1. Depth \in Nat
            BY <1>2, TopFrame
          <5> QED BY <4>2, <5>1
        <4>6. Entered(gs, cs, d) /\ Reached(gs, d - 1) /\ d \in 2..Len(gs)
          BY <2>12, <4>2, <4>5
        <4>7. run'.to = d
          BY <4>1, <4>2
        <4>8. Skips(ws, gs, cs, run')
          BY <2>14, <4>1, <4>3, <4>4, <4>6, <4>7 DEF Skips
        <4> QED BY <4>1, <4>8 DEF Follows
      <3> QED BY <2>15, <3>1, <3>2
    <2> QED BY <1>2, <1>10, <1>12, <2>16 DEF IInv
  <1> QED BY <1>13, <1>14

LEMMA TopTyped ==
  ASSUME Shape, control # <<>>
  PROVE  /\ Top.start_types \in Seq(ValueTypes) /\ Top.end_types \in Seq(ValueTypes)
         /\ Below \in Seq(OperandTypes) /\ Len(Below) = Top.value_height
         /\ SubSeq(Below, 1, Top.value_height) = Below
         /\ \A m \in 0..Top.value_height : SubSeq(Below, 1, m) = SubSeq(vals, 1, m)
  <1>1. Depth \in 1..Depth /\ Len(control) = Depth /\ Top = control[Depth] /\ Top.value_height \in 0..Len(vals)
        /\ Top.value_height \in Nat
    BY TopFrame
  <1>2. Shaped(vals, control, blocks, height) /\ Depth \in 1..Len(control)
    BY <1>1 DEF Shape
  <1>3. control[Depth].start_types \in Seq(ValueTypes) /\ control[Depth].end_types \in Seq(ValueTypes)
    BY ONLY <1>2, FrameFacts
  <1>4. vals \in Seq(OperandTypes)
    BY <1>2, ShapedLengths
  <1>5. PICK v : v = Top.value_height
    OBVIOUS
  <1>6. v \in 0..Len(vals) /\ v \in 0..v /\ Below = SubSeq(vals, 1, v)
    BY <1>1, <1>5 DEF Below
  <1>7. Below \in Seq(OperandTypes) /\ Len(Below) = v
    BY <1>4, <1>6, PrefixFacts
  <1>8. \A m \in 0..v : SubSeq(Below, 1, m) = SubSeq(vals, 1, m)
    BY <1>4, <1>6, PrefixTwice
  <1>9. SubSeq(Below, 1, v) = Below
    BY <1>7, PrefixWhole
  <1> QED BY <1>1, <1>3, <1>5, <1>7, <1>8, <1>9

\* What is above the frame is its results.
LEMMA ClosesLive ==
  ASSUME Alive, CanPopControl
  PROVE  Holds(Stack, Below \o Top.end_types)
  <1>1. Shape /\ control # <<>> /\ vals \in Seq(ValueTypes) /\ Len(vals) \in Nat
    BY LiveFacts
  <1>2. Top.end_types \in Seq(ValueTypes)
    BY <1>1, TopTyped
  <1>3. PICK n : n = Len(Top.end_types)
    OBVIOUS
  <1>4. /\ Rest(n) = Under(vals, n) /\ Len(Rest(n)) = Len(vals) - n /\ n \in Nat
        /\ Holds(Stack, Rest(n) \o Top.end_types)
    BY <1>2, <1>3, LivePops DEF CanPopControl
  <1>5. PICK v : v = Top.value_height
    OBVIOUS
  <1>6. v \in 0..Len(vals) /\ Len(Rest(n)) = v
    BY <1>1, <1>3, <1>5, TopFrame DEF CanPopControl
  <1>7. n = Len(vals) - v
    BY <1>1, <1>4, <1>6
  <1>8. Under(vals, Len(vals) - v) = SubSeq(vals, 1, v)
    BY <1>1, <1>6, UnderPrefix
  <1>9. Rest(n) = Below
    BY <1>4, <1>5, <1>7, <1>8 DEF Below
  <1> QED BY <1>4, <1>9

\* What is left of an execution behind the innermost frame.
LEMMA LeftIsBelow ==
  ASSUME NEW ts
  PROVE  Left(vals, Top, ts) = Below \o ts
  BY DEF Left, Below

LEMMA ElseKeeps ==
  ASSUME IInv, control # <<>>, Else, Len(vals') <= MaxVals, UNCHANGED uses
  PROVE  IInv'
  <1>1. PICK b : b = [params |-> Top.start_types, results |-> Top.end_types]
    OBVIOUS
  <1>2. b.params = Top.start_types /\ b.results = Top.end_types
    BY <1>1
  <1>3. PICK f : f = Fresh(b, Len(Below), "if")
    OBVIOUS
  <1>4. PICK gs : gs = Append(Front(control), f)
    OBVIOUS
  <1>5. PICK cs : cs = [blocks EXCEPT ![Len(blocks)].kind = "else"]
    OBVIOUS
  <1>6. PICK ws : ws = Below \o Top.start_types
    OBVIOUS
  <1>7. PICK h : h = Last(blocks).saved
    OBVIOUS
  <1>8. /\ Last(blocks).kind = "then" /\ CanPopControl
        /\ control' = gs /\ vals' = ws /\ height' = h /\ blocks' = cs
        /\ IF Live THEN Proceed(SkipTo("to end", Stack, Depth))
           ELSE IF run.mode = "to else" /\ run.to = Depth THEN Proceed(LiveOn(Stack))
           ELSE UNCHANGED rvars
    BY <1>1, <1>2, <1>3, <1>4, <1>5, <1>6, <1>7 DEF Else, PushControl, Fresh, ElseHeight
  <1>9. Shape /\ Shaped(vals, control, blocks, height) /\ fault = "none" /\ uses \in Repertoires
    BY DEF IInv, Shape
  <1>10. /\ Depth \in Nat /\ Depth > 0 /\ Depth \in 1..Depth /\ Len(control) = Depth /\ Len(blocks) = Depth
         /\ Top = control[Depth] /\ Last(blocks) = blocks[Depth]
         /\ Top.value_height \in 0..Len(vals) /\ Top.value_height \in Nat
    BY <1>9, TopFrame
  <1>11. /\ Top.start_types \in Seq(ValueTypes) /\ Top.end_types \in Seq(ValueTypes)
         /\ Below \in Seq(OperandTypes) /\ Len(Below) = Top.value_height
         /\ SubSeq(Below, 1, Top.value_height) = Below
         /\ \A m \in 0..Top.value_height : SubSeq(Below, 1, m) = SubSeq(vals, 1, m)
    BY <1>9, TopTyped
  <1>12. b \in Sigs
    BY <1>1, <1>11 DEF Sigs
  <1>13. PICK v \in Nat : v = Top.value_height
    BY <1>10
  <1>14. /\ f \in FrameType /\ f.start_types = Top.start_types /\ f.end_types = Top.end_types
         /\ f.value_height = v /\ f.unreachable = FALSE /\ f.is_loop = FALSE
    <2>1. PICK name : name = "if"
      OBVIOUS
    <2>2. /\ Fresh(b, v, name) \in FrameType
          /\ Fresh(b, v, name).start_types = b.params /\ Fresh(b, v, name).end_types = b.results
          /\ Fresh(b, v, name).value_height = v /\ Fresh(b, v, name).unreachable = FALSE
          /\ Fresh(b, v, name).is_loop = TRUE <=> name = "loop"
          /\ LabelTypes(Fresh(b, v, name)) = IF name = "loop" THEN b.params ELSE b.results
      BY <1>12, FreshFacts
    <2>3. f = Fresh(b, v, name)
      BY <1>3, <1>11, <1>13, <2>1
    <2>4. f.is_loop \in BOOLEAN
      BY <2>2, <2>3 DEF FrameType
    <2> QED BY <1>2, <2>1, <2>2, <2>3, <2>4
  <1>15. Top.start_types \in Seq(OperandTypes)
    <2>1. ValueTypes \subseteq OperandTypes
      BY DEF OperandTypes
    <2> QED BY <1>11, <2>1
  <1>16. /\ ws \in Seq(OperandTypes) /\ Len(ws) = v + Len(Top.start_types) /\ Len(Top.start_types) \in Nat
         /\ \A m \in 0..v : SubSeq(ws, 1, m) = SubSeq(vals, 1, m)
         /\ SubSeq(ws, 1, v) = Below
    <2>1. PICK x \in Seq(OperandTypes) : x = Below
      BY <1>11
    <2>2. PICK t \in Seq(OperandTypes) : t = Top.start_types
      BY <1>15
    <2>3. x \o t \in Seq(OperandTypes) /\ Len(x \o t) = Len(x) + Len(t) /\ Len(t) \in Nat
      BY ConcatFacts
    <2>4. Len(x) = v
      BY <1>11, <1>13, <2>1
    <2>5. \A m \in 0..v : SubSeq(x \o t, 1, m) = SubSeq(x, 1, m)
      BY <2>4, PrefixConcat
    <2>6. ws = x \o t
      BY <1>6, <2>1, <2>2
    <2>7. \A m \in 0..v : SubSeq(x, 1, m) = SubSeq(vals, 1, m)
      BY <1>11, <1>13, <2>1
    <2>8. v \in 0..v /\ SubSeq(x, 1, v) = x
      BY <1>11, <1>13, <2>1
    <2> QED BY <2>1, <2>2, <2>3, <2>4, <2>5, <2>6, <2>7, <2>8
  <1>17. h \in Int
    <2>1. Depth \in 1..Len(control)
      BY <1>10
    <2>2. blocks[Depth].saved \in Int
      BY ONLY <1>9, <2>1, FrameFacts
    <2> QED BY <1>7, <1>10, <2>2
  <1>18. /\ Shaped(ws, gs, cs, h) /\ Len(gs) = Depth /\ Depth > 1
         /\ \A k \in 1..(Depth - 1) : gs[k] = control[k] /\ cs[k] = blocks[k]
         /\ gs[Depth] = f /\ cs[Depth].entry = blocks[Depth].entry
    <2>1. control # <<>> /\ blocks[Len(control)].kind = "then"
      BY <1>8, <1>10
    <2>2. /\ f.value_height = control[Len(control)].value_height
          /\ f.start_types = control[Len(control)].start_types
          /\ f.end_types = control[Len(control)].end_types
      BY <1>10, <1>13, <1>14
    <2>3. Len(ws) <= MaxVals
      BY <1>8
    <2>4. control[Len(control)].value_height <= Len(ws)
      <3>1. PICK m \in Nat : m = Len(Top.start_types)
        BY <1>16
      <3>2. v <= v + m
        OBVIOUS
      <3> QED BY <1>10, <1>13, <1>16, <3>1, <3>2
    <2>5. Turning(control, blocks, ws, h, f, gs, cs)
      BY <1>4, <1>5, <1>14, <1>16, <1>17, <2>1, <2>2, <2>3, <2>4 DEF Turning
    <2>6. /\ Shaped(ws, gs, cs, h) /\ Len(gs) = Len(control) /\ Len(control) > 1
          /\ \A k \in 1..(Len(control) - 1) : gs[k] = control[k] /\ cs[k] = blocks[k]
          /\ gs[Len(control)] = f /\ cs[Len(control)].entry = blocks[Len(control)].entry
      BY ONLY <1>9, <2>5, ShapeElse
    <2> QED BY <1>10, <2>6
  <1>19. /\ \A k \in 1..Depth : /\ gs[k].value_height = control[k].value_height
                                /\ gs[k].start_types = control[k].start_types
                                /\ gs[k].end_types = control[k].end_types
                                /\ cs[k].entry = blocks[k].entry
         /\ \A k \in 1..(Depth - 1) : gs[k].unreachable = control[k].unreachable
    <2>1. ASSUME NEW k \in 1..Depth
          PROVE  /\ gs[k].value_height = control[k].value_height
                 /\ gs[k].start_types = control[k].start_types
                 /\ gs[k].end_types = control[k].end_types
                 /\ cs[k].entry = blocks[k].entry
      <3>1. CASE k = Depth
        BY <1>10, <1>13, <1>14, <1>18, <3>1
      <3>2. CASE k # Depth
        <4>1. k \in 1..(Depth - 1)
          BY <1>10, <3>2
        <4> QED BY <1>18, <4>1
      <3> QED BY <3>1, <3>2
    <2> QED BY <1>18, <2>1
  <1>20. Len(gs) \in Nat /\ Len(control) \in Nat /\ Depth \in 2..Len(gs) /\ gs # <<>>
    BY <1>10, <1>18
  <1>21. CASE Live
    <2>1. Alive
      BY <1>21, LiveIsAlive
    <2>2. Holds(Stack, Below \o Top.end_types) /\ Entered(control, blocks, Depth) /\ Reached(control, Depth)
      <3>1. Entered(control, blocks, Len(control)) /\ Reached(control, Len(control))
        BY <2>1 DEF Alive, Lives
      <3> QED BY <1>8, <1>10, <2>1, <3>1, ClosesLive
    <2>3. Left(ws, gs[Depth], gs[Depth].end_types) = Below \o Top.end_types
      BY <1>13, <1>14, <1>16, <1>18 DEF Left
    <2>4. Entered(gs, cs, Depth)
      BY <1>19, <2>2 DEF Entered
    <2>5. Reached(gs, Depth - 1)
      <3>1. \A k \in 1..(Depth - 1) : k \in 1..Depth
        BY <1>10
      <3> QED BY <1>19, <2>2, <3>1 DEF Reached
    <2>6. run' = SkipTo("to end", Stack, Depth) /\ UNCHANGED fault
      BY <1>8, <1>21 DEF Proceed
    <2>7. run'.mode = "to end" /\ run'.stack = Stack /\ run'.to = Depth
      BY <2>6 DEF SkipTo
    <2>8. Skips(ws, gs, cs, run')
      BY <1>20, <2>2, <2>3, <2>4, <2>5, <2>7 DEF Skips
    <2>9. Follows(ws, gs, cs, h, run')
      BY <2>8 DEF Follows
    <2> QED BY <1>8, <1>9, <1>18, <2>6, <2>9 DEF IInv
  <1>22. CASE ~Live /\ run.mode = "to else" /\ run.to = Depth
    <2>1. Gone.mode = "gone"
      BY DEF Gone
    <2>2. Skips(vals, control, blocks, run)
      BY <1>22, <2>1, DeadFacts
    <2>3. /\ Entered(control, blocks, Depth) /\ Reached(control, Depth - 1)
          /\ Holds(run.stack, Left(vals, Top, Top.start_types))
          /\ Last(blocks).saved = Params + Top.value_height + Len(Top.start_types)
      BY <1>10, <1>22, <2>2 DEF Skips
    <2>4. Holds(run.stack, ws)
      BY <1>6, <2>3, LeftIsBelow
    <2>5. h = Params + Len(ws)
      <3>1. PICK m \in Nat : m = Len(Top.start_types)
        BY <1>16
      <3>2. PICK p \in Nat : p = Params
        BY ResultsTyped DEF Params
      <3>3. h = p + v + m /\ Len(ws) = v + m
        BY <1>7, <1>13, <1>16, <2>3, <3>1, <3>2
      <3> QED BY <3>2, <3>3
    <2>6. Entered(gs, cs, Depth)
      BY <1>19, <2>3 DEF Entered
    <2>7. Reached(gs, Depth)
      <3>1. ASSUME NEW k \in 1..Depth PROVE gs[k].unreachable = FALSE
        <4>1. CASE k = Depth
          BY <1>14, <1>18, <4>1
        <4>2. CASE k # Depth
          <5>1. k \in 1..(Depth - 1)
            BY <1>10, <4>2
          <5> QED BY <1>19, <2>3, <5>1 DEF Reached
        <4> QED BY <4>1, <4>2
      <3> QED BY <3>1 DEF Reached
    <2>8. run' = LiveOn(Stack) /\ UNCHANGED fault
      BY <1>8, <1>22 DEF Proceed
    <2>9. run'.mode = "live" /\ run'.stack = run.stack
      BY <2>8 DEF LiveOn, Stack
    <2>10. Lives(ws, gs, cs, h, run')
      BY <1>18, <1>20, <2>4, <2>5, <2>6, <2>7, <2>9 DEF Lives
    <2>11. Follows(ws, gs, cs, h, run')
      BY <2>10 DEF Follows
    <2> QED BY <1>8, <1>9, <1>18, <2>8, <2>11 DEF IInv
  <1>23. CASE ~Live /\ ~(run.mode = "to else" /\ run.to = Depth)
    <2>1. run' = run /\ UNCHANGED fault
      BY <1>8, <1>23 DEF rvars
    <2>2. ASSUME Skips(vals, control, blocks, run) PROVE Skips(ws, gs, cs, run)
      <3>1. run.to \in 2..Depth /\ run.to \in 1..Depth /\ control[run.to].value_height \in 0..Top.value_height
        BY <1>9, <2>2, SkipsWithin
      <3>2. PICK n : n = run.to
        OBVIOUS
      <3>3. /\ \A k \in 1..n : k \in 1..Depth
            /\ \A k \in 1..(n - 1) : k \in 1..(Depth - 1)
            /\ n \in 1..Depth /\ n <= Depth
            /\ n # Depth => n \in 1..(Depth - 1)
        BY <1>10, <3>1, <3>2
      <3>4. SubSeq(ws, 1, control[n].value_height) = SubSeq(vals, 1, control[n].value_height)
        BY <1>13, <1>16, <3>1, <3>2
      <3>5. run.mode = "to else" => cs[n].kind = blocks[n].kind /\ cs[n].saved = blocks[n].saved
        BY <1>18, <1>23, <3>2, <3>3
      <3>6. n <= Len(gs)
        BY <1>18, <3>3
      <3>7. /\ \A k \in 1..n : gs[k].value_height = control[k].value_height /\ cs[k].entry = blocks[k].entry
            /\ \A k \in 1..(n - 1) : gs[k].unreachable = control[k].unreachable
            /\ gs[n].start_types = control[n].start_types /\ gs[n].end_types = control[n].end_types
        BY <1>19, <3>3
      <3>8. Stays(vals, control, blocks, ws, gs, cs, run)
        BY <1>20, <3>2, <3>4, <3>5, <3>6, <3>7 DEF Stays
      <3> QED BY <2>2, <3>8, SkipsOn
    <2>3. run = Gone \/ Skips(vals, control, blocks, run)
      BY <1>23, DeadFacts
    <2>4. Follows(ws, gs, cs, h, run)
      BY <2>2, <2>3 DEF Follows
    <2> QED BY <1>8, <1>9, <1>18, <2>1, <2>4 DEF IInv
  <1> QED BY <1>21, <1>22, <1>23

\* The end of a block: an execution that looked for it goes on behind it.
LEMMA EndKeeps ==
  ASSUME IInv, control # <<>>, End, Len(vals') <= MaxVals, UNCHANGED uses
  PROVE  IInv'
  <1>1. PICK gs : gs = Front(control)
    OBVIOUS
  <1>2. PICK cs : cs = Front(blocks)
    OBVIOUS
  <1>3. PICK ws : ws = Below \o Top.end_types
    OBVIOUS
  <1>4. PICK h : h = Last(blocks).entry + Last(blocks).results
    OBVIOUS
  <1>5. /\ Depth > 1 /\ Last(blocks).kind # "then" /\ CanPopControl
        /\ control' = gs /\ vals' = ws /\ height' = h /\ blocks' = cs
        /\ IF run.mode = "to end" /\ run.to = Depth THEN Proceed(LiveOn(Stack)) ELSE UNCHANGED rvars
    BY <1>1, <1>2, <1>3, <1>4 DEF End
  <1>20. Depth > 1
    BY <1>5
  <1>6. Shape /\ Shaped(vals, control, blocks, height) /\ fault = "none" /\ uses \in Repertoires
    BY DEF IInv, Shape
  <1>7. /\ Depth \in Nat /\ Depth \in 1..Depth /\ Len(control) = Depth /\ Len(blocks) = Depth
        /\ Top = control[Depth] /\ Last(blocks) = blocks[Depth] /\ Top.value_height \in Nat
    BY <1>6, TopFrame
  <1>8. /\ Top.end_types \in Seq(ValueTypes) /\ Below \in Seq(OperandTypes)
        /\ Len(Below) = Top.value_height /\ SubSeq(Below, 1, Top.value_height) = Below
        /\ \A m \in 0..Top.value_height : SubSeq(Below, 1, m) = SubSeq(vals, 1, m)
    BY <1>6, TopTyped
  <1>9. PICK v \in Nat : v = Top.value_height
    BY <1>7
  <1>10. PICK m \in Nat : m = Len(Top.end_types)
    BY <1>8
  <1>11. /\ ws \in Seq(OperandTypes) /\ Len(ws) = v + m
         /\ \A k \in 0..v : SubSeq(ws, 1, k) = SubSeq(vals, 1, k)
    <2>1. PICK x \in Seq(OperandTypes) : x = Below
      BY <1>8
    <2>2. PICK t \in Seq(OperandTypes) : t = Top.end_types
      <3>1. ValueTypes \subseteq OperandTypes
        BY DEF OperandTypes
      <3> QED BY <1>8, <3>1
    <2>3. x \o t \in Seq(OperandTypes) /\ Len(x \o t) = Len(x) + Len(t)
      BY ConcatFacts
    <2>4. Len(x) = v /\ Len(t) = m /\ ws = x \o t
      BY <1>3, <1>8, <1>9, <1>10, <2>1, <2>2
    <2>5. \A k \in 0..v : SubSeq(x \o t, 1, k) = SubSeq(x, 1, k)
      BY <2>4, PrefixConcat
    <2>6. \A k \in 0..v : SubSeq(x, 1, k) = SubSeq(vals, 1, k)
      BY <1>8, <1>9, <2>1
    <2> QED BY <2>3, <2>4, <2>5, <2>6
  <1>12. blocks[Depth].entry \in Int /\ blocks[Depth].results = m
    <2>1. PICK d \in 1..Len(control) : d = Depth
      BY <1>7
    <2>2. Shaped(vals, control, blocks, height)
      BY <1>6
    <2>3. blocks[d].entry \in Int
      BY ONLY <2>2, FrameFacts
    <2>4. blocks[d].results = Len(control[d].end_types)
      <3>1. Matches(control[d], blocks[d])
        BY <2>2 DEF Shaped
      <3> QED BY <3>1 DEF Matches
    <2> QED BY <1>7, <1>10, <2>1, <2>3, <2>4
  <1>13. h \in Int /\ h = blocks[Depth].entry + m
    BY <1>4, <1>7, <1>12
  <1>14. Shaped(ws, gs, cs, h)
    <2>1. v <= v + m
      OBVIOUS
    <2>2. Len(ws) <= MaxVals /\ Len(control) > 1 /\ control[Len(control)].value_height <= Len(ws)
      BY <1>5, <1>7, <1>9, <1>11, <2>1
    <2>3. Closing(control, ws, h)
      BY <1>11, <1>13, <2>2 DEF Closing
    <2>4. Shaped(ws, Front(control), Front(blocks), h)
      BY ONLY <1>6, <2>3, ShapeClose
    <2> QED BY <1>1, <1>2, <2>4
  <1>15. /\ Len(gs) = Depth - 1 /\ Depth - 1 \in Nat /\ gs # <<>>
         /\ \A k \in 1..(Depth - 1) : gs[k] = control[k] /\ cs[k] = blocks[k]
    <2>1. control \in Seq(FrameType) /\ blocks \in Seq(ContextType)
      BY <1>6, ShapedLengths
    <2>2. Len(control) > 0 /\ Len(blocks) > 0
      BY <1>20, <1>7
    <2>3. /\ gs \in Seq(FrameType) /\ Len(gs) = Len(control) - 1
          /\ \A k \in 1..(Len(control) - 1) : gs[k] = control[k]
      BY <1>1, <2>1, <2>2, FrontFacts
    <2>4. \A k \in 1..(Len(blocks) - 1) : cs[k] = blocks[k]
      BY <1>2, <2>1, <2>2, FrontFacts
    <2>5. Len(gs) > 0
      BY <1>20, <1>7, <2>3
    <2> QED BY <1>20, <1>7, <2>3, <2>4, <2>5
  <1>16. ASSUME NEW r, r.mode = "live", Holds(r.stack, ws), Entered(control, blocks, Depth),
                Reached(control, Depth - 1)
         PROVE  Lives(ws, gs, cs, h, r)
    <2>1. \A k \in 1..(Depth - 1) : k \in 1..Depth
      BY <1>7
    <2>2. Entered(gs, cs, Depth - 1) /\ Reached(gs, Depth - 1)
      BY <1>15, <1>16, <2>1 DEF Entered, Reached
    <2>3. h = Params + Len(ws)
      <3>1. PICK p \in Nat : p = Params
        BY ResultsTyped DEF Params
      <3>2. blocks[Depth].entry = p + v
        BY <1>7, <1>9, <1>16, <3>1 DEF Entered
      <3>3. h = p + v + m /\ Len(ws) = v + m
        BY <1>11, <1>13, <3>2
      <3> QED BY <3>1, <3>3
    <2> QED BY <1>15, <1>16, <2>2, <2>3 DEF Lives
  <1>17. CASE Live
    <2>1. Alive
      BY <1>17, LiveIsAlive
    <2>2. Holds(run.stack, ws)
      BY <1>3, <1>5, <2>1, ClosesLive DEF Stack
    <2>3. Entered(control, blocks, Depth) /\ Reached(control, Depth)
      <3>1. Entered(control, blocks, Len(control)) /\ Reached(control, Len(control))
        BY <2>1 DEF Alive, Lives
      <3> QED BY <1>7, <3>1
    <2>4. Reached(control, Depth - 1)
      <3>1. \A k \in 1..(Depth - 1) : k \in 1..Depth
        BY <1>7
      <3> QED BY <2>3, <3>1 DEF Reached
    <2>5. run.mode = "live"
      BY <1>17 DEF Live
    <2>6. run' = run /\ UNCHANGED fault
      BY <1>5, <2>5 DEF rvars
    <2>7. Follows(ws, gs, cs, h, run)
      BY <1>16, <2>2, <2>3, <2>4, <2>5 DEF Follows
    <2> QED BY <1>5, <1>6, <1>14, <2>6, <2>7 DEF IInv
  <1>18. CASE ~Live /\ run.mode = "to end" /\ run.to = Depth
    <2>1. Gone.mode = "gone"
      BY DEF Gone
    <2>2. Skips(vals, control, blocks, run)
      BY <1>18, <2>1, DeadFacts
    <2>3. /\ Entered(control, blocks, Depth) /\ Reached(control, Depth - 1)
          /\ Holds(run.stack, Left(vals, Top, Top.end_types))
      BY <1>7, <1>18, <2>2 DEF Skips
    <2>4. Holds(run.stack, ws)
      BY <1>3, <2>3, LeftIsBelow
    <2>5. run' = LiveOn(Stack) /\ UNCHANGED fault
      BY <1>5, <1>18 DEF Proceed
    <2>6. PICK r : r = run'
      OBVIOUS
    <2>7. r.mode = "live" /\ r.stack = run.stack
      BY <2>5, <2>6 DEF LiveOn, Stack
    <2>8. Follows(ws, gs, cs, h, r)
      BY <1>16, <2>3, <2>4, <2>7 DEF Follows
    <2> QED BY <1>5, <1>6, <1>14, <2>5, <2>6, <2>8 DEF IInv
  <1>19. CASE ~Live /\ ~(run.mode = "to end" /\ run.to = Depth)
    <2>1. run' = run /\ UNCHANGED fault
      BY <1>5, <1>19 DEF rvars
    <2>2. ASSUME Skips(vals, control, blocks, run) PROVE Skips(ws, gs, cs, run)
      <3>1. run.to \in 1..Depth /\ control[run.to].value_height \in 0..Top.value_height
        BY <1>6, <2>2, SkipsWithin
      <3>2. PICK n : n = run.to
        OBVIOUS
      <3>3. n # Depth
        BY <1>5, <1>7, <1>19, <2>2, <3>2 DEF Skips
      <3>4. /\ \A k \in 1..n : k \in 1..(Depth - 1)
            /\ \A k \in 1..(n - 1) : k \in 1..(Depth - 1)
            /\ n \in 1..(Depth - 1) /\ n <= Depth - 1
        BY <1>7, <3>1, <3>2, <3>3
      <3>5. SubSeq(ws, 1, control[n].value_height) = SubSeq(vals, 1, control[n].value_height)
        BY <1>9, <1>11, <3>1, <3>2
      <3>6. /\ \A k \in 1..n : gs[k].value_height = control[k].value_height /\ cs[k].entry = blocks[k].entry
            /\ \A k \in 1..(n - 1) : gs[k].unreachable = control[k].unreachable
            /\ gs[n].start_types = control[n].start_types /\ gs[n].end_types = control[n].end_types
            /\ cs[n].kind = blocks[n].kind /\ cs[n].saved = blocks[n].saved
        BY <1>15, <3>4
      <3>7. Len(gs) \in Nat /\ Len(control) \in Nat /\ n <= Len(gs)
        BY <1>7, <1>15, <3>4
      <3>8. Stays(vals, control, blocks, ws, gs, cs, run)
        BY <3>2, <3>5, <3>6, <3>7 DEF Stays
      <3> QED BY <2>2, <3>8, SkipsOn
    <2>3. run = Gone \/ Skips(vals, control, blocks, run)
      BY <1>19, DeadFacts
    <2>4. Follows(ws, gs, cs, h, run)
      BY <2>2, <2>3 DEF Follows
    <2> QED BY <1>5, <1>6, <1>14, <2>1, <2>4 DEF IInv
  <1> QED BY <1>17, <1>18, <1>19

\* The end of the function: control that falls through it returns.
LEMMA EndFunctionKeeps ==
  ASSUME IInv, control # <<>>, EndFunction, UNCHANGED uses
  PROVE  IInv'
  <1>1. /\ Depth = 1 /\ CanPopControl
        /\ control' = <<>> /\ vals' = <<>> /\ blocks' = <<>> /\ height' = height
        /\ IF Live THEN Return(Stack) ELSE UNCHANGED rvars
    BY DEF EndFunction
  <1>2. /\ Shape /\ Shaped(vals, control, blocks, height) /\ height \in Int
        /\ fault = "none" /\ uses \in Repertoires
    BY ShapedLengths DEF IInv, Shape
  <1>3. Shaped(<<>>, <<>>, <<>>, height)
    BY <1>2, ShapeNone
  <1>4. run' = Gone /\ UNCHANGED fault
    <2>1. CASE ~Live
      <3>1. ~Skips(vals, control, blocks, run)
        <4>1. SUFFICES ASSUME Skips(vals, control, blocks, run) PROVE FALSE
          OBVIOUS
        <4>2. run.to \in 2..Depth
          BY <1>2, <4>1, SkipsWithin
        <4>3. PICK n : n = run.to
          OBVIOUS
        <4>4. n \in 2..1
          BY <1>1, <4>2, <4>3
        <4> QED BY ONLY <4>4
      <3>2. run = Gone
        BY <2>1, <3>1, DeadFacts
      <3> QED BY <1>1, <2>1, <3>2 DEF rvars
    <2>2. CASE Live
      <3>1. Alive
        BY <2>2, LiveIsAlive
      <3>2. Holds(Stack, Below \o Top.end_types)
        BY <1>1, <3>1, ClosesLive
      <3>3. Top.end_types = Signature.results
        BY <1>1, <1>2, TopFrame DEF Shaped
      <3>4. Below \in Seq(ValueTypes)
        <4>1. vals \in Seq(ValueTypes) /\ Top.value_height \in 0..Len(vals)
          BY <1>2, <3>1, LiveFacts, TopFrame
        <4>2. PICK v : v = Top.value_height
          OBVIOUS
        <4>3. SubSeq(vals, 1, v) \in Seq(ValueTypes)
          BY <4>1, <4>2, PrefixFacts
        <4> QED BY <4>2, <4>3 DEF Below
      <3>5. Return(Stack)
        BY <1>1, <2>2
      <3> QED BY <3>2, <3>3, <3>4, <3>5, Returns
    <2> QED BY <2>1, <2>2
  <1>5. Follows(<<>>, <<>>, <<>>, height, Gone)
    BY DEF Follows
  <1> QED BY <1>1, <1>2, <1>3, <1>4, <1>5 DEF IInv

----------------------------------------------------------------------------
(***************************************************************************)
(* The theorems.                                                           *)
(***************************************************************************)
LEMMA InitHolds ==
  ASSUME Init
  PROVE  IInv
  <1>1. PICK f : f = [start_types |-> <<>>, end_types |-> Signature.results, value_height |-> 0,
                      unreachable |-> FALSE, is_loop |-> FALSE]
    OBVIOUS
  <1>2. PICK b : b = [kind |-> "function", entry |-> height, arity |-> Len(Signature.results),
                      results |-> Len(Signature.results), saved |-> height]
    OBVIOUS
  <1>3. /\ vals = <<>> /\ control = <<f>> /\ blocks = <<b>> /\ height = Len(Signature.params)
        /\ run = LiveOn(<<>>) /\ fault = "none" /\ uses \in Repertoires
    BY <1>1, <1>2 DEF Init
  <1>4. /\ Len(Signature.params) \in Nat /\ Len(Signature.results) \in Nat
        /\ Signature.results \in Seq(ValueTypes) /\ <<>> \in Seq(ValueTypes)
    BY ResultsTyped
  <1>5. height \in Nat /\ height \in Int
    BY <1>3, <1>4
  <1>6. f \in FrameType
    <2>1. 0 \in Nat /\ FALSE \in BOOLEAN
      OBVIOUS
    <2> QED BY <1>1, <1>4, <2>1 DEF FrameType
  <1>7. b \in ContextType
    BY <1>2, <1>4, <1>5 DEF ContextType
  <1>8. /\ f.end_types = Signature.results /\ f.value_height = 0
        /\ f.unreachable = FALSE /\ f.is_loop = FALSE
    BY <1>1
  <1>9. /\ b.kind = "function" /\ b.entry = height /\ b.arity = Len(Signature.results)
        /\ b.results = Len(Signature.results)
    BY <1>2
  <1>10. Matches(f, b)
    <2>1. LabelTypes(f) = Signature.results
      BY <1>8 DEF LabelTypes
    <2> QED BY <1>8, <1>9, <2>1 DEF Matches
  <1>11. /\ control \in Seq(FrameType) /\ blocks \in Seq(ContextType) /\ Len(control) = 1 /\ Len(blocks) = 1
         /\ control[1] = f /\ blocks[1] = b /\ control # <<>>
    BY <1>3, <1>6, <1>7
  <1>12. \A k \in 1..Len(control) : k = 1
    BY <1>11
  <1>13. /\ \A j, k \in 1..Len(control) : j <= k => control[j].value_height <= control[k].value_height
         /\ \A k \in 1..Len(control) : /\ Matches(control[k], blocks[k])
                                       /\ blocks[k].kind = "function" <=> k = 1
    <2>1. control[1].value_height <= control[1].value_height
      BY <1>8, <1>11
    <2> QED BY <1>9, <1>10, <1>11, <1>12, <2>1
  <1>14. Nested(control, blocks)
    BY <1>8, <1>11, <1>13 DEF Nested
  <1>15. /\ vals \in Seq(OperandTypes) /\ Len(vals) = 0 /\ Len(vals) <= MaxVals
         /\ control[Len(control)].value_height <= Len(vals)
    <2>1. MaxVals \in Nat
      BY BodyAssumption
    <2> QED BY <1>3, <1>8, <1>11, <2>1
  <1>16. Shaped(vals, control, blocks, height)
    BY <1>5, <1>11, <1>14, <1>15, ShapedAgain
  <1>17. height = Params + 0
    BY <1>3, <1>4 DEF Params
  <1>18. Entered(control, blocks, Len(control)) /\ Reached(control, Len(control))
    BY <1>8, <1>9, <1>11, <1>12, <1>17 DEF Entered, Reached
  <1>19. run.mode = "live" /\ run.stack = <<>>
    BY <1>3 DEF LiveOn
  <1>20. Holds(run.stack, vals)
    BY <1>3, <1>19, HoldsNothing
  <1>21. Lives(vals, control, blocks, height, run)
    BY <1>11, <1>15, <1>17, <1>18, <1>19, <1>20 DEF Lives
  <1> QED BY <1>3, <1>16, <1>21 DEF IInv, Follows

LEMMA StutterKeeps ==
  ASSUME IInv, UNCHANGED vars
  PROVE  IInv'
  BY DEF IInv, vars, vvars, cvars, rvars

LEMMA NextKeeps ==
  ASSUME FewOperands, DefaultsFit, IInv, Next
  PROVE  IInv'
  <1>1. control # <<>> /\ Len(vals') <= MaxVals /\ UNCHANGED uses
    BY DEF Next
  <1>2. CASE Plain
    BY <1>1, <1>2, PlainKeeps
  <1>3. CASE DropOne
    BY <1>1, <1>3, DropOneKeeps
  <1>4. CASE SelectTyped
    BY <1>1, <1>4, SelectTypedKeeps
  <1>5. CASE SelectUntyped
    BY <1>1, <1>5, SelectUntypedKeeps
  <1>6. CASE RefIsNull
    BY <1>1, <1>6, RefIsNullKeeps
  <1>7. CASE RefAsNonNull
    BY <1>1, <1>7, RefAsNonNullKeeps
  <1>8. CASE Unreachable
    BY <1>1, <1>8, UnreachableKeeps
  <1>9. CASE Br
    BY <1>1, <1>9, BrKeeps
  <1>10. CASE BrIf
    BY <1>1, <1>10, BrIfKeeps
  <1>11. CASE BrTable
    BY <1>1, <1>11, BrTableKeeps
  <1>12. CASE ReturnOp
    BY <1>1, <1>12, ReturnKeeps
  <1>13. CASE ReturnCall
    BY <1>1, <1>13, ReturnCallKeeps
  <1>14. CASE ReturnCallIndirect
    BY <1>1, <1>14, ReturnCallIndirectKeeps
  <1>15. CASE Block \/ Loop
    <2>1. PICK kind \in {"block", "loop"} : Open(kind)
      BY <1>15 DEF Block, Loop
    <2> QED BY <1>1, <2>1, OpenKeeps
  <1>16. CASE If
    BY <1>1, <1>16, IfKeeps
  <1>17. CASE Else
    BY <1>1, <1>17, ElseKeeps
  <1>18. CASE End
    BY <1>1, <1>18, EndKeeps
  <1>19. CASE EndFunction
    BY <1>1, <1>19, EndFunctionKeeps
  <1> QED BY <1>2, <1>3, <1>4, <1>5, <1>6, <1>7, <1>8, <1>9, <1>10, <1>11, <1>12, <1>13, <1>14,
             <1>15, <1>16, <1>17, <1>18, <1>19 DEF Next

\* Of functions whose declared locals have a default of their type, in modules
\* whose tables do or have an initial reference (DefaultsFit; the validator does
\* not ask for it): whatever body it lets pass, its frames and the compiler's block
\* contexts stay of the same blocks, and the execution that is followed is gone,
\* lives on operands of the validated types at the height the compiler counts,
\* or looks for a frame control has entered, at that frame's height.
THEOREM ValidationIsInductive ==
  ASSUME FewOperands, DefaultsFit
  PROVE  Spec => []IInv
  <1>1. IInv /\ [Next]_vars => IInv'
    BY NextKeeps, StutterKeeps
  <1> QED BY <1>1, InitHolds, PTL DEF Spec

LEMMA TypesFollow ==
  ASSUME IInv
  PROVE  TypeOK
  <1>1. Shaped(vals, control, blocks, height) /\ fault = "none"
    BY DEF IInv
  <1>2. /\ vals \in Seq(OperandTypes) /\ height \in Int /\ Len(blocks) = Len(control)
        /\ Len(control) \in Nat /\ Len(vals) \in Nat
    BY <1>1, ShapedLengths
  <1>3. \A k \in DOMAIN vals : vals[k] \in ValueTypes \cup {Bot}
    BY <1>2 DEF OperandTypes
  <1>4. ASSUME NEW k \in 1..Len(control)
        PROVE  /\ control[k].value_height <= Len(vals)
               /\ k > 1 => control[k - 1].value_height <= control[k].value_height
    <2>1. control[k].value_height <= Len(vals)
      BY <1>1 DEF Shaped
    <2>2. ASSUME k > 1 PROVE control[k - 1].value_height <= control[k].value_height
      <3>1. PICK j : j = k - 1
        OBVIOUS
      <3>2. j \in 1..Len(control) /\ j <= k
        BY <1>2, <2>2, <3>1
      <3>3. control[j].value_height <= control[k].value_height
        BY <1>1, <3>2 DEF Shaped
      <3> QED BY <3>1, <3>3
    <2> QED BY <2>1, <2>2
  <1>5. run.mode \in {"live", "to end", "to else", "gone"}
    <2>1. Gone.mode = "gone"
      BY DEF Gone
    <2> QED BY <2>1 DEF IInv, Follows, Lives, Skips
  <1>6. fault \in {"none", "operand", "place", "label", "results"}
    BY <1>1
  <1> QED BY <1>2, <1>3, <1>4, <1>5, <1>6 DEF TypeOK, Depth

\* FunctionContext keeps its frames nested, each starting among the operands and
\* at or above the frame around it, with one of the compiler's contexts to each
\* (proved, by the invariant, for locals and tables with defaults).
THEOREM FramesNest ==
  ASSUME FewOperands, DefaultsFit
  PROVE  Spec => []TypeOK
  BY ValidationIsInductive, TypesFollow, PTL

\* No function that validate_instruction accepts, its locals and the tables
\* starting out as values of their types, ever has run() find an operand
\* missing or of a type other than the one it decodes, or move a reference into
\* a table whose type does not admit it.
THEOREM OperandsAlwaysFit ==
  ASSUME FewOperands, DefaultsFit
  PROVE  Spec => []OperandsFit
  <1>1. IInv => OperandsFit
    BY DEF IInv, OperandsFit
  <1> QED BY <1>1, ValidationIsInductive, PTL

\* As long as locals and tables start out as values of their types, wherever
\* control is, the machine's operands are as many as the validator counts, each of the type it says, at the height compile_instruction counts.
THEOREM StackAlwaysFits ==
  ASSUME FewOperands, DefaultsFit
  PROVE  Spec => []StackFits
  <1>1. ASSUME IInv PROVE StackFits
    <2>1. SUFFICES ASSUME control # <<>>, Live
                   PROVE  /\ FitAll(Stack, vals) /\ Bot \notin {vals[k] : k \in DOMAIN vals}
                          /\ height = Len(Signature.params) + Len(vals)
      BY DEF StackFits
    <2>2. Alive
      BY <1>1, <2>1, LiveIsAlive
    <2>3. Holds(Stack, vals) /\ vals \in Seq(ValueTypes) /\ height = Params + Len(vals)
      BY <2>2, LiveFacts
    <2>4. \A k \in DOMAIN vals : vals[k] \in ValueTypes
      BY <2>3
    <2>5. Bot \notin ValueTypes
      BY ValueTypesApart
    <2> QED BY <2>3, <2>4, <2>5, HoldsFits DEF Params
  <1> QED BY <1>1, ValidationIsInductive, PTL

\* As long as locals and tables start out as values of their types, whatever
\* br, br_if and br_table keep and drop, a loop's head finds the loop's
\* parameters on the operands below it, and the caller its results.
THEOREM LabelsAlwaysReceive ==
  ASSUME FewOperands, DefaultsFit
  PROVE  Spec => []LabelsReceive
  <1>1. IInv => LabelsReceive
    BY DEF IInv, LabelsReceive
  <1> QED BY <1>1, ValidationIsInductive, PTL

\* Control is never in code that compile_instruction drops at UNREACHABLE_DEPTH,
\* nor in a frame mark_unreachable has marked (proved, by the invariant, for
\* locals and tables with defaults).
THEOREM DroppedCodeStaysDead ==
  ASSUME FewOperands, DefaultsFit
  PROVE  Spec => []DroppedCodeIsDead
  <1>1. ASSUME IInv PROVE DroppedCodeIsDead
    <2>1. SUFFICES ASSUME Live
                   PROVE  ~Dropped /\ \A k \in DOMAIN control : ~control[k].unreachable
      BY DEF DroppedCodeIsDead
    <2>2. Alive
      BY <1>1, <2>1, LiveIsAlive
    <2>3. ~Dropped /\ Reached(control, Len(control)) /\ control \in Seq(FrameType)
      BY <2>2, LiveFacts, ShapedLengths DEF Alive, Lives, Shape
    <2>4. \A k \in 1..Len(control) : control[k].unreachable = FALSE
      BY <2>3 DEF Reached
    <2>5. DOMAIN control = 1..Len(control)
      BY <2>3
    <2> QED BY <2>3, <2>4, <2>5
  <1> QED BY <1>1, ValidationIsInductive, PTL
====
