------------------------------ MODULE Validate ------------------------------
(***************************************************************************)
(* validator.rs over a function body, one instruction at a time, beside    *)
(* what compiler.rs makes of the same instruction and what run() does with *)
(* it.  The validator keeps types, the compiler keeps a height, run() keeps *)
(* untagged 64-bit slots: nothing but validation makes the three agree.    *)
(*                                                                         *)
(* One execution of the body is followed through it.  It is live while     *)
(* control is at the current instruction, skips while a taken branch looks *)
(* for its label, and is gone after a return, a trap or a branch back to a *)
(* loop, whose head control has already passed with the same types.  Ops   *)
(* may trap anywhere; the code behind is then that of an execution that    *)
(* did not, so only Unreachable is followed into its trap.                 *)
(*                                                                         *)
(* Instructions that compute alike are one instruction here: <<"binop",    *)
(* "i32">> stands for i32.add to i32.rotr.  Value types are records; a     *)
(* value is known by its most specific type.  Vectors, try_table, throw,   *)
(* call_ref and br_on_null end in unimplemented!() and are left out, and   *)
(* so is ref.eq, which run() answers with todo!().                         *)
(***************************************************************************)
EXTENDS Integers, Sequences, FiniteSets, SequencesExt

CONSTANTS
  Module,     \* the ParsedModule (see funcs, globals, mems and tables)
  Signature,  \* the function's own [params, results]
  Locals,     \* its declared locals
  Blocks,     \* the block types of its blocks, as [params, results]
  Repertoires, \* the plain instructions a body may use, a set of names each
  NullHeaps,  \* the heap types of its ref.null instructions
  MaxVals,    \* bound of the operands
  MaxSize,    \* bound of the operands and, counted twice, the open blocks
  MaxDrift    \* bound of how far the compiler's height strays in dead code

VARIABLES
  vals,       \* value_stack
  control,    \* control_stack, outermost first
  height,     \* the compiler's stack_height
  blocks,     \* its block_stack
  run,        \* the execution: [mode, stack, to]
  fault,      \* what went wrong in it
  uses        \* the repertoire of this body

vvars == <<vals, control>>
cvars == <<height, blocks>>
rvars == <<run, fault>>
vars == <<vvars, cvars, rvars, uses>>

----------------------------------------------------------------------------
(***************************************************************************)
(* Value types and subtyping.                                              *)
(***************************************************************************)
Num == {"i32", "i64", "f32", "f64"}

NumType(n) == [ref |-> FALSE, null |-> FALSE, heap |-> n]
RefType(null, heap) == [ref |-> TRUE, null |-> null, heap |-> heap]
I32 == NumType("i32")
FuncRef == RefType(TRUE, "func")
Bot == NumType("bot")

\* The heap types that are not a type of the module.
AbstractHeaps ==
  {"func", "extern", "exn", "any", "eq", "i31", "struct", "array",
   "none", "nofunc", "noextern", "noexn"}
TypeIndices == DOMAIN Module.types
Heaps == AbstractHeaps \cup TypeIndices
RefTypes == {RefType(null, h) : null \in BOOLEAN, h \in Heaps}
ValueTypes == {NumType(n) : n \in Num} \cup RefTypes
Composite(h) == IF h \in TypeIndices THEN Module.types[h].kind ELSE "none"

heap_subtype(a, b) ==
  \/ a = b
  \/ a = "nofunc" /\ (b = "func" \/ Composite(b) = "func")
  \/ a = "noextern" /\ b = "extern"
  \/ a = "noexn" /\ b = "exn"
  \/ /\ a = "none"
     /\ b \in {"any", "eq", "i31", "struct", "array"} \/ Composite(b) \in {"struct", "array"}
  \/ a \in {"i31", "struct", "array", "eq"} /\ b = "any"
  \/ a \in {"i31", "struct", "array"} /\ b = "eq"
  \/ Composite(a) = b /\ b \in {"func", "struct", "array"}
  \/ Composite(a) \in {"struct", "array"} /\ b \in {"eq", "any"}

\* Mutant of ref_subtype: a null may pass for a reference that is not.
ref_subtypeNull(a, b) == heap_subtype(a.heap, b.heap)
ref_subtype(a, b) == (~a.null \/ b.null) /\ heap_subtype(a.heap, b.heap)

value_subtype(a, b) == IF a.ref /\ b.ref THEN ref_subtype(a, b) ELSE a = b

\* The references there are: a function, struct or array of its type, an
\* external reference, a small integer.  Ref::Null has no type of its own.
Null == RefType(TRUE, "null")
References == {RefType(FALSE, h) : h \in TypeIndices \cup {"extern", "i31"}}

Admits(h, v) ==
  CASE h = "func"              -> Composite(v) = "func"
    [] h \in {"struct", "array"} -> Composite(v) = h
    [] h = "any"               -> v = "i31" \/ Composite(v) \in {"struct", "array"}
    [] h = "eq"                -> v = "i31" \/ Composite(v) \in {"struct", "array"}
    [] OTHER                   -> v = h

Anything == NumType("any")          \* a slot moved without a look at it
AnyRef == RefType(TRUE, "any ref")  \* a slot decoded by as_ref

Fits(v, t) ==
  \/ t \in {Anything, Bot}
  \/ ~t.ref /\ v = t
  \/ /\ t.ref /\ v.ref
     /\ t = AnyRef \/ (IF v = Null THEN t.null ELSE Admits(t.heap, v.heap))

FitAll(vs, ts) == Len(vs) = Len(ts) /\ \A k \in DOMAIN vs : Fits(vs[k], ts[k])

\* RawValue::default(), whatever the type of the place: zero, or Null.
HasDefault(t) == t.ref => t.null
DefaultOr(t) == IF t.ref THEN RefType(TRUE, t.heap) ELSE t

Values(t) == IF t.ref THEN {v \in References \cup {Null} : Fits(v, t)} ELSE {t}

\* Every choice of values of the types ts.
ValuesOf(ts) ==
  {vs \in [DOMAIN ts -> UNION {Values(ts[k]) : k \in DOMAIN ts}] :
     \A k \in DOMAIN ts : vs[k] \in Values(ts[k])}

----------------------------------------------------------------------------
(***************************************************************************)
(* The index spaces, imports first.                                        *)
(***************************************************************************)
Imported(kind) == SelectSeq(Module.imports, LAMBDA d : d.kind = kind)
ImportedTypes(kind) == [k \in DOMAIN Imported(kind) |-> Imported(kind)[k].type]

funcs == ImportedTypes("func") \o Module.functions
globals == ImportedTypes("global") \o Module.globals
mems == ImportedTypes("mem") \o Module.mems
tables == ImportedTypes("table") \o Module.tables
refs == Module.exports \cup Module.exprs

FuncTypes == {t \in TypeIndices : Module.types[t].kind = "func"}
func_type(t) == Module.types[t].sig
callee_type(f) == func_type(funcs[f])
HoldsFuncs(t) == tables[t].elem.heap = "func"
locals == Signature.params \o Locals

Address(a) == NumType(a)
TableAddress(t) == Address(tables[t].addr)
Element(t) == tables[t].elem

\* What a declared local may hold, and a table defined without an initial
\* reference: a value of its type, or still the default.  validate() asks
\* neither for a type that has one, nor a body to set its locals first.
HeldLocal(k) == IF k \in DOMAIN Signature.params THEN locals[k] ELSE DefaultOr(locals[k])
HeldElement(t) == IF tables[t].init THEN Element(t) ELSE DefaultOr(Element(t))

\* The declared locals, and the tables without an initial reference, have
\* types with a default.
DefaultsFit ==
  /\ \A k \in DOMAIN Locals : HasDefault(Locals[k])
  /\ \A t \in DOMAIN tables : tables[t].init \/ HasDefault(Element(t))

\* Mutant of Shorter: a copy's length is counted in the destination's addresses.
ShorterDestination(a, b) == Address(a)
Shorter(a, b) == IF a = "i64" /\ b = "i64" THEN Address("i64") ELSE I32

\* What the sections of a valid module are like, and what a body may name of it.
\* Globals, element segments and tables with an initial reference are taken to
\* hold values of their types: validate() does not look at initial expressions.
Sigs == [params : Seq(ValueTypes), results : Seq(ValueTypes)]
Addresses == {"i32", "i64"}

ASSUME TypesAssumption ==
  /\ TypeIndices \cap (AbstractHeaps \cup {"null", "any ref"}) = {}
  /\ \A t \in TypeIndices : Module.types[t].kind \in {"func", "struct", "array"}
  /\ \A t \in FuncTypes : func_type(t) \in Sigs
ASSUME SpacesAssumption ==
  /\ funcs \in Seq(FuncTypes) /\ refs \subseteq DOMAIN funcs
  /\ globals \in Seq([type : ValueTypes, var : BOOLEAN])
  /\ mems \in Seq(Addresses) /\ tables \in Seq([addr : Addresses, elem : RefTypes, init : BOOLEAN])
  /\ Module.elems \in Seq(RefTypes)
ASSUME BodyAssumption ==
  /\ Signature \in Sigs /\ Locals \in Seq(ValueTypes)
  /\ Blocks \subseteq Sigs /\ NullHeaps \subseteq Heaps /\ MaxVals \in Nat

----------------------------------------------------------------------------
(***************************************************************************)
(* Instructions that apply a signature: what the validator pops and pushes *)
(* (Validated), by how much the compiler moves its height (Lowered), and   *)
(* what run() takes its operands for and what it gives (Executed).         *)
(***************************************************************************)
Sig(params, results) == [params |-> params, results |-> results]

\* One function for several whose domains are disjoint.
Join(fs) ==
  [x \in UNION {DOMAIN fs[k] : k \in DOMAIN fs} |->
     fs[CHOOSE k \in DOMAIN fs : x \in DOMAIN fs[k]][x]]

Numeric(op) == {<<op, n>> : n \in Num}
Ints(op) == {<<op, n>> : n \in {"i32", "i64"}}
Conversions == {<<"cvtop", p[1], p[2]>> : p \in {q \in Num \X Num : q[1] # q[2]}}
Saturations == {<<"trunc_sat", a, b>> : a \in {"f32", "f64"}, b \in {"i32", "i64"}}
NumOf(i) == NumType(i[2])

LocalInstrs(op) == {<<op, k>> : k \in DOMAIN locals}
GlobalInstrs(op) == {<<op, k>> : k \in DOMAIN globals}
MemInstrs(op) == {<<op, k>> : k \in DOMAIN mems}
Accesses(op) == {<<op, k, n>> : k \in DOMAIN mems, n \in Num}
Copies(op, space) == {<<op, d, s>> : d \in DOMAIN space, s \in DOMAIN space}
TableInstrs(op) == {<<op, k>> : k \in DOMAIN tables}
Calls == {<<"call", f>> : f \in DOMAIN funcs}
\* memory.copy between memories of different address types is left out:
\* run() pops all three operands as the destination's (see the README).
MemoryCopies == {i \in Copies("memory.copy", mems) : mems[i[2]] = mems[i[3]]}
IndirectCalls(op) ==
  {<<op, t, k>> : t \in FuncTypes, k \in {j \in DOMAIN tables : HoldsFuncs(j)}}
TableCopies == {i \in Copies("table.copy", tables) : ref_subtype(Element(i[3]), Element(i[2]))}
TableInits ==
  {<<"table.init", k, e>> : k \in DOMAIN tables, e \in DOMAIN Module.elems}
InitsThatFit == {i \in TableInits : ref_subtype(Module.elems[i[3]], Element(i[2]))}
SettableGlobals == {i \in GlobalInstrs("global.set") : globals[i[2]].var}

ValidatedLocals ==
  Join(<<[i \in Numeric("const") |-> Sig(<<>>, <<NumOf(i)>>)],
         [i \in LocalInstrs("local.get") |-> Sig(<<>>, <<locals[i[2]]>>)],
         [i \in LocalInstrs("local.set") |-> Sig(<<locals[i[2]]>>, <<>>)],
         [i \in LocalInstrs("local.tee") |-> Sig(<<locals[i[2]]>>, <<locals[i[2]]>>)]>>)

ValidatedUnops == [i \in Numeric("unop") |-> Sig(<<NumOf(i)>>, <<NumOf(i)>>)]
ValidatedBinops == [i \in Numeric("binop") |-> Sig(<<NumOf(i), NumOf(i)>>, <<NumOf(i)>>)]
ValidatedCvtops == [i \in Conversions \cup Saturations |-> Sig(<<NumOf(i)>>, <<NumType(i[3])>>)]
ValidatedTests ==
  Join(<<[i \in Ints("testop") |-> Sig(<<NumOf(i)>>, <<I32>>)],
         [i \in Numeric("relop") |-> Sig(<<NumOf(i), NumOf(i)>>, <<I32>>)]>>)

ValidatedGlobals ==
  Join(<<[i \in GlobalInstrs("global.get") |-> Sig(<<>>, <<globals[i[2]].type>>)],
         [i \in SettableGlobals |-> Sig(<<globals[i[2]].type>>, <<>>)]>>)

ValidatedCalls ==
  Join(<<[i \in Calls |-> callee_type(i[2])],
         [i \in IndirectCalls("call_indirect") |->
            Sig(Append(func_type(i[2]).params, TableAddress(i[3])), func_type(i[2]).results)]>>)

ValidatedLoads ==
  [i \in Accesses("load") |-> Sig(<<Address(mems[i[2]])>>, <<NumType(i[3])>>)]
ValidatedStores ==
  [i \in Accesses("store") |-> Sig(<<Address(mems[i[2]]), NumType(i[3])>>, <<>>)]

ValidatedMemory ==
  LET at(i) == Address(mems[i[2]])
  IN  Join(<<[i \in MemInstrs("memory.size") |-> Sig(<<>>, <<at(i)>>)],
             [i \in MemInstrs("memory.grow") |-> Sig(<<at(i)>>, <<at(i)>>)],
             [i \in MemInstrs("memory.fill") |-> Sig(<<at(i), I32, at(i)>>, <<>>)],
             [i \in MemInstrs("memory.init") |-> Sig(<<at(i), I32, I32>>, <<>>)],
             [i \in MemoryCopies |->
                Sig(<<at(i), Address(mems[i[3]]), Shorter(mems[i[2]], mems[i[3]])>>, <<>>)]>>)

ValidatedTables ==
  LET at(i) == TableAddress(i[2])
      rt(i) == Element(i[2])
  IN  Join(<<[i \in TableInstrs("table.get") |-> Sig(<<at(i)>>, <<rt(i)>>)],
             [i \in TableInstrs("table.set") |-> Sig(<<at(i), rt(i)>>, <<>>)],
             [i \in TableInstrs("table.size") |-> Sig(<<>>, <<at(i)>>)],
             [i \in TableInstrs("table.grow") |-> Sig(<<rt(i), at(i)>>, <<at(i)>>)],
             [i \in TableInstrs("table.fill") |-> Sig(<<at(i), rt(i), at(i)>>, <<>>)],
             [i \in TableCopies |->
                Sig(<<at(i), TableAddress(i[3]), Shorter(tables[i[2]].addr, tables[i[3]].addr)>>,
                    <<>>)],
             [i \in InitsThatFit |-> Sig(<<at(i), I32, I32>>, <<>>)]>>)

NoOps == {<<"nop">>, <<"elem.drop">>, <<"data.drop">>}
RefFuncs == {<<"ref.func", f>> : f \in refs}
RefNulls == {<<"ref.null", h>> : h \in NullHeaps}

ValidatedRefs ==
  Join(<<[i \in NoOps |-> Sig(<<>>, <<>>)],
         [i \in RefNulls |-> Sig(<<>>, <<RefType(TRUE, i[2])>>)],
         [i \in RefFuncs |-> Sig(<<>>, <<RefType(FALSE, funcs[i[2]])>>)]>>)

Validated ==
  Join(<<ValidatedLocals, ValidatedUnops, ValidatedBinops, ValidatedCvtops, ValidatedTests,
         ValidatedGlobals, ValidatedCalls, ValidatedLoads, ValidatedStores, ValidatedMemory,
         ValidatedTables, ValidatedRefs>>)

----------------------------------------------------------------------------
LoweredLocals(i) ==
  CASE i[1] \in {"const", "local.get", "global.get", "ref.null", "ref.func"} -> 1
    [] i[1] \in {"local.set", "global.set"} -> -1
    [] i[1] = "local.tee" -> 0

LoweredCalls(i) ==
  LET sig == IF i[1] = "call" THEN callee_type(i[2]) ELSE func_type(i[2])
  IN  Len(sig.results) - Len(sig.params) - (IF i[1] = "call" THEN 0 ELSE 1)

LoweredTables(i) ==
  CASE i[1] = "table.get"  -> 0
    [] i[1] = "table.set"  -> -2
    [] i[1] = "table.grow" -> -1
    [] i[1] = "table.size" -> 1
    [] i[1] \in {"table.init", "table.copy", "table.fill"} -> -3

LoweredAccesses(i) == IF i[1] = "store" THEN -2 ELSE 0

LoweredMemory(i) ==
  CASE i[1] = "memory.size" -> 1
    [] i[1] = "memory.grow" -> 0
    [] i[1] \in {"memory.init", "memory.copy", "memory.fill"} -> -3

LoweredTests(i) == IF i[1] = "relop" THEN -1 ELSE 0
LoweredInts(i) == IF i[1] = "binop" THEN -1 ELSE 0
LoweredFloats(i) == IF i[1] = "binop" THEN -1 ELSE 0
LoweredCvtops(i) == 0

Lowered(i) ==
  CASE i[1] \in {"load", "store"}              -> LoweredAccesses(i)
    [] i[1] \in {"testop", "relop"}            -> LoweredTests(i)
    [] i[1] \in {"cvtop", "trunc_sat"}         -> LoweredCvtops(i)
    [] i[1] \in {"unop", "binop"} /\ i[2] \in {"i32", "i64"} -> LoweredInts(i)
    [] i[1] \in {"unop", "binop"} /\ i[2] \in {"f32", "f64"} -> LoweredFloats(i)
    [] i[1] \in {"call", "call_indirect"}      -> LoweredCalls(i)
    [] i \in DOMAIN ValidatedTables            -> LoweredTables(i)
    [] i \in DOMAIN ValidatedMemory            -> LoweredMemory(i)
    [] i \in NoOps                             -> 0
    [] OTHER                                   -> LoweredLocals(i)

----------------------------------------------------------------------------
(***************************************************************************)
(* run().  pop_val! decodes a slot as a number or a reference, pop_address *)
(* as the address type of the memory or table found at run time; a value   *)
(* that is stored is taken for the type of the place.                      *)
(***************************************************************************)
Op(takes, gives) == [takes |-> takes, gives |-> gives]

ExecutedLocals(i) ==
  CASE i[1] = "const"      -> Op(<<>>, <<NumOf(i)>>)
    [] i[1] = "local.get"  -> Op(<<>>, <<HeldLocal(i[2])>>)
    [] i[1] = "local.set"  -> Op(<<locals[i[2]]>>, <<>>)
    [] i[1] = "local.tee"  -> Op(<<locals[i[2]]>>, <<locals[i[2]]>>)
    [] i[1] = "global.get" -> Op(<<>>, <<globals[i[2]].type>>)
    [] i[1] = "global.set" -> Op(<<globals[i[2]].type>>, <<>>)
    [] i[1] = "ref.null"   -> Op(<<>>, <<Null>>)
    [] i[1] = "ref.func"   -> Op(<<>>, <<RefType(FALSE, funcs[i[2]])>>)

\* The arguments become locals or leave for the host; call_indirect compares
\* the callee's type with the expected one first.
ExecutedCalls(i) ==
  IF i[1] = "call" THEN Op(callee_type(i[2]).params, callee_type(i[2]).results)
  ELSE Op(Append(func_type(i[2]).params, TableAddress(i[3])), func_type(i[2]).results)

ExecutedTables(i) ==
  LET at == TableAddress(i[2])
      rt == Element(i[2])
  IN  CASE i[1] = "table.get"  -> Op(<<at>>, <<HeldElement(i[2])>>)
        [] i[1] = "table.set"  -> Op(<<at, rt>>, <<>>)
        [] i[1] = "table.init" -> Op(<<at, I32, I32>>, <<>>)
        [] i[1] = "table.copy" ->
             Op(<<at, TableAddress(i[3]),
                  IF at = TableAddress(i[3]) THEN at ELSE I32>>, <<>>)
        [] i[1] = "table.grow" -> Op(<<rt, at>>, <<at>>)
        [] i[1] = "table.size" -> Op(<<>>, <<at>>)
        [] i[1] = "table.fill" -> Op(<<at, rt, at>>, <<>>)

ExecutedLoads(i) == Op(<<Address(mems[i[2]])>>, <<NumType(i[3])>>)
ExecutedStores(i) == Op(<<Address(mems[i[2]]), NumType(i[3])>>, <<>>)

ExecutedMemory(i) ==
  LET at == Address(mems[i[2]])
  IN  CASE i[1] = "memory.size" -> Op(<<>>, <<at>>)
        [] i[1] = "memory.grow" -> Op(<<at>>, <<at>>)
        [] i[1] = "memory.init" -> Op(<<at, I32, I32>>, <<>>)
        [] i[1] = "memory.copy" -> Op(<<at, at, at>>, <<>>)
        [] i[1] = "memory.fill" -> Op(<<at, I32, at>>, <<>>)

ExecutedInts(i) ==
  CASE i[1] = "testop" -> Op(<<NumOf(i)>>, <<I32>>)
    [] i[1] = "relop"  -> Op(<<NumOf(i), NumOf(i)>>, <<I32>>)
    [] i[1] = "unop"   -> Op(<<NumOf(i)>>, <<NumOf(i)>>)
    [] i[1] = "binop"  -> Op(<<NumOf(i), NumOf(i)>>, <<NumOf(i)>>)

ExecutedFloats(i) ==
  CASE i[1] = "relop"  -> Op(<<NumOf(i), NumOf(i)>>, <<I32>>)
    [] i[1] = "unop"   -> Op(<<NumOf(i)>>, <<NumOf(i)>>)
    [] i[1] = "binop"  -> Op(<<NumOf(i), NumOf(i)>>, <<NumOf(i)>>)

ExecutedCvtops(i) == Op(<<NumOf(i)>>, <<NumType(i[3])>>)
ExecutedSaturations(i) == Op(<<NumOf(i)>>, <<NumType(i[3])>>)

Executed(i) ==
  CASE i[1] = "load"                            -> ExecutedLoads(i)
    [] i[1] = "store"                           -> ExecutedStores(i)
    [] i[1] = "cvtop"                           -> ExecutedCvtops(i)
    [] i[1] = "trunc_sat"                       -> ExecutedSaturations(i)
    [] i[1] \in {"testop", "relop", "unop", "binop"} ->
         IF i[2] \in {"i32", "i64"} THEN ExecutedInts(i) ELSE ExecutedFloats(i)
    [] i[1] \in {"call", "call_indirect"}       -> ExecutedCalls(i)
    [] i \in DOMAIN ValidatedTables             -> ExecutedTables(i)
    [] i \in DOMAIN ValidatedMemory             -> ExecutedMemory(i)
    [] i \in NoOps                              -> Op(<<>>, <<>>)
    [] OTHER                                    -> ExecutedLocals(i)

\* The references table.copy and table.init move: from a place of one type to
\* a place of another.
Moves(i) ==
  CASE i[1] = "table.copy" -> {<<HeldElement(i[3]), Element(i[2])>>}
    [] i[1] = "table.init" -> {<<Module.elems[i[3]], Element(i[2])>>}
    [] OTHER               -> {}

----------------------------------------------------------------------------
(***************************************************************************)
(* FunctionContext: popping from the frame's own operands, an unreachable  *)
(* frame giving Bot when it has none left.                                 *)
(***************************************************************************)
Top == Last(control)
Depth == Len(control)
Own == Len(vals) - Top.value_height   \* operands of the innermost frame
Least(a, b) == IF a < b THEN a ELSE b

\* pop_values_expect succeeds, and the operands it leaves.
CanPop(expected) ==
  LET n == Len(expected)
      own == Own
  IN  /\ n <= own \/ Top.unreachable
      /\ \A k \in 1..Least(n, own) :
           \/ vals[Len(vals) - k + 1] = Bot
           \/ value_subtype(vals[Len(vals) - k + 1], expected[n - k + 1])

Rest(n) == SubSeq(vals, 1, Len(vals) - Least(n, Own))

\* The k-th operand from the top as pop_value returns it.
Operand(k) == IF k <= Own THEN vals[Len(vals) - k + 1] ELSE Bot
Has(n) == n <= Own \/ Top.unreachable

\* What pop_values_expect_returning gives back: the operands as they were.
Returned(n) == [k \in 1..n |-> Operand(n - k + 1)]

\* Mutant of LabelTypes: a loop's label takes the loop's results.
LabelTypesEnd(frame) == frame.end_types
LabelTypes(frame) == IF frame.is_loop THEN frame.start_types ELSE frame.end_types

Frame(l) == control[Depth - l]
Label(l) == LabelTypes(Frame(l))
Labels == 0..(Depth - 1)
return_types == control[1].end_types

\* Mutant of Truncated: the operands of the frames around it go too.
TruncatedAll(vs, frame) == <<>>
\* mark_unreachable drops the operands of the innermost frame.
Truncated(vs, frame) == SubSeq(vs, 1, frame.value_height)

MarkUnreachable ==
  /\ vals' = Truncated(vals, Top)
  /\ control' = [control EXCEPT ![Depth].unreachable = TRUE]

PushControl(frames, rest, b, kind) ==
  /\ control' = Append(frames, [start_types |-> b.params, end_types |-> b.results,
                                value_height |-> Len(rest), unreachable |-> FALSE,
                                is_loop |-> kind = "loop"])
  /\ vals' = rest \o b.params

\* pop_control: the results, and nothing else above the frame.
CanPopControl ==
  /\ CanPop(Top.end_types)
  /\ Len(Rest(Len(Top.end_types))) = Top.value_height
Below == SubSeq(vals, 1, Top.value_height)

----------------------------------------------------------------------------
(***************************************************************************)
(* The compiler's heights (compile_instruction drops every instruction but *)
(* a block while its height is UNREACHABLE_DEPTH).                         *)
(***************************************************************************)
UnreachableDepth == -1000      \* i32::MIN in the code: below every height
U16(n) == n % 65536            \* keep and drop are stored as u16
Dropped == height = UnreachableDepth

Shift(d) == height' = IF Dropped THEN height ELSE height + d

\* entry_stack_height, h being the height without an if's condition.
Entry(h, m) == IF h = UnreachableDepth THEN 0 ELSE h - m

PushBlock(kind, h, b) ==
  blocks' = Append(blocks, [kind |-> kind, entry |-> Entry(h, Len(b.params)),
              arity |-> Len(IF kind = "loop" THEN b.params ELSE b.results),
              results |-> Len(b.results), saved |-> h])

BlockAt(l) == blocks[Len(blocks) - l]

\* The drop count of a branch out of height h.
Drop(h, l, keep) == U16(h - BlockAt(l).entry - keep)

----------------------------------------------------------------------------
(***************************************************************************)
(* The execution.                                                          *)
(***************************************************************************)
Live == run.mode = "live"
Gone == [mode |-> "gone", stack |-> <<>>, to |-> 0]
LiveOn(stack) == [mode |-> "live", stack |-> stack, to |-> 0]
SkipTo(mode, stack, depth) == [mode |-> mode, stack |-> stack, to |-> depth]

Stack == run.stack
TopOf(stack, n) == SubSeq(stack, Len(stack) - n + 1, Len(stack))
Under(stack, n) == SubSeq(stack, 1, Len(stack) - n)

CanTake(takes) == Len(Stack) >= Len(takes) /\ FitAll(TopOf(Stack, Len(takes)), takes)

Fail(what) == run' = Gone /\ fault' = what
Proceed(r) == run' = r /\ UNCHANGED fault

Execute(op, moves) ==
  IF ~Live THEN UNCHANGED rvars
  ELSE IF ~CanTake(op.takes) THEN Fail("operand")
  ELSE IF \E m \in moves : ~Values(m[1]) \subseteq Values(m[2]) THEN Fail("place")
  ELSE \E vs \in ValuesOf(op.gives) : Proceed(LiveOn(Under(Stack, Len(op.takes)) \o vs))

\* keep_top moves the kept operands over the dropped ones.
KeepTop(stack, keep, drop) ==
  IF drop = 0 THEN stack ELSE Under(stack, keep + drop) \o TopOf(stack, keep)

\* do_return (the Return op, and the one behind the function's end label).
Return(stack) ==
  LET n == Len(Signature.results)
  IN  IF Len(stack) >= n /\ FitAll(TopOf(stack, n), Signature.results)
      THEN Proceed(Gone) ELSE Fail("results")

\* At the head of a loop: the operands below it, and the parameters on top.
EnterLoop(stack, frame) ==
  LET n == Len(frame.start_types)
  IN  IF Len(stack) = frame.value_height + n /\ FitAll(TopOf(stack, n), frame.start_types)
      THEN Proceed(Gone) ELSE Fail("label")

\* A taken branch to label l from height h.
Jump(stack, h, l, keep) ==
  LET drop == Drop(h, l, keep)
      landed == KeepTop(stack, keep, drop)
  IN  IF Len(stack) < keep + drop THEN Fail("operand")
      ELSE IF BlockAt(l).kind = "loop" THEN EnterLoop(landed, Frame(l))
      ELSE IF BlockAt(l).kind = "function" THEN Return(landed)
      ELSE Proceed(SkipTo("to end", landed, Depth - l))

----------------------------------------------------------------------------
(***************************************************************************)
(* validate_instruction.                                                   *)
(***************************************************************************)
Usable == [r \in Repertoires |-> {i \in DOMAIN Validated : i[1] \in r}]

Plain ==
  \E i \in Usable[uses] :
    LET sig == Validated[i]
    IN  /\ CanPop(sig.params)
        /\ vals' = Rest(Len(sig.params)) \o sig.results
        /\ Shift(Lowered(i))
        /\ Execute(Executed(i), Moves(i))
        /\ UNCHANGED <<control, blocks>>

\* An instruction with a rule of its own: n operands off, ts on.
Replace(n, ts) == vals' = Rest(n) \o ts /\ UNCHANGED control

DropOne ==
  /\ Has(1) /\ Replace(1, <<>>)
  /\ Shift(-1) /\ UNCHANGED blocks
  /\ Execute(Op(<<Anything>>, <<>>), {})

SelectTyped ==
  \E t \in {NumType(n) : n \in Num} \cup {FuncRef} :
    /\ CanPop(<<t, t, I32>>) /\ Replace(3, <<t>>)
    /\ Shift(-2) /\ UNCHANGED blocks
    /\ Execute(Op(<<t, t, I32>>, <<t>>), {})

SelectUntyped ==
  /\ Has(3) /\ (Operand(1) = Bot \/ Operand(1) = I32)
  /\ ~Operand(2).ref /\ ~Operand(3).ref
  /\ Operand(2) = Operand(3) \/ Bot \in {Operand(2), Operand(3)}
  /\ LET t == IF Operand(2) = Bot THEN Operand(3) ELSE Operand(2)
     IN  /\ Replace(3, <<t>>)
         /\ Execute(Op(<<t, t, I32>>, <<t>>), {})
  /\ Shift(-2) /\ UNCHANGED blocks

RefIsNull ==
  /\ Has(1) /\ (Operand(1) = Bot \/ Operand(1).ref)
  /\ Replace(1, <<I32>>)
  /\ Shift(0) /\ UNCHANGED blocks
  /\ Execute(Op(<<AnyRef>>, <<I32>>), {})

RefAsNonNull ==
  /\ Has(1) /\ (Operand(1) = Bot \/ Operand(1).ref)
  /\ Replace(1, <<IF Operand(1) = Bot THEN Bot ELSE RefType(FALSE, Operand(1).heap)>>)
  /\ Shift(0) /\ UNCHANGED blocks
  /\ IF Live /\ CanTake(<<AnyRef>>)
     THEN Proceed(IF Last(Stack) = Null THEN Gone ELSE run)
     ELSE Execute(Op(<<AnyRef>>, <<>>), {})

Unreachable ==
  /\ MarkUnreachable
  /\ height' = UnreachableDepth /\ UNCHANGED blocks
  /\ IF Live THEN Proceed(Gone) ELSE UNCHANGED rvars

Br ==
  \E l \in Labels :
    /\ CanPop(Label(l)) /\ MarkUnreachable
    /\ height' = UnreachableDepth /\ UNCHANGED blocks
    /\ IF Live THEN Jump(Stack, height, l, BlockAt(l).arity) ELSE UNCHANGED rvars

\* The condition and the label's types, popped and the latter pushed back.
BrIf ==
  \E l \in Labels :
    /\ CanPop(Append(Label(l), I32))
    /\ Replace(1 + Len(Label(l)), Label(l))
    /\ Shift(-1) /\ UNCHANGED blocks
    /\ IF ~Live THEN UNCHANGED rvars
       ELSE IF ~CanTake(<<I32>>) THEN Fail("operand")
       ELSE \/ Jump(Under(Stack, 1), height - 1, l, BlockAt(l).arity)
            \/ Proceed(LiveOn(Under(Stack, 1)))

\* A table of one label and the default.
BrTable ==
  \E l \in Labels, d \in Labels :
    /\ Len(Label(l)) = Len(Label(d))
    /\ CanPop(Append(Label(l), I32))
    /\ CanPop(Append(Label(d), I32))
    /\ MarkUnreachable
    /\ height' = UnreachableDepth /\ UNCHANGED blocks
    /\ IF ~Live THEN UNCHANGED rvars
       ELSE IF ~CanTake(<<I32>>) THEN Fail("operand")
       ELSE \E t \in {l, d} : Jump(Under(Stack, 1), height - 1, t, BlockAt(d).arity)

ReturnOp ==
  /\ CanPop(return_types) /\ MarkUnreachable
  /\ height' = UnreachableDepth /\ UNCHANGED blocks
  /\ IF Live THEN Return(Stack) ELSE UNCHANGED rvars

\* return_call: the callee's results become the caller's.
ReturnsFit(results) ==
  /\ Len(results) = Len(return_types)
  /\ \A k \in DOMAIN results : value_subtype(results[k], return_types[k])

Leave(sig, operands) ==
  /\ ReturnsFit(sig.results) /\ CanPop(operands) /\ MarkUnreachable
  /\ height' = UnreachableDepth /\ UNCHANGED blocks
  /\ IF ~Live THEN UNCHANGED rvars
     ELSE IF ~CanTake(operands) THEN Fail("operand")
     ELSE IF \E vs \in ValuesOf(sig.results) : ~FitAll(vs, Signature.results) THEN Fail("results")
     ELSE Proceed(Gone)

ReturnCall == \E f \in DOMAIN funcs : Leave(callee_type(f), callee_type(f).params)

ReturnCallIndirect ==
  \E i \in IndirectCalls("return_call_indirect") :
    Leave(func_type(i[2]), Append(func_type(i[2]).params, TableAddress(i[3])))

Open(kind) ==
  \E b \in Blocks :
    /\ CanPop(b.params) /\ PushControl(control, Rest(Len(b.params)), b, kind)
    /\ PushBlock(kind, height, b) /\ UNCHANGED height
    /\ UNCHANGED rvars

Block == Open("block")
Loop == Open("loop")

If ==
  \E b \in Blocks :
    /\ CanPop(Append(b.params, I32))
    /\ PushControl(control, Rest(1 + Len(b.params)), b, "if")
    /\ Shift(-1) /\ PushBlock("then", height', b)
    /\ IF ~Live THEN UNCHANGED rvars
       ELSE IF ~CanTake(<<I32>>) THEN Fail("operand")
       ELSE \/ Proceed(LiveOn(Under(Stack, 1)))
            \/ Proceed(SkipTo("to else", Under(Stack, 1), Depth + 1))

\* Mutant of ElseHeight: the height the first arm ends with.
ElseHeightKept(b) == height
\* The height before the first arm.
ElseHeight(b) == b.saved

\* The end of the first arm; an absent else is an empty one.
Else ==
  /\ Last(blocks).kind = "then" /\ CanPopControl
  /\ PushControl(Front(control), Below,
                 [params |-> Top.start_types, results |-> Top.end_types], "if")
  /\ height' = ElseHeight(Last(blocks))
  /\ blocks' = [blocks EXCEPT ![Len(blocks)].kind = "else"]
  /\ IF Live THEN Proceed(SkipTo("to end", Stack, Depth))
     ELSE IF run.mode = "to else" /\ run.to = Depth THEN Proceed(LiveOn(Stack))
     ELSE UNCHANGED rvars

End ==
  /\ Depth > 1 /\ Last(blocks).kind # "then" /\ CanPopControl
  /\ control' = Front(control) /\ vals' = Below \o Top.end_types
  /\ height' = Last(blocks).entry + Last(blocks).results
  /\ blocks' = Front(blocks)
  /\ IF run.mode = "to end" /\ run.to = Depth THEN Proceed(LiveOn(Stack)) ELSE UNCHANGED rvars

EndFunction ==
  /\ Depth = 1 /\ CanPopControl
  /\ control' = <<>> /\ vals' = <<>> /\ blocks' = <<>> /\ UNCHANGED height
  /\ IF Live THEN Return(Stack) ELSE UNCHANGED rvars

Init ==
  /\ vals = <<>>
  /\ control = <<[start_types |-> <<>>, end_types |-> Signature.results, value_height |-> 0,
                  unreachable |-> FALSE, is_loop |-> FALSE]>>
  /\ height = Len(Signature.params)
  /\ blocks = <<[kind |-> "function", entry |-> height, arity |-> Len(Signature.results),
                 results |-> Len(Signature.results), saved |-> height]>>
  /\ run = LiveOn(<<>>)
  /\ fault = "none"
  /\ uses \in Repertoires

Next ==
  /\ control # <<>>
  /\ \/ Plain \/ DropOne \/ SelectTyped \/ SelectUntyped \/ RefIsNull \/ RefAsNonNull
     \/ Unreachable \/ Br \/ BrIf \/ BrTable \/ ReturnOp \/ ReturnCall \/ ReturnCallIndirect
     \/ Block \/ Loop \/ If \/ Else \/ End \/ EndFunction
  /\ height' = UnreachableDepth
       \/ height' - Len(Signature.params) - Len(vals') \in -MaxDrift..MaxDrift
  /\ Len(vals') <= MaxVals /\ Len(vals') + 2 * Len(control') <= MaxSize /\ UNCHANGED uses

Spec == Init /\ [][Next]_vars

----------------------------------------------------------------------------
(***************************************************************************)
(* Properties.                                                             *)
(***************************************************************************)
\* Frames nest: each starts at or above the one around it and at or below the
\* operands, one block context to a frame, and the types are types.
TypeOK ==
  /\ \A k \in DOMAIN vals : vals[k] \in ValueTypes \cup {Bot}
  /\ Len(blocks) = Depth
  /\ \A k \in 1..Depth :
       /\ control[k].value_height <= Len(vals)
       /\ k > 1 => control[k - 1].value_height <= control[k].value_height
  /\ height \in Int
  /\ run.mode \in {"live", "to end", "to else", "gone"}
  /\ fault \in {"none", "operand", "place", "label", "results"}

\* An accepted function never finds an operand missing or of a type other
\* than the one run() decodes or stores it as, and no reference lands in a
\* table whose type does not admit it.  (This and the next two hold where
\* DefaultsFit does: find_unset_local.cfg has a body where it does not.)
OperandsFit == fault \notin {"operand", "place"}

\* Where control is, the validator's operands are the machine's: as many, each
\* of its type; and they are the height the compiler counts.
StackFits ==
  control # <<>> /\ Live =>
    /\ FitAll(Stack, vals) /\ Bot \notin {vals[k] : k \in DOMAIN vals}
    /\ height = Len(Signature.params) + Len(vals)

\* A branch back finds the loop's parameters above the operands the loop was
\* entered on, and whatever way a function returns its results have its types.
LabelsReceive == fault \notin {"label", "results"}

\* The code the compiler leaves out, and the code the validator lets pass with
\* operands that are not there, is never run.
DroppedCodeIsDead ==
  Live => ~Dropped /\ \A k \in DOMAIN control : ~control[k].unreachable
=============================================================================
