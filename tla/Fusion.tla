------------------------------ MODULE Fusion -------------------------------
(***************************************************************************)
(* The compiler's last passes over a function's ops, and the ops they      *)
(* make: strip_dead_labels, fuse_ops, which merges two neighbouring ops    *)
(* into one, and assemble, which turns labels into positions.  The code    *)
(* that comes out is run beside the same ops assembled without fusion.     *)
(*                                                                         *)
(* A body is written op by op, as compile_instruction emits them, in one   *)
(* of several Repertoires.  An op is a record named by k.  Integers are    *)
(* words of Bits bits, floats are 0, 1 and NaN; the slots of the value     *)
(* stack and the locals hold numbers.                                      *)
(***************************************************************************)
EXTENDS Integers, Sequences, FiniteSets, SequencesExt

CONSTANTS
  Bits,          \* of an i32 and of an i64
  Repertoires,   \* records [type, args, locals, labels, result, ops, values]
  MaxOps         \* bound of a body, labels included

ASSUME BitsAssumption == Bits \in Nat \ {0}

Types == {"I32", "I64", "F32", "F64"}

ASSUME RepertoiresAssumption ==
  \A r \in Repertoires :
    /\ r.type \in Types /\ r.result \in Types
    /\ r.args \in Seq(Types) /\ r.locals \in Seq(Types) /\ r.labels \in Seq(Seq(Types))
    /\ r.values \in SUBSET Nat

VARIABLES
  uses,       \* the repertoire of this body
  source,     \* the ops emitted, labels among them
  types,      \* the operand types where the body ends, Dead after a jump
  code,       \* the fused code, <<>> before
  plain,      \* the same without fusion
  machine,    \* the activation that runs code: [status, pc, stack, locals, cell]
  twin        \* the one that runs plain

wvars == <<uses, source, types>>
vars == <<uses, source, types, code, plain, machine, twin>>

Dead == <<"dead">>

----------------------------------------------------------------------------
(***************************************************************************)
(* Comparisons, as run() makes them: b is the operand below a.             *)
(***************************************************************************)
Nan == 2
Words == 0..(2^Bits - 1)
Domain(ty) == IF ty \in {"I32", "I64"} THEN Words ELSE 0..Nan

Signed(v) == IF v < 2^(Bits - 1) THEN v ELSE v - 2^Bits

Ordered(rel, b, a) ==
  CASE rel = "Lt" -> b < a [] rel = "Gt" -> b > a [] rel = "Le" -> b <= a [] rel = "Ge" -> b >= a

\* A comparison is [type, rel, signed]; signed matters to the order of integers only.
Related(c, b, a) ==
  CASE c.rel = "Eq" -> b = a /\ ~(c.type \in {"F32", "F64"} /\ a = Nan)
    [] c.rel = "Ne" -> b # a \/ (c.type \in {"F32", "F64"} /\ a = Nan)
    [] c.type \in {"F32", "F64"} -> b # Nan /\ a # Nan /\ Ordered(c.rel, b, a)
    [] OTHER -> IF c.signed THEN Ordered(c.rel, Signed(b), Signed(a)) ELSE Ordered(c.rel, b, a)

IntCompares(ty) ==
  [type : {ty}, rel : {"Eq", "Ne"}, signed : {TRUE}]
    \cup [type : {ty}, rel : {"Lt", "Gt", "Le", "Ge"}, signed : BOOLEAN]
FloatCompares(ty) == [type : {ty}, rel : {"Eq", "Ne", "Lt", "Gt", "Le", "Ge"}, signed : {TRUE}]

I32Compares == IntCompares("I32")
I64Compares == IntCompares("I64")
F32Compares == FloatCompares("F32")
F64Compares == FloatCompares("F64")

Flag(b) == IF b THEN 1 ELSE 0

----------------------------------------------------------------------------
(***************************************************************************)
(* strip_dead_labels.                                                      *)
(***************************************************************************)
IsLabel(op) == op.k = "Label"
Jumps == {"Jump", "JumpIf", "JumpIfNot"}

LiveLabels(ops) ==
  {ops[i].target : i \in {j \in DOMAIN ops : ops[j].k \in Jumps}}
    \cup UNION {{e.target : e \in ToSet(ops[i].entries)} :
                  i \in {j \in DOMAIN ops : ops[j].k = "JumpTable"}}

\* The elements of a sequence at the positions in P, in their order.
Rank(P, i) == Cardinality({j \in P : j <= i})
Kept(ops, P) == [n \in 1..Cardinality(P) |-> ops[CHOOSE i \in P : Rank(P, i) = n]]

Live(ops) == {i \in DOMAIN ops : IsLabel(ops[i]) => ops[i].label \in LiveLabels(ops)}

StripDeadLabels(ops) == Kept(ops, Live(ops))

----------------------------------------------------------------------------
(***************************************************************************)
(* fuse_ops.                                                               *)
(***************************************************************************)
Accesses == {"Load", "Store"}

FusesLocal(p, q) == p.k = "LocalGet" /\ q.k \in {"LocalSet", "LocalGet", "Return"} \cup Accesses

\* Only i32.eqz has a form that jumps when its result is zero.
FusesEqZero(p, q) ==
  p.k = "EqZero" /\ (q.k = "JumpIf" \/ (q.k = "JumpIfNot" /\ p.type = "I32"))

FusesCompare(p, q) ==
  /\ p.k = "Compare" /\ q.k = "JumpIf"
  /\ p.cmp \in I32Compares \cup I64Compares \cup F32Compares \cup F64Compares

Fuses(p, q) == FusesLocal(p, q) \/ FusesEqZero(p, q) \/ FusesCompare(p, q)

FusedLocal(p, q) ==
  CASE q.k = "LocalSet" -> [k |-> "LocalGetLocalSet", get |-> p.local, set |-> q.local]
    [] q.k = "LocalGet" -> [k |-> "LocalGet2", a |-> p.local, b |-> q.local]
    [] q.k = "Return" -> [k |-> "LocalGetReturn", local |-> p.local]
    [] q.k = "Load" -> [k |-> "LocalGetLoad", local |-> p.local]
    [] q.k = "Store" -> [k |-> "LocalGetStore", local |-> p.local]

FusedBranch(p, q) ==
  IF p.k = "Compare"
  THEN [k |-> "CompareJumpIf", cmp |-> p.cmp, target |-> q.target, keep |-> q.keep, drop |-> q.drop]
  ELSE [k |-> IF q.k = "JumpIf" THEN "EqZeroJumpIf" ELSE "EqZeroJumpIfNot",
        target |-> q.target, keep |-> q.keep, drop |-> q.drop]

Fused(p, q) == IF FusesLocal(p, q) THEN FusedLocal(p, q) ELSE FusedBranch(p, q)

\* The pattern at position i of ops: two ops next to each other.
PairAt(ops, i) == i < Len(ops) /\ Fuses(ops[i], ops[i + 1])

\* The positions the loop visits: all but the second of a pair it has merged.
Visited(ops) ==
  LET visited[i \in DOMAIN ops] == i = 1 \/ ~(visited[i - 1] /\ PairAt(ops, i - 1))
  IN  {i \in DOMAIN ops : visited[i]}

\* Mutant of FuseOps: a label between the two does not stop them, it goes before them.
FuseOpsOverLabels(ops) ==
  LET over(i) == i > 0 /\ i + 1 < Len(ops) /\ IsLabel(ops[i + 1]) /\ Fuses(ops[i], ops[i + 2])
      moved == [i \in DOMAIN ops |-> IF over(i) THEN ops[i + 1]
                                     ELSE IF over(i - 1) THEN ops[i - 1] ELSE ops[i]]
  IN  Kept([i \in DOMAIN moved |-> IF PairAt(moved, i) THEN Fused(moved[i], moved[i + 1]) ELSE moved[i]],
           Visited(moved))

FuseOps(ops) ==
  Kept([i \in DOMAIN ops |-> IF PairAt(ops, i) THEN Fused(ops[i], ops[i + 1]) ELSE ops[i]],
       Visited(ops))

----------------------------------------------------------------------------
(***************************************************************************)
(* assemble: label ids become 0-based positions among the ops.             *)
(***************************************************************************)
Proper(ops) == {i \in DOMAIN ops : ~IsLabel(ops[i])}
LabelAt(ops, l) == {i \in DOMAIN ops : IsLabel(ops[i]) /\ ops[i].label = l}

\* A label that is nowhere keeps the map's initial 0.
Position(ops, l) == Cardinality({j \in Proper(ops) : \E i \in LabelAt(ops, l) : j < i})

HasTarget(op) == op.k \in Jumps \cup {"CompareJumpIf", "EqZeroJumpIf", "EqZeroJumpIfNot"}

ResolveTargets(ops, op) ==
  IF HasTarget(op) THEN [op EXCEPT !.target = Position(ops, @)]
  ELSE IF op.k = "JumpTable"
       THEN [op EXCEPT !.entries =
               [e \in DOMAIN op.entries |-> [op.entries[e] EXCEPT !.target = Position(ops, @)]]]
  ELSE op

Assemble(ops) == Kept([i \in DOMAIN ops |-> ResolveTargets(ops, ops[i])], Proper(ops))

----------------------------------------------------------------------------
(***************************************************************************)
(* run(), one op.  The pc has been advanced when an op executes.           *)
(***************************************************************************)
Push(s, v) == [s EXCEPT !.stack = Append(@, v)]
Pops(s, n) == [s EXCEPT !.stack = SubSeq(@, 1, Len(@) - n)]
Peek(s, n) == s.stack[Len(s.stack) - n]     \* n = 0 is the top

KeepTop(stack, keep, drop) ==
  SubSeq(stack, 1, Len(stack) - keep - drop) \o SubSeq(stack, Len(stack) - keep + 1, Len(stack))

JumpTo(s, t) == [s EXCEPT !.stack = KeepTop(@, t.keep, t.drop), !.pc = t.target]
JumpWhen(cond, s, t) == IF cond THEN JumpTo(s, t) ELSE s

\* The value returned is what the caller finds.
DoReturn(s) == [s EXCEPT !.status = "returned", !.stack = SubSeq(@, Len(@), Len(@))]
Trapped(s) == [s EXCEPT !.status = "trapped", !.stack = <<>>]

\* The memory is one cell of the body's type at address 0.
LoadFrom(s, base) == IF base = 0 THEN Push(s, s.cell) ELSE Trapped(s)
StoreTo(s, base, v) == IF base = 0 THEN [s EXCEPT !.cell = v] ELSE Trapped(s)

EntryOf(op, i) == IF i < Len(op.entries) - 1 THEN op.entries[i + 1] ELSE Last(op.entries)

ExecutePlain(op, s) ==
  CASE op.k = "LocalGet" -> Push(s, s.locals[op.local])
    [] op.k = "LocalSet" -> [Pops(s, 1) EXCEPT !.locals[op.local] = Peek(s, 0)]
    [] op.k = "Compare" -> Push(Pops(s, 2), Flag(Related(op.cmp, Peek(s, 1), Peek(s, 0))))
    [] op.k = "EqZero" -> Push(Pops(s, 1), Flag(Peek(s, 0) = 0))
    [] op.k = "Load" -> LoadFrom(Pops(s, 1), Peek(s, 0))
    [] op.k = "Store" -> StoreTo(Pops(s, 2), Peek(s, 1), Peek(s, 0))
    [] op.k = "Jump" -> JumpTo(s, op)
    [] op.k = "JumpIf" -> JumpWhen(Peek(s, 0) # 0, Pops(s, 1), op)
    [] op.k = "JumpIfNot" -> JumpWhen(Peek(s, 0) = 0, Pops(s, 1), op)
    [] op.k = "JumpTable" ->
         JumpTo(Pops(s, 1), EntryOf(op, Peek(s, 0)))
    [] op.k = "Return" -> DoReturn(s)

ExecuteLocalFused(op, s) ==
  CASE op.k = "LocalGetLocalSet" -> [s EXCEPT !.locals[op.set] = s.locals[op.get]]
    [] op.k = "LocalGet2" -> Push(Push(s, s.locals[op.a]), s.locals[op.b])
    [] op.k = "LocalGetReturn" -> DoReturn(Push(s, s.locals[op.local]))
    [] op.k = "LocalGetLoad" -> LoadFrom(s, s.locals[op.local])
    [] op.k = "LocalGetStore" -> StoreTo(Pops(s, 1), Peek(s, 0), s.locals[op.local])

ExecuteBranch(op, s) ==
  CASE op.k = "CompareJumpIf" -> JumpWhen(Related(op.cmp, Peek(s, 1), Peek(s, 0)), Pops(s, 2), op)
    [] op.k = "EqZeroJumpIf" -> JumpWhen(Peek(s, 0) = 0, Pops(s, 1), op)
    [] op.k = "EqZeroJumpIfNot" -> JumpWhen(Peek(s, 0) # 0, Pops(s, 1), op)

LocalFused == {"LocalGetLocalSet", "LocalGet2", "LocalGetReturn", "LocalGetLoad", "LocalGetStore"}
BranchFused == {"CompareJumpIf", "EqZeroJumpIf", "EqZeroJumpIfNot"}

Execute(ops, s) ==
  LET op == ops[s.pc + 1]
      next == [s EXCEPT !.pc = @ + 1]
  IN  IF op.k \in LocalFused THEN ExecuteLocalFused(op, next)
      ELSE IF op.k \in BranchFused THEN ExecuteBranch(op, next)
      ELSE ExecutePlain(op, next)

\* The ops of plain that an op of code stands for, and where they start.
Width(op) == IF op.k \in LocalFused \cup BranchFused THEN 2 ELSE 1
Start(pc) == pc + Cardinality({i \in 1..pc : Width(code[i]) = 2})

----------------------------------------------------------------------------
(***************************************************************************)
(* Writing a body.  Each label has its operand types; a jump to it keeps   *)
(* that many and drops what lies below, as emit_branch counts.             *)
(***************************************************************************)
Labels == DOMAIN uses.labels
Writing == code = <<>> /\ Len(source) < MaxOps
Emit(op, after) ==
  /\ source' = Append(source, op) /\ types' = after
  /\ UNCHANGED <<uses, code, plain, machine, twin>>

May(k) == Writing /\ k \in uses.ops /\ types # Dead
Ends(tail) == IsSuffix(tail, types)
Below(n) == SubSeq(types, 1, Len(types) - n)

EmitLocal ==
  \E l \in DOMAIN uses.locals :
    \/ /\ May("LocalGet")
       /\ Emit([k |-> "LocalGet", local |-> l], Append(types, uses.locals[l]))
    \/ /\ May("LocalSet") /\ Ends(<<uses.locals[l]>>)
       /\ Emit([k |-> "LocalSet", local |-> l], Below(1))

Comparisons == I32Compares \cup I64Compares \cup F32Compares \cup F64Compares

EmitCompare ==
  \/ /\ May("Compare")
     /\ \E c \in Comparisons :
          /\ c.type = uses.type /\ Ends(<<c.type, c.type>>)
          /\ Emit([k |-> "Compare", cmp |-> c], Append(Below(2), "I32"))
  \/ /\ May("EqZero") /\ uses.type \in {"I32", "I64"} /\ Ends(<<uses.type>>)
     /\ Emit([k |-> "EqZero", type |-> uses.type], Append(Below(1), "I32"))

EmitAccess ==
  \/ May("Load") /\ Ends(<<"I32">>) /\ Emit([k |-> "Load"], Append(Below(1), uses.type))
  \/ May("Store") /\ Ends(<<"I32", uses.type>>) /\ Emit([k |-> "Store"], Below(2))

Target(l, n) ==
  [target |-> l, keep |-> Len(uses.labels[l]), drop |-> n - Len(uses.labels[l])]
JumpOp(k, l, n) ==
  [k |-> k, target |-> l, keep |-> Len(uses.labels[l]), drop |-> n - Len(uses.labels[l])]
Reaches(l, stack) == IsSuffix(uses.labels[l], stack)

EmitJump ==
  \E l \in Labels :
    \/ /\ May("Jump") /\ Reaches(l, types)
       /\ Emit(JumpOp("Jump", l, Len(types)), Dead)
    \/ \E k \in {"JumpIf", "JumpIfNot"} :
         /\ May(k) /\ Ends(<<"I32">>) /\ Reaches(l, Below(1))
         /\ Emit(JumpOp(k, l, Len(types) - 1), Below(1))
    \/ /\ May("JumpTable") /\ Ends(<<"I32">>) /\ Reaches(l, Below(1))
       /\ \E d \in Labels :
            /\ uses.labels[d] = uses.labels[l]
            /\ Emit([k |-> "JumpTable",
                     entries |-> <<Target(l, Len(types) - 1), Target(d, Len(types) - 1)>>], Dead)

Emitted(l) == \E i \in DOMAIN source : IsLabel(source[i]) /\ source[i].label = l

EmitLabel ==
  /\ Writing
  /\ \E l \in Labels :
       /\ ~Emitted(l) /\ (types = Dead \/ types = uses.labels[l])
       /\ Emit([k |-> "Label", label |-> l], uses.labels[l])

EmitReturn ==
  /\ May("Return") /\ Ends(<<uses.result>>)
  /\ Emit([k |-> "Return"], Dead)

\* Every target has its label, and the last op is the function's Return.
Complete ==
  /\ source # <<>> /\ code = <<>>
  /\ Last(source).k = "Return" /\ \A l \in LiveLabels(source) : Emitted(l)

(***************************************************************************)
(* compile_function's end, then the call: the locals, the cell and the     *)
(* operands already there hold any values of their types.                  *)
(***************************************************************************)
Entering(args, locals, cell) ==
  [status |-> "running", pc |-> 0, stack |-> args, locals |-> locals, cell |-> cell]

Tried(ty) == Domain(ty) \cap uses.values

Compile ==
  /\ Complete
  /\ code' = Assemble(FuseOps(StripDeadLabels(source)))
  /\ plain' = Assemble(source)
  /\ \E args \in [1..Len(uses.args) -> uses.values], locals \in [DOMAIN uses.locals -> uses.values],
        cell \in Tried(uses.type) :
       /\ \A i \in DOMAIN args : args[i] \in Domain(uses.args[i])
       /\ \A l \in DOMAIN locals : locals[l] \in Domain(uses.locals[l])
       /\ "Load" \notin uses.ops => cell = 0
       /\ machine' = Entering(args, locals, cell)
       /\ twin' = Entering(args, locals, cell)
  /\ UNCHANGED wvars

Step ==
  /\ machine.status = "running"
  /\ machine' = Execute(code, machine)
  /\ twin' = IF Width(code[machine.pc + 1]) = 1 THEN Execute(plain, twin)
             ELSE Execute(plain, Execute(plain, twin))
  /\ UNCHANGED <<uses, source, types, code, plain>>

Nowhere == [status |-> "none", pc |-> 0, stack |-> <<>>, locals |-> <<>>, cell |-> 0]

Init ==
  /\ uses \in Repertoires
  /\ source = <<>> /\ types = uses.args
  /\ code = <<>> /\ plain = <<>> /\ machine = Nowhere /\ twin = Nowhere

Next ==
  \/ EmitLocal \/ EmitCompare \/ EmitAccess \/ EmitJump \/ EmitLabel \/ EmitReturn
  \/ Compile \/ Step

Spec == Init /\ [][Next]_vars

----------------------------------------------------------------------------
(***************************************************************************)
(* Properties.                                                             *)
(***************************************************************************)
(***************************************************************************)
(* Fused code does what the ops it was made from do: after each op the     *)
(* two machines have the same operands, locals and memory, at the same     *)
(* place, and end alike, with jumps from anywhere to anywhere, every       *)
(* comparison, signedness and NaN (fuse_ops, strip_dead_labels, assemble,  *)
(* and run()'s fused arms).                                                *)
(***************************************************************************)
FusionKeepsMeaning ==
  /\ [machine EXCEPT !.pc = 0] = [twin EXCEPT !.pc = 0]
  /\ machine.status = "running" => twin.pc = Start(machine.pc)
=============================================================================
