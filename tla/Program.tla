------------------------------ MODULE Program ------------------------------
(***************************************************************************)
(* The compiled code the interpreter runs: what compiler.rs leaves in a    *)
(* CompiledFunction (ops), a CompiledCatchClause table (catch_handlers)    *)
(* and the function signatures.  Values are abstracted to the number of    *)
(* stack slots an op pops and pushes; every jump, call and handler keeps   *)
(* its target and its keep/drop counts.                                    *)
(*                                                                         *)
(* Height and Scope are not data of the program.  They are the typing a    *)
(* valid WebAssembly function has: the operand height and the enclosing    *)
(* try_tables at every reachable pc.  HeightsFit and ScopesFit say that    *)
(* the compiled ops agree with that typing.                                *)
(***************************************************************************)
EXTENDS Integers, Sequences, FiniteSets

CONSTANTS
  Func,      \* function addresses of the store
  HostFunc,  \* those that are FunctionInstance::Host
  Params,    \* Params[g], Results[g]: the arities of function g
  Results,
  Code,      \* Code[f]: the ops of local function f, pc 0 being index 1
  Tag,       \* exception tags
  TagArity,  \* number of values an exception of the tag carries
  Handler,   \* the indexes into catch_handlers that reachable ops install
  Clauses,   \* Clauses[h]: the compiled catch clauses, in order
  Site,      \* Site[h]: the [f, pc] of the TryCatchPush that installs h
  Height,    \* Height[f][pc]: operands above stack_base before the op at pc
  Scope      \* Scope[f][pc]: the handlers of the enclosing try_tables there

LocalFunc == Func \ HostFunc
Live(f) == DOMAIN Height[f]     \* the pcs of f that control can reach

(***************************************************************************)
(* Ops.  "Op" stands for every op that only computes (numeric, local,      *)
(* global, reference, memory and table ops); "JumpIf" for JumpIf,          *)
(* JumpIfNot and the fused compare-and-jump ops; "Call" and "ReturnCall"   *)
(* for the direct, indirect and by-reference forms, which differ in the    *)
(* callee operand they pop first and in whether the callee is known.       *)
(***************************************************************************)
CallKinds == {"Call", "ReturnCall"}
CatchKinds == {"Catch", "CatchRef", "CatchAll", "CatchAllRef"}
TagKinds == {"Catch", "CatchRef"}
RefKinds == {"CatchRef", "CatchAllRef"}

\* The value slots a matching clause pushes for an exception with tag t.
Pushed(cl, t) == (IF cl.kind \in TagKinds THEN TagArity[t] ELSE 0)
                   + (IF cl.kind \in RefKinds THEN 1 ELSE 0)

ClauseMatches(cl, t) == cl.kind \in TagKinds => cl.tag = t

Matches(h, t) == \E i \in DOMAIN Clauses[h] : ClauseMatches(Clauses[h][i], t)

\* The first clause of h, in source order, that an exception of tag t matches.
FirstClause(h, t) ==
  LET i == CHOOSE i \in DOMAIN Clauses[h] :
             /\ ClauseMatches(Clauses[h][i], t)
             /\ \A j \in 1..(i - 1) : ~ClauseMatches(Clauses[h][j], t)
  IN  Clauses[h][i]

\* Operands the op reads or moves, counted from the top of the stack.
Needs(o) ==
  CASE o.k = "Op"                          -> {o.pop}
    [] o.k = "Jump"                        -> {o.keep + o.drop}
    [] o.k = "JumpIf"                      -> {o.pop + o.keep + o.drop, o.pop}
    [] o.k = "JumpTable"                   -> {1 + o.keep + e.drop : e \in o.entries}
    [] o.k = "BrOnNull"                    -> {1 + o.keep + o.drop}
    [] o.k = "BrOnNonNull"                 -> {1, o.keep + o.drop}
    [] o.k \in {"Call", "ReturnCall"}      -> {o.operand + o.params}
    [] o.k = "Throw"                       -> {TagArity[o.tag]}
    [] o.k = "ThrowRef"                    -> {1}
    [] OTHER                               -> {}

(***************************************************************************)
(* Where an op that stays in its function takes control, and the height it *)
(* leaves: keep_top(keep, drop) moves the kept values over the dropped     *)
(* ones, so a taken branch lowers the stack by drop.                       *)
(***************************************************************************)
Edge(pc, h) == [pc |-> pc, h |-> h]

Edges(o, pc, h) ==
  CASE o.k = "Op"          -> {Edge(pc + 1, h - o.pop + o.push)}
    [] o.k = "Jump"        -> {Edge(o.target, h - o.drop)}
    [] o.k = "JumpIf"      -> {Edge(o.target, h - o.pop - o.drop),
                               Edge(pc + 1, h - o.pop)}
    [] o.k = "JumpTable"   -> {Edge(e.target, h - 1 - e.drop) : e \in o.entries}
    [] o.k = "BrOnNull"    -> {Edge(o.target, h - 1 - o.drop), Edge(pc + 1, h)}
    [] o.k = "BrOnNonNull" -> {Edge(o.target, h - o.drop), Edge(pc + 1, h - 1)}
    [] o.k \in {"TryCatchPush", "TryCatchPop"} -> {Edge(pc + 1, h)}
    [] OTHER               -> {}

(***************************************************************************)
(* What the compiler's output promises.                                    *)
(***************************************************************************)
At(f, pc, h) == pc \in Live(f) /\ Height[f][pc] = h

\* A catch clause lands at the height its label expects: that of the
\* try_table plus the caught values, less the operands the label discards.
ClauseFits(h, cl) ==
  LET f == Site[h].f
      enter == Height[f][Site[h].pc]
  IN  /\ cl.drop <= enter
      /\ \A t \in Tag : ClauseMatches(cl, t) =>
           /\ Pushed(cl, t) = cl.n
           /\ At(f, cl.target, enter + cl.n - cl.drop)

OpFits(f, pc) ==
  LET o == Code[f][pc]
      h == Height[f][pc]
  IN  /\ \A n \in Needs(o) : n <= h
      /\ \A e \in Edges(o, pc, h) : At(f, e.pc, e.h)
      /\ o.k = "Call" => At(f, pc + 1, h - o.operand - o.params + o.results)
      /\ o.k = "ReturnCall" => o.results = Results[f]
      /\ o.k = "Return" => Results[f] <= h
      /\ o.k = "TryCatchPush" => Site[o.h] = [f |-> f, pc |-> pc]

HeightsFit ==
  /\ \A f \in LocalFunc : At(f, 1, 0) /\ \A pc \in Live(f) : OpFits(f, pc)
  /\ \A h \in Handler : \A i \in DOMAIN Clauses[h] : ClauseFits(h, Clauses[h][i])

(***************************************************************************)
(* No control transfer leaves a try_table except through its TryCatchPop,  *)
(* a call, or an exception it catches.  The compiler does not establish    *)
(* this: emit_branch and Op::Return leave try_tables without popping.      *)
(***************************************************************************)
Within(f, pc, s) == Scope[f][pc] = s

ScopeAfter(o, s) ==
  CASE o.k = "TryCatchPush" -> Append(s, o.h)
    [] o.k = "TryCatchPop"  -> SubSeq(s, 1, Len(s) - 1)
    [] OTHER                -> s

ClauseScoped(h, cl) ==
  (\E t \in Tag : ClauseMatches(cl, t)) =>
     Within(Site[h].f, cl.target, Scope[Site[h].f][Site[h].pc])

OpScoped(f, pc) ==
  LET o == Code[f][pc]
      s == Scope[f][pc]
  IN  /\ \A e \in Edges(o, pc, Height[f][pc]) : Within(f, e.pc, ScopeAfter(o, s))
      /\ o.k = "Call" => Within(f, pc + 1, s)
      /\ o.k = "Return" => s = <<>>
      /\ o.k = "TryCatchPop" => s # <<>>
      \* the handlers in scope are those where each was installed, nested
      /\ \A l \in 1..Len(s) : /\ Site[s[l]].f = f
                             /\ SubSeq(s, 1, l - 1) = Scope[f][Site[s[l]].pc]

ScopesFit ==
  /\ \A f \in LocalFunc : Within(f, 1, <<>>) /\ \A pc \in Live(f) : OpScoped(f, pc)
  /\ \A h \in Handler : \A i \in DOMAIN Clauses[h] : ClauseScoped(h, Clauses[h][i])

\* The shape of the constants.  Unreachable code may be anything.
Ops ==
       [k : {"Op"}, pop : Nat, push : Nat, traps : BOOLEAN]
  \cup [k : {"Unreachable", "Return", "TryCatchPop", "ThrowRef"}]
  \cup [k : {"Jump", "BrOnNull", "BrOnNonNull"}, target : Nat, keep : Nat, drop : Nat]
  \cup [k : {"JumpIf"}, pop : Nat, target : Nat, keep : Nat, drop : Nat]
  \cup [k : {"JumpTable"}, keep : Nat, entries : SUBSET [target : Nat, drop : Nat]]
  \cup [k : CallKinds, operand : {0, 1}, callees : SUBSET Func, params : Nat, results : Nat]
  \cup [k : {"TryCatchPush"}, h : Handler]
  \cup [k : {"Throw"}, tag : Tag]

ClauseType == [kind : CatchKinds, tag : Tag, target : Nat, n : Nat, drop : Nat]

ProgramType ==
  /\ Func \subseteq Nat /\ HostFunc \subseteq Func
  /\ Params \in [Func -> Nat] /\ Results \in [Func -> Nat]
  /\ TagArity \in [Tag -> Nat]
  /\ \A f \in LocalFunc :
       /\ DOMAIN Code[f] = 1..Len(Code[f])
       /\ Live(f) \subseteq DOMAIN Code[f]
       /\ DOMAIN Scope[f] = Live(f)
       /\ \A pc \in Live(f) :
            /\ Code[f][pc] \in Ops
            /\ Height[f][pc] \in Nat
            /\ Scope[f][pc] \in Seq(Handler)
       /\ \A pc \in Live(f) : Code[f][pc].k \in CallKinds =>
            \A g \in Code[f][pc].callees :
              Params[g] = Code[f][pc].params /\ Results[g] = Code[f][pc].results
  /\ \A h \in Handler :
       /\ Clauses[h] \in Seq(ClauseType)
       /\ Site[h].f \in LocalFunc /\ Site[h].pc \in Live(Site[h].f)
       /\ Code[Site[h].f][Site[h].pc] = [k |-> "TryCatchPush", h |-> h]
=============================================================================
