----------------------------- MODULE MCCompile -----------------------------
(***************************************************************************)
(* Compile on every small valid function body.  A body is written one      *)
(* instruction at a time, the blocks not yet closed being kept outermost   *)
(* first with the operand height WebAssembly's validation gives; at any    *)
(* point where the body is complete it may be compiled.                    *)
(***************************************************************************)
EXTENDS MCPrograms

CONSTANTS
  MaxInstrs,   \* bound of the instructions of a body
  MaxNesting   \* bound of the open blocks, the function included

VARIABLES
  open,        \* the open blocks
  size,        \* instructions written
  escapes,     \* a branch or return leaves a try_table
  compiled     \* CompileModule's output, <<>> before

bvars == <<open, size, escapes, compiled>>

Dead == -1     \* the height after an unconditional transfer

Blank(i, m, n, catches) ==
  [i |-> i, m |-> m, n |-> n, catches |-> catches, body |-> <<>>, then |-> <<>>, h |-> m]

Init ==
  /\ \E r \in {0, 1} : open = <<Blank("function", 0, r, <<>>)>>
  /\ size = 0 /\ escapes = FALSE /\ compiled = <<>>

Inner == open[Len(open)]
Labels == 0..(Len(open) - 1)
Target(l) == open[Len(open) - l]
Arity(l) == IF Target(l).i = "loop" THEN Target(l).m ELSE Target(l).n
Holds(k) == Inner.h = Dead \/ Inner.h >= k
Leaves(l) == \E j \in (Len(open) - l + 1)..Len(open) : open[j].i = "try_table"
\* A branch to a try_table's own label jumps past its TryCatchPop as well.
Escapes(l) == Leaves(l) \/ Target(l).i = "try_table"

Writing == compiled = <<>> /\ size < MaxInstrs
Write(instr, h) ==
  /\ open' = [open EXCEPT ![Len(open)] = [@ EXCEPT !.body = Append(@, instr), !.h = h]]
  /\ size' = size + 1 /\ UNCHANGED compiled

\* The height after popping k operands and pushing n.
Then(k, n) == IF Inner.h = Dead THEN Dead ELSE Inner.h - k + n

Straight ==
  /\ Writing
  /\ \E instr \in {Push(1), Pop(1), Divide} :
       Holds(instr.pop) /\ Write(instr, Then(instr.pop, instr.push))
  /\ UNCHANGED escapes

BranchAlways ==
  /\ Writing
  /\ \E l \in Labels :
       /\ Holds(Arity(l)) /\ Write(Br(l), Dead)
       /\ escapes' = (escapes \/ Escapes(l))

BranchIf ==
  /\ Writing
  /\ \E l \in Labels :
       /\ escapes' = (escapes \/ Escapes(l))
       /\ \/ Holds(Arity(l) + 1) /\ Write(BrIf(l), Then(1, 0))
          \/ Holds(Arity(l) + 1) /\ Write(BrOnNull(l), Inner.h)
          \/ Arity(l) > 0 /\ Holds(Arity(l)) /\ Write(BrOnNonNull(l), Then(1, 0))

BranchTable ==
  /\ Writing
  /\ \E l \in Labels, d \in Labels :
       /\ Arity(l) = Arity(d) /\ Holds(Arity(l) + 1)
       /\ Write(BrTable({l}, d), Dead)
       /\ escapes' = (escapes \/ Escapes(l) \/ Escapes(d))

Leave ==
  /\ Writing
  /\ \/ /\ Holds(open[1].n) /\ Write(Ret, Dead)
        /\ escapes' = (escapes \/ \E j \in DOMAIN open : open[j].i = "try_table")
     \/ /\ Holds(1) /\ Write(ThrowTag("e"), Dead)
        /\ UNCHANGED escapes

CallHelper ==
  /\ Writing /\ Write(CallTo(2), Inner.h)
  /\ UNCHANGED escapes

\* The values a clause brings to its label, of tag e or of any tag.
Carries(kind) == (IF kind \in {"Catch", "CatchRef"} THEN MCTagArity["e"] ELSE 0)
                   + (IF kind \in {"CatchRef", "CatchAllRef"} THEN 1 ELSE 0)

Open ==
  /\ Writing /\ Len(open) < MaxNesting
  /\ \E i \in {"block", "loop", "if", "try_table"}, m \in {0, 1}, n \in {0, 1} :
       /\ Holds(IF i = "if" THEN m + 1 ELSE m)
       \* catch clauses of a try_table with parameters land too high: MCInterp
       \* shows what comes of it (TryParamModule)
       /\ i = "try_table" => m = 0
       /\ \E catches \in {<<>>} \cup {<<On(kind, "e", l)>> :
                            kind \in {"Catch", "CatchAll", "CatchAllRef"}, l \in Labels} :
            /\ catches # <<>> <=> i = "try_table"
            /\ catches # <<>> => Carries(catches[1].kind) = Arity(catches[1].label)
            /\ open' = Append([open EXCEPT ![Len(open)].h =
                                 Then(m + (IF i = "if" THEN 1 ELSE 0), n)],
                              Blank(i, m, n, catches))
            \* a handler whose label is that of an outer try_table leaves it
            /\ escapes' = (escapes \/ (catches # <<>> /\ Escapes(catches[1].label)))
  /\ size' = size + 1 /\ UNCHANGED compiled

Closable == Len(open) > 1 /\ compiled = <<>> /\ Inner.h \in {Dead, Inner.n}

Else ==
  /\ Closable /\ Inner.i = "if" /\ Inner.then = <<>> /\ Inner.body # <<>>
  /\ open' = [open EXCEPT ![Len(open)] =
                [@ EXCEPT !.then = Inner.body, !.body = <<>>, !.h = Inner.m]]
  /\ UNCHANGED <<size, escapes, compiled>>

Closed(b) ==
  CASE b.i = "if" -> [i |-> "if", m |-> b.m, n |-> b.n,
                      then |-> IF b.then = <<>> THEN b.body ELSE b.then,
                      else |-> IF b.then = <<>> THEN <<>> ELSE b.body]
    [] b.i = "try_table" -> Try(b.m, b.n, b.catches, b.body)
    [] OTHER -> [i |-> b.i, m |-> b.m, n |-> b.n, body |-> b.body]

Close ==
  /\ Closable
  \* without an else the parameters are the results
  /\ Inner.i = "if" /\ Inner.then = <<>> => Inner.m = Inner.n
  /\ LET outer == Front(open)
     IN  open' = [outer EXCEPT ![Len(outer)].body = Append(@, Closed(Inner))]
  /\ UNCHANGED <<size, escapes, compiled>>

\* Function 1 is the body written; 2 throws an exception of tag e.
Source == << Fn(0, open[1].n, open[1].body), Fn(0, 0, << Push(1), ThrowTag("e") >>) >>

CompileIt ==
  /\ Len(open) = 1 /\ compiled = <<>> /\ Inner.h \in {Dead, Inner.n}
  /\ compiled' = CompileModule(MCImports, Source, MCTagArity)
  /\ UNCHANGED <<open, size, escapes>>

Next ==
  \/ Straight \/ BranchAlways \/ BranchIf \/ BranchTable \/ Leave \/ CallHelper
  \/ Open \/ Else \/ Close \/ CompileIt

Spec == Init /\ [][Next]_bvars

----------------------------------------------------------------------------
\* The output as a Program.
Sites(h) ==
  {s \in UNION {[f : {f}, pc : DOMAIN compiled[f].height] : f \in {1, 2}} :
     compiled[s.f].code[s.pc] = [k |-> "TryCatchPush", h |-> h]}
\* The handlers some reachable op installs.
OutHandler == {h \in 0..(Len(Last(compiled).handlers) - 1) : Sites(h) # {}}

Out == INSTANCE Program WITH
  Func <- {0, 1, 2}, HostFunc <- {0},
  Params <- [g \in {0, 1, 2} |-> IF g = 0 THEN 1 ELSE 0],
  Results <- [g \in {0, 1, 2} |-> IF g = 0 THEN 1 ELSE Source[g].results],
  Code <- [f \in {1, 2} |-> compiled[f].code],
  Tag <- DOMAIN MCTagArity, TagArity <- MCTagArity,
  Handler <- OutHandler,
  Clauses <- [h \in OutHandler |-> Last(compiled).handlers[h + 1]],
  Site <- [h \in OutHandler |-> CHOOSE s \in Sites(h) : TRUE],
  Height <- [f \in {1, 2} |-> compiled[f].height],
  Scope <- [f \in {1, 2} |-> compiled[f].scope]

(***************************************************************************)
(* Whatever the nesting of blocks, arms and dead code, each keep and drop  *)
(* the compiler emits brings the stack to exactly the height its target    *)
(* was compiled at, on the jump and on the fall through alike, and each    *)
(* catch clause to that of its label (compile_instruction, emit_branch,    *)
(* compile_catch_clauses, resolve_targets).                                *)
(***************************************************************************)
BranchesLandAtTheirHeight == compiled # <<>> => Out!ProgramType /\ Out!HeightsFit

(***************************************************************************)
(* max_stack_height, which sizes the unchecked value stack, bounds the     *)
(* operands at every reachable op of the module.                           *)
(***************************************************************************)
MaxHeightCovers ==
  compiled # <<>> =>
    LET bound == IF compiled[1].max > compiled[2].max THEN compiled[1].max ELSE compiled[2].max
    IN  \A f \in {1, 2} : \A pc \in DOMAIN compiled[f].height :
          compiled[f].height[pc] <= bound

(***************************************************************************)
(* A body none of whose branches leaves a try_table compiles to code in    *)
(* which TryCatchPush and TryCatchPop balance on every path.               *)
(***************************************************************************)
TryTablesBalance == compiled # <<>> /\ ~escapes => Out!ScopesFit
=============================================================================
