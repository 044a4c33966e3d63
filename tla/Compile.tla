------------------------------ MODULE Compile ------------------------------
(***************************************************************************)
(* compiler.rs: structured WebAssembly control flow lowered to jumps with  *)
(* keep and drop counts, by a single pass that tracks the operand height   *)
(* and a stack of block contexts.  Peephole fusion (fuse_ops) is in Fusion *)
(* and moves no control transfer between the labels used here.             *)
(*                                                                         *)
(* An instruction is a record whose field i names it.  Ops that only       *)
(* compute carry what they pop and push.  A module is a sequence of        *)
(* imported signatures, a sequence of functions and the tag arities.       *)
(*                                                                         *)
(* The fields live, height and scope of an emitted op are the typing of    *)
(* the source at that point, kept beside the compiler's own bookkeeping.   *)
(***************************************************************************)
EXTENDS Integers, Sequences, FiniteSets, SequencesExt

UnreachableDepth == -1000      \* i32::MIN in the code: below every height
U16(n) == n % 65536            \* keep and drop are stored as u16

NewLabels(c, n) == [c EXCEPT !.nextLabel = @ + n]

EmitLabel(c, l) == [c EXCEPT !.ops = Append(@, [label |-> l])]

Emit(c, o) ==
  [c EXCEPT !.ops = Append(@, [op |-> o, live |-> c.live, scope |-> c.scope,
                               height |-> c.height - c.args])]

Shift(c, n) == [c EXCEPT !.height = @ + n]
AfterJump(c) == [c EXCEPT !.height = UnreachableDepth, !.live = FALSE]

----------------------------------------------------------------------------
(***************************************************************************)
(* Blocks.                                                                 *)
(***************************************************************************)
\* entry_stack_height of a block with m parameters.
EntryHeight(c, m) == IF c.height = UnreachableDepth THEN 0 ELSE c.height - m

OpenBlock(c, kind, entry, arity, start, end) ==
  [c EXCEPT !.blocks = Append(@, [kind |-> kind, entry |-> entry, arity |-> arity,
                                  start |-> start, end |-> end])]

CloseBlock(c, end, height, live) ==
  [EmitLabel([c EXCEPT !.blocks = Front(@)], end) EXCEPT !.height = height, !.live = live]

BlockAt(c, depth) == c.blocks[Len(c.blocks) - depth]
BranchTarget(ctx) == IF ctx.kind = "Loop" THEN ctx.start ELSE ctx.end

\* Mutant of BranchDrop: the operands kept are dropped too.
BranchDropKept(c, ctx, keep) == U16(c.height - ctx.entry)

\* emit_branch's operands: the label's arity, and what lies between.
BranchDrop(c, ctx, keep) == U16(c.height - ctx.entry - keep)

JumpTo(c, depth) ==
  LET ctx == BlockAt(c, depth)
  IN  [target |-> BranchTarget(ctx), keep |-> ctx.arity,
       drop |-> BranchDrop(c, ctx, ctx.arity)]

\* compile_catch_clauses; the try_table's own context is already pushed.
\* The recorded arity is that of the tag, the drop is counted from the entry
\* of the try_table.
CatchClause(c, entry, tagArity, cl) ==
  LET ctx == c.blocks[Len(c.blocks) - 1 - cl.label]
  IN  [kind |-> cl.kind, tag |-> cl.tag, target |-> BranchTarget(ctx),
       n |-> (IF cl.kind \in {"Catch", "CatchRef"} THEN tagArity[cl.tag] ELSE 0)
               + (IF cl.kind \in {"CatchRef", "CatchAllRef"} THEN 1 ELSE 0),
       drop |-> U16(entry - ctx.entry)]

----------------------------------------------------------------------------
(***************************************************************************)
(* compile_instruction.  env is [sigs, tagArity]: func_signatures by       *)
(* function address and tag_signatures.                                    *)
(***************************************************************************)
RECURSIVE CompileInstr(_, _, _)

CompileBody(env, c, body) == FoldLeft(LAMBDA d, i : CompileInstr(env, d, i), c, body)

CompileBlock(env, c, b, kind) ==
  LET entry == EntryHeight(c, b.m)
      start == c.nextLabel
      end == c.nextLabel + 1
      inside == OpenBlock(EmitLabel(NewLabels(c, 2), start), kind, entry,
                          IF kind = "Loop" THEN b.m ELSE b.n, start, end)
  IN  CloseBlock(CompileBody(env, inside, b.body), end, entry + b.n, c.live)

CompileIf(env, c0, b) ==
  LET c == IF c0.height = UnreachableDepth THEN c0 ELSE Shift(c0, -1)
      entry == EntryHeight(c, b.m)
      else == c.nextLabel
      end == c.nextLabel + 1
      test == [Emit(NewLabels(c0, 3), [k |-> "JumpIf", pop |-> 1, target |-> else,
                                       keep |-> 0, drop |-> 0])
                 EXCEPT !.height = c.height]
      inside == OpenBlock(EmitLabel(test, else + 2), "IfElse", entry, b.n, else + 2, end)
      then == CompileBody(env, inside, b.then)
      skip == EmitLabel(Emit(then, [k |-> "Jump", target |-> end, keep |-> 0, drop |-> 0]),
                        else)
      other == CompileBody(env, [skip EXCEPT !.height = c.height, !.live = c.live], b.else)
  IN  CloseBlock(IF b.else = <<>> THEN EmitLabel(then, else) ELSE other,
                 end, entry + b.n, c.live)

\* Mutant of CompileTry: the try_table ends without a TryCatchPop.
CompileTryUnpopped(env, c, b) ==
  LET entry == EntryHeight(c, b.m)
      start == c.nextLabel
      end == c.nextLabel + 1
      h == Len(c.handlers)
      inside == OpenBlock(EmitLabel(NewLabels(c, 2), start), "Block", entry, b.n, start, end)
      clauses == [j \in DOMAIN b.catches |->
                    CatchClause(inside, entry, env.tagArity, b.catches[j])]
      pushed == Emit([inside EXCEPT !.handlers = Append(@, clauses)],
                     [k |-> "TryCatchPush", h |-> h])
      body == CompileBody(env, [pushed EXCEPT !.scope = Append(@, h)], b.body)
  IN  CloseBlock([body EXCEPT !.scope = c.scope], end, entry + b.n, c.live)

CompileTry(env, c, b) ==
  LET entry == EntryHeight(c, b.m)
      start == c.nextLabel
      end == c.nextLabel + 1
      h == Len(c.handlers)
      inside == OpenBlock(EmitLabel(NewLabels(c, 2), start), "Block", entry, b.n, start, end)
      clauses == [j \in DOMAIN b.catches |->
                    CatchClause(inside, entry, env.tagArity, b.catches[j])]
      pushed == Emit([inside EXCEPT !.handlers = Append(@, clauses)],
                     [k |-> "TryCatchPush", h |-> h])
      body == CompileBody(env, [pushed EXCEPT !.scope = Append(@, h)], b.body)
      popped == [Emit(body, [k |-> "TryCatchPop"]) EXCEPT !.scope = c.scope]
  IN  CloseBlock(popped, end, entry + b.n, c.live)

CallSite(k, operand, callees, sig) ==
  [k |-> k, operand |-> operand, callees |-> callees,
   params |-> sig.params, results |-> sig.results]

CompilePlain(env, c, i) ==
  CASE i.i = "op" -> Shift(Emit(c, [k |-> "Op", pop |-> i.pop, push |-> i.push,
                                    traps |-> i.traps]), i.push - i.pop)
    [] i.i = "br" -> AfterJump(Emit(c, [k |-> "Jump"] @@ JumpTo(c, i.label)))
    [] i.i = "br_if" ->
         LET below == Shift(c, -1)
         IN  Shift(Emit(c, [k |-> "JumpIf", pop |-> 1] @@ JumpTo(below, i.label)), -1)
    [] i.i = "br_table" ->
         LET below == Shift(c, -1)
             keep == BlockAt(c, i.default).arity
             entry(l) == [target |-> BranchTarget(BlockAt(c, l)),
                          drop |-> BranchDrop(below, BlockAt(c, l), keep)]
         IN  AfterJump(Emit(c, [k |-> "JumpTable", keep |-> keep,
               entries |-> {entry(l) : l \in i.labels \cup {i.default}}]))
    [] i.i = "br_on_null" ->
         Emit(c, [k |-> "BrOnNull"] @@ JumpTo(Shift(c, -1), i.label))
    [] i.i = "br_on_non_null" ->
         Shift(Emit(c, [k |-> "BrOnNonNull"] @@ JumpTo(c, i.label)), -1)
    [] i.i = "return" -> AfterJump(Emit(c, [k |-> "Return"]))
    [] i.i = "unreachable" -> AfterJump(Emit(c, [k |-> "Unreachable"]))
    [] i.i = "call" ->
         LET sig == env.sigs[i.f]
         IN  Shift(Emit(c, CallSite("Call", 0, {i.f}, sig)), sig.results - sig.params)
    [] i.i = "call_indirect" ->
         Shift(Emit(c, CallSite("Call", 1, i.callees, i)), i.results - i.params - 1)
    [] i.i = "return_call" ->
         AfterJump(Emit(c, CallSite("ReturnCall", 0, {i.f}, env.sigs[i.f])))
    [] i.i = "return_call_indirect" ->
         AfterJump(Emit(c, CallSite("ReturnCall", 1, i.callees, i)))
    [] i.i = "throw" -> AfterJump(Emit(c, [k |-> "Throw", tag |-> i.tag]))
    [] i.i = "throw_ref" -> AfterJump(Emit(c, [k |-> "ThrowRef"]))
    [] i.i = "try_table" -> CompileTry(env, c, i)

\* Mutant of CompileInstr: max_stack_height is taken at the ends of blocks only.
CompileInstrMaxOfBlocks(env, c, i) ==
  IF i.i \notin {"block", "loop", "if"}
  THEN IF c.height = UnreachableDepth THEN c ELSE CompilePlain(env, c, i)
  ELSE LET d == CASE i.i = "block" -> CompileBlock(env, c, i, "Block")
                  [] i.i = "loop"  -> CompileBlock(env, c, i, "Loop")
                  [] i.i = "if"    -> CompileIf(env, c, i)
       IN  [d EXCEPT !.maxHeight = IF d.height > @ THEN d.height ELSE @]

CompileInstr(env, c, i) ==
  IF i.i \notin {"block", "loop", "if"} /\ c.height = UnreachableDepth THEN c
  ELSE LET d == CASE i.i = "block" -> CompileBlock(env, c, i, "Block")
                  [] i.i = "loop"  -> CompileBlock(env, c, i, "Loop")
                  [] i.i = "if"    -> CompileIf(env, c, i)
                  [] OTHER         -> CompilePlain(env, c, i)
       IN  [d EXCEPT !.maxHeight = IF d.height > @ THEN d.height ELSE @]

----------------------------------------------------------------------------
(***************************************************************************)
(* assemble: labels become positions; a label takes no room.               *)
(***************************************************************************)
IsLabel(item) == "label" \in DOMAIN item

PositionOf(items, l) ==
  LET at == CHOOSE j \in DOMAIN items : IsLabel(items[j]) /\ items[j].label = l
  IN  1 + Cardinality({j \in 1..(at - 1) : ~IsLabel(items[j])})

Resolve(items, o) ==
  IF "target" \in DOMAIN o THEN [o EXCEPT !.target = PositionOf(items, @)]
  ELSE IF "entries" \in DOMAIN o
  THEN [o EXCEPT !.entries = {[e EXCEPT !.target = PositionOf(items, @)] : e \in @}]
  ELSE o

\* Whether control falls, or some reachable op or handler branches, to label 2.
EndReached(c) ==
  \/ c.live
  \/ \E j \in DOMAIN c.ops : ~IsLabel(c.ops[j]) /\ c.ops[j].live /\
       LET o == c.ops[j].op
       IN  \/ "target" \in DOMAIN o /\ o.target = 2
           \/ "entries" \in DOMAIN o /\ \E e \in o.entries : e.target = 2
           \/ o.k = "TryCatchPush" /\ \E q \in DOMAIN c.handlers[o.h + 1] :
                                         c.handlers[o.h + 1][q].target = 2

\* compile_function, given the handlers of the functions before it.
CompileFunction(env, fn, handlers) ==
  LET c == [ops |-> <<>>, blocks |-> <<>>, height |-> fn.params, maxHeight |-> 0,
            nextLabel |-> 3, handlers |-> handlers, args |-> fn.params,
            live |-> TRUE, scope |-> <<>>]
      body == CompileBody(env, OpenBlock(EmitLabel(c, 1), "Function", fn.params,
                                         fn.results, 1, 2), fn.body)
      done == Emit(CloseBlock(body, 2, fn.params + fn.results, EndReached(body)),
                   [k |-> "Return"])
      code == SelectSeq(done.ops, LAMBDA item : ~IsLabel(item))
      own == SubSeq(done.handlers, Len(handlers) + 1, Len(done.handlers))
  IN  [code     |-> [pc \in DOMAIN code |-> Resolve(done.ops, code[pc].op)],
       height   |-> [pc \in {p \in DOMAIN code : code[p].live} |-> code[pc].height],
       scope    |-> [pc \in {p \in DOMAIN code : code[p].live} |-> code[pc].scope],
       max      |-> body.maxHeight,
       handlers |-> handlers \o
         [j \in DOMAIN own |-> [q \in DOMAIN own[j] |-> Resolve(done.ops, own[j][q])]]]

\* compile: function addresses count the imports first.
CompileModule(imports, fns, tagArity) ==
  LET sig(g) == IF g < Len(imports) THEN imports[g + 1] ELSE fns[g - Len(imports) + 1]
      env == [sigs |-> [g \in 0..(Len(imports) + Len(fns) - 1) |-> sig(g)],
              tagArity |-> tagArity]
  IN  FoldLeft(LAMBDA out, fn :
                 Append(out, CompileFunction(env, fn, IF out = <<>> THEN <<>>
                                                      ELSE Last(out).handlers)),
               <<>>, fns)
=============================================================================
