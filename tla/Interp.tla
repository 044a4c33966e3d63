------------------------------- MODULE Interp -------------------------------
(***************************************************************************)
(* Store::run and the calls that start, pause, resume and snapshot it      *)
(* (runtime/store.rs, runtime/stack.rs, snapshot.rs).  One value stack is  *)
(* shared by all activations, each remembering the stack_base its operands *)
(* start at; one catch stack holds the installed try_tables of all of them *)
(* and is unwound by absolute call depth and stack length.  Values are     *)
(* abstracted to their number; the control state is kept whole.            *)
(*                                                                         *)
(* The store is either running (inside run()) or returned to the embedder, *)
(* who may then invoke, resume, refuel or snapshot it.                     *)
(***************************************************************************)
EXTENDS Program

CONSTANTS
  Exported,      \* functions the embedder invokes
  MaxCallDepth,  \* MAX_CALL_DEPTH
  MaxHeight,     \* the largest max_stack_height of a compiled function
  MinCapacity,   \* the capacity a value stack always has (1024 in the code)
  FuelAmounts    \* the amounts the embedder passes to set_fuel

None == -1       \* Option::None for the numeric options

VARIABLES
  callStack,     \* Store.call_stack: activations [f, pc, base]
  catchStack,    \* Store.catch_stack: [depth, restore, h]
  exceptions,    \* Store.exceptions: the tag of each caught exnref
  len,           \* ValueStack.cursor
  cap,           \* ValueStack.capacity()
  fuel,          \* Store.fuel
  pendingArity,  \* Store.pending_arity
  runArity,      \* finish_run's num_results while running
  mode,          \* "ready": returned to the embedder; "running"; "aborted"
  result,        \* what the last call returned
  waiting,       \* the host function named in a Suspended result
  high,          \* highest cursor the current value stack has reached
  refs           \* exnref indices handed out to the program so far

store == <<callStack, catchStack, exceptions, len, cap, pendingArity>>
storeButLen == <<callStack, catchStack, exceptions, cap, pendingArity>>
vars == <<store, fuel, runArity, mode, result, waiting, high, refs>>

Outcomes == {"none", "completed", "fuel", "suspended", "trap", "exception"}

----------------------------------------------------------------------------
Depth == Len(callStack)
Top == callStack[Depth]
Op == Code[Top.f][Top.pc]

Larger(m, n) == IF m >= n THEN m ELSE n
Smaller(m, n) == IF m <= n THEN m ELSE n

Activation(f, base) == [f |-> f, pc |-> 1, base |-> base]
GoTo(cs, pc) == [cs EXCEPT ![Len(cs)].pc = pc]
CallersOf(cs) == SubSeq(cs, 1, Len(cs) - 1)

\* A cursor move through peak to n; the cursor may have been higher on the way.
MoveCursor(n, peak) == len' = n /\ high' = Larger(high, Larger(n, peak))

TypeOK ==
  /\ callStack \in Seq([f : LocalFunc, pc : Nat, base : Nat])
  /\ catchStack \in Seq([depth : Nat, restore : Nat, h : Handler])
  /\ exceptions \in Seq(Tag)
  /\ len \in Nat /\ cap \in Nat /\ high \in Nat /\ refs \in Nat
  /\ fuel \in Nat \cup {None}
  /\ pendingArity \in Nat \cup {None}
  /\ runArity \in Nat
  /\ mode \in {"ready", "running", "aborted"}
  /\ result \in Outcomes
  /\ waiting \in HostFunc \cup {None}

\* Mutant of Init: sized for one activation instead of MaxCallDepth of them.
InitForOneActivation ==
  /\ callStack = <<>> /\ catchStack = <<>> /\ exceptions = <<>>
  /\ len = 0 /\ high = 0 /\ refs = 0
  /\ cap = Larger(MaxHeight, MinCapacity)
  /\ fuel = None
  /\ pendingArity = None /\ runArity = 0
  /\ mode = "ready" /\ result = "none" /\ waiting = None

Init ==
  /\ callStack = <<>> /\ catchStack = <<>> /\ exceptions = <<>>
  /\ len = 0 /\ high = 0 /\ refs = 0
  /\ cap = Larger(MaxHeight * MaxCallDepth, MinCapacity)
  /\ fuel = None
  /\ pendingArity = None /\ runArity = 0
  /\ mode = "ready" /\ result = "none" /\ waiting = None

----------------------------------------------------------------------------
(***************************************************************************)
(* Returning from run().                                                   *)
(***************************************************************************)
GiveBack(r) == mode' = "ready" /\ result' = r

\* Mutant of Fail: the exceptions go too, as if no exnref could outlive a trap.
FailForgettingExceptions(r) ==
  /\ GiveBack(r)
  /\ callStack' = <<>> /\ catchStack' = <<>> /\ len' = 0 /\ pendingArity' = None
  /\ exceptions' = <<>>
  /\ UNCHANGED <<cap, runArity, waiting, high, refs>>

\* finish_run's Err arm: the stacks and pending_arity are cleared, the
\* exceptions are not.
Fail(r) ==
  /\ GiveBack(r)
  /\ callStack' = <<>> /\ catchStack' = <<>> /\ len' = 0 /\ pendingArity' = None
  /\ UNCHANGED <<exceptions, cap, runArity, waiting, high, refs>>

\* A Rust panic: the call never returns.
Panic ==
  /\ mode' = "aborted"
  /\ UNCHANGED <<store, runArity, result, waiting, high, refs>>

\* Mutants of Complete: the results stay on the value stack; the exceptions
\* are dropped although globals and tables may hold their exnrefs.
CompleteKeepingResults ==
  /\ mode = "running" /\ callStack = <<>>
  /\ pendingArity' = None
  /\ GiveBack("completed")
  /\ UNCHANGED <<callStack, catchStack, exceptions, len, cap, fuel, runArity, waiting, high, refs>>

CompleteForgettingExceptions ==
  /\ mode = "running" /\ callStack = <<>>
  /\ len' = len - runArity
  /\ pendingArity' = None /\ exceptions' = <<>>
  /\ GiveBack("completed")
  /\ UNCHANGED <<callStack, catchStack, cap, fuel, runArity, waiting, high, refs>>

\* The call stack is empty: the results are popped off the value stack.
Complete ==
  /\ mode = "running" /\ callStack = <<>>
  /\ len' = len - runArity
  /\ pendingArity' = None
  /\ GiveBack("completed")
  /\ UNCHANGED <<callStack, catchStack, exceptions, cap, fuel, runArity, waiting, high, refs>>

\* The op is fetched and pc advanced before the fuel check, which undoes it.
OutOfFuel ==
  /\ mode = "running" /\ callStack # <<>> /\ fuel = 0
  /\ Top.pc \in DOMAIN Code[Top.f]
  /\ pendingArity' = runArity
  /\ GiveBack("fuel")
  /\ UNCHANGED <<callStack, catchStack, exceptions, len, cap, fuel, runArity, waiting, high, refs>>

----------------------------------------------------------------------------
(***************************************************************************)
(* One op.  Fetch is the head of the loop in run().                        *)
(***************************************************************************)
\* Mutant of Fetch: fuel is checked but never spent.
FetchForFree(kinds) ==
  /\ mode = "running" /\ callStack # <<>>
  /\ Top.pc \in DOMAIN Code[Top.f]
  /\ Op.k \in kinds
  /\ fuel # 0
  /\ UNCHANGED fuel

Fetch(kinds) ==
  /\ mode = "running" /\ callStack # <<>>
  /\ Top.pc \in DOMAIN Code[Top.f]
  /\ Op.k \in kinds
  /\ fuel # 0
  /\ fuel' = IF fuel = None THEN None ELSE fuel - 1

\* assert!(pc < func_ops.len()) at the head of the loop.
PcPastEnd ==
  /\ mode = "running" /\ callStack # <<>>
  /\ Top.pc \notin DOMAIN Code[Top.f]
  /\ Panic /\ UNCHANGED fuel

\* An op that stays in its function takes one of its edges.
Follow(cs, e) == callStack' = GoTo(cs, e.pc) /\ MoveCursor(e.h, len)

Compute ==
  /\ Fetch({"Op"})
  /\ \E e \in Edges(Op, Top.pc, len) : Follow(callStack, e)
  /\ UNCHANGED <<catchStack, exceptions, cap, pendingArity, runArity, mode, result, waiting, refs>>

Branch ==
  /\ Fetch({"Jump", "JumpIf", "JumpTable", "BrOnNull", "BrOnNonNull"})
  /\ \E e \in Edges(Op, Top.pc, len) : Follow(callStack, e)
  /\ UNCHANGED <<catchStack, exceptions, cap, pendingArity, runArity, mode, result, waiting, refs>>

\* A division, conversion, memory or table access that traps, unreachable,
\* an indirect call of a missing, null or differently typed function, and
\* throw_ref of null.
TrapOp ==
  /\ Fetch({"Op", "Unreachable", "Call", "ReturnCall", "ThrowRef"})
  /\ Op.k = "Op" => Op.traps
  /\ Op.k \in CallKinds => Op.operand = 1
  /\ Fail("trap")

(***************************************************************************)
(* Calls.  push_function_call checks the depth first, then hands the       *)
(* arguments to the host or moves them into the callee's locals.           *)
(***************************************************************************)
PushLocalCall(g, cs, n) ==
  /\ g \in LocalFunc /\ Len(cs) < MaxCallDepth
  /\ callStack' = Append(cs, Activation(g, n - Params[g]))
  /\ MoveCursor(n - Params[g], len)
  /\ UNCHANGED <<exceptions, cap, pendingArity, runArity, mode, result, waiting, refs>>

\* The host function's name and arguments leave the store in the result.
PushHostCall(g, cs, n) ==
  /\ g \in HostFunc /\ Len(cs) < MaxCallDepth
  /\ callStack' = cs
  /\ MoveCursor(n - Params[g], len)
  /\ pendingArity' = runArity
  /\ waiting' = g
  /\ GiveBack("suspended")
  /\ UNCHANGED <<exceptions, cap, runArity, refs>>

Call ==
  /\ Fetch({"Call"})
  /\ \E g \in Op.callees :
       LET cs == GoTo(callStack, Top.pc + 1)
           n == len - Op.operand
       IN  PushLocalCall(g, cs, n) \/ PushHostCall(g, cs, n)
  /\ UNCHANGED catchStack

\* Mutant of WithoutFramesOf: the replaced activation keeps its catch frames.
AllCatchFrames(d) == catchStack

\* pop_catch_frames(depth): the activation's own catch frames go with it.
WithoutFramesOf(d) ==
  LET keep == {i \in DOMAIN catchStack : catchStack[i].depth <= d}
  IN  SubSeq(catchStack, 1, CHOOSE n \in 0..Len(catchStack) :
        /\ n = 0 \/ n \in keep
        /\ \A i \in (n + 1)..Len(catchStack) : i \notin keep)

\* The arguments are copied down to the old stack_base.
ReturnCall ==
  /\ Fetch({"ReturnCall"})
  /\ \E g \in Op.callees :
       LET cs == CallersOf(callStack)
           n == Top.base + Params[g]
       IN  PushLocalCall(g, cs, n) \/ PushHostCall(g, cs, n)
  /\ catchStack' = WithoutFramesOf(Depth - 1)

CallTooDeep ==
  /\ Fetch({"Call"})
  /\ Depth >= MaxCallDepth
  /\ Fail("trap")

\* do_return: the results move down to stack_base.  Catch frames stay.
Return ==
  /\ Fetch({"Return"})
  /\ callStack' = CallersOf(callStack)
  /\ MoveCursor(Top.base + Results[Top.f], len)
  /\ UNCHANGED <<catchStack, exceptions, cap, pendingArity, runArity, mode, result, waiting, refs>>

----------------------------------------------------------------------------
(***************************************************************************)
(* Exceptions.                                                             *)
(***************************************************************************)
TryCatchPush ==
  /\ Fetch({"TryCatchPush"})
  /\ catchStack' = Append(catchStack, [depth |-> Depth, restore |-> len, h |-> Op.h])
  /\ \E e \in Edges(Op, Top.pc, len) : Follow(callStack, e)
  /\ UNCHANGED <<exceptions, cap, pendingArity, runArity, mode, result, waiting, refs>>

\* Mutant of TryCatchPop: the try_table ends and its frame stays.
TryCatchPopNothing ==
  /\ Fetch({"TryCatchPop"})
  /\ \E e \in Edges(Op, Top.pc, len) : Follow(callStack, e)
  /\ UNCHANGED <<catchStack, exceptions, cap, pendingArity, runArity, mode, result, waiting, refs>>

TryCatchPop ==
  /\ Fetch({"TryCatchPop"})
  /\ catchStack' = IF catchStack = <<>> THEN <<>> ELSE CallersOf(catchStack)
  /\ \E e \in Edges(Op, Top.pc, len) : Follow(callStack, e)
  /\ UNCHANGED <<exceptions, cap, pendingArity, runArity, mode, result, waiting, refs>>

\* handle_exception: the topmost frame with a matching clause, every frame
\* above it being dropped.
Catching(t) == {i \in DOMAIN catchStack : Matches(catchStack[i].h, t)}

Land(t, i) ==
  LET c == catchStack[i]
      cl == FirstClause(c.h, t)
      full == c.restore + Pushed(cl, t)
  IN  /\ catchStack' = SubSeq(catchStack, 1, i - 1)
      /\ callStack' = GoTo(SubSeq(callStack, 1, Smaller(c.depth, Depth)), cl.target)
      /\ MoveCursor(full - cl.drop, full)
      /\ IF cl.kind \in RefKinds
           THEN /\ exceptions' = Append(exceptions, t)
                /\ refs' = Larger(refs, Len(exceptions) + 1)
           ELSE UNCHANGED <<exceptions, refs>>
      /\ UNCHANGED <<cap, pendingArity, runArity, mode, result, waiting>>

\* Mutant of Unwind: the outermost matching frame wins.
UnwindToOutermost(t) ==
  \/ \E i \in Catching(t) : (\A j \in Catching(t) : i <= j) /\ Land(t, i)
  \/ Catching(t) = {} /\ Fail("exception")

Unwind(t) ==
  \/ \E i \in Catching(t) : (\A j \in Catching(t) : j <= i) /\ Land(t, i)
  \/ Catching(t) = {} /\ Fail("exception")

Throw == Fetch({"Throw"}) /\ Unwind(Op.tag)

\* Any exnref handed out so far may be the one on the stack; an index the
\* table no longer has panics.
ThrowRef ==
  /\ Fetch({"ThrowRef"})
  /\ \E x \in 1..refs :
       \/ x \in DOMAIN exceptions /\ Unwind(exceptions[x])
       \/ x \notin DOMAIN exceptions /\ Panic

----------------------------------------------------------------------------
(***************************************************************************)
(* The embedder.                                                           *)
(***************************************************************************)
\* Mutant of Enter: num_results is read from pending_arity.
EnterWithPending(arity) == mode' = "running" /\ runArity' = pendingArity

Enter(arity) == mode' = "running" /\ runArity' = arity

\* invoke_by_addr, refused while an execution is paused.
Invoke(f) ==
  /\ mode = "ready" /\ pendingArity = None /\ Depth < MaxCallDepth
  /\ f \in LocalFunc
  /\ callStack' = Append(callStack, Activation(f, len))
  /\ MoveCursor(len, len + Params[f])
  /\ Enter(Results[f])
  /\ UNCHANGED <<catchStack, exceptions, cap, fuel, pendingArity, result, waiting, refs>>

\* A host function that the module re-exports: the arguments leave at once
\* and pending_arity is not set.
InvokeHost(g) ==
  /\ mode = "ready" /\ pendingArity = None /\ Depth < MaxCallDepth
  /\ g \in HostFunc
  /\ MoveCursor(len, len + Params[g])
  /\ waiting' = g
  /\ GiveBack("suspended")
  /\ UNCHANGED <<storeButLen, fuel, runArity, refs>>

Resume ==
  /\ mode = "ready" /\ pendingArity # None /\ result = "fuel"
  /\ Enter(pendingArity)
  /\ UNCHANGED <<store, fuel, result, waiting, high, refs>>

\* Mutant of ResumeWith: the host's results are not pushed.
ResumeWithout ==
  /\ mode = "ready" /\ pendingArity # None /\ result = "suspended"
  /\ MoveCursor(len, len)
  /\ Enter(pendingArity)
  /\ waiting' = None
  /\ UNCHANGED <<callStack, catchStack, exceptions, cap, fuel, pendingArity, result, refs>>

\* The embedder answers a host call with as many values as its type says, as
\* Linker::dispatch checks.
ResumeWith ==
  /\ mode = "ready" /\ pendingArity # None /\ result = "suspended"
  /\ MoveCursor(len + Results[waiting], len)
  /\ Enter(pendingArity)
  /\ waiting' = None
  /\ UNCHANGED <<callStack, catchStack, exceptions, cap, fuel, pendingArity, result, refs>>

SetFuel ==
  /\ mode = "ready"
  /\ fuel' \in FuelAmounts
  /\ UNCHANGED <<store, runArity, mode, result, waiting, high, refs>>

\* from_bytes(to_bytes()): the value stack is rebuilt around its contents,
\* the catch stack and the exceptions are not written.
Restore ==
  /\ mode = "ready"
  /\ catchStack' = <<>> /\ exceptions' = <<>>
  /\ cap' = Larger(len, MinCapacity)
  /\ high' = len
  /\ UNCHANGED <<callStack, len, fuel, pendingArity, runArity, mode, result, waiting, refs>>

----------------------------------------------------------------------------
Step ==
  \/ Complete \/ OutOfFuel \/ PcPastEnd
  \/ Compute \/ Branch \/ TrapOp
  \/ Call \/ ReturnCall \/ CallTooDeep \/ Return
  \/ TryCatchPush \/ TryCatchPop \/ Throw \/ ThrowRef

Embedder ==
  \/ \E f \in Exported : Invoke(f) \/ InvokeHost(f)
  \/ Resume \/ ResumeWith \/ SetFuel

Next == Step \/ Embedder

\* run() is a loop: while the store is running some op is executed.
Spec == Init /\ [][Next]_vars /\ WF_vars(Step)

\* The same store, which the embedder may also serialize and restore.
RestoreSpec == Init /\ [][Next \/ Restore]_vars /\ WF_vars(Step)
=============================================================================
