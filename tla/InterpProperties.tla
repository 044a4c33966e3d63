-------------------------- MODULE InterpProperties --------------------------
(***************************************************************************)
(* What the interpreter must keep true, stated over Interp's state.        *)
(***************************************************************************)
EXTENDS Interp

AwaitingHost == mode = "ready" /\ pendingArity # None /\ result = "suspended"
AwaitingFuel == mode = "ready" /\ pendingArity # None /\ result = "fuel"

\* The results a suspended store still expects from the host function.
AwaitedResults == IF AwaitingHost THEN Results[waiting] ELSE 0

\* The operands of activation d of call stack cs, which share a value stack of
\* n values: those between its stack_base and that of the next activation.
Operands(cs, n, d) == (IF d = Len(cs) THEN n ELSE cs[d + 1].base) - cs[d].base

\* The values it is still owed: the results of the activation above it, or w.
Owed(cs, w, d) == IF d < Len(cs) THEN Results[cs[d + 1].f] ELSE w

Typed(cs, n, w) ==
  /\ \A d \in 1..Len(cs) : At(cs[d].f, cs[d].pc, Operands(cs, n, d) + Owed(cs, w, d))
  /\ cs # <<>> => cs[1].base = 0

(***************************************************************************)
(* Every activation's segment of the value stack has exactly the height    *)
(* the function's typing gives at its pc, through every call, tail call,   *)
(* branch, caught exception and pause: this is what lets ValueStack omit   *)
(* its bounds checks ("wasm validation guarantees every instruction        *)
(* sequence is stack-safe", runtime/stack.rs).                             *)
(***************************************************************************)
HeightsKept == Typed(callStack, len, AwaitedResults)

(***************************************************************************)
(* The value stack is never written past its capacity, which               *)
(* ensure_stack_capacity sizes once for MAX_CALL_DEPTH activations of the  *)
(* largest max_stack_height ("so we can never overflow", runtime/stack.rs).*)
(***************************************************************************)
NeverOverflows == high <= cap

\* No execution indexes code or exceptions out of range: the assertion at
\* the head of run() holds and exceptions[i] in ThrowRef exists.
NeverAborts == mode # "aborted"

(***************************************************************************)
(* When a call has ended, by results, trap or exception, nothing of it is  *)
(* left on any of the three stacks for the next call to run into.          *)
(***************************************************************************)
EndedIsClean ==
  mode = "ready" /\ pendingArity = None =>
    callStack = <<>> /\ catchStack = <<>> /\ len = 0

(***************************************************************************)
(* A frame of the catch stack is in scope: its try_table encloses the pc   *)
(* of its activation, and it would restore the stack to the height that    *)
(* try_table was entered with.  Outside(c, e): c's try_table encloses e's. *)
(***************************************************************************)
Level(h) == Len(Scope[Site[h].f][Site[h].pc]) + 1

InScope(cs, c) ==
  LET a == cs[c.depth]
      s == Scope[a.f][a.pc]
  IN  /\ c.depth \in 1..Len(cs)
      /\ a.f = Site[c.h].f
      /\ Level(c.h) \in 1..Len(s) /\ s[Level(c.h)] = c.h
      /\ c.restore = a.base + Height[a.f][Site[c.h].pc]

Outside(c, e) ==
  \/ c.depth < e.depth
  \/ c.depth = e.depth /\ Level(c.h) < Level(e.h)

Scoped(cs, ks) ==
  /\ \A i \in 1..Len(ks) : InScope(cs, ks[i])
  /\ \A i, j \in 1..Len(ks) : i < j => Outside(ks[i], ks[j])

\* Every try_table around the pc of an activation has its frame.
Installed(cs, ks) ==
  \A d \in 1..Len(cs) : \A l \in 1..Len(Scope[cs[d].f][cs[d].pc]) :
    \E i \in 1..Len(ks) : ks[i].depth = d /\ ks[i].h = Scope[cs[d].f][cs[d].pc][l]

(***************************************************************************)
(* What a restored store keeps: no catch frame outlives its try_table or   *)
(* its activation, and the order is that of nesting.                       *)
(***************************************************************************)
CatchFramesInScope == Scoped(callStack, catchStack)

(***************************************************************************)
(* The catch stack, a history of TryCatchPush and TryCatchPop, always      *)
(* equals the lexical nesting of try_tables around each activation's pc:   *)
(* nothing else, nothing missing, one frame each, the outer ones first.    *)
(***************************************************************************)
CatchStackIsLexical == CatchFramesInScope /\ Installed(callStack, catchStack)

\* An exnref the program holds denotes the exception it was created for.
ExnRefsResolve == refs <= Len(exceptions)

\* A store that reported a host call can be resumed with its answer.
SuspendedCanResume ==
  mode = "ready" /\ result = "suspended" => pendingArity # None

(***************************************************************************)
(* With fuel, every run returns to the embedder, loops and recursion       *)
(* included (set_fuel bounds the ops a run executes).                      *)
(***************************************************************************)
FueledRunReturns == (mode = "running" /\ fuel # None) ~> (mode # "running")

(***************************************************************************)
(* The flat stacks, fuel pauses and host suspensions implement             *)
(* WebAssembly's control semantics: pauses are invisible, exceptions reach *)
(* the lexically innermost handler.                                        *)
(***************************************************************************)
FramesOf(cs) == [d \in DOMAIN cs |-> [f |-> cs[d].f, pc |-> cs[d].pc]]

Status ==
  IF mode = "running" \/ AwaitingFuel THEN "running"
  ELSE IF AwaitingHost THEN "waiting" ELSE "idle"

Awaited == IF AwaitingHost THEN {waiting} ELSE {}

Outcome ==
  IF mode = "ready" /\ pendingArity = None /\ result \in {"completed", "trap", "exception"}
    THEN result ELSE "none"

Wasm == INSTANCE WasmMachine WITH
  frames  <- FramesOf(callStack),
  status  <- Status,
  host    <- Awaited,
  outcome <- Outcome,
  thrown  <- exceptions

ImplementsWasm == Wasm!Spec
=============================================================================
