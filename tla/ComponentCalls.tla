--------------------------- MODULE ComponentCalls ---------------------------
(***************************************************************************)
(* The calls of components in the store: a component's sections flattened  *)
(* to initializers, their execution (instantiate_component), the lowering  *)
(* of a call's arguments to core values and guest memory, the call, and    *)
(* the lifting of its results, which may come later, after the guest ran   *)
(* out of fuel (pending_lifted).  Components says how values are lowered   *)
(* and lifted; here a lowering is any sequence of pushes of core values    *)
(* and of chunks of bytes for the guest's memory.                          *)
(*                                                                         *)
(* Bytes have two bits, so an i32 is 0..255 and an i64 0..65535; a raw     *)
(* value is as wide as an i64.  Types are written out in place of indices  *)
(* into the type section, a record is a tuple whose names are left out,    *)
(* and names of cases and flags are their positions.  The guest's          *)
(* functions are those of the repository's tests: a bump allocator, and    *)
(* functions that give their arguments back, on the stack or, one i32 per  *)
(* flat value, at the return pointer.  A component's modules are           *)
(* instantiated without imports: only fuel can pause them.                 *)
(***************************************************************************)
EXTENDS Integers, Sequences, SequencesExt

CONSTANTS
  Sections,    \* of the component, in order
  Arguments,   \* [name of an export -> the argument lists it is called with]
  PlainFunc,   \* a core function of another instance, called without lifting
  MemSize,     \* bytes of each instance's memory, below the i32 sign bit
  Fuels,       \* what the embedder sets the fuel to
  MaxCalls,    \* bound of the calls the embedder makes
  Flats(_),        \* how many flat values types have
  Lowering(_, _),  \* what is done to lower arguments, of these types
  Lifting(_, _, _) \* [v, ok]: the values of types that flat ones and a memory hold

VARIABLES
  core,            \* the core instances: [mem, bump]
  fuel,
  paused,          \* the execution left on the stacks: <<>> or <<execution>>
  pending_lifted,  \* <<>> or the <<LiftedFunc>> of a paused component call
  out,             \* what the embedder was last given
  asked,           \* ghost: [name, args] of the last component call started
  calls,
  overflow_checks  \* whether the program was built to panic when arithmetic overflows

vars == <<core, fuel, paused, pending_lifted, out, asked, calls, overflow_checks>>

----------------------------------------------------------------------------
(***************************************************************************)
(* Words.                                                                  *)
(***************************************************************************)
Signed(n, w) == LET v == n % 4^w IN IF v < 4^w \div 2 THEN v ELSE v - 4^w
Bytes(n, w) == [i \in 1..w |-> (n \div 4^(i - 1)) % 4]
Number(bytes) == FoldLeftDomain(LAMBDA a, i : a + bytes[i] * 4^(i - 1), 0, bytes)

\* RawValue::from an i32 of these bits.
RawI32(n) == Signed(n, 4) % 4^8

MaxFlatResults == 1
Spills(f) == Flats(f.type.results) > MaxFlatResults

----------------------------------------------------------------------------
(***************************************************************************)
(* Instantiation.                                                          *)
(***************************************************************************)
SectionsOf(k) == SelectSeq(Sections, LAMBDA s : s.k = k)
Modules == FoldLeft(LAMBDA all, s : Append(all, s.exports), <<>>, SectionsOf("CoreModule"))
Types == FoldLeft(LAMBDA all, s : all \o s.types, <<>>, SectionsOf("Type"))
Initializers ==
  FoldLeft(LAMBDA all, s : all \o s.items, <<>>,
           SelectSeq(Sections, LAMBDA s : s.k \notin {"CoreModule", "Type"}))

NewInstance(m) == [module |-> m, mem |-> [a \in 0..(MemSize - 1) |-> 0], bump |-> 0]

Nothing == [core |-> <<>>, funcs |-> <<>>, memories |-> <<>>, lifted |-> <<>>, exports |-> <<>>]

\* What one initializer adds; a core function is its instance and what the module says it does.
Initialized(c, i) ==
  CASE i.k = "InstantiateModule" -> [c EXCEPT !.core = Append(@, NewInstance(i.module))]
    [] i.k = "AliasCoreFunc" ->
         [c EXCEPT !.funcs = Append(@, [instance |-> i.instance]
                                         @@ Modules[c.core[i.instance].module][i.name])]
    [] i.k = "AliasCoreMemory" -> [c EXCEPT !.memories = Append(@, i.instance)]
    [] i.k = "Lift" ->
         [c EXCEPT !.lifted = Append(@, [func |-> c.funcs[i.func], type |-> Types[i.type],
            memory |-> IF i.memory = 0 THEN 0 ELSE c.memories[i.memory],
            realloc |-> IF i.realloc = 0 THEN <<>> ELSE <<c.funcs[i.realloc]>>])]
    [] i.k = "Export" -> [c EXCEPT !.exports = (i.name :> c.lifted[i.func]) @@ @]

instantiate_component == FoldLeft(Initialized, Nothing, Initializers)
Exports == instantiate_component.exports

----------------------------------------------------------------------------
(***************************************************************************)
(* The guest.  A store in the middle of a call is a record s of core, fuel *)
(* and paused, with flat, the values lowered so far, answer, what a guest  *)
(* function returned, and err, what the call fails with.                   *)
(***************************************************************************)
Store == [core |-> core, fuel |-> fuel, paused |-> paused, flat |-> <<>>, answer |-> <<>>,
          err |-> "none"]
Fail(s, err) == [s EXCEPT !.err = err]

\* The next step of a call, unless the call has failed.
Then(s, Step(_)) == IF s.err = "none" THEN Step(s) ELSE s

HasBytes(ptr, n) == ptr >= 0 /\ ptr + n <= MemSize

\* Chunks of bytes written one after the other, up to the first that has no room.
Written(mem, ptr, chunks) ==
  FoldLeft(LAMBDA w, c :
             IF w.ok /\ HasBytes(w.at, Len(c))
             THEN [mem |-> [a \in DOMAIN w.mem |->
                              IF a \in w.at..(w.at + Len(c) - 1) THEN c[a - w.at + 1] ELSE w.mem[a]],
                   at |-> w.at + Len(c), ok |-> TRUE]
             ELSE [w EXCEPT !.ok = FALSE],
           [mem |-> mem, at |-> ptr, ok |-> TRUE], chunks)
BytesAt(mem, ptr, n) == [i \in 1..n |-> mem[ptr + i - 1]]

\* The pointer of an i32: `as usize` makes a negative one too large for any memory.
Pointer(raw) == Signed(raw, 4)

Put(s, instance, ptr, chunks) ==
  LET w == Written(s.core[instance].mem, ptr, chunks)
      t == [s EXCEPT !.core[instance].mem = w.mem]
  IN  IF w.ok THEN t ELSE Fail(t, "trapped")

\* The functions of the test components, with their price in fuel.
Cost(fn) == IF fn.does = "realloc" THEN 1 ELSE 2
Echoed(s, fn, args) == [s EXCEPT !.answer = SubSeq(args, 1, fn.results)]
StoredBack(s, fn, args) ==
  Put(s, fn.instance, Pointer(Last(args)), [i \in 1..(Len(args) - 1) |-> Bytes(args[i], 4)])
Allocated(s, fn, args) ==
  [s EXCEPT !.answer = <<RawI32(s.core[fn.instance].bump)>>,
            !.core[fn.instance].bump = (@ + args[4]) % 4^4]
Body(s, fn, args) ==
  CASE fn.does = "echo" -> Echoed(s, fn, args)
    [] fn.does = "store" -> StoredBack(s, fn, args)
    [] fn.does = "realloc" -> Allocated(s, fn, args)
    [] OTHER -> Fail(s, "trapped")

\* run(), of an execution [fn, args, left, by] with ops left to go.
Run(s, e) ==
  IF s.fuel < e.left
  THEN [s EXCEPT !.fuel = 0, !.paused = <<[e EXCEPT !.left = @ - s.fuel]>>, !.err = "fuel"]
  ELSE Body([s EXCEPT !.fuel = @ - e.left, !.paused = <<>>], e.fn, e.args)

\* A call by the caller's name: "component", "realloc" or "plain".
invoke_by_addr(s, fn, args, by) ==
  IF s.paused # <<>> \/ Len(args) # fn.params THEN Fail(s, "refused")
  ELSE Run(s, [fn |-> fn, args |-> args, left |-> Cost(fn), by |-> by])

\* A realloc that does not come to its end is an error of the call.
MustEnd(s) == [s EXCEPT !.err = IF @ = "fuel" THEN "refused" ELSE @]
call_realloc(s, f, align, size) ==
  MustEnd(invoke_by_addr(s, f.realloc[1], <<0, 0, align, size>>, "realloc"))

----------------------------------------------------------------------------
(***************************************************************************)
(* Lowering: core values pushed behind the others, and chunks of bytes in  *)
(* room from the guest's realloc, of which a pointer and a length are      *)
(* pushed.  What has no lowering is refused; a count that overflows is a   *)
(* panic, or wraps where the build lets it.                                *)
(***************************************************************************)
Pushed(raws) == <<[does |-> "push", raws |-> raws]>>
Stored(align, size, chunks, len) ==
  <<[does |-> "store", align |-> align, size |-> size, chunks |-> chunks, len |-> len]>>
Refused == <<[does |-> "refuse"]>>
Overflows == <<[does |-> "overflow"]>>
Wrapped(raws) == <<[does |-> "wrap", raws |-> raws]>>

PushFlat(s, raws) == [s EXCEPT !.flat = @ \o raws]

LowerChunks(s, f, i) ==
  IF f.memory = 0 \/ f.realloc = <<>> THEN Fail(s, "refused")
  ELSE Then(call_realloc(s, f, i.align, i.size), LAMBDA r :
         Then(Put(r, f.memory, Pointer(r.answer[1]), i.chunks), LAMBDA p :
           PushFlat(p, <<p.answer[1], RawI32(i.len)>>)))

Lower(s, f, i) ==
  CASE i.does = "push" \/ (i.does = "wrap" /\ ~overflow_checks) -> PushFlat(s, i.raws)
    [] i.does = "store" -> LowerChunks(s, f, i)
    [] i.does = "overflow" \/ (i.does = "wrap" /\ overflow_checks) -> Fail(s, "overflow")
    [] OTHER -> Fail(s, "refused")

lower_values(s, args, f) ==
  LET steps == Lowering(args, f.type.params)
      lowered[n \in 0..Len(steps)] ==
        IF n = 0 THEN s ELSE Then(lowered[n - 1], LAMBDA t : Lower(t, f, steps[n]))
  IN  lowered[Len(steps)]

\* What is lowered is finite.
LoweringAssumption ==
  \A name \in DOMAIN Exports : \A args \in Arguments[name] :
    Len(Lowering(args, Exports[name].type.params)) \in Nat
ASSUME LoweringAssumption

----------------------------------------------------------------------------
(***************************************************************************)
(* Lifting.                                                                *)
(***************************************************************************)
\* The embedder's answer; reading behind the last flat value is a panic.
Answer(kind, values) == [kind |-> kind, values |-> values]
lift_values(s, flat, f) ==
  IF Len(flat) < Flats(f.type.results) THEN Answer("panicked", <<>>)
  ELSE LET l == Lifting(f.type.results, flat, IF f.memory = 0 THEN <<>> ELSE s.core[f.memory].mem)
       IN  IF l.ok THEN Answer("values", l.v) ELSE Answer("trapped", <<>>)

\* The flat results: the guest's own, or what it left at the return pointer.
FlatResults(s, f) ==
  IF Spills(f)
  THEN [n \in 1..Flats(f.type.results) |->
          RawI32(Number(BytesAt(s.core[f.memory].mem, Pointer(Last(s.flat)) + 4 * (n - 1), 4)))]
  ELSE s.answer

----------------------------------------------------------------------------
(***************************************************************************)
(* The calls of the embedder.                                              *)
(***************************************************************************)
Commit(s) == core' = s.core /\ fuel' = s.fuel /\ paused' = s.paused

WithReturnPointer(s, f) ==
  IF ~Spills(f) THEN s
  ELSE IF f.memory = 0 \/ f.realloc = <<>> THEN Fail(s, "refused")
  ELSE Then(call_realloc(s, f, 4, 4 * Flats(f.type.results)), LAMBDA r : PushFlat(r, r.answer))

Called(f, args) ==
  Then(Then(lower_values(Store, args, f), LAMBDA s : WithReturnPointer(s, f)),
       LAMBDA s : invoke_by_addr(s, f.func, s.flat, "component"))

\* A component call refused because the store is paused leaves the execution's ghost alone.
InvokeComponent(name, args) ==
  /\ calls < MaxCalls
  /\ calls' = calls + 1
  /\ asked' = IF paused = <<>> THEN [name |-> name, args |-> args] ELSE asked
  /\ \E f \in {Exports[name]} : \E s \in {Called(f, args)} :
      /\ Commit(s)
      /\ \/ /\ s.err = "none"
            /\ out' = lift_values(s, FlatResults(s, f), f)
            /\ pending_lifted' = <<>>
         \/ /\ s.err = "fuel"
            /\ out' = Answer("fuel", <<>>)
            /\ pending_lifted' = <<f>>
         \/ /\ s.err \in {"refused", "trapped", "overflow"}
            /\ out' = Answer(s.err, <<>>)
            /\ UNCHANGED pending_lifted
  /\ UNCHANGED overflow_checks

\* Mutant: pending_lifted.take() where the code clones it.
ResumeComponentTaking ==
  /\ paused # <<>> /\ pending_lifted # <<>>
  /\ LET s == Run(Store, paused[1])
         f == pending_lifted[1]
     IN  /\ Commit(s)
         /\ out' = IF s.err = "none" THEN lift_values(s, s.answer, f) ELSE Answer(s.err, <<>>)
  /\ pending_lifted' = <<>>
  /\ UNCHANGED <<asked, calls, overflow_checks>>

\* resume_component lifts what the guest returned; the return pointer is forgotten.
ResumeComponent ==
  /\ paused # <<>> /\ pending_lifted # <<>>
  /\ LET s == Run(Store, paused[1])
         f == pending_lifted[1]
     IN  /\ Commit(s)
         /\ out' = IF s.err = "none" THEN lift_values(s, s.answer, f) ELSE Answer(s.err, <<>>)
         /\ pending_lifted' = IF s.err = "none" THEN <<>> ELSE pending_lifted
  /\ UNCHANGED <<asked, calls, overflow_checks>>

\* What the embedder is given of a core call: its results.
RawAnswer(s) == Answer(IF s.err = "none" THEN "raw" ELSE s.err, <<>>)

Resume ==
  /\ paused # <<>>
  /\ LET s == Run(Store, paused[1]) IN Commit(s) /\ out' = RawAnswer(s)
  /\ UNCHANGED <<pending_lifted, asked, calls, overflow_checks>>

InvokePlain ==
  /\ calls < MaxCalls
  /\ calls' = calls + 1
  /\ LET s == invoke_by_addr(Store, PlainFunc, <<1>>, "plain") IN Commit(s) /\ out' = RawAnswer(s)
  /\ UNCHANGED <<pending_lifted, asked, overflow_checks>>

SetFuel ==
  /\ fuel' \in Fuels
  /\ UNCHANGED <<core, paused, pending_lifted, out, asked, calls, overflow_checks>>

Init ==
  /\ core = instantiate_component.core
  /\ fuel \in Fuels
  /\ paused = <<>> /\ pending_lifted = <<>>
  /\ out = Answer("none", <<>>)
  /\ asked = [name |-> 0, args |-> <<>>]
  /\ calls = 0
  /\ overflow_checks \in BOOLEAN

\* The embedder's contract: resume_component goes on with a component call, and with one
\* whose results come on the stack.
ResumesItsOwn ==
  paused # <<>> => paused[1].by = "component" /\ ~Spills(Exports[asked.name])

Next ==
  \/ \E name \in DOMAIN Exports : \E args \in Arguments[name] : InvokeComponent(name, args)
  \/ ResumesItsOwn /\ ResumeComponent
  \/ Resume
  \/ InvokePlain
  \/ SetFuel

Spec == Init /\ [][Next]_vars

----------------------------------------------------------------------------
(***************************************************************************)
(* Properties.                                                             *)
(***************************************************************************)
\* The types lifted at the end of a paused component call are those it was called with
\* (store.rs:1002): pending_lifted is its function's, whatever calls trapped, were refused or
\* were resumed without it before.
PausedIsLifted ==
  \A i \in DOMAIN paused :
    paused[i].by = "component" =>
      /\ pending_lifted = <<Exports[asked.name]>>
      /\ pending_lifted[1].func = paused[i].fn

=============================================================================
