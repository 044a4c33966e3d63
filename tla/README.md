# A verification of gabagool

gabagool is a `no_std` WebAssembly interpreter whose execution state can be
paused, serialized, forked and resumed. It validates a module, lowers every
function to a flat array of ops, and runs those ops on three stacks kept in one
`Store`: the value stack shared by all activations, the call stack, and the
catch stack of installed exception handlers. This directory holds TLA+ modules
for its parts, the TLC runs that check them on small instances, and proofs,
checked by TLAPS, that hold for every program and every size.

All paths below are relative to the repository's root.

## 1. The system

| Component | Source | State | Operations | What makes it correct |
|---|---|---|---|---|
| Interpreter core | `src/runtime/store.rs` (`run`, `invoke_by_addr`, `resume`, `resume_with`, `finish_run`, `handle_exception`, ...), `src/runtime/stack.rs` | call stack, value stack, catch stack, exceptions, fuel, `pending_arity`, `pending_suspension` | one step per op; invoke, resume, answer a host call, set fuel | implements WebAssembly's control semantics; the unchecked value stack is typed and never overflows; a call that ended leaves nothing; with fuel every run returns |
| Compiler | `src/compiler.rs`, `src/ir.rs` | block contexts, `stack_height`, `max_stack_height`, labels, jump tables, catch handlers | one case per instruction, label resolution, fusion | each jump lands at the height its target was compiled for; handlers balance; `max_stack_height` covers; fusion keeps meaning |
| Snapshot codec | `src/snapshot.rs` | bytes | encode, decode, snapshot, fork | what is decoded is what was encoded; forks share nothing |
| Instantiation | `src/runtime/store.rs` 424-921 | the store's address spaces, instances, stack capacity | allocate, check imports, run segments and start function | imports match; a refused module leaves no observable change; the start function runs to its end |
| Linker | `src/linker.rs` | host functions by name | define, instantiate, invoke, `dispatch` | every host call is answered by the function of its name and type, or the execution ends |
| Memories, tables, globals | `src/runtime/memory.rs`, `store.rs` 2019-2380, `types.rs` | bytes, elements, segments, limits | loads, stores, grow, fill, copy, init, drop | an access is done whole, in bounds, or traps and changes nothing; a size stays what is declared and within its limit |
| WASI preview 1 | `src/wasi/` | descriptor table with rights, args, environment, clock, random | about 45 calls | rights only shrink; descriptors neither leak nor change hands; transferred counts agree with what happened |
| Component runtime | `store.rs` 854-1568, `src/component/` | component instances, `pending_lifted`, a guest's `realloc` | flatten, instantiate, lower, call, lift, resume | lift after lower is the identity, of the same call; flat counts match types |
| Validator | `src/validator.rs` | value types and control frames | one case per instruction | accepts only bodies the compiler's heights and `run()`'s untagged slots are right for; `module.rs:33` does not call it at present |
| Parser, LEB128 | `src/parser.rs`, `src/leb128.rs`, `src/module.rs` | a cursor | one function per production | LEB128 decodes what it encodes and refuses overlong input |
| JIT | `src/jit/`, `src/stencils/` | machine code | assemble, run | an optional feature; agrees with the interpreter |

How they meet: the embedder (directly, or through the `Linker`, WASI and the
component runtime) calls a `Store`; the store runs until it has a result, an
error, no fuel, or a call of a host function to report, and then *returns*. A
host call is not a callback: the name and arguments leave in
`ExecutionState::Suspended` and the answer comes in with `resume_with`. Between
two calls the store is data; it may be written to bytes, forked and resumed
elsewhere. There are no threads. What is hard here is therefore not parallelism
but the long sequences: calls, tail calls, branches, traps, exceptions, pauses
and restores in any order, over three stacks that refer to each other by
absolute depths and heights and are read without bounds checks.

`PROJECT.json` lists the hazards at their lines and which property watches each.

## 2. The modules

    Program ---- Interp ---- InterpProperties ---- InterpTyped ---- InterpProofs
       |                       |      |
       |                  WasmMachine |
       |                              |
       |                              +--- MCInterp --- MCStructured
    Compile ---- MCPrograms ---- MCCompile        |
                     +------- CompiledPrograms ---+

    StoreLife ---- StoreLifeProofs          Storage ---- WasmStorage
        +--------- MCStoreLife                 +-------- StorageProofs
                                               +-------- MCStorage

    WasiFds ------ WasiProofs               WasiIO ------ WasiIOProofs
        +--------- MCWasiFds                   +--------- MCWasiIO

    Validate ----- ValidateProofs           Fusion ------ FusionProofs
        +--------- MCValidate                  +--------- MCFusion

    ComponentCalls --- Components --- MCComponents
        +------------- ComponentProofs

* **Program** is the compiled code as data: `ops`, catch clauses, signatures
  (`src/ir.rs`), and what each op needs of the stack and where it goes (`Needs`,
  `Edges`). It also states what validation and compilation promise: `HeightsFit`
  (there is an operand height for each reachable pc, and every op, jump and catch
  clause agrees with it) and `ScopesFit` (no control transfer leaves a
  `try_table` but through its end, a call or an exception).
* **Interp** is `Store::run` and the embedder's calls. One action per op or
  group of ops that differ only in values: `Compute` is every op that stays in
  its function and only computes, `Branch` every plain, table, null-testing and
  fused jump, `Call`, `ReturnCall`, `Return`, `TryCatchPush`, `TryCatchPop`,
  `Throw`, `ThrowRef`, `TrapOp`; `Complete`, `OutOfFuel` and `PcPastEnd` are the
  ways out of the loop. `Invoke`, `InvokeHost`, `Resume`, `ResumeWith`, `SetFuel`
  and `Restore` are the embedder's. `callStack`, `catchStack`, `exceptions`,
  `fuel` and `pendingArity` are the fields of `Store`; `len` and `cap` are the
  value stack's cursor and capacity; `runArity` is `finish_run`'s argument;
  `mode` tells whether the store is inside `run()`; `result` and `waiting` are
  what it last returned. `high` and `refs` only observe: the highest cursor the
  current stack has reached, with the peaks inside a step, and the number of
  exnrefs handed out.
  Values are abstracted to their number. The results of a comparison, of a table
  lookup, or of a division are therefore nondeterministic: any edge of the op
  may be taken, any function of the right type may be in the table, any exnref
  handed out may be the one rethrown.
* **InterpProperties** states what must hold, and **WasmMachine** the abstract
  machine that `Interp` refines: activations and pcs only, no value stack, no
  catch stack, no fuel, no snapshots; an exception goes to the lexically
  innermost matching `try_table`. The refinement mapping drops the bases, makes a
  fuel pause invisible and a host suspension a wait.
* **Compile** is the lowering of `compiler.rs`: block contexts, label positions,
  keep and drop counts with their `u16` narrowing, dead code, catch clauses,
  `max_stack_height`. Beside each emitted op it keeps the typing of the source
  at that point (`live`, `height`, `scope`), which the code does not have; the
  properties compare the two.
* **InterpTyped** names the assumptions of the proofs and the inductive
  invariant; **InterpProofs** proves.
* **StoreLife** is the store seen by its callers: the embedder, the `Linker`,
  the host functions a `Linker` calls, and `instantiate`. What `run()` does is
  one step here, with any outcome: `RunCompletes`, `RunOutOfFuel`, `RunAsks` (a
  host call), `RunFails`. `calls`, `len`, `cap`, `pendingArity` are the same
  fields as in `Interp`, `hosts` the host functions among `Store::functions`,
  `funcs` the `Linker`'s. `control` says who runs, `task` what a running `run()`
  was called for (`finish_run`, the segments, the start function) and by whom,
  and `serving` which host function is in its callback. `Instantiate`, `Invoke`,
  `Resume`, `ResumeWith` are the store's calls, from the embedder or from a
  callback through `Caller::parts_mut`; `FuncNew`, `LinkerInstantiate`,
  `LinkerInvoke`, `Dispatch` the `Linker`'s, its loop being `DispatchStep`,
  `CallbackReturns` and `CallbackExits`. Two observers, `asked` and `height`,
  record what a paused execution awaits. **StoreLifeProofs** proves.
* **Validate** takes `validator.rs` through a function body one instruction at a
  time, beside what `compiler.rs` makes of the instruction and what `run()` does
  with it. `vals` and `control` are the validator's stacks, `height` and `blocks`
  the compiler's, `run` one execution of the body, whose slots carry the type
  they were made with: `run()` has only untagged 64-bit slots. `fault` records
  an op that finds a slot of another type than it decodes, a reference in the
  wrong table, a branch that misses its label's height. Each rule of
  `FunctionContext` is one operator (`CanPop`, `PushControl`, `MarkUnreachable`, ...);
  instructions that compute alike are one instruction. **ValidateProofs** proves.
* **Storage** has memories, tables and segments under each of their 16 groups
  of ops, in the arithmetic of the code: words of `W32` and `W64` bits,
  `pop_address` as sign extension, and each range check with its `checked_add`,
  `saturating_add` or plain sum. **WasmStorage** is what WebAssembly promises,
  in exact unsigned arithmetic, where `memory.grow` may be refused for want of
  memory and `table.grow` beyond `Allocatable` elements; `Storage` is shown to
  implement it. An op stands at `next` with its operands before it is run, so that
  a check may be compared with the operands it was made on. **StorageProofs** proves.
* **Fusion** is `strip_dead_labels`, `fuse_ops` and `assemble`, and `run()`'s arms
  for what comes out. A body is emitted op by op; then the fused code and the
  same ops assembled without fusion are run beside each other. Each pass is a choice
  of positions in a sequence (`Kept`): the ops that are no dead labels, the ops
  `fuse_ops` visits, the ops that are no labels at all. **FusionProofs** proves.
* **WasiFds** is the descriptor table: one action per WASI call, with its checks
  in the order of the code (`Passes`, `Refusal`: the first that fails answers),
  the resource behind a descriptor succeeding or failing freely.
  `ceilings` observes what a descriptor's preopen was granted, `held` which
  numbers the guest was told, `excess` what a call made a resource do beyond
  that. **WasiProofs** proves. **WasiIO** is the bytes: vectors with short
  transfers and errors anywhere, positional reads and writes, pages of
  `fd_readdir`, the lists of `args_get` and `environ_get`, each used by a guest
  that retries what it was not told was done. **WasiIOProofs** proves.
* **ComponentCalls** flattens a component's sections to initializers and runs
  them (`instantiate_component`), lowers arguments to core values and guest
  memory by calls of the guest's `realloc`, calls, and lifts the results, at once
  or in `resume_component` after the guest ran out of fuel. `paused` is the
  execution on the store's stacks; `Resume`, `InvokePlain` and `SetFuel` are the
  core calls an embedder may make in between. What `lower_value` does to the store
  is a sequence of steps, values pushed and chunks of bytes put in room from
  `realloc`; which steps, and what is lifted, are constant operators
  (`Lowering`, `Lifting`). **Components** defines these for every type, recursively
  as the code does; **ComponentProofs** proves what holds for any of them. A type is written out in place of
  its index, a record is a tuple, and the guest's functions are those of the
  repository's component tests: a bump allocator, and functions that give their
  arguments back on the stack or one i32 for each flat value at a pointer.
* **MCInterp**, **MCStructured** instantiate the interpreter with one of four
  small modules, written as source in **MCPrograms** and, as `Compile` lowers
  them, as literals in **CompiledPrograms** (an assumption of MCInterp, evaluated
  in every run, says the two agree). **MCCompile** builds every small function
  body. **MCStoreLife** gives `StoreLife` two host functions and four modules;
  **MCValidate**, **MCStorage**, **MCFusion**, **MCWasiFds**, **MCWasiIO** and
  **MCComponents** give the others their modules, operands and arguments.

A definition whose comment begins "Mutant of" is a deliberately wrong variant
of the next one. None is part of a specification; they show that each property
can be violated.

## 3. The runs

Each run's cfg gives the constants; `tlc -config X.cfg M`.

| Run | Module | States | What it shows |
|---|---|---|---|
| `interp` | MCStructured | 13 218 | On `StructuredModule` (calls, indirect calls, tail calls out of a handler, jump tables, null tests, recursion to the limit, traps, catch, rethrow, a host import and its re-export) the catch stack is the lexical nesting, exnrefs resolve, nothing overflows or aborts, and every behaviour is one of `WasmMachine`. Deadlock is checked. |
| `interp_restore` | MCStructured | 76 974 | With `Restore` between any two calls: the heights each function was compiled for, the clean end of every call and the scope of whatever catch frames are left still hold. |
| `interp_escape` | MCInterp | 921 | On `EscapingModule`, which leaves try_tables by `br_if` and `return` and so lands in wrong code, a run with fuel still returns. This run also reaches the assertion at the head of `run()`. |
| `compile` | MCCompile | 419 827 | Every valid body of at most 4 instructions: heights and targets agree, `max_stack_height` covers, handlers balance unless the source escapes. |
| `store_life` | MCStoreLife | 109 513 | Invocations, pauses, answers, dispatch, host functions that invoke and instantiate in their turn, exits, wrong answers, refused modules, in any order: one execution at a time (`OneExecution`), reported as it is (`PausedIsPending`), never resumed on a value stack with results missing or in excess (`NeverTorn`), answered at the type of the import (`AnswersAsImported`). |
| `validate` | MCValidate | 530 491 | Every body within the bounds that the validator accepts: each op finds the slots it decodes (`OperandsFit`), the validator's operands are the machine's and their number the compiler's height wherever control is (`StackFits`), branches and returns bring what their labels take (`LabelsReceive`), and what either treats as unreachable is not run (`DroppedCodeIsDead`). |
| `storage` | MCStorage | 2 796 366 | Each op with operands at and around every length and the sign bit implements exact arithmetic (`KeepsPromise`, the refinement), and the limits an importer is matched against stay the real sizes (`SizesAgree`). |
| `fusion` | MCFusion | 1 547 672 | Every body of six ops in seven repertoires, every comparison, signedness and NaN: fused code keeps step with unfused code. |
| `wasi_fds` | MCWasiFds | 4 079 | Any calls, failing at any check or in the resource: rights descend (`RightsDescend`), each use is covered by what was granted (`NoAmbientAuthority`), open descriptors are the ones the guest knows (`NothingLeaks`), flags are the resource's (`FlagsAgree`), and a descriptor is never another's (`EntriesStay`). |
| `wasi_io` | MCWasiIO | 284 | No byte read, written or listed is lost, doubled or out of order, with short transfers, errors, interrupted calls and wrong offsets between (`ReadsLossless`, `WritesExact`, `DirectoryComplete`, `ListsRead`). |
| `components` | MCComponents | 782 464 | Calls of every type, fuel that ends in a `realloc` or in the function, both ways to resume, core calls in between: each answer is its call's arguments (`AnswersEcho`), a paused call is lifted at its own type (`PausedIsLifted`), and a call is refused, or overflows in a build that checks for it, only for a reason of its types or of the store's state (`RefusedForAReason`). |
| `find_stale_handler` | MCInterp | | A disagreement, section 5. |

Bounds. `MaxCallDepth = 3` stands for 1024: deep enough for a handler two
activations below the throw, and reached by recursion, so the limit is
exercised. `MinCapacity = 2` stands for 1024 in the minimum capacity, so that
the multiplication by the call depth matters. `FuelAmounts = {2}` lets a run
pause between any two ops, since the embedder may refuel to 2 at any pause, and
`None` (no fuel) is the initial value. `MaxExceptions` and `MaxCatchFrames` cut the growth of
`exceptions` (never cleared by the code) and of leaked catch frames: at two
exceptions both catching by reference and rethrowing an older exnref happen; the
structured program never has more than three catch frames. For the liveness run
the cut states have no successors, so a run that leaks more than three frames is
not followed further; loops that leak none are. `MaxInstrs = 4` and
`MaxNesting = 3` suffice for a branch out of two blocks with an operand to drop,
an else arm after dead code, and a `try_table` in a block with a thrower in it.
The runs that say `CHECK_DEADLOCK FALSE` have states where the system stops:
a panic, or a compiled body.

`store_life` bounds the call stack (`MaxDepth = 3`: the first activation, a
caller, a callee), host functions (3: the two modules that import, one of them
twice) and instances (2, so that one is instantiated while the other is in
use). Its constants also name what is assumed of callers, since the store
enforces little of it:

* `Careful`: nobody instantiates while an execution is on the stacks; `resume`
  and `resume_with` give the results that were asked for; a host function does
  not resume its own caller, and what it invokes itself comes to its end. A
  `Linker` meets the second by itself, which is a part of `NeverTorn`.
* `StartsSettle`: segments and start functions run to their end. The code
  neither checks nor repairs it: `find_failed_start.cfg` drops it.
* `AllowShadowing = FALSE`, the default of a `Linker`.

Each of them is needed: `store_life` fails with any one negated.

`validate` takes bodies as far as the operands (`MaxVals = 3`), the operands
and twice the open blocks (`MaxSize = 7`) and the drift of the compiler's height
in dead code (`MaxDrift = 1`) go, in four repertoires of plain instructions, each with all of
control flow (its one declared local is nullable, as `DefaultsFit` asks): enough for a block with parameters and results inside another,
operands below it, and dead code in each. The types are those of one module with two function
types, both kinds of memory and table, and nullable and typed references.

`storage` has i32 words of 4 bits and i64 words of 5, pages of two bytes and at
most three of them. What matters of a word is where it stands to the lengths,
to the sign bit and to the ends of both widths, and the operands enumerate
these; what matters of a range is empty, inside, touching the end, across, and
overlapping another, and three pages have them all. `Allocatable` is what the
allocator can give. `AnyGrowth = FALSE` takes `memory.grow` only where its sum does
not wrap (section 5), and memories stay below half of the 32-bit addresses,
because `pop_address` makes addresses from 2 GiB on trap.

`fusion`: two labels and six ops hold each fused pair with a label before,
between and behind it, and a jump to each (what they do not hold, longer bodies and
other types, is section 4's); two bits tell signed from unsigned
order apart; floats are two numbers and NaN. In `wasi_fds` two numbers beside
the standard ones are reused and run out; one thing is wrong with a call at a
time, so that each check is the one that answers. In `wasi_io` lists have up to
three vectors, with an empty one, and a page may be cut at any byte of an entry.
`components` has bytes of two bits, so that an i32 is 0..255 and lengths and
pointers still fit; one component of two instances with 25 exports, a type each;
arguments at the edges of their types; three calls, so that one may be left
paused and met by another; fuel for two steps, which ends in the second
`realloc` or in the function, or for all. `overflow_checks` is the build,
with overflow checks as `cargo test` has them or without as a release; each is followed. `ResumesItsOwn` is its contract:
`resume_component` is called for a component's call that returns on the stack
(section 5).

Fairness. The only liveness property, `FueledRunReturns`, assumes
`WF_vars(Step)`: while the store is inside `run()` the loop executes its next
op. Nothing is assumed of the embedder, who may never resume.

## 4. The proofs

`tlapm` checks every theorem to the last leaf; no step is omitted.

Assumptions (`InterpTyped.tla`): the constants have their types
(`ProgramTypeAssumption`, `ParametersAssumption`), the program fits a typing
(`HeightsAssumption`, `ScopesAssumption`), `MaxHeight` bounds the operands at
every reachable pc and what a clause pushes (`RoomAssumption`). The runs
`interp` and `interp_restore` evaluate them; `compile` checks on all small
bodies that the compiler establishes the first two for sources that do not
escape a `try_table` (and whose try_tables take no parameters). Number of
functions, code, call depth, tags, stack sizes and the number of steps are
unbounded.

| Theorem | Module | |
|---|---|---|
| `StoreIsTyped`, `RestoredStoreTyped` | InterpProofs | `Spec` and `RestoreSpec` keep `StoreTyped` |
| `RestoreStaysTyped`, `RestoreKeepsHeights`, `RestoreEndsClean`, `RestoreKeepsScopes` | InterpProofs | `RestoreSpec` implies `[]TypeOK`, `[]HeightsKept`, `[]EndedIsClean`, `[]CatchFramesInScope` |
| `NeverOverflowing`, `ExnRefsResolving`, `NeverAborting` | InterpProofs | `Spec` implies `[]NeverOverflows`, `[]ExnRefsResolve`, `[]NeverAborts` |
| `CatchStackLexical` | InterpProofs | `Spec` implies `[]CatchStackIsLexical` |
| `InterpImplementsWasm` | InterpProofs | `Spec` implies `ImplementsWasm`, the specification of `WasmMachine` under the refinement mapping |

The argument. `HeightsKept` says that each activation's segment of the value
stack has exactly the height its function's typing gives at its pc, counting
the results it still awaits from the activation above or from the host. It is
not inductive alone. A `Land` cuts both stacks to the depth and height in a
catch frame, so the frames must be true of the activation they name:
`CatchFramesInScope` says every frame's `try_table` is in scope at the pc of its
activation, its `restore` is that activation's base plus the height at its
`TryCatchPush`, and frames are ordered as they nest. A `Complete` pops
`runArity` values, so `ArityKept` ties `runArity` and `pendingArity` to the
results the first activation owes. `EndedIsClean` then gives the next `Invoke` empty stacks
to start from. `StoreTyped` is the conjunction, with the types. `Restore`
preserves it because it only removes catch frames and every conjunct survives
that. For the capacity, `RoomKept` adds that activation `d` starts no higher than
`(d - 1) * MaxHeight` and that the capacity is the one for `MaxCallDepth`
activations, which a restore breaks: that theorem is about `Spec`.

The refinement of `WasmMachine` needs the converse of `CatchFramesInScope`: not
only does each frame belong to a `try_table` in scope, each `try_table` in scope of
each activation has its frame (`Installed`, which a restore breaks too). Together
with the order of the frames this is `CatchStackIsLexical`, and `Innermost` then
says that the frame `handle_exception` finds first, searching the catch stack
from its end, is the one `WasmMachine` finds searching the scopes from the
innermost activation outwards. The other steps are one lemma each (`CallsWasm`,
`TailCallsWasm`, `ReturnsWasm`, `LandsWasm`, ...); a pause for fuel is a stutter.

Of `StoreLife`, under `ContractKept` (the three assumptions above) and for
any set of modules, names and types and any bounds:

| Theorem | Module | |
|---|---|---|
| `LifeIsCoherent`, `LifeIsTyped` | StoreLifeProofs | `Spec` implies `[]LifeInv`, and so `[]TypeOK` |
| `OneExecutionAtATime`, `PausedMeansPending`, `NothingIsTorn`, `AnsweredAsImported` | StoreLifeProofs | `Spec` implies the always of `OneExecution`, `PausedIsPending`, `NeverTorn`, `AnswersAsImported` |

The argument. That nothing is torn rests on a chain from registration to answer:
`HostsAsImported` (every host function in the store has, under its name in the
`Linker`, the type it was imported at, since names are never redefined),
`QuestionIsAsked` (the host function at hand is the one the paused execution
called, for `ResumeWith` clears it and a host function that returns control to
the dispatch loop left nothing else paused), and `HeightIsOwed` (the cursor is
short by exactly what was asked). One execution follows from `RunIsFounded` and
`PausedIsPending`: between runs `pendingArity` is `None` only on empty stacks.

The operator lemmas (what `Land`, `Follow`, a call or a return does to typed
stacks) open InterpProofs, which then has one lemma per action.

Of `WasiFds`, for any sets of rights and flags, any descriptor numbers, any
arguments and any failures of the resources. Beside the types of the constants
the only assumption is that the rights asked for are rights and that no flags is
one of the sets of flags (`ArgumentsAssumption`, `SetsAssumption`):

| Theorem | Module | |
|---|---|---|
| `TableStaysInOrder`, `TableTyped` | WasiProofs | `Spec` implies `[]TableInv`, `[]TypeOK` |
| `EntriesAreKept` | WasiProofs | `Spec` implies `EntriesStay`, an action property |
| `RightsOnlyDescend`, `NoCallExceeds`, `NoDescriptorLeaks`, `FlagsAlwaysAgree` | WasiProofs | `Spec` implies the always of `RightsDescend`, `NoAmbientAuthority`, `NothingLeaks`, `FlagsAgree` |

The argument. The four hold together or not at all: that nothing is exercised
beyond a ceiling needs `RightsDescend` of the entry that passed the check, and a
new entry is below its ceiling because `path_open` compares both sets of rights
with what its parent passes on, which is below the parent's ceiling by
`RightsDescend` again. `TableInv` is their conjunction with the shape of the table. The
lemmas `Passing...` say what a list of checks that passes establishes, wherever
the check stands in it; `OperateKeeps` and `LookKeeps` then settle all calls that
leave the table alone. That no descriptor leaks is the order inside `path_open`:
the pointer for the number is checked before the resource is opened, so the
last write cannot fail.

That a descriptor never changes hands rests on `NewFdIsFree`: among the numbers
from 3 to `MaxFd + 1` one is free, since those in use are at most `MaxFd`
(`NumbersInRange`, kept because `path_open` refuses `MaxFd + 1`), so there is a
lowest free one, and an insertion replaces no entry.

Of `WasiIO`, for a memory of any size, any lists of vectors, any answers of the
resources (short, beyond what was asked, errors), any file, directory, buffer
sizes, arguments and pointer size:

| Theorem | Module | |
|---|---|---|
| `ReadingIsLossless`, `WritingIsExact` | WasiIOProofs | with `VectorsApart`, `Spec` implies `[]ReadsLossless`, `[]WritesExact` |
| `DirectoryIsComplete` | WasiIOProofs | `Spec` implies `[]DirectoryComplete` |
| `ListsAreRead` | WasiIOProofs | `Spec` implies `[]ListsRead` |

`VectorsApart` says that the vectors of a list the code accepts share no byte. It
is the guest's to keep: a guest that names a byte twice is given the last of what
was stored there, and the code does not look. The argument. What the
code builds in loops the model builds by laying sequences end to end, so the
proofs need what `FlattenSeq` returns for sequences of any length. `UpTo` is induction over
the numbers to `n` as a fact about sets, which the provers can instantiate;
from it `FlattenOf` gives the partial results `f[0], f[1], ...` (`Laid`), and
`LaidHolds` and `LaidFrom` say where each element went and where each came
from. For the vectors, `StopWhere` says that all before the
buffer the loop ends at were filled whole, so that what was moved is a prefix of the
addresses of all vectors (`MovedBegins`), and what the guest is told of is exactly
what was moved (`ToldIsMoved`): an error is reported only if nothing
was moved. `StoredAt` then finds each byte where it was stored. For
directories, `WholeAre` says that the entries whole in a page are those whose end is in
it, an initial run of what is left, however the page is cut; a page that is not
full ends with the stream. For lists, `TerminatedBefore` makes each pointer the
buffer plus what lies before its string, `ListStored` finds table and strings
in the memory afterwards, as they are apart, and `ReadBack` that the first
NUL after a pointer is its string's.

Of `Storage`, for all word widths with `W32 < W64`, any page size, any memories, tables
and segments a module may declare (`StoreType`), any operands:

| Theorem | Module | |
|---|---|---|
| `StorageTyped` | StorageProofs | `Spec` implies `[]TypeOK` |
| `SizesAgreeing` | StorageProofs | with `ValidLimits`, `Spec` implies `[]SizesAgree` |
| `MemoriesNeverShrink` | StorageProofs | with `~AnyGrowth`, `Spec` implies `NeverShrinks`, an action property |
| `StoragePromised` | StorageProofs | with `~AnyGrowth` and `ShortTables`, `Spec` and `[]BelowSignBit` imply `KeepsPromise`, the refinement of `WasmStorage` |

Each hypothesis is one the code needs, and none is an assumption on the module.
`ValidLimits` (a memory's or table's declared minimum is within its maximum) is what
validation checks and `parse_limit` does not. `AnyGrowth` is the wrapping sum of
`memory.grow`, which `find_memory_grow` shows to shrink a memory.
`BelowSignBit` and `ShortTables` say that no 32-bit memory, no segment and no table
reaches half of the 32-bit address space, where `pop_address` begins to extend
a sign (section 5). The argument: a sign-extended address either is the
exact one or, like the exact one, lies beyond every length (`StandsFor`), and sums that
saturate or that `checked_add` refuses lie there too; so each check of the code
and its exact counterpart give the same answer, op by op, and one that passes
leaves the same bytes. `StorageKept`, the inductive invariant, adds to the types
that a memory's bytes are its pages and that the operands at `next` are those of
the op's address type.

Of `Validate`, for any module, function, locals, block types and sets of
instructions a body may use, as long as what starts out as the default has a
type with one (`DefaultsFit`):

| Theorem | Module | |
|---|---|---|
| `ValidationIsInductive` | ValidateProofs | with `FewOperands` and `DefaultsFit`, `Spec` implies `[]IInv` |
| `FramesNest`, `OperandsAlwaysFit`, `StackAlwaysFits`, `LabelsAlwaysReceive`, `DroppedCodeStaysDead` | ValidateProofs | with `FewOperands` and `DefaultsFit`, `Spec` implies the always of `TypeOK`, `OperandsFit`, `StackFits`, `LabelsReceive`, `DroppedCodeIsDead` |

The constants are assumed to be what the parser and the checks of a module's
sections leave: type indices are no heap type's names and the types they stand
for are made of value types (`TypesAssumption`); functions, globals, memories,
tables and element segments have types of those, and `ref.func` names functions
(`SpacesAssumption`); so have the signature, the locals and the blocks
(`BodyAssumption`). `FewOperands` is `MaxVals < 65536`: `emit_branch` stores what
a branch drops in a `u16`, and neither it nor the validator counts. `DefaultsFit`
says that every declared local, and every table defined without an initial
reference, is of a numeric or nullable type. A call gives declared locals
`RawValue::default()` and the parser such a table a `ref.null`; the validator asks for
neither type to have a default, nor for a local to be set first. The model
does as the code: `HeldLocal` and `HeldElement` are what such a place may give, its
default included, and without `DefaultsFit` the theorems about types are false
(`find_unset_local`, section 5). Parameters, globals, element segments and tables with an
initial reference are taken to start out as values of their types; `validate()`
does not look at initial expressions. `FramesNest` and `DroppedCodeStaysDead` say nothing
of types, and carry the assumption only because they follow from the one invariant.

The argument. `IInv` says where the execution may be: gone; here, and then no frame
around is marked unreachable, every block context's entry is its frame's
`value_height` above the parameters, and the slots are of the operands' types
(`Lives`); or on its way to the end or the second arm of a frame that
control has entered (`Skips`), and then the heights of that frame and those around
it agree, none of those around it is marked, and the slots are of the types its end,
or its second arm, expects, whatever height the compiler has meanwhile counted in
dead code. The
properties alone are not inductive: that `end` and `else` set the height right
again after dead code is in `Skips`, not in `StackFits`. Three kinds of lemmas
carry it. `Subsumes`: a value of a type is one of every type above it, by cases on
`heap_subtype`. `ValidatedAgrees`: for each instruction with a signature, what
`run()` decodes is what the validator pops, what it gives is what the
validator pushes, and the compiler moves its height by the difference. `Landed`
and `JumpFollows`: `keep_top` with the `keep` and `drop` the compiler
stored leaves the operands below the label's frame and the label's types on top.
One lemma per action (`BrKeeps`, `ElseKeeps`, ...) then keeps `IInv`.

Of `Fusion`, for any word width, any set of repertoires (arguments, locals,
labels and result of any types, any values), bodies of any length, with any
labels and jumps; the only assumption is that a repertoire is made of these
(`RepertoiresAssumption`):

| Theorem | Module | |
|---|---|---|
| `FusionIsFaithful` | FusionProofs | `Spec` implies `[]FusionKeepsMeaning` |

The argument has three layers. The first is about positions. `Rank` counts how many
kept positions there are up to one; `KeptAt` says that the element kept at
`Rank(P, i)` is the one at `i`. Composed for the three passes, `CodePlace` and
`PlainPlace` say where an op of the source stands in the fused and in the plain code
(`OpsAt`), and `LabelPlaced` that a live label is resolved to the place behind which
it stood, in both. An op `Leads` if it is not the second of a pair. `HeadNext` is why
fusion does not break a jump: what follows a live label, or an op that begins no
pair, leads. `StartAt` counts that the ops of the fused code up to one that
leads, pairs counted twice, are the ops of the plain code up to it. The second layer is
about machines. `PlainArrives`: two machines that differ in their pc alone, executing
the same op resolved in two codes, still do so, and stand behind it or at the
same label. `LocalFusion` and `BranchFusion`: a fused op does to one machine what
its two ops do, whatever values it finds; with `PlainArrives` this is `PairArrives`. The
third is the invariant. Nothing of this holds if the operands are not there, so
`Invariant` says that the body has a height before and after each op (`Heights`, as
the emitted ops move it, and each label is entered at its own), that labels are
emitted once, and that two machines that run stand at an op that leads with as many
operands as that place has (`At`). Each op emitted keeps it (`EmitKeeps`), and so
does each step (`StepArrives`, `Arrived`).

Of `ComponentCalls`, for every component, arguments, lowering and lifting, memory
size, fuel and number of calls (`LoweringAssumption`: a lowering has finitely many
steps):

| Theorem | Module | |
|---|---|---|
| `PausedStaysLifted` | ComponentProofs | `Spec` implies `[]PausedIsLifted` |

The argument: a call begins with the stacks as they are, and while it lowers its
arguments (`Lowers`, kept by each step of the lowering and so, by induction on
their number, by `lower_values`) the only execution it can leave behind is that of a
`realloc` without fuel, and then it is refused. So a component call that is
not refused pauses its own function (`CalledIs`), and an execution that is
resumed stays the same one (`RunIs`). `Inv` adds to `PausedIsLifted` that at most one
execution is paused.

Not proved, and why:

* Liveness (`FueledRunReturns`) and whatever needs `ENABLED` is beyond the prover.
* `Compile` and `Components` are recursive operators over nested instructions and
  types, out of the prover's reach. TLC checks both on small inputs. So
  `AnswersEcho` and `RefusedForAReason`, which are about what the values of a type
  become, stay with TLC, as does the code `Compile` lowers a whole body to; the theorems
  about `Validate` are about how the compiler moves its height instruction by
  instruction, and the one about `Fusion` about its ops from their emission on.

## 5. What disagrees

`find_stale_handler` is a run; `PROJECT.json` quotes the statement it
contradicts. Each other `find_` configuration reproduces a smaller one by hand,
with `tlc -config find_X.cfg M`, and stops with a counterexample.

* `find_stale_handler` (MCInterp): `br`, `br_if`, `br_table` and `return` out of a
  `try_table` leave its catch frame installed. The frame is met by a later
  exception at the same or a greater depth, and control lands at a pc of
  another block, activation or function.
* `find_restore_handlers` (MCInterp): the snapshot has no catch stack and no exceptions. A
  store paused inside a `try_table` no longer catches when restored.
* `find_restore_capacity` (MCInterp): a restored value stack has room for what it holds,
  and at least 1024 slots, not for 1024 activations.
* `find_try_params` (MCInterp): a `try_table` with parameters records the stack height
  above them but counts the drop of its clauses from below them.
* `find_rethrow_capacity` (MCInterp): a clause that drops operands pushes the caught values
  above them first, higher than `max_stack_height` says.
* `find_failed_start` (MCStoreLife): `instantiate` does not look at how the start function
  and the segments ended. One that runs out of fuel, calls a host function or
  traps leaves its activation on the stacks, and the next `invoke` is accepted,
  runs on top of it and then runs what was left.
* `find_memory_grow` (MCStorage): `memory.grow` adds the sign-extended page count with a
  plain sum. In a release build a count of -1 wraps, passes the limit and
  takes a page from the memory.
* `find_unset_local` (MCValidate): a declared local starts as Null whatever its type, and the
  validator accepts a `local.get` of one that is not set. With a local of
  non-null type the Null goes where a function is expected (`OperandsFit` fails).

`find_try_params` and `find_rethrow_capacity` need programs the first assumption of section 4 excludes
(`HeightsFit` fails for the former, `RoomAssumption` for the latter). Two smaller
gaps have none: `max_stack_height` does not count the results of a function
that only tail-calls, nor the values a clause brings to the function's own label;
the 1024-slot minimum and the other functions' heights cover both in practice.

Other differences met while modelling, which the specifications contain or
exclude as said:

* Validation. `module.rs:33` has the call commented out, while `stack.rs:11`
  rests on it. `validator.rs` accepts `ref.eq`, which `run()` answers with
  `todo!()`, does not track whether a local of non-null type is set, and lets a
  table of non-null type do without an initial reference (`find_unset_local`,
  and the assumption `DefaultsFit` of section 4).
* Memory and tables. Addresses of 2 GiB and more trap though in bounds (excluded
  by size); a load's offset is cut to 32 bits also for a 64-bit memory
  (`Offsets` are small); `table.grow` of a table without maximum by a negative
  32-bit count asks the allocator for it and aborts (`Allocatable`).
* Fused ops cost one unit of fuel in place of two, so a body that is fused may
  pause elsewhere; fuel is not part of `Fusion`.
* Components. The padding of a lowered variant is counted from after the
  discriminant: one value too many, so a call that passes a variant is refused
  for its arity. For a case without payload the count is below zero: it wraps to the same in
  a release build, and in one with overflow checks `invoke_component` panics
  (`PaddedTo`; the answer is then `overflow`). An option, result, enum, flags or variant inside a tuple or record is
  refused. Results at a return pointer are read as one i32 for each flat value,
  not by the canonical layout: 64-bit and small ones agree with no other
  guest than the tests'. `resume_component` of a call that returns through a
  pointer lifts from an empty stack and panics (`ResumesItsOwn` excludes it).
  A `realloc` without fuel leaves the store paused behind an error; the next
  call is refused. `pending_lifted` stays behind after a trap or a plain
  `resume`; `PausedIsLifted` says that no later component call meets it.

## 6. The plan

What is left, in order.

1. `StoreLife` shown to abstract `Interp`, from the latter's calls to the former's
   steps, and `Components` placed above `StoreLife`.
2. **Instances**: allocation order, the imports that are not functions, segments, and
   what a refused instantiation leaves in the address spaces.
3. **Codec** and **Leb128**: round trips of snapshots and LEB128 over bounded inputs.

## 7. What is not modelled

In the interpreter: the values ops compute (a jump may go either way), and more than one module
instance (an op's function, table and tag indices are resolved already). SIMD
and garbage-collection ops, which the code leaves as `todo!()` or counts by
other slots; the JIT; the parser and LEB128; `Exited` results, which only
the Linker produces. `resume()` of a store that waits for a host function's
results, and an answer of another length than the function's type, are calls
`Interp`'s embedder does not make, nor `StoreLife`'s when it is `Careful`;
`tests/core_tests.rs:563` makes the former, for functions without results. An
embedder that keeps an older `Suspended` and dispatches it later is not modelled:
it hands over the last one.

In `Storage`: globals, `memory.copy` between memories of different address
types, the width of an access (a byte, a cell). In `Validate`: the sections of a
module, constant expressions, and the instructions validation ends in
`unimplemented!()` for (vectors, `try_table`, `throw`, `call_ref`, `br_on_null`);
a trap is followed only at `unreachable` and `ref.as_non_null`. In `Fusion`:
catch clauses and null tests as users of labels, and the tables of more than one
function. In WASI: what files hold, beyond the bytes of one; clocks and random
numbers but for their checks; `poll_oneoff`, sockets and signals, which answer that they
are not implemented. In `Components`: lists of booleans, characters, strings
and compound types, imports and lowered functions, string encodings other than
UTF-8, all `todo!()`; a snapshot taken during a component call.
