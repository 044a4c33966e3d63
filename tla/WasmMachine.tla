---------------------------- MODULE WasmMachine ----------------------------
(***************************************************************************)
(* What the interpreter promises: WebAssembly's own control semantics.     *)
(* There is no value stack, no catch stack, no fuel and no snapshot.  An   *)
(* activation is a function and a pc.  An exception goes to the innermost  *)
(* try_table that encloses the throwing op, lexically, in the activation   *)
(* that throws or else in the nearest caller; leaving a try_table by any   *)
(* means ends its power to catch.                                          *)
(***************************************************************************)
EXTENDS Program

CONSTANTS Exported, MaxCallDepth

VARIABLES
  frames,   \* the activations, outermost first: [f, pc]
  status,   \* "idle", "running", or "waiting" for a host function
  host,     \* the host function waited for, {} if none
  outcome,  \* how the last execution ended
  thrown    \* the exceptions caught by reference so far

wvars == <<frames, status, host, outcome, thrown>>

Init ==
  /\ frames = <<>> /\ status = "idle" /\ host = {} /\ outcome = "none" /\ thrown = <<>>

Top == frames[Len(frames)]
Op == Code[Top.f][Top.pc]
GoTo(fs, pc) == [fs EXCEPT ![Len(fs)].pc = pc]
Callers == SubSeq(frames, 1, Len(frames) - 1)
Running(kinds) == status = "running" /\ frames # <<>> /\ Op.k \in kinds

End(o) ==
  /\ status' = "idle" /\ outcome' = o /\ frames' = <<>>
  /\ UNCHANGED <<host, thrown>>

Invoke(f) ==
  /\ status = "idle"
  /\ frames' = <<[f |-> f, pc |-> 1]>>
  /\ status' = "running" /\ outcome' = "none"
  /\ UNCHANGED <<host, thrown>>

\* A host function invoked by itself runs no code of the module.
HostOnly == status = "idle" /\ outcome' = "none" /\ UNCHANGED <<frames, status, host, thrown>>

Advance ==
  /\ Running({"Op", "Jump", "JumpIf", "JumpTable", "BrOnNull", "BrOnNonNull",
              "TryCatchPush", "TryCatchPop"})
  /\ \E e \in Edges(Op, Top.pc, 0) : frames' = GoTo(frames, e.pc)
  /\ UNCHANGED <<status, host, outcome, thrown>>

EnterFunction(g, fs) ==
  \/ /\ g \in LocalFunc
     /\ frames' = Append(fs, [f |-> g, pc |-> 1])
     /\ UNCHANGED <<status, host, outcome, thrown>>
  \/ /\ g \in HostFunc
     /\ frames' = fs /\ status' = "waiting" /\ host' = {g}
     /\ UNCHANGED <<outcome, thrown>>

Call ==
  /\ Running(CallKinds)
  /\ \E g \in Op.callees :
       EnterFunction(g, IF Op.k = "Call" THEN GoTo(frames, Top.pc + 1) ELSE Callers)

HostReturns ==
  /\ status = "waiting"
  /\ status' = "running" /\ host' = {}
  /\ UNCHANGED <<frames, outcome, thrown>>

Return ==
  /\ Running({"Return"})
  /\ frames' = Callers
  /\ UNCHANGED <<status, host, outcome, thrown>>

Done == status = "running" /\ frames = <<>> /\ End("completed")

\* Code may trap; so may a call that exceeds the implementation's depth.
Trap ==
  /\ Running({"Op", "Unreachable", "Call", "ReturnCall", "ThrowRef"})
  /\ Op.k = "Op" => Op.traps
  /\ Op.k = "Call" => Op.operand = 1 \/ Len(frames) = MaxCallDepth
  /\ Op.k = "ReturnCall" => Op.operand = 1
  /\ End("trap")

\* The try_tables in scope of activation i, by nesting level.
Handlers(i) == Scope[frames[i].f][frames[i].pc]

Raise(t) ==
  \/ \E i \in DOMAIN frames : \E l \in DOMAIN Handlers(i) :
       /\ Matches(Handlers(i)[l], t)
       \* no handler further in matches
       /\ \A j \in DOMAIN frames : \A m \in DOMAIN Handlers(j) :
            (j > i \/ (j = i /\ m > l)) => ~Matches(Handlers(j)[m], t)
       /\ LET cl == FirstClause(Handlers(i)[l], t)
          IN  /\ frames' = GoTo(SubSeq(frames, 1, i), cl.target)
              /\ thrown' = IF cl.kind \in RefKinds THEN Append(thrown, t) ELSE thrown
       /\ UNCHANGED <<status, host, outcome>>
  \/ /\ \A i \in DOMAIN frames : \A l \in DOMAIN Handlers(i) : ~Matches(Handlers(i)[l], t)
     /\ End("exception")

Throw == Running({"Throw"}) /\ Raise(Op.tag)
ThrowRef == Running({"ThrowRef"}) /\ \E x \in DOMAIN thrown : Raise(thrown[x])

Next ==
  \/ \E f \in Exported \cap LocalFunc : Invoke(f)
  \/ HostOnly \/ Advance \/ Call \/ HostReturns \/ Return \/ Done \/ Trap
  \/ Throw \/ ThrowRef

Spec == Init /\ [][Next]_wvars
=============================================================================
