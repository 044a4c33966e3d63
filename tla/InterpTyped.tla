---------------------------- MODULE InterpTyped ----------------------------
(***************************************************************************)
(* The interpreter on well typed programs: what validation and compilation *)
(* promise of the constants, and the invariant that every step of run(),   *)
(* of the embedder and of snapshot/restore keeps because of it.            *)
(***************************************************************************)
EXTENDS InterpProperties

ASSUME ParametersAssumption ==
  /\ MaxCallDepth \in Nat /\ MaxHeight \in Nat /\ MinCapacity \in Nat
  /\ FuelAmounts \subseteq Nat
  /\ Exported \subseteq Func

ASSUME ProgramTypeAssumption == ProgramType
ASSUME HeightsAssumption == HeightsFit
ASSUME ScopesAssumption == ScopesFit

\* ensure_stack_capacity's capacity.
Capacity == Larger(MaxHeight * MaxCallDepth, MinCapacity)

\* What max_stack_height covers: the operands at every reachable pc, and the
\* values a catch clause pushes before it drops those its label discards.
\* The arguments and results of a call by the embedder fit as they are.
ASSUME RoomAssumption ==
  /\ \A f \in LocalFunc : \A pc \in Live(f) : Height[f][pc] <= MaxHeight
  /\ \A h \in Handler : \A i \in DOMAIN Clauses[h] : \A t \in Tag :
       ClauseMatches(Clauses[h][i], t) =>
         Height[Site[h].f][Site[h].pc] + Pushed(Clauses[h][i], t) <= MaxHeight
  /\ \A g \in Func : Params[g] <= Capacity /\ Results[g] <= Capacity

(***************************************************************************)
(* The inductive invariant.  The heights alone are not inductive: returning*)
(* to the embedder is clean only if the results left are those the first   *)
(* activation owes, and catching only if the frames are in scope.          *)
(***************************************************************************)
Paused == mode = "ready" /\ pendingArity # None

\* The results the execution owes the embedder.
Owes(cs, n) == IF cs = <<>> THEN n ELSE Results[cs[1].f]

ArityKept ==
  /\ mode = "running" => runArity = Owes(callStack, len)
  /\ Paused => /\ pendingArity = Owes(callStack, len + AwaitedResults)
               /\ \/ result = "fuel" /\ callStack # <<>>
                  \/ result = "suspended" /\ waiting \in HostFunc

StoreTyped ==
  /\ TypeOK
  /\ HeightsKept
  /\ CatchFramesInScope
  /\ ArityKept
  /\ EndedIsClean

\* The most operands d activations can leave below the next one.
Below(d) == d * MaxHeight

(***************************************************************************)
(* With it, for a store that is never restored, the room that is left: no  *)
(* activation starts higher than the ones below it can reach.              *)
(***************************************************************************)
RoomKept ==
  /\ Depth <= MaxCallDepth
  /\ \A d \in 1..Depth : callStack[d].base <= Below(d - 1)
  /\ runArity <= Capacity /\ pendingArity <= Capacity
  /\ cap = Capacity
  /\ high <= Capacity
=============================================================================
