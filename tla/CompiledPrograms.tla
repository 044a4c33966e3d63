-------------------------- MODULE CompiledPrograms --------------------------
(***************************************************************************)
(* The modules of MCPrograms as Compile lowers them, written out: TLC      *)
(* looks ops up at every step and should not compile at every step.        *)
(* MCInterp assumes that each equals what Compile produces.                *)
(***************************************************************************)
EXTENDS Integers, Sequences, TLC

PlainOp(n, m) == [k |-> "Op", pop |-> n, push |-> m, traps |-> FALSE]
DivideOp(n, m) == [k |-> "Op", pop |-> n, push |-> m, traps |-> TRUE]
JumpOp(t, keep, drop) == [k |-> "Jump", target |-> t, keep |-> keep, drop |-> drop]
JumpIfOp(t, keep, drop) ==
  [k |-> "JumpIf", pop |-> 1, target |-> t, keep |-> keep, drop |-> drop]
JumpTableOp(keep, es) == [k |-> "JumpTable", keep |-> keep, entries |-> es]
BrOnNullOp(t, keep, drop) == [k |-> "BrOnNull", target |-> t, keep |-> keep, drop |-> drop]
BrOnNonNullOp(t, keep, drop) ==
  [k |-> "BrOnNonNull", target |-> t, keep |-> keep, drop |-> drop]
CallOp(operand, gs, p, r) ==
  [k |-> "Call", operand |-> operand, callees |-> gs, params |-> p, results |-> r]
ReturnCallOp(operand, gs, p, r) ==
  [k |-> "ReturnCall", operand |-> operand, callees |-> gs, params |-> p, results |-> r]
ReturnOp == [k |-> "Return"]
UnreachableOp == [k |-> "Unreachable"]
TryPushOp(h) == [k |-> "TryCatchPush", h |-> h]
TryPopOp == [k |-> "TryCatchPop"]
ThrowOp(t) == [k |-> "Throw", tag |-> t]
ThrowRefOp == [k |-> "ThrowRef"]

\* A typing of the pcs of a function, but for those control never reaches.
Except(dead, s) == [pc \in DOMAIN s \ dead |-> s[pc]]

Clause(kind, tag, t, n, drop) ==
  [kind |-> kind, tag |-> tag, target |-> t, n |-> n, drop |-> drop]

StructuredCode == <<
  << PlainOp(0, 1), TryPushOp(0), CallOp(0, {2}, 0, 1), TryPopOp,
     PlainOp(2, 1), ReturnOp >>,
  << PlainOp(0, 1), PlainOp(0, 1), JumpIfOp(9, 0, 0), PlainOp(0, 1),
     PlainOp(0, 1), JumpIfOp(14, 1, 0), ThrowOp("e"), JumpOp(14, 0, 0),
     PlainOp(0, 1), CallOp(0, {0}, 1, 1), PlainOp(0, 1),
     JumpIfOp(14, 0, 0), ThrowOp("f"), DivideOp(2, 1), ReturnOp >>,
  << PlainOp(0, 1), PlainOp(0, 1),
     JumpTableOp(0, {[target |-> 4, drop |-> 1], [target |-> 6, drop |-> 1]}),
     PlainOp(0, 1), PlainOp(1, 0), ReturnOp >>,
  << PlainOp(0, 1), TryPushOp(1), CallOp(0, {1}, 0, 1), PlainOp(0, 1),
     JumpIfOp(8, 0, 0), PlainOp(0, 1), ReturnCallOp(1, {1, 4}, 0, 1),
     TryPopOp, BrOnNullOp(11, 1, 0), PlainOp(2, 1), ReturnOp >>,
  << TryPushOp(2), CallOp(0, {2}, 0, 1), PlainOp(1, 0), PlainOp(0, 1),
     CallOp(1, {6}, 0, 0), TryPopOp, PlainOp(0, 1),
     BrOnNonNullOp(11, 1, 0), PlainOp(0, 1), ReturnOp, ThrowRefOp, ReturnOp >>,
  << PlainOp(0, 1), JumpIfOp(1, 0, 0), CallOp(0, {6}, 0, 0), ReturnOp >>,
  << PlainOp(0, 1), PlainOp(0, 1), JumpIfOp(7, 0, 0), PlainOp(0, 1),
     ReturnCallOp(0, {7}, 1, 1), JumpOp(9, 0, 0), PlainOp(0, 1),
     ReturnCallOp(0, {0}, 1, 1), ReturnOp >>
>>

StructuredHeight == <<
  <<0, 1, 1, 2, 2, 1>>,
  Except({8}, <<0, 1, 2, 1, 2, 3, 2, 0, 1, 2, 2, 3, 2, 2, 1>>),
  <<0, 1, 2, 0, 1, 0>>,
  <<0, 1, 1, 2, 3, 2, 3, 2, 2, 2, 1>>,
  <<0, 0, 1, 0, 1, 0, 0, 1, 0, 1, 1, 0>>,
  <<0, 1, 0, 0>>,
  Except({6}, <<0, 1, 2, 1, 2, 0, 1, 2, 1>>)
>>

StructuredScope == <<
  <<<<>>, <<>>, <<0>>, <<0>>, <<>>, <<>>>>,
  Except({8}, <<<<>>, <<>>, <<>>, <<>>, <<>>, <<>>, <<>>, <<>>, <<>>, <<>>, <<>>,
    <<>>, <<>>, <<>>, <<>>>>),
  <<<<>>, <<>>, <<>>, <<>>, <<>>, <<>>>>,
  <<<<>>, <<>>, <<1>>, <<1>>, <<1>>, <<1>>, <<1>>, <<1>>, <<>>, <<>>, <<>>>>,
  <<<<>>, <<2>>, <<2>>, <<2>>, <<2>>, <<2>>, <<>>, <<>>, <<>>, <<>>, <<>>, <<>>>>,
  <<<<>>, <<>>, <<>>, <<>>>>,
  Except({6}, <<<<>>, <<>>, <<>>, <<>>, <<>>, <<>>, <<>>, <<>>, <<>>>>)
>>

StructuredClauses ==
  0 :> <<Clause("Catch", "e", 5, 1, 0)>> @@
  1 :> <<Clause("CatchAllRef", "e", 9, 1, 0)>> @@
  2 :> <<Clause("CatchRef", "f", 8, 1, 0), Clause("CatchAll", "e", 12, 0, 0)>>

StructuredSite == 0 :> [f |-> 1, pc |-> 2] @@ 1 :> [f |-> 4, pc |-> 2] @@ 2 :> [f |-> 5, pc |-> 1]

StructuredParams == 0 :> 1 @@ 1 :> 0 @@ 2 :> 0 @@ 3 :> 1 @@ 4 :> 0 @@ 5 :> 0 @@ 6 :> 0 @@ 7 :> 1
StructuredResults == 0 :> 1 @@ 1 :> 1 @@ 2 :> 1 @@ 3 :> 0 @@ 4 :> 1 @@ 5 :> 0 @@ 6 :> 0 @@ 7 :> 1

StructuredMaxHeight == 3

EscapingCode == <<
  << TryPushOp(0), PlainOp(0, 1), CallOp(1, {2, 3}, 0, 0), PlainOp(0, 1),
     JumpIfOp(7, 0, 0), ThrowOp("f"), TryPopOp, PlainOp(0, 1),
     ThrowOp("e"), ReturnOp >>,
  << PlainOp(0, 1), JumpIfOp(1, 0, 0), PlainOp(0, 1), PlainOp(1, 0),
     PlainOp(0, 1), PlainOp(1, 0), TryPushOp(1), PlainOp(0, 1),
     JumpIfOp(13, 0, 0), PlainOp(0, 1), JumpIfOp(13, 0, 0), TryPopOp,
     ReturnOp >>,
  << TryPushOp(2), PlainOp(0, 1), JumpIfOp(5, 0, 0), ReturnOp, TryPopOp,
     ReturnOp >>
>>

EscapingHeight == <<
  <<0, 0, 1, 0, 1, 0, 0, 0, 1>>,
  <<0, 1, 0, 1, 0, 1, 0, 0, 1, 0, 1, 0, 0>>,
  <<0, 0, 1, 0, 0, 0>>
>>

EscapingScope == <<
  <<<<>>, <<0>>, <<0>>, <<0>>, <<0>>, <<0>>, <<0>>, <<>>, <<>>>>,
  <<<<>>, <<>>, <<>>, <<>>, <<>>, <<>>, <<>>, <<1>>, <<1>>, <<1>>, <<1>>,
    <<1>>, <<>>>>,
  <<<<>>, <<2>>, <<2>>, <<2>>, <<2>>, <<>>>>
>>

EscapingClauses ==
  0 :> <<Clause("Catch", "f", 8, 0, 0)>> @@
  1 :> <<Clause("CatchAll", "e", 13, 0, 0)>> @@
  2 :> <<Clause("CatchAll", "f", 6, 0, 0)>>

EscapingSite == 0 :> [f |-> 1, pc |-> 1] @@ 1 :> [f |-> 2, pc |-> 7] @@ 2 :> [f |-> 3, pc |-> 1]

EscapingParams == 0 :> 1 @@ 1 :> 0 @@ 2 :> 0 @@ 3 :> 0
EscapingResults == 0 :> 1 @@ 1 :> 0 @@ 2 :> 0 @@ 3 :> 0

EscapingMaxHeight == 1

TryParamCode == <<
  << PlainOp(0, 1), TryPushOp(0), PlainOp(1, 0), ThrowOp("f"), TryPopOp,
     ReturnOp >>
>>

TryParamHeight == <<
  Except({5}, <<0, 1, 1, 0, 0, 0>>)
>>

TryParamScope == <<
  Except({5}, <<<<>>, <<>>, <<0>>, <<0>>, <<>>, <<>>>>)
>>

TryParamClauses ==
  0 :> <<Clause("CatchAll", "f", 1, 0, 0)>>

TryParamSite == 0 :> [f |-> 1, pc |-> 2]

TryParamParams == 0 :> 1 @@ 1 :> 0
TryParamResults == 0 :> 1 @@ 1 :> 0

TryParamMaxHeight == 1

RethrowCode == <<
  << TryPushOp(0), CallOp(0, {3}, 0, 0), TryPopOp, PlainOp(0, 1),
     PlainOp(1, 0), ReturnOp >>,
  << PlainOp(0, 1), JumpIfOp(7, 0, 0), PlainOp(0, 4),
     CallOp(0, {2}, 0, 0), PlainOp(4, 0), JumpOp(13, 0, 0), PlainOp(0, 3),
     TryPushOp(1), PlainOp(0, 1), ThrowRefOp, TryPopOp, PlainOp(3, 0),
     ReturnOp >>,
  << PlainOp(0, 3), ThrowOp("g"), ReturnOp >>
>>

RethrowHeight == <<
  <<0, 0, 0, 0, 1, 0>>,
  Except({11}, <<0, 1, 0, 4, 4, 0, 0, 3, 3, 4, 0, 3, 0>>),
  <<0, 3>>
>>

RethrowScope == <<
  <<<<>>, <<0>>, <<0>>, <<>>, <<>>, <<>>>>,
  Except({11}, <<<<>>, <<>>, <<>>, <<>>, <<>>, <<>>, <<>>, <<>>, <<1>>, <<1>>, <<>>,
    <<>>, <<>>>>),
  <<<<>>, <<>>>>
>>

RethrowClauses ==
  0 :> <<Clause("CatchAllRef", "e", 5, 1, 0)>> @@
  1 :> <<Clause("Catch", "g", 12, 3, 3)>>

RethrowSite == 0 :> [f |-> 1, pc |-> 1] @@ 1 :> [f |-> 2, pc |-> 8]

RethrowParams == 0 :> 1 @@ 1 :> 0 @@ 2 :> 0 @@ 3 :> 0
RethrowResults == 0 :> 1 @@ 1 :> 0 @@ 2 :> 0 @@ 3 :> 0

RethrowMaxHeight == 4
=============================================================================
