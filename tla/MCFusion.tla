----------------------------- MODULE MCFusion ------------------------------
(***************************************************************************)
(* Bodies of up to MaxOps ops and labels: comparisons of each type before  *)
(* each conditional jump; locals, loads and stores with labels between     *)
(* them; a jump table.  Labels 1 and 2 may be jumped to forwards and       *)
(* backwards.                                                              *)
(***************************************************************************)
EXTENDS Fusion

\* Two operands to compare, and one to return.
Comparing(ty) ==
  [type |-> ty, args |-> <<ty, ty, ty>>, locals |-> <<>>, labels |-> <<<<ty>>, <<ty>>>>,
   result |-> ty, ops |-> {"Compare", "EqZero", "JumpIf", "JumpIfNot", "Return"},
   values |-> Words \cup 0..Nan]

\* Local 1 is an address and the condition of jumps.
Moving(ty) ==
  [type |-> ty, args |-> <<>>, locals |-> <<"I32", ty>>, labels |-> <<<<>>, <<ty>>>>,
   result |-> ty, ops |-> {"LocalGet", "LocalSet", "Load", "Store", "EqZero", "JumpIf", "Return"},
   values |-> {0, 1}]

\* A jump may drop an operand on its way.
Dispatching ==
  [type |-> "I32", args |-> <<"I32", "I32", "I32">>, locals |-> <<"I32">>,
   labels |-> <<<<"I32">>, <<"I32">>>>, result |-> "I32",
   ops |-> {"LocalGet", "LocalSet", "EqZero", "Jump", "JumpTable", "JumpIf", "Return"},
   values |-> {0, 1}]

MCRepertoires ==
  {Comparing(ty) : ty \in {"I32", "I64", "F32", "F64"}}
    \cup {Moving(ty) : ty \in {"I32", "F64"}} \cup {Dispatching}
=============================================================================
