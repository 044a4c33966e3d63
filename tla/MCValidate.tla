----------------------------- MODULE MCValidate -----------------------------
(***************************************************************************)
(* Validate on one small module: functions that take and give references,  *)
(* a 32-bit and a 64-bit memory, tables of both address types holding      *)
(* functions, nullable or of one type, and an imported function and global. *)
(***************************************************************************)
EXTENDS Validate

Func(params, results) == [kind |-> "func", sig |-> Sig(params, results)]
OfF == RefType(FALSE, "$f")

MCModule ==
  [types     |-> [t \in {"$f", "$g"} |->
                    IF t = "$f" THEN Func(<<>>, <<I32>>) ELSE Func(<<FuncRef>>, <<OfF>>)],
   imports   |-> <<[kind |-> "func", type |-> "$f"],
                   [kind |-> "global", type |-> [type |-> NumType("i64"), var |-> FALSE]]>>,
   functions |-> <<"$g">>,
   globals   |-> <<[type |-> OfF, var |-> TRUE]>>,
   mems      |-> <<"i32", "i64">>,
   tables    |-> <<[addr |-> "i64", elem |-> FuncRef, init |-> FALSE],
                   [addr |-> "i32", elem |-> OfF, init |-> TRUE]>>,
   elems     |-> <<RefType(TRUE, "$f")>>,
   exports   |-> {1},
   exprs     |-> {}]

MCSignature == Sig(<<I32>>, <<FuncRef>>)
MCLocals == <<RefType(TRUE, "$f")>>
MCNoDefault == <<OfF>>   \* a local that starts as a value it may not have
MCBlocks == {Sig(<<>>, <<>>), Sig(<<OfF>>, <<I32>>)}
MCRepertoires ==
  {{"const", "unop", "binop", "cvtop", "trunc_sat", "testop", "relop", "table.get"},
   {"const", "load", "store", "memory.size", "memory.grow", "memory.fill", "memory.copy",
    "memory.init", "data.drop"},
   {"local.get", "local.set", "local.tee", "global.get", "global.set", "call", "call_indirect",
    "ref.null", "ref.func", "nop"},
   {"const", "table.get", "table.set", "table.size", "table.grow", "table.fill", "table.copy",
    "table.init", "elem.drop"}}
=============================================================================
