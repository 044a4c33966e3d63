--------------------------- MODULE MCComponents ---------------------------
(***************************************************************************)
(* One component with every kind of type: a module instantiated twice, its *)
(* exports lifted in turn from the one and the other instance, each with   *)
(* that instance's memory and allocator, and called with values at the     *)
(* edges of their types.                                                   *)
(***************************************************************************)
EXTENDS Components

P(k) == [k |-> k]
ListOf(k) == [k |-> "List", of |-> P(k)]
Tuple(parts) == [k |-> "Tuple", parts |-> parts]
Option(of) == [k |-> "Option", of |-> of]
Result(ok, err) == [k |-> "Result", ok |-> ok, err |-> err]
Variant(cases) == [k |-> "Variant", cases |-> cases]
Enum(n) == [k |-> "Enum", n |-> n]
Flags(n) == [k |-> "Flags", n |-> n]
V(k, v) == [k |-> k, v |-> v]
Vs(k, seqs) == {V(k, v) : v \in seqs}
Each(k, nums) == [i \in DOMAIN nums |-> V(k, nums[i])]

\* An export: its types, the argument lists it is called with, what its core function does.
F(params, args, does) == [params |-> params, results |-> params, args |-> args, does |-> does]
One(t, values) == F(<<t>>, {<<v>> : v \in values},
                    IF FlatCount(t) > MaxFlatResults THEN "store" ELSE "echo")

Exported ==
  << One(P("S8"), Vs("S8", {-2, 1})), One(P("U16"), Vs("U16", {15})), One(P("S32"), Vs("S32", {-128, 127})),
     One(P("U64"), Vs("U64", {0, 65535})), One(P("S64"), Vs("S64", {-32768})), One(P("Bool"), Vs("Bool", {1})),
     One(P("F32"), Vs("F32", {200})), One(P("F64"), Vs("F64", {40000})),
     One(P("Char"), Vs("Char", {127, 200})),
     One(P("String"), Vs("String", {<<>>, <<1, 2, 3>>})),
     One(ListOf("S16"), {V("List", Each("S16", <<-8, 7>>)), V("List", <<>>)}),
     One(ListOf("U64"), {V("List", Each("U64", <<65535>>))}),
     One(Tuple(<<P("String"), P("S32"), ListOf("U8")>>),
         {V("Tuple", <<V("String", <<1>>), V("S32", -1), V("List", Each("U8", <<3, 0>>))>>)}),
     One(Tuple(<<P("S32"), Option(P("S32"))>>), {V("Tuple", <<V("S32", 1), V("Option", <<V("S32", 2)>>)>>)}),
     One(Option(P("S32")), {V("Option", <<>>), V("Option", <<V("S32", -1)>>)}),
     One(Option(ListOf("U8")), {V("Option", <<>>), V("Option", <<V("List", Each("U8", <<3>>))>>)}),
     One(Result(<<P("S32")>>, <<P("String")>>),
         {V("Result", [ok |-> TRUE, load |-> <<V("S32", 5)>>]),
          V("Result", [ok |-> FALSE, load |-> <<V("String", <<0>>)>>])}),
     One(Result(<<>>, <<P("S32")>>), {V("Result", [ok |-> TRUE, load |-> <<>>])}),
     One(Variant(<<<<>>, <<P("S32")>>>>),
         {V("Variant", [case |-> 1, load |-> <<>>]), V("Variant", [case |-> 2, load |-> <<V("S32", 1)>>])}),
     One(Enum(3), Vs("Enum", {3})),
     One(Flags(3), Vs("Flags", {{}, {1, 3}})), One(Flags(9), Vs("Flags", {{8, 9}})),
     F(<<P("S32"), P("String")>>,
       {<<V("S32", 1), V("String", <<2, 3>>)>>, <<V("S32", 1)>>}, "store"),
     F(<<Result(<<P("S32")>>, <<P("String")>>), P("S32")>>,
       {<<V("Result", [ok |-> TRUE, load |-> <<V("S32", 5)>>]), V("S32", 6)>>}, "store"),
     [F(<<P("U8")>>, {<<V("U8", 3)>>, <<V("U8", 3), V("U8", 3)>>}, "trap") EXCEPT !.results = <<>>] >>

\* Names are positions; 0 is realloc.
Core(f) == [does |-> f.does,
            params |-> FlatCounts(f.params) + IF f.does = "store" THEN 1 ELSE 0,
            results |-> IF f.does = "echo" THEN 1 ELSE 0]
CoreExports ==
  [n \in 0..Len(Exported) |-> IF n = 0 THEN [does |-> "realloc", params |-> 4, results |-> 1]
                              ELSE Core(Exported[n])]

Home(n) == IF n % 2 = 0 THEN 1 ELSE 2
N == Len(Exported)
MCSections ==
  << [k |-> "CoreModule", exports |-> CoreExports],
     [k |-> "CoreInstance", items |-> <<[k |-> "InstantiateModule", module |-> 1],
                                        [k |-> "InstantiateModule", module |-> 1]>>],
     [k |-> "Type", types |-> [n \in 1..N |-> [params |-> Exported[n].params, results |-> Exported[n].results]]],
     [k |-> "Alias", items |-> [i \in 1..2 |-> [k |-> "AliasCoreFunc", instance |-> i, name |-> 0]]],
     [k |-> "Alias", items |-> [i \in 1..2 |-> [k |-> "AliasCoreMemory", instance |-> i]]],
     [k |-> "Alias", items |-> [n \in 1..N |-> [k |-> "AliasCoreFunc", instance |-> Home(n), name |-> n]]],
     [k |-> "Canonical", items |-> [n \in 1..N |-> [k |-> "Lift", func |-> n + 2, type |-> n,
        memory |-> IF Exported[n].does = "store" THEN Home(n) ELSE 0,
        realloc |-> IF Exported[n].does = "store" THEN Home(n) ELSE 0]]],
     [k |-> "Export", items |-> [n \in 1..N |-> [k |-> "Export", name |-> n, func |-> n]]] >>

MCArguments == [n \in 1..N |-> Exported[n].args]
MCPlainFunc == [instance |-> 1, does |-> "echo", params |-> 1, results |-> 1]
=============================================================================
