---------------------------- MODULE InterpProofs ----------------------------
(***************************************************************************)
(* On every well typed program the interpreter keeps its value stack       *)
(* typed, its catch frames in scope and its embedder's view clean, however *)
(* often the store is paused, serialized and restored.  A store that is    *)
(* never restored also stays within its capacity, and implements           *)
(* WasmMachine.                                                            *)
(***************************************************************************)
EXTENDS InterpTyped, SequenceTheorems, WellFoundedInduction, TLAPS

ActivationType == [f : LocalFunc, pc : Nat, base : Nat]
CatchType == [depth : Nat, restore : Nat, h : Handler]

----------------------------------------------------------------------------
(***************************************************************************)
(* What the operators on call stacks return.                               *)
(***************************************************************************)
\* GoTo moves the pc of the innermost activation and nothing else.
LEMMA GoToFacts ==
  ASSUME NEW cs \in Seq(ActivationType), cs # <<>>, NEW pc \in Nat
  PROVE  /\ GoTo(cs, pc) \in Seq(ActivationType)
         /\ Len(GoTo(cs, pc)) = Len(cs)
         /\ GoTo(cs, pc) # <<>>
         /\ \A d \in 1..Len(cs) : /\ GoTo(cs, pc)[d].f = cs[d].f
                                  /\ GoTo(cs, pc)[d].base = cs[d].base
                                  /\ d < Len(cs) => GoTo(cs, pc)[d] = cs[d]
         /\ GoTo(cs, pc)[Len(cs)].pc = pc
  <1> DEFINE D == Len(cs)
             a == [cs[D] EXCEPT !.pc = pc]
             gs == [cs EXCEPT ![D] = a]
  <1>1. D \in 1..D /\ cs[D] \in ActivationType
    BY EmptySeq, ElementOfSeq
  <1>2. a \in ActivationType /\ a.f = cs[D].f /\ a.base = cs[D].base /\ a.pc = pc
    BY <1>1 DEF ActivationType
  <1>3. GoTo(cs, pc) = gs
    BY DEF GoTo
  <1> HIDE DEF a
  <1>4. /\ gs \in Seq(ActivationType)
        /\ Len(gs) = D
        /\ \A j \in 1..D : gs[j] = IF j = D THEN a ELSE cs[j]
    BY <1>1, <1>2, ExceptSeq
  <1> HIDE DEF gs
  <1>5. gs # <<>>
    BY <1>1, <1>4, EmptySeq
  <1>6. /\ gs \in Seq(ActivationType) /\ Len(gs) = Len(cs)
    BY <1>4
  <1>7. Len(cs) = D
    OBVIOUS
  <1> HIDE DEF D
  <1>8. \A d \in 1..D : /\ gs[d].f = cs[d].f
                        /\ gs[d].base = cs[d].base
                        /\ d < D => gs[d] = cs[d]
    BY <1>1, <1>2, <1>4
  <1>9. gs[D].pc = pc
    BY <1>1, <1>2, <1>4
  <1>10. QED
    BY <1>3, <1>5, <1>6, <1>7, <1>8, <1>9

\* A prefix keeps the outer elements.
LEMMA PrefixFacts ==
  ASSUME NEW S, NEW cs \in Seq(S), NEW n \in 0..Len(cs)
  PROVE  /\ SubSeq(cs, 1, n) \in Seq(S)
         /\ Len(SubSeq(cs, 1, n)) = n
         /\ \A d \in 1..n : SubSeq(cs, 1, n)[d] = cs[d]
  <1>1. n \in Int /\ n >= 0 /\ \A i \in 1..n : cs[i] \in S
    BY ElementOfSeq
  <1>2. /\ SubSeq(cs, 1, n) \in Seq(S)
        /\ Len(SubSeq(cs, 1, n)) = IF 1 <= n THEN n - 1 + 1 ELSE 0
        /\ \A i \in 1..(n - 1 + 1) : SubSeq(cs, 1, n)[i] = cs[1 + i - 1]
    BY <1>1, SubSeqProperties
  <1>3. \A i \in 1..n : SubSeq(cs, 1, n)[i] = cs[i]
    <2>1. TAKE i \in 1..n
    <2>2. i \in 1..(n - 1 + 1) /\ 1 + i - 1 = i
      BY <1>1
    <2>3. QED
      BY <1>2, <2>2
  <1>4. QED
    BY <1>1, <1>2, <1>3

\* CallersOf drops the innermost element.
LEMMA CallersFacts ==
  ASSUME NEW S, NEW cs \in Seq(S), cs # <<>>
  PROVE  /\ Len(cs) - 1 \in 0..Len(cs)
         /\ CallersOf(cs) = SubSeq(cs, 1, Len(cs) - 1)
         /\ CallersOf(cs) \in Seq(S)
         /\ Len(CallersOf(cs)) = Len(cs) - 1
         /\ \A d \in 1..(Len(cs) - 1) : CallersOf(cs)[d] = cs[d]
  <1>1. Len(cs) - 1 \in 0..Len(cs)
    BY EmptySeq
  <1>2. QED
    BY <1>1, PrefixFacts DEF CallersOf

\* Append adds an activation above the others.
LEMMA AppendFacts ==
  ASSUME NEW S, NEW cs \in Seq(S), NEW a \in S
  PROVE  /\ Append(cs, a) \in Seq(S)
         /\ Len(Append(cs, a)) = Len(cs) + 1
         /\ Append(cs, a) # <<>>
         /\ \A d \in 1..Len(cs) : Append(cs, a)[d] = cs[d]
         /\ Append(cs, a)[Len(cs) + 1] = a
  OBVIOUS

----------------------------------------------------------------------------
(***************************************************************************)
(* Consequences of the program's typing.                                   *)
(***************************************************************************)
\* At a reachable pc the op is well formed and its operands are there.
LEMMA LiveOp ==
  ASSUME NEW f \in LocalFunc, NEW pc \in Live(f)
  PROVE  /\ pc \in DOMAIN Code[f] /\ pc \in Nat
         /\ Code[f][pc] \in Ops
         /\ Height[f][pc] \in Nat
         /\ Scope[f][pc] \in Seq(Handler)
         /\ OpFits(f, pc) /\ OpScoped(f, pc)
  BY ProgramTypeAssumption, HeightsAssumption, ScopesAssumption
     DEF ProgramType, HeightsFit, ScopesFit

\* The fields of each kind of op.
LEMMA OpFields ==
  ASSUME NEW o \in Ops
  PROVE  /\ o.k = "Op" => o.pop \in Nat /\ o.push \in Nat
         /\ o.k \in {"Jump", "BrOnNull", "BrOnNonNull"} =>
              o.target \in Nat /\ o.keep \in Nat /\ o.drop \in Nat
         /\ o.k = "JumpIf" =>
              o.pop \in Nat /\ o.target \in Nat /\ o.keep \in Nat /\ o.drop \in Nat
         /\ o.k = "JumpTable" =>
              /\ o.keep \in Nat
              /\ \A e \in o.entries : e.target \in Nat /\ e.drop \in Nat
         /\ o.k \in CallKinds =>
              /\ o.operand \in {0, 1} /\ o.callees \subseteq Func
              /\ o.params \in Nat /\ o.results \in Nat
         /\ o.k = "TryCatchPush" => o.h \in Handler
         /\ o.k = "Throw" => o.tag \in Tag
  BY DEF Ops, CallKinds

\* What Edges is for each kind of op.
LEMMA EdgesOf ==
  ASSUME NEW o, NEW pc, NEW h
  PROVE  /\ o.k = "Op" => Edges(o, pc, h) = {Edge(pc + 1, h - o.pop + o.push)}
         /\ o.k = "Jump" => Edges(o, pc, h) = {Edge(o.target, h - o.drop)}
         /\ o.k = "JumpIf" =>
              Edges(o, pc, h) = {Edge(o.target, h - o.pop - o.drop), Edge(pc + 1, h - o.pop)}
         /\ o.k = "JumpTable" =>
              Edges(o, pc, h) = {Edge(e.target, h - 1 - e.drop) : e \in o.entries}
         /\ o.k = "BrOnNull" =>
              Edges(o, pc, h) = {Edge(o.target, h - 1 - o.drop), Edge(pc + 1, h)}
         /\ o.k = "BrOnNonNull" =>
              Edges(o, pc, h) = {Edge(o.target, h - o.drop), Edge(pc + 1, h - 1)}
         /\ o.k \in {"TryCatchPush", "TryCatchPop"} => Edges(o, pc, h) = {Edge(pc + 1, h)}
         /\ o.k \in CallKinds \cup {"Unreachable", "Return", "Throw", "ThrowRef"} =>
              Edges(o, pc, h) = {}
  BY DEF Edges, CallKinds

\* Edges depend on the height only by what they add to it.
LEMMA EdgeShift ==
  ASSUME NEW o \in Ops, NEW pc \in Nat, NEW b \in Int, NEW h \in Int,
         NEW n \in Int, n = b + h, NEW e \in Edges(o, pc, n)
  PROVE  /\ e.h \in Int /\ e.pc \in Nat
         /\ Edge(e.pc, e.h - b) \in Edges(o, pc, h)
  <1>1. CASE o.k = "Op"
    BY <1>1, EdgesOf, OpFields DEF Edge
  <1>2. CASE o.k = "Jump"
    BY <1>2, EdgesOf, OpFields DEF Edge
  <1>3. CASE o.k = "JumpIf"
    BY <1>3, EdgesOf, OpFields DEF Edge
  <1>4. CASE o.k = "JumpTable"
    BY <1>4, EdgesOf, OpFields DEF Edge
  <1>5. CASE o.k \in {"BrOnNull", "BrOnNonNull"}
    BY <1>5, EdgesOf, OpFields DEF Edge
  <1>6. CASE o.k \in {"TryCatchPush", "TryCatchPop"}
    BY <1>6, EdgesOf DEF Edge
  <1>7. CASE o.k \in CallKinds \cup {"Unreachable", "Return", "Throw", "ThrowRef"}
    BY <1>7, EdgesOf
  <1>8. QED
    BY <1>1, <1>2, <1>3, <1>4, <1>5, <1>6, <1>7 DEF Ops, CallKinds
----------------------------------------------------------------------------
(***************************************************************************)
(* How the typing of a call stack changes.  Typed(cs, n, w): n values are  *)
(* on the value stack and the innermost activation awaits w more.          *)
(***************************************************************************)
\* The constants' arities are numbers.
LEMMA Arities ==
  ASSUME NEW g \in Func
  PROVE  Params[g] \in Nat /\ Results[g] \in Nat
  BY ProgramTypeAssumption DEF ProgramType

LEMMA StackElement ==
  ASSUME NEW cs \in Seq(ActivationType), NEW d \in 1..Len(cs)
  PROVE  /\ cs[d].f \in LocalFunc /\ cs[d].f \in Func
         /\ cs[d].pc \in Nat /\ cs[d].base \in Nat
         /\ Results[cs[d].f] \in Nat /\ Params[cs[d].f] \in Nat
  <1>1. cs[d] \in ActivationType
    BY ElementOfSeq
  <1>2. cs[d].f \in LocalFunc /\ cs[d].f \in Func
    BY <1>1 DEF ActivationType, LocalFunc
  <1>3. QED
    BY <1>1, <1>2, Arities DEF ActivationType

\* The innermost activation moves to a pc typed for what is then on the stack.
LEMMA TypedFollow ==
  ASSUME NEW cs \in Seq(ActivationType), cs # <<>>,
         NEW n0, NEW w0, Typed(cs, n0, w0),
         NEW pc \in Nat, NEW n \in Int, NEW w \in Int,
         At(cs[Len(cs)].f, pc, n - cs[Len(cs)].base + w)
  PROVE  Typed(GoTo(cs, pc), n, w)
  <1> DEFINE gs == GoTo(cs, pc)
             D == Len(cs)
  <1>1. D \in Nat /\ D >= 1 /\ 1 \in 1..D
    BY EmptySeq, LenProperties
  <1>2. Len(gs) = D
    BY GoToFacts
  <1>3. \A d \in 1..D : gs[d].f = cs[d].f /\ gs[d].base = cs[d].base
    BY GoToFacts
  <1>4. \A d \in 1..D : d < D => gs[d] = cs[d]
    BY GoToFacts
  <1>5. gs[D].pc = pc
    BY GoToFacts
  <1>6. At(cs[D].f, pc, n - cs[D].base + w)
    OBVIOUS
  <1>7. \A d \in 1..D : At(cs[d].f, cs[d].pc, Operands(cs, n0, d) + Owed(cs, w0, d))
    BY DEF Typed
  <1>8. \A d \in 1..D : Operands(cs, n0, d) =
                          (IF d = D THEN n0 ELSE cs[d + 1].base) - cs[d].base
    BY DEF Operands
  <1>9. \A d \in 1..D : Owed(cs, w0, d) = IF d < D THEN Results[cs[d + 1].f] ELSE w0
    BY DEF Owed
  <1>10. \A d \in 1..D : Operands(gs, n, d) =
                          (IF d = D THEN n ELSE gs[d + 1].base) - gs[d].base
    BY <1>2 DEF Operands
  <1>11. \A d \in 1..D : Owed(gs, w, d) = IF d < D THEN Results[gs[d + 1].f] ELSE w
    BY <1>2 DEF Owed
  <1>12. cs[1].base = 0
    BY DEF Typed
  <1>13. Typed(gs, n, w) <=>
           /\ \A d \in 1..D : At(gs[d].f, gs[d].pc, Operands(gs, n, d) + Owed(gs, w, d))
           /\ gs # <<>> => gs[1].base = 0
    BY <1>2 DEF Typed
  <1> HIDE DEF gs, D
  <1>14. ASSUME NEW d \in 1..D
         PROVE  At(gs[d].f, gs[d].pc, Operands(gs, n, d) + Owed(gs, w, d))
    <2>1. CASE d = D
      BY <1>1, <1>3, <1>5, <1>6, <1>10, <1>11, <2>1
    <2>2. CASE d < D
      <3>1. d + 1 \in 1..D /\ d # D
        BY <1>1, <2>2
      <3>2. Operands(gs, n, d) = Operands(cs, n0, d) /\ Owed(gs, w, d) = Owed(cs, w0, d)
        BY <1>3, <1>8, <1>9, <1>10, <1>11, <2>2, <3>1
      <3>3. QED
        BY <1>4, <1>7, <2>2, <3>2
    <2>3. QED
      BY <1>1, <2>1, <2>2
  <1>15. QED
    BY <1>1, <1>3, <1>12, <1>13, <1>14 DEF gs

\* A callee starts with an empty segment; its caller awaits its results.
LEMMA TypedPush ==
  ASSUME NEW cs \in Seq(ActivationType), NEW g \in LocalFunc, NEW b \in Nat,
         Typed(cs, b, Results[g]), cs = <<>> => b = 0
  PROVE  /\ Append(cs, Activation(g, b)) \in Seq(ActivationType)
         /\ Typed(Append(cs, Activation(g, b)), b, 0)
  <1> DEFINE a == Activation(g, b)
             up == Append(cs, a)
             D == Len(cs)
             r == Results[g]
  <1>1. a \in ActivationType /\ a.f = g /\ a.pc = 1 /\ a.base = b
    BY DEF Activation, ActivationType
  <1> HIDE DEF a
  <1>2. up \in Seq(ActivationType) /\ up # <<>>
    BY <1>1, AppendProperties
  <1>3. Len(up) = D + 1
    BY <1>1, AppendProperties
  <1>4. \A d \in 1..D : up[d] = cs[d]
    BY <1>1, AppendProperties
  <1>5. up[D + 1] = a
    BY <1>1, AppendProperties
  <1>6. D \in Nat
    BY LenProperties
  <1>7. D = 0 => b = 0
    BY EmptySeq
  <1>8. D >= 1 => cs[1].base = 0
    BY EmptySeq DEF Typed
  <1>9. \A d \in 1..D : At(cs[d].f, cs[d].pc, Operands(cs, b, d) + Owed(cs, r, d))
    BY DEF Typed
  <1>10. \A d \in 1..D : Operands(cs, b, d) = (IF d = D THEN b ELSE cs[d + 1].base) - cs[d].base
    BY DEF Operands
  <1>11. \A d \in 1..D : Owed(cs, r, d) = IF d < D THEN Results[cs[d + 1].f] ELSE r
    BY DEF Owed
  <1> HIDE DEF up
  <1>12. \A d \in 1..(D + 1) : Operands(up, b, d) =
                               (IF d = D + 1 THEN b ELSE up[d + 1].base) - up[d].base
    BY <1>3 DEF Operands
  <1>13. \A d \in 1..(D + 1) : Owed(up, 0, d) = IF d < D + 1 THEN Results[up[d + 1].f] ELSE 0
    BY <1>3 DEF Owed
  <1>14. Typed(up, b, 0) <=>
           /\ \A d \in 1..(D + 1) : At(up[d].f, up[d].pc, Operands(up, b, d) + Owed(up, 0, d))
           /\ up # <<>> => up[1].base = 0
    BY <1>3 DEF Typed
  <1> HIDE DEF D
  <1>15. At(g, 1, 0)
    BY HeightsAssumption DEF HeightsFit
  <1>16. up[1].base = 0
    <2>1. CASE D = 0
      BY <1>1, <1>5, <1>7, <2>1
    <2>2. CASE D >= 1
      <3>1. 1 \in 1..D
        BY <1>6, <2>2
      <3>2. QED
        BY <1>4, <1>8, <2>2, <3>1
    <2>3. QED
      BY <1>6, <2>1, <2>2
  <1>17. ASSUME NEW d \in 1..(D + 1)
         PROVE  At(up[d].f, up[d].pc, Operands(up, b, d) + Owed(up, 0, d))
    <2>1. CASE d = D + 1
      <3>1. Operands(up, b, d) = 0
        BY <1>1, <1>5, <1>12, <2>1
      <3>2. Owed(up, 0, d) = 0
        BY <1>6, <1>13, <2>1
      <3>3. QED
        BY <1>1, <1>5, <1>15, <2>1, <3>1, <3>2
    <2>2. CASE d = D
      <3>1. d \in 1..D /\ d # D + 1 /\ up[d] = cs[d] /\ up[d + 1] = a
        BY <1>4, <1>5, <1>6, <2>2
      <3>2. Operands(up, b, d) = Operands(cs, b, d)
        BY <1>1, <1>10, <1>12, <2>2, <3>1
      <3>3. Owed(up, 0, d) = Owed(cs, r, d)
        BY <1>1, <1>6, <1>11, <1>13, <2>2, <3>1
      <3>4. QED
        BY <1>9, <3>1, <3>2, <3>3
    <2>3. CASE d < D
      <3>1. d \in 1..D /\ d + 1 \in 1..D /\ d # D + 1 /\ d # D
        BY <1>6, <2>3
      <3>2. up[d] = cs[d] /\ up[d + 1] = cs[d + 1]
        BY <1>4, <3>1
      <3>3. Operands(up, b, d) = Operands(cs, b, d)
        BY <1>10, <1>12, <3>1, <3>2
      <3>4. Owed(up, 0, d) = Owed(cs, r, d)
        BY <1>6, <1>11, <1>13, <2>3, <3>1, <3>2
      <3>5. QED
        BY <1>9, <3>1, <3>2, <3>3, <3>4
    <2>4. QED
      BY <1>6, <2>1, <2>2, <2>3
  <1>18. Typed(up, b, 0)
    BY <1>14, <1>16, <1>17
  <1>19. QED
    BY <1>2, <1>18 DEF up, a

\* Without its inner activations, a stack awaits the results of the one above.
LEMMA TypedCut ==
  ASSUME NEW cs \in Seq(ActivationType), NEW n, NEW w, Typed(cs, n, w),
         NEW k \in 0..Len(cs), k < Len(cs)
  PROVE  Typed(SubSeq(cs, 1, k), cs[k + 1].base, Results[cs[k + 1].f])
  <1> DEFINE ps == SubSeq(cs, 1, k)
             D == Len(cs)
             b == cs[k + 1].base
             r == Results[cs[k + 1].f]
  <1>1. D \in Nat /\ k \in Nat /\ k < D
    BY LenProperties
  <1>2. Len(ps) = k
    BY PrefixFacts
  <1>3. \A d \in 1..k : ps[d] = cs[d]
    BY PrefixFacts
  <1>4. ps # <<>> => k >= 1
    BY PrefixFacts, EmptySeq
  <1>5. \A d \in 1..D : At(cs[d].f, cs[d].pc, Operands(cs, n, d) + Owed(cs, w, d))
    BY DEF Typed
  <1>6. \A d \in 1..D : Operands(cs, n, d) = (IF d = D THEN n ELSE cs[d + 1].base) - cs[d].base
    BY DEF Operands
  <1>7. \A d \in 1..D : Owed(cs, w, d) = IF d < D THEN Results[cs[d + 1].f] ELSE w
    BY DEF Owed
  <1>8. D >= 1 => cs[1].base = 0
    BY EmptySeq DEF Typed
  <1> HIDE DEF ps
  <1>9. \A d \in 1..k : Operands(ps, b, d) = (IF d = k THEN b ELSE ps[d + 1].base) - ps[d].base
    BY <1>2 DEF Operands
  <1>10. \A d \in 1..k : Owed(ps, r, d) = IF d < k THEN Results[ps[d + 1].f] ELSE r
    BY <1>2 DEF Owed
  <1>11. Typed(ps, b, r) <=>
           /\ \A d \in 1..k : At(ps[d].f, ps[d].pc, Operands(ps, b, d) + Owed(ps, r, d))
           /\ ps # <<>> => ps[1].base = 0
    BY <1>2 DEF Typed
  <1> HIDE DEF D
  <1>12. ps # <<>> => ps[1].base = 0
    <2>1. SUFFICES ASSUME ps # <<>> PROVE ps[1].base = 0
      OBVIOUS
    <2>2. 1 \in 1..k /\ D >= 1
      BY <1>1, <1>4, <2>1
    <2>3. QED
      BY <1>3, <1>8, <2>2
  <1>13. ASSUME NEW d \in 1..k
         PROVE  At(ps[d].f, ps[d].pc, Operands(ps, b, d) + Owed(ps, r, d))
    <2>1. d \in 1..D /\ d < D /\ d # D /\ ps[d] = cs[d]
      BY <1>1, <1>3
    <2>2. CASE d = k
      <3>1. Operands(ps, b, d) = Operands(cs, n, d)
        BY <1>6, <1>9, <2>1, <2>2
      <3>2. Owed(ps, r, d) = Owed(cs, w, d)
        BY <1>1, <1>7, <1>10, <2>1, <2>2
      <3>3. QED
        BY <1>5, <2>1, <3>1, <3>2
    <2>3. CASE d < k
      <3>1. d + 1 \in 1..k /\ d # k
        BY <1>1, <2>3
      <3>2. ps[d + 1] = cs[d + 1]
        BY <1>3, <3>1
      <3>3. Operands(ps, b, d) = Operands(cs, n, d)
        BY <1>6, <1>9, <2>1, <3>1, <3>2
      <3>4. Owed(ps, r, d) = Owed(cs, w, d)
        BY <1>7, <1>10, <2>1, <2>3, <3>2
      <3>5. QED
        BY <1>5, <2>1, <3>3, <3>4
    <2>4. QED
      BY <1>1, <2>2, <2>3
  <1>14. Typed(ps, b, r)
    BY <1>11, <1>12, <1>13
  <1>15. QED
    BY <1>14 DEF ps

\* The awaited values may be on the stack as well.
LEMMA TypedPay ==
  ASSUME NEW cs \in Seq(ActivationType), NEW n \in Int, NEW w \in Int, Typed(cs, n, w),
         NEW m \in Int, m = n + w
  PROVE  Typed(cs, m, 0)
  <1> DEFINE D == Len(cs)
  <1>1. D \in Nat
    BY LenProperties
  <1>2. \A d \in 1..D : cs[d].base \in Nat
    BY StackElement
  <1>3. \A d \in 1..D : /\ Operands(cs, n, d) =
                             (IF d = D THEN n ELSE cs[d + 1].base) - cs[d].base
                        /\ Operands(cs, m, d) =
                             (IF d = D THEN m ELSE cs[d + 1].base) - cs[d].base
    BY DEF Operands
  <1>4. \A d \in 1..D : /\ Owed(cs, w, d) = IF d < D THEN Results[cs[d + 1].f] ELSE w
                        /\ Owed(cs, 0, d) = IF d < D THEN Results[cs[d + 1].f] ELSE 0
    BY DEF Owed
  <1>5. Typed(cs, n, w) <=>
          /\ \A d \in 1..D : At(cs[d].f, cs[d].pc, Operands(cs, n, d) + Owed(cs, w, d))
          /\ cs # <<>> => cs[1].base = 0
    BY DEF Typed
  <1>6. Typed(cs, m, 0) <=>
          /\ \A d \in 1..D : At(cs[d].f, cs[d].pc, Operands(cs, m, d) + Owed(cs, 0, d))
          /\ cs # <<>> => cs[1].base = 0
    BY DEF Typed
  <1> HIDE DEF D
  <1>7. ASSUME NEW d \in 1..D
        PROVE  Operands(cs, m, d) + Owed(cs, 0, d) = Operands(cs, n, d) + Owed(cs, w, d)
    <2>1. CASE d = D
      <3>1. Operands(cs, n, d) = n - cs[d].base /\ Operands(cs, m, d) = m - cs[d].base
        BY <1>3, <2>1
      <3>2. Owed(cs, w, d) = w /\ Owed(cs, 0, d) = 0
        BY <1>1, <1>4, <2>1
      <3>3. QED
        BY <1>2, <3>1, <3>2
    <2>2. CASE d < D
      <3>1. d # D
        BY <1>1, <2>2
      <3>2. QED
        BY <1>3, <1>4, <2>2, <3>1
    <2>3. QED
      BY <1>1, <2>1, <2>2
  <1>8. QED
    BY <1>5, <1>6, <1>7

----------------------------------------------------------------------------
(***************************************************************************)
(* How the scoping of catch frames changes.                                *)
(***************************************************************************)
LEMMA FrameElement ==
  ASSUME NEW ks \in Seq(CatchType), NEW i \in 1..Len(ks)
  PROVE  ks[i].depth \in Nat /\ ks[i].restore \in Nat /\ ks[i].h \in Handler
  <1>1. ks[i] \in CatchType
    BY ElementOfSeq
  <1>2. QED
    BY <1>1 DEF CatchType

\* A handler is nested one deeper than the op that installs it.
LEMMA LevelNat ==
  ASSUME NEW h \in Handler
  PROVE  /\ Site[h].f \in LocalFunc /\ Site[h].pc \in Live(Site[h].f)
         /\ Level(h) \in Nat /\ Level(h) >= 1
         /\ Level(h) - 1 = Len(Scope[Site[h].f][Site[h].pc])
  <1>1. Site[h].f \in LocalFunc /\ Site[h].pc \in Live(Site[h].f)
    BY ProgramTypeAssumption DEF ProgramType
  <1>2. Scope[Site[h].f][Site[h].pc] \in Seq(Handler)
    BY <1>1, ProgramTypeAssumption DEF ProgramType
  <1>3. Len(Scope[Site[h].f][Site[h].pc]) \in Nat
    BY <1>2, LenProperties
  <1>4. Level(h) = Len(Scope[Site[h].f][Site[h].pc]) + 1
    BY DEF Level
  <1> DEFINE n == Len(Scope[Site[h].f][Site[h].pc])
  <1>5. n \in Nat /\ Level(h) = n + 1
    BY <1>3, <1>4
  <1> HIDE DEF n
  <1>6. Level(h) \in Nat /\ Level(h) >= 1 /\ Level(h) - 1 = n
    BY <1>5
  <1>7. QED
    BY <1>1, <1>6 DEF n

\* A frame stays in scope while its activation is the same.
LEMMA InScopeSame ==
  ASSUME NEW cs, NEW ds, NEW c, InScope(cs, c),
         c.depth \in 1..Len(ds), ds[c.depth] = cs[c.depth]
  PROVE  InScope(ds, c)
  BY DEF InScope

\* The innermost activation moves to a pc where its own frames are in scope.
LEMMA ScopedMove ==
  ASSUME NEW cs \in Seq(ActivationType), cs # <<>>, NEW ks \in Seq(CatchType),
         Scoped(cs, ks), NEW pc \in Nat, NEW s, s = Scope[cs[Len(cs)].f][pc],
         \A i \in 1..Len(ks) : ks[i].depth = Len(cs) =>
           Level(ks[i].h) \in 1..Len(s) /\ s[Level(ks[i].h)] = ks[i].h
  PROVE  Scoped(GoTo(cs, pc), ks)
  <1> DEFINE gs == GoTo(cs, pc)
             D == Len(cs)
  <1>1. Len(gs) = D
    BY GoToFacts
  <1>2. \A d \in 1..D : gs[d].f = cs[d].f /\ gs[d].base = cs[d].base
    BY GoToFacts
  <1>3. \A d \in 1..D : d < D => gs[d] = cs[d]
    BY GoToFacts
  <1>4. gs[D].pc = pc
    BY GoToFacts
  <1>5. D \in Nat
    BY LenProperties
  <1> HIDE DEF gs
  <1>6. ASSUME NEW i \in 1..Len(ks)
        PROVE  InScope(gs, ks[i])
    <2>1. InScope(cs, ks[i]) /\ ks[i].depth \in 1..D
      BY DEF Scoped, InScope
    <2>2. CASE ks[i].depth = D
      <3>1. Level(ks[i].h) \in 1..Len(s) /\ s[Level(ks[i].h)] = ks[i].h
        BY <2>2
      <3>2. /\ cs[D].f = Site[ks[i].h].f
            /\ ks[i].restore = cs[D].base + Height[cs[D].f][Site[ks[i].h].pc]
        BY <2>1, <2>2 DEF InScope
      <3>3. gs[D].f = cs[D].f /\ gs[D].base = cs[D].base
        BY <1>2, <2>1, <2>2
      <3>4. s = Scope[gs[D].f][gs[D].pc]
        BY <1>4, <3>3
      <3>5. QED
        BY <1>1, <2>1, <2>2, <3>1, <3>2, <3>3, <3>4 DEF InScope
    <2>3. CASE ks[i].depth < D
      <3>1. gs[ks[i].depth] = cs[ks[i].depth]
        BY <1>3, <2>1, <2>3
      <3>2. QED
        BY <1>1, <2>1, <3>1, InScopeSame
    <2>4. QED
      BY <1>5, <2>1, <2>2, <2>3
  <1>7. QED
    BY <1>6 DEF Scoped, gs

\* A new activation above the others has no frames yet.
LEMMA ScopedAbove ==
  ASSUME NEW cs \in Seq(ActivationType), NEW a \in ActivationType, NEW ks, Scoped(cs, ks)
  PROVE  Scoped(Append(cs, a), ks)
  <1> DEFINE up == Append(cs, a)
             D == Len(cs)
  <1>1. Len(up) = D + 1 /\ \A d \in 1..D : up[d] = cs[d]
    BY AppendProperties
  <1>2. D \in Nat
    BY LenProperties
  <1> HIDE DEF up
  <1>3. ASSUME NEW i \in 1..Len(ks)
        PROVE  InScope(up, ks[i])
    <2>1. InScope(cs, ks[i]) /\ ks[i].depth \in 1..D
      BY DEF Scoped, InScope
    <2>2. up[ks[i].depth] = cs[ks[i].depth] /\ ks[i].depth \in 1..Len(up)
      BY <1>1, <1>2, <2>1
    <2>3. QED
      BY <2>1, <2>2, InScopeSame
  <1>4. QED
    BY <1>3 DEF Scoped, up

\* Frames that all belong to the outer activations stay with those.
LEMMA ScopedBelow ==
  ASSUME NEW cs \in Seq(ActivationType), NEW ks, Scoped(cs, ks), NEW k \in 0..Len(cs),
         \A i \in 1..Len(ks) : ks[i].depth <= k
  PROVE  Scoped(SubSeq(cs, 1, k), ks)
  <1> DEFINE ps == SubSeq(cs, 1, k)
             D == Len(cs)
  <1>1. Len(ps) = k /\ \A d \in 1..k : ps[d] = cs[d]
    BY PrefixFacts
  <1>2. D \in Nat
    BY LenProperties
  <1> HIDE DEF ps
  <1>3. ASSUME NEW i \in 1..Len(ks)
        PROVE  InScope(ps, ks[i])
    <2>1. InScope(cs, ks[i]) /\ ks[i].depth \in 1..D
      BY DEF Scoped, InScope
    <2>2. ks[i].depth \in 1..k
      BY <2>1, <1>2
    <2>3. ps[ks[i].depth] = cs[ks[i].depth] /\ ks[i].depth \in 1..Len(ps)
      BY <1>1, <2>2
    <2>4. QED
      BY <2>1, <2>3, InScopeSame
  <1>4. QED
    BY <1>3 DEF Scoped, ps

\* A prefix of the catch stack is scoped as well.
LEMMA ScopedFewer ==
  ASSUME NEW cs, NEW ks \in Seq(CatchType), Scoped(cs, ks), NEW n \in 0..Len(ks)
  PROVE  Scoped(cs, SubSeq(ks, 1, n))
  <1> DEFINE qs == SubSeq(ks, 1, n)
             K == Len(ks)
  <1>1. Len(qs) = n /\ \A d \in 1..n : qs[d] = ks[d]
    BY PrefixFacts
  <1>2. K \in Nat /\ n \in Nat /\ n <= K
    BY LenProperties
  <1>3. /\ \A i \in 1..K : InScope(cs, ks[i])
        /\ \A i, j \in 1..K : i < j => Outside(ks[i], ks[j])
    BY DEF Scoped
  <1>4. Scoped(cs, qs) <=>
          /\ \A i \in 1..n : InScope(cs, qs[i])
          /\ \A i, j \in 1..n : i < j => Outside(qs[i], qs[j])
    BY <1>1 DEF Scoped
  <1> HIDE DEF qs, K
  <1>5. \A i \in 1..n : i \in 1..K
    BY <1>2
  <1>6. Scoped(cs, qs)
    BY <1>1, <1>3, <1>4, <1>5
  <1>7. QED
    BY <1>6 DEF qs

\* An inner frame is installed on top.
LEMMA ScopedInstall ==
  ASSUME NEW cs, NEW ks \in Seq(CatchType), Scoped(cs, ks),
         NEW c \in CatchType, InScope(cs, c),
         \A i \in 1..Len(ks) : Outside(ks[i], c)
  PROVE  Scoped(cs, Append(ks, c))
  <1> DEFINE qs == Append(ks, c)
             K == Len(ks)
  <1>1. Len(qs) = K + 1 /\ (\A d \in 1..K : qs[d] = ks[d]) /\ qs[K + 1] = c
    BY AppendProperties
  <1>2. K \in Nat
    BY LenProperties
  <1>3. /\ \A i \in 1..K : InScope(cs, ks[i])
        /\ \A i, j \in 1..K : i < j => Outside(ks[i], ks[j])
    BY DEF Scoped
  <1>4. Scoped(cs, qs) <=>
          /\ \A i \in 1..(K + 1) : InScope(cs, qs[i])
          /\ \A i, j \in 1..(K + 1) : i < j => Outside(qs[i], qs[j])
    BY <1>1 DEF Scoped
  <1>5. \A i \in 1..K : Outside(ks[i], c)
    OBVIOUS
  <1> HIDE DEF qs, K
  <1>6. \A i \in 1..(K + 1) : i \in 1..K \/ i = K + 1
    BY <1>2
  <1>7. \A i \in 1..(K + 1) : InScope(cs, qs[i])
    BY <1>1, <1>3, <1>6
  <1>8. ASSUME NEW i \in 1..(K + 1), NEW j \in 1..(K + 1), i < j
        PROVE  Outside(qs[i], qs[j])
    <2>1. i \in 1..K
      BY <1>2, <1>8
    <2>2. CASE j = K + 1
      BY <1>1, <1>5, <2>1, <2>2
    <2>3. CASE j \in 1..K
      BY <1>1, <1>3, <1>8, <2>1, <2>3
    <2>4. QED
      BY <1>6, <2>2, <2>3
  <1>9. Scoped(cs, qs)
    BY <1>4, <1>7, <1>8
  <1>10. QED
    BY <1>9 DEF qs

----------------------------------------------------------------------------
(***************************************************************************)
(* The numbers the operators choose.                                       *)
(***************************************************************************)
LEMMA LargerFacts ==
  ASSUME NEW m \in Int, NEW n \in Int
  PROVE  /\ Larger(m, n) \in {m, n} /\ Larger(m, n) >= m /\ Larger(m, n) >= n
         /\ Larger(m, n) \in Int
  BY DEF Larger

\* Every nonempty set of naturals has a least element.
LEMMA LeastNatural ==
  ASSUME NEW T \in SUBSET Nat, T # {}
  PROVE  \E x \in T : \A y \in T : x <= y
  <1> DEFINE R == {ss \in Nat \X Nat : ss[1] < ss[2]}
  <1>1. IsWellFoundedOn(R, Nat)
    BY ONLY NatLessThanWellFounded, Zenon DEF OpToRel, R
  <1>2. \E x \in T : \A y \in T : ~(<<y, x>> \in R)
    BY <1>1, WFMin
  <1>3. \A x, y \in Nat : x < y => <<x, y>> \in R
    OBVIOUS
  <1> HIDE DEF R
  <1>4. PICK x \in T : \A y \in T : ~(<<y, x>> \in R)
    BY <1>2
  <1>5. \A y \in T : ~(y < x)
    BY <1>3, <1>4
  <1>6. \A y \in T : x <= y
    BY <1>5
  <1>7. QED
    BY <1>6

\* FirstClause is one of the handler's clauses, and matches.
LEMMA FirstClauseFacts ==
  ASSUME NEW h \in Handler, NEW t \in Tag, Matches(h, t)
  PROVE  \E j \in DOMAIN Clauses[h] :
           /\ FirstClause(h, t) = Clauses[h][j]
           /\ ClauseMatches(Clauses[h][j], t)
           /\ Clauses[h][j] \in ClauseType
  <1> DEFINE D == DOMAIN Clauses[h]
             T == {i \in D : ClauseMatches(Clauses[h][i], t)}
             First(i) == /\ ClauseMatches(Clauses[h][i], t)
                         /\ \A j \in 1..(i - 1) : ~ClauseMatches(Clauses[h][j], t)
  <1>1. Clauses[h] \in Seq(ClauseType)
    BY ProgramTypeAssumption DEF ProgramType
  <1>2. D = 1..Len(Clauses[h]) /\ Len(Clauses[h]) \in Nat
    BY <1>1, LenProperties
  <1>3. \A i \in D : Clauses[h][i] \in ClauseType
    BY <1>1, <1>2, ElementOfSeq
  <1>4. T \in SUBSET Nat /\ T # {}
    BY <1>2 DEF Matches
  <1>5. PICK i \in T : \A j \in T : i <= j
    BY <1>4, LeastNatural
  <1>6. \A j \in 1..(i - 1) : j \in D /\ ~(i <= j)
    BY <1>2, <1>5
  <1>7. i \in D /\ First(i)
    BY <1>5, <1>6
  <1>8. (CHOOSE j \in D : First(j)) \in D /\ First(CHOOSE j \in D : First(j))
    BY <1>7
  <1>9. FirstClause(h, t) = Clauses[h][CHOOSE j \in D : First(j)]
    BY DEF FirstClause
  <1>10. QED
    BY <1>3, <1>8, <1>9

\* WithoutFramesOf(d) cuts the catch stack at the last frame of depth d or less.
LEMMA WithoutFramesFacts ==
  ASSUME NEW d \in Nat, catchStack \in Seq(CatchType)
  PROVE  \E n \in 0..Len(catchStack) :
           /\ WithoutFramesOf(d) = SubSeq(catchStack, 1, n)
           /\ n = 0 \/ catchStack[n].depth <= d
           /\ \A i \in (n + 1)..Len(catchStack) : ~(catchStack[i].depth <= d)
  <1> DEFINE K == Len(catchStack)
             keep == {i \in DOMAIN catchStack : catchStack[i].depth <= d}
             Last(n) == /\ n = 0 \/ n \in keep
                        /\ \A i \in (n + 1)..K : i \notin keep
             T == {n \in 0..K : \A i \in (n + 1)..K : i \notin keep}
  <1>1. K \in Nat
    BY LenProperties
  <1>2. T \in SUBSET Nat /\ K \in T
    BY <1>1
  <1>3. PICK n \in T : \A m \in T : n <= m
    BY <1>2, LeastNatural
  <1>4. n \in 0..K /\ \A i \in (n + 1)..K : i \notin keep
    BY <1>3
  <1> HIDE DEF K, keep
  <1>5. n = 0 \/ n \in keep
    <2>1. SUFFICES ASSUME n # 0, n \notin keep
                   PROVE  FALSE
      OBVIOUS
    <2>2. n - 1 \in 0..K /\ \A i \in (n - 1 + 1)..K : i = n \/ i \in (n + 1)..K
      BY <1>1, <1>4, <2>1
    <2>3. n - 1 \in T
      BY <1>4, <2>1, <2>2
    <2>4. n <= n - 1
      BY <1>3, <2>3
    <2>5. QED
      BY <1>1, <1>4, <2>4
  <1>6. Last(n)
    BY <1>4, <1>5
  <1> DEFINE m == CHOOSE j \in 0..K : Last(j)
  <1>7. m \in 0..K /\ Last(m)
    BY <1>4, <1>6
  <1>8. WithoutFramesOf(d) = SubSeq(catchStack, 1, m)
    BY DEF WithoutFramesOf, m, K, keep
  <1> HIDE DEF m
  <1>9. m = 0 \/ catchStack[m].depth <= d
    BY <1>7 DEF keep
  <1>10. \A i \in (m + 1)..K : i \in 1..K /\ ~(catchStack[i].depth <= d)
    <2>1. TAKE i \in (m + 1)..K
    <2>2. i \in 1..K
      BY <1>1, <1>7
    <2>3. i \notin keep /\ i \in DOMAIN catchStack
      BY <1>7, <2>2 DEF K
    <2>4. QED
      BY <2>2, <2>3 DEF keep
  <1>11. QED
    BY <1>7, <1>8, <1>9, <1>10 DEF K

\* The scope at the site of an enclosing handler is the part outside it.
LEMMA OuterScope ==
  ASSUME NEW f \in LocalFunc, NEW pc \in Live(f), NEW l \in 1..Len(Scope[f][pc])
  PROVE  LET s == Scope[f][pc]
             h == s[l]
             o == Scope[f][Site[h].pc]
         IN  /\ h \in Handler
             /\ Site[h].f = f
             /\ Len(o) = l - 1
             /\ \A m \in 1..(l - 1) : o[m] = s[m]
  <1> DEFINE s == Scope[f][pc]
             h == s[l]
             o == Scope[f][Site[h].pc]
  <1>1. s \in Seq(Handler)
    BY LiveOp
  <1>2. h \in Handler
    BY <1>1, ElementOfSeq
  <1>3. Site[h].f = f /\ SubSeq(s, 1, l - 1) = o
    <2>1. OpScoped(f, pc)
      BY LiveOp
    <2> QED BY ONLY <2>1, l \in 1..Len(Scope[f][pc]) DEF OpScoped
  <1>4. l - 1 \in 0..Len(s)
    BY <1>1, LenProperties
  <1> HIDE DEF s, h, o
  <1>5. Len(o) = l - 1 /\ \A m \in 1..(l - 1) : o[m] = s[m]
    BY <1>1, <1>3, <1>4, PrefixFacts
  <1>6. QED
    BY <1>2, <1>3, <1>5 DEF s, h, o

----------------------------------------------------------------------------
(***************************************************************************)
(* What the invariant says in a running store, and what a step must show.  *)
(***************************************************************************)
LEMMA TypeFacts ==
  ASSUME TypeOK
  PROVE  /\ callStack \in Seq(ActivationType) /\ catchStack \in Seq(CatchType)
         /\ exceptions \in Seq(Tag)
         /\ len \in Nat /\ cap \in Nat /\ high \in Nat /\ refs \in Nat
         /\ fuel \in Nat \cup {None} /\ pendingArity \in Nat \cup {None}
         /\ runArity \in Nat
         /\ mode \in {"ready", "running", "aborted"}
         /\ result \in Outcomes /\ waiting \in HostFunc \cup {None}
  BY DEF TypeOK, ActivationType, CatchType

LEMMA Running ==
  ASSUME StoreTyped, mode = "running"
  PROVE  /\ TypeOK
         /\ Typed(callStack, len, 0)
         /\ Scoped(callStack, catchStack)
         /\ runArity = Owes(callStack, len)
  <1>1. AwaitedResults = 0
    BY DEF AwaitedResults, AwaitingHost
  <1>2. TypeOK /\ HeightsKept /\ CatchFramesInScope /\ ArityKept
    BY DEF StoreTyped
  <1>3. QED
    BY <1>1, <1>2 DEF HeightsKept, CatchFramesInScope, ArityKept

\* The op about to run is reachable and its operands are on the stack.
LEMMA AtTop ==
  ASSUME StoreTyped, mode = "running", callStack # <<>>
  PROVE  /\ Depth \in Nat /\ Depth >= 1 /\ Depth \in 1..Len(callStack)
         /\ Top = callStack[Len(callStack)]
         /\ Top.f \in LocalFunc /\ Top.pc \in Nat /\ Top.base \in Nat
         /\ Top.pc \in Live(Top.f)
         /\ Height[Top.f][Top.pc] = len - Top.base
         /\ len - Top.base \in Nat
         /\ Op \in Ops /\ Op = Code[Top.f][Top.pc]
         /\ OpFits(Top.f, Top.pc) /\ OpScoped(Top.f, Top.pc)
  <1>1. callStack \in Seq(ActivationType) /\ len \in Int /\ Typed(callStack, len, 0)
    BY Running, TypeFacts
  <1>2. Depth \in Nat /\ Depth >= 1 /\ Depth \in 1..Len(callStack)
    BY <1>1, EmptySeq, LenProperties DEF Depth
  <1>3. Top = callStack[Len(callStack)] /\ Top = callStack[Depth]
    BY DEF Top, Depth
  <1>4. Top.f \in LocalFunc /\ Top.pc \in Nat /\ Top.base \in Nat
    BY <1>1, <1>2, <1>3, StackElement
  <1>5. At(Top.f, Top.pc, Operands(callStack, len, Depth) + Owed(callStack, 0, Depth))
    BY <1>1, <1>2, <1>3 DEF Typed
  <1>6. Operands(callStack, len, Depth) = len - Top.base
    BY <1>3 DEF Operands, Depth
  <1>7. Owed(callStack, 0, Depth) = 0
    BY <1>2 DEF Owed, Depth
  <1>8. Top.pc \in Live(Top.f) /\ Height[Top.f][Top.pc] = len - Top.base
    BY <1>1, <1>4, <1>5, <1>6, <1>7 DEF At
  <1>9. Op = Code[Top.f][Top.pc]
    BY DEF Op
  <1>10. /\ Code[Top.f][Top.pc] \in Ops /\ Height[Top.f][Top.pc] \in Nat
         /\ OpFits(Top.f, Top.pc) /\ OpScoped(Top.f, Top.pc)
    BY <1>4, <1>8, LiveOp
  <1>11. QED
    BY <1>2, <1>3, <1>4, <1>8, <1>9, <1>10

\* The results owed to the embedder are those of the outermost activation.
LEMMA OwesSame ==
  ASSUME NEW cs \in Seq(ActivationType), cs # <<>>,
         NEW ds \in Seq(ActivationType), ds # <<>>,
         ds[1].f = cs[1].f, NEW m, NEW n
  PROVE  Owes(ds, n) = Owes(cs, m)
  BY DEF Owes

\* A step that stays in run().
LEMMA StaysRunning ==
  ASSUME StoreTyped, mode' = "running",
         TypeOK', Typed(callStack', len', 0), Scoped(callStack', catchStack'),
         runArity' = Owes(callStack', len')
  PROVE  StoreTyped'
  <1>1. ~AwaitingHost' /\ AwaitedResults' = 0
    BY DEF AwaitingHost, AwaitedResults
  <1>2. HeightsKept'
    BY <1>1 DEF HeightsKept
  <1>3. CatchFramesInScope'
    BY DEF CatchFramesInScope
  <1>4. ArityKept'
    BY DEF ArityKept, Paused
  <1>5. EndedIsClean'
    BY DEF EndedIsClean
  <1>6. QED
    BY <1>2, <1>3, <1>4, <1>5 DEF StoreTyped

\* A step that suspends the run at host function g.
LEMMA Suspends ==
  ASSUME mode' = "ready", result' = "suspended", pendingArity' # None,
         waiting' \in HostFunc,
         TypeOK', Typed(callStack', len', Results[waiting']), Scoped(callStack', catchStack'),
         pendingArity' = Owes(callStack', len' + Results[waiting'])
  PROVE  StoreTyped'
  <1>1. AwaitingHost' /\ AwaitedResults' = Results[waiting']
    BY DEF AwaitingHost, AwaitedResults
  <1>2. HeightsKept'
    BY <1>1 DEF HeightsKept
  <1>3. CatchFramesInScope'
    BY DEF CatchFramesInScope
  <1>4. ArityKept'
    BY <1>1 DEF ArityKept, Paused
  <1>5. EndedIsClean'
    BY DEF EndedIsClean
  <1>6. QED
    BY <1>2, <1>3, <1>4, <1>5 DEF StoreTyped

\* Nothing left on any stack is well typed.
LEMMA NothingLeft ==
  ASSUME TypeOK', mode' = "ready", pendingArity' = None,
         callStack' = <<>>, catchStack' = <<>>, len' = 0
  PROVE  StoreTyped'
  <1>1. Typed(<<>>, 0, 0) /\ Scoped(<<>>, <<>>)
    BY DEF Typed, Scoped
  <1>2. AwaitedResults' = 0
    BY DEF AwaitedResults, AwaitingHost
  <1>3. HeightsKept' /\ CatchFramesInScope'
    BY <1>1, <1>2 DEF HeightsKept, CatchFramesInScope
  <1>4. ArityKept' /\ EndedIsClean'
    BY DEF ArityKept, Paused, EndedIsClean
  <1>5. QED
    BY <1>3, <1>4 DEF StoreTyped

----------------------------------------------------------------------------
(***************************************************************************)
(* The actions.                                                            *)
(***************************************************************************)
LEMMA FetchFacts ==
  ASSUME TypeOK, NEW kinds, Fetch(kinds)
  PROVE  /\ mode = "running" /\ callStack # <<>>
         /\ Op.k \in kinds
         /\ fuel' \in Nat \cup {None}
  <1>1. fuel \in Nat \cup {None}
    BY TypeFacts
  <1>2. mode = "running" /\ callStack # <<>> /\ Op.k \in kinds
        /\ fuel # 0 /\ fuel' = IF fuel = None THEN None ELSE fuel - 1
    BY DEF Fetch
  <1>3. fuel' \in Nat \cup {None}
    BY <1>1, <1>2 DEF None
  <1>4. QED
    BY <1>2, <1>3

LEMMA MoveFacts ==
  ASSUME high \in Nat, NEW n \in Int, NEW peak \in Int, MoveCursor(n, peak)
  PROVE  len' = n /\ high' \in Nat
  <1> DEFINE m == Larger(n, peak)
             top == Larger(high, m)
  <1>1. m \in Int
    BY LargerFacts
  <1> HIDE DEF m
  <1>0. high \in Int
    OBVIOUS
  <1>2. top \in Int /\ top >= high
    BY ONLY <1>1, <1>0, LargerFacts
  <1>3. len' = n /\ high' = top
    BY DEF MoveCursor, m
  <1> HIDE DEF top
  <1>4. top \in Nat
    BY <1>2
  <1>5. QED
    BY <1>3, <1>4

\* A step that takes an edge of the op moves within the function's typing.
LEMMA FollowFacts ==
  ASSUME StoreTyped, mode = "running", callStack # <<>>,
         NEW e \in Edges(Op, Top.pc, len), Follow(callStack, e)
  PROVE  /\ callStack' = GoTo(callStack, e.pc)
         /\ e.pc \in Nat
         /\ callStack' \in Seq(ActivationType) /\ callStack' # <<>>
         /\ len' \in Nat /\ high' \in Nat
         /\ Typed(callStack', len', 0)
         /\ Owes(callStack', len') = Owes(callStack, len)
         /\ Scope[Top.f][e.pc] = ScopeAfter(Op, Scope[Top.f][Top.pc])
  <1> DEFINE f == Top.f
             b == Top.base
             h == Height[Top.f][Top.pc]
  <1>1. callStack \in Seq(ActivationType) /\ len \in Int /\ high \in Nat
    BY Running, TypeFacts
  <1>2. Typed(callStack, len, 0)
    BY Running
  <1>3. /\ Top = callStack[Len(callStack)] /\ f \in LocalFunc
        /\ Top.pc \in Nat /\ b \in Nat /\ h = len - b /\ h \in Int
        /\ Op \in Ops /\ Op = Code[f][Top.pc]
        /\ OpFits(f, Top.pc) /\ OpScoped(f, Top.pc)
    BY AtTop
  <1>4. len = b + h
    BY <1>1, <1>3
  <1>5. e.h \in Int /\ e.pc \in Nat /\ Edge(e.pc, e.h - b) \in Edges(Op, Top.pc, h)
    BY <1>1, <1>3, <1>4, EdgeShift
  <1>6. Edge(e.pc, e.h - b).pc = e.pc /\ Edge(e.pc, e.h - b).h = e.h - b
    BY DEF Edge
  <1>7. At(f, e.pc, e.h - b)
    BY <1>3, <1>5, <1>6 DEF OpFits
  <1>19. Height[f][e.pc] = e.h - b /\ Height[f][e.pc] \in Nat
    BY <1>3, <1>7, LiveOp DEF At
  <1>20. e.h \in Nat
    BY <1>3, <1>5, <1>19
  <1>8. Scope[f][e.pc] = ScopeAfter(Op, Scope[f][Top.pc])
    BY <1>3, <1>5, <1>6 DEF OpScoped, Within
  <1>9. callStack' = GoTo(callStack, e.pc)
    BY DEF Follow
  <1>10. len' = e.h /\ high' \in Nat
    BY <1>1, <1>5, MoveFacts DEF Follow
  <1> HIDE DEF f, b, h
  <1>11. e.h - b + 0 = e.h - b
    BY <1>3, <1>5
  <1> DEFINE w == 0
  <1>12. At(callStack[Len(callStack)].f, e.pc, e.h - callStack[Len(callStack)].base + w)
    BY <1>3, <1>7, <1>11 DEF f, b
  <1>17. w \in Int
    OBVIOUS
  <1> HIDE DEF w
  <1>18. Typed(GoTo(callStack, e.pc), e.h, w)
    BY <1>1, <1>2, <1>5, <1>12, <1>17, TypedFollow
  <1>13. Typed(GoTo(callStack, e.pc), e.h, 0)
    BY <1>18 DEF w
  <1>14. /\ GoTo(callStack, e.pc) \in Seq(ActivationType) /\ GoTo(callStack, e.pc) # <<>>
         /\ GoTo(callStack, e.pc)[1].f = callStack[1].f
    <2>1. 1 \in 1..Len(callStack)
      BY <1>1, EmptySeq, LenProperties
    <2>2. QED
      BY <1>1, <1>5, <2>1, GoToFacts
  <1>15. Owes(GoTo(callStack, e.pc), e.h) = Owes(callStack, len)
    BY <1>1, <1>14, OwesSame
  <1>16. QED
    BY <1>5, <1>8, <1>9, <1>10, <1>13, <1>14, <1>15, <1>20 DEF f

\* The frames of the running activation are those of the try_tables around it.
LEMMA OwnFrames ==
  ASSUME StoreTyped, mode = "running", callStack # <<>>
  PROVE  \A i \in 1..Len(catchStack) :
           /\ catchStack[i].depth \in 1..Depth
           /\ catchStack[i].depth = Depth =>
                /\ Level(catchStack[i].h) \in 1..Len(Scope[Top.f][Top.pc])
                /\ Scope[Top.f][Top.pc][Level(catchStack[i].h)] = catchStack[i].h
  <1>1. Scoped(callStack, catchStack)
    BY Running
  <1>2. Top = callStack[Depth] /\ Depth = Len(callStack)
    BY DEF Top, Depth
  <1>3. ASSUME NEW i \in 1..Len(catchStack)
        PROVE  /\ catchStack[i].depth \in 1..Depth
               /\ catchStack[i].depth = Depth =>
                    /\ Level(catchStack[i].h) \in 1..Len(Scope[Top.f][Top.pc])
                    /\ Scope[Top.f][Top.pc][Level(catchStack[i].h)] = catchStack[i].h
    <2>1. InScope(callStack, catchStack[i])
      BY <1>1 DEF Scoped
    <2>2. QED
      BY <1>2, <2>1 DEF InScope
  <1>4. QED
    BY <1>3

LEMMA ScopedStay ==
  ASSUME StoreTyped, mode = "running", callStack # <<>>,
         NEW pc \in Nat, Scope[Top.f][pc] = Scope[Top.f][Top.pc]
  PROVE  Scoped(GoTo(callStack, pc), catchStack)
  <1> DEFINE s == Scope[Top.f][Top.pc]
  <1>1. /\ callStack \in Seq(ActivationType) /\ catchStack \in Seq(CatchType)
        /\ Scoped(callStack, catchStack)
    BY Running, TypeFacts
  <1>2. Top = callStack[Len(callStack)] /\ Depth = Len(callStack)
    BY DEF Top, Depth
  <1>3. s = Scope[callStack[Len(callStack)].f][pc]
    BY <1>2
  <1>4. \A i \in 1..Len(catchStack) : catchStack[i].depth = Len(callStack) =>
          Level(catchStack[i].h) \in 1..Len(s) /\ s[Level(catchStack[i].h)] = catchStack[i].h
    BY <1>2, OwnFrames
  <1> HIDE DEF s
  <1>5. QED
    BY <1>1, <1>3, <1>4, ScopedMove

\* TypeOK of a step of run() that keeps the rest of the store.
LEMMA TypeKept ==
  ASSUME callStack' \in Seq(ActivationType), catchStack' \in Seq(CatchType),
         exceptions' \in Seq(Tag), len' \in Nat, cap' \in Nat, high' \in Nat, refs' \in Nat,
         fuel' \in Nat \cup {None}, pendingArity' \in Nat \cup {None}, runArity' \in Nat,
         mode' \in {"ready", "running", "aborted"}, result' \in Outcomes,
         waiting' \in HostFunc \cup {None}
  PROVE  TypeOK'
  BY DEF TypeOK, ActivationType, CatchType

LEMMA EdgeStepKeeps ==
  ASSUME StoreTyped, Compute \/ Branch
  PROVE  StoreTyped'
  <1>1. TypeOK
    BY DEF StoreTyped
  <1>2. PICK kinds : /\ kinds \cap {"TryCatchPush", "TryCatchPop"} = {}
                     /\ Fetch(kinds)
                     /\ \E e \in Edges(Op, Top.pc, len) : Follow(callStack, e)
                     /\ UNCHANGED <<catchStack, exceptions, cap, pendingArity, runArity,
                                    mode, result, waiting, refs>>
    <2>1. CASE Compute
      <3>1. {"Op"} \cap {"TryCatchPush", "TryCatchPop"} = {}
        OBVIOUS
      <3>2. QED
        BY <2>1, <3>1 DEF Compute
    <2>2. CASE Branch
      <3>1. {"Jump", "JumpIf", "JumpTable", "BrOnNull", "BrOnNonNull"}
              \cap {"TryCatchPush", "TryCatchPop"} = {}
        OBVIOUS
      <3>2. QED
        BY <2>2, <3>1 DEF Branch
    <2>3. QED
      BY <2>1, <2>2
  <1>3. /\ mode = "running" /\ callStack # <<>>
        /\ Op.k \notin {"TryCatchPush", "TryCatchPop"}
        /\ fuel' \in Nat \cup {None}
    BY <1>1, <1>2, FetchFacts
  <1>4. PICK e \in Edges(Op, Top.pc, len) : Follow(callStack, e)
    BY <1>2
  <1>5. /\ callStack' = GoTo(callStack, e.pc) /\ e.pc \in Nat
        /\ callStack' \in Seq(ActivationType)
        /\ len' \in Nat /\ high' \in Nat
        /\ Typed(callStack', len', 0)
        /\ Owes(callStack', len') = Owes(callStack, len)
        /\ Scope[Top.f][e.pc] = ScopeAfter(Op, Scope[Top.f][Top.pc])
    BY <1>3, <1>4, FollowFacts
  <1>6. Scope[Top.f][e.pc] = Scope[Top.f][Top.pc]
    BY <1>3, <1>5 DEF ScopeAfter
  <1>7. Scoped(callStack', catchStack')
    BY <1>2, <1>3, <1>5, <1>6, ScopedStay
  <1>8. TypeOK'
    BY <1>1, <1>2, <1>3, <1>5, TypeFacts, TypeKept
  <1>9. runArity' = Owes(callStack', len') /\ mode' = "running"
    BY <1>2, <1>3, <1>5, Running
  <1>10. QED
    BY <1>5, <1>7, <1>8, <1>9, StaysRunning

LEMMA FailKeeps ==
  ASSUME TypeOK, NEW r, r \in Outcomes, Fail(r), fuel' \in Nat \cup {None}
  PROVE  StoreTyped'
  <1>1. /\ callStack' = <<>> /\ catchStack' = <<>> /\ len' = 0 /\ pendingArity' = None
        /\ mode' = "ready" /\ result' = r
        /\ exceptions' = exceptions /\ cap' = cap /\ runArity' = runArity
        /\ waiting' = waiting /\ high' = high /\ refs' = refs
    BY DEF Fail, GiveBack
  <1>2. <<>> \in Seq(ActivationType) /\ <<>> \in Seq(CatchType) /\ 0 \in Nat
    OBVIOUS
  <1>3. TypeOK'
    BY <1>1, <1>2, TypeFacts, TypeKept
  <1>4. QED
    BY <1>1, <1>3, NothingLeft

LEMMA CompleteKeeps ==
  ASSUME StoreTyped, Complete
  PROVE  StoreTyped'
  <1>1. /\ mode = "running" /\ callStack = <<>>
        /\ len' = len - runArity /\ pendingArity' = None
        /\ mode' = "ready" /\ result' = "completed"
        /\ callStack' = callStack /\ catchStack' = catchStack /\ exceptions' = exceptions
        /\ cap' = cap /\ fuel' = fuel /\ runArity' = runArity
        /\ waiting' = waiting /\ high' = high /\ refs' = refs
    BY DEF Complete, GiveBack
  <1>2. TypeOK /\ Scoped(callStack, catchStack) /\ runArity = Owes(callStack, len)
    BY <1>1, Running
  <1>3. len \in Int /\ catchStack \in Seq(CatchType)
    BY <1>2, TypeFacts
  <1>4. len' = 0
    BY <1>1, <1>2, <1>3 DEF Owes
  <1>5. \A i \in 1..Len(catchStack) : catchStack[i].depth \in 1..Len(callStack)
    BY <1>2 DEF Scoped, InScope
  <1>6. catchStack = <<>>
    <2>1. Len(callStack) = 0
      BY <1>1
    <2>2. Len(catchStack) \in Nat /\ (1 \in 1..Len(catchStack) => FALSE)
      BY <1>3, <1>5, <2>1, LenProperties
    <2>3. QED
      BY <1>3, <2>2, EmptySeq
  <1>7. TypeOK'
    BY <1>1, <1>2, <1>4, TypeFacts, TypeKept DEF Outcomes
  <1>8. QED
    BY <1>1, <1>4, <1>6, <1>7, NothingLeft

LEMMA OutOfFuelKeeps ==
  ASSUME StoreTyped, OutOfFuel
  PROVE  StoreTyped'
  <1>1. /\ mode = "running" /\ callStack # <<>>
        /\ pendingArity' = runArity /\ mode' = "ready" /\ result' = "fuel"
        /\ callStack' = callStack /\ catchStack' = catchStack /\ exceptions' = exceptions
        /\ len' = len /\ cap' = cap /\ fuel' = fuel /\ runArity' = runArity
        /\ waiting' = waiting /\ high' = high /\ refs' = refs
    BY DEF OutOfFuel, GiveBack
  <1>2. /\ TypeOK /\ Scoped(callStack, catchStack) /\ Typed(callStack, len, 0)
        /\ runArity = Owes(callStack, len)
    BY <1>1, Running
  <1>3. TypeOK'
    BY <1>1, <1>2, TypeFacts, TypeKept DEF Outcomes
  <1>4. AwaitedResults' = 0
    BY <1>1 DEF AwaitedResults, AwaitingHost
  <1>5. HeightsKept' /\ CatchFramesInScope'
    BY <1>1, <1>2, <1>4 DEF HeightsKept, CatchFramesInScope
  <1>6. pendingArity' # None
    BY <1>1, <1>2, TypeFacts DEF None
  <1>7. EndedIsClean'
    BY <1>6 DEF EndedIsClean
  <1>8. len \in Int
    BY <1>2, TypeFacts
  <1>9. Owes(callStack', len' + AwaitedResults') = Owes(callStack, len)
    BY <1>1, <1>4, <1>8 DEF Owes
  <1>10. ArityKept'
    BY <1>1, <1>2, <1>9 DEF ArityKept, Paused
  <1>11. QED
    BY <1>3, <1>5, <1>7, <1>10 DEF StoreTyped

\* A panic leaves the stacks as they were.
LEMMA PanicKeeps ==
  ASSUME StoreTyped, mode = "running", Panic, fuel' \in Nat \cup {None}
  PROVE  StoreTyped'
  <1>1. /\ mode' = "aborted"
        /\ callStack' = callStack /\ catchStack' = catchStack /\ exceptions' = exceptions
        /\ len' = len /\ cap' = cap /\ pendingArity' = pendingArity /\ runArity' = runArity
        /\ result' = result /\ waiting' = waiting /\ high' = high /\ refs' = refs
    BY DEF Panic, store
  <1>2. TypeOK /\ Scoped(callStack, catchStack) /\ Typed(callStack, len, 0)
    BY Running
  <1>3. TypeOK'
    BY <1>1, <1>2, TypeFacts, TypeKept
  <1>4. AwaitedResults' = 0
    BY <1>1 DEF AwaitedResults, AwaitingHost
  <1>5. HeightsKept' /\ CatchFramesInScope'
    BY <1>1, <1>2, <1>4 DEF HeightsKept, CatchFramesInScope
  <1>6. EndedIsClean' /\ ArityKept'
    BY <1>1 DEF EndedIsClean, ArityKept, Paused
  <1>7. QED
    BY <1>3, <1>5, <1>6 DEF StoreTyped

LEMMA TrapKeeps ==
  ASSUME StoreTyped, TrapOp \/ CallTooDeep
  PROVE  StoreTyped'
  <1>1. TypeOK
    BY DEF StoreTyped
  <1>2. Fail("trap") /\ \E kinds : Fetch(kinds)
    BY DEF TrapOp, CallTooDeep
  <1>3. fuel' \in Nat \cup {None}
    BY <1>1, <1>2, FetchFacts
  <1>4. "trap" \in Outcomes
    BY DEF Outcomes
  <1>5. QED
    BY <1>1, <1>2, <1>3, <1>4, FailKeeps

LEMMA PcPastEndKeeps ==
  ASSUME StoreTyped, PcPastEnd
  PROVE  StoreTyped'
  <1>1. mode = "running" /\ Panic /\ fuel' = fuel
    BY DEF PcPastEnd
  <1>2. fuel \in Nat \cup {None}
    BY TypeFacts DEF StoreTyped
  <1>3. QED
    BY <1>1, <1>2, PanicKeeps

\* With no execution paused the store is clean.
LEMMA IdleIsEmpty ==
  ASSUME StoreTyped, mode = "ready", pendingArity = None
  PROVE  TypeOK /\ callStack = <<>> /\ catchStack = <<>> /\ len = 0
  BY DEF StoreTyped, EndedIsClean

LEMMA InvokeKeeps ==
  ASSUME StoreTyped, NEW f \in Exported, Invoke(f)
  PROVE  StoreTyped'
  <1>1. TypeOK /\ callStack = <<>> /\ catchStack = <<>> /\ len = 0
    BY IdleIsEmpty DEF Invoke
  <1>2. f \in LocalFunc /\ f \in Func
    BY DEF Invoke, LocalFunc
  <1>3. /\ callStack' = Append(callStack, Activation(f, len))
        /\ MoveCursor(len, len + Params[f])
        /\ mode' = "running" /\ runArity' = Results[f]
        /\ catchStack' = catchStack /\ exceptions' = exceptions /\ cap' = cap
        /\ fuel' = fuel /\ pendingArity' = pendingArity /\ result' = result
        /\ waiting' = waiting /\ refs' = refs
    BY DEF Invoke, Enter
  <1>4. Params[f] \in Nat /\ Results[f] \in Nat
    BY <1>2, Arities
  <1>5. len \in Int /\ len + Params[f] \in Int /\ high \in Nat
    BY <1>1, <1>4, TypeFacts
  <1>6. len' = 0 /\ high' \in Nat
    BY <1>1, <1>3, <1>5, MoveFacts
  <1> DEFINE cs == <<>>
  <1>7. cs \in Seq(ActivationType) /\ Typed(cs, 0, Results[f])
    BY DEF Typed
  <1>8. callStack' = Append(cs, Activation(f, 0))
    BY <1>1, <1>3
  <1>9. callStack'[1].f = f /\ callStack' # <<>>
    BY <1>8 DEF Activation
  <1> HIDE DEF cs
  <1>10. callStack' \in Seq(ActivationType) /\ Typed(callStack', 0, 0)
    BY <1>2, <1>7, <1>8, TypedPush
  <1>11. Scoped(callStack', catchStack')
    <2>1. catchStack' = <<>> /\ Len(catchStack') = 0
      BY <1>1, <1>3
    <2>2. QED
      BY <2>1 DEF Scoped
  <1>12. TypeOK'
    BY <1>1, <1>3, <1>4, <1>6, <1>10, TypeFacts, TypeKept
  <1>13. runArity' = Owes(callStack', len')
    BY <1>3, <1>9 DEF Owes
  <1>14. QED
    BY <1>3, <1>6, <1>10, <1>11, <1>12, <1>13, StaysRunning

LEMMA InvokeHostKeeps ==
  ASSUME StoreTyped, NEW g \in Exported, InvokeHost(g)
  PROVE  StoreTyped'
  <1>1. pendingArity = None /\ TypeOK /\ callStack = <<>> /\ catchStack = <<>> /\ len = 0
    BY IdleIsEmpty DEF InvokeHost
  <1>2. g \in HostFunc /\ g \in Func
    BY ProgramTypeAssumption DEF InvokeHost, ProgramType
  <1>3. /\ MoveCursor(len, len + Params[g])
        /\ mode' = "ready" /\ result' = "suspended" /\ waiting' = g
        /\ callStack' = callStack /\ catchStack' = catchStack /\ exceptions' = exceptions
        /\ cap' = cap /\ fuel' = fuel /\ pendingArity' = pendingArity
        /\ runArity' = runArity /\ refs' = refs
    BY DEF InvokeHost, GiveBack, storeButLen
  <1>4. Params[g] \in Nat
    BY <1>2, Arities
  <1>5. len \in Int /\ len + Params[g] \in Int /\ high \in Nat
    BY <1>1, <1>4, TypeFacts
  <1>6. len' = 0 /\ high' \in Nat
    BY <1>1, <1>3, <1>5, MoveFacts
  <1>7. TypeOK'
    BY <1>1, <1>2, <1>3, <1>6, TypeFacts, TypeKept DEF Outcomes
  <1>8. QED
    BY <1>1, <1>3, <1>6, <1>7, NothingLeft

LEMMA ResumeKeeps ==
  ASSUME StoreTyped, Resume
  PROVE  StoreTyped'
  <1>1. mode = "ready" /\ pendingArity # None /\ result = "fuel"
    BY DEF Resume
  <1>2. /\ mode' = "running" /\ runArity' = pendingArity
        /\ callStack' = callStack /\ catchStack' = catchStack /\ exceptions' = exceptions
        /\ len' = len /\ cap' = cap /\ pendingArity' = pendingArity
        /\ fuel' = fuel /\ result' = result /\ waiting' = waiting
        /\ high' = high /\ refs' = refs
    BY DEF Resume, Enter, store
  <1>3. AwaitedResults = 0
    BY <1>1 DEF AwaitedResults, AwaitingHost
  <1>4. TypeOK /\ Typed(callStack, len, 0) /\ Scoped(callStack, catchStack)
    BY <1>3 DEF StoreTyped, HeightsKept, CatchFramesInScope
  <1>5. len \in Int /\ len + 0 = len
    BY <1>4, TypeFacts
  <1>6. pendingArity = Owes(callStack, len)
    BY <1>1, <1>3, <1>5 DEF StoreTyped, ArityKept, Paused
  <1>7. TypeOK'
    <2>1. pendingArity \in Nat
      BY <1>1, <1>4, TypeFacts
    <2>2. QED
      BY <1>2, <1>4, <2>1, TypeFacts, TypeKept
  <1>8. QED
    BY <1>2, <1>4, <1>6, <1>7, StaysRunning

LEMMA ResumeWithKeeps ==
  ASSUME StoreTyped, ResumeWith
  PROVE  StoreTyped'
  <1> DEFINE r == Results[waiting]
  <1>1. mode = "ready" /\ pendingArity # None /\ result = "suspended"
    BY DEF ResumeWith
  <1>2. /\ MoveCursor(len + r, len)
        /\ mode' = "running" /\ runArity' = pendingArity /\ waiting' = None
        /\ callStack' = callStack /\ catchStack' = catchStack /\ exceptions' = exceptions
        /\ cap' = cap /\ fuel' = fuel /\ pendingArity' = pendingArity
        /\ result' = result /\ refs' = refs
    BY DEF ResumeWith, Enter
  <1>3. AwaitedResults = r
    BY <1>1 DEF AwaitedResults, AwaitingHost
  <1>4. TypeOK /\ Typed(callStack, len, r) /\ Scoped(callStack, catchStack)
    BY <1>3 DEF StoreTyped, HeightsKept, CatchFramesInScope
  <1>5. /\ pendingArity = Owes(callStack, len + r)
        /\ waiting \in HostFunc
    BY <1>1, <1>3 DEF StoreTyped, ArityKept, Paused
  <1>6. r \in Nat
    BY <1>5, Arities, ProgramTypeAssumption DEF ProgramType
  <1> HIDE DEF r
  <1>7. len \in Int /\ len + r \in Nat /\ len + r \in Int /\ high \in Nat /\ callStack \in Seq(ActivationType)
    BY <1>4, <1>6, TypeFacts
  <1>8. len' = len + r /\ high' \in Nat
    BY <1>2, <1>7, MoveFacts
  <1>9. Typed(callStack, len + r, 0)
    BY <1>4, <1>6, <1>7, TypedPay
  <1>10. TypeOK'
    <2>1. pendingArity \in Nat
      BY <1>1, <1>4, TypeFacts
    <2>2. QED
      BY <1>2, <1>4, <1>7, <1>8, <2>1, TypeFacts, TypeKept
  <1>11. QED
    BY <1>2, <1>4, <1>5, <1>8, <1>9, <1>10, StaysRunning

\* Refuelling and restoring touch neither the values nor the activations.
LEMMA SetFuelKeeps ==
  ASSUME StoreTyped, SetFuel
  PROVE  StoreTyped'
  <1>1. /\ callStack' = callStack /\ catchStack' = catchStack /\ exceptions' = exceptions
        /\ len' = len /\ cap' = cap /\ pendingArity' = pendingArity
        /\ fuel' \in Nat \cup {None} /\ runArity' = runArity /\ mode' = mode
        /\ result' = result /\ waiting' = waiting /\ high' = high /\ refs' = refs
    BY ParametersAssumption DEF SetFuel, store
  <1>2. /\ TypeOK /\ HeightsKept /\ CatchFramesInScope /\ ArityKept /\ EndedIsClean
    BY DEF StoreTyped
  <1>3. TypeOK'
    BY <1>1, <1>2, TypeFacts, TypeKept
  <1>4. AwaitedResults' = AwaitedResults
    BY <1>1 DEF AwaitedResults, AwaitingHost
  <1>5. HeightsKept' /\ CatchFramesInScope'
    BY <1>1, <1>2, <1>4 DEF HeightsKept, CatchFramesInScope
  <1>6. ArityKept' /\ EndedIsClean'
    BY <1>1, <1>2, <1>4 DEF ArityKept, EndedIsClean, Paused
  <1>7. QED
    BY <1>3, <1>5, <1>6 DEF StoreTyped

LEMMA RestoreKeeps ==
  ASSUME StoreTyped, Restore
  PROVE  StoreTyped'
  <1>1. /\ catchStack' = <<>> /\ exceptions' = <<>>
        /\ cap' = Larger(len, MinCapacity) /\ high' = len
        /\ callStack' = callStack /\ len' = len /\ pendingArity' = pendingArity
        /\ fuel' = fuel /\ runArity' = runArity /\ mode' = mode
        /\ result' = result /\ waiting' = waiting /\ refs' = refs
    BY DEF Restore
  <1>2. /\ TypeOK /\ HeightsKept /\ ArityKept /\ EndedIsClean
    BY DEF StoreTyped
  <1>3. Larger(len, MinCapacity) \in Nat
    <2>1. len \in Nat /\ MinCapacity \in Nat
      BY <1>2, ParametersAssumption, TypeFacts
    <2>2. QED
      BY <2>1 DEF Larger
  <1>4. <<>> \in Seq(CatchType) /\ <<>> \in Seq(Tag)
    OBVIOUS
  <1>5. TypeOK'
    BY <1>1, <1>2, <1>3, <1>4, TypeFacts, TypeKept
  <1>6. AwaitedResults' = AwaitedResults
    BY <1>1 DEF AwaitedResults, AwaitingHost
  <1>7. HeightsKept'
    BY <1>1, <1>2, <1>6 DEF HeightsKept
  <1>8. CatchFramesInScope'
    <2>1. Scoped(callStack', <<>>)
      BY DEF Scoped
    <2>2. QED
      BY <1>1, <2>1 DEF CatchFramesInScope
  <1>9. ArityKept' /\ EndedIsClean'
    BY <1>1, <1>2, <1>6 DEF ArityKept, EndedIsClean, Paused
  <1>10. QED
    BY <1>5, <1>7, <1>8, <1>9 DEF StoreTyped

\* The callers of the running activation await its results at its stack_base.
LEMMA CallersAwait ==
  ASSUME StoreTyped, mode = "running", callStack # <<>>
  PROVE  /\ CallersOf(callStack) \in Seq(ActivationType)
         /\ Typed(CallersOf(callStack), Top.base, Results[Top.f])
         /\ CallersOf(callStack) = <<>> => Top.base = 0
         /\ \A n \in Int : n = Top.base + Results[Top.f] =>
              Owes(CallersOf(callStack), n) = Owes(callStack, len)
         /\ Results[Top.f] \in Nat
  <1> DEFINE D == Len(callStack)
             cs == CallersOf(callStack)
             r == Results[Top.f]
  <1>1. callStack \in Seq(ActivationType) /\ Typed(callStack, len, 0)
    BY Running, TypeFacts
  <1>2. D \in Nat /\ D >= 1 /\ D \in 1..D /\ Top = callStack[D] /\ Top.base \in Nat
    BY AtTop DEF Depth
  <1>3. r \in Nat
    BY <1>1, <1>2, StackElement
  <1>4. /\ D - 1 \in 0..D /\ cs = SubSeq(callStack, 1, D - 1)
        /\ cs \in Seq(ActivationType) /\ Len(cs) = D - 1
        /\ \A d \in 1..(D - 1) : cs[d] = callStack[d]
    BY <1>1, CallersFacts
  <1>5. D - 1 < D /\ D - 1 + 1 = D
    BY <1>2
  <1>6. Typed(SubSeq(callStack, 1, D - 1), callStack[D - 1 + 1].base,
              Results[callStack[D - 1 + 1].f])
    BY <1>1, <1>4, <1>5, TypedCut
  <1>7. Typed(cs, Top.base, r)
    BY <1>2, <1>4, <1>5, <1>6
  <1>8. callStack[1].base = 0
    BY <1>1 DEF Typed
  <1>9. Owes(callStack, len) = Results[callStack[1].f]
    BY DEF Owes
  <1> HIDE DEF cs, D
  <1>10. CASE D = 1
    <2>1. Len(cs) = 0
      BY <1>4, <1>10
    <2>2. cs = <<>>
      BY <1>4, <2>1, EmptySeq
    <2>3. Top.base = 0 /\ r = Results[callStack[1].f]
      BY <1>2, <1>8, <1>10
    <2>4. \A n \in Int : n = Top.base + r => Owes(cs, n) = Owes(callStack, len)
      BY <1>3, <1>9, <2>2, <2>3 DEF Owes
    <2>5. QED
      BY <1>3, <1>4, <1>7, <2>3, <2>4 DEF cs
  <1>11. CASE D > 1
    <2>1. 1 \in 1..(D - 1) /\ Len(cs) # 0
      BY <1>2, <1>4, <1>11
    <2>2. cs # <<>> /\ cs[1] = callStack[1]
      BY <1>4, <2>1, EmptySeq
    <2>3. \A n \in Int : Owes(cs, n) = Owes(callStack, len)
      BY <1>9, <2>2 DEF Owes
    <2>4. QED
      BY <1>3, <1>4, <1>7, <2>2, <2>3 DEF cs
  <1>12. QED
    BY <1>2, <1>10, <1>11

\* Frames of the outer activations stay when the running one is gone.
LEMMA ScopedCallers ==
  ASSUME StoreTyped, mode = "running", callStack # <<>>,
         NEW n \in 0..Len(catchStack),
         \A i \in 1..n : catchStack[i].depth <= Depth - 1
  PROVE  Scoped(CallersOf(callStack), SubSeq(catchStack, 1, n))
  <1> DEFINE ks == SubSeq(catchStack, 1, n)
             k == Depth - 1
  <1>1. /\ callStack \in Seq(ActivationType) /\ catchStack \in Seq(CatchType)
        /\ Scoped(callStack, catchStack)
    BY Running, TypeFacts
  <1>2. k \in 0..Len(callStack) /\ CallersOf(callStack) = SubSeq(callStack, 1, k)
    BY <1>1, CallersFacts DEF Depth
  <1>3. Len(ks) = n /\ \A d \in 1..n : ks[d] = catchStack[d]
    BY <1>1, PrefixFacts
  <1>4. Scoped(callStack, ks)
    BY <1>1, ScopedFewer
  <1>5. \A i \in 1..n : catchStack[i].depth <= k
    OBVIOUS
  <1> HIDE DEF ks, k
  <1>6. \A i \in 1..Len(ks) : ks[i].depth <= k
    BY <1>3, <1>5
  <1>7. Scoped(SubSeq(callStack, 1, k), ks)
    BY <1>1, <1>2, <1>4, <1>6, ScopedBelow
  <1>8. QED
    BY <1>2, <1>7 DEF ks

LEMMA ReturnKeeps ==
  ASSUME StoreTyped, Return
  PROVE  StoreTyped'
  <1> DEFINE r == Results[Top.f]
             b == Top.base
             K == Len(catchStack)
             cs == CallersOf(callStack)
  <1>1. TypeOK
    BY DEF StoreTyped
  <1>2. Fetch({"Return"})
    BY DEF Return
  <1>3. mode = "running" /\ callStack # <<>> /\ Op.k = "Return" /\ fuel' \in Nat \cup {None}
    BY <1>1, <1>2, FetchFacts
  <1>4. /\ callStack' = cs
        /\ MoveCursor(b + r, len)
        /\ catchStack' = catchStack /\ exceptions' = exceptions /\ cap' = cap
        /\ pendingArity' = pendingArity /\ runArity' = runArity /\ mode' = mode
        /\ result' = result /\ waiting' = waiting /\ refs' = refs
    BY DEF Return
  <1>5. b \in Nat /\ OpScoped(Top.f, Top.pc) /\ Op = Code[Top.f][Top.pc]
    BY <1>3, AtTop
  <1>6. /\ cs \in Seq(ActivationType) /\ Typed(cs, b, r) /\ r \in Nat
        /\ \A n \in Int : n = b + r => Owes(cs, n) = Owes(callStack, len)
    BY <1>3, CallersAwait
  <1>7. Scope[Top.f][Top.pc] = <<>>
    BY <1>3, <1>5 DEF OpScoped
  <1>8. Len(Scope[Top.f][Top.pc]) = 0
    BY <1>7
  <1>9. K \in Nat /\ catchStack \in Seq(CatchType)
    BY <1>1, TypeFacts, LenProperties
  <1>10. Depth \in Nat
    BY <1>3, AtTop
  <1>11. \A i \in 1..K : catchStack[i].depth <= Depth - 1
    BY <1>3, <1>8, <1>10, OwnFrames
  <1>12. SubSeq(catchStack, 1, K) = catchStack
    BY <1>9, SubSeqFull
  <1>13. Scoped(cs, catchStack)
    <2>1. K \in 0..Len(catchStack)
      BY <1>9
    <2> HIDE DEF K
    <2>2. Scoped(CallersOf(callStack), SubSeq(catchStack, 1, K))
      BY <1>3, <1>11, <2>1, ScopedCallers
    <2>3. QED
      BY <1>12, <2>2
  <1> HIDE DEF r, b, cs, K
  <1>14. b + r \in Nat /\ b + r \in Int /\ b \in Int /\ r \in Int
    BY <1>5, <1>6
  <1>15. len \in Int /\ high \in Nat
    BY <1>1, TypeFacts
  <1>16. len' = b + r /\ high' \in Nat
    BY <1>4, <1>14, <1>15, MoveFacts
  <1>17. Typed(cs, b + r, 0)
    BY <1>6, <1>14, TypedPay
  <1>18. TypeOK'
    BY <1>1, <1>3, <1>4, <1>6, <1>14, <1>16, TypeFacts, TypeKept
  <1>19. runArity' = Owes(callStack', len')
    BY <1>3, <1>4, <1>6, <1>14, <1>16, Running
  <1>20. QED
    BY <1>3, <1>4, <1>13, <1>16, <1>17, <1>18, <1>19, StaysRunning

\* push_function_call on top of activations that await the callee's results.
LEMMA PushKeeps ==
  ASSUME StoreTyped, mode = "running", fuel' \in Nat \cup {None},
         NEW g \in Func, NEW cs \in Seq(ActivationType), NEW n, NEW b \in Nat,
         b = n - Params[g],
         PushLocalCall(g, cs, n) \/ PushHostCall(g, cs, n),
         Typed(cs, b, Results[g]), cs = <<>> => b = 0,
         \A m \in Int : m = b + Results[g] => Owes(cs, m) = runArity,
         catchStack' \in Seq(CatchType), Scoped(cs, catchStack')
  PROVE  StoreTyped'
  <1> DEFINE r == Results[g]
  <1>1. TypeOK
    BY DEF StoreTyped
  <1>2. r \in Nat
    BY Arities
  <1>3. Owes(cs, b + r) = runArity
    BY <1>2
  <1>4. b \in Int /\ len \in Int /\ high \in Nat /\ runArity \in Nat
    BY <1>1, TypeFacts
  <1>5. CASE PushLocalCall(g, cs, n)
    <2> DEFINE a == Activation(g, b)
    <2>1. /\ g \in LocalFunc
          /\ callStack' = Append(cs, a)
          /\ MoveCursor(b, len)
          /\ exceptions' = exceptions /\ cap' = cap /\ pendingArity' = pendingArity
          /\ runArity' = runArity /\ mode' = mode /\ result' = result
          /\ waiting' = waiting /\ refs' = refs
      BY <1>5 DEF PushLocalCall
    <2>2. len' = b /\ high' \in Nat
      BY <1>4, <2>1, MoveFacts
    <2>3. callStack' \in Seq(ActivationType) /\ Typed(callStack', b, 0)
      BY <2>1, TypedPush
    <2>4. a \in ActivationType /\ a.f = g
      BY <2>1 DEF Activation, ActivationType
    <2> HIDE DEF a
    <2>5. Scoped(callStack', catchStack')
      BY <2>1, <2>4, ScopedAbove
    <2>6. TypeOK'
      BY <1>1, <2>1, <2>2, <2>3, TypeFacts, TypeKept
    <2>7. Owes(callStack', b) = runArity
      <3>1. CASE cs = <<>>
        <4>1. callStack' # <<>> /\ callStack'[1].f = g
          BY <2>1, <2>4, <3>1
        <4>2. b + r = r
          BY <1>2, <3>1
        <4>3. QED
          BY <1>3, <3>1, <4>1, <4>2 DEF Owes
      <3>2. CASE cs # <<>>
        <4>1. 1 \in 1..Len(cs)
          BY <3>2, EmptySeq, LenProperties
        <4>2. callStack' # <<>> /\ callStack'[1] = cs[1]
          BY <2>1, <2>4, <4>1, AppendFacts
        <4>3. QED
          BY <1>3, <3>2, <4>2 DEF Owes
      <3>3. QED
        BY <3>1, <3>2
    <2>8. QED
      BY <2>1, <2>2, <2>3, <2>5, <2>6, <2>7, StaysRunning
  <1>6. CASE PushHostCall(g, cs, n)
    <2>1. /\ g \in HostFunc
          /\ callStack' = cs
          /\ MoveCursor(b, len)
          /\ pendingArity' = runArity /\ waiting' = g
          /\ mode' = "ready" /\ result' = "suspended"
          /\ exceptions' = exceptions /\ cap' = cap
          /\ runArity' = runArity /\ refs' = refs
      BY <1>6 DEF PushHostCall, GiveBack
    <2>2. len' = b /\ high' \in Nat
      BY <1>4, <2>1, MoveFacts
    <2>3. TypeOK'
      BY <1>1, <2>1, <2>2, TypeFacts, TypeKept DEF Outcomes
    <2>4. pendingArity' # None
      BY <1>4, <2>1 DEF None
    <2>5. QED
      BY <1>3, <2>1, <2>2, <2>3, <2>4, Suspends
  <1>7. QED
    BY <1>5, <1>6

\* The callees of a reachable call have the arities the op was compiled for.
LEMMA CalleeFacts ==
  ASSUME NEW f \in LocalFunc, NEW pc \in Live(f), Code[f][pc].k \in CallKinds,
         NEW g \in Code[f][pc].callees
  PROVE  /\ g \in Func
         /\ Params[g] = Code[f][pc].params /\ Params[g] \in Nat
         /\ Results[g] = Code[f][pc].results /\ Results[g] \in Nat
         /\ Code[f][pc].operand \in {0, 1}
         /\ Code[f][pc].operand + Params[g] <= Height[f][pc]
  <1> DEFINE o == Code[f][pc]
  <1>1. o \in Ops /\ OpFits(f, pc)
    BY LiveOp
  <1>2. o.operand \in {0, 1} /\ g \in Func
    BY <1>1, OpFields
  <1>3. Params[g] = o.params /\ Results[g] = o.results
    BY ProgramTypeAssumption DEF ProgramType
  <1>4. Needs(o) = {o.operand + o.params}
    BY DEF Needs, CallKinds
  <1>5. o.operand + o.params <= Height[f][pc]
    BY <1>1, <1>4 DEF OpFits
  <1>6. QED
    BY <1>2, <1>3, <1>5, Arities

LEMMA CallKeeps ==
  ASSUME StoreTyped, Call
  PROVE  StoreTyped'
  <1> DEFINE f == Top.f
             next == Top.pc + 1
             cs == GoTo(callStack, next)
             n == len - Op.operand
             h == Height[Top.f][Top.pc]
  <1>1. TypeOK
    BY DEF StoreTyped
  <1>2. Fetch({"Call"}) /\ catchStack' = catchStack
    BY DEF Call
  <1>3. mode = "running" /\ callStack # <<>> /\ Op.k = "Call" /\ fuel' \in Nat \cup {None}
    BY <1>1, <1>2, FetchFacts
  <1>4. PICK g \in Op.callees : PushLocalCall(g, cs, n) \/ PushHostCall(g, cs, n)
    BY DEF Call
  <1>5. /\ Top = callStack[Len(callStack)]
        /\ f \in LocalFunc /\ Top.pc \in Live(f) /\ Top.pc \in Nat /\ Top.base \in Nat
        /\ h = len - Top.base /\ h \in Nat
        /\ Op = Code[f][Top.pc] /\ OpFits(f, Top.pc) /\ OpScoped(f, Top.pc)
    BY <1>3, AtTop
  <1>6. /\ g \in Func
        /\ Params[g] = Op.params /\ Params[g] \in Nat
        /\ Results[g] = Op.results /\ Results[g] \in Nat
        /\ Op.operand \in {0, 1} /\ Op.operand + Params[g] <= h
    BY <1>3, <1>4, <1>5, CalleeFacts DEF CallKinds
  <1>7. At(f, next, h - Op.operand - Op.params + Op.results)
    BY <1>3, <1>5 DEF OpFits
  <1>8. Scope[f][next] = Scope[f][Top.pc]
    BY <1>3, <1>5 DEF OpScoped, Within
  <1>9. len \in Nat /\ len \in Int /\ callStack \in Seq(ActivationType) /\ next \in Nat
    BY <1>1, <1>5, TypeFacts
  <1>10. Typed(callStack, len, 0) /\ runArity = Owes(callStack, len)
    BY <1>3, Running
  <1> DEFINE b == n - Params[g]
             r == Results[g]
  <1>11. b \in Nat /\ b - Top.base + r = h - Op.operand - Op.params + Op.results
    <2> DEFINE t == Top.base
               d == Op.operand
               p == Params[g]
    <2>1. len \in Nat /\ t \in Nat /\ d \in {0, 1} /\ p \in Nat /\ r \in Nat
          /\ h = len - t /\ d + p <= h
      BY <1>5, <1>6, <1>9
    <2>2. b = len - d - p
      OBVIOUS
    <2>3. Op.params = p /\ Op.results = r
      BY <1>6
    <2> HIDE DEF t, d, p, h, b, r
    <2>4. b \in Nat /\ b - t + r = h - d - p + r
      BY ONLY <2>1, <2>2
    <2>5. QED
      BY <2>3, <2>4 DEF t, d
  <1>12. b \in Int /\ r \in Int
    BY <1>6, <1>11
  <1>13. Scoped(cs, catchStack)
    BY <1>3, <1>8, <1>9, ScopedStay
  <1>14. cs \in Seq(ActivationType) /\ cs # <<>> /\ cs[1].f = callStack[1].f
    <2>1. 1 \in 1..Len(callStack)
      BY <1>3, <1>9, EmptySeq, LenProperties
    <2>2. QED
      BY <1>3, <1>9, <2>1, GoToFacts
  <1>15. At(callStack[Len(callStack)].f, next, b - callStack[Len(callStack)].base + r)
    BY <1>5, <1>7, <1>11
  <1> HIDE DEF n, b, r, next, h, f
  <1>16. Typed(GoTo(callStack, next), b, r)
    BY <1>3, <1>9, <1>10, <1>12, <1>15, TypedFollow
  <1> HIDE DEF cs
  <1>17. \A m \in Int : Owes(cs, m) = runArity
    BY <1>3, <1>9, <1>10, <1>14, OwesSame
  <1>18. Typed(cs, b, Results[g]) /\ b = n - Params[g]
    BY <1>16 DEF cs, r, b
  <1>19. catchStack' \in Seq(CatchType) /\ Scoped(cs, catchStack')
    BY <1>1, <1>2, <1>13, TypeFacts
  <1>20. QED
    BY <1>3, <1>4, <1>6, <1>11, <1>14, <1>17, <1>18, <1>19, PushKeeps

\* A tail call replaces the running activation, and its frames with it.
LEMMA ReturnCallKeeps ==
  ASSUME StoreTyped, ReturnCall
  PROVE  StoreTyped'
  <1> DEFINE f == Top.f
             b == Top.base
             cs == CallersOf(callStack)
  <1>1. TypeOK
    BY DEF StoreTyped
  <1>2. Fetch({"ReturnCall"}) /\ catchStack' = WithoutFramesOf(Depth - 1)
    BY DEF ReturnCall
  <1>3. mode = "running" /\ callStack # <<>> /\ Op.k = "ReturnCall" /\ fuel' \in Nat \cup {None}
    BY <1>1, <1>2, FetchFacts
  <1>4. PICK g \in Op.callees : \/ PushLocalCall(g, cs, b + Params[g])
                                \/ PushHostCall(g, cs, b + Params[g])
    BY DEF ReturnCall
  <1>5. /\ f \in LocalFunc /\ Top.pc \in Live(f) /\ b \in Nat /\ Depth \in Nat /\ Depth >= 1
        /\ Op = Code[f][Top.pc] /\ OpFits(f, Top.pc)
    BY <1>3, AtTop
  <1>6. g \in Func /\ Params[g] \in Nat /\ Results[g] = Op.results
    BY <1>3, <1>4, <1>5, CalleeFacts DEF CallKinds
  <1>7. Results[g] = Results[f]
    BY <1>3, <1>5, <1>6 DEF OpFits
  <1>8. /\ cs \in Seq(ActivationType) /\ Typed(cs, b, Results[f])
        /\ cs = <<>> => b = 0
        /\ \A n \in Int : n = b + Results[f] => Owes(cs, n) = Owes(callStack, len)
    BY <1>3, CallersAwait
  <1>9. catchStack \in Seq(CatchType) /\ runArity = Owes(callStack, len)
    BY <1>1, <1>3, Running, TypeFacts
  <1>10. Depth - 1 \in Nat
    BY <1>5
  <1>11. PICK n \in 0..Len(catchStack) :
           /\ catchStack' = SubSeq(catchStack, 1, n)
           /\ n = 0 \/ catchStack[n].depth <= Depth - 1
    BY <1>2, <1>9, <1>10, WithoutFramesFacts
  <1>12. \A i \in 1..n : catchStack[i].depth <= Depth - 1
    <2>1. TAKE i \in 1..n
    <2>2. i \in 1..Len(catchStack) /\ n \in 1..Len(catchStack) /\ n # 0
      BY <1>9, LenProperties
    <2>3. Scoped(callStack, catchStack)
      BY <1>3, Running
    <2>4. i = n \/ i < n
      OBVIOUS
    <2>5. i = n \/ Outside(catchStack[i], catchStack[n])
      BY <2>2, <2>3, <2>4 DEF Scoped
    <2>6. catchStack[i].depth \in Nat /\ catchStack[n].depth \in Nat
      BY <1>9, <2>2, FrameElement
    <2>7. catchStack[i].depth <= catchStack[n].depth
      BY <2>5, <2>6 DEF Outside
    <2>8. catchStack[n].depth <= Depth - 1
      BY <1>11, <2>2
    <2>9. QED
      BY ONLY <1>10, <2>6, <2>7, <2>8
  <1>13. Scoped(cs, catchStack')
    BY <1>3, <1>11, <1>12, ScopedCallers
  <1>14. catchStack' \in Seq(CatchType)
    BY <1>9, <1>11, PrefixFacts
  <1> HIDE DEF cs, b, f
  <1>15. b = b + Params[g] - Params[g]
    BY <1>5, <1>6
  <1>16. \A m \in Int : m = b + Results[g] => Owes(cs, m) = runArity
    BY <1>7, <1>8, <1>9
  <1>17. Typed(cs, b, Results[g])
    BY <1>7, <1>8
  <1>18. QED
    BY <1>3, <1>4, <1>5, <1>6, <1>8, <1>13, <1>14, <1>15, <1>16, <1>17, PushKeeps

\* What the steps that change the catch stack in run() have to show.
LEMMA CatchStepKeeps ==
  ASSUME StoreTyped, mode = "running", callStack # <<>>, fuel' \in Nat \cup {None},
         NEW e \in Edges(Op, Top.pc, len), Follow(callStack, e),
         UNCHANGED <<exceptions, cap, pendingArity, runArity, mode, result, waiting, refs>>,
         catchStack' \in Seq(CatchType),
         Scoped(GoTo(callStack, e.pc), catchStack')
  PROVE  StoreTyped'
  <1>1. TypeOK
    BY DEF StoreTyped
  <1>2. /\ callStack' = GoTo(callStack, e.pc)
        /\ callStack' \in Seq(ActivationType)
        /\ len' \in Nat /\ high' \in Nat
        /\ Typed(callStack', len', 0)
        /\ Owes(callStack', len') = Owes(callStack, len)
    BY FollowFacts
  <1>3. TypeOK'
    BY <1>1, <1>2, TypeFacts, TypeKept
  <1>4. runArity' = Owes(callStack', len')
    BY <1>2, Running
  <1>5. QED
    BY <1>2, <1>3, <1>4, StaysRunning

\* The frame a TryCatchPush installs is the innermost in scope after it.
LEMMA TryCatchPushKeeps ==
  ASSUME StoreTyped, TryCatchPush
  PROVE  StoreTyped'
  <1> DEFINE s == Scope[Top.f][Top.pc]
             c == [depth |-> Depth, restore |-> len, h |-> Op.h]
  <1>1. TypeOK
    BY DEF StoreTyped
  <1>2. Fetch({"TryCatchPush"}) /\ catchStack' = Append(catchStack, c)
    BY DEF TryCatchPush
  <1>3. /\ mode = "running" /\ callStack # <<>> /\ Op.k = "TryCatchPush"
        /\ fuel' \in Nat \cup {None}
    BY <1>1, <1>2, FetchFacts
  <1>4. PICK e \in Edges(Op, Top.pc, len) : Follow(callStack, e)
    BY DEF TryCatchPush
  <1>5. UNCHANGED <<exceptions, cap, pendingArity, runArity, mode, result, waiting, refs>>
    BY DEF TryCatchPush
  <1>6. /\ Depth \in 1..Len(callStack) /\ Depth \in Nat /\ Depth >= 1
        /\ Top = callStack[Len(callStack)]
        /\ Top.f \in LocalFunc /\ Top.pc \in Live(Top.f) /\ Top.base \in Nat
        /\ Height[Top.f][Top.pc] = len - Top.base
        /\ Op \in Ops /\ Op = Code[Top.f][Top.pc] /\ OpFits(Top.f, Top.pc)
    BY <1>3, AtTop
  <1>7. Op.h \in Handler
    BY <1>3, <1>6, OpFields
  <1>8. Site[Op.h] = [f |-> Top.f, pc |-> Top.pc]
    BY <1>3, <1>6 DEF OpFits
  <1>9. Site[Op.h].f = Top.f /\ Site[Op.h].pc = Top.pc
    BY <1>8
  <1>10. s \in Seq(Handler) /\ Len(s) \in Nat
    BY <1>6, LiveOp, LenProperties
  <1>11. Level(Op.h) = Len(s) + 1
    BY <1>9 DEF Level
  <1>12. e.pc \in Nat /\ Scope[Top.f][e.pc] = ScopeAfter(Op, s)
    BY <1>3, <1>4, FollowFacts
  <1>13. ScopeAfter(Op, s) = Append(s, Op.h)
    BY <1>3 DEF ScopeAfter
  <1> DEFINE gs == GoTo(callStack, e.pc)
             t == Scope[Top.f][e.pc]
  <1>14. /\ t = Append(s, Op.h)
         /\ Len(t) = Len(s) + 1
         /\ \A i \in 1..Len(s) : t[i] = s[i]
         /\ t[Len(s) + 1] = Op.h
    <2>1. PICK u, r, h : u = t /\ r = s /\ h = Op.h
      OBVIOUS
    <2>2. r \in Seq(Handler) /\ h \in Handler /\ u = Append(r, h)
      BY <1>7, <1>10, <1>12, <1>13, <2>1
    <2>3. /\ u = Append(r, h) /\ Len(u) = Len(r) + 1
          /\ \A i \in 1..Len(r) : u[i] = r[i]
          /\ u[Len(r) + 1] = h
      BY ONLY <2>2, AppendFacts
    <2>4. QED
      BY ONLY <2>1, <2>3
  <1>15. /\ callStack \in Seq(ActivationType) /\ catchStack \in Seq(CatchType)
         /\ len \in Nat /\ Scoped(callStack, catchStack)
    BY <1>1, <1>3, Running, TypeFacts
  <1>16. /\ Len(gs) = Len(callStack)
         /\ gs[Len(callStack)].f = Top.f /\ gs[Len(callStack)].base = Top.base
         /\ gs[Len(callStack)].pc = e.pc
    BY <1>3, <1>6, <1>12, <1>15, GoToFacts DEF Depth
  <1>17. /\ c \in CatchType /\ c.depth = Len(callStack) /\ c.h = Op.h
         /\ c.restore = len
    BY <1>6, <1>7, <1>15 DEF CatchType, Depth
  <1> HIDE DEF gs, c, s, t
  <1>18. Scoped(gs, catchStack)
    <2>1. \A i \in 1..Len(catchStack) : catchStack[i].depth = Len(callStack) =>
            /\ Level(catchStack[i].h) \in 1..Len(s)
            /\ s[Level(catchStack[i].h)] = catchStack[i].h
      BY <1>3, OwnFrames DEF Depth, s
    <2>2. \A i \in 1..Len(catchStack) : catchStack[i].depth = Len(callStack) =>
            /\ Level(catchStack[i].h) \in 1..Len(t)
            /\ t[Level(catchStack[i].h)] = catchStack[i].h
      BY <1>10, <1>14, <2>1
    <2>3. t = Scope[callStack[Len(callStack)].f][e.pc]
      BY <1>6 DEF t
    <2>4. Scoped(GoTo(callStack, e.pc), catchStack)
      BY <1>3, <1>12, <1>15, <2>2, <2>3, ScopedMove
    <2>5. QED
      BY <2>4 DEF gs
  <1>19. InScope(gs, c)
    <2>1. c.depth \in 1..Len(gs) /\ c.depth = Len(callStack)
      BY <1>6, <1>16, <1>17 DEF Depth
    <2>2. Level(c.h) \in 1..Len(t) /\ t[Level(c.h)] = c.h
      BY <1>10, <1>11, <1>14, <1>17
    <2>3. gs[c.depth].f = Site[c.h].f /\ Scope[gs[c.depth].f][gs[c.depth].pc] = t
      BY <1>9, <1>16, <1>17 DEF t
    <2>4. len = Top.base + Height[Top.f][Top.pc]
      BY <1>6, <1>15
    <2>5. c.restore = gs[c.depth].base + Height[gs[c.depth].f][Site[c.h].pc]
      BY <1>9, <1>16, <1>17, <2>4
    <2>6. QED
      BY <2>1, <2>2, <2>3, <2>5 DEF InScope
  <1>20. \A i \in 1..Len(catchStack) : Outside(catchStack[i], c)
    <2>1. TAKE i \in 1..Len(catchStack)
    <2>2. catchStack[i].depth \in 1..Len(callStack)
      BY <1>3, OwnFrames DEF Depth
    <2>3. catchStack[i].depth = Len(callStack) => Level(catchStack[i].h) \in 1..Len(s)
      BY <1>3, OwnFrames DEF Depth, s
    <2>4. Len(callStack) \in Nat
      BY <1>15, LenProperties
    <2>5. CASE catchStack[i].depth = Len(callStack)
      <3>1. Level(catchStack[i].h) < Level(c.h)
        BY <1>10, <1>11, <1>17, <2>3, <2>5
      <3>2. QED
        BY <1>17, <2>5, <3>1 DEF Outside
    <2>6. CASE catchStack[i].depth < Len(callStack)
      BY <1>17, <2>6 DEF Outside
    <2>7. QED
      BY <2>2, <2>4, <2>5, <2>6
  <1>21. Scoped(gs, Append(catchStack, c))
    BY <1>15, <1>17, <1>18, <1>19, <1>20, ScopedInstall
  <1>22. catchStack' \in Seq(CatchType) /\ Scoped(GoTo(callStack, e.pc), catchStack')
    BY <1>2, <1>15, <1>17, <1>21, AppendFacts DEF gs, c
  <1>23. QED
    BY <1>3, <1>4, <1>5, <1>22, CatchStepKeeps

\* The frame a TryCatchPop drops is the one of the try_table it ends, if any:
\* a restored store has lost it.
LEMMA TryCatchPopKeeps ==
  ASSUME StoreTyped, TryCatchPop
  PROVE  StoreTyped'
  <1> DEFINE s == Scope[Top.f][Top.pc]
             K == Len(catchStack)
  <1>1. TypeOK
    BY DEF StoreTyped
  <1>2. /\ Fetch({"TryCatchPop"})
        /\ catchStack' = IF catchStack = <<>> THEN <<>> ELSE CallersOf(catchStack)
    BY DEF TryCatchPop
  <1>3. /\ mode = "running" /\ callStack # <<>> /\ Op.k = "TryCatchPop"
        /\ fuel' \in Nat \cup {None}
    BY <1>1, <1>2, FetchFacts
  <1>4. PICK e \in Edges(Op, Top.pc, len) : Follow(callStack, e)
    BY DEF TryCatchPop
  <1>5. UNCHANGED <<exceptions, cap, pendingArity, runArity, mode, result, waiting, refs>>
    BY DEF TryCatchPop
  <1>6. /\ Top = callStack[Len(callStack)]
        /\ Top.f \in LocalFunc /\ Top.pc \in Live(Top.f)
        /\ Op = Code[Top.f][Top.pc] /\ OpScoped(Top.f, Top.pc)
    BY <1>3, AtTop
  <1>7. s \in Seq(Handler) /\ Len(s) \in Nat /\ s # <<>>
    BY <1>3, <1>6, LiveOp, LenProperties DEF OpScoped
  <1>8. e.pc \in Nat /\ Scope[Top.f][e.pc] = ScopeAfter(Op, s)
    BY <1>3, <1>4, FollowFacts
  <1>9. ScopeAfter(Op, s) = SubSeq(s, 1, Len(s) - 1)
    BY <1>3 DEF ScopeAfter
  <1> DEFINE t == Scope[Top.f][e.pc]
  <1>10. /\ Len(s) - 1 \in 0..Len(s)
         /\ Len(t) = Len(s) - 1
         /\ \A i \in 1..(Len(s) - 1) : t[i] = s[i]
    <2>0. t = SubSeq(s, 1, Len(s) - 1)
      BY <1>8, <1>9
    <2> HIDE DEF s, t
    <2>1. Len(s) - 1 \in 0..Len(s)
      BY <1>7, EmptySeq
    <2>2. QED
      BY <1>7, <2>0, <2>1, PrefixFacts
  <1>11. /\ callStack \in Seq(ActivationType) /\ catchStack \in Seq(CatchType)
         /\ Scoped(callStack, catchStack) /\ K \in Nat
    BY <1>1, <1>3, Running, TypeFacts, LenProperties
  <1>12. t = Scope[callStack[Len(callStack)].f][e.pc]
    BY <1>6
  <1>13. \A i \in 1..K :
           /\ catchStack[i].depth \in 1..Len(callStack)
           /\ catchStack[i].depth = Len(callStack) =>
                Level(catchStack[i].h) \in 1..Len(s) /\ s[Level(catchStack[i].h)] = catchStack[i].h
    BY <1>3, OwnFrames DEF Depth
  <1> HIDE DEF s, t
  <1>14. CASE catchStack = <<>>
    <2>1. catchStack' = catchStack
      BY <1>2, <1>14
    <2>2. \A i \in 1..Len(catchStack) : catchStack[i].depth = Len(callStack) =>
            /\ Level(catchStack[i].h) \in 1..Len(t)
            /\ t[Level(catchStack[i].h)] = catchStack[i].h
      BY <1>14
    <2>3. Scoped(GoTo(callStack, e.pc), catchStack)
      BY <1>3, <1>8, <1>11, <1>12, <2>2, ScopedMove
    <2>4. QED
      BY <1>3, <1>4, <1>5, <1>11, <2>1, <2>3, CatchStepKeeps
  <1>15. CASE catchStack # <<>>
    <2> DEFINE ks == SubSeq(catchStack, 1, K - 1)
    <2>1. /\ K - 1 \in 0..K /\ K \in 1..K
          /\ catchStack' = ks /\ ks \in Seq(CatchType) /\ Len(ks) = K - 1
          /\ \A i \in 1..(K - 1) : ks[i] = catchStack[i]
      <3>1. K \in 1..K
        BY <1>11, <1>15, EmptySeq
      <3>2. K - 1 \in 0..K
        BY <3>1
      <3>3. catchStack' = CallersOf(catchStack)
        BY <1>2, <1>15
      <3>4. /\ CallersOf(catchStack) = SubSeq(catchStack, 1, K - 1)
            /\ CallersOf(catchStack) \in Seq(CatchType)
            /\ Len(CallersOf(catchStack)) = K - 1
            /\ \A i \in 1..(K - 1) : CallersOf(catchStack)[i] = catchStack[i]
        BY <1>11, <1>15, CallersFacts
      <3>5. QED
        BY <3>1, <3>2, <3>3, <3>4
    <2>2. Scoped(callStack, ks)
      BY <1>11, <2>1, ScopedFewer
    <2> HIDE DEF ks
    <2>3. ASSUME NEW i \in 1..Len(ks), ks[i].depth = Len(callStack)
          PROVE  Level(ks[i].h) \in 1..Len(t) /\ t[Level(ks[i].h)] = ks[i].h
      <3> DEFINE m == Level(catchStack[i].h)
                 z == Level(catchStack[K].h)
      <3>1. i \in 1..(K - 1) /\ i \in 1..K /\ i < K /\ ks[i] = catchStack[i]
        BY <1>11, <2>1
      <3>2. Outside(catchStack[i], catchStack[K])
        BY <1>11, <2>1, <3>1 DEF Scoped
      <3>3. catchStack[i].depth = Len(callStack)
        BY <2>3, <3>1
      <3>4. catchStack[K].depth \in 1..Len(callStack)
        BY <1>13, <2>1
      <3>5. Len(callStack) \in Nat
        BY <1>11, LenProperties
      <3>6. catchStack[K].depth = Len(callStack) /\ m < z
        BY <3>2, <3>3, <3>4, <3>5 DEF Outside
      <3>7. m \in 1..Len(s) /\ s[m] = catchStack[i].h
        BY <1>13, <3>1, <3>3
      <3>8. z \in 1..Len(s)
        BY <1>13, <2>1, <3>6
      <3> HIDE DEF m, z
      <3>9. m \in 1..(Len(s) - 1)
        BY <1>7, <3>6, <3>7, <3>8
      <3>10. m \in 1..Len(t) /\ t[m] = catchStack[i].h
        BY <1>10, <3>7, <3>9
      <3>11. QED
        BY <3>1, <3>10 DEF m
    <2>4. \A i \in 1..Len(ks) : ks[i].depth = Len(callStack) =>
            Level(ks[i].h) \in 1..Len(t) /\ t[Level(ks[i].h)] = ks[i].h
      BY <2>3
    <2>6. ks \in Seq(CatchType)
      BY <2>1
    <2>7. Scoped(GoTo(callStack, e.pc), ks)
      BY <1>3, <1>8, <1>11, <1>12, <2>2, <2>4, <2>6, ScopedMove, SMTT(30), ZenonT(30)
    <2>5. QED
      BY <1>3, <1>4, <1>5, <2>1, <2>7, CatchStepKeeps
  <1>16. QED
    BY <1>14, <1>15

\* Names for the frame i that catches an exception of tag t, its clause, its
\* activation, the scope at the clause's label and the height reached there.
Landing(t, i, c, cl, a, o, full) ==
  /\ c = catchStack[i]
  /\ cl = FirstClause(c.h, t)
  /\ a = callStack[c.depth]
  /\ o = Scope[a.f][cl.target]
  /\ full = c.restore + Pushed(cl, t)

\* The activation and the clause an exception lands at.
LEMMA Caught ==
  ASSUME StoreTyped, mode = "running", callStack # <<>>,
         NEW t \in Tag, NEW i \in Catching(t),
         NEW c, NEW cl, NEW a, NEW o, NEW full, Landing(t, i, c, cl, a, o, full)
  PROVE  /\ i \in 1..Len(catchStack) /\ c.depth \in 1..Len(callStack)
         /\ cl \in ClauseType
         /\ a.base \in Nat
         /\ full \in Nat /\ full - cl.drop \in Nat
         /\ At(a.f, cl.target, full - cl.drop - a.base)
         /\ \A j \in 1..(i - 1) : catchStack[j].depth = c.depth =>
              /\ Level(catchStack[j].h) \in 1..Len(o)
              /\ o[Level(catchStack[j].h)] = catchStack[j].h
  <1> DEFINE h == c.h
             d == c.depth
             f == a.f
             s == Scope[f][a.pc]
             l == Level(h)
             n == Pushed(cl, t)
             enter == Height[f][Site[h].pc]
  <1>0. /\ c = catchStack[i]
        /\ cl = FirstClause(c.h, t)
        /\ a = callStack[c.depth]
        /\ o = Scope[a.f][cl.target]
        /\ full = c.restore + Pushed(cl, t)
    BY DEF Landing
  <1> USE <1>0
  <1>1. /\ callStack \in Seq(ActivationType) /\ catchStack \in Seq(CatchType)
        /\ Typed(callStack, len, 0) /\ Scoped(callStack, catchStack)
    BY Running, TypeFacts
  <1>2. i \in 1..Len(catchStack) /\ Matches(h, t)
    BY <1>1, LenProperties DEF Catching
  <1>3. c \in CatchType /\ h \in Handler /\ c.restore \in Nat
    BY <1>1, <1>2, ElementOfSeq, FrameElement
  <1>4. /\ d \in 1..Len(callStack) /\ f = Site[h].f
        /\ l \in 1..Len(s) /\ s[l] = h
        /\ c.restore = a.base + enter
    BY <1>1, <1>2 DEF Scoped, InScope
  <1>5. f \in LocalFunc /\ a.base \in Nat
    BY <1>1, <1>4, StackElement
  <1>6. a.pc \in Live(f)
    BY <1>1, <1>4 DEF Typed, At
  <1>7. /\ Len(Scope[f][Site[h].pc]) = l - 1
        /\ \A m \in 1..(l - 1) : Scope[f][Site[h].pc][m] = s[m]
    <2> DEFINE p == a.pc
    <2>1. p \in Live(f) /\ s = Scope[f][p] /\ l \in 1..Len(Scope[f][p]) /\ Scope[f][p][l] = h
      BY <1>4, <1>6
    <2> HIDE DEF p, l, h, f, s
    <2>2. LET u == Scope[f][p]
              g == u[l]
              v == Scope[f][Site[g].pc]
          IN  Len(v) = l - 1 /\ \A m \in 1..(l - 1) : v[m] = u[m]
      BY <1>5, <2>1, OuterScope
    <2>3. QED
      BY <2>1, <2>2
  <1>8. PICK y \in DOMAIN Clauses[h] : /\ cl = Clauses[h][y]
                                       /\ ClauseMatches(cl, t) /\ cl \in ClauseType
    BY <1>2, <1>3, FirstClauseFacts
  <1>9. ClauseFits(h, cl) /\ ClauseScoped(h, cl)
    BY <1>3, <1>8, HeightsAssumption, ScopesAssumption DEF HeightsFit, ScopesFit
  <1>10. /\ cl.drop <= enter /\ n = cl.n /\ At(f, cl.target, enter + cl.n - cl.drop)
    BY <1>4, <1>8, <1>9 DEF ClauseFits
  <1>11. o = Scope[f][Site[h].pc]
    BY <1>4, <1>8, <1>9 DEF ClauseScoped, Within
  <1>12. enter \in Nat
    <2>1. Site[h].pc \in Live(f)
      BY <1>3, <1>4, LevelNat
    <2>2. QED
      BY <1>5, <2>1, LiveOp
  <1>13. cl.n \in Nat /\ cl.drop \in Nat
    BY <1>8 DEF ClauseType
  <1>14. /\ full - cl.drop \in Nat /\ full \in Nat
         /\ full - cl.drop - a.base = enter + cl.n - cl.drop
    <2> DEFINE r == c.restore
               b == a.base
               p == cl.n
               q == cl.drop
    <2>1. r = b + enter /\ b \in Nat /\ enter \in Nat /\ p \in Nat /\ q \in Nat
          /\ q <= enter /\ n = p /\ full = r + n
      BY <1>4, <1>5, <1>10, <1>12, <1>13
    <2> HIDE DEF r, b, p, q, enter, n
    <2>2. full - q \in Nat /\ full \in Nat /\ full - q - b = enter + p - q
      BY ONLY <2>1
    <2>3. QED
      BY <2>2 DEF r, b, p, q
  <1>15. At(f, cl.target, full - cl.drop - a.base)
    BY <1>10, <1>14
  <1>16. ASSUME NEW j \in 1..(i - 1), catchStack[j].depth = d
         PROVE  /\ Level(catchStack[j].h) \in 1..Len(o)
                /\ o[Level(catchStack[j].h)] = catchStack[j].h
    <2> DEFINE m == Level(catchStack[j].h)
    <2>1. j \in 1..Len(catchStack) /\ j < i
      <3>1. Len(catchStack) \in Nat
        BY ONLY <1>1, LenProperties
      <3>2. QED
        BY ONLY <1>2, <3>1, j \in 1..(i - 1)
    <2>2. Outside(catchStack[j], c) /\ InScope(callStack, catchStack[j])
      BY <1>1, <1>2, <2>1 DEF Scoped
    <2>3. m \in 1..Len(s) /\ s[m] = catchStack[j].h
      <3>1. PICK k : k = catchStack[j]
        OBVIOUS
      <3>2. k.depth = d /\ InScope(callStack, k)
        BY <1>16, <2>2, <3>1
      <3>3. /\ Level(k.h) \in 1..Len(Scope[callStack[d].f][callStack[d].pc])
            /\ Scope[callStack[d].f][callStack[d].pc][Level(k.h)] = k.h
        BY <3>2 DEF InScope
      <3>4. QED
        BY <3>1, <3>3
    <2>4. d \in Nat
      <3>1. d \in 1..Len(callStack)
        BY <1>4
      <3>2. Len(callStack) \in Nat
        BY <1>1, LenProperties
      <3> HIDE DEF d
      <3>3. QED
        BY ONLY <3>1, <3>2
    <2>5. m < l
      <3>1. c.depth = d /\ catchStack[j].depth = d
        BY <1>16
      <3>2. catchStack[j].depth < c.depth \/ m < Level(c.h)
        BY ONLY <2>2 DEF Outside
      <3> HIDE DEF m, d
      <3>3. ~(catchStack[j].depth < c.depth)
        BY ONLY <2>4, <3>1
      <3>4. QED
        BY <3>2, <3>3
    <2>6. Len(s) \in Nat
      BY <1>5, <1>6, LiveOp, LenProperties
    <2>7. m \in 1..Len(s) /\ l \in 1..Len(s)
      BY <1>4, <2>3
    <2> HIDE DEF m, l, s
    <2>8. m \in 1..(l - 1)
      BY ONLY <2>5, <2>6, <2>7
    <2>9. QED
      BY <1>7, <1>11, <2>3, <2>8 DEF m
  <1>17. QED
    BY <1>2, <1>4, <1>5, <1>8, <1>14, <1>15, <1>16

LEMMA LandKeeps ==
  ASSUME StoreTyped, mode = "running", callStack # <<>>, fuel' \in Nat \cup {None},
         NEW t \in Tag, NEW i \in Catching(t), Land(t, i)
  PROVE  StoreTyped'
  <1>0. PICK c, cl, a, o, full : Landing(t, i, c, cl, a, o, full)
    BY DEF Landing
  <1>24. /\ c = catchStack[i] /\ cl = FirstClause(c.h, t) /\ a = callStack[c.depth]
         /\ o = Scope[a.f][cl.target] /\ full = c.restore + Pushed(cl, t)
    BY <1>0 DEF Landing
  <1> DEFINE d == c.depth
             n == full - cl.drop
             cs == SubSeq(callStack, 1, d)
             ks == SubSeq(catchStack, 1, i - 1)
             target == cl.target
  <1>1. TypeOK
    BY DEF StoreTyped
  <1>2. /\ callStack \in Seq(ActivationType) /\ catchStack \in Seq(CatchType)
        /\ exceptions \in Seq(Tag) /\ refs \in Nat /\ high \in Nat /\ len \in Nat
        /\ Typed(callStack, len, 0) /\ Scoped(callStack, catchStack)
        /\ runArity = Owes(callStack, len)
    BY <1>1, Running, TypeFacts
  <1>25. /\ i \in 1..Len(catchStack) /\ c.depth \in 1..Len(callStack)
         /\ cl \in ClauseType
         /\ a.base \in Nat
         /\ full \in Nat /\ full - cl.drop \in Nat
         /\ At(a.f, cl.target, full - cl.drop - a.base)
         /\ \A j \in 1..(i - 1) : catchStack[j].depth = c.depth =>
              /\ Level(catchStack[j].h) \in 1..Len(o)
              /\ o[Level(catchStack[j].h)] = catchStack[j].h
    BY <1>0, Caught
  <1>3. /\ i \in 1..Len(catchStack) /\ d \in 1..Len(callStack)
        /\ cl \in ClauseType /\ a.base \in Nat
        /\ n \in Nat /\ full \in Nat
        /\ At(a.f, target, n - a.base)
    BY <1>25
  <1>4. \A j \in 1..(i - 1) : catchStack[j].depth = d =>
          Level(catchStack[j].h) \in 1..Len(o) /\ o[Level(catchStack[j].h)] = catchStack[j].h
    BY <1>25
  <1>5. target \in Nat
    BY <1>3 DEF ClauseType
  <1>6. Smaller(d, Depth) = d /\ Depth \in Nat /\ Depth = Len(callStack)
    BY <1>2, <1>3, LenProperties DEF Smaller, Depth
  <1>7. /\ catchStack' = ks
        /\ callStack' = GoTo(cs, target)
        /\ MoveCursor(n, full)
        /\ cap' = cap /\ pendingArity' = pendingArity /\ runArity' = runArity
        /\ mode' = mode /\ result' = result /\ waiting' = waiting
    BY <1>6, <1>24 DEF Land
  <1>8. exceptions' \in Seq(Tag) /\ refs' \in Nat
    <2>1. Len(exceptions) + 1 \in Int /\ refs \in Int
      BY <1>2, LenProperties
    <2>2. Larger(refs, Len(exceptions) + 1) \in Nat
      <3> DEFINE m == Larger(refs, Len(exceptions) + 1)
      <3>1. m \in Int /\ m >= refs
        BY <2>1, LargerFacts
      <3> HIDE DEF m
      <3>2. m \in Nat
        BY <1>2, <3>1
      <3>3. QED
        BY <3>2 DEF m
    <2>3. Append(exceptions, t) \in Seq(Tag)
      BY <1>2
    <2>4. QED
      BY <1>2, <2>2, <2>3 DEF Land
  <1> HIDE DEF n, target
  <1>9. len' = n /\ high' \in Nat
    BY <1>2, <1>3, <1>7, MoveFacts
  <1>10. /\ i - 1 \in 0..Len(catchStack)
         /\ ks \in Seq(CatchType) /\ Len(ks) = i - 1
         /\ \A j \in 1..(i - 1) : ks[j] = catchStack[j]
    BY <1>2, <1>3, PrefixFacts
  <1>11. d \in 0..Len(callStack) /\ d \in Nat /\ d >= 1 /\ 1 \in 1..d /\ d \in 1..d
    BY <1>2, <1>3, LenProperties
  <1>12. /\ cs \in Seq(ActivationType) /\ Len(cs) = d
         /\ \A k \in 1..d : cs[k] = callStack[k]
    BY <1>2, <1>11, PrefixFacts
  <1> HIDE DEF d
  <1>13. cs # <<>> /\ cs[d] = a /\ cs[1] = callStack[1]
    BY <1>11, <1>12, <1>24, EmptySeq DEF d
  <1>14. \E m, w : Typed(cs, m, w)
    <2>1. CASE d = Len(callStack)
      <3>1. cs = callStack
        BY <1>2, <2>1, SubSeqFull
      <3>2. QED
        BY <1>2, <3>1
    <2>2. CASE d < Len(callStack)
      BY <1>2, <1>11, <2>2, TypedCut
    <2>3. QED
      BY <1>2, <1>3, <1>11, <2>1, <2>2, LenProperties
  <1>15. Scoped(cs, ks)
    <2>1. \A j \in 1..Len(ks) : ks[j].depth <= d
      <3> HIDE DEF ks
      <3>1. TAKE j \in 1..Len(ks)
      <3>2. j \in 1..Len(catchStack) /\ j < i /\ ks[j] = catchStack[j]
        BY <1>2, <1>3, <1>10, LenProperties
      <3>3. Outside(catchStack[j], c)
        BY <1>2, <1>3, <1>24, <3>2 DEF Scoped
      <3>4. catchStack[j].depth \in Nat
        BY <1>2, <3>2, FrameElement
      <3>5. catchStack[j].depth < d \/ catchStack[j].depth = d
        BY <3>3 DEF Outside, d
      <3>6. QED
        BY <1>11, <3>2, <3>4, <3>5
    <2>2. Scoped(callStack, ks)
      BY <1>2, <1>10, ScopedFewer
    <2>3. QED
      BY <1>2, <1>11, <2>1, <2>2, ScopedBelow
  <1> HIDE DEF cs, ks
  <1> DEFINE w == 0
  <1>16. At(cs[Len(cs)].f, target, n - cs[Len(cs)].base + w)
    <2>1. n - a.base + 0 = n - a.base
      BY <1>3
    <2>2. QED
      BY <1>3, <1>12, <1>13, <2>1
  <1>17. w \in Int /\ n \in Int
    BY <1>3
  <1> HIDE DEF w
  <1>18. Typed(GoTo(cs, target), n, w)
    BY <1>5, <1>12, <1>13, <1>14, <1>16, <1>17, TypedFollow
  <1>19. Scoped(GoTo(cs, target), ks)
    <2>1. o = Scope[cs[Len(cs)].f][target]
      BY <1>12, <1>13, <1>24 DEF target
    <2>2. \A j \in 1..Len(ks) : ks[j].depth = Len(cs) =>
            Level(ks[j].h) \in 1..Len(o) /\ o[Level(ks[j].h)] = ks[j].h
      BY <1>4, <1>10, <1>12
    <2>3. ks \in Seq(CatchType)
      BY <1>10
    <2>4. QED
      BY <1>5, <1>12, <1>13, <1>15, <2>1, <2>2, <2>3, ScopedMove, SMTT(30), ZenonT(30)
  <1>20. /\ callStack' \in Seq(ActivationType) /\ callStack' # <<>>
         /\ callStack'[1].f = callStack[1].f
    BY <1>5, <1>7, <1>11, <1>12, <1>13, GoToFacts
  <1>21. runArity' = Owes(callStack', len')
    BY <1>2, <1>7, <1>20, OwesSame, SMTT(30), ZenonT(30)
  <1>22. TypeOK'
    BY <1>1, <1>3, <1>7, <1>8, <1>9, <1>10, <1>20, TypeFacts, TypeKept
  <1>23. QED
    BY <1>7, <1>9, <1>18, <1>19, <1>21, <1>22, StaysRunning DEF w

LEMMA UnwindKeeps ==
  ASSUME StoreTyped, mode = "running", callStack # <<>>, fuel' \in Nat \cup {None},
         NEW t \in Tag, Unwind(t)
  PROVE  StoreTyped'
  <1>1. TypeOK /\ "exception" \in Outcomes
    BY DEF StoreTyped, Outcomes
  <1>2. CASE Fail("exception")
    BY <1>1, <1>2, FailKeeps
  <1>3. CASE \E i \in Catching(t) : Land(t, i)
    BY <1>3, LandKeeps
  <1>4. QED
    BY <1>2, <1>3 DEF Unwind

LEMMA ThrowKeeps ==
  ASSUME StoreTyped, Throw \/ ThrowRef
  PROVE  StoreTyped'
  <1>1. TypeOK
    BY DEF StoreTyped
  <1>2. CASE Throw
    <2>1. Fetch({"Throw"}) /\ Unwind(Op.tag)
      BY <1>2 DEF Throw
    <2>2. /\ mode = "running" /\ callStack # <<>> /\ Op.k = "Throw"
          /\ fuel' \in Nat \cup {None}
      BY <1>1, <2>1, FetchFacts
    <2>3. Op.tag \in Tag
      BY <2>2, AtTop, OpFields
    <2>4. QED
      BY <2>1, <2>2, <2>3, UnwindKeeps
  <1>3. CASE ThrowRef
    <2>1. Fetch({"ThrowRef"})
      BY <1>3 DEF ThrowRef
    <2>2. mode = "running" /\ callStack # <<>> /\ fuel' \in Nat \cup {None}
      BY <1>1, <2>1, FetchFacts
    <2>3. Panic \/ \E x \in DOMAIN exceptions : Unwind(exceptions[x])
      BY <1>3 DEF ThrowRef
    <2>4. exceptions \in Seq(Tag)
      BY <1>1, TypeFacts
    <2>5. ASSUME NEW x \in DOMAIN exceptions, Unwind(exceptions[x])
          PROVE  StoreTyped'
      <3>1. exceptions[x] \in Tag
        BY <2>4, ElementOfSeq
      <3>2. QED
        BY <2>2, <2>5, <3>1, UnwindKeeps
    <2>6. QED
      BY <2>2, <2>3, <2>5, PanicKeeps
  <1>4. QED
    BY <1>2, <1>3

----------------------------------------------------------------------------
(***************************************************************************)
(* The invariant.                                                          *)
(***************************************************************************)
LEMMA InitTyped == Init => StoreTyped
  <1> SUFFICES ASSUME Init PROVE StoreTyped
    OBVIOUS
  <1>1. /\ callStack = <<>> /\ catchStack = <<>> /\ exceptions = <<>>
        /\ len = 0 /\ high = 0 /\ refs = 0
        /\ cap = Larger(MaxHeight * MaxCallDepth, MinCapacity)
        /\ fuel = None /\ pendingArity = None /\ runArity = 0
        /\ mode = "ready" /\ result = "none" /\ waiting = None
    BY DEF Init
  <1>2. cap \in Nat
    <2>1. MaxHeight * MaxCallDepth \in Nat /\ MinCapacity \in Nat
      BY ParametersAssumption
    <2>2. QED
      BY <1>1, <2>1 DEF Larger
  <1>3. TypeOK
    BY <1>1, <1>2 DEF TypeOK, Outcomes
  <1>4. HeightsKept
    BY <1>1 DEF HeightsKept, Typed
  <1>5. CatchFramesInScope
    BY <1>1 DEF CatchFramesInScope, Scoped
  <1>6. ArityKept /\ EndedIsClean
    BY <1>1 DEF ArityKept, Paused, EndedIsClean
  <1>7. QED
    BY <1>3, <1>4, <1>5, <1>6 DEF StoreTyped

LEMMA StutterKeeps ==
  ASSUME StoreTyped, UNCHANGED vars
  PROVE  StoreTyped'
  <1>1. /\ callStack' = callStack /\ catchStack' = catchStack /\ exceptions' = exceptions
        /\ len' = len /\ cap' = cap /\ pendingArity' = pendingArity
        /\ fuel' = fuel /\ runArity' = runArity /\ mode' = mode
        /\ result' = result /\ waiting' = waiting /\ high' = high /\ refs' = refs
    BY DEF vars, store
  <1>2. /\ TypeOK /\ HeightsKept /\ CatchFramesInScope /\ ArityKept /\ EndedIsClean
    BY DEF StoreTyped
  <1>3. TypeOK'
    BY <1>1, <1>2, TypeFacts, TypeKept
  <1>4. AwaitedResults' = AwaitedResults
    BY <1>1 DEF AwaitedResults, AwaitingHost
  <1>5. HeightsKept' /\ CatchFramesInScope'
    BY <1>1, <1>2, <1>4 DEF HeightsKept, CatchFramesInScope
  <1>6. ArityKept' /\ EndedIsClean'
    BY <1>1, <1>2, <1>4 DEF ArityKept, EndedIsClean, Paused
  <1>7. QED
    BY <1>3, <1>5, <1>6 DEF StoreTyped

LEMMA NextKeeps ==
  ASSUME StoreTyped, [Next \/ Restore]_vars
  PROVE  StoreTyped'
  <1>1. CASE Complete
    BY <1>1, CompleteKeeps
  <1>2. CASE OutOfFuel
    BY <1>2, OutOfFuelKeeps
  <1>3. CASE PcPastEnd
    BY <1>3, PcPastEndKeeps
  <1>4. CASE Compute \/ Branch
    BY <1>4, EdgeStepKeeps
  <1>5. CASE TrapOp \/ CallTooDeep
    BY <1>5, TrapKeeps
  <1>6. CASE Call
    BY <1>6, CallKeeps
  <1>7. CASE ReturnCall
    BY <1>7, ReturnCallKeeps
  <1>8. CASE Return
    BY <1>8, ReturnKeeps
  <1>9. CASE TryCatchPush
    BY <1>9, TryCatchPushKeeps
  <1>10. CASE TryCatchPop
    BY <1>10, TryCatchPopKeeps
  <1>11. CASE Throw \/ ThrowRef
    BY <1>11, ThrowKeeps
  <1>12. CASE \E f \in Exported : Invoke(f) \/ InvokeHost(f)
    BY <1>12, InvokeKeeps, InvokeHostKeeps
  <1>13. CASE Resume
    BY <1>13, ResumeKeeps
  <1>14. CASE ResumeWith
    BY <1>14, ResumeWithKeeps
  <1>15. CASE SetFuel
    BY <1>15, SetFuelKeeps
  <1>16. CASE Restore
    BY <1>16, RestoreKeeps
  <1>17. CASE UNCHANGED vars
    BY <1>17, StutterKeeps
  <1>18. QED
    BY <1>1, <1>2, <1>3, <1>4, <1>5, <1>6, <1>7, <1>8, <1>9, <1>10, <1>11, <1>12, <1>13,
       <1>14, <1>15, <1>16, <1>17 DEF Next, Step, Embedder

(***************************************************************************)
(* The store is well typed at every moment, however often it is paused,    *)
(* serialized and restored: HeightsKept, CatchFramesInScope and            *)
(* EndedIsClean are parts of StoreTyped, with the results owed to the      *)
(* embedder (ArityKept) that make it inductive.                            *)
(***************************************************************************)
THEOREM RestoredStoreTyped == RestoreSpec => []StoreTyped
  <1>1. Init => StoreTyped
    BY InitTyped
  <1>2. StoreTyped /\ [Next \/ Restore]_vars => StoreTyped'
    BY NextKeeps
  <1>3. QED
    BY <1>1, <1>2, PTL DEF RestoreSpec

\* The same for a store that is only paused and resumed.
THEOREM StoreIsTyped == Spec => []StoreTyped
  <1>1. Init => StoreTyped
    BY InitTyped
  <1>2. StoreTyped /\ [Next]_vars => StoreTyped'
    BY NextKeeps
  <1>3. QED
    BY <1>1, <1>2, PTL DEF Spec

\* Every activation's part of the value stack has the height its pc is typed
\* with, through calls, tail calls, branches, caught exceptions, pauses and
\* restores: the ops of runtime/store.rs pop only what was pushed for them.
THEOREM RestoreKeepsHeights == RestoreSpec => []HeightsKept
  <1>1. StoreTyped => HeightsKept
    BY DEF StoreTyped
  <1>2. QED
    BY <1>1, RestoredStoreTyped, PTL

\* A call that ended, by results, trap or exception, leaves all three stacks
\* empty (finish_run, and do_return and handle_exception on the way there).
THEOREM RestoreEndsClean == RestoreSpec => []EndedIsClean
  <1>1. StoreTyped => EndedIsClean
    BY DEF StoreTyped
  <1>2. QED
    BY <1>1, RestoredStoreTyped, PTL

\* No catch frame outlives its try_table or its activation, and restoring to
\* it leaves its activation the height the try_table was entered with.
THEOREM RestoreKeepsScopes == RestoreSpec => []CatchFramesInScope
  <1>1. StoreTyped => CatchFramesInScope
    BY DEF StoreTyped
  <1>2. QED
    BY <1>1, RestoredStoreTyped, PTL

\* The stacks, the exceptions and what the embedder sees of the store are of
\* their types, restores included.
THEOREM RestoreStaysTyped == RestoreSpec => []TypeOK
  <1>1. StoreTyped => TypeOK
    BY DEF StoreTyped
  <1>2. QED
    BY <1>1, RestoredStoreTyped, PTL

----------------------------------------------------------------------------
(***************************************************************************)
(* What a store that is never restored has more than any other.  It does   *)
(* not outgrow the value stack that ensure_stack_capacity sized for        *)
(* MAX_CALL_DEPTH activations: every activation starts where those below   *)
(* it end, and none is higher than MaxHeight.  (ValueStack does no bounds  *)
(* check of its own.)  It keeps its exceptions, and so none of its steps   *)
(* panics.  It keeps a catch frame for every try_table around every        *)
(* activation's pc, and so handles exceptions, calls and returns as        *)
(* WebAssembly does: Interp implements WasmMachine.                        *)
(***************************************************************************)

----------------------------------------------------------------------------
(***************************************************************************)
(* Below(d) = d * MaxHeight.                                               *)
(***************************************************************************)
LEMMA BelowFacts ==
  /\ Below(0) = 0
  /\ \A d \in Nat : Below(d) \in Nat /\ Below(d + 1) = Below(d) + MaxHeight
  /\ \A d, e \in Nat : d <= e => Below(d) <= Below(e)
  <1>1. MaxHeight \in Nat
    BY ParametersAssumption
  <1>2. Below(0) = 0
    BY <1>1 DEF Below
  <1>3. ASSUME NEW d \in Nat
        PROVE  Below(d) \in Nat /\ Below(d + 1) = Below(d) + MaxHeight
    BY <1>1 DEF Below
  <1>4. ASSUME NEW d \in Nat, NEW e \in Nat, d <= e
        PROVE  Below(d) <= Below(e)
    <2>1. e - d \in Nat /\ e = d + (e - d)
      BY <1>4
    <2>2. e * MaxHeight = d * MaxHeight + (e - d) * MaxHeight
      BY <1>1, <2>1
    <2>3. (e - d) * MaxHeight \in Nat /\ d * MaxHeight \in Nat
      BY <1>1, <2>1
    <2>4. QED
      BY <2>2, <2>3 DEF Below
  <1>5. QED
    BY <1>2, <1>3, <1>4

LEMMA CapacityFacts ==
  /\ Capacity \in Nat
  /\ \A d \in Nat : d <= MaxCallDepth => Below(d) <= Capacity
  <1>1. MaxCallDepth \in Nat /\ MinCapacity \in Nat /\ MaxHeight \in Nat
    BY ParametersAssumption
  <1>2. Below(MaxCallDepth) = MaxHeight * MaxCallDepth
    BY <1>1 DEF Below
  <1>3. Below(MaxCallDepth) \in Nat
    BY <1>1, BelowFacts
  <1>4. Capacity \in Nat /\ Capacity >= Below(MaxCallDepth)
    BY <1>1, <1>2, <1>3 DEF Capacity, Larger
  <1>5. ASSUME NEW d \in Nat, d <= MaxCallDepth
        PROVE  Below(d) <= Capacity
    <2>1. Below(d) <= Below(MaxCallDepth) /\ Below(d) \in Nat
      BY <1>1, <1>5, BelowFacts
    <2>2. QED
      BY <1>3, <1>4, <2>1
  <1>6. QED
    BY <1>4, <1>5

----------------------------------------------------------------------------
(***************************************************************************)
(* What a typed activation with room below it reaches.                     *)
(***************************************************************************)
Roomy(cs) ==
  /\ Len(cs) <= MaxCallDepth
  /\ \A d \in 1..Len(cs) : cs[d].base <= Below(d - 1)

\* n values up to the innermost activation's typed height fit.
LEMMA TopFits ==
  ASSUME NEW cs \in Seq(ActivationType), cs # <<>>, Roomy(cs),
         NEW n \in Int, NEW h \in Int, h <= MaxHeight,
         n <= cs[Len(cs)].base + h
  PROVE  n <= Below(Len(cs)) /\ n <= Capacity
  <1> DEFINE D == Len(cs)
             b == cs[D].base
  <1>1. D \in Nat /\ D >= 1 /\ D \in 1..D
    BY EmptySeq, LenProperties
  <1>2. D <= MaxCallDepth /\ b <= Below(D - 1)
    BY <1>1 DEF Roomy
  <1>3. b \in Nat
    BY <1>1, StackElement
  <1>4. MaxHeight \in Nat
    BY ParametersAssumption
  <1>5. n <= b + h
    OBVIOUS
  <1> HIDE DEF D, b
  <1>6. D - 1 \in Nat /\ D - 1 + 1 = D
    BY <1>1
  <1>7. Below(D - 1) \in Nat /\ Below(D) = Below(D - 1) + MaxHeight /\ Below(D) \in Nat
    BY <1>1, <1>6, BelowFacts
  <1>8. n <= Below(D)
    BY <1>2, <1>3, <1>4, <1>5, <1>7
  <1>9. Below(D) <= Capacity /\ Capacity \in Nat
    BY <1>1, <1>2, CapacityFacts
  <1>10. QED
    BY <1>7, <1>8, <1>9 DEF D

\* A callee that starts within that height has room below it too.
LEMMA RoomyPush ==
  ASSUME NEW cs \in Seq(ActivationType), Roomy(cs), Len(cs) < MaxCallDepth,
         NEW a \in ActivationType, a.base <= Below(Len(cs))
  PROVE  Roomy(Append(cs, a))
  <1> DEFINE D == Len(cs)
             up == Append(cs, a)
  <1>1. /\ up \in Seq(ActivationType) /\ Len(up) = D + 1
        /\ \A d \in 1..D : up[d] = cs[d]
        /\ up[D + 1] = a
    BY AppendFacts
  <1>2. D \in Nat /\ MaxCallDepth \in Nat
    BY LenProperties, ParametersAssumption
  <1>3. \A d \in 1..D : cs[d].base <= Below(d - 1)
    BY DEF Roomy
  <1>4. a.base <= Below(D) /\ D < MaxCallDepth
    OBVIOUS
  <1>5. Roomy(up) <=> /\ D + 1 <= MaxCallDepth
                      /\ \A d \in 1..(D + 1) : up[d].base <= Below(d - 1)
    BY <1>1 DEF Roomy
  <1> HIDE DEF D, up
  <1>6. ASSUME NEW d \in 1..(D + 1)
        PROVE  up[d].base <= Below(d - 1)
    <2>1. CASE d = D + 1
      <3>1. d - 1 = D
        BY <1>2, <2>1
      <3>2. QED
        BY <1>1, <1>4, <2>1, <3>1
    <2>2. CASE d \in 1..D
      BY <1>1, <1>3, <2>2
    <2>3. QED
      BY <1>2, <2>1, <2>2
  <1>7. D + 1 <= MaxCallDepth
    BY <1>2, <1>4
  <1>8. Roomy(up)
    BY <1>5, <1>6, <1>7
  <1>9. QED
    BY <1>8 DEF up

LEMMA RoomyMove ==
  ASSUME NEW cs \in Seq(ActivationType), cs # <<>>, Roomy(cs), NEW pc \in Nat
  PROVE  Roomy(GoTo(cs, pc))
  <1>1. /\ Len(GoTo(cs, pc)) = Len(cs)
        /\ \A d \in 1..Len(cs) : GoTo(cs, pc)[d].base = cs[d].base
    BY GoToFacts
  <1>2. QED
    BY <1>1 DEF Roomy

LEMMA RoomyCut ==
  ASSUME NEW cs \in Seq(ActivationType), Roomy(cs), NEW k \in 0..Len(cs)
  PROVE  Roomy(SubSeq(cs, 1, k))
  <1> DEFINE ps == SubSeq(cs, 1, k)
             D == Len(cs)
  <1>1. Len(ps) = k /\ \A d \in 1..k : ps[d] = cs[d]
    BY PrefixFacts
  <1>2. D \in Nat /\ D <= MaxCallDepth /\ MaxCallDepth \in Nat
    BY LenProperties, ParametersAssumption DEF Roomy
  <1>3. \A d \in 1..D : cs[d].base <= Below(d - 1)
    BY DEF Roomy
  <1>4. Roomy(ps) <=> k <= MaxCallDepth /\ \A d \in 1..k : ps[d].base <= Below(d - 1)
    BY <1>1 DEF Roomy
  <1>5. k \in 0..D
    OBVIOUS
  <1> HIDE DEF ps, D
  <1>6. k <= MaxCallDepth /\ \A d \in 1..k : d \in 1..D
    BY <1>2, <1>5
  <1>7. Roomy(ps)
    BY <1>1, <1>3, <1>4, <1>6
  <1>8. QED
    BY <1>7 DEF ps

----------------------------------------------------------------------------
(***************************************************************************)
(* What RoomKept says before a step, and what the step must show.          *)
(***************************************************************************)
LEMMA RoomFacts ==
  ASSUME RoomKept
  PROVE  /\ Roomy(callStack)
         /\ runArity <= Capacity /\ pendingArity <= Capacity
         /\ cap = Capacity /\ high <= Capacity
  BY DEF RoomKept, Roomy, Depth

LEMMA RoomRests ==
  ASSUME Roomy(callStack'), runArity' <= Capacity, pendingArity' <= Capacity,
         cap' = Capacity, high' <= Capacity
  PROVE  RoomKept'
  BY DEF RoomKept, Roomy, Depth

LEMMA MoveFits ==
  ASSUME high \in Nat, high <= Capacity, NEW n \in Int, NEW peak \in Int,
         n <= Capacity, peak <= Capacity, MoveCursor(n, peak)
  PROVE  high' <= Capacity
  <1> DEFINE m == Larger(n, peak)
             top == Larger(high, m)
  <1>1. m \in Int /\ m <= Capacity
    BY CapacityFacts DEF Larger
  <1>2. high \in Int
    OBVIOUS
  <1> HIDE DEF m
  <1>3. top <= Capacity
    BY <1>1, <1>2 DEF Larger
  <1>4. high' = top
    BY DEF MoveCursor, m
  <1>5. QED
    BY <1>3, <1>4

\* While an op runs, its operands fit.
LEMMA LenFits ==
  ASSUME StoreTyped, RoomKept, mode = "running", callStack # <<>>
  PROVE  len <= Capacity /\ len <= Below(Len(callStack))
  <1>1. callStack \in Seq(ActivationType) /\ len \in Nat
    BY Running, TypeFacts
  <1>2. Roomy(callStack)
    BY RoomFacts
  <1> DEFINE h == Height[Top.f][Top.pc]
             b == callStack[Len(callStack)].base
  <1>3. /\ Top.f \in LocalFunc /\ Top.pc \in Live(Top.f)
        /\ h = len - b /\ h \in Int /\ b \in Nat
    BY AtTop
  <1>4. h <= MaxHeight
    BY <1>3, RoomAssumption
  <1>5. len \in Int /\ len <= b + h
    BY <1>1, <1>3
  <1> HIDE DEF h
  <1>6. QED
    BY <1>1, <1>2, <1>3, <1>4, <1>5, TopFits

\* So they do where an activation of cs moves to.
LEMMA AtFits ==
  ASSUME NEW cs \in Seq(ActivationType), cs # <<>>, Roomy(cs), NEW n \in Int,
         NEW f \in LocalFunc, NEW pc, NEW m \in Int, At(f, pc, m),
         n <= cs[Len(cs)].base + m
  PROVE  n <= Capacity
  <1>1. m <= MaxHeight
    BY RoomAssumption DEF At
  <1>2. QED
    BY <1>1, TopFits

----------------------------------------------------------------------------
(***************************************************************************)
(* The actions.                                                            *)
(***************************************************************************)
LEMMA EmptyRoomy == Roomy(<<>>)
  BY ParametersAssumption DEF Roomy

LEMMA FailFits ==
  ASSUME StoreTyped, RoomKept, NEW r, Fail(r)
  PROVE  RoomKept'
  <1>1. /\ callStack' = <<>> /\ pendingArity' = None
        /\ cap' = cap /\ runArity' = runArity /\ high' = high
    BY DEF Fail
  <1>2. None <= Capacity
    BY CapacityFacts DEF None
  <1>3. QED
    BY <1>1, <1>2, EmptyRoomy, RoomFacts, RoomRests

\* Returning to the embedder, or not returning at all.
LEMMA EndFits ==
  ASSUME StoreTyped, RoomKept, Complete \/ OutOfFuel \/ Panic \/ SetFuel \/ Resume
  PROVE  RoomKept'
  <1>1. /\ callStack' = callStack /\ cap' = cap /\ high' = high
        /\ runArity' = runArity \/ runArity' = pendingArity
        /\ \/ pendingArity' = None \/ pendingArity' = runArity
           \/ pendingArity' = pendingArity
    BY DEF Complete, OutOfFuel, Panic, SetFuel, Resume, Enter, store
  <1>2. None <= Capacity
    BY CapacityFacts DEF None
  <1>3. /\ Roomy(callStack) /\ runArity <= Capacity /\ pendingArity <= Capacity
        /\ cap = Capacity /\ high <= Capacity
    BY RoomFacts
  <1>4. runArity' <= Capacity /\ pendingArity' <= Capacity
    BY <1>1, <1>2, <1>3
  <1>5. Roomy(callStack') /\ cap' = Capacity /\ high' <= Capacity
    BY <1>1, <1>3
  <1>6. QED
    BY <1>4, <1>5, RoomRests

LEMMA FollowFits ==
  ASSUME StoreTyped, RoomKept, mode = "running", callStack # <<>>,
         NEW e \in Edges(Op, Top.pc, len), Follow(callStack, e),
         UNCHANGED <<cap, pendingArity, runArity>>
  PROVE  RoomKept'
  <1>1. /\ callStack \in Seq(ActivationType) /\ len \in Nat /\ high \in Nat
    BY Running, TypeFacts
  <1>2. /\ callStack' = GoTo(callStack, e.pc) /\ e.pc \in Nat
        /\ callStack' \in Seq(ActivationType) /\ callStack' # <<>>
        /\ len' \in Nat /\ Typed(callStack', len', 0)
    BY FollowFacts
  <1>3. Roomy(callStack) /\ high <= Capacity
    BY RoomFacts
  <1>4. Roomy(callStack')
    BY <1>1, <1>2, <1>3, RoomyMove
  <1>5. len' <= Capacity
    <2> DEFINE cs == callStack'
               D == Len(cs)
    <2>1. D \in Nat /\ D \in 1..D
      BY <1>2, EmptySeq, LenProperties
    <2>2. At(cs[D].f, cs[D].pc, Operands(cs, len', D) + Owed(cs, 0, D))
      BY <1>2, <2>1 DEF Typed
    <2>3. Operands(cs, len', D) = len' - cs[D].base
      BY DEF Operands
    <2>4. Owed(cs, 0, D) = 0
      BY <2>1 DEF Owed
    <2>5. cs[D].f \in LocalFunc /\ cs[D].base \in Nat
      BY <1>2, <2>1, StackElement
    <2> DEFINE m == len' - cs[D].base
    <2>6. m \in Int /\ Operands(cs, len', D) + Owed(cs, 0, D) = m /\ len' <= cs[D].base + m
      BY <1>2, <2>3, <2>4, <2>5
    <2>7. At(cs[D].f, cs[D].pc, m)
      BY <2>2, <2>6
    <2> HIDE DEF m
    <2>8. len' \in Int
      BY <1>2
    <2>9. QED
      BY <1>2, <1>4, <2>5, <2>6, <2>7, <2>8, AtFits
  <1>6. len' = e.h /\ MoveCursor(e.h, len)
    BY DEF Follow, MoveCursor
  <1>7. len \in Int /\ e.h \in Int
    BY <1>1, <1>2, <1>6
  <1>8. high' <= Capacity
    BY <1>1, <1>3, <1>5, <1>6, <1>7, LenFits, MoveFits
  <1>9. QED
    BY <1>4, <1>8, RoomFacts, RoomRests

LEMMA PushFits ==
  ASSUME StoreTyped, RoomKept, mode = "running", callStack # <<>>,
         NEW g \in Func, NEW cs \in Seq(ActivationType), Roomy(cs), NEW n, NEW b \in Nat,
         b = n - Params[g], b <= len, b <= Below(Len(cs)),
         PushLocalCall(g, cs, n) \/ PushHostCall(g, cs, n)
  PROVE  RoomKept'
  <1>1. len \in Nat /\ high \in Nat /\ len \in Int /\ b \in Int
    BY Running, TypeFacts
  <1>2. /\ runArity <= Capacity /\ pendingArity <= Capacity
        /\ cap = Capacity /\ high <= Capacity /\ len <= Capacity
    BY RoomFacts, LenFits
  <1>3. b <= Capacity
    BY <1>1, <1>2, CapacityFacts
  <1>4. MoveCursor(b, len)
    BY DEF PushLocalCall, PushHostCall
  <1>5. high' <= Capacity
    BY <1>1, <1>2, <1>3, <1>4, MoveFits
  <1>6. CASE PushLocalCall(g, cs, n)
    <2> DEFINE a == Activation(g, b)
    <2>1. /\ g \in LocalFunc /\ Len(cs) < MaxCallDepth
          /\ callStack' = Append(cs, a)
          /\ cap' = cap /\ pendingArity' = pendingArity /\ runArity' = runArity
      BY <1>6 DEF PushLocalCall
    <2>2. a \in ActivationType /\ a.base = b
      BY <2>1 DEF Activation, ActivationType
    <2> HIDE DEF a
    <2>3. Roomy(callStack')
      BY <2>1, <2>2, RoomyPush
    <2>4. QED
      BY <1>2, <1>5, <2>1, <2>3, RoomRests
  <1>7. CASE PushHostCall(g, cs, n)
    <2>1. /\ callStack' = cs
          /\ cap' = cap /\ pendingArity' = runArity /\ runArity' = runArity
      BY <1>7 DEF PushHostCall
    <2>2. QED
      BY <1>2, <1>5, <2>1, RoomRests
  <1>8. QED
    BY <1>6, <1>7

LEMMA CallFits ==
  ASSUME StoreTyped, RoomKept, Call
  PROVE  RoomKept'
  <1> DEFINE cs == GoTo(callStack, Top.pc + 1)
             n == len - Op.operand
  <1>1. TypeOK
    BY DEF StoreTyped
  <1>2. mode = "running" /\ callStack # <<>> /\ Op.k = "Call"
    BY <1>1, FetchFacts DEF Call
  <1>3. PICK g \in Op.callees : PushLocalCall(g, cs, n) \/ PushHostCall(g, cs, n)
    BY DEF Call
  <1>4. /\ Top.f \in LocalFunc /\ Top.pc \in Live(Top.f) /\ Top.pc \in Nat /\ Top.base \in Nat
        /\ Height[Top.f][Top.pc] = len - Top.base /\ Op = Code[Top.f][Top.pc]
    BY <1>2, AtTop
  <1>5. /\ g \in Func /\ Params[g] \in Nat /\ Op.operand \in {0, 1}
        /\ Op.operand + Params[g] <= Height[Top.f][Top.pc]
    BY <1>2, <1>3, <1>4, CalleeFacts DEF CallKinds
  <1>6. callStack \in Seq(ActivationType) /\ len \in Nat /\ Roomy(callStack)
    BY <1>1, TypeFacts, RoomFacts
  <1>7. Top.pc + 1 \in Nat
    BY <1>4
  <1>8. cs \in Seq(ActivationType) /\ Roomy(cs) /\ Len(cs) = Len(callStack)
    BY <1>2, <1>6, <1>7, GoToFacts, RoomyMove
  <1> DEFINE b == n - Params[g]
  <1>9. b \in Nat /\ b <= len
    <2> DEFINE t == Top.base
               o == Op.operand
               p == Params[g]
    <2>1. len \in Nat /\ t \in Nat /\ o \in {0, 1} /\ p \in Nat /\ o + p <= len - t
      BY <1>4, <1>5, <1>6
    <2>2. b = len - o - p
      OBVIOUS
    <2> HIDE DEF t, o, p, b
    <2>3. QED
      BY ONLY <2>1, <2>2
  <1>10. b <= Below(Len(cs))
    <2>1. len <= Below(Len(callStack)) /\ Below(Len(callStack)) \in Nat
      BY <1>2, <1>6, LenFits, BelowFacts, LenProperties
    <2>2. len \in Nat /\ Below(Len(cs)) = Below(Len(callStack))
      BY <1>6, <1>8
    <2> HIDE DEF b
    <2>3. QED
      BY <1>9, <2>1, <2>2
  <1>11. b = n - Params[g]
    OBVIOUS
  <1> HIDE DEF cs, n, b
  <1>12. QED
    BY <1>2, <1>3, <1>5, <1>8, <1>9, <1>10, <1>11, PushFits

\* The outer activations, and the height the running one starts at.
LEMMA CallersFit ==
  ASSUME StoreTyped, RoomKept, mode = "running", callStack # <<>>
  PROVE  /\ CallersOf(callStack) \in Seq(ActivationType)
         /\ Roomy(CallersOf(callStack))
         /\ Top.base <= Below(Len(CallersOf(callStack)))
         /\ Top.base \in Nat /\ Top.base <= len
  <1> DEFINE D == Len(callStack)
  <1>1. /\ callStack \in Seq(ActivationType) /\ len \in Nat /\ Roomy(callStack)
    BY Running, TypeFacts, RoomFacts
  <1>2. /\ D - 1 \in 0..D /\ CallersOf(callStack) = SubSeq(callStack, 1, D - 1)
        /\ CallersOf(callStack) \in Seq(ActivationType)
        /\ Len(CallersOf(callStack)) = D - 1
    BY <1>1, CallersFacts
  <1>3. D \in 1..D /\ Top = callStack[D] /\ Top.base \in Nat /\ len - Top.base \in Nat
    BY AtTop DEF Depth
  <1>4. Top.base <= Below(D - 1)
    BY <1>1, <1>3 DEF Roomy
  <1>5. Roomy(CallersOf(callStack))
    BY <1>1, <1>2, RoomyCut
  <1>6. Top.base <= len
    BY <1>1, <1>3
  <1>7. QED
    BY <1>2, <1>3, <1>4, <1>5, <1>6

LEMMA ReturnCallFits ==
  ASSUME StoreTyped, RoomKept, ReturnCall
  PROVE  RoomKept'
  <1> DEFINE cs == CallersOf(callStack)
             b == Top.base
  <1>1. TypeOK
    BY DEF StoreTyped
  <1>2. mode = "running" /\ callStack # <<>> /\ Op.k = "ReturnCall"
    BY <1>1, FetchFacts DEF ReturnCall
  <1>3. PICK g \in Op.callees : \/ PushLocalCall(g, cs, b + Params[g])
                                \/ PushHostCall(g, cs, b + Params[g])
    BY DEF ReturnCall
  <1>4. Top.f \in LocalFunc /\ Top.pc \in Live(Top.f) /\ Op = Code[Top.f][Top.pc]
    BY <1>2, AtTop
  <1>5. g \in Func /\ Params[g] \in Nat
    BY <1>2, <1>3, <1>4, CalleeFacts DEF CallKinds
  <1>6. cs \in Seq(ActivationType) /\ Roomy(cs) /\ b \in Nat /\ b <= len /\ b <= Below(Len(cs))
    BY <1>2, CallersFit
  <1> HIDE DEF cs, b
  <1>7. b = b + Params[g] - Params[g]
    BY <1>5, <1>6
  <1>8. QED
    BY <1>2, <1>3, <1>5, <1>6, <1>7, PushFits

LEMMA ReturnFits ==
  ASSUME StoreTyped, RoomKept, Return
  PROVE  RoomKept'
  <1> DEFINE b == Top.base
             r == Results[Top.f]
  <1>1. TypeOK
    BY DEF StoreTyped
  <1>2. mode = "running" /\ callStack # <<>> /\ Op.k = "Return"
    BY <1>1, FetchFacts DEF Return
  <1>3. /\ callStack' = CallersOf(callStack) /\ MoveCursor(b + r, len)
        /\ cap' = cap /\ pendingArity' = pendingArity /\ runArity' = runArity
    BY DEF Return
  <1>4. /\ b \in Nat /\ Height[Top.f][Top.pc] = len - b
        /\ Op = Code[Top.f][Top.pc] /\ OpFits(Top.f, Top.pc)
    BY <1>2, AtTop
  <1>5. r <= len - b /\ r \in Nat
    BY <1>2, <1>4, CallersAwait DEF OpFits
  <1>6. len \in Nat /\ high \in Nat
    BY <1>1, TypeFacts
  <1>7. len <= Capacity /\ high <= Capacity
    BY <1>2, LenFits, RoomFacts
  <1> HIDE DEF b, r
  <1>8. b + r \in Int /\ len \in Int /\ b + r <= len /\ b + r <= Capacity
    BY <1>4, <1>5, <1>6, <1>7, CapacityFacts
  <1>9. high' <= Capacity
    BY <1>3, <1>6, <1>7, <1>8, MoveFits
  <1>10. Roomy(callStack')
    BY <1>2, <1>3, CallersFit
  <1>11. QED
    BY <1>3, <1>9, <1>10, RoomFacts, RoomRests

LEMMA LandFits ==
  ASSUME StoreTyped, RoomKept, mode = "running", callStack # <<>>,
         NEW t \in Tag, NEW i \in Catching(t), Land(t, i)
  PROVE  RoomKept'
  <1>0. PICK c, cl, a, o, full : Landing(t, i, c, cl, a, o, full)
    BY DEF Landing
  <1>1. /\ c = catchStack[i] /\ cl = FirstClause(c.h, t) /\ a = callStack[c.depth]
        /\ full = c.restore + Pushed(cl, t)
    BY <1>0 DEF Landing
  <1>2. /\ i \in 1..Len(catchStack) /\ c.depth \in 1..Len(callStack)
        /\ cl \in ClauseType
        /\ a.base \in Nat
        /\ full \in Nat /\ full - cl.drop \in Nat
        /\ At(a.f, cl.target, full - cl.drop - a.base)
    BY <1>0, Caught
  <1> DEFINE d == c.depth
             n == full - cl.drop
             cs == SubSeq(callStack, 1, d)
  <1>3. /\ callStack \in Seq(ActivationType) /\ catchStack \in Seq(CatchType)
        /\ Scoped(callStack, catchStack) /\ high \in Nat
    BY Running, TypeFacts
  <1>4. Smaller(d, Depth) = d
    BY <1>2, <1>3, LenProperties DEF Smaller, Depth
  <1>5. /\ callStack' = GoTo(cs, cl.target) /\ MoveCursor(n, full)
        /\ cap' = cap /\ pendingArity' = pendingArity /\ runArity' = runArity
    BY <1>1, <1>4 DEF Land
  <1>6. cl.target \in Nat /\ cl.drop \in Nat
    BY <1>2 DEF ClauseType
  <1>7. d \in 0..Len(callStack) /\ d \in Nat /\ d >= 1 /\ d \in 1..d
    BY <1>2, <1>3, LenProperties
  <1>8. /\ cs \in Seq(ActivationType) /\ Len(cs) = d
        /\ \A k \in 1..d : cs[k] = callStack[k]
    BY <1>3, <1>7, PrefixFacts
  <1>9. Roomy(cs)
    BY <1>3, <1>7, RoomFacts, RoomyCut
  <1> HIDE DEF cs
  <1>10. cs # <<>> /\ cs[d] = callStack[d]
    BY <1>7, <1>8, EmptySeq
  <1>11. Roomy(callStack')
    BY <1>5, <1>6, <1>8, <1>9, <1>10, RoomyMove
  <1> DEFINE h == Height[Site[c.h].f][Site[c.h].pc] + Pushed(cl, t)
  <1>12. full = a.base + h /\ h \in Int /\ h <= MaxHeight
    <2> DEFINE enter == Height[Site[c.h].f][Site[c.h].pc]
    <2>1. c.h \in Handler /\ Matches(c.h, t)
      BY <1>1, <1>2, <1>3, FrameElement DEF Catching
    <2>2. PICK j \in DOMAIN Clauses[c.h] : cl = Clauses[c.h][j] /\ ClauseMatches(cl, t)
      BY <1>1, <2>1, FirstClauseFacts
    <2>3. enter + Pushed(cl, t) <= MaxHeight
      BY <2>1, <2>2, RoomAssumption
    <2>4. InScope(callStack, c)
      BY <1>1, <1>2, <1>3 DEF Scoped
    <2>5. a.f = Site[c.h].f /\ c.restore = a.base + enter
      BY <1>1, <2>4 DEF InScope
    <2>6. enter \in Nat
      BY <2>1, LevelNat, LiveOp
    <2>7. Pushed(cl, t) \in Nat
      <3>1. ClauseFits(c.h, cl)
        BY <2>1, <2>2, HeightsAssumption DEF HeightsFit
      <3>2. Pushed(cl, t) = cl.n
        BY <2>2, <3>1 DEF ClauseFits
      <3>3. QED
        BY <1>2, <3>2 DEF ClauseType
    <2> DEFINE p == Pushed(cl, t)
    <2>8. full = c.restore + p /\ h = enter + p
      BY <1>1
    <2> HIDE DEF enter, p, h
    <2>9. full = a.base + h /\ h \in Int /\ h <= MaxHeight
      BY <1>2, <2>3, <2>5, <2>6, <2>7, <2>8, SMTT(60) DEF p
    <2>10. QED
      BY <2>9
  <1> HIDE DEF h
  <1>13. cs[Len(cs)].base = a.base
    BY <1>1, <1>8, <1>10
  <1>14. full <= Capacity
    <2>1. full \in Int /\ full <= cs[Len(cs)].base + h
      BY <1>2, <1>12, <1>13
    <2>2. QED
      BY <1>8, <1>9, <1>10, <1>12, <2>1, TopFits
  <1>15. n \in Int /\ full \in Int /\ n <= Capacity
    BY <1>2, <1>6, <1>14, CapacityFacts
  <1>16. high' <= Capacity
    BY <1>3, <1>5, <1>14, <1>15, RoomFacts, MoveFits
  <1>17. QED
    BY <1>5, <1>11, <1>16, RoomFacts, RoomRests

LEMMA ThrowFits ==
  ASSUME StoreTyped, RoomKept, Throw \/ ThrowRef
  PROVE  RoomKept'
  <1>1. TypeOK
    BY DEF StoreTyped
  <1>2. mode = "running" /\ callStack # <<>>
    BY <1>1, FetchFacts DEF Throw, ThrowRef
  <1>3. Panic \/ \E t \in Tag : Unwind(t)
    <2>1. CASE Throw
      <3>1. Op.k = "Throw" /\ Unwind(Op.tag)
        BY <1>1, <2>1, FetchFacts DEF Throw
      <3>2. Op.tag \in Tag
        BY <1>2, <3>1, AtTop, OpFields
      <3>3. QED
        BY <3>1, <3>2
    <2>2. CASE ThrowRef
      <3>1. Panic \/ \E x \in DOMAIN exceptions : Unwind(exceptions[x])
        BY <2>2 DEF ThrowRef
      <3>2. \A x \in DOMAIN exceptions : exceptions[x] \in Tag
        BY <1>1, TypeFacts, ElementOfSeq
      <3>3. QED
        BY <3>1, <3>2
    <2>3. QED
      BY <2>1, <2>2
  <1>4. ASSUME NEW t \in Tag, Unwind(t)
        PROVE  RoomKept'
    <2>1. Fail("exception") \/ \E i \in Catching(t) : Land(t, i)
      BY <1>4 DEF Unwind
    <2>2. QED
      BY <1>2, <2>1, FailFits, LandFits
  <1>5. QED
    BY <1>3, <1>4, EndFits

LEMMA InvokeFits ==
  ASSUME StoreTyped, RoomKept, NEW f \in Exported, Invoke(f) \/ InvokeHost(f)
  PROVE  RoomKept'
  <1>1. /\ TypeOK /\ callStack = <<>> /\ len = 0
    BY IdleIsEmpty DEF Invoke, InvokeHost
  <1>2. f \in Func
    BY ParametersAssumption
  <1> DEFINE p == Params[f]
             r == Results[f]
  <1>3. p \in Nat /\ r \in Nat /\ p <= Capacity /\ r <= Capacity
    BY <1>2, Arities, RoomAssumption
  <1>4. /\ MoveCursor(len, len + p)
        /\ cap' = cap /\ pendingArity' = pendingArity
        /\ runArity' = runArity \/ runArity' = r
        /\ \/ f \in LocalFunc /\ callStack' = Append(callStack, Activation(f, len))
           \/ callStack' = callStack
    BY DEF Invoke, InvokeHost, Enter, storeButLen
  <1> HIDE DEF p, r
  <1>5. len \in Int /\ len + p \in Int /\ len <= Capacity /\ len + p <= Capacity /\ high \in Nat
    BY <1>1, <1>3, CapacityFacts, TypeFacts
  <1>6. high' <= Capacity
    BY <1>4, <1>5, RoomFacts, MoveFits
  <1>7. Roomy(callStack')
    <2>1. CASE callStack' = callStack
      BY <2>1, RoomFacts
    <2>2. CASE f \in LocalFunc /\ callStack' = Append(callStack, Activation(f, len))
      <3> DEFINE a == Activation(f, 0)
      <3>1. a \in ActivationType /\ a.base = 0
        BY <2>2 DEF Activation, ActivationType
      <3>2. callStack' = <<a>>
        BY <1>1, <2>2
      <3>3. Len(callStack') = 1 /\ callStack'[1] = a
        BY <3>2
      <3>4. 1 <= MaxCallDepth
        <4>1. Depth = 0 /\ Depth < MaxCallDepth
          BY <1>1 DEF Invoke, InvokeHost, Depth
        <4>2. QED
          BY <4>1, ParametersAssumption
      <3> HIDE DEF a
      <3>5. \A d \in 1..1 : callStack'[d].base <= Below(d - 1)
        BY <3>1, <3>3, BelowFacts
      <3>6. QED
        BY <3>3, <3>4, <3>5 DEF Roomy
    <2>3. QED
      BY <1>4, <2>1, <2>2
  <1>8. /\ runArity <= Capacity /\ pendingArity <= Capacity /\ cap = Capacity
    BY RoomFacts
  <1>9. runArity' <= Capacity /\ pendingArity' <= Capacity /\ cap' = Capacity
    BY <1>3, <1>4, <1>8
  <1>10. QED
    BY <1>6, <1>7, <1>9, RoomRests

LEMMA ResumeWithFits ==
  ASSUME StoreTyped, RoomKept, ResumeWith
  PROVE  RoomKept'
  <1> DEFINE n == len + Results[waiting]
  <1>1. /\ MoveCursor(n, len)
        /\ callStack' = callStack /\ cap' = cap
        /\ runArity' = pendingArity /\ pendingArity' = pendingArity
    BY DEF ResumeWith, Enter
  <1>2. StoreTyped'
    BY ResumeWithKeeps
  <1>3. mode' = "running"
    BY DEF ResumeWith, Enter
  <1>4. /\ TypeOK' /\ Typed(callStack', len', 0) /\ runArity' = Owes(callStack', len')
    <2>1. AwaitedResults' = 0
      BY <1>3 DEF AwaitedResults, AwaitingHost
    <2>2. QED
      BY <1>2, <1>3, <2>1 DEF StoreTyped, HeightsKept, ArityKept
  <1>5. len' = n /\ n \in Nat /\ callStack \in Seq(ActivationType)
    <2>1. len' = n
      BY <1>1 DEF MoveCursor
    <2>2. len' \in Nat /\ callStack' \in Seq(ActivationType)
      BY <1>4 DEF TypeOK, ActivationType
    <2>3. QED
      BY <1>1, <2>1, <2>2
  <1>6. /\ Roomy(callStack) /\ pendingArity <= Capacity /\ cap = Capacity /\ high <= Capacity
    BY RoomFacts
  <1>7. TypeOK /\ len \in Nat /\ high \in Nat
    BY TypeFacts DEF StoreTyped
  <1>8. n <= Capacity
    <2>1. CASE callStack = <<>>
      <3>1. Owes(callStack', len') = len'
        BY <1>1, <2>1 DEF Owes
      <3>2. QED
        BY <1>1, <1>4, <1>5, <1>6, <3>1
    <2>2. CASE callStack # <<>>
      <3> DEFINE D == Len(callStack)
                 b == callStack[D].base
                 m == n - b
      <3>1. D \in Nat /\ D \in 1..D
        BY <1>5, <2>2, EmptySeq, LenProperties
      <3>2. At(callStack[D].f, callStack[D].pc, Operands(callStack, n, D) + Owed(callStack, 0, D))
        BY <1>1, <1>4, <1>5, <3>1 DEF Typed
      <3>3. Operands(callStack, n, D) = m
        BY DEF Operands
      <3>4. Owed(callStack, 0, D) = 0
        BY <3>1 DEF Owed
      <3>5. callStack[D].f \in LocalFunc /\ b \in Nat
        BY <1>5, <3>1, StackElement
      <3> HIDE DEF n
      <3>6. m \in Int /\ m + 0 = m /\ n <= b + m /\ n \in Int
        BY <1>5, <3>5
      <3>7. At(callStack[D].f, callStack[D].pc, m)
        BY <3>2, <3>3, <3>4, <3>6
      <3> HIDE DEF m
      <3>8. QED
        BY <1>5, <1>6, <2>2, <3>5, <3>6, <3>7, AtFits
    <2>3. QED
      BY <2>1, <2>2
  <1> HIDE DEF n
  <1>9. len <= Capacity
    <2>1. len <= n
      <3>1. waiting \in HostFunc
        BY DEF ResumeWith, StoreTyped, ArityKept, Paused
      <3>2. Results[waiting] \in Nat
        BY <3>1, Arities, ProgramTypeAssumption DEF ProgramType
      <3>3. QED
        BY <1>7, <3>2 DEF n
    <2>2. QED
      BY <1>5, <1>7, <1>8, <2>1, CapacityFacts
  <1>10. high' <= Capacity
    <2>1. n \in Int /\ len \in Int
      BY <1>5, <1>7
    <2>2. QED
      BY <1>1, <1>6, <1>7, <1>8, <1>9, <2>1, MoveFits
  <1>11. QED
    BY <1>1, <1>6, <1>10, RoomRests

----------------------------------------------------------------------------
LEMMA InitFits == Init => RoomKept
  <1> SUFFICES ASSUME Init PROVE RoomKept
    OBVIOUS
  <1>1. /\ callStack = <<>> /\ cap = Capacity /\ high = 0
        /\ runArity = 0 /\ pendingArity = None
    BY DEF Init, Capacity
  <1>2. 0 <= Capacity /\ None <= Capacity
    BY CapacityFacts DEF None
  <1>3. QED
    BY <1>1, <1>2, EmptyRoomy DEF RoomKept, Roomy, Depth

LEMMA NextFits ==
  ASSUME StoreTyped, RoomKept, [Next]_vars
  PROVE  RoomKept'
  <1>1. CASE Complete \/ OutOfFuel \/ PcPastEnd \/ SetFuel \/ Resume
    BY <1>1, EndFits DEF PcPastEnd
  <1>2. CASE Compute \/ Branch \/ TryCatchPush \/ TryCatchPop
    <2>1. \E kinds : Fetch(kinds)
      BY <1>2 DEF Compute, Branch, TryCatchPush, TryCatchPop
    <2>2. mode = "running" /\ callStack # <<>>
      BY <2>1, FetchFacts DEF StoreTyped
    <2>3. PICK e \in Edges(Op, Top.pc, len) : Follow(callStack, e)
      BY <1>2 DEF Compute, Branch, TryCatchPush, TryCatchPop
    <2>4. UNCHANGED <<cap, pendingArity, runArity>>
      BY <1>2 DEF Compute, Branch, TryCatchPush, TryCatchPop
    <2>5. QED
      BY <2>2, <2>3, <2>4, FollowFits
  <1>3. CASE TrapOp \/ CallTooDeep
    BY <1>3, FailFits DEF TrapOp, CallTooDeep
  <1>4. CASE Call
    BY <1>4, CallFits
  <1>5. CASE ReturnCall
    BY <1>5, ReturnCallFits
  <1>6. CASE Return
    BY <1>6, ReturnFits
  <1>7. CASE Throw \/ ThrowRef
    BY <1>7, ThrowFits
  <1>8. CASE \E f \in Exported : Invoke(f) \/ InvokeHost(f)
    BY <1>8, InvokeFits
  <1>9. CASE ResumeWith
    BY <1>9, ResumeWithFits
  <1>10. CASE UNCHANGED vars
    <2>1. /\ callStack' = callStack /\ cap' = cap /\ high' = high
          /\ runArity' = runArity /\ pendingArity' = pendingArity
      BY <1>10 DEF vars, store
    <2>2. QED
      BY <2>1, RoomFacts, RoomRests
  <1>11. QED
    BY <1>1, <1>2, <1>3, <1>4, <1>5, <1>6, <1>7, <1>8, <1>9, <1>10
    DEF Next, Step, Embedder

(***************************************************************************)
(* The value stack of a store that is never restored is never written past *)
(* its capacity ("we track the max stack height when we compile so we can  *)
(* never overflow", runtime/stack.rs), given that max_stack_height covers  *)
(* what RoomAssumption says.                                               *)
(***************************************************************************)
THEOREM NeverOverflowing == Spec => []NeverOverflows
  <1>1. Init => StoreTyped /\ RoomKept
    BY InitTyped, InitFits
  <1>2. StoreTyped /\ RoomKept /\ [Next]_vars => StoreTyped' /\ RoomKept'
    BY NextKeeps, NextFits
  <1>3. RoomKept => NeverOverflows
    BY DEF RoomKept, NeverOverflows
  <1>4. QED
    BY <1>1, <1>2, <1>3, PTL DEF Spec

----------------------------------------------------------------------------
\* A caught exception gets a new index; those given before still resolve.
LEMMA RefsResolve ==
  ASSUME StoreTyped, ExnRefsResolve, [Next]_vars
  PROVE  ExnRefsResolve'
  <1>1. exceptions \in Seq(Tag) /\ refs \in Nat /\ Len(exceptions) \in Nat
    BY TypeFacts, LenProperties DEF StoreTyped
  <1>2. CASE exceptions' = exceptions /\ refs' = refs
    BY <1>2 DEF ExnRefsResolve
  <1>3. CASE \E t, i : Land(t, i)
    <2>1. PICK t, i : Land(t, i)
      BY <1>3
    <2>2. CASE exceptions' = Append(exceptions, t) /\ refs' = Larger(refs, Len(exceptions) + 1)
      <3>1. Len(Append(exceptions, t)) = Len(exceptions) + 1
        BY <1>1
      <3>2. Larger(refs, Len(exceptions) + 1) <= Len(exceptions) + 1
        BY <1>1 DEF Larger, ExnRefsResolve
      <3>3. QED
        BY <2>2, <3>1, <3>2 DEF ExnRefsResolve
    <2>3. QED
      BY <1>2, <2>1, <2>2 DEF Land
  <1>4. CASE Throw \/ ThrowRef
    BY <1>2, <1>3, <1>4 DEF Throw, ThrowRef, Unwind, Fail, Panic, store
  <1>5. CASE Call \/ ReturnCall
    BY <1>2, <1>5 DEF Call, ReturnCall, PushLocalCall, PushHostCall
  <1>6. CASE \/ Complete \/ OutOfFuel \/ PcPastEnd \/ Compute \/ Branch \/ TrapOp
             \/ CallTooDeep \/ Return \/ TryCatchPush \/ TryCatchPop
    BY <1>2, <1>6 DEF Complete, OutOfFuel, PcPastEnd, Compute, Branch, TrapOp,
       CallTooDeep, Return, TryCatchPush, TryCatchPop, Fail, Panic, store
  <1>7. CASE Embedder \/ UNCHANGED vars
    BY <1>2, <1>7 DEF Embedder, Invoke, InvokeHost, Resume, ResumeWith, SetFuel,
       store, storeButLen, vars
  <1>8. QED
    BY <1>4, <1>5, <1>6, <1>7 DEF Next, Step

LEMMA NoStepAborts ==
  ASSUME StoreTyped, ExnRefsResolve, NeverAborts, [Next]_vars
  PROVE  NeverAborts'
  <1>1. ASSUME mode' # mode, mode' # "ready", mode' # "running"
        PROVE  FALSE
    <2>1. PcPastEnd \/ ThrowRef
      BY <1>1 DEF Next, Step, Embedder, Complete, OutOfFuel, Compute, Branch, TrapOp,
         CallTooDeep, Call, ReturnCall, PushLocalCall, PushHostCall, Return,
         TryCatchPush, TryCatchPop, Throw, Unwind, Land, Fail, GiveBack,
         Invoke, InvokeHost, Resume, ResumeWith, SetFuel, Enter, vars
    <2>2. CASE PcPastEnd
      <3>1. mode = "running" /\ callStack # <<>> /\ Top.pc \notin DOMAIN Code[Top.f]
        BY <2>2 DEF PcPastEnd
      <3>2. QED
        BY <3>1, AtTop, LiveOp
    <2>3. CASE ThrowRef
      <3>1. PICK x \in 1..refs : \/ x \in DOMAIN exceptions /\ Unwind(exceptions[x])
                                 \/ x \notin DOMAIN exceptions
        BY <2>3 DEF ThrowRef
      <3>2. exceptions \in Seq(Tag) /\ refs \in Nat /\ Len(exceptions) \in Nat
        BY TypeFacts, LenProperties DEF StoreTyped
      <3>3. x \in DOMAIN exceptions
        BY <3>2 DEF ExnRefsResolve
      <3>4. Unwind(exceptions[x])
        BY <3>1, <3>3
      <3>5. QED
        BY <1>1, <3>4 DEF Unwind, Land, Fail, GiveBack
    <2>4. QED
      BY <2>1, <2>2, <2>3
  <1>2. QED
    BY <1>1 DEF NeverAborts

(***************************************************************************)
(* An exnref keeps denoting the exception it was created for, as long as   *)
(* the store is not restored: the exception table only grows.              *)
(***************************************************************************)
THEOREM ExnRefsResolving == Spec => []ExnRefsResolve
  <1>1. Init => ExnRefsResolve
    BY DEF Init, ExnRefsResolve
  <1>2. StoreTyped /\ ExnRefsResolve /\ [Next]_vars => ExnRefsResolve'
    BY RefsResolve
  <1>3. QED
    BY <1>1, <1>2, StoreIsTyped, PTL DEF Spec

\* No run fails the assertion at the head of its loop or indexes the
\* exception table out of range (store.rs, run and ThrowRef).
THEOREM NeverAborting == Spec => []NeverAborts
  <1>1. Init => NeverAborts
    BY DEF Init, NeverAborts
  <1>2. StoreTyped /\ ExnRefsResolve /\ NeverAborts /\ [Next]_vars => NeverAborts'
    BY NoStepAborts
  <1>3. QED
    BY <1>1, <1>2, StoreIsTyped, ExnRefsResolving, PTL DEF Spec

----------------------------------------------------------------------------
(***************************************************************************)
(* How the set of installed handlers changes.                              *)
(***************************************************************************)
\* The frames of the D outer activations in ks are also in qs.
Keeps(ks, qs, D) ==
  \A i \in 1..Len(ks) : ks[i].depth \in 1..D => \E j \in 1..Len(qs) : qs[j] = ks[i]

\* Every handler in s has a frame of activation D.
Covers(qs, D, s) ==
  \A l \in 1..Len(s) : \E j \in 1..Len(qs) : qs[j].depth = D /\ qs[j].h = s[l]

LEMMA KeepsAll == ASSUME NEW ks, NEW D PROVE Keeps(ks, ks, D)
  BY DEF Keeps

LEMMA InstalledKept ==
  ASSUME NEW cs, NEW ks, NEW qs, Installed(cs, ks), Keeps(ks, qs, Len(cs))
  PROVE  Installed(cs, qs)
  <1>1. SUFFICES ASSUME NEW d \in 1..Len(cs),
                        NEW l \in 1..Len(Scope[cs[d].f][cs[d].pc])
                 PROVE  \E j \in 1..Len(qs) :
                          qs[j].depth = d /\ qs[j].h = Scope[cs[d].f][cs[d].pc][l]
    BY DEF Installed
  <1>2. PICK i \in 1..Len(ks) : ks[i].depth = d /\ ks[i].h = Scope[cs[d].f][cs[d].pc][l]
    BY DEF Installed
  <1>3. PICK j \in 1..Len(qs) : qs[j] = ks[i]
    BY <1>2 DEF Keeps
  <1>4. QED
    BY <1>2, <1>3

\* The outer activations keep their handlers without the inner ones.
LEMMA InstalledBelow ==
  ASSUME NEW cs \in Seq(ActivationType), NEW ks, Installed(cs, ks), NEW k \in 0..Len(cs)
  PROVE  Installed(SubSeq(cs, 1, k), ks)
  <1> DEFINE ps == SubSeq(cs, 1, k)
  <1>1. Len(ps) = k /\ \A d \in 1..k : ps[d] = cs[d]
    BY PrefixFacts
  <1>2. Len(cs) \in Nat
    BY LenProperties
  <1> HIDE DEF ps
  <1>3. SUFFICES ASSUME NEW d \in 1..k,
                        NEW l \in 1..Len(Scope[ps[d].f][ps[d].pc])
                 PROVE  \E j \in 1..Len(ks) :
                          ks[j].depth = d /\ ks[j].h = Scope[ps[d].f][ps[d].pc][l]
    BY <1>1 DEF Installed, ps
  <1>4. d \in 1..Len(cs) /\ ps[d] = cs[d]
    BY <1>1, <1>2
  <1>5. QED
    BY <1>4 DEF Installed

\* A new activation is in no try_table.
LEMMA InstalledAbove ==
  ASSUME NEW cs \in Seq(ActivationType), NEW ks, Installed(cs, ks),
         NEW g \in LocalFunc, NEW b \in Nat
  PROVE  Installed(Append(cs, Activation(g, b)), ks)
  <1> DEFINE a == Activation(g, b)
             up == Append(cs, a)
             D == Len(cs)
  <1>1. a \in ActivationType /\ a.f = g /\ a.pc = 1
    BY DEF Activation, ActivationType
  <1>2. Scope[g][1] = <<>>
    BY ScopesAssumption DEF ScopesFit, Within
  <1> HIDE DEF a
  <1>3. Len(up) = D + 1 /\ (\A d \in 1..D : up[d] = cs[d]) /\ up[D + 1] = a
    BY <1>1, AppendProperties
  <1>4. D \in Nat
    BY LenProperties
  <1> HIDE DEF up, D
  <1>5. SUFFICES ASSUME NEW d \in 1..Len(up),
                        NEW l \in 1..Len(Scope[up[d].f][up[d].pc])
                 PROVE  \E j \in 1..Len(ks) :
                          ks[j].depth = d /\ ks[j].h = Scope[up[d].f][up[d].pc][l]
    BY DEF Installed, up, a
  <1>6. CASE d = D + 1
    <2>1. Scope[up[d].f][up[d].pc] = <<>>
      BY <1>1, <1>2, <1>3, <1>6
    <2>2. l \in 1..0
      BY <2>1
    <2>3. QED
      BY <2>2
  <1>7. CASE d \in 1..D
    <2>1. up[d] = cs[d] /\ d \in 1..Len(cs)
      BY <1>3, <1>7 DEF D
    <2>2. QED
      BY <2>1, SMTT(30), ZenonT(30) DEF Installed
  <1>8. QED
    BY <1>3, <1>4, <1>6, <1>7

\* The innermost activation moves to a pc whose handlers have frames, and
\* the frames of the others are kept.
LEMMA InstalledMove ==
  ASSUME NEW cs \in Seq(ActivationType), cs # <<>>, NEW ks, NEW qs, Installed(cs, ks),
         NEW pc \in Nat, Covers(qs, Len(cs), Scope[cs[Len(cs)].f][pc]),
         Keeps(ks, qs, Len(cs) - 1)
  PROVE  Installed(GoTo(cs, pc), qs)
  <1> DEFINE gs == GoTo(cs, pc)
             D == Len(cs)
  <1>1. Len(gs) = D
    BY GoToFacts
  <1>2. \A d \in 1..D : gs[d].f = cs[d].f /\ (d < D => gs[d] = cs[d])
    BY GoToFacts
  <1>3. gs[D].pc = pc
    BY GoToFacts
  <1>4. D \in Nat
    BY LenProperties
  <1> HIDE DEF gs
  <1>5. SUFFICES ASSUME NEW d \in 1..D,
                        NEW l \in 1..Len(Scope[gs[d].f][gs[d].pc])
                 PROVE  \E j \in 1..Len(qs) :
                          qs[j].depth = d /\ qs[j].h = Scope[gs[d].f][gs[d].pc][l]
    BY <1>1 DEF Installed, gs
  <1>6. CASE d = D
    <2>1. Scope[gs[d].f][gs[d].pc] = Scope[cs[D].f][pc]
      BY <1>2, <1>3, <1>6
    <2>2. QED
      BY <1>6, <2>1 DEF Covers
  <1>7. CASE d # D
    <2>1. gs[d] = cs[d] /\ d \in 1..(D - 1)
      BY <1>2, <1>4, <1>7
    <2>2. PICK i \in 1..Len(ks) : ks[i].depth = d /\ ks[i].h = Scope[cs[d].f][cs[d].pc][l]
      BY <2>1 DEF Installed
    <2>3. PICK j \in 1..Len(qs) : qs[j] = ks[i]
      BY <2>1, <2>2 DEF Keeps
    <2>4. QED
      BY <2>1, <2>2, <2>3
  <1>8. QED
    BY <1>6, <1>7

----------------------------------------------------------------------------
(***************************************************************************)
(* The actions.                                                            *)
(***************************************************************************)
\* A handler in scope is nested as deep as its place in the scope says.
LEMMA ScopeLevel ==
  ASSUME NEW f \in LocalFunc, NEW pc \in Live(f), NEW l \in 1..Len(Scope[f][pc])
  PROVE  Scope[f][pc][l] \in Handler /\ Level(Scope[f][pc][l]) = l
  <1>1. PICK h : h = Scope[f][pc][l]
    OBVIOUS
  <1>2. h \in Handler /\ Site[h].f = f /\ Len(Scope[f][Site[h].pc]) = l - 1
    BY <1>1, OuterScope
  <1>3. Level(h) = l - 1 + 1
    BY <1>2 DEF Level
  <1>4. Len(Scope[f][pc]) \in Nat
    BY LiveOp, LenProperties
  <1>5. QED
    BY <1>1, <1>2, <1>3, <1>4

\* Every try_table around the running op has its frame.
LEMMA OwnHandlers ==
  ASSUME StoreTyped, mode = "running", callStack # <<>>, Installed(callStack, catchStack)
  PROVE  Covers(catchStack, Len(callStack), Scope[Top.f][Top.pc])
  <1>1. Len(callStack) \in 1..Len(callStack) /\ Top = callStack[Len(callStack)]
    BY AtTop DEF Depth
  <1> DEFINE D == Len(callStack)
             s == Scope[callStack[D].f][callStack[D].pc]
  <1>2. \A l \in 1..Len(s) : \E j \in 1..Len(catchStack) :
          catchStack[j].depth = D /\ catchStack[j].h = s[l]
    BY <1>1 DEF Installed
  <1> HIDE DEF s
  <1>3. Covers(catchStack, D, s)
    BY <1>2 DEF Covers
  <1>4. QED
    BY <1>1, <1>3 DEF s

LEMMA StayInstalled ==
  ASSUME StoreTyped, mode = "running", callStack # <<>>, Installed(callStack, catchStack),
         NEW pc \in Nat, Scope[Top.f][pc] = Scope[Top.f][Top.pc]
  PROVE  Installed(GoTo(callStack, pc), catchStack)
  <1>1. callStack \in Seq(ActivationType)
    BY TypeFacts DEF StoreTyped
  <1>2. Scope[callStack[Len(callStack)].f][pc] = Scope[Top.f][Top.pc]
    BY DEF Top, Depth
  <1>3. Covers(catchStack, Len(callStack), Scope[callStack[Len(callStack)].f][pc])
    BY <1>2, OwnHandlers
  <1>4. Keeps(catchStack, catchStack, Len(callStack) - 1)
    BY KeepsAll
  <1>5. QED
    BY <1>1, <1>3, <1>4, InstalledMove

LEMMA EdgeInstalls ==
  ASSUME StoreTyped, Compute \/ Branch, Installed(callStack, catchStack)
  PROVE  Installed(callStack', catchStack')
  <1>1. PICK kinds : /\ kinds \cap {"TryCatchPush", "TryCatchPop"} = {}
                     /\ Fetch(kinds)
                     /\ \E e \in Edges(Op, Top.pc, len) : Follow(callStack, e)
    <2>1. CASE Compute
      <3>1. {"Op"} \cap {"TryCatchPush", "TryCatchPop"} = {}
        OBVIOUS
      <3>2. QED
        BY <2>1, <3>1 DEF Compute
    <2>2. CASE Branch
      <3>1. {"Jump", "JumpIf", "JumpTable", "BrOnNull", "BrOnNonNull"}
              \cap {"TryCatchPush", "TryCatchPop"} = {}
        OBVIOUS
      <3>2. QED
        BY <2>2, <3>1 DEF Branch
    <2>3. QED
      BY <2>1, <2>2
  <1>2. mode = "running" /\ callStack # <<>> /\ Op.k \notin {"TryCatchPush", "TryCatchPop"}
    BY <1>1 DEF Fetch
  <1>3. PICK e \in Edges(Op, Top.pc, len) : Follow(callStack, e)
    BY <1>1
  <1>4. /\ callStack' = GoTo(callStack, e.pc) /\ e.pc \in Nat
        /\ Scope[Top.f][e.pc] = ScopeAfter(Op, Scope[Top.f][Top.pc])
    BY <1>2, <1>3, FollowFacts
  <1>5. Scope[Top.f][e.pc] = Scope[Top.f][Top.pc]
    BY <1>2, <1>4 DEF ScopeAfter
  <1>6. catchStack' = catchStack
    BY DEF Compute, Branch
  <1>7. QED
    BY <1>2, <1>4, <1>5, <1>6, StayInstalled

\* A call by push_function_call on top of cs.
LEMMA PushInstalls ==
  ASSUME NEW g, NEW cs \in Seq(ActivationType), NEW n, n - Params[g] \in Nat,
         PushLocalCall(g, cs, n) \/ PushHostCall(g, cs, n),
         NEW ks, Installed(cs, ks)
  PROVE  Installed(callStack', ks)
  <1>1. CASE PushLocalCall(g, cs, n)
    <2>1. g \in LocalFunc /\ callStack' = Append(cs, Activation(g, n - Params[g]))
      BY <1>1 DEF PushLocalCall
    <2>2. QED
      BY <2>1, InstalledAbove
  <1>2. CASE PushHostCall(g, cs, n)
    BY <1>2 DEF PushHostCall
  <1>3. QED
    BY <1>1, <1>2

LEMMA CallInstalls ==
  ASSUME StoreTyped, Call, Installed(callStack, catchStack)
  PROVE  Installed(callStack', catchStack')
  <1> DEFINE next == Top.pc + 1
             cs == GoTo(callStack, next)
             n == len - Op.operand
  <1>1. mode = "running" /\ callStack # <<>> /\ Op.k = "Call" /\ catchStack' = catchStack
    BY DEF Call, Fetch
  <1>2. PICK g \in Op.callees : PushLocalCall(g, cs, n) \/ PushHostCall(g, cs, n)
    BY DEF Call
  <1>3. /\ Top.f \in LocalFunc /\ Top.pc \in Live(Top.f) /\ Top.pc \in Nat /\ Top.base \in Nat
        /\ Height[Top.f][Top.pc] = len - Top.base
        /\ Op = Code[Top.f][Top.pc] /\ OpScoped(Top.f, Top.pc)
    BY <1>1, AtTop
  <1>4. /\ Params[g] \in Nat /\ Op.operand \in {0, 1}
        /\ Op.operand + Params[g] <= Height[Top.f][Top.pc]
    BY <1>1, <1>2, <1>3, CalleeFacts DEF CallKinds
  <1>5. n - Params[g] \in Nat
    <2> DEFINE t == Top.base
               d == Op.operand
               p == Params[g]
               h == Height[Top.f][Top.pc]
    <2>1. len \in Nat
      BY TypeFacts DEF StoreTyped
    <2>2. t \in Nat /\ d \in {0, 1} /\ p \in Nat /\ h = len - t /\ d + p <= h
      BY <1>3, <1>4
    <2> HIDE DEF t, d, p, h
    <2>3. len - d - p \in Nat
      BY ONLY <2>1, <2>2
    <2>4. QED
      BY <2>3 DEF d, p
  <1>6. Scope[Top.f][next] = Scope[Top.f][Top.pc] /\ next \in Nat
    <2>1. PICK f, pc, o : f = Top.f /\ pc = Top.pc /\ o = Op
      OBVIOUS
    <2>2. OpScoped(f, pc) /\ o = Code[f][pc] /\ o.k = "Call" /\ pc \in Nat
      BY <1>1, <1>3, <2>1
    <2>3. Within(f, pc + 1, Scope[f][pc])
      BY ONLY <2>2 DEF OpScoped
    <2>4. Scope[f][pc + 1] = Scope[f][pc] /\ pc + 1 \in Nat
      BY ONLY <2>2, <2>3 DEF Within
    <2>5. QED
      BY <2>1, <2>4
  <1>7. callStack \in Seq(ActivationType)
    BY TypeFacts DEF StoreTyped
  <1> HIDE DEF next, n
  <1>8. Installed(cs, catchStack) /\ cs \in Seq(ActivationType)
    BY <1>1, <1>6, <1>7, StayInstalled, GoToFacts
  <1> HIDE DEF cs
  <1>9. QED
    BY <1>1, <1>2, <1>5, <1>8, PushInstalls

\* The frames a tail call drops are those of the activation it replaces.
LEMMA ReturnCallInstalls ==
  ASSUME StoreTyped, ReturnCall, Installed(callStack, catchStack)
  PROVE  Installed(callStack', catchStack')
  <1> DEFINE b == Top.base
             cs == CallersOf(callStack)
  <1>1. /\ mode = "running" /\ callStack # <<>> /\ Op.k = "ReturnCall"
        /\ catchStack' = WithoutFramesOf(Depth - 1)
    BY DEF ReturnCall, Fetch
  <1>2. PICK g \in Op.callees : \/ PushLocalCall(g, cs, b + Params[g])
                                \/ PushHostCall(g, cs, b + Params[g])
    BY DEF ReturnCall
  <1>3. /\ Top.f \in LocalFunc /\ Top.pc \in Live(Top.f) /\ b \in Nat
        /\ Depth \in Nat /\ Depth >= 1 /\ Op = Code[Top.f][Top.pc]
    BY <1>1, AtTop
  <1>4. Params[g] \in Nat
    BY <1>1, <1>2, <1>3, CalleeFacts DEF CallKinds
  <1>5. callStack \in Seq(ActivationType) /\ catchStack \in Seq(CatchType)
    BY TypeFacts DEF StoreTyped
  <1>6. /\ Len(callStack) - 1 \in 0..Len(callStack)
        /\ cs = SubSeq(callStack, 1, Len(callStack) - 1) /\ cs \in Seq(ActivationType)
        /\ Len(cs) = Depth - 1
    BY <1>1, <1>5, CallersFacts DEF Depth
  <1>7. Installed(cs, catchStack)
    BY <1>5, <1>6, InstalledBelow
  <1>8. Depth - 1 \in Nat
    BY <1>3
  <1>9. PICK n \in 0..Len(catchStack) :
          /\ catchStack' = SubSeq(catchStack, 1, n)
          /\ \A i \in (n + 1)..Len(catchStack) : ~(catchStack[i].depth <= Depth - 1)
    BY <1>1, <1>5, <1>8, WithoutFramesFacts
  <1>10. Len(catchStack') = n /\ \A i \in 1..n : catchStack'[i] = catchStack[i]
    BY <1>5, <1>9, PrefixFacts
  <1> HIDE DEF cs, b
  <1>11. ASSUME NEW i \in 1..Len(catchStack), catchStack[i].depth \in 1..Len(cs)
         PROVE  \E j \in 1..Len(catchStack') : catchStack'[j] = catchStack[i]
    <2>1. catchStack[i].depth <= Depth - 1
      <3>1. Len(cs) \in Nat /\ catchStack[i].depth \in 1..Len(cs)
        BY <1>6, <1>8, <1>11
      <3>2. catchStack[i].depth <= Len(cs)
        BY ONLY <3>1
      <3>3. QED
        BY <1>6, <3>2
    <2>2. Len(catchStack) \in Nat
      BY <1>5, LenProperties
    <2>3. i \in 1..n
      BY <1>9, <2>1, <2>2
    <2>4. QED
      BY <1>10, <2>3
  <1>12. Installed(cs, catchStack')
    BY <1>7, <1>11, InstalledKept DEF Keeps
  <1> DEFINE n0 == b + Params[g]
  <1>13. n0 - Params[g] \in Nat
    BY <1>3, <1>4
  <1> HIDE DEF n0
  <1>14. PushLocalCall(g, cs, n0) \/ PushHostCall(g, cs, n0)
    BY <1>2 DEF n0
  <1>15. QED
    BY <1>6, <1>12, <1>13, <1>14, PushInstalls

LEMMA ReturnInstalls ==
  ASSUME StoreTyped, Return, Installed(callStack, catchStack)
  PROVE  Installed(callStack', catchStack')
  <1>1. callStack # <<>> /\ callStack' = CallersOf(callStack) /\ catchStack' = catchStack
    BY DEF Return, Fetch
  <1>2. callStack \in Seq(ActivationType)
    BY TypeFacts DEF StoreTyped
  <1>3. /\ Len(callStack) - 1 \in 0..Len(callStack)
        /\ CallersOf(callStack) = SubSeq(callStack, 1, Len(callStack) - 1)
    BY <1>1, <1>2, CallersFacts
  <1>4. QED
    BY <1>1, <1>2, <1>3, InstalledBelow

\* A TryCatchPush installs the frame of the try_table it enters.
LEMMA TryCatchPushInstalls ==
  ASSUME StoreTyped, TryCatchPush, Installed(callStack, catchStack)
  PROVE  Installed(callStack', catchStack')
  <1> DEFINE s == Scope[Top.f][Top.pc]
             c == [depth |-> Depth, restore |-> len, h |-> Op.h]
             K == Len(catchStack)
             D == Len(callStack)
  <1>1. /\ mode = "running" /\ callStack # <<>> /\ Op.k = "TryCatchPush"
        /\ catchStack' = Append(catchStack, c)
    BY DEF TryCatchPush, Fetch
  <1>2. PICK e \in Edges(Op, Top.pc, len) : Follow(callStack, e)
    BY DEF TryCatchPush
  <1>3. /\ callStack' = GoTo(callStack, e.pc) /\ e.pc \in Nat
        /\ Scope[Top.f][e.pc] = Append(s, Op.h)
    BY <1>1, <1>2, FollowFacts DEF ScopeAfter
  <1>4. /\ Top = callStack[D] /\ Top.f \in LocalFunc /\ Top.pc \in Live(Top.f)
        /\ Op \in Ops /\ Depth = D
    BY <1>1, AtTop DEF Depth
  <1>5. callStack \in Seq(ActivationType) /\ catchStack \in Seq(CatchType) /\ len \in Nat
    BY TypeFacts DEF StoreTyped
  <1>6. Op.h \in Handler
    BY <1>1, <1>4, OpFields
  <1>7. s \in Seq(Handler) /\ Len(s) \in Nat /\ D \in Nat /\ K \in Nat
    BY <1>4, <1>5, LiveOp, LenProperties
  <1>8. c \in CatchType /\ c.depth = D /\ c.h = Op.h
    BY <1>4, <1>5, <1>6, <1>7 DEF CatchType
  <1>9. Covers(catchStack, D, s)
    BY <1>1, OwnHandlers
  <1> HIDE DEF s, c
  <1>10. /\ Len(catchStack') = K + 1 /\ catchStack'[K + 1] = c
         /\ \A i \in 1..K : catchStack'[i] = catchStack[i]
    BY <1>1, <1>5, <1>8, AppendFacts
  <1>11. PICK t : t = Append(s, Op.h)
    OBVIOUS
  <1>12. Len(t) = Len(s) + 1 /\ t[Len(s) + 1] = Op.h /\ \A l \in 1..Len(s) : t[l] = s[l]
    BY <1>6, <1>7, <1>11, AppendFacts
  <1> HIDE DEF K, D
  <1>13. \A i \in 1..K : i \in 1..(K + 1)
    BY <1>7 DEF K
  <1>14. Keeps(catchStack, catchStack', D - 1)
    BY <1>10, <1>13 DEF Keeps, K
  <1>15. Covers(catchStack', D, t)
    <2>1. SUFFICES ASSUME NEW l \in 1..(Len(s) + 1)
                   PROVE  \E j \in 1..(K + 1) :
                            catchStack'[j].depth = D /\ catchStack'[j].h = t[l]
      BY <1>10, <1>12 DEF Covers
    <2>2. CASE l = Len(s) + 1
      <3>1. K + 1 \in 1..(K + 1)
        BY <1>7 DEF K
      <3>2. QED
        BY <1>8, <1>10, <1>12, <2>2, <3>1
    <2>3. CASE l \in 1..Len(s)
      <3>1. PICK j \in 1..K : catchStack[j].depth = D /\ catchStack[j].h = s[l]
        BY <1>9, <2>3 DEF Covers, K
      <3>2. QED
        BY <1>10, <1>12, <1>13, <2>3, <3>1
    <2>4. QED
      BY <1>7, <2>2, <2>3
  <1>16. Scope[callStack[Len(callStack)].f][e.pc] = t
    BY <1>3, <1>4, <1>11 DEF D
  <1>17. QED
    BY <1>1, <1>3, <1>5, <1>14, <1>15, <1>16, InstalledMove DEF D

\* The top frame of the catch stack is the running activation's innermost
\* handler when it is in a try_table.
LEMMA TopFrame ==
  ASSUME StoreTyped, mode = "running", callStack # <<>>, Installed(callStack, catchStack),
         Scope[Top.f][Top.pc] # <<>>
  PROVE  LET s == Scope[Top.f][Top.pc]
             K == Len(catchStack)
         IN  /\ K \in 1..K
             /\ catchStack[K].depth = Len(callStack)
             /\ Level(catchStack[K].h) = Len(s) /\ catchStack[K].h = s[Len(s)]
  <1> DEFINE s == Scope[Top.f][Top.pc]
             K == Len(catchStack)
             D == Len(callStack)
             n == Len(s)
  <1>1. callStack \in Seq(ActivationType) /\ catchStack \in Seq(CatchType)
        /\ Scoped(callStack, catchStack)
    BY Running, TypeFacts
  <1>2. Top.f \in LocalFunc /\ Top.pc \in Live(Top.f) /\ Depth = D
    BY AtTop DEF Depth
  <1>3. s \in Seq(Handler) /\ n \in Nat /\ n \in 1..n /\ D \in Nat /\ K \in Nat
    BY <1>1, <1>2, LiveOp, LenProperties, EmptySeq
  <1>4. PICK j \in 1..K : catchStack[j].depth = D /\ catchStack[j].h = s[n]
    BY <1>3, OwnHandlers DEF Covers
  <1>6. Level(s[n]) = n
    BY <1>2, <1>3, ScopeLevel
  <1>7. \A i \in 1..K : /\ catchStack[i].depth \in 1..D
                        /\ catchStack[i].depth = D => Level(catchStack[i].h) \in 1..n
    BY <1>2, OwnFrames
  <1>8. \A i \in 1..K : j < i => Outside(catchStack[j], catchStack[i])
    BY <1>1 DEF Scoped
  <1> HIDE DEF s, K, D, n
  <1>9. j = K
    <2>1. SUFFICES ASSUME j < K PROVE FALSE
      BY <1>3, <1>4
    <2>2. K \in 1..K
      BY <1>3, <1>4
    <2>3. Outside(catchStack[j], catchStack[K])
      BY <1>8, <2>1, <2>2
    <2>4. catchStack[K].depth \in 1..D /\ ~(D < catchStack[K].depth)
      BY <1>3, <1>7, <2>2
    <2>5. catchStack[K].depth = D /\ n < Level(catchStack[K].h)
      BY <1>4, <1>6, <2>3, <2>4 DEF Outside
    <2>6. Level(catchStack[K].h) \in 1..n
      BY <1>7, <2>2, <2>5
    <2>7. QED
      BY ONLY <1>3, <2>5, <2>6
  <1>10. QED
    BY <1>4, <1>6, <1>9 DEF s, K, D, n

\* A TryCatchPop drops the frame of the try_table it leaves.
LEMMA TryCatchPopInstalls ==
  ASSUME StoreTyped, TryCatchPop, Installed(callStack, catchStack)
  PROVE  Installed(callStack', catchStack')
  <1> DEFINE s == Scope[Top.f][Top.pc]
             K == Len(catchStack)
             D == Len(callStack)
             n == Len(s)
  <1>1. /\ mode = "running" /\ callStack # <<>> /\ Op.k = "TryCatchPop"
        /\ catchStack' = IF catchStack = <<>> THEN <<>> ELSE CallersOf(catchStack)
    BY DEF TryCatchPop, Fetch
  <1>2. PICK e \in Edges(Op, Top.pc, len) : Follow(callStack, e)
    BY DEF TryCatchPop
  <1>3. /\ callStack' = GoTo(callStack, e.pc) /\ e.pc \in Nat
        /\ Scope[Top.f][e.pc] = SubSeq(s, 1, Len(s) - 1)
    BY <1>1, <1>2, FollowFacts DEF ScopeAfter
  <1>4. /\ Top = callStack[D] /\ Top.f \in LocalFunc /\ Top.pc \in Live(Top.f)
        /\ Op = Code[Top.f][Top.pc] /\ OpScoped(Top.f, Top.pc)
    BY <1>1, AtTop DEF Depth
  <1>5. s # <<>>
    BY <1>1, <1>4 DEF OpScoped
  <1>6. callStack \in Seq(ActivationType) /\ catchStack \in Seq(CatchType)
    BY TypeFacts DEF StoreTyped
  <1>20. s \in Seq(Handler) /\ n \in Nat /\ D \in Nat /\ K \in Nat
    BY <1>4, <1>6, LiveOp, LenProperties
  <1>7. n - 1 \in 0..n /\ n \in 1..n
    <2> HIDE DEF s
    <2>1. n # 0
      BY <1>5, <1>20, EmptySeq
    <2> HIDE DEF n
    <2>2. QED
      BY <1>20, <2>1
  <1>8. /\ K \in 1..K /\ catchStack[K].depth = D
        /\ Level(catchStack[K].h) = n /\ catchStack[K].h = s[n]
    BY <1>1, <1>5, TopFrame
  <1>9. Covers(catchStack, D, s)
    BY <1>1, OwnHandlers
  <1>10. catchStack # <<>>
    BY <1>6, <1>8, EmptySeq
  <1>11. Len(catchStack') = K - 1 /\ \A i \in 1..(K - 1) : catchStack'[i] = catchStack[i]
    BY <1>1, <1>6, <1>10, CallersFacts
  <1>12. ASSUME NEW l \in 1..(n - 1)
         PROVE  s[l] # s[n]
    <2>1. l \in 1..n /\ l \in Int /\ l - 1 # n - 1
      <3> HIDE DEF n
      <3>1. QED
        BY <1>20
    <2>2. Level(s[l]) = l
      BY <1>4, <2>1, ScopeLevel
    <2>3. Level(s[n]) = n
      BY <1>4, <1>7, ScopeLevel
    <2>4. QED
      BY <2>1, <2>2, <2>3
  <1>13. PICK t : t = SubSeq(s, 1, n - 1)
    OBVIOUS
  <1>14. Len(t) = n - 1 /\ \A l \in 1..(n - 1) : t[l] = s[l]
    BY <1>7, <1>20, <1>13, PrefixFacts
  <1>15. Scope[callStack[Len(callStack)].f][e.pc] = t
    BY <1>3, <1>4, <1>13
  <1> HIDE DEF s, K, D, n
  <1>16. \A i \in 1..K : i = K \/ i \in 1..(K - 1)
    BY <1>7, <1>20
  <1>17. Keeps(catchStack, catchStack', D - 1)
    <2>1. SUFFICES ASSUME NEW i \in 1..K, catchStack[i].depth \in 1..(D - 1)
                   PROVE  \E j \in 1..(K - 1) : catchStack'[j] = catchStack[i]
      BY <1>11 DEF Keeps, K
    <2>2. i # K
      BY <1>7, <1>20, <1>8, <2>1
    <2>3. QED
      BY <1>11, <1>16, <2>2
  <1>18. Covers(catchStack', D, t)
    <2>1. SUFFICES ASSUME NEW l \in 1..(n - 1)
                   PROVE  \E j \in 1..(K - 1) :
                            catchStack'[j].depth = D /\ catchStack'[j].h = s[l]
      BY <1>11, <1>14 DEF Covers
    <2>2. l \in 1..n
      BY <1>7, <1>20
    <2>3. PICK j \in 1..K : catchStack[j].depth = D /\ catchStack[j].h = s[l]
      BY <1>9, <2>2 DEF Covers, K, n
    <2>4. j # K
      BY <1>8, <1>12, <2>3
    <2>5. QED
      BY <1>11, <1>16, <2>3, <2>4
  <1>19. QED
    BY <1>1, <1>3, <1>6, <1>15, <1>17, <1>18, InstalledMove DEF D

\* Every activation is at a reachable pc of its function.
LEMMA ActivationLive ==
  ASSUME StoreTyped, mode = "running", NEW d \in 1..Len(callStack)
  PROVE  /\ callStack[d].f \in LocalFunc /\ callStack[d].pc \in Live(callStack[d].f)
         /\ callStack[d].pc \in Nat
         /\ Scope[callStack[d].f][callStack[d].pc] \in Seq(Handler)
  <1>1. callStack \in Seq(ActivationType) /\ Typed(callStack, len, 0)
    BY Running, TypeFacts
  <1>2. callStack[d].f \in LocalFunc
    BY <1>1, StackElement
  <1>3. callStack[d].pc \in Live(callStack[d].f)
    BY <1>1 DEF Typed, At
  <1>4. QED
    BY <1>2, <1>3, LiveOp

\* A frame's handler is the one in scope at its level in its activation.
LEMMA FrameScope ==
  ASSUME StoreTyped, mode = "running", NEW i \in 1..Len(catchStack),
         NEW c, c = catchStack[i], NEW a, a = callStack[c.depth]
  PROVE  /\ c.depth \in 1..Len(callStack) /\ c.h \in Handler
         /\ Level(c.h) \in 1..Len(Scope[a.f][a.pc])
         /\ Scope[a.f][a.pc][Level(c.h)] = c.h
         /\ a.f = Site[c.h].f
  <1>1. catchStack \in Seq(CatchType) /\ Scoped(callStack, catchStack)
    BY Running, TypeFacts
  <1>2. InScope(callStack, c)
    BY <1>1 DEF Scoped
  <1>3. c.h \in Handler
    BY <1>1, FrameElement
  <1>4. QED
    BY <1>2, <1>3 DEF InScope

\* The clause that catches an exception leads to the scope around its try_table.
LEMMA CaughtScope ==
  ASSUME StoreTyped, mode = "running", NEW t \in Tag, NEW i \in Catching(t),
         NEW c, NEW cl, NEW a, NEW o, NEW full, Landing(t, i, c, cl, a, o, full)
  PROVE  /\ i \in 1..Len(catchStack) /\ Matches(c.h, t)
         /\ cl \in ClauseType /\ cl.target \in Nat
         /\ Len(o) = Level(c.h) - 1
         /\ \A m \in 1..(Level(c.h) - 1) : o[m] = Scope[a.f][a.pc][m]
  <1>0. /\ c = catchStack[i] /\ cl = FirstClause(c.h, t) /\ a = callStack[c.depth]
        /\ o = Scope[a.f][cl.target]
    BY DEF Landing
  <1> USE <1>0
  <1>1. catchStack \in Seq(CatchType)
    BY TypeFacts DEF StoreTyped
  <1>2. i \in 1..Len(catchStack) /\ Matches(c.h, t)
    BY <1>1, LenProperties DEF Catching
  <1>3. /\ c.depth \in 1..Len(callStack) /\ c.h \in Handler
        /\ Level(c.h) \in 1..Len(Scope[a.f][a.pc])
        /\ Scope[a.f][a.pc][Level(c.h)] = c.h
        /\ a.f = Site[c.h].f
    BY <1>2, FrameScope
  <1>4. a.f \in LocalFunc /\ a.pc \in Live(a.f)
    BY <1>3, ActivationLive
  <1>5. PICK h, l, f, p : h = c.h /\ l = Level(c.h) /\ f = a.f /\ p = a.pc
    OBVIOUS
  <1>6. PICK y \in DOMAIN Clauses[h] : /\ cl = Clauses[h][y]
                                       /\ ClauseMatches(cl, t) /\ cl \in ClauseType
    <2>1. h \in Handler /\ Matches(h, t) /\ cl = FirstClause(h, t)
      BY <1>2, <1>3, <1>5
    <2>2. PICK y \in DOMAIN Clauses[h] : /\ FirstClause(h, t) = Clauses[h][y]
                                         /\ ClauseMatches(Clauses[h][y], t)
                                         /\ Clauses[h][y] \in ClauseType
      BY ONLY <2>1, t \in Tag, FirstClauseFacts
    <2>3. QED
      BY ONLY <2>1, <2>2
  <1>7. ClauseScoped(h, cl)
    BY <1>3, <1>5, <1>6, ScopesAssumption DEF ScopesFit
  <1>8. Scope[a.f][cl.target] = Scope[a.f][Site[h].pc]
    BY <1>3, <1>5, <1>6, <1>7 DEF ClauseScoped, Within
  <1>9. /\ Len(Scope[f][Site[h].pc]) = l - 1
        /\ \A m \in 1..(l - 1) : Scope[f][Site[h].pc][m] = Scope[f][p][m]
    <2>1. l \in 1..Len(Scope[f][p]) /\ Scope[f][p][l] = h /\ f \in LocalFunc /\ p \in Live(f)
      BY <1>3, <1>4, <1>5
    <2>2. LET u == Scope[f][p]
              v == Scope[f][Site[u[l]].pc]
          IN  Len(v) = l - 1 /\ \A m \in 1..(l - 1) : v[m] = u[m]
      BY <2>1, OuterScope
    <2>3. QED
      BY <2>1, <2>2
  <1>10. cl.target \in Nat
    BY <1>6 DEF ClauseType
  <1>11. QED
    BY <1>2, <1>5, <1>6, <1>8, <1>9, <1>10, ZenonT(60)

\* The frames a caught exception drops are those of the try_tables it leaves.
LEMMA LandInstalls ==
  ASSUME StoreTyped, mode = "running", callStack # <<>>, Installed(callStack, catchStack),
         NEW t \in Tag, NEW i \in Catching(t), Land(t, i)
  PROVE  Installed(callStack', catchStack')
  <1>0. PICK c, cl, a, o, full : Landing(t, i, c, cl, a, o, full)
    BY DEF Landing
  <1>1. PICK d, l, target, s :
          /\ c = catchStack[i] /\ d = c.depth /\ a = callStack[c.depth] /\ l = Level(c.h)
          /\ cl = FirstClause(c.h, t) /\ target = cl.target
          /\ s = Scope[a.f][a.pc] /\ o = Scope[a.f][cl.target]
    BY <1>0 DEF Landing
  <1>2. callStack \in Seq(ActivationType) /\ catchStack \in Seq(CatchType)
        /\ Scoped(callStack, catchStack)
    BY Running, TypeFacts
  <1>3. /\ i \in 1..Len(catchStack) /\ target \in Nat
        /\ Len(o) = l - 1 /\ \A m \in 1..(l - 1) : o[m] = s[m]
    <2>1. /\ i \in 1..Len(catchStack) /\ cl.target \in Nat
          /\ Len(o) = Level(c.h) - 1
          /\ \A m \in 1..(Level(c.h) - 1) : o[m] = Scope[a.f][a.pc][m]
      BY <1>0, CaughtScope
    <2>2. QED
      BY <1>1, <2>1
  <1>4. d \in 1..Len(callStack) /\ l \in 1..Len(s) /\ s[l] = c.h
    <2>1. i \in 1..Len(catchStack) /\ c = catchStack[i] /\ a = callStack[c.depth]
      BY <1>1, <1>3
    <2>2. /\ c.depth \in 1..Len(callStack)
          /\ Level(c.h) \in 1..Len(Scope[a.f][a.pc])
          /\ Scope[a.f][a.pc][Level(c.h)] = c.h
      BY ONLY StoreTyped, mode = "running", <2>1, FrameScope
    <2>3. QED
      BY ONLY <1>1, <2>2
  <1>5. a.f \in LocalFunc /\ a.pc \in Live(a.f) /\ s \in Seq(Handler)
    BY <1>1, <1>4, ActivationLive
  <1>6. d \in 0..Len(callStack) /\ d \in Nat /\ d \in 1..d /\ Smaller(d, Depth) = d
    <2>1. Len(callStack) \in Nat
      BY <1>2, LenProperties
    <2>2. QED
      BY <1>4, <2>1 DEF Smaller, Depth
  <1> DEFINE cs == SubSeq(callStack, 1, d)
             ks == SubSeq(catchStack, 1, i - 1)
  <1>7. callStack' = GoTo(cs, target) /\ catchStack' = ks
    BY <1>0, <1>1, <1>6 DEF Land
  <1>8. cs \in Seq(ActivationType) /\ Len(cs) = d /\ cs[d] = a /\ cs # <<>>
    <2>1. cs \in Seq(ActivationType) /\ Len(cs) = d /\ cs[d] = a
      BY <1>1, <1>2, <1>6, PrefixFacts
    <2>2. QED
      BY <1>6, <2>1, EmptySeq
  <1>9. Installed(cs, catchStack)
    BY <1>2, <1>6, InstalledBelow
  <1>10. Len(ks) = i - 1 /\ \A j \in 1..(i - 1) : ks[j] = catchStack[j]
    <2>1. i - 1 \in 0..Len(catchStack)
      BY <1>2, <1>3, LenProperties
    <2>2. QED
      BY <1>2, <2>1, PrefixFacts
  <1>11. Len(catchStack) \in Nat /\ Len(s) \in Nat /\ l \in Nat
    BY <1>2, <1>4, <1>5, LenProperties
  <1> HIDE DEF cs, ks
  \* a frame that is dropped is the catching one or is nested in its try_table
  <1>12. ASSUME NEW j \in 1..Len(catchStack), j \notin 1..(i - 1)
         PROVE  /\ ~(catchStack[j].depth \in 1..(d - 1))
                /\ catchStack[j].depth = d => ~(Level(catchStack[j].h) \in 1..(l - 1))
    <2>1. j = i \/ i < j
      BY <1>3, <1>11, <1>12
    <2>2. CASE j = i
      BY <1>1, <1>6, <1>11, <2>2
    <2>3. CASE i < j
      <3>1. Outside(c, catchStack[j])
        BY <1>1, <1>2, <1>3, <2>3 DEF Scoped
      <3>2. d < catchStack[j].depth \/ (d = catchStack[j].depth /\ l < Level(catchStack[j].h))
        BY <1>1, <3>1 DEF Outside
      <3>3. QED
        BY <1>6, <1>11, <3>2
    <2>4. QED
      BY <2>1, <2>2, <2>3
  <1>13. Keeps(catchStack, ks, d - 1)
    <2>1. SUFFICES ASSUME NEW j \in 1..Len(catchStack), catchStack[j].depth \in 1..(d - 1)
                   PROVE  \E k \in 1..(i - 1) : ks[k] = catchStack[j]
      BY <1>10 DEF Keeps
    <2>2. QED
      BY <1>10, <1>12, <2>1
  <1>14. Covers(ks, d, o)
    <2>1. SUFFICES ASSUME NEW m \in 1..(l - 1)
                   PROVE  \E k \in 1..(i - 1) : ks[k].depth = d /\ ks[k].h = o[m]
      BY <1>3, <1>10 DEF Covers
    <2>2. m \in 1..Len(s) /\ o[m] = s[m]
      BY <1>3, <1>4, <1>11
    <2>3. PICK j \in 1..Len(catchStack) : catchStack[j].depth = d /\ catchStack[j].h = s[m]
      BY <1>1, <1>4, <2>2 DEF Installed
    <2>4. Level(s[m]) = m
      BY <1>1, <1>5, <2>2, ScopeLevel
    <2>5. j \in 1..(i - 1)
      BY <1>12, <2>3, <2>4
    <2>6. QED
      BY <1>10, <2>2, <2>3, <2>5
  <1>15. Covers(ks, Len(cs), Scope[cs[Len(cs)].f][target]) /\ Keeps(catchStack, ks, Len(cs) - 1)
    BY <1>1, <1>8, <1>13, <1>14
  <1>16. QED
    BY <1>3, <1>7, <1>8, <1>9, <1>15, InstalledMove

LEMMA NothingInstalled ==
  ASSUME NEW ks
  PROVE  Installed(<<>>, ks)
  BY DEF Installed

LEMMA UnwindInstalls ==
  ASSUME StoreTyped, mode = "running", callStack # <<>>, Installed(callStack, catchStack),
         NEW t \in Tag, Unwind(t)
  PROVE  Installed(callStack', catchStack')
  <1>1. CASE Fail("exception")
    BY <1>1, NothingInstalled DEF Fail
  <1>2. CASE \E i \in Catching(t) : Land(t, i)
    BY <1>2, LandInstalls
  <1>3. QED
    BY <1>1, <1>2 DEF Unwind

LEMMA ThrowInstalls ==
  ASSUME StoreTyped, Throw \/ ThrowRef, Installed(callStack, catchStack)
  PROVE  Installed(callStack', catchStack')
  <1>1. mode = "running" /\ callStack # <<>>
    BY DEF Throw, ThrowRef, Fetch
  <1>2. CASE Throw
    <2>1. Op.k = "Throw" /\ Unwind(Op.tag)
      BY <1>2 DEF Throw, Fetch
    <2>2. Op.tag \in Tag
      BY <1>1, <2>1, AtTop, OpFields
    <2>3. QED
      BY <1>1, <2>1, <2>2, UnwindInstalls
  <1>3. CASE ThrowRef
    <2>1. Panic \/ \E x \in DOMAIN exceptions : Unwind(exceptions[x])
      BY <1>3 DEF ThrowRef
    <2>2. exceptions \in Seq(Tag)
      BY TypeFacts DEF StoreTyped
    <2>3. ASSUME NEW x \in DOMAIN exceptions, Unwind(exceptions[x])
          PROVE  Installed(callStack', catchStack')
      <3>1. exceptions[x] \in Tag
        BY <2>2, ElementOfSeq
      <3>2. QED
        BY <1>1, <2>3, <3>1, UnwindInstalls
    <2>4. CASE Panic
      BY <2>4 DEF Panic, store
    <2>5. QED
      BY <2>1, <2>3, <2>4
  <1>4. QED
    BY <1>2, <1>3

LEMMA InvokeInstalls ==
  ASSUME StoreTyped, NEW f \in Exported, Invoke(f), Installed(callStack, catchStack)
  PROVE  Installed(callStack', catchStack')
  <1>1. /\ f \in LocalFunc /\ catchStack' = catchStack
        /\ callStack' = Append(callStack, Activation(f, len))
    BY DEF Invoke
  <1>2. callStack \in Seq(ActivationType) /\ len \in Nat
    BY TypeFacts DEF StoreTyped
  <1>3. QED
    BY <1>1, <1>2, InstalledAbove

LEMMA NextInstalls ==
  ASSUME StoreTyped, Installed(callStack, catchStack), [Next]_vars
  PROVE  Installed(callStack', catchStack')
  <1>1. CASE Complete \/ OutOfFuel \/ PcPastEnd \/ Resume \/ ResumeWith \/ SetFuel \/ UNCHANGED vars
    <2>1. callStack' = callStack /\ catchStack' = catchStack
      BY <1>1 DEF Complete, OutOfFuel, PcPastEnd, Panic, Resume, ResumeWith, SetFuel, store, vars
    <2>2. QED
      BY <2>1
  <1>2. CASE TrapOp \/ CallTooDeep
    BY <1>2, NothingInstalled DEF TrapOp, CallTooDeep, Fail
  <1>3. CASE Compute \/ Branch
    BY <1>3, EdgeInstalls
  <1>4. CASE Call
    BY <1>4, CallInstalls
  <1>5. CASE ReturnCall
    BY <1>5, ReturnCallInstalls
  <1>6. CASE Return
    BY <1>6, ReturnInstalls
  <1>7. CASE TryCatchPush
    BY <1>7, TryCatchPushInstalls
  <1>8. CASE TryCatchPop
    BY <1>8, TryCatchPopInstalls
  <1>9. CASE Throw \/ ThrowRef
    BY <1>9, ThrowInstalls
  <1>10. CASE \E f \in Exported : Invoke(f)
    BY <1>10, InvokeInstalls
  <1>11. CASE \E f \in Exported : InvokeHost(f)
    BY <1>11 DEF InvokeHost, storeButLen
  <1>12. QED
    BY <1>1, <1>2, <1>3, <1>4, <1>5, <1>6, <1>7, <1>8, <1>9, <1>10, <1>11
    DEF Next, Step, Embedder

(***************************************************************************)
(* The catch stack of a store that is never restored is the lexical        *)
(* nesting of try_tables around every activation's pc, whatever pushes,    *)
(* pops, calls, tail calls, returns and unwinding did to it before         *)
(* (runtime/store.rs, handle_exception and pop_catch_frames).              *)
(***************************************************************************)
THEOREM CatchStackLexical == Spec => []CatchStackIsLexical
  <1>1. Init => Installed(callStack, catchStack)
    BY NothingInstalled DEF Init
  <1>2. StoreTyped /\ Installed(callStack, catchStack) /\ [Next]_vars =>
          Installed(callStack, catchStack)'
    BY NextInstalls
  <1>3. StoreTyped /\ Installed(callStack, catchStack) => CatchStackIsLexical
    BY DEF StoreTyped, CatchStackIsLexical
  <1>4. QED
    BY <1>1, <1>2, <1>3, StoreIsTyped, PTL DEF Spec

----------------------------------------------------------------------------
(***************************************************************************)
(* The activations of WasmMachine: what FramesOf makes of the operators on *)
(* call stacks.                                                            *)
(***************************************************************************)
FrameType == [f : LocalFunc, pc : Nat]

LEMMA FramesFacts ==
  ASSUME NEW cs \in Seq(ActivationType)
  PROVE  /\ FramesOf(cs) \in Seq(FrameType) /\ Len(FramesOf(cs)) = Len(cs)
         /\ DOMAIN FramesOf(cs) = 1..Len(cs)
         /\ \A d \in 1..Len(cs) : FramesOf(cs)[d] = [f |-> cs[d].f, pc |-> cs[d].pc]
         /\ FramesOf(cs) = <<>> <=> cs = <<>>
  <1>1. DOMAIN cs = 1..Len(cs) /\ Len(cs) \in Nat
    BY LenProperties
  <1>2. \A d \in 1..Len(cs) : [f |-> cs[d].f, pc |-> cs[d].pc] \in FrameType
    BY StackElement DEF FrameType
  <1> DEFINE n == Len(cs)
             fs == [d \in 1..n |-> [f |-> cs[d].f, pc |-> cs[d].pc]]
  <1>3. FramesOf(cs) = fs
    BY <1>1 DEF FramesOf
  <1>4. fs \in [1..n -> FrameType]
    BY <1>2
  <1>5. n \in Nat
    BY <1>1
  <1>6. DOMAIN fs = 1..n /\ \A d \in 1..n : fs[d] = [f |-> cs[d].f, pc |-> cs[d].pc]
    OBVIOUS
  <1>7. n = 0 <=> cs = <<>>
    BY EmptySeq
  <1> HIDE DEF fs, n
  <1>8. fs \in Seq(FrameType) /\ Len(fs) = n
    BY <1>4, <1>5, <1>6
  <1>9. fs = <<>> <=> n = 0
    BY <1>8, EmptySeq
  <1>10. QED
    BY <1>3, <1>6, <1>7, <1>8, <1>9 DEF n

LEMMA FramesGoTo ==
  ASSUME NEW cs \in Seq(ActivationType), cs # <<>>, NEW pc \in Nat
  PROVE  FramesOf(GoTo(cs, pc)) = Wasm!GoTo(FramesOf(cs), pc)
  <1> DEFINE gs == GoTo(cs, pc)
             fs == FramesOf(cs)
             D == Len(cs)
             a == [fs[D] EXCEPT !.pc = pc]
             hs == [fs EXCEPT ![D] = a]
  <1>1. /\ gs \in Seq(ActivationType) /\ Len(gs) = D
        /\ \A d \in 1..D : gs[d].f = cs[d].f /\ (d < D => gs[d] = cs[d])
        /\ gs[D].pc = pc
    BY GoToFacts
  <1>2. /\ fs \in Seq(FrameType) /\ Len(fs) = D
        /\ \A d \in 1..D : fs[d] = [f |-> cs[d].f, pc |-> cs[d].pc]
    BY FramesFacts
  <1>3. /\ FramesOf(gs) \in Seq(FrameType) /\ Len(FramesOf(gs)) = D
        /\ \A d \in 1..D : FramesOf(gs)[d] = [f |-> gs[d].f, pc |-> gs[d].pc]
    BY <1>1, FramesFacts
  <1>4. D \in Nat /\ D \in 1..D
    BY EmptySeq, LenProperties
  <1> HIDE DEF gs, fs
  <1>5. Wasm!GoTo(fs, pc) = hs
    <2> DEFINE Moved(i) == [fs EXCEPT ![i] = [fs[i] EXCEPT !.pc = pc]]
    <2>1. Wasm!GoTo(fs, pc) = Moved(Len(fs))
      BY DEF Wasm!GoTo
    <2>2. hs = Moved(D)
      OBVIOUS
    <2>3. Len(fs) = D
      BY <1>2
    <2> HIDE DEF D, Moved, hs
    <2>4. QED
      BY <2>1, <2>2, <2>3
  <1>6. fs[D] \in FrameType
    BY <1>2, <1>4, ElementOfSeq
  <1>7. a \in FrameType /\ a = [f |-> cs[D].f, pc |-> pc]
    <2>1. PICK u, g, p : u = fs[D] /\ g = cs[D].f /\ p = cs[D].pc
      OBVIOUS
    <2>2. u = [f |-> g, pc |-> p] /\ u \in FrameType /\ a = [u EXCEPT !.pc = pc]
      BY <1>2, <1>4, <1>6, <2>1
    <2> HIDE DEF a
    <2>3. a = [f |-> g, pc |-> pc]
      BY ONLY <2>2
    <2>4. g \in LocalFunc
      BY ONLY <2>2 DEF FrameType
    <2>5. QED
      BY <2>1, <2>3, <2>4 DEF FrameType
  <1> HIDE DEF a
  <1>8. /\ hs \in Seq(FrameType) /\ Len(hs) = D
        /\ \A d \in 1..D : hs[d] = IF d = D THEN a ELSE fs[d]
    BY <1>2, <1>4, <1>7, ExceptSeq
  <1> HIDE DEF hs, D
  <1>9. ASSUME NEW d \in 1..D PROVE FramesOf(gs)[d] = hs[d]
    <2>1. CASE d = D
      <3>1. FramesOf(gs)[d] = [f |-> gs[d].f, pc |-> gs[d].pc] /\ hs[d] = a
        BY <1>3, <1>8, <2>1
      <3>2. gs[d].f = cs[d].f /\ gs[d].pc = pc
        BY <1>1, <2>1
      <3>3. QED
        BY <1>7, <2>1, <3>1, <3>2
    <2>2. CASE d < D
      <3>1. FramesOf(gs)[d] = [f |-> gs[d].f, pc |-> gs[d].pc] /\ hs[d] = fs[d]
        BY <1>3, <1>4, <1>8, <2>2
      <3>2. QED
        BY <1>1, <1>2, <2>2, <3>1
    <2>3. QED
      BY <1>4, <2>1, <2>2
  <1>10. FramesOf(gs) = hs
    BY <1>3, <1>8, <1>9, SeqEqual
  <1>11. QED
    BY <1>5, <1>10 DEF gs, fs

LEMMA FramesCut ==
  ASSUME NEW cs \in Seq(ActivationType), NEW k \in 0..Len(cs)
  PROVE  FramesOf(SubSeq(cs, 1, k)) = SubSeq(FramesOf(cs), 1, k)
  <1> DEFINE ps == SubSeq(cs, 1, k)
             fs == FramesOf(cs)
             qs == SubSeq(fs, 1, k)
  <1>1. ps \in Seq(ActivationType) /\ Len(ps) = k /\ \A d \in 1..k : ps[d] = cs[d]
    BY PrefixFacts
  <1>2. /\ fs \in Seq(FrameType) /\ Len(fs) = Len(cs)
        /\ \A d \in 1..Len(cs) : fs[d] = [f |-> cs[d].f, pc |-> cs[d].pc]
    BY FramesFacts
  <1>3. qs \in Seq(FrameType) /\ Len(qs) = k /\ \A d \in 1..k : qs[d] = fs[d]
    <2>1. k \in 0..Len(fs)
      BY <1>2
    <2> HIDE DEF fs
    <2>2. QED
      BY <1>2, <2>1, PrefixFacts
  <1>4. /\ FramesOf(ps) \in Seq(FrameType) /\ Len(FramesOf(ps)) = k
        /\ \A d \in 1..k : FramesOf(ps)[d] = [f |-> ps[d].f, pc |-> ps[d].pc]
    BY <1>1, FramesFacts
  <1>5. \A d \in 1..k : d \in 1..Len(cs)
    BY LenProperties
  <1> HIDE DEF ps, fs, qs
  <1>6. \A d \in 1..Len(qs) : FramesOf(ps)[d] = qs[d]
    BY <1>1, <1>2, <1>3, <1>4, <1>5
  <1>7. FramesOf(ps) = qs
    BY <1>3, <1>4, <1>6, SeqEqual
  <1>8. QED
    BY <1>7 DEF ps, fs, qs

LEMMA FramesAppend ==
  ASSUME NEW cs \in Seq(ActivationType), NEW g \in LocalFunc, NEW b \in Nat
  PROVE  FramesOf(Append(cs, Activation(g, b))) = Append(FramesOf(cs), [f |-> g, pc |-> 1])
  <1> DEFINE a == Activation(g, b)
             up == Append(cs, a)
             fs == FramesOf(cs)
             c == [f |-> g, pc |-> 1]
             qs == Append(fs, c)
             D == Len(cs)
  <1>1. a \in ActivationType /\ a.f = g /\ a.pc = 1 /\ c \in FrameType
    BY DEF Activation, ActivationType, FrameType
  <1> HIDE DEF a
  <1>2. /\ up \in Seq(ActivationType) /\ Len(up) = D + 1
        /\ (\A d \in 1..D : up[d] = cs[d]) /\ up[D + 1] = a
    BY <1>1, AppendFacts
  <1>3. /\ fs \in Seq(FrameType) /\ Len(fs) = D
        /\ \A d \in 1..D : fs[d] = [f |-> cs[d].f, pc |-> cs[d].pc]
    BY FramesFacts
  <1> HIDE DEF up, fs
  <1>4. c = [f |-> a.f, pc |-> a.pc]
    BY <1>1
  <1> HIDE DEF c
  <1>5. /\ qs \in Seq(FrameType) /\ Len(qs) = D + 1
        /\ (\A d \in 1..D : qs[d] = fs[d]) /\ qs[D + 1] = c
    BY <1>1, <1>3, AppendFacts
  <1>6. /\ FramesOf(up) \in Seq(FrameType) /\ Len(FramesOf(up)) = D + 1
        /\ \A d \in 1..(D + 1) : FramesOf(up)[d] = [f |-> up[d].f, pc |-> up[d].pc]
    BY <1>2, FramesFacts
  <1>7. D \in Nat
    BY LenProperties
  <1> HIDE DEF qs, D
  <1>8. ASSUME NEW d \in 1..(D + 1) PROVE FramesOf(up)[d] = qs[d]
    <2>1. CASE d = D + 1
      BY <1>2, <1>4, <1>5, <1>6, <2>1
    <2>2. CASE d \in 1..D
      BY <1>2, <1>3, <1>5, <1>6, <2>2
    <2>3. QED
      BY <1>7, <2>1, <2>2
  <1>9. FramesOf(up) = qs
    BY <1>5, <1>6, <1>8, SeqEqual
  <1>10. QED
    BY <1>9 DEF up, a, qs, fs, c

\* Both machines run the same program.
LEMMA SameProgram ==
  /\ Wasm!CallKinds = CallKinds /\ Wasm!RefKinds = RefKinds /\ Wasm!LocalFunc = LocalFunc
  /\ \A o, pc, h : Wasm!Edges(o, pc, h) = Edges(o, pc, h)
  /\ \A h, t : Wasm!Matches(h, t) <=> Matches(h, t)
  /\ \A h, t : Wasm!FirstClause(h, t) = FirstClause(h, t)
  <1>1. Wasm!CallKinds = CallKinds /\ Wasm!RefKinds = RefKinds /\ Wasm!LocalFunc = LocalFunc
    BY DEF Wasm!CallKinds, CallKinds, Wasm!RefKinds, RefKinds, Wasm!LocalFunc, LocalFunc
  <1>2. \A pc, h : Wasm!Edge(pc, h) = Edge(pc, h)
    BY DEF Wasm!Edge, Edge
  <1>3. ASSUME NEW o, NEW pc, NEW h PROVE Wasm!Edges(o, pc, h) = Edges(o, pc, h)
    BY <1>2 DEF Wasm!Edges, Edges
  <1>4. \A cl, t : Wasm!ClauseMatches(cl, t) <=> ClauseMatches(cl, t)
    BY DEF Wasm!ClauseMatches, ClauseMatches, Wasm!TagKinds, TagKinds
  <1>5. ASSUME NEW h, NEW t PROVE Wasm!Matches(h, t) <=> Matches(h, t)
    BY <1>4 DEF Wasm!Matches, Matches
  <1>6. ASSUME NEW h, NEW t PROVE Wasm!FirstClause(h, t) = FirstClause(h, t)
    BY <1>4 DEF Wasm!FirstClause, FirstClause
  <1>7. QED
    BY <1>1, <1>3, <1>5, <1>6

----------------------------------------------------------------------------
(***************************************************************************)
(* What the embedder sees of a step: whether the execution goes on, ends,  *)
(* or waits for a host function.                                           *)
(***************************************************************************)
LEMMA WasmAt ==
  ASSUME StoreTyped, mode = "running", callStack # <<>>
  PROVE  /\ Wasm!Top = [f |-> Top.f, pc |-> Top.pc] /\ Wasm!Op = Op
         /\ Wasm!Callers = FramesOf(CallersOf(callStack))
         /\ \A kinds : Op.k \in kinds => Wasm!Running(kinds)
  <1>1. callStack \in Seq(ActivationType)
    BY TypeFacts DEF StoreTyped
  <1> DEFINE D == Len(callStack)
             fs == FramesOf(callStack)
  <1>2. /\ Len(fs) = D /\ fs # <<>>
        /\ \A d \in 1..D : fs[d] = [f |-> callStack[d].f, pc |-> callStack[d].pc]
    BY <1>1, FramesFacts
  <1>3. D \in 1..D /\ Top = callStack[D] /\ Op = Code[Top.f][Top.pc]
    BY AtTop DEF Depth
  <1>4. /\ Wasm!Top = fs[Len(fs)]
        /\ Wasm!Callers = SubSeq(fs, 1, Len(fs) - 1)
    BY DEF Wasm!Top, Wasm!Callers
  <1>5. CallersOf(callStack) = SubSeq(callStack, 1, D - 1) /\ D - 1 \in 0..D
    BY <1>1, CallersFacts
  <1>6. FramesOf(CallersOf(callStack)) = SubSeq(fs, 1, D - 1)
    BY <1>1, <1>5, FramesCut
  <1>7. Wasm!Top = [f |-> Top.f, pc |-> Top.pc]
    BY <1>2, <1>3, <1>4
  <1>8. Wasm!Op = Op
    BY <1>3, <1>7 DEF Wasm!Op
  <1>9. Status = "running"
    BY DEF Status
  <1>10. \A kinds : Op.k \in kinds => Wasm!Running(kinds)
    BY <1>2, <1>8, <1>9 DEF Wasm!Running
  <1>11. QED
    BY <1>2, <1>4, <1>6, <1>7, <1>8, <1>10

\* The execution goes on.
LEMMA GoesOn ==
  ASSUME mode = "running", mode' = "running"
  PROVE  /\ Status = "running" /\ Status' = "running"
         /\ Awaited' = Awaited /\ Outcome' = Outcome
  BY DEF Status, Awaited, Outcome, AwaitingHost, AwaitingFuel

\* The execution ends.
LEMMA EndsWasm ==
  ASSUME mode = "running", callStack' = <<>>, exceptions' = exceptions,
         NEW o \in {"completed", "trap", "exception"},
         mode' = "ready", pendingArity' = None, result' = o
  PROVE  Wasm!End(o)
  <1>1. Status' = "idle" /\ Outcome' = o /\ Awaited' = Awaited
    BY DEF Status, Awaited, Outcome, AwaitingHost, AwaitingFuel
  <1>2. PICK cs : cs = <<>>
    OBVIOUS
  <1>3. FramesOf(callStack)' = <<>>
    <2>1. cs \in Seq(ActivationType)
      BY <1>2
    <2>2. FramesOf(cs) = <<>>
      BY <1>2, <2>1, FramesFacts
    <2>3. QED
      BY <1>2, <2>2
  <1>4. QED
    BY <1>1, <1>3 DEF Wasm!End

LEMMA FailsWasm ==
  ASSUME mode = "running", NEW o \in {"trap", "exception"}, Fail(o)
  PROVE  Wasm!End(o)
  BY EndsWasm DEF Fail, GiveBack

LEMMA TrapWasm ==
  ASSUME StoreTyped, RoomKept, TrapOp \/ CallTooDeep
  PROVE  Wasm!Trap
  <1>1. mode = "running" /\ callStack # <<>>
    BY DEF TrapOp, CallTooDeep, Fetch
  <1>2. Wasm!End("trap")
    BY <1>1, FailsWasm DEF TrapOp, CallTooDeep
  <1>3. Wasm!Op = Op
    BY <1>1, WasmAt
  <1>4. CASE TrapOp
    <2>1. Op.k \in {"Op", "Unreachable", "Call", "ReturnCall", "ThrowRef"}
      BY <1>4 DEF TrapOp, Fetch
    <2>2. Wasm!Running({"Op", "Unreachable", "Call", "ReturnCall", "ThrowRef"})
      BY <1>1, <2>1, WasmAt
    <2>3. QED
      BY <1>2, <1>3, <1>4, <2>2 DEF TrapOp, Wasm!Trap, CallKinds
  <1>5. CASE CallTooDeep
    <2>1. Op.k = "Call" /\ Depth >= MaxCallDepth
      BY <1>5 DEF CallTooDeep, Fetch
    <2>2. Wasm!Running({"Op", "Unreachable", "Call", "ReturnCall", "ThrowRef"})
      BY <1>1, <2>1, WasmAt
    <2>3. Len(FramesOf(callStack)) = Depth
      BY FramesFacts, TypeFacts DEF StoreTyped, Depth
    <2>4. Depth = MaxCallDepth
      <3>1. Depth \in Nat /\ MaxCallDepth \in Nat
        BY <1>1, AtTop, ParametersAssumption
      <3>2. QED
        BY <2>1, <3>1 DEF RoomKept
    <2>5. QED
      BY <1>2, <1>3, <2>1, <2>2, <2>3, <2>4 DEF Wasm!Trap
  <1>6. QED
    BY <1>4, <1>5

LEMMA AdvancesWasm ==
  ASSUME StoreTyped, Compute \/ Branch \/ TryCatchPush \/ TryCatchPop
  PROVE  Wasm!Advance
  <1> DEFINE kinds == {"Op", "Jump", "JumpIf", "JumpTable", "BrOnNull", "BrOnNonNull",
                       "TryCatchPush", "TryCatchPop"}
  <1>1. \E ks : Fetch(ks) /\ ks \subseteq kinds
    <2>1. CASE Compute
      BY <2>1 DEF Compute
    <2>2. CASE Branch
      BY <2>2 DEF Branch
    <2>3. CASE TryCatchPush
      BY <2>3 DEF TryCatchPush
    <2>4. CASE TryCatchPop
      BY <2>4 DEF TryCatchPop
    <2>5. QED
      BY <2>1, <2>2, <2>3, <2>4
  <1>2. mode = "running" /\ callStack # <<>> /\ Op.k \in kinds
    BY <1>1 DEF Fetch
  <1>3. PICK e \in Edges(Op, Top.pc, len) : Follow(callStack, e)
    BY DEF Compute, Branch, TryCatchPush, TryCatchPop
  <1>4. mode' = "running" /\ exceptions' = exceptions
    BY <1>2 DEF Compute, Branch, TryCatchPush, TryCatchPop
  <1>5. callStack' = GoTo(callStack, e.pc)
    BY <1>3 DEF Follow
  <1>6. e.pc \in Nat /\ Edge(e.pc, e.h - len) \in Edges(Op, Top.pc, 0)
    <2>1. Op \in Ops /\ Top.pc \in Nat /\ len \in Int /\ 0 \in Int /\ len = len + 0
      BY <1>2, AtTop, TypeFacts DEF StoreTyped
    <2>2. QED
      BY <1>3, <2>1, EdgeShift
  <1>7. Wasm!Top.pc = Top.pc /\ Wasm!Op = Op /\ Wasm!Running(kinds)
    BY <1>2, WasmAt
  <1>8. callStack \in Seq(ActivationType)
    BY TypeFacts DEF StoreTyped
  <1>9. FramesOf(GoTo(callStack, e.pc)) = Wasm!GoTo(FramesOf(callStack), e.pc)
    BY <1>2, <1>6, <1>8, FramesGoTo
  <1>10. FramesOf(callStack)' = Wasm!GoTo(FramesOf(callStack), e.pc)
    BY <1>5, <1>9
  <1> DEFINE d == Edge(e.pc, e.h - len)
  <1>11. d.pc = e.pc /\ d \in Wasm!Edges(Wasm!Op, Wasm!Top.pc, 0)
    BY <1>6, <1>7, SameProgram DEF Edge
  <1> HIDE DEF d
  <1>12. \E x \in Wasm!Edges(Wasm!Op, Wasm!Top.pc, 0) :
           FramesOf(callStack)' = Wasm!GoTo(FramesOf(callStack), x.pc)
    BY <1>10, <1>11
  <1>13. Status' = Status /\ Awaited' = Awaited /\ Outcome' = Outcome
    BY <1>2, <1>4, GoesOn
  <1>14. QED
    BY <1>4, <1>7, <1>12, <1>13 DEF Wasm!Advance

\* push_function_call on top of cs enters the function or asks the host.
LEMMA EntersWasm ==
  ASSUME StoreTyped, mode = "running", NEW g \in Func, NEW cs \in Seq(ActivationType), NEW n,
         n - Params[g] \in Nat,
         PushLocalCall(g, cs, n) \/ PushHostCall(g, cs, n)
  PROVE  Wasm!EnterFunction(g, FramesOf(cs))
  <1>1. exceptions' = exceptions
    BY DEF PushLocalCall, PushHostCall
  <1>2. CASE PushLocalCall(g, cs, n)
    <2>1. /\ g \in LocalFunc /\ mode' = "running"
          /\ callStack' = Append(cs, Activation(g, n - Params[g]))
      BY <1>2 DEF PushLocalCall
    <2>2. Status' = Status /\ Awaited' = Awaited /\ Outcome' = Outcome
      BY <2>1, GoesOn
    <2>3. FramesOf(callStack)' = Append(FramesOf(cs), [f |-> g, pc |-> 1])
      BY <2>1, FramesAppend
    <2>4. QED
      BY <1>1, <2>1, <2>2, <2>3, SameProgram DEF Wasm!EnterFunction
  <1>3. CASE PushHostCall(g, cs, n)
    <2>1. /\ g \in HostFunc /\ callStack' = cs /\ waiting' = g /\ pendingArity' = runArity
          /\ mode' = "ready" /\ result' = "suspended"
      BY <1>3 DEF PushHostCall, GiveBack
    <2>2. runArity # None
      BY TypeFacts DEF StoreTyped, None
    <2>3. Status' = "waiting" /\ Awaited' = {g} /\ Outcome' = Outcome
      BY <2>1, <2>2 DEF Status, Awaited, Outcome, AwaitingHost, AwaitingFuel
    <2>4. FramesOf(callStack)' = FramesOf(cs)
      BY <2>1
    <2>5. QED
      BY <1>1, <2>1, <2>3, <2>4 DEF Wasm!EnterFunction
  <1>4. QED
    BY <1>2, <1>3

LEMMA CallsWasm ==
  ASSUME StoreTyped, Call
  PROVE  Wasm!Call
  <1> DEFINE next == Top.pc + 1
             cs == GoTo(callStack, next)
             n == len - Op.operand
  <1>1. mode = "running" /\ callStack # <<>> /\ Op.k = "Call"
    BY DEF Call, Fetch
  <1>2. PICK g \in Op.callees : PushLocalCall(g, cs, n) \/ PushHostCall(g, cs, n)
    BY DEF Call
  <1>3. /\ Top.f \in LocalFunc /\ Top.pc \in Live(Top.f) /\ Top.pc \in Nat /\ Top.base \in Nat
        /\ Height[Top.f][Top.pc] = len - Top.base /\ Op = Code[Top.f][Top.pc]
    BY <1>1, AtTop
  <1>4. /\ g \in Func /\ Params[g] \in Nat /\ Op.operand \in {0, 1}
        /\ Op.operand + Params[g] <= Height[Top.f][Top.pc]
    BY <1>1, <1>2, <1>3, CalleeFacts DEF CallKinds
  <1>5. n - Params[g] \in Nat
    <2> DEFINE t == Top.base
               d == Op.operand
               p == Params[g]
               h == Height[Top.f][Top.pc]
    <2>1. len \in Nat
      BY TypeFacts DEF StoreTyped
    <2>2. t \in Nat /\ d \in {0, 1} /\ p \in Nat /\ h = len - t /\ d + p <= h
      BY <1>3, <1>4
    <2> HIDE DEF t, d, p, h
    <2>3. len - d - p \in Nat
      BY ONLY <2>1, <2>2
    <2>4. QED
      BY <2>3 DEF d, p
  <1>6. callStack \in Seq(ActivationType) /\ next \in Nat
    BY <1>3, TypeFacts DEF StoreTyped
  <1>7. cs \in Seq(ActivationType) /\ FramesOf(cs) = Wasm!GoTo(FramesOf(callStack), next)
    BY <1>1, <1>6, GoToFacts, FramesGoTo
  <1>8. /\ Wasm!Top.pc + 1 = next /\ Wasm!Op = Op /\ Wasm!Running(Wasm!CallKinds)
    BY <1>1, WasmAt, SameProgram DEF CallKinds
  <1> HIDE DEF n, cs, next
  <1>9. Wasm!EnterFunction(g, FramesOf(cs))
    BY <1>1, <1>2, <1>4, <1>5, <1>7, EntersWasm
  <1>10. Wasm!EnterFunction(g, Wasm!GoTo(FramesOf(callStack), Wasm!Top.pc + 1))
    BY <1>7, <1>8, <1>9
  <1>11. g \in Wasm!Op.callees /\ Wasm!Op.k = "Call"
    BY <1>1, <1>2, <1>8
  <1>12. QED
    BY <1>8, <1>10, <1>11 DEF Wasm!Call

LEMMA TailCallsWasm ==
  ASSUME StoreTyped, ReturnCall
  PROVE  Wasm!Call
  <1> DEFINE b == Top.base
             cs == CallersOf(callStack)
  <1>1. mode = "running" /\ callStack # <<>> /\ Op.k = "ReturnCall"
    BY DEF ReturnCall, Fetch
  <1>2. PICK g \in Op.callees : \/ PushLocalCall(g, cs, b + Params[g])
                                \/ PushHostCall(g, cs, b + Params[g])
    BY DEF ReturnCall
  <1>3. Top.f \in LocalFunc /\ Top.pc \in Live(Top.f) /\ b \in Nat /\ Op = Code[Top.f][Top.pc]
    BY <1>1, AtTop
  <1>4. g \in Func /\ Params[g] \in Nat
    BY <1>1, <1>2, <1>3, CalleeFacts DEF CallKinds
  <1>5. callStack \in Seq(ActivationType)
    BY TypeFacts DEF StoreTyped
  <1>6. cs \in Seq(ActivationType)
    BY <1>1, <1>5, CallersFacts
  <1>7. Wasm!Callers = FramesOf(cs) /\ Wasm!Op = Op /\ Wasm!Running(Wasm!CallKinds)
    BY <1>1, WasmAt, SameProgram DEF CallKinds
  <1> DEFINE n == b + Params[g]
  <1>8. n - Params[g] \in Nat
    BY <1>3, <1>4
  <1> HIDE DEF cs, b, n
  <1>9. PushLocalCall(g, cs, n) \/ PushHostCall(g, cs, n)
    BY <1>2 DEF n
  <1>10. Wasm!EnterFunction(g, Wasm!Callers)
    BY <1>1, <1>4, <1>6, <1>7, <1>8, <1>9, EntersWasm
  <1>11. g \in Wasm!Op.callees /\ Wasm!Op.k # "Call"
    BY <1>1, <1>2, <1>7
  <1>12. QED
    BY <1>7, <1>10, <1>11 DEF Wasm!Call

LEMMA ReturnsWasm ==
  ASSUME StoreTyped, Return
  PROVE  Wasm!Return
  <1>1. /\ mode = "running" /\ callStack # <<>> /\ Op.k \in {"Return"} /\ mode' = "running"
        /\ callStack' = CallersOf(callStack) /\ exceptions' = exceptions
    BY DEF Return, Fetch
  <1>2. Wasm!Callers = FramesOf(CallersOf(callStack)) /\ Wasm!Running({"Return"})
    BY <1>1, WasmAt
  <1>3. Status' = Status /\ Awaited' = Awaited /\ Outcome' = Outcome
    BY <1>1, GoesOn
  <1>4. FramesOf(callStack)' = Wasm!Callers
    BY <1>1, <1>2
  <1>5. QED
    BY <1>1, <1>2, <1>3, <1>4 DEF Wasm!Return

LEMMA CompletesWasm ==
  ASSUME StoreTyped, Complete
  PROVE  Wasm!Done
  <1>1. /\ mode = "running" /\ callStack = <<>> /\ callStack' = <<>> /\ exceptions' = exceptions
        /\ mode' = "ready" /\ pendingArity' = None /\ result' = "completed"
    BY DEF Complete, GiveBack
  <1>2. Wasm!End("completed")
    BY <1>1, EndsWasm
  <1>3. Status = "running"
    BY <1>1 DEF Status
  <1>4. FramesOf(callStack) = <<>>
    BY <1>1, FramesFacts, TypeFacts DEF StoreTyped
  <1>5. QED
    BY <1>2, <1>3, <1>4 DEF Wasm!Done

----------------------------------------------------------------------------
(***************************************************************************)
(* What the embedder does.                                                 *)
(***************************************************************************)
LEMMA InvokesWasm ==
  ASSUME StoreTyped, NEW f \in Exported, Invoke(f)
  PROVE  f \in Exported \cap LocalFunc /\ Wasm!Invoke(f)
  <1>1. callStack = <<>> /\ len = 0
    BY IdleIsEmpty DEF Invoke
  <1>2. /\ mode = "ready" /\ pendingArity = None /\ f \in LocalFunc /\ mode' = "running"
        /\ callStack' = Append(callStack, Activation(f, 0)) /\ exceptions' = exceptions
    BY <1>1 DEF Invoke, Enter
  <1>3. callStack \in Seq(ActivationType) /\ 0 \in Nat
    BY TypeFacts DEF StoreTyped
  <1>4. FramesOf(callStack)' = Append(FramesOf(callStack), [f |-> f, pc |-> 1])
    BY <1>2, <1>3, FramesAppend
  <1>5. FramesOf(callStack) = <<>>
    BY <1>1, <1>3, FramesFacts
  <1>6. FramesOf(callStack)' = <<[f |-> f, pc |-> 1]>>
    BY <1>4, <1>5
  <1>7. /\ Status = "idle" /\ Status' = "running" /\ Awaited' = Awaited /\ Outcome' = "none"
    BY <1>2 DEF Status, Awaited, Outcome, AwaitingHost, AwaitingFuel
  <1>8. QED
    BY <1>2, <1>6, <1>7 DEF Wasm!Invoke

LEMMA HostOnlyWasm ==
  ASSUME StoreTyped, NEW f \in Exported, InvokeHost(f)
  PROVE  Wasm!HostOnly
  <1>1. /\ mode = "ready" /\ pendingArity = None /\ mode' = "ready" /\ pendingArity' = None
        /\ result' = "suspended" /\ callStack' = callStack /\ exceptions' = exceptions
    BY DEF InvokeHost, GiveBack, storeButLen
  <1>2. Status = "idle" /\ Status' = "idle" /\ Awaited' = Awaited /\ Outcome' = "none"
    BY <1>1 DEF Status, Awaited, Outcome, AwaitingHost, AwaitingFuel
  <1>3. QED
    BY <1>1, <1>2 DEF Wasm!HostOnly

LEMMA HostReturnsWasm ==
  ASSUME StoreTyped, ResumeWith
  PROVE  Wasm!HostReturns
  <1>1. /\ mode = "ready" /\ pendingArity # None /\ result = "suspended" /\ mode' = "running"
        /\ callStack' = callStack /\ exceptions' = exceptions
    BY DEF ResumeWith, Enter
  <1>2. Status = "waiting" /\ Status' = "running" /\ Awaited' = {} /\ Outcome' = Outcome
    BY <1>1 DEF Status, Awaited, Outcome, AwaitingHost, AwaitingFuel
  <1>3. QED
    BY <1>1, <1>2 DEF Wasm!HostReturns

\* Running out of fuel and being given more is nothing the program can tell.
LEMMA PausesStutter ==
  ASSUME StoreTyped, OutOfFuel \/ Resume \/ SetFuel \/ UNCHANGED vars
  PROVE  UNCHANGED Wasm!wvars
  <1>1. callStack' = callStack /\ exceptions' = exceptions
    BY DEF OutOfFuel, Resume, SetFuel, vars, store
  <1>2. Status' = Status /\ Awaited' = Awaited /\ Outcome' = Outcome
    <2>1. CASE OutOfFuel
      <3>1. runArity # None
        BY TypeFacts DEF StoreTyped, None
      <3>2. QED
        BY <2>1, <3>1 DEF OutOfFuel, GiveBack, Status, Awaited, Outcome, AwaitingHost, AwaitingFuel
    <2>2. CASE Resume
      BY <2>2 DEF Resume, Enter, store, Status, Awaited, Outcome, AwaitingHost, AwaitingFuel
    <2>3. CASE SetFuel \/ UNCHANGED vars
      BY <2>3 DEF SetFuel, vars, store, Status, Awaited, Outcome, AwaitingHost, AwaitingFuel
    <2>4. QED
      BY <2>1, <2>2, <2>3
  <1>3. QED
    BY <1>1, <1>2 DEF Wasm!wvars

----------------------------------------------------------------------------
(***************************************************************************)
(* Exceptions.  The topmost frame that matches belongs to the lexically    *)
(* innermost try_table that does: every try_table has its frame, and the   *)
(* frames are ordered by nesting.                                          *)
(***************************************************************************)
LEMMA HandlersOfWasm ==
  ASSUME StoreTyped, mode = "running"
  PROVE  /\ DOMAIN FramesOf(callStack) = 1..Len(callStack)
         /\ \A d \in 1..Len(callStack) :
              /\ Wasm!Handlers(d) = Scope[callStack[d].f][callStack[d].pc]
              /\ DOMAIN Wasm!Handlers(d) = 1..Len(Scope[callStack[d].f][callStack[d].pc])
  <1>1. callStack \in Seq(ActivationType)
    BY TypeFacts DEF StoreTyped
  <1>2. ASSUME NEW d \in 1..Len(callStack)
        PROVE  /\ Wasm!Handlers(d) = Scope[callStack[d].f][callStack[d].pc]
               /\ DOMAIN Wasm!Handlers(d) = 1..Len(Scope[callStack[d].f][callStack[d].pc])
    <2>1. FramesOf(callStack)[d] = [f |-> callStack[d].f, pc |-> callStack[d].pc]
      BY <1>1, FramesFacts
    <2>2. Wasm!Handlers(d) = Scope[callStack[d].f][callStack[d].pc]
      BY <2>1 DEF Wasm!Handlers
    <2>3. Scope[callStack[d].f][callStack[d].pc] \in Seq(Handler)
      BY ActivationLive
    <2>4. QED
      BY <2>2, <2>3, LenProperties
  <1>3. QED
    BY <1>1, <1>2, FramesFacts

\* Further in: handler m of activation j lies within handler l of activation d.
FurtherIn(j, m, d, l) == j > d \/ (j = d /\ m > l)

LEMMA Innermost ==
  ASSUME StoreTyped, mode = "running", Installed(callStack, catchStack),
         NEW t \in Tag, NEW i \in Catching(t), \A k \in Catching(t) : k <= i,
         NEW c, c = catchStack[i],
         NEW j \in 1..Len(callStack), NEW m \in 1..Len(Scope[callStack[j].f][callStack[j].pc]),
         FurtherIn(j, m, c.depth, Level(c.h))
  PROVE  ~Matches(Scope[callStack[j].f][callStack[j].pc][m], t)
  <1>1. PICK s, l, d : s = Scope[callStack[j].f][callStack[j].pc] /\ l = Level(c.h) /\ d = c.depth
    OBVIOUS
  <1>2. SUFFICES ASSUME Matches(s[m], t) PROVE FALSE
    BY <1>1
  <1>3. catchStack \in Seq(CatchType) /\ Scoped(callStack, catchStack)
    BY Running, TypeFacts
  <1>4. PICK k \in 1..Len(catchStack) : catchStack[k].depth = j /\ catchStack[k].h = s[m]
    BY <1>1 DEF Installed
  <1>5. k \in Catching(t) /\ k <= i
    BY <1>2, <1>3, <1>4, LenProperties DEF Catching
  <1>6. Level(s[m]) = m
    BY <1>1, ActivationLive, ScopeLevel
  <1>7. i \in 1..Len(catchStack)
    BY <1>3, LenProperties DEF Catching
  <1>8. d \in 1..Len(callStack) /\ l \in Nat
    BY <1>1, <1>3, <1>7, FrameScope, LevelNat
  <1>9. Len(catchStack) \in Nat /\ Len(callStack) \in Nat /\ Len(s) \in Nat
    BY <1>1, <1>3, ActivationLive, TypeFacts, LenProperties DEF StoreTyped
  <1>10. CASE k = i
    <2>1. j = d /\ m = l
      BY <1>1, <1>4, <1>6, <1>10
    <2>2. QED
      BY <1>1, <1>8, <1>9, <2>1 DEF FurtherIn
  <1>11. CASE k < i
    <2>1. Outside(catchStack[k], c)
      BY <1>3, <1>7, <1>11 DEF Scoped
    <2>2. j < d \/ (j = d /\ m < l)
      BY <1>1, <1>4, <1>6, <2>1 DEF Outside
    <2>3. j > d \/ (j = d /\ m > l)
      BY <1>1 DEF FurtherIn
    <2>4. j \in Int /\ d \in Int /\ m \in Int /\ l \in Int
      BY <1>1, <1>8, <1>9
    <2>5. QED
      BY ONLY <2>2, <2>3, <2>4
  <1>12. QED
    BY <1>5, <1>7, <1>9, <1>10, <1>11

LEMMA LandsWasm ==
  ASSUME StoreTyped, mode = "running", callStack # <<>>, Installed(callStack, catchStack),
         NEW t \in Tag, NEW i \in Catching(t), \A j \in Catching(t) : j <= i, Land(t, i)
  PROVE  Wasm!Raise(t)
  <1>0. PICK c, cl, a, o, full : Landing(t, i, c, cl, a, o, full)
    BY DEF Landing
  <1>1. PICK d, l, s : d = c.depth /\ l = Level(c.h) /\ s = Scope[a.f][a.pc]
    OBVIOUS
  <1>2. c = catchStack[i] /\ a = callStack[d] /\ cl = FirstClause(c.h, t)
    BY <1>0, <1>1 DEF Landing
  <1>3. callStack \in Seq(ActivationType) /\ catchStack \in Seq(CatchType)
    BY Running, TypeFacts
  <1>4. i \in 1..Len(catchStack) /\ cl.target \in Nat /\ Matches(c.h, t)
    BY <1>0, CaughtScope
  <1>5. d \in 1..Len(callStack) /\ l \in 1..Len(s) /\ s[l] = c.h
    BY <1>1, <1>2, <1>4, FrameScope
  <1>6. d \in 0..Len(callStack) /\ d \in Nat /\ Smaller(d, Depth) = d
    <2>1. Len(callStack) \in Nat
      BY <1>3, LenProperties
    <2>2. QED
      BY <1>5, <2>1 DEF Smaller, Depth
  <1> DEFINE cs == SubSeq(callStack, 1, d)
             fs == FramesOf(callStack)
  <1>7. /\ callStack' = GoTo(cs, cl.target) /\ mode' = mode
        /\ exceptions' = IF cl.kind \in RefKinds THEN Append(exceptions, t) ELSE exceptions
    BY <1>1, <1>2, <1>6 DEF Land
  <1>8. cs \in Seq(ActivationType) /\ cs # <<>>
    <2>1. cs \in Seq(ActivationType) /\ Len(cs) = d
      BY <1>3, <1>6, PrefixFacts
    <2>2. QED
      BY <1>5, <2>1, EmptySeq
  <1>9. FramesOf(cs) = SubSeq(fs, 1, d)
    BY <1>3, <1>6, FramesCut
  <1> HIDE DEF cs, fs
  <1>10. FramesOf(callStack') = Wasm!GoTo(SubSeq(fs, 1, d), cl.target)
    BY <1>4, <1>7, <1>8, <1>9, FramesGoTo
  <1>11. /\ DOMAIN fs = 1..Len(callStack)
         /\ \A j \in 1..Len(callStack) :
              /\ Wasm!Handlers(j) = Scope[callStack[j].f][callStack[j].pc]
              /\ DOMAIN Wasm!Handlers(j) = 1..Len(Scope[callStack[j].f][callStack[j].pc])
    BY HandlersOfWasm DEF fs
  <1>12. d \in DOMAIN fs /\ Wasm!Handlers(d) = s /\ l \in DOMAIN Wasm!Handlers(d)
    BY <1>1, <1>2, <1>5, <1>11
  <1>13. Wasm!Matches(Wasm!Handlers(d)[l], t) /\ cl = Wasm!FirstClause(Wasm!Handlers(d)[l], t)
    BY <1>2, <1>4, <1>5, <1>12, SameProgram
  <1>14. ASSUME NEW j \in DOMAIN fs, NEW m \in DOMAIN Wasm!Handlers(j), FurtherIn(j, m, d, l)
         PROVE  ~Wasm!Matches(Wasm!Handlers(j)[m], t)
    <2>1. /\ j \in 1..Len(callStack) /\ m \in 1..Len(Scope[callStack[j].f][callStack[j].pc])
          /\ Wasm!Handlers(j) = Scope[callStack[j].f][callStack[j].pc]
      BY <1>11, <1>14
    <2>2. ~Matches(Scope[callStack[j].f][callStack[j].pc][m], t)
      BY <1>1, <1>2, <1>14, <2>1, Innermost
    <2>3. QED
      BY <2>1, <2>2, SameProgram
  <1>15. FramesOf(callStack)' = Wasm!GoTo(SubSeq(fs, 1, d), cl.target)
    BY <1>10
  <1>16. exceptions' = IF cl.kind \in Wasm!RefKinds THEN Append(exceptions, t) ELSE exceptions
    BY <1>7, SameProgram
  <1>17. Status' = Status /\ Awaited' = Awaited /\ Outcome' = Outcome
    BY <1>7, GoesOn
  <1>18. QED
    BY <1>12, <1>13, <1>14, <1>15, <1>16, <1>17 DEF Wasm!Raise, FurtherIn, fs

LEMMA UncaughtWasm ==
  ASSUME StoreTyped, mode = "running", Installed(callStack, catchStack),
         NEW t \in Tag, Catching(t) = {}, Fail("exception")
  PROVE  Wasm!Raise(t)
  <1>1. Wasm!End("exception")
    BY FailsWasm
  <1>2. ASSUME NEW j \in DOMAIN FramesOf(callStack), NEW m \in DOMAIN Wasm!Handlers(j)
        PROVE  ~Wasm!Matches(Wasm!Handlers(j)[m], t)
    <2>1. /\ j \in 1..Len(callStack) /\ m \in 1..Len(Scope[callStack[j].f][callStack[j].pc])
          /\ Wasm!Handlers(j) = Scope[callStack[j].f][callStack[j].pc]
      BY <1>2, HandlersOfWasm
    <2>2. PICK k \in 1..Len(catchStack) :
            catchStack[k].h = Scope[callStack[j].f][callStack[j].pc][m]
      BY <2>1 DEF Installed
    <2>3. k \in DOMAIN catchStack
      BY TypeFacts, LenProperties DEF StoreTyped
    <2>4. ~Matches(catchStack[k].h, t)
      BY <2>3 DEF Catching
    <2>5. QED
      BY <2>1, <2>2, <2>4, SameProgram
  <1>3. QED
    BY <1>1, <1>2 DEF Wasm!Raise

LEMMA RaisesWasm ==
  ASSUME StoreTyped, mode = "running", callStack # <<>>, Installed(callStack, catchStack),
         NEW t \in Tag, Unwind(t)
  PROVE  Wasm!Raise(t)
  BY LandsWasm, UncaughtWasm DEF Unwind

LEMMA ThrowsWasm ==
  ASSUME StoreTyped, Installed(callStack, catchStack), ExnRefsResolve, Throw \/ ThrowRef
  PROVE  Wasm!Throw \/ Wasm!ThrowRef
  <1>1. mode = "running" /\ callStack # <<>>
    BY DEF Throw, ThrowRef, Fetch
  <1>2. CASE Throw
    <2>1. Op.k \in {"Throw"} /\ Unwind(Op.tag)
      BY <1>2 DEF Throw, Fetch
    <2>2. Op.tag \in Tag
      BY <1>1, <2>1, AtTop, OpFields
    <2>3. Wasm!Op = Op /\ Wasm!Running({"Throw"})
      BY <1>1, <2>1, WasmAt
    <2>4. Wasm!Raise(Op.tag)
      BY <1>1, <2>1, <2>2, RaisesWasm
    <2>5. QED
      BY <2>3, <2>4 DEF Wasm!Throw
  <1>3. CASE ThrowRef
    <2>1. Op.k \in {"ThrowRef"}
      BY <1>3 DEF ThrowRef, Fetch
    <2>2. exceptions \in Seq(Tag) /\ refs \in Nat /\ Len(exceptions) \in Nat
      BY TypeFacts, LenProperties DEF StoreTyped
    <2>3. PICK x \in 1..refs : \/ x \in DOMAIN exceptions /\ Unwind(exceptions[x])
                               \/ x \notin DOMAIN exceptions
      BY <1>3 DEF ThrowRef
    <2>4. x \in DOMAIN exceptions
      BY <2>2 DEF ExnRefsResolve
    <2>5. Unwind(exceptions[x]) /\ exceptions[x] \in Tag
      BY <2>2, <2>3, <2>4, ElementOfSeq
    <2>6. Wasm!Raise(exceptions[x])
      BY <1>1, <2>5, RaisesWasm
    <2>7. Wasm!Running({"ThrowRef"})
      BY <1>1, <2>1, WasmAt
    <2>8. QED
      BY <2>4, <2>6, <2>7 DEF Wasm!ThrowRef
  <1>4. QED
    BY <1>2, <1>3

----------------------------------------------------------------------------
LEMMA InitWasm == Init => Wasm!Init
  <1> SUFFICES ASSUME Init PROVE Wasm!Init
    OBVIOUS
  <1>1. callStack = <<>> /\ exceptions = <<>>
    BY DEF Init
  <1>2. Status = "idle" /\ Awaited = {} /\ Outcome = "none"
    BY DEF Init, Status, Awaited, Outcome, AwaitingHost, AwaitingFuel
  <1>3. FramesOf(callStack) = <<>>
    <2>1. callStack \in Seq(ActivationType)
      BY <1>1
    <2>2. QED
      BY <1>1, <2>1, FramesFacts
  <1>4. QED
    BY <1>1, <1>2, <1>3 DEF Wasm!Init

LEMMA StepsWasm ==
  ASSUME StoreTyped, RoomKept, Installed(callStack, catchStack), ExnRefsResolve, [Next]_vars
  PROVE  [Wasm!Next]_(Wasm!wvars)
  <1>1. CASE OutOfFuel \/ Resume \/ SetFuel \/ UNCHANGED vars
    BY <1>1, PausesStutter
  <1>2. CASE Complete
    BY <1>2, CompletesWasm DEF Wasm!Next
  <1>3. CASE TrapOp \/ CallTooDeep
    BY <1>3, TrapWasm DEF Wasm!Next
  <1>4. CASE Compute \/ Branch \/ TryCatchPush \/ TryCatchPop
    BY <1>4, AdvancesWasm DEF Wasm!Next
  <1>5. CASE Call
    BY <1>5, CallsWasm DEF Wasm!Next
  <1>6. CASE ReturnCall
    BY <1>6, TailCallsWasm DEF Wasm!Next
  <1>7. CASE Return
    BY <1>7, ReturnsWasm DEF Wasm!Next
  <1>8. CASE Throw \/ ThrowRef
    BY <1>8, ThrowsWasm DEF Wasm!Next
  <1>9. CASE PcPastEnd
    <2>1. mode = "running" /\ callStack # <<>> /\ Top.pc \notin DOMAIN Code[Top.f]
      BY <1>9 DEF PcPastEnd
    <2>2. QED
      BY <2>1, AtTop, LiveOp
  <1>10. CASE \E f \in Exported : Invoke(f)
    BY <1>10, InvokesWasm, SameProgram DEF Wasm!Next
  <1>11. CASE \E f \in Exported : InvokeHost(f)
    BY <1>11, HostOnlyWasm DEF Wasm!Next
  <1>12. CASE ResumeWith
    BY <1>12, HostReturnsWasm DEF Wasm!Next
  <1>13. QED
    BY <1>1, <1>2, <1>3, <1>4, <1>5, <1>6, <1>7, <1>8, <1>9, <1>10, <1>11, <1>12
    DEF Next, Step, Embedder

(***************************************************************************)
(* A store that is never restored runs a program as WebAssembly does: with *)
(* the value stack, the catch stack, fuel and suspensions forgotten, every *)
(* step of run() and of the embedder is a step of WasmMachine or no step   *)
(* at all, and an exception reaches the lexically innermost try_table that *)
(* catches it (runtime/store.rs, run and handle_exception).                *)
(***************************************************************************)
THEOREM InterpImplementsWasm == Spec => ImplementsWasm
  <1>1. Init => StoreTyped /\ RoomKept /\ Installed(callStack, catchStack) /\ ExnRefsResolve
    BY InitTyped, InitFits, NothingInstalled DEF Init, ExnRefsResolve
  <1> DEFINE Inv == StoreTyped /\ RoomKept /\ Installed(callStack, catchStack) /\ ExnRefsResolve
  <1>2. Inv /\ [Next]_vars => Inv'
    BY NextKeeps, NextFits, NextInstalls, RefsResolve
  <1>3. Inv /\ [Next]_vars => [Wasm!Next]_(Wasm!wvars)
    BY StepsWasm
  <1> HIDE DEF Inv
  <1>4. Init => Inv
    BY <1>1 DEF Inv
  <1>5. QED
    BY <1>2, <1>3, <1>4, InitWasm, PTL DEF Spec, ImplementsWasm, Wasm!Spec
=============================================================================
