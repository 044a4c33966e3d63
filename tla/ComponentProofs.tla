-------------------------- MODULE ComponentProofs ---------------------------
(***************************************************************************)
(* Paused component calls, for any component, any lowering and lifting of  *)
(* values, any fuel and any order of the embedder's calls: what is lifted  *)
(* at the end of a paused call is what its own function returns.           *)
(***************************************************************************)
EXTENDS ComponentCalls, WellFoundedInduction, TLAPS

(***************************************************************************)
(* Induction over the numbers up to n, by its set.                         *)
(***************************************************************************)
LEMMA Least ==
  ASSUME NEW T, T \subseteq Nat, T # {}
  PROVE  \E n \in T : \A m \in T : n <= m
<1>1. PICK n \in T : \A m \in T : ~ (<<m, n>> \in OpToRel(<, Nat))
  BY NatLessThanWellFounded, WFMin, Zenon
<1>2. \A m \in T : ~ (m < n)
  BY <1>1 DEF OpToRel
<1> QED BY <1>2

LEMMA UpTo ==
  ASSUME NEW n \in Nat, NEW T, 0 \in T, \A i \in 0..(n - 1) : i \in T => i + 1 \in T
  PROVE  \A i \in 0..n : i \in T
<1> SUFFICES ASSUME NEW i \in 0..n, i \notin T PROVE FALSE
  OBVIOUS
<1> DEFINE B == {j \in 0..n : j \notin T}
<1>0. B \subseteq Nat /\ B # {}
  OBVIOUS
<1>1. PICK j \in B : \A k \in B : j <= k
  <2> HIDE DEF B
  <2> QED BY <1>0, Least
<1>2. j # 0 /\ j - 1 \in 0..(n - 1) /\ j - 1 \notin B
  BY <1>1
<1>3. j - 1 \in T
  BY <1>2
<1>4. (j - 1) + 1 \in T
  BY <1>2, <1>3
<1> QED BY <1>4, <1>2

----------------------------------------------------------------------------
(***************************************************************************)
(* A store in the middle of a call, and the executions it pauses.          *)
(***************************************************************************)
Whole(s) == DOMAIN s = {"core", "fuel", "paused", "flat", "answer", "err"}

Execution(e) == DOMAIN e = {"fn", "args", "left", "by"}

LEMMA FailIs ==
  ASSUME NEW s, Whole(s), NEW err
  PROVE  Whole(Fail(s, err)) /\ Fail(s, err).err = err /\ Fail(s, err).paused = s.paused
  BY DEF Whole, Fail

LEMMA PushFlatIs ==
  ASSUME NEW s, Whole(s), NEW raws
  PROVE  Whole(PushFlat(s, raws)) /\ PushFlat(s, raws).err = s.err
         /\ PushFlat(s, raws).paused = s.paused
  BY DEF Whole, PushFlat

LEMMA PutIs ==
  ASSUME NEW s, Whole(s), s.err = "none", NEW instance, NEW ptr, NEW chunks
  PROVE  /\ Whole(Put(s, instance, ptr, chunks)) /\ Put(s, instance, ptr, chunks).paused = s.paused
         /\ Put(s, instance, ptr, chunks).err \in {"none", "trapped"}
<1> DEFINE w == Written(s.core[instance].mem, ptr, chunks)
           t == [s EXCEPT !.core[instance].mem = w.mem]
<1>1. Whole(t) /\ t.err = s.err /\ t.paused = s.paused
  <2> HIDE DEF w
  <2> QED BY DEF Whole
<1>2. Put(s, instance, ptr, chunks) = IF w.ok THEN t ELSE Fail(t, "trapped")
  BY DEF Put
<1> HIDE DEF w, t
<1>3. Whole(Fail(t, "trapped")) /\ Fail(t, "trapped").err = "trapped"
      /\ Fail(t, "trapped").paused = s.paused
  BY <1>1, FailIs
<1> QED BY <1>1, <1>2, <1>3

LEMMA BodyIs ==
  ASSUME NEW s, Whole(s), s.err = "none", NEW fn, NEW args
  PROVE  /\ Whole(Body(s, fn, args)) /\ Body(s, fn, args).paused = s.paused
         /\ Body(s, fn, args).err \in {"none", "trapped"}
<1>1. Whole(Echoed(s, fn, args)) /\ Echoed(s, fn, args).paused = s.paused
      /\ Echoed(s, fn, args).err = "none"
  BY DEF Whole, Echoed
<1>2. Whole(StoredBack(s, fn, args)) /\ StoredBack(s, fn, args).paused = s.paused
      /\ StoredBack(s, fn, args).err \in {"none", "trapped"}
  BY PutIs DEF StoredBack
<1>3. Whole(Allocated(s, fn, args)) /\ Allocated(s, fn, args).paused = s.paused
      /\ Allocated(s, fn, args).err = "none"
  BY DEF Whole, Allocated
<1>4. Whole(Fail(s, "trapped")) /\ Fail(s, "trapped").paused = s.paused
      /\ Fail(s, "trapped").err = "trapped"
  BY FailIs
<1>5. \/ Body(s, fn, args) = Echoed(s, fn, args)
      \/ Body(s, fn, args) = StoredBack(s, fn, args)
      \/ Body(s, fn, args) = Allocated(s, fn, args)
      \/ Body(s, fn, args) = Fail(s, "trapped")
  BY DEF Body
<1> QED BY <1>1, <1>2, <1>3, <1>4, <1>5

\* An execution ends, or stays paused as the execution it is.
LEMMA RunIs ==
  ASSUME NEW s, Whole(s), s.err = "none", NEW e, Execution(e)
  PROVE  /\ Whole(Run(s, e))
         /\ \/ Run(s, e).paused = <<>> /\ Run(s, e).err \in {"none", "trapped"}
            \/ /\ Run(s, e).err = "fuel"
               /\ \E p : Run(s, e).paused = <<p>> /\ Execution(p) /\ p.fn = e.fn /\ p.by = e.by
<1>1. CASE s.fuel < e.left
  <2> DEFINE p == [e EXCEPT !.left = @ - s.fuel]
  <2>1. Execution(p) /\ p.fn = e.fn /\ p.by = e.by
    BY DEF Execution
  <2>2. Run(s, e) = [s EXCEPT !.fuel = 0, !.paused = <<p>>, !.err = "fuel"]
    BY <1>1 DEF Run
  <2> HIDE DEF p
  <2>3. Whole(Run(s, e)) /\ Run(s, e).err = "fuel" /\ Run(s, e).paused = <<p>>
    BY <2>2 DEF Whole
  <2> QED BY <2>1, <2>3
<1>2. CASE ~(s.fuel < e.left)
  <2> DEFINE t == [s EXCEPT !.fuel = @ - e.left, !.paused = <<>>]
  <2>1. Whole(t) /\ t.err = "none" /\ t.paused = <<>>
    BY DEF Whole
  <2>2. Run(s, e) = Body(t, e.fn, e.args)
    BY <1>2 DEF Run
  <2> HIDE DEF t
  <2> QED BY <2>1, <2>2, BodyIs
<1> QED BY <1>1, <1>2

LEMMA InvokeIs ==
  ASSUME NEW s, Whole(s), s.err = "none", NEW fn, NEW args, NEW by, NEW r,
         r = invoke_by_addr(s, fn, args, by)
  PROVE  /\ Whole(r)
         /\ \/ r.paused = s.paused /\ r.err = "refused"
            \/ s.paused = <<>> /\ r.paused = <<>> /\ r.err \in {"none", "trapped"}
            \/ /\ s.paused = <<>> /\ r.err = "fuel"
               /\ \E p : r.paused = <<p>> /\ Execution(p) /\ p.fn = fn /\ p.by = by
<1>1. CASE s.paused # <<>> \/ Len(args) # fn.params
  BY <1>1, FailIs DEF invoke_by_addr
<1>2. CASE ~(s.paused # <<>> \/ Len(args) # fn.params)
  <2> DEFINE e == [fn |-> fn, args |-> args, left |-> Cost(fn), by |-> by]
  <2>1. Execution(e) /\ e.fn = fn /\ e.by = by
    BY DEF Execution
  <2>2. r = Run(s, e) /\ s.paused = <<>>
    BY <1>2 DEF invoke_by_addr
  <2> HIDE DEF e
  <2> QED BY <2>1, <2>2, RunIs
<1> QED BY <1>1, <1>2

----------------------------------------------------------------------------
(***************************************************************************)
(* Lowering changes the executions only by a realloc that runs out of      *)
(* fuel, and then the call is refused.                                     *)
(***************************************************************************)
Lowers(s) ==
  /\ Whole(s)
  /\ \/ s.paused = paused /\ s.err \in {"none", "refused", "trapped", "overflow"}
     \/ /\ paused = <<>> /\ s.err = "refused"
        /\ \E p : s.paused = <<p>> /\ Execution(p) /\ p.by = "realloc"

LEMMA StoreLowers == Lowers(Store) /\ Store.err = "none"
  BY DEF Lowers, Store, Whole

LEMMA FailLowers ==
  ASSUME NEW s, Lowers(s), s.err = "none", NEW err \in {"refused", "trapped", "overflow"}
  PROVE  Lowers(Fail(s, err))
  BY FailIs DEF Lowers

LEMMA PushLowers ==
  ASSUME NEW s, Lowers(s), NEW raws
  PROVE  Lowers(PushFlat(s, raws))
  BY PushFlatIs DEF Lowers

LEMMA PutLowers ==
  ASSUME NEW s, Lowers(s), s.err = "none", NEW instance, NEW ptr, NEW chunks
  PROVE  Lowers(Put(s, instance, ptr, chunks))
  BY PutIs DEF Lowers

LEMMA ReallocLowers ==
  ASSUME NEW s, Lowers(s), s.err = "none", NEW f, NEW align, NEW size
  PROVE  Lowers(call_realloc(s, f, align, size))
<1>1. PICK r : r = invoke_by_addr(s, f.realloc[1], <<0, 0, align, size>>, "realloc")
  OBVIOUS
<1>2. Whole(s) /\ s.paused = paused
  BY DEF Lowers
<1>3. /\ Whole(r)
      /\ \/ r.paused = paused /\ r.err = "refused"
         \/ r.paused = paused /\ r.err \in {"none", "trapped"}
         \/ /\ paused = <<>> /\ r.err = "fuel"
            /\ \E p : r.paused = <<p>> /\ Execution(p) /\ p.by = "realloc"
  BY <1>1, <1>2, InvokeIs
<1>4. call_realloc(s, f, align, size) = [r EXCEPT !.err = IF r.err = "fuel" THEN "refused" ELSE r.err]
  BY <1>1 DEF call_realloc, MustEnd
<1>5. PICK t : t = [r EXCEPT !.err = IF r.err = "fuel" THEN "refused" ELSE r.err]
  OBVIOUS
<1>6. Whole(t) /\ t.paused = r.paused /\ t.err = IF r.err = "fuel" THEN "refused" ELSE r.err
  BY <1>3, <1>5 DEF Whole
<1>7. Lowers(t)
  BY <1>3, <1>6 DEF Lowers
<1> QED BY <1>4, <1>5, <1>7

LEMMA ChunksLower ==
  ASSUME NEW s, Lowers(s), s.err = "none", NEW f, NEW i
  PROVE  Lowers(LowerChunks(s, f, i))
<1>1. CASE f.memory = 0 \/ f.realloc = <<>>
  BY <1>1, FailLowers DEF LowerChunks
<1>2. CASE ~(f.memory = 0 \/ f.realloc = <<>>)
  <2> DEFINE r == call_realloc(s, f, i.align, i.size)
             p == Put(r, f.memory, Pointer(r.answer[1]), i.chunks)
             q == PushFlat(p, <<p.answer[1], RawI32(i.len)>>)
  <2>1. LowerChunks(s, f, i) = IF r.err = "none" THEN IF p.err = "none" THEN q ELSE p ELSE r
    BY <1>2 DEF LowerChunks, Then
  <2>2. Lowers(r)
    BY ReallocLowers
  <2>3. r.err = "none" => Lowers(p)
    <3> HIDE DEF r
    <3> QED BY <2>2, PutLowers
  <2>4. r.err = "none" => Lowers(q)
    <3> HIDE DEF p, r
    <3> QED BY <2>3, PushLowers
  <2> HIDE DEF p, q, r
  <2> QED BY <2>1, <2>2, <2>3, <2>4
<1> QED BY <1>1, <1>2

LEMMA StepLowers ==
  ASSUME NEW s, Lowers(s), s.err = "none", NEW f, NEW i
  PROVE  Lowers(Lower(s, f, i))
<1>1. Lowers(PushFlat(s, i.raws)) /\ Lowers(LowerChunks(s, f, i)) /\ Lowers(Fail(s, "refused"))
      /\ Lowers(Fail(s, "overflow"))
  BY PushLowers, ChunksLower, FailLowers
<1>2. \/ Lower(s, f, i) = PushFlat(s, i.raws)
      \/ Lower(s, f, i) = LowerChunks(s, f, i)
      \/ Lower(s, f, i) = Fail(s, "refused")
      \/ Lower(s, f, i) = Fail(s, "overflow")
  BY DEF Lower
<1> QED BY <1>1, <1>2

\* The store after each step of a lowering.
LoweredBy(g, s, f, steps, k) ==
  /\ g[0] = s
  /\ \A n \in 1..k : g[n] = IF g[n - 1].err = "none" THEN Lower(g[n - 1], f, steps[n]) ELSE g[n - 1]

LEMMA LoweringExists ==
  ASSUME NEW s, NEW f, NEW steps, NEW m \in Nat
  PROVE  \E g : g = [n \in 0..m |-> g[n]] /\ LoweredBy(g, s, f, steps, m)
<1> DEFINE T == {k \in 0..m : \E g : g = [n \in 0..k |-> g[n]] /\ LoweredBy(g, s, f, steps, k)}
<1>1. 0 \in T
  <2>1. PICK g : g = [n \in 0..0 |-> s]
    OBVIOUS
  <2>2. g = [n \in 0..0 |-> g[n]] /\ g[0] = s
    BY <2>1
  <2>3. LoweredBy(g, s, f, steps, 0)
    BY <2>2 DEF LoweredBy
  <2> QED BY <2>2, <2>3
<1>2. ASSUME NEW k \in 0..(m - 1), k \in T PROVE k + 1 \in T
  <2>1. PICK g : g = [n \in 0..k |-> g[n]] /\ LoweredBy(g, s, f, steps, k)
    BY <1>2
  <2>2. PICK x : x = IF g[k].err = "none" THEN Lower(g[k], f, steps[k + 1]) ELSE g[k]
    OBVIOUS
  <2>3. PICK h : h = [n \in 0..(k + 1) |-> IF n = k + 1 THEN x ELSE g[n]]
    OBVIOUS
  <2>4. h = [n \in 0..(k + 1) |-> h[n]]
    BY <2>3
  <2>5. h[k + 1] = x /\ \A n \in 0..k : h[n] = g[n]
    BY <2>3
  <2>6. h[0] = s
    BY <2>1, <2>5 DEF LoweredBy
  <2>7. ASSUME NEW n \in 1..(k + 1)
        PROVE  h[n] = IF h[n - 1].err = "none" THEN Lower(h[n - 1], f, steps[n]) ELSE h[n - 1]
    <3>1. n - 1 \in 0..k
      OBVIOUS
    <3>2. h[n - 1] = g[n - 1]
      BY <2>5, <3>1
    <3>3. CASE n = k + 1
      <4>1. n - 1 = k
        BY <3>3
      <4> QED BY ONLY <2>2, <2>5, <3>2, <3>3, <4>1
    <3>4. CASE n # k + 1
      <4>1. n \in 1..k /\ n \in 0..k
        BY <3>4
      <4>2. g[n] = IF g[n - 1].err = "none" THEN Lower(g[n - 1], f, steps[n]) ELSE g[n - 1]
        BY <2>1, <4>1 DEF LoweredBy
      <4>3. h[n] = g[n]
        BY <2>5, <4>1
      <4> QED BY ONLY <3>2, <4>2, <4>3
    <3> QED BY <3>3, <3>4
  <2>8. LoweredBy(h, s, f, steps, k + 1)
    BY ONLY <2>6, <2>7 DEF LoweredBy
  <2>9. k + 1 \in 0..m
    OBVIOUS
  <2> QED BY <2>4, <2>8, <2>9
<1> HIDE DEF T
<1>3. m \in T
  <2>1. m \in 0..m
    OBVIOUS
  <2> QED BY <1>1, <1>2, <2>1, UpTo
<1> QED BY <1>3 DEF T

LEMMA ValuesLower ==
  ASSUME NEW s, Lowers(s), NEW args, NEW f, Len(Lowering(args, f.type.params)) \in Nat
  PROVE  Lowers(lower_values(s, args, f))
<1> DEFINE steps == Lowering(args, f.type.params)
           m == Len(steps)
           Eq(g) == g = [n \in 0..m |->
                           IF n = 0 THEN s
                           ELSE IF g[n - 1].err = "none" THEN Lower(g[n - 1], f, steps[n]) ELSE g[n - 1]]
           c == CHOOSE g : Eq(g)
<1>1. lower_values(s, args, f) = c[m]
  BY DEF lower_values, Then
<1>2. PICK g : g = [n \in 0..m |-> g[n]] /\ LoweredBy(g, s, f, steps, m)
  BY LoweringExists
<1> HIDE DEF m, steps
<1>3. Eq(g)
  <2>1. ASSUME NEW n \in 0..m
        PROVE  g[n] = IF n = 0 THEN s
                      ELSE IF g[n - 1].err = "none" THEN Lower(g[n - 1], f, steps[n]) ELSE g[n - 1]
    <3>1. CASE n = 0
      BY <1>2, <3>1 DEF LoweredBy
    <3>2. CASE n # 0
      <4>1. n \in 1..m
        BY <3>2
      <4> QED BY <1>2, <3>2, <4>1 DEF LoweredBy
    <3> QED BY <3>1, <3>2
  <2> QED BY <1>2, <2>1
<1>4. Eq(c)
  <2> HIDE DEF Eq
  <2> QED BY <1>3
<1> HIDE DEF c
<1>5. m \in Nat
  BY DEF m, steps
<1> DEFINE T == {n \in 0..m : Lowers(c[n])}
<1>6. 0 \in T
  BY <1>4, <1>5
<1>7. ASSUME NEW k \in 0..(m - 1), k \in T PROVE k + 1 \in T
  <2>1. k + 1 \in 0..m /\ k + 1 # 0 /\ (k + 1) - 1 = k /\ Lowers(c[k])
    BY <1>5, <1>7
  <2>2. c[k + 1] = IF c[k].err = "none" THEN Lower(c[k], f, steps[k + 1]) ELSE c[k]
    BY <1>4, <2>1
  <2>3. Lowers(c[k + 1])
    BY <2>1, <2>2, StepLowers
  <2> QED BY <2>1, <2>3
<1> HIDE DEF T
<1>8. m \in T
  <2>1. m \in 0..m
    BY <1>5
  <2> QED BY <1>5, <1>6, <1>7, <2>1, UpTo
<1> QED BY <1>1, <1>8 DEF T

----------------------------------------------------------------------------
(***************************************************************************)
(* The calls.  The execution that is left by a component call is either    *)
(* its function's, and the call is out of fuel, or a realloc's, and the    *)
(* call is refused.                                                        *)
(***************************************************************************)
LEMMA PointerLowers ==
  ASSUME NEW s, Lowers(s), s.err = "none", NEW f
  PROVE  Lowers(WithReturnPointer(s, f))
<1>1. CASE ~Spills(f)
  BY <1>1 DEF WithReturnPointer
<1>2. CASE Spills(f) /\ (f.memory = 0 \/ f.realloc = <<>>)
  BY <1>2, FailLowers DEF WithReturnPointer
<1>3. CASE Spills(f) /\ ~(f.memory = 0 \/ f.realloc = <<>>)
  <2> DEFINE r == call_realloc(s, f, 4, 4 * Flats(f.type.results))
  <2>1. WithReturnPointer(s, f) = IF r.err = "none" THEN PushFlat(r, r.answer) ELSE r
    BY <1>3 DEF WithReturnPointer, Then
  <2>2. Lowers(r)
    BY ReallocLowers
  <2> HIDE DEF r
  <2> QED BY <2>1, <2>2, PushLowers
<1> QED BY <1>1, <1>2, <1>3

LEMMA CalledIs ==
  ASSUME NEW f, NEW args, Len(Lowering(args, f.type.params)) \in Nat
  PROVE  LET s == Called(f, args)
         IN  \/ paused = <<>> /\ s.paused = <<>> /\ s.err = "none"
             \/ /\ paused = <<>> /\ s.err = "fuel"
                /\ \E p : s.paused = <<p>> /\ Execution(p) /\ p.fn = f.func /\ p.by = "component"
             \/ s.paused = paused /\ s.err \in {"refused", "trapped", "overflow"}
             \/ /\ paused = <<>> /\ s.err = "refused"
                /\ \E p : s.paused = <<p>> /\ Execution(p) /\ p.by = "realloc"
<1> DEFINE l == lower_values(Store, args, f)
           w == WithReturnPointer(l, f)
           t == IF l.err = "none" THEN w ELSE l
           c == invoke_by_addr(t, f.func, t.flat, "component")
<1>1. Called(f, args) = IF t.err = "none" THEN c ELSE t
  BY DEF Called, Then
<1>2. Lowers(l)
  BY StoreLowers, ValuesLower
<1>3. Lowers(t)
  <2>1. l.err = "none" => Lowers(w)
    <3> HIDE DEF l
    <3> QED BY <1>2, PointerLowers
  <2> HIDE DEF w, l
  <2> QED BY <1>2, <2>1
<1> HIDE DEF t
<1>4. CASE t.err # "none"
  BY <1>1, <1>3, <1>4 DEF Lowers
<1>5. CASE t.err = "none"
  <2>1. Whole(t) /\ t.paused = paused
    BY <1>3, <1>5 DEF Lowers
  <2>2. PICK r : r = c
    OBVIOUS
  <2>3. \/ r.paused = paused /\ r.err = "refused"
        \/ paused = <<>> /\ r.paused = <<>> /\ r.err \in {"none", "trapped"}
        \/ /\ paused = <<>> /\ r.err = "fuel"
           /\ \E p : r.paused = <<p>> /\ Execution(p) /\ p.fn = f.func /\ p.by = "component"
    BY <1>5, <2>1, <2>2, InvokeIs
  <2>4. Called(f, args) = r
    BY <1>1, <1>5, <2>2
  <2> QED BY ONLY <2>3, <2>4
<1> QED BY <1>4, <1>5

----------------------------------------------------------------------------
(***************************************************************************)
(* The invariant: at most one execution is paused, and PausedIsLifted.     *)
(***************************************************************************)
Inv ==
  /\ paused = <<>> \/ \E p : paused = <<p>> /\ Execution(p)
  /\ PausedIsLifted

\* PausedIsLifted of a store that keeps at most one execution.
Belongs(p, pending, name) ==
  p.by = "component" => pending = <<Exports[name]>> /\ Exports[name].func = p.fn

LEMMA InvIs ==
  ASSUME NEW p, paused = <<p>>
  PROVE  PausedIsLifted <=> Belongs(p, pending_lifted, asked.name)
  BY DEF PausedIsLifted, Belongs

LEMMA InvIsNext ==
  ASSUME NEW p, paused' = <<p>>
  PROVE  PausedIsLifted' <=> Belongs(p, pending_lifted', asked'.name)
  BY DEF PausedIsLifted, Belongs

LEMMA InvOfNone ==
  ASSUME paused' = <<>>
  PROVE  Inv'
  BY DEF Inv, PausedIsLifted

LEMMA InvOfOne ==
  ASSUME NEW p, paused' = <<p>>, Execution(p), Belongs(p, pending_lifted', asked'.name)
  PROVE  Inv'
  BY InvIsNext DEF Inv

LEMMA SameKeeps ==
  ASSUME Inv, paused' = paused, paused # <<>> => pending_lifted' = pending_lifted /\ asked' = asked
  PROVE  Inv'
<1>1. CASE paused = <<>>
  BY <1>1, InvOfNone
<1>2. CASE paused # <<>>
  <2>1. PICK p : paused = <<p>> /\ Execution(p)
    BY <1>2 DEF Inv
  <2>2. Belongs(p, pending_lifted, asked.name)
    BY <2>1, InvIs DEF Inv
  <2> QED BY <1>2, <2>1, <2>2, InvOfOne
<1> QED BY <1>1, <1>2

LEMMA InvokeComponentKeeps ==
  ASSUME Inv, NEW name \in DOMAIN Exports, NEW args \in Arguments[name], InvokeComponent(name, args)
  PROVE  Inv'
<1>1. PICK f, s : /\ f = Exports[name] /\ s = Called(f, args) /\ Commit(s)
                  /\ \/ s.err = "none"
                     \/ s.err = "fuel" /\ pending_lifted' = <<f>>
                     \/ s.err \in {"refused", "trapped", "overflow"} /\ UNCHANGED pending_lifted
  BY DEF InvokeComponent
<1>2. paused' = s.paused /\ asked' = IF paused = <<>> THEN [name |-> name, args |-> args] ELSE asked
  BY <1>1 DEF InvokeComponent, Commit
<1>3. Len(Lowering(args, f.type.params)) \in Nat
  BY <1>1, LoweringAssumption DEF LoweringAssumption
<1>4. \/ paused = <<>> /\ s.paused = <<>> /\ s.err = "none"
      \/ /\ paused = <<>> /\ s.err = "fuel"
         /\ \E p : s.paused = <<p>> /\ Execution(p) /\ p.fn = f.func /\ p.by = "component"
      \/ s.paused = paused /\ s.err \in {"refused", "trapped", "overflow"}
      \/ /\ paused = <<>> /\ s.err = "refused"
         /\ \E p : s.paused = <<p>> /\ Execution(p) /\ p.by = "realloc"
  BY <1>1, <1>3, CalledIs
<1>5. CASE s.paused = <<>>
  BY <1>2, <1>5, InvOfNone
<1>6. CASE paused = <<>> /\ s.err = "fuel"
  <2>1. PICK p : s.paused = <<p>> /\ Execution(p) /\ p.fn = f.func /\ p.by = "component"
    BY <1>4, <1>6
  <2>2. pending_lifted' = <<Exports[name]>> /\ asked'.name = name
    BY <1>1, <1>2, <1>6
  <2>3. Belongs(p, pending_lifted', asked'.name)
    BY <1>1, <2>1, <2>2 DEF Belongs
  <2> QED BY <1>2, <2>1, <2>3, InvOfOne
<1>7. CASE s.paused = paused /\ s.err \in {"refused", "trapped", "overflow"}
  BY <1>1, <1>2, <1>7, SameKeeps
<1>8. CASE \E p : s.paused = <<p>> /\ Execution(p) /\ p.by = "realloc"
  <2>1. PICK p : s.paused = <<p>> /\ Execution(p) /\ p.by = "realloc"
    BY <1>8
  <2>2. Belongs(p, pending_lifted', asked'.name)
    BY <2>1 DEF Belongs
  <2> QED BY <1>2, <2>1, <2>2, InvOfOne
<1> QED BY <1>4, <1>5, <1>6, <1>7, <1>8

\* What is resumed ends, or stays paused as the execution it is.
LEMMA ResumedIs ==
  ASSUME Inv, paused # <<>>, NEW s, s = Run(Store, paused[1])
  PROVE  \/ s.paused = <<>>
         \/ /\ s.err = "fuel"
            /\ \E p : /\ s.paused = <<p>> /\ Execution(p)
                      /\ Belongs(p, pending_lifted, asked.name)
<1>1. PICK e : paused = <<e>> /\ Execution(e)
  BY DEF Inv
<1>2. Belongs(e, pending_lifted, asked.name)
  BY <1>1, InvIs DEF Inv
<1>3. Whole(Store) /\ Store.err = "none"
  BY StoreLowers DEF Lowers
<1>4. s = Run(Store, e)
  BY <1>1
<1>5. \/ s.paused = <<>>
      \/ s.err = "fuel" /\ \E p : s.paused = <<p>> /\ Execution(p) /\ p.fn = e.fn /\ p.by = e.by
  BY <1>1, <1>3, <1>4, RunIs
<1> QED BY <1>2, <1>5 DEF Belongs

LEMMA ResumeKeeps ==
  ASSUME Inv, paused # <<>>, NEW s, s = Run(Store, paused[1]), paused' = s.paused, asked' = asked,
         s.err = "fuel" => pending_lifted' = pending_lifted
  PROVE  Inv'
<1>1. CASE s.paused = <<>>
  BY <1>1, InvOfNone
<1>2. CASE s.paused # <<>>
  <2>1. PICK p : s.err = "fuel" /\ s.paused = <<p>> /\ Execution(p)
                 /\ Belongs(p, pending_lifted, asked.name)
    BY <1>2, ResumedIs
  <2> QED BY <2>1, InvOfOne
<1> QED BY <1>1, <1>2

LEMMA NextKeeps ==
  ASSUME Inv, [Next]_vars
  PROVE  Inv'
<1>1. CASE \E name \in DOMAIN Exports : \E args \in Arguments[name] : InvokeComponent(name, args)
  BY <1>1, InvokeComponentKeeps
<1>2. CASE ResumeComponent
  <2>1. PICK s : s = Run(Store, paused[1])
    OBVIOUS
  <2>2. /\ paused # <<>> /\ paused' = s.paused /\ asked' = asked
        /\ pending_lifted' = IF s.err = "none" THEN <<>> ELSE pending_lifted
    BY <1>2, <2>1 DEF ResumeComponent, Commit
  <2> QED BY <2>1, <2>2, ResumeKeeps
<1>3. CASE Resume
  <2>1. PICK s : s = Run(Store, paused[1])
    OBVIOUS
  <2>2. /\ paused # <<>> /\ paused' = s.paused /\ asked' = asked /\ pending_lifted' = pending_lifted
    BY <1>3, <2>1 DEF Resume, Commit
  <2> QED BY <2>1, <2>2, ResumeKeeps
<1>4. CASE InvokePlain
  <2>1. PICK s : s = invoke_by_addr(Store, PlainFunc, <<1>>, "plain")
    OBVIOUS
  <2>2. paused' = s.paused /\ asked' = asked /\ pending_lifted' = pending_lifted
    BY <1>4, <2>1 DEF InvokePlain, Commit
  <2>3. Whole(Store) /\ Store.err = "none" /\ Store.paused = paused
    BY StoreLowers DEF Lowers, Store
  <2>4. \/ s.paused = paused
        \/ s.paused = <<>>
        \/ \E p : s.paused = <<p>> /\ Execution(p) /\ p.by = "plain"
    BY <2>1, <2>3, InvokeIs
  <2>5. CASE s.paused = paused
    BY <2>2, <2>5, SameKeeps
  <2>6. CASE s.paused = <<>>
    BY <2>2, <2>6, InvOfNone
  <2>7. CASE \E p : s.paused = <<p>> /\ Execution(p) /\ p.by = "plain"
    <3>1. PICK p : s.paused = <<p>> /\ Execution(p) /\ p.by = "plain"
      BY <2>7
    <3>2. Belongs(p, pending_lifted', asked'.name)
      BY <3>1 DEF Belongs
    <3> QED BY <2>2, <3>1, <3>2, InvOfOne
  <2> QED BY <2>4, <2>5, <2>6, <2>7
<1>5. CASE SetFuel \/ UNCHANGED vars
  BY <1>5, SameKeeps DEF SetFuel, vars
<1> QED BY <1>1, <1>2, <1>3, <1>4, <1>5 DEF Next

\* The results of a component call that was paused (store.rs:1543) are lifted at the types it
\* was called with, whatever its values are and how they are lowered, whenever the fuel ends,
\* and whatever calls are refused, trap or are resumed in between.
THEOREM PausedStaysLifted == Spec => []PausedIsLifted
<1>1. Init => Inv
  BY DEF Init, Inv, PausedIsLifted
<1>2. Inv /\ [Next]_vars => Inv'
  BY NextKeeps
<1>3. Inv => PausedIsLifted
  BY DEF Inv
<1> QED BY <1>1, <1>2, <1>3, PTL DEF Spec

=============================================================================
