-------------------------- MODULE StoreLifeProofs --------------------------
(***************************************************************************)
(* The properties of StoreLife for every set of modules and functions and  *)
(* every depth, as long as the callers keep their contract.                *)
(***************************************************************************)
EXTENDS StoreLife, TLAPS

Act == [entry : BOOLEAN, base : Nat, arity : Nat]

\* A stack that goes on with the execution of stack c.
Continues(d, c) ==
  d \in Seq(Act) /\ d # <<>> /\ d[1] = c[1] /\ \A i \in 2..Len(d) : ~d[i].entry

LEMMA ActivationType ==
  ASSUME NEW e \in BOOLEAN, NEW b \in Nat, NEW a \in Nat
  PROVE  Activation(e, b, a) \in Act /\ Activation(e, b, a).entry = e
         /\ Activation(e, b, a).base = b /\ Activation(e, b, a).arity = a
BY DEF Activation, Act

LEMMA PrefixContinues ==
  ASSUME NEW c \in Seq(Act), \A i \in 2..Len(c) : ~c[i].entry, NEW k \in 1..Len(c)
  PROVE  Continues(SubSeq(c, 1, k), c)
<1> DEFINE d == SubSeq(c, 1, k)
<1>1. d \in Seq(Act) /\ Len(d) = k /\ \A i \in 1..k : d[i] = c[i]
  OBVIOUS
<1>2. d # <<>>
  BY <1>1
<1>3. \A i \in 2..Len(d) : ~d[i].entry
  BY <1>1
<1> HIDE DEF d
<1>4. QED
  BY <1>1, <1>2, <1>3 DEF Continues, d

LEMMA CursorNat ==
  ASSUME NEW c, NEW d, Continues(d, c)
  PROVE  Cursors(d) \subseteq Nat
<1>1. Top(d) \in Act
  BY DEF Continues, Top
<1>2. QED
  BY <1>1 DEF Cursors, Act
LEMMA CalleeContinues ==
  ASSUME NEW c, NEW q, Continues(q, c), NEW x \in Act, ~x.entry
  PROVE  Continues(Append(q, x), c)
<1> DEFINE d == Append(q, x)
<1>2. q \in Seq(Act) /\ q # <<>> /\ q[1] = c[1] /\ \A i \in 2..Len(q) : ~q[i].entry
  BY DEF Continues
<1>3. d \in Seq(Act) /\ Len(d) = Len(q) + 1 /\ d[Len(q) + 1] = x
      /\ \A i \in 1..Len(q) : d[i] = q[i]
  BY <1>2
<1>4. Len(q) \in Nat \ {0}
  BY <1>2
<1>5. d[1] = c[1] /\ d # <<>>
  BY <1>2, <1>3, <1>4
<1>6. \A i \in 2..Len(d) : ~d[i].entry
  BY <1>2, <1>3, <1>4
<1> HIDE DEF d
<1>7. QED
  BY <1>3, <1>5, <1>6 DEF Continues, d

\* However run() is interrupted, what is left is the execution that ran.
LEMMA InterruptedContinues ==
  ASSUME NEW c \in Seq(Act), c # <<>>, \A i \in 2..Len(c) : ~c[i].entry,
         NEW r \in Interrupted(c)
  PROVE  Continues(r, c)
<1>1. \A q \in Calling(c) : Continues(q, c)
  <2>1. SUFFICES ASSUME NEW q \in Calling(c) PROVE Continues(q, c)
    OBVIOUS
  <2>2. PICK k \in 1..Len(c) : q = SubSeq(c, 1, k)
    BY DEF Calling
  <2>3. QED
    BY <2>2, PrefixContinues
<1>2. ASSUME NEW q \in Calling(c), NEW x \in Callees(q)
      PROVE  Continues(Append(q, x), c)
  <2>1. Continues(q, c)
    BY <1>1
  <2>2. Cursors(q) \subseteq Nat
    BY <2>1, CursorNat
  <2>3. x \in Act /\ ~x.entry
    <3> DEFINE B == Cursors(q)
    <3>1. x \in [entry : {FALSE}, base : B, arity : {0, 1}] /\ B \subseteq Nat
      BY <2>2 DEF Callees
    <3> HIDE DEF B
    <3>2. PICK d \in B, a \in {0, 1} : x = [entry |-> FALSE, base |-> d, arity |-> a]
      BY <3>1
    <3>3. d \in Nat /\ a \in Nat
      BY <3>1, <3>2
    <3>4. x = Activation(FALSE, d, a)
      BY <3>2 DEF Activation
    <3>5. QED
      BY <3>3, <3>4, ActivationType
  <2>4. QED
    BY <2>1, <2>3, CalleeContinues
<1>3. Continues(c, c)
  BY DEF Continues
<1>4. \A w \in WithCallee(c) : Continues(w, c)
  BY <1>2 DEF WithCallee
<1>5. QED
  BY <1>1, <1>3, <1>4 DEF Interrupted


----------------------------------------------------------------------------
Back == {"embedder", "dispatch", "callback"}
LEMMA RunForFacts ==
  ASSUME NEW w \in {"finish", "init", "start"}, NEW a \in Nat, NEW b \in Back,
         NEW s \in {"none", "local", "host"}, RunFor(w, a, b, s)
  PROVE  /\ control' = "running" /\ task' \in TaskType
         /\ task'.why = w /\ task'.arity = a /\ task'.back = b /\ task'.start = s
BY DEF RunFor, TaskType, Back

LEMMA ReturnToFacts ==
  ASSUME NEW b \in Back, NEW r, ReturnTo(b, r)
  PROVE  /\ control' = b /\ control' # "running" /\ state' = r
         /\ task' \in TaskType /\ task'.why = "none" /\ task'.back = "embedder"
BY DEF ReturnTo, Idle, TaskType, Back

\* A state that points to no host function the store does not have.
PointsTo(r, n) == r \in [kind : Kinds, host : 0..n] /\ (r.kind = "suspended" => r.host \in 1..n)

LEMMA ResultFacts ==
  ASSUME NEW k \in Kinds \ {"suspended"}, NEW n \in Nat
  PROVE  PointsTo(Result(k), n) /\ Result(k).kind = k
BY DEF Result, Kinds, PointsTo

LEMMA SuspendedFacts ==
  ASSUME NEW n \in Nat, NEW h \in 1..n
  PROVE  PointsTo(Suspended(h), n) /\ Suspended(h).kind = "suspended" /\ Suspended(h).host = h
BY DEF Suspended, Kinds, PointsTo

----------------------------------------------------------------------------
(* The four shapes a step leaves the store in: no execution, an execution  *)
(* about to run from nothing, one that goes on, and one that is paused.    *)

\* What such a step says of the host functions and of who is served.
Hosts(b) ==
  /\ hosts' \in Seq([name : Names, type : Types])
  /\ funcs' \in [Names -> Types \cup {None}]
  /\ HostsAsImported'
  /\ serving' \in 0..Len(hosts')
  /\ cap' \in Nat /\ instances' \in 0..MaxInstances
  /\ serving' # 0 <=> b = "callback"

LEMMA NoExecution ==
  ASSUME control' \in Back, task' \in TaskType, task'.why = "none",
         task'.back = "embedder", Hosts(control'), PointsTo(state', Len(hosts')),
         calls' = <<>>, len' = 0, height' \in Nat, pendingArity' = None, asked' = None
  PROVE  LifeInv'
<1>1. TypeOK'
  BY DEF TypeOK, Hosts, PointsTo, Back
<1>2. OneExecution' /\ PausedIsPending' /\ NeverTorn'
  BY DEF OneExecution, PausedIsPending, NeverTorn, Back
<1>3. RunIsFounded' /\ BottomIsZero' /\ HeightIsOwed' /\ QuestionIsAsked' /\ NothingIsOwed'
  BY DEF RunIsFounded, BottomIsZero, HeightIsOwed, QuestionIsAsked,
     NothingIsOwed, Back
<1>4. ServingIsCalled' /\ HostsAsImported'
  BY DEF ServingIsCalled, Hosts, Back
<1>5. QED
  BY <1>1, <1>2, <1>3, <1>4 DEF LifeInv

LEMMA NewExecution ==
  ASSUME control' = "running", task' \in TaskType, task'.why # "none",
         task'.why # "finish" => task'.arity = 0,
         Hosts(task'.back), PointsTo(state', Len(hosts')),
         calls' = <<Activation(TRUE, 0, task'.arity)>>, len' = 0, height' = 0,
         pendingArity' = None, asked' = None
  PROVE  LifeInv'
<1> DEFINE a == task'.arity
<1>a. a \in Nat /\ task'.back \in Back
  BY DEF TaskType, Back
<1>1. Activation(TRUE, 0, a) \in Act /\ Activation(TRUE, 0, a).base = 0
      /\ Activation(TRUE, 0, a).arity = a
  BY <1>a, ActivationType, SMTT(30), ZenonT(30)
<1>2. calls' \in Seq(Act) /\ Len(calls') = 1 /\ calls'[1].base = 0 /\ calls'[1].arity = a
      /\ calls' # <<>>
  <2> DEFINE x == Activation(TRUE, 0, a)
  <2>1. x \in Act /\ x.base = 0 /\ x.arity = a /\ calls' = <<x>>
    BY <1>1
  <2> HIDE DEF x
  <2>2. <<x>> \in Seq(Act) /\ Len(<<x>>) = 1 /\ <<x>>[1] = x /\ <<x>> # <<>>
    BY <2>1
  <2>3. QED
    BY <2>1, <2>2
<1>3. TypeOK'
  <2>1. calls' \in Seq([entry : BOOLEAN, base : Nat, arity : Nat])
    BY <1>2 DEF Act
  <2>2. control' \in {"embedder", "dispatch", "callback", "running"} /\ len' \in Nat
        /\ height' \in Nat /\ task'.why # "none"
    OBVIOUS
  <2>3. hosts' \in Seq([name : Names, type : Types])
    BY DEF Hosts
  <2>4. /\ state' \in [kind : Kinds, host : 0..Len(hosts')]
        /\ state'.kind = "suspended" => state'.host \in DOMAIN hosts'
    BY <2>3 DEF PointsTo
  <2>5. QED
    BY <2>1, <2>2, <2>4 DEF TypeOK, Hosts
<1>4. OneExecution' /\ PausedIsPending' /\ NeverTorn'
  BY <1>2 DEF OneExecution, PausedIsPending, NeverTorn
<1>5. RunIsFounded' /\ BottomIsZero' /\ HeightIsOwed' /\ QuestionIsAsked' /\ NothingIsOwed'
  BY <1>a, <1>2 DEF RunIsFounded, BottomIsZero, HeightIsOwed, QuestionIsAsked,
     NothingIsOwed
<1>6. ServingIsCalled' /\ HostsAsImported'
  BY <1>a DEF ServingIsCalled, Hosts, Back
<1>7. QED
  BY <1>3, <1>4, <1>5, <1>6 DEF LifeInv

LEMMA ExecutionGoesOn ==
  ASSUME LifeInv, NEW b \in {"embedder", "dispatch"},
         control' = "running", task' \in TaskType, task'.why = "finish", task'.back = b,
         task'.arity = pendingArity, Hosts(b), PointsTo(state', Len(hosts')), pendingArity # None, control # "running",
         calls' = calls, len' = height, height' = height,
         pendingArity' = pendingArity, asked' = None
  PROVE  LifeInv'
<1>1. calls # <<>> /\ pendingArity = calls[1].arity
  BY DEF LifeInv, PausedIsPending
<1>2. TypeOK'
  BY DEF LifeInv, TypeOK, Hosts, PointsTo
<1>3. OneExecution' /\ PausedIsPending' /\ NeverTorn'
  BY DEF LifeInv, OneExecution, PausedIsPending, NeverTorn
<1>4. RunIsFounded' /\ BottomIsZero' /\ HeightIsOwed' /\ QuestionIsAsked' /\ NothingIsOwed'
  BY <1>1 DEF LifeInv, RunIsFounded, BottomIsZero, HeightIsOwed, QuestionIsAsked,
     NothingIsOwed
<1>5. ServingIsCalled' /\ HostsAsImported'
  BY DEF ServingIsCalled, Hosts
<1>6. QED
  BY <1>2, <1>3, <1>4, <1>5 DEF LifeInv

LEMMA ExecutionPauses ==
  ASSUME LifeInv, NEW b \in {"embedder", "dispatch"}, NEW l \in Nat, NEW q \in Nat \cup {None},
         control' = b, task' \in TaskType, task'.why = "none", task'.back = "embedder", Hosts(b), PointsTo(state', Len(hosts')),
         Continues(calls', calls), len' = l, asked' = q,
         height' = IF q = None THEN l ELSE l + q,
         pendingArity' = calls[1].arity, calls # <<>>,
         state'.kind = "suspended" => q = hosts'[state'.host].type.results
  PROVE  LifeInv'
<1>1. /\ calls' \in Seq(Act) /\ calls' # <<>> /\ calls'[1] = calls[1]
      /\ \A i \in 2..Len(calls') : ~calls'[i].entry
  BY DEF Continues
<1>2. calls[1] \in Act /\ calls[1].base = 0
  <2>1. calls \in Seq(Act) /\ calls[1].base = 0
    BY DEF LifeInv, TypeOK, BottomIsZero, Act
  <2>2. QED
    BY <2>1
<1>3. pendingArity' \in Nat /\ height' \in Nat
  BY <1>2 DEF Act
<1>4. TypeOK'
  <2>1. calls' \in Seq([entry : BOOLEAN, base : Nat, arity : Nat])
    BY <1>1 DEF Act
  <2>2. control' \in {"embedder", "dispatch", "callback", "running"} /\ len' \in Nat
        /\ control' # "running" /\ asked' \in Nat \cup {None}
    OBVIOUS
  <2>3. QED
    BY <1>3, <2>1, <2>2 DEF TypeOK, Hosts, PointsTo
<1>5. OneExecution' /\ PausedIsPending' /\ NeverTorn'
  BY <1>1 DEF OneExecution, PausedIsPending, NeverTorn
<1>6. RunIsFounded' /\ BottomIsZero' /\ HeightIsOwed' /\ QuestionIsAsked' /\ NothingIsOwed'
  BY <1>1, <1>2 DEF RunIsFounded, BottomIsZero, HeightIsOwed, QuestionIsAsked,
     NothingIsOwed
<1>7. ServingIsCalled' /\ HostsAsImported'
  BY DEF ServingIsCalled, Hosts
<1>8. QED
  BY <1>4, <1>5, <1>6, <1>7 DEF LifeInv

----------------------------------------------------------------------------
(* Every step keeps the invariant.                                         *)

LEMMA HostsSame ==
  ASSUME LifeInv, UNCHANGED <<hosts, funcs>>, serving' \in 0..Len(hosts),
         cap' \in Nat, instances' \in 0..MaxInstances,
         NEW b, serving' # 0 <=> b = "callback"
  PROVE  Hosts(b)
BY DEF LifeInv, TypeOK, Hosts, HostsAsImported

LEMMA StatePoints ==
  ASSUME LifeInv
  PROVE  /\ PointsTo(state, Len(hosts)) /\ Len(hosts) \in Nat /\ serving \in 0..Len(hosts)
         /\ cap \in Nat /\ instances \in 0..MaxInstances
BY DEF LifeInv, TypeOK, PointsTo

\* What holds when run() runs.
LEMMA RunFacts ==
  ASSUME LifeInv, control = "running"
  PROVE  /\ calls \in Seq(Act) /\ calls # <<>> /\ calls[1] \in Act /\ calls[1].base = 0
         /\ \A i \in 2..Len(calls) : ~calls[i].entry
         /\ task.back \in Back /\ task.start \in {"none", "local", "host"}
         /\ task.why \in {"finish", "init", "start"} /\ task.arity \in Nat
         /\ task.why = "finish" => task.arity = calls[1].arity
         /\ task.why # "finish" => calls[1].arity = 0 /\ pendingArity = None
         /\ task.back = "callback" => pendingArity = None
         /\ serving # 0 <=> task.back = "callback"
<1>1. calls \in Seq(Act) /\ calls # <<>>
  BY DEF LifeInv, TypeOK, RunIsFounded, Act
<1>2. calls[1] \in Act
  BY <1>1
<1>3. QED
  BY <1>1, <1>2
     DEF LifeInv, TypeOK, TaskType, Back, BottomIsZero, RunIsFounded, ServingIsCalled, OneExecution

LEMMA StartKeeps ==
  ASSUME NEW b \in Back, NEW s \in {"none", "local", "host"}, StartFunction(<<>>, 0, b, s),
         Hosts(b), PointsTo(state, Len(hosts')), Len(hosts') \in Nat, pendingArity' = None
  PROVE  LifeInv'
<1>1. CASE s = "local"
  <2>1. /\ calls' = Append(<<>>, Activation(TRUE, 0, 0)) /\ len' = 0 /\ height' = 0
        /\ asked' = None /\ RunFor("start", 0, b, "none") /\ state' = state
    BY <1>1 DEF StartFunction, PushEntry
  <2>2. calls' = <<Activation(TRUE, 0, 0)>>
    BY <2>1
  <2>3. /\ control' = "running" /\ task' \in TaskType /\ task'.why = "start"
        /\ task'.arity = 0 /\ task'.back = b
    BY <2>1, RunForFacts
  <2>4. QED
    BY <2>1, <2>2, <2>3, NewExecution
<1>2. CASE s # "local"
  <2>1. PICK r \in {state, Result("error")} :
          /\ calls' = <<>> /\ len' = 0 /\ height' = 0 /\ asked' = None /\ ReturnTo(b, r)
    BY <1>2 DEF StartFunction
  <2>2. PointsTo(r, Len(hosts'))
    BY <2>1, ResultFacts DEF Kinds
  <2>3. QED
    BY <2>1, <2>2, ReturnToFacts, NoExecution
<1>3. QED
  BY <1>1, <1>2

LEMMA RunCompletesKeeps ==
  ASSUME LifeInv, RunCompletes
  PROVE  LifeInv'
<1>1. control = "running"
  BY DEF RunCompletes, Running
<1>2. Hosts(task.back) /\ hosts' = hosts /\ PointsTo(state, Len(hosts)) /\ Len(hosts) \in Nat
  BY <1>1, RunFacts, HostsSame, StatePoints DEF RunCompletes, linker
<1>3. CASE task.why = "finish"
  <2>1. /\ calls' = <<>> /\ len' = Results - task.arity
        /\ height' = len' /\ pendingArity' = None /\ asked' = None
        /\ ReturnTo(task.back, Result("completed"))
    BY <1>3 DEF RunCompletes
  <2>2. len' = 0
    <3>1. calls[1].base = 0 /\ task.arity = calls[1].arity /\ task.arity \in Nat
      BY <1>1, <1>3, RunFacts
    <3>2. QED
      BY <2>1, <3>1 DEF Results
  <2>3. PointsTo(Result("completed"), Len(hosts))
    BY <1>2, ResultFacts DEF Kinds
  <2>4. QED
    BY <1>1, <1>2, <2>1, <2>2, <2>3, RunFacts, ReturnToFacts, NoExecution
<1>4. CASE task.why # "finish"
  <2>1. Results = 0 /\ pendingArity = None
    BY <1>1, <1>4, RunFacts DEF Results
  <2>2. StartFunction(<<>>, 0, task.back, task.start) /\ pendingArity' = pendingArity
    BY <1>4, <2>1 DEF RunCompletes, RunIgnored
  <2>3. QED
    BY <1>1, <1>2, <2>1, <2>2, RunFacts, StartKeeps
<1>5. QED
  BY <1>3, <1>4

LEMMA RunFailsKeeps ==
  ASSUME LifeInv, RunFails, StartsSettle
  PROVE  LifeInv'
<1>1. control = "running" /\ task.why = "finish"
  BY DEF RunFails, Running, MayStop
<1>2. Hosts(task.back) /\ hosts' = hosts /\ Len(hosts) \in Nat
  BY <1>1, RunFacts, HostsSame, StatePoints DEF RunFails, linker
<1>3. /\ calls' = <<>> /\ len' = 0 /\ height' = 0 /\ pendingArity' = None /\ asked' = None
      /\ ReturnTo(task.back, Result("error"))
  BY <1>1 DEF RunFails
<1>4. PointsTo(Result("error"), Len(hosts))
  BY <1>2, ResultFacts DEF Kinds
<1>5. QED
  BY <1>1, <1>2, <1>3, <1>4, RunFacts, ReturnToFacts, NoExecution

\* RunOutOfFuel and RunAsks, for finish_run and outside a host function.
LEMMA RunOutOfFuelKeeps ==
  ASSUME LifeInv, RunOutOfFuel, StartsSettle, Careful
  PROVE  LifeInv'
<1>1. control = "running" /\ task.why = "finish" /\ task.back # "callback"
  BY DEF RunOutOfFuel, Running, MayStop, MayPause
<1>2. /\ Hosts(task.back) /\ hosts' = hosts /\ Len(hosts) \in Nat
      /\ task.back \in {"embedder", "dispatch"}
  BY <1>1, RunFacts, HostsSame, StatePoints DEF RunOutOfFuel, linker, Back
<1>a. PICK c \in Interrupted(calls) : \E l \in Cursors(c) :
        /\ calls' = c /\ len' = l /\ height' = l /\ asked' = None
        /\ pendingArity' = task.arity /\ ReturnTo(task.back, Result("fuel"))
  BY <1>1 DEF RunOutOfFuel
<1>4. Continues(c, calls) /\ Cursors(c) \subseteq Nat
  BY <1>1, <1>a, RunFacts, InterruptedContinues, CursorNat
<1>3. PICK l \in Nat :
        /\ calls' = c /\ len' = l /\ height' = l /\ asked' = None
        /\ pendingArity' = task.arity /\ ReturnTo(task.back, Result("fuel"))
  BY <1>a, <1>4
<1>5. PointsTo(Result("fuel"), Len(hosts)) /\ Result("fuel").kind # "suspended"
  BY <1>2, ResultFacts DEF Kinds
<1>6. /\ control' = task.back /\ task' \in TaskType /\ task'.why = "none"
      /\ task'.back = "embedder" /\ state' = Result("fuel")
  BY <1>2, <1>3, ReturnToFacts DEF Back
<1>7. pendingArity' = calls[1].arity /\ calls # <<>>
  BY <1>1, <1>3, RunFacts
<1>8. QED
  BY <1>2, <1>3, <1>4, <1>5, <1>6, <1>7, ExecutionPauses

LEMMA HostTyped ==
  ASSUME LifeInv, NEW h \in DOMAIN hosts
  PROVE  /\ hosts[h].name \in Names /\ hosts[h].type \in Types
         /\ hosts[h].type.results \in Nat
<1> DEFINE H == [name : Names, type : Types]
<1>1. hosts \in Seq(H)
  BY DEF LifeInv, TypeOK
<1>2. hosts[h] \in H
  <2> HIDE DEF H
  <2>1. QED
    BY <1>1
<1>3. PICK n \in Names, t \in Types : hosts[h] = [name |-> n, type |-> t]
  BY <1>2
<1>4. t.results \in Nat
  BY TypesAssumption
<1>5. QED
  BY <1>3, <1>4

LEMMA RunAsksKeeps ==
  ASSUME LifeInv, RunAsks, StartsSettle, Careful
  PROVE  LifeInv'
<1>1. control = "running" /\ task.why = "finish" /\ task.back # "callback"
  BY DEF RunAsks, Running, MayStop, MayPause
<1>2. /\ Hosts(task.back) /\ hosts' = hosts /\ Len(hosts) \in Nat
      /\ task.back \in {"embedder", "dispatch"}
  BY <1>1, RunFacts, HostsSame, StatePoints DEF RunAsks, linker, Back
<1>3. PICK c \in Interrupted(calls), h \in DOMAIN hosts : \E l \in Cursors(c) :
        /\ calls' = c /\ len' = l /\ asked' = hosts[h].type.results
        /\ height' = l + hosts[h].type.results
        /\ pendingArity' = task.arity /\ ReturnTo(task.back, Suspended(h))
  BY <1>1 DEF RunAsks, Interrupted
<1>4. Continues(c, calls) /\ Cursors(c) \subseteq Nat
  BY <1>1, <1>3, RunFacts, InterruptedContinues, CursorNat
<1>5. PICK l \in Nat :
        /\ calls' = c /\ len' = l /\ asked' = hosts[h].type.results
        /\ height' = l + hosts[h].type.results
        /\ pendingArity' = task.arity /\ ReturnTo(task.back, Suspended(h))
  BY <1>3, <1>4
<1>6. /\ PointsTo(Suspended(h), Len(hosts)) /\ Suspended(h).host = h
  BY <1>2, SuspendedFacts
<1>7. hosts[h].type.results \in Nat /\ hosts[h].type.results # None
  BY HostTyped, TypesAssumption
<1>8. /\ control' = task.back /\ task' \in TaskType /\ task'.why = "none"
      /\ task'.back = "embedder" /\ state' = Suspended(h)
  BY <1>2, <1>5, ReturnToFacts DEF Back
<1>9. pendingArity' = calls[1].arity /\ calls # <<>>
  BY <1>1, <1>5, RunFacts
<1>10. height' = IF asked' = None THEN l ELSE l + asked'
  BY <1>5, <1>7
<1>11. QED
  BY <1>2, <1>4, <1>5, <1>6, <1>7, <1>8, <1>9, <1>10, ExecutionPauses

\* The store's calls: what holds when nobody runs and nothing is paused.
LEMMA IdleFacts ==
  ASSUME LifeInv, control # "running"
  PROVE  /\ control \in Back
         /\ pendingArity = None <=> calls = <<>>
         /\ calls = <<>> => len = 0
         /\ serving # 0 <=> control = "callback"
         /\ control = "embedder" => serving = 0
<1>1. control \in Back /\ task.why = "none"
  BY DEF LifeInv, TypeOK, Back, TaskType
<1>2. pendingArity = None <=> calls = <<>>
  <2>1. calls # <<>> => calls[1].arity \in Nat
    <3>1. calls \in Seq(Act)
      BY DEF LifeInv, TypeOK, Act
    <3>2. calls # <<>> => calls[1] \in Act
      BY <3>1
    <3>3. QED
      BY <3>2 DEF Act
  <2>2. QED
    BY <2>1, TypesAssumption DEF LifeInv, PausedIsPending
<1>3. calls = <<>> => len = 0
  BY DEF LifeInv, PausedIsPending
<1>4. QED
  BY <1>1, <1>2, <1>3 DEF LifeInv, ServingIsCalled

\* The store is as it was, and the embedder gets an answer that reports no
\* question.
LEMMA HandBackKeeps ==
  ASSUME LifeInv, control # "running", NEW k \in Kinds \ {"suspended"},
         ReturnTo("embedder", Result(k)), UNCHANGED <<store, funcs, asked, height>>, serving' = 0
  PROVE  LifeInv'
<1>1. /\ control' = "embedder" /\ task' \in TaskType /\ task'.why = "none"
      /\ task'.back = "embedder" /\ state' = Result(k)
  BY ReturnToFacts DEF Back
<1>2. PointsTo(Result(k), Len(hosts)) /\ Result(k).kind = k /\ k # "suspended"
  BY StatePoints, ResultFacts
<1>3. TypeOK'
  BY <1>1, <1>2 DEF LifeInv, TypeOK, PointsTo, store
<1>4. OneExecution' /\ PausedIsPending' /\ NeverTorn'
  BY <1>1 DEF LifeInv, OneExecution, PausedIsPending, NeverTorn, store
<1>5. RunIsFounded' /\ BottomIsZero' /\ HeightIsOwed' /\ QuestionIsAsked' /\ NothingIsOwed'
  BY <1>1, <1>2
     DEF LifeInv, RunIsFounded, BottomIsZero, HeightIsOwed, QuestionIsAsked, NothingIsOwed, store
<1>6. ServingIsCalled' /\ HostsAsImported'
  BY <1>1 DEF LifeInv, ServingIsCalled, HostsAsImported, store
<1>7. QED
  BY <1>3, <1>4, <1>5, <1>6 DEF LifeInv

\* invoke, of the store or the Linker.
LEMMA InvokeKeeps ==
  ASSUME LifeInv, control # "running", NEW b \in Back, b = "callback" <=> control = "callback",
         InvokeLocal(b) \/ InvokeHost(b)
  PROVE  LifeInv'
<1>1. /\ pendingArity = None /\ calls = <<>> /\ len = 0 /\ pendingArity' = pendingArity
      /\ hosts' = hosts
  BY IdleFacts DEF InvokeLocal, InvokeHost, store
<1>2. Hosts(b) /\ PointsTo(state, Len(hosts)) /\ Len(hosts) \in Nat
  BY IdleFacts, HostsSame, StatePoints DEF InvokeLocal, InvokeHost, store, linker
<1>3. CASE InvokeLocal(b)
  <2>1. PICK a \in {0, 1} : PushEntry(calls, len, a) /\ RunFor("finish", a, b, "none")
    BY <1>3 DEF InvokeLocal
  <2>2. /\ calls' = Append(<<>>, Activation(TRUE, 0, a)) /\ len' = 0 /\ height' = 0
        /\ asked' = None /\ state' = state
    BY <1>1, <1>3, <2>1 DEF PushEntry, InvokeLocal
  <2>3. /\ control' = "running" /\ task' \in TaskType /\ task'.why = "finish"
        /\ task'.arity = a /\ task'.back = b
    BY <2>1, RunForFacts
  <2>4. calls' = <<Activation(TRUE, 0, task'.arity)>>
    BY <2>2, <2>3
  <2>5. QED
    BY <1>1, <1>2, <2>2, <2>3, <2>4, NewExecution
<1>4. CASE InvokeHost(b)
  <2>1. PICK h \in DOMAIN hosts : ReturnTo(b, Suspended(h))
    BY <1>4 DEF InvokeHost
  <2>2. /\ control' = b /\ task' \in TaskType /\ task'.why = "none"
        /\ task'.back = "embedder" /\ state' = Suspended(h)
    BY <2>1, ReturnToFacts
  <2>3. PointsTo(Suspended(h), Len(hosts))
    BY <1>2, SuspendedFacts
  <2>4. calls' = calls /\ len' = len /\ height' = height /\ asked' = asked
    BY <1>4 DEF InvokeHost, store
  <2>5. height \in Nat /\ asked = None
    BY <1>1 DEF LifeInv, TypeOK, NothingIsOwed
  <2>6. QED
    BY <1>1, <1>2, <2>2, <2>3, <2>4, <2>5, NoExecution
<1>5. QED
  BY <1>3, <1>4

\* resume, resume_with, and the Linker's answer.
LEMMA GoOnKeeps ==
  ASSUME LifeInv, control # "running", NEW b \in {"embedder", "dispatch"}, NEW g \in Nat,
         GoOn(g, b), len + g = height, serving' = 0
  PROVE  LifeInv'
<1>1. /\ pendingArity # None /\ len' = len + g /\ height' = height /\ calls' = calls
      /\ pendingArity' = pendingArity /\ asked' = None /\ hosts' = hosts /\ state' = state
      /\ RunFor("finish", pendingArity, b, "none")
  BY DEF GoOn
<1>2. Hosts(b) /\ PointsTo(state, Len(hosts))
  BY HostsSame, StatePoints DEF GoOn
<1>3. pendingArity \in Nat
  BY <1>1 DEF LifeInv, TypeOK
<1>4. /\ control' = "running" /\ task' \in TaskType /\ task'.why = "finish"
      /\ task'.arity = pendingArity /\ task'.back = b
  BY <1>1, <1>3, RunForFacts DEF Back
<1>5. QED
  BY <1>1, <1>2, <1>4, ExecutionGoesOn

LEMMA ResumeKeeps ==
  ASSUME LifeInv, Careful, Resume \/ ResumeWith
  PROVE  LifeInv'
<1>1. control = "embedder" /\ control # "running" /\ serving' = serving /\ serving = 0
  BY IdleFacts DEF Resume, ResumeWith
<1>2. PICK g \in Nat : GoOn(g, "embedder") /\ ((asked = None /\ g = 0) \/ asked = g)
  BY <1>1 DEF Resume, ResumeWith
<1>3. calls # <<>>
  BY <1>1, <1>2, IdleFacts DEF GoOn
<1>4. len \in Nat /\ height = IF asked = None THEN len ELSE len + asked
  BY <1>1, <1>3 DEF LifeInv, TypeOK, HeightIsOwed
<1>5. len + g = height
  BY <1>2, <1>4, TypesAssumption
<1>6. QED
  BY <1>1, <1>2, <1>5, GoOnKeeps

LEMMA CallbackReturnsKeeps ==
  ASSUME LifeInv, CallbackReturns
  PROVE  LifeInv'
<1>1. control = "callback" /\ control # "running" /\ serving # 0 /\ serving' = 0
      /\ serving \in DOMAIN hosts
  BY IdleFacts, StatePoints DEF CallbackReturns, LifeInv, TypeOK
<1>2. PICK g \in 0..2 :
       \/ /\ g = funcs[hosts[serving].name].results
          /\ GoOn(g, "dispatch")
       \/ /\ ReturnTo("embedder", Result("error"))
          /\ UNCHANGED <<store, funcs, asked, height>>
  BY DEF CallbackReturns
<1>3. CASE g = funcs[hosts[serving].name].results /\ GoOn(g, "dispatch")
  <2>1. calls # <<>> /\ pendingArity # None
    BY <1>1, <1>3, IdleFacts DEF GoOn
  <2>2. asked = hosts[serving].type.results
    BY <1>1, <2>1 DEF LifeInv, QuestionIsAsked
  <2>3. funcs[hosts[serving].name] = hosts[serving].type
    BY <1>1 DEF LifeInv, HostsAsImported
  <2>4. asked = g /\ g \in Nat
    BY <1>3, <2>2, <2>3
  <2>5. height = len + g
    BY <1>1, <2>1, <2>4, TypesAssumption DEF LifeInv, HeightIsOwed
  <2>6. QED
    BY <1>1, <1>3, <2>4, <2>5, GoOnKeeps
<1>4. CASE ReturnTo("embedder", Result("error")) /\ UNCHANGED <<store, funcs, asked, height>>
  BY <1>1, <1>4, HandBackKeeps DEF Kinds
<1>5. QED
  BY <1>2, <1>3, <1>4

\* Steps that leave the store alone.
LEMMA CallbackExitsKeeps ==
  ASSUME LifeInv, CallbackExits
  PROVE  LifeInv'
<1>1. control # "running" /\ serving' = 0
  BY DEF CallbackExits
<1>2. PICK k \in {"exited", "error"} : ReturnTo("embedder", Result(k))
  BY DEF CallbackExits
<1>3. k \in Kinds \ {"suspended"} /\ UNCHANGED <<store, funcs, asked, height>>
  BY DEF Kinds, CallbackExits
<1>4. QED
  BY <1>1, <1>2, <1>3, HandBackKeeps

LEMMA DispatchKeeps ==
  ASSUME LifeInv, Dispatch
  PROVE  LifeInv'
<1>1. /\ control = "embedder" /\ control' = "dispatch"
      /\ UNCHANGED <<calls, len, cap, pendingArity, hosts, instances, funcs, serving, task,
                     state, asked, height>>
  BY DEF Dispatch, store, linker
<1>2. QED
  BY <1>1
     DEF LifeInv, TypeOK, OneExecution, PausedIsPending, NeverTorn, RunIsFounded, BottomIsZero,
         HeightIsOwed, NothingIsOwed, QuestionIsAsked, ServingIsCalled, HostsAsImported

LEMMA DispatchStepKeeps ==
  ASSUME LifeInv, DispatchStep
  PROVE  LifeInv'
<1>1. /\ control = "dispatch" /\ control # "running" /\ serving = 0
      /\ UNCHANGED <<calls, len, cap, pendingArity, hosts, instances, funcs, task, asked, height>>
  BY IdleFacts DEF DispatchStep, store
<1>2. CASE state.kind # "suspended"
  <2>1. control' = "embedder" /\ state' = state /\ serving' = serving
    BY <1>2 DEF DispatchStep
  <2>2. QED
    BY <1>1, <1>2, <2>1
       DEF LifeInv, TypeOK, OneExecution, PausedIsPending, NeverTorn, RunIsFounded, BottomIsZero,
           HeightIsOwed, NothingIsOwed, QuestionIsAsked, ServingIsCalled, HostsAsImported
<1>3. CASE state.kind = "suspended" /\ Fits(state.host)
  <2>1. control' = "callback" /\ state' = state /\ serving' = state.host
    BY <1>3 DEF DispatchStep
  <2>2. state.host \in DOMAIN hosts /\ state.host \in 0..Len(hosts) /\ state.host # 0
    <3>1. state.host \in DOMAIN hosts /\ state.host \in 1..Len(hosts)
      BY <1>3, StatePoints DEF PointsTo, LifeInv, TypeOK
    <3>2. QED
      BY <3>1
  <2>3. TypeOK' /\ OneExecution' /\ PausedIsPending' /\ NeverTorn'
    BY <1>1, <2>1, <2>2 DEF LifeInv, TypeOK, OneExecution, PausedIsPending, NeverTorn
  <2>4. RunIsFounded' /\ BottomIsZero' /\ HeightIsOwed' /\ NothingIsOwed'
    BY <1>1, <2>1 DEF LifeInv, RunIsFounded, BottomIsZero, HeightIsOwed, NothingIsOwed
  <2>5. QuestionIsAsked' /\ ServingIsCalled' /\ HostsAsImported'
    BY <1>1, <1>3, <2>1, <2>2 DEF LifeInv, QuestionIsAsked, ServingIsCalled, HostsAsImported
  <2>6. QED
    BY <2>3, <2>4, <2>5 DEF LifeInv
<1>4. CASE state.kind = "suspended" /\ ~Fits(state.host)
  <2>1. control' = "embedder" /\ state' = Result("error") /\ serving' = serving
    BY <1>4 DEF DispatchStep
  <2>2. PointsTo(state', Len(hosts)) /\ state'.kind = "error"
    BY <2>1, StatePoints, ResultFacts DEF Kinds
  <2>3. TypeOK' /\ OneExecution' /\ PausedIsPending' /\ NeverTorn'
    BY <1>1, <2>1, <2>2
       DEF LifeInv, TypeOK, OneExecution, PausedIsPending, NeverTorn, PointsTo
  <2>4. RunIsFounded' /\ BottomIsZero' /\ HeightIsOwed' /\ NothingIsOwed'
    BY <1>1, <2>1 DEF LifeInv, RunIsFounded, BottomIsZero, HeightIsOwed, NothingIsOwed
  <2>5. QuestionIsAsked' /\ ServingIsCalled' /\ HostsAsImported'
    BY <1>1, <2>1, <2>2 DEF LifeInv, QuestionIsAsked, ServingIsCalled, HostsAsImported
  <2>6. QED
    BY <2>3, <2>4, <2>5 DEF LifeInv
<1>5. QED
  BY <1>2, <1>3, <1>4

\* A name that had no function gets one: what was resolved stays as it was.
LEMMA FuncNewKeeps ==
  ASSUME LifeInv, FuncNew, ~AllowShadowing
  PROVE  LifeInv'
<1>1. PICK n \in Names, t \in Types : funcs[n] = None /\ funcs' = [funcs EXCEPT ![n] = t]
  BY DEF FuncNew
<1>2. UNCHANGED <<calls, len, cap, pendingArity, hosts, instances, control, task, state, serving,
                  asked, height>>
  BY DEF FuncNew, store
<1>3. funcs \in [Names -> Types \cup {None}] /\ funcs' \in [Names -> Types \cup {None}]
  BY <1>1 DEF LifeInv, TypeOK
<1>4. HostsAsImported'
  <2>1. SUFFICES ASSUME NEW h \in DOMAIN hosts PROVE funcs'[hosts[h].name] = hosts[h].type
    BY <1>2 DEF HostsAsImported
  <2>2. hosts[h].name \in Names /\ hosts[h].type \in Types
    BY HostTyped
  <2>3. funcs[hosts[h].name] = hosts[h].type
    BY DEF LifeInv, HostsAsImported
  <2>4. hosts[h].name # n
    BY <1>1, <2>2, <2>3, TypesAssumption
  <2>5. QED
    BY <1>1, <1>3, <2>2, <2>3, <2>4
<1>5. TypeOK'
  BY <1>2, <1>3 DEF LifeInv, TypeOK
<1>6. QED
  BY <1>2, <1>4, <1>5
     DEF LifeInv, OneExecution, PausedIsPending, NeverTorn, RunIsFounded, BottomIsZero,
         HeightIsOwed, NothingIsOwed, QuestionIsAsked, ServingIsCalled

\* Instantiation, with what the new instance imports in the store.
LEMMA ModuleTyped ==
  ASSUME NEW m \in Modules
  PROVE  /\ m.imports \in Seq([name : Names, type : Types])
         /\ m.start \in {"none", "local", "host"} /\ m.need \in Nat
BY ModulesAssumption DEF ModuleType

LEMMA InstantiateWithKeeps ==
  ASSUME LifeInv, Careful, control # "running", NEW b \in Back,
         b = "callback" <=> control = "callback", NEW m \in Modules, NEW given,
         InstantiateWith(m, given, b),
         given \in Seq([name : Names, type : Types]), Len(hosts) <= Len(given),
         \A h \in DOMAIN given : funcs[given[h].name] = given[h].type
  PROVE  LifeInv'
<1>1. calls = <<>> /\ len = 0 /\ pendingArity = None /\ pendingArity' = None
  BY IdleFacts DEF InstantiateWith
<1>2. hosts' = given /\ UNCHANGED <<funcs, serving>>
  BY DEF InstantiateWith, linker
<1>3. cap' \in Nat /\ instances' \in 0..MaxInstances
  <2>1. instances' = instances + 1 /\ instances < MaxInstances /\ instances \in 0..MaxInstances
    BY StatePoints DEF InstantiateWith
  <2>2. cap' = IF m.need > cap THEN m.need ELSE cap
    BY DEF InstantiateWith
  <2>3. m.need \in Nat
    BY ModuleTyped
  <2>4. cap \in Nat /\ MaxInstances \in Nat
    BY StatePoints, BoundsAssumption
  <2>5. instances' \in 0..MaxInstances
    BY ONLY <2>1, <2>4
  <2>6. QED
    BY ONLY <2>2, <2>3, <2>4, <2>5
<1>4. Hosts(b)
  <2>1. HostsAsImported'
    BY <1>2 DEF HostsAsImported
  <2>2. serving' \in 0..Len(hosts') /\ (serving' # 0 <=> b = "callback")
    <3>1. Len(hosts) \in Nat /\ Len(given) \in Nat /\ serving \in 0..Len(hosts)
      BY StatePoints
    <3>2. serving \in 0..Len(given)
      BY <3>1
    <3>3. QED
      BY <1>2, <3>2, IdleFacts
  <2>3. funcs' \in [Names -> Types \cup {None}]
    BY <1>2 DEF LifeInv, TypeOK
  <2>4. QED
    BY <1>2, <1>3, <2>1, <2>2, <2>3 DEF Hosts
<1>5. PointsTo(state, Len(hosts')) /\ Len(hosts') \in Nat
  <2>1. Len(hosts) \in Nat /\ Len(given) \in Nat /\ PointsTo(state, Len(hosts))
    BY StatePoints
  <2>2. 0..Len(hosts) \subseteq 0..Len(given) /\ 1..Len(hosts) \subseteq 1..Len(given)
    BY <2>1
  <2>3. QED
    BY <1>2, <2>1, <2>2 DEF PointsTo
<1>6. CASE m.segments
  <2>1. /\ PushEntry(<<>>, 0, 0) /\ RunFor("init", 0, b, m.start) /\ state' = state
    BY <1>1, <1>6 DEF InstantiateWith, Kept
  <2>2. /\ calls' = Append(<<>>, Activation(TRUE, 0, 0)) /\ len' = 0 /\ height' = 0
        /\ asked' = None
    BY <2>1 DEF PushEntry
  <2>3. /\ control' = "running" /\ task' \in TaskType /\ task'.why = "init"
        /\ task'.arity = 0 /\ task'.back = b
    BY <2>1, RunForFacts, ModuleTyped
  <2>4. calls' = <<Activation(TRUE, 0, task'.arity)>>
    BY <2>2, <2>3
  <2>5. QED
    BY <1>1, <1>4, <1>5, <2>1, <2>2, <2>3, <2>4, NewExecution
<1>7. CASE ~m.segments
  <2>1. StartFunction(<<>>, 0, b, m.start)
    BY <1>1, <1>7 DEF InstantiateWith, Kept
  <2>2. QED
    BY <1>1, <1>4, <1>5, <2>1, ModuleTyped, StartKeeps
<1>8. QED
  BY <1>6, <1>7

LEMMA InstantiateKeeps ==
  ASSUME LifeInv, Careful, Instantiate
  PROVE  LifeInv'
<1>1. PICK m \in Modules : InstantiateWith(m, hosts, control)
  BY DEF Instantiate
<1>2. control # "running" /\ control \in Back
  BY DEF Instantiate, Caller, Back
<1>3. /\ hosts \in Seq([name : Names, type : Types]) /\ Len(hosts) <= Len(hosts)
      /\ \A h \in DOMAIN hosts : funcs[hosts[h].name] = hosts[h].type
  BY DEF LifeInv, TypeOK, HostsAsImported
<1>4. QED
  BY <1>1, <1>2, <1>3, InstantiateWithKeeps

\* The functions a Linker adds are those it resolved.
LEMMA ResolvedHosts ==
  ASSUME LifeInv, NEW m \in Modules, Resolved(m.imports)
  PROVE  LET given == hosts \o m.imports IN
         /\ given \in Seq([name : Names, type : Types]) /\ Len(hosts) <= Len(given)
         /\ \A h \in DOMAIN given : funcs[given[h].name] = given[h].type
<1> DEFINE H == [name : Names, type : Types]
           i == m.imports
           given == hosts \o i
<1>1. hosts \in Seq(H) /\ i \in Seq(H)
  BY ModuleTyped DEF LifeInv, TypeOK
<1>2. /\ \A h \in DOMAIN hosts : funcs[hosts[h].name] = hosts[h].type
      /\ \A h \in DOMAIN i : funcs[i[h].name] = i[h].type
  BY DEF LifeInv, HostsAsImported, Resolved
<1> HIDE DEF H, i
<1>3. given \in Seq(H) /\ Len(given) = Len(hosts) + Len(i) /\ Len(hosts) \in Nat /\ Len(i) \in Nat
  BY <1>1
<1>4. ASSUME NEW h \in 1..Len(given)
      PROVE  funcs[given[h].name] = given[h].type
  <2>1. CASE h <= Len(hosts)
    <3>1. given[h] = hosts[h] /\ h \in DOMAIN hosts
      BY <1>1, <1>3, <2>1
    <3>2. QED
      BY <1>2, <3>1
  <2>2. CASE h > Len(hosts)
    <3>1. given[h] = i[h - Len(hosts)] /\ h - Len(hosts) \in DOMAIN i
      BY <1>1, <1>3, <2>2
    <3>2. QED
      BY <1>2, <3>1
  <2>3. QED
    BY <1>3, <2>1, <2>2
<1>5. QED
  BY <1>3, <1>4 DEF H, i

LEMMA LinkerInstantiateKeeps ==
  ASSUME LifeInv, Careful, LinkerInstantiate
  PROVE  LifeInv'
<1>1. PICK m \in Modules :
        /\ Resolved(m.imports)
        /\ \/ InstantiateWith(m, hosts \o m.imports, "embedder")
           \/ /\ hosts' = hosts \o m.imports
              /\ state' = Result("error")
              /\ UNCHANGED <<calls, len, cap, pendingArity, instances, linker, control, task,
                             asked, height>>
  BY DEF LinkerInstantiate
<1>2. control = "embedder" /\ control # "running"
  BY DEF LinkerInstantiate
<1> DEFINE given == hosts \o m.imports
<1>3. /\ given \in Seq([name : Names, type : Types]) /\ Len(hosts) <= Len(given)
      /\ \A h \in DOMAIN given : funcs[given[h].name] = given[h].type
  BY <1>1, ResolvedHosts
<1> HIDE DEF given
<1>4. CASE InstantiateWith(m, given, "embedder")
  BY <1>2, <1>3, <1>4, InstantiateWithKeeps DEF Back
<1>5. CASE /\ hosts' = given /\ state' = Result("error")
           /\ UNCHANGED <<calls, len, cap, pendingArity, instances, linker, control, task,
                          asked, height>>
  <2>1. PointsTo(state', Len(hosts')) /\ state'.kind = "error" /\ serving = 0 /\ Len(given) \in Nat
    BY <1>2, <1>3, <1>5, ResultFacts, IdleFacts DEF Kinds
  <2>2. TypeOK'
    BY <1>3, <1>5, <2>1 DEF LifeInv, TypeOK, PointsTo, linker
  <2>3. OneExecution' /\ PausedIsPending' /\ NeverTorn' /\ RunIsFounded' /\ BottomIsZero'
    BY <1>5 DEF LifeInv, OneExecution, PausedIsPending, NeverTorn, RunIsFounded, BottomIsZero
  <2>4. HeightIsOwed' /\ NothingIsOwed' /\ QuestionIsAsked' /\ ServingIsCalled'
    BY <1>2, <1>5, <2>1
       DEF LifeInv, HeightIsOwed, NothingIsOwed, QuestionIsAsked, ServingIsCalled, linker
  <2>5. HostsAsImported'
    BY <1>3, <1>5 DEF HostsAsImported, linker
  <2>6. QED
    BY <2>2, <2>3, <2>4, <2>5 DEF LifeInv
<1>6. QED
  BY <1>1, <1>4, <1>5 DEF given

----------------------------------------------------------------------------
LEMMA LifeInit ==
  ASSUME Init
  PROVE  LifeInv
<1>1. <<>> \in Seq([entry : BOOLEAN, base : Nat, arity : Nat]) /\ Len(<<>>) = 0
      /\ <<>> \in Seq([name : Names, type : Types]) /\ DOMAIN <<>> = {}
  OBVIOUS
<1>2. TypeOK
  <2>1. 0 \in 0..MaxInstances /\ 0 \in 0..Len(hosts)
    BY <1>1, BoundsAssumption DEF Init
  <2>2. Idle \in TaskType /\ Result("none") \in [kind : Kinds, host : 0..Len(hosts)]
    BY <2>1 DEF TaskType, Idle, Result, Kinds
  <2>3. funcs \in [Names -> Types \cup {None}]
    BY DEF Init
  <2>4. (control = "running") <=> (task.why # "none")
    BY DEF Init, Idle
  <2>5. state.kind # "suspended"
    BY DEF Init, Result
  <2>6. QED
    BY <1>1, <2>1, <2>2, <2>3, <2>4, <2>5 DEF Init, TypeOK
<1>3. QED
  BY <1>1, <1>2
     DEF Init, Idle, Result, LifeInv, OneExecution, PausedIsPending, NeverTorn, RunIsFounded,
         BottomIsZero, HeightIsOwed, NothingIsOwed, QuestionIsAsked, ServingIsCalled,
         HostsAsImported

LEMMA LifeStep ==
  ASSUME LifeInv, ContractKept, [Next]_vars
  PROVE  LifeInv'
<1>1. CASE UNCHANGED vars
  BY <1>1
     DEF vars, store, linker, LifeInv, TypeOK, OneExecution, PausedIsPending, NeverTorn,
         RunIsFounded, BottomIsZero, HeightIsOwed, NothingIsOwed, QuestionIsAsked,
         ServingIsCalled, HostsAsImported
<1>2. CASE RunCompletes \/ RunOutOfFuel \/ RunAsks \/ RunFails
  BY <1>2, RunCompletesKeeps, RunOutOfFuelKeeps, RunAsksKeeps, RunFailsKeeps DEF ContractKept
<1>3. CASE Instantiate \/ Resume \/ ResumeWith \/ LinkerInstantiate
  BY <1>3, InstantiateKeeps, ResumeKeeps, LinkerInstantiateKeeps DEF ContractKept
<1>4. CASE Invoke
  <2>1. control # "running" /\ control \in Back /\ (InvokeLocal(control) \/ InvokeHost(control))
    BY <1>4 DEF Invoke, Caller, Back
  <2>2. QED
    BY <2>1, InvokeKeeps
<1>5. CASE LinkerInvoke
  <2>1. control = "embedder" /\ (InvokeLocal("dispatch") \/ InvokeHost("dispatch"))
    BY <1>5 DEF LinkerInvoke
  <2>2. QED
    BY <2>1, InvokeKeeps DEF Back
<1>6. CASE FuncNew \/ Dispatch \/ DispatchStep \/ CallbackReturns \/ CallbackExits
  BY <1>6, FuncNewKeeps, DispatchKeeps, DispatchStepKeeps, CallbackReturnsKeeps,
     CallbackExitsKeeps DEF ContractKept
<1>7. QED
  BY <1>1, <1>2, <1>3, <1>4, <1>5, <1>6 DEF Next

\* Callers that keep the contract find the store typed and coherent for ever.
THEOREM LifeIsCoherent ==
  ASSUME ContractKept
  PROVE  Spec => []LifeInv
<1>1. Init => LifeInv
  BY LifeInit
<1>2. LifeInv /\ [Next]_vars => LifeInv'
  BY LifeStep
<1>3. QED
  BY <1>1, <1>2, PTL DEF Spec

\* No two executions share the stacks (invoke_by_addr, instantiate).
THEOREM OneExecutionAtATime ==
  ASSUME ContractKept
  PROVE  Spec => []OneExecution
<1>1. LifeInv => OneExecution
  BY DEF LifeInv
<1>2. QED
  BY <1>1, LifeIsCoherent, PTL

\* pending_arity says truly whether an execution is on the stacks.
THEOREM PausedMeansPending ==
  ASSUME ContractKept
  PROVE  Spec => []PausedIsPending
<1>1. LifeInv => PausedIsPending
  BY DEF LifeInv
<1>2. QED
  BY <1>1, LifeIsCoherent, PTL

\* run() never goes on from a value stack that is short of results or has some
\* too many: the Linker's answers are those the execution asked for.
THEOREM NothingIsTorn ==
  ASSUME ContractKept
  PROVE  Spec => []NeverTorn
<1>1. LifeInv => NeverTorn
  BY DEF LifeInv
<1>2. QED
  BY <1>1, LifeIsCoherent, PTL

\* A host function answers at the type it was imported at.
THEOREM AnsweredAsImported ==
  ASSUME ContractKept
  PROVE  Spec => []AnswersAsImported
<1>1. LifeInv => AnswersAsImported
  <2>1. SUFFICES ASSUME LifeInv, serving # 0
                 PROVE  funcs[hosts[serving].name] = hosts[serving].type
    BY DEF AnswersAsImported
  <2>2. serving \in DOMAIN hosts
    BY <2>1, StatePoints
  <2>3. QED
    BY <2>1, <2>2 DEF LifeInv, HostsAsImported
<1>2. QED
  BY <1>1, LifeIsCoherent, PTL

\* The stacks, the instances and the pending arity are of their types.
THEOREM LifeIsTyped ==
  ASSUME ContractKept
  PROVE  Spec => []TypeOK
<1>1. LifeInv => TypeOK
  BY DEF LifeInv
<1>2. QED
  BY <1>1, LifeIsCoherent, PTL
=============================================================================
