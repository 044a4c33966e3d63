----------------------------- MODULE StoreLife -----------------------------
(***************************************************************************)
(* The life of a Store among those who call it: the embedder, a Linker that*)
(* answers host calls, the host functions themselves, and instantiation,   *)
(* which runs segments and a start function on the same three stacks.      *)
(* What run() does to the stacks is Interp's subject; here it is one step  *)
(* with any outcome a program can give it.                                 *)
(***************************************************************************)
EXTENDS Naturals, Sequences, FiniteSets

CONSTANTS
  Names,          \* names of host functions, as "module.name"
  Types,          \* function types of host functions, [params, results]
  Modules,        \* what may be instantiated; see ModuleType
  None,
  AllowShadowing, \* Linker::allow_shadowing
  Careful,        \* the caller keeps the contract: it instantiates while nothing
                  \* is paused, and gives an execution the results it asked
                  \* for; a host function does not resume its own caller, and
                  \* what it invokes itself comes to an end
  StartsSettle,   \* segments fit, and start functions come to their end
  MaxDepth,       \* bound of the activations on the call stack
  MaxHosts,       \* bound of the host functions in the store
  MaxInstances    \* bound of the instances

ASSUME TypesAssumption ==
  Types \subseteq [params : Nat, results : Nat] /\ None \notin Nat /\ None \notin Types

\* imports: a sequence of [name, type]; refused: an initializer or an export
\* cannot be evaluated; segments: it has active segments; need: the
\* max_stack_height of its functions.
ModuleType ==
  [imports : Seq([name : Names, type : Types]), refused : BOOLEAN, segments : BOOLEAN,
   start : {"none", "local", "host"}, need : Nat]

ASSUME ModulesAssumption == Modules \subseteq ModuleType

ASSUME BoundsAssumption == MaxDepth \in Nat /\ MaxHosts \in Nat /\ MaxInstances \in Nat

VARIABLES
  calls,          \* call_stack: [entry, base, arity], entry for an activation
                  \* that no Call op pushed
  len,            \* the value stack's cursor
  cap,            \* its capacity, in activations of height 1
  pendingArity,
  hosts,          \* the host functions among the store's functions
  instances,      \* the number of instances
  funcs,          \* the Linker's functions: a type, or None, for each name
  control,        \* who runs: embedder, dispatch, callback, or run()
  task,           \* while run() runs: who called it and what comes next
  state,          \* the last ExecutionState handed out, and not consumed
  serving,        \* while a host function runs: which
  asked,          \* observer: the results the top activation awaits, or None
  height          \* observer: the cursor run() must find to go on soundly

store == <<calls, len, cap, pendingArity, hosts, instances>>
linker == <<funcs, serving>>
vars == <<store, linker, control, task, state, asked, height>>

Kinds == {"none", "completed", "fuel", "suspended", "exited", "error"}
Result(kind) == [kind |-> kind, host |-> 0]
Suspended(h) == [kind |-> "suspended", host |-> h]

Idle == [why |-> "none", arity |-> 0, back |-> "embedder", start |-> "none"]

Activation(entry, base, arity) == [entry |-> entry, base |-> base, arity |-> arity]
Top(c) == c[Len(c)]

TaskType ==
  [why : {"none", "finish", "init", "start"}, arity : Nat,
   back : {"embedder", "dispatch", "callback"}, start : {"none", "local", "host"}]

TypeOK ==
  /\ calls \in Seq([entry : BOOLEAN, base : Nat, arity : Nat])
  /\ len \in Nat /\ cap \in Nat /\ height \in Nat /\ instances \in 0..MaxInstances
  /\ pendingArity \in Nat \cup {None} /\ asked \in Nat \cup {None}
  /\ hosts \in Seq([name : Names, type : Types])
  /\ funcs \in [Names -> Types \cup {None}]
  /\ control \in {"embedder", "dispatch", "callback", "running"}
  /\ task \in TaskType
  /\ state \in [kind : Kinds, host : 0..Len(hosts)]
  /\ serving \in 0..Len(hosts)
  /\ (control = "running") <=> (task.why # "none")
  /\ state.kind = "suspended" => state.host \in DOMAIN hosts

Init ==
  /\ calls = <<>> /\ len = 0 /\ cap = 1 /\ pendingArity = None
  /\ hosts = <<>> /\ instances = 0
  /\ funcs = [n \in Names |-> None]
  /\ control = "embedder" /\ task = Idle /\ state = Result("none")
  /\ serving = 0 /\ asked = None /\ height = 0

----------------------------------------------------------------------------
(* Entering and leaving run().                                             *)

RunFor(why, arity, back, start) ==
  /\ control' = "running"
  /\ task' = [why |-> why, arity |-> arity, back |-> back, start |-> start]

ReturnTo(who, result) ==
  /\ control' = who /\ task' = Idle /\ state' = result

\* An activation that is not pushed by a Call op goes on stacks c of height l.
PushEntry(c, l, arity) ==
  /\ Len(c) < MaxDepth
  /\ calls' = Append(c, Activation(TRUE, l, arity))
  /\ len' = l /\ height' = l /\ asked' = None

\* instantiate, its segments in place and the stacks at c and l: the start
\* function if it is local; a host import is refused.
StartFunction(c, l, back, start) ==
  IF start = "local"
  THEN /\ PushEntry(c, l, 0)
       /\ RunFor("start", 0, back, "none")
       /\ UNCHANGED state
  ELSE /\ calls' = c /\ len' = l /\ height' = l /\ asked' = None
       /\ ReturnTo(back, IF start = "host" THEN Result("error") ELSE state)

\* instantiate ignores how a run of the segments or the start function ended,
\* short of an error.
RunIgnored(c, l) == StartFunction(c, l, task.back, task.start)

----------------------------------------------------------------------------
(* run(), called by finish_run, run_init_instructions or instantiate.      *)

\* Where the cursor may be over the top activation's base.
Cursors(c) == {Top(c).base, Top(c).base + 1}

\* The activations of stack c that may be calling when run() is interrupted:
\* the code of segments calls nothing.
Calling(c) ==
  {SubSeq(c, 1, k) : k \in {j \in 1..Len(c) : task.why = "init" => j < Len(c)}}

\* The call stack then: some activations have returned, and another may have
\* been called.
Callees(q) == [entry : {FALSE}, base : Cursors(q), arity : {0, 1}]

WithCallee(c) ==
  UNION {{Append(q, x) : x \in Callees(q)} : q \in {p \in Calling(c) : Len(p) < MaxDepth}}

Interrupted(c) == Calling(c) \cup WithCallee(c) \cup {c}

Running == control = "running" /\ len = height

MayStop == StartsSettle => task.why = "finish"
MayPause == Careful => task.back # "callback"

\* The first activation returns: its results lie where it began.
Results == calls[1].base + calls[1].arity

RunCompletes ==
  /\ Running
  /\ \/ /\ task.why = "finish"
        /\ calls' = <<>> /\ len' = Results - task.arity /\ height' = len'
        /\ pendingArity' = None /\ asked' = None
        /\ ReturnTo(task.back, Result("completed"))
     \/ /\ task.why # "finish"
        /\ RunIgnored(<<>>, Results)
        /\ UNCHANGED pendingArity
  /\ UNCHANGED <<cap, hosts, instances, linker>>

RunOutOfFuel ==
  /\ Running /\ MayStop /\ MayPause
  /\ \E c \in Interrupted(calls) : \E l \in Cursors(c) :
       \/ /\ task.why = "finish"
          /\ calls' = c /\ len' = l /\ height' = l /\ asked' = None
          /\ pendingArity' = task.arity
          /\ ReturnTo(task.back, Result("fuel"))
       \/ /\ task.why # "finish"
          /\ RunIgnored(c, l)
          /\ UNCHANGED pendingArity
  /\ UNCHANGED <<cap, hosts, instances, linker>>

\* A Call op of a host function: its arguments are popped, its results awaited.
RunAsks ==
  /\ Running /\ MayStop /\ MayPause
  /\ \E c \in Calling(calls) \cup WithCallee(calls), h \in DOMAIN hosts : \E l \in Cursors(c) :
       \/ /\ task.why = "finish"
          /\ calls' = c /\ len' = l /\ asked' = hosts[h].type.results
          /\ height' = l + hosts[h].type.results
          /\ pendingArity' = task.arity
          /\ ReturnTo(task.back, Suspended(h))
       \/ /\ task.why # "finish"
          /\ RunIgnored(c, l)
          /\ UNCHANGED pendingArity
  /\ UNCHANGED <<cap, hosts, instances, linker>>

\* Mutant of RunFails: an error leaves pending_arity.
RunFailsPending ==
  /\ Running /\ MayStop
  /\ \/ /\ task.why = "finish"
        /\ calls' = <<>> /\ len' = 0 /\ height' = 0
     \/ /\ task.why # "finish"
        /\ calls' \in Interrupted(calls)
        /\ len' \in Cursors(calls') /\ height' = len'
  /\ asked' = None
  /\ ReturnTo(task.back, Result("error"))
  /\ UNCHANGED <<cap, pendingArity, hosts, instances, linker>>

\* finish_run clears the stacks; the others pass the error on.
RunFails ==
  /\ Running /\ MayStop
  /\ \/ /\ task.why = "finish"
        /\ calls' = <<>> /\ len' = 0 /\ height' = 0
        /\ pendingArity' = None
     \/ /\ task.why # "finish"
        /\ calls' \in Interrupted(calls)
        /\ len' \in Cursors(calls') /\ height' = len'
        /\ UNCHANGED pendingArity
  /\ asked' = None
  /\ ReturnTo(task.back, Result("error"))
  /\ UNCHANGED <<cap, hosts, instances, linker>>

----------------------------------------------------------------------------
(* The Store's calls. An embedder makes them, and so can a host function   *)
(* through its Caller. A call the store refuses changes nothing.           *)

Caller == control \in {"embedder", "callback"}

\* ensure_stack_capacity puts an empty value stack in place of a smaller one.
Kept(m) == IF m.need > cap THEN 0 ELSE len

\* instantiate, with host functions given for the imports.
InstantiateWith(m, given, back) ==
  /\ Careful => calls = <<>>
  /\ instances < MaxInstances
  /\ instances' = instances + 1
  /\ hosts' = given
  /\ cap' = IF m.need > cap THEN m.need ELSE cap
  /\ IF m.segments
     THEN /\ PushEntry(calls, Kept(m), 0)
          /\ RunFor("init", 0, back, m.start)
          /\ UNCHANGED state
     ELSE StartFunction(calls, Kept(m), back, m.start)
  /\ UNCHANGED <<pendingArity, linker>>

\* validate_imports compares the types of functions, not their names.
Instantiate ==
  /\ Caller
  /\ \E m \in Modules :
       /\ ~m.refused
       /\ \A i \in DOMAIN m.imports : \E h \in DOMAIN hosts : hosts[h].type = m.imports[i].type
       /\ InstantiateWith(m, hosts, control)

\* Mutant of InvokeLocal: a paused execution does not stop it.
InvokeLocalWhilePaused(back) ==
  /\ instances > 0
  /\ \E arity \in {0, 1} : PushEntry(calls, len, arity) /\ RunFor("finish", arity, back, "none")
  /\ UNCHANGED <<cap, pendingArity, hosts, instances, linker, state>>

\* invoke of a function the module defines.
InvokeLocal(back) ==
  /\ pendingArity = None /\ instances > 0
  /\ \E arity \in {0, 1} : PushEntry(calls, len, arity) /\ RunFor("finish", arity, back, "none")
  /\ UNCHANGED <<cap, pendingArity, hosts, instances, linker, state>>

\* invoke of a re-exported host function reports it and leaves no trace.
InvokeHost(back) ==
  /\ pendingArity = None /\ instances > 0
  /\ \E h \in DOMAIN hosts : ReturnTo(back, Suspended(h))
  /\ UNCHANGED <<store, linker, asked, height>>

Invoke == Caller /\ (InvokeLocal(control) \/ InvokeHost(control))

\* Mutant of GoOn: the number of results is that of the last answer.
GoOnForGiven(given, back) ==
  /\ pendingArity # None
  /\ len' = len + given
  /\ RunFor("finish", given, back, "none")
  /\ asked' = None
  /\ UNCHANGED <<calls, cap, pendingArity, hosts, instances, funcs, state, height>>

\* resume and resume_with: the values given are pushed, whatever was asked.
GoOn(given, back) ==
  /\ pendingArity # None
  /\ len' = len + given
  /\ RunFor("finish", pendingArity, back, "none")
  /\ asked' = None
  /\ UNCHANGED <<calls, cap, pendingArity, hosts, instances, funcs, state, height>>

Resume ==
  /\ Caller
  /\ Careful => control = "embedder" /\ asked \in {None, 0}
  /\ GoOn(0, control) /\ UNCHANGED serving

ResumeWith ==
  /\ Caller
  /\ \E given \in 0..2 :
       /\ Careful => control = "embedder" /\ given = asked
       /\ GoOn(given, control)
  /\ UNCHANGED serving

----------------------------------------------------------------------------
(* The Linker.                                                             *)

FuncNew ==
  /\ control = "embedder"
  /\ \E n \in Names, t \in Types :
       /\ AllowShadowing \/ funcs[n] = None
       /\ funcs' = [funcs EXCEPT ![n] = t]
  /\ UNCHANGED <<store, control, task, state, serving, asked, height>>

\* Mutant of Resolved: a function of that name is enough.
ResolvedByName(imports) == \A i \in DOMAIN imports : funcs[imports[i].name] # None

\* resolve_func_import
Resolved(imports) == \A i \in DOMAIN imports : funcs[imports[i].name] = imports[i].type

\* Linker::instantiate adds a host function for each import, and they stay if
\* the store refuses the module.
LinkerInstantiate ==
  /\ control = "embedder"
  /\ \E m \in Modules :
       /\ Resolved(m.imports)
       /\ Len(hosts) + Len(m.imports) <= MaxHosts
       /\ \/ /\ ~m.refused
             /\ InstantiateWith(m, hosts \o m.imports, "embedder")
          \/ /\ m.refused
             /\ hosts' = hosts \o m.imports
             /\ state' = Result("error")
             /\ UNCHANGED <<calls, len, cap, pendingArity, instances, linker, control, task,
                            asked, height>>

LinkerInvoke ==
  /\ control = "embedder"
  /\ InvokeLocal("dispatch") \/ InvokeHost("dispatch")

\* The embedder hands over what the store reported.
Dispatch ==
  /\ control = "embedder" /\ state.kind = "suspended"
  /\ control' = "dispatch"
  /\ UNCHANGED <<store, linker, task, state, asked, height>>

\* dispatch returns any other state than a suspension; else it looks the
\* function up by its name and counts the arguments.
Fits(h) == funcs[hosts[h].name] # None /\ funcs[hosts[h].name].params = hosts[h].type.params

DispatchStep ==
  /\ control = "dispatch"
  /\ \/ /\ state.kind # "suspended"
        /\ control' = "embedder"
        /\ UNCHANGED <<state, serving>>
     \/ /\ state.kind = "suspended" /\ Fits(state.host)
        /\ control' = "callback" /\ serving' = state.host
        /\ UNCHANGED state
     \/ /\ state.kind = "suspended" /\ ~Fits(state.host)
        /\ control' = "embedder" /\ state' = Result("error")
        /\ UNCHANGED serving
  /\ UNCHANGED <<store, funcs, task, asked, height>>

\* Mutant of CallbackReturns: the results are not counted.
CallbackReturnsAny ==
  /\ control = "callback" /\ serving' = 0
  /\ \E given \in 0..2 :
       \/ GoOn(given, "dispatch")
       \/ /\ pendingArity = None
          /\ ReturnTo("embedder", Result("error"))
          /\ UNCHANGED <<store, funcs, asked, height>>

\* dispatch, from the callback's return: the results are counted.
CallbackReturns ==
  /\ control = "callback" /\ serving' = 0
  /\ \E given \in 0..2 :
       \/ /\ given = funcs[hosts[serving].name].results
          /\ GoOn(given, "dispatch")
       \/ /\ given # funcs[hosts[serving].name].results \/ pendingArity = None
          /\ ReturnTo("embedder", Result("error"))
          /\ UNCHANGED <<store, funcs, asked, height>>

CallbackExits ==
  /\ control = "callback" /\ serving' = 0
  /\ \E kind \in {"exited", "error"} : ReturnTo("embedder", Result(kind))
  /\ UNCHANGED <<store, funcs, asked, height>>

----------------------------------------------------------------------------
Next ==
  \/ RunCompletes \/ RunOutOfFuel \/ RunAsks \/ RunFails
  \/ Instantiate \/ Invoke \/ Resume \/ ResumeWith
  \/ FuncNew \/ LinkerInstantiate \/ LinkerInvoke \/ Dispatch \/ DispatchStep
  \/ CallbackReturns \/ CallbackExits

Spec == Init /\ [][Next]_vars

----------------------------------------------------------------------------
(* Properties.                                                             *)

\* The stacks belong to one execution: whatever the order of calls, pauses,
\* answers and instantiations, no activation but the first was put there by an
\* invocation, so nobody runs another one's activations (invoke_by_addr's check
\* of pending_arity, finish_run, instantiate).
OneExecution == \A i \in 2..Len(calls) : ~calls[i].entry

\* When the store gives control back, pending_arity says truly whether an
\* execution is left on the stacks, and the number of its results; without one
\* the stacks are empty. It is what is_paused, resume and the refusal of
\* invoke rest on.
PausedIsPending ==
  control # "running" =>
    IF calls = <<>> THEN pendingArity = None /\ len = 0
    ELSE pendingArity = calls[1].arity

\* run() goes on from the very value stack its activations left, with all the
\* results they await and no other: across pauses, callbacks that invoke and
\* instantiate, and answers of a Linker that only counts them.
NeverTorn == control = "running" => len = height

\* The host function that answers an import has the type the import was
\* resolved at, however long ago that was (resolve_func_import, func_new).
AnswersAsImported == serving # 0 => funcs[hosts[serving].name] = hosts[serving].type

----------------------------------------------------------------------------
(* The inductive invariant, for callers that keep the contract.            *)

ContractKept == Careful /\ StartsSettle /\ ~AllowShadowing

\* What run() is about to run is what its caller put there.
RunIsFounded ==
  control = "running" =>
    /\ calls # <<>>
    /\ task.why = "finish" => task.arity = calls[1].arity
    /\ task.why # "finish" => Len(calls) = 1 /\ calls[1].arity = 0 /\ pendingArity = None
    /\ task.back = "callback" => pendingArity = None

\* An execution starts on an empty value stack.
BottomIsZero == calls # <<>> => calls[1].base = 0

\* A paused execution needs what it asked for, and no more.
HeightIsOwed ==
  control # "running" /\ calls # <<>> =>
    height = IF asked = None THEN len ELSE len + asked

NothingIsOwed == calls = <<>> => asked = None

\* The question at hand is the one the paused execution asked.
QuestionIsAsked ==
  pendingArity # None =>
    /\ control \in {"embedder", "dispatch"} /\ state.kind = "suspended"
         => asked = hosts[state.host].type.results
    /\ control = "callback" => asked = hosts[serving].type.results

ServingIsCalled ==
  /\ control = "callback" => serving # 0
  /\ serving # 0 => control = "callback" \/ task.back = "callback"
  /\ task.back = "callback" => serving # 0
  /\ control # "running" => task.back = "embedder"

HostsAsImported == \A h \in DOMAIN hosts : funcs[hosts[h].name] = hosts[h].type

LifeInv ==
  /\ TypeOK /\ OneExecution /\ PausedIsPending /\ NeverTorn
  /\ RunIsFounded /\ BottomIsZero /\ HeightIsOwed /\ NothingIsOwed /\ QuestionIsAsked
  /\ ServingIsCalled /\ HostsAsImported
=============================================================================
