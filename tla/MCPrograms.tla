---------------------------- MODULE MCPrograms ----------------------------
(***************************************************************************)
(* Small source modules, lowered by Compile, for the model-checking runs   *)
(* of the interpreter.  Function 0 is a host import taking one value and   *)
(* returning one.                                                          *)
(***************************************************************************)
EXTENDS Compile

Push(n) == [i |-> "op", pop |-> 0, push |-> n, traps |-> FALSE]
Pop(n) == [i |-> "op", pop |-> n, push |-> 0, traps |-> FALSE]
Binary == [i |-> "op", pop |-> 2, push |-> 1, traps |-> FALSE]
Divide == [i |-> "op", pop |-> 2, push |-> 1, traps |-> TRUE]
Block(n, body) == [i |-> "block", m |-> 0, n |-> n, body |-> body]
Loop(n, body) == [i |-> "loop", m |-> 0, n |-> n, body |-> body]
If(n, then, else) == [i |-> "if", m |-> 0, n |-> n, then |-> then, else |-> else]
Try(m, n, catches, body) ==
  [i |-> "try_table", m |-> m, n |-> n, catches |-> catches, body |-> body]
Br(l) == [i |-> "br", label |-> l]
BrIf(l) == [i |-> "br_if", label |-> l]
BrTable(ls, d) == [i |-> "br_table", labels |-> ls, default |-> d]
BrOnNull(l) == [i |-> "br_on_null", label |-> l]
BrOnNonNull(l) == [i |-> "br_on_non_null", label |-> l]
Ret == [i |-> "return"]
Trap == [i |-> "unreachable"]
CallTo(g) == [i |-> "call", f |-> g]
CallAny(gs, p, r) == [i |-> "call_indirect", callees |-> gs, params |-> p, results |-> r]
TailCall(g) == [i |-> "return_call", f |-> g]
TailCallAny(gs, p, r) ==
  [i |-> "return_call_indirect", callees |-> gs, params |-> p, results |-> r]
ThrowTag(t) == [i |-> "throw", tag |-> t]
Rethrow == [i |-> "throw_ref"]
On(kind, t, l) == [kind |-> kind, tag |-> t, label |-> l]
Fn(p, r, body) == [params |-> p, results |-> r, body |-> body]

MCTagArity == [e |-> 1, f |-> 0, g |-> 3]
MCImports == <<[params |-> 1, results |-> 1]>>

(***************************************************************************)
(* Every try_table is left only through its end, a call or an exception.   *)
(***************************************************************************)
StructuredModule == <<
  \* 1: calls 2 under a handler for e, keeping an operand below the block
  Fn(0, 1, << Push(1),
              Block(1, << Try(0, 1, <<On("Catch", "e", 0)>>, <<CallTo(2)>>) >>),
              Binary >>),
  \* 2: throws e or f, or asks the host
  Fn(0, 1, << Push(1), Push(1),
              If(1, << Push(1), Push(1), BrIf(0), ThrowTag("e") >>,
                    << Push(1), CallTo(0), Push(1), If(0, <<ThrowTag("f")>>, <<>>) >>),
              Divide >>),
  \* 3: a jump table over two labels
  Fn(1, 0, << Block(0, << Push(1), Push(1), BrTable({0}, 1) >>), Push(1), Pop(1) >>),
  \* 4: a tail call that leaves a try_table, to itself or to 1
  Fn(0, 1, << Push(1),
              Block(1, << Try(0, 1, <<On("CatchAllRef", "e", 0)>>,
                              << CallTo(1), Push(1),
                                 If(0, << Push(1), TailCallAny({4, 1}, 0, 1) >>, <<>>) >>) >>),
              BrOnNull(0), Binary >>),
  \* 5: catches by reference, then rethrows, or returns over an operand
  Fn(0, 0, << Block(1, <<
                Block(1, << Try(0, 0, <<On("CatchRef", "f", 0), On("CatchAll", "e", 2)>>,
                                << CallTo(2), Pop(1), Push(1), CallAny({6}, 0, 0) >>),
                            Push(1) >>),
                BrOnNonNull(0), Push(1), Ret >>),
              Rethrow >>),
  \* 6: recursion to the depth limit
  Fn(0, 0, << Loop(0, << Push(1), BrIf(0) >>), CallTo(6) >>),
  \* 7: tail calls to itself and to the host
  Fn(1, 1, << Push(1), Push(1),
              If(0, << Push(1), TailCall(7) >>, << Push(1), TailCall(0) >>) >>)
>>

(***************************************************************************)
(* Functions that branch or return out of a try_table, and a caller that   *)
(* throws after they have returned.                                        *)
(***************************************************************************)
EscapingModule == <<
  \* 1: throws inside its own try_table, or outside of it
  Fn(0, 0, << Block(0, << Try(0, 0, <<On("Catch", "f", 0)>>,
                              << Push(1), CallAny({2, 3}, 0, 0), Push(1),
                                 If(0, <<ThrowTag("f")>>, <<>>) >>) >>),
              Push(1), ThrowTag("e") >>),
  \* 2: br_if out of a try_table, far into its code
  Fn(0, 0, << Loop(0, << Push(1), BrIf(0) >>), Push(1), Pop(1), Push(1), Pop(1),
              Block(0, << Try(0, 0, <<On("CatchAll", "e", 0)>>,
                              << Push(1), BrIf(1), Push(1), BrIf(0) >>) >>) >>),
  \* 3: return out of a try_table
  Fn(0, 0, << Try(0, 0, <<On("CatchAll", "f", 0)>>,
                  << Push(1), If(0, <<Ret>>, <<>>) >>) >>)
>>

\* 1: a loop that re-enters a try_table taking one parameter; each caught
\* exception branches back to the loop.
TryParamModule == <<
  Fn(0, 0, << Loop(0, << Push(1),
                         Try(1, 0, <<On("CatchAll", "f", 0)>>,
                             << Pop(1), ThrowTag("f") >>) >>) >>)
>>

\* 1 stores the exnref of an exception of three values; 2 recurses with every
\* slot it may use held, and at the end rethrows it over its own operands.
RethrowModule == <<
  Fn(0, 0, << Block(1, << Try(0, 0, <<On("CatchAllRef", "e", 0)>>, <<CallTo(3)>>), Push(1) >>),
              Pop(1) >>),
  Fn(0, 0, << Push(1),
              If(0, << Push(4), CallTo(2), Pop(4) >>,
                    << Block(3, << Push(3), Try(0, 0, <<On("Catch", "g", 0)>>,
                                                << Push(1), Rethrow >>) >>),
                       Pop(3) >>) >>),
  Fn(0, 0, << Push(3), ThrowTag("g") >>)
>>
=============================================================================
