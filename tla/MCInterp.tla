----------------------------- MODULE MCInterp -----------------------------
(***************************************************************************)
(* Interp on one of the programs of CompiledPrograms, which the .cfg names.*)
(***************************************************************************)
EXTENDS InterpProperties, CompiledPrograms

CONSTANTS
  MaxExceptions,   \* bound of the exceptions vector, which only grows
  MaxCatchFrames   \* bound of the catch stack, for programs that leak frames

MCHostFunc == {0}
MCFunc == DOMAIN Params
MCHandler == DOMAIN Clauses
MCTagArity == [e |-> 1, f |-> 0, g |-> 3]
MCTag == DOMAIN MCTagArity

Bounded ==
  Len(exceptions) <= MaxExceptions /\ Len(catchStack) <= MaxCatchFrames

ASSUME ProgramIsTyped == ProgramType

----------------------------------------------------------------------------
\* CompiledPrograms is what Compile makes of MCPrograms: TLC would otherwise
\* compile the programs again at every step.
Source == INSTANCE MCPrograms

Compiled(src, code, height, scope, clauses, max) ==
  LET c == Source!CompileModule(Source!MCImports, src, MCTagArity)
  IN  /\ \A f \in DOMAIN src :
           c[f].code = code[f] /\ c[f].height = height[f] /\ c[f].scope = scope[f]
      /\ \A h \in DOMAIN clauses : c[Len(c)].handlers[h + 1] = clauses[h]
      /\ max = CHOOSE m \in {c[f].max : f \in DOMAIN src} : \A f \in DOMAIN src : c[f].max <= m

ASSUME ProgramsAreCompiled ==
  /\ Compiled(Source!StructuredModule, StructuredCode, StructuredHeight, StructuredScope,
              StructuredClauses, StructuredMaxHeight)
  /\ Compiled(Source!EscapingModule, EscapingCode, EscapingHeight, EscapingScope,
              EscapingClauses, EscapingMaxHeight)
  /\ Compiled(Source!TryParamModule, TryParamCode, TryParamHeight, TryParamScope,
              TryParamClauses, TryParamMaxHeight)
  /\ Compiled(Source!RethrowModule, RethrowCode, RethrowHeight, RethrowScope,
              RethrowClauses, RethrowMaxHeight)
=============================================================================
