------------------------------ MODULE Decisions ------------------------------
(***************************************************************************)
(* What a command decides without waiting for anybody: beside the Choices  *)
(* also the input it accepts, the requests it makes of it, and the command *)
(* or API operation that its line names.  A behaviour asks one question.   *)
(***************************************************************************)
EXTENDS Choices

CONSTANTS
  Numbers, Truncated,                                   \* of ActionInput and ObjectInput
  Resources, ProductSpecs, Dotted, Settings,            \* of CommandLine
  Catalogue, Spellings, OSSOperations, Literals, Requests, Assignments, \* of CallLine
  MappingQuestions, InputQuestions, ObjectQuestions,
  LineQuestions, CallQuestions, DiscoverQuestions       \* families of questions of each kind

Mapping == INSTANCE RequestMapping
Input == INSTANCE ActionInput
Object == INSTANCE ObjectInput
Line == INSTANCE CallLine

-----------------------------------------------------------------------------
Init ==
  \/ ChoiceInit
  \/ /\ answer = <<>>
     /\ \/ Asks("mapping", MappingQuestions)
        \/ Asks("input", InputQuestions)
        \/ Asks("object", ObjectQuestions)
        \/ Asks("line", LineQuestions)
        \/ Asks("call", CallQuestions)
        \/ Asks("discover", DiscoverQuestions)

MapRequests == Reply("mapping", Mapping!Sends(question.steps, question.input))
ReadInput == Reply("input", Input!ReadInput(question))
ReadObject ==
  Reply("object", Object!structuredObjectFlagValue(Object!Form("inline", question.entries), question.schema))
ReadLine == Reply("line", Line!Run(question.surface, question.line))
CallOperation == about \in {"call", "discover"} /\ Reply(about, Line!RunCall(question.line))

Next == ChoiceNext \/ MapRequests \/ ReadInput \/ ReadObject \/ ReadLine \/ CallOperation
Spec == Init /\ [][Next]_choiceVars

-----------------------------------------------------------------------------
\* A map's order decides nothing, --api-param takes nothing away, and changes
\* are sent on their sides, once and in order, save those without a sign and
\* those of a key that has no field, which are dropped (expandBindingFields,
\* expandRawBinding, prefixedStringValues).
RequestsSayAll ==
  Answered("mapping") =>
    /\ Mapping!OrderIsNothing(question, answer[1])
    /\ Mapping!RawOnlyAdds(question, answer[1])
    /\ Mapping!ChangesAreMade(question, answer[1])


\* A command found in the tree that is built for its line is the command of
\* the whole tree, unless the line has the alias of the resource above its
\* own; the public surface is what it should be, and what a refusal advises
\* works (newProductCommands, isTargetResource, publicCLICommandAllowed,
\* unknownCommandSuggestion).
TreeIsExact ==
  Answered("line") =>
    /\ Line!LazyIsWhole(question, answer[1])
    /\ Line!SurfaceIsExact(question, answer[1])
    /\ Line!AdviceWorks(question, answer[1])

\* Language and output are of the profile that is used, or of another --profile
\* of the line if it has several or one is the cluster's (newGlobalOptions,
\* requestedProfileFlagValue, ackCreateLocalProfileFlag).
SettingsAreTheProfiles == Answered("line") => Line!SettingsAreTheProfiles(question, answer[1])

\* A call sends what its line says, and what is discovered can be called
\* (normalizeAPICallParameterFlags, commandArgs, apiProductOperationItems).
CallsAreFaithful ==
  /\ Answered("call") => Line!CallKeepsAll(question, answer[1])
  /\ Answered("discover") => Line!DiscoveredIsCallable(question, answer[1])

\* "put the config profile before the resource command, for example
\* ecctl --profile prod ack create --profile Serverless" (specs/ack/ack.yaml).
\* It does not hold.
ProfileBeforeIsConfiguration == Answered("line") => Line!ProfileBeforeIsConfiguration(question, answer[1])
=============================================================================
