------------------------- MODULE DependencyResolver -------------------------
(***************************************************************************)
(* di.py and EventRouter._run_handler: one call of a handler.  Its         *)
(* Depends() parameters are resolved depth first, and so are those of the  *)
(* dependencies; what an async generator yields is used until an           *)
(* AsyncExitStack closes it, after the handler has ended and its failure   *)
(* has been reported.  Anything may raise, and the task may be cancelled   *)
(* wherever it is suspended, by EventRouter.cleanup.                       *)
(*                                                                         *)
(* frames is the stack of resolve() calls; the values made are numbered in *)
(* the order in which they are ready.                                      *)
(***************************************************************************)
EXTENDS Naturals, Sequences, SequencesExt

CONSTANTS
    Dependency,    \* dependency callables
    Handler,       \* the handler
    Uses,          \* Uses[f]: the dependencies f declares, in order
    Plain,         \* plain functions: called without suspending
    Generator      \* async generator functions; the others are coroutines

Callable == Dependency \cup {Handler}

ASSUME HandlerAssumption == Handler \notin Dependency
ASSUME UsesAssumption == Uses \in [Callable -> Seq(Dependency)]
ASSUME KindAssumption ==
    Plain \subseteq Dependency /\ Generator \subseteq Dependency \ Plain

VARIABLES
    phase,         \* where _run_handler is
    frames,        \* calls of resolve: the callable, and its arguments so far
    built,         \* built[i]: the call that made value i
    stack,         \* the exit stack: values of generators, the latest last
    open,          \* generators suspended at their yield, or in their clean-up
    outcome,       \* how the body of the try statement ended
    answers,       \* HANDLER_ERROR envelopes sent
    raised,        \* a clean-up has raised
    cancel         \* CancelledError: "no", "requested" or "raised"

vars == <<phase, frames, built, stack, open, outcome, answers, raised, cancel>>

Init ==
    /\ phase = "resolving"
    /\ frames = <<[fn |-> Handler, args |-> <<>>]>>
    /\ built = <<>>
    /\ stack = <<>>
    /\ open = {}
    /\ outcome = "none"
    /\ answers = 0
    /\ raised = FALSE
    /\ cancel = "no"

-----------------------------------------------------------------------------
(* Resolving.                                                              *)
Top == frames[Len(frames)]
Wanting == Len(Top.args) < Len(Uses[Top.fn])

\* The dependency on top of the stack has its arguments and is being called.
Calling == phase = "resolving" /\ Len(frames) > 1 /\ ~Wanting

\* Mutant: values are cached by the function that makes them.
DescendCached ==
    /\ phase = "resolving"
    /\ Wanting
    /\ LET next == Uses[Top.fn][Len(Top.args) + 1]
           made == {i \in DOMAIN built : built[i].fn = next}
       IN  frames' = IF made = {} THEN Append(frames, [fn |-> next, args |-> <<>>])
                     ELSE [frames EXCEPT ![Len(frames)].args =
                              Append(@, CHOOSE i \in made : TRUE)]
    /\ UNCHANGED <<phase, built, stack, open, outcome, answers, raised, cancel>>

\* resolve: the next parameter with a Depends() default.  Nothing is cached.
Descend ==
    /\ phase = "resolving"
    /\ Wanting
    /\ frames' = Append(frames, [fn |-> Uses[Top.fn][Len(Top.args) + 1], args |-> <<>>])
    /\ UNCHANGED <<phase, built, stack, open, outcome, answers, raised, cancel>>

\* The frame that asked for the value of the one on top gets it.
Passed(i) ==
    [k \in 1..Len(frames) - 1 |->
        IF k = Len(frames) - 1 THEN [frames[k] EXCEPT !.args = Append(@, i)]
        ELSE frames[k]]

\* It returns; an async generator is run to its yield and entered on the stack.
DependencyReturns ==
    /\ Calling
    /\ built' = Append(built, Top)
    /\ frames' = Passed(Len(built'))
    /\ IF Top.fn \in Generator
       THEN stack' = Append(stack, Len(built')) /\ open' = open \cup {Len(built')}
       ELSE UNCHANGED <<stack, open>>
    /\ UNCHANGED <<phase, outcome, answers, raised, cancel>>

\* The body of the try statement is left: an Exception is reported first.
LeaveBody(how) ==
    /\ outcome' = how
    /\ phase' = IF how = "failed" THEN "reporting" ELSE "closing"
    /\ UNCHANGED <<frames, built, stack, open, answers, raised>>

\* Mutant: the dependencies are resolved before the try statement, which only
\* closes them.
DependencyRaisesOutside ==
    /\ Calling
    /\ outcome' = "failed"
    /\ phase' = "closing"
    /\ UNCHANGED <<frames, built, stack, open, answers, raised, cancel>>

DependencyRaises == Calling /\ LeaveBody("failed") /\ UNCHANGED cancel

-----------------------------------------------------------------------------
(* The handler, its failure, and the exit stack.                           *)
HandlerCalled ==
    /\ phase = "resolving"
    /\ Len(frames) = 1 /\ ~Wanting
    /\ phase' = "handling"
    /\ UNCHANGED <<frames, built, stack, open, outcome, answers, raised, cancel>>

HandlerReturns == phase = "handling" /\ LeaveBody("returned") /\ UNCHANGED cancel
HandlerRaises == phase = "handling" /\ LeaveBody("failed") /\ UNCHANGED cancel

\* _emit_error; a send that fails is swallowed by ConnectionManager.send.
Reported ==
    /\ phase = "reporting"
    /\ phase' = "hooks"
    /\ answers' = answers + 1
    /\ UNCHANGED <<frames, built, stack, open, outcome, raised, cancel>>

\* The error hooks return, or raise what _run_handler logs.
HooksEnd ==
    /\ phase = "hooks"
    /\ phase' = "closing"
    /\ UNCHANGED <<frames, built, stack, open, outcome, answers, raised, cancel>>

\* Mutant: the clean-ups run in the order in which they were entered.
CloseFirst(fault) ==
    /\ phase = "closing" /\ stack # <<>>
    /\ stack' = Tail(stack)
    /\ open' = open \ {Head(stack)}
    /\ raised' = (raised \/ fault)
    /\ UNCHANGED <<phase, frames, built, outcome, answers>>

\* The clean-up of the generator on top ends.  If it raised, the stack goes on
\* with the others and raises what is left at the end.
CloseTop(fault) ==
    /\ phase = "closing" /\ stack # <<>>
    /\ stack' = Front(stack)
    /\ open' = open \ {Last(stack)}
    /\ raised' = (raised \/ fault)
    /\ UNCHANGED <<phase, frames, built, outcome, answers>>

CleanupEnds == \E fault \in BOOLEAN : CloseTop(fault) /\ UNCHANGED cancel

\* aclose() is through, and _run_handler returns or raises what it raised.
Ends ==
    /\ phase = "closing" /\ stack = <<>>
    /\ phase' = "done"
    /\ UNCHANGED <<frames, built, stack, open, outcome, answers, raised, cancel>>

-----------------------------------------------------------------------------
(* Cancellation, by a cleanup() of this or of another task.                *)
CancelRequested ==
    /\ phase # "done"
    /\ cancel = "no"
    /\ cancel' = "requested"
    /\ UNCHANGED <<phase, frames, built, stack, open, outcome, answers, raised>>

\* Inside user code that may suspend.
InUserCode ==
    \/ Calling /\ Top.fn \notin Plain
    \/ phase \in {"handling", "hooks"}
    \/ phase = "closing" /\ stack # <<>>

\* No clause of _run_handler catches a CancelledError; in a clean-up it is one
\* more exception.
Interrupted ==
    /\ cancel = "requested"
    /\ cancel' = "raised"
    /\ \/ InUserCode /\ phase # "closing" /\ LeaveBody("cancelled")
       \/ phase = "reporting" /\ LeaveBody("cancelled")
       \/ CloseTop(TRUE)

\* User code may catch it and go on.
Swallowed ==
    /\ cancel = "requested"
    /\ InUserCode
    /\ cancel' = "raised"
    /\ UNCHANGED <<phase, frames, built, stack, open, outcome, answers, raised>>

Next ==
    \/ Descend \/ DependencyReturns \/ DependencyRaises
    \/ HandlerCalled \/ HandlerReturns \/ HandlerRaises
    \/ Reported \/ HooksEnd \/ CleanupEnds \/ Ends
    \/ CancelRequested \/ Interrupted \/ Swallowed

Spec == Init /\ [][Next]_vars

-----------------------------------------------------------------------------
Call == [fn : Callable, args : Seq(Nat)]

TypeOK ==
    /\ phase \in {"resolving", "handling", "reporting", "hooks", "closing", "done"}
    /\ frames \in Seq(Call) /\ frames # <<>>
    /\ built \in Seq(Call)
    /\ stack \in Seq(1..Len(built))
    /\ open \subseteq 1..Len(built)
    /\ outcome \in {"none", "returned", "failed", "cancelled"}
    /\ answers \in Nat
    /\ raised \in BOOLEAN
    /\ cancel \in {"no", "requested", "raised"}

Entered == {i \in DOMAIN built : built[i].fn \in Generator}

\* A generator stays open as long as anything that may use what it yielded: the
\* values made after it, the handler, and the report of the handler's failure.
InUseIsOpen ==
    /\ phase \in {"resolving", "handling", "reporting", "hooks"} => Entered \subseteq open
    /\ \A j \in open : \A i \in Entered : i < j => i \in open

\* When the task ends no generator is left suspended at its yield, whatever
\* failed or was cancelled, also in the clean-ups.
NothingLeftOpen == phase = "done" => open = {}

\* A callable is called with one value for each of its parameters, made by the
\* function the parameter names.
Complete(call) ==
    /\ Len(call.args) = Len(Uses[call.fn])
    /\ \A k \in DOMAIN call.args :
          call.args[k] \in DOMAIN built /\ built[call.args[k]].fn = Uses[call.fn][k]

\* Every call has its arguments, the handler's included, and a value made for
\* one parameter is used for no other, though several may name its function.
ArgumentsMatch ==
    /\ \A i \in DOMAIN built : Complete(built[i])
    /\ phase = "handling" => Complete(frames[1])
    /\ LET calls == built \o frames IN
       \A i, j \in DOMAIN calls :
          \A k \in DOMAIN calls[i].args, l \in DOMAIN calls[j].args :
              calls[i].args[k] = calls[j].args[l] => i = j /\ k = l

\* A failure of a dependency or of the handler is answered once, unless the task
\* is cancelled; what has returned is not answered, and then the handler was
\* called with everything it needs.
FailureAnswered ==
    phase \in {"closing", "done"} =>
        /\ outcome = "failed" => answers = 1
        /\ outcome = "returned" => answers = 0 /\ Complete(frames[1])

Scopes == INSTANCE ScopedResources WITH
    held <- open,
    scope <- IF phase = "done" THEN "left"
             ELSE IF phase = "closing" THEN "leaving" ELSE "inside"

ImplementsScopes == Scopes!Spec
=============================================================================
