------------------------------- MODULE AutoStep -------------------------------
(***************************************************************************)
(* The step filter of the VS Code extension (the debug adapter tracker of   *)
(* vscode-ext/src/extension.ts): when a step lands in code without source,  *)
(* it steps on by itself, first into (mode "hybrid" only), then out, each    *)
(* kind within a budget.                                                    *)
(*                                                                         *)
(* The filter is three pieces of code of one event loop: the tracker's      *)
(* onDidSendMessage, the callback it defers with setImmediate, and what     *)
(* follows that callback's await of a stack trace.  They share one          *)
(* variable, autoStepState, whatever the session or thread.  The debug      *)
(* adapter answers a session's requests in order, and its answers and       *)
(* events arrive in the order it sends them; the user may command any       *)
(* session at any time.                                                     *)
(***************************************************************************)
EXTENDS Naturals, Sequences

CONSTANTS
    Sessions, Threads,
    NoAuto,           \* autoStepState = undefined
    kStepInBudget,    \* 50 in the code
    kStepOutBudget,   \* 30 in the code
    MaxCommands       \* how often the user steps or continues

ASSUME BudgetAssumption ==
    kStepInBudget \in Nat /\ kStepOutBudget \in Nat /\ MaxCommands \in Nat
ASSUME NoAutoAssumption ==
    NoAuto \notin [session : Sessions, thread : Threads, inBudget : Nat, outBudget : Nat]

Modes  == {"off", "out", "hybrid"}
Kinds  == {"step", "bp", "other"}  \* how the adapter reports a stop: a breakpoint
                                   \* by its reason or its hitBreakpointIds, other
                                   \* is pause, entry or exception; a breakpoint
                                   \* hit in mid-step may pass for a plain step
Asks   == {"stackTrace", "step"}
Places == {"user", "lib"}          \* top frame with or without readable source

Stopped(t, k) == [type |-> "stopped", thread |-> t, kind |-> k]
Stack(t, r)   == [type |-> "stack", thread |-> t, readable |-> r]
StepFailed    == [type |-> "stepFailed"]
AskStack(t)   == [type |-> "stackTrace", thread |-> t]
AskStep(t)    == [type |-> "step", thread |-> t]

VARIABLES
    mode,          \* setting rsm2pdb.skipUnknownSourceMode
    autoStepState, \* the extension's one record
    callbacks,     \* deferred by setImmediate, first in, first out
    requests,      \* sent to each session's adapter
    inbox,         \* events and answers from each session's adapter
    status,        \* each debuggee: "stopped", "running" or "gone"
    focus,         \* the thread it stopped on, or that it steps
    stopKind,      \* why it stopped
    stepping,      \* is it running to complete a step?
    top,           \* the top frame of each of its threads
    commands,      \* how often the user has given a command
    autoSteps,     \* history: automatic steps since the session's last command
    raced,         \* history: has that command found the filter at work?
    failed         \* history: requests that failed since the session last stopped

hostVars  == <<autoStepState, callbacks>>
wireVars  == <<requests, inbox>>
debuggee  == <<status, focus, stopKind, stepping, top>>
histVars  == <<commands, autoSteps, raced, failed>>
vars == <<mode, hostVars, wireVars, debuggee, histVars>>

\* A session starts stopped at its entry point.
Init ==
    /\ mode \in Modes
    /\ autoStepState = NoAuto /\ callbacks = <<>>
    /\ requests = [s \in Sessions |-> <<>>]
    /\ inbox = [s \in Sessions |-> <<>>]
    /\ status = [s \in Sessions |-> "stopped"]
    /\ focus \in [Sessions -> Threads]
    /\ stopKind = [s \in Sessions |-> "other"]
    /\ stepping = [s \in Sessions |-> FALSE]
    /\ top \in [Sessions -> [Threads -> Places]]
    /\ commands = 0
    /\ autoSteps = [s \in Sessions |-> 0]
    /\ raced = [s \in Sessions |-> FALSE]
    /\ failed = [s \in Sessions |-> {}]

\* What the budgets allow after one command; autoSteps counts one further.
Allowed == IF mode = "out" THEN kStepOutBudget
           ELSE IF mode = "hybrid" THEN kStepInBudget + kStepOutBudget
           ELSE 0

Settled(s) ==
    /\ requests[s] = <<>> /\ inbox[s] = <<>>
    /\ \A i \in DOMAIN callbacks : callbacks[i].session # s

-----------------------------------------------------------------------------
(* The filter.                                                             *)

Owned(s) == autoStepState # NoAuto /\ autoStepState.session = s

Receive(s, type) == inbox[s] # <<>> /\ Head(inbox[s]).type = type
Consume(s)       == inbox' = [inbox EXCEPT ![s] = Tail(@)]
Ask(s, request)  == requests' = [requests EXCEPT ![s] = Append(@, request)]

\* A stop that is no plain step takes the state away from its session.
ClearState(s) ==
    IF Owned(s) THEN autoStepState' = NoAuto ELSE UNCHANGED autoStepState

BreakpointTakenForStep(stop) == stop.kind # "other"
IsPlainStep(stop)            == stop.kind = "step"

\* onDidSendMessage of a `stopped' event.
OnStopped(s) ==
    LET stop == Head(inbox[s])
    IN  /\ Receive(s, "stopped")
        /\ Consume(s)
        /\ \/ mode = "off" /\ UNCHANGED hostVars
           \/ mode # "off" /\ ~IsPlainStep(stop)
              /\ ClearState(s) /\ UNCHANGED callbacks
           \/ mode # "off" /\ IsPlainStep(stop)
              /\ callbacks' = Append(callbacks,
                                     [session |-> s, thread |-> stop.thread])
              /\ UNCHANGED autoStepState
        /\ UNCHANGED <<mode, requests, debuggee, histVars>>

BudgetForgotten(c) == FALSE
SameChain(c) ==
    autoStepState # NoAuto /\ autoStepState.session = c.session
                           /\ autoStepState.thread = c.thread

NoDescent(c) ==
    [session |-> c.session, thread |-> c.thread,
     inBudget |-> 0, outBudget |-> kStepOutBudget]
OneTooMany(c) ==
    [session |-> c.session, thread |-> c.thread,
     inBudget |-> 0, outBudget |-> kStepOutBudget + 1]
NewChain(c) ==
    [session |-> c.session, thread |-> c.thread,
     inBudget |-> IF mode = "hybrid" THEN kStepInBudget ELSE 0,
     outBudget |-> kStepOutBudget]

\* The deferred callback, up to its await of the stack trace.
OnImmediate ==
    LET c == Head(callbacks)
    IN  /\ callbacks # <<>>
        /\ callbacks' = Tail(callbacks)
        /\ autoStepState' = IF SameChain(c) THEN autoStepState ELSE NewChain(c)
        /\ Ask(c.session, AskStack(c.thread))
        /\ UNCHANGED <<mode, inbox, debuggee, histVars>>

Step(s, t, spent) ==
    /\ autoStepState' = spent
    /\ Ask(s, AskStep(t))

\* The rest of the callback.  It finds the state as the events in between left
\* it: without one, its access throws and the callback is over.
OnStack(s) ==
    LET reply == Head(inbox[s])
        t     == reply.thread
    IN  /\ Receive(s, "stack")
        /\ Consume(s)
        /\ \/ /\ reply.readable
              /\ autoStepState' = NoAuto /\ UNCHANGED requests
           \/ /\ ~reply.readable /\ autoStepState = NoAuto
              /\ UNCHANGED <<autoStepState, requests>>
           \/ /\ ~reply.readable /\ autoStepState # NoAuto
              /\ autoStepState.inBudget > 0
              /\ Step(s, t, [autoStepState EXCEPT !.inBudget = @ - 1])
           \/ /\ ~reply.readable /\ autoStepState # NoAuto
              /\ autoStepState.inBudget = 0 /\ autoStepState.outBudget > 0
              /\ Step(s, t, [autoStepState EXCEPT !.outBudget = @ - 1])
           \/ /\ ~reply.readable /\ autoStepState # NoAuto
              /\ autoStepState.inBudget = 0 /\ autoStepState.outBudget = 0
              /\ autoStepState' = NoAuto /\ UNCHANGED requests
        /\ UNCHANGED <<mode, callbacks, debuggee, histVars>>

\* The catch around a step request clears the state, whosever it is.
OnStepFailed(s) ==
    /\ Receive(s, "stepFailed")
    /\ Consume(s)
    /\ autoStepState' = NoAuto
    /\ UNCHANGED <<mode, callbacks, requests, debuggee, histVars>>

-----------------------------------------------------------------------------
(* The debug adapter and the debuggee.                                     *)

Tell(s, message) == inbox' = [inbox EXCEPT ![s] = Append(@, message)]

Resume(s, t, step) ==
    /\ status' = [status EXCEPT ![s] = "running"]
    /\ focus' = [focus EXCEPT ![s] = t]
    /\ stepping' = [stepping EXCEPT ![s] = step]
    /\ UNCHANGED <<stopKind, top>>

\* While the debuggee is stopped the adapter does what it is asked, or fails the
\* request; while it is not, every request fails.  A failed stackTrace is no
\* readable source to the filter.
Answer(s) ==
    LET request == Head(requests[s])
        t       == request.thread
    IN  /\ requests[s] # <<>>
        /\ requests' = [requests EXCEPT ![s] = Tail(@)]
        /\ \/ /\ request.type = "stackTrace" /\ status[s] = "stopped"
              /\ Tell(s, Stack(t, top[s][t] = "user"))
              /\ UNCHANGED <<debuggee, autoSteps, failed>>
           \/ /\ request.type = "step" /\ status[s] = "stopped"
              /\ Resume(s, t, TRUE)
              /\ autoSteps' = [autoSteps EXCEPT ![s] = IF @ > Allowed THEN @ ELSE @ + 1]
              /\ UNCHANGED <<inbox, failed>>
           \/ /\ Tell(s, IF request.type = "step" THEN StepFailed ELSE Stack(t, FALSE))
              /\ failed' = [failed EXCEPT ![s] = @ \cup {request.type}]
              /\ UNCHANGED <<debuggee, autoSteps>>
        /\ UNCHANGED <<mode, hostVars, commands, raced>>

\* A step ends where it ends; a breakpoint, an exception or a pause may stop any
\* thread first.  What is reported as a step is a stop of the thread that steps:
\* where its step ends, or a breakpoint in the code that step crosses.
Stop(s) ==
    /\ status[s] = "running"
    /\ \E t \in Threads, k \in Kinds :
         /\ k = "step" => stepping[s] /\ t = focus[s]
         /\ focus' = [focus EXCEPT ![s] = t]
         /\ stopKind' = [stopKind EXCEPT ![s] = k]
         /\ \E frames \in [Threads -> Places] : top' = [top EXCEPT ![s] = frames]
         /\ Tell(s, Stopped(t, k))
    /\ status' = [status EXCEPT ![s] = "stopped"]
    /\ stepping' = [stepping EXCEPT ![s] = FALSE]
    /\ failed' = [failed EXCEPT ![s] = {}]
    /\ UNCHANGED <<mode, hostVars, requests, commands, autoSteps, raced>>

-----------------------------------------------------------------------------
(* The user.                                                               *)

\* A step of any thread, or continue.
Command(s) ==
    /\ status[s] = "stopped" /\ commands < MaxCommands
    /\ \E t \in Threads, step \in BOOLEAN : Resume(s, t, step)
    /\ commands' = commands + 1
    /\ autoSteps' = [autoSteps EXCEPT ![s] = 0]
    /\ raced' = [raced EXCEPT ![s] = ~Settled(s)]
    /\ UNCHANGED <<mode, hostVars, wireVars, failed>>

\* onWillStopSession, and the end of the session.
StopSession(s) ==
    /\ status[s] # "gone"
    /\ status' = [status EXCEPT ![s] = "gone"]
    /\ stepping' = [stepping EXCEPT ![s] = FALSE]
    /\ ClearState(s)
    /\ UNCHANGED <<mode, callbacks, wireVars, focus, stopKind, top, histVars>>

-----------------------------------------------------------------------------
Filter == OnImmediate \/ \E s \in Sessions : OnStopped(s) \/ OnStack(s) \/ OnStepFailed(s)

Next ==
    \/ Filter
    \/ \E s \in Sessions : Answer(s) \/ Stop(s) \/ Command(s) \/ StopSession(s)

\* The event loop handles every message and the adapter every request.  No step
\* need end, and nothing obliges the user.
Fairness == WF_vars(Filter) /\ \A s \in Sessions : WF_vars(Answer(s))

Spec == Init /\ [][Next]_vars
FairSpec == Spec /\ Fairness

-----------------------------------------------------------------------------
(* Properties.                                                             *)

Budgets == [session : Sessions, thread : Threads,
            inBudget : 0..kStepInBudget, outBudget : 0..kStepOutBudget]
Messages ==
    [type : {"stopped"}, thread : Threads, kind : Kinds]
        \cup [type : {"stack"}, thread : Threads, readable : BOOLEAN]
        \cup {StepFailed}
TypeOK ==
    /\ mode \in Modes
    /\ autoStepState \in Budgets \cup {NoAuto}
    /\ callbacks \in Seq([session : Sessions, thread : Threads])
    /\ requests \in [Sessions -> Seq([type : Asks, thread : Threads])]
    /\ inbox \in [Sessions -> Seq(Messages)]
    /\ status \in [Sessions -> {"stopped", "running", "gone"}]
    /\ focus \in [Sessions -> Threads] /\ stopKind \in [Sessions -> Kinds]
    /\ stepping \in [Sessions -> BOOLEAN]
    /\ top \in [Sessions -> [Threads -> Places]]
    /\ commands \in 0..MaxCommands
    /\ autoSteps \in [Sessions -> 0..Allowed + 1] /\ raced \in [Sessions -> BOOLEAN]
    /\ failed \in [Sessions -> SUBSET Asks]

\* One command of the user is followed by at most kStepInBudget + kStepOutBudget
\* automatic steps (kStepOutBudget in mode "out"), whatever the stops between
\* them; the exception is a command given while the filter is at work.
BudgetHolds == \A s \in Sessions : ~raced[s] => autoSteps[s] <= Allowed

\* An automatic step only ever leaves a stop that the adapter reported as a plain
\* step, in code without source: never one reported as a breakpoint, a pause or an
\* exception, and readable code only if the adapter failed to give the stack.  (A
\* breakpoint reported as a plain step is kept when its code is readable.)
LandingIsKept ==
    [][\A s \in Sessions :
         /\ status[s] = "stopped" /\ status'[s] = "running"
         /\ commands' = commands /\ ~raced[s]
         => /\ stopKind[s] = "step"
            /\ top[s][focus'[s]] = "lib" \/ "stackTrace" \in failed[s]]_vars

\* The filter leaves the user in code without source only when its budget is
\* spent, or when the adapter failed to take the step it asked for.
GivesUpOnlyWhenSpent ==
    \A s \in Sessions :
        /\ mode # "off" /\ Settled(s) /\ ~raced[s]
        /\ status[s] = "stopped" /\ stopKind[s] = "step"
        /\ top[s][focus[s]] = "lib" /\ "step" \notin failed[s]
        => autoSteps[s] = Allowed

\* To a user who waits for it the filter always comes to rest.
ComesToRest ==
    [](\A s \in Sessions : ~raced[s]) => <>[](\A s \in Sessions : Settled(s))
=============================================================================
