----------------------------- MODULE AutoStepProofs -----------------------------
(***************************************************************************)
(* Proofs about AutoStep, for any budgets, threads and number of commands.  *)
(***************************************************************************)
EXTENDS AutoStep, TLAPS

USE BudgetAssumption, NoAutoAssumption
USE DEF hostVars, wireVars, debuggee, histVars

-----------------------------------------------------------------------------
(* The inductive invariants.                                               *)

\* At most one thing of the session is under way: a message to the filter, a
\* request to the adapter or a deferred callback.
OneItem(s) ==
    /\ Len(inbox[s]) <= 1 /\ Len(requests[s]) <= 1
    /\ inbox[s] = <<>> \/ requests[s] = <<>>
    /\ \A i \in DOMAIN callbacks : callbacks[i].session = s =>
         /\ inbox[s] = <<>> /\ requests[s] = <<>>
         /\ \A j \in DOMAIN callbacks : callbacks[j].session = s => j = i

\* What the filter takes for code without source.
NoSource(s) == top[s][focus[s]] = "lib" \/ "stackTrace" \in failed[s]

\* What a message, a request and a callback say of the debuggee.
MessageTrue(s, m) ==
    /\ m.type \in {"stopped", "stack", "stepFailed"}
    /\ m.type # "stepFailed" => m.thread = focus[s]
    /\ m.type = "stopped" => m.kind = stopKind[s]
    /\ m.type = "stack" => /\ stopKind[s] = "step"
                           /\ m.readable => top[s][focus[s]] = "user"
                           /\ ~m.readable => NoSource(s)
    /\ m.type = "stepFailed" => "step" \in failed[s]
RequestTrue(s, r) ==
    /\ r.thread = focus[s] /\ stopKind[s] = "step"
    /\ r.type = "step" => NoSource(s)
CallbackTrue(s, c) ==
    c.session = s => c.thread = focus[s] /\ stopKind[s] = "step"

\* A debuggee runs only when nothing is under way; what is under way while it is
\* stopped is about the stop it is at.
InStep(s) ==
    /\ OneItem(s)
    /\ status[s] = "running" => Settled(s)
    /\ status[s] = "stopped" =>
         /\ inbox[s] # <<>> => MessageTrue(s, Head(inbox[s]))
         /\ requests[s] # <<>> => RequestTrue(s, Head(requests[s]))
         /\ \A i \in DOMAIN callbacks : CallbackTrue(s, callbacks[i])

StepInv == TypeOK /\ \A s \in Sessions : ~raced[s] => InStep(s)

\* The automatic steps done, asked for and left add up to the whole budget, one
\* that has failed and is not yet known to have among those asked for.
StepFailing(s) == inbox[s] # <<>> /\ Head(inbox[s]).type = "stepFailed"
Asked(s) ==
    IF StepFailing(s) \/ (requests[s] # <<>> /\ Head(requests[s]).type = "step")
    THEN 1 ELSE 0
Left     == autoStepState.inBudget + autoStepState.outBudget

NothingWhenOff ==
    mode = "off" =>
        /\ autoStepState = NoAuto /\ callbacks = <<>>
        /\ \A s \in Sessions : requests[s] = <<>>
                               /\ \A i \in DOMAIN inbox[s] : inbox[s][i].type = "stopped"

\* A chain goes on on the thread it steps, unless something else stopped it.
ChainSpends(s) ==
    autoStepState # NoAuto =>
        /\ autoSteps[s] + Asked(s) + Left = Allowed
        /\ \/ autoStepState.thread = focus[s]
           \/ inbox[s] # <<>> /\ Head(inbox[s]).type = "stopped" /\ stopKind[s] # "step"
\* Without a chain nothing has been spent, or the user has the stop.
NoChainYet(s) ==
    autoStepState = NoAuto =>
        /\ requests[s] = <<>>
        /\ inbox[s] # <<>> => Head(inbox[s]).type = "stopped"
        /\ status[s] = "running" \/ ~Settled(s) => autoSteps[s] = 0
LeftInCode(s) ==
    mode # "off" /\ Settled(s) /\ status[s] = "stopped" /\ stopKind[s] = "step"
        /\ top[s][focus[s]] = "lib" /\ "step" \notin failed[s] => autoSteps[s] = Allowed

BudgetInv(s) ==
    /\ Settled(s) /\ status[s] = "stopped" => autoStepState = NoAuto
    /\ ~raced[s] =>
         /\ autoSteps[s] <= Allowed
         /\ status[s] # "gone" => ChainSpends(s) /\ NoChainYet(s) /\ LeftInCode(s)

ChainInv == StepInv /\ NothingWhenOff /\ \A s \in Sessions : BudgetInv(s)

-----------------------------------------------------------------------------
(* Types.                                                                  *)

\* The parts of a queue.
LEMMA HeadTail ==
    ASSUME NEW S, NEW q \in Seq(S), q # <<>>
    PROVE  Head(q) \in S /\ Tail(q) \in Seq(S) /\ Len(Tail(q)) = Len(q) - 1
PROOF OBVIOUS

\* A queue with one item more.
LEMMA AppendType ==
    ASSUME NEW S, NEW q \in Seq(S), NEW e \in S
    PROVE  Append(q, e) \in Seq(S)
PROOF OBVIOUS

\* What a message of each type carries.
LEMMA MessageFields ==
    ASSUME NEW m \in Messages
    PROVE  /\ m.type \in {"stopped", "stack", "stepFailed"}
           /\ m.type = "stopped" => m.thread \in Threads /\ m.kind \in Kinds
           /\ m.type = "stack" => m.thread \in Threads /\ m.readable \in BOOLEAN
PROOF BY DEF Messages, StepFailed

\* Receive keeps the types.
LEMMA ReceiveType ==
    ASSUME TypeOK, NEW s \in Sessions, NEW type, Receive(s, type)
    PROVE  Head(inbox[s]) \in Messages /\ Head(inbox[s]).type = type
PROOF BY HeadTail DEF TypeOK, Receive

\* Consume keeps the types.
LEMMA ConsumeType ==
    ASSUME TypeOK, NEW s \in Sessions, inbox[s] # <<>>, Consume(s)
    PROVE  inbox' \in [Sessions -> Seq(Messages)]
PROOF BY HeadTail DEF TypeOK, Consume

\* Tell keeps the types.
LEMMA TellType ==
    ASSUME TypeOK, NEW s \in Sessions, NEW m \in Messages, Tell(s, m)
    PROVE  inbox' \in [Sessions -> Seq(Messages)]
PROOF BY DEF TypeOK, Tell

Requests == [type : Asks, thread : Threads]

\* Ask keeps the types.
LEMMA AskType ==
    ASSUME TypeOK, NEW s \in Sessions, NEW r \in Requests, Ask(s, r)
    PROVE  requests' \in [Sessions -> Seq(Requests)]
PROOF
<1>1. requests \in [Sessions -> Seq(Requests)]
  BY DEF TypeOK, Requests
<1>2. Append(requests[s], r) \in Seq(Requests)
  BY <1>1, AppendType
<1> QED BY <1>1, <1>2 DEF Ask

\* What the messages and requests are made of.
LEMMA Made ==
    ASSUME NEW t \in Threads
    PROVE  /\ AskStack(t) \in Requests /\ AskStep(t) \in Requests
           /\ StepFailed \in Messages
           /\ \A k \in Kinds : Stopped(t, k) \in Messages
           /\ \A r \in BOOLEAN : Stack(t, r) \in Messages
PROOF BY DEF AskStack, AskStep, Asks, Requests, StepFailed, Messages, Stopped, Stack

\* Clear keeps the types.
LEMMA ClearType ==
    ASSUME TypeOK, NEW s \in Sessions, ClearState(s)
    PROVE  autoStepState' \in Budgets \cup {NoAuto}
PROOF BY DEF TypeOK, ClearState

\* Resume keeps the types.
LEMMA ResumeType ==
    ASSUME TypeOK, NEW s \in Sessions, NEW t \in Threads, NEW step \in BOOLEAN,
           Resume(s, t, step)
    PROVE  /\ status' \in [Sessions -> {"stopped", "running", "gone"}]
           /\ focus' \in [Sessions -> Threads] /\ stepping' \in [Sessions -> BOOLEAN]
           /\ UNCHANGED <<stopKind, top>>
PROOF BY DEF TypeOK, Resume

\* The initial state is well typed.
LEMMA InitType == Init => TypeOK
PROOF
<1> SUFFICES ASSUME Init PROVE TypeOK OBVIOUS
<1>1. Allowed \in Nat
  BY DEF Allowed
<1> QED BY <1>1 DEF Init, TypeOK, Kinds, Places, Modes, Asks

\* OnStopped keeps the types.
LEMMA OnStoppedType ==
    ASSUME TypeOK, NEW s \in Sessions, OnStopped(s)
    PROVE  TypeOK'
PROOF
<1> DEFINE stop == Head(inbox[s])
<1>1. stop \in Messages /\ stop.type = "stopped" /\ inbox[s] # <<>>
  BY ReceiveType DEF OnStopped, Receive
<1>2. inbox' \in [Sessions -> Seq(Messages)]
  BY <1>1, ConsumeType DEF OnStopped
<1>3. autoStepState' \in Budgets \cup {NoAuto}
  BY ClearType DEF OnStopped, TypeOK
<1>4. callbacks' \in Seq([session : Sessions, thread : Threads])
  <2> DEFINE c == [session |-> s, thread |-> stop.thread]
  <2>1. callbacks \in Seq([session : Sessions, thread : Threads])
    BY DEF TypeOK
  <2>2. c \in [session : Sessions, thread : Threads]
    BY <1>1, MessageFields
  <2>3. UNCHANGED callbacks \/ callbacks' = Append(callbacks, c)
    BY DEF OnStopped
  <2> HIDE DEF c
  <2> QED BY <2>1, <2>2, <2>3, AppendType
<1> QED BY <1>2, <1>3, <1>4 DEF OnStopped, TypeOK, Allowed

\* OnImmediate keeps the types.
LEMMA OnImmediateType ==
    ASSUME TypeOK, OnImmediate
    PROVE  TypeOK'
PROOF
<1> DEFINE c == Head(callbacks)
<1>1. /\ c \in [session : Sessions, thread : Threads]
      /\ callbacks' \in Seq([session : Sessions, thread : Threads])
  BY HeadTail DEF OnImmediate, TypeOK
<1>2. requests' \in [Sessions -> Seq(Requests)]
  <2>1. AskStack(c.thread) \in Requests /\ c.session \in Sessions
    BY <1>1, Made
  <2> QED BY <2>1, AskType DEF OnImmediate
<1>3. autoStepState' \in Budgets \cup {NoAuto}
  BY <1>1 DEF OnImmediate, TypeOK, NewChain, Budgets
<1> QED BY <1>1, <1>2, <1>3 DEF OnImmediate, TypeOK, Allowed, Requests

\* OnStack keeps the types.
LEMMA OnStackType ==
    ASSUME TypeOK, NEW s \in Sessions, OnStack(s)
    PROVE  TypeOK'
PROOF
<1> DEFINE reply == Head(inbox[s])
           t == reply.thread
<1>1. reply \in Messages /\ reply.type = "stack" /\ inbox[s] # <<>> /\ t \in Threads
  BY ReceiveType, MessageFields DEF OnStack, Receive
<1>2. inbox' \in [Sessions -> Seq(Messages)]
  BY <1>1, ConsumeType DEF OnStack
<1>3. requests' \in [Sessions -> Seq(Requests)]
  <2>1. UNCHANGED requests \/ Ask(s, AskStep(t))
    BY DEF OnStack, Step
  <2>2. AskStep(t) \in Requests
    BY <1>1, Made
  <2>3. requests \in [Sessions -> Seq(Requests)]
    BY DEF TypeOK, Requests
  <2> QED BY <2>1, <2>2, <2>3, AskType
<1>4. autoStepState' \in Budgets \cup {NoAuto}
  <2>1. autoStepState \in Budgets \cup {NoAuto}
    BY DEF TypeOK
  <2>2. CASE UNCHANGED autoStepState \/ autoStepState' = NoAuto
    BY <2>1, <2>2
  <2>3. CASE /\ autoStepState # NoAuto /\ autoStepState.inBudget > 0
             /\ autoStepState' = [autoStepState EXCEPT !.inBudget = @ - 1]
    BY <2>1, <2>3 DEF Budgets
  <2>4. CASE /\ autoStepState # NoAuto /\ autoStepState.outBudget > 0
             /\ autoStepState' = [autoStepState EXCEPT !.outBudget = @ - 1]
    BY <2>1, <2>4 DEF Budgets
  <2> QED BY <2>2, <2>3, <2>4 DEF OnStack, Step
<1> QED BY <1>2, <1>3, <1>4 DEF OnStack, TypeOK, Allowed, Requests

\* Answer keeps the types.
LEMMA AnswerType ==
    ASSUME TypeOK, NEW s \in Sessions, Answer(s)
    PROVE  TypeOK'
PROOF
<1> DEFINE request == Head(requests[s])
           t == request.thread
<1>1. /\ request \in Requests /\ t \in Threads
      /\ requests' \in [Sessions -> Seq(Requests)]
  <2>1. requests \in [Sessions -> Seq(Requests)] /\ requests[s] # <<>>
    BY DEF Answer, TypeOK, Requests
  <2>2. request \in Requests /\ Tail(requests[s]) \in Seq(Requests)
    BY <2>1, HeadTail
  <2>3. requests' = [requests EXCEPT ![s] = Tail(@)]
    BY DEF Answer
  <2>4. t \in Threads
    BY <2>2 DEF Requests
  <2> QED BY <2>1, <2>2, <2>3, <2>4
<1>2. inbox' \in [Sessions -> Seq(Messages)]
  <2>1. \/ UNCHANGED inbox
        \/ Tell(s, StepFailed)
        \/ Tell(s, Stack(t, FALSE))
        \/ Tell(s, Stack(t, top[s][t] = "user"))
    BY DEF Answer
  <2>2. /\ StepFailed \in Messages /\ Stack(t, FALSE) \in Messages
        /\ Stack(t, top[s][t] = "user") \in Messages
    BY <1>1, Made
  <2> QED BY <2>1, <2>2, TellType DEF TypeOK
<1>3. autoSteps' \in [Sessions -> 0..Allowed + 1]
  <2>1. Allowed \in Nat
    BY DEF Allowed
  <2>2. autoSteps \in [Sessions -> 0..Allowed + 1]
    BY DEF TypeOK
  <2>3. (IF autoSteps[s] > Allowed THEN autoSteps[s] ELSE autoSteps[s] + 1) \in 0..Allowed + 1
    BY <2>1, <2>2
  <2>4. \/ UNCHANGED autoSteps
        \/ autoSteps' = [autoSteps EXCEPT ![s] = IF @ > Allowed THEN @ ELSE @ + 1]
    BY DEF Answer
  <2> QED BY <2>2, <2>3, <2>4
<1>4. /\ status' \in [Sessions -> {"stopped", "running", "gone"}]
      /\ focus' \in [Sessions -> Threads] /\ stepping' \in [Sessions -> BOOLEAN]
      /\ UNCHANGED <<stopKind, top>>
  <2>1. UNCHANGED debuggee \/ Resume(s, t, TRUE)
    BY DEF Answer
  <2> QED BY <1>1, <2>1, ResumeType DEF TypeOK
<1>5. failed' \in [Sessions -> SUBSET Asks]
  <2>1. failed[s] \cup {request.type} \in SUBSET Asks
    BY <1>1 DEF TypeOK, Requests
  <2>2. \/ UNCHANGED failed
        \/ failed' = [failed EXCEPT ![s] = @ \cup {request.type}]
    BY DEF Answer
  <2> QED BY <2>1, <2>2 DEF TypeOK
<1> QED BY <1>1, <1>2, <1>3, <1>4, <1>5 DEF Answer, TypeOK, Allowed, Requests

\* Stop keeps the types.
LEMMA StopType ==
    ASSUME TypeOK, NEW s \in Sessions, Stop(s)
    PROVE  TypeOK'
PROOF
<1>1. PICK t \in Threads, k \in Kinds :
        /\ focus' = [focus EXCEPT ![s] = t]
        /\ stopKind' = [stopKind EXCEPT ![s] = k]
        /\ \E frames \in [Threads -> Places] : top' = [top EXCEPT ![s] = frames]
        /\ Tell(s, Stopped(t, k))
  BY DEF Stop
<1>2. inbox' \in [Sessions -> Seq(Messages)]
  BY <1>1, Made, TellType
<1>3. focus' \in [Sessions -> Threads] /\ stopKind' \in [Sessions -> Kinds]
  BY <1>1 DEF TypeOK
<1>4. top' \in [Sessions -> [Threads -> Places]]
  BY <1>1 DEF TypeOK
<1> QED BY <1>2, <1>3, <1>4 DEF Stop, TypeOK, Allowed

\* Command keeps the types.
LEMMA CommandType ==
    ASSUME TypeOK, NEW s \in Sessions, Command(s)
    PROVE  TypeOK'
PROOF
<1>1. Allowed \in Nat /\ Allowed' = Allowed
  BY DEF Allowed, Command
<1>2. /\ status' \in [Sessions -> {"stopped", "running", "gone"}]
      /\ focus' \in [Sessions -> Threads] /\ stepping' \in [Sessions -> BOOLEAN]
      /\ UNCHANGED <<stopKind, top>>
  BY ResumeType DEF Command
<1>3. raced' \in [Sessions -> BOOLEAN]
  <2>1. PICK b \in BOOLEAN : b = ~Settled(s)
    OBVIOUS
  <2>2. raced \in [Sessions -> BOOLEAN] /\ raced' = [raced EXCEPT ![s] = b]
    BY <2>1 DEF Command, TypeOK
  <2> QED BY <2>2
<1>4. autoSteps' \in [Sessions -> 0..Allowed + 1] /\ commands' \in 0..MaxCommands
  BY <1>1 DEF Command, TypeOK
<1> QED BY <1>1, <1>2, <1>3, <1>4 DEF Command, TypeOK

\* Every step keeps the types.
LEMMA StepType == TypeOK /\ [Next]_vars => TypeOK'
PROOF
<1> SUFFICES ASSUME TypeOK, [Next]_vars PROVE TypeOK' OBVIOUS
<1>1. CASE OnImmediate
  BY <1>1, OnImmediateType
<1>2. ASSUME NEW s \in Sessions, OnStopped(s) PROVE TypeOK'
  BY <1>2, OnStoppedType
<1>3. ASSUME NEW s \in Sessions, OnStack(s) PROVE TypeOK'
  BY <1>3, OnStackType
<1>4. ASSUME NEW s \in Sessions, OnStepFailed(s) PROVE TypeOK'
  BY <1>4, ConsumeType DEF OnStepFailed, Receive, TypeOK, Allowed
<1>5. ASSUME NEW s \in Sessions, Answer(s) PROVE TypeOK'
  BY <1>5, AnswerType
<1>6. ASSUME NEW s \in Sessions, Stop(s) PROVE TypeOK'
  BY <1>6, StopType
<1>7. ASSUME NEW s \in Sessions, Command(s) PROVE TypeOK'
  BY <1>7, CommandType
<1>8. ASSUME NEW s \in Sessions, StopSession(s) PROVE TypeOK'
  BY <1>8, ClearType DEF StopSession, TypeOK, Allowed
<1>9. CASE UNCHANGED vars
  BY <1>9 DEF vars, TypeOK, Allowed
<1> QED BY <1>1, <1>2, <1>3, <1>4, <1>5, <1>6, <1>7, <1>8, <1>9 DEF Next, Filter

\* Every variable keeps its type: no budget of a chain leaves its range, whatever
\* the order of stops, answers, commands and session ends.
THEOREM TypeCorrect == Spec => []TypeOK
PROOF BY InitType, StepType, PTL DEF Spec

-----------------------------------------------------------------------------
(* One item at a time.                                                     *)

\* The only item of a queue leaves it empty.
LEMMA LastOne ==
    ASSUME NEW S, NEW q \in Seq(S), q # <<>>, Len(q) <= 1
    PROVE  Tail(q) = <<>>
PROOF OBVIOUS

\* The first item of an empty queue is its head.
LEMMA FirstOne ==
    ASSUME NEW e
    PROVE  /\ Append(<<>>, e) # <<>> /\ Len(Append(<<>>, e)) = 1
           /\ Head(Append(<<>>, e)) = e
PROOF OBVIOUS

\* A queue with one item more has one.
LEMMA AppendNotEmpty ==
    ASSUME NEW S, NEW q \in Seq(S), NEW e
    PROVE  Append(q, e) # <<>>
PROOF OBVIOUS

\* What is left of a queue.
LEMMA TailElements ==
    ASSUME NEW S, NEW q \in Seq(S), q # <<>>
    PROVE  \A i \in DOMAIN Tail(q) : i + 1 \in DOMAIN q /\ Tail(q)[i] = q[i + 1]
PROOF OBVIOUS

\* What is in a longer queue.
LEMMA AppendElements ==
    ASSUME NEW S, NEW q \in Seq(S), NEW e
    PROVE  \A i \in DOMAIN Append(q, e) :
             \/ i \in DOMAIN q /\ Append(q, e)[i] = q[i]
             \/ i = Len(q) + 1 /\ Append(q, e)[i] = e
PROOF OBVIOUS

\* Where nothing is under way there is nothing to be wrong about.
LEMMA SettledInStep ==
    ASSUME NEW s \in Sessions, Settled(s)'
    PROVE  InStep(s)'
PROOF BY DEF Settled, InStep, OneItem, CallbackTrue

\* What another session does leaves a session's items alone: its callbacks at most
\* move up by d.
LEMMA StaysInStep ==
    ASSUME TypeOK', NEW s \in Sessions, InStep(s), NEW d \in Nat,
           \A i \in DOMAIN callbacks' : callbacks'[i].session = s =>
               i + d \in DOMAIN callbacks /\ callbacks'[i] = callbacks[i + d],
           inbox'[s] = inbox[s], requests'[s] = requests[s],
           status'[s] = status[s] \/ status'[s] = "gone",
           focus'[s] = focus[s], stopKind'[s] = stopKind[s], top'[s] = top[s],
           failed'[s] = failed[s]
    PROVE  InStep(s)'
PROOF
<1>1. DOMAIN callbacks' \subseteq Nat
  BY DEF TypeOK
<1>2. OneItem(s)'
  BY <1>1 DEF InStep, OneItem
<1>3. status'[s] = "running" => Settled(s)'
  BY DEF InStep, Settled
<1>4. status'[s] = "stopped" => \A i \in DOMAIN callbacks' : CallbackTrue(s, callbacks[i])'
  BY DEF InStep, CallbackTrue
<1>5. status'[s] = "stopped" =>
        /\ inbox'[s] # <<>> => MessageTrue(s, Head(inbox[s]))'
        /\ requests'[s] # <<>> => RequestTrue(s, Head(requests[s]))'
  BY DEF InStep, MessageTrue, RequestTrue, NoSource
<1> QED BY <1>2, <1>3, <1>4, <1>5 DEF InStep

\* An action without callbacks, in the form InStepKept asks for.
LEMMA SameCallbacks ==
    ASSUME TypeOK, UNCHANGED callbacks
    PROVE  \A i \in DOMAIN callbacks' :
             i + 0 \in DOMAIN callbacks /\ callbacks'[i] = callbacks[i + 0]
PROOF
<1>1. callbacks \in Seq([session : Sessions, thread : Threads])
  BY DEF TypeOK
<1>2. DOMAIN callbacks = 1..Len(callbacks) /\ Len(callbacks) \in Nat
  BY <1>1
<1> QED BY <1>2

\* OnStopped keeps InStep.
LEMMA OnStoppedInStep ==
    ASSUME TypeOK, TypeOK', NEW r \in Sessions, OnStopped(r),
           NEW s \in Sessions, InStep(s)
    PROVE  InStep(s)'
PROOF
<1> DEFINE stop == Head(inbox[r])
           c == [session |-> r, thread |-> stop.thread]
<1>1. /\ inbox[r] # <<>> /\ stop.type = "stopped"
      /\ inbox' = [inbox EXCEPT ![r] = Tail(@)]
      /\ UNCHANGED <<requests, status, focus, stopKind, top, failed>>
  BY DEF OnStopped, Receive, Consume
<1>2. \/ UNCHANGED callbacks
      \/ stop.kind = "step" /\ callbacks' = Append(callbacks, c)
  BY DEF OnStopped, IsPlainStep
<1>3. callbacks \in Seq([session : Sessions, thread : Threads])
  BY DEF TypeOK
<1>4. CASE r # s
  <2>1. \A i \in DOMAIN callbacks' : callbacks'[i].session = s =>
          i + 0 \in DOMAIN callbacks /\ callbacks'[i] = callbacks[i + 0]
    BY <1>2, <1>3, <1>4, AppendElements
  <2> QED BY <1>1, <1>4, <2>1, StaysInStep DEF TypeOK
<1>5. CASE r = s
  <2>1. /\ inbox'[s] = <<>> /\ requests'[s] = <<>>
        /\ \A i \in DOMAIN callbacks : callbacks[i].session # s
    BY <1>1, <1>5, LastOne DEF InStep, OneItem, TypeOK
  <2>2. CASE UNCHANGED callbacks
    BY <2>1, <2>2, SettledInStep DEF Settled
  <2>3. CASE stop.kind = "step" /\ callbacks' = Append(callbacks, c)
    <3>1. \A i \in DOMAIN callbacks' : callbacks'[i].session = s =>
            i = Len(callbacks) + 1 /\ callbacks'[i] = c
      BY <1>3, <2>1, <2>3, AppendElements
    <3>2. OneItem(s)'
      BY <2>1, <3>1 DEF OneItem
    <3>3. status'[s] # "running"
      BY <1>1, <1>5 DEF InStep, Settled
    <3>4. status'[s] = "stopped" => c.thread = focus'[s] /\ stopKind'[s] = "step"
      BY <1>1, <1>5, <2>3 DEF InStep, MessageTrue
    <3> QED BY <2>1, <3>1, <3>2, <3>3, <3>4 DEF InStep, CallbackTrue
  <2> QED BY <1>2, <2>2, <2>3
<1> QED BY <1>4, <1>5

\* OnImmediate keeps InStep.
LEMMA OnImmediateInStep ==
    ASSUME TypeOK, TypeOK', OnImmediate, NEW s \in Sessions, InStep(s)
    PROVE  InStep(s)'
PROOF
<1> DEFINE c == Head(callbacks)
<1>1. /\ callbacks # <<>> /\ callbacks' = Tail(callbacks)
      /\ requests' = [requests EXCEPT ![c.session] = Append(@, AskStack(c.thread))]
      /\ UNCHANGED <<inbox, status, focus, stopKind, top, failed>>
  BY DEF OnImmediate, Ask
<1>2. callbacks \in Seq([session : Sessions, thread : Threads])
  BY DEF TypeOK
<1>3. /\ 1 \in DOMAIN callbacks /\ callbacks[1] = c
      /\ \A i \in DOMAIN callbacks' :
           i \in Nat \ {0} /\ i + 1 \in DOMAIN callbacks /\ callbacks'[i] = callbacks[i + 1]
  BY <1>1, <1>2, TailElements
<1>4. CASE c.session # s
  BY <1>1, <1>3, <1>4, StaysInStep DEF TypeOK
<1>5. CASE c.session = s
  <2>1. inbox[s] = <<>> /\ requests[s] = <<>>
    BY <1>3, <1>5 DEF InStep, OneItem
  <2>2. \A i \in DOMAIN callbacks' : callbacks'[i].session # s
    BY <1>3, <1>5 DEF InStep, OneItem
  <2>3. requests'[s] = Append(<<>>, AskStack(c.thread))
    BY <1>1, <1>5, <2>1 DEF TypeOK
  <2>4. OneItem(s)'
    BY <1>1, <2>1, <2>2, <2>3, FirstOne DEF OneItem
  <2>5. status'[s] # "running"
    BY <1>1, <1>3, <1>5 DEF InStep, Settled
  <2>6. status'[s] = "stopped" => c.thread = focus'[s] /\ stopKind'[s] = "step"
    BY <1>1, <1>3, <1>5 DEF InStep, CallbackTrue
  <2>7. status'[s] = "stopped" => RequestTrue(s, Head(requests[s]))'
    BY <2>3, <2>6, FirstOne DEF RequestTrue, AskStack
  <2> QED BY <1>1, <2>1, <2>2, <2>4, <2>5, <2>7 DEF InStep, CallbackTrue
<1> QED BY <1>4, <1>5

\* OnStack keeps InStep.
LEMMA OnStackInStep ==
    ASSUME TypeOK, TypeOK', NEW r \in Sessions, OnStack(r),
           NEW s \in Sessions, InStep(s)
    PROVE  InStep(s)'
PROOF
<1> DEFINE reply == Head(inbox[r])
           t == reply.thread
<1>1. /\ inbox[r] # <<>> /\ reply.type = "stack"
      /\ inbox' = [inbox EXCEPT ![r] = Tail(@)]
      /\ UNCHANGED <<callbacks, status, focus, stopKind, top, failed>>
  BY DEF OnStack, Receive, Consume
<1>2. \/ UNCHANGED requests
      \/ ~reply.readable /\ requests' = [requests EXCEPT ![r] = Append(@, AskStep(t))]
  BY DEF OnStack, Step, Ask
<1>3. CASE r # s
  <2>2. \A i \in DOMAIN callbacks' : i + 0 \in DOMAIN callbacks /\ callbacks'[i] = callbacks[i + 0]
    BY <1>1, SameCallbacks
  <2> QED BY <1>1, <1>2, <1>3, <2>2, StaysInStep DEF TypeOK
<1>4. CASE r = s
  <2>1. /\ inbox'[s] = <<>> /\ requests[s] = <<>>
        /\ \A i \in DOMAIN callbacks' : callbacks'[i].session # s
    BY <1>1, <1>4, LastOne DEF InStep, OneItem, TypeOK
  <2>2. CASE UNCHANGED requests
    BY <2>1, <2>2, SettledInStep DEF Settled
  <2>3. CASE ~reply.readable /\ requests' = [requests EXCEPT ![r] = Append(@, AskStep(t))]
    <3>1. requests'[s] = Append(<<>>, AskStep(t))
      BY <1>4, <2>1, <2>3 DEF TypeOK
    <3>2. OneItem(s)'
      BY <2>1, <3>1, FirstOne DEF OneItem
    <3>3. status'[s] # "running"
      BY <1>1, <1>4 DEF InStep, Settled
    <3>4. status'[s] = "stopped" =>
            t = focus'[s] /\ stopKind'[s] = "step" /\ NoSource(s)'
      BY <1>1, <1>4, <2>3 DEF InStep, MessageTrue, NoSource
    <3>6. status'[s] = "stopped" => RequestTrue(s, Head(requests[s]))'
      BY <3>1, <3>4, FirstOne DEF RequestTrue, AskStep
    <3> QED BY <2>1, <3>2, <3>3, <3>6 DEF InStep, CallbackTrue
  <2> QED BY <1>2, <2>2, <2>3
<1> QED BY <1>3, <1>4

\* OnStepFailed keeps InStep.
LEMMA OnStepFailedInStep ==
    ASSUME TypeOK, TypeOK', NEW r \in Sessions, OnStepFailed(r),
           NEW s \in Sessions, InStep(s)
    PROVE  InStep(s)'
PROOF
<1>1. /\ inbox[r] # <<>> /\ inbox' = [inbox EXCEPT ![r] = Tail(@)]
      /\ UNCHANGED <<callbacks, requests, status, focus, stopKind, top, failed>>
  BY DEF OnStepFailed, Receive, Consume
<1>2. CASE r # s
  <2>2. \A i \in DOMAIN callbacks' : i + 0 \in DOMAIN callbacks /\ callbacks'[i] = callbacks[i + 0]
    BY <1>1, SameCallbacks
  <2> QED BY <1>1, <1>2, <2>2, StaysInStep DEF TypeOK
<1>3. CASE r = s
  <2>1. /\ inbox'[s] = <<>> /\ requests'[s] = <<>>
        /\ \A i \in DOMAIN callbacks' : callbacks'[i].session # s
    BY <1>1, <1>3, LastOne DEF InStep, OneItem, TypeOK
  <2> QED BY <2>1, SettledInStep DEF Settled
<1> QED BY <1>2, <1>3

\* Answer keeps InStep.
LEMMA AnswerInStep ==
    ASSUME TypeOK, TypeOK', NEW r \in Sessions, Answer(r),
           NEW s \in Sessions, InStep(s)
    PROVE  InStep(s)'
PROOF
<1>0. PICK request, t : request = Head(requests[r]) /\ t = request.thread
  OBVIOUS
<1>5. PICK failure : failure = IF request.type = "step" THEN StepFailed ELSE Stack(t, FALSE)
  OBVIOUS
<1>1. /\ requests[r] # <<>> /\ requests' = [requests EXCEPT ![r] = Tail(@)]
      /\ UNCHANGED <<callbacks, stopKind, top>>
  BY DEF Answer, Resume
<1>2. \/ /\ status[r] = "stopped" /\ Tell(r, Stack(t, top[r][t] = "user"))
         /\ UNCHANGED <<status, focus, failed>>
      \/ UNCHANGED <<inbox, failed>> /\ Resume(r, t, TRUE)
      \/ /\ Tell(r, failure) /\ UNCHANGED <<status, focus>>
         /\ failed' = [failed EXCEPT ![r] = @ \cup {request.type}]
  BY <1>0, <1>5 DEF Answer
<1>3. CASE r # s
  <2>2. \A i \in DOMAIN callbacks' : i + 0 \in DOMAIN callbacks /\ callbacks'[i] = callbacks[i + 0]
    BY <1>1, SameCallbacks
  <2>3. /\ inbox'[s] = inbox[s] /\ status'[s] = status[s] /\ focus'[s] = focus[s]
        /\ requests'[s] = requests[s] /\ failed'[s] = failed[s]
    BY <1>1, <1>2, <1>3 DEF TypeOK, Tell, Resume
  <2> QED BY <1>1, <2>2, <2>3, StaysInStep
<1>4. CASE r = s
  <2>1. /\ inbox[s] = <<>> /\ requests'[s] = <<>>
        /\ \A i \in DOMAIN callbacks' : callbacks'[i].session # s
    BY <1>1, <1>4, LastOne DEF InStep, OneItem, TypeOK
  <2>2. status[s] # "running"
    BY <1>1, <1>4 DEF InStep, Settled
  <2>3. status[s] = "stopped" => t = focus[s] /\ stopKind[s] = "step"
    BY <1>0, <1>1, <1>4 DEF InStep, RequestTrue
  <2>4. ASSUME NEW m, Tell(r, m), UNCHANGED <<status, focus>>,
               status[s] = "stopped" => MessageTrue(s, m)'
        PROVE  InStep(s)'
    <3>1. inbox'[s] = Append(<<>>, m)
      BY <1>4, <2>1, <2>4 DEF Tell, TypeOK
    <3>2. OneItem(s)'
      BY <2>1, <3>1, FirstOne DEF OneItem
    <3>3. status'[s] = "stopped" => MessageTrue(s, Head(inbox[s]))'
      BY <2>4, <3>1, FirstOne
    <3> QED BY <2>1, <2>2, <2>4, <3>2, <3>3 DEF InStep, CallbackTrue
  <2>5. CASE /\ status[r] = "stopped" /\ Tell(r, Stack(t, top[r][t] = "user"))
             /\ UNCHANGED <<status, focus, failed>>
    <3>1. PICK b \in BOOLEAN : b <=> top[r][t] = "user"
      OBVIOUS
    <3>2. Tell(r, Stack(t, b))
      BY <2>5, <3>1
    <3>3. top[s][t] \in {"user", "lib"}
      BY <1>4, <2>3, <2>5 DEF TypeOK, Places
    <3>4. MessageTrue(s, Stack(t, b))'
      BY <1>1, <1>4, <2>3, <2>5, <3>1, <3>3 DEF MessageTrue, Stack, NoSource
    <3> QED BY <2>4, <2>5, <3>2, <3>4
  <2>6. CASE UNCHANGED inbox /\ Resume(r, t, TRUE)
    BY <2>1, <2>6, SettledInStep DEF Settled
  <2>7. CASE /\ Tell(r, failure) /\ UNCHANGED <<status, focus>>
             /\ failed' = [failed EXCEPT ![r] = @ \cup {request.type}]
    <3>1. request.type \in failed'[s]
      BY <1>4, <2>7 DEF TypeOK
    <3>2. request.type \in Asks
      <4>1. requests[r] \in Seq(Requests)
        BY DEF TypeOK, Requests
      <4>2. request \in Requests
        BY <1>0, <1>1, <4>1, HeadTail
      <4> QED BY <4>2 DEF Requests
    <3>3. status[s] = "stopped" => MessageTrue(s, failure)'
      <4>1. CASE request.type = "step"
        BY <1>5, <3>1, <4>1 DEF MessageTrue, StepFailed
      <4>2. CASE request.type = "stackTrace"
        BY <1>1, <1>5, <2>3, <2>7, <3>1, <4>2 DEF MessageTrue, Stack, NoSource
      <4> QED BY <3>2, <4>1, <4>2 DEF Asks
    <3> QED BY <2>4, <2>7, <3>3
  <2> QED BY <1>2, <2>5, <2>6, <2>7
<1> QED BY <1>3, <1>4

\* Stop keeps InStep.
LEMMA StopInStep ==
    ASSUME TypeOK, TypeOK', NEW r \in Sessions, Stop(r),
           NEW s \in Sessions, InStep(s)
    PROVE  InStep(s)'
PROOF
<1>1. PICK t \in Threads, k \in Kinds :
        /\ focus' = [focus EXCEPT ![r] = t]
        /\ stopKind' = [stopKind EXCEPT ![r] = k]
        /\ \E frames \in [Threads -> Places] : top' = [top EXCEPT ![r] = frames]
        /\ inbox' = [inbox EXCEPT ![r] = Append(@, Stopped(t, k))]
  BY DEF Stop, Tell
<1>2. /\ status[r] = "running" /\ status' = [status EXCEPT ![r] = "stopped"]
      /\ failed' = [failed EXCEPT ![r] = {}]
      /\ UNCHANGED <<callbacks, requests>>
  BY DEF Stop
<1>3. CASE r # s
  <2>2. \A i \in DOMAIN callbacks' : i + 0 \in DOMAIN callbacks /\ callbacks'[i] = callbacks[i + 0]
    BY <1>2, SameCallbacks
  <2>3. /\ inbox'[s] = inbox[s] /\ status'[s] = status[s] /\ focus'[s] = focus[s]
        /\ stopKind'[s] = stopKind[s] /\ top'[s] = top[s] /\ failed'[s] = failed[s]
    BY <1>1, <1>2, <1>3 DEF TypeOK
  <2> QED BY <1>2, <2>2, <2>3, StaysInStep
<1>4. CASE r = s
  <2>1. Settled(s)
    BY <1>2, <1>4 DEF InStep
  <2>2. /\ inbox'[s] = Append(<<>>, Stopped(t, k)) /\ requests'[s] = <<>>
        /\ \A i \in DOMAIN callbacks' : callbacks'[i].session # s
    BY <1>1, <1>2, <1>4, <2>1 DEF Settled, TypeOK
  <2>3. OneItem(s)'
    BY <2>2, FirstOne DEF OneItem
  <2>4. status'[s] = "stopped" /\ focus'[s] = t /\ stopKind'[s] = k
    BY <1>1, <1>2, <1>4 DEF TypeOK
  <2>5. MessageTrue(s, Head(inbox[s]))'
    BY <2>2, <2>4, FirstOne DEF MessageTrue, Stopped
  <2> QED BY <2>2, <2>3, <2>4, <2>5 DEF InStep, CallbackTrue
<1> QED BY <1>3, <1>4

\* Command keeps InStep.
LEMMA CommandInStep ==
    ASSUME TypeOK, TypeOK', NEW r \in Sessions, Command(r),
           NEW s \in Sessions, ~raced[s] => InStep(s), ~raced'[s]
    PROVE  InStep(s)'
PROOF
<1>1. /\ raced' = [raced EXCEPT ![r] = ~Settled(r)]
      /\ UNCHANGED <<callbacks, requests, inbox, failed>>
      /\ \E t \in Threads, step \in BOOLEAN : Resume(r, t, step)
  BY DEF Command
<1>2. CASE r # s
  <2>2. \A i \in DOMAIN callbacks' : i + 0 \in DOMAIN callbacks /\ callbacks'[i] = callbacks[i + 0]
    BY <1>1, SameCallbacks
  <2>3. /\ status'[s] = status[s] /\ focus'[s] = focus[s]
        /\ stopKind'[s] = stopKind[s] /\ top'[s] = top[s] /\ raced'[s] = raced[s]
    BY <1>1, <1>2 DEF TypeOK, Resume
  <2> QED BY <1>1, <2>2, <2>3, StaysInStep
<1>3. CASE r = s
  BY <1>1, <1>3, SettledInStep DEF Settled, TypeOK
<1> QED BY <1>2, <1>3

\* StopSession keeps InStep.
LEMMA StopSessionInStep ==
    ASSUME TypeOK, TypeOK', NEW r \in Sessions, StopSession(r),
           NEW s \in Sessions, InStep(s)
    PROVE  InStep(s)'
PROOF
<1>1. /\ status' = [status EXCEPT ![r] = "gone"]
      /\ UNCHANGED <<callbacks, requests, inbox, focus, stopKind, top, failed>>
  BY DEF StopSession
<1>3. \A i \in DOMAIN callbacks' : i + 0 \in DOMAIN callbacks /\ callbacks'[i] = callbacks[i + 0]
  BY <1>1, SameCallbacks
<1>4. status'[s] = status[s] \/ status'[s] = "gone"
  BY <1>1 DEF TypeOK
<1> QED BY <1>1, <1>3, <1>4, StaysInStep

\* InStep at the start.
LEMMA InitInStep ==
    ASSUME Init, NEW s \in Sessions
    PROVE  InStep(s)
PROOF BY DEF Init, InStep, OneItem, CallbackTrue

\* Every step keeps what is under way true, also between sessions.
LEMMA StepInvKept == StepInv /\ [Next]_vars => StepInv'
PROOF
<1> SUFFICES ASSUME StepInv, [Next]_vars PROVE StepInv' OBVIOUS
<1> USE DEF StepInv
<1>1. TypeOK'
  BY StepType
<1>2. SUFFICES ASSUME NEW s \in Sessions, ~raced'[s] PROVE InStep(s)'
  BY <1>1
<1>3. ASSUME NEW r \in Sessions, Command(r) PROVE InStep(s)'
  BY <1>1, <1>2, <1>3, CommandInStep
<1>4. CASE UNCHANGED raced
  <2>1. InStep(s)
    BY <1>2, <1>4
  <2>2. CASE OnImmediate
    BY <1>1, <2>1, <2>2, OnImmediateInStep
  <2>3. ASSUME NEW r \in Sessions, OnStopped(r) PROVE InStep(s)'
    BY <1>1, <2>1, <2>3, OnStoppedInStep
  <2>4. ASSUME NEW r \in Sessions, OnStack(r) PROVE InStep(s)'
    BY <1>1, <2>1, <2>4, OnStackInStep
  <2>5. ASSUME NEW r \in Sessions, OnStepFailed(r) PROVE InStep(s)'
    BY <1>1, <2>1, <2>5, OnStepFailedInStep
  <2>6. ASSUME NEW r \in Sessions, Answer(r) PROVE InStep(s)'
    BY <1>1, <2>1, <2>6, AnswerInStep
  <2>7. ASSUME NEW r \in Sessions, Stop(r) PROVE InStep(s)'
    BY <1>1, <2>1, <2>7, StopInStep
  <2>8. ASSUME NEW r \in Sessions, StopSession(r) PROVE InStep(s)'
    BY <1>1, <2>1, <2>8, StopSessionInStep
  <2>9. CASE UNCHANGED vars
    BY <2>1, <2>9 DEF vars, InStep, OneItem, Settled, MessageTrue, RequestTrue, CallbackTrue,
                    NoSource
  <2> QED BY <1>3, <2>2, <2>3, <2>4, <2>5, <2>6, <2>7, <2>8, <2>9 DEF Next, Filter
<1>5. UNCHANGED raced \/ \E r \in Sessions : Command(r)
  BY DEF Next, Filter, OnImmediate, OnStopped, OnStack, OnStepFailed, Answer, Stop,
         StopSession, vars
<1> QED BY <1>3, <1>4, <1>5

\* StepInv at the start.
LEMMA InitStepInv == Init => StepInv
PROOF BY InitType, InitInStep DEF StepInv

\* A session that only Answer makes run without a command, from a stop that its
\* request was about.
LEMMA StepLeavesLib ==
    ASSUME StepInv, Next, NEW s \in Sessions,
           status[s] = "stopped", status'[s] = "running", commands' = commands, ~raced[s]
    PROVE  /\ stopKind[s] = "step"
           /\ top[s][focus'[s]] = "lib" \/ "stackTrace" \in failed[s]
PROOF
<1> USE DEF StepInv
<1>1. ASSUME NEW r \in Sessions, Command(r) PROVE FALSE
  BY <1>1 DEF Command, TypeOK
<1>2. ASSUME NEW r \in Sessions, Stop(r) PROVE FALSE
  BY <1>2 DEF Stop, TypeOK
<1>3. ASSUME NEW r \in Sessions, StopSession(r) PROVE FALSE
  BY <1>3 DEF StopSession, TypeOK
<1>4. PICK r \in Sessions : Answer(r)
  BY <1>1, <1>2, <1>3
     DEF Next, Filter, OnImmediate, OnStopped, OnStack, OnStepFailed
<1>5. /\ requests[s] # <<>> /\ Head(requests[s]).type = "step"
      /\ focus'[s] = Head(requests[s]).thread
  <2>1. r = s /\ requests[r] # <<>> /\ Head(requests[r]).type = "step"
        /\ Resume(r, Head(requests[r]).thread, TRUE)
    BY <1>4 DEF Answer, Resume, TypeOK
  <2> QED BY <2>1 DEF Resume, TypeOK
<1> QED BY <1>5 DEF InStep, RequestTrue, NoSource

\* LandingIsKept: in any number of sessions at once, a session the user waits
\* for is stepped on by itself only from a stop reported as a plain step, in code
\* without source, or in code whose stack the adapter failed to give.
THEOREM LandingKept == Spec => LandingIsKept
PROOF
<1>1. StepInv /\ [Next]_vars =>
        [\A s \in Sessions :
           /\ status[s] = "stopped" /\ status'[s] = "running"
           /\ commands' = commands /\ ~raced[s]
           => /\ stopKind[s] = "step"
              /\ top[s][focus'[s]] = "lib" \/ "stackTrace" \in failed[s]]_vars
  BY StepLeavesLib
<1> QED BY <1>1, InitStepInv, StepInvKept, PTL DEF Spec, LandingIsKept

-----------------------------------------------------------------------------
(* The budget of one session.                                              *)

OneSession == \A s, r \in Sessions : s = r

\* The whole budget is a number.
LEMMA AllowedType == Allowed \in Nat
PROOF BY DEF Allowed

\* In mode "off" the filter never owes anything.
LEMMA NothingWhenOffKept ==
    ASSUME TypeOK, NothingWhenOff, [Next]_vars
    PROVE  NothingWhenOff'
PROOF
<1> SUFFICES ASSUME mode' = "off" PROVE NothingWhenOff' BY DEF NothingWhenOff
<1>1. mode = "off"
  BY DEF Next, Filter, OnImmediate, OnStopped, OnStack, OnStepFailed, Answer, Stop,
         Command, StopSession, vars
<1>2. /\ autoStepState = NoAuto /\ callbacks = <<>>
      /\ \A s \in Sessions : requests[s] = <<>>
                             /\ \A i \in DOMAIN inbox[s] : inbox[s][i].type = "stopped"
  BY <1>1 DEF NothingWhenOff
<1>3. ASSUME NEW s \in Sessions, NEW type, Receive(s, type) PROVE type = "stopped"
  <2>1. inbox[s] \in Seq(Messages) /\ inbox[s] # <<>> /\ Head(inbox[s]).type = type
    BY <1>3 DEF TypeOK, Receive
  <2>2. 1 \in DOMAIN inbox[s] /\ Head(inbox[s]) = inbox[s][1]
    BY <2>1
  <2> QED BY <1>2, <2>1, <2>2
<1>4. ASSUME NEW r \in Sessions, OnStopped(r) PROVE NothingWhenOff'
  <2>1. /\ UNCHANGED <<hostVars, requests>> /\ inbox[r] # <<>>
        /\ inbox' = [inbox EXCEPT ![r] = Tail(@)]
    BY <1>1, <1>4 DEF OnStopped, Consume, Receive
  <2>2. \A i \in DOMAIN Tail(inbox[r]) : Tail(inbox[r])[i].type = "stopped"
    BY <1>2, <2>1, TailElements DEF TypeOK
  <2>3. \A s \in Sessions : inbox'[s] = inbox[s] \/ inbox'[s] = Tail(inbox[r])
    <3>1. inbox \in [Sessions -> Seq(Messages)]
      BY DEF TypeOK
    <3> QED BY <2>1, <3>1
  <2> QED BY <1>2, <2>1, <2>2, <2>3 DEF NothingWhenOff
<1>5. ASSUME NEW r \in Sessions, Stop(r) PROVE NothingWhenOff'
  <2>1. PICK t \in Threads, k \in Kinds : inbox' = [inbox EXCEPT ![r] = Append(@, Stopped(t, k))]
    BY <1>5 DEF Stop, Tell
  <2>2. inbox[r] \in Seq(Messages)
    BY DEF TypeOK
  <2>3. Stopped(t, k).type = "stopped"
    BY DEF Stopped
  <2>4. \A i \in DOMAIN Append(inbox[r], Stopped(t, k)) :
          Append(inbox[r], Stopped(t, k))[i].type = "stopped"
    BY <1>2, <2>2, <2>3, AppendElements
  <2>5. \A s \in Sessions :
          inbox'[s] = inbox[s] \/ inbox'[s] = Append(inbox[r], Stopped(t, k))
    <3>1. inbox \in [Sessions -> Seq(Messages)]
      BY DEF TypeOK
    <3> QED BY <2>1, <3>1
  <2>6. UNCHANGED <<mode, hostVars, requests>>
    BY <1>5 DEF Stop
  <2> QED BY <1>2, <2>4, <2>5, <2>6 DEF NothingWhenOff
<1>6. ASSUME NEW r \in Sessions, Answer(r) PROVE FALSE
  BY <1>2, <1>6 DEF Answer
<1>7. ASSUME NEW r \in Sessions, OnStack(r) \/ OnStepFailed(r) PROVE FALSE
  BY <1>3, <1>7 DEF OnStack, OnStepFailed
<1>8. ASSUME OnImmediate PROVE FALSE
  BY <1>2, <1>8 DEF OnImmediate
<1>9. ASSUME NEW r \in Sessions, Command(r) \/ StopSession(r) PROVE NothingWhenOff'
  BY <1>2, <1>9 DEF Command, StopSession, ClearState, NothingWhenOff
<1>10. CASE UNCHANGED vars
  BY <1>2, <1>10 DEF vars, NothingWhenOff
<1> QED BY <1>4, <1>5, <1>6, <1>7, <1>8, <1>9, <1>10 DEF Next, Filter

\* OnStopped keeps the budgets.
LEMMA OnStoppedBudget ==
    ASSUME OneSession, ChainInv, NEW s \in Sessions, OnStopped(s)
    PROVE  BudgetInv(s)'
PROOF
<1> DEFINE stop == Head(inbox[s])
           c == [session |-> s, thread |-> stop.thread]
<1>1. /\ inbox[s] # <<>> /\ stop.type = "stopped"
      /\ inbox' = [inbox EXCEPT ![s] = Tail(@)]
      /\ UNCHANGED <<mode, requests, status, focus, stopKind, top, autoSteps, raced, failed>>
      /\ Allowed' = Allowed
  BY DEF OnStopped, Receive, Consume, Allowed
<1>2. TypeOK /\ BudgetInv(s) /\ (~raced[s] => InStep(s))
  BY DEF ChainInv, StepInv
<1>3. \/ stop.kind = "step" /\ callbacks' = Append(callbacks, c) /\ UNCHANGED autoStepState
      \/ /\ autoStepState' = NoAuto /\ UNCHANGED callbacks
         /\ mode = "off" \/ stop.kind # "step"
  <2>1. CASE mode = "off"
    BY <2>1 DEF OnStopped, ChainInv, NothingWhenOff
  <2>2. CASE mode # "off" /\ stop.kind # "step"
    <3>1. autoStepState = NoAuto \/ autoStepState.session = s
      BY <1>2 DEF OneSession, TypeOK, Budgets
    <3> QED BY <2>2, <3>1 DEF OnStopped, ClearState, Owned, IsPlainStep
  <2>3. CASE mode # "off" /\ stop.kind = "step"
    BY <2>3 DEF OnStopped, IsPlainStep
  <2> QED BY <2>1, <2>2, <2>3
<1>4. callbacks' = Append(callbacks, c) => ~Settled(s)'
  <2>1. callbacks \in Seq([session : Sessions, thread : Threads])
    BY <1>2 DEF TypeOK
  <2>2. /\ Len(callbacks) + 1 \in DOMAIN Append(callbacks, c)
        /\ Append(callbacks, c)[Len(callbacks) + 1].session = s
    BY <2>1
  <2> QED BY <2>2 DEF Settled
<1>5. Settled(s)' /\ status'[s] = "stopped" => autoStepState' = NoAuto
  BY <1>3, <1>4
<1>6. ASSUME ~raced[s]
      PROVE  /\ inbox'[s] = <<>> /\ requests[s] = <<>>
             /\ \A i \in DOMAIN callbacks : callbacks[i].session # s
             /\ status[s] # "running" /\ ~Settled(s)
  BY <1>1, <1>2, <1>6, LastOne DEF InStep, OneItem, TypeOK, Settled
<1>7. ASSUME ~raced[s], status[s] # "gone"
      PROVE  /\ autoSteps[s] <= Allowed
             /\ status[s] = "stopped" /\ stop.kind = stopKind[s]
             /\ ChainSpends(s) /\ NoChainYet(s)
  BY <1>1, <1>2, <1>6, <1>7 DEF BudgetInv, InStep, MessageTrue, TypeOK
<1>8. ASSUME ~raced[s], status[s] # "gone" PROVE ChainSpends(s)'
  <2>1. Asked(s) = 0 /\ Asked(s)' = 0
    BY <1>1, <1>6, <1>8 DEF Asked, StepFailing
  <2> QED BY <1>1, <1>3, <1>7, <1>8, <2>1 DEF ChainSpends, Left
<1>9. ASSUME ~raced[s], status[s] # "gone" PROVE NoChainYet(s)'
  BY <1>1, <1>3, <1>6, <1>7, <1>9 DEF NoChainYet, Settled
<1>10. ASSUME ~raced[s], status[s] # "gone" PROVE LeftInCode(s)'
  BY <1>1, <1>3, <1>4, <1>7, <1>10 DEF LeftInCode
<1> QED BY <1>1, <1>2, <1>5, <1>8, <1>9, <1>10 DEF BudgetInv

\* OnImmediate keeps the budgets.
LEMMA OnImmediateBudget ==
    ASSUME OneSession, ChainInv, OnImmediate, NEW s \in Sessions
    PROVE  BudgetInv(s)'
PROOF
<1> DEFINE c == Head(callbacks)
<1>1. TypeOK /\ BudgetInv(s) /\ (~raced[s] => InStep(s))
  BY DEF ChainInv, StepInv
<1>2. /\ callbacks # <<>> /\ callbacks' = Tail(callbacks)
      /\ callbacks \in Seq([session : Sessions, thread : Threads])
      /\ UNCHANGED <<mode, inbox, status, focus, stopKind, top, autoSteps, raced>>
      /\ Allowed' = Allowed /\ mode # "off"
  BY <1>1 DEF OnImmediate, TypeOK, Allowed, ChainInv, NothingWhenOff
<1>3. /\ c \in [session : Sessions, thread : Threads] /\ c.session = s
      /\ 1 \in DOMAIN callbacks /\ callbacks[1] = c
  <2>1. c \in [session : Sessions, thread : Threads]
    BY <1>2, HeadTail
  <2>2. c.session \in Sessions
    BY <2>1
  <2>3. 1 \in DOMAIN callbacks /\ callbacks[1] = c
    BY <1>2
  <2> QED BY <2>1, <2>2, <2>3 DEF OneSession
<1>4. requests'[s] = Append(requests[s], AskStack(c.thread)) /\ requests[s] \in Seq(Requests)
  BY <1>1, <1>3 DEF OnImmediate, Ask, TypeOK, Requests
<1>5. ~Settled(s)'
  BY <1>4, AppendNotEmpty DEF Settled
<1>6. ASSUME ~raced[s]
      PROVE  /\ inbox[s] = <<>> /\ requests[s] = <<>> /\ status[s] # "running" /\ ~Settled(s)
             /\ autoSteps[s] <= Allowed
  BY <1>1, <1>3, <1>6 DEF InStep, OneItem, Settled, BudgetInv
<1>7. ASSUME ~raced[s], status[s] # "gone"
      PROVE  /\ c.thread = focus[s] /\ ChainSpends(s) /\ NoChainYet(s)
  BY <1>1, <1>3, <1>6, <1>7 DEF BudgetInv, InStep, CallbackTrue, TypeOK
<1>8. NewChain(c) # NoAuto
  BY <1>3 DEF NewChain
<1>9. ASSUME ~raced[s], status[s] # "gone"
      PROVE  /\ autoStepState' # NoAuto
             /\ ChainSpends(s)'
  <2>1. requests'[s] # <<>> /\ Head(requests'[s]).type = "stackTrace"
    BY <1>4, <1>6, <1>9, FirstOne DEF AskStack
  <2>2. Asked(s) = 0 /\ Asked(s)' = 0
    BY <1>2, <1>6, <1>9, <2>1 DEF Asked, StepFailing
  <2>3. CASE SameChain(c)
    BY <1>2, <1>6, <1>7, <1>9, <2>2, <2>3 DEF SameChain, OnImmediate, ChainSpends, Left
  <2>4. CASE ~SameChain(c)
    <3>1. autoStepState = NoAuto
      <4>1. autoStepState = NoAuto \/ autoStepState.session = s
        BY <1>1 DEF OneSession, TypeOK, Budgets
      <4> QED BY <1>3, <1>6, <1>7, <1>9, <2>4, <4>1 DEF SameChain, ChainSpends
    <3>2. autoSteps[s] = 0
      BY <1>6, <1>7, <1>9, <3>1 DEF NoChainYet
    <3>3. autoStepState' = NewChain(c)
      BY <2>4 DEF OnImmediate
    <3>4. NewChain(c).inBudget + NewChain(c).outBudget = Allowed /\ NewChain(c).thread = c.thread
      BY <1>1, <1>2 DEF NewChain, Allowed, TypeOK, Modes
    <3> QED BY <1>2, <1>7, <1>8, <1>9, <2>2, <3>2, <3>3, <3>4, AllowedType DEF ChainSpends, Left
  <2> QED BY <2>3, <2>4
<1> QED BY <1>2, <1>5, <1>6, <1>9 DEF BudgetInv, NoChainYet, LeftInCode

\* OnStack keeps the budgets.
LEMMA OnStackBudget ==
    ASSUME OneSession, ChainInv, NEW s \in Sessions, OnStack(s)
    PROVE  BudgetInv(s)'
PROOF
<1> DEFINE reply == Head(inbox[s])
           t == reply.thread
<1>1. TypeOK /\ BudgetInv(s) /\ (~raced[s] => InStep(s))
  BY DEF ChainInv, StepInv
<1>2. /\ inbox[s] # <<>> /\ reply.type = "stack"
      /\ inbox' = [inbox EXCEPT ![s] = Tail(@)]
      /\ UNCHANGED <<mode, callbacks, status, focus, stopKind, top, autoSteps, raced, failed>>
      /\ Allowed' = Allowed
  BY DEF OnStack, Receive, Consume, Allowed
<1>3. \/ reply.readable /\ autoStepState' = NoAuto /\ UNCHANGED requests
      \/ autoStepState = NoAuto /\ UNCHANGED <<autoStepState, requests>>
      \/ /\ autoStepState # NoAuto /\ Ask(s, AskStep(t))
         /\ autoStepState.inBudget > 0
         /\ autoStepState' = [autoStepState EXCEPT !.inBudget = @ - 1]
      \/ /\ autoStepState # NoAuto /\ Ask(s, AskStep(t))
         /\ autoStepState.outBudget > 0
         /\ autoStepState' = [autoStepState EXCEPT !.outBudget = @ - 1]
      \/ /\ autoStepState # NoAuto /\ autoStepState' = NoAuto /\ UNCHANGED requests
         /\ autoStepState.inBudget = 0 /\ autoStepState.outBudget = 0
  BY DEF OnStack, Step
<1>4. requests \in [Sessions -> Seq(Requests)]
  BY <1>1 DEF TypeOK, Requests
<1>5. Ask(s, AskStep(t)) => ~Settled(s)'
  BY <1>4 DEF Ask, Settled
<1>6. Settled(s)' => autoStepState' = NoAuto
  BY <1>3, <1>5
<1>7. ASSUME ~raced[s]
      PROVE  /\ inbox'[s] = <<>> /\ requests[s] = <<>> /\ status[s] # "running"
             /\ \A i \in DOMAIN callbacks : callbacks[i].session # s
             /\ autoSteps[s] <= Allowed
  BY <1>1, <1>2, <1>7, LastOne DEF InStep, OneItem, Settled, BudgetInv, TypeOK
<1>8. SUFFICES ASSUME ~raced[s], status[s] # "gone"
               PROVE  ChainSpends(s)' /\ NoChainYet(s)' /\ LeftInCode(s)'
  BY <1>2, <1>6, <1>7 DEF BudgetInv
<1>9. /\ status[s] = "stopped" /\ (reply.readable => top[s][focus[s]] = "user")
      /\ autoStepState # NoAuto /\ autoSteps[s] + Left = Allowed
      /\ autoStepState.thread = focus[s]
  <2>1. status[s] = "stopped"
    BY <1>1, <1>7, <1>8 DEF TypeOK
  <2>2. MessageTrue(s, reply) /\ ChainSpends(s) /\ NoChainYet(s)
    BY <1>1, <1>2, <1>8, <2>1 DEF InStep, BudgetInv
  <2>3. reply.readable => top[s][focus[s]] = "user"
    BY <1>2, <2>2 DEF MessageTrue
  <2>4. autoStepState # NoAuto
    BY <1>2, <2>2 DEF NoChainYet
  <2>5. Asked(s) = 0 /\ autoSteps[s] \in Nat /\ Left \in Nat
    BY <1>1, <1>2, <1>7, <1>8, <2>4 DEF Asked, StepFailing, TypeOK, Left, Budgets
  <2>6. autoSteps[s] + Left = Allowed /\ autoStepState.thread = focus[s]
    BY <1>2, <2>2, <2>4, <2>5 DEF ChainSpends
  <2> QED BY <2>1, <2>3, <2>4, <2>6
<1>10. CASE autoStepState' = NoAuto /\ UNCHANGED requests
  <2>1. ChainSpends(s)' /\ NoChainYet(s)'
    BY <1>2, <1>7, <1>8, <1>9, <1>10 DEF ChainSpends, NoChainYet, Settled
  <2>2. reply.readable \/ Left = 0
    BY <1>3, <1>4, <1>9, <1>10 DEF Left, Ask
  <2>3. LeftInCode(s)'
    BY <1>2, <1>9, <2>2, AllowedType, <1>1 DEF LeftInCode, TypeOK
  <2> QED BY <2>1, <2>3
<1>11. CASE autoStepState' # NoAuto /\ Ask(s, AskStep(t))
  <2>1. requests'[s] # <<>> /\ Head(requests'[s]).type = "step"
    BY <1>4, <1>7, <1>8, <1>11, FirstOne DEF Ask, AskStep
  <2>2. Asked(s)' = 1
    BY <2>1 DEF Asked
  <2>3. autoStepState \in Budgets
    BY <1>1, <1>9 DEF TypeOK
  <2>4. Left' = Left - 1 /\ autoStepState'.thread = autoStepState.thread /\ Left \in Nat
    BY <1>3, <1>9, <1>11, <2>3 DEF Budgets, Left
  <2>5. ChainSpends(s)'
    BY <1>1, <1>2, <1>9, <2>2, <2>4, AllowedType DEF ChainSpends, TypeOK
  <2> QED BY <1>5, <1>11, <2>5 DEF NoChainYet, LeftInCode
<1>12. /\ autoStepState' = NoAuto => UNCHANGED requests
       /\ autoStepState' # NoAuto => Ask(s, AskStep(t))
  <2>1. \A b \in Budgets : b # NoAuto
    BY DEF Budgets
  <2>2. autoStepState \in Budgets
    BY <1>1, <1>9 DEF TypeOK
  <2>3. ASSUME autoStepState.inBudget > 0 PROVE [autoStepState EXCEPT !.inBudget = @ - 1] \in Budgets
    BY <2>2, <2>3 DEF Budgets
  <2>4. ASSUME autoStepState.outBudget > 0 PROVE [autoStepState EXCEPT !.outBudget = @ - 1] \in Budgets
    BY <2>2, <2>4 DEF Budgets
  <2> QED BY <1>3, <1>9, <2>1, <2>3, <2>4
<1> QED BY <1>10, <1>11, <1>12

\* OnStepFailed keeps the budgets.
LEMMA OnStepFailedBudget ==
    ASSUME OneSession, ChainInv, NEW s \in Sessions, OnStepFailed(s)
    PROVE  BudgetInv(s)'
PROOF
<1>1. TypeOK /\ BudgetInv(s) /\ (~raced[s] => InStep(s))
  BY DEF ChainInv, StepInv
<1>2. /\ inbox[s] # <<>> /\ Head(inbox[s]).type = "stepFailed" /\ autoStepState' = NoAuto
      /\ inbox' = [inbox EXCEPT ![s] = Tail(@)]
      /\ UNCHANGED <<mode, requests, callbacks, status, stopKind, top, focus, autoSteps,
                     raced, failed>>
      /\ Allowed' = Allowed
  BY DEF OnStepFailed, Receive, Consume, Allowed
<1>3. ASSUME ~raced[s], status[s] # "gone"
      PROVE  NoChainYet(s)' /\ LeftInCode(s)'
  <2>1. Settled(s)' /\ status[s] = "stopped"
    BY <1>1, <1>2, <1>3, LastOne DEF InStep, OneItem, Settled, TypeOK
  <2>2. "step" \in failed[s]
    BY <1>1, <1>2, <1>3, <2>1 DEF InStep, MessageTrue
  <2> QED BY <1>2, <2>1, <2>2 DEF NoChainYet, LeftInCode, Settled
<1> QED BY <1>1, <1>2, <1>3 DEF BudgetInv, ChainSpends

\* Answer keeps the budgets.
LEMMA AnswerBudget ==
    ASSUME OneSession, ChainInv, NEW s \in Sessions, Answer(s)
    PROVE  BudgetInv(s)'
PROOF
<1> DEFINE request == Head(requests[s])
           t == request.thread
<1>1. TypeOK /\ BudgetInv(s) /\ (~raced[s] => InStep(s))
  BY DEF ChainInv, StepInv
<1>2. /\ requests[s] # <<>> /\ requests' = [requests EXCEPT ![s] = Tail(@)]
      /\ UNCHANGED <<mode, autoStepState, callbacks, stopKind, top, raced>>
      /\ Allowed' = Allowed
  BY DEF Answer, Allowed, Resume
<1>3. \/ /\ request.type = "step" /\ status[s] = "stopped" /\ UNCHANGED inbox
         /\ status' = [status EXCEPT ![s] = "running"] /\ focus' = [focus EXCEPT ![s] = t]
         /\ autoSteps' = [autoSteps EXCEPT ![s] = IF @ > Allowed THEN @ ELSE @ + 1]
      \/ /\ UNCHANGED <<status, focus, autoSteps>>
         /\ \E m : Tell(s, m) /\ m.type = IF request.type = "step" THEN "stepFailed" ELSE "stack"
  <2>1. StepFailed.type = "stepFailed" /\ \A b : Stack(t, b).type = "stack"
    BY DEF StepFailed, Stack
  <2> QED BY <2>1 DEF Answer, Resume
<1>4. \A m : Tell(s, m) => inbox'[s] = Append(inbox[s], m) /\ ~Settled(s)'
  <2>1. ASSUME NEW m, Tell(s, m) PROVE inbox'[s] = Append(inbox[s], m)
    BY <1>1, <2>1 DEF Tell, TypeOK
  <2>2. inbox[s] \in Seq(Messages)
    BY <1>1 DEF TypeOK
  <2>3. \A m : Append(inbox[s], m) # <<>>
    BY <2>2
  <2> QED BY <2>1, <2>3 DEF Settled
<1>5. ~Settled(s)' \/ status'[s] = "running"
  BY <1>1, <1>3, <1>4 DEF TypeOK
<1>6. ASSUME ~raced[s]
      PROVE  /\ requests'[s] = <<>> /\ inbox[s] = <<>> /\ ~Settled(s) /\ status[s] # "running"
             /\ autoSteps[s] <= Allowed
  BY <1>1, <1>2, <1>6, LastOne DEF InStep, OneItem, Settled, TypeOK, BudgetInv
<1>7. CASE raced[s] \/ status[s] = "gone"
  BY <1>1, <1>2, <1>3, <1>5, <1>6, <1>7 DEF BudgetInv
<1>8. CASE ~raced[s] /\ status[s] # "gone"
  <2>1. /\ status[s] = "stopped" /\ t = focus[s] /\ autoStepState # NoAuto
        /\ ChainSpends(s) /\ autoStepState.thread = focus[s]
    <3>1. status[s] = "stopped"
      BY <1>1, <1>6, <1>8 DEF TypeOK
    <3>2. RequestTrue(s, request) /\ ChainSpends(s) /\ NoChainYet(s)
      BY <1>1, <1>2, <1>8, <3>1 DEF InStep, BudgetInv
    <3> QED BY <1>2, <1>6, <1>8, <3>1, <3>2 DEF RequestTrue, ChainSpends, NoChainYet
  <2>2. autoSteps[s] \in Nat /\ Left \in Nat /\ Left' = Left
    <3>1. autoStepState \in Budgets /\ autoSteps[s] \in Nat
      BY <1>1, <2>1, AllowedType DEF TypeOK
    <3>2. Left \in Nat /\ Left' = Left
      BY <1>2, <3>1 DEF Left, Budgets
    <3> QED BY <3>1, <3>2
  <2>3. CASE /\ UNCHANGED <<status, focus, autoSteps>>
             /\ \E m : Tell(s, m) /\ m.type = IF request.type = "step" THEN "stepFailed" ELSE "stack"
    <3>1. PICK m : Tell(s, m) /\ m.type = IF request.type = "step" THEN "stepFailed" ELSE "stack"
      BY <2>3
    <3>2. inbox'[s] # <<>> /\ Head(inbox'[s]) = m
      BY <1>4, <1>6, <1>8, <3>1, FirstOne
    <3>3. Asked(s) = Asked(s)'
      BY <1>2, <1>6, <1>8, <3>1, <3>2 DEF Asked, StepFailing
    <3>4. ChainSpends(s)'
      BY <1>2, <2>1, <2>2, <2>3, <3>3 DEF ChainSpends
    <3>5. NoChainYet(s)' /\ LeftInCode(s)'
      BY <1>2, <1>4, <2>1, <3>1 DEF NoChainYet, LeftInCode
    <3> QED BY <1>2, <1>5, <1>6, <1>8, <2>1, <2>3, <3>4, <3>5 DEF BudgetInv
  <2>4. CASE /\ request.type = "step" /\ status[s] = "stopped" /\ UNCHANGED inbox
             /\ status' = [status EXCEPT ![s] = "running"] /\ focus' = [focus EXCEPT ![s] = t]
             /\ autoSteps' = [autoSteps EXCEPT ![s] = IF @ > Allowed THEN @ ELSE @ + 1]
    <3>1. Asked(s) = 1 /\ Asked(s)' = 0
      BY <1>2, <1>6, <1>8, <2>4 DEF Asked, StepFailing
    <3>2. status'[s] = "running" /\ focus'[s] = focus[s] /\ autoSteps'[s] = autoSteps[s] + 1
      BY <1>1, <1>6, <1>8, <2>1, <2>2, <2>4, AllowedType DEF TypeOK
    <3>3. autoSteps[s] + 1 + Left = Allowed
      BY <2>1, <3>1 DEF ChainSpends
    <3>4. ChainSpends(s)' /\ autoSteps'[s] <= Allowed'
      BY <1>2, <2>1, <2>2, <3>1, <3>2, <3>3, AllowedType DEF ChainSpends
    <3> QED BY <1>2, <2>1, <3>2, <3>4 DEF BudgetInv, NoChainYet, LeftInCode
  <2> QED BY <1>3, <2>1, <2>3, <2>4
<1> QED BY <1>7, <1>8

\* Stop keeps the budgets.
LEMMA StopBudget ==
    ASSUME OneSession, ChainInv, NEW s \in Sessions, Stop(s)
    PROVE  BudgetInv(s)'
PROOF
<1>1. TypeOK /\ BudgetInv(s) /\ (~raced[s] => InStep(s))
  BY DEF ChainInv, StepInv
<1>2. PICK t \in Threads, k \in Kinds :
        /\ k = "step" => t = focus[s]
        /\ focus' = [focus EXCEPT ![s] = t]
        /\ stopKind' = [stopKind EXCEPT ![s] = k]
        /\ inbox' = [inbox EXCEPT ![s] = Append(@, Stopped(t, k))]
  BY DEF Stop, Tell
<1>3. /\ status[s] = "running" /\ status' = [status EXCEPT ![s] = "stopped"]
      /\ UNCHANGED <<mode, autoStepState, callbacks, requests, autoSteps, raced>>
      /\ Allowed' = Allowed /\ Left' = Left
  BY DEF Stop, Allowed, Left
<1>4. inbox'[s] = Append(inbox[s], Stopped(t, k)) /\ inbox'[s] # <<>> /\ ~Settled(s)'
  <2>1. inbox'[s] = Append(inbox[s], Stopped(t, k)) /\ inbox[s] \in Seq(Messages)
    BY <1>1, <1>2 DEF TypeOK
  <2>2. inbox'[s] # <<>>
    BY <2>1, AppendNotEmpty
  <2> QED BY <2>1, <2>2 DEF Settled
<1>5. SUFFICES ASSUME ~raced[s]
               PROVE  autoSteps[s] <= Allowed /\ ChainSpends(s)' /\ NoChainYet(s)' /\ LeftInCode(s)'
  BY <1>3, <1>4 DEF BudgetInv
<1>6. autoSteps[s] <= Allowed /\ ChainSpends(s) /\ NoChainYet(s) /\ Settled(s)
  BY <1>1, <1>3, <1>5 DEF BudgetInv, InStep
<1>7. inbox[s] = <<>> /\ requests[s] = <<>>
  BY <1>6 DEF Settled
<1>8. Head(inbox'[s]) = Stopped(t, k) /\ Head(inbox'[s]).type = "stopped"
  BY <1>4, <1>7, FirstOne DEF Stopped
<1>9. focus'[s] = t /\ stopKind'[s] = k /\ Asked(s) = 0 /\ Asked(s)' = 0
  BY <1>1, <1>2, <1>3, <1>7, <1>8 DEF TypeOK, Asked, StepFailing
<1>10. ChainSpends(s)'
  BY <1>2, <1>3, <1>4, <1>6, <1>7, <1>8, <1>9 DEF ChainSpends
<1>11. NoChainYet(s)'
  BY <1>3, <1>6, <1>7, <1>8 DEF NoChainYet
<1>12. LeftInCode(s)'
  BY <1>4 DEF LeftInCode
<1> QED BY <1>6, <1>10, <1>11, <1>12

\* Command keeps the budgets.
LEMMA CommandBudget ==
    ASSUME OneSession, ChainInv, NEW s \in Sessions, Command(s)
    PROVE  BudgetInv(s)'
PROOF
<1>1. TypeOK /\ BudgetInv(s)
  BY DEF ChainInv, StepInv
<1>2. /\ status[s] = "stopped"
      /\ status' = [status EXCEPT ![s] = "running"]
      /\ UNCHANGED <<mode, autoStepState, callbacks, requests, inbox>>
      /\ Allowed' = Allowed
  BY DEF Command, Resume, Allowed
<1>3. status'[s] = "running" /\ autoSteps'[s] = 0
  BY <1>1, <1>2 DEF TypeOK, Command
<1>4. ~raced'[s] => Settled(s)
  BY <1>1 DEF TypeOK, Command
<1>5. Settled(s) => autoStepState' = NoAuto /\ requests'[s] = <<>> /\ inbox'[s] = <<>>
  BY <1>1, <1>2 DEF BudgetInv, Settled
<1> QED BY <1>2, <1>3, <1>4, <1>5, AllowedType DEF BudgetInv, ChainSpends, NoChainYet, LeftInCode

\* StopSession keeps the budgets.
LEMMA StopSessionBudget ==
    ASSUME OneSession, ChainInv, NEW s \in Sessions, StopSession(s)
    PROVE  BudgetInv(s)'
PROOF
<1>1. TypeOK /\ BudgetInv(s)
  BY DEF ChainInv, StepInv
<1>2. status'[s] = "gone" /\ UNCHANGED <<autoSteps, raced>> /\ Allowed' = Allowed
  BY <1>1 DEF StopSession, TypeOK, Allowed
<1> QED BY <1>1, <1>2 DEF BudgetInv

\* ChainInv at the start.
LEMMA InitChainInv == Init => ChainInv
PROOF
<1> SUFFICES ASSUME Init PROVE ChainInv OBVIOUS
<1>1. NothingWhenOff
  BY DEF Init, NothingWhenOff
<1>2. ASSUME NEW s \in Sessions PROVE BudgetInv(s)
  BY AllowedType DEF Init, BudgetInv, ChainSpends, NoChainYet, LeftInCode, Settled
<1> QED BY <1>1, <1>2, InitStepInv DEF ChainInv

\* Every action keeps ChainInv, if there is one session.
LEMMA ChainInvKept ==
    ASSUME OneSession, ChainInv, [Next]_vars
    PROVE  ChainInv'
PROOF
<1>1. StepInv' /\ NothingWhenOff'
  BY StepInvKept, NothingWhenOffKept DEF ChainInv, StepInv
<1>2. ASSUME NEW s \in Sessions PROVE BudgetInv(s)'
  <2>1. CASE OnImmediate
    BY <2>1, OnImmediateBudget
  <2>2. CASE OnStopped(s)
    BY <2>2, OnStoppedBudget
  <2>3. CASE OnStack(s)
    BY <2>3, OnStackBudget
  <2>4. CASE OnStepFailed(s)
    BY <2>4, OnStepFailedBudget
  <2>5. CASE Answer(s)
    BY <2>5, AnswerBudget
  <2>6. CASE Stop(s)
    BY <2>6, StopBudget
  <2>7. CASE Command(s)
    BY <2>7, CommandBudget
  <2>8. CASE StopSession(s)
    BY <2>8, StopSessionBudget
  <2>9. CASE UNCHANGED vars
    BY <2>9 DEF vars, ChainInv, BudgetInv, ChainSpends, NoChainYet, LeftInCode, Settled,
               Asked, StepFailing, Left, Allowed
  <2>10. ASSUME NEW r \in Sessions PROVE r = s
    BY DEF OneSession
  <2> QED BY <2>1, <2>2, <2>3, <2>4, <2>5, <2>6, <2>7, <2>8, <2>9, <2>10 DEF Next, Filter
<1> QED BY <1>1, <1>2 DEF ChainInv

\* The inductive invariant of one session: what the filter has done, has asked for
\* and has left always adds up to the budget of the user's command.
THEOREM ChainSafe == OneSession => (Spec => []ChainInv)
PROOF
<1> SUFFICES ASSUME OneSession PROVE Spec => []ChainInv OBVIOUS
<1>1. ChainInv /\ [Next]_vars => ChainInv'
  BY ChainInvKept
<1> QED BY <1>1, InitChainInv, PTL DEF Spec

\* BudgetHolds: with one session, a command the filter is not in the middle of is
\* followed by no more automatic steps than the budgets allow, for any budgets.
THEOREM BudgetSafe == OneSession => (Spec => []BudgetHolds)
PROOF
<1>1. ChainInv => BudgetHolds
  BY DEF ChainInv, BudgetInv, BudgetHolds
<1> QED BY <1>1, ChainSafe, PTL

\* GivesUpOnlyWhenSpent: with one session, the filter that has come to rest in code
\* without source has taken every step its budgets allow, or was refused one.
THEOREM GivesUpSafe == OneSession => (Spec => []GivesUpOnlyWhenSpent)
PROOF
<1>1. ChainInv => GivesUpOnlyWhenSpent
  BY DEF ChainInv, BudgetInv, LeftInCode, GivesUpOnlyWhenSpent
<1> QED BY <1>1, ChainSafe, PTL
=============================================================================
