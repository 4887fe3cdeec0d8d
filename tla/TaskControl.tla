---------------------------- MODULE TaskControl ----------------------------
(***************************************************************************)
(* Suspending and resuming contexts (ports/esp32/modmultipython.c): the    *)
(* control operations, the responses contexts register, multipython_notify *)
(* called from an interrupt, and the wakeup call task that resumes a       *)
(* context whose oldest response asks for it.                              *)
(*                                                                         *)
(* A control operation writes the MP_CSUSP flag and then calls FreeRTOS;   *)
(* no lock is held, so the two are steps of their own.  The set of         *)
(* registered contexts is fixed here (see ContextLifecycle), a context     *)
(* stands for its task ID, and a response queue is the FIFO that           *)
(* ResponseQueue implements for a single notifier.                         *)
(***************************************************************************)
EXTENDS Integers, Sequences

CONSTANTS
    List,           \* the contexts, in registration order; the first is the REPL's
    Waker,          \* multipython_wakeup_call_task
    MayControl,     \* pairs <<g, c>>: agent g calls control on context c
    SleepAtStart,   \* contexts started with the "suspend" argument
    Registrable,    \* the responses programs register: [cond, context, op]
    UseWaker,       \* whether a program calls multipython.init
    QueueLimit,     \* responses a queue holds
    MaxResponses    \* bound on the number of registered responses

Main == List[1]
Contexts == {List[i] : i \in 1..Len(List)}
Agents == Contexts \cup {Waker}
Ops == {"NONE", "RESUME"}
Conds == {r.cond : r \in Registrable}

ASSUME ListAssumption == List \in Seq(Contexts) /\ List # <<>>
ASSUME WakerAssumption == Waker \notin Contexts
ASSUME ControlAssumption ==
    /\ MayControl \subseteq Contexts \X Contexts
    /\ SleepAtStart \subseteq Contexts \ {Main}
ASSUME RegistrableAssumption ==
    \A r \in Registrable : r.context \in Contexts /\ r.op \in Ops
ASSUME BoundsAssumption == QueueLimit \in Nat /\ MaxResponses \in Nat

VARIABLES
    status,     \* context->status: whether MP_CSUSP is set
    task,       \* FreeRTOS: "ready" or "suspended"
    queue,      \* context->response_queue
    booting,    \* contexts that have not reached the "suspend" option yet
    cpc, con,   \* per agent: progress of its control call and the context it is on
    responses,  \* multipython_response_head: the registered responses
    ncond, npos,\* multipython_notify in progress: its condition, its place in the list
    waker,      \* "off", "alive" or, after an uncaught exception, "crashed"
    wpos,       \* the wakeup task's place in the context list, 0 during vTaskDelay
    raced       \* the contexts on which two control calls have overlapped

flagVars == <<status, task>>
callVars == <<cpc, con>>
notifyVars == <<responses, ncond, npos>>
wakerVars == <<waker, wpos>>
vars == <<flagVars, queue, booting, callVars, notifyVars, wakerVars, raced>>

Init ==
    /\ status = [c \in Contexts |-> "clear"]
    /\ task = [c \in Contexts |-> "ready"]
    /\ queue = [c \in Contexts |-> <<>>]
    /\ booting = SleepAtStart
    /\ cpc = [g \in Agents |-> "idle"]
    /\ con = [g \in Agents |-> Main]
    /\ responses = <<>> /\ ncond = "none" /\ npos = 0
    /\ waker = "off" /\ wpos = 0
    /\ raced = {}

\* A context takes a step of its program only while FreeRTOS runs it.
Runs(g) == IF g = Waker THEN waker = "alive" ELSE task[g] = "ready"

\* It is in its Python program, not inside a control call or starting up.
InProgram(c) == task[c] = "ready" /\ cpc[c] = "idle" /\ c \notin booting

-----------------------------------------------------------------------------
(* multipython_suspend_task, multipython_resume_task                        *)

\* Agent g is in the middle of a call that changes flag and task of c.
Calls(g, c) == con[g] = c /\ cpc[g] \in {"suspending", "checked", "cleared"}

\* A call on c starts, perhaps while another one is under way.
Enter(c) == raced' = IF \E g \in Agents : Calls(g, c) THEN raced \cup {c} ELSE raced

\* "context->status |= MP_CSUSP".  The REPL's context is refused (EACCES).
Suspend(g, c) ==
    /\ InProgram(g)
    /\ <<g, c>> \in MayControl
    /\ c # Main
    /\ status' = [status EXCEPT ![c] = "set"]
    /\ cpc' = [cpc EXCEPT ![g] = "suspending"]
    /\ con' = [con EXCEPT ![g] = c]
    /\ Enter(c)
    /\ UNCHANGED <<task, queue, booting, notifyVars, wakerVars>>

\* multipython_task_template: the option to suspend the task at startup.
SuspendAtStart(c) ==
    /\ task[c] = "ready"
    /\ c \in booting
    /\ booting' = booting \ {c}
    /\ status' = [status EXCEPT ![c] = "set"]
    /\ cpc' = [cpc EXCEPT ![c] = "suspending"]
    /\ con' = [con EXCEPT ![c] = c]
    /\ Enter(c)
    /\ UNCHANGED <<task, queue, notifyVars, wakerVars>>

\* vTaskSuspend
SuspendDone(g) ==
    /\ Runs(g)
    /\ cpc[g] = "suspending"
    /\ task' = [task EXCEPT ![con[g]] = "suspended"]
    /\ cpc' = [cpc EXCEPT ![g] = "idle"]
    /\ UNCHANGED <<status, queue, booting, con, notifyVars, wakerVars, raced>>

\* Fault: the flag is neither tested nor cleared.
ResumeUnchecked(g, c) ==
    /\ InProgram(g)
    /\ <<g, c>> \in MayControl
    /\ c # Main
    /\ cpc' = [cpc EXCEPT ![g] = "cleared"]
    /\ con' = [con EXCEPT ![g] = c]
    /\ Enter(c)
    /\ UNCHANGED <<flagVars, queue, booting, notifyVars, wakerVars>>

\* A context whose flag is clear is left alone (the call returns -1).
Resume(g, c) ==
    /\ InProgram(g)
    /\ <<g, c>> \in MayControl
    /\ c # Main
    /\ status[c] = "set"
    /\ cpc' = [cpc EXCEPT ![g] = "checked"]
    /\ con' = [con EXCEPT ![g] = c]
    /\ Enter(c)
    /\ UNCHANGED <<flagVars, queue, booting, notifyVars, wakerVars>>

\* "context->status &= ~MP_CSUSP"
ResumeClear(g) ==
    /\ Runs(g)
    /\ cpc[g] = "checked"
    /\ status' = [status EXCEPT ![con[g]] = "clear"]
    /\ cpc' = [cpc EXCEPT ![g] = "cleared"]
    /\ UNCHANGED <<task, queue, booting, con, notifyVars, wakerVars, raced>>

\* The wakeup task goes on to the next context, or back to its delay.
Following(p) == IF p = Len(List) THEN 0 ELSE p + 1

\* vTaskResume
ResumeDone(g) ==
    /\ Runs(g)
    /\ cpc[g] = "cleared"
    /\ task' = [task EXCEPT ![con[g]] = "ready"]
    /\ cpc' = [cpc EXCEPT ![g] = "idle"]
    /\ wpos' = IF g = Waker THEN Following(wpos) ELSE wpos
    /\ UNCHANGED <<status, queue, booting, con, notifyVars, waker, raced>>

-----------------------------------------------------------------------------
(* Responses: multipython_response_make_new, _notify, _check_responses      *)

Register(c, r) ==
    /\ InProgram(c)
    /\ Len(responses) < MaxResponses
    /\ responses' = Append(responses, r)
    /\ UNCHANGED <<flagVars, queue, booting, callVars, ncond, npos, wakerVars, raced>>

\* The interrupt handler reports a condition.
NotifyStart(cond) ==
    /\ npos = 0
    /\ responses # <<>>
    /\ ncond' = cond
    /\ npos' = 1
    /\ UNCHANGED <<flagVars, queue, booting, callVars, responses, wakerVars, raced>>

\* One registered response: if it matches, it goes to its context's queue,
\* unless that is full.
NotifyNode ==
    /\ npos > 0
    /\ LET r == responses[npos]
           fits == r.cond = ncond /\ Len(queue[r.context]) < QueueLimit
       IN  queue' = IF fits THEN [queue EXCEPT ![r.context] = Append(@, r.op)] ELSE queue
    /\ npos' = IF npos = Len(responses) THEN 0 ELSE npos + 1
    /\ UNCHANGED <<flagVars, booting, callVars, responses, ncond, wakerVars, raced>>

CheckResponses(c) ==
    /\ InProgram(c)
    /\ queue[c] # <<>>
    /\ queue' = [queue EXCEPT ![c] = Tail(@)]
    /\ UNCHANGED <<flagVars, booting, callVars, notifyVars, wakerVars, raced>>

-----------------------------------------------------------------------------
(* multipython_init and multipython_wakeup_call_task                        *)

StartWaker(c) ==
    /\ UseWaker
    /\ InProgram(c)
    /\ waker = "off"
    /\ waker' = "alive"
    /\ UNCHANGED <<flagVars, queue, booting, callVars, notifyVars, wpos, raced>>

\* The delay is over.
WakerTick ==
    /\ waker = "alive"
    /\ wpos = 0
    /\ wpos' = 1
    /\ UNCHANGED <<flagVars, queue, booting, callVars, notifyVars, waker, raced>>

ResumeWanted(c) == queue[c] # <<>> /\ Head(queue[c]) = "RESUME"

\* Nothing to resume for this context.
WakerSkip ==
    /\ waker = "alive"
    /\ wpos > 0
    /\ cpc[Waker] = "idle"
    /\ ~ResumeWanted(List[wpos])
    /\ wpos' = Following(wpos)
    /\ UNCHANGED <<flagVars, queue, booting, callVars, notifyVars, waker, raced>>

\* Fault: only a queue that holds a single response is acted upon.
WakerPeekLone ==
    /\ waker = "alive"
    /\ wpos > 0
    /\ cpc[Waker] = "idle"
    /\ ResumeWanted(List[wpos])
    /\ IF Len(queue[List[wpos]]) = 1
       THEN /\ cpc' = [cpc EXCEPT ![Waker] = "peeked"]
            /\ con' = [con EXCEPT ![Waker] = List[wpos]]
            /\ UNCHANGED wpos
       ELSE wpos' = Following(wpos) /\ UNCHANGED callVars
    /\ UNCHANGED <<flagVars, queue, booting, notifyVars, waker, raced>>

\* The oldest response asks for a resume; it stays in the queue.
WakerPeek ==
    /\ waker = "alive"
    /\ wpos > 0
    /\ cpc[Waker] = "idle"
    /\ ResumeWanted(List[wpos])
    /\ cpc' = [cpc EXCEPT ![Waker] = "peeked"]
    /\ con' = [con EXCEPT ![Waker] = List[wpos]]
    /\ UNCHANGED <<flagVars, queue, booting, notifyVars, wakerVars, raced>>

\* multipython_resume_task, for what was peeked: not suspended, so nothing to do.
WakerNotNeeded ==
    /\ waker = "alive"
    /\ cpc[Waker] = "peeked"
    /\ con[Waker] # Main
    /\ status[con[Waker]] = "clear"
    /\ cpc' = [cpc EXCEPT ![Waker] = "idle"]
    /\ wpos' = Following(wpos)
    /\ UNCHANGED <<flagVars, queue, booting, con, notifyVars, waker, raced>>

WakerResume ==
    /\ waker = "alive"
    /\ cpc[Waker] = "peeked"
    /\ con[Waker] # Main
    /\ status[con[Waker]] = "set"
    /\ cpc' = [cpc EXCEPT ![Waker] = "checked"]
    /\ Enter(con[Waker])
    /\ UNCHANGED <<flagVars, queue, booting, con, notifyVars, wakerVars>>

\* An exception, which the wakeup task has no handler for: the heap that happens
\* to be active has no room for the list of results, or the context is the
\* REPL's, which resume refuses.
WakerRaises ==
    /\ waker = "alive"
    /\ cpc[Waker] = "peeked"
    /\ waker' = "crashed"
    /\ UNCHANGED <<flagVars, queue, booting, callVars, notifyVars, wpos, raced>>

-----------------------------------------------------------------------------
\* The steps of a control call that is under way.
CallStep(g) == SuspendDone(g) \/ ResumeClear(g) \/ ResumeDone(g)

WakerStep ==
    \/ WakerTick \/ WakerSkip \/ WakerPeek
    \/ WakerNotNeeded \/ WakerResume \/ WakerRaises

Next ==
    \/ \E g, c \in Contexts : Suspend(g, c) \/ Resume(g, c)
    \/ \E c \in Contexts : SuspendAtStart(c) \/ CheckResponses(c) \/ StartWaker(c)
    \/ \E g \in Agents : CallStep(g)
    \/ \E c \in Contexts, r \in Registrable : Register(c, r)
    \/ (\E cond \in Conds : NotifyStart(cond)) \/ NotifyNode
    \/ WakerStep

Spec == Init /\ [][Next]_vars

\* FreeRTOS runs the wakeup task, which has the highest priority of them, when
\* its delay is over, and shares the time between the contexts' tasks, which
\* have one priority, so that one that is inside a control call gets through
\* it.  The REPL's task has a lower priority: nothing is assumed of it.
FairSpec ==
    /\ Spec
    /\ WF_vars(WakerStep)
    /\ \A g \in Agents \ {Main} : WF_vars(CallStep(g))

-----------------------------------------------------------------------------
(* Properties                                                               *)

\* Flags, FreeRTOS states, queues and calls keep their types.
TypeOK ==
    /\ status \in [Contexts -> {"clear", "set"}]
    /\ task \in [Contexts -> {"ready", "suspended"}]
    /\ \A c \in Contexts : queue[c] \in Seq(Ops) /\ Len(queue[c]) <= QueueLimit
    /\ booting \subseteq SleepAtStart
    /\ cpc \in [Agents -> {"idle", "suspending", "peeked", "checked", "cleared"}]
    /\ con \in [Agents -> Contexts]
    /\ responses \in Seq(Registrable) /\ Len(responses) <= MaxResponses
    /\ npos \in 0..MaxResponses
    /\ waker \in {"off", "alive", "crashed"}
    /\ wpos \in 0..Len(List)
    /\ raced \subseteq Contexts

\* MP_CSUSP means "suspended": when no control call is under way the flag says
\* what FreeRTOS does with the task, unless two of them have overlapped.  (A
\* task that is suspended while its flag is clear can never be resumed again,
\* because multipython_resume_task returns early.)
FlagTellsTruth ==
    \A c \in Contexts \ raced :
        (\A g \in Agents : ~Calls(g, c)) => (status[c] = "set" <=> task[c] = "suspended")

\* Once multipython.init has been called, a suspended context whose oldest
\* response asks for a resume runs again, unless an exception ends the wakeup
\* task first.
ResumeAtHeadWakes ==
    \A c \in Contexts \ {Main} :
        waker = "alive" /\ task[c] = "suspended" /\ status[c] = "set" /\ ResumeWanted(c)
            ~> task[c] = "ready" \/ waker = "crashed"
=============================================================================
