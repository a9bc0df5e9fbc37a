--------------------------- MODULE HqMissionRelay ---------------------------
(***************************************************************************)
(* The mission relay of HQ Dispatch (tools/hq-dispatch/v1/                 *)
(* mission-relay.mjs, class HqMissionRelay): operator submissions, retries *)
(* of interrupted runs, answers to TIM_REQUIRED requests and the shutdown, *)
(* as the event loop of one server process interleaves them.               *)
(*                                                                         *)
(* A step is what the event loop runs between two awaits.  A mission has   *)
(* at most one coroutine at a time, so phase[m] is its program counter.  A *)
(* mission is named after the call that creates it: the submission that    *)
(* passed every gate, the recovery that retried an interrupted run, or the *)
(* item of a restart reconciliation.                                       *)
(***************************************************************************)
EXTENDS Naturals, FiniteSets

CONSTANTS Submissions,  \* submission ids the route preview has handed out
          Retries,      \* recovery keys an operator may retry as a new run
          Reconciled,   \* TIM_REQUIRED missions found on disk at a restart
          QueueCalls,   \* calls that reconcile a queue record from a receipt
          Responses,    \* the answers an operator may give to a request
          Keys,         \* replay keys: hashes of a request and its projection
          ReplayKey,    \* the replay key of each submission
          None

Missions == Submissions \cup Retries \cup Reconciled
Owners   == Missions \cup QueueCalls      \* who may own a foreground child

ResponseTypes == {"APPROVE_EXACT_REQUEST", "DENY_REQUEST"}

\* PROVIDE_CLARIFICATION takes the control path of an approval.
ASSUME RelayAssumption ==
    /\ ReplayKey \in [Submissions -> Keys]
    /\ Responses \subseteq ResponseTypes
    /\ None \notin Owners
    /\ Submissions \cap Retries = {}
    /\ Submissions \cap Reconciled = {}
    /\ Retries \cap Reconciled = {}
    /\ Missions \cap QueueCalls = {}

VARIABLES
    submission,  \* the submissions map: "none", "pending" or "settled" promise
    phase,       \* where the coroutine of a mission waits
    state,       \* record.status.state; "NONE" while there is no record
    terminal,    \* record.terminal
    revision,    \* record.revision; 0 while there is no record
    request,     \* the revision record.timRequest is about; 0 without one
    answered,    \* the request the accepted response is for; 0 without one
    answer,      \* the response_type of record.acceptedResponse
    responded,   \* missions whose record.responseOutcome has been recorded
    active,      \* activeMissionId
    child,       \* the owner of the process activeChild refers to
    completed,   \* completedBindings: replay key to mission
    calls,       \* QueueCalls whose wrapper process is running or has closed
    shutdown,    \* progress of shutdown()
    interrupted, \* the record shutdown() interrupted
    stopRecord,  \* missions with a durable interruption record
    evidence,    \* the active mission of the owner record (onMissionChange)
    exited,      \* owners whose process the cleanup saw gone, not yet closed
    runs         \* history: executor processes spawned for a mission

callVars == <<submission, completed>>
recordVars == <<state, terminal, revision>>
answerVars == <<request, answered, answer, responded>>
stopVars == <<shutdown, interrupted, stopRecord, exited>>
vars == <<submission, phase, state, terminal, revision, request, answered,
          answer, responded, active, child, completed, calls, shutdown,
          interrupted, stopRecord, evidence, exited, runs>>

Phases == {"idle", "revalidate", "prepare", "execute", "respond"}

\* QUEUED and DISPATCHING are projected in the step that reaches RUNNING;
\* VERIFYING and PRESERVING stand for RUNNING when the outcome is refused.
Outcomes == {"ADMITTED", "REJECTED", "TIM_REQUIRED"}
States == Outcomes \cup {"NONE", "PREPARING", "RUNNING", "REVISING",
           "RECONCILING", "TIM_REQUIRED_DENIED", "FAILED", "INTERRUPTED"}

TypeOK ==
    /\ submission \in [Submissions -> {"none", "pending", "settled"}]
    /\ phase \in [Missions -> Phases]
    /\ state \in [Missions -> States]
    /\ terminal \in [Missions -> BOOLEAN]
    /\ revision \in [Missions -> Nat]
    /\ request \in [Missions -> Nat]
    /\ answered \in [Missions -> Nat]
    /\ answer \in [Missions -> ResponseTypes \cup {None}]
    /\ responded \subseteq Missions
    /\ active \in Missions \cup {None}
    /\ child \in Owners \cup {None}
    /\ completed \in [Keys -> Submissions \cup {None}]
    /\ calls \in [QueueCalls -> {"none", "running", "closed"}]
    /\ shutdown \in {"serving", "cleaning", "confirming", "stopped", "failed"}
    /\ interrupted \in Missions \cup {None}
    /\ stopRecord \subseteq Missions
    /\ evidence \in Missions \cup {None}
    /\ exited \subseteq Owners
    /\ runs \in [Missions -> Nat]

Init ==
    /\ submission = [s \in Submissions |-> "none"]
    /\ phase = [m \in Missions |-> "idle"]
    /\ state = [m \in Missions |-> "NONE"]
    /\ terminal = [m \in Missions |-> FALSE]
    /\ revision = [m \in Missions |-> 0]
    /\ request = [m \in Missions |-> 0]
    /\ answered = [m \in Missions |-> 0]
    /\ answer = [m \in Missions |-> None]
    /\ responded = {}
    /\ active = None
    /\ child = None
    /\ completed = [k \in Keys |-> None]
    /\ calls = [c \in QueueCalls |-> "none"]
    /\ shutdown = "serving"
    /\ interrupted = None
    /\ stopRecord = {}
    /\ evidence = None
    /\ exited = {}
    /\ runs = [m \in Missions |-> 0]

-----------------------------------------------------------------------------
Serving == shutdown = "serving"
ShuttingDown == shutdown # "serving"          \* this.shuttingDown

\* A mission whose preparation or executor process is outstanding.
Running(m) == phase[m] \in {"prepare", "execute"}

\* The child of a preview: neither tracked as activeChild nor registered.
Previewing(o) == o \in Missions /\ phase[o] = "revalidate"

\* An owner whose foreground child has not delivered its close event.
OwnedChild(o) ==
    \/ o \in Missions /\ phase[o] \in {"prepare", "execute", "respond"}
    \/ o \in QueueCalls /\ calls[o] = "running"

\* An owner with a process of any kind.
HasChild(o) == OwnedChild(o) \/ Previewing(o)

\* #spawnOwned: refused at shutdown, and it overwrites the tracked child.
SpawnAnytime(o) == child' = o          \* mutant: not refused
Spawn(o) == Serving /\ child' = o

\* finish(): only the tracked child clears the handle.
ChildFinished(o) == child' = IF child = o THEN None ELSE child

\* The finally of submit(): whichever submission settles clears the active
\* mission once that mission is terminal.
ReleasedAlways(a, t) == None           \* mutant: terminal or not
Released(a, t) == IF a = None THEN None ELSE IF t[a] THEN None ELSE a

\* The active record shutdown() interrupts.
Interruptible == IF active = None THEN FALSE ELSE ~terminal[active]

\* interruptionPending: the record an interruption is written for.
InterruptedAlways == {interrupted}     \* mutant: without the pending flag
InterruptedRecord == {interrupted} \ {None}

\* The mission that answers an identical submission without a new run.
NeverCompleted(s) == FALSE             \* mutant: completedBindings not kept
CompletedMission(s) ==
    LET m == completed[ReplayKey[s]] IN IF m = None THEN FALSE ELSE terminal[m]

\* A first run started by submit(): the only run whose errors are caught.
FreshSubmission(m) == m \in Submissions /\ revision[m] = 1

\* The coroutine that runs mission m ends with the given state, terminal flag
\* and owner evidence: the tail of #submitNew and submit() for a first run,
\* the finally blocks of #respondNew and retryInterrupted for the others.
EndRun(m, newState, isTerminal, shown) ==
    /\ phase' = [phase EXCEPT ![m] = "idle"]
    /\ state' = [state EXCEPT ![m] = newState]
    /\ terminal' = [terminal EXCEPT ![m] = isTerminal]
    /\ evidence' = IF isTerminal THEN None ELSE shown
    /\ \/ /\ FreshSubmission(m)
          /\ submission' = [submission EXCEPT ![m] = "settled"]
          /\ completed' = [completed EXCEPT ![ReplayKey[m]] = m]
          /\ active' = Released(active, [terminal EXCEPT ![m] = isTerminal])
       \/ /\ ~FreshSubmission(m)
          /\ active' = IF isTerminal /\ active = m THEN None ELSE active
          /\ UNCHANGED callVars
    /\ UNCHANGED <<revision, calls, runs>>

\* #prepareAndExecute or #applyOutcome throws.  #submitNew catches it; the
\* other callers leave the record as it is, terminal only after a shutdown.
RunThrowsUncaught(m, lastState, shown) ==       \* mutant: no catch
    EndRun(m, lastState, terminal[m], shown)
RunThrows(m, lastState, shown) ==
    EndRun(m,
           IF ~FreshSubmission(m) THEN lastState
           ELSE IF Serving THEN "FAILED" ELSE "INTERRUPTED",
           FreshSubmission(m) \/ terminal[m],
           shown)

-----------------------------------------------------------------------------
(* Submissions                                                             *)

\* The promise of submission s settles without a mission of its own.
SettleClearsOwner(s) ==                \* mutant: onMissionChange(null) as well
    /\ submission' = [submission EXCEPT ![s] = "settled"]
    /\ phase' = [phase EXCEPT ![s] = "idle"]
    /\ active' = Released(active, terminal)
    /\ evidence' = None
    /\ UNCHANGED <<recordVars, answerVars, stopVars, child, completed, calls,
                   runs>>
Settle(s) ==
    /\ submission' = [submission EXCEPT ![s] = "settled"]
    /\ phase' = [phase EXCEPT ![s] = "idle"]
    /\ active' = Released(active, terminal)
    /\ UNCHANGED <<recordVars, answerVars, stopVars, child, completed, calls,
                   evidence, runs>>

\* submit(): the stored preview is intact, the canonical preview is recomputed.
Submit(s) ==
    /\ submission[s] = "none"
    /\ Serving
    /\ submission' = [submission EXCEPT ![s] = "pending"]
    /\ phase' = [phase EXCEPT ![s] = "revalidate"]
    /\ UNCHANGED <<recordVars, answerVars, stopVars, active, child, completed,
                   calls, evidence, runs>>

\* A binding check fails, or the server is shutting down.
SubmitRefused(s) == submission[s] = "none" /\ Settle(s)

\* The recomputed preview fails, differs, or needs an operator decision.
RevalidationFails(s) == phase[s] = "revalidate" /\ Settle(s)

\* EXISTING_ACTIVE_MISSION or ONE_ACTIVE_MISSION_LIMIT, by the replay key.
FindsActiveMission(s) ==
    phase[s] = "revalidate" /\ active # None /\ Settle(s)

\* EXISTING_COMPLETED_MISSION
FindsCompletedMission(s) ==
    phase[s] = "revalidate" /\ active = None /\ CompletedMission(s) /\ Settle(s)

\* A new mission is recorded and its preparation process spawned.
CreateMission(s) ==
    /\ phase[s] = "revalidate"
    /\ active = None
    /\ ~CompletedMission(s)
    /\ Spawn(s)
    /\ active' = s
    /\ phase' = [phase EXCEPT ![s] = "prepare"]
    /\ state' = [state EXCEPT ![s] = "PREPARING"]
    /\ terminal' = [terminal EXCEPT ![s] = FALSE]
    /\ revision' = [revision EXCEPT ![s] = 1]
    /\ UNCHANGED <<callVars, answerVars, stopVars, calls, evidence, runs>>

\* The shutdown began while the preview was recomputed: the mission is
\* recorded, the spawn refused, and the record closed as interrupted.
CreateMissionAtShutdown(s) ==
    /\ phase[s] = "revalidate"
    /\ active = None
    /\ ~CompletedMission(s)
    /\ ShuttingDown
    /\ phase' = [phase EXCEPT ![s] = "idle"]
    /\ state' = [state EXCEPT ![s] = "INTERRUPTED"]
    /\ terminal' = [terminal EXCEPT ![s] = TRUE]
    /\ revision' = [revision EXCEPT ![s] = 1]
    /\ submission' = [submission EXCEPT ![s] = "settled"]
    /\ completed' = [completed EXCEPT ![ReplayKey[s]] = s]
    /\ evidence' = None
    /\ UNCHANGED <<answerVars, stopVars, active, child, calls, runs>>

-----------------------------------------------------------------------------
(* Retries of interrupted runs and missions rehydrated after a restart     *)

\* retryInterrupted(): a new mission, unless one is active or r was retried.
Retry(r) ==
    /\ active = None
    /\ state[r] = "NONE"
    /\ Spawn(r)
    /\ active' = r
    /\ phase' = [phase EXCEPT ![r] = "prepare"]
    /\ state' = [state EXCEPT ![r] = "PREPARING"]
    /\ revision' = [revision EXCEPT ![r] = 1]
    /\ UNCHANGED <<callVars, answerVars, stopVars, terminal, calls, evidence,
                   runs>>

\* loadReconciledTimRequired(): the request is projected, no run resumed.
LoadReconciled(q) ==
    /\ state[q] = "NONE"
    /\ state' = [state EXCEPT ![q] = "TIM_REQUIRED"]
    /\ terminal' = [terminal EXCEPT ![q] = TRUE]
    /\ revision' = [revision EXCEPT ![q] = 1]
    /\ request' = [request EXCEPT ![q] = 1]
    /\ UNCHANGED <<callVars, stopVars, phase, answered, answer, responded,
                   active, child, calls, evidence, runs>>

\* The evidence on disk is refused after the record has been created.
LoadReconciledFails(q) ==
    /\ state[q] = "NONE"
    /\ state' = [state EXCEPT ![q] = "RECONCILING"]
    /\ revision' = [revision EXCEPT ![q] = 1]
    /\ UNCHANGED <<callVars, answerVars, stopVars, terminal, phase, active,
                   child, calls, evidence, runs>>

-----------------------------------------------------------------------------
(* The canonical run: preparation process, executor process, outcome       *)

PrepareSucceeds(m) ==
    /\ phase[m] = "prepare"
    /\ Spawn(m)
    /\ phase' = [phase EXCEPT ![m] = "execute"]
    /\ state' = [state EXCEPT ![m] = "RUNNING"]
    /\ evidence' = m
    /\ runs' = [runs EXCEPT ![m] = @ + 1]
    /\ UNCHANGED <<callVars, answerVars, stopVars, terminal, revision, active,
                   calls>>

\* The executor is not spawned once a shutdown has begun.
PrepareSucceedsAtShutdown(m) ==
    /\ phase[m] = "prepare"
    /\ ShuttingDown
    /\ ChildFinished(m)
    /\ RunThrows(m, "RUNNING", m)
    /\ UNCHANGED <<answerVars, stopVars>>

\* Nonzero exit, timeout, output limit, or an unreadable preparation.
PrepareFails(m) ==
    /\ phase[m] = "prepare"
    /\ ChildFinished(m)
    /\ RunThrows(m, state[m], evidence)
    /\ UNCHANGED <<answerVars, stopVars>>

\* #applyOutcome: an admission receipt, a TIM_REQUIRED request, or neither.
OutcomeApplied(m, outcome) ==
    /\ phase[m] = "execute"
    /\ ChildFinished(m)
    /\ EndRun(m, outcome, TRUE, evidence)
    /\ request' = IF outcome = "TIM_REQUIRED"
                  THEN [request EXCEPT ![m] = revision[m]] ELSE request
    /\ UNCHANGED <<answered, answer, responded, stopVars>>

\* Timeout, output limit, or artifacts of another identity.
ExecuteFails(m) ==
    /\ phase[m] = "execute"
    /\ ChildFinished(m)
    /\ RunThrows(m, state[m], evidence)
    /\ UNCHANGED <<answerVars, stopVars>>

-----------------------------------------------------------------------------
(* Answers to TIM_REQUIRED requests                                        *)

\* respond(): the binding of the open request, and no response accepted yet.
MayAnswerAgain(m) == request[m] # 0    \* mutant: acceptedResponse not checked
MayAnswer(m) == request[m] # 0 /\ answered[m] = 0

\* The response is accepted before #respondNew has done anything.
Accept(m, t) ==
    /\ MayAnswer(m)
    /\ answered' = [answered EXCEPT ![m] = request[m]]
    /\ answer' = [answer EXCEPT ![m] = t]

\* SERVER_SHUTTING_DOWN or FOREGROUND_CHILD_STILL_ACTIVE
RespondRefused(m, t) ==
    /\ Accept(m, t)
    /\ ShuttingDown \/ child # None
    /\ UNCHANGED <<callVars, recordVars, stopVars, phase, request, responded,
                   active, child, calls, evidence, runs>>

\* The canonical response wrapper is spawned.
Respond(m, t) ==
    /\ Accept(m, t)
    /\ child = None
    /\ Spawn(m)
    /\ phase' = [phase EXCEPT ![m] = "respond"]
    /\ UNCHANGED <<callVars, recordVars, stopVars, request, responded, active,
                   calls, evidence, runs>>

\* The wrapper fails, its outcome does not bind this response, or the outcome
\* is recorded before its denial or revision link turns out invalid.
ResponseRejected(m) ==
    /\ phase[m] = "respond"
    /\ ChildFinished(m)
    /\ phase' = [phase EXCEPT ![m] = "idle"]
    /\ responded' \in {responded, responded \cup {m}}
    /\ UNCHANGED <<callVars, recordVars, request, answered, answer, stopVars,
                   active, calls, evidence, runs>>

ResponseDenied(m) ==
    /\ phase[m] = "respond"
    /\ answer[m] = "DENY_REQUEST"
    /\ ChildFinished(m)
    /\ phase' = [phase EXCEPT ![m] = "idle"]
    /\ state' = [state EXCEPT ![m] = "TIM_REQUIRED_DENIED"]
    /\ terminal' = [terminal EXCEPT ![m] = TRUE]
    /\ responded' = responded \cup {m}
    /\ UNCHANGED <<callVars, stopVars, revision, request, answered, answer,
                   active, calls, evidence, runs>>

\* A revision is prepared.  Nothing checks whether a mission became active
\* while the wrapper ran.
ResponseRevises(m) ==
    /\ phase[m] = "respond"
    /\ answer[m] # "DENY_REQUEST"
    /\ Spawn(m)
    /\ phase' = [phase EXCEPT ![m] = "prepare"]
    /\ state' = [state EXCEPT ![m] = "REVISING"]
    /\ terminal' = [terminal EXCEPT ![m] = FALSE]
    /\ revision' = [revision EXCEPT ![m] = @ + 1]
    /\ active' = m
    /\ responded' = responded \cup {m}
    /\ UNCHANGED <<callVars, stopVars, request, answered, answer, calls,
                   evidence, runs>>

\* A shutdown began while the wrapper ran: the spawn throws and the record
\* stays active and open.
ResponseRevisesAtShutdown(m) ==
    /\ phase[m] = "respond"
    /\ answer[m] # "DENY_REQUEST"
    /\ ShuttingDown
    /\ ChildFinished(m)
    /\ phase' = [phase EXCEPT ![m] = "idle"]
    /\ state' = [state EXCEPT ![m] = "REVISING"]
    /\ terminal' = [terminal EXCEPT ![m] = FALSE]
    /\ revision' = [revision EXCEPT ![m] = @ + 1]
    /\ active' = m
    /\ responded' = responded \cup {m}
    /\ UNCHANGED <<callVars, stopVars, request, answered, answer, calls,
                   evidence, runs>>

-----------------------------------------------------------------------------
(* Queue reconciliation from a canonical receipt: a child of its own       *)

ReconcileQueue(c) ==
    /\ calls[c] = "none"
    /\ Spawn(c)
    /\ calls' = [calls EXCEPT ![c] = "running"]
    /\ UNCHANGED <<callVars, recordVars, answerVars, stopVars, phase, active,
                   evidence, runs>>

QueueCallCloses(c) ==
    /\ calls[c] = "running"
    /\ ChildFinished(c)
    /\ calls' = [calls EXCEPT ![c] = "closed"]
    /\ UNCHANGED <<callVars, recordVars, answerVars, stopVars, phase, active,
                   evidence, runs>>

-----------------------------------------------------------------------------
(* shutdown()                                                              *)

ShutdownBegins ==
    /\ Serving
    /\ shutdown' = "cleaning"
    /\ \/ /\ Interruptible
          /\ interrupted' = active
          /\ state' = [state EXCEPT ![active] = "INTERRUPTED"]
          /\ terminal' = [terminal EXCEPT ![active] = TRUE]
       \/ /\ ~Interruptible
          /\ UNCHANGED <<interrupted, state, terminal>>
    /\ UNCHANGED <<callVars, answerVars, phase, revision, active, child, calls,
                   stopRecord, evidence, exited, runs>>

\* terminateOwnedChild() saw every registered process gone; it knows no other.
CleanupConfirms ==
    /\ shutdown = "cleaning"
    /\ shutdown' = "confirming"
    /\ exited' = {o \in Owners : OwnedChild(o)}
    /\ UNCHANGED <<callVars, recordVars, answerVars, phase, active, child,
                   calls, interrupted, stopRecord, evidence, runs>>

CleanupFails ==
    /\ shutdown = "cleaning"
    /\ shutdown' = "failed"
    /\ UNCHANGED <<callVars, recordVars, answerVars, phase, active, child,
                   calls, interrupted, stopRecord, evidence, exited, runs>>

\* The awaited child closed (or 15 seconds passed) and none is tracked.  The
\* interruption record is written for the record interrupted at the start; a
\* failure to write it is only noted on the record.
ShutdownStops ==
    /\ shutdown = "confirming"
    /\ child = None
    /\ shutdown' = "stopped"
    /\ stopRecord' \in {stopRecord, stopRecord \cup InterruptedRecord}
    /\ evidence' = None
    /\ UNCHANGED <<callVars, recordVars, answerVars, phase, active, child,
                   calls, interrupted, exited, runs>>

\* OWNED_CHILD_CLOSE_CONFIRMATION_TIMEOUT
ShutdownUnconfirmed ==
    /\ shutdown = "confirming"
    /\ child # None
    /\ shutdown' = "failed"
    /\ UNCHANGED <<callVars, recordVars, answerVars, phase, active, child,
                   calls, interrupted, stopRecord, evidence, exited, runs>>

-----------------------------------------------------------------------------
RevalidatedWhileServing(s) ==          \* mutant: abandoned at a shutdown
    Serving /\ (RevalidationFails(s) \/ FindsActiveMission(s)
                \/ FindsCompletedMission(s) \/ CreateMission(s))
Revalidated(s) ==
    \/ RevalidationFails(s)
    \/ FindsActiveMission(s)
    \/ FindsCompletedMission(s)
    \/ CreateMission(s)
    \/ CreateMissionAtShutdown(s)

ChildCloses(m) ==
    \/ PrepareSucceeds(m)
    \/ PrepareSucceedsAtShutdown(m)
    \/ PrepareFails(m)
    \/ \E outcome \in Outcomes : OutcomeApplied(m, outcome)
    \/ ExecuteFails(m)
    \/ ResponseRejected(m)
    \/ ResponseDenied(m)
    \/ ResponseRevises(m)
    \/ ResponseRevisesAtShutdown(m)

ShutdownProceeds ==
    \/ CleanupConfirms
    \/ CleanupFails
    \/ ShutdownStops
    \/ ShutdownUnconfirmed

Next ==
    \/ \E s \in Submissions : Submit(s) \/ SubmitRefused(s) \/ Revalidated(s)
    \/ \E r \in Retries : Retry(r)
    \/ \E q \in Reconciled : LoadReconciled(q) \/ LoadReconciledFails(q)
    \/ \E m \in Missions : ChildCloses(m)
    \/ \E m \in Missions, t \in Responses : Respond(m, t) \/ RespondRefused(m, t)
    \/ \E c \in QueueCalls : ReconcileQueue(c) \/ QueueCallCloses(c)
    \/ ShutdownBegins
    \/ ShutdownProceeds

Spec == Init /\ [][Next]_vars

\* Operators need never act.  Every preview call, every child process and
\* every stage of the shutdown is bounded by a timeout in the code.
Fairness ==
    /\ \A s \in Submissions : WF_vars(Revalidated(s))
    /\ \A m \in Missions : WF_vars(ChildCloses(m))
    /\ \A c \in QueueCalls : WF_vars(QueueCallCloses(c))
    /\ WF_vars(ShutdownProceeds)

FairSpec == Spec /\ Fairness

-----------------------------------------------------------------------------
(* Safety                                                                  *)

\* No answer to a TIM_REQUIRED request has been turned into a revision.
NoRevision == \A m \in Missions : revision[m] <= 1

\* Submissions and retries alone never run two missions at once, whatever
\* interleaving of preview calls, child exits, refusals and shutdown.
ExclusiveRun ==
    NoRevision => \A m, n \in Missions : Running(m) /\ Running(n) => m = n

\* Without revisions, two submissions of the same request (previewed twice,
\* double-clicked, repeated after the end) never both start an executor.
RequestRunsOnce ==
    NoRevision =>
        \A s, t \in Submissions :
            /\ ReplayKey[s] = ReplayKey[t]
            /\ runs[s] > 0
            /\ runs[t] > 0
            => s = t

\* A mission starts one executor, and one more only for a recorded approval:
\* repeated, late or refused answers never start another.
RunsAreAuthorized ==
    \A m \in Missions :
        runs[m] <= IF m \in responded /\ answer[m] # "DENY_REQUEST" THEN 2 ELSE 1

\* While the server serves and no revision exists, the owner record names the
\* mission whose executor runs; the Doctor reads it to tell a running mission
\* from an interrupted one.
EvidenceTracksRun ==
    NoRevision /\ Serving =>
        \A m \in Missions : phase[m] = "execute" => evidence = m

\* A shutdown that reports success leaves at most previews behind, although
\* calls keep arriving while it waits: whatever else has a process started it
\* before the cleanup, which saw it gone.  The PowerShell child of a preview is
\* not registered (server.mjs, 456), and a stop may leave it.
StopLeavesOnlyPreviews ==
    shutdown = "stopped" =>
        \A o \in Owners : HasChild(o) => o \in exited \/ Previewing(o)

\* An admission, rejection, denial or failure is the last word on a mission,
\* also for a shutdown, a late child or another answer.
Verdicts == {"ADMITTED", "REJECTED", "TIM_REQUIRED_DENIED", "FAILED"}
VerdictsAreFinal ==
    [][\A m \in Missions : state[m] \in Verdicts => state'[m] = state[m]]_vars

-----------------------------------------------------------------------------
(* Liveness                                                                *)

\* Every accepted submission gets an answer, also during a shutdown.
SubmissionsSettle ==
    \A s \in Submissions : submission[s] = "pending" ~> submission[s] = "settled"

\* The first run of a submission gives the foreground back.
FirstRunsRelease ==
    \A s \in Submissions :
        active = s /\ revision[s] = 1 ~> active # s \/ revision[s] # 1

-----------------------------------------------------------------------------
(* The foreground slot the registry projection promises, held from the     *)
(* preparation of a mission to its outcome.                                *)

SlotHolder ==
    IF \E m \in Missions : Running(m)
    THEN CHOOSE m \in Missions : Running(m) ELSE None

SlotOver == {m \in Missions : revision[m] > 0 /\ ~Running(m)}

Slot == INSTANCE ForegroundSlot WITH holder <- SlotHolder, over <- SlotOver

\* Unless an answer starts a revision, the relay implements the slot.
ImplementsSlot == Slot!SlotSpec

-----------------------------------------------------------------------------
(* A claim of the documentation that the code does not keep                *)

\* docs: "no shell, no detached child, one active mission".
OneActiveMission == \A m, n \in Missions : Running(m) /\ Running(n) => m = n
=============================================================================
