------------------------ MODULE HqMissionRelayProofs ------------------------
(***************************************************************************)
(* Proofs about HqMissionRelay, for every set of submissions, retries,     *)
(* reconciled missions, queue calls, answers and replay keys.              *)
(***************************************************************************)
EXTENDS HqMissionRelay, TLAPS

ParamTypes ==
    /\ None \notin Owners
    /\ Missions \subseteq Owners
    /\ Submissions \subseteq Missions
    /\ ReplayKey \in [Submissions -> Keys]
    /\ Responses \subseteq ResponseTypes

LEMMA Params == ParamTypes
BY RelayAssumption DEF ParamTypes, Owners, Missions

(***************************************************************************)
(* Type correctness                                                        *)
(***************************************************************************)

LEMMA InitTypeOK == Init => TypeOK
BY Params DEF Init, TypeOK, ParamTypes, Phases, States, Outcomes

LEMMA SettleTypeOK ==
    ASSUME TypeOK, NEW s \in Submissions, Settle(s) PROVE TypeOK'
BY Params DEF TypeOK, ParamTypes, Settle, Released, recordVars, answerVars,
   stopVars, Phases

LEMMA EndRunTypeOK ==
    ASSUME TypeOK, NEW m \in Missions,
           NEW newState \in States, NEW isTerminal \in BOOLEAN,
           NEW shown \in Missions \cup {None},
           EndRun(m, newState, isTerminal, shown), ChildFinished(m),
           request' \in [Missions -> Nat],
           UNCHANGED <<answered, answer, responded, stopVars>>
    PROVE  TypeOK'
<1>1. completed' \in [Keys -> Submissions \cup {None}]
  BY Params DEF TypeOK, ParamTypes, EndRun, FreshSubmission, callVars
<1>2. submission' \in [Submissions -> {"none", "pending", "settled"}]
  BY Params DEF TypeOK, ParamTypes, EndRun, FreshSubmission, callVars
<1>3. active' \in Missions \cup {None}
  BY Params DEF TypeOK, ParamTypes, EndRun, FreshSubmission, Released
<1>4. /\ phase' \in [Missions -> Phases]
      /\ state' \in [Missions -> States]
      /\ terminal' \in [Missions -> BOOLEAN]
      /\ evidence' \in Missions \cup {None}
      /\ revision' \in [Missions -> Nat]
      /\ runs' \in [Missions -> Nat]
      /\ calls' \in [QueueCalls -> {"none", "running", "closed"}]
  BY DEF TypeOK, EndRun, Phases
<1>5. child' \in Owners \cup {None}
  BY DEF TypeOK, ChildFinished
<1> QED BY <1>1, <1>2, <1>3, <1>4, <1>5 DEF TypeOK, stopVars

LEMMA RunThrowsTypeOK ==
    ASSUME TypeOK, NEW m \in Missions, NEW lastState \in States,
           NEW shown \in Missions \cup {None},
           RunThrows(m, lastState, shown), ChildFinished(m),
           UNCHANGED <<answerVars, stopVars>>
    PROVE  TypeOK'
<1> DEFINE newState == IF ~FreshSubmission(m) THEN lastState
                       ELSE IF Serving THEN "FAILED" ELSE "INTERRUPTED"
           isTerminal == FreshSubmission(m) \/ terminal[m]
<1>1. newState \in States /\ isTerminal \in BOOLEAN
  BY DEF States, Outcomes, TypeOK
<1>2. EndRun(m, newState, isTerminal, shown)
  BY DEF RunThrows
<1>3. /\ request' \in [Missions -> Nat]
      /\ UNCHANGED <<answered, answer, responded, stopVars>>
  BY DEF TypeOK, answerVars
<1> HIDE DEF newState, isTerminal
<1> QED BY <1>1, <1>2, <1>3, EndRunTypeOK

LEMMA SubmissionTypeOK ==
    ASSUME TypeOK, NEW s \in Submissions,
           Submit(s) \/ SubmitRefused(s) \/ Revalidated(s)
    PROVE  TypeOK'
<1> USE Params DEF ParamTypes
<1>1. CASE Submit(s)
  BY <1>1 DEF TypeOK, Submit, recordVars, answerVars, stopVars, Phases
<1>2. CASE SubmitRefused(s) \/ RevalidationFails(s) \/ FindsActiveMission(s)
           \/ FindsCompletedMission(s)
  BY <1>2, SettleTypeOK DEF SubmitRefused, RevalidationFails,
     FindsActiveMission, FindsCompletedMission
<1>3. CASE CreateMission(s)
  BY <1>3 DEF TypeOK, CreateMission, Spawn, callVars, answerVars, stopVars,
     Phases, States
<1>4. CASE CreateMissionAtShutdown(s)
  BY <1>4 DEF TypeOK, CreateMissionAtShutdown, answerVars, stopVars, Phases,
     States
<1> QED BY <1>1, <1>2, <1>3, <1>4 DEF Revalidated

LEMMA RecoveryTypeOK ==
    ASSUME TypeOK,
           \/ \E r \in Retries : Retry(r)
           \/ \E q \in Reconciled : LoadReconciled(q) \/ LoadReconciledFails(q)
    PROVE  TypeOK'
<1> USE Params DEF ParamTypes
<1>1. CASE \E r \in Retries : Retry(r)
  <2>1. PICK r \in Retries : Retry(r)
    BY <1>1
  <2>2. r \in Missions
    BY DEF Missions
  <2> QED BY <2>1, <2>2 DEF TypeOK, Retry, Spawn, callVars, answerVars,
          stopVars, Phases, States
<1>2. CASE \E q \in Reconciled : LoadReconciled(q) \/ LoadReconciledFails(q)
  <2>1. PICK q \in Reconciled : LoadReconciled(q) \/ LoadReconciledFails(q)
    BY <1>2
  <2>2. q \in Missions
    BY DEF Missions
  <2>3. CASE LoadReconciled(q)
    BY <2>2, <2>3 DEF TypeOK, LoadReconciled, callVars, stopVars, States,
       Outcomes
  <2>4. CASE LoadReconciledFails(q)
    BY <2>2, <2>4 DEF TypeOK, LoadReconciledFails, callVars, answerVars,
       stopVars, States
  <2> QED BY <2>1, <2>3, <2>4
<1> QED BY <1>1, <1>2

LEMMA ChildTypeOK ==
    ASSUME TypeOK, NEW m \in Missions, ChildCloses(m)
    PROVE  TypeOK'
<1> USE Params DEF ParamTypes
<1>1. CASE PrepareSucceeds(m)
  BY <1>1 DEF TypeOK, PrepareSucceeds, Spawn, callVars, answerVars, stopVars,
     Phases, States
<1>2. CASE PrepareSucceedsAtShutdown(m)
  BY <1>2, RunThrowsTypeOK DEF PrepareSucceedsAtShutdown, States, Outcomes
<1>3. CASE PrepareFails(m) \/ ExecuteFails(m)
  <2>1. state[m] \in States /\ evidence \in Missions \cup {None}
    BY DEF TypeOK
  <2> QED BY <1>3, <2>1, RunThrowsTypeOK DEF PrepareFails, ExecuteFails
<1>4. CASE \E outcome \in Outcomes : OutcomeApplied(m, outcome)
  <2>1. PICK outcome \in Outcomes : OutcomeApplied(m, outcome)
    BY <1>4
  <2>2. outcome \in States /\ evidence \in Missions \cup {None}
    BY DEF States, TypeOK
  <2>3. request' \in [Missions -> Nat]
    BY <2>1 DEF TypeOK, OutcomeApplied
  <2> QED BY <2>1, <2>2, <2>3, EndRunTypeOK DEF OutcomeApplied
<1>5. CASE ResponseRejected(m)
  BY <1>5 DEF TypeOK, ResponseRejected, ChildFinished, callVars, recordVars,
     stopVars, Phases
<1>6. CASE ResponseDenied(m)
  BY <1>6 DEF TypeOK, ResponseDenied, ChildFinished, callVars, stopVars,
     Phases, States
<1>7. CASE ResponseRevises(m)
  BY <1>7 DEF TypeOK, ResponseRevises, Spawn, callVars, stopVars, Phases,
     States
<1>8. CASE ResponseRevisesAtShutdown(m)
  BY <1>8 DEF TypeOK, ResponseRevisesAtShutdown, ChildFinished, callVars,
     stopVars, Phases, States
<1> QED
  BY <1>1, <1>2, <1>3, <1>4, <1>5, <1>6, <1>7, <1>8 DEF ChildCloses

LEMMA AnswerTypeOK ==
    ASSUME TypeOK, NEW m \in Missions, NEW t \in Responses,
           Respond(m, t) \/ RespondRefused(m, t)
    PROVE  TypeOK'
BY Params DEF TypeOK, ParamTypes, Respond, RespondRefused, Accept, MayAnswer,
   Spawn, callVars, recordVars, stopVars, Phases

LEMMA QueueTypeOK ==
    ASSUME TypeOK, NEW c \in QueueCalls, ReconcileQueue(c) \/ QueueCallCloses(c)
    PROVE  TypeOK'
BY DEF TypeOK, ReconcileQueue, QueueCallCloses, Spawn, ChildFinished, Owners,
   callVars, recordVars, answerVars, stopVars

LEMMA ShutdownTypeOK ==
    ASSUME TypeOK, ShutdownBegins \/ ShutdownProceeds
    PROVE  TypeOK'
<1>1. CASE ShutdownBegins
  BY <1>1, Params DEF TypeOK, ParamTypes, ShutdownBegins, Interruptible,
     callVars, answerVars, States
<1>2. CASE ShutdownProceeds
  BY <1>2 DEF TypeOK, ShutdownProceeds, CleanupConfirms, CleanupFails,
     ShutdownStops, ShutdownUnconfirmed, InterruptedRecord, callVars,
     recordVars, answerVars
<1> QED BY <1>1, <1>2

LEMMA NextTypeOK == TypeOK /\ [Next]_vars => TypeOK'
<1> SUFFICES ASSUME TypeOK, [Next]_vars PROVE TypeOK'
  OBVIOUS
<1>1. CASE Next
  BY <1>1, SubmissionTypeOK, RecoveryTypeOK, ChildTypeOK, AnswerTypeOK,
     QueueTypeOK, ShutdownTypeOK DEF Next
<1>2. CASE UNCHANGED vars
  BY <1>2 DEF vars, TypeOK
<1> QED BY <1>1, <1>2

\* Every variable of the relay keeps its type, whatever calls arrive.
THEOREM TypeCorrect == Spec => []TypeOK
BY InitTypeOK, NextTypeOK, PTL DEF Spec

(***************************************************************************)
(* The inductive invariant                                                 *)
(***************************************************************************)

\* A mission has a record exactly when it has a revision; a submission gets
\* one only once its preview has been recomputed.
Recorded ==
    /\ \A m \in Missions :
        /\ state[m] = "NONE" <=> revision[m] = 0
        /\ Running(m) \/ phase[m] = "respond" => revision[m] # 0
        /\ phase[m] = "revalidate" =>
              m \in Submissions /\ submission[m] = "pending" /\ revision[m] = 0
        /\ revision[m] = 0 => request[m] = 0 /\ runs[m] = 0 /\ ~terminal[m]
    /\ \A s \in Submissions :
        submission[s] = "none" => phase[s] = "idle" /\ revision[s] = 0
    /\ active # None => revision[active] # 0

\* A request can be answered only while nothing runs for its mission, so a
\* response never gives a mission a second coroutine.
OneCoroutine ==
    \A m \in Missions :
        /\ request[m] # 0 /\ answered[m] = 0 =>
              phase[m] = "idle" /\ state[m] = "TIM_REQUIRED" /\ terminal[m]
        /\ phase[m] = "respond" =>
              /\ answered[m] # 0 /\ m \notin responded
              /\ state[m] = "TIM_REQUIRED" /\ terminal[m]
        /\ m \in responded => answered[m] # 0

\* The executors started, and the one a preparation is about to start, are
\* within what has been authorized.
RunBudget ==
    \A m \in Missions :
        runs[m] + (IF phase[m] = "prepare" THEN 1 ELSE 0)
          <= IF m \in responded /\ answer[m] # "DENY_REQUEST" THEN 2 ELSE 1

\* A mission with a verdict has ended.
VerdictsAreEnds ==
    \A m \in Missions :
        state[m] \in Verdicts => phase[m] = "idle" /\ terminal[m]

\* While the server serves, the mission that runs is the open active one.
ActiveRuns ==
    NoRevision /\ Serving =>
        \A m \in Missions : Running(m) => active = m /\ ~terminal[m]

\* A request that started an executor is running or answers its duplicates.
RanOnce ==
    NoRevision =>
        /\ \A s \in Submissions :
              runs[s] > 0 /\ ~Running(s) => CompletedMission(s)
        /\ \A s, t \in Submissions :
              /\ ReplayKey[s] = ReplayKey[t]
              /\ runs[s] > 0
              /\ Running(t) \/ runs[t] > 0
              => s = t

\* The owned processes that outlive the cleanup are those it saw gone.
CleanedUp ==
    shutdown \in {"confirming", "stopped"} =>
        \A o \in Owners : OwnedChild(o) => o \in exited

IInv ==
    /\ TypeOK
    /\ Recorded
    /\ OneCoroutine
    /\ RunBudget
    /\ VerdictsAreEnds
    /\ ActiveRuns
    /\ ExclusiveRun
    /\ EvidenceTracksRun
    /\ RanOnce
    /\ CleanedUp

LEMMA InitIInv == Init => IInv
<1> SUFFICES ASSUME Init PROVE IInv
  OBVIOUS
<1>1. TypeOK
  BY InitTypeOK
<1>2. Recorded /\ OneCoroutine /\ RunBudget /\ VerdictsAreEnds
  BY Params DEF Init, ParamTypes, Recorded, OneCoroutine, RunBudget,
     VerdictsAreEnds, Verdicts, Running
<1>3. ActiveRuns /\ ExclusiveRun /\ EvidenceTracksRun
  BY DEF Init, ActiveRuns, ExclusiveRun, EvidenceTracksRun, Running
<1>4. RanOnce /\ CleanedUp
  BY Params DEF Init, ParamTypes, RanOnce, CleanedUp, Running
<1> QED BY <1>1, <1>2, <1>3, <1>4 DEF IInv

\* What every end of a run has in common.
Ended(m) ==
    /\ Running(m)
    /\ ChildFinished(m)
    /\ \E newState \in States \ {"NONE"}, isTerminal \in BOOLEAN,
          shown \in Missions \cup {None} :
          /\ EndRun(m, newState, isTerminal, shown)
          /\ newState \in Verdicts => isTerminal
          /\ FreshSubmission(m) => isTerminal
          /\ \/ UNCHANGED request
             \/ /\ newState = "TIM_REQUIRED" /\ isTerminal
                /\ request' = [request EXCEPT ![m] = revision[m]]
    /\ UNCHANGED <<answered, answer, responded, stopVars>>

LEMMA RunEnds ==
    ASSUME TypeOK, Recorded, VerdictsAreEnds, NEW m \in Missions,
           \/ PrepareSucceedsAtShutdown(m)
           \/ PrepareFails(m)
           \/ \E outcome \in Outcomes : OutcomeApplied(m, outcome)
           \/ ExecuteFails(m)
    PROVE  Ended(m)
<1>1. state[m] \in States \ {"NONE"} /\ evidence \in Missions \cup {None}
  BY DEF TypeOK, Recorded, Running, PrepareSucceedsAtShutdown, PrepareFails,
     OutcomeApplied, ExecuteFails
<1>2. state[m] \notin Verdicts
  BY DEF VerdictsAreEnds, PrepareSucceedsAtShutdown, PrepareFails,
     OutcomeApplied, ExecuteFails
<1>3. ASSUME NEW lastState \in States \ {"NONE"}, lastState \notin Verdicts,
             NEW shown \in Missions \cup {None}, RunThrows(m, lastState, shown),
             Running(m), ChildFinished(m), UNCHANGED <<answerVars, stopVars>>
      PROVE  Ended(m)
  <2> DEFINE newState == IF ~FreshSubmission(m) THEN lastState
                         ELSE IF Serving THEN "FAILED" ELSE "INTERRUPTED"
             isTerminal == FreshSubmission(m) \/ terminal[m]
  <2>1. /\ newState \in States \ {"NONE"}
        /\ isTerminal \in BOOLEAN
        /\ newState \in Verdicts => isTerminal
        /\ FreshSubmission(m) => isTerminal
    BY <1>3 DEF States, TypeOK
  <2>2. EndRun(m, newState, isTerminal, shown)
    BY <1>3 DEF RunThrows
  <2>3. UNCHANGED request /\ UNCHANGED <<answered, answer, responded, stopVars>>
    BY <1>3 DEF answerVars
  <2> HIDE DEF newState, isTerminal
  <2> QED BY <1>3, <2>1, <2>2, <2>3 DEF Ended
<1>4. CASE PrepareSucceedsAtShutdown(m)
  <2>1. "RUNNING" \in States \ {"NONE"} /\ "RUNNING" \notin Verdicts
    BY DEF States, Verdicts
  <2> QED BY <1>3, <1>4, <2>1 DEF PrepareSucceedsAtShutdown, Running
<1>5. CASE PrepareFails(m) \/ ExecuteFails(m)
  BY <1>1, <1>2, <1>3, <1>5 DEF PrepareFails, ExecuteFails, Running
<1>6. CASE \E outcome \in Outcomes : OutcomeApplied(m, outcome)
  <2>1. PICK outcome \in Outcomes : OutcomeApplied(m, outcome)
    BY <1>6
  <2>2. outcome \in States \ {"NONE"}
    BY DEF States, Outcomes
  <2>3. /\ Running(m)
        /\ ChildFinished(m)
        /\ EndRun(m, outcome, TRUE, evidence)
        /\ UNCHANGED <<answered, answer, responded, stopVars>>
        /\ \/ UNCHANGED request
           \/ /\ outcome = "TIM_REQUIRED"
              /\ request' = [request EXCEPT ![m] = revision[m]]
    BY <2>1 DEF OutcomeApplied, Running
  <2> QED BY <1>1, <2>2, <2>3 DEF Ended
<1> QED BY <1>4, <1>5, <1>6

\* The kinds of steps that the proofs below tell apart.
LEMMA Steps ==
    ASSUME TypeOK, Recorded, VerdictsAreEnds, Next
    PROVE  \/ \E s \in Submissions :
                \/ /\ Submit(s) \/ Settle(s)
                   /\ phase[s] \in {"idle", "revalidate"}
                \/ CreateMission(s) \/ CreateMissionAtShutdown(s)
           \/ \E r \in Retries : Retry(r)
           \/ \E q \in Reconciled : LoadReconciled(q) \/ LoadReconciledFails(q)
           \/ \E m \in Missions :
                \/ PrepareSucceeds(m) \/ Ended(m)
                \/ ResponseRejected(m) \/ ResponseDenied(m)
                \/ ResponseRevises(m) \/ ResponseRevisesAtShutdown(m)
           \/ \E m \in Missions, t \in Responses : Respond(m, t) \/ RespondRefused(m, t)
           \/ \E c \in QueueCalls : ReconcileQueue(c) \/ QueueCallCloses(c)
           \/ ShutdownBegins
           \/ ShutdownProceeds
<1>1. \A s \in Submissions :
        Submit(s) \/ SubmitRefused(s) => phase[s] = "idle"
  BY DEF Submit, SubmitRefused, Recorded
<1> QED
  BY <1>1, RunEnds DEF Next, Revalidated, ChildCloses, SubmitRefused,
     RevalidationFails, FindsActiveMission, FindsCompletedMission

\* What the end of a run changes, and what it leaves alone.
LEMMA EndEffects ==
    ASSUME TypeOK, NEW m \in Missions, Ended(m)
    PROVE  /\ Running(m)
           /\ phase' = [phase EXCEPT ![m] = "idle"]
           /\ state'[m] \in States \ {"NONE"}
           /\ state'[m] \in Verdicts => terminal'[m]
           /\ \A n \in Missions : n # m =>
                state'[n] = state[n] /\ terminal'[n] = terminal[n]
           /\ UNCHANGED <<revision, runs, calls>>
           /\ UNCHANGED <<answered, answer, responded, stopVars>>
           /\ \/ request' = request
              \/ /\ state'[m] = "TIM_REQUIRED" /\ terminal'[m]
                 /\ request' = [request EXCEPT ![m] = revision[m]]
           /\ FreshSubmission(m) =>
                /\ terminal'[m]
                /\ submission' = [submission EXCEPT ![m] = "settled"]
                /\ completed' = [completed EXCEPT ![ReplayKey[m]] = m]
           /\ ~FreshSubmission(m) => UNCHANGED <<submission, completed>>
           /\ active' \in {None, active}
           /\ active # None /\ active # m /\ ~terminal[active] => active' = active
           /\ ChildFinished(m)
<1>1. PICK newState \in States \ {"NONE"}, isTerminal \in BOOLEAN,
           shown \in Missions \cup {None} :
          /\ EndRun(m, newState, isTerminal, shown)
          /\ newState \in Verdicts => isTerminal
          /\ FreshSubmission(m) => isTerminal
          /\ \/ UNCHANGED request
             \/ /\ newState = "TIM_REQUIRED" /\ isTerminal
                /\ request' = [request EXCEPT ![m] = revision[m]]
  BY DEF Ended
<1>2. /\ state' = [state EXCEPT ![m] = newState]
      /\ terminal' = [terminal EXCEPT ![m] = isTerminal]
      /\ phase' = [phase EXCEPT ![m] = "idle"]
      /\ UNCHANGED <<revision, calls, runs>>
  BY <1>1 DEF EndRun
<1>3. /\ state'[m] = newState
      /\ terminal'[m] = isTerminal
      /\ \A n \in Missions : n # m =>
            state'[n] = state[n] /\ terminal'[n] = terminal[n]
  BY <1>2 DEF TypeOK
<1>4. FreshSubmission(m) =>
        /\ terminal'[m]
        /\ submission' = [submission EXCEPT ![m] = "settled"]
        /\ completed' = [completed EXCEPT ![ReplayKey[m]] = m]
        /\ active' = Released(active, terminal')
  BY <1>1, <1>2, <1>3 DEF EndRun
<1>5. ~FreshSubmission(m) =>
        /\ UNCHANGED <<submission, completed>>
        /\ active' = IF isTerminal /\ active = m THEN None ELSE active
  BY <1>1 DEF EndRun, callVars
<1>6. active' \in {None, active}
  BY <1>4, <1>5 DEF Released
<1>7. active # None /\ active # m /\ ~terminal[active] => active' = active
  BY <1>3, <1>4, <1>5 DEF Released, TypeOK
<1>8. /\ state'[m] \in States \ {"NONE"}
      /\ state'[m] \in Verdicts => terminal'[m]
      /\ \/ request' = request
         \/ /\ state'[m] = "TIM_REQUIRED" /\ terminal'[m]
            /\ request' = [request EXCEPT ![m] = revision[m]]
  BY <1>1, <1>3
<1>9. Running(m) /\ ChildFinished(m)
  BY DEF Ended
<1>10. UNCHANGED <<answered, answer, responded, stopVars>>
  BY DEF Ended
<1>11. UNCHANGED <<revision, runs, calls>>
  BY <1>2
<1> QED BY <1>2, <1>3, <1>4, <1>5, <1>6, <1>7, <1>8, <1>9, <1>10,
   <1>11

LEMMA RecordedStep ==
    ASSUME TypeOK, Recorded, VerdictsAreEnds, Next PROVE Recorded'
<1> USE Params DEF ParamTypes, Recorded, TypeOK, Running
<1>1. ASSUME NEW s \in Submissions, Submit(s) \/ Settle(s) PROVE Recorded'
  BY <1>1 DEF Submit, Settle, Released, recordVars, answerVars
<1>2. ASSUME NEW s \in Submissions,
             CreateMission(s) \/ CreateMissionAtShutdown(s)
      PROVE  Recorded'
  <2>1. \A m \in Missions : m # s =>
          /\ phase'[m] = phase[m] /\ state'[m] = state[m]
          /\ terminal'[m] = terminal[m] /\ revision'[m] = revision[m]
    BY <1>2 DEF CreateMission, CreateMissionAtShutdown
  <2>2. /\ phase'[s] \in {"prepare", "idle"}
        /\ state'[s] \in {"PREPARING", "INTERRUPTED"}
        /\ revision'[s] = 1
        /\ \A t \in Submissions : submission'[t] = "none" => submission[t] = "none"
        /\ submission[s] # "none"
        /\ \A t \in Submissions : t # s => submission'[t] = submission[t]
        /\ submission'[s] # "none"
        /\ active' \in {active, s}
    BY <1>2 DEF CreateMission, CreateMissionAtShutdown, callVars
  <2>3. UNCHANGED <<request, runs>>
    BY <1>2 DEF CreateMission, CreateMissionAtShutdown, answerVars
  <2> QED BY <2>1, <2>2, <2>3
<1>3. ASSUME NEW r \in Retries, Retry(r) PROVE Recorded'
  <2>1. r \in Missions /\ r \notin Submissions
    BY RelayAssumption DEF Missions
  <2>2. \A m \in Missions : m # r =>
          phase'[m] = phase[m] /\ state'[m] = state[m] /\ revision'[m] = revision[m]
    BY <1>3 DEF Retry
  <2>3. phase'[r] = "prepare" /\ state'[r] = "PREPARING" /\ revision'[r] = 1
    BY <1>3, <2>1 DEF Retry
  <2>4. UNCHANGED <<submission, terminal, request, runs>> /\ active' = r
    BY <1>3 DEF Retry, callVars, answerVars
  <2> QED BY <2>1, <2>2, <2>3, <2>4
<1>4. ASSUME NEW q \in Reconciled, LoadReconciled(q) \/ LoadReconciledFails(q)
      PROVE  Recorded'
  <2>1. q \in Missions /\ q \notin Submissions
    BY RelayAssumption DEF Missions
  <2>2. \A m \in Missions : m # q =>
          /\ state'[m] = state[m] /\ revision'[m] = revision[m]
          /\ terminal'[m] = terminal[m] /\ request'[m] = request[m]
    BY <1>4 DEF LoadReconciled, LoadReconciledFails, answerVars
  <2>3. state[q] = "NONE" /\ state'[q] # "NONE" /\ revision'[q] = 1
    BY <1>4, <2>1 DEF LoadReconciled, LoadReconciledFails
  <2>4. UNCHANGED <<submission, phase, active, runs>>
    BY <1>4 DEF LoadReconciled, LoadReconciledFails, callVars
  <2> QED BY <2>1, <2>2, <2>3, <2>4
<1>5. ASSUME NEW m \in Missions, PrepareSucceeds(m) PROVE Recorded'
  BY <1>5 DEF PrepareSucceeds, callVars, answerVars
<1>6. ASSUME NEW m \in Missions, Ended(m) PROVE Recorded'
  <2>1. /\ revision[m] # 0
        /\ UNCHANGED <<revision, runs>>
        /\ phase' = [phase EXCEPT ![m] = "idle"]
        /\ state'[m] # "NONE"
        /\ \A n \in Missions : n # m =>
              /\ state'[n] = state[n] /\ terminal'[n] = terminal[n]
              /\ request'[n] = request[n]
        /\ active' \in {None, active}
    BY <1>6, EndEffects
  <2>2. submission' = submission \/ submission' = [submission EXCEPT ![m] = "settled"]
    BY <1>6, EndEffects
  <2> QED BY <2>1, <2>2
<1>7. ASSUME NEW m \in Missions, ResponseRejected(m) \/ ResponseDenied(m)
      PROVE  Recorded'
  BY <1>7 DEF ResponseRejected, ResponseDenied, callVars, recordVars
<1>8. ASSUME NEW m \in Missions,
             ResponseRevises(m) \/ ResponseRevisesAtShutdown(m)
      PROVE  Recorded'
  BY <1>8 DEF ResponseRevises, ResponseRevisesAtShutdown, callVars
<1>9. ASSUME NEW m \in Missions, NEW t \in Responses,
             Respond(m, t) \/ RespondRefused(m, t)
      PROVE  Recorded'
  <2>1. request[m] # 0 /\ phase'[m] \in {phase[m], "respond"}
    BY <1>9 DEF Respond, RespondRefused, Accept, MayAnswer
  <2>2. \A n \in Missions : n # m => phase'[n] = phase[n]
    BY <1>9 DEF Respond, RespondRefused
  <2>3. UNCHANGED <<submission, state, terminal, revision, request, active, runs>>
    BY <1>9 DEF Respond, RespondRefused, callVars, recordVars
  <2> QED BY <2>1, <2>2, <2>3
<1>10. ASSUME NEW c \in QueueCalls, ReconcileQueue(c) \/ QueueCallCloses(c)
       PROVE  Recorded'
  BY <1>10 DEF ReconcileQueue, QueueCallCloses, callVars, recordVars, answerVars
<1>11. ASSUME ShutdownBegins PROVE Recorded'
  BY <1>11 DEF ShutdownBegins, Interruptible, callVars, answerVars
<1>12. ASSUME ShutdownProceeds PROVE Recorded'
  BY <1>12 DEF ShutdownProceeds, CleanupConfirms, CleanupFails, ShutdownStops,
     ShutdownUnconfirmed, callVars, recordVars, answerVars
<1> HIDE DEF Recorded, TypeOK, Running
<1> QED
  BY Steps, <1>1, <1>2, <1>3, <1>4, <1>5, <1>6, <1>7, <1>8, <1>9, <1>10,
     <1>11, <1>12

LEMMA OneCoroutineStep ==
    ASSUME TypeOK, Recorded, OneCoroutine, VerdictsAreEnds, Next
    PROVE  OneCoroutine'
<1> USE Params DEF ParamTypes, OneCoroutine, TypeOK
<1>1. ASSUME NEW s \in Submissions, Submit(s) PROVE OneCoroutine'
  BY <1>1 DEF Submit, Recorded, recordVars, answerVars
<1>2. ASSUME NEW s \in Submissions, Settle(s) PROVE OneCoroutine'
  BY <1>2 DEF Settle, recordVars, answerVars
<1>3. ASSUME NEW s \in Submissions,
             CreateMission(s) \/ CreateMissionAtShutdown(s)
      PROVE  OneCoroutine'
  <2>1. request[s] = 0 /\ phase'[s] \in {"prepare", "idle"}
    BY <1>3 DEF CreateMission, CreateMissionAtShutdown, Recorded
  <2>2. \A m \in Missions : m # s =>
          /\ phase'[m] = phase[m] /\ state'[m] = state[m]
          /\ terminal'[m] = terminal[m]
    BY <1>3 DEF CreateMission, CreateMissionAtShutdown
  <2>3. UNCHANGED <<request, answered, responded>>
    BY <1>3 DEF CreateMission, CreateMissionAtShutdown, answerVars
  <2> QED BY <2>1, <2>2, <2>3
<1>4. ASSUME NEW r \in Retries, Retry(r) PROVE OneCoroutine'
  BY <1>4 DEF Retry, Recorded, Missions, answerVars
<1>5. ASSUME NEW q \in Reconciled, LoadReconciled(q) \/ LoadReconciledFails(q)
      PROVE  OneCoroutine'
  <2>1. /\ q \in Missions
        /\ phase[q] = "idle"
        /\ request[q] = 0
    BY <1>5, RelayAssumption DEF LoadReconciled, LoadReconciledFails, Recorded,
       Missions, Running, Phases
  <2>2. \A m \in Missions : m # q =>
          /\ state'[m] = state[m] /\ request'[m] = request[m]
          /\ terminal'[m] = terminal[m]
    BY <1>5 DEF LoadReconciled, LoadReconciledFails, answerVars
  <2>3. request'[q] # 0 => state'[q] = "TIM_REQUIRED" /\ terminal'[q]
    BY <1>5, <2>1 DEF LoadReconciled, LoadReconciledFails, answerVars
  <2>4. UNCHANGED <<phase, answered, responded>>
    BY <1>5 DEF LoadReconciled, LoadReconciledFails, answerVars
  <2> QED BY <2>1, <2>2, <2>3, <2>4
<1>6. ASSUME NEW m \in Missions, PrepareSucceeds(m) PROVE OneCoroutine'
  BY <1>6 DEF PrepareSucceeds, answerVars
<1>7. ASSUME NEW m \in Missions, Ended(m) PROVE OneCoroutine'
  <2>1. /\ Running(m)
        /\ phase' = [phase EXCEPT ![m] = "idle"]
        /\ \A n \in Missions : n # m =>
              state'[n] = state[n] /\ terminal'[n] = terminal[n]
        /\ UNCHANGED <<answered, responded>>
    BY <1>7, EndEffects
  <2>2. \/ request' = request
        \/ /\ state'[m] = "TIM_REQUIRED" /\ terminal'[m]
           /\ request' = [request EXCEPT ![m] = revision[m]]
    BY <1>7, EndEffects
  <2> QED BY <2>1, <2>2 DEF Running
<1>8. ASSUME NEW m \in Missions, ResponseRejected(m) \/ ResponseDenied(m)
      PROVE  OneCoroutine'
  BY <1>8 DEF ResponseRejected, ResponseDenied, recordVars
<1>9. ASSUME NEW m \in Missions,
             ResponseRevises(m) \/ ResponseRevisesAtShutdown(m)
      PROVE  OneCoroutine'
  BY <1>9 DEF ResponseRevises, ResponseRevisesAtShutdown
<1>10. ASSUME NEW m \in Missions, NEW t \in Responses,
              Respond(m, t) \/ RespondRefused(m, t)
       PROVE  OneCoroutine'
  BY <1>10 DEF Respond, RespondRefused, Accept, MayAnswer, recordVars
<1>11. ASSUME NEW c \in QueueCalls, ReconcileQueue(c) \/ QueueCallCloses(c)
       PROVE  OneCoroutine'
  BY <1>11 DEF ReconcileQueue, QueueCallCloses, recordVars, answerVars
<1>12. ASSUME ShutdownBegins PROVE OneCoroutine'
  BY <1>12 DEF ShutdownBegins, Interruptible, answerVars
<1>13. ASSUME ShutdownProceeds PROVE OneCoroutine'
  BY <1>13 DEF ShutdownProceeds, CleanupConfirms, CleanupFails, ShutdownStops,
     ShutdownUnconfirmed, recordVars, answerVars
<1> HIDE DEF OneCoroutine, TypeOK
<1> QED
  BY Steps, <1>1, <1>2, <1>3, <1>4, <1>5, <1>6, <1>7, <1>8, <1>9, <1>10,
     <1>11, <1>12, <1>13

LEMMA VerdictsAreEndsStep ==
    ASSUME TypeOK, Recorded, OneCoroutine, VerdictsAreEnds, Next
    PROVE  VerdictsAreEnds'
<1> USE Params DEF ParamTypes, VerdictsAreEnds, TypeOK, Verdicts
<1>1. ASSUME NEW s \in Submissions, Submit(s) \/ Settle(s)
      PROVE  VerdictsAreEnds'
  BY <1>1 DEF Submit, Settle, Recorded, recordVars
<1>2. ASSUME NEW s \in Submissions,
             CreateMission(s) \/ CreateMissionAtShutdown(s)
      PROVE  VerdictsAreEnds'
  BY <1>2 DEF CreateMission, CreateMissionAtShutdown
<1>3. ASSUME NEW r \in Retries, Retry(r) PROVE VerdictsAreEnds'
  BY <1>3 DEF Retry, Missions
<1>4. ASSUME NEW q \in Reconciled, LoadReconciled(q) \/ LoadReconciledFails(q)
      PROVE  VerdictsAreEnds'
  <2>1. q \in Missions /\ state'[q] \in {"TIM_REQUIRED", "RECONCILING"}
    BY <1>4 DEF LoadReconciled, LoadReconciledFails, Missions
  <2>2. \A m \in Missions : m # q =>
          state'[m] = state[m] /\ terminal'[m] = terminal[m]
    BY <1>4 DEF LoadReconciled, LoadReconciledFails
  <2>3. UNCHANGED phase
    BY <1>4 DEF LoadReconciled, LoadReconciledFails
  <2> QED BY <2>1, <2>2, <2>3
<1>5. ASSUME NEW m \in Missions, PrepareSucceeds(m) PROVE VerdictsAreEnds'
  BY <1>5 DEF PrepareSucceeds
<1>6. ASSUME NEW m \in Missions, Ended(m) PROVE VerdictsAreEnds'
  <2>1. /\ phase' = [phase EXCEPT ![m] = "idle"]
        /\ state'[m] \in Verdicts => terminal'[m]
        /\ \A n \in Missions : n # m =>
              state'[n] = state[n] /\ terminal'[n] = terminal[n]
    BY <1>6, EndEffects
  <2> QED BY <2>1
<1>7. ASSUME NEW m \in Missions, ResponseRejected(m) \/ ResponseDenied(m)
      PROVE  VerdictsAreEnds'
  BY <1>7 DEF ResponseRejected, ResponseDenied, recordVars
<1>8. ASSUME NEW m \in Missions,
             ResponseRevises(m) \/ ResponseRevisesAtShutdown(m)
      PROVE  VerdictsAreEnds'
  BY <1>8 DEF ResponseRevises, ResponseRevisesAtShutdown
<1>9. ASSUME NEW m \in Missions, NEW t \in Responses,
             Respond(m, t) \/ RespondRefused(m, t)
      PROVE  VerdictsAreEnds'
  BY <1>9 DEF Respond, RespondRefused, Accept, MayAnswer, OneCoroutine,
     recordVars
<1>10. ASSUME NEW c \in QueueCalls, ReconcileQueue(c) \/ QueueCallCloses(c)
       PROVE  VerdictsAreEnds'
  BY <1>10 DEF ReconcileQueue, QueueCallCloses, recordVars
<1>11. ASSUME ShutdownBegins PROVE VerdictsAreEnds'
  BY <1>11 DEF ShutdownBegins, Interruptible
<1>12. ASSUME ShutdownProceeds PROVE VerdictsAreEnds'
  BY <1>12 DEF ShutdownProceeds, CleanupConfirms, CleanupFails, ShutdownStops,
     ShutdownUnconfirmed, recordVars
<1> HIDE DEF VerdictsAreEnds, TypeOK
<1> QED
  BY Steps, <1>1, <1>2, <1>3, <1>4, <1>5, <1>6, <1>7, <1>8, <1>9, <1>10,
     <1>11, <1>12

LEMMA RunBudgetStep ==
    ASSUME TypeOK, Recorded, OneCoroutine, VerdictsAreEnds, RunBudget, Next
    PROVE  RunBudget'
<1> USE Params DEF ParamTypes, RunBudget, TypeOK
<1>1. ASSUME NEW s \in Submissions, Submit(s) \/ Settle(s) PROVE RunBudget'
  BY <1>1 DEF Submit, Settle, answerVars
<1>2. ASSUME NEW s \in Submissions,
             CreateMission(s) \/ CreateMissionAtShutdown(s)
      PROVE  RunBudget'
  BY <1>2 DEF CreateMission, CreateMissionAtShutdown, Recorded, answerVars
<1>3. ASSUME NEW r \in Retries, Retry(r) PROVE RunBudget'
  BY <1>3 DEF Retry, Recorded, Missions, answerVars
<1>4. ASSUME NEW q \in Reconciled, LoadReconciled(q) \/ LoadReconciledFails(q)
      PROVE  RunBudget'
  BY <1>4 DEF LoadReconciled, LoadReconciledFails, answerVars
<1>5. ASSUME NEW m \in Missions, PrepareSucceeds(m) PROVE RunBudget'
  BY <1>5 DEF PrepareSucceeds, answerVars
<1>6. ASSUME NEW m \in Missions, Ended(m) PROVE RunBudget'
  <2>1. /\ phase' = [phase EXCEPT ![m] = "idle"]
        /\ UNCHANGED <<runs, answer, responded>>
    BY <1>6, EndEffects
  <2> QED BY <2>1
<1>7. ASSUME NEW m \in Missions, ResponseRejected(m) \/ ResponseDenied(m)
      PROVE  RunBudget'
  BY <1>7 DEF ResponseRejected, ResponseDenied
<1>8. ASSUME NEW m \in Missions,
             ResponseRevises(m) \/ ResponseRevisesAtShutdown(m)
      PROVE  RunBudget'
  BY <1>8 DEF ResponseRevises, ResponseRevisesAtShutdown, OneCoroutine
<1>9. ASSUME NEW m \in Missions, NEW t \in Responses,
             Respond(m, t) \/ RespondRefused(m, t)
      PROVE  RunBudget'
  BY <1>9 DEF Respond, RespondRefused, Accept, MayAnswer, OneCoroutine
<1>10. ASSUME NEW c \in QueueCalls, ReconcileQueue(c) \/ QueueCallCloses(c)
       PROVE  RunBudget'
  BY <1>10 DEF ReconcileQueue, QueueCallCloses, answerVars
<1>11. ASSUME ShutdownBegins \/ ShutdownProceeds PROVE RunBudget'
  BY <1>11 DEF ShutdownBegins, ShutdownProceeds, CleanupConfirms, CleanupFails,
     ShutdownStops, ShutdownUnconfirmed, answerVars
<1> HIDE DEF RunBudget, TypeOK
<1> QED
  BY Steps, <1>1, <1>2, <1>3, <1>4, <1>5, <1>6, <1>7, <1>8, <1>9, <1>10, <1>11

Foreground == ActiveRuns /\ ExclusiveRun /\ EvidenceTracksRun

\* Revisions are never taken back.
LEMMA RevisionsGrow ==
    ASSUME TypeOK, Recorded, VerdictsAreEnds, Next, NoRevision'
    PROVE  NoRevision
<1> USE Params DEF ParamTypes, TypeOK
<1>1. \A m \in Missions : revision'[m] \in {revision[m], revision[m] + 1}
  <2>1. ASSUME NEW m \in Missions, Ended(m) PROVE revision' = revision
    BY <2>1, EndEffects
  <2>2. ASSUME NEW s \in Submissions,
               \/ Submit(s) \/ Settle(s)
               \/ CreateMission(s) \/ CreateMissionAtShutdown(s)
        PROVE  \A m \in Missions : revision'[m] \in {revision[m], revision[m] + 1}
    BY <2>2 DEF Submit, Settle, CreateMission, CreateMissionAtShutdown, Recorded,
       recordVars
  <2>3. ASSUME NEW r \in Retries, Retry(r)
        PROVE  \A m \in Missions : revision'[m] \in {revision[m], revision[m] + 1}
    BY <2>3 DEF Retry, Recorded, Missions
  <2>4. ASSUME NEW q \in Reconciled, LoadReconciled(q) \/ LoadReconciledFails(q)
        PROVE  \A m \in Missions : revision'[m] \in {revision[m], revision[m] + 1}
    BY <2>4 DEF LoadReconciled, LoadReconciledFails, Recorded, Missions
  <2>5. ASSUME NEW m \in Missions,
               \/ PrepareSucceeds(m) \/ ResponseRejected(m) \/ ResponseDenied(m)
               \/ ResponseRevises(m) \/ ResponseRevisesAtShutdown(m)
        PROVE  \A n \in Missions : revision'[n] \in {revision[n], revision[n] + 1}
    BY <2>5 DEF PrepareSucceeds, ResponseRejected, ResponseDenied,
       ResponseRevises, ResponseRevisesAtShutdown, recordVars
  <2>6. ASSUME NEW m \in Missions, NEW t \in Responses,
               Respond(m, t) \/ RespondRefused(m, t)
        PROVE  revision' = revision
    BY <2>6 DEF Respond, RespondRefused, recordVars
  <2>7. ASSUME NEW c \in QueueCalls, ReconcileQueue(c) \/ QueueCallCloses(c)
        PROVE  revision' = revision
    BY <2>7 DEF ReconcileQueue, QueueCallCloses, recordVars
  <2>8. ASSUME ShutdownBegins \/ ShutdownProceeds PROVE revision' = revision
    BY <2>8 DEF ShutdownBegins, ShutdownProceeds, CleanupConfirms, CleanupFails,
       ShutdownStops, ShutdownUnconfirmed, recordVars
  <2> QED BY Steps, <2>1, <2>2, <2>3, <2>4, <2>5, <2>6, <2>7, <2>8
<1> QED BY <1>1 DEF NoRevision

LEMMA ForegroundStep ==
    ASSUME TypeOK, Recorded, OneCoroutine, VerdictsAreEnds, Foreground, Next
    PROVE  Foreground'
<1> SUFFICES ASSUME NoRevision' PROVE Foreground'
  BY DEF Foreground, ActiveRuns, ExclusiveRun, EvidenceTracksRun
<1> NoRevision
  BY RevisionsGrow
<1> USE Params DEF ParamTypes, Foreground, ActiveRuns, ExclusiveRun,
        EvidenceTracksRun, Running, Serving, TypeOK
<1>1. ASSUME NEW s \in Submissions, Submit(s) PROVE Foreground'
  BY <1>1 DEF Submit, Recorded, recordVars
<1>2. ASSUME NEW s \in Submissions, Settle(s) PROVE Foreground'
  BY <1>2 DEF Settle, Released, recordVars, stopVars
<1>3. ASSUME NEW s \in Submissions,
             CreateMission(s) \/ CreateMissionAtShutdown(s)
      PROVE  Foreground'
  BY <1>3 DEF CreateMission, CreateMissionAtShutdown, Spawn, ShuttingDown,
     stopVars
<1>4. ASSUME NEW r \in Retries, Retry(r) PROVE Foreground'
  BY <1>4 DEF Retry, Spawn, Recorded, Missions, stopVars
<1>5. ASSUME NEW q \in Reconciled, LoadReconciled(q) \/ LoadReconciledFails(q)
      PROVE  Foreground'
  BY <1>5 DEF LoadReconciled, LoadReconciledFails, Recorded, Missions, stopVars
<1>6. ASSUME NEW m \in Missions, PrepareSucceeds(m) PROVE Foreground'
  BY <1>6 DEF PrepareSucceeds, Spawn, stopVars
<1>7. ASSUME NEW m \in Missions, Ended(m) PROVE Foreground'
  <2>1. Running(m) /\ phase' = [phase EXCEPT ![m] = "idle"]
    BY <1>7, EndEffects
  <2>2. \A n \in Missions : ~Running(n)'
    BY <2>1
  <2> QED BY <2>2
<1>8. ASSUME NEW m \in Missions, ResponseRejected(m) \/ ResponseDenied(m)
      PROVE  Foreground'
  BY <1>8 DEF ResponseRejected, ResponseDenied, recordVars, stopVars
<1>9. ASSUME NEW m \in Missions,
             ResponseRevises(m) \/ ResponseRevisesAtShutdown(m)
      PROVE  FALSE
  <2>1. /\ revision[m] \in Nat /\ revision[m] # 0
        /\ revision'[m] = revision[m] + 1
    BY <1>9 DEF ResponseRevises, ResponseRevisesAtShutdown, Recorded
  <2>2. revision'[m] <= 1
    BY DEF NoRevision
  <2> HIDE DEF TypeOK, Foreground, ActiveRuns, ExclusiveRun, EvidenceTracksRun
  <2> QED BY <2>1, <2>2
<1>10. ASSUME NEW m \in Missions, NEW t \in Responses,
              Respond(m, t) \/ RespondRefused(m, t)
       PROVE  Foreground'
  BY <1>10 DEF Respond, RespondRefused, recordVars, stopVars
<1>11. ASSUME NEW c \in QueueCalls, ReconcileQueue(c) \/ QueueCallCloses(c)
       PROVE  Foreground'
  BY <1>11 DEF ReconcileQueue, QueueCallCloses, recordVars, stopVars
<1>12. ASSUME ShutdownBegins PROVE Foreground'
  BY <1>12 DEF ShutdownBegins
<1>13. ASSUME ShutdownProceeds PROVE Foreground'
  BY <1>13 DEF ShutdownProceeds, CleanupConfirms, CleanupFails, ShutdownStops,
     ShutdownUnconfirmed
<1> HIDE DEF Foreground, TypeOK
<1> QED
  BY Steps, <1>1, <1>2, <1>3, <1>4, <1>5, <1>6, <1>7, <1>8, <1>9, <1>10,
     <1>11, <1>12, <1>13

LEMMA CleanedUpStep ==
    ASSUME TypeOK, Recorded, OneCoroutine, VerdictsAreEnds, CleanedUp, Next
    PROVE  CleanedUp'
<1> SUFFICES ASSUME shutdown' \in {"confirming", "stopped"} PROVE CleanedUp'
  BY DEF CleanedUp
<1> USE Params DEF ParamTypes, CleanedUp, TypeOK, OwnedChild
<1>1. ASSUME ShutdownBegins PROVE FALSE
  BY <1>1 DEF ShutdownBegins
<1>2. ASSUME ShutdownProceeds PROVE CleanedUp'
  BY <1>2 DEF ShutdownProceeds, CleanupConfirms, CleanupFails, ShutdownStops,
     ShutdownUnconfirmed
<1>3. ASSUME UNCHANGED <<shutdown, exited>>
      PROVE  ~Serving
  BY <1>3 DEF Serving
<1>4. ASSUME NEW s \in Submissions,
             Submit(s) \/ Settle(s) \/ CreateMission(s) \/ CreateMissionAtShutdown(s)
      PROVE  CleanedUp'
  BY <1>3, <1>4 DEF Submit, Settle, CreateMission, CreateMissionAtShutdown, Spawn,
     stopVars
<1>5. ASSUME NEW r \in Retries, Retry(r) PROVE CleanedUp'
  BY <1>3, <1>5 DEF Retry, Spawn, stopVars
<1>6. ASSUME NEW q \in Reconciled, LoadReconciled(q) \/ LoadReconciledFails(q)
      PROVE  CleanedUp'
  BY <1>6 DEF LoadReconciled, LoadReconciledFails, stopVars
<1>7. ASSUME NEW m \in Missions, PrepareSucceeds(m) \/ ResponseRevises(m)
      PROVE  CleanedUp'
  BY <1>3, <1>7 DEF PrepareSucceeds, ResponseRevises, Spawn, stopVars
<1>8. ASSUME NEW m \in Missions,
             \/ ResponseRejected(m) \/ ResponseDenied(m)
             \/ ResponseRevisesAtShutdown(m)
      PROVE  CleanedUp'
  BY <1>8 DEF ResponseRejected, ResponseDenied, ResponseRevisesAtShutdown,
     stopVars
<1>9. ASSUME NEW m \in Missions, Ended(m) PROVE CleanedUp'
  <2>1. /\ phase' = [phase EXCEPT ![m] = "idle"]
        /\ UNCHANGED calls /\ UNCHANGED <<shutdown, exited>>
    BY <1>9, EndEffects DEF stopVars
  <2> QED BY <2>1
<1>10. ASSUME NEW m \in Missions, NEW t \in Responses,
              Respond(m, t) \/ RespondRefused(m, t)
       PROVE  CleanedUp'
  BY <1>3, <1>10 DEF Respond, RespondRefused, Spawn, stopVars
<1>11. ASSUME NEW c \in QueueCalls, ReconcileQueue(c) \/ QueueCallCloses(c)
       PROVE  CleanedUp'
  BY <1>3, <1>11 DEF ReconcileQueue, QueueCallCloses, Spawn, stopVars
<1> HIDE DEF CleanedUp, TypeOK, OwnedChild
<1> QED
  BY Steps, <1>1, <1>2, <1>4, <1>5, <1>6, <1>7, <1>8, <1>9, <1>10, <1>11

LEMMA RanOnceStep ==
    ASSUME TypeOK, Recorded, OneCoroutine, VerdictsAreEnds, Foreground, RanOnce,
           Next
    PROVE  RanOnce'
<1> SUFFICES ASSUME NoRevision' PROVE RanOnce'
  BY DEF RanOnce
<1> NoRevision
  BY RevisionsGrow
<1> USE Params DEF ParamTypes, TypeOK
\* A step that keeps the runs, starts none of a submission and reopens no
\* mission.
<1>1. ASSUME runs' = runs,
             \A s \in Submissions : Running(s)' <=> Running(s),
             UNCHANGED completed,
             \A m \in Missions : terminal[m] => terminal'[m]
      PROVE  RanOnce'
  <2>1. \A s \in Submissions : CompletedMission(s) => CompletedMission(s)'
    BY <1>1 DEF CompletedMission
  <2> QED BY <1>1, <2>1 DEF RanOnce
<1>2. ASSUME NEW s \in Submissions, Submit(s) \/ Settle(s),
             phase[s] \in {"idle", "revalidate"}
      PROVE  RanOnce'
  <2>1. \A u \in Submissions : Running(u)' <=> Running(u)
    BY <1>2 DEF Submit, Settle, Running
  <2> QED BY <1>1, <1>2, <2>1 DEF Submit, Settle, recordVars
<1>3. ASSUME NEW s \in Submissions, CreateMission(s) PROVE RanOnce'
  <2>1. \A m \in Missions : ~Running(m)
    BY <1>3 DEF CreateMission, Spawn, Foreground, ActiveRuns
  <2>2. \A u \in Submissions : ReplayKey[u] = ReplayKey[s] => runs[u] = 0
    BY <1>3, <2>1 DEF CreateMission, RanOnce, CompletedMission
  <2>3. ~terminal[s]
    BY <1>3 DEF CreateMission, Recorded
  <2>4. /\ UNCHANGED <<completed, runs>>
        /\ terminal' = [terminal EXCEPT ![s] = FALSE]
        /\ phase' = [phase EXCEPT ![s] = "prepare"]
    BY <1>3 DEF CreateMission, callVars
  <2>5. \A u \in Submissions : CompletedMission(u) => CompletedMission(u)'
    BY <2>3, <2>4 DEF CompletedMission
  <2>6. \A u \in Submissions : Running(u)' <=> u = s
    BY <2>1, <2>4 DEF Running
  <2> QED BY <2>1, <2>2, <2>4, <2>5, <2>6 DEF RanOnce
<1>4. ASSUME NEW s \in Submissions, CreateMissionAtShutdown(s) PROVE RanOnce'
  <2>1. /\ runs' = runs
        /\ terminal' = [terminal EXCEPT ![s] = TRUE]
        /\ completed' = [completed EXCEPT ![ReplayKey[s]] = s]
    BY <1>4 DEF CreateMissionAtShutdown
  <2>2. \A u \in Submissions : CompletedMission(u) => CompletedMission(u)'
    BY <2>1 DEF CompletedMission
  <2>3. \A u \in Submissions : Running(u)' <=> Running(u)
    BY <1>4 DEF CreateMissionAtShutdown, Running
  <2> QED BY <2>1, <2>2, <2>3 DEF RanOnce
<1>5. ASSUME NEW r \in Retries, Retry(r) PROVE RanOnce'
  BY <1>1, <1>5, RelayAssumption DEF Retry, Running, callVars
<1>6. ASSUME NEW q \in Reconciled, LoadReconciled(q) \/ LoadReconciledFails(q)
      PROVE  RanOnce'
  BY <1>1, <1>6 DEF LoadReconciled, LoadReconciledFails, Running, callVars
<1>7. ASSUME NEW m \in Missions, PrepareSucceeds(m) PROVE RanOnce'
  <2>1. /\ Running(m)
        /\ \A u \in Submissions : Running(u)' <=> Running(u)
        /\ UNCHANGED <<completed, terminal>>
        /\ \A u \in Submissions : u # m => runs'[u] = runs[u]
    BY <1>7 DEF PrepareSucceeds, Running, callVars
  <2>2. \A u \in Submissions : Running(u) => u = m
    BY <2>1 DEF Foreground, ExclusiveRun
  <2>3. \A u \in Submissions : CompletedMission(u) => CompletedMission(u)'
    BY <2>1 DEF CompletedMission
  <2> QED BY <2>1, <2>2, <2>3 DEF RanOnce
<1>8. ASSUME NEW m \in Missions, Ended(m) PROVE RanOnce'
  <2>1. /\ Running(m)
        /\ phase' = [phase EXCEPT ![m] = "idle"]
        /\ \A n \in Missions : n # m => terminal'[n] = terminal[n]
        /\ UNCHANGED runs
    BY <1>8, EndEffects
  <2>2. \A u \in Submissions : Running(u)' <=> Running(u) /\ u # m
    BY <2>1 DEF Running
  <2>3. CASE m \in Submissions
    <3>1. FreshSubmission(m)
      <4>1. revision[m] # 0
        BY <2>1 DEF Recorded
      <4> QED BY <2>3, <4>1 DEF FreshSubmission, NoRevision
    <3>2. terminal'[m] /\ completed' = [completed EXCEPT ![ReplayKey[m]] = m]
      BY <1>8, <3>1, EndEffects
    <3>3. CompletedMission(m)'
      BY <2>3, <3>2 DEF CompletedMission
    <3>4. \A u \in Submissions : CompletedMission(u) => CompletedMission(u)'
      BY <2>1, <3>2, <3>3 DEF CompletedMission
    <3> QED BY <2>1, <2>2, <3>3, <3>4 DEF RanOnce
  <2>4. CASE m \notin Submissions
    <3>1. UNCHANGED completed
      BY <1>8, <2>4, EndEffects DEF FreshSubmission
    <3>2. \A u \in Submissions : CompletedMission(u) => CompletedMission(u)'
      BY <2>1, <2>4, <3>1 DEF CompletedMission
    <3> QED BY <2>1, <2>2, <2>4, <3>2 DEF RanOnce
  <2> QED BY <2>3, <2>4
<1>9. ASSUME NEW m \in Missions, ResponseRejected(m) \/ ResponseDenied(m)
      PROVE  RanOnce'
  BY <1>1, <1>9 DEF ResponseRejected, ResponseDenied, Running, callVars, recordVars
<1>10. ASSUME NEW m \in Missions,
              ResponseRevises(m) \/ ResponseRevisesAtShutdown(m)
       PROVE  FALSE
  <2>1. /\ revision[m] \in Nat /\ revision[m] # 0
        /\ revision'[m] = revision[m] + 1
    BY <1>10 DEF ResponseRevises, ResponseRevisesAtShutdown, Recorded
  <2>2. revision'[m] <= 1
    BY DEF NoRevision
  <2> HIDE DEF TypeOK
  <2> QED BY <2>1, <2>2
<1>11. ASSUME NEW m \in Missions, NEW t \in Responses,
              Respond(m, t) \/ RespondRefused(m, t)
       PROVE  RanOnce'
  BY <1>1, <1>11 DEF Respond, RespondRefused, Accept, MayAnswer, OneCoroutine,
     Running, callVars, recordVars
<1>12. ASSUME NEW c \in QueueCalls, ReconcileQueue(c) \/ QueueCallCloses(c)
       PROVE  RanOnce'
  BY <1>1, <1>12 DEF ReconcileQueue, QueueCallCloses, Running, callVars,
     recordVars
<1>13. ASSUME ShutdownBegins \/ ShutdownProceeds PROVE RanOnce'
  BY <1>1, <1>13 DEF ShutdownBegins, ShutdownProceeds, CleanupConfirms,
     CleanupFails, ShutdownStops, ShutdownUnconfirmed, Running, callVars,
     recordVars
<1> HIDE DEF TypeOK
<1> QED
  BY Steps, <1>2, <1>3, <1>4, <1>5, <1>6, <1>7, <1>8, <1>9, <1>10, <1>11,
     <1>12, <1>13

LEMMA NextIInv == IInv /\ [Next]_vars => IInv'
<1> SUFFICES ASSUME IInv, [Next]_vars PROVE IInv'
  OBVIOUS
<1>1. CASE Next
  BY <1>1, NextTypeOK, RecordedStep, OneCoroutineStep, VerdictsAreEndsStep,
     RunBudgetStep, ForegroundStep, RanOnceStep, CleanedUpStep
     DEF IInv, Foreground
<1>2. CASE UNCHANGED vars
  BY <1>2 DEF vars, IInv, TypeOK, Recorded, OneCoroutine, RunBudget,
     VerdictsAreEnds, ActiveRuns, ExclusiveRun, EvidenceTracksRun, RanOnce,
     CleanedUp, NoRevision, Serving, Running, OwnedChild, CompletedMission
<1> QED BY <1>1, <1>2

THEOREM Invariant == Spec => []IInv
BY InitIInv, NextIInv, PTL DEF Spec

(***************************************************************************)
(* The properties                                                          *)
(***************************************************************************)

\* Submissions and retries never run two missions at once.
THEOREM ForegroundIsExclusive == Spec => []ExclusiveRun
<1>1. IInv => ExclusiveRun
  BY DEF IInv
<1> QED BY <1>1, Invariant, PTL

\* Two submissions of one request never both start an executor.
THEOREM RequestsRunOnce == Spec => []RequestRunsOnce
<1>1. IInv => RequestRunsOnce
  BY DEF IInv, RanOnce, RequestRunsOnce
<1> QED BY <1>1, Invariant, PTL

\* A mission starts no executor beyond its first without a recorded approval.
THEOREM RunsWithinAuthority == Spec => []RunsAreAuthorized
<1>1. IInv => RunsAreAuthorized
  BY DEF IInv, TypeOK, RunBudget, RunsAreAuthorized
<1> QED BY <1>1, Invariant, PTL

\* The owner record names the mission whose executor runs.
THEOREM EvidenceIsCurrent == Spec => []EvidenceTracksRun
<1>1. IInv => EvidenceTracksRun
  BY DEF IInv
<1> QED BY <1>1, Invariant, PTL

\* A shutdown that reports success leaves no process behind but previews, which
\* no cleanup knows, and of those that it saw gone only the news.
THEOREM StopsSpareOnlyPreviews == Spec => []StopLeavesOnlyPreviews
<1>1. IInv => StopLeavesOnlyPreviews
  BY DEF IInv, CleanedUp, StopLeavesOnlyPreviews, HasChild
<1> QED BY <1>1, Invariant, PTL

\* A request is answered only while nothing else runs for its mission: the
\* relay itself never checks this.
THEOREM AnswersFindIdleMissions == Spec => []OneCoroutine
<1>1. IInv => OneCoroutine
  BY DEF IInv
<1> QED BY <1>1, Invariant, PTL

\* A verdict is the last word on a mission.
THEOREM VerdictsStand == Spec => VerdictsAreFinal
<1> DEFINE Stand == \A m \in Missions : state[m] \in Verdicts => state'[m] = state[m]
<1>1. IInv /\ [Next]_vars => Stand \/ UNCHANGED vars
  <2> SUFFICES ASSUME IInv, Next PROVE Stand
    OBVIOUS
  <2> USE Params DEF ParamTypes, TypeOK
  <2>1. /\ TypeOK /\ Recorded /\ OneCoroutine /\ VerdictsAreEnds
        /\ \A m \in Missions : state[m] \in Verdicts =>
              phase[m] = "idle" /\ terminal[m] /\ state[m] # "NONE"
    BY DEF IInv, VerdictsAreEnds, Verdicts
  <2>2. ASSUME NEW s \in Submissions,
               \/ Submit(s) \/ Settle(s)
               \/ CreateMission(s) \/ CreateMissionAtShutdown(s)
        PROVE  Stand
    BY <2>1, <2>2 DEF Submit, Settle, CreateMission, CreateMissionAtShutdown,
       recordVars
  <2>3. ASSUME NEW r \in Retries, Retry(r) PROVE Stand
    BY <2>1, <2>3 DEF Retry
  <2>4. ASSUME NEW q \in Reconciled, LoadReconciled(q) \/ LoadReconciledFails(q)
        PROVE  Stand
    BY <2>1, <2>4 DEF LoadReconciled, LoadReconciledFails
  <2>5. ASSUME NEW m \in Missions,
               \/ PrepareSucceeds(m) \/ ResponseRejected(m) \/ ResponseDenied(m)
               \/ ResponseRevises(m) \/ ResponseRevisesAtShutdown(m)
        PROVE  Stand
    BY <2>1, <2>5 DEF PrepareSucceeds, ResponseRejected, ResponseDenied,
       ResponseRevises, ResponseRevisesAtShutdown, recordVars
  <2>6. ASSUME NEW m \in Missions, Ended(m) PROVE Stand
    <3>1. Running(m) /\ \A n \in Missions : n # m => state'[n] = state[n]
      BY <2>1, <2>6, EndEffects
    <3> QED BY <2>1, <3>1 DEF Running
  <2>7. ASSUME NEW m \in Missions, NEW t \in Responses,
               Respond(m, t) \/ RespondRefused(m, t)
        PROVE  Stand
    BY <2>7 DEF Respond, RespondRefused, recordVars
  <2>8. ASSUME NEW c \in QueueCalls, ReconcileQueue(c) \/ QueueCallCloses(c)
        PROVE  Stand
    BY <2>8 DEF ReconcileQueue, QueueCallCloses, recordVars
  <2>9. ASSUME ShutdownBegins PROVE Stand
    BY <2>1, <2>9 DEF ShutdownBegins, Interruptible
  <2>10. ASSUME ShutdownProceeds PROVE Stand
    BY <2>10 DEF ShutdownProceeds, CleanupConfirms, CleanupFails, ShutdownStops,
       ShutdownUnconfirmed, recordVars
  <2> HIDE DEF Stand, TypeOK
  <2> QED
    BY Steps, <2>1, <2>2, <2>3, <2>4, <2>5, <2>6, <2>7, <2>8, <2>9, <2>10
<1>2. IInv /\ [Next]_vars => [Stand]_vars
  BY <1>1
<1> QED BY <1>2, Invariant, PTL DEF Spec, VerdictsAreFinal

(***************************************************************************)
(* The foreground slot                                                     *)
(***************************************************************************)

SlotReflectsRuns ==
    /\ \A m \in Missions : Running(m) => SlotHolder = m
    /\ (\A m \in Missions : ~Running(m)) => SlotHolder = None

LEMMA SlotIsExact == NoRevision /\ ExclusiveRun => SlotReflectsRuns
BY DEF ExclusiveRun, SlotHolder, SlotReflectsRuns

\* A step that starts no revision is a step of the slot.
LEMMA SlotStep ==
    ASSUME IInv, NoRevision, [Next]_vars, SlotReflectsRuns, SlotReflectsRuns',
           NoRevision'
    PROVE  [Slot!SlotNext]_(Slot!slotVars)
<1> USE Params DEF ParamTypes
<1> DEFINE SlotStutters == UNCHANGED <<SlotHolder, SlotOver>>
<1>1. SlotStutters => [Slot!SlotNext]_(Slot!slotVars)
  BY DEF Slot!slotVars
<1>2. TypeOK /\ Recorded /\ OneCoroutine /\ VerdictsAreEnds /\ ExclusiveRun
      /\ ActiveRuns
  BY DEF IInv
<1>3. ASSUME \A m \in Missions : Running(m)' <=> Running(m),
             UNCHANGED revision
      PROVE  SlotStutters
  <2>1. SlotHolder' = SlotHolder
    BY <1>3 DEF SlotReflectsRuns
  <2> QED BY <1>3, <2>1 DEF SlotOver
\* A mission enters the records without ever holding the slot.
<1>4. ASSUME NEW m \in Missions, ~Running(m),
             \A n \in Missions : Running(n)' <=> Running(n),
             \A n \in Missions : n # m => revision'[n] = revision[n],
             revision'[m] = 1
      PROVE  Slot!PassOver(m)
  <2>1. SlotHolder' = SlotHolder /\ m # SlotHolder
    BY <1>4 DEF SlotReflectsRuns
  <2>2. SlotOver' = SlotOver \cup {m}
    BY <1>4 DEF SlotOver
  <2> QED BY <2>1, <2>2 DEF Slot!PassOver
\* A mission is created while nothing runs.
<1>5. ASSUME NEW m \in Missions, Serving, active = None, revision[m] = 0,
             phase' = [phase EXCEPT ![m] = "prepare"],
             \A n \in Missions : n # m => revision'[n] = revision[n]
      PROVE  Slot!Acquire(m)
  <2>1. \A n \in Missions : ~Running(n)
    BY <1>2, <1>5 DEF ActiveRuns
  <2>2. \A n \in Missions : Running(n)' <=> n = m
    BY <1>2, <1>5, <2>1 DEF Running, TypeOK
  <2>3. SlotHolder = None /\ SlotHolder' = m
    BY <2>1, <2>2 DEF SlotReflectsRuns
  <2>4. m \notin SlotOver /\ SlotOver' = SlotOver
    BY <1>5, <2>1, <2>2 DEF SlotOver
  <2> QED BY <2>3, <2>4 DEF Slot!Acquire
<1>6. ASSUME NEW s \in Submissions, Submit(s) \/ Settle(s),
             phase[s] \in {"idle", "revalidate"}
      PROVE  SlotStutters
  BY <1>2, <1>3, <1>6 DEF Submit, Settle, Running, TypeOK, recordVars
<1>7. ASSUME NEW s \in Submissions, CreateMission(s) PROVE Slot!Acquire(s)
  BY <1>2, <1>5, <1>7 DEF CreateMission, Spawn, Recorded, TypeOK
<1>8. ASSUME NEW s \in Submissions, CreateMissionAtShutdown(s)
      PROVE  Slot!PassOver(s)
  BY <1>2, <1>4, <1>8 DEF CreateMissionAtShutdown, Running, TypeOK
<1>9. ASSUME NEW r \in Retries, Retry(r) PROVE Slot!Acquire(r)
  BY <1>2, <1>5, <1>9 DEF Retry, Spawn, Recorded, TypeOK, Missions
<1>10. ASSUME NEW q \in Reconciled, LoadReconciled(q) \/ LoadReconciledFails(q)
       PROVE  Slot!PassOver(q)
  BY <1>2, <1>4, <1>10 DEF LoadReconciled, LoadReconciledFails, Recorded,
     Running, TypeOK, Missions
<1>11. ASSUME NEW m \in Missions, PrepareSucceeds(m) PROVE SlotStutters
  BY <1>2, <1>3, <1>11 DEF PrepareSucceeds, Running, TypeOK
<1>12. ASSUME NEW m \in Missions, Ended(m) PROVE Slot!Release
  <2>1. Running(m) /\ phase' = [phase EXCEPT ![m] = "idle"] /\ revision' = revision
    BY <1>2, <1>12, EndEffects
  <2>2. \A n \in Missions : n # m => ~Running(n)
    BY <1>2, <2>1 DEF ExclusiveRun
  <2>3. \A n \in Missions : ~Running(n)'
    BY <1>2, <2>1, <2>2 DEF Running, TypeOK
  <2>4. SlotHolder = m /\ SlotHolder' = None
    BY <2>1, <2>3 DEF SlotReflectsRuns
  <2>5. revision[m] > 0
    BY <1>2, <2>1 DEF Recorded, TypeOK
  <2>6. SlotOver' = SlotOver \cup {m}
    BY <2>1, <2>2, <2>3, <2>5 DEF SlotOver
  <2> QED BY <2>4, <2>6 DEF Slot!Release
<1>13. ASSUME NEW m \in Missions, ResponseRejected(m) \/ ResponseDenied(m)
       PROVE  SlotStutters
  BY <1>2, <1>3, <1>13 DEF ResponseRejected, ResponseDenied, Running, TypeOK,
     recordVars
<1>14. ASSUME NEW m \in Missions,
              ResponseRevises(m) \/ ResponseRevisesAtShutdown(m)
       PROVE  FALSE
  <2>1. revision[m] # 0 /\ revision'[m] = revision[m] + 1
    BY <1>2, <1>14 DEF ResponseRevises, ResponseRevisesAtShutdown, Recorded, TypeOK
  <2> QED BY <1>2, <2>1 DEF NoRevision, TypeOK
<1>15. ASSUME NEW m \in Missions, NEW t \in Responses,
              Respond(m, t) \/ RespondRefused(m, t)
       PROVE  SlotStutters
  <2>1. phase[m] = "idle"
    BY <1>2, <1>15 DEF Respond, RespondRefused, Accept, MayAnswer, OneCoroutine
  <2> QED BY <1>2, <1>3, <1>15, <2>1 DEF Respond, RespondRefused, Running, TypeOK,
          recordVars
<1>16. ASSUME NEW c \in QueueCalls, ReconcileQueue(c) \/ QueueCallCloses(c)
       PROVE  SlotStutters
  BY <1>3, <1>16 DEF ReconcileQueue, QueueCallCloses, Running, recordVars
<1>17. ASSUME ShutdownBegins \/ ShutdownProceeds PROVE SlotStutters
  BY <1>3, <1>17 DEF ShutdownBegins, ShutdownProceeds, CleanupConfirms,
     CleanupFails, ShutdownStops, ShutdownUnconfirmed, Running, recordVars
<1>18. CASE UNCHANGED vars
  BY <1>1, <1>3, <1>18 DEF vars, Running
<1>19. CASE Next
  <2>1. Slot!SlotNext \/ SlotStutters
    <3> HIDE DEF SlotStutters
    <3> QED
      BY <1>2, <1>19, Steps, <1>6, <1>7, <1>8, <1>9, <1>10, <1>11, <1>12, <1>13,
         <1>14, <1>15, <1>16, <1>17 DEF Slot!SlotNext, Missions
  <2> QED BY <1>1, <2>1
<1> QED BY <1>18, <1>19

(***************************************************************************)
(* The state behind the promises of submit().  The model checker shows     *)
(* that an accepted submission settles and its run gives the foreground    *)
(* back, if every process ends; that there always is such a process needs  *)
(* no fairness, and is proved.                                             *)
(***************************************************************************)

\* The promise of a submission is open exactly while its preview is recomputed
\* or its first run has a process: none is dropped, and none settles early.
PromisesAreHeld ==
    \A s \in Submissions :
        submission[s] = "pending" <=>
            phase[s] = "revalidate" \/ (Running(s) /\ revision[s] = 1)

\* A submission that holds the foreground with its first run has a process,
\* also after a shutdown closed its record.
HoldersRun ==
    \A s \in Submissions : active = s /\ revision[s] = 1 => Running(s)

LEMMA FirstEndReleases ==
    ASSUME TypeOK, NEW m \in Missions, Ended(m), FreshSubmission(m)
    PROVE  active' # m
<1>1. terminal'[m] BY EndEffects
<1>2. active' = Released(active, terminal') \/ active' # m
  <2>1. PICK newState \in States \ {"NONE"}, isTerminal \in BOOLEAN,
             shown \in Missions \cup {None} :
               EndRun(m, newState, isTerminal, shown)
    BY DEF Ended
  <2> QED BY <2>1 DEF EndRun
<1>3. m # None BY Params DEF ParamTypes
<1> QED BY <1>1, <1>2, <1>3 DEF Released

LEMMA PromiseStep ==
    ASSUME IInv, PromisesAreHeld, HoldersRun, [Next]_vars
    PROVE  PromisesAreHeld' /\ HoldersRun'
<1> DEFINE Kept == PromisesAreHeld /\ HoldersRun
<1> USE Params DEF ParamTypes, TypeOK, PromisesAreHeld, HoldersRun, Running
<1>1. TypeOK /\ Recorded /\ OneCoroutine /\ VerdictsAreEnds
  BY DEF IInv
<1>2. ASSUME NEW s \in Submissions,
             \/ /\ Submit(s) \/ Settle(s)
                /\ phase[s] \in {"idle", "revalidate"}
             \/ CreateMission(s) \/ CreateMissionAtShutdown(s)
      PROVE  Kept'
  <2>1. CASE Submit(s)
    BY <1>1, <2>1 DEF Submit, Recorded, recordVars
  <2>2. CASE Settle(s) /\ phase[s] \in {"idle", "revalidate"}
    <3>1. active' \in {None, active}
      BY <2>2 DEF Settle, Released
    <3>2. s # None /\ \A t \in Submissions : t # None
      OBVIOUS
    <3>3. phase[s] = "revalidate" => revision[s] = 0
      BY <1>1 DEF Recorded
    <3>4. HoldersRun'
      BY <1>1, <2>2, <3>1, <3>2, <3>3 DEF Settle, recordVars
    <3>5. PromisesAreHeld'
      BY <1>1, <2>2, <3>3 DEF Settle, recordVars
    <3> QED BY <3>4, <3>5
  <2>3. CASE CreateMission(s)
    BY <1>1, <2>3 DEF CreateMission, Recorded, callVars
  <2>4. CASE CreateMissionAtShutdown(s)
    BY <1>1, <2>4 DEF CreateMissionAtShutdown, Recorded
  <2> QED BY <1>2, <2>1, <2>2, <2>3, <2>4
<1>3. ASSUME NEW r \in Retries, Retry(r) PROVE Kept'
  <2>1. r \notin Submissions /\ r \in Missions BY RelayAssumption DEF Missions
  <2> QED BY <1>1, <1>3, <2>1 DEF Retry, callVars
<1>4. ASSUME NEW q \in Reconciled, LoadReconciled(q) \/ LoadReconciledFails(q)
      PROVE  Kept'
  <2>1. q \notin Submissions /\ q \in Missions
    BY RelayAssumption DEF Missions
  <2> QED BY <1>1, <1>4, <2>1 DEF LoadReconciled, LoadReconciledFails, callVars
<1>5. ASSUME NEW m \in Missions, PrepareSucceeds(m) PROVE Kept'
  BY <1>1, <1>5 DEF PrepareSucceeds, callVars
<1>6. ASSUME NEW m \in Missions, Ended(m) PROVE Kept'
  <2>1. /\ Running(m) /\ phase' = [phase EXCEPT ![m] = "idle"]
        /\ UNCHANGED revision /\ active' \in {None, active}
    BY <1>1, <1>6, EndEffects
  <2>2. CASE FreshSubmission(m)
    <3>1. submission' = [submission EXCEPT ![m] = "settled"] /\ active' # m
      BY <1>1, <1>6, <2>2, EndEffects, FirstEndReleases
    <3> QED BY <1>1, <2>1, <2>2, <3>1 DEF FreshSubmission
  <2>3. CASE ~FreshSubmission(m)
    <3>1. UNCHANGED submission
      BY <1>1, <1>6, <2>3, EndEffects
    <3>2. m \in Submissions => revision[m] # 1
      BY <2>3 DEF FreshSubmission
    <3> QED BY <1>1, <2>1, <3>1, <3>2
  <2> QED BY <2>2, <2>3
<1>7. ASSUME NEW m \in Missions, ResponseRejected(m) \/ ResponseDenied(m)
      PROVE  Kept'
  BY <1>1, <1>7 DEF ResponseRejected, ResponseDenied, callVars, recordVars
<1>8. ASSUME NEW m \in Missions,
             ResponseRevises(m) \/ ResponseRevisesAtShutdown(m)
      PROVE  Kept'
  <2>1. revision[m] # 0 /\ phase[m] = "respond"
    BY <1>1, <1>8 DEF ResponseRevises, ResponseRevisesAtShutdown, Recorded
  <2>2. /\ revision' = [revision EXCEPT ![m] = @ + 1] /\ active' = m
        /\ UNCHANGED submission
        /\ phase' \in {[phase EXCEPT ![m] = "prepare"],
                       [phase EXCEPT ![m] = "idle"]}
    BY <1>8 DEF ResponseRevises, ResponseRevisesAtShutdown, callVars
  <2> QED BY <1>1, <2>1, <2>2
<1>9. ASSUME NEW m \in Missions, NEW t \in Responses,
             Respond(m, t) \/ RespondRefused(m, t)
      PROVE  Kept'
  <2>1. phase[m] = "idle"
    BY <1>1, <1>9 DEF Respond, RespondRefused, Accept, MayAnswer, OneCoroutine
  <2> QED BY <1>1, <1>9, <2>1 DEF Respond, RespondRefused, callVars, recordVars
<1>10. ASSUME NEW c \in QueueCalls, ReconcileQueue(c) \/ QueueCallCloses(c)
       PROVE  Kept'
  BY <1>1, <1>10 DEF ReconcileQueue, QueueCallCloses, callVars, recordVars
<1>11. ASSUME ShutdownBegins \/ ShutdownProceeds PROVE Kept'
  BY <1>1, <1>11 DEF ShutdownBegins, ShutdownProceeds, CleanupConfirms, CleanupFails,
     ShutdownStops, ShutdownUnconfirmed, callVars, recordVars
<1>12. CASE UNCHANGED vars
  BY <1>12 DEF vars, callVars
<1>13. CASE Next
  <2> HIDE DEF Kept, TypeOK
  <2>1. Kept'
    BY <1>1, <1>13, Steps, <1>2, <1>3, <1>4, <1>5, <1>6, <1>7, <1>8, <1>9,
       <1>10, <1>11
  <2> QED BY <2>1 DEF Kept
<1> QED BY <1>12, <1>13

\* A pending submission always has what it waits for, whatever fails, is
\* answered, retried or shut down beside it: the preview call or the process of
\* its own first run (submit() and #submitNew).
THEOREM PromisesHaveRuns == Spec => [](PromisesAreHeld /\ HoldersRun)
<1>1. Init => PromisesAreHeld /\ HoldersRun
  BY Params DEF ParamTypes, Init, PromisesAreHeld, HoldersRun, Running
<1>2. IInv /\ PromisesAreHeld /\ HoldersRun /\ [Next]_vars
        => PromisesAreHeld' /\ HoldersRun'
  BY PromiseStep
<1> QED BY <1>1, <1>2, Invariant, PTL DEF Spec

(***************************************************************************)
(* What an approval changes                                                *)
(***************************************************************************)

\* What holds while the answers do not revise: no mission has had a second
\* revision, and an answer that has been accepted is a denial.
OnlyDenied ==
    \A m \in Missions :
        /\ revision[m] <= 1
        /\ answered[m] # 0 => answer[m] = "DENY_REQUEST"

LEMMA OnlyDeniedStep ==
    ASSUME IInv, OnlyDenied, [Next]_vars, Responses \subseteq {"DENY_REQUEST"}
    PROVE  OnlyDenied'
<1> USE Params DEF ParamTypes, OnlyDenied, TypeOK
<1>1. /\ TypeOK /\ Recorded /\ VerdictsAreEnds
      /\ \A m \in Missions : phase[m] = "respond" => answered[m] # 0
  BY DEF IInv, OneCoroutine
<1>2. ASSUME NEW s \in Submissions,
             \/ Submit(s) \/ Settle(s)
             \/ CreateMission(s) \/ CreateMissionAtShutdown(s)
      PROVE  OnlyDenied'
  BY <1>1, <1>2 DEF Submit, Settle, CreateMission, CreateMissionAtShutdown,
     recordVars, answerVars
<1>3. ASSUME NEW r \in Retries, Retry(r) PROVE OnlyDenied'
  BY <1>1, <1>3 DEF Retry, answerVars
<1>4. ASSUME NEW q \in Reconciled, LoadReconciled(q) \/ LoadReconciledFails(q)
      PROVE  OnlyDenied'
  BY <1>1, <1>4 DEF LoadReconciled, LoadReconciledFails, answerVars
<1>5. ASSUME NEW m \in Missions, PrepareSucceeds(m) PROVE OnlyDenied'
  BY <1>5 DEF PrepareSucceeds, answerVars
<1>6. ASSUME NEW m \in Missions, Ended(m) PROVE OnlyDenied'
  BY <1>1, <1>6, EndEffects
<1>7. ASSUME NEW m \in Missions, ResponseRejected(m) \/ ResponseDenied(m)
      PROVE  OnlyDenied'
  BY <1>7 DEF ResponseRejected, ResponseDenied, recordVars
<1>8. ASSUME NEW m \in Missions,
             ResponseRevises(m) \/ ResponseRevisesAtShutdown(m)
      PROVE  FALSE
  BY <1>1, <1>8 DEF ResponseRevises, ResponseRevisesAtShutdown
<1>9. ASSUME NEW m \in Missions, NEW t \in Responses,
             Respond(m, t) \/ RespondRefused(m, t)
      PROVE  OnlyDenied'
  <2>1. Accept(m, t) /\ UNCHANGED revision /\ t = "DENY_REQUEST"
    BY <1>9 DEF Respond, RespondRefused, recordVars
  <2> QED BY <1>1, <2>1 DEF Accept
<1>10. ASSUME NEW c \in QueueCalls, ReconcileQueue(c) \/ QueueCallCloses(c)
       PROVE  OnlyDenied'
  BY <1>10 DEF ReconcileQueue, QueueCallCloses, recordVars, answerVars
<1>11. ASSUME ShutdownBegins \/ ShutdownProceeds PROVE OnlyDenied'
  BY <1>11 DEF ShutdownBegins, ShutdownProceeds, CleanupConfirms, CleanupFails,
     ShutdownStops, ShutdownUnconfirmed, recordVars, answerVars
<1>12. CASE UNCHANGED vars
  BY <1>12 DEF vars
<1> HIDE DEF OnlyDenied, TypeOK
<1>13. CASE Next
  BY <1>1, <1>13, Steps, <1>2, <1>3, <1>4, <1>5, <1>6, <1>7, <1>8, <1>9, <1>10,
     <1>11
<1> QED BY <1>12, <1>13

\* While operators only deny, every behaviour of the relay is one of the
\* foreground slot: the mission that holds it is released before another is
\* prepared, and never holds it again.  An approval is what makes a mission hold
\* the slot twice (#respondNew), and beside another mission.  (That the slot is
\* released at all is left to the model checker.)
THEOREM RelayIsSlot ==
    ASSUME Responses \subseteq {"DENY_REQUEST"}
    PROVE  Spec => Slot!SlotInit /\ [][Slot!SlotNext]_(Slot!slotVars)
<1>1. Init => Slot!SlotInit /\ OnlyDenied
  BY DEF Init, Slot!SlotInit, SlotHolder, SlotOver, Running, OnlyDenied
<1>2. IInv /\ OnlyDenied /\ [Next]_vars => OnlyDenied'
  BY OnlyDeniedStep
<1>3. IInv /\ IInv' /\ OnlyDenied /\ OnlyDenied' /\ [Next]_vars
        => [Slot!SlotNext]_(Slot!slotVars)
  <2> SUFFICES ASSUME IInv, IInv', OnlyDenied, OnlyDenied', [Next]_vars
               PROVE  [Slot!SlotNext]_(Slot!slotVars)
    OBVIOUS
  <2>1. NoRevision /\ NoRevision'
    BY DEF OnlyDenied, NoRevision
  <2>2. SlotReflectsRuns
    BY <2>1, SlotIsExact DEF IInv
  <2>3. SlotReflectsRuns'
    BY <2>1 DEF IInv, ExclusiveRun, SlotReflectsRuns, SlotHolder
  <2> QED BY <2>1, <2>2, <2>3, SlotStep
<1> QED BY <1>1, <1>2, <1>3, Invariant, PTL DEF Spec

\* The one active mission of the documentation holds as long as operators only
\* deny: relay_one_active breaks it with an approval, and with nothing else.
THEOREM OneMissionWithoutApproval ==
    ASSUME Responses \subseteq {"DENY_REQUEST"}
    PROVE  Spec => []OneActiveMission
<1>1. Init => OnlyDenied
  BY DEF Init, OnlyDenied
<1>2. IInv /\ OnlyDenied /\ [Next]_vars => OnlyDenied'
  BY OnlyDeniedStep
<1>3. IInv /\ OnlyDenied => OneActiveMission
  BY DEF IInv, OnlyDenied, ExclusiveRun, NoRevision, OneActiveMission
<1> QED BY <1>1, <1>2, <1>3, Invariant, PTL DEF Spec
=============================================================================
