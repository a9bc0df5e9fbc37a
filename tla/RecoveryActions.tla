--------------------------- MODULE RecoveryActions ---------------------------
(***************************************************************************)
(* The recovery actions an operator may take on one mission run            *)
(* (tools/hq-dispatch/v1/reliability.mjs, reconcileCanonicalState to       *)
(* performRecoveryAction; server.mjs, POST /api/v1/recovery and            *)
(* recordInterruption; mission-relay.mjs, shutdown to                      *)
(* reconcileQueueFromCanonicalReceipt).                                    *)
(*                                                                         *)
(* The run, the source, is moved by its own executor, a process that       *)
(* outlives a crash of the server.  A request is one decision: the         *)
(* operator looks at the reconciled item, and posts an action with the     *)
(* identity of the evidence he saw.  The shutdown writes through the same  *)
(* code and is an actor beside the requests, which the server takes until  *)
(* the drain is over: for as long as it lives, when the drain fails.       *)
(***************************************************************************)
EXTENDS Naturals

CONSTANTS Requests,       \* decisions of the operator
          Actions,        \* recovery actions he uses
          MaxGenerations, \* bound: times the server starts
          MaxBlind,       \* bound: reconciliations that miss something
          MaxFaults       \* bound: receipts that cannot be written

Mark == "MARK_PROCESS_INTERRUPTED"
Retry == "RETRY_AS_NEW_RUN"
Reconcile == "RECONCILE_QUEUE_FROM_CANONICAL_RECEIPT"
Respond == "RESPOND_TO_TIM_REQUIRED"
Audits == {"ACKNOWLEDGE_COMPLETED", "DECLINE_RECOVERY"}
Reads == {"VIEW_CANONICAL_RECEIPT", "TIM_REQUIRED"}

Shutdown == "shutdown"
Source == "source"
Nobody == "nobody"

ASSUME RecoveryAssumption ==
    /\ Requests \cap {Shutdown, Source, Nobody} = {}
    /\ Actions \subseteq {Mark, Retry, Reconcile, Respond} \cup Audits \cup Reads
    /\ MaxGenerations \in Nat \ {0}
    /\ MaxBlind \in Nat
    /\ MaxFaults \in Nat

Actors == Requests \cup {Shutdown}

VARIABLES
    stage,      \* how far the source came: its queue state and its artifacts
    executor,   \* its process: "running", "exited" (its close is not handled), "none"
    stray,      \* the executor outlived the server that started it
    serving,    \* "up", "stopping" (from shuttingDown on) or "down"
    generation, \* the session generation: a number for each server start
    active,     \* activeMissionId: the source, the request whose retry runs, or nobody
    loaded,     \* the record of the source in the relay's missions
    snapshots,  \* queue-record-preflight-pending.json of each evidence directory
    stops,      \* STOP_RECORD.json of each evidence directory
    receipts,   \* recovery receipts, by their idempotency identity
    runs,       \* new runs that were started for the source
    finished,   \* those whose promise resolved
    failed,     \* those whose promise was rejected
    req,        \* where each actor is and the item it acts on
    blinds, faults

sourceVars == <<stage, executor, stray>>
serverVars == <<serving, generation, active, loaded>>
diskVars == <<snapshots, stops, receipts>>
runVars == <<runs, finished, failed>>
boundVars == <<blinds, faults>>
vars == <<sourceVars, serverVars, diskVars, runVars, req, boundVars>>

-----------------------------------------------------------------------------
(* What is on disk for each stage, and what the reconciliation makes of it *)

\* The queue state a stage is found in.
QueueOf == [queued |-> "inbox", prepared |-> "preflight_pending",
            working |-> "worker_running", finished |-> "postrun_pending",
            received |-> "postrun_pending", admitted |-> "complete_ready_for_gate",
            asked |-> "blocked_needs_tim", responded |-> "blocked_needs_tim",
            revised |-> "blocked_needs_tim", denied |-> "blocked_needs_tim"]
Stages == DOMAIN QueueOf

\* The executor copies the document to qd.json before it moves it.
HasRuntimeQueue(s) == s # "queued"

\* The evidence hash covers the artifacts that have authority, and the content of
\* the queue documents the reconciliation accepted: not the state they are in.  A
\* validator that fails drops every queue document.
ArtifactsOf == [queued |-> "mission", prepared |-> "dispatch", working |-> "dispatch",
                finished |-> "result", received |-> "admission", admitted |-> "admission",
                asked |-> "tim request", responded |-> "revision", revised |-> "revision",
                denied |-> "denial"]
Evidence == {ArtifactsOf[s] : s \in Stages} \X BOOLEAN

\* The first rule that holds names the class.  A stop record found under the
\* runtime root counts as an interruption, whatever came after it.
Rules(s, seen, owned, stopped) == <<
    [class |-> "ADMISSION_WITH_QUEUE_MISMATCH", holds |-> s = "received" /\ seen],
    [class |-> "COMPLETED_ADMITTED", holds |-> s \in {"received", "admitted"}],
    [class |-> "COMPLETED_REJECTED", holds |-> s = "denied"],
    [class |-> "TIM_REQUIRED_RESPONDED_REVISION_EXISTS", holds |-> s = "revised"],
    [class |-> "STALE_OR_UNKNOWN", holds |-> s = "responded"],
    [class |-> "TIM_REQUIRED_PENDING_RESPONSE", holds |-> s = "asked"],
    [class |-> "RESULT_WITHOUT_ADMISSION", holds |-> s = "finished"],
    [class |-> "RUNNING_PROCESS_CONFIRMED", holds |-> owned],
    [class |-> "INTERRUPTED_PROCESS_GONE", holds |-> stopped \/ (s = "working" /\ seen)],
    [class |-> "QUEUED_NOT_STARTED", holds |-> s = "queued" /\ seen],
    [class |-> "DISPATCHING_WITHOUT_OWNER", holds |-> s = "prepared" /\ seen],
    [class |-> "STALE_OR_UNKNOWN", holds |-> TRUE] >>

Classify(s, seen, owned, stopped) ==
    LET rules == Rules(s, seen, owned, stopped)
        first == CHOOSE i \in DOMAIN rules :
                     rules[i].holds /\ \A j \in 1 .. (i - 1) : ~ rules[j].holds
    IN  rules[first].class

Classes == {Classify(s, seen, owned, stopped) :
               s \in Stages, seen \in BOOLEAN, owned \in BOOLEAN, stopped \in BOOLEAN}

Retryable == {"INTERRUPTED_PROCESS_GONE", "DISPATCHING_WITHOUT_OWNER"}

\* safe_operator_options, read from the side of the action.
OfferedFor(action) ==
    CASE action = Mark -> Retryable
      [] action = Retry -> Retryable
      [] action = Reconcile -> {"ADMISSION_WITH_QUEUE_MISMATCH"}
      [] action = Respond -> {"TIM_REQUIRED_PENDING_RESPONSE"}
      [] action = "ACKNOWLEDGE_COMPLETED" ->
             {"COMPLETED_ADMITTED", "COMPLETED_REJECTED",
              "TIM_REQUIRED_RESPONDED_REVISION_EXISTS"}
      [] action = "DECLINE_RECOVERY" ->
             {"COMPLETED_REJECTED", "TIM_REQUIRED_PENDING_RESPONSE",
              "RUNNING_PROCESS_CONFIRMED", "INTERRUPTED_PROCESS_GONE",
              "QUEUED_NOT_STARTED", "STALE_OR_UNKNOWN"}
      [] action = "VIEW_CANONICAL_RECEIPT" ->
             {"COMPLETED_ADMITTED", "COMPLETED_REJECTED", "RESULT_WITHOUT_ADMISSION",
              "TIM_REQUIRED_RESPONDED_REVISION_EXISTS", "ADMISSION_WITH_QUEUE_MISMATCH"}
      [] action = "TIM_REQUIRED" ->
             {"TIM_REQUIRED_PENDING_RESPONSE", "DISPATCHING_WITHOUT_OWNER",
              "RESULT_WITHOUT_ADMISSION", "ADMISSION_WITH_QUEUE_MISMATCH",
              "STALE_OR_UNKNOWN"}

\* The directory interruption evidence goes to: beside qd.json, or one of its own
\* for each recovery item, outside the root a reconciliation walks.
RuntimePlace == <<"runtime", TRUE>>
Places == Evidence \cup {RuntimePlace}
PlaceOf(item) == IF item.runtime THEN RuntimePlace ELSE item.evidence

\* The document an interruption preserves: the queue record or its copy qd.json,
\* which are byte for byte the same, else the latest artifact.
QueueSeen(item) == item.evidence[2]
Document == "queue document"
Documents == {Document, "latest artifact"}
DocumentOf(item) == IF QueueSeen(item) \/ item.runtime THEN Document ELSE "latest artifact"
StillThere(item) == QueueSeen(item) => QueueOf[stage] = item.queue

ByOperator == "EXPLICIT_OPERATOR_INTERRUPTION_CLASSIFICATION"
ByRetry == "NEW_RUN_RECOVERY_SOURCE_PRESERVATION"
ByShutdown == "HQ_DISPATCH_SERVER_SHUTDOWN_DURING_EXECUTION"
ReasonOf(action) ==
    CASE action = Mark -> ByOperator [] action = Retry -> ByRetry [] OTHER -> ByShutdown

StopAt(place) == {s \in stops : s.place = place}
SnapshotAt(place) == {s \in snapshots : s.place = place}

\* What one reconciliation sees of the source.
Sights == {s \in [queue : BOOLEAN, process : BOOLEAN] :
              blinds < MaxBlind \/ (s.queue /\ s.process)}
Blinded(s) == IF s.queue /\ s.process THEN blinds ELSE blinds + 1
Stopped == StopAt(RuntimePlace) # {}
Owned == active = Source /\ executor = "running" /\ ~ stray
ItemAt(s) ==
    [evidence |-> <<ArtifactsOf[stage], s.queue>>, queue |-> QueueOf[stage],
     runtime |-> HasRuntimeQueue(stage), stopped |-> Stopped,
     class |-> Classify(stage, s.queue, Owned /\ s.process, Stopped)]

-----------------------------------------------------------------------------
\* An actor at one of these holds the event loop: nothing there awaits.
Running == {"load", "stop", "record", "retry", "move", "receipt"}
Awaiting == {"preparing", "running", "wrapping"}
Closed == {"done", "refused", "failed", "lost", "stray"}
LoopFree == \A a \in Actors : req[a].pc \notin Running

Items == [evidence : Evidence, queue : {QueueOf[s] : s \in Stages},
          runtime : BOOLEAN, stopped : BOOLEAN, class : Classes]
Start == [pc |-> "idle", action |-> Shutdown,
          item |-> [evidence |-> <<"mission", TRUE>>, queue |-> "inbox", runtime |-> FALSE,
                    stopped |-> FALSE, class |-> Classify("queued", TRUE, FALSE, FALSE)]]
Goes(a, pc) == req' = [req EXCEPT ![a].pc = pc]

\* Types, and that nothing of a server outlives it but a wrapper it started.
TypeOK ==
    /\ stage \in Stages
    /\ executor \in {"running", "exited", "none"}
    /\ stray \in BOOLEAN
    /\ serving \in {"up", "stopping", "down"}
    /\ generation \in Nat
    /\ active \in Requests \cup {Source, Nobody}
    /\ loaded \in Evidence \cup {<<"none", FALSE>>, <<"own", TRUE>>}
    /\ snapshots \subseteq [place : Places, document : Documents \cup {"torn"}]
    /\ stops \subseteq [place : Places, evidence : Evidence, document : Documents,
                        reason : {ByOperator, ByRetry, ByShutdown}]
    /\ receipts \subseteq [evidence : Evidence, action : Actions]
    /\ runs \subseteq [evidence : Evidence, generation : Nat, by : Requests]
    /\ finished \subseteq runs
    /\ failed \subseteq runs
    /\ req \in [Actors -> [pc : {"idle", "viewed", "cleaning", "wedged"} \cup Running
                                  \cup Awaiting \cup Closed,
                           action : Actions \cup {Shutdown}, item : Items]]
    /\ blinds \in Nat
    /\ faults \in Nat
    /\ serving = "down" =>
         active = Nobody /\ \A a \in Actors : req[a].pc \notin Running \cup Awaiting

Init ==
    /\ stage = "queued" /\ executor = "running" /\ stray = FALSE
    /\ serving = "up" /\ generation = 1 /\ active = Source /\ loaded = <<"own", TRUE>>
    /\ snapshots = {} /\ stops = {} /\ receipts = {}
    /\ runs = {} /\ finished = {} /\ failed = {}
    /\ req = [a \in Actors |-> Start]
    /\ blinds = 0 /\ faults = 0

-----------------------------------------------------------------------------
(* The source run                                                          *)

NextStages(s) ==
    CASE s = "queued" -> {"prepared"}
      [] s = "prepared" -> {"working"}
      [] s = "working" -> {"finished", "asked"}
      [] s = "finished" -> {"received"}
      [] s = "received" -> {"admitted"}
      [] OTHER -> {}

SourceMoves ==
    /\ executor = "running"
    /\ stage' \in NextStages(stage)
    /\ UNCHANGED <<executor, stray, serverVars, diskVars, runVars, req, boundVars>>

ExecutorExits ==
    /\ executor = "running"
    /\ executor' = IF stray THEN "none" ELSE "exited"
    /\ UNCHANGED <<stage, stray, serverVars, diskVars, runVars, req, boundVars>>

\* The relay applies the outcome or fails the submission: both end it.
ExecutorClosed ==
    /\ executor = "exited"
    /\ LoopFree
    /\ executor' = "none"
    /\ active' = Nobody
    /\ UNCHANGED <<stage, stray, serving, generation, loaded, diskVars, runVars, req, boundVars>>

\* The relay's own response path, on the record of the source it holds: a wrapper
\* started before a stop goes on through it.
AnswerArrives ==
    /\ serving # "down" /\ LoopFree
    /\ stage = "asked" /\ active = Nobody /\ loaded # <<"none", FALSE>>
    /\ stage' \in {"responded", "denied"}
    /\ UNCHANGED <<executor, stray, serverVars, diskVars, runVars, req, boundVars>>

RevisionPrepared ==
    /\ serving # "down" /\ LoopFree
    /\ stage = "responded"
    /\ stage' = "revised"
    /\ UNCHANGED <<executor, stray, serverVars, diskVars, runVars, req, boundVars>>

-----------------------------------------------------------------------------
(* A request                                                               *)

\* No recovery request asks whether the server stops: its session is what counts,
\* and sessions end after the drain.
TakesRequests == serving # "down" /\ LoopFree

\* GET /api/v1/recovery: the item the operator decides on, and his decision.
View(q) ==
    /\ TakesRequests
    /\ req[q].pc = "idle"
    /\ \E s \in Sights, action \in Actions :
          /\ ItemAt(s).class \in OfferedFor(action)
          /\ req' = [req EXCEPT ![q] = [pc |-> "viewed", action |-> action, item |-> ItemAt(s)]]
          /\ blinds' = Blinded(s)
    /\ UNCHANGED <<sourceVars, serverVars, diskVars, runVars, faults>>

\* Receipts are written and never looked for.
HasReceiptNever(e, action) == FALSE
HasReceipt(e, action) == \E r \in receipts : r.evidence = e /\ r.action = action

FirstStep(action, item) ==
    CASE action = Mark \/ (action = Retry /\ ~ item.stopped) -> "stop"
      [] action = Retry /\ item.stopped -> "retry"
      [] action = Reconcile -> "move"
      [] action = Respond -> "load"
      [] action \in Audits -> "receipt"
      [] OTHER -> "done"

Post(q) ==
    /\ TakesRequests
    /\ req[q].pc = "viewed"
    /\ \E s \in Sights :
          LET item == ItemAt(s)
              action == req[q].action
              accepted == /\ item.evidence = req[q].item.evidence
                          /\ item.class \in OfferedFor(action)
          IN  /\ req' = [req EXCEPT ![q].item = item,
                            ![q].pc = IF ~ accepted THEN "refused"
                                      ELSE IF HasReceipt(item.evidence, action) THEN "done"
                                      ELSE FirstStep(action, item)]
              /\ blinds' = Blinded(s)
    /\ UNCHANGED <<sourceVars, serverVars, diskVars, runVars, faults>>

\* writeInterruptionEvidence up to the copy: the source may have moved on since
\* it was reconciled, and a snapshot that is there must be of this document.
\* A snapshot that is there is taken as it is.
FitsAnyway(there, item) == TRUE
Fits(there, item) == \A s \in there : s.document = DocumentOf(item)

Preserves(a) ==
    /\ req[a].pc = "stop"
    /\ LET item == req[a].item
           there == SnapshotAt(PlaceOf(item))
       IN  IF ~ StillThere(item) \/ ~ Fits(there, item)
           THEN Goes(a, "failed") /\ UNCHANGED snapshots
           ELSE /\ Goes(a, "record")
                /\ snapshots' = IF there # {} THEN snapshots ELSE
                     snapshots \cup {[place |-> PlaceOf(item), document |-> DocumentOf(item)]}
    /\ UNCHANGED <<sourceVars, serverVars, stops, receipts, runVars, boundVars>>

StopOf(a) == LET item == req[a].item IN
    [place |-> PlaceOf(item), evidence |-> item.evidence, document |-> DocumentOf(item),
     reason |-> ReasonOf(req[a].action)]

AfterStop(action) ==
    CASE action = Mark -> "receipt" [] action = Retry -> "retry" [] OTHER -> "done"

\* A stop record of another identity is a conflict, of the same one a replay.
\* Another stop record is overlooked, as without noReplace.
ConflictsNever(stop) == FALSE
Conflicts(stop) == \E s \in stops : s.place = stop.place /\ s # stop

Records(a) ==
    /\ req[a].pc = "record"
    /\ IF Conflicts(StopOf(a))
       THEN Goes(a, "failed") /\ UNCHANGED stops
       ELSE Goes(a, AfterStop(req[a].action)) /\ stops' = stops \cup {StopOf(a)}
    /\ UNCHANGED <<sourceVars, serverVars, snapshots, receipts, runVars, boundVars>>

\* The promise of an earlier retry is not kept.
PriorForgotten(e) == {}
\* recoveries, which a new server starts without.
Prior(e) == {r \in runs : r.evidence = e /\ r.generation = generation}

\* The active mission is not looked at.
OneActiveUnchecked == FALSE
OneActive == active # Nobody

\* The relay's shuttingDown, which nothing takes back.
ShuttingDown == serving = "stopping"

RetryRefused(q) ==
    /\ req[q].pc = "retry"
    /\ ShuttingDown \/ OneActive
    /\ Goes(q, "failed")
    /\ UNCHANGED <<sourceVars, serverVars, diskVars, runVars, boundVars>>

RetryReplays(q) ==
    /\ req[q].pc = "retry"
    /\ ~ ShuttingDown /\ ~ OneActive
    /\ Prior(req[q].item.evidence) # {}
    /\ Goes(q, IF Prior(req[q].item.evidence) \subseteq finished THEN "receipt" ELSE "failed")
    /\ UNCHANGED <<sourceVars, serverVars, diskVars, runVars, boundVars>>

RetryStarts(q) ==
    /\ req[q].pc = "retry"
    /\ ~ ShuttingDown /\ ~ OneActive
    /\ Prior(req[q].item.evidence) = {}
    /\ runs' = runs \cup
         {[evidence |-> req[q].item.evidence, generation |-> generation, by |-> q]}
    /\ active' = q
    /\ Goes(q, "preparing")
    /\ UNCHANGED <<sourceVars, serving, generation, loaded, diskVars, finished, failed, boundVars>>

\* The preparation wrapper reads the interruption evidence and the source again.
SourceStillOpen == stage \in {"queued", "prepared", "working"}
\* Any stop record will do.
PreparationLax(item) == item.runtime /\ Stopped /\ SourceStillOpen
PreparationGood(item) ==
    /\ item.runtime
    /\ \E s \in StopAt(RuntimePlace) : s.evidence = item.evidence
    /\ SourceStillOpen

Prepares(q) ==
    /\ req[q].pc = "preparing"
    /\ ~ ShuttingDown /\ LoopFree
    /\ PreparationGood(req[q].item)
    /\ Goes(q, "running")
    /\ UNCHANGED <<sourceVars, serverVars, diskVars, runVars, boundVars>>

RunOf(q) == [evidence |-> req[q].item.evidence, generation |-> generation, by |-> q]

RunSucceeds(q) ==
    /\ req[q].pc = "running"
    /\ LoopFree
    /\ finished' = finished \cup {RunOf(q)}
    /\ active' = Nobody
    /\ Goes(q, "receipt")
    /\ UNCHANGED <<sourceVars, serving, generation, loaded, diskVars, runs, failed, boundVars>>

\* The rejection is recorded and the request not answered.
RunHangs(q) ==
    /\ req[q].pc \in {"preparing", "running"}
    /\ LoopFree
    /\ failed' = failed \cup {RunOf(q)}
    /\ UNCHANGED <<sourceVars, serverVars, diskVars, runs, finished, req, boundVars>>

\* A preparation that is refused, an executor a shutdown no longer lets start, or a
\* run that throws: only a record that was terminal by then gives the relay back.
RunThrows(q) ==
    /\ req[q].pc \in {"preparing", "running"}
    /\ LoopFree
    /\ failed' = failed \cup {RunOf(q)}
    /\ \/ active' = active
       \/ active' = Nobody /\ (req[q].pc = "running" \/ ShuttingDown)
    /\ Goes(q, "failed")
    /\ UNCHANGED <<sourceVars, serving, generation, loaded, diskVars, runs, finished, boundVars>>

\* loadReconciledTimRequired: the record must be of this evidence.
Loads(q) ==
    /\ req[q].pc = "load"
    /\ LET e == req[q].item.evidence
           fresh == loaded = <<"none", FALSE>>
       IN  \/ /\ loaded = e \/ (fresh /\ StillThere(req[q].item))
              /\ loaded' = e
              /\ Goes(q, "done")
           \/ /\ loaded # e
              /\ fresh => ~ StillThere(req[q].item)
              /\ Goes(q, "failed")
              /\ UNCHANGED loaded
    /\ UNCHANGED <<sourceVars, serving, generation, active, diskVars, runVars, boundVars>>

\* reconcileQueueFromCanonicalReceipt: a wrapper of its own moves the document.
WrapperStarts(q) ==
    /\ req[q].pc = "move"
    /\ Goes(q, IF StillThere(req[q].item) /\ ~ ShuttingDown THEN "wrapping" ELSE "failed")
    /\ UNCHANGED <<sourceVars, serverVars, diskVars, runVars, boundVars>>

WrapperMoves(q) ==
    /\ req[q].pc \in {"wrapping", "stray"}
    /\ stage = "received"
    /\ stage' = "admitted"
    /\ UNCHANGED <<executor, stray, serverVars, diskVars, runVars, req, boundVars>>

\* It accepts a document that was already moved; it may also fail or time out.
WrapperGood == stage = "admitted"

WrapperEnds(q) ==
    /\ req[q].pc = "wrapping"
    /\ LoopFree
    /\ \/ WrapperGood /\ Goes(q, "receipt")
       \/ Goes(q, "failed")
    /\ UNCHANGED <<sourceVars, serverVars, diskVars, runVars, boundVars>>

WritesReceipt(q) ==
    /\ req[q].pc = "receipt"
    /\ receipts' = receipts \cup
         {[evidence |-> req[q].item.evidence, action |-> req[q].action]}
    /\ Goes(q, "done")
    /\ UNCHANGED <<sourceVars, serverVars, snapshots, stops, runVars, boundVars>>

ReceiptFails(q) ==
    /\ req[q].pc = "receipt"
    /\ faults < MaxFaults
    /\ faults' = faults + 1
    /\ Goes(q, "failed")
    /\ UNCHANGED <<sourceVars, serverVars, diskVars, runVars, blinds>>

-----------------------------------------------------------------------------
(* The server                                                              *)

ShutdownBegins ==
    /\ serving = "up" /\ LoopFree
    /\ serving' = "stopping"
    /\ Goes(Shutdown, IF active = Source THEN "cleaning" ELSE "done")
    /\ UNCHANGED <<sourceVars, generation, active, loaded, diskVars, runVars, boundVars>>

\* recordInterruption, after the executor's close was confirmed.
ShutdownInterrupts ==
    /\ req[Shutdown].pc = "cleaning" /\ LoopFree
    /\ executor = "none"
    /\ \E s \in Sights :
          /\ req' = [req EXCEPT ![Shutdown].item = ItemAt(s), ![Shutdown].pc = "stop"]
          /\ blinds' = Blinded(s)
    /\ UNCHANGED <<sourceVars, serverVars, diskVars, runVars, faults>>

\* The cleanup throws, the children's close is not confirmed in time, or a file of
\* the last steps cannot be written.  Its promise is kept, so no later stop begins
\* another drain, and the server goes on without ending its sessions.
DrainFails ==
    /\ serving = "stopping" /\ LoopFree
    /\ req[Shutdown].pc \in {"cleaning", "done", "failed"}
    /\ Goes(Shutdown, "wedged")
    /\ UNCHANGED <<sourceVars, serverVars, diskVars, runVars, boundVars>>

\* Requests are not ended with their server.
OutlivesAnyway(pc) == pc
Outlives(pc) ==
    CASE pc \in {"wrapping", "stray"} -> "stray"
      [] pc \in Running \cup Awaiting -> "lost"
      [] OTHER -> pc
Stops == req' = [a \in Actors |-> IF a = Shutdown THEN Start
                                  ELSE [req[a] EXCEPT !.pc = Outlives(req[a].pc)]]

Exits ==
    /\ serving = "stopping" /\ LoopFree
    /\ req[Shutdown].pc \in {"done", "failed"}
    /\ serving' = "down" /\ active' = Nobody
    /\ Stops
    /\ UNCHANGED <<sourceVars, generation, loaded, diskVars, runVars, boundVars>>

\* A crash may come between any two writes, and inside the copy.
Torn == {[place |-> PlaceOf(req[a].item), document |-> "torn"] :
            a \in {b \in Actors : /\ req[b].pc = "stop"
                                  /\ SnapshotAt(PlaceOf(req[b].item)) = {}}}

Crash ==
    /\ serving # "down"
    /\ serving' = "down" /\ active' = Nobody
    /\ executor' = IF executor = "running" THEN "running" ELSE "none"
    /\ stray' = (executor = "running")
    /\ snapshots' \in {snapshots, snapshots \cup Torn}
    /\ Stops
    /\ UNCHANGED <<stage, generation, loaded, stops, receipts, runVars, boundVars>>

Restarts ==
    /\ serving = "down"
    /\ generation < MaxGenerations
    /\ serving' = "up" /\ generation' = generation + 1
    /\ loaded' = <<"none", FALSE>>
    /\ UNCHANGED <<sourceVars, active, diskVars, runVars, req, boundVars>>

-----------------------------------------------------------------------------
RequestStep(q) ==
    \/ View(q) \/ Post(q) \/ RetryRefused(q) \/ RetryReplays(q) \/ RetryStarts(q) \/ Prepares(q)
    \/ RunSucceeds(q) \/ RunThrows(q) \/ Loads(q) \/ WrapperStarts(q) \/ WrapperMoves(q)
    \/ WrapperEnds(q) \/ WritesReceipt(q) \/ ReceiptFails(q)

Next ==
    \/ SourceMoves \/ ExecutorExits \/ ExecutorClosed \/ AnswerArrives \/ RevisionPrepared
    \/ \E q \in Requests : RequestStep(q)
    \/ \E a \in Actors : Preserves(a) \/ Records(a)
    \/ ShutdownBegins \/ ShutdownInterrupts \/ DrainFails \/ Exits \/ Crash \/ Restarts

Spec == Init /\ [][Next]_vars

-----------------------------------------------------------------------------
(* Properties                                                              *)

\* A stop record is only ever written beside a snapshot of the very document it
\* names, also after a crash tore the copy (reliability.mjs, 1770-1775).
StopsAreBacked ==
    \A s \in stops : SnapshotAt(s.place) = {[place |-> s.place, document |-> s.document]}

\* The evidence directory of a run keeps one stop record, whoever asked for it:
\* the shutdown, an operator's mark, or a retry (reliability.mjs, 1811-1816).
OneStop == \A s, t \in stops : s.place = t.place => s = t

\* A receipt never claims what did not happen: a mark has its stop record, a
\* retry a stop record of that evidence and a run that resolved, a queue reconciliation the document in its place.
ReceiptsAreTrue ==
    \A r \in receipts :
        /\ r.action = Mark =>
             \E s \in stops : s.evidence = r.evidence /\ s.reason = ByOperator
        /\ r.action = Retry =>
             /\ \E n \in finished : n.evidence = r.evidence
             /\ \E s \in stops : s.evidence = r.evidence
        /\ r.action = Reconcile => stage = "admitted"

\* One server starts at most one new run for the same evidence, however often it
\* is asked and whatever became of the receipt (mission-relay.mjs, 1110-1112).
RetriedOnce ==
    \A m, n \in runs : m.evidence = n.evidence /\ m.generation = n.generation => m = n

\* No new run is under way beside the source's own executor while this server
\* owns that executor (mission-relay.mjs, 1108).
NoRunBesideSource ==
    active \in Requests => executor = "none" \/ stray

\* A durable retry receipt is the end of it, in this server and in every later
\* one: nothing is started again for that evidence (reliability.mjs, 1866-1877).
ReceiptEndsRetries ==
    [][\A n \in runs' \ runs :
          [evidence |-> n.evidence, action |-> Retry] \notin receipts]_vars

\* OWNERSHIP_AND_RECOVERY_CONTRACT.md:44: the identity of a recovery is its
\* source evidence and its action, "so a server/session restart cannot repeat a
\* recovery mutation".  It is repeated when the server ends, or fails to write,
\* between a new run and its receipt.
NeverRepeated == \A m, n \in finished : m.evidence = n.evidence => m = n

\* Every request the server took is answered, or its server is gone: a new run,
\* the wrapper and the shutdown all have their time limits.
RequestsEnd ==
    \A q \in Requests : req[q].pc \in Running \cup Awaiting ~> req[q].pc \in Closed

Serves(a) == Preserves(a) \/ Records(a)
Answers(q) ==
    \/ RetryRefused(q) \/ RetryReplays(q) \/ RetryStarts(q) \/ Prepares(q) \/ RunSucceeds(q)
    \/ RunThrows(q) \/ Loads(q) \/ WrapperStarts(q) \/ WrapperEnds(q) \/ WritesReceipt(q) \/ ReceiptFails(q)

Fairness ==
    /\ \A a \in Actors : WF_vars(Serves(a))
    /\ \A q \in Requests : WF_vars(Answers(q))

FairSpec == Spec /\ Fairness
=============================================================================
