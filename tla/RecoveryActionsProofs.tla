----------------------- MODULE RecoveryActionsProofs -----------------------
(***************************************************************************)
(* Proofs about RecoveryActions, for any requests, actions and bounds.     *)
(* OneAtATime says that two actors never hold the event loop together, and *)
(* Underway what an actor has done when it comes to a step: on them rest   *)
(* what the records on disk claim, and that a retry receipt is the end.    *)
(***************************************************************************)
EXTENDS RecoveryActions, TLAPS

-----------------------------------------------------------------------------
(* The stages                                                              *)

LEMMA StageNames ==
    /\ Stages = {"queued", "prepared", "working", "finished", "received", "admitted",
                 "asked", "responded", "revised", "denied"}
    /\ QueueOf["queued"] = "inbox"
    /\ ArtifactsOf["queued"] = "mission"
  BY DEF Stages, QueueOf, ArtifactsOf

LEMMA ClassTyped ==
    ASSUME NEW s \in Stages, NEW seen \in BOOLEAN, NEW owned \in BOOLEAN,
           NEW stopped \in BOOLEAN
    PROVE  Classify(s, seen, owned, stopped) \in Classes
  BY DEF Classes

LEMMA ItemTyped ==
    ASSUME stage \in Stages, NEW s \in [queue : BOOLEAN, process : BOOLEAN]
    PROVE  ItemAt(s) \in Items
<1>1. Stopped \in BOOLEAN /\ (Owned /\ s.process) \in BOOLEAN /\ s.queue \in BOOLEAN
  BY DEF Stopped, Owned
<1>2. Classify(stage, s.queue, Owned /\ s.process, Stopped) \in Classes
  <2> DEFINE owned == Owned /\ s.process
  <2>1. owned \in BOOLEAN OBVIOUS
  <2> HIDE DEF owned
  <2>2. Classify(stage, s.queue, owned, Stopped) \in Classes BY <1>1, <2>1, ClassTyped
  <2> QED BY <2>2 DEF owned
<1>3. <<ArtifactsOf[stage], s.queue>> \in Evidence BY <1>1 DEF Evidence
<1>4. HasRuntimeQueue(stage) \in BOOLEAN BY DEF HasRuntimeQueue
<1>5. QueueOf[stage] \in {QueueOf[t] : t \in Stages} OBVIOUS
<1> QED BY <1>1, <1>2, <1>3, <1>4, <1>5 DEF ItemAt, Items

LEMMA StartTyped == Start.item \in Items
<1>2. Classify("queued", TRUE, FALSE, FALSE) \in Classes BY StageNames, ClassTyped
<1>3. <<"mission", TRUE>> \in Evidence BY StageNames DEF Evidence
<1>4. "inbox" \in {QueueOf[s] : s \in Stages} BY StageNames
<1> QED BY <1>2, <1>3, <1>4 DEF Start, Items

LEMMA ItemFields ==
    ASSUME NEW item \in Items
    PROVE  /\ PlaceOf(item) \in Places
           /\ DocumentOf(item) \in Documents
           /\ item.evidence \in Evidence
  BY DEF Items, PlaceOf, Places, DocumentOf, Documents, Document

LEMMA Reasons == \A action : ReasonOf(action) \in {ByOperator, ByRetry, ByShutdown}
  BY DEF ReasonOf

LEMMA AfterStops == \A action : AfterStop(action) \in {"receipt", "retry", "done"}
  BY DEF AfterStop

LEMMA FirstSteps ==
    ASSUME NEW action, NEW item \in Items
    PROVE  FirstStep(action, item) \in {"stop", "retry", "move", "load", "receipt", "done"}
  BY DEF FirstStep

-----------------------------------------------------------------------------
(* Types                                                                   *)

PCs == {"idle", "viewed", "cleaning", "wedged"} \cup Running \cup Awaiting \cup Closed
Requested == [pc : PCs, action : Actions \cup {Shutdown}, item : Items]

\* An actor that goes on keeps its action and its item.
LEMMA GoesOn ==
    ASSUME req \in [Actors -> Requested], NEW a \in Actors, NEW pc \in PCs, Goes(a, pc)
    PROVE  /\ req' \in [Actors -> Requested]
           /\ req'[a].pc = pc /\ req'[a].action = req[a].action /\ req'[a].item = req[a].item
           /\ \A b \in Actors : b # a => req'[b] = req[b]
  BY DEF Goes, Requested

LEMMA StopsAll ==
    ASSUME req \in [Actors -> Requested], Stops
    PROVE  /\ req' \in [Actors -> Requested]
           /\ \A a \in Actors : req'[a].pc \notin Running \cup Awaiting
           /\ req'[Shutdown].pc = "idle"
<1>1. ASSUME NEW pc \in PCs PROVE Outlives(pc) \in PCs \ (Running \cup Awaiting)
  BY <1>1 DEF Outlives, PCs, Running, Awaiting, Closed
<1>2. Start \in Requested /\ Start.pc = "idle"
  BY StartTyped DEF Start, Requested, PCs
<1>3. ASSUME NEW a \in Actors
      PROVE  req'[a] \in Requested /\ req'[a].pc \notin Running \cup Awaiting
  <2>1. CASE a = Shutdown BY <1>2, <2>1 DEF Stops, Running, Awaiting
  <2>2. CASE a # Shutdown
    <3>1. req[a] \in Requested /\ req[a].pc \in PCs BY DEF Requested
    <3>2. req'[a] = [req[a] EXCEPT !.pc = Outlives(req[a].pc)] BY <2>2 DEF Stops
    <3>3. Outlives(req[a].pc) \in PCs \ (Running \cup Awaiting) BY <1>1, <3>1
    <3> QED BY <3>1, <3>2, <3>3 DEF Requested
  <2> QED BY <2>1, <2>2
<1>4. Shutdown \in Actors BY DEF Actors
<1> QED BY <1>2, <1>3, <1>4 DEF Stops

LEMMA InitTyped == ASSUME RecoveryAssumption, Init PROVE TypeOK
<1>1. Start \in Requested BY StartTyped DEF Start, Requested, PCs
<1>2. req \in [Actors -> Requested] /\ \A a \in Actors : req[a].pc = "idle"
  BY <1>1 DEF Init, Start
<1>3. stage \in Stages BY StageNames DEF Init
<1> QED BY <1>2, <1>3 DEF Init, TypeOK, Requested, PCs

ReqTyped == req \in [Actors -> Requested]
LEMMA TypedReq == TypeOK => ReqTyped
  BY DEF TypeOK, ReqTyped, Requested, PCs

LEMMA NextReqTyped ==
    ASSUME RecoveryAssumption, stage \in Stages, ReqTyped, Next
    PROVE  ReqTyped'
<1> USE DEF ReqTyped
<1>1. CASE SourceMoves
  BY <1>1 DEF SourceMoves
<1>2. CASE ExecutorExits
  BY <1>2 DEF ExecutorExits
<1>3. CASE ExecutorClosed
  BY <1>3 DEF ExecutorClosed
<1>4. CASE AnswerArrives
  BY <1>4 DEF AnswerArrives
<1>5. CASE RevisionPrepared
  BY <1>5 DEF RevisionPrepared
<1>6. ASSUME NEW q \in Requests, View(q)
      PROVE  ReqTyped'
  <2>1. PICK s \in Sights, action \in Actions :
           req' = [req EXCEPT ![q] = [pc |-> "viewed", action |-> action, item |-> ItemAt(s)]]
    BY <1>6 DEF View
  <2>2. ItemAt(s) \in Items BY ItemTyped DEF Sights
  <2> QED BY <2>1, <2>2 DEF Requested, PCs
<1>7. ASSUME NEW q \in Requests, Post(q)
      PROVE  ReqTyped'
  <2>1. req[q].action \in Actions \cup {Shutdown} BY DEF Actors, Requested
  <2>2. PICK s \in Sights :
          \E pc \in {"refused", "done", FirstStep(req[q].action, ItemAt(s))} :
             req' = [req EXCEPT ![q].item = ItemAt(s), ![q].pc = pc]
    BY <1>7 DEF Post
  <2>3. PICK pc \in {"refused", "done", FirstStep(req[q].action, ItemAt(s))} :
           req' = [req EXCEPT ![q].item = ItemAt(s), ![q].pc = pc]
    BY <2>2
  <2>4. ItemAt(s) \in Items BY ItemTyped DEF Sights
  <2>5. pc \in PCs
    BY <2>1, <2>3, <2>4, FirstSteps DEF PCs, Running, Closed
  <2>6. q \in Actors /\ req[q] \in Requested BY DEF Actors
  <2>7. [req[q] EXCEPT !.item = ItemAt(s), !.pc = pc] \in Requested
    BY <2>4, <2>5, <2>6 DEF Requested
  <2>8. req' = [req EXCEPT ![q] = [req[q] EXCEPT !.item = ItemAt(s), !.pc = pc]]
    BY <2>3, <2>6 DEF Requested
  <2> HIDE DEF Requested
  <2> QED BY <2>6, <2>7, <2>8
<1>8. ASSUME NEW q \in Requests, RetryRefused(q)
      PROVE  ReqTyped'
  <2>1. q \in Actors BY <1>8 DEF Actors
  <2>2. PICK pc \in {"failed"} : Goes(q, pc) BY <1>8 DEF RetryRefused
  <2> QED BY <2>1, <2>2, GoesOn DEF PCs, Running, Awaiting, Closed
<1>9. ASSUME NEW q \in Requests, RetryReplays(q)
      PROVE  ReqTyped'
  <2>1. q \in Actors BY <1>9 DEF Actors
  <2>2. PICK pc \in {"receipt", "failed"} : Goes(q, pc) BY <1>9 DEF RetryReplays
  <2> QED BY <2>1, <2>2, GoesOn DEF PCs, Running, Awaiting, Closed
<1>10. ASSUME NEW q \in Requests, RetryStarts(q)
      PROVE  ReqTyped'
  <2>1. q \in Actors BY <1>10 DEF Actors
  <2>2. PICK pc \in {"preparing"} : Goes(q, pc) BY <1>10 DEF RetryStarts
  <2> QED BY <2>1, <2>2, GoesOn DEF PCs, Running, Awaiting, Closed
<1>11. ASSUME NEW q \in Requests, Prepares(q)
      PROVE  ReqTyped'
  <2>1. q \in Actors BY <1>11 DEF Actors
  <2>2. PICK pc \in {"running"} : Goes(q, pc) BY <1>11 DEF Prepares
  <2> QED BY <2>1, <2>2, GoesOn DEF PCs, Running, Awaiting, Closed
<1>12. ASSUME NEW q \in Requests, RunSucceeds(q)
      PROVE  ReqTyped'
  <2>1. q \in Actors BY <1>12 DEF Actors
  <2>2. PICK pc \in {"receipt"} : Goes(q, pc) BY <1>12 DEF RunSucceeds
  <2> QED BY <2>1, <2>2, GoesOn DEF PCs, Running, Awaiting, Closed
<1>13. ASSUME NEW q \in Requests, RunThrows(q)
      PROVE  ReqTyped'
  <2>1. q \in Actors BY <1>13 DEF Actors
  <2>2. PICK pc \in {"failed"} : Goes(q, pc) BY <1>13 DEF RunThrows
  <2> QED BY <2>1, <2>2, GoesOn DEF PCs, Running, Awaiting, Closed
<1>14. ASSUME NEW q \in Requests, Loads(q)
      PROVE  ReqTyped'
  <2>1. q \in Actors BY <1>14 DEF Actors
  <2>2. PICK pc \in {"done", "failed"} : Goes(q, pc) BY <1>14 DEF Loads
  <2> QED BY <2>1, <2>2, GoesOn DEF PCs, Running, Awaiting, Closed
<1>15. ASSUME NEW q \in Requests, WrapperStarts(q)
      PROVE  ReqTyped'
  <2>1. q \in Actors BY <1>15 DEF Actors
  <2>2. PICK pc \in {"wrapping", "failed"} : Goes(q, pc) BY <1>15 DEF WrapperStarts
  <2> QED BY <2>1, <2>2, GoesOn DEF PCs, Running, Awaiting, Closed
<1>16. ASSUME NEW q \in Requests, WrapperMoves(q)
      PROVE  ReqTyped'
  BY <1>16 DEF WrapperMoves
<1>17. ASSUME NEW q \in Requests, WrapperEnds(q)
      PROVE  ReqTyped'
  <2>1. q \in Actors BY <1>17 DEF Actors
  <2>2. PICK pc \in {"receipt", "failed"} : Goes(q, pc) BY <1>17 DEF WrapperEnds
  <2> QED BY <2>1, <2>2, GoesOn DEF PCs, Running, Awaiting, Closed
<1>18. ASSUME NEW q \in Requests, WritesReceipt(q)
      PROVE  ReqTyped'
  <2>1. q \in Actors BY <1>18 DEF Actors
  <2>2. PICK pc \in {"done"} : Goes(q, pc) BY <1>18 DEF WritesReceipt
  <2> QED BY <2>1, <2>2, GoesOn DEF PCs, Running, Awaiting, Closed
<1>19. ASSUME NEW q \in Requests, ReceiptFails(q)
      PROVE  ReqTyped'
  <2>1. q \in Actors BY <1>19 DEF Actors
  <2>2. PICK pc \in {"failed"} : Goes(q, pc) BY <1>19 DEF ReceiptFails
  <2> QED BY <2>1, <2>2, GoesOn DEF PCs, Running, Awaiting, Closed
<1>20. ASSUME NEW a \in Actors, Preserves(a)
      PROVE  ReqTyped'
  <2>1. a \in Actors BY <1>20 DEF Actors
  <2>2. PICK pc \in {"failed", "record"} : Goes(a, pc) BY <1>20 DEF Preserves
  <2> QED BY <2>1, <2>2, GoesOn DEF PCs, Running, Awaiting, Closed
<1>21. ASSUME NEW a \in Actors, Records(a)
      PROVE  ReqTyped'
  <2>1. a \in Actors BY <1>21
  <2>2. PICK pc \in {"failed", "receipt", "retry", "done"} : Goes(a, pc)
    BY <1>21, AfterStops DEF Records
  <2> QED BY <2>1, <2>2, GoesOn DEF PCs, Running, Awaiting, Closed
<1>22. CASE ShutdownBegins
  <2>1. Shutdown \in Actors BY DEF Actors
  <2>2. PICK pc \in {"cleaning", "done"} : Goes(Shutdown, pc) BY <1>22 DEF ShutdownBegins
  <2> QED BY <2>1, <2>2, GoesOn DEF PCs, Running, Awaiting, Closed
<1>23. CASE ShutdownInterrupts
  <2>1. PICK s \in Sights :
           req' = [req EXCEPT ![Shutdown].item = ItemAt(s), ![Shutdown].pc = "stop"]
    BY <1>23 DEF ShutdownInterrupts
  <2>2. ItemAt(s) \in Items BY ItemTyped DEF Sights
  <2>3. "stop" \in PCs BY DEF PCs, Running
  <2>4. Shutdown \in Actors BY DEF Actors
  <2> DEFINE one == [req[Shutdown] EXCEPT !.item = ItemAt(s), !.pc = "stop"]
  <2>5. one \in Requested BY <2>2, <2>3, <2>4 DEF Requested, ReqTyped
  <2>6. req' = [req EXCEPT ![Shutdown] = one] BY <2>1
  <2> HIDE DEF one
  <2> QED BY <2>4, <2>5, <2>6 DEF ReqTyped
<1>24. CASE Exits
  BY <1>24, StopsAll DEF Exits
<1>25. CASE Crash
  BY <1>25, StopsAll DEF Crash
<1>26. CASE Restarts
  BY <1>26 DEF Restarts
<1>27. CASE DrainFails
  <2>1. Shutdown \in Actors BY DEF Actors
  <2>2. PICK pc \in {"wedged"} : Goes(Shutdown, pc) BY <1>27 DEF DrainFails
  <2> QED BY <2>1, <2>2, GoesOn DEF PCs, Running, Awaiting, Closed
<1> QED BY <1>1, <1>2, <1>3, <1>4, <1>5, <1>6, <1>7, <1>8, <1>9, <1>10, <1>11,
          <1>12, <1>13, <1>14, <1>15, <1>16, <1>17, <1>18, <1>19, <1>20, <1>21,
          <1>22, <1>23, <1>24, <1>25, <1>26, <1>27
  DEF Next, RequestStep

-----------------------------------------------------------------------------
(* How an actor moves                                                      *)

Moved(a, pc) ==
    /\ req'[a].pc = pc /\ req'[a].action = req[a].action /\ req'[a].item = req[a].item
    /\ \A b \in Actors : b # a => req'[b] = req[b]

LEMMA Moves ==
    ASSUME ReqTyped
    PROVE  \A a \in Actors, pc \in PCs : Goes(a, pc) => Moved(a, pc)
  BY GoesOn DEF ReqTyped, Moved

LEMMA Views ==
    ASSUME ReqTyped, NEW q \in Requests, View(q)
    PROVE  /\ req'[q].pc = "viewed" /\ req'[q].action \in Actions
           /\ \A b \in Actors : b # q => req'[b] = req[b]
  BY DEF View, ReqTyped, Requested, Actors

LEMMA Posts ==
    ASSUME ReqTyped, stage \in Stages, NEW q \in Requests, Post(q)
    PROVE  /\ req[q].pc = "viewed" /\ req'[q].action = req[q].action
           /\ req'[q].item \in Items
           /\ \/ req'[q].pc \in {"refused", "done"}
              \/ /\ req'[q].pc = FirstStep(req[q].action, req'[q].item)
                 /\ ~ HasReceipt(req'[q].item.evidence, req[q].action)
           /\ \A b \in Actors : b # q => req'[b] = req[b]
<1>1. PICK s \in Sights : \E pc :
          /\ req' = [req EXCEPT ![q].item = ItemAt(s), ![q].pc = pc]
          /\ \/ pc \in {"refused", "done"}
             \/ /\ pc = FirstStep(req[q].action, ItemAt(s))
                /\ ~ HasReceipt(ItemAt(s).evidence, req[q].action)
  BY DEF Post
<1>2. PICK pc :
          /\ req' = [req EXCEPT ![q].item = ItemAt(s), ![q].pc = pc]
          /\ \/ pc \in {"refused", "done"}
             \/ /\ pc = FirstStep(req[q].action, ItemAt(s))
                /\ ~ HasReceipt(ItemAt(s).evidence, req[q].action)
  BY <1>1
<1>3. q \in Actors /\ req[q] \in Requested BY DEF Actors, ReqTyped
<1>4. ItemAt(s) \in Items BY ItemTyped DEF Sights
<1>5. /\ req'[q].item = ItemAt(s) /\ req'[q].pc = pc
      /\ req'[q].action = req[q].action
      /\ \A b \in Actors : b # q => req'[b] = req[b]
  BY <1>2, <1>3 DEF ReqTyped, Requested
<1>6. req[q].pc = "viewed" BY DEF Post
<1> HIDE DEF Items
<1> QED BY <1>2, <1>4, <1>5, <1>6

LEMMA Interrupts ==
    ASSUME ReqTyped, stage \in Stages, ShutdownInterrupts
    PROVE  /\ req'[Shutdown].pc = "stop"
           /\ req'[Shutdown].action = req[Shutdown].action
           /\ req'[Shutdown].item \in Items
           /\ \A b \in Actors : b # Shutdown => req'[b] = req[b]
<1>1. PICK s \in Sights :
        req' = [req EXCEPT ![Shutdown].item = ItemAt(s), ![Shutdown].pc = "stop"]
  BY DEF ShutdownInterrupts
<1>2. ItemAt(s) \in Items BY ItemTyped DEF Sights
<1>3. Shutdown \in Actors BY DEF Actors
<1> QED BY <1>1, <1>2, <1>3 DEF ReqTyped, Requested

LEMMA Ceases ==
    ASSUME ReqTyped, Stops
    PROVE  /\ \A a \in Actors : req'[a].pc \notin Running \cup Awaiting
           /\ req'[Shutdown] = Start
           /\ \A a \in Actors \ {Shutdown} :
                 /\ req'[a].action = req[a].action /\ req'[a].item = req[a].item
                 /\ req[a].pc = "idle" => req'[a].pc = "idle"
                 /\ req'[a].pc = "idle" => req[a].pc = "idle"
<1>1. Shutdown \in Actors BY DEF Actors
<1>2. ASSUME NEW a \in Actors \ {Shutdown}
      PROVE  /\ req'[a].action = req[a].action /\ req'[a].item = req[a].item
             /\ req[a].pc = "idle" => req'[a].pc = "idle"
             /\ req'[a].pc = "idle" => req[a].pc = "idle"
  <2>1. req[a] \in Requested BY DEF ReqTyped
  <2>2. req'[a] = [req[a] EXCEPT !.pc = Outlives(req[a].pc)] BY DEF Stops
  <2>3. Outlives("idle") = "idle" BY DEF Outlives, Running, Awaiting
  <2>4. Outlives(req[a].pc) = "idle" => req[a].pc = "idle" BY DEF Outlives
  <2> QED BY <2>1, <2>2, <2>3, <2>4 DEF Requested
<1>3. \A a \in Actors : req'[a].pc \notin Running \cup Awaiting
  BY StopsAll DEF ReqTyped
<1> QED BY <1>1, <1>2, <1>3 DEF Stops

-----------------------------------------------------------------------------
(* Who acts at which step                                                  *)

ActionFits(a) ==
    /\ a = Shutdown =>
         /\ req[a].action = Shutdown
         /\ req[a].pc \in {"idle", "cleaning", "wedged", "stop", "record", "done", "failed"}
    /\ a # Shutdown /\ req[a].pc # "idle" => req[a].action \in Actions
    /\ req[a].pc \in {"retry", "preparing", "running"} => req[a].action = Retry
    /\ req[a].pc \in {"move", "wrapping"} => req[a].action = Reconcile
    /\ req[a].pc \in {"stop", "record"} => req[a].action \in {Mark, Retry, Shutdown}
ActionsFit == \A a \in Actors : ActionFits(a)

LEMMA NextActionsFit ==
    ASSUME RecoveryAssumption, stage \in Stages, ReqTyped, ActionsFit, Next
    PROVE  ActionsFit'
<1> USE DEF RecoveryAssumption, ActionsFit, ActionFits, Actors, PCs, Running,
           Awaiting, Closed, sourceVars, serverVars, diskVars, runVars,
           boundVars
<1>1. CASE SourceMoves
  BY <1>1 DEF SourceMoves
<1>2. CASE ExecutorExits
  BY <1>2 DEF ExecutorExits
<1>3. CASE ExecutorClosed
  BY <1>3 DEF ExecutorClosed
<1>4. CASE AnswerArrives
  BY <1>4 DEF AnswerArrives
<1>5. CASE RevisionPrepared
  BY <1>5 DEF RevisionPrepared
<1>6. ASSUME NEW q \in Requests, View(q)
      PROVE  ActionsFit'
  BY <1>6, Views DEF View
<1>7. ASSUME NEW q \in Requests, Post(q)
      PROVE  ActionsFit'
  <2>1. q \in Actors /\ q # Shutdown BY DEF Shutdown
  <2>2. /\ req[q].pc = "viewed" /\ req'[q].action = req[q].action
        /\ \/ req'[q].pc \in {"refused", "done"}
           \/ req'[q].pc = FirstStep(req[q].action, req'[q].item)
        /\ \A b \in Actors : b # q => req'[b] = req[b]
    BY <1>7, Posts
  <2>3. req[q].action \in Actions BY <2>1, <2>2
  <2>4. /\ req'[q].pc \in {"stop", "retry", "move", "load", "receipt", "done", "refused"}
        /\ req'[q].pc = "stop" => req[q].action \in {Mark, Retry}
        /\ req'[q].pc = "retry" => req[q].action = Retry
        /\ req'[q].pc = "move" => req[q].action = Reconcile
    BY <2>2 DEF FirstStep, Mark, Retry, Reconcile, Respond, Audits
  <2> QED BY <2>1, <2>2, <2>3, <2>4
<1>8. ASSUME NEW q \in Requests, RetryRefused(q)
      PROVE  ActionsFit'
  BY <1>8, Moves DEF RetryRefused, Moved
<1>9. ASSUME NEW q \in Requests, RetryReplays(q)
      PROVE  ActionsFit'
  BY <1>9, Moves DEF RetryReplays, Moved, Shutdown
<1>10. ASSUME NEW q \in Requests, RetryStarts(q)
      PROVE  ActionsFit'
  BY <1>10, Moves DEF RetryStarts, Moved
<1>11. ASSUME NEW q \in Requests, Prepares(q)
      PROVE  ActionsFit'
  BY <1>11, Moves DEF Prepares, Moved
<1>12. ASSUME NEW q \in Requests, RunSucceeds(q)
      PROVE  ActionsFit'
  BY <1>12, Moves DEF RunSucceeds, Moved
<1>13. ASSUME NEW q \in Requests, RunThrows(q)
      PROVE  ActionsFit'
  BY <1>13, Moves DEF RunThrows, Moved
<1>14. ASSUME NEW q \in Requests, Loads(q)
      PROVE  ActionsFit'
  <2>1. Goes(q, "done") \/ Goes(q, "failed") BY <1>14 DEF Loads
  <2>2. req[q].pc = "load" BY <1>14 DEF Loads
  <2> QED BY <2>1, <2>2, Moves DEF Moved
<1>15. ASSUME NEW q \in Requests, WrapperStarts(q)
      PROVE  ActionsFit'
  BY <1>15, Moves DEF WrapperStarts, Moved
<1>16. ASSUME NEW q \in Requests, WrapperMoves(q)
      PROVE  ActionsFit'
  BY <1>16 DEF WrapperMoves
<1>17. ASSUME NEW q \in Requests, WrapperEnds(q)
      PROVE  ActionsFit'
  BY <1>17, Moves DEF WrapperEnds, Moved
<1>18. ASSUME NEW q \in Requests, WritesReceipt(q)
      PROVE  ActionsFit'
  BY <1>18, Moves DEF WritesReceipt, Moved
<1>19. ASSUME NEW q \in Requests, ReceiptFails(q)
      PROVE  ActionsFit'
  BY <1>19, Moves DEF ReceiptFails, Moved
<1>20. ASSUME NEW a \in Actors, Preserves(a)
      PROVE  ActionsFit'
  BY <1>20, Moves DEF Preserves, Moved
<1>21. ASSUME NEW a \in Actors, Records(a)
      PROVE  ActionsFit'
  BY <1>21, Moves DEF Records, Moved, AfterStop, Mark, Retry, Shutdown
<1>22. CASE ShutdownBegins
  BY <1>22, Moves DEF ShutdownBegins, Moved
<1>23. CASE ShutdownInterrupts
  BY <1>23, Interrupts DEF ShutdownInterrupts
<1>24. CASE Exits
  BY <1>24, Ceases DEF Exits, Start
<1>25. CASE Crash
  BY <1>25, Ceases DEF Crash, Start
<1>26. CASE Restarts
  BY <1>26 DEF Restarts
<1>27. CASE DrainFails
  BY <1>27, Moves DEF DrainFails, Moved
<1> QED BY <1>1, <1>2, <1>3, <1>4, <1>5, <1>6, <1>7, <1>8, <1>9, <1>10, <1>11,
          <1>12, <1>13, <1>14, <1>15, <1>16, <1>17, <1>18, <1>19, <1>20, <1>21,
          <1>22, <1>23, <1>24, <1>25, <1>26, <1>27
  DEF Next, RequestStep

-----------------------------------------------------------------------------
(* Types                                                                   *)

\* Nothing but a wrapper goes on without its server.
Quiet ==
    serving = "down" =>
        /\ active = Nobody /\ req[Shutdown].pc = "idle"
        /\ \A a \in Actors : req[a].pc \notin Running \cup Awaiting

SourceTyped ==
    /\ stage \in Stages
    /\ executor \in {"running", "exited", "none"}
    /\ stray \in BOOLEAN
    /\ serving \in {"up", "stopping", "down"}
    /\ generation \in Nat
    /\ active \in Requests \cup {Source, Nobody}
    /\ loaded \in Evidence \cup {<<"none", FALSE>>, <<"own", TRUE>>}
    /\ blinds \in Nat
    /\ faults \in Nat
DiskTyped ==
    /\ snapshots \subseteq [place : Places, document : Documents \cup {"torn"}]
    /\ stops \subseteq [place : Places, evidence : Evidence, document : Documents,
                        reason : {ByOperator, ByRetry, ByShutdown}]
    /\ receipts \subseteq [evidence : Evidence, action : Actions]
RunsTyped ==
    /\ runs \subseteq [evidence : Evidence, generation : Nat, by : Requests]
    /\ finished \subseteq runs
    /\ failed \subseteq runs
    /\ \A q \in Requests :
          req[q].pc \in {"preparing", "running"} => RunOf(q) \in runs
Typed == ReqTyped /\ ActionsFit /\ Quiet /\ SourceTyped /\ DiskTyped /\ RunsTyped

LEMMA TypedOK == Typed => TypeOK
  BY DEF Typed, ReqTyped, Quiet, SourceTyped, DiskTyped, RunsTyped, TypeOK, Requested,
         PCs

LEMMA ItemOf ==
    ASSUME ReqTyped, NEW a \in Actors
    PROVE  req[a].item \in Items /\ req[a].item.evidence \in Evidence
<1>1. req[a].item \in Items BY DEF ReqTyped, Requested
<1> QED BY <1>1, ItemFields

LEMMA NextQuiet ==
    ASSUME RecoveryAssumption, stage \in Stages, ReqTyped, Quiet, Next
    PROVE  Quiet'
<1> USE DEF RecoveryAssumption, Quiet, Actors, PCs, Running, Awaiting, Closed,
           sourceVars, serverVars, diskVars, runVars, boundVars
<1>1. CASE SourceMoves
  BY <1>1 DEF SourceMoves
<1>2. CASE ExecutorExits
  BY <1>2 DEF ExecutorExits
<1>3. CASE ExecutorClosed
  BY <1>3 DEF ExecutorClosed
<1>4. CASE AnswerArrives
  BY <1>4 DEF AnswerArrives
<1>5. CASE RevisionPrepared
  BY <1>5 DEF RevisionPrepared
<1>6. ASSUME NEW q \in Requests, View(q)
      PROVE  Quiet'
  BY <1>6, Views DEF View
<1>7. ASSUME NEW q \in Requests, Post(q)
      PROVE  Quiet'
  <2>1. serving' # "down" BY <1>7 DEF Post, TakesRequests
  <2> QED BY <2>1 DEF Quiet
<1>8. ASSUME NEW q \in Requests, RetryRefused(q)
      PROVE  Quiet'
  BY <1>8, Moves DEF RetryRefused, Moved
<1>9. ASSUME NEW q \in Requests, RetryReplays(q)
      PROVE  Quiet'
  BY <1>9, Moves DEF RetryReplays, Moved
<1>10. ASSUME NEW q \in Requests, RetryStarts(q)
      PROVE  Quiet'
  BY <1>10, Moves DEF RetryStarts, Moved
<1>11. ASSUME NEW q \in Requests, Prepares(q)
      PROVE  Quiet'
  BY <1>11, Moves DEF Prepares, Moved
<1>12. ASSUME NEW q \in Requests, RunSucceeds(q)
      PROVE  Quiet'
  BY <1>12, Moves DEF RunSucceeds, Moved
<1>13. ASSUME NEW q \in Requests, RunThrows(q)
      PROVE  Quiet'
  BY <1>13, Moves DEF RunThrows, Moved
<1>14. ASSUME NEW q \in Requests, Loads(q)
      PROVE  Quiet'
  BY <1>14 DEF Loads
<1>15. ASSUME NEW q \in Requests, WrapperStarts(q)
      PROVE  Quiet'
  BY <1>15, Moves DEF WrapperStarts, Moved
<1>16. ASSUME NEW q \in Requests, WrapperMoves(q)
      PROVE  Quiet'
  BY <1>16 DEF WrapperMoves
<1>17. ASSUME NEW q \in Requests, WrapperEnds(q)
      PROVE  Quiet'
  BY <1>17, Moves DEF WrapperEnds, Moved
<1>18. ASSUME NEW q \in Requests, WritesReceipt(q)
      PROVE  Quiet'
  BY <1>18, Moves DEF WritesReceipt, Moved
<1>19. ASSUME NEW q \in Requests, ReceiptFails(q)
      PROVE  Quiet'
  BY <1>19, Moves DEF ReceiptFails, Moved
<1>20. ASSUME NEW a \in Actors, Preserves(a)
      PROVE  Quiet'
  BY <1>20, Moves DEF Preserves, Moved
<1>21. ASSUME NEW a \in Actors, Records(a)
      PROVE  Quiet'
  BY <1>21, Moves DEF Records, Moved
<1>22. CASE ShutdownBegins
  BY <1>22, Moves DEF ShutdownBegins, Moved
<1>23. CASE ShutdownInterrupts
  BY <1>23, Interrupts DEF ShutdownInterrupts
<1>24. CASE Exits
  BY <1>24, Ceases DEF Exits, Start
<1>25. CASE Crash
  BY <1>25, Ceases DEF Crash, Start
<1>26. CASE Restarts
  BY <1>26 DEF Restarts
<1>27. CASE DrainFails
  BY <1>27, Moves DEF DrainFails, Moved
<1> QED BY <1>1, <1>2, <1>3, <1>4, <1>5, <1>6, <1>7, <1>8, <1>9, <1>10, <1>11,
          <1>12, <1>13, <1>14, <1>15, <1>16, <1>17, <1>18, <1>19, <1>20, <1>21,
          <1>22, <1>23, <1>24, <1>25, <1>26, <1>27
  DEF Next, RequestStep

LEMMA NextSourceTyped ==
    ASSUME RecoveryAssumption, ReqTyped, SourceTyped, Next
    PROVE  SourceTyped'
<1> USE DEF RecoveryAssumption, SourceTyped, sourceVars, serverVars, diskVars,
           runVars, boundVars
<1>1. CASE SourceMoves
  BY <1>1, StageNames DEF SourceMoves, NextStages
<1>2. CASE ExecutorExits
  BY <1>2 DEF ExecutorExits
<1>3. CASE ExecutorClosed
  BY <1>3 DEF ExecutorClosed
<1>4. CASE AnswerArrives
  BY <1>4, StageNames DEF AnswerArrives
<1>5. CASE RevisionPrepared
  BY <1>5, StageNames DEF RevisionPrepared
<1>6. ASSUME NEW q \in Requests, View(q)
      PROVE  SourceTyped'
  <2>1. PICK s \in Sights : blinds' = Blinded(s) BY <1>6 DEF View
  <2>2. blinds' \in Nat BY <2>1 DEF Blinded
  <2> QED BY <1>6, <2>2 DEF View
<1>7. ASSUME NEW q \in Requests, Post(q)
      PROVE  SourceTyped'
  <2>1. PICK s \in Sights : blinds' = Blinded(s) BY <1>7 DEF Post
  <2>2. blinds' \in Nat BY <2>1 DEF Blinded
  <2> QED BY <1>7, <2>2 DEF Post
<1>8. ASSUME NEW q \in Requests, RetryRefused(q)
      PROVE  SourceTyped'
  BY <1>8 DEF RetryRefused, Goes
<1>9. ASSUME NEW q \in Requests, RetryReplays(q)
      PROVE  SourceTyped'
  BY <1>9 DEF RetryReplays, Goes
<1>10. ASSUME NEW q \in Requests, RetryStarts(q)
      PROVE  SourceTyped'
  BY <1>10 DEF RetryStarts, Goes
<1>11. ASSUME NEW q \in Requests, Prepares(q)
      PROVE  SourceTyped'
  BY <1>11 DEF Prepares, Goes
<1>12. ASSUME NEW q \in Requests, RunSucceeds(q)
      PROVE  SourceTyped'
  BY <1>12 DEF RunSucceeds, Goes
<1>13. ASSUME NEW q \in Requests, RunThrows(q)
      PROVE  SourceTyped'
  BY <1>13 DEF RunThrows, Goes
<1>14. ASSUME NEW q \in Requests, Loads(q)
      PROVE  SourceTyped'
  <2>1. req[q].item.evidence \in Evidence BY <1>14, ItemOf DEF Actors
  <2>2. loaded' \in {loaded, req[q].item.evidence} BY <1>14 DEF Loads
  <2> QED BY <1>14, <2>1, <2>2 DEF Loads
<1>15. ASSUME NEW q \in Requests, WrapperStarts(q)
      PROVE  SourceTyped'
  BY <1>15 DEF WrapperStarts, Goes
<1>16. ASSUME NEW q \in Requests, WrapperMoves(q)
      PROVE  SourceTyped'
  BY <1>16, StageNames DEF WrapperMoves
<1>17. ASSUME NEW q \in Requests, WrapperEnds(q)
      PROVE  SourceTyped'
  BY <1>17 DEF WrapperEnds, Goes
<1>18. ASSUME NEW q \in Requests, WritesReceipt(q)
      PROVE  SourceTyped'
  BY <1>18 DEF WritesReceipt, Goes
<1>19. ASSUME NEW q \in Requests, ReceiptFails(q)
      PROVE  SourceTyped'
  <2>1. faults' = faults + 1 BY <1>19 DEF ReceiptFails
  <2>2. faults \in Nat BY DEF SourceTyped
  <2>3. UNCHANGED <<sourceVars, serverVars, blinds>> BY <1>19 DEF ReceiptFails
  <2>4. faults' \in Nat BY <2>1, <2>2
  <2> QED BY <2>3, <2>4
<1>20. ASSUME NEW a \in Actors, Preserves(a)
      PROVE  SourceTyped'
  BY <1>20 DEF Preserves, Goes
<1>21. ASSUME NEW a \in Actors, Records(a)
      PROVE  SourceTyped'
  BY <1>21 DEF Records, Goes
<1>22. CASE ShutdownBegins
  BY <1>22 DEF ShutdownBegins, Goes
<1>23. CASE ShutdownInterrupts
  <2>1. PICK s \in Sights : blinds' = Blinded(s) BY <1>23 DEF ShutdownInterrupts
  <2>2. blinds' \in Nat BY <2>1 DEF Blinded
  <2> QED BY <1>23, <2>2 DEF ShutdownInterrupts
<1>24. CASE Exits
  BY <1>24 DEF Exits, Stops
<1>25. CASE Crash
  BY <1>25 DEF Crash, Stops
<1>26. CASE Restarts
  BY <1>26 DEF Restarts
<1>27. CASE DrainFails
  BY <1>27 DEF DrainFails, Goes
<1> QED BY <1>1, <1>2, <1>3, <1>4, <1>5, <1>6, <1>7, <1>8, <1>9, <1>10, <1>11,
          <1>12, <1>13, <1>14, <1>15, <1>16, <1>17, <1>18, <1>19, <1>20, <1>21,
          <1>22, <1>23, <1>24, <1>25, <1>26, <1>27
  DEF Next, RequestStep

LEMMA NextDiskTyped ==
    ASSUME RecoveryAssumption, ReqTyped, ActionsFit, DiskTyped, Next
    PROVE  DiskTyped'
<1> USE DEF RecoveryAssumption, DiskTyped, sourceVars, serverVars, diskVars,
           runVars, boundVars
<1>1. CASE SourceMoves
  BY <1>1 DEF SourceMoves
<1>2. CASE ExecutorExits
  BY <1>2 DEF ExecutorExits
<1>3. CASE ExecutorClosed
  BY <1>3 DEF ExecutorClosed
<1>4. CASE AnswerArrives
  BY <1>4 DEF AnswerArrives
<1>5. CASE RevisionPrepared
  BY <1>5 DEF RevisionPrepared
<1>6. ASSUME NEW q \in Requests, View(q)
      PROVE  DiskTyped'
  BY <1>6 DEF View
<1>7. ASSUME NEW q \in Requests, Post(q)
      PROVE  DiskTyped'
  BY <1>7 DEF Post
<1>8. ASSUME NEW q \in Requests, RetryRefused(q)
      PROVE  DiskTyped'
  BY <1>8 DEF RetryRefused, Goes
<1>9. ASSUME NEW q \in Requests, RetryReplays(q)
      PROVE  DiskTyped'
  BY <1>9 DEF RetryReplays, Goes
<1>10. ASSUME NEW q \in Requests, RetryStarts(q)
      PROVE  DiskTyped'
  BY <1>10 DEF RetryStarts, Goes
<1>11. ASSUME NEW q \in Requests, Prepares(q)
      PROVE  DiskTyped'
  BY <1>11 DEF Prepares, Goes
<1>12. ASSUME NEW q \in Requests, RunSucceeds(q)
      PROVE  DiskTyped'
  BY <1>12 DEF RunSucceeds, Goes
<1>13. ASSUME NEW q \in Requests, RunThrows(q)
      PROVE  DiskTyped'
  BY <1>13 DEF RunThrows, Goes
<1>14. ASSUME NEW q \in Requests, Loads(q)
      PROVE  DiskTyped'
  BY <1>14 DEF Loads, Goes
<1>15. ASSUME NEW q \in Requests, WrapperStarts(q)
      PROVE  DiskTyped'
  BY <1>15 DEF WrapperStarts, Goes
<1>16. ASSUME NEW q \in Requests, WrapperMoves(q)
      PROVE  DiskTyped'
  BY <1>16 DEF WrapperMoves
<1>17. ASSUME NEW q \in Requests, WrapperEnds(q)
      PROVE  DiskTyped'
  BY <1>17 DEF WrapperEnds, Goes
<1>18. ASSUME NEW q \in Requests, WritesReceipt(q)
      PROVE  DiskTyped'
  <2>1. req[q].item.evidence \in Evidence BY <1>18, ItemOf DEF Actors
  <2>2. req[q].action \in Actions
    BY <1>18 DEF WritesReceipt, ActionsFit, ActionFits, Actors
  <2> QED BY <1>18, <2>1, <2>2 DEF WritesReceipt
<1>19. ASSUME NEW q \in Requests, ReceiptFails(q)
      PROVE  DiskTyped'
  BY <1>19 DEF ReceiptFails, Goes
<1>20. ASSUME NEW a \in Actors, Preserves(a)
      PROVE  DiskTyped'
  <2>1. PlaceOf(req[a].item) \in Places /\ DocumentOf(req[a].item) \in Documents
    BY <1>20, ItemOf, ItemFields
  <2>2. snapshots' \subseteq snapshots \cup
           {[place |-> PlaceOf(req[a].item), document |-> DocumentOf(req[a].item)]}
    BY <1>20 DEF Preserves
  <2> QED BY <1>20, <2>1, <2>2 DEF Preserves
<1>21. ASSUME NEW a \in Actors, Records(a)
      PROVE  DiskTyped'
  <2>1. /\ PlaceOf(req[a].item) \in Places /\ DocumentOf(req[a].item) \in Documents
        /\ req[a].item.evidence \in Evidence
    BY <1>21, ItemOf, ItemFields
  <2>2. ReasonOf(req[a].action) \in {ByOperator, ByRetry, ByShutdown} BY Reasons
  <2>3. stops' \subseteq stops \cup {StopOf(a)} BY <1>21 DEF Records
  <2>4. StopOf(a) \in [place : Places, evidence : Evidence, document : Documents,
                       reason : {ByOperator, ByRetry, ByShutdown}]
    BY <2>1, <2>2 DEF StopOf
  <2> QED BY <1>21, <2>3, <2>4 DEF Records
<1>22. CASE ShutdownBegins
  BY <1>22 DEF ShutdownBegins, Goes
<1>23. CASE ShutdownInterrupts
  BY <1>23 DEF ShutdownInterrupts
<1>24. CASE Exits
  BY <1>24 DEF Exits, Stops
<1>25. CASE Crash
  <2>1. ASSUME NEW t \in Torn
        PROVE  t \in [place : Places, document : Documents \cup {"torn"}]
    <3>1. PICK a \in Actors : t = [place |-> PlaceOf(req[a].item), document |-> "torn"]
      BY DEF Torn
    <3>2. PlaceOf(req[a].item) \in Places BY ItemOf, ItemFields
    <3> QED BY <3>1, <3>2
  <2>2. snapshots' \subseteq snapshots \cup Torn BY <1>25 DEF Crash
  <2> QED BY <1>25, <2>1, <2>2 DEF Crash
<1>26. CASE Restarts
  BY <1>26 DEF Restarts
<1>27. CASE DrainFails
  BY <1>27 DEF DrainFails, Goes
<1> QED BY <1>1, <1>2, <1>3, <1>4, <1>5, <1>6, <1>7, <1>8, <1>9, <1>10, <1>11,
          <1>12, <1>13, <1>14, <1>15, <1>16, <1>17, <1>18, <1>19, <1>20, <1>21,
          <1>22, <1>23, <1>24, <1>25, <1>26, <1>27
  DEF Next, RequestStep

LEMMA NextRunsTyped ==
    ASSUME RecoveryAssumption, stage \in Stages, ReqTyped, Quiet, SourceTyped, RunsTyped, Next
    PROVE  RunsTyped'
<1> USE DEF RecoveryAssumption, RunsTyped, RunOf, Actors, PCs, Running,
           Awaiting, Closed, sourceVars, serverVars, diskVars, runVars,
           boundVars
<1>1. CASE SourceMoves
  BY <1>1 DEF SourceMoves
<1>2. CASE ExecutorExits
  BY <1>2 DEF ExecutorExits
<1>3. CASE ExecutorClosed
  BY <1>3 DEF ExecutorClosed
<1>4. CASE AnswerArrives
  BY <1>4 DEF AnswerArrives
<1>5. CASE RevisionPrepared
  BY <1>5 DEF RevisionPrepared
<1>6. ASSUME NEW q \in Requests, View(q)
      PROVE  RunsTyped'
  BY <1>6, Views DEF View
<1>7. ASSUME NEW q \in Requests, Post(q)
      PROVE  RunsTyped'
  <2>1. UNCHANGED <<runs, finished, failed, generation>> BY <1>7 DEF Post
  <2>2. req'[q].pc \in {"refused", "done", "stop", "retry", "move", "load", "receipt"}
    BY <1>7, Posts, FirstSteps
  <2> QED BY <1>7, <2>1, <2>2, Posts
<1>8. ASSUME NEW q \in Requests, RetryRefused(q)
      PROVE  RunsTyped'
  BY <1>8, Moves DEF RetryRefused, Moved
<1>9. ASSUME NEW q \in Requests, RetryReplays(q)
      PROVE  RunsTyped'
  BY <1>9, Moves DEF RetryReplays, Moved
<1>10. ASSUME NEW q \in Requests, RetryStarts(q)
      PROVE  RunsTyped'
  <2>1. req[q].item.evidence \in Evidence BY <1>10, ItemOf
  <2>2. generation \in Nat BY DEF SourceTyped
  <2> QED BY <1>10, <2>1, <2>2, Moves DEF RetryStarts, Moved
<1>11. ASSUME NEW q \in Requests, Prepares(q)
      PROVE  RunsTyped'
  BY <1>11, Moves DEF Prepares, Moved
<1>12. ASSUME NEW q \in Requests, RunSucceeds(q)
      PROVE  RunsTyped'
  BY <1>12, Moves DEF RunSucceeds, Moved
<1>13. ASSUME NEW q \in Requests, RunThrows(q)
      PROVE  RunsTyped'
  BY <1>13, Moves DEF RunThrows, Moved
<1>14. ASSUME NEW q \in Requests, Loads(q)
      PROVE  RunsTyped'
  <2>1. Goes(q, "done") \/ Goes(q, "failed") BY <1>14 DEF Loads
  <2> QED BY <1>14, <2>1, Moves DEF Moved, Loads
<1>15. ASSUME NEW q \in Requests, WrapperStarts(q)
      PROVE  RunsTyped'
  BY <1>15, Moves DEF WrapperStarts, Moved
<1>16. ASSUME NEW q \in Requests, WrapperMoves(q)
      PROVE  RunsTyped'
  BY <1>16 DEF WrapperMoves
<1>17. ASSUME NEW q \in Requests, WrapperEnds(q)
      PROVE  RunsTyped'
  BY <1>17, Moves DEF WrapperEnds, Moved
<1>18. ASSUME NEW q \in Requests, WritesReceipt(q)
      PROVE  RunsTyped'
  BY <1>18, Moves DEF WritesReceipt, Moved
<1>19. ASSUME NEW q \in Requests, ReceiptFails(q)
      PROVE  RunsTyped'
  BY <1>19, Moves DEF ReceiptFails, Moved
<1>20. ASSUME NEW a \in Actors, Preserves(a)
      PROVE  RunsTyped'
  BY <1>20, Moves DEF Preserves, Moved
<1>21. ASSUME NEW a \in Actors, Records(a)
      PROVE  RunsTyped'
  BY <1>21, Moves DEF Records, Moved, AfterStop
<1>22. CASE ShutdownBegins
  BY <1>22, Moves DEF ShutdownBegins, Moved
<1>23. CASE ShutdownInterrupts
  BY <1>23, Interrupts DEF ShutdownInterrupts
<1>24. CASE Exits
  BY <1>24, Ceases DEF Exits
<1>25. CASE Crash
  BY <1>25, Ceases DEF Crash
<1>26. CASE Restarts
  BY <1>26 DEF Restarts, Quiet
<1>27. CASE DrainFails
  BY <1>27, Moves DEF DrainFails, Moved
<1> QED BY <1>1, <1>2, <1>3, <1>4, <1>5, <1>6, <1>7, <1>8, <1>9, <1>10, <1>11,
          <1>12, <1>13, <1>14, <1>15, <1>16, <1>17, <1>18, <1>19, <1>20, <1>21,
          <1>22, <1>23, <1>24, <1>25, <1>26, <1>27
  DEF Next, RequestStep

LEMMA NextTyped ==
    ASSUME RecoveryAssumption, Typed, Next
    PROVE  Typed'
<1> USE DEF Typed
<1>1. stage \in Stages BY DEF SourceTyped
<1>2. ReqTyped' BY <1>1, NextReqTyped
<1>3. ActionsFit' BY <1>1, NextActionsFit
<1>4. Quiet' BY <1>1, NextQuiet
<1>5. SourceTyped' BY NextSourceTyped
<1>6. DiskTyped' BY NextDiskTyped
<1>7. RunsTyped' BY <1>1, NextRunsTyped
<1> QED BY <1>2, <1>3, <1>4, <1>5, <1>6, <1>7

LEMMA InitAllTyped == ASSUME RecoveryAssumption, Init PROVE Typed
<1>1. TypeOK BY InitTyped
<1>2. \A a \in Actors : req[a] = Start BY DEF Init
<1>3. Start.pc = "idle" /\ Start.action = Shutdown BY DEF Start
<1>4. ActionsFit BY <1>2, <1>3 DEF ActionsFit, ActionFits
<1>5. RunsTyped BY <1>1, <1>2, <1>3 DEF RunsTyped, TypeOK, Actors
<1>6. Quiet /\ SourceTyped /\ DiskTyped
  BY <1>1, <1>2, <1>3 DEF Actors, TypeOK, Quiet, SourceTyped, DiskTyped
<1> QED BY <1>1, <1>4, <1>5, <1>6, TypedReq DEF Typed

-----------------------------------------------------------------------------
(* The event loop, the relay's one active mission, the evidence directory  *)

OneAtATime ==
    \A a, b \in Actors : req[a].pc \in Running /\ req[b].pc \in Running => a = b

SourceOwned ==
    /\ active # Source => executor = "none" \/ stray
    /\ serving = "stopping" /\ req[Shutdown].pc \notin {"cleaning", "wedged"} =>
         executor = "none" \/ stray
    /\ \A q \in Requests : req[q].pc \in {"preparing", "running"} => active # Source

Backing(snaps, place, document) ==
    /\ [place |-> place, document |-> document] \in snaps
    /\ \A t \in snaps : t.place = place => t.document = document
Backed ==
    /\ \A s \in stops : Backing(snapshots, s.place, s.document)
    /\ \A a \in Actors : req[a].pc = "record" =>
          Backing(snapshots, PlaceOf(req[a].item), DocumentOf(req[a].item))

LEMMA BackedMeans == ASSUME DiskTyped, Backed PROVE StopsAreBacked
<1> SUFFICES ASSUME NEW s \in stops
             PROVE  SnapshotAt(s.place) = {[place |-> s.place, document |-> s.document]}
  BY DEF StopsAreBacked
<1>1. Backing(snapshots, s.place, s.document) BY DEF Backed
<1>2. \A t \in snapshots : t = [place |-> t.place, document |-> t.document]
  BY DEF DiskTyped
<1> QED BY <1>1, <1>2 DEF Backing, SnapshotAt

LEMMA NextOneAtATime ==
    ASSUME RecoveryAssumption, stage \in Stages, ReqTyped, OneAtATime, Next
    PROVE  OneAtATime'
<1> USE DEF OneAtATime, LoopFree, Actors, PCs, Running, Awaiting, Closed,
           sourceVars, serverVars, diskVars, runVars, boundVars
<1>1. CASE SourceMoves
  BY <1>1 DEF SourceMoves
<1>2. CASE ExecutorExits
  BY <1>2 DEF ExecutorExits
<1>3. CASE ExecutorClosed
  BY <1>3 DEF ExecutorClosed
<1>4. CASE AnswerArrives
  BY <1>4 DEF AnswerArrives
<1>5. CASE RevisionPrepared
  BY <1>5 DEF RevisionPrepared
<1>6. ASSUME NEW q \in Requests, View(q)
      PROVE  OneAtATime'
  BY <1>6, Views DEF View
<1>7. ASSUME NEW q \in Requests, Post(q)
      PROVE  OneAtATime'
  <2>1. LoopFree BY <1>7 DEF Post, TakesRequests
  <2> QED BY <1>7, <2>1, Posts DEF LoopFree
<1>8. ASSUME NEW q \in Requests, RetryRefused(q)
      PROVE  OneAtATime'
  BY <1>8, Moves DEF RetryRefused, Moved
<1>9. ASSUME NEW q \in Requests, RetryReplays(q)
      PROVE  OneAtATime'
  BY <1>9, Moves DEF RetryReplays, Moved
<1>10. ASSUME NEW q \in Requests, RetryStarts(q)
      PROVE  OneAtATime'
  BY <1>10, Moves DEF RetryStarts, Moved
<1>11. ASSUME NEW q \in Requests, Prepares(q)
      PROVE  OneAtATime'
  BY <1>11, Moves DEF Prepares, Moved
<1>12. ASSUME NEW q \in Requests, RunSucceeds(q)
      PROVE  OneAtATime'
  BY <1>12, Moves DEF RunSucceeds, Moved
<1>13. ASSUME NEW q \in Requests, RunThrows(q)
      PROVE  OneAtATime'
  BY <1>13, Moves DEF RunThrows, Moved
<1>14. ASSUME NEW q \in Requests, Loads(q)
      PROVE  OneAtATime'
  <2>1. Goes(q, "done") \/ Goes(q, "failed") BY <1>14 DEF Loads
  <2> QED BY <1>14, <2>1, Moves DEF Moved, Loads
<1>15. ASSUME NEW q \in Requests, WrapperStarts(q)
      PROVE  OneAtATime'
  BY <1>15, Moves DEF WrapperStarts, Moved
<1>16. ASSUME NEW q \in Requests, WrapperMoves(q)
      PROVE  OneAtATime'
  BY <1>16 DEF WrapperMoves
<1>17. ASSUME NEW q \in Requests, WrapperEnds(q)
      PROVE  OneAtATime'
  BY <1>17, Moves DEF WrapperEnds, Moved
<1>18. ASSUME NEW q \in Requests, WritesReceipt(q)
      PROVE  OneAtATime'
  BY <1>18, Moves DEF WritesReceipt, Moved
<1>19. ASSUME NEW q \in Requests, ReceiptFails(q)
      PROVE  OneAtATime'
  BY <1>19, Moves DEF ReceiptFails, Moved
<1>20. ASSUME NEW a \in Actors, Preserves(a)
      PROVE  OneAtATime'
  BY <1>20, Moves DEF Preserves, Moved
<1>21. ASSUME NEW a \in Actors, Records(a)
      PROVE  OneAtATime'
  <2>1. req[a].pc = "record" BY <1>21 DEF Records
  <2>2. Moved(a, "failed") \/ Moved(a, AfterStop(req[a].action))
    BY <1>21, Moves, AfterStops DEF Records
  <2>3. UNCHANGED <<sourceVars, serverVars>> BY <1>21 DEF Records
  <2> QED BY <2>1, <2>2, <2>3, AfterStops DEF Moved
<1>22. CASE ShutdownBegins
  BY <1>22, Moves DEF ShutdownBegins, Moved
<1>23. CASE ShutdownInterrupts
  BY <1>23, Interrupts DEF ShutdownInterrupts
<1>24. CASE Exits
  BY <1>24, Ceases DEF Exits
<1>25. CASE Crash
  BY <1>25, Ceases DEF Crash
<1>26. CASE Restarts
  BY <1>26 DEF Restarts
<1>27. CASE DrainFails
  BY <1>27, Moves DEF DrainFails, Moved
<1> QED BY <1>1, <1>2, <1>3, <1>4, <1>5, <1>6, <1>7, <1>8, <1>9, <1>10, <1>11,
          <1>12, <1>13, <1>14, <1>15, <1>16, <1>17, <1>18, <1>19, <1>20, <1>21,
          <1>22, <1>23, <1>24, <1>25, <1>26, <1>27
  DEF Next, RequestStep

LEMMA NextSourceOwned ==
    ASSUME RecoveryAssumption, stage \in Stages, ReqTyped, ActionsFit, SourceOwned, Next
    PROVE  SourceOwned'
<1> USE DEF RecoveryAssumption, SourceOwned, Source, Nobody, Shutdown, Actors,
           PCs, Running, Awaiting, Closed, sourceVars, serverVars, diskVars,
           runVars, boundVars
<1>1. CASE SourceMoves
  BY <1>1 DEF SourceMoves
<1>2. CASE ExecutorExits
  BY <1>2 DEF ExecutorExits
<1>3. CASE ExecutorClosed
  BY <1>3 DEF ExecutorClosed
<1>4. CASE AnswerArrives
  BY <1>4 DEF AnswerArrives
<1>5. CASE RevisionPrepared
  BY <1>5 DEF RevisionPrepared
<1>6. ASSUME NEW q \in Requests, View(q)
      PROVE  SourceOwned'
  BY <1>6, Views DEF View
<1>7. ASSUME NEW q \in Requests, Post(q)
      PROVE  SourceOwned'
  <2>1. UNCHANGED <<sourceVars, serverVars>> BY <1>7 DEF Post
  <2>2. req'[q].pc \in {"refused", "done", "stop", "retry", "move", "load", "receipt"}
    BY <1>7, Posts, FirstSteps
  <2> QED BY <1>7, <2>1, <2>2, Posts
<1>8. ASSUME NEW q \in Requests, RetryRefused(q)
      PROVE  SourceOwned'
  BY <1>8, Moves DEF RetryRefused, Moved
<1>9. ASSUME NEW q \in Requests, RetryReplays(q)
      PROVE  SourceOwned'
  BY <1>9, Moves DEF RetryReplays, Moved
<1>10. ASSUME NEW q \in Requests, RetryStarts(q)
      PROVE  SourceOwned'
  BY <1>10, Moves DEF RetryStarts, Moved, OneActive
<1>11. ASSUME NEW q \in Requests, Prepares(q)
      PROVE  SourceOwned'
  BY <1>11, Moves DEF Prepares, Moved
<1>12. ASSUME NEW q \in Requests, RunSucceeds(q)
      PROVE  SourceOwned'
  BY <1>12, Moves DEF RunSucceeds, Moved
<1>13. ASSUME NEW q \in Requests, RunThrows(q)
      PROVE  SourceOwned'
  BY <1>13, Moves DEF RunThrows, Moved
<1>14. ASSUME NEW q \in Requests, Loads(q)
      PROVE  SourceOwned'
  <2>1. Goes(q, "done") \/ Goes(q, "failed") BY <1>14 DEF Loads
  <2> QED BY <1>14, <2>1, Moves DEF Moved, Loads
<1>15. ASSUME NEW q \in Requests, WrapperStarts(q)
      PROVE  SourceOwned'
  BY <1>15, Moves DEF WrapperStarts, Moved
<1>16. ASSUME NEW q \in Requests, WrapperMoves(q)
      PROVE  SourceOwned'
  BY <1>16 DEF WrapperMoves
<1>17. ASSUME NEW q \in Requests, WrapperEnds(q)
      PROVE  SourceOwned'
  BY <1>17, Moves DEF WrapperEnds, Moved
<1>18. ASSUME NEW q \in Requests, WritesReceipt(q)
      PROVE  SourceOwned'
  BY <1>18, Moves DEF WritesReceipt, Moved
<1>19. ASSUME NEW q \in Requests, ReceiptFails(q)
      PROVE  SourceOwned'
  BY <1>19, Moves DEF ReceiptFails, Moved
<1>20. ASSUME NEW a \in Actors, Preserves(a)
      PROVE  SourceOwned'
  BY <1>20, Moves DEF Preserves, Moved, ActionsFit, ActionFits
<1>21. ASSUME NEW a \in Actors, Records(a)
      PROVE  SourceOwned'
  <2>1. req[a].pc = "record" BY <1>21 DEF Records
  <2>2. Moved(a, "failed") \/ Moved(a, AfterStop(req[a].action))
    BY <1>21, Moves, AfterStops DEF Records
  <2>3. UNCHANGED <<sourceVars, serverVars>> BY <1>21 DEF Records
  <2> QED BY <2>1, <2>2, <2>3, AfterStops DEF Moved
<1>22. CASE ShutdownBegins
  BY <1>22, Moves DEF ShutdownBegins, Moved
<1>23. CASE ShutdownInterrupts
  BY <1>23, Interrupts DEF ShutdownInterrupts
<1>24. CASE Exits
  BY <1>24, Ceases DEF Exits
<1>25. CASE Crash
  BY <1>25, Ceases DEF Crash
<1>26. CASE Restarts
  BY <1>26 DEF Restarts
<1>27. CASE DrainFails
  BY <1>27, Moves DEF DrainFails, Moved
<1> QED BY <1>1, <1>2, <1>3, <1>4, <1>5, <1>6, <1>7, <1>8, <1>9, <1>10, <1>11,
          <1>12, <1>13, <1>14, <1>15, <1>16, <1>17, <1>18, <1>19, <1>20, <1>21,
          <1>22, <1>23, <1>24, <1>25, <1>26, <1>27
  DEF Next, RequestStep

LEMMA NextBacked ==
    ASSUME RecoveryAssumption, stage \in Stages, ReqTyped, DiskTyped, Backed, Next
    PROVE  Backed'
<1> USE DEF Backed, Backing, Actors, PCs, Running, Awaiting, Closed,
           sourceVars, serverVars, diskVars, runVars, boundVars
<1>1. CASE SourceMoves
  BY <1>1 DEF SourceMoves
<1>2. CASE ExecutorExits
  BY <1>2 DEF ExecutorExits
<1>3. CASE ExecutorClosed
  BY <1>3 DEF ExecutorClosed
<1>4. CASE AnswerArrives
  BY <1>4 DEF AnswerArrives
<1>5. CASE RevisionPrepared
  BY <1>5 DEF RevisionPrepared
<1>6. ASSUME NEW q \in Requests, View(q)
      PROVE  Backed'
  BY <1>6, Views DEF View
<1>7. ASSUME NEW q \in Requests, Post(q)
      PROVE  Backed'
  <2>1. UNCHANGED <<stops, snapshots>> BY <1>7 DEF Post
  <2>2. req'[q].pc # "record" BY <1>7, Posts, FirstSteps
  <2> QED BY <1>7, <2>1, <2>2, Posts
<1>8. ASSUME NEW q \in Requests, RetryRefused(q)
      PROVE  Backed'
  BY <1>8, Moves DEF RetryRefused, Moved
<1>9. ASSUME NEW q \in Requests, RetryReplays(q)
      PROVE  Backed'
  BY <1>9, Moves DEF RetryReplays, Moved
<1>10. ASSUME NEW q \in Requests, RetryStarts(q)
      PROVE  Backed'
  BY <1>10, Moves DEF RetryStarts, Moved
<1>11. ASSUME NEW q \in Requests, Prepares(q)
      PROVE  Backed'
  BY <1>11, Moves DEF Prepares, Moved
<1>12. ASSUME NEW q \in Requests, RunSucceeds(q)
      PROVE  Backed'
  BY <1>12, Moves DEF RunSucceeds, Moved
<1>13. ASSUME NEW q \in Requests, RunThrows(q)
      PROVE  Backed'
  BY <1>13, Moves DEF RunThrows, Moved
<1>14. ASSUME NEW q \in Requests, Loads(q)
      PROVE  Backed'
  <2>1. Goes(q, "done") \/ Goes(q, "failed") BY <1>14 DEF Loads
  <2>2. Moved(q, "done") \/ Moved(q, "failed") BY <1>14, <2>1, Moves DEF Loads
  <2>3. UNCHANGED <<stops, snapshots>> BY <1>14 DEF Loads
  <2> QED BY <1>14, <2>2, <2>3 DEF Moved
<1>15. ASSUME NEW q \in Requests, WrapperStarts(q)
      PROVE  Backed'
  BY <1>15, Moves DEF WrapperStarts, Moved
<1>16. ASSUME NEW q \in Requests, WrapperMoves(q)
      PROVE  Backed'
  BY <1>16 DEF WrapperMoves
<1>17. ASSUME NEW q \in Requests, WrapperEnds(q)
      PROVE  Backed'
  BY <1>17, Moves DEF WrapperEnds, Moved
<1>18. ASSUME NEW q \in Requests, WritesReceipt(q)
      PROVE  Backed'
  BY <1>18, Moves DEF WritesReceipt, Moved
<1>19. ASSUME NEW q \in Requests, ReceiptFails(q)
      PROVE  Backed'
  BY <1>19, Moves DEF ReceiptFails, Moved
<1>20. ASSUME NEW a \in Actors, Preserves(a)
      PROVE  Backed'
  <2> DEFINE place == PlaceOf(req[a].item)
             document == DocumentOf(req[a].item)
  <2>1. CASE Goes(a, "failed") /\ UNCHANGED snapshots
    BY <1>20, <2>1, Moves DEF Preserves, Moved
  <2>2. CASE /\ Goes(a, "record") /\ Fits(SnapshotAt(place), req[a].item)
             /\ snapshots' = IF SnapshotAt(place) # {} THEN snapshots ELSE
                   snapshots \cup {[place |-> place, document |-> document]}
    <3>1. Moved(a, "record") BY <2>2, Moves
    <3>2. stops' = stops BY <1>20 DEF Preserves
    <3>3. \A t \in snapshots : t.place = place => t.document = document
      BY <2>2 DEF Fits, SnapshotAt
    <3>4. \A t \in snapshots : t = [place |-> t.place, document |-> t.document]
      BY DEF DiskTyped
    <3>5. Backing(snapshots', place, document)
      BY <2>2, <3>3, <3>4 DEF SnapshotAt
    <3>6. ASSUME NEW p, NEW d, Backing(snapshots, p, d)
          PROVE  Backing(snapshots', p, d)
      <4>1. CASE SnapshotAt(place) # {} BY <2>2, <3>6, <4>1
      <4>2. CASE SnapshotAt(place) = {}
        <5>1. p # place BY <3>6, <4>2 DEF SnapshotAt
        <5>2. snapshots' = snapshots \cup {[place |-> place, document |-> document]}
          BY <2>2, <4>2
        <5> QED BY <3>6, <5>1, <5>2
      <4> QED BY <4>1, <4>2
    <3> HIDE DEF Backing, place, document
    <3>7. \A s \in stops' : Backing(snapshots', s.place, s.document)
      BY <3>2, <3>6 DEF Backed
    <3>8. \A b \in Actors : req'[b].pc = "record" =>
             Backing(snapshots', PlaceOf(req'[b].item), DocumentOf(req'[b].item))
      BY <3>1, <3>5, <3>6 DEF Backed, Moved, place, document
    <3> QED BY <3>7, <3>8 DEF Backed
  <2> QED BY <1>20, <2>1, <2>2 DEF Preserves
<1>21. ASSUME NEW a \in Actors, Records(a)
      PROVE  Backed'
  <2>1. req[a].pc = "record" BY <1>21 DEF Records
  <2>2. Moved(a, "failed") \/ Moved(a, AfterStop(req[a].action))
    BY <1>21, Moves, AfterStops DEF Records
  <2>3. stops' \subseteq stops \cup {StopOf(a)} /\ snapshots' = snapshots
    BY <1>21 DEF Records
  <2>4. req'[a].pc # "record" BY <2>2, AfterStops DEF Moved
  <2>5. /\ StopOf(a).place = PlaceOf(req[a].item)
        /\ StopOf(a).document = DocumentOf(req[a].item)
    BY DEF StopOf
  <2> QED BY <2>1, <2>2, <2>3, <2>4, <2>5 DEF Moved
<1>22. CASE ShutdownBegins
  BY <1>22, Moves DEF ShutdownBegins, Moved
<1>23. CASE ShutdownInterrupts
  <2>1. UNCHANGED <<stops, snapshots>> BY <1>23 DEF ShutdownInterrupts
  <2> QED BY <1>23, <2>1, Interrupts
<1>24. CASE Exits
  BY <1>24, Ceases DEF Exits
<1>25. CASE Crash
  <2>1. \A a \in Actors : req'[a].pc # "record" BY <1>25, Ceases DEF Crash
  <2>2. ASSUME NEW t \in Torn, NEW s \in stops PROVE t.place # s.place
    <3>1. PICK a \in Actors : /\ t = [place |-> PlaceOf(req[a].item), document |-> "torn"]
                              /\ SnapshotAt(PlaceOf(req[a].item)) = {}
      BY DEF Torn
    <3>2. [place |-> s.place, document |-> s.document] \in snapshots
      OBVIOUS
    <3> QED BY <3>1, <3>2 DEF SnapshotAt
  <2>3. snapshots \subseteq snapshots' /\ snapshots' \subseteq snapshots \cup Torn
    BY <1>25 DEF Crash
  <2>4. stops' = stops BY <1>25 DEF Crash
  <2> QED BY <2>1, <2>2, <2>3, <2>4
<1>26. CASE Restarts
  BY <1>26 DEF Restarts
<1>27. CASE DrainFails
  BY <1>27, Moves DEF DrainFails, Moved
<1> QED BY <1>1, <1>2, <1>3, <1>4, <1>5, <1>6, <1>7, <1>8, <1>9, <1>10, <1>11,
          <1>12, <1>13, <1>14, <1>15, <1>16, <1>17, <1>18, <1>19, <1>20, <1>21,
          <1>22, <1>23, <1>24, <1>25, <1>26, <1>27
  DEF Next, RequestStep

LEMMA NextOneStop ==
    ASSUME OneStop, Next
    PROVE  OneStop'
<1> USE DEF OneStop, sourceVars, serverVars, diskVars, runVars, boundVars
<1>1. CASE SourceMoves
  BY <1>1 DEF SourceMoves
<1>2. CASE ExecutorExits
  BY <1>2 DEF ExecutorExits
<1>3. CASE ExecutorClosed
  BY <1>3 DEF ExecutorClosed
<1>4. CASE AnswerArrives
  BY <1>4 DEF AnswerArrives
<1>5. CASE RevisionPrepared
  BY <1>5 DEF RevisionPrepared
<1>6. ASSUME NEW q \in Requests, View(q)
      PROVE  OneStop'
  BY <1>6 DEF View
<1>7. ASSUME NEW q \in Requests, Post(q)
      PROVE  OneStop'
  BY <1>7 DEF Post
<1>8. ASSUME NEW q \in Requests, RetryRefused(q)
      PROVE  OneStop'
  BY <1>8 DEF RetryRefused, Goes
<1>9. ASSUME NEW q \in Requests, RetryReplays(q)
      PROVE  OneStop'
  BY <1>9 DEF RetryReplays, Goes
<1>10. ASSUME NEW q \in Requests, RetryStarts(q)
      PROVE  OneStop'
  BY <1>10 DEF RetryStarts, Goes
<1>11. ASSUME NEW q \in Requests, Prepares(q)
      PROVE  OneStop'
  BY <1>11 DEF Prepares, Goes
<1>12. ASSUME NEW q \in Requests, RunSucceeds(q)
      PROVE  OneStop'
  BY <1>12 DEF RunSucceeds, Goes
<1>13. ASSUME NEW q \in Requests, RunThrows(q)
      PROVE  OneStop'
  BY <1>13 DEF RunThrows, Goes
<1>14. ASSUME NEW q \in Requests, Loads(q)
      PROVE  OneStop'
  BY <1>14 DEF Loads
<1>15. ASSUME NEW q \in Requests, WrapperStarts(q)
      PROVE  OneStop'
  BY <1>15 DEF WrapperStarts, Goes
<1>16. ASSUME NEW q \in Requests, WrapperMoves(q)
      PROVE  OneStop'
  BY <1>16 DEF WrapperMoves
<1>17. ASSUME NEW q \in Requests, WrapperEnds(q)
      PROVE  OneStop'
  BY <1>17 DEF WrapperEnds, Goes
<1>18. ASSUME NEW q \in Requests, WritesReceipt(q)
      PROVE  OneStop'
  BY <1>18 DEF WritesReceipt, Goes
<1>19. ASSUME NEW q \in Requests, ReceiptFails(q)
      PROVE  OneStop'
  BY <1>19 DEF ReceiptFails, Goes
<1>20. ASSUME NEW a \in Actors, Preserves(a)
      PROVE  OneStop'
  BY <1>20 DEF Preserves, Goes
<1>21. ASSUME NEW a \in Actors, Records(a)
      PROVE  OneStop'
  BY <1>21 DEF Records, Conflicts
<1>22. CASE ShutdownBegins
  BY <1>22 DEF ShutdownBegins, Goes
<1>23. CASE ShutdownInterrupts
  BY <1>23 DEF ShutdownInterrupts
<1>24. CASE Exits
  BY <1>24 DEF Exits, Stops
<1>25. CASE Crash
  BY <1>25 DEF Crash, Stops
<1>26. CASE Restarts
  BY <1>26 DEF Restarts
<1>27. CASE DrainFails
  BY <1>27 DEF DrainFails, Goes
<1> QED BY <1>1, <1>2, <1>3, <1>4, <1>5, <1>6, <1>7, <1>8, <1>9, <1>10, <1>11,
          <1>12, <1>13, <1>14, <1>15, <1>16, <1>17, <1>18, <1>19, <1>20, <1>21,
          <1>22, <1>23, <1>24, <1>25, <1>26, <1>27
  DEF Next, RequestStep

LEMMA NextRetriedOnce ==
    ASSUME RetriedOnce, Next
    PROVE  RetriedOnce'
<1> USE DEF RetriedOnce, sourceVars, serverVars, diskVars, runVars, boundVars
<1>1. CASE SourceMoves
  BY <1>1 DEF SourceMoves
<1>2. CASE ExecutorExits
  BY <1>2 DEF ExecutorExits
<1>3. CASE ExecutorClosed
  BY <1>3 DEF ExecutorClosed
<1>4. CASE AnswerArrives
  BY <1>4 DEF AnswerArrives
<1>5. CASE RevisionPrepared
  BY <1>5 DEF RevisionPrepared
<1>6. ASSUME NEW q \in Requests, View(q)
      PROVE  RetriedOnce'
  BY <1>6 DEF View
<1>7. ASSUME NEW q \in Requests, Post(q)
      PROVE  RetriedOnce'
  BY <1>7 DEF Post
<1>8. ASSUME NEW q \in Requests, RetryRefused(q)
      PROVE  RetriedOnce'
  BY <1>8 DEF RetryRefused, Goes
<1>9. ASSUME NEW q \in Requests, RetryReplays(q)
      PROVE  RetriedOnce'
  BY <1>9 DEF RetryReplays, Goes
<1>10. ASSUME NEW q \in Requests, RetryStarts(q)
      PROVE  RetriedOnce'
  BY <1>10 DEF RetryStarts, Prior
<1>11. ASSUME NEW q \in Requests, Prepares(q)
      PROVE  RetriedOnce'
  BY <1>11 DEF Prepares, Goes
<1>12. ASSUME NEW q \in Requests, RunSucceeds(q)
      PROVE  RetriedOnce'
  BY <1>12 DEF RunSucceeds, Goes
<1>13. ASSUME NEW q \in Requests, RunThrows(q)
      PROVE  RetriedOnce'
  BY <1>13 DEF RunThrows, Goes
<1>14. ASSUME NEW q \in Requests, Loads(q)
      PROVE  RetriedOnce'
  BY <1>14 DEF Loads
<1>15. ASSUME NEW q \in Requests, WrapperStarts(q)
      PROVE  RetriedOnce'
  BY <1>15 DEF WrapperStarts, Goes
<1>16. ASSUME NEW q \in Requests, WrapperMoves(q)
      PROVE  RetriedOnce'
  BY <1>16 DEF WrapperMoves
<1>17. ASSUME NEW q \in Requests, WrapperEnds(q)
      PROVE  RetriedOnce'
  BY <1>17 DEF WrapperEnds, Goes
<1>18. ASSUME NEW q \in Requests, WritesReceipt(q)
      PROVE  RetriedOnce'
  BY <1>18 DEF WritesReceipt, Goes
<1>19. ASSUME NEW q \in Requests, ReceiptFails(q)
      PROVE  RetriedOnce'
  BY <1>19 DEF ReceiptFails, Goes
<1>20. ASSUME NEW a \in Actors, Preserves(a)
      PROVE  RetriedOnce'
  BY <1>20 DEF Preserves, Goes
<1>21. ASSUME NEW a \in Actors, Records(a)
      PROVE  RetriedOnce'
  BY <1>21 DEF Records, Goes
<1>22. CASE ShutdownBegins
  BY <1>22 DEF ShutdownBegins, Goes
<1>23. CASE ShutdownInterrupts
  BY <1>23 DEF ShutdownInterrupts
<1>24. CASE Exits
  BY <1>24 DEF Exits, Stops
<1>25. CASE Crash
  BY <1>25 DEF Crash, Stops
<1>26. CASE Restarts
  BY <1>26 DEF Restarts
<1>27. CASE DrainFails
  BY <1>27 DEF DrainFails, Goes
<1> QED BY <1>1, <1>2, <1>3, <1>4, <1>5, <1>6, <1>7, <1>8, <1>9, <1>10, <1>11,
          <1>12, <1>13, <1>14, <1>15, <1>16, <1>17, <1>18, <1>19, <1>20, <1>21,
          <1>22, <1>23, <1>24, <1>25, <1>26, <1>27
  DEF Next, RequestStep

-----------------------------------------------------------------------------
(* What a receipt claims                                                   *)

Claimed(action, e, halts, done, at) ==
    /\ action = Mark => \E s \in halts : s.evidence = e /\ s.reason = ByOperator
    /\ action = Retry =>
         /\ \E n \in done : n.evidence = e
         /\ \E s \in halts : s.evidence = e
    /\ action = Reconcile => at = "admitted"
Claim(a) == Claimed(req[a].action, req[a].item.evidence, stops, finished, stage)

Underway ==
    /\ \A r \in receipts : Claimed(r.action, r.evidence, stops, finished, stage)
    /\ \A n \in finished : \E s \in stops : s.evidence = n.evidence
    /\ \A q \in Requests :
          /\ req[q].pc = "running" => \E s \in stops : s.evidence = req[q].item.evidence
          /\ req[q].pc = "receipt" => Claim(q)

LEMMA UnderwayMeans == ASSUME Underway PROVE ReceiptsAreTrue
  BY DEF Underway, Claimed, ReceiptsAreTrue

\* What a claim is about stays: records are never taken back.
LEMMA Grows ==
    ASSUME RecoveryAssumption, ReqTyped, Next
    PROVE  /\ stops \subseteq stops' /\ finished \subseteq finished'
           /\ stage = "admitted" => stage' = "admitted"
<1> USE DEF sourceVars, serverVars, diskVars, runVars, boundVars
<1>1. CASE SourceMoves
  BY <1>1 DEF SourceMoves, NextStages
<1>2. CASE ExecutorExits
  BY <1>2 DEF ExecutorExits
<1>3. CASE ExecutorClosed
  BY <1>3 DEF ExecutorClosed
<1>4. CASE AnswerArrives
  BY <1>4 DEF AnswerArrives
<1>5. CASE RevisionPrepared
  BY <1>5 DEF RevisionPrepared
<1>6. ASSUME NEW q \in Requests, View(q)
      PROVE  /\ stops \subseteq stops' /\ finished \subseteq finished'
             /\ stage = "admitted" => stage' = "admitted"
  BY <1>6 DEF View
<1>7. ASSUME NEW q \in Requests, Post(q)
      PROVE  /\ stops \subseteq stops' /\ finished \subseteq finished'
             /\ stage = "admitted" => stage' = "admitted"
  BY <1>7 DEF Post
<1>8. ASSUME NEW q \in Requests, RetryRefused(q)
      PROVE  /\ stops \subseteq stops' /\ finished \subseteq finished'
             /\ stage = "admitted" => stage' = "admitted"
  BY <1>8 DEF RetryRefused, Goes
<1>9. ASSUME NEW q \in Requests, RetryReplays(q)
      PROVE  /\ stops \subseteq stops' /\ finished \subseteq finished'
             /\ stage = "admitted" => stage' = "admitted"
  BY <1>9 DEF RetryReplays, Goes
<1>10. ASSUME NEW q \in Requests, RetryStarts(q)
      PROVE  /\ stops \subseteq stops' /\ finished \subseteq finished'
             /\ stage = "admitted" => stage' = "admitted"
  BY <1>10 DEF RetryStarts, Goes
<1>11. ASSUME NEW q \in Requests, Prepares(q)
      PROVE  /\ stops \subseteq stops' /\ finished \subseteq finished'
             /\ stage = "admitted" => stage' = "admitted"
  BY <1>11 DEF Prepares, Goes
<1>12. ASSUME NEW q \in Requests, RunSucceeds(q)
      PROVE  /\ stops \subseteq stops' /\ finished \subseteq finished'
             /\ stage = "admitted" => stage' = "admitted"
  BY <1>12 DEF RunSucceeds, Goes
<1>13. ASSUME NEW q \in Requests, RunThrows(q)
      PROVE  /\ stops \subseteq stops' /\ finished \subseteq finished'
             /\ stage = "admitted" => stage' = "admitted"
  BY <1>13 DEF RunThrows, Goes
<1>14. ASSUME NEW q \in Requests, Loads(q)
      PROVE  /\ stops \subseteq stops' /\ finished \subseteq finished'
             /\ stage = "admitted" => stage' = "admitted"
  BY <1>14 DEF Loads
<1>15. ASSUME NEW q \in Requests, WrapperStarts(q)
      PROVE  /\ stops \subseteq stops' /\ finished \subseteq finished'
             /\ stage = "admitted" => stage' = "admitted"
  BY <1>15 DEF WrapperStarts, Goes
<1>16. ASSUME NEW q \in Requests, WrapperMoves(q)
      PROVE  /\ stops \subseteq stops' /\ finished \subseteq finished'
             /\ stage = "admitted" => stage' = "admitted"
  BY <1>16 DEF WrapperMoves
<1>17. ASSUME NEW q \in Requests, WrapperEnds(q)
      PROVE  /\ stops \subseteq stops' /\ finished \subseteq finished'
             /\ stage = "admitted" => stage' = "admitted"
  BY <1>17 DEF WrapperEnds, Goes
<1>18. ASSUME NEW q \in Requests, WritesReceipt(q)
      PROVE  /\ stops \subseteq stops' /\ finished \subseteq finished'
             /\ stage = "admitted" => stage' = "admitted"
  BY <1>18 DEF WritesReceipt, Goes
<1>19. ASSUME NEW q \in Requests, ReceiptFails(q)
      PROVE  /\ stops \subseteq stops' /\ finished \subseteq finished'
             /\ stage = "admitted" => stage' = "admitted"
  BY <1>19 DEF ReceiptFails, Goes
<1>20. ASSUME NEW a \in Actors, Preserves(a)
      PROVE  /\ stops \subseteq stops' /\ finished \subseteq finished'
             /\ stage = "admitted" => stage' = "admitted"
  BY <1>20 DEF Preserves, Goes
<1>21. ASSUME NEW a \in Actors, Records(a)
      PROVE  /\ stops \subseteq stops' /\ finished \subseteq finished'
             /\ stage = "admitted" => stage' = "admitted"
  BY <1>21 DEF Records, Goes
<1>22. CASE ShutdownBegins
  BY <1>22 DEF ShutdownBegins, Goes
<1>23. CASE ShutdownInterrupts
  BY <1>23 DEF ShutdownInterrupts
<1>24. CASE Exits
  BY <1>24 DEF Exits, Stops
<1>25. CASE Crash
  BY <1>25 DEF Crash, Stops
<1>26. CASE Restarts
  BY <1>26 DEF Restarts
<1>27. CASE DrainFails
  BY <1>27 DEF DrainFails, Goes
<1> QED BY <1>1, <1>2, <1>3, <1>4, <1>5, <1>6, <1>7, <1>8, <1>9, <1>10, <1>11,
          <1>12, <1>13, <1>14, <1>15, <1>16, <1>17, <1>18, <1>19, <1>20, <1>21,
          <1>22, <1>23, <1>24, <1>25, <1>26, <1>27
  DEF Next, RequestStep

LEMMA ClaimStays ==
    ASSUME RecoveryAssumption, ReqTyped, Next, NEW action, NEW e,
           Claimed(action, e, stops, finished, stage)
    PROVE  Claimed(action, e, stops', finished', stage')
  BY Grows DEF Claimed

LEMMA NextUnderway ==
    ASSUME RecoveryAssumption, stage \in Stages, ReqTyped, ActionsFit, Underway, Next
    PROVE  Underway'
<1> USE DEF RecoveryAssumption, Underway, Claim, Actors, PCs, Running,
           Awaiting, Closed, sourceVars, serverVars, diskVars, runVars,
           boundVars
<1>0. /\ stops \subseteq stops' /\ finished \subseteq finished'
      /\ stage = "admitted" => stage' = "admitted"
      /\ \A action, e : Claimed(action, e, stops, finished, stage) =>
                            Claimed(action, e, stops', finished', stage')
  BY Grows, ClaimStays
<1>1. CASE SourceMoves
  <2>1. UNCHANGED <<receipts, finished, req>> BY <1>1 DEF SourceMoves
  <2> QED BY <1>0, <2>1
<1>2. CASE ExecutorExits
  <2>1. UNCHANGED <<receipts, finished, req>> BY <1>2 DEF ExecutorExits
  <2> QED BY <1>0, <2>1
<1>3. CASE ExecutorClosed
  <2>1. UNCHANGED <<receipts, finished, req>> BY <1>3 DEF ExecutorClosed
  <2> QED BY <1>0, <2>1
<1>4. CASE AnswerArrives
  <2>1. UNCHANGED <<receipts, finished, req>> BY <1>4 DEF AnswerArrives
  <2> QED BY <1>0, <2>1
<1>5. CASE RevisionPrepared
  <2>1. UNCHANGED <<receipts, finished, req>> BY <1>5 DEF RevisionPrepared
  <2> QED BY <1>0, <2>1
<1>6. ASSUME NEW q \in Requests, View(q)
      PROVE  Underway'
  <2>1. UNCHANGED <<receipts, finished>> BY <1>6 DEF View
  <2> QED BY <1>6, <1>0, <2>1, Views
<1>7. ASSUME NEW q \in Requests, Post(q)
      PROVE  Underway'
  <2>1. UNCHANGED <<receipts, finished>> BY <1>7 DEF Post
  <2>2. \/ req'[q].pc \in {"refused", "done"}
        \/ req'[q].pc = FirstStep(req'[q].action, req'[q].item)
    BY <1>7, Posts
  <2>3. req'[q].pc # "running" BY <1>7, Posts, FirstSteps
  <2>4. req'[q].pc = "receipt" => req'[q].action \notin {Mark, Retry, Reconcile}
    BY <2>2 DEF FirstStep, Mark, Retry, Reconcile, Respond, Audits
  <2>5. req'[q].pc = "receipt" => Claim(q)' BY <2>4 DEF Claimed
  <2> HIDE DEF Claim
  <2>6. \A b \in Requests : b # q => req'[b] = req[b] BY <1>7, Posts
  <2>7. \A b \in Requests : b # q /\ req'[b].pc = "receipt" => Claim(b)'
    BY <1>0, <2>6 DEF Claim
  <2> QED BY <1>0, <2>1, <2>3, <2>5, <2>6, <2>7
<1>8. ASSUME NEW q \in Requests, RetryRefused(q)
      PROVE  Underway'
  <2>1. UNCHANGED <<receipts, finished>> BY <1>8 DEF RetryRefused
  <2>2. Goes(q, "failed") BY <1>8 DEF RetryRefused
  <2>3. Moved(q, "failed") BY <1>8, <2>2, Moves
  <2> QED BY <1>8, <1>0, <2>1, <2>3 DEF Moved
<1>9. ASSUME NEW q \in Requests, RetryReplays(q)
      PROVE  Underway'
  <2>1. UNCHANGED <<receipts, finished, stops>> BY <1>9 DEF RetryReplays
  <2>2. req[q].action = Retry
    BY <1>9 DEF RetryReplays, ActionsFit, ActionFits
  <2>3. \/ Goes(q, "failed")
        \/ Goes(q, "receipt") /\ \E n \in finished : n.evidence = req[q].item.evidence
    BY <1>9 DEF RetryReplays, Prior
  <2>4. CASE Goes(q, "failed")
    <3>1. Moved(q, "failed") BY <2>4, Moves
    <3> QED BY <1>0, <2>1, <3>1 DEF Moved
  <2>5. CASE Goes(q, "receipt") /\ \E n \in finished : n.evidence = req[q].item.evidence
    <3>1. Moved(q, "receipt") BY <2>5, Moves
    <3>2. Claimed(Retry, req[q].item.evidence, stops, finished, stage)
      BY <2>5 DEF Claimed, Mark, Retry, Reconcile
    <3> QED BY <1>0, <2>1, <2>2, <3>1, <3>2 DEF Moved
  <2> QED BY <2>3, <2>4, <2>5
<1>10. ASSUME NEW q \in Requests, RetryStarts(q)
      PROVE  Underway'
  <2>1. UNCHANGED <<receipts, finished>> BY <1>10 DEF RetryStarts
  <2>2. Goes(q, "preparing") BY <1>10 DEF RetryStarts
  <2>3. Moved(q, "preparing") BY <1>10, <2>2, Moves
  <2> QED BY <1>10, <1>0, <2>1, <2>3 DEF Moved
<1>11. ASSUME NEW q \in Requests, Prepares(q)
      PROVE  Underway'
  <2>1. UNCHANGED <<receipts, finished, stops>> BY <1>11 DEF Prepares
  <2>2. Moved(q, "running") BY <1>11, Moves DEF Prepares
  <2>3. \E s \in stops : s.evidence = req[q].item.evidence
    BY <1>11 DEF Prepares, PreparationGood, StopAt
  <2> QED BY <1>0, <2>1, <2>2, <2>3 DEF Moved
<1>12. ASSUME NEW q \in Requests, RunSucceeds(q)
      PROVE  Underway'
  <2>1. UNCHANGED <<receipts, stops>> /\ finished' = finished \cup {RunOf(q)}
    BY <1>12 DEF RunSucceeds
  <2>2. req[q].pc = "running" /\ req[q].action = Retry
    BY <1>12 DEF RunSucceeds, ActionsFit, ActionFits
  <2>3. Moved(q, "receipt") BY <1>12, Moves DEF RunSucceeds
  <2>4. RunOf(q).evidence = req[q].item.evidence BY DEF RunOf
  <2>5. Claimed(Retry, req[q].item.evidence, stops', finished', stage')
    BY <2>1, <2>2, <2>4 DEF Claimed, Mark, Retry, Reconcile
  <2> QED BY <1>0, <2>1, <2>2, <2>3, <2>4, <2>5 DEF Moved
<1>13. ASSUME NEW q \in Requests, RunThrows(q)
      PROVE  Underway'
  <2>1. UNCHANGED <<receipts, finished>> BY <1>13 DEF RunThrows
  <2>2. Goes(q, "failed") BY <1>13 DEF RunThrows
  <2>3. Moved(q, "failed") BY <1>13, <2>2, Moves
  <2> QED BY <1>13, <1>0, <2>1, <2>3 DEF Moved
<1>14. ASSUME NEW q \in Requests, Loads(q)
      PROVE  Underway'
  <2>1. UNCHANGED <<receipts, finished>> BY <1>14 DEF Loads
  <2>2. Goes(q, "done") \/ Goes(q, "failed") BY <1>14 DEF Loads
  <2>3. Moved(q, "done") \/ Moved(q, "failed") BY <1>14, <2>2, Moves
  <2> QED BY <1>14, <1>0, <2>1, <2>3 DEF Moved
<1>15. ASSUME NEW q \in Requests, WrapperStarts(q)
      PROVE  Underway'
  <2>1. UNCHANGED <<receipts, finished>> BY <1>15 DEF WrapperStarts
  <2>2. Goes(q, "wrapping") \/ Goes(q, "failed") BY <1>15 DEF WrapperStarts
  <2>3. Moved(q, "wrapping") \/ Moved(q, "failed") BY <1>15, <2>2, Moves
  <2> QED BY <1>15, <1>0, <2>1, <2>3 DEF Moved
<1>16. ASSUME NEW q \in Requests, WrapperMoves(q)
      PROVE  Underway'
  <2>1. UNCHANGED <<receipts, finished, req>> BY <1>16 DEF WrapperMoves
  <2> QED BY <1>0, <2>1
<1>17. ASSUME NEW q \in Requests, WrapperEnds(q)
      PROVE  Underway'
  <2>1. UNCHANGED <<receipts, finished, stops, stage>> BY <1>17 DEF WrapperEnds
  <2>2. req[q].action = Reconcile BY <1>17 DEF WrapperEnds, ActionsFit, ActionFits
  <2>3. Moved(q, "failed") \/ (Moved(q, "receipt") /\ stage = "admitted")
    BY <1>17, Moves DEF WrapperEnds, WrapperGood
  <2>4. stage = "admitted" =>
           Claimed(Reconcile, req[q].item.evidence, stops, finished, stage)
    BY DEF Claimed, Mark, Retry, Reconcile
  <2> QED BY <1>0, <2>1, <2>2, <2>3, <2>4 DEF Moved
<1>18. ASSUME NEW q \in Requests, WritesReceipt(q)
      PROVE  Underway'
  <2>1. UNCHANGED <<stops, finished>> BY <1>18 DEF WritesReceipt
  <2>2. Moved(q, "done") BY <1>18, Moves DEF WritesReceipt
  <2>3. Claim(q) BY <1>18 DEF WritesReceipt
  <2>4. receipts' = receipts \cup
           {[evidence |-> req[q].item.evidence, action |-> req[q].action]}
    BY <1>18 DEF WritesReceipt
  <2> QED BY <1>0, <2>1, <2>2, <2>3, <2>4 DEF Moved
<1>19. ASSUME NEW q \in Requests, ReceiptFails(q)
      PROVE  Underway'
  <2>1. UNCHANGED <<receipts, finished>> BY <1>19 DEF ReceiptFails
  <2>2. Goes(q, "failed") BY <1>19 DEF ReceiptFails
  <2>3. Moved(q, "failed") BY <1>19, <2>2, Moves
  <2> QED BY <1>19, <1>0, <2>1, <2>3 DEF Moved
<1>20. ASSUME NEW a \in Actors, Preserves(a)
      PROVE  Underway'
  <2>1. UNCHANGED <<receipts, finished>> BY <1>20 DEF Preserves
  <2>2. Goes(a, "record") \/ Goes(a, "failed") BY <1>20 DEF Preserves
  <2>3. Moved(a, "record") \/ Moved(a, "failed") BY <1>20, <2>2, Moves
  <2> QED BY <1>20, <1>0, <2>1, <2>3 DEF Moved
<1>21. ASSUME NEW a \in Actors, Records(a)
      PROVE  Underway'
  <2>1. UNCHANGED <<receipts, finished>> BY <1>21 DEF Records
  <2>2. req[a].action \in {Mark, Retry, Shutdown}
    BY <1>21 DEF Records, ActionsFit, ActionFits
  <2>3. \/ Goes(a, "failed")
        \/ Goes(a, AfterStop(req[a].action)) /\ StopOf(a) \in stops'
    BY <1>21 DEF Records
  <2>4. CASE Goes(a, "failed")
    <3>1. Moved(a, "failed") BY <2>4, Moves
    <3> QED BY <1>0, <2>1, <3>1 DEF Moved
  <2>5. CASE Goes(a, AfterStop(req[a].action)) /\ StopOf(a) \in stops'
    <3>1. Moved(a, AfterStop(req[a].action)) BY <2>5, Moves, AfterStops
    <3>2. req'[a].pc # "running" BY <3>1, AfterStops DEF Moved
    <3>3. ASSUME req'[a].pc = "receipt" PROVE Claim(a)'
      <4>1. req[a].action = Mark
        BY <2>2, <3>1, <3>3 DEF Moved, AfterStop, Mark, Retry, Shutdown
      <4>2. StopOf(a).evidence = req[a].item.evidence /\ StopOf(a).reason = ByOperator
        BY <4>1 DEF StopOf, ReasonOf, Mark, Retry
      <4>3. Claimed(Mark, req[a].item.evidence, stops', finished', stage')
        BY <2>5, <4>2 DEF Claimed, Mark, Retry, Reconcile
      <4> QED BY <3>1, <4>1, <4>3 DEF Moved
    <3> HIDE DEF Claim
    <3>4. \A b \in Requests : b # a => req'[b] = req[b] BY <3>1 DEF Moved
    <3>5. \A b \in Requests : b # a /\ req'[b].pc = "receipt" => Claim(b)'
      BY <1>0, <3>4 DEF Claim
    <3> QED BY <1>0, <2>1, <3>1, <3>2, <3>3, <3>4, <3>5 DEF Moved
  <2> QED BY <2>3, <2>4, <2>5
<1>22. CASE ShutdownBegins
  <2>1. UNCHANGED <<receipts, finished>> BY <1>22 DEF ShutdownBegins
  <2>2. Goes(Shutdown, "cleaning") \/ Goes(Shutdown, "done") BY <1>22 DEF ShutdownBegins
  <2>3. Moved(Shutdown, "cleaning") \/ Moved(Shutdown, "done") BY <1>22, <2>2, Moves
  <2> QED BY <1>22, <1>0, <2>1, <2>3 DEF Moved
<1>23. CASE ShutdownInterrupts
  <2>1. UNCHANGED <<receipts, finished>> BY <1>23 DEF ShutdownInterrupts
  <2> QED BY <1>23, <1>0, <2>1, Interrupts
<1>24. CASE Exits
  <2>1. UNCHANGED <<receipts, finished>> BY <1>24 DEF Exits
  <2>2. \A q \in Requests : req'[q].pc \notin {"running", "receipt"}
    BY <1>24, Ceases DEF Exits
  <2> QED BY <1>0, <2>1, <2>2
<1>25. CASE Crash
  <2>1. UNCHANGED <<receipts, finished>> BY <1>25 DEF Crash
  <2>2. \A q \in Requests : req'[q].pc \notin {"running", "receipt"}
    BY <1>25, Ceases DEF Crash
  <2> QED BY <1>0, <2>1, <2>2
<1>26. CASE Restarts
  <2>1. UNCHANGED <<receipts, finished, req>> BY <1>26 DEF Restarts
  <2> QED BY <1>0, <2>1
<1>27. CASE DrainFails
  <2>1. UNCHANGED <<receipts, finished>> BY <1>27 DEF DrainFails
  <2>2. Goes(Shutdown, "wedged") BY <1>27 DEF DrainFails
  <2>3. Moved(Shutdown, "wedged") BY <1>27, <2>2, Moves
  <2> QED BY <1>27, <1>0, <2>1, <2>3 DEF Moved
<1> QED BY <1>1, <1>2, <1>3, <1>4, <1>5, <1>6, <1>7, <1>8, <1>9, <1>10, <1>11,
          <1>12, <1>13, <1>14, <1>15, <1>16, <1>17, <1>18, <1>19, <1>20, <1>21,
          <1>22, <1>23, <1>24, <1>25, <1>26, <1>27
  DEF Next, RequestStep

-----------------------------------------------------------------------------
(* A retry receipt is the end                                              *)

RetryOpen ==
    \A q \in Requests :
        req[q].pc \in {"stop", "record", "retry"} /\ req[q].action = Retry =>
            [evidence |-> req[q].item.evidence, action |-> Retry] \notin receipts

LEMMA NextRetryOpen ==
    ASSUME RecoveryAssumption, stage \in Stages, ReqTyped, DiskTyped, ActionsFit,
           OneAtATime, RetryOpen, Next
    PROVE  RetryOpen'
<1> USE DEF RecoveryAssumption, RetryOpen, Actors, PCs, Running, Awaiting,
           Closed, sourceVars, serverVars, diskVars, runVars, boundVars
<1>1. CASE SourceMoves
  BY <1>1 DEF SourceMoves
<1>2. CASE ExecutorExits
  BY <1>2 DEF ExecutorExits
<1>3. CASE ExecutorClosed
  BY <1>3 DEF ExecutorClosed
<1>4. CASE AnswerArrives
  BY <1>4 DEF AnswerArrives
<1>5. CASE RevisionPrepared
  BY <1>5 DEF RevisionPrepared
<1>6. ASSUME NEW q \in Requests, View(q)
      PROVE  RetryOpen'
  BY <1>6, Views DEF View
<1>7. ASSUME NEW q \in Requests, Post(q)
      PROVE  RetryOpen'
  <2>1. receipts' = receipts BY <1>7 DEF Post
  <2>2. \/ req'[q].pc \in {"refused", "done"}
        \/ ~ HasReceipt(req'[q].item.evidence, req'[q].action)
    BY <1>7, Posts
  <2> QED BY <1>7, <2>1, <2>2, Posts DEF HasReceipt
<1>8. ASSUME NEW q \in Requests, RetryRefused(q)
      PROVE  RetryOpen'
  BY <1>8, Moves DEF RetryRefused, Moved
<1>9. ASSUME NEW q \in Requests, RetryReplays(q)
      PROVE  RetryOpen'
  BY <1>9, Moves DEF RetryReplays, Moved
<1>10. ASSUME NEW q \in Requests, RetryStarts(q)
      PROVE  RetryOpen'
  BY <1>10, Moves DEF RetryStarts, Moved
<1>11. ASSUME NEW q \in Requests, Prepares(q)
      PROVE  RetryOpen'
  BY <1>11, Moves DEF Prepares, Moved
<1>12. ASSUME NEW q \in Requests, RunSucceeds(q)
      PROVE  RetryOpen'
  BY <1>12, Moves DEF RunSucceeds, Moved
<1>13. ASSUME NEW q \in Requests, RunThrows(q)
      PROVE  RetryOpen'
  BY <1>13, Moves DEF RunThrows, Moved
<1>14. ASSUME NEW q \in Requests, Loads(q)
      PROVE  RetryOpen'
  <2>1. Goes(q, "done") \/ Goes(q, "failed") BY <1>14 DEF Loads
  <2>2. receipts' = receipts BY <1>14 DEF Loads
  <2> QED BY <1>14, <2>1, <2>2, Moves DEF Moved
<1>15. ASSUME NEW q \in Requests, WrapperStarts(q)
      PROVE  RetryOpen'
  BY <1>15, Moves DEF WrapperStarts, Moved
<1>16. ASSUME NEW q \in Requests, WrapperMoves(q)
      PROVE  RetryOpen'
  BY <1>16 DEF WrapperMoves
<1>17. ASSUME NEW q \in Requests, WrapperEnds(q)
      PROVE  RetryOpen'
  BY <1>17, Moves DEF WrapperEnds, Moved
<1>18. ASSUME NEW q \in Requests, WritesReceipt(q)
      PROVE  RetryOpen'
  <2>1. req[q].pc = "receipt" /\ Moved(q, "done") BY <1>18, Moves DEF WritesReceipt
  <2>2. \A b \in Requests : b # q => req[b].pc \notin {"stop", "record", "retry"}
    BY <2>1 DEF OneAtATime
  <2> QED BY <2>1, <2>2 DEF Moved
<1>19. ASSUME NEW q \in Requests, ReceiptFails(q)
      PROVE  RetryOpen'
  BY <1>19, Moves DEF ReceiptFails, Moved
<1>20. ASSUME NEW a \in Actors, Preserves(a)
      PROVE  RetryOpen'
  BY <1>20, Moves DEF Preserves, Moved
<1>21. ASSUME NEW a \in Actors, Records(a)
      PROVE  RetryOpen'
  <2>1. receipts' = receipts /\ req[a].pc = "record" BY <1>21 DEF Records
  <2>2. Moved(a, "failed") \/ Moved(a, AfterStop(req[a].action))
    BY <1>21, Moves, AfterStops DEF Records
  <2> QED BY <2>1, <2>2 DEF Moved
<1>22. CASE ShutdownBegins
  BY <1>22, Moves DEF ShutdownBegins, Moved
<1>23. CASE ShutdownInterrupts
  <2>1. receipts' = receipts BY <1>23 DEF ShutdownInterrupts
  <2> QED BY <1>23, <2>1, Interrupts DEF Shutdown
<1>24. CASE Exits
  BY <1>24, Ceases DEF Exits
<1>25. CASE Crash
  <2>1. receipts' = receipts BY <1>25 DEF Crash
  <2> QED BY <1>25, <2>1, Ceases DEF Crash
<1>26. CASE Restarts
  BY <1>26 DEF Restarts
<1>27. CASE DrainFails
  BY <1>27, Moves DEF DrainFails, Moved
<1> QED BY <1>1, <1>2, <1>3, <1>4, <1>5, <1>6, <1>7, <1>8, <1>9, <1>10, <1>11,
          <1>12, <1>13, <1>14, <1>15, <1>16, <1>17, <1>18, <1>19, <1>20, <1>21,
          <1>22, <1>23, <1>24, <1>25, <1>26, <1>27
  DEF Next, RequestStep

-----------------------------------------------------------------------------
(* The theorems                                                            *)

\* The inductive invariant.
Inv ==
    Typed /\ OneAtATime /\ SourceOwned /\ Backed /\ OneStop /\ RetriedOnce /\ Underway
    /\ RetryOpen

LEMMA InitInv == ASSUME RecoveryAssumption, Init PROVE Inv
<1>1. \A a \in Actors : req[a].pc = "idle" BY DEF Init, Start
<1>2. Typed BY InitAllTyped
<1>3. OneAtATime BY <1>1 DEF OneAtATime, Running
<1>4. SourceOwned BY <1>1 DEF SourceOwned, Init, Actors
<1>5. Backed BY <1>1 DEF Backed, Init
<1>6. OneStop /\ RetriedOnce BY DEF OneStop, RetriedOnce, Init
<1>7. Underway BY <1>1 DEF Underway, Init, Actors
<1>8. RetryOpen BY <1>1 DEF RetryOpen, Actors
<1> QED BY <1>2, <1>3, <1>4, <1>5, <1>6, <1>7, <1>8 DEF Inv

LEMMA NextInv == ASSUME RecoveryAssumption, Inv, Next PROVE Inv'
<1>1. /\ ReqTyped /\ ActionsFit /\ DiskTyped /\ SourceTyped
      /\ stage \in Stages
  BY DEF Inv, Typed, SourceTyped
<1>2. Typed' BY NextTyped DEF Inv
<1>3. OneAtATime' BY <1>1, NextOneAtATime DEF Inv
<1>4. SourceOwned' BY <1>1, NextSourceOwned DEF Inv
<1>5. Backed' BY <1>1, NextBacked DEF Inv
<1>6. OneStop' /\ RetriedOnce' BY NextOneStop, NextRetriedOnce DEF Inv
<1>7. Underway' BY <1>1, NextUnderway DEF Inv
<1>8. RetryOpen' BY <1>1, NextRetryOpen DEF Inv
<1> QED BY <1>2, <1>3, <1>4, <1>5, <1>6, <1>7, <1>8 DEF Inv

LEMMA StutterInv == Inv /\ UNCHANGED vars => Inv'
<1> SUFFICES ASSUME Inv, UNCHANGED vars PROVE Inv'
  OBVIOUS
<1> USE DEF vars, sourceVars, serverVars, diskVars, runVars, boundVars
<1>1. Typed'
  BY DEF Inv, Typed, ReqTyped, ActionsFit, ActionFits, Quiet, SourceTyped, DiskTyped,
         RunsTyped, RunOf
<1>2. OneAtATime' /\ SourceOwned' BY DEF Inv, OneAtATime, SourceOwned
<1>3. Backed' BY DEF Inv, Backed
<1>4. OneStop' /\ RetriedOnce' BY DEF Inv, OneStop, RetriedOnce
<1>5. Underway' BY DEF Inv, Underway, Claim
<1>6. RetryOpen' BY DEF Inv, RetryOpen
<1> QED BY <1>1, <1>2, <1>3, <1>4, <1>5, <1>6 DEF Inv

\* The invariant holds of every reachable state.
THEOREM Invariant == Spec => []Inv
<1>1. Init => Inv BY RecoveryAssumption, InitInv
<1>2. Inv /\ [Next]_vars => Inv' BY RecoveryAssumption, NextInv, StutterInv
<1> QED BY <1>1, <1>2, PTL DEF Spec

\* Every variable keeps its type, and a stopped server has nothing under way
\* (mission-relay.mjs, the fields of the relay).
THEOREM TypeCorrect == Spec => []TypeOK
<1>1. Inv => TypeOK BY TypedOK DEF Inv
<1> QED BY <1>1, Invariant, PTL

\* A stop record always has the snapshot it names (reliability.mjs, 1770-1775).
THEOREM BackedCorrect == Spec => []StopsAreBacked
<1>1. Inv => StopsAreBacked BY BackedMeans DEF Inv, Typed
<1> QED BY <1>1, Invariant, PTL

\* An evidence directory has one stop record (reliability.mjs, 1811-1816).
THEOREM OneStopCorrect == Spec => []OneStop
<1>1. Inv => OneStop BY DEF Inv
<1> QED BY <1>1, Invariant, PTL

\* A recovery receipt claims what is so (reliability.mjs, 1722-1755).
THEOREM ReceiptsCorrect == Spec => []ReceiptsAreTrue
<1>1. Inv => ReceiptsAreTrue BY UnderwayMeans DEF Inv
<1> QED BY <1>1, Invariant, PTL

\* One server starts one new run for the same evidence (mission-relay.mjs,
\* 1110-1112).
THEOREM RetriedOnceCorrect == Spec => []RetriedOnce
<1>1. Inv => RetriedOnce BY DEF Inv
<1> QED BY <1>1, Invariant, PTL

\* No new run is under way beside the source's own executor (mission-relay.mjs,
\* 1108).
THEOREM BesideCorrect == Spec => []NoRunBesideSource
<1>1. Inv => NoRunBesideSource
  BY RecoveryAssumption DEF Inv, SourceOwned, NoRunBesideSource, RecoveryAssumption
<1> QED BY <1>1, Invariant, PTL

LEMMA NextEnds ==
    ASSUME RecoveryAssumption, ReqTyped, ActionsFit, RetryOpen, Next
    PROVE  \A n \in runs' \ runs :
              [evidence |-> n.evidence, action |-> Retry] \notin receipts
<1>1. CASE \E q \in Requests : RetryStarts(q)
  <2> PICK q \in Requests : RetryStarts(q) BY <1>1
  <2>1. /\ req[q].pc = "retry"
        /\ \A n \in runs' \ runs : n.evidence = req[q].item.evidence
    BY DEF RetryStarts
  <2>2. req[q].action = Retry BY <2>1 DEF ActionsFit, ActionFits, Actors
  <2> QED BY <2>1, <2>2 DEF RetryOpen
<1>2. ASSUME ~ \E q \in Requests : RetryStarts(q) PROVE runs' = runs
  <2> USE DEF sourceVars, serverVars, diskVars, runVars, boundVars
  <2>1. ASSUME SourceMoves PROVE runs' = runs BY <2>1 DEF SourceMoves
  <2>2. ASSUME ExecutorExits PROVE runs' = runs BY <2>2 DEF ExecutorExits
  <2>3. ASSUME ExecutorClosed PROVE runs' = runs BY <2>3 DEF ExecutorClosed
  <2>4. ASSUME AnswerArrives PROVE runs' = runs BY <2>4 DEF AnswerArrives
  <2>5. ASSUME RevisionPrepared PROVE runs' = runs BY <2>5 DEF RevisionPrepared
  <2>6. ASSUME NEW q \in Requests, View(q) PROVE runs' = runs BY <2>6 DEF View
  <2>7. ASSUME NEW q \in Requests, Post(q) PROVE runs' = runs BY <2>7 DEF Post
  <2>8. ASSUME NEW q \in Requests, RetryRefused(q) PROVE runs' = runs BY <2>8 DEF RetryRefused
  <2>9. ASSUME NEW q \in Requests, RetryReplays(q) PROVE runs' = runs BY <2>9 DEF RetryReplays
  <2>10. ASSUME NEW q \in Requests, Prepares(q) PROVE runs' = runs BY <2>10 DEF Prepares
  <2>11. ASSUME NEW q \in Requests, RunSucceeds(q) PROVE runs' = runs BY <2>11 DEF RunSucceeds
  <2>12. ASSUME NEW q \in Requests, RunThrows(q) PROVE runs' = runs BY <2>12 DEF RunThrows
  <2>13. ASSUME NEW q \in Requests, Loads(q) PROVE runs' = runs BY <2>13 DEF Loads
  <2>14. ASSUME NEW q \in Requests, WrapperStarts(q) PROVE runs' = runs BY <2>14 DEF WrapperStarts
  <2>15. ASSUME NEW q \in Requests, WrapperMoves(q) PROVE runs' = runs BY <2>15 DEF WrapperMoves
  <2>16. ASSUME NEW q \in Requests, WrapperEnds(q) PROVE runs' = runs BY <2>16 DEF WrapperEnds
  <2>17. ASSUME NEW q \in Requests, WritesReceipt(q) PROVE runs' = runs BY <2>17 DEF WritesReceipt
  <2>18. ASSUME NEW q \in Requests, ReceiptFails(q) PROVE runs' = runs BY <2>18 DEF ReceiptFails
  <2>19. ASSUME NEW a \in Actors, Preserves(a) PROVE runs' = runs BY <2>19 DEF Preserves
  <2>20. ASSUME NEW a \in Actors, Records(a) PROVE runs' = runs BY <2>20 DEF Records
  <2>21. ASSUME ShutdownBegins PROVE runs' = runs BY <2>21 DEF ShutdownBegins
  <2>22. ASSUME ShutdownInterrupts PROVE runs' = runs BY <2>22 DEF ShutdownInterrupts
  <2>23. ASSUME Exits PROVE runs' = runs BY <2>23 DEF Exits
  <2>24. ASSUME Crash PROVE runs' = runs BY <2>24 DEF Crash
  <2>25. ASSUME Restarts PROVE runs' = runs BY <2>25 DEF Restarts
  <2>26. ASSUME DrainFails PROVE runs' = runs BY <2>26 DEF DrainFails
  <2> QED BY <1>2, <2>1, <2>2, <2>3, <2>4, <2>5, <2>6, <2>7, <2>8, <2>9, <2>10,
            <2>11, <2>12, <2>13, <2>14, <2>15, <2>16, <2>17, <2>18, <2>19,
            <2>20, <2>21, <2>22, <2>23, <2>24, <2>25, <2>26
    DEF Next, RequestStep
<1> QED BY <1>1, <1>2

\* Nothing is started for evidence that has its retry receipt, in this server or
\* a later one (reliability.mjs, 1866-1877).
THEOREM EndsCorrect == Spec => ReceiptEndsRetries
<1>1. ASSUME Inv, [Next]_vars
      PROVE  [\A n \in runs' \ runs :
                 [evidence |-> n.evidence, action |-> Retry] \notin receipts]_vars
  <2>1. CASE Next BY <2>1, <1>1, RecoveryAssumption, NextEnds DEF Inv, Typed
  <2>2. CASE UNCHANGED vars BY <2>2
  <2> QED BY <1>1, <2>1, <2>2
<1> QED BY <1>1, Invariant, PTL DEF Spec, ReceiptEndsRetries

-----------------------------------------------------------------------------
(* What a repeated recovery needs                                          *)

\* The server dies, or cannot write, when the receipt of a new run is due.
ReceiptDue(q) == req[q].pc = "receipt" /\ req[q].action = Retry
ReceiptLost == \E q \in Requests : ReceiptDue(q) /\ (Crash \/ ReceiptFails(q))

\* Unless that happens, a run that resolved has its receipt or is about to.
Receipted ==
    \A n \in finished :
        \/ [evidence |-> n.evidence, action |-> Retry] \in receipts
        \/ \E q \in Requests : ReceiptDue(q) /\ req[q].item.evidence = n.evidence

\* Then nothing was started again after a run that resolved.
LastResolved ==
    /\ \A n \in runs : n.generation <= generation
    /\ \A m, n \in runs :
          m.evidence = n.evidence /\ m.generation < n.generation => m \notin finished

\* Steps that neither start, resolve nor record a run.
Aside ==
    /\ UNCHANGED <<runs, finished, receipts>>
    /\ generation' \in {generation, generation + 1}
    /\ \A q \in Requests : ReceiptDue(q) => req'[q] = req[q]

LEMMA AsideOr ==
    ASSUME RecoveryAssumption, stage \in Stages, ReqTyped, ActionsFit, Next, ~ ReceiptLost
    PROVE  \/ Aside
           \/ \E q \in Requests : RetryStarts(q) \/ RunSucceeds(q) \/ WritesReceipt(q)
<1> USE DEF RecoveryAssumption, Aside, ReceiptDue, Actors, PCs, Running, Awaiting,
            Closed, sourceVars, serverVars, diskVars, runVars, boundVars
<1>1. ASSUME SourceMoves PROVE Aside
  BY <1>1 DEF SourceMoves
<1>2. ASSUME ExecutorExits PROVE Aside
  BY <1>2 DEF ExecutorExits
<1>3. ASSUME ExecutorClosed PROVE Aside
  BY <1>3 DEF ExecutorClosed
<1>4. ASSUME AnswerArrives PROVE Aside
  BY <1>4 DEF AnswerArrives
<1>5. ASSUME RevisionPrepared PROVE Aside
  BY <1>5 DEF RevisionPrepared
<1>6. ASSUME NEW q \in Requests, View(q) PROVE Aside
  BY <1>6, Views DEF View
<1>7. ASSUME NEW q \in Requests, Post(q) PROVE Aside
  <2>1. UNCHANGED <<runs, finished, receipts, generation>> BY <1>7 DEF Post
  <2>2. req[q].pc = "viewed" /\ \A b \in Actors : b # q => req'[b] = req[b]
    BY <1>7, Posts
  <2> QED BY <2>1, <2>2
<1>8. ASSUME NEW q \in Requests, RetryRefused(q) PROVE Aside
  <2>1. UNCHANGED <<runs, finished, receipts, generation>> /\ req[q].pc = "retry"
    BY <1>8 DEF RetryRefused
  <2>2. \A b \in Actors : b # q => req'[b] = req[b]
    BY <1>8 DEF RetryRefused, Goes, ReqTyped
  <2> QED BY <2>1, <2>2
<1>9. ASSUME NEW q \in Requests, RetryReplays(q) PROVE Aside
  <2>1. UNCHANGED <<runs, finished, receipts, generation>> /\ req[q].pc = "retry"
    BY <1>9 DEF RetryReplays
  <2>2. \A b \in Actors : b # q => req'[b] = req[b]
    BY <1>9 DEF RetryReplays, Goes, ReqTyped
  <2> QED BY <2>1, <2>2
<1>10. ASSUME NEW q \in Requests, Prepares(q) PROVE Aside
  <2>1. UNCHANGED <<runs, finished, receipts, generation>> /\ req[q].pc = "preparing"
    BY <1>10 DEF Prepares
  <2>2. \A b \in Actors : b # q => req'[b] = req[b]
    BY <1>10 DEF Prepares, Goes, ReqTyped
  <2> QED BY <2>1, <2>2
<1>11. ASSUME NEW q \in Requests, RunThrows(q) PROVE Aside
  <2>1. UNCHANGED <<runs, finished, receipts, generation>> /\ req[q].pc \in {"preparing", "running"}
    BY <1>11 DEF RunThrows
  <2>2. \A b \in Actors : b # q => req'[b] = req[b]
    BY <1>11 DEF RunThrows, Goes, ReqTyped
  <2> QED BY <2>1, <2>2
<1>12. ASSUME NEW q \in Requests, Loads(q) PROVE Aside
  <2>1. UNCHANGED <<runs, finished, receipts, generation>> /\ req[q].pc = "load"
    BY <1>12 DEF Loads
  <2>2. \A b \in Actors : b # q => req'[b] = req[b]
    BY <1>12 DEF Loads, Goes, ReqTyped
  <2> QED BY <2>1, <2>2
<1>13. ASSUME NEW q \in Requests, WrapperStarts(q) PROVE Aside
  <2>1. UNCHANGED <<runs, finished, receipts, generation>> /\ req[q].pc = "move"
    BY <1>13 DEF WrapperStarts
  <2>2. \A b \in Actors : b # q => req'[b] = req[b]
    BY <1>13 DEF WrapperStarts, Goes, ReqTyped
  <2> QED BY <2>1, <2>2
<1>14. ASSUME NEW q \in Requests, WrapperEnds(q) PROVE Aside
  <2>1. UNCHANGED <<runs, finished, receipts, generation>> /\ req[q].pc = "wrapping"
    BY <1>14 DEF WrapperEnds
  <2>2. \A b \in Actors : b # q => req'[b] = req[b]
    BY <1>14 DEF WrapperEnds, Goes, ReqTyped
  <2> QED BY <2>1, <2>2
<1>15. ASSUME NEW q \in Requests, WrapperMoves(q) PROVE Aside
  BY <1>15 DEF WrapperMoves
<1>16. ASSUME NEW q \in Requests, ReceiptFails(q) PROVE Aside
  <2>1. UNCHANGED <<runs, finished, receipts, generation>> /\ ~ ReceiptDue(q)
    BY <1>16 DEF ReceiptFails, ReceiptLost
  <2>2. \A b \in Actors : b # q => req'[b] = req[b]
    BY <1>16 DEF ReceiptFails, Goes, ReqTyped
  <2> QED BY <2>1, <2>2
<1>17. ASSUME NEW a \in Actors, Preserves(a) PROVE Aside
  <2>1. UNCHANGED <<runs, finished, receipts, generation>> /\ req[a].pc = "stop"
    BY <1>17 DEF Preserves
  <2>2. \A b \in Actors : b # a => req'[b] = req[b]
    BY <1>17 DEF Preserves, Goes, ReqTyped
  <2> QED BY <2>1, <2>2
<1>18. ASSUME NEW a \in Actors, Records(a) PROVE Aside
  <2>1. UNCHANGED <<runs, finished, receipts, generation>> /\ req[a].pc = "record"
    BY <1>18 DEF Records
  <2>2. \A b \in Actors : b # a => req'[b] = req[b]
    BY <1>18 DEF Records, Goes, ReqTyped
  <2> QED BY <2>1, <2>2
<1>19. ASSUME ShutdownBegins PROVE Aside
  <2>1. UNCHANGED <<runs, finished, receipts, generation>> BY <1>19 DEF ShutdownBegins
  <2>2. \A b \in Actors : b # Shutdown => req'[b] = req[b]
    BY <1>19 DEF ShutdownBegins, Goes, ReqTyped
  <2> QED BY <2>1, <2>2 DEF Shutdown
<1>20. ASSUME ShutdownInterrupts PROVE Aside
  <2>1. UNCHANGED <<runs, finished, receipts, generation>>
    BY <1>20 DEF ShutdownInterrupts
  <2> QED BY <1>20, <2>1, Interrupts DEF Shutdown
<1>21. ASSUME Exits PROVE Aside
  <2>1. UNCHANGED <<runs, finished, receipts, generation>> BY <1>21 DEF Exits
  <2>2. \A q \in Requests : ~ ReceiptDue(q) BY <1>21 DEF Exits, LoopFree
  <2> QED BY <2>1, <2>2
<1>22. ASSUME Crash PROVE Aside
  <2>1. UNCHANGED <<runs, finished, receipts, generation>> BY <1>22 DEF Crash
  <2>2. \A q \in Requests : ~ ReceiptDue(q) BY <1>22 DEF ReceiptLost
  <2> QED BY <2>1, <2>2
<1>23. ASSUME Restarts PROVE Aside
  BY <1>23 DEF Restarts
<1>24. ASSUME DrainFails PROVE Aside
  <2>1. UNCHANGED <<runs, finished, receipts, generation>> BY <1>24 DEF DrainFails
  <2>2. \A b \in Actors : b # Shutdown => req'[b] = req[b]
    BY <1>24 DEF DrainFails, Goes, ReqTyped
  <2> QED BY <2>1, <2>2 DEF Shutdown
<1> QED
  BY <1>1, <1>2, <1>3, <1>4, <1>5, <1>6, <1>7, <1>8, <1>9, <1>10, <1>11, <1>12,
     <1>13, <1>14, <1>15, <1>16, <1>17, <1>18, <1>19, <1>20, <1>21, <1>22, <1>23, <1>24
  DEF Next, RequestStep

LEMMA NextReceipted ==
    ASSUME RecoveryAssumption, stage \in Stages, generation \in Nat, ReqTyped, ActionsFit,
           RunsTyped, OneAtATime, RetryOpen, Receipted, LastResolved, Next, ~ ReceiptLost
    PROVE  Receipted' /\ LastResolved'
<1> USE DEF sourceVars, serverVars, diskVars, runVars, boundVars
<1>1. CASE Aside
  <2>1. \A q \in Requests : ReceiptDue(q) => ReceiptDue(q)' /\ req'[q] = req[q]
    BY <1>1 DEF Aside, ReceiptDue
  <2>2. UNCHANGED <<runs, finished, receipts>> /\ generation <= generation'
    BY <1>1 DEF Aside
  <2>3. Receipted' BY <2>1, <2>2 DEF Receipted
  <2>4. \A n \in runs : n.generation \in Nat BY DEF RunsTyped
  <2>5. LastResolved' BY <1>1, <2>2, <2>4 DEF LastResolved, Aside
  <2> QED BY <2>3, <2>5
<1>2. ASSUME NEW q \in Requests, RetryStarts(q)
      PROVE  Receipted' /\ LastResolved'
  <2> DEFINE e == req[q].item.evidence
             new == [evidence |-> e, generation |-> generation, by |-> q]
  <2>1. /\ req[q].pc = "retry" /\ q \in Actors
        /\ runs' = runs \cup {new}
        /\ UNCHANGED <<finished, receipts, generation>>
        /\ Prior(e) = {}
    BY <1>2 DEF RetryStarts, Actors
  <2>2. \A p \in Requests : ReceiptDue(p) => FALSE
    BY <2>1 DEF OneAtATime, ReceiptDue, Running, Actors
  <2>3. Receipted' BY <2>1, <2>2 DEF Receipted
  <2>4. [evidence |-> e, action |-> Retry] \notin receipts
    BY <2>1 DEF RetryOpen, ActionsFit, ActionFits
  <2>5. \A m \in finished : m.evidence # e
    BY <2>2, <2>4 DEF Receipted
  <2>6. new.evidence = e /\ new.generation = generation
    OBVIOUS
  <2> HIDE DEF new, e
  <2>7. \A m \in runs : m.generation \in Nat /\ m.generation <= generation
    BY DEF RunsTyped, LastResolved
  <2>8. \A m, n \in runs' :
          m.evidence = n.evidence /\ m.generation < n.generation => m \notin finished
    BY <2>1, <2>5, <2>6, <2>7 DEF LastResolved
  <2>9. LastResolved' BY <2>1, <2>6, <2>7, <2>8 DEF LastResolved
  <2> QED BY <2>3, <2>9
<1>3. ASSUME NEW q \in Requests, RunSucceeds(q)
      PROVE  Receipted' /\ LastResolved'
  <2>1. /\ req[q].pc = "running" /\ q \in Actors
        /\ finished' = finished \cup {RunOf(q)}
        /\ UNCHANGED <<runs, receipts, generation>>
        /\ Goes(q, "receipt")
    BY <1>3 DEF RunSucceeds, Actors
  <2>2. req[q].action = Retry BY <2>1 DEF ActionsFit, ActionFits
  <2>3. Moved(q, "receipt") BY <2>1, Moves DEF PCs, Running
  <2>4. /\ ReceiptDue(q)'
        /\ req'[q].item.evidence = RunOf(q).evidence
        /\ RunOf(q).generation = generation
    BY <2>2, <2>3 DEF Moved, ReceiptDue, RunOf
  <2>5. \A p \in Requests : ReceiptDue(p) => ReceiptDue(p)' /\ req'[p] = req[p]
    BY <2>1, <2>3 DEF Moved, ReceiptDue, Actors
  <2>6. Receipted' BY <2>1, <2>4, <2>5 DEF Receipted
  <2>7. \A n \in runs : n.generation \in Nat /\ n.generation <= generation
    BY DEF RunsTyped, LastResolved
  <2>8. LastResolved' BY <2>1, <2>4, <2>7 DEF LastResolved
  <2> QED BY <2>6, <2>8
<1>4. ASSUME NEW q \in Requests, WritesReceipt(q)
      PROVE  Receipted' /\ LastResolved'
  <2>1. /\ q \in Actors /\ Goes(q, "done")
        /\ receipts' = receipts \cup
             {[evidence |-> req[q].item.evidence, action |-> req[q].action]}
        /\ UNCHANGED <<runs, finished, generation>>
    BY <1>4 DEF WritesReceipt, Actors
  <2>2. Moved(q, "done") BY <2>1, Moves DEF PCs, Closed
  <2>3. \A p \in Requests :
          ReceiptDue(p) /\ p # q => ReceiptDue(p)' /\ req'[p] = req[p]
    BY <2>2 DEF Moved, ReceiptDue, Actors
  <2>4. ReceiptDue(q) =>
          [evidence |-> req[q].item.evidence, action |-> Retry] \in receipts'
    BY <2>1 DEF ReceiptDue
  <2>5. Receipted' BY <2>1, <2>3, <2>4 DEF Receipted
  <2>6. LastResolved' BY <2>1 DEF LastResolved
  <2> QED BY <2>5, <2>6
<1> QED BY AsideOr, <1>1, <1>2, <1>3, <1>4

\* A recovery is repeated only after a receipt was lost: the server crashed or
\* failed to write between a new run that resolved and its receipt.  Restarts,
\* refusals, failed runs and crashes at any other moment never repeat one
\* (performRecoveryAction, 1867-1902; mission-relay.mjs, 1103-1113).
THEOREM RepeatsNeedALostReceipt ==
    Spec /\ [][~ ReceiptLost]_vars => []NeverRepeated
<1>1. Init => Receipted /\ LastResolved
  BY DEF Init, Receipted, LastResolved
<1>2. Inv /\ Receipted /\ LastResolved /\ [Next]_vars /\ [~ ReceiptLost]_vars
        => Receipted' /\ LastResolved'
  <2> SUFFICES ASSUME Inv, Receipted, LastResolved, [Next]_vars, [~ ReceiptLost]_vars
               PROVE  Receipted' /\ LastResolved'
    OBVIOUS
  <2>1. CASE UNCHANGED vars
    BY <2>1 DEF vars, sourceVars, serverVars, diskVars, runVars, Receipted,
       LastResolved, ReceiptDue
  <2>2. CASE Next /\ ~ ReceiptLost
    BY <2>2, RecoveryAssumption, NextReceipted DEF Inv, Typed, SourceTyped
  <2> QED BY <2>1, <2>2
<1>3. Inv /\ Receipted /\ LastResolved => NeverRepeated
  <2> SUFFICES ASSUME Inv, LastResolved, NEW m \in finished, NEW n \in finished,
                      m.evidence = n.evidence
               PROVE  m = n
    BY DEF NeverRepeated
  <2>1. m \in runs /\ n \in runs /\ m.generation \in Nat /\ n.generation \in Nat
    BY DEF Inv, Typed, RunsTyped
  <2>2. m.generation = n.generation
    BY <2>1 DEF LastResolved
  <2> QED BY <2>1, <2>2 DEF Inv, RetriedOnce
<1> QED BY <1>1, <1>2, <1>3, Invariant, PTL DEF Spec
=============================================================================
