--------------------------- MODULE AppServerTurn ---------------------------
(***************************************************************************)
(* tsf-codex-app-server-adapter.mjs: one adapter process starts one Codex  *)
(* app-server, asks it four things in order, waits for one turn to end and *)
(* writes one result.                                                      *)
(*                                                                         *)
(* A request is awaited before the next is sent, so at most one is pending *)
(* and the id of a request is its place in Methods.  The lines of one      *)
(* chunk are handled before the promise a response settled is taken up:    *)
(* `settled` is that promise, and timers and the exit of the child wait    *)
(* for it while lines do not.  The server, a process outside this code,    *)
(* may answer, send any of Lines, die or stay silent.  Names of its thread *)
(* and turn are those in its answers.                                      *)
(***************************************************************************)
EXTENDS Naturals, Sequences

CONSTANTS
  Thread, Turn,        \* the ids in the answers to thread/start and turn/start
  None,                \* "" or null: nothing yet, or a field a line leaves out
  Lines,               \* well-formed lines the server may send, answers apart
  ItemMethods,         \* the methods that begin with "item/"
  ExactResponse,       \* --expected-response-sha256 was given
  MaxLines,            \* bound: lines beside the answers
  MaxEarly             \* bound: those that come before turn/start is sent

\* A line beside the answers: an interactive request, a response nobody waits
\* for, or a notification with the ids it carries, the type of its item and what
\* it says: a text, a status or an effort.
Interactive == [kind |-> "request"]
Stray == [kind |-> "response"]
Methods == <<"initialize", "model/list", "thread/start", "turn/start">>

ASSUME LinesAssumption ==
  \A l \in Lines : l \in {Interactive, Stray} \/ l.kind = "event"
ASSUME ItemsAssumption ==
  /\ {"item/started", "item/completed"} \subseteq ItemMethods
  /\ ItemMethods \cap {"turn/started", "turn/completed",
                       "thread/settings/updated",
                       "thread/tokenUsage/updated"} = {}
ASSUME BoundsAssumption ==
  /\ MaxLines \in Nat /\ MaxEarly \in 0..MaxLines
  /\ ExactResponse \in BOOLEAN
ASSUME IdsAssumption == None \notin {Thread, Turn, "completed", "text"}

VARIABLES
  phase,          \* spawning, asking, waiting, stopping, done, crashed
  asked, pending, \* requests sent; whether the last one awaits its answer
  settled,        \* what its promise was settled with, until it is taken up
  threadId, turnId, turnStarted, completedTurn, finalResponse, seen,
  oddEfforts,     \* reported efforts that normalizeEffort does not know
  acknowledged,   \* turnRequestAcknowledged
  protocolError, malformed, timedOut,
  failure,        \* "", "spawn" or "protocol"
  child,          \* the process itself: running, dead, or never started
  childExited,    \* its exit event was handled
  journal,        \* the lines of Lines journaled before the verdict
  boundAt,        \* its length when the turn was bound
  late,           \* lines of Lines after the verdict
  result

turn == <<threadId, turnId, turnStarted, completedTurn, finalResponse, seen,
          oddEfforts, acknowledged>>
asking == <<asked, pending, settled>>
process == <<child, childExited>>
log == <<journal, boundAt, late>>
vars == <<phase, asking, turn, protocolError, malformed, timedOut, failure,
          process, log, result>>

Init ==
  /\ phase = "spawning"
  /\ asked = 0 /\ pending = FALSE /\ settled = "none"
  /\ threadId = None /\ turnId = None /\ turnStarted = FALSE
  /\ completedTurn = None /\ finalResponse = None /\ seen = {}
  /\ oddEfforts = {} /\ acknowledged = FALSE
  /\ protocolError = FALSE /\ malformed = 0 /\ timedOut = FALSE
  /\ failure = "" /\ childExited = FALSE
  /\ journal = <<>> /\ boundAt = 0 /\ late = 0
  /\ child = "running"
  /\ result = None

-----------------------------------------------------------------------------
(* The child process and what is written to it. *)

Ended == phase \in {"done", "crashed"}

\* A timer or an exit event runs after the continuation of a settled promise.
Idle == settled = "none" /\ ~Ended

ChildDies ==
  /\ child = "running" /\ ~Ended
  /\ child' = "dead"
  /\ UNCHANGED <<phase, asking, turn, protocolError, malformed, timedOut,
                 failure, childExited, log, result>>

\* Mutant: the request stays in the map.
RejectsKeeping ==
  /\ settled' = IF pending THEN "rejected" ELSE settled
  /\ UNCHANGED <<asked, pending>>

\* Rejects the pending request, if there is one.
Rejects ==
  /\ pending' = FALSE
  /\ settled' = IF pending THEN "rejected" ELSE settled
  /\ UNCHANGED asked

\* The exit event; with a completed turn the pending request keeps its timer.
ExitNoticed ==
  /\ child = "dead" /\ ~childExited /\ Idle
  /\ childExited' = TRUE
  /\ IF completedTurn = None THEN Rejects ELSE UNCHANGED asking
  /\ UNCHANGED <<phase, turn, protocolError, malformed, timedOut, failure,
                 child, log, result>>

\* An error on a stream nobody listens to ends the adapter, with all it had in
\* memory and without a result.
Crashes ==
  /\ phase' = "crashed"
  /\ asked' = 0 /\ pending' = FALSE /\ settled' = "none"
  /\ threadId' = None /\ turnId' = None /\ turnStarted' = FALSE
  /\ completedTurn' = None /\ finalResponse' = None /\ seen' = {}
  /\ oddEfforts' = {} /\ acknowledged' = FALSE
  /\ protocolError' = FALSE /\ malformed' = 0 /\ timedOut' = FALSE
  /\ failure' = "" /\ childExited' = FALSE
  /\ journal' = <<>> /\ boundAt' = 0 /\ late' = 0
  /\ UNCHANGED <<child, result>>

\* Goes to the finally block with failure f.
Stop(f) ==
  /\ failure' = f
  /\ phase' = "stopping"

-----------------------------------------------------------------------------
(* Spawn and handshake. *)

\* No process, an identity that does not match, or no git identity.
SpawnFails ==
  /\ phase = "spawning"
  /\ Stop("spawn")
  /\ child' \in {child, "never"} /\ (child = "dead" => child' = child)
  /\ UNCHANGED <<asking, turn, protocolError, malformed, timedOut, childExited,
                 log, result>>

Ask ==
  /\ asked' = asked + 1
  /\ pending' = TRUE
  /\ settled' = "none"

Spawned ==
  /\ phase = "spawning"
  /\ phase' = "asking"
  /\ Ask
  /\ UNCHANGED <<turn, protocolError, malformed, timedOut, failure, process,
                 log, result>>

\* The server answers the pending request: an error, a result the adapter will
\* refuse, or a good one; a thread may come with an effort nobody knows.
Answered(how) ==
  /\ phase = "asking" /\ pending
  /\ pending' = FALSE
  /\ settled' = how
  /\ acknowledged' = (acknowledged \/ (asked = Len(Methods) /\ how # "error"))
  /\ \/ UNCHANGED oddEfforts
     \/ /\ Methods[asked] = "thread/start" /\ how # "error"
        /\ oddEfforts' = {"default"}
  /\ UNCHANGED <<phase, asked, threadId, turnId, turnStarted, completedTurn,
                 finalResponse, seen, protocolError, malformed, timedOut,
                 failure, process, log, result>>

RequestTimesOut ==
  /\ pending /\ Idle
  /\ Rejects
  /\ UNCHANGED <<phase, turn, protocolError, malformed, timedOut, failure,
                 process, log, result>>

\* The continuation of an await: the next request, the wait for the turn, or
\* the catch block.
NextRequest ==
  /\ phase = "asking" /\ settled = "good" /\ asked < Len(Methods)
  /\ Ask
  /\ threadId' = IF Methods[asked] = "thread/start" THEN Thread ELSE threadId
  /\ UNCHANGED <<phase, turnId, turnStarted, completedTurn, finalResponse, seen,
                 oddEfforts, acknowledged, protocolError, malformed, timedOut,
                 failure, process, log, result>>

TurnBound ==
  /\ phase = "asking" /\ settled = "good" /\ asked = Len(Methods)
  /\ phase' = "waiting"
  /\ settled' = "none"
  /\ turnId' = Turn
  /\ boundAt' = Len(journal)
  /\ UNCHANGED <<asked, pending, threadId, turnStarted, completedTurn,
                 finalResponse, seen, oddEfforts, acknowledged,
                 protocolError, malformed, timedOut, failure, process, journal, late,
                 result>>

RequestFailed ==
  /\ phase = "asking" /\ settled \in {"error", "refused", "rejected"}
  /\ Stop("protocol")
  /\ settled' = "none"
  /\ UNCHANGED <<asked, pending, turn, protocolError, malformed, timedOut,
                 process, log, result>>

-----------------------------------------------------------------------------
(* Lines of the server beside its answers.  They are read from the first     *)
(* request on, and until the result is written.                              *)

Reading == child # "never" /\ phase \in {"asking", "waiting", "stopping"}

Room ==
  Len(journal) + malformed + late
    < IF asked < Len(Methods) THEN MaxEarly ELSE MaxLines

\* journalMessage; after journal.end() it may go nowhere.
Journals(l) ==
  /\ Reading /\ Room
  /\ IF phase = "stopping"
     THEN late' = late + 1 /\ UNCHANGED journal
     ELSE journal' = Append(journal, l) /\ UNCHANGED late
  /\ UNCHANGED <<phase, asking, malformed, timedOut, failure, process, boundAt,
                 result>>

\* ... or its error may end the adapter.  The exit of the child or five seconds
\* bring the end of the journal, so it may come at any moment of the stop.
LineBreaks == Reading /\ phase = "stopping" /\ Room /\ Lines # {} /\ Crashes

\* The same for what is written to a child that is gone, or after stdin.end().
WriteBreaks ==
  /\ \/ /\ child = "dead" /\ ~childExited
        /\ \/ phase = "spawning"
           \/ phase = "asking" /\ settled = "good" /\ asked < Len(Methods)
           \/ Reading /\ Room /\ Interactive \in Lines
     \/ Reading /\ phase = "stopping" /\ Room /\ Interactive \in Lines
  /\ Crashes

MalformedLine ==
  /\ Reading /\ Room
  /\ malformed' = malformed + 1
  /\ protocolError' = TRUE
  /\ Rejects
  /\ UNCHANGED <<phase, turn, timedOut, failure, process, log,
                 result>>

\* A response without a request, or an interactive request, which is refused.
UnexpectedLine ==
  /\ \E l \in Lines \cap {Interactive, Stray} : Journals(l)
  /\ protocolError' = TRUE
  /\ UNCHANGED turn

Key(e) == <<e.method, e.thread, e.turn, e.item, e.type>>
\* Mutant: the turn of an event is not compared.
SpoofedThread(e) == threadId # None /\ e.thread \notin {None, threadId}
Spoofed(e) ==
  \/ threadId # None /\ e.thread \notin {None, threadId}
  \/ turnId # None /\ e.turn \notin {None, turnId}
Once == {"turn/started", "turn/completed", "item/started", "item/completed"}
Duplicate(e) == Key(e) \in seen /\ e.method \in Once
OfItem(e) == e.method \in ItemMethods
AgentMessage(e) == e.method = "item/completed" /\ e.type = "agentMessage"

\* handleNotification throws before it has recorded the event.
EventRefused(e) ==
  /\ Spoofed(e) \/ Duplicate(e)
  /\ Journals(e)
  /\ protocolError' = TRUE
  /\ UNCHANGED turn

\* ... or after, when an item comes before a turn has started, or with a usage
\* that is not one.
TooEarly(e) == OfItem(e) /\ ~turnStarted
BadUsage(e) == e.method = "thread/tokenUsage/updated" /\ e.says # "usage"
EventThrows(e) ==
  /\ ~Spoofed(e) /\ ~Duplicate(e)
  /\ TooEarly(e) \/ BadUsage(e)
  /\ Journals(e)
  /\ protocolError' = TRUE
  /\ seen' = seen \cup {Key(e)}
  /\ UNCHANGED <<threadId, turnId, turnStarted, completedTurn, finalResponse,
                 oddEfforts, acknowledged>>

EventTaken(e) ==
  /\ ~Spoofed(e) /\ ~Duplicate(e)
  /\ ~TooEarly(e) /\ ~BadUsage(e)
  /\ Journals(e)
  /\ seen' = seen \cup {Key(e)}
  /\ turnStarted' = (turnStarted \/ e.method = "turn/started")
  /\ oddEfforts' = CASE e.method # "thread/settings/updated" -> oddEfforts
                     [] ~acknowledged \/ e.says = None -> oddEfforts
                     [] e.says = "known" -> oddEfforts \ {"effective"}
                     [] OTHER -> oddEfforts \cup {"effective"}
  /\ finalResponse' = IF AgentMessage(e) THEN e.says ELSE finalResponse
  /\ completedTurn' = IF e.method = "turn/completed" THEN e.says
                                                     ELSE completedTurn
  /\ UNCHANGED <<threadId, turnId, acknowledged, protocolError>>

Notification ==
  \E e \in Lines \ {Interactive, Stray} :
    EventRefused(e) \/ EventThrows(e) \/ EventTaken(e)

-----------------------------------------------------------------------------
(* The end of the turn. *)

OverallTimeout ==
  /\ phase \in {"asking", "waiting"} /\ ~timedOut /\ Idle
  /\ timedOut' = TRUE
  /\ protocolError' = TRUE
  /\ Rejects
  /\ UNCHANGED <<phase, turn, malformed, failure, process, log,
                 result>>

\* Mutant: the wait loop looks for the end of the turn only.
TurnOverUntimed == completedTurn # None
\* The wait loop looks every 25 ms, and does not look at childExited.
TurnOver == completedTurn # None \/ protocolError \/ timedOut

Verdict ==
  IF \/ protocolError
     \/ completedTurn # "completed"
     \/ ~ExactResponse /\ finalResponse # "text"
  THEN "protocol" ELSE ""

TurnJudged ==
  /\ phase = "waiting" /\ TurnOver
  /\ Stop(Verdict)
  /\ UNCHANGED <<asking, turn, protocolError, malformed, timedOut, process,
                 log, result>>

TransportSuccess == failure = "" /\ childExited /\ malformed = 0

\* The finally block ends stdin, kills the child and waits for its exit or for
\* five seconds; both logs are finished and the result is written in one go.
\* normalizeEffort of what the server reported is outside the try block.
ResultWritten ==
  /\ phase = "stopping" /\ oddEfforts = {}
  /\ phase' = "done"
  /\ result' = [success |-> TransportSuccess, failure |-> failure,
                response |-> finalResponse, timed_out |-> timedOut]
  /\ UNCHANGED <<asking, turn, protocolError, malformed, timedOut, failure,
                 process, log>>

EffortBreaks == phase = "stopping" /\ oddEfforts # {} /\ Crashes

-----------------------------------------------------------------------------
Next ==
  \/ SpawnFails \/ Spawned \/ NextRequest \/ TurnBound \/ RequestFailed
  \/ \E how \in {"good", "refused", "error"} : Answered(how)
  \/ RequestTimesOut \/ OverallTimeout
  \/ MalformedLine \/ UnexpectedLine \/ Notification
  \/ TurnJudged \/ ResultWritten
  \/ ChildDies \/ ExitNoticed \/ WriteBreaks \/ LineBreaks \/ EffortBreaks

Spec == Init /\ [][Next]_vars

\* Continuations run, the inspection of the spawn and every wait have a time
\* limit; the server owes nothing.
FairSpec ==
  /\ Spec
  /\ WF_vars(SpawnFails \/ Spawned)
  /\ WF_vars(NextRequest) /\ WF_vars(TurnBound) /\ WF_vars(RequestFailed)
  /\ WF_vars(RequestTimesOut) /\ WF_vars(OverallTimeout)
  /\ WF_vars(TurnJudged)
  /\ WF_vars(ResultWritten) /\ WF_vars(EffortBreaks)

-----------------------------------------------------------------------------
(* Properties *)

Promised ==
  /\ asked \in 0..Len(Methods) /\ pending \in BOOLEAN
  /\ settled \in {"none", "good", "refused", "error", "rejected"}
  /\ pending => phase = "asking" /\ settled = "none"
  /\ phase = "asking" => pending \/ settled # "none"

Counted ==
  /\ journal \in Seq(Lines) /\ malformed \in Nat /\ late \in Nat
  /\ boundAt \in 0..Len(journal)
  /\ Len(journal) + malformed + late <= MaxLines

Typed ==
  /\ phase \in {"spawning", "asking", "waiting", "stopping", "done",
                "crashed"}
  /\ threadId \in {None, Thread} /\ turnId \in {None, Turn}
  /\ turnId = None \/ threadId = Thread
  /\ turnStarted \in BOOLEAN /\ acknowledged \in BOOLEAN
  /\ oddEfforts \subseteq {"default", "effective"}
  /\ seen \subseteq {Key(l) : l \in Lines \ {Interactive, Stray}}
  /\ protocolError \in BOOLEAN /\ timedOut \in BOOLEAN
  /\ failure \in {"", "spawn", "protocol"}
  /\ child \in {"running", "dead", "never"} /\ childExited \in BOOLEAN
  /\ phase # "done" => result = None

\* The types, and that a promise is pending or settled, never both, and only
\* while the adapter awaits it: every rejection of a request also forgets it.
TypeOK == Promised /\ Counted /\ Typed

\* What a turn that ended well looks like in its journal, read from outside:
\* only notifications, none twice, item events after a start, nothing of another
\* thread or turn once the turn was bound, a last completion that says so and a
\* last message of the agent with a text, whatever items came after it.
Completions == {l \in Lines : l.kind = "event" /\ l.method = "turn/completed"}
Messages == {l \in Lines : l.kind = "event" /\ AgentMessage(l)}
LastSays(j, among, what) ==
  \E i \in DOMAIN j :
    /\ j[i] \in among /\ j[i].says = what
    /\ \A k \in i + 1 .. Len(j) : j[k] \notin among

Orderly(j, bound) ==
  /\ \A i \in DOMAIN j : j[i].kind = "event" /\ ~BadUsage(j[i])
  /\ \A i, k \in DOMAIN j :
       i < k /\ j[i].method \in Once => Key(j[i]) # Key(j[k])
  /\ \A i \in DOMAIN j :
       OfItem(j[i]) => \E k \in 1 .. i - 1 : j[k].method = "turn/started"
  /\ \A i \in bound + 1 .. Len(j) :
       j[i].thread \in {None, Thread} /\ j[i].turn \in {None, Turn}
  /\ LastSays(j, Completions, "completed")
  /\ ExactResponse \/ LastSays(j, Messages, "text")

\* A result that reports success is that of a turn that ended well.  Up to the
\* verdict its journal is orderly: whatever the adapter objected to at any
\* moment, during the handshake or between two looks of the wait loop, was not
\* forgotten (handleNotification, the line handler, 363-365).  The child is gone,
\* as no_orphan_process claims, no timer and no broken line came before, and
\* thread and turn were bound and acknowledged (427).
SuccessIsEarned ==
  result # None /\ result.success =>
    /\ Orderly(journal, boundAt)
    /\ child = "dead" /\ childExited
    /\ ~timedOut /\ malformed = 0
    /\ threadId = Thread /\ turnId = Turn /\ acknowledged

\* The adapter comes to its end whatever the server does or leaves undone, also
\* when it dies without a word after its turn was started: the timers of the
\* requests, of the turn and of the stop bound every wait (145, 310-315, 378).
AdapterEnds == <>Ended

=============================================================================
