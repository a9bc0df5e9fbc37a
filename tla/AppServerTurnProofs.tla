------------------------ MODULE AppServerTurnProofs ------------------------
(***************************************************************************)
(* Proofs about AppServerTurn, for any set of lines in any number and      *)
(* order.  While the adapter has no objection, its variables are what one  *)
(* finds by reading the whole journal; the verdict reads the variables, so *)
(* a success is one for the journal as well.  Conversely an objection is   *)
(* raised only for something a reader of the journal can name.             *)
(***************************************************************************)
EXTENDS AppServerTurn, TLAPS

LEMMA MethodFacts == Len(Methods) = 4 /\ Methods[3] = "thread/start"
BY DEF Methods

LEMMA AppendFacts ==
  ASSUME NEW S, NEW j \in Seq(S), NEW l \in S
  PROVE  /\ Append(j, l) \in Seq(S)
         /\ Len(Append(j, l)) = Len(j) + 1
         /\ \A i \in 1 .. Len(j) : Append(j, l)[i] = j[i]
         /\ Append(j, l)[Len(j) + 1] = l
OBVIOUS

-----------------------------------------------------------------------------
(* The inductive invariant *)

\* The journal seen through the variables of the adapter.
Plain(j) == \A i \in DOMAIN j : j[i].kind = "event" /\ ~BadUsage(j[i])
NoneTwice(j) ==
  \A i, k \in DOMAIN j :
    i < k /\ j[i].method \in Once => Key(j[i]) # Key(j[k])
Started(j) == \E k \in DOMAIN j : j[k].method = "turn/started"
ItemsAfterStart(j) ==
  \A i \in DOMAIN j :
    OfItem(j[i]) => \E k \in 1 .. i - 1 : j[k].method = "turn/started"
OwnSince(j, bound) ==
  \A i \in bound + 1 .. Len(j) :
    j[i].thread \in {None, Thread} /\ j[i].turn \in {None, Turn}

Read(j) ==
  /\ Plain(j) /\ NoneTwice(j) /\ ItemsAfterStart(j)
  /\ \A i \in DOMAIN j : Key(j[i]) \in seen
  /\ turnStarted => Started(j)
  /\ completedTurn # None => LastSays(j, Completions, completedTurn)
  /\ finalResponse # None => LastSays(j, Messages, finalResponse)
  /\ phase = "waiting" => OwnSince(j, boundAt)

Running == {"spawning", "asking", "waiting"}

Logged ==
  /\ journal \in Seq(Lines)
  /\ boundAt \in Nat
Heard == phase \in Running /\ ~protocolError => Read(journal)
Objected == phase \in Running /\ (timedOut \/ malformed # 0) => protocolError
Bound ==
  /\ asked \in Nat
  /\ phase = "spawning" => asked = 0
  /\ phase = "asking" /\ asked = 4 => threadId = Thread
  /\ phase = "asking" /\ asked = 4 /\ settled = "good" => acknowledged
  /\ phase = "waiting" => threadId = Thread /\ turnId = Turn /\ acknowledged
Gone == childExited => child = "dead"
Earned ==
  /\ Orderly(journal, boundAt)
  /\ ~timedOut
  /\ threadId = Thread /\ turnId = Turn /\ acknowledged
Judged == phase \in {"stopping", "done"} /\ failure = "" => Earned
Reported ==
  /\ phase # "done" => result = None
  /\ phase = "done" /\ result.success =>
       failure = "" /\ childExited /\ malformed = 0

Inv == Logged /\ Heard /\ Objected /\ Bound /\ Gone /\ Judged /\ Reported

-----------------------------------------------------------------------------
(* Reading one more line *)

LEMMA ReadMore ==
  ASSUME NEW j \in Seq(Lines), NEW e \in Lines, e.kind = "event",
         ~BadUsage(e), Plain(j), NoneTwice(j), ItemsAfterStart(j),
         \A i \in DOMAIN j : Key(j[i]) \in seen, ~Duplicate(e),
         OfItem(e) => Started(j)
  PROVE  LET k == Append(j, e)
         IN  Plain(k) /\ NoneTwice(k) /\ ItemsAfterStart(k)
<1> DEFINE k == Append(j, e)
<1>1. /\ Len(k) = Len(j) + 1 /\ k[Len(j) + 1] = e
      /\ \A i \in 1 .. Len(j) : k[i] = j[i]
      /\ DOMAIN k = 1 .. Len(j) + 1 /\ DOMAIN j = 1 .. Len(j)
      /\ Len(j) \in Nat
  BY AppendFacts
<1> HIDE DEF k
<1>2. Plain(k) BY <1>1 DEF Plain
<1>3. NoneTwice(k)
  <2> SUFFICES ASSUME NEW a \in DOMAIN k, NEW b \in DOMAIN k, a < b,
                      k[a].method \in Once, Key(k[a]) = Key(k[b])
               PROVE  FALSE
    BY DEF NoneTwice
  <2>1. a \in DOMAIN j /\ k[a] = j[a] BY <1>1
  <2>2. CASE b \in DOMAIN j BY <1>1, <2>1, <2>2 DEF NoneTwice
  <2>3. CASE b = Len(j) + 1
    <3>1. k[b] = e BY <1>1, <2>3
    <3>2. Key(e) \in seen BY <2>1, <3>1
    <3>3. e.method = k[a].method BY <3>1 DEF Key
    <3> QED BY <3>2, <3>3 DEF Duplicate
  <2> QED BY <1>1, <2>2, <2>3
<1>4. ItemsAfterStart(k)
  <2> SUFFICES ASSUME NEW a \in DOMAIN k, OfItem(k[a])
               PROVE  \E b \in 1 .. a - 1 : k[b].method = "turn/started"
    BY DEF ItemsAfterStart
  <2>1. CASE a \in DOMAIN j
    <3>1. PICK b \in 1 .. a - 1 : j[b].method = "turn/started"
      BY <1>1, <2>1 DEF ItemsAfterStart
    <3> QED BY <1>1, <2>1, <3>1
  <2>2. CASE a = Len(j) + 1
    <3>1. PICK b \in DOMAIN j : j[b].method = "turn/started"
      BY <1>1, <2>2 DEF Started
    <3> QED BY <1>1, <2>2, <3>1
  <2> QED BY <1>1, <2>1, <2>2
<1> QED BY <1>2, <1>3, <1>4 DEF k

\* What the sets of lines that judge a turn say of one notification.
LEMMA LastLines ==
  ASSUME NEW e \in Lines, e.kind = "event"
  PROVE  /\ e \in Completions <=> e.method = "turn/completed"
         /\ e \in Messages <=> AgentMessage(e)
BY DEF Completions, Messages

LEMMA LastKept ==
  ASSUME NEW j \in Seq(Lines), NEW e \in Lines, NEW among, NEW what,
         e \notin among, LastSays(j, among, what)
  PROVE  LastSays(Append(j, e), among, what)
<1> DEFINE k == Append(j, e)
<1>1. /\ Len(k) = Len(j) + 1 /\ k[Len(j) + 1] = e
      /\ \A i \in 1 .. Len(j) : k[i] = j[i]
      /\ DOMAIN k = 1 .. Len(j) + 1 /\ DOMAIN j = 1 .. Len(j)
      /\ Len(j) \in Nat
  BY AppendFacts
<1> HIDE DEF k
<1>2. PICK i \in DOMAIN j :
        /\ j[i] \in among /\ j[i].says = what
        /\ \A n \in i + 1 .. Len(j) : j[n] \notin among
  BY DEF LastSays
<1>3. \A n \in i + 1 .. Len(k) : k[n] \notin among BY <1>1, <1>2
<1>4. i \in DOMAIN k /\ k[i] = j[i] BY <1>1
<1>5. LastSays(k, among, what) BY <1>2, <1>3, <1>4 DEF LastSays
<1> QED BY <1>5 DEF k

LEMMA LastTaken ==
  ASSUME NEW j \in Seq(Lines), NEW e \in Lines, NEW among, e \in among
  PROVE  LastSays(Append(j, e), among, e.says)
<1> DEFINE k == Append(j, e)
<1>1. /\ Len(k) = Len(j) + 1 /\ k[Len(j) + 1] = e
      /\ DOMAIN k = 1 .. Len(j) + 1 /\ Len(j) \in Nat
  BY AppendFacts
<1> HIDE DEF k
<1>2. Len(j) + 1 \in DOMAIN k BY <1>1
<1>3. \A n \in (Len(j) + 1) + 1 .. Len(k) : FALSE BY <1>1
<1>4. LastSays(k, among, e.says) BY <1>1, <1>2, <1>3 DEF LastSays
<1> QED BY <1>4 DEF k

LEMMA TakenIsRead ==
  ASSUME Inv, NEW e \in Lines \ {Interactive, Stray}, EventTaken(e),
         phase \in Running, ~protocolError
  PROVE  Read(journal)'
<1>1. /\ journal \in Seq(Lines) /\ Read(journal)
  BY DEF Inv, Logged, Heard
<1>2. e \in Lines /\ e.kind = "event" BY LinesAssumption
<1>3. /\ phase \in {"asking", "waiting"} /\ phase' = phase
      /\ journal' = Append(journal, e) /\ boundAt' = boundAt
  BY DEF EventTaken, Journals, Reading, Running
<1>4. /\ seen' = seen \cup {Key(e)}
      /\ turnStarted' = (turnStarted \/ e.method = "turn/started")
      /\ finalResponse' = IF AgentMessage(e) THEN e.says ELSE finalResponse
      /\ completedTurn' = IF e.method = "turn/completed" THEN e.says
                                                         ELSE completedTurn
      /\ threadId' = threadId /\ turnId' = turnId
      /\ ~Spoofed(e) /\ ~Duplicate(e) /\ ~TooEarly(e) /\ ~BadUsage(e)
  BY DEF EventTaken
<1>5. /\ Len(journal') = Len(journal) + 1 /\ journal'[Len(journal) + 1] = e
      /\ \A i \in 1 .. Len(journal) : journal'[i] = journal[i]
      /\ DOMAIN journal' = 1 .. Len(journal) + 1
      /\ DOMAIN journal = 1 .. Len(journal) /\ Len(journal) \in Nat
  BY <1>1, <1>2, <1>3, AppendFacts
<1>6. Plain(journal') /\ NoneTwice(journal') /\ ItemsAfterStart(journal')
  BY <1>1, <1>2, <1>3, <1>4, ReadMore DEF Read, TooEarly
<1>7. \A i \in DOMAIN journal' : Key(journal'[i]) \in seen'
  BY <1>1, <1>4, <1>5 DEF Read
<1>8. turnStarted' => Started(journal')
  <2>1. CASE turnStarted
    <3>1. PICK i \in DOMAIN journal : journal[i].method = "turn/started"
      BY <1>1, <2>1 DEF Read, Started
    <3> QED BY <1>5, <3>1 DEF Started
  <2>2. CASE e.method = "turn/started"
    <3>1. Len(journal) + 1 \in DOMAIN journal' BY <1>5
    <3> QED BY <1>5, <2>2, <3>1 DEF Started
  <2> QED BY <1>4, <2>1, <2>2
<1>9. completedTurn' # None => LastSays(journal', Completions, completedTurn')
  BY <1>1, <1>2, <1>3, <1>4, LastLines, LastKept, LastTaken DEF Read
<1>10. finalResponse' # None => LastSays(journal', Messages, finalResponse')
  BY <1>1, <1>2, <1>3, <1>4, LastLines, LastKept, LastTaken DEF Read
<1>11. phase' = "waiting" => OwnSince(journal', boundAt')
  <2> SUFFICES ASSUME phase = "waiting" PROVE OwnSince(journal', boundAt')
    BY <1>3
  <2>1. e.thread \in {None, Thread} /\ e.turn \in {None, Turn}
    BY <1>4, IdsAssumption DEF Inv, Bound, Spoofed
  <2>2. OwnSince(journal, boundAt) /\ boundAt \in Nat
    BY <1>1 DEF Read, Inv, Logged
  <2> QED BY <1>3, <1>5, <2>1, <2>2 DEF OwnSince
<1> QED BY <1>6, <1>7, <1>8, <1>9, <1>10, <1>11 DEF Read

-----------------------------------------------------------------------------
(* Every step *)

\* A step that reads nothing leaves the reading as it was.
LEMMA NothingRead ==
  ASSUME Read(journal), phase' = "waiting" => phase = "waiting",
         UNCHANGED <<journal, boundAt, seen, turnStarted, completedTurn,
                     finalResponse>>
  PROVE  Read(journal)'
BY DEF Read, Plain, NoneTwice, ItemsAfterStart, Started, LastSays, OwnSince

LEMMA Initially == Init => Inv
<1> SUFFICES ASSUME Init PROVE Inv OBVIOUS
<1>0. journal = <<>> /\ boundAt = 0 /\ \A i \in DOMAIN journal : FALSE
  <2>1. journal = <<>> /\ boundAt = 0 BY DEF Init
  <2> QED BY <2>1
<1>1. Read(journal)
  <2>1. Plain(journal) /\ NoneTwice(journal) /\ ItemsAfterStart(journal)
    BY <1>0 DEF Plain, NoneTwice, ItemsAfterStart
  <2> QED BY <1>0, <2>1 DEF Init, Read
<1>2. Logged /\ Objected /\ Bound
  <2>1. Logged BY <1>0 DEF Logged
  <2>2. Objected BY DEF Init, Objected
  <2>3. Bound BY DEF Init, Bound
  <2> QED BY <2>1, <2>2, <2>3
<1>3. Gone /\ Judged /\ Reported BY DEF Init, Gone, Judged, Reported
<1> QED BY <1>1, <1>2, <1>3 DEF Inv, Heard

\* What was judged stays judged: only lines after the verdict come in.
Judging == <<journal, boundAt, timedOut, threadId, turnId, acknowledged,
             failure, phase>>
\* What counts as orderly reads the journal and nothing else.
LEMMA SameOrder ==
  ASSUME Orderly(journal, boundAt), UNCHANGED <<journal, boundAt>>
  PROVE  Orderly(journal, boundAt)'
BY BoundsAssumption DEF Orderly, LastSays

LEMMA StaysEarned ==
  ASSUME Earned, UNCHANGED <<journal, boundAt, timedOut, threadId, turnId,
                             acknowledged>>
  PROVE  Earned'
<1>1. Orderly(journal, boundAt)' BY SameOrder DEF Earned
<1> QED BY <1>1 DEF Earned

LEMMA StaysJudged == ASSUME Judged, UNCHANGED Judging PROVE Judged'
<1> SUFFICES ASSUME phase' \in {"stopping", "done"}, failure' = "" PROVE Earned'
  BY DEF Judged
<1>1. Earned BY DEF Judged, Judging
<1> QED BY <1>1, StaysEarned DEF Judging

LEMMA LineStep ==
  ASSUME Inv, MalformedLine \/ UnexpectedLine \/ Notification
  PROVE  Inv'
<1>1. CASE MalformedLine
  <2>1. Heard' BY <1>1 DEF MalformedLine, Heard
  <2>2. Judged'
    <3>1. CASE phase = "stopping"
      BY <1>1, <3>1, StaysJudged DEF MalformedLine, Inv, Judging, turn, log
    <3>2. CASE phase # "stopping"
      BY <1>1, <3>2 DEF MalformedLine, Reading, Judged
    <3> QED BY <3>1, <3>2
  <2>3. Logged' /\ Objected' /\ Bound' /\ Gone' /\ Reported'
    BY <1>1 DEF MalformedLine, Rejects, Reading, Inv, Logged, Objected, Bound,
                Gone, Reported, turn, log, process
  <2> QED BY <2>1, <2>2, <2>3 DEF Inv
<1>2. ASSUME NEW l \in Lines, Journals(l),
             UNCHANGED <<threadId, turnId, acknowledged>>,
             protocolError' = TRUE \/ protocolError' = protocolError,
             Heard'
      PROVE  Inv'
  <2>1. Logged'
    BY <1>2, AppendFacts DEF Journals, Inv, Logged
  <2>2. Judged'
    <3>1. CASE phase = "stopping"
      BY <1>2, <3>1, StaysJudged DEF Journals, Inv, Judging
    <3>2. CASE phase # "stopping"
      BY <1>2, <3>2 DEF Journals, Reading, Judged
    <3> QED BY <3>1, <3>2
  <2>3. /\ UNCHANGED <<phase, asking, malformed, timedOut, failure, process,
                       threadId, turnId, acknowledged, result>>
        /\ phase # "done"
    BY <1>2 DEF Journals, Reading
  <2>4. Objected' BY <1>2, <2>3 DEF Inv, Objected
  <2>5. Bound' BY <2>3 DEF Inv, Bound, asking
  <2>6. Gone' /\ Reported' BY <2>3 DEF Inv, Gone, Reported, process
  <2> QED BY <1>2, <2>1, <2>2, <2>4, <2>5, <2>6 DEF Inv
<1>3. CASE UnexpectedLine
  <2>1. Heard' BY <1>3 DEF UnexpectedLine, Heard
  <2> QED BY <1>2, <1>3, <2>1 DEF UnexpectedLine, turn
<1>4. ASSUME NEW e \in Lines \ {Interactive, Stray},
             EventRefused(e) \/ EventThrows(e)
      PROVE  Inv'
  <2>1. Heard' BY <1>4 DEF EventRefused, EventThrows, Heard
  <2> QED BY <1>2, <1>4, <2>1 DEF EventRefused, EventThrows, turn
<1>5. ASSUME NEW e \in Lines \ {Interactive, Stray}, EventTaken(e)
      PROVE  Inv'
  <2>1. phase' = phase /\ protocolError' = protocolError
    BY <1>5 DEF EventTaken, Journals
  <2>2. Heard' BY <1>5, <2>1, TakenIsRead DEF Heard
  <2> QED BY <1>2, <1>5, <2>2 DEF EventTaken
<1> QED BY <1>1, <1>3, <1>4, <1>5 DEF Notification

LEMMA AskingStep ==
  ASSUME Inv,
         \/ Spawned \/ NextRequest \/ TurnBound \/ RequestTimesOut
         \/ OverallTimeout
         \/ \E how \in {"good", "refused", "error"} : Answered(how)
  PROVE  Inv'
<1> USE DEF Inv, asking, turn, process, log
<1>1. CASE Spawned \/ NextRequest
  <2>1. /\ phase \in {"spawning", "asking"} /\ phase' = "asking"
        /\ settled' = "none" /\ asked' = asked + 1
        /\ phase = "spawning" => asked = 0
        /\ phase = "asking" /\ asked = 3 => threadId' = Thread
    BY <1>1, MethodFacts DEF Spawned, NextRequest, Ask, Bound
  <2>2. Bound' BY <2>1 DEF Bound
  <2>3. UNCHANGED <<journal, boundAt, seen, turnStarted, completedTurn,
                    finalResponse, protocolError, timedOut, malformed, result,
                    child, childExited>>
    BY <1>1 DEF Spawned, NextRequest
  <2>4. Heard' BY <2>1, <2>3, NothingRead DEF Heard, Running
  <2>5. Logged' /\ Objected' /\ Gone' /\ Judged' /\ Reported'
    BY <2>1, <2>3 DEF Logged, Objected, Gone, Judged, Reported, Running
  <2> QED BY <2>2, <2>4, <2>5
<1>2. CASE TurnBound
  <2>1. /\ phase = "asking" /\ phase' = "waiting" /\ boundAt' = Len(journal)
        /\ asked = 4 /\ settled = "good"
        /\ UNCHANGED <<journal, seen, turnStarted, completedTurn, result,
                       finalResponse, protocolError, timedOut, malformed,
                       child, childExited, threadId, acknowledged, asked>>
        /\ turnId' = Turn
    BY <1>2, MethodFacts DEF TurnBound
  <2>2. Logged' BY <2>1 DEF Logged
  <2>3. Heard'
    <3> SUFFICES ASSUME ~protocolError PROVE Read(journal)'
      BY <2>1 DEF Heard
    <3>1. Read(journal) BY <2>1 DEF Heard, Running
    <3>2. \A i \in boundAt' + 1 .. Len(journal') : FALSE
      BY <2>1 DEF Logged
    <3> QED BY <2>1, <3>1, <3>2
        DEF Read, Plain, NoneTwice, ItemsAfterStart, Started, LastSays, OwnSince
  <2>4. Objected' /\ Bound' /\ Gone' /\ Judged' /\ Reported'
    BY <2>1 DEF Objected, Bound, Gone, Judged, Reported, Running
  <2> QED BY <2>2, <2>3, <2>4
<1>3. CASE RequestTimesOut
  <2>1. /\ UNCHANGED <<phase, turn, protocolError, malformed, timedOut,
                       failure, process, log, result, asked>>
        /\ settled' = "good" => settled = "good"
    BY <1>3 DEF RequestTimesOut, Rejects
  <2>2. Heard' BY <2>1, NothingRead DEF Heard
  <2>3. Judged' BY <2>1, StaysJudged DEF Judging
  <2>4. Logged' /\ Objected' /\ Bound' /\ Gone' /\ Reported'
    BY <2>1 DEF Logged, Objected, Bound, Gone, Reported
  <2> QED BY <2>2, <2>3, <2>4
<1>4. CASE OverallTimeout
  <2>1. /\ UNCHANGED <<phase, turn, malformed, failure, process, log, result,
                       asked>>
        /\ settled' = "good" => settled = "good"
        /\ protocolError' = TRUE /\ phase \in {"asking", "waiting"}
    BY <1>4 DEF OverallTimeout, Rejects
  <2> QED BY <2>1
      DEF Logged, Heard, Objected, Bound, Gone, Judged, Reported
<1>5. ASSUME NEW how \in {"good", "refused", "error"}, Answered(how)
      PROVE  Inv'
  <2>1. /\ UNCHANGED <<phase, asked, threadId, turnId, turnStarted,
              completedTurn, finalResponse, seen, protocolError, malformed,
              timedOut, failure, process, log, result>>
        /\ phase = "asking" /\ settled' = how
        /\ acknowledged' = (acknowledged \/ (asked = 4 /\ how # "error"))
    BY <1>5, MethodFacts DEF Answered
  <2>2. Heard' BY <2>1, NothingRead DEF Heard
  <2>3. Logged' /\ Objected' /\ Bound' /\ Gone' /\ Judged' /\ Reported'
    BY <2>1 DEF Logged, Objected, Bound, Gone, Judged, Reported
  <2> QED BY <2>2, <2>3
<1> QED BY <1>1, <1>2, <1>3, <1>4, <1>5

LEMMA EndStep ==
  ASSUME Inv, SpawnFails \/ RequestFailed \/ TurnJudged \/ ResultWritten
  PROVE  Inv'
<1> USE DEF Inv, asking, turn, process, log
<1>1. CASE SpawnFails \/ RequestFailed
  <2>1. /\ phase' = "stopping" /\ failure' # "" /\ phase # "done"
        /\ child = "dead" => child' = child
        /\ UNCHANGED <<journal, boundAt, result, childExited, asked>>
    BY <1>1 DEF SpawnFails, RequestFailed, Stop
  <2>2. Gone' BY <2>1 DEF Gone
  <2> QED BY <2>1, <2>2
      DEF Logged, Heard, Objected, Bound, Judged, Reported, Running
<1>2. CASE TurnJudged
  <2>1. /\ phase = "waiting" /\ phase' = "stopping" /\ failure' = Verdict
        /\ UNCHANGED <<asking, turn, protocolError, malformed, timedOut,
                       process, log, result>>
    BY <1>2 DEF TurnJudged, Stop
  <2>2. ASSUME Verdict = "" PROVE Earned
    <3>1. /\ ~protocolError /\ completedTurn = "completed"
          /\ ExactResponse \/ finalResponse = "text"
      BY <2>2, BoundsAssumption DEF Verdict
    <3>2. Read(journal) /\ phase = "waiting"
      BY <2>1, <3>1 DEF Heard, Running
    <3>3. /\ LastSays(journal, Completions, "completed")
          /\ ExactResponse \/ LastSays(journal, Messages, "text")
      BY <3>1, <3>2, IdsAssumption DEF Read
    <3>4. Orderly(journal, boundAt)
      BY <3>2, <3>3
         DEF Read, Plain, NoneTwice, ItemsAfterStart, OwnSince, Orderly
    <3>5. /\ ~timedOut
          /\ threadId = Thread /\ turnId = Turn /\ acknowledged
      BY <2>1, <3>1 DEF Objected, Bound, Running
    <3> QED BY <3>4, <3>5 DEF Earned
  <2>3. Judged'
    BY <2>1, <2>2, StaysEarned DEF Judged
  <2>4. Logged' /\ Heard' /\ Objected' /\ Bound' /\ Gone' /\ Reported'
    BY <2>1 DEF Logged, Heard, Objected, Bound, Gone, Reported, Running
  <2> QED BY <2>3, <2>4
<1>3. CASE ResultWritten
  <2>1. /\ phase = "stopping" /\ phase' = "done"
        /\ result'.success = TransportSuccess
        /\ UNCHANGED <<asking, turn, protocolError, malformed, timedOut,
                       failure, process, log>>
    BY <1>3 DEF ResultWritten
  <2>2. Judged' BY <2>1, StaysEarned DEF Judged
  <2>3. Reported' BY <2>1 DEF Reported, TransportSuccess
  <2>4. Logged' /\ Heard' /\ Objected' /\ Bound' /\ Gone'
    BY <2>1 DEF Logged, Heard, Objected, Bound, Gone, Running
  <2> QED BY <2>2, <2>3, <2>4
<1> QED BY <1>1, <1>2, <1>3

LEMMA ProcessStep ==
  ASSUME Inv,
         ChildDies \/ ExitNoticed \/ WriteBreaks \/ LineBreaks \/ EffortBreaks
  PROVE  Inv'
<1> USE DEF Inv, asking, turn, process, log
<1>1. CASE ChildDies \/ ExitNoticed
  <2>1. /\ UNCHANGED <<phase, turn, protocolError, malformed, timedOut,
                       failure, log, result, asked>>
        /\ settled' = "good" => settled = "good"
        /\ child' = "dead" /\ phase # "done"
    BY <1>1 DEF ChildDies, ExitNoticed, Rejects, Idle, Ended
  <2>2. Heard' BY <2>1, NothingRead DEF Heard
  <2>3. Judged' BY <2>1, StaysJudged DEF Judging
  <2>4. Logged' /\ Objected' /\ Bound' /\ Gone' /\ Reported'
    BY <2>1 DEF Logged, Objected, Bound, Gone, Reported
  <2> QED BY <2>2, <2>3, <2>4
<1>2. CASE WriteBreaks \/ LineBreaks \/ EffortBreaks
  <2>1. Crashes /\ phase # "done"
    BY <1>2 DEF WriteBreaks, LineBreaks, EffortBreaks, Reading
  <2>2. /\ phase' = "crashed" /\ asked' = 0 /\ journal' = <<>> /\ boundAt' = 0
        /\ childExited' = FALSE /\ result' = result
    BY <2>1 DEF Crashes
  <2>3. Logged' BY <2>2 DEF Logged
  <2>4. Reported' /\ Gone' /\ Bound' BY <2>1, <2>2 DEF Reported, Gone, Bound
  <2>5. Heard' /\ Objected' /\ Judged'
    BY <2>2 DEF Heard, Objected, Judged, Running
  <2> QED BY <2>3, <2>4, <2>5
<1> QED BY <1>1, <1>2

LEMMA Invariance == Spec => []Inv
<1>1. Init => Inv BY Initially
<1>2. Inv /\ [Next]_vars => Inv'
  <2>1. CASE Next
    BY <2>1, LineStep, AskingStep, EndStep, ProcessStep DEF Next
  <2>2. ASSUME Inv, UNCHANGED vars PROVE Inv'
    <3>1. UNCHANGED <<phase, asking, turn, protocolError, malformed, timedOut,
                      failure, process, log, result>>
      BY <2>2 DEF vars
    <3> USE DEF asking, turn, process, log
    <3>2. Heard' BY <2>2, <3>1, NothingRead DEF Inv, Heard
    <3>3. Judged' BY <2>2, <3>1, StaysJudged DEF Inv, Judging
    <3>4. Logged' /\ Objected' BY <2>2, <3>1 DEF Inv, Logged, Objected
    <3>5. Bound' BY <2>2, <3>1 DEF Inv, Bound
    <3>6. Gone' /\ Reported' BY <2>2, <3>1 DEF Inv, Gone, Reported
    <3> QED BY <3>2, <3>3, <3>4, <3>5, <3>6 DEF Inv
  <2> QED BY <2>1, <2>2
<1> QED BY <1>1, <1>2, PTL DEF Spec

\* A result that reports success is that of an orderly turn, whatever lines the
\* server sends and however many: 363-365 read variables, which say what the
\* whole journal says as long as no objection was raised.
THEOREM SuccessCorrect == Spec => []SuccessIsEarned
<1>1. Inv => SuccessIsEarned
  BY DEF Inv, Gone, Judged, Reported, Earned, SuccessIsEarned
<1> QED BY <1>1, Invariance, PTL

-----------------------------------------------------------------------------
(* Types *)

\* With nothing asked there is no promise.
LEMMA Unasked ==
  ASSUME asked = 0, pending = FALSE, settled = "none", phase # "asking"
  PROVE  Promised
<1>1. asked \in 0..Len(Methods) BY MethodFacts
<1>2. pending \in BOOLEAN /\ ~pending OBVIOUS
<1> QED BY <1>1, <1>2 DEF Promised

LEMMA UnaskedNext ==
  ASSUME asked' = 0, pending' = FALSE, settled' = "none", phase' # "asking"
  PROVE  Promised'
<1>1. asked' \in 0..Len(Methods) BY MethodFacts
<1>2. pending' \in BOOLEAN /\ ~pending' OBVIOUS
<1> QED BY <1>1, <1>2 DEF Promised

LEMMA TypedInitially == Init => TypeOK
<1> SUFFICES ASSUME Init PROVE TypeOK OBVIOUS
<1>1. journal = <<>> /\ boundAt = 0 /\ late = 0 /\ malformed = 0
  BY DEF Init
<1>2. journal \in Seq(Lines) /\ Len(journal) = 0 BY <1>1
<1>3. Counted BY <1>1, <1>2, BoundsAssumption DEF Counted
<1>4. Promised
  <2>1. asked = 0 /\ pending = FALSE /\ settled = "none" /\ phase = "spawning"
    BY DEF Init
  <2> QED BY <2>1, Unasked
<1>5. Typed BY DEF Init, Typed
<1> QED BY <1>3, <1>4, <1>5 DEF TypeOK

LEMMA RoomLeft ==
  ASSUME TypeOK, Room
  PROVE  /\ Len(journal) \in Nat /\ malformed \in Nat /\ late \in Nat
         /\ Len(journal) + malformed + late < MaxLines /\ MaxLines \in Nat
<1>1. Len(journal) \in Nat /\ malformed \in Nat /\ late \in Nat
  BY DEF TypeOK, Counted
<1> DEFINE limit == IF asked < Len(Methods) THEN MaxEarly ELSE MaxLines
<1>2. limit \in Nat /\ limit <= MaxLines /\ MaxLines \in Nat
  BY BoundsAssumption
<1>3. Len(journal) + malformed + late < limit BY DEF Room
<1> HIDE DEF limit
<1> QED BY <1>1, <1>2, <1>3

\* What neither ends the adapter nor touches its child keeps the types.
LEMMA TypedGoesOn ==
  ASSUME Typed, UNCHANGED <<turnId, failure, child, childExited, result>>,
         phase' \in {phase, "asking"} /\ (phase' # phase => phase # "done"),
         threadId' \in {threadId, Thread},
         turnStarted' \in BOOLEAN, acknowledged' \in BOOLEAN,
         protocolError' \in BOOLEAN, timedOut' \in BOOLEAN,
         oddEfforts' \subseteq {"default", "effective"},
         seen' \subseteq {Key(l) : l \in Lines \ {Interactive, Stray}}
  PROVE  Typed'
<1>1. /\ phase' \in {"spawning", "asking", "waiting", "stopping", "done", "crashed"}
      /\ threadId' \in {None, Thread} /\ turnId' \in {None, Turn}
      /\ turnId' = None \/ threadId' = Thread
  BY DEF Typed
<1>2. failure' \in {"", "spawn", "protocol"} /\ child' \in {"running", "dead", "never"}
  BY DEF Typed
<1>3. childExited' \in BOOLEAN BY DEF Typed
<1>4. phase' # "done" => result' = None BY DEF Typed
<1> QED BY <1>1, <1>2, <1>3, <1>4 DEF Typed

LEMMA TypedLines ==
  ASSUME TypeOK, MalformedLine \/ UnexpectedLine \/ Notification
  PROVE  TypeOK'
<1>1. CASE MalformedLine
  <2>1. /\ malformed' = malformed + 1 /\ Room
        /\ UNCHANGED <<journal, boundAt, late>>
    BY <1>1 DEF MalformedLine, log
  <2>2. Counted' BY <2>1, RoomLeft DEF TypeOK, Counted
  <2>3. Promised' BY <1>1 DEF MalformedLine, Rejects, TypeOK, Promised
  <2>4. /\ UNCHANGED <<phase, turnId, threadId, turnStarted, acknowledged, seen,
                       oddEfforts, timedOut, failure, child, childExited, result>>
        /\ protocolError' \in {protocolError, TRUE}
    BY <1>1 DEF MalformedLine, turn, process
  <2>5. /\ turnStarted' \in BOOLEAN /\ acknowledged' \in BOOLEAN
        /\ protocolError' \in BOOLEAN /\ timedOut' \in BOOLEAN
        /\ oddEfforts' \subseteq {"default", "effective"}
        /\ seen' \subseteq {Key(l) : l \in Lines \ {Interactive, Stray}}
    BY <2>4 DEF TypeOK, Typed
  <2>6. Typed' BY <2>4, <2>5, TypedGoesOn DEF TypeOK
  <2> QED BY <2>2, <2>3, <2>6 DEF TypeOK
<1>2. ASSUME NEW l \in Lines, Journals(l),
             UNCHANGED <<threadId, turnId, acknowledged>>,
             turnStarted' \in BOOLEAN,
             oddEfforts' \subseteq oddEfforts \cup {"effective"},
             protocolError' \in BOOLEAN,
             seen' \subseteq {Key(m) : m \in Lines \ {Interactive, Stray}}
      PROVE  TypeOK'
  <2>1. Room /\ UNCHANGED <<boundAt, malformed>>
    BY <1>2 DEF Journals
  <2>2. journal \in Seq(Lines) /\ boundAt \in 0..Len(journal)
    BY DEF TypeOK, Counted
  <2>3. Counted'
    <3>1. CASE phase = "stopping"
      BY <1>2, <2>1, <2>2, <3>1, RoomLeft DEF Journals, Counted
    <3>2. CASE phase # "stopping"
      <4>1. journal' = Append(journal, l) /\ late' = late
        BY <1>2, <3>2 DEF Journals
      <4>2. journal' \in Seq(Lines) /\ Len(journal') = Len(journal) + 1
        BY <2>2, <4>1, AppendFacts
      <4> QED BY <2>1, <2>2, <4>1, <4>2, RoomLeft DEF Counted
    <3> QED BY <3>1, <3>2
  <2>4. Promised' BY <1>2 DEF Journals, asking, TypeOK, Promised
  <2>5. UNCHANGED <<phase, timedOut, failure, child, childExited, result>>
    BY <1>2 DEF Journals, process
  <2>6. /\ acknowledged' \in BOOLEAN /\ timedOut' \in BOOLEAN
        /\ oddEfforts' \subseteq {"default", "effective"}
    BY <1>2, <2>5 DEF TypeOK, Typed
  <2>7. Typed' BY <1>2, <2>5, <2>6, TypedGoesOn DEF TypeOK
  <2> QED BY <2>3, <2>4, <2>7 DEF TypeOK
<1>3. CASE UnexpectedLine
  <2>1. PICK l \in Lines : Journals(l) BY <1>3 DEF UnexpectedLine
  <2> QED BY <1>2, <1>3, <2>1 DEF UnexpectedLine, turn, TypeOK, Typed
<1>4. ASSUME NEW e \in Lines \ {Interactive, Stray},
             EventRefused(e) \/ EventThrows(e) \/ EventTaken(e)
      PROVE  TypeOK'
  <2>1. Journals(e) /\ UNCHANGED <<threadId, turnId, acknowledged>>
    BY <1>4 DEF EventRefused, EventThrows, EventTaken, turn
  <2>2. seen' = seen \/ seen' = seen \cup {Key(e)}
    BY <1>4 DEF EventRefused, EventThrows, EventTaken, turn
  <2>3. oddEfforts' \subseteq oddEfforts \cup {"effective"}
    BY <1>4 DEF EventRefused, EventThrows, EventTaken, turn
  <2>4. turnStarted' \in BOOLEAN /\ protocolError' \in BOOLEAN
    BY <1>4 DEF EventRefused, EventThrows, EventTaken, turn, TypeOK, Typed
  <2>5. seen' \subseteq {Key(m) : m \in Lines \ {Interactive, Stray}}
    BY <2>2 DEF TypeOK, Typed
  <2> QED BY <1>2, <2>1, <2>3, <2>4, <2>5
<1> QED BY <1>1, <1>3, <1>4 DEF Notification

LEMMA TypedAsking ==
  ASSUME TypeOK, Bound,
         \/ Spawned \/ NextRequest \/ TurnBound \/ RequestTimesOut
         \/ OverallTimeout
         \/ \E how \in {"good", "refused", "error"} : Answered(how)
  PROVE  TypeOK'
<1> USE DEF asking, turn, process, log
<1>1. Counted'
  <2>1. /\ UNCHANGED <<journal, malformed, late>>
        /\ boundAt' \in {boundAt, Len(journal)}
    BY DEF Spawned, NextRequest, TurnBound, RequestTimesOut, OverallTimeout,
           Answered
  <2> QED BY <2>1 DEF TypeOK, Counted
<1>2. CASE Spawned \/ NextRequest
  <2>1. /\ phase' = "asking" /\ asked' = asked + 1 /\ asked < 4
        /\ pending' = TRUE /\ settled' = "none"
    BY <1>2, MethodFacts DEF Spawned, NextRequest, Ask, Bound
  <2>2. Promised' BY <2>1, MethodFacts DEF TypeOK, Promised
  <2>3. /\ UNCHANGED <<turnId, turnStarted, acknowledged, oddEfforts, seen,
                       protocolError, timedOut, failure, child, childExited,
                       result>>
        /\ threadId' \in {threadId, Thread} /\ phase # "done"
    BY <1>2 DEF Spawned, NextRequest
  <2>4. /\ turnStarted' \in BOOLEAN /\ acknowledged' \in BOOLEAN
        /\ protocolError' \in BOOLEAN /\ timedOut' \in BOOLEAN
        /\ oddEfforts' \subseteq {"default", "effective"}
        /\ seen' \subseteq {Key(l) : l \in Lines \ {Interactive, Stray}}
    BY <2>3 DEF TypeOK, Typed
  <2>5. Typed' BY <2>1, <2>3, <2>4, TypedGoesOn DEF TypeOK
  <2> QED BY <1>1, <2>2, <2>5 DEF TypeOK
<1>3. CASE TurnBound
  <2>1. Promised' BY <1>3 DEF TurnBound, TypeOK, Promised
  <2>2. threadId = Thread BY <1>3, MethodFacts DEF TurnBound, Bound
  <2>3. /\ UNCHANGED <<threadId, turnStarted, acknowledged, oddEfforts, seen,
                       protocolError, timedOut, failure, child, childExited,
                       result>>
        /\ turnId' = Turn /\ phase' = "waiting" /\ phase # "done"
    BY <1>3 DEF TurnBound
  <2>4. Typed' BY <2>2, <2>3 DEF TypeOK, Typed
  <2> QED BY <1>1, <2>1, <2>4 DEF TypeOK
<1>4. CASE RequestTimesOut \/ OverallTimeout
  <2>1. Promised'
    BY <1>4 DEF RequestTimesOut, OverallTimeout, Rejects, TypeOK, Promised
  <2>2. /\ UNCHANGED <<phase, turnId, threadId, turnStarted, acknowledged, seen,
                       oddEfforts, failure, child, childExited, result>>
        /\ timedOut' \in {timedOut, TRUE}
        /\ protocolError' \in {protocolError, TRUE}
    BY <1>4 DEF RequestTimesOut, OverallTimeout
  <2>3. /\ turnStarted' \in BOOLEAN /\ acknowledged' \in BOOLEAN
        /\ protocolError' \in BOOLEAN /\ timedOut' \in BOOLEAN
        /\ oddEfforts' \subseteq {"default", "effective"}
        /\ seen' \subseteq {Key(l) : l \in Lines \ {Interactive, Stray}}
    BY <2>2 DEF TypeOK, Typed
  <2>4. Typed' BY <2>2, <2>3, TypedGoesOn DEF TypeOK
  <2> QED BY <1>1, <2>1, <2>4 DEF TypeOK
<1>5. ASSUME NEW how \in {"good", "refused", "error"}, Answered(how)
      PROVE  TypeOK'
  <2>1. Promised' BY <1>5 DEF Answered, TypeOK, Promised
  <2>2. oddEfforts' \subseteq {"default", "effective"}
    BY <1>5 DEF Answered, TypeOK, Typed
  <2>3. acknowledged' \in BOOLEAN BY <1>5 DEF Answered
  <2>4. /\ UNCHANGED <<phase, threadId, turnId, turnStarted, seen, failure,
                       protocolError, timedOut, child, childExited, result>>
        /\ phase = "asking"
    BY <1>5 DEF Answered
  <2>5. Typed' BY <2>2, <2>3, <2>4 DEF TypeOK, Typed
  <2> QED BY <1>1, <2>1, <2>5 DEF TypeOK
<1> QED BY <1>2, <1>3, <1>4, <1>5

LEMMA TypedEnd ==
  ASSUME TypeOK,
         \/ SpawnFails \/ RequestFailed \/ TurnJudged \/ ResultWritten
         \/ ChildDies \/ ExitNoticed
         \/ WriteBreaks \/ LineBreaks \/ EffortBreaks
  PROVE  TypeOK'
<1> USE DEF asking, turn, process, log
<1>1. CASE WriteBreaks \/ LineBreaks \/ EffortBreaks
  <2>1. Crashes /\ phase # "done"
    BY <1>1 DEF WriteBreaks, LineBreaks, EffortBreaks, Reading
  <2>2. journal' = <<>> /\ boundAt' = 0 /\ late' = 0 /\ malformed' = 0
    BY <2>1 DEF Crashes
  <2>3. journal' \in Seq(Lines) /\ Len(journal') = 0 BY <2>2
  <2>4. Counted' BY <2>2, <2>3, BoundsAssumption DEF Counted
  <2>5. Promised'
    <3>1. asked' = 0 /\ pending' = FALSE /\ settled' = "none"
          /\ phase' = "crashed"
      BY <2>1 DEF Crashes
    <3> QED BY <3>1, UnaskedNext
  <2>6. Typed' BY <2>1 DEF Crashes, TypeOK, Typed
  <2> QED BY <2>4, <2>5, <2>6 DEF TypeOK
<1>2. CASE \/ SpawnFails \/ RequestFailed \/ TurnJudged \/ ResultWritten
           \/ ChildDies \/ ExitNoticed
  <2>1. UNCHANGED <<journal, boundAt, late, malformed>>
    BY <1>2 DEF SpawnFails, RequestFailed, TurnJudged, ResultWritten, ChildDies,
                ExitNoticed
  <2>2. Counted' BY <2>1 DEF TypeOK, Counted
  <2>3. Promised'
    BY <1>2 DEF SpawnFails, RequestFailed, TurnJudged, ResultWritten, ChildDies,
                ExitNoticed, Stop, Rejects, TypeOK, Promised
  <2>4. /\ UNCHANGED <<turn, protocolError, timedOut>>
        /\ phase' \in {phase, "stopping", "done"} /\ phase # "done"
        /\ phase' # "done" => result' = result
        /\ failure' \in {failure, "", "spawn", "protocol"}
        /\ child' \in {child, "dead", "never"}
        /\ childExited' \in {childExited, TRUE}
    BY <1>2 DEF SpawnFails, RequestFailed, TurnJudged, ResultWritten, ChildDies,
                ExitNoticed, Stop, Verdict, Idle, Ended
  <2>5. /\ childExited' \in BOOLEAN /\ child' \in {"running", "dead", "never"}
        /\ failure' \in {"", "spawn", "protocol"}
        /\ phase' # "done" => result' = None
        /\ phase' \in {"spawning", "asking", "waiting", "stopping", "done",
                      "crashed"}
    BY <2>4 DEF TypeOK, Typed
  <2>6. Typed' BY <2>4, <2>5 DEF TypeOK, Typed
  <2> QED BY <2>2, <2>3, <2>6 DEF TypeOK
<1> QED BY <1>1, <1>2

\* Every variable keeps its type, and a request is never both settled and
\* pending: each of the four places that reject one also forgets it (146, 210,
\* 284, 313).
THEOREM TypeCorrect == Spec => []TypeOK
<1>1. Init => TypeOK BY TypedInitially
<1>2. TypeOK /\ Inv /\ [Next]_vars => TypeOK'
  <2>1. CASE TypeOK /\ Inv /\ Next
    BY <2>1, TypedLines, TypedAsking, TypedEnd DEF Next, Inv
  <2>2. ASSUME TypeOK, UNCHANGED vars PROVE TypeOK'
    <3>1. UNCHANGED <<phase, asked, pending, settled, journal, boundAt, late,
                      malformed>>
      BY <2>2 DEF vars, asking, log
    <3>2. UNCHANGED <<threadId, turnId, turnStarted, seen, oddEfforts,
                      acknowledged, protocolError, timedOut, failure, child,
                      childExited, result>>
      BY <2>2 DEF vars, turn, process
    <3>3. Counted' BY <2>2, <3>1 DEF TypeOK, Counted
    <3>4. Promised' BY <2>2, <3>1 DEF TypeOK, Promised
    <3>5. seen' \subseteq {Key(l) : l \in Lines \ {Interactive, Stray}}
      BY <2>2, <3>2 DEF TypeOK, Typed
    <3>6. /\ turnStarted' \in BOOLEAN /\ acknowledged' \in BOOLEAN
          /\ protocolError' \in BOOLEAN /\ timedOut' \in BOOLEAN
          /\ childExited' \in BOOLEAN
      BY <2>2, <3>2 DEF TypeOK, Typed
    <3>7. /\ phase' \in {"spawning", "asking", "waiting", "stopping", "done",
                         "crashed"}
          /\ threadId' \in {None, Thread} /\ turnId' \in {None, Turn}
          /\ turnId' = None \/ threadId' = Thread
          /\ oddEfforts' \subseteq {"default", "effective"}
          /\ failure' \in {"", "spawn", "protocol"}
          /\ child' \in {"running", "dead", "never"}
          /\ phase' # "done" => result' = None
      BY <2>2, <3>1, <3>2 DEF TypeOK, Typed
    <3>8. Typed' BY <3>5, <3>6, <3>7 DEF Typed
    <3> QED BY <3>3, <3>4, <3>8 DEF TypeOK
  <2> QED BY <2>1, <2>2
<1> QED BY <1>1, <1>2, Invariance, PTL DEF Spec

-----------------------------------------------------------------------------
(* The converse: nothing is refused in vain *)

Foreign(j) == \E i \in DOMAIN j : j[i].thread \notin {None, Thread}

\* A refusal has its cause: no turn was ever bound, a timer fired, a line was
\* broken, or the journal is not that of a turn that ended well, or names
\* another thread before the turn was bound, which Orderly does not look at.
RefusalsHaveCause ==
  result # None /\ result.failure # "" =>
    \/ turnId = None \/ timedOut \/ malformed # 0
    \/ ~Orderly(journal, boundAt)
    \/ Foreign(journal)

\* Nothing in what the server sent up to now is a cause.
Clean(j) == Plain(j) /\ NoneTwice(j) /\ ItemsAfterStart(j) /\ ~Foreign(j)
Blameless ==
  /\ phase \in Running
  /\ ~timedOut /\ malformed = 0
  /\ Clean(journal)
  /\ phase = "waiting" => OwnSince(journal, boundAt)

\* Then there was no objection either, and nothing of the journal was missed.
Followed ==
  /\ ~protocolError
  /\ \A k \in seen : \E i \in DOMAIN journal : Key(journal[i]) = k
  /\ Started(journal) => turnStarted
  /\ LastSays(journal, Completions, "completed") => completedTurn = "completed"
  /\ LastSays(journal, Messages, "text") => finalResponse = "text"

Caused ==
  \/ turnId = None \/ timedOut \/ malformed # 0
  \/ ~Orderly(journal, boundAt)
  \/ Foreign(journal)

Fair ==
  /\ Blameless => Followed
  /\ phase \in {"spawning", "asking"} => turnId = None
  /\ phase \in {"stopping", "done"} /\ failure # "" => Caused
  /\ phase = "done" => result.failure = failure

\* What a clean journal says of its last line and of the lines before it.
LEMMA CleanMeans ==
  ASSUME NEW j \in Seq(Lines), NEW e \in Lines, Clean(Append(j, e))
  PROVE  /\ Clean(j)
         /\ e.kind = "event" /\ ~BadUsage(e) /\ e.thread \in {None, Thread}
         /\ OfItem(e) => Started(j)
         /\ e.method \in Once => \A i \in DOMAIN j : Key(j[i]) # Key(e)
<1> DEFINE k == Append(j, e)
<1>1. /\ Len(k) = Len(j) + 1 /\ k[Len(j) + 1] = e
      /\ \A i \in 1 .. Len(j) : k[i] = j[i]
      /\ DOMAIN k = 1 .. Len(j) + 1 /\ DOMAIN j = 1 .. Len(j)
      /\ Len(j) \in Nat
  BY AppendFacts
<1>2. Clean(k) OBVIOUS
<1> HIDE DEF k
<1>3. DOMAIN j \subseteq DOMAIN k /\ Len(j) + 1 \in DOMAIN k BY <1>1
<1>4. Plain(j) /\ e.kind = "event" /\ ~BadUsage(e)
  BY <1>1, <1>2, <1>3 DEF Clean, Plain
<1>5. NoneTwice(j)
  <2> SUFFICES ASSUME NEW a \in DOMAIN j, NEW b \in DOMAIN j, a < b,
                      j[a].method \in Once, Key(j[a]) = Key(j[b])
               PROVE  FALSE
    BY DEF NoneTwice
  <2>1. k[a] = j[a] /\ k[b] = j[b] /\ a \in DOMAIN k /\ b \in DOMAIN k
    BY <1>1
  <2> QED BY <1>2, <2>1 DEF Clean, NoneTwice
<1>6. e.method \in Once => \A i \in DOMAIN j : Key(j[i]) # Key(e)
  <2> SUFFICES ASSUME e.method \in Once, NEW i \in DOMAIN j, Key(j[i]) = Key(e)
               PROVE  FALSE
    OBVIOUS
  <2>1. k[i] = j[i] /\ i \in DOMAIN k /\ i < Len(j) + 1 BY <1>1
  <2>2. k[i].method = e.method BY <2>1 DEF Key
  <2> QED BY <1>1, <1>2, <1>3, <2>1, <2>2 DEF Clean, NoneTwice
<1>7. ItemsAfterStart(j)
  <2> SUFFICES ASSUME NEW a \in DOMAIN j, OfItem(j[a])
               PROVE  \E b \in 1 .. a - 1 : j[b].method = "turn/started"
    BY DEF ItemsAfterStart
  <2>1. a \in DOMAIN k /\ OfItem(k[a]) BY <1>1
  <2>2. PICK b \in 1 .. a - 1 : k[b].method = "turn/started"
    BY <1>2, <2>1 DEF Clean, ItemsAfterStart
  <2> QED BY <1>1, <2>2
<1>8. OfItem(e) => Started(j)
  <2> SUFFICES ASSUME OfItem(e) PROVE Started(j) OBVIOUS
  <2>1. OfItem(k[Len(j) + 1]) BY <1>1
  <2>2. PICK b \in 1 .. (Len(j) + 1) - 1 : k[b].method = "turn/started"
    BY <1>2, <1>3, <2>1 DEF Clean, ItemsAfterStart
  <2>3. b \in DOMAIN j /\ k[b] = j[b] BY <1>1
  <2> QED BY <2>2, <2>3 DEF Started
<1>9. ~Foreign(j) /\ e.thread \in {None, Thread}
  BY <1>1, <1>2, <1>3 DEF Clean, Foreign
<1> QED BY <1>4, <1>5, <1>6, <1>7, <1>8, <1>9 DEF Clean

\* The last line of a set is the new one or the one before.
LEMMA LastOf ==
  ASSUME NEW j \in Seq(Lines), NEW e \in Lines, NEW among, NEW what,
         LastSays(Append(j, e), among, what)
  PROVE  IF e \in among THEN what = e.says ELSE LastSays(j, among, what)
<1> DEFINE k == Append(j, e)
<1>1. /\ Len(k) = Len(j) + 1 /\ k[Len(j) + 1] = e
      /\ \A i \in 1 .. Len(j) : k[i] = j[i]
      /\ DOMAIN k = 1 .. Len(j) + 1 /\ DOMAIN j = 1 .. Len(j)
      /\ Len(j) \in Nat
  BY AppendFacts
<1>2. PICK i \in DOMAIN k :
        /\ k[i] \in among /\ k[i].says = what
        /\ \A n \in i + 1 .. Len(k) : k[n] \notin among
  BY DEF LastSays
<1> HIDE DEF k
<1>3. CASE i = Len(j) + 1 BY <1>1, <1>2, <1>3
<1>4. CASE i \in DOMAIN j
  <2>1. e \notin among BY <1>1, <1>2, <1>4
  <2>2. /\ j[i] \in among /\ j[i].says = what
        /\ \A n \in i + 1 .. Len(j) : j[n] \notin among
    BY <1>1, <1>2, <1>4
  <2> QED BY <1>4, <2>1, <2>2 DEF LastSays
<1> QED BY <1>1, <1>2, <1>3, <1>4

\* While there is no cause, the next line is taken as it is.
LEMMA TakenIsFollowed ==
  ASSUME TypeOK, Inv, Fair, NEW l \in Lines, Journals(l), phase \in Running,
         \/ UnexpectedLine /\ l \in {Interactive, Stray}
         \/ /\ l \in Lines \ {Interactive, Stray}
            /\ EventRefused(l) \/ EventThrows(l) \/ EventTaken(l),
         Blameless'
  PROVE  Followed'
<1>1. /\ journal' = Append(journal, l) /\ journal \in Seq(Lines)
      /\ phase \in {"asking", "waiting"}
      /\ UNCHANGED <<phase, malformed, timedOut, boundAt>>
  BY DEF Journals, Reading, Running, Inv, Logged
<1>2. Clean(Append(journal, l)) BY <1>1 DEF Blameless
<1>3. /\ Clean(journal)
      /\ l.kind = "event" /\ ~BadUsage(l) /\ l.thread \in {None, Thread}
      /\ OfItem(l) => Started(journal)
      /\ l.method \in Once => \A i \in DOMAIN journal : Key(journal[i]) # Key(l)
  BY <1>1, <1>2, CleanMeans
<1>4. /\ Len(journal') = Len(journal) + 1 /\ journal'[Len(journal) + 1] = l
      /\ \A i \in 1 .. Len(journal) : journal'[i] = journal[i]
      /\ DOMAIN journal' = 1 .. Len(journal) + 1
      /\ DOMAIN journal = 1 .. Len(journal) /\ Len(journal) \in Nat
  BY <1>1, AppendFacts
<1>5. phase = "waiting" =>
        OwnSince(journal, boundAt) /\ l.turn \in {None, Turn}
  <2> SUFFICES ASSUME phase = "waiting"
               PROVE  OwnSince(journal, boundAt) /\ l.turn \in {None, Turn}
    OBVIOUS
  <2>1. OwnSince(journal', boundAt) BY <1>1 DEF Blameless
  <2>2. boundAt \in 0 .. Len(journal) BY DEF TypeOK, Counted
  <2> QED BY <1>4, <2>1, <2>2 DEF OwnSince
<1>6. Followed
  <2>1. Blameless BY <1>1, <1>3, <1>5 DEF Blameless
  <2> QED BY <2>1 DEF Fair
<1>7. ~Spoofed(l)
  <2>1. threadId \in {None, Thread} /\ turnId \in {None, Turn}
    BY DEF TypeOK, Typed
  <2>2. turnId # None => phase = "waiting" BY <1>1 DEF Fair
  <2> QED BY <1>3, <1>5, <2>1, <2>2 DEF Spoofed
<1>8. ~Duplicate(l)
  BY <1>3, <1>6 DEF Duplicate, Followed
<1>9. ~TooEarly(l)
  BY <1>3, <1>6 DEF TooEarly, Followed
<1>10. l \notin {Interactive, Stray}
  BY <1>3 DEF Interactive, Stray
<1>11. EventTaken(l)
  BY <1>3, <1>7, <1>8, <1>9, <1>10 DEF EventRefused, EventThrows
<1>12. /\ seen' = seen \cup {Key(l)} /\ UNCHANGED protocolError
       /\ turnStarted' = (turnStarted \/ l.method = "turn/started")
       /\ finalResponse' = IF AgentMessage(l) THEN l.says ELSE finalResponse
       /\ completedTurn' = IF l.method = "turn/completed" THEN l.says
                                                          ELSE completedTurn
  BY <1>11 DEF EventTaken
<1>13. ~protocolError' BY <1>6, <1>12 DEF Followed
<1>14. \A k \in seen' : \E i \in DOMAIN journal' : Key(journal'[i]) = k
  <2> SUFFICES ASSUME NEW k \in seen'
               PROVE  \E i \in DOMAIN journal' : Key(journal'[i]) = k
    OBVIOUS
  <2>1. CASE k \in seen
    <3>1. PICK i \in DOMAIN journal : Key(journal[i]) = k
      BY <1>6, <2>1 DEF Followed
    <3>2. i \in DOMAIN journal' /\ journal'[i] = journal[i] BY <1>4
    <3> QED BY <3>1, <3>2
  <2>2. CASE k = Key(l)
    <3>1. Len(journal) + 1 \in DOMAIN journal' BY <1>4
    <3> QED BY <1>4, <2>2, <3>1
  <2> QED BY <1>12, <2>1, <2>2
<1>15. Started(journal') => turnStarted'
  <2> SUFFICES ASSUME NEW i \in DOMAIN journal',
                      journal'[i].method = "turn/started"
               PROVE  turnStarted \/ l.method = "turn/started"
    BY <1>12 DEF Started
  <2>1. CASE i \in DOMAIN journal
    BY <1>4, <1>6, <2>1 DEF Followed, Started
  <2>2. CASE i = Len(journal) + 1 BY <1>4, <2>2
  <2> QED BY <1>4, <2>1, <2>2
<1>16. LastSays(journal', Completions, "completed")
         => completedTurn' = "completed"
  BY <1>1, <1>3, <1>6, <1>12, LastLines, LastOf DEF Followed
<1>17. LastSays(journal', Messages, "text") => finalResponse' = "text"
  BY <1>1, <1>3, <1>6, <1>12, LastLines, LastOf DEF Followed
<1> QED BY <1>13, <1>14, <1>15, <1>16, <1>17 DEF Followed

\* A step that reads nothing loses nothing.
LEMMA FollowedStays ==
  ASSUME Fair, phase \in Running,
         phase = "waiting" => phase' = "waiting" /\ boundAt' = boundAt,
         UNCHANGED <<journal, timedOut, malformed, seen, turnStarted,
                     completedTurn, finalResponse, protocolError>>,
         Blameless'
  PROVE  Followed'
<1>1. Blameless
  BY DEF Blameless, Clean, Plain, NoneTwice, ItemsAfterStart, Foreign, OwnSince
<1>2. Followed BY <1>1 DEF Fair
<1> QED BY <1>2 DEF Followed, Started, LastSays

\* A cause stays one.
LEMMA CausedStays ==
  ASSUME TypeOK, Caused, UNCHANGED <<turnId, timedOut, journal, boundAt>>,
         malformed' \in {malformed, malformed + 1}
  PROVE  Caused'
<1>1. malformed # 0 => malformed' # 0 BY DEF TypeOK, Counted
<1>2. Orderly(journal, boundAt)' => Orderly(journal, boundAt)
  BY DEF Orderly, LastSays
<1> QED BY <1>1, <1>2 DEF Caused, Foreign

LEMMA FairLines ==
  ASSUME TypeOK, Inv, Fair, MalformedLine \/ UnexpectedLine \/ Notification
  PROVE  Fair'
<1>1. CASE MalformedLine
  <2>1. /\ malformed' = malformed + 1 /\ malformed \in Nat
        /\ UNCHANGED <<phase, turnId, timedOut, failure, journal, boundAt, result>>
    BY <1>1 DEF MalformedLine, turn, log, TypeOK, Counted
  <2>2. ~Blameless' BY <2>1 DEF Blameless
  <2>3. phase' \in {"stopping", "done"} /\ failure' # "" => Caused'
    BY <2>1, CausedStays DEF Fair
  <2> QED BY <2>1, <2>2, <2>3 DEF Fair
<1>2. ASSUME NEW l \in Lines, Journals(l), turnId' = turnId,
             \/ UnexpectedLine /\ l \in {Interactive, Stray}
             \/ /\ l \in Lines \ {Interactive, Stray}
                /\ EventRefused(l) \/ EventThrows(l) \/ EventTaken(l)
      PROVE  Fair'
  <2>1. /\ UNCHANGED <<phase, malformed, timedOut, failure, boundAt, result>>
        /\ phase \in {"asking", "waiting", "stopping"}
    BY <1>2 DEF Journals, Reading
  <2>2. Blameless' => Followed'
    <3>1. CASE phase \in Running BY <1>2, <3>1, TakenIsFollowed
    <3>2. CASE phase \notin Running BY <2>1, <3>2 DEF Blameless
    <3> QED BY <3>1, <3>2
  <2>3. phase' \in {"stopping", "done"} /\ failure' # "" => Caused'
    <3> SUFFICES ASSUME phase = "stopping", failure # "" PROVE Caused'
      BY <2>1
    <3>1. UNCHANGED journal BY <1>2 DEF Journals
    <3> QED BY <1>2, <2>1, <3>1, CausedStays DEF Fair
  <2> QED BY <1>2, <2>1, <2>2, <2>3 DEF Fair
<1>3. CASE UnexpectedLine
  <2>1. PICK l \in Lines \cap {Interactive, Stray} : Journals(l)
    BY <1>3 DEF UnexpectedLine
  <2> QED BY <1>2, <1>3, <2>1 DEF UnexpectedLine, turn
<1>4. ASSUME NEW e \in Lines \ {Interactive, Stray},
             EventRefused(e) \/ EventThrows(e) \/ EventTaken(e)
      PROVE  Fair'
  <2>1. Journals(e) /\ turnId' = turnId
    BY <1>4 DEF EventRefused, EventThrows, EventTaken, turn
  <2> QED BY <1>2, <1>4, <2>1
<1> QED BY <1>1, <1>3, <1>4 DEF Notification

LEMMA FairQuiet ==
  ASSUME TypeOK, Inv, Fair,
         \/ Spawned \/ NextRequest \/ TurnBound \/ RequestTimesOut
         \/ OverallTimeout \/ ChildDies \/ ExitNoticed
         \/ \E how \in {"good", "refused", "error"} : Answered(how)
  PROVE  Fair'
<1> USE DEF turn, log
<1>1. CASE OverallTimeout
  <2>1. timedOut' /\ phase \in {"asking", "waiting"}
        /\ UNCHANGED <<phase, turnId>>
    BY <1>1 DEF OverallTimeout
  <2> QED BY <2>1 DEF Fair, Blameless
<1>2. CASE TurnBound
  <2>1. /\ phase = "asking" /\ phase' = "waiting"
        /\ UNCHANGED <<journal, timedOut, malformed, seen, turnStarted,
                       completedTurn, finalResponse, protocolError>>
    BY <1>2 DEF TurnBound
  <2>2. Blameless' => Followed'
    BY <2>1, FollowedStays DEF Running
  <2> QED BY <2>1, <2>2 DEF Fair
<1>3. CASE Spawned \/ NextRequest
  <2>1. /\ phase \in {"spawning", "asking"} /\ phase' = "asking"
        /\ UNCHANGED <<journal, timedOut, malformed, seen, turnStarted, turnId,
                       completedTurn, finalResponse, protocolError>>
    BY <1>3 DEF Spawned, NextRequest
  <2>2. Blameless' => Followed'
    BY <2>1, FollowedStays DEF Running
  <2> QED BY <2>1, <2>2 DEF Fair
<1>4. CASE \/ RequestTimesOut \/ ChildDies \/ ExitNoticed
           \/ \E how \in {"good", "refused", "error"} : Answered(how)
  <2>1. UNCHANGED <<phase, journal, boundAt, timedOut, malformed, seen,
                    turnStarted, turnId, completedTurn, finalResponse,
                    protocolError, failure, result>>
    BY <1>4 DEF RequestTimesOut, ChildDies, ExitNoticed, Answered
  <2>2. Blameless' => Followed'
    <3>1. CASE phase \in Running
      BY <2>1, <3>1, FollowedStays DEF Running
    <3>2. CASE phase \notin Running BY <2>1, <3>2 DEF Blameless
    <3> QED BY <3>1, <3>2
  <2>3. phase' \in {"stopping", "done"} /\ failure' # "" => Caused'
    BY <2>1, CausedStays DEF Fair
  <2> QED BY <2>1, <2>2, <2>3 DEF Fair
<1> QED BY <1>1, <1>2, <1>3, <1>4

LEMMA FairEnd ==
  ASSUME TypeOK, Inv, Fair,
         \/ SpawnFails \/ RequestFailed \/ TurnJudged \/ ResultWritten
         \/ WriteBreaks \/ LineBreaks \/ EffortBreaks
  PROVE  Fair'
<1> USE DEF turn, log
<1>1. CASE SpawnFails \/ RequestFailed
  <2>1. /\ phase \in {"spawning", "asking"} /\ phase' = "stopping"
        /\ turnId' = turnId
    BY <1>1 DEF SpawnFails, RequestFailed, Stop
  <2>2. turnId' = None BY <2>1 DEF Fair
  <2> QED BY <2>1, <2>2 DEF Fair, Blameless, Running, Caused
<1>2. CASE TurnJudged
  <2>1. /\ phase = "waiting" /\ phase' = "stopping" /\ failure' = Verdict
        /\ UNCHANGED <<turnId, timedOut, malformed, journal, boundAt>>
    BY <1>2 DEF TurnJudged, Stop
  <2>2. Verdict # "" => Caused
    <3> SUFFICES ASSUME ~Caused PROVE Verdict = ""
      OBVIOUS
    <3>1. Clean(journal) /\ OwnSince(journal, boundAt)
      BY DEF Caused, Orderly, Clean, Plain, NoneTwice, ItemsAfterStart, OwnSince
    <3>2. Followed
      <4>1. Blameless BY <2>1, <3>1 DEF Blameless, Running, Caused
      <4> QED BY <4>1 DEF Fair
    <3>3. /\ LastSays(journal, Completions, "completed")
          /\ ExactResponse \/ LastSays(journal, Messages, "text")
      BY BoundsAssumption DEF Caused, Orderly
    <3> QED BY <3>2, <3>3, BoundsAssumption DEF Followed, Verdict
  <2>3. failure' # "" => Caused' BY <2>1, <2>2, CausedStays
  <2> QED BY <2>1, <2>3 DEF Fair, Blameless, Running
<1>3. CASE ResultWritten
  <2>1. /\ phase = "stopping" /\ phase' = "done" /\ result'.failure = failure
        /\ UNCHANGED <<turnId, timedOut, malformed, journal, boundAt, failure>>
    BY <1>3 DEF ResultWritten
  <2>2. failure' # "" => Caused' BY <2>1, CausedStays DEF Fair
  <2> QED BY <2>1, <2>2 DEF Fair, Blameless, Running
<1>4. CASE WriteBreaks \/ LineBreaks \/ EffortBreaks
  <2>1. phase' = "crashed"
    BY <1>4 DEF WriteBreaks, LineBreaks, EffortBreaks, Crashes
  <2> QED BY <2>1 DEF Fair, Blameless, Running
<1> QED BY <1>1, <1>2, <1>3, <1>4

\* A result that reports a failure has its cause in what the server sent or left
\* out, for any lines in any number and order: the adapter never ends an orderly
\* turn with a protocol failure (handleNotification, 363-365).
THEOREM RefusalsCorrect == Spec => []RefusalsHaveCause
<1>1. Init => Fair
  <2> SUFFICES ASSUME Init PROVE Fair OBVIOUS
  <2>1. journal = <<>> /\ \A i \in DOMAIN journal : FALSE
    <3>1. journal = <<>> BY DEF Init
    <3> QED BY <3>1
  <2>2. Followed BY <2>1 DEF Init, Followed, Started, LastSays
  <2> QED BY <2>2 DEF Init, Fair
<1>2. TypeOK /\ Inv /\ Fair /\ [Next]_vars => Fair'
  <2>1. CASE TypeOK /\ Inv /\ Fair /\ Next
    BY <2>1, FairLines, FairQuiet, FairEnd DEF Next
  <2>2. ASSUME TypeOK, Inv, Fair, UNCHANGED vars PROVE Fair'
    <3>1. UNCHANGED <<phase, journal, boundAt, timedOut, malformed, seen,
                      turnStarted, turnId, completedTurn, finalResponse,
                      protocolError, failure, result>>
      BY <2>2 DEF vars, turn, log
    <3>2. Blameless' => Followed'
      <4>1. CASE phase \in Running
        BY <2>2, <3>1, <4>1, FollowedStays DEF Running
      <4>2. CASE phase \notin Running BY <3>1, <4>2 DEF Blameless
      <4> QED BY <4>1, <4>2
    <3>3. phase' \in {"stopping", "done"} /\ failure' # "" => Caused'
      BY <2>2, <3>1, CausedStays DEF Fair
    <3> QED BY <2>2, <3>1, <3>2, <3>3 DEF Fair
  <2> QED BY <2>1, <2>2
<1>3. TypeOK /\ Inv /\ Fair => RefusalsHaveCause
  BY DEF Inv, Reported, Fair, Caused, RefusalsHaveCause
<1> QED BY <1>1, <1>2, <1>3, Invariance, TypeCorrect, PTL DEF Spec
=============================================================================
