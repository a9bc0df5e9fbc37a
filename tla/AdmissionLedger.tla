--------------------------- MODULE AdmissionLedger ---------------------------
(***************************************************************************)
(* What an admission promises to a reader of its receipt and of the queue: *)
(* the record may be tried at a destination and taken back while nothing   *)
(* is decided; a decision is recorded where the record is, once, and from  *)
(* then on neither the decision nor the record changes.                    *)
(***************************************************************************)
CONSTANTS Statuses,   \* what an admission may decide
          Target(_),  \* the queue state each decision sends the record to
          Source,     \* the queue state of an undecided record
          None

VARIABLES decision, place

Init == decision = None /\ place = Source

\* The record is moved ahead of its decision.
Advance(s) ==
    /\ decision = None
    /\ place = Source
    /\ place' = Target(s)
    /\ UNCHANGED decision

\* The move is taken back.
Retreat ==
    /\ decision = None
    /\ place' = Source
    /\ UNCHANGED decision

\* The receipt appears.
Decide(s) ==
    /\ decision = None
    /\ place = Target(s)
    /\ decision' = s
    /\ UNCHANGED place

Next == Retreat \/ \E s \in Statuses : Advance(s) \/ Decide(s)

Spec == Init /\ [][Next]_<<decision, place>>
=============================================================================
