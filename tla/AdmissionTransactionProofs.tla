--------------------- MODULE AdmissionTransactionProofs ---------------------
(***************************************************************************)
(* Proofs about AdmissionTransaction.  With one call at a time, IInv says  *)
(* what the call in progress finds in the files at each of its steps, and  *)
(* what any state leaves for the next call.  Whatever overlaps, OverlapInv *)
(* says that the one call that moved the record holds record and receipt   *)
(* until the receipt is preserved.                                         *)
(***************************************************************************)
EXTENDS AdmissionTransaction, TLAPS

OneAtATime == \A c, d \in Calls : Active(c) /\ Active(d) => c = d

\* A call that has not begun has decided nothing; files name calls that have.
Fresh == \A c \in Calls : pc[c] = "idle" => status[c] = None
Named(c) == c # None => status[c] \in Statuses
FilesNamed == Named(receipt) /\ Named(transaction.by)

\* The part of the type invariant about the files.
FilesTyped ==
    /\ record \in Places
    /\ staged \in Calls \cup {None}
    /\ receipt \in Calls \cup {None}
    /\ transaction \in [state : TransactionStates, by : Calls \cup {None},
                        hash : Calls \cup {None}]
    /\ envelope \in Calls \cup {None}
    /\ conflicts \subseteq Results

FilesAgree == CommittedIsComplete /\ AdvanceIsAccountedFor /\ ReceiptReplays

\* What call c finds in the files when it is at step p.
Undecided == receipt = None /\ record = Source
Prep(c) ==
    /\ transaction.state = "PREPARED"
    /\ transaction.by = c
    /\ transaction.hash = c
Moved(c) ==
    /\ receipt = None
    /\ record = Target(status[c])
    /\ staged = c
    /\ Prep(c)
Finalized(c) ==
    /\ receipt = c
    /\ record = Target(status[c])
    /\ transaction.by = c
    /\ transaction.hash = c

At(c, p) ==
    /\ p \notin {"idle", "ended"} => status[c] \in Statuses
    /\ p \in {"decided", "staged", "prepared", "unmoved", "movedBack"} =>
           Undecided
    /\ p \in {"staged", "prepared"} => staged = c
    /\ p = "prepared" => Prep(c)
    /\ p \in {"moved", "rollback", "enveloped"} => Moved(c)
    /\ p \in {"finalized", "committed", "advanced"} => Finalized(c)
    /\ p = "finalized" => transaction.state = "PREPARED"
    /\ p = "committed" => transaction.state = "COMMITTED"
    /\ p = "advanced" => transaction.state \in {"PREPARED", "COMMITTED"}
    /\ p = "unrecovered" => Undecided \/ Moved(c)

IInv ==
    /\ TypeOK
    /\ OneAtATime
    /\ Fresh
    /\ FilesNamed
    /\ \A c \in Calls : At(c, pc[c])
    /\ FilesAgree

USE AdmissionAssumption

\* A queue state an admission leads to is never the one it starts from.
LEMMA TargetIsElsewhere ==
    \A s \in Statuses : Target(s) \in Places /\ Target(s) # Source
BY DEF Statuses, Target, Places, Source

\* What a transaction receipt is made of.
LEMMA TransactionFields ==
    \A st \in TransactionStates, x, y \in Calls \cup {None} :
        /\ Transaction(st, x, y) \in
               [state : TransactionStates, by : Calls \cup {None},
                hash : Calls \cup {None}]
        /\ Transaction(st, x, y).state = st
        /\ Transaction(st, x, y).by = x
        /\ Transaction(st, x, y).hash = y
BY DEF Transaction

LEMMA InitInvariant == Init => IInv
<1> SUFFICES ASSUME Init PROVE IInv
  OBVIOUS
<1>1. TypeOK
  BY TransactionFields
     DEF Init, TypeOK, Steps, Places, NoTransaction, TransactionStates
<1>2. transaction.state = "NONE" /\ transaction.by = None
  BY TransactionFields DEF Init, NoTransaction, TransactionStates
<1> QED
  BY <1>1, <1>2
     DEF Init, IInv, OneAtATime, Fresh, FilesNamed, Named, At, FilesAgree,
         CommittedIsComplete, AdvanceIsAccountedFor, ReceiptReplays, Active

-----------------------------------------------------------------------------
\* An operation of call c, the only one in progress, moves only its own
\* counter: what it leaves in the files is all there is to show.
LEMMA Closing ==
    ASSUME IInv, NEW c \in Calls, Active(c),
           NEW p \in Steps \ {"idle"}, pc' = [pc EXCEPT ![c] = p],
           UNCHANGED decided,
           FilesTyped', FilesNamed', At(c, p)', FilesAgree'
    PROVE  IInv'
<1>1. \A d \in Calls : d # c => pc[d] \in {"idle", "ended"} /\ pc'[d] = pc[d]
  BY DEF IInv, TypeOK, OneAtATime, Active
<1>2. pc' \in [Calls -> Steps] /\ pc'[c] = p
  BY DEF IInv, TypeOK
<1>3. TypeOK'
  BY <1>2 DEF IInv, TypeOK, FilesTyped, decided
<1>4. OneAtATime' /\ Fresh'
  BY <1>1, <1>2 DEF IInv, OneAtATime, Fresh, Active, decided
<1>5. \A d \in Calls : At(d, pc[d])'
  BY <1>1, <1>2 DEF At
<1> QED
  BY <1>3, <1>4, <1>5 DEF IInv

\* An operation that leaves the record and both receipts alone only has to
\* find what the next step expects.
LEMMA ClosingUnchanged ==
    ASSUME IInv, NEW c \in Calls, Active(c),
           NEW p \in Steps \ {"idle"}, pc' = [pc EXCEPT ![c] = p],
           UNCHANGED <<decided, record, receipt, transaction, conflicts>>,
           staged' \in Calls \cup {None}, envelope' \in Calls \cup {None},
           At(c, p)'
    PROVE  IInv'
<1>1. FilesTyped' /\ FilesNamed'
  BY DEF IInv, TypeOK, FilesTyped, FilesNamed, Named, decided
<1>2. FilesAgree'
  BY DEF IInv, FilesAgree, CommittedIsComplete, AdvanceIsAccountedFor,
         ReceiptReplays, Replayable, Related, decided
<1> QED
  BY <1>1, <1>2, Closing

\* The operations that leave the record and both receipts alone.
LEMMA UnchangedInvariant ==
    ASSUME IInv, NEW c \in Calls,
           \/ Stage(c) \/ StageFails(c) \/ MoveFails(c) \/ FinalizeFails(c)
           \/ Verify(c) \/ VerifyFails(c) \/ RecordFailureLost(c) \/ WriteEnvelope(c)
           \/ EnvelopeFails(c) \/ MoveBackFails(c) \/ RecordRecoveryLost(c) \/ Crash(c)
    PROVE  IInv'
<1> USE DEF Step, Steps, Active, decided
<1>1. /\ At(c, pc[c])
      /\ staged \in Calls \cup {None}
      /\ envelope \in Calls \cup {None}
  BY DEF IInv, TypeOK
<1>2. CASE Stage(c)
  <2>1. At(c, "staged")'
    BY <1>1, <1>2 DEF Stage, At, Undecided, Prep, Moved, Finalized
  <2> QED
    BY <1>1, <1>2, <2>1, ClosingUnchanged DEF Stage
<1>3. CASE StageFails(c)
  <2>1. At(c, "unmoved")'
    BY <1>1, <1>3 DEF StageFails, At, Undecided, Prep, Moved, Finalized
  <2> QED
    BY <1>1, <1>3, <2>1, ClosingUnchanged DEF StageFails
<1>4. CASE MoveFails(c)
  <2>1. At(c, "unmoved")'
    BY <1>1, <1>4 DEF MoveFails, At, Undecided, Prep, Moved, Finalized
  <2> QED
    BY <1>1, <1>4, <2>1, ClosingUnchanged DEF MoveFails
<1>5. CASE FinalizeFails(c)
  <2>1. At(c, "rollback")'
    BY <1>1, <1>5 DEF FinalizeFails, At, Undecided, Prep, Moved, Finalized
  <2> QED
    BY <1>1, <1>5, <2>1, ClosingUnchanged DEF FinalizeFails
<1>6. CASE Verify(c)
  <2>1. At(c, "ended")'
    BY <1>1, <1>6 DEF Verify, At, Undecided, Prep, Moved, Finalized
  <2> QED
    BY <1>1, <1>6, <2>1, ClosingUnchanged DEF Verify
<1>7. CASE VerifyFails(c)
  <2>1. At(c, "advanced")'
    BY <1>1, <1>7 DEF VerifyFails, At, Undecided, Prep, Moved, Finalized
  <2> QED
    BY <1>1, <1>7, <2>1, ClosingUnchanged DEF VerifyFails
<1>8. CASE RecordFailureLost(c)
  <2>1. At(c, "ended")'
    BY <1>1, <1>8 DEF RecordFailureLost, At, Undecided, Prep, Moved, Finalized
  <2> QED
    BY <1>1, <1>8, <2>1, ClosingUnchanged DEF RecordFailureLost
<1>9. CASE WriteEnvelope(c)
  <2>1. At(c, "enveloped")'
    BY <1>1, <1>9 DEF WriteEnvelope, At, Undecided, Prep, Moved, Finalized
  <2> QED
    BY <1>1, <1>9, <2>1, ClosingUnchanged DEF WriteEnvelope
<1>10. CASE EnvelopeFails(c)
  <2>1. At(c, "unrecovered")'
    BY <1>1, <1>10 DEF EnvelopeFails, At, Undecided, Prep, Moved, Finalized
  <2> QED
    BY <1>1, <1>10, <2>1, ClosingUnchanged DEF EnvelopeFails
<1>11. CASE MoveBackFails(c)
  <2>1. At(c, "unrecovered")'
    BY <1>1, <1>11 DEF MoveBackFails, At, Undecided, Prep, Moved, Finalized
  <2> QED
    BY <1>1, <1>11, <2>1, ClosingUnchanged DEF MoveBackFails
<1>12. CASE RecordRecoveryLost(c)
  <2>1. At(c, "ended")'
    BY <1>1, <1>12 DEF RecordRecoveryLost, At, Undecided, Prep, Moved, Finalized
  <2> QED
    BY <1>1, <1>12, <2>1, ClosingUnchanged DEF RecordRecoveryLost
<1>13. CASE Crash(c)
  <2>1. At(c, "ended")'
    BY <1>1, <1>13 DEF Crash, At, Undecided, Prep, Moved, Finalized
  <2> QED
    BY <1>1, <1>13, <2>1, ClosingUnchanged DEF Crash
<1> QED
  BY <1>2, <1>3, <1>4, <1>5, <1>6, <1>7, <1>8, <1>9, <1>10, <1>11, <1>12, <1>13

-----------------------------------------------------------------------------
\* An operation that only writes the transaction receipt, about call c.
LEMMA ClosingRecorded ==
    ASSUME IInv, NEW c \in Calls, Active(c),
           NEW p \in Steps \ {"idle"}, pc' = [pc EXCEPT ![c] = p],
           UNCHANGED <<decided, record, staged, receipt, envelope, conflicts>>,
           NEW st \in TransactionStates, NEW h \in Calls \cup {None},
           transaction' = Transaction(st, c, h),
           At(c, p)', FilesAgree'
    PROVE  IInv'
<1>1. FilesTyped'
  BY TransactionFields DEF IInv, TypeOK, FilesTyped
<1>2. FilesNamed'
  BY TransactionFields DEF IInv, FilesNamed, Named, At, Active, decided
<1> QED
  BY <1>1, <1>2, Closing

LEMMA ThrowingRecord ==
    ASSUME NEW new, RecordThrows(new)
    PROVE  transaction' = transaction \/ transaction' = new
BY DEF RecordThrows

\* The operations that write the transaction receipt.
LEMMA RecordedInvariant ==
    ASSUME IInv, NEW c \in Calls,
           \/ Prepare(c) \/ PrepareFails(c) \/ Commit(c) \/ CommitFails(c)
           \/ RecordFailure(c) \/ RecordRollback(c) \/ RecordRollbackFails(c)
           \/ RecordRecovery(c)
    PROVE  IInv'
<1> USE DEF Step, Steps, Active, decided, Record
<1>1. /\ At(c, pc[c])
      /\ FilesAgree
      /\ staged \in Calls \cup {None}
      /\ envelope \in Calls \cup {None}
      /\ {"PREPARED", "COMMITTED", "ROLLED_BACK", "RECOVERY_REQUIRED"}
             \subseteq TransactionStates
  BY DEF IInv, TypeOK, TransactionStates
<1>2. CASE Prepare(c)
  <2>1. Undecided /\ staged = c
    BY <1>1, <1>2 DEF Prepare, At
  <2>2. Undecided' /\ staged' = c /\ Prep(c)' /\ status'[c] \in Statuses
    BY <1>1, <1>2, <2>1, TransactionFields
       DEF Prepare, Prepared, Undecided, Prep, At
  <2>3. At(c, "prepared")'
    BY <2>2 DEF At
  <2>4. FilesAgree'
    BY <2>2 DEF FilesAgree, CommittedIsComplete, AdvanceIsAccountedFor,
                ReceiptReplays, Undecided, Prep
  <2> QED
    BY <1>1, <1>2, <2>3, <2>4, ClosingRecorded DEF Prepare, Prepared
<1>3. CASE PrepareFails(c)
  <2>1. At(c, "unmoved")' /\ Undecided'
    BY <1>1, <1>3 DEF PrepareFails, At, Undecided
  <2>2. CASE transaction' = transaction
    BY <1>1, <1>3, <2>1, <2>2, ClosingUnchanged DEF PrepareFails
  <2>3. CASE transaction' = Prepared(c)
    <3>1. transaction'.state = "PREPARED"
      BY <1>1, <2>3, TransactionFields DEF Prepared
    <3>2. FilesAgree'
      BY <2>1, <3>1
         DEF FilesAgree, CommittedIsComplete, AdvanceIsAccountedFor,
             ReceiptReplays, Undecided
    <3> QED
      BY <1>1, <1>3, <2>1, <2>3, <3>2, ClosingRecorded
         DEF PrepareFails, Prepared
  <2> QED
    BY <1>3, <2>2, <2>3, ThrowingRecord DEF PrepareFails
<1>4. ASSUME pc[c] = "finalized", transaction' = Committed(c),
             UNCHANGED <<decided, record, receipt>>
      PROVE  /\ FilesAgree'
             /\ Finalized(c)'
             /\ transaction'.state = "COMMITTED"
  <2>1. Finalized(c)
    BY <1>1, <1>4 DEF At
  <2>2. /\ transaction'.state = "COMMITTED"
        /\ transaction'.by = c
        /\ transaction'.hash = c
    BY <1>1, <1>4, <2>1, TransactionFields DEF Committed, Finalized
  <2> QED
    BY <1>4, <2>1, <2>2
       DEF FilesAgree, CommittedIsComplete, AdvanceIsAccountedFor,
           ReceiptReplays, Replayable, Related, Finalized
<1>5. CASE Commit(c)
  <2>1. At(c, "committed")'
    BY <1>1, <1>4, <1>5 DEF Commit, At
  <2> QED
    BY <1>1, <1>4, <1>5, <2>1, ClosingRecorded
       DEF Commit, Committed, At, Finalized
<1>6. CASE CommitFails(c)
  <2>1. CASE transaction' = transaction
    <3>1. At(c, "advanced")'
      BY <1>1, <1>6, <2>1 DEF CommitFails, At, Finalized
    <3> QED
      BY <1>1, <1>6, <2>1, <3>1, ClosingUnchanged DEF CommitFails
  <2>2. CASE transaction' = Committed(c)
    <3>1. At(c, "advanced")'
      BY <1>1, <1>4, <1>6, <2>2 DEF CommitFails, At
    <3> QED
      BY <1>1, <1>4, <1>6, <2>2, <3>1, ClosingRecorded
         DEF CommitFails, Committed, At, Finalized
  <2> QED
    BY <1>6, <2>1, <2>2, ThrowingRecord DEF CommitFails
<1>7. CASE RecordFailure(c)
  <2>1. At(c, "ended")'
    BY DEF At
  <2>2. CASE transaction' = transaction
    BY <1>1, <1>7, <2>1, <2>2, ClosingUnchanged DEF RecordFailure
  <2>3. CASE pc[c] = "advanced" /\ transaction' = Failure(c)
    <3>1. Finalized(c)
      BY <1>1, <2>3 DEF At
    <3>2. /\ transaction' = Transaction("RECOVERY_REQUIRED", c, c)
          /\ transaction'.state = "RECOVERY_REQUIRED"
          /\ transaction'.by = c
          /\ transaction'.hash = c
      BY <1>1, <2>3, <3>1, TransactionFields DEF Failure, Finalized
    <3>3. FilesAgree'
      BY <1>7, <3>1, <3>2
         DEF RecordFailure, FilesAgree, CommittedIsComplete, ReceiptReplays,
             AdvanceIsAccountedFor, Replayable, Related, Finalized
    <3> QED
      BY <1>1, <1>7, <2>1, <3>2, <3>3, ClosingRecorded DEF RecordFailure
  <2>4. CASE pc[c] = "unmoved" /\ transaction' = Failure(c)
    <3>1. Undecided
      BY <1>1, <2>4 DEF At
    <3>2. /\ transaction' = Transaction("ROLLED_BACK", c, None)
          /\ transaction'.state = "ROLLED_BACK"
      BY <1>1, <2>4, TransactionFields DEF Failure
    <3>3. FilesAgree'
      BY <1>7, <3>1, <3>2
         DEF RecordFailure, FilesAgree, CommittedIsComplete, ReceiptReplays,
             AdvanceIsAccountedFor, Undecided
    <3> QED
      BY <1>1, <1>7, <2>1, <3>2, <3>3, ClosingRecorded DEF RecordFailure
  <2> QED
    BY <1>7, <2>2, <2>3, <2>4 DEF RecordFailure
<1>8. ASSUME pc[c] = "movedBack", transaction' = RolledBack(c),
             UNCHANGED <<record, receipt>>
      PROVE  FilesAgree'
  <2>1. Undecided' /\ transaction'.state = "ROLLED_BACK"
    BY <1>1, <1>8, TransactionFields DEF RolledBack, At, Undecided
  <2> QED
    BY <2>1 DEF FilesAgree, CommittedIsComplete, AdvanceIsAccountedFor,
                ReceiptReplays, Undecided
<1>9. CASE RecordRollback(c)
  <2>1. At(c, "ended")'
    BY DEF At
  <2> QED
    BY <1>1, <1>8, <1>9, <2>1, ClosingRecorded DEF RecordRollback, RolledBack
<1>10. CASE RecordRollbackFails(c)
  <2>1. At(c, "unrecovered")'
    BY <1>1, <1>10 DEF RecordRollbackFails, At, Undecided
  <2>2. CASE transaction' = transaction
    BY <1>1, <1>10, <2>1, <2>2, ClosingUnchanged DEF RecordRollbackFails
  <2>3. CASE transaction' = RolledBack(c)
    BY <1>1, <1>8, <1>10, <2>1, <2>3, ClosingRecorded
       DEF RecordRollbackFails, RolledBack
  <2> QED
    BY <1>10, <2>2, <2>3, ThrowingRecord DEF RecordRollbackFails
<1>11. CASE RecordRecovery(c)
  <2>1. At(c, "ended")'
    BY DEF At
  <2>2. Undecided \/ Moved(c)
    BY <1>1, <1>11 DEF RecordRecovery, At
  <2>3. transaction'.state = "RECOVERY_REQUIRED" /\ transaction'.by = c
    BY <1>1, <1>11, TransactionFields DEF RecordRecovery
  <2>4. FilesAgree'
    BY <1>11, <2>2, <2>3
       DEF RecordRecovery, FilesAgree, CommittedIsComplete, ReceiptReplays,
           AdvanceIsAccountedFor, Undecided, Moved
  <2> QED
    BY <1>1, <1>11, <2>1, <2>4, ClosingRecorded DEF RecordRecovery
<1> QED
  BY <1>2, <1>3, <1>5, <1>6, <1>7, <1>9, <1>10, <1>11

-----------------------------------------------------------------------------
\* The operations that move the record or rename the receipt.
LEMMA MovedInvariant ==
    ASSUME IInv, NEW c \in Calls,
           MoveRecord(c) \/ MoveBack(c) \/ FinalizeReceipt(c)
    PROVE  IInv'
<1> USE DEF Step, Steps, Active, decided
<1>1. /\ At(c, pc[c])
      /\ FilesTyped
      /\ FilesNamed
      /\ Source \in Places
  BY DEF IInv, TypeOK, FilesTyped, Places
<1>2. CASE MoveRecord(c)
  <2>1. Moved(c)' /\ status'[c] \in Statuses
    BY <1>1, <1>2 DEF MoveRecord, MoveIsMade, At, Undecided, Prep, Moved
  <2>2. At(c, "moved")'
    BY <2>1 DEF At
  <2>3. FilesTyped' /\ FilesNamed'
    BY <1>1, <1>2, <2>1, TargetIsElsewhere
       DEF MoveRecord, FilesTyped, FilesNamed, Named, Moved
  <2>4. FilesAgree'
    BY <2>1 DEF FilesAgree, CommittedIsComplete, AdvanceIsAccountedFor,
                ReceiptReplays, Moved, Prep
  <2> QED
    BY <1>2, <2>2, <2>3, <2>4, Closing DEF MoveRecord
<1>3. CASE MoveBack(c)
  <2>1. Undecided' /\ transaction'.state = "PREPARED"
    BY <1>1, <1>3 DEF MoveBack, At, Undecided, Moved, Prep
  <2>2. At(c, "movedBack")'
    BY <1>1, <1>3, <2>1 DEF MoveBack, At
  <2>3. FilesTyped' /\ FilesNamed'
    BY <1>1, <1>3 DEF MoveBack, FilesTyped, FilesNamed, Named
  <2>4. FilesAgree'
    BY <2>1 DEF FilesAgree, CommittedIsComplete, AdvanceIsAccountedFor,
                ReceiptReplays, Undecided
  <2> QED
    BY <1>3, <2>2, <2>3, <2>4, Closing DEF MoveBack
<1>4. CASE FinalizeReceipt(c)
  <2>1. Moved(c) /\ status[c] \in Statuses
    BY <1>1, <1>4 DEF FinalizeReceipt, At
  <2>2. Finalized(c)' /\ transaction'.state = "PREPARED"
    BY <1>4, <2>1 DEF FinalizeReceipt, Finalized, Moved, Prep
  <2>3. At(c, "finalized")'
    BY <1>4, <2>1, <2>2 DEF FinalizeReceipt, At
  <2>4. FilesTyped' /\ FilesNamed'
    BY <1>1, <1>4, <2>1, <2>2
       DEF FinalizeReceipt, FilesTyped, FilesNamed, Named, Finalized
  <2>5. FilesAgree'
    BY <2>2 DEF FilesAgree, CommittedIsComplete, AdvanceIsAccountedFor,
                ReceiptReplays, Replayable, Related, Finalized
  <2> QED
    BY <1>4, <2>3, <2>4, <2>5, Closing DEF FinalizeReceipt
<1> QED
  BY <1>2, <1>3, <1>4

-----------------------------------------------------------------------------
\* A call that begins finds no other in progress.
LEMMA BeginsAlone ==
    ASSUME Overlap = FALSE, NEW c \in Calls, MayBegin(c)
    PROVE  \A d \in Calls : ~Active(d)
BY DEF MayBegin

\* The calls that end where they begin, and the queue reconciliation.
LEMMA EndingInvariant ==
    ASSUME IInv, Overlap = FALSE, NEW c \in Calls, MayBegin(c),
           Step(c, "idle", "ended"), UNCHANGED decided,
           FilesTyped', FilesNamed', FilesAgree'
    PROVE  IInv'
<1>1. \A d \in Calls : pc'[d] \in {"idle", "ended"}
  BY BeginsAlone DEF Step, IInv, TypeOK, Active, Steps
<1>2. pc' \in [Calls -> Steps]
  BY DEF Step, IInv, TypeOK, Steps
<1>3. TypeOK'
  BY <1>2 DEF IInv, TypeOK, FilesTyped, decided
<1>4. OneAtATime' /\ Fresh'
  BY <1>1 DEF IInv, OneAtATime, Fresh, Active, decided, Step, TypeOK
<1>5. \A d \in Calls : At(d, pc[d])'
  BY <1>1 DEF At
<1> QED
  BY <1>3, <1>4, <1>5 DEF IInv

LEMMA BeginInvariant ==
    ASSUME IInv, Overlap = FALSE, NEW c \in Calls, Begin(c)
    PROVE  IInv'
<1>1. FilesTyped /\ FilesNamed /\ FilesAgree
  BY DEF IInv, TypeOK, FilesTyped
<1>2. CASE Refuse(c)
  <2>1. FilesTyped' /\ FilesNamed' /\ FilesAgree'
    BY <1>1, <1>2
       DEF Refuse, decided, FilesTyped, FilesNamed, Named, FilesAgree,
           CommittedIsComplete, AdvanceIsAccountedFor, ReceiptReplays,
           Replayable, Related
  <2> QED
    BY <1>2, <2>1, EndingInvariant DEF Refuse
<1>3. CASE Replay(c)
  <2>1. CASE transaction' = transaction
    <3>1. FilesTyped' /\ FilesNamed' /\ FilesAgree'
      BY <1>1, <1>3, <2>1
         DEF Replay, decided, FilesTyped, FilesNamed, Named, FilesAgree,
             CommittedIsComplete, AdvanceIsAccountedFor, ReceiptReplays,
             Replayable, Related
    <3> QED
      BY <1>3, <3>1, EndingInvariant DEF Replay
  <2>2. CASE transaction' = Committed(receipt)
    <3>1. receipt \in Calls
      BY <1>1, <1>3 DEF Replay, FilesTyped
    <3>2. /\ transaction'.state = "COMMITTED"
          /\ transaction'.by = receipt
          /\ transaction'.hash = receipt
          /\ transaction' \in [state : TransactionStates,
                               by : Calls \cup {None}, hash : Calls \cup {None}]
      BY <2>2, <3>1, TransactionFields DEF Committed, TransactionStates
    <3>3. FilesTyped' /\ FilesNamed'
      BY <1>1, <1>3, <3>2 DEF Replay, decided, FilesTyped, FilesNamed, Named
    <3>4. FilesAgree'
      BY <1>3, <3>1, <3>2
         DEF Replay, decided, FilesAgree, CommittedIsComplete, ReceiptReplays,
             AdvanceIsAccountedFor, Replayable, Related
    <3> QED
      BY <1>3, <3>3, <3>4, EndingInvariant DEF Replay
  <2> QED
    BY <1>3, <2>1, <2>2 DEF Replay
<1>4. ASSUME NEW r \in Results, RecordConflict(c, r)
      PROVE  IInv'
  <2>1. FilesTyped' /\ FilesNamed' /\ FilesAgree'
    BY <1>1, <1>4
       DEF RecordConflict, decided, FilesTyped, FilesNamed, Named, FilesAgree,
           CommittedIsComplete, AdvanceIsAccountedFor, ReceiptReplays,
           Replayable, Related
  <2> QED
    BY <1>4, <2>1, EndingInvariant DEF RecordConflict
<1>5. ASSUME NEW r \in Results, NEW s \in Statuses, Decide(c, r, s)
      PROVE  IInv'
  <2>1. \A d \in Calls : d # c => /\ pc[d] \in {"idle", "ended"}
                                  /\ pc'[d] = pc[d]
                                  /\ status'[d] = status[d]
    BY <1>5, BeginsAlone DEF Decide, Step, IInv, TypeOK, Active
  <2>2. /\ pc' \in [Calls -> Steps]
        /\ pc'[c] = "decided"
        /\ status'[c] = s
        /\ result' \in [Calls -> Results \cup {None}]
        /\ status' \in [Calls -> Statuses \cup {None}]
    BY <1>5 DEF Decide, Step, IInv, TypeOK, Steps
  <2>3. receipt = None /\ record = Source /\ transaction.by # c
    BY <1>1, <1>5 DEF Decide, Step, IInv, Fresh, FilesNamed, Named
  <2>4. TypeOK'
    BY <1>1, <1>5, <2>2 DEF Decide, TypeOK, FilesTyped
  <2>5. OneAtATime' /\ Fresh'
    BY <2>1, <2>2 DEF IInv, OneAtATime, Fresh, Active
  <2>6. FilesNamed'
    BY <1>1, <1>5, <2>1, <2>3 DEF Decide, FilesNamed, Named, FilesTyped
  <2>7. \A d \in Calls : At(d, pc[d])'
    BY <1>5, <2>1, <2>2, <2>3 DEF Decide, At, Undecided
  <2>8. FilesAgree'
    BY <1>1, <1>5, <2>3
       DEF Decide, FilesAgree, CommittedIsComplete, AdvanceIsAccountedFor,
           ReceiptReplays
  <2> QED
    BY <2>4, <2>5, <2>6, <2>7, <2>8 DEF IInv
<1> QED
  BY <1>2, <1>3, <1>4, <1>5 DEF Begin

\* The reconciliation finds every committed record in place.
LEMMA ReconciliationIsIdle ==
    ASSUME IInv, ReconcileQueue
    PROVE  UNCHANGED vars
BY DEF ReconcileQueue, IInv, FilesAgree, CommittedIsComplete, vars, decided

-----------------------------------------------------------------------------
\* With one call at a time the invariant holds for any number of calls,
\* whatever fails and wherever the process dies.
THEOREM Invariant == ASSUME Overlap = FALSE PROVE Spec => []IInv
<1>1. IInv /\ [Next]_vars => IInv'
  <2> SUFFICES ASSUME IInv, [Next]_vars PROVE IInv'
    OBVIOUS
  <2>1. ASSUME NEW c \in Calls, Begin(c) PROVE IInv'
    BY <2>1, BeginInvariant
  <2>2. ASSUME NEW c \in Calls, Admit(c) \/ Fail(c) \/ Catch(c) \/ Crash(c)
        PROVE  IInv'
    BY <2>2, UnchangedInvariant, RecordedInvariant, MovedInvariant
       DEF Admit, Fail, Catch
  <2>3. CASE UNCHANGED vars
    BY <2>3 DEF vars, IInv, TypeOK, OneAtATime, Fresh, FilesNamed, Named, At,
                FilesAgree, Active, Undecided, Prep, Moved, Finalized,
                CommittedIsComplete, AdvanceIsAccountedFor, ReceiptReplays,
                Replayable, Related
  <2>4. CASE ReconcileQueue
    BY <2>3, <2>4, ReconciliationIsIdle
  <2> QED
    BY <2>1, <2>2, <2>3, <2>4 DEF Next
<1> QED
  BY <1>1, InitInvariant, PTL DEF Spec

\* A committed transaction has its receipt and its record in place.
THEOREM CommitsAreComplete ==
    ASSUME Overlap = FALSE PROVE Spec => []CommittedIsComplete
<1>1. IInv => CommittedIsComplete
  BY DEF IInv, FilesAgree
<1> QED
  BY <1>1, Invariant, PTL

\* A record that advanced is where an open or committed transaction sent it.
THEOREM AdvancesAreAccountedFor ==
    ASSUME Overlap = FALSE PROVE Spec => []AdvanceIsAccountedFor
<1>1. IInv => AdvanceIsAccountedFor
  BY DEF IInv, FilesAgree
<1> QED
  BY <1>1, Invariant, PTL

\* A preserved receipt can be returned to an exact resubmission.
THEOREM ReceiptsReplay ==
    ASSUME Overlap = FALSE PROVE Spec => []ReceiptReplays
<1>1. IInv => ReceiptReplays
  BY DEF IInv, FilesAgree
<1> QED
  BY <1>1, Invariant, PTL

-----------------------------------------------------------------------------
\* What one step may do to the record and the receipt.
LEMMA LedgerStep ==
    ASSUME IInv, Next
    PROVE  \/ UNCHANGED <<record, receipt>> /\ (receipt # None => status'[receipt] = status[receipt])
           \/ /\ receipt = None /\ receipt' = None
              /\ \/ record' = Source
                 \/ \E s \in Statuses : record = Source /\ record' = Target(s)
           \/ /\ receipt = None /\ receipt' # None
              /\ status'[receipt'] \in Statuses
              /\ record = Target(status'[receipt'])
              /\ UNCHANGED record
<1> DEFINE Kept == /\ UNCHANGED <<record, receipt>>
                   /\ receipt # None => status'[receipt] = status[receipt]
<1>1. CASE ReconcileQueue
  BY <1>1, ReconciliationIsIdle DEF vars
<1>2. ASSUME NEW c \in Calls, Begin(c) PROVE Kept
  <2>1. CASE Refuse(c) \/ Replay(c)
    BY <2>1 DEF Refuse, Replay, decided
  <2>2. CASE \E r \in Results : RecordConflict(c, r)
    BY <2>2 DEF RecordConflict, decided
  <2>3. CASE \E r \in Results, s \in Statuses : Decide(c, r, s)
    BY <2>3 DEF Decide
  <2> QED
    BY <1>2, <2>1, <2>2, <2>3 DEF Begin
<1>3. ASSUME NEW c \in Calls, MoveRecord(c)
      PROVE  /\ receipt = None /\ receipt' = None
             /\ record = Source /\ \E s \in Statuses : record' = Target(s)
  <2>1. At(c, "prepared")
    BY <1>3 DEF MoveRecord, Step, IInv
  <2> QED
    BY <1>3, <2>1 DEF MoveRecord, MoveIsMade, At, Undecided
<1>4. ASSUME NEW c \in Calls, MoveBack(c)
      PROVE  receipt = None /\ receipt' = None /\ record' = Source
  <2>1. At(c, "enveloped")
    BY <1>4 DEF MoveBack, Step, IInv
  <2> QED
    BY <1>4, <2>1 DEF MoveBack, At, Moved
<1>5. ASSUME NEW c \in Calls, FinalizeReceipt(c)
      PROVE  /\ receipt = None /\ receipt' # None
             /\ status'[receipt'] \in Statuses
             /\ record = Target(status'[receipt'])
             /\ UNCHANGED record
  <2>1. At(c, "moved")
    BY <1>5 DEF FinalizeReceipt, Step, IInv
  <2> QED
    BY <1>5, <2>1 DEF FinalizeReceipt, CanFinalize, At, Moved, decided
<1>6. ASSUME NEW c \in Calls, Crash(c) PROVE Kept
  BY <1>6 DEF Crash, decided
<1>7. ASSUME NEW c \in Calls, Fail(c) PROVE Kept
  BY <1>7 DEF Fail, StageFails, PrepareFails, MoveFails, FinalizeFails,
              CommitFails, VerifyFails, decided
<1>8. ASSUME NEW c \in Calls, Admit(c), ~MoveRecord(c), ~FinalizeReceipt(c)
      PROVE  Kept
  BY <1>8 DEF Admit, Stage, Prepare, Commit, Verify, decided
<1>9. ASSUME NEW c \in Calls, Catch(c), ~MoveBack(c) PROVE Kept
  BY <1>9 DEF Catch, RecordFailure, RecordFailureLost, WriteEnvelope,
              EnvelopeFails, MoveBackFails, RecordRollback, RecordRecovery,
              RecordRollbackFails, RecordRecoveryLost, decided
<1> QED
  BY <1>1, <1>2, <1>3, <1>4, <1>5, <1>6, <1>7, <1>8, <1>9 DEF Next

\* The files implement the ledger: every operation is one step of it or none.
THEOREM FilesImplementLedger ==
    ASSUME Overlap = FALSE PROVE Spec => ImplementsLedger
<1> DEFINE decision == IF receipt = None THEN None ELSE status[receipt]
<1>1. Init => Ledger!Init
  BY DEF Init, Ledger!Init
<1>2. IInv /\ [Next]_vars => [Ledger!Next]_<<decision, record>>
  <2> SUFFICES ASSUME IInv, Next
               PROVE  Ledger!Next \/ UNCHANGED <<decision, record>>
    BY DEF vars
  <2>1. \A c \in Calls : status[c] \in Statuses => status[c] # None
    OBVIOUS
  <2>2. CASE /\ UNCHANGED <<record, receipt>>
             /\ receipt # None => status'[receipt] = status[receipt]
    BY <2>2
  <2>3. CASE /\ receipt = None /\ receipt' = None
             /\ \/ record' = Source
                \/ \E s \in Statuses : record = Source /\ record' = Target(s)
    BY <2>3 DEF Ledger!Next, Ledger!Retreat, Ledger!Advance
  <2>4. CASE /\ receipt = None /\ receipt' # None
             /\ status'[receipt'] \in Statuses
             /\ record = Target(status'[receipt'])
             /\ UNCHANGED record
    BY <2>4 DEF Ledger!Next, Ledger!Decide
  <2> QED
    BY <2>2, <2>3, <2>4, LedgerStep
<1> QED
  BY <1>1, <1>2, Invariant, PTL DEF Spec, ImplementsLedger, Ledger!Spec

-----------------------------------------------------------------------------
(* Whatever overlaps                                                       *)

\* A call that moved the record and has not come to the receipt holds both.
Movers == {"moved", "rollback", "enveloped"}
Finishing == {"finalized", "committed", "advanced"}
RecordIsHeld ==
    /\ \A c, d \in Calls : pc[c] \in Movers /\ pc[d] \in Movers => c = d
    /\ \A c \in Calls : pc[c] \in Movers =>
          receipt = None /\ record = Target(status[c])
    /\ \A c \in Calls : pc[c] \in Finishing => receipt # None
    /\ receipt # None => record # Source

\* What a call has decided, and that the files name calls that have.
CallsDecided ==
    \A c \in Calls :
        /\ pc[c] = "idle" => status[c] = None
        /\ Active(c) => status[c] \in Statuses
        /\ status[c] = "ADMITTED" => result[c] = Bound
AllNamed == Named(staged) /\ Named(receipt) /\ Named(transaction.by)

\* The queue record was sent where it is by a call that decided so.
RecordWasSent ==
    record # Source =>
        \E c \in Calls : status[c] \in Statuses /\ record = Target(status[c])

\* A committed transaction hashes the receipt that is preserved.
CommitNamesReceipt ==
    transaction.state = "COMMITTED" =>
        /\ receipt # None
        /\ transaction.hash = receipt
        /\ transaction.by # None

\* A conflict is recorded only against a receipt, and of a content other than its.
ConflictsDiffer == \A r \in conflicts : receipt # None /\ r # result[receipt]

OverlapInv ==
    /\ TypeOK
    /\ RecordIsHeld
    /\ CallsDecided
    /\ AllNamed
    /\ RecordWasSent
    /\ CommitNamesReceipt
    /\ ConflictsDiffer

LEMMA InitOverlap == Init => OverlapInv
<1> SUFFICES ASSUME Init PROVE OverlapInv
  OBVIOUS
<1>1. TypeOK
  BY InitInvariant DEF IInv
<1>2. transaction.state = "NONE" /\ transaction.by = None
  BY TransactionFields DEF Init, NoTransaction, TransactionStates
<1> QED
  BY <1>1, <1>2
     DEF Init, OverlapInv, RecordIsHeld, Movers, Finishing, CallsDecided, AllNamed,
         Named, RecordWasSent, CommitNamesReceipt, ConflictsDiffer, Active, Statuses

\* What call d may write to the transaction receipt.
Writes(st, d, h) ==
    /\ transaction' = Transaction(st, d, h)
    /\ st \in TransactionStates /\ d \in Calls /\ h \in Calls \cup {None}
    /\ status[d] \in Statuses
    /\ st = "COMMITTED" => receipt # None /\ h = receipt

\* An operation of call c that leaves the record and the receipt alone.
LEMMA OverlapStep ==
    ASSUME OverlapInv, NEW c \in Calls, NEW p \in Steps \ {"idle"},
           pc' = [pc EXCEPT ![c] = p],
           Active(c) \/ p = "ended",
           p \in Movers => pc[c] \in Movers,
           p \in Finishing => receipt # None,
           UNCHANGED <<decided, record, receipt>>,
           staged' \in {staged, None} \/ (staged' = c /\ Active(c)),
           transaction' = transaction \/ \E st, d, h : Writes(st, d, h),
           envelope' \in Calls \cup {None},
           \A r \in conflicts' :
              r \in conflicts \/ (r \in Results /\ receipt # None /\ r # result[receipt])
    PROVE  OverlapInv'
<1>1. /\ pc' \in [Calls -> Steps] /\ pc'[c] = p
      /\ \A d \in Calls : d # c => pc'[d] = pc[d]
      /\ UNCHANGED <<result, status, record, receipt>>
  BY DEF OverlapInv, TypeOK, decided
<1>2. /\ transaction' \in [state : TransactionStates, by : Calls \cup {None},
                           hash : Calls \cup {None}]
      /\ Named(transaction.by)'
      /\ CommitNamesReceipt'
  <2>1. CASE transaction' = transaction
    BY <1>1, <2>1 DEF OverlapInv, TypeOK, AllNamed, Named, CommitNamesReceipt
  <2>2. ASSUME NEW st, NEW d, NEW h, Writes(st, d, h)
        PROVE  /\ transaction' \in [state : TransactionStates, by : Calls \cup {None},
                                    hash : Calls \cup {None}]
               /\ Named(transaction.by)'
               /\ CommitNamesReceipt'
    <3>1. /\ transaction' \in [state : TransactionStates, by : Calls \cup {None},
                               hash : Calls \cup {None}]
          /\ transaction'.state = st /\ transaction'.by = d /\ transaction'.hash = h
      BY <2>2, TransactionFields DEF Writes
    <3> QED
      BY <1>1, <2>2, <3>1 DEF Writes, Named, CommitNamesReceipt
  <2> QED
    BY <2>1, <2>2
<1>3. TypeOK'
  BY <1>1, <1>2 DEF OverlapInv, TypeOK
<1>4. RecordIsHeld'
  BY <1>1 DEF OverlapInv, RecordIsHeld
<1>5. CallsDecided'
  BY <1>1 DEF OverlapInv, CallsDecided, Active
<1>6. AllNamed'
  BY <1>1, <1>2 DEF OverlapInv, AllNamed, Named, CallsDecided
<1>7. RecordWasSent'
  BY <1>1 DEF OverlapInv, RecordWasSent
<1>8. ConflictsDiffer'
  BY <1>1 DEF OverlapInv, ConflictsDiffer
<1> QED
  BY <1>2, <1>3, <1>4, <1>5, <1>6, <1>7, <1>8 DEF OverlapInv

\* The operations that leave the record and both receipts alone.
LEMMA OverlapLeaves ==
    ASSUME OverlapInv, NEW c \in Calls,
           \/ Stage(c) \/ StageFails(c) \/ MoveFails(c) \/ FinalizeFails(c)
           \/ Verify(c) \/ VerifyFails(c) \/ RecordFailureLost(c) \/ WriteEnvelope(c)
           \/ EnvelopeFails(c) \/ MoveBackFails(c) \/ RecordRecoveryLost(c) \/ Crash(c)
           \/ Refuse(c)
    PROVE  OverlapInv'
<1> USE DEF Step, Steps, Active, Movers, Finishing
<1>1. /\ staged \in Calls \cup {None}
      /\ envelope \in Calls \cup {None}
      /\ pc[c] \in Finishing => receipt # None
  BY DEF OverlapInv, TypeOK, RecordIsHeld
<1>2. CASE Stage(c) BY <1>1, <1>2, OverlapStep DEF Stage
<1>3. CASE StageFails(c) BY <1>1, <1>3, OverlapStep DEF StageFails
<1>4. CASE MoveFails(c) BY <1>1, <1>4, OverlapStep DEF MoveFails
<1>5. CASE FinalizeFails(c) BY <1>1, <1>5, OverlapStep DEF FinalizeFails
<1>6. CASE Verify(c) BY <1>1, <1>6, OverlapStep DEF Verify
<1>7. CASE VerifyFails(c) BY <1>1, <1>7, OverlapStep DEF VerifyFails
<1>8. CASE RecordFailureLost(c) BY <1>1, <1>8, OverlapStep DEF RecordFailureLost
<1>9. CASE WriteEnvelope(c) BY <1>1, <1>9, OverlapStep DEF WriteEnvelope
<1>10. CASE EnvelopeFails(c) BY <1>1, <1>10, OverlapStep DEF EnvelopeFails
<1>11. CASE MoveBackFails(c) BY <1>1, <1>11, OverlapStep DEF MoveBackFails
<1>12. CASE RecordRecoveryLost(c) BY <1>1, <1>12, OverlapStep DEF RecordRecoveryLost
<1>13. CASE Crash(c) BY <1>1, <1>13, OverlapStep DEF Crash
<1>14. CASE Refuse(c) BY <1>1, <1>14, OverlapStep DEF Refuse
<1> QED
  BY <1>2, <1>3, <1>4, <1>5, <1>6, <1>7, <1>8, <1>9, <1>10, <1>11, <1>12, <1>13,
     <1>14

\* The operations that write the transaction receipt, or a conflict.
LEMMA OverlapRecords ==
    ASSUME OverlapInv, NEW c \in Calls,
           \/ Prepare(c) \/ PrepareFails(c) \/ Commit(c) \/ CommitFails(c)
           \/ RecordFailure(c) \/ RecordRollback(c) \/ RecordRollbackFails(c)
           \/ RecordRecovery(c) \/ Replay(c) \/ \E r \in Results : RecordConflict(c, r)
    PROVE  OverlapInv'
<1> USE DEF Step, Steps, Active, Movers, Finishing, Record
<1>1. /\ staged \in Calls \cup {None}
      /\ receipt \in Calls \cup {None}
      /\ envelope \in Calls \cup {None}
      /\ pc[c] \in Finishing => receipt # None
      /\ pc[c] \notin {"idle", "ended"} => status[c] \in Statuses
      /\ receipt # None => status[receipt] \in Statuses
      /\ {"PREPARED", "COMMITTED", "ROLLED_BACK", "RECOVERY_REQUIRED"}
             \subseteq TransactionStates
  BY DEF OverlapInv, TypeOK, RecordIsHeld, CallsDecided, AllNamed, Named,
         TransactionStates
<1>2. ASSUME NEW new, RecordThrows(new)
      PROVE  transaction' = transaction \/ transaction' = new
  BY <1>2, ThrowingRecord
<1>3. CASE Prepare(c)
  <2>1. Writes("PREPARED", c, c) BY <1>1, <1>3 DEF Prepare, Prepared, Writes
  <2> QED BY <1>1, <1>3, <2>1, OverlapStep DEF Prepare
<1>4. CASE PrepareFails(c)
  <2>1. transaction' = transaction \/ Writes("PREPARED", c, c)
    BY <1>1, <1>2, <1>4 DEF PrepareFails, Prepared, Writes
  <2> QED BY <1>1, <1>4, <2>1, OverlapStep DEF PrepareFails
<1>5. CASE Commit(c)
  <2>1. Writes("COMMITTED", c, receipt) BY <1>1, <1>5 DEF Commit, Committed, Writes
  <2> QED BY <1>1, <1>5, <2>1, OverlapStep DEF Commit
<1>6. CASE CommitFails(c)
  <2>1. transaction' = transaction \/ Writes("COMMITTED", c, receipt)
    BY <1>1, <1>2, <1>6 DEF CommitFails, Committed, Writes
  <2> QED BY <1>1, <1>6, <2>1, OverlapStep DEF CommitFails
<1>7. CASE RecordFailure(c)
  <2>1. \/ transaction' = transaction
        \/ Writes("RECOVERY_REQUIRED", c, receipt)
        \/ Writes("ROLLED_BACK", c, None)
    BY <1>1, <1>7 DEF RecordFailure, Failure, Writes
  <2> QED BY <1>1, <1>7, <2>1, OverlapStep DEF RecordFailure
<1>8. CASE RecordRollback(c)
  <2>1. Writes("ROLLED_BACK", c, None)
    BY <1>1, <1>8 DEF RecordRollback, RolledBack, Writes
  <2> QED BY <1>1, <1>8, <2>1, OverlapStep DEF RecordRollback
<1>9. CASE RecordRollbackFails(c)
  <2>1. transaction' = transaction \/ Writes("ROLLED_BACK", c, None)
    BY <1>1, <1>2, <1>9 DEF RecordRollbackFails, RolledBack, Writes
  <2> QED BY <1>1, <1>9, <2>1, OverlapStep DEF RecordRollbackFails
<1>10. CASE RecordRecovery(c)
  <2>1. Writes("RECOVERY_REQUIRED", c, None)
    BY <1>1, <1>10 DEF RecordRecovery, Writes
  <2> QED BY <1>1, <1>10, <2>1, OverlapStep DEF RecordRecovery
<1>11. CASE Replay(c)
  <2>1. transaction' = transaction \/ Writes("COMMITTED", receipt, receipt)
    BY <1>1, <1>11 DEF Replay, Committed, Writes
  <2> QED BY <1>1, <1>11, <2>1, OverlapStep DEF Replay
<1>12. ASSUME NEW r \in Results, RecordConflict(c, r) PROVE OverlapInv'
  BY <1>1, <1>12, OverlapStep DEF RecordConflict
<1> QED
  BY <1>3, <1>4, <1>5, <1>6, <1>7, <1>8, <1>9, <1>10, <1>11, <1>12

\* The operations that move the record or rename the receipt.  A move takes the
\* record from where nobody holds it; whoever renames is the one that holds it.
LEMMA OverlapMoves ==
    ASSUME OverlapInv, NEW c \in Calls,
           MoveRecord(c) \/ MoveBack(c) \/ FinalizeReceipt(c)
    PROVE  OverlapInv'
<1> USE DEF Step, Steps, decided
<1>1. /\ pc \in [Calls -> Steps]
      /\ status[c] \in Statuses
      /\ Target(status[c]) \in Places /\ Target(status[c]) # Source
      /\ Source \in Places
      /\ \A d \in Calls : pc[d] \in Movers => Target(status[d]) # Source
  BY TargetIsElsewhere
     DEF OverlapInv, TypeOK, CallsDecided, Active, MoveRecord, MoveBack,
         FinalizeReceipt, Movers, Places
<1>2. CASE MoveRecord(c)
  <2>1. \A d \in Calls : pc[d] \notin Movers /\ pc[d] \notin Finishing
    BY <1>1, <1>2 DEF MoveRecord, MoveIsMade, OverlapInv, RecordIsHeld
  <2>2. receipt = None
    BY <1>2 DEF MoveRecord, MoveIsMade, OverlapInv, RecordIsHeld
  <2>3. TypeOK'
    BY <1>1, <1>2 DEF MoveRecord, MoveIsMade, OverlapInv, TypeOK
  <2>4. RecordIsHeld'
    BY <1>1, <1>2, <2>1, <2>2
       DEF MoveRecord, MoveIsMade, RecordIsHeld, Movers, Finishing
  <2>5. CallsDecided'
    BY <1>1, <1>2 DEF MoveRecord, OverlapInv, CallsDecided, Active
  <2>6. AllNamed' /\ CommitNamesReceipt' /\ ConflictsDiffer'
    BY <1>2 DEF MoveRecord, OverlapInv, AllNamed, Named, CommitNamesReceipt,
                ConflictsDiffer
  <2>7. RecordWasSent'
    BY <1>1, <1>2 DEF MoveRecord, MoveIsMade, RecordWasSent
  <2> QED
    BY <2>3, <2>4, <2>5, <2>6, <2>7 DEF OverlapInv
<1>3. CASE MoveBack(c)
  <2>1. receipt = None /\ \A d \in Calls : d # c => pc[d] \notin Movers
    BY <1>3 DEF MoveBack, OverlapInv, RecordIsHeld, Movers
  <2>2. \A d \in Calls : pc[d] \notin Finishing
    BY <2>1 DEF OverlapInv, RecordIsHeld
  <2>3. TypeOK'
    BY <1>1, <1>3 DEF MoveBack, OverlapInv, TypeOK
  <2>4. RecordIsHeld'
    BY <1>1, <1>3, <2>1, <2>2 DEF MoveBack, RecordIsHeld, Movers, Finishing
  <2>5. CallsDecided'
    BY <1>1, <1>3 DEF MoveBack, OverlapInv, CallsDecided, Active
  <2>6. AllNamed' /\ CommitNamesReceipt' /\ ConflictsDiffer' /\ RecordWasSent'
    BY <1>3 DEF MoveBack, OverlapInv, AllNamed, Named, CommitNamesReceipt,
                ConflictsDiffer, RecordWasSent
  <2> QED
    BY <2>3, <2>4, <2>5, <2>6 DEF OverlapInv
<1>4. CASE FinalizeReceipt(c)
  <2>1. /\ receipt = None /\ record # Source
        /\ \A d \in Calls : d # c => pc[d] \notin Movers
    BY <1>1, <1>4 DEF FinalizeReceipt, OverlapInv, RecordIsHeld, Movers
  <2>2. staged \in Calls /\ receipt' = staged /\ receipt' # None
    BY <1>4 DEF FinalizeReceipt, CanFinalize, OverlapInv, TypeOK
  <2>3. TypeOK'
    BY <1>1, <1>4 DEF FinalizeReceipt, OverlapInv, TypeOK
  <2>4. RecordIsHeld'
    BY <1>1, <1>4, <2>1, <2>2 DEF FinalizeReceipt, RecordIsHeld, Movers, Finishing
  <2>5. CallsDecided'
    BY <1>1, <1>4 DEF FinalizeReceipt, OverlapInv, CallsDecided, Active
  <2>6. AllNamed'
    BY <1>4, <2>2 DEF FinalizeReceipt, OverlapInv, AllNamed, Named
  <2>7. CommitNamesReceipt' /\ ConflictsDiffer' /\ RecordWasSent'
    BY <1>4, <2>1 DEF FinalizeReceipt, OverlapInv, CommitNamesReceipt,
                      ConflictsDiffer, RecordWasSent
  <2> QED
    BY <2>3, <2>4, <2>5, <2>6, <2>7 DEF OverlapInv
<1> QED
  BY <1>2, <1>3, <1>4

LEMMA OverlapDecides ==
    ASSUME OverlapInv, NEW c \in Calls, NEW r \in Results, NEW s \in Statuses,
           Decide(c, r, s)
    PROVE  OverlapInv'
<1>1. /\ pc[c] = "idle" /\ pc' = [pc EXCEPT ![c] = "decided"]
      /\ pc \in [Calls -> Steps]
      /\ status' = [status EXCEPT ![c] = s] /\ status \in [Calls -> Statuses \cup {None}]
      /\ result' = [result EXCEPT ![c] = r] /\ result \in [Calls -> Results \cup {None}]
      /\ s = "ADMITTED" => r = Bound
      /\ receipt = None
      /\ UNCHANGED <<record, staged, receipt, transaction, envelope, conflicts>>
  BY DEF Decide, Step, Decidable, OverlapInv, TypeOK
<1>2. \A d \in Calls : status[d] \in Statuses => d # c /\ status'[d] = status[d]
  BY <1>1 DEF OverlapInv, CallsDecided
<1>3. TypeOK'
  BY <1>1 DEF OverlapInv, TypeOK, Steps
<1>4. RecordIsHeld'
  <2>1. \A d \in Calls : pc'[d] \in Movers \cup Finishing =>
           d # c /\ pc'[d] = pc[d] /\ status'[d] = status[d]
    BY <1>1 DEF Movers, Finishing
  <2> QED
    BY <1>1, <2>1 DEF OverlapInv, RecordIsHeld
<1>5. CallsDecided'
  BY <1>1 DEF OverlapInv, CallsDecided, Active
<1>6. AllNamed'
  BY <1>1, <1>2 DEF OverlapInv, TypeOK, AllNamed, Named
<1>7. CommitNamesReceipt' /\ ConflictsDiffer'
  BY <1>1 DEF OverlapInv, CommitNamesReceipt, ConflictsDiffer
<1>8. RecordWasSent'
  BY <1>1, <1>2 DEF OverlapInv, RecordWasSent
<1> QED
  BY <1>3, <1>4, <1>5, <1>6, <1>7, <1>8 DEF OverlapInv

LEMMA OverlapReconciles ==
    ASSUME OverlapInv, ReconcileQueue PROVE OverlapInv'
<1>1. /\ receipt \in Calls /\ status[receipt] \in Statuses
      /\ Target(status[receipt]) \in Places /\ Target(status[receipt]) # Source
      /\ \A d \in Calls : pc[d] \notin Movers
  BY TargetIsElsewhere DEF ReconcileQueue, OverlapInv, TypeOK, AllNamed, Named,
                           RecordIsHeld
<1>2. /\ record' = Target(status[receipt])
      /\ UNCHANGED <<pc, result, status, staged, receipt, transaction, envelope,
                     conflicts>>
  BY DEF ReconcileQueue, decided
<1>3. TypeOK' /\ RecordIsHeld' /\ CallsDecided'
  BY <1>1, <1>2 DEF OverlapInv, TypeOK, RecordIsHeld, CallsDecided, Active
<1>4. AllNamed' /\ CommitNamesReceipt' /\ ConflictsDiffer' /\ RecordWasSent'
  BY <1>1, <1>2 DEF OverlapInv, AllNamed, Named, CommitNamesReceipt,
                    ConflictsDiffer, RecordWasSent
<1> QED
  BY <1>3, <1>4 DEF OverlapInv

\* For any number of calls, whatever overlaps, fails and crashes.
THEOREM OverlapInvariant == Spec => []OverlapInv
<1>1. ASSUME OverlapInv, [Next]_vars PROVE OverlapInv'
  <2>1. ASSUME NEW c \in Calls, Begin(c) PROVE OverlapInv'
    BY <1>1, <2>1, OverlapLeaves, OverlapRecords, OverlapDecides DEF Begin
  <2>2. ASSUME NEW c \in Calls, Admit(c) \/ Fail(c) \/ Catch(c) \/ Crash(c)
        PROVE  OverlapInv'
    BY <1>1, <2>2, OverlapLeaves, OverlapRecords, OverlapMoves
       DEF Admit, Fail, Catch
  <2>3. CASE UNCHANGED vars
    BY <1>1, <2>3
       DEF vars, decided, OverlapInv, TypeOK, RecordIsHeld, CallsDecided, AllNamed,
           Named, RecordWasSent, CommitNamesReceipt, ConflictsDiffer, Active
  <2> QED
    BY <1>1, <2>1, <2>2, <2>3, OverlapReconciles DEF Next
<1> QED
  BY <1>1, InitOverlap, PTL DEF Spec

\* Every variable keeps its type.
THEOREM TypeCorrect == Spec => []TypeOK
<1>1. OverlapInv => TypeOK BY DEF OverlapInv
<1> QED BY <1>1, OverlapInvariant, PTL

\* The queue record is admitted only for the content the manifest binds.
AdmittedIsBound ==
    record = Target("ADMITTED") =>
        \E c \in Calls : status[c] = "ADMITTED" /\ result[c] = Bound

\* However calls overlap and fail, and wherever they die, only the content the
\* preservation manifest binds takes the record to complete_ready_for_gate.
THEOREM OnlyBoundIsAdmitted == Spec => []AdmittedIsBound
<1>1. ASSUME OverlapInv PROVE AdmittedIsBound
  <2> SUFFICES ASSUME record = Target("ADMITTED") PROVE AdmittedIsBound
    BY DEF AdmittedIsBound
  <2>1. record # Source BY DEF Target, Source
  <2>2. PICK c \in Calls : status[c] \in Statuses /\ record = Target(status[c])
    BY <1>1, <2>1 DEF OverlapInv, RecordWasSent
  <2>3. status[c] = "ADMITTED" BY <2>2 DEF Target, Statuses
  <2> QED BY <1>1, <2>3 DEF OverlapInv, CallsDecided, AdmittedIsBound
<1> QED BY <1>1, OverlapInvariant, PTL

\* Under the same conditions a committed transaction hashes the receipt that is
\* preserved, and a conflict is recorded of another content than the receipt's.
THEOREM CommitsNameReceipts == Spec => [](CommitNamesReceipt /\ ConflictsDiffer)
<1>1. OverlapInv => CommitNamesReceipt /\ ConflictsDiffer BY DEF OverlapInv
<1> QED BY <1>1, OverlapInvariant, PTL

\* Once there is a receipt nobody holds the record, and neither changes again:
\* no call that overlapped the one that wrote it, and no rollback of one.
THEOREM ReceiptsAreFinal == Spec => ReceiptIsFinal
<1>1. ASSUME OverlapInv, Next, receipt # None PROVE UNCHANGED <<receipt, record>>
  <2>1. /\ record # Source
        /\ \A c \in Calls : pc[c] \notin Movers
    BY <1>1 DEF OverlapInv, RecordIsHeld
  <2>2. CASE ReconcileQueue BY <2>1, <2>2 DEF ReconcileQueue
  <2>3. ASSUME NEW c \in Calls, Begin(c) PROVE UNCHANGED <<receipt, record>>
    BY <2>3 DEF Begin, Refuse, Replay, RecordConflict, Decide
  <2>4. ASSUME NEW c \in Calls, Crash(c) PROVE UNCHANGED <<receipt, record>>
    BY <2>4 DEF Crash
  <2>5. ASSUME NEW c \in Calls, Admit(c) PROVE UNCHANGED <<receipt, record>>
    BY <1>1, <2>1, <2>5
       DEF Admit, Stage, Prepare, MoveRecord, MoveIsMade, FinalizeReceipt,
           CanFinalize, Commit, Verify
  <2>6. ASSUME NEW c \in Calls, Fail(c) PROVE UNCHANGED <<receipt, record>>
    BY <2>6 DEF Fail, StageFails, PrepareFails, MoveFails, FinalizeFails,
                CommitFails, VerifyFails
  <2>7. ASSUME NEW c \in Calls, Catch(c) PROVE UNCHANGED <<receipt, record>>
    BY <2>1, <2>7
       DEF Catch, RecordFailure, RecordFailureLost, WriteEnvelope, EnvelopeFails,
           MoveBack, MoveBackFails, RecordRollback, RecordRollbackFails,
           RecordRecovery, RecordRecoveryLost, Step, Movers
  <2> QED BY <1>1, <2>2, <2>3, <2>4, <2>5, <2>6, <2>7 DEF Next
<1>2. OverlapInv /\ [Next]_vars =>
          [receipt # None => UNCHANGED <<receipt, record>>]_<<receipt, record>>
  BY <1>1 DEF vars
<1> QED
  BY <1>2, OverlapInvariant, PTL DEF Spec, ReceiptIsFinal
=============================================================================
