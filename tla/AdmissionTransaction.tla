------------------------ MODULE AdmissionTransaction ------------------------
(***************************************************************************)
(* The admission of one result (tools/TsfDurableContract.Canonical.ps1,    *)
(* Get-TsfAdmissionDecision): a call evaluates the result, stages a        *)
(* receipt, records a PREPARED transaction, moves the queue record         *)
(* (tools/Move-TsfMissionState.ps1), renames the staged receipt and        *)
(* commits the transaction; a call that fails takes back what it can, and  *)
(* a later call replays or reconciles what is there.                       *)
(*                                                                         *)
(* A step is one file operation: any may fail, and the process may die     *)
(* between two.  The files of a result have fixed names, so calls share    *)
(* them; every call writes its own time into its receipt, so a receipt is  *)
(* identified by the call that wrote it, and so is its file hash.          *)
(***************************************************************************)
EXTENDS FiniteSets

CONSTANTS Calls,    \* calls of Get-TsfAdmissionDecision for one result id
          Results,  \* contents submitted under that result id
          Bound,    \* the content the preservation manifest binds
          Faults,   \* the file operations that may fail
          Crashes,  \* whether the process may die between two operations
          Overlap,  \* whether two calls may be in progress at once
          None

FileOperations == {"stage", "prepare", "move", "rename", "commit", "verify",
                   "envelope", "back", "record"}

\* ADMITTED also stands for ADMITTED_WITH_CAVEATS, REJECTED for the three
\* rejections and REVIEW_REQUIRED.
Statuses == {"ADMITTED", "REJECTED", "TIM_REQUIRED"}

ASSUME AdmissionAssumption ==
    /\ Bound \in Results
    /\ Faults \subseteq FileOperations
    /\ Crashes \in BOOLEAN
    /\ Overlap \in BOOLEAN
    /\ None \notin Calls
    /\ None \notin Results \cup Statuses

VARIABLES
    pc,          \* the last operation a call has done
    result,      \* the content a call evaluates; None before it decides
    status,      \* the status it decided on; None before it decides
    record,      \* the queue state whose folder holds the record
    staged,      \* the receipt in the temporary receipt file
    receipt,     \* the receipt in the admission receipt file
    transaction, \* the transaction receipt
    envelope,    \* the call the recovery envelope binds
    conflicts    \* contents with a conflict receipt

vars == <<pc, result, status, record, staged, receipt, transaction, envelope,
          conflicts>>
decided == <<result, status>>

Source == "postrun_pending"

\* Get-TsfAdmissionQueueTarget
Target(s) ==
    IF s = "ADMITTED" THEN "complete_ready_for_gate"
    ELSE IF s = "TIM_REQUIRED" THEN "blocked_needs_tim"
    ELSE "complete_review_only"

Places == {Source} \cup {Target(s) : s \in Statuses}

Steps == {"idle", "decided", "staged", "prepared", "moved", "finalized",
          "committed", "unmoved", "advanced", "rollback", "enveloped",
          "movedBack", "unrecovered", "ended"}

\* A transaction receipt: its state, the call whose receipt it describes and
\* the receipt file hash it records.
Transaction(st, c, hash) == [state |-> st, by |-> c, hash |-> hash]
NoTransaction == Transaction("NONE", None, None)
TransactionStates == {"NONE", "PREPARED", "COMMITTED", "ROLLED_BACK",
                      "RECOVERY_REQUIRED"}

TypeOK ==
    /\ pc \in [Calls -> Steps]
    /\ result \in [Calls -> Results \cup {None}]
    /\ status \in [Calls -> Statuses \cup {None}]
    /\ record \in Places
    /\ staged \in Calls \cup {None}
    /\ receipt \in Calls \cup {None}
    /\ transaction \in [state : TransactionStates, by : Calls \cup {None},
                        hash : Calls \cup {None}]
    /\ envelope \in Calls \cup {None}
    /\ conflicts \subseteq Results

Init ==
    /\ pc = [c \in Calls |-> "idle"]
    /\ result = [c \in Calls |-> None]
    /\ status = [c \in Calls |-> None]
    /\ record = Source
    /\ staged = None
    /\ receipt = None
    /\ transaction = NoTransaction
    /\ envelope = None
    /\ conflicts = {}

-----------------------------------------------------------------------------
Active(c) == pc[c] \notin {"idle", "ended"}
MayBegin(c) == pc[c] = "idle" /\ (Overlap \/ \A d \in Calls : ~Active(d))
Step(c, from, to) == pc[c] = from /\ pc' = [pc EXCEPT ![c] = to]
MayFail(operation) == operation \in Faults

\* Contents the manifest does not bind are never admitted.
Decidable(r) == IF r = Bound THEN Statuses ELSE Statuses \ {"ADMITTED"}

\* Test-TsfAdmissionRelationship between the receipt of call c, the receipt
\* file with the given content and the transaction receipt.
Related(c, file) ==
    /\ transaction.by # None
    /\ result[transaction.by] = result[c]
    /\ status[transaction.by] = status[c]
    /\ file # None => transaction.hash = file

\* Write-TsfAtomicJson of the transaction receipt.  It can throw after the
\* replacement too, when the backup of the replaced file cannot be removed.
Record(new) == transaction' = new
RecordThrows(new) ==
    transaction' \in {transaction} \cup
                     (IF transaction.by = None THEN {} ELSE {new})

Prepared(c) == Transaction("PREPARED", c, c)
CommittedUnread(c) == Transaction("COMMITTED", c, None)   \* mutant: no hash
Committed(c) == Transaction("COMMITTED", c, receipt)

-----------------------------------------------------------------------------
(* A result without a receipt                                              *)

\* The evaluation ends with a status and the transition preflight is GREEN.
Decide(c, r, s) ==
    /\ MayBegin(c)
    /\ Step(c, "idle", "decided")
    /\ receipt = None
    /\ record = Source
    /\ s \in Decidable(r)
    /\ result' = [result EXCEPT ![c] = r]
    /\ status' = [status EXCEPT ![c] = s]
    /\ UNCHANGED <<record, staged, receipt, transaction, envelope, conflicts>>

\* The call throws before it has written anything: evidence that does not
\* match, a queue record that is not where it says, a failed preflight.
Refuse(c) ==
    /\ MayBegin(c)
    /\ Step(c, "idle", "ended")
    /\ UNCHANGED <<decided, record, staged, receipt, transaction, envelope,
                   conflicts>>

Stage(c) ==
    /\ Step(c, "decided", "staged")
    /\ staged' = c
    /\ UNCHANGED <<decided, record, receipt, transaction, envelope, conflicts>>

StageFails(c) ==
    /\ MayFail("stage")
    /\ Step(c, "decided", "unmoved")
    /\ staged' \in {staged, c}
    /\ UNCHANGED <<decided, record, receipt, transaction, envelope, conflicts>>

Prepare(c) ==
    /\ Step(c, "staged", "prepared")
    /\ Record(Prepared(c))
    /\ UNCHANGED <<decided, record, staged, receipt, envelope, conflicts>>

PrepareFails(c) ==
    /\ MayFail("prepare")
    /\ Step(c, "staged", "unmoved")
    /\ RecordThrows(Prepared(c))
    /\ UNCHANGED <<decided, record, staged, receipt, envelope, conflicts>>

\* Move-TsfMissionState.ps1: the record leaves the folder it was read from.
MoveIsSkipped(c) == UNCHANGED record           \* mutant: verdict not checked
MoveIsMade(c) == record = Source /\ record' = Target(status[c])
MoveRecord(c) ==
    /\ Step(c, "prepared", "moved")
    /\ MoveIsMade(c)
    /\ UNCHANGED <<decided, staged, receipt, transaction, envelope, conflicts>>

MoveFails(c) ==
    /\ record # Source \/ MayFail("move")
    /\ Step(c, "prepared", "unmoved")
    /\ UNCHANGED <<decided, record, staged, receipt, transaction, envelope,
                   conflicts>>

\* The staged receipt becomes the admission receipt.
CanFinalize == staged # None /\ receipt = None
FinalizeReceipt(c) ==
    /\ CanFinalize
    /\ Step(c, "moved", "finalized")
    /\ receipt' = staged
    /\ staged' = None
    /\ UNCHANGED <<decided, record, transaction, envelope, conflicts>>

FinalizeFails(c) ==
    /\ ~CanFinalize \/ MayFail("rename")
    /\ Step(c, "moved", "rollback")
    /\ UNCHANGED <<decided, record, staged, receipt, transaction, envelope,
                   conflicts>>

Commit(c) ==
    /\ Step(c, "finalized", "committed")
    /\ Record(Committed(c))
    /\ UNCHANGED <<decided, record, staged, receipt, envelope, conflicts>>

CommitFails(c) ==
    /\ MayFail("commit")
    /\ Step(c, "finalized", "advanced")
    /\ RecordThrows(Committed(c))
    /\ UNCHANGED <<decided, record, staged, receipt, envelope, conflicts>>

\* The commit is read back before the receipt is returned.
ReadsCommitted(c) ==
    transaction.state = "COMMITTED" /\ receipt # None /\ Related(c, receipt)
Verify(c) ==
    /\ ReadsCommitted(c)
    /\ Step(c, "committed", "ended")
    /\ UNCHANGED <<decided, record, staged, receipt, transaction, envelope,
                   conflicts>>

VerifyFails(c) ==
    /\ ~ReadsCommitted(c) \/ MayFail("verify")
    /\ Step(c, "committed", "advanced")
    /\ UNCHANGED <<decided, record, staged, receipt, transaction, envelope,
                   conflicts>>

-----------------------------------------------------------------------------
(* The catch of a failed call                                              *)

\* Nothing moved, or everything but the transaction receipt done.
FailureForgetsMove(c) == Transaction("ROLLED_BACK", c, None)       \* mutant
FailureForgetsReceipt(c) == Transaction("RECOVERY_REQUIRED", c, None) \* mutant
FailureNamesEvent(c) == Transaction("QUEUE_MOVED", c, receipt)     \* mutant
Failure(c) ==
    IF pc[c] = "advanced" THEN Transaction("RECOVERY_REQUIRED", c, receipt)
    ELSE Transaction("ROLLED_BACK", c, None)
RecordFailure(c) ==
    /\ pc[c] \in {"unmoved", "advanced"}
    /\ pc' = [pc EXCEPT ![c] = "ended"]
    /\ transaction' = IF transaction.by = None THEN transaction ELSE Failure(c)
    /\ UNCHANGED <<decided, record, staged, receipt, envelope, conflicts>>

\* The write of the failure is itself swallowed.
RecordFailureLost(c) ==
    /\ MayFail("record")
    /\ pc[c] \in {"unmoved", "advanced"}
    /\ pc' = [pc EXCEPT ![c] = "ended"]
    /\ UNCHANGED <<decided, record, staged, receipt, transaction, envelope,
                   conflicts>>

\* New-TsfCanonicalRecoveryEnvelope: what it binds must still fit together.
\* The envelope is immutable, and no two calls make the same one.
Recoverable(c) ==
    /\ transaction.state \in {"PREPARED", "RECOVERY_REQUIRED"}
    /\ staged # None
    /\ Related(c, staged)
    /\ record = Target(status[c])
WriteEnvelope(c) ==
    /\ Recoverable(c)
    /\ envelope = None
    /\ Step(c, "rollback", "enveloped")
    /\ envelope' = c
    /\ UNCHANGED <<decided, record, staged, receipt, transaction, conflicts>>

EnvelopeFails(c) ==
    /\ ~Recoverable(c) \/ envelope # None \/ MayFail("envelope")
    /\ Step(c, "rollback", "unrecovered")
    /\ UNCHANGED <<decided, record, staged, receipt, transaction, envelope,
                   conflicts>>

\* Move-TsfMissionState.ps1 with the envelope, which is validated again.
MoveBack(c) ==
    /\ Recoverable(c)
    /\ Step(c, "enveloped", "movedBack")
    /\ record' = Source
    /\ UNCHANGED <<decided, staged, receipt, transaction, envelope, conflicts>>

MoveBackFails(c) ==
    /\ ~Recoverable(c) \/ MayFail("back")
    /\ Step(c, "enveloped", "unrecovered")
    /\ UNCHANGED <<decided, record, staged, receipt, transaction, envelope,
                   conflicts>>

RolledBack(c) == Transaction("ROLLED_BACK", c, None)
RecordRollback(c) ==
    /\ Step(c, "movedBack", "ended")
    /\ Record(RolledBack(c))
    /\ UNCHANGED <<decided, record, staged, receipt, envelope, conflicts>>

RecordRollbackFails(c) ==
    /\ MayFail("record")
    /\ Step(c, "movedBack", "unrecovered")
    /\ RecordThrows(RolledBack(c))
    /\ UNCHANGED <<decided, record, staged, receipt, envelope, conflicts>>

RecordRecovery(c) ==
    /\ Step(c, "unrecovered", "ended")
    /\ Record(Transaction("RECOVERY_REQUIRED", c, None))
    /\ UNCHANGED <<decided, record, staged, receipt, envelope, conflicts>>

RecordRecoveryLost(c) ==
    /\ MayFail("record")
    /\ Step(c, "unrecovered", "ended")
    /\ UNCHANGED <<decided, record, staged, receipt, transaction, envelope,
                   conflicts>>

-----------------------------------------------------------------------------
(* A result with a receipt                                                 *)

\* What a call about the preserved receipt finds before it writes.
Replayable ==
    /\ record = Target(status[receipt])
    /\ Related(receipt, receipt)
    /\ transaction.state \in {"PREPARED", "RECOVERY_REQUIRED", "COMMITTED"}

\* The same content again: the preserved receipt is returned, after an
\* unfinished transaction has been committed.
Replay(c) ==
    /\ MayBegin(c)
    /\ Step(c, "idle", "ended")
    /\ receipt # None
    /\ Replayable
    /\ transaction' = IF transaction.state = "COMMITTED" THEN transaction
                      ELSE Committed(receipt)
    /\ UNCHANGED <<decided, record, staged, receipt, envelope, conflicts>>

\* Another content under the same result id: a conflict receipt, once, staged
\* in the temporary receipt file.
RecordConflict(c, r) ==
    /\ MayBegin(c)
    /\ Step(c, "idle", "ended")
    /\ receipt # None
    /\ record = Target(status[receipt])
    /\ r # result[receipt]
    /\ conflicts' = conflicts \cup {r}
    /\ staged' = IF r \in conflicts THEN staged ELSE None
    /\ UNCHANGED <<decided, record, receipt, transaction, envelope>>

\* Invoke-TsfHqDispatchQueueReconcileV1.ps1: a record that stayed behind a
\* committed receipt is moved after it.
ReconcileQueue ==
    /\ transaction.state = "COMMITTED"
    /\ receipt # None
    /\ Related(receipt, receipt)
    /\ record \in {Source, Target(status[receipt])}
    /\ record' = Target(status[receipt])
    /\ UNCHANGED <<pc, decided, staged, receipt, transaction, envelope,
                   conflicts>>

-----------------------------------------------------------------------------
Crash(c) ==
    /\ Crashes
    /\ Active(c)
    /\ pc' = [pc EXCEPT ![c] = "ended"]
    /\ UNCHANGED <<decided, record, staged, receipt, transaction, envelope,
                   conflicts>>

Begin(c) ==
    \/ Refuse(c) \/ Replay(c)
    \/ \E r \in Results : RecordConflict(c, r)
    \/ \E r \in Results, s \in Statuses : Decide(c, r, s)
Admit(c) ==
    \/ Stage(c) \/ Prepare(c) \/ MoveRecord(c) \/ FinalizeReceipt(c)
    \/ Commit(c) \/ Verify(c)
Fail(c) ==
    \/ StageFails(c) \/ PrepareFails(c) \/ MoveFails(c) \/ FinalizeFails(c)
    \/ CommitFails(c) \/ VerifyFails(c)
Catch(c) ==
    \/ RecordFailure(c) \/ RecordFailureLost(c)
    \/ WriteEnvelope(c) \/ EnvelopeFails(c) \/ MoveBack(c) \/ MoveBackFails(c)
    \/ RecordRollback(c) \/ RecordRollbackFails(c)
    \/ RecordRecovery(c) \/ RecordRecoveryLost(c)

Next ==
    \/ ReconcileQueue
    \/ \E c \in Calls : Begin(c) \/ Admit(c) \/ Fail(c) \/ Catch(c) \/ Crash(c)

Spec == Init /\ [][Next]_vars

-----------------------------------------------------------------------------
(* Safety, with one call at a time                                         *)

\* A COMMITTED transaction is complete, through every failure and crash: the
\* receipt it hashes is preserved and the record is where the receipt says
\* (the commit follows the rename and the move).
CommittedIsComplete ==
    transaction.state = "COMMITTED" =>
        /\ receipt # None
        /\ Related(receipt, receipt)
        /\ record = Target(status[receipt])

\* A record that left postrun_pending is accounted for: an open or committed
\* transaction sent it exactly there, and no transaction calls it rolled back
\* (the PREPARED transaction is written before the move, and the catch looks
\* at how far the call came).
AdvanceIsAccountedFor ==
    record # Source =>
        /\ transaction.state \in {"PREPARED", "RECOVERY_REQUIRED", "COMMITTED"}
        /\ record = Target(status[transaction.by])

\* Once a receipt is preserved, an exact resubmission can return it and commit
\* what was left open, wherever an earlier call failed or died.
ReceiptReplays == receipt # None => Replayable

\* A preserved receipt and the record it moved are final: no resubmission, no
\* conflicting content, no reconciliation and no rollback changes them.
ReceiptIsFinal ==
    [][receipt # None => UNCHANGED <<receipt, record>>]_<<receipt, record>>

\* The files together implement the ledger a reader of the receipt relies on.
Ledger == INSTANCE AdmissionLedger
    WITH decision <- IF receipt = None THEN None ELSE status[receipt],
         place <- record
ImplementsLedger == Ledger!Spec

-----------------------------------------------------------------------------
(* What documents and tests say of it, and the code does not do            *)

\* ADMISSION_DECISION_CONTRACT.md: "Exact resubmission of the same result ID
\* and hash returns the preserved receipt".  A call that overlapped the one
\* that committed leaves a ROLLED_BACK transaction beside the receipt.
ResubmissionReturnsReceipt ==
    (receipt # None /\ \A c \in Calls : ~Active(c)) => Replayable
=============================================================================
