------------------------ MODULE ServerOwnershipProofs ------------------------
(***************************************************************************)
(* Proofs about ServerOwnership, for any number of instances and           *)
(* recoveries.  Two arguments: while nothing is recovered, the token that  *)
(* "wx" creates excludes a second claimant, however starts interleave; and *)
(* while commands come one at a time, record and token name the live       *)
(* instance, whatever crashed before it.  For the second a recovery must   *)
(* see what is alive; without recoveries looks may miss.                   *)
(***************************************************************************)
EXTENDS ServerOwnership, TLAPS

-----------------------------------------------------------------------------
(* Types                                                                   *)

LEMMA InitTyped == ASSUME OwnershipAssumption, Init PROVE TypeOK
BY DEF Init, TypeOK

LEMMA StartTyped ==
    ASSUME OwnershipAssumption, TypeOK, NEW i \in Instances, Start(i)
    PROVE  TypeOK'
<1> USE DEF TypeOK, Step, Processes, Starting, Serving, Stopping, Releasing,
            Recovering, files, recoveryVars
<1>1. CASE Doctor(i) BY <1>1 DEF Doctor
<1>2. CASE ChecksRecord(i) BY <1>2 DEF ChecksRecord
<1>3. CASE ChecksToken(i) BY <1>3 DEF ChecksToken
<1>4. CASE RechecksRecord(i) BY <1>4 DEF RechecksRecord
<1>5. CASE StartRefused(i) BY <1>5 DEF StartRefused
<1>6. CASE RenamesRecord(i) BY <1>6 DEF RenamesRecord
<1>7. CASE WritesToken(i) BY <1>7 DEF WritesToken, TokenCreated
<1>8. CASE WritesTokenFails(i) BY <1>8 DEF WritesTokenFails
<1>9. CASE Listens(i) BY <1>9 DEF Listens
<1>10. CASE ListensFails(i) BY <1>10 DEF ListensFails
<1>11. CASE Activates(i) BY <1>11 DEF Activates
<1>12. CASE ActivatesFails(i) BY <1>12 DEF ActivatesFails
<1> QED BY <1>1, <1>2, <1>3, <1>4, <1>5, <1>6, <1>7, <1>8, <1>9, <1>10,
           <1>11, <1>12 DEF Start

LEMMA ServeTyped ==
    ASSUME OwnershipAssumption, TypeOK, NEW i \in Instances, Serve(i)
    PROVE  TypeOK'
<1> USE DEF TypeOK, Step, Processes, Starting, Serving, Stopping, Releasing,
            Recovering, files, recoveryVars
<1>1. CASE Updates(i) BY <1>1 DEF Updates
<1>2. CASE UpdateWrites(i) BY <1>2 DEF UpdateWrites
<1>3. CASE StopRequested(i) BY <1>3 DEF StopRequested
<1>4. CASE MarksStopping(i) BY <1>4 DEF MarksStopping
<1>5. CASE Drains(i) BY <1>5 DEF Drains
<1> QED BY <1>1, <1>2, <1>3, <1>4, <1>5 DEF Serve

LEMMA ReleaseTyped ==
    ASSUME OwnershipAssumption, TypeOK, NEW i \in Instances, Release(i)
    PROVE  TypeOK'
<1> USE DEF TypeOK, Step, Processes, Starting, Serving, Stopping, Releasing,
            Recovering, files, recoveryVars
<1>1. CASE ReadsOwnRecord(i) BY <1>1 DEF ReadsOwnRecord
<1>2. CASE KeepsRecord(i) BY <1>2 DEF KeepsRecord
<1>3. CASE RemovesRecord(i) BY <1>3 DEF RemovesRecord
<1>4. CASE ReadsToken(i) BY <1>4 DEF ReadsToken
<1>5. CASE RemovesToken(i) BY <1>5 DEF RemovesToken
<1>6. CASE Exits(i) BY <1>6 DEF Exits
<1> QED BY <1>1, <1>2, <1>3, <1>4, <1>5, <1>6 DEF Release

\* A receipt is only ever written for a record that was there.
JudgedIsRead ==
    \A r \in Recoveries :
        pc[r] \in {"judged", "unreceipted", "receipted"} => judged[r] # None

LEMMA RecoverTyped ==
    ASSUME OwnershipAssumption, TypeOK, JudgedIsRead, NEW r \in Recoveries,
           Recover(r)
    PROVE  TypeOK'
<1> USE DEF TypeOK, Step, Processes, Starting, Serving, Stopping, Releasing,
            Recovering, files, recoveryVars
<1>1. CASE RecoveryReads(r) BY <1>1 DEF RecoveryReads
<1>2. CASE RecoveryJudges(r) BY <1>2 DEF RecoveryJudges
<1>3. CASE RecoveryChecksReceipt(r) BY <1>3 DEF RecoveryChecksReceipt
<1>4. CASE RecoveryRefused(r) BY <1>4 DEF RecoveryRefused
<1>5. CASE RecoveryWritesReceipt(r)
    BY <1>5 DEF RecoveryWritesReceipt, JudgedIsRead
<1>6. CASE RecoveryRemovesRecord(r) BY <1>6 DEF RecoveryRemovesRecord
<1>7. CASE RecoveryRemovesToken(r)
    BY <1>7 DEF RecoveryRemovesToken, TokenCleared
<1> QED BY <1>1, <1>2, <1>3, <1>4, <1>5, <1>6, <1>7 DEF Recover

LEMMA RecoveryReadsFirst ==
    ASSUME OwnershipAssumption, TypeOK, JudgedIsRead, Next
    PROVE  JudgedIsRead'
<1> USE DEF TypeOK, JudgedIsRead, Step, Processes, OwnershipAssumption,
            recoveryVars
<1>1. CASE \E i \in Instances : Start(i) \/ Serve(i) \/ Release(i)
    <2>1. PICK i \in Instances : Start(i) \/ Serve(i) \/ Release(i) BY <1>1
    <2>2. judged' = judged
        BY <2>1 DEF Start, Doctor, ChecksRecord, ChecksToken, RechecksRecord,
           StartRefused, RenamesRecord, WritesToken, WritesTokenFails, Listens,
           ListensFails, Activates, ActivatesFails, Serve, Updates,
           UpdateWrites, StopRequested, MarksStopping, Drains,
           Release, ReadsOwnRecord, KeepsRecord, RemovesRecord, ReadsToken,
           RemovesToken, Exits
    <2>3. \A r \in Recoveries : pc'[r] = pc[r]
        BY <2>1 DEF Start, Doctor, ChecksRecord, ChecksToken, RechecksRecord,
           StartRefused, RenamesRecord, WritesToken, WritesTokenFails, Listens,
           ListensFails, Activates, ActivatesFails, Serve, Updates,
           UpdateWrites, StopRequested, MarksStopping, Drains,
           Release, ReadsOwnRecord, KeepsRecord, RemovesRecord, ReadsToken,
           RemovesToken, Exits
    <2> QED BY <2>2, <2>3
<1>2. CASE \E r \in Recoveries : Recover(r)
    <2>1. PICK r \in Recoveries : Recover(r) BY <1>2
    <2>2. CASE RecoveryReads(r) BY <2>2 DEF RecoveryReads
    <2>3. CASE RecoveryJudges(r) BY <2>3 DEF RecoveryJudges, JudgedStale
    <2>4. CASE RecoveryChecksReceipt(r) BY <2>4 DEF RecoveryChecksReceipt
    <2>5. CASE RecoveryRefused(r) BY <2>5 DEF RecoveryRefused
    <2>6. CASE RecoveryWritesReceipt(r) BY <2>6 DEF RecoveryWritesReceipt
    <2>7. CASE RecoveryRemovesRecord(r) BY <2>7 DEF RecoveryRemovesRecord
    <2>8. CASE RecoveryRemovesToken(r) BY <2>8 DEF RecoveryRemovesToken
    <2> QED BY <2>1, <2>2, <2>3, <2>4, <2>5, <2>6, <2>7, <2>8 DEF Recover
<1>3. CASE \E p \in Processes : Crash(p) BY <1>3 DEF Crash
<1> QED BY <1>1, <1>2, <1>3 DEF Next

\* Every variable keeps its type.
THEOREM TypeCorrect == Spec => []TypeOK
<1>1. Init => TypeOK /\ JudgedIsRead
    BY InitTyped, OwnershipAssumption DEF Init, JudgedIsRead, Processes
<1>2. TypeOK /\ JudgedIsRead /\ [Next]_vars => (TypeOK /\ JudgedIsRead)'
    <2> SUFFICES ASSUME TypeOK, JudgedIsRead, [Next]_vars
                 PROVE  TypeOK' /\ JudgedIsRead'
        OBVIOUS
    <2>1. CASE UNCHANGED vars BY <2>1 DEF vars, TypeOK, JudgedIsRead
    <2>2. CASE \E p \in Processes : Crash(p)
        BY <2>2 DEF Crash, TypeOK, JudgedIsRead, files, recoveryVars
    <2> QED
        BY <2>1, <2>2, StartTyped, ServeTyped, ReleaseTyped, RecoverTyped,
           RecoveryReadsFirst, OwnershipAssumption DEF Next
<1> QED BY <1>1, <1>2, PTL DEF Spec

-----------------------------------------------------------------------------
(* Without recoveries: the token excludes                                  *)

\* The token on disk is that of any instance past the claim, and of the one
\* that is about to remove it, alive or dead.
TokenHeld ==
    \A i \in Instances : pc[i] \in PastClaim \cup {"untokening"} => token = i

LEMMA TokenHeldStep ==
    ASSUME OwnershipAssumption, Recoveries = {}, TypeOK, TokenHeld, Next
    PROVE  TokenHeld'
<1> USE DEF TypeOK, TokenHeld, PastClaim, Serving, Stopping, Step, Processes,
            files
<1>1. CASE \E i \in Instances : Start(i)
    <2>1. PICK i \in Instances : Start(i) BY <1>1
    <2>2. CASE WritesToken(i)
        BY <2>2 DEF WritesToken, TokenCreated, OwnershipAssumption
    <2>3. CASE ~WritesToken(i)
        BY <2>1, <2>3 DEF Start, Doctor, ChecksRecord, ChecksToken,
           RechecksRecord, StartRefused, RenamesRecord, WritesTokenFails,
           Listens, ListensFails, Activates, ActivatesFails
    <2> QED BY <2>2, <2>3
<1>2. CASE \E i \in Instances : Serve(i)
    BY <1>2 DEF Serve, Updates, UpdateWrites, StopRequested, MarksStopping, Drains
<1>3. CASE \E i \in Instances : Release(i)
    <2>1. PICK i \in Instances : Release(i) BY <1>3
    <2>2. CASE ReadsToken(i) BY <2>2 DEF ReadsToken
    <2>3. CASE RemovesToken(i) BY <2>3 DEF RemovesToken
    <2>4. CASE ~ReadsToken(i) /\ ~RemovesToken(i)
        BY <2>1, <2>4 DEF Release, ReadsOwnRecord, KeepsRecord, RemovesRecord,
           Exits
    <2> QED BY <2>2, <2>3, <2>4
<1>4. CASE \E p \in Processes : Crash(p) BY <1>4 DEF Crash
<1> QED BY <1>1, <1>2, <1>3, <1>4 DEF Next

\* While nothing is recovered, two live instances are never both past the
\* claim: for any number of starts, however they overlap, wherever they die,
\* and whatever the looks at processes and at the port miss.
THEOREM ClaimExcludes ==
    ASSUME Recoveries = {}
    PROVE  Spec => []OneClaimant
<1>1. Init => TokenHeld
    BY DEF Init, TokenHeld, PastClaim, Serving, Stopping, Processes
<1>2. TypeOK /\ TokenHeld /\ [Next]_vars => TokenHeld'
    <2>1. UNCHANGED vars /\ TokenHeld => TokenHeld' BY DEF vars, TokenHeld
    <2> QED BY <2>1, TokenHeldStep, OwnershipAssumption
<1>3. TypeOK /\ TokenHeld => OneClaimant BY DEF TokenHeld, OneClaimant
<1> QED BY <1>1, <1>2, <1>3, TypeCorrect, PTL DEF Spec

-----------------------------------------------------------------------------
(* Commands one at a time                                                  *)

\* No two commands overlap; and where a look at a process may fail, nothing is
\* recovered: a recovery acts on what the look says, nothing else depends on it.
Serial == ~Overlap /\ (Blind => Recoveries = {})

Holding == {"recorded"} \cup PastClaim \cup {"releasing", "unrecording"}

OneCommand ==
    \A p, q \in Processes : Commanding(p) /\ Commanding(q) => p = q

\* From the rename on, until it removes the record itself.
RecordHeld ==
    \A i \in Instances : Live(i) /\ pc[i] \in Holding => record = i

TokenHeldLive ==
    \A i \in Instances :
        Live(i) /\ pc[i] \in PastClaim \cup {"untokening"} => token = i

\* What a start has seen absent is still absent.
ChecksHold ==
    \A i \in Instances : Live(i) =>
        /\ pc[i] \in {"checked", "tokenless", "rechecked"} => record = None
        /\ pc[i] \in {"tokenless", "rechecked"} => token = None

\* What a recovery has read can only disappear, and once judged stale it
\* stays until the recovery removes it.
JudgmentHolds ==
    \A r \in Recoveries : Live(r) =>
        /\ pc[r] = "reading" => judged[r] # None /\ record \in {judged[r], None}
        /\ pc[r] \in {"judged", "unreceipted", "receipted"} =>
               record = judged[r] /\ judged[r] # None /\ ~Live(judged[r])
        /\ pc[r] = "removed" => record = None

\* A live instance that is done with its record and still has its token meets
\* no other record, and no recovery about to clear the token.
HalfRemovedAlone ==
    \A i \in Instances :
        Live(i) /\ pc[i] \in {"unrecorded", "untokening"} /\ token = i =>
            /\ record \in {None, i}
            /\ \A r \in Recoveries : Live(r) => pc[r] # "removed"

SerialParts ==
    /\ OneCommand
    /\ RecordHeld
    /\ TokenHeldLive
    /\ ChecksHold
    /\ JudgmentHolds
    /\ HalfRemovedAlone
SerialInv == TypeOK /\ SerialParts

LEMMA StartSerial ==
    ASSUME OwnershipAssumption, Serial, SerialInv,
           NEW i \in Instances, Start(i)
    PROVE  SerialParts'
<1> USE OwnershipAssumption DEF Serial, SerialInv, SerialParts, TypeOK, OneCommand,
        RecordHeld, TokenHeldLive, ChecksHold, JudgmentHolds,
        HalfRemovedAlone, Holding, PastClaim, Commanding, MayCommand, Live,
        Step, Processes, Starting, Serving, Stopping, Recovering, files,
        recoveryVars
<1>1. CASE Doctor(i) BY <1>1 DEF Doctor
<1>2. CASE ChecksRecord(i) BY <1>2 DEF ChecksRecord
<1>3. CASE ChecksToken(i) BY <1>3 DEF ChecksToken
<1>4. CASE RechecksRecord(i) BY <1>4 DEF RechecksRecord
<1>5. CASE StartRefused(i) BY <1>5 DEF StartRefused
<1>6. CASE RenamesRecord(i) BY <1>6 DEF RenamesRecord
<1>7. CASE WritesToken(i) BY <1>7 DEF WritesToken, TokenCreated
<1>8. CASE WritesTokenFails(i) BY <1>8 DEF WritesTokenFails
<1>9. CASE Listens(i) BY <1>9 DEF Listens
<1>10. CASE ListensFails(i) BY <1>10 DEF ListensFails
<1>11. CASE Activates(i) BY <1>11 DEF Activates
<1>12. CASE ActivatesFails(i) BY <1>12 DEF ActivatesFails
<1> QED BY <1>1, <1>2, <1>3, <1>4, <1>5, <1>6, <1>7, <1>8, <1>9, <1>10, <1>11,
           <1>12 DEF Start

LEMMA ServeSerial ==
    ASSUME OwnershipAssumption, Serial, SerialInv,
           NEW i \in Instances, Serve(i)
    PROVE  SerialParts'
<1> USE OwnershipAssumption DEF Serial, SerialInv, SerialParts, TypeOK, OneCommand,
        RecordHeld, TokenHeldLive, ChecksHold, JudgmentHolds,
        HalfRemovedAlone, Holding, PastClaim, Commanding, MayCommand, Live,
        Step, Processes, Starting, Serving, Stopping, Recovering, files,
        recoveryVars
<1>1. CASE Updates(i) BY <1>1 DEF Updates
<1>2. CASE UpdateWrites(i) BY <1>2 DEF UpdateWrites
<1>3. CASE StopRequested(i) BY <1>3 DEF StopRequested
<1>4. CASE MarksStopping(i) BY <1>4 DEF MarksStopping
<1>5. CASE Drains(i) BY <1>5 DEF Drains
<1> QED BY <1>1, <1>2, <1>3, <1>4, <1>5 DEF Serve

LEMMA ReleaseSerial ==
    ASSUME OwnershipAssumption, Serial, SerialInv,
           NEW i \in Instances, Release(i)
    PROVE  SerialParts'
<1> USE OwnershipAssumption DEF Serial, SerialInv, SerialParts, TypeOK, OneCommand,
        RecordHeld, TokenHeldLive, ChecksHold, JudgmentHolds,
        HalfRemovedAlone, Holding, PastClaim, Commanding, MayCommand, Live,
        Step, Processes, Starting, Serving, Stopping, Recovering, files,
        recoveryVars
<1>1. CASE ReadsOwnRecord(i) BY <1>1 DEF ReadsOwnRecord
<1>2. CASE KeepsRecord(i) BY <1>2 DEF KeepsRecord, MissesProcess
<1>3. CASE RemovesRecord(i) BY <1>3 DEF RemovesRecord
<1>4. CASE ReadsToken(i) BY <1>4 DEF ReadsToken
<1>5. CASE RemovesToken(i) BY <1>5 DEF RemovesToken
<1>6. CASE Exits(i) BY <1>6 DEF Exits
<1> QED BY <1>1, <1>2, <1>3, <1>4, <1>5, <1>6 DEF Release

LEMMA RecoverSerial ==
    ASSUME OwnershipAssumption, Serial, SerialInv,
           NEW r \in Recoveries, Recover(r)
    PROVE  SerialParts'
<1> USE OwnershipAssumption DEF Serial, SerialInv, SerialParts, TypeOK, OneCommand,
        RecordHeld, TokenHeldLive, ChecksHold, JudgmentHolds,
        HalfRemovedAlone, Holding, PastClaim, Commanding, MayCommand, Live,
        Step, Processes, Starting, Serving, Stopping, Recovering, files,
        recoveryVars
<1>1. CASE RecoveryReads(r) BY <1>1 DEF RecoveryReads
<1>2. CASE RecoveryJudges(r) BY <1>2 DEF RecoveryJudges, JudgedStale, MissesProcess
<1>3. CASE RecoveryChecksReceipt(r) BY <1>3 DEF RecoveryChecksReceipt
<1>4. CASE RecoveryRefused(r) BY <1>4 DEF RecoveryRefused
<1>5. CASE RecoveryWritesReceipt(r) BY <1>5 DEF RecoveryWritesReceipt
<1>6. CASE RecoveryRemovesRecord(r) BY <1>6 DEF RecoveryRemovesRecord
<1>7. CASE RecoveryRemovesToken(r) BY <1>7 DEF RecoveryRemovesToken, TokenCleared
<1> QED BY <1>1, <1>2, <1>3, <1>4, <1>5, <1>6, <1>7 DEF Recover

LEMMA CrashSerial ==
    ASSUME OwnershipAssumption, SerialInv, NEW c \in Processes, Crash(c)
    PROVE  SerialParts'
BY DEF Crash, SerialInv, SerialParts, OneCommand, RecordHeld, TokenHeldLive,
   ChecksHold, JudgmentHolds, HalfRemovedAlone, Commanding, Live, files,
   recoveryVars

LEMMA InitSerial == ASSUME OwnershipAssumption, Init PROVE SerialParts
BY DEF Init, SerialParts, OneCommand, RecordHeld, TokenHeldLive, ChecksHold,
   JudgmentHolds, HalfRemovedAlone, Commanding, Live, Processes

LEMMA SerialInvariance ==
    ASSUME Serial
    PROVE  Spec => []SerialInv
<1>1. Init => SerialParts BY InitSerial, OwnershipAssumption
<1>2. TypeOK /\ SerialParts /\ [Next]_vars => SerialParts'
    <2> SUFFICES ASSUME TypeOK, SerialParts, [Next]_vars PROVE SerialParts'
        OBVIOUS
    <2>1. CASE UNCHANGED vars
        BY <2>1 DEF vars, SerialParts, OneCommand, RecordHeld, TokenHeldLive,
           ChecksHold, JudgmentHolds, HalfRemovedAlone, Commanding, Live
    <2> QED
        BY <2>1, StartSerial, ServeSerial, ReleaseSerial, RecoverSerial,
           CrashSerial, OwnershipAssumption DEF Next, SerialInv
<1>3. TypeOK /\ SerialParts => SerialInv BY DEF SerialInv
<1> QED BY <1>1, <1>2, <1>3, TypeCorrect, PTL DEF Spec

\* With commands one at a time, and looks at processes that do not fail or
\* nothing recovered, the instance that serves or stops finds its own record
\* and token, for any number of instances, crashes and recoveries.
THEOREM ServersAreRecorded ==
    ASSUME Serial
    PROVE  Spec => []ServingIsRecorded
<1>1. SerialInv => ServingIsRecorded
    BY DEF SerialInv, SerialParts, RecordHeld, TokenHeldLive, Holding,
       PastClaim, ServingIsRecorded
<1> QED BY <1>1, SerialInvariance, PTL

\* Under the same conditions two live instances are never both past the claim,
\* though recoveries clear tokens between them.
THEOREM ClaimExcludesSerially ==
    ASSUME Serial
    PROVE  Spec => []OneClaimant
<1>1. SerialInv => OneClaimant
    BY DEF SerialInv, SerialParts, TokenHeldLive, OneClaimant
<1> QED BY <1>1, SerialInvariance, PTL

\* Under the same conditions no step removes the record of a live instance
\* but the one by which that instance releases it.
THEOREM OwnersRemoveAlone ==
    ASSUME Serial
    PROVE  Spec => OnlyOwnerRemoves
<1> DEFINE Keeps ==
        \A i \in Instances :
            record = i /\ Live(i) /\ record' = None => pc[i] = "unrecording"
<1>1. SerialInv /\ [Next]_vars => [Keeps]_vars
    <2> SUFFICES ASSUME SerialInv, Next, NEW i \in Instances,
                        record = i, Live(i), record' = None
                 PROVE  pc[i] = "unrecording"
        OBVIOUS
    <2>1. record # None BY OwnershipAssumption DEF Processes
    <2>2. ASSUME NEW j \in Instances, RemovesRecord(j)
          PROVE  pc[i] = "unrecording"
        BY <2>2 DEF SerialInv, SerialParts, RecordHeld, Holding, Live,
           RemovesRecord, Step
    <2>3. ASSUME NEW r \in Recoveries, RecoveryRemovesRecord(r) PROVE FALSE
        BY <2>3 DEF SerialInv, SerialParts, JudgmentHolds, Live,
           RecoveryRemovesRecord, Step
    <2>4. ASSUME NEW j \in Instances,
                 Start(j) \/ Serve(j) \/ (Release(j) /\ ~RemovesRecord(j))
          PROVE  FALSE
        BY <2>1, <2>4, OwnershipAssumption
           DEF Processes, files, Start, Doctor, ChecksRecord, ChecksToken,
           RechecksRecord, StartRefused, RenamesRecord, WritesToken,
           WritesTokenFails, Listens, ListensFails, Activates, ActivatesFails,
           Serve, Updates, UpdateWrites, StopRequested, MarksStopping, Drains, Release, ReadsOwnRecord, KeepsRecord,
           ReadsToken, RemovesToken, Exits
    <2>5. ASSUME NEW r \in Recoveries, Recover(r), ~RecoveryRemovesRecord(r)
          PROVE  FALSE
        BY <2>1, <2>5 DEF files, Recover, RecoveryReads, RecoveryJudges,
           RecoveryChecksReceipt, RecoveryRefused, RecoveryWritesReceipt,
           RecoveryRemovesToken
    <2>6. ASSUME NEW c \in Processes, Crash(c) PROVE FALSE
        BY <2>1, <2>6 DEF Crash, files
    <2> QED BY <2>2, <2>3, <2>4, <2>5, <2>6 DEF Next
<1> QED BY <1>1, SerialInvariance, PTL DEF Spec, OnlyOwnerRemoves, Keeps
-----------------------------------------------------------------------------
(* What a crash leaves behind                                              *)

\* From the claim to the end of its release an instance has the token alone.
TokenKept ==
    \A i \in Instances : Live(i) =>
        /\ pc[i] = "recorded" => token = None
        /\ pc[i] \in {"releasing", "unrecording", "unrecorded"} => token = i

\* A record is that of an instance that was started, and a receipt that of one
\* that is over.
RecordStarted == record # None => pc[record] # "idle"
ReceiptedIsOver == \A i \in receipts : ~Live(i) /\ pc[i] # "idle"

LeftoverParts ==
    /\ TokenKept
    /\ RecordStarted
    /\ ReceiptedIsOver
    /\ LeftoversAreHalfRemoved
LeftoverInv == SerialInv /\ LeftoverParts

LEMMA StartLeaves ==
    ASSUME OwnershipAssumption, Serial, LeftoverInv,
           NEW i \in Instances, Start(i)
    PROVE  LeftoverParts'
<1> USE OwnershipAssumption DEF Serial, LeftoverInv, LeftoverParts, TokenKept,
        RecordStarted, ReceiptedIsOver, LeftoversAreHalfRemoved,
        TokenLeftBehind, ReceiptedRecordLeftBehind, SerialInv, SerialParts,
        TypeOK, OneCommand, RecordHeld, TokenHeldLive, ChecksHold, Holding,
        PastClaim, Commanding, MayCommand, Live, Step, Processes, Starting,
        Serving, Stopping, Recovering, files, recoveryVars
<1>1. CASE Doctor(i) BY <1>1 DEF Doctor
<1>2. CASE ChecksRecord(i) BY <1>2 DEF ChecksRecord
<1>3. CASE ChecksToken(i) BY <1>3 DEF ChecksToken
<1>4. CASE RechecksRecord(i) BY <1>4 DEF RechecksRecord
<1>5. CASE StartRefused(i) BY <1>5 DEF StartRefused
<1>6. CASE RenamesRecord(i) BY <1>6 DEF RenamesRecord
<1>7. CASE WritesToken(i) BY <1>7 DEF WritesToken, TokenCreated
<1>8. CASE WritesTokenFails(i) BY <1>8 DEF WritesTokenFails
<1>9. CASE Listens(i) BY <1>9 DEF Listens
<1>10. CASE ListensFails(i) BY <1>10 DEF ListensFails
<1>11. CASE Activates(i) BY <1>11 DEF Activates
<1>12. CASE ActivatesFails(i) BY <1>12 DEF ActivatesFails
<1> QED BY <1>1, <1>2, <1>3, <1>4, <1>5, <1>6, <1>7, <1>8, <1>9, <1>10, <1>11,
           <1>12 DEF Start

LEMMA ServeLeaves ==
    ASSUME OwnershipAssumption, Serial, LeftoverInv,
           NEW i \in Instances, Serve(i)
    PROVE  LeftoverParts'
<1> USE OwnershipAssumption DEF Serial, LeftoverInv, LeftoverParts, TokenKept,
        RecordStarted, ReceiptedIsOver, LeftoversAreHalfRemoved,
        TokenLeftBehind, ReceiptedRecordLeftBehind, SerialInv, SerialParts,
        TypeOK, RecordHeld, TokenHeldLive, Holding, PastClaim, Live, Step,
        Processes, Starting, Serving, Stopping, Recovering, files,
        recoveryVars
<1>1. CASE Updates(i) BY <1>1 DEF Updates
<1>2. CASE UpdateWrites(i) BY <1>2 DEF UpdateWrites
<1>3. CASE StopRequested(i) BY <1>3 DEF StopRequested
<1>4. CASE MarksStopping(i) BY <1>4 DEF MarksStopping
<1>5. CASE Drains(i) BY <1>5 DEF Drains
<1> QED BY <1>1, <1>2, <1>3, <1>4, <1>5 DEF Serve

LEMMA ReleaseLeaves ==
    ASSUME OwnershipAssumption, Serial, LeftoverInv,
           NEW i \in Instances, Release(i)
    PROVE  LeftoverParts'
<1> USE OwnershipAssumption DEF Serial, LeftoverInv, LeftoverParts, TokenKept,
        RecordStarted, ReceiptedIsOver, LeftoversAreHalfRemoved,
        TokenLeftBehind, ReceiptedRecordLeftBehind, SerialInv, SerialParts,
        TypeOK, RecordHeld, TokenHeldLive, Holding, PastClaim, Live, Step,
        Processes, Starting, Serving, Stopping, Recovering, files,
        recoveryVars
<1>1. CASE ReadsOwnRecord(i) BY <1>1 DEF ReadsOwnRecord
<1>2. CASE KeepsRecord(i) BY <1>2 DEF KeepsRecord, MissesProcess
<1>3. CASE RemovesRecord(i) BY <1>3 DEF RemovesRecord
<1>4. CASE ReadsToken(i) BY <1>4 DEF ReadsToken
<1>5. CASE RemovesToken(i) BY <1>5 DEF RemovesToken
<1>6. CASE Exits(i) BY <1>6 DEF Exits
<1> QED BY <1>1, <1>2, <1>3, <1>4, <1>5, <1>6 DEF Release

LEMMA RecoverLeaves ==
    ASSUME OwnershipAssumption, Serial, LeftoverInv,
           NEW r \in Recoveries, Recover(r)
    PROVE  LeftoverParts'
<1> USE OwnershipAssumption DEF Serial, LeftoverInv, LeftoverParts, TokenKept,
        RecordStarted, ReceiptedIsOver, LeftoversAreHalfRemoved,
        TokenLeftBehind, ReceiptedRecordLeftBehind, SerialInv, SerialParts,
        TypeOK, RecordHeld, TokenHeldLive, JudgmentHolds, HalfRemovedAlone,
        Holding, PastClaim, Live, Step, Processes, Starting, Serving,
        Stopping, Recovering, files, recoveryVars
<1>1. CASE RecoveryReads(r) BY <1>1 DEF RecoveryReads
<1>2. CASE RecoveryJudges(r) BY <1>2 DEF RecoveryJudges, JudgedStale, MissesProcess
<1>3. CASE RecoveryChecksReceipt(r) BY <1>3 DEF RecoveryChecksReceipt
<1>4. CASE RecoveryRefused(r) BY <1>4 DEF RecoveryRefused
<1>5. CASE RecoveryWritesReceipt(r) BY <1>5 DEF RecoveryWritesReceipt
<1>6. CASE RecoveryRemovesRecord(r) BY <1>6 DEF RecoveryRemovesRecord
<1>7. CASE RecoveryRemovesToken(r) BY <1>7 DEF RecoveryRemovesToken, TokenCleared
<1> QED BY <1>1, <1>2, <1>3, <1>4, <1>5, <1>6, <1>7 DEF Recover

LEMMA CrashLeaves ==
    ASSUME OwnershipAssumption, LeftoverInv, NEW c \in Processes, Crash(c)
    PROVE  LeftoverParts'
BY DEF Crash, LeftoverInv, LeftoverParts, TokenKept, RecordStarted,
   ReceiptedIsOver, LeftoversAreHalfRemoved, TokenLeftBehind,
   ReceiptedRecordLeftBehind, Live, files, recoveryVars

\* Under the same conditions whatever a crash leaves behind was half removed:
\* a token without a record, or a record a recovery already has its receipt of.
THEOREM LeftoversExplained ==
    ASSUME Serial
    PROVE  Spec => []LeftoversAreHalfRemoved
<1>1. Init => LeftoverParts
    BY OwnershipAssumption DEF Init, LeftoverParts, TokenKept, RecordStarted,
       ReceiptedIsOver, LeftoversAreHalfRemoved, TokenLeftBehind,
       ReceiptedRecordLeftBehind, Live, Processes
<1>2. SerialInv /\ LeftoverParts /\ [Next]_vars => LeftoverParts'
    <2> SUFFICES ASSUME SerialInv, LeftoverParts, [Next]_vars
                 PROVE  LeftoverParts'
        OBVIOUS
    <2>1. CASE UNCHANGED vars
        BY <2>1 DEF vars, LeftoverParts, TokenKept, RecordStarted,
           ReceiptedIsOver, LeftoversAreHalfRemoved, TokenLeftBehind,
           ReceiptedRecordLeftBehind, Live
    <2> QED
        BY <2>1, StartLeaves, ServeLeaves, ReleaseLeaves, RecoverLeaves,
           CrashLeaves, OwnershipAssumption DEF Next, LeftoverInv
<1>3. LeftoverParts => LeftoversAreHalfRemoved BY DEF LeftoverParts
<1> QED BY <1>1, <1>2, <1>3, SerialInvariance, PTL DEF Spec
=============================================================================
