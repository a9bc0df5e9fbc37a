--------------------------- MODULE ServerOwnership ---------------------------
(***************************************************************************)
(* Who owns HQ Dispatch: the owner record and the stop token that a server *)
(* claims when it starts and releases when it ends                         *)
(* (tools/hq-dispatch/v1/reliability.mjs, class ProcessOwnership; main and *)
(* shutdown of server.mjs), and the operator's command that clears them    *)
(* after a crash (recoverVerifiedStaleOwnership).                          *)
(*                                                                         *)
(* Every instance and every recovery is a process of its own; nothing but  *)
(* the file system and the port relates them, so a step is one look at     *)
(* either or one change of it.  A process may die between any two steps;   *)
(* its program counter then stays where it was.                            *)
(***************************************************************************)
EXTENDS FiniteSets

CONSTANTS Instances,   \* server processes the operator starts
          Recoveries,  \* runs of recover-stale-owner
          Overlap,     \* whether commands overlap one another
          Crashes,     \* whether processes may die
          Blind,       \* whether looking at a live process may find nothing
          None

Processes == Instances \cup Recoveries

ASSUME OwnershipAssumption ==
    /\ Instances \cap Recoveries = {}
    /\ None \notin Processes
    /\ Overlap \in BOOLEAN
    /\ Crashes \in BOOLEAN
    /\ Blind \in BOOLEAN

VARIABLES
    pc,        \* what a process has done last
    dead,      \* processes that died
    record,    \* the instance owner.json describes
    token,     \* the instance whose stop token is on disk
    listener,  \* the instance that listens on the port
    judged,    \* the instance whose record a recovery has read
    receipts   \* instances whose record has a stale-owner recovery receipt

vars == <<pc, dead, record, token, listener, judged, receipts>>

Starting == {"doctored", "checked", "tokenless", "rechecked", "recorded",
             "claimed", "listening", "activating"}
Serving == {"serving", "updating"}
Stopping == {"stopping", "draining", "rewriting", "wedged", "rewedging"}
Releasing == {"releasing", "unrecording", "unrecorded", "untokening", "released"}
Recovering == {"reading", "judged", "unreceipted", "receipted", "removed"}

TypeOK ==
    /\ pc \in [Processes -> {"idle", "ended"} \cup Starting \cup Serving
                            \cup Stopping \cup Releasing \cup Recovering]
    /\ dead \subseteq Processes
    /\ record \in Instances \cup {None}
    /\ token \in Instances \cup {None}
    /\ listener \in Instances \cup {None}
    /\ judged \in [Recoveries -> Instances \cup {None}]
    /\ receipts \subseteq Instances

Init ==
    /\ pc = [p \in Processes |-> "idle"]
    /\ dead = {}
    /\ record = None
    /\ token = None
    /\ listener = None
    /\ judged = [r \in Recoveries |-> None]
    /\ receipts = {}

-----------------------------------------------------------------------------
Live(p) == pc[p] \notin {"idle", "ended"} /\ p \notin dead
Commanding(p) == Live(p) /\ pc[p] \in Starting \cup Recovering
MayCommand == Overlap \/ \A p \in Processes : ~Commanding(p)

Step(p, from, to) ==
    /\ p \notin dead
    /\ pc[p] = from
    /\ pc' = [pc EXCEPT ![p] = to]
    /\ UNCHANGED dead

\* inspectProcess: a timeout or a failure of PowerShell reads as no process.
MissesProcess(p) == Live(p) => Blind
SeesNoListener == listener = None \/ Blind

recoveryVars == <<judged, receipts>>
files == <<record, token>>

-----------------------------------------------------------------------------
(* Start: the Doctor's gate and claim()                                    *)

\* The gate looks at the port, and at the record with the claim's first check.
Doctor(i) ==
    /\ MayCommand
    /\ Step(i, "idle", "doctored")
    /\ SeesNoListener
    /\ UNCHANGED <<files, listener, recoveryVars>>

ChecksRecord(i) ==
    /\ Step(i, "doctored", "checked")
    /\ record = None
    /\ UNCHANGED <<files, listener, recoveryVars>>

ChecksToken(i) ==
    /\ Step(i, "checked", "tokenless")
    /\ token = None
    /\ UNCHANGED <<files, listener, recoveryVars>>

\* The no-replace check of atomicWriteJson, made after a look at the own
\* process that takes seconds.
RechecksRecord(i) ==
    /\ Step(i, "tokenless", "rechecked")
    /\ record = None
    /\ UNCHANGED <<files, listener, recoveryVars>>

\* A gate of the Doctor is closed, a file exists, or a look fails.
StartRefused(i) ==
    /\ \/ MayCommand /\ Step(i, "idle", "ended")
       \/ Step(i, "doctored", "ended")
       \/ Step(i, "checked", "ended")
       \/ Step(i, "tokenless", "ended")
    /\ UNCHANGED <<files, listener, recoveryVars>>

\* The rename replaces whatever is there.
RenamesRecord(i) ==
    /\ Step(i, "rechecked", "recorded")
    /\ record' = i
    /\ UNCHANGED <<token, listener, recoveryVars>>

\* The token file is opened with "wx".
TokenCreatedAnyway(i) == token' = i              \* mutant: opened with "w"
TokenCreated(i) == token = None /\ token' = i
WritesToken(i) ==
    /\ Step(i, "recorded", "claimed")
    /\ TokenCreated(i)
    /\ UNCHANGED <<record, listener, recoveryVars>>

WritesTokenFails(i) ==
    /\ Step(i, "recorded", "releasing")
    /\ token # None
    /\ UNCHANGED <<files, listener, recoveryVars>>

Listens(i) ==
    /\ Step(i, "claimed", "listening")
    /\ listener = None
    /\ listener' = i
    /\ UNCHANGED <<files, recoveryVars>>

\* The port is taken, by an instance or by an unrelated program.
ListensFails(i) ==
    /\ Step(i, "claimed", "releasing")
    /\ UNCHANGED <<files, listener, recoveryVars>>

-----------------------------------------------------------------------------
(* update(): the record is read, compared and replaced                     *)

Activates(i) ==
    /\ Step(i, "listening", "activating")
    /\ record = i
    /\ UNCHANGED <<files, listener, recoveryVars>>

\* The record is gone or of another instance: the start is given up.
ActivatesFails(i) ==
    /\ Step(i, "listening", "releasing")
    /\ record # i
    /\ listener' = None
    /\ UNCHANGED <<files, recoveryVars>>

\* childStarted, childExited and missionChanged, the last two also while the
\* server stops; a mismatch throws and leaves the record alone.
Updates(i) ==
    /\ \/ Step(i, "serving", "updating")
       \/ Step(i, "draining", "rewriting")
       \/ Step(i, "wedged", "rewedging")
    /\ record = i
    /\ UNCHANGED <<files, listener, recoveryVars>>

UpdateWrites(i) ==
    /\ \/ Step(i, "activating", "serving")
       \/ Step(i, "updating", "serving")
       \/ Step(i, "rewriting", "draining")
       \/ Step(i, "rewedging", "wedged")
    /\ record' = i
    /\ UNCHANGED <<token, listener, recoveryVars>>

-----------------------------------------------------------------------------
(* Shutdown: hqDispatchShutdown(), after a signal or an authentic request  *)

StopRequested(i) ==
    /\ Step(i, "serving", "stopping")
    /\ UNCHANGED <<files, listener, recoveryVars>>

\* stopping() updates the record; a mismatch is swallowed.
MarksStopping(i) ==
    /\ \/ Step(i, "stopping", "rewriting") /\ record = i
       \/ Step(i, "stopping", "draining") /\ record # i
    /\ UNCHANGED <<files, listener, recoveryVars>>

\* The relay's shutdown succeeds, or fails for good: its promise is cached.
Drains(i) ==
    /\ Step(i, "draining", "releasing") \/ Step(i, "draining", "wedged")
    /\ UNCHANGED <<files, listener, recoveryVars>>

-----------------------------------------------------------------------------
(* release(): each file is read, compared and removed                      *)

ReadsOwnRecord(i) ==
    /\ Step(i, "releasing", "unrecording")
    /\ record = i
    /\ UNCHANGED <<files, listener, recoveryVars>>

\* The record is gone, of another instance, or the own process not seen.
KeepsRecord(i) ==
    /\ Step(i, "releasing", "unrecorded")
    /\ record # i \/ MissesProcess(i)
    /\ UNCHANGED <<files, listener, recoveryVars>>

RemovesRecord(i) ==
    /\ Step(i, "unrecording", "unrecorded")
    /\ record' = None
    /\ UNCHANGED <<token, listener, recoveryVars>>

ReadsToken(i) ==
    /\ \/ Step(i, "unrecorded", "untokening") /\ token = i
       \/ Step(i, "unrecorded", "released") /\ token # i
    /\ UNCHANGED <<files, listener, recoveryVars>>

RemovesToken(i) ==
    /\ Step(i, "untokening", "released")
    /\ token' = None
    /\ UNCHANGED <<record, listener, recoveryVars>>

\* The listener is closed last, and the process ends.
Exits(i) ==
    /\ Step(i, "released", "ended")
    /\ listener' = IF listener = i THEN None ELSE listener
    /\ UNCHANGED <<files, recoveryVars>>

-----------------------------------------------------------------------------
(* recoverVerifiedStaleOwnership()                                         *)

RecoveryReads(r) ==
    /\ MayCommand
    /\ record # None
    /\ Step(r, "idle", "reading")
    /\ judged' = [judged EXCEPT ![r] = record]
    /\ UNCHANGED <<files, listener, receipts>>

\* The process of the record read is gone; the file is read again for its
\* hash, whatever it holds by now.
JudgedAnyway(i) == record # None           \* mutant: disposition not checked
JudgedUnread(i) == MissesProcess(i)        \* mutant: missing file not noticed
JudgedStale(i) == MissesProcess(i) /\ record # None
RecoveryJudges(r) ==
    /\ Step(r, "reading", "judged")
    /\ JudgedStale(judged[r])
    /\ judged' = [judged EXCEPT ![r] = record]
    /\ UNCHANGED <<files, listener, receipts>>

RecoveryChecksReceipt(r) ==
    /\ Step(r, "judged", "unreceipted")
    /\ judged[r] \notin receipts
    /\ UNCHANGED <<files, listener, recoveryVars>>

\* No record, a live process, or a receipt of an earlier recovery, which
\* never equals this one: it holds the time it was written.
RecoveryRefused(r) ==
    /\ \/ Step(r, "idle", "ended") /\ MayCommand /\ record = None
       \/ Step(r, "reading", "ended") /\ (Live(judged[r]) \/ record = None)
       \/ Step(r, "judged", "ended") /\ judged[r] \in receipts
    /\ UNCHANGED <<files, listener, recoveryVars>>

RecoveryWritesReceipt(r) ==
    /\ Step(r, "unreceipted", "receipted")
    /\ receipts' = receipts \cup {judged[r]}
    /\ UNCHANGED <<files, listener, judged>>

RecoveryRemovesRecord(r) ==
    /\ Step(r, "receipted", "removed")
    /\ record' = None
    /\ UNCHANGED <<token, listener, recoveryVars>>

TokenForgotten == UNCHANGED token          \* mutant: only the record removed
TokenCleared == token' = None
RecoveryRemovesToken(r) ==
    /\ Step(r, "removed", "ended")
    /\ TokenCleared
    /\ UNCHANGED <<record, listener, recoveryVars>>

-----------------------------------------------------------------------------
\* The operating system closes the listener of a dead process.
Crash(p) ==
    /\ Crashes
    /\ Live(p)
    /\ dead' = dead \cup {p}
    /\ listener' = IF listener = p THEN None ELSE listener
    /\ UNCHANGED <<pc, files, recoveryVars>>

Start(i) ==
    \/ Doctor(i) \/ ChecksRecord(i) \/ ChecksToken(i) \/ RechecksRecord(i)
    \/ StartRefused(i) \/ RenamesRecord(i) \/ WritesToken(i)
    \/ WritesTokenFails(i) \/ Listens(i) \/ ListensFails(i)
    \/ Activates(i) \/ ActivatesFails(i)
Serve(i) ==
    \/ Updates(i) \/ UpdateWrites(i) \/ StopRequested(i)
    \/ MarksStopping(i) \/ Drains(i)
Release(i) ==
    \/ ReadsOwnRecord(i) \/ KeepsRecord(i) \/ RemovesRecord(i)
    \/ ReadsToken(i) \/ RemovesToken(i) \/ Exits(i)
Recover(r) ==
    \/ RecoveryReads(r) \/ RecoveryJudges(r) \/ RecoveryChecksReceipt(r)
    \/ RecoveryRefused(r) \/ RecoveryWritesReceipt(r)
    \/ RecoveryRemovesRecord(r) \/ RecoveryRemovesToken(r)

Next ==
    \/ \E i \in Instances : Start(i) \/ Serve(i) \/ Release(i)
    \/ \E r \in Recoveries : Recover(r)
    \/ \E p \in Processes : Crash(p)

Spec == Init /\ [][Next]_vars

-----------------------------------------------------------------------------
(* Safety                                                                  *)

\* Two live instances are never both past the claim, however their starts
\* interleave: the record alone would not exclude them, the token does.
PastClaim == {"claimed", "listening", "activating"} \cup Serving \cup Stopping
OneClaimant ==
    \A i, j \in Instances :
        Live(i) /\ Live(j) /\ pc[i] \in PastClaim /\ pc[j] \in PastClaim => i = j

\* With commands one at a time, an instance that serves or stops finds its own
\* record and token, which Stop and the Doctor rely on, whatever crashed and
\* was recovered before it.
ServingIsRecorded ==
    \A i \in Instances :
        Live(i) /\ pc[i] \in Serving \cup Stopping => record = i /\ token = i

\* What a crash leaves behind has one cause each, with commands one at a time.
\* A token without a record: a process stopped, or is, between removing the
\* two.  A record that has its recovery receipt, which every later recovery
\* refuses: the recovery that wrote the receipt stopped, or is, before the
\* removal the receipt speaks of.
TokenLeftBehind ==
    token # None /\ record = None =>
        \E p \in Processes : pc[p] \in {"unrecorded", "untokening", "removed"}
ReceiptedRecordLeftBehind ==
    record # None /\ record \in receipts =>
        \E r \in Recoveries : judged[r] = record /\ pc[r] = "receipted"
LeftoversAreHalfRemoved == TokenLeftBehind /\ ReceiptedRecordLeftBehind

\* OWNERSHIP_AND_RECOVERY_CONTRACT.md: "Only the exact owner removes a valid
\* active record".  It holds for commands one at a time, unless the look at
\* the owner's process fails.
OnlyOwnerRemoves ==
    [][\A i \in Instances :
           record = i /\ Live(i) /\ record' = None => pc[i] = "unrecording"]_vars
=============================================================================
