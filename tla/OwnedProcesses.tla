--------------------------- MODULE OwnedProcesses ---------------------------
(***************************************************************************)
(* The registry of the processes a server owns and the cleanup that ends   *)
(* them (tools/hq-dispatch/v1/reliability.mjs, class ProcessOwnership, from *)
(* #registerOwnedProcessAndLedgerEvent to cleanupRegisteredOwnedProcesses). *)
(*                                                                         *)
(* The operating system runs on its own: processes start, exit, and leave  *)
(* their process id to another one.  The server is one event loop: `loop`  *)
(* names who occupies it, and a cleanup gives it up at its awaits only.    *)
(* A process is its id and its start time; Pid maps it to the id alone.    *)
(***************************************************************************)
EXTENDS Naturals, FiniteSets

CONSTANTS Procs,         \* process identities
          Roots,         \* those the relay spawns; the others descend from one
          Pid,           \* the process id of an identity
          ParentOf,      \* the process that started it, None for a root
          Cleanups,      \* calls of cleanupRegisteredOwnedProcesses
          MaxPasses,     \* passes a cleanup makes: 8 in the code
          MaxFaults,     \* bound: writes to registry or ledger that fail
          MaxGeneration, \* bound: registrations attempted
          Blind,         \* whether inspecting a live process may find nothing
          None

Cooperative == "COOPERATIVE_EXIT_CONFIRMED"
Forced == "FORCED_TERMINATION_CONFIRMED"
Gone == "ALREADY_GONE_WITH_IDENTITY_CONFIRMED"
Unconfirmed == "CLEANUP_UNCONFIRMED"
Confirmed == {Cooperative, Forced, Gone}

ASSUME OwnedAssumption ==
    /\ Roots \subseteq Procs
    /\ None \notin Procs \cup Cleanups \cup Confirmed \cup {Unconfirmed}
    /\ Procs \cap Cleanups = {}
    /\ ParentOf \in [Procs -> Procs \cup {None}]
    /\ \A p \in Procs : ParentOf[p] = None <=> p \in Roots
    /\ IsFiniteSet(Procs)
    /\ MaxPasses \in Nat \ {0}
    /\ MaxFaults \in Nat
    /\ MaxGeneration \in Nat
    /\ Blind \in BOOLEAN

VARIABLES
    os,           \* "unborn", "alive" or "dead"
    closed,       \* roots whose close event was handled
    status,       \* registration_status, "absent" before there is an entry
    registeredAt, \* registration_generation, which is the registry's order too
    parent,       \* parent_process_registration_id
    disposition,  \* terminal_cleanup_disposition
    buffered,     \* pendingOwnedProcessExitObservations
    registers,    \* REGISTER_PROOF_OWNERSHIP events of the ledger
    confirms,     \* CONFIRM_PROCESS_EXIT events of the ledger
    children,     \* owned_children of the owner record
    closing,      \* ownedProcessRegistryClosing
    generation,   \* ownedProcessRegistryGeneration
    loop,         \* who occupies the event loop: a cleanup, or a process
                  \*   whose registration is under way
    pc,           \* where a cleanup is
    todo,         \* entries its pass has still to look at
    target,       \* the entry it terminates
    seen,         \* the generation its pass started from
    passes,       \* passes it started
    targeted,     \* entries with a TERMINATE_OWNED_PROCESS event
    faults        \* writes that failed

osVars == <<os, closed>>
entryVars == <<status, registeredAt, parent, registers, generation>>
endVars == <<disposition, confirms>>
ownerVars == <<buffered, children, closing>>
cleanupVars == <<pc, todo, target, seen, passes, targeted>>
vars == <<osVars, entryVars, endVars, ownerVars, cleanupVars, loop, faults>>

TypeOK ==
    /\ os \in [Procs -> {"unborn", "alive", "dead"}]
    /\ closed \subseteq Roots
    /\ status \in [Procs -> {"absent", "PENDING", "COMMITTED", "INCOMPLETE"}]
    /\ registeredAt \in [Procs -> Nat]
    /\ parent \in [Procs -> Procs \cup {None}]
    /\ disposition \in [Procs -> Confirmed \cup {Unconfirmed, None}]
    /\ buffered \in [Procs -> {Cooperative, Gone, None}]
    /\ registers \in [Procs -> Nat]
    /\ confirms \in [Procs -> Nat]
    /\ children \subseteq Procs
    /\ closing \in BOOLEAN
    /\ generation \in Nat
    /\ loop \in Procs \cup Cleanups \cup {None}
    /\ pc \in [Cleanups -> {"idle", "between", "working", "killing", "waiting",
                            "settling", "confirmed", "failed"}]
    /\ todo \in [Cleanups -> SUBSET Procs]
    /\ target \in [Cleanups -> Procs \cup {None}]
    /\ seen \in [Cleanups -> Nat]
    /\ passes \in [Cleanups -> Nat]
    /\ targeted \subseteq Procs
    /\ faults \in Nat

Init ==
    /\ os = [p \in Procs |-> "unborn"]
    /\ closed = {}
    /\ status = [p \in Procs |-> "absent"]
    /\ registeredAt = [p \in Procs |-> 0]
    /\ parent = [p \in Procs |-> None]
    /\ disposition = [p \in Procs |-> None]
    /\ buffered = [p \in Procs |-> None]
    /\ registers = [p \in Procs |-> 0]
    /\ confirms = [p \in Procs |-> 0]
    /\ children = {}
    /\ closing = FALSE
    /\ generation = 0
    /\ loop = None
    /\ pc = [c \in Cleanups |-> "idle"]
    /\ todo = [c \in Cleanups |-> {}]
    /\ target = [c \in Cleanups |-> None]
    /\ seen = [c \in Cleanups |-> 0]
    /\ passes = [c \in Cleanups |-> 0]
    /\ targeted = {}
    /\ faults = 0

-----------------------------------------------------------------------------
(* The operating system                                                    *)

PidFree(p) == \A q \in Procs : Pid[q] = Pid[p] => os[q] # "alive"

DescendantStarts(p) ==
    /\ p \notin Roots
    /\ os[p] = "unborn"
    /\ os[ParentOf[p]] = "alive"
    /\ PidFree(p)
    /\ os' = [os EXCEPT ![p] = "alive"]
    /\ UNCHANGED <<closed, entryVars, endVars, ownerVars, cleanupVars, loop, faults>>

ProcessExits(p) ==
    /\ os[p] = "alive"
    /\ os' = [os EXCEPT ![p] = "dead"]
    /\ UNCHANGED <<closed, entryVars, endVars, ownerVars, cleanupVars, loop, faults>>

\* What inspectProcess and processMatchesOwner together may answer: a failed or
\* late PowerShell reads as a process that is not there.
SeenAlive(p) == os[p] = "alive"
SeenGone(p) == os[p] # "alive" \/ Blind

-----------------------------------------------------------------------------
(* The registry                                                            *)

Entries == {p \in Procs : status[p] # "absent"}

\* #registryEntryByProcessId finds the oldest entry with the id.
IsEntryOf(e, pid) ==
    /\ e \in Entries
    /\ Pid[e] = pid
    /\ \A f \in Entries : Pid[f] = pid => registeredAt[e] <= registeredAt[f]
NoEntryOf(pid) == \A e \in Entries : Pid[e] # pid

\* reconcileOwnedProcessRegistryAndLedger
Reconciles == \A e \in Entries : status[e] = "COMMITTED" /\ registers[e] = 1

WriteFails == faults < MaxFaults /\ faults' = faults + 1

EndsAgain(e, d) ==
    /\ status[e] = "COMMITTED"
    /\ disposition' = [disposition EXCEPT ![e] = d]
    /\ confirms' = [confirms EXCEPT ![e] = @ + 1]
    /\ UNCHANGED faults
\* #recordTerminalOwnedProcess: a second disposition must equal the first.
Ends(e, d) ==
    /\ status[e] = "COMMITTED"
    /\ \/ /\ disposition[e] = None
          /\ disposition' = [disposition EXCEPT ![e] = d]
          /\ confirms' = [confirms EXCEPT ![e] = @ + 1]
       \/ /\ disposition[e] = d
          /\ UNCHANGED endVars
    /\ UNCHANGED faults

\* It throws before or after the disposition is set; the event that confirms
\* the exit to the ledger comes last.
EndRefused(e, d) ==
    /\ \/ status[e] # "COMMITTED"
       \/ disposition[e] \notin {None, d}
    /\ UNCHANGED <<endVars, faults>>
EndWriteFails(e, d) ==
    /\ status[e] = "COMMITTED"
    /\ disposition[e] = None
    /\ WriteFails
    /\ disposition' \in {disposition, [disposition EXCEPT ![e] = d]}
    /\ UNCHANGED confirms

-----------------------------------------------------------------------------
(* Registration                                                            *)

\* The relay spawns a child and calls childStarted() before anything else runs.
LaunchChild(r) ==
    /\ loop = None
    /\ os[r] = "unborn"
    /\ PidFree(r)
    /\ os' = [os EXCEPT ![r] = "alive"]
    /\ loop' = r
    /\ UNCHANGED <<closed, entryVars, endVars, ownerVars, cleanupVars, faults>>

\* No identity to be seen, or the registry is closing: the relay kills the child.
ChildRefused(r) ==
    /\ r \in Roots
    /\ loop = r
    /\ status[r] = "absent"
    /\ SeenGone(r) \/ closing
    /\ os' = [os EXCEPT ![r] = "dead"]
    /\ loop' = None
    /\ UNCHANGED <<closed, entryVars, endVars, ownerVars, cleanupVars, faults>>

RegistrationBegins(p) ==
    /\ generation < MaxGeneration
    /\ generation' = generation + 1
    /\ status' = [status EXCEPT ![p] = "PENDING"]
    /\ registeredAt' = [registeredAt EXCEPT ![p] = generation + 1]
    /\ loop' = p
    /\ UNCHANGED <<osVars, registers, endVars, ownerVars, cleanupVars, faults>>

ChildRegisters(r) ==
    /\ r \in Roots
    /\ loop = r
    /\ status[r] = "absent"
    /\ SeenAlive(r)
    /\ ~closing
    /\ RegistrationBegins(r)
    /\ UNCHANGED parent

\* childrenStartedFromEvidence: root r is owned and alive, and the entry found
\* under its id has not ended.  While the registry is closing only evidence from
\* before the cutoff is taken, which a caller may or may not have.
ReportAllowed(r, p) ==
    /\ loop = None
    /\ p \notin Roots
    /\ status[p] = "absent"
    /\ r \in children \cap Roots
    /\ SeenAlive(r)
    /\ SeenAlive(p)
    /\ \E e \in Entries : IsEntryOf(e, Pid[r]) /\ disposition[e] = None

DescendantOfAny(r, p) ==
    /\ ReportAllowed(r, p)
    /\ \E e \in Entries :
          IsEntryOf(e, Pid[ParentOf[p]]) /\ parent' = [parent EXCEPT ![p] = e]
    /\ RegistrationBegins(p)
DescendantRegisters(r, p) ==
    /\ ReportAllowed(r, p)
    /\ \E e \in Entries :
          /\ IsEntryOf(e, Pid[ParentOf[p]])
          /\ status[e] = "COMMITTED"
          /\ parent' = [parent EXCEPT ![p] = e]
    /\ RegistrationBegins(p)

\* OWNED_PROCESS_PARENT_REGISTRATION_INCOMPLETE comes after the generation moved.
DescendantOfIncomplete(r, p) ==
    /\ ReportAllowed(r, p)
    /\ \E e \in Entries :
          IsEntryOf(e, Pid[ParentOf[p]]) /\ status[e] # "COMMITTED"
    /\ generation < MaxGeneration
    /\ generation' = generation + 1
    /\ UNCHANGED <<osVars, status, registeredAt, parent, registers, endVars,
                   ownerVars, cleanupVars, loop, faults>>

WithoutPid(p) == {q \in children : Pid[q] # Pid[p]}
CloseUnlooked == IF closing THEN Unconfirmed ELSE Gone
CloseDisposition == IF closing THEN Cooperative ELSE Gone

\* The recorder that writes the ledger event reports an exit while it runs.
ExitDuringRegistration(p) ==
    /\ loop = p
    /\ status[p] = "PENDING"
    /\ buffered[p] = None
    /\ IsEntryOf(p, Pid[p])
    /\ SeenGone(p)
    /\ buffered' = [buffered EXCEPT ![p] = CloseDisposition]
    /\ children' = WithoutPid(p)
    /\ UNCHANGED <<osVars, entryVars, endVars, closing, cleanupVars, loop, faults>>

\* Both durable events are written; then a buffered exit takes effect.  A root
\* that ended meanwhile is not listed; a descendant is, unless another entry is
\* incomplete.
RegistrationCommits(p) ==
    /\ loop = p
    /\ status[p] = "PENDING"
    /\ status' = [status EXCEPT ![p] = "COMMITTED"]
    /\ registers' = [registers EXCEPT ![p] = @ + 1]
    /\ buffered' = [buffered EXCEPT ![p] = None]
    /\ \/ /\ buffered[p] = None
          /\ UNCHANGED endVars
       \/ /\ buffered[p] # None
          /\ disposition' = [disposition EXCEPT ![p] = buffered[p]]
          /\ confirms' = [confirms EXCEPT ![p] = @ + 1]
    /\ children' = IF (IF p \in Roots THEN buffered[p] = None ELSE Reconciles')
                   THEN WithoutPid(p) \cup {p} ELSE children
    /\ loop' = None
    /\ UNCHANGED <<osVars, registeredAt, parent, generation, closing, cleanupVars,
                   faults>>

\* A write fails before or after the ledger has the event; a buffered exit stays
\* buffered.  The relay kills the child it could not register.
RegistrationFails(p) ==
    /\ loop = p
    /\ status[p] = "PENDING"
    /\ WriteFails
    /\ status' = [status EXCEPT ![p] = "INCOMPLETE"]
    /\ registers' \in {registers, [registers EXCEPT ![p] = @ + 1]}
    /\ os' = IF p \in Roots THEN [os EXCEPT ![p] = "dead"] ELSE os
    /\ loop' = None
    /\ UNCHANGED <<closed, registeredAt, parent, generation, endVars, ownerVars,
                   cleanupVars>>

\* After the commit the buffered exit or the owner record cannot be written.
RegistrationUnlisted(p) ==
    /\ loop = p
    /\ status[p] = "PENDING"
    /\ WriteFails
    /\ status' = [status EXCEPT ![p] = "COMMITTED"]
    /\ registers' = [registers EXCEPT ![p] = @ + 1]
    /\ buffered' = [buffered EXCEPT ![p] = None]
    /\ disposition' \in {disposition, [disposition EXCEPT ![p] = buffered[p]]}
    /\ \/ UNCHANGED confirms
       \/ /\ p \notin Roots
          /\ disposition'[p] # None
          /\ confirms' = [confirms EXCEPT ![p] = @ + 1]
    /\ os' = IF p \in Roots THEN [os EXCEPT ![p] = "dead"] ELSE os
    /\ loop' = None
    /\ UNCHANGED <<closed, registeredAt, parent, generation, children, closing,
                   cleanupVars>>

-----------------------------------------------------------------------------
(* childExited(), called with the id when a root's close event arrives     *)

CloseArrives(r) ==
    /\ loop = None
    /\ os[r] = "dead"
    /\ r \notin closed
    /\ closed' = closed \cup {r}
    /\ UNCHANGED <<os, entryVars, buffered, closing, cleanupVars, loop>>

\* Nothing to record: the entry the id leads to is missing, ended, incomplete,
\* or belongs to a process that runs.
CloseUnrecorded(r) ==
    /\ CloseArrives(r)
    /\ \/ NoEntryOf(Pid[r])
       \/ \E e \in Entries :
             /\ IsEntryOf(e, Pid[r])
             /\ disposition[e] # None \/ SeenAlive(e) \/ status[e] = "INCOMPLETE"
    /\ children' = WithoutPid(r)
    /\ UNCHANGED <<endVars, faults>>

CloseRecorded(r) ==
    /\ CloseArrives(r)
    /\ \E e \in Entries :
          /\ IsEntryOf(e, Pid[r])
          /\ disposition[e] = None
          /\ SeenGone(e)
          /\ Ends(e, CloseDisposition)
    /\ children' = WithoutPid(r)

\* The relay ignores what childExited() throws.
CloseWriteFails(r) ==
    /\ CloseArrives(r)
    /\ \E e \in Entries :
          /\ IsEntryOf(e, Pid[r])
          /\ SeenGone(e)
          /\ EndWriteFails(e, CloseDisposition)
    /\ UNCHANGED children

\* childrenExitedFromEvidence: an ended descendant leaves the owner record.
DescendantReleased(p) ==
    /\ loop = None
    /\ p \in children \ Roots
    /\ disposition[p] \in Confirmed
    /\ SeenGone(p)
    /\ children' = children \ {p}
    /\ UNCHANGED <<osVars, entryVars, endVars, buffered, closing, cleanupVars, loop,
                   faults>>

-----------------------------------------------------------------------------
(* cleanupRegisteredOwnedProcesses()                                       *)

\* The server's shutdown closes the registry before the relay's cleanup does.
ShutdownBegins ==
    /\ loop = None
    /\ ~closing
    /\ Reconciles
    /\ closing' = TRUE
    /\ UNCHANGED <<osVars, entryVars, endVars, buffered, children, cleanupVars, loop,
                   faults>>

Goes(c, where) == pc' = [pc EXCEPT ![c] = where]
Fails(c) ==
    /\ Goes(c, "failed")
    /\ loop' = None
    /\ UNCHANGED <<todo, target, seen, passes>>

CleanupRefused(c) ==
    /\ loop = None
    /\ pc[c] = "idle"
    /\ ~Reconciles
    /\ Fails(c)
    /\ UNCHANGED <<osVars, entryVars, endVars, ownerVars, targeted, faults>>

\* The root whose handle the caller has is asked to stop when the entry under its
\* id is its own; whether it does is up to it.  The cooperative wait may be over
\* before its first await.
CleanupBegins(c, h) ==
    /\ loop = None
    /\ pc[c] = "idle"
    /\ Reconciles
    /\ closing' = TRUE
    /\ \/ UNCHANGED os
       \/ /\ h \in Roots
          /\ SeenAlive(h)
          /\ IsEntryOf(h, Pid[h])
          /\ os' = [os EXCEPT ![h] = "dead"]
    /\ Goes(c, "between")
    /\ loop' \in {None, c}
    /\ UNCHANGED <<closed, entryVars, endVars, buffered, children, todo, target, seen,
                   passes, targeted, faults>>

\* REGISTRY_CLOSING or the event of the request cannot be written.
CleanupBeginFails(c) ==
    /\ loop = None
    /\ pc[c] = "idle"
    /\ Reconciles
    /\ closing' = TRUE
    /\ WriteFails
    /\ Fails(c)
    /\ UNCHANGED <<osVars, entryVars, endVars, buffered, children, targeted>>

Unended == {e \in Entries : disposition[e] = None}

PassStarts(c) ==
    /\ loop \in {None, c}
    /\ pc[c] = "between"
    /\ seen' = [seen EXCEPT ![c] = generation]
    /\ todo' = [todo EXCEPT ![c] = Unended]
    /\ passes' = [passes EXCEPT ![c] = @ + 1]
    /\ Goes(c, "working")
    /\ loop' = c
    /\ UNCHANGED <<osVars, entryVars, endVars, ownerVars, target, targeted, faults>>

Depth[e \in Procs] == IF parent[e] = None THEN 0 ELSE 1 + Depth[parent[e]]

IsOldest(c, p) ==
    /\ loop = c
    /\ pc[c] = "working"
    /\ p \in todo[c]
    /\ \A q \in todo[c] : registeredAt[p] <= registeredAt[q]
\* The pass takes its entries from the deepest up.
IsNext(c, p) ==
    /\ loop = c
    /\ pc[c] = "working"
    /\ p \in todo[c]
    /\ \A q \in todo[c] : Depth[q] <= Depth[p]

Records(c, p, d) ==
    /\ Ends(p, d)
    /\ todo' = [todo EXCEPT ![c] = @ \ {p}]
    /\ Goes(c, "working")
    /\ loop' = c
    /\ UNCHANGED <<target, seen, passes>>
RecordFails(c, p, d) == (EndRefused(p, d) \/ EndWriteFails(p, d)) /\ Fails(c)

EntryGone(c, p) ==
    /\ IsNext(c, p)
    /\ SeenGone(p)
    /\ Records(c, p, Gone) \/ RecordFails(c, p, Gone)
    /\ UNCHANGED <<osVars, entryVars, ownerVars, targeted>>

EntryTargeted(c, p) ==
    /\ IsNext(c, p)
    /\ SeenAlive(p)
    /\ targeted' = targeted \cup {p}
    /\ target' = [target EXCEPT ![c] = p]
    /\ Goes(c, "killing")
    /\ UNCHANGED <<osVars, entryVars, endVars, ownerVars, todo, seen, passes, loop,
                   faults>>

EntryTargetFails(c, p) ==
    /\ IsNext(c, p)
    /\ SeenAlive(p)
    /\ WriteFails
    /\ Fails(c)
    /\ UNCHANGED <<osVars, entryVars, endVars, ownerVars, targeted>>

\* taskkill /PID: whoever has the id now, or nobody when it fails.
KillRuns(c) ==
    /\ loop = c
    /\ pc[c] = "killing"
    /\ \/ UNCHANGED os
       \/ os' = [q \in Procs |-> IF Pid[q] = Pid[target[c]] /\ os[q] = "alive"
                                 THEN "dead" ELSE os[q]]
    /\ Goes(c, "waiting")
    /\ UNCHANGED <<closed, entryVars, endVars, ownerVars, todo, target, seen, passes,
                   targeted, loop, faults>>

TargetStillAlive(c) ==
    /\ loop = c
    /\ pc[c] = "waiting"
    /\ SeenAlive(target[c])
    /\ loop' = None
    /\ UNCHANGED <<osVars, entryVars, endVars, ownerVars, cleanupVars, faults>>

TargetPresumedGone(c) ==
    /\ loop \in {None, c}
    /\ pc[c] = "waiting"
    /\ Records(c, target[c], Forced) \/ RecordFails(c, target[c], Forced)
    /\ UNCHANGED <<osVars, entryVars, ownerVars, targeted>>
TargetGone(c) ==
    /\ loop \in {None, c}
    /\ pc[c] = "waiting"
    /\ SeenGone(target[c])
    /\ Records(c, target[c], Forced) \/ RecordFails(c, target[c], Forced)
    /\ UNCHANGED <<osVars, entryVars, ownerVars, targeted>>

TargetWaitsOn(c) == FALSE
\* The deadline: the last look was before the await that has just ended.
TargetUnconfirmed(c) ==
    /\ loop = None
    /\ pc[c] = "waiting"
    /\ \/ Ends(target[c], Unconfirmed)
       \/ EndRefused(target[c], Unconfirmed)
       \/ EndWriteFails(target[c], Unconfirmed)
    /\ Fails(c)
    /\ UNCHANGED <<osVars, entryVars, ownerVars, targeted>>

PassEnds(c) ==
    /\ loop = c
    /\ pc[c] = "working"
    /\ todo[c] = {}
    /\ Goes(c, "settling")
    /\ loop' = None
    /\ UNCHANGED <<osVars, entryVars, endVars, ownerVars, todo, target, seen, passes,
                   targeted, faults>>

StableByGeneration(c) == generation = seen[c]
Stable(c) ==
    /\ generation = seen[c]
    /\ \A e \in Entries : disposition[e] \in Confirmed

CleanupConfirms(c) ==
    /\ loop = None
    /\ pc[c] = "settling"
    /\ Stable(c)
    /\ Reconciles
    /\ Goes(c, "confirmed")
    /\ UNCHANGED <<osVars, entryVars, endVars, ownerVars, todo, target, seen, passes,
                   targeted, loop, faults>>

NextPass(c) ==
    /\ loop = None
    /\ pc[c] = "settling"
    /\ ~Stable(c)
    /\ passes[c] < MaxPasses
    /\ Goes(c, "between")
    /\ loop' = c
    /\ UNCHANGED <<osVars, entryVars, endVars, ownerVars, todo, target, seen, passes,
                   targeted, faults>>

\* OWNED_PROCESS_REGISTRY_GENERATION_UNSTABLE, or the last event is not written.
CleanupGivesUp(c) ==
    /\ loop = None
    /\ pc[c] = "settling"
    /\ \/ /\ ~Stable(c)
          /\ passes[c] = MaxPasses
          /\ UNCHANGED faults
       \/ /\ Stable(c)
          /\ ~Reconciles
          /\ UNCHANGED faults
       \/ /\ Stable(c)
          /\ WriteFails
    /\ Fails(c)
    /\ UNCHANGED <<osVars, entryVars, endVars, ownerVars, targeted>>

-----------------------------------------------------------------------------
Registration(p) ==
    \/ ChildRefused(p) \/ ChildRegisters(p)
    \/ RegistrationCommits(p) \/ RegistrationUnlisted(p) \/ RegistrationFails(p)

CleanupEntry(c, p) == EntryGone(c, p) \/ EntryTargeted(c, p) \/ EntryTargetFails(c, p)

Cleanup(c) ==
    \/ PassStarts(c)
    \/ \E p \in Procs : CleanupEntry(c, p)
    \/ KillRuns(c) \/ TargetStillAlive(c) \/ TargetGone(c) \/ TargetUnconfirmed(c)
    \/ PassEnds(c) \/ CleanupConfirms(c) \/ NextPass(c) \/ CleanupGivesUp(c)

Close(r) == CloseUnrecorded(r) \/ CloseRecorded(r) \/ CloseWriteFails(r)

Next ==
    \/ \E p \in Procs :
          \/ DescendantStarts(p) \/ ProcessExits(p)
          \/ Registration(p) \/ ExitDuringRegistration(p) \/ DescendantReleased(p)
    \/ \E r \in Roots :
          \/ LaunchChild(r) \/ Close(r)
          \/ \E p \in Procs : DescendantRegisters(r, p) \/ DescendantOfIncomplete(r, p)
    \/ ShutdownBegins
    \/ \E c \in Cleanups :
          \/ CleanupRefused(c) \/ CleanupBeginFails(c) \/ Cleanup(c)
          \/ \E h \in Roots \cup {None} : CleanupBegins(c, h)

Spec == Init /\ [][Next]_vars

\* Node runs what is ready and a synchronous stretch of code comes to its end.
FairSpec ==
    /\ Spec
    /\ \A p \in Procs : WF_vars(Registration(p))
    /\ \A c \in Cleanups : WF_vars(Cleanup(c))

-----------------------------------------------------------------------------
(* Properties                                                              *)

\* Whoever records an end, at whichever of the five places and however long after
\* it looked, no process recorded or about to be recorded as ended runs.
EndedAreGone ==
    \A p \in Procs :
        disposition[p] \in Confirmed \/ buffered[p] # None => os[p] = "dead"

\* Registry and ledger tell one story: a process with an end was registered once,
\* its exit is confirmed to the ledger at most once and never without an end, and
\* only a failed write leaves the confirmation out.
LedgerAgrees ==
    /\ \A p \in Procs :
          /\ registers[p] <= 1
          /\ confirms[p] <= 1
          /\ disposition[p] # None => status[p] = "COMMITTED" /\ registers[p] = 1
          /\ confirms[p] = 1 => disposition[p] # None
    /\ Cardinality({p \in Procs : disposition[p] # None /\ confirms[p] = 0}) <= faults

\* What a confirmed cleanup counted is gone, whatever was registered, exited or
\* was recorded by others during its awaits.
ConfirmedMeansGone ==
    \A c \in Cleanups, p \in Procs :
        pc[c] = "confirmed" /\ status[p] # "absent" /\ registeredAt[p] <= seen[c] =>
            os[p] = "dead" /\ disposition[p] \in Confirmed

\* A parent link leads to an older, committed entry: no relationship is ever
\* unconfirmed and no chain of parents is a cycle.
ParentsAreOlder ==
    \A p \in Procs :
        parent[p] # None =>
            /\ status[parent[p]] = "COMMITTED"
            /\ registeredAt[parent[p]] < registeredAt[p]

\* A recorded end is not rewritten and a registration is not taken back.
EndIsFinal ==
    [][\A p \in Procs :
          /\ disposition[p] # None => disposition'[p] = disposition[p]
          /\ status[p] \in {"COMMITTED", "INCOMPLETE"} => status'[p] = status[p]]_vars

IsAncestor(p, q) ==
    LET Up[e \in Procs] == parent[e] # None /\ (parent[e] = p \/ Up[parent[e]])
    IN  Up[q]

\* A process is terminated only when every descendant its pass knows has an end.
LeavesFirst ==
    [][\A c \in Cleanups, p, q \in Procs :
          /\ target'[c] = p /\ pc[c] = "working" /\ pc'[c] = "killing"
          /\ status[q] # "absent" /\ registeredAt[q] <= seen[c] /\ IsAncestor(p, q)
          => disposition[q] # None]_vars

\* A cleanup that begins comes to its end, whatever the processes do.
CleanupEnds ==
    \A c \in Cleanups : pc[c] = "between" ~> pc[c] \in {"confirmed", "failed"}

=============================================================================
