# Verification of Thousand Sunny Fleet

Thousand Sunny Fleet is a local harness that runs bounded Codex missions for
one operator: PowerShell scripts and a small Node server, files as the only
store, Windows as the only platform. This directory holds TLA+ models of the
parts whose order of steps matters, the TLC configurations that check them on
small instances, and TLAPS proofs of what matters most for every instance.

Contents: [the system](#the-system), [modules](#modules-and-the-code),
[runs](#runs), [fairness](#fairness), [proofs](#proofs),
[divergences](#where-documents-and-code-disagree),
[not modelled](#what-is-not-modelled), [plan](#plan).

## The system

A mission passes through the first of these parts, all on one machine. Six are
modelled; the table lists the others too.

```
 browser --HTTP--> server.mjs --calls--> HqMissionRelay --spawns--> wrappers
                      |                        |                      |
             ProcessOwnership            in-memory records     mission queue files
             owner.json, stop token      one foreground child  executor, app server
                                                                      |
 operator --CLI--> reliability-cli.mjs                       admission (receipts,
                   Doctor, Stop, recover-stale-owner          transaction, queue move)
```

| Component | State | Operations | Hard behaviour | What makes it correct |
|---|---|---|---|---|
| Mission relay (`tools/hq-dispatch/v1/mission-relay.mjs`) | maps of submissions, missions and completed replay keys; `activeMissionId`, `activeChild`, `shuttingDown`; the records of missions | `submit`, `retryInterrupted`, `respond`, `loadTimRequired`, `reconcileQueue`, `shutdown` | every operation awaits child processes, so all interleave on one event loop; timeouts; a shutdown at any moment; answers that come late, twice or after a restart | one run at a time, one run per request, another run only for a recorded approval, final verdicts, nothing but the child of a preview after a successful stop, every submission answered |
| Durable result admission (`tools/TsfDurableContract.Canonical.ps1`, `tools/Move-TsfMissionState.ps1`) | staged receipt, admission receipt, transaction receipt, recovery envelope, conflict receipts, the folder that holds the queue record | evaluate, stage, prepare, move, rename, commit, verify; take back; replay; reconcile | any file operation may fail, the process may die between two, a result is submitted again, calls overlap | a committed transaction is complete, an advanced record is accounted for, a receipt is final and can always be returned |
| Server ownership and lifecycle (`reliability.mjs`, `server.mjs`, `reliability-cli.mjs`) | `owner.json`, the stop token, the listening port, recovery receipts | Doctor, `claim`, `update`, `release`, stop, `recoverVerifiedStaleOwnership` | separate processes related only by files; looks at processes take seconds and may fail; crashes between two file operations | one live claimant, a serving instance is the recorded one, only the owner removes a live record |
| Owned child processes (`reliability.mjs`, class `ProcessOwnership`) | registry of child identities, hash-chained ledger, exits buffered during a registration, `owned_children` | register a root or a descendant, observe an exit, clean up in at most eight passes | process ids are reused; children appear and exits are observed while a cleanup awaits; a write fails between registry and ledger | registry and ledger agree, an end on record is true and final, a confirmed cleanup left nothing alive |
| Recovery actions (`reliability.mjs`, `server.mjs`) | stop records, snapshots, recovery receipts on disk; the relay's `recoveries` in memory | reconcile, mark interrupted, retry as new run, reconcile the queue, respond, acknowledge, decline, view | decisions on evidence that has changed since; a shutdown that writes the same records; crashes between two of them | stop records and receipts say what happened, one new run per evidence, a receipt ends the matter |
| Mission queue executor and lifecycle (`tools/Invoke-TsfMissionQueueForegroundExecutor.ps1`, `Invoke-TsfMissionLifecycle.ps1`) | queue record and its state folder, lifecycle receipts | claim a record, walk it through preflight, execution and post-run states | crash in a state no start accepts | a record is executed at most once and always ends in a terminal folder or is visibly stuck |
| App-server adapter (`tools/tsf-codex-app-server-adapter.mjs`) | one thread and turn over a JSON-RPC pipe, the pending request, the journal | four requests, notifications, timers, verdict, result | notifications before the reply that names them, objections between two looks of a loop, timeouts, silent death of the server | a success was earned by an orderly turn, the adapter ends |
| Checkpoint loop (`run-checkpoint-loop.ps1`, `tools/codex-fleet-runtime.ps1`) | task list, lock file, heartbeat, safe-stop request | take a task, run a worker, validate, commit | two loops for one project, a stop request during a task | one loop per project, no task after a stop request |
| Watchdog, kill switch, supervisor, remote control | lock and pid files, command mailbox | restart, stop, poll | acting on a stale file | nothing is restarted that was stopped |
| Enforcement kernel (`tools/codex-fleet-enforcement-kernel.ps1`) | approval records | decide whether a path or a command is allowed | an approval used twice | an approval covers one exact use |
| Contracts, addressing, gates, reports, onboarding, browser page | none, or files of one writer | validate, name, print, generate | none beyond computation | results match their inputs |

The components interact through calls (server to relay), child processes with
an exit code and a JSON file (relay to wrappers), and files (admission, queue,
ownership). There is no database and no lock beyond exclusive creation and
rename of files.

`PROJECT.json` lists the hazards: each names a line of the code and the
properties that would notice it going wrong.

## Modules and the code

### HqMissionRelay: the mission relay

One server process runs one event loop, so a step of the model is what the loop
executes between two `await`s: `Submit` is `submit()` up to its first preview
child, `CreateMission` the part of `#submitNew` after it, and so on. The
coroutine of a mission waits in one of `revalidate`, `prepare`, `execute` and
`respond`; `phase[m]` is its program counter. `child` is the `activeChild`
handle, which is not the same as the processes that run: an overlapping spawn
overwrites it, and any child that ends may or may not clear it. The child of a
preview (`revalidate`) is a third thing: a submission awaits it, but it is
neither `activeChild` nor a registered process (`server.mjs:456`), so
`OwnedChild` leaves it out, `HasChild` counts it, and the cleanup of a stop
knows nothing of it. `active` is `activeMissionId`; `completed` is
`completedBindings`; `answered`, `answer` and `responded` are the accepted
response of a record and its outcome. `shutdown` walks through `shutdown()`:
`cleaning` while it waits for the owned processes, `confirming` while it waits
for the last child's close event.

Missions are named after the call that creates them. `runs` is history: how
many executor processes were spawned for a mission.

Abstractions, each with its reason:

- A preview asked for by itself, not by a submission, leaves no state; its child
  could be left by a stop as a submission's can.
- The preview map and the projection a submission is compared with: an id is a
  random GUID and its binding is never overwritten, so a submission keeps its
  replay key for ever (`ReplayKey`). The expiry of a preview and of a session
  are refusals that leave no state.
- QUEUED, DISPATCHING, VERIFYING and PRESERVING are projected in the step that
  reaches RUNNING or that applies the outcome.
- The 15 second race for the child's close is either of its outcomes.
- `PROVIDE_CLARIFICATION` takes the path of an approval.
- A reconciled record has revision 1, whatever its file says.
- `onMissionChange` is assumed not to throw; test adapters and the interruption
  barrier are left out; `getMission` and `getEvents` only read.

`ForegroundSlot` is what the registry projection (`one_active_mission_per_process`)
promises: a holder that is released before another one comes, and no mission
that holds twice. `HqMissionRelay!ImplementsSlot` is the refinement, with the
running mission as holder.

`MCHqMissionRelay` gives TLC two identical requests and one different one.

### AdmissionTransaction: the admission of one result

`Get-TsfAdmissionDecision` as a sequence of file operations: `Decide`,
`Stage`, `Prepare`, `MoveRecord`, `FinalizeReceipt`, `Commit`, `Verify`, the
catch block (`RecordFailure`, `WriteEnvelope`, `MoveBack`, `RecordRollback`,
...), and the branches of a call that finds a receipt (`Replay`,
`RecordConflict`). `ReconcileQueue` is
`Invoke-TsfHqDispatchQueueReconcileV1.ps1`. Every operation that writes has a
failing twin, enabled when its name is in `Faults`; `Crash` ends a call
between any two.

The files of a result have names computed from the result identity
(`TsfRuntimeArtifactAddressing.ps1`), so all calls share them. A receipt holds
the time of the call that wrote it, so two calls never write the same bytes,
and a receipt is identified by its call: `hash` in a transaction is the call
whose receipt bytes were hashed. The model is of one result identity; calls
with different identities share no file.

Abstractions: the evaluation of evidence is a choice among the statuses the
content allows (only the content the preservation manifest binds can be
ADMITTED); a write of the transaction is one step (it goes through a temporary
file and a replace, and can throw before or after taking effect, which is
modelled); the read and the write of a replay are one step; records moved by
hand and the `archived` state are left out; two calls with the same explicit
`CurrentTime` are left out.

`AdmissionLedger` is what a reader of the receipt relies on: the record may be
tried at a destination and taken back while nothing is decided; a decision is
recorded where the record is, once, and then nothing changes any more.
`ImplementsLedger` is the refinement.

### ServerOwnership: who owns HQ Dispatch

Each server instance and each run of `recover-stale-owner` is a process; a step
is one look at a file, at the port or at the process table, or one change. A
start is Doctor, then `claim()`: no record, no token, and inside
`atomicWriteJson` no record again, the rename, and the token with `wx`; then
the port, then `activate()`. `update()` reads, compares and replaces the
record. A shutdown marks the record and drains the relay, during which exits of
children still update the record; the drain may fail for good, because its
promise is cached (`wedged`). It then releases record and token and closes the
listener last. `Crash` kills a process where it is and closes its listener.

`Overlap` says whether an operator's commands (a start up to ACTIVE, a
recovery) may overlap; `Blind` says whether a look at a live process may find
nothing (`inspectProcess` returns null when PowerShell fails or times out).

Abstractions: a record is the instance it describes, so its lifecycle state,
children and hash are left out, and recovery receipts are per instance; the
Doctor's other gates are the outcome `StartRefused`, and its look at the record
is merged with the claim's first one; the Doctor run by the start script is
merged with the one the server repeats; a stop by HTTP (authenticated by token,
instance, hash and process id) or by signal is `StopRequested`; a port used by
an unrelated program is `ListensFails`; a reused process id counts as a process
that is gone; malformed records and records of another worktree are left out;
the second release that the listener's close event triggers after a failed
activation is left out (the first has already removed what is the instance's
own).

### OwnedProcesses: the children of the server

A process is its id and its start time; `Pid` maps it to the id alone, so that
an id can come back. The operating system moves by itself (`DescendantStarts`,
`ProcessExits`). The server is one event loop: `loop` names who occupies it,
and a cleanup gives it up at its `await`s only, where exits, close events,
registrations and another cleanup get in. `status`, `registeredAt`, `parent`,
`disposition` are the fields of a registry entry; `registers` and `confirms`
count its ledger events. `RegistrationBegins` to `RegistrationCommits` is
`#registerOwnedProcessAndLedgerEvent` with its reserved generation and the exit
that may be reported meanwhile (`buffered`); `CloseRecorded` and its siblings
are `childExited`; `CleanupBegins` to `CleanupConfirms` is
`cleanupRegisteredOwnedProcesses`. Writes fail at most `MaxFaults` times, before
or after they took effect.

Abstractions: failing writes of `owner.json` outside a registration (they belong
to `ServerOwnership`); entries of one depth are taken in any order; what a root
does when asked to stop is up to it. `Blind` says whether an inspection of a
live process may find nothing. The parent errors of the code
(`RELATIONSHIP_UNCONFIRMED`, `PARENT_CYCLE`) are unreachable, which
`ParentsAreOlder` states.

### RecoveryActions: what an operator may do with an interrupted run

One source run is moved by its own executor (`SourceMoves`), which outlives a
crash of the server. `Classify` is the reconciliation: the first rule that holds
names the class, and `OfferedFor` is `safe_operator_options`. A request is one
decision: `View` (the item and the action chosen from it), `Post` (the server
reconciles again and compares the evidence identity), and then the synchronous
stretch of `performRecoveryAction`: preserve the document (`Preserves`), the stop record
(`Records`), the retry, the load or the move, the receipt. The shutdown writes
its interruption through the same two steps and is an actor beside the requests.
No recovery request asks whether the server is stopping: it needs its session,
and sessions end after the drain (`server.mjs:990`). So views and posts go on
while `serving` is "stopping" (`TakesRequests`): a mark, a decline, a load and
the stop record of a retry are made then; the new run itself, a preparation's
executor and a queue wrapper are refused (`ShuttingDown`). A drain may fail at
any of its steps (`DrainFails`); its promise is kept, so nothing tries again and
the server takes requests until it crashes (`wedged`).
`Crash` may come between any two writes and inside the copy (`Torn`);
`Restarts` begins a new session generation, which forgets `recoveries`
(`Prior`).

The evidence identity is the pair of the artifacts with authority and of whether
the queue document was accepted. The executor copies the queue document to
`qd.json` before it moves it, so the place of the stop record is beside that
copy, or a directory of its own that no reconciliation walks.

Abstractions: one source run; caveats, rejected admissions and the duplicate and
conflict classes are left out; a wrapper that was started before a stop ends it
or outlives it, so `AnswerArrives` and `RevisionPrepared` are not refused during
one, also for answers that came too late to start one; a shutdown during a
retry's own run leaves no interruption of it; the action
`RESPOND_TO_TIM_REQUIRED` ends with the load, and the answer itself is
`AnswerArrives`, as in the relay.

### AppServerTurn: the turn of one adapter process

The adapter awaits one request before it sends the next, so `asked` and
`pending` stand for its map of pending requests. Promise continuations run
before the next timer or exit event, but lines of one chunk are handled before
them: `settled` is the settled promise that has not been taken up, and only
lines and answers may come in between. `journal` holds the lines up to the
verdict, `late` counts later ones. `EventRefused`, `EventThrows` and
`EventTaken` are the paths through `handleNotification`: any method that begins
with `item/` (`ItemMethods`) needs a started turn, and only a completed item of
type `agentMessage` sets the response; `TurnOver` and
`Verdict` the wait loop and the checks behind it; `ResultWritten` the finally
block and the result. `Crashes` is an error nobody catches: writing to a child
that is gone or to an ended stream, or an effort `normalizeEffort` does not
know.

Abstractions: the server is a source of any lines; answers are not journaled;
which usage record is selected, effort conflicts and hashes are left out;
arguments are valid; the deadline of the stop may come at any time; `says` is the
text of a message, the status of a turn or an effort (None for a null one, which
is ignored), and the text of other items is left out.
`MCAppServerTurn` lists the lines given to TLC: an interactive request, the start,
the message and the completion of the turn, a completed item of another type, an
item event that is foreign or comes too early, and a completion of another turn.
Events of settings and of usage are left to the theorems, which hold for any
lines; an effort nobody knows comes with the thread's answer (checked once with
an event of settings as an eighth kind: 1,774,000 states, three minutes).

## Runs

All runs use `CHECK_DEADLOCK FALSE`: submissions, calls and commands are finite
sets and a server that has stopped has stopped, so every behaviour may end.

| Run | Instance | Shows |
|---|---|---|
| `relay_runs` | two submissions of one request, a rehydrated TIM_REQUIRED record, a queue call, both answers | a request runs once, another run needs a recorded approval, verdicts are final, the owner record names the run, a successful stop leaves at most previews (708,000 states, 20 s) |
| `relay_settles` | two submissions of one request, a retry, a queue call, the answer DENY_REQUEST, fair | no two runs at once, the relay implements the foreground slot; every submission is answered and every first run ends (149,000 states, 55 s) |
| `admission_faults` | three calls in sequence, two contents, every fault, crashes | the file invariants hold, receipts are final, the files implement the ledger (87,000 states, 10 s) |
| `ownership_serial` | three instances, two recoveries, one command at a time, crashes | a serving instance is the recorded one, what a crash leaves behind has one cause, only the owner removes a live record (124,000 states, 7 s) |
| `ownership_races` | three overlapping starts, crashes, looks that miss | never two live instances past the claim (20,000 states, 2 s) |
| `owned_cleanup` | two roots that come to one process id, a descendant, two cleanups, one failing write, fair | registry and ledger agree, ends are true and final, a confirmed cleanup left nothing alive, leaves are ended first, a cleanup ends (678,000 states, 145 s) |
| `recovery_runs` | two requests, five actions, taken during and after a drain too, three server generations, one reconciliation that misses something, one receipt that fails, a drain that fails, crashes, fair | stop records are backed and unique, receipts are true, one new run per evidence and server, no retry after its receipt, every request ends (895,000 states, 135 s) |
| `turn_ends` | seven kinds of line, four of them beside the answers, one before the turn is requested, malformed lines, death at any moment, fair | a success was earned, a promise is settled or pending, the adapter ends (997,000 states, 85 s) |

The other runs expect a violation; see
[below](#where-documents-and-code-disagree).

Why the bounds are enough. In the relay two calls of one kind meet in every pair
of steps; a third submission matters only for the slot, where a different
request has to compete. A retry, a rehydrated record and a queue call each
differ from a submission in how they take the foreground, and one of each
suffices to overlap with the two submissions (all at once is beyond five
minutes, so the runs share them out; the proofs cover any mixture). There is no
counter to bound: `revision` and `runs` grow only with answers, and a request is
answered once. In the admission a first call can fail anywhere, a second can
fail while it meets what the first left (the envelope of an earlier rollback
included), and a third meets what two failures left. In the ownership protocol a
crashed instance, a half-finished recovery of it and a second recovery leave
their files to a third start; three starts let two overlap while the files of a
third are in the way. Instances are interchangeable, and so are recoveries,
which `MCServerOwnership` gives TLC as a symmetry (its properties are invariants
and one action property, for which that is sound).

`MaxPasses` is 2 instead of the eight of the code: a first pass that something
disturbs and a last one that may or may not be enough are the two kinds there
are. `MaxFaults` bounds writes that fail; each leaves a state the following
cleanup has to refuse. `MaxGeneration` 3 registers every process. For the
recovery, two decisions contradict or repeat each other, and the third server
generation meets what two crashes left. The run leaves out DECLINE_RECOVERY and
the two actions that only read: they take the paths of ACKNOWLEDGE_COMPLETED and
of a request that ends without a write. In a turn four lines are the start, the
message and the completion a success needs, and one more at any place: one that
should spoil it, or a completed item of another type, which must not; `MaxEarly`
lets one come before the turn is requested. The proofs need none of these
bounds.

Every property of a passing run has a mutant in `PROJECT.json`: a form of one
definition that a plausible bug would give it, under which TLC finds the
property violated.

## Fairness

`FairSpec` of `HqMissionRelay` assumes weak fairness of what the code bounds
by timers, and of nothing an operator decides. A preview child is killed after
its timeout (`server.mjs:474`), an executor and a wrapper after theirs
(`#spawnOwned`), so the steps that receive their ends are fair. The steps of
`shutdown()` are fair once it has begun, because its cleanup makes a bounded
number of passes and its wait for the close event ends after 15 seconds. Submitting, answering,
retrying and starting a shutdown are not fair. `ForegroundSlot` asks for weak
fairness of its release.

`FairSpec` of `OwnedProcesses` lets a registration, which does not await, and a
cleanup, whose waits have deadlines, go on; processes owe nothing, and nobody has
to start a cleanup. In `RecoveryActions` the steps of a request and of the
shutdown's record are fair: those that hold the event loop await nothing, and
the new run, the preparation and the wrapper have time limits (`RunThrows`,
`WrapperEnds` are those limits). The source run, the operator, crashes and
restarts are not fair. In `AppServerTurn` continuations, the bounded inspection
of the spawn and every timer are fair; the server owes neither an answer nor a
line, and its exit need not be noticed.

## Proofs

The constants are arbitrary sets in every theorem; the assumptions
(`RelayAssumption`, `AdmissionAssumption`, `OwnershipAssumption`,
`OwnedAssumption`, `RecoveryAssumption`, and those of `AppServerTurn`) only say
that names are distinct, flags Boolean and bounds numbers, that `Procs` is
finite with a parent for every process but the roots, and what a line looks
like; TLC evaluates them on each run.

**HqMissionRelayProofs.** `Invariant` proves `IInv` inductive, and
`TypeCorrect`, `ForegroundIsExclusive`, `RequestsRunOnce`,
`RunsWithinAuthority`, `EvidenceIsCurrent`, `StopsSpareOnlyPreviews`,
`AnswersFindIdleMissions` and `VerdictsStand` follow. None of these properties
is inductive alone. A run is exclusive because the active mission is the one
that runs and is not terminal until it ends (`ActiveRuns`), which in turn needs
that a mission has one coroutine (`OneCoroutine`) though `respond()` never
checks it: an answer is accepted only for a terminal TIM_REQUIRED record, and
no record is that while its coroutine lives. A request runs once because what
ran without completing is still active or has no way back (`RanOnce`). Verdicts
stand because a verdict is terminal and without coroutine (`VerdictsAreEnds`).
What a stop leaves needs that the cleanup's list covers every owner with a child
it can know of (`CleanedUp`); a preview's is the exception the statement names.

What an approval changes is exactly what the theorems with
`Responses \subseteq {"DENY_REQUEST"}` assume away: while answers only deny,
no mission has a second revision (`OnlyDenied`), every step of the relay is one
of the foreground slot or leaves it alone (`RelayIsSlot`, the safety part of
the refinement, for the answers run `relay_settles` allows), and the one active mission of the
documents holds (`OneMissionWithoutApproval`). `relay_one_active` has one
approval and breaks it.

`PromisesHaveRuns` is the half of `SubmissionsSettle` and `FirstRunsRelease`
that needs no fairness: a submission is pending exactly while its preview is
recomputed or its first run has a process, so a promise is neither dropped nor
settled early, and a submission that holds the foreground in its first run has
a process that can give it back, even when a shutdown has closed its record.

**AdmissionTransactionProofs.** Two invariants. `OverlapInv` holds however calls
overlap, fail and crash: between its move of the record and the receipt one call
holds the record, a rollback under way included, nobody else moves it meanwhile,
and once there is a receipt nobody holds it (`RecordIsHeld`). From it come
`TypeCorrect`, `ReceiptsAreFinal`, `OnlyBoundIsAdmitted` (the record reaches
`complete_ready_for_gate` only for the content the manifest binds) and
`CommitsNameReceipts` (a committed transaction hashes the preserved receipt, a
conflict is of another content).

With `Overlap = FALSE`, `Invariant` proves `IInv`: what the call in progress
finds in the files at each of its steps (`At`), and that the files agree between
calls. `CommitsAreComplete`, `AdvancesAreAccountedFor` and `ReceiptsReplay`
follow, and the refinement `FilesImplementLedger`, by the lemma that every
operation is a ledger step or leaves record and receipt alone. These are false
when calls overlap: the call that loses writes the transaction over the winner's, as
`admission_overlap` shows. One call at a time is what the queue executor gives:
it takes the record by moving it and makes one admission call
(`Invoke-TsfMissionQueueForegroundExecutor.ps1:491`). The command line tool
`Get-TsfAdmissionDecision.ps1` can overlap it.

**ServerOwnershipProofs.** `TypeCorrect` holds always. `ClaimExcludes` needs
only that nothing is recovered: whoever is past the claim has the token on disk
(`TokenHeld`), and it is created exclusively. The other theorems assume
`Serial`: commands come one at a time, and looks at processes do not fail or
nothing is recovered. `ServersAreRecorded`, `ClaimExcludesSerially` (with
recoveries, which clear tokens) and `OwnersRemoveAlone` rest on an invariant that
says that from the rename to the removal the record is the live instance's
(`RecordHeld`), likewise for the token (`TokenHeldLive`), that what a start has
seen absent stays absent (`ChecksHold`), that a record judged stale stays until
the recovery removes it (`JudgmentHolds`), and that an instance between removing
its record and its token meets neither another record nor a recovery
(`HalfRemovedAlone`); the last is what keeps a slow release from removing its
successor's token. `LeftoversExplained` says what a crash may leave: a token
without record only from a removal cut in half, a receipt beside its record only
from a recovery cut there. Neither condition can be dropped: TLC finds each of
the four properties violated on the small instance when commands overlap and
something is recovered, or when a look may miss and something is recovered;
without recoveries overlap still breaks all but the claim.

**OwnedProcessesProofs.** Two invariants in a row. `RegistryInv` says what each
registration has reserved and logged and what a cleanup may hold at each
`await`; `LedgerCorrect`, `ParentsCorrect` and `EndsAreFinal` follow from it for
any looks at processes. `GoneInv` adds that ended, buffered and counted
processes are dead; `EndsAreTrue` and `CleanupsAreTrue` assume `Blind = FALSE`,
and `owned_blind` shows why. The set
of processes is finite, because `LedgerAgrees` counts.

**OwnedTreeProofs.** `LeavesComeFirst`, for any tree. Depth and ancestry are
recursive functions along the parent links. A link leads to an entry with an
older generation (`ParentsCorrect`), so `AlongExists` builds such a function
generation by generation and `ParentInduction` reduces a claim about all entries
to one about an entry and its parent; both take the least counterexample
(`Least`, from the library's well-founded strict subsets) instead of an
induction scheme. `DepthByParent` and `AncestorsAreHigher` follow. With them a
cleanup that takes a deepest entry of its list can kill above a living entry
only if the list forgot one, and `PassKnows` says that a list drops only what
has an end.

**RecoveryActionsProofs.** The invariant ties the actor that holds the event
loop to the disk: between `Preserves` and `Records` the snapshot it names is
there, a run that is preparing has its stop record, a run of this generation is
in `recoveries`. None of it depends on whether the server is up, draining or
wedged: requests are taken in all three. `BackedCorrect`, `OneStopCorrect`,
`ReceiptsCorrect`, `RetriedOnceCorrect`, `BesideCorrect` and `EndsCorrect`
follow for any number of requests, generations, missed looks, failed receipts
and failed drains. `RepeatsNeedALostReceipt` delimits what `recovery_repeat`
finds: in a behaviour in which no server crashes and no write fails while the
receipt of an ended new run is due (`ReceiptLost`), no recovery is ever
repeated. Crashes at every other moment, restarts, refusals and failed runs do
not matter.

**AppServerTurnProofs.** While no objection was raised, the variables of the
adapter are what a reader of the whole journal finds (`Heard`); the verdict reads
the variables, so `SuccessCorrect` follows for any set of lines in any number
and order. `Objected` is needed because the timer and a broken line raise their
objection in a step of their own, `Judged` because lines keep coming after the
verdict. `RefusalsCorrect` is the converse: a result that reports a failure has
a cause in the journal, or no turn was bound, or a timer fired or a line was
broken. Its invariant is that a journal without a cause was followed without an
objection (`Blameless => Followed`). TLC found the last disjunct of the
statement: a line of another thread, sent before the turn is bound, makes the
adapter refuse a turn whose journal is otherwise in order.

Only model-checked: the liveness properties (`SubmissionsSettle`,
`FirstRunsRelease`, `CleanupEnds`, `RequestsEnd`, `AdapterEnds`) and the release
that `ForegroundSlot` demands. They need fairness and ENABLED, which the prover
does not handle.

## Where documents and code disagree

Each of these runs checks one statement of a document, a comment or a test and
TLC finds a behaviour of the model that breaks it. `PROJECT.json` quotes the
statements.

| Run | What happens |
|---|---|
| `relay_one_active` | An answer starts its revision without looking at `activeMissionId` again, beside a mission that was submitted while the response wrapper ran. (Only an approval does this: `OneMissionWithoutApproval`.) |
| `admission_overlap` | A call that overlapped the committing one leaves ROLLED_BACK beside the receipt, and no resubmission can return it. (The receipt and the record stay right: `ReceiptsAreFinal`, `OnlyBoundIsAdmitted`.) |
| `owned_blind` | An inspection that fails reads as a process that is gone, so the cleanup confirms while the process runs. (With looks that do not fail it is true: `CleanupsAreTrue`.) |
| `recovery_repeat` | A server that ends between a new run and its receipt leaves nothing by which the next one would know the run, and repeats it. (Nothing else does: `RepeatsNeedALostReceipt`.) |

More things the models do, because the code does, that no run states. The first
four contradict a document or a test as well; the instances of the runs above
reach them.

- A response is recorded before it has been tried (`mission-relay.mjs:867`), so
  one that is refused or whose wrapper fails can never be given again;
  `RESPONSE_IDEMPOTENCY.md:12` says the map of responses only collapses
  concurrent double clicks and is not authoritative.
- `shutdown()` decides at its start which mission it interrupts and writes the
  interruption record although a canonical admission was applied meanwhile
  (`mission-relay.mjs:1083`); `tests/test-tsf-stop-receipt-contract-v1.mjs:220`
  asserts that a completion race is not relabeled.
- Of two overlapping starts the second renames its record over the live first
  one's (`reliability.mjs:147`); the token stops it, and its release then
  removes its own record and leaves the first without one. `READ_THIS_FIRST.md:7`
  calls the claimed record atomic.
- After a crash between the removal of record and token the Doctor
  (`reliability.mjs:826`) says a start may claim a fresh record, but `claim()`
  refuses because of the token, and the stale-owner recovery refuses too.
- A successful stop may leave the PowerShell child of a preview behind: nothing
  tracks or registers it (`server.mjs:456`, awaited at `mission-relay.mjs:406`);
  its own timer kills it only while the server lives. `StopLeavesOnlyPreviews`
  says that nothing else is left; without its last disjunct TLC refutes it after
  a submission and the four steps of a stop.
- After a revision has taken over and cleared `activeMissionId`, an identical
  submission starts a second executor while the first still runs
  (`mission-relay.mjs:942`); it follows from what `relay_one_active` shows.
- `acceptedResponse` is never cleared, so the TIM_REQUIRED request of revision
  2 cannot be answered (`mission-relay.mjs:864`).
- The recovery envelope of a first rollback is immutable and refuses a second
  one; the record then stays advanced without a receipt
  (`TsfDurableContract.Canonical.ps1:810`). `AdvanceIsAccountedFor` still
  holds: the transaction says where the record was sent.
- A recovery of a stale owner that died after its receipt makes every later one
  fail on the immutable receipt (`reliability.mjs:1828`);
  `LeftoversAreHalfRemoved` says that nothing else leaves such a pair.
- A failed look at a process reads as a process that is gone
  (`reliability.mjs:207`, `:346`), so a recovery may remove the record of a
  running server; `OnlyOwnerRemoves` is checked without such looks, and proved
  without them or without recoveries.
  A reconciliation takes a live run for an interrupted one for the same reason.
- A close event that arrives while a cleanup waits for the process it has killed
  records COOPERATIVE first; the cleanup's FORCED is then a conflict and fails
  the cleanup though everything is gone (`EndRefused`).
- An entry whose registration failed half way makes every later cleanup throw
  (`Reconciles`), and an event that was lost after its disposition was set is
  never written again.
- A refused preparation of a retry leaves `activeMissionId` set
  (`RunThrows`), so the relay takes nothing else until it restarts; a torn
  snapshot makes every later interruption of that run fail (`Fits`); a mark
  after the shutdown's own stop record is always a conflict (`Conflicts`).
- The operator can mark or retry a run while the server drains: the stop record
  of that request is then first, and the shutdown's own interruption fails on it
  without a word to anyone but the record (`mission-relay.mjs:1085`). The stop
  record of a retry stays although the retry is then refused.
- A server of Codex that dies without a word after the turn was started is
  waited for until the timer (`TurnOver` does not look at `childExited`).
- Lines after the verdict are still handled: a message may overwrite the response
  a success reports, and a write to an ended stream ends the adapter without a
  result (`LineBreaks`, `WriteBreaks`), as does an effort it does not know
  (`EffortBreaks`).

## What is not modelled

`PROJECT.json` gives a reason for each component without a module. In short:
validation, naming, gates, reports and generators compute and keep no state
that others change; the browser page and HTTP routing are I/O around the relay;
wrappers are modelled by how they end. The queue executor appears as the source
run of `RecoveryActions` and as the caller of `AdmissionTransaction`, but its
own steps are not modelled; the checkpoint loop, its watchdog and the kill
switch do have state and interleavings of their own and are in the plan.

## Plan

In order of importance to a mission's life.

1. Done: `HqMissionRelay` with `ForegroundSlot`; `AdmissionTransaction` with
   `AdmissionLedger`; `ServerOwnership`; `OwnedProcesses`; `RecoveryActions`;
   `AppServerTurn`; the proofs of each.
2. `MissionQueue`: the executor's walk from drafted to `postrun_pending` with
   crashes, composed with `AdmissionTransaction`, which starts where it ends,
   and as the detailed form of `RecoveryActions`' source. Theorem: a record is
   executed at most once.
3. `OwnedProcesses` composed with `HqMissionRelay`'s shutdown, so that
   `StopLeavesOnlyPreviews` rests on `ConfirmedMeansGone` instead of a list of
   owners.
4. `CheckpointLoop` with its lock and safe stop, the watchdog and the kill
   switch as actors; the enforcement kernel's approvals.
