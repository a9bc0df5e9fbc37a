------------------------ MODULE OwnedProcessesProofs ------------------------
(***************************************************************************)
(* Proofs about OwnedProcesses, for any processes, cleanups, passes and    *)
(* faults.  Registered says what the steps of the registry rely on: an     *)
(* entry belongs to a process that was born, a half-made one holds the     *)
(* loop, no entry is newer than the generation.  On it rest the agreement  *)
(* of registry and ledger, the order of the parent links, and, when a      *)
(* look at a live process finds it, that what has an end is gone.          *)
(***************************************************************************)
EXTENDS OwnedProcesses, FiniteSetTheorems, TLAPS

\* What holds of an entry and of a cleanup between any two steps.
EntryFacts(p) ==
    /\ registeredAt[p] <= generation
    /\ status[p] # "absent" => os[p] # "unborn"
    /\ status[p] = "absent" => registers[p] = 0 /\ parent[p] = None
    /\ status[p] = "PENDING" => registers[p] = 0 /\ loop = p
    /\ buffered[p] # None => status[p] \in {"PENDING", "INCOMPLETE"}
CleanupFacts(c) ==
    /\ pc[c] \in {"killing", "waiting"} =>
          target[c] \in Procs /\ status[target[c]] # "absent"
    /\ todo[c] \subseteq Entries
    /\ seen[c] <= generation
Registered ==
    /\ \A p \in Procs : EntryFacts(p)
    /\ \A c \in Cleanups : CleanupFacts(c)

Wellformed == TypeOK /\ Registered

-----------------------------------------------------------------------------
(* Types                                                                   *)

LEMMA InitWellformed == ASSUME OwnedAssumption, Init PROVE Wellformed
<1>1. TypeOK BY DEF OwnedAssumption, Init, TypeOK
<1>2. Registered BY DEF OwnedAssumption, Init, Registered, EntryFacts, CleanupFacts, Entries
<1> QED BY <1>1, <1>2 DEF Wellformed

\* A cleanup records the end of p, or fails to.
LEMMA RecordsTyped ==
    ASSUME OwnedAssumption, TypeOK, NEW c \in Cleanups, NEW p \in Procs,
           NEW d \in Confirmed, Records(c, p, d) \/ RecordFails(c, p, d),
           UNCHANGED <<osVars, entryVars, ownerVars, targeted>>
    PROVE  TypeOK'
<1>1. /\ UNCHANGED <<os, closed, status, registeredAt, parent, registers, generation,
                     buffered, children, closing, target, seen, passes, targeted>>
      /\ loop' \in {c, None}
      /\ pc' = [pc EXCEPT ![c] = "working"] \/ pc' = [pc EXCEPT ![c] = "failed"]
      /\ todo' = [todo EXCEPT ![c] = @ \ {p}] \/ UNCHANGED todo
  BY DEF osVars, entryVars, ownerVars, Records, RecordFails, Fails, Goes
<1>2. /\ disposition' = [disposition EXCEPT ![p] = d] \/ UNCHANGED disposition
      /\ confirms' = [confirms EXCEPT ![p] = @ + 1] \/ UNCHANGED confirms
      /\ faults' = faults + 1 \/ UNCHANGED faults
  BY DEF Records, RecordFails, Ends, EndRefused, EndWriteFails, WriteFails, endVars
<1>3. disposition' \in [Procs -> Confirmed \cup {Unconfirmed, None}]
  BY <1>2 DEF TypeOK
<1>4. confirms' \in [Procs -> Nat] /\ faults' \in Nat BY <1>2 DEF TypeOK
<1>5. pc' \in [Cleanups -> {"idle", "between", "working", "killing", "waiting",
                            "settling", "confirmed", "failed"}]
  BY <1>1 DEF TypeOK
<1>6. todo' \in [Cleanups -> SUBSET Procs]
  <2>1. todo[c] \ {p} \in SUBSET Procs BY DEF TypeOK
  <2> QED BY <1>1, <2>1 DEF TypeOK
<1>7. loop' \in Procs \cup Cleanups \cup {None} BY <1>1
<1>8. closing' \in BOOLEAN BY <1>1 DEF TypeOK
<1> QED BY <1>1, <1>3, <1>4, <1>5, <1>6, <1>7, <1>8 DEF TypeOK

LEMMA NextTyped ==
    ASSUME OwnedAssumption, Wellformed, Next
    PROVE  TypeOK'
<1> USE DEF OwnedAssumption, Wellformed, TypeOK, Registered, CleanupFacts,
       Entries, WithoutPid, Cooperative, Forced, Gone, Unconfirmed, Confirmed,
       CloseDisposition, osVars, entryVars, endVars, ownerVars, cleanupVars
<1>1. ASSUME NEW p \in Procs, DescendantStarts(p)
      PROVE  TypeOK'
  BY <1>1 DEF DescendantStarts
<1>2. ASSUME NEW p \in Procs, ProcessExits(p)
      PROVE  TypeOK'
  BY <1>2 DEF ProcessExits
<1>3. ASSUME NEW p \in Procs, ChildRefused(p)
      PROVE  TypeOK'
  BY <1>3 DEF ChildRefused
<1>4. ASSUME NEW p \in Procs, ChildRegisters(p)
      PROVE  TypeOK'
  BY <1>4 DEF ChildRegisters, RegistrationBegins
<1>5. ASSUME NEW p \in Procs, RegistrationCommits(p)
      PROVE  TypeOK'
  BY <1>5 DEF RegistrationCommits
<1>6. ASSUME NEW p \in Procs, RegistrationUnlisted(p)
      PROVE  TypeOK'
  BY <1>6 DEF RegistrationUnlisted, WriteFails
<1>7. ASSUME NEW p \in Procs, RegistrationFails(p)
      PROVE  TypeOK'
  BY <1>7 DEF RegistrationFails, WriteFails
<1>8. ASSUME NEW p \in Procs, ExitDuringRegistration(p)
      PROVE  TypeOK'
  BY <1>8 DEF ExitDuringRegistration
<1>9. ASSUME NEW p \in Procs, DescendantReleased(p)
      PROVE  TypeOK'
  BY <1>9 DEF DescendantReleased
<1>10. ASSUME NEW r \in Roots, LaunchChild(r)
      PROVE  TypeOK'
  BY <1>10 DEF LaunchChild
<1>11. ASSUME NEW r \in Roots, CloseUnrecorded(r)
      PROVE  TypeOK'
  BY <1>11 DEF CloseUnrecorded, CloseArrives, IsEntryOf
<1>12. ASSUME NEW r \in Roots, CloseRecorded(r)
      PROVE  TypeOK'
  BY <1>12 DEF CloseRecorded, CloseArrives, IsEntryOf, Ends
<1>13. ASSUME NEW r \in Roots, CloseWriteFails(r)
      PROVE  TypeOK'
  BY <1>13 DEF CloseWriteFails, CloseArrives, IsEntryOf, EndWriteFails,
     WriteFails
<1>14. ASSUME NEW r \in Roots, NEW p \in Procs, DescendantRegisters(r, p)
      PROVE  TypeOK'
  BY <1>14 DEF DescendantRegisters, ReportAllowed, RegistrationBegins,
     IsEntryOf
<1>15. ASSUME NEW r \in Roots, NEW p \in Procs, DescendantOfIncomplete(r, p)
      PROVE  TypeOK'
  BY <1>15 DEF DescendantOfIncomplete, ReportAllowed
<1>16. CASE ShutdownBegins
  BY <1>16 DEF ShutdownBegins
<1>17. ASSUME NEW c \in Cleanups, CleanupRefused(c)
      PROVE  TypeOK'
  BY <1>17 DEF CleanupRefused, Fails, Goes
<1>18. ASSUME NEW c \in Cleanups, CleanupBeginFails(c)
      PROVE  TypeOK'
  BY <1>18 DEF CleanupBeginFails, Fails, Goes, WriteFails
<1>19. ASSUME NEW c \in Cleanups, NEW h \in Roots \cup {None}, CleanupBegins(c, h)
      PROVE  TypeOK'
  BY <1>19 DEF CleanupBegins, Goes
<1>20. ASSUME NEW c \in Cleanups, PassStarts(c)
      PROVE  TypeOK'
  BY <1>20 DEF PassStarts, Goes, Unended
<1>21. ASSUME NEW c \in Cleanups, NEW p \in Procs, EntryGone(c, p)
      PROVE  TypeOK'
  <2> HIDE DEF TypeOK, osVars, entryVars, ownerVars
  <2> QED BY <1>21, RecordsTyped DEF EntryGone
<1>22. ASSUME NEW c \in Cleanups, NEW p \in Procs, EntryTargeted(c, p)
      PROVE  TypeOK'
  BY <1>22 DEF EntryTargeted, IsNext, Goes
<1>23. ASSUME NEW c \in Cleanups, NEW p \in Procs, EntryTargetFails(c, p)
      PROVE  TypeOK'
  BY <1>23 DEF EntryTargetFails, IsNext, Goes, Fails, WriteFails
<1>24. ASSUME NEW c \in Cleanups, KillRuns(c)
      PROVE  TypeOK'
  BY <1>24 DEF KillRuns, Goes
<1>25. ASSUME NEW c \in Cleanups, TargetStillAlive(c)
      PROVE  TypeOK'
  BY <1>25 DEF TargetStillAlive
<1>26. ASSUME NEW c \in Cleanups, TargetGone(c)
      PROVE  TypeOK'
  <2>1. target[c] \in Procs BY <1>26 DEF TargetGone
  <2> HIDE DEF TypeOK, osVars, entryVars, ownerVars
  <2> QED BY <1>26, <2>1, RecordsTyped DEF TargetGone
<1>27. ASSUME NEW c \in Cleanups, TargetUnconfirmed(c)
      PROVE  TypeOK'
  BY <1>27 DEF TargetUnconfirmed, Ends, EndRefused, EndWriteFails, WriteFails,
     Goes, Fails
<1>28. ASSUME NEW c \in Cleanups, PassEnds(c)
      PROVE  TypeOK'
  BY <1>28 DEF PassEnds, Goes
<1>29. ASSUME NEW c \in Cleanups, CleanupConfirms(c)
      PROVE  TypeOK'
  BY <1>29 DEF CleanupConfirms, Goes, Stable
<1>30. ASSUME NEW c \in Cleanups, NextPass(c)
      PROVE  TypeOK'
  BY <1>30 DEF NextPass, Goes
<1>31. ASSUME NEW c \in Cleanups, CleanupGivesUp(c)
      PROVE  TypeOK'
  BY <1>31 DEF CleanupGivesUp, Goes, Fails, WriteFails
<1> HIDE DEF Wellformed, TypeOK, Registered, CleanupFacts, Entries
<1> QED BY <1>1, <1>2, <1>3, <1>4, <1>5, <1>6, <1>7, <1>8, <1>9, <1>10, <1>11,
          <1>12, <1>13, <1>14, <1>15, <1>16, <1>17, <1>18, <1>19, <1>20, <1>21,
          <1>22, <1>23, <1>24, <1>25, <1>26, <1>27, <1>28, <1>29, <1>30, <1>31
       DEF Next, Registration, Close, Cleanup, CleanupEntry

LEMMA NextRegistered ==
    ASSUME OwnedAssumption, Wellformed, TypeOK', Next
    PROVE  Registered'
<1> USE DEF OwnedAssumption, Wellformed, TypeOK, Registered, EntryFacts,
       CleanupFacts, Entries, SeenAlive, Cooperative, Forced, Gone,
       Unconfirmed, Confirmed, CloseDisposition, osVars, entryVars, endVars,
       ownerVars, cleanupVars
<1>1. ASSUME NEW p \in Procs, DescendantStarts(p)
      PROVE  Registered'
  BY <1>1 DEF DescendantStarts
<1>2. ASSUME NEW p \in Procs, ProcessExits(p)
      PROVE  Registered'
  BY <1>2 DEF ProcessExits
<1>3. ASSUME NEW p \in Procs, ChildRefused(p)
      PROVE  Registered'
  BY <1>3 DEF ChildRefused
<1>4. ASSUME NEW p \in Procs, ChildRegisters(p)
      PROVE  Registered'
  BY <1>4 DEF ChildRegisters, RegistrationBegins
<1>5. ASSUME NEW p \in Procs, RegistrationCommits(p)
      PROVE  Registered'
  BY <1>5 DEF RegistrationCommits
<1>6. ASSUME NEW p \in Procs, RegistrationUnlisted(p)
      PROVE  Registered'
  BY <1>6 DEF RegistrationUnlisted, WriteFails
<1>7. ASSUME NEW p \in Procs, RegistrationFails(p)
      PROVE  Registered'
  BY <1>7 DEF RegistrationFails, WriteFails
<1>8. ASSUME NEW p \in Procs, ExitDuringRegistration(p)
      PROVE  Registered'
  BY <1>8 DEF ExitDuringRegistration
<1>9. ASSUME NEW p \in Procs, DescendantReleased(p)
      PROVE  Registered'
  BY <1>9 DEF DescendantReleased
<1>10. ASSUME NEW r \in Roots, LaunchChild(r)
      PROVE  Registered'
  BY <1>10 DEF LaunchChild
<1>11. ASSUME NEW r \in Roots, CloseUnrecorded(r)
      PROVE  Registered'
  BY <1>11 DEF CloseUnrecorded, CloseArrives, IsEntryOf
<1>12. ASSUME NEW r \in Roots, CloseRecorded(r)
      PROVE  Registered'
  BY <1>12 DEF CloseRecorded, CloseArrives, IsEntryOf, Ends
<1>13. ASSUME NEW r \in Roots, CloseWriteFails(r)
      PROVE  Registered'
  BY <1>13 DEF CloseWriteFails, CloseArrives, IsEntryOf, EndWriteFails,
     WriteFails
<1>14. ASSUME NEW r \in Roots, NEW p \in Procs, DescendantRegisters(r, p)
      PROVE  Registered'
  BY <1>14 DEF DescendantRegisters, ReportAllowed, RegistrationBegins,
     IsEntryOf
<1>15. ASSUME NEW r \in Roots, NEW p \in Procs, DescendantOfIncomplete(r, p)
      PROVE  Registered'
  BY <1>15 DEF DescendantOfIncomplete, ReportAllowed
<1>16. CASE ShutdownBegins
  BY <1>16 DEF ShutdownBegins
<1>17. ASSUME NEW c \in Cleanups, CleanupRefused(c)
      PROVE  Registered'
  BY <1>17 DEF CleanupRefused, Fails, Goes
<1>18. ASSUME NEW c \in Cleanups, CleanupBeginFails(c)
      PROVE  Registered'
  BY <1>18 DEF CleanupBeginFails, Fails, Goes, WriteFails
<1>19. ASSUME NEW c \in Cleanups, NEW h \in Roots \cup {None}, CleanupBegins(c, h)
      PROVE  Registered'
  BY <1>19 DEF CleanupBegins, Goes
<1>20. ASSUME NEW c \in Cleanups, PassStarts(c)
      PROVE  Registered'
  BY <1>20 DEF PassStarts, Goes, Unended
<1>21. ASSUME NEW c \in Cleanups, NEW p \in Procs, EntryGone(c, p)
      PROVE  Registered'
  BY <1>21 DEF EntryGone, IsNext, Records, RecordFails, Ends, EndRefused,
     EndWriteFails, WriteFails, Goes, Fails
<1>22. ASSUME NEW c \in Cleanups, NEW p \in Procs, EntryTargeted(c, p)
      PROVE  Registered'
  BY <1>22 DEF EntryTargeted, IsNext, Goes
<1>23. ASSUME NEW c \in Cleanups, NEW p \in Procs, EntryTargetFails(c, p)
      PROVE  Registered'
  BY <1>23 DEF EntryTargetFails, IsNext, Goes, Fails, WriteFails
<1>24. ASSUME NEW c \in Cleanups, KillRuns(c)
      PROVE  Registered'
  BY <1>24 DEF KillRuns, Goes
<1>25. ASSUME NEW c \in Cleanups, TargetStillAlive(c)
      PROVE  Registered'
  BY <1>25 DEF TargetStillAlive
<1>26. ASSUME NEW c \in Cleanups, TargetGone(c)
      PROVE  Registered'
  BY <1>26 DEF TargetGone, Records, RecordFails, Ends, EndRefused,
     EndWriteFails, WriteFails, Goes, Fails
<1>27. ASSUME NEW c \in Cleanups, TargetUnconfirmed(c)
      PROVE  Registered'
  BY <1>27 DEF TargetUnconfirmed, Ends, EndRefused, EndWriteFails, WriteFails,
     Goes, Fails
<1>28. ASSUME NEW c \in Cleanups, PassEnds(c)
      PROVE  Registered'
  BY <1>28 DEF PassEnds, Goes
<1>29. ASSUME NEW c \in Cleanups, CleanupConfirms(c)
      PROVE  Registered'
  BY <1>29 DEF CleanupConfirms, Goes, Stable
<1>30. ASSUME NEW c \in Cleanups, NextPass(c)
      PROVE  Registered'
  BY <1>30 DEF NextPass, Goes
<1>31. ASSUME NEW c \in Cleanups, CleanupGivesUp(c)
      PROVE  Registered'
  BY <1>31 DEF CleanupGivesUp, Goes, Fails, WriteFails
<1> HIDE DEF Wellformed, TypeOK, Registered, EntryFacts, CleanupFacts, Entries
<1> QED BY <1>1, <1>2, <1>3, <1>4, <1>5, <1>6, <1>7, <1>8, <1>9, <1>10, <1>11,
          <1>12, <1>13, <1>14, <1>15, <1>16, <1>17, <1>18, <1>19, <1>20, <1>21,
          <1>22, <1>23, <1>24, <1>25, <1>26, <1>27, <1>28, <1>29, <1>30, <1>31
       DEF Next, Registration, Close, Cleanup, CleanupEntry

LEMMA NextWellformed ==
    ASSUME OwnedAssumption, Wellformed, [Next]_vars PROVE Wellformed'
<1>1. CASE Next BY <1>1, NextTyped, NextRegistered DEF Wellformed
<1>2. CASE UNCHANGED vars
  BY <1>2 DEF vars, osVars, entryVars, endVars, ownerVars, cleanupVars, Wellformed,
     TypeOK, Registered, EntryFacts, CleanupFacts, Entries
<1> QED BY <1>1, <1>2

\* Every variable keeps to its set, whatever the processes and cleanups do.
THEOREM TypeCorrect == ASSUME OwnedAssumption PROVE Spec => []TypeOK
<1>1. Spec => []Wellformed BY InitWellformed, NextWellformed, PTL DEF Spec
<1>2. Wellformed => TypeOK BY DEF Wellformed
<1> QED BY <1>1, <1>2, PTL

-----------------------------------------------------------------------------
(* Registry and ledger                                                     *)

EntryAgrees(p) ==
    /\ registers[p] <= 1
    /\ confirms[p] <= 1
    /\ status[p] = "COMMITTED" => registers[p] = 1
    /\ disposition[p] # None => status[p] = "COMMITTED"
    /\ disposition[p] = None => confirms[p] = 0
Agrees == \A p \in Procs : EntryAgrees(p)

LEMMA EndsAgree ==
    ASSUME OwnedAssumption, Wellformed, Agrees, UNCHANGED <<status, registers>>,
           NEW e \in Procs, NEW d \in Confirmed \cup {Unconfirmed},
           Ends(e, d) \/ EndRefused(e, d) \/ EndWriteFails(e, d)
    PROVE  Agrees'
<1> USE DEF OwnedAssumption, Wellformed, TypeOK, Agrees, EntryAgrees, Confirmed,
            Unconfirmed, Cooperative, Forced, Gone, endVars
<1>1. CASE Ends(e, d) /\ disposition[e] = None
  <2>1. confirms[e] = 0 BY <1>1
  <2>2. disposition' = [disposition EXCEPT ![e] = d] /\ d # None
    BY <1>1 DEF Ends
  <2>3. confirms' = [confirms EXCEPT ![e] = @ + 1] BY <1>1, <2>2 DEF Ends
  <2>4. registers[e] = 1 /\ status[e] = "COMMITTED" BY <1>1 DEF Ends
  <2> QED BY <2>1, <2>2, <2>3, <2>4
<1>2. CASE Ends(e, d) /\ disposition[e] # None BY <1>2 DEF Ends
<1>3. CASE EndRefused(e, d) BY <1>3 DEF EndRefused
<1>4. CASE EndWriteFails(e, d) BY <1>4 DEF EndWriteFails
<1> QED BY <1>1, <1>2, <1>3, <1>4

LEMMA NextAgrees ==
    ASSUME OwnedAssumption, Wellformed, TypeOK', Agrees, Next
    PROVE  Agrees'
<1> USE DEF OwnedAssumption, Wellformed, TypeOK, Registered, EntryFacts,
       CleanupFacts, Agrees, EntryAgrees, Entries, Cooperative, Forced, Gone,
       Unconfirmed, Confirmed, CloseDisposition, osVars, entryVars, endVars,
       ownerVars, cleanupVars
<1>1. ASSUME NEW p \in Procs, DescendantStarts(p)
      PROVE  Agrees'
  BY <1>1 DEF DescendantStarts
<1>2. ASSUME NEW p \in Procs, ProcessExits(p)
      PROVE  Agrees'
  BY <1>2 DEF ProcessExits
<1>3. ASSUME NEW p \in Procs, ChildRefused(p)
      PROVE  Agrees'
  BY <1>3 DEF ChildRefused
<1>4. ASSUME NEW p \in Procs, ChildRegisters(p)
      PROVE  Agrees'
  BY <1>4 DEF ChildRegisters, RegistrationBegins
<1>5. ASSUME NEW p \in Procs, RegistrationCommits(p)
      PROVE  Agrees'
  BY <1>5 DEF RegistrationCommits
<1>6. ASSUME NEW p \in Procs, RegistrationUnlisted(p)
      PROVE  Agrees'
  BY <1>6 DEF RegistrationUnlisted, WriteFails
<1>7. ASSUME NEW p \in Procs, RegistrationFails(p)
      PROVE  Agrees'
  BY <1>7 DEF RegistrationFails, WriteFails
<1>8. ASSUME NEW p \in Procs, ExitDuringRegistration(p)
      PROVE  Agrees'
  BY <1>8 DEF ExitDuringRegistration
<1>9. ASSUME NEW p \in Procs, DescendantReleased(p)
      PROVE  Agrees'
  BY <1>9 DEF DescendantReleased
<1>10. ASSUME NEW r \in Roots, LaunchChild(r)
      PROVE  Agrees'
  BY <1>10 DEF LaunchChild
<1>11. ASSUME NEW r \in Roots, CloseUnrecorded(r)
      PROVE  Agrees'
  BY <1>11 DEF CloseUnrecorded, CloseArrives, IsEntryOf
<1>12. ASSUME NEW r \in Roots, CloseRecorded(r)
      PROVE  Agrees'
  <2>1. PICK e \in Procs : Ends(e, CloseDisposition)
    BY <1>12 DEF CloseRecorded, IsEntryOf
  <2> QED BY <1>12, <2>1, EndsAgree DEF CloseRecorded, CloseArrives
<1>13. ASSUME NEW r \in Roots, CloseWriteFails(r)
      PROVE  Agrees'
  <2>1. PICK e \in Procs : EndWriteFails(e, CloseDisposition)
    BY <1>13 DEF CloseWriteFails, IsEntryOf
  <2> QED BY <1>13, <2>1, EndsAgree DEF CloseWriteFails, CloseArrives
<1>14. ASSUME NEW r \in Roots, NEW p \in Procs, DescendantRegisters(r, p)
      PROVE  Agrees'
  BY <1>14 DEF DescendantRegisters, ReportAllowed, RegistrationBegins,
     IsEntryOf
<1>15. ASSUME NEW r \in Roots, NEW p \in Procs, DescendantOfIncomplete(r, p)
      PROVE  Agrees'
  BY <1>15 DEF DescendantOfIncomplete, ReportAllowed
<1>16. CASE ShutdownBegins
  BY <1>16 DEF ShutdownBegins
<1>17. ASSUME NEW c \in Cleanups, CleanupRefused(c)
      PROVE  Agrees'
  BY <1>17 DEF CleanupRefused, Fails, Goes
<1>18. ASSUME NEW c \in Cleanups, CleanupBeginFails(c)
      PROVE  Agrees'
  BY <1>18 DEF CleanupBeginFails, Fails, Goes, WriteFails
<1>19. ASSUME NEW c \in Cleanups, NEW h \in Roots \cup {None}, CleanupBegins(c, h)
      PROVE  Agrees'
  BY <1>19 DEF CleanupBegins, Goes
<1>20. ASSUME NEW c \in Cleanups, PassStarts(c)
      PROVE  Agrees'
  BY <1>20 DEF PassStarts, Goes, Unended
<1>21. ASSUME NEW c \in Cleanups, NEW p \in Procs, EntryGone(c, p)
      PROVE  Agrees'
  BY <1>21, EndsAgree DEF EntryGone, Records, RecordFails
<1>22. ASSUME NEW c \in Cleanups, NEW p \in Procs, EntryTargeted(c, p)
      PROVE  Agrees'
  BY <1>22 DEF EntryTargeted, IsNext, Goes
<1>23. ASSUME NEW c \in Cleanups, NEW p \in Procs, EntryTargetFails(c, p)
      PROVE  Agrees'
  BY <1>23 DEF EntryTargetFails, IsNext, Goes, Fails, WriteFails
<1>24. ASSUME NEW c \in Cleanups, KillRuns(c)
      PROVE  Agrees'
  BY <1>24 DEF KillRuns, Goes
<1>25. ASSUME NEW c \in Cleanups, TargetStillAlive(c)
      PROVE  Agrees'
  BY <1>25 DEF TargetStillAlive
<1>26. ASSUME NEW c \in Cleanups, TargetGone(c)
      PROVE  Agrees'
  <2>1. target[c] \in Procs BY <1>26 DEF TargetGone
  <2> QED BY <1>26, <2>1, EndsAgree DEF TargetGone, Records, RecordFails
<1>27. ASSUME NEW c \in Cleanups, TargetUnconfirmed(c)
      PROVE  Agrees'
  <2>1. target[c] \in Procs BY <1>27 DEF TargetUnconfirmed
  <2> QED BY <1>27, <2>1, EndsAgree DEF TargetUnconfirmed
<1>28. ASSUME NEW c \in Cleanups, PassEnds(c)
      PROVE  Agrees'
  BY <1>28 DEF PassEnds, Goes
<1>29. ASSUME NEW c \in Cleanups, CleanupConfirms(c)
      PROVE  Agrees'
  BY <1>29 DEF CleanupConfirms, Goes, Stable
<1>30. ASSUME NEW c \in Cleanups, NextPass(c)
      PROVE  Agrees'
  BY <1>30 DEF NextPass, Goes
<1>31. ASSUME NEW c \in Cleanups, CleanupGivesUp(c)
      PROVE  Agrees'
  BY <1>31 DEF CleanupGivesUp, Goes, Fails, WriteFails
<1> HIDE DEF Wellformed, TypeOK, Registered, EntryFacts, CleanupFacts, Agrees, EntryAgrees, Entries
<1> QED BY <1>1, <1>2, <1>3, <1>4, <1>5, <1>6, <1>7, <1>8, <1>9, <1>10, <1>11,
          <1>12, <1>13, <1>14, <1>15, <1>16, <1>17, <1>18, <1>19, <1>20, <1>21,
          <1>22, <1>23, <1>24, <1>25, <1>26, <1>27, <1>28, <1>29, <1>30, <1>31
       DEF Next, Registration, Close, Cleanup, CleanupEntry

Unlogged == {p \in Procs : disposition[p] # None /\ confirms[p] = 0}
FaultPays ==
    \/ Unlogged' \subseteq Unlogged /\ faults' >= faults
    \/ faults' = faults + 1 /\ \E e \in Procs : Unlogged' \subseteq Unlogged \cup {e}

\* Only a failed write leaves one more exit without its confirmation.
LEMMA NextPays ==
    ASSUME OwnedAssumption, Wellformed, TypeOK', Agrees, Next
    PROVE  FaultPays
<1> USE DEF OwnedAssumption, Wellformed, TypeOK, Registered, EntryFacts,
       CleanupFacts, Agrees, EntryAgrees, Entries, Unlogged, FaultPays,
       Cooperative, Forced, Gone, Unconfirmed, Confirmed, CloseDisposition,
       osVars, entryVars, endVars, ownerVars, cleanupVars
<1>1. ASSUME NEW p \in Procs, DescendantStarts(p)
      PROVE  FaultPays
  BY <1>1 DEF DescendantStarts
<1>2. ASSUME NEW p \in Procs, ProcessExits(p)
      PROVE  FaultPays
  BY <1>2 DEF ProcessExits
<1>3. ASSUME NEW p \in Procs, ChildRefused(p)
      PROVE  FaultPays
  BY <1>3 DEF ChildRefused
<1>4. ASSUME NEW p \in Procs, ChildRegisters(p)
      PROVE  FaultPays
  BY <1>4 DEF ChildRegisters, RegistrationBegins
<1>5. ASSUME NEW p \in Procs, RegistrationCommits(p)
      PROVE  FaultPays
  BY <1>5 DEF RegistrationCommits
<1>6. ASSUME NEW p \in Procs, RegistrationUnlisted(p)
      PROVE  FaultPays
  BY <1>6 DEF RegistrationUnlisted, WriteFails
<1>7. ASSUME NEW p \in Procs, RegistrationFails(p)
      PROVE  FaultPays
  BY <1>7 DEF RegistrationFails, WriteFails
<1>8. ASSUME NEW p \in Procs, ExitDuringRegistration(p)
      PROVE  FaultPays
  BY <1>8 DEF ExitDuringRegistration
<1>9. ASSUME NEW p \in Procs, DescendantReleased(p)
      PROVE  FaultPays
  BY <1>9 DEF DescendantReleased
<1>10. ASSUME NEW r \in Roots, LaunchChild(r)
      PROVE  FaultPays
  BY <1>10 DEF LaunchChild
<1>11. ASSUME NEW r \in Roots, CloseUnrecorded(r)
      PROVE  FaultPays
  BY <1>11 DEF CloseUnrecorded, CloseArrives, IsEntryOf
<1>12. ASSUME NEW r \in Roots, CloseRecorded(r)
      PROVE  FaultPays
  BY <1>12 DEF CloseRecorded, CloseArrives, IsEntryOf, Ends
<1>13. ASSUME NEW r \in Roots, CloseWriteFails(r)
      PROVE  FaultPays
  BY <1>13 DEF CloseWriteFails, CloseArrives, IsEntryOf, EndWriteFails,
     WriteFails
<1>14. ASSUME NEW r \in Roots, NEW p \in Procs, DescendantRegisters(r, p)
      PROVE  FaultPays
  BY <1>14 DEF DescendantRegisters, ReportAllowed, RegistrationBegins,
     IsEntryOf
<1>15. ASSUME NEW r \in Roots, NEW p \in Procs, DescendantOfIncomplete(r, p)
      PROVE  FaultPays
  BY <1>15 DEF DescendantOfIncomplete, ReportAllowed
<1>16. CASE ShutdownBegins
  BY <1>16 DEF ShutdownBegins
<1>17. ASSUME NEW c \in Cleanups, CleanupRefused(c)
      PROVE  FaultPays
  BY <1>17 DEF CleanupRefused, Fails, Goes
<1>18. ASSUME NEW c \in Cleanups, CleanupBeginFails(c)
      PROVE  FaultPays
  BY <1>18 DEF CleanupBeginFails, Fails, Goes, WriteFails
<1>19. ASSUME NEW c \in Cleanups, NEW h \in Roots \cup {None}, CleanupBegins(c, h)
      PROVE  FaultPays
  BY <1>19 DEF CleanupBegins, Goes
<1>20. ASSUME NEW c \in Cleanups, PassStarts(c)
      PROVE  FaultPays
  BY <1>20 DEF PassStarts, Goes, Unended
<1>21. ASSUME NEW c \in Cleanups, NEW p \in Procs, EntryGone(c, p)
      PROVE  FaultPays
  BY <1>21 DEF EntryGone, IsNext, Records, RecordFails, Ends, EndRefused,
     EndWriteFails, WriteFails, Goes, Fails
<1>22. ASSUME NEW c \in Cleanups, NEW p \in Procs, EntryTargeted(c, p)
      PROVE  FaultPays
  BY <1>22 DEF EntryTargeted, IsNext, Goes
<1>23. ASSUME NEW c \in Cleanups, NEW p \in Procs, EntryTargetFails(c, p)
      PROVE  FaultPays
  BY <1>23 DEF EntryTargetFails, IsNext, Goes, Fails, WriteFails
<1>24. ASSUME NEW c \in Cleanups, KillRuns(c)
      PROVE  FaultPays
  BY <1>24 DEF KillRuns, Goes
<1>25. ASSUME NEW c \in Cleanups, TargetStillAlive(c)
      PROVE  FaultPays
  BY <1>25 DEF TargetStillAlive
<1>26. ASSUME NEW c \in Cleanups, TargetGone(c)
      PROVE  FaultPays
  BY <1>26 DEF TargetGone, Records, RecordFails, Ends, EndRefused,
     EndWriteFails, WriteFails, Goes, Fails
<1>27. ASSUME NEW c \in Cleanups, TargetUnconfirmed(c)
      PROVE  FaultPays
  BY <1>27 DEF TargetUnconfirmed, Ends, EndRefused, EndWriteFails, WriteFails,
     Goes, Fails
<1>28. ASSUME NEW c \in Cleanups, PassEnds(c)
      PROVE  FaultPays
  BY <1>28 DEF PassEnds, Goes
<1>29. ASSUME NEW c \in Cleanups, CleanupConfirms(c)
      PROVE  FaultPays
  BY <1>29 DEF CleanupConfirms, Goes, Stable
<1>30. ASSUME NEW c \in Cleanups, NextPass(c)
      PROVE  FaultPays
  BY <1>30 DEF NextPass, Goes
<1>31. ASSUME NEW c \in Cleanups, CleanupGivesUp(c)
      PROVE  FaultPays
  BY <1>31 DEF CleanupGivesUp, Goes, Fails, WriteFails
<1> HIDE DEF Wellformed, TypeOK, Registered, EntryFacts, CleanupFacts, Agrees, EntryAgrees, Entries
<1> QED BY <1>1, <1>2, <1>3, <1>4, <1>5, <1>6, <1>7, <1>8, <1>9, <1>10, <1>11,
          <1>12, <1>13, <1>14, <1>15, <1>16, <1>17, <1>18, <1>19, <1>20, <1>21,
          <1>22, <1>23, <1>24, <1>25, <1>26, <1>27, <1>28, <1>29, <1>30, <1>31
       DEF Next, Registration, Close, Cleanup, CleanupEntry

-----------------------------------------------------------------------------
(* Parent links                                                            *)

LEMMA NextParents ==
    ASSUME OwnedAssumption, Wellformed, TypeOK', ParentsAreOlder, Next
    PROVE  ParentsAreOlder'
<1> USE DEF OwnedAssumption, Wellformed, TypeOK, Registered, EntryFacts,
       ParentsAreOlder, Entries, osVars, entryVars, endVars, ownerVars,
       cleanupVars
<1>1. ASSUME NEW p \in Procs, DescendantStarts(p)
      PROVE  ParentsAreOlder'
  BY <1>1 DEF DescendantStarts
<1>2. ASSUME NEW p \in Procs, ProcessExits(p)
      PROVE  ParentsAreOlder'
  BY <1>2 DEF ProcessExits
<1>3. ASSUME NEW p \in Procs, ChildRefused(p)
      PROVE  ParentsAreOlder'
  BY <1>3 DEF ChildRefused
<1>4. ASSUME NEW p \in Procs, ChildRegisters(p)
      PROVE  ParentsAreOlder'
  BY <1>4 DEF ChildRegisters, RegistrationBegins
<1>5. ASSUME NEW p \in Procs, RegistrationCommits(p)
      PROVE  ParentsAreOlder'
  BY <1>5 DEF RegistrationCommits
<1>6. ASSUME NEW p \in Procs, RegistrationUnlisted(p)
      PROVE  ParentsAreOlder'
  BY <1>6 DEF RegistrationUnlisted, WriteFails
<1>7. ASSUME NEW p \in Procs, RegistrationFails(p)
      PROVE  ParentsAreOlder'
  BY <1>7 DEF RegistrationFails, WriteFails
<1>8. ASSUME NEW p \in Procs, ExitDuringRegistration(p)
      PROVE  ParentsAreOlder'
  BY <1>8 DEF ExitDuringRegistration
<1>9. ASSUME NEW p \in Procs, DescendantReleased(p)
      PROVE  ParentsAreOlder'
  BY <1>9 DEF DescendantReleased
<1>10. ASSUME NEW r \in Roots, LaunchChild(r)
      PROVE  ParentsAreOlder'
  BY <1>10 DEF LaunchChild
<1>11. ASSUME NEW r \in Roots, CloseUnrecorded(r)
      PROVE  ParentsAreOlder'
  BY <1>11 DEF CloseUnrecorded, CloseArrives, IsEntryOf
<1>12. ASSUME NEW r \in Roots, CloseRecorded(r)
      PROVE  ParentsAreOlder'
  BY <1>12 DEF CloseRecorded, CloseArrives, IsEntryOf, Ends
<1>13. ASSUME NEW r \in Roots, CloseWriteFails(r)
      PROVE  ParentsAreOlder'
  BY <1>13 DEF CloseWriteFails, CloseArrives, IsEntryOf, EndWriteFails,
     WriteFails
<1>14. ASSUME NEW r \in Roots, NEW p \in Procs, DescendantRegisters(r, p)
      PROVE  ParentsAreOlder'
  BY <1>14 DEF DescendantRegisters, ReportAllowed, RegistrationBegins,
     IsEntryOf
<1>15. ASSUME NEW r \in Roots, NEW p \in Procs, DescendantOfIncomplete(r, p)
      PROVE  ParentsAreOlder'
  BY <1>15 DEF DescendantOfIncomplete, ReportAllowed
<1>16. CASE ShutdownBegins
  BY <1>16 DEF ShutdownBegins
<1>17. ASSUME NEW c \in Cleanups, CleanupRefused(c)
      PROVE  ParentsAreOlder'
  BY <1>17 DEF CleanupRefused, Fails, Goes
<1>18. ASSUME NEW c \in Cleanups, CleanupBeginFails(c)
      PROVE  ParentsAreOlder'
  BY <1>18 DEF CleanupBeginFails, Fails, Goes, WriteFails
<1>19. ASSUME NEW c \in Cleanups, NEW h \in Roots \cup {None}, CleanupBegins(c, h)
      PROVE  ParentsAreOlder'
  BY <1>19 DEF CleanupBegins, Goes
<1>20. ASSUME NEW c \in Cleanups, PassStarts(c)
      PROVE  ParentsAreOlder'
  BY <1>20 DEF PassStarts, Goes, Unended
<1>21. ASSUME NEW c \in Cleanups, NEW p \in Procs, EntryGone(c, p)
      PROVE  ParentsAreOlder'
  BY <1>21 DEF EntryGone, IsNext, Records, RecordFails, Ends, EndRefused,
     EndWriteFails, WriteFails, Goes, Fails
<1>22. ASSUME NEW c \in Cleanups, NEW p \in Procs, EntryTargeted(c, p)
      PROVE  ParentsAreOlder'
  BY <1>22 DEF EntryTargeted, IsNext, Goes
<1>23. ASSUME NEW c \in Cleanups, NEW p \in Procs, EntryTargetFails(c, p)
      PROVE  ParentsAreOlder'
  BY <1>23 DEF EntryTargetFails, IsNext, Goes, Fails, WriteFails
<1>24. ASSUME NEW c \in Cleanups, KillRuns(c)
      PROVE  ParentsAreOlder'
  BY <1>24 DEF KillRuns, Goes
<1>25. ASSUME NEW c \in Cleanups, TargetStillAlive(c)
      PROVE  ParentsAreOlder'
  BY <1>25 DEF TargetStillAlive
<1>26. ASSUME NEW c \in Cleanups, TargetGone(c)
      PROVE  ParentsAreOlder'
  BY <1>26 DEF TargetGone, Records, RecordFails, Ends, EndRefused,
     EndWriteFails, WriteFails, Goes, Fails
<1>27. ASSUME NEW c \in Cleanups, TargetUnconfirmed(c)
      PROVE  ParentsAreOlder'
  BY <1>27 DEF TargetUnconfirmed, Ends, EndRefused, EndWriteFails, WriteFails,
     Goes, Fails
<1>28. ASSUME NEW c \in Cleanups, PassEnds(c)
      PROVE  ParentsAreOlder'
  BY <1>28 DEF PassEnds, Goes
<1>29. ASSUME NEW c \in Cleanups, CleanupConfirms(c)
      PROVE  ParentsAreOlder'
  BY <1>29 DEF CleanupConfirms, Goes, Stable
<1>30. ASSUME NEW c \in Cleanups, NextPass(c)
      PROVE  ParentsAreOlder'
  BY <1>30 DEF NextPass, Goes
<1>31. ASSUME NEW c \in Cleanups, CleanupGivesUp(c)
      PROVE  ParentsAreOlder'
  BY <1>31 DEF CleanupGivesUp, Goes, Fails, WriteFails
<1> HIDE DEF Wellformed, TypeOK, Registered, EntryFacts, Entries
<1> QED BY <1>1, <1>2, <1>3, <1>4, <1>5, <1>6, <1>7, <1>8, <1>9, <1>10, <1>11,
          <1>12, <1>13, <1>14, <1>15, <1>16, <1>17, <1>18, <1>19, <1>20, <1>21,
          <1>22, <1>23, <1>24, <1>25, <1>26, <1>27, <1>28, <1>29, <1>30, <1>31
       DEF Next, Registration, Close, Cleanup, CleanupEntry

-----------------------------------------------------------------------------
(* What has an end is gone                                                 *)

LEMMA NextGone ==
    ASSUME OwnedAssumption, ~Blind, Wellformed, TypeOK', Agrees, EndedAreGone, Next
    PROVE  EndedAreGone'
<1> USE DEF OwnedAssumption, Wellformed, TypeOK, Registered, EntryFacts,
       CleanupFacts, Agrees, EntryAgrees, EndedAreGone, Entries, SeenGone,
       SeenAlive, Cooperative, Forced, Gone, Unconfirmed, Confirmed,
       CloseDisposition, osVars, entryVars, endVars, ownerVars, cleanupVars
<1>1. ASSUME NEW p \in Procs, DescendantStarts(p)
      PROVE  EndedAreGone'
  BY <1>1 DEF DescendantStarts
<1>2. ASSUME NEW p \in Procs, ProcessExits(p)
      PROVE  EndedAreGone'
  BY <1>2 DEF ProcessExits
<1>3. ASSUME NEW p \in Procs, ChildRefused(p)
      PROVE  EndedAreGone'
  BY <1>3 DEF ChildRefused
<1>4. ASSUME NEW p \in Procs, ChildRegisters(p)
      PROVE  EndedAreGone'
  BY <1>4 DEF ChildRegisters, RegistrationBegins
<1>5. ASSUME NEW p \in Procs, RegistrationCommits(p)
      PROVE  EndedAreGone'
  BY <1>5 DEF RegistrationCommits
<1>6. ASSUME NEW p \in Procs, RegistrationUnlisted(p)
      PROVE  EndedAreGone'
  BY <1>6 DEF RegistrationUnlisted, WriteFails
<1>7. ASSUME NEW p \in Procs, RegistrationFails(p)
      PROVE  EndedAreGone'
  BY <1>7 DEF RegistrationFails, WriteFails
<1>8. ASSUME NEW p \in Procs, ExitDuringRegistration(p)
      PROVE  EndedAreGone'
  BY <1>8 DEF ExitDuringRegistration
<1>9. ASSUME NEW p \in Procs, DescendantReleased(p)
      PROVE  EndedAreGone'
  BY <1>9 DEF DescendantReleased
<1>10. ASSUME NEW r \in Roots, LaunchChild(r)
      PROVE  EndedAreGone'
  BY <1>10 DEF LaunchChild
<1>11. ASSUME NEW r \in Roots, CloseUnrecorded(r)
      PROVE  EndedAreGone'
  BY <1>11 DEF CloseUnrecorded, CloseArrives, IsEntryOf
<1>12. ASSUME NEW r \in Roots, CloseRecorded(r)
      PROVE  EndedAreGone'
  BY <1>12 DEF CloseRecorded, CloseArrives, IsEntryOf, Ends
<1>13. ASSUME NEW r \in Roots, CloseWriteFails(r)
      PROVE  EndedAreGone'
  BY <1>13 DEF CloseWriteFails, CloseArrives, IsEntryOf, EndWriteFails,
     WriteFails
<1>14. ASSUME NEW r \in Roots, NEW p \in Procs, DescendantRegisters(r, p)
      PROVE  EndedAreGone'
  BY <1>14 DEF DescendantRegisters, ReportAllowed, RegistrationBegins,
     IsEntryOf
<1>15. ASSUME NEW r \in Roots, NEW p \in Procs, DescendantOfIncomplete(r, p)
      PROVE  EndedAreGone'
  BY <1>15 DEF DescendantOfIncomplete, ReportAllowed
<1>16. CASE ShutdownBegins
  BY <1>16 DEF ShutdownBegins
<1>17. ASSUME NEW c \in Cleanups, CleanupRefused(c)
      PROVE  EndedAreGone'
  BY <1>17 DEF CleanupRefused, Fails, Goes
<1>18. ASSUME NEW c \in Cleanups, CleanupBeginFails(c)
      PROVE  EndedAreGone'
  BY <1>18 DEF CleanupBeginFails, Fails, Goes, WriteFails
<1>19. ASSUME NEW c \in Cleanups, NEW h \in Roots \cup {None}, CleanupBegins(c, h)
      PROVE  EndedAreGone'
  BY <1>19 DEF CleanupBegins, Goes
<1>20. ASSUME NEW c \in Cleanups, PassStarts(c)
      PROVE  EndedAreGone'
  BY <1>20 DEF PassStarts, Goes, Unended
<1>21. ASSUME NEW c \in Cleanups, NEW p \in Procs, EntryGone(c, p)
      PROVE  EndedAreGone'
  BY <1>21 DEF EntryGone, IsNext, Records, RecordFails, Ends, EndRefused,
     EndWriteFails, WriteFails, Goes, Fails
<1>22. ASSUME NEW c \in Cleanups, NEW p \in Procs, EntryTargeted(c, p)
      PROVE  EndedAreGone'
  BY <1>22 DEF EntryTargeted, IsNext, Goes
<1>23. ASSUME NEW c \in Cleanups, NEW p \in Procs, EntryTargetFails(c, p)
      PROVE  EndedAreGone'
  BY <1>23 DEF EntryTargetFails, IsNext, Goes, Fails, WriteFails
<1>24. ASSUME NEW c \in Cleanups, KillRuns(c)
      PROVE  EndedAreGone'
  BY <1>24 DEF KillRuns, Goes
<1>25. ASSUME NEW c \in Cleanups, TargetStillAlive(c)
      PROVE  EndedAreGone'
  BY <1>25 DEF TargetStillAlive
<1>26. ASSUME NEW c \in Cleanups, TargetGone(c)
      PROVE  EndedAreGone'
  BY <1>26 DEF TargetGone, Records, RecordFails, Ends, EndRefused,
     EndWriteFails, WriteFails, Goes, Fails
<1>27. ASSUME NEW c \in Cleanups, TargetUnconfirmed(c)
      PROVE  EndedAreGone'
  BY <1>27 DEF TargetUnconfirmed, Ends, EndRefused, EndWriteFails, WriteFails,
     Goes, Fails
<1>28. ASSUME NEW c \in Cleanups, PassEnds(c)
      PROVE  EndedAreGone'
  BY <1>28 DEF PassEnds, Goes
<1>29. ASSUME NEW c \in Cleanups, CleanupConfirms(c)
      PROVE  EndedAreGone'
  BY <1>29 DEF CleanupConfirms, Goes, Stable
<1>30. ASSUME NEW c \in Cleanups, NextPass(c)
      PROVE  EndedAreGone'
  BY <1>30 DEF NextPass, Goes
<1>31. ASSUME NEW c \in Cleanups, CleanupGivesUp(c)
      PROVE  EndedAreGone'
  BY <1>31 DEF CleanupGivesUp, Goes, Fails, WriteFails
<1> HIDE DEF Wellformed, TypeOK, Registered, EntryFacts, CleanupFacts, Agrees, EntryAgrees, Entries
<1> QED BY <1>1, <1>2, <1>3, <1>4, <1>5, <1>6, <1>7, <1>8, <1>9, <1>10, <1>11,
          <1>12, <1>13, <1>14, <1>15, <1>16, <1>17, <1>18, <1>19, <1>20, <1>21,
          <1>22, <1>23, <1>24, <1>25, <1>26, <1>27, <1>28, <1>29, <1>30, <1>31
       DEF Next, Registration, Close, Cleanup, CleanupEntry

LEMMA NextConfirmed ==
    ASSUME OwnedAssumption, Wellformed, TypeOK', Agrees, EndedAreGone, ConfirmedMeansGone, Next
    PROVE  ConfirmedMeansGone'
<1> USE DEF OwnedAssumption, Wellformed, TypeOK, Registered, EntryFacts,
       CleanupFacts, Agrees, EntryAgrees, EndedAreGone, ConfirmedMeansGone,
       Entries, SeenAlive, Cooperative, Forced, Gone, Unconfirmed, Confirmed,
       CloseDisposition, osVars, entryVars, endVars, ownerVars, cleanupVars
<1>1. ASSUME NEW p \in Procs, DescendantStarts(p)
      PROVE  ConfirmedMeansGone'
  BY <1>1 DEF DescendantStarts
<1>2. ASSUME NEW p \in Procs, ProcessExits(p)
      PROVE  ConfirmedMeansGone'
  BY <1>2 DEF ProcessExits
<1>3. ASSUME NEW p \in Procs, ChildRefused(p)
      PROVE  ConfirmedMeansGone'
  BY <1>3 DEF ChildRefused
<1>4. ASSUME NEW p \in Procs, ChildRegisters(p)
      PROVE  ConfirmedMeansGone'
  BY <1>4 DEF ChildRegisters, RegistrationBegins
<1>5. ASSUME NEW p \in Procs, RegistrationCommits(p)
      PROVE  ConfirmedMeansGone'
  BY <1>5 DEF RegistrationCommits
<1>6. ASSUME NEW p \in Procs, RegistrationUnlisted(p)
      PROVE  ConfirmedMeansGone'
  BY <1>6 DEF RegistrationUnlisted, WriteFails
<1>7. ASSUME NEW p \in Procs, RegistrationFails(p)
      PROVE  ConfirmedMeansGone'
  BY <1>7 DEF RegistrationFails, WriteFails
<1>8. ASSUME NEW p \in Procs, ExitDuringRegistration(p)
      PROVE  ConfirmedMeansGone'
  BY <1>8 DEF ExitDuringRegistration
<1>9. ASSUME NEW p \in Procs, DescendantReleased(p)
      PROVE  ConfirmedMeansGone'
  BY <1>9 DEF DescendantReleased
<1>10. ASSUME NEW r \in Roots, LaunchChild(r)
      PROVE  ConfirmedMeansGone'
  BY <1>10 DEF LaunchChild
<1>11. ASSUME NEW r \in Roots, CloseUnrecorded(r)
      PROVE  ConfirmedMeansGone'
  BY <1>11 DEF CloseUnrecorded, CloseArrives, IsEntryOf
<1>12. ASSUME NEW r \in Roots, CloseRecorded(r)
      PROVE  ConfirmedMeansGone'
  BY <1>12 DEF CloseRecorded, CloseArrives, IsEntryOf, Ends
<1>13. ASSUME NEW r \in Roots, CloseWriteFails(r)
      PROVE  ConfirmedMeansGone'
  BY <1>13 DEF CloseWriteFails, CloseArrives, IsEntryOf, EndWriteFails,
     WriteFails
<1>14. ASSUME NEW r \in Roots, NEW p \in Procs, DescendantRegisters(r, p)
      PROVE  ConfirmedMeansGone'
  BY <1>14 DEF DescendantRegisters, ReportAllowed, RegistrationBegins,
     IsEntryOf
<1>15. ASSUME NEW r \in Roots, NEW p \in Procs, DescendantOfIncomplete(r, p)
      PROVE  ConfirmedMeansGone'
  BY <1>15 DEF DescendantOfIncomplete, ReportAllowed
<1>16. CASE ShutdownBegins
  BY <1>16 DEF ShutdownBegins
<1>17. ASSUME NEW c \in Cleanups, CleanupRefused(c)
      PROVE  ConfirmedMeansGone'
  BY <1>17 DEF CleanupRefused, Fails, Goes
<1>18. ASSUME NEW c \in Cleanups, CleanupBeginFails(c)
      PROVE  ConfirmedMeansGone'
  BY <1>18 DEF CleanupBeginFails, Fails, Goes, WriteFails
<1>19. ASSUME NEW c \in Cleanups, NEW h \in Roots \cup {None}, CleanupBegins(c, h)
      PROVE  ConfirmedMeansGone'
  BY <1>19 DEF CleanupBegins, Goes
<1>20. ASSUME NEW c \in Cleanups, PassStarts(c)
      PROVE  ConfirmedMeansGone'
  BY <1>20 DEF PassStarts, Goes, Unended
<1>21. ASSUME NEW c \in Cleanups, NEW p \in Procs, EntryGone(c, p)
      PROVE  ConfirmedMeansGone'
  BY <1>21 DEF EntryGone, IsNext, Records, RecordFails, Ends, EndRefused,
     EndWriteFails, WriteFails, Goes, Fails
<1>22. ASSUME NEW c \in Cleanups, NEW p \in Procs, EntryTargeted(c, p)
      PROVE  ConfirmedMeansGone'
  BY <1>22 DEF EntryTargeted, IsNext, Goes
<1>23. ASSUME NEW c \in Cleanups, NEW p \in Procs, EntryTargetFails(c, p)
      PROVE  ConfirmedMeansGone'
  BY <1>23 DEF EntryTargetFails, IsNext, Goes, Fails, WriteFails
<1>24. ASSUME NEW c \in Cleanups, KillRuns(c)
      PROVE  ConfirmedMeansGone'
  BY <1>24 DEF KillRuns, Goes
<1>25. ASSUME NEW c \in Cleanups, TargetStillAlive(c)
      PROVE  ConfirmedMeansGone'
  BY <1>25 DEF TargetStillAlive
<1>26. ASSUME NEW c \in Cleanups, TargetGone(c)
      PROVE  ConfirmedMeansGone'
  BY <1>26 DEF TargetGone, Records, RecordFails, Ends, EndRefused,
     EndWriteFails, WriteFails, Goes, Fails
<1>27. ASSUME NEW c \in Cleanups, TargetUnconfirmed(c)
      PROVE  ConfirmedMeansGone'
  <2>1. target[c] \in Procs /\ UNCHANGED <<os, status, registeredAt, seen>>
    BY <1>27 DEF TargetUnconfirmed, Fails
  <2>2. \A p \in Procs : disposition[p] \in Confirmed => disposition'[p] = disposition[p]
    BY <1>27, <2>1 DEF TargetUnconfirmed, Ends, EndRefused, EndWriteFails
  <2>3. pc' = [pc EXCEPT ![c] = "failed"] BY <1>27 DEF TargetUnconfirmed, Fails, Goes
  <2> QED BY <2>1, <2>2, <2>3
<1>28. ASSUME NEW c \in Cleanups, PassEnds(c)
      PROVE  ConfirmedMeansGone'
  BY <1>28 DEF PassEnds, Goes
<1>29. ASSUME NEW c \in Cleanups, CleanupConfirms(c)
      PROVE  ConfirmedMeansGone'
  BY <1>29 DEF CleanupConfirms, Goes, Stable
<1>30. ASSUME NEW c \in Cleanups, NextPass(c)
      PROVE  ConfirmedMeansGone'
  BY <1>30 DEF NextPass, Goes
<1>31. ASSUME NEW c \in Cleanups, CleanupGivesUp(c)
      PROVE  ConfirmedMeansGone'
  BY <1>31 DEF CleanupGivesUp, Goes, Fails, WriteFails
<1> HIDE DEF Wellformed, TypeOK, Registered, EntryFacts, CleanupFacts, Agrees, EntryAgrees, Entries
<1> QED BY <1>1, <1>2, <1>3, <1>4, <1>5, <1>6, <1>7, <1>8, <1>9, <1>10, <1>11,
          <1>12, <1>13, <1>14, <1>15, <1>16, <1>17, <1>18, <1>19, <1>20, <1>21,
          <1>22, <1>23, <1>24, <1>25, <1>26, <1>27, <1>28, <1>29, <1>30, <1>31
       DEF Next, Registration, Close, Cleanup, CleanupEntry

-----------------------------------------------------------------------------
(* Ends                                                                    *)

Kept ==
    \A p \in Procs :
        /\ disposition[p] # None => disposition'[p] = disposition[p]
        /\ status[p] \in {"COMMITTED", "INCOMPLETE"} => status'[p] = status[p]

LEMMA NextKeeps ==
    ASSUME OwnedAssumption, Wellformed, TypeOK', Agrees, Next
    PROVE  Kept
<1> USE DEF OwnedAssumption, Wellformed, TypeOK, Registered, EntryFacts,
       CleanupFacts, Agrees, EntryAgrees, Entries, Kept, Cooperative, Forced,
       Gone, Unconfirmed, Confirmed, CloseDisposition, osVars, entryVars,
       endVars, ownerVars, cleanupVars
<1>1. ASSUME NEW p \in Procs, DescendantStarts(p)
      PROVE  Kept
  BY <1>1 DEF DescendantStarts
<1>2. ASSUME NEW p \in Procs, ProcessExits(p)
      PROVE  Kept
  BY <1>2 DEF ProcessExits
<1>3. ASSUME NEW p \in Procs, ChildRefused(p)
      PROVE  Kept
  BY <1>3 DEF ChildRefused
<1>4. ASSUME NEW p \in Procs, ChildRegisters(p)
      PROVE  Kept
  BY <1>4 DEF ChildRegisters, RegistrationBegins
<1>5. ASSUME NEW p \in Procs, RegistrationCommits(p)
      PROVE  Kept
  BY <1>5 DEF RegistrationCommits
<1>6. ASSUME NEW p \in Procs, RegistrationUnlisted(p)
      PROVE  Kept
  BY <1>6 DEF RegistrationUnlisted, WriteFails
<1>7. ASSUME NEW p \in Procs, RegistrationFails(p)
      PROVE  Kept
  BY <1>7 DEF RegistrationFails, WriteFails
<1>8. ASSUME NEW p \in Procs, ExitDuringRegistration(p)
      PROVE  Kept
  BY <1>8 DEF ExitDuringRegistration
<1>9. ASSUME NEW p \in Procs, DescendantReleased(p)
      PROVE  Kept
  BY <1>9 DEF DescendantReleased
<1>10. ASSUME NEW r \in Roots, LaunchChild(r)
      PROVE  Kept
  BY <1>10 DEF LaunchChild
<1>11. ASSUME NEW r \in Roots, CloseUnrecorded(r)
      PROVE  Kept
  BY <1>11 DEF CloseUnrecorded, CloseArrives, IsEntryOf
<1>12. ASSUME NEW r \in Roots, CloseRecorded(r)
      PROVE  Kept
  BY <1>12 DEF CloseRecorded, CloseArrives, IsEntryOf, Ends
<1>13. ASSUME NEW r \in Roots, CloseWriteFails(r)
      PROVE  Kept
  BY <1>13 DEF CloseWriteFails, CloseArrives, IsEntryOf, EndWriteFails,
     WriteFails
<1>14. ASSUME NEW r \in Roots, NEW p \in Procs, DescendantRegisters(r, p)
      PROVE  Kept
  BY <1>14 DEF DescendantRegisters, ReportAllowed, RegistrationBegins,
     IsEntryOf
<1>15. ASSUME NEW r \in Roots, NEW p \in Procs, DescendantOfIncomplete(r, p)
      PROVE  Kept
  BY <1>15 DEF DescendantOfIncomplete, ReportAllowed
<1>16. CASE ShutdownBegins
  BY <1>16 DEF ShutdownBegins
<1>17. ASSUME NEW c \in Cleanups, CleanupRefused(c)
      PROVE  Kept
  BY <1>17 DEF CleanupRefused, Fails, Goes
<1>18. ASSUME NEW c \in Cleanups, CleanupBeginFails(c)
      PROVE  Kept
  BY <1>18 DEF CleanupBeginFails, Fails, Goes, WriteFails
<1>19. ASSUME NEW c \in Cleanups, NEW h \in Roots \cup {None}, CleanupBegins(c, h)
      PROVE  Kept
  BY <1>19 DEF CleanupBegins, Goes
<1>20. ASSUME NEW c \in Cleanups, PassStarts(c)
      PROVE  Kept
  BY <1>20 DEF PassStarts, Goes, Unended
<1>21. ASSUME NEW c \in Cleanups, NEW p \in Procs, EntryGone(c, p)
      PROVE  Kept
  BY <1>21 DEF EntryGone, IsNext, Records, RecordFails, Ends, EndRefused,
     EndWriteFails, WriteFails, Goes, Fails
<1>22. ASSUME NEW c \in Cleanups, NEW p \in Procs, EntryTargeted(c, p)
      PROVE  Kept
  BY <1>22 DEF EntryTargeted, IsNext, Goes
<1>23. ASSUME NEW c \in Cleanups, NEW p \in Procs, EntryTargetFails(c, p)
      PROVE  Kept
  BY <1>23 DEF EntryTargetFails, IsNext, Goes, Fails, WriteFails
<1>24. ASSUME NEW c \in Cleanups, KillRuns(c)
      PROVE  Kept
  BY <1>24 DEF KillRuns, Goes
<1>25. ASSUME NEW c \in Cleanups, TargetStillAlive(c)
      PROVE  Kept
  BY <1>25 DEF TargetStillAlive
<1>26. ASSUME NEW c \in Cleanups, TargetGone(c)
      PROVE  Kept
  BY <1>26 DEF TargetGone, Records, RecordFails, Ends, EndRefused,
     EndWriteFails, WriteFails, Goes, Fails
<1>27. ASSUME NEW c \in Cleanups, TargetUnconfirmed(c)
      PROVE  Kept
  BY <1>27 DEF TargetUnconfirmed, Ends, EndRefused, EndWriteFails, WriteFails,
     Goes, Fails
<1>28. ASSUME NEW c \in Cleanups, PassEnds(c)
      PROVE  Kept
  BY <1>28 DEF PassEnds, Goes
<1>29. ASSUME NEW c \in Cleanups, CleanupConfirms(c)
      PROVE  Kept
  BY <1>29 DEF CleanupConfirms, Goes, Stable
<1>30. ASSUME NEW c \in Cleanups, NextPass(c)
      PROVE  Kept
  BY <1>30 DEF NextPass, Goes
<1>31. ASSUME NEW c \in Cleanups, CleanupGivesUp(c)
      PROVE  Kept
  BY <1>31 DEF CleanupGivesUp, Goes, Fails, WriteFails
<1> HIDE DEF Wellformed, TypeOK, Registered, EntryFacts, CleanupFacts, Agrees, EntryAgrees, Entries
<1> QED BY <1>1, <1>2, <1>3, <1>4, <1>5, <1>6, <1>7, <1>8, <1>9, <1>10, <1>11,
          <1>12, <1>13, <1>14, <1>15, <1>16, <1>17, <1>18, <1>19, <1>20, <1>21,
          <1>22, <1>23, <1>24, <1>25, <1>26, <1>27, <1>28, <1>29, <1>30, <1>31
       DEF Next, Registration, Close, Cleanup, CleanupEntry

-----------------------------------------------------------------------------
(* The inductive invariant and what follows from it                        *)

Counted == IsFiniteSet(Unlogged) /\ Cardinality(Unlogged) <= faults

LEMMA NextCounted ==
    ASSUME OwnedAssumption, Wellformed, TypeOK', Counted, FaultPays
    PROVE  Counted'
<1> USE DEF Counted
<1>1. IsFiniteSet(Unlogged')
  BY FS_Subset DEF OwnedAssumption, Unlogged
<1>2. CASE Unlogged' \subseteq Unlogged /\ faults' >= faults
  <2>1. Cardinality(Unlogged') <= Cardinality(Unlogged) BY <1>2, FS_Subset
  <2>2. Cardinality(Unlogged) \in Nat /\ Cardinality(Unlogged') \in Nat
    BY <1>1, FS_CardinalityType
  <2> QED BY <1>1, <1>2, <2>1, <2>2 DEF Wellformed, TypeOK
<1>3. CASE /\ faults' = faults + 1
           /\ \E e \in Procs : Unlogged' \subseteq Unlogged \cup {e}
  <2>1. PICK e \in Procs : Unlogged' \subseteq Unlogged \cup {e} BY <1>3
  <2>2. /\ IsFiniteSet(Unlogged \cup {e})
        /\ Cardinality(Unlogged \cup {e}) \in {Cardinality(Unlogged), Cardinality(Unlogged) + 1}
    BY FS_AddElement
  <2>3. Cardinality(Unlogged') <= Cardinality(Unlogged \cup {e})
    BY <2>1, <2>2, FS_Subset
  <2>4. Cardinality(Unlogged) \in Nat /\ Cardinality(Unlogged') \in Nat
    BY <1>1, FS_CardinalityType
  <2> QED BY <1>1, <1>3, <2>2, <2>3, <2>4 DEF Wellformed, TypeOK
<1> QED BY <1>2, <1>3 DEF FaultPays

RegistryInv == Wellformed /\ Agrees /\ Counted /\ ParentsAreOlder

LEMMA InitRegistryInv == ASSUME OwnedAssumption, Init PROVE RegistryInv
<1>1. Wellformed BY InitWellformed
<1>2. Agrees /\ ParentsAreOlder
  BY DEF OwnedAssumption, Init, Agrees, EntryAgrees, ParentsAreOlder
<1>3. Unlogged = {} BY DEF Init, Unlogged
<1>4. Counted BY <1>1, <1>3, FS_EmptySet DEF Counted, Wellformed, TypeOK
<1> QED BY <1>1, <1>2, <1>4 DEF RegistryInv

LEMMA NextRegistryInv ==
    ASSUME OwnedAssumption, RegistryInv, [Next]_vars PROVE RegistryInv'
<1>1. Wellformed' BY NextWellformed DEF RegistryInv
<1>2. CASE Next
  <2>1. Agrees' BY <1>1, <1>2, NextAgrees DEF RegistryInv, Wellformed
  <2>2. FaultPays BY <1>1, <1>2, NextPays DEF RegistryInv, Wellformed
  <2>3. Counted' BY <1>1, <2>2, NextCounted DEF RegistryInv, Wellformed
  <2>4. ParentsAreOlder' BY <1>1, <1>2, NextParents DEF RegistryInv, Wellformed
  <2> QED BY <1>1, <2>1, <2>3, <2>4 DEF RegistryInv
<1>3. CASE UNCHANGED vars
  BY <1>1, <1>3 DEF RegistryInv, vars, osVars, entryVars, endVars, ownerVars,
     cleanupVars, Agrees, EntryAgrees, Counted, Unlogged, ParentsAreOlder
<1> QED BY <1>2, <1>3

THEOREM RegistryInvariant == ASSUME OwnedAssumption PROVE Spec => []RegistryInv
BY InitRegistryInv, NextRegistryInv, PTL DEF Spec

\* Registry and ledger agree, and each missing confirmation is a failed write.
THEOREM LedgerCorrect == ASSUME OwnedAssumption PROVE Spec => []LedgerAgrees
<1>1. RegistryInv => LedgerAgrees
  <2> SUFFICES ASSUME RegistryInv PROVE LedgerAgrees OBVIOUS
  <2>1. Unlogged = {p \in Procs : disposition[p] # None /\ confirms[p] = 0}
    BY DEF Unlogged
  <2>2. Cardinality(Unlogged) <= faults BY DEF RegistryInv, Counted
  <2>3. \A p \in Procs :
          /\ registers[p] <= 1
          /\ confirms[p] <= 1
          /\ disposition[p] # None => status[p] = "COMMITTED" /\ registers[p] = 1
          /\ confirms[p] = 1 => disposition[p] # None
    BY DEF RegistryInv, Agrees, EntryAgrees
  <2> QED BY <2>1, <2>2, <2>3 DEF LedgerAgrees
<1> QED BY <1>1, RegistryInvariant, PTL

\* No parent link leads to an entry that is missing, unfinished or newer.
THEOREM ParentsCorrect == ASSUME OwnedAssumption PROVE Spec => []ParentsAreOlder
<1>1. RegistryInv => ParentsAreOlder BY DEF RegistryInv
<1> QED BY <1>1, RegistryInvariant, PTL

\* Ends and finished registrations are final.
THEOREM EndsAreFinal == ASSUME OwnedAssumption PROVE Spec => EndIsFinal
<1>1. ASSUME RegistryInv, RegistryInv', [Next]_vars PROVE [Kept]_vars
  <2>1. CASE Next BY <1>1, <2>1, NextKeeps DEF RegistryInv, Wellformed
  <2>2. CASE UNCHANGED vars BY <2>2
  <2> QED BY <1>1, <2>1, <2>2
<1>2. Spec => [][Kept]_vars BY <1>1, RegistryInvariant, PTL DEF Spec
<1> QED BY <1>2 DEF Kept, EndIsFinal

GoneInv == RegistryInv /\ EndedAreGone /\ ConfirmedMeansGone

LEMMA InitGoneInv == ASSUME OwnedAssumption, Init PROVE GoneInv
BY InitRegistryInv
DEF OwnedAssumption, Init, GoneInv, EndedAreGone, ConfirmedMeansGone, Confirmed

LEMMA NextGoneInv ==
    ASSUME OwnedAssumption, ~Blind, GoneInv, [Next]_vars PROVE GoneInv'
<1>1. RegistryInv' BY NextRegistryInv DEF GoneInv
<1>2. CASE Next
  <2>1. EndedAreGone'
    BY <1>1, <1>2, NextGone DEF GoneInv, RegistryInv, Wellformed
  <2>2. ConfirmedMeansGone'
    BY <1>1, <1>2, NextConfirmed DEF GoneInv, RegistryInv, Wellformed
  <2> QED BY <1>1, <2>1, <2>2 DEF GoneInv
<1>3. CASE UNCHANGED vars
  BY <1>1, <1>3 DEF GoneInv, vars, osVars, entryVars, endVars, ownerVars,
     cleanupVars, EndedAreGone, ConfirmedMeansGone
<1> QED BY <1>2, <1>3

LEMMA GoneInvariant == ASSUME OwnedAssumption, ~Blind PROVE Spec => []GoneInv
BY InitGoneInv, NextGoneInv, PTL DEF Spec

\* When a look at a live process finds it, no running process has an end on record.
THEOREM EndsAreTrue == ASSUME OwnedAssumption, ~Blind PROVE Spec => []EndedAreGone
<1>1. GoneInv => EndedAreGone BY DEF GoneInv
<1> QED BY <1>1, GoneInvariant, PTL

\* Under the same condition a confirmed cleanup has left nothing it counted alive.
THEOREM CleanupsAreTrue ==
    ASSUME OwnedAssumption, ~Blind PROVE Spec => []ConfirmedMeansGone
<1>1. GoneInv => ConfirmedMeansGone BY DEF GoneInv
<1> QED BY <1>1, GoneInvariant, PTL
=============================================================================
