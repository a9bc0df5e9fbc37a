-------------------------- MODULE OwnedTreeProofs --------------------------
(***************************************************************************)
(* Proof that a cleanup ends the leaves of the process tree first, for any *)
(* tree.  Depth and the chain of ancestors are recursive functions along   *)
(* the parent links, and a link leads to an older entry: a set of entries  *)
(* that lacks one lacks an oldest one, and that is all the induction       *)
(* there is.  What remains is that a pass forgets no entry it started      *)
(* from, which PassKnows says.                                             *)
(***************************************************************************)
EXTENDS OwnedProcessesProofs, WellFoundedInduction

-----------------------------------------------------------------------------
(* Induction over data                                                     *)

\* A set of numbers that is not empty has a least one.
LEMMA Least ==
    ASSUME NEW T \in SUBSET Nat, T # {}
    PROVE  \E m \in T : \A n \in T : m <= n
<1> DEFINE Below(n) == 0 .. n
           U == {Below(n) : n \in T}
           R == StrictSubsetOrdering(Nat)
<1>1. U \subseteq FiniteSubsetsOf(Nat)
  <2>1. ASSUME NEW n \in T PROVE Below(n) \in FiniteSubsetsOf(Nat)
    <3>1. n \in Int /\ 0 \in Int OBVIOUS
    <3>2. IsFiniteSet(0 .. n) BY <3>1, FS_Interval
    <3>3. 0 .. n \in SUBSET Nat OBVIOUS
    <3> QED BY <3>2, <3>3 DEF FiniteSubsetsOf
  <2> QED BY <2>1
<1>2. U # {} OBVIOUS
<1>3. PICK x \in U : \A y \in U : <<y, x>> \notin R
  <2> HIDE DEF R, U
  <2>1. IsWellFoundedOn(R, FiniteSubsetsOf(Nat))
    BY FS_StrictSubsetOrderingWellFounded DEF R
  <2> QED BY <1>1, <1>2, <2>1, WFMin
<1>4. PICK m \in T : x = Below(m) BY <1>3
<1>5. ASSUME NEW n \in T, n < m PROVE FALSE
  <2>1. Below(n) \in SUBSET Nat /\ Below(m) \in SUBSET Nat OBVIOUS
  <2>2. Below(n) \subseteq Below(m) /\ Below(n) # Below(m)
    <3>1. m \in Below(m) /\ m \notin Below(n) BY <1>5
    <3>2. Below(n) \subseteq Below(m) BY <1>5
    <3> QED BY <3>1, <3>2
  <2>3. <<Below(n), Below(m)>> \in R
    BY <2>1, <2>2 DEF StrictSubsetOrdering
  <2> QED BY <1>3, <1>4, <2>3
<1> QED BY <1>5

-----------------------------------------------------------------------------
(* Recursion along the parent links                                        *)

\* The parent links lead from a newer to an older entry, none newer than the
\* generation, so that what is defined by recursion along them is defined.
Along(f, base, step) ==
    f = [e \in Procs |-> IF parent[e] = None THEN base ELSE step[<<e, f[parent[e]]>>]]
AlongUpTo(n, f, base, step) ==
    \A e \in Procs : registeredAt[e] < n =>
        f[e] = IF parent[e] = None THEN base ELSE step[<<e, f[parent[e]]>>]

LEMMA AlongExists ==
    ASSUME OwnedAssumption, RegistryInv, NEW S, NEW base \in S,
           NEW step \in [Procs \X S -> S]
    PROVE  \E f : Along(f, base, step)
<1> DEFINE Def(f, e) == IF parent[e] = None THEN base ELSE step[<<e, f[parent[e]]>>]
           Good(n) == \E f \in [Procs -> S] : AlongUpTo(n, f, base, step)
           T == {n \in Nat : ~Good(n)}
<1>1. /\ parent \in [Procs -> Procs \cup {None}]
      /\ registeredAt \in [Procs -> Nat]
      /\ None \notin Procs
      /\ generation \in Nat
      /\ \A e \in Procs : registeredAt[e] < generation + 1
      /\ \A e \in Procs : parent[e] # None =>
            parent[e] \in Procs /\ registeredAt[parent[e]] < registeredAt[e]
  BY DEF OwnedAssumption, RegistryInv, Wellformed, TypeOK, Registered, EntryFacts,
         ParentsAreOlder
<1>2. ASSUME NEW f \in [Procs -> S], NEW e \in Procs PROVE Def(f, e) \in S
  BY <1>1
<1>3. Good(0)
  <2> DEFINE f == [e \in Procs |-> base]
  <2>1. f \in [Procs -> S] OBVIOUS
  <2>2. AlongUpTo(0, f, base, step) BY <1>1 DEF AlongUpTo
  <2> QED BY <2>1, <2>2
<1>4. ASSUME NEW n \in Nat, Good(n) PROVE Good(n + 1)
  <2>1. PICK f \in [Procs -> S] : AlongUpTo(n, f, base, step) BY <1>4
  <2> DEFINE g == [e \in Procs |-> Def(f, e)]
  <2>2. g \in [Procs -> S] BY <1>2
  <2>3. ASSUME NEW e \in Procs, registeredAt[e] < n PROVE g[e] = f[e]
    BY <2>1, <2>3 DEF AlongUpTo
  <2>4. ASSUME NEW e \in Procs, registeredAt[e] < n + 1 PROVE g[e] = Def(g, e)
    <3>1. g[e] = Def(f, e) OBVIOUS
    <3>2. CASE parent[e] = None BY <3>1, <3>2
    <3>3. CASE parent[e] # None
      <4>1. parent[e] \in Procs /\ registeredAt[parent[e]] < n BY <1>1, <2>4, <3>3
      <4>2. g[parent[e]] = f[parent[e]] BY <2>3, <4>1
      <4> HIDE DEF g
      <4> QED BY <3>1, <4>2
    <3> QED BY <3>2, <3>3
  <2>5. AlongUpTo(n + 1, g, base, step)
    <3> HIDE DEF g
    <3> QED BY <2>4 DEF AlongUpTo
  <2> QED BY <2>2, <2>5
<1>5. T = {}
  <2> SUFFICES ASSUME T # {} PROVE FALSE OBVIOUS
  <2>1. PICK m \in T : \A n \in T : m <= n
    <3>1. T \in SUBSET Nat OBVIOUS
    <3> HIDE DEF T
    <3> QED BY <3>1, Least
  <2> HIDE DEF Good
  <2>2. m # 0 BY <1>3
  <2>3. m - 1 \in Nat /\ m - 1 \notin T BY <2>1, <2>2
  <2>4. Good(m - 1) BY <2>3
  <2>5. Good((m - 1) + 1) BY <1>4, <2>3, <2>4
  <2>6. (m - 1) + 1 = m OBVIOUS
  <2> QED BY <2>5, <2>6
<1>6. Good(generation + 1)
  <2> HIDE DEF Good
  <2> QED BY <1>1, <1>5
<1>7. PICK f \in [Procs -> S] : AlongUpTo(generation + 1, f, base, step) BY <1>6
<1>8. \A e \in Procs : f[e] = Def(f, e) BY <1>1, <1>7 DEF AlongUpTo
<1>9. f = [e \in Procs |-> Def(f, e)]
  <2> HIDE DEF Def
  <2> QED BY <1>8
<1> QED BY <1>9 DEF Along

\* What holds of an entry whenever it holds of its parent holds of every entry.
LEMMA ParentInduction ==
    ASSUME OwnedAssumption, RegistryInv, NEW G,
           \A e \in Procs : parent[e] = None \/ parent[e] \in G => e \in G
    PROVE  Procs \subseteq G
<1> DEFINE T == {registeredAt[e] : e \in Procs \ G}
<1>1. /\ parent \in [Procs -> Procs \cup {None}]
      /\ registeredAt \in [Procs -> Nat]
      /\ \A e \in Procs : parent[e] # None =>
            parent[e] \in Procs /\ registeredAt[parent[e]] < registeredAt[e]
  BY DEF OwnedAssumption, RegistryInv, Wellformed, TypeOK, ParentsAreOlder
<1> SUFFICES ASSUME T # {} PROVE FALSE OBVIOUS
<1>2. PICK m \in T : \A n \in T : m <= n
  <2>1. T \in SUBSET Nat BY <1>1
  <2> HIDE DEF T
  <2> QED BY <2>1, Least
<1>3. PICK e \in Procs \ G : registeredAt[e] = m OBVIOUS
<1>4. parent[e] \in Procs \ G /\ registeredAt[parent[e]] < m BY <1>1, <1>3
<1>5. m <= registeredAt[parent[e]] BY <1>2, <1>4
<1>6. m \in Nat /\ registeredAt[parent[e]] \in Nat BY <1>1, <1>3, <1>4
<1> QED BY <1>4, <1>5, <1>6

\* Depth is what its recursive definition says: 0 without a parent, else one
\* more than the parent's.
LEMMA DepthByParent ==
    ASSUME OwnedAssumption, RegistryInv
    PROVE  /\ Depth \in [Procs -> Nat]
           /\ \A e \in Procs :
                 Depth[e] = IF parent[e] = None THEN 0 ELSE 1 + Depth[parent[e]]
<1> DEFINE step == [x \in Procs \X Nat |-> 1 + x[2]]
           Body(f) == [e \in Procs |-> IF parent[e] = None THEN 0 ELSE 1 + f[parent[e]]]
<1>1. step \in [Procs \X Nat -> Nat] OBVIOUS
<1>2. \A e \in Procs : parent[e] # None => parent[e] \in Procs
  BY DEF OwnedAssumption, RegistryInv, Wellformed, TypeOK
<1>3. PICK f : Along(f, 0, step)
  <2> HIDE DEF step
  <2> QED BY <1>1, AlongExists
<1>4. \A e \in Procs : f[e] \in Nat
  <2> HIDE DEF step
  <2> DEFINE G == {e \in Procs : f[e] \in Nat}
  <2>1. \A e \in Procs : parent[e] = None \/ parent[e] \in G => e \in G
    BY <1>1, <1>3 DEF Along
  <2>2. Procs \subseteq G
    <3> HIDE DEF G
    <3> QED BY <2>1, ParentInduction
  <2> QED BY <2>2
<1>5. f = Body(f) BY <1>2, <1>3, <1>4 DEF Along
<1>6. Depth = Body(Depth) BY <1>5 DEF Depth
<1> DEFINE g == Depth
<1>7. g = Body(g) BY <1>6
<1> SUFFICES /\ g \in [Procs -> Nat]
             /\ \A e \in Procs : g[e] = IF parent[e] = None THEN 0 ELSE 1 + g[parent[e]]
  OBVIOUS
<1> HIDE DEF g
<1>8. \A e \in Procs : g[e] = IF parent[e] = None THEN 0 ELSE 1 + g[parent[e]]
  BY <1>7
<1>9. \A e \in Procs : g[e] \in Nat
  <2> DEFINE G == {e \in Procs : g[e] \in Nat}
  <2>1. \A e \in Procs : parent[e] = None \/ parent[e] \in G => e \in G
    BY <1>8
  <2>2. Procs \subseteq G
    <3> HIDE DEF G
    <3> QED BY <2>1, ParentInduction
  <2> QED BY <2>2
<1> QED BY <1>7, <1>8, <1>9

\* An ancestor is less deep.
LEMMA AncestorsAreHigher ==
    ASSUME OwnedAssumption, RegistryInv, NEW p \in Procs, NEW q \in Procs,
           IsAncestor(p, q)
    PROVE  Depth[p] < Depth[q]
<1> DEFINE Up[e \in Procs] == parent[e] # None /\ (parent[e] = p \/ Up[parent[e]])
           step == [x \in Procs \X BOOLEAN |-> parent[x[1]] = p \/ x[2]]
           Body(f) == [e \in Procs |-> parent[e] # None /\ (parent[e] = p \/ f[parent[e]])]
<1>1. step \in [Procs \X BOOLEAN -> BOOLEAN] OBVIOUS
<1>2. \A e \in Procs : parent[e] # None => parent[e] \in Procs
  BY DEF OwnedAssumption, RegistryInv, Wellformed, TypeOK
<1>3. PICK f : Along(f, FALSE, step)
  <2> HIDE DEF step
  <2> QED BY <1>1, AlongExists
<1>4. \A e \in Procs : f[e] \in BOOLEAN
  <2> HIDE DEF step
  <2> DEFINE G == {e \in Procs : f[e] \in BOOLEAN}
  <2>1. \A e \in Procs : parent[e] = None \/ parent[e] \in G => e \in G
    <3>1. ASSUME NEW e \in Procs, parent[e] = None PROVE f[e] \in BOOLEAN
      BY <1>3, <3>1 DEF Along
    <3>2. ASSUME NEW e \in Procs, parent[e] # None, parent[e] \in G
          PROVE  f[e] \in BOOLEAN
      <4>1. f[e] = step[<<e, f[parent[e]]>>] BY <1>3, <3>2 DEF Along
      <4>2. <<e, f[parent[e]]>> \in Procs \X BOOLEAN BY <3>2
      <4> QED BY <1>1, <4>1, <4>2
    <3> QED BY <3>1, <3>2
  <2>2. Procs \subseteq G
    <3> HIDE DEF G
    <3> QED BY <2>1, ParentInduction
  <2> QED BY <2>2
<1>5. f = Body(f)
  <2>1. ASSUME NEW e \in Procs, parent[e] # None
        PROVE  step[<<e, f[parent[e]]>>] = (parent[e] = p \/ f[parent[e]])
    BY <1>2, <1>4, <2>1
  <2> HIDE DEF step
  <2> QED BY <1>3, <2>1 DEF Along
<1>6. Up = Body(Up) BY <1>5
<1>7. \A e \in Procs : Up[e] => parent[e] # None /\ (parent[e] = p \/ Up[parent[e]])
  <2> HIDE DEF Up
  <2> QED BY <1>6
<1>8. Up[q] BY DEF IsAncestor
<1> DEFINE G == {e \in Procs : Up[e] => Depth[p] < Depth[e]}
<1>9. \A e \in Procs : parent[e] = None \/ parent[e] \in G => e \in G
  <2> HIDE DEF Up
  <2> QED BY <1>2, <1>7, DepthByParent
<1>10. Procs \subseteq G
  <2> HIDE DEF G
  <2> QED BY <1>9, ParentInduction
<1> HIDE DEF Up
<1> QED BY <1>8, <1>10

-----------------------------------------------------------------------------
(* What a pass knows                                                       *)

\* The steps at which a cleanup has a list of entries to deal with.
InPass == {"working", "killing", "waiting"}

\* Whatever a pass started from and has not yet dealt with has an end, or is
\* still to come.
PassKnows ==
    \A c \in Cleanups : pc[c] \in InPass =>
        \A q \in Procs :
            status[q] # "absent" /\ registeredAt[q] <= seen[c] =>
                disposition[q] # None \/ q \in todo[c]

\* What a step does to the order of the registry, and to the pass of cleanup c:
\* entries are numbered anew only when they come; a pass starts with everything
\* that has no end, and drops only what has one since.
RegistryWalks ==
    \A q \in Procs :
        \/ registeredAt'[q] = generation + 1
        \/ /\ registeredAt'[q] = registeredAt[q]
           /\ status'[q] # "absent" => status[q] # "absent"
PassWalks(c) ==
    pc'[c] \in InPass =>
        \/ /\ seen'[c] = generation
           /\ Unended \subseteq todo'[c]
           /\ UNCHANGED <<status, disposition>>
           /\ pc[c] = "between"
        \/ /\ seen'[c] = seen[c]
           /\ \A q \in todo[c] \ todo'[c] : disposition'[q] # None
           /\ pc[c] \in InPass
           /\ pc[c] = "working" /\ pc'[c] = "killing" => EntryTargeted(c, target'[c])
Walks == RegistryWalks /\ \A c \in Cleanups : PassWalks(c)

\* No cleanup moves.
LEMMA PassesRest ==
    ASSUME RegistryWalks, UNCHANGED <<pc, todo, seen>> PROVE Walks
BY DEF Walks, PassWalks

\* One cleanup moves, and does not touch the order of the registry.
LEMMA PassMoves ==
    ASSUME TypeOK, UNCHANGED <<status, registeredAt>>,
           NEW c \in Cleanups, NEW p, pc' = [pc EXCEPT ![c] = p],
           \A d \in Cleanups : d # c => todo'[d] = todo[d] /\ seen'[d] = seen[d],
           pc'[c] = p => PassWalks(c)
    PROVE  Walks
<1>1. pc'[c] = p /\ \A d \in Cleanups : d # c => pc'[d] = pc[d] BY DEF TypeOK
<1>2. RegistryWalks BY DEF RegistryWalks
<1>3. ASSUME NEW d \in Cleanups, d # c PROVE PassWalks(d)
  <2>1. pc'[d] = pc[d] /\ todo'[d] = todo[d] /\ seen'[d] = seen[d] BY <1>1, <1>3
  <2> QED BY <2>1 DEF PassWalks
<1> QED BY <1>1, <1>2, <1>3 DEF Walks

\* It moves to where it has no list.
LEMMA PassLeaves ==
    ASSUME TypeOK, UNCHANGED <<status, registeredAt, todo, seen>>,
           NEW c \in Cleanups, NEW p, p \notin InPass, pc' = [pc EXCEPT ![c] = p]
    PROVE  Walks
<1>1. pc'[c] = p => PassWalks(c) BY DEF PassWalks
<1> QED BY <1>1, PassMoves

\* It records the end of p, or fails to.
LEMMA PassRecords ==
    ASSUME OwnedAssumption, TypeOK, NEW c \in Cleanups, NEW p \in Procs,
           NEW d \in {Gone, Forced}, Records(c, p, d) \/ RecordFails(c, p, d),
           pc[c] \in {"working", "waiting"}, UNCHANGED <<status, registeredAt>>
    PROVE  Walks
<1>1. CASE Records(c, p, d)
  <2>1. /\ pc' = [pc EXCEPT ![c] = "working"]
        /\ todo' = [todo EXCEPT ![c] = @ \ {p}]
        /\ UNCHANGED seen
    BY <1>1 DEF Records, Goes
  <2>2. todo[c] \ todo'[c] \subseteq {p}
        /\ \A e \in Cleanups : e # c => todo'[e] = todo[e]
    BY <2>1 DEF TypeOK
  <2>3. disposition'[p] # None
    <3>1. d # None
      BY DEF OwnedAssumption, Gone, Forced, Confirmed, Unconfirmed, Cooperative
    <3>2. CASE disposition' = [disposition EXCEPT ![p] = d]
      BY <3>1, <3>2 DEF TypeOK
    <3>3. CASE disposition[p] = d /\ UNCHANGED endVars
      BY <3>1, <3>3 DEF endVars
    <3> QED BY <1>1, <3>2, <3>3 DEF Records, Ends
  <2>4. pc'[c] = "working" => PassWalks(c)
    <3> SUFFICES ASSUME pc'[c] = "working" PROVE PassWalks(c) OBVIOUS
    <3> QED BY <2>1, <2>2, <2>3 DEF PassWalks, InPass
  <2> QED BY <2>1, <2>2, <2>4, PassMoves
<1>2. CASE RecordFails(c, p, d)
  <2>1. pc' = [pc EXCEPT ![c] = "failed"] /\ UNCHANGED <<todo, seen>>
    BY <1>2 DEF RecordFails, Fails, Goes
  <2> QED BY <2>1, PassLeaves DEF InPass
<1> QED BY <1>1, <1>2

\* The steps of everybody but the cleanups.
LEMMA OthersWalk ==
    ASSUME Wellformed, NEW p \in Procs,
           \/ DescendantStarts(p) \/ ProcessExits(p)
           \/ Registration(p) \/ ExitDuringRegistration(p) \/ DescendantReleased(p)
           \/ p \in Roots /\ (LaunchChild(p) \/ Close(p))
           \/ \E r \in Roots : DescendantRegisters(r, p) \/ DescendantOfIncomplete(r, p)
    PROVE  Walks
<1> USE DEF osVars, entryVars, cleanupVars
<1>1. TypeOK BY DEF Wellformed
<1>2. UNCHANGED <<pc, todo, seen>>
  <2>1. CASE DescendantStarts(p) BY <2>1 DEF DescendantStarts
  <2>2. CASE ProcessExits(p) BY <2>2 DEF ProcessExits
  <2>3. CASE Registration(p)
    BY <2>3 DEF Registration, ChildRefused, ChildRegisters, RegistrationBegins,
       RegistrationCommits, RegistrationUnlisted, RegistrationFails
  <2>4. CASE ExitDuringRegistration(p) BY <2>4 DEF ExitDuringRegistration
  <2>5. CASE DescendantReleased(p) BY <2>5 DEF DescendantReleased
  <2>6. CASE LaunchChild(p) BY <2>6 DEF LaunchChild
  <2>7. CASE Close(p)
    BY <2>7 DEF Close, CloseUnrecorded, CloseRecorded, CloseWriteFails, CloseArrives
  <2>8. ASSUME NEW r \in Roots,
               DescendantRegisters(r, p) \/ DescendantOfIncomplete(r, p)
        PROVE  UNCHANGED <<pc, todo, seen>>
    BY <2>8 DEF DescendantRegisters, RegistrationBegins, DescendantOfIncomplete
  <2> QED BY <2>1, <2>2, <2>3, <2>4, <2>5, <2>6, <2>7, <2>8
<1>3. ASSUME RegistrationBegins(p) PROVE RegistryWalks
  <2>1. /\ registeredAt' = [registeredAt EXCEPT ![p] = generation + 1]
        /\ status' = [status EXCEPT ![p] = "PENDING"]
    BY <1>3 DEF RegistrationBegins
  <2> QED BY <1>1, <2>1 DEF TypeOK, RegistryWalks
<1>4. ASSUME UNCHANGED <<status, registeredAt>> PROVE RegistryWalks
  BY <1>4 DEF RegistryWalks
<1>5. ASSUME NEW s, status[p] = "PENDING", status' = [status EXCEPT ![p] = s],
             UNCHANGED registeredAt
      PROVE  RegistryWalks
  BY <1>1, <1>5 DEF TypeOK, RegistryWalks
<1>6. RegistryWalks
  <2>1. CASE DescendantStarts(p) BY <1>4, <2>1 DEF DescendantStarts
  <2>2. CASE ProcessExits(p) BY <1>4, <2>2 DEF ProcessExits
  <2>3. CASE Registration(p)
    <3>1. CASE ChildRefused(p) BY <1>4, <3>1 DEF ChildRefused
    <3>2. CASE ChildRegisters(p) BY <1>3, <3>2 DEF ChildRegisters
    <3>3. CASE RegistrationCommits(p) BY <1>5, <3>3 DEF RegistrationCommits
    <3>4. CASE RegistrationUnlisted(p) BY <1>5, <3>4 DEF RegistrationUnlisted
    <3>5. CASE RegistrationFails(p) BY <1>5, <3>5 DEF RegistrationFails
    <3> QED BY <2>3, <3>1, <3>2, <3>3, <3>4, <3>5 DEF Registration
  <2>4. CASE ExitDuringRegistration(p) BY <1>4, <2>4 DEF ExitDuringRegistration
  <2>5. CASE DescendantReleased(p) BY <1>4, <2>5 DEF DescendantReleased
  <2>6. CASE LaunchChild(p) BY <1>4, <2>6 DEF LaunchChild
  <2>7. CASE Close(p)
    BY <1>4, <2>7 DEF Close, CloseUnrecorded, CloseRecorded, CloseWriteFails,
       CloseArrives
  <2>8. ASSUME NEW r \in Roots,
               DescendantRegisters(r, p) \/ DescendantOfIncomplete(r, p)
        PROVE  RegistryWalks
    BY <1>3, <1>4, <2>8 DEF DescendantRegisters, DescendantOfIncomplete
  <2> QED BY <2>1, <2>2, <2>3, <2>4, <2>5, <2>6, <2>7, <2>8
<1> QED BY <1>2, <1>6, PassesRest

LEMMA CleanupsWalk ==
    ASSUME OwnedAssumption, Wellformed, TypeOK', NEW c \in Cleanups,
           \/ CleanupRefused(c) \/ CleanupBeginFails(c) \/ Cleanup(c)
           \/ \E h \in Roots \cup {None} : CleanupBegins(c, h)
    PROVE  Walks
<1> USE DEF entryVars, cleanupVars, InPass
<1>1. TypeOK /\ CleanupFacts(c) BY DEF Wellformed, Registered
<1>2. ASSUME Fails(c), UNCHANGED <<status, registeredAt>> PROVE Walks
  <2>1. pc' = [pc EXCEPT ![c] = "failed"] /\ UNCHANGED <<todo, seen>>
    BY <1>2 DEF Fails, Goes
  <2> QED BY <1>1, <1>2, <2>1, PassLeaves
<1>3. CASE CleanupRefused(c) BY <1>2, <1>3 DEF CleanupRefused
<1>4. CASE CleanupBeginFails(c) BY <1>2, <1>4 DEF CleanupBeginFails
<1>5. ASSUME NEW h, CleanupBegins(c, h) PROVE Walks
  <2>1. /\ pc' = [pc EXCEPT ![c] = "between"]
        /\ UNCHANGED <<status, registeredAt, todo, seen>>
    BY <1>5 DEF CleanupBegins, Goes
  <2> QED BY <1>1, <2>1, PassLeaves
<1>6. CASE PassStarts(c)
  <2>1. /\ pc[c] = "between"
        /\ pc' = [pc EXCEPT ![c] = "working"]
        /\ seen' = [seen EXCEPT ![c] = generation]
        /\ todo' = [todo EXCEPT ![c] = Unended]
        /\ UNCHANGED <<status, registeredAt, disposition>>
    BY <1>6 DEF PassStarts, Goes, endVars
  <2>2. /\ seen'[c] = generation /\ todo'[c] = Unended
        /\ \A d \in Cleanups : d # c => todo'[d] = todo[d] /\ seen'[d] = seen[d]
    BY <1>1, <2>1 DEF TypeOK
  <2>3. PassWalks(c) BY <2>1, <2>2 DEF PassWalks
  <2> QED BY <1>1, <2>1, <2>2, <2>3, PassMoves
<1>7. ASSUME NEW p \in Procs, EntryGone(c, p) PROVE Walks
  <2>1. /\ pc[c] = "working"
        /\ Records(c, p, Gone) \/ RecordFails(c, p, Gone)
        /\ UNCHANGED <<status, registeredAt>>
    BY <1>7 DEF EntryGone, IsNext
  <2> QED BY <1>1, <2>1, PassRecords
<1>8. ASSUME NEW p \in Procs, EntryTargeted(c, p) PROVE Walks
  <2>1. /\ pc[c] = "working"
        /\ pc' = [pc EXCEPT ![c] = "killing"]
        /\ target' = [target EXCEPT ![c] = p]
        /\ UNCHANGED <<status, registeredAt, todo, seen>>
    BY <1>8 DEF EntryTargeted, IsNext, Goes
  <2>2. target'[c] = p BY <1>1, <2>1 DEF TypeOK
  <2>3. PassWalks(c) BY <1>8, <2>1, <2>2 DEF PassWalks
  <2> QED BY <1>1, <2>1, <2>3, PassMoves
<1>9. ASSUME NEW p \in Procs, EntryTargetFails(c, p) PROVE Walks
  BY <1>2, <1>9 DEF EntryTargetFails
<1>10. CASE KillRuns(c)
  <2>1. /\ pc[c] = "killing"
        /\ pc' = [pc EXCEPT ![c] = "waiting"]
        /\ UNCHANGED <<status, registeredAt, todo, seen>>
    BY <1>10 DEF KillRuns, Goes
  <2>2. PassWalks(c) BY <2>1 DEF PassWalks
  <2> QED BY <1>1, <2>1, <2>2, PassMoves
<1>11. CASE TargetStillAlive(c)
  <2>1. UNCHANGED <<status, registeredAt, pc, todo, seen>>
    BY <1>11 DEF TargetStillAlive
  <2>2. RegistryWalks BY <2>1 DEF RegistryWalks
  <2> QED BY <2>1, <2>2, PassesRest
<1>12. CASE TargetGone(c)
  <2>1. /\ pc[c] = "waiting" /\ target[c] \in Procs
        /\ Records(c, target[c], Forced) \/ RecordFails(c, target[c], Forced)
        /\ UNCHANGED <<status, registeredAt>>
    BY <1>1, <1>12 DEF TargetGone, CleanupFacts
  <2> QED BY <1>1, <2>1, PassRecords
<1>13. CASE TargetUnconfirmed(c) BY <1>2, <1>13 DEF TargetUnconfirmed
<1>14. CASE PassEnds(c)
  <2>1. /\ pc' = [pc EXCEPT ![c] = "settling"]
        /\ UNCHANGED <<status, registeredAt, todo, seen>>
    BY <1>14 DEF PassEnds, Goes
  <2> QED BY <1>1, <2>1, PassLeaves
<1>15. CASE CleanupConfirms(c)
  <2>1. /\ pc' = [pc EXCEPT ![c] = "confirmed"]
        /\ UNCHANGED <<status, registeredAt, todo, seen>>
    BY <1>15 DEF CleanupConfirms, Goes
  <2> QED BY <1>1, <2>1, PassLeaves
<1>16. CASE NextPass(c)
  <2>1. /\ pc' = [pc EXCEPT ![c] = "between"]
        /\ UNCHANGED <<status, registeredAt, todo, seen>>
    BY <1>16 DEF NextPass, Goes
  <2> QED BY <1>1, <2>1, PassLeaves
<1>17. CASE CleanupGivesUp(c) BY <1>2, <1>17 DEF CleanupGivesUp
<1> QED BY <1>3, <1>4, <1>5, <1>6, <1>7, <1>8, <1>9, <1>10, <1>11, <1>12, <1>13,
          <1>14, <1>15, <1>16, <1>17 DEF Cleanup, CleanupEntry

LEMMA NextWalks ==
    ASSUME OwnedAssumption, Wellformed, TypeOK', Next
    PROVE  Walks
<1>1. \A r \in Roots : r \in Procs BY DEF OwnedAssumption
<1>2. ASSUME ShutdownBegins PROVE Walks
  <2>1. UNCHANGED <<status, registeredAt, pc, todo, seen>>
    BY <1>2 DEF ShutdownBegins, entryVars, cleanupVars
  <2>2. RegistryWalks BY <2>1 DEF RegistryWalks
  <2> QED BY <2>1, <2>2, PassesRest
<1> QED BY <1>1, <1>2, OthersWalk, CleanupsWalk DEF Next

LEMMA NextKnows ==
    ASSUME OwnedAssumption, RegistryInv, RegistryInv', PassKnows, Next
    PROVE  PassKnows'
<1>1. Kept /\ Walks BY NextKeeps, NextWalks DEF RegistryInv, Wellformed
<1> SUFFICES ASSUME NEW c \in Cleanups, pc'[c] \in InPass, NEW q \in Procs,
                    status'[q] # "absent", registeredAt'[q] <= seen'[c]
             PROVE  disposition'[q] # None \/ q \in todo'[c]
  BY DEF PassKnows
<1>2. /\ seen[c] \in Nat /\ seen[c] <= generation /\ generation \in Nat
      /\ seen'[c] \in {generation, seen[c]}
  BY <1>1 DEF RegistryInv, Wellformed, TypeOK, Registered, CleanupFacts, Walks,
     PassWalks
<1>3. registeredAt'[q] = registeredAt[q] /\ status[q] # "absent"
  BY <1>1, <1>2 DEF Walks, RegistryWalks
<1>4. CASE /\ Unended \subseteq todo'[c]
           /\ UNCHANGED <<status, disposition>>
  BY <1>3, <1>4 DEF Unended, Entries
<1>5. CASE /\ seen'[c] = seen[c]
           /\ \A r \in todo[c] \ todo'[c] : disposition'[r] # None
           /\ pc[c] \in InPass
  <2>1. disposition[q] # None \/ q \in todo[c] BY <1>3, <1>5 DEF PassKnows
  <2>2. disposition[q] # None => disposition'[q] = disposition[q] BY <1>1 DEF Kept
  <2> QED BY <1>5, <2>1, <2>2
<1>6. PassWalks(c) BY <1>1 DEF Walks
<1> QED BY <1>4, <1>5, <1>6 DEF PassWalks

TreeInv == RegistryInv /\ PassKnows

LEMMA TreeInvariant == ASSUME OwnedAssumption PROVE Spec => []TreeInv
<1>1. Init => TreeInv
  BY InitRegistryInv DEF TreeInv, PassKnows, InPass, Init
<1>2. ASSUME TreeInv, [Next]_vars PROVE TreeInv'
  <2>1. RegistryInv' BY <1>2, NextRegistryInv DEF TreeInv
  <2>2. CASE Next BY <1>2, <2>1, <2>2, NextKnows DEF TreeInv
  <2>3. CASE UNCHANGED vars
    BY <1>2, <2>1, <2>3 DEF TreeInv, PassKnows, vars, entryVars, endVars, cleanupVars
  <2> QED BY <1>2, <2>2, <2>3
<1> QED BY <1>1, <1>2, PTL DEF Spec

\* LeavesFirst, of one step.
LeavesStep ==
    \A c \in Cleanups, p, q \in Procs :
        /\ target'[c] = p /\ pc[c] = "working" /\ pc'[c] = "killing"
        /\ status[q] # "absent" /\ registeredAt[q] <= seen[c] /\ IsAncestor(p, q)
        => disposition[q] # None

\* A process is terminated only when every descendant its pass knows has an end,
\* whatever the tree of processes, and though a look at a live one may miss it.
THEOREM LeavesComeFirst == ASSUME OwnedAssumption PROVE Spec => LeavesFirst
<1>1. ASSUME TreeInv, Next PROVE LeavesStep
  <2> SUFFICES ASSUME NEW c \in Cleanups, NEW p \in Procs, NEW q \in Procs,
                      target'[c] = p, pc[c] = "working", pc'[c] = "killing",
                      status[q] # "absent", registeredAt[q] <= seen[c],
                      IsAncestor(p, q), disposition[q] = None
               PROVE  FALSE
    BY DEF LeavesStep
  <2> HIDE DEF IsAncestor
  <2>1. RegistryInv /\ PassKnows BY <1>1 DEF TreeInv
  <2>2. EntryTargeted(c, p)
    <3>1. Walks BY <1>1, <2>1, NextWellformed, NextWalks DEF RegistryInv, Wellformed
    <3> QED BY <3>1 DEF Walks, PassWalks, InPass
  <2>3. q \in todo[c] BY <2>1 DEF PassKnows, InPass
  <2>4. Depth[q] <= Depth[p] BY <2>2, <2>3 DEF EntryTargeted, IsNext
  <2>5. Depth[p] < Depth[q] BY <2>1, AncestorsAreHigher
  <2>6. Depth[p] \in Nat /\ Depth[q] \in Nat BY <2>1, DepthByParent
  <2> QED BY <2>4, <2>5, <2>6
<1>2. ASSUME TreeInv, [Next]_vars PROVE [LeavesStep]_vars BY <1>1, <1>2
<1>3. Spec => [][LeavesStep]_vars BY <1>2, TreeInvariant, PTL DEF Spec
<1> QED BY <1>3 DEF LeavesStep, LeavesFirst
=============================================================================
