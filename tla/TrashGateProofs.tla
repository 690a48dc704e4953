-------------------------- MODULE TrashGateProofs --------------------------
(***************************************************************************)
(* What TrashGate promises, for every volume, every set of paths and every *)
(* number of changes and removals.                                         *)
(***************************************************************************)
EXTENDS TrashGate, TLAPS

USE ConstantsAssumption

(***************************************************************************)
(* Types                                                                   *)
(***************************************************************************)

\* An existing path, in a typed state, is an inode with an identity.
LEMMA IdType ==
  ASSUME TypeOK, NEW p \in Paths, Exists(p)
  PROVE  disk[p] \in Inodes /\ Id(p) \in Identity
BY DEF TypeOK, Exists, Id, Identity

LEMMA InitTypeOK == Init => TypeOK
<1> SUFFICES ASSUME Init PROVE TypeOK
  OBVIOUS
<1>1. res \in [Paths -> Proof]
  BY DEF Init, Proof, Identity
<1>2. refs \in [readable : BOOLEAN, roots : SUBSET Paths]
  BY DEF Init
<1> QED
  BY <1>1, <1>2 DEF Init, TypeOK, NothingFresh, NothingPassed, NothingCached,
     NoProof, Proof, Points

\* The locals of _verified_survivor are set before they are used.
LEMMA StepLocalsOK == LocalsOK /\ [Next]_vars => LocalsOK'
<1> SUFFICES ASSUME LocalsOK, [Next]_vars PROVE LocalsOK'
  OBVIOUS
<1> USE DEF LocalsOK, InLoop, fsVars, gateVars, opVars, callVars
<1>1. CASE Pipeline
  <2>1. ASSUME NEW p \in Paths, Rescan(p) \/ MoveCheck(p) \/ Send(p)
        PROVE  LocalsOK'
    BY <2>1 DEF Rescan, MoveCheck, Send
  <2>2. ASSUME NEW p \in Paths, ProveVictim(p) \/ ProveCopy(p)
        PROVE  LocalsOK'
    BY <2>2 DEF ProveVictim, Refuse, Forget, Accept, NextCandidate, AcceptCopy,
       ProveCopy, Candidates, ClassPaths
  <2>3. CASE \/ RescanStat \/ RescanDone \/ VictimStat \/ ConsultCache
             \/ CopyStat \/ NoSurvivor
    BY <2>3 DEF RescanStat, RescanDone, VictimStat, ConsultCache, Accept, Refuse,
       Forget, NextCandidate, AcceptCopy, CopyStat, NoSurvivor
  <2>4. CASE FirstPassDone \/ SecondPassDone \/ Preflight
    BY <2>4 DEF FirstPassDone, End, SecondPassDone, Preflight
  <2>5. CASE MoveDone \/ LoopDone
    BY <2>5 DEF MoveDone, LoopDone, Finish, End, Forget
  <2> QED
    BY <1>1, <2>1, <2>2, <2>3, <2>4, <2>5 DEF Pipeline
<1>2. CASE User
  BY <1>2 DEF User, Start, BeginPass, Confirm, Decline, End
<1>3. CASE Machine
  BY <1>3 DEF Machine, EditInPlace, Replace, Delete, HardLink, SetReferences,
     Meddle
<1>4. CASE UNCHANGED vars
  BY <1>4 DEF vars
<1> QED
  BY <1>1, <1>2, <1>3, <1>4 DEF Next

\* The pieces of a step keep the types.
LEMMA StepTypeOK == TypeOK /\ LocalsOK /\ [Next]_vars => TypeOK'
<1> SUFFICES ASSUME TypeOK, LocalsOK, [Next]_vars PROVE TypeOK'
  OBVIOUS
<1> USE DEF TypeOK, fsVars, gateVars, opVars, callVars, Points
<1> NothingFresh \in [Paths -> Proof] /\ NothingPassed \in [Paths -> Identity \cup {NoId}]
    /\ NothingCached \in [Contents -> Copy \cup {NoCopy}] /\ NoProof \in Proof
  BY DEF NothingFresh, NothingPassed, NothingCached, NoProof, Proof
<1>1. CASE Pipeline
  <2>1. ASSUME NEW p \in Paths, Rescan(p) PROVE TypeOK'
    <3>1. CASE Exists(p)
      <4>1. [id |-> NoId, class |-> content[disk[p]]] \in Proof
        BY <3>1 DEF Exists, Proof
      <4>2. fresh' \in [Paths -> Proof]
        BY <2>1, <3>1, <4>1 DEF Rescan
      <4> QED BY <2>1, <3>1, <4>2 DEF Rescan
    <3>2. CASE ~Exists(p)
      BY <2>1, <3>2 DEF Rescan
    <3> QED BY <3>1, <3>2
  <2>2. CASE RescanStat
    <3>1. fresh' \in [Paths -> Proof]
      <4> candidate \in Paths
        BY <2>2 DEF RescanStat, LocalsOK
      <4>1. CASE Exists(candidate)
        <5>1. [id |-> Id(candidate), class |-> fresh[candidate].class] \in Proof
          BY <4>1, IdType DEF Proof
        <5> QED BY <2>2, <4>1, <5>1 DEF RescanStat
      <4>2. CASE ~Exists(candidate)
        BY <2>2, <4>2 DEF RescanStat
      <4> QED BY <4>1, <4>2
    <3> QED BY <2>2, <3>1 DEF RescanStat
  <2>3. CASE RescanDone
    BY <2>3 DEF RescanDone
  <2>4. ASSUME NEW p \in Paths, ProveVictim(p) PROVE TypeOK'
    <3>1. CASE Exists(p)
      BY <2>4, <3>1, IdType DEF ProveVictim, Refuse, Forget
    <3>2. CASE ~Exists(p)
      BY <2>4, <3>2 DEF ProveVictim, Refuse, Forget
    <3> QED BY <3>1, <3>2
  <2>5. CASE VictimStat
    <3> victim \in Paths
      BY <2>5 DEF VictimStat, LocalsOK
    <3>1. CASE Exists(victim)
      BY <2>5, <3>1, IdType DEF VictimStat
    <3>2. CASE ~Exists(victim)
      BY <2>5, <3>2 DEF VictimStat, Refuse, Forget
    <3> QED BY <3>1, <3>2
  <2>6. CASE ConsultCache
    BY <2>6 DEF ConsultCache, Accept, Forget
  <2>7. ASSUME NEW p \in Paths, ProveCopy(p) PROVE TypeOK'
    BY SMTT(30), <2>7 DEF ProveCopy, NextCandidate, AcceptCopy, Accept, Forget, Copy, Exists
  <2>8. CASE CopyStat
    BY <2>8 DEF LocalsOK, CopyStat, NextCandidate, AcceptCopy, Accept, Forget, Copy, Exists
  <2>9. CASE NoSurvivor
    BY <2>9 DEF NoSurvivor, Refuse, Forget
  <2>10. CASE FirstPassDone
    BY <2>10 DEF FirstPassDone, End
  <2>11. CASE SecondPassDone
    BY <2>11 DEF SecondPassDone
  <2>12. CASE Preflight
    BY <2>12 DEF Preflight
  <2>13. ASSUME NEW p \in Paths, MoveCheck(p) PROVE TypeOK'
    BY <2>13 DEF MoveCheck
  <2>14. ASSUME NEW p \in Paths, Send(p) PROVE TypeOK'
    BY <2>14 DEF Send, Relinked, Exists
  <2>15. CASE MoveDone
    BY <2>15 DEF MoveDone, Finish, End, Forget
  <2>16. CASE LoopDone
    BY <2>16 DEF LoopDone, Finish, End, Forget
  <2> QED
    BY <1>1, <2>1, <2>2, <2>3, <2>4, <2>5, <2>6, <2>7, <2>8, <2>9, <2>10, <2>11,
       <2>12, <2>13, <2>14, <2>15, <2>16 DEF Pipeline
<1>2. CASE User
  <2>1. ASSUME NEW m \in {"batch", "fresh", "each"}, NEW s \in SUBSET Paths,
               Start(m, s)
        PROVE  TypeOK'
    BY <2>1 DEF Start, BeginPass
  <2>2. ASSUME NEW s \in SUBSET Paths, Confirm(s) PROVE TypeOK'
    BY <2>2 DEF Confirm, BeginPass
  <2>3. CASE Decline
    BY <2>3 DEF Decline, End
  <2> QED
    BY <1>2, <2>1, <2>2, <2>3 DEF User
<1>3. CASE Machine
  <2>1. ASSUME NEW p \in Paths, NEW c \in Contents, EditInPlace(p, c) PROVE TypeOK'
    BY <2>1 DEF EditInPlace, Meddle, Stamped, Exists
  <2>2. ASSUME NEW p \in Paths, NEW i \in Inodes, NEW c \in Contents, Replace(p, i, c)
        PROVE  TypeOK'
    BY <2>2 DEF Replace, Meddle, Stamped
  <2>3. ASSUME NEW p \in Paths, Delete(p) PROVE TypeOK'
    BY <2>3 DEF Delete, Meddle, Relinked, Exists
  <2>4. ASSUME NEW p \in Paths, NEW q \in Paths, HardLink(p, q) PROVE TypeOK'
    BY <2>4 DEF HardLink, Meddle, Stamped, Exists
  <2>5. ASSUME NEW r \in [readable : BOOLEAN, roots : RefLists], SetReferences(r)
        PROVE  TypeOK'
    BY <2>5 DEF SetReferences, Meddle
  <2> QED
    BY <1>3, <2>1, <2>2, <2>3, <2>4, <2>5 DEF Machine
<1>4. CASE UNCHANGED vars
  BY <1>4 DEF vars
<1> QED
  BY <1>1, <1>2, <1>3, <1>4 DEF Next

\* Every variable keeps its type: TrashGate is well defined on every volume.
THEOREM TypeCorrect == Spec => []TypeOK
<1>1. Init => TypeOK /\ LocalsOK
  BY InitTypeOK DEF Init, LocalsOK
<1>2. TypeOK /\ LocalsOK /\ [Next]_vars => (TypeOK /\ LocalsOK)'
  BY StepTypeOK, StepLocalsOK
<1> QED
  BY <1>1, <1>2, PTL DEF Spec

(***************************************************************************)
(* What is sent is what was proven                                         *)
(***************************************************************************)

\* Stamps only grow, and a change of a trusted inode's content moves its stamp.
LEMMA Clocks ==
  ASSUME TypeOK, [Next]_vars, NEW i \in Inodes
  PROVE  /\ stamp[i] <= stamp'[i]
         /\ i \in Trusted => (content'[i] = content[i] \/ stamp[i] < stamp'[i])
<1> USE DEF TypeOK, fsVars, Relinked, Stamped, Exists
<1>1. CASE Pipeline
  BY <1>1 DEF Pipeline, Rescan, RescanStat, RescanDone, ProveVictim, VictimStat,
     ConsultCache, ProveCopy, CopyStat, NoSurvivor, FirstPassDone, SecondPassDone,
     Preflight, MoveCheck, Send, MoveDone, LoopDone
<1>2. CASE User
  BY <1>2 DEF User, Start, Confirm, Decline
<1>3. CASE Machine
  BY <1>3 DEF Machine, EditInPlace, Replace, Delete, HardLink, SetReferences
<1>4. CASE UNCHANGED vars
  BY <1>4 DEF vars
<1> QED
  BY <1>1, <1>2, <1>3, <1>4 DEF Next

\* So what an identity vouches for, it vouches for after every step.
LEMMA VouchedStable ==
  ASSUME TypeOK, [Next]_vars, NEW id \in Identity \cup {NoId}, NEW c,
         TypeOK', Vouched(id, c, stamp, content)
  PROVE  Vouched(id, c, stamp', content')
BY Clocks DEF Vouched, Identity, NoId, TypeOK

\* Identities and moves live only inside one removal.
LEMMA StepPhasesOK == PhasesOK /\ LocalsOK /\ [Next]_vars => PhasesOK'
<1> SUFFICES ASSUME PhasesOK, LocalsOK, [Next]_vars PROVE PhasesOK'
  OBVIOUS
<1> USE DEF PhasesOK, InLoop, fsVars, gateVars, opVars, callVars
<1>1. CASE Pipeline
  BY ZenonT(60), <1>1 DEF Pipeline, Rescan, RescanStat, RescanDone, ProveVictim, Refuse,
     Forget, VictimStat, ConsultCache, Accept, NextCandidate, AcceptCopy,
     ProveCopy, CopyStat, NoSurvivor, FirstPassDone, End, SecondPassDone,
     Preflight, MoveCheck, Send, MoveDone, Finish, LoopDone
<1>2. CASE User
  BY <1>2 DEF User, Start, BeginPass, Confirm, Decline, End
<1>3. CASE Machine
  BY <1>3 DEF Machine, EditInPlace, Replace, Delete, HardLink, SetReferences,
     Meddle
<1>4. CASE UNCHANGED vars
  BY <1>4 DEF vars
<1> QED
  BY <1>1, <1>2, <1>3, <1>4 DEF Next

\* The result of the whole pipeline's bookkeeping: every identity it relies on
\* still speaks for the class it was proven for.
LEMMA StepProofsOK ==
  ASSUME WindowsClosed, TypeOK, TypeOK', LocalsOK, PhasesOK, ProofsOK, [Next]_vars
  PROVE  ProofsOK'
<1>v. \A id \in Identity \cup {NoId} : \A c :
        Vouched(id, c, stamp, content) => Vouched(id, c, stamp', content')
  BY VouchedStable
<1>n. \A c : Vouched(NoId, c, stamp', content')
  BY DEF Vouched
<1>i. ASSUME NEW p \in Paths, Exists(p), stamp' = stamp, content' = content
      PROVE  Vouched(Id(p), content[disk[p]], stamp', content')
  BY <1>i, IdType DEF Vouched, Id, Identity, NoId, TypeOK
<1>f. /\ \A p \in Paths : /\ NothingPassed[p] = NoId
                          /\ NothingFresh[p].id = NoId
      /\ NoProof.id = NoId
      /\ \A p \in Paths : /\ res[p].id \in Identity \cup {NoId}
                          /\ fresh[p].id \in Identity \cup {NoId}
                          /\ passed[p] \in Identity \cup {NoId}
      /\ vid \in Identity \cup {NoId}
  BY DEF TypeOK, NothingPassed, NothingFresh, NoProof, Proof
<1> USE DEF ProofsOK, fsVars, gateVars, opVars, callVars
<1> DEFINE Quiet == UNCHANGED <<res, fresh, mode, stamp, content, disk>>
\* A step that changes neither the disk nor a result keeps what it leaves alone.
<1>k. ASSUME UNCHANGED <<res, mode, fresh>>
      PROVE  \A p : Known(p)' = Known(p)
  BY <1>k DEF Known
<1>r. ASSUME UNCHANGED <<res, fresh>>
      PROVE  ResultsVouched'
  BY <1>r, <1>v, <1>f DEF ResultsVouched
<1>1. CASE Pipeline
  <2>1. ASSUME NEW p \in Paths, Rescan(p) PROVE ProofsOK'
    <3>1. /\ UNCHANGED <<stamp, content, disk, res, mode, passed, vid, mv>>
          /\ pc = "rescan" /\ passed = NothingPassed /\ vid = NoId
          /\ pc' \in {"rescan", "rescanStat"}
          /\ \A q \in Paths : mv[q] = "none"
      BY <2>1 DEF Rescan, PhasesOK
    <3>2. ResultsVouched'
      BY <2>1, <3>1, <1>v, <1>n, <1>f DEF Rescan, ResultsVouched, TypeOK, Exists
    <3>3. ReadsStand'
      BY <2>1, <3>1 DEF Rescan, ReadsStand, Exists, TypeOK
    <3> QED
      BY <3>1, <3>2, <3>3, <1>n, <1>f DEF PassedVouched, VictimVouched, MovesVouched
  <2>2. CASE RescanStat
    <3>1. /\ UNCHANGED <<stamp, content, disk, res, mode, passed, vid, mv>>
          /\ pc = "rescanStat" /\ passed = NothingPassed /\ vid = NoId
          /\ pc' = "rescan" /\ candidate \in Paths
          /\ \A q \in Paths : mv[q] = "none"
      BY <2>2 DEF RescanStat, PhasesOK, LocalsOK
    <3>2. ResultsVouched'
      <4>1. CASE Exists(candidate)
        <5>1. fresh' = [fresh EXCEPT ![candidate] =
                          [id |-> Id(candidate), class |-> fresh[candidate].class]]
          BY <2>2, <4>1 DEF RescanStat
        <5>2. content[disk[candidate]] = fresh[candidate].class
          BY <3>1, <4>1 DEF ReadsStand
        <5>3. Vouched(Id(candidate), fresh[candidate].class, stamp', content')
          BY <3>1, <4>1, <5>2, <1>i
        <5> QED
          BY <3>1, <5>1, <5>3, <1>v, <1>f DEF ResultsVouched, TypeOK
      <4>2. CASE ~Exists(candidate)
        BY <2>2, <4>2, <3>1, <1>v, <1>n, <1>f DEF RescanStat, ResultsVouched, TypeOK
      <4> QED BY <4>1, <4>2
    <3> QED
      BY <3>1, <3>2, <1>n, <1>f DEF PassedVouched, VictimVouched, MovesVouched, ReadsStand
  <2>3. CASE RescanDone
    <3>1. /\ UNCHANGED <<stamp, content, disk, res, fresh, mode, passed, vid, victim, mv>>
          /\ pc' = "gate"
      BY <2>3 DEF RescanDone
    <3> QED
      BY <3>1, <1>k, <1>r DEF PassedVouched, VictimVouched, MovesVouched, ReadsStand
  <2>4. ASSUME NEW p \in Paths, ProveVictim(p) PROVE ProofsOK'
    <3>1. /\ UNCHANGED <<stamp, content, disk, res, fresh, mode, passed, mv>>
          /\ pc = "gate" /\ vid = NoId
      BY <2>4 DEF ProveVictim, PhasesOK, Refuse
    <3>2. \/ victim' = Absent /\ vid' = NoId /\ pc' = "gate"
          \/ /\ Known(p).class # Unique /\ Exists(p) /\ Shortcut(p)
             /\ victim' = p /\ vid' = Id(p) /\ pc' = "cached"
          \/ /\ Known(p).class # Unique /\ Exists(p) /\ ReadsAs(p, Known(p).class)
             /\ victim' = p /\ vid' = NoId /\ pc' = "victimStat"
      BY <2>4, <3>1 DEF ProveVictim, Refuse, Forget
    <3>3. VictimVouched' /\ ReadsStand'
      <4>1. CASE pc' = "gate"
        BY <4>1, <3>2, <1>n DEF VictimVouched, ReadsStand
      <4>2. CASE pc' = "cached"
        <5>1. Known(p).id = vid' /\ Known(p)' = Known(p) /\ victim' = p
              /\ Known(p).class # Unique
          BY <4>2, <3>1, <3>2, <1>k DEF Shortcut
        <5>2. Vouched(Known(p).id, Known(p).class, stamp, content)
          BY DEF ResultsVouched, Known
        <5>3. Vouched(Known(p).id, Known(p).class, stamp', content')
          BY <5>2, <3>1
        <5> QED BY <4>2, <5>1, <5>3 DEF VictimVouched, ReadsStand, Known
      <4>3. CASE pc' = "victimStat"
        <5>1. /\ vid' = NoId /\ Known(p)' = Known(p) /\ victim' = p
              /\ Known(p).class # Unique
              /\ content[disk[p]] = Known(p).class
          BY <4>3, <3>1, <3>2, <1>k DEF ReadsAs
        <5> QED BY <4>3, <3>1, <5>1, <1>n DEF VictimVouched, ReadsStand, Known
      <4> QED BY <4>1, <4>2, <4>3, <3>2
    <3> QED
      BY <3>1, <3>3, <1>k, <1>r DEF PassedVouched, MovesVouched
  <2>5. CASE VictimStat
    <3>1. /\ UNCHANGED <<stamp, content, disk, res, fresh, mode, passed, mv>>
          /\ pc = "victimStat" /\ victim \in Paths /\ vid = NoId
      BY <2>5 DEF VictimStat, Refuse, PhasesOK, LocalsOK
    <3>2. VictimVouched' /\ ReadsStand'
      <4>1. CASE Exists(victim)
        <5>1. vid' = Id(victim) /\ pc' = "cached" /\ victim' = victim
              /\ Known(victim)' = Known(victim)
          BY <2>5, <4>1, <3>1, <1>k DEF VictimStat
        <5>2. content[disk[victim]] = Known(victim).class /\ Known(victim).class # Unique
          BY <3>1, <4>1 DEF ReadsStand, VictimVouched
        <5>3. Vouched(Id(victim), Known(victim).class, stamp', content')
          BY <3>1, <4>1, <5>2, <1>i
        <5> QED BY <5>1, <5>2, <5>3 DEF VictimVouched, ReadsStand
      <4>2. CASE ~Exists(victim)
        BY <2>5, <4>2, <1>n DEF VictimStat, Refuse, Forget, VictimVouched, ReadsStand
      <4> QED BY <4>1, <4>2
    <3> QED
      BY <3>1, <3>2, <1>k, <1>r DEF PassedVouched, MovesVouched
  <2>6. CASE ConsultCache \/ CopyStat \/ NoSurvivor \/ \E p \in Paths : ProveCopy(p)
    <3>1. /\ UNCHANGED <<stamp, content, disk, res, fresh, mode, mv>>
          /\ pc \in {"cached", "search", "copyStat"} /\ victim \in Paths
      BY <2>6 DEF ConsultCache, CopyStat, NoSurvivor, ProveCopy, LocalsOK
    <3>2. /\ \/ vid' = vid /\ victim' = victim
             \/ vid' = NoId
          /\ pc' \in {"search", "copyStat", "trash", "gate"}
          /\ pc' \in {"search", "copyStat"} => victim' = victim
          /\ passed' \in {passed, [passed EXCEPT ![victim] = vid]}
      BY <2>6, <3>1 DEF ConsultCache, CopyStat, NoSurvivor, ProveCopy, Accept,
         Forget, Refuse, NextCandidate, AcceptCopy
    <3>3. VictimVouched'
      BY <3>1, <3>2, <1>k, <1>n DEF VictimVouched
    <3>4. PassedVouched'
      BY <3>1, <3>2, <1>k DEF PassedVouched, VictimVouched, TypeOK
    <3> QED
      BY <3>1, <3>2, <3>3, <3>4, <1>k, <1>r DEF MovesVouched, ReadsStand
  <2>7. CASE FirstPassDone
    <3>1. /\ UNCHANGED <<stamp, content, disk, res, mode, vid, victim, mv>>
          /\ pc = "gate" /\ vid = NoId /\ pc' \in {"idle", "confirm"}
          /\ \A q \in Paths : mv[q] = "none"
          /\ \/ fresh' = fresh /\ passed' = passed
             \/ fresh' = NothingFresh /\ passed' = NothingPassed
      BY <2>7 DEF FirstPassDone, PhasesOK, End
    <3> QED
      BY <3>1, <1>n, <1>f, <1>k DEF ResultsVouched, PassedVouched, VictimVouched,
         MovesVouched, ReadsStand
  <2>8. CASE SecondPassDone \/ Preflight
    <3>1. /\ UNCHANGED <<stamp, content, disk, res, fresh, mode, passed, vid, victim>>
          /\ pc' \in {"trash", "moving"}
          /\ mv' = mv \/ \A q \in Paths : mv'[q] # "checked"
      BY <2>8 DEF SecondPassDone, Preflight
    <3> QED
      BY <3>1, <1>k, <1>r DEF PassedVouched, VictimVouched, MovesVouched, ReadsStand
  <2>9. ASSUME NEW p \in Paths, MoveCheck(p) PROVE ProofsOK'
    <3>1. /\ UNCHANGED <<stamp, content, disk, res, fresh, mode, passed, vid, victim,
                         candidate, pc>>
          /\ mv' = [mv EXCEPT ![p] = IF Authorized(p) THEN "checked" ELSE "none"]
      BY <2>9 DEF MoveCheck
    <3>2. (Authorized(p) /\ disk[p] \in Trusted) => content[disk[p]] = Known(p).class
      <4> SUFFICES ASSUME Authorized(p), disk[p] \in Trusted
                   PROVE  content[disk[p]] = Known(p).class
        OBVIOUS
      <4>1. passed[p] = Id(p) /\ passed[p] # NoId
        BY IdType DEF Authorized, Identity, NoId
      <4>2. Known(p).class # Unique /\ Vouched(Id(p), Known(p).class, stamp, content)
        BY <4>1 DEF PassedVouched
      <4> QED BY <4>1, <4>2 DEF Vouched, Id
    <3>3. MovesVouched'
      BY <3>1, <3>2, <1>k DEF MovesVouched, TypeOK
    <3> QED
      BY <3>1, <3>3, <1>k, <1>r DEF PassedVouched, VictimVouched, ReadsStand, Exists
  <2>10. ASSUME NEW p \in Paths, Send(p) PROVE ProofsOK'
    <3>1. /\ UNCHANGED <<content, res, fresh, mode, passed, vid, victim, pc>>
          /\ pc = "moving"
          /\ mv' = [mv EXCEPT ![p] = "none"]
          /\ disk' = disk \/ disk' = [disk EXCEPT ![p] = Absent]
      BY <2>10 DEF Send, PhasesOK
    <3>2. PassedVouched'
      BY <3>1, <1>k, <1>v, <1>f DEF PassedVouched
    <3>3. VictimVouched'
      BY <3>1, <1>k, <1>v, <1>f DEF VictimVouched
    <3>4. MovesVouched'
      BY <3>1, <1>k DEF MovesVouched, TypeOK
    <3> QED
      BY <3>1, <3>2, <3>3, <3>4, <1>r DEF ReadsStand
  <2>11. CASE MoveDone \/ LoopDone
    <3>1. /\ UNCHANGED <<stamp, content, disk, mode, mv>>
          /\ pc' \in {"idle", "gate"} /\ vid' = NoId
          /\ \/ UNCHANGED <<res, fresh, passed>>
             \/ /\ passed' = NothingPassed /\ fresh' = NothingFresh
                /\ \A q \in Paths : mv[q] = "none"
                /\ \/ res' = res
                   \/ res' = [q \in Paths |-> IF q \in sent THEN NoProof ELSE res[q]]
      BY <2>11 DEF MoveDone, LoopDone, Finish, End, Forget, PhasesOK
    <3> QED
      BY <3>1, <1>n, <1>f, <1>k DEF ResultsVouched, PassedVouched, VictimVouched,
         MovesVouched, ReadsStand
  <2> QED
    BY <1>1, <2>1, <2>2, <2>3, <2>4, <2>5, <2>6, <2>7, <2>8, <2>9, <2>10, <2>11
       DEF Pipeline
<1>2. CASE User
  <2>1. /\ UNCHANGED <<stamp, content, disk, res, vid, mv>>
        /\ pc \in {"idle", "confirm"} /\ vid = NoId
        /\ pc' \in {"idle", "rescan", "gate"}
        /\ passed' = NothingPassed /\ fresh' = NothingFresh
        /\ \A q \in Paths : mv[q] = "none"
    BY <1>2 DEF User, Start, Confirm, Decline, BeginPass, End, PhasesOK
  <2> QED
    BY <2>1, <1>v, <1>n, <1>f DEF ResultsVouched, PassedVouched, VictimVouched,
       MovesVouched, ReadsStand
<1>3. CASE Machine
  <2>1. /\ UNCHANGED <<res, fresh, mode, passed, vid, victim, candidate, pc, mv>>
        /\ Point \in EditPoints
    BY <1>3 DEF Machine, EditInPlace, Replace, Delete, HardLink, SetReferences, Meddle
  <2>2. Point \notin VictimWindows
    BY <2>1 DEF WindowsClosed
  <2>3. /\ pc \notin {"rescanStat", "victimStat"}
        /\ \A p \in Paths : mv[p] # "checked"
    BY <2>2 DEF Point, VictimWindows
  <2>4. PassedVouched' /\ VictimVouched'
    BY <2>1, <1>k, <1>v, <1>f DEF PassedVouched, VictimVouched
  <2> QED
    BY <2>1, <2>3, <2>4, <1>r DEF MovesVouched, ReadsStand
<1>4. CASE UNCHANGED vars
  BY <1>4, <1>k, <1>r DEF vars, PassedVouched, VictimVouched, MovesVouched, ReadsStand, Exists
<1> QED
  BY <1>1, <1>2, <1>3, <1>4 DEF Next

LEMMA InitProofsOK == Init => PhasesOK /\ ProofsOK
<1> SUFFICES ASSUME Init PROVE PhasesOK /\ ProofsOK
  OBVIOUS
<1>1. TypeOK
  BY InitTypeOK
<1>2. ResultsVouched
  <2> SUFFICES ASSUME NEW p \in Paths
               PROVE  /\ Vouched(res[p].id, res[p].class, stamp, content)
                      /\ Vouched(fresh[p].id, fresh[p].class, stamp, content)
    BY DEF ResultsVouched
  <2>1. /\ disk[p] \in Inodes /\ stamp[disk[p]] = 0
        /\ res[p].id.ino = disk[p] /\ res[p].id.stamp = 0
        /\ res[p].class \in {content[disk[p]], Unique}
    BY DEF Init
  <2>2. fresh[p].id = NoId
    BY DEF Init, NothingFresh, NoProof
  <2> QED
    BY <2>1, <2>2 DEF Vouched
<1>3. PassedVouched /\ VictimVouched /\ ReadsStand /\ MovesVouched
  BY DEF Init, PassedVouched, VictimVouched, ReadsStand, MovesVouched, Vouched,
     NothingPassed
<1> QED
  BY <1>2, <1>3 DEF ProofsOK, Init, PhasesOK

\* Only Send hands a path over.
LEMMA OnlySend ==
  ASSUME TypeOK, [Next]_vars, NEW p \in Paths, Sending(p)
  PROVE  Send(p)
BY DEF Sending, Next, Pipeline, User, Machine, vars, Rescan, RescanStat, RescanDone,
   ProveVictim, VictimStat, ConsultCache, ProveCopy, CopyStat, NoSurvivor,
   FirstPassDone, End, SecondPassDone, Preflight, MoveCheck, Send, MoveDone, Finish,
   LoopDone, Start, Confirm, Decline, EditInPlace, Replace, Delete, HardLink,
   SetReferences, Meddle, callVars, TypeOK

\* As long as nobody acts inside the windows no check can close, the machine
\* may change files at any moment, and still what goes to the Trash has the
\* content it was proven to have.
THEOREM TrashIsProven ==
  ASSUME WindowsClosed
  PROVE  Spec => SentAsProven
<1> DEFINE IInv == TypeOK /\ LocalsOK /\ PhasesOK /\ ProofsOK
<1>1. Init => IInv
  BY InitTypeOK, InitProofsOK DEF Init, LocalsOK
<1>2. IInv /\ [Next]_vars => IInv'
  BY StepTypeOK, StepLocalsOK, StepPhasesOK, StepProofsOK
<1>3. ASSUME IInv, [Next]_vars, NEW p \in Paths, Sending(p), disk[p] \in Trusted
      PROVE  content[disk[p]] = Known(p).class
  <2>1. mv[p] = "checked"
    BY <1>3, OnlySend DEF Send
  <2> QED BY <2>1, <1>3 DEF ProofsOK, MovesVouched
<1>4. IInv /\ [Next]_vars =>
        [\A p \in Paths : (Sending(p) /\ disk[p] \in Trusted) =>
           content[disk[p]] = Known(p).class]_vars
  BY <1>3
<1> QED
  BY <1>1, <1>2, <1>4, PTL DEF Spec, SentAsProven

(***************************************************************************)
(* Another copy remains                                                    *)
(***************************************************************************)

\* A current proof on a trusted volume, or a full read, tells the content.
LEMMA ProvenContent ==
  ASSUME TypeOK, ResultsVouched, NEW p \in Paths, Exists(p), Known(p).class # Unique,
         Shortcut(p)
  PROVE  content[disk[p]] = Known(p).class
<1>1. Vouched(Known(p).id, Known(p).class, stamp, content)
  BY DEF ResultsVouched, Known
<1>2. Known(p).id = Id(p) /\ Id(p) # NoId
  BY IdType DEF Shortcut, Identity, NoId
<1> QED
  BY <1>1, <1>2 DEF Vouched, Shortcut, Id

\* Accepting a copy q of the victim's class keeps the books.
LEMMA AcceptKeeps ==
  ASSUME TypeOK, PhasesOK, CopiesOK, NEW q \in Paths \ removal, victim \in Paths,
         pc \in {"cached", "search", "copyStat"}, Accept,
         disk[q] \in Inodes, disk[q] # vid.ino,
         content[disk[q]] = Known(victim).class, Known(victim).class # Unique,
         UNCHANGED <<fsVars, res, fresh, mode, round, removal, approved, mv>>,
         cache' \in {cache, [cache EXCEPT ![Known(victim).class] =
                               [path |-> q, ino |-> disk[q]]]}
  PROVE  CopiesOK'
<1> USE DEF CopiesOK, fsVars
<1>1. /\ passed' = [passed EXCEPT ![victim] = vid] /\ todo' = todo \ {victim}
      /\ pc' \in {"trash", "gate"}
  BY DEF Accept, InLoop
<1>2. \A p : Known(p)' = Known(p)
  BY DEF Known
<1>3. RolesOK'
  BY <1>1 DEF RolesOK, SearchOK, TypeOK, PhasesOK
<1>4. HasCopy(vid.ino, Known(victim).class)
  BY DEF HasCopy
<1>5. ASSUME NEW p \in Paths, passed'[p] # NoId
      PROVE  (content[passed[p].ino] = Known(p).class
              /\ HasCopy(passed[p].ino, Known(p).class))'
  <2>1. CASE p = victim
    BY <2>1, <1>1, <1>2, <1>4 DEF SearchOK, HasCopy, TypeOK
  <2>2. CASE p # victim
    BY <2>2, <1>1, <1>2, <1>5 DEF CopiesKept, HasCopy, TypeOK
  <2> QED BY <2>1, <2>2
<1>6. ASSUME NEW c \in Contents, cache'[c] # NoCopy
      PROVE  (/\ cache[c].path \in Paths \ removal
              /\ disk[cache[c].path] = cache[c].ino
              /\ cache[c].ino \in Inodes
              /\ content[cache[c].ino] = c)'
  <2>1. CASE cache'[c] = cache[c]
    BY <2>1, <1>6 DEF CopiesKept
  <2>2. CASE cache'[c] # cache[c]
    BY <2>2 DEF TypeOK
  <2> QED BY <2>1, <2>2
<1>7. SearchOK'
  BY <1>1 DEF SearchOK
<1> QED
  BY <1>1, <1>3, <1>5, <1>6, <1>7 DEF CopiesKept

LEMMA StepCopiesOK ==
  ASSUME QuietMachine, TypeOK, LocalsOK, PhasesOK, ProofsOK, CopiesOK, [Next]_vars
  PROVE  CopiesOK'
<1> USE DEF CopiesOK, fsVars, gateVars, opVars, callVars
<1>k. ASSUME UNCHANGED <<res, mode, fresh>>
      PROVE  \A p : Known(p)' = Known(p)
  BY <1>k DEF Known
<1>h. ASSUME UNCHANGED <<disk, content, removal>>
      PROVE  \A i, c : HasCopy(i, c)' = HasCopy(i, c)
  BY <1>h DEF HasCopy
\* A step of the pipeline that only forgets.
<1>s. ASSUME UNCHANGED <<disk, content, res, mode, fresh, removal, passed, cache>>,
             pc \notin {"idle", "confirm"}
      PROVE  CopiesKept'
  BY <1>s, <1>k, <1>h DEF CopiesKept
<1>z. /\ \A p \in Paths : NothingPassed[p] = NoId
      /\ \A c \in Contents : NothingCached[c] = NoCopy
  BY DEF NothingPassed, NothingCached
<1>1. CASE Pipeline
  <2>1. CASE RescanStat \/ \E p \in Paths : Rescan(p)
    <3>1. /\ UNCHANGED <<disk, content, removal, approved, todo, passed, cache, mv>>
          /\ pc' \in {"rescan", "rescanStat"} /\ passed = NothingPassed
          /\ pc \in {"rescan", "rescanStat"}
      BY <2>1 DEF Rescan, RescanStat, PhasesOK
    <3> QED
      BY <3>1, <1>z DEF RolesOK, SearchOK, CopiesKept
  <2>2. CASE RescanDone \/ SecondPassDone
    <3>1. /\ UNCHANGED <<disk, content, res, fresh, mode, removal, approved, todo,
                         passed, cache, mv>>
          /\ pc' \in {"gate", "trash"} /\ pc \notin {"idle", "confirm"}
      BY <2>2 DEF RescanDone, SecondPassDone
    <3> QED
      BY <3>1, <1>s DEF RolesOK, SearchOK
  <2>3. ASSUME NEW p \in Paths, ProveVictim(p) PROVE CopiesOK'
    <3>1. /\ UNCHANGED <<disk, content, stamp, res, fresh, mode, removal, approved,
                         passed, cache, mv>>
          /\ pc = "gate" /\ p \in todo /\ todo' \subseteq todo
      BY <2>3 DEF ProveVictim, Refuse
    <3>2. \/ pc' = "gate"
          \/ /\ Known(p).class # Unique /\ Exists(p) /\ Shortcut(p)
             /\ victim' = p /\ vid' = Id(p) /\ pc' = "cached"
          \/ victim' = p /\ pc' = "victimStat"
      BY <2>3, <3>1 DEF ProveVictim, Refuse, Forget
    <3>3. SearchOK'
      <4>1. CASE pc' = "cached"
        <5>1. content[disk[p]] = Known(p).class
          BY <4>1, <3>2, ProvenContent DEF ProofsOK
        <5>2. Id(p) # NoId /\ Id(p).ino = disk[p]
          BY <4>1, <3>2, IdType DEF Identity, NoId, Id
        <5>3. Known(victim)' = Known(p)
          BY <4>1, <3>1, <3>2 DEF Known
        <5> QED
          BY <4>1, <3>1, <3>2, <5>1, <5>2, <5>3 DEF SearchOK, RolesOK
      <4>2. CASE pc' # "cached"
        BY <4>2, <3>1, <3>2 DEF SearchOK, RolesOK
      <4> QED BY <4>1, <4>2
    <3> QED
      BY <3>1, <3>3, <1>s DEF RolesOK
  <2>4. CASE VictimStat
    <3>1. /\ UNCHANGED <<disk, content, stamp, res, fresh, mode, removal, approved,
                         passed, cache, mv>>
          /\ pc = "victimStat" /\ todo' \subseteq todo /\ victim \in Paths
      BY <2>4 DEF VictimStat, Refuse, LocalsOK
    <3>2. SearchOK'
      <4>1. CASE Exists(victim)
        <5>1. /\ victim' = victim /\ vid' = Id(victim) /\ pc' = "cached"
              /\ Known(victim)' = Known(victim)
          BY <4>1, <2>4, <3>1 DEF VictimStat, Known
        <5>2. content[disk[victim]] = Known(victim).class
          BY <4>1, <3>1 DEF ProofsOK, ReadsStand
        <5>3. Id(victim) # NoId /\ Id(victim).ino = disk[victim]
          BY <4>1, <3>1, IdType DEF Identity, NoId, Id
        <5> QED
          BY <3>1, <5>1, <5>2, <5>3 DEF SearchOK
      <4>2. CASE ~Exists(victim)
        BY <4>2, <2>4 DEF VictimStat, Refuse, SearchOK
      <4> QED BY <4>1, <4>2
    <3> QED
      BY <3>1, <3>2, <1>s DEF RolesOK
  <2>5. CASE ConsultCache
    <3>1. /\ UNCHANGED <<fsVars, res, fresh, mode, round, removal, approved, cache, mv>>
          /\ pc = "cached" /\ victim \in Paths
          /\ Known(victim).class # Unique
      BY <2>5 DEF ConsultCache, LocalsOK, ProofsOK, VictimVouched
    <3>2. CASE CacheHit
      <4> DEFINE hit == cache[Known(victim).class]
      <4>1. Known(victim).class \in Contents
        BY <3>1 DEF TypeOK, Known, Proof
      <4>2. /\ hit.path \in Paths \ removal /\ disk[hit.path] = hit.ino
            /\ hit.ino \in Inodes /\ content[hit.ino] = Known(victim).class
            /\ hit.ino # vid.ino
        BY <4>1, <3>1, <3>2 DEF CacheHit, CopiesKept
      <4>3. Accept
        BY <2>5, <3>2 DEF ConsultCache
      <4> HIDE DEF hit
      <4> QED
        BY <3>1, <4>2, <4>3, AcceptKeeps
    <3>3. CASE ~CacheHit
      <4>1. pc' = "search" /\ UNCHANGED <<todo, passed, victim, vid>>
        BY <2>5, <3>3 DEF ConsultCache
      <4>2. Known(victim)' = Known(victim)
        BY <3>1, <4>1 DEF Known
      <4> QED
        BY <3>1, <4>1, <4>2, <1>s DEF RolesOK, SearchOK
    <3> QED BY <3>2, <3>3
  <2>6. ASSUME NEW q \in Paths, ProveCopy(q) PROVE CopiesOK'
    <3>1. /\ UNCHANGED <<fsVars, res, fresh, mode, round, removal, approved, mv>>
          /\ pc = "search" /\ victim \in Paths
          /\ Known(victim).class # Unique
          /\ q \in Paths \ removal /\ Known(q).class = Known(victim).class
      BY <2>6 DEF ProveCopy, LocalsOK, ProofsOK, VictimVouched, Candidates, ClassPaths
    <3>2. CASE Exists(q) /\ Shortcut(q) /\ AcceptCopy(q, disk[q])
      <4>1. content[disk[q]] = Known(victim).class
        BY <3>1, <3>2, ProvenContent DEF ProofsOK
      <4>2. disk[q] \in Inodes
        BY <3>1, <3>2, IdType
      <4> QED
        BY <3>1, <3>2, <4>1, <4>2, AcceptKeeps DEF AcceptCopy
    <3>3. CASE NextCandidate(q)
      <4>1. pc' = "search" /\ UNCHANGED <<todo, passed, victim, vid, cache>>
        BY <3>3 DEF NextCandidate
      <4>2. Known(victim)' = Known(victim)
        BY <3>1, <4>1 DEF Known
      <4> QED
        BY <3>1, <4>1, <4>2, <1>s DEF RolesOK, SearchOK
    <3>4. CASE /\ Exists(q) /\ ReadsAs(q, Known(victim).class)
               /\ candidate' = q /\ pc' = "copyStat"
               /\ UNCHANGED <<todo, passed, victim, vid, cache>>
      <4>2. Known(victim)' = Known(victim)
        BY <3>1, <3>4 DEF Known
      <4> QED
        BY <3>1, <3>4, <4>2, <1>s DEF RolesOK, SearchOK, ReadsAs
    <3> QED
      BY <2>6, <3>2, <3>3, <3>4 DEF ProveCopy
  <2>7. CASE CopyStat
    <3>1. /\ UNCHANGED <<fsVars, res, fresh, mode, round, removal, approved, mv>>
          /\ pc = "copyStat" /\ victim \in Paths
          /\ Known(victim).class # Unique
      BY <2>7 DEF CopyStat, LocalsOK, ProofsOK, VictimVouched
    <3>2. CASE Exists(candidate) /\ AcceptCopy(candidate, disk[candidate])
      <4>1. /\ candidate \in Paths \ removal /\ disk[candidate] \in Inodes
            /\ content[disk[candidate]] = Known(victim).class
        BY <3>1, <3>2, IdType DEF SearchOK
      <4> QED
        BY <3>1, <3>2, <4>1, AcceptKeeps DEF AcceptCopy
    <3>3. CASE NextCandidate(candidate)
      <4>1. pc' = "search" /\ UNCHANGED <<todo, passed, victim, vid, cache>>
        BY <3>3 DEF NextCandidate
      <4>2. Known(victim)' = Known(victim)
        BY <3>1, <4>1 DEF Known
      <4> QED
        BY <3>1, <4>1, <4>2, <1>s DEF RolesOK, SearchOK
    <3> QED
      BY <2>7, <3>2, <3>3 DEF CopyStat
  <2>8. CASE NoSurvivor
    <3>1. /\ UNCHANGED <<disk, content, res, fresh, mode, removal, approved, passed,
                         cache, mv>>
          /\ pc = "search" /\ pc' = "gate" /\ todo' \subseteq todo
      BY <2>8 DEF NoSurvivor, Refuse
    <3> QED
      BY <3>1, <1>s DEF RolesOK, SearchOK
  <2>9. CASE FirstPassDone \/ (MoveDone /\ ~InLoop) \/ LoopDone
    <3>1. /\ pc' \in {"idle", "confirm"} /\ UNCHANGED <<disk, mv>>
          /\ \A p \in Paths : mv[p] = "none"
          /\ \/ UNCHANGED <<removal, approved, todo, passed>>
             \/ /\ removal' = {} /\ approved' = {} /\ todo' = {}
                /\ passed' = NothingPassed
      BY <2>9 DEF FirstPassDone, MoveDone, LoopDone, Finish, End, PhasesOK
    <3> QED
      BY <3>1, <1>z DEF RolesOK, SearchOK, CopiesKept
  <2>10. CASE MoveDone /\ InLoop
    <3>1. /\ UNCHANGED <<disk, content, res, fresh, mode, removal, approved, todo,
                         passed, cache, mv>>
          /\ pc = "moving" /\ pc' = "gate"
      BY <2>10 DEF MoveDone
    <3> QED
      BY <3>1, <1>s DEF RolesOK, SearchOK
  <2>11. CASE Preflight
    <3>1. /\ UNCHANGED <<disk, content, res, fresh, mode, removal, approved, todo,
                         passed, cache>>
          /\ pc = "trash" /\ pc' = "moving"
          /\ \A p \in Paths : /\ mv'[p] \in {"none", "ready"}
                              /\ mv'[p] = "ready" => Authorized(p)
      BY <2>11 DEF Preflight
    <3>2. \A p \in Paths : Authorized(p) => passed[p] # NoId
      BY IdType DEF Authorized, Identity, NoId
    <3>3. RolesOK'
      <4> SUFFICES ASSUME NEW p \in Paths
                   PROVE  /\ mv'[p] # "none" => passed[p] # NoId
                          /\ mv'[p] # "checked"
        BY <3>1 DEF RolesOK
      <4> QED
        BY <3>1, <3>2
    <3> QED
      BY <3>1, <3>3, <1>s DEF SearchOK
  <2>12. ASSUME NEW p \in Paths, MoveCheck(p) PROVE CopiesOK'
    <3>1. /\ UNCHANGED <<disk, content, res, fresh, mode, removal, approved, todo,
                         passed, cache, pc>>
          /\ pc = "moving" /\ mv[p] # "none"
          /\ mv' = [mv EXCEPT ![p] = IF Authorized(p) THEN "checked" ELSE "none"]
      BY <2>12 DEF MoveCheck, PhasesOK
    <3>2. Authorized(p) => disk[p] = passed[p].ino
      BY DEF Authorized, Id
    <3> QED
      BY <3>1, <3>2, <1>s DEF RolesOK, SearchOK, TypeOK
  <2>13. ASSUME NEW p \in Paths, Send(p) PROVE CopiesOK'
    <3>1. /\ UNCHANGED <<content, res, fresh, mode, removal, approved, todo, passed,
                         cache, pc>>
          /\ pc = "moving" /\ p \in removal
          /\ mv' = [mv EXCEPT ![p] = "none"]
          /\ disk' = disk \/ disk' = [disk EXCEPT ![p] = Absent]
      BY <2>13 DEF Send, PhasesOK, RolesOK
    <3>2. RolesOK'
      BY <3>1 DEF RolesOK, TypeOK
    <3>3. \A q \in Paths \ removal : disk'[q] = disk[q]
      BY <3>1 DEF TypeOK
    <3>4. \A i, c : HasCopy(i, c) => HasCopy(i, c)'
      BY <3>1, <3>3 DEF HasCopy
    <3>5. CopiesKept'
      BY <3>1, <3>3, <3>4, <1>k DEF CopiesKept
    <3> QED
      BY <3>1, <3>2, <3>5 DEF SearchOK
  <2> QED
    BY <1>1, <2>1, <2>2, <2>3, <2>4, <2>5, <2>6, <2>7, <2>8, <2>9, <2>10, <2>11,
       <2>12, <2>13 DEF Pipeline
<1>2. CASE User
  <2> DEFINE Restarted == /\ mv' = mv /\ pc' \in {"idle", "rescan", "gate"}
                          /\ passed' = NothingPassed /\ cache' = NothingCached
                          /\ todo' \subseteq removal' /\ approved' \subseteq removal'
  <2>1. ASSUME NEW m \in {"batch", "fresh", "each"}, NEW s \in SUBSET Paths,
               Start(m, s)
        PROVE  Restarted
    BY <2>1 DEF Start, BeginPass, PhasesOK
  <2>2. ASSUME NEW s \in SUBSET Paths, Confirm(s) PROVE Restarted
    <3>1. Proven \subseteq removal
      BY DEF Proven, RolesOK
    <3>2. s \subseteq Proven /\ removal' \in {s, removal} /\ todo' = removal' /\ approved' = s
      BY <2>2 DEF Confirm, BeginPass
    <3> QED
      BY <2>2, <3>1, <3>2 DEF Confirm, BeginPass
  <2>3. ASSUME Decline PROVE Restarted
    BY <2>3 DEF Decline, End
  <2>4. Restarted /\ \A p \in Paths : mv[p] = "none"
    <3>1. pc \in {"idle", "confirm"}
      BY <1>2 DEF User, Start, Confirm, Decline
    <3> QED
      BY <1>2, <2>1, <2>2, <2>3, <3>1 DEF User, PhasesOK
  <2> QED
    BY <2>4, <1>z DEF RolesOK, SearchOK, CopiesKept
<1>3. CASE Machine
  <2>1. /\ UNCHANGED <<removal, approved, todo, passed, mv, pc>>
        /\ Point \in EditPoints
    BY <1>3 DEF Machine, EditInPlace, Replace, Delete, HardLink, SetReferences, Meddle
  <2>2. pc \in {"idle", "confirm"} /\ \A p \in Paths : mv[p] = "none"
    BY <2>1 DEF QuietMachine, Point, PhasesOK
  <2> QED
    BY <2>1, <2>2 DEF RolesOK, SearchOK, CopiesKept
<1>4. CASE UNCHANGED vars
  BY <1>4, <1>k, <1>h DEF vars, RolesOK, SearchOK, CopiesKept, Exists
<1> QED
  BY <1>1, <1>2, <1>3, <1>4 DEF Next

\* When nobody touches the files while a pass runs, a removal leaves another
\* copy of everything it takes, outside what the user put up for removal.
THEOREM CopyRemains ==
  ASSUME QuietMachine
  PROVE  Spec => NeverLastCopy
<1> DEFINE IInv == TypeOK /\ LocalsOK /\ PhasesOK /\ ProofsOK /\ CopiesOK
<1>q. WindowsClosed
  BY DEF QuietMachine, WindowsClosed, VictimWindows
<1>1. Init => IInv
  BY InitTypeOK, InitProofsOK DEF Init, LocalsOK, CopiesOK, RolesOK, SearchOK,
     CopiesKept, NothingPassed
<1>2. IInv /\ [Next]_vars => IInv'
  BY <1>q, StepTypeOK, StepLocalsOK, StepPhasesOK, StepProofsOK, StepCopiesOK
<1>3. ASSUME IInv, [Next]_vars, NEW p \in Paths, Sending(p)
      PROVE  \E q \in Paths \ removal : /\ disk[q] \in Inodes \ {disk[p]}
                                        /\ content[disk[q]] = content[disk[p]]
                                        /\ disk'[q] = disk[q]
  <2>1. /\ mv[p] = "checked" /\ pc = "moving" /\ Exists(p)
        /\ disk' = [disk EXCEPT ![p] = Absent]
    BY <1>3, OnlySend DEF Send, Sending, PhasesOK
  <2>2. /\ p \in removal /\ disk[p] = passed[p].ino /\ passed[p] # NoId
    BY <1>3, <2>1 DEF CopiesOK, RolesOK, Exists
  <2>3. /\ content[disk[p]] = Known(p).class
        /\ HasCopy(disk[p], Known(p).class)
    BY <1>3, <2>1, <2>2 DEF CopiesOK, CopiesKept
  <2> QED
    BY <1>3, <2>1, <2>2, <2>3 DEF HasCopy, TypeOK
<1>4. IInv /\ [Next]_vars =>
        [\A p \in Paths : Sending(p) =>
           \E q \in Paths \ removal : /\ disk[q] \in Inodes \ {disk[p]}
                                      /\ content[disk[q]] = content[disk[p]]
                                      /\ disk'[q] = disk[q]]_vars
  BY <1>3
<1> QED
  BY <1>1, <1>2, <1>4, PTL DEF Spec, NeverLastCopy

(***************************************************************************)
(* Only what was approved, and nothing protected                           *)
(***************************************************************************)

LEMMA StepApprovedOK ==
  ASSUME TypeOK, LocalsOK, PhasesOK, ApprovedOK, [Next]_vars
  PROVE  ApprovedOK'
<1> USE DEF ApprovedOK, InLoop, fsVars, gateVars, opVars, callVars
<1>1. CASE Pipeline
  <2>1. CASE Preflight
    <3>1. /\ UNCHANGED <<mode, round, todo, approved, victim>> /\ pc = "trash"
          /\ \A p \in Paths : mv'[p] # "none" => p \in Batch
      BY <2>1 DEF Preflight
    <3>2. Batch \subseteq approved
      BY <3>1 DEF Batch
    <3> QED
      BY <3>1, <3>2
  <2>2. ASSUME NEW p \in Paths, MoveCheck(p) PROVE ApprovedOK'
    BY <2>2 DEF MoveCheck, TypeOK
  <2>3. ASSUME NEW p \in Paths, Send(p) PROVE ApprovedOK'
    BY <2>3 DEF Send, TypeOK
  <2>4. CASE \E p \in Paths : ProveVictim(p)
    BY <2>4 DEF ProveVictim, Refuse, Forget
  <2>5. CASE \/ ConsultCache \/ CopyStat \/ NoSurvivor \/ VictimStat
             \/ \E p \in Paths : ProveCopy(p)
    BY <2>5 DEF ConsultCache, CopyStat, NoSurvivor, VictimStat, ProveCopy, Accept,
       AcceptCopy, NextCandidate, Refuse, Forget
  <2>6. CASE \/ RescanStat \/ RescanDone \/ FirstPassDone \/ SecondPassDone
             \/ MoveDone \/ LoopDone \/ \E p \in Paths : Rescan(p)
    BY <2>6 DEF RescanStat, RescanDone, FirstPassDone, SecondPassDone, MoveDone,
       LoopDone, Rescan, Finish, Forget, End, PhasesOK
  <2> QED
    BY <1>1, <2>1, <2>2, <2>3, <2>4, <2>5, <2>6 DEF Pipeline
<1>2. CASE User
  <2>1. \A p \in Paths : mv[p] = "none"
    BY <1>2 DEF User, Start, Confirm, Decline, PhasesOK
  <2> QED
    BY <1>2, <2>1 DEF User, Start, Confirm, Decline, BeginPass, End
<1>3. CASE Machine
  BY <1>3 DEF Machine, EditInPlace, Replace, Delete, HardLink, SetReferences, Meddle
<1>4. CASE UNCHANGED vars
  BY <1>4 DEF vars
<1> QED
  BY <1>1, <1>2, <1>3, <1>4 DEF Next

\* Whatever the machine does, only what the user approved goes to the Trash.
THEOREM OnlyApproved == Spec => SentAsApproved
<1> DEFINE IInv == TypeOK /\ LocalsOK /\ PhasesOK /\ ApprovedOK
<1>1. Init => IInv
  BY InitTypeOK, InitProofsOK DEF Init, LocalsOK, ApprovedOK, InLoop
<1>2. IInv /\ [Next]_vars => IInv'
  BY StepTypeOK, StepLocalsOK, StepPhasesOK, StepApprovedOK
<1>3. ASSUME IInv, [Next]_vars, NEW p \in Paths, Sending(p)
      PROVE  p \in approved
  BY <1>3, OnlySend DEF Send, ApprovedOK
<1>4. IInv /\ [Next]_vars => [\A p \in Paths : Sending(p) => p \in approved]_vars
  BY <1>3
<1> QED
  BY <1>1, <1>2, <1>4, PTL DEF Spec, SentAsApproved

LEMMA StepUnprotectedOK ==
  ASSUME QuietMachine, TypeOK, PhasesOK, UnprotectedOK, [Next]_vars
  PROVE  UnprotectedOK'
<1> USE DEF UnprotectedOK, fsVars, gateVars, opVars, callVars
<1>1. CASE Pipeline
  <2>1. CASE Preflight
    BY <2>1 DEF Preflight
  <2>2. ASSUME NEW p \in Paths, MoveCheck(p) \/ Send(p) PROVE UnprotectedOK'
    BY <2>2 DEF MoveCheck, Send, TypeOK
  <2>3. CASE \/ RescanStat \/ RescanDone \/ FirstPassDone \/ SecondPassDone
             \/ MoveDone \/ LoopDone \/ ConsultCache \/ CopyStat \/ NoSurvivor
             \/ VictimStat
             \/ \E p \in Paths : ProveCopy(p) \/ ProveVictim(p) \/ Rescan(p)
    BY <2>3 DEF RescanStat, RescanDone, FirstPassDone, SecondPassDone, MoveDone,
       LoopDone, Rescan, ConsultCache, CopyStat, NoSurvivor, VictimStat, ProveCopy,
       ProveVictim
  <2> QED
    BY <1>1, <2>1, <2>2, <2>3 DEF Pipeline
<1>2. CASE User
  BY <1>2 DEF User, Start, Confirm, Decline
<1>3. CASE Machine
  <2>1. mv' = mv /\ Point \in EditPoints
    BY <1>3 DEF Machine, EditInPlace, Replace, Delete, HardLink, SetReferences, Meddle
  <2>2. \A p \in Paths : mv[p] = "none"
    BY <2>1 DEF QuietMachine, Point, PhasesOK
  <2> QED
    BY <2>1, <2>2
<1>4. CASE UNCHANGED vars
  BY <1>4 DEF vars
<1> QED
  BY <1>1, <1>2, <1>3, <1>4 DEF Next

\* When the list of reference folders is not edited while a removal runs, no
\* protected path goes to the Trash.
THEOREM ProtectedKept ==
  ASSUME QuietMachine
  PROVE  Spec => ProtectedStays
<1> DEFINE IInv == TypeOK /\ LocalsOK /\ PhasesOK /\ UnprotectedOK
<1>1. Init => IInv
  BY InitTypeOK, InitProofsOK DEF Init, LocalsOK, UnprotectedOK
<1>2. IInv /\ [Next]_vars => IInv'
  BY StepTypeOK, StepLocalsOK, StepPhasesOK, StepUnprotectedOK
<1>3. ASSUME IInv, [Next]_vars, NEW p \in Paths, Sending(p)
      PROVE  refs.readable /\ p \notin refs.roots
  BY <1>3, OnlySend DEF Send, UnprotectedOK
<1>4. IInv /\ [Next]_vars =>
        [\A p \in Paths : Sending(p) => refs.readable /\ p \notin refs.roots]_vars
  BY <1>3
<1> QED
  BY <1>1, <1>2, <1>4, PTL DEF Spec, ProtectedStays
=============================================================================
