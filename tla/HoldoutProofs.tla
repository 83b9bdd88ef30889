--------------------------- MODULE HoldoutProofs ---------------------------
(***************************************************************************)
(* Theorems about HoldoutOnce, for every set of invocations.               *)
(***************************************************************************)
EXTENDS HoldoutOnce, TLAPS

USE DEF Script, Artefact, Ended, Critical, Preflight, Place, Alive, Marked, Spent,
        Required, Goto, Static, files

-----------------------------------------------------------------------------
(***************************************************************************)
(* Types.                                                                  *)
(***************************************************************************)

\* Every step of every invocation keeps the types.
LEMMA StepTypes == TypeOK /\ [Next]_vars => TypeOK'
<1> SUFFICES ASSUME TypeOK, [Next]_vars PROVE TypeOK'
  OBVIOUS
<1> USE DEF TypeOK
<1>1. ASSUME NEW p \in Proc, Step(p) PROVE TypeOK'
  <2>1. CASE Start(p)                     BY <2>1 DEF Start
  <2>2. CASE PreflightUsed(p)             BY <2>2 DEF PreflightUsed
  <2>3. CASE PreflightInProgress(p)       BY <2>3 DEF PreflightInProgress
  <2>4. CASE PreflightFrozen(p)           BY <2>4 DEF PreflightFrozen
  <2>5. CASE DryRun(p)                    BY <2>5 DEF DryRun
  <2>6. CASE AcquireInProgressLockfile(p) BY <2>6 DEF AcquireInProgressLockfile
  <2>7. CASE AcquireRefused(p)            BY <2>7 DEF AcquireRefused
  <2>8. CASE ComputeHoldout(p)            BY <2>8 DEF ComputeHoldout
  <2>9. CASE WriteResultTmp(p)            BY <2>9 DEF WriteResultTmp
  <2>10. CASE PublishResult(p)            BY <2>10 DEF PublishResult
  <2>11. CASE WriteShaTmp(p)              BY <2>11 DEF WriteShaTmp
  <2>12. CASE PublishSha(p)               BY <2>12 DEF PublishSha
  <2>13. CASE FindMarker(p)               BY <2>13 DEF FindMarker
  <2>14. CASE PromoteLockfileToUsed(p)    BY <2>14 DEF PromoteLockfileToUsed
  <2>15. CASE Raise(p)                    BY <2>15 DEF Raise
  <2>16. CASE Kill(p)                     BY <2>16 DEF Kill
  <2>17. QED
    BY <1>1, <2>1, <2>2, <2>3, <2>4, <2>5, <2>6, <2>7, <2>8, <2>9, <2>10, <2>11,
       <2>12, <2>13, <2>14, <2>15, <2>16 DEF Step
<1>2. CASE UNCHANGED vars
  BY <1>2 DEF vars
<1>3. QED
  BY <1>1, <1>2 DEF Next

\* Every reachable state of the protocol is well typed.
THEOREM TypeCorrect == Spec => []TypeOK
<1>1. Init => TypeOK
  BY DEF Init, TypeOK
<1>2. QED
  BY <1>1, StepTypes, PTL DEF Spec

-----------------------------------------------------------------------------
(***************************************************************************)
(* Concurrent invocations.  The properties of the concurrent protocol are  *)
(* not inductive one by one: that the evidence is whole needs that no      *)
(* other run shares the .tmp files, and that a barred run is refused needs *)
(* that a spent holdout stays spent.                                       *)
(***************************************************************************)

\* Only a run past the acquisition has touched the window.
TouchedPlaces ==
    \A p \in Proc :
        /\ pc[p] \in Critical => p \in touched
        /\ p \in touched => pc[p] \in Critical \cup {"done", "failed"}

\* A barred run is still before the test that will refuse it, or has ended.
BarredRefused ==
    \A p \in barred :
        /\ p \notin touched
        /\ pc[p] \in {"started", "not_used"} \cup Ended
        /\ pc[p] = "started" => Spent
        /\ pc[p] = "not_used" =>
              inProgress /\ \A q \in Proc : pc[q] \notin Critical

\* How far the evidence is, by the place of the run that writes it.
EvidenceSoFar ==
    /\ used => {result, sha} \subseteq touched
    /\ \A p \in Proc :
        /\ pc[p] = "result_tmp" => tmpResult = p
        /\ pc[p] \in {"result_out", "sha_tmp", "evidence", "promoting"} => result \in touched
        /\ pc[p] = "sha_tmp" => tmpSha = p
        /\ pc[p] \in {"evidence", "promoting"} => sha \in touched

ConcurrentInv ==
    /\ TypeOK
    /\ MutualExclusion
    /\ TouchLeavesMark
    /\ TouchedPlaces
    /\ BarredRefused
    /\ EvidenceSoFar

\* The invariant of the concurrent protocol is inductive.
LEMMA ConcurrentInvariant == Spec => []ConcurrentInv
<1> USE DEF TypeOK, MutualExclusion, TouchLeavesMark, TouchedPlaces, BarredRefused,
            EvidenceSoFar
<1>1. Init => ConcurrentInv
  BY DEF Init, ConcurrentInv
<1>2. ConcurrentInv /\ [Next]_vars => ConcurrentInv'
  <2> SUFFICES ASSUME ConcurrentInv, [Next]_vars,
                      TypeOK, MutualExclusion, TouchLeavesMark, TouchedPlaces,
                      BarredRefused, EvidenceSoFar, TypeOK'
               PROVE  /\ MutualExclusion' /\ TouchLeavesMark' /\ TouchedPlaces'
                      /\ BarredRefused' /\ EvidenceSoFar'
    BY StepTypes DEF ConcurrentInv
  <2>1. ASSUME NEW p \in Proc, Step(p)
        PROVE  /\ MutualExclusion' /\ TouchLeavesMark' /\ TouchedPlaces'
               /\ BarredRefused' /\ EvidenceSoFar'
    <3>1. CASE Start(p)
      BY <3>1, NoneAssumption DEF Start
    <3>2. CASE PreflightUsed(p)
      BY <3>2, NoneAssumption DEF PreflightUsed
    <3>3. CASE PreflightInProgress(p)
      BY <3>3, NoneAssumption DEF PreflightInProgress
    <3>4. CASE PreflightFrozen(p)
      BY <3>4, NoneAssumption DEF PreflightFrozen
    <3>5. CASE DryRun(p)
      BY <3>5, NoneAssumption DEF DryRun
    <3>6. CASE AcquireInProgressLockfile(p)
      BY <3>6, NoneAssumption DEF AcquireInProgressLockfile
    <3>7. CASE AcquireRefused(p)
      BY <3>7, NoneAssumption DEF AcquireRefused
    <3>8. CASE ComputeHoldout(p)
      BY <3>8, NoneAssumption DEF ComputeHoldout
    <3>9. CASE WriteResultTmp(p)
      BY <3>9, NoneAssumption DEF WriteResultTmp
    <3>10. CASE PublishResult(p)
      BY <3>10, NoneAssumption DEF PublishResult
    <3>11. CASE WriteShaTmp(p)
      BY <3>11, NoneAssumption DEF WriteShaTmp
    <3>12. CASE PublishSha(p)
      BY <3>12, NoneAssumption DEF PublishSha
    <3>13. CASE FindMarker(p)
      BY <3>13, NoneAssumption DEF FindMarker
    <3>14. CASE PromoteLockfileToUsed(p)
      BY <3>14, NoneAssumption DEF PromoteLockfileToUsed
    <3>15. CASE Raise(p)
      BY <3>15, NoneAssumption DEF Raise
    <3>16. CASE Kill(p)
      BY <3>16, NoneAssumption DEF Kill
    <3>17. QED
      BY <2>1, <3>1, <3>2, <3>3, <3>4, <3>5, <3>6, <3>7, <3>8,
         <3>9, <3>10, <3>11, <3>12, <3>13, <3>14, <3>15, <3>16 DEF Step
  <2>2. CASE UNCHANGED vars
    BY <2>2 DEF vars
  <2>3. QED
    BY <2>1, <2>2 DEF Next
<1>3. QED
  BY <1>1, <1>2, PTL DEF Spec

\* At most one run is between acquisition and promotion, in every set of runs.
THEOREM CriticalSectionExclusive == Spec => []MutualExclusion
  BY ConcurrentInvariant, PTL DEF ConcurrentInv

\* A touched window always leaves a lockfile behind.
THEOREM TouchMarks == Spec => []TouchLeavesMark
  BY ConcurrentInvariant, PTL DEF ConcurrentInv

\* A run started once the holdout is spent never touches the window.
THEOREM SpentIsFinal == Spec => []NoRerunOnceSpent
<1>1. ConcurrentInv => NoRerunOnceSpent
  BY DEF ConcurrentInv, BarredRefused, NoRerunOnceSpent
<1>2. QED
  BY <1>1, ConcurrentInvariant, PTL

\* The used marker stands only over published evidence.
THEOREM EvidenceBehindUsed == Spec => []UsedHasEvidence
<1>1. ConcurrentInv => UsedHasEvidence
  BY DEF ConcurrentInv, EvidenceSoFar, UsedHasEvidence
<1>2. QED
  BY <1>1, ConcurrentInvariant, PTL

\* No step takes the mark away: the only one that removes the in-progress marker
\* is the promotion, and it renames it.
THEOREM MarkStays == Spec => ConsumedForever
<1>1. ConcurrentInv /\ [Next]_vars => [Marked => Marked']_vars
  <2> SUFFICES ASSUME ConcurrentInv, [Next]_vars, Marked PROVE Marked'
    OBVIOUS
  <2>1. ASSUME NEW p \in Proc, Step(p) PROVE Marked'
    <3>1. CASE PromoteLockfileToUsed(p)
      BY <3>1 DEF PromoteLockfileToUsed, ConcurrentInv, MutualExclusion
    <3>2. CASE AcquireInProgressLockfile(p)
      BY <3>2 DEF AcquireInProgressLockfile
    <3>3. CASE UNCHANGED <<inProgress, used>>
      BY <3>3
    <3>4. QED
      BY <2>1, <3>1, <3>2, <3>3
      DEF Step, Start, PreflightUsed, PreflightInProgress, PreflightFrozen, DryRun,
          AcquireRefused, ComputeHoldout, WriteResultTmp, PublishResult, WriteShaTmp,
          PublishSha, FindMarker, Raise, Kill
  <2>2. CASE UNCHANGED vars
    BY <2>2 DEF vars
  <2>3. QED
    BY <2>1, <2>2 DEF Next
<1>2. QED
  BY <1>1, ConcurrentInvariant, PTL DEF Spec, ConsumedForever

-----------------------------------------------------------------------------
(***************************************************************************)
(* Serial operators.  What the preflight saw stays true until the marker   *)
(* is created, because nobody else runs; so the first run to touch the     *)
(* window is the only one.                                                 *)
(***************************************************************************)

OneAlive == \A p, q \in Proc : Alive(p) /\ Alive(q) => p = q

\* The answers of the preflight are still true when they are used.
PreflightFresh ==
    \A p \in Proc :
        /\ pc[p] \in {"not_used", "not_marked", "passed"} \cup Critical => ~used
        /\ pc[p] \in {"not_marked", "passed"} => ~inProgress

\* The evidence on disk is of the only run that touched the window.
OwnEvidence ==
    /\ used => sha = result
    /\ \A p \in Proc :
        /\ pc[p] \in {"result_out", "sha_tmp", "evidence", "promoting"} => result = p
        /\ pc[p] \in {"evidence", "promoting"} => sha = p

OneByOne == OneAlive /\ PreflightFresh /\ OwnEvidence /\ AtMostOnce

SerialInv == ConcurrentInv /\ (serial => OneByOne)

\* A step of serial operators keeps the invariant.
LEMMA SerialStep ==
    ASSUME serial, ConcurrentInv, OneByOne, [Next]_vars, ConcurrentInv'
    PROVE  OneByOne'
<1> USE DEF TypeOK, MutualExclusion, TouchLeavesMark, TouchedPlaces, BarredRefused,
            EvidenceSoFar, ConcurrentInv, OneAlive, PreflightFresh, OwnEvidence,
            AtMostOnce, OneByOne
<1>1. ASSUME NEW p \in Proc, Step(p)
      PROVE  OneAlive' /\ PreflightFresh' /\ OwnEvidence' /\ AtMostOnce'
  <2>1. CASE Start(p)
    BY <2>1, NoneAssumption DEF Start
  <2>2. CASE PreflightUsed(p)
    BY <2>2, NoneAssumption DEF PreflightUsed
  <2>3. CASE PreflightInProgress(p)
    BY <2>3, NoneAssumption DEF PreflightInProgress
  <2>4. CASE PreflightFrozen(p)
    BY <2>4, NoneAssumption DEF PreflightFrozen
  <2>5. CASE DryRun(p)
    BY <2>5, NoneAssumption DEF DryRun
  <2>6. CASE AcquireInProgressLockfile(p)
    BY <2>6, NoneAssumption DEF AcquireInProgressLockfile
  <2>7. CASE AcquireRefused(p)
    BY <2>7, NoneAssumption DEF AcquireRefused
  <2>8. CASE ComputeHoldout(p)
    BY <2>8, NoneAssumption DEF ComputeHoldout
  <2>9. CASE WriteResultTmp(p)
    BY <2>9, NoneAssumption DEF WriteResultTmp
  <2>10. CASE PublishResult(p)
    BY <2>10, NoneAssumption DEF PublishResult
  <2>11. CASE WriteShaTmp(p)
    BY <2>11, NoneAssumption DEF WriteShaTmp
  <2>12. CASE PublishSha(p)
    BY <2>12, NoneAssumption DEF PublishSha
  <2>13. CASE FindMarker(p)
    BY <2>13, NoneAssumption DEF FindMarker
  <2>14. CASE PromoteLockfileToUsed(p)
    BY <2>14, NoneAssumption DEF PromoteLockfileToUsed
  <2>15. CASE Raise(p)
    BY <2>15, NoneAssumption DEF Raise
  <2>16. CASE Kill(p)
    BY <2>16, NoneAssumption DEF Kill
  <2>17. QED
    BY <1>1, <2>1, <2>2, <2>3, <2>4, <2>5, <2>6, <2>7, <2>8,
       <2>9, <2>10, <2>11, <2>12, <2>13, <2>14, <2>15, <2>16 DEF Step
<1>2. CASE UNCHANGED vars
  BY <1>2 DEF vars
<1>3. QED
  BY <1>1, <1>2 DEF Next

\* Whether operators are serial does not change.
LEMMA SerialStays == [Next]_vars => serial' = serial
BY DEF Next, Step, Start, PreflightUsed, PreflightInProgress, PreflightFrozen, DryRun,
       AcquireInProgressLockfile, AcquireRefused, ComputeHoldout, WriteResultTmp,
       PublishResult, WriteShaTmp, PublishSha, FindMarker, PromoteLockfileToUsed, Raise,
       Kill, vars

\* The serial invariant holds in every reachable state.
LEMMA SerialInvariant == Spec => []SerialInv
<1>1. Init => (serial => OneByOne)
  BY DEF Init, OneByOne, OneAlive, PreflightFresh, OwnEvidence, AtMostOnce
<1>2. SerialInv /\ [Next]_vars /\ ConcurrentInv' => SerialInv'
  BY SerialStep, SerialStays DEF SerialInv
<1>3. QED
  BY <1>1, <1>2, ConcurrentInvariant, PTL DEF Spec, SerialInv

\* When operators run the scripts one at a time, crashes and re-runs included, at
\* most one run ever touches the holdout window.
THEOREM HoldoutConsumedOnce == Spec => []SerialAtMostOnce
<1>1. SerialInv => SerialAtMostOnce
  BY DEF SerialInv, OneByOne, SerialAtMostOnce
<1>2. QED
  BY <1>1, SerialInvariant, PTL

\* With serial operators the digest beside a promoted result is that result's.
THEOREM SidecarOfResult == Spec => []SidecarMatches
<1>1. SerialInv => SidecarMatches
  BY DEF SerialInv, OneByOne, OwnEvidence, SidecarMatches
<1>2. QED
  BY <1>1, SerialInvariant, PTL

-----------------------------------------------------------------------------
(***************************************************************************)
(* The refinement: with serial operators the files implement HoldoutMark.  *)
(***************************************************************************)

MarkOf     == IF ~serial \/ ~Marked THEN "unused" ELSE IF inProgress THEN "in_progress" ELSE "used"
ReaderOf   == IF ~serial \/ touched = {} THEN None ELSE CHOOSE p \in Proc : p \in touched
EvidenceOf == IF serial /\ used THEN result ELSE None

\* The run that touched the window is the reader of the abstract protocol.
LEMMA ReaderIs ==
    ASSUME NEW p \in Proc, NEW T, T = {p}
    PROVE  T # {} /\ (CHOOSE q \in Proc : q \in T) = p
  OBVIOUS

\* An invocation's step is a step of the abstract protocol or leaves it alone.
LEMMA StepRefines ==
    ASSUME serial, SerialInv, NEW p \in Proc, Step(p)
    PROVE  Mark!Next \/ UNCHANGED <<MarkOf, ReaderOf, EvidenceOf>>
<1> USE DEF SerialInv, OneByOne, ConcurrentInv, TypeOK
<1>0. serial /\ serial'
  BY SerialStays DEF Next
<1>1. CASE AcquireInProgressLockfile(p)
  <2>1. touched = {} /\ touched' = {p} /\ ~inProgress /\ ~used
        /\ inProgress' /\ used' = used /\ result' = result
    BY <1>1 DEF AcquireInProgressLockfile, PreflightFresh, TouchLeavesMark
  <2>2. ReaderOf' = p
    BY <1>0, <2>1, ReaderIs DEF ReaderOf
  <2>3. Mark!Touch(p)
    BY <1>0, <2>1, <2>2 DEF Mark!Touch, ReaderOf
  <2>4. QED
    BY <2>3 DEF Mark!Next
<1>2. CASE PromoteLockfileToUsed(p)
  <2>1. inProgress /\ ~inProgress' /\ used' /\ touched' = touched /\ touched = {p}
        /\ result' = result /\ result = p
    BY <1>2 DEF PromoteLockfileToUsed, MutualExclusion, TouchedPlaces, AtMostOnce,
                OwnEvidence
  <2>2. ReaderOf = p /\ ReaderOf' = p
    BY <1>0, <2>1, ReaderIs DEF ReaderOf
  <2>3. Mark!Promote
    BY <1>0, <2>1, <2>2 DEF Mark!Promote, ReaderOf
  <2>4. QED
    BY <2>3 DEF Mark!Next
<1>3. CASE PublishResult(p)
  BY <1>0, <1>3 DEF PublishResult, PreflightFresh, MarkOf, ReaderOf, EvidenceOf
<1>4. CASE UNCHANGED <<inProgress, used, touched, result>>
  BY <1>0, <1>4 DEF MarkOf, ReaderOf, EvidenceOf
<1>5. QED
  BY <1>1, <1>2, <1>3, <1>4
  DEF Step, Start, PreflightUsed, PreflightInProgress, PreflightFrozen, DryRun,
      AcquireRefused, ComputeHoldout, WriteResultTmp, WriteShaTmp, PublishSha,
      FindMarker, Raise, Kill

\* With serial operators the protocol implements HoldoutMark: unused, in progress,
\* used, each once, with the evidence of the single reader.
THEOREM ImplementsMark == Spec => OneShot
<1>1. Init => Mark!Init
  BY DEF Init, Mark!Init
<1>2. SerialInv /\ [Next]_vars => [Mark!Next]_(Mark!vars)
  <2> SUFFICES ASSUME SerialInv, [Next]_vars PROVE [Mark!Next]_(Mark!vars)
    OBVIOUS
  <2>1. CASE ~serial
    BY <2>1, SerialStays DEF Mark!vars
  <2>2. CASE serial /\ Next
    BY <2>2, StepRefines DEF Next, Mark!vars, MarkOf, ReaderOf, EvidenceOf
  <2>3. CASE serial /\ UNCHANGED vars
    BY <2>3 DEF vars, Mark!vars
  <2>4. QED
    BY <2>1, <2>2, <2>3
<1>3. QED
  BY <1>1, <1>2, SerialInvariant, PTL DEF Spec, OneShot, Mark!Spec

=============================================================================
