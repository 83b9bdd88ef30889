---------------------------- MODULE HoldoutOnce ----------------------------
(***************************************************************************)
(* The one-shot holdout protocol of scripts/run_holdout_once.py and        *)
(* scripts/run_holdout_once_long_short.py.  The two scripts share one      *)
(* directory, results/holdout: the lockfiles .holdout_in_progress and      *)
(* .holdout_used, the evidence holdout_result.json and its sha256 sidecar. *)
(* They differ in the frozen artefacts their preflight insists on.         *)
(*                                                                         *)
(* A member of Proc is one invocation of a script; a re-run is another     *)
(* member.  Every system call that another process or a crash can be       *)
(* ordered against is a step of its own, in the order of the source.       *)
(***************************************************************************)
EXTENDS Naturals, FiniteSets

CONSTANTS
    Proc,      \* the invocations of the two scripts
    None       \* "no such file"

ASSUME NoneAssumption == None \notin Proc

VARIABLES
    serial,      \* does an operator start a run only when no other is alive
    pc,          \* where each invocation is
    script,      \* which of the two scripts each invocation runs
    intact,      \* frozen artefacts that pass their preflight test
    inProgress,  \* does .holdout_in_progress exist
    used,        \* does .holdout_used exist
    tmpResult,   \* holdout_result.json.tmp: whose payload, or None
    tmpSha,      \* holdout_result.json.sha256.tmp
    result,      \* holdout_result.json
    sha,         \* holdout_result.json.sha256: whose payload it digests
    touched,     \* history: invocations that consumed the holdout window
    barred       \* history: invocations started after the holdout was spent

files == <<inProgress, used, tmpResult, tmpSha, result, sha>>
vars  == <<serial, pc, script, intact, files, touched, barred>>

Script   == {"ensemble", "long_short"}
Artefact == {"gates_v2", "gates", "baseline", "w8d"}

\* The artefacts a script's preflight requires (hash, or existence for the
\* iter-19 baseline of the ensemble script).
Required(s) == IF s = "ensemble" THEN {"gates_v2", "baseline"}
                                 ELSE {"gates_v2", "gates", "w8d"}

Ended    == {"refused", "dry_run", "done", "failed"}
Critical == {"acquired", "computed", "result_tmp", "result_out", "sha_tmp", "evidence", "promoting"}
Preflight == {"started", "not_used", "not_marked", "passed"}
Place    == {"idle"} \cup Preflight \cup Critical \cup Ended

Alive(p) == pc[p] \notin Ended \cup {"idle"}
Marked   == inProgress \/ used
\* No process alive can still turn the mark back into an unmarked state.
Spent    == used \/ (inProgress /\ \A p \in Proc : pc[p] \notin Critical)

TypeOK ==
    /\ serial \in BOOLEAN
    /\ pc \in [Proc -> Place]
    /\ script \in [Proc -> Script]
    /\ intact \in SUBSET Artefact
    /\ inProgress \in BOOLEAN
    /\ used \in BOOLEAN
    /\ {tmpResult, tmpSha, result, sha} \subseteq Proc \cup {None}
    /\ touched \in SUBSET Proc
    /\ barred \in SUBSET Proc

Init ==
    /\ serial \in BOOLEAN
    /\ pc = [p \in Proc |-> "idle"]
    /\ script \in [Proc -> Script]
    /\ intact \in SUBSET Artefact
    /\ inProgress = FALSE
    /\ used = FALSE
    /\ tmpResult = None /\ tmpSha = None
    /\ result = None /\ sha = None
    /\ touched = {}
    /\ barred = {}

Goto(p, place) == pc' = [pc EXCEPT ![p] = place]
Static == UNCHANGED <<serial, script, intact, touched, barred>>

\* An operator starts a script.
Start(p) ==
    /\ pc[p] = "idle"
    /\ serial => \A q \in Proc : ~Alive(q)
    /\ Goto(p, "started")
    /\ barred' = IF Spent THEN barred \cup {p} ELSE barred
    /\ UNCHANGED <<serial, script, intact, files, touched>>

\* Mutant of PreflightUsed: only the in-progress marker is asked.
PreflightUsedForgotten(p) ==
    /\ pc[p] = "started"
    /\ Goto(p, "not_used")
    /\ UNCHANGED files /\ Static

\* preflight_check: lockfile_used.exists() is asked first ...
PreflightUsed(p) ==
    /\ pc[p] = "started"
    /\ Goto(p, IF used THEN "refused" ELSE "not_used")
    /\ UNCHANGED files /\ Static

\* ... then, by a second system call, lockfile_in_progress.exists() ...
PreflightInProgress(p) ==
    /\ pc[p] = "not_used"
    /\ Goto(p, IF inProgress THEN "refused" ELSE "not_marked")
    /\ UNCHANGED files /\ Static

\* ... and last the frozen artefacts.
PreflightFrozen(p) ==
    /\ pc[p] = "not_marked"
    /\ Goto(p, IF Required(script[p]) \subseteq intact THEN "passed" ELSE "refused")
    /\ UNCHANGED files /\ Static

\* --dry-run returns after the preflight and leaves no trace.
DryRun(p) ==
    /\ pc[p] = "passed"
    /\ Goto(p, "dry_run")
    /\ UNCHANGED files /\ Static

\* Mutant of AcquireInProgressLockfile: opened without O_EXCL.
AcquireWithoutExcl(p) ==
    /\ pc[p] = "passed"
    /\ inProgress' = TRUE
    /\ touched' = touched \cup {p}
    /\ Goto(p, "acquired")
    /\ UNCHANGED <<serial, script, intact, used, tmpResult, tmpSha, result, sha, barred>>

\* O_CREAT | O_EXCL on .holdout_in_progress, and on no other file; an existing
\* file is an uncaught FileExistsError.  From here on the window is touched.
AcquireInProgressLockfile(p) ==
    /\ pc[p] = "passed"
    /\ ~inProgress
    /\ inProgress' = TRUE
    /\ touched' = touched \cup {p}
    /\ Goto(p, "acquired")
    /\ UNCHANGED <<serial, script, intact, used, tmpResult, tmpSha, result, sha, barred>>

AcquireRefused(p) ==
    /\ pc[p] = "passed"
    /\ inProgress
    /\ Goto(p, "failed")
    /\ UNCHANGED files /\ Static

\* The holdout is read, its metrics computed and the payload built in memory.
ComputeHoldout(p) ==
    /\ pc[p] = "acquired"
    /\ Goto(p, "computed")
    /\ UNCHANGED files /\ Static

\* Mutant of WriteResultTmp: the result is opened for writing in place, and stands
\* on disk half written.
WriteResultInPlace(p) ==
    /\ pc[p] = "computed"
    /\ result' = "torn"
    /\ Goto(p, "result_tmp")
    /\ UNCHANGED <<inProgress, used, tmpResult, tmpSha, sha>> /\ Static

\* write_evidence: the payload to its .tmp sibling, fsynced ...
WriteResultTmp(p) ==
    /\ pc[p] = "computed"
    /\ tmpResult' = p
    /\ Goto(p, "result_tmp")
    /\ UNCHANGED <<inProgress, used, tmpSha, result, sha>> /\ Static

\* ... renamed over holdout_result.json ...
PublishResult(p) ==
    /\ pc[p] = "result_tmp"
    /\ result' = tmpResult
    /\ tmpResult' = None
    /\ Goto(p, "result_out")
    /\ UNCHANGED <<inProgress, used, tmpSha, sha>> /\ Static

\* ... then the digest of the payload in memory, the same way ...
WriteShaTmp(p) ==
    /\ pc[p] = "result_out"
    /\ tmpSha' = p
    /\ Goto(p, "sha_tmp")
    /\ UNCHANGED <<inProgress, used, tmpResult, result, sha>> /\ Static

\* ... and renamed over the sidecar.  The finally clause finds no .tmp left.
PublishSha(p) ==
    /\ pc[p] = "sha_tmp"
    /\ sha' = tmpSha
    /\ tmpSha' = None
    /\ Goto(p, "evidence")
    /\ UNCHANGED <<inProgress, used, tmpResult, result>> /\ Static

\* promote_lockfile_to_used: a marker that vanished is a PreflightError ...
FindMarker(p) ==
    /\ pc[p] = "evidence"
    /\ Goto(p, IF inProgress THEN "promoting" ELSE "failed")
    /\ UNCHANGED files /\ Static

\* Mutants of PromoteLockfileToUsed: promoted between the two evidence files, and
\* removed instead of renamed.
PromoteBeforeSidecar(p) ==
    /\ pc[p] = "result_out"
    /\ inProgress' = FALSE
    /\ used' = (used \/ inProgress)
    /\ Goto(p, "done")
    /\ UNCHANGED <<tmpResult, tmpSha, result, sha>> /\ Static

PromoteByUnlink(p) ==
    /\ pc[p] = "promoting"
    /\ inProgress' = FALSE
    /\ Goto(p, "done")
    /\ UNCHANGED <<used, tmpResult, tmpSha, result, sha>> /\ Static

\* ... then os.replace(.holdout_in_progress, .holdout_used): one atomic rename, which
\* overwrites a .holdout_used that is already there, and fails when the marker vanished
\* since.
PromoteLockfileToUsed(p) ==
    /\ pc[p] = "promoting"
    /\ inProgress' = FALSE
    /\ used' = (used \/ inProgress)
    /\ Goto(p, IF inProgress THEN "done" ELSE "failed")
    /\ UNCHANGED <<tmpResult, tmpSha, result, sha>> /\ Static

\* Mutant of Raise: a tidy error path releases the in-progress marker.
RaiseReleasing(p) ==
    /\ pc[p] \in Critical
    /\ Goto(p, "failed")
    /\ inProgress' = FALSE
    /\ UNCHANGED <<used, tmpResult, tmpSha, result, sha>> /\ Static

\* An exception (no data, full disk, bad payload) ends the run; nothing in main
\* catches it.  Inside write_evidence the finally clause removes both .tmp files.
Raise(p) ==
    /\ pc[p] \in Critical
    /\ Goto(p, "failed")
    /\ IF pc[p] \in {"result_tmp", "result_out", "sha_tmp"}
         THEN tmpResult' = None /\ tmpSha' = None
         ELSE UNCHANGED <<tmpResult, tmpSha>>
    /\ UNCHANGED <<inProgress, used, result, sha>> /\ Static

\* SIGKILL or power loss: no finally clause runs.
Kill(p) ==
    /\ Alive(p)
    /\ Goto(p, "failed")
    /\ UNCHANGED files /\ Static

Step(p) ==
    \/ Start(p)
    \/ PreflightUsed(p)
    \/ PreflightInProgress(p)
    \/ PreflightFrozen(p)
    \/ DryRun(p)
    \/ AcquireInProgressLockfile(p)
    \/ AcquireRefused(p)
    \/ ComputeHoldout(p)
    \/ WriteResultTmp(p)
    \/ PublishResult(p)
    \/ WriteShaTmp(p)
    \/ PublishSha(p)
    \/ FindMarker(p)
    \/ PromoteLockfileToUsed(p)
    \/ Raise(p)
    \/ Kill(p)

Next == \E p \in Proc : Step(p)

Spec == Init /\ [][Next]_vars

-----------------------------------------------------------------------------
(***************************************************************************)
(* Properties.                                                             *)
(***************************************************************************)

\* At most one invocation is between acquire_in_progress_lockfile and the end of
\* promote_lockfile_to_used, and the in-progress marker stands all that time: the
\* O_EXCL creation is a lock as long as it is held, and the fixed .tmp names of
\* write_evidence are never shared.
MutualExclusion ==
    \A p \in Proc : pc[p] \in Critical =>
        /\ inProgress
        /\ \A q \in Proc : pc[q] \in Critical => q = p

\* "partial = consumed": no step of any run, crash included, takes the directory
\* from marked back to unmarked.  The promotion never passes through a state in
\* which neither lockfile exists.
ConsumedForever == [][Marked => Marked']_vars

\* Whoever touched the window left a mark behind, whatever happened to it since.
TouchLeavesMark == touched # {} => Marked

\* A run started when the holdout was spent - promoted, or left in progress by a
\* run that died - never touches the window, whatever else runs beside it.
NoRerunOnceSpent == barred \cap touched = {}

\* .holdout_used stands only over published evidence: result and digest are both
\* there, and each was written whole by a run that touched the window.
UsedHasEvidence == used => {result, sha} \subseteq touched

\* The holdout is consumed at most once ("no re-runs permitted").
AtMostOnce == \A p, q \in touched : p = q

\* When operators run the scripts one at a time, crashes and re-runs included, it is.
SerialAtMostOnce == serial => AtMostOnce

\* With serial operators the digest beside a promoted result is that result's.
SidecarMatches == serial /\ used => sha = result

(***************************************************************************)
(* With serial operators the protocol implements HoldoutMark.              *)
(***************************************************************************)
Mark == INSTANCE HoldoutMark WITH
    mark     <- IF ~serial \/ ~Marked THEN "unused" ELSE IF inProgress THEN "in_progress" ELSE "used",
    reader   <- IF ~serial \/ touched = {} THEN None ELSE CHOOSE p \in Proc : p \in touched,
    evidence <- IF serial /\ used THEN result ELSE None

\* With serial operators the files on disk go through the three states of HoldoutMark in order, and what
\* is promoted is the payload of the one run that touched the window.
OneShot == Mark!Spec
=============================================================================
