------------------------- MODULE InstallerServices -------------------------
(***************************************************************************)
(* The part of Approval 2 that touches running services: replacing the     *)
(* binaries of the package, the configuration of the services in the       *)
(* service control manager (SCM), their first start or restart, the        *)
(* commit that retires old files, and, when a step fails, the rollback of  *)
(* each step in reverse order and of the running/stopped state at the end. *)
(* Calls fail with or without effect, the installer is killed at the       *)
(* points KillAt names, and an operator runs it again.                     *)
(***************************************************************************)
EXTENDS Sentinel, Integers, Sequences, FiniteSets, TLC, SequencesExt

CONSTANTS
    FIServices,     \* a subset of the five services
    MaxIsFaults,    \* bound on failing calls, kills and changed files
    KillAt          \* values of isPc at which the installer may be killed

StartOrderOfAll == <<"FIUSNReader", "FIObjReader", "FICollector", "FICRLRefresher", "FISender">>
StopOrderOfAll == <<"FICollector", "FIUSNReader", "FIObjReader", "FICRLRefresher", "FISender">>

ASSUME InstallerServicesAssumption ==
    /\ FIServices \subseteq ToSet(StartOrderOfAll) /\ FIServices # {}
    /\ MaxIsFaults \in Nat /\ KillAt \subseteq STRING

VARIABLES
    exe,         \* service -> version of the binary at its canonical path, or None
    oldExe,      \* service -> version kept as .fi-old-<transaction>, or None
    legacyExe,   \* service -> its binary at the path of older releases, or None
    scm,         \* service -> its SCM configuration, or None
    proc,        \* service -> the image its process runs, or None
    pending,     \* the receiver is not active: FISender shall be manual and stopped
    isPc,        \* what the run is about to do
    isTodo,      \* the services left in the loop it is in
    isLoopErr,   \* an earlier service of the loop failed
    isPlan,      \* the mutations of the approved plan
    wasRunning,  \* service present at the start -> it ran
    pkgRunning,  \* services that ran when the package stopped them
    reviewed,    \* legacy files found and hashed before migration
    replaced,    \* files replaced, as service and original version
    packageDone, \* the file replacements completed: the package rollback is owned
    scmOwned,    \* SCM mutations owned, with the original configuration
    rtSnaps,     \* services taken by runtime reconciliation, and their image
    undoErrors,  \* some rollback step failed
    hostBefore,  \* history: files, configuration and processes before the run
    isFaults

isHost == <<exe, oldExe, legacyExe, scm, proc>>
isRun == <<pending, isLoopErr, isPlan, wasRunning, pkgRunning, reviewed, replaced,
           packageDone, scmOwned, rtSnaps, undoErrors, hostBefore>>
isVars == <<exe, oldExe, legacyExe, scm, proc, pending, isPc, isTodo, isLoopErr, isPlan,
            wasRunning, pkgRunning, reviewed, replaced, packageDone, scmOwned, rtSnaps, undoErrors,
            hostBefore, isFaults>>

Of(order) == SelectSeq(order, LAMBDA s : s \in FIServices)
StartOrder == Of(StartOrderOfAll)
StopOrder == Of(StopOrderOfAll)
IsFault == isFaults < MaxIsFaults /\ isFaults' = isFaults + 1
IsOk == UNCHANGED isFaults
Present(s) == scm[s] # None
Running(s) == proc[s] # None
GoTo(pc, todo) == isPc' = pc /\ isTodo' = todo

----------------------------------------------------------------------------
(* Discovery and plan.                                                     *)

desiredStart(s) == IF s = "FISender" /\ pending THEN "Manual" ELSE "Automatic"
desiredRunning(s) == ~(s = "FISender" /\ pending)

\* The configuration the contract asks for.
approval2Server2016ServiceContracts(s) ==
    [path |-> "canonical", start |-> desiredStart(s), managed |-> TRUE]

\* Where the image of a process came from.
imagePath(image) == IF image = "legacy" THEN "legacy" ELSE "canonical"

\* Legacy files with authority: the SCM runs them, or a process still does
\* although the SCM has been pointed at the new path.
approval2LegacyRuntimePaths ==
    {s \in FIServices \ {"FISender"} :
        Present(s) /\ (scm[s].path = "legacy" \/ proc[s] = "legacy")}

reviewPackage == \/ \E s \in FIServices : exe[s] # "new"
               \/ approval2LegacyRuntimePaths # {}

\* Running means the canonical image; an absent service has no runtime action.
runtimeMatches(s) ==
    IF desiredRunning(s) THEN Running(s) /\ imagePath(proc[s]) = "canonical" ELSE ~Running(s)

reviewServices ==
    {<<"SCM", s>> : s \in {x \in FIServices : scm[x] # approval2Server2016ServiceContracts(x)}}
    \cup {<<"RUNTIME", s>> : s \in {x \in FIServices : Present(x) /\ ~runtimeMatches(x)}}

servicePlan == reviewServices \cup (IF reviewPackage THEN {<<"PACKAGE", None>>} ELSE {})
Planned(authority) == \E a \in isPlan : a[1] = authority
PlannedFor(authority, order) == SelectSeq(order, LAMBDA s : <<authority, s>> \in isPlan)

----------------------------------------------------------------------------
(* Service control.  A call that fails may still take effect later.        *)

\* The image a start would run: the file the SCM configuration names.
imageAt(s) == IF scm[s].path = "canonical" THEN exe[s]
              ELSE IF legacyExe[s] = None THEN None ELSE "legacy"

StartOk(s) == imageAt(s) # None /\ proc' = [proc EXCEPT ![s] = imageAt(s)] /\ IsOk
StartFails(s) == \/ imageAt(s) = None /\ UNCHANGED proc /\ IsOk
                 \/ IsFault /\ proc' \in {proc, [proc EXCEPT ![s] = imageAt(s)]}
StopOk(s) == proc' = [proc EXCEPT ![s] = None] /\ IsOk
StopFails(s) == Running(s) /\ IsFault /\ proc' \in {proc, [proc EXCEPT ![s] = None]}

----------------------------------------------------------------------------
(* The package.                                                            *)

\* The plan is approved and found unchanged; the running/stopped state of the
\* present services is kept for the rollback.
captureRuntimeState ==
    /\ isPc = "Plan" /\ servicePlan # {}
    /\ isPlan' = servicePlan
    /\ wasRunning' = [s \in {x \in FIServices : Present(x)} |-> Running(s)]
    /\ hostBefore' = [exe |-> exe, scm |-> scm, running |-> {s \in FIServices : Running(s)}]
    /\ IF reviewPackage THEN GoTo("Package", <<>>)
       ELSE GoTo("Scm", SelectSeq(StopOrder, LAMBDA s : <<"SCM", s>> \in servicePlan))
    /\ IsOk
    /\ UNCHANGED <<isHost, pending, isLoopErr, pkgRunning, reviewed, replaced, packageDone,
                   scmOwned, rtSnaps, undoErrors>>

nothingToDo ==
    /\ isPc = "Plan" /\ servicePlan = {}
    /\ GoTo("Passed", <<>>) /\ IsOk
    /\ UNCHANGED <<isHost, isRun>>

\* Mutant: the services are not stopped for the replacement.
replaceWhileRunning ==
    /\ isPc = "Package"
    /\ \/ /\ \A s \in approval2LegacyRuntimePaths : legacyExe[s] # None
          /\ reviewed' = [s \in approval2LegacyRuntimePaths |-> legacyExe[s]]
          /\ GoTo("Stop", <<>>) /\ IsOk
       \/ /\ \/ IsFault
             \/ IsOk /\ \E s \in approval2LegacyRuntimePaths : legacyExe[s] = None
          /\ GoTo("Restore", <<>>) /\ UNCHANGED reviewed
    /\ UNCHANGED <<isHost, pending, isLoopErr, isPlan, wasRunning, pkgRunning, replaced,
                   packageDone, scmOwned, rtSnaps, undoErrors, hostBefore>>

\* Legacy files in use are hashed; a missing one ends the package step.
snapshotApproval2LegacyRuntimeFiles ==
    /\ isPc = "Package"
    /\ \/ /\ \A s \in approval2LegacyRuntimePaths : legacyExe[s] # None
          /\ reviewed' = [s \in approval2LegacyRuntimePaths |-> legacyExe[s]]
          /\ GoTo("Stop", SelectSeq(StopOrder, Present)) /\ IsOk
       \/ /\ \/ IsFault
             \/ IsOk /\ \E s \in approval2LegacyRuntimePaths : legacyExe[s] = None
          /\ GoTo("Restore", <<>>) /\ UNCHANGED reviewed
    /\ UNCHANGED <<isHost, pending, isLoopErr, isPlan, wasRunning, pkgRunning, replaced,
                   packageDone, scmOwned, rtSnaps, undoErrors, hostBefore>>

\* Running services are stopped one by one.  A failure leaves the earlier ones
\* stopped: only the controller's restore starts them again.
stopApproval2FIServicesForBinaryReplacement ==
    /\ isPc = "Stop" /\ isTodo # <<>>
    /\ LET s == Head(isTodo) IN
       \/ /\ StopOk(s) /\ GoTo("Stop", Tail(isTodo))
          /\ pkgRunning' = IF Running(s) THEN pkgRunning \cup {s} ELSE pkgRunning
       \/ /\ StopFails(s) /\ GoTo("Restore", <<>>) /\ UNCHANGED pkgRunning
    /\ UNCHANGED <<exe, oldExe, legacyExe, scm, pending, isLoopErr, isPlan, wasRunning,
                   reviewed, replaced, packageDone, scmOwned, rtSnaps, undoErrors, hostBefore>>

servicesStopped ==
    /\ isPc = "Stop" /\ isTodo = <<>>
    /\ GoTo("Replace", SelectSeq(StartOrder, LAMBDA s : exe[s] # "new")) /\ IsOk
    /\ UNCHANGED <<isHost, isRun>>

\* One file: staged and hashed, and the original renamed to the backup.
replaceFileSet ==
    /\ isPc = "Replace" /\ isTodo # <<>>
    /\ LET s == Head(isTodo) IN
       \/ /\ exe' = [exe EXCEPT ![s] = None] /\ oldExe' = [oldExe EXCEPT ![s] = exe[s]]
          /\ replaced' = Append(replaced, [service |-> s, original |-> exe[s]])
          /\ GoTo("Move", isTodo) /\ IsOk
       \/ IsFault /\ UNCHANGED <<exe, oldExe, replaced>> /\ GoTo("UndoFiles", <<>>)
    /\ UNCHANGED <<legacyExe, scm, proc, pending, isLoopErr, isPlan, wasRunning, pkgRunning,
                   reviewed, packageDone, scmOwned, rtSnaps, undoErrors, hostBefore>>

\* The stage is renamed into place and hashed there; the file is owned already.
activateReplacement ==
    /\ isPc = "Move"
    /\ LET new == [exe EXCEPT ![Head(isTodo)] = "new"] IN
       \/ exe' = new /\ GoTo("Replace", Tail(isTodo)) /\ IsOk
       \/ exe' \in {exe, new} /\ GoTo("UndoFiles", <<>>) /\ IsFault
    /\ UNCHANGED <<oldExe, legacyExe, scm, proc, isRun>>

filesReplaced ==
    /\ isPc = "Replace" /\ isTodo = <<>>
    /\ packageDone' = TRUE
    /\ GoTo("Restart", SelectSeq(StartOrder, LAMBDA s : s \in pkgRunning)) /\ IsOk
    /\ UNCHANGED <<isHost, pending, isLoopErr, isPlan, wasRunning, pkgRunning, reviewed,
                   replaced, scmOwned, rtSnaps, undoErrors, hostBefore>>

\* The services that ran are started; failures are collected.
startFIServicesFromSnapshot ==
    /\ isPc = "Restart" /\ isTodo # <<>>
    /\ LET s == Head(isTodo) IN
       \/ StartOk(s) /\ UNCHANGED isLoopErr
       \/ StartFails(s) /\ isLoopErr' = TRUE
    /\ GoTo("Restart", Tail(isTodo))
    /\ UNCHANGED <<exe, oldExe, legacyExe, scm, pending, isPlan, wasRunning, pkgRunning, reviewed,
                   replaced, packageDone, scmOwned, rtSnaps, undoErrors, hostBefore>>

\* With the brokers' pipes back, the package step is complete.
packageInstalled ==
    /\ isPc = "Restart" /\ isTodo = <<>>
    /\ \/ ~isLoopErr /\ IsOk /\ GoTo("Scm", PlannedFor("SCM", StopOrder))
       \/ /\ \/ isLoopErr /\ IsOk
             \/ ~isLoopErr /\ IsFault
          /\ GoTo("UndoStop", SelectSeq(StopOrder, Present))
    /\ isLoopErr' = FALSE
    /\ UNCHANGED <<isHost, pending, isPlan, wasRunning, pkgRunning, reviewed, replaced,
                   packageDone, scmOwned, rtSnaps, undoErrors, hostBefore>>
----------------------------------------------------------------------------
(* Service configuration.                                                  *)

ScmUnchanged == UNCHANGED <<exe, oldExe, legacyExe, proc, pending, isLoopErr, isPlan, wasRunning,
                            pkgRunning, reviewed, replaced, packageDone, rtSnaps, undoErrors,
                            hostBefore>>

\* An absent service is created and owned; it is a managed account's only
\* after a second call.
createService ==
    /\ isPc = "Scm" /\ isTodo # <<>> /\ ~Present(Head(isTodo))
    /\ LET s == Head(isTodo) IN
       \/ /\ scm' = [scm EXCEPT ![s] = [approval2Server2016ServiceContracts(s)
                                        EXCEPT !.managed = FALSE]]
          /\ scmOwned' = Append(scmOwned, [service |-> s, original |-> None])
          /\ GoTo("Flag", isTodo) /\ IsOk
       \/ IsFault /\ UNCHANGED <<scm, scmOwned>> /\ GoTo("UndoScm", <<>>)
    /\ ScmUnchanged


setApproval2ServiceManagedAccountFlag ==
    /\ isPc = "Flag"
    /\ LET s == Head(isTodo) IN
       \/ scm' = [scm EXCEPT ![s].managed = TRUE] /\ GoTo("Scm", Tail(isTodo)) /\ IsOk
       \/ IsFault /\ UNCHANGED scm /\ GoTo("UndoScm", <<>>)
    /\ UNCHANGED scmOwned /\ ScmUnchanged

\* An existing service is reconciled only if it was a managed account's; its
\* original configuration is owned before the update.
reconcileServer2016Services ==
    /\ isPc = "Scm" /\ isTodo # <<>> /\ Present(Head(isTodo))
    /\ LET s == Head(isTodo)
           own == Append(scmOwned, [service |-> s, original |-> scm[s]])
           desired == [scm EXCEPT ![s] = [approval2Server2016ServiceContracts(s)
                                          EXCEPT !.managed = scm[s].managed]]
       IN \/ /\ ~scm[s].managed /\ UNCHANGED <<scm, scmOwned>>
             /\ GoTo("UndoScm", <<>>) /\ IsOk
          \/ /\ scm[s].managed /\ scm' = desired /\ scmOwned' = own
             /\ GoTo("Scm", Tail(isTodo)) /\ IsOk
          \/ /\ scm[s].managed /\ IsFault /\ scm' \in {scm, desired} /\ scmOwned' = own
             /\ GoTo("UndoScm", <<>>)
    /\ ScmUnchanged

\* Between configuration and activation the access lists, audit policy and
\* the pre-start checks succeed or fail.
beforeActivation ==
    /\ isPc = "Scm" /\ isTodo = <<>>
    /\ \/ /\ GoTo("Activate", SelectSeq(StartOrder, LAMBDA s :
                   /\ \E o \in ToSet(scmOwned) : o.service = s /\ o.original = None
                   /\ scm[s].start = "Automatic"))
          /\ IsOk
       \/ IsFault /\ GoTo("UndoScm", <<>>)
    /\ UNCHANGED <<isHost, isRun>>

\* Created services start for the first time, behind the start gate.
startApproval2CreatedServices ==
    /\ isPc = "Activate" /\ isTodo # <<>>
    /\ LET s == Head(isTodo) IN
       \/ StartOk(s) /\ GoTo("Activate", Tail(isTodo))
       \/ StartFails(s) /\ GoTo("UndoScm", <<>>)
    /\ UNCHANGED <<exe, oldExe, legacyExe, scm, isRun>>

createdStarted ==
    /\ isPc = "Activate" /\ isTodo = <<>>
    /\ GoTo("Runtime", PlannedFor("RUNTIME", StartOrder)) /\ IsOk
    /\ UNCHANGED <<isHost, isRun>>
----------------------------------------------------------------------------
(* Runtime reconciliation, readiness, commit.                              *)

RuntimeUnchanged == UNCHANGED <<exe, oldExe, legacyExe, scm, pending, isLoopErr, isPlan,
                                wasRunning, pkgRunning, reviewed, replaced, packageDone,
                                scmOwned, undoErrors, hostBefore>>

\* What the service runs is noted.  One that shall stay stopped is stopped.
stopForReceiverPending ==
    /\ isPc = "Runtime" /\ isTodo # <<>> /\ ~desiredRunning(Head(isTodo))
    /\ LET s == Head(isTodo) IN
       /\ rtSnaps' = Append(rtSnaps, [service |-> s, image |-> proc[s]])
       /\ \/ StopOk(s) /\ GoTo("Runtime", Tail(isTodo))
          \/ StopFails(s) /\ GoTo("UndoRuntime", <<>>)
    /\ RuntimeUnchanged

\* Another is stopped if it runs, behind the start gate, and started; the
\* image it then runs must be the canonical one.
reconcileFIRuntimeServices ==
    /\ isPc = "Runtime" /\ isTodo # <<>> /\ desiredRunning(Head(isTodo))
    /\ LET s == Head(isTodo)
           image == imageAt(s)
           good == image # None /\ imagePath(image) = "canonical"
       IN /\ rtSnaps' = Append(rtSnaps, [service |-> s, image |-> proc[s]])
          /\ \/ /\ good /\ proc' = [proc EXCEPT ![s] = image]
                /\ GoTo("Runtime", Tail(isTodo)) /\ IsOk
             \/ /\ \/ good /\ IsFault
                   \/ ~good /\ IsOk
                /\ proc' \in {proc, [proc EXCEPT ![s] = None], [proc EXCEPT ![s] = image]}
                /\ GoTo("UndoRuntime", <<>>)
    /\ RuntimeUnchanged

\* Every service must be present and stay in its state over the window; the
\* brokers and the collector must be ready.
waitForFIServiceStability ==
    /\ isPc = "Runtime" /\ isTodo = <<>>
    /\ LET stable == \A s \in FIServices : /\ Present(s)
                                           /\ \/ Running(s)
                                              \/ s = "FISender" /\ scm[s].start = "Manual"
       IN \/ stable /\ IsOk /\ GoTo("Post", <<>>)
          \/ stable /\ IsFault /\ GoTo("UndoRuntime", <<>>)
          \/ ~stable /\ IsOk /\ GoTo("UndoRuntime", <<>>)
    /\ UNCHANGED <<isHost, isRun>>

\* Rediscovery must find nothing left to do before anything is committed.
rediscoverAfterApproval2 ==
    /\ isPc = "Post"
    /\ \/ servicePlan = {} /\ IsOk /\ GoTo("Commit", <<>>)
       \/ servicePlan # {} /\ IsOk /\ GoTo("UndoRuntime", <<>>)
       \/ servicePlan = {} /\ IsFault /\ GoTo("UndoRuntime", <<>>)
    /\ UNCHANGED <<isHost, isRun>>


\* Every reviewed legacy file is checked before the first is removed; one that
\* changed keeps them all.
removeApproval2LegacyRuntimeFiles ==
    /\ isPc = "Commit"
    /\ LET unchanged == \A s \in DOMAIN reviewed : legacyExe[s] \in {None, reviewed[s]}
       IN \/ /\ unchanged /\ IsOk /\ UNCHANGED isLoopErr
             /\ legacyExe' = [s \in FIServices |-> IF s \in DOMAIN reviewed THEN None
                                                   ELSE legacyExe[s]]
          \/ /\ ~unchanged /\ IsOk /\ isLoopErr' = TRUE /\ UNCHANGED legacyExe
          \/ /\ unchanged /\ IsFault /\ isLoopErr' = TRUE
             /\ \E gone \in SUBSET DOMAIN reviewed :
                   legacyExe' = [s \in FIServices |-> IF s \in gone THEN None
                                                      ELSE legacyExe[s]]
    /\ GoTo("CommitFiles", <<>>)
    /\ UNCHANGED <<exe, oldExe, scm, proc, pending, isPlan, wasRunning, pkgRunning, reviewed,
                   replaced, packageDone, scmOwned, rtSnaps, undoErrors, hostBefore>>

\* The backups go; an error of either part is reported and nothing undone.
commitReplacedFiles ==
    /\ isPc = "CommitFiles"
    /\ LET mine == {r.service : r \in ToSet(replaced)} IN
       \/ /\ oldExe' = [s \in FIServices |-> IF s \in mine THEN None ELSE oldExe[s]]
          /\ GoTo(IF isLoopErr THEN "Uncleaned" ELSE "Passed", <<>>) /\ IsOk
       \/ IsFault /\ UNCHANGED oldExe /\ GoTo("Uncleaned", <<>>)
    /\ UNCHANGED <<exe, legacyExe, scm, proc, isRun>>
----------------------------------------------------------------------------
(* Rollback, latest step first; errors are collected and the rest goes on. *)

UndoUnchanged == UNCHANGED <<oldExe, legacyExe, pending, isLoopErr, isPlan, wasRunning,
                             pkgRunning, reviewed, packageDone, hostBefore>>

\* A service that was stopped is stopped.
restoreStoppedService ==
    /\ isPc = "UndoRuntime" /\ rtSnaps # <<>> /\ Last(rtSnaps).image = None
    /\ LET s == Last(rtSnaps).service IN
       \/ StopOk(s) /\ UNCHANGED undoErrors
       \/ StopFails(s) /\ undoErrors' = TRUE
    /\ rtSnaps' = Front(rtSnaps)
    /\ UNCHANGED <<isPc, isTodo, exe, scm, replaced, scmOwned>> /\ UndoUnchanged

\* One that ran and now does not run that image is started from it, by
\* pointing the SCM at the image for the time of the start.
restoreFIRuntimeReconcileSnapshots ==
    /\ isPc = "UndoRuntime" /\ rtSnaps # <<>> /\ Last(rtSnaps).image # None
    /\ LET s == Last(rtSnaps).service
           path == imagePath(Last(rtSnaps).image)
           target == IF path = "canonical" THEN exe[s]
                     ELSE IF legacyExe[s] = None THEN None ELSE "legacy"
       IN IF Running(s) /\ imagePath(proc[s]) = path
          THEN UNCHANGED <<proc, scm, undoErrors>> /\ IsOk
          ELSE \/ /\ target # None /\ proc' = [proc EXCEPT ![s] = target] /\ IsOk
                  /\ UNCHANGED <<scm, undoErrors>>
               \/ /\ \/ IsFault
                     \/ target = None /\ IsOk
                  /\ proc' \in {proc, [proc EXCEPT ![s] = None]}
                  /\ scm' \in {scm, [scm EXCEPT ![s].path = path]}
                  /\ undoErrors' = TRUE
    /\ rtSnaps' = Front(rtSnaps)
    /\ UNCHANGED <<isPc, isTodo, exe, replaced, scmOwned>> /\ UndoUnchanged

runtimeUndone ==
    /\ isPc = "UndoRuntime" /\ rtSnaps = <<>>
    /\ GoTo("UndoScm", <<>>) /\ IsOk
    /\ UNCHANGED <<isHost, isRun>>

\* A created service is stopped and deleted, another gets its configuration back.
rollbackApproval2Services ==
    /\ isPc = "UndoScm" /\ scmOwned # <<>>
    /\ LET s == Last(scmOwned).service
           original == Last(scmOwned).original
       IN \/ /\ scm' = [scm EXCEPT ![s] = original]
             /\ proc' = IF original = None THEN [proc EXCEPT ![s] = None] ELSE proc
             /\ UNCHANGED undoErrors /\ IsOk
          \/ /\ IsFault /\ UNCHANGED scm /\ undoErrors' = TRUE
             /\ proc' \in {proc} \cup (IF original = None THEN {[proc EXCEPT ![s] = None]} ELSE {})
    /\ scmOwned' = Front(scmOwned)
    /\ UNCHANGED <<isPc, isTodo, exe, replaced, rtSnaps>> /\ UndoUnchanged

scmUndone ==
    /\ isPc = "UndoScm" /\ scmOwned = <<>>
    /\ IF packageDone THEN GoTo("UndoStop", SelectSeq(StopOrder, Present))
       ELSE GoTo("Restore", <<>>)
    /\ IsOk
    /\ UNCHANGED <<isHost, isRun>>

stopApproval2ExistingFIServicesBestEffort ==
    /\ isPc = "UndoStop" /\ isTodo # <<>>
    /\ LET s == Head(isTodo) IN
       \/ StopOk(s) /\ UNCHANGED undoErrors
       \/ StopFails(s) /\ undoErrors' = TRUE
    /\ GoTo("UndoStop", Tail(isTodo))
    /\ UNCHANGED <<exe, scm, replaced, scmOwned, rtSnaps>> /\ UndoUnchanged

stoppedForUndo ==
    /\ isPc = "UndoStop" /\ isTodo = <<>>
    /\ GoTo("UndoFiles", <<>>) /\ IsOk
    /\ UNCHANGED <<isHost, isRun>>

\* Mutant: the legacy file is put where the replaced one was.
rollbackFromLegacy ==
    /\ isPc = "UndoFiles" /\ replaced # <<>>
    /\ LET s == Last(replaced).service IN
       \/ /\ exe' = [exe EXCEPT ![s] = legacyExe[s]]
          /\ oldExe' = [oldExe EXCEPT ![s] = None]
          /\ UNCHANGED undoErrors /\ IsOk
       \/ /\ IsFault /\ undoErrors' = TRUE
          /\ exe' \in {exe, [exe EXCEPT ![s] = None]} /\ UNCHANGED oldExe
    /\ replaced' = Front(replaced)
    /\ UNCHANGED <<isPc, isTodo, legacyExe, scm, proc, pending, isLoopErr, isPlan, wasRunning,
                   pkgRunning, reviewed, packageDone, scmOwned, rtSnaps, hostBefore>>

\* The new file is removed and the original renamed back; a file that cannot
\* be removed is left, with its backup.
rollbackReplacedFiles ==
    /\ isPc = "UndoFiles" /\ replaced # <<>>
    /\ LET s == Last(replaced).service IN
       \/ /\ exe' = [exe EXCEPT ![s] = Last(replaced).original]
          /\ oldExe' = [oldExe EXCEPT ![s] = None]
          /\ UNCHANGED undoErrors /\ IsOk
       \/ /\ IsFault /\ undoErrors' = TRUE
          /\ exe' \in {exe, [exe EXCEPT ![s] = None]} /\ UNCHANGED oldExe
    /\ replaced' = Front(replaced)
    /\ UNCHANGED <<isPc, isTodo, legacyExe, scm, proc, pending, isLoopErr, isPlan, wasRunning,
                   pkgRunning, reviewed, packageDone, scmOwned, rtSnaps, hostBefore>>

filesUndone ==
    /\ isPc = "UndoFiles" /\ replaced = <<>>
    /\ GoTo("Restore", <<>>) /\ IsOk
    /\ UNCHANGED <<isHost, isRun>>

\* Mutant: the services that ran are not started.
restoreStopsOnly ==
    /\ isPc = "Restore"
    /\ LET of(order, ran) == SelectSeq(order, LAMBDA s : s \in DOMAIN wasRunning
                                                        /\ wasRunning[s] = ran)
       IN GoTo("Restoring", of(StopOrder, FALSE))
    /\ IsOk
    /\ UNCHANGED <<isHost, isRun>>

\* The controller's last step: services that were stopped are stopped, then
\* services that ran are started.
restoreRuntime ==
    /\ isPc = "Restore"
    /\ LET of(order, ran) == SelectSeq(order, LAMBDA s : s \in DOMAIN wasRunning
                                                        /\ wasRunning[s] = ran)
       IN GoTo("Restoring", of(StopOrder, FALSE) \o of(StartOrder, TRUE))
    /\ IsOk
    /\ UNCHANGED <<isHost, isRun>>

restoreApproval2FIServicesFromSnapshot ==
    /\ isPc = "Restoring" /\ isTodo # <<>>
    /\ LET s == Head(isTodo) IN
       \/ Present(s) /\ ~wasRunning[s] /\ StopOk(s) /\ UNCHANGED undoErrors
       \/ Present(s) /\ ~wasRunning[s] /\ StopFails(s) /\ undoErrors' = TRUE
       \/ /\ Present(s) => wasRunning[s] /\ Running(s)
          /\ undoErrors' = (undoErrors \/ ~Present(s))
          /\ IsOk /\ UNCHANGED proc
       \/ Present(s) /\ wasRunning[s] /\ ~Running(s) /\ StartOk(s) /\ UNCHANGED undoErrors
       \/ Present(s) /\ wasRunning[s] /\ ~Running(s) /\ StartFails(s) /\ undoErrors' = TRUE
    /\ GoTo("Restoring", Tail(isTodo))
    /\ UNCHANGED <<exe, scm, replaced, scmOwned, rtSnaps>> /\ UndoUnchanged

restored ==
    /\ isPc = "Restoring" /\ isTodo = <<>>
    /\ GoTo("Failed", <<>>) /\ IsOk
    /\ UNCHANGED <<isHost, isRun>>
----------------------------------------------------------------------------
(* Runs, and what happens beside them.                                     *)

ForgetServicesRun ==
    /\ isLoopErr' = FALSE /\ isPlan' = {} /\ wasRunning' = <<>> /\ pkgRunning' = {}
    /\ reviewed' = <<>> /\ replaced' = <<>> /\ packageDone' = FALSE /\ scmOwned' = <<>>
    /\ rtSnaps' = <<>> /\ undoErrors' = FALSE /\ hostBefore' = None

\* The operator runs the installer again, with the receiver active or not.
rerun ==
    /\ isPc \in {"Passed", "Failed", "Uncleaned"}
    /\ GoTo("Plan", <<>>) /\ ForgetServicesRun
    /\ pending' \in {FALSE, pending}
    /\ IsOk /\ UNCHANGED isHost

\* Nothing of a killed run is remembered: there is no durable rollback record.
isKilled ==
    /\ isPc \in KillAt /\ IsFault
    /\ GoTo("Plan", <<>>) /\ ForgetServicesRun
    /\ UNCHANGED <<isHost, pending>>

\* Somebody replaces a legacy file no process runs.
legacyFileChanged ==
    /\ IsFault
    /\ \E s \in FIServices : /\ legacyExe[s] = "legacy" /\ proc[s] # "legacy"
                             /\ legacyExe' = [legacyExe EXCEPT ![s] = "changed"]
    /\ UNCHANGED <<exe, oldExe, scm, proc, isPc, isTodo, isRun>>

\* A host before the run: the service is absent, of an older release at either
\* path, up to date, or left by an interrupted migration.
HostShape(s, shape) ==
    LET managed(path) == [path |-> path, start |-> "Automatic", managed |-> TRUE] IN
    CASE shape = "absent" ->
           [exe |-> None, legacy |-> None, scm |-> None, proc |-> None]
      [] shape = "legacy" ->
           [exe |-> None, legacy |-> "legacy", scm |-> managed("legacy"), proc |-> "legacy"]
      [] shape = "legacyStopped" ->
           [exe |-> None, legacy |-> "legacy", scm |-> managed("legacy"), proc |-> None]
      [] shape = "old" ->
           [exe |-> "old", legacy |-> None, scm |-> managed("canonical"), proc |-> "old"]
      [] shape = "oldStopped" ->
           [exe |-> "old", legacy |-> None, scm |-> managed("canonical"), proc |-> None]
      [] shape = "interrupted" ->
           [exe |-> "new", legacy |-> "legacy", scm |-> managed("canonical"), proc |-> "legacy"]
      [] shape = "current" ->
           [exe |-> "new", legacy |-> None, scm |-> managed("canonical"), proc |-> "new"]
Shapes(s) == {"absent", "old", "oldStopped", "current"}
             \cup (IF s = "FISender" THEN {} ELSE {"legacy", "legacyStopped", "interrupted"})

IsInitAt(h, p) ==
    /\ exe = [s \in FIServices |-> HostShape(s, h[s]).exe]
    /\ legacyExe = [s \in FIServices |-> HostShape(s, h[s]).legacy]
    /\ scm = [s \in FIServices |-> HostShape(s, h[s]).scm]
    /\ proc = [s \in FIServices |-> HostShape(s, h[s]).proc]
    /\ oldExe = [s \in FIServices |-> None]
    /\ pending = p
    /\ isPc = "Plan" /\ isTodo = <<>> /\ isLoopErr = FALSE /\ isPlan = {} /\ wasRunning = <<>>
    /\ pkgRunning = {} /\ reviewed = <<>> /\ replaced = <<>> /\ packageDone = FALSE
    /\ scmOwned = <<>> /\ rtSnaps = <<>> /\ undoErrors = FALSE /\ hostBefore = None
    /\ isFaults = 0

IsInit ==
    \E h \in {f \in [FIServices -> UNION {Shapes(s) : s \in FIServices}] :
                  \A s \in FIServices : f[s] \in Shapes(s)} :
       \E p \in BOOLEAN : IsInitAt(h, p)

IsSteps ==
    \/ captureRuntimeState \/ nothingToDo
    \/ snapshotApproval2LegacyRuntimeFiles
    \/ stopApproval2FIServicesForBinaryReplacement \/ servicesStopped
    \/ replaceFileSet \/ activateReplacement \/ filesReplaced
    \/ startFIServicesFromSnapshot \/ packageInstalled
    \/ createService \/ setApproval2ServiceManagedAccountFlag
    \/ reconcileServer2016Services \/ beforeActivation
    \/ startApproval2CreatedServices \/ createdStarted
    \/ stopForReceiverPending \/ reconcileFIRuntimeServices
    \/ waitForFIServiceStability
    \/ rediscoverAfterApproval2
    \/ removeApproval2LegacyRuntimeFiles \/ commitReplacedFiles
    \/ restoreStoppedService \/ restoreFIRuntimeReconcileSnapshots \/ runtimeUndone
    \/ rollbackApproval2Services \/ scmUndone
    \/ stopApproval2ExistingFIServicesBestEffort \/ stoppedForUndo
    \/ rollbackReplacedFiles \/ filesUndone
    \/ restoreRuntime \/ restoreApproval2FIServicesFromSnapshot \/ restored
    \/ rerun

IsNext == IsSteps \/ isKilled \/ legacyFileChanged
IsSpec == IsInit /\ [][IsNext]_isVars
IsFairSpec == IsSpec /\ WF_isVars(IsSteps)
----------------------------------------------------------------------------
\* Types: only a release's files are at the canonical paths, and only a legacy
\* file, changed or not, at a legacy path.
IsTypeOK ==
    /\ exe \in [FIServices -> {None, "old", "new"}]
    /\ oldExe \in [FIServices -> {None, "old", "new"}]
    /\ legacyExe \in [FIServices -> {None, "legacy", "changed"}]
    /\ \A s \in FIServices : scm[s] # None =>
          scm[s] \in [path : {"legacy", "canonical"}, start : {"Automatic", "Manual"},
                      managed : BOOLEAN]
    /\ proc \in [FIServices -> {None, "legacy", "old", "new"}]
    /\ ToSet(isTodo) \subseteq FIServices
    /\ isFaults \in 0 .. MaxIsFaults

\* "Rollback restores package/service/runtime state on a failed transaction":
\* a run that failed and reports no rollback error leaves the binaries, the
\* service configurations and the running/stopped states it found.
FailedRunRestoresServices ==
    isPc = "Failed" /\ ~undoErrors =>
        /\ exe = hostBefore.exe /\ scm = hostBefore.scm
        /\ {s \in FIServices : Running(s)} = hostBefore.running

\* A run that passed has every service running the new binary, although
\* rediscovery compares the path of the image and not its content.
PassedRunsNewBinaries ==
    isPc = "Passed" =>
        \A s \in FIServices : /\ exe[s] = "new"
                              /\ scm[s] = approval2Server2016ServiceContracts(s)
                              /\ proc[s] = IF desiredRunning(s) THEN "new" ELSE None

\* "A legacy file that changed after review is not deleted", and no legacy
\* file is deleted while a process runs it or the SCM would start it.
LegacyFileKeptWhileUsed ==
    \A s \in FIServices : legacyExe[s] # None /\ legacyExe'[s] = None =>
       /\ legacyExe[s] = "legacy" \/ reviewed[s] = "changed"
       /\ proc[s] # "legacy" /\ scm[s].path = "canonical"

\* Once calls stop failing, running the installer again ends with the services
\* as planned, whatever earlier runs left behind.
ServicesConverge == <>[](servicePlan = {})
=============================================================================
