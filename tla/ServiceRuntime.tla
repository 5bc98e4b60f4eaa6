--------------------------- MODULE ServiceRuntime ---------------------------
(***************************************************************************)
(* The Windows service around the collector's lanes: startup recovery, the *)
(* root worker, the USN worker with its overlapping cycles, the Security   *)
(* worker, the per-root locks the first two share, the runtime record log, *)
(* and a coordinated stop.  What the lanes do within one root or one       *)
(* window is the subject of UsnLane and SecurityLane.                      *)
(***************************************************************************)
EXTENDS Sentinel, Integers, Sequences, FiniteSets, SequencesExt

CONSTANTS
    GovernedRoots,   \* the configured roots, in order
    Cycles,          \* USN cycles that may be under way at once
    MaxAppendFaults  \* bound on runtime records that cannot be written

ASSUME ServiceAssumption ==
    /\ GovernedRoots \in Seq(Range(GovernedRoots)) /\ MaxAppendFaults \in Nat

Roots == Range(GovernedRoots)

VARIABLES
    svc,           \* the Execute handler
    cancelled,     \* the context all workers share is done
    usnCancelled,  \* the USN loop's own context is done
    serviceLog,    \* what the runtime log holds of the records that are ordered
    locks,         \* holder of every root lock
    rootPc,        \* the root worker
    rootAt,        \* index of the root it is at
    loopPc,         \* the USN worker's loop
    cycle,         \* its cycles
    usnRoots,      \* goroutines of the cycles, one per root
    securityPc,         \* the Security worker
    appendFaults

srvVars == <<svc, cancelled, usnCancelled, serviceLog, locks, rootPc, rootAt, loopPc,
             cycle, usnRoots, securityPc, appendFaults>>

\* Mutant: all roots share one lock.
oneLock(r) == GovernedRoots[1]

\* Checkpoint-owning work is serialised per governed root.
lockFor(r) == r

UsnContextDone == cancelled \/ usnCancelled

\* The kinds of runtime record whose order matters; of the others only the success
\* of the append does.
OrderedKinds == {"ServiceStarted", "WindowsSecurityCatchUp"}

\* A runtime record is durable, or appending it fails; then ok is FALSE.
appendServiceRuntimeRecord(kind, ok) ==
    \/ /\ ok
       /\ serviceLog' = serviceLog \cup ({kind} \cap OrderedKinds)
       /\ UNCHANGED appendFaults
    \/ /\ ~ok /\ appendFaults < MaxAppendFaults
       /\ appendFaults' = appendFaults + 1
       /\ UNCHANGED serviceLog
----------------------------------------------------------------------------
(* Execute.                                                                *)

\* Startup recovery comes before any worker; if it fails no worker starts.
recoverServiceSpoolPublications ==
    /\ svc = "Recovering"
    /\ \/ /\ svc' = "Running"
          /\ rootPc' = "Start" /\ loopPc' = "Loop" /\ securityPc' = "Barrier"
       \/ /\ svc' = "Stopped"
          /\ UNCHANGED <<rootPc, loopPc, securityPc>>
    /\ UNCHANGED <<cancelled, usnCancelled, serviceLog, locks, rootAt, cycle, usnRoots,
                   appendFaults>>

WorkersDone == {w \in {<<"root", rootPc>>, <<"usn", loopPc>>, <<"sec", securityPc>>} :
                   w[2] = "Done"}

\* A stop request, or the first worker to return, cancels them all.
stopRequested ==
    /\ svc = "Running"
    /\ svc' = "StopPending" /\ cancelled' = TRUE
    /\ UNCHANGED <<usnCancelled, serviceLog, locks, rootPc, rootAt, loopPc, cycle,
                   usnRoots, securityPc, appendFaults>>

workerReturned ==
    /\ svc = "Running" /\ WorkersDone # {}
    /\ svc' = "StopPending" /\ cancelled' = TRUE
    /\ UNCHANGED <<usnCancelled, serviceLog, locks, rootPc, rootAt, loopPc, cycle,
                   usnRoots, securityPc, appendFaults>>

waitForWorkers ==
    /\ svc = "StopPending" /\ Cardinality(WorkersDone) = 3
    /\ svc' = "Stopped"
    /\ UNCHANGED <<cancelled, usnCancelled, serviceLog, locks, rootPc, rootAt, loopPc,
                   cycle, usnRoots, securityPc, appendFaults>>
----------------------------------------------------------------------------
(* The root worker.                                                        *)

rootFrame == UNCHANGED <<svc, cancelled, usnCancelled, loopPc, cycle, usnRoots, securityPc>>

\* A record of the given kind; without it the worker returns its error.
rootAppends(kind, next) ==
    /\ \E ok \in BOOLEAN : /\ appendServiceRuntimeRecord(kind, ok)
                           /\ rootPc' = IF ok THEN next ELSE "Done"
    /\ UNCHANGED <<locks, rootAt>> /\ rootFrame

runServiceLoop == rootPc = "Start" /\ rootAppends("ServiceStarted", "Collect")

\* A collection cycle begins by setting interrupted spool artifacts aside, under
\* the publish boundary; it ends there if that fails.
writeServiceRootCollector ==
    /\ rootPc = "Collect"
    /\ rootPc' \in {"Roots", "Collected"}
    /\ rootAt' = 1
    /\ UNCHANGED <<locks, serviceLog, appendFaults>> /\ rootFrame

\* The roots in turn, each under its lock; a failing root does not end the cycle.
lockRoot ==
    /\ rootPc = "Roots" /\ ~cancelled /\ rootAt <= Len(GovernedRoots)
    /\ locks[lockFor(GovernedRoots[rootAt])] = None
    /\ locks' = [locks EXCEPT ![lockFor(GovernedRoots[rootAt])] = "root"]
    /\ rootPc' = "Owning"
    /\ UNCHANGED <<serviceLog, rootAt, appendFaults>> /\ rootFrame

\* The context is looked at before each root, not while waiting for its lock.
lockRootLate ==
    /\ rootPc = "Roots" /\ cancelled /\ rootAt <= Len(GovernedRoots)
    /\ \/ /\ rootPc' = "Collected"
          /\ UNCHANGED locks
       \/ /\ locks[lockFor(GovernedRoots[rootAt])] = None
          /\ locks' = [locks EXCEPT ![lockFor(GovernedRoots[rootAt])] = "root"]
          /\ rootPc' = "Owning"
    /\ UNCHANGED <<serviceLog, rootAt, appendFaults>> /\ rootFrame

unlockRoot ==
    /\ rootPc = "Owning"
    /\ locks' = [locks EXCEPT ![lockFor(GovernedRoots[rootAt])] = None]
    /\ rootAt' = rootAt + 1
    /\ rootPc' = IF rootAt' > Len(GovernedRoots) THEN "Collected" ELSE "Roots"
    /\ UNCHANGED <<serviceLog, appendFaults>> /\ rootFrame

\* After a cycle the context is looked at again.
AfterCycle == IF cancelled THEN "Stopping" ELSE "Timers"

runConfiguredServiceCycle ==
    rootPc = "Collected" /\ rootAppends("ConfiguredCollection", AfterCycle)

\* Whichever timer is due, or the context.
timers ==
    /\ rootPc = "Timers"
    /\ \/ cancelled /\ rootPc' = "Stopping"
       \/ rootPc' \in {"Collect", "Refreshing"}
    /\ UNCHANGED <<locks, serviceLog, rootAt, appendFaults>> /\ rootFrame

runSupportingRefreshServiceCycle ==
    rootPc = "Refreshing" /\ rootAppends("SupportingSourceRefresh", AfterCycle)

appendServiceStopped == rootPc = "Stopping" /\ rootAppends("ServiceStopped", "Done")

RootWorker == \/ runServiceLoop \/ writeServiceRootCollector \/ lockRoot \/ lockRootLate
              \/ unlockRoot \/ runConfiguredServiceCycle \/ timers
              \/ runSupportingRefreshServiceCycle \/ appendServiceStopped
----------------------------------------------------------------------------
(* The USN worker.                                                         *)

usnFrame == UNCHANGED <<svc, cancelled, rootPc, rootAt, securityPc>>

\* A tick starts another cycle, whether or not earlier ones have ended.
launchCycle(c) ==
    /\ loopPc = "Loop" /\ cycle[c] = "Free"
    /\ cycle' = [cycle EXCEPT ![c] = "Launching"]
    /\ UNCHANGED <<usnCancelled, serviceLog, locks, loopPc, usnRoots, appendFaults>>
    /\ usnFrame

\* A goroutine for the next root; once the context is done the cycle returns
\* instead, without the goroutines it has started.
writeServiceUSNCatchUp(c) ==
    LET launched == Cardinality({r \in Roots : usnRoots[c][r] # "Idle"})
    IN /\ cycle[c] = "Launching"
       /\ \/ /\ launched = Len(GovernedRoots)
             /\ cycle' = [cycle EXCEPT ![c] = "Waiting"]
             /\ UNCHANGED usnRoots
          \/ /\ launched < Len(GovernedRoots) /\ UsnContextDone
             /\ cycle' = [cycle EXCEPT ![c] = "Record"]
             /\ UNCHANGED usnRoots
          \/ /\ launched < Len(GovernedRoots) /\ ~UsnContextDone
             /\ usnRoots' = [usnRoots EXCEPT ![c][GovernedRoots[launched + 1]] = "Entered"]
             /\ UNCHANGED cycle
       /\ UNCHANGED <<usnCancelled, serviceLog, locks, loopPc, appendFaults>>
       /\ usnFrame

\* Mutant: the USN lane does not look at the lock.
enterRoot(c, r) ==
    /\ usnRoots[c][r] = "Entered"
    /\ IF TRUE
       THEN /\ locks' = [locks EXCEPT ![lockFor(r)] = c]
            /\ usnRoots' = [usnRoots EXCEPT ![c][r] = "Owning"]
       ELSE /\ usnRoots' = [usnRoots EXCEPT ![c][r] = "Ended"]
            /\ UNCHANGED locks
    /\ UNCHANGED <<usnCancelled, serviceLog, loopPc, cycle, appendFaults>>
    /\ usnFrame

\* A root that is already being worked on is skipped.
tryLockRoot(c, r) ==
    /\ usnRoots[c][r] = "Entered"
    /\ IF locks[lockFor(r)] = None
       THEN /\ locks' = [locks EXCEPT ![lockFor(r)] = c]
            /\ usnRoots' = [usnRoots EXCEPT ![c][r] = "Owning"]
       ELSE /\ usnRoots' = [usnRoots EXCEPT ![c][r] = "Ended"]
            /\ UNCHANGED locks
    /\ UNCHANGED <<usnCancelled, serviceLog, loopPc, cycle, appendFaults>>
    /\ usnFrame

endUSNRoot(c, r) ==
    /\ usnRoots[c][r] = "Owning"
    /\ locks' = [locks EXCEPT ![lockFor(r)] = None]
    /\ usnRoots' = [usnRoots EXCEPT ![c][r] = "Ended"]
    /\ UNCHANGED <<usnCancelled, serviceLog, loopPc, cycle, appendFaults>>
    /\ usnFrame

rootsWait(c) ==
    /\ cycle[c] = "Waiting" /\ \A r \in Roots : usnRoots[c][r] = "Ended"
    /\ cycle' = [cycle EXCEPT ![c] = "Record"]
    /\ UNCHANGED <<usnCancelled, serviceLog, locks, loopPc, usnRoots, appendFaults>>
    /\ usnFrame

\* The cycle's record; without it the loop learns of the error.  A cycle that
\* returned early may leave goroutines behind.
runServiceUSNCycle(c) ==
    /\ cycle[c] = "Record"
    /\ \E ok \in BOOLEAN :
          /\ appendServiceRuntimeRecord("USNCatchUp", ok)
          /\ cycle' = [cycle EXCEPT ![c] = IF ~ok THEN "Error"
                                           ELSE IF UsnContextDone THEN "Ended" ELSE "Free"]
    /\ usnRoots' = IF UsnContextDone THEN usnRoots
                   ELSE [usnRoots EXCEPT ![c] = [r \in Roots |-> "Idle"]]
    /\ UNCHANGED <<usnCancelled, locks, loopPc>>
    /\ usnFrame

\* The loop ends with the context or with the first error of a cycle.
runServiceUSNLoop ==
    \/ /\ loopPc = "Loop"
       /\ cancelled \/ \E c \in Cycles : cycle[c] = "Error"
       /\ usnCancelled' = TRUE /\ loopPc' = "Draining"
       /\ UNCHANGED <<serviceLog, locks, cycle, usnRoots, appendFaults>> /\ usnFrame
    \/ /\ loopPc = "Draining"
       /\ \A c \in Cycles : cycle[c] \in {"Free", "Ended", "Error"}
       /\ loopPc' = "Done"
       /\ UNCHANGED <<usnCancelled, serviceLog, locks, cycle, usnRoots, appendFaults>>
       /\ usnFrame

CycleSteps(c) == \/ writeServiceUSNCatchUp(c) \/ rootsWait(c) \/ runServiceUSNCycle(c)
RootSteps(c, r) == tryLockRoot(c, r) \/ endUSNRoot(c, r)

UsnWorker == \/ runServiceUSNLoop
             \/ \E c \in Cycles : \/ launchCycle(c) \/ CycleSteps(c)
                                  \/ \E r \in Roots : RootSteps(c, r)
----------------------------------------------------------------------------
(* The Security worker.                                                    *)

secFrame == UNCHANGED <<svc, cancelled, usnCancelled, locks, rootPc, rootAt, loopPc,
                        cycle, usnRoots>>

\* Mutant: the barrier waits for the start record only.
barrierIgnoresContext ==
    /\ securityPc = "Barrier"
    /\ "ServiceStarted" \in serviceLog /\ securityPc' = "Collecting"
    /\ UNCHANGED <<serviceLog, appendFaults>> /\ secFrame

\* It begins once ServiceStarted is durable.
startBarrier ==
    /\ securityPc = "Barrier"
    /\ \/ "ServiceStarted" \in serviceLog /\ securityPc' = "Collecting"
       \/ cancelled /\ securityPc' = "Done"
    /\ UNCHANGED <<serviceLog, appendFaults>> /\ secFrame

\* A cycle, its record, then the next interval; a failed cycle is retried then.
\* A cycle the context cuts short leaves no record.
runServiceWindowsSecurityLoop ==
    /\ securityPc = "Collecting"
    /\ \/ cancelled /\ securityPc' = "Done" /\ UNCHANGED <<serviceLog, appendFaults>>
       \/ \E ok \in BOOLEAN :
             /\ appendServiceRuntimeRecord("WindowsSecurityCatchUp", ok)
             /\ securityPc' = IF ok THEN "Interval" ELSE "Done"
    /\ secFrame

waitForInterval ==
    /\ securityPc = "Interval"
    /\ securityPc' = IF cancelled THEN "Done" ELSE "Collecting"
    /\ UNCHANGED <<serviceLog, appendFaults>> /\ secFrame

SecurityWorker == startBarrier \/ runServiceWindowsSecurityLoop \/ waitForInterval
----------------------------------------------------------------------------
SrvInit ==
    /\ svc = "Recovering" /\ cancelled = FALSE /\ usnCancelled = FALSE
    /\ serviceLog = {} /\ locks = [r \in Roots |-> None]
    /\ rootPc = None /\ rootAt = 1 /\ loopPc = None /\ securityPc = None
    /\ cycle = [c \in Cycles |-> "Free"]
    /\ usnRoots = [c \in Cycles |-> [r \in Roots |-> "Idle"]]
    /\ appendFaults = 0

Execute == recoverServiceSpoolPublications \/ workerReturned \/ waitForWorkers

\* A process that has returned from Execute takes no more steps.
SrvNext == svc # "Stopped" /\ (Execute \/ stopRequested \/ RootWorker \/ UsnWorker
                                 \/ SecurityWorker)

SrvSpec == SrvInit /\ [][SrvNext]_srvVars

\* Goroutines are scheduled and ticks come.  A baseline may take arbitrarily long,
\* but work on a root returns once its context is done.
SrvFairSpec ==
    /\ SrvSpec
    /\ WF_srvVars(svc # "Stopped" /\ Execute)
    /\ WF_srvVars(svc # "Stopped" /\ runServiceUSNLoop)
    /\ \A c \in Cycles :
          /\ WF_srvVars(svc # "Stopped" /\ launchCycle(c))
          /\ WF_srvVars(svc # "Stopped" /\ CycleSteps(c))
          /\ \A r \in Roots : WF_srvVars(svc # "Stopped" /\ RootSteps(c, r))
    /\ WF_srvVars(svc # "Stopped" /\ SecurityWorker)
    /\ WF_srvVars(svc # "Stopped" /\ cancelled /\ RootWorker)
----------------------------------------------------------------------------
(* Properties.                                                             *)

\* Types: a root's lock is free, the root lane's or a cycle's, and every worker is
\* at a step it has.
SrvTypeOK ==
    /\ svc \in {"Recovering", "Running", "StopPending", "Stopped"}
    /\ cancelled \in BOOLEAN /\ usnCancelled \in BOOLEAN
    /\ locks \in [Roots -> {None, "root"} \cup Cycles]
    /\ rootPc \in {None, "Start", "Collect", "Roots", "Owning", "Collected", "Timers",
                   "Refreshing", "Stopping", "Done"}
    /\ rootAt \in 1 .. Len(GovernedRoots) + 1
    /\ loopPc \in {None, "Loop", "Draining", "Done"}
    /\ cycle \in [Cycles -> {"Free", "Launching", "Waiting", "Record", "Error", "Ended"}]
    /\ usnRoots \in [Cycles -> [Roots -> {"Idle", "Entered", "Owning", "Ended"}]]
    /\ securityPc \in {None, "Barrier", "Collecting", "Interval", "Done"}
    /\ appendFaults \in 0 .. MaxAppendFaults

WorkOn(r) ==
    (IF rootPc = "Owning" /\ GovernedRoots[rootAt] = r THEN {"root"} ELSE {})
       \cup {c \in Cycles : usnRoots[c][r] = "Owning"}

\* Work that owns a root's checkpoint is serialised: the root worker and the
\* overlapping USN cycles are never on the same root together, also while the
\* service stops.
OneOwnerPerRoot == \A r \in Roots : Cardinality(WorkOn(r)) <= 1

\* A stop request, or a worker that returned because it could no longer record
\* what it does, ends the service: no worker waits for a lock or for another
\* worker for ever.
StopIsReached == (cancelled \/ WorkersDone # {}) ~> svc = "Stopped"

\* A long baseline of one root does not keep another from its USN catch-up: while
\* the service runs and the root worker is elsewhere, catch-up of a root goes on.
UnrelatedRootsProgress ==
    \A r \in Roots :
       <>[](svc = "Running" /\ "root" \notin WorkOn(r))
          => []<>(WorkOn(r) # {} \/ svc # "Running")
=============================================================================
