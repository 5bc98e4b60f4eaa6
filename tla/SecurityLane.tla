---------------------------- MODULE SecurityLane ----------------------------
(***************************************************************************)
(* Collection of the Windows Security event log: one host checkpoint,      *)
(* bounded EventRecordID windows, continuity gaps and their reconciliation *)
(* by the service's independent worker or by the one-shot configured run   *)
(* (the two never run at once: both own the host's runtime state).         *)
(* Beside them the log grows, overwrites its oldest records and is         *)
(* cleared.  The log is [oldest, newest]: record IDs oldest .. newest.     *)
(***************************************************************************)
EXTENDS Sentinel, Integers, FiniteSets, Sequences, TLC

CONSTANTS
    MaxSpan,        \* securityevent.MaxReadRecordIDSpan
    MaxEvents,      \* bound on record IDs
    MaxOverwrites,  \* bound on overwriting and clearing
    MaxSecFaults,   \* bound on failing calls and crashes
    Races           \* moments in a call at which records may also be lost: a
                    \* subset of {"duringQuery", "duringRead"}

ASSUME SecurityAssumption ==
    /\ MaxSpan \in Nat \ {0} /\ MaxEvents \in Nat
    /\ MaxOverwrites \in Nat /\ MaxSecFaults \in Nat
    /\ Races \subseteq {"duringQuery", "duringRead"}

VARIABLES
    log,        \* the Security channel
    secCk,      \* LastEventRecordID of the checkpoint file
    secFacts,   \* facts in finalized batches
    secPc,      \* what the run is about to do
    oneShot,    \* it is the one-shot run, not the service's worker
    secCurrent, \* the checkpoint it goes on from
    secTarget,  \* the fixed end of its catch-up
    secCount,   \* number of records, read before the oldest record's ID
    secGap,     \* the checkpoint its gap record follows
    window,     \* the bounded window being processed
    secRead,    \* events read and not yet finalized
    rebases,    \* new boundaries: <<checkpoint before, checkpoint after>>
    secFirst,   \* the first boundary
    overwrites, secFaults

secWork == <<oneShot, secCurrent, secTarget, secCount, secGap, window, secRead>>
secVars == <<log, secCk, secFacts, secPc, oneShot, secCurrent, secTarget, secCount,
             secGap, window, secRead, rebases, secFirst, overwrites, secFaults>>

EventFact(e) == [kind |-> "Event", id |-> e]
SecGapFact(c) == [kind |-> "Gap", id |-> c]
----------------------------------------------------------------------------
(* The log.                                                                *)

NumberOfRecords == log.newest - log.oldest + 1

\* What a query says of the newest record: nothing is asked for it, it follows
\* from the number of records and the oldest one.
NewestRecord(oldest, count) == IF count > 0 THEN oldest + count - 1 ELSE 0

QueryLogState == [oldest |-> log.oldest,
                  newest |-> NewestRecord(log.oldest, NumberOfRecords)]

EventWritten ==
    /\ log.newest < MaxEvents
    /\ log' = [log EXCEPT !.newest = @ + 1]
    /\ UNCHANGED overwrites

\* Records are lost in the middle of a call only if that race is considered.
Undisturbed == /\ secPc = "TargetOldest" => "duringQuery" \in Races
               /\ secPc = "Read" => "duringRead" \in Races

\* The oldest records are overwritten.
RecordsOverwritten ==
    /\ overwrites < MaxOverwrites
    /\ Undisturbed
    /\ \E n \in log.oldest + 1 .. log.newest : log' = [log EXCEPT !.oldest = n]
    /\ overwrites' = overwrites + 1

\* The log is cleared; its first record says so (event 1102).
LogCleared ==
    /\ overwrites < MaxOverwrites /\ log.newest < MaxEvents
    /\ Undisturbed
    /\ log' = [oldest |-> log.newest + 1, newest |-> log.newest + 1]
    /\ overwrites' = overwrites + 1

LogChanges ==
    /\ EventWritten \/ RecordsOverwritten \/ LogCleared
    /\ UNCHANGED <<secCk, secFacts, secPc, secWork, rebases, secFirst, secFaults>>
----------------------------------------------------------------------------
(* Checkpoint.                                                             *)


\* Reason code of a gap between checkpoint c and log state s, or None.
AssessCheckpoint(c, s) ==
    CASE s.newest = 0 /\ c > 0 -> "SecurityLogResetOrCleared"
      [] s.newest = 0          -> None
      [] c > s.newest          -> "SecurityLogResetOrCleared"
      [] c + 1 < s.oldest      -> "SecurityLogRecordsOverwritten"
      [] OTHER                 -> None

\* The file is created, or replaced, at a boundary.
InitializeCheckpoint(id) ==
    /\ secCk' = id
    /\ rebases' = IF secCk = None THEN rebases ELSE rebases \cup {<<secCk, id>>}
    /\ secFirst' = IF secCk = None THEN id ELSE secFirst

\* It only moves on from where the window started, and never back.
CanAdvance(from, to) == secCk = from /\ to >= from
----------------------------------------------------------------------------
(* A run.                                                                  *)

\* Both kinds of run anchor the channel first.  A gap found here is the one that
\* will be recorded.
prepareConfiguredSecurity ==
    /\ secPc = "idle"
    /\ oneShot' \in BOOLEAN
    /\ \/ /\ secCk = None
          /\ InitializeCheckpoint(QueryLogState.newest)
          /\ secCurrent' = QueryLogState.newest
          /\ UNCHANGED secGap
       \/ /\ secCk # None
          /\ secCurrent' = secCk
          /\ secGap' = IF AssessCheckpoint(secCk, QueryLogState) # None
                       THEN secCk ELSE None
          /\ UNCHANGED <<secCk, rebases, secFirst>>
    /\ secPc' = "TargetCount"
    /\ UNCHANGED <<log, secFacts, secTarget, secCount, window, secRead,
                   overwrites, secFaults>>

\* The target is queried: the number of records, then the oldest one.
targetCount ==
    /\ secPc = "TargetCount"
    /\ secCount' = NumberOfRecords
    /\ secPc' = "TargetOldest"
    /\ UNCHANGED <<log, secCk, secFacts, oneShot, secCurrent, secTarget, secGap,
                   window, secRead, rebases, secFirst, overwrites, secFaults>>

\* A gap met before the roots or now is reconciled; otherwise the windows up to
\* the target are read.
targetOldest ==
    /\ secPc = "TargetOldest"
    /\ LET s == [oldest |-> log.oldest,
                 newest |-> NewestRecord(log.oldest, secCount)]
           gap == AssessCheckpoint(secCurrent, s) # None
       IN  /\ secTarget' = s.newest
           /\ secGap' = IF secGap = None /\ gap THEN secCurrent ELSE secGap
           /\ secPc' = IF secGap' # None THEN "Gap" ELSE "Window"
    /\ secCount' = 0
    /\ UNCHANGED <<log, secCk, secFacts, oneShot, secCurrent, window, secRead,
                   rebases, secFirst, overwrites, secFaults>>

\* Mutant: a backlog beyond one window yields an empty window.
windowEndStuck(start) ==
    IF secTarget - start <= MaxSpan THEN secTarget ELSE start

nextConfiguredSecurityWindowEnd(start) ==
    IF secTarget - start <= MaxSpan THEN secTarget ELSE start + MaxSpan

\* Continuity is assessed again before the window is read.
beginWindow ==
    /\ secPc = "Window"
    /\ secCurrent <= secTarget
    /\ AssessCheckpoint(secCurrent, QueryLogState) = None
    /\ window' = [start |-> secCurrent,
                  end |-> nextConfiguredSecurityWindowEnd(secCurrent)]
    /\ secPc' = "Read"
    /\ UNCHANGED <<log, secCk, secFacts, oneShot, secCurrent, secTarget, secCount,
                   secGap, secRead, rebases, secFirst, overwrites, secFaults>>

\* The query returns the records of the window that the log holds.
ReadSelectedEvents ==
    /\ secPc = "Read"
    /\ secRead' = {e \in window.start + 1 .. window.end :
                     e \in log.oldest .. log.newest}
    /\ secPc' = "Spool"
    /\ UNCHANGED <<log, secCk, secFacts, oneShot, secCurrent, secTarget, secCount,
                   secGap, window, rebases, secFirst, overwrites, secFaults>>

\* Coverage and the selected events are finalized.
spoolWindow ==
    /\ secPc = "Spool"
    /\ secFacts' = secFacts \cup {EventFact(e) : e \in secRead}
    /\ secPc' = "Advance"
    /\ UNCHANGED <<log, secCk, secWork, rebases, secFirst, overwrites, secFaults>>

\* Back to waiting for the next run.
endRun ==
    /\ secPc' = "idle"
    /\ oneShot' = FALSE /\ secCurrent' = 0 /\ secTarget' = 0 /\ secCount' = 0
    /\ secGap' = None /\ window' = None /\ secRead' = {}

AdvanceCheckpoint ==
    /\ secPc = "Advance"
    /\ CanAdvance(window.start, window.end)
    /\ secCk' = window.end
    /\ \/ window.end = secTarget /\ endRun
       \/ /\ window.end # secTarget
          /\ secCurrent' = window.end
          /\ secPc' = "Window" /\ window' = None /\ secRead' = {}
          /\ UNCHANGED <<oneShot, secTarget, secCount, secGap>>
    /\ UNCHANGED <<log, secFacts, rebases, secFirst, overwrites, secFaults>>

\* The gap is finalized first.
writeWindowsSecurityContinuityGap ==
    /\ secPc = "Gap"
    /\ secFacts' = secFacts \cup {SecGapFact(secGap)}
    /\ secPc' = "Reconcile"
    /\ UNCHANGED <<log, secCk, secWork, rebases, secFirst, overwrites, secFaults>>

\* After snapshots of the roots and current coverage are finalized, the one-shot
\* run takes up the target it had fixed before them.
reconcileConfiguredSecurityGap ==
    /\ secPc = "Reconcile" /\ oneShot
    /\ InitializeCheckpoint(secTarget)
    /\ endRun
    /\ UNCHANGED <<log, secFacts, overwrites, secFaults>>

\* After current coverage is finalized, the service takes up a fresh head.
reconcileServiceWindowsSecurityGap ==
    /\ secPc = "Reconcile" /\ ~oneShot
    /\ InitializeCheckpoint(QueryLogState.newest)
    /\ endRun
    /\ UNCHANGED <<log, secFacts, overwrites, secFaults>>

\* Continuity changed during the catch-up: the run ends, the next one finds the
\* gap.
continuityChanged ==
    /\ secPc = "Window"
    /\ secCurrent > secTarget \/ AssessCheckpoint(secCurrent, QueryLogState) # None
    /\ endRun
    /\ UNCHANGED <<log, secCk, secFacts, rebases, secFirst, overwrites, secFaults>>

\* A call fails, or the process dies.
securityInterrupted ==
    /\ secPc # "idle" /\ secFaults < MaxSecFaults
    /\ \E kept \in {{}, secRead} :
          secFacts' = secFacts \cup {EventFact(e) : e \in kept}
    /\ endRun
    /\ secFaults' = secFaults + 1
    /\ UNCHANGED <<log, secCk, rebases, secFirst, overwrites>>
----------------------------------------------------------------------------
SecInit ==
    /\ log \in [oldest : {1}, newest : 0 .. 1]
    /\ secCk = None /\ secFacts = {} /\ rebases = {} /\ secFirst = None
    /\ secPc = "idle" /\ oneShot = FALSE /\ secCurrent = 0 /\ secTarget = 0
    /\ secCount = 0 /\ secGap = None /\ window = None /\ secRead = {}
    /\ overwrites = 0 /\ secFaults = 0

SecSteps ==
    \/ prepareConfiguredSecurity \/ targetCount \/ targetOldest
    \/ beginWindow \/ ReadSelectedEvents \/ spoolWindow \/ AdvanceCheckpoint
    \/ writeWindowsSecurityContinuityGap
    \/ reconcileConfiguredSecurityGap \/ reconcileServiceWindowsSecurityGap
    \/ continuityChanged

SecNext == LogChanges \/ SecSteps \/ securityInterrupted

SecSpec == SecInit /\ [][SecNext]_secVars

\* The worker never stops taking steps: it retries after every failed cycle.
SecFairSpec == SecSpec /\ WF_secVars(SecSteps)
----------------------------------------------------------------------------
(* Properties.                                                             *)

\* Types: the log is an interval of record numbers, and a gap joins two of them.
SecTypeOK ==
    /\ log.oldest \in 1 .. log.newest + 1 /\ log.newest \in Nat
    /\ secCk \in Nat \cup {None} /\ secFirst \in Nat \cup {None}
    /\ secCurrent \in Nat /\ secTarget \in Nat /\ secCount \in Nat
    /\ secGap \in Nat \cup {None}
    /\ rebases \subseteq Nat \X Nat


\* When the log is quiet and the faults are over the checkpoint reaches, and
\* stays at, the head of the log.
SecurityCatchesUp == <>[](secCk = QueryLogState.newest)
=============================================================================
