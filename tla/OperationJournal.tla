-------------------------- MODULE OperationJournal --------------------------
(***************************************************************************)
(* The append-only operation journal of one scope: Started and Finished    *)
(* entries of major operations and of the bounded reads nested in them,    *)
(* the resource tracker of a nested read, and the recovery of operations   *)
(* that an earlier process left without an end.  The wall clock stamps the *)
(* entries and may be set back.                                            *)
(***************************************************************************)
EXTENDS Sentinel, Integers, Sequences, FiniteSets, SequencesExt

CONSTANTS
    MaxOps,        \* bound on operations
    MaxClock,      \* bound on the wall clock
    MaxSetBacks,   \* bound on setting it back
    MaxOpFaults,   \* bound on failing appends and crashes
    TornAppends    \* whether a failing append may leave part of its line

ASSUME OperationAssumption ==
    /\ MaxOps \in Nat /\ MaxClock \in Nat /\ MaxSetBacks \in Nat
    /\ MaxOpFaults \in Nat /\ TornAppends \in BOOLEAN

VARIABLES
    opLog,      \* the journal's complete lines
    torn,       \* it also holds a line that does not parse
    opPc,       \* what the process is about to do
    parent,     \* its configured operation, as started
    child,      \* the bounded read or re-observation nested in it, as started
    sampling,   \* the nested operation's resource tracker is sampling
    resources,  \* operations with a resource summary
    nextOp,     \* fresh operation ID
    clock, setBacks, opFaults

opVars == <<opLog, torn, opPc, parent, child, sampling, resources, nextOp, clock,
            setBacks, opFaults>>

StartedEntry(op) == [event |-> "Started", id |-> op.id, at |-> op.at]
FinishedEntry(op, outcome) ==
    [event |-> "Finished", id |-> op.id, at |-> op.at, outcome |-> outcome]

Entries == Range(opLog)
StartedIDs == {e.id : e \in {x \in Entries : x.event = "Started"}}
FinishedIDs == {e.id : e \in {x \in Entries : x.event = "Finished"}}

\* A finished record is only valid if it does not end before it started.
CanFinish(op) == clock >= op.at
----------------------------------------------------------------------------
(* One process at a time works on the scope.                               *)

\* A line appended and flushed.
appendEntry(e) == opLog' = Append(opLog, e)

\* The journal is read and checked as a whole: every line parses, no operation
\* starts or finishes twice.
ReadAll ==
    /\ ~torn
    /\ \A i, j \in DOMAIN opLog :
          opLog[i].event = opLog[j].event /\ opLog[i].id = opLog[j].id => i = j


\* Mutant: only the last line is looked at.
lastUnfinished ==
    IF opLog # <<>> /\ Last(opLog).event = "Started" THEN <<Last(opLog)>> ELSE <<>>

\* The operations to be closed, oldest first.
Unfinished == SelectSeq(opLog, LAMBDA e : e.event = "Started"
                                             /\ e.id \notin FinishedIDs)

\* One Started entry without an end is closed as Interrupted; it cannot be
\* while the clock is behind it.
RecoverInterrupted ==
    /\ opPc = "Recover" /\ ReadAll /\ Unfinished # <<>>
    /\ CanFinish(Head(Unfinished))
    /\ appendEntry(FinishedEntry(Head(Unfinished), "Interrupted"))
    /\ UNCHANGED <<torn, opPc, parent, child, sampling, resources, nextOp, clock,
                   setBacks, opFaults>>

recoverConfiguredOperations ==
    /\ opPc = "Recover" /\ ReadAll /\ Unfinished = <<>>
    /\ opPc' = "Ready"
    /\ UNCHANGED <<opLog, torn, parent, child, sampling, resources, nextOp, clock,
                   setBacks, opFaults>>

\* The journal cannot be read, or an operation not be closed: the caller fails.
recoveryFails ==
    /\ opPc = "Recover"
    /\ ~ReadAll \/ (Unfinished # <<>> /\ ~CanFinish(Head(Unfinished)))
    /\ opPc' = "idle"
    /\ UNCHANGED <<opLog, torn, parent, child, sampling, resources, nextOp, clock,
                   setBacks, opFaults>>

\* The configured lane recovers first; the USN lane does not.
beginWork ==
    /\ opPc = "idle"
    /\ opPc' \in {"Recover", "Ready"}
    /\ UNCHANGED <<opLog, torn, parent, child, sampling, resources, nextOp, clock,
                   setBacks, opFaults>>

\* The checkpoint cannot be assessed, or leaves this lane nothing to do.
noOperation ==
    /\ opPc = "Ready"
    /\ opPc' = "idle"
    /\ UNCHANGED <<opLog, torn, parent, child, sampling, resources, nextOp, clock,
                   setBacks, opFaults>>

\* A configured operation starts once its Started entry is durable.
runConfiguredOperation ==
    /\ opPc = "Ready" /\ nextOp <= MaxOps
    /\ parent' = [id |-> nextOp, at |-> clock]
    /\ appendEntry(StartedEntry(parent'))
    /\ nextOp' = nextOp + 1
    /\ opPc' = "Body"
    /\ UNCHANGED <<torn, child, sampling, resources, clock, setBacks, opFaults>>

\* Mutant: the nested read recovers the journal first.
recoverBeforeNested ==
    /\ opPc = "Body" /\ nextOp <= MaxOps
    /\ child' = [id |-> nextOp, at |-> clock]
    /\ opLog' = opLog \o <<FinishedEntry(parent, "Interrupted"), StartedEntry(child')>>
    /\ nextOp' = nextOp + 1
    /\ sampling' = TRUE
    /\ opPc' = "Nested"
    /\ UNCHANGED <<torn, parent, resources, clock, setBacks, opFaults>>

\* Within it a bounded read starts, without recovery of its own: that would
\* close the live parent.
ReadAndReobserveJournaled ==
    /\ opPc = "Body" /\ nextOp <= MaxOps
    /\ child' = [id |-> nextOp, at |-> clock]
    /\ appendEntry(StartedEntry(child'))
    /\ nextOp' = nextOp + 1
    /\ sampling' = TRUE
    /\ opPc' = "Nested"
    /\ UNCHANGED <<torn, parent, resources, clock, setBacks, opFaults>>

\* The tracker's loop ends at its first sample that cannot be recorded.
sampleLoop ==
    /\ sampling /\ opFaults < MaxOpFaults
    /\ sampling' = FALSE
    /\ opFaults' = opFaults + 1
    /\ UNCHANGED <<opLog, torn, opPc, parent, child, resources, nextOp, clock, setBacks>>

\* It is stopped and summarised before the nested operation's end is recorded; a
\* sample that failed fails the nested work after it.
finishNested(outcome) ==
    /\ opPc = "Nested" /\ CanFinish(child)
    /\ resources' = resources \cup {child.id}
    /\ sampling' = FALSE
    /\ appendEntry(FinishedEntry(child, outcome))
    /\ child' = None
    /\ opPc' = IF outcome = "Complete" /\ sampling THEN "Body" ELSE "Failing"
    /\ UNCHANGED <<torn, parent, nextOp, clock, setBacks, opFaults>>

FinishNested == \E outcome \in {"Complete", "Failed"} : finishNested(outcome)

\* The body has returned; the operation's end is recorded.
finishConfiguredOperation ==
    /\ opPc \in {"Body", "Failing"} /\ CanFinish(parent)
    /\ appendEntry(FinishedEntry(parent,
                      IF opPc = "Body" THEN "Complete" ELSE "Failed"))
    /\ parent' = None
    /\ opPc' = "idle"
    /\ UNCHANGED <<torn, child, sampling, resources, nextOp, clock, setBacks, opFaults>>

\* The clock is behind the start: there is no valid end to record, and none is.
finishInvalid ==
    \/ /\ opPc = "Nested" /\ ~CanFinish(child)
       /\ resources' = resources \cup {child.id}
       /\ child' = None /\ sampling' = FALSE /\ opPc' = "Failing"
       /\ UNCHANGED <<opLog, torn, parent, nextOp, clock, setBacks, opFaults>>
    \/ /\ opPc \in {"Body", "Failing"} /\ ~CanFinish(parent)
       /\ parent' = None /\ opPc' = "idle"
       /\ UNCHANGED <<opLog, torn, child, sampling, resources, nextOp, clock,
                      setBacks, opFaults>>
----------------------------------------------------------------------------
\* An append fails, possibly with part of its line written, or the process dies.
opInterrupted ==
    /\ opPc # "idle" /\ opFaults < MaxOpFaults
    /\ torn' \in (IF TornAppends THEN {torn, TRUE} ELSE {torn})
    /\ opPc' = "idle" /\ parent' = None /\ child' = None /\ sampling' = FALSE
    /\ opFaults' = opFaults + 1
    /\ UNCHANGED <<opLog, resources, nextOp, clock, setBacks>>

ClockTicks == /\ clock < MaxClock /\ clock' = clock + 1
              /\ UNCHANGED <<opLog, torn, opPc, parent, child, sampling, resources,
                             nextOp, setBacks, opFaults>>

ClockSetBack == /\ clock > 0 /\ setBacks < MaxSetBacks
                /\ clock' \in 0 .. clock - 1 /\ setBacks' = setBacks + 1
                /\ UNCHANGED <<opLog, torn, opPc, parent, child, sampling, resources,
                               nextOp, opFaults>>

OpInit ==
    /\ opLog = <<>> /\ torn = FALSE /\ opPc = "idle" /\ parent = None /\ child = None
    /\ sampling = FALSE /\ resources = {} /\ nextOp = 1
    /\ clock = 0 /\ setBacks = 0 /\ opFaults = 0

OpSteps ==
    \/ beginWork \/ RecoverInterrupted \/ recoverConfiguredOperations \/ recoveryFails
    \/ noOperation \/ runConfiguredOperation \/ ReadAndReobserveJournaled
    \/ FinishNested \/ finishConfiguredOperation \/ finishInvalid

\* The lane that recovers comes round for ever.
RecoveryLane == (opPc = "idle" /\ beginWork /\ opPc' = "Recover")
                   \/ RecoverInterrupted

\* A body does not stay for ever without returning.
BodyReturns == \/ FinishNested \/ finishConfiguredOperation \/ finishInvalid
               \/ recoverConfiguredOperations \/ recoveryFails \/ noOperation

OpNext == OpSteps \/ sampleLoop \/ opInterrupted \/ ClockTicks \/ ClockSetBack

OpSpec == OpInit /\ [][OpNext]_opVars

OpFairSpec ==
    /\ OpSpec /\ WF_opVars(ClockTicks)
    /\ SF_opVars(RecoveryLane) /\ WF_opVars(BodyReturns)
----------------------------------------------------------------------------
(* Properties.                                                             *)

\* Types: at most one operation and one nested in it are open, with identifiers
\* that were handed out.
OpTypeOK ==
    /\ torn \in BOOLEAN /\ sampling \in BOOLEAN
    /\ opPc \in {"idle", "Recover", "Ready", "Body", "Nested", "Failing"}
    /\ parent \in [id : 1 .. MaxOps, at : 0 .. MaxClock] \cup {None}
    /\ child \in [id : 1 .. MaxOps, at : 0 .. MaxClock] \cup {None}
    /\ nextOp \in 1 .. MaxOps + 1

\* An operation that is under way has not been closed: recovery never mistakes
\* the live parent of nested work for one that a dead process left.
LiveNotClosed ==
    \A op \in {parent, child} \ {None} : op.id \in StartedIDs \ FinishedIDs

\* What the process writes, recovery can read: no operation starts or finishes
\* twice, however crashes, failed appends and recoveries follow on each other.
JournalConsistent == torn \/ ReadAll

\* Every operation in the journal is eventually closed, once the clock is past
\* its start again.
StartedIsFinished ==
    \A i \in 1 .. MaxOps : i \in StartedIDs ~> i \in FinishedIDs
=============================================================================
