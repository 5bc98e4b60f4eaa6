------------------------------ MODULE UsnLane ------------------------------
(***************************************************************************)
(* Collection of one governed root by the Windows collector: the baseline  *)
(* with its pre-baseline USN anchor, bounded USN catch-up with fresh       *)
(* re-observation, the durable USN checkpoint, continuity gaps, the host   *)
(* state of relevant SIDs.  The configured-root lane and the independent   *)
(* USN lane share the root through its lock, so one of them works on it at *)
(* a time; NTFS and its change journal move on beside it.                  *)
(*                                                                         *)
(* The spool is the set of facts in its finalized batches (how a batch is  *)
(* finalized is the subject of SpoolPublication).                          *)
(***************************************************************************)
EXTENDS Sentinel, Integers, FiniteSets, Sequences, TLC

CONSTANTS
    Objects,      \* NTFS objects that may be in the governed root
    DomainSIDs,   \* objects whose descriptors hold a SID of the machine's domain,
                  \* and SIDs of the domain that only other roots hold
    MaxSIDs,      \* supportingstate.MaxSIDs
    MaxRead,      \* USN records one bounded read returns
    MaxChanges,   \* bound on changes to objects
    MaxTrims,     \* bound on journal trims, journal and root replacements
    MaxUsnFaults  \* bound on failing steps and crashes

ASSUME UsnAssumption ==
    /\ IsFiniteSet(Objects) /\ IsFiniteSet(DomainSIDs) /\ MaxSIDs \in Nat
    /\ MaxRead \in Nat \ {0}
    /\ MaxChanges \in Nat /\ MaxTrims \in Nat /\ MaxUsnFaults \in Nat
    /\ None \notin Objects

VARIABLES
    objs,      \* where each object is, and its last change
    root,      \* NTFS identity of the directory at the governed path
    journal,   \* the volume's USN journal
    hist,      \* every change to an object, in order
    usnCk,     \* the checkpoint file
    usnFacts,  \* facts in finalized batches
    sids,      \* relevant SIDs of the supporting state
    usnPc,     \* what the holder of the root's lock is about to do
    usnTarget, \* where its catch-up ends
    anchor,    \* pre-baseline root identity and journal position
    unvisited, \* objects still to be visited
    collected, \* facts collected and not yet finalized
    usnBatch,  \* the bounded read being processed
    baselines, \* how many changes had happened when the first and the latest
               \* accepted baseline were anchored
    trims, usnFaults

ntfsVars == <<objs, root, journal, hist, trims>>
usnDurable == <<usnCk, usnFacts, sids>>
usnWork == <<usnTarget, anchor, unvisited, collected, usnBatch>>
usnVars == <<objs, root, journal, hist, usnCk, usnFacts, sids, usnPc, usnTarget,
             anchor, unvisited, collected, usnBatch, baselines, trims, usnFaults>>

\* A change of hist: the object, the journal and USN of its record, and whether
\* a recorded parent is the governed root.
UsnChange == [obj : Objects, jid : Nat, usn : Nat, inRoot : BOOLEAN]

\* What a spooled record says: a USN record; the state of an object as of a
\* change (ok = FALSE: it could not be collected); a continuity gap, with the
\* checkpoint it follows.
ChangeFact(n) == [kind |-> "Change", change |-> n]
StateFact(o, n, ok) == [kind |-> "State", obj |-> o, at |-> n, ok |-> ok]
GapFact(c) == [kind |-> "Gap", after |-> c]

UsnChanges == DOMAIN hist
InRoot == {o \in Objects : objs[o].place = "in"}
----------------------------------------------------------------------------
(* The USN checkpoint.                                                     *)

UsnCheckpoint(r, j, n) == [root |-> r, jid |-> j, next |-> n]

\* Reason code of a continuity gap, None when the checkpoint is continuous.
UsnAssess(c, r, j) ==
    CASE c.root # r        -> "GovernedRootObjectChanged"
      [] c.jid # j.id      -> "USNJournalReplaced"
      [] c.next < j.first  -> "CheckpointBeforeFirstUSN"
      [] c.next < j.lowest -> "CheckpointBeforeLowestValidUSN"
      [] c.next > j.next   -> "CheckpointAheadOfJournal"
      [] OTHER             -> None

UsnContinuous == UsnAssess(usnCk, root, journal) = None

\* The bounded read belongs to the checkpoint's journal, starts at its position
\* and does not end before it.
validateUSNNextBatch(c, b) ==
    /\ b.jid = c.jid
    /\ b.start = c.next
    /\ b.next >= b.start
----------------------------------------------------------------------------
(* NTFS and its change journal: any program on the host.                   *)

\* The change object o makes when it goes from place p to place q.
Record(o, p, q) == [obj |-> o, jid |-> journal.id, usn |-> journal.next,
                    inRoot |-> "in" \in {p, q}]

\* An object is created, written, renamed across the root's boundary, or deleted.
ObjectChanges(o) ==
    /\ Len(hist) < MaxChanges
    /\ \E q \in {"in", "out", "gone"} :
          /\ objs[o].place # "gone" \/ q # "gone"
          /\ hist' = Append(hist, Record(o, objs[o].place, q))
          /\ objs' = [objs EXCEPT ![o] = [place |-> q, last |-> Len(hist) + 1]]
    /\ journal' = [journal EXCEPT !.next = @ + 1]
    /\ UNCHANGED <<root, trims>>

\* The journal discards its oldest records; its lowest valid USN may follow.
JournalTrims ==
    /\ trims < MaxTrims
    /\ \E n \in journal.first + 1 .. journal.next, low \in BOOLEAN :
          journal' = [journal EXCEPT !.first = n, !.lowest = IF low THEN n ELSE @]
    /\ trims' = trims + 1
    /\ UNCHANGED <<objs, root, hist>>

\* The journal is deleted and created again.
JournalReplaced ==
    /\ trims < MaxTrims
    /\ journal' = [id |-> journal.id + 1, first |-> 0, lowest |-> 0, next |-> 0]
    /\ trims' = trims + 1
    /\ UNCHANGED <<objs, root, hist>>

\* Another directory takes the governed path.  What was below the old one goes
\* with it and what is below the new one comes, without records of their own.
RootReplaced ==
    /\ trims < MaxTrims
    /\ root' = root + 1
    /\ \E below \in SUBSET {o \in Objects : objs[o].place = "out"} :
          objs' = [o \in Objects |->
                     [objs[o] EXCEPT !.place = CASE @ = "in"     -> "out"
                                                 [] o \in below -> "in"
                                                 [] OTHER       -> @]]
    /\ trims' = trims + 1
    /\ UNCHANGED <<journal, hist>>

HostChanges ==
    /\ \/ \E o \in Objects : ObjectChanges(o)
       \/ JournalTrims \/ JournalReplaced \/ RootReplaced
    /\ UNCHANGED <<usnDurable, usnPc, usnWork, baselines, usnFaults>>
----------------------------------------------------------------------------
(* A lane takes the root's lock.                                           *)

\* The lock is released.
releaseRoot ==
    /\ usnPc' = "idle"
    /\ usnTarget' = 0 /\ anchor' = None /\ usnBatch' = None
    /\ unvisited' = {} /\ collected' = {}

\* Mutant: a checkpoint that is not continuous is replaced without a gap
\* record.
baselineWithoutGap ==
    /\ usnPc = "idle"
    /\ usnPc' = CASE usnCk = None  -> "Baseline"
                  [] UsnContinuous -> "Pass"
                  [] OTHER         -> "Baseline"
    /\ usnTarget' = journal.next
    /\ UNCHANGED <<anchor, unvisited, collected, usnBatch, usnDurable, ntfsVars,
                   baselines, usnFaults>>

\* The configured-root lane has waited for the lock.
writeConfiguredRoot ==
    /\ usnPc = "idle"
    /\ usnPc' = CASE usnCk = None  -> "Baseline"
                  [] UsnContinuous -> "Pass"
                  [] OTHER         -> "Gap"
    /\ usnTarget' = journal.next
    /\ UNCHANGED <<anchor, unvisited, collected, usnBatch, usnDurable, ntfsVars,
                   baselines, usnFaults>>

\* The USN lane only tries the lock, and has work only under a continuous
\* checkpoint that is behind the journal.
writeServiceUSNRoot ==
    /\ usnPc = "idle"
    /\ usnCk # None /\ UsnContinuous /\ usnCk.next < journal.next
    /\ usnPc' = "Pass"
    /\ usnTarget' = journal.next
    /\ UNCHANGED <<anchor, unvisited, collected, usnBatch, usnDurable, ntfsVars,
                   baselines, usnFaults>>

\* The gap record is finalized before the reconciliation baseline begins.  It
\* repeats the assessment the lane decided on: the gap cannot heal.
writeUSNContinuityGap ==
    /\ usnPc = "Gap"
    /\ usnFacts' = usnFacts \cup {GapFact(usnCk)}
    /\ usnPc' = "Reconciliation"
    /\ UNCHANGED <<usnCk, sids, usnWork, ntfsVars, baselines, usnFaults>>
----------------------------------------------------------------------------
(* Baseline.                                                               *)

\* The root's identity and the journal's position are taken before the walk.
captureBaselineAnchor ==
    /\ usnPc \in {"Baseline", "Reconciliation"}
    /\ anchor' = [ck |-> UsnCheckpoint(root, journal.id, journal.next),
                  at |-> Len(hist)]
    /\ unvisited' = Objects
    /\ collected' = {}
    /\ usnPc' = "Walk"
    /\ UNCHANGED <<usnTarget, usnBatch, usnDurable, ntfsVars, baselines, usnFaults>>

\* The walk visits one object; what is not in the root is not met.
walkSpoolRoot ==
    /\ usnPc = "Walk"
    /\ \E o \in unvisited :
          /\ unvisited' = unvisited \ {o}
          /\ collected' = collected \cup
                {StateFact(p, objs[p].last, TRUE) : p \in {o} \cap InRoot}
    /\ UNCHANGED <<usnPc, usnTarget, anchor, usnBatch, usnDurable,
                   ntfsVars, baselines, usnFaults>>

\* A member that cannot be collected, or not hashed, is recorded as such and the
\* walk goes on.
walkCollectionError ==
    /\ usnPc = "Walk" /\ usnFaults < MaxUsnFaults
    /\ \E o \in unvisited \cap InRoot :
          /\ unvisited' = unvisited \ {o}
          /\ collected' = collected \cup {StateFact(o, objs[o].last, FALSE)}
    /\ usnFaults' = usnFaults + 1
    /\ UNCHANGED <<usnPc, usnTarget, anchor, usnBatch, usnDurable,
                   ntfsVars, baselines>>

\* The writer is closed: what the walk collected is finalized.
closeSpoolRoot ==
    /\ usnPc = "Walk" /\ unvisited = {}
    /\ usnFacts' = usnFacts \cup collected
    /\ usnPc' = "BaselineSIDs"
    /\ UNCHANGED <<usnCk, sids, usnWork, ntfsVars, baselines, usnFaults>>

\* SIDs of the collected observations that are of the machine's domain.
ObservedSIDs ==
    {f.obj : f \in {g \in collected : g.kind = "State" /\ g.ok}} \cap DomainSIDs

\* The set is bounded, and an update beyond the bound is refused.
SIDsFit == Cardinality(sids \cup ObservedSIDs) <= MaxSIDs

mergeSupportingSIDState == SIDsFit /\ sids' = sids \cup ObservedSIDs

saveSupportingSIDState ==
    /\ usnPc = "BaselineSIDs"
    /\ mergeSupportingSIDState
    /\ usnPc' = "InitCheckpoint"
    /\ UNCHANGED <<usnCk, usnFacts, usnWork, ntfsVars, baselines, usnFaults>>

\* The baseline holds no collection error, and at least the root's observation.
validateBaselineSpoolForCheckpoint == \A f \in collected : f.ok

\* Mutant: the checkpoint starts where the journal is after the walk.
prepareCheckpointFromHead ==
    /\ usnPc = "InitCheckpoint"
    /\ validateBaselineSpoolForCheckpoint
    /\ UsnAssess(anchor.ck, root, journal) = None
    /\ usnCk' = UsnCheckpoint(root, journal.id, journal.next)
    /\ usnTarget' = journal.next
    /\ usnPc' = "Pass"
    /\ baselines' = [first  |-> IF baselines = None THEN Len(hist)
                                                    ELSE baselines.first,
                     latest |-> Len(hist)]
    /\ UNCHANGED <<anchor, unvisited, collected, usnBatch, usnFacts, sids, ntfsVars,
                   usnFaults>>

\* The checkpoint starts at the anchor, if the journal still continues it.
prepareCheckpointFromBaselineAnchor ==
    /\ usnPc = "InitCheckpoint"
    /\ validateBaselineSpoolForCheckpoint
    /\ UsnAssess(anchor.ck, root, journal) = None
    /\ usnCk' = anchor.ck
    /\ usnTarget' = journal.next
    /\ usnPc' = "Pass"
    /\ baselines' = [first  |-> IF baselines = None THEN anchor.at
                                                    ELSE baselines.first,
                     latest |-> anchor.at]
    /\ UNCHANGED <<anchor, unvisited, collected, usnBatch, usnFacts, sids, ntfsVars,
                   usnFaults>>
----------------------------------------------------------------------------
(* Catch-up: bounded passes up to the target.                              *)

\* The catch-up ends at its target; the lock is released.
catchUpDone ==
    /\ usnPc = "Pass"
    /\ usnCk.next >= usnTarget
    /\ releaseRoot
    /\ UNCHANGED <<usnDurable, ntfsVars, baselines, usnFaults>>

\* The records of the current journal from USN n on.
RecordsFrom(n) == {i \in UsnChanges : hist[i].jid = journal.id /\ hist[i].usn >= n}

\* One bounded read at the checkpoint.
ReadJournal ==
    /\ usnPc = "Pass"
    /\ usnCk.next < usnTarget
    /\ UsnContinuous
    /\ LET end == IF journal.next - usnCk.next > MaxRead
                  THEN usnCk.next + MaxRead ELSE journal.next
           read == {i \in RecordsFrom(usnCk.next) : hist[i].usn < end}
       IN  /\ usnBatch' = [jid |-> journal.id, start |-> usnCk.next, next |-> end,
                           records |-> read]
           /\ unvisited' = {hist[i].obj : i \in read}
    /\ collected' = {}
    /\ usnPc' = "Reobserve"
    /\ UNCHANGED <<usnTarget, anchor, usnDurable, ntfsVars, baselines, usnFaults>>

RecordsOf(o) == {i \in usnBatch.records : hist[i].obj = o}

\* Mutant: an object that is no longer in the root is not selected by its
\* recorded parents.
selectOnlyObserved(o, status) == status = "Observed"

\* An object that is in the root is selected; any other by a recorded parent.
selectUSNObject(o, status) ==
    \/ status = "Observed"
    \/ \E i \in RecordsOf(o) : hist[i].inRoot

\* The record of a selected object holds its USN records of the batch and its
\* state; any other object is ignored.
ObjectFacts(o, status) ==
    IF ~selectUSNObject(o, status) THEN {} ELSE
       {ChangeFact(i) : i \in RecordsOf(o)}
          \cup {StateFact(o, objs[o].last, ok) :
                  ok \in {b \in BOOLEAN : status = IF b THEN "Observed" ELSE "Error"}}

\* A distinct object of the batch is observed afresh, by its file reference.
ReobserveBatch ==
    /\ usnPc = "Reobserve"
    /\ \E o \in unvisited :
          LET status == CASE objs[o].place = "in"  -> "Observed"
                          [] objs[o].place = "out" -> "OutsideGovernedRoot"
                          [] OTHER                 -> "Unavailable"
          IN  /\ unvisited' = unvisited \ {o}
              /\ collected' = collected \cup ObjectFacts(o, status)
    /\ UNCHANGED <<usnPc, usnTarget, anchor, usnBatch, usnDurable,
                   ntfsVars, baselines, usnFaults>>

\* The re-observation fails; the failure is a fact about the object.
ReobservationError ==
    /\ usnPc = "Reobserve" /\ usnFaults < MaxUsnFaults
    /\ \E o \in unvisited :
          /\ unvisited' = unvisited \ {o}
          /\ collected' = collected \cup ObjectFacts(o, "Error")
    /\ usnFaults' = usnFaults + 1
    /\ UNCHANGED <<usnPc, usnTarget, anchor, usnBatch, usnDurable,
                   ntfsVars, baselines>>

\* Mutant: the observed SIDs are not merged.
spoolWithoutSIDs ==
    /\ usnPc = "Reobserve" /\ unvisited = {}
    /\ usnFacts' = usnFacts \cup collected
    /\ usnPc' = "Advance"
    /\ UNCHANGED <<usnCk, sids, usnWork, ntfsVars, baselines, usnFaults>>

\* The read boundary and the selected objects are finalized; with none selected
\* nothing is spooled.
spoolUSNObjects ==
    /\ usnPc = "Reobserve" /\ unvisited = {}
    /\ usnFacts' = usnFacts \cup collected
    /\ usnPc' = IF collected = {} THEN "Advance" ELSE "MergeSIDs"
    /\ UNCHANGED <<usnCk, sids, usnWork, ntfsVars, baselines, usnFaults>>

mergeUSNObservedSIDs ==
    /\ usnPc = "MergeSIDs"
    /\ mergeSupportingSIDState
    /\ usnPc' = "Advance"
    /\ UNCHANGED <<usnCk, usnFacts, usnWork, ntfsVars, baselines, usnFaults>>

\* Mutant: the checkpoint is set to where the batch starts.
advanceToStart ==
    /\ usnPc = "Advance"
    /\ UsnContinuous
    /\ validateUSNNextBatch(usnCk, usnBatch)
    /\ usnCk' = [usnCk EXCEPT !.next = usnBatch.start]
    /\ usnPc' = "Pass"
    /\ UNCHANGED <<usnFacts, sids, usnWork, ntfsVars, baselines, usnFaults>>

\* Continuity is assessed again before the checkpoint moves to the batch's end.
advanceUSNAfterScopeDecision ==
    /\ usnPc = "Advance"
    /\ UsnContinuous
    /\ validateUSNNextBatch(usnCk, usnBatch)
    /\ usnCk' = [usnCk EXCEPT !.next = usnBatch.next]
    /\ usnPc' = "Pass"
    /\ UNCHANGED <<usnFacts, sids, usnWork, ntfsVars, baselines, usnFaults>>
----------------------------------------------------------------------------
(* Failures.                                                               *)

\* A check refuses: the SIDs do not fit, the baseline is incomplete or its
\* anchor was overtaken, continuity was lost during the work.
UsnRefused ==
    \/ usnPc \in {"BaselineSIDs", "MergeSIDs"} /\ ~SIDsFit
    \/ /\ usnPc = "InitCheckpoint"
       /\ ~validateBaselineSpoolForCheckpoint
             \/ UsnAssess(anchor.ck, root, journal) # None
    \/ usnPc = "Pass" /\ usnCk.next < usnTarget /\ ~UsnContinuous
    \/ usnPc = "Advance" /\ ~(UsnContinuous /\ validateUSNNextBatch(usnCk, usnBatch))

UsnFailRefused ==
    /\ UsnRefused
    /\ releaseRoot
    /\ UNCHANGED <<usnDurable, ntfsVars, baselines, usnFaults>>

\* A call fails, or the process dies.  What the writer had accepted is finalized
\* when the call returns, or was in a batch that was full; or it is not.
UsnInterrupted ==
    /\ usnPc # "idle" /\ usnFaults < MaxUsnFaults
    /\ \E kept \in {{}, collected} : usnFacts' = usnFacts \cup kept
    /\ releaseRoot
    /\ usnFaults' = usnFaults + 1
    /\ UNCHANGED <<usnCk, sids, ntfsVars, baselines>>
----------------------------------------------------------------------------
UsnInit ==
    /\ objs \in [Objects -> [place : {"in", "out"}, last : {0}]]
    /\ root = 1
    /\ journal = [id |-> 1, first |-> 0, lowest |-> 0, next |-> 0]
    /\ hist = <<>>
    /\ usnCk = None /\ usnFacts = {} /\ baselines = None
    /\ sids \in SUBSET (DomainSIDs \ Objects)
    /\ usnPc = "idle" /\ usnTarget = 0 /\ anchor = None /\ usnBatch = None
    /\ unvisited = {} /\ collected = {}
    /\ trims = 0 /\ usnFaults = 0

UsnSteps ==
    \/ writeConfiguredRoot \/ writeServiceUSNRoot \/ writeUSNContinuityGap
    \/ captureBaselineAnchor \/ walkSpoolRoot \/ closeSpoolRoot
    \/ saveSupportingSIDState \/ prepareCheckpointFromBaselineAnchor
    \/ catchUpDone \/ ReadJournal \/ ReobserveBatch
    \/ spoolUSNObjects \/ mergeUSNObservedSIDs \/ advanceUSNAfterScopeDecision
    \/ UsnFailRefused

UsnFaults == walkCollectionError \/ ReobservationError \/ UsnInterrupted

UsnNext == HostChanges \/ UsnSteps \/ UsnFaults

UsnSpec == UsnInit /\ [][UsnNext]_usnVars

\* The service runs its cycles for ever: each lane's step is eventually taken.
UsnFairSpec == UsnSpec /\ WF_usnVars(UsnSteps)
----------------------------------------------------------------------------
(* Properties.                                                             *)

\* Types: an object's last change is one of the history, and only SIDs of the
\* domain are retained.
UsnTypeOK ==
    /\ objs \in [Objects -> [place : {"in", "out", "gone"}, last : 0 .. Len(hist)]]
    /\ root \in Nat
    /\ baselines \in [first : Nat, latest : Nat] \cup {None}
    /\ journal \in [id : Nat, first : Nat, lowest : Nat, next : Nat]
    /\ hist \in Seq(UsnChange)
    /\ usnCk \in [root : Nat, jid : Nat, next : Nat] \cup {None}
    /\ sids \subseteq DomainSIDs
    /\ unvisited \subseteq Objects

\* The checkpoint has gone past change n.
UsnPassed(n) ==
    /\ usnCk # None
    /\ \/ hist[n].jid < usnCk.jid
       \/ hist[n].jid = usnCk.jid /\ hist[n].usn < usnCk.next

\* A finalized gap record covers change n: it lies between the checkpoint the
\* gap follows and the anchor of the baseline accepted since.
InGap(n) ==
    /\ n <= baselines.latest
    /\ \E f \in usnFacts :
          /\ f.kind = "Gap"
          /\ \/ hist[n].jid > f.after.jid
             \/ hist[n].jid = f.after.jid /\ hist[n].usn >= f.after.next

\* A change in the governed root that the checkpoint has passed, and that came
\* after the first accepted baseline was anchored, is in the spool as a USN
\* record or lies in the interval of a spooled continuity gap: whatever trims,
\* replacements, failures and crashes happened, no interval of the root's
\* history is skipped silently.
NoSilentSkip ==
    \A n \in UsnChanges :
       baselines # None /\ n > baselines.first /\ hist[n].inRoot /\ UsnPassed(n) =>
          ChangeFact(n) \in usnFacts \/ InGap(n)

\* Object o is in the root, and the checkpoint has passed all its changes.
Settled(o) ==
    /\ usnCk # None /\ objs[o].place = "in" /\ usnCk.root = root
    /\ \A n \in UsnChanges : hist[n].obj = o => UsnPassed(n)

\* When the checkpoint has passed every change of an object that is in the
\* root, the spool holds the object's current state, or says that it could not
\* be collected: the anchor is taken before the walk, and a re-observation comes
\* after the read of the record that caused it.
KnowsLatest ==
    \A o \in Objects :
       Settled(o) => \E ok \in BOOLEAN : StateFact(o, objs[o].last, ok) \in usnFacts

\* When the checkpoint has passed every change of an object in the root and the
\* spool holds its current state, the SIDs of its descriptor are in the
\* supporting state, unless a later attempt to collect it failed: the directory
\* lookup that comes later does not miss a principal of a governed descriptor.
SIDsRetained ==
    \A o \in DomainSIDs \cap Objects :
       /\ Settled(o)
       /\ StateFact(o, objs[o].last, FALSE) \notin usnFacts
       => o \in sids

\* The checkpoint never moves backwards in a journal, and moves to another
\* journal or root only after a gap that follows the old checkpoint is finalized.
CheckpointForward ==
    usnCk # None /\ usnCk' # usnCk =>
       \/ /\ usnCk'.jid = usnCk.jid /\ usnCk'.root = usnCk.root
          /\ usnCk'.next >= usnCk.next
       \/ \E f \in usnFacts : f.kind = "Gap" /\ f.after = usnCk

\* Once the host is quiet and the faults are over, the lanes bring the
\* checkpoint to the end of the journal, under a continuous checkpoint.
CatchesUp ==
    Cardinality(DomainSIDs) <= MaxSIDs =>
       <>[](usnCk # None /\ UsnContinuous /\ usnCk.next = journal.next)
=============================================================================
