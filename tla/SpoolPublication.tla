-------------------------- MODULE SpoolPublication --------------------------
(***************************************************************************)
(* The local FI spool: collector writers that publish data/manifest pairs, *)
(* the publication boundary (one host-wide exclusive lock), the recovery a *)
(* collector runs when it starts, and the sender's rollover that freezes   *)
(* the whole active spool directory into a raw generation.                 *)
(*                                                                         *)
(* A batch is two files that move by rename and are never copied, so each  *)
(* file has one place: data[b] and man[b].  A frozen generation is itself  *)
(* a place, named by its generation ID.  Every rename is one step, may     *)
(* fail, and may be the last step of a process that dies.                  *)
(***************************************************************************)
EXTENDS FiniteSets, Naturals

CONSTANTS
    Writers,   \* spool writers of the collector process (one per lane)
    Batches,   \* batch IDs
    Gens,      \* generation IDs
    None,      \* no batch, no generation
    Modes,     \* how the collector starts: a subset of {"service", "oneshot"}
    Faults     \* which faults happen: a subset of FaultKinds

FaultKinds == {"collectorCrash", "senderCrash", "collectorIO", "senderIO"}

DataFixed == {"none", "open", "work", "spool", "quarantine", "interrupted"}
ManFixed == {"none", "partial", "temp", "work", "spool", "quarantine"}

ASSUME ConstantsAssumption ==
    /\ None \notin Batches \cup Gens
    /\ Gens \cap (DataFixed \cup ManFixed) = {}
    /\ Writers \cap {"free", "recovery", "sender"} = {}
    /\ Modes \subseteq {"service", "oneshot"}
    /\ Faults \subseteq FaultKinds

VARIABLES
    data,       \* place of the data file of each batch
    man,        \* place of the manifest file of each batch
    reported,   \* batches a writer has listed in FinalizedBatches
    wst,        \* control state of each writer
    wbatch,     \* the current or pending batch of each writer
    lock,       \* holder of the publication boundary
    collector,  \* "down", "preserving", a recovery phase, or "up"
    rbatch,     \* the unstarted publication recovery is completing
    orphans,    \* one-shot start: orphan data seen by the directory scan
    litter,     \* the active spool contains the "interrupted" directory
    spool,      \* the active spool directory exists
    next,       \* replacement directories .fi-spool-next-<generation>
    raw,        \* raw generation directories that exist
    sealed,     \* batches in the sealed transport generation of each ID
    sender,     \* "down" or "up"
    roll,       \* control state of the sender's rollover
    rgen        \* the generation being rolled over

files == <<data, man>>
writerVars == <<wst, wbatch, reported>>
collectorVars == <<collector, rbatch, orphans, litter>>
senderVars == <<next, raw, sealed, sender, roll, rgen>>
vars == <<data, man, reported, wst, wbatch, lock, collector, rbatch, orphans,
          litter, spool, next, raw, sealed, sender, roll, rgen>>

RecoveryPhases == {"prepared", "salvage", "preparedAgain", "quarantine"}
Pending == {"synced", "prepared", "writingManifest", "ready"}
Locked == {"locked", "dataOut", "rollback", "committed"}
WriterStates == {"closed", "idle", "empty", "writing"} \cup Pending \cup Locked
Rolling == {"locked", "checked", "next", "frozen", "unwind"}

TypeOK ==
    /\ data \in [Batches -> DataFixed \cup Gens]
    /\ man \in [Batches -> ManFixed \cup Gens]
    /\ reported \subseteq Batches
    /\ wst \in [Writers -> WriterStates]
    /\ wbatch \in [Writers -> Batches \cup {None}]
    /\ lock \in Writers \cup {"free", "recovery", "sender"}
    /\ collector \in {"down", "preserving", "up"} \cup RecoveryPhases
    /\ rbatch \in Batches \cup {None}
    /\ orphans \subseteq Batches
    /\ litter \in BOOLEAN
    /\ spool \in BOOLEAN
    /\ next \subseteq Gens
    /\ raw \subseteq Gens
    /\ sealed \in [Gens -> SUBSET Batches]
    /\ sender \in {"down", "up"}
    /\ roll \in {"idle"} \cup Rolling
    /\ rgen \in Gens \cup {None}

Init ==
    /\ data = [b \in Batches |-> "none"]
    /\ man = [b \in Batches |-> "none"]
    /\ reported = {}
    /\ wst = [w \in Writers |-> "closed"]
    /\ wbatch = [w \in Writers |-> None]
    /\ lock = "free"
    /\ collector = "down"
    /\ rbatch = None
    /\ orphans = {}
    /\ litter = FALSE
    /\ spool = TRUE
    /\ next = {}
    /\ raw = {}
    /\ sealed = [g \in Gens |-> {}]
    /\ sender = "down"
    /\ roll = "idle"
    /\ rgen = None

-----------------------------------------------------------------------------
(* Writers: collection, finalization of a batch and its publication.       *)

Goto(w, st) == wst' = [wst EXCEPT ![w] = st]

\* A lane opens its writer.  MkdirAll recreates a missing active spool, and
\* does so without the publication boundary.
NewWriter(w) ==
    /\ collector = "up"
    /\ wst[w] = "closed"
    /\ Goto(w, "idle")
    /\ spool' = TRUE
    /\ UNCHANGED <<files, wbatch, reported, lock, collectorVars, senderVars>>

\* A new batch ID and its .open file in the collector work directory.
OpenBatch(w) ==
    /\ wst[w] = "idle"
    /\ \E b \in Batches :
         /\ data[b] = "none" /\ man[b] = "none"
         /\ b \notin {wbatch[v] : v \in Writers}
         /\ data' = [data EXCEPT ![b] = "open"]
         /\ wbatch' = [wbatch EXCEPT ![w] = b]
    /\ Goto(w, "empty")
    /\ UNCHANGED <<man, reported, lock, collectorVars, spool, senderVars>>

\* The first record reaches the .open file; later records change nothing here.
Append(w) ==
    /\ wst[w] = "empty"
    /\ Goto(w, "writing")
    /\ UNCHANGED <<files, wbatch, reported, lock, collectorVars, spool, senderVars>>

\* Close: nothing open, or an open file without records, which is removed.
\* A failed removal leaves the file and an open writer without a batch.
Close(w) ==
    /\ \/ /\ wst[w] = "idle"
          /\ Goto(w, "closed")
          /\ UNCHANGED <<data, wbatch>>
       \/ /\ wst[w] = "empty"
          /\ wbatch' = [wbatch EXCEPT ![w] = None]
          /\ \/ /\ data' = [data EXCEPT ![wbatch[w]] = "none"]
                /\ Goto(w, "closed")
             \/ /\ "collectorIO" \in Faults
                /\ Goto(w, "idle")
                /\ UNCHANGED data
    /\ UNCHANGED <<man, reported, lock, collectorVars, spool, senderVars>>

\* finalizeCurrent: the data is synced and retry state is set before the file
\* is closed.
FinalizeCurrent(w) ==
    /\ wst[w] = "writing"
    /\ Goto(w, "synced")
    /\ UNCHANGED <<files, wbatch, reported, lock, collectorVars, spool, senderVars>>

\* finishPendingBatch, first part: .open becomes .jsonl in the work directory,
\* or is found there because an earlier rename took effect and reported an
\* error.
PrepareData(w) ==
    LET b == wbatch[w] IN
    /\ wst[w] = "synced"
    /\ \/ /\ data[b] = "open"
          /\ data' = [data EXCEPT ![b] = "work"]
          /\ \/ Goto(w, "prepared")
             \/ "collectorIO" \in Faults /\ UNCHANGED wst
       \/ /\ data[b] = "work"
          /\ Goto(w, "prepared")
          /\ UNCHANGED data
    /\ UNCHANGED <<man, wbatch, reported, lock, collectorVars, spool, senderVars>>

\* finishPendingBatch, second part: writeManifest creates .manifest.json.open,
\* fills and syncs it, and renames it; or a manifest is already there.  A
\* failure removes the temporary file.
PrepareManifest(w) ==
    LET b == wbatch[w] IN
    /\ \/ /\ wst[w] = "prepared" /\ man[b] = "none"
          /\ man' = [man EXCEPT ![b] = "partial"]
          /\ Goto(w, "writingManifest")
       \/ /\ wst[w] = "prepared" /\ man[b] = "work"
          /\ Goto(w, "ready")
          /\ UNCHANGED man
       \/ /\ wst[w] = "writingManifest" /\ man[b] = "partial"
          /\ man' = [man EXCEPT ![b] = "temp"]
          /\ UNCHANGED wst
       \/ /\ wst[w] = "writingManifest" /\ man[b] = "temp"
          /\ man' = [man EXCEPT ![b] = "work"]
          /\ \/ Goto(w, "ready")
             \/ "collectorIO" \in Faults /\ Goto(w, "prepared")
       \/ /\ wst[w] = "writingManifest"
          /\ "collectorIO" \in Faults
          /\ man' = [man EXCEPT ![b] = "none"]
          /\ Goto(w, "prepared")
    /\ UNCHANGED <<data, wbatch, reported, lock, collectorVars, spool, senderVars>>

\* Mutant: the boundary is not exclusive.
AcquireSharedBoundary(w) ==
    /\ wst[w] = "ready"
    /\ Goto(w, "locked")
    /\ UNCHANGED <<files, wbatch, reported, lock, collectorVars, spool, senderVars>>

AcquirePublishBoundary(w) ==
    /\ wst[w] = "ready"
    /\ lock = "free"
    /\ lock' = w
    /\ Goto(w, "locked")
    /\ UNCHANGED <<files, wbatch, reported, collectorVars, spool, senderVars>>

\* The three file combinations publishPreparedBatch accepts.
Unpublished(b) == data[b] = "work" /\ man[b] = "work"
HalfPublished(b) == data[b] = "spool" /\ man[b] = "work"
Published(b) == data[b] = "spool" /\ man[b] = "spool"
ConsistentRetry(b) == Unpublished(b) \/ HalfPublished(b) \/ Published(b)

\* Give the boundary back with an error: the batch stays pending in the writer.
FailPublication(w) ==
    /\ lock' = "free"
    /\ Goto(w, "ready")

PublishData(w) ==
    /\ wst[w] = "locked"
    /\ Unpublished(wbatch[w])
    /\ spool
    /\ data' = [data EXCEPT ![wbatch[w]] = "spool"]
    /\ Goto(w, "dataOut")
    /\ UNCHANGED <<man, wbatch, reported, lock, collectorVars, spool, senderVars>>

\* The manifest rename is the handoff to the sender.
PublishManifest(w) ==
    /\ \/ wst[w] = "dataOut"
       \/ wst[w] = "locked" /\ HalfPublished(wbatch[w])
    /\ man' = [man EXCEPT ![wbatch[w]] = "spool"]
    /\ Goto(w, "committed")
    /\ UNCHANGED <<data, wbatch, reported, lock, collectorVars, spool, senderVars>>

AcceptPublished(w) ==
    /\ wst[w] = "locked"
    /\ Published(wbatch[w])
    /\ Goto(w, "committed")
    /\ UNCHANGED <<files, wbatch, reported, lock, collectorVars, spool, senderVars>>

\* Error returns while the boundary is held: an inconsistent combination, a
\* failed rename, or a failed manifest rename followed by the rollback of the
\* data rename, which may fail as well.
PublishError(w) ==
    /\ \/ /\ wst[w] = "locked"
          /\ ~ConsistentRetry(wbatch[w])
          /\ FailPublication(w)
          /\ UNCHANGED data
       \/ /\ wst[w] = "locked"
          /\ \/ "collectorIO" \in Faults
             \/ Unpublished(wbatch[w]) /\ ~spool
          /\ FailPublication(w)
          /\ UNCHANGED data
       \/ /\ wst[w] = "dataOut"
          /\ "collectorIO" \in Faults
          /\ Goto(w, "rollback")
          /\ UNCHANGED <<data, lock>>
       \/ /\ wst[w] = "rollback"
          /\ FailPublication(w)
          /\ \/ data' = [data EXCEPT ![wbatch[w]] = "work"]
             \/ UNCHANGED data
    /\ UNCHANGED <<man, wbatch, reported, collectorVars, spool, senderVars>>

\* Mutant: the pending batch is cleared before it is listed.
FinishPublicationCleared(w) ==
    /\ wst[w] = "committed"
    /\ lock' = "free"
    /\ wbatch' = [wbatch EXCEPT ![w] = None]
    /\ reported' = reported \cup {wbatch'[w]}
    /\ Goto(w, "idle")
    /\ UNCHANGED <<files, collectorVars, spool, senderVars>>

\* The boundary is released.  When that reports an error the publication is
\* reported as failed although both renames are durable.
FinishPublication(w) ==
    /\ wst[w] = "committed"
    /\ \/ /\ lock' = "free"
          /\ reported' = reported \cup {wbatch[w]}
          /\ wbatch' = [wbatch EXCEPT ![w] = None]
          /\ Goto(w, "idle")
       \/ /\ "collectorIO" \in Faults
          /\ FailPublication(w)
          /\ UNCHANGED <<reported, wbatch>>
    /\ UNCHANGED <<files, collectorVars, spool, senderVars>>

\* The lane returns although Close failed: the writer and its pending state
\* are gone, the files stay.
AbandonWriter(w) ==
    /\ "collectorIO" \in Faults
    /\ wst[w] \in {"writing"} \cup (Pending \ {"writingManifest"})
    /\ wbatch' = [wbatch EXCEPT ![w] = None]
    /\ Goto(w, "closed")
    /\ UNCHANGED <<files, reported, lock, collectorVars, spool, senderVars>>

Writer(w) ==
    \/ NewWriter(w) \/ OpenBatch(w) \/ Append(w) \/ Close(w)
    \/ FinalizeCurrent(w) \/ PrepareData(w) \/ PrepareManifest(w)
    \/ AcquirePublishBoundary(w) \/ PublishData(w) \/ PublishManifest(w)
    \/ AcceptPublished(w) \/ PublishError(w) \/ FinishPublication(w)
    \/ AbandonWriter(w)

-----------------------------------------------------------------------------
(* Collector process: death, service start with recovery, one-shot start.  *)

\* The process is gone: writers vanish and the boundary is released.
CollectorStops ==
    /\ collector' = "down"
    /\ wst' = [w \in Writers |-> "closed"]
    /\ wbatch' = [w \in Writers |-> None]
    /\ lock' = IF lock = "sender" THEN "sender" ELSE "free"
    /\ rbatch' = None
    /\ orphans' = {}

CollectorCrash ==
    /\ "collectorCrash" \in Faults
    /\ collector # "down"
    /\ CollectorStops
    /\ UNCHANGED <<files, reported, litter, spool, senderVars>>

\* RecoverAbandonedPublications takes the boundary and needs the active spool.
StartService ==
    /\ "service" \in Modes
    /\ collector = "down"
    /\ lock = "free"
    /\ spool
    /\ lock' = "recovery"
    /\ collector' = "prepared"
    /\ UNCHANGED <<files, writerVars, rbatch, orphans, litter, spool, senderVars>>

\* A work manifest that recovery cannot classify.
RecoveryConflict(b) ==
    man[b] = "work" /\ data[b] \notin {"work", "spool"}

\* The manifest rename that completes a started publication.
CompletePublication(b) ==
    /\ man[b] = "work" /\ data[b] = "spool"
    /\ man' = [man EXCEPT ![b] = "spool"]

\* Mutant: startup recovery leaves unstarted publications, like the sender does.
RecoverStartedOnly ==
    /\ collector \in {"prepared", "preparedAgain"}
    /\ \/ /\ \E b \in Batches : CompletePublication(b)
          /\ UNCHANGED <<data, collector>>
       \/ /\ ~\E b \in Batches : HalfPublished(b)
          /\ collector' = IF collector = "prepared" THEN "salvage" ELSE "quarantine"
          /\ UNCHANGED files
    /\ UNCHANGED <<writerVars, lock, rbatch, orphans, litter, spool, senderVars>>

\* recoverPreparedPublicationsLocked with includeUnstartedPrepared: the work
\* manifests one by one, in the order of their random batch IDs.  A started
\* publication is completed; an unstarted one is two renames.
RecoverPrepared ==
    /\ collector \in {"prepared", "preparedAgain"}
    /\ \/ /\ rbatch = None
          /\ \E b \in Batches : CompletePublication(b)
          /\ UNCHANGED <<data, collector, rbatch>>
       \/ /\ rbatch = None
          /\ \E b \in Batches :
               /\ Unpublished(b)
               /\ data' = [data EXCEPT ![b] = "spool"]
               /\ rbatch' = b
          /\ UNCHANGED <<man, collector>>
       \/ /\ rbatch # None
          /\ CompletePublication(rbatch)
          /\ rbatch' = None
          /\ UNCHANGED <<data, collector>>
       \/ /\ rbatch = None
          /\ \A b \in Batches : man[b] # "work"
          /\ collector' = IF collector = "prepared" THEN "salvage" ELSE "quarantine"
          /\ UNCHANGED <<files, rbatch>>
    /\ UNCHANGED <<writerVars, lock, orphans, litter, spool, senderVars>>

\* Mutant: temporary manifests are never promoted.
NeverSalvageable(b) == FALSE

\* salvageStartupManifestOpensLocked: a complete temporary manifest whose data
\* verifies is promoted.
Salvageable(b) == man[b] = "temp" /\ data[b] = "work"

SalvageManifests ==
    /\ collector = "salvage"
    /\ \/ /\ \E b \in Batches :
               Salvageable(b) /\ man' = [man EXCEPT ![b] = "work"]
          /\ UNCHANGED collector
       \/ /\ ~\E b \in Batches : Salvageable(b)
          /\ collector' = "preparedAgain"
          /\ UNCHANGED man
    /\ UNCHANGED <<data, writerVars, lock, rbatch, orphans, litter, spool, senderVars>>

\* What quarantineStartupIncompleteArtifactsLocked moves aside.
DataResidue(b) ==
    data[b] \in {"open", "work"} \/ (data[b] = "spool" /\ man[b] # "spool")
ManifestResidue(b) == man[b] \in {"partial", "temp"}

QuarantineIncomplete ==
    /\ collector = "quarantine"
    /\ ~litter
    /\ \/ /\ \E b \in Batches :
               DataResidue(b) /\ data' = [data EXCEPT ![b] = "quarantine"]
          /\ UNCHANGED <<man, collector, lock>>
       \/ /\ \E b \in Batches :
               ManifestResidue(b) /\ man' = [man EXCEPT ![b] = "quarantine"]
          /\ UNCHANGED <<data, collector, lock>>
       \/ /\ ~\E b \in Batches : DataResidue(b) \/ ManifestResidue(b)
          /\ collector' = "up"
          /\ lock' = "free"
          /\ UNCHANGED files
    /\ UNCHANGED <<writerVars, rbatch, orphans, litter, spool, senderVars>>

\* An error stops the service: an unclassifiable manifest, a published manifest
\* without data, an unexpected directory in the spool, or a failed rename, whose
\* data rename is rolled back when that is possible.
RecoveryError ==
    /\ collector \in RecoveryPhases
    /\ \/ /\ collector \in {"prepared", "preparedAgain"} /\ rbatch = None
          /\ \E b \in Batches : RecoveryConflict(b)
          /\ UNCHANGED data
       \/ /\ collector = "quarantine"
          /\ \/ litter
             \/ \E b \in Batches : man[b] = "spool" /\ data[b] # "spool"
          /\ UNCHANGED data
       \/ /\ "collectorIO" \in Faults
          /\ \/ UNCHANGED data
             \/ /\ rbatch # None /\ HalfPublished(rbatch)
                /\ data' = [data EXCEPT ![rbatch] = "work"]
    /\ CollectorStops
    /\ UNCHANGED <<man, reported, litter, spool, senderVars>>

\* Mutant: the scan takes every data file for an orphan.
StartOneShotAllOrphans ==
    /\ "oneshot" \in Modes
    /\ collector = "down"
    /\ collector' = "preserving"
    /\ spool' = TRUE
    /\ orphans' = {b \in Batches : data[b] = "spool"}
    /\ UNCHANGED <<files, writerVars, lock, rbatch, litter, senderVars>>

\* The one-shot collector scans the spool for orphan data, without the
\* boundary and without looking at the work directory.
StartOneShot ==
    /\ "oneshot" \in Modes
    /\ collector = "down"
    /\ collector' = "preserving"
    /\ spool' = TRUE
    /\ orphans' = {b \in Batches : data[b] = "spool" /\ man[b] # "spool"}
    /\ UNCHANGED <<files, writerVars, lock, rbatch, litter, senderVars>>

\* PreserveInterruptedArtifacts moves each scanned orphan under interrupted/,
\* a directory of the active spool itself.
PreserveInterrupted ==
    /\ collector = "preserving"
    /\ \/ /\ \E b \in orphans :
               /\ data[b] = "spool"
               /\ data' = [data EXCEPT ![b] = "interrupted"]
               /\ orphans' = orphans \ {b}
          /\ litter' = TRUE
          /\ UNCHANGED collector
       \/ /\ orphans = {}
          /\ collector' = "up"
          /\ UNCHANGED <<data, orphans, litter>>
       \/ /\ \E b \in orphans : data[b] # "spool"
          /\ collector' = "down"
          /\ orphans' = {}
          /\ UNCHANGED <<data, litter>>
    /\ UNCHANGED <<man, writerVars, lock, rbatch, spool, senderVars>>

Collector ==
    \/ CollectorCrash \/ StartService \/ RecoverPrepared \/ SalvageManifests
    \/ QuarantineIncomplete \/ RecoveryError \/ StartOneShot
    \/ PreserveInterrupted

-----------------------------------------------------------------------------
(* Sender process: rollover of the active spool, builder of generations.   *)

SenderStops ==
    /\ sender' = "down"
    /\ roll' = "idle"
    /\ rgen' = None
    /\ lock' = IF lock = "sender" THEN "free" ELSE lock

SenderCrash ==
    /\ "senderCrash" \in Faults
    /\ sender = "up"
    /\ SenderStops
    /\ UNCHANGED <<files, writerVars, collectorVars, spool, next, raw, sealed>>

SenderStart ==
    /\ sender = "down"
    /\ sender' = "up"
    /\ UNCHANGED <<files, writerVars, lock, collectorVars, spool, next, raw,
                   sealed, roll, rgen>>

RollAcquire ==
    /\ sender = "up"
    /\ roll = "idle"
    /\ lock = "free"
    /\ lock' = "sender"
    /\ roll' = "locked"
    /\ UNCHANGED <<files, writerVars, collectorVars, spool, next, raw, sealed,
                   sender, rgen>>

\* A directory rename moves every file in it.
Moved(f, from, to) == [b \in Batches |-> IF f[b] = from THEN to ELSE f[b]]

WholePairs(place) == \A b \in Batches : data[b] = place <=> man[b] = place
Pairs(place) == {b \in Batches : data[b] = place}

\* recoverInterruptedRolloverLocked can put the replacement directory in place.
RolloverRecoverable ==
    \E g \in raw : next = {g} /\ WholePairs(g) /\ Pairs(g) # {}

\* Mutant: an interrupted rollover is undone by renaming the frozen generation
\* back, although the builder may have sealed it.
RecoverRolloverThaws ==
    /\ roll = "locked"
    /\ \/ spool /\ UNCHANGED <<files, raw>>
       \/ /\ ~spool
          /\ \E g \in raw :
               /\ next = {g}
               /\ data' = Moved(data, g, "spool")
               /\ man' = Moved(man, g, "spool")
               /\ raw' = raw \ {g}
    /\ spool' = TRUE
    /\ next' = {}
    /\ roll' = "checked"
    /\ UNCHANGED <<writerVars, lock, collectorVars, sealed, sender, rgen>>

\* A missing active spool is restored from the interrupted rollover's empty
\* replacement; otherwise leftover replacements are removed.
RecoverRollover ==
    /\ roll = "locked"
    /\ spool \/ RolloverRecoverable
    /\ spool' = TRUE
    /\ next' = {}
    /\ roll' = "checked"
    /\ UNCHANGED <<files, writerVars, lock, collectorVars, raw, sealed, sender, rgen>>

\* RecoverInterruptedPublicationsLocked: only publications that have begun.
RollCompletePublication ==
    /\ roll = "checked"
    /\ \E b \in Batches : CompletePublication(b)
    /\ UNCHANGED <<data, writerVars, lock, collectorVars, spool, senderVars>>

\* ValidatePublishedSpoolStructureLocked on the active spool.
SpoolValid == ~litter /\ WholePairs("spool")

\* Mutant: the structure of the spool is not validated.
RollPrepareUnchecked ==
    /\ roll = "checked"
    /\ \E g \in Gens \ raw :
         /\ sealed[g] = {} /\ Pairs(g) = {}
         /\ next' = {g}
         /\ rgen' = g
    /\ roll' = "next"
    /\ UNCHANGED <<files, writerVars, lock, collectorVars, spool, raw, sealed, sender>>

\* The validated spool is empty, or a replacement directory is created.
RollPrepare ==
    /\ roll = "checked"
    /\ ~\E b \in Batches : RecoveryConflict(b) \/ HalfPublished(b)
    /\ SpoolValid
    /\ \/ /\ Pairs("spool") = {}
          /\ roll' = "idle"
          /\ lock' = "free"
          /\ UNCHANGED <<next, rgen>>
       \/ /\ Pairs("spool") # {}
          /\ \E g \in Gens \ raw :
               /\ sealed[g] = {} /\ Pairs(g) = {}
               /\ next' = {g}
               /\ rgen' = g
          /\ roll' = "next"
          /\ UNCHANGED lock
    /\ UNCHANGED <<files, writerVars, collectorVars, spool, raw, sealed, sender>>

\* One directory rename freezes the active spool as raw generation rgen.
Freeze ==
    /\ roll = "next"
    /\ data' = Moved(data, "spool", rgen)
    /\ man' = Moved(man, "spool", rgen)
    /\ raw' = raw \cup {rgen}
    /\ spool' = FALSE
    /\ roll' = "frozen"
    /\ UNCHANGED <<writerVars, lock, collectorVars, next, sealed, sender, rgen>>

\* The empty replacement becomes the active spool; the boundary is released.
Promote ==
    /\ roll = "frozen"
    /\ ~spool
    /\ spool' = TRUE
    /\ next' = {}
    /\ roll' = "idle"
    /\ rgen' = None
    /\ lock' = "free"
    /\ UNCHANGED <<files, writerVars, collectorVars, raw, sealed, sender>>

\* A writer has recreated the directory meanwhile, or the rename failed.
PromoteFails ==
    /\ roll = "frozen"
    /\ spool \/ "senderIO" \in Faults
    /\ roll' = "unwind"
    /\ UNCHANGED <<files, writerVars, lock, collectorVars, spool, next, raw,
                   sealed, sender, rgen>>

\* Mutant: the cleanup of a failed rollover drops the frozen generation.
UnwindDiscards ==
    /\ roll = "unwind"
    /\ raw' = raw \ {rgen}
    /\ next' = {}
    /\ SenderStops
    /\ UNCHANGED <<files, writerVars, collectorVars, spool, sealed>>

\* The frozen generation is renamed back, or that fails too; either way the
\* deferred removal deletes the replacement and the sender fail-stops.
Unwind ==
    /\ roll = "unwind"
    /\ \/ /\ ~spool /\ rgen \in raw
          /\ data' = Moved(data, rgen, "spool")
          /\ man' = Moved(man, rgen, "spool")
          /\ raw' = raw \ {rgen}
          /\ spool' = TRUE
       \/ /\ spool \/ rgen \notin raw \/ "senderIO" \in Faults
          /\ UNCHANGED <<files, raw, spool>>
    /\ next' = {}
    /\ SenderStops
    /\ UNCHANGED <<writerVars, collectorVars, sealed>>

\* Rollover errors that change no file: an unrecoverable namespace, an
\* unclassifiable manifest, an invalid structure, a failed freeze.
RollError ==
    /\ \/ roll = "locked" /\ ~spool /\ ~RolloverRecoverable /\ UNCHANGED next
       \/ /\ roll = "checked"
          /\ \E b \in Batches : RecoveryConflict(b)
          /\ UNCHANGED next
       \/ /\ roll = "checked"
          /\ ~\E b \in Batches : HalfPublished(b)
          /\ ~SpoolValid
          /\ UNCHANGED next
       \/ roll = "next" /\ "senderIO" \in Faults /\ next' = {}
    /\ SenderStops
    /\ UNCHANGED <<files, writerVars, collectorVars, spool, raw, sealed>>

\* BuildRawTransportGeneration seals every file of a raw directory.  The
\* builder does not take the publication boundary.
Build ==
    /\ sender = "up"
    /\ \E g \in raw :
         /\ sealed[g] = {}
         /\ sealed' = [sealed EXCEPT ![g] = Pairs(g)]
    /\ UNCHANGED <<files, writerVars, lock, collectorVars, spool, next, raw,
                   sender, roll, rgen>>

\* Mutant: the raw directory is removed before its generation is sealed.
RemoveRawUnsealed ==
    /\ sender = "up"
    /\ \E g \in raw : raw' = raw \ {g}
    /\ UNCHANGED <<files, writerVars, lock, collectorVars, spool, next, sealed,
                   sender, roll, rgen>>

\* The raw directory is removed once its sealed generation is complete.
RemoveRaw ==
    /\ sender = "up"
    /\ \E g \in raw : sealed[g] # {} /\ raw' = raw \ {g}
    /\ UNCHANGED <<files, writerVars, lock, collectorVars, spool, next, sealed,
                   sender, roll, rgen>>

Sender ==
    \/ SenderCrash \/ SenderStart \/ RollAcquire \/ RecoverRollover
    \/ RollCompletePublication \/ RollPrepare \/ Freeze \/ Promote
    \/ PromoteFails \/ Unwind \/ RollError \/ Build \/ RemoveRaw

Next ==
    \/ \E w \in Writers : Writer(w)
    \/ Collector
    \/ Sender

Spec == Init /\ [][Next]_vars

-----------------------------------------------------------------------------
(* Properties.                                                             *)

\* Once a writer lists a batch in FinalizedBatches (the fact a source
\* checkpoint advances on), the whole pair is in the active spool, in a raw
\* generation, or in a sealed generation: no crash, failed rename, recovery,
\* rollover, rollback or raw-directory removal loses or splits it.
FinalizedNeverLost ==
    \A b \in reported :
        \/ Published(b)
        \/ \E g \in Gens : /\ data[b] = g /\ man[b] = g
                          /\ (g \in raw \/ b \in sealed[g])

\* RolloverPublishedSpool freezes whole pairs only: no generation holds the
\* data or the manifest of a batch without the other, whatever publication
\* was interrupted when the directory was renamed.
GenerationsHoldWholePairs == \A g \in Gens : WholePairs(g)

\* RecoverAbandonedPublications: "An interrupted publication in which the data
\* file already reached the active spool but the manifest remains in the work
\* directory is also completed."  A manifest in the work directory always has
\* its data in the work directory or in the active spool, and a published
\* manifest always has its data beside it.
InterruptedPublicationCompletable ==
    \A b \in Batches :
        /\ ~RecoveryConflict(b)
        /\ man[b] = "spool" => data[b] = "spool"

\* Startup recovery never sets aside a batch whose manifest is complete, even
\* when the crash came before that manifest got its final name: such a batch is
\* published, only unfinished ones are quarantined.
PreparedNeverQuarantined ==
    [][\A b \in Batches :
          data'[b] = "quarantine" /\ data[b] # "quarantine"
              => man[b] \notin {"temp", "work", "spool"}]_vars

\* A batch is sealed into one generation only, so it is delivered under one
\* generation identity.  This needs the sender's directory renames not to fail:
\* see SealedAfterReplacement.
SealedOnce ==
    \A g, h \in Gens : g # h => sealed[g] \cap sealed[h] = {}

\* runGenerationRollover: "The active spool is replaced before sealing begins,
\* so the collector resumes against an empty path while the builder works on
\* the immutable old directory."
SealedAfterReplacement ==
    [][\A g \in Gens :
          sealed'[g] # sealed[g] => ~(roll \in {"frozen", "unwind"} /\ rgen = g)]_vars

\* recoverInterruptedRolloverLocked: "The already frozen generation remains
\* immutable under generation-raw, while its matching empty rollover-next
\* directory becomes the new active spool."  Whenever the active spool is missing
\* and no rollover is running, that repair is possible.
InterruptedRolloverRecoverable ==
    ~spool /\ roll = "idle" => RolloverRecoverable

-----------------------------------------------------------------------------
(* Fairness: a started collector or sender keeps executing, a restarted    *)
(* process keeps being restarted (both are services), and a process that   *)
(* waits for the publication boundary is not starved for ever.             *)

Fairness ==
    /\ SF_vars(StartService) /\ SF_vars(RecoverPrepared)
    /\ SF_vars(SalvageManifests) /\ SF_vars(QuarantineIncomplete)
    /\ \A w \in Writers :
         /\ WF_vars(PublishData(w)) /\ WF_vars(PublishManifest(w))
         /\ WF_vars(AcceptPublished(w)) /\ WF_vars(FinishPublication(w))
         /\ WF_vars(PublishError(w))
    /\ WF_vars(SenderStart) /\ SF_vars(RollAcquire)
    /\ WF_vars(RecoverRollover) /\ WF_vars(RollCompletePublication)
    /\ WF_vars(RollPrepare) /\ WF_vars(Freeze) /\ WF_vars(Promote)
    /\ WF_vars(PromoteFails) /\ WF_vars(Unwind) /\ WF_vars(RollError)
    /\ SF_vars(Build) /\ SF_vars(RemoveRaw)

FairSpec == Spec /\ Fairness

\* RecoverAbandonedPublications: a batch whose manifest is in the work directory
\* when the collector is down is published in the end, however often the
\* collector dies again while it recovers.
LeftoversPublished ==
    \A b \in Batches :
        (collector = "down" /\ man[b] = "work") ~> (man[b] \in {"spool"} \cup Gens)

\* runGenerationRollover and runGenerationBuilder: a published batch reaches a
\* sealed generation, also when a writer that recreates the spool directory
\* makes the rollover fail.
PublishedIsSealed ==
    \A b \in Batches : Published(b) ~> (\E g \in Gens : b \in sealed[g])

=============================================================================
