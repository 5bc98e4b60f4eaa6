------------------------- MODULE ObjectObservation -------------------------
(***************************************************************************)
(* One NTFS observation (internal/windows/ntfs): the collector opens the   *)
(* governed root and the object, reads identity, streams, security, SACL,  *)
(* reparse data and content through several handles, one call after        *)
(* another, while users write, rename, replace and delete; it then decides *)
(* whether what it holds may be called Complete.  Every read is a step of  *)
(* its own.  What a file holds is abstracted to a version per facet, and   *)
(* its NTFS times to one change stamp that every change of the file itself *)
(* advances; the rename of a directory above it changes its path and not   *)
(* its stamp.                                                              *)
(***************************************************************************)
EXTENDS Naturals, Sentinel

CONSTANTS MaxObChanges,  \* bound on what users do during the observation
          MaxObFaults,   \* bound on failing reads
          CoarseClock    \* may two changes get the same NTFS time

ASSUME ObjectObservationAssumption ==
    MaxObChanges \in Nat /\ MaxObFaults \in Nat /\ CoarseClock \in BOOLEAN

VARIABLES file,       \* the target: versions of its facets, stamp, reparse tag, place
          occupant,   \* per path inside the root: what a fresh open would reach
          rootIntact, \* the configured root path still reaches the root object
          entry,      \* "path" (walk) or "id" (USN re-observation)
          obPc,       \* the next step of the collector
          seen,       \* what has been read so far
          unreadable, \* the fields whose record says Error
          warnings, status,
          witness,    \* the file as it was when its scope was proved again
          obChanges, obFaults

obVars == <<file, occupant, rootIntact, entry, obPc, seen, unreadable, warnings, status,
            witness, obChanges, obFaults>>

Facets == {"data", "security", "sacl", "streams"}
Inside == {"a", "b"}  \* two paths below the root; others are "out" and "deleted"
Tags   == {"none", "link", "mount"}
Statuses  == {"Complete", "ChangedDuringCollection", "Partial", "ReplacedDuringCollection"}

\* What queryNativeState returns: attribute tag, times and sizes.
nativeState == [stamp |-> file.stamp, reparse |-> file.reparse]

Unread == [pre |-> None, streams |-> None, security |-> None, sacl |-> None,
           mid |-> None, reparse |-> None, post |-> None, target |-> None,
           path |-> None, parent |-> None, hashPre |-> None,
           first |-> None, rest |-> None, content |-> None]

-----------------------------------------------------------------------------
(* The steps of the collector share these. *)

WorldFrame == UNCHANGED <<file, occupant, rootIntact, entry, obChanges>>
ReadFails  == obFaults < MaxObFaults /\ obFaults' = obFaults + 1
ReadWorks  == UNCHANGED obFaults

\* The collection ends without an observation.
Abandon == obPc' = "failed" /\ UNCHANGED <<seen, unreadable, warnings, status, witness>>

\* Field f is v; go on at step p with status and warnings as they are.
Note(f, v, p) == /\ seen' = [seen EXCEPT ![f] = v] /\ obPc' = p
                   /\ UNCHANGED <<unreadable, warnings, status, witness>>

\* Field f could not be read: warning w makes the observation Partial.
RecordError(f, w, p) == /\ unreadable' = unreadable \cup {f} /\ obPc' = p
                        /\ warnings' = warnings \cup {w} /\ status' = "Partial"
                        /\ UNCHANGED <<seen, witness>>

\* pathContainedBy for the handle's current final path; a deleted object has none.
Contained == file.place \in Inside

-----------------------------------------------------------------------------
(* collectOpenedTargetWithSACLReader: the structural part. *)

\* openGovernedRoot, then the target: by path (the walk) it is whatever the
\* path reaches; by identity it is the object wherever it is.
openGovernedRoot ==
    /\ obPc = "open"
    /\ \/ /\ rootIntact /\ file.place # "deleted"
          /\ (entry = "path" => file.place = "a")
          /\ ReadWorks /\ Note("target", "a", "contain")
       \/ /\ ~rootIntact \/ file.place = "deleted" \/ (entry = "path" /\ file.place # "a")
          /\ ReadWorks /\ Abandon
       \/ ReadFails /\ Abandon
    /\ WorldFrame

\* The handle-derived path must lie in the root; for an open by identity it
\* becomes the path that is verified again later.
handleDerivedContainment ==
    /\ obPc = "contain" /\ ReadWorks
    /\ IF Contained
       THEN Note("target", IF entry = "id" THEN file.place ELSE seen.target, "pre")
       ELSE Abandon
    /\ WorldFrame

queryPreState ==
    /\ obPc = "pre"
    /\ \/ ReadWorks /\ Note("pre", nativeState, "streams")
       \/ ReadFails /\ Abandon
    /\ WorldFrame

queryStreams ==
    /\ obPc = "streams"
    /\ \/ ReadWorks /\ Note("streams", file.streams, "security")
       \/ ReadFails /\ RecordError("streams", "StreamEnumerationFailed", "security")
    /\ WorldFrame

\* querySecurityDescriptor opens the same identity again for READ_CONTROL.
querySecurityDescriptor ==
    /\ obPc = "security"
    /\ \/ file.place # "deleted" /\ ReadWorks /\ Note("security", file.security, "sacl")
       \/ /\ \/ file.place = "deleted" /\ ReadWorks
             \/ ReadFails
          /\ RecordError("security", "SecurityDescriptorReadFailed", "sacl")
    /\ WorldFrame

\* The SACL comes from the privileged reader, which opens the identity itself
\* and refuses an object outside the root at that moment.
querySACLDescriptorWithReader ==
    /\ obPc = "sacl"
    /\ \/ Contained /\ ReadWorks /\ Note("sacl", file.sacl, "mid")
       \/ /\ \/ ~Contained /\ ReadWorks
             \/ ReadFails
          /\ RecordError("sacl", "SACLDescriptorReadFailed", "mid")
    /\ WorldFrame

queryMidState ==
    /\ obPc = "mid"
    /\ \/ ReadWorks /\ Note("mid", nativeState, "reparse")
       \/ ReadFails /\ Abandon
    /\ WorldFrame

\* Reparse data is read when the state just queried says there is some; data
\* with another tag than that state's ends the collection.
queryReparseData ==
    /\ obPc = "reparse"
    /\ \/ seen.mid.reparse = "none" /\ ReadWorks /\ Note("reparse", "none", "post")
       \/ /\ seen.mid.reparse # "none"
          /\ \/ file.reparse = seen.mid.reparse /\ ReadWorks /\ Note("reparse", file.reparse, "post")
             \/ file.reparse \notin {"none", seen.mid.reparse} /\ ReadWorks /\ Abandon
             \/ /\ \/ file.reparse = "none" /\ ReadWorks
                   \/ ReadFails
                /\ RecordError("reparse", "ReparseDataReadFailed", "post")
    /\ WorldFrame

\* The observation shows a reparse point, its data read or not.
reparsePresent == seen.mid.reparse # "none"

reparseStateChanged(l, r) == l.reparse # r.reparse

\* The state the metadata is taken from; a difference from the first one is
\* reported, a reparse point that came or went since mid is not accepted.
queryPostState ==
    /\ obPc = "post"
    /\ \/ reparseStateChanged(seen.mid, nativeState) /\ ReadWorks /\ Abandon
       \/ /\ ~reparseStateChanged(seen.mid, nativeState) /\ ReadWorks
          /\ seen' = [seen EXCEPT !.post = nativeState] /\ obPc' = "reopen"
          /\ IF seen.pre = nativeState
             THEN UNCHANGED <<warnings, status>>
             ELSE /\ warnings' = warnings \cup {"MetadataChangedDuringCollection"}
                  /\ status' = IF status = "Complete" THEN "ChangedDuringCollection"
                               ELSE "Partial"
          /\ UNCHANGED <<unreadable, witness>>
       \/ ReadFails /\ Abandon
    /\ WorldFrame

\* The target path is opened once more: gone is not verified, another object
\* is a replacement.
reopenTargetPath ==
    /\ obPc = "reopen" /\ obPc' = "scope"
    /\ \/ occupant[seen.target] = "file" /\ ReadWorks /\ UNCHANGED <<warnings, status>>
       \/ /\ \/ occupant[seen.target] \in {"nothing", "vanished"} /\ ReadWorks
             \/ ReadFails
          /\ warnings' = warnings \cup {"PathConsistencyNotVerified"} /\ status' = "Partial"
       \/ /\ occupant[seen.target] = "other" /\ ReadWorks
          /\ warnings' = warnings \cup {"PathNowReferencesDifferentObject"}
          /\ status' = "ReplacedDuringCollection"
    /\ UNCHANGED <<seen, unreadable, witness>> /\ WorldFrame

\* revalidateScopeHandles: root handle, target handle and configured root path.
revalidateScopeHandles == rootIntact /\ Contained

revalidateGovernedScope ==
    /\ obPc = "scope"
    /\ \/ /\ revalidateScopeHandles /\ ReadWorks
          /\ seen' = [seen EXCEPT !.path = file.place] /\ witness' = file
          /\ obPc' = "parent" /\ UNCHANGED <<unreadable, warnings, status>>
       \/ /\ \/ ~revalidateScopeHandles /\ ReadWorks
             \/ ReadFails
          /\ Abandon
    /\ WorldFrame

\* collectParentBinding opens the parent of the path just resolved; it fails
\* when that directory has gone.  A replacement stays the stronger status.
collectParentBinding ==
    /\ obPc = "parent"
    /\ \/ occupant[seen.path] # "vanished" /\ ReadWorks /\ Note("parent", seen.path, "structure")
       \/ /\ \/ occupant[seen.path] = "vanished" /\ ReadWorks
             \/ ReadFails
          /\ unreadable' = unreadable \cup {"parent"} /\ obPc' = "structure"
          /\ warnings' = warnings \cup {"ParentBindingUnavailable"}
          /\ status' = IF status = "ReplacedDuringCollection" THEN status ELSE "Partial"
          /\ UNCHANGED <<seen, witness>>
    /\ WorldFrame

-----------------------------------------------------------------------------
(* collectContentOpened: the unnamed stream, read once. *)

\* Mutant: a hash that failed leaves the status as it was.
hashFailureKeepsStatus ==
    /\ unreadable' = unreadable \cup {"content"} /\ obPc' = "finalState"
    /\ warnings' = warnings \cup {"ContentHashFailed"}
    /\ status' = status
    /\ UNCHANGED <<seen, witness>>

\* applyContentHashOutcome: the failure shows in the whole observation.
applyContentHashOutcome ==
    /\ unreadable' = unreadable \cup {"content"} /\ obPc' = "finalState"
    /\ warnings' = warnings \cup {"ContentHashFailed"}
    /\ status' = IF status = "ReplacedDuringCollection" THEN status ELSE "Partial"
    /\ UNCHANGED <<seen, witness>>

\* The object is opened again by identity for reading; its state and its
\* containment are taken through the new handle.
openContent ==
    /\ obPc = "content"
    /\ \/ /\ reparsePresent /\ ReadWorks
          /\ Note("content", "NotApplicable", "finalState")
       \/ /\ ~reparsePresent /\ Contained /\ ReadWorks
          /\ Note("hashPre", nativeState, "first")
       \/ /\ ~reparsePresent
          /\ \/ ~Contained /\ ReadWorks
             \/ ReadFails
          /\ applyContentHashOutcome
    /\ WorldFrame

\* Two reads of the copy loop stand for any number of them.
readContent ==
    /\ obPc \in {"first", "rest"}
    /\ \/ obPc = "first" /\ ReadWorks /\ Note("first", file.data, "rest")
       \/ obPc = "rest" /\ ReadWorks /\ Note("rest", file.data, "hashPost")
       \/ ReadFails /\ applyContentHashOutcome
    /\ WorldFrame

\* Mutant: the states around the read are not compared.
hashUnchecked(l, r) == FALSE

\* Mutant: the comparison includes the access time, which the read itself
\* moves.
hashComparesAccessTime(l, r) == TRUE

hashRelevantStateChanged(l, r) == l # r

\* The hashes stand only if nothing changed around the read and the object is
\* still contained.
closeContent ==
    /\ obPc = "hashPost"
    /\ \/ /\ ~hashRelevantStateChanged(seen.hashPre, nativeState) /\ Contained /\ ReadWorks
          /\ Note("content", "Present", "finalState")
       \/ /\ \/ hashRelevantStateChanged(seen.hashPre, nativeState) /\ ReadWorks
             \/ ~Contained /\ ReadWorks
             \/ ReadFails
          /\ applyContentHashOutcome
    /\ WorldFrame

-----------------------------------------------------------------------------
(* revalidateObservationAfterContent. *)

\* The recorded reparse state against the present one.
reparseObservationChanged(tag) == tag # seen.mid.reparse
\* Mutant: the state after the content is not compared with the recorded one.
finalStateIgnored == FALSE

\* The recorded metadata against the present ones.
observationRelevantNativeStateChanged == nativeState.stamp # seen.post.stamp

finalNativeState ==
    /\ obPc = "finalState" /\ ReadWorks
    /\ IF reparseObservationChanged(file.reparse)
       THEN Abandon
       ELSE /\ IF observationRelevantNativeStateChanged
               THEN /\ warnings' = warnings \cup {"MetadataChangedDuringCollection"}
                    /\ status' = IF status = "Complete" THEN "ChangedDuringCollection" ELSE status
               ELSE UNCHANGED <<warnings, status>>
            /\ obPc' = "finalScope" /\ UNCHANGED <<seen, unreadable, witness>>
    /\ WorldFrame

finalScope ==
    /\ obPc = "finalScope" /\ ReadWorks
    /\ IF revalidateScopeHandles
       THEN /\ IF file.place # seen.path
               THEN /\ warnings' = warnings \cup {"PathConsistencyNotVerified"}
                    /\ status' = IF status = "ReplacedDuringCollection" THEN status ELSE "Partial"
               ELSE UNCHANGED <<warnings, status>>
            /\ obPc' = "validate" /\ UNCHANGED <<seen, unreadable, witness>>
       ELSE Abandon
    /\ WorldFrame

\* A failing read of the second look ends the collection.
finalReadFails ==
    /\ obPc \in {"finalState", "finalScope"}
    /\ ReadFails /\ Abandon /\ WorldFrame

partialCondition ==
    \/ unreadable # {}
    \/ "PathConsistencyNotVerified" \in warnings

\* The content record must fit the kind of object.
validateContentObservationConsistency ==
    IF reparsePresent THEN seen.content = "NotApplicable"
    ELSE seen.content = "Present" \/ "content" \in unreadable

\* Errors and warnings name each other, and the status fits them.
validateObservationConsistency ==
    /\ "parent" \in unreadable <=> "ParentBindingUnavailable" \in warnings
    /\ "streams" \in unreadable <=> "StreamEnumerationFailed" \in warnings
    /\ "security" \in unreadable <=> "SecurityDescriptorReadFailed" \in warnings
    /\ "sacl" \in unreadable <=> "SACLDescriptorReadFailed" \in warnings
    /\ "reparse" \in unreadable <=> "ReparseDataReadFailed" \in warnings
    /\ "content" \in unreadable <=> "ContentHashFailed" \in warnings
    /\ (obPc = "validate" => validateContentObservationConsistency)
    /\ CASE status = "Complete" -> warnings = {} /\ ~partialCondition
         [] status = "ChangedDuringCollection" ->
                /\ "MetadataChangedDuringCollection" \in warnings
                /\ ~partialCondition /\ "PathNowReferencesDifferentObject" \notin warnings
         [] status = "Partial" -> partialCondition
         [] OTHER -> "PathNowReferencesDifferentObject" \in warnings

\* The observation is validated when its structure is complete and again with
\* its content.
ValidateObservation ==
    /\ obPc \in {"structure", "validate"} /\ ReadWorks
    /\ obPc' = IF ~validateObservationConsistency THEN "rejected"
               ELSE IF obPc = "structure" THEN "content" ELSE "accepted"
    /\ UNCHANGED <<seen, unreadable, warnings, status, witness>> /\ WorldFrame

-----------------------------------------------------------------------------
(* Users of the file system. *)

UserActs == /\ obPc \notin {"accepted", "rejected", "failed"}
            /\ obChanges < MaxObChanges /\ obChanges' = obChanges + 1
            /\ UNCHANGED <<entry, obPc, seen, unreadable, warnings, status, witness, obFaults>>

\* The stamp of a file that changes now.
Stamped(f) == \E s \in {f.stamp + 1} \cup (IF CoarseClock THEN {f.stamp} ELSE {}) :
                 file' = [f EXCEPT !.stamp = s]

changeFacet(f) ==
    /\ UserActs /\ file.place # "deleted"
    /\ Stamped([file EXCEPT ![f] = @ + 1])
    /\ UNCHANGED <<occupant, rootIntact>>

setReparse(t) ==
    /\ UserActs /\ file.place # "deleted" /\ t # file.reparse
    /\ Stamped([file EXCEPT !.reparse = t])
    /\ UNCHANGED <<occupant, rootIntact>>

\* The occupants once the file is at p instead of where it was.
Moved(p) == [q \in Inside |-> IF q = p THEN "file"
                              ELSE IF q = file.place THEN "nothing" ELSE occupant[q]]

moveFile(p) ==
    /\ UserActs /\ file.place # "deleted" /\ p # file.place
    /\ (p \in Inside => occupant[p] = "nothing")
    /\ Stamped([file EXCEPT !.place = p]) /\ occupant' = Moved(p)
    /\ UNCHANGED rootIntact

\* A directory above the file is renamed: its new path holds the file, the
\* old path has no parent directory any more.
moveAncestor(p) ==
    /\ UserActs /\ file.place \in Inside /\ p # file.place /\ p # "deleted"
    /\ (p \in Inside => occupant[p] \in {"nothing", "vanished"})
    /\ file' = [file EXCEPT !.place = p]
    /\ occupant' = [Moved(p) EXCEPT ![file.place] = "vanished"]
    /\ UNCHANGED rootIntact

putOther(p) ==
    /\ UserActs /\ obPc # "open" /\ occupant[p] \in {"nothing", "vanished"}
    /\ occupant' = [occupant EXCEPT ![p] = "other"]
    /\ UNCHANGED <<file, rootIntact>>

replaceRoot ==
    /\ UserActs /\ rootIntact /\ rootIntact' = FALSE
    /\ UNCHANGED <<file, occupant>>

-----------------------------------------------------------------------------
ObInitAt(e) ==
    /\ file = [data |-> 0, security |-> 0, sacl |-> 0, streams |-> 0, stamp |-> 0,
               reparse |-> "none", place |-> "a"]
    /\ occupant = [p \in Inside |-> IF p = "a" THEN "file" ELSE "nothing"]
    /\ rootIntact = TRUE /\ entry = e /\ obPc = "open" /\ seen = Unread
    /\ unreadable = {}
    /\ warnings = {} /\ status = "Complete" /\ witness = None
    /\ obChanges = 0 /\ obFaults = 0

ObInit == \E e \in {"path", "id"} : ObInitAt(e)

ObUsers ==
    \/ \E f \in Facets : changeFacet(f)
    \/ \E t \in Tags : setReparse(t)
    \/ \E p \in Inside \cup {"out", "deleted"} : moveFile(p) \/ moveAncestor(p)
    \/ \E p \in Inside : putOther(p)
    \/ replaceRoot

ObSteps ==
    \/ openGovernedRoot \/ handleDerivedContainment \/ queryPreState \/ queryStreams
    \/ querySecurityDescriptor \/ querySACLDescriptorWithReader \/ queryMidState
    \/ queryReparseData \/ queryPostState \/ reopenTargetPath \/ revalidateGovernedScope
    \/ collectParentBinding \/ openContent \/ readContent \/ closeContent
    \/ finalNativeState \/ finalScope \/ finalReadFails
    \/ ValidateObservation

ObNext == ObSteps \/ ObUsers
ObSpec == ObInit /\ [][ObNext]_obVars

-----------------------------------------------------------------------------
(* Properties. *)

\* Fields are read in order and statuses are those of the record contract.
ObTypeOK ==
    /\ status \in Statuses /\ file.reparse \in Tags
    /\ file.place \in Inside \cup {"out", "deleted"}
    /\ seen.post # None => seen.pre # None /\ seen.mid # None
    /\ seen.content = "Present" => seen.hashPre # None
    /\ obPc = "accepted" => witness # None /\ (seen.content # None \/ "content" \in unreadable)

\* An observation called Complete shows one state the object really was in:
\* streams, security, SACL, reparse tag, both parts of the content and the
\* path are those of a single moment, although they were read one by one
\* through four handles while users were at work.
CompleteIsSnapshot ==
    obPc = "accepted" /\ status = "Complete" =>
        /\ seen.streams = witness.streams /\ seen.security = witness.security
        /\ seen.sacl = witness.sacl /\ seen.reparse = witness.reparse
        /\ seen.post.stamp = witness.stamp /\ seen.path = witness.place
        /\ (seen.content = "Present") => seen.first = witness.data /\ seen.rest = witness.data

\* The hashes of any accepted observation are of one content: a file that was
\* written during the read has no hash, whatever the status says.
HashesAreOfOneContent ==
    obPc = "accepted" /\ seen.content = "Present" => seen.first = seen.rest

\* Whatever fails and whatever changes, the observation the collector builds
\* passes its own consistency validation: no object is lost to a status that
\* does not fit its warnings.
NeverSelfRejected == obPc # "rejected"

\* An observation that is not Complete has a cause: a read failed or somebody
\* changed something.
DegradedHasCause ==
    obPc = "accepted" /\ status # "Complete" => obChanges + obFaults > 0
=============================================================================
