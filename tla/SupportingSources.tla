------------------------- MODULE SupportingSources -------------------------
(***************************************************************************)
(* The refresh of supporting sources (collector identity, SMB shares,      *)
(* local principals, bounded directory snapshots) and the file of relevant *)
(* SIDs it shares with the USN lanes of the governed roots.  SIDs of the   *)
(* collector's domain are numbers, in their sorted order.                  *)
(***************************************************************************)
EXTENDS Sentinel, Integers, Sequences, FiniteSets, SequencesExt

CONSTANTS
    AccountSIDs,     \* SIDs of the current domain
    ForeignSIDs,     \* other SIDs: well-known, local, of another domain
    SidLanes,        \* USN lanes that merge what they observe
    DirectoryBatch,  \* SIDs of one directory lookup
    SidLimit,        \* bound of the observed set and of the file
    MaxSidFaults     \* bound on failures and crashes

ASSUME SupportingAssumption ==
    /\ AccountSIDs \subseteq Nat /\ DirectoryBatch \in Nat \ {0}
    /\ SidLimit \in Nat /\ MaxSidFaults \in Nat

Lanes == SidLanes \cup {"refresh"}

VARIABLES
    sidFile,    \* relevant SIDs on disk, or None before the first baseline
    sidMutex,   \* lane inside a read-merge-write, or None
    sidLanePc, laneSIDs,   \* every lane's position and observed SIDs
    laneView,   \* the file as the lane in the mutex loaded it
    overflow,   \* the refresh has seen more SIDs than it can hold
    known,      \* SIDs in the file when the refresh loaded it
    lookups,    \* sorted SIDs the refresh still has to look up
    queried,    \* SIDs it has looked up
    sourceErrors,   \* its source errors are on record
    refreshed,  \* outcome of the last refresh
    sidFaults

sidVars == <<sidFile, sidMutex, sidLanePc, laneSIDs, laneView, overflow, known, lookups,
             queried, sourceErrors, refreshed, sidFaults>>

\* The bounded set of observed SIDs: what does not fit is not added, but noticed.
observedSIDSetAdd(set, new) ==
    {[sids |-> S, overflow |-> S # set \cup new] :
        S \in {X \in SUBSET (set \cup new) :
                  /\ set \subseteq X /\ Cardinality(X) <= SidLimit
                  /\ X = set \cup new \/ Cardinality(X) = SidLimit}}

currentDomainObservedSIDs(sids) == sids \cap AccountSIDs
----------------------------------------------------------------------------
(* A USN lane merges the SIDs of the objects it has spooled.               *)

usnObserves(l) ==
    /\ sidLanePc[l] = "idle"
    /\ \E S \in SUBSET (AccountSIDs \cup ForeignSIDs) :
          S # {} /\ laneSIDs' = [laneSIDs EXCEPT ![l] = S]
    /\ sidLanePc' = [sidLanePc EXCEPT ![l] = "Merge"]
    /\ UNCHANGED <<sidFile, sidMutex, laneView, overflow, known, lookups, queried,
                   sourceErrors, refreshed, sidFaults>>

\* Mutant: the file is loaded without waiting for the mutex.
loadUnlocked(l) ==
    /\ sidLanePc[l] = "Merge"
    /\ sidMutex' = l
    /\ laneView' = sidFile
    /\ sidLanePc' = [sidLanePc EXCEPT ![l] = "Write"]
    /\ UNCHANGED <<sidFile, laneSIDs, overflow, known, lookups, queried, sourceErrors,
                   refreshed, sidFaults>>

\* The file is loaded under the mutex.
loadForMerge(l) ==
    /\ sidLanePc[l] = "Merge" /\ sidMutex = None
    /\ sidMutex' = l
    /\ laneView' = sidFile
    /\ sidLanePc' = [sidLanePc EXCEPT ![l] = "Write"]
    /\ UNCHANGED <<sidFile, laneSIDs, overflow, known, lookups, queried, sourceErrors,
                   refreshed, sidFaults>>

\* What the file holds plus the new SIDs of the domain, if within its limit.
mergedSIDs(view, sids) == (IF view = None THEN {} ELSE view) \cup currentDomainObservedSIDs(sids)

\* A lane that saw no SID of the domain leaves the file alone; one beyond the limit
\* fails.
usnMerges(l) ==
    /\ l \in SidLanes /\ sidLanePc[l] = "Write"
    /\ sidFile' = IF /\ currentDomainObservedSIDs(laneSIDs[l]) # {}
                     /\ Cardinality(mergedSIDs(laneView, laneSIDs[l])) <= SidLimit
                  THEN mergedSIDs(laneView, laneSIDs[l]) ELSE sidFile
    /\ sidMutex' = None
    /\ sidLanePc' = [sidLanePc EXCEPT ![l] = "idle"]
    /\ laneSIDs' = [laneSIDs EXCEPT ![l] = {}]
    /\ laneView' = None
    /\ UNCHANGED <<overflow, known, lookups, queried, sourceErrors, refreshed, sidFaults>>
----------------------------------------------------------------------------
(* The refresh.                                                            *)

refreshFails ==
    /\ sidLanePc' = [sidLanePc EXCEPT !["refresh"] = "idle"]
    /\ refreshed' = "Failed"

\* The collector's own identity is required; shares and local principals that
\* cannot be read are source errors.
collectSupportingSourceContext ==
    /\ sidLanePc["refresh"] = "idle"
    /\ \E S \in SUBSET (AccountSIDs \cup ForeignSIDs), failed \in BOOLEAN :
          \E set \in observedSIDSetAdd({}, S) :
             /\ laneSIDs' = [laneSIDs EXCEPT !["refresh"] = set.sids]
             /\ overflow' = set.overflow
             /\ sourceErrors' = failed
    /\ sidLanePc' = [sidLanePc EXCEPT !["refresh"] = "Load"]
    /\ known' = {} /\ lookups' = <<>> /\ queried' = {} /\ refreshed' = None
    /\ UNCHANGED <<sidFile, sidMutex, laneView, sidFaults>>

\* Every SID that was ever relevant is looked up again: without the file, or if
\* they do not all fit, there is no refresh.
loadSupportingSIDState ==
    /\ sidLanePc["refresh"] = "Load"
    /\ \/ /\ sidFile = None \/ overflow
          /\ refreshFails
          /\ UNCHANGED <<laneSIDs, overflow, known, lookups>>
       \/ /\ sidFile # None /\ ~overflow
          /\ \E set \in observedSIDSetAdd(laneSIDs["refresh"], sidFile) :
                /\ laneSIDs' = [laneSIDs EXCEPT !["refresh"] = set.sids]
                /\ overflow' = set.overflow
                /\ lookups' = SetToSortSeq(currentDomainObservedSIDs(set.sids), <)
                /\ IF set.overflow THEN refreshFails
                   ELSE /\ sidLanePc' = [sidLanePc EXCEPT !["refresh"] = "Directory"]
                        /\ UNCHANGED refreshed
          /\ known' = sidFile
    /\ UNCHANGED <<sidFile, sidMutex, laneView, queried, sourceErrors, sidFaults>>

\* Mutant: only the first bounded lookup is made.
collectOneLookup ==
    /\ sidLanePc["refresh"] = "Directory" /\ lookups # <<>>
    /\ LET n == IF Len(lookups) < DirectoryBatch THEN Len(lookups) ELSE DirectoryBatch
           asked == Range(SubSeq(lookups, 1, n))
       IN /\ queried' = queried \cup asked
          /\ lookups' = <<>>
          /\ \E groups \in SUBSET AccountSIDs :
                \E set \in observedSIDSetAdd(laneSIDs["refresh"], groups) :
                   /\ laneSIDs' = [laneSIDs EXCEPT !["refresh"] = set.sids]
                   /\ overflow' = (overflow \/ set.overflow)
    /\ UNCHANGED <<sidFile, sidMutex, sidLanePc, laneView, known, sourceErrors, refreshed,
                   sidFaults>>

\* One bounded lookup after another; each answers with principals of the domain and
\* their groups.  The first that fails ends them, as a source error.
collectDirectorySource ==
    /\ sidLanePc["refresh"] = "Directory" /\ lookups # <<>>
    /\ LET n == IF Len(lookups) < DirectoryBatch THEN Len(lookups) ELSE DirectoryBatch
           asked == Range(SubSeq(lookups, 1, n))
       IN /\ queried' = queried \cup asked
          /\ lookups' = SubSeq(lookups, n + 1, Len(lookups))
          /\ \E groups \in SUBSET AccountSIDs :
                \E set \in observedSIDSetAdd(laneSIDs["refresh"], groups) :
                   /\ laneSIDs' = [laneSIDs EXCEPT !["refresh"] = set.sids]
                   /\ overflow' = (overflow \/ set.overflow)
    /\ UNCHANGED <<sidFile, sidMutex, sidLanePc, laneView, known, sourceErrors, refreshed,
                   sidFaults>>

directoryError ==
    /\ sidLanePc["refresh"] = "Directory" /\ sidFaults < MaxSidFaults
    /\ sidFaults' = sidFaults + 1
    /\ sourceErrors' = TRUE /\ lookups' = <<>>
    /\ UNCHANGED <<sidFile, sidMutex, sidLanePc, laneSIDs, laneView, overflow, known,
                   queried, refreshed>>

\* With no SID of the domain to look up there is no directory source.
spoolRefresh ==
    /\ sidLanePc["refresh"] = "Directory" /\ lookups = <<>>
    /\ sourceErrors' = (sourceErrors \/ queried = {})
    /\ sidLanePc' = [sidLanePc EXCEPT !["refresh"] = "Merge"]
    /\ UNCHANGED <<sidFile, sidMutex, laneSIDs, laneView, overflow, known, lookups,
                   queried, refreshed, sidFaults>>

\* The records are durable; the file follows them.
saveRefreshedSIDs ==
    /\ sidLanePc["refresh"] = "Write"
    /\ LET merged == mergedSIDs(laneView, laneSIDs["refresh"])
       IN IF overflow \/ Cardinality(merged) > SidLimit
          THEN refreshFails /\ UNCHANGED sidFile
          ELSE /\ sidFile' = merged
               /\ refreshed' = IF sourceErrors THEN "Partial" ELSE "Complete"
               /\ sidLanePc' = [sidLanePc EXCEPT !["refresh"] = "idle"]
    /\ sidMutex' = None /\ laneView' = None
    /\ UNCHANGED <<laneSIDs, overflow, known, lookups, queried, sourceErrors, sidFaults>>

\* A lane fails, or the process dies with all of them; the file is replaced whole or
\* not at all.
sidInterrupted ==
    /\ sidFaults < MaxSidFaults
    /\ sidFaults' = sidFaults + 1
    /\ sidMutex' = None /\ laneView' = None
    /\ sidLanePc' = [l \in Lanes |-> "idle"]
    /\ laneSIDs' = [l \in Lanes |-> {}]
    /\ overflow' = FALSE /\ known' = {} /\ lookups' = <<>> /\ queried' = {}
    /\ sourceErrors' = FALSE /\ refreshed' = None
    /\ UNCHANGED sidFile

\* The first baseline has left its SIDs, or there was none yet.
SidInit ==
    /\ sidFile \in {None} \cup SUBSET AccountSIDs
    /\ sidFile # None => Cardinality(sidFile) <= SidLimit
    /\ sidMutex = None
    /\ sidLanePc = [l \in Lanes |-> "idle"] /\ laneSIDs = [l \in Lanes |-> {}]
    /\ laneView = None /\ overflow = FALSE /\ known = {} /\ lookups = <<>>
    /\ queried = {} /\ sourceErrors = FALSE /\ refreshed = None /\ sidFaults = 0

SidNext ==
    \/ \E l \in SidLanes : usnObserves(l) \/ usnMerges(l)
    \/ \E l \in Lanes : loadForMerge(l)
    \/ collectSupportingSourceContext \/ loadSupportingSIDState \/ collectDirectorySource
    \/ directoryError \/ spoolRefresh \/ saveRefreshedSIDs \/ sidInterrupted

SidSpec == SidInit /\ [][SidNext]_sidVars
----------------------------------------------------------------------------
(* Properties.                                                             *)

\* Types: the file holds SIDs of the domain only, and the lock one lane.
SidTypeOK ==
    /\ sidFile \in {None} \cup SUBSET AccountSIDs
    /\ sidMutex \in Lanes \cup {None}
    /\ sidLanePc \in [Lanes -> {"idle", "Load", "Directory", "Merge", "Write"}]
    /\ laneSIDs \in [Lanes -> SUBSET (AccountSIDs \cup ForeignSIDs)]
    /\ overflow \in BOOLEAN /\ sourceErrors \in BOOLEAN
    /\ refreshed \in {None, "Complete", "Partial", "Failed"}

\* A SID that became relevant is never forgotten, whichever lanes read, merge and
\* write the file around each other.
SIDsNeverForgotten ==
    sidFile # None => (sidFile' # None /\ sidFile \subseteq sidFile')

\* A refresh that calls itself complete has looked up every SID that was relevant
\* when it began, however many lookups that took.
CompleteRefreshCoversKnown == refreshed = "Complete" => known \subseteq queried
=============================================================================
