----------------------------- MODULE CrlRefresh -----------------------------
(***************************************************************************)
(* FICRLRefresher: it keeps the transport CRL file that FISender validates *)
(* connections with.  An attempt is journalled, fetches the CRL the pinned *)
(* certificate names, validates it, compares it with the file in force,    *)
(* replaces the file keeping a backup, verifies it and puts the backup     *)
(* back if that fails; then it decides when to try again.                  *)
(*                                                                         *)
(* The authority issues CRL n at hour (n - 1) * CrlPeriod.  Time passes    *)
(* only between attempts, which take seconds.  Anything an attempt does    *)
(* may fail, the service may be killed anywhere, and a directory replica   *)
(* may answer with something older or wrong.                               *)
(***************************************************************************)
EXTENDS Sentinel, Integers, FiniteSetsExt

CONSTANTS
    SuccessInterval, RetryInterval, ExpiryLead, \* runtime_windows.go's 24 h, 1 h, 24 h
    CrlPeriod, CrlLifetime,                     \* the authority's schedule
    MaxHour,                                    \* bound on the clock
    MaxCrFaults                                 \* bound on faults

\* A CRL outlives its successor's publication by more than a retry.
ASSUME CrlRefreshAssumption ==
    /\ {SuccessInterval, RetryInterval, ExpiryLead, CrlPeriod} \subseteq Nat \ {0}
    /\ CrlLifetime > CrlPeriod + RetryInterval
    /\ MaxHour \in Nat /\ MaxCrFaults \in Nat

VARIABLES
    crClock,
    crActive, crBackup, \* the CRL in the active file and in the backup, or None
    crStage,            \* the staged CRL, or None
    crCandidate,        \* what the source answered
    crPc, crDue,        \* the service's next step; the hour of the next attempt
    crOutcome,          \* how the attempt went
    crJournal,          \* the last journal record
    crConfirmed,        \* history: the highest CRL number journalled as activated
    crLastFault,        \* history: the hour of the last fault or restart
    crFaults

crTrust == <<crActive, crBackup, crStage>>
crSchedule == <<crClock, crDue>>
crHistory == <<crConfirmed, crLastFault, crFaults>>
crVars == <<crTrust, crCandidate, crPc, crOutcome, crJournal, crSchedule, crHistory>>

\* A CRL number of 0 stands for a CRL that carries none.
CRL(n) == [number |-> n, this |-> (n - 1) * CrlPeriod,
           next |-> (n - 1) * CrlPeriod + CrlLifetime, defect |-> "none"]
Latest == 1 + crClock \div CrlPeriod

Defects == {"issuer", "signature", "delta", "revoked", "reissued"}
\* What a lagging replica or a broken source may answer instead.
OtherAnswers ==
    {CRL(n) : n \in 1 .. Latest - 1}
    \cup {[CRL(Latest) EXCEPT !.defect = d] : d \in Defects}
    \cup {[CRL(Latest) EXCEPT !.number = 0], CRL(Latest + 1)}
----------------------------------------------------------------------------
(* The checks.                                                             *)

\* Shared by the refresher and the sender: issuer, signature, in its validity.
ValidateCRL(c, at) ==
    c.defect \notin {"issuer", "signature"} /\ c.this <= at /\ at < c.next

RejectDeltaCRL(c) == c.defect = "delta"
certificateRevoked(c) == c.defect = "revoked"

\* Mutant: a delta list is accepted.
ValidateAnyKind(c, at) == ValidateCRL(c, at) /\ ~certificateRevoked(c)

ValidateDER(c, at) == ~RejectDeltaCRL(c) /\ ValidateCRL(c, at) /\ ~certificateRevoked(c)

\* An expired CRL may be replaced, one that is not authentic may not.
validateCurrentActivationBaseline(c, at) ==
    c.defect \notin {"issuer", "signature"} /\ c.this <= at /\ ~RejectDeltaCRL(c)

Refuse == "refuse"
Keep == "keep"
Activate == "activate"

\* Mutant: numbers and dates are not compared.
replaceAnyway(current, c) == IF c = current THEN Keep ELSE Activate

AssessReplacement(current, c) ==
    LET progressed == current.number # 0 /\ c.number > current.number IN
    IF c = current THEN Keep
    ELSE IF current.number # 0 /\ ~progressed THEN Refuse
    ELSE IF c.this < current.this \/ (c.this = current.this /\ ~progressed) THEN Refuse
    ELSE Activate

\* FISender on every connection: without it, it waits and tries again.
loadAndValidateTransportCRL == crActive # None /\ ValidateCRL(crActive, crClock)

\* Mutant: the expiry of the list does not bring the next attempt forward.
delayIgnoresExpiry(next, failed) == IF failed THEN RetryInterval ELSE SuccessInterval

\* Hours to the next attempt.
nextRefreshDelay(next, failed) ==
    LET due == Min({crClock + SuccessInterval, next - ExpiryLead}) IN
    IF failed \/ next <= crClock \/ due <= crClock THEN RetryInterval ELSE due - crClock
----------------------------------------------------------------------------
(* An attempt, step by step.                                               *)

Faulty ==
    /\ crFaults < MaxCrFaults
    /\ crFaults' = crFaults + 1
    /\ crLastFault' = crClock
    /\ UNCHANGED crConfirmed

End(outcome) == crOutcome' = outcome /\ crPc' = "Finish"

appendRefreshJournal(record) == crJournal' = record

\* Mutant: the attempt goes on when its start cannot be journalled.
attemptWithoutJournal ==
    /\ crPc = "Sleep" /\ crClock >= crDue
    /\ \/ appendRefreshJournal("Started") /\ crPc' = "Load" /\ UNCHANGED crHistory
       \/ Faulty /\ crPc' = "Load" /\ UNCHANGED crJournal
    /\ crOutcome' = None /\ crCandidate' = None /\ crStage' = None
    /\ UNCHANGED <<crActive, crBackup, crSchedule>>

\* The start is journalled first; if it cannot be, the service ends.
runRefreshAttempt ==
    /\ crPc = "Sleep" /\ crClock >= crDue
    /\ \/ appendRefreshJournal("Started") /\ crPc' = "Load" /\ UNCHANGED crHistory
       \/ Faulty /\ crPc' = "Stopped" /\ UNCHANGED crJournal
    /\ crOutcome' = None /\ crCandidate' = None /\ crStage' = None
    /\ UNCHANGED <<crActive, crBackup, crSchedule>>

\* The pinned leaf, issuer and root, which must chain.
loadRefreshCertificates ==
    /\ crPc = "Load"
    /\ \/ crPc' = "Acquire" /\ UNCHANGED <<crHistory, crOutcome>>
       \/ Faulty /\ End("Error")
    /\ UNCHANGED <<crTrust, crCandidate, crJournal, crSchedule>>

\* Over HTTP, or from a writable domain controller over LDAP.
acquireCandidate ==
    /\ crPc = "Acquire"
    /\ \/ crCandidate' = CRL(Latest) /\ crPc' = "Validate" /\ UNCHANGED <<crHistory, crOutcome>>
       \/ \E c \in OtherAnswers :
             Faulty /\ crCandidate' = c /\ crPc' = "Validate" /\ UNCHANGED crOutcome
       \/ Faulty /\ End("Error") /\ UNCHANGED crCandidate
    /\ UNCHANGED <<crTrust, crJournal, crSchedule>>

prepareRefresh ==
    /\ crPc = "Validate"
    /\ IF ValidateDER(crCandidate, crClock) THEN crPc' = "Assess" /\ UNCHANGED crOutcome
       ELSE End("Error")
    /\ UNCHANGED <<crTrust, crCandidate, crJournal, crSchedule, crHistory>>

ActivateCandidate ==
    /\ crPc = "Assess"
    /\ IF crActive = None THEN End("Error")
       ELSE IF ~validateCurrentActivationBaseline(crActive, crClock) THEN End("Error")
       ELSE CASE AssessReplacement(crActive, crCandidate) = Refuse -> End("Error")
              [] AssessReplacement(crActive, crCandidate) = Keep -> End("NoChange")
              [] OTHER -> crPc' = "Stage" /\ UNCHANGED crOutcome
    /\ UNCHANGED <<crTrust, crCandidate, crJournal, crSchedule, crHistory>>

writeActivationStage ==
    /\ crPc = "Stage"
    /\ \/ crStage' = crCandidate /\ crPc' = "Replace" /\ UNCHANGED <<crHistory, crOutcome>>
       \/ Faulty /\ End("Error") /\ UNCHANGED crStage
    /\ UNCHANGED <<crActive, crBackup, crCandidate, crJournal, crSchedule>>

\* ReplaceFileW; it may fail having moved the active file to its backup name
\* and nothing in its place.  The stage is removed either way.
ReplaceExistingFileWithBackup ==
    /\ crPc = "Replace"
    /\ \/ /\ crActive' = crStage /\ crBackup' = crActive
          /\ crPc' = "Verify" /\ UNCHANGED <<crHistory, crOutcome>>
       \/ Faulty /\ End("Error") /\ UNCHANGED <<crActive, crBackup>>
       \/ Faulty /\ End("Error") /\ crActive' = None /\ crBackup' = crActive
    /\ crStage' = None
    /\ UNCHANGED <<crCandidate, crJournal, crSchedule>>

VerifyPersistedPEM ==
    /\ crPc = "Verify"
    /\ \/ crActive = crCandidate /\ End("Activated") /\ UNCHANGED crHistory
       \/ Faulty /\ crPc' = "Rollback" /\ UNCHANGED crOutcome
    /\ UNCHANGED <<crTrust, crCandidate, crJournal, crSchedule>>

restorePreviousCRL ==
    /\ crPc = "Rollback"
    /\ \/ crActive' = crBackup /\ crBackup' = None /\ UNCHANGED crHistory
       \/ Faulty /\ UNCHANGED <<crActive, crBackup>>
    /\ End("Error")
    /\ UNCHANGED <<crStage, crCandidate, crJournal, crSchedule>>

\* The outcome is journalled, and the next attempt scheduled.
finishRefreshAttempt ==
    /\ crPc = "Finish"
    /\ \/ /\ appendRefreshJournal(crOutcome) /\ crPc' = "Sleep"
          /\ crDue' = crClock + nextRefreshDelay(IF crCandidate = None THEN 0 ELSE crCandidate.next,
                                                 crOutcome = "Error")
          /\ crConfirmed' = IF crOutcome = "Activated" THEN crActive.number ELSE crConfirmed
          /\ UNCHANGED <<crLastFault, crFaults>>
       \/ Faulty /\ crPc' = "Stopped" /\ UNCHANGED <<crJournal, crDue>>
    /\ UNCHANGED <<crTrust, crCandidate, crOutcome, crClock>>
----------------------------------------------------------------------------
serviceKilled ==
    /\ crPc # "Stopped" /\ Faulty
    /\ crPc' = "Stopped"
    /\ UNCHANGED <<crTrust, crCandidate, crOutcome, crJournal, crSchedule>>

\* The loop begins with an attempt.
runRefreshLoop ==
    /\ crPc = "Stopped"
    /\ crPc' = "Sleep" /\ crDue' = crClock /\ crLastFault' = crClock
    /\ UNCHANGED <<crTrust, crCandidate, crOutcome, crJournal, crClock, crConfirmed, crFaults>>

hourPasses ==
    /\ crClock < MaxHour
    /\ crPc = "Stopped" \/ (crPc = "Sleep" /\ crClock < crDue)
    /\ crClock' = crClock + 1
    /\ UNCHANGED <<crTrust, crCandidate, crPc, crOutcome, crJournal, crDue, crHistory>>
----------------------------------------------------------------------------
\* The installer left the first CRL in place.
CrInit ==
    /\ crClock = 0
    /\ crActive = CRL(1) /\ crBackup = None /\ crStage = None /\ crCandidate = None
    /\ crPc = "Sleep" /\ crDue = 0 /\ crOutcome = None /\ crJournal = None
    /\ crConfirmed = 1 /\ crLastFault = -RetryInterval - 1 /\ crFaults = 0

CrNext ==
    \/ runRefreshAttempt \/ loadRefreshCertificates \/ acquireCandidate \/ prepareRefresh \/ ActivateCandidate
    \/ writeActivationStage \/ ReplaceExistingFileWithBackup \/ VerifyPersistedPEM
    \/ restorePreviousCRL \/ finishRefreshAttempt
    \/ serviceKilled \/ runRefreshLoop \/ hourPasses

CrSpec == CrInit /\ [][CrNext]_crVars
----------------------------------------------------------------------------
\* Types: what is in force was issued by the authority, without a defect the
\* checks look for, and not in the future.
CrTypeOK ==
    /\ crClock \in 0 .. MaxHour /\ crFaults \in 0 .. MaxCrFaults
    /\ crActive # None => crActive.defect \in {"none", "reissued"} /\ crActive.this <= crClock
    /\ crPc \in {"Sleep", "Load", "Acquire", "Validate", "Assess", "Stage", "Replace", "Verify",
                 "Rollback", "Finish", "Stopped"}
    /\ crOutcome \in {None, "Error", "NoChange", "Activated"}

\* A revocation list once journalled as activated is never replaced by an
\* older one, whatever a replica answers and wherever the service is killed
\* or puts a backup back (AssessReplacement, activateCandidate).
TrustNeverOlder == crActive # None => crActive.number >= crConfirmed

\* "FI must never evaluate or mutate transport trust without its audit
\* boundary": the active file changes only inside a journalled attempt.
MutationIsJournaled == crActive' # crActive => crJournal = "Started"

\* Once a retry interval has passed without a fault the sender has a CRL in
\* its validity, so an expired one has been replaced, and as long as nothing
\* fails the CRL in force never expires (nextRefreshDelay).  A file that
\* ReplaceFileW lost is not found again.
FreshAfterRetry ==
    crActive # None /\ crPc # "Stopped" /\ crClock > crLastFault + RetryInterval
        => loadAndValidateTransportCRL
=============================================================================
