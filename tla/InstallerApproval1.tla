------------------------- MODULE InstallerApproval1 -------------------------
(***************************************************************************)
(* Approval 1 of the Windows installer: the directory accounts (gMSAs) and *)
(* the machine certificates of the source.  One run plans from discovered  *)
(* state, is approved by digest, discovers again, creates the missing      *)
(* accounts, authorizes and enrolls the certificates, and rediscovers; a   *)
(* failure removes the accounts the run created and keeps the certificates *)
(* it has accepted.  Beside it other administrators create accounts, other *)
(* enrollers add certificates, calls fail, and the installer is killed and *)
(* started again.                                                          *)
(***************************************************************************)
EXTENDS Sentinel, Integers, Sequences, FiniteSets, TLC, SequencesExt

CONSTANTS
    Identities,     \* the FI service accounts, in the order they are created
    MaxA1Faults,    \* bound on failing calls and kills
    MaxForeign,     \* bound on what other administrators and enrollers do
    MaxCerts,       \* bound on certificate serial numbers
    RacingEnroller, \* another enroller may run while the installer enrolls
    TransientTrust  \* the search for a reusable certificate may find the
                    \* revocation service unreachable

ASSUME Approval1Assumption ==
    /\ Identities \in Seq(STRING) /\ IsInjective(Identities)
    /\ MaxA1Faults \in Nat /\ MaxForeign \in Nat /\ MaxCerts \in Nat
    /\ RacingEnroller \in BOOLEAN /\ TransientTrust \in BOOLEAN

VARIABLES
    gmsas,        \* account -> "absent", "exact" or "drift", in the directory
    inGroup,      \* the computer is in ISS-FI-Certificate-Enrollment
    certs,        \* LocalMachine\MY, certificates of the two templates
    keys,         \* serial numbers of the certificates with their private key
    a1Pc,         \* what the run is about to do
    a1Template,   \* the certificate it works on
    a1Approved,   \* the plan the operator approved
    a1Created,    \* the accounts this run owns, in order
    a1GroupAdded, \* it added the computer to the group
    a1Before,     \* serials of certificates and of keys before enrolling
    a1EnrollErr,  \* what CertEnroll said
    a1Owned,      \* the certificate it has to take back, or None
    a1Durable,    \* certificates it has accepted
    a1Errors,     \* some step of its rollback failed
    accepted,     \* history: certificates any run has accepted
    groupAtStart, \* history: inGroup when the run started to mutate
    others,       \* history: accounts that somebody else created
    a1Faults, a1Foreign

a1Host == <<gmsas, inGroup, certs, keys>>
a1Memory == <<a1Template, a1Approved, a1Created, a1GroupAdded, a1Before, a1EnrollErr,
              a1Owned, a1Durable, a1Errors>>
a1History == <<accepted, groupAtStart, others>>
a1Vars == <<gmsas, inGroup, certs, keys, a1Pc, a1Template, a1Approved, a1Created,
            a1GroupAdded, a1Before, a1EnrollErr, a1Owned, a1Durable, a1Errors,
            accepted, groupAtStart, others, a1Faults, a1Foreign>>

Templates == <<"FI-Transport-Client", "FI-Batch-Signing">>
IdentitySet == ToSet(Identities)
SerialsOf(s) == {c.serial : c \in s}

\* The certificates of template t in LocalMachine\MY, and the machine keys.
certificatesOf(t) == {c \in certs : c.template = t}
snapshotFIMachineCNGKeys == keys

\* What the directory holds under the name of account i.
findGMSA(i) == gmsas[i]

A1Fault == a1Faults < MaxA1Faults /\ a1Faults' = a1Faults + 1
A1Ok == UNCHANGED a1Faults
----------------------------------------------------------------------------
(* Discovery and plan.                                                     *)

\* The accounts to create, the accounts to reconcile, and that the
\* certificates are missing: transport trust is not configured before
\* Approval 2.
planAccounts == [create |-> {i \in IdentitySet : findGMSA(i) = "absent"},
                 reconcile |-> {i \in IdentitySet : findGMSA(i) = "drift"}]

\* The operator reviews the plan and types the token of its digest.
PromptApprovalBoundary ==
    /\ a1Pc = "Plan"
    /\ a1Approved' = planAccounts
    /\ a1Pc' = "Approved"
    /\ UNCHANGED <<a1Template, a1Created, a1GroupAdded, a1Before, a1EnrollErr,
                   a1Owned, a1Durable, a1Errors>>
    /\ UNCHANGED <<a1Host, a1History>> /\ A1Ok

\* State is discovered again; a different digest ends the run untouched.  So
\* does an account to reconcile: only creation is implemented.
revalidate ==
    /\ a1Pc = "Approved"
    /\ a1Pc' = IF planAccounts = a1Approved /\ a1Approved.reconcile = {}
               THEN "Create" ELSE "Refused"
    /\ groupAtStart' = inGroup
    /\ UNCHANGED <<a1Host, a1Memory, accepted, others>> /\ A1Ok
----------------------------------------------------------------------------
(* Accounts.                                                               *)

ToCreate == SelectSeq(Identities, LAMBDA i : /\ i \in a1Approved.create
                                              /\ i \notin ToSet(a1Created))

\* Mutant: an account found by the second search is the transaction's.
foundAccountOwned ==
    /\ a1Pc = "Create" /\ ToCreate # <<>>
    /\ LET i == Head(ToCreate) IN
       \/ \* search failed, or found an account
          /\ \/ findGMSA(i) # "absent" /\ A1Ok
             \/ A1Fault
          /\ a1Pc' = "RollbackAD"
          /\ UNCHANGED gmsas /\ a1Created' = Append(a1Created, i)
       \/ \* ldap_add failed; the object may exist all the same
          /\ gmsas[i] = "absent" /\ A1Fault
          /\ \/ gmsas' = [gmsas EXCEPT ![i] = "exact"]
             \/ UNCHANGED gmsas
          /\ a1Pc' = "RollbackAD"
          /\ UNCHANGED a1Created
       \/ \* added; verification passes or fails
          /\ gmsas[i] = "absent"
          /\ gmsas' = [gmsas EXCEPT ![i] = "exact"]
          /\ a1Created' = Append(a1Created, i)
          /\ \/ A1Ok /\ a1Pc' = "Create"
             \/ A1Fault /\ a1Pc' = "RollbackAD"
    /\ UNCHANGED <<inGroup, certs, keys, a1Template, a1Approved, a1GroupAdded, a1Before,
                   a1EnrollErr, a1Owned, a1Durable, a1Errors, a1History>>

\* One account: searched again, added, searched and verified.  Only a
\* successful add makes it the transaction's own.
createFIGroupManagedServiceAccountTracked ==
    /\ a1Pc = "Create" /\ ToCreate # <<>>
    /\ LET i == Head(ToCreate) IN
       \/ \* search failed, or found an account
          /\ \/ findGMSA(i) # "absent" /\ A1Ok
             \/ A1Fault
          /\ a1Pc' = "RollbackAD"
          /\ UNCHANGED <<gmsas, a1Created>>
       \/ \* ldap_add failed; the object may exist all the same
          /\ gmsas[i] = "absent" /\ A1Fault
          /\ \/ gmsas' = [gmsas EXCEPT ![i] = "exact"]
             \/ UNCHANGED gmsas
          /\ a1Pc' = "RollbackAD"
          /\ UNCHANGED a1Created
       \/ \* added; verification passes or fails
          /\ gmsas[i] = "absent"
          /\ gmsas' = [gmsas EXCEPT ![i] = "exact"]
          /\ a1Created' = Append(a1Created, i)
          /\ \/ A1Ok /\ a1Pc' = "Create"
             \/ A1Fault /\ a1Pc' = "RollbackAD"
    /\ UNCHANGED <<inGroup, certs, keys, a1Template, a1Approved, a1GroupAdded, a1Before,
                   a1EnrollErr, a1Owned, a1Durable, a1Errors, a1History>>

accountsCreated ==
    /\ a1Pc = "Create" /\ ToCreate = <<>>
    /\ a1Pc' = "Authorize"
    /\ UNCHANGED <<a1Host, a1Memory, a1History>> /\ A1Ok

\* Rollback takes the created accounts in reverse order and deletes each one
\* that is still exactly what was created; errors are collected.
rollbackApproval1ADCreated ==
    /\ a1Pc = "RollbackAD" /\ a1Created # <<>>
    /\ LET i == Last(a1Created) IN
       \/ /\ gmsas[i] \in {"absent", "exact"} /\ A1Ok
          /\ gmsas' = [gmsas EXCEPT ![i] = "absent"]
          /\ UNCHANGED a1Errors
       \/ /\ \/ gmsas[i] = "drift" /\ A1Ok
             \/ A1Fault
          /\ a1Errors' = TRUE
          /\ UNCHANGED gmsas
    /\ a1Created' = Front(a1Created)
    /\ UNCHANGED <<inGroup, certs, keys, a1Pc, a1Template, a1Approved, a1GroupAdded,
                   a1Before, a1EnrollErr, a1Owned, a1Durable, a1History>>

runFailed ==
    /\ a1Pc = "RollbackAD" /\ a1Created = <<>>
    /\ a1Pc' = "Failed"
    /\ UNCHANGED <<a1Host, a1Memory, a1History>> /\ A1Ok
----------------------------------------------------------------------------
(* The computer's enrollment authorization.                                *)

\* Mutant: the membership is not taken back.
membershipLeft == UNCHANGED <<inGroup, a1Errors>> /\ A1Ok

\* Taking the membership back: NetGroupDelUser and a ticket purge.
rollbackMachineCertificateEnrollmentAuthorization ==
    \/ a1GroupAdded /\ inGroup' = FALSE /\ UNCHANGED a1Errors /\ A1Ok
    \/ a1GroupAdded /\ A1Fault /\ a1Errors' = TRUE /\ UNCHANGED inGroup
    \/ ~a1GroupAdded /\ UNCHANGED <<inGroup, a1Errors>> /\ A1Ok

\* Mutant: a computer that is a member already is refused.
memberRefused ==
    /\ a1Pc = "Authorize"
    /\ \/ /\ inGroup' = TRUE /\ a1GroupAdded' = ~inGroup /\ A1Ok
          /\ a1Pc' = (IF inGroup THEN "RollbackAD" ELSE "Find") /\ a1Template' = 1
       \/ \* reading or adding failed
          /\ A1Fault /\ a1Pc' = "RollbackAD"
          /\ UNCHANGED <<inGroup, a1GroupAdded, a1Template>>
       \/ \* added, but not effective or tickets not purged
          /\ A1Fault /\ inGroup' = TRUE /\ a1GroupAdded' = ~inGroup
          /\ a1Pc' = "RollbackGroup"
          /\ UNCHANGED a1Template
    /\ UNCHANGED <<gmsas, certs, keys, a1Approved, a1Created, a1Before, a1EnrollErr,
                   a1Owned, a1Durable, a1Errors, a1History>>

\* The computer joins the group unless it is a member; its effective groups
\* are read again and SYSTEM's Kerberos tickets purged.
ensureMachineCertificateEnrollmentAuthorization ==
    /\ a1Pc = "Authorize"
    /\ \/ /\ inGroup' = TRUE /\ a1GroupAdded' = ~inGroup /\ A1Ok
          /\ a1Pc' = "Find" /\ a1Template' = 1
       \/ \* reading or adding failed
          /\ A1Fault /\ a1Pc' = "RollbackAD"
          /\ UNCHANGED <<inGroup, a1GroupAdded, a1Template>>
       \/ \* added, but not effective or tickets not purged
          /\ A1Fault /\ inGroup' = TRUE /\ a1GroupAdded' = ~inGroup
          /\ a1Pc' = "RollbackGroup"
          /\ UNCHANGED a1Template
    /\ UNCHANGED <<gmsas, certs, keys, a1Approved, a1Created, a1Before, a1EnrollErr,
                   a1Owned, a1Durable, a1Errors, a1History>>

rollbackGroup ==
    /\ a1Pc = "RollbackGroup"
    /\ rollbackMachineCertificateEnrollmentAuthorization
    /\ a1Pc' = "RollbackAD"
    /\ UNCHANGED <<gmsas, certs, keys, a1Template, a1Approved, a1Created, a1GroupAdded,
                   a1Before, a1EnrollErr, a1Owned, a1Durable, a1History>>
----------------------------------------------------------------------------
(* Certificates.                                                           *)

\* Contract, private key, chain and revocation of a certificate.
verifyTrackedPKIEnrollment(c) == c.serial \in keys

\* Where a failed identity leads: before the transport identity is accepted
\* the group membership is taken back too.
identityFailed == IF a1Template = 1 THEN "RollbackGroup" ELSE "RollbackAD"

\* The identity is accepted; it is durable from here on.
accept(c) ==
    /\ a1Durable' = a1Durable \cup {c}
    /\ accepted' = accepted \cup {c}
    /\ IF a1Template = Len(Templates)
       THEN a1Pc' = "Handoff" /\ UNCHANGED a1Template
       ELSE a1Pc' = "Find" /\ a1Template' = a1Template + 1

\* Mutant: no certificate counts as reusable.
enrollAlways ==
    /\ a1Pc = "Find"
    /\ \E unverifiable \in {{}} \cup (IF TransientTrust /\ a1Faults < MaxA1Faults
                                     THEN {certificatesOf(Templates[a1Template])} \ {{}} ELSE {}) :
          LET valid == {c \in certificatesOf(Templates[a1Template]) \ unverifiable :
                          verifyTrackedPKIEnrollment(c)}
          IN /\ IF unverifiable = {} THEN A1Ok ELSE A1Fault
             /\ CASE TRUE -> /\ a1Pc' = "Enroll"
                                   /\ UNCHANGED <<a1Template, a1Durable, accepted>>
                  [] FALSE -> \A c \in valid : accept(c)
                  [] OTHER -> /\ a1Pc' = identityFailed
                              /\ UNCHANGED <<a1Template, a1Durable, accepted>>
    /\ UNCHANGED <<a1Host, a1Approved, a1Created, a1GroupAdded, a1Before, a1EnrollErr,
                   a1Owned, a1Errors, groupAtStart, others>>

\* A certificate of the template that verifies is reused; several are refused.
FindReusable ==
    /\ a1Pc = "Find"
    /\ \E unverifiable \in {{}} \cup (IF TransientTrust /\ a1Faults < MaxA1Faults
                                     THEN {certificatesOf(Templates[a1Template])} \ {{}} ELSE {}) :
          LET valid == {c \in certificatesOf(Templates[a1Template]) \ unverifiable :
                          verifyTrackedPKIEnrollment(c)}
          IN /\ IF unverifiable = {} THEN A1Ok ELSE A1Fault
             /\ CASE valid = {} -> /\ a1Pc' = "Enroll"
                                   /\ UNCHANGED <<a1Template, a1Durable, accepted>>
                  [] Cardinality(valid) = 1 -> \A c \in valid : accept(c)
                  [] OTHER -> /\ a1Pc' = identityFailed
                              /\ UNCHANGED <<a1Template, a1Durable, accepted>>
    /\ UNCHANGED <<a1Host, a1Approved, a1Created, a1GroupAdded, a1Before, a1EnrollErr,
                   a1Owned, a1Errors, groupAtStart, others>>

\* Certificates of the template and machine keys are listed.
snapshotBeforeEnroll ==
    /\ a1Pc = "Enroll"
    /\ \/ /\ a1Before' = [certs |-> SerialsOf(certificatesOf(Templates[a1Template])),
                        keys |-> snapshotFIMachineCNGKeys]
          /\ a1Pc' = "Invoke" /\ A1Ok
       \/ A1Fault /\ a1Pc' = identityFailed /\ UNCHANGED a1Before
    /\ UNCHANGED <<a1Host, a1Template, a1Approved, a1Created, a1GroupAdded, a1EnrollErr,
                   a1Owned, a1Durable, a1Errors, a1History>>

NewSerial == CHOOSE n \in 1 .. MaxCerts : n \notin SerialsOf(certs \cup accepted) \cup keys
CanIssue == \E n \in 1 .. MaxCerts : n \notin SerialsOf(certs \cup accepted) \cup keys

Issue(t, by) ==
    /\ CanIssue
    /\ certs' = certs \cup {[template |-> t, serial |-> NewSerial, by |-> by]}
    /\ keys' = keys \cup {NewSerial}

\* CertEnroll installs a certificate and its key, or fails; a failure may be
\* reported after the certificate was installed.
enrollMachineCertificateTemplate ==
    /\ a1Pc = "Invoke"
    /\ \/ Issue(Templates[a1Template], "installer") /\ a1EnrollErr' = FALSE /\ A1Ok
       \/ Issue(Templates[a1Template], "installer") /\ a1EnrollErr' = TRUE /\ A1Fault
       \/ UNCHANGED <<certs, keys>> /\ a1EnrollErr' = TRUE /\ A1Fault
    /\ a1Pc' = "Enrolled"
    /\ UNCHANGED <<gmsas, inGroup, a1Template, a1Approved, a1Created, a1GroupAdded,
                   a1Before, a1Owned, a1Durable, a1Errors, a1History>>

addedCertificates == {c \in certificatesOf(Templates[a1Template]) : c.serial \notin a1Before.certs}
addedKeys == snapshotFIMachineCNGKeys \ a1Before.keys

\* The lists are taken again.  A single new certificate whose key is new is
\* the transaction's; it is accepted if CertEnroll succeeded, the key is the
\* only new one and the certificate verifies, and taken back otherwise.
enrollMachineCertificateTemplateTracked ==
    /\ a1Pc = "Enrolled"
    /\ \/ \* a list cannot be read, or there is not exactly one new certificate
          /\ \/ A1Fault
             \/ Cardinality(addedCertificates) # 1 /\ A1Ok
          /\ a1Pc' = identityFailed
          /\ UNCHANGED <<a1Template, a1Owned, a1Durable, accepted>>
       \/ /\ Cardinality(addedCertificates) = 1
          /\ \A c \in addedCertificates :
             \/ /\ ~a1EnrollErr /\ addedKeys = {c.serial} /\ A1Ok
                /\ accept(c)
                /\ UNCHANGED a1Owned
             \/ /\ c.serial \in addedKeys
                /\ \/ (a1EnrollErr \/ Cardinality(addedKeys) # 1) /\ A1Ok
                   \/ ~a1EnrollErr /\ A1Fault   \* verification fails
                /\ a1Owned' = c /\ a1Pc' = "TakeBack"
                /\ UNCHANGED <<a1Template, a1Durable, accepted>>
    /\ UNCHANGED <<a1Host, a1Approved, a1Created, a1GroupAdded, a1Before, a1EnrollErr,
                   a1Errors, groupAtStart, others>>

\* The private key is deleted, then the certificate; either may fail.
rollbackOwnedPKIEnrollment ==
    /\ a1Pc = "TakeBack"
    /\ \/ /\ certs' = certs \ {a1Owned} /\ keys' = keys \ {a1Owned.serial}
          /\ UNCHANGED a1Errors /\ A1Ok
       \/ /\ A1Fault /\ a1Errors' = TRUE
          /\ keys' \in {keys, keys \ {a1Owned.serial}}
          /\ UNCHANGED certs
    /\ a1Owned' = None /\ a1Pc' = identityFailed
    /\ UNCHANGED <<gmsas, inGroup, a1Template, a1Approved, a1Created, a1GroupAdded,
                   a1Before, a1EnrollErr, a1Durable, a1History>>

\* Mutant: a failed handoff takes the accepted certificates back.
handoffFailureTakesBack ==
    /\ a1Pc = "Handoff"
    /\ \/ /\ \A t \in ToSet(Templates) :
                Cardinality({c \in certificatesOf(t) : verifyTrackedPKIEnrollment(c)}) = 1
          /\ a1Pc' = "Post" /\ A1Ok /\ UNCHANGED certs
       \/ /\ \/ /\ A1Ok
                /\ \E t \in ToSet(Templates) :
                      Cardinality({c \in certificatesOf(t) : verifyTrackedPKIEnrollment(c)}) # 1
             \/ A1Fault
          /\ a1Pc' = "RollbackAD" /\ certs' = certs \ a1Durable
    /\ UNCHANGED <<gmsas, inGroup, keys, a1Memory, a1History>>

\* The two durable identities are discovered once more, the issuer, the root
\* and the revocation list derived from them: the handoff to Approval 2.
finalizeApproval1PKIHandoff ==
    /\ a1Pc = "Handoff"
    /\ \/ /\ \A t \in ToSet(Templates) :
                Cardinality({c \in certificatesOf(t) : verifyTrackedPKIEnrollment(c)}) = 1
          /\ a1Pc' = "Post" /\ A1Ok
       \/ /\ \/ /\ A1Ok
                /\ \E t \in ToSet(Templates) :
                      Cardinality({c \in certificatesOf(t) : verifyTrackedPKIEnrollment(c)}) # 1
             \/ A1Fault
          /\ a1Pc' = "RollbackAD"
    /\ UNCHANGED <<a1Host, a1Memory, a1History>>

\* Everything is discovered and planned again: an account still to create or
\* to reconcile fails the run, otherwise the plan for Approval 2 is sealed.
rediscoverAfterApproval1 ==
    /\ a1Pc = "Post"
    /\ \/ /\ planAccounts = [create |-> {}, reconcile |-> {}]
          /\ a1Pc' = "Passed" /\ A1Ok
       \/ /\ \/ planAccounts # [create |-> {}, reconcile |-> {}] /\ A1Ok
             \/ A1Fault
          /\ a1Pc' = "RollbackAD"
    /\ UNCHANGED <<a1Host, a1Memory, a1History>>
----------------------------------------------------------------------------
(* Runs, and what happens beside them.                                     *)

ForgetRun ==
    /\ a1Template' = 1 /\ a1Approved' = None /\ a1Created' = <<>>
    /\ a1GroupAdded' = FALSE /\ a1Before' = None /\ a1EnrollErr' = FALSE
    /\ a1Owned' = None /\ a1Durable' = {} /\ a1Errors' = FALSE

\* The installer is started again; it knows nothing of the runs before.
a1StartAgain ==
    /\ a1Pc \in {"Failed", "Refused", "Passed"}
    /\ a1Pc' = "Plan" /\ ForgetRun
    /\ UNCHANGED <<a1Host, a1History>> /\ A1Ok

a1Killed ==
    /\ a1Pc \notin {"Plan", "Failed", "Refused", "Passed"}
    /\ A1Fault
    /\ a1Pc' = "Plan" /\ ForgetRun
    /\ UNCHANGED <<a1Host, a1History>>

A1Other == a1Foreign < MaxForeign /\ a1Foreign' = a1Foreign + 1

\* Another administrator creates or changes an account.
otherAdministrator ==
    /\ A1Other
    /\ \E i \in IdentitySet, s \in {"exact", "drift"} :
          /\ gmsas[i] # s /\ gmsas' = [gmsas EXCEPT ![i] = s]
          /\ others' = IF gmsas[i] = "absent" THEN others \cup {i} ELSE others
    /\ UNCHANGED <<inGroup, certs, keys, a1Pc, a1Memory, accepted, groupAtStart>> /\ A1Ok

\* Another enroller (Windows autoenrollment) adds a certificate.
otherEnroller ==
    /\ A1Other
    /\ a1Pc \in {"Invoke", "Enrolled"} => RacingEnroller
    /\ \E t \in ToSet(Templates) : Issue(t, "other")
    /\ UNCHANGED <<gmsas, inGroup, a1Pc, a1Memory, a1History>> /\ A1Ok

A1Init ==
    /\ gmsas \in [IdentitySet -> {"absent", "exact"}]
    /\ inGroup \in BOOLEAN
    /\ certs \in {{}, {[template |-> Templates[1], serial |-> 1, by |-> "other"]}}
    /\ keys = SerialsOf(certs)
    /\ a1Pc = "Plan" /\ a1Template = 1 /\ a1Approved = None /\ a1Created = <<>>
    /\ a1GroupAdded = FALSE /\ a1Before = None /\ a1EnrollErr = FALSE
    /\ a1Owned = None /\ a1Durable = {} /\ a1Errors = FALSE
    /\ accepted = {} /\ groupAtStart = inGroup
    /\ others = {i \in IdentitySet : gmsas[i] # "absent"}
    /\ a1Faults = 0 /\ a1Foreign = 0

A1Steps ==
    \/ PromptApprovalBoundary \/ revalidate
    \/ createFIGroupManagedServiceAccountTracked \/ accountsCreated
    \/ rollbackApproval1ADCreated \/ runFailed
    \/ ensureMachineCertificateEnrollmentAuthorization \/ rollbackGroup
    \/ FindReusable \/ snapshotBeforeEnroll \/ enrollMachineCertificateTemplate
    \/ enrollMachineCertificateTemplateTracked \/ rollbackOwnedPKIEnrollment
    \/ finalizeApproval1PKIHandoff \/ rediscoverAfterApproval1
    \/ a1StartAgain

A1Next ==
    \/ A1Steps /\ UNCHANGED a1Foreign
    \/ a1Killed /\ UNCHANGED a1Foreign
    \/ otherAdministrator
    \/ otherEnroller

A1Spec == A1Init /\ [][A1Next]_a1Vars
A1FairSpec == A1Spec /\ WF_a1Vars(A1Steps /\ UNCHANGED a1Foreign)
----------------------------------------------------------------------------
\* Types: accounts and certificates are those of the plan, and what a run calls
\* durable it has accepted.
A1TypeOK ==
    /\ gmsas \in [IdentitySet -> {"absent", "exact", "drift"}]
    /\ inGroup \in BOOLEAN /\ groupAtStart \in BOOLEAN
    /\ certs \subseteq [template : ToSet(Templates), serial : 1 .. MaxCerts,
                       by : {"installer", "other"}]
    /\ keys \subseteq 1 .. MaxCerts
    /\ a1Template \in 1 .. Len(Templates)
    /\ ToSet(a1Created) \subseteq IdentitySet
    /\ a1Durable \subseteq accepted
    /\ a1Faults \in 0 .. MaxA1Faults /\ a1Foreign \in 0 .. MaxForeign

\* A run that fails with no rollback error and without an accepted identity
\* leaves no trace of its group membership: the directory says of the computer
\* what it said when the run started to mutate.
FailedRunLeavesGroup ==
    a1Pc = "Failed" /\ ~a1Errors /\ a1Durable = {} => inGroup = groupAtStart

\* The installer never deletes an account that somebody else created, and
\* deletes a certificate or a key only if the installer enrolled it and no run
\* has accepted it.
RemovesOnlyItsOwn ==
    /\ \A i \in IdentitySet :
          gmsas[i] # "absent" /\ gmsas'[i] = "absent" => i \notin others
    /\ \A c \in certs : (c \notin certs' \/ c.serial \in keys \ keys') =>
          c \notin accepted /\ c.by = "installer"

\* An accepted identity outlives everything the installer does afterwards:
\* later failures, rollbacks, kills and runs.
AcceptedIdentityKept == \A c \in accepted : c \in certs /\ c.serial \in keys

\* "A subsequent installer run must rediscover and reuse it": no run enrolls a
\* second certificate for a template that has an accepted identity.
AcceptedIdentityReused ==
    \A c \in certs' \ certs :
       c.by = "installer" => ~\E d \in accepted : d.template = c.template

\* If nobody else touches the directory or the store, running the installer
\* again and again ends in a passed Approval 1.
Approval1Converges == <>(a1Foreign > 0 \/ a1Pc = "Passed")
=============================================================================
