------------------------- MODULE InstallerApproval2 ------------------------
(***************************************************************************)
(* Approval 2 of the Windows installer, the local transaction.  The host   *)
(* is planned, the plan approved and sealed by digest, discovered again    *)
(* and, if nothing changed, reconciled authority by authority; every       *)
(* mutation the run owns is taken back in reverse order when a later one   *)
(* fails, and a record of the outcome is kept.  Each authority is a list   *)
(* of small mutations, in the order of the code, so that a failure or a    *)
(* kill can fall between any two of them.  The services are one authority  *)
(* here; InstallerServices refines it.                                     *)
(***************************************************************************)
EXTENDS Sentinel, Integers, Sequences, FiniteSets, TLC, SequencesExt

CONSTANTS
    LocalAccounts,  \* the FI service accounts, in the order they are installed
    MaxA2Faults,    \* bound on failing calls and kills
    MaxDrift,       \* bound on changes made by others
    KillTorn        \* the installer may be killed while a set of files that
                    \* belong together is half written

ASSUME Approval2Assumption ==
    /\ LocalAccounts \in Seq(STRING) /\ IsInjective(LocalAccounts)
    /\ MaxA2Faults \in Nat /\ MaxDrift \in Nat /\ KillTorn \in BOOLEAN

VARIABLES
    local,       \* item -> its state on the host
    packageGen,  \* generation of the release-trust policy in the package
    a2Pc,        \* what the run is about to do
    a2Approved,  \* the approved plan
    a2Steps,     \* mutations still to make
    a2Owned,     \* mutations to take back, as item and value to put back
    a2Ambiguous, \* accounts whose failed installation may have had effect
    a2Errors,    \* some rollback step failed
    a2Record,    \* the durable record of this run, or None
    a2Before,    \* history: the host when the run started to mutate, with what
                 \* others have changed since
    a2Faults, a2Drifts

a2Run == <<a2Approved, a2Steps, a2Owned, a2Ambiguous, a2Errors, a2Record, a2Before>>
a2Vars == <<local, packageGen, a2Pc, a2Approved, a2Steps, a2Owned, a2Ambiguous, a2Errors,
            a2Record, a2Before, a2Faults, a2Drifts>>

AccountSet == ToSet(LocalAccounts)
Exact == {"RIGHTS", "GROUPS", "ACL", "SERVICES", "WINDOWS AUDIT", "WINDOWS SACL"}
Items == AccountSet \cup Exact
         \cup {"directories", "fi.conf", "crlDirectory", "crl", "trust", "policy", "signature"}
Generations == <<"generation1", "generation2">>

A2Fault == a2Faults < MaxA2Faults /\ a2Faults' = a2Faults + 1
A2Ok == UNCHANGED a2Faults
----------------------------------------------------------------------------
(* Discovery and plan.                                                     *)

\* The installed policy counts as present by its policy file alone, and as
\* valid if the signature beside it is that policy's.
discoverReleaseTrustDocument ==
    [present |-> local["policy"] # "absent",
     valid |-> local["policy"] # "absent" /\ local["policy"] = local["signature"]]

\* The package may bring the first generation, the installed one or the next.
resolveReleaseTrustState ==
    LET d == discoverReleaseTrustDocument IN
    IF d.present
    THEN d.valid /\ (\/ local["policy"] = packageGen
                     \/ local["policy"] = Generations[1] /\ packageGen = Generations[2])
    ELSE packageGen = Generations[1]

planReleaseTrust ==
    CASE ~resolveReleaseTrustState -> "BLOCKED"
      [] local["policy"] = packageGen -> "NO CHANGE"
      [] OTHER -> "RECONCILE"

retainedTransportCRLMigrationRequired == local["trust"] = "legacy"

\* The authorities the plan changes.
approval2Plan ==
    {e \in Exact : local[e] # "exact"}
    \cup (IF \E a \in AccountSet : local[a] # "installed" THEN {"LOCAL ID"} ELSE {})
    \cup (IF local["fi.conf"] = "absent" THEN {"CONFIG"} ELSE {})
    \cup (IF local["trust"] # "current" THEN {"TRANSPORT TRUST"} ELSE {})
    \cup (IF planReleaseTrust = "NO CHANGE" THEN {} ELSE {"RELEASE TRUST"})

authorityOf(item) ==
    CASE item \in AccountSet -> "LOCAL ID"
      [] item \in {"directories", "fi.conf"} -> "CONFIG"
      [] item \in {"crlDirectory", "crl", "trust"} -> "TRANSPORT TRUST"
      [] item \in {"policy", "signature"} -> "RELEASE TRUST"
      [] OTHER -> item
----------------------------------------------------------------------------
(* The mutations of each authority: the item, its new state, the states it *)
(* may be found in, and when the run owns it: before the call, after it,   *)
(* with an earlier mutation of the same item, or never.                    *)

Mutate(item, to, from, own) == [item |-> item, to |-> to, from |-> from, own |-> own]
Unconditioned == {"absent", "present", "legacy", "current", "drift", "exact"} \cup ToSet(Generations)

\* A registration of an account that was deleted and created again is removed
\* and installed anew.
reconcileApproval2StaleLocalRegistrations ==
    LET stale == SelectSeq(LocalAccounts, LAMBDA a : local[a] = "stale_registration")
    IN FoldSeq(LAMBDA a, rest :
                 <<Mutate(a, "not_installed", {"stale_registration"}, "before"),
                   Mutate(a, "installed", {"not_installed"}, "earlier")>> \o rest,
               <<>>, stale)

\* The other accounts are installed; one that appeared since the review ends
\* the run, and one is owned only when its installation is certain.
reconcileApproval2LocalIdentities ==
    LET new == SelectSeq(LocalAccounts, LAMBDA a : local[a] = "not_installed")
    IN reconcileApproval2StaleLocalRegistrations
       \o [i \in DOMAIN new |-> Mutate(new[i], "installed", {"not_installed"}, "after")]

\* Mutant: the directories are created without looking whether they exist.
createDirectoriesAlways ==
    (IF TRUE
     THEN <<Mutate("directories", "present", {"absent"}, "before")>> ELSE <<>>)
    \o <<Mutate("fi.conf", "present", {"absent"}, "before")>>

\* Missing directories, then the staged configuration renamed into place.
createApproval2OperationalConfig ==
    (IF local["directories"] = "absent"
     THEN <<Mutate("directories", "present", {"absent"}, "before")>> ELSE <<>>)
    \o <<Mutate("fi.conf", "present", {"absent"}, "before")>>

\* The revocation list, then the trust configuration that names it; neither
\* destination may exist.
activateApproval2TransportTrustFiles ==
    <<Mutate("crl", "present", {"absent"}, "before"),
      Mutate("trust", "current", {"absent"}, "before")>>

\* A retained configuration gets a directory of its own for the revocation
\* list, which may not exist before, a copy of the list, and the new path.
migrateRetainedTransportTrust ==
    <<Mutate("crlDirectory", "present", {"absent"}, "before"),
      Mutate("crl", "present", {"absent"}, "before"),
      Mutate("trust", "current", {"legacy"}, "before")>>

\* Policy and signature, each renamed to its backup and then replaced.
installReleaseTrust ==
    <<Mutate("policy", "absent", Unconditioned, "before"),
      Mutate("policy", packageGen, {"absent"}, "earlier"),
      Mutate("signature", "absent", Unconditioned, "before"),
      Mutate("signature", packageGen, {"absent"}, "earlier")>>

Reconcile(authority, own) ==
    IF local[authority] = "exact" THEN <<>> ELSE <<Mutate(authority, "exact", Unconditioned, own)>>
reconcileServer2016Rights == Reconcile("RIGHTS", "before")
reconcileServer2016Groups == Reconcile("GROUPS", "before")
reconcileServer2016ACLs == Reconcile("ACL", "before")
applyApproval2WindowsAudit == Reconcile("WINDOWS AUDIT", "never")
applyApproval2WindowsSACL == Reconcile("WINDOWS SACL", "never")
reconcileServices == Reconcile("SERVICES", "before")

\* The local authorities, in the order of the transaction.
applyServer2016Approval2RemainingLocal ==
    (IF planReleaseTrust = "RECONCILE" THEN installReleaseTrust ELSE <<>>)
    \o reconcileServer2016Rights \o reconcileServer2016Groups \o reconcileServer2016ACLs
    \o applyApproval2WindowsAudit \o applyApproval2WindowsSACL \o reconcileServices

approval2ControllerSteps ==
    reconcileApproval2LocalIdentities
    \o (IF local["fi.conf"] = "absent" THEN createApproval2OperationalConfig ELSE <<>>)
    \o (CASE local["trust"] = "absent" -> activateApproval2TransportTrustFiles
          [] retainedTransportCRLMigrationRequired -> migrateRetainedTransportTrust
          [] OTHER -> <<>>)
    \o applyServer2016Approval2RemainingLocal
----------------------------------------------------------------------------
(* The run.                                                                *)

\* A plan with a blocker is shown and refused; another is sealed, reviewed and
\* approved by the token of its digest.
approveLocalBoundary ==
    /\ a2Pc = "Plan"
    /\ IF planReleaseTrust = "BLOCKED" THEN a2Pc' = "Refused" /\ UNCHANGED a2Approved
       ELSE a2Pc' = "Approved" /\ a2Approved' = [plan |-> approval2Plan, seen |-> local]
    /\ UNCHANGED <<local, a2Steps, a2Owned, a2Ambiguous, a2Errors, a2Record, a2Before>> /\ A2Ok

\* Where a configuration is installed the inputs of the run are dropped, the
\* choice of the certificates with them: without a transport trust the plan
\* then asks again what the operator has answered.
inputsDroppedUnanswered == local["fi.conf"] = "present" /\ local["trust"] = "absent"

\* Mutant: the approved plan is not compared with the host again.
applyUnrevalidated ==
    /\ a2Pc = "Approved"
    /\ IF ~inputsDroppedUnanswered
       THEN /\ a2Pc' = IF approval2Plan = {} THEN "NoChange" ELSE "Apply"
            /\ a2Steps' = approval2ControllerSteps
            /\ a2Before' = local
       ELSE a2Pc' = "Refused" /\ UNCHANGED <<a2Steps, a2Before>>
    /\ UNCHANGED <<local, a2Approved, a2Owned, a2Ambiguous, a2Errors, a2Record>> /\ A2Ok

\* Discovered again, the digest must be the approved and the sealed one.
revalidateLocalBoundary ==
    /\ a2Pc = "Approved"
    /\ IF local = a2Approved.seen /\ ~inputsDroppedUnanswered
       THEN /\ a2Pc' = IF approval2Plan = {} THEN "NoChange" ELSE "Apply"
            /\ a2Steps' = approval2ControllerSteps
            /\ a2Before' = local
       ELSE a2Pc' = "Refused" /\ UNCHANGED <<a2Steps, a2Before>>
    /\ UNCHANGED <<local, a2Approved, a2Owned, a2Ambiguous, a2Errors, a2Record>> /\ A2Ok

\* One mutation.  Its precondition is checked on the host, not in the plan;
\* the call may fail with or without effect.
applyMutation ==
    /\ a2Pc = "Apply" /\ a2Steps # <<>>
    /\ LET m == Head(a2Steps)
           done == [local EXCEPT ![m.item] = m.to]
           entry == [item |-> m.item,
                     back |-> IF local[m.item] = "stale_registration" THEN "installed"
                              ELSE local[m.item]]
       IN \/ \* the host is not as the code requires
             /\ local[m.item] \notin m.from /\ A2Ok
             /\ a2Pc' = "Rollback" /\ UNCHANGED <<local, a2Steps, a2Owned, a2Ambiguous>>
          \/ /\ local[m.item] \in m.from /\ A2Ok
             /\ local' = done /\ a2Steps' = Tail(a2Steps)
             /\ a2Owned' = IF m.own \in {"before", "after"} THEN Append(a2Owned, entry)
                           ELSE a2Owned
             /\ UNCHANGED <<a2Pc, a2Ambiguous>>
          \/ /\ local[m.item] \in m.from /\ A2Fault
             /\ local' \in {local, done} /\ a2Pc' = "Rollback"
             /\ a2Owned' = IF m.own = "before" THEN Append(a2Owned, entry) ELSE a2Owned
             /\ a2Ambiguous' = IF m.own = "after" THEN a2Ambiguous \cup {m.item} ELSE a2Ambiguous
             /\ UNCHANGED a2Steps
    /\ UNCHANGED <<a2Approved, a2Errors, a2Record, a2Before>>

\* The whole host is discovered and planned once more; only an empty plan is
\* committed.
rediscoverLocal ==
    /\ a2Pc = "Apply" /\ a2Steps = <<>>
    /\ \/ approval2Plan = {} /\ A2Ok /\ a2Pc' = "Commit"
       \/ approval2Plan # {} /\ A2Ok /\ a2Pc' = "Rollback"
       \/ approval2Plan = {} /\ A2Fault /\ a2Pc' = "Rollback"
    /\ UNCHANGED <<local, a2Run>>

\* Backups are deleted.  A failure here is an error without a rollback.
commitSteps ==
    /\ a2Pc = "Commit"
    /\ \/ A2Ok /\ a2Pc' = "RecordPass"
       \/ A2Fault /\ a2Pc' = "RecordFail"
    /\ a2Owned' = <<>>
    /\ UNCHANGED <<local, a2Approved, a2Steps, a2Ambiguous, a2Errors, a2Record, a2Before>>

\* Mutant: only the latest mutation is taken back.
rollbackLatestOnly ==
    /\ a2Pc = "Rollback" /\ a2Owned # <<>>
    /\ LET e == Last(a2Owned) IN
       \/ local' = [local EXCEPT ![e.item] = e.back] /\ UNCHANGED a2Errors /\ A2Ok
       \/ A2Fault /\ a2Errors' = TRUE /\ UNCHANGED local
    /\ a2Owned' = <<>>
    /\ UNCHANGED <<a2Pc, a2Approved, a2Steps, a2Ambiguous, a2Record, a2Before>>

\* The latest mutation first; a failure is collected and the rest goes on.
rollbackApproval2ControllerSteps ==
    /\ a2Pc = "Rollback" /\ a2Owned # <<>>
    /\ LET e == Last(a2Owned) IN
       \/ local' = [local EXCEPT ![e.item] = e.back] /\ UNCHANGED a2Errors /\ A2Ok
       \/ A2Fault /\ a2Errors' = TRUE /\ UNCHANGED local
    /\ a2Owned' = Front(a2Owned)
    /\ UNCHANGED <<a2Pc, a2Approved, a2Steps, a2Ambiguous, a2Record, a2Before>>

rolledBack ==
    /\ a2Pc = "Rollback" /\ a2Owned = <<>>
    /\ a2Pc' = "RecordFail"
    /\ UNCHANGED <<local, a2Run>> /\ A2Ok

\* What the record says: whether the controller returned an error.
recordResult == IF a2Pc = "RecordPass" THEN "PASS" ELSE "FAIL"

\* The record is staged, verified and moved into place, or fails.
writeInstallRecord ==
    /\ a2Pc \in {"RecordPass", "RecordFail"}
    /\ \/ a2Record' = recordResult /\ A2Ok
       \/ A2Fault /\ UNCHANGED a2Record
    /\ a2Pc' = "Done"
    /\ UNCHANGED <<local, a2Approved, a2Steps, a2Owned, a2Ambiguous, a2Errors, a2Before>>
----------------------------------------------------------------------------
(* Runs, and what happens beside them.                                     *)

ForgetLocalRun ==
    /\ a2Approved' = None /\ a2Steps' = <<>> /\ a2Owned' = <<>> /\ a2Ambiguous' = {}
    /\ a2Errors' = FALSE /\ a2Record' = None /\ a2Before' = None

rerunLocal ==
    /\ a2Pc \in {"Refused", "NoChange", "Done"}
    /\ a2Pc' = "Plan" /\ ForgetLocalRun
    /\ UNCHANGED local /\ A2Ok

\* Files that belong together: the configuration and the transport trust, the
\* revocation list and the trust that names it, the directory made for them,
\* the policy and its signature.
HalfWritten == \/ local["fi.conf"] = "present" /\ local["trust"] = "absent"
               \/ local["crl"] = "present" /\ local["trust"] # "current"
               \/ local["crlDirectory"] = "present" /\ local["trust"] # "current"
               \/ local["policy"] # local["signature"]

killedLocal ==
    /\ a2Pc \notin {"Plan", "Refused", "NoChange", "Done"} /\ A2Fault
    /\ HalfWritten => KillTorn
    /\ a2Pc' = "Plan" /\ ForgetLocalRun
    /\ UNCHANGED local

\* Somebody changes a right, a group, an access list or a registration before
\* the run has discovered the host for the last time.
hostDrifts ==
    /\ a2Drifts < MaxDrift /\ a2Drifts' = a2Drifts + 1
    /\ a2Pc \in {"Plan", "Approved", "Apply"}
    /\ \E i \in {"RIGHTS", "GROUPS", "ACL"} \cup AccountSet :
          LET to == IF i \in AccountSet THEN "installed" ELSE "drift" IN
          /\ local[i] = IF i \in AccountSet THEN "not_installed" ELSE "exact"
          /\ local' = [local EXCEPT ![i] = to]
          /\ a2Before' = IF a2Before = None THEN None ELSE [a2Before EXCEPT ![i] = to]
    /\ UNCHANGED <<a2Pc, a2Approved, a2Steps, a2Owned, a2Ambiguous, a2Errors, a2Record>>
    /\ A2Ok

\* A new host, one with the registrations of deleted accounts, and one with an
\* earlier release.
A2Hosts ==
    LET new == [i \in Items |-> IF i \in AccountSet THEN "not_installed"
                                ELSE IF i \in Exact THEN "drift" ELSE "absent"]
        upgrade == [i \in Items |-> CASE i \in AccountSet -> "installed"
                                      [] i \in Exact -> "drift"
                                      [] i \in {"policy", "signature"} -> Generations[1]
                                      [] i = "trust" -> "legacy"
                                      [] i \in {"directories", "fi.conf"} -> "present"
                                      [] OTHER -> "absent"]
    IN {[host |-> new, gen |-> Generations[1]],
        [host |-> [i \in Items |-> IF i = Head(LocalAccounts) THEN "stale_registration" ELSE new[i]],
         gen |-> Generations[1]],
        [host |-> upgrade, gen |-> Generations[2]],
        [host |-> [upgrade EXCEPT !["trust"] = "current", !["crl"] = "present",
                                  !["crlDirectory"] = "present"],
         gen |-> Generations[1]]}

A2Init ==
    /\ \E h \in A2Hosts : local = h.host /\ packageGen = h.gen
    /\ a2Pc = "Plan" /\ a2Approved = None /\ a2Steps = <<>> /\ a2Owned = <<>>
    /\ a2Ambiguous = {} /\ a2Errors = FALSE /\ a2Record = None /\ a2Before = None
    /\ a2Faults = 0 /\ a2Drifts = 0

A2Steps ==
    \/ approveLocalBoundary \/ revalidateLocalBoundary \/ applyMutation \/ rediscoverLocal
    \/ commitSteps \/ rollbackApproval2ControllerSteps \/ rolledBack \/ writeInstallRecord
    \/ rerunLocal

A2Next ==
    \/ A2Steps /\ UNCHANGED <<packageGen, a2Drifts>>
    \/ killedLocal /\ UNCHANGED <<packageGen, a2Drifts>>
    \/ hostDrifts /\ UNCHANGED packageGen

A2Spec == A2Init /\ [][A2Next]_a2Vars
A2FairSpec == A2Spec /\ WF_a2Vars(A2Steps /\ UNCHANGED <<packageGen, a2Drifts>>)
----------------------------------------------------------------------------
\* Types: every item of the host is in a state its authority knows.
A2TypeOK ==
    /\ DOMAIN local = Items
    /\ \A a \in AccountSet : local[a] \in {"not_installed", "stale_registration", "installed"}
    /\ \A e \in Exact : local[e] \in {"drift", "exact"}
    /\ packageGen \in ToSet(Generations)
    /\ a2Record \in {None, "PASS", "FAIL"}
    /\ a2Faults \in 0 .. MaxA2Faults /\ a2Drifts \in 0 .. MaxDrift

Persistent == {"WINDOWS AUDIT", "WINDOWS SACL"}

\* "Approval 2 mutations remain rollback-owned until authoritative
\* post-mutation discovery proves convergence": a run recorded as failed that
\* did not reach its commit and reports no rollback error leaves every item as
\* it found it, but for the audit prerequisites, which persist by design, a
\* stale registration, which is put back as a current one, and an account
\* whose failed installation is ambiguous.  A run recorded as passed has
\* nothing left to do.
RecordTellsTheHost ==
    a2Pc = "Done" =>
        /\ a2Record = "PASS" => approval2Plan = {}
        /\ a2Record = "FAIL" /\ ~a2Errors /\ approval2Plan # {} =>
              \A i \in Items \ (Persistent \cup a2Ambiguous) :
                 \/ local[i] = a2Before[i]
                 \/ a2Before[i] = "stale_registration" /\ local[i] = "installed"

\* "State drift invalidates the approval": the installer never changes an item
\* of an authority that the approved plan does not change, nor an item that
\* changed after the operator reviewed it.
OnlyApprovedMutations ==
    a2Drifts' = a2Drifts =>
      \A i \in Items : local'[i] # local[i] =>
         /\ authorityOf(i) \in a2Approved.plan
         /\ a2Before[i] = a2Approved.seen[i]

\* "then rerun the same signed installer": once calls stop failing, running the
\* installer again ends with nothing left to do.
RerunConverges == <>[](approval2Plan = {})
=============================================================================
