----------------------------- MODULE MCInstaller -----------------------------
(***************************************************************************)
(* Instances of the installer's components for TLC.  The components share   *)
(* no state: a behaviour picks one of them and runs it, the others keep an  *)
(* initial state.                                                           *)
(***************************************************************************)
EXTENDS InstallerPlan, InstallerApproval1, InstallerApproval2, InstallerServices

VARIABLE part    \* the component that runs

TwoIdentities == <<"FICollector", "FIUSNReader">>

mcVars == <<part, ipVars, a1Vars, a2Vars, isVars>>

MCInit ==
    /\ part \in {"plan", "approval1", "approval2", "services"}
    /\ IF part = "plan" THEN IpInit
       ELSE IpInitAt(Fresh)
    /\ IF part = "approval1" THEN A1Init
       ELSE /\ gmsas = [i \in IdentitySet |-> "absent"] /\ inGroup = FALSE /\ certs = {}
            /\ A1Init
    /\ IF part = "approval2" THEN A2Init
       ELSE A2Init /\ packageGen = Generations[1] /\ local[Head(LocalAccounts)] = "not_installed"
    /\ IF part = "services" THEN IsInit
       ELSE IsInitAt([s \in FIServices |-> "absent"], FALSE)

MCNext ==
    \/ part = "plan" /\ IpNext /\ UNCHANGED <<part, a1Vars, a2Vars, isVars>>
    \/ part = "approval1" /\ A1Next /\ UNCHANGED <<part, ipVars, a2Vars, isVars>>
    \/ part = "approval2" /\ A2Next /\ UNCHANGED <<part, ipVars, a1Vars, isVars>>
    \/ part = "services" /\ IsNext /\ UNCHANGED <<part, ipVars, a1Vars, a2Vars>>

\* Fairness: whoever installs keeps running the installer.
MCFairSpec ==
    /\ MCInit /\ [][MCNext]_mcVars
    /\ WF_ipVars(part = "plan" /\ IpNext)
    /\ WF_a1Vars(part = "approval1" /\ A1Steps /\ UNCHANGED a1Foreign)
    /\ WF_a2Vars(part = "approval2" /\ A2Steps /\ UNCHANGED <<packageGen, a2Drifts>>)
    /\ WF_isVars(part = "services" /\ IsSteps)

\* The components' variables keep their types.
InstallerTypeOK == IpTypeOK /\ A1TypeOK /\ A2TypeOK /\ IsTypeOK

\* A run leaves what it reports (the conjuncts are in the components' modules): a
\* plan creates nothing over what exists and passes only on the desired host; a
\* failed run leaves no group membership of its own, keeps accepted identities and
\* restores the services; the record of the local transaction is the host's state;
\* and a run that passes leaves the services on the new binaries.
RunsLeaveWhatTheyReport ==
    /\ NothingCreatedOver /\ PassMeansDesired
    /\ FailedRunLeavesGroup /\ AcceptedIdentityKept
    /\ RecordTellsTheHost
    /\ FailedRunRestoresServices /\ PassedRunsNewBinaries


=============================================================================
