---------------------------- MODULE InstallerPlan ---------------------------
(***************************************************************************)
(* The Windows installer from discovery to its exit status.  The host is   *)
(* observed facet by facet, and any read may fail; the observation is held *)
(* against the prerequisites and turned into a plan; the plan is routed    *)
(* through the two approvals, which here succeed or refuse as a whole      *)
(* (InstallerApproval1 and InstallerApproval2 take them apart); the exit   *)
(* status comes from a last discovery.  The operator declines, leaves a    *)
(* question open or postpones the receiver, and runs the installer again.  *)
(***************************************************************************)
EXTENDS Sentinel, Integers, FiniteSets, TLC

CONSTANTS
    Roles,        \* the service identities, among them those named below
    PlanServices, \* the services, among them those named below
    Deviations,   \* how many facets of a host may differ from a known one
    MaxUnread,    \* bound on reads that fail
    MaxRefusals   \* bound on what the operator declines

ASSUME InstallerPlanAssumption ==
    /\ Roles \subseteq {"CollectorSender", "CRLRefresher", "USNReader", "ObjReader"}
    /\ PlanServices \subseteq {"FICollector", "FICRLRefresher", "FIUSNReader", "FIObjReader", "FISender"}
    /\ Deviations \in {1, 2} /\ MaxUnread \in Nat /\ MaxRefusals \in Nat

VARIABLES
    host,        \* facet -> its state
    ipPc,        \* what the run is about to do
    ipReport,    \* the observation it works on, or None
    ipInputs,    \* what the operator has answered
    ipPlan,      \* the plan it works on, a set of actions
    ipSealed,    \* the mutations the operator has approved
    ipHandoff,   \* Approval 1 has handed certificates over
    ipBefore,    \* the host when Approval 2 started to mutate, or None
    createdOver, \* history: what was created although it was there
    ipStart,     \* history: the host at the start of the first run
    ipUnread, ipRefusals

ipVars == <<host, ipPc, ipReport, ipInputs, ipPlan, ipSealed, ipHandoff, ipBefore, createdOver, ipStart,
            ipUnread, ipRefusals>>
----------------------------------------------------------------------------
(* Hosts.                                                                  *)

All(S, v) == [x \in S |-> v]
Installed ==
    [session |-> "elevated", build |-> "accepted", join |-> "domain", directory |-> "up",
     computer |-> "known", kds |-> "key", templates |-> "published", payload |-> "authentic",
     gmsa |-> All(Roles, "exact"), local |-> All(Roles, "installed"),
     config |-> "present", roots |-> "present", trust |-> "present", pki |-> "complete",
     rights |-> All(Roles, "exact"), groups |-> "exact", acl |-> "exact",
     audit |-> "exact", sacl |-> "exact", binaries |-> "current",
     service |-> All(PlanServices, "running"), receiver |-> "up"]
Fresh ==
    [Installed EXCEPT !.gmsa = All(Roles, "absent"), !.local = All(Roles, "not_installed"),
        !.config = "absent", !.trust = "absent", !.pki = "missing",
        !.rights = All(Roles, "missing"), !.groups = "drift", !.acl = "drift",
        !.audit = "drift", !.sacl = "drift", !.binaries = "absent",
        !.service = All(PlanServices, "absent")]

One(f, values) == {[f EXCEPT ![x] = v] : x \in DOMAIN f, v \in values}
Other(h, f) ==
    CASE f = "session" -> {"plain"}             [] f = "build" -> {"noObjReader", "unsupported"}
      [] f = "join" -> {"workgroup"}            [] f = "directory" -> {"down"}
      [] f = "computer" -> {"missing"}          [] f = "kds" -> {"none"}
      [] f = "templates" -> {"unpublished"}     [] f = "payload" -> {"altered"}
      [] f = "gmsa" -> One(h.gmsa, {"exact", "absent", "drift"})
      [] f = "local" -> One(h.local, {"installed", "not_installed", "stale_registration"})
      [] f = "config" -> {"present", "absent"}  [] f = "roots" -> {"missing"}
      [] f = "trust" -> {"present", "absent", "legacy"}
      [] f = "pki" -> {"complete", "missing"}
      [] f = "rights" -> One(h.rights, {"exact", "missing", "superset"})
      [] f = "service" -> One(h.service, {"running", "stopped", "absent", "drift"})
                          \cup {[h.service EXCEPT !["FISender"] = "pending"]}
      [] f = "binaries" -> {"current", "old", "absent"}
      [] f = "receiver" -> {"down"}
      [] OTHER -> {"exact", "drift"}
Near(hs) == hs \cup UNION {{[h EXCEPT ![f] = v] : v \in Other(h, f)} : <<h, f>> \in hs \X DOMAIN Fresh}
PlanHosts == IF Deviations = 1 THEN Near({Installed, Fresh}) ELSE Near(Near({Installed, Fresh}))
----------------------------------------------------------------------------
(* Discovery.  u is the set of reads that fail.                            *)

Read(h, u, f) == IF f \in u THEN "unknown" ELSE h[f]

\* An unreadable version is build 0, which has no profile.
discoverHost(h, u) == IF "build" \in u THEN "unsupported" ELSE h.build

\* Without a join name no identity can be named.
discoverDomainJoin(h, u) == Read(h, u, "join")
DeriveDesiredFIIdentities(h, u) == "join" \notin u

discoverConfig(h, u) == Read(h, u, "config")
discoverTransportTrust(h, u) == Read(h, u, "trust")

\* Certificates, keys and revocation list are looked for where a trust
\* configuration names them.
discoverPKI(h, u) ==
    /\ discoverTransportTrust(h, u) \in {"present", "legacy"}
    /\ h.pki = "complete" /\ "pki" \notin u

\* A running service whose process cannot be examined counts as unknown.
discoverService(h, u, s) == IF s \in u THEN "unknown" ELSE h.service[s]

\* Without the service manager no service is reported at all.
discoverServices(h, u) ==
    [s \in PlanServices |-> IF "scm" \in u THEN "unreported" ELSE discoverService(h, u, s)]

discoverActiveDirectory(h, u) ==
    LET bound == discoverDomainJoin(h, u) = "domain" /\ h.directory = "up" /\ "directory" \notin u
    IN [bound |-> bound,
        computer |-> bound /\ h.computer = "known" /\ "computer" \notin u,
        kds |-> IF bound THEN Read(h, u, "kds") ELSE "unknown",
        gmsaKnown |-> bound /\ "gmsa" \notin u,
        gmsa |-> IF bound /\ "gmsa" \notin u THEN h.gmsa ELSE All(Roles, "absent")]

\* What Netlogon says of an account counts only once the directory has it.
discoverGMSAs(h, u, ad) ==
    [r \in Roles |->
        CASE ~DeriveDesiredFIIdentities(h, u) -> "unreported"
          [] ~ad.gmsaKnown -> "unknown"
          [] ad.gmsa[r] = "absent" -> "pending_ad_creation"
          [] OTHER -> IF "local" \in u THEN "unknown" ELSE h.local[r]]

\* Groups and rights are read once every account is installed.
discoverDesiredIdentitySecurityBoundary(accounts) == \A r \in Roles : accounts[r] = "installed"
discoverIdentityBoundary(h, u, boundary) == boundary /\ "groups" \notin u /\ h.groups = "exact"
discoverAccountRights(h, u, boundary) ==
    [r \in Roles |-> IF boundary /\ "rights" \notin u THEN h.rights[r] ELSE "unread"]

\* A pipe that is missing is held against its service only if that one is
\* known to run.
discoverBrokerPipes(h, services) ==
    \/ "FIObjReader" \notin PlanServices
    \/ h.service["FIObjReader"] = "running"
    \/ services["FIObjReader"] \in {"absent", "stopped", "drift", "pending"}

\* Access lists are evaluated for an installed or a proposed configuration.
discoverACLs(h, u) == discoverConfig(h, u) # "unknown" /\ "acl" \notin u /\ h.acl = "exact"

discoverBinaries(h, u) == Read(h, u, "binaries")
discoverPackage(h, u) == "payload" \notin u /\ h.payload = "authentic"
discoverWindowsAudit(h, u) == Read(h, u, "audit")

\* The checks that fail, given what was observed.
discoveryFailures(h, o) ==
    LET boundary == discoverDesiredIdentitySecurityBoundary(o.local)
        fails(name, condition) == IF condition THEN {name} ELSE {}
    IN  fails("session", o.session # "elevated")
        \cup fails("profile", o.build = "unsupported")
        \cup fails("join", o.join # "domain")
        \cup fails("config", o.config = "unknown")
        \cup fails("roots", o.config = "present" /\ h.roots = "missing")
        \cup fails("trust", o.trust = "unknown")
        \cup fails("pki", o.trust \in {"present", "legacy"} /\ ~o.pki)
        \cup {s \in PlanServices : o.service[s] \notin {"absent", "running"}}
        \cup fails("directory", ~o.ad.bound)
        \cup fails("computer", o.ad.bound /\ ~o.ad.computer)
        \cup fails("kds", o.ad.bound /\ o.ad.kds = "unknown")
        \cup fails("gmsa", o.ad.bound /\ (~o.ad.gmsaKnown \/ \E r \in Roles : o.ad.gmsa[r] = "drift"))
        \cup fails("accounts", \E r \in Roles : o.local[r] \in {"unreported", "unknown"})
        \cup fails("boundary", \E r \in Roles : o.local[r] = "stale_registration")
        \cup fails("groups", boundary /\ ~o.groups)
        \cup {r \in Roles : boundary /\ IF r \in {"CollectorSender", "USNReader"}
                                        THEN o.rights[r] \in {"unread", "missing"}
                                        ELSE o.rights[r] # "exact"}
        \cup fails("pipes", ~discoverBrokerPipes(h, o.service))
        \cup fails("acl", o.config # "absent" /\ ~o.acl)
        \cup fails("binaries", o.binaries = "unknown")
        \cup fails("package", ~o.package)

\* What is missing of an identity whose service is still to be created is not
\* a failure.
normalizeRepairableApproval2DiscoveryDrift(o, failures) ==
    IF /\ "FICRLRefresher" \in PlanServices /\ o.service["FICRLRefresher"] = "absent"
       /\ "CRLRefresher" \in Roles /\ o.rights["CRLRefresher"] = "missing"
    THEN failures \ {"CRLRefresher"}
    ELSE failures

\* What the reads that succeed tell.
Discover(h, u) ==
    LET ad == discoverActiveDirectory(h, u)
        accounts == discoverGMSAs(h, u, ad)
        boundary == discoverDesiredIdentitySecurityBoundary(accounts)
    IN [session |-> h.session, build |-> discoverHost(h, u), join |-> discoverDomainJoin(h, u),
        named |-> DeriveDesiredFIIdentities(h, u), config |-> discoverConfig(h, u),
        trust |-> discoverTransportTrust(h, u), pki |-> discoverPKI(h, u),
        service |-> discoverServices(h, u), ad |-> ad, local |-> accounts,
        groups |-> discoverIdentityBoundary(h, u, boundary),
        rights |-> discoverAccountRights(h, u, boundary), acl |-> discoverACLs(h, u),
        binaries |-> discoverBinaries(h, u), package |-> discoverPackage(h, u),
        audit |-> discoverWindowsAudit(h, u), sacl |-> Read(h, u, "sacl"),
        templates |-> h.templates]
----------------------------------------------------------------------------
(* The plan: a set of actions on targets of an authority.                  *)

Do(action, authority, target) == [action |-> action, authority |-> authority, target |-> target]
NoInputs == [config |-> FALSE, valid |-> TRUE, pki |-> "", pending |-> FALSE]
Reconciled(ok, authority, target) ==
    {Do(IF ok THEN "NO CHANGE" ELSE "RECONCILE", authority, target)}

planHostAndOS(rep) ==
    (IF rep.build = "unsupported" THEN {Do("BLOCKED", "OS", "profile")} ELSE {})
    \cup (IF rep.join # "domain" THEN {Do("BLOCKED", "OS", "join")} ELSE {})

\* Inputs are for a host without a configuration; where there is one they are
\* refused.
planConfiguration(rep, in) ==
    CASE rep.config = "unknown" -> {Do("BLOCKED", "CONFIG", "config")}
      [] rep.config = "present" ->
            {Do(IF in.config THEN "BLOCKED" ELSE "NO CHANGE", "CONFIG", "config")}
      [] rep.config = "absent" /\ in.config /\ ~in.valid -> {Do("BLOCKED", "CONFIG", "config")}
      [] OTHER -> {Do(IF in.config THEN "CREATE" ELSE "QUESTION", "CONFIG", "config")}

planWindowsAudit(rep) ==
    IF rep.audit = "unknown" THEN {Do("BLOCKED", "WINDOWS AUDIT", "audit")}
    ELSE Reconciled(rep.audit = "exact", "WINDOWS AUDIT", "audit")
planWindowsSACL(rep) ==
    IF rep.sacl = "unknown" THEN {Do("BLOCKED", "WINDOWS SACL", "sacl")}
    ELSE Reconciled(rep.sacl = "exact", "WINDOWS SACL", "sacl")

planActiveDirectory(rep) ==
    IF ~rep.ad.bound THEN {Do("BLOCKED", "AD", "directory")}
    ELSE {Do(CASE rep.ad.kds = "unknown" -> "BLOCKED" [] rep.ad.kds = "none" -> "CREATE"
               [] OTHER -> "NO CHANGE", "AD", "kds")}
         \cup (IF ~rep.named THEN {}
               ELSE {Do(CASE ~rep.ad.computer \/ ~rep.ad.gmsaKnown -> "BLOCKED"
                          [] rep.ad.gmsa[r] = "exact" -> "NO CHANGE"
                          [] rep.ad.gmsa[r] = "drift" -> "RECONCILE"
                          [] OTHER -> IF rep.ad.kds = "unknown" THEN "BLOCKED" ELSE "CREATE",
                        "AD", r) : r \in Roles})

planLocalGMSAs(rep) ==
    {Do(CASE rep.local[r] = "installed" -> "NO CHANGE"
          [] rep.local[r] \in {"unreported", "unknown"} -> "BLOCKED"
          [] OTHER -> "RECONCILE", "LOCAL ID", r) : r \in Roles}

transportPKIComplete(rep) == rep.trust \in {"present", "legacy"} /\ rep.pki

planPKI(rep, in) ==
    CASE rep.trust = "unknown" -> {Do("BLOCKED", "PKI", "pki")}
      [] transportPKIComplete(rep) ->
            {Do("NO CHANGE", "PKI", "pki")}
            \cup (IF rep.trust = "legacy" THEN {Do("RECONCILE", "CONFIG", "trust")} ELSE {})
      [] OTHER -> {Do(IF in.pki = "" THEN "QUESTION" ELSE "RECONCILE", "PKI", "pki")}

\* A right that could not be read is set; ObjReader's only on a build its
\* rights were accepted for.
planPrivileges(rep) ==
    {IF r = "ObjReader" /\ rep.build # "accepted" THEN Do("BLOCKED", "RIGHTS", r)
     ELSE Do(IF rep.rights[r] = "exact" THEN "NO CHANGE" ELSE "RECONCILE", "RIGHTS", r) : r \in Roles}
planLocalGroups(rep) == Reconciled(rep.groups, "GROUPS", "groups")
planACLs(rep) == Reconciled(rep.acl, "ACL", "acl")

\* A service that is not reported or not known blocks the plan.  Postponing
\* the receiver makes a stopped, manually started FISender the desired one.
planServices(rep, in) ==
    UNION {LET seen == rep.service[s]
               pending == in.pending /\ s = "FISender"
               config == IF pending THEN {"pending"} ELSE {"running", "stopped"}
               running == IF pending THEN {"pending"} ELSE {"running", "drift"}
           IN IF seen \in {"unreported", "unknown"} THEN {Do("BLOCKED", "SCM", s)}
              ELSE IF seen = "absent" THEN {Do("CREATE", "SCM", s)}
              ELSE Reconciled(seen \in config, "SCM", s) \cup Reconciled(seen \in running, "RUNTIME", s)
           : s \in PlanServices}

\* Mutant: a program of another version is planned as one to create.
planPackageCreates(rep) ==
    (IF rep.package THEN {} ELSE {Do("BLOCKED", "PACKAGE", "payload")})
    \cup {Do(CASE rep.binaries = "unknown" -> "BLOCKED"
               [] rep.binaries = "current" -> "NO CHANGE"
               [] rep.binaries = "absent" -> "CREATE"
               [] OTHER -> "CREATE", "PACKAGE", "binaries")}

\* Mutant: any installed program counts as the current one.
planPackagePresent(rep) ==
    (IF rep.package THEN {} ELSE {Do("BLOCKED", "PACKAGE", "payload")})
    \cup {Do(CASE rep.binaries = "unknown" -> "BLOCKED"
               [] rep.binaries \in {"current", "old"} -> "NO CHANGE"
               [] rep.binaries = "absent" -> "CREATE"
               [] OTHER -> "RECONCILE", "PACKAGE", "binaries")}

planPackage(rep) ==
    (IF rep.package THEN {} ELSE {Do("BLOCKED", "PACKAGE", "payload")})
    \cup {Do(CASE rep.binaries = "unknown" -> "BLOCKED"
               [] rep.binaries = "current" -> "NO CHANGE"
               [] rep.binaries = "absent" -> "CREATE"
               [] OTHER -> "RECONCILE", "PACKAGE", "binaries")}

BuildPlanWithInputs(rep, in) ==
    (IF rep.named THEN planPrivileges(rep) \cup planLocalGroups(rep) \cup planServices(rep, in)
                       \cup planLocalGMSAs(rep)
     ELSE {Do("BLOCKED", "IDENTITY", "identities")})
    \cup planHostAndOS(rep) \cup planConfiguration(rep, in)
    \cup planWindowsAudit(rep) \cup planWindowsSACL(rep) \cup planActiveDirectory(rep)
    \cup planPKI(rep, in) \cup planACLs(rep) \cup planPackage(rep)

HasBlockers(p) == \E a \in p : a.action = "BLOCKED"
HasQuestions(p) == \E a \in p : a.action = "QUESTION"
Mutations(p) == {a \in p : a.action \in {"CREATE", "RECONCILE"}}
Infrastructure(p) == {a \in Mutations(p) : a.authority \in {"AD", "PKI"}}
ApprovalRequirements(p) == [first |-> Infrastructure(p) # {}, second |-> Mutations(p) \ Infrastructure(p) # {}]

\* Mutant: the handed over certificates do not answer the question.
handoffIgnored(rep, p) == p

\* The certificates handed over by Approval 1 answer the plan's one question
\* about them; transport trust becomes a file to create.
applyApproval1PKIHandoffToPlan(rep, p) ==
    LET answered == {a \in Mutations(p) : a.authority = "PKI"} IN
    IF rep.trust # "absent" THEN p
    ELSE IF answered = {} THEN p \cup {Do("BLOCKED", "PKI", "handoff")}
    ELSE (p \ answered) \cup {Do("NO CHANGE", "PKI", "pki"), Do("CREATE", "CONFIG", "trust")}

\* Inputs are dropped where a configuration is installed.
approval2BuildPlan(rep, in, handoff) ==
    LET kept == IF rep.config = "present" THEN [NoInputs EXCEPT !.pending = in.pending] ELSE in
        p == BuildPlanWithInputs(rep, kept)
    IN IF handoff THEN applyApproval1PKIHandoffToPlan(rep, p) ELSE p
approval1BuildPlan(rep, in, handoff) ==
    IF handoff THEN applyApproval1PKIHandoffToPlan(rep, BuildPlanWithInputs(rep, in))
    ELSE BuildPlanWithInputs(rep, in)
----------------------------------------------------------------------------
(* Prerequisites.                                                          *)

prerequisiteMutationProfile(rep) == rep.build = "accepted"
prerequisiteKDS(rep) == rep.ad.kds = "key"
prerequisitePKIEnvironment(rep) ==
    CASE transportPKIComplete(rep) -> "PASS"
      [] ~rep.ad.bound -> "FAIL"
      [] rep.templates = "unpublished" -> "APPROVAL"
      [] OTHER -> "PASS"
EvaluateEnvironmentPrerequisites(rep) ==
    IF /\ rep.session = "elevated" /\ rep.join = "domain" /\ rep.ad.bound /\ rep.ad.computer
       /\ prerequisiteMutationProfile(rep) /\ prerequisiteKDS(rep) /\ rep.package
    THEN prerequisitePKIEnvironment(rep) ELSE "FAIL"

\* Roots and spool come from the inputs or from the configuration, and the
\* certificates that are not there yet are enrolled.
prerequisitePaths(rep, in) == rep.config = "present" \/ (in.config /\ in.valid)
prerequisitePKIInput(rep, in) == transportPKIComplete(rep) \/ in.pki = "enroll"
EvaluateInputPrerequisites(rep, in) == prerequisitePaths(rep, in) /\ prerequisitePKIInput(rep, in)
----------------------------------------------------------------------------
(* The run.                                                                *)

ReadSites == (DOMAIN Fresh \ {"session", "directory", "receiver", "roots", "templates", "service"})
             \cup PlanServices \cup {"directory", "scm"}

\* One discovery; a read may fail.
Observe(u) ==
    /\ u = {} \/ ipUnread < MaxUnread
    /\ ipUnread' = ipUnread + Cardinality(u)
Reads == {{}} \cup {{f} : f \in ReadSites}
Refuse == ipRefusals < MaxRefusals /\ ipRefusals' = ipRefusals + 1
Agree == UNCHANGED ipRefusals

discoverEnvironment ==
    /\ ipPc = "Start"
    /\ \E u \in Reads :
          /\ Observe(u)
          /\ \E rep \in {Discover(host, u)} :
             /\ ipReport' = rep
             /\ ipPc' = CASE EvaluateEnvironmentPrerequisites(rep) = "FAIL" -> "Exit1"
                          [] EvaluateEnvironmentPrerequisites(rep) = "APPROVAL" -> "Publish"
                          [] OTHER -> "Plan"
    /\ UNCHANGED <<host, ipInputs, ipPlan, ipSealed, ipHandoff, ipBefore, createdOver>> /\ Agree

\* The certificate templates are published with an approval of their own and
\* the host is discovered afresh.
ApplyCATemplatePublication ==
    /\ ipPc = "Publish"
    /\ \/ Refuse /\ ipPc' = "Exit1" /\ UNCHANGED <<host, ipReport, ipUnread>>
       \/ /\ Agree /\ host' = [host EXCEPT !.templates = "published"]
          /\ \E u \in Reads :
                /\ Observe(u)
                /\ ipReport' = Discover(host', u)
                /\ ipPc' = IF EvaluateEnvironmentPrerequisites(ipReport') = "PASS" THEN "Plan" ELSE "Exit1"
    /\ UNCHANGED <<ipInputs, ipPlan, ipSealed, ipHandoff, ipBefore, createdOver>>

\* The plan's questions are put to the operator, the plan is built again, and
\* the first approval it needs decides where it goes.
promptMissingInstallInputs(rep, valid) ==
    LET asked == BuildPlanWithInputs(rep, NoInputs) IN
    [config |-> Do("QUESTION", "CONFIG", "config") \in asked, valid |-> valid,
     pki |-> IF Do("QUESTION", "PKI", "pki") \in asked THEN "enroll" ELSE "", pending |-> FALSE]

planAndRoute ==
    /\ ipPc = "Plan"
    /\ \E valid \in BOOLEAN :
          \E in \in {promptMissingInstallInputs(ipReport, valid)} :
          \E p \in {BuildPlanWithInputs(ipReport, in)} :
             /\ IF valid THEN Agree ELSE in.config /\ Refuse
             /\ ipInputs' = in /\ ipPlan' = p
             /\ ipPc' = CASE ~EvaluateInputPrerequisites(ipReport, in) \/ HasBlockers(p) -> "Exit1"
                          [] ApprovalRequirements(p).first -> "Approve1"
                          [] ApprovalRequirements(p).second -> "Local"
                          [] OTHER -> "Final"
    /\ UNCHANGED <<host, ipReport, ipSealed, ipHandoff, ipBefore, createdOver, ipUnread>>

PromptApproval1Boundary ==
    /\ ipPc = "Approve1"
    /\ \/ Refuse /\ ipPc' = "Exit1" /\ UNCHANGED ipSealed
       \/ Agree /\ ipPc' = "Mutate1" /\ ipSealed' = Mutations(ipPlan)
    /\ UNCHANGED <<host, ipReport, ipInputs, ipPlan, ipHandoff, ipBefore, createdOver, ipUnread>>

Targets(p, action, authority) == {a.target : a \in {b \in p : b.action = action /\ b.authority = authority}}

\* Accounts can be created, not changed, and the operator's plan must still
\* be the plan.  A new account has a new SID: the registration, the rights and
\* the memberships of its predecessor are not its own.
executeApproval1 ==
    /\ ipPc = "Mutate1"
    /\ \E u \in Reads :
          /\ Observe(u)
          /\ \E rep \in {Discover(host, u)} : \E p \in {approval1BuildPlan(rep, ipInputs, FALSE)} :
             LET new == Targets(p, "CREATE", "AD")
                 replaced == {r \in new : host.local[r] = "installed"}
             IN IF \/ HasBlockers(p) \/ HasQuestions(p) \/ Mutations(p) # ipSealed
                   \/ \E a \in Mutations(p) : a.authority = "AD" /\ a.action = "RECONCILE"
                THEN ipPc' = "Exit1" /\ UNCHANGED <<host, ipHandoff, createdOver>>
                ELSE /\ ipPc' = "After1"
                     /\ ipHandoff' = (Do("RECONCILE", "PKI", "pki") \in p)
                     /\ host' = [host EXCEPT
                           !.gmsa = [r \in Roles |-> IF r \in new THEN "exact" ELSE @[r]],
                           !.local = [r \in Roles |-> IF r \in replaced THEN "stale_registration" ELSE @[r]],
                           !.rights = [r \in Roles |-> IF r \in replaced THEN "missing" ELSE @[r]],
                           !.groups = IF replaced = {} THEN @ ELSE "drift",
                           !.pki = IF ipHandoff' THEN "complete" ELSE @]
                     /\ createdOver' = createdOver \cup {r \in new : host.gmsa[r] # "absent"}
    /\ UNCHANGED <<ipReport, ipInputs, ipPlan, ipSealed, ipBefore>> /\ Agree

\* The old plan is dead; what is left must be local.  Otherwise the accounts
\* go again and the certificates stay.
rediscoverAfterApproval1Run ==
    /\ ipPc = "After1"
    /\ \E u \in Reads :
          /\ Observe(u)
          /\ \E rep \in {Discover(host, u)} : \E p \in {approval1BuildPlan(rep, ipInputs, ipHandoff)} :
             LET new == Targets(ipSealed, "CREATE", "AD")
             IN /\ ipReport' = rep /\ ipPlan' = p
                /\ IF HasBlockers(p) \/ HasQuestions(p) \/ Infrastructure(p) # {}
                   THEN /\ ipPc' = "Exit1" /\ UNCHANGED ipSealed
                        /\ host' = [host EXCEPT !.gmsa = [r \in Roles |-> IF r \in new THEN "absent" ELSE @[r]]]
                   ELSE /\ ipPc' = "Receiver1" /\ ipSealed' = Mutations(p) /\ UNCHANGED host
    /\ UNCHANGED <<ipInputs, ipHandoff, ipBefore, createdOver>> /\ Agree

\* A probe over mutual TLS with the certificates handed over; where it fails
\* the operator gives up or postpones the receiver, which a new installation
\* may.
ProbeApproval1ReceiverActivation == ipHandoff /\ ipInputs.config /\ host.receiver = "up"
ContinueWith(p) ==
    /\ ipPlan' = p /\ ipSealed' = Mutations(p)
    /\ ipPc' = IF HasBlockers(p) \/ HasQuestions(p) \/ Infrastructure(p) # {} THEN "Exit1"
               ELSE IF Mutations(p) = {} THEN "Final" ELSE "Approve2"

resolveApproval1ReceiverActivation ==
    /\ ipPc = "Receiver1"
    /\ \/ ProbeApproval1ReceiverActivation /\ Agree /\ UNCHANGED ipInputs /\ ContinueWith(ipPlan)
       \/ ~ProbeApproval1ReceiverActivation /\ Refuse /\ ipPc' = "Exit1"
          /\ UNCHANGED <<ipInputs, ipPlan, ipSealed>>
       \/ /\ ~ProbeApproval1ReceiverActivation /\ Agree
          /\ ipInputs' = [ipInputs EXCEPT !.pending = TRUE]
          /\ IF ipHandoff /\ ipReport.service["FISender"] = "absent"
             THEN ContinueWith(approval1BuildPlan(ipReport, ipInputs', ipHandoff))
             ELSE ipPc' = "Exit1" /\ UNCHANGED <<ipPlan, ipSealed>>
    /\ UNCHANGED <<host, ipReport, ipHandoff, ipBefore, createdOver, ipUnread>>

RequiresReceiverActivation(p) ==
    \E a \in Mutations(p) : a.target = "FISender" /\ a.authority \in {"SCM", "RUNTIME"}
ProbeInstalledReceiverActivation ==
    ipReport.config = "present" /\ ipReport.trust \in {"present", "legacy"} /\ host.receiver = "up"

resolveInstalledReceiverActivation ==
    /\ ipPc = "Local"
    /\ \/ /\ RequiresReceiverActivation(ipPlan) => ProbeInstalledReceiverActivation
          /\ Agree /\ UNCHANGED ipInputs /\ ContinueWith(ipPlan)
       \/ /\ RequiresReceiverActivation(ipPlan) /\ ~ProbeInstalledReceiverActivation
          /\ Refuse /\ ipPc' = "Exit1" /\ UNCHANGED <<ipInputs, ipPlan, ipSealed>>
       \/ /\ RequiresReceiverActivation(ipPlan) /\ ~ProbeInstalledReceiverActivation /\ Agree
          /\ ipInputs' = [ipInputs EXCEPT !.pending = TRUE]
          /\ IF ipReport.config = "present" /\ ipReport.trust \in {"present", "legacy"}
             THEN ContinueWith(BuildPlanWithInputs(ipReport, ipInputs'))
             ELSE ipPc' = "Exit1" /\ UNCHANGED <<ipPlan, ipSealed>>
    /\ UNCHANGED <<host, ipReport, ipHandoff, ipBefore, createdOver, ipUnread>>

PromptApproval2Boundary ==
    /\ ipPc = "Approve2"
    /\ \/ Refuse /\ ipPc' = "Exit1"
       \/ Agree /\ ipPc' = "Mutate2"
    /\ UNCHANGED <<host, ipReport, ipInputs, ipPlan, ipSealed, ipHandoff, ipBefore, createdOver, ipUnread>>

\* What the mutations of a plan make of the host.
ApplyLocal(h, p, pending) ==
    LET done(authority, target) == \E a \in p : a.authority = authority /\ a.target = target
        set(authority, target, value, old) == IF done(authority, target) THEN value ELSE old
    IN [h EXCEPT
          !.local = [r \in Roles |-> set("LOCAL ID", r, "installed", @[r])],
          !.config = set("CONFIG", "config", "present", @),
          !.trust = set("CONFIG", "trust", "present", @),
          !.rights = [r \in Roles |-> set("RIGHTS", r, "exact", @[r])],
          !.groups = set("GROUPS", "groups", "exact", @),
          !.acl = set("ACL", "acl", "exact", @),
          !.audit = set("WINDOWS AUDIT", "audit", "exact", @),
          !.sacl = set("WINDOWS SACL", "sacl", "exact", @),
          !.binaries = set("PACKAGE", "binaries", "current", @),
          !.service = [s \in PlanServices |->
              IF done("SCM", s) \/ done("RUNTIME", s)
              THEN IF pending /\ s = "FISender" THEN "pending" ELSE "running"
              ELSE @[s]]]

executeApproval2 ==
    /\ ipPc = "Mutate2"
    /\ \E u \in Reads :
          /\ Observe(u)
          /\ \E rep \in {Discover(host, u)} : \E p \in {approval2BuildPlan(rep, ipInputs, ipHandoff)} :
                IF HasBlockers(p) \/ HasQuestions(p) \/ Infrastructure(p) # {} \/ Mutations(p) # ipSealed
                THEN ipPc' = "Exit1" /\ UNCHANGED <<host, ipBefore, createdOver>>
                ELSE /\ ipPc' = "After2" /\ ipBefore' = host
                     /\ host' = ApplyLocal(host, Mutations(p), ipInputs.pending)
                     /\ createdOver' = createdOver
                          \cup {f \in Targets(p, "CREATE", "CONFIG") : host[f] # "absent"}
                          \cup {f \in Targets(p, "CREATE", "PACKAGE") : host[f] # "absent"}
                          \cup {s \in Targets(p, "CREATE", "SCM") : host.service[s] # "absent"}
    /\ UNCHANGED <<ipReport, ipInputs, ipPlan, ipSealed, ipHandoff>> /\ Agree

\* With the receiver postponed a stopped FISender is no failure and no change,
\* provided that it is exactly the postponed one.
NormalizeReceiverPendingReport(rep, failures) ==
    IF rep.service["FISender"] = "pending" THEN failures \ {"FISender"} ELSE failures \cup {"pending"}
NormalizeReceiverPendingPlan(p) ==
    {IF a.target = "FISender" /\ a.authority \in {"SCM", "RUNTIME"} THEN [a EXCEPT !.action = "NO CHANGE"] ELSE a
     : a \in p}
Converged(h, rep, p, pending) ==
    LET failures == normalizeRepairableApproval2DiscoveryDrift(rep, discoveryFailures(h, rep))
        left == IF pending THEN NormalizeReceiverPendingReport(rep, failures) ELSE failures
        q == IF pending THEN NormalizeReceiverPendingPlan(p) ELSE p
    IN left = {} /\ ~HasBlockers(q) /\ ~HasQuestions(q) /\ Mutations(q) = {}

rediscoverAfterApproval2Run ==
    /\ ipPc = "After2"
    /\ \E u \in Reads :
          /\ Observe(u)
          /\ \E rep \in {Discover(host, u)} :
             IF Converged(host, rep, approval2BuildPlan(rep, ipInputs, ipHandoff), ipInputs.pending)
             THEN ipPc' = "Final" /\ UNCHANGED host
             ELSE /\ ipPc' = "Exit1"
                  /\ host' = [ipBefore EXCEPT !.audit = host.audit, !.sacl = host.sacl]
    /\ ipBefore' = None
    /\ UNCHANGED <<ipReport, ipInputs, ipPlan, ipSealed, ipHandoff, createdOver>> /\ Agree

writeFinalState ==
    /\ ipPc = "Final"
    /\ \E u \in Reads :
          /\ Observe(u)
          /\ \E rep \in {Discover(host, u)} :
             ipPc' = IF Converged(host, rep, BuildPlanWithInputs(rep, NoInputs), ipInputs.pending)
                     THEN "Exit0" ELSE "Exit1"
    /\ UNCHANGED <<host, ipReport, ipInputs, ipPlan, ipSealed, ipHandoff, ipBefore, createdOver>> /\ Agree

runAgain ==
    /\ ipPc \in {"Exit0", "Exit1"}
    /\ ipPc' = "Start" /\ ipReport' = None /\ ipInputs' = NoInputs /\ ipPlan' = {} /\ ipSealed' = {}
    /\ ipHandoff' = FALSE /\ ipBefore' = None
    /\ UNCHANGED <<host, createdOver, ipUnread>> /\ Agree

IpInitAt(h) ==
    /\ host = h /\ ipStart = host
    /\ ipPc = "Start" /\ ipReport = None /\ ipInputs = NoInputs /\ ipPlan = {} /\ ipSealed = {}
    /\ ipHandoff = FALSE /\ ipBefore = None /\ createdOver = {} /\ ipUnread = 0 /\ ipRefusals = 0

IpInit == \E h \in PlanHosts : IpInitAt(h)

IpNext ==
    /\ \/ discoverEnvironment \/ ApplyCATemplatePublication \/ planAndRoute
       \/ PromptApproval1Boundary \/ executeApproval1 \/ rediscoverAfterApproval1Run
       \/ resolveApproval1ReceiverActivation \/ resolveInstalledReceiverActivation
       \/ PromptApproval2Boundary \/ executeApproval2 \/ rediscoverAfterApproval2Run
       \/ writeFinalState \/ runAgain
    /\ UNCHANGED ipStart

IpSpec == IpInit /\ [][IpNext]_ipVars
IpFairSpec == IpSpec /\ WF_ipVars(IpNext)
----------------------------------------------------------------------------
\* Types: a run is at a step it has, over a host with every authority the plan
\* looks at.
IpTypeOK ==
    /\ DOMAIN host = DOMAIN Fresh
    /\ ipPc \in {"Start", "Publish", "Plan", "Approve1", "Mutate1", "After1", "Receiver1", "Local",
                 "Approve2", "Mutate2", "After2", "Final", "Exit0", "Exit1"}
    /\ ipUnread \in 0 .. MaxUnread /\ ipRefusals \in 0 .. MaxRefusals

\* A read that fails is never taken for absence: whatever discovery could not
\* see, no account, configuration, trust, service or program is created that
\* the host already has.
NothingCreatedOver == createdOver = {}

\* The exit status tells the truth: a run that ends with PASS leaves a host in
\* which every facet is as desired, FISender at most postponed, whatever reads
\* failed on the way.
PassMeansDesired ==
    ipPc = "Exit0" =>
        \/ [host EXCEPT !.receiver = "up", !.templates = "published"] = Installed
        \/ /\ ipInputs.pending
           /\ [host EXCEPT !.receiver = "up", !.templates = "published", !.service["FISender"] = "running"]
                 = Installed

\* What the installer can repair: the prerequisites hold, no account in the
\* directory differs, the configured roots exist, and no half of an
\* installation was left behind: a trust configuration has its certificates,
\* and a configuration unless FISender already runs; a configuration has a
\* trust configuration; and a FISender without one has a receiver that
\* answers.
Repairable(h) ==
    /\ h.session = "elevated" /\ h.build = "accepted" /\ h.join = "domain" /\ h.directory = "up"
    /\ h.computer = "known" /\ h.kds = "key" /\ h.payload = "authentic" /\ h.roots = "present"
    /\ \A r \in Roles : h.gmsa[r] # "drift"
    /\ h.trust \in {"present", "legacy"} => h.pki = "complete"
    /\ h.config = "present" => h.trust # "absent"
    /\ h.config = "absent" /\ h.trust # "absent" => h.service["FISender"] = "running"
    /\ h.trust = "absent" => h.service["FISender"] = "absent" \/ h.receiver = "up"

\* Running the installer again and again repairs every such host, once reads
\* stop failing and the operator stops declining.
RepairConverges == Repairable(ipStart) => <>(ipPc = "Exit0")
=============================================================================
