----------------------------- MODULE BrokerPipe -----------------------------
(***************************************************************************)
(* The privileged helpers FIUSNReader and FIObjReader and the lanes of     *)
(* FICollector that call them.  Each helper serves one request per         *)
(* connection over a named pipe that has a single instance: the lanes      *)
(* compete for it, a service stop must release the server from a blocking  *)
(* accept, the helper raises privileges of its whole process for the       *)
(* duration of one operation, and the object a request names may be moved  *)
(* or deleted at any moment.  brKind tells which helper the behaviour is   *)
(* about: the two share the pipe protocol and differ in their operations.  *)
(***************************************************************************)
EXTENDS Naturals, Sequences, SequencesExt, Sentinel

CONSTANTS BrLanes,         \* the collector's lanes that call the helper
          ConnectAttempts, \* bound on a lane's attempts to open the pipe
          MaxMoves,        \* bound on the moves of the object
          MaxBrFaults,     \* bound on failing system calls
          MaxKills,        \* bound on the collector process being killed
          CollectorStops   \* may the collector stop calling for good

ASSUME BrokerPipeAssumption ==
    /\ ConnectAttempts \in Nat \ {0}
    /\ MaxMoves \in Nat /\ MaxBrFaults \in Nat /\ MaxKills \in Nat
    /\ CollectorStops \in BOOLEAN

VARIABLES brKind,      \* "usn" | "obj": which helper
          brPc,        \* where Serve is
          brPeer,      \* the client of the pipe instance: a lane, "closed" or None
          brWire,      \* what is unread in the pipe: None, a request or a response
          brJob,       \* the request being served, None between requests
          brAnswer,    \* the response being prepared
          brPriv,      \* privileges enabled in the helper's process token
          brScopes,    \* token states to restore, innermost last
          brLeaked,    \* a restoration has failed
          brCancelled, \* the helper's context is cancelled
          brStop,      \* Execute: "run" | "wake" | "wait" | "stopped"
          lanePc,      \* per lane: "idle" | "connect" | "write" | "await"
          laneTries,   \* attempts made by connect
          laneReq,     \* the request of the current call
          laneSeen,    \* where the object has been since the request was sent
          place,       \* where the object is now
          collector,   \* "running" | "stopping"
          brMoves, brFaults, brKills

laneVars   == <<lanePc, laneTries, laneReq, laneSeen>>
serverVars == <<brPc, brPeer, brWire, brJob, brAnswer, brPriv, brScopes, brLeaked>>
stopVars   == <<brCancelled, brStop>>
worldVars  == <<place, collector, brMoves, brFaults, brKills>>
brVars     == <<brKind, serverVars, stopVars, laneVars, worldVars>>

\* The helper's authority snapshot holds "files"; "archive" lies on the same
\* volume and "other" on another one, both configured after the helper started.
BrRoots    == {"files", "archive", "other"}
Places     == BrRoots \cup {"gone"}
governed   == {"files"}
volumeOf   == [r \in BrRoots |-> IF r = "other" THEN "E:" ELSE "D:"]

Operations == [usn |-> {"AuditPolicy", "Query", "Read", "Containment", "SACL"},
               obj |-> {"Observe"}]
\* What the lanes ask: one request for each way authority decides.
Requests   == [op : {"AuditPolicy"}, root : {"files"}]
              \cup [op : {"Query", "Read"}, root : {"archive", "other"}]
              \cup [op : {"Containment", "SACL", "Observe"}, root : {"files", "archive"}]
Failure    == [kind |-> "error", value |-> None]
Data(v)    == [kind |-> "data", value |-> v]
Responses  == {Failure} \cup {Data(v) : v \in {"flags", "journal", "Contained", "Outside",
                                                "Unavailable", "descriptor", "observation"}}

Listening == brPc \in {"Created", "Connecting"} /\ brPeer = None
\* The steps of Serve in which some privileged operation is under way.
Operating == {"ContainPrivileged", "SaclOpen", "ObserveOpen", "ObserveSacl", "Restore"}

-----------------------------------------------------------------------------
(* Authority and identity of the caller. *)

\* authoritySnapshot.allowsGovernedRoot and resolveGovernedRoot
allowsGovernedRoot(r) == r \in governed
resolveGovernedRoot(r) == r \in governed
\* authoritySnapshot.allowsVolume: any configured root on the same volume
allowsVolume(r) == \E g \in governed : volumeOf[g] = volumeOf[r]

\* An operating-system call fails: one fault of the budget is used.
Fails == brFaults < MaxBrFaults /\ brFaults' = brFaults + 1
Works == UNCHANGED brFaults

-----------------------------------------------------------------------------
(* The lanes: client_windows.go of usnbroker and objbroker. *)

\* A call begins: roundTrip returns at once when the caller's context is done.
call(l) ==
    /\ lanePc[l] = "idle" /\ collector = "running"
    /\ lanePc' = [lanePc EXCEPT ![l] = "connect"]
    /\ UNCHANGED <<laneTries, laneReq, laneSeen>>
    /\ UNCHANGED <<brKind, serverVars, stopVars, worldVars>>

\* The call of lane l ends, with the response it has read or with an error.
Finish(l) ==
    /\ lanePc' = [lanePc EXCEPT ![l] = "idle"]
    /\ laneTries' = [laneTries EXCEPT ![l] = 0]
    /\ laneReq' = [laneReq EXCEPT ![l] = None]
    /\ laneSeen' = [laneSeen EXCEPT ![l] = {}]

\* Mutant: attempts on a busy pipe are not counted.
connectForever(l) ==
    /\ lanePc[l] = "connect"
    /\ \/ /\ collector = "stopping"
          /\ Finish(l) /\ UNCHANGED serverVars
       \/ /\ collector = "running" /\ Listening
          /\ brPeer' = l
          /\ lanePc' = [lanePc EXCEPT ![l] = "write"]
          /\ laneTries' = [laneTries EXCEPT ![l] = 0]
          /\ UNCHANGED <<brPc, brWire, brJob, brAnswer, brPriv, brScopes, brLeaked,
                         laneReq, laneSeen>>
       \/ /\ collector = "running" /\ ~Listening
          /\ UNCHANGED laneVars
          /\ UNCHANGED serverVars
    /\ UNCHANGED <<brKind, stopVars, worldVars>>

\* One attempt of connect: CreateFile succeeds on a listening instance; a busy
\* or absent pipe is retried after a delay, a limited number of times; the
\* context is looked at before each attempt and during the delay.
connect(l) ==
    /\ lanePc[l] = "connect"
    /\ \/ /\ collector = "stopping"
          /\ Finish(l) /\ UNCHANGED serverVars
       \/ /\ collector = "running" /\ Listening
          /\ brPeer' = l
          /\ lanePc' = [lanePc EXCEPT ![l] = "write"]
          /\ laneTries' = [laneTries EXCEPT ![l] = 0]
          /\ UNCHANGED <<brPc, brWire, brJob, brAnswer, brPriv, brScopes, brLeaked,
                         laneReq, laneSeen>>
       \/ /\ collector = "running" /\ ~Listening
          /\ IF laneTries[l] + 1 = ConnectAttempts
             THEN Finish(l)
             ELSE /\ laneTries' = [laneTries EXCEPT ![l] = @ + 1]
                  /\ UNCHANGED <<lanePc, laneReq, laneSeen>>
          /\ UNCHANGED serverVars
    /\ UNCHANGED <<brKind, stopVars, worldVars>>

\* writeRequest of the call's request q: fails when the server has
\* disconnected the instance.
writeRequest(l, q) ==
    /\ lanePc[l] = "write" /\ q.op \in Operations[brKind]
    /\ IF brPeer = l
       THEN /\ brWire' = q
            /\ lanePc' = [lanePc EXCEPT ![l] = "await"]
            /\ laneReq' = [laneReq EXCEPT ![l] = q]
            /\ laneSeen' = [laneSeen EXCEPT ![l] = {place}]
            /\ UNCHANGED <<brPc, brPeer, brJob, brAnswer, brPriv, brScopes, brLeaked,
                           laneTries>>
       ELSE Finish(l) /\ UNCHANGED serverVars
    /\ UNCHANGED <<brKind, stopVars, worldVars>>

\* readResponse blocks until a whole response or a disconnection, whatever
\* happens to the caller's context meanwhile; roundTrip then closes the handle.
readResponse(l) ==
    /\ lanePc[l] = "await"
    /\ \/ /\ brPeer = l /\ brWire \in Responses
          /\ brWire' = None /\ brPeer' = "closed"
          /\ UNCHANGED <<brPc, brJob, brAnswer, brPriv, brScopes, brLeaked>>
       \/ brPeer # l /\ UNCHANGED serverVars
    /\ Finish(l)
    /\ UNCHANGED <<brKind, stopVars, worldVars>>

-----------------------------------------------------------------------------
(* The server loop: Serve of usnbroker and objbroker. *)

\* Serve goes to step p, leaving the operation's state alone.
Goto(p) == brPc' = p /\ UNCHANGED <<brJob, brAnswer, brPriv, brScopes, brLeaked>>
ServerFrame == UNCHANGED <<brKind, stopVars, laneVars, place, collector, brMoves, brKills>>

\* The loop's head: the context is checked before an instance is created.
checkContext ==
    /\ brPc = "Check"
    /\ Goto(IF brCancelled THEN "Returned" ELSE "Create")
    /\ UNCHANGED <<brPeer, brWire>> /\ Works /\ ServerFrame

\* createServerPipe: the only instance; an error ends Serve.
createServerPipe ==
    /\ brPc = "Create"
    /\ \/ Works /\ Goto("Created")
       \/ Fails /\ Goto("Failed")
    /\ UNCHANGED <<brPeer, brWire>> /\ ServerFrame

\* ConnectNamedPipe: a client that came between creation and this call is
\* accepted; one that came and closed its handle again makes the call fail,
\* which ends Serve (without an error when the context is cancelled).
connectNamedPipe ==
    /\ brPc = "Created"
    /\ CASE brPeer = None     -> Goto("Connecting") /\ UNCHANGED <<brPeer, brWire>>
         [] brPeer = "closed" -> /\ Goto(IF brCancelled THEN "Returned" ELSE "Failed")
                                 /\ brPeer' = None /\ brWire' = None
         [] OTHER             -> Goto("Accepted") /\ UNCHANGED <<brPeer, brWire>>
    /\ Works /\ ServerFrame

\* The blocking ConnectNamedPipe returns once a client has connected.
clientArrives ==
    /\ brPc = "Connecting" /\ brPeer # None
    /\ Goto("Accepted")
    /\ UNCHANGED <<brPeer, brWire>> /\ Works /\ ServerFrame

\* The context is checked again right after the connection.
checkAccepted ==
    /\ brPc = "Accepted"
    /\ IF brCancelled
       THEN Goto("Returned") /\ brPeer' = None /\ brWire' = None
       ELSE Goto("Read") /\ UNCHANGED <<brPeer, brWire>>
    /\ Works /\ ServerFrame

\* The response of the connection is r and is written next.
Respond(r) == brPc' = "Write" /\ brAnswer' = r

\* readRequest: blocks until the client has written; a client that is gone
\* fails the read, and the failure response fails too: no flush, disconnect.
readRequest ==
    /\ brPc = "Read"
    /\ \/ /\ brWire \in Requests
          /\ brPc' = "Authorize" /\ brJob' = brWire /\ brWire' = None
          /\ UNCHANGED <<brPeer, brAnswer, brPriv, brScopes, brLeaked>>
       \/ /\ brWire = None /\ brPeer = "closed"
          /\ Goto("Close") /\ UNCHANGED <<brPeer, brWire>>
    /\ Works /\ ServerFrame

\* authorizeClient: impersonate the client, look for the enabled service SID,
\* revert; whatever goes wrong is answered with a failure.
authorizeClient ==
    /\ brPc = "Authorize"
    /\ \/ Works /\ brPc' = "Dispatch" /\ UNCHANGED brAnswer
       \/ Fails /\ Respond(Failure)
    /\ UNCHANGED <<brPeer, brWire, brJob, brPriv, brScopes, brLeaked>> /\ ServerFrame

-----------------------------------------------------------------------------
(* handleConnection of FIUSNReader. *)

OperationFrame == UNCHANGED <<brPeer, brWire, brJob>> /\ ServerFrame
PrivilegeFrame == UNCHANGED <<brPriv, brScopes, brLeaked>>

\* Enable privilege p in the process token and remember the token's state.
Enable(p) == /\ brPriv' = brPriv \cup {p}
             /\ brScopes' = Append(brScopes, brPriv)
             /\ UNCHANGED brLeaked
enableSACLPrivilege              == Enable("SeSecurity")
containmentEnableBackupPrivilege == Enable("SeBackup")
enableBackupPrivilege            == Enable("SeBackup")

\* usnraw.Query and Read: what the bytes of the journal are is not told here.
readJournal == \/ Works /\ Respond(Data("journal"))
               \/ Fails /\ Respond(Failure)

\* The request's operation decides: audit policies have no parameter, the
\* journal needs the volume's authority, an object the root's.
usnHandleConnection ==
    /\ brPc = "Dispatch" /\ brKind = "usn"
    /\ \/ /\ brJob.op = "AuditPolicy"
          /\ \/ Works /\ Respond(Data("flags"))
             \/ Fails /\ Respond(Failure)
       \/ /\ brJob.op \in {"Query", "Read"} /\ allowsVolume(brJob.root)
          /\ readJournal
       \/ /\ brJob.op \in {"Query", "Read"} /\ ~allowsVolume(brJob.root)
          /\ Works /\ Respond(Failure)
       \/ /\ brJob.op \in {"Containment", "SACL"} /\ allowsGovernedRoot(brJob.root)
          /\ Works /\ brPc' = brJob.op /\ UNCHANGED brAnswer
       \/ /\ brJob.op \in {"Containment", "SACL"} /\ ~allowsGovernedRoot(brJob.root)
          /\ Works /\ Respond(Failure)
    /\ PrivilegeFrame /\ OperationFrame

\* Mutant: the final path of the handle is not compared with the root.
alwaysContained == Data("Contained")

\* Where an opened handle's final path lies with respect to the requested root.
Located == IF place = brJob.root THEN Data("Contained") ELSE Data("Outside")

\* usnraw.CheckContainment: open the object by its identity.  An object that
\* is not there is Unavailable; access denied leads to the privileged check.
CheckContainment ==
    /\ brPc = "Containment"
    /\ \/ /\ Respond(IF place = "gone" THEN Data("Unavailable") ELSE Located)
          /\ Works /\ PrivilegeFrame
       \/ /\ place # "gone"  \* access denied
          /\ containmentEnableBackupPrivilege /\ brPc' = "ContainPrivileged"
          /\ Works /\ UNCHANGED brAnswer
       \/ Fails /\ Respond(Failure) /\ PrivilegeFrame
    /\ OperationFrame

\* containmentCheckServer2019/2022/2025: the same question with
\* SeBackupPrivilege on; whatever the outcome, the token is restored.
containmentCheckServer ==
    /\ brPc = "ContainPrivileged" /\ brPc' = "Restore"
    /\ \/ Works /\ brAnswer' = IF place = "gone" THEN Data("Unavailable") ELSE Located
       \/ Fails /\ brAnswer' = Failure
    /\ PrivilegeFrame /\ OperationFrame

\* usnraw.ReadSACL enables SeSecurityPrivilege before it opens the object.
ReadSACL ==
    /\ brPc = "SACL"
    /\ \/ /\ enableSACLPrivilege /\ brPc' = "SaclOpen"
          /\ Works /\ UNCHANGED brAnswer
       \/ Fails /\ Respond(Failure) /\ PrivilegeFrame
    /\ OperationFrame

\* The opened handle must lie inside the root before its descriptor is read.
readSACLDescriptor ==
    /\ brPc = "SaclOpen" /\ brPc' = "Restore"
    /\ \/ /\ Works
          /\ brAnswer' = IF place = brJob.root THEN Data("descriptor") ELSE Failure
       \/ Fails /\ brAnswer' = Failure
    /\ PrivilegeFrame /\ OperationFrame

\* Mutant: the scope is left without putting the token back.
restoreForgotten ==
    /\ brPc = "Restore"
    /\ \/ /\ Works /\ UNCHANGED <<brPriv, brAnswer, brLeaked>>
       \/ Fails /\ brAnswer' = Failure /\ brLeaked' = TRUE /\ UNCHANGED brPriv
    /\ brScopes' = Front(brScopes)
    /\ brPc' = IF Len(brScopes) = 1 THEN "Write" ELSE "Restore"
    /\ OperationFrame

\* restoreSACLPrivilege, containmentRestoreBackupPrivilege and
\* restoreBackupPrivilege: the innermost scope is put back; when that fails
\* the result is dropped and the token stays as it is.  ("Restore" is left
\* when no scope is open.)
restorePrivilege ==
    /\ brPc = "Restore"
    /\ \/ /\ Works /\ brPriv' = Last(brScopes) /\ UNCHANGED <<brAnswer, brLeaked>>
       \/ Fails /\ brAnswer' = Failure /\ brLeaked' = TRUE /\ UNCHANGED brPriv
    /\ brScopes' = Front(brScopes)
    /\ brPc' = IF Len(brScopes) = 1 THEN "Write" ELSE "Restore"
    /\ OperationFrame

-----------------------------------------------------------------------------
(* handleConnection of FIObjReader. *)

\* The root must be in the snapshot and the service not be stopping.
objHandleConnection ==
    /\ brPc = "Dispatch" /\ brKind = "obj" /\ Works
    /\ IF resolveGovernedRoot(brJob.root) /\ ~brCancelled
       THEN brPc' = "Observe" /\ UNCHANGED brAnswer
       ELSE Respond(Failure)
    /\ PrivilegeFrame /\ OperationFrame

\* objraw.ObserveObject: SeBackupPrivilege for the whole observation.
ObserveObject ==
    /\ brPc = "Observe"
    /\ \/ /\ ~brCancelled /\ enableBackupPrivilege /\ brPc' = "ObserveOpen"
          /\ Works /\ UNCHANGED brAnswer
       \/ brCancelled /\ Works /\ Respond(Failure) /\ PrivilegeFrame
       \/ Fails /\ Respond(Failure) /\ PrivilegeFrame
    /\ OperationFrame

\* CollectFileReferenceWithSACLReader opens the object by its identity and
\* proves it inside the root; it then asks for the SACL, which opens a second
\* privilege scope inside the first.
collectFileReference ==
    /\ brPc = "ObserveOpen"
    /\ \/ /\ place = brJob.root
          /\ enableSACLPrivilege /\ brPc' = "ObserveSacl"
          /\ Works /\ UNCHANGED brAnswer
       \/ /\ place # brJob.root
          /\ brPc' = "Restore" /\ brAnswer' = Failure /\ Works /\ PrivilegeFrame
       \/ /\ Fails /\ brPc' = "Restore" /\ brAnswer' = Failure /\ PrivilegeFrame
    /\ OperationFrame

\* The rest of the observation; an unreadable SACL is recorded in it, other
\* errors fail it.
finishObservation ==
    /\ brPc = "ObserveSacl" /\ brPc' = "Restore"
    /\ \/ Works /\ brAnswer' = Data("observation")
       \/ Fails /\ brAnswer' = Failure
    /\ PrivilegeFrame /\ OperationFrame

-----------------------------------------------------------------------------
(* The end of a connection. *)

\* writeResponse: fails when the client is gone; then nothing is flushed.
writeResponse ==
    /\ brPc = "Write"
    /\ IF brPeer = "closed"
       THEN brPc' = "Close" /\ UNCHANGED brWire
       ELSE brPc' = "Flush" /\ brWire' = brAnswer
    /\ UNCHANGED <<brPeer, brJob, brAnswer, brPriv, brScopes, brLeaked>>
    /\ Works /\ ServerFrame

\* FlushFileBuffers returns once the client has read the response or is gone.
flushResponse ==
    /\ brPc = "Flush" /\ (brWire = None \/ brPeer = "closed")
    /\ Goto("Close") /\ UNCHANGED <<brPeer, brWire>>
    /\ Works /\ ServerFrame

\* DisconnectNamedPipe and CloseHandle, whatever handleConnection returned.
disconnect ==
    /\ brPc = "Close"
    /\ brPc' = "Check" /\ brPeer' = None /\ brWire' = None /\ brJob' = None
    /\ brAnswer' = None
    /\ UNCHANGED <<brPriv, brScopes, brLeaked>>
    /\ Works /\ ServerFrame

-----------------------------------------------------------------------------
(* The service around Serve: Execute of fi-usn and fi-obj. *)

ExecuteFrame == UNCHANGED <<brKind, laneVars, worldVars>>


\* A stop request cancels the context ...
brStopping ==
    /\ brStop = "run" /\ brPc \notin {"Returned", "Failed"}
    /\ brStop' = "wake" /\ brCancelled' = TRUE
    /\ UNCHANGED serverVars /\ ExecuteFrame

\* ... then Wake opens the pipe and closes it again; an open that fails (the
\* instance is busy, or there is none) is ignored ...
Wake ==
    /\ brStop = "wake"
    /\ IF Listening
       THEN /\ brPeer' = "closed"
            /\ UNCHANGED <<brPc, brWire, brJob, brAnswer, brPriv, brScopes, brLeaked>>
       ELSE UNCHANGED serverVars
    /\ brStop' = "wait" /\ UNCHANGED brCancelled
    /\ ExecuteFrame

\* ... and Execute waits for Serve.  A Serve that fails by itself ends it too.
serveReturned ==
    /\ brStop \in {"run", "wait"} /\ brPc \in {"Returned", "Failed"}
    /\ brStop' = "stopped" /\ UNCHANGED brCancelled
    /\ UNCHANGED serverVars /\ ExecuteFrame

-----------------------------------------------------------------------------
(* What happens around the helper. *)

\* A user moves the object to another directory, or deletes it.
objectMoves(p) ==
    /\ brMoves < MaxMoves /\ place # "gone" /\ p # place
    /\ place' = p /\ brMoves' = brMoves + 1
    /\ laneSeen' = [l \in BrLanes |-> IF lanePc[l] # "await" THEN laneSeen[l]
                                      ELSE laneSeen[l] \cup {p}]
    /\ UNCHANGED <<brKind, serverVars, stopVars, lanePc, laneTries, laneReq,
                   collector, brFaults, brKills>>

\* The collector's process dies: its handles are closed by the system; it is
\* restarted with all its lanes idle.
collectorKilled ==
    /\ brKills < MaxKills /\ brKills' = brKills + 1
    /\ brPeer' = IF brPeer \in BrLanes THEN "closed" ELSE brPeer
    /\ lanePc' = [l \in BrLanes |-> "idle"]
    /\ laneTries' = [l \in BrLanes |-> 0]
    /\ laneReq' = [l \in BrLanes |-> None]
    /\ laneSeen' = [l \in BrLanes |-> {}]
    /\ collector' = "running"
    /\ UNCHANGED <<brKind, brPc, brWire, brJob, brAnswer, brPriv, brScopes, brLeaked,
                   stopVars, place, brMoves, brFaults>>

\* The collector's own service is stopped: its context is cancelled.
collectorStops ==
    /\ CollectorStops /\ collector = "running"
    /\ collector' = "stopping"
    /\ UNCHANGED <<brKind, serverVars, stopVars, laneVars, place, brMoves, brFaults, brKills>>

-----------------------------------------------------------------------------
BrInitAt(k) ==
    /\ brKind = k
    /\ brPc = "Check" /\ brPeer = None /\ brWire = None /\ brJob = None
    /\ brAnswer = None /\ brPriv = {} /\ brScopes = <<>> /\ brLeaked = FALSE
    /\ brCancelled = FALSE /\ brStop = "run"
    /\ lanePc = [l \in BrLanes |-> "idle"] /\ laneTries = [l \in BrLanes |-> 0]
    /\ laneReq = [l \in BrLanes |-> None]
    /\ laneSeen = [l \in BrLanes |-> {}]
    /\ place = "files" /\ collector = "running"
    /\ brMoves = 0 /\ brFaults = 0 /\ brKills = 0

BrInit == \E k \in {"usn", "obj"} : BrInitAt(k)

serveSteps ==
    \/ checkContext \/ createServerPipe \/ connectNamedPipe \/ clientArrives
    \/ checkAccepted \/ readRequest \/ authorizeClient
    \/ usnHandleConnection \/ CheckContainment \/ containmentCheckServer
    \/ ReadSACL \/ readSACLDescriptor \/ restorePrivilege
    \/ objHandleConnection \/ ObserveObject \/ collectFileReference \/ finishObservation
    \/ writeResponse \/ flushResponse \/ disconnect

laneSteps(l) == connect(l) \/ readResponse(l) \/ \E q \in Requests : writeRequest(l, q)
executeSteps == Wake \/ serveReturned

BrEnvironment ==
    \/ brStopping \/ collectorKilled \/ collectorStops
    \/ \E p \in Places : objectMoves(p)

BrNext ==
    \/ serveSteps
    \/ \E l \in BrLanes : laneSteps(l) \/ call(l)
    \/ executeSteps
    \/ BrEnvironment

BrSpec == BrInit /\ [][BrNext]_brVars

\* The scheduler runs every thread; a collector that runs keeps calling.
BrFairness ==
    /\ WF_brVars(serveSteps) /\ WF_brVars(executeSteps)
    /\ \A l \in BrLanes : WF_brVars(laneSteps(l)) /\ WF_brVars(call(l))

BrFairSpec == BrSpec /\ BrFairness

-----------------------------------------------------------------------------
(* Properties. *)

\* The variables keep their types: in particular at most two privilege scopes
\* are ever open, and the state of the pipe instance fits the step Serve is at.
BrTypeOK ==
    /\ brKind \in {"usn", "obj"}
    /\ brPeer \in BrLanes \cup {"closed", None}
    /\ brWire = None \/ brWire \in Requests \/ brWire \in Responses
    /\ brJob = None \/ brJob \in Requests
    /\ brAnswer = None \/ brAnswer \in Responses
    /\ brPriv \subseteq {"SeBackup", "SeSecurity"} /\ Len(brScopes) <= 2
    /\ \A l \in BrLanes : /\ lanePc[l] \in {"idle", "connect", "write", "await"}
                          /\ laneTries[l] < ConnectAttempts
                          /\ laneSeen[l] \subseteq Places
    /\ brPc \in {"Check", "Create", "Returned", "Failed"} => brPeer = None /\ brWire = None

\* Privileges are raised in the token of the whole process, so the code opens
\* and closes their scopes around one operation.  While no restoration has
\* failed, a privilege is on only during an operation, for a root of the
\* authority snapshot, whatever path the operation leaves by.
PrivilegeScoped ==
    ~brLeaked /\ brPriv # {} =>
        brPc \in Operating /\ brJob # None /\ brJob.root \in governed

\* What a lane is told was true at some moment of its own call: contained only
\* if the object was then inside the root asked about, outside or unavailable
\* only if it was elsewhere or gone; a descriptor and an observation are of an
\* object inside the root.  Roots outside the authority snapshot get no answer
\* about objects, and no response reaches the call of another lane.
AnswerWasTrue ==
    \A l \in BrLanes : brPeer = l /\ brWire \in Responses \ {Failure} =>
        LET v == brWire.value
            q == laneReq[l]
        IN  CASE v = "flags"       -> q.op = "AuditPolicy"
              [] v = "journal"     -> q.op \in {"Query", "Read"} /\ q.root # "other"
              [] v = "Contained"   -> q.op = "Containment" /\ q.root \in laneSeen[l] \cap governed
              [] v = "Outside"     -> q.op = "Containment" /\ laneSeen[l] \ {q.root, "gone"} # {}
              [] v = "Unavailable" -> q.op = "Containment" /\ "gone" \in laneSeen[l]
              [] v = "descriptor"  -> q.op = "SACL" /\ q.root \in laneSeen[l] \cap governed
              [] OTHER             -> q.op = "Observe" /\ q.root \in laneSeen[l] \cap governed

\* No call of the collector hangs: a busy pipe is retried a limited number of
\* times, and a response or a disconnection ends the wait.
CallsEnd == \A l \in BrLanes : lanePc[l] # "idle" ~> lanePc[l] = "idle"

\* A stopped helper stops: "Wake connects to the helper pipe so a service stop
\* can release a blocking ConnectNamedPipe call."
StopReleasesServe == brStop # "run" ~> brStop = "stopped"
=============================================================================
