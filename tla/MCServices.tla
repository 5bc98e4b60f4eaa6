----------------------------- MODULE MCServices  -----------------------------
(***************************************************************************)
(* Instances for TLC of the components of the collector, its privileged     *)
(* helpers, the sender, the receiver and the CRL refresher that share no    *)
(* state.  A behaviour picks one component and runs it, the others keep an  *)
(* initial state.                                                           *)
(***************************************************************************)
EXTENDS UsnLane, SecurityLane, OperationJournal, ServiceRuntime, UsnScope,
        SupportingSources, BrokerPipe, ObjectObservation, BatchTransport, CrlRefresh,
        GenerationWire, CanonicalStream

CONSTANTS
    Parts,    \* the components a run looks at
    r1, r2

VARIABLE part    \* the component that runs

OneRoot == <<r1>>
TwoRoots == <<r1, r2>>

\* Frozen directories: whole batches, halves of batches, manifests that do not
\* describe their data, and files longer than a chunk.
Files(batch, d, m) ==
    (IF d = None THEN {} ELSE {[name |-> dataName(batch), bytes |-> d]}) \cup
    (IF m = None THEN {} ELSE {[name |-> manifestName(batch), bytes |-> manifestOf(batch, m)]})

Contents == {<<>>, <<1>>, <<2>>, <<1, 1, 2>>}

FrozenDirectories ==
    {Files(1, d, m) \cup two \cup three :
        d \in Contents \cup {None}, m \in Contents \cup {None},
        two \in {{}, Files(2, <<2>>, <<2>>), Files(2, <<1, 1, 2>>, <<1, 1, 2>>)},
        three \in {{}, Files(3, <<2>>, <<2>>)}}

mcVars == <<part, usnVars, secVars, opVars, srvVars, scopeVars, sidVars, brVars, obVars,
            btVars, crVars, gwVars, csVars>>

MCInit ==
    /\ part \in Parts
    /\ IF part = "usn" THEN UsnInit
       ELSE objs = [o \in Objects |-> [place |-> "in", last |-> 0]] /\ sids = {} /\ UsnInit
    /\ IF part = "security" THEN SecInit
       ELSE log = [oldest |-> 1, newest |-> 0] /\ SecInit
    /\ OpInit
    /\ SrvInit
    /\ IF part = "scope" THEN ScopeInit
       ELSE /\ reobserved = [o \in BatchObjects |-> "Observed"]
            /\ parents = [o \in BatchObjects |-> {}]
            /\ elsewhere = "Outside" /\ ScopeInit
    /\ IF part = "sids" THEN SidInit
       ELSE sidFile = None /\ SidInit
    /\ IF part = "broker" THEN BrInit
       ELSE BrInitAt("usn")
    /\ IF part = "object" THEN ObInit
       ELSE ObInitAt("path")
    /\ BtInit /\ CrInit /\ GwInit
    /\ IF part = "stream" THEN CsInit
       ELSE CsInitAt({})

MCNext ==
    \/ /\ part = "usn" /\ UsnNext
       /\ UNCHANGED <<part, secVars, opVars, srvVars, scopeVars, sidVars, brVars, obVars,
                      btVars, crVars, gwVars, csVars>>
    \/ /\ part = "security" /\ SecNext
       /\ UNCHANGED <<part, usnVars, opVars, srvVars, scopeVars, sidVars, brVars, obVars,
                      btVars, crVars, gwVars, csVars>>
    \/ /\ part = "journal" /\ OpNext
       /\ UNCHANGED <<part, usnVars, secVars, srvVars, scopeVars, sidVars, brVars, obVars,
                      btVars, crVars, gwVars, csVars>>
    \/ /\ part = "service" /\ SrvNext
       /\ UNCHANGED <<part, usnVars, secVars, opVars, scopeVars, sidVars, brVars, obVars,
                      btVars, crVars, gwVars, csVars>>
    \/ /\ part = "scope" /\ ScopeNext
       /\ UNCHANGED <<part, usnVars, secVars, opVars, srvVars, sidVars, brVars, obVars,
                      btVars, crVars, gwVars, csVars>>
    \/ /\ part = "sids" /\ SidNext
       /\ UNCHANGED <<part, usnVars, secVars, opVars, srvVars, scopeVars, brVars, obVars,
                      btVars, crVars, gwVars, csVars>>
    \/ /\ part = "broker" /\ BrNext
       /\ UNCHANGED <<part, usnVars, secVars, opVars, srvVars, scopeVars, sidVars, obVars,
                      btVars, crVars, gwVars, csVars>>
    \/ /\ part = "object" /\ ObNext
       /\ UNCHANGED <<part, usnVars, secVars, opVars, srvVars, scopeVars, sidVars, brVars,
                      btVars, crVars, gwVars, csVars>>
    \/ /\ part = "batches" /\ BtNext
       /\ UNCHANGED <<part, usnVars, secVars, opVars, srvVars, scopeVars, sidVars, brVars,
                      obVars, crVars, gwVars, csVars>>
    \/ /\ part = "crl" /\ CrNext
       /\ UNCHANGED <<part, usnVars, secVars, opVars, srvVars, scopeVars, sidVars, brVars,
                      obVars, btVars, gwVars, csVars>>
    \/ /\ part = "wire" /\ GwNext
       /\ UNCHANGED <<part, usnVars, secVars, opVars, srvVars, scopeVars, sidVars, brVars,
                      obVars, btVars, crVars, csVars>>
    \/ /\ part = "stream" /\ CsNext
       /\ UNCHANGED <<part, usnVars, secVars, opVars, srvVars, scopeVars, sidVars, brVars,
                      obVars, btVars, crVars, gwVars>>

MCSpec == MCInit /\ [][MCNext]_mcVars

\* The components' variables keep their types.
ServicesTypeOK ==
    /\ UsnTypeOK /\ SecTypeOK /\ OpTypeOK /\ SrvTypeOK /\ SidTypeOK /\ BrTypeOK /\ ObTypeOK
    /\ BtTypeOK /\ CrTypeOK /\ GwTypeOK /\ CsTypeOK

-----------------------------------------------------------------------------
(* Safety: what the run checks of each component, one property per promise. *)
(* The conjuncts are stated and explained in the component's module.        *)

\* The USN lane (writeConfiguredRoot, spoolUSNObjects): what the checkpoint has
\* passed was spooled or is covered by a gap record, the latest known state of an
\* object is the object's, and the SIDs of spooled observations are kept.
UsnHistoryKept == NoSilentSkip /\ KnowsLatest /\ SIDsRetained


\* What is called complete is complete: the selection of a USN batch is closed
\* under the parents known from the batch (selectUSNObjectsForSpool), and a
\* complete refresh has looked up every known SID (collectDirectorySource).
CompleteCoversAll == SelectionIsClosure /\ CompleteRefreshCoversKnown

\* The privileged helpers (serve, execute): what a lane is told about an object
\* was true of it while the request was served, and privileges end with it.
BrokerIsHonest == AnswerWasTrue /\ PrivilegeScoped

\* The observation of an object (collector_content_windows.go): a complete one is
\* one state of the object, its hashes are of one content, the collector accepts
\* what it makes, and an observation is degraded for a reason only.
ObservationIsHonest ==
    CompleteIsSnapshot /\ HashesAreOfOneContent /\ NeverSelfRejected /\ DegradedHasCause

\* The CRL refresher (AssessReplacement, nextRefreshDelay): the list in force never
\* gets older, and one that can be had is in force before the old one expires.
CrlNeverOlderNorStale == TrustNeverOlder /\ FreshAfterRetry

\* A generation's bytes on the wire and in custody: a receipt is for the bytes that
\* were sealed, the source gives up only what is recorded, and a conflict is
\* reported only where bytes were altered.
ReceiptsAreHonest == ReceiptIsSealed /\ GivenUpIsRecorded /\ ConflictHasCause

\* The canonical stream (writeCanonical, readCanonical, the semantic gate): what is
\* recorded is what was sealed, whole batches only, and every whole batch that
\* keeps to the receiver's limits.
StreamRecordsWholeBatches ==
    RecordedIsSealed /\ OnlyWholeBatchesRecorded /\ WholeBatchesAreRecorded

\* What a step may never take back: a checkpoint moves on or is replaced with a
\* gap record, known SIDs stay known, the CRL changes inside a journalled attempt
\* only, and a receipt is never replaced.
NothingTakenBack ==
    [][CheckpointForward /\ SIDsNeverForgotten /\ MutationIsJournaled /\ ReceiptIsFinal]_mcVars

\* Batches (publishBatch, custody, retirement): a batch leaves the source only when
\* it is durable at the receiver, a manifest in the spool has its data, and what is
\* sent again is byte for byte what was sent first.
BatchesSafe == RetiredIsDurable /\ ManifestHasData /\ ReplayIsExact

-----------------------------------------------------------------------------
(* Liveness: the fairness of each component, for the component that runs.  *)

MCFairSpec ==
    /\ MCSpec
    /\ WF_usnVars(part = "usn" /\ UsnSteps)
    /\ WF_secVars(part = "security" /\ SecSteps)
    /\ WF_opVars(part = "journal" /\ ClockTicks)
    /\ SF_opVars(part = "journal" /\ RecoveryLane)
    /\ WF_opVars(part = "journal" /\ BodyReturns)
    /\ WF_srvVars(part = "service" /\ svc # "Stopped" /\ Execute)
    /\ WF_srvVars(part = "service" /\ svc # "Stopped" /\ runServiceUSNLoop)
    /\ \A c \in Cycles :
          /\ WF_srvVars(part = "service" /\ svc # "Stopped" /\ launchCycle(c))
          /\ WF_srvVars(part = "service" /\ svc # "Stopped" /\ CycleSteps(c))
          /\ \A r \in Roots :
                WF_srvVars(part = "service" /\ svc # "Stopped" /\ RootSteps(c, r))
    /\ WF_srvVars(part = "service" /\ svc # "Stopped" /\ SecurityWorker)
    /\ WF_srvVars(part = "service" /\ svc # "Stopped" /\ cancelled /\ RootWorker)
    /\ WF_brVars(part = "broker" /\ serveSteps)
    /\ WF_brVars(part = "broker" /\ executeSteps)
    /\ \A l \in BrLanes : /\ WF_brVars(part = "broker" /\ laneSteps(l))
                          /\ WF_brVars(part = "broker" /\ call(l))
    /\ WF_btVars(part = "batches" /\ BtSenderSteps)
    /\ WF_btVars(part = "batches" /\ BtReceiverSteps)
    /\ WF_gwVars(part = "wire" /\ GwSenderSteps)
    /\ WF_gwVars(part = "wire" /\ GwReceiverSteps)


=============================================================================
