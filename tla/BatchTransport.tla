--------------------------- MODULE BatchTransport ---------------------------
(***************************************************************************)
(* FISender delivering published batches one by one, or, when too much has *)
(* piled up, a half of the backlog at once as a recovery bundle; the       *)
(* receiver taking them into durable custody and acknowledging them.       *)
(*                                                                         *)
(* A batch is a data file and a manifest in the spool.  Signing is         *)
(* randomised, so a frame is a batch and the number of its signing.        *)
(* Connections break, both processes are killed, and the receiver forgets  *)
(* directory entries it had not flushed; a fail-stopped sender is started  *)
(* again.                                                                  *)
(***************************************************************************)
EXTENDS Sentinel, Integers, Sequences, FiniteSets, SequencesExt, FiniteSetsExt

CONSTANTS
    MaxBatch,           \* batches the collector publishes
    RecoveryThreshold,  \* a backlog above this many batches is recovered; 0: never
    RecoveryMaxMembers, \* what the receiver takes in one bundle
    MaxBtFaults,        \* bound on broken connections and killed processes
    MaxReconfigs        \* bound on switching recovery off or on at the receiver

ASSUME BatchTransportAssumption ==
    /\ MaxBatch \in Nat \ {0} /\ RecoveryThreshold \in Nat /\ RecoveryMaxMembers \in Nat \ {0, 1}
    /\ MaxBtFaults \in Nat /\ MaxReconfigs \in Nat

VARIABLES
    manifests, dataFiles, \* the spool: batches with a manifest, with data
    btPublished,          \* batches published so far
    signings,             \* batch -> frames signed for it
    frames,               \* batch -> the frame staged for it, or None
    bundle, bundles,      \* the recovery bundle staged, or None; bundles signed
    btQueue,              \* the sender's list of batches
    btPc, btJob,          \* the sender's next step and the members it is about
    wire,                 \* the connection, and what it carries each way
    btCustody, unsynced,  \* objects in custody, and those not flushed yet
    rcPc, rcItem,         \* the receiver's next step and what it is about
    recoveryEnabled,      \* the receiver takes bundles
    btFaults, btReconfigs

btSpool == <<manifests, dataFiles, btPublished>>
btStage == <<signings, frames, bundle, bundles>>
btSender == <<btQueue, btPc, btJob>>
btReceiver == <<btCustody, unsynced, rcPc, rcItem>>
btBounds == <<recoveryEnabled, btFaults, btReconfigs>>
btVars == <<btSpool, btStage, btSender, wire, btReceiver, btBounds>>

Batches == 1 .. MaxBatch
Closed == [open |-> FALSE, up |-> None, down |-> None]
Opened == [Closed EXCEPT !.open = TRUE]

\* An object of the transport: its name in custody is its kind and identity.
Object(kind, id, members, signing) == [kind |-> kind, id |-> id, members |-> members, signing |-> signing]
SameName(x, y) == x.kind = y.kind /\ x.id = y.id
Ack(x) == [kind |-> "ack", of |-> x]
Offer(n) == [kind |-> "offer", members |-> n]
Decision(accepted) == [kind |-> "decision", accepted |-> accepted]
Members(x) == Range(x.members)
----------------------------------------------------------------------------
(* The collector publishes.                                                *)

publishBatch ==
    /\ btPublished < MaxBatch
    /\ btPublished' = btPublished + 1
    /\ manifests' = manifests \cup {btPublished + 1} /\ dataFiles' = dataFiles \cup {btPublished + 1}
    /\ UNCHANGED <<btStage, btSender, wire, btReceiver, btBounds>>
----------------------------------------------------------------------------
(* What the sender does next.  The queue is a list made when the last one  *)
(* was used up, oldest first, of the manifests; data alone is not seen.    *)

scanPublishedBatchManifests == SetToSortSeq(manifests, <)
queueNext == IF btQueue = <<>> THEN scanPublishedBatchManifests ELSE btQueue

RecoveryStageMatchesSpool == Members(bundle) \cap manifests \subseteq dataFiles

\* A bundle in the stage comes before everything else.
FindStagedFrame ==
    /\ btPc = "Loop" /\ bundle # None
    /\ btPc' = IF RecoveryStageMatchesSpool THEN "Dial" ELSE "Stopped"
    /\ btJob' = [kind |-> "staged", members |-> bundle.members]
    /\ UNCHANGED <<btSpool, btStage, btQueue, wire, btReceiver, btBounds>>

\* The older half of a backlog above the threshold, if that is two at least.
PlanRecovery(q) == SubSeq(q, 1, Len(q) \div 2)
RecoveryDue(q) == RecoveryThreshold > 0 /\ Len(q) > RecoveryThreshold /\ Len(PlanRecovery(q)) >= 2

tryRecovery ==
    /\ btPc = "Loop" /\ bundle = None
    /\ RecoveryDue(queueNext)
    /\ btQueue' = queueNext
    /\ btJob' = [kind |-> "plan", members |-> PlanRecovery(queueNext)]
    /\ btPc' = "Dial"
    /\ UNCHANGED <<btSpool, btStage, wire, btReceiver, btBounds>>

\* Otherwise, or when the receiver would not have it, the oldest batch.
runSenderQueue ==
    /\ \/ btPc = "Loop" /\ bundle = None /\ ~RecoveryDue(queueNext)
       \/ btPc = "Next"
    /\ queueNext # <<>>
    /\ btQueue' = queueNext
    /\ btJob' = [kind |-> "batch", members |-> <<Head(queueNext)>>]
    /\ btPc' = "Prepare"
    /\ UNCHANGED <<btSpool, btStage, wire, btReceiver, btBounds>>
----------------------------------------------------------------------------
(* Staging a frame: the one in the stage, byte for byte, or a new one.     *)

Batch == Head(btJob.members)

\* Mutant: a retry signs the batch again.
stagedFrameSignedAgain ==
    /\ btPc = "Prepare" /\ frames[Batch] # None
    /\ signings' = [signings EXCEPT ![Batch] = @ + 1]
    /\ btPc' = "Publish"
    /\ UNCHANGED <<btSpool, frames, bundle, bundles, btQueue, btJob, wire, btReceiver, btBounds>>

stagedFrameReused ==
    /\ btPc = "Prepare" /\ frames[Batch] # None
    /\ btPc' = "Dial"
    /\ UNCHANGED <<btSpool, btStage, btQueue, btJob, wire, btReceiver, btBounds>>

\* Signed under a provisional name, which a kill leaves behind unused.
prepareNewOutboundFrameV2 ==
    /\ btPc = "Prepare" /\ frames[Batch] = None
    /\ signings' = [signings EXCEPT ![Batch] = @ + 1]
    /\ btPc' = "Publish"
    /\ UNCHANGED <<btSpool, frames, bundle, bundles, btQueue, btJob, wire, btReceiver, btBounds>>

publishOutboundFrame ==
    /\ btPc = "Publish"
    /\ frames' = [frames EXCEPT ![Batch] = Object("batch", Batch, <<Batch>>, signings[Batch])]
    /\ btPc' = "Dial"
    /\ UNCHANGED <<btSpool, signings, bundle, bundles, btQueue, btJob, wire, btReceiver, btBounds>>
----------------------------------------------------------------------------
(* The conversation, sender's side.  The receiver takes one connection at  *)
(* a time.  A connection that breaks before the acknowledgement was read   *)
(* is retried from the top.                                                *)

dialReceiver ==
    /\ btPc = "Dial" /\ rcPc = "Idle"
    /\ wire' = Opened
    /\ rcPc' = "Accepted"
    /\ btPc' = IF btJob.kind = "batch" THEN "Send" ELSE "Offer"
    /\ UNCHANGED <<btSpool, btStage, btQueue, btJob, btCustody, unsynced, rcItem, btBounds>>

Say(message, pc) ==
    /\ wire' = [wire EXCEPT !.up = message]
    /\ btPc' = pc
    /\ UNCHANGED <<btSpool, btStage, btQueue, btJob, btReceiver, btBounds>>

sendPreparedOutboundFrame ==
    /\ btPc = "Send" /\ wire.open /\ btJob.kind = "batch"
    /\ Say(frames[Batch], "Await")

WriteOffer ==
    /\ btPc = "Offer" /\ wire.open
    /\ Say(Offer(Len(btJob.members)), "AwaitDecision")

SendPreparedFrame ==
    /\ btPc = "Send" /\ wire.open /\ btJob.kind = "staged"
    /\ Say(bundle, "Await")

\* The receiver reads on until the sender hangs up; Hang is the sender doing so.
Hang == wire' = Closed

SelectRecoveryIndex(q) == SubSeq(q, 1, Min({Len(q), RecoveryMaxMembers}))

readDecision ==
    /\ btPc = "AwaitDecision" /\ wire.down # None /\ btJob.kind = "plan"
    /\ IF wire.down.accepted
       THEN /\ btPc' = "Encode"
            /\ btJob' = [btJob EXCEPT !.members = SelectRecoveryIndex(@)]
            /\ wire' = [wire EXCEPT !.down = None]
       ELSE btPc' = "Next" /\ UNCHANGED btJob /\ Hang
    /\ UNCHANGED <<btSpool, btStage, btQueue, btReceiver, btBounds>>

\* What is already staged cannot be made smaller: the service stops.
runStagedRecovery ==
    /\ btPc = "AwaitDecision" /\ wire.down # None /\ btJob.kind = "staged"
    /\ IF wire.down.accepted /\ Len(btJob.members) <= RecoveryMaxMembers
       THEN btPc' = "Send" /\ wire' = [wire EXCEPT !.down = None]
       ELSE btPc' = "Stopped" /\ Hang
    /\ UNCHANGED <<btSpool, btStage, btQueue, btJob, btReceiver, btBounds>>

\* The encoding is too large for the receiver: half the members, while two are left.
HalveRecoveryIndex ==
    /\ btPc = "Encode"
    /\ IF Len(btJob.members) > 2
       THEN /\ btJob' = [btJob EXCEPT !.members = SubSeq(@, 1, Max({2, Len(@) \div 2}))]
            /\ UNCHANGED <<btPc, wire>>
       ELSE btPc' = "Next" /\ UNCHANGED btJob /\ Hang
    /\ UNCHANGED <<btSpool, btStage, btQueue, btReceiver, btBounds>>

PrepareFrame ==
    /\ btPc = "Encode"
    /\ bundles' = bundles + 1
    /\ bundle' = Object("bundle", bundles + 1, btJob.members, 1)
    /\ btJob' = [btJob EXCEPT !.kind = "staged"]
    /\ btPc' = "Send"
    /\ UNCHANGED <<btSpool, signings, frames, btQueue, wire, btReceiver, btBounds>>

\* Mutant: a connection that breaks while an answer is awaited is not noticed.
retryOnlyWrites ==
    /\ btPc \in {"Send", "Offer"} /\ ~wire.open
    /\ btPc' = "Loop"
    /\ UNCHANGED <<btSpool, btStage, btQueue, btJob, wire, btReceiver, btBounds>>

retryTransport ==
    /\ btPc \in {"Send", "Offer", "Await", "AwaitDecision"} /\ ~wire.open
    /\ btPc' = "Loop"
    /\ UNCHANGED <<btSpool, btStage, btQueue, btJob, wire, btReceiver, btBounds>>
----------------------------------------------------------------------------
(* Retirement: only what the acknowledgement names, manifests before data. *)

Sent == IF btJob.kind = "batch" THEN frames[Batch] ELSE bundle
acknowledgementMatchesSentFrame(a) == a.kind = "ack" /\ a.of = Sent

\* Mutant: data is retired before its manifest.
retireDataFirst ==
    /\ btPc = "Await" /\ wire.down # None
    /\ btPc' = IF acknowledgementMatchesSentFrame(wire.down) THEN "RetireData" ELSE "Stopped"
    /\ Hang
    /\ UNCHANGED <<btSpool, btStage, btQueue, btJob, btReceiver, btBounds>>

VerifyDurableAcknowledgement ==
    /\ btPc = "Await" /\ wire.down # None
    /\ btPc' = IF acknowledgementMatchesSentFrame(wire.down) THEN "RetireManifests" ELSE "Stopped"
    /\ Hang
    /\ UNCHANGED <<btSpool, btStage, btQueue, btJob, btReceiver, btBounds>>

\* One file after the other, oldest member first.
retireManifest ==
    LET left == Range(btJob.members) \cap manifests IN
    /\ btPc = "RetireManifests"
    /\ IF left = {} THEN btPc' = "RetireData" /\ UNCHANGED manifests
       ELSE manifests' = manifests \ {Min(left)} /\ UNCHANGED btPc
    /\ UNCHANGED <<dataFiles, btPublished, btStage, btQueue, btJob, wire, btReceiver, btBounds>>

retireData ==
    LET left == Range(btJob.members) \cap dataFiles IN
    /\ btPc = "RetireData"
    /\ IF left = {} THEN btPc' = "Cleanup" /\ UNCHANGED dataFiles
       ELSE dataFiles' = dataFiles \ {Min(left)} /\ UNCHANGED btPc
    /\ UNCHANGED <<manifests, btPublished, btStage, btQueue, btJob, wire, btReceiver, btBounds>>

CleanupRetiredOutboundFrame ==
    /\ btPc = "Cleanup" /\ btJob.kind = "batch"
    /\ frames' = [frames EXCEPT ![Batch] = None]
    /\ btPc' = "Advance"
    /\ UNCHANGED <<btSpool, signings, bundle, bundles, btQueue, btJob, wire, btReceiver, btBounds>>

RemovePreparedFrame ==
    /\ btPc = "Cleanup" /\ btJob.kind = "staged"
    /\ bundle' = None
    /\ btPc' = "Advance"
    /\ UNCHANGED <<btSpool, signings, frames, bundles, btQueue, btJob, wire, btReceiver, btBounds>>

Advance ==
    /\ btPc = "Advance" /\ btJob.kind = "batch"
    /\ btQueue' = Tail(btQueue)
    /\ btPc' = "Loop" /\ btJob' = None
    /\ UNCHANGED <<btSpool, btStage, wire, btReceiver, btBounds>>

AdvanceRecoveryQueue ==
    /\ btPc = "Advance" /\ btJob.kind = "staged"
    /\ IF Range(btJob.members) \cap manifests = {}
       THEN btQueue' = scanPublishedBatchManifests /\ btPc' = "Loop"
       ELSE btPc' = "Stopped" /\ UNCHANGED btQueue
    /\ btJob' = None
    /\ UNCHANGED <<btSpool, btStage, wire, btReceiver, btBounds>>

\* A service that stopped is started again, and lists its spool anew.
runSenderRuntime ==
    /\ btPc = "Stopped"
    /\ btPc' = "Loop" /\ btQueue' = <<>> /\ btJob' = None
    /\ UNCHANGED <<btSpool, btStage, wire, btReceiver, btBounds>>
----------------------------------------------------------------------------
(* The receiver.                                                           *)

rcFrame == <<btSpool, btStage, btSender, btBounds>>
hangsUp(pc) == rcPc' = pc /\ rcItem' = None

receiveAuthenticatedRecovery ==
    /\ rcPc = "Accepted" /\ wire.up # None /\ wire.up.kind = "offer"
    /\ wire' = [wire EXCEPT !.up = None, !.down = Decision(recoveryEnabled)]
    /\ hangsUp(IF recoveryEnabled THEN "Bundle" ELSE "Idle")
    /\ UNCHANGED <<rcFrame, btCustody, unsynced>>

ReadValidatedBatch ==
    /\ rcPc = "Accepted" /\ wire.up # None /\ wire.up.kind = "batch"
    /\ rcItem' = wire.up /\ rcPc' = "Provisional"
    /\ wire' = [wire EXCEPT !.up = None]
    /\ UNCHANGED <<rcFrame, btCustody, unsynced>>

\* A bundle over the limits, or of other members than it says, is refused.
readBundle ==
    /\ rcPc = "Bundle" /\ wire.up # None
    /\ Len(wire.up.members) <= RecoveryMaxMembers
    /\ rcItem' = wire.up /\ rcPc' = "Provisional"
    /\ wire' = [wire EXCEPT !.up = None]
    /\ UNCHANGED <<rcFrame, btCustody, unsynced>>

\* The same name must hold the same bytes; otherwise the connection is closed.
ReceiveToDurableCustody(kind) ==
    /\ rcPc = "Provisional" /\ rcItem.kind = kind
    /\ LET there == {x \in btCustody : SameName(x, rcItem)} IN
       IF there \in {{}, {rcItem}}
       THEN /\ btCustody' = btCustody \cup {rcItem}
            /\ unsynced' = unsynced \cup ({rcItem} \ there)
            /\ rcPc' = "Sync" /\ UNCHANGED <<rcItem, wire>>
       ELSE hangsUp("Idle") /\ wire' = Closed /\ UNCHANGED <<btCustody, unsynced>>
    /\ UNCHANGED rcFrame

batchToDurableCustody == ReceiveToDurableCustody("batch")
bundleToDurableCustody == ReceiveToDurableCustody("bundle")

\* Mutant: the directory is not flushed.
custodyNotSynced ==
    /\ rcPc = "Sync"
    /\ UNCHANGED unsynced
    /\ rcPc' = "Ack"
    /\ UNCHANGED <<rcFrame, wire, btCustody, rcItem>>

\* The directory is flushed for a duplicate too: it may be one a kill left unflushed.
syncCustodyDirectory ==
    /\ rcPc = "Sync"
    /\ unsynced' = {}
    /\ rcPc' = "Ack"
    /\ UNCHANGED <<rcFrame, wire, btCustody, rcItem>>

ReceiveAndAcknowledge ==
    /\ rcPc = "Ack"
    /\ wire' = IF wire.open THEN [wire EXCEPT !.down = Ack(rcItem)] ELSE wire
    /\ hangsUp("Idle")
    /\ UNCHANGED <<rcFrame, btCustody, unsynced>>

\* A connection gone before the object was complete.
receiveFails ==
    /\ rcPc \in {"Accepted", "Bundle"} /\ ~wire.open
    /\ hangsUp("Idle")
    /\ UNCHANGED <<rcFrame, wire, btCustody, unsynced>>
----------------------------------------------------------------------------
(* Faults.                                                                 *)

Fault == btFaults < MaxBtFaults /\ btFaults' = btFaults + 1
noFault == UNCHANGED <<recoveryEnabled, btReconfigs>>

connectionBreaks ==
    /\ Fault /\ wire.open
    /\ wire' = Closed
    /\ UNCHANGED <<btSpool, btStage, btSender, btReceiver>> /\ noFault

senderKilled ==
    /\ Fault /\ btPc # "Stopped"
    /\ btPc' = "Stopped" /\ wire' = Closed
    /\ UNCHANGED <<btSpool, btStage, btQueue, btJob, btReceiver>> /\ noFault

\* The host may lose the directory entries that were not flushed.
receiverKilled ==
    /\ Fault
    /\ \E lost \in SUBSET unsynced :
          btCustody' = btCustody \ lost /\ unsynced' = unsynced \ lost
    /\ hangsUp("Idle") /\ wire' = Closed
    /\ UNCHANGED <<btSpool, btStage, btSender>> /\ noFault

reconfigureRecovery ==
    /\ btReconfigs < MaxReconfigs /\ btReconfigs' = btReconfigs + 1
    /\ recoveryEnabled' = ~recoveryEnabled
    /\ rcPc = "Idle"
    /\ UNCHANGED <<btSpool, btStage, btSender, wire, btReceiver, btFaults>>
----------------------------------------------------------------------------
BtInit ==
    /\ manifests = {} /\ dataFiles = {} /\ btPublished = 0
    /\ signings = [b \in Batches |-> 0] /\ frames = [b \in Batches |-> None]
    /\ bundle = None /\ bundles = 0
    /\ btQueue = <<>> /\ btPc = "Loop" /\ btJob = None
    /\ wire = Closed
    /\ btCustody = {} /\ unsynced = {} /\ rcPc = "Idle" /\ rcItem = None
    /\ recoveryEnabled = TRUE /\ btFaults = 0 /\ btReconfigs = 0

BtSenderSteps ==
    \/ FindStagedFrame \/ tryRecovery \/ runSenderQueue
    \/ stagedFrameReused \/ prepareNewOutboundFrameV2 \/ publishOutboundFrame
    \/ dialReceiver \/ sendPreparedOutboundFrame \/ WriteOffer \/ SendPreparedFrame
    \/ readDecision \/ runStagedRecovery \/ HalveRecoveryIndex \/ PrepareFrame \/ retryTransport
    \/ VerifyDurableAcknowledgement \/ retireManifest \/ retireData
    \/ CleanupRetiredOutboundFrame \/ RemovePreparedFrame \/ Advance \/ AdvanceRecoveryQueue
    \/ runSenderRuntime

BtReceiverSteps ==
    \/ receiveAuthenticatedRecovery \/ ReadValidatedBatch \/ readBundle
    \/ batchToDurableCustody \/ bundleToDurableCustody \/ syncCustodyDirectory
    \/ ReceiveAndAcknowledge \/ receiveFails

BtEnvironment ==
    publishBatch \/ connectionBreaks \/ senderKilled \/ receiverKilled \/ reconfigureRecovery

BtNext == BtSenderSteps \/ BtReceiverSteps \/ BtEnvironment
BtSpec == BtInit /\ [][BtNext]_btVars
\* Both services run their loops; the service manager restarts the sender.
BtFairSpec == BtSpec /\ WF_btVars(BtSenderSteps) /\ WF_btVars(BtReceiverSteps)
----------------------------------------------------------------------------
Durable(b) == \E x \in btCustody \ unsynced : b \in Members(x)

\* Types: the spool holds only batches published so far, and a staged object
\* is in the stage under the batch or the members it carries.
BtTypeOK ==
    /\ btPublished \in 0 .. MaxBatch
    /\ manifests \cup dataFiles \subseteq 1 .. btPublished
    /\ \A b \in Batches : frames[b] # None => frames[b].kind = "batch" /\ frames[b].members = <<b>>
    /\ bundle # None => bundle.kind = "bundle" /\ Len(bundle.members) \in 2 .. RecoveryMaxMembers
    /\ unsynced \subseteq btCustody
    /\ wire.open \/ wire = Closed

\* Nothing leaves the spool before the receiver holds it in custody it has
\* flushed, as the batch itself or in a bundle (RetirePublishedBatch,
\* RetireRecoveryMembers and the custody of the receiver).
RetiredIsDurable ==
    \A b \in 1 .. btPublished : b \notin manifests \/ b \notin dataFiles => Durable(b)

\* A manifest in the spool has its data, whatever was interrupted: what the
\* queue offers can be sent, and a staged bundle never meets a manifest
\* without data (RecoveryStageMatchesSpool would stop the sender for good).
ManifestHasData == manifests \subseteq dataFiles

\* A frame that reaches the receiver again is the frame in custody byte for
\* byte: the custody conflict, which no retry gets past, never happens.
ReplayIsExact ==
    \A x \in btCustody : \A y \in {bundle, rcItem} \cup {frames[b] : b \in Batches} :
        y # None /\ SameName(x, y) => x = y

\* Every batch in the queue is delivered and its manifest retired, through
\* broken connections, kills and restarts, unless the receiver switches
\* recovery off for good while a bundle is staged.
BacklogDrains ==
    (<>[](bundle = None \/ recoveryEnabled)) =>
        \A b \in Batches : b \in manifests ~> b \notin manifests

\* "If an earlier retirement was interrupted after removing one artifact, the
\* remaining artifact is verified against the same authorization and
\* retirement resumes safely": the data of a retired batch goes too.
InterruptedRetirementResumes ==
    \A b \in Batches : (b \in dataFiles /\ b \notin manifests) ~> b \notin dataFiles
=============================================================================
