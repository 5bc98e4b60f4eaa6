------------------------ MODULE GenerationTransport -------------------------
(***************************************************************************)
(* Transport of sealed generations from the Windows source to the Linux    *)
(* receiver: the sender's startup recovery, its builder goroutine and its  *)
(* queue loop (send, retire, reclaim); the authenticated connection; and   *)
(* the receiver, one process per transaction, which re-records everything  *)
(* in its custody directory before it listens.                             *)
(*                                                                         *)
(* Source directories change by write-through renames and are durable.     *)
(* Receiver directory entries are volatile until the directory is synced:  *)
(* they survive the death of the process and may vanish with the power.    *)
(***************************************************************************)
EXTENDS Naturals, FiniteSets

CONSTANTS
    Gens,       \* generation IDs, timestamps in the order they are frozen
    Oversize,   \* generations above the receiver's admission limit
    Faults,     \* which faults happen: a subset of FaultKinds
    MaxFaults,  \* how many of them
    None

FaultKinds == {"senderCrash", "sourcePowerLoss", "senderIO", "receiverCrash",
               "receiverPowerLoss", "receiverIO", "loss", "timeout", "revoke"}

ASSUME TransportAssumption ==
    /\ Gens \subseteq Nat /\ None \notin Gens
    /\ Oversize \subseteq Gens
    /\ Faults \subseteq FaultKinds
    /\ MaxFaults \in Nat

VARIABLES
    frozen,      \* generations the rollover has frozen so far
    raw,         \* generation-raw/generation-<g>
    built,       \* the private build root
    active,      \* the active transport queue
    retired,     \* retirement tombstones
    reclaiming,  \* tombstones whose bytes are being deleted
    ghost,       \* raw directories whose removal may not be on disk yet
    b, bgen,     \* builder goroutine and its generation
    q, qgen,     \* queue loop (and sender startup) and its generation
    wire,        \* the message in flight on the current connection
    r, rgen,     \* receiver process and its generation
    todo,        \* custody objects startup has still to record
    fresh,       \* the receipt being published is new
    prov,        \* a provisional .open name is in the custody root
    custody,     \* custody object of each generation
    receipt,     \* recorder receipt of each generation
    ready,       \* READY markers
    revoked,     \* the batch-signing certificate is no longer trusted
    faults       \* faults so far

source == <<frozen, raw, built, active, retired, reclaiming, ghost>>
senderVars == <<b, bgen, q, qgen>>
store == <<prov, custody, receipt, ready>>
receiverVars == <<r, rgen, todo, fresh>>
vars == <<frozen, raw, built, active, retired, reclaiming, ghost, b, bgen, q, qgen,
          wire, r, rgen, todo, fresh, prov, custody, receipt, ready, revoked, faults>>

Messages == [type : {"offer", "accept", "reject", "transfer", "ack"}, gen : Gens]
NoMessage == [type |-> "none", gen |-> None]
Entry == {"none", "volatile", "durable"}
Serving == {"accepted", "transfer", "received", "linked", "renamed", "synced",
            "receipt", "recorded", "acked"}
ReceiverStates == {"down", "recovering", "recoverSync", "listening"} \cup Serving

SourceTypeOK ==
    /\ frozen \subseteq Gens
    /\ raw \subseteq Gens /\ built \subseteq Gens /\ active \subseteq Gens
    /\ retired \subseteq Gens /\ reclaiming \subseteq Gens /\ ghost \subseteq Gens

SenderTypeOK ==
    /\ b \in {"down", "idle", "sealed", "unlisted", "failed"}
    /\ bgen \in Gens \cup {None}
    /\ q \in {"down", "startReclaim", "recover", "scan", "decision", "ack",
              "authorized", "reclaim"}
    /\ qgen \in Gens \cup {None}

ReceiverTypeOK ==
    /\ r \in ReceiverStates
    /\ rgen \in Gens \cup {None}
    /\ todo \subseteq Gens
    /\ fresh \in BOOLEAN

StoreTypeOK ==
    /\ prov \in BOOLEAN
    /\ custody \in [Gens -> Entry]
    /\ receipt \in [Gens -> Entry]
    /\ ready \subseteq Gens

TypeOK ==
    /\ SourceTypeOK /\ SenderTypeOK /\ ReceiverTypeOK /\ StoreTypeOK
    /\ wire \in Messages \cup {NoMessage}
    /\ revoked \in BOOLEAN
    /\ faults \in 0 .. MaxFaults

Init ==
    /\ frozen = {} /\ raw = {} /\ built = {} /\ active = {}
    /\ retired = {} /\ reclaiming = {} /\ ghost = {}
    /\ b = "down" /\ bgen = None
    /\ q = "down" /\ qgen = None
    /\ wire = NoMessage
    /\ r = "down" /\ rgen = None /\ todo = {} /\ fresh = FALSE
    /\ prov = FALSE /\ ready = {}
    /\ custody = [g \in Gens |-> "none"]
    /\ receipt = [g \in Gens |-> "none"]
    /\ revoked = FALSE
    /\ faults = 0

\* Directory entries are sorted by name: the first one, if there is any.
Oldest(S) == {g \in S : \A h \in S : g <= h}

Fault(kind) ==
    /\ kind \in Faults
    /\ faults < MaxFaults
    /\ faults' = faults + 1

-----------------------------------------------------------------------------
(* Sender process.                                                         *)

\* The process ends, by a crash or by returning an error from the queue loop.
SenderStops ==
    /\ q' = "down" /\ qgen' = None
    /\ b' = "down" /\ bgen' = None

SenderStart ==
    /\ q = "down"
    /\ q' = "startReclaim"
    /\ UNCHANGED <<source, b, bgen, qgen, wire, receiverVars, store, revoked, faults>>

SenderCrash ==
    /\ q # "down"
    /\ Fault("senderCrash")
    /\ SenderStops
    /\ UNCHANGED <<source, wire, receiverVars, store, revoked>>

\* The source host loses power: raw directories are removed without a flush, so
\* removed ones may be there again.
SourcePowerLoss ==
    /\ Fault("sourcePowerLoss")
    /\ \E S \in SUBSET ghost : raw' = raw \cup S
    /\ ghost' = {}
    /\ SenderStops
    /\ UNCHANGED <<frozen, built, active, retired, reclaiming, wire, receiverVars,
                   store, revoked>>

\* recoverGenerationReclamation, and the removal that follows each publication
\* of a reclaiming name.
RemoveReclaiming ==
    /\ q \in {"startReclaim", "reclaim"}
    /\ \E g \in Oldest(reclaiming) : reclaiming' = reclaiming \ {g}
    /\ UNCHANGED <<frozen, raw, built, active, retired, ghost, senderVars, wire,
                   receiverVars, store, revoked, faults>>

\* ReclaimGenerationRetirementTombstones: a verified tombstone is renamed into
\* the reclaiming namespace before any byte of it is deleted.
PublishReclaiming ==
    /\ q \in {"startReclaim", "reclaim"}
    /\ reclaiming = {}
    /\ \E g \in Oldest(retired) :
         /\ reclaiming' = {g}
         /\ retired' = retired \ {g}
    /\ UNCHANGED <<frozen, raw, built, active, ghost, senderVars, wire, receiverVars,
                   store, revoked, faults>>

ReclaimDone ==
    /\ q \in {"startReclaim", "reclaim"}
    /\ reclaiming = {} /\ retired = {}
    /\ q' = IF q = "startReclaim" THEN "recover" ELSE "scan"
    /\ UNCHANGED <<source, b, bgen, qgen, wire, receiverVars, store, revoked, faults>>

\* RecoverTransportGenerationBuilds, first loop: a complete private build
\* retires its raw directory and is then promoted.
RecoverBuild ==
    /\ q = "recover"
    /\ \E g \in Oldest(built) :
         /\ g \notin active
         /\ \/ /\ g \in raw
               /\ raw' = raw \ {g} /\ ghost' = ghost \cup {g}
               /\ UNCHANGED <<built, active>>
            \/ /\ g \notin raw
               /\ built' = built \ {g}
               /\ active' = active \cup {g}
               /\ UNCHANGED <<raw, ghost>>
    /\ UNCHANGED <<frozen, retired, reclaiming, senderVars, wire, receiverVars,
                   store, revoked, faults>>

\* Second loop: a raw directory left beside an already promoted generation.
RecoverRaw ==
    /\ q = "recover"
    /\ built = {}
    /\ \E g \in Oldest(raw \cap active) :
         /\ raw' = raw \ {g} /\ ghost' = ghost \cup {g}
    /\ UNCHANGED <<frozen, built, active, retired, reclaiming, senderVars, wire,
                   receiverVars, store, revoked, faults>>

\* The rollover and builder goroutines start with the queue loop.
RecoverDone ==
    /\ q = "recover"
    /\ built = {} /\ raw \cap active = {}
    /\ q' = "scan"
    /\ b' = "idle"
    /\ UNCHANGED <<source, bgen, qgen, wire, receiverVars, store, revoked, faults>>

\* RolloverPublishedSpool, seen from the queue: a newer raw generation appears.
Freeze(g) ==
    /\ b # "down"
    /\ g \notin frozen /\ \A h \in frozen : h < g
    /\ frozen' = frozen \cup {g}
    /\ raw' = raw \cup {g}
    /\ UNCHANGED <<built, active, retired, reclaiming, ghost, senderVars, wire,
                   receiverVars, store, revoked, faults>>

\* BuildRawTransportGeneration for the oldest raw generation: an already
\* promoted one only loses its raw directory; otherwise it is sealed into the
\* private build root, where an existing complete build is reused.
BuildSeal ==
    /\ b = "idle"
    /\ \E g \in Oldest(raw) :
         \/ /\ g \in active /\ g \notin built
            /\ raw' = raw \ {g} /\ ghost' = ghost \cup {g}
            /\ UNCHANGED <<built, b, bgen>>
         \/ /\ g \notin active
            /\ built' = built \cup {g}
            /\ b' = "sealed" /\ bgen' = g
            /\ UNCHANGED <<raw, ghost>>
    /\ UNCHANGED <<frozen, active, retired, reclaiming, q, qgen, wire,
                   receiverVars, store, revoked, faults>>

\* Mutant: the raw directory is left for a later pass.
BuildKeepsRaw ==
    /\ b = "sealed"
    /\ b' = "unlisted"
    /\ UNCHANGED <<source, bgen, q, qgen, wire, receiverVars, store, revoked, faults>>

BuildRemoveRaw ==
    /\ b = "sealed"
    /\ raw' = raw \ {bgen} /\ ghost' = ghost \cup {bgen}
    /\ b' = "unlisted"
    /\ UNCHANGED <<frozen, built, active, retired, reclaiming, bgen, q, qgen, wire,
                   receiverVars, store, revoked, faults>>

\* Mutant: the generation is promoted by a copy.
BuildPromoteCopies ==
    /\ b = "unlisted" /\ bgen \notin active
    /\ active' = active \cup {bgen}
    /\ b' = "idle" /\ bgen' = None
    /\ UNCHANGED <<frozen, raw, built, retired, reclaiming, ghost, q, qgen, wire,
                   receiverVars, store, revoked, faults>>

BuildPromote ==
    /\ b = "unlisted" /\ bgen \notin active
    /\ built' = built \ {bgen}
    /\ active' = active \cup {bgen}
    /\ b' = "idle" /\ bgen' = None
    /\ UNCHANGED <<frozen, raw, retired, reclaiming, ghost, q, qgen, wire, receiverVars,
                   store, revoked, faults>>

\* A build error ends the builder; the queue loop sees it when it next looks at
\* its error channel and the process fail-stops.
BuildFails ==
    /\ b \in {"idle", "sealed", "unlisted"}
    /\ Fault("senderIO")
    /\ b' = "failed" /\ bgen' = None
    /\ UNCHANGED <<source, q, qgen, wire, receiverVars, store, revoked>>

SenderFailStop ==
    /\ q = "scan" /\ b = "failed"
    /\ SenderStops
    /\ UNCHANGED <<source, wire, receiverVars, store, revoked, faults>>

\* Mutant: directory order instead of sorted order.
SendOfferUnsorted ==
    /\ q = "scan" /\ b # "failed"
    /\ r = "listening"
    /\ \E g \in active :
         /\ qgen' = g
         /\ wire' = [type |-> "offer", gen |-> g]
    /\ q' = "decision"
    /\ r' = "accepted"
    /\ UNCHANGED <<source, b, bgen, rgen, todo, fresh, store, revoked, faults>>

\* NextTransportGeneration picks the oldest active generation; a connection
\* needs a receiver that listens.  The offer is the first message on it.
SendOffer ==
    /\ q = "scan" /\ b # "failed"
    /\ r = "listening"
    /\ \E g \in Oldest(active) :
         /\ qgen' = g
         /\ wire' = [type |-> "offer", gen |-> g]
    /\ q' = "decision"
    /\ r' = "accepted"
    /\ UNCHANGED <<source, b, bgen, rgen, todo, fresh, store, revoked, faults>>

\* Mutant: an accepting decision is taken for the acknowledgement.
ReadDecisionAsAck ==
    /\ q = "decision"
    /\ wire = [type |-> "accept", gen |-> qgen]
    /\ wire' = [type |-> "transfer", gen |-> qgen]
    /\ q' = "authorized"
    /\ UNCHANGED <<source, b, bgen, qgen, receiverVars, store, revoked, faults>>

\* An accepting decision is answered with the exact transfer; a rejection is not
\* retryable and fail-stops the sender.
ReadDecision ==
    /\ q = "decision"
    /\ \/ /\ wire = [type |-> "accept", gen |-> qgen]
          /\ wire' = [type |-> "transfer", gen |-> qgen]
          /\ q' = "ack"
          /\ UNCHANGED <<b, bgen, qgen>>
       \/ /\ wire = [type |-> "reject", gen |-> qgen]
          /\ wire' = NoMessage
          /\ SenderStops
    /\ UNCHANGED <<source, receiverVars, store, revoked, faults>>

\* VerifyGenerationAcknowledgement: an acknowledgement of this very transfer.
ReadAcknowledgement ==
    /\ q = "ack"
    /\ wire = [type |-> "ack", gen |-> qgen]
    /\ wire' = NoMessage
    /\ q' = "authorized"
    /\ UNCHANGED <<source, b, bgen, qgen, receiverVars, store, revoked, faults>>

\* RetireTransportGeneration, and the reclamation pass that follows it.  By now
\* the removal of the raw directory, one network exchange ago, is on disk.
Retire ==
    /\ q = "authorized"
    /\ qgen \in active /\ qgen \notin retired
    /\ active' = active \ {qgen}
    /\ retired' = retired \cup {qgen}
    /\ ghost' = ghost \ {qgen}
    /\ q' = "reclaim" /\ qgen' = None
    /\ UNCHANGED <<frozen, raw, built, reclaiming, b, bgen, wire, receiverVars,
                   store, revoked, faults>>

\* Mutant: a closed connection is not noticed.
SendRetryOnTimeout ==
    /\ q \in {"decision", "ack"}
    /\ Fault("timeout")
    /\ q' = "scan" /\ qgen' = None
    /\ UNCHANGED <<source, b, bgen, wire, receiverVars, store, revoked>>

\* A timeout, or a connection whose other end is gone: the attempt is abandoned
\* and the same generation is offered again later.
SendRetry ==
    /\ q \in {"decision", "ack"}
    /\ \/ Fault("timeout")
       \/ /\ r \notin Serving /\ wire.type \notin {"accept", "reject", "ack"}
          /\ UNCHANGED faults
    /\ q' = "scan" /\ qgen' = None
    /\ UNCHANGED <<source, b, bgen, wire, receiverVars, store, revoked>>

\* The queue is empty: waitForGenerationActivity.
IdlePoll ==
    /\ q = "scan" /\ b # "failed" /\ active = {}
    /\ UNCHANGED vars

\* External: the network drops what is in flight.
LoseMessage ==
    /\ wire # NoMessage
    /\ Fault("loss")
    /\ wire' = NoMessage
    /\ UNCHANGED <<source, senderVars, receiverVars, store, revoked>>

Sender ==
    \/ SenderStart \/ SenderCrash \/ SourcePowerLoss \/ RemoveReclaiming
    \/ PublishReclaiming \/ ReclaimDone \/ RecoverBuild \/ RecoverRaw \/ RecoverDone
    \/ (\E g \in Gens : Freeze(g))
    \/ BuildSeal \/ BuildRemoveRaw \/ BuildPromote \/ BuildFails
    \/ SenderFailStop \/ SendOffer \/ ReadDecision \/ ReadAcknowledgement
    \/ Retire \/ SendRetry \/ IdlePoll

-----------------------------------------------------------------------------
(* Receiver process.                                                       *)

Present(dir) == {g \in Gens : dir[g] # "none"}

\* A directory sync makes every entry of that directory durable.
Synced(dir) == [g \in Gens |-> IF dir[g] = "none" THEN "none" ELSE "durable"]

\* os.Link publishes a name and never replaces one.
Linked(dir, g) == [dir EXCEPT ![g] = IF @ = "none" THEN "volatile" ELSE @]

ReceiverStops ==
    /\ r' = "down" /\ rgen' = None /\ todo' = {} /\ fresh' = FALSE

\* RecoverDurableCustodyRoot removes provisional names; only when there was one
\* does it sync the directory.
ReceiverStart ==
    /\ r = "down"
    /\ r' = "recovering"
    /\ todo' = Present(custody)
    /\ prov' = FALSE
    /\ custody' = IF prov THEN Synced(custody) ELSE custody
    /\ UNCHANGED <<source, senderVars, wire, rgen, fresh, receipt, ready, revoked, faults>>

\* RecordDiscoveredCustodyDurably revalidates an object under current trust and
\* links its receipt.
RecordDiscovered ==
    /\ r = "recovering" /\ todo # {} /\ ~revoked
    /\ \E g \in todo :
         /\ receipt' = Linked(receipt, g)
         /\ fresh' = (receipt[g] = "none")
         /\ rgen' = g
    /\ r' = "recoverSync"
    /\ UNCHANGED <<source, senderVars, wire, todo, prov, custody, ready, revoked, faults>>

\* Mutant: the generation is cleared before READY is published for it.
SyncDiscoveredCleared ==
    /\ r = "recoverSync"
    /\ receipt' = Synced(receipt)
    /\ rgen' = None /\ fresh' = FALSE
    /\ ready' = IF fresh THEN ready \cup {rgen'} ELSE ready
    /\ todo' = todo \ {rgen}
    /\ r' = "recovering"
    /\ UNCHANGED <<source, senderVars, wire, prov, custody, revoked, faults>>

\* The receipt directory is synced.  READY is published for a new receipt only,
\* and a failure to publish it is no more than a warning.
SyncDiscovered ==
    /\ r = "recoverSync"
    /\ receipt' = Synced(receipt)
    /\ \/ fresh /\ ready' = ready \cup {rgen} /\ UNCHANGED faults
       \/ ~fresh /\ UNCHANGED <<ready, faults>>
       \/ fresh /\ Fault("receiverIO") /\ UNCHANGED ready
    /\ todo' = todo \ {rgen}
    /\ r' = "recovering" /\ rgen' = None /\ fresh' = FALSE
    /\ UNCHANGED <<source, senderVars, wire, prov, custody, revoked>>

\* One object that no longer validates keeps the receiver closed.
StartupFails ==
    /\ r = "recovering" /\ todo # {} /\ revoked
    /\ ReceiverStops
    /\ UNCHANGED <<source, senderVars, wire, store, revoked, faults>>

Listen ==
    /\ r = "recovering" /\ todo = {}
    /\ r' = "listening"
    /\ UNCHANGED <<source, senderVars, wire, rgen, todo, fresh, store, revoked, faults>>

\* generationAdmissionDecision.
ReadOffer ==
    /\ r = "accepted" /\ wire.type = "offer"
    /\ \/ /\ wire.gen \notin Oversize
          /\ wire' = [type |-> "accept", gen |-> wire.gen]
          /\ r' = "transfer" /\ rgen' = wire.gen
          /\ UNCHANGED <<todo, fresh>>
       \/ /\ wire.gen \in Oversize
          /\ wire' = [type |-> "reject", gen |-> wire.gen]
          /\ ReceiverStops
    /\ UNCHANGED <<source, senderVars, store, revoked, faults>>

\* ReceiveToDurableCustody: the validated transfer is in a synced provisional
\* file; a transfer that current trust rejects leaves nothing.
ReceiveTransfer ==
    /\ r = "transfer" /\ wire = [type |-> "transfer", gen |-> rgen]
    /\ wire' = NoMessage
    /\ \/ /\ ~revoked
          /\ prov' = TRUE
          /\ r' = "received"
          /\ UNCHANGED <<rgen, todo, fresh>>
       \/ /\ revoked
          /\ ReceiverStops
          /\ UNCHANGED prov
    /\ UNCHANGED <<source, senderVars, custody, receipt, ready, revoked, faults>>

\* The custody name is linked; an existing one holds the same bytes, since a
\* sealed generation never changes (DUPLICATE).
LinkCustody ==
    /\ r = "received"
    /\ custody' = Linked(custody, rgen)
    /\ fresh' = (custody[rgen] = "none")
    /\ r' = "linked"
    /\ UNCHANGED <<source, senderVars, wire, rgen, todo, prov, receipt, ready,
                   revoked, faults>>

\* The provisional name is removed.  When that fails after a new link, the link
\* is taken back as well as that is possible.
DropProvisional ==
    /\ r = "linked"
    /\ \/ /\ prov' = FALSE
          /\ r' = "renamed"
          /\ UNCHANGED <<rgen, todo, fresh, custody, faults>>
       \/ /\ Fault("receiverIO")
          /\ custody' \in {custody, IF fresh THEN [custody EXCEPT ![rgen] = "none"]
                                             ELSE custody}
          /\ ReceiverStops
          /\ UNCHANGED prov
    /\ UNCHANGED <<source, senderVars, wire, receipt, ready, revoked>>

SyncCustody ==
    /\ r = "renamed"
    /\ custody' = Synced(custody)
    /\ r' = "synced"
    /\ UNCHANGED <<source, senderVars, wire, rgen, todo, fresh, prov, receipt, ready,
                   revoked, faults>>

\* RecordCustodyDurably: the receipt is linked, then its directory synced, for
\* a new receipt and for an existing one alike.
LinkReceipt ==
    /\ r = "synced"
    /\ receipt' = Linked(receipt, rgen)
    /\ r' = "receipt"
    /\ UNCHANGED <<source, senderVars, wire, rgen, todo, fresh, prov, custody, ready,
                   revoked, faults>>

\* Mutant: the receipt directory is not synced.
SyncReceiptSkipped ==
    /\ r = "receipt"
    /\ r' = "recorded"
    /\ UNCHANGED <<source, senderVars, wire, rgen, todo, fresh, store, revoked, faults>>

SyncReceipt ==
    /\ r = "receipt"
    /\ receipt' = Synced(receipt)
    /\ r' = "recorded"
    /\ UNCHANGED <<source, senderVars, wire, rgen, todo, fresh, prov, custody, ready,
                   revoked, faults>>

\* Mutant: READY only for a transfer that was new to custody.
PublishReadyIfNew ==
    /\ r = "recorded"
    /\ ready' = IF fresh THEN ready \cup {rgen} ELSE ready
    /\ r' = "acked"
    /\ UNCHANGED <<source, senderVars, wire, rgen, todo, fresh, prov, custody,
                   receipt, revoked, faults>>

\* publishGenerationReady, for new and repeated generations; failure is a warning.
PublishReady ==
    /\ r = "recorded"
    /\ \/ ready' = ready \cup {rgen} /\ UNCHANGED faults
       \/ Fault("receiverIO") /\ UNCHANGED ready
    /\ r' = "acked"
    /\ UNCHANGED <<source, senderVars, wire, rgen, todo, fresh, prov, custody,
                   receipt, revoked>>

\* The acknowledgement is written and the process exits.  It reaches the sender
\* only if the sender still has the connection.
WriteAcknowledgement ==
    /\ r = "acked"
    /\ wire' = IF q = "ack" /\ qgen = rgen
               THEN [type |-> "ack", gen |-> rgen] ELSE NoMessage
    /\ ReceiverStops
    /\ UNCHANGED <<source, senderVars, store, revoked, faults>>

\* The connection ended before the transfer was complete.
ReceiveError ==
    /\ \/ r = "accepted" /\ wire.type # "offer"
       \/ r = "transfer" /\ wire.type # "transfer"
    /\ wire = NoMessage \/ q \notin {"decision", "ack"}
    /\ ReceiverStops
    /\ UNCHANGED <<source, senderVars, wire, store, revoked, faults>>

\* The process dies, or returns an error: only the latter removes a provisional
\* file whose name was not linked yet.
ReceiverCrash ==
    /\ r # "down"
    /\ Fault("receiverCrash")
    /\ prov' \in {prov, prov /\ r # "received"}
    /\ ReceiverStops
    /\ UNCHANGED <<source, senderVars, wire, custody, receipt, ready, revoked>>

\* Each volatile entry is on disk or not.
AfterPowerLoss(dir) ==
    {d \in [Gens -> {"none", "durable"}] :
        \A g \in Gens : dir[g] # "volatile" => d[g] = dir[g]}

ReceiverPowerLoss ==
    /\ Fault("receiverPowerLoss")
    /\ custody' \in AfterPowerLoss(custody)
    /\ receipt' \in AfterPowerLoss(receipt)
    /\ prov' \in {prov, FALSE}
    /\ ReceiverStops
    /\ UNCHANGED <<source, senderVars, wire, ready, revoked>>

\* External: a newer CRL revokes the batch-signing certificate.
Revoke ==
    /\ ~revoked
    /\ Fault("revoke")
    /\ revoked' = TRUE
    /\ UNCHANGED <<source, senderVars, wire, receiverVars, store>>

Receiver ==
    \/ ReceiverStart \/ RecordDiscovered \/ SyncDiscovered \/ StartupFails
    \/ Listen \/ ReadOffer \/ ReceiveTransfer \/ LinkCustody \/ DropProvisional
    \/ SyncCustody \/ LinkReceipt \/ SyncReceipt \/ PublishReady
    \/ WriteAcknowledgement \/ ReceiveError \/ ReceiverCrash
    \/ ReceiverPowerLoss

Next == Sender \/ Receiver \/ LoseMessage \/ Revoke

Spec == Init /\ [][Next]_vars

-----------------------------------------------------------------------------
(* Properties.                                                             *)

Held == raw \cup built \cup active
DurablyRecorded == {g \in Gens : custody[g] = "durable" /\ receipt[g] = "durable"}

\* SendAndRetireTransportGeneration: "Retirement is impossible until the receiver
\* has returned a complete recorded/already_recorded acknowledgement".  Every
\* frozen generation is still at the source, or both its custody object and its
\* receipt survive a power failure of the receiver.
NothingLost == frozen \subseteq Held \cup DurablyRecorded

\* Generation signatures are randomized (RSA-PSS), so sealing a generation a
\* second time gives other bytes under the same identity and the receiver's
\* custody comparison would reject them for ever.  BuildRawTransportGeneration
\* and RecoverTransportGenerationBuilds never seal what may have been sent.
NeverResealed ==
    [][\A g \in built' \ built :
          /\ g \notin active \cup retired \cup reclaiming
          /\ custody[g] = "none" /\ receipt[g] = "none"]_vars

\* The "found both" errors of build recovery, retirement and reclamation are
\* unreachable: a generation has one place in the stage root.
OnePlace ==
    /\ built \cap active = {}
    /\ (built \cup active) \cap (retired \cup reclaiming) = {}
    /\ retired \cap reclaiming = {}

\* NextRawGeneration and NextTransportGeneration take the oldest: the receiver
\* never has a receipt for a generation without one for every older generation.
RecordedInOrder ==
    \A h \in Present(receipt) : {g \in frozen : g < h} \subseteq Present(receipt)

\* A generation the source has given up was announced to the ingest worker, also
\* when a crash came between its receipt and its READY marker (startup publishes
\* READY for new receipts only) -- as long as no marker write fails.
ReleasedWasReady == frozen \ Held \subseteq ready

\* The abstract promise, with the receiver's durable state as "recorded".
Delivery == INSTANCE GenerationDelivery
              WITH produced <- frozen, held <- Held, recorded <- DurablyRecorded

\* GenerationTransport implements GenerationDelivery.
DeliversGenerations == Delivery!DSpec

-----------------------------------------------------------------------------
(* Fairness: both processes are restarted by their service managers and    *)
(* keep executing.  Faults, bounded by MaxFaults, and Freeze get none.     *)

Fairness ==
    /\ WF_vars(SenderStart) /\ WF_vars(RemoveReclaiming) /\ WF_vars(PublishReclaiming)
    /\ WF_vars(ReclaimDone) /\ WF_vars(RecoverBuild) /\ WF_vars(RecoverRaw)
    /\ WF_vars(RecoverDone) /\ WF_vars(BuildSeal) /\ WF_vars(BuildRemoveRaw)
    /\ WF_vars(BuildPromote) /\ WF_vars(SenderFailStop) /\ WF_vars(SendOffer)
    /\ WF_vars(ReadDecision) /\ WF_vars(ReadAcknowledgement) /\ WF_vars(Retire)
    /\ WF_vars(SendRetry)
    /\ WF_vars(ReceiverStart) /\ WF_vars(RecordDiscovered) /\ WF_vars(SyncDiscovered)
    /\ WF_vars(Listen) /\ WF_vars(ReadOffer) /\ WF_vars(ReceiveTransfer)
    /\ WF_vars(LinkCustody) /\ WF_vars(DropProvisional) /\ WF_vars(SyncCustody)
    /\ WF_vars(LinkReceipt) /\ WF_vars(SyncReceipt) /\ WF_vars(PublishReady)
    /\ WF_vars(WriteAcknowledgement) /\ WF_vars(ReceiveError)

FairSpec == Spec /\ Fairness

\* Every frozen generation is recorded, retired and reclaimed in the end, whatever
\* crashes, timeouts and lost messages (including lost acknowledgements) happen
\* on the way, provided they stop.
FrozenIsDelivered ==
    \A g \in Gens :
        g \in frozen ~> (g \in DurablyRecorded /\ g \notin Held \cup retired \cup reclaiming)

=============================================================================
