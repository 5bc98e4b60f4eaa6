--------------------------- MODULE GenerationWire ---------------------------
(***************************************************************************)
(* The bytes of one sealed generation on their way from the source's queue *)
(* to the receiver's receipt.  The sender reads the directory several      *)
(* times: for the queue, for the offer, for the transfer, before it        *)
(* retires and before it reclaims; the receiver reads the transfer once    *)
(* from the wire and again from custody.  Between any two reads the bytes  *)
(* on disk may have changed.  GenerationTransport has the queue and the    *)
(* durability of names, CanonicalStream what is inside the payload.        *)
(*                                                                         *)
(* SHA-256 is the identity and a signature is the input it was made over.  *)
(* A payload is a sequence of blocks in a file with an identity.           *)
(***************************************************************************)
EXTENDS Naturals, Sequences, Sentinel

CONSTANTS AlterAt,      \* where bytes change at rest: subset of {"source", "custody"}
          MaxAlterations,
          MaxGwBreaks   \* bound on broken connections and killed processes

ASSUME GenerationWireAssumption ==
    /\ AlterAt \subseteq {"source", "custody"}
    /\ MaxAlterations \in Nat /\ MaxGwBreaks \in Nat

VARIABLES gwDir,      \* the generation's directory: place, metadata, payload file
          gwS,        \* the sender's next step
          gwQueued,   \* the signed value the queue loaded
          gwOpen,     \* the payload file the transfer has open
          gwSent,     \* what the transfer has written: metadata, blocks
          gwConn,     \* "none", "open", or "half": the sender has closed its side
          gwToR, gwToS,
          gwR,        \* the receiver's next step
          gwOffer,    \* the offer it accepted
          gwGot,      \* the transfer it has written to the provisional file
          gwCustody, gwReceipt, gwConflict,
          gwAltered, gwBreaks

gwSource   == <<gwDir, gwAltered>>
gwSender   == <<gwS, gwQueued, gwOpen, gwSent>>
gwReceiver == <<gwR, gwOffer, gwGot>>
gwStore    == <<gwCustody, gwReceipt, gwConflict>>
gwWire     == <<gwConn, gwToR, gwToS>>
gwVars == <<gwSource, gwSender, gwWire, gwReceiver, gwStore, gwBreaks>>

-----------------------------------------------------------------------------
(* Descriptors, signatures and metadata. *)

SealedBlocks == <<1, 2>>

\* Identity, sizes and digest; the other fields are bound the same way.
descriptorOf(blocks) == [id |-> "generation", size |-> Len(blocks), sha |-> blocks]

ValidateDescriptor(d) == d.id # "" /\ d.size > 0
SignatureInput(d) == <<d.id, d.size, d.sha>>
NewSignedGeneration(d) == [descriptor |-> d, signature |-> SignatureInput(d)]

\* The metadata file: the signed value and the bytes it was written with.
MarshalSignedGeneration(signed) == [signed |-> signed, form |-> "marshalled"]

VerifySignedGenerationSignature(signed) == signed.signature = SignatureInput(signed.descriptor)
validateSignedGenerationCryptographically(signed) ==
    /\ ValidateDescriptor(signed.descriptor)
    /\ VerifySignedGenerationSignature(signed)
UnmarshalSignedGeneration(metadata) ==
    /\ metadata.form # "torn"
    /\ validateSignedGenerationCryptographically(metadata.signed)

SealedSigned   == NewSignedGeneration(descriptorOf(SealedBlocks))
SealedMetadata == MarshalSignedGeneration(SealedSigned)

\* What a directory entry looks like after its bytes changed: rewritten with
\* other white space, torn, or with one field of the descriptor changed.
MetadataVariants ==
    {SealedMetadata,
     [SealedMetadata EXCEPT !.form = "spaced"],
     [SealedMetadata EXCEPT !.form = "torn"],
     [SealedMetadata EXCEPT !.signed.descriptor = descriptorOf(<<1, 9>>)]}
BlockVariants == {SealedBlocks, <<1, 9>>, <<9, 2>>, <<1>>, <<1, 2, 3>>}

\* readStableBoundedGenerationFile and the payload's Lstat: the metadata parses
\* and verifies, and the payload has the size that it signs.
LoadSealedGeneration ==
    /\ UnmarshalSignedGeneration(gwDir.metadata)
    /\ Len(gwDir.payload.blocks) = gwDir.metadata.signed.descriptor.size

\* LoadSealedGeneration again, and the signed value is the one in the queue.
unchangedSinceQueued == LoadSealedGeneration /\ gwDir.metadata.signed = gwQueued

\* A transfer as hashed by either side: 20 bytes of header, metadata, payload.
transferOf(metadata, blocks) == [metadata |-> metadata, blocks |-> blocks]

-----------------------------------------------------------------------------
(* The sender. *)

SenderFrame == UNCHANGED <<gwSource, gwReceiver, gwStore, gwBreaks>>

\* Any error ends the transaction and the connection; the queue is scanned
\* again, by the retry or by the restarted service.
sendError == /\ gwS' = "scan" /\ gwQueued' = None /\ gwOpen' = None /\ gwSent' = None
             /\ gwConn' = IF gwConn = "open" THEN "half" ELSE gwConn
             /\ gwToS' = <<>> /\ UNCHANGED gwToR

loadTransportGenerationAt ==
    /\ gwS = "scan" /\ gwDir.place = "active" /\ LoadSealedGeneration
    /\ gwS' = "dial" /\ gwQueued' = gwDir.metadata.signed
    /\ UNCHANGED <<gwOpen, gwSent, gwWire>> /\ SenderFrame

dialAuthenticatedSenderTransport ==
    /\ gwS = "dial" /\ gwConn = "none" /\ gwR = "listen"
    /\ gwS' = "offer" /\ gwConn' = "open" /\ gwToR' = <<>> /\ gwToS' = <<>>
    /\ gwR' = "readOffer"
    /\ UNCHANGED <<gwSource, gwQueued, gwOpen, gwSent, gwOffer, gwGot, gwStore, gwBreaks>>

OfferFromPublished ==
    /\ gwS = "offer"
    /\ \/ /\ gwConn = "open" /\ unchangedSinceQueued
          /\ gwToR' = Append(gwToR, [type |-> "offer", descriptor |-> gwQueued.descriptor,
                                     metadata |-> gwDir.metadata])
          /\ gwS' = "decision" /\ UNCHANGED <<gwQueued, gwOpen, gwSent, gwConn, gwToS>>
       \/ /\ gwConn # "open" \/ ~unchangedSinceQueued
          /\ sendError
    /\ SenderFrame

DecisionMatchesOffer(m) == m.type = "accept" /\ m.id = gwQueued.descriptor.id
ReadDecision ==
    /\ gwS = "decision"
    /\ \/ /\ gwToS # <<>> /\ DecisionMatchesOffer(Head(gwToS))
          /\ gwToS' = Tail(gwToS) /\ gwS' = "open"
          /\ UNCHANGED <<gwQueued, gwOpen, gwSent, gwConn, gwToR>>
       \/ /\ IF gwToS = <<>> THEN gwConn = "none" ELSE ~DecisionMatchesOffer(Head(gwToS))
          /\ sendError
    /\ SenderFrame

\* WritePublishedGeneration reloads the directory, reads the metadata, opens
\* the payload, and writes header and metadata.
writeTransferMetadata ==
    /\ gwS = "open"
    /\ \/ /\ gwConn = "open" /\ unchangedSinceQueued
          /\ gwOpen' = gwDir.payload /\ gwSent' = transferOf(gwDir.metadata, <<>>)
          /\ gwToR' = Append(gwToR, [type |-> "metadata", metadata |-> gwDir.metadata,
                                     size |-> gwQueued.descriptor.size])
          /\ gwS' = "stream" /\ UNCHANGED <<gwQueued, gwConn, gwToS>>
       \/ /\ gwConn # "open" \/ ~unchangedSinceQueued
          /\ sendError
    /\ SenderFrame

\* io.CopyN of the signed size, a block at a time, from the open file.
streamPayload ==
    /\ gwS = "stream" /\ Len(gwSent.blocks) < gwQueued.descriptor.size
    /\ LET i == Len(gwSent.blocks) + 1
       IN  \/ /\ gwConn = "open" /\ i <= Len(gwOpen.blocks)
              /\ gwSent' = [gwSent EXCEPT !.blocks = Append(@, gwOpen.blocks[i])]
              /\ gwToR' = Append(gwToR, [type |-> "block", block |-> gwOpen.blocks[i]])
              /\ UNCHANGED <<gwS, gwQueued, gwOpen, gwConn, gwToS>>
           \/ /\ gwConn # "open" \/ i > Len(gwOpen.blocks)
              /\ sendError
    /\ SenderFrame

\* Nothing follows in the file, the path still names it, and the digest of
\* what was sent is the signed one.
transferUnchanged ==
    /\ Len(gwOpen.blocks) = gwQueued.descriptor.size
    /\ gwDir.payload.file = gwOpen.file
    /\ gwSent.blocks = gwQueued.descriptor.sha
finishTransfer ==
    /\ gwS = "stream" /\ Len(gwSent.blocks) = gwQueued.descriptor.size
    /\ \/ /\ transferUnchanged
          /\ gwS' = "ack" /\ gwOpen' = None /\ UNCHANGED <<gwQueued, gwSent, gwWire>>
       \/ /\ ~transferUnchanged
          /\ sendError
    /\ SenderFrame

\* AcknowledgementMatches: descriptor, metadata and transfer are the ones sent.
AcknowledgementMatches(ack) == ack.transfer = gwSent
VerifyGenerationAcknowledgement ==
    /\ gwS = "ack"
    /\ \/ /\ gwToS # <<>> /\ AcknowledgementMatches(Head(gwToS))
          /\ gwS' = "retire" /\ gwToS' = Tail(gwToS)
          /\ gwConn' = IF gwConn = "open" THEN "half" ELSE gwConn
          /\ UNCHANGED <<gwQueued, gwOpen, gwSent, gwToR>>
       \/ /\ IF gwToS = <<>> THEN gwConn = "none" ELSE ~AcknowledgementMatches(Head(gwToS))
          /\ sendError
    /\ SenderFrame

\* The directory is loaded once more, its metadata is byte for byte what was
\* sent, and it is renamed to a tombstone named after the transfer.
RetireTransportGeneration ==
    /\ gwS = "retire"
    /\ IF unchangedSinceQueued /\ gwDir.metadata = gwSent.metadata
       THEN gwDir' = [gwDir EXCEPT !.place = "retired", !.name = gwSent]
       ELSE UNCHANGED gwDir
    /\ gwS' = "scan" /\ gwQueued' = None /\ gwSent' = None
    /\ UNCHANGED <<gwAltered, gwOpen, gwWire, gwReceiver, gwStore, gwBreaks>>

\* Mutant: a tombstone is deleted if it loads.
tombstoneLoads == LoadSealedGeneration

\* inspectGenerationRetirementTombstone: metadata, payload and name again.
verifyGenerationRetirementTransfer ==
    /\ LoadSealedGeneration
    /\ gwDir.payload.blocks = gwDir.metadata.signed.descriptor.sha
    /\ gwDir.name = transferOf(gwDir.metadata, gwDir.payload.blocks)
ReclaimGenerationRetirementTombstones ==
    /\ gwS = "scan" /\ gwDir.place = "retired" /\ verifyGenerationRetirementTransfer
    /\ gwDir' = [gwDir EXCEPT !.place = "reclaimed"]
    /\ UNCHANGED <<gwAltered, gwSender, gwWire, gwReceiver, gwStore, gwBreaks>>

-----------------------------------------------------------------------------
(* The receiver: one process per transaction. *)

ReceiverFrame == UNCHANGED <<gwSource, gwSender, gwBreaks>>

\* The process ends, with or without an error, and takes the provisional file
\* and the connection with it; what it has written can still be read.
receiverEnds == /\ gwR' = "down" /\ gwOffer' = None /\ gwGot' = None
                /\ gwConn' = "none" /\ gwToR' = <<>>

\* The peer is gone and everything it wrote has been read.
EndOfStream == gwToR = <<>> /\ gwConn # "open"

\* Mutant: custody is recorded without hashing the payload.
custodySignedOnly == UnmarshalSignedGeneration(gwCustody.metadata)

\* readDiscoveredCustodyOffer, and the whole validation of a transfer with
\* that offer: metadata, size and digest of the payload, nothing after it.
custodyVerifies ==
    /\ UnmarshalSignedGeneration(gwCustody.metadata)
    /\ gwCustody.blocks = gwCustody.metadata.signed.descriptor.sha

\* Mutant: a receipt that is there is not compared.
receiptOverwritten == TRUE

\* publishRecordedReceipt: a new receipt, or one with the same bytes.
receiptFits == gwReceipt \in {None, gwCustody}

\* Startup records what is in custody before it listens.
recoverCustody ==
    /\ gwR = "down"
    /\ \/ /\ gwCustody = None /\ gwR' = "listen" /\ UNCHANGED gwReceipt
       \/ /\ gwCustody # None /\ custodyVerifies /\ receiptFits
          /\ gwReceipt' = gwCustody /\ gwR' = "listen"
    /\ UNCHANGED <<gwOffer, gwGot, gwWire, gwCustody, gwConflict>> /\ ReceiverFrame

ReadOffer ==
    /\ gwR = "readOffer"
    /\ \/ /\ gwToR # <<>>
          /\ gwOffer' = Head(gwToR) /\ gwToR' = Tail(gwToR)
          /\ gwToS' = Append(gwToS, [type |-> "accept", id |-> Head(gwToR).descriptor.id])
          /\ gwR' = "readMetadata" /\ UNCHANGED <<gwGot, gwConn>>
       \/ /\ EndOfStream /\ receiverEnds /\ UNCHANGED gwToS
    /\ UNCHANGED gwStore /\ ReceiverFrame

\* readValidatedTransfer up to the payload: sizes and digest of the offer, the
\* signature, the offered descriptor.
metadataAccepted(m) ==
    /\ m.size = gwOffer.descriptor.size
    /\ m.metadata = gwOffer.metadata
    /\ UnmarshalSignedGeneration(m.metadata)
    /\ m.metadata.signed.descriptor = gwOffer.descriptor
readTransferMetadata ==
    /\ gwR = "readMetadata"
    /\ \/ /\ gwToR # <<>> /\ metadataAccepted(Head(gwToR))
          /\ gwGot' = transferOf(Head(gwToR).metadata, <<>>) /\ gwToR' = Tail(gwToR)
          /\ gwR' = "readPayload" /\ UNCHANGED <<gwOffer, gwConn, gwToS>>
       \/ /\ EndOfStream \/ (gwToR # <<>> /\ ~metadataAccepted(Head(gwToR)))
          /\ receiverEnds /\ UNCHANGED gwToS
    /\ UNCHANGED gwStore /\ ReceiverFrame

\* The payload through the decoder.  A block that was not sealed may fail to
\* decode, or decode to something else.
readTransferPayload ==
    /\ gwR = "readPayload" /\ Len(gwGot.blocks) < gwOffer.descriptor.size
    /\ \/ /\ gwToR # <<>>
          /\ gwGot' = [gwGot EXCEPT !.blocks = Append(@, Head(gwToR).block)]
          /\ gwToR' = Tail(gwToR) /\ UNCHANGED <<gwR, gwOffer, gwConn, gwToS>>
       \/ /\ EndOfStream \/ (gwToR # <<>> /\ Head(gwToR).block = 9)
          /\ receiverEnds /\ UNCHANGED gwToS
    /\ UNCHANGED gwStore /\ ReceiverFrame

\* The byte counts and digests of payload and transfer.
payloadAccepted == gwGot.blocks = gwOffer.descriptor.sha
ReadValidatedTransfer ==
    /\ gwR = "readPayload" /\ Len(gwGot.blocks) = gwOffer.descriptor.size
    /\ \/ /\ payloadAccepted
          /\ gwR' = "link" /\ UNCHANGED <<gwOffer, gwGot, gwWire>>
       \/ /\ ~payloadAccepted
          /\ receiverEnds /\ UNCHANGED gwToS
    /\ UNCHANGED gwStore /\ ReceiverFrame

\* Mutant: what is in custody is always another object.
neverDuplicate == FALSE

\* os.Link to the name of the generation: new, the same bytes again, or a
\* conflict with what is there.
generationCustodyFilesExactlyEqual == gwCustody = gwGot
publishCustody ==
    /\ gwR = "link"
    /\ \/ /\ gwCustody = None \/ generationCustodyFilesExactlyEqual
          /\ gwCustody' = gwGot /\ gwR' = "record"
          /\ UNCHANGED <<gwOffer, gwGot, gwWire, gwConflict>>
       \/ /\ gwCustody # None /\ ~generationCustodyFilesExactlyEqual
          /\ gwConflict' = TRUE /\ receiverEnds /\ UNCHANGED <<gwCustody, gwToS>>
    /\ UNCHANGED gwReceipt /\ ReceiverFrame

\* The object is read back and validated again, and is still the transfer that
\* was received; then the receipt is published.
ReadDurableCustodyArtifacts == custodyVerifies /\ gwCustody = gwGot
RecordFromCustody ==
    /\ gwR = "record"
    /\ \/ /\ ReadDurableCustodyArtifacts /\ receiptFits
          /\ gwReceipt' = gwGot /\ gwR' = "acknowledge"
          /\ UNCHANGED <<gwOffer, gwGot, gwWire, gwConflict>>
       \/ /\ ~(ReadDurableCustodyArtifacts /\ receiptFits)
          /\ gwConflict' = (gwConflict \/ (ReadDurableCustodyArtifacts /\ ~receiptFits))
          /\ receiverEnds /\ UNCHANGED <<gwReceipt, gwToS>>
    /\ UNCHANGED gwCustody /\ ReceiverFrame

\* The receipt binds the custody object, and the acknowledgement both.
generationAcknowledgementFromRecorded ==
    /\ gwR = "acknowledge"
    /\ gwToS' = IF gwConn = "open" THEN Append(gwToS, [type |-> "ack", transfer |-> gwReceipt]) ELSE gwToS
    /\ receiverEnds
    /\ UNCHANGED gwStore /\ ReceiverFrame

-----------------------------------------------------------------------------
(* What happens to them. *)

\* The payload changes in place or is replaced by another file.
sourceAltered ==
    /\ "source" \in AlterAt /\ gwAltered < MaxAlterations /\ gwDir.place # "reclaimed"
    /\ \/ \E m \in MetadataVariants \ {gwDir.metadata} :
             gwDir' = [gwDir EXCEPT !.metadata = m] /\ UNCHANGED gwOpen
       \/ \E blocks \in BlockVariants \ {gwDir.payload.blocks} :
             /\ gwDir' = [gwDir EXCEPT !.payload.blocks = blocks]
             /\ gwOpen' = IF gwOpen # None /\ gwOpen.file = gwDir.payload.file
                          THEN gwDir'.payload ELSE gwOpen
       \/ \E blocks \in BlockVariants :
             /\ gwDir' = [gwDir EXCEPT !.payload = [file |-> @.file + 1, blocks |-> blocks]]
             /\ UNCHANGED gwOpen
    /\ gwAltered' = gwAltered + 1
    /\ UNCHANGED <<gwS, gwQueued, gwSent, gwWire, gwReceiver, gwStore, gwBreaks>>

custodyAltered ==
    /\ "custody" \in AlterAt /\ gwAltered < MaxAlterations /\ gwCustody # None
    /\ \/ \E blocks \in BlockVariants \ {gwCustody.blocks} :
             gwCustody' = [gwCustody EXCEPT !.blocks = blocks]
       \/ \E m \in MetadataVariants \ {gwCustody.metadata} :
             gwCustody' = [gwCustody EXCEPT !.metadata = m]
    /\ gwAltered' = gwAltered + 1
    /\ UNCHANGED <<gwDir, gwSender, gwWire, gwReceiver, gwReceipt, gwConflict, gwBreaks>>

transferBreaks ==
    /\ gwConn # "none" /\ gwBreaks < MaxGwBreaks
    /\ gwConn' = "none" /\ gwToR' = <<>> /\ gwToS' = <<>> /\ gwBreaks' = gwBreaks + 1
    /\ UNCHANGED <<gwSource, gwSender, gwReceiver, gwStore>>

generationSenderKilled ==
    /\ gwS # "scan" /\ gwBreaks < MaxGwBreaks
    /\ sendError /\ gwBreaks' = gwBreaks + 1
    /\ UNCHANGED <<gwSource, gwReceiver, gwStore>>

generationReceiverKilled ==
    /\ gwR # "down" /\ gwBreaks < MaxGwBreaks
    /\ receiverEnds /\ UNCHANGED gwToS /\ gwBreaks' = gwBreaks + 1
    /\ UNCHANGED <<gwSource, gwSender, gwStore>>

-----------------------------------------------------------------------------
GwInit ==
    /\ gwDir = [place |-> "active", name |-> None, metadata |-> SealedMetadata,
                payload |-> [file |-> 1, blocks |-> SealedBlocks]]
    /\ gwS = "scan" /\ gwQueued = None /\ gwOpen = None /\ gwSent = None
    /\ gwConn = "none" /\ gwToR = <<>> /\ gwToS = <<>>
    /\ gwR = "down" /\ gwOffer = None /\ gwGot = None
    /\ gwCustody = None /\ gwReceipt = None /\ gwConflict = FALSE
    /\ gwAltered = 0 /\ gwBreaks = 0

GwSenderSteps ==
    \/ loadTransportGenerationAt \/ dialAuthenticatedSenderTransport \/ OfferFromPublished
    \/ ReadDecision \/ writeTransferMetadata \/ streamPayload \/ finishTransfer
    \/ VerifyGenerationAcknowledgement \/ RetireTransportGeneration
    \/ ReclaimGenerationRetirementTombstones

GwReceiverSteps ==
    \/ recoverCustody \/ ReadOffer \/ readTransferMetadata \/ readTransferPayload
    \/ ReadValidatedTransfer \/ publishCustody \/ RecordFromCustody
    \/ generationAcknowledgementFromRecorded

GwEnvironment == sourceAltered \/ custodyAltered \/ transferBreaks \/ generationSenderKilled \/ generationReceiverKilled

GwNext == GwSenderSteps \/ GwReceiverSteps \/ GwEnvironment

GwSpec == GwInit /\ [][GwNext]_gwVars
GwFairSpec == GwSpec /\ WF_gwVars(GwSenderSteps) /\ WF_gwVars(GwReceiverSteps)
-----------------------------------------------------------------------------
\* Types: each side is at a step of its conversation; at most three messages wait
\* for the receiver and one for the sender, and the payload sent is no longer
\* than the queued descriptor says.
GwTypeOK ==
    /\ gwDir.place \in {"active", "retired", "reclaimed"}
    /\ gwS \in {"scan", "dial", "offer", "decision", "open", "stream", "ack", "retire"}
    /\ gwR \in {"down", "listen", "readOffer", "readMetadata", "readPayload", "link", "record", "acknowledge"}
    /\ Len(gwToR) <= 3 /\ Len(gwToS) <= 1
    /\ gwSent # None => gwQueued # None /\ Len(gwSent.blocks) <= gwQueued.descriptor.size
    /\ gwGot # None => gwOffer # None

\* Whatever changes on the source's disk, and whenever, a receipt is published
\* only for the payload that was sealed and signed
\* (readValidatedTransfer, ReadDurableCustodyArtifacts).
ReceiptIsSealed == gwReceipt # None => gwReceipt.blocks = SealedBlocks /\ gwReceipt.metadata.signed = SealedSigned

\* A receipt is never replaced by one for other bytes (publishRecordedReceipt).
ReceiptIsFinal == gwReceipt # None => gwReceipt' = gwReceipt

\* The source gives its copy up only after the receiver has a receipt for the
\* very transfer the sender sent, and deletes it only as long as it still is
\* that transfer (AcknowledgementMatches, inspectGenerationRetirementTombstone).
GivenUpIsRecorded ==
    /\ gwDir.place # "active" => gwReceipt # None /\ gwDir.name = gwReceipt
    /\ gwDir.place = "reclaimed" => transferOf(gwDir.metadata, gwDir.payload.blocks) = gwReceipt

\* Sending a generation again after a lost acknowledgement is a duplicate: a
\* conflict is reported only if bytes on disk have changed
\* (generationCustodyFilesExactlyEqual, compareRecordedReceipt).
ConflictHasCause == gwConflict => gwAltered > 0

\* Without such a change the generation is delivered and its bytes reclaimed,
\* however often a connection or a process is lost on the way.
UnalteredIsDelivered == <>(gwDir.place = "reclaimed" \/ gwAltered > 0)
=============================================================================
