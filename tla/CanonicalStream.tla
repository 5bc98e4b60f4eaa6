-------------------------- MODULE CanonicalStream --------------------------
(***************************************************************************)
(* The canonical form of a generation, from the frozen directory to the    *)
(* recorder: generationsealer writes the artifacts as one stream, the      *)
(* receiver parses that stream artifact by artifact and hands each one to  *)
(* the recorder's semantic gate while it is still being read, and only     *)
(* then compares byte counts and digest with the signed descriptor.  A     *)
(* stream is a sequence of numbers: one for an integer field, one for a    *)
(* byte.  SHA-256 is the identity: equal digests mean equal bytes.         *)
(***************************************************************************)
EXTENDS Naturals, Sequences, SequencesExt, FiniteSets, Sentinel

CONSTANTS Directories,          \* frozen directories: sets of [name, bytes]
          ChunkBytes,           \* canonicalChunkBytes
          MaxNameBytes,         \* maxCanonicalArtifactNameBytes
          MaxReceiveArtifacts,  \* maxReceiveArtifactCount
          MaxManifestBytes      \* the recorder's configured limit

VARIABLES csFrozen,      \* the frozen directory
          csLeft,        \* artifacts still to be sealed, sorted by name
          csOffset,      \* bytes of the first one that are written
          csStream,      \* the canonical stream
          csDescriptor,  \* what the source signs of it
          csPc,
          csReader,      \* the parser
          csGate         \* the recorder's validator

csVars == <<csFrozen, csLeft, csOffset, csStream, csDescriptor, csPc, csReader, csGate>>

-----------------------------------------------------------------------------
(* Artifacts.  A name is <<batch, kind>>, in the order of its bytes, and    *)
(* the last byte of a data line is a newline.                               *)

Magic   == 8
NewLine == 2
dataName(batch)     == <<batch, 1>>
manifestName(batch) == <<batch, 2>>

Lines(data) == Len(SelectSeq(data, LAMBDA byte : byte = NewLine))

\* The manifest that describes this data: batch, data bytes, records, digest.
manifestOf(batch, data) == <<batch, Len(data), Lines(data)>> \o data

\* strings.Compare on names.
Precedes(a, b) ==
    \/ Len(a) < Len(b) /\ a = SubSeq(b, 1, Len(a))
    \/ \E i \in 1 .. (IF Len(a) < Len(b) THEN Len(a) ELSE Len(b)) :
          a[i] < b[i] /\ \A j \in 1 .. i - 1 : a[j] = b[j]

Sorted(files) == SetToSortSeq(files, LAMBDA f, g : Precedes(f.name, g.name))

\* The canonical stream of a directory, as a whole: the reference for the steps
\* below.
Chunks(bytes) ==
    FlattenSeq([i \in 1 .. (Len(bytes) + ChunkBytes - 1) \div ChunkBytes |->
        LET chunk == SubSeq(bytes, (i - 1) * ChunkBytes + 1,
                            IF i * ChunkBytes < Len(bytes) THEN i * ChunkBytes ELSE Len(bytes))
        IN  <<Len(chunk)>> \o chunk])
Canonical(files) ==
    FoldLeft(LAMBDA stream, f : stream \o <<Len(f.name)>> \o f.name \o Chunks(f.bytes) \o <<0, Len(f.bytes)>>,
             <<Magic, Cardinality(files)>>, Sorted(files))

-----------------------------------------------------------------------------
(* generationsealer.Seal. *)

SealFrame == UNCHANGED <<csFrozen, csDescriptor, csReader, csGate>>

\* The directory is listed, an empty one is refused, the names are sorted and
\* the header is written.
writeCanonicalHeader ==
    /\ csPc = "list"
    /\ IF csFrozen = {}
       THEN csPc' = "refused" /\ UNCHANGED <<csLeft, csStream>>
       ELSE /\ csPc' = "start" /\ csLeft' = Sorted(csFrozen)
            /\ csStream' = <<Magic, Cardinality(csFrozen)>>
    /\ UNCHANGED csOffset /\ SealFrame

writeCanonicalFileStart ==
    /\ csPc = "start" /\ csLeft # <<>>
    /\ csStream' = csStream \o <<Len(Head(csLeft).name)>> \o Head(csLeft).name
    /\ csPc' = "data" /\ csOffset' = 0
    /\ UNCHANGED csLeft /\ SealFrame

\* io.ReadFull fills the buffer, or returns what is left of the file.
writeCanonicalChunk ==
    /\ csPc = "data" /\ csOffset < Len(Head(csLeft).bytes)
    /\ LET bytes == Head(csLeft).bytes
           last  == IF csOffset + ChunkBytes < Len(bytes) THEN csOffset + ChunkBytes ELSE Len(bytes)
       IN  /\ csStream' = csStream \o <<last - csOffset>> \o SubSeq(bytes, csOffset + 1, last)
           /\ csOffset' = last
    /\ UNCHANGED <<csLeft, csPc>> /\ SealFrame

writeCanonicalFileEnd ==
    /\ csPc = "data" /\ csOffset = Len(Head(csLeft).bytes)
    /\ csStream' = csStream \o <<0, csOffset>>
    /\ csLeft' = Tail(csLeft) /\ csPc' = "start"
    /\ UNCHANGED csOffset /\ SealFrame

\* The service stops: the provisional file is removed.
sealCancelled ==
    /\ csPc = "start" /\ csPc' = "refused" /\ csStream' = <<>> /\ csLeft' = <<>>
    /\ UNCHANGED csOffset /\ SealFrame

\* The stream is closed, synced and renamed, and its facts are described.
DescriptorFromSeal ==
    /\ csPc = "start" /\ csLeft = <<>>
    /\ csDescriptor' = [count     |-> Cardinality(csFrozen),
                        source    |-> FoldSeq(LAMBDA f, n : n + Len(f.bytes), 0, Sorted(csFrozen)),
                        canonical |-> Len(csStream),
                        sha       |-> csStream]
    /\ csPc' = "sealed"
    /\ UNCHANGED <<csFrozen, csLeft, csOffset, csStream, csReader, csGate>>

-----------------------------------------------------------------------------
\* What arrives, or what is read back from custody later, is not what was
\* sealed: a value changed, the end lost, something after it, or the stream of
\* other contents under the same names.
streamDamaged ==
    /\ csPc = "sealed" /\ csStream = csDescriptor.sha
    /\ \/ \E i \in DOMAIN csStream : csStream' = [csStream EXCEPT ![i] = (@ + 1) % 4]
       \/ csStream' = Front(csStream)
       \/ csStream' = Append(csStream, 0)
       \/ \E other \in Directories \ {csFrozen} :
             /\ {f.name : f \in other} = {f.name : f \in csFrozen}
             /\ csStream' = Canonical(other)
    /\ UNCHANGED <<csFrozen, csLeft, csOffset, csDescriptor, csPc, csReader, csGate>>

-----------------------------------------------------------------------------
(* readValidatedTransfer and ReadCanonicalArtifacts, with the recorder's     *)
(* consumeArtifact as the handler.                                           *)

ReadFrame == UNCHANGED <<csFrozen, csLeft, csOffset, csStream, csDescriptor>>

\* io.ReadFull of n: there is that much left of the stream.
Available(n) == csReader.at + n - 1 <= Len(csStream)
Next1 == csStream[csReader.at]
NextBytes(n) == SubSeq(csStream, csReader.at, csReader.at + n - 1)

refuse == csPc' = "refused" /\ UNCHANGED <<csReader, csGate>>

\* The descriptor's artifact count is even and within the structural limit.
newValidator ==
    /\ csPc = "sealed"
    /\ IF csDescriptor.count % 2 = 0 /\ csDescriptor.count <= MaxReceiveArtifacts
       THEN csPc' = "header" /\ UNCHANGED <<csReader, csGate>>
       ELSE refuse
    /\ ReadFrame

ReadCanonicalArtifacts ==
    /\ csPc = "header"
    /\ IF Available(2) /\ NextBytes(2) = <<Magic, csDescriptor.count>>
       THEN csPc' = "name" /\ csReader' = [csReader EXCEPT !.at = 3] /\ UNCHANGED csGate
       ELSE refuse
    /\ ReadFrame

\* parseArtifactName, and what consumeData and consumeManifest require of the
\* batch that is pending before they read.
expected(name) ==
    \/ /\ Len(name) = 2 /\ name[2] = 1
       /\ csGate.pending = None
    \/ /\ Len(name) = 2 /\ name[2] = 2
       /\ csGate.pending # None /\ csGate.pending.batch = name[1]

\* Names come in strictly ascending order.
readCanonicalArtifactName ==
    /\ csPc = "name" /\ csReader.artifacts < csDescriptor.count
    /\ LET n    == Next1
           name == SubSeq(csStream, csReader.at + 1, csReader.at + n)
       IN  IF /\ Available(1) /\ n \in 1 .. MaxNameBytes /\ Available(1 + n)
              /\ csReader.name = None \/ Precedes(csReader.name, name)
              /\ expected(name)
           THEN /\ csReader' = [csReader EXCEPT !.at = @ + 1 + n, !.name = name, !.bytes = <<>>]
                /\ csPc' = "chunk" /\ UNCHANGED csGate
           ELSE refuse
    /\ ReadFrame

\* Mutant: a full chunk is refused.
readShortChunk ==
    /\ csPc = "chunk" /\ (Available(1) => Next1 # 0)
    /\ LET n == Next1
       IN  IF Available(1) /\ n < ChunkBytes /\ Available(1 + n)
           THEN /\ csReader' = [csReader EXCEPT !.at = @ + 1 + n,
                                !.bytes = @ \o SubSeq(csStream, csReader.at + 1, csReader.at + n)]
                /\ UNCHANGED <<csPc, csGate>>
           ELSE refuse
    /\ ReadFrame

\* canonicalArtifactReader.Read inside an artifact.
readChunk ==
    /\ csPc = "chunk" /\ (Available(1) => Next1 # 0)
    /\ LET n == Next1
       IN  IF Available(1) /\ n <= ChunkBytes /\ Available(1 + n)
           THEN /\ csReader' = [csReader EXCEPT !.at = @ + 1 + n,
                                !.bytes = @ \o SubSeq(csStream, csReader.at + 1, csReader.at + n)]
                /\ UNCHANGED <<csPc, csGate>>
           ELSE refuse
    /\ ReadFrame

\* The length the artifact declares is the length that was read.
artifactEnds == /\ csPc = "chunk" /\ Available(1) /\ Next1 = 0
                /\ csReader' = [csReader EXCEPT !.at = @ + 2, !.artifacts = @ + 1,
                                !.source = @ + Len(csReader.bytes)]
declaredLength == Available(2) /\ NextBytes(2)[2] = Len(csReader.bytes)

\* spool.InspectData: not empty, and the last line is complete.
InspectData(bytes) == bytes # <<>> /\ Last(bytes) = NewLine

\* Mutant: only the batch of the manifest is compared.
ManifestOfBatch(bytes, pending) ==
    Len(bytes) <= MaxManifestBytes /\ bytes # <<>> /\ bytes[1] = pending.batch

\* DecodeManifest and VerifyManifestData: batch, digest, bytes and records.
VerifyManifestData(bytes, pending) ==
    /\ Len(bytes) <= MaxManifestBytes
    /\ bytes = manifestOf(pending.batch, pending.data)

consumeData ==
    /\ csReader.name # None /\ csReader.name[2] = 1
    /\ artifactEnds /\ declaredLength /\ InspectData(csReader.bytes)
    /\ csGate' = [csGate EXCEPT !.pending = [batch |-> csReader.name[1], data |-> csReader.bytes]]
    /\ csPc' = "name" /\ ReadFrame

consumeManifest ==
    /\ csReader.name # None /\ csReader.name[2] = 2
    /\ artifactEnds /\ declaredLength /\ VerifyManifestData(csReader.bytes, csGate.pending)
    /\ csGate' = [pending |-> None, batches |-> csGate.batches + 1,
                  bytes   |-> csGate.bytes + Len(csGate.pending.data),
                  records |-> csGate.records + Lines(csGate.pending.data)]
    /\ csPc' = "name" /\ ReadFrame

artifactRefused ==
    /\ csPc = "chunk" /\ Available(1) /\ Next1 = 0
    /\ \/ ~declaredLength
       \/ declaredLength /\ csReader.name[2] = 1 /\ ~InspectData(csReader.bytes)
       \/ declaredLength /\ csReader.name[2] = 2 /\ ~VerifyManifestData(csReader.bytes, csGate.pending)
    /\ refuse /\ ReadFrame

\* Mutant: the digest is not compared.
canonicalCounted ==
    /\ ~Available(1)
    /\ csReader.source = csDescriptor.source
    /\ Len(csStream) = csDescriptor.canonical

\* All artifacts are read: nothing follows them, and the counts and the digest
\* are the signed ones.
canonicalMatches ==
    /\ ~Available(1)
    /\ csReader.source = csDescriptor.source
    /\ Len(csStream) = csDescriptor.canonical
    /\ csStream = csDescriptor.sha

\* validator.result and RecordedReceipt.Validate.
result ==
    /\ csGate.pending = None
    /\ csGate.batches * 2 = csDescriptor.count /\ csGate.batches > 0
    /\ csGate.bytes \in 1 .. csDescriptor.source /\ csGate.records > 0

RecordCustodyDurably ==
    /\ csPc = "name" /\ csReader.artifacts = csDescriptor.count
    /\ csPc' = IF canonicalMatches /\ result THEN "recorded" ELSE "refused"
    /\ UNCHANGED <<csReader, csGate>> /\ ReadFrame

-----------------------------------------------------------------------------
CsInitAt(directory) ==
    /\ csFrozen = directory /\ csLeft = <<>> /\ csOffset = 0 /\ csStream = <<>>
    /\ csDescriptor = None /\ csPc = "list"
    /\ csReader = [at |-> 1, artifacts |-> 0, name |-> None, bytes |-> <<>>, source |-> 0]
    /\ csGate = [pending |-> None, batches |-> 0, bytes |-> 0, records |-> 0]
CsInit == \E directory \in Directories : CsInitAt(directory)

CsNext ==
    \/ writeCanonicalHeader \/ writeCanonicalFileStart \/ writeCanonicalChunk
    \/ writeCanonicalFileEnd \/ sealCancelled \/ DescriptorFromSeal \/ streamDamaged
    \/ newValidator \/ ReadCanonicalArtifacts \/ readCanonicalArtifactName \/ readChunk
    \/ consumeData \/ consumeManifest \/ artifactRefused \/ RecordCustodyDurably

CsSpec == CsInit /\ [][CsNext]_csVars
-----------------------------------------------------------------------------
\* Types: the reader is never past the end of the stream it was given.
CsTypeOK ==
    /\ csPc \in {"list", "start", "data", "sealed", "header", "name", "chunk", "recorded", "refused"}
    /\ csStream \in Seq(Nat) /\ csOffset \in Nat
    /\ csReader.at \in 1 .. Len(csStream) + 1
    /\ csReader.source <= Len(csStream)

\* The batches of the directory whose data and manifest are both there and
\* belong together.
Whole(batch) ==
    \E data \in {f.bytes : f \in csFrozen} :
        /\ InspectData(data)
        /\ [name |-> dataName(batch), bytes |-> data] \in csFrozen
        /\ [name |-> manifestName(batch), bytes |-> manifestOf(batch, data)] \in csFrozen
BatchesOf == {f.name[1] : f \in csFrozen}

\* The receipt is published only for the bytes the source sealed, and it
\* counts the batches and the records that the frozen directory holds, though
\* the gate sees every artifact before the digest is known
\* (RecordCustodyDurably over readValidatedTransfer).
RecordedIsSealed ==
    csPc = "recorded" =>
        /\ csStream = Canonical(csFrozen)
        /\ csGate.batches = Cardinality(BatchesOf)
        /\ csGate.records = FoldSeq(LAMBDA f, n : n + (IF f.name[2] = 1 THEN Lines(f.bytes) ELSE 0),
                                    0, Sorted(csFrozen))

\* The sealer takes any artifact; the gate lets no batch through whose data has
\* no manifest, or one that describes other data (consumeData, consumeManifest).
OnlyWholeBatchesRecorded ==
    csPc = "recorded" => \A batch \in BatchesOf : Whole(batch)

\* What the sealer writes of whole batches within the receiver's limits is
\* recorded: the two sides agree on the order of names, on chunks and on what
\* a batch is (Seal, ReadCanonicalArtifacts, validator).
WholeBatchesAreRecorded ==
    /\ csPc = "refused" /\ csDescriptor # None /\ csStream = csDescriptor.sha
    /\ \A batch \in BatchesOf : Whole(batch)
    /\ \A f \in csFrozen : f.name[2] = 2 => Len(f.bytes) <= MaxManifestBytes
    => Cardinality(csFrozen) > MaxReceiveArtifacts
=============================================================================
