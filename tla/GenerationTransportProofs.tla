---------------------- MODULE GenerationTransportProofs ----------------------
(***************************************************************************)
(* Proofs about GenerationTransport for every set of generations, every    *)
(* admission limit and every number of faults: no generation is lost, and  *)
(* the transport implements GenerationDelivery.                            *)
(***************************************************************************)
EXTENDS GenerationTransport, TLAPS

\* Where the source has a generation.  The raw directory may go as soon as the
\* build is complete, and a removal that power failure may undo is that of a
\* generation which is still built or active.
SourceInv ==
    /\ SourceTypeOK
    /\ Held \cup ghost \subseteq frozen
    /\ ghost \subseteq built \cup active
    /\ b \in {"sealed", "unlisted"} => bgen \in built
    /\ b # "down" => q \notin {"down", "startReclaim", "recover"}

\* The queue loop talks about a frozen generation, and nothing authorizes it to
\* retire one but its being durable at the receiver.
SenderInv ==
    /\ SenderTypeOK
    /\ q \in {"decision", "ack", "authorized"} => qgen \in frozen
    /\ q = "authorized" => qgen \in DurablyRecorded

\* So does every message, and an acknowledgement in flight tells the truth.
WireInv ==
    /\ wire \in Messages \cup {NoMessage}
    /\ wire # NoMessage => wire.gen \in frozen
    /\ wire.type = "ack" => wire.gen \in DurablyRecorded

\* Durability on the way to the acknowledgement: custody is synced before the
\* receipt is linked, and the receipt before the acknowledgement is written.
ReceiverInv ==
    /\ ReceiverTypeOK
    /\ todo \subseteq frozen
    /\ r \in (Serving \ {"accepted"}) \cup {"recoverSync"} => rgen \in frozen
    /\ r = "linked" /\ fresh => custody[rgen] = "volatile"
    /\ r \in {"linked", "renamed"} => custody[rgen] # "none"
    /\ r \in {"synced", "receipt", "recorded", "acked"} => custody[rgen] = "durable"
    /\ r = "receipt" => receipt[rgen] # "none"
    /\ r \in {"recorded", "acked"} => receipt[rgen] = "durable"

\* The receiver has nothing that was not frozen.
StoreInv ==
    /\ StoreTypeOK
    /\ \A g \in Gens : custody[g] # "none" \/ receipt[g] # "none" => g \in frozen

EnvironmentInv == revoked \in BOOLEAN /\ faults \in 0 .. MaxFaults

\* Inductive: NothingLost alone is not, because what authorizes a retirement is
\* a message about files that only the receiver can see.
TInv ==
    /\ SourceInv /\ SenderInv /\ WireInv /\ ReceiverInv /\ StoreInv
    /\ EnvironmentInv /\ NothingLost

\* Every step is a step of GenerationDelivery or leaves its state alone.
Implements == Delivery!DNext \/ UNCHANGED Delivery!dvars

\* What a step does to the count of faults.
FaultCounted ==
    \/ UNCHANGED faults
    \/ faults < MaxFaults /\ faults' = faults + 1

\* What a step may do to a directory of the receiver: nothing durable goes away,
\* and new entries are those of frozen generations.
Kept(dir, new) ==
    /\ new \in [Gens -> Entry]
    /\ \A g \in Gens : dir[g] = "durable" => new[g] = "durable"
    /\ \A g \in Gens : new[g] # "none" => g \in frozen

-----------------------------------------------------------------------------
(* Directories of the receiver.                                            *)

\* A sync keeps the entries of a directory and makes them durable.
LEMMA SyncedDir ==
    ASSUME NEW dir \in [Gens -> Entry]
    PROVE  /\ Synced(dir) \in [Gens -> Entry]
           /\ \A g \in Gens : dir[g] = "none" => Synced(dir)[g] = "none"
           /\ \A g \in Gens : dir[g] # "none" => Synced(dir)[g] = "durable"
  BY DEF Synced, Entry

\* A link adds one entry, volatile unless it was there, and touches no other.
LEMMA LinkedDir ==
    ASSUME NEW dir \in [Gens -> Entry], NEW g \in Gens
    PROVE  /\ Linked(dir, g) \in [Gens -> Entry]
           /\ Linked(dir, g)[g] = IF dir[g] = "none" THEN "volatile" ELSE dir[g]
           /\ \A h \in Gens : h # g => Linked(dir, g)[h] = dir[h]
  BY DEF Linked, Entry

\* A power failure adds no entry and takes no durable one.
LEMMA LostDir ==
    ASSUME NEW dir \in [Gens -> Entry], NEW new \in AfterPowerLoss(dir)
    PROVE  /\ new \in [Gens -> Entry]
           /\ \A g \in Gens : dir[g] = "durable" => new[g] = "durable"
           /\ \A g \in Gens : dir[g] = "none" => new[g] = "none"
  BY DEF AfterPowerLoss, Entry

\* Directories that are kept keep the invariant of the store and what is durable.
LEMMA StoreKept ==
    ASSUME TInv, UNCHANGED frozen, prov' \in BOOLEAN, ready' \subseteq Gens,
           Kept(custody, custody'), Kept(receipt, receipt')
    PROVE  StoreInv' /\ DurablyRecorded \subseteq DurablyRecorded'
  <1>1. StoreTypeOK'
    BY DEF StoreTypeOK, Kept
  <1>2. StoreInv'
    BY <1>1 DEF StoreInv, Kept
  <1>3. DurablyRecorded \subseteq DurablyRecorded'
    BY DEF DurablyRecorded, Kept
  <1> QED
    BY <1>2, <1>3

\* An unchanged directory is kept.
LEMMA UnchangedKept ==
    ASSUME TInv
    PROVE  Kept(custody, custody) /\ Kept(receipt, receipt)
  BY DEF TInv, StoreInv, StoreTypeOK, Kept

\* Linking the entry of a frozen generation keeps a directory.
LEMMA LinkedKept ==
    ASSUME NEW dir, Kept(dir, dir), NEW g \in Gens, g \in frozen
    PROVE  Kept(dir, Linked(dir, g))
  <1>1. dir \in [Gens -> Entry]
    BY DEF Kept
  <1>2. \A h \in Gens : dir[h] = "durable" => Linked(dir, g)[h] = "durable"
    BY <1>1, LinkedDir
  <1>3. \A h \in Gens : Linked(dir, g)[h] # "none" => h \in frozen
    BY <1>1, LinkedDir DEF Kept
  <1> QED
    BY <1>1, <1>2, <1>3, LinkedDir DEF Kept

\* So does syncing it.
LEMMA SyncedKept ==
    ASSUME NEW dir, Kept(dir, dir)
    PROVE  Kept(dir, Synced(dir))
  BY SyncedDir DEF Kept, Entry

-----------------------------------------------------------------------------
(* What a step leaves alone.                                               *)

\* A step that takes no more than one fault keeps their number in bounds.
LEMMA EnvironmentKept ==
    ASSUME TInv, UNCHANGED revoked, FaultCounted
    PROVE  EnvironmentInv'
  <1>1. revoked' \in BOOLEAN
    BY DEF TInv, EnvironmentInv
  <1>2. faults \in 0 .. MaxFaults /\ MaxFaults \in Nat
    BY TransportAssumption DEF TInv, EnvironmentInv
  <1>3. faults' \in 0 .. MaxFaults
    BY <1>2 DEF FaultCounted
  <1> QED
    BY <1>1, <1>3 DEF EnvironmentInv

\* A step that leaves the source and the sender's variables alone.
LEMMA SourceKept ==
    ASSUME TInv, UNCHANGED <<source, senderVars>>
    PROVE  SourceInv' /\ UNCHANGED <<frozen, Held>>
  <1>1. UNCHANGED <<frozen, Held>>
    BY DEF source, Held
  <1>2. SourceTypeOK'
    BY DEF TInv, SourceInv, SourceTypeOK, source
  <1> QED
    BY <1>1, <1>2 DEF TInv, SourceInv, source, senderVars

\* What the sender knows stays true while the receiver loses nothing durable.
LEMMA SenderKept ==
    ASSUME TInv, UNCHANGED <<senderVars, frozen>>,
           DurablyRecorded \subseteq DurablyRecorded'
    PROVE  SenderInv'
  BY DEF TInv, SenderInv, SenderTypeOK, senderVars

\* So does the message in flight.
LEMMA WireKept ==
    ASSUME TInv, UNCHANGED wire, frozen \subseteq frozen',
           DurablyRecorded \subseteq DurablyRecorded'
    PROVE  WireInv'
  BY DEF TInv, WireInv

\* An empty connection says nothing.
LEMMA WireCleared ==
    ASSUME wire' = NoMessage
    PROVE  WireInv'
  BY DEF WireInv, NoMessage

\* A new message about a frozen generation that is no acknowledgement.
LEMMA WireWritten ==
    ASSUME TInv, NEW t \in {"offer", "accept", "reject", "transfer"}, NEW g \in frozen,
           wire' = [type |-> t, gen |-> g], UNCHANGED frozen
    PROVE  WireInv'
  <1>1. g \in Gens
    BY DEF TInv, SourceInv, SourceTypeOK
  <1>2. wire' \in Messages
    BY <1>1 DEF Messages
  <1>3. wire'.gen \in frozen' /\ wire'.type # "ack"
    OBVIOUS
  <1> QED
    BY <1>2, <1>3 DEF WireInv

\* The receiver and its directories are left alone.
LEMMA ReceiverKept ==
    ASSUME TInv, UNCHANGED <<receiverVars, store>>, frozen \subseteq frozen'
    PROVE  ReceiverInv' /\ StoreInv' /\ DurablyRecorded' = DurablyRecorded
  <1>1. ReceiverInv'
    BY DEF TInv, ReceiverInv, ReceiverTypeOK, receiverVars, store
  <1>2. StoreInv'
    BY DEF TInv, StoreInv, StoreTypeOK, store
  <1>3. DurablyRecorded' = DurablyRecorded
    BY DEF DurablyRecorded, store
  <1> QED
    BY <1>1, <1>2, <1>3

\* A receiver process that has ended claims nothing.
LEMMA ReceiverStopped ==
    ASSUME ReceiverStops
    PROVE  ReceiverInv'
  BY DEF ReceiverStops, ReceiverInv, ReceiverTypeOK, ReceiverStates, Serving

\* The source releases nothing and the receiver loses nothing durable: what it
\* newly records is still held.
LEMMA RecordsHeld ==
    ASSUME TInv, UNCHANGED <<frozen, Held>>, StoreInv',
           DurablyRecorded \subseteq DurablyRecorded'
    PROVE  NothingLost' /\ Implements
  <1> DEFINE S == DurablyRecorded' \ DurablyRecorded
  <1>1. NothingLost'
    BY DEF TInv, NothingLost
  <1>2. DurablyRecorded' \subseteq Gens /\ DurablyRecorded' \subseteq frozen
    BY DEF StoreInv, DurablyRecorded
  <1>3. S \subseteq Held
    BY <1>2 DEF TInv, NothingLost
  <1>4. Delivery!Record(S)
    BY <1>3 DEF Delivery!Record
  <1>5. Delivery!DNext
    BY <1>2, <1>4 DEF Delivery!DNext
  <1> QED
    BY <1>1, <1>5 DEF Implements

\* A step of the receiver, from what it does to the connection, to its own state
\* and to its directories.
LEMMA ReceiverFrame ==
    ASSUME TInv, UNCHANGED <<source, senderVars, revoked>>, FaultCounted,
           WireInv', ReceiverInv', StoreInv', DurablyRecorded \subseteq DurablyRecorded'
    PROVE  TInv' /\ Implements
  <1>1. SourceInv' /\ UNCHANGED <<frozen, Held>>
    BY SourceKept
  <1>2. SenderInv'
    BY SenderKept, <1>1
  <1>3. EnvironmentInv'
    BY EnvironmentKept
  <1>4. NothingLost' /\ Implements
    BY RecordsHeld, <1>1
  <1> QED
    BY <1>1, <1>2, <1>3, <1>4 DEF TInv

\* A step of the sender that keeps what it holds and leaves the receiver alone.
LEMMA SenderFrame ==
    ASSUME TInv, UNCHANGED <<frozen, Held, receiverVars, store, revoked>>, FaultCounted,
           SourceInv', SenderInv', WireInv'
    PROVE  TInv' /\ Implements
  <1>1. ReceiverInv' /\ StoreInv' /\ DurablyRecorded' = DurablyRecorded
    BY ReceiverKept
  <1>2. EnvironmentInv'
    BY EnvironmentKept
  <1>3. NothingLost' /\ Implements
    BY RecordsHeld, <1>1
  <1> QED
    BY <1>1, <1>2, <1>3 DEF TInv

\* A sender that is not talking to the receiver knows nothing of it.
LEMMA SenderSilent ==
    ASSUME SenderTypeOK', q' \notin {"decision", "ack", "authorized"}
    PROVE  SenderInv'
  BY DEF SenderInv

-----------------------------------------------------------------------------
(* One step per action: it preserves the invariant and is allowed by the   *)
(* abstract specification.                                                 *)

\* Startup, reclamation, build recovery and deaths of the sender.
LEMMA SenderLifeStep ==
    ASSUME TInv,
           \/ SenderStart \/ SenderCrash \/ SourcePowerLoss \/ RemoveReclaiming
           \/ PublishReclaiming \/ ReclaimDone \/ RecoverBuild \/ RecoverRaw
           \/ RecoverDone \/ SenderFailStop
    PROVE  TInv' /\ Implements
  <1> SUFFICES /\ UNCHANGED <<frozen, Held, receiverVars, store, revoked, wire>>
               /\ FaultCounted /\ SourceInv' /\ SenderInv'
    <2>1. WireInv'
      BY WireKept, ReceiverKept
    <2> QED
      BY <2>1, SenderFrame
  <1>0. SourceInv /\ SenderTypeOK /\ SenderInv
    BY DEF TInv, SenderInv
  <1>1. CASE SenderStart
    <2> USE <1>1 DEF SenderStart
    <2>1. UNCHANGED <<frozen, Held, receiverVars, store, revoked, wire>> /\ FaultCounted
      BY DEF source, Held, FaultCounted
    <2>2. SourceInv'
      BY <1>0, <2>1 DEF source, SourceInv, SourceTypeOK
    <2>3. SenderInv'
      BY <1>0, SenderSilent DEF SenderTypeOK
    <2> QED
      BY <2>1, <2>2, <2>3
  <1>2. CASE SenderCrash \/ SenderFailStop
    <2> USE <1>2 DEF SenderCrash, SenderFailStop, SenderStops
    <2>1. UNCHANGED <<frozen, Held, receiverVars, store, revoked, wire>> /\ FaultCounted
      BY DEF source, Held, Fault, FaultCounted
    <2>2. SourceInv'
      BY <1>0, <2>1 DEF source, SourceInv, SourceTypeOK
    <2>3. SenderInv'
      BY SenderSilent DEF SenderTypeOK
    <2> QED
      BY <2>1, <2>2, <2>3
  <1>3. CASE SourcePowerLoss
    <2> USE <1>3 DEF SourcePowerLoss, SenderStops
    <2>1. UNCHANGED <<frozen, receiverVars, store, revoked, wire>> /\ FaultCounted
      BY DEF Fault, FaultCounted
    <2>2. raw \subseteq raw' /\ raw' \subseteq raw \cup ghost
      OBVIOUS
    <2>3. UNCHANGED Held
      BY <1>0, <2>2 DEF SourceInv, Held
    <2>4. SourceInv'
      BY <1>0, <2>1, <2>2, <2>3 DEF SourceInv, SourceTypeOK
    <2>5. SenderInv'
      BY SenderSilent DEF SenderTypeOK
    <2> QED
      BY <2>1, <2>3, <2>4, <2>5
  <1>4. CASE RemoveReclaiming \/ PublishReclaiming
    <2> USE <1>4 DEF RemoveReclaiming, PublishReclaiming, Oldest
    <2>1. UNCHANGED <<frozen, Held, receiverVars, store, revoked, wire>> /\ FaultCounted
      BY DEF Held, FaultCounted
    <2>2. SourceTypeOK'
      BY <1>0 DEF SourceInv, SourceTypeOK
    <2>3. SourceInv'
      BY <1>0, <2>1, <2>2 DEF senderVars, SourceInv
    <2>4. SenderInv'
      BY <2>1, SenderKept, ReceiverKept
    <2> QED
      BY <2>1, <2>3, <2>4
  <1>5. CASE ReclaimDone
    <2> USE <1>5 DEF ReclaimDone
    <2>1. UNCHANGED <<frozen, Held, receiverVars, store, revoked, wire>> /\ FaultCounted
      BY DEF source, Held, FaultCounted
    <2>2. q' \in {"recover", "scan"} /\ (q' = "recover" => b = "down")
      BY <1>0 DEF SourceInv
    <2>3. SourceInv'
      BY <1>0, <2>1, <2>2 DEF source, SourceInv, SourceTypeOK
    <2>4. SenderInv'
      BY <1>0, <2>2, SenderSilent DEF SenderTypeOK
    <2> QED
      BY <2>1, <2>3, <2>4
  <1>6. CASE RecoverBuild \/ RecoverRaw
    <2> USE <1>6 DEF RecoverBuild, RecoverRaw
    <2>1. UNCHANGED <<frozen, receiverVars, senderVars, store, revoked, wire>> /\ FaultCounted
      BY DEF FaultCounted
    <2>2. PICK g \in built \cup active :
            \/ /\ raw' = raw \ {g} /\ ghost' = ghost \cup {g}
               /\ UNCHANGED <<built, active>>
            \/ /\ g \in built /\ built' = built \ {g} /\ active' = active \cup {g}
               /\ UNCHANGED <<raw, ghost>>
      BY DEF Oldest
    <2>3. b = "down" /\ UNCHANGED <<b, bgen, q, retired, reclaiming>>
      BY <1>0 DEF SourceInv, senderVars
    <2>4. UNCHANGED Held
      BY <2>2 DEF Held
    <2>5. SourceTypeOK'
      BY <1>0, <2>1, <2>2, <2>3 DEF SourceInv, SourceTypeOK
    <2>6. SourceInv'
      BY <1>0, <2>1, <2>2, <2>3, <2>4, <2>5 DEF SourceInv, Held
    <2>7. SenderInv'
      BY <2>1, SenderKept, ReceiverKept
    <2> QED
      BY <2>1, <2>4, <2>6, <2>7
  <1>7. CASE RecoverDone
    <2> USE <1>7 DEF RecoverDone
    <2>1. UNCHANGED <<frozen, Held, receiverVars, store, revoked, wire>> /\ FaultCounted
      BY DEF source, Held, FaultCounted
    <2>2. SourceInv'
      BY <1>0, <2>1 DEF source, SourceInv, SourceTypeOK
    <2>3. SenderInv'
      BY <1>0, SenderSilent DEF SenderTypeOK
    <2> QED
      BY <2>1, <2>2, <2>3
  <1> QED
    BY <1>1, <1>2, <1>3, <1>4, <1>5, <1>6, <1>7

\* The rollover freezes a newer generation: the one step that produces.
LEMMA FreezeStep ==
    ASSUME TInv, NEW g \in Gens, Freeze(g)
    PROVE  TInv' /\ Implements
  <1> USE DEF Freeze
  <1>1. UNCHANGED <<senderVars, receiverVars, store, revoked, wire>> /\ FaultCounted
    BY DEF FaultCounted
  <1>2. frozen' = frozen \cup {g} /\ Held' = Held \cup {g} /\ g \notin frozen
    BY DEF Held
  <1>3. SourceInv'
    BY <1>1, <1>2 DEF TInv, SourceInv, SourceTypeOK, senderVars
  <1>4. ReceiverInv' /\ StoreInv' /\ DurablyRecorded' = DurablyRecorded
    BY <1>1, <1>2, ReceiverKept
  <1>5. SenderInv'
    BY <1>1, <1>2, <1>4 DEF TInv, SenderInv, SenderTypeOK, senderVars
  <1>6. WireInv' /\ EnvironmentInv'
    BY <1>1, <1>2, <1>4, WireKept, EnvironmentKept
  <1>7. NothingLost'
    BY <1>2, <1>4 DEF TInv, NothingLost
  <1>8. Delivery!Produce(g)
    BY <1>2, <1>4 DEF Delivery!Produce
  <1> QED
    BY <1>3, <1>4, <1>5, <1>6, <1>7, <1>8 DEF TInv, Implements, Delivery!DNext

\* The builder goroutine: seal, remove the raw directory, promote, or fail.
LEMMA BuilderStep ==
    ASSUME TInv, BuildSeal \/ BuildRemoveRaw \/ BuildPromote \/ BuildFails
    PROVE  TInv' /\ Implements
  <1> SUFFICES /\ UNCHANGED <<frozen, Held, receiverVars, store, revoked, wire, q, qgen>>
               /\ FaultCounted /\ SourceInv'
               /\ b' \in {"idle", "sealed", "unlisted", "failed"}
               /\ bgen' \in Gens \cup {None}
    <2>1. DurablyRecorded' = DurablyRecorded
      BY ReceiverKept
    <2>2. SenderInv'
      BY <2>1 DEF TInv, SenderInv, SenderTypeOK
    <2>3. WireInv'
      BY <2>1, WireKept
    <2> QED
      BY <2>2, <2>3, SenderFrame
  <1>0. SourceInv /\ SenderTypeOK
    BY DEF TInv, SenderInv
  <1>1. CASE BuildSeal
    <2> USE <1>1 DEF BuildSeal
    <2>1. UNCHANGED <<frozen, receiverVars, store, revoked, wire, q, qgen, active,
                      retired, reclaiming>> /\ FaultCounted
      BY DEF FaultCounted
    <2>2. PICK g \in raw :
            \/ /\ g \in active /\ raw' = raw \ {g} /\ ghost' = ghost \cup {g}
               /\ UNCHANGED <<built, b, bgen>>
            \/ /\ built' = built \cup {g} /\ b' = "sealed" /\ bgen' = g
               /\ UNCHANGED <<raw, ghost>>
      BY DEF Oldest
    <2>3. UNCHANGED Held
      BY <2>1, <2>2 DEF Held
    <2>4. SourceTypeOK' /\ b = "idle" /\ q \notin {"down", "startReclaim", "recover"}
      BY <1>0, <2>1, <2>2 DEF SourceInv, SourceTypeOK
    <2>5. SourceInv'
      BY <1>0, <2>1, <2>2, <2>3, <2>4 DEF SourceInv, Held
    <2>6. b' \in {"idle", "sealed"} /\ bgen' \in Gens \cup {None}
      BY <1>0, <2>2, <2>4 DEF SourceInv, SourceTypeOK, SenderTypeOK
    <2> QED
      BY <2>1, <2>3, <2>5, <2>6
  <1>2. CASE BuildRemoveRaw \/ BuildPromote
    <2> USE <1>2 DEF BuildRemoveRaw, BuildPromote
    <2>1. UNCHANGED <<frozen, receiverVars, store, revoked, wire, q, qgen, retired,
                      reclaiming>> /\ FaultCounted
      BY DEF FaultCounted
    <2>2. bgen \in built /\ q \notin {"down", "startReclaim", "recover"}
      BY <1>0 DEF SourceInv
    <2>3. UNCHANGED Held
      BY <2>1, <2>2 DEF Held
    <2>4. SourceTypeOK'
      BY <1>0, <2>1, <2>2 DEF SourceInv, SourceTypeOK
    <2>5. SourceInv'
      BY <1>0, <2>1, <2>2, <2>3, <2>4 DEF SourceInv, Held
    <2>6. b' \in {"idle", "unlisted"} /\ bgen' \in Gens \cup {None}
      BY <1>0 DEF SenderTypeOK
    <2> QED
      BY <2>1, <2>3, <2>5, <2>6
  <1>3. CASE BuildFails
    <2> USE <1>3 DEF BuildFails
    <2>1. UNCHANGED <<frozen, Held, receiverVars, store, revoked, wire, q, qgen>>
          /\ FaultCounted
      BY DEF Fault, FaultCounted, source, Held
    <2>2. q \notin {"down", "startReclaim", "recover"}
      BY <1>0 DEF SourceInv
    <2>3. SourceInv'
      BY <1>0, <2>1, <2>2 DEF SourceInv, SourceTypeOK, source
    <2> QED
      BY <2>1, <2>3
  <1> QED
    BY <1>1, <1>2, <1>3

\* The offer of the oldest active generation takes a listening receiver.
LEMMA OfferStep ==
    ASSUME TInv, SendOffer
    PROVE  TInv' /\ Implements
  <1> USE DEF SendOffer
  <1>1. UNCHANGED <<source, store, revoked, b, bgen, rgen, todo, fresh>> /\ FaultCounted
    BY DEF FaultCounted
  <1>2. UNCHANGED <<frozen, Held>>
    BY <1>1 DEF source, Held
  <1>3. PICK g \in active : qgen' = g /\ wire' = [type |-> "offer", gen |-> g]
    BY DEF Oldest
  <1>4. g \in frozen /\ g \in Gens
    BY DEF TInv, SourceInv, SourceTypeOK, Held
  <1>5. SourceInv'
    BY <1>1, <1>2 DEF TInv, SourceInv, SourceTypeOK, source
  <1>6. SenderInv'
    BY <1>1, <1>2, <1>3, <1>4 DEF TInv, SenderInv, SenderTypeOK
  <1>7. WireInv'
    BY <1>2, <1>3, <1>4, WireWritten
  <1>8. ReceiverInv'
    BY <1>1, <1>2 DEF TInv, ReceiverInv, ReceiverTypeOK, ReceiverStates, Serving
  <1>9. StoreInv' /\ DurablyRecorded' = DurablyRecorded
    BY <1>1, <1>2 DEF TInv, StoreInv, StoreTypeOK, store, DurablyRecorded
  <1>10. EnvironmentInv'
    BY <1>1, EnvironmentKept
  <1>11. NothingLost' /\ Implements
    BY <1>2, <1>9, RecordsHeld
  <1> QED
    BY <1>5, <1>6, <1>7, <1>8, <1>9, <1>10, <1>11 DEF TInv

\* The rest of the transaction up to the acknowledgement, and its retry.
LEMMA QueueStep ==
    ASSUME TInv, ReadDecision \/ ReadAcknowledgement \/ SendRetry
    PROVE  TInv' /\ Implements
  <1>1. /\ q \in {"decision", "ack"}
        /\ UNCHANGED <<source, receiverVars, store, revoked>> /\ FaultCounted
    BY DEF ReadDecision, ReadAcknowledgement, SendRetry, Fault, FaultCounted
  <1>2. UNCHANGED <<frozen, Held>> /\ DurablyRecorded' = DurablyRecorded
    BY <1>1, ReceiverKept DEF source, Held
  <1>3. SenderTypeOK /\ qgen \in frozen
    BY <1>1 DEF TInv, SenderInv
  <1> SUFFICES /\ SenderInv' /\ WireInv'
               /\ \/ UNCHANGED <<b, bgen>> /\ q' \in {"scan", "ack", "authorized"}
                  \/ SenderStops
    <2>1. SourceInv'
      BY <1>1, <1>2 DEF TInv, SourceInv, SourceTypeOK, source, SenderStops
    <2> QED
      BY <2>1, <1>1, <1>2, SenderFrame
  <1>4. CASE ReadDecision /\ wire = [type |-> "accept", gen |-> qgen]
    <2>1. UNCHANGED <<b, bgen, qgen>> /\ q' = "ack"
          /\ wire' = [type |-> "transfer", gen |-> qgen]
      BY <1>4 DEF ReadDecision
    <2>2. SenderInv'
      BY <1>2, <1>3, <2>1 DEF SenderInv, SenderTypeOK
    <2>3. WireInv'
      BY <1>2, <1>3, <2>1, WireWritten
    <2> QED
      BY <2>1, <2>2, <2>3
  <1>5. CASE ReadDecision /\ wire # [type |-> "accept", gen |-> qgen]
    <2>1. SenderStops /\ wire' = NoMessage
      BY <1>5 DEF ReadDecision
    <2>2. SenderInv'
      BY <2>1, SenderSilent DEF SenderStops, SenderTypeOK
    <2> QED
      BY <2>1, <2>2, WireCleared
  <1>6. CASE ReadAcknowledgement
    <2>1. UNCHANGED <<b, bgen, qgen>> /\ q' = "authorized" /\ wire' = NoMessage
      BY <1>6 DEF ReadAcknowledgement
    <2>2. qgen \in DurablyRecorded
      BY <1>6 DEF ReadAcknowledgement, TInv, WireInv
    <2>3. SenderInv'
      BY <1>2, <1>3, <2>1, <2>2 DEF SenderInv, SenderTypeOK
    <2> QED
      BY <2>1, <2>3, WireCleared
  <1>7. CASE SendRetry
    <2>1. UNCHANGED <<b, bgen, wire>> /\ q' = "scan" /\ qgen' = None
      BY <1>7 DEF SendRetry
    <2>2. SenderInv'
      BY <1>3, <2>1, SenderSilent DEF SenderTypeOK
    <2>3. WireInv'
      BY <1>2, <2>1, WireKept
    <2> QED
      BY <2>1, <2>2, <2>3
  <1> QED
    BY <1>4, <1>5, <1>6, <1>7

\* Retirement: the one step that releases, and only what is recorded.
LEMMA RetireStep ==
    ASSUME TInv, Retire
    PROVE  TInv' /\ Implements
  <1> USE DEF Retire
  <1>1. UNCHANGED <<frozen, raw, built, reclaiming, b, bgen, wire, receiverVars, store,
                    revoked>> /\ FaultCounted
    BY DEF FaultCounted
  <1>2. /\ qgen \in active /\ qgen \in DurablyRecorded /\ qgen \in Gens
        /\ active' = active \ {qgen} /\ ghost' = ghost \ {qgen}
        /\ retired' = retired \cup {qgen} /\ q' = "reclaim" /\ qgen' = None
    BY DEF TInv, SenderInv, DurablyRecorded
  <1>3. ReceiverInv' /\ StoreInv' /\ DurablyRecorded' = DurablyRecorded
    BY <1>1, ReceiverKept
  <1>4. SourceTypeOK'
    BY <1>1, <1>2 DEF TInv, SourceInv, SourceTypeOK
  <1>5. SourceInv'
    BY <1>1, <1>2, <1>4 DEF TInv, SourceInv, Held
  <1>6. SenderInv'
    BY <1>1, <1>2, SenderSilent DEF TInv, SenderInv, SenderTypeOK
  <1>7. WireInv' /\ EnvironmentInv'
    BY <1>1, <1>3, WireKept, EnvironmentKept
  <1>8. Held' \in {Held, Held \ {qgen}} /\ qgen \in Held
    BY <1>1, <1>2 DEF Held
  <1>9. NothingLost'
    BY <1>1, <1>2, <1>3, <1>8 DEF TInv, NothingLost
  <1>10. CASE Held' = Held
    <2>1. UNCHANGED Delivery!dvars
      BY <1>1, <1>3, <1>10 DEF Delivery!dvars
    <2> QED
      BY <1>3, <1>5, <1>6, <1>7, <1>9, <2>1 DEF TInv, Implements
  <1>11. CASE Held' = Held \ {qgen}
    <2>1. Delivery!Release(qgen)
      BY <1>1, <1>2, <1>3, <1>8, <1>11 DEF Delivery!Release
    <2>2. Delivery!DNext
      BY <1>2, <2>1 DEF Delivery!DNext
    <2> QED
      BY <1>3, <1>5, <1>6, <1>7, <1>9, <2>2 DEF TInv, Implements
  <1> QED
    BY <1>8, <1>10, <1>11

\* A step that changes nothing.
LEMMA StutterStep ==
    ASSUME TInv, UNCHANGED vars
    PROVE  TInv' /\ Implements
  <1>1. /\ UNCHANGED <<source, senderVars, wire, receiverVars, store, revoked, frozen>>
        /\ FaultCounted
    BY DEF vars, source, senderVars, receiverVars, store, FaultCounted
  <1>2. ReceiverInv' /\ StoreInv' /\ DurablyRecorded' = DurablyRecorded
    BY <1>1, ReceiverKept
  <1>3. WireInv'
    BY <1>1, <1>2, WireKept
  <1> QED
    BY <1>1, <1>2, <1>3, ReceiverFrame

\* Any step of the sender process.
LEMMA SenderStep ==
    ASSUME TInv, Sender
    PROVE  TInv' /\ Implements
  BY SenderLifeStep, FreezeStep, BuilderStep, OfferStep, QueueStep, RetireStep,
     StutterStep DEF Sender, IdlePoll

\* Startup of the receiver, which re-records what custody holds.
LEMMA StartupStep ==
    ASSUME TInv, ReceiverStart \/ RecordDiscovered \/ SyncDiscovered \/ StartupFails \/ Listen
    PROVE  TInv' /\ Implements
  <1>1. UNCHANGED <<source, senderVars, wire, revoked>> /\ FaultCounted
    BY DEF ReceiverStart, RecordDiscovered, SyncDiscovered, StartupFails, Listen,
           Fault, FaultCounted
  <1>2. UNCHANGED frozen
    BY <1>1 DEF source
  <1>3. ReceiverInv /\ StoreInv /\ StoreTypeOK /\ ReceiverTypeOK
    BY DEF TInv, StoreInv, ReceiverInv
  <1> SUFFICES ReceiverInv' /\ StoreInv' /\ DurablyRecorded \subseteq DurablyRecorded'
    BY <1>1, <1>2, WireKept, ReceiverFrame
  <1>4. CASE ReceiverStart
    <2> USE <1>4 DEF ReceiverStart
    <2>1. Kept(custody, custody')
      <3>1. Kept(custody, Synced(custody))
        BY UnchangedKept, SyncedKept
      <3> QED
        BY <3>1, UnchangedKept
    <2>2. Kept(receipt, receipt')
      BY UnchangedKept
    <2>3. prov' \in BOOLEAN /\ ready' \subseteq Gens
      BY <1>3 DEF StoreTypeOK
    <2>4. ReceiverTypeOK' /\ todo' \subseteq frozen'
      BY <1>2, <1>3 DEF ReceiverTypeOK, ReceiverStates, Present, StoreInv
    <2>5. ReceiverInv'
      BY <2>4 DEF ReceiverInv, Serving
    <2> QED
      BY <1>2, <2>1, <2>2, <2>3, <2>5, StoreKept
  <1>5. CASE RecordDiscovered
    <2> USE <1>5 DEF RecordDiscovered
    <2>1. PICK g \in todo : receipt' = Linked(receipt, g) /\ rgen' = g
      OBVIOUS
    <2>2. g \in frozen /\ g \in Gens
      BY <1>3 DEF ReceiverInv, ReceiverTypeOK
    <2>3. Kept(receipt, receipt')
      BY <2>1, <2>2, UnchangedKept, LinkedKept
    <2>4. Kept(custody, custody')
      BY UnchangedKept
    <2>5. prov' \in BOOLEAN /\ ready' \subseteq Gens
      BY <1>3 DEF StoreTypeOK
    <2>6. fresh' \in BOOLEAN
      OBVIOUS
    <2>7. ReceiverTypeOK'
      BY <1>3, <2>1, <2>2, <2>6 DEF ReceiverTypeOK, ReceiverStates
    <2>8. ReceiverInv'
      BY <1>2, <1>3, <2>1, <2>2, <2>7 DEF ReceiverInv
    <2> QED
      BY <1>2, <2>3, <2>4, <2>5, <2>8, StoreKept
  <1>6. CASE SyncDiscovered
    <2> USE <1>6 DEF SyncDiscovered
    <2>1. Kept(receipt, receipt')
      BY UnchangedKept, SyncedKept
    <2>2. Kept(custody, custody')
      BY UnchangedKept
    <2>3. rgen \in frozen /\ rgen \in Gens
      BY DEF TInv, ReceiverInv, SourceInv, SourceTypeOK
    <2>4. prov' \in BOOLEAN
      BY <1>3 DEF StoreTypeOK
    <2>5. ready' \subseteq Gens
      BY <1>3, <2>3 DEF StoreTypeOK
    <2>6. ReceiverTypeOK'
      BY <1>3 DEF ReceiverTypeOK, ReceiverStates
    <2>7. ReceiverInv'
      BY <1>2, <1>3, <2>6 DEF ReceiverInv, Serving
    <2> QED
      BY <1>2, <2>1, <2>2, <2>4, <2>5, <2>7, StoreKept
  <1>7. CASE StartupFails
    BY <1>2, <1>7, ReceiverStopped, UnchangedKept, StoreKept, <1>3
    DEF StartupFails, store, StoreTypeOK
  <1>8. CASE Listen
    <2> USE <1>8 DEF Listen
    <2>1. ReceiverTypeOK'
      BY <1>3 DEF ReceiverTypeOK, ReceiverStates
    <2>2. ReceiverInv'
      BY <1>2, <1>3, <2>1 DEF ReceiverInv, Serving, store
    <2> QED
      BY <1>2, <1>3, <2>2, UnchangedKept, StoreKept DEF store, StoreTypeOK
  <1> QED
    BY <1>4, <1>5, <1>6, <1>7, <1>8

\* The transaction of the receiver up to a validated transfer, and its end.
LEMMA ConversationStep ==
    ASSUME TInv, ReadOffer \/ ReceiveTransfer \/ WriteAcknowledgement \/ ReceiveError
    PROVE  TInv' /\ Implements
  <1>1. UNCHANGED <<source, senderVars, custody, receipt, ready, revoked>> /\ FaultCounted
    BY DEF ReadOffer, ReceiveTransfer, WriteAcknowledgement, ReceiveError, store, FaultCounted
  <1>2. UNCHANGED frozen /\ DurablyRecorded' = DurablyRecorded
    BY <1>1 DEF source, DurablyRecorded
  <1>3. ReceiverInv /\ StoreTypeOK /\ ReceiverTypeOK /\ WireInv
    BY DEF TInv, StoreInv, ReceiverInv
  <1>4. prov' \in BOOLEAN
    BY <1>3 DEF ReadOffer, ReceiveTransfer, WriteAcknowledgement, ReceiveError, store,
                StoreTypeOK
  <1>5. StoreInv'
    BY <1>1, <1>2, <1>3, <1>4, UnchangedKept, StoreKept DEF StoreTypeOK
  <1> SUFFICES ReceiverInv' /\ WireInv'
    BY <1>1, <1>2, <1>5, ReceiverFrame
  <1>6. CASE ReadOffer
    <2> USE <1>6 DEF ReadOffer
    <2>1. wire \in Messages /\ wire.gen \in frozen
      BY <1>3 DEF WireInv, NoMessage
    <2>2. WireInv'
      <3>1. PICK t \in {"accept", "reject"} : wire' = [type |-> t, gen |-> wire.gen]
        OBVIOUS
      <3> QED
        BY <1>2, <2>1, <3>1, WireWritten
    <2>3. CASE ReceiverStops
      BY <2>2, <2>3, ReceiverStopped
    <2>4. CASE r' = "transfer" /\ rgen' = wire.gen /\ UNCHANGED <<todo, fresh>>
      <3>1. ReceiverTypeOK'
        BY <1>3, <2>1, <2>4 DEF ReceiverTypeOK, ReceiverStates, Serving, Messages
      <3>2. ReceiverInv'
        BY <1>2, <1>3, <2>1, <2>4, <3>1 DEF ReceiverInv
      <3> QED
        BY <2>2, <3>2
    <2> QED
      BY <2>3, <2>4
  <1>7. CASE ReceiveTransfer
    <2> USE <1>7 DEF ReceiveTransfer
    <2>1. WireInv'
      BY WireCleared
    <2>2. CASE ReceiverStops
      BY <2>1, <2>2, ReceiverStopped
    <2>3. CASE r' = "received" /\ UNCHANGED <<rgen, todo, fresh>>
      <3>1. ReceiverTypeOK'
        BY <1>3, <2>3 DEF ReceiverTypeOK, ReceiverStates, Serving
      <3>2. ReceiverInv'
        BY <1>2, <1>3, <2>3, <3>1 DEF ReceiverInv, Serving
      <3> QED
        BY <2>1, <3>2
    <2> QED
      BY <2>2, <2>3
  <1>8. CASE WriteAcknowledgement
    <2> USE <1>8 DEF WriteAcknowledgement
    <2>1. rgen \in frozen /\ rgen \in Gens
      BY <1>3 DEF TInv, ReceiverInv, Serving, SourceInv, SourceTypeOK
    <2>2. rgen \in DurablyRecorded
      BY <1>3, <2>1 DEF ReceiverInv, DurablyRecorded
    <2>3. CASE wire' = NoMessage
      BY <2>3, WireCleared, ReceiverStopped
    <2>4. CASE wire' = [type |-> "ack", gen |-> rgen]
      <3>1. wire' \in Messages
        BY <2>1, <2>4 DEF Messages
      <3>2. WireInv'
        BY <1>2, <2>1, <2>2, <2>4, <3>1 DEF WireInv
      <3> QED
        BY <3>2, ReceiverStopped
    <2> QED
      BY <2>3, <2>4
  <1>9. CASE ReceiveError
    BY <1>2, <1>9, WireKept, ReceiverStopped DEF ReceiveError
  <1> QED
    BY <1>6, <1>7, <1>8, <1>9

\* Custody and recording: link, drop the provisional name, sync, link, sync, mark.
LEMMA CustodyStep ==
    ASSUME TInv, \/ LinkCustody \/ DropProvisional \/ SyncCustody
                 \/ LinkReceipt \/ SyncReceipt \/ PublishReady
    PROVE  TInv' /\ Implements
  <1>1. UNCHANGED <<source, senderVars, wire, revoked, frozen>> /\ FaultCounted
    BY DEF LinkCustody, DropProvisional, SyncCustody, LinkReceipt, SyncReceipt,
           PublishReady, Fault, FaultCounted, source
  <1>2. ReceiverInv /\ StoreInv /\ StoreTypeOK /\ ReceiverTypeOK
    BY DEF TInv, StoreInv, ReceiverInv
  <1>3. rgen \in frozen /\ rgen \in Gens
    BY DEF TInv, ReceiverInv, Serving, SourceInv, SourceTypeOK, LinkCustody,
           DropProvisional, SyncCustody, LinkReceipt, SyncReceipt, PublishReady
  <1>4. prov' \in BOOLEAN /\ ready' \subseteq Gens
    BY <1>2, <1>3 DEF StoreTypeOK, LinkCustody, DropProvisional, SyncCustody,
           LinkReceipt, SyncReceipt, PublishReady
  <1> SUFFICES ReceiverInv' /\ Kept(custody, custody') /\ Kept(receipt, receipt')
    BY <1>1, <1>4, StoreKept, WireKept, ReceiverFrame
  <1>5. CASE LinkCustody
    <2> USE <1>5 DEF LinkCustody
    <2>1. Kept(custody, custody')
      BY <1>3, UnchangedKept, LinkedKept
    <2>2. /\ custody'[rgen] # "none"
          /\ custody[rgen] = "none" => custody'[rgen] = "volatile"
      BY <1>2, <1>3, LinkedDir DEF StoreTypeOK
    <2>3. fresh' \in BOOLEAN /\ (fresh' => custody[rgen] = "none")
      OBVIOUS
    <2>4. ReceiverTypeOK'
      BY <1>2, <2>3 DEF ReceiverTypeOK, ReceiverStates, Serving
    <2>5. ReceiverInv'
      BY <1>1, <1>2, <1>3, <2>2, <2>3, <2>4 DEF ReceiverInv
    <2> QED
      BY <2>1, <2>5, UnchangedKept
  <1>6. CASE DropProvisional
    <2>1. CASE r' = "renamed" /\ UNCHANGED <<rgen, todo, fresh, custody, receipt>>
      <3>1. ReceiverTypeOK'
        BY <1>2, <2>1 DEF ReceiverTypeOK, ReceiverStates, Serving
      <3>2. ReceiverInv'
        BY <1>1, <1>2, <1>3, <1>6, <2>1, <3>1 DEF DropProvisional, ReceiverInv
      <3> QED
        BY <2>1, <3>2, UnchangedKept
    <2>2. CASE ReceiverStops /\ UNCHANGED receipt
               /\ custody' \in {custody, IF fresh THEN [custody EXCEPT ![rgen] = "none"]
                                                  ELSE custody}
      <3>1. CASE UNCHANGED custody
        BY <2>2, <3>1, ReceiverStopped, UnchangedKept
      <3>2. CASE fresh /\ custody' = [custody EXCEPT ![rgen] = "none"]
        <4>1. custody[rgen] = "volatile"
          BY <1>2, <1>6, <3>2 DEF ReceiverInv, DropProvisional
        <4>2. Kept(custody, custody')
          BY <1>2, <1>3, <3>2, <4>1 DEF StoreInv, StoreTypeOK, Kept, Entry
        <4> QED
          BY <2>2, <4>2, ReceiverStopped, UnchangedKept
      <3> QED
        BY <2>2, <3>1, <3>2
    <2> QED
      BY <1>6, <2>1, <2>2 DEF DropProvisional
  <1>7. CASE SyncCustody
    <2> USE <1>7 DEF SyncCustody
    <2>1. Kept(custody, custody')
      BY UnchangedKept, SyncedKept
    <2>2. custody'[rgen] = "durable"
      BY <1>2, <1>3, SyncedDir DEF StoreTypeOK, ReceiverInv
    <2>3. ReceiverTypeOK'
      BY <1>2 DEF ReceiverTypeOK, ReceiverStates, Serving
    <2>4. ReceiverInv'
      BY <1>1, <1>2, <1>3, <2>2, <2>3 DEF ReceiverInv
    <2> QED
      BY <2>1, <2>4, UnchangedKept
  <1>8. CASE LinkReceipt
    <2> USE <1>8 DEF LinkReceipt
    <2>1. Kept(receipt, receipt')
      BY <1>3, UnchangedKept, LinkedKept
    <2>2. receipt'[rgen] # "none"
      BY <1>2, <1>3, LinkedDir DEF StoreTypeOK
    <2>3. ReceiverTypeOK'
      BY <1>2 DEF ReceiverTypeOK, ReceiverStates, Serving
    <2>4. ReceiverInv'
      BY <1>1, <1>2, <1>3, <2>2, <2>3 DEF ReceiverInv
    <2> QED
      BY <2>1, <2>4, UnchangedKept
  <1>9. CASE SyncReceipt
    <2> USE <1>9 DEF SyncReceipt
    <2>1. Kept(receipt, receipt')
      BY UnchangedKept, SyncedKept
    <2>2. receipt'[rgen] = "durable"
      BY <1>2, <1>3, SyncedDir DEF StoreTypeOK, ReceiverInv
    <2>3. ReceiverTypeOK'
      BY <1>2 DEF ReceiverTypeOK, ReceiverStates, Serving
    <2>4. ReceiverInv'
      BY <1>1, <1>2, <1>3, <2>2, <2>3 DEF ReceiverInv
    <2> QED
      BY <2>1, <2>4, UnchangedKept
  <1>10. CASE PublishReady
    <2> USE <1>10 DEF PublishReady
    <2>1. ReceiverTypeOK'
      BY <1>2 DEF ReceiverTypeOK, ReceiverStates, Serving
    <2>2. ReceiverInv'
      BY <1>1, <1>2, <1>3, <2>1 DEF ReceiverInv
    <2> QED
      BY <2>2, UnchangedKept
  <1> QED
    BY <1>5, <1>6, <1>7, <1>8, <1>9, <1>10

\* The receiver's process dies or its host loses power.
LEMMA ReceiverDeathStep ==
    ASSUME TInv, ReceiverCrash \/ ReceiverPowerLoss
    PROVE  TInv' /\ Implements
  <1>1. /\ UNCHANGED <<source, senderVars, wire, ready, revoked, frozen>> /\ FaultCounted
        /\ ReceiverStops
    BY DEF ReceiverCrash, ReceiverPowerLoss, Fault, FaultCounted, source
  <1>2. StoreInv /\ StoreTypeOK
    BY DEF TInv, StoreInv
  <1>3. prov' \in BOOLEAN /\ ready' \subseteq Gens
    BY <1>1, <1>2 DEF StoreTypeOK, ReceiverCrash, ReceiverPowerLoss
  <1>4. Kept(custody, custody') /\ Kept(receipt, receipt')
    <2>1. CASE ReceiverCrash
      BY <2>1, UnchangedKept DEF ReceiverCrash
    <2>2. CASE ReceiverPowerLoss
      BY <1>2, <2>2, LostDir DEF ReceiverPowerLoss, StoreInv, StoreTypeOK, Kept
    <2> QED
      BY <2>1, <2>2
  <1>5. StoreInv' /\ DurablyRecorded \subseteq DurablyRecorded'
    BY <1>1, <1>3, <1>4, StoreKept
  <1> QED
    BY <1>1, <1>5, ReceiverStopped, WireKept, ReceiverFrame

\* The network and the certificate authority.
LEMMA EnvironmentStep ==
    ASSUME TInv, LoseMessage \/ Revoke
    PROVE  TInv' /\ Implements
  <1>1. UNCHANGED <<source, senderVars, receiverVars, store, frozen>> /\ FaultCounted
    BY DEF LoseMessage, Revoke, Fault, FaultCounted, source
  <1>2. ReceiverInv' /\ StoreInv' /\ DurablyRecorded' = DurablyRecorded
    BY <1>1, ReceiverKept
  <1>3. CASE LoseMessage
    BY <1>1, <1>2, <1>3, WireCleared, ReceiverFrame DEF LoseMessage
  <1>4. CASE Revoke
    <2>1. UNCHANGED wire /\ revoked' \in BOOLEAN
      BY <1>4 DEF Revoke
    <2>2. SourceInv' /\ UNCHANGED <<frozen, Held>>
      BY <1>1, SourceKept
    <2>3. SenderInv' /\ WireInv'
      BY <1>1, <1>2, <2>1, SenderKept, WireKept
    <2>4. EnvironmentInv'
      <3>1. faults \in 0 .. MaxFaults /\ MaxFaults \in Nat
        BY TransportAssumption DEF TInv, EnvironmentInv
      <3>2. faults' \in 0 .. MaxFaults
        BY <1>1, <3>1 DEF FaultCounted
      <3> QED
        BY <2>1, <3>2 DEF EnvironmentInv
    <2>5. NothingLost' /\ Implements
      BY <1>2, <2>2, RecordsHeld
    <2> QED
      BY <1>2, <2>2, <2>3, <2>4, <2>5 DEF TInv
  <1> QED
    BY <1>3, <1>4

\* Any step of the receiver process.
LEMMA ReceiverStep ==
    ASSUME TInv, Receiver
    PROVE  TInv' /\ Implements
  BY StartupStep, ConversationStep, CustodyStep, ReceiverDeathStep DEF Receiver

\* Nothing frozen, both processes down, an empty receiver.
LEMMA InitInv == Init => TInv /\ Delivery!DInit
  <1> SUFFICES ASSUME Init PROVE TInv /\ Delivery!DInit
    OBVIOUS
  <1> USE DEF Init
  <1>1. SourceInv
    BY DEF SourceInv, SourceTypeOK, Held
  <1>2. SenderInv
    BY DEF SenderInv, SenderTypeOK
  <1>3. WireInv
    BY DEF WireInv, NoMessage
  <1>4. ReceiverInv
    BY DEF ReceiverInv, ReceiverTypeOK, ReceiverStates, Serving
  <1>5. StoreInv
    BY DEF StoreInv, StoreTypeOK, Entry
  <1>6. EnvironmentInv
    <2>1. revoked \in BOOLEAN
      OBVIOUS
    <2>2. faults \in 0 .. MaxFaults
      BY TransportAssumption
    <2> QED
      BY <2>1, <2>2 DEF EnvironmentInv
  <1>7. NothingLost
    BY DEF NothingLost
  <1>8. Delivery!DInit
    BY DEF Delivery!DInit, Held, DurablyRecorded
  <1> QED
    BY <1>1, <1>2, <1>3, <1>4, <1>5, <1>6, <1>7, <1>8 DEF TInv

\* Every step preserves the invariant and implements the abstract specification.
LEMMA NextStep == TInv /\ [Next]_vars => TInv' /\ Implements
  BY SenderStep, ReceiverStep, EnvironmentStep, StutterStep DEF Next

-----------------------------------------------------------------------------
(* Theorems.                                                               *)

\* The inductive invariant holds in every reachable state.
THEOREM Invariance == Spec => []TInv
  <1>1. TInv /\ [Next]_vars => TInv'
    BY NextStep
  <1> QED
    BY InitInv, <1>1, PTL DEF Spec

\* Type correctness, for every set of generations and every number of faults.
THEOREM TypeCorrect == Spec => []TypeOK
  <1>1. TInv => TypeOK
    BY DEF TInv, SourceInv, SenderInv, WireInv, ReceiverInv, StoreInv, EnvironmentInv,
           TypeOK
  <1> QED
    BY Invariance, <1>1, PTL

\* Whatever crashes, power failures, I/O errors, lost messages and revocations
\* happen, a frozen generation is still at the source or durable at the receiver.
THEOREM GenerationsSafe == Spec => []NothingLost
  <1>1. TInv => NothingLost
    BY DEF TInv
  <1> QED
    BY Invariance, <1>1, PTL

\* The transport implements GenerationDelivery: each generation is recorded for
\* good before the source releases it.
THEOREM Refinement == Spec => DeliversGenerations
  <1>1. TInv /\ [Next]_vars => [Delivery!DNext]_(Delivery!dvars)
    BY NextStep DEF Implements
  <1> QED
    BY InitInv, Invariance, <1>1, PTL DEF Spec, DeliversGenerations, Delivery!DSpec

==============================================================================
