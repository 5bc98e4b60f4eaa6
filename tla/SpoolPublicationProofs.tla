----------------------- MODULE SpoolPublicationProofs -----------------------
(***************************************************************************)
(* Proofs about SpoolPublication for every set of writers, batches and     *)
(* generations, every fault and both ways of starting the collector.       *)
(***************************************************************************)
EXTENDS SpoolPublication, TLAPS

Active == {"empty", "writing"} \cup Pending \cup Locked

\* TypeOK in the parts that actions change together.
FilesOK ==
    /\ data \in [Batches -> DataFixed \cup Gens]
    /\ man \in [Batches -> ManFixed \cup Gens]

WritersOK ==
    /\ reported \subseteq Batches
    /\ wst \in [Writers -> WriterStates]
    /\ wbatch \in [Writers -> Batches \cup {None}]

LockOK == lock \in Writers \cup {"free", "recovery", "sender"}

CollectorOK ==
    /\ collector \in {"down", "preserving", "up"} \cup RecoveryPhases
    /\ rbatch \in Batches \cup {None}
    /\ orphans \subseteq Batches
    /\ litter \in BOOLEAN

SpoolOK == spool \in BOOLEAN

SenderOK ==
    /\ next \subseteq Gens
    /\ raw \subseteq Gens
    /\ sealed \in [Gens -> SUBSET Batches]
    /\ sender \in {"down", "up"}
    /\ roll \in {"idle"} \cup Rolling
    /\ rgen \in Gens \cup {None}

\* Who holds the publication boundary: a process is inside its critical section
\* exactly while the lock names it, and only a running collector has writers.
BoundaryInv ==
    /\ \A w \in Writers : wst[w] \in Locked => lock = w
    /\ \A w \in Writers : wst[w] # "closed" => collector = "up"
    /\ collector \in RecoveryPhases => lock = "recovery"
    /\ roll \in Rolling => lock = "sender"

\* What a writer knows of its batch: it owns it alone, has not reported it, and
\* between the two publication renames only the manifest is missing.
WriterInv ==
    /\ \A w \in Writers : wst[w] \in Active => wbatch[w] \in Batches
    /\ \A w \in Writers : wst[w] \notin Active => wbatch[w] = None
    /\ \A w \in Writers : wbatch[w] \notin reported
    /\ \A v, w \in Writers : v # w /\ wbatch[v] # None => wbatch[v] # wbatch[w]
    /\ \A w \in Writers : wst[w] \in {"dataOut", "rollback"} => HalfPublished(wbatch[w])
    /\ \A w \in Writers : wst[w] = "committed" => Published(wbatch[w])

\* Directories: no file is in an active spool that does not exist, the spool stays
\* while recovery holds the boundary, the generation about to be frozen has never
\* been used, and a sealed generation has everything its raw directory had.
DirectoryInv ==
    /\ ~spool => \A b \in Batches : data[b] # "spool" /\ man[b] # "spool"
    /\ collector \in RecoveryPhases => spool
    /\ roll \in {"next", "frozen", "unwind"} => rgen \in Gens
    /\ roll = "next" => rgen \notin raw /\ sealed[rgen] = {} /\ spool
    /\ \A g \in Gens : sealed[g] # {} => Pairs(g) \subseteq sealed[g]

\* The orphans of a one-shot start are not reported batches.
OrphanInv ==
    /\ orphans # {} => collector = "preserving"
    /\ orphans \cap reported = {}

\* Inductive: FinalizedNeverLost alone is not, because a publishing writer must
\* be known to own its batch and to hold the boundary when it reports it.
IInv == /\ FilesOK /\ WritersOK /\ LockOK /\ CollectorOK /\ SpoolOK /\ SenderOK
        /\ BoundaryInv /\ WriterInv /\ DirectoryInv /\ OrphanInv
        /\ FinalizedNeverLost

-----------------------------------------------------------------------------
(* Consequences of the invariant.                                          *)

\* A reported batch is a whole pair, in the spool or in a generation.
LEMMA ReportedPlace ==
    ASSUME IInv, NEW b \in reported
    PROVE  b \in Batches /\ data[b] = man[b] /\ data[b] \in {"spool"} \cup Gens
  BY DEF IInv, WritersOK, FinalizedNeverLost, Published

\* No writer is between its renames while someone else holds the boundary.
LEMMA NobodyPublishing ==
    ASSUME IInv, lock \in {"free", "recovery", "sender"}
    PROVE  \A w \in Writers : wst[w] \notin Locked
  BY ConstantsAssumption DEF IInv, BoundaryInv

\* Whoever rolls over or recovers holds the boundary.
LEMMA BoundaryHolder ==
    ASSUME IInv
    PROVE  /\ roll \in Rolling => lock = "sender"
           /\ collector \in RecoveryPhases => lock = "recovery"
           /\ collector # "up" => \A w \in Writers : wst[w] = "closed"
  BY DEF IInv, BoundaryInv

-----------------------------------------------------------------------------
(* What a step leaves alone.                                               *)

\* Types of variables that keep their values.
LEMMA TypesKept ==
    ASSUME IInv
    PROVE  /\ UNCHANGED files => FilesOK'
           /\ UNCHANGED writerVars => WritersOK'
           /\ UNCHANGED lock => LockOK'
           /\ UNCHANGED collectorVars => CollectorOK'
           /\ UNCHANGED spool => SpoolOK'
           /\ UNCHANGED senderVars => SenderOK'
  <1>1. UNCHANGED files => FilesOK'
    BY DEF IInv, FilesOK, files
  <1>2. UNCHANGED writerVars => WritersOK'
    BY DEF IInv, WritersOK, writerVars
  <1>3. UNCHANGED lock => LockOK'
    BY DEF IInv, LockOK
  <1>4. UNCHANGED collectorVars => CollectorOK'
    BY DEF IInv, CollectorOK, collectorVars
  <1>5. UNCHANGED spool => SpoolOK'
    BY DEF IInv, SpoolOK
  <1>6. UNCHANGED senderVars => SenderOK'
    BY DEF IInv, SenderOK, senderVars
  <1> QED
    BY <1>1, <1>2, <1>3, <1>4, <1>5, <1>6

\* The boundary and the control states it protects are left alone.
LEMMA BoundaryKept ==
    ASSUME IInv, UNCHANGED <<wst, lock, collector, roll>>
    PROVE  BoundaryInv'
  BY DEF IInv, BoundaryInv

\* Files may move while no writer is publishing.
LEMMA WriterKept ==
    ASSUME IInv, UNCHANGED writerVars,
           UNCHANGED files \/ \A w \in Writers : wst[w] \notin Locked
    PROVE  WriterInv'
  BY DEF IInv, WriterInv, writerVars, files, HalfPublished, Published, Locked

\* Files that move into the active spool need it to exist; what moves into a
\* generation needs an unsealed one.
LEMMA DirectoryKept ==
    ASSUME IInv, UNCHANGED <<raw, sealed, roll, rgen>>,
           spool => spool', collector' \in RecoveryPhases => spool',
           \A b \in Batches : data'[b] = "spool" \/ man'[b] = "spool" => spool',
           \A b \in Batches : data'[b] \in Gens => data'[b] = data[b]
    PROVE  DirectoryInv'
  <1>1. \A g \in Gens : Pairs(g)' \subseteq Pairs(g)
    BY DEF Pairs
  <1> QED
    BY <1>1 DEF IInv, DirectoryInv

\* The scan result of a one-shot start is left alone.
LEMMA OrphanKept ==
    ASSUME IInv, UNCHANGED <<orphans, collector, reported>>
    PROVE  OrphanInv'
  BY DEF IInv, OrphanInv

\* Nothing happens to the files of reported batches and to generations.
LEMMA ReportedKept ==
    ASSUME IInv, UNCHANGED <<reported, raw, sealed>>,
           \A b \in reported : data'[b] = data[b] /\ man'[b] = man[b]
    PROVE  FinalizedNeverLost'
  BY DEF IInv, FinalizedNeverLost, Published

-----------------------------------------------------------------------------
(* Writers.                                                                *)

\* A step of a writer that reports nothing, from what it does to its own state,
\* to the boundary and to files of unreported batches.
LEMMA WriterFrame ==
    ASSUME IInv, UNCHANGED <<reported, collectorVars, senderVars>>,
           FilesOK', WritersOK', LockOK', SpoolOK', BoundaryInv', WriterInv',
           spool => spool',
           \A b \in Batches : data'[b] = "spool" \/ man'[b] = "spool" => spool',
           \A b \in Batches : data'[b] \in Gens => data'[b] = data[b],
           \A b \in reported : data'[b] = data[b] /\ man'[b] = man[b]
    PROVE  IInv'
  <1>1. CollectorOK' /\ SenderOK'
    BY TypesKept
  <1>2. UNCHANGED <<collector, orphans, raw, sealed, roll, rgen>>
    BY DEF collectorVars, senderVars
  <1>3. collector' \in RecoveryPhases => spool'
    BY <1>2 DEF IInv, DirectoryInv
  <1>4. DirectoryInv'
    BY <1>2, <1>3, DirectoryKept
  <1>5. OrphanInv' /\ FinalizedNeverLost'
    BY <1>2, OrphanKept, ReportedKept
  <1> QED
    BY <1>1, <1>4, <1>5 DEF IInv

\* A writer inside the boundary is where the lock says, whatever state it goes to.
LEMMA WriterBoundary ==
    ASSUME IInv, NEW w \in Writers, NEW st \in WriterStates, Goto(w, st),
           UNCHANGED <<collector, roll>>, st # "closed" => collector = "up",
           \/ UNCHANGED lock /\ (st \in Locked => wst[w] \in Locked)
           \/ lock = "free" /\ lock' = w
           \/ wst[w] \in Locked /\ st \notin Locked /\ lock' = "free"
    PROVE  BoundaryInv' /\ LockOK' /\ wst' \in [Writers -> WriterStates]
  <1>1. /\ wst' \in [Writers -> WriterStates] /\ wst'[w] = st
        /\ \A v \in Writers : v # w => wst'[v] = wst[v]
    BY DEF Goto, IInv, WritersOK
  <1>2. LockOK'
    BY DEF IInv, LockOK
  <1>3. wst[w] \in Locked => lock = w
    BY DEF IInv, BoundaryInv
  <1>4. \A v \in Writers : wst'[v] \in Locked => lock' = v
    BY <1>1, <1>3, ConstantsAssumption DEF IInv, BoundaryInv
  <1>5. \A v \in Writers : wst'[v] # "closed" => collector' = "up"
    BY <1>1 DEF IInv, BoundaryInv
  <1>6. collector' \in RecoveryPhases => lock' = "recovery"
    BY <1>3, ConstantsAssumption DEF IInv, BoundaryInv
  <1>7. roll' \in Rolling => lock' = "sender"
    BY <1>3, ConstantsAssumption DEF IInv, BoundaryInv
  <1> QED
    BY <1>1, <1>2, <1>4, <1>5, <1>6, <1>7 DEF BoundaryInv

\* A writer goes on with the batch it has, or without one.
LEMMA WriterContinues ==
    ASSUME IInv, NEW w \in Writers, NEW st \in WriterStates, Goto(w, st),
           UNCHANGED <<wbatch, reported>>, st \in Active <=> wst[w] \in Active,
           \A b \in Batches : b # wbatch[w] => data'[b] = data[b] /\ man'[b] = man[b],
           st \in {"dataOut", "rollback"} => HalfPublished(wbatch[w])',
           st = "committed" => Published(wbatch[w])'
    PROVE  WriterInv'
  <1>1. /\ wst'[w] = st
        /\ \A v \in Writers : v # w => wst'[v] = wst[v]
    BY DEF Goto, IInv, WritersOK
  <1>2. \A v \in Writers : v # w /\ wst[v] \in Active =>
            /\ wbatch[v] \in Batches
            /\ data'[wbatch[v]] = data[wbatch[v]] /\ man'[wbatch[v]] = man[wbatch[v]]
    BY ConstantsAssumption DEF IInv, WriterInv
  <1>3. {"dataOut", "rollback", "committed"} \subseteq Active
    BY DEF Active, Locked
  <1>4. /\ \A v \in Writers : wst'[v] \in Active => wbatch'[v] \in Batches
        /\ \A v \in Writers : wst'[v] \notin Active => wbatch'[v] = None
    BY <1>1 DEF IInv, WriterInv
  <1>5. /\ \A v \in Writers : wbatch'[v] \notin reported'
        /\ \A u, v \in Writers : u # v /\ wbatch'[u] # None => wbatch'[u] # wbatch'[v]
    BY DEF IInv, WriterInv
  <1>6. \A v \in Writers : wst'[v] \in {"dataOut", "rollback"} => HalfPublished(wbatch[v])'
    BY <1>1, <1>2, <1>3 DEF IInv, WriterInv, HalfPublished
  <1>7. \A v \in Writers : wst'[v] = "committed" => Published(wbatch[v])'
    BY <1>1, <1>2, <1>3 DEF IInv, WriterInv, Published
  <1> QED
    BY <1>4, <1>5, <1>6, <1>7 DEF WriterInv

\* A writer lets go of its batch, which it may report.
LEMMA WriterLetsGo ==
    ASSUME IInv, NEW w \in Writers, NEW st \in {"closed", "idle"}, Goto(w, st),
           wst[w] \in Active, wbatch' = [wbatch EXCEPT ![w] = None],
           reported' \subseteq reported \cup {wbatch[w]},
           \A b \in Batches : b # wbatch[w] => data'[b] = data[b] /\ man'[b] = man[b]
    PROVE  WriterInv' /\ wbatch' \in [Writers -> Batches \cup {None}]
  <1>1. /\ wst'[w] = st /\ wbatch'[w] = None /\ st \notin Active
        /\ \A v \in Writers : v # w => wst'[v] = wst[v] /\ wbatch'[v] = wbatch[v]
        /\ wbatch' \in [Writers -> Batches \cup {None}]
    BY DEF Goto, IInv, WritersOK, Active, Pending, Locked
  <1>2. \A v \in Writers : v # w /\ wst[v] \in Active =>
            /\ wbatch[v] \in Batches /\ wbatch[v] # wbatch[w]
            /\ data'[wbatch[v]] = data[wbatch[v]] /\ man'[wbatch[v]] = man[wbatch[v]]
    BY ConstantsAssumption DEF IInv, WriterInv
  <1>3. {"dataOut", "rollback", "committed"} \subseteq Active
    BY DEF Active, Locked
  <1>4. /\ \A v \in Writers : wst'[v] \in Active => wbatch'[v] \in Batches
        /\ \A v \in Writers : wst'[v] \notin Active => wbatch'[v] = None
    BY <1>1 DEF IInv, WriterInv
  <1>5. None \notin reported /\ wbatch[w] \in Batches
    BY ConstantsAssumption DEF IInv, WritersOK, WriterInv
  <1>6. \A v \in Writers : wbatch'[v] \notin reported'
    BY <1>1, <1>2, <1>5, ConstantsAssumption DEF IInv, WriterInv
  <1>7. \A u, v \in Writers : u # v /\ wbatch'[u] # None => wbatch'[u] # wbatch'[v]
    BY <1>1 DEF IInv, WriterInv
  <1>8. \A v \in Writers : wst'[v] \in {"dataOut", "rollback"} => HalfPublished(wbatch[v])'
    BY <1>1, <1>2, <1>3 DEF IInv, WriterInv, HalfPublished
  <1>9. \A v \in Writers : wst'[v] = "committed" => Published(wbatch[v])'
    BY <1>1, <1>2, <1>3 DEF IInv, WriterInv, Published
  <1> QED
    BY <1>1, <1>4, <1>6, <1>7, <1>8, <1>9 DEF WriterInv

\* A publishing or preparing writer has a batch that is not reported.
LEMMA OwnBatch ==
    ASSUME IInv, NEW w \in Writers, wst[w] \in Active
    PROVE  wbatch[w] \in Batches /\ wbatch[w] \notin reported /\ collector = "up"
  BY DEF IInv, WriterInv, BoundaryInv, Active, Pending, Locked

\* A writer changes its control state and no file.
LEMMA WriterMoves ==
    ASSUME IInv, NEW w \in Writers, NEW st \in WriterStates, Goto(w, st),
           UNCHANGED <<files, wbatch, reported, collectorVars, senderVars>>,
           spool' \in {spool, TRUE},
           st \in Active <=> wst[w] \in Active, st # "closed" => collector = "up",
           \/ UNCHANGED lock /\ (st \in Locked => wst[w] \in Locked)
           \/ lock = "free" /\ lock' = w
           \/ wst[w] \in Locked /\ st \notin Locked /\ lock' = "free",
           st \in {"dataOut", "rollback"} => HalfPublished(wbatch[w]),
           st = "committed" => Published(wbatch[w])
    PROVE  IInv'
  <1>1. UNCHANGED <<data, man, collector, roll>>
    BY DEF files, collectorVars, senderVars
  <1>2. BoundaryInv' /\ LockOK' /\ wst' \in [Writers -> WriterStates]
    BY <1>1, WriterBoundary
  <1>3. WriterInv'
    BY <1>1, WriterContinues DEF HalfPublished, Published
  <1>4. FilesOK' /\ WritersOK'
    BY <1>2, TypesKept DEF IInv, WritersOK
  <1>5. SpoolOK' /\ (spool => spool')
    BY DEF IInv, SpoolOK
  <1>6. \A b \in Batches : data'[b] = "spool" \/ man'[b] = "spool" => spool'
    BY <1>1 DEF IInv, DirectoryInv, SpoolOK
  <1> QED
    BY <1>1, <1>2, <1>3, <1>4, <1>5, <1>6, WriterFrame

\* A writer changes its control state and moves files of its own batch.
LEMMA WriterMovesFiles ==
    ASSUME IInv, NEW w \in Writers, NEW st \in WriterStates, Goto(w, st),
           wst[w] \in Active, st \in Active, FilesOK',
           \A b \in Batches : b # wbatch[w] => data'[b] = data[b] /\ man'[b] = man[b],
           data'[wbatch[w]] \in Gens => data'[wbatch[w]] = data[wbatch[w]],
           data'[wbatch[w]] = "spool" \/ man'[wbatch[w]] = "spool" => spool,
           UNCHANGED <<wbatch, reported, collectorVars, spool, senderVars>>,
           \/ UNCHANGED lock /\ (st \in Locked => wst[w] \in Locked)
           \/ wst[w] \in Locked /\ st \notin Locked /\ lock' = "free",
           st \in {"dataOut", "rollback"} => HalfPublished(wbatch[w])',
           st = "committed" => Published(wbatch[w])'
    PROVE  IInv'
  <1>1. UNCHANGED <<collector, roll>>
    BY DEF collectorVars, senderVars
  <1>2. wbatch[w] \in Batches /\ wbatch[w] \notin reported /\ collector = "up"
    BY OwnBatch
  <1>3. BoundaryInv' /\ LockOK' /\ wst' \in [Writers -> WriterStates]
    BY <1>1, <1>2, WriterBoundary
  <1>4. WriterInv'
    BY WriterContinues
  <1>5. WritersOK' /\ SpoolOK'
    BY <1>3, TypesKept DEF IInv, WritersOK
  <1>6. \A b \in Batches : data'[b] = "spool" \/ man'[b] = "spool" => spool'
    BY DEF IInv, DirectoryInv, SpoolOK
  <1>7. \A b \in Batches : data'[b] \in Gens => data'[b] = data[b]
    OBVIOUS
  <1>8. \A b \in reported : data'[b] = data[b] /\ man'[b] = man[b]
    BY <1>2 DEF IInv, WritersOK
  <1> QED
    BY <1>3, <1>4, <1>5, <1>6, <1>7, <1>8, WriterFrame

\* Opening and closing a writer, and collecting into its batch.
LEMMA CollectStep ==
    ASSUME IInv, NEW w \in Writers,
           NewWriter(w) \/ OpenBatch(w) \/ Append(w) \/ Close(w) \/ FinalizeCurrent(w)
    PROVE  IInv'
  <1> USE DEF WriterStates, Pending, Locked, Active
  <1>1. CASE NewWriter(w)
    BY <1>1, WriterMoves DEF NewWriter
  <1>2. CASE Append(w)
    <2>1. collector = "up"
      BY <1>2, OwnBatch DEF Append
    <2> QED
      BY <1>2, <2>1, WriterMoves DEF Append
  <1>3. CASE FinalizeCurrent(w)
    <2>1. collector = "up"
      BY <1>3, OwnBatch DEF FinalizeCurrent
    <2> QED
      BY <1>3, <2>1, WriterMoves DEF FinalizeCurrent
  <1>4. CASE OpenBatch(w)
    <2> HIDE DEF WriterStates, Pending, Locked, Active
    <2>1. PICK b \in Batches :
            /\ data[b] = "none" /\ man[b] = "none" /\ b \notin {wbatch[v] : v \in Writers}
            /\ data' = [data EXCEPT ![b] = "open"] /\ wbatch' = [wbatch EXCEPT ![w] = b]
      BY <1>4 DEF OpenBatch
    <2>2. wst[w] = "idle" /\ Goto(w, "empty") /\ collector = "up"
          /\ UNCHANGED <<man, reported, lock, collectorVars, spool, senderVars>>
      BY <1>4 DEF OpenBatch, IInv, BoundaryInv
    <2>3. UNCHANGED <<collector, roll>>
      BY <2>2 DEF collectorVars, senderVars
    <2>4. BoundaryInv' /\ LockOK' /\ wst' \in [Writers -> WriterStates]
      BY <2>2, <2>3, WriterBoundary DEF WriterStates, Locked
    <2>5. /\ FilesOK' /\ data'[b] = "open"
          /\ \A c \in Batches : c # b => data'[c] = data[c]
      BY <2>1, <2>2 DEF IInv, FilesOK, DataFixed
    <2>6. b \notin reported
      BY <2>1, ReportedPlace, ConstantsAssumption DEF DataFixed
    <2>7. /\ wst'[w] = "empty" /\ wbatch'[w] = b
          /\ \A v \in Writers : v # w => wst'[v] = wst[v] /\ wbatch'[v] = wbatch[v]
      BY <2>1, <2>2 DEF Goto, IInv, WritersOK
    <2>8. WriterInv'
      <3>1. "empty" \in Active /\ "empty" \notin {"dataOut", "rollback", "committed"}
        BY DEF Active
      <3>2. \A v \in Writers : wbatch[v] # b
        BY <2>1
      <3>3. \A v \in Writers : wst[v] \in {"dataOut", "rollback", "committed"} =>
                wbatch[v] \in Batches
        BY DEF IInv, WriterInv, Active, Locked
      <3>4. /\ \A v \in Writers : wst'[v] \in Active => wbatch'[v] \in Batches
            /\ \A v \in Writers : wst'[v] \notin Active => wbatch'[v] = None
        BY <2>7, <3>1 DEF IInv, WriterInv
      <3>5. /\ \A v \in Writers : wbatch'[v] \notin reported'
            /\ \A u, v \in Writers : u # v /\ wbatch'[u] # None => wbatch'[u] # wbatch'[v]
        BY <2>2, <2>6, <2>7, <3>2 DEF IInv, WriterInv
      <3>6. \A v \in Writers : wst'[v] \in {"dataOut", "rollback"} => HalfPublished(wbatch[v])'
        BY <2>2, <2>5, <2>7, <3>1, <3>2, <3>3 DEF IInv, WriterInv, HalfPublished
      <3>7. \A v \in Writers : wst'[v] = "committed" => Published(wbatch[v])'
        BY <2>2, <2>5, <2>7, <3>1, <3>2, <3>3 DEF IInv, WriterInv, Published
      <3> QED
        BY <3>4, <3>5, <3>6, <3>7 DEF WriterInv
    <2>9. WritersOK' /\ SpoolOK'
      BY <2>1, <2>2, <2>4, TypesKept DEF IInv, WritersOK
    <2>10. \A c \in Batches : data'[c] = "spool" \/ man'[c] = "spool" => spool'
      BY <2>2, <2>5 DEF IInv, DirectoryInv, SpoolOK
    <2>11. \A c \in Batches : data'[c] \in Gens => data'[c] = data[c]
      BY <2>5, ConstantsAssumption DEF DataFixed
    <2>12. \A c \in reported : data'[c] = data[c] /\ man'[c] = man[c]
      BY <2>2, <2>5, <2>6 DEF IInv, WritersOK
    <2> QED
      BY <2>2, <2>4, <2>5, <2>8, <2>9, <2>10, <2>11, <2>12, WriterFrame
  <1>5. CASE Close(w) /\ wst[w] = "idle"
    <2>1. UNCHANGED files /\ Goto(w, "closed")
          /\ UNCHANGED <<wbatch, reported, lock, collectorVars, spool, senderVars>>
      BY <1>5 DEF Close, files
    <2> QED
      BY <1>5, <2>1, WriterMoves
  <1>6. CASE Close(w) /\ wst[w] # "idle"
    <2>1. PICK st \in {"closed", "idle"} :
            /\ wst[w] = "empty" /\ wbatch' = [wbatch EXCEPT ![w] = None] /\ Goto(w, st)
            /\ data' = [data EXCEPT ![wbatch[w]] = "none"] \/ UNCHANGED data
            /\ UNCHANGED <<man, reported, lock, collectorVars, spool, senderVars>>
      BY <1>6 DEF Close
    <2>2. wbatch[w] \in Batches /\ wbatch[w] \notin reported /\ collector = "up"
      BY <2>1, OwnBatch
    <2> HIDE DEF WriterStates, Pending, Locked, Active
    <2>3. UNCHANGED <<collector, roll>>
      BY <2>1 DEF collectorVars, senderVars
    <2>4. BoundaryInv' /\ LockOK' /\ wst' \in [Writers -> WriterStates]
      BY <2>1, <2>2, <2>3, WriterBoundary DEF WriterStates, Locked
    <2>5. /\ FilesOK' /\ data'[wbatch[w]] \in {data[wbatch[w]], "none"}
          /\ \A b \in Batches : b # wbatch[w] => data'[b] = data[b] /\ man'[b] = man[b]
      BY <2>1, <2>2 DEF IInv, FilesOK, DataFixed
    <2>6. WriterInv' /\ wbatch' \in [Writers -> Batches \cup {None}]
      BY <2>1, <2>5, WriterLetsGo DEF Active
    <2>7. WritersOK' /\ SpoolOK'
      BY <2>1, <2>4, <2>6, TypesKept DEF IInv, WritersOK
    <2>8. \A b \in Batches : data'[b] = "spool" \/ man'[b] = "spool" => spool'
      BY <2>1, <2>5 DEF IInv, DirectoryInv, SpoolOK
    <2>9. \A b \in Batches : data'[b] \in Gens => data'[b] = data[b]
      BY <2>5, ConstantsAssumption DEF DataFixed
    <2>10. \A b \in reported : data'[b] = data[b] /\ man'[b] = man[b]
      BY <2>2, <2>5 DEF IInv, WritersOK
    <2> QED
      BY <2>1, <2>4, <2>5, <2>6, <2>7, <2>8, <2>9, <2>10, WriterFrame
  <1> QED
    BY <1>1, <1>2, <1>3, <1>4, <1>5, <1>6

\* Preparing the data and the manifest of a finalized batch in the work directory.
LEMMA PrepareStep ==
    ASSUME IInv, NEW w \in Writers, PrepareData(w) \/ PrepareManifest(w)
    PROVE  IInv'
  <1>1. wst[w] \in {"synced", "prepared", "writingManifest"}
    BY DEF PrepareData, PrepareManifest
  <1>2. wst[w] \in Active
    BY <1>1 DEF Active, Pending
  <1>3. wbatch[w] \in Batches
    BY <1>2, OwnBatch
  <1>4. UNCHANGED <<wbatch, reported, lock, collectorVars, spool, senderVars>>
    BY DEF PrepareData, PrepareManifest
  <1>5. PICK st \in {"synced", "prepared", "writingManifest", "ready"} : Goto(w, st)
    BY <1>1 DEF PrepareData, PrepareManifest, Goto, IInv, WritersOK
  <1>6. /\ st \in WriterStates /\ st \in Active /\ st \notin Locked
        /\ st \notin {"dataOut", "rollback", "committed"}
    BY DEF WriterStates, Active, Pending, Locked
  <1>7. CASE PrepareData(w)
    <2>1. data' = [data EXCEPT ![wbatch[w]] = "work"] /\ UNCHANGED man
      BY <1>3, <1>7 DEF PrepareData, IInv, FilesOK
    <2>2. /\ FilesOK' /\ data'[wbatch[w]] = "work"
          /\ \A b \in Batches : b # wbatch[w] => data'[b] = data[b] /\ man'[b] = man[b]
      BY <1>3, <2>1 DEF IInv, FilesOK, DataFixed
    <2>3. man'[wbatch[w]] = "spool" => spool
      BY <1>3, <2>1 DEF IInv, DirectoryInv, SpoolOK
    <2>4. "work" \notin Gens
      BY ConstantsAssumption DEF DataFixed
    <2> QED
      BY <1>2, <1>4, <1>5, <1>6, <2>2, <2>3, <2>4, WriterMovesFiles
  <1>8. CASE PrepareManifest(w)
    <2>1. PICK m \in {"none", "partial", "temp", "work"} :
            man' = [man EXCEPT ![wbatch[w]] = m]
      BY <1>3, <1>8 DEF PrepareManifest, IInv, FilesOK
    <2>2. UNCHANGED data
      BY <1>8 DEF PrepareManifest
    <2>3. /\ FilesOK' /\ man'[wbatch[w]] = m
          /\ \A b \in Batches : b # wbatch[w] => data'[b] = data[b] /\ man'[b] = man[b]
      BY <1>3, <2>1, <2>2 DEF IInv, FilesOK, ManFixed
    <2>4. data'[wbatch[w]] = "spool" \/ man'[wbatch[w]] = "spool" => spool
      BY <1>3, <2>2, <2>3 DEF IInv, DirectoryInv, SpoolOK
    <2> QED
      BY <1>2, <1>4, <1>5, <1>6, <2>2, <2>3, <2>4, WriterMovesFiles
  <1> QED
    BY <1>7, <1>8

\* The publication of a prepared pair under the boundary, up to its report.
LEMMA PublishStep ==
    ASSUME IInv, NEW w \in Writers,
           \/ AcquirePublishBoundary(w) \/ PublishData(w) \/ PublishManifest(w)
           \/ AcceptPublished(w) \/ PublishError(w)
    PROVE  IInv'
  <1>1. wst[w] \in Active
    BY DEF AcquirePublishBoundary, PublishData, PublishManifest, AcceptPublished,
           PublishError, Active, Pending, Locked
  <1>2. wbatch[w] \in Batches /\ collector = "up"
    BY <1>1, OwnBatch
  <1>3. {"ready", "locked", "dataOut", "rollback", "committed"} \subseteq WriterStates \cap Active
    BY DEF WriterStates, Active, Pending, Locked
  <1>4. /\ {"locked", "dataOut", "rollback", "committed"} \subseteq Locked
        /\ "ready" \notin Locked
    BY DEF Locked
  <1>5. CASE AcquirePublishBoundary(w)
    BY <1>1, <1>2, <1>3, <1>5, WriterMoves DEF AcquirePublishBoundary
  <1>6. CASE AcceptPublished(w)
    BY <1>1, <1>2, <1>3, <1>4, <1>6, WriterMoves DEF AcceptPublished
  <1>7. CASE PublishData(w)
    <2>1. /\ wst[w] = "locked" /\ Unpublished(wbatch[w]) /\ spool /\ Goto(w, "dataOut")
          /\ data' = [data EXCEPT ![wbatch[w]] = "spool"]
          /\ UNCHANGED <<man, wbatch, reported, lock, collectorVars, spool, senderVars>>
      BY <1>7 DEF PublishData
    <2>2. /\ FilesOK' /\ data'[wbatch[w]] = "spool"
          /\ \A b \in Batches : b # wbatch[w] => data'[b] = data[b] /\ man'[b] = man[b]
      BY <1>2, <2>1 DEF IInv, FilesOK, DataFixed
    <2>3. HalfPublished(wbatch[w])'
      BY <2>1, <2>2 DEF HalfPublished, Unpublished
    <2>4. "spool" \notin Gens
      BY ConstantsAssumption DEF DataFixed
    <2> QED
      BY <1>1, <1>3, <1>4, <2>1, <2>2, <2>3, <2>4, WriterMovesFiles
  <1>8. CASE PublishManifest(w)
    <2>1. /\ wst[w] \in {"dataOut", "locked"} /\ Goto(w, "committed")
          /\ man' = [man EXCEPT ![wbatch[w]] = "spool"]
          /\ UNCHANGED <<data, wbatch, reported, lock, collectorVars, spool, senderVars>>
      BY <1>8 DEF PublishManifest
    <2>2. data[wbatch[w]] = "spool"
      BY <1>8 DEF PublishManifest, IInv, WriterInv, HalfPublished
    <2>3. /\ FilesOK' /\ man'[wbatch[w]] = "spool"
          /\ \A b \in Batches : b # wbatch[w] => data'[b] = data[b] /\ man'[b] = man[b]
      BY <1>2, <2>1 DEF IInv, FilesOK, ManFixed
    <2>4. Published(wbatch[w])' /\ data'[wbatch[w]] = data[wbatch[w]]
      BY <2>1, <2>2, <2>3 DEF Published
    <2>5. spool
      BY <1>2, <2>2 DEF IInv, DirectoryInv, SpoolOK
    <2> QED
      BY <1>1, <1>3, <1>4, <2>1, <2>3, <2>4, <2>5, WriterMovesFiles
  <1>9. CASE PublishError(w) /\ wst[w] = "rollback"
    <2>1. /\ lock' = "free" /\ Goto(w, "ready")
          /\ data' = [data EXCEPT ![wbatch[w]] = "work"] \/ UNCHANGED data
          /\ UNCHANGED <<man, wbatch, reported, collectorVars, spool, senderVars>>
      BY <1>9 DEF PublishError, FailPublication
    <2>2. /\ FilesOK' /\ data'[wbatch[w]] \in {"work", data[wbatch[w]]}
          /\ \A b \in Batches : b # wbatch[w] => data'[b] = data[b] /\ man'[b] = man[b]
      BY <1>2, <2>1 DEF IInv, FilesOK, DataFixed
    <2>3. man[wbatch[w]] = "work" /\ data[wbatch[w]] = "spool"
      BY <1>9 DEF IInv, WriterInv, HalfPublished
    <2>4. "work" \notin Gens
      BY ConstantsAssumption DEF DataFixed
    <2>5. spool
      BY <1>2, <2>3 DEF IInv, DirectoryInv, SpoolOK
    <2> QED
      BY <1>1, <1>3, <1>4, <1>9, <2>1, <2>2, <2>4, <2>5, WriterMovesFiles
  <1>10. CASE PublishError(w) /\ wst[w] = "locked"
    <2>1. lock' = "free" /\ Goto(w, "ready") /\ UNCHANGED files
          /\ UNCHANGED <<wbatch, reported, collectorVars, spool, senderVars>>
      BY <1>10 DEF PublishError, FailPublication, files
    <2> QED
      BY <1>1, <1>2, <1>3, <1>4, <1>10, <2>1, WriterMoves
  <1>11. CASE PublishError(w) /\ wst[w] = "dataOut"
    <2>1. Goto(w, "rollback") /\ UNCHANGED files
          /\ UNCHANGED <<lock, wbatch, reported, collectorVars, spool, senderVars>>
      BY <1>11 DEF PublishError, FailPublication, files
    <2>2. HalfPublished(wbatch[w])
      BY <1>11 DEF IInv, WriterInv
    <2> QED
      BY <1>1, <1>2, <1>3, <1>4, <1>11, <2>1, <2>2, WriterMoves
  <1>12. PublishError(w) => wst[w] \in {"locked", "dataOut", "rollback"}
    BY DEF PublishError
  <1> QED
    BY <1>5, <1>6, <1>7, <1>8, <1>9, <1>10, <1>11, <1>12

\* Giving the boundary back, with or without reporting the batch, and abandoning it.
LEMMA FinishStep ==
    ASSUME IInv, NEW w \in Writers, FinishPublication(w) \/ AbandonWriter(w)
    PROVE  IInv'
  <1>1. wst[w] \in Active
    BY DEF FinishPublication, AbandonWriter, Active, Pending, Locked
  <1>2. wbatch[w] \in Batches /\ wbatch[w] \notin reported /\ collector = "up"
    BY <1>1, OwnBatch
  <1>3. {"idle", "closed", "ready"} \subseteq WriterStates \ Locked /\ "ready" \in Active
    BY DEF WriterStates, Active, Pending, Locked
  <1>4. UNCHANGED <<files, collectorVars, spool, senderVars>>
    BY DEF FinishPublication, AbandonWriter
  <1>5. UNCHANGED <<data, man, collector, orphans, raw, sealed, roll, rgen>>
    BY <1>4 DEF files, collectorVars, senderVars
  <1>6. CASE FinishPublication(w) /\ UNCHANGED reported
    <2>1. wst[w] = "committed" /\ lock' = "free"
      BY <1>6 DEF FinishPublication, FailPublication
    <2>2. wst[w] \in Locked
      BY <2>1 DEF Locked
    <2>3. Goto(w, "ready") /\ UNCHANGED wbatch
      BY <1>2, <1>6 DEF FinishPublication, FailPublication
    <2> QED
      BY <1>1, <1>2, <1>3, <1>4, <1>6, <2>1, <2>2, <2>3, WriterMoves
  <1>7. CASE AbandonWriter(w) \/ (FinishPublication(w) /\ reported' # reported)
    <2>1. PICK st \in {"idle", "closed"} : Goto(w, st)
      BY <1>7 DEF FinishPublication, AbandonWriter
    <2>2. /\ wbatch' = [wbatch EXCEPT ![w] = None]
          /\ reported' = reported \/ reported' = reported \cup {wbatch[w]}
      BY <1>7 DEF FinishPublication, AbandonWriter
    <2>3. \/ UNCHANGED lock
          \/ wst[w] \in Locked /\ lock' = "free"
      BY <1>7 DEF FinishPublication, AbandonWriter, Locked
    <2>4. reported' # reported => Published(wbatch[w])
      BY <1>7 DEF FinishPublication, AbandonWriter, IInv, WriterInv
    <2>5. BoundaryInv' /\ LockOK' /\ wst' \in [Writers -> WriterStates]
      BY <1>2, <1>3, <1>5, <2>1, <2>3, WriterBoundary
    <2>6. WriterInv' /\ wbatch' \in [Writers -> Batches \cup {None}]
      BY <1>1, <1>5, <2>1, <2>2, WriterLetsGo
    <2>7. WritersOK'
      BY <1>2, <2>2, <2>5, <2>6 DEF IInv, WritersOK
    <2>8. FilesOK' /\ CollectorOK' /\ SpoolOK' /\ SenderOK'
      BY <1>4, TypesKept
    <2>9. DirectoryInv'
      <3>1. /\ spool => spool'
            /\ collector' \in RecoveryPhases => spool'
            /\ \A b \in Batches : data'[b] = "spool" \/ man'[b] = "spool" => spool'
        BY <1>4, <1>5 DEF IInv, DirectoryInv, SpoolOK
      <3> QED
        BY <1>5, <3>1, DirectoryKept
    <2>10. OrphanInv'
      <3>1. orphans = {}
        BY <1>2 DEF IInv, OrphanInv
      <3> QED
        BY <1>5, <3>1 DEF OrphanInv
    <2>11. FinalizedNeverLost'
      BY <1>5, <2>2, <2>4 DEF IInv, FinalizedNeverLost, Published
    <2> QED
      BY <2>5, <2>6, <2>7, <2>8, <2>9, <2>10, <2>11 DEF IInv
  <1> QED
    BY <1>6, <1>7

\* Every writer action preserves the invariant.
LEMMA WriterStep ==
    ASSUME IInv, NEW w \in Writers, Writer(w)
    PROVE  IInv'
  BY CollectStep, PrepareStep, PublishStep, FinishStep DEF Writer

-----------------------------------------------------------------------------
(* Collector process.                                                      *)

\* A step of recovery: it holds the boundary and leaves reported batches alone.
LEMMA RecoveryFrame ==
    ASSUME IInv, collector \in RecoveryPhases, FilesOK', CollectorOK',
           UNCHANGED <<writerVars, orphans, spool, senderVars>>,
           \/ UNCHANGED lock /\ collector' \in RecoveryPhases
           \/ lock' = "free" /\ collector' = "up",
           \A b \in Batches : data'[b] \in Gens => data'[b] = data[b],
           \A b \in reported : data'[b] = data[b] /\ man'[b] = man[b]
    PROVE  IInv'
  <1>1. lock = "recovery" /\ spool /\ \A w \in Writers : wst[w] \notin Locked
    BY BoundaryHolder, NobodyPublishing DEF IInv, DirectoryInv
  <1>2. \A w \in Writers : wst[w] = "closed"
    BY BoundaryHolder DEF RecoveryPhases
  <1>3. UNCHANGED <<wst, reported, raw, sealed, roll, rgen>>
    BY DEF writerVars, senderVars
  <1>4. LockOK'
    BY <1>1 DEF LockOK
  <1>5. WritersOK' /\ SpoolOK' /\ SenderOK'
    BY TypesKept
  <1>6. BoundaryInv'
    <2>1. \A w \in Writers : wst'[w] = "closed" /\ wst'[w] \notin Locked
      BY <1>1, <1>2, <1>3
    <2>2. roll' \notin Rolling
      BY <1>1, <1>3, BoundaryHolder
    <2>3. collector' \in RecoveryPhases => lock' = "recovery"
      BY <1>1 DEF RecoveryPhases
    <2> QED
      BY <2>1, <2>2, <2>3 DEF BoundaryInv
  <1>7. WriterInv'
    BY <1>1, WriterKept
  <1>8. DirectoryInv'
    BY <1>1, <1>3, DirectoryKept
  <1>9. OrphanInv'
    <2>1. orphans = {}
      BY DEF IInv, OrphanInv, RecoveryPhases
    <2> QED
      BY <2>1 DEF OrphanInv
  <1>10. FinalizedNeverLost'
    BY <1>3, ReportedKept
  <1> QED
    BY <1>4, <1>5, <1>6, <1>7, <1>8, <1>9, <1>10 DEF IInv

\* A batch with a file that is not published is not reported.
LEMMA Unreported ==
    ASSUME IInv, NEW b \in Batches,
           \/ man[b] \in {"none", "partial", "temp", "work"}
           \/ data[b] \in {"none", "open", "work"}
           \/ data[b] = "spool" /\ man[b] # "spool"
    PROVE  b \notin reported
  <1>1. Gens \cap {"none", "partial", "temp", "work", "open", "spool"} = {}
    BY ConstantsAssumption DEF DataFixed, ManFixed
  <1> QED
    BY <1>1, ReportedPlace

\* Recovery moves the data file of one batch.
LEMMA DataMoved ==
    ASSUME IInv, NEW b \in Batches, NEW place \in DataFixed, b \notin reported,
           data' = [data EXCEPT ![b] = place], UNCHANGED man
    PROVE  /\ FilesOK'
           /\ \A c \in Batches : data'[c] \in Gens => data'[c] = data[c]
           /\ \A c \in reported : data'[c] = data[c] /\ man'[c] = man[c]
  <1>1. FilesOK'
    BY DEF IInv, FilesOK
  <1>2. data'[b] = place /\ \A c \in Batches : c # b => data'[c] = data[c]
    BY DEF IInv, FilesOK
  <1>3. \A c \in Batches : data'[c] \in Gens => data'[c] = data[c]
    BY <1>2, ConstantsAssumption
  <1>4. \A c \in reported : data'[c] = data[c] /\ man'[c] = man[c]
    BY <1>2 DEF IInv, WritersOK
  <1> QED
    BY <1>1, <1>3, <1>4

\* Recovery moves the manifest of one batch.
LEMMA ManifestMoved ==
    ASSUME IInv, NEW b \in Batches, NEW place \in ManFixed, b \notin reported,
           man' = [man EXCEPT ![b] = place], UNCHANGED data
    PROVE  /\ FilesOK'
           /\ \A c \in Batches : data'[c] \in Gens => data'[c] = data[c]
           /\ \A c \in reported : data'[c] = data[c] /\ man'[c] = man[c]
  <1>1. FilesOK'
    BY DEF IInv, FilesOK
  <1>2. \A c \in Batches : c # b => man'[c] = man[c]
    BY DEF IInv, FilesOK
  <1>3. \A c \in reported : data'[c] = data[c] /\ man'[c] = man[c]
    BY <1>2 DEF IInv, WritersOK
  <1> QED
    BY <1>1, <1>3

\* Nothing is moved.
LEMMA NothingMoved ==
    ASSUME IInv, UNCHANGED <<data, man>>
    PROVE  /\ FilesOK'
           /\ \A c \in Batches : data'[c] \in Gens => data'[c] = data[c]
           /\ \A c \in reported : data'[c] = data[c] /\ man'[c] = man[c]
  BY DEF IInv, FilesOK

\* The recovery steps of a service start.
LEMMA RecoveryStep ==
    ASSUME IInv, RecoverPrepared \/ SalvageManifests \/ QuarantineIncomplete
    PROVE  IInv'
  <1>1. collector \in RecoveryPhases
    BY DEF RecoverPrepared, SalvageManifests, QuarantineIncomplete, RecoveryPhases
  <1>2. UNCHANGED <<writerVars, orphans, litter, spool, senderVars>>
    BY DEF RecoverPrepared, SalvageManifests, QuarantineIncomplete
  <1>3. \/ UNCHANGED lock /\ collector' \in RecoveryPhases
        \/ lock' = "free" /\ collector' = "up"
    BY <1>1 DEF RecoverPrepared, SalvageManifests, QuarantineIncomplete, RecoveryPhases
  <1>4. CollectorOK'
    <2>1. rbatch' \in Batches \cup {None}
      BY DEF RecoverPrepared, SalvageManifests, QuarantineIncomplete, IInv, CollectorOK
    <2>2. orphans' \subseteq Batches /\ litter' \in BOOLEAN
      BY <1>2 DEF IInv, CollectorOK
    <2>3. collector' \in {"down", "preserving", "up"} \cup RecoveryPhases
      BY <1>3
    <2> QED
      BY <2>1, <2>2, <2>3 DEF CollectorOK
  <1>5. /\ FilesOK'
        /\ \A c \in Batches : data'[c] \in Gens => data'[c] = data[c]
        /\ \A c \in reported : data'[c] = data[c] /\ man'[c] = man[c]
    <2>1. CASE \E b \in Batches : CompletePublication(b) /\ UNCHANGED data
      <3>1. PICK b \in Batches : CompletePublication(b) /\ UNCHANGED data
        BY <2>1
      <3>2. b \notin reported
        BY <3>1, Unreported DEF CompletePublication
      <3> QED
        BY <3>1, <3>2, ManifestMoved DEF CompletePublication, ManFixed
    <2>2. CASE \E b \in Batches : /\ Unpublished(b) /\ UNCHANGED man
                                  /\ data' = [data EXCEPT ![b] = "spool"]
      <3>1. PICK b \in Batches : /\ Unpublished(b) /\ UNCHANGED man
                                 /\ data' = [data EXCEPT ![b] = "spool"]
        BY <2>2
      <3>2. b \notin reported
        BY <3>1, Unreported DEF Unpublished
      <3> QED
        BY <3>1, <3>2, DataMoved DEF DataFixed
    <2>3. CASE \E b \in Batches : /\ Salvageable(b) /\ UNCHANGED data
                                  /\ man' = [man EXCEPT ![b] = "work"]
      <3>1. PICK b \in Batches : /\ Salvageable(b) /\ UNCHANGED data
                                 /\ man' = [man EXCEPT ![b] = "work"]
        BY <2>3
      <3>2. b \notin reported
        BY <3>1, Unreported DEF Salvageable
      <3> QED
        BY <3>1, <3>2, ManifestMoved DEF ManFixed
    <2>4. CASE \E b \in Batches : /\ DataResidue(b) /\ UNCHANGED man
                                  /\ data' = [data EXCEPT ![b] = "quarantine"]
      <3>1. PICK b \in Batches : /\ DataResidue(b) /\ UNCHANGED man
                                 /\ data' = [data EXCEPT ![b] = "quarantine"]
        BY <2>4
      <3>2. b \notin reported
        BY <3>1, Unreported DEF DataResidue
      <3> QED
        BY <3>1, <3>2, DataMoved DEF DataFixed
    <2>5. CASE \E b \in Batches : /\ ManifestResidue(b) /\ UNCHANGED data
                                  /\ man' = [man EXCEPT ![b] = "quarantine"]
      <3>1. PICK b \in Batches : /\ ManifestResidue(b) /\ UNCHANGED data
                                 /\ man' = [man EXCEPT ![b] = "quarantine"]
        BY <2>5
      <3>2. b \notin reported
        BY <3>1, Unreported DEF ManifestResidue
      <3> QED
        BY <3>1, <3>2, ManifestMoved DEF ManFixed
    <2>6. CASE UNCHANGED <<data, man>>
      BY <2>6, NothingMoved
    <2>7. rbatch \in Batches \cup {None}
      BY DEF IInv, CollectorOK
    <2>8. CASE RecoverPrepared
      BY <2>1, <2>2, <2>6, <2>7, <2>8 DEF RecoverPrepared, files
    <2>9. CASE SalvageManifests
      BY <2>3, <2>6, <2>9 DEF SalvageManifests
    <2>10. CASE QuarantineIncomplete
      BY <2>4, <2>5, <2>6, <2>10 DEF QuarantineIncomplete, files
    <2> QED
      BY <2>8, <2>9, <2>10
  <1> QED
    BY <1>1, <1>2, <1>3, <1>4, <1>5, RecoveryFrame

\* The collector stops; no file of a reported batch has moved.
LEMMA CollectorGone ==
    ASSUME IInv, CollectorStops, FilesOK',
           UNCHANGED <<reported, litter, spool, senderVars>>,
           \A b \in Batches : data'[b] = "spool" \/ man'[b] = "spool" => spool,
           \A b \in Batches : data'[b] \in Gens => data'[b] = data[b],
           \A b \in reported : data'[b] = data[b] /\ man'[b] = man[b]
    PROVE  IInv'
  <1>1. UNCHANGED <<raw, sealed, roll, rgen>>
    BY DEF senderVars
  <1>2. /\ collector' = "down" /\ rbatch' = None /\ orphans' = {}
        /\ lock' = IF lock = "sender" THEN "sender" ELSE "free"
    BY DEF CollectorStops
  <1>3. \A w \in Writers : wst'[w] = "closed" /\ wbatch'[w] = None
    BY DEF CollectorStops
  <1>4. WritersOK'
    BY DEF IInv, WritersOK, CollectorStops, WriterStates
  <1>5. LockOK'
    BY <1>2 DEF LockOK
  <1>6. litter' \in BOOLEAN
    BY DEF IInv, CollectorOK
  <1>7. CollectorOK'
    BY <1>2, <1>6 DEF CollectorOK
  <1>8. SpoolOK' /\ SenderOK'
    BY TypesKept
  <1>9. BoundaryInv'
    BY <1>1, <1>2, <1>3 DEF IInv, BoundaryInv, Locked, RecoveryPhases
  <1>10. WriterInv'
    <2>1. None \notin reported
      BY ConstantsAssumption DEF IInv, WritersOK
    <2>2. "closed" \notin Active
      BY DEF Active, Pending, Locked
    <2> QED
      BY <1>3, <2>1, <2>2 DEF WriterInv
  <1>11. DirectoryInv'
    BY <1>1, <1>2, DirectoryKept DEF RecoveryPhases
  <1>12. OrphanInv' /\ FinalizedNeverLost'
    BY <1>1, <1>2, ReportedKept DEF OrphanInv
  <1> QED
    BY <1>4, <1>5, <1>7, <1>8, <1>9, <1>10, <1>11, <1>12 DEF IInv

\* A crash, and an error of recovery, which may undo its last rename.
LEMMA CollectorDeathStep ==
    ASSUME IInv, CollectorCrash \/ RecoveryError
    PROVE  IInv'
  <1>1. CollectorStops /\ UNCHANGED <<man, reported, litter, spool, senderVars>>
    BY DEF CollectorCrash, RecoveryError, files
  <1>2. \/ UNCHANGED data
        \/ /\ rbatch \in Batches /\ HalfPublished(rbatch)
           /\ data' = [data EXCEPT ![rbatch] = "work"]
    BY DEF CollectorCrash, RecoveryError, files, IInv, CollectorOK
  <1>3. /\ FilesOK'
        /\ \A c \in Batches : data'[c] \in Gens => data'[c] = data[c]
        /\ \A c \in reported : data'[c] = data[c] /\ man'[c] = man[c]
    <2>1. CASE UNCHANGED data
      BY <1>1, <2>1, NothingMoved
    <2>2. CASE data' # data
      <3>1. rbatch \notin reported
        BY <1>2, <2>2, Unreported DEF HalfPublished
      <3> QED
        BY <1>1, <1>2, <2>2, <3>1, DataMoved DEF DataFixed
    <2> QED
      BY <2>1, <2>2
  <1>4. \A b \in Batches : data'[b] = "spool" \/ man'[b] = "spool" => spool
    <2>1. \A b \in Batches : data'[b] = "spool" => data[b] = "spool"
      BY <1>2 DEF IInv, FilesOK
    <2> QED
      BY <1>1, <2>1 DEF IInv, DirectoryInv, SpoolOK
  <1> QED
    BY <1>1, <1>3, <1>4, CollectorGone

\* The collector starts, or preserves what a one-shot start has scanned.
LEMMA CollectorStartStep ==
    ASSUME IInv, StartService \/ StartOneShot \/ PreserveInterrupted
    PROVE  IInv'
  <1>1. UNCHANGED <<man, writerVars, rbatch, senderVars>>
    BY DEF StartService, StartOneShot, PreserveInterrupted, files
  <1>2. UNCHANGED <<wst, reported, raw, sealed, roll, rgen>>
    BY <1>1 DEF writerVars, senderVars
  <1>3. \A w \in Writers : wst[w] = "closed" /\ wst[w] \notin Locked
    BY BoundaryHolder DEF StartService, StartOneShot, PreserveInterrupted, Locked
  <1>4. WritersOK' /\ SenderOK'
    BY <1>1, TypesKept
  <1>5. WriterInv'
    BY <1>1, <1>3, WriterKept
  <1>6. \/ lock = "free" /\ lock' = "recovery" /\ collector' = "prepared" /\ spool
        \/ UNCHANGED lock /\ collector' \in {"down", "preserving", "up"}
    BY DEF StartService, StartOneShot, PreserveInterrupted
  <1>7. BoundaryInv' /\ LockOK'
    <2>1. {"down", "preserving", "up"} \cap RecoveryPhases = {}
      BY DEF RecoveryPhases
    <2>2. roll' \in Rolling => lock' = "sender"
      BY <1>2, <1>6, BoundaryHolder
    <2>3. \A w \in Writers : wst'[w] = "closed" /\ wst'[w] \notin Locked
      BY <1>2, <1>3
    <2>4. LockOK'
      BY <1>6 DEF IInv, LockOK
    <2> QED
      BY <1>6, <2>1, <2>2, <2>3, <2>4 DEF BoundaryInv
  <1>8. SpoolOK' /\ (spool => spool')
    BY DEF StartService, StartOneShot, PreserveInterrupted, IInv, SpoolOK
  <1>9. \/ UNCHANGED data
        \/ \E b \in orphans : /\ data[b] = "spool" /\ data' = [data EXCEPT ![b] = "interrupted"]
    BY DEF StartService, StartOneShot, PreserveInterrupted, files
  <1>10. /\ FilesOK'
         /\ \A c \in Batches : data'[c] \in Gens => data'[c] = data[c]
         /\ \A c \in reported : data'[c] = data[c] /\ man'[c] = man[c]
    <2>1. CASE UNCHANGED data
      BY <1>1, <2>1, NothingMoved
    <2>2. CASE \E b \in orphans : data' = [data EXCEPT ![b] = "interrupted"]
      <3>1. PICK b \in orphans : data' = [data EXCEPT ![b] = "interrupted"]
        BY <2>2
      <3>2. b \in Batches /\ b \notin reported
        BY DEF IInv, CollectorOK, OrphanInv
      <3> QED
        BY <1>1, <3>1, <3>2, DataMoved DEF DataFixed
    <2> QED
      BY <1>9, <2>1, <2>2
  <1>11. litter' \in BOOLEAN
    BY DEF StartService, StartOneShot, PreserveInterrupted, IInv, CollectorOK
  <1>12. CollectorOK'
    <2>1. rbatch' \in Batches \cup {None}
      BY <1>1 DEF IInv, CollectorOK
    <2>2. orphans' \subseteq Batches
      BY DEF StartService, StartOneShot, PreserveInterrupted, IInv, CollectorOK
    <2> QED
      BY <1>6, <1>11, <2>1, <2>2 DEF CollectorOK, RecoveryPhases
  <1>13. DirectoryInv'
    <2>1. \A b \in Batches : data'[b] = "spool" => data[b] = "spool"
      BY <1>9 DEF IInv, FilesOK
    <2>2. \A b \in Batches : data'[b] = "spool" \/ man'[b] = "spool" => spool'
      BY <1>1, <1>8, <2>1 DEF IInv, DirectoryInv, SpoolOK
    <2>3. collector' \in RecoveryPhases => spool'
      BY <1>6, <1>8 DEF RecoveryPhases
    <2> QED
      BY <1>2, <1>8, <1>10, <2>2, <2>3, DirectoryKept
  <1>14. OrphanInv'
    <2>1. CASE StartOneShot
      <3>1. orphans' = {b \in Batches : data[b] = "spool" /\ man[b] # "spool"}
            /\ collector' = "preserving"
        BY <2>1 DEF StartOneShot
      <3>2. \A b \in orphans' : b \notin reported
        BY <3>1, Unreported
      <3> QED
        BY <1>2, <3>1, <3>2 DEF OrphanInv
    <2>2. CASE StartService
      BY <2>2 DEF StartService, IInv, OrphanInv, writerVars
    <2>3. CASE PreserveInterrupted
      BY <2>3 DEF PreserveInterrupted, IInv, OrphanInv, writerVars
    <2> QED
      BY <2>1, <2>2, <2>3
  <1>15. FinalizedNeverLost'
    BY <1>2, <1>10, ReportedKept
  <1> QED
    BY <1>4, <1>5, <1>7, <1>8, <1>10, <1>12, <1>13, <1>14, <1>15 DEF IInv

\* Every start, recovery step and stop of the collector preserves the invariant.
LEMMA CollectorStep ==
    ASSUME IInv, Collector
    PROVE  IInv'
  BY RecoveryStep, CollectorDeathStep, CollectorStartStep DEF Collector

-----------------------------------------------------------------------------
(* Sender process.                                                         *)

\* A sender step, from what it does to the boundary, directories and generations.
LEMMA SenderFrame ==
    ASSUME IInv, UNCHANGED <<writerVars, collectorVars>>,
           FilesOK', SpoolOK', SenderOK', DirectoryInv', FinalizedNeverLost',
           UNCHANGED files \/ lock = "sender",
           \/ UNCHANGED lock /\ (roll' \in Rolling => roll \in Rolling)
           \/ lock = "free" /\ lock' = "sender"
           \/ roll' \notin Rolling /\ lock' = IF lock = "sender" THEN "free" ELSE lock
    PROVE  IInv'
  <1>1. UNCHANGED <<wst, reported, collector, orphans>>
    BY DEF writerVars, collectorVars
  <1>2. WritersOK' /\ CollectorOK'
    BY TypesKept
  <1>3. LockOK'
    BY DEF IInv, LockOK
  <1>4. BoundaryInv'
    <2>1. \A w \in Writers : wst'[w] \in Locked => lock' = w
      BY <1>1, ConstantsAssumption DEF IInv, BoundaryInv
    <2>2. collector' \in RecoveryPhases => lock' = "recovery"
      BY <1>1, BoundaryHolder
    <2>3. roll' \in Rolling => lock' = "sender"
      BY BoundaryHolder
    <2>4. \A w \in Writers : wst'[w] # "closed" => collector' = "up"
      BY <1>1 DEF IInv, BoundaryInv
    <2> QED
      BY <2>1, <2>2, <2>3, <2>4 DEF BoundaryInv
  <1>5. WriterInv'
    BY WriterKept, NobodyPublishing
  <1>6. OrphanInv'
    BY <1>1, OrphanKept
  <1> QED
    BY <1>2, <1>3, <1>4, <1>5, <1>6 DEF IInv

\* A sender step that touches neither files nor generations.
LEMMA SenderQuiet ==
    ASSUME IInv, UNCHANGED <<files, writerVars, collectorVars, raw, sealed>>,
           spool' \in {spool, TRUE}, SenderOK',
           roll' \in {"next", "frozen", "unwind"} => rgen' \in Gens,
           roll' = "next" => rgen' \notin raw /\ sealed[rgen'] = {} /\ spool,
           \/ UNCHANGED lock /\ (roll' \in Rolling => roll \in Rolling)
           \/ lock = "free" /\ lock' = "sender"
           \/ roll' \notin Rolling /\ lock' = IF lock = "sender" THEN "free" ELSE lock
    PROVE  IInv'
  <1>1. UNCHANGED <<data, man, reported, collector>>
    BY DEF files, writerVars, collectorVars
  <1>2. FilesOK'
    BY TypesKept
  <1>3. SpoolOK' /\ (spool => spool')
    BY DEF IInv, SpoolOK
  <1>4. DirectoryInv'
    <2>1. ~spool' => \A b \in Batches : data'[b] # "spool" /\ man'[b] # "spool"
      BY <1>1, <1>3 DEF IInv, DirectoryInv
    <2>2. collector' \in RecoveryPhases => spool'
      BY <1>1, <1>3 DEF IInv, DirectoryInv
    <2>3. \A g \in Gens : sealed'[g] # {} => Pairs(g)' \subseteq sealed'[g]
      BY <1>1 DEF IInv, DirectoryInv, Pairs
    <2>4. roll' = "next" => rgen' \notin raw' /\ sealed'[rgen'] = {} /\ spool'
      BY <1>3
    <2> QED
      BY <2>1, <2>2, <2>3, <2>4 DEF DirectoryInv
  <1>5. FinalizedNeverLost'
    BY <1>1, ReportedKept
  <1> QED
    BY <1>2, <1>3, <1>4, <1>5, SenderFrame

\* The sender stops, leaving files, directories and generations.
LEMMA SenderGone ==
    ASSUME IInv, SenderStops, next' \subseteq Gens,
           UNCHANGED <<files, writerVars, collectorVars, spool, raw, sealed>>
    PROVE  IInv'
  <1>1. SenderOK'
    BY DEF IInv, SenderOK, SenderStops
  <1>2. /\ roll' \notin {"next", "frozen", "unwind"} /\ roll' \notin Rolling
        /\ lock' = IF lock = "sender" THEN "free" ELSE lock
    BY DEF SenderStops, Rolling
  <1> QED
    BY <1>1, <1>2, SenderQuiet

\* Starting and stopping the sender, and the rollover steps that move no file.
LEMMA RollStep ==
    ASSUME IInv,
           \/ SenderCrash \/ SenderStart \/ RollAcquire \/ RecoverRollover
           \/ RollPrepare \/ Promote \/ PromoteFails \/ RollError
    PROVE  IInv'
  <1>1. CASE SenderCrash
    BY <1>1, SenderGone DEF SenderCrash, IInv, SenderOK
  <1>2. CASE RollError
    BY <1>2, SenderGone DEF RollError, IInv, SenderOK
  <1>3. CASE SenderStart
    <2>1. SenderOK'
      BY <1>3 DEF SenderStart, IInv, SenderOK
    <2>2. /\ UNCHANGED <<files, writerVars, collectorVars, raw, sealed>>
          /\ UNCHANGED <<spool, lock, roll, rgen>>
      BY <1>3 DEF SenderStart
    <2>3. /\ roll' \in {"next", "frozen", "unwind"} => rgen' \in Gens
          /\ roll' = "next" => rgen' \notin raw /\ sealed[rgen'] = {} /\ spool
      BY <2>2 DEF IInv, DirectoryInv
    <2> QED
      BY <2>1, <2>2, <2>3, SenderQuiet
  <1>4. CASE RollAcquire
    <2>1. SenderOK'
      BY <1>4 DEF RollAcquire, IInv, SenderOK, Rolling
    <2> QED
      BY <1>4, <2>1, SenderQuiet DEF RollAcquire
  <1>5. CASE RecoverRollover
    <2>1. SenderOK' /\ roll \in Rolling
      BY <1>5 DEF RecoverRollover, IInv, SenderOK, Rolling
    <2> QED
      BY <1>5, <2>1, SenderQuiet DEF RecoverRollover
  <1>6. CASE Promote
    <2>1. SenderOK' /\ roll \in Rolling /\ roll' \notin Rolling
      BY <1>6 DEF Promote, IInv, SenderOK, Rolling
    <2>2. lock = "sender"
      BY <2>1, BoundaryHolder
    <2> QED
      BY <1>6, <2>1, <2>2, SenderQuiet DEF Promote
  <1>7. CASE PromoteFails
    <2>1. SenderOK' /\ roll \in Rolling
      BY <1>7 DEF PromoteFails, IInv, SenderOK, Rolling
    <2>2. rgen' \in Gens
      BY <1>7 DEF PromoteFails, IInv, DirectoryInv
    <2> QED
      BY <1>7, <2>1, <2>2, SenderQuiet DEF PromoteFails
  <1>8. CASE RollPrepare /\ roll' = "idle"
    <2>1. /\ SenderOK' /\ roll \in Rolling /\ roll' \notin Rolling /\ lock' = "free"
          /\ UNCHANGED <<files, writerVars, collectorVars, raw, sealed, spool>>
      BY <1>8 DEF RollPrepare, IInv, SenderOK, Rolling
    <2>2. lock = "sender"
      BY <2>1, BoundaryHolder
    <2> QED
      BY <1>8, <2>1, <2>2, SenderQuiet
  <1>9. CASE RollPrepare /\ roll' # "idle"
    <2>1. PICK g \in Gens \ raw : sealed[g] = {} /\ next' = {g} /\ rgen' = g
      BY <1>9 DEF RollPrepare
    <2>2. /\ roll = "checked" /\ roll' = "next" /\ Pairs("spool") # {}
          /\ UNCHANGED <<files, writerVars, collectorVars, raw, sealed, spool, lock, sender>>
      BY <1>9 DEF RollPrepare
    <2>3. SenderOK' /\ roll \in Rolling
      BY <2>1, <2>2 DEF IInv, SenderOK, Rolling
    <2>4. spool
      BY <2>2 DEF IInv, DirectoryInv, SpoolOK, Pairs
    <2> QED
      BY <2>1, <2>2, <2>3, <2>4, SenderQuiet
  <1> QED
    BY <1>1, <1>2, <1>3, <1>4, <1>5, <1>6, <1>7, <1>8, <1>9

\* The sender completes a publication that a collector left half done.
LEMMA CompleteStep ==
    ASSUME IInv, RollCompletePublication
    PROVE  IInv'
  <1>1. PICK b \in Batches : CompletePublication(b)
    BY DEF RollCompletePublication
  <1>2. /\ UNCHANGED <<writerVars, collectorVars, lock, senderVars>>
        /\ UNCHANGED <<data, spool>> /\ roll \in Rolling
    BY DEF RollCompletePublication, Rolling
  <1>3. UNCHANGED <<reported, collector, raw, sealed, roll, rgen>> /\ lock = "sender"
    BY <1>2, BoundaryHolder DEF senderVars, writerVars, collectorVars
  <1>4. b \notin reported
    BY <1>1, Unreported DEF CompletePublication
  <1>5. /\ FilesOK'
        /\ \A c \in Batches : data'[c] \in Gens => data'[c] = data[c]
        /\ \A c \in reported : data'[c] = data[c] /\ man'[c] = man[c]
    BY <1>1, <1>2, <1>4, ManifestMoved DEF CompletePublication, ManFixed
  <1>6. spool
    BY <1>1 DEF CompletePublication, IInv, DirectoryInv, SpoolOK
  <1>7. DirectoryInv'
    BY <1>2, <1>3, <1>5, <1>6, DirectoryKept
  <1>8. FinalizedNeverLost' /\ SpoolOK' /\ SenderOK'
    BY <1>2, <1>3, <1>5, ReportedKept, TypesKept
  <1> QED
    BY <1>2, <1>3, <1>5, <1>7, <1>8, SenderFrame

\* A directory rename takes along the files that are in it.
LEMMA MovedFile ==
    ASSUME NEW f, NEW from, NEW to, NEW b \in Batches
    PROVE  /\ f[b] = from => Moved(f, from, to)[b] = to
           /\ f[b] # from => Moved(f, from, to)[b] = f[b]
  BY DEF Moved

\* A directory rename keeps the types of places.
LEMMA MovedType ==
    ASSUME NEW Places, NEW f \in [Batches -> Places], NEW from, NEW to \in Places
    PROVE  Moved(f, from, to) \in [Batches -> Places]
  BY DEF Moved

\* Freezing the active spool: reported pairs go together into the new generation.
LEMMA FreezeStep ==
    ASSUME IInv, Freeze
    PROVE  IInv'
  <1>1. /\ roll = "next" /\ roll' = "frozen" /\ spool' = FALSE /\ raw' = raw \cup {rgen}
        /\ data' = Moved(data, "spool", rgen) /\ man' = Moved(man, "spool", rgen)
        /\ UNCHANGED <<writerVars, lock, collectorVars, next, sealed, sender, rgen>>
    BY DEF Freeze
  <1>2. roll \in Rolling /\ roll' \in Rolling /\ lock = "sender"
    BY <1>1, BoundaryHolder DEF Rolling
  <1>3. rgen \in Gens /\ rgen \notin raw /\ sealed[rgen] = {}
    BY <1>1 DEF IInv, DirectoryInv
  <1>4. \A b \in Batches :
          /\ data[b] = "spool" => data'[b] = rgen
          /\ data[b] # "spool" => data'[b] = data[b]
          /\ man[b] = "spool" => man'[b] = rgen
          /\ man[b] # "spool" => man'[b] = man[b]
    BY <1>1, MovedFile
  <1>5. FilesOK'
    BY <1>1, <1>3, MovedType DEF IInv, FilesOK
  <1>6. SpoolOK' /\ SenderOK'
    <2>1. SpoolOK'
      BY <1>1 DEF SpoolOK
    <2>2. SenderOK'
      BY <1>1, <1>2, <1>3 DEF IInv, SenderOK
    <2> QED
      BY <2>1, <2>2
  <1>7. "spool" \notin Gens
    BY ConstantsAssumption DEF DataFixed
  <1>8. DirectoryInv'
    <2>1. \A b \in Batches : data'[b] # "spool" /\ man'[b] # "spool"
      BY <1>3, <1>4, <1>7
    <2>2. collector' \notin RecoveryPhases
      BY <1>1, <1>2, BoundaryHolder DEF collectorVars
    <2>3. \A g \in Gens : sealed'[g] # {} => Pairs(g)' \subseteq sealed'[g]
      <3>1. \A g \in Gens : g # rgen => Pairs(g)' \subseteq Pairs(g)
        BY <1>4 DEF Pairs
      <3> QED
        BY <1>1, <1>3, <3>1 DEF IInv, DirectoryInv
    <2> QED
      BY <1>1, <1>3, <2>1, <2>2, <2>3 DEF DirectoryInv
  <1>9. FinalizedNeverLost'
    <2> SUFFICES ASSUME NEW b \in reported
                 PROVE  \E g \in Gens : /\ data'[b] = g /\ man'[b] = g
                                        /\ (g \in raw' \/ b \in sealed'[g])
      BY <1>1 DEF FinalizedNeverLost, writerVars
    <2>1. b \in Batches
      BY ReportedPlace
    <2>2. CASE Published(b)
      BY <1>1, <1>3, <1>4, <2>1, <2>2 DEF Published
    <2>3. CASE ~Published(b)
      <3>1. PICK g \in Gens : /\ data[b] = g /\ man[b] = g
                              /\ (g \in raw \/ b \in sealed[g])
        BY <2>3 DEF IInv, FinalizedNeverLost
      <3> QED
        BY <1>1, <1>4, <1>7, <2>1, <3>1
    <2> QED
      BY <2>2, <2>3
  <1> QED
    BY <1>1, <1>2, <1>5, <1>6, <1>8, <1>9, SenderFrame

\* A failed rollover: the frozen generation becomes the active spool again, with
\* all its pairs, or everything stays where it is.
LEMMA UnwindStep ==
    ASSUME IInv, Unwind
    PROVE  IInv'
  <1>1. /\ roll = "unwind" /\ next' = {} /\ SenderStops
        /\ UNCHANGED <<writerVars, collectorVars, sealed>>
    BY DEF Unwind
  <1>2. CASE UNCHANGED <<files, raw, spool>>
    BY <1>1, <1>2, SenderGone
  <1>3. CASE /\ ~spool /\ rgen \in raw /\ raw' = raw \ {rgen} /\ spool' = TRUE
             /\ data' = Moved(data, rgen, "spool") /\ man' = Moved(man, rgen, "spool")
    <2>1. rgen \in Gens /\ lock = "sender"
      BY <1>1, BoundaryHolder DEF IInv, DirectoryInv, Rolling
    <2>2. /\ roll' = "idle" /\ roll' \notin Rolling
          /\ lock' = IF lock = "sender" THEN "free" ELSE lock
      BY <1>1 DEF SenderStops, Rolling
    <2>3. \A b \in Batches :
            /\ data[b] = rgen => data'[b] = "spool"
            /\ data[b] # rgen => data'[b] = data[b]
            /\ man[b] = rgen => man'[b] = "spool"
            /\ man[b] # rgen => man'[b] = man[b]
      BY <1>3, MovedFile
    <2>4. FilesOK'
      BY <1>3, MovedType DEF IInv, FilesOK, DataFixed, ManFixed
    <2>5. SpoolOK'
      BY <1>3 DEF SpoolOK
    <2>6. SenderOK'
      BY <1>1, <1>3 DEF IInv, SenderOK, SenderStops
    <2>7. "spool" \notin Gens
      BY ConstantsAssumption DEF DataFixed
    <2>8. DirectoryInv'
      <3>1. \A g \in Gens : Pairs(g)' \subseteq Pairs(g)
        BY <2>3, <2>7 DEF Pairs
      <3>2. \A g \in Gens : sealed'[g] # {} => Pairs(g)' \subseteq sealed'[g]
        BY <1>1, <3>1 DEF IInv, DirectoryInv
      <3> QED
        BY <1>3, <2>2, <3>2 DEF DirectoryInv
    <2>9. FinalizedNeverLost'
      <3> SUFFICES ASSUME NEW b \in reported
                   PROVE  \/ data'[b] = "spool" /\ man'[b] = "spool"
                          \/ \E g \in Gens : /\ data'[b] = g /\ man'[b] = g
                                             /\ (g \in raw' \/ b \in sealed'[g])
        BY <1>1 DEF FinalizedNeverLost, Published, writerVars
      <3>1. b \in Batches
        BY ReportedPlace
      <3>2. CASE Published(b)
        BY <2>1, <2>3, <2>7, <3>1, <3>2 DEF Published
      <3>3. CASE ~Published(b)
        <4>1. PICK g \in Gens : /\ data[b] = g /\ man[b] = g
                                /\ (g \in raw \/ b \in sealed[g])
          BY <3>3 DEF IInv, FinalizedNeverLost
        <4> QED
          BY <1>1, <1>3, <2>3, <3>1, <4>1
      <3> QED
        BY <3>2, <3>3
    <2> QED
      BY <1>1, <2>1, <2>2, <2>4, <2>5, <2>6, <2>8, <2>9, SenderFrame
  <1> QED
    BY <1>2, <1>3 DEF Unwind

\* The builder seals a raw generation, and removes a raw directory once sealed.
LEMMA BuilderStep ==
    ASSUME IInv, Build \/ RemoveRaw
    PROVE  IInv'
  <1>1. UNCHANGED <<files, writerVars, lock, collectorVars, spool, next, sender, roll, rgen>>
    BY DEF Build, RemoveRaw
  <1>2. UNCHANGED <<data, man, reported, collector>>
    BY <1>1 DEF files, writerVars, collectorVars
  <1>3. FilesOK' /\ SpoolOK'
    BY <1>1, TypesKept
  <1>4. CASE Build
    <2>1. PICK g \in raw : sealed[g] = {} /\ sealed' = [sealed EXCEPT ![g] = Pairs(g)]
      BY <1>4 DEF Build
    <2>2. UNCHANGED raw
      BY <1>4 DEF Build
    <2>3. /\ g \in Gens /\ sealed'[g] = Pairs(g)
          /\ \A h \in Gens : h # g => sealed'[h] = sealed[h]
      BY <2>1 DEF IInv, SenderOK
    <2>4. sealed' \in [Gens -> SUBSET Batches]
      BY <2>1, <2>3 DEF IInv, SenderOK, Pairs
    <2>5. SenderOK'
      BY <1>1, <2>2, <2>4 DEF IInv, SenderOK
    <2>6. DirectoryInv'
      <3>1. \A h \in Gens : Pairs(h)' = Pairs(h)
        BY <1>2 DEF Pairs
      <3>2. \A h \in Gens : sealed'[h] # {} => Pairs(h)' \subseteq sealed'[h]
        BY <2>3, <3>1 DEF IInv, DirectoryInv
      <3>3. roll' = "next" => rgen' \notin raw' /\ sealed'[rgen'] = {} /\ spool'
        BY <1>1, <2>2, <2>3 DEF IInv, DirectoryInv
      <3> QED
        BY <1>1, <1>2, <3>2, <3>3 DEF IInv, DirectoryInv
    <2>7. FinalizedNeverLost'
      <3>1. \A h \in Gens : sealed[h] \subseteq sealed'[h]
        BY <2>1, <2>3
      <3> QED
        BY <1>2, <2>2, <3>1 DEF IInv, FinalizedNeverLost, Published
    <2> QED
      BY <1>1, <1>3, <2>5, <2>6, <2>7, SenderFrame
  <1>5. CASE RemoveRaw
    <2>1. PICK g \in raw : sealed[g] # {} /\ raw' = raw \ {g}
      BY <1>5 DEF RemoveRaw
    <2>2. UNCHANGED sealed
      BY <1>5 DEF RemoveRaw
    <2>3. SenderOK'
      BY <1>1, <2>1, <2>2 DEF IInv, SenderOK
    <2>4. DirectoryInv'
      <3>1. \A h \in Gens : Pairs(h)' = Pairs(h)
        BY <1>2 DEF Pairs
      <3> QED
        BY <1>1, <1>2, <2>1, <2>2, <3>1 DEF IInv, DirectoryInv
    <2>5. FinalizedNeverLost'
      <3>1. g \in Gens
        BY <2>1 DEF IInv, SenderOK
      <3>2. \A b \in Batches : data[b] = g => b \in sealed[g]
        BY <2>1, <3>1 DEF IInv, DirectoryInv, Pairs
      <3>3. reported \subseteq Batches
        BY DEF IInv, WritersOK
      <3> QED
        BY <1>2, <2>1, <2>2, <3>2, <3>3 DEF IInv, FinalizedNeverLost, Published
    <2> QED
      BY <1>1, <1>3, <2>3, <2>4, <2>5, SenderFrame
  <1> QED
    BY <1>4, <1>5

\* Every rollover, builder and lifecycle step of the sender preserves the invariant.
LEMMA SenderStep ==
    ASSUME IInv, Sender
    PROVE  IInv'
  BY RollStep, CompleteStep, FreezeStep, UnwindStep, BuilderStep DEF Sender

-----------------------------------------------------------------------------
(* The invariant and the theorems.                                         *)

\* A step that changes nothing preserves the invariant.
LEMMA StutterStep ==
    ASSUME IInv, UNCHANGED vars
    PROVE  IInv'
  <1>1. UNCHANGED <<files, writerVars, collectorVars, senderVars, lock, spool>>
    BY DEF vars, files, writerVars, collectorVars, senderVars
  <1>2. UNCHANGED <<data, man, reported, raw, sealed, roll, rgen>>
    BY DEF vars
  <1>3. SenderOK'
    BY <1>1, TypesKept
  <1>4. /\ roll' \in {"next", "frozen", "unwind"} => rgen' \in Gens
        /\ roll' = "next" => rgen' \notin raw /\ sealed[rgen'] = {} /\ spool
    BY <1>2 DEF IInv, DirectoryInv
  <1> QED
    BY <1>1, <1>2, <1>3, <1>4, SenderQuiet

\* The invariant holds initially: no file, no writer, an empty active spool.
LEMMA InitInv ==
    ASSUME Init
    PROVE  IInv
  <1>1. FilesOK /\ WritersOK /\ LockOK
    BY DEF Init, FilesOK, WritersOK, LockOK, DataFixed, ManFixed, WriterStates
  <1>2. litter \in BOOLEAN /\ SpoolOK
    BY DEF Init, SpoolOK
  <1>3. CollectorOK /\ SenderOK
    BY <1>2 DEF Init, CollectorOK, SenderOK
  <1>4. BoundaryInv
    BY DEF Init, BoundaryInv, Locked, Rolling, RecoveryPhases
  <1>5. WriterInv
    BY DEF Init, WriterInv, Active, Pending, Locked
  <1>6. DirectoryInv
    BY DEF Init, DirectoryInv, RecoveryPhases
  <1>7. OrphanInv /\ FinalizedNeverLost
    BY DEF Init, OrphanInv, FinalizedNeverLost
  <1> QED
    BY <1>1, <1>2, <1>3, <1>4, <1>5, <1>6, <1>7 DEF IInv

\* The inductive invariant holds in every reachable state.
THEOREM Invariance == Spec => []IInv
  <1>1. Init => IInv
    BY InitInv
  <1>2. IInv /\ [Next]_vars => IInv'
    BY WriterStep, CollectorStep, SenderStep, StutterStep DEF Next
  <1> QED
    BY <1>1, <1>2, PTL DEF Spec

\* Type correctness, for every instance of the constants.
THEOREM TypeCorrect == Spec => []TypeOK
  <1>1. IInv => TypeOK
    BY DEF IInv, FilesOK, WritersOK, LockOK, CollectorOK, SpoolOK, SenderOK, TypeOK
  <1> QED
    BY Invariance, <1>1, PTL

\* No crash, failed rename, startup recovery (service or one-shot), rollover,
\* rollback or raw-directory removal loses or splits a batch that a writer has
\* listed in FinalizedBatches.
THEOREM FinalizedSafe == Spec => []FinalizedNeverLost
  <1>1. IInv => FinalizedNeverLost
    BY DEF IInv
  <1> QED
    BY Invariance, <1>1, PTL

=============================================================================
