# Verification of File Intelligence (FI)

FI collects facts about files and security events on Windows sources, keeps them
in a local spool, ships the spool to a Linux receiver as sealed *generations*, and
ingests recorded generations into PostgreSQL. This directory holds TLA+ models of
the path every collected record takes, the TLC configurations that check them,
and TLAPS proofs of the properties that matter most. `PROJECT.json` maps each
definition to the lines of source it models.

## The system

| Part | State | Operations | Source | Module |
|---|---|---|---|---|
| Local spool | data and manifest file of each batch, in the work directory, the active spool, quarantine | append, finalize, publish (two renames), report | `internal/spool` | `SpoolPublication` |
| Spool recovery | the same files, found at start | complete, salvage, quarantine; one-shot preservation | `internal/spool` | `SpoolPublication` |
| Rollover and builder | active spool, `rollover-next`, `generation-raw`, sealed generations | freeze, promote, unwind, recover, seal, remove raw | `internal/transportsender`, `cmd/fi-sender` | `SpoolPublication`, `GenerationTransport` |
| Generation queue | stage root, reclaim tombstones, one transaction | offer, decision, transfer, acknowledgement, retire, reclaim | `internal/transportsender`, `cmd/fi-sender` | `GenerationTransport` |
| Receiver | custody objects, receipts, READY markers | receive, link, sync, record, acknowledge, startup re-recording | `internal/transportreceiver`, `internal/transportgeneration`, `internal/generationrecorder` | `GenerationTransport` |
| Ingest worker | READY markers, rows, ingest journal, cadence | startup, repair, READY and retry plans; attempts; reconnect | `cmd/fi-ingest-worker`, `internal/recordingest`, `internal/generationready` | `IngestWorker` |
| fi-ingest | one attempt | ingest one generation by hand | `cmd/fi-ingest` | `IngestWorker` |
| USN and Security lanes, checkpoints, service, brokers, journals, CRL refresh, batch transport | | | `cmd/fi`, `internal/windows/...`, `internal/transportcrl`, `internal/transportrecovery` | planned |
| Projection, collectors, records, trust, configuration, installer, release tooling, probes | | | | not modelled |

Parts meet at directories. The collector and the sender are different processes
that share the active spool under one lock, the publication boundary. Sender and
receiver talk over a connection that may break at any message. Receiver and worker
share receipts and READY markers without a lock. Worker and `fi-ingest` share the
database.

What makes this hard: a batch is two files and so two renames; a directory is
renamed under another process's feet; every step may be the last before a crash,
and on Linux a directory entry may vanish in a power failure until it is synced;
a reply may be lost after its request took effect; errors are classified after
the fact and retried.

## Modules

### SpoolPublication

`data[b]` and `man[b]` say where the two files of batch `b` are; a generation's
name is a place too. `wst`/`wbatch` is the control state of each spool writer,
`collector` that of the collector process (`RecoveryPhases` while it recovers the
spool), `lock` the holder of the publication boundary, `roll`/`rgen` the sender's
rollover, `raw` and `sealed` the outcome. `reported` is what writers have listed in
`FinalizedBatches`, the fact upon which source checkpoints advance.

One action is one file-system step: `PublishData` and `PublishManifest` are the two
renames of `publishPreparedBatch`, `Freeze` and `Promote` those of
`RolloverPublishedSpool`. `Faults` selects crashes of either process and failing
file operations; a crash may come between any two actions. `Modes` selects the
service start (startup recovery) or the one-shot start (preservation of orphans
without the boundary). Record contents, hashes and names are abstracted: a manifest
is incomplete, complete under a temporary name, or complete.

Assumed: a rename either happened or did not (replies of renames made by recovery
are not lost); generation IDs are fresh.

### GenerationDelivery and GenerationTransport

`GenerationDelivery` is the promise: a generation is produced once, held by the
source until the receiver has recorded it for good, and only then released.
`GenerationTransport` is the protocol: the sender's startup (reclaim, recover
build), builder goroutine (`b`) and queue loop (`q`), one `wire` message at a time,
and the receiver (`r`), whose custody objects and receipts are `none`, `volatile`
(linked, not synced) or `durable`. A power failure keeps any subset of the volatile
entries. `Oversize` generations are rejected by admission. Signatures are
randomized, so a generation sealed twice is two different objects and a permanent
custody conflict: `NeverResealed` is about that.

`DeliversGenerations` is `GenerationDelivery` under the mapping `produced` = frozen,
`held` = raw, built or active at the source, `recorded` = custody and receipt both
durable.

Assumed: the wall clock behind generation IDs does not go backwards; the removal of
a raw directory is on disk by the time its generation is retired; a receiver
process serves one transaction (it is started anew for each).

### IngestWorker

`receipts`, `ready`, `accepted` are sets of generations. The journal is reduced to
what the code reads of it: `rejections`, in the order of each generation's latest
rejection, of which the first `due` are older than RetryAfter; `aged` is what was
due when the worker read the clock at the start of its cycle. `content[g]` is what
the running release makes of a generation: projected, rejected, rejected with an
error that ends the worker (`miscounted`), failing validation (`damaged`), or
failing because a file does not exist (`missing`). `pc` and `kind` say which plan
the worker is making or processing; `at[p]` is the ingest attempt of the worker and
of `fi-ingest`, which takes no lock. `FinishPlan` is the end of `processPlan`
together with the cycle of `runPostgreSQLSession`.

Left out: backoff delays, the options Once and MaxAttempts that end a test run, and
relational identity conflicts, which no history of the modelled programs produces.

## Runs

| Run | What it shows | Bounds |
|---|---|---|
| `spool_safety` | reported batches survive; generations hold whole pairs; every interrupted publication can be completed; complete batches are not quarantined | 2 writers, 3 batches, 2 generations, service start, all faults |
| `spool_once` | a reported batch survives one-shot preservation too; a batch is sealed once, if sender renames do not fail | 2 writers, 2 batches, both starts, crashes of both processes, failing collector operations |
| `spool_live` | leftovers are published; published batches are sealed | 1 writer, 2 batches, collector crashes |
| `transport_safety` | nothing lost, resealed, in two places or recorded out of order; implements `GenerationDelivery` | 3 generations, the last inadmissible, 3 faults of any kind |
| `transport_live` | every frozen generation is delivered, and announced before it is released | 2 generations, 2 faults, no failing receiver operations (a marker that cannot be written is only a warning) |
| `ingest_faults` | an announced generation is marked, ingested or journaled; no early retry | 2 generations of any content, 2 faults |
| `ingest_manual` | the same beside `fi-ingest` | no faults |
| `ingest_live` | what can be projected is ingested | 2 generations, 1 fault |

Two writers are needed for contention on the boundary and three batches for a
published, a half-published and a leftover one at once. Three generations let one be
built, one sent and one recorded. `ReadyBatchSize` and `RetryBatchSize` are 1, so that
two generations fill a plan, and `CleanTarget` is 2 (6 in the code), so that a count
below and at the target occur. `clean` is capped one above the target: beyond it the
code only increments.

Four runs expect a violation. Each checks one sentence of a document or a comment
against the code:

| Run | The sentence | What happens |
|---|---|---|
| `spool_v_sealing` | the active spool is replaced before sealing begins | the builder takes the frozen directory before the replacement is promoted |
| `spool_v_rollover` | an interrupted rollover is repaired with its `rollover-next` | if promotion and restore both fail, that directory is deleted |
| `spool_v_oneshot` | an interrupted publication is completed | the one-shot start moves its data away first |
| `ingest_v_closed` | non-availability errors fail closed | ENOENT of a local file is taken for a lost connection |

`ingest_v_closed` turns a missing file into an endless reconnect loop. Two smaller
disagreements met while modelling have no run of their own. A writer whose boundary
release failed after both renames retries by reopening the published pair, which the
sender may have taken (`docs/LOCAL-SPOOL-INTEGRITY.md`, line 30). A repair sweep
between a receipt and its READY marker counts the new generation as unexpected and
resets the cadence (`docs/PHASE-3-INGEST-WORKER-OPERATING-CONTRACT.md`, line 170).

## Fairness

Weak fairness of a step says that a running process executes. Start actions are
fair because collector, sender, receiver and worker are services that are restarted
(systemd's limit on the rate of restarts is not modelled). Acquiring the publication
boundary and what needs it has strong fairness: the lock is free again and again, and
waiting for it is a retry loop. Startup recovery of the spool has strong fairness as
well: a collector that keeps dying is assumed to get through a step of it sometimes.
Faults are never fair and, in the transport and ingest runs, finitely many. Time
passes (`RetryAfterPasses`, `RepairIntervalPasses`).

`RecordedIsIngested` is stated for good and rejected generations. A damaged one ends
the worker each time it is attempted, and plans are sorted, so those behind it wait for
an operator; a miscounted one delays the others unless RetryAfter outlasts a
restart.

## Proofs

`SpoolPublicationProofs` proves `Spec => []TypeOK` and `Spec => []FinalizedNeverLost`
for all writers, batches, generations, faults and start modes. `FinalizedNeverLost` is
not inductive: a writer about to report must be known to own its batch and to hold the
boundary. `IInv` adds who holds the boundary (`BoundaryInv`), what a writer knows of
its batch (`WriterInv`), what the directories hold (`DirectoryInv`: nothing is in a
spool that does not exist, a sealed generation has all its raw directory had) and that
orphans are not reported (`OrphanInv`).

`GenerationTransportProofs` proves types, `NothingLost` and the refinement of
`GenerationDelivery` for all generations, admission limits and numbers of faults. What
authorizes a retirement is a message about files that only the receiver sees, so `TInv`
says what each party knows of the others: where the source has a generation
(`SourceInv`), what the sender has been told (`SenderInv`), what a message in flight
asserts (`WireInv`), what the receiver has linked and synced when it says so
(`ReceiverInv`), and that the store holds frozen generations (`StoreInv`).

Both proofs go the same way. Frame lemmas (`...Kept`, `...Frame`) state once what keeps
each part of the invariant when a step leaves its variables alone; the step lemmas, one
for each group of actions, then show only what their actions disturb.

Only model-checked: all liveness (fairness and ENABLED are out of the prover's reach),
the other spool and transport properties, and `IngestWorker`.

## Not modelled

Certificates, signatures, compression, parsing, record fields and their projection
are stateless and appear as success or failure. Collectors read operating-system
interfaces. The installer is a sequential transaction over system settings.
`PROJECT.json` gives the reason for each part.

## Plan

1. USN lane with its checkpoint: read boundary, spool, finalize, checkpoint, gap; the
   abstract promise that a checkpoint never passes a record that was not reported,
   composed with `FinalizedNeverLost`.
2. Windows Security lane: bookmark, coverage, continuity gap, checkpoint.
3. CRL activation: replacement of the active list and its crash points.
4. Batch transport and its recovery.
5. Service lifecycle, operation and resource journals, brokers.
6. Installer approvals, if the runtime leaves room.
7. Proofs: `NothingForgotten` of the ingest worker (markers to be retired are accepted
   or rejected), `GenerationsHoldWholePairs` and `InterruptedPublicationCompletable` for
   the service start, `OnePlace` and `NeverResealed` of the transport, the lanes'
   checkpoint invariants.
