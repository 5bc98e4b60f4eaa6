---------------------------- MODULE IngestWorker ----------------------------
(***************************************************************************)
(* Relational ingest of recorded generations: the receiver's receipts and  *)
(* READY markers, the fi-ingest-worker service with its plans (startup,    *)
(* repair, READY, due retries), its PostgreSQL sessions and its repair     *)
(* cadence, and the fi-ingest command an operator may run beside it.       *)
(*                                                                         *)
(* The ingest journal is abstracted to what the code reads from it: the    *)
(* generations with a durable rejection, in the order of their latest      *)
(* rejection, of which the first `due' are old enough to be retried.       *)
(***************************************************************************)
EXTENDS Integers, FiniteSets, Sequences, SequencesExt

CONSTANTS
    Gens,            \* generation IDs
    Contents,        \* what recorded generations may hold: a subset of ContentKinds
    ReadyBatchSize,  \* markers one READY plan takes
    RetryBatchSize,  \* generations one retry plan takes
    CleanTarget,     \* repairValidationCleanTarget
    Faults,          \* which faults happen: a subset of FaultKinds
    MaxFaults,       \* how many of them
    Manual,          \* whether fi-ingest is run
    None

\* A generation is projected; or a record of it is rejected; or its records do
\* not add up to the receipt; or its custody does not validate, or a file the
\* load needs does not exist.
ContentKinds == {"good", "bad", "miscounted", "damaged", "missing"}

\* The database connection breaks; a statement fails on a connection that stays;
\* the worker's process dies; READY markers cannot be removed.
FaultKinds == {"dbLoss", "dbError", "crash", "readyIO"}

ASSUME IngestAssumption ==
    /\ Gens \subseteq Nat /\ None \notin Gens
    /\ Contents \subseteq ContentKinds
    /\ ReadyBatchSize \in Nat \ {0} /\ RetryBatchSize \in Nat \ {0}
    /\ CleanTarget \in Nat \ {0}
    /\ Faults \subseteq FaultKinds /\ MaxFaults \in Nat
    /\ Manual \in BOOLEAN

VARIABLES
    receipts,    \* recorder receipts
    ready,       \* READY markers
    announced,   \* generations whose marker was ever published
    content,     \* what this release of the projector makes of a generation
    accepted,    \* rows of fi.recorded_generation
    rejections,  \* generations with a durable rejection, latest last
    due,         \* for how many of them RetryAfter has passed
    aged,        \* those for which it had when the worker's cycle began
    at, gen,     \* ingest attempt of each process, and its generation
    pc, kind,    \* worker control state and the plan it is at
    todo,        \* pending items of the plan
    retire,      \* READY markers to be removed when the plan is done
    anomaly,     \* assessment of the current repair plan
    mode, clean, \* repair cadence
    repairDue,   \* the repair interval has passed
    faults

journal == <<rejections, due, aged>>
database == <<accepted, journal>>
attempts == <<at, gen>>
planVars == <<todo, retire, anomaly>>
cadence == <<mode, clean, repairDue>>
worker == <<pc, kind, todo, retire, anomaly, mode, clean, repairDue>>
recorder == <<receipts, announced, content>>
vars == <<receipts, ready, announced, content, accepted, rejections, due, aged, at, gen,
          pc, kind, todo, retire, anomaly, mode, clean, repairDue, faults>>

Procs == {"worker", "manual"}
Outcomes == {"accepted", "rejected", "failed", "unavailable"}
Planning == {"plan", "assess", "select", "items"}

TypeOK ==
    /\ receipts \subseteq Gens /\ ready \subseteq Gens /\ announced \subseteq Gens
    /\ content \in [Gens -> ContentKinds]
    /\ accepted \subseteq Gens
    /\ rejections \in Seq(Gens) /\ IsInjective(rejections)
    /\ due \in 0 .. Len(rejections) /\ aged \subseteq Gens
    /\ at \in [Procs -> {"idle", "started", "loaded", "absent", "inserted"} \cup Outcomes]
    /\ gen \in [Procs -> Gens \cup {None}]
    /\ pc \in {"down", "connect"} \cup Planning
    /\ kind \in {"startup", "repair", "ready", "retry"}
    /\ todo \in Seq(Gens) /\ IsInjective(todo)
    /\ retire \subseteq Gens
    /\ anomaly \in BOOLEAN
    /\ mode \in {"Validation", "Intermediate", "Steady"}
    /\ clean \in 0 .. CleanTarget + 1
    /\ repairDue \in BOOLEAN
    /\ faults \in 0 .. MaxFaults

Init ==
    /\ receipts = {} /\ ready = {} /\ announced = {}
    /\ content \in [Gens -> Contents]
    /\ accepted = {} /\ rejections = <<>> /\ due = 0 /\ aged = {}
    /\ at = [p \in Procs |-> "idle"] /\ gen = [p \in Procs |-> None]
    /\ pc = "down" /\ kind = "startup"
    /\ todo = <<>> /\ retire = {} /\ anomaly = FALSE
    /\ mode = "Validation" /\ clean = 0 /\ repairDue = FALSE
    /\ faults = 0

Fault(f) ==
    /\ f \in Faults
    /\ faults < MaxFaults
    /\ faults' = faults + 1

Rejected == ToSet(rejections)
Sorted(S) == SetToSortSeq(S, <)

-----------------------------------------------------------------------------
(* Environment: the receiver, time, releases.                              *)

\* The receiver publishes a receipt, and only then its READY marker; the marker
\* is published again when the source repeats the transfer.
RecordReceipt(g) ==
    /\ g \notin receipts
    /\ receipts' = receipts \cup {g}
    /\ UNCHANGED <<ready, announced, content, database, attempts, worker, faults>>

PublishReady(g) ==
    /\ g \in receipts \ ready
    /\ ready' = ready \cup {g}
    /\ announced' = announced \cup {g}
    /\ UNCHANGED <<receipts, content, database, attempts, worker, faults>>

\* RetryAfter has passed for the oldest rejection that was still recent.
RetryAfterPasses ==
    /\ due < Len(rejections)
    /\ due' = due + 1
    /\ UNCHANGED <<recorder, ready, accepted, rejections, aged, attempts, worker, faults>>

RepairIntervalPasses ==
    /\ pc \in Planning /\ ~repairDue
    /\ repairDue' = TRUE
    /\ UNCHANGED <<recorder, ready, database, attempts, pc, kind, planVars, mode,
                   clean, faults>>

\* A new release understands a generation the old one rejected.
Release(g) ==
    /\ pc = "down" /\ at["manual"] = "idle"
    /\ content[g] \in {"bad", "miscounted"}
    /\ content' = [content EXCEPT ![g] = "good"]
    /\ UNCHANGED <<receipts, ready, announced, database, attempts, worker, faults>>

-----------------------------------------------------------------------------
(* One ingest attempt: attemptGeneration of the worker, or fi-ingest.      *)

Step(p, state) == at' = [at EXCEPT ![p] = state]

\* Mutant: earlier rejections of the generation stay in the result.
JournalRejectionEach(g) ==
    /\ rejections' = Append(rejections, g)
    /\ due' = due
    /\ aged' = aged \ {g}

\* A terminal SOURCE_RECORD_REJECTED event is the generation's latest rejection.
JournalRejection(g) ==
    /\ rejections' = Append(SelectSeq(rejections, LAMBDA h : h # g), g)
    /\ due' = Cardinality({i \in 1 .. due : rejections[i] # g})
    /\ aged' = aged \ {g}

\* WriteAttemptStarted.
StartAttempt(p, g) ==
    /\ at[p] = "idle"
    /\ Step(p, "started")
    /\ gen' = [gen EXCEPT ![p] = g]

\* LoadRecordedGeneration.  A failure is journaled and ends the attempt; an
\* error that wraps ENOENT or an unexpected EOF passes for PostgreSQL being away.
LoadGeneration(p) ==
    /\ at[p] = "started"
    /\ Step(p, CASE content[gen[p]] = "damaged" -> "failed"
                 [] content[gen[p]] = "missing" -> "unavailable"
                 [] OTHER -> "loaded")
    /\ UNCHANGED <<recorder, ready, database, gen, worker, faults>>

\* The transaction begins with lookupRecordedGeneration: AlreadyAccepted, or not.
LookupGeneration(p) ==
    /\ at[p] = "loaded"
    /\ Step(p, IF gen[p] \in accepted THEN "accepted" ELSE "absent")
    /\ UNCHANGED <<recorder, ready, database, gen, worker, faults>>

\* The unique key of fi.recorded_generation makes the insert wait for another
\* uncommitted one, and fail when that was committed.
InsertGeneration(p) ==
    /\ at[p] = "absent"
    /\ \A r \in Procs \ {p} : ~(at[r] = "inserted" /\ gen[r] = gen[p])
    /\ Step(p, IF gen[p] \in accepted THEN "failed" ELSE "inserted")
    /\ UNCHANGED <<recorder, ready, database, gen, worker, faults>>

\* What the rest of the transaction leaves in the database: the generation with
\* its Accepted event or, after a rollback, a rejection.
Conclude(p) ==
    \/ /\ content[gen[p]] = "good"
       /\ accepted' = accepted \cup {gen[p]}
       /\ UNCHANGED journal
    \/ /\ content[gen[p]] \in {"bad", "miscounted"}
       /\ JournalRejection(gen[p])
       /\ UNCHANGED accepted

\* A record count that differs from the receipt is journaled as a rejection but
\* returned as another error.
FinishTransaction(p) ==
    /\ at[p] = "inserted"
    /\ Conclude(p)
    /\ Step(p, CASE content[gen[p]] = "good" -> "accepted"
                 [] content[gen[p]] = "bad" -> "rejected"
                 [] OTHER -> "failed")
    /\ UNCHANGED <<recorder, ready, gen, worker, faults>>

\* A statement fails and the transaction is rolled back.  While source records
\* are inserted and projected the failure is journaled as a rejection of the
\* record, and returned as one if it was the projection that failed.
StatementFails(p) ==
    /\ at[p] \in {"loaded", "absent", "inserted"}
    /\ Fault("dbError")
    /\ \/ /\ Step(p, "failed")
          /\ UNCHANGED database
       \/ /\ at[p] = "inserted"
          /\ JournalRejection(gen[p])
          /\ \E outcome \in {"rejected", "failed"} : Step(p, outcome)
          /\ UNCHANGED accepted
    /\ UNCHANGED <<recorder, ready, gen, worker>>

Attempt(p) ==
    \/ LoadGeneration(p) \/ LookupGeneration(p) \/ InsertGeneration(p)
    \/ FinishTransaction(p)

EndAttempt(p) ==
    /\ at' = [at EXCEPT ![p] = "idle"]
    /\ gen' = [gen EXCEPT ![p] = None]

\* fi-ingest does not take the worker's lock.
ManualStart(g) ==
    /\ Manual
    /\ g \in receipts
    /\ StartAttempt("manual", g)
    /\ UNCHANGED <<recorder, ready, database, worker, faults>>

\* It returns, or is killed and PostgreSQL rolls its transaction back.
ManualExit ==
    /\ at["manual"] # "idle"
    /\ EndAttempt("manual")
    /\ UNCHANGED <<recorder, ready, database, worker, faults>>

-----------------------------------------------------------------------------
(* Worker: sessions and plans.                                             *)

WorkerStart ==
    /\ pc = "down"
    /\ pc' = "connect"
    /\ UNCHANGED <<recorder, ready, database, attempts, kind, planVars, cadence, faults>>

\* runPostgreSQLSession starts with a new cadence and a full plan.
Connect ==
    /\ pc = "connect"
    /\ pc' = "plan" /\ kind' = "startup"
    /\ mode' = "Validation" /\ clean' = 0 /\ repairDue' = FALSE
    /\ UNCHANGED <<recorder, ready, database, attempts, planVars, faults>>

\* Mutant: the repair plan goes by the markers.
PlanRecordedFromReady ==
    /\ pc = "plan" /\ kind \in {"startup", "repair"}
    /\ todo' = Sorted(ready \ accepted)
    /\ retire' = {}
    /\ pc' = IF kind = "repair" THEN "assess" ELSE "select"
    /\ UNCHANGED <<recorder, ready, database, attempts, kind, anomaly, cadence, faults>>

\* PlanRecordedGenerationsForIngest compares every receipt with the database.
PlanRecorded ==
    /\ pc = "plan" /\ kind \in {"startup", "repair"}
    /\ todo' = Sorted(receipts \ accepted)
    /\ retire' = {}
    /\ pc' = IF kind = "repair" THEN "assess" ELSE "select"
    /\ UNCHANGED <<recorder, ready, database, attempts, kind, anomaly, cadence, faults>>

\* assessRepairPlan: a pending generation with neither a durable rejection nor a
\* READY marker is an anomaly.
AssessRepairPlan ==
    /\ pc = "assess"
    /\ anomaly' = ~(ToSet(todo) \subseteq Rejected \cup ready)
    /\ pc' = "select"
    /\ UNCHANGED <<recorder, ready, database, attempts, kind, todo, retire, cadence, faults>>

\* readyPlan: a bounded number of markers in directory order.
ReadyPlan ==
    /\ pc = "plan" /\ kind = "ready"
    /\ \E names \in SUBSET ready :
         /\ Cardinality(names) <= ReadyBatchSize
         /\ Cardinality(names) < ReadyBatchSize => names = ready
         /\ todo' = Sorted(names \ accepted)
         /\ retire' = names \cap accepted
    /\ pc' = "select"
    /\ UNCHANGED <<recorder, ready, database, attempts, kind, anomaly, cadence, faults>>

\* dueRetryPlan: the longest rejected first, as of the time the cycle began.
DueRetryPlan ==
    /\ pc = "plan" /\ kind = "retry"
    /\ LET old == SelectSeq(rejections, LAMBDA g : g \in aged \ accepted)
       IN  todo' = SubSeq(old, 1, IF Len(old) < RetryBatchSize THEN Len(old)
                                                               ELSE RetryBatchSize)
    /\ retire' = {}
    /\ pc' = "select"
    /\ UNCHANGED <<recorder, ready, database, attempts, kind, anomaly, cadence, faults>>

Recent(g) == \E i \in due + 1 .. Len(rejections) : rejections[i] = g

\* Mutant: a recently rejected generation is attempted all the same.
SelectPendingAll ==
    /\ pc = "select"
    /\ retire' = IF kind = "ready" THEN retire \cup {g \in ToSet(todo) : Recent(g)}
                                   ELSE retire
    /\ pc' = "items"
    /\ UNCHANGED <<recorder, ready, database, attempts, kind, todo, anomaly, cadence, faults>>

\* selectPending: recently rejected generations are deferred, and their markers
\* retired, because the journal has them.
SelectPending ==
    /\ pc = "select"
    /\ todo' = SelectSeq(todo, LAMBDA g : ~Recent(g))
    /\ retire' = IF kind = "ready" THEN retire \cup {g \in ToSet(todo) : Recent(g)}
                                   ELSE retire
    /\ pc' = "items"
    /\ UNCHANGED <<recorder, ready, database, attempts, kind, anomaly, cadence, faults>>

BeginItem ==
    /\ pc = "items" /\ todo # <<>>
    /\ StartAttempt("worker", Head(todo))
    /\ UNCHANGED <<recorder, ready, database, worker, faults>>

\* Mutant: every attempted generation is done with.
FinishItemAnyOutcome ==
    /\ pc = "items" /\ at["worker"] \in Outcomes
    /\ retire' = IF kind = "ready" THEN retire \cup {gen["worker"]} ELSE retire
    /\ todo' = Tail(todo)
    /\ EndAttempt("worker")
    /\ UNCHANGED <<recorder, ready, database, pc, kind, anomaly, cadence, faults>>

\* An accepted generation, or a rejection found in the journal: the READY marker
\* is done with.
FinishItem ==
    /\ pc = "items" /\ at["worker"] \in {"accepted", "rejected"}
    /\ retire' = IF kind = "ready" THEN retire \cup {gen["worker"]} ELSE retire
    /\ todo' = Tail(todo)
    /\ EndAttempt("worker")
    /\ UNCHANGED <<recorder, ready, database, pc, kind, anomaly, cadence, faults>>

\* runPostgreSQLSession returns an error; runWorker reconnects, or exits.
LeaveSession(state) ==
    /\ pc' = state
    /\ todo' = <<>> /\ retire' = {} /\ anomaly' = FALSE
    /\ EndAttempt("worker")

\* Any other outcome: the markers collected so far are removed and the error is
\* returned.
FailItem ==
    /\ pc = "items" /\ at["worker"] \in {"failed", "unavailable"}
    /\ ready' = ready \ retire
    /\ LeaveSession(IF at["worker"] = "unavailable" THEN "connect" ELSE "down")
    /\ UNCHANGED <<recorder, database, kind, cadence, faults>>

\* repairCadence.Observe.
Observe ==
    IF anomaly
    THEN mode' = "Validation" /\ clean' = 0
    ELSE /\ clean' = IF clean > CleanTarget THEN clean ELSE clean + 1
         /\ mode' = CASE mode = "Validation" /\ clean + 1 >= CleanTarget -> "Intermediate"
                      [] mode = "Intermediate" -> "Steady"
                      [] OTHER -> mode

\* flushReady, the cadence, and the next plan of the session.  A cycle begins
\* by reading the clock.
FinishPlan ==
    /\ pc = "items" /\ todo = <<>>
    /\ ready' = ready \ retire
    /\ retire' = {}
    /\ anomaly' = FALSE
    /\ \/ /\ kind = "repair"
          /\ Observe
          /\ repairDue' = FALSE
          /\ kind' = "retry"
          /\ UNCHANGED aged
       \/ /\ kind = "ready"
          /\ kind' = "retry"
          /\ UNCHANGED <<cadence, aged>>
       \/ /\ kind \in {"startup", "retry"}
          /\ kind' = IF repairDue THEN "repair" ELSE "ready"
          /\ aged' = {rejections[i] : i \in 1 .. due}
          /\ UNCHANGED cadence
    /\ pc' = "plan"
    /\ UNCHANGED <<recorder, accepted, rejections, due, attempts, todo, faults>>

\* RemoveReceiptNames fails part of the way.
FlushFails ==
    /\ pc = "items" /\ todo = <<>>
    /\ Fault("readyIO")
    /\ \E removed \in SUBSET retire : ready' = ready \ removed
    /\ LeaveSession("down")
    /\ UNCHANGED <<recorder, database, kind, cadence>>

\* The worker is at a statement on its connection.
Querying ==
    \/ pc = "plan" /\ (kind = "ready" => ready # {})
    \/ pc \in {"assess", "select"} /\ todo # <<>>
    \/ pc = "items" /\ todo # <<>> /\ at["worker"] # "accepted"

\* The database connection breaks: the statement in progress has no effect, or
\* it has and its reply is lost.  processPlan removes the markers it is done
\* with, and runWorker reconnects.
SessionLost ==
    /\ Querying
    /\ Fault("dbLoss")
    /\ \/ UNCHANGED database
       \/ at["worker"] = "inserted" /\ Conclude("worker")
    /\ ready' = IF pc = "items" THEN ready \ retire ELSE ready
    /\ LeaveSession("connect")
    /\ UNCHANGED <<recorder, kind, cadence>>

WorkerCrash ==
    /\ pc # "down"
    /\ Fault("crash")
    /\ LeaveSession("down")
    /\ UNCHANGED <<recorder, ready, database, kind, cadence>>

Worker ==
    \/ WorkerStart \/ Connect \/ PlanRecorded \/ AssessRepairPlan \/ ReadyPlan
    \/ DueRetryPlan \/ SelectPending \/ BeginItem \/ FinishItem \/ FailItem
    \/ FinishPlan \/ FlushFails \/ SessionLost \/ WorkerCrash

Next ==
    \/ \E g \in Gens : RecordReceipt(g) \/ PublishReady(g) \/ Release(g) \/ ManualStart(g)
    \/ RetryAfterPasses \/ RepairIntervalPasses
    \/ \E p \in Procs : Attempt(p) \/ StatementFails(p)
    \/ ManualExit
    \/ Worker

Spec == Init /\ [][Next]_vars

-----------------------------------------------------------------------------
(* Properties.                                                             *)

\* processPlan: a READY marker is retired only for a generation that is in the
\* database or has a durable rejection, whatever statement the connection was
\* lost at and whatever fi-ingest did meanwhile.
NothingForgotten == announced \subseteq ready \cup accepted \cup Rejected

\* selectPending: the worker never attempts a generation again before RetryAfter
\* has passed since its latest rejection.
RetryAfterRespected ==
    [][\A g \in Gens :
          gen["worker"] = None /\ gen'["worker"] = g => ~Recent(g)]_vars

\* PHASE-3-INGEST-WORKER-OPERATING-CONTRACT: "authentication, database identity,
\* schema/foundation, privilege, relational-conflict, and other non-availability
\* errors remain fail-closed": a session that did not lose its connection ends
\* the worker, and does not make it reconnect.
NonAvailabilityFailsClosed ==
    [][(pc \in Planning /\ pc' = "connect") => faults' > faults]_vars

-----------------------------------------------------------------------------
(* Fairness: systemd restarts the worker, PostgreSQL comes back, time      *)
(* passes, and processes that can run do.                                  *)

Fairness ==
    /\ WF_vars(WorkerStart) /\ WF_vars(Connect) /\ WF_vars(PlanRecorded)
    /\ WF_vars(AssessRepairPlan) /\ WF_vars(ReadyPlan) /\ WF_vars(DueRetryPlan)
    /\ WF_vars(SelectPending) /\ WF_vars(BeginItem) /\ WF_vars(FinishItem)
    /\ WF_vars(FailItem) /\ WF_vars(FinishPlan)
    /\ WF_vars(Attempt("worker")) /\ WF_vars(Attempt("manual")) /\ WF_vars(ManualExit)
    /\ WF_vars(RetryAfterPasses) /\ WF_vars(RepairIntervalPasses)

FairSpec == Spec /\ Fairness

\* A recorded generation that can be projected is ingested in the end: also when
\* its READY marker was never published (the repair plan finds it), when it was
\* rejected by an earlier release (the retry plan does), when the database goes
\* away in between, and beside generations that keep being rejected.
RecordedIsIngested ==
    \A g \in Gens : (g \in receipts /\ content[g] = "good") ~> g \in accepted

=============================================================================
