--------------------------- MODULE IcebergCommitter ---------------------------
(***************************************************************************)
(* How the Iceberg output writes one table: Router.writeWithRetry and      *)
(* doWrite (router.go), writer.Write (writer.go) and the committer         *)
(* (committer.go) under src/internal/impl/iceberg, on top of the Batcher.  *)
(*                                                                         *)
(* Every call of Route writes a data file under a fresh name, registers it *)
(* in the table through the committer, and removes it again when that      *)
(* fails.  Appends go through the batcher and are coalesced; batches with  *)
(* equality deletes (Keyed calls) commit on their own (commitRowDelta).    *)
(*                                                                         *)
(* The catalog is external: a commit is accepted when it is based on the   *)
(* current snapshot, and its reply may be lost.  A change of schema makes  *)
(* no new snapshot.                                                        *)
(***************************************************************************)
EXTENDS Batcher, FiniteSets

CONSTANTS
    Calls,          \* concurrent calls of Route
    Keyed,          \* those whose batch holds upserts or deletes
    MaxRetries,     \* commit.max_retries
    LandedConflict, \* may ErrCommitFailed be reported for a commit that landed?
    MaxFaults       \* bound: lost replies, failed loads and writes, cancelled
                    \* calls and changes by other processes, together

ASSUME CallsAssumption == Keyed \subseteq Calls /\ {"none", "batcher"} \cap Calls = {}
ASSUME RetriesAssumption == MaxRetries \in Nat /\ MaxFaults \in Nat
ASSUME LandedAssumption == LandedConflict \in BOOLEAN
\* A data file has a fresh name in each of the (at most two) attempts of a
\* call, and is submitted once.
ASSUME RequestsAssumption == Requests = Calls \X (1 .. 2)

VARIABLES
    \* the catalog and the object store
    snapshot,     \* number of the current snapshot
    schema,       \* the current schema
    registered,   \* [Requests -> Nat]: references to a file in the snapshot
    pending,      \* commits without a reply that the catalog may still apply
    stored,       \* files in the object store
    \* the table's entry of the router
    writerSchema, \* schema of writer.table; NoWriter when there is no writer
    table,        \* the committer's cached table
    job,          \* the commit that holds commitMu
    \* the calls of Route
    pc,           \* where a call is
    attempt,      \* which attempt of writeWithRetry
    fileSchema,   \* the schema its file was written with
    ctxDone,      \* calls whose context is cancelled
    faults

catalogVars == <<snapshot, schema, registered, pending>>
callVars == <<pc, attempt, fileSchema>>
vars == <<catalogVars, stored, writerSchema, table, job, callVars, ctxDone, faults,
          batcherVars>>

NoWriter == -1
NoJob == [by |-> "none", files |-> {}, tries |-> 0, reloaded |-> FALSE, stage |-> "idle"]

File(w) == <<w, attempt[w]>>
Registered == {f \in Requests : registered[f] > 0}

\* Table.LoadTable: what the catalog knows now.
LoadTable == [snap |-> snapshot, schema |-> schema, files |-> Registered]

\* Who holds entry.mu: writer.Write runs under RLock, createWriter and
\* closeWriter under Lock.
Readers == {w \in Calls : pc[w] \in {"submit", "wait", "delta", "commit", "cleanup"}}
Exclusive == {w \in Calls : pc[w] \in {"load", "closing"}}

MayLock == Readers = {} /\ Exclusive = {}

TypeOK ==
    /\ BatcherTypeOK
    /\ snapshot \in Nat /\ schema \in Nat
    /\ registered \in [Requests -> Nat]
    /\ \A p \in pending : p.snap \in Nat /\ p.files \subseteq Requests
    /\ stored \subseteq Requests
    /\ writerSchema \in Nat \cup {NoWriter}
    /\ table.snap \in Nat /\ table.schema \in Nat /\ table.files \subseteq Requests
    /\ job \in [by : Calls \cup {"none", "batcher"}, files : SUBSET Requests,
                tries : Nat, reloaded : BOOLEAN,
                stage : {"idle", "try", "reload", "fatal"}]
    /\ pc \in [Calls -> {"idle", "attempt", "load", "submit", "wait", "delta", "commit",
                         "cleanup", "close", "closing", "ok", "failed"}]
    /\ attempt \in [Calls -> 1 .. 2]
    /\ fileSchema \in [Calls -> Nat]
    /\ ctxDone \subseteq Calls
    /\ faults \in 0 .. MaxFaults

Init ==
    /\ BatcherInit
    /\ snapshot = 0 /\ schema = 0
    /\ registered = [f \in Requests |-> 0]
    /\ pending = {}
    /\ stored = {}
    /\ writerSchema = NoWriter
    /\ table = LoadTable
    /\ job = NoJob
    /\ pc = [w \in Calls |-> "idle"]
    /\ attempt = [w \in Calls |-> 1]
    /\ fileSchema = [w \in Calls |-> 0]
    /\ ctxDone = {}
    /\ faults = 0

\* Something goes wrong; once the context concerned is cancelled it may do so
\* without end.
Fault(free) == IF free THEN UNCHANGED faults
               ELSE faults < MaxFaults /\ faults' = faults + 1

Goto(w, where) == pc' = [pc EXCEPT ![w] = where]
-----------------------------------------------------------------------------
(* The world outside.                                                      *)

\* Another process commits, or changes the schema.
ForeignCommit ==
    /\ Fault(FALSE)
    /\ snapshot' = snapshot + 1
    /\ UNCHANGED <<schema, registered, pending, stored, writerSchema, table, job, callVars,
                   ctxDone, batcherVars>>

ForeignEvolve ==
    /\ Fault(FALSE)
    /\ schema' = schema + 1
    /\ UNCHANGED <<snapshot, registered, pending, stored, writerSchema, table, job, callVars,
                   ctxDone, batcherVars>>

\* The catalog's side of a commit of files: it makes the next snapshot.
Land(files) ==
    /\ snapshot' = snapshot + 1
    /\ registered' = [f \in Requests |-> IF f \in files THEN registered[f] + 1
                                                        ELSE registered[f]]

\* A commit whose reply was given up is applied after all, or found outdated.
LateLanding ==
    \E p \in pending :
        /\ pending' = pending \ {p}
        /\ IF p.snap = snapshot THEN Land(p.files) ELSE UNCHANGED <<snapshot, registered>>
        /\ UNCHANGED <<schema, stored, writerSchema, table, job, callVars, ctxDone, faults,
                       batcherVars>>

\* The engine cancels a call.
Cancel(w) ==
    /\ w \notin ctxDone
    /\ pc[w] \notin {"idle", "ok", "failed"}
    /\ Fault(FALSE)
    /\ ctxDone' = ctxDone \cup {w}
    /\ UNCHANGED <<catalogVars, stored, writerSchema, table, job, callVars, batcherVars>>

-----------------------------------------------------------------------------
(* Router.writeWithRetry and doWrite.                                      *)

Route(w) ==
    /\ pc[w] = "idle"
    /\ Goto(w, "attempt")
    /\ UNCHANGED <<catalogVars, stored, writerSchema, table, job, attempt, fileSchema, ctxDone,
                   faults, batcherVars>>

\* doWrite finds no writer: createWriter, under Lock, loads the table for the
\* writer ...
LoadWriterTable(w) ==
    /\ pc[w] = "attempt"
    /\ writerSchema = NoWriter
    /\ MayLock
    /\ writerSchema' = schema
    /\ Goto(w, "load")
    /\ UNCHANGED <<catalogVars, stored, table, job, attempt, fileSchema, ctxDone, faults,
                   batcherVars>>

\* ... and once more for the committer, whose batcher it starts; Lock is
\* released and doWrite looks for the writer again.
LoadCommitterTable(w) ==
    /\ pc[w] = "load"
    /\ table' = LoadTable
    /\ NewBatcher
    /\ Goto(w, "attempt")
    /\ UNCHANGED <<catalogVars, stored, writerSchema, job, attempt, fileSchema, ctxDone, faults>>

\* One of the loads fails: doWrite returns the error.
LoadFails(w) ==
    /\ pc[w] = "load"
    /\ Fault(w \in ctxDone)
    /\ writerSchema' = NoWriter
    /\ Goto(w, "close")
    /\ UNCHANGED <<catalogVars, stored, table, job, attempt, fileSchema, ctxDone, batcherVars>>

\* doWrite finds a writer and, under RLock, writer.Write writes the data file.
WriteDataFiles(w) ==
    /\ pc[w] = "attempt"
    /\ writerSchema # NoWriter
    /\ Exclusive = {}
    /\ stored' = stored \cup {File(w)}
    /\ fileSchema' = [fileSchema EXCEPT ![w] = writerSchema]
    /\ Goto(w, IF w \in Keyed THEN "delta" ELSE "submit")
    /\ UNCHANGED <<catalogVars, writerSchema, table, job, attempt, ctxDone, faults, batcherVars>>

\* The file cannot be written: Write returns the error.
WriteFails(w) ==
    /\ pc[w] = "attempt"
    /\ writerSchema # NoWriter
    /\ Exclusive = {}
    /\ Fault(w \in ctxDone)
    /\ Goto(w, "close")
    /\ UNCHANGED <<catalogVars, stored, writerSchema, table, job, attempt, fileSchema, ctxDone,
                   batcherVars>>

\* cleanupFiles removes the file of a failed commit, if it can, and Write
\* returns, which releases RLock.
cleanupFiles(w) ==
    /\ pc[w] = "cleanup"
    /\ \/ stored' = stored \ {File(w)}
       \/ UNCHANGED stored
    /\ Goto(w, "close")
    /\ UNCHANGED <<catalogVars, writerSchema, table, job, attempt, fileSchema, ctxDone, faults,
                   batcherVars>>

\* Wrong on purpose: every error is retried, again and again.
RetryAlways(w) == attempt' = [attempt EXCEPT ![w] = @ + 1] /\ Goto(w, "attempt")

\* What writeWithRetry does after it has closed the writer: an error is
\* retried once.
RetryOnce(w) ==
    IF attempt[w] = 1
    THEN attempt' = [attempt EXCEPT ![w] = 2] /\ Goto(w, "attempt")
    ELSE UNCHANGED attempt /\ Goto(w, "failed")

\* Wrong on purpose: the writer is closed under calls that use it.
CloseUnlocked == Exclusive = {}

\* closeWriter may run: Lock waits for all calls of Write.
MayClose == MayLock

\* writeWithRetry closes the writer of a failed attempt, whoever made it.
LockForClose(w) ==
    /\ pc[w] = "close"
    /\ MayClose
    /\ IF writerSchema = NoWriter
       THEN RetryOnce(w) /\ UNCHANGED batcherVars
       ELSE Goto(w, "closing") /\ CancelRunner /\ UNCHANGED attempt
    /\ UNCHANGED <<catalogVars, stored, writerSchema, table, job, fileSchema, ctxDone, faults>>

\* Batcher.Close returns once the goroutine has ended; the writer is gone.
Closed(w) ==
    /\ pc[w] = "closing"
    /\ Drain
    /\ writerSchema' = NoWriter
    /\ RetryOnce(w)
    /\ UNCHANGED <<catalogVars, stored, table, job, fileSchema, ctxDone, faults>>

-----------------------------------------------------------------------------
(* committer.Commit.                                                       *)

\* Appends: Batcher.Submit sends the request ...
Submit(w) ==
    /\ pc[w] = "submit"
    /\ Send(File(w))
    /\ Goto(w, "wait")
    /\ UNCHANGED <<catalogVars, stored, writerSchema, table, job, attempt, fileSchema, ctxDone,
                   faults>>

\* ... and waits for the response or for the end of the call's context.
Response(w) ==
    /\ pc[w] = "wait"
    /\ \/ respCh[File(w)] = "ok" /\ Goto(w, "ok")
       \/ respCh[File(w)] = "error" /\ Goto(w, "cleanup")
       \/ w \in ctxDone /\ Goto(w, "cleanup")
    /\ UNCHANGED <<catalogVars, stored, writerSchema, table, job, attempt, fileSchema, ctxDone,
                   faults, batcherVars>>

\* commitLocked is entered for these files, on behalf of a call or the batcher.
NewJob(by, files) == [NoJob EXCEPT !.by = by, !.files = files, !.stage = "try"]

\* The batcher has collected requests and doCommit waits for commitMu.
Collect ==
    /\ Dequeue \/ StartCall \/ Exit
    /\ UNCHANGED <<catalogVars, stored, writerSchema, table, job, callVars, ctxDone, faults>>

\* doCommit takes commitMu and refuses the whole batch when one of its inputs
\* has another schema than the cached table.
doCommit ==
    /\ runner = "call"
    /\ job = NoJob
    /\ IF \E f \in ToSet(batch) : fileSchema[f[1]] # table.schema
       THEN Reply("error") /\ UNCHANGED job
       ELSE job' = NewJob("batcher", ToSet(batch)) /\ UNCHANGED batcherVars
    /\ UNCHANGED <<catalogVars, stored, writerSchema, table, callVars, ctxDone, faults>>

\* commitRowDelta does the same for a single call.
commitRowDelta(w) ==
    /\ pc[w] = "delta"
    /\ job = NoJob
    /\ IF fileSchema[w] # table.schema
       THEN Goto(w, "cleanup") /\ UNCHANGED job
       ELSE Goto(w, "commit") /\ job' = NewJob(w, {File(w)})
    /\ UNCHANGED <<catalogVars, stored, writerSchema, table, attempt, fileSchema, ctxDone,
                   faults, batcherVars>>

\* commitLocked returns and commitMu is released.
Finish(result) ==
    /\ job' = NoJob
    /\ IF job.by = "batcher"
       THEN Reply(result) /\ UNCHANGED pc
       ELSE Goto(job.by, IF result = "ok" THEN "ok" ELSE "cleanup") /\ UNCHANGED batcherVars

\* Is the context of the commit cancelled?
JobCancelled == IF job.by = "batcher" THEN cancelled ELSE job.by \in ctxDone

\* Wrong on purpose: files are added again without a look at the table.
StagedBlindly == job.files

\* Wrong on purpose: a retry takes for granted that the failed attempt landed.
StagedTrusting == IF job.reloaded THEN {} ELSE job.files

\* The files that the stage callback adds.  After a reload, doCommit leaves out
\* those the table has already (dropAlreadyCommitted); commitRowDelta does not.
Staged == IF job.by = "batcher" /\ job.reloaded THEN job.files \ table.files ELSE job.files

\* Wrong on purpose: a commit of unknown outcome is retried in any case.
RetryAnyUnknown == "reload"

\* Where a commit of unknown outcome leads (retryOnUnknownState).
AfterUnknown == IF job.by = "batcher" THEN "reload" ELSE "fatal"

\* Where the loop of commitLocked goes with an error of Transaction.Commit.
AfterError(error) == CASE error = "failed"  -> "reload"
                       [] error = "unknown" -> AfterUnknown
                       [] error = "other"   -> "fatal"

\* Transaction.Commit succeeds.
CommitAccepted ==
    /\ IF Staged = {}
       THEN UNCHANGED <<snapshot, registered, table>>
       ELSE /\ table.snap = snapshot
            /\ Land(Staged)
            /\ table' = [snap |-> snapshot + 1, schema |-> schema,
                         files |-> Registered \cup Staged]
    /\ Finish("ok")
    /\ UNCHANGED <<schema, pending, faults>>

\* Transaction.Commit returns an error: a conflict; or something that hides
\* whether the commit was applied, is still to be applied, or is lost.
CommitError ==
    /\ Staged # {}
    /\ \E error \in {"failed", "unknown", "other"} :
        /\ job' = [job EXCEPT !.stage = AfterError(error), !.tries = @ + 1]
        /\ \/ /\ error = "failed" /\ table.snap # snapshot
              /\ UNCHANGED <<snapshot, registered, pending, faults>>
           \/ /\ error # "failed" \/ LandedConflict
              /\ table.snap = snapshot /\ Land(Staged)
              /\ Fault(error = "other" /\ JobCancelled)
              /\ UNCHANGED pending
           \/ /\ error # "failed"
              /\ \/ pending' = pending \cup {[snap |-> table.snap, files |-> Staged]}
                 \/ UNCHANGED pending
              /\ Fault(error = "other" /\ JobCancelled)
              /\ UNCHANGED <<snapshot, registered>>
    /\ UNCHANGED <<schema, table, pc, batcherVars>>

\* One iteration of the loop of commitLocked, up to the reply.
Try ==
    /\ job.stage = "try"
    /\ job.tries < MaxRetries
    /\ CommitAccepted \/ CommitError
    /\ UNCHANGED <<stored, writerSchema, attempt, fileSchema, ctxDone>>

\* The stage callback fails, for example because manifests cannot be read.
StageFails ==
    /\ job.stage = "try"
    /\ job.tries < MaxRetries
    /\ Fault(JobCancelled)
    /\ Finish("error")
    /\ UNCHANGED <<catalogVars, stored, writerSchema, table, attempt, fileSchema, ctxDone>>

\* The loop has run MaxRetries times.
Exhausted ==
    /\ job.stage = "try"
    /\ job.tries >= MaxRetries
    /\ Finish("error")
    /\ UNCHANGED <<catalogVars, stored, writerSchema, table, attempt, fileSchema, ctxDone, faults>>

\* A retryable error: reloadTable, which may fail, and the next iteration.
Reload ==
    /\ job.stage = "reload"
    /\ \/ /\ table' = LoadTable
          /\ job' = [job EXCEPT !.stage = "try", !.reloaded = TRUE]
          /\ UNCHANGED faults
       \/ /\ Fault(JobCancelled)
          /\ job' = [job EXCEPT !.stage = "try"]
          /\ UNCHANGED table
    /\ UNCHANGED <<catalogVars, stored, writerSchema, callVars, ctxDone, batcherVars>>

\* Any other error: the table is reloaded for the next commit and the error
\* returned.
Fatal ==
    /\ job.stage = "fatal"
    /\ \/ table' = LoadTable /\ UNCHANGED faults
       \/ Fault(JobCancelled) /\ UNCHANGED table
    /\ Finish("error")
    /\ UNCHANGED <<catalogVars, stored, writerSchema, attempt, fileSchema, ctxDone>>

CallStep(w) ==
    \/ Route(w) \/ LoadWriterTable(w) \/ LoadCommitterTable(w) \/ LoadFails(w)
    \/ WriteDataFiles(w) \/ WriteFails(w) \/ cleanupFiles(w)
    \/ LockForClose(w) \/ Closed(w)
    \/ Submit(w) \/ Response(w) \/ commitRowDelta(w)

CommitStep == Collect \/ doCommit \/ Try \/ StageFails \/ Exhausted \/ Reload \/ Fatal

Next ==
    \/ \E w \in Calls : CallStep(w) \/ Cancel(w)
    \/ CommitStep
    \/ ForeignCommit \/ ForeignEvolve \/ LateLanding

Spec == Init /\ [][Next]_vars

\* The goroutines of the process keep running and the catalog answers.
FairSpec == Spec /\ WF_vars(CommitStep) /\ \A w \in Calls : WF_vars(CallStep(w))

-----------------------------------------------------------------------------
(* Properties.                                                             *)

\* No file is referenced twice by the table, whatever replies are lost,
\* applied late or followed by a failing reload: this is what
\* dropAlreadyCommitted and retryOnUnknownState are for.
RegisteredOnce == \A f \in Requests : registered[f] <= 1

\* What Route reports as written is in the table exactly once and its file has
\* not been removed, although the same batch may have failed before.
AckedWritten ==
    \A w \in Calls : pc[w] = "ok" => registered[File(w)] = 1 /\ File(w) \in stored

\* No call is in Submit, and no commit runs, once the batcher is gone: a send
\* on the closed channel would panic and a request would stay unanswered
\* (batcher.go: never call Submit after Close).
NobodyOnClosedBatcher ==
    runner = "none" => /\ Readers = {} /\ job = NoJob
                       /\ requestChan = <<>> /\ batch = <<>>

\* A file that the table references has not been removed (cleanupFiles:
\* "removes written-but-uncommitted parquet files after a failed commit").
NoDanglingReference == \A f \in Requests : registered[f] > 0 => f \in stored

\* Every call of Route returns: each request is answered, Close ends, and no
\* one waits for ever for entry.mu, commitMu or a place in the channel.
RouteReturns == \A w \in Calls : pc[w] = "attempt" ~> pc[w] \in {"ok", "failed"}
=============================================================================
