------------------------ MODULE IcebergCommitterProofs ------------------------
(***************************************************************************)
(* Theorems about IcebergCommitter, for any number of concurrent calls,    *)
(* any size of a batch, any number of retries and any number of faults.    *)
(***************************************************************************)
EXTENDS IcebergCommitter, SequenceTheorems, TLAPS

\* commitLocked, and the places of a call, as TypeOK gives them.
Job == [by : Calls \cup {"none", "batcher"}, files : SUBSET Requests,
        tries : Nat, reloaded : BOOLEAN,
        stage : {"idle", "try", "reload", "fatal"}]

Where == {"idle", "attempt", "load", "submit", "wait", "delta", "commit",
          "cleanup", "close", "closing", "ok", "failed"}

USE CallsAssumption, RetriesAssumption, RequestsAssumption, BatchSizeAssumption
    DEF NoWriter, Job, Where

-----------------------------------------------------------------------------
(* Requests and batches.                                                   *)

LEMMA FileType ==
    ASSUME attempt \in [Calls -> 1 .. 2], NEW w \in Calls
    PROVE  File(w) \in Requests
  BY DEF File

\* The requests of a channel or a batch.
LEMMA ToSetOfEmpty == ToSet(<<>>) = {}
  BY DEF ToSet

LEMMA ToSetType ==
    ASSUME NEW s \in Seq(Requests)
    PROVE  ToSet(s) \subseteq Requests
  BY DEF ToSet

LEMMA ToSetOfAppend ==
    ASSUME NEW s \in Seq(Requests), NEW r \in Requests
    PROVE  /\ Append(s, r) \in Seq(Requests) /\ Len(Append(s, r)) = Len(s) + 1
           /\ ToSet(Append(s, r)) = ToSet(s) \cup {r}
  <1>1. /\ Append(s, r) \in Seq(Requests) /\ Len(Append(s, r)) = Len(s) + 1
        /\ \A i \in 1 .. Len(s) : Append(s, r)[i] = s[i]
        /\ Append(s, r)[Len(s) + 1] = r
    BY AppendProperties
  <1>2. DOMAIN s = 1 .. Len(s) /\ DOMAIN Append(s, r) = 1 .. Len(s) + 1 /\ Len(s) \in Nat
    BY <1>1
  <1>3. \A i \in 1 .. Len(s) + 1 : i \in 1 .. Len(s) \/ i = Len(s) + 1
    BY <1>2
  <1>4. 1 .. Len(s) \subseteq 1 .. Len(s) + 1 /\ Len(s) + 1 \in 1 .. Len(s) + 1
    BY <1>2
  <1> QED BY <1>1, <1>2, <1>3, <1>4 DEF ToSet

\* Taking the first request out of a channel that holds every request once.
LEMMA ToSetOfTail ==
    ASSUME NEW s \in Seq(Requests), s # <<>>
    PROVE  /\ Head(s) \in Requests /\ Head(s) \in ToSet(s)
           /\ Tail(s) \in Seq(Requests) /\ Len(Tail(s)) = Len(s) - 1 /\ Len(s) > 0
           /\ ToSet(Tail(s)) \subseteq ToSet(s) /\ ToSet(s) = ToSet(Tail(s)) \cup {Head(s)}
           /\ \A i \in 1 .. Len(Tail(s)) : Tail(s)[i] = s[i + 1]
  <1>1. /\ Tail(s) \in Seq(Requests) /\ Len(Tail(s)) = Len(s) - 1
        /\ \A i \in 1 .. Len(Tail(s)) : Tail(s)[i] = s[i + 1]
        /\ Head(s) \in Requests
    BY HeadTailProperties
  <1>2. Head(s) = s[1] /\ Len(s) \in Nat /\ Len(s) > 0
    BY EmptySeq
  <1>3. DOMAIN s = 1 .. Len(s) /\ DOMAIN Tail(s) = 1 .. Len(s) - 1 /\ 1 \in 1 .. Len(s)
    BY <1>1, <1>2
  <1>4. Head(s) \in ToSet(s)
    BY <1>2, <1>3 DEF ToSet
  <1>5. ToSet(Tail(s)) \subseteq ToSet(s)
    <2>1. \A i \in 1 .. Len(s) - 1 : i + 1 \in 1 .. Len(s)
      BY <1>2
    <2> QED BY <1>1, <1>3, <2>1 DEF ToSet
  <1>6. ToSet(s) \subseteq ToSet(Tail(s)) \cup {Head(s)}
    <2>1. ASSUME NEW i \in 1 .. Len(s) PROVE s[i] \in ToSet(Tail(s)) \cup {Head(s)}
      <3>1. CASE i = 1
        BY <1>2, <3>1
      <3>2. CASE i # 1
        <4>1. i - 1 \in 1 .. Len(s) - 1 /\ i - 1 + 1 = i
          BY <1>2, <3>2
        <4>2. Tail(s)[i - 1] = s[i]
          BY <1>1, <4>1
        <4> QED BY <1>3, <4>1, <4>2 DEF ToSet
      <3> QED BY <3>1, <3>2
    <2> QED BY <1>3, <2>1 DEF ToSet
  <1> QED BY <1>1, <1>2, <1>4, <1>5, <1>6

-----------------------------------------------------------------------------
(* Types.                                                                  *)

LEMMA TypeInit == Init => TypeOK
  <1> SUFFICES ASSUME Init PROVE TypeOK
    OBVIOUS
  <1>1. BatcherTypeOK
    <2>1. <<>> \in Seq(Requests) /\ Len(<<>>) = 0
      BY EmptySeq
    <2>2. requestChan = <<>> /\ batch = <<>> /\ runner = "none" /\ cancelled \in BOOLEAN
          /\ respCh = [r \in Requests |-> "empty"]
      BY DEF Init, BatcherInit
    <2> QED BY <2>1, <2>2 DEF BatcherTypeOK
  <1>2. job \in Job
    BY DEF Init, NoJob
  <1>3. table.snap \in Nat /\ table.schema \in Nat /\ table.files \subseteq Requests
    BY DEF Init, LoadTable, Registered
  <1> QED BY <1>1, <1>2, <1>3 DEF Init, TypeOK

LEMMA LoadTableType ==
    ASSUME TypeOK
    PROVE  LoadTable.snap \in Nat /\ LoadTable.schema \in Nat /\ LoadTable.files \subseteq Requests
  BY DEF TypeOK, LoadTable, Registered

\* The start of a commit.
LEMMA NewJobType ==
    ASSUME NEW by \in Calls \cup {"none", "batcher"}, NEW files \in SUBSET Requests
    PROVE  /\ NewJob(by, files) \in
                 Job
           /\ NewJob(by, files).by = by /\ NewJob(by, files).files = files
           /\ ~NewJob(by, files).reloaded /\ NewJob(by, files).stage = "try"
  <1>1. NoJob \in Job
    BY DEF NoJob
  <1>2. ~NoJob.reloaded
    BY DEF NoJob
  <1>3. PICK j \in Job : j = NoJob
    BY <1>1
  <1> QED BY <1>2, <1>3 DEF NewJob

\* The end of a commit.
LEMMA FinishTypes ==
    ASSUME TypeOK, NEW result \in {"ok", "error"}, Finish(result)
    PROVE  /\ BatcherTypeOK'
           /\ job' \in Job
           /\ pc' \in [Calls -> Where]
  <1>1. job' \in Job
    BY DEF Finish, NoJob
  <1>2. CASE Reply(result) /\ UNCHANGED pc
    BY <1>1, <1>2 DEF Reply, TypeOK, BatcherTypeOK
  <1>3. CASE Goto(job.by, IF result = "ok" THEN "ok" ELSE "cleanup") /\ UNCHANGED batcherVars
    BY <1>1, <1>3 DEF Goto, TypeOK, BatcherTypeOK, batcherVars
  <1> QED BY <1>2, <1>3 DEF Finish

LEMMA LandTypes ==
    ASSUME TypeOK, NEW files, Land(files)
    PROVE  snapshot' \in Nat /\ registered' \in [Requests -> Nat]
  BY DEF Land, TypeOK

LEMMA FaultTypes ==
    ASSUME TypeOK, NEW free, Fault(free)
    PROVE  faults' \in 0 .. MaxFaults
  BY DEF Fault, TypeOK

LEMMA TypeCall ==
    ASSUME TypeOK, NEW w \in Calls, CallStep(w) \/ Cancel(w)
    PROVE  TypeOK'
  <1>1. CASE Route(w) \/ WriteFails(w)
    BY <1>1, FaultTypes, ZenonT(60) DEF Route, WriteFails, Goto, TypeOK, BatcherTypeOK, batcherVars, catalogVars
  <1>2. CASE LoadWriterTable(w)
    BY <1>2 DEF LoadWriterTable, Goto, TypeOK, BatcherTypeOK, batcherVars, catalogVars
  <1>3. CASE LoadCommitterTable(w)
    <2>1. BatcherTypeOK'
      BY <1>3 DEF LoadCommitterTable, NewBatcher, TypeOK, BatcherTypeOK
    <2>2. table'.snap \in Nat /\ table'.schema \in Nat /\ table'.files \subseteq Requests
      BY <1>3, LoadTableType DEF LoadCommitterTable
    <2> QED BY <1>3, <2>1, <2>2 DEF LoadCommitterTable, Goto, TypeOK, catalogVars
  <1>4. CASE LoadFails(w)
    BY <1>4, FaultTypes DEF LoadFails, Goto, TypeOK, BatcherTypeOK, batcherVars, catalogVars
  <1>5. CASE WriteDataFiles(w)
    <2>1. File(w) \in Requests /\ writerSchema \in Nat
      BY <1>5, FileType DEF TypeOK, WriteDataFiles
    <2> QED BY <1>5, <2>1 DEF WriteDataFiles, Goto, TypeOK, BatcherTypeOK, batcherVars, catalogVars
  <1>6. CASE cleanupFiles(w)
    BY <1>6 DEF cleanupFiles, Goto, TypeOK, BatcherTypeOK, batcherVars, catalogVars
  <1>7. CASE LockForClose(w)
    <2>1. BatcherTypeOK'
      BY <1>7 DEF LockForClose, CancelRunner, TypeOK, BatcherTypeOK, batcherVars
    <2> QED BY <1>7, <2>1 DEF LockForClose, RetryOnce, Goto, TypeOK, catalogVars
  <1>8. CASE Closed(w)
    <2>1. BatcherTypeOK'
      BY <1>8 DEF Closed, Drain, TypeOK, BatcherTypeOK
    <2> QED BY <1>8, <2>1 DEF Closed, RetryOnce, Goto, TypeOK, catalogVars
  <1>9. CASE Submit(w)
    <2>1. BatcherTypeOK'
      <3>1. File(w) \in Requests /\ requestChan \in Seq(Requests) /\ Len(requestChan) < MaxBatchSize
        BY <1>9, FileType DEF TypeOK, BatcherTypeOK, Submit, Send
      <3>2. requestChan' \in Seq(Requests) /\ Len(requestChan') <= MaxBatchSize
        BY <1>9, <3>1, ToSetOfAppend DEF Submit, Send
      <3> QED BY <1>9, <3>2 DEF Submit, Send, TypeOK, BatcherTypeOK
    <2> QED BY <1>9, <2>1 DEF Submit, Goto, TypeOK, catalogVars
  <1>10. CASE Response(w)
    <2>1. pc' = [pc EXCEPT ![w] = "ok"] \/ pc' = [pc EXCEPT ![w] = "cleanup"]
      BY <1>10 DEF Response, Goto
    <2>2. pc' \in [Calls -> Where]
      BY <2>1 DEF TypeOK
    <2>3. UNCHANGED <<snapshot, schema, registered, pending, stored, writerSchema, table, job, attempt,
                      fileSchema, ctxDone, faults, requestChan, batch, runner, cancelled, respCh>>
      BY <1>10 DEF Response, catalogVars, batcherVars
    <2> QED BY <2>2, <2>3 DEF TypeOK, BatcherTypeOK
  <1>11. CASE commitRowDelta(w)
    <2>1. job' = job \/ job' = NewJob(w, {File(w)})
      BY <1>11 DEF commitRowDelta
    <2>2. File(w) \in Requests
      BY FileType DEF TypeOK
    <2>3. job' \in Job
      <3>1. NewJob(w, {File(w)}) \in Job
        BY <2>2, NewJobType
      <3> QED BY <2>1, <3>1 DEF TypeOK
    <2>4. pc' = [pc EXCEPT ![w] = "commit"] \/ pc' = [pc EXCEPT ![w] = "cleanup"]
      BY <1>11 DEF commitRowDelta, Goto
    <2>5. pc' \in [Calls -> Where]
      BY <2>4 DEF TypeOK
    <2>6. UNCHANGED <<snapshot, schema, registered, pending, stored, writerSchema, table, attempt,
                      fileSchema, ctxDone, faults, requestChan, batch, runner, cancelled, respCh>>
      BY <1>11 DEF commitRowDelta, catalogVars, batcherVars
    <2> QED BY <2>3, <2>5, <2>6 DEF TypeOK, BatcherTypeOK
  <1>12. CASE Cancel(w)
    BY <1>12, FaultTypes, ZenonT(60) DEF Cancel, TypeOK, BatcherTypeOK, batcherVars, catalogVars, callVars
  <1> QED BY <1>1, <1>2, <1>3, <1>4, <1>5, <1>6, <1>7, <1>8, <1>9, <1>10, <1>11, <1>12 DEF CallStep

\* A file that is staged is a file of the commit.
LEMMA StagedType ==
    ASSUME TypeOK
    PROVE  Staged \subseteq job.files /\ job.files \subseteq Requests
  BY DEF Staged, TypeOK

\* The reload of the table, or its failure.
LEMMA ReloadedType ==
    ASSUME TypeOK, \/ table' = LoadTable /\ UNCHANGED faults
                   \/ Fault(JobCancelled) /\ UNCHANGED table
    PROVE  /\ table'.snap \in Nat /\ table'.schema \in Nat /\ table'.files \subseteq Requests
           /\ faults' \in 0 .. MaxFaults
  <1>1. table.snap \in Nat /\ table.schema \in Nat /\ table.files \subseteq Requests /\ faults \in 0 .. MaxFaults
    BY DEF TypeOK
  <1> QED BY <1>1, LoadTableType, FaultTypes

\* What an error of Transaction.Commit leaves behind.
LEMMA CommitErrorTypes ==
    ASSUME TypeOK, CommitError
    PROVE  /\ snapshot' \in Nat /\ registered' \in [Requests -> Nat]
           /\ \A p \in pending' : p.snap \in Nat /\ p.files \subseteq Requests
           /\ faults' \in 0 .. MaxFaults /\ job' \in Job
  <1>1. PICK error \in {"failed", "unknown", "other"} :
          /\ job' = [job EXCEPT !.stage = AfterError(error), !.tries = @ + 1]
          /\ \/ UNCHANGED <<snapshot, registered, pending, faults>>
             \/ Land(Staged) /\ Fault(error = "other" /\ JobCancelled) /\ UNCHANGED pending
             \/ /\ \/ pending' = pending \cup {[snap |-> table.snap, files |-> Staged]}
                   \/ UNCHANGED pending
                /\ Fault(error = "other" /\ JobCancelled)
                /\ UNCHANGED <<snapshot, registered>>
    BY DEF CommitError
  <1>2. AfterError(error) \in {"reload", "fatal"}
    BY DEF AfterError, AfterUnknown
  <1>3. job' \in Job
    <2>1. PICK to \in {"reload", "fatal"} : to = AfterError(error)
      BY <1>2
    <2>2. job \in Job /\ job.tries + 1 \in Nat
      BY DEF TypeOK
    <2> QED BY <1>1, <2>1, <2>2
  <1>4. faults' \in 0 .. MaxFaults
    BY <1>1, FaultTypes DEF TypeOK
  <1>5. snapshot' \in Nat /\ registered' \in [Requests -> Nat]
    BY <1>1, LandTypes DEF TypeOK
  <1>6. PICK new : new = [snap |-> table.snap, files |-> Staged]
    OBVIOUS
  <1>7. new.snap \in Nat /\ new.files \subseteq Requests
    BY <1>6, StagedType DEF TypeOK
  <1>8. pending' \subseteq pending \cup {new}
    BY <1>1, <1>6
  <1>9. \A p \in pending' : p.snap \in Nat /\ p.files \subseteq Requests
    BY <1>7, <1>8 DEF TypeOK
  <1> QED BY <1>3, <1>4, <1>5, <1>9

LEMMA TypeCommit ==
    ASSUME TypeOK, CommitStep
    PROVE  TypeOK'
  <1>1. CASE Collect
    <2>1. BatcherTypeOK'
      <3>1. CASE Dequeue
        <4>1. /\ requestChan \in Seq(Requests) /\ requestChan # <<>> /\ Len(requestChan) <= MaxBatchSize
              /\ batch \in Seq(Requests) /\ Len(batch) < MaxBatchSize
          BY <3>1 DEF Dequeue, TypeOK, BatcherTypeOK
        <4>2. /\ Head(requestChan) \in Requests /\ Tail(requestChan) \in Seq(Requests)
              /\ Len(Tail(requestChan)) = Len(requestChan) - 1
          BY <4>1, ToSetOfTail
        <4>3. Append(batch, Head(requestChan)) \in Seq(Requests)
              /\ Len(Append(batch, Head(requestChan))) = Len(batch) + 1
          BY <4>1, <4>2, ToSetOfAppend
        <4>4. Len(Tail(requestChan)) <= MaxBatchSize /\ Len(Append(batch, Head(requestChan))) <= MaxBatchSize
          BY <4>1, <4>2, <4>3
        <4> QED BY <3>1, <4>2, <4>3, <4>4 DEF Dequeue, TypeOK, BatcherTypeOK
      <3>2. CASE StartCall \/ Exit
        BY <3>2 DEF StartCall, Exit, TypeOK, BatcherTypeOK
      <3> QED BY <1>1, <3>1, <3>2 DEF Collect
    <2> QED BY <1>1, <2>1 DEF Collect, TypeOK, catalogVars, callVars
  <1>2. CASE doCommit
    <2>1. CASE Reply("error") /\ UNCHANGED job
      <3>1. BatcherTypeOK'
        BY <2>1, EmptySeq DEF Reply, TypeOK, BatcherTypeOK
      <3> QED BY <1>2, <2>1, <3>1 DEF doCommit, TypeOK, catalogVars, callVars
    <2>2. CASE job' = NewJob("batcher", ToSet(batch)) /\ UNCHANGED batcherVars
      <3>1. ToSet(batch) \in SUBSET Requests
        BY ToSetType DEF TypeOK, BatcherTypeOK
      <3>2. job' \in Job
        BY <2>2, <3>1, NewJobType
      <3> QED BY <1>2, <2>2, <3>2 DEF doCommit, TypeOK, BatcherTypeOK, batcherVars, catalogVars, callVars
    <2> QED BY <1>2, <2>1, <2>2 DEF doCommit
  <1>3. CASE Try
    <2>1. CASE CommitAccepted
      <3>1. BatcherTypeOK' /\ job' \in Job /\ pc' \in [Calls -> Where]
        BY <2>1, FinishTypes DEF CommitAccepted
      <3>2. snapshot' \in Nat /\ registered' \in [Requests -> Nat]
        BY <2>1, LandTypes DEF CommitAccepted, TypeOK
      <3>3. \/ table' = table
            \/ table' = [snap |-> snapshot + 1, schema |-> schema, files |-> Registered \cup Staged]
        BY <2>1 DEF CommitAccepted
      <3>4. table'.snap \in Nat /\ table'.schema \in Nat /\ table'.files \subseteq Requests
        BY <3>3, StagedType DEF TypeOK, Registered
      <3> QED BY <1>3, <2>1, <3>1, <3>2, <3>4 DEF Try, CommitAccepted, TypeOK
    <2>2. CASE CommitError
      <3>1. UNCHANGED <<schema, table, pc, stored, writerSchema, attempt, fileSchema, ctxDone,
                        requestChan, batch, runner, cancelled, respCh>>
        BY <1>3, <2>2 DEF Try, CommitError, batcherVars
      <3> QED BY <2>2, <3>1, CommitErrorTypes DEF TypeOK, BatcherTypeOK
    <2> QED BY <1>3, <2>1, <2>2 DEF Try
  <1>4. CASE StageFails \/ Exhausted
    <2>1. BatcherTypeOK' /\ job' \in Job /\ pc' \in [Calls -> Where]
      BY <1>4, FinishTypes DEF StageFails, Exhausted
    <2>2. faults' \in 0 .. MaxFaults
      BY <1>4, FaultTypes DEF StageFails, Exhausted, TypeOK
    <2> QED BY <1>4, <2>1, <2>2 DEF StageFails, Exhausted, TypeOK, catalogVars
  <1>5. CASE Reload
    <2>1. \/ table' = LoadTable /\ UNCHANGED faults
          \/ Fault(JobCancelled) /\ UNCHANGED table
      BY <1>5 DEF Reload
    <2>2. job' = [job EXCEPT !.stage = "try", !.reloaded = TRUE] \/ job' = [job EXCEPT !.stage = "try"]
      BY <1>5 DEF Reload
    <2>3. job' \in Job
      BY <2>2 DEF TypeOK
    <2>4. UNCHANGED <<snapshot, schema, registered, pending, stored, writerSchema, pc, attempt,
                      fileSchema, ctxDone, requestChan, batch, runner, cancelled, respCh>>
      BY <1>5 DEF Reload, catalogVars, callVars, batcherVars
    <2> QED BY <2>1, <2>3, <2>4, ReloadedType DEF TypeOK, BatcherTypeOK
  <1>6. CASE Fatal
    <2>1. \/ table' = LoadTable /\ UNCHANGED faults
          \/ Fault(JobCancelled) /\ UNCHANGED table
      BY <1>6 DEF Fatal
    <2>2. BatcherTypeOK' /\ job' \in Job /\ pc' \in [Calls -> Where]
      BY <1>6, FinishTypes DEF Fatal
    <2> QED BY <1>6, <2>1, <2>2, ReloadedType DEF Fatal, TypeOK, catalogVars
  <1> QED BY <1>1, <1>2, <1>3, <1>4, <1>5, <1>6 DEF CommitStep

LEMMA TypeStep ==
    ASSUME TypeOK, [Next]_vars
    PROVE  TypeOK'
  <1>1. CASE UNCHANGED vars
    BY <1>1 DEF vars, TypeOK, BatcherTypeOK, catalogVars, callVars, batcherVars
  <1>2. CASE ForeignCommit \/ ForeignEvolve
    <2>1. faults' \in 0 .. MaxFaults
      BY <1>2, FaultTypes DEF ForeignCommit, ForeignEvolve
    <2>2. snapshot' \in Nat /\ schema' \in Nat
      <3>1. snapshot \in Nat /\ schema \in Nat /\ snapshot + 1 \in Nat /\ schema + 1 \in Nat
        BY DEF TypeOK
      <3>2. ForeignCommit => snapshot' = snapshot + 1 /\ schema' = schema
        BY DEF ForeignCommit
      <3>3. ForeignEvolve => snapshot' = snapshot /\ schema' = schema + 1
        BY DEF ForeignEvolve
      <3> QED BY <1>2, <3>1, <3>2, <3>3
    <2>3. UNCHANGED <<registered, pending, stored, writerSchema, table, job, pc, attempt, fileSchema,
                      ctxDone, requestChan, batch, runner, cancelled, respCh>>
      BY <1>2 DEF ForeignCommit, ForeignEvolve, callVars, batcherVars
    <2> QED BY <2>1, <2>2, <2>3 DEF TypeOK, BatcherTypeOK
  <1>3. CASE LateLanding
    <2>1. snapshot' \in Nat /\ registered' \in [Requests -> Nat] /\ pending' \subseteq pending
      BY <1>3, LandTypes DEF LateLanding, TypeOK
    <2> QED BY <1>3, <2>1 DEF LateLanding, TypeOK, BatcherTypeOK, callVars, batcherVars
  <1> QED BY <1>1, <1>2, <1>3, TypeCall, TypeCommit DEF Next

\* The types of the output's state, in every run: the channel and the batch never
\* outgrow MaxBatchSize, whatever order calls submit, cancel and close in.
THEOREM TypeCorrect == Spec => []TypeOK
  BY TypeInit, TypeStep, PTL DEF Spec

-----------------------------------------------------------------------------
(* Who holds entry.mu, commitMu and the batcher.                           *)

Reading(w) == pc[w] \in {"submit", "wait", "delta", "commit", "cleanup"}
Excluding(w) == pc[w] \in {"load", "closing"}

\* entry.mu has one exclusive holder and no other then, and is held only while
\* there is a writer.
EntryLocked ==
    /\ \A v, w \in Calls : Excluding(v) /\ (Reading(w) \/ Excluding(w)) => v = w
    /\ \A w \in Calls : Reading(w) \/ Excluding(w) => writerSchema # NoWriter

\* The batcher lives as long as the writer, but for the loads of createWriter,
\* and ends with nothing in its hands.
BatcherLives ==
    /\ writerSchema = NoWriter => runner = "none"
    /\ \A w \in Calls : pc[w] = "load" => runner = "none"
    /\ runner = "none" => /\ requestChan = <<>>
                          /\ writerSchema = NoWriter \/ \E w \in Calls : pc[w] = "load"
    /\ runner \in {"none", "done"} => batch = <<>>

\* commitMu is held by the batcher's goroutine, for its batch, or by a call in
\* commitRowDelta, for its file.
JobHeld ==
    /\ job.by = "none" => job = NoJob
    /\ job.by = "batcher" => runner = "call" /\ job.files = ToSet(batch)
    /\ \A w \in Calls : job.by = w => pc[w] = "commit" /\ job.files = {File(w)}

\* The inductive invariant behind NobodyOnClosedBatcher.
LockInv == EntryLocked /\ BatcherLives /\ JobHeld

LEMMA LockInit == Init => LockInv
  BY DEF Init, BatcherInit, NoJob, LockInv, EntryLocked, BatcherLives, JobHeld, Reading, Excluding

\* Without a runner there is nobody: a reader needs a writer, and a writer
\* without a runner is being made, under the exclusive lock.
LEMMA NobodyLeft ==
    ASSUME TypeOK, LockInv
    PROVE  NobodyOnClosedBatcher
  <1> SUFFICES ASSUME runner = "none"
               PROVE  Readers = {} /\ job = NoJob /\ requestChan = <<>> /\ batch = <<>>
    BY DEF NobodyOnClosedBatcher
  <1>1. \A w \in Calls : ~Reading(w)
    BY DEF LockInv, EntryLocked, BatcherLives, Reading, Excluding
  <1>2. job.by = "none"
    BY <1>1 DEF TypeOK, LockInv, JobHeld, Reading
  <1> QED BY <1>1, <1>2 DEF LockInv, JobHeld, BatcherLives, Readers, Reading

\* A call gives up the lock, or goes on without it; the writer goes only under
\* the exclusive lock.
LEMMA EntryLeaves ==
    ASSUME EntryLocked, NEW w \in Calls,
           NEW to \in Where \ {"submit", "wait", "delta", "commit", "cleanup", "load", "closing"},
           \A v \in Calls : pc'[v] = IF v = w THEN to ELSE pc[v],
           writerSchema' = writerSchema \/ Excluding(w)
    PROVE  EntryLocked'
  BY DEF EntryLocked, Reading, Excluding

\* A call takes the lock for reading when nobody excludes it, or has it already.
LEMMA EntryReads ==
    ASSUME EntryLocked, NEW w \in Calls, NEW to \in Where \ {"load", "closing"},
           \A v \in Calls : pc'[v] = IF v = w THEN to ELSE pc[v],
           \/ pc[w] \in {"submit", "wait", "delta", "commit", "cleanup"}
           \/ (Exclusive = {} /\ writerSchema # NoWriter),
           writerSchema' = writerSchema
    PROVE  EntryLocked'
  <1>0. Reading(w) \/ (Exclusive = {} /\ writerSchema # NoWriter)
    BY DEF Reading
  <1>1. ASSUME NEW v \in Calls PROVE ~Excluding(v)
    <2>1. CASE Reading(w)
      BY <2>1 DEF EntryLocked, Reading, Excluding
    <2>2. CASE Exclusive = {}
      BY <2>2 DEF Exclusive, Excluding
    <2> QED BY <1>0, <2>1, <2>2
  <1>2. \A v \in Calls : ~Excluding(v)'
    BY <1>1 DEF Excluding
  <1>3. writerSchema' # NoWriter
    BY <1>0 DEF EntryLocked
  <1> QED BY <1>2, <1>3 DEF EntryLocked

\* A call takes the lock exclusively when it is free.
LEMMA EntryExcludes ==
    ASSUME EntryLocked, NEW w \in Calls, NEW to \in {"load", "closing"},
           \A v \in Calls : pc'[v] = IF v = w THEN to ELSE pc[v],
           MayLock, writerSchema' # NoWriter
    PROVE  EntryLocked'
  <1>1. ASSUME NEW v \in Calls PROVE ~Reading(v) /\ ~Excluding(v)
    BY DEF MayLock, Readers, Exclusive, Reading, Excluding
  <1>2. \A v \in Calls : v # w => ~Reading(v)' /\ ~Excluding(v)'
    BY <1>1 DEF Reading, Excluding
  <1>3. ~Reading(w)'
    BY DEF Reading
  <1> QED BY <1>2, <1>3 DEF EntryLocked

\* A call moves that neither loads the writer nor holds commitMu.
LEMMA HeldFrame ==
    ASSUME TypeOK, BatcherLives, JobHeld, NEW w \in Calls, NEW to \in Where,
           \A v \in Calls : pc'[v] = IF v = w THEN to ELSE pc[v],
           pc[w] \notin {"load", "commit"}, to # "load",
           UNCHANGED <<writerSchema, runner, requestChan, batch, job>>,
           \A v \in Calls : v # w => attempt'[v] = attempt[v]
    PROVE  BatcherLives' /\ JobHeld'
  <1>1. BatcherLives'
    BY DEF BatcherLives
  <1>2. ASSUME NEW v \in Calls, job.by = v PROVE v # w /\ File(v)' = File(v)
    BY <1>2 DEF JobHeld, File
  <1>3. JobHeld'
    BY <1>2 DEF JobHeld
  <1> QED BY <1>1, <1>3

\* Where a step of a call leads it.
LEMMA Moves ==
    ASSUME TypeOK, NEW w \in Calls, NEW to \in Where, Goto(w, to)
    PROVE  \A v \in Calls : pc'[v] = IF v = w THEN to ELSE pc[v]
  BY DEF Goto, TypeOK

LEMMA RetryMoves ==
    ASSUME TypeOK, NEW w \in Calls, RetryOnce(w)
    PROVE  \E to \in {"attempt", "failed"} :
              /\ \A v \in Calls : pc'[v] = IF v = w THEN to ELSE pc[v]
              /\ \A v \in Calls : v # w => attempt'[v] = attempt[v]
              /\ attempt'[w] = IF to = "attempt" THEN attempt[w] + 1 ELSE attempt[w]
  <1>1. attempt[w] \in 1 .. 2 /\ attempt \in [Calls -> 1 .. 2]
    BY DEF TypeOK
  <1>2. CASE attempt[w] = 1
    <2>1. attempt' = [attempt EXCEPT ![w] = 2] /\ Goto(w, "attempt")
      BY <1>2 DEF RetryOnce
    <2>2. \A v \in Calls : attempt'[v] = IF v = w THEN 2 ELSE attempt[v]
      BY <1>1, <2>1
    <2>3. \A v \in Calls : pc'[v] = IF v = w THEN "attempt" ELSE pc[v]
      BY <2>1, Moves
    <2> QED BY <1>2, <2>2, <2>3
  <1>3. CASE attempt[w] # 1
    <2>1. attempt' = attempt /\ Goto(w, "failed")
      BY <1>3 DEF RetryOnce
    <2>2. \A v \in Calls : pc'[v] = IF v = w THEN "failed" ELSE pc[v]
      BY <2>1, Moves
    <2> QED BY <2>1, <2>2
  <1> QED BY <1>2, <1>3

LEMMA LockCall ==
    ASSUME TypeOK, LockInv, NEW w \in Calls, CallStep(w) \/ Cancel(w)
    PROVE  LockInv'
  <1>1. EntryLocked /\ BatcherLives /\ JobHeld
    BY DEF LockInv
  <1>2. CASE Route(w)
    <2>1. /\ pc[w] = "idle" /\ Goto(w, "attempt")
          /\ UNCHANGED <<writerSchema, runner, requestChan, batch, job, attempt>>
      BY <1>2 DEF Route, batcherVars
    <2>2. \A v \in Calls : pc'[v] = IF v = w THEN "attempt" ELSE pc[v]
      BY <2>1, Moves
    <2>3. EntryLocked'
      BY <1>1, <2>1, <2>2, EntryLeaves
    <2>4. BatcherLives' /\ JobHeld'
      BY <1>1, <2>1, <2>2, HeldFrame
    <2> QED BY <2>3, <2>4 DEF LockInv
  <1>3. CASE LoadWriterTable(w)
    <2>1. /\ pc[w] = "attempt" /\ Goto(w, "load") /\ MayLock /\ writerSchema = NoWriter
          /\ writerSchema' = schema
          /\ UNCHANGED <<runner, requestChan, batch, job, attempt>>
      BY <1>3 DEF LoadWriterTable, batcherVars
    <2>2. \A v \in Calls : pc'[v] = IF v = w THEN "load" ELSE pc[v]
      BY <2>1, Moves
    <2>3. EntryLocked'
      <3>1. writerSchema' # NoWriter
        BY <2>1 DEF TypeOK
      <3> QED BY <1>1, <2>1, <2>2, <3>1, EntryExcludes
    <2>4. BatcherLives'
      BY <1>1, <2>1, <2>2 DEF BatcherLives
    <2>5. JobHeld'
      BY <1>1, <2>1, <2>2 DEF JobHeld, File
    <2> QED BY <2>3, <2>4, <2>5 DEF LockInv
  <1>4. CASE LoadCommitterTable(w)
    <2>1. /\ pc[w] = "load" /\ Goto(w, "attempt") /\ runner' = "dequeue"
          /\ UNCHANGED <<writerSchema, requestChan, batch, job, attempt>>
      BY <1>4 DEF LoadCommitterTable, NewBatcher
    <2>2. \A v \in Calls : pc'[v] = IF v = w THEN "attempt" ELSE pc[v]
      BY <2>1, Moves
    <2>3. EntryLocked'
      BY <1>1, <2>1, <2>2, EntryLeaves
    <2>4. \A v \in Calls : pc[v] = "load" => v = w
      BY <1>1, <2>1 DEF EntryLocked, Excluding
    <2>5. runner = "none" /\ writerSchema # NoWriter
      BY <1>1, <2>1 DEF EntryLocked, BatcherLives, Excluding
    <2>6. BatcherLives'
      BY <1>1, <2>1, <2>2, <2>4, <2>5 DEF BatcherLives
    <2>7. JobHeld'
      BY <1>1, <2>1, <2>2, <2>5 DEF JobHeld, File
    <2> QED BY <2>3, <2>6, <2>7 DEF LockInv
  <1>5. CASE LoadFails(w)
    <2>1. /\ pc[w] = "load" /\ Goto(w, "close") /\ writerSchema' = NoWriter
          /\ UNCHANGED <<runner, requestChan, batch, job, attempt>>
      BY <1>5 DEF LoadFails, batcherVars
    <2>2. \A v \in Calls : pc'[v] = IF v = w THEN "close" ELSE pc[v]
      BY <2>1, Moves
    <2>3. EntryLocked'
      BY <1>1, <2>1, <2>2, EntryLeaves DEF Excluding
    <2>4. BatcherLives'
      BY <1>1, <2>1, <2>2 DEF BatcherLives
    <2>5. JobHeld'
      BY <1>1, <2>1, <2>2 DEF JobHeld, File
    <2> QED BY <2>3, <2>4, <2>5 DEF LockInv
  <1>6. CASE WriteDataFiles(w)
    <2>1. /\ pc[w] = "attempt" /\ Goto(w, IF w \in Keyed THEN "delta" ELSE "submit")
          /\ writerSchema # NoWriter /\ Exclusive = {}
          /\ UNCHANGED <<writerSchema, runner, requestChan, batch, job, attempt>>
      BY <1>6 DEF WriteDataFiles, batcherVars
    <2>2. PICK to \in {"delta", "submit"} : \A v \in Calls : pc'[v] = IF v = w THEN to ELSE pc[v]
      BY <2>1, Moves
    <2>3. EntryLocked'
      BY <1>1, <2>1, <2>2, EntryReads
    <2>4. BatcherLives' /\ JobHeld'
      BY <1>1, <2>1, <2>2, HeldFrame
    <2> QED BY <2>3, <2>4 DEF LockInv
  <1>7. CASE WriteFails(w) \/ cleanupFiles(w)
    <2>1. /\ pc[w] \in {"attempt", "cleanup"} /\ Goto(w, "close")
          /\ UNCHANGED <<writerSchema, runner, requestChan, batch, job, attempt>>
      BY <1>7 DEF WriteFails, cleanupFiles, batcherVars
    <2>2. \A v \in Calls : pc'[v] = IF v = w THEN "close" ELSE pc[v]
      BY <2>1, Moves
    <2>3. EntryLocked'
      BY <1>1, <2>1, <2>2, EntryLeaves
    <2>4. BatcherLives' /\ JobHeld'
      BY <1>1, <2>1, <2>2, HeldFrame
    <2> QED BY <2>3, <2>4 DEF LockInv
  <1>8. CASE LockForClose(w)
    <2>1. /\ pc[w] = "close" /\ MayLock
          /\ UNCHANGED <<writerSchema, runner, requestChan, batch, job>>
      BY <1>8 DEF LockForClose, MayClose, CancelRunner, batcherVars
    <2>2. PICK to \in Where :
            /\ to \in {"attempt", "failed"} \/ (to = "closing" /\ writerSchema # NoWriter)
            /\ \A v \in Calls : pc'[v] = IF v = w THEN to ELSE pc[v]
            /\ \A v \in Calls : v # w => attempt'[v] = attempt[v]
      <3>1. CASE writerSchema = NoWriter
        <4>1. RetryOnce(w)
          BY <1>8, <3>1 DEF LockForClose
        <4>2. PICK to \in {"attempt", "failed"} :
                /\ \A v \in Calls : pc'[v] = IF v = w THEN to ELSE pc[v]
                /\ \A v \in Calls : v # w => attempt'[v] = attempt[v]
          BY <4>1, RetryMoves
        <4> WITNESS to \in Where
        <4> QED BY <4>2
      <3>2. CASE writerSchema # NoWriter
        <4>1. Goto(w, "closing") /\ attempt' = attempt
          BY <1>8, <3>2 DEF LockForClose
        <4> QED BY <3>2, <4>1, Moves
      <3> QED BY <3>1, <3>2
    <2>3. EntryLocked'
      <3>1. CASE to \in {"attempt", "failed"}
        BY <1>1, <2>1, <2>2, <3>1, EntryLeaves
      <3>2. CASE to = "closing" /\ writerSchema # NoWriter
        BY <1>1, <2>1, <2>2, <3>2, EntryExcludes
      <3> QED BY <2>2, <3>1, <3>2
    <2>4. BatcherLives' /\ JobHeld'
      BY <1>1, <2>1, <2>2, HeldFrame
    <2> QED BY <2>3, <2>4 DEF LockInv
  <1>9. CASE Closed(w)
    <2>1. /\ pc[w] = "closing" /\ runner = "done" /\ runner' = "none" /\ requestChan' = <<>>
          /\ writerSchema' = NoWriter /\ RetryOnce(w) /\ UNCHANGED <<batch, job>>
      BY <1>9 DEF Closed, Drain
    <2>2. PICK to \in {"attempt", "failed"} :
            /\ \A v \in Calls : pc'[v] = IF v = w THEN to ELSE pc[v]
            /\ \A v \in Calls : v # w => attempt'[v] = attempt[v]
      BY <2>1, RetryMoves
    <2>3. EntryLocked'
      BY <1>1, <2>1, <2>2, EntryLeaves DEF Excluding
    <2>4. \A v \in Calls : ~Reading(v) /\ pc[v] # "load"
      BY <1>1, <2>1 DEF EntryLocked, Reading, Excluding
    <2>5. BatcherLives'
      BY <1>1, <2>1, <2>2 DEF BatcherLives
    <2>6. JobHeld'
      BY <1>1, <2>1, <2>4 DEF JobHeld, Reading
    <2> QED BY <2>3, <2>5, <2>6 DEF LockInv
  <1>10. CASE Submit(w)
    <2>1. /\ pc[w] = "submit" /\ Goto(w, "wait")
          /\ UNCHANGED <<writerSchema, runner, batch, job, attempt>>
      BY <1>10 DEF Submit, Send
    <2>2. \A v \in Calls : pc'[v] = IF v = w THEN "wait" ELSE pc[v]
      BY <2>1, Moves
    <2>3. EntryLocked'
      BY <1>1, <2>1, <2>2, EntryReads
    <2>4. runner # "none"
      BY <1>1, <2>1 DEF EntryLocked, BatcherLives, Reading, Excluding
    <2>5. BatcherLives'
      BY <1>1, <2>1, <2>2, <2>4 DEF BatcherLives
    <2>6. JobHeld'
      BY <1>1, <2>1, <2>2 DEF JobHeld, File
    <2> QED BY <2>3, <2>5, <2>6 DEF LockInv
  <1>11. CASE Response(w)
    <2>1. /\ pc[w] = "wait" /\ (Goto(w, "ok") \/ Goto(w, "cleanup"))
          /\ UNCHANGED <<writerSchema, runner, requestChan, batch, job, attempt>>
      BY <1>11 DEF Response, batcherVars
    <2>2. PICK to \in {"ok", "cleanup"} : \A v \in Calls : pc'[v] = IF v = w THEN to ELSE pc[v]
      BY <2>1, Moves
    <2>3. EntryLocked'
      BY <1>1, <2>1, <2>2, EntryReads
    <2>4. BatcherLives' /\ JobHeld'
      BY <1>1, <2>1, <2>2, HeldFrame
    <2> QED BY <2>3, <2>4 DEF LockInv
  <1>12. CASE commitRowDelta(w)
    <2>1. /\ pc[w] = "delta" /\ job = NoJob
          /\ \/ Goto(w, "cleanup") /\ UNCHANGED job
             \/ Goto(w, "commit") /\ job' = NewJob(w, {File(w)})
          /\ UNCHANGED <<writerSchema, runner, requestChan, batch, attempt>>
      BY <1>12 DEF commitRowDelta, batcherVars
    <2>2. PICK to \in {"cleanup", "commit"} :
            /\ \A v \in Calls : pc'[v] = IF v = w THEN to ELSE pc[v]
            /\ to = "commit" => job' = NewJob(w, {File(w)})
            /\ to = "cleanup" => job' = job
      BY <2>1, Moves
    <2>3. EntryLocked'
      BY <1>1, <2>1, <2>2, EntryReads
    <2>4. BatcherLives'
      BY <1>1, <2>1, <2>2 DEF BatcherLives
    <2>5. JobHeld'
      <3>1. CASE to = "cleanup"
        BY <1>1, <2>1, <2>2, <3>1 DEF JobHeld, NoJob
      <3>2. CASE to = "commit"
        <4>1. File(w) \in Requests /\ File(w)' = File(w)
          BY <2>1, FileType DEF TypeOK, File
        <4>2. job'.by = w /\ job'.files = {File(w)}
          BY <2>2, <3>2, <4>1, NewJobType
        <4> QED BY <2>2, <3>2, <4>1, <4>2 DEF JobHeld
      <3> QED BY <3>1, <3>2
    <2> QED BY <2>3, <2>4, <2>5 DEF LockInv
  <1>13. CASE Cancel(w)
    BY <1>1, <1>13 DEF Cancel, LockInv, EntryLocked, BatcherLives, JobHeld, Reading, Excluding, File,
                       callVars, batcherVars
  <1> QED BY <1>2, <1>3, <1>4, <1>5, <1>6, <1>7, <1>8, <1>9, <1>10, <1>11, <1>12, <1>13 DEF CallStep

\* What the end of a commit does, for the batcher and for a call.
LEMMA FinishEffect ==
    ASSUME TypeOK, LockInv, job.stage # "idle", NEW result \in {"ok", "error"}, Finish(result)
    PROVE  /\ job' = NoJob
           /\ \/ /\ job.by = "batcher" /\ runner = "call" /\ runner' = "dequeue"
                 /\ batch' = <<>> /\ UNCHANGED <<pc, requestChan>>
                 /\ respCh' = [r \in Requests |-> IF r \in ToSet(batch) THEN result ELSE respCh[r]]
              \/ /\ UNCHANGED <<requestChan, batch, runner, respCh>>
                 /\ \E w \in Calls : /\ job.by = w /\ pc[w] = "commit"
                                     /\ \A v \in Calls : pc'[v] = IF v = w
                                           THEN IF result = "ok" THEN "ok" ELSE "cleanup"
                                           ELSE pc[v]
  <1>1. job' = NoJob
    BY DEF Finish
  <1>2. CASE job.by = "batcher"
    <2>1. Reply(result) /\ UNCHANGED pc
      BY <1>2 DEF Finish
    <2>2. runner = "call"
      BY <1>2 DEF LockInv, JobHeld
    <2> QED BY <1>1, <1>2, <2>1, <2>2 DEF Reply
  <1>3. CASE job.by # "batcher"
    <2>1. job.by # "none"
      BY DEF LockInv, JobHeld, NoJob
    <2>2. PICK w \in Calls : w = job.by
      BY <1>3, <2>1 DEF TypeOK
    <2>3. PICK to \in {"ok", "cleanup"} : to = IF result = "ok" THEN "ok" ELSE "cleanup"
      OBVIOUS
    <2>4. Goto(w, to) /\ UNCHANGED batcherVars
      BY <1>3, <2>2, <2>3 DEF Finish
    <2>5. \A v \in Calls : pc'[v] = IF v = w THEN to ELSE pc[v]
      BY <2>4, Moves
    <2>6. pc[w] = "commit"
      BY <2>2 DEF LockInv, JobHeld
    <2> QED BY <1>1, <2>2, <2>3, <2>4, <2>5, <2>6 DEF batcherVars
  <1> QED BY <1>2, <1>3

LEMMA FinishLock ==
    ASSUME TypeOK, LockInv, job.stage # "idle", NEW result \in {"ok", "error"}, Finish(result),
           writerSchema' = writerSchema
    PROVE  LockInv'
  <1>1. EntryLocked /\ BatcherLives /\ JobHeld /\ job' = NoJob
    BY FinishEffect DEF LockInv
  <1>2. JobHeld'
    BY <1>1 DEF JobHeld, NoJob
  <1>3. CASE /\ job.by = "batcher" /\ runner = "call" /\ runner' = "dequeue"
             /\ batch' = <<>> /\ UNCHANGED <<pc, requestChan>>
    <2>1. EntryLocked'
      BY <1>1, <1>3 DEF EntryLocked, Reading, Excluding
    <2>2. BatcherLives'
      BY <1>1, <1>3 DEF BatcherLives
    <2> QED BY <1>2, <2>1, <2>2 DEF LockInv
  <1>4. ASSUME NEW w \in Calls, NEW to \in {"ok", "cleanup"}, pc[w] = "commit",
               \A v \in Calls : pc'[v] = IF v = w THEN to ELSE pc[v],
               UNCHANGED <<requestChan, batch, runner>>
        PROVE  LockInv'
    <2>1. EntryLocked'
      BY <1>1, <1>4, EntryReads
    <2>2. BatcherLives'
      BY <1>1, <1>4 DEF BatcherLives
    <2> QED BY <1>2, <2>1, <2>2 DEF LockInv
  <1>5. (IF result = "ok" THEN "ok" ELSE "cleanup") \in {"ok", "cleanup"}
    OBVIOUS
  <1> QED BY <1>3, <1>4, <1>5, FinishEffect

\* An iteration of commitLocked that does not end it.
LEMMA JobFrame ==
    ASSUME TypeOK, LockInv, job.by # "none", job'.by = job.by, job'.files = job.files,
           UNCHANGED <<pc, attempt, writerSchema, requestChan, batch, runner>>
    PROVE  LockInv'
  <1>1. EntryLocked' /\ BatcherLives'
    BY DEF LockInv, EntryLocked, BatcherLives, Reading, Excluding
  <1>2. JobHeld'
    BY DEF LockInv, JobHeld, File
  <1> QED BY <1>1, <1>2 DEF LockInv

\* A commit that is under way has somebody it is for.
LEMMA Underway ==
    ASSUME LockInv, job.stage # "idle"
    PROVE  job.by # "none"
  BY DEF LockInv, JobHeld, NoJob

LEMMA LockCommit ==
    ASSUME TypeOK, LockInv, CommitStep
    PROVE  LockInv'
  <1>1. EntryLocked /\ BatcherLives /\ JobHeld
    BY DEF LockInv
  <1>2. CASE Collect
    <2>1. /\ UNCHANGED <<pc, writerSchema, job, attempt>>
          /\ runner = "dequeue" /\ runner' \in {"dequeue", "call", "done"}
          /\ runner' = "done" => batch' = <<>>
      BY <1>2 DEF Collect, callVars, Dequeue, StartCall, Exit
    <2>2. EntryLocked'
      BY <1>1, <2>1 DEF EntryLocked, Reading, Excluding
    <2>3. BatcherLives'
      BY <1>1, <2>1 DEF BatcherLives
    <2>4. JobHeld'
      BY <1>1, <2>1 DEF JobHeld, File
    <2> QED BY <2>2, <2>3, <2>4 DEF LockInv
  <1>3. CASE doCommit
    <2>1. /\ runner = "call" /\ job = NoJob /\ UNCHANGED <<pc, attempt, writerSchema>>
          /\ \/ Reply("error") /\ UNCHANGED job
             \/ job' = NewJob("batcher", ToSet(batch)) /\ UNCHANGED batcherVars
      BY <1>3 DEF doCommit, callVars
    <2>2. EntryLocked'
      BY <1>1, <2>1 DEF EntryLocked, Reading, Excluding
    <2>3. BatcherLives'
      BY <1>1, <2>1 DEF BatcherLives, Reply, batcherVars
    <2>4. JobHeld'
      <3>1. CASE UNCHANGED job
        BY <2>1, <3>1 DEF JobHeld, NoJob
      <3>2. CASE job' = NewJob("batcher", ToSet(batch)) /\ UNCHANGED batcherVars
        <4>1. job'.by = "batcher" /\ job'.files = ToSet(batch) /\ runner' = "call" /\ batch' = batch
          <5>1. ToSet(batch) \in SUBSET Requests
            BY ToSetType DEF TypeOK, BatcherTypeOK
          <5> QED BY <2>1, <3>2, <5>1, NewJobType DEF batcherVars
        <4> QED BY <4>1 DEF JobHeld
      <3> QED BY <2>1, <3>1, <3>2
    <2> QED BY <2>2, <2>3, <2>4 DEF LockInv
  <1>4. CASE Try
    <2>1. job.stage # "idle" /\ UNCHANGED <<writerSchema, attempt>>
      BY <1>4 DEF Try
    <2>2. CASE CommitAccepted
      BY <2>1, <2>2, FinishLock DEF CommitAccepted
    <2>3. CASE CommitError
      <3>1. PICK error \in {"failed", "unknown", "other"} :
              job' = [job EXCEPT !.stage = AfterError(error), !.tries = @ + 1]
        BY <2>3 DEF CommitError
      <3>2. job'.by = job.by /\ job'.files = job.files
        BY <3>1 DEF TypeOK
      <3>3. UNCHANGED <<pc, requestChan, batch, runner>>
        BY <2>3 DEF CommitError, batcherVars
      <3> QED BY <2>1, <3>2, <3>3, Underway, JobFrame
    <2> QED BY <1>4, <2>2, <2>3 DEF Try
  <1>5. CASE StageFails \/ Exhausted \/ Fatal
    <2>1. job.stage # "idle" /\ UNCHANGED writerSchema /\ Finish("error")
      BY <1>5 DEF StageFails, Exhausted, Fatal
    <2> QED BY <2>1, FinishLock
  <1>6. CASE Reload
    <2>1. /\ job.stage = "reload" /\ UNCHANGED <<pc, attempt, writerSchema, requestChan, batch, runner>>
          /\ \/ job' = [job EXCEPT !.stage = "try", !.reloaded = TRUE]
             \/ job' = [job EXCEPT !.stage = "try"]
      BY <1>6 DEF Reload, callVars, batcherVars
    <2>2. job'.by = job.by /\ job'.files = job.files
      BY <2>1 DEF TypeOK
    <2> QED BY <2>1, <2>2, Underway, JobFrame
  <1> QED BY <1>2, <1>3, <1>4, <1>5, <1>6 DEF CommitStep

LEMMA LockStep ==
    ASSUME TypeOK, LockInv, [Next]_vars
    PROVE  LockInv'
  <1>1. ASSUME UNCHANGED <<pc, attempt, writerSchema, job, requestChan, batch, runner>> PROVE LockInv'
    BY <1>1 DEF LockInv, EntryLocked, BatcherLives, JobHeld, Reading, Excluding, File
  <1>2. CASE UNCHANGED vars
    BY <1>1, <1>2 DEF vars, callVars, batcherVars
  <1>3. CASE ForeignCommit \/ ForeignEvolve \/ LateLanding
    BY <1>1, <1>3 DEF ForeignCommit, ForeignEvolve, LateLanding, callVars, batcherVars
  <1> QED BY <1>2, <1>3, LockCall, LockCommit DEF Next

\* No call is in Submit, and no commit runs, once the batcher is gone, for any
\* number of calls that fail, close the writer under each other and retry: a send
\* on the closed channel would panic and a request would stay unanswered.
THEOREM ClosedBatcherUnused == Spec => []NobodyOnClosedBatcher
  <1>1. Init => TypeOK /\ LockInv
    BY TypeInit, LockInit
  <1>2. TypeOK /\ LockInv /\ [Next]_vars => TypeOK' /\ LockInv'
    BY TypeStep, LockStep
  <1>3. TypeOK /\ LockInv => NobodyOnClosedBatcher
    BY NobodyLeft
  <1> QED BY <1>1, <1>2, <1>3, PTL DEF Spec

-----------------------------------------------------------------------------
(* Where the files are.                                                    *)

\* The catalog may know f: it is in the table, in a commit without a reply or in
\* the commit that is under way.
InUse(f) ==
    \/ registered[f] > 0
    \/ \E p \in pending : f \in p.files
    \/ f \in job.files

Early == {"idle", "attempt", "load", "submit", "delta"}

\* Call w has still to write file <<w, a>>, or to hand it over.
Ahead(w, a) == a > attempt[w] \/ (a = attempt[w] /\ pc[w] \in Early)

FreshFiles ==
    \A w \in Calls, a \in 1 .. 2 : Ahead(w, a) =>
        /\ ~InUse(<<w, a>>)
        /\ <<w, a>> \notin ToSet(requestChan) \cup ToSet(batch)

\* A request is in the channel once and in one place only, and what waits for
\* commitMu has not been committed before.
QueueSound ==
    /\ \A f \in ToSet(requestChan) : ~InUse(f) /\ f \notin ToSet(batch)
    /\ \A i, j \in 1 .. Len(requestChan) : requestChan[i] = requestChan[j] => i = j
    /\ job.by # "batcher" => \A f \in ToSet(batch) : ~InUse(f)

\* A call keeps its file until cleanupFiles, and only a keyed one commits itself.
FilesKept ==
    \A w \in Calls :
        /\ pc[w] \in {"submit", "wait", "delta", "commit", "ok"} => File(w) \in stored
        /\ pc[w] \in {"delta", "commit"} => w \in Keyed

\* What is confirmed is in the table.
Confirmed ==
    /\ \A f \in Requests : respCh[f] = "ok" => registered[f] > 0
    /\ \A w \in Calls : pc[w] = "ok" => registered[File(w)] > 0

\* The cached table is a past of the table, or the table itself.
TableSound ==
    /\ table.snap <= snapshot
    /\ table.files \subseteq Registered
    /\ table.snap = snapshot => Registered \subseteq table.files

\* The inductive invariant behind AckedWritten.
FileInv == FreshFiles /\ QueueSound /\ FilesKept /\ Confirmed /\ TableSound

LEMMA FileInit == Init => FileInv
  <1> SUFFICES ASSUME Init PROVE FileInv
    OBVIOUS
  <1>1. /\ requestChan = <<>> /\ batch = <<>> /\ pending = {} /\ job = NoJob /\ snapshot = 0
        /\ \A f \in Requests : registered[f] = 0 /\ respCh[f] = "empty"
        /\ \A w \in Calls : pc[w] = "idle"
        /\ table = LoadTable
    BY DEF Init, BatcherInit
  <1>2. ToSet(<<>>) = {} /\ Len(<<>>) = 0 /\ NoJob.files = {}
    BY ToSetOfEmpty, EmptySeq DEF NoJob
  <1>3. \A f \in Requests : ~InUse(f)
    BY <1>1, <1>2 DEF InUse
  <1>4. FreshFiles
    BY <1>1, <1>2, <1>3 DEF FreshFiles
  <1>5. QueueSound
    BY <1>1, <1>2 DEF QueueSound
  <1>6. FilesKept /\ Confirmed
    BY <1>1 DEF FilesKept, Confirmed
  <1>7. TableSound
    BY <1>1 DEF TableSound, LoadTable, Registered
  <1> QED BY <1>4, <1>5, <1>6, <1>7 DEF FileInv

\* A call that moves on has no more files ahead of it.
LEMMA AheadMoves ==
    ASSUME TypeOK, NEW w \in Calls, NEW to \in Where,
           \A v \in Calls : pc'[v] = IF v = w THEN to ELSE pc[v],
           \A v \in Calls : v # w => attempt'[v] = attempt[v],
           \/ attempt'[w] = attempt[w] /\ (to \in Early => pc[w] \in Early)
           \/ attempt'[w] = attempt[w] + 1,
           NEW v \in Calls, NEW a \in 1 .. 2, Ahead(v, a)'
    PROVE  Ahead(v, a)
  <1>1. attempt[v] \in 1 .. 2 /\ attempt[w] \in 1 .. 2
    BY DEF TypeOK
  <1>2. CASE v # w
    BY <1>2 DEF Ahead
  <1>3. CASE v = w /\ attempt'[w] = attempt[w] /\ (to \in Early => pc[w] \in Early)
    BY <1>3 DEF Ahead
  <1>4. CASE v = w /\ attempt'[w] = attempt[w] + 1
    <2>1. a >= attempt[w] + 1
      BY <1>1, <1>4 DEF Ahead
    <2>2. a > attempt[w]
      BY <1>1, <2>1
    <2> QED BY <1>4, <2>2 DEF Ahead
  <1> QED BY <1>2, <1>3, <1>4

\* The catalog learns of no new file and no request is added.
LEMMA FreshFrame ==
    ASSUME FreshFiles,
           \A f \in Requests : InUse(f)' => InUse(f),
           ToSet(requestChan') \cup ToSet(batch') \subseteq ToSet(requestChan) \cup ToSet(batch),
           \A v \in Calls, a \in 1 .. 2 : Ahead(v, a)' => Ahead(v, a)
    PROVE  FreshFiles'
  <1> SUFFICES ASSUME NEW w \in Calls, NEW a \in 1 .. 2, Ahead(w, a)'
               PROVE  ~InUse(<<w, a>>)' /\ <<w, a>> \notin ToSet(requestChan') \cup ToSet(batch')
    BY DEF FreshFiles
  <1>1. PICK f \in Requests : f = <<w, a>>
    OBVIOUS
  <1>2. Ahead(w, a)
    OBVIOUS
  <1>3. ~InUse(f) /\ f \notin ToSet(requestChan) \cup ToSet(batch)
    BY <1>1, <1>2 DEF FreshFiles
  <1>4. ~InUse(f)'
    BY <1>3
  <1> QED BY <1>1, <1>3, <1>4

LEMMA TableFrame ==
    ASSUME TypeOK, TableSound, UNCHANGED <<snapshot, registered>>, table' = table \/ table' = LoadTable
    PROVE  TableSound'
  <1>1. Registered' = Registered /\ snapshot' = snapshot /\ snapshot \in Nat
    BY DEF Registered, TypeOK
  <1>2. CASE table' = table
    BY <1>1, <1>2 DEF TableSound
  <1>3. CASE table' = LoadTable
    <2>1. table'.snap = snapshot /\ table'.files = Registered
      BY <1>3 DEF LoadTable
    <2> QED BY <1>1, <2>1 DEF TableSound
  <1> QED BY <1>2, <1>3

\* The requests that wait are in no more danger than before.
LEMMA QueueFrame ==
    ASSUME TypeOK, QueueSound,
           \A f \in Requests : InUse(f)' => InUse(f),
           requestChan' = requestChan \/ requestChan' = <<>>,
           \/ batch' = <<>>
           \/ batch' = batch /\ (job.by = "batcher" => job'.by = "batcher")
    PROVE  QueueSound'
  <1>0. ToSet(requestChan) \subseteq Requests /\ ToSet(batch) \subseteq Requests
    BY ToSetType DEF TypeOK, BatcherTypeOK
  <1>1. ToSet(<<>>) = {} /\ Len(<<>>) = 0
    BY ToSetOfEmpty, EmptySeq
  <1>2. \A f \in ToSet(requestChan') : ~InUse(f)' /\ f \notin ToSet(batch')
    BY <1>0, <1>1 DEF QueueSound
  <1>3. \A i, j \in 1 .. Len(requestChan') : requestChan'[i] = requestChan'[j] => i = j
    <2>1. CASE requestChan' = requestChan
      BY <2>1 DEF QueueSound
    <2>2. CASE requestChan' = <<>>
      BY <1>1, <2>2
    <2> QED BY <2>1, <2>2
  <1>4. job'.by # "batcher" => \A f \in ToSet(batch') : ~InUse(f)'
    BY <1>0, <1>1 DEF QueueSound
  <1> QED BY <1>2, <1>3, <1>4 DEF QueueSound

\* A step of call w that adds no request and starts no commit.
LEMMA QuietCall ==
    ASSUME TypeOK, FileInv, NEW w \in Calls, NEW to \in Where,
           \A v \in Calls : pc'[v] = IF v = w THEN to ELSE pc[v],
           \A v \in Calls : v # w => attempt'[v] = attempt[v],
           \/ attempt'[w] = attempt[w] /\ (to \in Early => pc[w] \in Early)
           \/ attempt'[w] = attempt[w] + 1 /\ to = "attempt",
           UNCHANGED <<snapshot, registered, pending, job, batch>>,
           requestChan' = requestChan \/ requestChan' = <<>>,
           \A f \in Requests : respCh'[f] = "ok" => respCh[f] = "ok",
           table' = table \/ table' = LoadTable,
           \A f \in stored : f # File(w) => f \in stored',
           to \in {"submit", "wait", "delta", "commit", "ok"} => File(w) \in stored',
           to \in {"delta", "commit"} => w \in Keyed,
           to = "ok" => respCh[File(w)] = "ok"
    PROVE  FileInv'
  <1>1. FreshFiles /\ QueueSound /\ FilesKept /\ Confirmed /\ TableSound
    BY DEF FileInv
  <1>2. \A f : InUse(f)' <=> InUse(f)
    BY DEF InUse
  <1>3. FreshFiles'
    <2>1. \A v \in Calls, a \in 1 .. 2 : Ahead(v, a)' => Ahead(v, a)
      BY AheadMoves
    <2>2. ToSet(requestChan') \cup ToSet(batch') \subseteq ToSet(requestChan) \cup ToSet(batch)
      BY ToSetOfEmpty
    <2> QED BY <1>1, <1>2, <2>1, <2>2, FreshFrame
  <1>4. QueueSound'
    BY <1>1, <1>2, QueueFrame
  <1>5. \A v \in Calls : v # w => File(v)' = File(v) /\ File(v) # File(w)
    BY DEF File
  <1>6. to # "attempt" => File(w)' = File(w)
    BY DEF File
  <1>7. FilesKept'
    <2>1. ASSUME NEW v \in Calls, v # w
          PROVE  /\ pc'[v] \in {"submit", "wait", "delta", "commit", "ok"} => File(v)' \in stored'
                 /\ pc'[v] \in {"delta", "commit"} => v \in Keyed
      BY <1>1, <1>5, <2>1 DEF FilesKept
    <2>2. /\ pc'[w] \in {"submit", "wait", "delta", "commit", "ok"} => File(w)' \in stored'
          /\ pc'[w] \in {"delta", "commit"} => w \in Keyed
      BY <1>6
    <2> QED BY <2>1, <2>2 DEF FilesKept
  <1>8. Confirmed'
    <2>1. ASSUME NEW v \in Calls, pc'[v] = "ok" PROVE registered'[File(v)'] > 0
      <3>1. CASE v # w
        BY <1>1, <1>5, <2>1, <3>1 DEF Confirmed
      <3>2. CASE v = w
        <4>1. File(w) \in Requests
          BY FileType DEF TypeOK
        <4>2. to = "ok" /\ File(w)' = File(w)
          BY <1>6, <2>1, <3>2
        <4>3. registered[File(w)] > 0
          BY <1>1, <4>1, <4>2 DEF Confirmed
        <4> QED BY <3>2, <4>2, <4>3
      <3> QED BY <3>1, <3>2
    <2> QED BY <1>1, <2>1 DEF Confirmed
  <1>9. TableSound'
    BY <1>1, TableFrame
  <1> QED BY <1>3, <1>4, <1>7, <1>8, <1>9 DEF FileInv

LEMMA FileCall ==
    ASSUME TypeOK, LockInv, FileInv, NEW w \in Calls, CallStep(w) \/ Cancel(w),
           ~Submit(w), ~commitRowDelta(w)
    PROVE  FileInv'
  <1>1. FilesKept
    BY DEF FileInv
  <1>2. CASE Route(w) \/ LoadWriterTable(w) \/ LoadFails(w) \/ WriteFails(w)
    <2>1. PICK to \in {"attempt", "load", "close"} :
            /\ pc[w] \in Early /\ Goto(w, to)
            /\ UNCHANGED <<attempt, snapshot, registered, pending, job, batch, requestChan, respCh, table, stored>>
      <3>1. Route(w) => /\ pc[w] \in Early /\ Goto(w, "attempt")
                        /\ UNCHANGED <<attempt, snapshot, registered, pending, job, batch, requestChan, respCh,
                                       table, stored>>
        BY DEF Route, Early, catalogVars, batcherVars
      <3>2. LoadWriterTable(w) => /\ pc[w] \in Early /\ Goto(w, "load")
                        /\ UNCHANGED <<attempt, snapshot, registered, pending, job, batch, requestChan, respCh,
                                       table, stored>>
        BY DEF LoadWriterTable, Early, catalogVars, batcherVars
      <3>3. LoadFails(w) \/ WriteFails(w) => /\ pc[w] \in Early /\ Goto(w, "close")
                        /\ UNCHANGED <<attempt, snapshot, registered, pending, job, batch, requestChan, respCh,
                                       table, stored>>
        BY DEF LoadFails, WriteFails, Early, catalogVars, batcherVars
      <3> QED BY <1>2, <3>1, <3>2, <3>3
    <2>2. \A v \in Calls : pc'[v] = IF v = w THEN to ELSE pc[v]
      BY <2>1, Moves
    <2> QED BY <2>1, <2>2, QuietCall
  <1>3. CASE LoadCommitterTable(w)
    <2>1. /\ pc[w] \in Early /\ Goto(w, "attempt") /\ table' = LoadTable
          /\ UNCHANGED <<attempt, snapshot, registered, pending, job, batch, requestChan, respCh, stored>>
      BY <1>3 DEF LoadCommitterTable, NewBatcher, Early, catalogVars
    <2>2. \A v \in Calls : pc'[v] = IF v = w THEN "attempt" ELSE pc[v]
      BY <2>1, Moves
    <2> QED BY <2>1, <2>2, QuietCall
  <1>4. CASE WriteDataFiles(w)
    <2>1. /\ pc[w] \in Early /\ Goto(w, IF w \in Keyed THEN "delta" ELSE "submit")
          /\ stored' = stored \cup {File(w)}
          /\ UNCHANGED <<attempt, snapshot, registered, pending, job, batch, requestChan, respCh, table>>
      BY <1>4 DEF WriteDataFiles, Early, catalogVars, batcherVars
    <2>2. PICK to \in {"delta", "submit"} : to = IF w \in Keyed THEN "delta" ELSE "submit"
      OBVIOUS
    <2>3. \A v \in Calls : pc'[v] = IF v = w THEN to ELSE pc[v]
      BY <2>1, <2>2, Moves
    <2> QED BY <2>1, <2>2, <2>3, QuietCall
  <1>5. CASE cleanupFiles(w)
    <2>1. /\ Goto(w, "close") /\ stored \ {File(w)} \subseteq stored'
          /\ UNCHANGED <<attempt, snapshot, registered, pending, job, batch, requestChan, respCh, table>>
      BY <1>5 DEF cleanupFiles, catalogVars, batcherVars
    <2>2. \A v \in Calls : pc'[v] = IF v = w THEN "close" ELSE pc[v]
      BY <2>1, Moves
    <2> QED BY <2>1, <2>2, QuietCall DEF Early
  <1>6. CASE LockForClose(w)
    <2>1. UNCHANGED <<snapshot, registered, pending, job, batch, requestChan, respCh, table, stored>>
      BY <1>6 DEF LockForClose, CancelRunner, catalogVars, batcherVars
    <2>2. CASE writerSchema = NoWriter
      <3>1. RetryOnce(w)
        BY <1>6, <2>2 DEF LockForClose
      <3>2. PICK to \in {"attempt", "failed"} :
              /\ \A v \in Calls : pc'[v] = IF v = w THEN to ELSE pc[v]
              /\ \A v \in Calls : v # w => attempt'[v] = attempt[v]
              /\ attempt'[w] = IF to = "attempt" THEN attempt[w] + 1 ELSE attempt[w]
        BY <3>1, RetryMoves
      <3> QED BY <2>1, <3>2, QuietCall DEF Early
    <2>3. CASE writerSchema # NoWriter
      <3>1. Goto(w, "closing") /\ attempt' = attempt
        BY <1>6, <2>3 DEF LockForClose
      <3>2. \A v \in Calls : pc'[v] = IF v = w THEN "closing" ELSE pc[v]
        BY <3>1, Moves
      <3> QED BY <2>1, <3>1, <3>2, QuietCall DEF Early
    <2> QED BY <2>2, <2>3
  <1>7. CASE Closed(w)
    <2>1. /\ UNCHANGED <<snapshot, registered, pending, job, batch, table, stored>>
          /\ requestChan' = <<>> /\ RetryOnce(w)
          /\ respCh' = [r \in Requests |-> IF r \in ToSet(requestChan) THEN "error" ELSE respCh[r]]
      BY <1>7 DEF Closed, Drain, catalogVars
    <2>2. PICK to \in {"attempt", "failed"} :
            /\ \A v \in Calls : pc'[v] = IF v = w THEN to ELSE pc[v]
            /\ \A v \in Calls : v # w => attempt'[v] = attempt[v]
            /\ attempt'[w] = IF to = "attempt" THEN attempt[w] + 1 ELSE attempt[w]
      BY <2>1, RetryMoves
    <2>3. \A f \in Requests : respCh'[f] = "ok" => respCh[f] = "ok"
      BY <2>1
    <2> QED BY <2>1, <2>2, <2>3, QuietCall DEF Early
  <1>8. CASE Response(w)
    <2>1. /\ pc[w] = "wait"
          /\ UNCHANGED <<attempt, snapshot, registered, pending, job, batch, requestChan, respCh, table, stored>>
          /\ (Goto(w, "ok") /\ respCh[File(w)] = "ok") \/ Goto(w, "cleanup")
      BY <1>8 DEF Response, catalogVars, batcherVars
    <2>2. PICK to \in {"ok", "cleanup"} :
            /\ \A v \in Calls : pc'[v] = IF v = w THEN to ELSE pc[v]
            /\ to = "ok" => respCh[File(w)] = "ok"
      BY <2>1, Moves
    <2>3. File(w) \in stored
      BY <1>1, <2>1 DEF FilesKept
    <2>4. to \notin Early
      BY DEF Early
    <2>5. /\ UNCHANGED <<snapshot, registered, pending, job, batch>>
          /\ requestChan' = requestChan /\ table' = table /\ stored' = stored
          /\ respCh' = respCh /\ attempt' = attempt
      BY <2>1
    <2> QED BY <2>2, <2>3, <2>4, <2>5, QuietCall
  <1>9. CASE Cancel(w)
    <2>1. UNCHANGED <<pc, attempt, snapshot, registered, pending, job, batch, requestChan, respCh, table, stored>>
      BY <1>9 DEF Cancel, catalogVars, batcherVars, callVars
    <2>2. FreshFiles' /\ QueueSound'
      BY <2>1 DEF FileInv, FreshFiles, QueueSound, InUse, Ahead
    <2>3. FilesKept' /\ Confirmed' /\ TableSound'
      BY <2>1 DEF FileInv, FilesKept, Confirmed, TableSound, File, Registered
    <2> QED BY <2>2, <2>3 DEF FileInv
  <1> QED BY <1>2, <1>3, <1>4, <1>5, <1>6, <1>7, <1>8, <1>9 DEF CallStep

\* Submit hands over a file that nobody has seen before.
LEMMA FileSubmit ==
    ASSUME TypeOK, LockInv, FileInv, NEW w \in Calls, Submit(w)
    PROVE  FileInv'
  <1>1. FreshFiles /\ QueueSound /\ FilesKept /\ Confirmed /\ TableSound
    BY DEF FileInv
  <1>2. /\ pc[w] = "submit" /\ Goto(w, "wait") /\ requestChan' = Append(requestChan, File(w))
        /\ UNCHANGED <<attempt, snapshot, registered, pending, job, batch, respCh, table, stored>>
    BY DEF Submit, Send, catalogVars
  <1>3. \A v \in Calls : pc'[v] = IF v = w THEN "wait" ELSE pc[v]
    BY <1>2, Moves
  <1>4. PICK r \in Requests : r = File(w) /\ r = <<w, attempt[w]>>
    BY FileType DEF TypeOK, File
  <1>5. attempt[w] \in 1 .. 2 /\ requestChan \in Seq(Requests)
    BY DEF TypeOK, BatcherTypeOK
  <1>6. ~InUse(r) /\ r \notin ToSet(requestChan) /\ r \notin ToSet(batch)
    <2>1. Ahead(w, attempt[w])
      BY <1>2 DEF Ahead, Early
    <2> QED BY <1>1, <1>4, <1>5, <2>1 DEF FreshFiles
  <1>7. \A f : InUse(f)' <=> InUse(f)
    BY <1>2 DEF InUse
  <1>8. /\ Len(requestChan') = Len(requestChan) + 1 /\ ToSet(requestChan') = ToSet(requestChan) \cup {r}
        /\ requestChan' = Append(requestChan, r)
    BY <1>2, <1>4, <1>5, ToSetOfAppend
  <1>9. FreshFiles'
    <2> SUFFICES ASSUME NEW v \in Calls, NEW a \in 1 .. 2, Ahead(v, a)'
                 PROVE  ~InUse(<<v, a>>)' /\ <<v, a>> \notin ToSet(requestChan') \cup ToSet(batch')
      BY DEF FreshFiles
    <2>1. Ahead(v, a)
      <3>1. attempt' = attempt /\ ("wait" \in Early => pc[w] \in Early)
        BY <1>2 DEF Early
      <3> QED BY <1>3, <3>1, AheadMoves
    <2>2. <<v, a>> # r
      <3>1. v = w => a # attempt[w]
        BY <1>2, <1>3, <1>5 DEF Ahead, Early
      <3> QED BY <1>4, <3>1
    <2>3. ~InUse(<<v, a>>) /\ <<v, a>> \notin ToSet(requestChan) \cup ToSet(batch)
      BY <1>1, <2>1 DEF FreshFiles
    <2> QED BY <1>2, <1>7, <1>8, <2>2, <2>3
  <1>10. QueueSound'
    <2>1. \A f \in ToSet(requestChan') : ~InUse(f)' /\ f \notin ToSet(batch')
      BY <1>1, <1>2, <1>6, <1>7, <1>8 DEF QueueSound
    <2>2. ASSUME NEW i \in 1 .. Len(requestChan'), NEW j \in 1 .. Len(requestChan'),
                 requestChan'[i] = requestChan'[j]
          PROVE  i = j
      <3>1. /\ \A k \in 1 .. Len(requestChan) : requestChan'[k] = requestChan[k]
            /\ requestChan'[Len(requestChan) + 1] = r
        BY <1>5, <1>8, AppendProperties
      <3>2. \A k \in 1 .. Len(requestChan) : requestChan[k] # r
        BY <1>5, <1>6 DEF ToSet
      <3>3. Len(requestChan) \in Nat
        BY <1>5
      <3>4. i \in 1 .. Len(requestChan) \/ i = Len(requestChan) + 1
        BY <1>8, <3>3
      <3>5. j \in 1 .. Len(requestChan) \/ j = Len(requestChan) + 1
        BY <1>8, <3>3
      <3> QED BY <1>1, <2>2, <3>1, <3>2, <3>4, <3>5 DEF QueueSound
    <2>3. job'.by # "batcher" => \A f \in ToSet(batch') : ~InUse(f)'
      BY <1>1, <1>2, <1>7 DEF QueueSound
    <2> QED BY <2>1, <2>2, <2>3 DEF QueueSound
  <1>11. FilesKept' /\ Confirmed'
    BY <1>1, <1>2, <1>3 DEF FilesKept, Confirmed, File
  <1>12. TableSound'
    BY <1>1, <1>2, TableFrame
  <1> QED BY <1>9, <1>10, <1>11, <1>12 DEF FileInv

\* commitRowDelta takes commitMu for a file that nobody has seen before.
LEMMA FileRowDelta ==
    ASSUME TypeOK, LockInv, FileInv, NEW w \in Calls, commitRowDelta(w)
    PROVE  FileInv'
  <1>1. FreshFiles /\ QueueSound /\ FilesKept /\ Confirmed /\ TableSound
    BY DEF FileInv
  <1>2. /\ pc[w] = "delta" /\ job = NoJob
        /\ UNCHANGED <<attempt, snapshot, registered, pending, batch, requestChan, respCh, table, stored>>
        /\ \/ Goto(w, "cleanup") /\ UNCHANGED job
           \/ Goto(w, "commit") /\ job' = NewJob(w, {File(w)})
    BY DEF commitRowDelta, catalogVars, batcherVars
  <1>3. CASE Goto(w, "cleanup") /\ UNCHANGED job
    <2>1. \A v \in Calls : pc'[v] = IF v = w THEN "cleanup" ELSE pc[v]
      BY <1>3, Moves
    <2> QED BY <1>2, <1>3, <2>1, QuietCall DEF Early
  <1>4. CASE Goto(w, "commit") /\ job' = NewJob(w, {File(w)})
    <2>1. \A v \in Calls : pc'[v] = IF v = w THEN "commit" ELSE pc[v]
      BY <1>4, Moves
    <2>2. PICK r \in Requests : r = File(w) /\ r = <<w, attempt[w]>>
      BY FileType DEF TypeOK, File
    <2>3. job'.by = w /\ job'.files = {r} /\ job.files = {}
      BY <1>2, <1>4, <2>2, NewJobType DEF NoJob
    <2>4. attempt[w] \in 1 .. 2
      BY DEF TypeOK
    <2>5. ~InUse(r) /\ r \notin ToSet(requestChan) /\ r \notin ToSet(batch)
      <3>1. Ahead(w, attempt[w])
        BY <1>2 DEF Ahead, Early
      <3> QED BY <1>1, <2>2, <2>4, <3>1 DEF FreshFiles
    <2>6. \A f : InUse(f)' <=> InUse(f) \/ f = r
      BY <1>2, <2>3 DEF InUse
    <2>7. FreshFiles'
      <3> SUFFICES ASSUME NEW v \in Calls, NEW a \in 1 .. 2, Ahead(v, a)'
                   PROVE  ~InUse(<<v, a>>)' /\ <<v, a>> \notin ToSet(requestChan') \cup ToSet(batch')
        BY DEF FreshFiles
      <3>1. Ahead(v, a)
        <4>1. attempt' = attempt /\ ("commit" \in Early => pc[w] \in Early)
          BY <1>2 DEF Early
        <4> QED BY <2>1, <4>1, AheadMoves
      <3>2. <<v, a>> # r
        <4>1. v = w => a # attempt[w]
          BY <1>2, <2>1, <2>4 DEF Ahead, Early
        <4> QED BY <2>2, <4>1
      <3>3. ~InUse(<<v, a>>) /\ <<v, a>> \notin ToSet(requestChan) \cup ToSet(batch)
        BY <1>1, <3>1 DEF FreshFiles
      <3> QED BY <1>2, <2>6, <3>2, <3>3
    <2>8. QueueSound'
      <3>1. job.by # "batcher"
        BY <1>2 DEF NoJob
      <3> QED BY <1>1, <1>2, <2>5, <2>6, <3>1 DEF QueueSound
    <2>9. FilesKept' /\ Confirmed'
      BY <1>1, <1>2, <2>1 DEF FilesKept, Confirmed, File
    <2>10. TableSound'
      BY <1>1, <1>2, TableFrame
    <2> QED BY <2>7, <2>8, <2>9, <2>10 DEF FileInv
  <1> QED BY <1>2, <1>3, <1>4

\* The goroutine of the batcher collects requests.
LEMMA FileCollect ==
    ASSUME TypeOK, LockInv, FileInv, Collect
    PROVE  FileInv'
  <1>1. FreshFiles /\ QueueSound /\ FilesKept /\ Confirmed /\ TableSound
    BY DEF FileInv
  <1>2. UNCHANGED <<pc, attempt, snapshot, registered, pending, job, table, stored, respCh>>
    BY DEF Collect, catalogVars, callVars, Dequeue, StartCall, Exit
  <1>3. \A f : InUse(f)' <=> InUse(f)
    BY <1>2 DEF InUse
  <1>4. \A v \in Calls, a \in 1 .. 2 : Ahead(v, a)' => Ahead(v, a)
    BY <1>2 DEF Ahead
  <1>5. FilesKept' /\ Confirmed'
    BY <1>1, <1>2 DEF FilesKept, Confirmed, File
  <1>6. TableSound'
    BY <1>1, <1>2, TableFrame
  <1>7. CASE StartCall \/ Exit
    <2>1. UNCHANGED <<requestChan, batch>>
      BY <1>7 DEF StartCall, Exit
    <2>2. FreshFiles'
      BY <1>1, <1>3, <1>4, <2>1, FreshFrame
    <2>3. QueueSound'
      BY <1>1, <1>2, <1>3, <2>1, QueueFrame
    <2> QED BY <1>5, <1>6, <2>2, <2>3 DEF FileInv
  <1>8. CASE Dequeue
    <2>1. /\ runner = "dequeue" /\ requestChan # <<>>
          /\ requestChan \in Seq(Requests) /\ batch \in Seq(Requests)
          /\ batch' = Append(batch, Head(requestChan)) /\ requestChan' = Tail(requestChan)
      BY <1>8 DEF Dequeue, TypeOK, BatcherTypeOK
    <2>2. PICK r \in Requests : r = Head(requestChan)
      BY <2>1, ToSetOfTail
    <2>3. /\ r \in ToSet(requestChan) /\ ToSet(requestChan') \subseteq ToSet(requestChan)
          /\ Len(requestChan') = Len(requestChan) - 1 /\ Len(requestChan) > 0
          /\ \A i \in 1 .. Len(requestChan') : requestChan'[i] = requestChan[i + 1]
      BY <2>1, <2>2, ToSetOfTail
    <2>4. ToSet(batch') = ToSet(batch) \cup {r}
      BY <2>1, <2>2, ToSetOfAppend
    <2>5. FreshFiles'
      BY <1>1, <1>3, <1>4, <2>3, <2>4, FreshFrame
    <2>6. job.by # "batcher"
      BY <2>1 DEF LockInv, JobHeld
    <2>7. Len(requestChan) \in Nat /\ r = requestChan[1] /\ requestChan' \in Seq(Requests)
      BY <2>1, <2>2, ToSetOfTail
    <2>8. \A i \in 1 .. Len(requestChan') : i + 1 \in 1 .. Len(requestChan) /\ i + 1 # 1
      BY <2>3, <2>7
    <2>9. r \notin ToSet(requestChan')
      <3>1. ASSUME NEW i \in 1 .. Len(requestChan') PROVE requestChan'[i] # r
        <4>1. i + 1 \in 1 .. Len(requestChan) /\ 1 \in 1 .. Len(requestChan) /\ i + 1 # 1
          BY <2>3, <2>7, <2>8
        <4> QED BY <1>1, <2>3, <2>7, <4>1 DEF QueueSound
      <3>2. DOMAIN requestChan' = 1 .. Len(requestChan')
        BY <2>7
      <3> QED BY <3>1, <3>2 DEF ToSet
    <2>10. QueueSound'
      <3>1. \A f \in ToSet(requestChan') : ~InUse(f)' /\ f \notin ToSet(batch')
        BY <1>1, <1>3, <2>3, <2>4, <2>9 DEF QueueSound
      <3>2. ASSUME NEW i \in 1 .. Len(requestChan'), NEW j \in 1 .. Len(requestChan'),
                   requestChan'[i] = requestChan'[j]
            PROVE  i = j
        <4>1. requestChan[i + 1] = requestChan[j + 1]
          BY <2>3, <3>2
        <4>2. i + 1 = j + 1
          BY <1>1, <2>8, <4>1 DEF QueueSound
        <4> QED BY <4>2
      <3>3. \A f \in ToSet(batch') : ~InUse(f)'
        BY <1>1, <1>3, <2>3, <2>4, <2>6 DEF QueueSound
      <3> QED BY <3>1, <3>2, <3>3 DEF QueueSound
    <2> QED BY <1>5, <1>6, <2>5, <2>10 DEF FileInv
  <1> QED BY <1>7, <1>8 DEF Collect

\* doCommit answers its batch, or starts to commit what is in no other place.
LEMMA FileDoCommit ==
    ASSUME TypeOK, LockInv, FileInv, doCommit
    PROVE  FileInv'
  <1>1. FreshFiles /\ QueueSound /\ FilesKept /\ Confirmed /\ TableSound
    BY DEF FileInv
  <1>2. /\ UNCHANGED <<pc, attempt, snapshot, registered, pending, table, stored>>
        /\ runner = "call" /\ job = NoJob
        /\ \/ Reply("error") /\ UNCHANGED job
           \/ job' = NewJob("batcher", ToSet(batch)) /\ UNCHANGED batcherVars
    BY DEF doCommit, catalogVars, callVars
  <1>3. \A v \in Calls, a \in 1 .. 2 : Ahead(v, a)' => Ahead(v, a)
    BY <1>2 DEF Ahead
  <1>4. FilesKept'
    BY <1>1, <1>2 DEF FilesKept, File
  <1>5. TableSound'
    BY <1>1, <1>2, TableFrame
  <1>6. \A w \in Calls : pc'[w] = "ok" => registered'[File(w)'] > 0
    BY <1>1, <1>2 DEF Confirmed, File
  <1>7. job.files = {} /\ job.by # "batcher"
    BY <1>2 DEF NoJob
  <1>8. CASE Reply("error") /\ UNCHANGED job
    <2>1. /\ requestChan' = requestChan /\ batch' = <<>>
          /\ respCh' = [r \in Requests |-> IF r \in ToSet(batch) THEN "error" ELSE respCh[r]]
      BY <1>8 DEF Reply
    <2>2. \A f : InUse(f)' <=> InUse(f)
      BY <1>2, <1>8 DEF InUse
    <2>3. FreshFiles'
      BY <1>1, <1>3, <2>1, <2>2, ToSetOfEmpty, FreshFrame
    <2>4. QueueSound'
      BY <1>1, <2>1, <2>2, QueueFrame
    <2>5. Confirmed'
      BY <1>1, <1>2, <1>6, <2>1 DEF Confirmed
    <2> QED BY <1>4, <1>5, <2>3, <2>4, <2>5 DEF FileInv
  <1>9. CASE job' = NewJob("batcher", ToSet(batch)) /\ UNCHANGED batcherVars
    <2>1. ToSet(batch) \in SUBSET Requests
      BY ToSetType DEF TypeOK, BatcherTypeOK
    <2>2. /\ job'.by = "batcher" /\ job'.files = ToSet(batch)
          /\ UNCHANGED <<requestChan, batch, respCh>>
      BY <1>9, <2>1, NewJobType DEF batcherVars
    <2>3. \A f : InUse(f)' <=> InUse(f) \/ f \in ToSet(batch)
      BY <1>2, <1>7, <2>2 DEF InUse
    <2>4. FreshFiles'
      <3> SUFFICES ASSUME NEW v \in Calls, NEW a \in 1 .. 2, Ahead(v, a)'
                   PROVE  ~InUse(<<v, a>>)' /\ <<v, a>> \notin ToSet(requestChan') \cup ToSet(batch')
        BY DEF FreshFiles
      <3>1. ~InUse(<<v, a>>) /\ <<v, a>> \notin ToSet(requestChan) \cup ToSet(batch)
        BY <1>1, <1>3 DEF FreshFiles
      <3> QED BY <2>2, <2>3, <3>1
    <2>5. QueueSound'
      BY <1>1, <2>2, <2>3 DEF QueueSound
    <2>6. Confirmed'
      BY <1>1, <1>2, <1>6, <2>2 DEF Confirmed
    <2> QED BY <1>4, <1>5, <2>4, <2>5, <2>6 DEF FileInv
  <1> QED BY <1>2, <1>8, <1>9

\* What a commit does to the table.
LEMMA LandEffect ==
    ASSUME TypeOK, NEW files, Land(files)
    PROVE  /\ snapshot' = snapshot + 1
           /\ \A f \in Requests : registered'[f] = IF f \in files THEN registered[f] + 1 ELSE registered[f]
           /\ \A f \in Requests : /\ registered'[f] > 0 <=> (registered[f] > 0 \/ f \in files)
                                  /\ registered[f] > 0 => registered'[f] > 0
  <1>1. /\ snapshot' = snapshot + 1
        /\ \A f \in Requests : registered'[f] = IF f \in files THEN registered[f] + 1 ELSE registered[f]
    BY DEF Land
  <1>2. \A f \in Requests : registered[f] \in Nat
    BY DEF TypeOK
  <1> QED BY <1>1, <1>2

\* The cached table falls behind.
LEMMA TableBehind ==
    ASSUME TypeOK, TableSound, UNCHANGED table, snapshot' = snapshot + 1,
           \A f \in Requests : registered[f] > 0 => registered'[f] > 0
    PROVE  TableSound'
  <1>1. table.snap \in Nat /\ snapshot \in Nat
    BY DEF TypeOK
  <1>2. Registered \subseteq Registered'
    BY DEF Registered
  <1> QED BY <1>1, <1>2 DEF TableSound

\* A step of the commit that is under way, or of the catalog: the files that the
\* catalog may know are the same or fewer.
LEMMA FileFrame ==
    ASSUME TypeOK, FileInv, TableSound', UNCHANGED <<attempt, stored, requestChan>>,
           \A f \in Requests : InUse(f)' => InUse(f),
           \A f \in Requests : registered[f] > 0 => registered'[f] > 0,
           \A f \in Requests : respCh'[f] = "ok" => respCh[f] = "ok" \/ registered'[f] > 0,
           \A v \in Calls : \/ pc'[v] = pc[v]
                            \/ pc[v] = "commit" /\ pc'[v] = "cleanup"
                            \/ pc[v] = "commit" /\ pc'[v] = "ok" /\ registered'[File(v)] > 0,
           \/ batch' = <<>>
           \/ batch' = batch /\ (job.by = "batcher" => job'.by = "batcher")
    PROVE  FileInv'
  <1>1. FreshFiles /\ QueueSound /\ FilesKept /\ Confirmed
    BY DEF FileInv
  <1>2. \A v \in Calls, a \in 1 .. 2 : Ahead(v, a)' => Ahead(v, a)
    BY DEF Ahead, Early
  <1>3. FreshFiles'
    <2>1. ToSet(requestChan') \cup ToSet(batch') \subseteq ToSet(requestChan) \cup ToSet(batch)
      BY ToSetOfEmpty
    <2> QED BY <1>1, <1>2, <2>1, FreshFrame
  <1>4. QueueSound'
    BY <1>1, QueueFrame
  <1>5. \A v \in Calls : File(v)' = File(v) /\ File(v) \in Requests
    BY FileType DEF File, TypeOK
  <1>6. FilesKept'
    BY <1>1, <1>5 DEF FilesKept
  <1>7. Confirmed'
    <2>1. ASSUME NEW v \in Calls, pc'[v] = "ok" PROVE registered'[File(v)'] > 0
      BY <1>1, <1>5, <2>1 DEF Confirmed
    <2>2. \A f \in Requests : respCh'[f] = "ok" => registered'[f] > 0
      BY <1>1 DEF Confirmed
    <2> QED BY <2>1, <2>2 DEF Confirmed
  <1> QED BY <1>3, <1>4, <1>6, <1>7 DEF FileInv

\* The end of a commit, which confirms only what is in the table.
LEMMA FileFinish ==
    ASSUME TypeOK, LockInv, FileInv, TableSound', job.stage # "idle",
           NEW result \in {"ok", "error"}, Finish(result), UNCHANGED <<attempt, stored>>,
           \A f \in Requests : registered'[f] > 0 => registered[f] > 0 \/ f \in job.files,
           \A f \in Requests : registered[f] > 0 => registered'[f] > 0,
           pending' = pending,
           result = "ok" => \A f \in job.files : registered'[f] > 0
    PROVE  FileInv'
  <1>1. job' = NoJob /\ NoJob.files = {}
    BY FinishEffect DEF NoJob
  <1>2. \A f \in Requests : InUse(f)' => InUse(f)
    BY <1>1 DEF InUse
  <1>3. CASE /\ job.by = "batcher" /\ batch' = <<>> /\ UNCHANGED <<pc, requestChan>>
             /\ respCh' = [r \in Requests |-> IF r \in ToSet(batch) THEN result ELSE respCh[r]]
    <2>1. job.files = ToSet(batch)
      BY <1>3 DEF LockInv, JobHeld
    <2>2. \A f \in Requests : respCh'[f] = "ok" => respCh[f] = "ok" \/ registered'[f] > 0
      BY <1>3, <2>1
    <2> QED BY <1>2, <1>3, <2>2, FileFrame
  <1>4. ASSUME NEW w \in Calls, job.by = w, pc[w] = "commit",
               \A v \in Calls : pc'[v] = IF v = w THEN IF result = "ok" THEN "ok" ELSE "cleanup" ELSE pc[v],
               UNCHANGED <<requestChan, batch, respCh>>
        PROVE  FileInv'
    <2>1. job.files = {File(w)} /\ job.by # "batcher"
      BY <1>4 DEF LockInv, JobHeld
    <2>2. ASSUME NEW v \in Calls
          PROVE  \/ pc'[v] = pc[v]
                 \/ pc[v] = "commit" /\ pc'[v] = "cleanup"
                 \/ pc[v] = "commit" /\ pc'[v] = "ok" /\ registered'[File(v)] > 0
      BY <1>4, <2>1
    <2> QED BY <1>2, <1>4, <2>1, <2>2, FileFrame
  <1> QED BY <1>3, <1>4, FinishEffect

\* What is not staged is in the table already.
LEMMA StagedRest ==
    ASSUME TypeOK, TableSound
    PROVE  /\ Staged \subseteq job.files /\ job.files \subseteq Requests
           /\ \A f \in job.files : f \in Staged \/ registered[f] > 0
  BY DEF Staged, TypeOK, TableSound, Registered

LEMMA FileAccepted ==
    ASSUME TypeOK, LockInv, FileInv, job.stage # "idle", CommitAccepted, UNCHANGED <<attempt, stored>>
    PROVE  FileInv'
  <1>1. TableSound /\ Finish("ok") /\ pending' = pending
    BY DEF FileInv, CommitAccepted
  <1>2. CASE Staged = {}
    <2>1. UNCHANGED <<snapshot, registered, table>>
      BY <1>2 DEF CommitAccepted
    <2>2. TableSound'
      BY <1>1, <2>1, TableFrame
    <2>3. \A f \in job.files : registered'[f] > 0
      BY <1>1, <1>2, <2>1, StagedRest
    <2> QED BY <1>1, <2>1, <2>2, <2>3, FileFinish
  <1>3. CASE Staged # {}
    <2>1. /\ Land(Staged) /\ table.snap = snapshot
          /\ table' = [snap |-> snapshot + 1, schema |-> schema, files |-> Registered \cup Staged]
      BY <1>3 DEF CommitAccepted
    <2>2. /\ snapshot' = snapshot + 1
          /\ \A f \in Requests : /\ registered'[f] > 0 <=> (registered[f] > 0 \/ f \in Staged)
                                 /\ registered[f] > 0 => registered'[f] > 0
      BY <2>1, LandEffect
    <2>3. Staged \subseteq job.files /\ job.files \subseteq Requests
          /\ \A f \in job.files : f \in Staged \/ registered[f] > 0
      BY <1>1, StagedRest
    <2>4. TableSound'
      <3>1. table'.snap = snapshot + 1 /\ table'.files = Registered \cup Staged
        BY <2>1
      <3>2. Registered' = Registered \cup Staged
        BY <2>2, <2>3 DEF Registered
      <3>3. snapshot + 1 <= snapshot + 1
        BY DEF TypeOK
      <3> QED BY <2>2, <3>1, <3>2, <3>3 DEF TableSound
    <2>5. \A f \in Requests : registered'[f] > 0 => registered[f] > 0 \/ f \in job.files
      BY <2>2, <2>3
    <2>6. \A f \in job.files : registered'[f] > 0
      BY <2>2, <2>3
    <2> QED BY <1>1, <2>2, <2>4, <2>5, <2>6, FileFinish
  <1> QED BY <1>2, <1>3

\* What an error of Transaction.Commit may do to the catalog.
LEMMA ErrorEffect ==
    ASSUME TypeOK, CommitError
    PROVE  \E error \in {"failed", "unknown", "other"} :
              /\ Staged # {}
              /\ job'.by = job.by /\ job'.files = job.files /\ job'.reloaded = job.reloaded
              /\ job'.stage = AfterError(error)
              /\ UNCHANGED <<schema, table, pc, requestChan, batch, runner, respCh>>
              /\ \/ UNCHANGED <<snapshot, registered, pending>>
                 \/ /\ error # "failed" \/ LandedConflict
                    /\ table.snap = snapshot /\ Land(Staged) /\ UNCHANGED pending
                 \/ /\ error # "failed"
                    /\ pending' = pending \cup {[snap |-> table.snap, files |-> Staged]}
                    /\ UNCHANGED <<snapshot, registered>>
  <1>1. PICK error \in {"failed", "unknown", "other"} :
          /\ job' = [job EXCEPT !.stage = AfterError(error), !.tries = @ + 1]
          /\ \/ UNCHANGED <<snapshot, registered, pending>>
             \/ /\ error # "failed" \/ LandedConflict
                /\ table.snap = snapshot /\ Land(Staged) /\ UNCHANGED pending
             \/ /\ error # "failed"
                /\ pending' = pending \cup {[snap |-> table.snap, files |-> Staged]}
                /\ UNCHANGED <<snapshot, registered>>
    BY DEF CommitError
  <1>2. Staged # {} /\ UNCHANGED <<schema, table, pc, requestChan, batch, runner, respCh>>
    BY DEF CommitError, batcherVars
  <1>3. PICK to : to = AfterError(error)
    OBVIOUS
  <1>4. PICK j \in Job : j = job
    BY DEF TypeOK
  <1>5. job' = [j EXCEPT !.stage = to, !.tries = j.tries + 1]
    BY <1>1, <1>3, <1>4
  <1>6. job'.by = job.by /\ job'.files = job.files /\ job'.reloaded = job.reloaded /\ job'.stage = to
    BY <1>4, <1>5
  <1> QED BY <1>1, <1>2, <1>3, <1>6

LEMMA FileError ==
    ASSUME TypeOK, LockInv, FileInv, CommitError, UNCHANGED <<attempt, stored>>
    PROVE  FileInv'
  <1>1. TableSound /\ Staged \subseteq job.files /\ job.files \subseteq Requests
    BY StagedRest DEF FileInv
  <1>2. PICK error \in {"failed", "unknown", "other"} :
              /\ job'.by = job.by /\ job'.files = job.files
              /\ UNCHANGED <<table, pc, requestChan, batch, respCh>>
              /\ \/ UNCHANGED <<snapshot, registered, pending>>
                 \/ Land(Staged) /\ UNCHANGED pending
                 \/ /\ pending' = pending \cup {[snap |-> table.snap, files |-> Staged]}
                    /\ UNCHANGED <<snapshot, registered>>
    BY ErrorEffect
  <1>3. CASE UNCHANGED <<snapshot, registered, pending>>
    <2>1. TableSound'
      BY <1>1, <1>2, <1>3, TableFrame
    <2>2. \A f \in Requests : InUse(f)' => InUse(f)
      BY <1>2, <1>3 DEF InUse
    <2> QED BY <1>2, <1>3, <2>1, <2>2, FileFrame
  <1>4. CASE Land(Staged) /\ UNCHANGED pending
    <2>1. /\ snapshot' = snapshot + 1
          /\ \A f \in Requests : /\ registered'[f] > 0 <=> (registered[f] > 0 \/ f \in Staged)
                                 /\ registered[f] > 0 => registered'[f] > 0
      BY <1>4, LandEffect
    <2>2. TableSound'
      BY <1>1, <1>2, <2>1, TableBehind
    <2>3. \A f \in Requests : InUse(f)' => InUse(f)
      BY <1>1, <1>2, <1>4, <2>1 DEF InUse
    <2> QED BY <1>2, <2>1, <2>2, <2>3, FileFrame
  <1>5. CASE /\ pending' = pending \cup {[snap |-> table.snap, files |-> Staged]}
             /\ UNCHANGED <<snapshot, registered>>
    <2>1. TableSound'
      BY <1>1, <1>2, <1>5, TableFrame
    <2>2. PICK new : new = [snap |-> table.snap, files |-> Staged]
      OBVIOUS
    <2>3. pending' = pending \cup {new} /\ new.files = Staged
      BY <1>5, <2>2
    <2>4. \A f \in Requests : InUse(f)' => InUse(f)
      BY <1>1, <1>2, <1>5, <2>3 DEF InUse
    <2> QED BY <1>2, <1>5, <2>1, <2>4, FileFrame
  <1> QED BY <1>2, <1>3, <1>4, <1>5

LEMMA FileStep ==
    ASSUME TypeOK, LockInv, FileInv, [Next]_vars
    PROVE  FileInv'
  <1>1. TableSound
    BY DEF FileInv
  <1>2. ASSUME UNCHANGED <<snapshot, registered, pending, pc, attempt, stored, requestChan, batch, respCh>>,
               job'.by = job.by, job'.files = job.files, table' = table \/ table' = LoadTable
        PROVE  FileInv'
    <2>1. TableSound'
      BY <1>1, <1>2, TableFrame
    <2>2. \A f \in Requests : InUse(f)' => InUse(f)
      BY <1>2 DEF InUse
    <2> QED BY <1>2, <2>1, <2>2, FileFrame
  <1>3. CASE UNCHANGED vars
    BY <1>2, <1>3 DEF vars, catalogVars, callVars, batcherVars
  <1>4. CASE \E w \in Calls : CallStep(w) \/ Cancel(w)
    BY <1>4, FileCall, FileSubmit, FileRowDelta
  <1>5. CASE Collect \/ doCommit
    BY <1>5, FileCollect, FileDoCommit
  <1>6. CASE Try
    BY <1>6, FileAccepted, FileError DEF Try
  <1>7. CASE StageFails \/ Exhausted \/ Fatal
    <2>1. /\ job.stage # "idle" /\ Finish("error")
          /\ table' = table \/ table' = LoadTable
          /\ UNCHANGED <<snapshot, registered, pending, attempt, stored>>
      BY <1>7 DEF StageFails, Exhausted, Fatal, catalogVars
    <2>2. TableSound'
      BY <1>1, <2>1, TableFrame
    <2> QED BY <2>1, <2>2, FileFinish
  <1>8. CASE Reload
    <2>1. /\ UNCHANGED <<snapshot, registered, pending, pc, attempt, stored, requestChan, batch, respCh>>
          /\ table' = table \/ table' = LoadTable
          /\ \/ job' = [job EXCEPT !.stage = "try", !.reloaded = TRUE]
             \/ job' = [job EXCEPT !.stage = "try"]
      BY <1>8 DEF Reload, catalogVars, callVars, batcherVars
    <2>2. job'.by = job.by /\ job'.files = job.files
      BY <2>1 DEF TypeOK
    <2> QED BY <1>2, <2>1, <2>2
  <1>9. CASE ForeignEvolve
    BY <1>2, <1>9 DEF ForeignEvolve, callVars, batcherVars
  <1>10. CASE ForeignCommit
    <2>1. /\ snapshot' = snapshot + 1
          /\ UNCHANGED <<registered, pending, table, job, pc, attempt, stored, requestChan, batch, respCh>>
      BY <1>10 DEF ForeignCommit, callVars, batcherVars
    <2>2. TableSound'
      BY <1>1, <2>1, TableBehind
    <2>3. \A f \in Requests : InUse(f)' => InUse(f)
      BY <2>1 DEF InUse
    <2> QED BY <2>1, <2>2, <2>3, FileFrame
  <1>11. CASE LateLanding
    <2>1. PICK p \in pending :
            /\ pending' = pending \ {p}
            /\ Land(p.files) \/ UNCHANGED <<snapshot, registered>>
            /\ UNCHANGED <<table, job, pc, attempt, stored, requestChan, batch, respCh>>
      BY <1>11 DEF LateLanding, callVars, batcherVars
    <2>2. CASE UNCHANGED <<snapshot, registered>>
      <3>1. TableSound'
        BY <1>1, <2>1, <2>2, TableFrame
      <3>2. \A f \in Requests : InUse(f)' => InUse(f)
        BY <2>1, <2>2 DEF InUse
      <3> QED BY <2>1, <2>2, <3>1, <3>2, FileFrame
    <2>3. CASE Land(p.files)
      <3>1. /\ snapshot' = snapshot + 1
            /\ \A f \in Requests : /\ registered'[f] > 0 <=> (registered[f] > 0 \/ f \in p.files)
                                   /\ registered[f] > 0 => registered'[f] > 0
        BY <2>3, LandEffect
      <3>2. TableSound'
        BY <1>1, <2>1, <3>1, TableBehind
      <3>3. \A f \in Requests : InUse(f)' => InUse(f)
        BY <2>1, <3>1 DEF InUse
      <3> QED BY <2>1, <3>1, <3>2, <3>3, FileFrame
    <2> QED BY <2>1, <2>2, <2>3
  <1> QED BY <1>3, <1>4, <1>5, <1>6, <1>7, <1>8, <1>9, <1>10, <1>11 DEF Next, CommitStep

-----------------------------------------------------------------------------
(* No file is added twice.                                                 *)

\* A commit without a reply that could still be applied holds no file of the
\* table.
PendingSound ==
    \A p \in pending :
        /\ p.snap <= snapshot
        /\ p.snap = snapshot => \A f \in p.files : registered[f] = 0

\* The commit under way can only be accepted while none of its files is in the
\* table: the batcher's because it would be based on an old snapshot, or leaves
\* the file out; a call's because it is never repeated unless it has failed.
JobSound ==
    /\ job.by = "batcher" /\ ~job.reloaded /\ table.snap = snapshot =>
          \A f \in job.files : registered[f] = 0
    /\ \A w \in Calls : job.by = w /\ job.stage \in {"try", "reload"} =>
          /\ registered[File(w)] = 0
          /\ \A p \in pending : File(w) \notin p.files

\* The inductive invariant behind RegisteredOnce.
CommitInv == PendingSound /\ JobSound /\ RegisteredOnce

\* A catalog that reports ErrCommitFailed for a commit that landed is met with
\* appends only.
HonestConflicts == ~LandedConflict \/ Keyed = {}

LEMMA CommitInit == Init => CommitInv
  BY DEF Init, CommitInv, PendingSound, JobSound, RegisteredOnce, NoJob

\* What the next attempt would add is not in the table, if it can be accepted.
LEMMA StagedFresh ==
    ASSUME TypeOK, LockInv, FileInv, CommitInv, job.stage = "try", table.snap = snapshot,
           NEW f \in Staged
    PROVE  f \in Requests /\ registered[f] = 0
  <1>1. f \in job.files /\ f \in Requests /\ TableSound
    BY StagedRest DEF FileInv
  <1>2. registered[f] \in Nat
    BY <1>1 DEF TypeOK
  <1>3. CASE job.by = "batcher" /\ job.reloaded
    <2>1. f \notin table.files
      BY <1>3 DEF Staged
    <2>2. ~(registered[f] > 0)
      BY <1>1, <2>1 DEF TableSound, Registered
    <2> QED BY <1>1, <1>2, <2>2
  <1>4. CASE job.by = "batcher" /\ ~job.reloaded
    BY <1>1, <1>4 DEF CommitInv, JobSound
  <1>5. CASE job.by # "batcher"
    <2>1. PICK w \in Calls : w = job.by
      BY <1>5, Underway DEF TypeOK
    <2>2. f = File(w)
      BY <1>1, <2>1 DEF LockInv, JobHeld
    <2> QED BY <1>1, <2>1, <2>2 DEF CommitInv, JobSound
  <1> QED BY <1>3, <1>4, <1>5

\* The file of a call that commits stays the same.
LEMMA CommittedFile ==
    ASSUME LockInv, NEW w \in Calls, job.by = w,
           \A v \in Calls : attempt'[v] = attempt[v] \/ pc[v] # "commit"
    PROVE  File(w)' = File(w)
  BY DEF LockInv, JobHeld, File

\* A step that leaves the catalog and the commit alone.
LEMMA CommitFrame ==
    ASSUME LockInv, CommitInv, UNCHANGED <<snapshot, registered, pending, job>>,
           table' = table \/ job.by # "batcher",
           \A v \in Calls : attempt'[v] = attempt[v] \/ pc[v] # "commit"
    PROVE  CommitInv'
  <1>1. PendingSound' /\ RegisteredOnce'
    BY DEF CommitInv, PendingSound, RegisteredOnce
  <1>2. JobSound'
    <2>1. job'.by = "batcher" /\ ~job'.reloaded /\ table'.snap = snapshot' => \A f \in job'.files : registered'[f] = 0
      BY DEF CommitInv, JobSound
    <2>2. ASSUME NEW w \in Calls, job'.by = w, job'.stage \in {"try", "reload"}
          PROVE  registered'[File(w)'] = 0 /\ \A p \in pending' : File(w)' \notin p.files
      <3>1. File(w)' = File(w)
        BY <2>2, CommittedFile
      <3> QED BY <2>2, <3>1 DEF CommitInv, JobSound
    <2> QED BY <2>1, <2>2 DEF JobSound
  <1> QED BY <1>1, <1>2 DEF CommitInv

\* A commit has ended.
LEMMA CommitEnded ==
    ASSUME job' = NoJob, PendingSound', RegisteredOnce'
    PROVE  CommitInv'
  BY DEF CommitInv, JobSound, NoJob

\* A commit lands: what is pending, or based on another table, is out of date.
LEMMA LandSound ==
    ASSUME TypeOK, CommitInv, NEW files \in SUBSET Requests, Land(files),
           \A f \in files : registered[f] = 0, pending' \subseteq pending
    PROVE  /\ PendingSound' /\ RegisteredOnce'
           /\ \A f \in Requests : f \notin files => registered'[f] = registered[f]
  <1>1. /\ snapshot' = snapshot + 1 /\ snapshot \in Nat
        /\ \A f \in Requests : registered'[f] = IF f \in files THEN registered[f] + 1 ELSE registered[f]
    BY LandEffect DEF TypeOK
  <1>2. RegisteredOnce'
    BY <1>1 DEF CommitInv, RegisteredOnce
  <1>3. ASSUME NEW p \in pending' PROVE p.snap <= snapshot' /\ p.snap # snapshot'
    BY <1>1 DEF CommitInv, PendingSound, TypeOK
  <1> QED BY <1>1, <1>2, <1>3 DEF PendingSound

LEMMA CommitCall ==
    ASSUME TypeOK, LockInv, FileInv, CommitInv, NEW w \in Calls, CallStep(w) \/ Cancel(w)
    PROVE  CommitInv'
  <1>1. CASE Route(w) \/ LoadWriterTable(w) \/ LoadFails(w) \/ WriteDataFiles(w) \/ WriteFails(w)
             \/ cleanupFiles(w) \/ Submit(w) \/ Response(w)
    <2>1. UNCHANGED <<snapshot, registered, pending, job, table, attempt>>
      BY <1>1 DEF Route, LoadWriterTable, LoadFails, WriteDataFiles, WriteFails, cleanupFiles, Submit,
                  Response, catalogVars
    <2> QED BY <2>1, CommitFrame
  <1>2. CASE LoadCommitterTable(w)
    <2>1. UNCHANGED <<snapshot, registered, pending, job, attempt>> /\ pc[w] = "load"
      BY <1>2 DEF LoadCommitterTable, catalogVars
    <2>2. job.by # "batcher"
      BY <2>1 DEF LockInv, BatcherLives, JobHeld
    <2> QED BY <2>1, <2>2, CommitFrame
  <1>3. CASE LockForClose(w) \/ Closed(w)
    <2>1. UNCHANGED <<snapshot, registered, pending, job, table>> /\ pc[w] \in {"close", "closing"}
      BY <1>3 DEF LockForClose, Closed, catalogVars
    <2>2. RetryOnce(w) \/ attempt' = attempt
      BY <1>3 DEF LockForClose, Closed
    <2>3. \A v \in Calls : attempt'[v] = attempt[v] \/ pc[v] # "commit"
      BY <2>1, <2>2, RetryMoves
    <2> QED BY <2>1, <2>3, CommitFrame
  <1>4. CASE Cancel(w)
    <2>1. UNCHANGED <<snapshot, registered, pending, job, table, attempt>>
      BY <1>4 DEF Cancel, catalogVars, callVars
    <2> QED BY <2>1, CommitFrame
  <1>5. CASE commitRowDelta(w)
    <2>1. /\ pc[w] = "delta" /\ UNCHANGED <<snapshot, registered, pending, table, attempt>>
          /\ job' = job \/ job' = NewJob(w, {File(w)})
      BY <1>5 DEF commitRowDelta, catalogVars
    <2>2. CASE job' = job
      BY <2>1, <2>2, CommitFrame
    <2>3. CASE job' = NewJob(w, {File(w)})
      <3>1. File(w) \in Requests /\ File(w)' = File(w) /\ File(w) = <<w, attempt[w]>> /\ attempt[w] \in 1 .. 2
        BY <2>1, FileType DEF TypeOK, File
      <3>2. ~InUse(File(w))
        <4>1. Ahead(w, attempt[w])
          BY <2>1 DEF Ahead, Early
        <4> QED BY <3>1, <4>1 DEF FileInv, FreshFiles
      <3>3. registered[File(w)] = 0 /\ \A p \in pending : File(w) \notin p.files
        BY <3>1, <3>2 DEF InUse, TypeOK
      <3>4. job'.by = w /\ job'.by # "batcher"
        BY <2>3, <3>1, NewJobType
      <3>5. JobSound'
        BY <2>1, <3>1, <3>3, <3>4 DEF JobSound
      <3>6. PendingSound' /\ RegisteredOnce'
        BY <2>1 DEF CommitInv, PendingSound, RegisteredOnce
      <3> QED BY <3>5, <3>6 DEF CommitInv
    <2> QED BY <2>1, <2>2, <2>3
  <1> QED BY <1>1, <1>2, <1>3, <1>4, <1>5 DEF CallStep

\* An attempt of the commit that is under way fails.
LEMMA CommitFailed ==
    ASSUME HonestConflicts, TypeOK, LockInv, FileInv, CommitInv, job.stage = "try", CommitError,
           UNCHANGED attempt
    PROVE  CommitInv'
  <1>1. PICK error \in {"failed", "unknown", "other"} :
              /\ job'.by = job.by /\ job'.files = job.files /\ job'.reloaded = job.reloaded
              /\ job'.stage = AfterError(error)
              /\ UNCHANGED table
              /\ \/ UNCHANGED <<snapshot, registered, pending>>
                 \/ /\ error # "failed" \/ LandedConflict
                    /\ table.snap = snapshot /\ Land(Staged) /\ UNCHANGED pending
                 \/ /\ error # "failed"
                    /\ pending' = pending \cup {[snap |-> table.snap, files |-> Staged]}
                    /\ UNCHANGED <<snapshot, registered>>
    BY ErrorEffect
  <1>2. PendingSound /\ JobSound /\ RegisteredOnce /\ TableSound /\ FilesKept
    BY DEF CommitInv, FileInv
  <1>3. Staged \subseteq job.files /\ job.files \subseteq Requests
    BY <1>2, StagedRest
  <1>4. ASSUME NEW w \in Calls, job.by = w, job'.stage \in {"try", "reload"}
        PROVE  /\ error = "failed" /\ w \in Keyed
               /\ registered[File(w)] = 0 /\ \A p \in pending : File(w) \notin p.files
               /\ File(w)' = File(w)
    <2>1. job.by # "batcher"
      BY <1>4
    <2>2. error = "failed"
      BY <1>1, <1>4, <2>1 DEF AfterError, AfterUnknown
    <2>3. pc[w] = "commit" /\ File(w)' = File(w)
      BY <1>4 DEF LockInv, JobHeld, File
    <2> QED BY <1>2, <1>4, <2>2, <2>3 DEF JobSound, FilesKept
  <1>5. CASE UNCHANGED <<snapshot, registered, pending>>
    <2>1. PendingSound' /\ RegisteredOnce'
      BY <1>2, <1>5 DEF PendingSound, RegisteredOnce
    <2>2. JobSound'
      BY <1>1, <1>2, <1>4, <1>5 DEF JobSound
    <2> QED BY <2>1, <2>2 DEF CommitInv
  <1>6. CASE /\ error # "failed" \/ LandedConflict
             /\ table.snap = snapshot /\ Land(Staged) /\ UNCHANGED pending
    <2>1. \A f \in Staged : f \in Requests /\ registered[f] = 0
      BY <1>6, StagedFresh
    <2>2. PendingSound' /\ RegisteredOnce'
      BY <1>3, <1>6, <2>1, LandSound
    <2>3. table'.snap # snapshot'
      <3>1. snapshot' = snapshot + 1
        BY <1>6 DEF Land
      <3> QED BY <1>1, <1>6, <3>1 DEF TypeOK
    <2>4. ASSUME NEW w \in Calls, job.by = w, job'.stage \in {"try", "reload"} PROVE FALSE
      BY <1>4, <1>6, <2>4 DEF HonestConflicts
    <2>5. JobSound'
      BY <1>1, <2>3, <2>4 DEF JobSound
    <2> QED BY <2>2, <2>5 DEF CommitInv
  <1>7. CASE /\ error # "failed"
             /\ pending' = pending \cup {[snap |-> table.snap, files |-> Staged]}
             /\ UNCHANGED <<snapshot, registered>>
    <2>1. PICK new : new = [snap |-> table.snap, files |-> Staged]
      OBVIOUS
    <2>2. pending' = pending \cup {new} /\ new.files = Staged /\ new.snap = table.snap
      BY <1>7, <2>1
    <2>3. new.snap <= snapshot /\ (new.snap = snapshot => \A f \in new.files : registered[f] = 0)
      BY <1>2, <2>2, StagedFresh DEF TableSound
    <2>4. PendingSound' /\ RegisteredOnce'
      BY <1>2, <1>7, <2>2, <2>3 DEF PendingSound, RegisteredOnce
    <2>5. JobSound'
      BY <1>1, <1>2, <1>4, <1>7 DEF JobSound
    <2> QED BY <2>4, <2>5 DEF CommitInv
  <1> QED BY <1>1, <1>5, <1>6, <1>7

LEMMA CommitStepSound ==
    ASSUME HonestConflicts, TypeOK, LockInv, FileInv, CommitInv, CommitStep
    PROVE  CommitInv'
  <1>1. PendingSound /\ JobSound /\ RegisteredOnce
    BY DEF CommitInv
  <1>2. ASSUME UNCHANGED <<snapshot, registered, pending>> PROVE PendingSound' /\ RegisteredOnce'
    BY <1>1, <1>2 DEF PendingSound, RegisteredOnce
  <1>3. CASE Collect
    <2>1. UNCHANGED <<snapshot, registered, pending, job, table, attempt>>
      BY <1>3 DEF Collect, catalogVars, callVars
    <2> QED BY <2>1, CommitFrame
  <1>4. CASE doCommit
    <2>1. /\ job = NoJob /\ UNCHANGED <<snapshot, registered, pending, table, attempt>>
          /\ job' = job \/ job' = NewJob("batcher", ToSet(batch))
      BY <1>4 DEF doCommit, catalogVars, callVars
    <2>2. CASE job' = job
      BY <2>1, <2>2, CommitFrame
    <2>3. CASE job' = NewJob("batcher", ToSet(batch))
      <3>1. ToSet(batch) \in SUBSET Requests
        BY ToSetType DEF TypeOK, BatcherTypeOK
      <3>2. job'.by = "batcher" /\ job'.files = ToSet(batch)
        BY <2>3, <3>1, NewJobType
      <3>3. \A f \in ToSet(batch) : ~InUse(f)
        BY <2>1 DEF FileInv, QueueSound, NoJob
      <3>4. \A f \in ToSet(batch) : registered[f] = 0
        BY <3>1, <3>3 DEF InUse, TypeOK
      <3>5. JobSound'
        BY <2>1, <3>2, <3>4 DEF JobSound
      <3> QED BY <1>2, <2>1, <3>5 DEF CommitInv
    <2> QED BY <2>1, <2>2, <2>3
  <1>5. CASE Try
    <2>1. job.stage = "try" /\ UNCHANGED attempt
      BY <1>5 DEF Try
    <2>2. CASE CommitAccepted
      <3>1. job' = NoJob /\ pending' = pending
        BY <2>2 DEF CommitAccepted, Finish
      <3>2. CASE Staged = {}
        <4>1. UNCHANGED <<snapshot, registered>>
          BY <2>2, <3>2 DEF CommitAccepted
        <4> QED BY <1>2, <3>1, <4>1, CommitEnded
      <3>3. CASE Staged # {}
        <4>1. table.snap = snapshot /\ Land(Staged)
          BY <2>2, <3>3 DEF CommitAccepted
        <4>2. \A f \in Staged : f \in Requests /\ registered[f] = 0
          BY <2>1, <4>1, StagedFresh
        <4>3. Staged \in SUBSET Requests
          BY <4>2
        <4>4. PendingSound' /\ RegisteredOnce'
          BY <3>1, <4>1, <4>2, <4>3, LandSound
        <4> QED BY <3>1, <4>4, CommitEnded
      <3> QED BY <3>2, <3>3
    <2>3. CASE CommitError
      BY <2>1, <2>3, CommitFailed
    <2> QED BY <1>5, <2>2, <2>3 DEF Try
  <1>6. CASE StageFails \/ Exhausted \/ Fatal
    <2>1. job' = NoJob /\ UNCHANGED <<snapshot, registered, pending>>
      BY <1>6 DEF StageFails, Exhausted, Fatal, Finish, catalogVars
    <2> QED BY <1>2, <2>1, CommitEnded
  <1>7. CASE Reload
    <2>1. /\ UNCHANGED <<snapshot, registered, pending, attempt>> /\ job.stage = "reload"
          /\ \/ table' = LoadTable /\ job' = [job EXCEPT !.stage = "try", !.reloaded = TRUE]
             \/ table' = table /\ job' = [job EXCEPT !.stage = "try"]
      BY <1>7 DEF Reload, catalogVars, callVars
    <2>2. /\ job'.by = job.by /\ job'.files = job.files
          /\ job'.reloaded \/ (table' = table /\ (job.reloaded => job'.reloaded))
      BY <2>1 DEF TypeOK
    <2>3. JobSound'
      <3>1. job'.by = "batcher" /\ ~job'.reloaded /\ table'.snap = snapshot' => \A f \in job'.files : registered'[f] = 0
        BY <1>1, <2>1, <2>2 DEF JobSound
      <3>2. ASSUME NEW w \in Calls, job'.by = w
            PROVE  registered'[File(w)'] = 0 /\ \A p \in pending' : File(w)' \notin p.files
        <4>1. File(w)' = File(w)
          BY <2>1 DEF File
        <4> QED BY <1>1, <2>1, <2>2, <3>2, <4>1 DEF JobSound
      <3> QED BY <3>1, <3>2 DEF JobSound
    <2> QED BY <1>2, <2>1, <2>3 DEF CommitInv
  <1> QED BY <1>3, <1>4, <1>5, <1>6, <1>7 DEF CommitStep

LEMMA CommitOnce ==
    ASSUME HonestConflicts, TypeOK, LockInv, FileInv, CommitInv, [Next]_vars
    PROVE  CommitInv'
  <1>1. CASE UNCHANGED vars
    BY <1>1, CommitFrame DEF vars, catalogVars, callVars
  <1>2. CASE ForeignEvolve
    BY <1>2, CommitFrame DEF ForeignEvolve, callVars
  <1>3. CASE ForeignCommit
    <2>1. snapshot' = snapshot + 1 /\ UNCHANGED <<registered, pending, table, job, attempt>>
      BY <1>3 DEF ForeignCommit, callVars
    <2>2. Land({})
      <3>1. registered = [f \in Requests |-> registered[f]]
        BY DEF TypeOK
      <3> QED BY <2>1, <3>1 DEF Land
    <2>3. PendingSound' /\ RegisteredOnce'
      BY <2>1, <2>2, LandSound
    <2>4. table'.snap # snapshot'
      BY <2>1 DEF FileInv, TableSound, TypeOK
    <2>5. JobSound'
      BY <2>1, <2>4 DEF CommitInv, JobSound, File
    <2> QED BY <2>3, <2>5 DEF CommitInv
  <1>4. CASE LateLanding
    <2>1. PICK p \in pending :
            /\ pending' = pending \ {p}
            /\ \/ p.snap = snapshot /\ Land(p.files)
               \/ UNCHANGED <<snapshot, registered>>
            /\ UNCHANGED <<table, job, attempt>>
      BY <1>4 DEF LateLanding, callVars
    <2>2. CASE UNCHANGED <<snapshot, registered>>
      <3>1. PendingSound' /\ RegisteredOnce'
        BY <2>1, <2>2 DEF CommitInv, PendingSound, RegisteredOnce
      <3>2. JobSound'
        BY <2>1, <2>2 DEF CommitInv, JobSound, File
      <3> QED BY <3>1, <3>2 DEF CommitInv
    <2>3. CASE p.snap = snapshot /\ Land(p.files)
      <3>1. p.files \in SUBSET Requests /\ \A f \in p.files : registered[f] = 0
        BY <2>3 DEF TypeOK, CommitInv, PendingSound
      <3>2. /\ PendingSound' /\ RegisteredOnce'
            /\ \A f \in Requests : f \notin p.files => registered'[f] = registered[f]
        BY <2>1, <2>3, <3>1, LandSound
      <3>3. table'.snap # snapshot'
        <4>1. snapshot' = snapshot + 1
          BY <2>3 DEF Land
        <4> QED BY <2>1, <4>1 DEF FileInv, TableSound, TypeOK
      <3>4. ASSUME NEW w \in Calls, job'.by = w, job'.stage \in {"try", "reload"}
            PROVE  registered'[File(w)'] = 0 /\ \A q \in pending' : File(w)' \notin q.files
        <4>1. File(w)' = File(w) /\ File(w) \in Requests
          BY <2>1, FileType DEF File, TypeOK
        <4>2. registered[File(w)] = 0 /\ \A q \in pending : File(w) \notin q.files
          BY <2>1, <3>4 DEF CommitInv, JobSound
        <4> QED BY <2>1, <3>2, <4>1, <4>2
      <3>5. JobSound'
        BY <3>3, <3>4 DEF JobSound
      <3> QED BY <3>2, <3>5 DEF CommitInv
    <2> QED BY <2>1, <2>2, <2>3
  <1> QED BY <1>1, <1>2, <1>3, <1>4, CommitCall, CommitStepSound DEF Next

\* The four invariants together.
LEMMA AllAlways ==
    ASSUME HonestConflicts
    PROVE  Spec => [](TypeOK /\ LockInv /\ FileInv /\ CommitInv)
  <1>1. Init => TypeOK /\ LockInv /\ FileInv /\ CommitInv
    BY TypeInit, LockInit, FileInit, CommitInit
  <1>2. TypeOK /\ LockInv /\ FileInv /\ CommitInv /\ [Next]_vars => TypeOK' /\ LockInv' /\ FileInv' /\ CommitInv'
    BY TypeStep, LockStep, FileStep, CommitOnce
  <1> QED BY <1>1, <1>2, PTL DEF Spec

\* No file is referenced twice by the table, whatever replies are lost, applied
\* late or followed by a failing reload, unless the catalog reports
\* ErrCommitFailed for a commit with deletes that landed.
THEOREM RegisteredAtMostOnce ==
    ASSUME HonestConflicts
    PROVE  Spec => []RegisteredOnce
  BY AllAlways, PTL DEF CommitInv

\* What Route reports as written is in the table exactly once and its file has
\* not been removed, although the same batch may have failed before.
THEOREM AckedAreWritten ==
    ASSUME HonestConflicts
    PROVE  Spec => []AckedWritten
  <1>1. TypeOK /\ LockInv /\ FileInv /\ CommitInv => AckedWritten
    <2> SUFFICES ASSUME TypeOK, FileInv, CommitInv, NEW w \in Calls, pc[w] = "ok"
                 PROVE  registered[File(w)] = 1 /\ File(w) \in stored
      BY DEF AckedWritten
    <2>1. File(w) \in Requests /\ registered[File(w)] \in Nat
      BY FileType DEF TypeOK
    <2>2. registered[File(w)] > 0 /\ registered[File(w)] <= 1
      BY <2>1 DEF FileInv, Confirmed, CommitInv, RegisteredOnce
    <2> QED BY <2>1, <2>2 DEF FileInv, FilesKept
  <1> QED BY <1>1, AllAlways, PTL

=============================================================================
