------------------------------- MODULE Batcher -------------------------------
(***************************************************************************)
(* asyncroutine.Batcher, src/internal/asyncroutine/batcher.go: a goroutine *)
(* that collects requests from a buffered channel and hands them to a      *)
(* function in batches.  The module gives the steps of the goroutine, of   *)
(* Submit and of Close; its user says what the function does (between      *)
(* StartCall and Reply) and when Submit and Close are called.              *)
(***************************************************************************)
EXTENDS Naturals, Sequences, SequencesExt

CONSTANTS
    Requests,      \* calls of Submit, each with a response channel of its own
    MaxBatchSize   \* capacity of the channel and bound of a batch

ASSUME BatchSizeAssumption == MaxBatchSize \in Nat \ {0}

VARIABLES
    requestChan,   \* requests sent and not received
    batch,         \* requests the goroutine has received and not answered
    runner,        \* where the goroutine is; "none" before NewBatcher
    cancelled,     \* has Close cancelled the goroutine's context?
    respCh         \* [Requests -> {"empty", "ok", "error"}]: response channels

batcherVars == <<requestChan, batch, runner, cancelled, respCh>>

BatcherTypeOK ==
    /\ requestChan \in Seq(Requests) /\ Len(requestChan) <= MaxBatchSize
    /\ batch \in Seq(Requests) /\ Len(batch) <= MaxBatchSize
    /\ runner \in {"none", "dequeue", "call", "done"}
    /\ cancelled \in BOOLEAN
    /\ respCh \in [Requests -> {"empty", "ok", "error"}]

BatcherInit ==
    /\ requestChan = <<>>
    /\ batch = <<>>
    /\ runner = "none"
    /\ cancelled = FALSE
    /\ respCh = [r \in Requests |-> "empty"]

-----------------------------------------------------------------------------
(* The goroutine.                                                          *)

\* NewBatcher.
NewBatcher ==
    /\ runner' = "dequeue"
    /\ cancelled' = FALSE
    /\ UNCHANGED <<requestChan, batch, respCh>>

\* dequeueAll receives one more request, whether or not Close was called.
Dequeue ==
    /\ runner = "dequeue"
    /\ requestChan # <<>>
    /\ Len(batch) < MaxBatchSize
    /\ batch' = Append(batch, Head(requestChan))
    /\ requestChan' = Tail(requestChan)
    /\ UNCHANGED <<runner, cancelled, respCh>>

\* dequeueAll returns a batch that is full, or that nothing waits to join, and
\* runLoop calls the function with it.
StartCall ==
    /\ runner = "dequeue"
    /\ batch # <<>>
    /\ requestChan = <<>> \/ Len(batch) = MaxBatchSize
    /\ runner' = "call"
    /\ UNCHANGED <<requestChan, batch, cancelled, respCh>>

\* Wrong on purpose: nobody learns of an error of the function.
ReplySuccess(result) ==
    /\ runner' = "dequeue"
    /\ batch' = <<>>
    /\ respCh' = [r \in Requests |-> IF r \in ToSet(batch) /\ result = "ok" THEN result
                                                                         ELSE respCh[r]]
    /\ UNCHANGED <<requestChan, cancelled>>

\* The function has returned: every request of the batch gets its result, and
\* the channels have room for it.
Reply(result) ==
    /\ runner' = "dequeue"
    /\ batch' = <<>>
    /\ respCh' = [r \in Requests |-> IF r \in ToSet(batch) THEN result ELSE respCh[r]]
    /\ UNCHANGED <<requestChan, cancelled>>

\* dequeueAll returns nothing, which it does only when it is cancelled and
\* nothing is queued: the goroutine ends.
Exit ==
    /\ runner = "dequeue"
    /\ cancelled
    /\ requestChan = <<>> /\ batch = <<>>
    /\ runner' = "done"
    /\ UNCHANGED <<requestChan, batch, cancelled, respCh>>

-----------------------------------------------------------------------------
(* Its users.                                                              *)

\* The first half of Submit: the send, which blocks while the channel is full
\* and does not look at the caller's context.
Send(r) ==
    /\ Len(requestChan) < MaxBatchSize
    /\ requestChan' = Append(requestChan, r)
    /\ UNCHANGED <<batch, runner, cancelled, respCh>>

\* The first half of Close.
CancelRunner ==
    /\ cancelled' = TRUE
    /\ UNCHANGED <<requestChan, batch, runner, respCh>>

\* The second half of Close, once the goroutine has ended: what is left in the
\* channel is answered with an error.
Drain ==
    /\ runner = "done"
    /\ runner' = "none"
    /\ requestChan' = <<>>
    /\ respCh' = [r \in Requests |-> IF r \in ToSet(requestChan) THEN "error" ELSE respCh[r]]
    /\ UNCHANGED <<batch, cancelled>>
=============================================================================
