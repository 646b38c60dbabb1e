--------------------------- MODULE CorrelatedWorker ---------------------------
(***************************************************************************)
(* SubprocessCorrelatedWorkerTransport: one persistent model worker behind *)
(* a lock, JSON lines over its pipes, a deadline for the whole exchange,   *)
(* and a worker that is discarded after any channel failure.               *)
(*                                                                         *)
(* A frame is two pieces of bytes, its head and the tail that ends in the  *)
(* newline, so that a worker can stop between them.  The clock is left     *)
(* out: a deadline or an allowance may run out at any moment.              *)
(***************************************************************************)
EXTENDS Naturals, Sequences

CONSTANTS
  Callers,       \* threads that share one transport
  MaxRequests,   \* bound on the requests made
  MaxStray,      \* bound on the frames a worker writes unasked
  NoCaller

ASSUME BoundsAssumption ==
  MaxRequests \in Nat /\ MaxStray \in Nat /\ NoCaller \notin Callers

Requests == 1 .. MaxRequests
Workers == 1 .. MaxRequests    \* a request starts at most one worker
NoWorker == 0
NoRequest == 0

VARIABLES
  calls,      \* what each caller is doing
  channel,    \* locals of the operation that holds self._lock
  process,    \* self._process
  requested,  \* requests made so far
  spawned,    \* workers started so far
  outcome,    \* how each request ended
  abandoned,  \* workers that did not exit when they were killed
  alive,      \* workers that have not exited
  stdin,      \* request lines a worker has not answered
  stdout,     \* pieces of bytes the transport has not read
  midway,     \* workers that have written the head of an answer only
  stray       \* frames written unasked so far

transportVars == <<calls, channel, process, requested, spawned, outcome, abandoned>>
workerVars == <<stdout, midway, stray>>
vars == <<transportVars, alive, stdin, workerVars>>

-----------------------------------------------------------------------------
FailureCodes ==
  {"worker_timeout", "worker_exited", "worker_start_failed", "worker_write_failed",
   "worker_request_too_large", "worker_response_too_large", "worker_malformed_frame",
   "worker_correlation_mismatch", "worker_cleanup_failed"}

Piece(r, part) == [request |-> r, part |-> part]

Outcome(code, answer, w) == [code |-> code, answer |-> answer, worker |-> w]

Undecided == Outcome("undecided", NoRequest, NoWorker)

\* answered: the caller holds an answer its adapter has still to validate.
Call(op, r, answered) == [op |-> op, request |-> r, answered |-> answered]

Idle == Call("none", NoRequest, FALSE)

\* An adapter makes no request after its owner closed it.
Closed == Call("closed", NoRequest, FALSE)

Free == [caller |-> NoCaller, step |-> "free", worker |-> NoWorker,
         buffer |-> <<>>, cause |-> "none"]

Holding(c, step, w) == [Free EXCEPT !.caller = c, !.step = step, !.worker = w]

-----------------------------------------------------------------------------
(* The end of an operation *)

\* The lock is released, and a request has its outcome.
Return(c, result) ==
  /\ calls' = [calls EXCEPT ![c] =
                 CASE @.op = "request" -> Call("none", NoRequest, result.code = "ok")
                   [] @.op = "discard" -> Idle
                   [] @.op = "close" -> Closed]
  /\ channel' = Free
  /\ outcome' = IF calls[c].op = "request"
                THEN [outcome EXCEPT ![calls[c].request] = result]
                ELSE outcome

\* Mutant of Discard: the channel stays in use after a failure.
KeepWorker(c, w, cause) ==
  /\ process' = w
  /\ Return(c, Outcome(cause, NoRequest, w))

\* Mutant of Discard: the worker is told to terminate but not waited for.
DiscardWithoutReaping(c, w, cause) ==
  /\ process' = NoWorker
  /\ Return(c, Outcome(cause, NoRequest, w))

\* _discard_process: a worker that still runs is terminated, and its pipes are
\* closed, before the operation returns.
Discard(c, w, cause) ==
  /\ process' = NoWorker
  /\ IF w # NoWorker
     THEN /\ channel' = [Holding(c, "terminate", w) EXCEPT !.cause = cause]
          /\ UNCHANGED <<calls, outcome>>
     ELSE Return(c, Outcome(cause, NoRequest, w))

\* The pipes of a worker are closed: what they hold is lost.
ClosePipes(w) ==
  /\ stdin' = [v \in Workers |-> IF v = w THEN <<>> ELSE stdin[v]]
  /\ stdout' = [v \in Workers |-> IF v = w THEN <<>> ELSE stdout[v]]
  /\ midway' = midway \ {w}

-----------------------------------------------------------------------------
(* Operations of the callers *)

\* request(): the id is new, and a frame over the limit fails before the lock.
StartRequest(c) ==
  /\ calls[c].op = "none"
  /\ requested < MaxRequests
  /\ requested' = requested + 1
  /\ \/ /\ calls' = [calls EXCEPT ![c] = Call("request", requested', FALSE)]
        /\ UNCHANGED outcome
     \/ /\ outcome' = [outcome EXCEPT ![requested'] =
                         Outcome("worker_request_too_large", NoRequest, NoWorker)]
        /\ calls' = [calls EXCEPT ![c] = Idle]
  /\ UNCHANGED <<channel, process, spawned, alive, abandoned, stdin, workerVars>>

\* The adapter rejects the answer it holds (link, qualify: discard()), or its
\* owner closes it.
StartDiscard(c) ==
  /\ calls[c].op = "none"
  /\ calls[c].answered
  /\ calls' = [calls EXCEPT ![c] = Call("discard", NoRequest, FALSE)]
  /\ UNCHANGED <<channel, process, requested, spawned, outcome, alive, abandoned, stdin, workerVars>>

StartClose(c) ==
  /\ calls[c].op = "none"
  /\ calls' = [calls EXCEPT ![c] = Call("close", NoRequest, FALSE)]
  /\ UNCHANGED <<channel, process, requested, spawned, outcome, alive, abandoned, stdin, workerVars>>

Acquires(c, op) == channel = Free /\ calls[c].op = op

\* _require_process: a worker that still runs is used again, another is started
\* with empty pipes.
AcquireRequest(c) ==
  /\ Acquires(c, "request")
  /\ \/ /\ process \in alive
        /\ channel' = Holding(c, "write", process)
        /\ UNCHANGED <<calls, process, spawned, outcome, alive, stdin, stdout, midway>>
     \/ /\ process \notin alive
        /\ ClosePipes(process)
        /\ spawned' = spawned + 1
        /\ process' = spawned'
        /\ alive' = alive \cup {spawned'}
        /\ channel' = Holding(c, "write", spawned')
        /\ UNCHANGED <<calls, outcome>>
     \/ /\ process \notin alive
        /\ ClosePipes(process)
        /\ process' = NoWorker
        /\ Return(c, Outcome("worker_start_failed", NoRequest, NoWorker))
        /\ UNCHANGED <<spawned, alive>>
  /\ UNCHANGED <<requested, abandoned, stray>>

AcquireDiscard(c) ==
  /\ Acquires(c, "discard")
  /\ Discard(c, process, "none")
  /\ UNCHANGED <<requested, spawned, alive, abandoned, stdin, workerVars>>

\* _close_process: a worker that runs sees the end of its input first.
AcquireClose(c) ==
  /\ Acquires(c, "close")
  /\ process' = NoWorker
  /\ IF process # NoWorker
     THEN channel' = Holding(c, "eof", process) /\ UNCHANGED <<calls, outcome>>
     ELSE Return(c, Undecided)
  /\ UNCHANGED <<requested, spawned, alive, abandoned, stdin, workerVars>>

-----------------------------------------------------------------------------
(* The exchange *)

Fail(code) == Discard(channel.caller, channel.worker, code)

\* _write_frame: the whole line is written, or the pipe is broken.
WriteFrame ==
  /\ channel.step = "write"
  /\ \/ /\ channel.worker \in alive
        /\ stdin' = [stdin EXCEPT ![channel.worker] =
                       Append(@, calls[channel.caller].request)]
        /\ channel' = [channel EXCEPT !.step = "read"]
        /\ UNCHANGED <<calls, process, outcome>>
     \/ /\ channel.worker \notin alive
        /\ Fail("worker_write_failed")
        /\ UNCHANGED stdin
  /\ UNCHANGED <<requested, spawned, alive, abandoned, workerVars>>

\* Bytes after a newline, and anything but the two pieces of one frame.
Malformed(buffer) ==
  \/ \E i \in 1 .. Len(buffer) - 1 : buffer[i].part = "tail"
  \/ Len(buffer) # 2
  \/ buffer[1].request # buffer[2].request

\* What _read_frame and _decode_exchange make of bytes that hold a newline.
Verdict(buffer, r) ==
  IF Malformed(buffer) THEN "worker_malformed_frame"
  ELSE IF buffer[2].request # r THEN "worker_correlation_mismatch"
  ELSE "ok"

\* One os.read returns some of the bytes in the pipe.
ReadChunk ==
  /\ channel.step = "read"
  /\ \E n \in 1 .. Len(stdout[channel.worker]) :
       LET w       == channel.worker
           buffer  == channel.buffer \o SubSeq(stdout[w], 1, n)
           verdict == Verdict(buffer, calls[channel.caller].request)
       IN  /\ stdout' = [stdout EXCEPT ![w] = SubSeq(@, n + 1, Len(@))]
           /\ IF \A i \in DOMAIN buffer : buffer[i].part = "head"
              THEN /\ channel' = [channel EXCEPT !.buffer = buffer]
                   /\ UNCHANGED <<calls, process, outcome>>
              ELSE IF verdict = "ok"
              THEN /\ Return(channel.caller, Outcome("ok", buffer[2].request, w))
                   /\ UNCHANGED process
              ELSE Fail(verdict)
  /\ UNCHANGED <<requested, spawned, alive, abandoned, stdin, midway, stray>>

\* The bytes read pass the frame limit, with a newline or without one.
ReadTooMuch ==
  /\ channel.step = "read"
  /\ stdout[channel.worker] # <<>>
  /\ Fail("worker_response_too_large")
  /\ UNCHANGED <<requested, spawned, alive, abandoned, stdin, workerVars>>

ReadEndOfFile ==
  /\ channel.step = "read"
  /\ stdout[channel.worker] = <<>>
  /\ channel.worker \notin alive
  /\ Fail("worker_exited")
  /\ UNCHANGED <<requested, spawned, alive, abandoned, stdin, workerVars>>

\* Mutant of InExchange: the deadline covers only the wait for the first byte.
AwaitingFirstByte == channel.step \in {"write", "read"} /\ channel.buffer = <<>>

InExchange == channel.step \in {"write", "read"}

\* _wait_for_io: the deadline of the whole exchange.
Timeout ==
  /\ InExchange
  /\ Fail("worker_timeout")
  /\ UNCHANGED <<requested, spawned, alive, abandoned, stdin, workerVars>>

-----------------------------------------------------------------------------
(* Cleanup: end of input, SIGTERM, SIGKILL, one allowance for each *)

CleanedUp ==
  /\ channel.step \in {"eof", "terminate", "kill"}
  /\ channel.worker \notin alive
  /\ ClosePipes(channel.worker)
  /\ Return(channel.caller, Outcome(channel.cause, NoRequest, channel.worker))
  /\ UNCHANGED <<process, requested, spawned, abandoned, alive, stray>>

AllowanceExhausted ==
  /\ channel.step \in {"eof", "terminate"}
  /\ channel.worker \in alive
  /\ channel' = [channel EXCEPT !.step = IF @ = "eof" THEN "terminate" ELSE "kill"]
  /\ UNCHANGED <<calls, process, requested, spawned, outcome, abandoned, alive, stdin,
                 workerVars>>

\* Not even SIGKILL ended the worker within its allowance.
CleanupFailed ==
  /\ channel.step = "kill"
  /\ channel.worker \in alive
  /\ ClosePipes(channel.worker)
  /\ abandoned' = abandoned \cup {channel.worker}
  /\ Return(channel.caller, Outcome("worker_cleanup_failed", NoRequest, channel.worker))
  /\ UNCHANGED <<process, requested, spawned, alive, stray>>

-----------------------------------------------------------------------------
(* The worker: external code that may stop, exit or write out of turn *)

\* Workers whose pipes are open: what another one writes is lost.
Connected == alive \cap {process, channel.worker}

WriteHead(w) ==
  /\ w \in Connected \ midway
  /\ stdin[w] # <<>>
  /\ stdout' = [stdout EXCEPT ![w] = Append(@, Piece(Head(stdin[w]), "head"))]
  /\ midway' = midway \cup {w}
  /\ UNCHANGED <<transportVars, alive, stdin, stray>>

WriteTail(w) ==
  /\ w \in Connected \cap midway
  /\ stdout' = [stdout EXCEPT ![w] = Append(@, Piece(Head(stdin[w]), "tail"))]
  /\ stdin' = [stdin EXCEPT ![w] = Tail(@)]
  /\ midway' = midway \ {w}
  /\ UNCHANGED <<transportVars, alive, stray>>

\* A warning of a library on its output, or an answer given once more.
WriteStray(w) ==
  /\ w \in Connected \ midway
  /\ stray < MaxStray
  /\ stray' = stray + 1
  /\ \E r \in {NoRequest} \cup {i \in Requests : outcome[i].worker = w} :
       stdout' = [stdout EXCEPT ![w] = @ \o <<Piece(r, "head"), Piece(r, "tail")>>]
  /\ UNCHANGED <<transportVars, alive, stdin, midway>>

Exit(w) ==
  /\ w \in alive
  /\ alive' = alive \ {w}
  /\ UNCHANGED <<transportVars, stdin, workerVars>>

-----------------------------------------------------------------------------
Init ==
  /\ calls = [c \in Callers |-> Idle]
  /\ channel = Free
  /\ process = NoWorker
  /\ requested = 0
  /\ spawned = 0
  /\ outcome = [r \in Requests |-> Undecided]
  /\ abandoned = {}
  /\ alive = {}
  /\ stdin = [w \in Workers |-> <<>>]
  /\ stdout = [w \in Workers |-> <<>>]
  /\ midway = {}
  /\ stray = 0

Acquire(c) == AcquireRequest(c) \/ AcquireDiscard(c) \/ AcquireClose(c)

Proceed == WriteFrame \/ ReadChunk \/ ReadTooMuch \/ ReadEndOfFile \/ Timeout
             \/ CleanedUp \/ AllowanceExhausted \/ CleanupFailed

Start(c) == StartRequest(c) \/ StartDiscard(c) \/ StartClose(c)

Next ==
  \/ \E c \in Callers : Start(c) \/ Acquire(c)
  \/ Proceed
  \/ \E w \in Workers : WriteHead(w) \/ WriteTail(w) \/ WriteStray(w) \/ Exit(w)

\* The transport that holds the lock runs on, since its clock does, and a free
\* lock is given to a waiting caller.  Nothing is assumed of a worker.
Fairness == WF_vars(Proceed) /\ \A c \in Callers : WF_vars(Acquire(c))

Spec == Init /\ [][Next]_vars /\ Fairness
-----------------------------------------------------------------------------
(* Properties *)

\* When a request reports a channel failure the worker it failed on has exited,
\* unless the failure reported is that it would not (RWC-TRN-10).
PoisonedTerminated ==
  \A r \in Requests :
     outcome[r].code \notin {"ok", "undecided", "worker_cleanup_failed"} =>
        outcome[r].worker \notin alive

\* However many workers are lost, discarded and closed, one runs at a time,
\* apart from those that could not be killed.
OneWorker == \A v, w \in alive \ abandoned : v = w

\* Every operation returns, whatever the worker does (AC-RWC-01, AC-RWC-02: one
\* byte and a delayed newline cannot extend the deadline).
OperationsReturn ==
  \A c \in Callers : calls[c].op \in {"request", "discard", "close"} ~>
                        calls[c].op \in {"none", "closed"}

\* A request ends once, with its own answer or with a failure, and the worker
\* it failed on never answers another request.
Exchange ==
  INSTANCE WorkerExchange WITH
    result <- [r \in Requests |->
                 IF outcome[r] # Undecided THEN outcome[r]
                 ELSE [Undecided EXCEPT !.code =
                         IF r <= requested THEN "open" ELSE "new"]]

ImplementsExchange == Exchange!Spec
=============================================================================
