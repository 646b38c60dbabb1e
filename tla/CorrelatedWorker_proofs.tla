------------------------ MODULE CorrelatedWorker_proofs ------------------------
(***************************************************************************)
(* Proofs about CorrelatedWorker: there is one worker, and what a request  *)
(* comes to is what WorkerExchange promises.  What the pipes hold plays no *)
(* part in them: any bytes may be read at any time.                        *)
(***************************************************************************)
EXTENDS CorrelatedWorker, TLAPS, FiniteSetTheorems

Ops == {"none", "request", "discard", "close", "closed"}

Cleaning == {"eof", "terminate", "kill"}

Codes == FailureCodes \cup {"ok", "undecided"}

\* Workers are numbered as they are started.
Typed ==
  /\ requested \in 0 .. MaxRequests
  /\ calls \in [Callers -> [op : Ops, request : 0 .. requested, answered : BOOLEAN]]
  /\ spawned \in Nat /\ process \in 0 .. spawned /\ alive \subseteq 1 .. spawned
  /\ outcome \in [Requests -> [code : Codes, answer : 0 .. MaxRequests, worker : 0 .. spawned]]
  /\ channel = [caller |-> channel.caller, step |-> channel.step, worker |-> channel.worker,
                buffer |-> channel.buffer, cause |-> channel.cause]
  /\ channel.worker \in 0 .. spawned

\* The worker that may run is the process of the transport, or the one that the
\* operation with the lock is cleaning up.
Slot ==
  \/ channel = Free /\ alive \ abandoned \subseteq {process}
  \/ /\ channel.step \in {"write", "read"}
     /\ channel.caller \in Callers /\ calls[channel.caller].op = "request"
     /\ channel.worker = process /\ process # NoWorker /\ alive \ abandoned \subseteq {process}
  \/ /\ channel.step \in Cleaning
     /\ channel.caller \in Callers /\ calls[channel.caller].op \in {"request", "discard", "close"}
     /\ calls[channel.caller].op = "request" => channel.cause \in FailureCodes
     /\ process = NoWorker /\ alive \ abandoned \subseteq {channel.worker}

\* A request that a caller has made is not decided, and no other caller made it.
Pending ==
  /\ \A r \in Requests : outcome[r] # Undecided => r <= requested
  /\ \A c \in Callers : calls[c].op = "request" =>
       /\ calls[c].request \in 1 .. requested
       /\ outcome[calls[c].request] = Undecided
       /\ \A d \in Callers : calls[d].op = "request" /\ calls[d].request = calls[c].request => d = c

\* The process is none that a request has failed on.
Unpoisoned ==
  \A r \in Requests : outcome[r].code \in FailureCodes /\ outcome[r].worker # NoWorker =>
                        outcome[r].worker # process

Inv == Typed /\ Slot /\ Pending /\ Unpoisoned /\ PoisonedTerminated

LEMMA InitInv == Init => Inv
  BY BoundsAssumption DEF Init, Inv, Typed, Slot, Pending, Unpoisoned, PoisonedTerminated, Free,
     Idle, Call, Undecided, Outcome, Ops, Codes, NoWorker, NoRequest, Requests

-----------------------------------------------------------------------------
(* The end of an operation *)

\* What is known of the result of the operation that the caller c ends.
Result(c, result) ==
  calls[c].op = "request" =>
    /\ result.code \in Codes \ {"undecided"}
    /\ result = Outcome(result.code, result.answer, result.worker)
    /\ result.answer \in 0 .. MaxRequests /\ result.worker \in 0 .. spawned
    /\ result.code \notin {"ok", "worker_cleanup_failed"} => result.worker \notin alive
    /\ result.code \in FailureCodes /\ result.worker # NoWorker => process' = NoWorker

LEMMA ReturnKeeps ==
  ASSUME Inv, NEW c \in Callers, calls[c].op \in {"request", "discard", "close"},
         NEW result, Result(c, result), Return(c, result),
         UNCHANGED <<requested, spawned, alive>>, process' \in {process, NoWorker},
         alive \ abandoned' \subseteq {process'}
  PROVE  Inv'
  <1> USE BoundsAssumption DEF Inv, Typed, Result, Return
  <1>1. calls' \in [Callers -> [op : Ops, request : 0 .. requested, answered : BOOLEAN]]
        /\ calls'[c].op # "request" /\ \A d \in Callers : d # c => calls'[d] = calls[d]
    BY DEF Call, Idle, Closed, NoRequest, Ops
  <1>2. ASSUME calls[c].op = "request"
        PROVE  /\ calls[c].request \in Requests
               /\ outcome' = [outcome EXCEPT ![calls[c].request] = result]
               /\ result \in [code : Codes, answer : 0 .. MaxRequests, worker : 0 .. spawned]
    BY <1>2 DEF Pending, Requests, Outcome
  <1>3. outcome' \in [Requests -> [code : Codes, answer : 0 .. MaxRequests, worker : 0 .. spawned]]
    BY <1>2
  <1>4. channel' = Free
    OBVIOUS
  <1>5. Typed'
    BY <1>1, <1>3, <1>4 DEF Free, NoWorker
  <1>6. Slot'
    BY <1>4 DEF Slot
  <1>7. Pending'
    BY <1>1, <1>2 DEF Pending
  <1>8. Unpoisoned' /\ PoisonedTerminated'
    BY <1>2, <1>3 DEF Unpoisoned, PoisonedTerminated, NoWorker, Codes
  <1> QED
    BY <1>5, <1>6, <1>7, <1>8

LEMMA FailKeeps ==
  ASSUME Inv, InExchange, NEW code \in FailureCodes, code # "worker_cleanup_failed", Fail(code),
         UNCHANGED <<requested, spawned, alive, abandoned>>
  PROVE  Inv'
  <1> DEFINE c == channel.caller
             w == channel.worker
  <1>1. c \in Callers /\ calls[c].op = "request" /\ w = process /\ alive \ abandoned \subseteq {process}
    BY DEF InExchange, Inv, Slot, Free, Cleaning
  <1>2. CASE w # NoWorker
    <2>1. process' = NoWorker /\ UNCHANGED <<calls, outcome>>
          /\ channel' = [Holding(c, "terminate", w) EXCEPT !.cause = code]
      BY <1>2 DEF Fail, Discard
    <2>2. channel' = [caller |-> c, step |-> "terminate", worker |-> w, buffer |-> <<>>, cause |-> code]
      BY <2>1 DEF Holding, Free
    <2>3. Typed'
      BY <2>1, <2>2 DEF Inv, Typed, NoWorker
    <2>4. Slot'
      BY <1>1, <2>1, <2>2 DEF Slot, Cleaning
    <2> QED
      BY <2>1, <2>3, <2>4 DEF Inv, Pending, Unpoisoned, PoisonedTerminated
  <1>3. CASE w = NoWorker
    <2>1. process' = NoWorker /\ Return(c, Outcome(code, NoRequest, w))
      BY <1>3 DEF Fail, Discard
    <2>2. Result(c, Outcome(code, NoRequest, w))
      BY <1>3, <2>1, BoundsAssumption DEF Result, Outcome, Codes, FailureCodes, NoRequest,
         NoWorker, Inv, Typed
    <2> QED
      BY <1>1, <1>3, <2>1, <2>2, ReturnKeeps
  <1> QED
    BY <1>2, <1>3

-----------------------------------------------------------------------------
LEMMA StartKeeps ==
  ASSUME Inv, NEW c \in Callers, Start(c)
  PROVE  Inv'
  <1> USE BoundsAssumption DEF Inv, Typed, Requests
  <1>1. channel.caller # c
    <2>1. calls[c].op = "none"
      BY DEF Start, StartRequest, StartDiscard, StartClose
    <2> QED
      BY <2>1 DEF Slot, Free
  <1>2. UNCHANGED <<channel, process, spawned, alive, abandoned>>
    BY DEF Start, StartRequest, StartDiscard, StartClose
  <1>3. ASSUME StartRequest(c), calls' = [calls EXCEPT ![c] = Call("request", requested', FALSE)],
               UNCHANGED outcome
        PROVE  Inv'
    <2>1. requested' = requested + 1 /\ requested' \in 1 .. MaxRequests
      BY <1>3 DEF StartRequest
    <2>2. calls'[c] = [op |-> "request", request |-> requested + 1, answered |-> FALSE]
          /\ \A d \in Callers : d # c => calls'[d] = calls[d]
      BY <1>3, <2>1 DEF Call
    <2>3. calls' \in [Callers -> [op : Ops, request : 0 .. requested', answered : BOOLEAN]]
      BY <1>3, <2>1 DEF Call, Ops
    <2>4. outcome[requested + 1] = Undecided
      BY <2>1 DEF Pending
    <2>5. Pending'
      <3>1. \A d \in Callers : d # c /\ calls[d].op = "request" =>
              calls[d].request \in 1 .. requested /\ calls[d].request # requested + 1
        BY DEF Pending
      <3>2. \A r \in Requests : outcome[r] # Undecided => r <= requested + 1
        BY DEF Pending
      <3>3. \A d \in Callers : calls'[d].op = "request" =>
              /\ calls'[d].request \in 1 .. requested + 1
              /\ outcome[calls'[d].request] = Undecided
        <4>1. ASSUME NEW d \in Callers, calls'[d].op = "request", d # c
              PROVE  /\ calls'[d].request \in 1 .. requested + 1
                     /\ outcome[calls'[d].request] = Undecided
          BY <2>2, <3>1, <4>1 DEF Pending
        <4>2. calls'[c].request \in 1 .. requested + 1 /\ outcome[calls'[c].request] = Undecided
          BY <2>1, <2>2, <2>4
        <4> QED
          BY <4>1, <4>2
      <3>4. \A d, e \in Callers : /\ calls'[d].op = "request" /\ calls'[e].op = "request"
                                 /\ calls'[d].request = calls'[e].request => d = e
        BY <2>2, <3>1 DEF Pending
      <3> QED
        BY <1>3, <2>1, <3>2, <3>3, <3>4 DEF Pending
    <2>6. Slot'
      BY <1>1, <1>2, <2>2 DEF Slot
    <2>7. outcome' = outcome
      BY <1>3
    <2>8. Typed'
      BY <1>2, <2>1, <2>3, <2>7
    <2> QED
      BY <1>2, <2>5, <2>6, <2>7, <2>8 DEF Unpoisoned, PoisonedTerminated
  <1>4. ASSUME StartRequest(c), calls' = [calls EXCEPT ![c] = Idle],
               outcome' = [outcome EXCEPT ![requested'] =
                             Outcome("worker_request_too_large", NoRequest, NoWorker)]
        PROVE  Inv'
    <2> DEFINE failed == Outcome("worker_request_too_large", NoRequest, NoWorker)
    <2>1. /\ requested' = requested + 1 /\ requested' \in 1 .. MaxRequests
          /\ outcome' = [outcome EXCEPT ![requested'] = failed]
      BY <1>4 DEF StartRequest
    <2>2. failed \in [code : Codes, answer : 0 .. MaxRequests, worker : 0 .. spawned]
          /\ failed.worker = NoWorker
      BY DEF Outcome, Codes, FailureCodes, NoRequest, NoWorker
    <2>3. calls'[c].op = "none" /\ \A d \in Callers : d # c => calls'[d] = calls[d]
      BY <1>4 DEF Idle, Call
    <2>4. calls' \in [Callers -> [op : Ops, request : 0 .. requested', answered : BOOLEAN]]
      BY <1>4, <2>1 DEF Idle, Call, NoRequest, Ops
    <2> HIDE DEF failed
    <2>5. outcome' \in [Requests -> [code : Codes, answer : 0 .. MaxRequests, worker : 0 .. spawned]]
      BY <2>1, <2>2
    <2>6. Pending'
      <3>1. \A d \in Callers : calls'[d].op = "request" =>
              /\ calls'[d] = calls[d]
              /\ calls[d].request \in 1 .. requested /\ calls[d].request # requested + 1
        BY <2>3 DEF Pending
      <3>2. \A r \in Requests : r # requested + 1 => outcome'[r] = outcome[r]
        BY <2>1
      <3>3. \A d \in Callers : calls'[d].op = "request" =>
              /\ calls'[d].request \in 1 .. requested + 1
              /\ outcome'[calls'[d].request] = Undecided
        BY <2>1, <3>1, <3>2 DEF Pending
      <3>4. \A r \in Requests : outcome'[r] # Undecided => r <= requested + 1
        BY <2>1, <3>2 DEF Pending
      <3> QED
        BY <2>1, <3>1, <3>3, <3>4 DEF Pending
    <2>7. Slot'
      BY <1>1, <1>2, <2>3 DEF Slot
    <2>8. Unpoisoned'
      BY <1>2, <2>1, <2>2 DEF Unpoisoned
    <2>9. PoisonedTerminated'
      BY <1>2, <2>1, <2>2 DEF PoisonedTerminated, NoWorker
    <2> QED
      BY <1>2, <2>1, <2>4, <2>5, <2>6, <2>7, <2>8, <2>9
  <1>5. CASE StartDiscard(c) \/ StartClose(c)
    <2>1. PICK op \in {"discard", "close"} : calls' = [calls EXCEPT ![c] = Call(op, NoRequest, FALSE)]
      BY <1>5 DEF StartDiscard, StartClose
    <2>2. UNCHANGED <<requested, outcome>>
      BY <1>5 DEF StartDiscard, StartClose
    <2>3. calls' \in [Callers -> [op : Ops, request : 0 .. requested, answered : BOOLEAN]]
          /\ calls'[c].op # "request" /\ \A d \in Callers : d # c => calls'[d] = calls[d]
      BY <2>1 DEF Call, NoRequest, Ops
    <2>4. Slot'
      BY <1>1, <1>2, <2>3 DEF Slot
    <2> QED
      BY <1>2, <2>2, <2>3, <2>4 DEF Pending, Unpoisoned, PoisonedTerminated
  <1> QED
    BY <1>3, <1>4, <1>5 DEF Start, StartRequest

LEMMA AcquireKeeps ==
  ASSUME Inv, NEW c \in Callers, Acquire(c)
  PROVE  Inv'
  <1> USE BoundsAssumption DEF Inv, Typed, Requests, Acquires
  <1>0. channel = Free /\ alive \ abandoned \subseteq {process}
    BY DEF Slot, Free, Cleaning, Acquire, AcquireRequest, AcquireDiscard, AcquireClose
  <1>1. CASE AcquireRequest(c)
    <2>1. calls[c].op = "request"
      BY <1>1 DEF AcquireRequest
    <2>2. CASE /\ process \in alive
               /\ channel' = Holding(c, "write", process)
               /\ UNCHANGED <<calls, process, spawned, outcome, alive, abandoned, requested>>
      <3>1. channel' = [caller |-> c, step |-> "write", worker |-> process, buffer |-> <<>>, cause |-> "none"]
        BY <2>2 DEF Holding, Free
      <3>2. process' # NoWorker
        BY <2>2 DEF NoWorker
      <3>3. Slot'
        BY <1>0, <2>1, <2>2, <3>1, <3>2 DEF Slot
      <3>4. Typed'
        BY <2>2, <3>1
      <3> QED
        BY <2>2, <3>3, <3>4 DEF Pending, Unpoisoned, PoisonedTerminated
    <2>3. CASE /\ process \notin alive
               /\ spawned' = spawned + 1
               /\ process' = spawned'
               /\ alive' = alive \cup {spawned'}
               /\ channel' = Holding(c, "write", spawned')
               /\ UNCHANGED <<calls, outcome, abandoned, requested>>
      <3>1. channel' = [caller |-> c, step |-> "write", worker |-> process', buffer |-> <<>>, cause |-> "none"]
        BY <2>3 DEF Holding, Free
      <3>2. Typed'
        BY <2>3, <3>1
      <3>3. Slot'
        BY <1>0, <2>1, <2>3, <3>1 DEF Slot, NoWorker
      <3>4. \A r \in Requests : outcome[r].worker # spawned'
        BY <2>3
      <3> QED
        BY <2>3, <3>2, <3>3, <3>4 DEF Pending, Unpoisoned, PoisonedTerminated
    <2>4. CASE /\ process' = NoWorker
               /\ Return(c, Outcome("worker_start_failed", NoRequest, NoWorker))
               /\ UNCHANGED <<spawned, alive, abandoned, requested>>
               /\ process \notin alive
      <3>1. Result(c, Outcome("worker_start_failed", NoRequest, NoWorker))
        BY <2>4 DEF Result, Outcome, Codes, FailureCodes, NoRequest, NoWorker
      <3>2. alive \ abandoned \subseteq {process'}
        BY <1>0, <2>4
      <3> QED
        BY <2>1, <2>4, <3>1, <3>2, ReturnKeeps
    <2> QED
      BY <1>1, <2>2, <2>3, <2>4 DEF AcquireRequest
  <1>2. CASE AcquireDiscard(c) /\ process # NoWorker
    <2>1. /\ channel' = [Holding(c, "terminate", process) EXCEPT !.cause = "none"]
          /\ process' = NoWorker /\ calls[c].op = "discard"
          /\ UNCHANGED <<calls, outcome, requested, spawned, alive, abandoned>>
      BY <1>2 DEF AcquireDiscard, Discard
    <2>2. channel' = [caller |-> c, step |-> "terminate", worker |-> process, buffer |-> <<>>, cause |-> "none"]
      BY <2>1 DEF Holding, Free
    <2> QED
      BY <1>0, <2>1, <2>2 DEF Slot, Cleaning, Pending, Unpoisoned, PoisonedTerminated, NoWorker
  <1>3. CASE AcquireClose(c) /\ process # NoWorker
    <2>1. /\ channel' = Holding(c, "eof", process)
          /\ process' = NoWorker /\ calls[c].op = "close"
          /\ UNCHANGED <<calls, outcome, requested, spawned, alive, abandoned>>
      BY <1>3 DEF AcquireClose
    <2>2. channel' = [caller |-> c, step |-> "eof", worker |-> process, buffer |-> <<>>, cause |-> "none"]
      BY <2>1 DEF Holding, Free
    <2> QED
      BY <1>0, <2>1, <2>2 DEF Slot, Cleaning, Pending, Unpoisoned, PoisonedTerminated, NoWorker
  <1>4. ASSUME AcquireDiscard(c) \/ AcquireClose(c), process = NoWorker
        PROVE  Inv'
    <2>1. PICK result : Return(c, result)
      BY <1>4 DEF AcquireDiscard, AcquireClose, Discard
    <2>2. /\ calls[c].op \in {"discard", "close"} /\ process' = NoWorker
          /\ UNCHANGED <<requested, spawned, alive, abandoned>>
      BY <1>4 DEF AcquireDiscard, AcquireClose, Discard
    <2> QED
      BY <1>0, <1>4, <2>1, <2>2, ReturnKeeps DEF Result
  <1> QED
    BY <1>1, <1>2, <1>3, <1>4 DEF Acquire

\* The operation goes on with the same worker.
LEMMA StepKeeps ==
  ASSUME Inv, NEW step, NEW buffer,
         \/ {channel.step, step} \subseteq {"write", "read"}
         \/ {channel.step, step} \subseteq Cleaning,
         channel' = [caller |-> channel.caller, step |-> step, worker |-> channel.worker,
                     buffer |-> buffer, cause |-> channel.cause],
         UNCHANGED <<calls, process, requested, spawned, outcome, alive, abandoned>>
  PROVE  Inv'
  <1>1. channel # Free
    BY DEF Free, Cleaning
  <1>2. Slot'
    BY <1>1 DEF Inv, Slot, Cleaning
  <1>3. Typed'
    BY DEF Inv, Typed
  <1> QED
    BY <1>2, <1>3 DEF Inv, Pending, Unpoisoned, PoisonedTerminated

LEMMA ProceedKeeps ==
  ASSUME Inv, Proceed
  PROVE  Inv'
  <1> USE BoundsAssumption DEF Requests
  <1> DEFINE c == channel.caller
             w == channel.worker
  <1>1. ASSUME NEW code \in FailureCodes, code # "worker_cleanup_failed", InExchange, Fail(code),
               UNCHANGED <<requested, spawned, alive, abandoned>>
        PROVE  Inv'
    BY <1>1, FailKeeps
  <1>2. CASE WriteFrame
    <2>1. CASE channel' = [channel EXCEPT !.step = "read"] /\ UNCHANGED <<calls, process, outcome>>
      <3>1. channel' = [caller |-> c, step |-> "read", worker |-> w, buffer |-> channel.buffer,
                        cause |-> channel.cause] /\ channel.step = "write"
        BY <1>2, <2>1 DEF WriteFrame, Inv, Typed
      <3> QED
        BY <1>2, <2>1, <3>1, StepKeeps DEF WriteFrame
    <2>2. CASE Fail("worker_write_failed")
      BY <1>1, <1>2, <2>2 DEF WriteFrame, InExchange, FailureCodes
    <2> QED
      BY <1>2, <2>1, <2>2 DEF WriteFrame
  <1>3. CASE ReadChunk
    <2>1. PICK buffer :
            LET verdict == Verdict(buffer, calls[c].request)
            IN  IF \A i \in DOMAIN buffer : buffer[i].part = "head"
                THEN /\ channel' = [channel EXCEPT !.buffer = buffer]
                     /\ UNCHANGED <<calls, process, outcome>>
                ELSE IF verdict = "ok"
                THEN /\ Return(c, Outcome("ok", buffer[2].request, w))
                     /\ UNCHANGED process
                ELSE Fail(verdict)
      BY <1>3 DEF ReadChunk
    <2>2. UNCHANGED <<requested, spawned, alive, abandoned>> /\ InExchange
      BY <1>3 DEF ReadChunk, InExchange
    <2>3. CASE channel' = [channel EXCEPT !.buffer = buffer] /\ UNCHANGED <<calls, process, outcome>>
      <3>1. channel' = [caller |-> c, step |-> "read", worker |-> w, buffer |-> buffer,
                        cause |-> channel.cause] /\ channel.step = "read"
        BY <1>3, <2>3 DEF ReadChunk, Inv, Typed
      <3> QED
        BY <2>2, <2>3, <3>1, StepKeeps
    <2>4. CASE /\ Verdict(buffer, calls[c].request) = "ok"
               /\ Return(c, Outcome("ok", buffer[2].request, w)) /\ UNCHANGED process
      <3>1. c \in Callers /\ calls[c].op = "request" /\ alive \ abandoned \subseteq {process}
        BY <2>2 DEF InExchange, Inv, Slot, Free, Cleaning
      <3>2. buffer[2].request = calls[c].request
        BY <2>4 DEF Verdict
      <3>3. Result(c, Outcome("ok", buffer[2].request, w))
        BY <3>1, <3>2 DEF Result, Outcome, Codes, FailureCodes, Inv, Typed
      <3> QED
        BY <2>2, <2>4, <3>1, <3>3, ReturnKeeps
    <2>5. CASE Fail(Verdict(buffer, calls[c].request)) /\ Verdict(buffer, calls[c].request) # "ok"
      <3>1. Verdict(buffer, calls[c].request) \in {"worker_malformed_frame", "worker_correlation_mismatch"}
        BY <2>5 DEF Verdict
      <3> QED
        BY <1>1, <2>2, <2>5, <3>1 DEF FailureCodes
    <2> QED
      BY <2>1, <2>3, <2>4, <2>5
  <1>4. CASE ReadTooMuch \/ ReadEndOfFile \/ Timeout
    BY <1>1, <1>4 DEF ReadTooMuch, ReadEndOfFile, Timeout, InExchange, FailureCodes
  <1>5. CASE CleanedUp \/ CleanupFailed
    <2>1. /\ c \in Callers /\ calls[c].op \in {"request", "discard", "close"}
          /\ calls[c].op = "request" => channel.cause \in FailureCodes
          /\ process = NoWorker /\ alive \ abandoned \subseteq {w}
      BY <1>5 DEF CleanedUp, CleanupFailed, Inv, Slot, Free, Cleaning
    <2>2. PICK cause \in {channel.cause, "worker_cleanup_failed"} :
          /\ Return(c, Outcome(cause, NoRequest, w))
          /\ UNCHANGED <<process, requested, spawned, alive>>
          /\ alive \ abandoned' = {}
          /\ cause # "worker_cleanup_failed" => w \notin alive
      BY <1>5, <2>1 DEF CleanedUp, CleanupFailed
    <2>3. calls[c].op = "request" => cause \in FailureCodes
      BY <2>1 DEF FailureCodes
    <2>4. Result(c, Outcome(cause, NoRequest, w))
      BY <2>1, <2>2, <2>3 DEF Result, Outcome, Codes, FailureCodes, NoRequest, Inv, Typed
    <2> QED
      BY <2>1, <2>2, <2>4, ReturnKeeps
  <1>6. CASE AllowanceExhausted
    <2>1. PICK step \in {"terminate", "kill"} : channel' = [channel EXCEPT !.step = step]
      BY <1>6 DEF AllowanceExhausted
    <2>2. channel' = [caller |-> c, step |-> step, worker |-> w, buffer |-> channel.buffer,
                      cause |-> channel.cause] /\ channel.step \in Cleaning
      BY <1>6, <2>1 DEF AllowanceExhausted, Inv, Typed, Cleaning
    <2> QED
      BY <1>6, <2>1, <2>2, StepKeeps DEF AllowanceExhausted, Cleaning
  <1> QED
    BY <1>2, <1>3, <1>4, <1>5, <1>6 DEF Proceed

LEMMA NextInv == Inv /\ [Next]_vars => Inv'
  <1> SUFFICES ASSUME Inv, [Next]_vars
               PROVE  Inv'
    OBVIOUS
  <1>1. ASSUME NEW w \in Workers, WriteHead(w) \/ WriteTail(w) \/ WriteStray(w) \/ Exit(w)
        PROVE  Inv'
    BY <1>1 DEF WriteHead, WriteTail, WriteStray, Exit, transportVars, Inv, Typed, Slot, Pending,
       Unpoisoned, PoisonedTerminated
  <1>2. CASE UNCHANGED vars
    BY <1>2 DEF vars, transportVars, Inv, Typed, Slot, Pending, Unpoisoned, PoisonedTerminated
  <1> QED
    BY <1>1, <1>2, StartKeeps, AcquireKeeps, ProceedKeeps DEF Next

LEMMA Invariance == Spec => []Inv
  BY InitInv, NextInv, PTL DEF Spec

\* A request that failed on a worker failed after the worker had exited, however
\* many requests, callers and workers there are.
THEOREM PoisonedIsTerminated == Spec => []PoisonedTerminated
  <1>1. Inv => PoisonedTerminated
    BY DEF Inv
  <1> QED
    BY <1>1, Invariance, PTL

\* There is one worker at a time, apart from those that not even SIGKILL ended.
THEOREM OneWorkerRuns == Spec => []OneWorker
  <1>1. Inv => OneWorker
    BY DEF Inv, Slot, OneWorker
  <1> QED
    BY <1>1, Invariance, PTL
-----------------------------------------------------------------------------
(* A request starts at most one worker *)

Waits(r) == \E c \in Callers : /\ calls[c].op = "request" /\ calls[c].request = r
                              /\ channel.caller # c

\* Requests that have had the lock, or never needed it.
Served == {r \in 1 .. requested : ~Waits(r)}

Counted == spawned <= Cardinality(Served)

LEMMA ServedFinite ==
  ASSUME NEW S, NEW n \in Nat, S \subseteq 1 .. n
  PROVE  IsFiniteSet(S) /\ Cardinality(S) \in Nat /\ Cardinality(S) <= n
  <1>1. IsFiniteSet(1 .. n) /\ Cardinality(1 .. n) = n
    BY FS_Interval
  <1> QED
    BY <1>1, FS_Subset, FS_CardinalityType

LEMMA BoundedWorkers ==
  ASSUME Inv, Counted
  PROVE  spawned <= MaxRequests
  <1>1. requested \in Nat /\ Served \subseteq 1 .. requested
    BY BoundsAssumption DEF Inv, Typed, Served
  <1>2. Cardinality(Served) \in Nat /\ Cardinality(Served) <= requested
    BY <1>1, ServedFinite
  <1> QED
    BY <1>1, <1>2, BoundsAssumption DEF Inv, Typed, Counted

LEMMA InitCounted == Init => Counted
  <1> SUFFICES ASSUME Init
               PROVE  Counted
    OBVIOUS
  <1>1. Served \subseteq 1 .. 0
    BY DEF Init, Served
  <1>2. Cardinality(Served) \in Nat
    BY <1>1, ServedFinite
  <1> QED
    BY <1>2 DEF Init, Counted

\* Requests are served one after the other, and stay so.
LEMMA ServedGrows ==
  ASSUME Inv, Inv', [Next]_vars
  PROVE  Served \subseteq Served'
  <1> USE BoundsAssumption DEF Inv, Typed
  <1>1. ASSUME requested <= requested',
               \A d \in Callers : calls'[d].op = "request" /\ channel'.caller # d =>
                 \/ calls'[d].request = requested + 1
                 \/ calls'[d] = calls[d] /\ channel.caller # d
        PROVE  Served \subseteq Served'
    BY <1>1 DEF Served, Waits
  <1>2. ASSUME NEW c \in Callers, Start(c)
        PROVE  Served \subseteq Served'
    <2>1. channel' = channel /\ \A d \in Callers : d # c => calls'[d] = calls[d]
      BY <1>2 DEF Start, StartRequest, StartDiscard, StartClose
    <2>2. requested <= requested' /\ (calls'[c].op = "request" => calls'[c].request = requested + 1)
      BY <1>2 DEF Start, StartRequest, StartDiscard, StartClose, Call, Idle
    <2> QED
      BY <1>1, <2>1, <2>2
  <1>3. ASSUME NEW c \in Callers, calls[c].op \in {"request", "discard", "close"},
               NEW result, Return(c, result)
        PROVE  \A d \in Callers : calls'[d].op = "request" => calls'[d] = calls[d] /\ d # c
    BY <1>3 DEF Return, Call, Idle, Closed
  <1>4. ASSUME NEW c \in Callers, Acquire(c)
        PROVE  Served \subseteq Served'
    <2>1. channel.caller \notin Callers /\ requested' = requested
      BY <1>4 DEF Acquire, AcquireRequest, AcquireDiscard, AcquireClose, Acquires, Free
    <2>2. calls[c].op \in {"request", "discard", "close"}
      BY <1>4 DEF Acquire, AcquireRequest, AcquireDiscard, AcquireClose, Acquires
    <2>3. calls' = calls \/ \E result : Return(c, result)
      BY <1>4 DEF Acquire, AcquireRequest, AcquireDiscard, AcquireClose, Discard
    <2> QED
      BY <1>1, <1>3, <2>1, <2>2, <2>3
  <1>5. CASE Proceed
    <2>1. /\ channel.caller \in Callers /\ requested' = requested
          /\ calls[channel.caller].op \in {"request", "discard", "close"}
      <3>1. channel.step # "free" /\ requested' = requested
        BY <1>5 DEF Proceed, WriteFrame, ReadChunk, ReadTooMuch, ReadEndOfFile, Timeout, InExchange,
           CleanedUp, AllowanceExhausted, CleanupFailed
      <3> QED
        BY <3>1 DEF Slot, Free
    <2>2. \/ calls' = calls /\ channel'.caller = channel.caller
          \/ \E result : Return(channel.caller, result)
      <3>1. ASSUME NEW code, Fail(code)
            PROVE  \/ calls' = calls /\ channel'.caller = channel.caller
                   \/ \E result : Return(channel.caller, result)
        BY <3>1 DEF Fail, Discard, Holding, Free
      <3>2. CASE WriteFrame
        BY <3>1, <3>2 DEF WriteFrame
      <3>3. CASE ReadChunk
        BY <3>1, <3>3 DEF ReadChunk
      <3>4. CASE ReadTooMuch \/ ReadEndOfFile \/ Timeout
        BY <3>1, <3>4 DEF ReadTooMuch, ReadEndOfFile, Timeout
      <3>5. CASE CleanedUp \/ CleanupFailed \/ AllowanceExhausted
        BY <3>5 DEF CleanedUp, CleanupFailed, AllowanceExhausted
      <3> QED
        BY <1>5, <3>2, <3>3, <3>4, <3>5 DEF Proceed
    <2> QED
      BY <1>1, <1>3, <2>1, <2>2
  <1>6. ASSUME UNCHANGED <<calls, channel, requested>>
        PROVE  Served \subseteq Served'
    BY <1>6 DEF Served, Waits
  <1> QED
    BY <1>2, <1>4, <1>5, <1>6 DEF Next, vars, transportVars, WriteHead, WriteTail, WriteStray, Exit

\* A worker is started for a request that waited for the lock.
LEMMA SpawnServes ==
  ASSUME Inv, NEW c \in Callers, AcquireRequest(c), spawned' # spawned
  PROVE  /\ spawned' = spawned + 1
         /\ calls[c].request \in Served' \ Served
  <1>1. /\ spawned' = spawned + 1 /\ calls' = calls /\ requested' = requested
        /\ channel' = Holding(c, "write", spawned') /\ channel = Free /\ calls[c].op = "request"
    BY DEF AcquireRequest, Acquires
  <1>2. channel'.caller = c /\ channel.caller # c
    BY <1>1, BoundsAssumption DEF Holding, Free
  <1>3. calls[c].request \in 1 .. requested
        /\ \A d \in Callers : calls[d].op = "request" /\ calls[d].request = calls[c].request => d = c
    BY <1>1 DEF Inv, Pending
  <1> QED
    BY <1>1, <1>2, <1>3 DEF Served, Waits

LEMMA NextCounted ==
  ASSUME Inv, Inv', Counted, [Next]_vars
  PROVE  Counted'
  <1>1. requested' \in Nat /\ Served' \subseteq 1 .. requested'
    BY BoundsAssumption DEF Inv, Typed, Served
  <1>2. /\ Served \subseteq Served' /\ IsFiniteSet(Served')
        /\ Cardinality(Served') \in Nat /\ spawned \in Nat
    BY <1>1, ServedGrows, ServedFinite DEF Inv, Typed
  <1>3. /\ IsFiniteSet(Served) /\ Cardinality(Served) <= Cardinality(Served')
        /\ Cardinality(Served) \in Nat /\ spawned <= Cardinality(Served)
    BY <1>2, FS_Subset, FS_CardinalityType DEF Counted
  <1>4. CASE spawned' = spawned
    BY <1>2, <1>3, <1>4 DEF Counted
  <1>5. CASE spawned' # spawned
    <2>1. PICK c \in Callers : AcquireRequest(c)
      BY <1>5 DEF Next, vars, transportVars, Start, StartRequest, StartDiscard, StartClose, Acquire,
         AcquireDiscard, AcquireClose, Proceed, WriteFrame, ReadChunk, ReadTooMuch, ReadEndOfFile,
         Timeout, CleanedUp, AllowanceExhausted, CleanupFailed, WriteHead, WriteTail, WriteStray,
         Exit
    <2>2. spawned' = spawned + 1 /\ calls[c].request \in Served' \ Served
      BY <1>5, <2>1, SpawnServes
    <2>3. Cardinality(Served \cup {calls[c].request}) = Cardinality(Served) + 1
          /\ Served \cup {calls[c].request} \subseteq Served'
      BY <1>2, <1>3, <2>2, FS_AddElement
    <2>4. Cardinality(Served) + 1 <= Cardinality(Served')
      BY <1>2, <2>3, FS_Subset
    <2> QED
      BY <1>2, <1>3, <2>2, <2>4 DEF Counted
  <1> QED
    BY <1>4, <1>5

-----------------------------------------------------------------------------
(* Each step is a step of the exchange, or none *)

\* What Exchange has for its result.
Results ==
  [r \in Requests |->
     IF outcome[r] # Undecided THEN outcome[r]
     ELSE [Undecided EXCEPT !.code = IF r <= requested THEN "open" ELSE "new"]]

LEMMA OpenAndNew ==
  /\ Exchange!New = [code |-> "new", answer |-> NoRequest, worker |-> NoWorker]
  /\ Exchange!Open = [code |-> "open", answer |-> NoRequest, worker |-> NoWorker]
  /\ [Undecided EXCEPT !.code = "open"] = Exchange!Open
  /\ [Undecided EXCEPT !.code = "new"] = Exchange!New
  BY DEF Exchange!New, Exchange!Open, Exchange!Result, Undecided, Outcome

LEMMA ResultsChange ==
  ASSUME Inv, NEW r \in Requests, NEW value, value # Undecided,
         outcome' = [outcome EXCEPT ![r] = value],
         \A q \in Requests : q # r => (q <= requested <=> q <= requested')
  PROVE  Results' = [Results EXCEPT ![r] = value]
  BY DEF Results, Inv, Typed

\* A request that a caller waits for is open.
LEMMA RequestOpen ==
  ASSUME Inv, NEW c \in Callers, calls[c].op = "request"
  PROVE  calls[c].request \in Requests /\ Results[calls[c].request] = Exchange!Open
  <1>1. calls[c].request \in Requests /\ calls[c].request <= requested
        /\ outcome[calls[c].request] = Undecided
    BY BoundsAssumption DEF Inv, Typed, Pending, Requests
  <1> QED
    BY <1>1, OpenAndNew DEF Results

LEMMA ProcessNotPoisoned ==
  ASSUME Inv, process # NoWorker
  PROVE  process \notin Exchange!Poisoned
  <1>1. ASSUME NEW r \in Requests, Results[r].code \in FailureCodes, Results[r].worker = process
        PROVE  FALSE
    <2>1. Results[r] = outcome[r]
      BY <1>1, OpenAndNew DEF Results, FailureCodes
    <2> QED
      BY <1>1, <2>1 DEF Inv, Unpoisoned
  <1> QED
    BY <1>1 DEF Exchange!Poisoned, Results

LEMMA ReturnImplements ==
  ASSUME Inv, Counted, NEW c \in Callers, calls[c].op = "request", NEW code, NEW w \in 0 .. spawned,
         requested' = requested,
         \/ code \in FailureCodes /\ Return(c, Outcome(code, NoRequest, w))
         \/ w = process /\ w # NoWorker /\ Return(c, Outcome("ok", calls[c].request, w))
  PROVE  Exchange!Next
  <1> DEFINE r == calls[c].request
  <1>1. r \in Requests /\ Results[r] = Exchange!Open
    BY RequestOpen
  <1>2. w \in Workers \cup {NoWorker}
    BY BoundedWorkers, BoundsAssumption DEF Workers, NoWorker, Inv, Typed
  <1>3. CASE code \in FailureCodes /\ Return(c, Outcome(code, NoRequest, w))
    <2>1. Outcome(code, NoRequest, w) # Undecided
      BY <1>3 DEF Outcome, Undecided, FailureCodes
    <2>2. Results' = [Results EXCEPT ![r] = Outcome(code, NoRequest, w)]
      BY <1>1, <1>3, <2>1, ResultsChange DEF Return
    <2>3. Exchange!Fail(r, code, w)
      BY <1>1, <2>2 DEF Exchange!Fail, Exchange!Result, Outcome, Results
    <2> QED
      BY <1>1, <1>2, <1>3, <2>3 DEF Exchange!Next, Exchange!End
  <1>4. CASE w = process /\ w # NoWorker /\ Return(c, Outcome("ok", r, w))
    <2>1. Outcome("ok", r, w) # Undecided
      BY DEF Outcome, Undecided
    <2>2. Results' = [Results EXCEPT ![r] = Outcome("ok", r, w)]
      BY <1>1, <1>4, <2>1, ResultsChange DEF Return
    <2>3. Exchange!Answer(r, w)
      BY <1>1, <1>4, <2>2, ProcessNotPoisoned DEF Exchange!Answer, Exchange!Result, Outcome, Results
    <2> QED
      BY <1>1, <1>2, <1>4, <2>3 DEF Exchange!Next, Exchange!End
  <1> QED
    BY <1>3, <1>4

LEMMA ResultsSame ==
  ASSUME UNCHANGED <<outcome, requested>>
  PROVE  Results' = Results
  BY DEF Results

LEMMA StepImplements ==
  ASSUME Inv, Counted, [Next]_vars
  PROVE  [Exchange!Next]_Results
  <1> USE DEF NoRequest
  <1>1. ASSUME NEW c \in Callers, StartRequest(c)
        PROVE  Exchange!Next
    <2> DEFINE r == requested + 1
    <2>1. r \in Requests /\ requested' = r /\ outcome[r] = Undecided
          /\ \A q \in Requests : q # r => (q <= requested <=> q <= requested')
      BY <1>1, BoundsAssumption DEF StartRequest, Requests, Inv, Typed, Pending
    <2>2. Results[r] = Exchange!New
      BY <2>1, OpenAndNew, BoundsAssumption DEF Results, Inv, Typed
    <2>3. CASE UNCHANGED outcome
      <3>1. Results' = [Results EXCEPT ![r] = Exchange!Open]
        <4>1. r <= requested' /\ outcome'[r] = Undecided
          BY <2>1, <2>3, BoundsAssumption DEF Requests
        <4>2. Results'[r] = Exchange!Open
          BY <2>1, <4>1, OpenAndNew DEF Results
        <4>3. \A q \in Requests : q # r => Results'[q] = Results[q]
          BY <2>1, <2>3 DEF Results
        <4> QED
          BY <4>2, <4>3 DEF Results
      <3> QED
        BY <2>1, <2>2, <3>1 DEF Exchange!Next, Exchange!Start, Results
    <2>4. CASE outcome' = [outcome EXCEPT ![r] = Outcome("worker_request_too_large", NoRequest, NoWorker)]
      <3>1. Results' = [Results EXCEPT ![r] = Outcome("worker_request_too_large", NoRequest, NoWorker)]
        BY <2>1, <2>4, ResultsChange DEF Outcome, Undecided
      <3>2. Exchange!Fail(r, "worker_request_too_large", NoWorker)
        BY <2>2, <3>1 DEF Exchange!Fail, Exchange!Result, Outcome, Results
      <3> QED
        BY <2>1, <3>2 DEF Exchange!Next, Exchange!End, FailureCodes
    <2> QED
      BY <1>1, <2>1, <2>3, <2>4 DEF StartRequest
  <1>2. ASSUME NEW c \in Callers, calls[c].op # "request", NEW result, Return(c, result),
               requested' = requested
        PROVE  UNCHANGED <<outcome, requested>>
    BY <1>2 DEF Return
  <1>3. ASSUME NEW c \in Callers, StartDiscard(c) \/ StartClose(c)
        PROVE  UNCHANGED <<outcome, requested>>
    BY <1>3 DEF StartDiscard, StartClose
  <1>4. ASSUME NEW c \in Callers, AcquireDiscard(c) \/ AcquireClose(c)
        PROVE  UNCHANGED <<outcome, requested>>
    <2>1. calls[c].op # "request" /\ requested' = requested
      BY <1>4 DEF AcquireDiscard, AcquireClose, Acquires
    <2>2. UNCHANGED outcome \/ \E result : Return(c, result)
      BY <1>4 DEF AcquireDiscard, AcquireClose, Discard
    <2> QED
      BY <1>2, <2>1, <2>2
  <1>5. ASSUME NEW c \in Callers, AcquireRequest(c)
        PROVE  Exchange!Next \/ UNCHANGED <<outcome, requested>>
    <2>1. calls[c].op = "request" /\ requested' = requested
      BY <1>5 DEF AcquireRequest, Acquires
    <2>2. UNCHANGED outcome \/ Return(c, Outcome("worker_start_failed", NoRequest, NoWorker))
      BY <1>5 DEF AcquireRequest
    <2>3. NoWorker \in 0 .. spawned /\ "worker_start_failed" \in FailureCodes
      BY DEF NoWorker, FailureCodes, Inv, Typed
    <2> QED
      BY <2>1, <2>2, <2>3, ReturnImplements
  <1>6. ASSUME NEW code, Fail(code), InExchange, requested' = requested
        PROVE  UNCHANGED <<outcome, requested>>
    <2>1. channel.worker # NoWorker
      BY <1>6 DEF InExchange, Inv, Slot, Free, Cleaning
    <2> QED
      BY <1>6, <2>1 DEF Fail, Discard
  <1>7. ASSUME WriteFrame \/ ReadTooMuch \/ ReadEndOfFile \/ Timeout \/ AllowanceExhausted
        PROVE  UNCHANGED <<outcome, requested>>
    BY <1>6, <1>7 DEF WriteFrame, ReadTooMuch, ReadEndOfFile, Timeout, AllowanceExhausted,
       InExchange
  <1>8. ASSUME ReadChunk
        PROVE  Exchange!Next \/ UNCHANGED <<outcome, requested>>
    <2> DEFINE c == channel.caller
               w == channel.worker
    <2>1. InExchange /\ requested' = requested
      BY <1>8 DEF ReadChunk, InExchange
    <2>2. /\ c \in Callers /\ calls[c].op = "request"
          /\ w = process /\ w # NoWorker /\ w \in 0 .. spawned
      BY <2>1 DEF InExchange, Inv, Typed, Slot, Free, Cleaning
    <2>3. PICK buffer :
            \/ UNCHANGED outcome
            \/ /\ Verdict(buffer, calls[c].request) = "ok"
               /\ Return(c, Outcome("ok", buffer[2].request, w))
            \/ Fail(Verdict(buffer, calls[c].request))
      BY <1>8 DEF ReadChunk
    <2>4. Verdict(buffer, calls[c].request) = "ok" => buffer[2].request = calls[c].request
      BY DEF Verdict
    <2> QED
      BY <1>6, <2>1, <2>2, <2>3, <2>4, ReturnImplements
  <1>9. ASSUME CleanedUp \/ CleanupFailed
        PROVE  Exchange!Next \/ UNCHANGED <<outcome, requested>>
    <2> DEFINE c == channel.caller
    <2>1. /\ c \in Callers /\ channel.worker \in 0 .. spawned
          /\ calls[c].op = "request" => channel.cause \in FailureCodes
      BY <1>9 DEF CleanedUp, CleanupFailed, Inv, Typed, Slot, Free, Cleaning
    <2>2. PICK code \in {channel.cause, "worker_cleanup_failed"} :
            Return(c, Outcome(code, NoRequest, channel.worker)) /\ requested' = requested
      BY <1>9 DEF CleanedUp, CleanupFailed
    <2>3. CASE calls[c].op = "request"
      BY <2>1, <2>2, <2>3, ReturnImplements DEF FailureCodes
    <2>4. CASE calls[c].op # "request"
      BY <1>2, <2>1, <2>2, <2>4
    <2> QED
      BY <2>3, <2>4
  <1>10. ASSUME NEW w \in Workers, WriteHead(w) \/ WriteTail(w) \/ WriteStray(w) \/ Exit(w)
         PROVE  UNCHANGED <<outcome, requested>>
    BY <1>10 DEF WriteHead, WriteTail, WriteStray, Exit, transportVars
  <1>11. CASE UNCHANGED vars
    BY <1>11, ResultsSame DEF vars, transportVars
  <1>12. Next => Exchange!Next \/ UNCHANGED <<outcome, requested>>
    BY <1>1, <1>3, <1>4, <1>5, <1>7, <1>8, <1>9, <1>10 DEF Next, Start, Acquire, Proceed
  <1> QED
    BY <1>11, <1>12, ResultsSame

LEMMA CountedInvariance == Spec => [](Inv /\ Counted)
  <1>1. Init => Inv /\ Counted
    BY InitInv, InitCounted
  <1>2. Inv /\ Counted /\ [Next]_vars => (Inv /\ Counted)'
    BY NextInv, NextCounted
  <1> QED
    BY <1>1, <1>2, PTL DEF Spec

\* The safety of ImplementsExchange: a request ends once, with its own answer or with a
\* failure, and a worker that a request failed on answers no request after it.
THEOREM StepsOfExchange == Spec => Exchange!Init /\ [][Exchange!Next]_Results
  <1>1. Init => Exchange!Init
    BY OpenAndNew DEF Init, Exchange!Init, Requests, Results
  <1>2. Inv /\ Counted /\ [Next]_vars => [Exchange!Next]_Results
    BY StepImplements
  <1> QED
    BY <1>1, <1>2, CountedInvariance, PTL DEF Spec
=============================================================================
