---------------------------- MODULE WorkerExchange ----------------------------
(***************************************************************************)
(* What the channel to persistent model workers promises its callers: a    *)
(* request ends once, with the answer a worker gave to it or with a        *)
(* failure, and a worker a request failed on answers no request after it.  *)
(***************************************************************************)
EXTENDS Naturals

CONSTANTS Requests, Workers, NoRequest, NoWorker, FailureCodes

VARIABLE result   \* what each request came to

Result(code, answer, w) == [code |-> code, answer |-> answer, worker |-> w]

New  == Result("new", NoRequest, NoWorker)
Open == Result("open", NoRequest, NoWorker)

\* Workers a request has failed on.
Poisoned == {result[r].worker : r \in {q \in Requests : result[q].code \in FailureCodes}}
              \ {NoWorker}

Init == result = [r \in Requests |-> New]

Start(r) ==
  /\ result[r] = New
  /\ result' = [result EXCEPT ![r] = Open]

Answer(r, w) ==
  /\ result[r] = Open
  /\ w \notin Poisoned
  /\ result' = [result EXCEPT ![r] = Result("ok", r, w)]

\* A request may fail before it has a worker, or before it has begun.
Fail(r, code, w) ==
  /\ result[r] \in {New, Open}
  /\ result' = [result EXCEPT ![r] = Result(code, NoRequest, w)]

End(r) ==
  \/ \E w \in Workers : Answer(r, w)
  \/ \E w \in Workers \cup {NoWorker}, code \in FailureCodes : Fail(r, code, w)

Next == \E r \in Requests : Start(r) \/ End(r)

\* A request that was started ends.
Spec == Init /\ [][Next]_result /\ \A r \in Requests : (result[r] = Open) ~> (result[r] # Open)
=============================================================================
