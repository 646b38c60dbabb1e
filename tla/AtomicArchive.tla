----------------------------- MODULE AtomicArchive -----------------------------
(***************************************************************************)
(* The Archive its users are written against: an object is there under its *)
(* name from one step on, with the content somebody put, and for good; a   *)
(* put is reported once all it put is there; and a Candidate Wiki build    *)
(* becomes the active one when its put is reported.                        *)
(***************************************************************************)
CONSTANTS
  Processes, Names, Payloads, None,
  Builds   \* the names that can be active

VARIABLES
  put,      \* the names each process puts something under, and what
  store,    \* the object under each name, or None
  active,   \* the name of the active build, or None
  accepted  \* processes whose put was reported as created or reused

vars == <<put, store, active, accepted>>

Holds(p) == \A name \in put[p].names : store[name] = put[p].payload

Put(p, name) ==
  /\ name \in put[p].names
  /\ store[name] = None
  /\ store' = [store EXCEPT ![name] = put[p].payload]
  /\ UNCHANGED put

\* A put is reported in the step that stores its only object, or after it; what
\* another process has stored under the name will do if it is the same.
Accept(p) ==
  /\ p \notin accepted
  /\ UNCHANGED <<put, store>> \/ \E name \in Names : Put(p, name)
  /\ Holds(p)'
  /\ accepted' = accepted \cup {p}
  /\ IF put[p].names \cap Builds = {} THEN UNCHANGED active
                                      ELSE active' \in put[p].names \cap Builds

Init ==
  /\ put \in [Processes -> [names : SUBSET Names, payload : Payloads]]
  /\ store = [name \in Names |-> None]
  /\ active = None
  /\ accepted = {}

Next ==
  \E p \in Processes :
    \/ \E name \in Names : Put(p, name) /\ UNCHANGED <<active, accepted>>
    \/ Accept(p)

Spec == Init /\ [][Next]_vars
=============================================================================
