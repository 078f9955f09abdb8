------------------------------- MODULE SfcRest -------------------------------
(***************************************************************************)
(* The demo provisioning scripts of netvirtsfc-env against the            *)
(* controller's config datastore: demo-asymmetric-chain/rest.py PUTs the  *)
(* SFC containers one after another (lines 301-335) and rest-clean.py     *)
(* DELETEs them (lines 96-141).  An operator runs them one at a time, any *)
(* number of times.                                                        *)
(*                                                                         *)
(* A container is a model value standing for one URI and its payload     *)
(* (the get_*_uri and get_*_data functions).  Every request can fail:     *)
(* the controller rejects it (an error status, nothing applied), or the   *)
(* connection drops before (nothing applied) or after (applied) the       *)
(* controller commits.  put() raises on either kind of failure (line 38   *)
(* raises ConnectionError, line 41 raise_for_status), ending rest.py with *)
(* a traceback; rest_delete prints "oops" and returns (lines 35-45).      *)
(***************************************************************************)
EXTENDS Naturals, SequencesExt, FiniteSets

CONSTANTS
    ProvisionOrder,  \* the containers rest.py PUTs, in order
    CleanOrder,      \* the containers rest-clean.py DELETEs, in order
    Refs,            \* container -> the containers its payload names
    MaxSessions      \* scripts run, at most

ASSUME MaxSessions \in Nat

VARIABLES
    store,     \* containers present in the config datastore
    script,    \* the script running: "none", "rest" or "clean"
    step,      \* index of its next request
    oops,      \* containers whose DELETE printed "oops" in this clean run
    sessions,  \* scripts started so far
    lastExit   \* how the last script ended: [script, status]

vars == <<store, script, step, oops, sessions, lastExit>>

Containers == Range(ProvisionOrder) \cup Range(CleanOrder)

ASSUME Refs \in [Containers -> SUBSET Containers]

\* Two containers whose payloads name each other (service functions and
\* their forwarders): neither can be sent after the other.
Mutual(c, d) == d \in Refs[c] /\ c \in Refs[d]

\* What a request does on the controller and what the client sees:
\* whether the datastore changed, and the error requests reports: none,
\* an error status ("status"), or an exception ("conn") raised before the
\* controller committed or after, with the response lost.
Outcomes == { [applied |-> TRUE,  error |-> "none"],
              [applied |-> FALSE, error |-> "status"],
              [applied |-> FALSE, error |-> "conn"],
              [applied |-> TRUE,  error |-> "conn"] }

Init ==
    /\ store = {}
    /\ script = "none"
    /\ step = 1
    /\ oops = {}
    /\ sessions = 0
    /\ lastExit = [script |-> "none", status |-> "none"]

\* `__main__` of either script: without ODL set it exits at once
\* (lines 306-308 of rest.py, 96-98 of rest-clean.py).
Start ==
    /\ script = "none" /\ sessions < MaxSessions
    /\ sessions' = sessions + 1
    /\ \E s \in {"rest", "clean"} :
          \/ /\ script' = s /\ step' = 1 /\ oops' = {}
             /\ UNCHANGED lastExit
          \/ /\ lastExit' = [script |-> s, status |-> "error"]
             /\ UNCHANGED <<script, step, oops>>
    /\ UNCHANGED store

\* put() without its raise_for_status: an error status goes unnoticed.
PutRaisesOnConnection(o) == o.error = "conn"

\* put() (rest.py 28-41) ends the script when the request raised
\* (ConnectionError at line 38) or the status is an error (line 41).
PutRaises(o) == o.error # "none"

\* One put() of rest.py's main: the container is stored when the
\* controller applies it; a failure ends rest.py, the containers PUT so
\* far staying in the datastore.  After the last one the script exits 0.
RestPut ==
    /\ script = "rest"
    /\ LET c == ProvisionOrder[step] IN
       \E o \in Outcomes :
          /\ store' = IF o.applied THEN store \cup {c} ELSE store
          /\ IF PutRaises(o)
             THEN /\ script' = "none"
                  /\ lastExit' = [script |-> "rest", status |-> "error"]
                  /\ UNCHANGED step
             ELSE IF step = Len(ProvisionOrder)
             THEN /\ script' = "none"
                  /\ lastExit' = [script |-> "rest", status |-> "ok"]
                  /\ UNCHANGED step
             ELSE /\ step' = step + 1
                  /\ UNCHANGED <<script, lastExit>>
    /\ UNCHANGED <<oops, sessions>>

\* A rest_delete without the raise_for_status of line 43: only an
\* exception of requests.delete prints "oops".
DeleteFailsOnException(o, c) == o.error = "conn"

\* rest_delete prints "oops" when requests.delete raises (37-39) or
\* raise_for_status rejects the status (42-45), 404 for an absent one.
DeleteFails(o, c) == o.error # "none" \/ c \notin store

\* One rest_delete() of rest-clean.py's main (28-45): a container that
\* is not there answers 404; any failure prints "oops" and the script
\* goes on.  After the last one the script exits 0.
CleanDelete ==
    /\ script = "clean"
    /\ LET c == CleanOrder[step] IN
       \E o \in Outcomes :
          /\ c \notin store => ~o.applied
          /\ store' = IF o.applied THEN store \ {c} ELSE store
          /\ oops' = IF DeleteFails(o, c) THEN oops \cup {c} ELSE oops
          /\ IF step = Len(CleanOrder)
             THEN /\ script' = "none"
                  /\ lastExit' = [script |-> "clean", status |-> "ok"]
                  /\ UNCHANGED step
             ELSE /\ step' = step + 1
                  /\ UNCHANGED <<script, lastExit>>
    /\ UNCHANGED sessions

Next == Start \/ RestPut \/ CleanDelete

\* A running script always issues its next request; the controller
\* answers each one (requests waits without a timeout).
Spec == Init /\ [][Next]_vars

-----------------------------------------------------------------------------
(* Properties.                                                            *)

\* Once rest.py has exited 0, the datastore holds every container it
\* provisions, whatever earlier runs of either script left behind: put()
\* stops the script at the first request that did not succeed, and PUT
\* replaces what a failed run left.
ProvisionedOnSuccess ==
    (script = "none" /\ lastExit = [script |-> "rest", status |-> "ok"])
        => Range(ProvisionOrder) \subseteq store

\* Once rest-clean.py has exited (always with status 0), every container
\* still in the datastore is one whose DELETE printed "oops": the clean
\* list covers everything rest.py provisions, and a failure is never
\* silent.
CleanResidueReported ==
    (script = "none" /\ lastExit = [script |-> "clean", status |-> "ok"])
        => store \subseteq oops

\* Whenever rest.py sends a PUT, every container the payload names is
\* already in the datastore, but for one that names it back: the order
\* of lines 315-335, and the sleeps that follow the service functions and
\* forwarders and the chains and paths, assume each container is sent
\* after the ones it refers to.
PutAfterReferenced ==
    script = "rest" =>
        LET c == ProvisionOrder[step] IN
        \A d \in Refs[c] : Mutual(c, d) \/ d \in store
=============================================================================
