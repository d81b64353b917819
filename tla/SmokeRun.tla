------------------------------ MODULE SmokeRun ------------------------------
(***************************************************************************)
(* ValidateService.SmokeRun (pkg/validate, service.go): concurrent calls,  *)
(* each of which creates a Kubernetes Job, waits for its outcome by        *)
(* relisting it and watching it from the observed version, and deletes it. *)
(* The watch may close at any time, every API request may fail, the Job    *)
(* changes between any two requests, and one deadline bounds the wait.     *)
(* The API server, its watch stream and the Job controller are external.   *)
(* Callers give their Jobs distinct names, so that calls share only the    *)
(* namespace.                                                              *)
(***************************************************************************)
EXTENDS Naturals, Sequences

CONSTANTS
    Calls,      \* SmokeRun calls
    MaxUpdates  \* bound: versions of a Job

ASSUME BoundAssumption == MaxUpdates \in Nat \ {0}

VARIABLES
    service,     \* starting, serving, or unregistered until a restart
    namespace,   \* nodevault-smoke exists
    job,         \* per call: the versions its Job has had
    pc,
    seen,        \* version of the Job the call has observed
    interrupted, \* observation has had a gap
    expired,     \* the smoke deadline has passed, or the caller went away
    result,
    outcome,     \* history: the Job's last version when the call expired
    failed       \* history: its create or its delete was reported as failed

clusterVars == <<namespace, job>>
waitVars == <<seen, interrupted>>
vars == <<service, clusterVars, pc, waitVars, expired, result, outcome, failed>>

States == {"active", "complete", "failed", "deleted"}
Current(c) == IF job[c] = <<>> THEN "deleted" ELSE job[c][Len(job[c])]

Results == {"none", "refused", "success", "failed", "deleted", "timed out", "unknown"}
Waiting == {"relist", "open", "watch", "closed", "broken"}

-----------------------------------------------------------------------------
(* Start-up: one probe decides whether the service is registered at all.    *)

checkReachable ==
    /\ service = "starting"
    /\ service' \in {"serving", "unregistered"}
    /\ UNCHANGED <<clusterVars, pc, waitVars, expired, result, outcome, failed>>

-----------------------------------------------------------------------------
(* Steps of a call *)

Goto(c, label) == pc' = [pc EXCEPT ![c] = label]
Failing(c) == failed' = [failed EXCEPT ![c] = TRUE]

(* The wait is over; the deferred delete follows on every path. *)
Conclude(c, r) ==
    /\ result' = [result EXCEPT ![c] = r]
    /\ Goto(c, IF r = "success" THEN "logs" ELSE "cleanup")

Refuse(c) ==
    /\ result' = [result EXCEPT ![c] = "refused"]
    /\ Goto(c, "done")

(* A failing read is taken for an absent namespace. *)
ensureNamespace(c) ==
    /\ service = "serving"
    /\ pc[c] = "idle"
    /\ \/ namespace /\ Goto(c, "create")
       \/ Goto(c, "namespace")
    /\ UNCHANGED <<service, clusterVars, waitVars, expired, result, outcome, failed>>

(* Any error of the create is final, also that another one was faster. *)
createNamespace(c) ==
    /\ pc[c] = "namespace"
    /\ \/ /\ ~namespace
          /\ namespace' = TRUE
          /\ Goto(c, "create")
          /\ UNCHANGED result
       \/ Refuse(c) /\ UNCHANGED namespace
    /\ UNCHANGED <<service, job, waitVars, expired, outcome, failed>>

(* A create that is reported as failed may have created the Job. *)
createJob(c) ==
    /\ pc[c] = "create"
    /\ \/ /\ job' = [job EXCEPT ![c] = <<"active">>]
          /\ Goto(c, "relist")
          /\ UNCHANGED <<result, failed>>
       \/ /\ job' \in {job, [job EXCEPT ![c] = <<"active">>]}
          /\ Refuse(c)
          /\ Failing(c)
    /\ UNCHANGED <<service, namespace, waitVars, expired, outcome>>

(* jobResultFromConditions, and a Job that is gone *)
Outcome(state) ==
    CASE state = "complete" -> "success"
      [] state = "failed"   -> "failed"
      [] state = "deleted"  -> "deleted"
      [] OTHER              -> "none"

(* watchJobOnce, first half: read the Job; only an unfinished one is        *)
(* watched, from the version just read.                                     *)
relist(c) ==
    /\ pc[c] = "relist"
    /\ ~expired[c]
    /\ \/ /\ Outcome(Current(c)) # "none"
          /\ Conclude(c, Outcome(Current(c)))
          /\ UNCHANGED seen
       \/ /\ Outcome(Current(c)) = "none"
          /\ Goto(c, "open")
          /\ seen' = [seen EXCEPT ![c] = Len(job[c])]
          /\ UNCHANGED result
    /\ UNCHANGED <<service, clusterVars, interrupted, expired, outcome, failed>>

openWatch(c) ==
    /\ pc[c] = "open"
    /\ ~expired[c]
    /\ Goto(c, "watch")
    /\ UNCHANGED <<service, clusterVars, waitVars, expired, result, outcome, failed>>

(* The read or the watch request fails, as every one does past the deadline. *)
requestFails(c) ==
    /\ pc[c] \in {"relist", "open"}
    /\ Goto(c, "broken")
    /\ interrupted' = [interrupted EXCEPT ![c] = TRUE]
    /\ UNCHANGED <<service, clusterVars, seen, expired, result, outcome, failed>>

(* The stream delivers the versions after the one observed, in order.       *)
handleJobEvent(c) ==
    /\ pc[c] = "watch"
    /\ seen[c] < Len(job[c])
    /\ seen' = [seen EXCEPT ![c] = @ + 1]
    /\ LET r == Outcome(job[c][seen[c] + 1])
       IN  IF r = "none" THEN UNCHANGED <<pc, result>> ELSE Conclude(c, r)
    /\ UNCHANGED <<service, clusterVars, interrupted, expired, outcome, failed>>

watchCloses(c) ==
    /\ pc[c] = "watch"
    /\ Goto(c, "closed")
    /\ interrupted' = [interrupted EXCEPT ![c] = TRUE]
    /\ UNCHANGED <<service, clusterVars, seen, expired, result, outcome, failed>>

(* waitForJob backs off, then reconnects. *)
reconnect(c) ==
    /\ pc[c] \in {"closed", "broken"}
    /\ Goto(c, "relist")
    /\ UNCHANGED <<service, clusterVars, waitVars, expired, result, outcome, failed>>

IgnoresDeadline(c) ==
    /\ expired[c]
    /\ pc[c] \in {"closed", "broken"}
    /\ \/ /\ pc[c] = "closed"
          /\ Goto(c, "confirm")
          /\ UNCHANGED result
       \/ /\ pc[c] = "broken"
          /\ Conclude(c, "unknown")
    /\ UNCHANGED <<service, clusterVars, waitVars, expired, outcome, failed>>

(* Past the deadline a reconnect that failed ends with an unknown outcome;  *)
(* a watch, or its clean close, asks for the final state once more.         *)
deadline(c) ==
    /\ expired[c]
    /\ \/ /\ pc[c] \in {"watch", "closed"}
          /\ Goto(c, "confirm")
          /\ UNCHANGED result
       \/ /\ pc[c] = "broken"
          /\ Conclude(c, "unknown")
    /\ UNCHANGED <<service, clusterVars, waitVars, expired, outcome, failed>>

AlwaysTimedOut(c) ==
    /\ pc[c] = "confirm"
    /\ \/ Conclude(c, IF Outcome(Current(c)) = "none" THEN "timed out"
                                                     ELSE Outcome(Current(c)))
       \/ Conclude(c, "timed out")
    /\ UNCHANGED <<service, clusterVars, waitVars, expired, outcome, failed>>

(* The confirming read, outside the caller's context, may fail as well. *)
deadlineResult(c) ==
    /\ pc[c] = "confirm"
    /\ \/ Conclude(c, IF Outcome(Current(c)) = "none" THEN "timed out"
                                                     ELSE Outcome(Current(c)))
       \/ Conclude(c, IF interrupted[c] THEN "unknown" ELSE "timed out")
    /\ UNCHANGED <<service, clusterVars, waitVars, expired, outcome, failed>>

(* Logs that cannot be read are left out of the result. *)
collectLogs(c) ==
    /\ pc[c] = "logs"
    /\ Goto(c, "cleanup")
    /\ UNCHANGED <<service, clusterVars, waitVars, expired, result, outcome, failed>>

Deleted(c) == IF Current(c) = "deleted" THEN job ELSE [job EXCEPT ![c] = Append(@, "deleted")]

OnlySuccessCleansUp(c) ==
    /\ pc[c] = "cleanup"
    /\ job' = IF result[c] = "success" THEN Deleted(c) ELSE job
    /\ Goto(c, "done")
    /\ UNCHANGED <<service, namespace, waitVars, expired, result, outcome, failed>>

(* The deferred delete runs outside the caller's context; its error is      *)
(* ignored.                                                                 *)
deleteJob(c) ==
    /\ pc[c] = "cleanup"
    /\ \/ job' = Deleted(c) /\ UNCHANGED failed
       \/ Failing(c) /\ UNCHANGED job
    /\ Goto(c, "done")
    /\ UNCHANGED <<service, namespace, waitVars, expired, result, outcome>>

-----------------------------------------------------------------------------
(* Time and the cluster *)

(* smokeTimeout, or the caller's context is done. *)
Expire(c) ==
    /\ pc[c] \in Waiting
    /\ ~expired[c]
    /\ expired' = [expired EXCEPT ![c] = TRUE]
    /\ outcome' = [outcome EXCEPT ![c] = Current(c)]
    /\ UNCHANGED <<service, clusterVars, pc, waitVars, result, failed>>

(* The Job controller, and whoever deletes the Job (its TTL, an operator).  *)
JobChanges(c) ==
    /\ Current(c) # "deleted"
    /\ Len(job[c]) < MaxUpdates
    /\ \E state \in IF Current(c) = "active" THEN States ELSE {"deleted"} :
         job' = [job EXCEPT ![c] = Append(@, state)]
    /\ UNCHANGED <<service, namespace, pc, waitVars, expired, result, outcome, failed>>

(* The namespace is created by an operator or by another replica. *)
NamespaceAppears ==
    /\ ~namespace
    /\ namespace' = TRUE
    /\ UNCHANGED <<service, job, pc, waitVars, expired, result, outcome, failed>>

-----------------------------------------------------------------------------
(* Specification *)

Init ==
    /\ service = "starting"
    /\ namespace \in BOOLEAN
    /\ job = [c \in Calls |-> <<>>]
    /\ pc = [c \in Calls |-> "idle"]
    /\ seen = [c \in Calls |-> 0]
    /\ interrupted = [c \in Calls |-> FALSE]
    /\ expired = [c \in Calls |-> FALSE]
    /\ result = [c \in Calls |-> "none"]
    /\ outcome = [c \in Calls |-> "active"]
    /\ failed = [c \in Calls |-> FALSE]

(* Requests that return, with an answer or an error, and timers. *)
Step(c) ==
    \/ createNamespace(c) \/ createJob(c)
    \/ relist(c) \/ openWatch(c) \/ requestFails(c)
    \/ reconnect(c)
    \/ deadlineResult(c) \/ collectLogs(c) \/ deleteJob(c)

Next ==
    \/ checkReachable \/ NamespaceAppears
    \/ \E c \in Calls :
         \/ ensureNamespace(c) \/ Step(c) \/ deadline(c)
         \/ handleJobEvent(c) \/ watchCloses(c)
         \/ Expire(c) \/ JobChanges(c)

(* The deadline is fair on its own: a reconnect may win the race with it    *)
(* again and again, but not for ever.  No event, and no end of the watch,   *)
(* is taken for granted.                                                    *)
Spec ==
    /\ Init /\ [][Next]_vars
    /\ \A c \in Calls : WF_vars(Step(c)) /\ WF_vars(Expire(c)) /\ SF_vars(deadline(c))

-----------------------------------------------------------------------------
(* Properties *)

Labels == {"idle", "namespace", "create", "confirm", "logs", "cleanup", "done"} \cup Waiting

TypeOK ==
    /\ service \in {"starting", "serving", "unregistered"}
    /\ namespace \in BOOLEAN
    /\ job \in [Calls -> Seq(States)]
    /\ pc \in [Calls -> Labels]
    /\ seen \in [Calls -> Nat]
    /\ interrupted \in [Calls -> BOOLEAN]
    /\ expired \in [Calls -> BOOLEAN]
    /\ result \in [Calls -> Results]
    /\ outcome \in [Calls -> States]
    /\ failed \in [Calls -> BOOLEAN]

Reached(c, state) == \E i \in DOMAIN job[c] : job[c][i] = state

(* What a call reports happened to its Job, whatever it missed in the gaps  *)
(* of its watch: it succeeds only with a Job that completed, and once       *)
(* observation was interrupted it reports a timeout only for a Job that was *)
(* still unfinished at the deadline.                                        *)
ReportIsTrue ==
    \A c \in Calls :
        /\ result[c] = "success" => Reached(c, "complete")
        /\ result[c] = "failed"  => Reached(c, "failed")
        /\ result[c] = "deleted" => Reached(c, "deleted")
        /\ result[c] = "timed out" /\ interrupted[c] => outcome[c] = "active"

(* The deferred delete is on every path: however the wait ended, a Job      *)
(* stays behind only if its create or its delete was reported as failed.    *)
NothingLeftBehind ==
    \A c \in Calls : pc[c] = "done" /\ ~failed[c] => Current(c) = "deleted"

(* Every call ends, even if the watch stays silent for ever.                *)
CallEnds == \A c \in Calls : (pc[c] # "idle") ~> (pc[c] = "done")

-----------------------------------------------------------------------------
(* A statement of the repository that the code does not keep.               *)

(* service.go on deadlineResult: a "timed out" is justified when            *)
(* "observation was never interrupted (an uninterrupted watch saw           *)
(* everything up to the deadline)".                                         *)
TimedOutIsGenuine ==
    \A c \in Calls : result[c] = "timed out" => outcome[c] = "active"
=============================================================================
