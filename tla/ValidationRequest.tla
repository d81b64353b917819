------------------------- MODULE ValidationRequest -------------------------
(***************************************************************************)
(* The life of a validation request: the build path that records and       *)
(* enqueues it (pkg/build), the retry loop that recovers failed and        *)
(* stranded enqueues (pkg/reconcile, enqueue.go), the REST intake that     *)
(* stores NodeSentinel's results and correlates them (pkg/catalogrest),    *)
(* and the index records they all share (pkg/index, store.go).  The        *)
(* process may crash between any two steps, and a save of the index may    *)
(* fail after the in-memory index has already been changed.  NodeSentinel  *)
(* and the network are external.                                           *)
(***************************************************************************)
EXTENDS Naturals, FiniteSets

CONSTANTS
    Requests,         \* validation_request_ids, each minted once
    Legacy,           \* requests stored before the replay fields existed
    MaxAttempts,      \* EnqueueRetryConfig.MaxAttempts
    MaxCrashes,       \* bound: process crashes
    MaxSaveFailures   \* bound: saves that fail before the rename

ASSUME LegacyAssumption == Legacy \subseteq Requests
ASSUME MaxAttemptsAssumption == MaxAttempts \in Nat \ {0}
ASSUME BoundsAssumption == MaxCrashes \in Nat /\ MaxSaveFailures \in Nat

VARIABLES
    rec,          \* in-memory ValidationRequestRecords
    checks,       \* in-memory result records (ToolCheckRecords, ToolScanRecords)
    diskRec,      \* the same two collections in the index file
    diskChecks,
    saveFailures, \* saves failed so far
    crashes,      \* crashes so far
    buildPc,      \* where enqueueSentinelValidation stands, per request
    retrierPc,    \* where the single RetryDue goroutine stands
    todo,         \* rest of the pass's snapshot
    seen,         \* EnqueueAttempts of each record in that snapshot
    old,          \* requests older than PendingStaleAfter when the pass began
    current,      \* request whose retry RPC is in flight
    aged,         \* requests older than PendingStaleAfter now
    backoff,      \* requests whose NextAttemptAt is still in the future
    wire,         \* enqueue RPCs travelling to NodeSentinel
    job,          \* NodeSentinel's job of each request
    outbox,       \* results NodeSentinel has to deliver
    acked         \* results NodeVault has answered with 200

storeVars == <<rec, checks, diskRec, diskChecks, saveFailures>>
retrierVars == <<retrierPc, todo, seen, old, current>>
clockVars == <<aged, backoff>>
sentinelVars == <<job, outbox>>
vars == <<storeVars, crashes, buildPc, retrierVars, clockVars, wire,
          sentinelVars, acked>>

-----------------------------------------------------------------------------
(* Records *)

Terminal == {"Succeeded", "Failed", "Interrupted", "EnqueueAbandoned"}
Statuses == {"EnqueuePending", "Queued", "Running", "Unavailable"} \cup Terminal
Record == [status: Statuses \cup {"Absent"}, attempts: 0..MaxAttempts]
Absent == [status |-> "Absent", attempts |-> 0]

(* What NodeSentinel reports for a job: one non-terminal record (L5-a) and  *)
(* one terminal record that carries the verdict.                           *)
Progress(r) == [req |-> r, terminal |-> FALSE, succeeded |-> TRUE]
Verdict(r, ok) == [req |-> r, terminal |-> TRUE, succeeded |-> ok]
Results == [req: Requests, terminal: BOOLEAN, succeeded: BOOLEAN]

(* The edges of the status graph; a status with no entry has no edge. *)
validValidationTransitions(s) ==
    CASE s = "EnqueuePending" -> {"Queued", "Unavailable", "Running"}
      [] s = "Unavailable"    -> {"EnqueuePending", "Queued", "Running", "EnqueueAbandoned"}
      [] s = "Queued"         -> {"Running", "Failed", "Interrupted"}
      [] s = "Running"        -> {"Succeeded", "Failed", "Interrupted"}
      [] OTHER                -> {}

-----------------------------------------------------------------------------
(* The index store: memory is changed first, then the whole index is        *)
(* written; a write that fails before the rename leaves memory changed.     *)

SaveSucceeds(newRec, newChecks) ==
    /\ rec' = newRec
    /\ checks' = newChecks
    /\ diskRec' = newRec
    /\ diskChecks' = newChecks
    /\ UNCHANGED saveFailures

SaveFails(newRec, newChecks) ==
    /\ saveFailures < MaxSaveFailures
    /\ rec' = newRec
    /\ checks' = newChecks
    /\ saveFailures' = saveFailures + 1
    /\ UNCHANGED <<diskRec, diskChecks>>

(* Callers of this form log a failed save and go on. *)
save(newRec, newChecks) ==
    SaveSucceeds(newRec, newChecks) \/ SaveFails(newRec, newChecks)

CreateValidationRequestRecord(r) ==
    save([rec EXCEPT ![r] = [status |-> "EnqueuePending", attempts |-> 0]], checks)

(* An edge outside the graph, or an unknown id, changes and saves nothing. *)
TransitionValidationRequest(r, to, attempts) ==
    \/ /\ to \in validValidationTransitions(rec[r].status)
       /\ save([rec EXCEPT ![r] = [status |-> to, attempts |-> attempts]], checks)
    \/ /\ to \notin validValidationTransitions(rec[r].status)
       /\ UNCHANGED storeVars

(* Bookkeeping of a failed retry: only while the record is Unavailable. *)
UpdateValidationRequestRetryState(r, attempts) ==
    \/ /\ rec[r].status = "Unavailable"
       /\ save([rec EXCEPT ![r] = [status |-> "Unavailable", attempts |-> attempts]], checks)
    \/ /\ rec[r].status # "Unavailable"
       /\ UNCHANGED storeVars

(* The status after a result: promote to Running where the graph allows it, *)
(* then close out if the result is terminal; a refused edge is swallowed.   *)
applyValidationCorrelation(m, s) ==
    LET promoted == IF "Running" \in validValidationTransitions(s)
                    THEN "Running" ELSE s
        target   == IF m.succeeded THEN "Succeeded" ELSE "Failed"
    IN  IF m.terminal /\ target \in validValidationTransitions(promoted)
        THEN target ELSE promoted

-----------------------------------------------------------------------------
(* The build path: enqueueSentinelValidation *)

CreateValidationRequest(r) ==
    /\ buildPc[r] = "idle"
    /\ CreateValidationRequestRecord(r)
    /\ buildPc' = [buildPc EXCEPT ![r] = "calling"]
    /\ wire' = wire \cup {r}
    /\ UNCHANGED <<crashes, retrierVars, clockVars, sentinelVars, acked>>

QueuedBeforeReply(r) ==
    /\ buildPc[r] = "calling"
    /\ TransitionValidationRequest(r, "Queued", rec[r].attempts)
    /\ buildPc' = [buildPc EXCEPT ![r] = "done"]
    /\ UNCHANGED <<crashes, retrierVars, clockVars, wire, sentinelVars, acked>>

BuildEnqueued(r) ==
    /\ buildPc[r] = "calling"
    /\ job[r] # "none"
    /\ TransitionValidationRequest(r, "Queued", rec[r].attempts)
    /\ buildPc' = [buildPc EXCEPT ![r] = "done"]
    /\ UNCHANGED <<crashes, retrierVars, clockVars, wire, sentinelVars, acked>>

(* The RPC failed or timed out; it may have reached NodeSentinel all the    *)
(* same, or may still reach it.                                             *)
BuildEnqueueFailed(r) ==
    /\ buildPc[r] = "calling"
    /\ TransitionValidationRequest(r, "Unavailable", 1)
    /\ buildPc' = [buildPc EXCEPT ![r] = "done"]
    /\ UNCHANGED <<crashes, retrierVars, clockVars, wire, sentinelVars, acked>>

-----------------------------------------------------------------------------
(* The retry loop: one goroutine, one RetryDue pass at a time *)

(* The Unavailable records the pass acts on: a spent budget is escalated    *)
(* whatever the back-off says, a record without replay fields is inert.     *)
Due(r) ==
    /\ rec[r].status = "Unavailable"
    /\ \/ rec[r].attempts >= MaxAttempts
       \/ r \notin Legacy /\ r \notin backoff

RetryDue ==
    /\ retrierPc = "idle"
    /\ todo' = {r \in Requests : Due(r)}
    /\ seen' = [r \in Requests |-> rec[r].attempts]
    /\ old' = aged
    /\ retrierPc' = "unavailable"
    /\ UNCHANGED <<storeVars, crashes, buildPc, current, clockVars, wire,
                   sentinelVars, acked>>

EscalateOneEarly(r) ==
    /\ retrierPc = "unavailable"
    /\ r \in todo
    /\ seen[r] + 1 >= MaxAttempts
    /\ TransitionValidationRequest(r, "EnqueueAbandoned", rec[r].attempts)
    /\ todo' = todo \ {r}
    /\ UNCHANGED <<crashes, buildPc, retrierPc, seen, old, current, clockVars,
                   wire, sentinelVars, acked>>

escalate(r) ==
    /\ retrierPc = "unavailable"
    /\ r \in todo
    /\ seen[r] >= MaxAttempts
    /\ TransitionValidationRequest(r, "EnqueueAbandoned", rec[r].attempts)
    /\ todo' = todo \ {r}
    /\ UNCHANGED <<crashes, buildPc, retrierPc, seen, old, current, clockVars,
                   wire, sentinelVars, acked>>

(* The record stays Unavailable while the RPC is in flight. *)
retryOne(r) ==
    /\ retrierPc = "unavailable"
    /\ r \in todo
    /\ seen[r] < MaxAttempts
    /\ todo' = todo \ {r}
    /\ current' = r
    /\ retrierPc' = "rpc"
    /\ wire' = wire \cup {r}
    /\ UNCHANGED <<storeVars, crashes, buildPc, seen, old, clockVars,
                   sentinelVars, acked>>

QueuedForgetsAttempts ==
    /\ retrierPc = "rpc"
    /\ job[current] # "none"
    /\ TransitionValidationRequest(current, "Queued", 0)
    /\ retrierPc' = "unavailable"
    /\ UNCHANGED <<crashes, buildPc, todo, seen, old, current, clockVars, wire,
                   sentinelVars, acked>>

onRetrySuccess ==
    /\ retrierPc = "rpc"
    /\ job[current] # "none"
    /\ TransitionValidationRequest(current, "Queued", seen[current] + 1)
    /\ retrierPc' = "unavailable"
    /\ UNCHANGED <<crashes, buildPc, todo, seen, old, current, clockVars, wire,
                   sentinelVars, acked>>

RetryFailureNotCounted ==
    /\ retrierPc = "rpc"
    /\ UpdateValidationRequestRetryState(current, seen[current])
    /\ backoff' = backoff \cup {current}
    /\ retrierPc' = "unavailable"
    /\ UNCHANGED <<crashes, buildPc, todo, seen, old, current, aged, wire,
                   sentinelVars, acked>>

onRetryFailure ==
    /\ retrierPc = "rpc"
    /\ UpdateValidationRequestRetryState(current, seen[current] + 1)
    /\ backoff' = IF rec[current].status = "Unavailable"
                  THEN backoff \cup {current} ELSE backoff
    /\ retrierPc' = "unavailable"
    /\ UNCHANGED <<crashes, buildPc, todo, seen, old, current, aged, wire,
                   sentinelVars, acked>>

(* Second half of the pass: requests stranded in EnqueuePending. *)
recoverStrandedPending ==
    /\ retrierPc = "unavailable"
    /\ todo = {}
    /\ todo' = {r \in old \ Legacy : rec[r].status = "EnqueuePending"}
    /\ seen' = [r \in Requests |-> 0]
    /\ old' = {}
    /\ retrierPc' = "pending"
    /\ UNCHANGED <<storeVars, crashes, buildPc, current, clockVars, wire,
                   sentinelVars, acked>>

recoverPending(r) ==
    /\ retrierPc = "pending"
    /\ r \in todo
    /\ TransitionValidationRequest(r, "Unavailable", rec[r].attempts)
    /\ todo' = todo \ {r}
    /\ UNCHANGED <<crashes, buildPc, retrierPc, seen, old, current, clockVars,
                   wire, sentinelVars, acked>>

PassEnds ==
    /\ retrierPc = "pending"
    /\ todo = {}
    /\ retrierPc' = "idle"
    /\ UNCHANGED <<storeVars, crashes, buildPc, todo, seen, old, current,
                   clockVars, wire, sentinelVars, acked>>

-----------------------------------------------------------------------------
(* The intake: the result record and the request's status in one save.      *)
(* A result already in memory is answered 200 without a save.  Check and    *)
(* scan records take the same path.                                         *)

StoreCheckOnly(m) == rec

CorrelatedRec(m) ==
    [rec EXCEPT ![m.req] =
        [status |-> applyValidationCorrelation(m, rec[m.req].status),
         attempts |-> rec[m.req].attempts]]

AppendCheckRecordCorrelated(m) ==
    /\ m \in outbox
    /\ m \notin checks
    /\ SaveSucceeds(CorrelatedRec(m), checks \cup {m})
    /\ acked' = acked \cup {m}
    /\ outbox' \in {outbox, outbox \ {m}}   \* the 200 may be lost
    /\ UNCHANGED <<crashes, buildPc, retrierVars, clockVars, wire, job>>

AppendCheckRecordSaveFails(m) ==
    /\ m \in outbox
    /\ m \notin checks
    /\ SaveFails(CorrelatedRec(m), checks \cup {m})
    /\ UNCHANGED <<crashes, buildPc, retrierVars, clockVars, wire,
                   sentinelVars, acked>>

DuplicateCheckRecord(m) ==
    /\ m \in outbox
    /\ m \in checks
    /\ acked' = acked \cup {m}
    /\ outbox' \in {outbox, outbox \ {m}}
    /\ UNCHANGED <<storeVars, crashes, buildPc, retrierVars, clockVars, wire, job>>

-----------------------------------------------------------------------------
(* NodeSentinel, the network, time and crashes *)

(* One job per validation_request_id, however often it is enqueued. *)
SentinelAccepts(r) ==
    /\ r \in wire
    /\ wire' = wire \ {r}
    /\ job' = [job EXCEPT ![r] = IF @ = "none" THEN "queued" ELSE @]
    /\ UNCHANGED <<storeVars, crashes, buildPc, retrierVars, clockVars, outbox, acked>>

EnqueueLost(r) ==
    /\ r \in wire
    /\ wire' = wire \ {r}
    /\ UNCHANGED <<storeVars, crashes, buildPc, retrierVars, clockVars,
                   sentinelVars, acked>>

SentinelRuns(r) ==
    /\ job[r] = "queued"
    /\ \E ok \in BOOLEAN : outbox' = outbox \cup {Progress(r), Verdict(r, ok)}
    /\ job' = [job EXCEPT ![r] = "done"]
    /\ UNCHANGED <<storeVars, crashes, buildPc, retrierVars, clockVars, wire, acked>>

PendingAges(r) ==
    /\ r \notin aged
    /\ rec[r].status = "EnqueuePending"
    /\ aged' = aged \cup {r}
    /\ UNCHANGED <<storeVars, crashes, buildPc, retrierVars, backoff, wire,
                   sentinelVars, acked>>

BackoffElapses(r) ==
    /\ r \in backoff
    /\ backoff' = backoff \ {r}
    /\ UNCHANGED <<storeVars, crashes, buildPc, retrierVars, aged, wire,
                   sentinelVars, acked>>

(* The process dies and restarts: goroutines vanish, the index is loaded    *)
(* from its file.  What is on the wire and inside NodeSentinel stays.       *)
CrashRestart ==
    /\ crashes < MaxCrashes
    /\ crashes' = crashes + 1
    /\ rec' = diskRec
    /\ checks' = diskChecks
    /\ buildPc' = [r \in Requests |-> IF buildPc[r] = "calling" THEN "done"
                                      ELSE buildPc[r]]
    /\ retrierPc' = "idle"
    /\ todo' = {}
    /\ seen' = [r \in Requests |-> 0]
    /\ old' = {}
    /\ UNCHANGED <<diskRec, diskChecks, saveFailures, current, clockVars, wire,
                   sentinelVars, acked>>

-----------------------------------------------------------------------------
(* Specification *)

Init ==
    /\ rec \in [Requests -> {Absent,
                             [status |-> "Unavailable", attempts |-> 0],
                             [status |-> "EnqueuePending", attempts |-> 0]}]
    /\ \A r \in Requests : (rec[r] = Absent) <=> (r \notin Legacy)
    /\ checks = {}
    /\ diskRec = rec
    /\ diskChecks = {}
    /\ saveFailures = 0
    /\ crashes = 0
    /\ buildPc = [r \in Requests |-> IF r \in Legacy THEN "done" ELSE "idle"]
    /\ retrierPc = "idle"
    /\ todo = {}
    /\ seen = [r \in Requests |-> 0]
    /\ old = {}
    /\ current \in Requests
    /\ aged = Legacy
    /\ backoff = {}
    /\ wire = {}
    /\ job = [r \in Requests |-> "none"]
    /\ outbox = {}
    /\ acked = {}

BuildPath(r) == CreateValidationRequest(r) \/ BuildEnqueued(r) \/ BuildEnqueueFailed(r)
BuildReturns(r) == BuildEnqueued(r) \/ BuildEnqueueFailed(r)

Retrier ==
    \/ RetryDue
    \/ \E r \in Requests : escalate(r) \/ retryOne(r) \/ recoverPending(r)
    \/ onRetrySuccess \/ onRetryFailure
    \/ recoverStrandedPending \/ PassEnds

Intake(m) ==
    \/ AppendCheckRecordCorrelated(m)
    \/ AppendCheckRecordSaveFails(m)
    \/ DuplicateCheckRecord(m)

Environment(r) ==
    \/ SentinelAccepts(r) \/ EnqueueLost(r) \/ SentinelRuns(r)
    \/ PendingAges(r) \/ BackoffElapses(r)

Next ==
    \/ \E r \in Requests : BuildPath(r) \/ Environment(r)
    \/ Retrier
    \/ \E m \in Results : Intake(m)
    \/ CrashRestart

Spec == Init /\ [][Next]_vars

(* The RPC has a deadline, the retry loop a ticker, clocks advance,         *)
(* NodeSentinel runs the jobs it has and redelivers until it gets a 200.    *)
Fairness ==
    /\ \A r \in Requests :
         /\ WF_vars(BuildReturns(r))
         /\ WF_vars(PendingAges(r))
         /\ WF_vars(BackoffElapses(r))
         /\ WF_vars(SentinelRuns(r))
    /\ WF_vars(Retrier)
    /\ \A m \in Results : WF_vars(Intake(m))

FairSpec == Spec /\ Fairness

-----------------------------------------------------------------------------
(* Properties *)

TypeOK ==
    /\ rec \in [Requests -> Record]
    /\ diskRec \in [Requests -> Record]
    /\ checks \in SUBSET Results
    /\ diskChecks \in SUBSET Results
    /\ saveFailures \in 0..MaxSaveFailures
    /\ crashes \in 0..MaxCrashes
    /\ buildPc \in [Requests -> {"idle", "calling", "done"}]
    /\ retrierPc \in {"idle", "unavailable", "rpc", "pending"}
    /\ todo \in SUBSET Requests
    /\ seen \in [Requests -> 0..MaxAttempts]
    /\ old \in SUBSET Requests
    /\ current \in Requests
    /\ aged \in SUBSET Requests
    /\ backoff \in SUBSET Requests
    /\ wire \in SUBSET Requests
    /\ job \in [Requests -> {"none", "queued", "done"}]
    /\ outbox \in SUBSET Results
    /\ acked \in SUBSET Results

(* A record that claims NodeSentinel has the work (Queued or beyond) is     *)
(* backed by a job NodeSentinel really holds, in memory and after a         *)
(* restart: neither a late ACK, a retry nor a recovered record invents one. *)
HasJob(s) == s \in {"Queued", "Running", "Succeeded", "Failed"}

AcknowledgedWorkExists ==
    \A r \in Requests :
        HasJob(rec[r].status) \/ HasJob(diskRec[r].status) => job[r] # "none"

(* AppendToolCheckRecordCorrelated keeps a stored result and the status of  *)
(* its request from diverging: a stored verdict shows in the status (unless *)
(* the request was abandoned or its record was lost before it was saved),   *)
(* and a closed status has its verdict stored.                              *)
Outcome(ok) == IF ok THEN "Succeeded" ELSE "Failed"

AgreeAt(r, status, results) ==
    /\ \A ok \in BOOLEAN :
         /\ Verdict(r, ok) \in results =>
              status \in {Outcome(ok), "EnqueueAbandoned", "Absent"}
         /\ status = Outcome(ok) => Verdict(r, ok) \in results
    /\ Progress(r) \in results =>
         status \in {"Running", "Succeeded", "Failed", "EnqueueAbandoned", "Absent"}

Agree(records, results) ==
    \A r \in Requests : AgreeAt(r, records[r].status, results)

RecordAndStatusAgree == Agree(rec, checks) /\ Agree(diskRec, diskChecks)

(* EnqueueAbandoned is reached only once the whole attempt budget is spent, *)
(* although the retry loop decides on a snapshot that may be stale.         *)
AbandonedOnlyAfterBudget ==
    \A r \in Requests :
        rec[r].status = "EnqueueAbandoned" => rec[r].attempts = MaxAttempts

(* A record without the replay fields is never re-sent, and never given up. *)
LegacyInert ==
    \A r \in Legacy :
        /\ r \notin wire
        /\ rec[r].status \in {"EnqueuePending", "Unavailable"}

(* What a reader of the index file sees of a request only moves forward,    *)
(* across late ACKs, out-of-order results, failed saves and crashes, and a  *)
(* terminal status never changes; the attempt count never goes down.        *)
Stage(s) ==
    CASE s = "Absent"         -> 0
      [] s = "EnqueuePending" -> 1
      [] s = "Unavailable"    -> 2
      [] s = "Queued"         -> 3
      [] s = "Running"        -> 4
      [] OTHER                -> 5

Forward(a, b) ==
    /\ Stage(a.status) <= Stage(b.status)
    /\ a.status \in Terminal => b.status = a.status
    /\ a.attempts <= b.attempts

DurableStatusMovesForward ==
    [][\A r \in Requests : Forward(diskRec[r], diskRec'[r])]_vars

(* Every recorded request is settled in the end: the enqueue is retried     *)
(* until NodeSentinel has it or the budget is spent, and a result closes it. *)
(* A save that fails is excluded: a result acknowledged from memory and lost *)
(* in a crash is not sent again, and its request stays Queued.              *)
EventuallySettled ==
    \A r \in Requests \ Legacy :
        [](saveFailures = 0) =>
            ((rec[r].status # "Absent") ~> (rec[r].status \in Terminal))

-----------------------------------------------------------------------------
(* Statements of the repository that the code does not keep: each one has   *)
(* a counterexample, described in the README.                               *)

(* schema.go on ValidationEnqueueAbandoned: "every attempt failed in        *)
(* transport/process before the work was ever queued".                      *)
AbandonedNeverQueued ==
    \A r \in Requests : rec[r].status = "EnqueueAbandoned" => job[r] = "none"

(* A result NodeVault has answered with 200 is in the index file: the       *)
(* sender stops redelivering it, so nothing else can bring it back.         *)
AckedResultIsDurable == acked \subseteq diskChecks

(* schema.go on EnqueueAttempts: it "counts how many times an enqueue has   *)
(* actually been attempted for this logical request (the initial build-path *)
(* attempt plus every retry)".                                              *)
QueuedCountsAnAttempt ==
    \A r \in Requests : rec[r].status = "Queued" => rec[r].attempts >= 1

-----------------------------------------------------------------------------
(* The inductive invariant behind the safety properties *)

(* NodeSentinel reports only for a job it has run, one verdict per job. *)
ReportsInv ==
    /\ \A m \in outbox \cup checks \cup diskChecks :
         /\ job[m.req] = "done"
         /\ m.terminal \/ m.succeeded
    /\ \A m, n \in outbox \cup checks \cup diskChecks :
         m.terminal /\ n.terminal /\ m.req = n.req => m = n

(* A request not yet created has left no trace anywhere. *)
FreshInv ==
    \A r \in Requests : buildPc[r] = "idle" =>
        /\ rec[r].status = "Absent"
        /\ diskRec[r].status = "Absent"
        /\ r \notin wire
        /\ job[r] = "none"

(* Record shapes: nobody interrupts a request, a pending one has no failed  *)
(* attempt on record, an abandoned one has spent its budget.                *)
Shape(x) ==
    /\ x.status # "Interrupted"
    /\ x.status \in {"Absent", "EnqueuePending"} => x.attempts = 0
    /\ x.status = "EnqueueAbandoned" => x.attempts = MaxAttempts

ShapeInv(f) == \A r \in Requests : Shape(f[r])

(* What the retry loop remembers of a record is still true of it as long as *)
(* the record is Unavailable.                                               *)
Remembers(r) ==
    /\ rec[r].status \notin {"Absent", "EnqueuePending"}
    /\ rec[r].status = "Unavailable" => rec[r].attempts = seen[r]

SnapshotInv ==
    /\ retrierPc \in {"unavailable", "rpc"} => \A r \in todo : Remembers(r)
    /\ retrierPc = "rpc" =>
         /\ Remembers(current)
         /\ current \notin todo
         /\ seen[current] < MaxAttempts

(* Memory is never behind the file. *)
AheadInv == \A r \in Requests : Forward(diskRec[r], rec[r])

IInv ==
    /\ TypeOK
    /\ ReportsInv
    /\ FreshInv
    /\ ShapeInv(rec)
    /\ ShapeInv(diskRec)
    /\ SnapshotInv
    /\ AheadInv
    /\ AcknowledgedWorkExists
    /\ RecordAndStatusAgree
=============================================================================
