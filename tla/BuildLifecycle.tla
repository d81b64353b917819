--------------------------- MODULE BuildLifecycle ---------------------------
(***************************************************************************)
(* One submitted tool build from SubmitToolBuild to its terminal status:   *)
(* the durable build_state row (pkg/buildstate), the detached goroutine    *)
(* that builds, records and registers (pkg/build, submit_tool_build.go and *)
(* service.go), the registration it calls (pkg/catalog, catalog.go), and   *)
(* the concurrent CancelToolBuild and WatchToolBuild.  The row, the index  *)
(* and the CAS catalog are three stores written one after the other: each  *)
(* write may fail and the process may crash between any two of them.  The  *)
(* image builder is external.                                              *)
(***************************************************************************)
EXTENDS Naturals

CONSTANTS
    Builds,         \* build ids (the request_id of SubmitToolBuild)
    Specs,          \* digests of resolved tool specs
    FunctionSpecs,  \* those whose frozen schema is the v1 function build
    NoSpec,
    MaxFaults,      \* bound: failed writes
    MaxCrashes      \* bound: process crashes

ASSUME SpecsAssumption == FunctionSpecs \subseteq Specs /\ NoSpec \notin Specs
ASSUME BoundsAssumption == MaxFaults \in Nat /\ MaxCrashes \in Nat

VARIABLES
    row,        \* build_state: spec, status and whether image_digest is set
    newer,      \* updated_at differs from the one the watcher saw last
    starting,   \* SubmitToolBuild between CreateOrGet and startSubmittedBuild
    pc,         \* where the goroutine of runSubmittedBuild stands
    outcome,    \* the status finalizeSubmittedBuild is to write
    active,     \* the activeBuild entry: none, running or failed
    canceled,   \* the goroutine's context is canceled
    canceling,  \* CancelToolBuild between cancel() and its Transition
    cancelOK,   \* CancelToolBuild was answered with success
    pushes,     \* images this build id has pushed
    record,     \* ToolBuildRecord in the index: none, success or failure
    image,      \* ToolImageRecord is in the index file
    cas,        \* the .tooldefinition file is written
    entry,      \* index entry: absent, only in memory, in the file
    watch,      \* WatchToolBuild: off, polling, checking, ended
    seen,       \* the status it sent last
    faults,
    crashes

rowVars == <<row, newer>>
runVars == <<starting, pc, outcome, pushes>>
cancelVars == <<canceled, canceling, cancelOK>>
indexVars == <<record, image, cas, entry>>
watchVars == <<watch, seen>>
vars == <<rowVars, runVars, active, cancelVars, indexVars, watchVars, faults, crashes>>

Terminal == {"Succeeded", "Failed", "Interrupted"}
Statuses == {"Requested", "Resolving", "Building", "Pushing"} \cup Terminal
Absent == [spec |-> NoSpec, status |-> "Absent", artifact |-> FALSE]

-----------------------------------------------------------------------------
(* The build_state table.  updated_at has millisecond resolution: a write   *)
(* may leave it as the watcher saw it.                                      *)

WriteRow(b, r) ==
    /\ row' = [row EXCEPT ![b] = r]
    /\ newer' \in {newer, [newer EXCEPT ![b] = TRUE]}

Fault ==
    /\ faults < MaxFaults
    /\ faults' = faults + 1

AlreadyTerminal(b) == row[b].status \in Terminal

OnlyInterruptedIsFinal(b, next) ==
    /\ row[b].status \notin {"Absent", "Interrupted"}
    /\ WriteRow(b, [row[b] EXCEPT !.status = next])
    /\ UNCHANGED faults

(* Transition in one IMMEDIATE transaction; a terminal row refuses it. *)
Transition(b, next) ==
    /\ row[b].status \in Statuses \ Terminal
    /\ WriteRow(b, [row[b] EXCEPT !.status = next])
    /\ UNCHANGED faults

(* The same when it returns an error: the row is terminal, or SQLite failed. *)
TransitionFails(b) ==
    /\ \/ AlreadyTerminal(b) /\ UNCHANGED faults
       \/ Fault
    /\ UNCHANGED rowVars

-----------------------------------------------------------------------------
(* SubmitToolBuild *)

Go(b, to) == pc' = [pc EXCEPT ![b] = to]

(* The INSERT, refused when the build id has a row. *)
Create(b, d) ==
    /\ row[b].status = "Absent"
    /\ WriteRow(b, [spec |-> d, status |-> "Requested", artifact |-> FALSE])

(* Only the call whose INSERT succeeds starts the build: a repeated request *)
(* is answered from the row, one with another spec is refused.              *)
SubmitToolBuild(b, d) ==
    /\ Create(b, d)
    /\ starting' = [starting EXCEPT ![b] = TRUE]
    /\ UNCHANGED <<pc, outcome, pushes, active, cancelVars, indexVars, watchVars,
                   faults, crashes>>

startSubmittedBuild(b) ==
    /\ starting[b]
    /\ starting' = [starting EXCEPT ![b] = FALSE]
    /\ active' = [active EXCEPT ![b] = "running"]
    /\ canceled' = [canceled EXCEPT ![b] = FALSE]
    /\ Go(b, "resolving")
    /\ UNCHANGED <<rowVars, outcome, pushes, canceling, cancelOK, indexVars,
                   watchVars, faults, crashes>>

-----------------------------------------------------------------------------
(* runSubmittedBuild *)

IsFunctionBuild(b) == row[b].spec \in FunctionSpecs

(* A transition in mid-build: whatever error it returns abandons the build. *)
Advance(b, at, next, to) ==
    /\ pc[b] = at
    /\ \/ Transition(b, next) /\ Go(b, to)
       \/ TransitionFails(b) /\ Go(b, "abandoning")
    /\ UNCHANGED <<starting, outcome, pushes, active, cancelVars, indexVars,
                   watchVars, crashes>>

Resolving(b) == Advance(b, "resolving", "Resolving", "preparing")
Building(b) == Advance(b, "preparing", "Building", "building")

RetriesBuildOnFailure(b) ==
    /\ pc[b] = "pushed"
    /\ \/ Transition(b, "Pushing") /\ Go(b, "artifact")
       \/ TransitionFails(b) /\ Go(b, "building")
    /\ UNCHANGED <<starting, outcome, pushes, active, cancelVars, indexVars,
                   watchVars, crashes>>

Pushing(b) == Advance(b, "pushed", "Pushing", "artifact")

(* The status the goroutine will write last. *)
Conclude(b, status) ==
    /\ outcome' = [outcome EXCEPT ![b] = status]
    /\ Go(b, "finalizing")

(* A ToolBuildRecord is unique per build id: a second one is refused and    *)
(* only logged.                                                             *)
AppendToolBuildRecord(b, result) ==
    record' = [record EXCEPT ![b] = IF @ = "none" THEN result ELSE @]

recordBuildFailure(b) == AppendToolBuildRecord(b, "failure")

failSubmittedBuild(b) ==
    /\ recordBuildFailure(b)
    /\ Conclude(b, "Failed")

BuildSucceeds(b) ==
    /\ pc[b] = "building"
    /\ pushes' = [pushes EXCEPT ![b] = @ + 1]
    /\ Go(b, "pushed")
    /\ UNCHANGED <<rowVars, starting, outcome, active, cancelVars, indexVars,
                   watchVars, faults, crashes>>

(* context.Canceled ends in Interrupted, without a ToolBuildRecord. *)
BuildCanceled(b) ==
    /\ pc[b] = "building"
    /\ canceled[b]
    /\ Conclude(b, "Interrupted")
    /\ UNCHANGED <<rowVars, starting, pushes, active, cancelVars, indexVars,
                   watchVars, faults, crashes>>

(* Any other builder error, an unavailable backend, or a panic caught by    *)
(* recoverSubmittedBuildPanic.                                              *)
InBody == {"building", "pushed", "artifact", "record", "image", "register",
           "append", "referrer"}

BuildFails(b) ==
    /\ pc[b] \in InBody
    /\ failSubmittedBuild(b)
    /\ UNCHANGED <<rowVars, starting, pushes, active, cancelVars, image, cas,
                   entry, watchVars, faults, crashes>>

(* SetArtifact updates the row whatever its status; its error is only       *)
(* logged here.                                                             *)
SetArtifact(b) ==
    /\ pc[b] = "artifact"
    /\ \/ WriteRow(b, [row[b] EXCEPT !.artifact = TRUE]) /\ UNCHANGED faults
       \/ Fault /\ UNCHANGED rowVars
    /\ Go(b, "record")
    /\ UNCHANGED <<starting, outcome, pushes, active, cancelVars, indexVars,
                   watchVars, crashes>>

recordBuildSuccess(b) ==
    /\ pc[b] = "record"
    /\ AppendToolBuildRecord(b, "success")
    /\ Go(b, "image")
    /\ UNCHANGED <<rowVars, starting, outcome, pushes, active, cancelVars, image,
                   cas, entry, watchVars, faults, crashes>>

FunctionIgnoresErrors(b, saved) ==
    IF IsFunctionBuild(b)
    THEN Conclude(b, "Succeeded") /\ UNCHANGED record
    ELSE Go(b, "register") /\ UNCHANGED <<outcome, record>>

(* A function build ends here, and only with both the row's digest and the  *)
(* index's locator; a tool build goes on to register whatever was saved.    *)
AfterImageRecord(b, saved) ==
    IF IsFunctionBuild(b)
    THEN IF row[b].artifact /\ saved
         THEN Conclude(b, "Succeeded") /\ UNCHANGED record
         ELSE failSubmittedBuild(b)
    ELSE Go(b, "register") /\ UNCHANGED <<outcome, record>>

(* A failed save may still have reached the file. *)
AppendToolImageRecord(b) ==
    /\ pc[b] = "image"
    /\ \/ /\ image' = [image EXCEPT ![b] = TRUE]
          /\ AfterImageRecord(b, TRUE)
          /\ UNCHANGED faults
       \/ /\ Fault
          /\ image' \in {image, [image EXCEPT ![b] = TRUE]}
          /\ AfterImageRecord(b, FALSE)
    /\ UNCHANGED <<rowVars, starting, pushes, active, cancelVars, cas, entry,
                   watchVars, crashes>>

(* RegisterTool writes the CAS file; failing that the build is Failed.      *)
SaveWithCasHash(b) ==
    /\ pc[b] = "register"
    /\ \/ /\ cas' = [cas EXCEPT ![b] = TRUE]
          /\ Go(b, "append")
          /\ UNCHANGED <<outcome, faults>>
       \/ /\ Fault
          /\ Conclude(b, "Failed")
          /\ UNCHANGED cas
    /\ UNCHANGED <<rowVars, starting, pushes, active, cancelVars, record, image,
                   entry, watchVars, crashes>>

(* Then it appends the index entry; an error is logged and the registration *)
(* succeeds.  The entry may be dropped, kept in memory, or in the file.     *)
AppendEntry(b) ==
    /\ pc[b] = "append"
    /\ \/ entry' = [entry EXCEPT ![b] = "file"] /\ UNCHANGED faults
       \/ Fault /\ \E e \in {"absent", "memory", "file"} : entry' = [entry EXCEPT ![b] = e]
    /\ Go(b, "referrer")
    /\ UNCHANGED <<rowVars, starting, outcome, pushes, active, cancelVars, record,
                   image, cas, watchVars, crashes>>

(* Referrer push, ReconcileOne, SetReferrer and the validation enqueue: all *)
(* best-effort; of the row only updated_at matters here.                    *)
SetReferrer(b) ==
    /\ pc[b] = "referrer"
    /\ \/ WriteRow(b, row[b]) /\ UNCHANGED faults
       \/ Fault /\ UNCHANGED rowVars
    /\ Conclude(b, "Succeeded")
    /\ UNCHANGED <<starting, pushes, active, cancelVars, indexVars, watchVars, crashes>>

DropsEntryOnError(b) ==
    /\ pc[b] = "finalizing"
    /\ Transition(b, outcome[b]) \/ TransitionFails(b)
    /\ active' = [active EXCEPT ![b] = "none"]
    /\ Go(b, "done")
    /\ UNCHANGED <<starting, outcome, pushes, cancelVars, indexVars, watchVars, crashes>>

(* The terminal write.  Losing it to a cancel is normal; a failed write is  *)
(* an abandonment.                                                          *)
finalizeSubmittedBuild(b) ==
    /\ pc[b] = "finalizing"
    /\ \/ /\ \/ Transition(b, outcome[b])
             \/ AlreadyTerminal(b) /\ UNCHANGED <<rowVars, faults>>
          /\ active' = [active EXCEPT ![b] = "none"]
          /\ Go(b, "done")
       \/ /\ Fault
          /\ Go(b, "abandoning")
          /\ UNCHANGED <<rowVars, active>>
    /\ UNCHANGED <<starting, outcome, pushes, cancelVars, indexVars, watchVars, crashes>>

(* The entry stays, failed, for every watcher to find. *)
abandonSubmittedBuild(b) ==
    /\ pc[b] = "abandoning"
    /\ recordBuildFailure(b)
    /\ active' = [active EXCEPT ![b] = "failed"]
    /\ Go(b, "done")
    /\ UNCHANGED <<rowVars, starting, outcome, pushes, cancelVars, image, cas,
                   entry, watchVars, faults, crashes>>

-----------------------------------------------------------------------------
(* CancelToolBuild: the context first, the row second *)

cancelSubmittedBuild(b) ==
    /\ ~canceling[b]
    /\ canceling' = [canceling EXCEPT ![b] = TRUE]
    /\ canceled' = [canceled EXCEPT ![b] = @ \/ active[b] # "none"]
    /\ UNCHANGED <<rowVars, runVars, active, cancelOK, indexVars, watchVars,
                   faults, crashes>>

Answer(b, ok) ==
    /\ canceling' = [canceling EXCEPT ![b] = FALSE]
    /\ cancelOK' = [cancelOK EXCEPT ![b] = @ \/ ok]

(* A refused transition is a success if the row is Interrupted anyway. *)
CancelToolBuild(b) ==
    /\ canceling[b]
    /\ \/ Transition(b, "Interrupted") /\ Answer(b, TRUE)
       \/ TransitionFails(b) /\ Answer(b, row[b].status = "Interrupted")
       \/ row[b].status = "Absent" /\ Answer(b, FALSE) /\ UNCHANGED <<rowVars, faults>>
    /\ UNCHANGED <<runVars, active, canceled, indexVars, watchVars, crashes>>

-----------------------------------------------------------------------------
(* WatchToolBuild *)

Sent(b) ==
    /\ seen' = [seen EXCEPT ![b] = row[b].status]
    /\ newer' = [newer EXCEPT ![b] = FALSE]
    /\ watch' = [watch EXCEPT ![b] = IF AlreadyTerminal(b) THEN "ended" ELSE "polling"]

WatchToolBuild(b) ==
    /\ watch[b] = "off"
    /\ row[b].status # "Absent"
    /\ Sent(b)
    /\ UNCHANGED <<row, runVars, active, cancelVars, indexVars, faults, crashes>>

ChangedByTimeOnly(b) == newer[b]

Changed(b) == row[b].status # seen[b] \/ newer[b]

WatchPoll(b) ==
    /\ watch[b] = "polling"
    /\ \/ Changed(b) /\ Sent(b)
       \/ ~Changed(b) /\ watch' = [watch EXCEPT ![b] = "checking"] /\ UNCHANGED <<newer, seen>>
    /\ UNCHANGED <<row, runVars, active, cancelVars, indexVars, faults, crashes>>

(* An unchanged row may belong to an abandoned build: ask the registry. *)
activeBuildFailure(b) ==
    /\ watch[b] = "checking"
    /\ watch' = [watch EXCEPT ![b] = IF active[b] = "failed" THEN "ended" ELSE "polling"]
    /\ UNCHANGED <<rowVars, runVars, active, cancelVars, indexVars, seen, faults, crashes>>

WatcherLeaves(b) ==
    /\ watch[b] \in {"polling", "checking"}
    /\ watch' = [watch EXCEPT ![b] = "off"]
    /\ UNCHANGED <<rowVars, runVars, active, cancelVars, indexVars, seen, faults, crashes>>

-----------------------------------------------------------------------------
(* Other index writes, crash and restart *)

(* Every later successful save writes the whole in-memory index. *)
LaterSave(b) ==
    /\ entry[b] = "memory"
    /\ entry' = [entry EXCEPT ![b] = "file"]
    /\ UNCHANGED <<rowVars, runVars, active, cancelVars, record, image, cas,
                   watchVars, faults, crashes>>

(* Every row left non-terminal by the dead process. *)
RecoverInterrupted(r) ==
    IF r.status \in Statuses \ Terminal THEN [r EXCEPT !.status = "Interrupted"] ELSE r

(* Startup recovers before it serves; it does not start if that fails. *)
CrashRestart ==
    /\ crashes < MaxCrashes
    /\ crashes' = crashes + 1
    /\ row' = [b \in Builds |-> RecoverInterrupted(row[b])]
    /\ newer' = [b \in Builds |-> FALSE]
    /\ starting' = [b \in Builds |-> FALSE]
    /\ pc' = [b \in Builds |-> "done"]
    /\ active' = [b \in Builds |-> "none"]
    /\ canceled' = [b \in Builds |-> FALSE]
    /\ canceling' = [b \in Builds |-> FALSE]
    /\ entry' = [b \in Builds |-> IF entry[b] = "memory" THEN "absent" ELSE entry[b]]
    /\ watch' = [b \in Builds |-> "off"]
    /\ UNCHANGED <<outcome, pushes, cancelOK, record, image, cas, seen, faults>>

-----------------------------------------------------------------------------
(* Specification *)

Init ==
    /\ row = [b \in Builds |-> Absent]
    /\ newer = [b \in Builds |-> FALSE]
    /\ starting = [b \in Builds |-> FALSE]
    /\ pc = [b \in Builds |-> "done"]
    /\ outcome = [b \in Builds |-> "Failed"]
    /\ active = [b \in Builds |-> "none"]
    /\ canceled = [b \in Builds |-> FALSE]
    /\ canceling = [b \in Builds |-> FALSE]
    /\ cancelOK = [b \in Builds |-> FALSE]
    /\ pushes = [b \in Builds |-> 0]
    /\ record = [b \in Builds |-> "none"]
    /\ image = [b \in Builds |-> FALSE]
    /\ cas = [b \in Builds |-> FALSE]
    /\ entry = [b \in Builds |-> "absent"]
    /\ watch = [b \in Builds |-> "off"]
    /\ seen = [b \in Builds |-> "Absent"]
    /\ faults = 0
    /\ crashes = 0

runSubmittedBuild(b) ==
    \/ Resolving(b) \/ Building(b)
    \/ BuildSucceeds(b) \/ BuildCanceled(b) \/ BuildFails(b)
    \/ Pushing(b) \/ SetArtifact(b)
    \/ recordBuildSuccess(b) \/ AppendToolImageRecord(b)
    \/ SaveWithCasHash(b) \/ AppendEntry(b) \/ SetReferrer(b)
    \/ finalizeSubmittedBuild(b) \/ abandonSubmittedBuild(b)

Watcher(b) == WatchPoll(b) \/ activeBuildFailure(b)

Next ==
    \/ \E b \in Builds :
         \/ \E d \in Specs : SubmitToolBuild(b, d)
         \/ startSubmittedBuild(b)
         \/ runSubmittedBuild(b)
         \/ cancelSubmittedBuild(b) \/ CancelToolBuild(b)
         \/ WatchToolBuild(b) \/ Watcher(b) \/ WatcherLeaves(b)
         \/ LaterSave(b)
    \/ CrashRestart

Spec == Init /\ [][Next]_vars

(* Goroutines are scheduled, the builder returns, the poll ticker ticks. *)
Fairness ==
    \A b \in Builds :
        /\ WF_vars(startSubmittedBuild(b))
        /\ WF_vars(runSubmittedBuild(b))
        /\ WF_vars(Watcher(b))

FairSpec == Spec /\ Fairness

-----------------------------------------------------------------------------
(* Properties *)

Pcs == InBody \cup {"resolving", "preparing", "finalizing", "abandoning", "done"}

TypeOK ==
    /\ row \in [Builds -> [spec: Specs \cup {NoSpec}, status: Statuses \cup {"Absent"},
                           artifact: BOOLEAN]]
    /\ newer \in [Builds -> BOOLEAN]
    /\ starting \in [Builds -> BOOLEAN]
    /\ pc \in [Builds -> Pcs]
    /\ outcome \in [Builds -> Terminal]
    /\ active \in [Builds -> {"none", "running", "failed"}]
    /\ canceled \in [Builds -> BOOLEAN]
    /\ canceling \in [Builds -> BOOLEAN]
    /\ cancelOK \in [Builds -> BOOLEAN]
    /\ pushes \in [Builds -> Nat]
    /\ record \in [Builds -> {"none", "success", "failure"}]
    /\ image \in [Builds -> BOOLEAN]
    /\ cas \in [Builds -> BOOLEAN]
    /\ entry \in [Builds -> {"absent", "memory", "file"}]
    /\ watch \in [Builds -> {"off", "polling", "checking", "ended"}]
    /\ seen \in [Builds -> Statuses \cup {"Absent"}]
    /\ faults \in 0..MaxFaults
    /\ crashes \in 0..MaxCrashes

(* A build whose row is not terminal is still being worked on, or its entry *)
(* says that it was abandoned: no failed write, cancel race or restart      *)
(* leaves a row that nobody will ever close and nothing explains.           *)
NoSilentlyStuckBuild ==
    \A b \in Builds :
        row[b].status \in Statuses \ Terminal =>
            starting[b] \/ pc[b] # "done" \/ active[b] = "failed"

(* A CancelToolBuild that was answered with success is final: the goroutine *)
(* that goes on in the meantime never turns the build into anything else.   *)
CanceledStaysCanceled ==
    \A b \in Builds : cancelOK[b] => row[b].status = "Interrupted"

(* What Succeeded promises: a function build has handed over its digest and *)
(* its locator, a tool build is in the CAS catalog; nothing a crash undoes. *)
SucceededIsUsable ==
    \A b \in Builds :
        row[b].status = "Succeeded" =>
            IF IsFunctionBuild(b) THEN row[b].artifact /\ image[b] ELSE cas[b]

(* Resubmitting a request id, even after a failure or a restart, never      *)
(* builds and pushes a second image.                                        *)
BuiltAtMostOnce == \A b \in Builds : pushes[b] <= 1

(* The status of a row never goes back and a terminal one never changes,    *)
(* whoever of goroutine, cancel and recovery writes it.                     *)
Stage(s) ==
    CASE s = "Absent"    -> 0
      [] s = "Requested" -> 1
      [] s = "Resolving" -> 2
      [] s = "Building"  -> 3
      [] s = "Pushing"   -> 4
      [] OTHER           -> 5

StatusMovesForward ==
    [][\A b \in Builds :
         /\ Stage(row[b].status) <= Stage(row'[b].status)
         /\ AlreadyTerminal(b) => row'[b].status = row[b].status]_vars

(* A watcher that stays gets an end: the terminal status, or the notice     *)
(* that the build was abandoned; also when the terminal write falls into    *)
(* the same millisecond as the last one it saw.                             *)
WatchEnds ==
    \A b \in Builds :
        (watch[b] \in {"polling", "checking"}) ~> (watch[b] \in {"ended", "off"})

-----------------------------------------------------------------------------
(* Statements of the repository that the code does not keep: each one has   *)
(* a counterexample, described in the README.                               *)

(* store.go on ErrAlreadyTerminal: "This is a benign race ... not a storage *)
(* failure - callers should treat it differently from any other Transition  *)
(* error": only a failed write abandons a build.                            *)
OnlyFaultsAbandon == \A b \in Builds : active[b] = "failed" => faults > 0

(* submit_tool_build.go on abandonSubmittedBuild: it "records it in         *)
(* pkg/index ... so there is at least one durable, queryable record of the  *)
(* failure".                                                                *)
AbandonmentIsRecorded ==
    \A b \in Builds : active[b] = "failed" => record[b] = "failure"

(* service.go on postBuildRegistration: "a pushed image that never became a *)
(* catalog entry isn't a usable tool ... callers must not report SUCCEEDED  *)
(* in that case".  ListTools and GetTool answer from the index entries.     *)
SucceededToolIsListed ==
    \A b \in Builds :
        row[b].status = "Succeeded" /\ ~IsFunctionBuild(b) => entry[b] # "absent"
=============================================================================
