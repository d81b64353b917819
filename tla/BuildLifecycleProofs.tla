------------------------ MODULE BuildLifecycleProofs ------------------------
(***************************************************************************)
(* Proofs about BuildLifecycle, for any number of builds, specs, failed    *)
(* writes and crashes.  The inductive invariant is a statement per build:  *)
(* where the goroutine stands determines the status its row can have,      *)
(* unless a cancel got there first (Place); a build that is to be answered *)
(* Succeeded has delivered what that promises (Delivers); and an image is  *)
(* pushed only on the way from Building to Pushing (Pushed).               *)
(*                                                                         *)
(* The second half is about the spec a build is given, for any documents,  *)
(* calls, moves of the tag, failed saves and crashes: SpecResolution       *)
(* answers with what was asked for, pins a base its tag had meanwhile, and *)
(* the base of a function stays in the file.  It starts from the digests:  *)
(* two requests share one exactly if they ask for the same.                *)
(***************************************************************************)
EXTENDS BuildLifecycle, SpecResolution, TLAPS, WellFoundedInduction

Early == {"resolving", "preparing", "building"}
Late == {"artifact", "record", "image", "register", "append", "referrer"}

(* The row's status by the position of the goroutine. *)
Place(b) ==
    LET s == row[b].status
    IN  /\ pc[b] = "resolving" => s \in {"Requested", "Interrupted"}
        /\ pc[b] = "preparing" => s \in {"Resolving", "Interrupted"}
        /\ pc[b] \in {"building", "pushed"} => s \in {"Building", "Interrupted"}
        /\ pc[b] \in Late => s \in {"Pushing", "Interrupted"}
        /\ pc[b] = "finalizing" => s \in {"Building", "Pushing", "Interrupted"}
        /\ pc[b] = "abandoning" => s \in Statuses \ {"Succeeded", "Failed"}
        /\ starting[b] => pc[b] = "done" /\ s \in {"Requested", "Interrupted"}

Pushed(b) ==
    /\ pushes[b] <= 1
    /\ starting[b] \/ row[b].status = "Absent" \/ pc[b] \in Early => pushes[b] = 0

(* No cancel that was answered is undone, and no open row is forgotten. *)
Answered(b) == cancelOK[b] => row[b].status = "Interrupted"

Explained(b) ==
    row[b].status \in Statuses \ Terminal =>
        starting[b] \/ pc[b] # "done" \/ active[b] = "failed"

Usable(b) == IF IsFunctionBuild(b) THEN row[b].artifact /\ image[b] ELSE cas[b]

Delivers(b) ==
    /\ pc[b] \in {"register", "append", "referrer"} => ~IsFunctionBuild(b)
    /\ pc[b] \in {"append", "referrer"} => cas[b]
    /\ pc[b] = "finalizing" /\ outcome[b] = "Succeeded" => Usable(b)
    /\ row[b].status = "Succeeded" => Usable(b)

BInv(b) == Place(b) /\ Pushed(b) /\ Answered(b) /\ Explained(b) /\ Delivers(b)

IInv == TypeOK /\ \A b \in Builds : BInv(b)

(* What one step does to the status of a row. *)
Forward(b) ==
    /\ Stage(row[b].status) <= Stage(row'[b].status)
    /\ AlreadyTerminal(b) => row'[b].status = row[b].status

(* A step of build b leaves everything the invariant says of others alone. *)
Same(b) ==
    /\ row'[b] = row[b] /\ starting'[b] = starting[b] /\ pc'[b] = pc[b]
    /\ outcome'[b] = outcome[b] /\ active'[b] = active[b] /\ cancelOK'[b] = cancelOK[b]
    /\ pushes'[b] = pushes[b] /\ image'[b] = image[b] /\ cas'[b] = cas[b]

Others(b) == \A c \in Builds \ {b} : Same(c)

Row == [spec: Specs \cup {NoSpec}, status: Statuses \cup {"Absent"}, artifact: BOOLEAN]

-----------------------------------------------------------------------------
(* The build_state row *)

LEMMA StageOrder ==
    /\ \A s \in Statuses \cup {"Absent"} : Stage(s) \in 0..5 /\ Stage(s) <= Stage(s)
    /\ \A s \in Statuses \cup {"Absent"}, t \in Terminal : Stage(s) <= Stage(t)
    /\ Stage("Absent") <= Stage("Requested") /\ Stage("Requested") <= Stage("Resolving")
    /\ Stage("Resolving") <= Stage("Building") /\ Stage("Building") <= Stage("Pushing")
  BY DEF Stage, Statuses, Terminal

LEMMA RowWritten ==
    ASSUME TypeOK, NEW b \in Builds, NEW r \in Row, WriteRow(b, r)
    PROVE  /\ row' \in [Builds -> Row] /\ newer' \in [Builds -> BOOLEAN]
           /\ row'[b] = r /\ \A c \in Builds \ {b} : row'[c] = row[c]
  BY DEF TypeOK, WriteRow, Row

LEMMA RowTransition ==
    ASSUME TypeOK, NEW b \in Builds, NEW next \in Statuses, Transition(b, next)
    PROVE  /\ row' \in [Builds -> Row] /\ newer' \in [Builds -> BOOLEAN]
           /\ faults' = faults
           /\ row[b].status \in Statuses \ Terminal
           /\ row'[b].status = next
           /\ row'[b].spec = row[b].spec /\ row'[b].artifact = row[b].artifact
           /\ \A c \in Builds \ {b} : row'[c] = row[c]
  <1> DEFINE r == [row[b] EXCEPT !.status = next]
  <1>1. row[b] \in Row
    BY DEF TypeOK, Row
  <1>2. r \in Row /\ r.status = next /\ r.spec = row[b].spec /\ r.artifact = row[b].artifact
    BY <1>1 DEF Row
  <1>3. QED
    BY <1>2, RowWritten DEF Transition

LEMMA RowKept ==
    ASSUME TypeOK, NEW b \in Builds, TransitionFails(b)
    PROVE  /\ row' = row /\ newer' = newer /\ faults' \in 0..MaxFaults
           /\ row \in [Builds -> Row] /\ newer \in [Builds -> BOOLEAN]
  BY BoundsAssumption DEF TypeOK, Row, TransitionFails, Fault, rowVars

(* A step that leaves the rows alone moves no status. *)
LEMMA SameRowForward ==
    ASSUME TypeOK, NEW b \in Builds, row'[b].status = row[b].status
    PROVE  Forward(b)
  BY StageOrder DEF TypeOK, Forward

-----------------------------------------------------------------------------
(* Submission *)

LEMMA SubmitPreserves ==
    ASSUME TypeOK, NEW b \in Builds, BInv(b), NEW d \in Specs, SubmitToolBuild(b, d)
    PROVE  TypeOK' /\ BInv(b)' /\ Others(b) /\ Forward(b)
  <1> USE DEF SubmitToolBuild, Create
  <1> DEFINE r == [spec |-> d, status |-> "Requested", artifact |-> FALSE]
  <1>1. r \in Row
    BY DEF Row, Statuses
  <1>2. /\ row' \in [Builds -> Row] /\ newer' \in [Builds -> BOOLEAN]
        /\ row'[b] = r /\ \A c \in Builds \ {b} : row'[c] = row[c]
    BY <1>1, RowWritten
  <1>3. TypeOK'
    BY <1>2 DEF TypeOK, Row, cancelVars, indexVars, watchVars
  <1>4. Others(b)
    BY <1>2 DEF TypeOK, Others, Same, cancelVars, indexVars
  <1>5. Forward(b)
    BY <1>2, StageOrder DEF Forward, AlreadyTerminal, Terminal
  <1>6. starting'[b] /\ pc[b] \in {"done"}
    BY DEF BInv, Place, TypeOK, Pcs, InBody, Early, Late, Statuses, Terminal
  <1>7. BInv(b)'
    BY <1>2, <1>6 DEF BInv, Place, Pushed, Answered, Explained, Delivers, TypeOK, Late, Early,
       cancelVars, indexVars
  <1>8. QED
    BY <1>3, <1>4, <1>5, <1>7

LEMMA StartPreserves ==
    ASSUME TypeOK, NEW b \in Builds, BInv(b), startSubmittedBuild(b)
    PROVE  TypeOK' /\ BInv(b)' /\ Others(b) /\ Forward(b)
  <1> USE DEF startSubmittedBuild, Go, rowVars, indexVars, watchVars
  <1>1. TypeOK'
    BY DEF TypeOK, Pcs
  <1>2. Others(b) /\ Forward(b)
    BY SameRowForward DEF TypeOK, Others, Same
  <1>3. BInv(b)'
    BY DEF BInv, Place, Pushed, Answered, Explained, Delivers, TypeOK, Late, Early, Usable,
       IsFunctionBuild
  <1>4. QED
    BY <1>1, <1>2, <1>3

-----------------------------------------------------------------------------
(* The goroutine *)

(* A mid-build transition: the row follows, or the build is abandoned. *)
LEMMA AdvancePreserves ==
    ASSUME TypeOK, NEW b \in Builds, BInv(b), NEW at, NEW next, NEW to,
           Advance(b, at, next, to),
           \/ at = "resolving" /\ next = "Resolving" /\ to = "preparing"
           \/ at = "preparing" /\ next = "Building" /\ to = "building"
           \/ at = "pushed" /\ next = "Pushing" /\ to = "artifact"
    PROVE  TypeOK' /\ BInv(b)' /\ Others(b) /\ Forward(b)
  <1> USE DEF Advance, Go, cancelVars, indexVars, watchVars
  <1>0. pc[b] = at /\ next \in Statuses /\ to \in Pcs
    BY DEF Statuses, Pcs, InBody
  <1>1. CASE Transition(b, next) /\ Go(b, to)
    <2>1. /\ row' \in [Builds -> Row] /\ newer' \in [Builds -> BOOLEAN]
          /\ faults' = faults
          /\ row[b].status \in Statuses \ Terminal /\ row'[b].status = next
          /\ row'[b].spec = row[b].spec /\ row'[b].artifact = row[b].artifact
          /\ \A c \in Builds \ {b} : row'[c] = row[c]
      BY <1>0, <1>1, RowTransition
    <2>2. TypeOK'
      BY <1>0, <1>1, <2>1 DEF TypeOK, Row
    <2>3. Others(b)
      BY <1>1, <2>1 DEF TypeOK, Others, Same
    <2>4. pc'[b] = to /\ ~starting[b] /\ row[b].status # "Interrupted"
      BY <1>0, <1>1, <2>1 DEF TypeOK, BInv, Place, Terminal
    <2>5. Forward(b)
      BY <1>0, <2>1, <2>4, StageOrder DEF Forward, AlreadyTerminal, BInv, Place
    <2>6. Place(b)' /\ Pushed(b)' /\ Answered(b)' /\ Explained(b)'
      BY <1>0, <2>1, <2>4 DEF BInv, Place, Pushed, Answered, Explained, Late, Early
    <2>7. Delivers(b)'
      BY <1>0, <2>1, <2>4 DEF BInv, Delivers
    <2>8. QED
      BY <2>2, <2>3, <2>5, <2>6, <2>7 DEF BInv
  <1>2. CASE TransitionFails(b) /\ Go(b, "abandoning")
    <2>1. /\ row' = row /\ newer' = newer /\ faults' \in 0..MaxFaults
      BY <1>2, RowKept
    <2>2. TypeOK'
      BY <1>2, <2>1 DEF TypeOK, Pcs
    <2>3. Others(b) /\ Forward(b)
      BY <1>2, <2>1, SameRowForward DEF TypeOK, Others, Same
    <2>4. pc'[b] = "abandoning" /\ ~starting[b]
      BY <1>0, <1>2 DEF TypeOK, BInv, Place
    <2>5. Place(b)' /\ Pushed(b)' /\ Answered(b)' /\ Explained(b)'
      BY <1>0, <2>1, <2>4 DEF BInv, Place, Pushed, Answered, Explained, Late, Early, Statuses,
         Terminal
    <2>6. Delivers(b)'
      BY <2>1, <2>4 DEF BInv, Delivers, Usable, IsFunctionBuild
    <2>7. QED
      BY <2>2, <2>3, <2>5, <2>6 DEF BInv
  <1>3. QED
    BY <1>1, <1>2

(* The builder's three outcomes, and the failures of the steps after it. *)
LEMMA BuilderPreserves ==
    ASSUME TypeOK, NEW b \in Builds, BInv(b), BuildSucceeds(b) \/ BuildCanceled(b) \/ BuildFails(b)
    PROVE  TypeOK' /\ BInv(b)' /\ Others(b) /\ Forward(b)
  <1> USE DEF BuildSucceeds, BuildCanceled, BuildFails, failSubmittedBuild, recordBuildFailure,
              AppendToolBuildRecord, Conclude, Go, rowVars, cancelVars, indexVars, watchVars
  <1>1. TypeOK'
    <2>1. CASE BuildSucceeds(b)
      <3>1. pc' \in [Builds -> Pcs] /\ pushes' \in [Builds -> Nat]
        BY <2>1 DEF TypeOK, Pcs, InBody
      <3>2. QED
        BY <2>1, <3>1 DEF TypeOK
    <2>2. CASE BuildCanceled(b)
      <3>1. pc' \in [Builds -> Pcs] /\ outcome' \in [Builds -> Terminal]
        BY <2>2 DEF TypeOK, Pcs, Terminal
      <3>2. QED
        BY <2>2, <3>1 DEF TypeOK
    <2>3. CASE BuildFails(b)
      <3>1. pc' \in [Builds -> Pcs] /\ outcome' \in [Builds -> Terminal]
        BY <2>3 DEF TypeOK, Pcs, Terminal
      <3>2. record' \in [Builds -> {"none", "success", "failure"}]
        BY <2>3 DEF TypeOK
      <3>3. QED
        BY <2>3, <3>1, <3>2 DEF TypeOK
    <2>4. QED
      BY <2>1, <2>2, <2>3
  <1>2. Others(b) /\ Forward(b)
    BY SameRowForward DEF TypeOK, Others, Same
  <1>3. Place(b)'
    BY DEF TypeOK, BInv, Place, InBody, Late
  <1>4. Pushed(b)'
    BY DEF TypeOK, BInv, Place, Pushed, InBody, Late, Early
  <1>5. Answered(b)' /\ Explained(b)'
    BY DEF TypeOK, BInv, Answered, Explained
  <1>6. Delivers(b)'
    BY DEF TypeOK, BInv, Delivers, Usable, IsFunctionBuild
  <1>7. QED
    BY <1>1, <1>2, <1>3, <1>4, <1>5, <1>6 DEF BInv

LEMMA SetArtifactPreserves ==
    ASSUME TypeOK, NEW b \in Builds, BInv(b), SetArtifact(b)
    PROVE  TypeOK' /\ BInv(b)' /\ Others(b) /\ Forward(b)
  <1> USE DEF SetArtifact, Go, cancelVars, indexVars, watchVars
  <1> DEFINE r == [row[b] EXCEPT !.artifact = TRUE]
  <1>1. row[b] \in Row /\ r \in Row /\ r.status = row[b].status /\ r.spec = row[b].spec
    <2>1. row[b] \in Row
      BY DEF TypeOK, Row
    <2>2. QED
      BY <2>1 DEF Row
  <1>2. /\ row' \in [Builds -> Row] /\ newer' \in [Builds -> BOOLEAN]
        /\ faults' \in 0..MaxFaults
        /\ row'[b].status = row[b].status /\ row'[b].spec = row[b].spec
        /\ row[b].artifact => row'[b].artifact
        /\ \A c \in Builds \ {b} : row'[c] = row[c]
    <2>1. CASE WriteRow(b, r) /\ UNCHANGED faults
      BY <1>1, <2>1, RowWritten DEF TypeOK
    <2>2. CASE Fault /\ UNCHANGED rowVars
      BY <2>2, BoundsAssumption DEF TypeOK, Row, Fault, rowVars
    <2>3. QED
      BY <2>1, <2>2
  <1>3. TypeOK'
    BY <1>2 DEF TypeOK, Row, Pcs, InBody
  <1>4. Others(b) /\ Forward(b)
    BY <1>2, SameRowForward DEF TypeOK, Others, Same
  <1>5. BInv(b)'
    BY <1>2 DEF TypeOK, BInv, Place, Pushed, Answered, Explained, Delivers, Usable,
       IsFunctionBuild, Late, Early
  <1>6. QED
    BY <1>3, <1>4, <1>5

(* Records of the index; a function build ends with the second one. *)
LEMMA RecordPreserves ==
    ASSUME TypeOK, NEW b \in Builds, BInv(b), recordBuildSuccess(b) \/ AppendToolImageRecord(b)
    PROVE  TypeOK' /\ BInv(b)' /\ Others(b) /\ Forward(b)
  <1> USE DEF recordBuildSuccess, AppendToolImageRecord, AfterImageRecord, failSubmittedBuild,
              recordBuildFailure, AppendToolBuildRecord, Conclude, Go, Fault, rowVars, cancelVars,
              indexVars, watchVars
  <1>1. TypeOK'
    <2>1. PICK to \in {"image", "register", "finalizing"} : pc' = [pc EXCEPT ![b] = to]
      OBVIOUS
    <2>2. pc' \in [Builds -> Pcs]
      BY <2>1 DEF TypeOK, Pcs, InBody
    <2>3. outcome' = outcome \/ \E o \in Terminal : outcome' = [outcome EXCEPT ![b] = o]
      BY DEF Terminal
    <2>4. outcome' \in [Builds -> Terminal]
      BY <2>3 DEF TypeOK
    <2>5. record' \in [Builds -> {"none", "success", "failure"}]
      BY DEF TypeOK
    <2>6. image' = image \/ image' = [image EXCEPT ![b] = TRUE]
      OBVIOUS
    <2>7. image' \in [Builds -> BOOLEAN]
      BY <2>6 DEF TypeOK
    <2>8. faults' \in 0..MaxFaults
      BY BoundsAssumption DEF TypeOK
    <2>9. QED
      BY <2>2, <2>4, <2>5, <2>7, <2>8 DEF TypeOK
  <1>2. Others(b) /\ Forward(b)
    BY SameRowForward DEF TypeOK, Others, Same
  <1>3. Place(b)' /\ Pushed(b)' /\ Answered(b)' /\ Explained(b)'
    BY DEF TypeOK, BInv, Place, Pushed, Answered, Explained, Late, Early
  <1>4. Delivers(b)'
    <2>1. row' = row /\ cas' = cas
      OBVIOUS
    <2>2. image[b] => image'[b]
      BY DEF TypeOK
    <2>3. pc'[b] = "finalizing" /\ outcome'[b] = "Succeeded" => Usable(b)'
      BY DEF TypeOK, Usable, IsFunctionBuild
    <2>4. pc'[b] = "register" => ~IsFunctionBuild(b)
      BY DEF TypeOK
    <2>5. pc'[b] \in {"image", "register", "finalizing"}
      BY DEF TypeOK
    <2>6. QED
      BY <2>1, <2>2, <2>3, <2>4, <2>5 DEF BInv, Delivers, Usable, IsFunctionBuild
  <1>5. QED
    BY <1>1, <1>2, <1>3, <1>4 DEF BInv

(* RegisterTool: the CAS file, then the index entry. *)
LEMMA RegisterPreserves ==
    ASSUME TypeOK, NEW b \in Builds, BInv(b), SaveWithCasHash(b) \/ AppendEntry(b)
    PROVE  TypeOK' /\ BInv(b)' /\ Others(b) /\ Forward(b)
  <1> USE DEF SaveWithCasHash, AppendEntry, Conclude, Go, Fault, rowVars, cancelVars, watchVars
  <1>1. TypeOK'
    <2>1. PICK to \in {"append", "referrer", "finalizing"} : pc' = [pc EXCEPT ![b] = to]
      OBVIOUS
    <2>2. pc' \in [Builds -> Pcs]
      BY <2>1 DEF TypeOK, Pcs, InBody
    <2>3. outcome' = outcome \/ \E o \in Terminal : outcome' = [outcome EXCEPT ![b] = o]
      BY DEF Terminal
    <2>4. outcome' \in [Builds -> Terminal]
      BY <2>3 DEF TypeOK
    <2>5. cas' = cas \/ cas' = [cas EXCEPT ![b] = TRUE]
      OBVIOUS
    <2>6. cas' \in [Builds -> BOOLEAN]
      BY <2>5 DEF TypeOK
    <2>7. \/ entry' = entry
          \/ \E e \in {"absent", "memory", "file"} : entry' = [entry EXCEPT ![b] = e]
      OBVIOUS
    <2>8. entry' \in [Builds -> {"absent", "memory", "file"}]
      BY <2>7 DEF TypeOK
    <2>9. faults' \in 0..MaxFaults
      BY BoundsAssumption DEF TypeOK
    <2>10. QED
      BY <2>2, <2>4, <2>6, <2>8, <2>9 DEF TypeOK
  <1>2. Others(b) /\ Forward(b)
    BY SameRowForward DEF TypeOK, Others, Same
  <1>3. Place(b)' /\ Pushed(b)' /\ Answered(b)' /\ Explained(b)'
    BY DEF TypeOK, BInv, Place, Pushed, Answered, Explained, Late, Early
  <1>4. Delivers(b)'
    BY DEF TypeOK, BInv, Delivers, Usable, IsFunctionBuild
  <1>5. QED
    BY <1>1, <1>2, <1>3, <1>4 DEF BInv

LEMMA SetReferrerPreserves ==
    ASSUME TypeOK, NEW b \in Builds, BInv(b), SetReferrer(b)
    PROVE  TypeOK' /\ BInv(b)' /\ Others(b) /\ Forward(b)
  <1> USE DEF SetReferrer, Conclude, Go, cancelVars, indexVars, watchVars
  <1>1. /\ row' = row /\ newer' \in [Builds -> BOOLEAN] /\ faults' \in 0..MaxFaults
    <2>1. row[b] \in Row /\ row \in [Builds -> Row]
      BY DEF TypeOK, Row
    <2>2. CASE WriteRow(b, row[b]) /\ UNCHANGED faults
      BY <2>1, <2>2 DEF TypeOK, WriteRow
    <2>3. CASE Fault /\ UNCHANGED rowVars
      BY <2>3, BoundsAssumption DEF TypeOK, Fault, rowVars
    <2>4. QED
      BY <2>2, <2>3
  <1>2. TypeOK'
    BY <1>1 DEF TypeOK, Pcs, Terminal
  <1>3. Others(b) /\ Forward(b)
    BY <1>1, SameRowForward DEF TypeOK, Others, Same
  <1>4. BInv(b)'
    BY <1>1 DEF TypeOK, BInv, Place, Pushed, Answered, Explained, Delivers, Usable,
       IsFunctionBuild, Late, Early
  <1>5. QED
    BY <1>2, <1>3, <1>4

LEMMA FinalizePreserves ==
    ASSUME TypeOK, NEW b \in Builds, BInv(b), finalizeSubmittedBuild(b)
    PROVE  TypeOK' /\ BInv(b)' /\ Others(b) /\ Forward(b)
  <1> USE DEF finalizeSubmittedBuild, Go, cancelVars, indexVars, watchVars
  <1>0. pc[b] = "finalizing" /\ outcome[b] \in Terminal /\ ~starting[b] /\ outcome[b] \in Statuses
    BY DEF TypeOK, BInv, Place, Statuses
  <1>1. CASE Transition(b, outcome[b]) /\ active' = [active EXCEPT ![b] = "none"] /\ Go(b, "done")
    <2>1. /\ row' \in [Builds -> Row] /\ newer' \in [Builds -> BOOLEAN]
          /\ faults' = faults
          /\ row[b].status \in Statuses \ Terminal /\ row'[b].status = outcome[b]
          /\ row'[b].spec = row[b].spec /\ row'[b].artifact = row[b].artifact
          /\ \A c \in Builds \ {b} : row'[c] = row[c]
      BY <1>0, <1>1, RowTransition
    <2>2. TypeOK'
      BY <1>1, <2>1 DEF TypeOK, Row, Pcs
    <2>3. Others(b)
      BY <1>1, <2>1 DEF TypeOK, Others, Same
    <2>4. Forward(b)
      BY <1>0, <2>1, StageOrder DEF Forward, AlreadyTerminal
    <2>5. pc'[b] = "done"
      BY <1>1 DEF TypeOK
    <2>6. Place(b)' /\ Pushed(b)' /\ Answered(b)' /\ Explained(b)'
      BY <1>0, <2>1, <2>5 DEF BInv, Place, Pushed, Answered, Explained, Late, Early, Terminal
    <2>7. Delivers(b)'
      BY <1>0, <2>1, <2>5 DEF BInv, Delivers, Usable, IsFunctionBuild
    <2>8. QED
      BY <2>2, <2>3, <2>4, <2>6, <2>7 DEF BInv
  <1>2. CASE \/ /\ AlreadyTerminal(b) /\ UNCHANGED <<rowVars, faults>>
                /\ active' = [active EXCEPT ![b] = "none"] /\ Go(b, "done")
             \/ Fault /\ Go(b, "abandoning") /\ UNCHANGED <<rowVars, active>>
    <2> USE DEF rowVars, Fault
    <2>1. TypeOK'
      <3>1. pc' \in [Builds -> Pcs] /\ active' \in [Builds -> {"none", "running", "failed"}]
        BY <1>2 DEF TypeOK, Pcs
      <3>2. faults' \in 0..MaxFaults /\ row' = row /\ newer' = newer
        BY <1>2, BoundsAssumption DEF TypeOK
      <3>3. QED
        BY <3>1, <3>2 DEF TypeOK
    <2>2. Others(b) /\ Forward(b)
      BY <1>2, SameRowForward DEF TypeOK, Others, Same
    <2>3. Place(b)' /\ Pushed(b)' /\ Answered(b)' /\ Explained(b)'
      BY <1>0, <1>2 DEF TypeOK, BInv, Place, Pushed, Answered, Explained, Late, Early,
         AlreadyTerminal, Statuses, Terminal
    <2>4. Delivers(b)'
      BY <1>0, <1>2 DEF TypeOK, BInv, Delivers, Usable, IsFunctionBuild
    <2>5. QED
      BY <2>1, <2>2, <2>3, <2>4 DEF BInv
  <1>3. QED
    BY <1>1, <1>2

LEMMA AbandonPreserves ==
    ASSUME TypeOK, NEW b \in Builds, BInv(b), abandonSubmittedBuild(b)
    PROVE  TypeOK' /\ BInv(b)' /\ Others(b) /\ Forward(b)
  <1> USE DEF abandonSubmittedBuild, recordBuildFailure, AppendToolBuildRecord, Go, rowVars,
              cancelVars, watchVars
  <1>1. TypeOK'
    BY DEF TypeOK, Pcs
  <1>2. Others(b) /\ Forward(b)
    BY SameRowForward DEF TypeOK, Others, Same
  <1>3. BInv(b)'
    BY DEF TypeOK, BInv, Place, Pushed, Answered, Explained, Delivers, Usable, IsFunctionBuild,
       Late, Early
  <1>4. QED
    BY <1>1, <1>2, <1>3

-----------------------------------------------------------------------------
(* Cancel, watch, later saves *)

LEMMA CancelPreserves ==
    ASSUME TypeOK, NEW b \in Builds, BInv(b), CancelToolBuild(b)
    PROVE  TypeOK' /\ BInv(b)' /\ Others(b) /\ Forward(b)
  <1> USE DEF CancelToolBuild, Answer, runVars, indexVars, watchVars
  <1>0. /\ canceling' \in [Builds -> BOOLEAN] /\ cancelOK' \in [Builds -> BOOLEAN]
        /\ \A c \in Builds \ {b} : cancelOK'[c] = cancelOK[c]
    BY DEF TypeOK
  <1>1. CASE Transition(b, "Interrupted") /\ Answer(b, TRUE)
    <2>1. /\ row' \in [Builds -> Row] /\ newer' \in [Builds -> BOOLEAN]
          /\ faults' = faults
          /\ row[b].status \in Statuses \ Terminal /\ row'[b].status = "Interrupted"
          /\ row'[b].spec = row[b].spec /\ row'[b].artifact = row[b].artifact
          /\ \A c \in Builds \ {b} : row'[c] = row[c]
      BY <1>1, RowTransition DEF Statuses, Terminal
    <2>2. TypeOK'
      BY <1>0, <2>1 DEF TypeOK, Row
    <2>3. Others(b)
      BY <1>0, <2>1 DEF TypeOK, Others, Same
    <2>4. Forward(b)
      BY <2>1, StageOrder DEF Forward, AlreadyTerminal, Terminal
    <2>5. Place(b)' /\ Pushed(b)' /\ Answered(b)' /\ Explained(b)'
      BY <2>1 DEF BInv, Place, Pushed, Answered, Explained, Statuses, Terminal
    <2>6. Delivers(b)'
      BY <2>1 DEF BInv, Delivers, Usable, IsFunctionBuild
    <2>7. QED
      BY <2>2, <2>3, <2>4, <2>5, <2>6 DEF BInv
  <1>2. CASE \/ TransitionFails(b) /\ Answer(b, row[b].status = "Interrupted")
             \/ row[b].status = "Absent" /\ Answer(b, FALSE) /\ UNCHANGED <<rowVars, faults>>
    <2>1. row' = row /\ newer' = newer /\ faults' \in 0..MaxFaults
      BY <1>2, RowKept DEF TypeOK, rowVars
    <2>2. TypeOK'
      BY <1>0, <2>1 DEF TypeOK
    <2>3. Others(b) /\ Forward(b)
      BY <1>0, <2>1, SameRowForward DEF TypeOK, Others, Same
    <2>4. cancelOK'[b] => cancelOK[b] \/ row[b].status = "Interrupted"
      BY <1>2 DEF TypeOK
    <2>5. BInv(b)'
      BY <2>1, <2>4 DEF BInv, Place, Pushed, Answered, Explained, Delivers, Usable,
         IsFunctionBuild
    <2>6. QED
      BY <2>2, <2>3, <2>5
  <1>3. QED
    BY <1>1, <1>2

LEMMA BystanderPreserves ==
    ASSUME TypeOK, NEW b \in Builds, BInv(b),
           \/ cancelSubmittedBuild(b) \/ WatchToolBuild(b) \/ Watcher(b) \/ WatcherLeaves(b)
           \/ LaterSave(b)
    PROVE  TypeOK' /\ BInv(b)' /\ Others(b) /\ Forward(b)
  <1> USE DEF cancelSubmittedBuild, WatchToolBuild, Watcher, WatchPoll, activeBuildFailure,
              WatcherLeaves, LaterSave, Sent, rowVars, runVars, cancelVars, indexVars, watchVars
  <1>1. UNCHANGED <<row, starting, pc, outcome, active, cancelOK, pushes, record, image, cas,
                    faults, crashes>>
    OBVIOUS
  <1>2. /\ newer' \in [Builds -> BOOLEAN] /\ entry' \in [Builds -> {"absent", "memory", "file"}]
        /\ watch' \in [Builds -> {"off", "polling", "checking", "ended"}]
        /\ seen' \in [Builds -> Statuses \cup {"Absent"}]
    <2>1. newer' = newer \/ newer' = [newer EXCEPT ![b] = FALSE]
      OBVIOUS
    <2>2. entry' = entry \/ entry' = [entry EXCEPT ![b] = "file"]
      OBVIOUS
    <2>3. \/ watch' = watch
          \/ \E w \in {"off", "polling", "checking", "ended"} : watch' = [watch EXCEPT ![b] = w]
      OBVIOUS
    <2>4. seen' = seen \/ seen' = [seen EXCEPT ![b] = row[b].status]
      OBVIOUS
    <2>5. newer' \in [Builds -> BOOLEAN] /\ entry' \in [Builds -> {"absent", "memory", "file"}]
      BY <2>1, <2>2 DEF TypeOK
    <2>6. row[b].status \in Statuses \cup {"Absent"}
      BY DEF TypeOK
    <2>7. watch \in [Builds -> {"off", "polling", "checking", "ended"}]
      BY DEF TypeOK
    <2>8. watch' \in [Builds -> {"off", "polling", "checking", "ended"}]
      <3> HIDE DEF cancelSubmittedBuild, WatchToolBuild, Watcher, WatchPoll, WatcherLeaves, LaterSave
      <3>1. QED
        BY <2>3, <2>7
    <2>9. seen \in [Builds -> Statuses \cup {"Absent"}]
      BY DEF TypeOK
    <2>10. seen' \in [Builds -> Statuses \cup {"Absent"}]
      <3> HIDE DEF cancelSubmittedBuild, WatchToolBuild, Watcher, WatchPoll, WatcherLeaves, LaterSave
      <3>1. QED
        BY <2>4, <2>6, <2>9
    <2>11. QED
      BY <2>5, <2>8, <2>10
  <1>3. canceled' \in [Builds -> BOOLEAN] /\ canceling' \in [Builds -> BOOLEAN]
    <2>1. CASE cancelSubmittedBuild(b)
      <3>1. (canceled[b] \/ active[b] # "none") \in BOOLEAN
        OBVIOUS
      <3>2. QED
        BY <2>1, <3>1 DEF TypeOK
    <2>2. CASE ~cancelSubmittedBuild(b)
      <3>1. canceled' = canceled /\ canceling' = canceling
        BY <2>2 DEF cancelVars
      <3>2. QED
        BY <3>1 DEF TypeOK
    <2>3. QED
      BY <2>1, <2>2
  <1>4. TypeOK'
    BY <1>1, <1>2, <1>3 DEF TypeOK
  <1>5. Others(b) /\ Forward(b)
    BY <1>1, SameRowForward DEF Others, Same
  <1>6. BInv(b)'
    BY <1>1 DEF BInv, Place, Pushed, Answered, Explained, Delivers, Usable, IsFunctionBuild
  <1>7. QED
    BY <1>4, <1>5, <1>6

-----------------------------------------------------------------------------
(* Every step *)

LEMMA SamePreserves ==
    ASSUME NEW c \in Builds, BInv(c), Same(c)
    PROVE  BInv(c)'
  BY DEF Same, BInv, Place, Pushed, Answered, Explained, Delivers, Usable, IsFunctionBuild

LEMMA BuildStepPreserves ==
    ASSUME IInv, NEW b \in Builds, TypeOK' /\ BInv(b)' /\ Others(b) /\ Forward(b)
    PROVE  IInv' /\ \A c \in Builds : Forward(c)
  <1>1. \A c \in Builds \ {b} : BInv(c)' /\ Forward(c)
    BY SamePreserves, SameRowForward DEF IInv, Others, Same
  <1>2. QED
    BY <1>1 DEF IInv

LEMMA CrashPreserves ==
    ASSUME IInv, CrashRestart
    PROVE  IInv' /\ \A b \in Builds : Forward(b)
  <1> USE DEF CrashRestart
  <1>1. ASSUME NEW b \in Builds
        PROVE  /\ row'[b] \in Row
               /\ row'[b].spec = row[b].spec /\ row'[b].artifact = row[b].artifact
               /\ row'[b].status = IF row[b].status \in Statuses \ Terminal
                                   THEN "Interrupted" ELSE row[b].status
    <2>1. row[b] \in Row
      BY <1>1 DEF IInv, TypeOK, Row
    <2>2. row'[b] = RecoverInterrupted(row[b])
      BY <1>1
    <2>3. QED
      BY <2>1, <2>2 DEF Row, RecoverInterrupted, Statuses, Terminal
  <1>2. TypeOK'
    <2>1. row' \in [Builds -> Row]
      BY <1>1
    <2>2. QED
      BY <2>1, BoundsAssumption DEF IInv, TypeOK, Row, Pcs
  <1>3. ASSUME NEW b \in Builds PROVE BInv(b)'
    BY <1>1, <1>3 DEF IInv, TypeOK, BInv, Place, Pushed, Answered, Explained, Delivers, Usable,
       IsFunctionBuild, Late, Early, Terminal
  <1>4. ASSUME NEW b \in Builds PROVE Forward(b)
    BY <1>1, <1>4, StageOrder DEF IInv, TypeOK, Forward, AlreadyTerminal, Statuses, Terminal
  <1>5. QED
    BY <1>2, <1>3, <1>4 DEF IInv

LEMMA InitEstablishes == Init => IInv
  BY BoundsAssumption DEF Init, IInv, TypeOK, Absent, BInv, Place, Pushed, Answered, Explained,
     Delivers, Late, Early, Pcs, Statuses, Terminal

LEMMA NextPreserves == IInv /\ [Next]_vars => IInv' /\ \A b \in Builds : Forward(b)
  <1> SUFFICES ASSUME IInv, [Next]_vars PROVE IInv' /\ \A b \in Builds : Forward(b)
    OBVIOUS
  <1>0. TypeOK /\ \A b \in Builds : BInv(b)
    BY DEF IInv
  <1>1. ASSUME NEW b \in Builds, NEW d \in Specs, SubmitToolBuild(b, d)
        PROVE  IInv' /\ \A c \in Builds : Forward(c)
    BY <1>0, <1>1, SubmitPreserves, BuildStepPreserves
  <1>2. ASSUME NEW b \in Builds, startSubmittedBuild(b)
        PROVE  IInv' /\ \A c \in Builds : Forward(c)
    BY <1>0, <1>2, StartPreserves, BuildStepPreserves
  <1>3. ASSUME NEW b \in Builds, runSubmittedBuild(b)
        PROVE  IInv' /\ \A c \in Builds : Forward(c)
    <2>1. CASE Resolving(b) \/ Building(b) \/ Pushing(b)
      BY <1>0, <2>1, AdvancePreserves, BuildStepPreserves DEF Resolving, Building, Pushing
    <2>2. CASE BuildSucceeds(b) \/ BuildCanceled(b) \/ BuildFails(b)
      BY <1>0, <2>2, BuilderPreserves, BuildStepPreserves
    <2>3. CASE SetArtifact(b) \/ SetReferrer(b)
      BY <1>0, <2>3, SetArtifactPreserves, SetReferrerPreserves, BuildStepPreserves
    <2>4. CASE recordBuildSuccess(b) \/ AppendToolImageRecord(b)
      BY <1>0, <2>4, RecordPreserves, BuildStepPreserves
    <2>5. CASE SaveWithCasHash(b) \/ AppendEntry(b)
      BY <1>0, <2>5, RegisterPreserves, BuildStepPreserves
    <2>6. CASE finalizeSubmittedBuild(b) \/ abandonSubmittedBuild(b)
      BY <1>0, <2>6, FinalizePreserves, AbandonPreserves, BuildStepPreserves
    <2>7. QED
      BY <1>3, <2>1, <2>2, <2>3, <2>4, <2>5, <2>6 DEF runSubmittedBuild
  <1>4. ASSUME NEW b \in Builds, CancelToolBuild(b)
        PROVE  IInv' /\ \A c \in Builds : Forward(c)
    BY <1>0, <1>4, CancelPreserves, BuildStepPreserves
  <1>5. ASSUME NEW b \in Builds,
               \/ cancelSubmittedBuild(b) \/ WatchToolBuild(b) \/ Watcher(b)
               \/ WatcherLeaves(b) \/ LaterSave(b)
        PROVE  IInv' /\ \A c \in Builds : Forward(c)
    BY <1>0, <1>5, BystanderPreserves, BuildStepPreserves
  <1>6. CASE CrashRestart
    BY <1>6, CrashPreserves
  <1>7. CASE UNCHANGED vars
    <2> USE DEF vars, rowVars, runVars, cancelVars, indexVars, watchVars
    <2>1. TypeOK'
      BY <1>0, <1>7 DEF TypeOK
    <2>2. \A b \in Builds : Same(b)
      BY <1>7 DEF Same
    <2>3. QED
      BY <1>0, <1>7, <2>1, <2>2, SamePreserves, SameRowForward DEF IInv
  <1>8. QED
    BY <1>1, <1>2, <1>3, <1>4, <1>5, <1>6, <1>7 DEF Next

-----------------------------------------------------------------------------
(* The theorems *)

(* The inductive invariant holds of every reachable state. *)
THEOREM Invariance == Spec => []IInv
  <1>1. QED
    BY InitEstablishes, NextPreserves, PTL DEF Spec

(* Type correctness of rows, goroutines, cancels, indexes and watchers. *)
THEOREM TypeCorrect == Spec => []TypeOK
  <1>1. IInv => TypeOK
    BY DEF IInv
  <1>2. QED
    BY <1>1, Invariance, PTL

(* A row that is not terminal is still worked on, or its build is known as  *)
(* abandoned (submit_tool_build.go).                                        *)
THEOREM NeverSilentlyStuck == Spec => []NoSilentlyStuckBuild
  <1>1. IInv => NoSilentlyStuckBuild
    BY DEF IInv, BInv, Explained, NoSilentlyStuckBuild
  <1>2. QED
    BY <1>1, Invariance, PTL

(* A cancel that was answered with success is final (submit_tool_build.go). *)
THEOREM CancelIsFinal == Spec => []CanceledStaysCanceled
  <1>1. IInv => CanceledStaysCanceled
    BY DEF IInv, BInv, Answered, CanceledStaysCanceled
  <1>2. QED
    BY <1>1, Invariance, PTL

(* Succeeded means delivered, for function and for tool builds              *)
(* (submit_tool_build.go).                                                  *)
THEOREM SuccessIsUsable == Spec => []SucceededIsUsable
  <1>1. IInv => SucceededIsUsable
    BY DEF IInv, BInv, Delivers, Usable, SucceededIsUsable
  <1>2. QED
    BY <1>1, Invariance, PTL

(* No request id ever builds and pushes a second image (buildstate).        *)
THEOREM OnePush == Spec => []BuiltAtMostOnce
  <1>1. IInv => BuiltAtMostOnce
    BY DEF IInv, BInv, Pushed, BuiltAtMostOnce
  <1>2. QED
    BY <1>1, Invariance, PTL

(* A row's status only moves forward and a terminal one is final            *)
(* (buildstate, store.go).                                                  *)
THEOREM StatusForward == Spec => StatusMovesForward
  <1>1. IInv /\ [Next]_vars =>
            [\A b \in Builds :
               /\ Stage(row[b].status) <= Stage(row'[b].status)
               /\ AlreadyTerminal(b) => row'[b].status = row[b].status]_vars
    BY NextPreserves DEF Forward
  <1>2. QED
    BY <1>1, Invariance, PTL DEF Spec, StatusMovesForward

-----------------------------------------------------------------------------
(* Digests of tool specs *)

(* The two recipes of a document have different fields. *)
LEMMA RecipesDiffer ==
    ASSUME NEW raw \in RawSpec
    PROVE  /\ "json" \in DOMAIN canonicalSpec(raw)
           /\ "json" \notin DOMAIN canonicalV1(raw)
  BY DEF RawSpec, canonicalSpec, canonicalV1

LEMMA DocumentOf ==
    ASSUME RequestsAreDocuments, NEW req \in Requests
    PROVE  /\ req.raw \in RawSpec
           /\ SaysV1(req.raw) <=> IsV1RawSpec(req.raw)
  <1>1. req.raw \in RawSpec
    BY DEF RequestsAreDocuments
  <1>2. SaysV1(req.raw) <=> IsV1RawSpec(req.raw)
    BY DEF RequestsAreDocuments, SaysV1, IsV1RawSpec
  <1>3. QED
    BY <1>1, <1>2

LEMMA LegacyContent ==
    ASSUME RequestsAreDocuments, NEW req \in Requests, ~SaysV1(req.raw)
    PROVE  /\ "json" \in DOMAIN Content(req.raw)
           /\ RecipeInputsDigest(req.raw) = canonicalSpec(req.raw)
  BY DocumentOf DEF Content, RecipeInputsDigest

(* Legacy documents with one canonical form are those with one content.     *)
LEMMA CanonicalIsContent ==
    ASSUME NEW x \in RawSpec, NEW y \in RawSpec, ~SaysV1(x), ~SaysV1(y)
    PROVE  canonicalSpec(x) = canonicalSpec(y) <=> Content(x) = Content(y)
  <1> DEFINE Form(raw) ==
                 [json |-> "decoded", schema |-> raw.schema, kind |-> Float64(raw.kind),
                  base |-> raw.base, script |-> raw.script, unknownField |-> raw.unknownField,
                  image_uri |-> raw.image_uri, layout |-> 0]
  <1>1. ASSUME NEW raw \in RawSpec, ~SaysV1(raw), Decodes(raw)
        PROVE  /\ canonicalSpec(raw) = Form(raw)
               /\ Content(raw) = [json |-> "object", kind |-> Float64(raw.kind),
                      fields |-> <<raw.base, raw.script, raw.unknownField, raw.image_uri>>]
    BY <1>1 DEF canonicalSpec, Content, Decodes, RawSpec
  <1>2. ASSUME NEW raw \in RawSpec, ~SaysV1(raw), ~Decodes(raw)
        PROVE  /\ canonicalSpec(raw) = raw /\ raw.json # "decoded"
               /\ Content(raw) = [json |-> "text", text |-> raw]
    BY <1>2 DEF canonicalSpec, Content, Decodes, RawSpec
  <1>3. x.schema = y.schema
    BY DEF SaysV1
  <1>4. CASE Decodes(x) /\ Decodes(y)
    <2>1. Form(x) = Form(y) <=>
             /\ Float64(x.kind) = Float64(y.kind) /\ x.base = y.base /\ x.script = y.script
             /\ x.unknownField = y.unknownField /\ x.image_uri = y.image_uri
      BY <1>3
    <2>2. QED
      BY <1>1, <1>4, <2>1
  <1>5. CASE ~Decodes(x) /\ ~Decodes(y)
    BY <1>2, <1>5
  <1>6. CASE Decodes(x) /\ ~Decodes(y)
    <2>1. canonicalSpec(x).json = "decoded" /\ Content(x).json = "object"
      BY <1>1, <1>6
    <2>2. canonicalSpec(y).json # "decoded" /\ Content(y).json = "text"
      BY <1>2, <1>6
    <2>3. QED
      BY <2>1, <2>2
  <1>7. CASE ~Decodes(x) /\ Decodes(y)
    <2>1. canonicalSpec(y).json = "decoded" /\ Content(y).json = "object"
      BY <1>1, <1>7
    <2>2. canonicalSpec(x).json # "decoded" /\ Content(x).json = "text"
      BY <1>2, <1>7
    <2>3. QED
      BY <2>1, <2>2
  <1>8. QED
    BY <1>4, <1>5, <1>6, <1>7

LEMMA V1Content ==
    ASSUME RequestsAreDocuments, NEW req \in Requests, NEW found, SaysV1(req.raw),
           BaseDigest(req, found) # None
    PROVE  /\ Content(req.raw) = [script |-> req.raw.script]
           /\ RecipeInputsDigest(req.raw) = canonicalV1(req.raw)
           /\ req.raw.schema = SchemaBuildV1
           /\ req.raw.base.digest = BaseDigest(req, found)
  BY DocumentOf DEF Content, RecipeInputsDigest, BaseDigest, ParseRawSpecV1

(* The lexical test of the kind is arithmetic: the first digit that is not   *)
(* 0 is a 2 and the only one, and the exponent puts it at the units.         *)
LEMMA FirstSignificant ==
    ASSUME NEW nonzero \in SUBSET Nat, nonzero # {}
    PROVE  LET k == CHOOSE i \in nonzero : \A j \in nonzero : i <= j
           IN  k \in nonzero /\ \A j \in nonzero : k <= j
  <1>1. PICK x \in nonzero : \A y \in nonzero : ~(<<y, x>> \in OpToRel(<, Nat))
    BY NatLessThanWellFounded, WFMin
  <1>2. ASSUME NEW y \in nonzero PROVE x <= y
    <2>1. ~(y < x)
      <3>1. ASSUME y < x PROVE <<y, x>> \in OpToRel(<, Nat)
        BY <3>1 DEF OpToRel
      <3>2. QED
        BY <1>1, <3>1
    <2>2. QED
      BY <2>1
  <1>3. QED
    BY <1>2

LEMMA KindIsTwo ==
    ASSUME NEW n \in [negative: BOOLEAN, int: Seq(0..9), frac: Seq(0..9), exp: Int],
           jsonNumberEqualsTwo(n)
    PROVE  EqualsTwo(n)
  <1> DEFINE digits == n.int \o n.frac
             nonzero == {i \in DOMAIN digits : digits[i] # 0}
             k == CHOOSE i \in nonzero : \A j \in nonzero : i <= j
             stripped == SubSeq(digits, k, Len(digits))
  <1>1. /\ n.int \in Seq(0..9) /\ n.frac \in Seq(0..9) /\ n.exp \in Int
        /\ digits \in Seq(0..9)
        /\ Len(digits) = Len(n.int) + Len(n.frac)
        /\ Len(n.int) \in Nat /\ Len(n.frac) \in Nat
        /\ DOMAIN digits = 1..Len(digits)
    OBVIOUS
  <1>2. /\ ~n.negative /\ nonzero # {}
        /\ stripped[1] = 2
        /\ \A i \in 2..Len(stripped) : stripped[i] = 0
        /\ (Len(stripped) - 1) + n.exp - Len(n.frac) = 0
    BY DEF jsonNumberEqualsTwo, Significant
  <1>3. nonzero \in SUBSET Nat
    BY <1>1
  <1> HIDE DEF digits
  <1>4. k \in nonzero /\ \A j \in nonzero : k <= j
    <2> HIDE DEF nonzero
    <2> QED BY <1>2, <1>3, FirstSignificant
  <1>5. k \in 1..Len(digits) /\ \A j \in 1..Len(digits) : j < k => digits[j] = 0
    <2> HIDE DEF k
    <2> QED BY <1>1, <1>4
  <1> HIDE DEF k
  <1>6. /\ Len(stripped) = Len(digits) - k + 1
        /\ \A i \in 1..Len(stripped) : stripped[i] = digits[k + i - 1]
    BY <1>1, <1>5
  <1> HIDE DEF stripped
  <1>7. digits[k] = 2
    BY <1>1, <1>2, <1>5, <1>6
  <1>8. ASSUME NEW j \in 1..Len(digits), k < j PROVE digits[j] = 0
    <2>1. j - k + 1 \in 2..Len(stripped) /\ k + (j - k + 1) - 1 = j
      BY <1>1, <1>5, <1>6, <1>8
    <2>2. QED
      BY <1>2, <1>6, <2>1
  <1>9. Len(n.int) - k + n.exp = 0
    BY <1>1, <1>2, <1>5, <1>6
  <1>10. \A j \in 1..Len(digits) : digits[j] = IF Len(n.int) - j + n.exp = 0 THEN 2 ELSE 0
    <2>1. \A j \in 1..Len(digits) : Len(n.int) - j + n.exp = 0 <=> j = k
      BY <1>1, <1>5, <1>9
    <2>2. QED
      BY <1>1, <1>5, <1>7, <1>8, <2>1
  <1>11. QED
    BY <1>1, <1>2, <1>5, <1>9, <1>10 DEF EqualsTwo, digits

(* Whether the two kinds of documents are told apart by what is asked for. *)
LEMMA ContentsDiffer ==
    ASSUME RequestsAreDocuments, NEW req \in Requests
    PROVE  "json" \in DOMAIN Content(req.raw) <=> ~SaysV1(req.raw)
  <1>1. CASE SaysV1(req.raw)
    <2>1. Content(req.raw) = [script |-> req.raw.script]
      BY <1>1 DEF Content
    <2>2. DOMAIN [script |-> req.raw.script] = {"script"}
      OBVIOUS
    <2>3. QED
      BY <1>1, <2>1, <2>2
  <1>2. CASE ~SaysV1(req.raw)
    BY <1>2, LegacyContent
  <1>3. QED
    BY <1>1, <1>2

(* The same digest is asked for by the same request, and by no other. *)
LEMMA DigestParts ==
    ASSUME NEW r1, NEW r2, NEW b1, NEW b2
    PROVE  ResolveRawSpec(r1, b1).digest = ResolveRawSpec(r2, b2).digest
             <=> /\ r1.tool.name = r2.tool.name
                 /\ RecipeInputsDigest(r1.raw) = RecipeInputsDigest(r2.raw)
                 /\ b1 = b2
  BY DEF ResolveRawSpec, ToolSpecDigest, BuildPlanDigest

LEMMA AskedParts ==
    ASSUME NEW r1, NEW r2, NEW b1, NEW b2
    PROVE  Asked(r1, b1) = Asked(r2, b2)
             <=> /\ r1.tool.name = r2.tool.name
                 /\ Content(r1.raw) = Content(r2.raw)
                 /\ b1 = b2
  BY DEF Asked

LEMMA RecipeIsContent ==
    ASSUME RequestsAreDocuments, NEW r1 \in Requests, NEW r2 \in Requests, NEW f1, NEW f2,
           BaseDigest(r1, f1) # None, BaseDigest(r1, f1) = BaseDigest(r2, f2)
    PROVE  RecipeInputsDigest(r1.raw) = RecipeInputsDigest(r2.raw)
             <=> Content(r1.raw) = Content(r2.raw)
  <1>1. CASE SaysV1(r1.raw) /\ SaysV1(r2.raw)
    <2>1. /\ RecipeInputsDigest(r1.raw) = canonicalV1(r1.raw)
          /\ RecipeInputsDigest(r2.raw) = canonicalV1(r2.raw)
          /\ Content(r1.raw) = [script |-> r1.raw.script]
          /\ Content(r2.raw) = [script |-> r2.raw.script]
          /\ r1.raw.schema = r2.raw.schema
          /\ r1.raw.base.digest = r2.raw.base.digest
      BY <1>1, V1Content
    <2>2. Content(r1.raw) = Content(r2.raw) <=> r1.raw.script = r2.raw.script
      BY <2>1
    <2>3. canonicalV1(r1.raw) = canonicalV1(r2.raw) <=> r1.raw.script = r2.raw.script
      BY <2>1 DEF canonicalV1
    <2>4. QED
      BY <2>1, <2>2, <2>3
  <1>2. CASE ~SaysV1(r1.raw) /\ ~SaysV1(r2.raw)
    BY <1>2, LegacyContent, DocumentOf, CanonicalIsContent
  <1>3. CASE SaysV1(r1.raw) /\ ~SaysV1(r2.raw)
    <2>1. Content(r1.raw) # Content(r2.raw)
      BY <1>3, ContentsDiffer
    <2>2. RecipeInputsDigest(r1.raw) # RecipeInputsDigest(r2.raw)
      BY <1>3, V1Content, LegacyContent, DocumentOf, RecipesDiffer
    <2>3. QED
      BY <2>1, <2>2
  <1>4. CASE ~SaysV1(r1.raw) /\ SaysV1(r2.raw)
    <2>1. Content(r1.raw) # Content(r2.raw)
      BY <1>4, ContentsDiffer
    <2>2. RecipeInputsDigest(r1.raw) # RecipeInputsDigest(r2.raw)
      BY <1>4, V1Content, LegacyContent, DocumentOf, RecipesDiffer
    <2>3. QED
      BY <2>1, <2>2
  <1>5. QED
    BY <1>1, <1>2, <1>3, <1>4

LEMMA DigestIsAsked ==
    ASSUME RequestsAreDocuments, NEW r1 \in Requests, NEW r2 \in Requests, NEW f1, NEW f2,
           BaseDigest(r1, f1) # None, BaseDigest(r2, f2) # None
    PROVE  ResolveRawSpec(r1, BaseDigest(r1, f1)).digest
             = ResolveRawSpec(r2, BaseDigest(r2, f2)).digest
           <=> Asked(r1, BaseDigest(r1, f1)) = Asked(r2, BaseDigest(r2, f2))
  BY DigestParts, AskedParts, RecipeIsContent

(* What is resolved, taken apart. *)
LEMMA ResolvedParts ==
    ASSUME NEW spec \in Resolved
    PROVE  \E req \in Requests, found \in Found :
               /\ spec = ResolveRawSpec(req, BaseDigest(req, found))
               /\ BaseDigest(req, found) # None
               /\ spec.req = req /\ spec.base = BaseDigest(req, found)
  <1>1. PICK req \in Requests, found \in Found :
            spec = ResolveRawSpec(req, BaseDigest(req, found))
    BY DEF Resolved
  <1>2. spec.base # None
    BY DEF Resolved
  <1>3. spec.req = req /\ spec.base = BaseDigest(req, found)
    BY <1>1 DEF ResolveRawSpec
  <1>4. QED
    BY <1>1, <1>2, <1>3

LEMMA ResolvedIsReadable ==
    ASSUME NEW spec \in Resolved
    PROVE  /\ EffectiveProvenance(spec)
           /\ spec.schema = IF IsV1RawSpec(spec.req.raw) THEN SchemaBuildV1 ELSE SchemaLegacyV0
  <1>1. PICK req \in Requests, found \in Found :
            spec = ResolveRawSpec(req, BaseDigest(req, found)) /\ spec.req = req
    BY ResolvedParts
  <1>2. QED
    BY <1>1 DEF ResolveRawSpec, EffectiveProvenance

LEMMA ResolvesToSpec ==
    ASSUME NEW req \in Requests, NEW found \in Found, BaseDigest(req, found) # None
    PROVE  ResolveRawSpec(req, BaseDigest(req, found)) \in Resolved
  <1>1. ResolveRawSpec(req, BaseDigest(req, found)).base # None
    BY DEF ResolveRawSpec
  <1>2. QED
    BY <1>1 DEF Resolved

-----------------------------------------------------------------------------
(* The properties follow from the invariant *)

LEMMA OneSpecPerRequest ==
    ASSUME RequestsAreDocuments, ResolutionTypeOK, RecordInv,
           NEW s \in cache \ {Foreign}, NEW t \in cache \ {Foreign},
           Asked(s.req, s.base) = Asked(t.req, t.base)
    PROVE  s = t
  <1>1. s \in Resolved /\ t \in Resolved
    BY DEF ResolutionTypeOK, KnownSpecs
  <1>2. PICK r1 \in Requests, f1 \in Found :
            /\ s = ResolveRawSpec(r1, BaseDigest(r1, f1)) /\ BaseDigest(r1, f1) # None
            /\ s.req = r1 /\ s.base = BaseDigest(r1, f1)
    BY <1>1, ResolvedParts
  <1>3. PICK r2 \in Requests, f2 \in Found :
            /\ t = ResolveRawSpec(r2, BaseDigest(r2, f2)) /\ BaseDigest(r2, f2) # None
            /\ t.req = r2 /\ t.base = BaseDigest(r2, f2)
    BY <1>1, ResolvedParts
  <1>4. s.digest = t.digest
    BY <1>2, <1>3, DigestIsAsked
  <1>5. QED
    BY <1>4 DEF RecordInv, OneRecord

LEMMA AnswerIsAsked ==
    ASSUME RequestsAreDocuments, ResolutionTypeOK, CallInv, NEW c \in Calls, call[c].pc = "answered"
    PROVE  /\ Asked(call[c].req, call[c].result.base)
                = Asked(call[c].result.req, call[c].result.base)
           /\ SaysV1(call[c].req.raw) =>
                /\ call[c].result.schema = SchemaBuildV1
                /\ call[c].req.raw.schema = SchemaBuildV1 /\ EqualsTwo(call[c].req.raw.kind)
  <1> DEFINE h == call[c]
  <1>1. /\ h.req \in Requests /\ h.result \in Resolved
        /\ BaseDigest(h.req, h.found) # None
        /\ h.result.digest = ResolveRawSpec(h.req, BaseDigest(h.req, h.found)).digest
    BY DEF CallInv
  <1> HIDE DEF h
  <1>2. PICK r \in Requests, f \in Found :
            /\ h.result = ResolveRawSpec(r, BaseDigest(r, f)) /\ BaseDigest(r, f) # None
            /\ h.result.req = r /\ h.result.base = BaseDigest(r, f)
    BY <1>1, ResolvedParts
  <1>3. Asked(h.req, BaseDigest(h.req, h.found)) = Asked(r, BaseDigest(r, f))
    BY <1>1, <1>2, DigestIsAsked
  <1>4. /\ BaseDigest(h.req, h.found) = BaseDigest(r, f)
        /\ Content(h.req.raw) = Content(r.raw)
    BY <1>3, AskedParts
  <1>5. ASSUME SaysV1(h.req.raw)
        PROVE  /\ h.result.schema = SchemaBuildV1
               /\ h.req.raw.schema = SchemaBuildV1 /\ EqualsTwo(h.req.raw.kind)
    <2>1. SaysV1(r.raw)
      BY <1>1, <1>4, <1>5, ContentsDiffer
    <2>2. IsV1RawSpec(r.raw)
      BY <2>1, DocumentOf
    <2>3. h.result.schema = SchemaBuildV1
      BY <1>1, <1>2, <2>2, ResolvedIsReadable
    <2>4. h.req.raw.schema = SchemaBuildV1
      BY <1>1, <1>5, V1Content
    <2>5. EqualsTwo(h.req.raw.kind)
      <3>1. h.req.raw \in RawSpec
        BY <1>1, DocumentOf
      <3>2. h.req.raw.kind \in [negative: BOOLEAN, int: Seq(0..9), frac: Seq(0..9), exp: Int]
        BY <3>1 DEF RawSpec, Number
      <3>3. jsonNumberEqualsTwo(h.req.raw.kind)
        BY <1>1, <1>5, DocumentOf DEF BaseDigest, ParseRawSpecV1
      <3>4. QED
        BY <3>2, <3>3, KindIsTwo
    <2>6. QED
      BY <2>3, <2>4, <2>5
  <1>6. QED
    BY <1>2, <1>3, <1>4, <1>5 DEF h

LEMMA AnsweredFollows ==
    ASSUME RequestsAreDocuments, ResolutionInv
    PROVE  AnsweredAsAsked
  BY AnswerIsAsked, OneSpecPerRequest DEF ResolutionInv, AnsweredAsAsked

-----------------------------------------------------------------------------
(* A call by itself *)

CallOK(h, manifest) ==
    /\ h \in Handlers
    /\ h.pc # "idle" => h.req \in Requests
    /\ h.pc = "lookup" => manifest \in h.seen
    /\ h.pc = "answered" =>
         /\ h.result \in Resolved
         /\ BaseDigest(h.req, h.found) # None
         /\ h.result.digest = ResolveRawSpec(h.req, BaseDigest(h.req, h.found)).digest
    /\ h.found # None => h.found \in h.seen \cup {[config |-> m] : m \in h.seen}

CallsOK(f, manifest) ==
    /\ f = [c \in Calls |-> f[c]]
    /\ \A c \in Calls : CallOK(f[c], manifest)

LEMMA CallsAreOK ==
    CallsOK(call, tag) <=> call \in [Calls -> Handlers] /\ CallInv /\ PinnedWhileAsked
  BY DEF CallsOK, CallOK, CallInv, PinnedWhileAsked

LEMMA CallsAreOKNext ==
    CallsOK(call', tag') <=> call' \in [Calls -> Handlers] /\ CallInv' /\ PinnedWhileAsked'
  BY DEF CallsOK, CallOK, CallInv, PinnedWhileAsked

LEMMA ProceedPreserves ==
    ASSUME NEW c \in Calls, NEW h, NEW manifest, CallsOK(call, manifest), CallOK(h, manifest), Proceed(c, h)
    PROVE  CallsOK(call', manifest)
  BY DEF CallsOK, Proceed

LEMMA IdleOK == ASSUME NEW manifest PROVE CallOK(Idle, manifest)
  BY DEF CallOK, Idle, Handlers, Found, MediaTypes

(* Both ends of the media types still to ask for. *)
LEMMA MediaTypesLeft == 0 \in 0..MediaTypes /\ MediaTypes \in 0..MediaTypes
  BY DEF MediaTypes

LEMMA FetchedDigest ==
    ASSUME NEW response \in Responses
    PROVE  fetchManifestDigest(response) \in {None, tag, [config |-> tag]}
  <1>1. \/ response.status = "failed"
        \/ response.header \in {tag, None, "malformed"} /\ response.body = [config |-> tag]
        \/ response.header = None /\ response.body = None
    BY DEF Responses
  <1>2. \/ fetchManifestDigest(response) = None
        \/ fetchManifestDigest(response) = response.header /\ response.header # "malformed"
        \/ fetchManifestDigest(response) = response.body /\ response.header = None
    BY DEF fetchManifestDigest, validateDigestFormat
  <1>3. response.status = "failed" => fetchManifestDigest(response) = None
    BY DEF fetchManifestDigest
  <1>4. QED
    BY <1>1, <1>2, <1>3

LEMMA ResolveToolSpecCalls ==
    ASSUME tag \in Manifests, CallsOK(call, tag), NEW c \in Calls, NEW req \in Requests,
           ResolveToolSpec(c, req)
    PROVE  CallsOK(call', tag')
  <1> DEFINE asking == [Idle EXCEPT !.pc = "lookup", !.req = req, !.left = MediaTypes, !.seen = {tag}]
             storing == [Idle EXCEPT !.pc = "upsert", !.req = req]
  <1>1. CallOK(asking, tag)
    <2>1. Idle \in Handlers /\ Idle.found = None /\ None \in Found
      BY DEF Idle, Handlers, Found, MediaTypes
    <2>2. /\ asking.pc = "lookup" /\ asking.req = req /\ asking.found = None
          /\ asking.seen = {tag} /\ asking \in Handlers
      BY <2>1, MediaTypesLeft DEF Handlers
    <2> HIDE DEF asking
    <2>3. QED
      BY <2>2 DEF CallOK
  <1>4. CallOK(storing, tag)
    <2>1. Idle \in Handlers /\ Idle.found = None
      BY DEF Idle, Handlers, Found, MediaTypes
    <2>2. storing.pc = "upsert" /\ storing.req = req /\ storing.found = None /\ storing \in Handlers
      BY <2>1 DEF Handlers
    <2> HIDE DEF storing
    <2>3. QED
      BY <2>2 DEF CallOK
  <1>2. tag' = tag /\ (Proceed(c, asking) \/ Proceed(c, storing))
    BY DEF ResolveToolSpec, registryVars
  <1> HIDE DEF asking, storing
  <1>3. QED
    BY <1>1, <1>2, <1>4, ProceedPreserves

LEMMA ResolveTagDigestCalls ==
    ASSUME tag \in Manifests, CallsOK(call, tag), NEW c \in Calls, ResolveTagDigest(c)
    PROVE  CallsOK(call', tag')
  <1>1. tag' = tag /\ call[c].pc = "lookup" /\ CallOK(call[c], tag)
    BY DEF ResolveTagDigest, registryVars, CallsOK
  <1>2. PICK response \in Responses :
          LET d == fetchManifestDigest(response) h == call[c]
          IN  IF d # None THEN Proceed(c, [h EXCEPT !.pc = "upsert", !.left = 0, !.found = d])
              ELSE IF h.left > 1 THEN Proceed(c, [h EXCEPT !.left = @ - 1])
              ELSE Proceed(c, Idle)
    BY DEF ResolveTagDigest
  <1>3. ASSUME NEW d \in {tag, [config |-> tag]}
        PROVE  CallOK([call[c] EXCEPT !.pc = "upsert", !.left = 0, !.found = d], tag)
    <2> DEFINE h == [call[c] EXCEPT !.pc = "upsert", !.left = 0, !.found = d]
    <2>1. call[c] \in Handlers /\ call[c].req \in Requests /\ tag \in call[c].seen
      BY <1>1 DEF CallOK
    <2>2. d \in Found
      BY <1>3 DEF Found
    <2>3. h.pc = "upsert" /\ h.req = call[c].req /\ h.found = d /\ h.seen = call[c].seen
      BY <2>1 DEF Handlers
    <2>4. h \in Handlers
      BY <2>1, <2>2, MediaTypesLeft DEF Handlers
    <2> HIDE DEF h
    <2>5. h.found \in h.seen \cup {[config |-> m] : m \in h.seen}
      BY <1>3, <2>1, <2>3
    <2>6. CallOK(h, tag)
      BY <2>1, <2>3, <2>4, <2>5 DEF CallOK
    <2>7. QED
      BY <2>6 DEF h
  <1>4. ASSUME call[c].left > 1 PROVE CallOK([call[c] EXCEPT !.left = @ - 1], tag)
    BY <1>1, <1>4 DEF CallOK, Handlers, MediaTypes
  <1>5. QED
    BY <1>1, <1>2, <1>3, <1>4, FetchedDigest, IdleOK, ProceedPreserves

LEMMA RefuseSpecCalls ==
    ASSUME CallsOK(call, tag), NEW c \in Calls, RefuseSpec(c)
    PROVE  CallsOK(call', tag')
  BY IdleOK, ProceedPreserves DEF RefuseSpec, registryVars

LEMMA AnswerCalls ==
    ASSUME ForeignIsNewer, CallsOK(call, tag), NEW c \in Calls, NEW spec \in KnownSpecs,
           call[c].pc = "upsert",
           BaseDigest(call[c].req, call[c].found) # None,
           spec.digest = ResolveRawSpec(call[c].req, BaseDigest(call[c].req, call[c].found)).digest,
           AnswerCall(c, spec)
    PROVE  CallsOK(call', tag)
  <1> DEFINE h == [call[c] EXCEPT !.pc = "answered", !.result = spec]
  <1>1. CASE EffectiveProvenance(spec)
    <2>1. spec \in Resolved
      BY <1>1 DEF KnownSpecs, ForeignIsNewer
    <2>2. CallOK(call[c], tag)
      BY DEF CallsOK
    <2>3. h \in Handlers
      BY <2>2 DEF CallOK, Handlers
    <2>4. /\ h.pc = "answered" /\ h.result = spec /\ h.req = call[c].req
          /\ h.found = call[c].found /\ h.seen = call[c].seen
      BY <2>2 DEF CallOK, Handlers
    <2>5. Proceed(c, h)
      BY <1>1 DEF AnswerCall
    <2> HIDE DEF h
    <2>6. CallOK(h, tag)
      BY <2>1, <2>2, <2>3, <2>4 DEF CallOK
    <2>7. QED
      BY <2>5, <2>6, ProceedPreserves
  <1>2. CASE ~EffectiveProvenance(spec)
    BY <1>2, IdleOK, ProceedPreserves DEF AnswerCall
  <1>3. QED
    BY <1>1, <1>2

LEMMA StoreSpecCalls ==
    ASSUME ForeignIsNewer, cache \subseteq KnownSpecs, CallsOK(call, tag), NEW c \in Calls, StoreSpec(c)
    PROVE  CallsOK(call', tag')
  <1> DEFINE spec == ResolveRawSpec(call[c].req, BaseDigest(call[c].req, call[c].found))
  <1>1. /\ call[c].pc = "upsert" /\ BaseDigest(call[c].req, call[c].found) # None
        /\ UpsertResolvedToolSpec(c, spec) /\ tag' = tag
    BY DEF StoreSpec, registryVars
  <1>2. call[c].req \in Requests /\ call[c].found \in Found
    BY <1>1 DEF CallsOK, CallOK, Handlers
  <1>3. spec \in KnownSpecs
    BY <1>1, <1>2, ResolvesToSpec DEF KnownSpecs
  <1>4. spec.digest = ResolveRawSpec(call[c].req, BaseDigest(call[c].req, call[c].found)).digest
    OBVIOUS
  <1> HIDE DEF spec
  <1>5. \/ \E known \in Stored(spec.digest) : AnswerCall(c, known)
        \/ AnswerCall(c, spec)
        \/ Proceed(c, Idle)
    BY <1>1 DEF UpsertResolvedToolSpec
  <1>6. ASSUME NEW known \in Stored(spec.digest) PROVE known \in KnownSpecs /\ known.digest = spec.digest
    BY DEF Stored
  <1>7. QED
    BY <1>1, <1>3, <1>4, <1>5, <1>6, AnswerCalls, IdleOK, ProceedPreserves

LEMMA MoveTagCalls ==
    ASSUME CallsOK(call, tag), MoveTag
    PROVE  CallsOK(call', tag')
  <1>1. PICK m \in Manifests :
          /\ tag' = m
          /\ call' = [c \in Calls |->
                        IF call[c].pc = "lookup" THEN [call[c] EXCEPT !.seen = @ \cup {m}] ELSE call[c]]
    BY DEF MoveTag
  <1>2. ASSUME NEW h, CallOK(h, tag), h.pc = "lookup"
        PROVE  CallOK([h EXCEPT !.seen = @ \cup {m}], m)
    BY <1>2 DEF CallOK, Handlers
  <1>3. ASSUME NEW h, CallOK(h, tag), h.pc # "lookup"
        PROVE  CallOK(h, m)
    BY <1>3 DEF CallOK
  <1>4. QED
    BY <1>1, <1>2, <1>3 DEF CallsOK
-----------------------------------------------------------------------------
(* The index *)

IndexInv ==
    /\ {cache, disk} \subseteq SUBSET KnownSpecs
    /\ {moved, claimed} \subseteq BOOLEAN
    /\ checked \in [Functions -> KnownSpecs \cup {None}]
    /\ failures \in Nat
    /\ RecordInv /\ FileInv /\ LineageResolves

LEMMA IndexUnchanged ==
    ASSUME IndexInv, UNCHANGED <<specIndexVars, checked>>
    PROVE  IndexInv'
  BY DEF IndexInv, specIndexVars, RecordInv, OneRecord, FileInv, LineageResolves

LEMMA OneMoreRecord ==
    ASSUME NEW specs, NEW spec, OneRecord(specs), \A s \in specs : s.digest # spec.digest
    PROVE  OneRecord(specs \cup {spec})
  BY DEF OneRecord

LEMMA StoreSpecIndex ==
    ASSUME IndexInv, CallsOK(call, tag), NEW c \in Calls, StoreSpec(c)
    PROVE  IndexInv'
  <1> DEFINE spec == ResolveRawSpec(call[c].req, BaseDigest(call[c].req, call[c].found))
  <1>1. /\ call[c].pc = "upsert" /\ BaseDigest(call[c].req, call[c].found) # None
        /\ UpsertResolvedToolSpec(c, spec) /\ checked' = checked
    BY DEF StoreSpec
  <1>2. call[c].req \in Requests /\ call[c].found \in Found
    BY <1>1 DEF CallsOK, CallOK, Handlers
  <1>3. spec \in KnownSpecs
    BY <1>1, <1>2, ResolvesToSpec DEF KnownSpecs
  <1> HIDE DEF spec
  <1>4. CASE UNCHANGED specIndexVars
    BY <1>1, <1>4, IndexUnchanged
  <1>5. CASE /\ Stored(spec.digest) = {} /\ ~moved /\ cache' = cache \cup {spec}
             /\ Saves(cache', functions) \/ Fails
             /\ UNCHANGED <<moved, claimed>>
    <2>1. OneRecord(cache')
      BY <1>5, OneMoreRecord DEF Stored, IndexInv, RecordInv
    <2>2. CASE Saves(cache', functions)
      <3>1. disk' = cache' /\ functions' = functions /\ failures' = failures
        BY <2>2 DEF Saves
      <3>2. RecordInv'
        BY <2>1, <3>1 DEF RecordInv, OneRecord
      <3>3. failures = 0 => disk \subseteq disk'
        BY <1>5, <3>1 DEF IndexInv, FileInv
      <3>4. FileInv'
        BY <1>1, <3>1, <3>3 DEF IndexInv, FileInv
      <3>5. LineageResolves'
        BY <3>1, <3>3 DEF IndexInv, LineageResolves
      <3>6. QED
        BY <1>1, <1>3, <1>5, <3>1, <3>2, <3>4, <3>5 DEF IndexInv
    <2>3. CASE Fails
      <3>1. disk' = disk /\ functions' = functions /\ failures' = failures + 1
        BY <2>3 DEF Fails
      <3>2. RecordInv'
        BY <2>1, <3>1 DEF IndexInv, RecordInv, OneRecord
      <3>3. failures' \in Nat /\ failures' # 0
        BY <3>1 DEF IndexInv
      <3>4. FileInv' /\ LineageResolves'
        BY <3>3 DEF FileInv, LineageResolves
      <3>5. QED
        BY <1>1, <1>3, <1>5, <3>1, <3>2, <3>3, <3>4 DEF IndexInv
    <2>4. QED
      BY <1>5, <2>2, <2>3
  <1>6. CASE Reloads /\ UNCHANGED claimed
    <2>1. cache' = disk /\ disk' = disk /\ moved' = FALSE /\ UNCHANGED <<functions, failures, claimed, checked>>
      BY <1>1, <1>6 DEF Reloads
    <2>2. QED
      BY <2>1 DEF IndexInv, RecordInv, OneRecord, FileInv, LineageResolves
  <1>7. QED
    BY <1>1, <1>4, <1>5, <1>6 DEF UpsertResolvedToolSpec

LEMMA LookUpBaseIndex ==
    ASSUME IndexInv, NEW f \in Functions, NEW spec, LookUpBase(f, spec)
    PROVE  IndexInv'
  <1>1. /\ spec \in cache /\ EffectiveProvenance(spec)
        /\ checked' = [checked EXCEPT ![f] = spec] /\ UNCHANGED specIndexVars
    BY DEF LookUpBase
  <1>2. UNCHANGED <<cache, disk, functions, moved, claimed, failures>>
    BY <1>1 DEF specIndexVars
  <1>3. checked' \in [Functions -> KnownSpecs \cup {None}]
    BY <1>1 DEF IndexInv
  <1>4. FileInv'
    BY <1>1, <1>2 DEF IndexInv, FileInv
  <1>5. RecordInv' /\ LineageResolves'
    BY <1>2 DEF IndexInv, RecordInv, OneRecord, LineageResolves
  <1>6. QED
    BY <1>2, <1>3, <1>4, <1>5 DEF IndexInv

LEMMA RegisterIndex ==
    ASSUME IndexInv, NEW f \in Functions, RegisterToolFunctionAtomic(f)
    PROVE  IndexInv'
  <1>1. /\ checked[f] # None /\ claimed' = TRUE /\ moved' = FALSE
        /\ cache' \in {cache, disk}
        /\ (claimed /\ ~moved) \/ cache' = disk
        /\ checked' = [checked EXCEPT ![f] = None]
    BY DEF RegisterToolFunctionAtomic
  <1>2. checked' \in [Functions -> KnownSpecs \cup {None}]
    BY <1>1 DEF IndexInv
  <1>3. CASE Saves(cache', functions \cup {[function |-> f, base |-> checked[f]]})
    <2>1. /\ disk' = cache' /\ failures' = failures
          /\ functions' = functions \cup {[function |-> f, base |-> checked[f]]}
      BY <1>3 DEF Saves
    <2>2. failures = 0 => disk' = disk
      BY <1>1, <2>1 DEF IndexInv, FileInv
    <2>3. RecordInv'
      BY <1>1, <2>1 DEF IndexInv, RecordInv, OneRecord
    <2>4. FileInv'
      BY <1>1, <2>1, <2>2 DEF IndexInv, FileInv
    <2>5. LineageResolves'
      BY <1>1, <2>1, <2>2 DEF IndexInv, FileInv, LineageResolves
    <2>6. QED
      BY <1>1, <1>2, <2>1, <2>3, <2>4, <2>5 DEF IndexInv
  <1>4. CASE Fails
    <2>1. disk' = disk /\ functions' = functions /\ failures' = failures + 1
      BY <1>4 DEF Fails
    <2>2. failures' \in Nat /\ failures' # 0
      BY <2>1 DEF IndexInv
    <2>3. FileInv' /\ LineageResolves'
      BY <2>2 DEF FileInv, LineageResolves
    <2>4. RecordInv'
      BY <1>1, <2>1 DEF IndexInv, RecordInv, OneRecord
    <2>5. QED
      BY <1>1, <1>2, <2>1, <2>2, <2>3, <2>4 DEF IndexInv
  <1>5. QED
    BY <1>3, <1>4 DEF RegisterToolFunctionAtomic

LEMMA OtherProcessIndex ==
    ASSUME IndexInv, OtherProcessResolves
    PROVE  IndexInv'
  <1>1. /\ disk' = disk \cup {Foreign} /\ moved' = TRUE
        /\ UNCHANGED <<cache, functions, claimed, failures, checked>>
    BY DEF OtherProcessResolves
  <1>2. OneRecord(disk')
    BY <1>1, OneMoreRecord DEF IndexInv, RecordInv, OtherProcessResolves
  <1>3. RecordInv'
    BY <1>1, <1>2 DEF IndexInv, RecordInv, OneRecord
  <1>4. FileInv'
    BY <1>1 DEF IndexInv, FileInv
  <1>5. LineageResolves'
    BY <1>1 DEF IndexInv, LineageResolves
  <1>6. QED
    BY <1>1, <1>3, <1>4, <1>5 DEF IndexInv, KnownSpecs

LEMMA RestartIndex ==
    ASSUME IndexInv, Restart
    PROVE  IndexInv'
  <1>1. /\ cache' = disk /\ moved' = FALSE /\ claimed' = FALSE
        /\ checked' = [f \in Functions |-> None]
        /\ UNCHANGED <<disk, functions, failures>>
    BY DEF Restart
  <1>2. RecordInv' /\ LineageResolves'
    BY <1>1 DEF IndexInv, RecordInv, OneRecord, LineageResolves
  <1>3. FileInv'
    BY <1>1 DEF IndexInv, FileInv
  <1>4. QED
    BY <1>1, <1>2, <1>3 DEF IndexInv
-----------------------------------------------------------------------------
(* Every step keeps both *)

CountInv == tag \in Manifests /\ {moves, restarts} \subseteq Nat

LEMMA InvParts == ResolutionInv <=> CountInv /\ CallsOK(call, tag) /\ IndexInv
  BY CallsAreOK DEF ResolutionInv, ResolutionTypeOK, CountInv, IndexInv

LEMMA InvPartsNext == ResolutionInv' <=> CountInv' /\ CallsOK(call', tag') /\ IndexInv'
  BY CallsAreOKNext DEF ResolutionInv, ResolutionTypeOK, CountInv, IndexInv

LEMMA CountsPreserved ==
    ASSUME CountInv, ResolutionNext
    PROVE  CountInv'
  <1>1. CASE MoveTag
    BY <1>1 DEF MoveTag, CountInv
  <1>2. CASE Restart
    BY <1>2 DEF Restart, registryVars, CountInv
  <1>3. CASE UNCHANGED <<registryVars, restarts>>
    BY <1>3 DEF registryVars, CountInv
  <1>4. MoveTag \/ Restart \/ UNCHANGED <<registryVars, restarts>>
    BY DEF ResolutionNext, ResolveToolSpec, ResolveTagDigest, RefuseSpec, StoreSpec, LookUpBase,
           RegisterToolFunctionAtomic, OtherProcessResolves
  <1>5. QED
    BY <1>1, <1>2, <1>3, <1>4

LEMMA CallsPreserved ==
    ASSUME ForeignIsNewer, CountInv, CallsOK(call, tag), IndexInv, ResolutionNext
    PROVE  CallsOK(call', tag')
  <1>1. tag \in Manifests /\ cache \subseteq KnownSpecs
    BY DEF CountInv, IndexInv
  <1>2. ASSUME NEW c \in Calls,
               \/ \E req \in Requests : ResolveToolSpec(c, req)
               \/ ResolveTagDigest(c) \/ RefuseSpec(c) \/ StoreSpec(c)
        PROVE  CallsOK(call', tag')
    BY <1>1, <1>2, ResolveToolSpecCalls, ResolveTagDigestCalls, RefuseSpecCalls, StoreSpecCalls
  <1>3. ASSUME UNCHANGED <<registryVars, call>> PROVE CallsOK(call', tag')
    BY <1>3 DEF registryVars
  <1>4. ASSUME NEW f \in Functions,
               (\E spec \in Bases : LookUpBase(f, spec)) \/ RegisterToolFunctionAtomic(f)
        PROVE  CallsOK(call', tag')
    BY <1>3, <1>4 DEF LookUpBase, RegisterToolFunctionAtomic
  <1>5. ASSUME OtherProcessResolves PROVE CallsOK(call', tag')
    BY <1>3, <1>5 DEF OtherProcessResolves
  <1>6. ASSUME Restart PROVE CallsOK(call', tag')
    <2>1. call' = [c \in Calls |-> Idle] /\ tag' = tag
      BY <1>6 DEF Restart, registryVars
    <2>2. QED
      BY <2>1, IdleOK DEF CallsOK
  <1>7. QED
    BY <1>2, <1>4, <1>5, <1>6, MoveTagCalls DEF ResolutionNext

LEMMA IndexPreserved ==
    ASSUME CallsOK(call, tag), IndexInv, ResolutionNext
    PROVE  IndexInv'
  <1>1. ASSUME UNCHANGED <<specIndexVars, checked>> PROVE IndexInv'
    BY <1>1, IndexUnchanged
  <1>2. ASSUME NEW c \in Calls,
               \/ \E req \in Requests : ResolveToolSpec(c, req)
               \/ ResolveTagDigest(c) \/ RefuseSpec(c) \/ StoreSpec(c)
        PROVE  IndexInv'
    BY <1>1, <1>2, StoreSpecIndex DEF ResolveToolSpec, ResolveTagDigest, RefuseSpec
  <1>3. ASSUME NEW f \in Functions,
               (\E spec \in Bases : LookUpBase(f, spec)) \/ RegisterToolFunctionAtomic(f)
        PROVE  IndexInv'
    BY <1>3, LookUpBaseIndex, RegisterIndex
  <1>4. ASSUME MoveTag PROVE IndexInv'
    BY <1>1, <1>4 DEF MoveTag
  <1>5. QED
    BY <1>2, <1>3, <1>4, OtherProcessIndex, RestartIndex DEF ResolutionNext

LEMMA SpecInvInit ==
    ASSUME ResolutionInit
    PROVE  ResolutionInv
  <1>1. CountInv
    BY DEF ResolutionInit, CountInv
  <1>2. CallsOK(call, tag)
    BY IdleOK DEF ResolutionInit, CallsOK
  <1>3. IndexInv
    BY DEF ResolutionInit, IndexInv, RecordInv, OneRecord, FileInv, LineageResolves
  <1>4. QED
    BY <1>1, <1>2, <1>3, InvParts

LEMMA SpecInvNext ==
    ASSUME ForeignIsNewer, ResolutionInv, [ResolutionNext]_resolutionVars
    PROVE  ResolutionInv'
  <1>1. CASE ResolutionNext
    BY <1>1, InvParts, InvPartsNext, CountsPreserved, CallsPreserved, IndexPreserved
  <1>2. CASE UNCHANGED resolutionVars
    <2>1. UNCHANGED <<specIndexVars, checked>> /\ UNCHANGED <<tag, moves, call, restarts>>
      BY <1>2 DEF resolutionVars, registryVars
    <2>2. IndexInv'
      BY <2>1, InvParts, IndexUnchanged
    <2>3. CountInv' /\ CallsOK(call', tag')
      BY <2>1, InvParts DEF CountInv
    <2>4. QED
      BY <2>2, <2>3, InvPartsNext
  <1>3. QED
    BY <1>1, <1>2

LEMMA SpecInvariance == ResolutionSpec => []ResolutionInv
  BY ForeignAssumption, SpecInvInit, SpecInvNext, PTL DEF ResolutionSpec

-----------------------------------------------------------------------------
(* The theorems *)

(* The handlers, the index and the file hold what their comments say.      *)
THEOREM SpecsTyped == ResolutionSpec => []ResolutionTypeOK
  <1>1. ResolutionInv => ResolutionTypeOK
    BY DEF ResolutionInv
  <1>2. QED
    BY <1>1, SpecInvariance, PTL

(* However calls, saves that fail, reloads, restarts and a newer binary    *)
(* interleave, ResolveToolSpec answers with a record of what the call      *)
(* asked for: of a legacy document, what its JSON is decoded to, whatever  *)
(* doubles the decoder makes of its numbers; of one that names a schema    *)
(* version the v1 fields, and only if its kind is 2.  Two records in       *)
(* memory are of two different requests in this sense (rawspec.go,         *)
(* digest.go).                                                             *)
THEOREM AnswersMatchRequests == ResolutionSpec => []AnsweredAsAsked
  <1>1. ResolutionInv => AnsweredAsAsked
    BY RequestsAssumption, AnsweredFollows
  <1>2. QED
    BY <1>1, SpecInvariance, PTL

(* The base ResolveTagDigest pins was the tag's while it asked, however    *)
(* often the tag moves.                                                    *)
THEOREM PinIsNotStale == ResolutionSpec => []PinnedWhileAsked
  <1>1. ResolutionInv => PinnedWhileAsked
    BY DEF ResolutionInv
  <1>2. QED
    BY <1>1, SpecInvariance, PTL

(* The base RegisterToolFunction looked up is still in the file when it    *)
(* commits, unless a save has failed.                                      *)
THEOREM BasesAreRecorded == ResolutionSpec => []LineageResolves
  <1>1. ResolutionInv => LineageResolves
    BY DEF ResolutionInv
  <1>2. QED
    BY <1>1, SpecInvariance, PTL

=============================================================================
