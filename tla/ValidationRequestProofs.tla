---------------------- MODULE ValidationRequestProofs ----------------------
(***************************************************************************)
(* Proofs of the safety properties of ValidationRequest, for every set of  *)
(* requests, attempt budget and number of crashes and failed saves.        *)
(***************************************************************************)
EXTENDS ValidationRequest, TLAPS

(* The part of the inductive invariant that speaks about stored records. *)
StoreInv ==
    /\ ShapeInv(rec)
    /\ ShapeInv(diskRec)
    /\ AheadInv
    /\ AcknowledgedWorkExists
    /\ RecordAndStatusAgree

(* New contents of the index that a save may publish. *)
GoodUpdate(newRec, newChecks) ==
    /\ newRec \in [Requests -> Record]
    /\ newChecks \in SUBSET Results
    /\ ShapeInv(newRec)
    /\ \A r \in Requests : Forward(rec[r], newRec[r])
    /\ \A r \in Requests : HasJob(newRec[r].status) => job[r] # "none"
    /\ Agree(newRec, newChecks)

(* Typing of the store variables. *)
StoreTypeOK ==
    /\ rec \in [Requests -> Record]
    /\ diskRec \in [Requests -> Record]
    /\ checks \in SUBSET Results
    /\ diskChecks \in SUBSET Results
    /\ saveFailures \in 0..MaxSaveFailures

DurableStep == \A r \in Requests : Forward(diskRec[r], diskRec'[r])

(* Moving forward is transitive: stages are ordered and a terminal status   *)
(* of the index file has no successor.                                      *)
LEMMA ForwardTransitive ==
    ASSUME NEW a \in Record, NEW b \in Record, NEW c \in Record,
           Forward(a, b), Forward(b, c)
    PROVE  Forward(a, c)
  <1>1. Stage(a.status) \in Nat /\ Stage(b.status) \in Nat /\ Stage(c.status) \in Nat
    BY DEF Stage
  <1>2. a.attempts \in Nat /\ b.attempts \in Nat /\ c.attempts \in Nat
    BY MaxAttemptsAssumption DEF Record
  <1>3. QED
    BY <1>1, <1>2 DEF Forward

(* A record that does not change does not move backwards. *)
LEMMA ForwardReflexive ==
    ASSUME NEW a \in Record
    PROVE  Forward(a, a)
  <1>1. Stage(a.status) \in Nat
    BY DEF Stage
  <1>2. a.attempts \in Nat
    BY MaxAttemptsAssumption DEF Record
  <1>3. QED
    BY <1>1, <1>2 DEF Forward

(* A save, whether it reaches the file or not, publishes nothing wrong.     *)
LEMMA SaveKeepsStore ==
    ASSUME TypeOK, StoreInv, UNCHANGED job,
           NEW newRec, NEW newChecks,
           GoodUpdate(newRec, newChecks),
           save(newRec, newChecks)
    PROVE  StoreInv' /\ StoreTypeOK' /\ DurableStep
  <1>0. /\ rec' = newRec /\ checks' = newChecks
        /\ \/ diskRec' = newRec /\ diskChecks' = newChecks /\ saveFailures' = saveFailures
           \/ /\ diskRec' = diskRec /\ diskChecks' = diskChecks
              /\ saveFailures < MaxSaveFailures /\ saveFailures' = saveFailures + 1
    BY DEF save, SaveSucceeds, SaveFails
  <1>1. StoreTypeOK'
    BY <1>0, BoundsAssumption DEF StoreTypeOK, TypeOK, GoodUpdate
  <1>2. \A r \in Requests : Forward(diskRec[r], newRec[r])
    <2> TAKE r \in Requests
    <2>1. diskRec[r] \in Record /\ rec[r] \in Record /\ newRec[r] \in Record
      BY DEF TypeOK, GoodUpdate
    <2>2. Forward(diskRec[r], rec[r]) /\ Forward(rec[r], newRec[r])
      BY DEF StoreInv, AheadInv, GoodUpdate
    <2>3. QED
      BY <2>1, <2>2, ForwardTransitive
  <1>3. \A r \in Requests : Forward(newRec[r], newRec[r]) /\ Forward(diskRec[r], diskRec[r])
    BY ForwardReflexive DEF TypeOK, GoodUpdate
  <1>4. DurableStep /\ AheadInv'
    BY <1>0, <1>2, <1>3 DEF DurableStep, AheadInv
  <1>5. ShapeInv(rec)' /\ ShapeInv(diskRec)'
    BY <1>0 DEF GoodUpdate, StoreInv, ShapeInv
  <1>6. AcknowledgedWorkExists'
    BY <1>0 DEF GoodUpdate, StoreInv, AcknowledgedWorkExists
  <1>7. RecordAndStatusAgree'
    BY <1>0 DEF GoodUpdate, StoreInv, RecordAndStatusAgree, Agree
  <1>8. QED
    BY <1>1, <1>4, <1>5, <1>6, <1>7 DEF StoreInv

(* A step that leaves the index and its file alone keeps what is true of both. *)
LEMMA UnchangedStore ==
    ASSUME TypeOK, StoreInv, UNCHANGED storeVars,
           \A r \in Requests : job[r] # "none" => job'[r] # "none"
    PROVE  StoreInv' /\ StoreTypeOK' /\ DurableStep
  <1>1. StoreTypeOK'
    BY DEF StoreTypeOK, TypeOK, storeVars
  <1>2. DurableStep
    BY ForwardReflexive DEF DurableStep, TypeOK, storeVars
  <1>3. ShapeInv(rec)' /\ ShapeInv(diskRec)' /\ AheadInv'
    BY DEF StoreInv, ShapeInv, AheadInv, storeVars
  <1>4. AcknowledgedWorkExists'
    BY DEF StoreInv, AcknowledgedWorkExists, storeVars
  <1>5. RecordAndStatusAgree'
    BY DEF StoreInv, RecordAndStatusAgree, Agree, storeVars
  <1>6. QED
    BY <1>1, <1>2, <1>3, <1>4, <1>5 DEF StoreInv

(* Replacing one record, the stored results untouched. *)
LEMMA OneRecordUpdate ==
    ASSUME TypeOK, StoreInv,
           NEW r \in Requests, NEW new \in Record,
           Shape(new), Forward(rec[r], new),
           HasJob(new.status) => job[r] # "none",
           AgreeAt(r, new.status, checks)
    PROVE  GoodUpdate([rec EXCEPT ![r] = new], checks)
  <1> DEFINE f == [rec EXCEPT ![r] = new]
  <1>1. f \in [Requests -> Record] /\ checks \in SUBSET Results
    BY DEF TypeOK
  <1>2. \A q \in Requests : f[q] = IF q = r THEN new ELSE rec[q]
    BY DEF TypeOK
  <1>3. \A q \in Requests : Forward(rec[q], f[q])
    BY <1>2, ForwardReflexive DEF TypeOK
  <1>4. ShapeInv(f)
    BY <1>2 DEF StoreInv, ShapeInv
  <1>5. \A q \in Requests : HasJob(f[q].status) => job[q] # "none"
    BY <1>2 DEF StoreInv, AcknowledgedWorkExists
  <1>6. Agree(f, checks)
    BY <1>2 DEF StoreInv, RecordAndStatusAgree, Agree
  <1> HIDE DEF f
  <1>7. GoodUpdate(f, checks)
    BY <1>1, <1>3, <1>4, <1>5, <1>6 DEF GoodUpdate
  <1>8. QED
    BY <1>7 DEF f

(* What a status change of one record does to the store, whether the edge   *)
(* is refused, the save fails or the save succeeds.                         *)
Effect(r) ==
    /\ StoreInv' /\ StoreTypeOK' /\ DurableStep
    /\ checks' = checks
    /\ diskChecks' \in {checks, diskChecks}
    /\ \A q \in Requests : q # r => rec'[q] = rec[q]
    /\ rec[r].status = "Absent" => rec'[r] = rec[r]
    /\ diskRec' \in {diskRec, rec'}

(* TransitionValidationRequest changes one record, forward, or nothing at all. *)
LEMMA TransitionEffect ==
    ASSUME TypeOK, StoreInv, UNCHANGED job,
           NEW r \in Requests, NEW n \in 0..MaxAttempts,
           NEW to \in {"Queued", "Unavailable", "EnqueueAbandoned"},
           TransitionValidationRequest(r, to, n),
           to \in validValidationTransitions(rec[r].status) =>
             /\ rec[r].attempts <= n
             /\ to = "EnqueueAbandoned" => n = MaxAttempts
             /\ to = "Queued" => job[r] # "none"
    PROVE  /\ Effect(r)
           /\ \/ rec'[r] = rec[r]
              \/ /\ to \in validValidationTransitions(rec[r].status)
                 /\ rec'[r] = [status |-> to, attempts |-> n]
  <1> DEFINE new == [status |-> to, attempts |-> n]
  <1>1. CASE to \in validValidationTransitions(rec[r].status)
    <2>1. save([rec EXCEPT ![r] = new], checks)
      BY <1>1 DEF TransitionValidationRequest
    <2>2. rec[r] \in Record /\ new \in Record
      BY DEF TypeOK, Record, Statuses, Terminal
    <2>3. rec[r].status \in {"EnqueuePending", "Unavailable"}
      BY <1>1 DEF validValidationTransitions
    <2>4. Shape(new)
      BY <1>1 DEF Shape
    <2>5. Forward(rec[r], new)
      BY <1>1, <2>3 DEF Forward, Stage, Terminal, validValidationTransitions
    <2>6. HasJob(new.status) => job[r] # "none"
      BY <1>1 DEF HasJob
    <2>7. AgreeAt(r, rec[r].status, checks)
      BY DEF StoreInv, RecordAndStatusAgree, Agree
    <2>8. AgreeAt(r, new.status, checks)
      BY <2>3, <2>7 DEF AgreeAt, Outcome
    <2>9. GoodUpdate([rec EXCEPT ![r] = new], checks)
      BY <2>2, <2>4, <2>5, <2>6, <2>8, OneRecordUpdate
    <2>10. StoreInv' /\ StoreTypeOK' /\ DurableStep
      BY <2>1, <2>9, SaveKeepsStore
    <2>11. /\ rec' = [rec EXCEPT ![r] = new] /\ checks' = checks
           /\ diskChecks' \in {checks, diskChecks} /\ diskRec' \in {diskRec, rec'}
      BY <2>1 DEF save, SaveSucceeds, SaveFails
    <2>12. QED
      BY <1>1, <2>3, <2>10, <2>11 DEF Effect, TypeOK
  <1>2. CASE to \notin validValidationTransitions(rec[r].status)
    <2>1. UNCHANGED storeVars
      BY <1>2 DEF TransitionValidationRequest
    <2>2. StoreInv' /\ StoreTypeOK' /\ DurableStep
      BY <2>1, UnchangedStore
    <2>3. QED
      BY <2>1, <2>2 DEF Effect, storeVars
  <1>3. QED
    BY <1>1, <1>2

(* So does UpdateRetryState, the write that ends an attempt of the retry loop. *)
LEMMA RetryStateEffect ==
    ASSUME TypeOK, StoreInv, UNCHANGED job,
           NEW r \in Requests, NEW n \in 0..MaxAttempts,
           UpdateValidationRequestRetryState(r, n),
           rec[r].status = "Unavailable" => rec[r].attempts <= n
    PROVE  /\ Effect(r)
           /\ \/ rec'[r] = rec[r]
              \/ rec'[r] = [status |-> "Unavailable", attempts |-> n]
  <1> DEFINE new == [status |-> "Unavailable", attempts |-> n]
  <1>1. CASE rec[r].status = "Unavailable"
    <2>1. rec[r] \in Record /\ new \in Record
      BY DEF TypeOK, Record, Statuses
    <2>3. save([rec EXCEPT ![r] = new], checks)
      BY <1>1 DEF UpdateValidationRequestRetryState
    <2>4. Shape(new)
      BY DEF Shape
    <2>5. Forward(rec[r], new)
      BY <1>1 DEF Forward, Stage, Terminal
    <2>6. ~HasJob(new.status)
      BY DEF HasJob
    <2>7. AgreeAt(r, new.status, checks)
      BY <1>1 DEF StoreInv, RecordAndStatusAgree, Agree
    <2>8. GoodUpdate([rec EXCEPT ![r] = new], checks)
      BY <2>1, <2>4, <2>5, <2>6, <2>7, OneRecordUpdate
    <2>9. StoreInv' /\ StoreTypeOK' /\ DurableStep
      BY <2>3, <2>8, SaveKeepsStore
    <2>10. /\ rec' = [rec EXCEPT ![r] = new] /\ checks' = checks
           /\ diskChecks' \in {checks, diskChecks} /\ diskRec' \in {diskRec, rec'}
      BY <2>3 DEF save, SaveSucceeds, SaveFails
    <2>11. QED
      BY <1>1, <2>9, <2>10 DEF Effect, TypeOK
  <1>2. CASE rec[r].status # "Unavailable"
    <2>1. UNCHANGED storeVars
      BY <1>2 DEF UpdateValidationRequestRetryState
    <2>2. StoreInv' /\ StoreTypeOK' /\ DurableStep
      BY <2>1, UnchangedStore
    <2>3. QED
      BY <2>1, <2>2 DEF Effect, storeVars
  <1>3. QED
    BY <1>1, <1>2

(* Nothing a status change does can disturb what is known of results and of *)
(* requests not created yet.                                                *)
LEMMA EffectKeepsReportsAndFresh ==
    ASSUME IInv, NEW r \in Requests, Effect(r),
           UNCHANGED <<job, outbox, wire>>,
           \A q \in Requests : buildPc'[q] = "idle" => buildPc[q] = "idle"
    PROVE  ReportsInv' /\ FreshInv'
  <1>1. ReportsInv'
    BY DEF IInv, ReportsInv, Effect
  <1>2. FreshInv'
    BY DEF IInv, FreshInv, Effect
  <1>3. QED
    BY <1>1, <1>2

-----------------------------------------------------------------------------
(* Every action preserves the invariant and moves the file's records        *)
(* forward.                                                                 *)

(* The empty index satisfies the invariant. *)
LEMMA InitEstablishes == Init => IInv
  <1> SUFFICES ASSUME Init PROVE IInv
    OBVIOUS
  <1>1. \A r \in Requests : rec[r] \in Record /\ Shape(rec[r]) /\ ~HasJob(rec[r].status)
    BY MaxAttemptsAssumption DEF Init, Absent, Record, Statuses, Shape, HasJob
  <1>2. rec \in [Requests -> Record]
    BY <1>1 DEF Init
  <1>3. TypeOK
    BY <1>2, LegacyAssumption, MaxAttemptsAssumption, BoundsAssumption DEF Init, TypeOK
  <1>4. ReportsInv /\ SnapshotInv
    BY DEF Init, ReportsInv, SnapshotInv
  <1>5. FreshInv
    BY LegacyAssumption DEF Init, FreshInv, Absent
  <1>6. ShapeInv(rec) /\ ShapeInv(diskRec) /\ AcknowledgedWorkExists
    BY <1>1 DEF Init, ShapeInv, AcknowledgedWorkExists
  <1>7. AheadInv
    BY <1>1, ForwardReflexive DEF Init, AheadInv
  <1>8. RecordAndStatusAgree
    BY DEF Init, RecordAndStatusAgree, Agree, AgreeAt, Outcome, Absent
  <1>9. QED
    BY <1>3, <1>4, <1>5, <1>6, <1>7, <1>8 DEF IInv

(* The build path: create the record, enqueue, record the answer. *)
LEMMA BuildPathPreserves ==
    ASSUME IInv, NEW r \in Requests, BuildPath(r)
    PROVE  IInv' /\ DurableStep
  <1>0. StoreInv /\ TypeOK
    BY DEF IInv, StoreInv
  <1>1. CASE CreateValidationRequest(r)
    <2> DEFINE new == [status |-> "EnqueuePending", attempts |-> 0]
    <2>1. rec[r].status = "Absent" /\ job[r] = "none" /\ rec[r].attempts = 0
      BY <1>1 DEF CreateValidationRequest, IInv, FreshInv, ShapeInv, Shape
    <2>2. new \in Record /\ Shape(new) /\ ~HasJob(new.status)
      BY MaxAttemptsAssumption DEF Record, Statuses, Shape, HasJob
    <2>3. Forward(rec[r], new)
      BY <2>1 DEF Forward, Stage, Terminal
    <2>4. \A m \in checks : m.req # r
      BY <2>1 DEF IInv, ReportsInv
    <2>5. AgreeAt(r, new.status, checks)
      BY <2>4 DEF AgreeAt, Verdict, Progress, Outcome
    <2>6. GoodUpdate([rec EXCEPT ![r] = new], checks)
      BY <1>0, <2>2, <2>3, <2>5, OneRecordUpdate
    <2>7. StoreInv' /\ StoreTypeOK' /\ DurableStep
      BY <1>0, <1>1, <2>6, SaveKeepsStore DEF CreateValidationRequest, CreateValidationRequestRecord, sentinelVars
    <2>8. /\ rec' = [rec EXCEPT ![r] = new] /\ checks' = checks
          /\ diskChecks' \in {checks, diskChecks} /\ diskRec' \in {diskRec, rec'}
      BY <1>1 DEF CreateValidationRequest, CreateValidationRequestRecord, save, SaveSucceeds, SaveFails
    <2>9. TypeOK'
      BY <1>0, <1>1, <2>7 DEF CreateValidationRequest, TypeOK, StoreTypeOK, retrierVars,
         clockVars, sentinelVars
    <2>10. ReportsInv'
      BY <1>1, <2>8 DEF IInv, ReportsInv, CreateValidationRequest, sentinelVars
    <2>11. FreshInv'
      BY <1>0, <1>1, <2>8 DEF IInv, FreshInv, TypeOK, CreateValidationRequest, sentinelVars
    <2>12. SnapshotInv'
      BY <1>0, <1>1, <2>1, <2>8 DEF IInv, SnapshotInv, Remembers, TypeOK,
         CreateValidationRequest, retrierVars
    <2>13. QED
      BY <2>7, <2>9, <2>10, <2>11, <2>12 DEF IInv, StoreInv
  <1>2. CASE BuildReturns(r)
    <2> USE <1>2 DEF BuildReturns, BuildEnqueued, BuildEnqueueFailed
    <2>1. /\ UNCHANGED <<crashes, retrierVars, clockVars, wire, sentinelVars, acked>>
          /\ buildPc' = [buildPc EXCEPT ![r] = "done"]
      OBVIOUS
    <2>2. PICK to \in {"Queued", "Unavailable"}, n \in 0..MaxAttempts :
             /\ TransitionValidationRequest(r, to, n)
             /\ to = "Queued" => job[r] # "none" /\ n = rec[r].attempts
             /\ to = "Unavailable" => n = 1
      <3>1. rec[r].attempts \in 0..MaxAttempts /\ 1 \in 0..MaxAttempts
        BY <1>0, MaxAttemptsAssumption DEF TypeOK, Record
      <3>2. QED
        BY <3>1
    <2>3. to \in validValidationTransitions(rec[r].status) => rec[r].attempts <= n
      BY <1>0, <2>2, MaxAttemptsAssumption DEF validValidationTransitions, TypeOK,
         Record, IInv, ShapeInv, Shape
    <2>4. /\ Effect(r)
          /\ \/ rec'[r] = rec[r]
             \/ /\ to \in validValidationTransitions(rec[r].status)
                /\ rec'[r] = [status |-> to, attempts |-> n]
      BY <1>0, <2>1, <2>2, <2>3, TransitionEffect DEF sentinelVars
    <2>5. TypeOK'
      BY <1>0, <2>1, <2>4 DEF Effect, TypeOK, StoreTypeOK, retrierVars, clockVars, sentinelVars
    <2>6. ReportsInv' /\ FreshInv'
      BY <1>0, <2>1, <2>4, EffectKeepsReportsAndFresh DEF TypeOK, sentinelVars
    <2>7. rec[r].status \notin {"Absent", "EnqueuePending"} =>
            /\ rec'[r].status \notin {"Absent", "EnqueuePending"}
            /\ rec'[r].status = "Unavailable" => rec'[r] = rec[r]
      BY <2>2, <2>4 DEF validValidationTransitions
    <2>8. SnapshotInv'
      BY <1>0, <2>1, <2>4, <2>7 DEF IInv, SnapshotInv, Remembers, TypeOK, Effect, retrierVars
    <2>9. QED
      BY <2>4, <2>5, <2>6, <2>8 DEF IInv, Effect, StoreInv
  <1>3. QED
    BY <1>1, <1>2 DEF BuildPath, BuildReturns

(* Steps of the retry loop that leave the store alone. *)
LEMMA RetrierScanPreserves ==
    ASSUME IInv,
           \/ RetryDue \/ recoverStrandedPending \/ PassEnds
           \/ \E r \in Requests : retryOne(r)
    PROVE  IInv' /\ DurableStep
  <1>0. StoreInv /\ TypeOK
    BY DEF IInv, StoreInv
  <1>1. UNCHANGED <<storeVars, crashes, buildPc, clockVars, sentinelVars, acked>>
    BY DEF RetryDue, recoverStrandedPending, PassEnds, retryOne
  <1>2. StoreInv' /\ StoreTypeOK' /\ DurableStep
    BY <1>0, <1>1, UnchangedStore DEF sentinelVars
  <1>3. \A r \in Requests : rec[r].attempts \in 0..MaxAttempts
    BY <1>0 DEF TypeOK, Record
  <1>4. TypeOK'
    BY <1>0, <1>1, <1>2, <1>3, MaxAttemptsAssumption DEF TypeOK, StoreTypeOK, RetryDue,
       recoverStrandedPending, PassEnds, retryOne, clockVars, sentinelVars
  <1>5. ReportsInv'
    BY <1>1 DEF IInv, ReportsInv, storeVars, sentinelVars
  <1>6. FreshInv'
    <2>1. \A q \in Requests : q \in wire' => q \in wire \/ rec[q].status # "Absent"
      BY DEF RetryDue, recoverStrandedPending, PassEnds, retryOne, IInv, SnapshotInv, Remembers
    <2>2. QED
      BY <1>1, <2>1 DEF IInv, FreshInv, storeVars, sentinelVars
  <1>7. SnapshotInv'
    BY <1>0, <1>1 DEF IInv, SnapshotInv, Remembers, RetryDue, Due, recoverStrandedPending,
       PassEnds, retryOne, storeVars, TypeOK
  <1>8. QED
    BY <1>2, <1>4, <1>5, <1>6, <1>7 DEF IInv, StoreInv

(* Steps of the retry loop that record an outcome. *)
LEMMA RetrierWritePreserves ==
    ASSUME IInv,
           \/ onRetrySuccess \/ onRetryFailure
           \/ \E r \in Requests : escalate(r) \/ recoverPending(r)
    PROVE  IInv' /\ DurableStep
  <1>0. StoreInv /\ TypeOK
    BY DEF IInv, StoreInv
  <1>1. /\ UNCHANGED <<crashes, buildPc, seen, old, current, aged, wire, sentinelVars, acked>>
        /\ backoff' \in SUBSET Requests
        /\ todo' \subseteq todo
        /\ retrierPc' \in {"unavailable", "pending"}
        /\ retrierPc' = "pending" => retrierPc = "pending"
    BY <1>0 DEF onRetrySuccess, onRetryFailure, escalate, recoverPending, clockVars, TypeOK
  <1>2. PICK r \in Requests :
          /\ Effect(r)
          /\ retrierPc' = "unavailable" =>
               /\ retrierPc \in {"unavailable", "rpc"}
               /\ r \notin todo'
    <2>1. CASE onRetrySuccess
      <3> USE <2>1 DEF onRetrySuccess
      <3>1. current \in Requests /\ seen[current] + 1 \in 0..MaxAttempts
        BY <1>0, MaxAttemptsAssumption DEF TypeOK, IInv, SnapshotInv
      <3>2. "Queued" \in validValidationTransitions(rec[current].status) =>
               rec[current].attempts <= seen[current] + 1
        BY <1>0, MaxAttemptsAssumption DEF validValidationTransitions, IInv, SnapshotInv,
           Remembers, TypeOK, Record
      <3>3. Effect(current)
        BY <1>0, <1>1, <3>1, <3>2, TransitionEffect DEF sentinelVars
      <3>4. QED
        BY <3>1, <3>3 DEF IInv, SnapshotInv
    <2>2. CASE onRetryFailure
      <3> USE <2>2 DEF onRetryFailure
      <3>1. current \in Requests /\ seen[current] + 1 \in 0..MaxAttempts
        BY <1>0, MaxAttemptsAssumption DEF TypeOK, IInv, SnapshotInv
      <3>2. rec[current].status = "Unavailable" => rec[current].attempts <= seen[current] + 1
        BY <1>0, MaxAttemptsAssumption DEF IInv, SnapshotInv, Remembers, TypeOK, Record
      <3>3. Effect(current)
        BY <1>0, <1>1, <3>1, <3>2, RetryStateEffect DEF sentinelVars
      <3>4. QED
        BY <3>1, <3>3 DEF IInv, SnapshotInv
    <2>3. CASE \E r \in Requests : escalate(r)
      <3> PICK r \in Requests : escalate(r)
        BY <2>3
      <3>1. rec[r].attempts \in 0..MaxAttempts /\ seen[r] \in 0..MaxAttempts
        BY <1>0 DEF TypeOK, Record
      <3>2. "EnqueueAbandoned" \in validValidationTransitions(rec[r].status) =>
               rec[r].attempts = MaxAttempts
        BY <3>1, MaxAttemptsAssumption DEF escalate, validValidationTransitions, IInv,
           SnapshotInv, Remembers
      <3>3. rec[r].attempts <= rec[r].attempts /\ UNCHANGED job
        BY <1>1, <3>1, MaxAttemptsAssumption DEF sentinelVars
      <3>4. TransitionValidationRequest(r, "EnqueueAbandoned", rec[r].attempts)
        BY DEF escalate
      <3>5. Effect(r)
        BY <1>0, <3>1, <3>2, <3>3, <3>4, TransitionEffect
      <3>6. QED
        BY <3>5 DEF escalate
    <2>4. CASE \E r \in Requests : recoverPending(r)
      <3> PICK r \in Requests : recoverPending(r)
        BY <2>4
      <3>1. rec[r].attempts \in 0..MaxAttempts
        BY <1>0 DEF TypeOK, Record
      <3>2. rec[r].attempts <= rec[r].attempts /\ UNCHANGED job
        BY <1>1, <3>1, MaxAttemptsAssumption DEF sentinelVars
      <3>3. TransitionValidationRequest(r, "Unavailable", rec[r].attempts)
        BY DEF recoverPending
      <3>4. Effect(r)
        BY <1>0, <3>1, <3>2, <3>3, TransitionEffect
      <3>5. QED
        BY <3>4 DEF recoverPending
    <2>5. QED
      BY <2>1, <2>2, <2>3, <2>4
  <1>3. TypeOK'
    BY <1>0, <1>1, <1>2 DEF Effect, TypeOK, StoreTypeOK, sentinelVars
  <1>4. ReportsInv' /\ FreshInv'
    BY <1>1, <1>2, EffectKeepsReportsAndFresh DEF sentinelVars
  <1>5. SnapshotInv'
    BY <1>0, <1>1, <1>2 DEF IInv, SnapshotInv, Remembers, Effect, TypeOK
  <1>6. QED
    BY <1>2, <1>3, <1>4, <1>5 DEF Effect, IInv, StoreInv

(* Storing a result: the record, the promotion and the close-out. *)
LEMMA IntakePreserves ==
    ASSUME IInv, NEW m \in Results, Intake(m)
    PROVE  IInv' /\ DurableStep
  <1>0. StoreInv /\ TypeOK
    BY DEF IInv, StoreInv
  <1>1. m \in outbox /\ job[m.req] = "done" /\ m.req \in Requests
    BY DEF Intake, AppendCheckRecordCorrelated, AppendCheckRecordSaveFails,
       DuplicateCheckRecord, IInv, ReportsInv, Results
  <1>2. /\ UNCHANGED <<crashes, buildPc, retrierVars, clockVars, wire, job>>
        /\ outbox' \subseteq outbox /\ acked' \in SUBSET Results
    BY <1>0 DEF Intake, AppendCheckRecordCorrelated, AppendCheckRecordSaveFails,
       DuplicateCheckRecord, sentinelVars, TypeOK
  <1>3. CASE DuplicateCheckRecord(m)
    <2>1. UNCHANGED storeVars
      BY <1>3 DEF DuplicateCheckRecord
    <2>2. StoreInv' /\ StoreTypeOK' /\ DurableStep
      BY <1>0, <1>2, <2>1, UnchangedStore
    <2>3. TypeOK'
      BY <1>0, <1>2, <2>2 DEF TypeOK, StoreTypeOK, retrierVars, clockVars
    <2>4. ReportsInv' /\ FreshInv' /\ SnapshotInv'
      BY <1>2, <2>1 DEF IInv, ReportsInv, FreshInv, SnapshotInv, Remembers, storeVars, retrierVars
    <2>5. QED
      BY <2>2, <2>3, <2>4 DEF IInv, StoreInv
  <1>4. CASE AppendCheckRecordCorrelated(m) \/ AppendCheckRecordSaveFails(m)
    <2> DEFINE q == m.req
               s == rec[q].status
               t == applyValidationCorrelation(m, s)
               new == [status |-> t, attempts |-> rec[q].attempts]
    <2>1. save(CorrelatedRec(m), checks \cup {m}) /\ m \notin checks
      BY <1>4 DEF AppendCheckRecordCorrelated, AppendCheckRecordSaveFails, save
    <2>2. rec[q] \in Record /\ Shape(rec[q]) /\ AgreeAt(q, s, checks)
      BY <1>0, <1>1 DEF TypeOK, StoreInv, ShapeInv, RecordAndStatusAgree, Agree
    <2>3. s # "Interrupted" /\ s \in Statuses \cup {"Absent"}
      BY <2>2 DEF Shape, Record
    <2>4. /\ s \in {"Absent", "EnqueueAbandoned", "Succeeded", "Failed"} => t = s
          /\ s \in {"EnqueuePending", "Unavailable", "Queued", "Running"} =>
               t = IF m.terminal THEN Outcome(m.succeeded) ELSE "Running"
      BY <1>1 DEF applyValidationCorrelation, validValidationTransitions, Outcome
    <2>5. new \in Record /\ Shape(new)
      BY <2>2, <2>3, <2>4 DEF Record, Shape, Statuses, Terminal, Outcome
    <2>6. Forward(rec[q], new)
      BY <2>2, <2>3, <2>4, ForwardReflexive, MaxAttemptsAssumption
         DEF Forward, Stage, Terminal, Statuses, Outcome, Record
    <2>7. AgreeAt(q, t, checks \cup {m})
      <3>1. m.terminal => m = Verdict(q, m.succeeded)
        BY DEF Results, Verdict
      <3>2. ~m.terminal => m = Progress(q)
        BY <1>1 DEF Results, Progress, IInv, ReportsInv
      <3>3. \A ok \in BOOLEAN : Verdict(q, ok) \in checks =>
              ~m.terminal
        BY <1>1, <2>1, <3>1 DEF IInv, ReportsInv, Verdict
      <3>4. \A ok \in BOOLEAN : Verdict(q, ok) # Progress(q)
        BY DEF Verdict, Progress
      <3>5. \A a, b \in BOOLEAN : Verdict(q, a) = Verdict(q, b) => a = b
        BY DEF Verdict
      <3>6. m.succeeded \in BOOLEAN
        BY DEF Results
      <3>7. \A ok \in BOOLEAN : Outcome(ok) \in {"Succeeded", "Failed"}
        BY DEF Outcome
      <3>8. \A a, b \in BOOLEAN : Outcome(a) = Outcome(b) => a = b
        BY DEF Outcome
      <3>9. CASE m.terminal
        BY <2>2, <2>3, <2>4, <3>1, <3>3, <3>4, <3>5, <3>6, <3>7, <3>8, <3>9
           DEF AgreeAt, Statuses, Terminal
      <3>10. CASE ~m.terminal
        BY <2>2, <2>3, <2>4, <3>2, <3>4, <3>6, <3>7, <3>10
           DEF AgreeAt, Statuses, Terminal
      <3>11. QED
        BY <3>9, <3>10
    <2>8. GoodUpdate(CorrelatedRec(m), checks \cup {m})
      <3>1. CorrelatedRec(m) = [rec EXCEPT ![q] = new]
        BY DEF CorrelatedRec
      <3>2. \A p \in Requests : CorrelatedRec(m)[p] = IF p = q THEN new ELSE rec[p]
        BY <1>0, <1>1, <3>1 DEF TypeOK
      <3>3. CorrelatedRec(m) \in [Requests -> Record] /\ checks \cup {m} \in SUBSET Results
        BY <1>0, <2>5, <3>1 DEF TypeOK
      <3>4. \A p \in Requests : p # q => AgreeAt(p, rec[p].status, checks \cup {m})
        <4>1. \A p \in Requests : p # q =>
                 m # Progress(p) /\ \A ok \in BOOLEAN : m # Verdict(p, ok)
          BY DEF Progress, Verdict
        <4>2. \A p \in Requests : AgreeAt(p, rec[p].status, checks)
          BY <1>0 DEF StoreInv, RecordAndStatusAgree, Agree
        <4>3. QED
          BY <4>1, <4>2 DEF AgreeAt
      <3>5. Agree(CorrelatedRec(m), checks \cup {m})
        <4>1. \A p \in Requests :
                CorrelatedRec(m)[p].status = IF p = q THEN t ELSE rec[p].status
          BY <3>2
        <4>2. SUFFICES ASSUME NEW p \in Requests
                       PROVE  AgreeAt(p, CorrelatedRec(m)[p].status, checks \cup {m})
          BY DEF Agree
        <4>3. CASE p = q
          BY <2>7, <4>1, <4>3
        <4>4. CASE p # q
          BY <3>4, <4>1, <4>4
        <4>5. QED
          BY <4>3, <4>4
      <3>6. ShapeInv(CorrelatedRec(m))
        BY <1>0, <2>5, <3>2 DEF StoreInv, ShapeInv
      <3>7. \A p \in Requests : Forward(rec[p], CorrelatedRec(m)[p])
        BY <1>0, <2>6, <3>2, ForwardReflexive DEF TypeOK
      <3>8. \A p \in Requests : HasJob(CorrelatedRec(m)[p].status) => job[p] # "none"
        BY <1>0, <1>1, <3>2 DEF StoreInv, AcknowledgedWorkExists
      <3>9. QED
        BY <3>3, <3>5, <3>6, <3>7, <3>8 DEF GoodUpdate
    <2>9. StoreInv' /\ StoreTypeOK' /\ DurableStep
      BY <1>0, <1>2, <2>1, <2>8, SaveKeepsStore
    <2>10. /\ rec' = [rec EXCEPT ![q] = new] /\ checks' = checks \cup {m}
           /\ diskChecks' \in {checks', diskChecks} /\ diskRec' \in {diskRec, rec'}
      BY <2>1 DEF save, SaveSucceeds, SaveFails, CorrelatedRec
    <2>11. TypeOK'
      BY <1>0, <1>2, <2>9 DEF TypeOK, StoreTypeOK, retrierVars, clockVars
    <2>12. ReportsInv'
      BY <1>1, <1>2, <2>10 DEF IInv, ReportsInv
    <2>13. FreshInv'
      BY <1>0, <1>1, <1>2, <2>10 DEF IInv, FreshInv, TypeOK
    <2>14. t # "Absent" => s # "Absent"
      BY <2>4
    <2>15. s \notin {"Absent", "EnqueuePending"} =>
             t \notin {"Absent", "EnqueuePending"} /\ t # "Unavailable"
      BY <2>3, <2>4 DEF Statuses, Terminal, Outcome
    <2>16. SnapshotInv'
      BY <1>0, <1>1, <1>2, <2>10, <2>15 DEF IInv, SnapshotInv, Remembers, TypeOK, retrierVars
    <2>17. QED
      BY <2>9, <2>11, <2>12, <2>13, <2>16 DEF IInv, StoreInv
  <1>5. QED
    BY <1>3, <1>4 DEF Intake

(* NodeSentinel, the network and the clocks. *)
LEMMA EnvironmentPreserves ==
    ASSUME IInv, NEW r \in Requests, Environment(r)
    PROVE  IInv' /\ DurableStep
  <1> USE DEF Environment, SentinelAccepts, EnqueueLost, SentinelRuns, PendingAges, BackoffElapses
  <1>0. StoreInv /\ TypeOK
    BY DEF IInv, StoreInv
  <1>1. UNCHANGED <<storeVars, crashes, buildPc, retrierVars, acked>>
    OBVIOUS
  <1>2. \A q \in Requests : /\ job[q] # "none" => job'[q] # "none"
                            /\ job[q] = "done" => job'[q] = "done"
    BY <1>0 DEF TypeOK, sentinelVars
  <1>3. StoreInv' /\ StoreTypeOK' /\ DurableStep
    BY <1>0, <1>1, <1>2, UnchangedStore
  <1>4. TypeOK'
    <2>1. Progress(r) \in Results /\ \A ok \in BOOLEAN : Verdict(r, ok) \in Results
      BY DEF Progress, Verdict, Results
    <2>2. outbox' \in SUBSET Results
      BY <1>0, <2>1 DEF TypeOK, sentinelVars
    <2>3. job' \in [Requests -> {"none", "queued", "done"}]
      BY <1>0 DEF TypeOK, sentinelVars
    <2>4. aged' \in SUBSET Requests /\ backoff' \in SUBSET Requests /\ wire' \in SUBSET Requests
      BY <1>0 DEF TypeOK, clockVars
    <2>5. QED
      BY <1>0, <1>1, <1>3, <2>2, <2>3, <2>4 DEF TypeOK, StoreTypeOK, retrierVars
  <1>5. FreshInv'
    BY <1>0, <1>1 DEF IInv, FreshInv, TypeOK, storeVars, sentinelVars
  <1>6. SnapshotInv'
    BY <1>1 DEF IInv, SnapshotInv, Remembers, storeVars, retrierVars
  <1>7. ReportsInv'
    <2>1. CASE SentinelRuns(r)
      <3>1. PICK ok \in BOOLEAN : outbox' = outbox \cup {Progress(r), Verdict(r, ok)}
        BY <2>1
      <3>2. \A m \in outbox \cup checks \cup diskChecks : m.req # r
        BY <2>1 DEF IInv, ReportsInv
      <3>3. job'[r] = "done" /\ \A q \in Requests : q # r => job'[q] = job[q]
        BY <1>0, <2>1 DEF TypeOK
      <3>4. outbox \cup checks \cup diskChecks \subseteq Results
        BY <1>0 DEF TypeOK
      <3>5. /\ Progress(r).req = r /\ ~Progress(r).terminal /\ Progress(r).succeeded
            /\ Verdict(r, ok).req = r /\ Verdict(r, ok).terminal
        BY DEF Progress, Verdict
      <3>6. checks' = checks /\ diskChecks' = diskChecks
        BY <1>1 DEF storeVars
      <3>7. \A m \in (outbox \cup checks \cup diskChecks)' :
              m \in outbox \cup checks \cup diskChecks \/ m = Progress(r) \/ m = Verdict(r, ok)
        BY <3>1, <3>6
      <3>8. \A m \in outbox \cup checks \cup diskChecks : m.req \in Requests
        BY <3>4 DEF Results
      <3>9. QED
        BY <1>2, <3>2, <3>3, <3>5, <3>7, <3>8 DEF IInv, ReportsInv
    <2>2. CASE ~SentinelRuns(r)
      <3>1. outbox' = outbox
        BY <2>2 DEF sentinelVars
      <3>2. \A m \in outbox \cup checks \cup diskChecks : m.req \in Requests
        BY <1>0 DEF TypeOK, Results
      <3>3. QED
        BY <1>1, <1>2, <3>1, <3>2 DEF IInv, ReportsInv, storeVars
    <2>3. QED
      BY <2>1, <2>2
  <1>8. QED
    BY <1>3, <1>4, <1>5, <1>6, <1>7 DEF IInv, StoreInv

(* A restart reads the file back and forgets every attempt under way. *)
LEMMA CrashPreserves ==
    ASSUME IInv, CrashRestart
    PROVE  IInv' /\ DurableStep
  <1> USE DEF CrashRestart
  <1>0. StoreInv /\ TypeOK
    BY DEF IInv, StoreInv
  <1>1. DurableStep /\ AheadInv'
    BY <1>0, ForwardReflexive DEF DurableStep, AheadInv, TypeOK
  <1>2. TypeOK'
    BY <1>0, MaxAttemptsAssumption, BoundsAssumption DEF TypeOK, clockVars, sentinelVars
  <1>3. ReportsInv'
    BY DEF IInv, ReportsInv, sentinelVars
  <1>4. FreshInv'
    BY DEF IInv, FreshInv, sentinelVars
  <1>5. ShapeInv(rec)' /\ ShapeInv(diskRec)'
    BY <1>0 DEF StoreInv, ShapeInv
  <1>6. SnapshotInv'
    BY DEF SnapshotInv
  <1>7. AcknowledgedWorkExists'
    BY <1>0 DEF StoreInv, AcknowledgedWorkExists, sentinelVars
  <1>8. RecordAndStatusAgree'
    BY <1>0 DEF StoreInv, RecordAndStatusAgree, Agree
  <1>9. QED
    BY <1>1, <1>2, <1>3, <1>4, <1>5, <1>6, <1>7, <1>8 DEF IInv

(* A step that changes nothing preserves everything. *)
LEMMA StutterPreserves ==
    ASSUME IInv, UNCHANGED vars
    PROVE  IInv' /\ DurableStep
  <1> USE DEF vars, storeVars, retrierVars, clockVars, sentinelVars
  <1>0. StoreInv /\ TypeOK
    BY DEF IInv, StoreInv
  <1>1. StoreInv' /\ DurableStep
    BY <1>0, UnchangedStore
  <1>2. TypeOK'
    BY <1>0 DEF TypeOK
  <1>3. ReportsInv' /\ FreshInv' /\ SnapshotInv'
    BY DEF IInv, ReportsInv, FreshInv, SnapshotInv, Remembers
  <1>4. QED
    BY <1>1, <1>2, <1>3 DEF IInv, StoreInv

(* Every step preserves the invariant: one case per group of actions. *)
LEMMA NextPreserves == IInv /\ [Next]_vars => IInv' /\ DurableStep
  <1> SUFFICES ASSUME IInv, [Next]_vars PROVE IInv' /\ DurableStep
    OBVIOUS
  <1>1. CASE \E r \in Requests : BuildPath(r) \/ Environment(r)
    BY <1>1, BuildPathPreserves, EnvironmentPreserves
  <1>2. CASE Retrier
    BY <1>2, RetrierScanPreserves, RetrierWritePreserves DEF Retrier
  <1>3. CASE \E m \in Results : Intake(m)
    BY <1>3, IntakePreserves
  <1>4. CASE CrashRestart
    BY <1>4, CrashPreserves
  <1>5. CASE UNCHANGED vars
    BY <1>5, StutterPreserves
  <1>6. QED
    BY <1>1, <1>2, <1>3, <1>4, <1>5 DEF Next

-----------------------------------------------------------------------------
(* The theorems *)

(* The inductive invariant holds of every reachable state. *)
THEOREM Invariance == Spec => []IInv
  <1>1. QED
    BY InitEstablishes, NextPreserves, PTL DEF Spec

(* Types: in particular the attempt count never exceeds the budget. *)
THEOREM TypeCorrect == Spec => []TypeOK
  <1>1. IInv => TypeOK
    BY DEF IInv
  <1>2. QED
    BY <1>1, Invariance, PTL

(* A request shown as Queued or beyond has a job at NodeSentinel. *)
THEOREM AcknowledgedWork == Spec => []AcknowledgedWorkExists
  <1>1. IInv => AcknowledgedWorkExists
    BY DEF IInv
  <1>2. QED
    BY <1>1, Invariance, PTL

(* Stored results and request statuses never diverge, in memory or on disk. *)
THEOREM CorrelationAtomic == Spec => []RecordAndStatusAgree
  <1>1. IInv => RecordAndStatusAgree
    BY DEF IInv
  <1>2. QED
    BY <1>1, Invariance, PTL

(* The retry loop gives up only on a spent budget. *)
THEOREM AbandonedBudget == Spec => []AbandonedOnlyAfterBudget
  <1>1. IInv => AbandonedOnlyAfterBudget
    BY DEF IInv, AbandonedOnlyAfterBudget, ShapeInv, Shape
  <1>2. QED
    BY <1>1, Invariance, PTL

(* The status in the index file only moves forward. *)
THEOREM DurableForward == Spec => DurableStatusMovesForward
  <1>1. IInv /\ [Next]_vars => [\A r \in Requests : Forward(diskRec[r], diskRec'[r])]_vars
    BY NextPreserves DEF DurableStep
  <1>2. QED
    BY <1>1, Invariance, PTL DEF Spec, DurableStatusMovesForward

-----------------------------------------------------------------------------
(* Records that predate the replay fields.  Nothing about them ever changes *)
(* because none of them is in a pass's work list, on the wire, at           *)
(* NodeSentinel or in its outbox.                                           *)

Untouched(x) == x.status \in {"EnqueuePending", "Unavailable"} /\ x.attempts = 0

LegacyInv ==
    \A r \in Legacy :
        /\ Untouched(rec[r]) /\ Untouched(diskRec[r])
        /\ buildPc[r] = "done"
        /\ r \notin todo
        /\ retrierPc = "rpc" => current # r
        /\ r \notin wire
        /\ job[r] = "none"
        /\ \A m \in outbox : m.req # r

LegacyStore ==
    \A r \in Legacy : rec'[r] = rec[r] /\ diskRec'[r] \in {rec[r], diskRec[r]}

(* A save that replaces the record of another request. *)
LEMMA SaveSparesLegacy ==
    ASSUME TypeOK, NEW q \in Requests \ Legacy, NEW x, NEW c,
           save([rec EXCEPT ![q] = x], c)
    PROVE  LegacyStore
  BY LegacyAssumption DEF save, SaveSucceeds, SaveFails, LegacyStore, TypeOK

LEMMA TransitionSparesLegacy ==
    ASSUME TypeOK, NEW q \in Requests \ Legacy, NEW to, NEW n,
           \/ TransitionValidationRequest(q, to, n)
           \/ UpdateValidationRequestRetryState(q, n)
    PROVE  LegacyStore
  <1>1. CASE UNCHANGED storeVars
    BY <1>1 DEF storeVars, LegacyStore
  <1>2. QED
    BY <1>1, SaveSparesLegacy DEF TransitionValidationRequest, UpdateValidationRequestRetryState

LEMMA LegacyPreserved == TypeOK /\ LegacyInv /\ [Next]_vars => LegacyInv'
  <1> SUFFICES ASSUME TypeOK, LegacyInv, [Next]_vars PROVE LegacyInv'
    OBVIOUS
  <1> USE DEF storeVars, retrierVars, clockVars, sentinelVars
  <1>1. ASSUME NEW r \in Requests, BuildPath(r) PROVE LegacyInv'
    <2>1. r \notin Legacy
      BY <1>1 DEF BuildPath, CreateValidationRequest, BuildEnqueued, BuildEnqueueFailed, LegacyInv
    <2>2. LegacyStore
      BY <1>1, <2>1, SaveSparesLegacy, TransitionSparesLegacy
      DEF BuildPath, CreateValidationRequest, CreateValidationRequestRecord, BuildEnqueued,
          BuildEnqueueFailed
    <2>3. /\ \A q \in Legacy : buildPc'[q] = buildPc[q]
          /\ wire' \subseteq wire \cup {r}
          /\ UNCHANGED <<retrierVars, sentinelVars>>
      BY <1>1, <2>1, LegacyAssumption
      DEF BuildPath, CreateValidationRequest, BuildEnqueued, BuildEnqueueFailed, TypeOK
    <2>4. QED
      BY <2>1, <2>2, <2>3 DEF LegacyInv, LegacyStore
  <1>2. ASSUME NEW r \in Requests, Environment(r) PROVE LegacyInv'
    <2>1. /\ UNCHANGED <<storeVars, buildPc, retrierVars>>
          /\ wire' \subseteq wire
      BY <1>2 DEF Environment, SentinelAccepts, EnqueueLost, SentinelRuns, PendingAges,
                  BackoffElapses
    <2>2. \A q \in Legacy : job'[q] = "none" /\ \A m \in outbox' : m.req # q
      BY <1>2, LegacyAssumption DEF Environment, SentinelAccepts, EnqueueLost, SentinelRuns,
         PendingAges, BackoffElapses, LegacyInv, TypeOK, Progress, Verdict
    <2>3. QED
      BY <2>1, <2>2 DEF LegacyInv
  <1>3. CASE Retrier
    <2>1. UNCHANGED <<buildPc, sentinelVars>>
      BY <1>3 DEF Retrier, RetryDue, escalate, retryOne, recoverPending, onRetrySuccess,
         onRetryFailure, recoverStrandedPending, PassEnds
    <2>2. CASE RetryDue \/ recoverStrandedPending \/ PassEnds
      <3>1. \A r \in Legacy : ~Due(r)
        BY LegacyAssumption, MaxAttemptsAssumption DEF Due, LegacyInv, Untouched
      <3>2. UNCHANGED <<storeVars, wire>> /\ todo' \cap Legacy = {} /\ retrierPc' # "rpc"
        BY <2>2, <3>1 DEF RetryDue, recoverStrandedPending, PassEnds, LegacyInv
      <3>3. QED
        BY <2>1, <3>2 DEF LegacyInv
    <2>3. ASSUME NEW r \in Requests, escalate(r) \/ retryOne(r) \/ recoverPending(r)
          PROVE  LegacyInv'
      <3>1. r \notin Legacy
        BY <2>3 DEF escalate, retryOne, recoverPending, LegacyInv
      <3>2. LegacyStore
        BY <2>3, <3>1, TransitionSparesLegacy
        DEF escalate, retryOne, recoverPending, LegacyStore
      <3>3. /\ todo' \subseteq todo /\ wire' \subseteq wire \cup {r}
            /\ retrierPc' = "rpc" => current' = r
        BY <2>3 DEF escalate, retryOne, recoverPending
      <3>4. QED
        BY <2>1, <3>1, <3>2, <3>3 DEF LegacyInv, LegacyStore
    <2>4. CASE onRetrySuccess \/ onRetryFailure
      <3>1. current \in Requests \ Legacy
        BY <2>4 DEF onRetrySuccess, onRetryFailure, LegacyInv, TypeOK
      <3>2. LegacyStore
        BY <2>4, <3>1, TransitionSparesLegacy DEF onRetrySuccess, onRetryFailure
      <3>3. UNCHANGED <<todo, wire>> /\ retrierPc' # "rpc"
        BY <2>4 DEF onRetrySuccess, onRetryFailure
      <3>4. QED
        BY <2>1, <3>2, <3>3 DEF LegacyInv, LegacyStore
    <2>5. QED
      BY <1>3, <2>2, <2>3, <2>4 DEF Retrier
  <1>4. ASSUME NEW m \in Results, Intake(m) PROVE LegacyInv'
    <2>1. m \in outbox /\ m.req \in Requests \ Legacy
      BY <1>4 DEF Intake, AppendCheckRecordCorrelated, AppendCheckRecordSaveFails,
         DuplicateCheckRecord, LegacyInv, Results
    <2>2. LegacyStore
      BY <1>4, <2>1, SaveSparesLegacy
      DEF Intake, AppendCheckRecordCorrelated, AppendCheckRecordSaveFails,
          DuplicateCheckRecord, CorrelatedRec, save, LegacyStore
    <2>3. UNCHANGED <<buildPc, retrierVars, wire, job>> /\ outbox' \subseteq outbox
      BY <1>4 DEF Intake, AppendCheckRecordCorrelated, AppendCheckRecordSaveFails,
         DuplicateCheckRecord
    <2>4. QED
      BY <2>2, <2>3 DEF LegacyInv, LegacyStore
  <1>5. CASE CrashRestart
    BY <1>5, LegacyAssumption DEF CrashRestart, LegacyInv
  <1>6. CASE UNCHANGED vars
    BY <1>6 DEF vars, LegacyInv
  <1>7. QED
    BY <1>1, <1>2, <1>3, <1>4, <1>5, <1>6 DEF Next

(* A record stored before the replay fields existed is never sent to        *)
(* NodeSentinel, by either half of a retry pass, and never given up.        *)
THEOREM LegacyUntouched == Spec => []LegacyInert
  <1>1. Init => LegacyInv
    BY LegacyAssumption DEF Init, LegacyInv, Untouched, Absent
  <1>2. LegacyInv => LegacyInert
    BY DEF LegacyInv, LegacyInert, Untouched
  <1>3. QED
    BY <1>1, <1>2, LegacyPreserved, TypeCorrect, PTL DEF Spec
=============================================================================
