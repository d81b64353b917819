--------------------------- MODULE SmokeRunProofs ---------------------------
(***************************************************************************)
(* Proofs about SmokeRun, for any number of concurrent calls and of Job    *)
(* versions.  What a call reports is read off one version of its Job: the  *)
(* inductive invariant keeps the Job's history (it only grows, and a       *)
(* finished Job is never active again), where a call stands in it, and     *)
(* that nothing about the wait changes once it is over.                    *)
(***************************************************************************)
EXTENDS SmokeRun, TLAPS

Before == {"idle", "namespace", "create"}
Over == {"logs", "cleanup", "done"}

(* A call that has created no Job yet has nothing to report. *)
Fresh(c) == pc[c] \in Before => job[c] = <<>> /\ result[c] = "none" /\ ~expired[c]

(* One that waits has created its Job and has not reported either. *)
Waits(c) == pc[c] \in Waiting \cup {"confirm"} => job[c] # <<>> /\ result[c] = "none"

(* A Job that is still unfinished was so at the deadline. *)
Unfinished(c) == expired[c] /\ Current(c) = "active" => outcome[c] = "active"

(* The deadline is asked about only once it has passed. *)
Asks(c) == pc[c] = "confirm" => expired[c]

True(c) ==
    /\ result[c] = "success" => Reached(c, "complete")
    /\ result[c] = "failed"  => Reached(c, "failed")
    /\ result[c] = "deleted" => Reached(c, "deleted")
    /\ result[c] = "timed out" /\ interrupted[c] => outcome[c] = "active"

Clean(c) == pc[c] = "done" /\ ~failed[c] => Current(c) = "deleted"

CInv(c) == Fresh(c) /\ Waits(c) /\ Unfinished(c) /\ Asks(c) /\ True(c) /\ Clean(c)

IInv == TypeOK /\ \A c \in Calls : CInv(c)

(* What the invariant says of a call is left alone. *)
Same(c) ==
    /\ job'[c] = job[c] /\ pc'[c] = pc[c] /\ interrupted'[c] = interrupted[c]
    /\ expired'[c] = expired[c] /\ result'[c] = result[c]
    /\ outcome'[c] = outcome[c] /\ failed'[c] = failed[c]

Others(c) == \A d \in Calls \ {c} : Same(d)

LEMMA SamePreserves ==
    ASSUME NEW c \in Calls, CInv(c), Same(c)
    PROVE  CInv(c)'
  BY DEF Same, CInv, Fresh, Waits, Unfinished, Asks, True, Clean, Reached, Current

-----------------------------------------------------------------------------
(* The history of a Job *)

LEMMA CurrentIsAState ==
    ASSUME TypeOK, NEW c \in Calls
    PROVE  /\ Current(c) \in States
           /\ job[c] # <<>> => Reached(c, Current(c))
  <1>1. job[c] \in Seq(States)
    BY DEF TypeOK
  <1>2. CASE job[c] = <<>>
    BY <1>2 DEF Current, States
  <1>3. CASE job[c] # <<>>
    <2>1. Len(job[c]) \in DOMAIN job[c] /\ job[c][Len(job[c])] \in States
      BY <1>1, <1>3
    <2>2. QED
      BY <1>3, <2>1 DEF Current, Reached
  <1>4. QED
    BY <1>2, <1>3

(* One more version: the earlier ones stay. *)
LEMMA Appended ==
    ASSUME TypeOK, NEW c \in Calls, NEW state \in States,
           job' = [job EXCEPT ![c] = Append(@, state)]
    PROVE  /\ job' \in [Calls -> Seq(States)]
           /\ job'[c] # <<>>
           /\ Current(c)' = state
           /\ \A s \in States : Reached(c, s) => Reached(c, s)'
           /\ \A d \in Calls \ {c} : job'[d] = job[d]
  <1>1. job[c] \in Seq(States) /\ job'[c] = Append(job[c], state)
    BY DEF TypeOK
  <1>2. job' \in [Calls -> Seq(States)] /\ \A d \in Calls \ {c} : job'[d] = job[d]
    BY <1>1 DEF TypeOK
  <1>3. /\ Len(job'[c]) = Len(job[c]) + 1 /\ job'[c][Len(job[c]) + 1] = state
        /\ \A i \in DOMAIN job[c] : i \in DOMAIN job'[c] /\ job'[c][i] = job[c][i]
        /\ job'[c] # <<>>
    BY <1>1
  <1>4. Current(c)' = state
    BY <1>3 DEF Current
  <1>5. \A s \in States : Reached(c, s) => Reached(c, s)'
    BY <1>3 DEF Reached
  <1>6. QED
    BY <1>2, <1>3, <1>4, <1>5

LEMMA OutcomeOf ==
    ASSUME NEW s \in States
    PROVE  /\ Outcome(s) \in {"success", "failed", "deleted", "none"}
           /\ Outcome(s) = "success" => s = "complete"
           /\ Outcome(s) = "failed" => s = "failed"
           /\ Outcome(s) = "deleted" => s = "deleted"
           /\ Outcome(s) = "none" => s = "active"
  BY DEF Outcome, States

-----------------------------------------------------------------------------
(* Steps that end the wait *)

(* A report that is read off a version the Job has had. *)
LEMMA ConcludePreserves ==
    ASSUME TypeOK, NEW c \in Calls, CInv(c), pc[c] \in Waiting \cup {"confirm"},
           NEW r \in Results \ {"none", "refused"}, Conclude(c, r),
           UNCHANGED <<service, clusterVars, interrupted, expired, outcome, failed>>,
           seen' \in [Calls -> Nat],
           \/ \E s \in States : Reached(c, s) /\ r = Outcome(s)
           \/ r = "timed out" /\ (interrupted[c] => outcome[c] = "active")
           \/ r = "unknown"
    PROVE  TypeOK' /\ CInv(c)' /\ Others(c)
  <1> USE DEF Conclude, Goto, clusterVars
  <1>1. TypeOK'
    <2>1. result' \in [Calls -> Results]
      BY DEF TypeOK
    <2>2. PICK to \in {"logs", "cleanup"} : pc' = [pc EXCEPT ![c] = to]
      <3>1. (IF r = "success" THEN "logs" ELSE "cleanup") \in {"logs", "cleanup"}
        OBVIOUS
      <3>2. QED
        BY <3>1
    <2>3. pc' \in [Calls -> Labels]
      BY <2>2 DEF TypeOK, Labels
    <2>4. QED
      BY <2>1, <2>3 DEF TypeOK
  <1>2. Others(c)
    BY DEF TypeOK, Others, Same
  <1>3. pc'[c] \in {"logs", "cleanup"} /\ result'[c] = r
    BY DEF TypeOK
  <1>4. True(c)'
    <2>1. CASE \E s \in States : Reached(c, s) /\ r = Outcome(s)
      <3>1. PICK s \in States : Reached(c, s) /\ r = Outcome(s)
        BY <2>1
      <3>2. /\ r \in {"success", "failed", "deleted", "none"}
            /\ r = "success" => s = "complete"
            /\ r = "failed" => s = "failed"
            /\ r = "deleted" => s = "deleted"
        BY <3>1, OutcomeOf
      <3>3. \A t : Reached(c, t)' <=> Reached(c, t)
        BY DEF Reached
      <3>4. QED
        BY <1>3, <3>1, <3>2, <3>3 DEF True
    <2>2. CASE r = "timed out" /\ (interrupted[c] => outcome[c] = "active")
      BY <1>3, <2>2 DEF True
    <2>3. CASE r = "unknown"
      BY <1>3, <2>3 DEF True
    <2>4. QED
      BY <2>1, <2>2, <2>3
  <1>5. CInv(c)'
    BY <1>3, <1>4 DEF CInv, Fresh, Waits, Unfinished, Asks, Clean, Before, Waiting, Current
  <1>6. QED
    BY <1>1, <1>2, <1>5

LEMMA relistPreserves ==
    ASSUME TypeOK, NEW c \in Calls, CInv(c), relist(c)
    PROVE  TypeOK' /\ CInv(c)' /\ Others(c)
  <1> USE DEF relist
  <1>0. job[c] # <<>> /\ Current(c) \in States /\ Reached(c, Current(c))
    BY CurrentIsAState DEF CInv, Waits, Waiting
  <1>1. CASE Outcome(Current(c)) # "none" /\ Conclude(c, Outcome(Current(c))) /\ UNCHANGED seen
    <2>1. Outcome(Current(c)) \in Results \ {"none", "refused"}
      BY <1>0, <1>1, OutcomeOf DEF Results
    <2>2. seen' \in [Calls -> Nat]
      BY <1>1 DEF TypeOK
    <2>3. QED
      BY <1>0, <1>1, <2>1, <2>2, ConcludePreserves DEF Waiting
  <1>2. CASE /\ Goto(c, "open") /\ seen' = [seen EXCEPT ![c] = Len(job[c])]
             /\ UNCHANGED result
    <2> USE DEF Goto, clusterVars
    <2>1. pc' \in [Calls -> Labels] /\ seen' \in [Calls -> Nat]
      BY <1>2 DEF TypeOK, Labels, Waiting
    <2>2. TypeOK'
      BY <1>2, <2>1 DEF TypeOK
    <2>3. Others(c)
      BY <1>2 DEF TypeOK, Others, Same
    <2>4. CInv(c)'
      BY <1>2 DEF TypeOK, CInv, Fresh, Waits, Unfinished, Asks, True, Clean, Before, Waiting,
         Current, Reached
    <2>5. QED
      BY <2>2, <2>3, <2>4
  <1>3. QED
    BY <1>1, <1>2

LEMMA EventPreserves ==
    ASSUME TypeOK, NEW c \in Calls, CInv(c), handleJobEvent(c)
    PROVE  TypeOK' /\ CInv(c)' /\ Others(c)
  <1> USE DEF handleJobEvent
  <1> DEFINE s == job[c][seen[c] + 1]
  <1>1. seen[c] + 1 \in DOMAIN job[c] /\ s \in States
    BY DEF TypeOK
  <1>2. Reached(c, s)
    BY <1>1 DEF Reached
  <1>3. seen' \in [Calls -> Nat]
    BY DEF TypeOK
  <1>4. CASE Outcome(s) = "none"
    <2>1. UNCHANGED <<service, clusterVars, pc, interrupted, expired, result, outcome, failed>>
      BY <1>4
    <2>2. TypeOK'
      BY <1>3, <2>1 DEF TypeOK, clusterVars
    <2>3. \A d \in Calls : Same(d)
      BY <2>1 DEF Same, clusterVars
    <2>4. QED
      BY <2>2, <2>3, SamePreserves DEF Others
  <1>5. CASE Outcome(s) # "none"
    <2>1. Outcome(s) \in Results \ {"none", "refused"}
      BY <1>1, <1>5, OutcomeOf DEF Results
    <2>2. Conclude(c, Outcome(s)) /\ pc[c] \in Waiting
      BY <1>5 DEF Waiting
    <2>3. QED
      BY <1>1, <1>2, <1>3, <2>1, <2>2, ConcludePreserves
  <1>6. QED
    BY <1>4, <1>5

LEMMA ConfirmPreserves ==
    ASSUME TypeOK, NEW c \in Calls, CInv(c), deadlineResult(c)
    PROVE  TypeOK' /\ CInv(c)' /\ Others(c)
  <1> USE DEF deadlineResult, waitVars
  <1>0. /\ job[c] # <<>> /\ Current(c) \in States /\ Reached(c, Current(c))
        /\ seen' \in [Calls -> Nat] /\ expired[c]
    BY CurrentIsAState DEF CInv, Waits, Asks, TypeOK
  <1>1. CASE Conclude(c, IF Outcome(Current(c)) = "none" THEN "timed out"
                                                        ELSE Outcome(Current(c)))
    <2>1. CASE Outcome(Current(c)) = "none"
      <3>1. outcome[c] = "active"
        BY <1>0, <2>1, OutcomeOf DEF CInv, Unfinished
      <3>2. Conclude(c, "timed out")
        BY <1>1, <2>1
      <3>3. QED
        BY <1>0, <3>1, <3>2, ConcludePreserves DEF Results
    <2>2. CASE Outcome(Current(c)) # "none"
      <3>1. Outcome(Current(c)) \in Results \ {"none", "refused"}
        BY <1>0, <2>2, OutcomeOf DEF Results
      <3>2. Conclude(c, Outcome(Current(c)))
        BY <1>1, <2>2
      <3>3. QED
        BY <1>0, <3>1, <3>2, ConcludePreserves
    <2>3. QED
      BY <2>1, <2>2
  <1>2. CASE Conclude(c, IF interrupted[c] THEN "unknown" ELSE "timed out")
    <2>1. CASE interrupted[c]
      <3>1. Conclude(c, "unknown")
        BY <1>2, <2>1
      <3>2. QED
        BY <1>0, <3>1, ConcludePreserves DEF Results
    <2>2. CASE ~interrupted[c]
      <3>1. Conclude(c, "timed out")
        BY <1>2, <2>2
      <3>2. QED
        BY <1>0, <2>2, <3>1, ConcludePreserves DEF Results
    <2>3. QED
      BY <2>1, <2>2
  <1>3. QED
    BY <1>1, <1>2

-----------------------------------------------------------------------------
(* The other steps of a call *)

LEMMA deadlinePreserves ==
    ASSUME TypeOK, NEW c \in Calls, CInv(c), deadline(c)
    PROVE  TypeOK' /\ CInv(c)' /\ Others(c)
  <1> USE DEF deadline, waitVars
  <1>1. CASE pc[c] = "broken" /\ Conclude(c, "unknown")
    BY <1>1, ConcludePreserves DEF Waiting, Results, TypeOK
  <1>2. CASE pc[c] \in {"watch", "closed"} /\ Goto(c, "confirm") /\ UNCHANGED result
    <2> USE DEF Goto, clusterVars
    <2>1. pc' \in [Calls -> Labels]
      BY <1>2 DEF TypeOK, Labels
    <2>2. TypeOK'
      BY <1>2, <2>1 DEF TypeOK
    <2>3. Others(c)
      BY <1>2 DEF TypeOK, Others, Same
    <2>4. CInv(c)'
      BY <1>2 DEF TypeOK, CInv, Fresh, Waits, Unfinished, Asks, True, Clean, Before, Waiting,
         Current, Reached
    <2>5. QED
      BY <2>2, <2>3, <2>4
  <1>3. QED
    BY <1>1, <1>2

(* Steps that only move on, before the Job, in the wait or after it. *)
LEMMA MovePreserves ==
    ASSUME TypeOK, NEW c \in Calls, CInv(c),
           NEW to \in Labels, Goto(c, to),
           \/ pc[c] \in {"idle", "namespace"} /\ to \in {"namespace", "create"}
           \/ pc[c] \in Waiting /\ to \in Waiting
           \/ pc[c] = "logs" /\ to = "cleanup",
           UNCHANGED <<service, job, seen, expired, result, outcome, failed>>,
           namespace' \in BOOLEAN, interrupted' \in [Calls -> BOOLEAN],
           \A d \in Calls \ {c} : interrupted'[d] = interrupted[d],
           interrupted'[c] # interrupted[c] => pc[c] \in Waiting
    PROVE  TypeOK' /\ CInv(c)' /\ Others(c)
  <1> USE DEF Goto
  <1>1. TypeOK'
    BY DEF TypeOK
  <1>2. Others(c)
    BY DEF TypeOK, Others, Same
  <1>3. pc'[c] = to /\ to # "done" /\ to # "confirm"
    BY DEF TypeOK, Waiting
  <1>4. Fresh(c)' /\ Waits(c)'
    BY <1>3 DEF CInv, Fresh, Waits, Before, Waiting
  <1>5. Unfinished(c)' /\ Asks(c)' /\ Clean(c)'
    BY <1>3 DEF CInv, Unfinished, Asks, Clean, Current
  <1>6. True(c)'
    BY <1>3 DEF CInv, Waits, True, Reached
  <1>7. QED
    BY <1>1, <1>2, <1>4, <1>5, <1>6 DEF CInv

LEMMA MovesPreserve ==
    ASSUME TypeOK, NEW c \in Calls, CInv(c),
           \/ ensureNamespace(c) \/ openWatch(c) \/ requestFails(c) \/ watchCloses(c)
           \/ reconnect(c) \/ collectLogs(c)
    PROVE  TypeOK' /\ CInv(c)' /\ Others(c)
  <1> USE DEF waitVars, clusterVars
  <1>0. {"namespace", "create", "watch", "broken", "closed", "relist", "cleanup"} \subseteq Labels
    BY DEF Labels, Waiting
  <1>1. CASE ensureNamespace(c)
    BY <1>0, <1>1, MovePreserves DEF ensureNamespace, TypeOK
  <1>2. CASE openWatch(c) \/ reconnect(c)
    BY <1>0, <1>2, MovePreserves DEF openWatch, reconnect, TypeOK, Waiting
  <1>3. CASE requestFails(c) \/ watchCloses(c)
    <2>1. /\ interrupted' \in [Calls -> BOOLEAN]
          /\ \A d \in Calls \ {c} : interrupted'[d] = interrupted[d]
      BY <1>3 DEF requestFails, watchCloses, TypeOK
    <2>2. QED
      BY <1>0, <1>3, <2>1, MovePreserves DEF requestFails, watchCloses, TypeOK, Waiting
  <1>4. CASE collectLogs(c)
    BY <1>0, <1>4, MovePreserves DEF collectLogs, TypeOK
  <1>5. QED
    BY <1>1, <1>2, <1>3, <1>4

LEMMA createNamespacePreserves ==
    ASSUME TypeOK, NEW c \in Calls, CInv(c), createNamespace(c)
    PROVE  TypeOK' /\ CInv(c)' /\ Others(c)
  <1> USE DEF createNamespace, Refuse, Goto, waitVars
  <1>1. TypeOK'
    <2>1. pc' \in [Calls -> Labels] /\ result' \in [Calls -> Results] /\ namespace' \in BOOLEAN
      BY DEF TypeOK, Labels, Results
    <2>2. QED
      BY <2>1 DEF TypeOK
  <1>2. Others(c)
    BY DEF TypeOK, Others, Same
  <1>3. CInv(c)'
    BY DEF TypeOK, CInv, Fresh, Waits, Unfinished, Asks, True, Clean, Before, Waiting, Current,
       Reached
  <1>4. QED
    BY <1>1, <1>2, <1>3

LEMMA createJobPreserves ==
    ASSUME TypeOK, NEW c \in Calls, CInv(c), createJob(c)
    PROVE  TypeOK' /\ CInv(c)' /\ Others(c)
  <1> USE DEF createJob, Refuse, Failing, Goto, waitVars
  <1>0. <<"active">> \in Seq(States) /\ <<"active">> # <<>>
    BY DEF States
  <1>1. TypeOK'
    <2>1. job' \in [Calls -> Seq(States)]
      BY <1>0 DEF TypeOK
    <2>2. pc' \in [Calls -> Labels] /\ result' \in [Calls -> Results]
      BY DEF TypeOK, Labels, Waiting, Results
    <2>3. failed' = failed \/ failed' = [failed EXCEPT ![c] = TRUE]
      OBVIOUS
    <2>4. failed' \in [Calls -> BOOLEAN]
      BY <2>3 DEF TypeOK
    <2>5. QED
      BY <2>1, <2>2, <2>4 DEF TypeOK
  <1>2. Others(c)
    BY DEF TypeOK, Others, Same
  <1>3. ~expired[c] /\ result[c] = "none"
    BY DEF CInv, Fresh, Before
  <1>4. CASE job' = [job EXCEPT ![c] = <<"active">>] /\ Goto(c, "relist") /\ UNCHANGED <<result, failed>>
    <2>1. job'[c] = <<"active">> /\ pc'[c] = "relist" /\ result'[c] = "none"
      BY <1>3, <1>4 DEF TypeOK
    <2>2. QED
      BY <1>0, <1>1, <1>2, <1>3, <2>1 DEF CInv, Fresh, Waits, Unfinished, Asks, True, Clean,
         Before
  <1>5. CASE Refuse(c) /\ Failing(c)
    <2>1. pc'[c] = "done" /\ result'[c] = "refused" /\ failed'[c]
      BY <1>5 DEF TypeOK
    <2>2. QED
      BY <1>1, <1>2, <1>3, <2>1 DEF CInv, Fresh, Waits, Unfinished, Asks, True, Clean, Before,
         Waiting
  <1>6. QED
    BY <1>4, <1>5

LEMMA deleteJobPreserves ==
    ASSUME TypeOK, NEW c \in Calls, CInv(c), deleteJob(c)
    PROVE  TypeOK' /\ CInv(c)' /\ Others(c)
  <1> USE DEF deleteJob, Failing, Goto, waitVars
  <1>1. pc'[c] = "done" /\ pc' \in [Calls -> Labels]
    BY DEF TypeOK, Labels
  <1>2. /\ job' \in [Calls -> Seq(States)]
        /\ \A s \in States : Reached(c, s) => Reached(c, s)'
        /\ \A d \in Calls \ {c} : job'[d] = job[d]
        /\ Current(c)' \in {Current(c), "deleted"}
        /\ Current(c)' = "deleted" \/ failed'[c]
    <2>1. CASE job' = job
      <3>1. Current(c)' = Current(c)
        BY <2>1 DEF Current
      <3>2. Current(c) = "deleted" \/ failed'[c]
        <4>1. CASE job' = Deleted(c)
          <5>1. SUFFICES ASSUME Current(c) # "deleted" PROVE FALSE
            OBVIOUS
          <5>2. job' = [job EXCEPT ![c] = Append(@, "deleted")]
            BY <4>1, <5>1 DEF Deleted
          <5>3. Current(c)' = "deleted"
            BY <5>2, Appended DEF States
          <5>4. QED
            BY <3>1, <5>1, <5>3
        <4>2. CASE Failing(c)
          BY <4>2 DEF TypeOK
        <4>3. QED
          BY <4>1, <4>2
      <3>3. QED
        BY <2>1, <3>1, <3>2 DEF TypeOK, Reached
    <2>2. CASE job' = [job EXCEPT ![c] = Append(@, "deleted")]
      BY <2>2, Appended DEF States
    <2>3. QED
      BY <2>1, <2>2 DEF Deleted
  <1>3. TypeOK'
    <2>1. failed' = failed \/ failed' = [failed EXCEPT ![c] = TRUE]
      OBVIOUS
    <2>2. failed' \in [Calls -> BOOLEAN]
      BY <2>1 DEF TypeOK
    <2>3. QED
      BY <1>1, <1>2, <2>2 DEF TypeOK
  <1>4. Others(c)
    BY <1>2 DEF TypeOK, Others, Same
  <1>5. True(c)'
    BY <1>2 DEF CInv, True, States
  <1>6. CInv(c)'
    BY <1>1, <1>2, <1>5 DEF CInv, Fresh, Waits, Unfinished, Asks, Clean, Before, Waiting
  <1>7. QED
    BY <1>3, <1>4, <1>6

-----------------------------------------------------------------------------
(* Time and the cluster *)

LEMMA ExpirePreserves ==
    ASSUME TypeOK, NEW c \in Calls, CInv(c), Expire(c)
    PROVE  TypeOK' /\ CInv(c)' /\ Others(c)
  <1> USE DEF Expire, clusterVars, waitVars
  <1>1. expired' \in [Calls -> BOOLEAN] /\ outcome' \in [Calls -> States]
    BY CurrentIsAState DEF TypeOK
  <1>2. TypeOK'
    BY <1>1 DEF TypeOK
  <1>3. Others(c)
    BY DEF TypeOK, Others, Same
  <1>4. outcome'[c] = Current(c) /\ Current(c)' = Current(c) /\ result[c] = "none"
    BY DEF TypeOK, Current, CInv, Waits
  <1>5. CInv(c)'
    BY <1>4 DEF CInv, Fresh, Waits, Unfinished, Asks, True, Clean, Before, Waiting
  <1>6. QED
    BY <1>2, <1>3, <1>5

LEMMA JobChangesPreserves ==
    ASSUME TypeOK, NEW c \in Calls, CInv(c), JobChanges(c)
    PROVE  TypeOK' /\ CInv(c)' /\ Others(c)
  <1> USE DEF JobChanges, waitVars
  <1>1. PICK state \in States : /\ job' = [job EXCEPT ![c] = Append(@, state)]
                                /\ state = "active" => Current(c) = "active"
    BY DEF States
  <1>2. /\ job' \in [Calls -> Seq(States)]
        /\ job'[c] # <<>>
        /\ Current(c)' = state
        /\ \A s \in States : Reached(c, s) => Reached(c, s)'
        /\ \A d \in Calls \ {c} : job'[d] = job[d]
    BY <1>1, Appended
  <1>3. TypeOK'
    BY <1>2 DEF TypeOK
  <1>4. Others(c)
    BY <1>2 DEF Others, Same
  <1>5. job[c] # <<>>
    BY DEF Current
  <1>6. True(c)'
    BY <1>2 DEF CInv, True, States
  <1>7. CInv(c)'
    BY <1>1, <1>2, <1>5, <1>6 DEF CInv, Fresh, Waits, Unfinished, Asks, Clean
  <1>8. QED
    BY <1>3, <1>4, <1>7

-----------------------------------------------------------------------------
(* Every step *)

LEMMA CallStepPreserves ==
    ASSUME IInv, NEW c \in Calls, TypeOK' /\ CInv(c)' /\ Others(c)
    PROVE  IInv'
  BY SamePreserves DEF IInv, Others

LEMMA InitEstablishes == Init => IInv
  <1> SUFFICES ASSUME Init PROVE IInv
    OBVIOUS
  <1>1. TypeOK
    BY DEF Init, TypeOK, Labels, Results, States
  <1>2. \A c \in Calls : CInv(c)
    BY DEF Init, CInv, Fresh, Waits, Unfinished, Asks, True, Clean, Before, Waiting
  <1>3. QED
    BY <1>1, <1>2 DEF IInv

LEMMA NextPreserves == IInv /\ [Next]_vars => IInv'
  <1> SUFFICES ASSUME IInv, [Next]_vars PROVE IInv'
    OBVIOUS
  <1>0. TypeOK /\ \A c \in Calls : CInv(c)
    BY DEF IInv
  <1>1. ASSUME NEW c \in Calls, Step(c) PROVE IInv'
    <2>1. CASE createNamespace(c) \/ createJob(c)
      BY <1>0, <2>1, createNamespacePreserves, createJobPreserves, CallStepPreserves
    <2>2. CASE relist(c) \/ deadlineResult(c)
      BY <1>0, <2>2, relistPreserves, ConfirmPreserves, CallStepPreserves
    <2>3. CASE openWatch(c) \/ requestFails(c) \/ reconnect(c) \/ collectLogs(c)
      BY <1>0, <2>3, MovesPreserve, CallStepPreserves
    <2>4. CASE deleteJob(c)
      BY <1>0, <2>4, deleteJobPreserves, CallStepPreserves
    <2>5. QED
      BY <1>1, <2>1, <2>2, <2>3, <2>4 DEF Step
  <1>2. ASSUME NEW c \in Calls, ensureNamespace(c) \/ watchCloses(c) PROVE IInv'
    BY <1>0, <1>2, MovesPreserve, CallStepPreserves
  <1>3. ASSUME NEW c \in Calls, deadline(c) \/ handleJobEvent(c) PROVE IInv'
    BY <1>0, <1>3, deadlinePreserves, EventPreserves, CallStepPreserves
  <1>4. ASSUME NEW c \in Calls, Expire(c) \/ JobChanges(c) PROVE IInv'
    BY <1>0, <1>4, ExpirePreserves, JobChangesPreserves, CallStepPreserves
  <1>5. CASE checkReachable \/ NamespaceAppears \/ UNCHANGED vars
    <2> USE DEF checkReachable, NamespaceAppears, vars, clusterVars, waitVars
    <2>1. TypeOK'
      BY <1>0, <1>5 DEF TypeOK
    <2>2. \A c \in Calls : Same(c)
      BY <1>5 DEF Same
    <2>3. QED
      BY <1>0, <2>1, <2>2, SamePreserves DEF IInv
  <1>6. QED
    BY <1>1, <1>2, <1>3, <1>4, <1>5 DEF Next

-----------------------------------------------------------------------------
(* The theorems *)

(* The inductive invariant holds of every reachable state. *)
THEOREM Invariance == Spec => []IInv
  <1>1. QED
    BY InitEstablishes, NextPreserves, PTL DEF Spec

(* Type correctness of the calls, their Jobs and what they report. *)
THEOREM TypeCorrect == Spec => []TypeOK
  <1>1. IInv => TypeOK
    BY DEF IInv
  <1>2. QED
    BY <1>1, Invariance, PTL

(* What a call reports happened to its Job, whatever the gaps of its watch  *)
(* (pkg/validate, service.go).                                              *)
THEOREM TrueReport == Spec => []ReportIsTrue
  <1>1. IInv => ReportIsTrue
    BY DEF IInv, CInv, True, ReportIsTrue
  <1>2. QED
    BY <1>1, Invariance, PTL

(* Only a failed create or delete leaves a Job behind (pkg/validate,        *)
(* service.go).                                                             *)
THEOREM CleanedUp == Spec => []NothingLeftBehind
  <1>1. IInv => NothingLeftBehind
    BY DEF IInv, CInv, Clean, NothingLeftBehind
  <1>2. QED
    BY <1>1, Invariance, PTL
=============================================================================
