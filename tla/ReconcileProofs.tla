-------------------------- MODULE ReconcileProofs --------------------------
(***************************************************************************)
(* Proofs about Reconcile, for any number of tools, checkers, builds,      *)
(* disappearances, failed saves and crashes.  The inductive invariant adds *)
(* two facts to the properties: a verdict on its way to the index was      *)
(* earned when it was formed and is never Unreachable (VerdictInv), and    *)
(* the index file is never ahead of memory in a tool's phase (AheadInv),   *)
(* so that neither a later save nor a restart takes a phase back.          *)
(***************************************************************************)
EXTENDS Reconcile, TLAPS

Earning == {"Healthy", "Orphaned", "Unreachable"}

(* A verdict under way. *)
VerdictInv ==
    \A c \in Checkers :
        /\ step[c] # "idle" => checking[c] \in Tools
        /\ step[c] # "Unreachable"
        /\ step[c] \in Earning => checking[c] \in attached

AheadInv == \A t \in Tools : Rank(disk[t].phase) <= Rank(mem[t].phase)

StoreOK ==
    /\ mem \in [Tools -> Entry] /\ disk \in [Tools -> Entry]
    /\ saveFailures \in 0..MaxSaveFailures

StoreInv == StoreOK /\ HealthyIsEarned /\ AheadInv

HarborOK ==
    /\ crashes \in 0..MaxCrashes
    /\ image \subseteq Tools /\ attached \subseteq Tools
    /\ referrer \in [Tools -> SUBSET Digests]
    /\ \A t \in Tools : referrer[t] # {} => t \in attached
    /\ outage \in BOOLEAN
    /\ opaque \subseteq Tools
    /\ changes \in 0..MaxChanges
    /\ build \in [Tools -> {"idle", "registered", "pushed"}]
    /\ builds \in [Tools -> 0..MaxBuilds]
    /\ \A t \in Tools : build[t] # "idle" => builds[t] # 0

LoopsOK ==
    /\ todo \in [Checkers -> SUBSET Tools]
    /\ wanted \in [Checkers -> [Tools -> Digests \cup {0}]]
    /\ checking \in [Checkers -> Tools \cup {NoTool}]
    /\ imageOK \in [Checkers -> BOOLEAN]
    /\ step \in [Checkers -> {"idle", "referrer"} \cup Healths]
    /\ slowTodo \subseteq Tools
    /\ slowTool \in Tools \cup {NoTool}

RestOK == HarborOK /\ LoopsOK

IInv == StoreInv /\ RestOK /\ VerdictInv

(* What a step may do to the file's phases and to the health shown. *)
PhaseStep == \A t \in Tools : Rank(disk[t].phase) <= Rank(disk'[t].phase)

ShownStep ==
    \A t \in Tools :
        mem'[t].health = "Unreachable" /\ mem[t].health # "Unreachable"
        => mem[t].health = "Healthy" \/ mem' = disk

-----------------------------------------------------------------------------
(* The index *)

LEMMA RankType == \A p \in Phases : Rank(p) \in 0..3
  BY DEF Phases, Rank

(* What a save has to bring to keep the index in order. *)
GoodUpdate(new) ==
    /\ new \in [Tools -> Entry]
    /\ \A t \in Tools :
         /\ Rank(mem[t].phase) <= Rank(new[t].phase)
         /\ new[t].health \in Earning => t \in attached'
         /\ new[t].health = "Unreachable" => mem[t].health \in {"Healthy", "Unreachable"}

LEMMA SaveKeepsStore ==
    ASSUME StoreInv, NEW new, GoodUpdate(new), Save(new), attached \subseteq attached'
    PROVE  StoreInv' /\ PhaseStep /\ ShownStep
  <1>0. /\ mem' = new
        /\ \/ disk' = new /\ saveFailures' = saveFailures
           \/ disk' = disk /\ saveFailures < MaxSaveFailures /\ saveFailures' = saveFailures + 1
    BY DEF Save, Saved, NotSaved
  <1>1. \A t \in Tools : /\ Rank(disk[t].phase) \in 0..3 /\ Rank(mem[t].phase) \in 0..3
                         /\ Rank(new[t].phase) \in 0..3
    BY RankType DEF StoreInv, StoreOK, GoodUpdate, Entry
  <1>2. StoreOK'
    BY <1>0, BoundsAssumption DEF StoreInv, StoreOK, GoodUpdate
  <1>3. HealthyIsEarned'
    BY <1>0 DEF StoreInv, HealthyIsEarned, GoodUpdate, Earning
  <1>4. AheadInv' /\ PhaseStep
    BY <1>0, <1>1 DEF StoreInv, AheadInv, PhaseStep, GoodUpdate
  <1>5. ShownStep
    BY <1>0 DEF ShownStep, GoodUpdate
  <1>6. QED
    BY <1>2, <1>3, <1>4, <1>5 DEF StoreInv

LEMMA UnchangedKeepsStore ==
    ASSUME StoreInv, UNCHANGED indexVars, attached \subseteq attached'
    PROVE  StoreInv' /\ PhaseStep /\ ShownStep
  <1>1. \A t \in Tools : Rank(disk[t].phase) \in 0..3
    BY RankType DEF StoreInv, StoreOK, Entry
  <1>2. QED
    BY <1>1 DEF StoreInv, StoreOK, HealthyIsEarned, AheadInv, PhaseStep, ShownStep, indexVars

LEMMA SameHealthsEarned ==
    ASSUME StoreInv, NEW t \in Tools
    PROVE  /\ mem[t] \in Entry
           /\ mem[t].health \in Earning => t \in attached
           /\ Rank(mem[t].phase) <= Rank(mem[t].phase)
  <1>1. mem[t] \in Entry
    BY DEF StoreInv, StoreOK
  <1>2. ASSUME mem[t].health \in Earning PROVE t \in attached
    <2>1. mem[t].health \in {mem[t].health, disk[t].health} \cap {"Healthy", "Orphaned", "Unreachable"}
      BY <1>2 DEF Earning
    <2>2. QED
      BY <2>1 DEF StoreInv, HealthyIsEarned
  <1>3. Rank(mem[t].phase) \in 0..3
    BY <1>1, RankType DEF Entry
  <1>4. QED
    BY <1>1, <1>2, <1>3

-----------------------------------------------------------------------------
(* Steps of the catalog and of the builds *)

LEMMA RegisterToolPreserves ==
    ASSUME IInv, NEW t \in Tools, RegisterTool(t)
    PROVE  IInv' /\ PhaseStep /\ ShownStep
  <1> USE DEF RegisterTool
  <1>1. StoreInv' /\ PhaseStep /\ ShownStep
    <2>1. CASE t \in Registered
      BY <2>1, UnchangedKeepsStore DEF IInv
    <2>2. CASE t \notin Registered
      <3> DEFINE new == [mem EXCEPT ![t] = NewEntry]
      <3>1. mem[t].phase = "Absent"
        BY <2>2 DEF Registered
      <3>2. GoodUpdate(new)
        <4>1. new \in [Tools -> Entry]
          BY DEF IInv, StoreInv, StoreOK, Entry, NewEntry, Phases, Healths
        <4>2. Rank("Absent") <= Rank("Active")
          BY DEF Rank
        <4>3. ASSUME NEW u \in Tools
              PROVE  /\ Rank(mem[u].phase) <= Rank(new[u].phase)
                     /\ new[u].health \in Earning => u \in attached'
                     /\ new[u].health = "Unreachable" =>
                            mem[u].health \in {"Healthy", "Unreachable"}
          BY <3>1, <4>2, <4>3, SameHealthsEarned DEF IInv, StoreInv, StoreOK, Earning, NewEntry
        <4>4. QED
          BY <4>1, <4>3 DEF GoodUpdate
      <3>3. QED
        BY <2>2, <3>2, SaveKeepsStore DEF IInv
    <2>3. QED
      BY <2>1, <2>2
  <1>2. RestOK' /\ VerdictInv'
    BY BoundsAssumption DEF IInv, RestOK, HarborOK, LoopsOK, VerdictInv, fastVars, slowVars
  <1>3. QED
    BY <1>1, <1>2 DEF IInv

LEMMA PushPreserves ==
    ASSUME IInv, NEW t \in Tools, PushToolSpecReferrer(t)
    PROVE  IInv' /\ PhaseStep /\ ShownStep
  <1> USE DEF PushToolSpecReferrer
  <1>1. attached \subseteq attached'
    OBVIOUS
  <1>2. builds[t] \in Digests
    BY BoundsAssumption DEF IInv, RestOK, HarborOK, Digests
  <1>3. GoodUpdate([mem EXCEPT ![t].spec = builds[t]])
    <2> DEFINE new == [mem EXCEPT ![t].spec = builds[t]]
    <2>1. mem \in [Tools -> Entry]
      BY DEF IInv, StoreInv, StoreOK
    <2>2. new \in [Tools -> Entry]
      BY <1>2, <2>1 DEF Entry
    <2>3. \A u \in Tools : new[u].health = mem[u].health /\ new[u].phase = mem[u].phase
      BY <2>1 DEF Entry
    <2>4. QED
      BY <1>1, <2>2, <2>3, SameHealthsEarned DEF GoodUpdate, IInv
  <1>4. StoreInv' /\ PhaseStep /\ ShownStep
    BY <1>1, <1>3, SaveKeepsStore, UnchangedKeepsStore DEF IInv, indexVars, SetSpecReferrerDigest
  <1>5. HarborOK'
    BY <1>2 DEF IInv, RestOK, HarborOK
  <1>6. LoopsOK' /\ VerdictInv'
    BY DEF IInv, RestOK, LoopsOK, VerdictInv, fastVars, slowVars
  <1>7. QED
    BY <1>4, <1>5, <1>6 DEF IInv, RestOK

LEMMA WantedType ==
    ASSUME IInv, NEW c \in Checkers, NEW t \in Tools, NEW digest \in Digests \cup {0}
    PROVE  /\ wanted \in [Checkers -> [Tools -> Digests \cup {0}]]
           /\ [wanted EXCEPT ![c][t] = digest] \in [Checkers -> [Tools -> Digests \cup {0}]]
  BY DEF IInv, RestOK, LoopsOK

(* Steps that leave the index and the record of attached referrers alone. *)
LEMMA QuietPreserves ==
    ASSUME IInv,
           \/ \E t \in Tools : \E c \in Checkers : HarborWebhook(c, t) \/ ReconcileAfterPush(c, t)
           \/ \E t \in Tools : HarborLoses(t) \/ ListingChanges(t)
           \/ \E c \in Checkers : FastRun(c)
           \/ SlowRun \/ \E t \in Tools : PullReachable(t)
           \/ Outage
           \/ UNCHANGED vars
    PROVE  IInv' /\ PhaseStep /\ ShownStep
  <1> USE DEF HarborWebhook, ReconcileAfterPush, ReconcileOne, HarborLoses, FastRun,
              SlowRun, PullReachable, Outage, ListingChanges, Change, vars, fastVars, slowVars, harborVars, buildVars
  <1>1. UNCHANGED <<indexVars, attached, step, checking>>
    OBVIOUS
  <1>2. StoreInv' /\ PhaseStep /\ ShownStep
    BY <1>1, UnchangedKeepsStore DEF IInv
  <1>3. VerdictInv'
    BY <1>1 DEF IInv, VerdictInv
  <1>4. RestOK'
    <2>0. [t \in Tools |-> mem[t].spec] \in [Tools -> Digests \cup {0}]
      BY DEF IInv, StoreInv, StoreOK, Entry
    <2>1. Registered \subseteq Tools
      BY DEF Registered
    <2>2. CASE \E t \in Tools : \E c \in Checkers : HarborWebhook(c, t) \/ ReconcileAfterPush(c, t)
      <3>1. PICK t \in Tools, c \in Checkers : HarborWebhook(c, t) \/ ReconcileAfterPush(c, t)
        BY <2>2
      <3>2. wanted' = [wanted EXCEPT ![c][t] = mem[t].spec] /\ mem[t].spec \in Digests \cup {0}
        BY <2>0, <3>1
      <3>3. wanted' \in [Checkers -> [Tools -> Digests \cup {0}]]
        BY <3>2, WantedType
      <3>4. todo' \in [Checkers -> SUBSET Tools]
        BY <3>1 DEF IInv, RestOK, LoopsOK
      <3>5. /\ build' \in [Tools -> {"idle", "registered", "pushed"}]
            /\ \A u \in Tools : build'[u] # "idle" => build[u] # "idle"
        BY <3>1 DEF IInv, RestOK, HarborOK
      <3>6. UNCHANGED <<crashes, harborVars, builds, checking, imageOK, step, slowVars>>
        BY <3>1
      <3>7. QED
        BY <3>3, <3>4, <3>5, <3>6 DEF IInv, RestOK, HarborOK, LoopsOK
    <2>3. CASE \E t \in Tools : HarborLoses(t) \/ ListingChanges(t)
      <3>1. CASE \E t \in Tools : HarborLoses(t)
        <4>1. PICK t \in Tools : HarborLoses(t)
          BY <3>1
        <4>2. /\ referrer' \in [Tools -> SUBSET Digests]
              /\ \A u \in Tools : referrer'[u] \subseteq referrer[u]
          BY <4>1 DEF IInv, RestOK, HarborOK
        <4>3. HarborOK'
          BY <4>1, <4>2, BoundsAssumption DEF IInv, RestOK, HarborOK
        <4>4. LoopsOK'
          BY <4>1 DEF IInv, RestOK, LoopsOK
        <4>5. QED
          BY <4>3, <4>4 DEF RestOK
      <3>2. CASE \E t \in Tools : ListingChanges(t)
        BY <3>2, BoundsAssumption DEF IInv, RestOK, HarborOK, LoopsOK
      <3>3. QED
        BY <2>3, <3>1, <3>2
    <2>4. CASE \E c \in Checkers : FastRun(c)
      BY <2>0, <2>1, <2>4 DEF IInv, RestOK, HarborOK, LoopsOK
    <2>5. CASE SlowRun \/ \E t \in Tools : PullReachable(t)
      BY <2>1, <2>5 DEF IInv, RestOK, HarborOK, LoopsOK
    <2>6. CASE Outage
      BY <2>6, BoundsAssumption DEF IInv, RestOK, HarborOK, LoopsOK
    <2>7. CASE UNCHANGED vars
      BY <2>7 DEF IInv, RestOK, HarborOK, LoopsOK
    <2>8. QED
      BY <2>2, <2>3, <2>4, <2>5, <2>6, <2>7
  <1>5. QED
    BY <1>2, <1>3, <1>4 DEF IInv

LEMMA LifecyclePreserves ==
    ASSUME IInv, NEW t \in Tools, RetractTool(t) \/ DeleteTool(t)
    PROVE  IInv' /\ PhaseStep /\ ShownStep
  <1>0. UNCHANGED <<crashes, harborVars, buildVars, fastVars, slowVars>>
    BY DEF RetractTool, DeleteTool
  <1>1. StoreInv' /\ PhaseStep /\ ShownStep
    <2>1. PICK target \in {"Retracted", "Deleted"} : SetLifecyclePhase(t, target)
      BY DEF RetractTool, DeleteTool
    <2> DEFINE new == [mem EXCEPT ![t].phase = target]
    <2>2. mem \in [Tools -> Entry] /\ mem[t].phase \in Phases
      BY DEF IInv, StoreInv, StoreOK, Entry
    <2>3. Rank(mem[t].phase) <= Rank(target)
      BY <2>1, <2>2 DEF SetLifecyclePhase, validLifecycleTransitions, Rank, Phases
    <2>4. new \in [Tools -> Entry]
      BY <2>1, <2>2 DEF Entry, Phases
    <2>5. ASSUME NEW u \in Tools
          PROVE  new[u].health = mem[u].health /\ Rank(mem[u].phase) <= Rank(new[u].phase)
      BY <2>2, <2>3, <2>5, SameHealthsEarned DEF Entry, IInv
    <2>6. attached' = attached
      BY <1>0 DEF harborVars
    <2>7. GoodUpdate(new)
      BY <2>4, <2>5, <2>6, SameHealthsEarned DEF GoodUpdate, IInv
    <2>8. QED
      BY <2>1, <2>6, <2>7, SaveKeepsStore DEF SetLifecyclePhase, IInv
  <1>2. RestOK' /\ VerdictInv'
    BY <1>0 DEF IInv, RestOK, HarborOK, LoopsOK, VerdictInv, fastVars, slowVars, harborVars, buildVars
  <1>3. QED
    BY <1>1, <1>2 DEF IInv

-----------------------------------------------------------------------------
(* Steps of the checkers *)

(* Replacing the health of one entry. *)
LEMMA HealthUpdate ==
    ASSUME StoreInv, attached' = attached, NEW t \in Tools, NEW health \in Healths,
           health \in Earning => t \in attached,
           health = "Unreachable" => mem[t].health = "Healthy"
    PROVE  GoodUpdate([mem EXCEPT ![t].health = health])
  <1> DEFINE new == [mem EXCEPT ![t].health = health]
  <1>1. mem \in [Tools -> Entry]
    BY DEF StoreInv, StoreOK
  <1>2. new \in [Tools -> Entry]
    BY <1>1 DEF Entry
  <1>3. ASSUME NEW u \in Tools
        PROVE  /\ Rank(mem[u].phase) <= Rank(new[u].phase)
               /\ new[u].health = IF u = t THEN health ELSE mem[u].health
    BY <1>1, <1>3, SameHealthsEarned DEF Entry
  <1>4. QED
    BY <1>2, <1>3, SameHealthsEarned DEF GoodUpdate

LEMMA ImageExistsPreserves ==
    ASSUME IInv, NEW c \in Checkers, NEW t \in Tools, ImageExists(c, t)
    PROVE  IInv' /\ PhaseStep /\ ShownStep
  <1> USE DEF ImageExists, GiveUp
  <1>1. StoreInv' /\ PhaseStep /\ ShownStep
    BY UnchangedKeepsStore DEF IInv, harborVars
  <1>2. RestOK'
    <2>1. (t \in image) \in BOOLEAN
      OBVIOUS
    <2>2. imageOK' \in [Checkers -> BOOLEAN]
      BY <2>1 DEF IInv, RestOK, LoopsOK
    <2>3. wanted' = wanted \/ wanted' = [wanted EXCEPT ![c][t] = 0]
      OBVIOUS
    <2>4. wanted' \in [Checkers -> [Tools -> Digests \cup {0}]]
      BY <2>3, WantedType
    <2>5. /\ checking' \in [Checkers -> Tools \cup {NoTool}]
          /\ step' \in [Checkers -> {"idle", "referrer"} \cup Healths]
          /\ todo' \in [Checkers -> SUBSET Tools]
      BY DEF IInv, RestOK, LoopsOK
    <2>6. UNCHANGED <<crashes, harborVars, buildVars, slowVars>>
      OBVIOUS
    <2>7. HarborOK'
      BY <2>6 DEF IInv, RestOK, HarborOK, harborVars, buildVars
    <2>8. LoopsOK'
      BY <2>2, <2>4, <2>5, <2>6 DEF IInv, RestOK, LoopsOK, slowVars
    <2>9. QED
      BY <2>7, <2>8 DEF RestOK
  <1>3. VerdictInv'
    BY DEF IInv, RestOK, HarborOK, LoopsOK, VerdictInv, Earning, harborVars
  <1>4. QED
    BY <1>1, <1>2, <1>3 DEF IInv

LEMMA WitnessPreserves ==
    ASSUME IInv, NEW c \in Checkers, SpecReferrerWitness(c)
    PROVE  IInv' /\ PhaseStep /\ ShownStep
  <1> USE DEF SpecReferrerWitness, GiveUp
  <1>1. StoreInv' /\ PhaseStep /\ ShownStep
    BY UnchangedKeepsStore DEF IInv, harborVars
  <1>2. PICK health \in Healths \ {"Unreachable"} :
            /\ health = judgeHealth(imageOK[c], Witnessed(checking[c], wanted[c][checking[c]]))
            /\ health \in Earning => Witnessed(checking[c], wanted[c][checking[c]])
    BY DEF judgeHealth, Healths, Earning
  <1>3. checking[c] \in Tools
    BY DEF IInv, VerdictInv
  <1>4. health \in Earning => checking[c] \in attached
    BY <1>2, <1>3 DEF Witnessed, IInv, RestOK, HarborOK, LoopsOK
  <1>5. RestOK'
    BY <1>2, <1>3 DEF IInv, RestOK, HarborOK, LoopsOK, harborVars, buildVars, slowVars
  <1>6. VerdictInv'
    BY <1>2, <1>3, <1>4 DEF IInv, RestOK, HarborOK, LoopsOK, VerdictInv, Earning, harborVars
  <1>7. QED
    BY <1>1, <1>5, <1>6 DEF IInv

LEMMA VerdictPreserves ==
    ASSUME IInv, NEW c \in Checkers, RecordVerdict(c)
    PROVE  IInv' /\ PhaseStep /\ ShownStep
  <1> USE DEF RecordVerdict, GiveUp
  <1>0. attached' = attached /\ step[c] # "idle" /\ checking[c] \in Tools
    BY DEF harborVars, IInv, VerdictInv, Healths
  <1>1. StoreInv' /\ PhaseStep /\ ShownStep
    <2>1. GoodUpdate([mem EXCEPT ![checking[c]].health = step[c]])
      BY <1>0, HealthUpdate DEF IInv, VerdictInv
    <2>2. QED
      BY <1>0, <2>1, SaveKeepsStore, UnchangedKeepsStore DEF IInv, SetIntegrityHealth
  <1>2. RestOK'
    BY DEF IInv, RestOK, HarborOK, LoopsOK, harborVars, buildVars, slowVars
  <1>3. VerdictInv'
    BY <1>0 DEF IInv, RestOK, HarborOK, LoopsOK, VerdictInv, Earning
  <1>4. QED
    BY <1>1, <1>2, <1>3 DEF IInv

(* The slow verdict is written only over Healthy, which was earned. *)
LEMMA SlowPreserves ==
    ASSUME IInv, reconcileReachability
    PROVE  IInv' /\ PhaseStep /\ ShownStep
  <1> USE DEF reconcileReachability
  <1>0. attached' = attached /\ slowTool \in Tools
    BY DEF harborVars, IInv, RestOK, HarborOK, LoopsOK
  <1>1. StoreInv' /\ PhaseStep /\ ShownStep
    <2>1. CASE mem[slowTool].health = "Healthy"
      <3>1. slowTool \in attached
        BY <1>0, <2>1 DEF IInv, StoreInv, HealthyIsEarned
      <3>2. GoodUpdate([mem EXCEPT ![slowTool].health = "Unreachable"])
        BY <1>0, <2>1, <3>1, HealthUpdate DEF IInv, Healths
      <3>3. QED
        BY <1>0, <3>2, SaveKeepsStore, UnchangedKeepsStore DEF IInv, CompareAndSetIntegrityHealth
    <2>2. CASE mem[slowTool].health # "Healthy"
      BY <1>0, <2>2, UnchangedKeepsStore DEF IInv, CompareAndSetIntegrityHealth
    <2>3. QED
      BY <2>1, <2>2
  <1>2. RestOK' /\ VerdictInv'
    BY DEF IInv, RestOK, HarborOK, LoopsOK, VerdictInv, harborVars, buildVars, fastVars
  <1>3. QED
    BY <1>1, <1>2 DEF IInv

LEMMA CrashPreserves ==
    ASSUME IInv, CrashRestart
    PROVE  IInv' /\ PhaseStep /\ ShownStep
  <1> USE DEF CrashRestart
  <1>1. \A t \in Tools : Rank(disk[t].phase) \in 0..3
    BY RankType DEF IInv, StoreInv, StoreOK, Entry
  <1>2. StoreInv' /\ PhaseStep /\ ShownStep
    BY <1>1 DEF IInv, StoreInv, StoreOK, HealthyIsEarned, AheadInv, PhaseStep, ShownStep, harborVars
  <1>3. RestOK' /\ VerdictInv'
    BY BoundsAssumption DEF IInv, RestOK, HarborOK, LoopsOK, VerdictInv, Earning, harborVars
  <1>4. QED
    BY <1>2, <1>3 DEF IInv

-----------------------------------------------------------------------------
(* The theorems *)

LEMMA InitEstablishes == Init => IInv
  <1> SUFFICES ASSUME Init PROVE IInv
    OBVIOUS
  <1>1. StoreInv
    <2>1. StoreOK
      BY BoundsAssumption DEF Init, StoreOK, Entry, NewEntry, Phases, Healths
    <2>2. HealthyIsEarned /\ AheadInv
      BY DEF Init, HealthyIsEarned, AheadInv, Rank, NewEntry
    <2>3. QED
      BY <2>1, <2>2 DEF StoreInv
  <1>2. RestOK /\ VerdictInv
    BY BoundsAssumption DEF Init, RestOK, HarborOK, LoopsOK, VerdictInv, Earning
  <1>3. QED
    BY <1>1, <1>2 DEF IInv

LEMMA NextPreserves == IInv /\ [Next]_vars => IInv' /\ PhaseStep /\ ShownStep
  <1> SUFFICES ASSUME IInv, [Next]_vars PROVE IInv' /\ PhaseStep /\ ShownStep
    OBVIOUS
  <1>1. ASSUME NEW t \in Tools, RegisterTool(t) PROVE IInv' /\ PhaseStep /\ ShownStep
    BY <1>1, RegisterToolPreserves
  <1>2. ASSUME NEW t \in Tools, PushToolSpecReferrer(t) PROVE IInv' /\ PhaseStep /\ ShownStep
    BY <1>2, PushPreserves
  <1>3. ASSUME NEW t \in Tools, RetractTool(t) \/ DeleteTool(t) PROVE IInv' /\ PhaseStep /\ ShownStep
    BY <1>3, LifecyclePreserves
  <1>4. ASSUME NEW c \in Checkers, Check(c) PROVE IInv' /\ PhaseStep /\ ShownStep
    BY <1>4, QuietPreserves, ImageExistsPreserves, WitnessPreserves, VerdictPreserves DEF Check
  <1>5. CASE SlowLoop
    BY <1>5, QuietPreserves, SlowPreserves DEF SlowLoop
  <1>6. CASE CrashRestart
    BY <1>6, CrashPreserves
  <1>7. QED
    BY <1>1, <1>2, <1>3, <1>4, <1>5, <1>6, QuietPreserves DEF Next

(* The inductive invariant holds of every reachable state. *)
THEOREM Invariance == Spec => []IInv
  <1>1. QED
    BY InitEstablishes, NextPreserves, PTL DEF Spec

(* Types, with every referrer in Harbor among those ever attached. *)
THEOREM TypeCorrect == Spec => []TypeOK
  <1>1. IInv => TypeOK
    BY DEF IInv, StoreInv, StoreOK, RestOK, HarborOK, LoopsOK, TypeOK
  <1>2. QED
    BY <1>1, Invariance, PTL

(* Healthy, and the Unreachable that follows it, is shown only for a tool   *)
(* whose spec referrer was attached at some time (reconciler.go).           *)
THEOREM Earned == Spec => []HealthyIsEarned
  <1>1. IInv => HealthyIsEarned
    BY DEF IInv, StoreInv
  <1>2. QED
    BY <1>1, Invariance, PTL

(* The phase that the index file shows of a tool never goes back, whatever  *)
(* rebuilds, calls, saves that fail and restarts (catalog.go, store.go).    *)
THEOREM PhasesForward == Spec => PhaseNeverReturns
  <1>1. IInv /\ [Next]_vars => [\A t \in Tools : Rank(disk[t].phase) <= Rank(disk'[t].phase)]_vars
    BY NextPreserves DEF PhaseStep
  <1>2. QED
    BY <1>1, Invariance, PTL DEF Spec, PhaseNeverReturns

(* A failed pull is recorded only over Healthy: no verdict of the fast loop *)
(* that arrived while the pull was under way is hidden (reconciler.go).     *)
THEOREM SlowYields == Spec => SlowNeverHidesFast
  <1>1. IInv /\ [Next]_vars =>
            [\A t \in Tools :
               mem'[t].health = "Unreachable" /\ mem[t].health # "Unreachable"
               => mem[t].health = "Healthy" \/ mem' = disk]_vars
    BY NextPreserves DEF ShownStep
  <1>2. QED
    BY <1>1, Invariance, PTL DEF Spec, SlowNeverHidesFast
=============================================================================
