----------------------------- MODULE Reconcile -----------------------------
(***************************************************************************)
(* The two state axes of a tool's index entry: lifecycle_phase, moved by   *)
(* RegisterTool, RetractTool and DeleteTool (pkg/catalog, catalog.go), and *)
(* integrity_health, moved by the fast loop, the slow loop and the         *)
(* targeted ReconcileOne of builds and webhooks (pkg/reconcile,            *)
(* reconciler.go).  All of them write the same in-memory index and save it *)
(* (pkg/index, store.go); a save may fail, and the process may crash.      *)
(* Harbor is external: images and spec referrers disappear, outages and    *)
(* listings that cannot be read to the end come and go, between any two    *)
(* requests of a check.                                                    *)
(***************************************************************************)
EXTENDS Naturals, FiniteSets

CONSTANTS
    Tools,            \* casHashes of tools
    NoTool,
    Checkers,         \* goroutines that run an existence check
    Loops,            \* those of them that run FastRun passes
    MaxBuilds,        \* bound: builds of one tool that reach registration
    MaxChanges,       \* bound: disappearances, outages and opaque listings in Harbor
    MaxSaveFailures,  \* bound: saves that fail before the rename
    MaxCrashes        \* bound: process crashes

ASSUME CheckersAssumption == Loops \subseteq Checkers /\ NoTool \notin Tools
ASSUME BoundsAssumption ==
    {MaxBuilds, MaxChanges, MaxSaveFailures, MaxCrashes} \subseteq Nat

VARIABLES
    mem,          \* index entries in memory
    disk,         \* the same in the index file
    saveFailures, crashes,
    image,        \* tools whose image Harbor has
    referrer,     \* spec referrers Harbor has, per tool: the builds that pushed them
    attached,     \* tools whose spec referrer was attached at some time
    outage,       \* Harbor answers with errors
    opaque,       \* tools whose referrers cannot all be read: beyond a budget, or opaque
    changes,
    build,        \* the registration part of a build, per tool
    builds,       \* builds so far, per tool
    todo,         \* rest of a checker's pass
    wanted,       \* SpecReferrerDigest that its snapshot has of a tool to be checked
    checking,     \* the tool it is checking
    imageOK,      \* what ImageExists told it
    step,         \* idle, image, referrer, write
    slowTodo,     \* rest of the slow pass: entries its snapshot had Healthy
    slowTool      \* the tool whose failed pull is about to be recorded

indexVars == <<mem, disk, saveFailures>>
harborVars == <<image, referrer, attached, outage, opaque, changes>>
buildVars == <<build, builds>>
fastVars == <<todo, wanted, checking, imageOK, step>>
slowVars == <<slowTodo, slowTool>>
vars == <<indexVars, crashes, harborVars, buildVars, fastVars, slowVars>>

Phases == {"Absent", "Active", "Retracted", "Deleted"}
Healths == {"Healthy", "Partial", "Missing", "Orphaned", "Unreachable"}

(* Every push makes a manifest of its own, dated, so that its digest is the *)
(* build that pushed it.  An entry with no SpecReferrerDigest has 0.        *)
Digests == 1..MaxBuilds
Entry == [phase: Phases, health: Healths, spec: Digests \cup {0}]
NewEntry == [phase |-> "Active", health |-> "Partial", spec |-> 0]
Registered == {t \in Tools : mem[t].phase # "Absent"}

-----------------------------------------------------------------------------
(* The index: the entry is changed in memory, then everything is saved.     *)

Saved(new) ==
    /\ mem' = new
    /\ disk' = new
    /\ UNCHANGED saveFailures

NotSaved(new) ==
    /\ saveFailures < MaxSaveFailures
    /\ saveFailures' = saveFailures + 1
    /\ mem' = new
    /\ UNCHANGED disk

Save(new) == Saved(new) \/ NotSaved(new)

(* Restore (Retracted to Active) is in the table, but nothing calls it. *)
validLifecycleTransitions(phase) ==
    CASE phase = "Active"    -> {"Retracted"}
      [] phase = "Retracted" -> {"Active", "Deleted"}
      [] OTHER               -> {}

SetIntegrityHealth(t, health) ==
    IF t \in Registered THEN Save([mem EXCEPT ![t].health = health])
                        ELSE UNCHANGED indexVars

CompareAndSetIntegrityHealth(t, expected, health) ==
    IF t \in Registered /\ mem[t].health = expected
    THEN Save([mem EXCEPT ![t].health = health])
    ELSE UNCHANGED indexVars

-----------------------------------------------------------------------------
(* Registration at the end of a build *)

Reactivates(t) ==
    /\ build[t] = "idle"
    /\ builds[t] < MaxBuilds
    /\ builds' = [builds EXCEPT ![t] = @ + 1]
    /\ image' = image \cup {t}
    /\ Save([mem EXCEPT ![t] = NewEntry])
    /\ build' = [build EXCEPT ![t] = "registered"]
    /\ UNCHANGED <<crashes, referrer, attached, outage, opaque, changes, fastVars, slowVars>>

(* The image was just pushed.  Content that is registered already keeps its *)
(* entry: registering again is no lifecycle transition.                     *)
RegisterTool(t) ==
    /\ build[t] = "idle"
    /\ builds[t] < MaxBuilds
    /\ builds' = [builds EXCEPT ![t] = @ + 1]
    /\ image' = image \cup {t}
    /\ IF t \in Registered
       THEN UNCHANGED indexVars
       ELSE Save([mem EXCEPT ![t] = NewEntry])
    /\ build' = [build EXCEPT ![t] = "registered"]
    /\ UNCHANGED <<crashes, referrer, attached, outage, opaque, changes, fastVars, slowVars>>

(* The entry expects the referrer pushed last.                              *)
SetSpecReferrerDigest(t, digest) ==
    IF t \in Registered THEN Save([mem EXCEPT ![t].spec = digest])
                        ELSE UNCHANGED indexVars

(* A failed push is logged; so is a digest that could not be saved, and the *)
(* entry may expect an older referrer after a crash.                        *)
PushToolSpecReferrer(t) ==
    /\ build[t] = "registered"
    /\ \/ /\ ~outage
          /\ t \in image
          /\ referrer' = [referrer EXCEPT ![t] = @ \cup {builds[t]}]
          /\ attached' = attached \cup {t}
          /\ SetSpecReferrerDigest(t, builds[t])
       \/ UNCHANGED <<indexVars, referrer, attached>>
    /\ build' = [build EXCEPT ![t] = "pushed"]
    /\ UNCHANGED <<crashes, image, outage, opaque, changes, builds, fastVars,
                   slowVars>>

-----------------------------------------------------------------------------
(* RetractTool and DeleteTool.  A call reads the entry first and is answered *)
(* at once if the phase is reached already.  What it read decides nothing   *)
(* more: the transition looks at the phase again, under the lock, and there *)
(* is none from a phase to itself.  A call is therefore the one step of its *)
(* transition; a refused one is answered by another read.                   *)

SetLifecyclePhase(t, target) ==
    /\ t \in Registered
    /\ target \in validLifecycleTransitions(mem[t].phase)
    /\ Save([mem EXCEPT ![t].phase = target])

RetractTool(t) ==
    /\ SetLifecyclePhase(t, "Retracted")
    /\ UNCHANGED <<crashes, harborVars, buildVars, fastVars, slowVars>>

DeleteTool(t) ==
    /\ SetLifecyclePhase(t, "Deleted")
    /\ UNCHANGED <<crashes, harborVars, buildVars, fastVars, slowVars>>

-----------------------------------------------------------------------------
(* reconcileExistence: FastRun passes and ReconcileOne *)

PartialCountsAsHealthy(imageFound, referrerFound) ==
    IF imageFound THEN "Healthy" ELSE IF referrerFound THEN "Orphaned" ELSE "Missing"

judgeHealth(imageFound, referrerFound) ==
    IF imageFound
    THEN IF referrerFound THEN "Healthy" ELSE "Partial"
    ELSE IF referrerFound THEN "Orphaned" ELSE "Missing"

FastRun(c) ==
    /\ c \in Loops
    /\ step[c] = "idle"
    /\ todo[c] = {}
    /\ todo' = [todo EXCEPT ![c] = Registered]
    /\ wanted' = [wanted EXCEPT ![c] = [t \in Tools |-> mem[t].spec]]
    /\ UNCHANGED <<indexVars, crashes, harborVars, buildVars, checking,
                   imageOK, step, slowVars>>

ReconcileOne(c, t) ==
    /\ c \notin Loops
    /\ step[c] = "idle"
    /\ todo[c] = {}
    /\ t \in Registered
    /\ todo' = [todo EXCEPT ![c] = {t}]
    /\ wanted' = [wanted EXCEPT ![c][t] = mem[t].spec]
    /\ UNCHANGED <<indexVars, crashes, harborVars, builds, checking,
                   imageOK, step, slowVars>>

(* Harbor's notifications may come at any time, or never. *)
HarborWebhook(c, t) == ReconcileOne(c, t) /\ UNCHANGED build

(* The last step of a registration. *)
ReconcileAfterPush(c, t) ==
    /\ build[t] = "pushed"
    /\ ReconcileOne(c, t)
    /\ build' = [build EXCEPT ![t] = "idle"]

(* An error of either request ends the check without a verdict. *)
GiveUp(c) ==
    /\ step' = [step EXCEPT ![c] = "idle"]
    /\ checking' = [checking EXCEPT ![c] = NoTool]
    /\ imageOK' = [imageOK EXCEPT ![c] = FALSE]

ImageExists(c, t) ==
    /\ step[c] = "idle"
    /\ t \in todo[c]
    /\ todo' = [todo EXCEPT ![c] = @ \ {t}]
    /\ \/ /\ ~outage
          /\ checking' = [checking EXCEPT ![c] = t]
          /\ imageOK' = [imageOK EXCEPT ![c] = t \in image]
          /\ step' = [step EXCEPT ![c] = "referrer"]
          /\ UNCHANGED wanted
       \/ outage /\ GiveUp(c) /\ wanted' = [wanted EXCEPT ![c][t] = 0]
    /\ UNCHANGED <<indexVars, crashes, harborVars, buildVars, slowVars>>

(* A recorded digest is the only acceptable witness; without one, any       *)
(* referrer whose payload names the entry is.                               *)
Witnessed(t, digest) == IF digest = 0 THEN referrer[t] # {} ELSE digest \in referrer[t]

(* Absence needs the whole listing to be read.  The witness may be among    *)
(* the referrers that can be read, or beyond them.  The walk itself is in   *)
(* ReferrerWitness.                                                         *)
SpecReferrerWitness(c) ==
    LET t == checking[c]
        found == Witnessed(t, wanted[c][t])
    IN  /\ step[c] = "referrer"
        /\ \/ /\ ~outage
              /\ t \in opaque => found
              /\ step' = [step EXCEPT ![c] = judgeHealth(imageOK[c], found)]
              /\ UNCHANGED <<checking, imageOK>>
           \/ (outage \/ t \in opaque) /\ GiveUp(c)
        /\ wanted' = [wanted EXCEPT ![c][t] = 0]
        /\ UNCHANGED <<indexVars, crashes, harborVars, buildVars, todo, slowVars>>

OnlyDegrades(c) ==
    /\ step[c] \in Healths
    /\ CompareAndSetIntegrityHealth(checking[c], "Healthy", step[c])
    /\ GiveUp(c)
    /\ UNCHANGED <<crashes, harborVars, buildVars, todo, wanted, slowVars>>

RecordVerdict(c) ==
    /\ step[c] \in Healths
    /\ SetIntegrityHealth(checking[c], step[c])
    /\ GiveUp(c)
    /\ UNCHANGED <<crashes, harborVars, buildVars, todo, wanted, slowVars>>

-----------------------------------------------------------------------------
(* SlowRun and reconcileReachability *)

SlowRun ==
    /\ slowTodo = {} /\ slowTool = NoTool
    /\ slowTodo' = {t \in Registered : mem[t].health = "Healthy"}
    /\ UNCHANGED <<indexVars, crashes, harborVars, buildVars, fastVars,
                   slowTool>>

(* Only a confirmed 404 is a failed pull; an error is no verdict. *)
PullReachable(t) ==
    /\ slowTool = NoTool
    /\ t \in slowTodo
    /\ slowTodo' = slowTodo \ {t}
    /\ slowTool' = IF ~outage /\ t \notin image THEN t ELSE NoTool
    /\ UNCHANGED <<indexVars, crashes, harborVars, buildVars, fastVars>>

reconcileReachability ==
    /\ slowTool # NoTool
    /\ CompareAndSetIntegrityHealth(slowTool, "Healthy", "Unreachable")
    /\ slowTool' = NoTool
    /\ UNCHANGED <<crashes, harborVars, buildVars, fastVars, slowTodo>>

-----------------------------------------------------------------------------
(* Harbor, crash and restart *)

Change ==
    /\ changes < MaxChanges
    /\ changes' = changes + 1

HarborLoses(t) ==
    /\ Change
    /\ \/ t \in image /\ image' = image \ {t} /\ UNCHANGED referrer
       \/ \E digest \in referrer[t] :
             referrer' = [referrer EXCEPT ![t] = @ \ {digest}] /\ UNCHANGED image
    /\ UNCHANGED <<indexVars, crashes, attached, outage, opaque, buildVars, fastVars, slowVars>>

Outage ==
    /\ Change
    /\ outage' = ~outage
    /\ UNCHANGED <<indexVars, crashes, image, referrer, attached, opaque, buildVars,
                   fastVars, slowVars>>

ListingChanges(t) ==
    /\ Change
    /\ opaque' = IF t \in opaque THEN opaque \ {t} ELSE opaque \cup {t}
    /\ UNCHANGED <<indexVars, crashes, image, referrer, attached, outage, buildVars,
                   fastVars, slowVars>>

CrashRestart ==
    /\ crashes < MaxCrashes
    /\ crashes' = crashes + 1
    /\ mem' = disk
    /\ build' = [t \in Tools |-> "idle"]
    /\ todo' = [c \in Checkers |-> {}]
    /\ wanted' = [c \in Checkers |-> [t \in Tools |-> 0]]
    /\ checking' = [c \in Checkers |-> NoTool]
    /\ imageOK' = [c \in Checkers |-> FALSE]
    /\ step' = [c \in Checkers |-> "idle"]
    /\ slowTodo' = {}
    /\ slowTool' = NoTool
    /\ UNCHANGED <<disk, saveFailures, harborVars, builds>>

-----------------------------------------------------------------------------
(* Specification *)

Init ==
    /\ mem = [t \in Tools |-> [NewEntry EXCEPT !.phase = "Absent"]]
    /\ disk = mem
    /\ saveFailures = 0
    /\ crashes = 0
    /\ image = {} /\ referrer = [t \in Tools |-> {}] /\ attached = {}
    /\ outage \in BOOLEAN
    /\ opaque \in SUBSET Tools
    /\ changes = 0
    /\ build = [t \in Tools |-> "idle"]
    /\ builds = [t \in Tools |-> 0]
    /\ todo = [c \in Checkers |-> {}]
    /\ wanted = [c \in Checkers |-> [t \in Tools |-> 0]]
    /\ checking = [c \in Checkers |-> NoTool]
    /\ imageOK = [c \in Checkers |-> FALSE]
    /\ step = [c \in Checkers |-> "idle"]
    /\ slowTodo = {}
    /\ slowTool = NoTool

Check(c) ==
    \/ FastRun(c)
    \/ \E t \in Tools : ImageExists(c, t)
    \/ SpecReferrerWitness(c)
    \/ RecordVerdict(c)

SlowLoop == SlowRun \/ (\E t \in Tools : PullReachable(t)) \/ reconcileReachability

Next ==
    \/ \E t \in Tools :
         \/ RegisterTool(t) \/ PushToolSpecReferrer(t)
         \/ RetractTool(t) \/ DeleteTool(t)
         \/ \E c \in Checkers : HarborWebhook(c, t) \/ ReconcileAfterPush(c, t)
         \/ HarborLoses(t) \/ ListingChanges(t)
    \/ \E c \in Checkers : Check(c)
    \/ SlowLoop
    \/ Outage
    \/ CrashRestart

Spec == Init /\ [][Next]_vars

(* Tickers tick and goroutines are scheduled; every check in progress ends. *)
Fairness ==
    /\ \A c \in Checkers : WF_vars(Check(c))
    /\ WF_vars(SlowLoop)
    /\ \A t \in Tools : WF_vars(PushToolSpecReferrer(t))

FairSpec == Spec /\ Fairness

-----------------------------------------------------------------------------
(* Properties *)

TypeOK ==
    /\ mem \in [Tools -> Entry]
    /\ disk \in [Tools -> Entry]
    /\ saveFailures \in 0..MaxSaveFailures
    /\ crashes \in 0..MaxCrashes
    /\ image \subseteq Tools /\ attached \subseteq Tools
    /\ referrer \in [Tools -> SUBSET Digests]
    /\ \A t \in Tools : referrer[t] # {} => t \in attached
    /\ outage \in BOOLEAN
    /\ opaque \subseteq Tools
    /\ changes \in 0..MaxChanges
    /\ build \in [Tools -> {"idle", "registered", "pushed"}]
    /\ builds \in [Tools -> 0..MaxBuilds]
    /\ todo \in [Checkers -> SUBSET Tools]
    /\ wanted \in [Checkers -> [Tools -> Digests \cup {0}]]
    /\ checking \in [Checkers -> Tools \cup {NoTool}]
    /\ imageOK \in [Checkers -> BOOLEAN]
    /\ step \in [Checkers -> {"idle", "referrer"} \cup Healths]
    /\ slowTodo \subseteq Tools
    /\ slowTool \in Tools \cup {NoTool}

(* What the index file says of a tool's phase never goes back: neither a    *)
(* rebuild of the same content, nor a racing call, a reconcile write, a     *)
(* failed save or a restart brings a retracted or deleted tool back.        *)
Rank(phase) ==
    CASE phase = "Absent" -> 0 [] phase = "Active" -> 1
      [] phase = "Retracted" -> 2 [] phase = "Deleted" -> 3

PhaseNeverReturns ==
    [][\A t \in Tools : Rank(disk[t].phase) <= Rank(disk'[t].phase)]_vars

(* A slow verdict never hides what the fast loop found in the meantime:     *)
(* whatever an entry was when the pull began, it becomes Unreachable only   *)
(* while it is Healthy.                                                     *)
SlowNeverHidesFast ==
    [][\A t \in Tools :
         mem'[t].health = "Unreachable" /\ mem[t].health # "Unreachable"
         => mem[t].health = "Healthy" \/ mem' = disk]_vars

(* Healthy is earned: it, and the Unreachable that follows it, is shown     *)
(* only for a tool whose spec referrer was attached at some time.           *)
HealthyIsEarned ==
    \A t \in Tools :
        {mem[t].health, disk[t].health} \cap {"Healthy", "Orphaned", "Unreachable"} # {}
        => t \in attached

(* "reconcile-first: correct state even without webhooks": once Harbor is   *)
(* reachable, changes no more and lets all referrers of a tool be read, its *)
(* entry ends up with the health its image, and the referrer it expects,    *)
(* deserve, whatever stale verdicts are still under way.  Of a tool whose   *)
(* listing stays opaque nothing is claimed: the check has no verdict.       *)
Deserved(t) == judgeHealth(t \in image, Witnessed(t, mem[t].spec))

HealthConverges ==
    \A t \in Tools :
        (<>[](~outage /\ t \notin opaque))
        => <>[](t \in Registered => mem[t].health = Deserved(t))

-----------------------------------------------------------------------------
(* Statements of the repository that the code does not keep: each one has   *)
(* a counterexample, described in the README.                               *)

(* HARBOR_WEBHOOK_EVENTS.md, for a network outage: "SlowRun: pull failure   *)
(* -> Unreachable"; INDEX_SCHEMA.md: "Unreachable: Harbor API access        *)
(* failure (transient)".                                                    *)
OutageShowsUnreachable ==
    \A t \in Tools :
        ~<>[](outage /\ t \in image \cap Registered
              /\ Witnessed(t, mem[t].spec) /\ mem[t].health = "Healthy")

(* referrer.go on a failed push: "integrity_health will remain Partial      *)
(* until the reconcile loop retries".                                       *)
ReferrerPushIsRetried ==
    \A t \in Tools :
        (<>[](~outage /\ t \in image \cap Registered)) => <>(t \in attached)
=============================================================================
