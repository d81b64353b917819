-------------------------- MODULE ObservedProfiles --------------------------
(***************************************************************************)
(* The observed profiles of a tool (pkg/validation, service.go).  A check  *)
(* submitted over gRPC is stored; a successful one is attached to the      *)
(* image as an OCI referrer (pkg/oras, referrer.go), and the referrer is   *)
(* then recorded in the tool's index entry, where all of them are ranked   *)
(* and those beyond the retained number are marked for garbage collection  *)
(* (pkg/index, store.go).  Submissions run concurrently and arrive in any  *)
(* order of their validation.  NodeVault deletes nothing: an external      *)
(* cleanup reads the marked referrers (pkg/catalogrest, server.go) and     *)
(* removes them from the registry.                                         *)
(***************************************************************************)
EXTENDS Naturals, Sequences, FiniteSets

CONSTANTS
    Checks,       \* ToolCheckRecords of one image
    Retain,       \* DefaultToolProfileReferrerRetain
    MaxTime,      \* bound: the server's clock
    MaxFailures,  \* bound: saves and pushes that fail
    MaxCrashes    \* bound: process crashes

(* What is read of a check: checked_at, 0 for "use server time"; whether it *)
(* succeeded with a validation hash; and the profile it carries, numbered   *)
(* in the order of the digests the profiles have.                           *)
Check == [id: STRING, checkedAt: Nat, observed: BOOLEAN, profile: Nat]

ASSUME ChecksAssumption == Checks \subseteq Check /\ Cardinality(Checks) = Cardinality({c.id : c \in Checks})
ASSUME RetainAssumption == Retain \in Nat \ {0}
ASSUME BoundsAssumption == {MaxTime, MaxFailures, MaxCrashes} \subseteq Nat

VARIABLES
    mem,       \* the index: checks stored, whether the tool is registered,
               \* its referrers by rank, and its ObservedProfileDigest
    disk,      \* the index file
    registry,  \* digests of the referrers the registry has
    pushed,    \* history: pairs of a check and the digest it was pushed as
    handler,   \* per check, the call that submits it
    cleanup,   \* digests the external cleanup has read and not deleted yet
    now,       \* the server's clock
    failures, crashes

registryVars == <<registry, pushed>>
profileVars == <<mem, disk, registryVars, handler, cleanup, now, failures, crashes>>

(* The registry's manifest names the profile and the second it was made.    *)
Digests == [profile: Nat, created: Nat]
NoDigest == [profile |-> 0, created |-> 0]

ToolProfileReferrer ==
    [check: Checks, digest: Digests, validatedAt: Nat, observedAt: Nat,
     status: {"ACTIVE", "GC_CANDIDATE"}, markedAt: Nat]

EmptyIndex == [checks |-> {}, registered |-> FALSE, referrers |-> <<>>, latest |-> NoDigest]
Idle == [pc |-> "idle", validatedAt |-> 0, observedAt |-> 0, digest |-> NoDigest]

-----------------------------------------------------------------------------
(* Writes of the index.  A save that fails leaves the change in memory and, *)
(* when it fails after the rename, in the file as well.                     *)

Fail ==
    /\ failures < MaxFailures
    /\ failures' = failures + 1

Saved(new) == mem' = new /\ disk' = new /\ UNCHANGED failures

NotSaved(new) ==
    /\ Fail
    /\ mem' = new
    /\ disk' \in {disk, new}

(* The entry of the image may be appended before or after its checks.       *)
RegisterTool ==
    /\ ~mem.registered
    /\ LET new == [mem EXCEPT !.registered = TRUE] IN Saved(new) \/ NotSaved(new)
    /\ UNCHANGED <<registryVars, handler, cleanup, now, crashes>>

-----------------------------------------------------------------------------
(* Rank and marks *)

(* The most recent validation first; then the one observed last, then the   *)
(* smaller digest.                                                          *)
Before(a, b) ==
    IF a.validatedAt # b.validatedAt THEN a.validatedAt > b.validatedAt
    ELSE IF a.observedAt # b.observedAt THEN a.observedAt > b.observedAt
    ELSE \/ a.digest.profile < b.digest.profile
         \/ a.digest.profile = b.digest.profile /\ a.digest.created < b.digest.created

(* A referrer keeps the time of its mark as long as it is marked.           *)
Marked(ref, rank, time) ==
    IF rank <= Retain THEN [ref EXCEPT !.status = "ACTIVE", !.markedAt = 0]
    ELSE [ref EXCEPT !.status = "GC_CANDIDATE",
                     !.markedAt = IF ref.status = "GC_CANDIDATE" THEN @ ELSE time]

NewcomerKept(refs, time) ==
    LET ranked == <<refs[Len(refs)]>> \o SubSeq(refs, 1, Len(refs) - 1)
    IN  [i \in DOMAIN ranked |-> Marked(ranked[i], i, time)]

(* A stable sort: referrers that tie keep the order they had.  The rank of  *)
(* one is the number of those that precede it, and one.                     *)
Precedes(refs, i, j) ==
    \/ Before(refs[i], refs[j])
    \/ ~Before(refs[j], refs[i]) /\ i < j

Rank(refs, i) == Cardinality({j \in DOMAIN refs : Precedes(refs, j, i)}) + 1

AtRank(refs, r) == CHOOSE i \in DOMAIN refs : Rank(refs, i) = r

rankToolProfileReferrers(refs, time) ==
    [r \in DOMAIN refs |-> Marked(refs[AtRank(refs, r)], r, time)]

BeyondRank(refs) == {i \in DOMAIN refs : i >= Retain}

gcCandidates(refs) == {i \in DOMAIN refs : refs[i].status = "GC_CANDIDATE"}

-----------------------------------------------------------------------------
(* SubmitToolCheckRecord *)

(* The check is stored once, with the time it was made or else the server's; *)
(* a repeated check_id is refused.  Certification follows (Certification).  *)
SubmitToolCheckRecord(c) ==
    /\ c \notin mem.checks
    /\ LET new == [mem EXCEPT !.checks = @ \cup {c}]
           at == IF c.checkedAt = 0 THEN now ELSE c.checkedAt
       IN  \/ /\ Saved(new)
              /\ handler' = [handler EXCEPT ![c] = [Idle EXCEPT !.pc = "stored", !.validatedAt = at]]
           \/ NotSaved(new) /\ UNCHANGED handler
    /\ UNCHANGED <<registryVars, cleanup, now, crashes>>

(* Only an observed profile of a registered image is pushed: the manifest   *)
(* is made, and sent.                                                       *)
pushProfileReferrer(c) ==
    /\ handler[c].pc = "stored"
    /\ handler' = [handler EXCEPT ![c] =
                     IF c.observed /\ mem.registered
                     THEN [@ EXCEPT !.pc = "push",
                                    !.digest = [profile |-> c.profile, created |-> now]]
                     ELSE Idle]
    /\ UNCHANGED <<mem, disk, registryVars, cleanup, now, failures, crashes>>

Pushed(c) ==
    /\ registry' = registry \cup {handler[c].digest}
    /\ pushed' = pushed \cup {<<c, handler[c].digest>>}

Recording(c) == handler' = [handler EXCEPT ![c].pc = "record", ![c].observedAt = now]

PushErrorIgnored(c) ==
    /\ handler[c].pc = "push"
    /\ \/ Pushed(c) /\ UNCHANGED failures
       \/ Fail /\ UNCHANGED registryVars
    /\ Recording(c)
    /\ UNCHANGED <<mem, disk, cleanup, now, crashes>>

(* A push that is reported as failed, and may have arrived, is only logged. *)
PushToolProfileReferrer(c) ==
    /\ handler[c].pc = "push"
    /\ \/ Pushed(c) /\ Recording(c) /\ UNCHANGED failures
       \/ /\ Fail
          /\ Pushed(c) \/ UNCHANGED registryVars
          /\ handler' = [handler EXCEPT ![c] = Idle]
    /\ UNCHANGED <<mem, disk, cleanup, now, crashes>>

(* The referrer joins those of the entry, all of them are ranked again, and *)
(* the first is the observed profile.  A failed save is only logged.        *)
RecordToolProfileReferrer(c) ==
    LET ref == [check |-> c, digest |-> handler[c].digest,
                validatedAt |-> handler[c].validatedAt, observedAt |-> handler[c].observedAt,
                status |-> "ACTIVE", markedAt |-> 0]
        ranked == rankToolProfileReferrers(Append(mem.referrers, ref), now)
        new == [mem EXCEPT !.referrers = ranked, !.latest = ranked[1].digest]
    IN  /\ handler[c].pc = "record"
        /\ Saved(new) \/ NotSaved(new)
        /\ handler' = [handler EXCEPT ![c] = Idle]
        /\ UNCHANGED <<registryVars, cleanup, now, crashes>>

-----------------------------------------------------------------------------
(* Cleanup, time and crashes *)

(* What the external cleanup reads of NodeVault's marks.                    *)
ListToolProfileGCCandidates ==
    /\ cleanup' = {mem.referrers[i].digest : i \in gcCandidates(mem.referrers)}
    /\ cleanup' # cleanup
    /\ UNCHANGED <<mem, disk, registryVars, handler, now, failures, crashes>>

DeleteReferrer(d) ==
    /\ registry' = registry \ {d}
    /\ cleanup' = cleanup \ {d}
    /\ UNCHANGED <<mem, disk, pushed, handler, now, failures, crashes>>

Tick ==
    /\ now < MaxTime
    /\ now' = now + 1
    /\ UNCHANGED <<mem, disk, registryVars, handler, cleanup, failures, crashes>>

CrashRestart ==
    /\ crashes < MaxCrashes
    /\ crashes' = crashes + 1
    /\ mem' = disk
    /\ handler' = [c \in Checks |-> Idle]
    /\ UNCHANGED <<disk, registryVars, cleanup, now, failures>>

-----------------------------------------------------------------------------
(* Specification *)

ProfilesInit ==
    /\ mem = EmptyIndex
    /\ disk = EmptyIndex
    /\ registry = {}
    /\ pushed = {}
    /\ handler = [c \in Checks |-> Idle]
    /\ cleanup = {}
    /\ now = 1
    /\ failures = 0
    /\ crashes = 0

ProfilesNext ==
    \/ RegisterTool
    \/ \E c \in Checks :
         \/ SubmitToolCheckRecord(c) \/ pushProfileReferrer(c)
         \/ PushToolProfileReferrer(c) \/ RecordToolProfileReferrer(c)
    \/ ListToolProfileGCCandidates
    \/ \E d \in cleanup : DeleteReferrer(d)
    \/ Tick
    \/ CrashRestart

ProfilesSpec == ProfilesInit /\ [][ProfilesNext]_profileVars

-----------------------------------------------------------------------------
(* Properties *)

Retained(idx) == {i \in DOMAIN idx.referrers : idx.referrers[i].status = "ACTIVE"}
Candidates(idx) == DOMAIN idx.referrers \ Retained(idx)

(* Whatever the order in which concurrent submissions were pushed and       *)
(* recorded, the referrers kept are the Retain most recent validations (all *)
(* of them while there are fewer), in memory and in the file, and           *)
(* ObservedProfileDigest names one that no validation is more recent than.  *)
RetainedAreLatest ==
    \A idx \in {mem, disk} :
        LET refs == idx.referrers
        IN  /\ Cardinality(Retained(idx)) = (IF Len(refs) < Retain THEN Len(refs) ELSE Retain)
            /\ \A i \in Retained(idx), j \in Candidates(idx) :
                   refs[i].validatedAt >= refs[j].validatedAt
            /\ refs # <<>> => \E i \in DOMAIN refs :
                   /\ refs[i].digest = idx.latest
                   /\ \A j \in DOMAIN refs : refs[i].validatedAt >= refs[j].validatedAt

(* Every referrer of the index, also after a failed save and a crash, was   *)
(* pushed to the registry, once per check, for a check that the same index  *)
(* holds.                                                                   *)
RecordedWasPushed ==
    \A idx \in {mem, disk} : \A i, j \in DOMAIN idx.referrers :
        LET ref == idx.referrers[i]
        IN  /\ <<ref.check, ref.digest>> \in pushed
            /\ ref.check \in idx.checks
            /\ idx.referrers[j].check = ref.check => j = i

(* The cleanup reads the marks at one time and deletes at another, while    *)
(* more referrers are recorded and ranked: without a failed save or a       *)
(* crash it removes no referrer that is kept, unless a marked one has the   *)
(* same manifest.                                                           *)
CleanupSparesRetained ==
    failures = 0 /\ crashes = 0 =>
        \A i \in Retained(mem) :
            \/ mem.referrers[i].digest \in registry
            \/ \E j \in Candidates(mem) :
                   mem.referrers[j].digest = mem.referrers[i].digest

-----------------------------------------------------------------------------
(* Why they hold: an inductive invariant *)

Index ==
    [checks: SUBSET Checks, registered: BOOLEAN, referrers: Seq(ToolProfileReferrer), latest: Digests]

(* The variables hold what their comments say.                              *)
ProfilesTypeOK ==
    /\ {mem, disk} \subseteq Index
    /\ registry \subseteq Digests
    /\ pushed \subseteq Checks \X Digests
    /\ handler \in [Checks -> [pc: {"idle", "stored", "push", "record"},
                              validatedAt: Nat, observedAt: Nat, digest: Digests]]
    /\ cleanup \subseteq Digests
    /\ {now, failures, crashes} \subseteq Nat

(* The referrers are stored by rank, and the mark follows from the rank.    *)
Ranked(idx) ==
    LET refs == idx.referrers
    IN  /\ \A i, j \in DOMAIN refs : i < j => ~Before(refs[j], refs[i])
        /\ \A i \in DOMAIN refs : refs[i].status = "ACTIVE" <=> i <= Retain
        /\ refs # <<>> => idx.latest = refs[1].digest

RankInv == \A idx \in {mem, disk} : Ranked(idx)

(* A check that is being processed is stored and not recorded yet; what is  *)
(* about to be recorded was pushed.                                         *)
HandlerInv ==
    \A c \in Checks :
        /\ handler[c].pc # "idle" =>
              /\ c \in mem.checks
              /\ \A i \in DOMAIN mem.referrers : mem.referrers[i].check # c
        /\ handler[c].pc = "record" => <<c, handler[c].digest>> \in pushed

CandidateDigests == {mem.referrers[i].digest : i \in Candidates(mem)}

(* What the cleanup has read is still marked, and it removed nothing else.  *)
CleanupInv ==
    failures = 0 /\ crashes = 0 =>
        /\ cleanup \subseteq CandidateDigests
        /\ \A p \in pushed : p[2] \in registry \cup CandidateDigests

ProfilesInv == ProfilesTypeOK /\ RankInv /\ RecordedWasPushed /\ HandlerInv /\ CleanupInv

-----------------------------------------------------------------------------
(* Statements of the repository that the code does not keep: each one has   *)
(* a counterexample, described in the README.                               *)

(* service.go: the profile digest "stays unset until a future validation    *)
(* run retries": a stored check that was pushed is recorded, or in progress.*)
PushedIsRecorded ==
    \A p \in pushed :
        \/ handler[p[1]].pc # "idle"
        \/ \E i \in DOMAIN mem.referrers : mem.referrers[i].check = p[1]

(* store.go: candidates are listed "most-recently-marked first".            *)
MostRecentlyMarkedFirst ==
    \A i, j \in Candidates(mem) :
        i < j => mem.referrers[i].markedAt >= mem.referrers[j].markedAt
=============================================================================
