--------------------------- MODULE Certification ---------------------------
(***************************************************************************)
(* Certification of tool images (pkg/certification, service.go) from the   *)
(* check and scan records that NodeSentinel submits (pkg/catalogrest,      *)
(* server.go; pkg/validation, service.go).  Every submission runs in a     *)
(* handler of its own: it stores the record, reads what it needs of the    *)
(* other records, writes the certification and then the catalog entry,     *)
(* each under its own acquisition of the index lock and with its own save. *)
(* At startup RetractUnprovenCertifications runs before any intake.  The   *)
(* status of the correlated validation request, which the first save also  *)
(* covers, is the subject of ValidationRequest.                            *)
(***************************************************************************)
EXTENDS Naturals, Sequences, FiniteSets

CONSTANTS
    Checks,          \* ToolCheckRecords
    Submitted,       \* those that are submitted to this release
    Scans,           \* ToolScanRecords that may be submitted
    Images,          \* image digests
    Keys,            \* ToolSpecDigest + Platform
    NoKey,           \* one of the two is empty
    Tools,           \* casHashes
    ImageOf,         \* the image an index entry registers
    None,
    EarlierIndexes,  \* what an earlier release may have left in the file
    MaxFailures,     \* bound: saves that fail before the rename
    MaxCrashes       \* bound: process crashes

(* What certification reads of a check: its driving image and key, the four *)
(* parts of its evidence, and whether it closes its validation request.     *)
Check == [id: STRING, image: Images, key: Keys \cup {NoKey}, named: BOOLEAN,
          succeeded: BOOLEAN, l5a: BOOLEAN, hash: BOOLEAN, outputs: BOOLEAN,
          terminal: BOOLEAN]
(* ScannedAt is the submitter's clock over gRPC.                            *)
Scan == [id: STRING, image: Images, at: Nat, l5b: BOOLEAN, terminal: BOOLEAN,
         blocked: BOOLEAN]

Cert == [image: Images, key: Keys \cup {NoKey}, cas: Tools \cup {None},
         active: BOOLEAN, check: Checks \cup {None}, scan: Scans \cup {None}]
CatalogEntry == [image: Images, check: Checks \cup {None}, active: BOOLEAN]

Index == [entries: Seq(Tools), checks: Seq(Checks), scans: Seq(Scans),
          certs: Seq(Cert), catalog: [Tools -> CatalogEntry \cup {None}]]

EmptyIndex == [entries |-> <<>>, checks |-> <<>>, scans |-> <<>>, certs |-> <<>>,
               catalog |-> [t \in Tools |-> None]]

ASSUME RecordsAssumption ==
    /\ Submitted \subseteq Checks
    /\ Checks \subseteq Check /\ Scans \subseteq Scan /\ Checks \cap Scans = {}
    /\ ImageOf \in [Tools -> Images]
    /\ None \notin Tools \cup Checks \cup Scans \cup CatalogEntry \cup Cert
    /\ NoKey \notin Keys
ASSUME EarlierAssumption == EmptyIndex \in EarlierIndexes /\ EarlierIndexes \subseteq Index
ASSUME BoundsAssumption == {MaxFailures, MaxCrashes} \subseteq Nat

(* Not transitive: a record without a key has the key of every record of    *)
(* its image.                                                               *)
sameCertifiedToolKey(a, b) ==
    IF a.key # NoKey /\ b.key # NoKey THEN a.key = b.key ELSE a.image = b.image

VARIABLES
    mem,        \* the index in memory
    disk,       \* the index file
    failures, crashes,
    handler,    \* per record submitted: the handler that evaluates it
    answer,     \* per check: certification_status of the last response
    phase,      \* of the process: list, certs, entries, serving, exited
    todo,       \* certifications of startup's snapshot still to prove
    survivor,   \* per casHash, the first certification that was proved
    retracted,  \* casHashes and images startup retracted
    stale       \* catalog entries startup has still to look at

storeVars == <<mem, disk, failures>>
startVars == <<phase, todo, survivor, retracted, stale>>
vars == <<storeVars, crashes, handler, answer, startVars>>

Records == Checks \cup Scans
Ranges(s) == {s[i] : i \in DOMAIN s}
Idle == [pc |-> "idle", check |-> None, scan |-> None, cas |-> None]
Answers == {"none", "pending", "certified", "failed", "already_recorded"}
Phases == {"list", "certs", "entries", "serving", "exited"}

-----------------------------------------------------------------------------
(* Reads of the index *)

(* The first element of a list at one of the positions that satisfy a       *)
(* condition, as the loops of the store return it.                          *)
Least(hits) == CHOOSE i \in hits : \A j \in hits : i <= j
First(s, hits) == IF hits = {} THEN None ELSE s[Least(hits)]

(* The first stored of those with the latest ScannedAt.                     *)
LatestScan(image) ==
    LET hits == {i \in DOMAIN mem.scans : mem.scans[i].image = image}
    IN  First(mem.scans, {i \in hits : \A j \in hits : mem.scans[j].at <= mem.scans[i].at})

GetByImageDigest(image) ==
    First(mem.entries, {i \in DOMAIN mem.entries : ImageOf[mem.entries[i]] = image})

(* evidenceIneligibility(c) = "" *)
Admissible(c) == c.succeeded /\ c.l5a /\ c.hash /\ c.outputs

CertifiesOnCheck(c) == Admissible(c) /\ c.terminal

terminalL5B(s) == s.l5b /\ s.terminal

FirstAdmissible(image) ==
    First(mem.checks, {i \in DOMAIN mem.checks :
                         mem.checks[i].image = image /\ Admissible(mem.checks[i])})

(* unprovenReason(cert) = "", from the records stored in an index.          *)
Proven(idx, cert) ==
    /\ cert.check \in Ranges(idx.checks)
    /\ Admissible(cert.check)
    /\ cert.check.terminal \/ (cert.scan \in Ranges(idx.scans) /\ terminalL5B(cert.scan))

-----------------------------------------------------------------------------
(* Writes of the index.  A save that fails leaves the change in memory.     *)

Saved(new) == mem' = new /\ disk' = new /\ UNCHANGED failures

NotSaved(new) ==
    /\ failures < MaxFailures
    /\ failures' = failures + 1
    /\ mem' = new
    /\ UNCHANGED disk

(* UpsertCertifiedToolImageRecord replaces the first record with its key.   *)
Upsert(certs, cert) ==
    LET same == {i \in DOMAIN certs : sameCertifiedToolKey(certs[i], cert)}
    IN  IF same = {} THEN Append(certs, cert)
        ELSE [certs EXCEPT ![Least(same)] = cert]

WithCert(cert) == [mem EXCEPT !.certs = Upsert(@, cert)]
WithEntry(cas, entry) == [mem EXCEPT !.catalog[cas] = entry]

-----------------------------------------------------------------------------
(* Intake *)

Go(r, h) == handler' = [handler EXCEPT ![r] = h]
Evaluate(r) == Go(r, [Idle EXCEPT !.pc = "list"])
Return(r) == Go(r, Idle)
Respond(c, status) == answer' = [answer EXCEPT ![c] = status]
RespondTo(r, status) == IF r \in Checks THEN Respond(r, status) ELSE UNCHANGED answer

(* A build registers the tool (see Reconcile): the entry that binds an      *)
(* image to its casHash appears before, between or after its records.       *)
RegisterTool(t) ==
    /\ phase = "serving"
    /\ t \notin Ranges(mem.entries)
    /\ LET new == [mem EXCEPT !.entries = Append(@, t)] IN Saved(new) \/ NotSaved(new)
    /\ UNCHANGED <<crashes, handler, answer, startVars>>

handleSubmitCheckRecord(c) ==
    /\ phase = "serving"
    /\ c \notin Ranges(mem.checks)
    /\ LET new == [mem EXCEPT !.checks = Append(@, c)]
       IN  \/ /\ Saved(new)
              /\ IF CertifiesOnCheck(c)
                 THEN Evaluate(c) /\ UNCHANGED answer
                 ELSE Respond(c, "pending") /\ UNCHANGED handler
           \/ NotSaved(new) /\ UNCHANGED <<handler, answer>>
    /\ UNCHANGED <<crashes, startVars>>

(* A redelivery, whatever became of the first delivery.                     *)
DuplicateCheck(c) ==
    /\ phase = "serving"
    /\ c \in Ranges(mem.checks)
    /\ Respond(c, "already_recorded")
    /\ UNCHANGED <<storeVars, crashes, handler, startVars>>

EvaluateAfterCheck(c) ==
    /\ handler[c].pc = "list"
    /\ Go(c, [handler[c] EXCEPT !.pc = "certify", !.check = c, !.scan = LatestScan(c.image)])
    /\ UNCHANGED <<storeVars, crashes, answer, startVars>>

(* The scans that are evaluated at all.                                     *)
ScanDecides(s) == terminalL5B(s) \/ s.blocked

handleSubmitScanRecord(s) ==
    /\ phase = "serving"
    /\ s \notin Ranges(mem.scans)
    /\ LET new == [mem EXCEPT !.scans = Append(@, s)]
       IN  \/ Saved(new) /\ IF ScanDecides(s) THEN Evaluate(s) ELSE UNCHANGED handler
           \/ NotSaved(new) /\ UNCHANGED handler
    /\ UNCHANGED <<crashes, answer, startVars>>

(* Over gRPC a scan carries no stage, so it decides nothing unless its      *)
(* policy result is blocked.                                                *)
SubmitToolScanRecord(s) == ~s.l5b /\ handleSubmitScanRecord(s)

EvaluateAfterScan(s) ==
    /\ handler[s].pc = "list"
    /\ LET check == FirstAdmissible(s.image)
       IN  IF check = None
           THEN Return(s)
           ELSE Go(s, [handler[s] EXCEPT !.pc = "certify", !.check = check, !.scan = s])
    /\ UNCHANGED <<storeVars, crashes, answer, startVars>>

Blocked(scan) == scan # None /\ scan.blocked

(* certify, its first half: the certification record.                       *)
certify(r) ==
    LET h == handler[r]
        cas == GetByImageDigest(h.check.image)
        new == WithCert([image |-> h.check.image, key |-> h.check.key, cas |-> cas,
                         active |-> ~Blocked(h.scan), check |-> h.check, scan |-> h.scan])
    IN  /\ h.pc = "certify"
        /\ \/ ~h.check.named /\ Return(r) /\ RespondTo(r, "failed") /\ UNCHANGED storeVars
           \/ /\ h.check.named
              /\ Saved(new)
              /\ IF cas = None
                 THEN Return(r) /\ RespondTo(r, "certified")
                 ELSE Go(r, [h EXCEPT !.pc = "catalog", !.cas = cas]) /\ UNCHANGED answer
           \/ h.check.named /\ NotSaved(new) /\ Return(r) /\ RespondTo(r, "failed")
        /\ UNCHANGED <<crashes, startVars>>

EntryFromFirstCheck(r) ==
    LET h == handler[r]
        new == WithEntry(h.cas, [image |-> h.check.image, check |-> mem.checks[1],
                                 active |-> ~Blocked(h.scan)])
    IN  /\ h.pc = "catalog"
        /\ Saved(new)
        /\ RespondTo(r, "certified")
        /\ Return(r)
        /\ UNCHANGED <<crashes, startVars>>

(* Its second half: the catalog entry that NodePalette serves.              *)
UpsertToolFunctionCatalogEntry(r) ==
    LET h == handler[r]
        new == WithEntry(h.cas, [image |-> h.check.image, check |-> h.check,
                                 active |-> ~Blocked(h.scan)])
    IN  /\ h.pc = "catalog"
        /\ \/ Saved(new) /\ RespondTo(r, "certified")
           \/ NotSaved(new) /\ RespondTo(r, "failed")
        /\ Return(r)
        /\ UNCHANGED <<crashes, startVars>>

-----------------------------------------------------------------------------
(* RetractUnprovenCertifications, before any intake.  A failed save ends    *)
(* the process.                                                             *)

NothingRetracted == [cas |-> {}, images |-> {}]

RetractsNothing ==
    /\ phase = "list"
    /\ phase' = "serving"
    /\ UNCHANGED <<storeVars, crashes, handler, answer, todo, survivor, retracted, stale>>

(* The snapshot of the pass, which looks at the active ones only.           *)
ListCertifications ==
    /\ phase = "list"
    /\ phase' = "certs"
    /\ todo' = mem.certs
    /\ survivor' = [t \in Tools |-> None]
    /\ retracted' = NothingRetracted
    /\ UNCHANGED <<storeVars, crashes, handler, answer, stale>>

Survives ==
    LET cert == Head(todo)
    IN  /\ phase = "certs"
        /\ todo # <<>>
        /\ cert.active => Proven(mem, cert)
        /\ survivor' = [t \in Tools |->
                          IF cert.active /\ t = cert.cas /\ survivor[t] = None
                          THEN cert ELSE survivor[t]]
        /\ todo' = Tail(todo)
        /\ UNCHANGED <<storeVars, crashes, handler, answer, phase, retracted, stale>>

RetractUnproven ==
    LET cert == Head(todo)
        new == WithCert([cert EXCEPT !.active = FALSE])
    IN  /\ phase = "certs"
        /\ todo # <<>>
        /\ cert.active /\ ~Proven(mem, cert)
        /\ \/ /\ Saved(new)
              /\ retracted' = [cas |-> retracted.cas \cup ({cert.cas} \ {None}),
                               images |-> retracted.images \cup {cert.image}]
              /\ todo' = Tail(todo)
              /\ UNCHANGED phase
           \/ NotSaved(new) /\ phase' = "exited" /\ UNCHANGED <<retracted, todo>>
        /\ UNCHANGED <<crashes, handler, answer, survivor, stale>>

ListEntries ==
    /\ phase = "certs"
    /\ todo = <<>>
    /\ stale' = {t \in retracted.cas : mem.catalog[t] # None /\ mem.catalog[t].active}
    /\ phase' = "entries"
    /\ UNCHANGED <<storeVars, crashes, handler, answer, todo, survivor, retracted>>

PointsAtRetracted(t) == mem.catalog[t].image \in retracted.images

SurvivorIgnored(t) == [mem.catalog[t] EXCEPT !.active = FALSE]

(* What becomes of an active entry whose casHash lost a certification:      *)
(* keepCatalogForSurvivor, or retraction.                                   *)
KeptOrRetracted(t) ==
    LET entry == mem.catalog[t]
        cert == survivor[t]
    IN  IF cert = None THEN [entry EXCEPT !.active = FALSE]
        ELSE IF PointsAtRetracted(t)
        THEN [entry EXCEPT !.image = cert.image, !.check = cert.check]
        ELSE entry

ReviewEntry(t) ==
    LET new == WithEntry(t, KeptOrRetracted(t))
    IN  /\ phase = "entries"
        /\ t \in stale
        /\ \/ Saved(new) /\ stale' = stale \ {t} /\ UNCHANGED phase
           \/ /\ survivor[t] = None \/ PointsAtRetracted(t)
              /\ NotSaved(new) /\ phase' = "exited" /\ UNCHANGED stale
        /\ UNCHANGED <<crashes, handler, answer, todo, survivor, retracted>>

StartIntake ==
    /\ phase = "entries"
    /\ stale = {}
    /\ phase' = "serving"
    /\ UNCHANGED <<storeVars, crashes, handler, answer, todo, survivor, retracted, stale>>

(* The process is started again, from the index file.                       *)
Reset ==
    /\ mem' = disk
    /\ handler' = [r \in Records |-> Idle]
    /\ phase' = "list"
    /\ todo' = <<>>
    /\ survivor' = [t \in Tools |-> None]
    /\ retracted' = NothingRetracted
    /\ stale' = {}
    /\ UNCHANGED <<disk, failures, answer>>

RestartAfterExit == phase = "exited" /\ Reset /\ UNCHANGED crashes

CrashRestart == crashes < MaxCrashes /\ crashes' = crashes + 1 /\ Reset

-----------------------------------------------------------------------------

Init ==
    /\ disk \in EarlierIndexes
    /\ mem = disk
    /\ failures = 0
    /\ crashes = 0
    /\ handler = [r \in Records |-> Idle]
    /\ answer = [c \in Checks |-> "none"]
    /\ phase = "list"
    /\ todo = <<>>
    /\ survivor = [t \in Tools |-> None]
    /\ retracted = NothingRetracted
    /\ stale = {}

Startup ==
    \/ ListCertifications \/ Survives \/ RetractUnproven \/ ListEntries
    \/ (\E t \in Tools : ReviewEntry(t))
    \/ StartIntake
    \/ RestartAfterExit

Handle(r) ==
    \/ r \in Checks /\ EvaluateAfterCheck(r)
    \/ r \in Scans /\ EvaluateAfterScan(r)
    \/ certify(r)
    \/ UpsertToolFunctionCatalogEntry(r)

Submit ==
    \/ \E c \in Submitted : handleSubmitCheckRecord(c)
    \/ \E c \in Submitted : DuplicateCheck(c)
    \/ \E s \in Scans : handleSubmitScanRecord(s) \/ SubmitToolScanRecord(s)
    \/ \E t \in Tools : RegisterTool(t)

Next ==
    \/ Startup
    \/ Submit
    \/ \E r \in Records : Handle(r)
    \/ CrashRestart

Spec == Init /\ [][Next]_vars

-----------------------------------------------------------------------------
(* Properties *)

Handlers == [pc: {"idle", "list", "certify", "catalog"}, check: Checks \cup {None},
             scan: Scans \cup {None}, cas: Tools \cup {None}]

TypeOK ==
    /\ mem \in Index /\ disk \in Index
    /\ failures \in 0..MaxFailures
    /\ crashes \in 0..MaxCrashes
    /\ handler \in [Records -> Handlers]
    /\ answer \in [Checks -> Answers]
    /\ phase \in Phases
    /\ todo \in Seq(Cert)
    /\ survivor \in [Tools -> Cert \cup {None}]
    /\ retracted \in [cas: SUBSET Tools, images: SUBSET Images]
    /\ stale \subseteq Tools

(* Certifications that an earlier release left in a list in which another   *)
(* record has their key.  UpsertCertifiedToolImageRecord itself writes such *)
(* lists, its key test not being transitive, and a retraction of one of     *)
(* them may replace the other record and leave it ACTIVE.                   *)
Ambiguous ==
    UNION {{idx.certs[i] : i \in {i \in DOMAIN idx.certs :
                \E j \in DOMAIN idx.certs :
                    j # i /\ sameCertifiedToolKey(idx.certs[j], idx.certs[i])}} :
           idx \in EarlierIndexes}

(* While NodeVault serves, every active certification, in memory and in the *)
(* file, can be proved from the records stored beside it (an admissible     *)
(* check that is terminal or paired with a terminal L5-b scan), unless it   *)
(* is one that an earlier release left ambiguous (UnprovenIsRetracted       *)
(* below).  Neither concurrent handlers, failed saves and crashes, nor      *)
(* certifications of an earlier release with a key of their own, leave one  *)
(* that the next startup would have to retract; and no certification of     *)
(* this release joins the ambiguous ones.                                   *)
AllJustified(idx) ==
    \A i \in DOMAIN idx.certs : idx.certs[i].active =>
        Proven(idx, idx.certs[i]) \/ idx.certs[i] \in Ambiguous

CertificationsAreProven == phase = "serving" => AllJustified(mem) /\ AllJustified(disk)

(* Entries an earlier release left, as they were, rebuilt from one of its   *)
(* certifications, or retracted since.                                      *)
Backing(cert) == [image |-> cert.image, check |-> cert.check, active |-> TRUE]

LeftBehind(t) ==
    LET certs == UNION {Ranges(idx.certs) : idx \in EarlierIndexes}
        left == ({idx.catalog[t] : idx \in EarlierIndexes} \ {None})
                \cup {Backing(cert) : cert \in {c \in certs : c.cas = t}}
    IN  {None} \cup left \cup {[entry EXCEPT !.active = FALSE] : entry \in left}

(* What NodePalette serves is earned too: a catalog entry that this release *)
(* wrote names the image its casHash registers, although several tools      *)
(* share a name and version and their registrations race with their         *)
(* validation; and while it is active that image has a stored admissible    *)
(* check that is terminal or has a terminal L5-b scan of the same image.    *)
Earned(idx, entry) ==
    /\ entry.check \in Ranges(idx.checks)
    /\ entry.check.image = entry.image
    /\ Admissible(entry.check)
    /\ \/ entry.check.terminal
       \/ \E s \in Ranges(idx.scans) : s.image = entry.image /\ terminalL5B(s)

CatalogIsEarned ==
    \A idx \in {mem, disk} : \A t \in Tools :
        LET entry == idx.catalog[t]
        IN  entry \notin LeftBehind(t) =>
                entry.image = ImageOf[t] /\ (entry.active => Earned(idx, entry))

(* Startup withdraws no entry that a provable active certification still    *)
(* backs.                                                                   *)
SurvivorKeepsItsEntry ==
    [][\A t \in Tools :
         /\ phase = "entries" /\ mem.catalog[t] # None /\ mem.catalog[t].active
         /\ ~mem'.catalog[t].active
         => \A i \in DOMAIN mem.certs :
                mem.certs[i].active /\ mem.certs[i].cas = t => ~Proven(mem, mem.certs[i])]_vars

Quiet == phase = "serving" /\ \A r \in Records : handler[r] = Idle

-----------------------------------------------------------------------------
(* Statements of the repository that the code does not keep: each one has   *)
(* a counterexample, described in the README.                               *)

(* service.go on EvaluateAfterScan: a scan whose "policy result is          *)
(* "blocked" ... still retracts (fail closed)": once everything submitted   *)
(* is evaluated, an image whose latest scan is blocked is not served.       *)
BlockedIsWithdrawn ==
    Quiet => \A t \in Tools :
        mem.catalog[t] # None /\ Blocked(LatestScan(mem.catalog[t].image))
        => ~mem.catalog[t].active

(* service.go on RetractUnprovenCertifications: it "retracts every ACTIVE   *)
(* CertifiedToolImageRecord ... whose driving records no longer prove it":  *)
(* once NodeVault serves, no active certification is unproven.              *)
UnprovenIsRetracted ==
    phase = "serving" =>
        \A i \in DOMAIN mem.certs : mem.certs[i].active => Proven(mem, mem.certs[i])

(* service.go: "retracts every ACTIVE CertifiedToolImageRecord (and its     *)
(* ACTIVE catalog entry) whose driving records no longer prove it": no      *)
(* entry is served whose certifications are all retracted.                  *)
EntryRetractedWithCertification ==
    Quiet => \A t \in Tools :
        (\E i \in DOMAIN mem.certs : mem.certs[i].cas = t)
        /\ (\A i \in DOMAIN mem.certs : mem.certs[i].cas = t => ~mem.certs[i].active)
        => ~(mem.catalog[t] # None /\ mem.catalog[t].active)

(* service.go on CertifiesOnCheck: "Intake handlers use this to report      *)
(* certification_status honestly": the answer "certified" is given only     *)
(* when the image has an active certification.                              *)
CertifiedIsActive ==
    [][\A c \in Checks :
         answer[c] # "certified" /\ answer'[c] = "certified"
         => \E i \in DOMAIN mem'.certs :
                mem'.certs[i].image = c.image /\ mem'.certs[i].active]_vars

(* schema.go on CertifiedToolImageRecord: "Primary key: ToolSpecDigest +    *)
(* Platform".                                                               *)
OneCertificationPerKey ==
    \A i, j \in DOMAIN mem.certs :
        mem.certs[i].key = mem.certs[j].key /\ mem.certs[i].key # NoKey => i = j
=============================================================================
