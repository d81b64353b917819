------------------------------ MODULE Exposure ------------------------------
(***************************************************************************)
(* What a reader of the catalog is shown.  An artifact is registered by    *)
(* two writes: its definition into a content-addressed file, then its      *)
(* entry into the index (pkg/catalog, catalog.go and data.go).  NodeVault  *)
(* reads the index in its memory; NodePalette, a process of its own, reads *)
(* the index file again before each request (cmd/palette, main.go).  Both  *)
(* take a list of entries under the lock of their index and then, without  *)
(* it, open the definitions one by one (pkg/catalogrest, server.go), while *)
(* registrations, retractions and certifications go on.  The two reads of  *)
(* Retract and Delete, and the integrity axis, are in Reconcile; when a    *)
(* catalog entry is written is the subject of Certification.               *)
(***************************************************************************)
EXTENDS Naturals, FiniteSets

CONSTANTS
    Tools, Data,       \* casHashes of tools and of reference data
    VaultReaders,      \* requests that NodeVault serves, REST or gRPC
    PaletteReaders,    \* requests that NodePalette serves
    MaxChanges,        \* bound: registrations, transitions and certifications together
    MaxRequests,       \* bound: requests that are served at the same time
    MaxFailures,       \* bound: writes and reads of files that fail
    MaxCrashes         \* bound: crashes of NodeVault

(* A casHash is the hash of the content alone, without the registration     *)
(* time and the two axes of state: the same content is the same artifact    *)
(* whenever, and in whatever state, it is registered.                       *)
Artifacts == Tools \cup Data
Readers == VaultReaders \cup PaletteReaders

ASSUME KindsAssumption == Tools \cap Data = {}
ASSUME ReadersAssumption == VaultReaders \cap PaletteReaders = {}
ASSUME BoundsAssumption == {MaxChanges, MaxRequests, MaxFailures, MaxCrashes} \subseteq Nat

VARIABLES
    file,           \* definitions: absent, torn (truncated, not written yet), whole
    mem,            \* NodeVault's index
    disk,           \* the index file
    palette,        \* NodePalette's index
    registering,    \* handlers that are writing an artifact's file, or have written it
    changes,        \* registrations, transitions and certifications so far
    damaged,        \* history: artifacts whose definition a write or a power loss left torn
    request,        \* the request a reader is serving
    seen,           \* history: how its index showed an artifact since it began
    unreadable,     \* history: artifacts whose file was not whole since then
    failures, crashes

indexVars == <<mem, disk, palette>>
registrationVars == <<file, registering, changes, damaged>>
historyVars == <<seen, unreadable>>
faultVars == <<failures, crashes>>
vars == <<indexVars, registrationVars, request, historyVars, faultVars>>

Phases == {"Absent", "Active", "Retracted", "Deleted"}
Promotions == {"none", "active", "retracted"}
Entry == [phase: Phases, promotion: Promotions]
NoEntry == [phase |-> "Absent", promotion |-> "none"]

Fail == failures < MaxFailures /\ failures' = failures + 1
NoFault == UNCHANGED faultVars
Change == changes < MaxChanges /\ changes' = changes + 1

-----------------------------------------------------------------------------
(* The index of NodeVault: changed in memory, then saved as a whole.        *)

Saved(new) == mem' = new /\ disk' = new /\ UNCHANGED failures
NotSaved(new) == Fail /\ mem' = new /\ UNCHANGED disk
Save(new) == (Saved(new) \/ NotSaved(new)) /\ UNCHANGED <<palette, crashes>>

-----------------------------------------------------------------------------
(* Registration: RegisterTool and RegisterData                              *)

NoHandler == [writing |-> 0, written |-> 0]

(* SaveWithCasHash names the file after its content; os.WriteFile truncates *)
(* it first.  A registration of the same content writes the same file, also *)
(* while another one is writing it or has just written it.                  *)
SaveWithCasHash(h) ==
    /\ Change
    /\ file' = [file EXCEPT ![h] = "torn"]
    /\ registering' = [registering EXCEPT ![h].writing = @ + 1]
    /\ NoFault
    /\ UNCHANGED <<indexVars, damaged, request>>

WriteErrorIgnored(h) ==
    /\ registering[h].writing > 0
    /\ \/ file' = [file EXCEPT ![h] = "whole"] /\ UNCHANGED failures
       \/ Fail /\ UNCHANGED file
    /\ registering' = [registering EXCEPT ![h].writing = @ - 1, ![h].written = @ + 1]
    /\ damaged' = damaged \ {h}
    /\ UNCHANGED <<indexVars, changes, request, crashes>>

(* Two writes of one file have the same length and differ in nothing but    *)
(* the time: the one that succeeds makes it whole, whatever the other did.  *)
(* A write that fails ends the registration with an error.                  *)
FinishWrite(h) ==
    /\ registering[h].writing > 0
    /\ \/ /\ file' = [file EXCEPT ![h] = "whole"]
          /\ registering' = [registering EXCEPT ![h].writing = @ - 1, ![h].written = @ + 1]
          /\ damaged' = damaged \ {h}
          /\ UNCHANGED failures
       \/ /\ Fail
          /\ registering' = [registering EXCEPT ![h].writing = @ - 1]
          /\ damaged' = IF file[h] = "torn" THEN damaged \cup {h} ELSE damaged
          /\ UNCHANGED file
    /\ UNCHANGED <<indexVars, changes, request, crashes>>

(* Append.  An entry that exists keeps its phase, which is what the answer  *)
(* reports; an append that fails is logged and answered as a success.       *)
Register(h) ==
    /\ registering[h].written > 0
    /\ IF mem[h].phase = "Absent"
       THEN Save([mem EXCEPT ![h].phase = "Active"])
       ELSE UNCHANGED indexVars /\ NoFault
    /\ registering' = [registering EXCEPT ![h].written = @ - 1]
    /\ UNCHANGED <<file, changes, damaged, request>>

RegisterTool(h) == h \in Tools /\ Register(h)
RegisterData(h) == h \in Data /\ Register(h)

-----------------------------------------------------------------------------
(* The two axes that decide what is shown                                   *)

Allowed(h, phase) ==
    \/ mem[h].phase = "Active" /\ phase = "Retracted"
    \/ mem[h].phase = "Retracted" /\ phase = "Deleted"

(* RetractTool and DeleteTool, which look at no artifact kind.              *)
SetLifecyclePhase(h, phase) ==
    /\ Allowed(h, phase)
    /\ Save([mem EXCEPT ![h].phase = phase])
    /\ Change
    /\ UNCHANGED <<file, registering, damaged, request>>

(* A certification, or its retraction, for a registered tool.               *)
UpsertToolFunctionCatalogEntry(h, promotion) ==
    /\ h \in Tools
    /\ mem[h].phase # "Absent"
    /\ mem[h].promotion # promotion
    /\ Save([mem EXCEPT ![h].promotion = promotion])
    /\ Change
    /\ UNCHANGED <<file, registering, damaged, request>>

-----------------------------------------------------------------------------
(* Requests.  "of" is the kind of file the endpoint opens, or "certified";  *)
(* "asked" what the filters (casHash, stable_ref, artifact_kind) select;    *)
(* "gate" the entries it shows: Active ones, any, or certified ones with a  *)
(* status ("listed" or "fetched"); "fresh" whether NodePalette could read   *)
(* the index file.                                                          *)

Idle == [pc |-> "idle", of |-> "none", asked |-> {}, gate |-> "Active", status |-> "none",
         fresh |-> TRUE, todo |-> {}, items |-> {}]
Ask(of, asked, gate, status) ==
    [Idle EXCEPT !.pc = "accepted", !.of = of, !.asked = asked, !.gate = gate, !.status = status]

(* The index of record: NodeVault's memory or, for NodePalette, the file.   *)
RecordFor(r) == IF r \in PaletteReaders THEN disk ELSE mem

Serve(r, req) == request' = [request EXCEPT ![r] = req]
ReadsOnly == UNCHANGED <<mem, disk, registrationVars, crashes>>

ListActiveByStableRef(idx, asked) == {h \in asked : idx[h].phase = "Active"}

(* A gRPC lookup by casHash does not look at the phase.                     *)
GetByCasHash(idx, asked) == {h \in asked : idx[h].phase # "Absent"}

ListToolFunctionCatalogEntries(idx, status) == {h \in Tools : idx[h].promotion = status}

(* Both axes are joined under one acquisition of the lock.                  *)
ListActiveToolFunctionCatalogEntries(idx, status) ==
    {h \in Tools : idx[h].phase = "Active" /\ idx[h].promotion = status}

GetActiveToolFunctionCatalogEntry(idx, asked) ==
    {h \in asked : idx[h].phase = "Active" /\ idx[h].promotion # "none"}

(* The entries a request takes from the index, under one lock.  Those of an *)
(* endpoint that opens files are still to be loaded, certified ones are     *)
(* complete; by casHash their status is reported, not selected.             *)
Listing(idx, req) ==
    LET entries ==
          CASE req.gate = "Active"  -> ListActiveByStableRef(idx, req.asked)
            [] req.gate = "any"     -> GetByCasHash(idx, req.asked)
            [] req.gate = "listed"  -> ListActiveToolFunctionCatalogEntries(idx, req.status)
            [] req.gate = "fetched" -> GetActiveToolFunctionCatalogEntry(idx, req.asked)
        listed == [req EXCEPT !.pc = "loading"]
    IN  CASE req.of # "certified"   -> [listed EXCEPT !.todo = entries]
          [] req.gate = "listed"    -> [listed EXCEPT !.items = entries]
          [] req.gate = "fetched"   ->
               [listed EXCEPT !.items = entries,
                              !.status = idx[CHOOSE h \in req.asked : TRUE].promotion]

(* A Reload that fails is logged, and the index read last is served.        *)
Reload(r, req) ==
    \/ palette' = disk /\ Serve(r, req) /\ UNCHANGED failures
    \/ Fail /\ Serve(r, [req EXCEPT !.fresh = FALSE]) /\ UNCHANGED palette

(* A request arrives.  NodeVault answers from its memory; NodePalette reads *)
(* the index file first, and the index another time.                        *)
Accept(r, req) ==
    /\ request[r].pc = "idle"
    /\ Cardinality({x \in Readers : request[x].pc # "idle"}) < MaxRequests
    /\ IF r \in PaletteReaders THEN Reload(r, req)
                               ELSE Serve(r, Listing(mem, req)) /\ UNCHANGED <<palette, failures>>
    /\ ReadsOnly

(* A request that is not followed here reads the index file meanwhile.      *)
ReloadByAnother ==
    /\ palette # disk
    /\ palette' = disk
    /\ ReadsOnly
    /\ UNCHANGED <<request, failures>>

TakeListing(r) ==
    /\ request[r].pc = "accepted"
    /\ Serve(r, Listing(palette, request[r]))
    /\ ReadsOnly
    /\ UNCHANGED <<palette, failures>>

handleListTools(r) ==
    \E asked \in SUBSET Artifacts \ {{}} : Accept(r, Ask("tool", asked, "Active", "none"))

ListTools(r) == r \in VaultReaders /\ handleListTools(r)

handleListData(r) ==
    \E asked \in SUBSET Data \ {{}} : Accept(r, Ask("data", asked, "Active", "none"))

ListData(r) == r \in VaultReaders /\ handleListData(r)

handleGetTool(r) == \E h \in Artifacts : Accept(r, Ask("tool", {h}, "Active", "none"))

handleGetData(r) == \E h \in Data : Accept(r, Ask("data", {h}, "Active", "none"))

GetTool(r) ==
    r \in VaultReaders /\ \E h \in Artifacts : Accept(r, Ask("tool", {h}, "any", "none"))

GetData(r) ==
    r \in VaultReaders /\ \E h \in Artifacts : Accept(r, Ask("data", {h}, "any", "none"))

handleListCertifiedTools(r) ==
    \E status \in Promotions \ {"none"} : Accept(r, Ask("certified", Tools, "listed", status))

ListCertifiedTools(r) == r \in VaultReaders /\ handleListCertifiedTools(r)

handleGetCertifiedTool(r) ==
    \E h \in Tools : Accept(r, Ask("certified", {h}, "fetched", "none"))

(* Load of the catalog the endpoint reads: a file of the other kind is not  *)
(* there, and a torn one cannot be parsed.                                  *)
LoadTool(r, h) == request[r].of = "tool" /\ h \in Tools /\ file[h] = "whole"
LoadData(r, h) == request[r].of = "data" /\ h \in Data /\ file[h] = "whole"
Loaded(r, h) == LoadTool(r, h) \/ LoadData(r, h)

StopsAtUnreadable(r) ==
    \E h \in request[r].todo :
        /\ request[r].pc = "loading"
        /\ Serve(r, IF Loaded(r, h) THEN [request[r] EXCEPT !.todo = @ \ {h}, !.items = @ \cup {h}]
                                    ELSE [request[r] EXCEPT !.todo = {}])
        /\ ReadsOnly
        /\ UNCHANGED <<palette, failures>>

(* A definition that cannot be loaded is left out.                          *)
LoadNext(r) ==
    \E h \in request[r].todo :
        /\ request[r].pc = "loading"
        /\ Serve(r, [request[r] EXCEPT !.todo = @ \ {h},
                                       !.items = IF Loaded(r, h) THEN @ \cup {h} ELSE @])
        /\ ReadsOnly
        /\ UNCHANGED <<palette, failures>>

Answered(r) == request[r].pc = "loading" /\ request[r].todo = {}

writeJSON(r) ==
    /\ Answered(r)
    /\ Serve(r, Idle)
    /\ ReadsOnly
    /\ UNCHANGED <<palette, failures>>

-----------------------------------------------------------------------------

(* NodeVault starts again from the index file: its handlers are gone, and a *)
(* definition that was being written stays torn.  The index file is synced, *)
(* a definition is not: a power loss may take what the kernel has not       *)
(* written back, here any of them (a process that only died takes none).    *)
CrashRestart ==
    \E lost \in SUBSET {h \in Artifacts : file[h] = "whole"} :
        /\ crashes < MaxCrashes
        /\ crashes' = crashes + 1
        /\ mem' = disk
        /\ registering' = [h \in Artifacts |-> NoHandler]
        /\ file' = [h \in Artifacts |-> IF h \in lost THEN "torn" ELSE file[h]]
        /\ damaged' = damaged \cup {h \in Artifacts : file'[h] = "torn"}
        /\ request' = [r \in Readers |-> IF r \in VaultReaders THEN Idle ELSE request[r]]
        /\ UNCHANGED <<disk, palette, changes, failures>>

Init ==
    /\ file = [h \in Artifacts |-> "absent"]
    /\ mem = [h \in Artifacts |-> NoEntry]
    /\ disk = mem
    /\ palette = mem
    /\ registering = [h \in Artifacts |-> NoHandler]
    /\ changes = 0
    /\ damaged = {}
    /\ request = [r \in Readers |-> Idle]
    /\ seen = [r \in Readers |-> [h \in Artifacts |-> {}]]
    /\ unreadable = [r \in Readers |-> {}]
    /\ failures = 0
    /\ crashes = 0

Write ==
    \/ \E h \in Artifacts : SaveWithCasHash(h) \/ FinishWrite(h) \/ RegisterTool(h) \/ RegisterData(h)
    \/ \E h \in Artifacts, phase \in Phases : SetLifecyclePhase(h, phase)
    \/ \E h \in Artifacts, promotion \in Promotions \ {"none"} :
           UpsertToolFunctionCatalogEntry(h, promotion)

Read(r) ==
    \/ handleListTools(r) \/ ListTools(r) \/ handleListData(r) \/ ListData(r)
    \/ handleGetTool(r) \/ handleGetData(r) \/ GetTool(r) \/ GetData(r)
    \/ handleListCertifiedTools(r) \/ ListCertifiedTools(r) \/ handleGetCertifiedTool(r)
    \/ TakeListing(r)
    \/ LoadNext(r)
    \/ writeJSON(r)

(* How the index of record shows an artifact.                               *)
Shown(entry) ==
    CASE entry.phase = "Absent" -> "absent"
      [] entry.phase = "Active" -> entry.promotion
      [] OTHER                  -> "hidden"

Observe ==
    /\ seen' = [r \in Readers |-> [h \in Artifacts |->
                  IF h \notin request'[r].asked THEN {}
                  ELSE seen[r][h] \cup {Shown(RecordFor(r)'[h])}]]
    /\ unreadable' = [r \in Readers |->
                        {h \in request'[r].asked : h \in unreadable[r] \/ file'[h] # "whole"}]

Next ==
    /\ Write \/ (\E r \in Readers : Read(r)) \/ ReloadByAnother \/ CrashRestart
    /\ Observe

Spec == Init /\ [][Next]_vars

-----------------------------------------------------------------------------
(* Properties *)

Request == [pc: {"idle", "accepted", "loading"}, of: {"none", "tool", "data", "certified"},
            asked: SUBSET Artifacts, gate: {"Active", "any", "listed", "fetched"},
            status: Promotions, fresh: BOOLEAN,
            todo: SUBSET Artifacts, items: SUBSET Artifacts]

TypeOK ==
    /\ file \in [Artifacts -> {"absent", "torn", "whole"}]
    /\ {mem, disk, palette} \subseteq [Artifacts -> Entry]
    /\ registering \in [Artifacts -> [writing: Nat, written: Nat]]
    /\ changes \in 0..MaxChanges
    /\ damaged \subseteq Artifacts
    /\ request \in [Readers -> Request]
    /\ seen \in [Readers -> [Artifacts -> SUBSET (Promotions \cup {"absent", "hidden"})]]
    /\ unreadable \in [Readers -> SUBSET Artifacts]
    /\ failures \in 0..MaxFailures
    /\ crashes \in 0..MaxCrashes

(* What a response shows was to be shown at some time while the request was *)
(* served, according to the index of record: NodeVault's memory, or, for    *)
(* NodePalette, the file that NodeVault saves.  An artifact withdrawn       *)
(* before the request is not shown, whatever NodePalette had read earlier;  *)
(* a certified tool was Active and had the status asked for at once.  Only  *)
(* a gRPC lookup by casHash shows one that is no longer Active.  A request  *)
(* for which NodePalette could not read the file is exempt: main.go logs it *)
(* and answers from what it read last, which may have been withdrawn.       *)
ShownAtSomeTime(r, h) ==
    IF request[r].of = "certified" THEN request[r].status \in seen[r][h]
    ELSE seen[r][h] \cap (Promotions \cup IF request[r].gate = "any" THEN {"hidden"} ELSE {}) # {}

ServedWasShown ==
    \A r \in Readers : request[r].fresh => \A h \in request[r].items : ShownAtSomeTime(r, h)

(* Nothing is missed: an artifact that the filters select, that the index   *)
(* of record showed in one and the same way all the time and whose file     *)
(* was readable all the time is in the response, although the entries and   *)
(* the files are read at different times, and whatever else is registered,  *)
(* withdrawn or reloaded meanwhile.  A request whose reload failed is       *)
(* exempt here too: it misses what was registered since the last one.       *)
ToBeShown(r, h) ==
    IF request[r].of = "certified" THEN request[r].status # "none" /\ seen[r][h] = {request[r].status}
    ELSE /\ \E promotion \in Promotions : seen[r][h] = {promotion}
         /\ request[r].of = IF h \in Tools THEN "tool" ELSE "data"
         /\ h \notin unreadable[r]

MissesNothing ==
    \A r \in Readers :
        Answered(r) /\ request[r].fresh
        => \A h \in request[r].asked : ToBeShown(r, h) => h \in request[r].items

(* The two writes of a registration are ordered: an entry of any of the     *)
(* three indexes names a definition that was written completely, unless a   *)
(* registration of the same content is writing it again.  Exempt are the    *)
(* definitions that such a rewrite left torn because it failed or was cut   *)
(* off, and those a power loss took: the code protects neither (see         *)
(* ActiveIsReadable), and the next registration repairs them.               *)
IndexedIsReadable ==
    \A h \in Artifacts :
        /\ \E idx \in {mem, disk, palette} : idx[h].phase # "Absent"
        /\ registering[h].writing = 0
        /\ h \notin damaged
        => file[h] = "whole"

-----------------------------------------------------------------------------
(* Statements of the repository that the code does not keep: each one has   *)
(* a counterexample, described in the README.                               *)

(* cmd/palette, main.go: the index is read on every request "so that        *)
(* registrations by NodeVault ... are immediately visible": what NodeVault  *)
(* registered is in the file that NodePalette reads.                        *)
ImmediatelyVisible ==
    \A h \in Artifacts :
        registering[h] = NoHandler /\ mem[h].phase = "Active" => disk[h].phase # "Absent"

(* catalog.go: a definition missing from a listing is one that              *)
(* "integrity_health reconcile will catch": content registered again does   *)
(* not make an Active artifact unreadable.                                  *)
ActiveIsReadable == \A h \in Artifacts : disk[h].phase = "Active" => file[h] = "whole"
=============================================================================
