--------------------------- MODULE ExposureProofs ---------------------------
(***************************************************************************)
(* Proofs about Exposure, for any artifacts, readers, registrations,       *)
(* failures and crashes.  The inductive invariant is one statement per     *)
(* artifact (Stored: an entry was appended after its definition was        *)
(* written, and a torn definition is being written or was damaged) and one *)
(* per request (Served: what it has taken from an index was shown by the   *)
(* index of record since it began; the index NodePalette holds for a       *)
(* request it accepted has that property as a whole).                      *)
(***************************************************************************)
EXTENDS Exposure, TLAPS

Looks == Promotions \cup {"absent", "hidden"}
Indexes == [Artifacts -> Entry]

Handlers == [writing: Nat, written: Nat]

Indexed(h) == \E idx \in {mem, disk, palette} : idx[h].phase # "Absent"

Stored(h) ==
    /\ Indexed(h) \/ registering[h].writing > 0 \/ registering[h].written > 0 => file[h] # "absent"
    /\ file[h] = "torn" => registering[h].writing > 0 \/ h \in damaged

(* What a request may show, given how the index of record showed it. *)
Shows(req, looks) ==
    IF req.of = "certified" THEN req.status \in looks
    ELSE looks \cap (Promotions \cup IF req.gate = "any" THEN {"hidden"} ELSE {}) # {}

(* The requests the endpoints make. *)
Formed(req) ==
    /\ req.of = "certified" <=> req.gate \in {"listed", "fetched"}
    /\ req.gate = "listed" => req.asked = Tools
    /\ req.gate = "fetched" => \E h \in Tools : req.asked = {h}

Served(r) ==
    LET req == request[r]
    IN  /\ Formed(req)
        /\ req.items \subseteq req.asked /\ req.todo \subseteq req.asked
        /\ req.of = "certified" => req.todo = {}
        /\ req.pc # "loading" => req.items = {} /\ req.todo = {}
        /\ req.pc = "accepted" => r \in PaletteReaders
        /\ req.fresh => /\ \A h \in req.items \cup req.todo : Shows(req, seen[r][h])
                        /\ req.pc = "accepted" =>
                               \A h \in req.asked : Shown(palette[h]) \in seen[r][h]

IInv ==
    /\ TypeOK
    /\ \A h \in Artifacts : Stored(h)
    /\ \A r \in Readers : Served(r)

-----------------------------------------------------------------------------
(* Histories *)

LEMMA ShownIsALook ==
    ASSUME NEW e \in Entry
    PROVE  /\ Shown(e) \in Looks
           /\ e.phase = "Active" => Shown(e) = e.promotion
           /\ e.phase # "Absent" => Shown(e) \in Promotions \cup {"hidden"}
  BY DEF Shown, Entry, Looks, Phases

LEMMA Observed ==
    ASSUME TypeOK, Observe, mem' \in Indexes, disk' \in Indexes,
           request' \in [Readers -> Request]
    PROVE  /\ seen' \in [Readers -> [Artifacts -> SUBSET Looks]]
           /\ unreadable' \in [Readers -> SUBSET Artifacts]
           /\ \A r \in Readers : \A h \in request'[r].asked :
                 /\ h \in Artifacts
                 /\ seen'[r][h] = seen[r][h] \cup {Shown(RecordFor(r)'[h])}
  <1>1. \A r \in Readers : request'[r].asked \subseteq Artifacts
    BY DEF Request
  <1>2. ASSUME NEW r \in Readers, NEW h \in Artifacts
        PROVE  Shown(RecordFor(r)'[h]) \in Looks
    <2>1. RecordFor(r)'[h] \in Entry
      BY <1>2 DEF RecordFor, Indexes
    <2>2. QED
      BY <2>1, ShownIsALook
  <1>3. ASSUME NEW r \in Readers, NEW h \in Artifacts
        PROVE  /\ seen'[r][h] \in SUBSET Looks
               /\ h \in request'[r].asked =>
                      seen'[r][h] = seen[r][h] \cup {Shown(RecordFor(r)'[h])}
    <2>1. seen[r][h] \in SUBSET Looks
      BY <1>3 DEF TypeOK, Looks
    <2>2. seen'[r][h] = IF h \notin request'[r].asked THEN {}
                        ELSE seen[r][h] \cup {Shown(RecordFor(r)'[h])}
      BY <1>3 DEF Observe
    <2>3. QED
      BY <1>2, <1>3, <2>1, <2>2
  <1>4. seen' \in [Readers -> [Artifacts -> SUBSET Looks]]
    <2>1. \A r \in Readers : seen'[r] \in [Artifacts -> SUBSET Looks]
      BY <1>3 DEF Observe
    <2>2. QED
      BY <2>1 DEF Observe
  <1>5. unreadable' \in [Readers -> SUBSET Artifacts]
    BY <1>1 DEF Observe
  <1>6. QED
    BY <1>1, <1>3, <1>4, <1>5

(* A longer history shows more. *)
LEMMA ShowsMore ==
    ASSUME NEW req, NEW looks, NEW more, looks \subseteq more, Shows(req, looks)
    PROVE  Shows(req, more)
  BY DEF Shows

(* A request that is not touched, while NodePalette's index stays or is     *)
(* read again.                                                              *)
LEMMA KeptServed ==
    ASSUME TypeOK, Observe, mem' \in Indexes, disk' \in Indexes,
           request' \in [Readers -> Request],
           NEW r \in Readers, Served(r), request'[r] = request[r],
           palette' = palette \/ palette' = disk'
    PROVE  Served(r)'
  <1> DEFINE req == request[r]
  <1>1. \A h \in req.asked : /\ h \in Artifacts
                             /\ seen'[r][h] = seen[r][h] \cup {Shown(RecordFor(r)'[h])}
    BY Observed
  <1>2. ASSUME req.fresh, NEW h \in req.items \cup req.todo PROVE Shows(req, seen'[r][h])
    <2>1. h \in req.asked /\ Shows(req, seen[r][h])
      BY <1>2 DEF Served
    <2>2. seen[r][h] \subseteq seen'[r][h]
      BY <1>1, <2>1
    <2>3. QED
      BY <2>1, <2>2, ShowsMore
  <1>3. ASSUME req.fresh, req.pc = "accepted", NEW h \in req.asked
        PROVE  Shown(palette'[h]) \in seen'[r][h]
    <2>1. r \in PaletteReaders /\ Shown(palette[h]) \in seen[r][h]
      BY <1>3 DEF Served
    <2>2. RecordFor(r)' = disk'
      BY <2>1 DEF RecordFor
    <2>3. QED
      BY <1>1, <1>3, <2>1, <2>2
  <1>4. QED
    BY <1>2, <1>3 DEF Served

-----------------------------------------------------------------------------
(* What a request takes from an index *)

LEMMA ListingType ==
    ASSUME NEW idx \in Indexes, NEW req \in Request, Formed(req)
    PROVE  /\ Listing(idx, req) \in Request
           /\ Listing(idx, req).pc = "loading"
           /\ Listing(idx, req).of = req.of /\ Listing(idx, req).asked = req.asked
           /\ Listing(idx, req).gate = req.gate /\ Listing(idx, req).fresh = req.fresh
  <1>1. /\ ListActiveByStableRef(idx, req.asked) \subseteq Artifacts
        /\ GetByCasHash(idx, req.asked) \subseteq Artifacts
        /\ GetActiveToolFunctionCatalogEntry(idx, req.asked) \subseteq Artifacts
        /\ ListActiveToolFunctionCatalogEntries(idx, req.status) \subseteq Artifacts
    BY DEF Request, ListActiveByStableRef, GetByCasHash, GetActiveToolFunctionCatalogEntry,
       ListActiveToolFunctionCatalogEntries, Artifacts
  <1>2. req.gate \in {"Active", "any", "listed", "fetched"}
    BY DEF Request
  <1>3. CASE req.gate \in {"Active", "any"}
    BY <1>1, <1>3 DEF Listing, Request, Formed
  <1>4. CASE req.gate = "listed"
    BY <1>1, <1>4 DEF Listing, Request, Formed
  <1>5. CASE req.gate = "fetched"
    <2>1. PICK h \in Tools : req.asked = {h}
      BY <1>5 DEF Formed
    <2>2. (CHOOSE x \in req.asked : TRUE) = h
      BY <2>1
    <2>3. idx[CHOOSE x \in req.asked : TRUE].promotion \in Promotions
      BY <2>1, <2>2 DEF Indexes, Entry, Artifacts
    <2>4. QED
      BY <1>1, <1>5, <2>3 DEF Listing, Request, Formed
  <1>6. QED
    BY <1>2, <1>3, <1>4, <1>5

LEMMA ListingShows ==
    ASSUME NEW idx \in Indexes, NEW req \in Request, Formed(req),
           req.items = {}, req.todo = {},
           NEW looks, \A h \in req.asked : Shown(idx[h]) \in looks[h]
    PROVE  LET new == Listing(idx, req)
           IN  /\ new.items \subseteq req.asked /\ new.todo \subseteq req.asked
               /\ req.of = "certified" => new.todo = {}
               /\ \A h \in new.items \cup new.todo : Shows(new, looks[h])
  <1> DEFINE new == Listing(idx, req)
  <1>0. /\ req.gate \in {"Active", "any", "listed", "fetched"}
        /\ req.asked \subseteq Artifacts
        /\ new.of = req.of /\ new.gate = req.gate
    BY ListingType DEF Request
  <1>1. CASE req.gate \in {"Active", "any"}
    <2>1. req.of # "certified"
      BY <1>1 DEF Formed
    <2>2. new.items = {} /\ new.todo = IF req.gate = "Active"
                                       THEN ListActiveByStableRef(idx, req.asked)
                                       ELSE GetByCasHash(idx, req.asked)
      BY <1>1, <2>1 DEF Listing, Request
    <2>3. ASSUME NEW h \in new.todo PROVE h \in req.asked /\ Shows(new, looks[h])
      <3>1. /\ h \in req.asked /\ idx[h] \in Entry
            /\ req.gate = "Active" => idx[h].phase = "Active"
            /\ idx[h].phase # "Absent"
        BY <1>0, <1>1, <2>2, <2>3 DEF ListActiveByStableRef, GetByCasHash, Indexes
      <3>2. /\ Shown(idx[h]) \in looks[h]
            /\ req.gate = "Active" => Shown(idx[h]) \in Promotions
            /\ Shown(idx[h]) \in Promotions \cup {"hidden"}
        BY <3>1, ShownIsALook DEF Entry
      <3>3. QED
        BY <1>0, <1>1, <2>1, <3>1, <3>2 DEF Shows
    <2>4. QED
      BY <2>1, <2>2, <2>3
  <1>2. CASE req.gate = "listed"
    <2>1. req.of = "certified" /\ req.asked = Tools
      BY <1>2 DEF Formed
    <2>2. /\ new.items = ListActiveToolFunctionCatalogEntries(idx, req.status)
          /\ new.todo = {} /\ new.status = req.status
      BY <1>2, <2>1 DEF Listing, Request
    <2>3. ASSUME NEW h \in new.items PROVE h \in req.asked /\ Shows(new, looks[h])
      <3>1. h \in Tools /\ idx[h] \in Entry /\ idx[h].phase = "Active" /\ idx[h].promotion = req.status
        BY <2>2, <2>3 DEF ListActiveToolFunctionCatalogEntries, Indexes, Artifacts
      <3>2. req.status \in looks[h]
        BY <2>1, <3>1, ShownIsALook
      <3>3. QED
        BY <1>0, <2>1, <2>2, <3>1, <3>2 DEF Shows
    <2>4. QED
      BY <2>2, <2>3
  <1>3. CASE req.gate = "fetched"
    <2>1. PICK t \in Tools : req.asked = {t}
      BY <1>3 DEF Formed
    <2>2. (CHOOSE x \in req.asked : TRUE) = t /\ req.of = "certified"
      BY <1>3, <2>1 DEF Formed
    <2>3. /\ new.items = GetActiveToolFunctionCatalogEntry(idx, req.asked)
          /\ new.todo = {} /\ new.status = idx[t].promotion
      BY <1>3, <2>2 DEF Listing, Request
    <2>4. ASSUME NEW h \in new.items PROVE h \in req.asked /\ Shows(new, looks[h])
      <3>1. h = t /\ h \in req.asked /\ idx[h] \in Entry /\ idx[h].phase = "Active"
        BY <2>1, <2>3, <2>4 DEF GetActiveToolFunctionCatalogEntry, Indexes, Artifacts
      <3>2. idx[t].promotion \in looks[h]
        BY <3>1, ShownIsALook
      <3>3. QED
        BY <1>0, <2>2, <2>3, <3>1, <3>2 DEF Shows
    <2>5. QED
      BY <2>3, <2>4
  <1>4. QED
    BY <1>0, <1>1, <1>2, <1>3

-----------------------------------------------------------------------------
(* Writes *)

Rest == <<palette, request>>

LEMMA SaveType ==
    ASSUME TypeOK, NEW new \in Indexes, Save(new)
    PROVE  /\ mem' \in Indexes /\ disk' \in Indexes /\ failures' \in 0..MaxFailures
           /\ mem' = new /\ disk' \in {disk, new} /\ palette' = palette /\ crashes' = crashes
  BY BoundsAssumption DEF TypeOK, Save, Saved, NotSaved, Fail, Indexes

(* A write by registration, which leaves the index alone. *)
LEMMA FilePreserves ==
    ASSUME IInv, NEW h \in Artifacts, SaveWithCasHash(h) \/ FinishWrite(h), Observe
    PROVE  IInv'
  <1> USE DEF SaveWithCasHash, FinishWrite, Fail, Change, NoFault, indexVars, faultVars, Handlers
  <1>0. TypeOK
    BY DEF IInv
  <1>1. /\ UNCHANGED <<mem, disk, palette, request>>
        /\ \A x \in Artifacts \ {h} :
              /\ file'[x] = file[x] /\ registering'[x] = registering[x]
              /\ x \in damaged' <=> x \in damaged
    BY <1>0 DEF TypeOK
  <1>2. /\ mem' \in Indexes /\ disk' \in Indexes /\ request' \in [Readers -> Request]
    BY <1>0, <1>1 DEF TypeOK, Indexes
  <1>3. /\ file' \in [Artifacts -> {"absent", "torn", "whole"}]
        /\ registering' \in [Artifacts -> Handlers]
        /\ changes' \in 0..MaxChanges
        /\ damaged' \subseteq Artifacts
        /\ failures' \in 0..MaxFailures /\ crashes' = crashes
    <2>1. CASE SaveWithCasHash(h)
      BY <1>0, <2>1, BoundsAssumption DEF TypeOK
    <2>2. CASE FinishWrite(h)
      <3>0. file' \in [Artifacts -> {"absent", "torn", "whole"}]
        BY <1>0, <2>2 DEF TypeOK
      <3>1. registering' \in [Artifacts -> Handlers]
        <4>1. \/ registering' = [registering EXCEPT ![h].writing = @ - 1, ![h].written = @ + 1]
              \/ registering' = [registering EXCEPT ![h].writing = @ - 1]
          BY <2>2
        <4>2. registering[h].writing > 0 /\ registering \in [Artifacts -> Handlers]
          BY <1>0, <2>2 DEF TypeOK
        <4>3. QED
          BY <4>1, <4>2
      <3>2. changes' \in 0..MaxChanges /\ crashes' = crashes
        BY <1>0, <2>2 DEF TypeOK
      <3>3. damaged' \subseteq Artifacts
        BY <1>0, <2>2 DEF TypeOK
      <3>4. failures' \in 0..MaxFailures
        BY <1>0, <2>2, BoundsAssumption DEF TypeOK
      <3>5. QED
        BY <3>0, <3>1, <3>2, <3>3, <3>4
    <2>3. QED
      BY <2>1, <2>2
  <1>4. TypeOK'
    BY <1>0, <1>1, <1>2, <1>3, Observed DEF TypeOK, Looks
  <1>5. \A r \in Readers : Served(r)'
    BY <1>0, <1>1, <1>2, KeptServed DEF IInv
  <1>6. Stored(h)'
    <2>1. CASE SaveWithCasHash(h)
      <3>1. registering'[h].writing > 0 /\ file'[h] = "torn"
        BY <1>0, <2>1 DEF TypeOK
      <3>2. QED
        BY <3>1 DEF Stored
    <2>2. CASE FinishWrite(h)
      <3>1. file[h] \in {"torn", "whole"}
        BY <1>0, <2>2 DEF IInv, TypeOK, Stored
      <3>2. file'[h] = "whole" \/ (file'[h] = "torn" /\ h \in damaged')
        <4>1. CASE file' = [file EXCEPT ![h] = "whole"]
          BY <1>0, <4>1 DEF TypeOK
        <4>2. CASE file' = file /\ damaged' = IF file[h] = "torn" THEN damaged \cup {h} ELSE damaged
          BY <3>1, <4>2
        <4>3. QED
          BY <2>2, <4>1, <4>2
      <3>3. QED
        BY <3>2 DEF Stored
    <2>3. QED
      BY <2>1, <2>2
  <1>7. \A x \in Artifacts \ {h} : Stored(x)'
    BY <1>1 DEF IInv, Stored, Indexed
  <1>8. QED
    BY <1>4, <1>5, <1>6, <1>7 DEF IInv

(* A write of the index, about an artifact that was indexed before or has   *)
(* just been written.                                                       *)
LEMMA IndexPreserves ==
    ASSUME IInv, Observe, NEW h \in Artifacts, NEW new \in Indexes,
           \A x \in Artifacts \ {h} : new[x] = mem[x],
           mem[h].phase # "Absent" \/ registering[h].written > 0,
           \/ Save(new)
           \/ new = mem /\ UNCHANGED <<mem, disk, palette, failures, crashes>>,
           UNCHANGED <<file, damaged, request>>, changes' \in 0..MaxChanges,
           \/ registering' = registering
           \/ /\ registering[h].written > 0
              /\ registering' = [registering EXCEPT ![h].written = @ - 1]
    PROVE  IInv'
  <1>0. TypeOK
    BY DEF IInv
  <1>1. /\ mem' \in Indexes /\ disk' \in Indexes /\ failures' \in 0..MaxFailures
        /\ mem' = new /\ disk' \in {disk, new} /\ palette' = palette /\ crashes' = crashes
    <2>1. CASE Save(new)
      BY <1>0, <2>1, SaveType
    <2>2. CASE new = mem /\ UNCHANGED <<mem, disk, palette, failures, crashes>>
      BY <1>0, <2>2 DEF TypeOK, Indexes
    <2>3. QED
      BY <2>1, <2>2
  <1>2. request' \in [Readers -> Request]
    BY <1>0 DEF TypeOK
  <1>3. registering' \in [Artifacts -> Handlers]
    BY <1>0 DEF TypeOK, Handlers
  <1>4. TypeOK'
    BY <1>0, <1>1, <1>2, <1>3, Observed DEF TypeOK, Looks, Indexes, Handlers
  <1>5. \A r \in Readers : Served(r)'
    BY <1>0, <1>1, <1>2, KeptServed DEF IInv
  <1>6. ASSUME NEW x \in Artifacts PROVE Stored(x)'
    <2>1. CASE x = h
      <3>1. Stored(h) /\ file'[h] = file[h] /\ file[h] # "absent"
        BY DEF IInv, Stored, Indexed
      <3>2. registering'[h].writing = registering[h].writing
        BY <1>0 DEF TypeOK, Handlers
      <3>3. QED
        BY <2>1, <3>1, <3>2 DEF Stored
    <2>2. CASE x # h
      <3>1. mem'[x] = mem[x] /\ (disk'[x] = disk[x] \/ disk'[x] = mem[x]) /\ palette'[x] = palette[x]
        BY <1>1, <1>6, <2>2
      <3>2. Indexed(x)' => Indexed(x)
        BY <3>1 DEF Indexed
      <3>3. registering'[x] = registering[x]
        BY <1>0, <1>6, <2>2 DEF TypeOK
      <3>4. QED
        BY <1>6, <3>2, <3>3 DEF IInv, Stored
    <2>3. QED
      BY <2>1, <2>2
  <1>7. QED
    BY <1>4, <1>5, <1>6 DEF IInv

LEMMA WritePreserves ==
    ASSUME IInv, Write, Observe
    PROVE  IInv'
  <1>0. TypeOK /\ mem \in Indexes
    BY DEF IInv, TypeOK, Indexes
  <1>1. ASSUME NEW h \in Artifacts, SaveWithCasHash(h) \/ FinishWrite(h) PROVE IInv'
    BY <1>1, FilePreserves
  <1>2. ASSUME NEW h \in Artifacts, Register(h) PROVE IInv'
    <2> DEFINE new == IF mem[h].phase = "Absent" THEN [mem EXCEPT ![h].phase = "Active"] ELSE mem
    <2>1. new \in Indexes /\ \A x \in Artifacts \ {h} : new[x] = mem[x]
      BY <1>0 DEF Indexes, Entry, Phases
    <2>2. \/ Save(new)
          \/ new = mem /\ UNCHANGED <<mem, disk, palette, failures, crashes>>
      BY <1>2 DEF Register, indexVars, NoFault, faultVars
    <2>3. /\ UNCHANGED <<file, damaged, request>> /\ changes' \in 0..MaxChanges
          /\ registering' = [registering EXCEPT ![h].written = @ - 1] /\ registering[h].written > 0
      BY <1>0, <1>2 DEF Register, TypeOK
    <2>4. QED
      BY <1>2, <2>1, <2>2, <2>3, IndexPreserves
  <1>3. ASSUME NEW h \in Artifacts, NEW phase \in Phases, SetLifecyclePhase(h, phase) PROVE IInv'
    <2> DEFINE new == [mem EXCEPT ![h].phase = phase]
    <2>1. new \in Indexes /\ \A x \in Artifacts \ {h} : new[x] = mem[x]
      BY <1>0 DEF Indexes, Entry
    <2>2. Save(new) /\ mem[h].phase # "Absent"
      BY <1>3 DEF SetLifecyclePhase, Allowed
    <2>3. UNCHANGED <<file, registering, damaged, request>> /\ changes' \in 0..MaxChanges
      BY <1>0, <1>3, BoundsAssumption DEF SetLifecyclePhase, Change, TypeOK
    <2>4. QED
      BY <2>1, <2>2, <2>3, IndexPreserves
  <1>4. ASSUME NEW h \in Artifacts, NEW promotion \in Promotions,
               UpsertToolFunctionCatalogEntry(h, promotion)
        PROVE  IInv'
    <2> DEFINE new == [mem EXCEPT ![h].promotion = promotion]
    <2>1. new \in Indexes /\ \A x \in Artifacts \ {h} : new[x] = mem[x]
      BY <1>0 DEF Indexes, Entry
    <2>2. Save(new) /\ mem[h].phase # "Absent"
      BY <1>4 DEF UpsertToolFunctionCatalogEntry
    <2>3. UNCHANGED <<file, registering, damaged, request>> /\ changes' \in 0..MaxChanges
      BY <1>0, <1>4, BoundsAssumption DEF UpsertToolFunctionCatalogEntry, Change, TypeOK
    <2>4. QED
      BY <2>1, <2>2, <2>3, IndexPreserves
  <1>5. QED
    BY <1>1, <1>2, <1>3, <1>4 DEF Write, RegisterTool, RegisterData

-----------------------------------------------------------------------------
(* Reads *)

(* A step of a reader touches its request, and perhaps NodePalette's index. *)
LEMMA ReadStep ==
    ASSUME IInv, Observe, ReadsOnly, NEW r \in Readers, NEW req \in Request, Serve(r, req),
           palette' = palette \/ palette' = disk,
           failures' \in 0..MaxFailures,
           Served(r)'
    PROVE  IInv'
  <1> USE DEF ReadsOnly, Serve, registrationVars
  <1>0. TypeOK
    BY DEF IInv
  <1>1. /\ mem' \in Indexes /\ disk' \in Indexes /\ disk' = disk /\ mem' = mem
        /\ request' \in [Readers -> Request]
        /\ palette' \in Indexes
    BY <1>0 DEF TypeOK, Indexes
  <1>2. TypeOK'
    BY <1>0, <1>1, Observed DEF TypeOK, Looks, Indexes
  <1>3. ASSUME NEW x \in Readers \ {r} PROVE Served(x)'
    <2>1. request'[x] = request[x]
      BY <1>0, <1>3 DEF TypeOK
    <2>2. QED
      BY <1>0, <1>1, <1>3, <2>1, KeptServed DEF IInv
  <1>4. \A h \in Artifacts : Stored(h)'
    BY <1>1 DEF IInv, Stored, Indexed
  <1>5. QED
    BY <1>2, <1>3, <1>4 DEF IInv

LEMMA AcceptPreserves ==
    ASSUME IInv, Observe, NEW r \in Readers, NEW req \in Request, Accept(r, req),
           Formed(req), req.pc = "accepted", req.items = {}, req.todo = {}
    PROVE  IInv'
  <1> USE DEF Accept
  <1>0. TypeOK /\ mem \in Indexes /\ disk \in Indexes
    BY DEF IInv, TypeOK, Indexes
  <1>1. CASE r \in PaletteReaders
    <2>0. Reload(r, req) /\ ReadsOnly
      BY <1>1
    <2>1. CASE palette' = disk /\ Serve(r, req) /\ UNCHANGED failures
      <3>1. request'[r] = req /\ request' \in [Readers -> Request]
        BY <1>0, <2>1 DEF Serve, TypeOK
      <3>2. mem' \in Indexes /\ disk' \in Indexes /\ disk' = disk
        BY <1>0, <2>0 DEF ReadsOnly
      <3>3. \A h \in req.asked : Shown(palette'[h]) \in seen'[r][h]
        BY <1>0, <1>1, <2>1, <3>1, <3>2, Observed DEF RecordFor
      <3>4. Served(r)'
        BY <1>1, <3>1, <3>3 DEF Served
      <3>5. failures' \in 0..MaxFailures
        BY <1>0, <2>1 DEF TypeOK
      <3>6. QED
        BY <2>0, <2>1, <3>4, <3>5, ReadStep
    <2>2. CASE Fail /\ Serve(r, [req EXCEPT !.fresh = FALSE]) /\ UNCHANGED palette
      <3> DEFINE old == [req EXCEPT !.fresh = FALSE]
      <3>1. old \in Request /\ Formed(old) /\ old.pc = "accepted" /\ old.items = {}
            /\ old.todo = {} /\ ~old.fresh /\ old.of = req.of
        BY DEF Request, Formed
      <3>2. request'[r] = old
        BY <1>0, <2>2 DEF Serve, TypeOK
      <3>3. Served(r)'
        BY <1>1, <3>1, <3>2 DEF Served
      <3>4. failures' \in 0..MaxFailures
        BY <1>0, <2>2, BoundsAssumption DEF TypeOK, Fail
      <3>5. QED
        BY <2>0, <2>2, <3>1, <3>3, <3>4, ReadStep
    <2>3. QED
      BY <2>0, <2>1, <2>2 DEF Reload
  <1>2. CASE r \notin PaletteReaders
    <2> DEFINE new == Listing(mem, req)
    <2>1. Serve(r, new) /\ UNCHANGED <<palette, failures>> /\ ReadsOnly
      BY <1>2
    <2>2. /\ new \in Request /\ new.pc = "loading" /\ new.of = req.of /\ new.asked = req.asked
          /\ new.gate = req.gate /\ new.fresh = req.fresh
      BY <1>0, ListingType
    <2>3. request'[r] = new /\ request' \in [Readers -> Request]
      BY <1>0, <2>1, <2>2 DEF Serve, TypeOK
    <2>4. mem' = mem /\ mem' \in Indexes /\ disk' \in Indexes
      BY <1>0, <2>1 DEF ReadsOnly
    <2>5. \A h \in req.asked : Shown(mem[h]) \in seen'[r][h]
      BY <1>0, <1>2, <2>2, <2>3, <2>4, Observed DEF RecordFor
    <2>6. /\ new.items \subseteq req.asked /\ new.todo \subseteq req.asked
          /\ req.of = "certified" => new.todo = {}
          /\ \A h \in new.items \cup new.todo : Shows(new, seen'[r][h])
      BY <1>0, <2>5, ListingShows
    <2>7. Formed(new)
      BY <2>2 DEF Formed
    <2>8. Served(r)'
      BY <2>2, <2>3, <2>6, <2>7 DEF Served
    <2>9. failures' \in 0..MaxFailures
      BY <1>0, <2>1 DEF TypeOK
    <2>10. QED
      BY <2>1, <2>2, <2>8, <2>9, ReadStep
  <1>3. QED
    BY <1>1, <1>2

LEMMA AskIsFormed ==
    ASSUME NEW of, NEW asked, NEW gate, NEW status \in Promotions,
           \/ of \in {"tool", "data"} /\ gate \in {"Active", "any"} /\ asked \subseteq Artifacts
           \/ of = "certified" /\ gate = "listed" /\ asked = Tools
           \/ of = "certified" /\ gate = "fetched" /\ \E h \in Tools : asked = {h}
    PROVE  LET req == Ask(of, asked, gate, status)
           IN  /\ req \in Request /\ Formed(req)
               /\ req.pc = "accepted" /\ req.items = {} /\ req.todo = {}
  BY DEF Ask, Idle, Request, Formed, Artifacts, Promotions

(* Each endpoint makes such a request. *)
LEMMA AskIsMade ==
    ASSUME NEW r \in Readers,
           \/ handleListTools(r) \/ ListTools(r) \/ handleListData(r) \/ ListData(r)
           \/ handleGetTool(r) \/ handleGetData(r) \/ GetTool(r) \/ GetData(r)
           \/ handleListCertifiedTools(r) \/ ListCertifiedTools(r) \/ handleGetCertifiedTool(r)
    PROVE  \E req \in Request :
               /\ Accept(r, req) /\ Formed(req)
               /\ req.pc = "accepted" /\ req.items = {} /\ req.todo = {}
  <1> DEFINE Made == \E req \in Request :
                       /\ Accept(r, req) /\ Formed(req)
                       /\ req.pc = "accepted" /\ req.items = {} /\ req.todo = {}
  <1>0. "none" \in Promotions /\ Data \subseteq Artifacts /\ Tools \subseteq Artifacts
    BY DEF Promotions, Artifacts
  <1>1. ASSUME NEW of \in {"tool", "data"}, NEW asked \in SUBSET Artifacts,
               NEW gate \in {"Active", "any"}, Accept(r, Ask(of, asked, gate, "none"))
        PROVE  Made
    <2> DEFINE req == Ask(of, asked, gate, "none")
    <2>1. /\ req \in Request /\ Formed(req)
          /\ req.pc = "accepted" /\ req.items = {} /\ req.todo = {}
      BY <1>0, AskIsFormed
    <2> HIDE DEF req
    <2>2. QED
      BY <1>1, <2>1 DEF req
  <1>2. ASSUME NEW status \in Promotions, Accept(r, Ask("certified", Tools, "listed", status))
        PROVE  Made
    <2> DEFINE req == Ask("certified", Tools, "listed", status)
    <2>1. /\ req \in Request /\ Formed(req)
          /\ req.pc = "accepted" /\ req.items = {} /\ req.todo = {}
      BY AskIsFormed
    <2>2. QED
      BY <1>2, <2>1
  <1>3. ASSUME NEW h \in Tools, Accept(r, Ask("certified", {h}, "fetched", "none"))
        PROVE  Made
    <2> DEFINE req == Ask("certified", {h}, "fetched", "none")
    <2>1. /\ req \in Request /\ Formed(req)
          /\ req.pc = "accepted" /\ req.items = {} /\ req.todo = {}
      BY <1>0, AskIsFormed
    <2>2. QED
      BY <1>3, <2>1
  <1>4. CASE handleListTools(r) \/ ListTools(r)
    <2>1. PICK asked \in SUBSET Artifacts : Accept(r, Ask("tool", asked, "Active", "none"))
      BY <1>4 DEF handleListTools, ListTools
    <2>2. QED
      BY <1>1, <2>1
  <1>5. CASE handleListData(r) \/ ListData(r)
    <2>1. PICK asked \in SUBSET Data : Accept(r, Ask("data", asked, "Active", "none"))
      BY <1>5 DEF handleListData, ListData
    <2>2. asked \in SUBSET Artifacts
      BY <1>0
    <2>3. QED
      BY <1>1, <2>1, <2>2
  <1>6. CASE handleGetTool(r) \/ handleGetData(r)
    <2>1. PICK of \in {"tool", "data"}, h \in Artifacts : Accept(r, Ask(of, {h}, "Active", "none"))
      BY <1>0, <1>6 DEF handleGetTool, handleGetData
    <2>2. QED
      BY <1>1, <2>1
  <1>7. CASE GetTool(r) \/ GetData(r)
    <2>1. PICK of \in {"tool", "data"}, h \in Artifacts : Accept(r, Ask(of, {h}, "any", "none"))
      BY <1>7 DEF GetTool, GetData
    <2>2. QED
      BY <1>1, <2>1
  <1>8. CASE handleListCertifiedTools(r) \/ ListCertifiedTools(r)
    <2>1. PICK status \in Promotions : Accept(r, Ask("certified", Tools, "listed", status))
      BY <1>8 DEF handleListCertifiedTools, ListCertifiedTools
    <2>2. QED
      BY <1>2, <2>1
  <1>9. CASE handleGetCertifiedTool(r)
    BY <1>3, <1>9 DEF handleGetCertifiedTool
  <1>10. QED
    BY <1>4, <1>5, <1>6, <1>7, <1>8, <1>9

LEMMA AsksPreserve ==
    ASSUME IInv, Observe, NEW r \in Readers,
           \/ handleListTools(r) \/ ListTools(r) \/ handleListData(r) \/ ListData(r)
           \/ handleGetTool(r) \/ handleGetData(r) \/ GetTool(r) \/ GetData(r)
           \/ handleListCertifiedTools(r) \/ ListCertifiedTools(r) \/ handleGetCertifiedTool(r)
    PROVE  IInv'
  <1>1. PICK req \in Request :
            /\ Accept(r, req) /\ Formed(req)
            /\ req.pc = "accepted" /\ req.items = {} /\ req.todo = {}
    BY AskIsMade
  <1>2. QED
    BY <1>1, AcceptPreserves

LEMMA TakePreserves ==
    ASSUME IInv, Observe, NEW r \in Readers, TakeListing(r)
    PROVE  IInv'
  <1> DEFINE req == request[r]
             new == Listing(palette, req)
  <1>0. TypeOK /\ palette \in Indexes /\ mem \in Indexes /\ disk \in Indexes /\ req \in Request
    BY DEF IInv, TypeOK, Indexes
  <1>1. /\ req.pc = "accepted" /\ Serve(r, new) /\ ReadsOnly /\ UNCHANGED <<palette, failures>>
        /\ Served(r)
    BY DEF TakeListing, IInv
  <1>2. Formed(req) /\ req.items = {} /\ req.todo = {}
    BY <1>1 DEF Served
  <1>3. /\ new \in Request /\ new.pc = "loading" /\ new.of = req.of /\ new.asked = req.asked
        /\ new.gate = req.gate /\ new.fresh = req.fresh
    BY <1>0, <1>2, ListingType
  <1>4. request'[r] = new /\ request' \in [Readers -> Request]
    BY <1>0, <1>1, <1>3 DEF Serve, TypeOK
  <1>5. mem' \in Indexes /\ disk' \in Indexes
    BY <1>0, <1>1 DEF ReadsOnly
  <1>6. ASSUME req.fresh PROVE \A h \in req.asked : Shown(palette[h]) \in seen'[r][h]
    <2>1. \A h \in req.asked : seen[r][h] \subseteq seen'[r][h]
      BY <1>0, <1>3, <1>4, <1>5, Observed
    <2>2. QED
      BY <1>1, <1>6, <2>1 DEF Served
  <1>7. /\ new.items \subseteq req.asked /\ new.todo \subseteq req.asked
        /\ req.of = "certified" => new.todo = {}
    <2> DEFINE looks == [h \in req.asked |-> {Shown(palette[h])}]
    <2>1. \A h \in req.asked : Shown(palette[h]) \in looks[h]
      OBVIOUS
    <2> HIDE DEF looks
    <2>2. QED
      BY <1>0, <1>2, <2>1, ListingShows
  <1>8. ASSUME req.fresh PROVE \A h \in new.items \cup new.todo : Shows(new, seen'[r][h])
    BY <1>0, <1>2, <1>6, <1>8, ListingShows
  <1>9. Formed(new)
    BY <1>2, <1>3 DEF Formed
  <1>10. Served(r)'
    BY <1>3, <1>4, <1>7, <1>8, <1>9 DEF Served
  <1>11. failures' \in 0..MaxFailures
    BY <1>0, <1>1 DEF TypeOK
  <1>12. QED
    BY <1>1, <1>3, <1>10, <1>11, ReadStep

LEMMA LoadPreserves ==
    ASSUME IInv, Observe, NEW r \in Readers, LoadNext(r)
    PROVE  IInv'
  <1> DEFINE req == request[r]
  <1>0. TypeOK /\ mem \in Indexes /\ disk \in Indexes /\ req \in Request /\ Served(r)
    BY DEF IInv, TypeOK, Indexes
  <1>1. PICK h \in req.todo :
            /\ req.pc = "loading"
            /\ Serve(r, [req EXCEPT !.todo = @ \ {h},
                                    !.items = IF Loaded(r, h) THEN @ \cup {h} ELSE @])
            /\ ReadsOnly /\ UNCHANGED <<palette, failures>>
    BY DEF LoadNext
  <1> DEFINE new == [req EXCEPT !.todo = @ \ {h},
                                !.items = IF Loaded(r, h) THEN @ \cup {h} ELSE @]
  <1>2. /\ new \in Request /\ new.pc = "loading" /\ new.of = req.of /\ new.asked = req.asked
        /\ new.gate = req.gate /\ new.fresh = req.fresh /\ new.status = req.status
        /\ new.todo = req.todo \ {h}
        /\ new.items \subseteq req.items \cup {h}
    <2>1. h \in Artifacts
      BY <1>0, <1>1 DEF Request
    <2>2. CASE Loaded(r, h)
      BY <1>0, <1>1, <2>1, <2>2 DEF Request
    <2>3. CASE ~Loaded(r, h)
      BY <1>0, <1>1, <2>3 DEF Request
    <2>4. QED
      BY <2>2, <2>3
  <1> HIDE DEF new
  <1>3. request'[r] = new /\ request' \in [Readers -> Request]
    BY <1>0, <1>1, <1>2 DEF Serve, TypeOK, new
  <1>4. mem' \in Indexes /\ disk' \in Indexes
    BY <1>0, <1>1 DEF ReadsOnly
  <1>5. ASSUME new.fresh, NEW x \in new.items \cup new.todo PROVE Shows(new, seen'[r][x])
    <2>1. x \in req.items \cup req.todo /\ x \in req.asked
      BY <1>0, <1>1, <1>2, <1>5 DEF Served
    <2>2. Shows(req, seen[r][x])
      BY <1>0, <1>2, <1>5, <2>1 DEF Served
    <2>3. seen[r][x] \subseteq seen'[r][x]
      BY <1>0, <1>2, <1>3, <1>4, <2>1, Observed
    <2>4. Shows(req, seen'[r][x])
      BY <2>2, <2>3, ShowsMore
    <2>5. QED
      BY <1>2, <2>4 DEF Shows
  <1>6. Formed(new)
    BY <1>0, <1>2 DEF Served, Formed
  <1>7. Served(r)'
    BY <1>0, <1>1, <1>2, <1>3, <1>5, <1>6 DEF Served
  <1>8. failures' \in 0..MaxFailures
    BY <1>0, <1>1 DEF TypeOK
  <1>9. QED
    BY <1>1, <1>2, <1>7, <1>8, ReadStep DEF new

LEMMA IdleRequest ==
    /\ Idle \in Request /\ Formed(Idle) /\ Idle.pc = "idle" /\ Idle.items = {} /\ Idle.todo = {}
    /\ Idle.asked = {} /\ Idle.of = "none"
  BY DEF Idle, Request, Formed, Promotions

LEMMA RepliesPreserve ==
    ASSUME IInv, Observe, NEW r \in Readers, writeJSON(r)
    PROVE  IInv'
  <1>0. TypeOK
    BY DEF IInv
  <1>1. Serve(r, Idle) /\ ReadsOnly /\ UNCHANGED <<palette, failures>>
    BY DEF writeJSON
  <1>2. request'[r] = Idle
    BY <1>0, <1>1 DEF Serve, TypeOK
  <1>3. Served(r)'
    BY <1>2, IdleRequest DEF Served
  <1>4. failures' \in 0..MaxFailures
    BY <1>0, <1>1 DEF TypeOK
  <1>5. QED
    BY <1>1, <1>3, <1>4, IdleRequest, ReadStep

LEMMA ReloadPreserves ==
    ASSUME IInv, Observe, ReloadByAnother
    PROVE  IInv'
  <1> USE DEF ReloadByAnother, ReadsOnly, registrationVars
  <1>0. TypeOK
    BY DEF IInv
  <1>1. /\ mem' \in Indexes /\ disk' \in Indexes /\ palette' = disk' /\ mem' = mem
        /\ request' = request /\ request' \in [Readers -> Request] /\ disk' = disk
    BY <1>0 DEF TypeOK, Indexes
  <1>2. TypeOK'
    BY <1>0, <1>1, Observed DEF TypeOK, Looks, Indexes
  <1>3. \A r \in Readers : Served(r)'
    BY <1>0, <1>1, KeptServed DEF IInv
  <1>4. \A h \in Artifacts : Stored(h)'
    BY <1>1 DEF IInv, Stored, Indexed
  <1>5. QED
    BY <1>2, <1>3, <1>4 DEF IInv

LEMMA CrashPreserves ==
    ASSUME IInv, Observe, CrashRestart
    PROVE  IInv'
  <1> USE DEF CrashRestart
  <1>0. TypeOK
    BY DEF IInv
  <1>1. /\ mem' \in Indexes /\ disk' \in Indexes /\ palette' = palette /\ mem' = disk
        /\ disk' = disk
    BY <1>0 DEF TypeOK, Indexes
  <1>2. request' \in [Readers -> Request]
    BY <1>0, IdleRequest DEF TypeOK
  <1>3. TypeOK'
    <2>1. /\ registering' \in [Artifacts -> Handlers]
          /\ file' \in [Artifacts -> {"absent", "torn", "whole"}]
          /\ damaged' \subseteq Artifacts /\ crashes' \in 0..MaxCrashes
      BY <1>0, BoundsAssumption DEF TypeOK, Handlers, NoHandler
    <2>2. QED
      BY <1>0, <1>1, <1>2, <2>1, Observed DEF TypeOK, Looks, Indexes, Handlers
  <1>4. ASSUME NEW r \in Readers PROVE Served(r)'
    <2>1. CASE r \in VaultReaders
      <3>1. request'[r] = Idle
        BY <1>4, <2>1
      <3>2. QED
        BY <3>1, IdleRequest DEF Served
    <2>2. CASE r \notin VaultReaders
      <3>1. request'[r] = request[r]
        BY <1>4, <2>2
      <3>2. QED
        BY <1>0, <1>1, <1>2, <1>4, <3>1, KeptServed DEF IInv
    <2>3. QED
      BY <2>1, <2>2
  <1>5. ASSUME NEW h \in Artifacts PROVE Stored(h)'
    <2>1. Indexed(h)' => Indexed(h)
      BY <1>1 DEF Indexed
    <2>2. /\ registering'[h].writing = 0 /\ registering'[h].written = 0
          /\ file'[h] # "absent" <=> file[h] # "absent"
          /\ file'[h] = "torn" => h \in damaged'
      BY <1>5 DEF NoHandler
    <2>3. QED
      BY <1>5, <2>1, <2>2 DEF IInv, Stored
  <1>6. QED
    BY <1>3, <1>4, <1>5 DEF IInv

-----------------------------------------------------------------------------
(* Every step *)

LEMMA InitEstablishes == Init => IInv
  <1> SUFFICES ASSUME Init PROVE IInv
    OBVIOUS
  <1>1. TypeOK
    BY IdleRequest, BoundsAssumption DEF Init, TypeOK, NoEntry, NoHandler, Entry, Phases, Promotions
  <1>2. \A h \in Artifacts : Stored(h)
    BY DEF Init, Stored, Indexed, NoEntry, NoHandler
  <1>3. \A r \in Readers : Served(r)
    BY IdleRequest DEF Init, Served
  <1>4. QED
    BY <1>1, <1>2, <1>3 DEF IInv

LEMMA NextPreserves == IInv /\ [Next]_vars => IInv'
  <1> SUFFICES ASSUME IInv, [Next]_vars PROVE IInv'
    OBVIOUS
  <1>1. CASE UNCHANGED vars
    <2> USE DEF vars, indexVars, registrationVars, historyVars, faultVars
    <2>1. TypeOK'
      BY <1>1 DEF IInv, TypeOK
    <2>2. \A h \in Artifacts : Stored(h)'
      BY <1>1 DEF IInv, Stored, Indexed
    <2>3. \A r \in Readers : Served(r)'
      BY <1>1 DEF IInv, Served
    <2>4. QED
      BY <2>1, <2>2, <2>3 DEF IInv
  <1>2. CASE Next
    <2>1. Observe
      BY <1>2 DEF Next
    <2>2. ASSUME NEW r \in Readers, Read(r) PROVE IInv'
      BY <2>1, <2>2, AsksPreserve, TakePreserves, LoadPreserves, RepliesPreserve DEF Read
    <2>3. QED
      BY <1>2, <2>1, <2>2, WritePreserves, ReloadPreserves, CrashPreserves DEF Next
  <1>3. QED
    BY <1>1, <1>2

-----------------------------------------------------------------------------
(* Nothing is missed.  Once listed, an artifact that is due stays due only  *)
(* while it is among the loaded ones or those still to be loaded.           *)

Due(req, looks, h, readable) ==
    IF req.of = "certified" THEN req.status # "none" /\ looks = {req.status}
    ELSE /\ \E promotion \in Promotions : looks = {promotion}
         /\ req.of = IF h \in Tools THEN "tool" ELSE "data"
         /\ readable

Complete(r) ==
    LET req == request[r]
    IN  req.pc # "idle" /\ req.fresh =>
          /\ \A h \in req.asked : seen[r][h] # {}
          /\ req.pc = "loading" =>
                \A h \in req.asked : Due(req, seen[r][h], h, h \notin unreadable[r])
                                     => h \in req.items \cup req.todo

(* What is due after more was seen was due before. *)
LEMMA DueBefore ==
    ASSUME NEW req, NEW looks, NEW more, NEW h, NEW now, NEW before,
           looks \subseteq more, looks # {}, now => before, Due(req, more, h, now)
    PROVE  Due(req, looks, h, before)
  BY DEF Due

LEMMA ObservedFiles ==
    ASSUME Observe, NEW r \in Readers, NEW h \in request'[r].asked
    PROVE  h \notin unreadable'[r] <=> h \notin unreadable[r] /\ file'[h] = "whole"
  BY DEF Observe

LEMMA KeptComplete ==
    ASSUME IInv, IInv', Observe, NEW r \in Readers, Complete(r), request'[r] = request[r]
    PROVE  Complete(r)'
  <1> DEFINE req == request[r]
  <1>1. \A h \in req.asked : /\ seen[r][h] \subseteq seen'[r][h]
                             /\ h \notin unreadable'[r] => h \notin unreadable[r]
    BY Observed, ObservedFiles DEF IInv, TypeOK, Indexes
  <1>2. CASE req.pc # "idle" /\ req.fresh
    <2>1. \A h \in req.asked : seen'[r][h] # {}
      BY <1>1, <1>2 DEF Complete
    <2>2. ASSUME req.pc = "loading", NEW h \in req.asked,
                 Due(req, seen'[r][h], h, h \notin unreadable'[r])
          PROVE  h \in req.items \cup req.todo
      <3>1. seen[r][h] # {}
        BY <1>2, <2>2 DEF Complete
      <3>2. Due(req, seen[r][h], h, h \notin unreadable[r])
        BY <1>1, <2>2, <3>1, DueBefore
      <3>3. QED
        BY <1>2, <2>2, <3>2 DEF Complete
    <2>3. QED
      BY <2>1, <2>2 DEF Complete
  <1>3. CASE ~(req.pc # "idle" /\ req.fresh)
    BY <1>3 DEF Complete
  <1>4. QED
    BY <1>2, <1>3

(* A listing takes everything that is due. *)
LEMMA ListsWhatIsDue ==
    ASSUME NEW idx \in Indexes, NEW req \in Request, Formed(req),
           NEW h \in req.asked, NEW looks, Shown(idx[h]) \in looks,
           NEW readable, Due(Listing(idx, req), looks, h, readable)
    PROVE  h \in Listing(idx, req).items \cup Listing(idx, req).todo
  <1> DEFINE new == Listing(idx, req)
  <1>0. /\ req.gate \in {"Active", "any", "listed", "fetched"}
        /\ h \in Artifacts /\ idx[h] \in Entry
        /\ new.of = req.of /\ new.gate = req.gate /\ new.status \in Promotions
    BY ListingType DEF Request, Indexes
  <1>1. PICK p \in Promotions : looks = {p} /\ (req.of = "certified" => p = new.status /\ p # "none")
    BY <1>0 DEF Due
  <1>2. idx[h].phase = "Active" /\ idx[h].promotion = p
    BY <1>0, <1>1 DEF Shown, Entry, Phases, Promotions
  <1>3. CASE req.gate \in {"Active", "any"}
    <2>1. new.todo = IF req.gate = "Active" THEN ListActiveByStableRef(idx, req.asked)
                                            ELSE GetByCasHash(idx, req.asked)
      BY <1>3 DEF Listing, Request, Formed
    <2>2. QED
      BY <1>2, <1>3, <2>1 DEF ListActiveByStableRef, GetByCasHash
  <1>4. CASE req.gate = "listed"
    <2>1. /\ new.items = ListActiveToolFunctionCatalogEntries(idx, req.status)
          /\ new.status = req.status /\ req.of = "certified" /\ req.asked = Tools
      BY <1>4 DEF Listing, Request, Formed
    <2>2. QED
      BY <1>1, <1>2, <2>1 DEF ListActiveToolFunctionCatalogEntries
  <1>5. CASE req.gate = "fetched"
    <2>1. /\ new.items = GetActiveToolFunctionCatalogEntry(idx, req.asked)
          /\ req.of = "certified"
      BY <1>5 DEF Listing, Request, Formed
    <2>2. QED
      BY <1>1, <1>2, <2>1 DEF GetActiveToolFunctionCatalogEntry
  <1>6. QED
    BY <1>0, <1>3, <1>4, <1>5

(* A request that has just been listed, from an index the history shows. *)
LEMMA ListedComplete ==
    ASSUME NEW r \in Readers, NEW idx \in Indexes, NEW req \in Request, Formed(req),
           request'[r] = Listing(idx, req),
           req.fresh => \A h \in req.asked : Shown(idx[h]) \in seen'[r][h]
    PROVE  Complete(r)'
  <1> DEFINE new == Listing(idx, req)
  <1>1. new.asked = req.asked /\ new.fresh = req.fresh
    BY ListingType
  <1>2. ASSUME req.fresh, NEW h \in req.asked, Due(new, seen'[r][h], h, h \notin unreadable'[r])
        PROVE  h \in new.items \cup new.todo
    BY <1>2, ListsWhatIsDue
  <1> HIDE DEF new
  <1>3. request'[r] = new
    BY DEF new
  <1>4. QED
    BY <1>1, <1>2, <1>3 DEF Complete

LEMMA AcceptCompletes ==
    ASSUME IInv, IInv', Observe, NEW r \in Readers, NEW req \in Request, Accept(r, req),
           Formed(req), req.pc = "accepted"
    PROVE  Complete(r)'
  <1>0. /\ mem \in Indexes /\ mem' \in Indexes /\ disk' \in Indexes /\ TypeOK
        /\ request' \in [Readers -> Request] /\ request \in [Readers -> Request] /\ mem' = mem
    BY DEF IInv, TypeOK, Indexes, Accept, ReadsOnly
  <1>1. CASE r \in PaletteReaders
    <2>1. request'[r] \in {req, [req EXCEPT !.fresh = FALSE]}
      BY <1>0, <1>1 DEF Accept, Reload, Serve
    <2>2. request'[r].pc = "accepted"
      BY <2>1 DEF Request
    <2>3. \A h \in request'[r].asked : seen'[r][h] # {}
      BY <1>0, Observed
    <2>4. QED
      BY <2>2, <2>3 DEF Complete
  <1>2. CASE r \notin PaletteReaders
    <2>1. request'[r] = Listing(mem, req)
      BY <1>0, <1>2 DEF Accept, Serve
    <2>2. request'[r].asked = req.asked
      BY <1>0, <2>1, ListingType
    <2>3. \A h \in req.asked : Shown(mem[h]) \in seen'[r][h]
      BY <1>0, <1>2, <2>2, Observed DEF RecordFor
    <2>4. QED
      BY <1>0, <2>1, <2>3, ListedComplete
  <1>3. QED
    BY <1>1, <1>2

LEMMA TakeCompletes ==
    ASSUME IInv, IInv', Observe, NEW r \in Readers, TakeListing(r)
    PROVE  Complete(r)'
  <1> DEFINE req == request[r]
  <1>0. /\ palette \in Indexes /\ mem' \in Indexes /\ disk' \in Indexes /\ TypeOK
        /\ request' \in [Readers -> Request] /\ req \in Request /\ Served(r)
    BY DEF IInv, TypeOK, Indexes
  <1>1. request'[r] = Listing(palette, req) /\ req.pc = "accepted" /\ Formed(req)
    BY <1>0 DEF TakeListing, Serve, Served, TypeOK
  <1>2. request'[r].asked = req.asked
    BY <1>0, <1>1, ListingType
  <1>3. ASSUME req.fresh, NEW h \in req.asked PROVE Shown(palette[h]) \in seen'[r][h]
    <2>1. Shown(palette[h]) \in seen[r][h]
      BY <1>0, <1>1, <1>3 DEF Served
    <2>2. QED
      BY <1>0, <1>2, <1>3, <2>1, Observed
  <1>4. QED
    BY <1>0, <1>1, <1>3, ListedComplete

(* An artifact that is left out is of the other kind, or unreadable. *)
LEMMA LoadCompletes ==
    ASSUME IInv, IInv', Observe, NEW r \in Readers, LoadNext(r), Complete(r)
    PROVE  Complete(r)'
  <1> DEFINE req == request[r]
  <1>0. /\ mem' \in Indexes /\ disk' \in Indexes /\ TypeOK
        /\ request' \in [Readers -> Request] /\ req \in Request /\ Served(r)
    BY DEF IInv, TypeOK, Indexes
  <1>1. PICK h \in req.todo :
            /\ req.pc = "loading"
            /\ Serve(r, [req EXCEPT !.todo = @ \ {h},
                                    !.items = IF Loaded(r, h) THEN @ \cup {h} ELSE @])
            /\ ReadsOnly
    BY DEF LoadNext
  <1> DEFINE new == [req EXCEPT !.todo = @ \ {h},
                                !.items = IF Loaded(r, h) THEN @ \cup {h} ELSE @]
  <1>2. /\ new.pc = "loading" /\ new.of = req.of /\ new.asked = req.asked
        /\ new.fresh = req.fresh /\ new.status = req.status
        /\ new.todo = req.todo \ {h}
        /\ new.items = IF Loaded(r, h) THEN req.items \cup {h} ELSE req.items
    BY <1>0, <1>1 DEF Request
  <1> HIDE DEF new
  <1>3. request'[r] = new /\ file' = file
    BY <1>0, <1>1 DEF Serve, TypeOK, new, ReadsOnly, registrationVars
  <1>4. \A x \in req.asked :
            /\ seen[r][x] \subseteq seen'[r][x]
            /\ h \in Artifacts
            /\ x \notin unreadable'[r] <=> x \notin unreadable[r] /\ file[x] = "whole"
    BY <1>0, <1>1, <1>2, <1>3, Observed, ObservedFiles DEF Served
  <1>5. ASSUME req.fresh, NEW x \in req.asked, Due(new, seen'[r][x], x, x \notin unreadable'[r])
        PROVE  x \in new.items \cup new.todo
    <2>1. seen[r][x] # {}
      BY <1>1, <1>5 DEF Complete
    <2>2. Due(req, seen'[r][x], x, x \notin unreadable'[r])
      BY <1>2, <1>5 DEF Due
    <2>3. Due(req, seen[r][x], x, x \notin unreadable[r])
      BY <1>4, <2>1, <2>2, DueBefore
    <2>4. x \in req.items \cup req.todo
      BY <1>1, <1>5, <2>3 DEF Complete
    <2>5. CASE x # h
      BY <1>2, <2>4, <2>5
    <2>6. CASE x = h
      <3>1. req.of # "certified"
        BY <1>0, <1>1 DEF Served
      <3>2. file[h] = "whole" /\ req.of = IF h \in Tools THEN "tool" ELSE "data"
        BY <1>4, <2>2, <2>6, <3>1 DEF Due
      <3>3. h \in Artifacts
        BY <1>0, <1>1 DEF Request
      <3>4. Loaded(r, h)
        BY <3>2, <3>3 DEF Loaded, LoadTool, LoadData, Artifacts
      <3>5. QED
        BY <1>2, <2>6, <3>4
    <2>7. QED
      BY <2>5, <2>6
  <1>6. \A x \in req.asked : req.fresh => seen'[r][x] # {}
    BY <1>1, <1>4 DEF Complete
  <1>7. QED
    BY <1>2, <1>3, <1>5, <1>6 DEF Complete

LEMMA AsksComplete ==
    ASSUME IInv, IInv', Observe, NEW r \in Readers,
           \/ handleListTools(r) \/ ListTools(r) \/ handleListData(r) \/ ListData(r)
           \/ handleGetTool(r) \/ handleGetData(r) \/ GetTool(r) \/ GetData(r)
           \/ handleListCertifiedTools(r) \/ ListCertifiedTools(r) \/ handleGetCertifiedTool(r)
    PROVE  Complete(r)'
  <1>1. PICK req \in Request : Accept(r, req) /\ Formed(req) /\ req.pc = "accepted"
    BY AskIsMade
  <1>2. QED
    BY <1>1, AcceptCompletes

LEMMA OthersKept ==
    ASSUME TypeOK, NEW r \in Readers, Read(r), NEW x \in Readers \ {r}
    PROVE  request'[x] = request[x]
  <1>1. PICK req : Serve(r, req)
    <2>1. ASSUME NEW q, Accept(r, q) PROVE \E req : Serve(r, req)
      BY <2>1 DEF Accept, Reload
    <2>2. CASE TakeListing(r) \/ LoadNext(r) \/ writeJSON(r)
      BY <2>2 DEF TakeListing, LoadNext, writeJSON
    <2>3. CASE \/ handleListTools(r) \/ ListTools(r) \/ handleListData(r) \/ ListData(r)
               \/ handleGetTool(r) \/ handleGetData(r) \/ GetTool(r) \/ GetData(r)
               \/ handleListCertifiedTools(r) \/ ListCertifiedTools(r) \/ handleGetCertifiedTool(r)
      BY <2>1, <2>3, AskIsMade
    <2>4. QED
      BY <2>2, <2>3 DEF Read
  <1>2. QED
    BY <1>1 DEF Serve, TypeOK

LEMMA NextCompletes ==
    ASSUME IInv, IInv', [Next]_vars, \A r \in Readers : Complete(r)
    PROVE  \A r \in Readers : Complete(r)'
  <1>0. TypeOK
    BY DEF IInv
  <1>1. CASE UNCHANGED vars
    BY <1>1 DEF vars, indexVars, registrationVars, historyVars, faultVars, Complete
  <1>2. ASSUME Next, Write \/ ReloadByAnother, NEW r \in Readers PROVE Complete(r)'
    <2>1. request' = request
      BY <1>2 DEF Write, ReloadByAnother, SaveWithCasHash, FinishWrite, RegisterTool, RegisterData,
         Register, SetLifecyclePhase, UpsertToolFunctionCatalogEntry
    <2>2. QED
      BY <1>2, <2>1, KeptComplete DEF Next
  <1>3. ASSUME Next, CrashRestart, NEW r \in Readers PROVE Complete(r)'
    <2>1. CASE r \in VaultReaders
      <3>1. request'[r] = Idle
        BY <1>3, <2>1 DEF CrashRestart
      <3>2. QED
        BY <3>1, IdleRequest DEF Complete
    <2>2. CASE r \notin VaultReaders
      <3>1. request'[r] = request[r]
        BY <1>3, <2>2 DEF CrashRestart
      <3>2. QED
        BY <1>3, <3>1, KeptComplete DEF Next
    <2>3. QED
      BY <2>1, <2>2
  <1>4. ASSUME Next, NEW x \in Readers, Read(x), NEW r \in Readers PROVE Complete(r)'
    <2>0. Observe
      BY <1>4 DEF Next
    <2>1. CASE r # x
      <3>1. request'[r] = request[r]
        BY <1>0, <1>4, <2>1, OthersKept
      <3>2. QED
        BY <1>4, <2>0, <3>1, KeptComplete
    <2>2. CASE r = x /\ writeJSON(r)
      <3>1. request'[r] = Idle
        BY <1>0, <2>2 DEF writeJSON, Serve, TypeOK
      <3>2. QED
        BY <3>1, IdleRequest DEF Complete
    <2>3. CASE r = x /\ ~writeJSON(r)
      BY <1>4, <2>0, <2>3, AsksComplete, TakeCompletes, LoadCompletes DEF Read
    <2>4. QED
      BY <2>1, <2>2, <2>3
  <1>5. QED
    BY <1>1, <1>2, <1>3, <1>4 DEF Next

-----------------------------------------------------------------------------
(* The theorems *)

(* The inductive invariant holds of every reachable state. *)
THEOREM Invariance == Spec => []IInv
  <1>1. QED
    BY InitEstablishes, NextPreserves, PTL DEF Spec

(* Type correctness of files, indexes, requests and histories. *)
THEOREM TypeCorrect == Spec => []TypeOK
  <1>1. IInv => TypeOK
    BY DEF IInv
  <1>2. QED
    BY <1>1, Invariance, PTL

(* A response shows only what the index of record showed while the request  *)
(* was served, unless NodePalette could not read the file for it            *)
(* (pkg/catalogrest, server.go; cmd/palette, main.go).                      *)
THEOREM OnlyShown == Spec => []ServedWasShown
  <1>1. IInv => ServedWasShown
    BY DEF IInv, Served, ServedWasShown, ShownAtSomeTime, Shows
  <1>2. QED
    BY <1>1, Invariance, PTL

(* An index entry names a definition that was written completely, and is    *)
(* complete but for a rewrite under way, a rewrite that failed and a power  *)
(* loss (pkg/catalog, catalog.go and data.go).                              *)
THEOREM Readable == Spec => []IndexedIsReadable
  <1>1. IInv => IndexedIsReadable
    BY DEF IInv, TypeOK, Stored, Indexed, IndexedIsReadable
  <1>2. QED
    BY <1>1, Invariance, PTL

(* A response misses nothing that was to be shown all the time              *)
(* (pkg/catalogrest, server.go): neither because the files are read after   *)
(* the entries, nor because NodePalette reads the index twice.  A failed    *)
(* reload is exempt.                                                        *)
THEOREM NothingMissed == Spec => []MissesNothing
  <1> DEFINE Whole == \A r \in Readers : Complete(r)
  <1>1. Init => Whole
    BY IdleRequest DEF Init, Complete
  <1>2. IInv /\ IInv' /\ Whole /\ [Next]_vars => Whole'
    BY NextCompletes
  <1>3. IInv /\ Whole => MissesNothing
    BY DEF IInv, Served, Complete, MissesNothing, ToBeShown, Due, Answered
  <1>4. QED
    BY <1>1, <1>2, <1>3, Invariance, PTL DEF Spec
=============================================================================
