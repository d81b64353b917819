---------------------------- MODULE IndexStore ----------------------------
(***************************************************************************)
(* The artifact index shared by several processes (pkg/index, store.go and *)
(* toolfunction_writer_fence.go) and the registration of ToolFunctions in  *)
(* it (pkg/catalog, toolfunction.go).  Every process caches the whole      *)
(* index and every write rewrites the whole file: temp file, rename,       *)
(* directory fsync.  A lock file serializes the writers, a fence file      *)
(* gives one of them the right to register, and the generation (a hash of  *)
(* the bytes last loaded or written) tells a writer that the file moved    *)
(* under it.  Saves fail before the rename or between the rename and the   *)
(* fsync, processes crash, and a power loss undoes what was not fsynced.   *)
(***************************************************************************)
EXTENDS Naturals, FiniteSets

CONSTANTS
    Stores,        \* processes that opened the index directory
    Registrars,    \* those that serve RegisterToolFunction (NodeVault, not NodePalette)
    Requests,      \* request_ids
    Bases,         \* canonical full requests (RequestBasisJSON with its version)
    Hashes,        \* casHashes of runnable records
    CasOf,         \* deriveToolFunction: casHash of a basis
    DigestOf,      \* tool_function_digest behind a casHash
    EnvelopeOf,    \* validation_policy and environment_hints of a basis
    LegacyBases,   \* bases canonicalized as legacy-order-v0
    Entries,       \* ids appended by Store.Append, whose failed save is not rolled back
    Images,        \* ids appended by AppendToolImageRecord, which is rolled back
    InitialIndex,  \* what an earlier release left in the file
    NoRequest, NoReceipt, UnknownBasis, NoStore,
    MaxInflight,   \* bound: concurrent registrations in one process
    MaxEpoch,      \* bound: write epochs claimed
    MaxFaults      \* bound: failed writes, crashes and power losses

Receipts == Bases \cup {UnknownBasis, NoReceipt}
Index == [origin: [Hashes -> Requests \cup {NoRequest}],
          receipt: [Requests -> Receipts],
          entries: SUBSET Entries,
          images: SUBSET Images]

(* What the register path maintains in every index: the runnable record of  *)
(* a receipt is present and was registered with the same basis, a record's  *)
(* originating request has a receipt, and all records of one                *)
(* tool_function_digest were registered with one envelope.                  *)
Linked(idx) ==
    /\ \A q \in Requests : idx.receipt[q] \in Bases =>
         LET o == idx.origin[CasOf[idx.receipt[q]]]
         IN  o # NoRequest /\ idx.receipt[o] = idx.receipt[q]
    /\ \A h \in Hashes : idx.origin[h] # NoRequest =>
         /\ idx.receipt[idx.origin[h]] # NoReceipt
         /\ idx.receipt[idx.origin[h]] \in Bases => CasOf[idx.receipt[idx.origin[h]]] = h

OneEnvelope(idx) ==
    \A g, h \in Hashes :
        LET b == idx.receipt[idx.origin[g]]
            c == idx.receipt[idx.origin[h]]
        IN  /\ DigestOf[g] = DigestOf[h]
            /\ idx.origin[g] # NoRequest /\ idx.origin[h] # NoRequest
            /\ b \in Bases /\ c \in Bases
            => EnvelopeOf[b] = EnvelopeOf[c]

ASSUME RegistrarsAssumption == Registrars \subseteq Stores
ASSUME DerivationAssumption == CasOf \in [Bases -> Hashes] /\ LegacyBases \subseteq Bases
ASSUME NullsAssumption ==
    /\ NoRequest \notin Requests
    /\ NoReceipt \notin Bases /\ UnknownBasis \notin Bases /\ NoReceipt # UnknownBasis
    /\ NoStore \notin Stores
ASSUME InitialIndexAssumption ==
    InitialIndex \in Index /\ Linked(InitialIndex) /\ OneEnvelope(InitialIndex)
ASSUME BoundsAssumption == MaxInflight \in Nat /\ MaxEpoch \in Nat /\ MaxFaults \in Nat

VARIABLES
    mem,        \* idx: each process's cached index
    generation, \* indexGeneration: the index it last loaded or wrote
    epoch,      \* toolFunctionWriterEpoch, 0 before the first claim
    uncertain,  \* toolFunctionDurabilityUncertain
    disk,       \* the directory: index file and fence epoch, as read
    stable,     \* the same as a power loss would leave it
    inflight,   \* registrations past checkCanonicalizationSelection, per process
    holder,     \* process inside RegisterToolFunctionAtomic, with op and step
    acked,      \* operations answered with success
    faults,     \* failed writes, crashes and power losses so far
    losses      \* power losses so far

storeVars == <<mem, generation, epoch, uncertain>>
diskVars == <<disk, stable>>
vars == <<storeVars, diskVars, inflight, holder, acked, faults, losses>>

Ops == [req: Requests, basis: Bases]
Free == [store |-> NoStore]
Steps == {"fence", "repair", "decide"}
Locked == holder.store # NoStore

-----------------------------------------------------------------------------
(* load, persistLocked and syncDir *)

load(s) ==
    /\ mem' = [mem EXCEPT ![s] = disk.index]
    /\ generation' = [generation EXCEPT ![s] = disk.index]

Fault ==
    /\ faults < MaxFaults
    /\ faults' = faults + 1

(* The new bytes are renamed into place, whatever follows. *)
RenameIndex(s, idx) ==
    /\ mem' = [mem EXCEPT ![s] = idx]
    /\ generation' = [generation EXCEPT ![s] = idx]
    /\ disk' = [disk EXCEPT !.index = idx]

(* persistLocked returns nil: the directory fsync covers both files. *)
Persisted(s, idx) ==
    /\ RenameIndex(s, idx)
    /\ stable' = disk'
    /\ UNCHANGED faults

(* errIndexPersistedNotDurable: renamed, the directory not fsynced. *)
PersistedNotDurable(s, idx) ==
    /\ Fault
    /\ RenameIndex(s, idx)
    /\ UNCHANGED stable

(* Any error before the rename; the caller leaves `kept` in memory. *)
NotPersisted(s, kept) ==
    /\ Fault
    /\ mem' = [mem EXCEPT ![s] = kept]
    /\ UNCHANGED <<generation, diskVars>>

-----------------------------------------------------------------------------
(* save: the persist step of every other write.  `kept` is what the caller  *)
(* leaves in memory when nothing reached the file.                          *)

Superseded(s) == epoch[s] # 0 /\ epoch[s] # disk.fence
Moved(s) == disk.index # generation[s]

SaveIgnoringGeneration(s, idx, kept) ==
    /\ ~Locked
    /\ \/ Superseded(s) /\ mem' = [mem EXCEPT ![s] = kept] /\ UNCHANGED <<generation, diskVars, faults>>
       \/ ~Superseded(s) /\ Persisted(s, idx)
       \/ ~Superseded(s) /\ PersistedNotDurable(s, idx)
       \/ ~Superseded(s) /\ NotPersisted(s, kept)

save(s, idx, kept) ==
    /\ ~Locked
    /\ \/ /\ Superseded(s)
          /\ mem' = [mem EXCEPT ![s] = kept]
          /\ UNCHANGED <<generation, diskVars, faults>>
       \/ /\ ~Superseded(s) /\ Moved(s)
          /\ load(s)
          /\ UNCHANGED <<diskVars, faults>>
       \/ /\ ~Superseded(s) /\ ~Moved(s)
          /\ Persisted(s, idx) \/ PersistedNotDurable(s, idx) \/ NotPersisted(s, kept)

(* Store.Append keeps its entry in memory when the save fails. *)
AppendEntry(s, e) ==
    LET idx == [mem[s] EXCEPT !.entries = @ \cup {e}]
    IN  /\ e \notin mem[s].entries
        /\ save(s, idx, idx)
        /\ UNCHANGED <<epoch, uncertain, inflight, holder, acked, losses>>

ImageNotRolledBack(s, i) ==
    LET idx == [mem[s] EXCEPT !.images = @ \cup {i}]
    IN  /\ i \notin mem[s].images
        /\ save(s, idx, idx)
        /\ UNCHANGED <<epoch, uncertain, inflight, holder, acked, losses>>

(* AppendToolImageRecord takes it back. *)
AppendToolImageRecord(s, i) ==
    /\ i \notin mem[s].images
    /\ save(s, [mem[s] EXCEPT !.images = @ \cup {i}], mem[s])
    /\ UNCHANGED <<epoch, uncertain, inflight, holder, acked, losses>>

(* NodePalette reloads before every request, without the writer lock. *)
Reload(s) ==
    /\ holder.store # s
    /\ load(s)
    /\ UNCHANGED <<epoch, uncertain, diskVars, inflight, holder, acked, faults, losses>>

-----------------------------------------------------------------------------
(* RegisterToolFunction: the version is selected from the cached receipt,   *)
(* then RegisterToolFunctionAtomic runs under the process's mutex and the   *)
(* writer lock.                                                             *)

SelectedFromLatest(s, op) ==
    /\ holder.store # s
    /\ op \notin inflight[s]
    /\ Cardinality(inflight[s]) < MaxInflight
    /\ mem[s].receipt[op.req] # UnknownBasis
    /\ inflight' = [inflight EXCEPT ![s] = @ \cup {op}]
    /\ UNCHANGED <<storeVars, diskVars, holder, acked, faults, losses>>

(* A new request_id must name the current canonicalizer. *)
checkCanonicalizationSelection(s, op) ==
    LET prior == mem[s].receipt[op.req]
    IN  /\ holder.store # s
        /\ op \notin inflight[s]
        /\ Cardinality(inflight[s]) < MaxInflight
        /\ \/ prior = NoReceipt /\ op.basis \notin LegacyBases
           \/ prior \in Bases /\ (prior \in LegacyBases <=> op.basis \in LegacyBases)
        /\ inflight' = [inflight EXCEPT ![s] = @ \cup {op}]
        /\ UNCHANGED <<storeVars, diskVars, holder, acked, faults, losses>>

Enter(s, op) == holder' = [store |-> s, op |-> op, step |-> "fence"]
GoTo(step) == holder' = [holder EXCEPT !.step = step]
Holds(s, op, step) == holder = [store |-> s, op |-> op, step |-> step]
Return(s, op) ==
    /\ holder' = Free
    /\ inflight' = [inflight EXCEPT ![s] = @ \ {op}]

lockToolFunctionWriter(s, op) ==
    /\ ~Locked
    /\ op \in inflight[s]
    /\ Enter(s, op)
    /\ UNCHANGED <<storeVars, diskVars, inflight, acked, faults, losses>>

SupersededWriterNotRefused(s, op) ==
    /\ Holds(s, op, "fence")
    /\ epoch[s] # 0
    /\ IF Moved(s) THEN load(s) ELSE UNCHANGED <<mem, generation>>
    /\ GoTo("repair")
    /\ UNCHANGED <<epoch, uncertain, diskVars, inflight, acked, faults, losses>>

(* A writer with an epoch: refused when another one has claimed since.      *)
VerifyEpoch(s, op) ==
    /\ Holds(s, op, "fence")
    /\ epoch[s] # 0
    /\ \/ /\ Superseded(s)
          /\ Return(s, op)
          /\ UNCHANGED <<mem, generation>>
       \/ /\ ~Superseded(s)
          /\ IF Moved(s) THEN load(s) ELSE UNCHANGED <<mem, generation>>
          /\ GoTo("repair")
          /\ UNCHANGED inflight
    /\ UNCHANGED <<epoch, uncertain, diskVars, acked, faults, losses>>

(* The first registration loads the file, then replaces the fence file.     *)
ClaimEpoch(s, op) ==
    /\ Holds(s, op, "fence")
    /\ epoch[s] = 0
    /\ disk.fence < MaxEpoch
    /\ load(s)
    /\ disk' = [disk EXCEPT !.fence = @ + 1]
    /\ stable' = disk'
    /\ epoch' = [epoch EXCEPT ![s] = disk.fence + 1]
    /\ GoTo("repair")
    /\ UNCHANGED <<uncertain, inflight, acked, faults, losses>>

(* The fence write fails: before its rename, or after it, in which case the *)
(* epoch has moved on disk although no process holds it.                    *)
ClaimFails(s, op) ==
    /\ Holds(s, op, "fence")
    /\ epoch[s] = 0
    /\ Fault
    /\ load(s)
    /\ \/ UNCHANGED disk
       \/ disk.fence < MaxEpoch /\ disk' = [disk EXCEPT !.fence = @ + 1]
    /\ Return(s, op)
    /\ UNCHANGED <<epoch, uncertain, stable, acked, losses>>

(* Nothing may be answered on a rename that was not fsynced: write again. *)
repairToolFunctionDurability(s, op) ==
    /\ Holds(s, op, "repair")
    /\ \/ /\ ~uncertain[s]
          /\ GoTo("decide")
          /\ UNCHANGED <<storeVars, diskVars, inflight, faults>>
       \/ /\ uncertain[s]
          /\ Persisted(s, mem[s])
          /\ uncertain' = [uncertain EXCEPT ![s] = FALSE]
          /\ GoTo("decide")
          /\ UNCHANGED <<epoch, inflight>>
       \/ /\ uncertain[s]
          /\ PersistedNotDurable(s, mem[s]) \/ NotPersisted(s, mem[s])
          /\ Return(s, op)
          /\ UNCHANGED <<epoch, uncertain>>
    /\ UNCHANGED <<acked, losses>>

(* The three outcomes of the closing persist: success, renamed without the  *)
(* fsync (memory keeps the registration), or nothing written (rolled back). *)
Commit(s, op, idx) ==
    /\ \/ /\ Persisted(s, idx)
          /\ acked' = acked \cup {op}
          /\ UNCHANGED uncertain
       \/ /\ PersistedNotDurable(s, idx)
          /\ uncertain' = [uncertain EXCEPT ![s] = TRUE]
          /\ UNCHANGED acked
       \/ /\ NotPersisted(s, mem[s])
          /\ UNCHANGED <<uncertain, acked>>
    /\ Return(s, op)
    /\ UNCHANGED <<epoch, losses>>

ReplayByRequestIdOnly(s, op) ==
    /\ Holds(s, op, "decide")
    /\ mem[s].receipt[op.req] # NoReceipt
    /\ acked' = acked \cup {op}
    /\ Return(s, op)
    /\ UNCHANGED <<storeVars, diskVars, faults, losses>>

(* Axis 1, request_id: same basis replays, anything else is a conflict. *)
resolveToolFunctionRequest(s, op) ==
    /\ Holds(s, op, "decide")
    /\ mem[s].receipt[op.req] # NoReceipt
    /\ \/ /\ mem[s].receipt[op.req] = op.basis
          /\ mem[s].origin[CasOf[op.basis]] # NoRequest
          /\ acked' = acked \cup {op}
       \/ /\ mem[s].receipt[op.req] # op.basis \/ mem[s].origin[CasOf[op.basis]] = NoRequest
          /\ UNCHANGED acked
    /\ Return(s, op)
    /\ UNCHANGED <<storeVars, diskVars, faults, losses>>

(* The envelope: every record of the same tool_function_digest must have a  *)
(* known basis with the same policy and hints.                              *)
EnvelopeUnchecked(idx, basis) == TRUE

EnvelopeAllows(idx, basis) ==
    \A h \in Hashes :
        idx.origin[h] # NoRequest /\ DigestOf[h] = DigestOf[CasOf[basis]] =>
            /\ idx.receipt[idx.origin[h]] \in Bases
            /\ EnvelopeOf[idx.receipt[idx.origin[h]]] = EnvelopeOf[basis]

(* Axis 2, content: an existing record is reused only when its originating  *)
(* receipt has the very same basis.                                         *)
proveToolFunctionReuse(idx, basis) ==
    idx.receipt[idx.origin[CasOf[basis]]] = basis

WithReceipt(idx, op) == [idx EXCEPT !.receipt[op.req] = op.basis]
WithFunction(idx, op) == [WithReceipt(idx, op) EXCEPT !.origin[CasOf[op.basis]] = op.req]

RegisterToolFunctionAtomic(s, op) ==
    LET idx     == mem[s]
        known   == idx.origin[CasOf[op.basis]] # NoRequest
        allowed == /\ EnvelopeAllows(idx, op.basis)
                   /\ known => proveToolFunctionReuse(idx, op.basis)
    IN  /\ Holds(s, op, "decide")
        /\ idx.receipt[op.req] = NoReceipt
        /\ \/ allowed /\ ~known /\ Commit(s, op, WithFunction(idx, op))
           \/ allowed /\ known /\ Commit(s, op, WithReceipt(idx, op))
           \/ /\ ~allowed
              /\ Return(s, op)
              /\ UNCHANGED <<storeVars, diskVars, acked, faults, losses>>

-----------------------------------------------------------------------------
(* Crashes, write-back and power loss *)

(* A process dies, at any point, and is started again: New loads the file   *)
(* and fsyncs the directory before the Store is used.                       *)
Release(s) == holder' = IF holder.store = s THEN Free ELSE holder

Restart(s) ==
    /\ Fault
    /\ load(s)
    /\ stable' = disk
    /\ epoch' = [epoch EXCEPT ![s] = 0]
    /\ uncertain' = [uncertain EXCEPT ![s] = FALSE]
    /\ inflight' = [inflight EXCEPT ![s] = {}]
    /\ Release(s)
    /\ UNCHANGED <<disk, acked, losses>>

(* The kernel may write a directory entry back on its own. *)
WriteBack ==
    /\ disk # stable
    /\ \/ stable' = [stable EXCEPT !.index = disk.index]
       \/ stable' = [stable EXCEPT !.fence = disk.fence]
    /\ UNCHANGED <<storeVars, disk, inflight, holder, acked, faults, losses>>

PowerLoss ==
    /\ Fault
    /\ losses' = losses + 1
    /\ disk' = stable
    /\ mem' = [s \in Stores |-> stable.index]
    /\ generation' = [s \in Stores |-> stable.index]
    /\ epoch' = [s \in Stores |-> 0]
    /\ uncertain' = [s \in Stores |-> FALSE]
    /\ inflight' = [s \in Stores |-> {}]
    /\ holder' = Free
    /\ UNCHANGED <<stable, acked>>

-----------------------------------------------------------------------------
(* Specification *)

Init ==
    /\ mem = [s \in Stores |-> InitialIndex]
    /\ generation = [s \in Stores |-> InitialIndex]
    /\ epoch = [s \in Stores |-> 0]
    /\ uncertain = [s \in Stores |-> FALSE]
    /\ disk = [index |-> InitialIndex, fence |-> 0]
    /\ stable = disk
    /\ inflight = [s \in Stores |-> {}]
    /\ holder = Free
    /\ acked = {}
    /\ faults = 0
    /\ losses = 0

Register(s, op) ==
    \/ checkCanonicalizationSelection(s, op)
    \/ lockToolFunctionWriter(s, op)
    \/ VerifyEpoch(s, op)
    \/ ClaimEpoch(s, op)
    \/ ClaimFails(s, op)
    \/ repairToolFunctionDurability(s, op)
    \/ resolveToolFunctionRequest(s, op)
    \/ RegisterToolFunctionAtomic(s, op)

StoreWrites(s) ==
    \/ \E e \in Entries : AppendEntry(s, e)
    \/ \E i \in Images : AppendToolImageRecord(s, i)
    \/ Reload(s)
    \/ Restart(s)

Next ==
    \/ \E s \in Registrars, op \in Ops : Register(s, op)
    \/ \E s \in Stores : StoreWrites(s)
    \/ WriteBack
    \/ PowerLoss

Spec == Init /\ [][Next]_vars

-----------------------------------------------------------------------------
(* Properties *)

TypeOK ==
    /\ mem \in [Stores -> Index]
    /\ generation \in [Stores -> Index]
    /\ epoch \in [Stores -> 0..MaxEpoch]
    /\ uncertain \in [Stores -> BOOLEAN]
    /\ disk \in [index: Index, fence: 0..MaxEpoch]
    /\ stable \in [index: Index, fence: 0..MaxEpoch]
    /\ inflight \in [Stores -> SUBSET Ops]
    /\ holder \in {Free} \cup [store: Stores, op: Ops, step: Steps]
    /\ acked \in SUBSET Ops
    /\ faults \in 0..MaxFaults
    /\ losses \in Nat

(* A registration that was answered with success is still there after a     *)
(* power loss: no success, and no replay, is ever answered on a rename that *)
(* was not fsynced, whichever process renamed and whichever one answers.    *)
Registered(idx, op) ==
    /\ idx.receipt[op.req] = op.basis
    /\ idx.origin[CasOf[op.basis]] # NoRequest

AckedSurvivesPowerLoss == \A op \in acked : Registered(stable.index, op)

(* A whole-index rewrite never erases or relabels what any process          *)
(* committed before: only a power loss takes anything out of the file.      *)
Extends(old, new) ==
    /\ \A q \in Requests : old.receipt[q] \in {NoReceipt, new.receipt[q]}
    /\ \A h \in Hashes : old.origin[h] \in {NoRequest, new.origin[h]}
    /\ old.entries \subseteq new.entries
    /\ old.images \subseteq new.images

NothingErased == [][losses' = losses => Extends(disk.index, disk'.index)]_vars

(* The index file stays coherent however registrations of several processes *)
(* interleave: receipts point at records registered with the same request   *)
(* basis, and one tool_function_digest never carries two envelopes.         *)
RegistryCoherent == Linked(disk.index) /\ OneEnvelope(disk.index)

(* What a process answers lookups from is in the file: a failed write       *)
(* leaves no trace in memory of a receipt, a runnable record or an image.   *)
NoPhantomRecords ==
    \A s \in Stores :
        /\ \A q \in Requests : mem[s].receipt[q] \in {NoReceipt, disk.index.receipt[q]}
        /\ \A h \in Hashes : mem[s].origin[h] \in {NoRequest, disk.index.origin[h]}
        /\ mem[s].images \subseteq disk.index.images

(* legacy-order-v0 is replay-only: although the version is chosen before    *)
(* the lock is taken, from a cache that may be stale, every receipt of that *)
(* version was in the file from the start.                                  *)
LegacyReplayOnly ==
    \A q \in Requests :
        disk.index.receipt[q] \in LegacyBases =>
            InitialIndex.receipt[q] = disk.index.receipt[q]

(* The processes, their caches and the directory together keep the promise  *)
(* stated in FunctionRegistry: the ledger is what the index file holds.     *)
Ledger == {op \in Ops : Registered(disk.index, op)}

Registry == INSTANCE FunctionRegistry WITH ledger <- Ledger, answered <- acked

RegistrySpec == Registry!Spec

-----------------------------------------------------------------------------
(* The inductive invariant behind them *)

SameFunctions(a, b) == a.origin = b.origin /\ a.receipt = b.receipt

(* A cache is the index last loaded or written plus entries whose save      *)
(* failed, and that index is an earlier content of the file.                *)
Cached(m, loaded, file) ==
    /\ SameFunctions(m, loaded)
    /\ m.images = loaded.images
    /\ loaded.entries \subseteq m.entries
    /\ Extends(loaded, file)

CacheInv == \A s \in Stores : Cached(mem[s], generation[s], disk.index)

(* An epoch is held by one process at a time and never lies ahead of the    *)
(* fence.                                                                   *)
EpochInv ==
    /\ \A s \in Stores : epoch[s] <= disk.fence
    /\ \A s, t \in Stores : epoch[s] # 0 /\ epoch[s] = epoch[t] => s = t

(* Inside the critical section the writer is the current one, its cache is  *)
(* that of the file, and past the repair nothing is left to be fsynced.     *)
HolderInv ==
    holder.store # NoStore /\ holder.step # "fence" =>
        /\ epoch[holder.store] # 0
        /\ epoch[holder.store] = disk.fence
        /\ ~Moved(holder.store)
        /\ holder.step = "decide" => ~uncertain[holder.store]

(* If the file holds registrations that a power loss would undo, then the   *)
(* only process that may answer one knows that it has to write again.       *)
DurabilityInv ==
    /\ Extends(InitialIndex, stable.index)
    /\ Extends(stable.index, disk.index)
    /\ \/ SameFunctions(stable.index, disk.index)
       \/ \A s \in Stores : epoch[s] # 0 /\ epoch[s] = disk.fence => uncertain[s]

(* A legacy version past selection has a receipt in the process's cache. *)
SelectionInv ==
    /\ \A s \in Stores : \A op \in inflight[s] :
         op.basis \in LegacyBases => mem[s].receipt[op.req] # NoReceipt
    /\ holder.store # NoStore => holder.op \in inflight[holder.store]

IInv ==
    /\ TypeOK
    /\ CacheInv
    /\ EpochInv
    /\ HolderInv
    /\ DurabilityInv
    /\ SelectionInv
    /\ RegistryCoherent
    /\ Linked(stable.index) /\ OneEnvelope(stable.index)
    /\ AckedSurvivesPowerLoss
    /\ LegacyReplayOnly
=============================================================================
