------------------------- MODULE IndexStoreProofs -------------------------
(***************************************************************************)
(* Proofs about IndexStore for every set of processes, requests and bases, *)
(* every derivation of hashes and envelopes, and every number of failures: *)
(* the inductive invariant, the safety properties the runs check, and that *)
(* the processes implement FunctionRegistry.                               *)
(*                                                                         *)
(* The second half is about those derivations, for any requests and lists  *)
(* of any length: FunctionIdentity gives one digest to equal declarations  *)
(* and to no others, and one casHash to one request.  It starts from the   *)
(* canonical maps: what is put under a key can be read back.               *)
(***************************************************************************)
EXTENDS IndexStore, FunctionIdentity, FiniteSetTheorems, FunctionTheorems, TLAPS

-----------------------------------------------------------------------------
(* Facts about indexes *)

(* An index extends itself. *)
LEMMA ExtendsReflexive ==
    ASSUME NEW a \in Index
    PROVE  Extends(a, a)
  BY DEF Extends

(* Extension is transitive, so what a stale cache holds is still on disk.   *)
LEMMA ExtendsTransitive ==
    ASSUME NEW a \in Index, NEW b \in Index, NEW c \in Index,
           Extends(a, b), Extends(b, c)
    PROVE  Extends(a, c)
  BY DEF Extends, Index

(* An operation registered in an index is registered in its extensions.     *)
LEMMA RegisteredExtends ==
    ASSUME NEW a \in Index, NEW b \in Index, NEW op \in Ops,
           Extends(a, b), Registered(a, op)
    PROVE  Registered(b, op)
  <1>1. op.req \in Requests /\ op.basis \in Bases /\ CasOf[op.basis] \in Hashes
    BY DerivationAssumption DEF Ops
  <1>2. QED
    BY <1>1, NullsAssumption DEF Registered, Extends

(* Coherence only looks at records and receipts, not at other sections.     *)
LEMMA CoherenceOfFunctions ==
    ASSUME NEW a \in Index, NEW b \in Index, SameFunctions(a, b),
           Linked(a), OneEnvelope(a)
    PROVE  Linked(b) /\ OneEnvelope(b)
  BY DEF SameFunctions, Linked, OneEnvelope

(* The index that a new registration writes is a coherent extension of the  *)
(* one it started from.                                                     *)
LEMMA NewFunctionCoherent ==
    ASSUME NEW idx \in Index, NEW op \in Ops,
           Linked(idx), OneEnvelope(idx),
           idx.receipt[op.req] = NoReceipt,
           idx.origin[CasOf[op.basis]] = NoRequest,
           EnvelopeAllows(idx, op.basis)
    PROVE  /\ WithFunction(idx, op) \in Index
           /\ Extends(idx, WithFunction(idx, op))
           /\ Linked(WithFunction(idx, op))
           /\ OneEnvelope(WithFunction(idx, op))
           /\ Registered(WithFunction(idx, op), op)
           /\ WithFunction(idx, op).entries = idx.entries
           /\ WithFunction(idx, op).images = idx.images
  <1> DEFINE new == WithFunction(idx, op)
             h0 == CasOf[op.basis]
  <1>1. op.req \in Requests /\ op.basis \in Bases /\ h0 \in Hashes
    BY DerivationAssumption DEF Ops
  <1>2. /\ new.receipt = [idx.receipt EXCEPT ![op.req] = op.basis]
        /\ new.origin = [idx.origin EXCEPT ![h0] = op.req]
        /\ new.entries = idx.entries
        /\ new.images = idx.images
        /\ new \in Index
    BY <1>1 DEF WithFunction, WithReceipt, Index, Receipts
  <1> HIDE DEF new
  <1>3. /\ new.receipt[op.req] = op.basis
        /\ \A q \in Requests : q # op.req => new.receipt[q] = idx.receipt[q]
        /\ new.origin[h0] = op.req
        /\ \A h \in Hashes : h # h0 => new.origin[h] = idx.origin[h]
    BY <1>1, <1>2 DEF Index
  <1>4. Extends(idx, new)
    BY <1>1, <1>2, <1>3 DEF Extends
  <1>5. \A h \in Hashes : h # h0 /\ idx.origin[h] # NoRequest =>
          /\ idx.origin[h] \in Requests
          /\ idx.origin[h] # op.req
          /\ new.receipt[new.origin[h]] = idx.receipt[idx.origin[h]]
    BY <1>1, <1>3 DEF Linked, Index
  <1>6. Linked(new)
    <2>1. ASSUME NEW q \in Requests, new.receipt[q] \in Bases
          PROVE  /\ new.origin[CasOf[new.receipt[q]]] # NoRequest
                 /\ new.receipt[new.origin[CasOf[new.receipt[q]]]] = new.receipt[q]
      <3>1. CASE q = op.req
        BY <3>1, <1>1, <1>3, NullsAssumption
      <3>2. CASE q # op.req
        <4> DEFINE h == CasOf[idx.receipt[q]]
        <4>1. idx.receipt[q] = new.receipt[q] /\ h \in Hashes
          BY <3>2, <2>1, <1>3, DerivationAssumption
        <4>2. idx.origin[h] # NoRequest /\ idx.receipt[idx.origin[h]] = idx.receipt[q]
          BY <2>1, <4>1 DEF Linked
        <4>3. h # h0
          BY <4>2
        <4>4. QED
          BY <4>1, <4>2, <4>3, <1>3, <1>5
      <3>3. QED
        BY <3>1, <3>2
    <2>2. ASSUME NEW h \in Hashes, new.origin[h] # NoRequest
          PROVE  /\ new.receipt[new.origin[h]] # NoReceipt
                 /\ new.receipt[new.origin[h]] \in Bases =>
                      CasOf[new.receipt[new.origin[h]]] = h
      <3>1. CASE h = h0
        BY <3>1, <1>1, <1>3, NullsAssumption
      <3>2. CASE h # h0
        BY <3>2, <2>2, <1>3, <1>5 DEF Linked
      <3>3. QED
        BY <3>1, <3>2
    <2>3. QED
      BY <2>1, <2>2 DEF Linked
  <1>7. OneEnvelope(new)
    <2>1. ASSUME NEW h \in Hashes, h # h0, new.origin[h] # NoRequest,
                 DigestOf[h] = DigestOf[h0]
          PROVE  EnvelopeOf[new.receipt[new.origin[h]]] = EnvelopeOf[op.basis]
      BY <2>1, <1>1, <1>3, <1>5 DEF EnvelopeAllows
    <2>2. ASSUME NEW g \in Hashes, NEW h \in Hashes, DigestOf[g] = DigestOf[h],
                 new.origin[g] # NoRequest, new.origin[h] # NoRequest,
                 new.receipt[new.origin[g]] \in Bases,
                 new.receipt[new.origin[h]] \in Bases
          PROVE  EnvelopeOf[new.receipt[new.origin[g]]] = EnvelopeOf[new.receipt[new.origin[h]]]
      <3>1. CASE g = h0 /\ h = h0
        BY <3>1
      <3>2. CASE g = h0 /\ h # h0
        BY <3>2, <2>1, <2>2, <1>3
      <3>3. CASE g # h0 /\ h = h0
        BY <3>3, <2>1, <2>2, <1>3
      <3>4. CASE g # h0 /\ h # h0
        BY <3>4, <2>2, <1>3, <1>5 DEF OneEnvelope
      <3>5. QED
        BY <3>1, <3>2, <3>3, <3>4
    <2>3. QED
      BY <2>2 DEF OneEnvelope
  <1>8. Registered(new, op)
    BY <1>1, <1>3, NullsAssumption DEF Registered
  <1>9. QED
    BY <1>2, <1>4, <1>6, <1>7, <1>8 DEF new

(* So is the index that adds a receipt to a record proved to be the same.   *)
LEMMA ReuseCoherent ==
    ASSUME NEW idx \in Index, NEW op \in Ops,
           Linked(idx), OneEnvelope(idx),
           idx.receipt[op.req] = NoReceipt,
           idx.origin[CasOf[op.basis]] # NoRequest,
           proveToolFunctionReuse(idx, op.basis)
    PROVE  /\ WithReceipt(idx, op) \in Index
           /\ Extends(idx, WithReceipt(idx, op))
           /\ Linked(WithReceipt(idx, op))
           /\ OneEnvelope(WithReceipt(idx, op))
           /\ Registered(WithReceipt(idx, op), op)
           /\ WithReceipt(idx, op).entries = idx.entries
           /\ WithReceipt(idx, op).images = idx.images
  <1> DEFINE new == WithReceipt(idx, op)
             h0 == CasOf[op.basis]
  <1>1. op.req \in Requests /\ op.basis \in Bases /\ h0 \in Hashes
    BY DerivationAssumption DEF Ops
  <1>2. /\ new.receipt = [idx.receipt EXCEPT ![op.req] = op.basis]
        /\ new.origin = idx.origin
        /\ new.entries = idx.entries
        /\ new.images = idx.images
        /\ new \in Index
    BY <1>1 DEF WithReceipt, Index, Receipts
  <1> HIDE DEF new
  <1>3. /\ new.receipt[op.req] = op.basis
        /\ \A q \in Requests : q # op.req => new.receipt[q] = idx.receipt[q]
    BY <1>1, <1>2 DEF Index
  <1>4. Extends(idx, new)
    BY <1>1, <1>2, <1>3 DEF Extends
  <1>5. \A h \in Hashes : idx.origin[h] # NoRequest =>
          /\ idx.origin[h] # op.req
          /\ new.receipt[new.origin[h]] = idx.receipt[idx.origin[h]]
    BY <1>1, <1>2, <1>3 DEF Linked, Index
  <1>6. Linked(new)
    <2>1. ASSUME NEW q \in Requests, new.receipt[q] \in Bases
          PROVE  /\ new.origin[CasOf[new.receipt[q]]] # NoRequest
                 /\ new.receipt[new.origin[CasOf[new.receipt[q]]]] = new.receipt[q]
      <3>1. CASE q = op.req
        BY <3>1, <1>1, <1>2, <1>3, <1>5 DEF proveToolFunctionReuse
      <3>2. CASE q # op.req
        <4>1. idx.receipt[q] = new.receipt[q] /\ CasOf[idx.receipt[q]] \in Hashes
          BY <3>2, <2>1, <1>3, DerivationAssumption
        <4>2. QED
          BY <2>1, <4>1, <1>2, <1>5 DEF Linked
      <3>3. QED
        BY <3>1, <3>2
    <2>2. ASSUME NEW h \in Hashes, new.origin[h] # NoRequest
          PROVE  /\ new.receipt[new.origin[h]] # NoReceipt
                 /\ new.receipt[new.origin[h]] \in Bases =>
                      CasOf[new.receipt[new.origin[h]]] = h
      BY <2>2, <1>2, <1>5 DEF Linked
    <2>3. QED
      BY <2>1, <2>2 DEF Linked
  <1>7. OneEnvelope(new)
    BY <1>2, <1>5 DEF OneEnvelope
  <1>8. Registered(new, op)
    BY <1>1, <1>2, <1>3 DEF Registered
  <1>9. QED
    BY <1>2, <1>4, <1>6, <1>7, <1>8 DEF new

-----------------------------------------------------------------------------
(* What the primitives of the store do to the caches and to the directory *)

CacheTypeOK == mem \in [Stores -> Index] /\ generation \in [Stores -> Index]

(* No step but a restart forgets a receipt that a cache has. *)
ReceiptsKept ==
    \A s \in Stores : \A q \in Requests :
        mem[s].receipt[q] # NoReceipt => mem'[s].receipt[q] # NoReceipt

(* What is true of the two versions of the directory and of the answers.    *)
DiskInv ==
    /\ Extends(InitialIndex, stable.index)
    /\ Extends(stable.index, disk.index)
    /\ RegistryCoherent
    /\ Linked(stable.index) /\ OneEnvelope(stable.index)
    /\ AckedSurvivesPowerLoss
    /\ LegacyReplayOnly

(* Who may answer: the current writer, once nothing is left to be fsynced.  *)
WriterInv ==
    \/ SameFunctions(stable.index, disk.index)
    \/ \A s \in Stores : epoch[s] # 0 /\ epoch[s] = disk.fence => uncertain[s]

Grows == losses' = losses => Extends(disk.index, disk'.index)

(* The inductive invariant, regrouped. *)
LEMMA IInvParts ==
    IInv <=> /\ TypeOK /\ CacheInv /\ EpochInv /\ HolderInv
             /\ SelectionInv /\ DiskInv /\ WriterInv
  BY DEF IInv, DiskInv, WriterInv, DurabilityInv

(* Loading the file keeps every cache an earlier content of it.             *)
LEMMA LoadKeeps ==
    ASSUME TypeOK, CacheInv, NEW s \in Stores, load(s), disk'.index = disk.index
    PROVE  /\ CacheTypeOK' /\ CacheInv' /\ ReceiptsKept
           /\ mem'[s] = disk.index /\ generation'[s] = disk.index
  <1>1. disk.index \in Index
    BY DEF TypeOK
  <1>2. /\ mem' = [mem EXCEPT ![s] = disk.index]
        /\ generation' = [generation EXCEPT ![s] = disk.index]
    BY DEF load
  <1>3. CacheTypeOK' /\ mem'[s] = disk.index /\ generation'[s] = disk.index
    BY <1>1, <1>2 DEF TypeOK, CacheTypeOK
  <1>4. \A t \in Stores : t # s => mem'[t] = mem[t] /\ generation'[t] = generation[t]
    BY <1>2 DEF TypeOK
  <1>5. CacheInv'
    <2>1. Cached(mem'[s], generation'[s], disk'.index)
      BY <1>1, <1>3, ExtendsReflexive DEF Cached, SameFunctions
    <2>2. \A t \in Stores : t # s => Cached(mem'[t], generation'[t], disk'.index)
      BY <1>4 DEF CacheInv
    <2>3. QED
      BY <2>1, <2>2 DEF CacheInv
  <1>6. ReceiptsKept
    <2>1. \A q \in Requests : mem[s].receipt[q] # NoReceipt => disk.index.receipt[q] # NoReceipt
      BY DEF CacheInv, Cached, SameFunctions, Extends
    <2>2. QED
      BY <2>1, <1>3, <1>4 DEF ReceiptsKept
  <1>7. QED
    BY <1>3, <1>5, <1>6

(* Renaming an extension of the file into place keeps every other cache an  *)
(* earlier content of it.                                                   *)
LEMMA RenameKeeps ==
    ASSUME TypeOK, CacheInv, NEW s \in Stores, ~Moved(s),
           NEW idx \in Index, Extends(disk.index, idx), RenameIndex(s, idx)
    PROVE  /\ CacheTypeOK' /\ CacheInv' /\ ReceiptsKept
           /\ disk' \in [index: Index, fence: 0..MaxEpoch]
           /\ disk'.index = idx /\ disk'.fence = disk.fence
           /\ mem'[s] = idx /\ generation'[s] = idx
           /\ \A t \in Stores : t # s => generation'[t] = generation[t]
  <1>1. /\ disk.index \in Index /\ generation[s] = disk.index
        /\ disk' = [disk EXCEPT !.index = idx]
        /\ mem' = [mem EXCEPT ![s] = idx]
        /\ generation' = [generation EXCEPT ![s] = idx]
    BY DEF TypeOK, Moved, RenameIndex
  <1>2. /\ disk' \in [index: Index, fence: 0..MaxEpoch]
        /\ disk'.index = idx /\ disk'.fence = disk.fence
    BY <1>1 DEF TypeOK
  <1>3. CacheTypeOK' /\ mem'[s] = idx /\ generation'[s] = idx
    BY <1>1 DEF TypeOK, CacheTypeOK
  <1>4. \A t \in Stores : t # s => mem'[t] = mem[t] /\ generation'[t] = generation[t]
    BY <1>1 DEF TypeOK
  <1>5. Cached(mem'[s], generation'[s], disk'.index)
    BY <1>2, <1>3, ExtendsReflexive DEF Cached, SameFunctions
  <1>6. ASSUME NEW t \in Stores, t # s
        PROVE  Cached(mem'[t], generation'[t], disk'.index)
    <2>1. generation[t] \in Index /\ Cached(mem[t], generation[t], disk.index)
      BY DEF TypeOK, CacheInv
    <2>2. Extends(generation[t], idx)
      BY <1>1, <2>1, ExtendsTransitive DEF Cached
    <2>3. QED
      BY <1>2, <1>4, <1>6, <2>1, <2>2 DEF Cached
  <1>7. CacheInv'
    BY <1>5, <1>6 DEF CacheInv
  <1>8. ReceiptsKept
    <2>1. \A q \in Requests : mem[s].receipt[q] # NoReceipt => idx.receipt[q] # NoReceipt
      BY <1>1 DEF CacheInv, Cached, SameFunctions, Extends
    <2>2. QED
      BY <2>1, <1>3, <1>4 DEF ReceiptsKept
  <1>9. QED
    BY <1>2, <1>3, <1>4, <1>7, <1>8

(* A write that never reached the file changes at most the unsaved entries. *)
LEMMA KeptInMemory ==
    ASSUME TypeOK, CacheInv, NEW s \in Stores, NEW kept \in Index,
           SameFunctions(kept, mem[s]), kept.images = mem[s].images,
           mem[s].entries \subseteq kept.entries,
           mem' = [mem EXCEPT ![s] = kept], UNCHANGED generation,
           disk'.index = disk.index
    PROVE  CacheTypeOK' /\ CacheInv' /\ ReceiptsKept
  <1>1. CacheTypeOK' /\ mem'[s] = kept
    BY DEF TypeOK, CacheTypeOK
  <1>2. \A t \in Stores : t # s => mem'[t] = mem[t]
    BY DEF TypeOK
  <1>3. \A t \in Stores : Cached(mem'[t], generation'[t], disk'.index)
    <2> TAKE t \in Stores
    <2>1. Cached(mem[t], generation[t], disk.index)
      BY DEF CacheInv
    <2>2. CASE t = s
      BY <1>1, <2>1, <2>2 DEF Cached, SameFunctions
    <2>3. CASE t # s
      BY <1>2, <2>1, <2>3
    <2>4. QED
      BY <2>2, <2>3
  <1>4. ReceiptsKept
    BY <1>1, <1>2 DEF ReceiptsKept, SameFunctions
  <1>5. QED
    BY <1>1, <1>3, <1>4 DEF CacheInv

(* A directory fsync makes everything that is visible durable, and what was *)
(* just written may be answered.                                            *)
LEMMA SyncedDisk ==
    ASSUME TypeOK, DiskInv, disk' \in [index: Index, fence: 0..MaxEpoch],
           Extends(disk.index, disk'.index), stable' = disk',
           Linked(disk'.index), OneEnvelope(disk'.index), LegacyReplayOnly',
           \A op \in acked' : op \in acked \/ (op \in Ops /\ Registered(disk'.index, op))
    PROVE  DiskInv' /\ WriterInv'
  <1>1. /\ disk.index \in Index /\ stable.index \in Index /\ disk'.index \in Index
        /\ InitialIndex \in Index /\ acked \subseteq Ops
    BY InitialIndexAssumption DEF TypeOK
  <1>2. Extends(stable.index, disk'.index)
    BY <1>1, ExtendsTransitive DEF DiskInv
  <1>3. Extends(InitialIndex, stable'.index)
    BY <1>1, <1>2, ExtendsTransitive DEF DiskInv
  <1>4. Extends(stable'.index, disk'.index)
    BY <1>1, ExtendsReflexive
  <1>5. AckedSurvivesPowerLoss'
    BY <1>1, <1>2, RegisteredExtends DEF DiskInv, AckedSurvivesPowerLoss
  <1>6. WriterInv'
    BY DEF WriterInv, SameFunctions
  <1>7. QED
    BY <1>3, <1>4, <1>5, <1>6 DEF DiskInv, RegistryCoherent

(* Without it, what was durable before stays so. *)
LEMMA UnsyncedDisk ==
    ASSUME TypeOK, DiskInv, disk' \in [index: Index, fence: 0..MaxEpoch],
           Extends(disk.index, disk'.index), stable'.index = stable.index,
           Linked(disk'.index), OneEnvelope(disk'.index), LegacyReplayOnly',
           UNCHANGED acked
    PROVE  DiskInv'
  <1>1. disk.index \in Index /\ stable.index \in Index /\ disk'.index \in Index
    BY DEF TypeOK
  <1>2. Extends(stable'.index, disk'.index)
    BY <1>1, ExtendsTransitive DEF DiskInv
  <1>3. QED
    BY <1>2 DEF DiskInv, RegistryCoherent, AckedSurvivesPowerLoss

(* An extension of the file by something other than a receipt stays within  *)
(* the registrations of the file.                                           *)
LEMMA SameFunctionsDisk ==
    ASSUME TypeOK, DiskInv, disk' \in [index: Index, fence: 0..MaxEpoch],
           SameFunctions(disk.index, disk'.index)
    PROVE  Linked(disk'.index) /\ OneEnvelope(disk'.index) /\ LegacyReplayOnly'
  <1>1. disk.index \in Index /\ disk'.index \in Index
    BY DEF TypeOK
  <1>2. Linked(disk'.index) /\ OneEnvelope(disk'.index)
    BY <1>1, CoherenceOfFunctions DEF DiskInv, RegistryCoherent
  <1>3. LegacyReplayOnly'
    BY DEF LegacyReplayOnly, DiskInv, SameFunctions
  <1>4. QED
    BY <1>2, <1>3

(* Typing of what is not a cache. *)
RestTypeOK ==
    /\ epoch \in [Stores -> 0..MaxEpoch]
    /\ uncertain \in [Stores -> BOOLEAN]
    /\ disk \in [index: Index, fence: 0..MaxEpoch]
    /\ stable \in [index: Index, fence: 0..MaxEpoch]
    /\ inflight \in [Stores -> SUBSET Ops]
    /\ holder \in {Free} \cup [store: Stores, op: Ops, step: Steps]
    /\ acked \in SUBSET Ops
    /\ faults \in 0..MaxFaults
    /\ losses \in Nat

(* The type invariant in two parts. *)
LEMMA TypeParts == TypeOK <=> CacheTypeOK /\ RestTypeOK
  BY DEF TypeOK, CacheTypeOK, RestTypeOK

(* A step that leaves the directory and the answers alone. *)
LEMMA QuietDisk ==
    ASSUME TypeOK, DiskInv, UNCHANGED <<disk, stable, acked>>
    PROVE  DiskInv' /\ Grows
  <1>1. disk.index \in Index
    BY DEF TypeOK
  <1>2. DiskInv'
    BY DEF DiskInv, RegistryCoherent, AckedSurvivesPowerLoss, LegacyReplayOnly
  <1>3. QED
    BY <1>1, <1>2, ExtendsReflexive DEF Grows

(* Counting one more failure stays within the bound. *)
LEMMA FaultType ==
    ASSUME TypeOK, Fault
    PROVE  faults' \in 0..MaxFaults
  BY BoundsAssumption DEF TypeOK, Fault

(* Receipts that are kept keep the selection of versions valid. *)
LEMMA SelectionKept ==
    ASSUME TypeOK, SelectionInv, ReceiptsKept,
           \A s \in Stores : inflight'[s] \subseteq inflight[s],
           holder'.store # NoStore => holder'.op \in inflight'[holder'.store]
    PROVE  SelectionInv'
  <1>1. ASSUME NEW s \in Stores, NEW op \in inflight'[s], op.basis \in LegacyBases
        PROVE  mem'[s].receipt[op.req] # NoReceipt
    <2>1. op \in inflight[s] /\ op.req \in Requests
      BY <1>1 DEF TypeOK, Ops
    <2>2. QED
      BY <1>1, <2>1 DEF SelectionInv, ReceiptsKept
  <1>2. QED
    BY <1>1 DEF SelectionInv

(* Leaving the critical section frees the lock and drops the operation. *)
LEMMA ReturnEffect ==
    ASSUME TypeOK, NEW s \in Stores, NEW op \in Ops, Return(s, op)
    PROVE  /\ holder'.store = NoStore
           /\ holder' \in {Free} \cup [store: Stores, op: Ops, step: Steps]
           /\ inflight' \in [Stores -> SUBSET Ops]
           /\ \A t \in Stores : inflight'[t] \subseteq inflight[t]
           /\ HolderInv'
  <1>1. holder'.store = NoStore /\ holder' = Free
    BY DEF Return, Free
  <1>2. inflight' = [inflight EXCEPT ![s] = @ \ {op}]
    BY DEF Return
  <1>3. HolderInv'
    BY <1>1 DEF HolderInv
  <1>4. QED
    BY <1>1, <1>2, <1>3 DEF TypeOK

(* The state of a process inside the critical section. *)
LEMMA HoldsFacts ==
    ASSUME TypeOK, HolderInv, SelectionInv, NEW s \in Stores, NEW op \in Ops,
           NEW step \in Steps, Holds(s, op, step)
    PROVE  /\ holder.store = s /\ holder.op = op /\ holder.step = step
           /\ s # NoStore
           /\ op \in inflight[s]
           /\ step # "fence" =>
                /\ epoch[s] # 0 /\ epoch[s] = disk.fence
                /\ ~Moved(s)
                /\ step = "decide" => ~uncertain[s]
  <1>1. holder.store = s /\ holder.op = op /\ holder.step = step
    BY DEF Holds
  <1>2. s # NoStore
    BY NullsAssumption
  <1>3. QED
    BY <1>1, <1>2 DEF HolderInv, SelectionInv

(* Moving on inside the critical section. *)
LEMMA GoToEffect ==
    ASSUME TypeOK, NEW s \in Stores, NEW op \in Ops, NEW from \in Steps, NEW to \in Steps,
           Holds(s, op, from), GoTo(to)
    PROVE  /\ holder'.store = s /\ holder'.op = op /\ holder'.step = to
           /\ holder' \in {Free} \cup [store: Stores, op: Ops, step: Steps]
  BY DEF Holds, GoTo

-----------------------------------------------------------------------------
(* Every action preserves the invariant, and only a power loss shortens the *)
(* index file.                                                              *)

(* Selecting the canonicalizer. *)
LEMMA SelectPreserves ==
    ASSUME IInv, NEW s \in Stores, NEW op \in Ops, checkCanonicalizationSelection(s, op)
    PROVE  IInv' /\ Grows
  <1>0. TypeOK /\ CacheInv /\ EpochInv /\ HolderInv /\ SelectionInv /\ DiskInv /\ WriterInv
    BY IInvParts
  <1>1. /\ UNCHANGED <<mem, generation, epoch, uncertain, disk, stable, holder, acked, faults, losses>>
        /\ inflight' = [inflight EXCEPT ![s] = inflight[s] \cup {op}]
        /\ holder.store # s
    BY DEF checkCanonicalizationSelection, storeVars, diskVars
  <1>2. TypeOK'
    BY <1>0, <1>1 DEF TypeOK
  <1>3. CacheInv' /\ EpochInv' /\ HolderInv' /\ WriterInv'
    BY <1>0, <1>1 DEF CacheInv, EpochInv, HolderInv, WriterInv, Moved
  <1>4. DiskInv' /\ Grows
    BY <1>0, <1>1, QuietDisk
  <1>5. op.basis \in LegacyBases => mem[s].receipt[op.req] # NoReceipt
    BY NullsAssumption DEF checkCanonicalizationSelection
  <1>6. SelectionInv'
    <2>1. \A t \in Stores : inflight'[t] = IF t = s THEN inflight[s] \cup {op} ELSE inflight[t]
      BY <1>0, <1>1 DEF TypeOK
    <2>2. holder.store # NoStore => holder.store \in Stores
      BY <1>0 DEF TypeOK, Free
    <2>3. QED
      BY <1>0, <1>1, <1>5, <2>1, <2>2 DEF SelectionInv
  <1>7. QED
    BY <1>2, <1>3, <1>4, <1>6, IInvParts DEF IInv, DiskInv, WriterInv, DurabilityInv

(* Taking the writer lock. *)
LEMMA LockPreserves ==
    ASSUME IInv, NEW s \in Stores, NEW op \in Ops, lockToolFunctionWriter(s, op)
    PROVE  IInv' /\ Grows
  <1>0. TypeOK /\ CacheInv /\ EpochInv /\ HolderInv /\ SelectionInv /\ DiskInv /\ WriterInv
    BY IInvParts
  <1>1. /\ UNCHANGED <<mem, generation, epoch, uncertain, disk, stable, inflight, acked, faults, losses>>
        /\ holder' = [store |-> s, op |-> op, step |-> "fence"]
        /\ op \in inflight[s]
    BY DEF lockToolFunctionWriter, Enter, storeVars, diskVars
  <1>2. holder'.store = s /\ holder'.op = op /\ holder'.step = "fence"
    BY <1>1
  <1>3. TypeOK'
    BY <1>0, <1>1 DEF TypeOK, Steps
  <1>4. CacheInv' /\ EpochInv' /\ HolderInv' /\ WriterInv'
    BY <1>0, <1>1, <1>2 DEF CacheInv, EpochInv, HolderInv, WriterInv
  <1>5. DiskInv' /\ Grows
    BY <1>0, <1>1, QuietDisk
  <1>6. SelectionInv'
    BY <1>0, <1>1, <1>2 DEF SelectionInv
  <1>7. QED
    BY <1>3, <1>4, <1>5, <1>6 DEF IInv, DiskInv, WriterInv, DurabilityInv

(* Verifying the epoch: a superseded writer leaves, the current one brings  *)
(* its cache up to date.                                                    *)
LEMMA VerifyPreserves ==
    ASSUME IInv, NEW s \in Stores, NEW op \in Ops, VerifyEpoch(s, op)
    PROVE  IInv' /\ Grows
  <1>0. TypeOK /\ CacheInv /\ EpochInv /\ HolderInv /\ SelectionInv /\ DiskInv /\ WriterInv
    BY IInvParts
  <1>1. /\ UNCHANGED <<epoch, uncertain, disk, stable, acked, faults, losses>>
        /\ Holds(s, op, "fence") /\ epoch[s] # 0
    BY DEF VerifyEpoch, diskVars
  <1>2. "fence" \in Steps /\ "repair" \in Steps
    BY DEF Steps
  <1>3. op \in inflight[s]
    BY <1>0, <1>1, <1>2, HoldsFacts
  <1>4. DiskInv' /\ Grows
    BY <1>0, <1>1, QuietDisk
  <1>5. EpochInv' /\ WriterInv'
    BY <1>0, <1>1 DEF EpochInv, WriterInv
  <1>6. CASE Superseded(s)
    <2>1. Return(s, op) /\ UNCHANGED <<mem, generation>>
      BY <1>6 DEF VerifyEpoch
    <2>2. TypeOK' /\ CacheInv'
      BY <1>0, <1>1, <2>1, ReturnEffect DEF TypeOK, CacheInv
    <2>3. SelectionInv'
      BY <1>0, <2>1, ReturnEffect, SelectionKept DEF ReceiptsKept
    <2>4. HolderInv'
      BY <1>0, <2>1, ReturnEffect
    <2>5. QED
      BY <1>4, <1>5, <2>2, <2>3, <2>4 DEF IInv, DiskInv, WriterInv, DurabilityInv
  <1>7. CASE ~Superseded(s)
    <2>1. /\ GoTo("repair") /\ UNCHANGED inflight
          /\ IF Moved(s) THEN load(s) ELSE UNCHANGED <<mem, generation>>
      BY <1>7 DEF VerifyEpoch
    <2>2. /\ holder'.store = s /\ holder'.op = op /\ holder'.step = "repair"
          /\ holder' \in {Free} \cup [store: Stores, op: Ops, step: Steps]
      BY <1>0, <1>1, <1>2, <2>1, GoToEffect
    <2>3. CacheTypeOK' /\ CacheInv' /\ ReceiptsKept /\ generation'[s] = disk.index
      <3>1. CASE Moved(s)
        BY <3>1, <2>1, <1>0, <1>1, LoadKeeps
      <3>2. CASE ~Moved(s)
        BY <3>2, <2>1, <1>0, <1>1 DEF TypeOK, CacheTypeOK, CacheInv, ReceiptsKept, Moved
      <3>3. QED
        BY <3>1, <3>2
    <2>4. TypeOK'
      BY <1>0, <1>1, <2>1, <2>2, <2>3 DEF TypeOK, CacheTypeOK
    <2>5. HolderInv'
      BY <1>1, <1>7, <2>2, <2>3 DEF HolderInv, Moved, Superseded
    <2>6. SelectionInv'
      BY <1>0, <1>3, <2>1, <2>2, <2>3, SelectionKept
    <2>7. QED
      BY <1>4, <1>5, <2>3, <2>4, <2>5, <2>6 DEF IInv, DiskInv, WriterInv, DurabilityInv
  <1>8. QED
    BY <1>6, <1>7

(* Claiming the next epoch loads the file and fsyncs the directory. *)
LEMMA ClaimPreserves ==
    ASSUME IInv, NEW s \in Stores, NEW op \in Ops, ClaimEpoch(s, op)
    PROVE  IInv' /\ Grows
  <1>0. TypeOK /\ CacheInv /\ EpochInv /\ HolderInv /\ SelectionInv /\ DiskInv /\ WriterInv
    BY IInvParts
  <1>1. /\ UNCHANGED <<uncertain, inflight, acked, faults, losses>>
        /\ Holds(s, op, "fence") /\ load(s) /\ GoTo("repair")
        /\ disk.fence < MaxEpoch
        /\ disk' = [disk EXCEPT !.fence = disk.fence + 1] /\ stable' = disk'
        /\ epoch' = [epoch EXCEPT ![s] = disk.fence + 1]
    BY DEF ClaimEpoch
  <1>2. "fence" \in Steps /\ "repair" \in Steps
    BY DEF Steps
  <1>3. op \in inflight[s]
    BY <1>0, <1>1, <1>2, HoldsFacts
  <1>4. /\ disk.fence \in Nat /\ disk.fence + 1 \in 0..MaxEpoch /\ MaxEpoch \in Nat
        /\ disk' \in [index: Index, fence: 0..MaxEpoch]
        /\ disk'.index = disk.index /\ disk'.fence = disk.fence + 1
    BY <1>0, <1>1, BoundsAssumption DEF TypeOK
  <1>5. /\ holder'.store = s /\ holder'.op = op /\ holder'.step = "repair"
        /\ holder' \in {Free} \cup [store: Stores, op: Ops, step: Steps]
    BY <1>0, <1>1, <1>2, GoToEffect
  <1>6. CacheTypeOK' /\ CacheInv' /\ ReceiptsKept /\ generation'[s] = disk.index
    BY <1>0, <1>1, <1>4, LoadKeeps
  <1>7. \A t \in Stores : epoch'[t] = IF t = s THEN disk.fence + 1 ELSE epoch[t]
    BY <1>0, <1>1 DEF TypeOK
  <1>8. TypeOK'
    BY <1>0, <1>1, <1>4, <1>5, <1>6 DEF TypeOK, CacheTypeOK
  <1>9. EpochInv'
    BY <1>0, <1>4, <1>7 DEF EpochInv, TypeOK
  <1>10. HolderInv'
    BY <1>4, <1>5, <1>6, <1>7 DEF HolderInv, Moved
  <1>11. SelectionInv'
    BY <1>0, <1>1, <1>3, <1>5, <1>6, SelectionKept
  <1>12. DiskInv' /\ WriterInv'
    <2>1. disk.index \in Index /\ Extends(disk.index, disk'.index)
      BY <1>0, <1>4, ExtendsReflexive DEF TypeOK
    <2>2. Linked(disk'.index) /\ OneEnvelope(disk'.index) /\ LegacyReplayOnly'
      BY <1>0, <1>4, SameFunctionsDisk DEF SameFunctions
    <2>3. QED
      BY <1>0, <1>1, <1>4, <2>1, <2>2, SyncedDisk
  <1>13. Grows
    BY <1>0, <1>4, ExtendsReflexive DEF Grows, TypeOK
  <1>14. QED
    BY <1>6, <1>8, <1>9, <1>10, <1>11, <1>12, <1>13 DEF IInv, DiskInv, WriterInv, DurabilityInv

(* A failed claim may move the fence, past every epoch in use. *)
LEMMA ClaimFailsPreserves ==
    ASSUME IInv, NEW s \in Stores, NEW op \in Ops, ClaimFails(s, op)
    PROVE  IInv' /\ Grows
  <1>0. TypeOK /\ CacheInv /\ EpochInv /\ HolderInv /\ SelectionInv /\ DiskInv /\ WriterInv
    BY IInvParts
  <1>1. /\ UNCHANGED <<epoch, uncertain, stable, acked, losses>>
        /\ Holds(s, op, "fence") /\ load(s) /\ Fault /\ Return(s, op)
        /\ \/ disk' = disk
           \/ disk.fence < MaxEpoch /\ disk' = [disk EXCEPT !.fence = disk.fence + 1]
    BY DEF ClaimFails
  <1>2. /\ disk.fence \in Nat /\ MaxEpoch \in Nat
        /\ disk' \in [index: Index, fence: 0..MaxEpoch]
        /\ disk'.index = disk.index
        /\ disk'.fence = disk.fence \/ disk'.fence = disk.fence + 1
    BY <1>0, <1>1, BoundsAssumption DEF TypeOK
  <1>3. CacheTypeOK' /\ CacheInv' /\ ReceiptsKept
    BY <1>0, <1>1, <1>2, LoadKeeps
  <1>4. TypeOK'
    BY <1>0, <1>1, <1>2, <1>3, ReturnEffect, FaultType DEF TypeOK, CacheTypeOK
  <1>5. EpochInv'
    BY <1>0, <1>1, <1>2 DEF EpochInv, TypeOK
  <1>6. HolderInv' /\ SelectionInv'
    BY <1>0, <1>1, <1>3, ReturnEffect, SelectionKept
  <1>7. DiskInv'
    <2>1. disk.index \in Index /\ Extends(disk.index, disk'.index)
      BY <1>0, <1>2, ExtendsReflexive DEF TypeOK
    <2>2. Linked(disk'.index) /\ OneEnvelope(disk'.index) /\ LegacyReplayOnly'
      BY <1>0, <1>2, SameFunctionsDisk DEF SameFunctions
    <2>3. QED
      BY <1>0, <1>1, <1>2, <2>1, <2>2, UnsyncedDisk
  <1>8. WriterInv'
    <2>1. ASSUME NEW t \in Stores, epoch'[t] # 0, epoch'[t] = disk'.fence
          PROVE  epoch[t] = disk.fence
      BY <1>0, <1>1, <1>2, <2>1 DEF EpochInv, TypeOK
    <2>2. QED
      BY <1>0, <1>1, <1>2, <2>1 DEF WriterInv
  <1>9. Grows
    BY <1>0, <1>2, ExtendsReflexive DEF Grows, TypeOK
  <1>10. QED
    BY <1>3, <1>4, <1>5, <1>6, <1>7, <1>8, <1>9 DEF IInv, DiskInv, WriterInv, DurabilityInv

(* An index a process may write: it extends the file and is coherent. *)
Writable(idx) ==
    /\ idx \in Index
    /\ Extends(disk.index, idx)
    /\ Linked(idx) /\ OneEnvelope(idx)
    /\ \A q \in Requests : idx.receipt[q] \in LegacyBases =>
         InitialIndex.receipt[q] = idx.receipt[q]

(* A complete write of such an index, with at most its own answer. *)
LEMMA PersistedKeeps ==
    ASSUME TypeOK, CacheInv, DiskInv, NEW s \in Stores, ~Moved(s),
           NEW idx, Writable(idx), Persisted(s, idx),
           \A op \in acked' : op \in acked \/ (op \in Ops /\ Registered(idx, op))
    PROVE  /\ CacheTypeOK' /\ CacheInv' /\ ReceiptsKept
           /\ disk' \in [index: Index, fence: 0..MaxEpoch] /\ stable' = disk'
           /\ disk'.index = idx /\ disk'.fence = disk.fence
           /\ generation'[s] = idx
           /\ DiskInv' /\ WriterInv'
  <1>1. RenameIndex(s, idx) /\ stable' = disk'
    BY DEF Persisted
  <1>2. idx \in Index /\ Extends(disk.index, idx) /\ Linked(idx) /\ OneEnvelope(idx)
    BY DEF Writable
  <1>3. /\ CacheTypeOK' /\ CacheInv' /\ ReceiptsKept
        /\ disk' \in [index: Index, fence: 0..MaxEpoch]
        /\ disk'.index = idx /\ disk'.fence = disk.fence
        /\ generation'[s] = idx
    BY <1>1, <1>2, RenameKeeps
  <1>4. LegacyReplayOnly'
    BY <1>3 DEF LegacyReplayOnly, Writable
  <1>5. DiskInv' /\ WriterInv'
    BY <1>1, <1>2, <1>3, <1>4, SyncedDisk
  <1>6. QED
    BY <1>1, <1>3, <1>5

(* A write that was renamed into place and not fsynced. *)
LEMMA NotDurableKeeps ==
    ASSUME TypeOK, CacheInv, DiskInv, NEW s \in Stores, ~Moved(s),
           NEW idx, Writable(idx), PersistedNotDurable(s, idx), UNCHANGED acked
    PROVE  /\ CacheTypeOK' /\ CacheInv' /\ ReceiptsKept
           /\ disk' \in [index: Index, fence: 0..MaxEpoch] /\ stable' = stable
           /\ disk'.index = idx /\ disk'.fence = disk.fence
           /\ generation'[s] = idx
           /\ faults' \in 0..MaxFaults
           /\ DiskInv'
  <1>1. RenameIndex(s, idx) /\ stable' = stable /\ Fault
    BY DEF PersistedNotDurable
  <1>2. idx \in Index /\ Extends(disk.index, idx) /\ Linked(idx) /\ OneEnvelope(idx)
    BY DEF Writable
  <1>3. /\ CacheTypeOK' /\ CacheInv' /\ ReceiptsKept
        /\ disk' \in [index: Index, fence: 0..MaxEpoch]
        /\ disk'.index = idx /\ disk'.fence = disk.fence
        /\ generation'[s] = idx
    BY <1>1, <1>2, RenameKeeps
  <1>4. LegacyReplayOnly'
    BY <1>3 DEF LegacyReplayOnly, Writable
  <1>5. DiskInv'
    BY <1>1, <1>2, <1>3, <1>4, UnsyncedDisk
  <1>6. QED
    BY <1>1, <1>3, <1>5, FaultType

(* A cache that is that of the file, with more entries or images, may be    *)
(* written.                                                                 *)
LEMMA CacheWritable ==
    ASSUME TypeOK, CacheInv, DiskInv, NEW s \in Stores, ~Moved(s),
           NEW idx \in Index, SameFunctions(idx, mem[s]),
           mem[s].entries \subseteq idx.entries, mem[s].images \subseteq idx.images
    PROVE  Writable(idx) /\ SameFunctions(disk.index, idx)
  <1>1. generation[s] = disk.index /\ Cached(mem[s], disk.index, disk.index) /\ disk.index \in Index
    BY DEF Moved, CacheInv, TypeOK
  <1>2. SameFunctions(disk.index, idx)
    BY <1>1 DEF Cached, SameFunctions
  <1>3. Extends(disk.index, idx)
    BY <1>1, <1>2 DEF Cached, SameFunctions, Extends
  <1>4. Linked(idx) /\ OneEnvelope(idx)
    BY <1>1, <1>2, CoherenceOfFunctions DEF DiskInv, RegistryCoherent
  <1>5. QED
    BY <1>2, <1>3, <1>4 DEF Writable, DiskInv, LegacyReplayOnly, SameFunctions

(* The durability repair writes the cache again before anything else. *)
LEMMA RepairPreserves ==
    ASSUME IInv, NEW s \in Stores, NEW op \in Ops, repairToolFunctionDurability(s, op)
    PROVE  IInv' /\ Grows
  <1>0. TypeOK /\ CacheInv /\ EpochInv /\ HolderInv /\ SelectionInv /\ DiskInv /\ WriterInv
    BY IInvParts
  <1>1. UNCHANGED <<acked, losses>> /\ Holds(s, op, "repair")
    BY DEF repairToolFunctionDurability
  <1>2. "repair" \in Steps /\ "decide" \in Steps /\ "repair" # "fence" /\ "repair" # "decide"
    BY DEF Steps
  <1>3. op \in inflight[s] /\ epoch[s] # 0 /\ epoch[s] = disk.fence /\ ~Moved(s)
    BY <1>0, <1>1, <1>2, HoldsFacts
  <1>4. mem[s] \in Index /\ Writable(mem[s]) /\ SameFunctions(disk.index, mem[s])
    <2>1. mem[s] \in Index /\ SameFunctions(mem[s], mem[s])
      BY <1>0 DEF TypeOK, SameFunctions
    <2>2. QED
      BY <1>0, <1>3, <2>1, CacheWritable
  <1>5. Extends(disk.index, mem[s])
    BY <1>4 DEF Writable
  <1>6. CASE ~uncertain[s]
    <2>1. GoTo("decide") /\ UNCHANGED <<mem, generation, epoch, uncertain, disk, stable, inflight, faults>>
      BY <1>6 DEF repairToolFunctionDurability, storeVars, diskVars
    <2>2. /\ holder'.store = s /\ holder'.op = op /\ holder'.step = "decide"
          /\ holder' \in {Free} \cup [store: Stores, op: Ops, step: Steps]
      BY <1>0, <1>1, <1>2, <2>1, GoToEffect
    <2>3. TypeOK'
      BY <1>0, <1>1, <2>1, <2>2 DEF TypeOK
    <2>4. CacheInv' /\ EpochInv' /\ WriterInv'
      BY <1>0, <2>1 DEF CacheInv, EpochInv, WriterInv
    <2>5. HolderInv'
      BY <1>3, <1>6, <2>1, <2>2 DEF HolderInv, Moved
    <2>6. SelectionInv'
      BY <1>0, <1>3, <2>1, <2>2 DEF SelectionInv
    <2>7. DiskInv' /\ Grows
      BY <1>0, <1>1, <2>1, QuietDisk
    <2>8. QED
      BY <2>3, <2>4, <2>5, <2>6, <2>7 DEF IInv, DiskInv, WriterInv, DurabilityInv
  <1>7. CASE /\ uncertain[s] /\ Persisted(s, mem[s])
             /\ uncertain' = [uncertain EXCEPT ![s] = FALSE]
             /\ GoTo("decide") /\ UNCHANGED <<epoch, inflight>>
    <2>1. faults' = faults
      BY <1>7 DEF Persisted
    <2>2. /\ holder'.store = s /\ holder'.op = op /\ holder'.step = "decide"
          /\ holder' \in {Free} \cup [store: Stores, op: Ops, step: Steps]
      BY <1>0, <1>1, <1>2, <1>7, GoToEffect
    <2>3. /\ CacheTypeOK' /\ CacheInv' /\ ReceiptsKept
          /\ disk' \in [index: Index, fence: 0..MaxEpoch] /\ stable' = disk'
          /\ disk'.index = mem[s] /\ disk'.fence = disk.fence /\ generation'[s] = mem[s]
          /\ DiskInv' /\ WriterInv'
      BY <1>0, <1>1, <1>3, <1>4, <1>7, PersistedKeeps
    <2>4. TypeOK'
      BY <1>0, <1>1, <1>7, <2>1, <2>2, <2>3 DEF TypeOK, CacheTypeOK
    <2>5. EpochInv'
      BY <1>0, <1>7, <2>3 DEF EpochInv
    <2>6. HolderInv'
      <3>1. ~uncertain'[s]
        BY <1>0, <1>7 DEF TypeOK
      <3>2. QED
        BY <1>3, <1>7, <2>2, <2>3, <3>1 DEF HolderInv, Moved
    <2>7. SelectionInv'
      BY <1>0, <1>3, <1>7, <2>2, <2>3, SelectionKept
    <2>8. QED
      BY <1>5, <2>3, <2>4, <2>5, <2>6, <2>7 DEF IInv, DiskInv, WriterInv, DurabilityInv, Grows
  <1>8. CASE /\ uncertain[s] /\ PersistedNotDurable(s, mem[s])
             /\ Return(s, op) /\ UNCHANGED <<epoch, uncertain>>
    <2>1. /\ CacheTypeOK' /\ CacheInv' /\ ReceiptsKept
          /\ disk' \in [index: Index, fence: 0..MaxEpoch] /\ stable' = stable
          /\ disk'.index = mem[s] /\ disk'.fence = disk.fence
          /\ faults' \in 0..MaxFaults
          /\ DiskInv'
      BY <1>0, <1>1, <1>3, <1>4, <1>8, NotDurableKeeps
    <2>2. TypeOK'
      BY <1>0, <1>1, <1>8, <2>1, ReturnEffect DEF TypeOK, CacheTypeOK
    <2>3. EpochInv' /\ WriterInv'
      BY <1>0, <1>4, <1>8, <2>1 DEF EpochInv, WriterInv, SameFunctions
    <2>4. HolderInv' /\ SelectionInv'
      BY <1>0, <1>8, <2>1, ReturnEffect, SelectionKept
    <2>5. QED
      BY <1>5, <2>1, <2>2, <2>3, <2>4 DEF IInv, DiskInv, WriterInv, DurabilityInv, Grows
  <1>9. CASE /\ uncertain[s] /\ NotPersisted(s, mem[s])
             /\ Return(s, op) /\ UNCHANGED <<epoch, uncertain>>
    <2>1. Fault /\ mem' = [mem EXCEPT ![s] = mem[s]] /\ UNCHANGED <<generation, disk, stable>>
      BY <1>9 DEF NotPersisted, diskVars
    <2>2. CacheTypeOK' /\ CacheInv' /\ ReceiptsKept
      BY <1>0, <1>4, <2>1, KeptInMemory DEF SameFunctions
    <2>3. TypeOK'
      BY <1>0, <1>1, <1>9, <2>1, <2>2, ReturnEffect, FaultType DEF TypeOK, CacheTypeOK
    <2>4. EpochInv' /\ WriterInv'
      BY <1>0, <1>9, <2>1 DEF EpochInv, WriterInv
    <2>5. HolderInv' /\ SelectionInv'
      BY <1>0, <1>9, <2>2, ReturnEffect, SelectionKept
    <2>6. DiskInv' /\ Grows
      BY <1>0, <1>1, <2>1, QuietDisk
    <2>7. QED
      BY <2>2, <2>3, <2>4, <2>5, <2>6 DEF IInv, DiskInv, WriterInv, DurabilityInv
  <1>10. QED
    BY <1>6, <1>7, <1>8, <1>9 DEF repairToolFunctionDurability

(* Past the repair, the writer's cache, the file and what a power loss      *)
(* would leave agree on every registration.                                 *)
LEMMA DecideFacts ==
    ASSUME IInv, NEW s \in Stores, NEW op \in Ops, Holds(s, op, "decide")
    PROVE  /\ op \in inflight[s]
           /\ epoch[s] # 0 /\ epoch[s] = disk.fence /\ ~Moved(s)
           /\ mem[s] \in Index /\ Writable(mem[s])
           /\ SameFunctions(disk.index, mem[s])
           /\ SameFunctions(stable.index, disk.index)
  <1>0. TypeOK /\ CacheInv /\ HolderInv /\ SelectionInv /\ DiskInv /\ WriterInv
    BY IInvParts
  <1>1. "decide" \in Steps /\ "decide" # "fence"
    BY DEF Steps
  <1>2. /\ op \in inflight[s]
        /\ epoch[s] # 0 /\ epoch[s] = disk.fence /\ ~Moved(s) /\ ~uncertain[s]
    BY <1>0, <1>1, HoldsFacts
  <1>3. SameFunctions(stable.index, disk.index)
    BY <1>0, <1>2 DEF WriterInv
  <1>4. mem[s] \in Index /\ SameFunctions(mem[s], mem[s])
    BY <1>0 DEF TypeOK, SameFunctions
  <1>5. Writable(mem[s]) /\ SameFunctions(disk.index, mem[s])
    BY <1>0, <1>2, <1>4, CacheWritable
  <1>6. QED
    BY <1>2, <1>3, <1>4, <1>5

(* A replay answers what the receipt says, from durable state. *)
LEMMA ResolvePreserves ==
    ASSUME IInv, NEW s \in Stores, NEW op \in Ops, resolveToolFunctionRequest(s, op)
    PROVE  IInv' /\ Grows
  <1>0. TypeOK /\ CacheInv /\ EpochInv /\ HolderInv /\ SelectionInv /\ DiskInv /\ WriterInv
    BY IInvParts
  <1>1. /\ UNCHANGED <<mem, generation, epoch, uncertain, disk, stable, faults, losses>>
        /\ Holds(s, op, "decide") /\ Return(s, op)
        /\ \/ Registered(mem[s], op) /\ acked' = acked \cup {op}
           \/ acked' = acked
    BY DEF resolveToolFunctionRequest, Registered, storeVars, diskVars
  <1>2. SameFunctions(disk.index, mem[s]) /\ SameFunctions(stable.index, disk.index)
    BY <1>1, DecideFacts
  <1>3. \A o \in acked' : Registered(stable.index, o)
    BY <1>0, <1>1, <1>2 DEF DiskInv, AckedSurvivesPowerLoss, Registered, SameFunctions
  <1>4. TypeOK'
    BY <1>0, <1>1, ReturnEffect DEF TypeOK
  <1>5. CacheInv' /\ EpochInv' /\ WriterInv'
    BY <1>0, <1>1 DEF CacheInv, EpochInv, WriterInv
  <1>6. HolderInv' /\ SelectionInv'
    BY <1>0, <1>1, ReturnEffect, SelectionKept DEF ReceiptsKept
  <1>7. DiskInv'
    BY <1>0, <1>1, <1>3 DEF DiskInv, RegistryCoherent, AckedSurvivesPowerLoss, LegacyReplayOnly
  <1>8. Grows
    BY <1>0, <1>1, ExtendsReflexive DEF Grows, TypeOK
  <1>9. QED
    BY <1>4, <1>5, <1>6, <1>7, <1>8 DEF IInv, DiskInv, WriterInv, DurabilityInv

(* The closing persist of a registration. *)
LEMMA CommitPreserves ==
    ASSUME IInv, NEW s \in Stores, NEW op \in Ops, Holds(s, op, "decide"),
           NEW idx, Writable(idx), Registered(idx, op), Commit(s, op, idx)
    PROVE  IInv' /\ Grows
  <1>0. TypeOK /\ CacheInv /\ EpochInv /\ HolderInv /\ SelectionInv /\ DiskInv /\ WriterInv
    BY IInvParts
  <1>1. Return(s, op) /\ UNCHANGED <<epoch, losses>>
    BY DEF Commit
  <1>2. /\ epoch[s] # 0 /\ epoch[s] = disk.fence /\ ~Moved(s)
        /\ mem[s] \in Index
    BY DecideFacts
  <1>3. Extends(disk.index, idx)
    BY DEF Writable
  <1>4. CASE Persisted(s, idx) /\ acked' = acked \cup {op} /\ UNCHANGED uncertain
    <2>1. faults' = faults
      BY <1>4 DEF Persisted
    <2>2. /\ CacheTypeOK' /\ CacheInv' /\ ReceiptsKept
          /\ disk' \in [index: Index, fence: 0..MaxEpoch] /\ stable' = disk'
          /\ disk'.index = idx /\ disk'.fence = disk.fence
          /\ DiskInv' /\ WriterInv'
      BY <1>0, <1>2, <1>4, PersistedKeeps
    <2>3. TypeOK'
      BY <1>0, <1>1, <1>4, <2>1, <2>2, ReturnEffect DEF TypeOK, CacheTypeOK
    <2>4. EpochInv' /\ HolderInv' /\ SelectionInv'
      BY <1>0, <1>1, <2>2, ReturnEffect, SelectionKept DEF EpochInv
    <2>5. QED
      BY <1>3, <2>2, <2>3, <2>4 DEF IInv, DiskInv, WriterInv, DurabilityInv, Grows
  <1>5. CASE /\ PersistedNotDurable(s, idx) /\ UNCHANGED acked
             /\ uncertain' = [uncertain EXCEPT ![s] = TRUE]
    <2>1. /\ CacheTypeOK' /\ CacheInv' /\ ReceiptsKept
          /\ disk' \in [index: Index, fence: 0..MaxEpoch] /\ stable' = stable
          /\ disk'.index = idx /\ disk'.fence = disk.fence
          /\ faults' \in 0..MaxFaults
          /\ DiskInv'
      BY <1>0, <1>2, <1>5, NotDurableKeeps
    <2>2. TypeOK'
      BY <1>0, <1>1, <1>5, <2>1, ReturnEffect DEF TypeOK, CacheTypeOK
    <2>3. EpochInv' /\ HolderInv' /\ SelectionInv'
      BY <1>0, <1>1, <2>1, ReturnEffect, SelectionKept DEF EpochInv
    <2>4. \A t \in Stores : epoch'[t] # 0 /\ epoch'[t] = disk'.fence => t = s
      BY <1>0, <1>1, <1>2, <2>1 DEF EpochInv
    <2>5. uncertain'[s] = TRUE
      BY <1>0, <1>5 DEF TypeOK
    <2>6. WriterInv'
      BY <2>4, <2>5 DEF WriterInv
    <2>7. QED
      BY <1>3, <2>1, <2>2, <2>3, <2>6 DEF IInv, DiskInv, WriterInv, DurabilityInv, Grows
  <1>6. CASE NotPersisted(s, mem[s]) /\ UNCHANGED <<uncertain, acked>>
    <2>1. Fault /\ mem' = [mem EXCEPT ![s] = mem[s]] /\ UNCHANGED <<generation, disk, stable>>
      BY <1>6 DEF NotPersisted, diskVars
    <2>2. CacheTypeOK' /\ CacheInv' /\ ReceiptsKept
      BY <1>0, <1>2, <2>1, KeptInMemory DEF SameFunctions
    <2>3. TypeOK'
      BY <1>0, <1>1, <1>6, <2>1, <2>2, ReturnEffect, FaultType DEF TypeOK, CacheTypeOK
    <2>4. EpochInv' /\ WriterInv'
      BY <1>0, <1>1, <1>6, <2>1 DEF EpochInv, WriterInv
    <2>5. HolderInv' /\ SelectionInv'
      BY <1>0, <1>1, <2>2, ReturnEffect, SelectionKept
    <2>6. DiskInv' /\ Grows
      BY <1>0, <1>6, <2>1, QuietDisk
    <2>7. QED
      BY <2>2, <2>3, <2>4, <2>5, <2>6 DEF IInv, DiskInv, WriterInv, DurabilityInv
  <1>7. QED
    BY <1>4, <1>5, <1>6 DEF Commit

(* What a registration writes is coherent, extends the file and uses the    *)
(* current canonicalizer.                                                   *)
LEMMA RegistrationWritable ==
    ASSUME IInv, NEW s \in Stores, NEW op \in Ops, Holds(s, op, "decide"),
           mem[s].receipt[op.req] = NoReceipt,
           NEW idx \in Index, Extends(mem[s], idx), Linked(idx), OneEnvelope(idx),
           idx.receipt = [mem[s].receipt EXCEPT ![op.req] = op.basis]
    PROVE  Writable(idx)
  <1>0. TypeOK /\ SelectionInv
    BY IInvParts
  <1>1. op \in inflight[s] /\ mem[s] \in Index /\ Writable(mem[s])
    BY DecideFacts
  <1>2. op.basis \notin LegacyBases
    BY <1>0, <1>1 DEF SelectionInv
  <1>3. disk.index \in Index /\ Extends(disk.index, mem[s])
    BY <1>0, <1>1 DEF TypeOK, Writable
  <1>4. Extends(disk.index, idx)
    BY <1>1, <1>3, ExtendsTransitive
  <1>5. ASSUME NEW q \in Requests, idx.receipt[q] \in LegacyBases
        PROVE  InitialIndex.receipt[q] = idx.receipt[q]
    <2>1. idx.receipt[q] = IF q = op.req THEN op.basis ELSE mem[s].receipt[q]
      BY <1>1 DEF Index
    <2>2. QED
      BY <1>1, <1>2, <1>5, <2>1 DEF Writable
  <1>6. QED
    BY <1>4, <1>5 DEF Writable

(* A new registration, a proven reuse, or a refusal. *)
LEMMA RegisterPreserves ==
    ASSUME IInv, NEW s \in Stores, NEW op \in Ops, RegisterToolFunctionAtomic(s, op)
    PROVE  IInv' /\ Grows
  <1>0. TypeOK /\ CacheInv /\ EpochInv /\ HolderInv /\ SelectionInv /\ DiskInv /\ WriterInv
    BY IInvParts
  <1> DEFINE idx == mem[s]
             known == idx.origin[CasOf[op.basis]] # NoRequest
             allowed == /\ EnvelopeAllows(idx, op.basis)
                        /\ known => proveToolFunctionReuse(idx, op.basis)
  <1>1. Holds(s, op, "decide") /\ idx.receipt[op.req] = NoReceipt
    BY DEF RegisterToolFunctionAtomic
  <1>2. idx \in Index /\ Linked(idx) /\ OneEnvelope(idx)
    BY <1>1, DecideFacts DEF Writable
  <1>3. CASE allowed /\ ~known /\ Commit(s, op, WithFunction(idx, op))
    <2>1. /\ WithFunction(idx, op) \in Index
          /\ Extends(idx, WithFunction(idx, op))
          /\ Linked(WithFunction(idx, op))
          /\ OneEnvelope(WithFunction(idx, op))
          /\ Registered(WithFunction(idx, op), op)
      BY <1>1, <1>2, <1>3, NewFunctionCoherent
    <2>2. WithFunction(idx, op).receipt = [idx.receipt EXCEPT ![op.req] = op.basis]
      BY <1>2 DEF WithFunction, WithReceipt, Index
    <2>3. Writable(WithFunction(idx, op))
      BY <1>1, <2>1, <2>2, RegistrationWritable
    <2>4. QED
      BY <1>1, <1>3, <2>1, <2>3, CommitPreserves
  <1>4. CASE allowed /\ known /\ Commit(s, op, WithReceipt(idx, op))
    <2>1. /\ WithReceipt(idx, op) \in Index
          /\ Extends(idx, WithReceipt(idx, op))
          /\ Linked(WithReceipt(idx, op))
          /\ OneEnvelope(WithReceipt(idx, op))
          /\ Registered(WithReceipt(idx, op), op)
      BY <1>1, <1>2, <1>4, ReuseCoherent
    <2>2. WithReceipt(idx, op).receipt = [idx.receipt EXCEPT ![op.req] = op.basis]
      BY <1>2 DEF WithReceipt, Index
    <2>3. Writable(WithReceipt(idx, op))
      BY <1>1, <2>1, <2>2, RegistrationWritable
    <2>4. QED
      BY <1>1, <1>4, <2>1, <2>3, CommitPreserves
  <1>5. CASE /\ Return(s, op)
             /\ UNCHANGED <<storeVars, diskVars, acked, faults, losses>>
    <2>1. UNCHANGED <<mem, generation, epoch, uncertain, disk, stable, acked, faults, losses>>
      BY <1>5 DEF storeVars, diskVars
    <2>2. TypeOK'
      BY <1>0, <1>5, <2>1, ReturnEffect DEF TypeOK
    <2>3. CacheInv' /\ EpochInv' /\ WriterInv'
      BY <1>0, <2>1 DEF CacheInv, EpochInv, WriterInv
    <2>4. HolderInv' /\ SelectionInv'
      BY <1>0, <1>5, <2>1, ReturnEffect, SelectionKept DEF ReceiptsKept
    <2>5. DiskInv' /\ Grows
      BY <1>0, <2>1, QuietDisk
    <2>6. QED
      BY <2>2, <2>3, <2>4, <2>5 DEF IInv, DiskInv, WriterInv, DurabilityInv
  <1>6. QED
    BY <1>3, <1>4, <1>5 DEF RegisterToolFunctionAtomic

(* Any other write: refused, reloaded, or written, with or without failure. *)
LEMMA SavePreserves ==
    ASSUME IInv, NEW s \in Stores,
           NEW idx \in Index, SameFunctions(idx, mem[s]),
           mem[s].entries \subseteq idx.entries, mem[s].images \subseteq idx.images,
           NEW kept \in Index, SameFunctions(kept, mem[s]),
           kept.images = mem[s].images, mem[s].entries \subseteq kept.entries,
           UNCHANGED <<epoch, uncertain, inflight, holder, acked, losses>>,
           save(s, idx, kept)
    PROVE  IInv' /\ Grows
  <1>0. TypeOK /\ CacheInv /\ EpochInv /\ HolderInv /\ SelectionInv /\ DiskInv /\ WriterInv
    BY IInvParts
  <1>1. holder.store = NoStore /\ holder'.store = NoStore
    BY DEF save, Locked
  <1>2. HolderInv'
    BY <1>1 DEF HolderInv
  <1>3. ASSUME ReceiptsKept
        PROVE  SelectionInv'
    BY <1>0, <1>1, <1>3, SelectionKept
  <1>4. CASE /\ mem' = [mem EXCEPT ![s] = kept]
             /\ UNCHANGED <<generation, disk, stable>>
             /\ faults' \in 0..MaxFaults
    <2>1. CacheTypeOK' /\ CacheInv' /\ ReceiptsKept
      BY <1>0, <1>4, KeptInMemory
    <2>2. TypeOK'
      BY <1>0, <1>4, <2>1 DEF TypeOK, CacheTypeOK
    <2>3. EpochInv' /\ WriterInv'
      BY <1>0, <1>4 DEF EpochInv, WriterInv
    <2>4. DiskInv' /\ Grows
      BY <1>0, <1>4, QuietDisk
    <2>5. QED
      BY <1>2, <1>3, <2>1, <2>2, <2>3, <2>4 DEF IInv, DiskInv, WriterInv, DurabilityInv
  <1>5. CASE load(s) /\ UNCHANGED <<disk, stable, faults>>
    <2>1. CacheTypeOK' /\ CacheInv' /\ ReceiptsKept
      BY <1>0, <1>5, LoadKeeps
    <2>2. TypeOK'
      BY <1>0, <1>5, <2>1 DEF TypeOK, CacheTypeOK
    <2>3. EpochInv' /\ WriterInv'
      BY <1>0, <1>5 DEF EpochInv, WriterInv
    <2>4. DiskInv' /\ Grows
      BY <1>0, <1>5, QuietDisk
    <2>5. QED
      BY <1>2, <1>3, <2>1, <2>2, <2>3, <2>4 DEF IInv, DiskInv, WriterInv, DurabilityInv
  <1>6. ASSUME ~Moved(s)
        PROVE  Writable(idx) /\ SameFunctions(disk.index, idx) /\ Extends(disk.index, idx)
    BY <1>0, <1>6, CacheWritable DEF Writable
  <1>7. CASE ~Moved(s) /\ Persisted(s, idx)
    <2>1. /\ CacheTypeOK' /\ CacheInv' /\ ReceiptsKept
          /\ disk' \in [index: Index, fence: 0..MaxEpoch] /\ stable' = disk'
          /\ disk'.index = idx /\ disk'.fence = disk.fence
          /\ DiskInv' /\ WriterInv'
      BY <1>0, <1>6, <1>7, PersistedKeeps
    <2>2. TypeOK'
      BY <1>0, <1>7, <2>1 DEF TypeOK, CacheTypeOK, Persisted
    <2>3. EpochInv'
      BY <1>0, <2>1 DEF EpochInv
    <2>4. QED
      BY <1>2, <1>3, <1>6, <1>7, <2>1, <2>2, <2>3 DEF IInv, DiskInv, WriterInv, DurabilityInv, Grows
  <1>8. CASE ~Moved(s) /\ PersistedNotDurable(s, idx)
    <2>1. /\ CacheTypeOK' /\ CacheInv' /\ ReceiptsKept
          /\ disk' \in [index: Index, fence: 0..MaxEpoch] /\ stable' = stable
          /\ disk'.index = idx /\ disk'.fence = disk.fence
          /\ faults' \in 0..MaxFaults
          /\ DiskInv'
      BY <1>0, <1>6, <1>8, NotDurableKeeps
    <2>2. TypeOK'
      BY <1>0, <1>8, <2>1 DEF TypeOK, CacheTypeOK
    <2>3. EpochInv'
      BY <1>0, <2>1 DEF EpochInv
    <2>4. WriterInv'
      BY <1>0, <1>6, <1>8, <2>1 DEF WriterInv, SameFunctions
    <2>5. QED
      BY <1>2, <1>3, <1>6, <1>8, <2>1, <2>2, <2>3, <2>4 DEF IInv, DiskInv, WriterInv, DurabilityInv, Grows
  <1>9. \/ Superseded(s) /\ mem' = [mem EXCEPT ![s] = kept] /\ UNCHANGED <<generation, disk, stable, faults>>
        \/ load(s) /\ UNCHANGED <<disk, stable, faults>>
        \/ ~Moved(s) /\ Persisted(s, idx)
        \/ ~Moved(s) /\ PersistedNotDurable(s, idx)
        \/ NotPersisted(s, kept)
    BY DEF save, diskVars
  <1>10. CASE NotPersisted(s, kept)
    BY <1>0, <1>4, <1>10, FaultType DEF NotPersisted, diskVars
  <1>11. CASE Superseded(s) /\ mem' = [mem EXCEPT ![s] = kept] /\ UNCHANGED <<generation, disk, stable, faults>>
    BY <1>0, <1>4, <1>11 DEF TypeOK
  <1>12. QED
    BY <1>5, <1>7, <1>8, <1>9, <1>10, <1>11

(* Store.Append, whose entry stays in memory when the save fails. *)
LEMMA AppendPreserves ==
    ASSUME IInv, NEW s \in Stores, NEW e \in Entries, AppendEntry(s, e)
    PROVE  IInv' /\ Grows
  <1>0. TypeOK /\ CacheInv /\ EpochInv /\ HolderInv /\ SelectionInv /\ DiskInv /\ WriterInv
    BY IInvParts
  <1> DEFINE idx == [mem[s] EXCEPT !.entries = mem[s].entries \cup {e}]
  <1>1. save(s, idx, idx) /\ UNCHANGED <<epoch, uncertain, inflight, holder, acked, losses>>
    BY DEF AppendEntry
  <1>2. mem[s] \in Index
    BY <1>0 DEF TypeOK
  <1>3. /\ idx \in Index /\ SameFunctions(idx, mem[s])
        /\ mem[s].entries \subseteq idx.entries /\ idx.images = mem[s].images
    BY <1>2 DEF Index, SameFunctions
  <1> HIDE DEF idx
  <1>4. QED
    BY <1>1, <1>3, SavePreserves

(* AppendToolImageRecord, whose record does not. *)
LEMMA ImagePreserves ==
    ASSUME IInv, NEW s \in Stores, NEW i \in Images, AppendToolImageRecord(s, i)
    PROVE  IInv' /\ Grows
  <1>0. TypeOK /\ CacheInv /\ EpochInv /\ HolderInv /\ SelectionInv /\ DiskInv /\ WriterInv
    BY IInvParts
  <1> DEFINE idx == [mem[s] EXCEPT !.images = mem[s].images \cup {i}]
  <1>1. save(s, idx, mem[s]) /\ UNCHANGED <<epoch, uncertain, inflight, holder, acked, losses>>
    BY DEF AppendToolImageRecord
  <1>2. mem[s] \in Index /\ SameFunctions(mem[s], mem[s])
    BY <1>0 DEF TypeOK, SameFunctions
  <1>3. /\ idx \in Index /\ SameFunctions(idx, mem[s])
        /\ idx.entries = mem[s].entries /\ mem[s].images \subseteq idx.images
    BY <1>2 DEF Index, SameFunctions
  <1> HIDE DEF idx
  <1>4. QED
    BY <1>1, <1>2, <1>3, SavePreserves

(* Reload, by a process that is not in its critical section. *)
LEMMA ReloadPreserves ==
    ASSUME IInv, NEW s \in Stores, Reload(s)
    PROVE  IInv' /\ Grows
  <1>0. TypeOK /\ CacheInv /\ EpochInv /\ HolderInv /\ SelectionInv /\ DiskInv /\ WriterInv
    BY IInvParts
  <1>1. /\ holder.store # s /\ load(s)
        /\ UNCHANGED <<epoch, uncertain, disk, stable, inflight, holder, acked, faults, losses>>
    BY DEF Reload, diskVars
  <1>2. CacheTypeOK' /\ CacheInv' /\ ReceiptsKept
    BY <1>0, <1>1, LoadKeeps
  <1>3. TypeOK'
    BY <1>0, <1>1, <1>2 DEF TypeOK, CacheTypeOK
  <1>4. EpochInv' /\ WriterInv'
    BY <1>0, <1>1 DEF EpochInv, WriterInv
  <1>5. holder.store # NoStore => holder.store \in Stores
    BY <1>0 DEF TypeOK, Free
  <1>6. \A t \in Stores : t # s => generation'[t] = generation[t]
    BY <1>0, <1>1 DEF TypeOK, load
  <1>7. HolderInv'
    BY <1>0, <1>1, <1>5, <1>6 DEF HolderInv, Moved
  <1>8. SelectionInv'
    BY <1>0, <1>1, <1>2, SelectionKept DEF SelectionInv
  <1>9. DiskInv' /\ Grows
    BY <1>0, <1>1, QuietDisk
  <1>10. QED
    BY <1>2, <1>3, <1>4, <1>7, <1>8, <1>9 DEF IInv, DiskInv, WriterInv, DurabilityInv

(* A restart loads the file, fsyncs the directory and forgets the epoch. *)
LEMMA RestartPreserves ==
    ASSUME IInv, NEW s \in Stores, Restart(s)
    PROVE  IInv' /\ Grows
  <1>0. TypeOK /\ CacheInv /\ EpochInv /\ HolderInv /\ SelectionInv /\ DiskInv /\ WriterInv
    BY IInvParts
  <1>1. /\ Fault /\ load(s) /\ stable' = disk /\ Release(s)
        /\ epoch' = [epoch EXCEPT ![s] = 0]
        /\ uncertain' = [uncertain EXCEPT ![s] = FALSE]
        /\ inflight' = [inflight EXCEPT ![s] = {}]
        /\ UNCHANGED <<disk, acked, losses>>
    BY DEF Restart
  <1>2. CacheTypeOK' /\ CacheInv' /\ ReceiptsKept
    BY <1>0, <1>1, LoadKeeps
  <1>3. /\ epoch' \in [Stores -> 0..MaxEpoch] /\ uncertain' \in [Stores -> BOOLEAN]
        /\ inflight' \in [Stores -> SUBSET Ops]
        /\ epoch'[s] = 0 /\ inflight'[s] = {}
        /\ \A t \in Stores : t # s => /\ epoch'[t] = epoch[t]
                                      /\ uncertain'[t] = uncertain[t]
                                      /\ inflight'[t] = inflight[t]
    BY <1>0, <1>1, BoundsAssumption DEF TypeOK
  <1>4. \/ holder'.store = NoStore /\ holder' = Free
        \/ holder' = holder /\ holder.store # s
    BY <1>1 DEF Release, Free
  <1>5. TypeOK'
    BY <1>0, <1>1, <1>2, <1>3, <1>4, FaultType DEF TypeOK, CacheTypeOK
  <1>6. EpochInv'
    BY <1>0, <1>1, <1>3, <1>5 DEF EpochInv, TypeOK
  <1>7. holder.store # NoStore => holder.store \in Stores
    BY <1>0 DEF TypeOK, Free
  <1>8. HolderInv'
    <2>1. \A t \in Stores : t # s => generation'[t] = generation[t]
      BY <1>0, <1>1 DEF TypeOK, load
    <2>2. QED
      BY <1>0, <1>1, <1>3, <1>4, <1>7, <2>1 DEF HolderInv, Moved
  <1>9. SelectionInv'
    <2>1. holder'.store # NoStore => holder'.op \in inflight'[holder'.store]
      BY <1>0, <1>3, <1>4, <1>7 DEF SelectionInv
    <2>2. \A t \in Stores : inflight'[t] \subseteq inflight[t]
      BY <1>3
    <2>3. QED
      BY <1>0, <1>2, <2>1, <2>2, SelectionKept
  <1>10. DiskInv' /\ WriterInv'
    <2>1. disk.index \in Index /\ Extends(disk.index, disk'.index)
      BY <1>0, <1>1, ExtendsReflexive DEF TypeOK
    <2>2. disk' \in [index: Index, fence: 0..MaxEpoch]
      BY <1>5 DEF TypeOK
    <2>3. Linked(disk'.index) /\ OneEnvelope(disk'.index) /\ LegacyReplayOnly'
      BY <1>0, <1>1, <2>2, SameFunctionsDisk DEF SameFunctions
    <2>4. QED
      BY <1>0, <1>1, <2>1, <2>2, <2>3, SyncedDisk
  <1>11. Grows
    BY <1>0, <1>1, ExtendsReflexive DEF Grows, TypeOK
  <1>12. QED
    BY <1>2, <1>5, <1>6, <1>8, <1>9, <1>10, <1>11 DEF IInv, DiskInv, WriterInv, DurabilityInv

(* The kernel writes a directory entry back on its own. *)
LEMMA WriteBackPreserves ==
    ASSUME IInv, WriteBack
    PROVE  IInv' /\ Grows
  <1>0. TypeOK /\ CacheInv /\ EpochInv /\ HolderInv /\ SelectionInv /\ DiskInv /\ WriterInv
    BY IInvParts
  <1>1. /\ UNCHANGED <<mem, generation, epoch, uncertain, disk, inflight, holder, acked, faults, losses>>
        /\ \/ stable' = [stable EXCEPT !.index = disk.index]
           \/ stable' = [stable EXCEPT !.fence = disk.fence]
    BY DEF WriteBack, storeVars
  <1>2. /\ stable' \in [index: Index, fence: 0..MaxEpoch]
        /\ stable'.index = disk.index \/ stable'.index = stable.index
    BY <1>0, <1>1 DEF TypeOK
  <1>3. TypeOK'
    BY <1>0, <1>1, <1>2 DEF TypeOK
  <1>4. CacheInv' /\ EpochInv' /\ HolderInv' /\ SelectionInv'
    BY <1>0, <1>1 DEF CacheInv, EpochInv, HolderInv, SelectionInv, Moved
  <1>5. WriterInv'
    BY <1>0, <1>1, <1>2 DEF WriterInv, SameFunctions
  <1>6. disk.index \in Index /\ stable.index \in Index /\ InitialIndex \in Index
    BY <1>0, InitialIndexAssumption DEF TypeOK
  <1>7. DiskInv'
    <2>1. CASE stable'.index = stable.index
      BY <1>0, <1>1, <2>1 DEF DiskInv, RegistryCoherent, AckedSurvivesPowerLoss, LegacyReplayOnly
    <2>2. CASE stable'.index = disk.index
      <3>1. Extends(InitialIndex, disk.index) /\ Extends(disk.index, disk.index)
        BY <1>0, <1>6, ExtendsTransitive, ExtendsReflexive DEF DiskInv
      <3>2. \A op \in acked : Registered(disk.index, op)
        BY <1>0, <1>6, RegisteredExtends DEF DiskInv, AckedSurvivesPowerLoss, TypeOK
      <3>3. QED
        BY <1>0, <1>1, <2>2, <3>1, <3>2
           DEF DiskInv, RegistryCoherent, AckedSurvivesPowerLoss, LegacyReplayOnly
    <2>3. QED
      BY <1>2, <2>1, <2>2
  <1>8. Grows
    BY <1>1, <1>6, ExtendsReflexive DEF Grows
  <1>9. QED
    BY <1>3, <1>4, <1>5, <1>7, <1>8 DEF IInv, DiskInv, WriterInv, DurabilityInv

(* A power loss takes every process back to what was durable. *)
LEMMA PowerLossPreserves ==
    ASSUME IInv, PowerLoss
    PROVE  IInv' /\ Grows
  <1>0. TypeOK /\ CacheInv /\ EpochInv /\ HolderInv /\ SelectionInv /\ DiskInv /\ WriterInv
    BY IInvParts
  <1>1. /\ Fault /\ losses' = losses + 1 /\ disk' = stable /\ holder' = Free
        /\ mem' = [s \in Stores |-> stable.index]
        /\ generation' = [s \in Stores |-> stable.index]
        /\ epoch' = [s \in Stores |-> 0]
        /\ uncertain' = [s \in Stores |-> FALSE]
        /\ inflight' = [s \in Stores |-> {}]
        /\ UNCHANGED <<stable, acked>>
    BY DEF PowerLoss
  <1>2. stable.index \in Index /\ disk.index \in Index /\ losses \in Nat
    BY <1>0 DEF TypeOK
  <1>3. holder'.store = NoStore
    BY <1>1 DEF Free
  <1>4. TypeOK'
    BY <1>0, <1>1, <1>2, FaultType, BoundsAssumption DEF TypeOK
  <1>5. CacheInv'
    BY <1>1, <1>2, ExtendsReflexive DEF CacheInv, Cached, SameFunctions
  <1>6. EpochInv' /\ HolderInv' /\ SelectionInv'
    BY <1>1, <1>3, <1>4, BoundsAssumption DEF EpochInv, HolderInv, SelectionInv, TypeOK
  <1>7. WriterInv'
    BY <1>1 DEF WriterInv, SameFunctions
  <1>8. LegacyReplayOnly'
    BY <1>0, <1>1, <1>2, NullsAssumption, DerivationAssumption DEF DiskInv, LegacyReplayOnly, Extends
  <1>9. DiskInv'
    BY <1>0, <1>1, <1>2, <1>8, ExtendsReflexive DEF DiskInv, RegistryCoherent, AckedSurvivesPowerLoss
  <1>10. Grows
    BY <1>1, <1>2 DEF Grows
  <1>11. QED
    BY <1>4, <1>5, <1>6, <1>7, <1>9, <1>10 DEF IInv, DiskInv, WriterInv, DurabilityInv

-----------------------------------------------------------------------------
(* The theorems *)

(* The invariant holds at the start. *)
LEMMA InitEstablishes == Init => IInv
  <1> SUFFICES ASSUME Init PROVE IInv
    OBVIOUS
  <1>1. InitialIndex \in Index /\ Extends(InitialIndex, InitialIndex)
    BY InitialIndexAssumption, ExtendsReflexive
  <1>2. disk.index = InitialIndex /\ stable.index = InitialIndex /\ disk.fence = 0 /\ holder.store = NoStore
    BY DEF Init, Free
  <1>3. TypeOK
    BY <1>1, BoundsAssumption DEF Init, TypeOK
  <1>4. CacheInv
    BY <1>1, <1>2 DEF Init, CacheInv, Cached, SameFunctions
  <1>5. EpochInv /\ HolderInv /\ SelectionInv
    BY <1>2 DEF Init, EpochInv, HolderInv, SelectionInv
  <1>6. DiskInv /\ WriterInv
    BY <1>1, <1>2, InitialIndexAssumption
       DEF Init, DiskInv, WriterInv, RegistryCoherent, AckedSurvivesPowerLoss, LegacyReplayOnly, SameFunctions
  <1>7. QED
    BY <1>3, <1>4, <1>5, <1>6, IInvParts

(* Stuttering preserves it. *)
LEMMA StutterPreserves ==
    ASSUME IInv, UNCHANGED vars
    PROVE  IInv' /\ Grows
  <1>0. TypeOK /\ CacheInv /\ EpochInv /\ HolderInv /\ SelectionInv /\ DiskInv /\ WriterInv
    BY IInvParts
  <1>1. UNCHANGED <<mem, generation, epoch, uncertain, disk, stable, inflight, holder, acked, faults, losses>>
    BY DEF vars, storeVars, diskVars
  <1>2. TypeOK'
    BY <1>0, <1>1 DEF TypeOK
  <1>3. CacheInv' /\ EpochInv' /\ HolderInv' /\ SelectionInv' /\ WriterInv'
    BY <1>0, <1>1 DEF CacheInv, EpochInv, HolderInv, SelectionInv, WriterInv, Moved
  <1>4. DiskInv' /\ Grows
    BY <1>0, <1>1, QuietDisk
  <1>5. QED
    BY <1>2, <1>3, <1>4 DEF IInv, DiskInv, WriterInv, DurabilityInv

(* Every step preserves it, one case per action. *)
LEMMA NextPreserves ==
    ASSUME IInv, [Next]_vars
    PROVE  IInv' /\ Grows
  <1>1. ASSUME NEW s \in Registrars, NEW op \in Ops, Register(s, op)
        PROVE  IInv' /\ Grows
    <2>1. s \in Stores
      BY RegistrarsAssumption
    <2>2. QED
      BY <1>1, <2>1, SelectPreserves, LockPreserves, VerifyPreserves, ClaimPreserves,
         ClaimFailsPreserves, RepairPreserves, ResolvePreserves, RegisterPreserves
         DEF Register
  <1>2. ASSUME NEW s \in Stores, StoreWrites(s)
        PROVE  IInv' /\ Grows
    BY <1>2, AppendPreserves, ImagePreserves, ReloadPreserves, RestartPreserves DEF StoreWrites
  <1>3. CASE WriteBack
    BY <1>3, WriteBackPreserves
  <1>4. CASE PowerLoss
    BY <1>4, PowerLossPreserves
  <1>5. CASE UNCHANGED vars
    BY <1>5, StutterPreserves
  <1>6. QED
    BY <1>1, <1>2, <1>3, <1>4, <1>5 DEF Next

(* The inductive invariant of the shared index holds in every reachable     *)
(* state of the processes and the directory.                                *)
THEOREM Invariance == Spec => []IInv
  <1>1. Init => IInv
    BY InitEstablishes
  <1>2. IInv /\ [Next]_vars => IInv'
    BY NextPreserves
  <1>3. QED
    BY <1>1, <1>2, PTL DEF Spec

(* Type correctness of the store. *)
THEOREM TypeCorrect == Spec => []TypeOK
  <1>1. IInv => TypeOK
    BY DEF IInv
  <1>2. QED
    BY <1>1, Invariance, PTL

(* A registration answered with success survives a power loss: no success   *)
(* is answered on a rename that was not fsynced.                            *)
THEOREM AckedDurable == Spec => []AckedSurvivesPowerLoss
  <1>1. IInv => AckedSurvivesPowerLoss
    BY DEF IInv
  <1>2. QED
    BY <1>1, Invariance, PTL

(* Receipts, records and envelopes in the index file agree, whichever       *)
(* processes registered them.                                               *)
THEOREM Coherent == Spec => []RegistryCoherent
  <1>1. IInv => RegistryCoherent
    BY DEF IInv
  <1>2. QED
    BY <1>1, Invariance, PTL

(* No cache shows a receipt, a record or an image that is not in the file.  *)
THEOREM NoPhantoms == Spec => []NoPhantomRecords
  <1>1. IInv => NoPhantomRecords
    <2> SUFFICES ASSUME IInv PROVE NoPhantomRecords
      OBVIOUS
    <2>1. CacheInv
      BY DEF IInv
    <2>2. QED
      BY <2>1 DEF CacheInv, Cached, SameFunctions, Extends, NoPhantomRecords
  <1>2. QED
    BY <1>1, Invariance, PTL

(* The legacy canonicalizer is replay-only. *)
THEOREM LegacyIsReplayOnly == Spec => []LegacyReplayOnly
  <1>1. IInv => LegacyReplayOnly
    BY DEF IInv
  <1>2. QED
    BY <1>1, Invariance, PTL

(* No whole-index rewrite erases what any process committed before.         *)
THEOREM CommitsAreKept == Spec => NothingErased
  <1>1. IInv /\ [Next]_vars => [losses' = losses => Extends(disk.index, disk'.index)]_vars
    BY NextPreserves DEF Grows
  <1>2. QED
    BY <1>1, Invariance, PTL DEF Spec, NothingErased
-----------------------------------------------------------------------------
(* The processes implement FunctionRegistry *)

LedgerOf(idx) == {op \in Ops : Registered(idx, op)}

(* What the other writes and the internal steps of a registration do to the *)
(* registry: nothing.                                                       *)
Unseen == SameFunctions(disk'.index, disk.index) /\ acked' = acked

(* In a coherent index a receipt with a known basis is a registration. *)
LEMMA RegisteredByReceipt ==
    ASSUME NEW idx, Linked(idx), NEW op \in Ops
    PROVE  Registered(idx, op) <=> idx.receipt[op.req] = op.basis
  BY DEF Registered, Linked, Ops

(* No two registrations of a coherent index disagree. *)
LEMMA RegisteredCompatible ==
    ASSUME NEW idx, Linked(idx), OneEnvelope(idx), NEW a \in Ops, NEW b \in Ops,
           Registered(idx, a), Registered(idx, b)
    PROVE  Registry!Compatible(a, b)
  <1> DEFINE g == CasOf[a.basis]
             h == CasOf[b.basis]
  <1>1. /\ a.req \in Requests /\ a.basis \in Bases /\ g \in Hashes
        /\ b.req \in Requests /\ b.basis \in Bases /\ h \in Hashes
    BY DerivationAssumption DEF Ops
  <1>2. idx.receipt[a.req] = a.basis /\ idx.receipt[b.req] = b.basis
    BY DEF Registered
  <1>3. /\ idx.origin[g] # NoRequest /\ idx.receipt[idx.origin[g]] = a.basis
        /\ idx.origin[h] # NoRequest /\ idx.receipt[idx.origin[h]] = b.basis
    BY <1>1, <1>2 DEF Linked
  <1>4. a.req = b.req => a.basis = b.basis
    BY <1>2
  <1>5. g = h => a.basis = b.basis
    BY <1>3
  <1>6. DigestOf[g] = DigestOf[h] => EnvelopeOf[a.basis] = EnvelopeOf[b.basis]
    BY <1>1, <1>3 DEF OneEnvelope
  <1>7. QED
    BY <1>4, <1>5, <1>6 DEF Registry!Compatible

(* Indexes with the same records and receipts hold the same ledger. *)
LEMMA SameLedger ==
    ASSUME NEW a, NEW b, SameFunctions(a, b)
    PROVE  LedgerOf(a) = LedgerOf(b)
  BY DEF LedgerOf, SameFunctions, Registered

LEMMA UnseenStutters ==
    ASSUME Unseen
    PROVE  UNCHANGED <<Ledger, acked>>
  <1>1. LedgerOf(disk'.index) = LedgerOf(disk.index)
    BY SameLedger DEF Unseen
  <1>2. QED
    BY <1>1 DEF Unseen, LedgerOf, Ledger

(* The initial index is a ledger without disagreement. *)
LEMMA InitRefines == Init => Registry!Init
  <1> SUFFICES ASSUME Init PROVE Registry!Init
    OBVIOUS
  <1>1. disk.index = InitialIndex /\ acked = {}
    BY DEF Init
  <1>2. Ledger \in SUBSET Ops
    BY DEF Ledger
  <1>3. \A a, b \in Ledger : Registry!Compatible(a, b)
    BY <1>1, InitialIndexAssumption, RegisteredCompatible DEF Ledger
  <1>4. QED
    BY <1>1, <1>2, <1>3 DEF Registry!Init, Registry!Operations, Ops

(* An index that gained one receipt, and stayed coherent, is a registration. *)
LEMMA CommitRefines ==
    ASSUME IInv, IInv', NEW op \in Ops,
           disk.index.receipt[op.req] = NoReceipt,
           disk'.index.receipt = [disk.index.receipt EXCEPT ![op.req] = op.basis],
           acked' \in {acked, acked \cup {op}}
    PROVE  Registry!Register(op)
  <1>1. /\ disk.index \in Index /\ Linked(disk.index)
        /\ disk'.index \in Index /\ Linked(disk'.index) /\ OneEnvelope(disk'.index)
    BY DEF IInv, TypeOK, RegistryCoherent
  <1>2. op.req \in Requests /\ op.basis \in Bases
    BY DEF Ops
  <1>3. \A o \in Ops : Registered(disk.index, o) <=> disk.index.receipt[o.req] = o.basis
    BY <1>1, RegisteredByReceipt
  <1>4. \A o \in Ops : Registered(disk'.index, o) <=> disk'.index.receipt[o.req] = o.basis
    BY <1>1, RegisteredByReceipt
  <1>5. \A q \in Requests : disk'.index.receipt[q] = IF q = op.req THEN op.basis ELSE disk.index.receipt[q]
    BY <1>1 DEF Index
  <1>6. ~Registered(disk.index, op) /\ Registered(disk'.index, op)
    BY <1>2, <1>3, <1>4, <1>5, NullsAssumption
  <1>7. \A o \in Ops : Registered(disk.index, o) => Registered(disk'.index, o)
    BY <1>2, <1>3, <1>4, <1>5, NullsAssumption DEF Ops
  <1>8. \A o \in Ops : Registered(disk'.index, o) => o = op \/ Registered(disk.index, o)
    <2> SUFFICES ASSUME NEW o \in Ops, Registered(disk'.index, o), o # op
                 PROVE  Registered(disk.index, o)
      OBVIOUS
    <2>1. o.req \in Requests /\ disk'.index.receipt[o.req] = o.basis
      BY <1>4 DEF Ops
    <2>2. o.req = op.req /\ o.basis = op.basis => o = op
      BY DEF Ops
    <2>3. QED
      BY <2>1, <2>2, <1>3, <1>5
  <1>9. Ledger' = Ledger \cup {op} /\ op \notin Ledger
    BY <1>6, <1>7, <1>8 DEF Ledger
  <1>10. \A a \in Ledger : Registry!Compatible(a, op)
    <2> SUFFICES ASSUME NEW a \in Ops, Registered(disk.index, a)
                 PROVE  Registry!Compatible(a, op)
      BY DEF Ledger
    <2>1. QED
      BY <1>1, <1>6, <1>7, RegisteredCompatible
  <1>11. QED
    BY <1>9, <1>10 DEF Registry!Register

(* An answer names an operation of the ledger. *)
LEMMA AnswerRefines ==
    ASSUME NEW op \in Ops, Registered(disk.index, op),
           disk' = disk, acked' = acked \cup {op}
    PROVE  Registry!Answer(op)
  <1>1. op \in Ledger /\ Ledger' = Ledger
    BY DEF Ledger
  <1>2. QED
    BY <1>1 DEF Registry!Answer

(* A power loss takes back only what was never answered. *)
LEMMA PowerLossRefines ==
    ASSUME IInv, PowerLoss
    PROVE  Registry!PowerLoss
  <1>1. disk' = stable /\ acked' = acked
    BY DEF PowerLoss
  <1>2. /\ stable.index \in Index /\ disk.index \in Index /\ acked \subseteq Ops
        /\ Extends(stable.index, disk.index) /\ AckedSurvivesPowerLoss
    BY DEF IInv, TypeOK, DurabilityInv
  <1>3. \A o \in Ops : Registered(stable.index, o) => Registered(disk.index, o)
    BY <1>2, RegisteredExtends
  <1>4. Ledger' \in SUBSET Ledger
    BY <1>1, <1>3 DEF Ledger
  <1>5. acked \subseteq Ledger'
    BY <1>1, <1>2 DEF Ledger, AckedSurvivesPowerLoss
  <1>6. QED
    BY <1>1, <1>4, <1>5 DEF Registry!PowerLoss

(* A save of any other section leaves the ledger alone. *)
LEMMA SaveUnseen ==
    ASSUME IInv, NEW s \in Stores, NEW idx, SameFunctions(idx, mem[s]), NEW kept,
           save(s, idx, kept), acked' = acked
    PROVE  Unseen
  <1>1. disk \in [index: Index, fence: 0..MaxEpoch] /\ Cached(mem[s], generation[s], disk.index)
    BY DEF IInv, TypeOK, CacheInv
  <1>2. CASE disk' = disk
    BY <1>2 DEF Unseen, SameFunctions
  <1>3. CASE ~Moved(s) /\ disk' = [disk EXCEPT !.index = idx]
    <2>1. disk'.index = idx /\ generation[s] = disk.index
      BY <1>1, <1>3 DEF Moved
    <2>2. QED
      BY <1>1, <2>1 DEF Unseen, SameFunctions, Cached
  <1>4. QED
    BY <1>2, <1>3 DEF save, load, Persisted, PersistedNotDurable, NotPersisted, RenameIndex, diskVars

LEMMA RepairUnseen ==
    ASSUME IInv, NEW s \in Stores, NEW op \in Ops, repairToolFunctionDurability(s, op)
    PROVE  Unseen
  <1>1. /\ disk \in [index: Index, fence: 0..MaxEpoch] /\ Cached(mem[s], generation[s], disk.index)
        /\ TypeOK /\ HolderInv /\ SelectionInv
    BY DEF IInv, TypeOK, CacheInv
  <1>2. Holds(s, op, "repair") /\ acked' = acked
    BY DEF repairToolFunctionDurability
  <1>3. ~Moved(s)
    BY <1>1, <1>2, HoldsFacts DEF Steps
  <1>4. CASE disk' = disk
    BY <1>2, <1>4 DEF Unseen, SameFunctions
  <1>5. CASE disk' = [disk EXCEPT !.index = mem[s]]
    <2>1. disk'.index = mem[s] /\ generation[s] = disk.index
      BY <1>1, <1>3, <1>5 DEF Moved
    <2>2. QED
      BY <1>1, <1>2, <2>1 DEF Unseen, SameFunctions, Cached
  <1>6. QED
    BY <1>4, <1>5 DEF repairToolFunctionDurability, Persisted, PersistedNotDurable,
                      NotPersisted, RenameIndex, diskVars

(* The closing persist registers the operation or changes nothing. *)
LEMMA CommitStep ==
    ASSUME IInv, IInv', NEW s \in Stores, NEW op \in Ops, Holds(s, op, "decide"),
           mem[s].receipt[op.req] = NoReceipt,
           NEW idx, idx.receipt = [mem[s].receipt EXCEPT ![op.req] = op.basis],
           Commit(s, op, idx)
    PROVE  Registry!Register(op) \/ Unseen
  <1>1. disk \in [index: Index, fence: 0..MaxEpoch] /\ SameFunctions(disk.index, mem[s])
    BY DecideFacts DEF IInv, TypeOK
  <1>2. CASE disk' = disk /\ acked' = acked
    BY <1>2 DEF Unseen, SameFunctions
  <1>3. CASE disk' = [disk EXCEPT !.index = idx] /\ acked' \in {acked, acked \cup {op}}
    <2>1. disk'.index = idx
      BY <1>1, <1>3
    <2>2. /\ disk.index.receipt[op.req] = NoReceipt
          /\ disk'.index.receipt = [disk.index.receipt EXCEPT ![op.req] = op.basis]
      BY <1>1, <2>1 DEF SameFunctions
    <2>3. QED
      BY <1>3, <2>2, CommitRefines
  <1>4. QED
    BY <1>2, <1>3 DEF Commit, Persisted, PersistedNotDurable, NotPersisted, RenameIndex, diskVars

LEMMA RegisterStep ==
    ASSUME IInv, IInv', NEW s \in Stores, NEW op \in Ops, RegisterToolFunctionAtomic(s, op)
    PROVE  Registry!Register(op) \/ Unseen
  <1>1. Holds(s, op, "decide") /\ mem[s].receipt[op.req] = NoReceipt
    BY DEF RegisterToolFunctionAtomic
  <1>2. mem[s] \in Index
    BY DEF IInv, TypeOK
  <1>3. CASE Commit(s, op, WithFunction(mem[s], op))
    <2>1. WithFunction(mem[s], op).receipt = [mem[s].receipt EXCEPT ![op.req] = op.basis]
      BY <1>2 DEF WithFunction, WithReceipt, Index
    <2>2. QED
      BY <1>1, <1>3, <2>1, CommitStep
  <1>4. CASE Commit(s, op, WithReceipt(mem[s], op))
    <2>1. WithReceipt(mem[s], op).receipt = [mem[s].receipt EXCEPT ![op.req] = op.basis]
      BY <1>2 DEF WithReceipt, Index
    <2>2. QED
      BY <1>1, <1>4, <2>1, CommitStep
  <1>5. CASE UNCHANGED <<storeVars, diskVars, acked, faults, losses>>
    BY <1>5 DEF diskVars, Unseen, SameFunctions
  <1>6. QED
    BY <1>3, <1>4, <1>5 DEF RegisterToolFunctionAtomic

LEMMA ResolveStep ==
    ASSUME IInv, NEW s \in Stores, NEW op \in Ops, resolveToolFunctionRequest(s, op)
    PROVE  Registry!Answer(op) \/ Unseen
  <1>1. Holds(s, op, "decide") /\ disk' = disk
    BY DEF resolveToolFunctionRequest, diskVars
  <1>2. SameFunctions(disk.index, mem[s])
    BY <1>1, DecideFacts
  <1>3. CASE Registered(mem[s], op) /\ acked' = acked \cup {op}
    <2>1. Registered(disk.index, op)
      BY <1>2, <1>3 DEF Registered, SameFunctions
    <2>2. QED
      BY <1>1, <1>3, <2>1, AnswerRefines
  <1>4. CASE acked' = acked
    BY <1>1, <1>4 DEF Unseen, SameFunctions
  <1>5. QED
    BY <1>3, <1>4 DEF resolveToolFunctionRequest, Registered

(* Claims move the fence, not the index. *)
LEMMA ClaimsUnseen ==
    ASSUME IInv, NEW s \in Stores, NEW op \in Ops, ClaimEpoch(s, op) \/ ClaimFails(s, op)
    PROVE  Unseen
  <1>1. disk \in [index: Index, fence: 0..MaxEpoch] /\ acked' = acked
    BY DEF IInv, TypeOK, ClaimEpoch, ClaimFails
  <1>2. disk' = disk \/ disk' = [disk EXCEPT !.fence = @ + 1]
    BY DEF ClaimEpoch, ClaimFails
  <1>3. disk'.index = disk.index
    BY <1>1, <1>2
  <1>4. QED
    BY <1>1, <1>3 DEF Unseen, SameFunctions

(* Every step of the processes and the directory is a step of the registry, *)
(* or none that its callers see.                                            *)
LEMMA StepRefines ==
    ASSUME IInv, IInv', [Next]_vars
    PROVE  [Registry!Next]_<<Ledger, acked>>
  <1>0. Ops = Registry!Operations
    BY DEF Ops, Registry!Operations
  <1>1. ASSUME NEW s \in Registrars, NEW op \in Ops, Register(s, op)
        PROVE  Registry!Register(op) \/ Registry!Answer(op) \/ Unseen
    <2>1. s \in Stores
      BY RegistrarsAssumption
    <2>2. CASE \/ checkCanonicalizationSelection(s, op) \/ lockToolFunctionWriter(s, op)
               \/ VerifyEpoch(s, op)
      BY <2>2 DEF checkCanonicalizationSelection, lockToolFunctionWriter, VerifyEpoch,
                  diskVars, Unseen, SameFunctions
    <2>3. QED
      BY <1>1, <2>1, <2>2, ClaimsUnseen, RepairUnseen, ResolveStep, RegisterStep DEF Register
  <1>2. ASSUME NEW s \in Stores, StoreWrites(s)
        PROVE  Unseen
    <2>1. mem[s] \in Index
      BY DEF IInv, TypeOK
    <2>2. ASSUME NEW e \in Entries, AppendEntry(s, e)
          PROVE  Unseen
      <3>1. SameFunctions([mem[s] EXCEPT !.entries = @ \cup {e}], mem[s])
        BY <2>1 DEF SameFunctions, Index
      <3>2. QED
        BY <2>2, <3>1, SaveUnseen DEF AppendEntry
    <2>3. ASSUME NEW i \in Images, AppendToolImageRecord(s, i)
          PROVE  Unseen
      <3>1. SameFunctions([mem[s] EXCEPT !.images = @ \cup {i}], mem[s])
        BY <2>1 DEF SameFunctions, Index
      <3>2. QED
        BY <2>3, <3>1, SaveUnseen DEF AppendToolImageRecord
    <2>4. CASE Reload(s) \/ Restart(s)
      BY <2>4 DEF Reload, Restart, diskVars, Unseen, SameFunctions
    <2>5. QED
      BY <1>2, <2>2, <2>3, <2>4 DEF StoreWrites
  <1>3. CASE WriteBack \/ UNCHANGED vars
    <2>1. Unseen
      BY <1>3 DEF WriteBack, vars, diskVars, Unseen, SameFunctions
    <2>2. QED
      BY <2>1, UnseenStutters
  <1>4. CASE PowerLoss
    BY <1>4, PowerLossRefines DEF Registry!Next
  <1>5. QED
    BY <1>0, <1>1, <1>2, <1>3, <1>4, UnseenStutters DEF Next, Registry!Next

(* The processes, their caches, the fence and the directory implement the   *)
(* registry that RegisterToolFunction promises.                             *)
THEOREM ImplementsRegistry == Spec => RegistrySpec
  <1>1. Init => Registry!Init
    BY InitRefines
  <1>2. IInv /\ IInv' /\ [Next]_vars => [Registry!Next]_<<Ledger, acked>>
    BY StepRefines
  <1>3. QED
    BY <1>1, <1>2, Invariance, PTL DEF Spec, RegistrySpec, Registry!Spec

-----------------------------------------------------------------------------
(* Canonical maps *)

Field(map, key) == {p \in map : p[1] = key}

Keyed(map, key) == \A p \in map : p[1] = key

(* What is put can be read back. *)
Pair(key, value) == {<<key, value>>}

LEMMA PairIsInjective ==
    ASSUME NEW key, NEW a, NEW b, Pair(key, a) = Pair(key, b)
    PROVE  a = b
  <1>1. <<key, a>> = <<key, b>>
    BY DEF Pair
  <1>2. QED
    BY <1>1

LEMMA PairIsNotEmpty ==
    ASSUME NEW key, NEW a
    PROVE  Pair(key, a) # {}
  BY DEF Pair

LEMMA PairIsKeyed ==
    ASSUME NEW key, NEW a
    PROVE  Keyed(Pair(key, a), key)
  BY DEF Pair, Keyed

LEMMA PutStrIsPair ==
    ASSUME NEW key, NEW a
    PROVE  putStr(key, a) = IF a = "" THEN {} ELSE Pair(key, a)
  BY DEF putStr, Pair

LEMMA PutIntIsPair ==
    ASSUME NEW key, NEW a
    PROVE  putInt(key, a) = IF a = 0 THEN {} ELSE Pair(key, a)
  BY DEF putInt, Pair

LEMMA PutListIsPair ==
    ASSUME NEW key, NEW a
    PROVE  putList(key, a) = IF a = <<>> THEN {} ELSE Pair(key, a)
  BY DEF putList, Pair

LEMMA PutIsKeyed ==
    ASSUME NEW key
    PROVE  /\ \A value : Keyed(putStr(key, value), key)
           /\ \A value : Keyed(putInt(key, value), key)
           /\ \A value : Keyed(putList(key, value), key)
           /\ \A value \in BOOLEAN : Keyed(putBool(key, value), key)
           /\ \A ver, list : Keyed(putSet(ver, key, list), key)
           /\ \A present \in BOOLEAN : \A map : Keyed(putMsg(key, present, map), key)
  <1>1. \A value : Keyed(putStr(key, value), key)
    BY PairIsKeyed, PutStrIsPair DEF Keyed
  <1>2. \A value : Keyed(putInt(key, value), key)
    BY PairIsKeyed, PutIntIsPair DEF Keyed
  <1>3. \A value : Keyed(putList(key, value), key)
    BY PairIsKeyed, PutListIsPair DEF Keyed
  <1>4. \A value \in BOOLEAN : Keyed(putBool(key, value), key)
    BY DEF putBool, Keyed
  <1>5. \A ver, list : Keyed(putSet(ver, key, list), key)
    BY <1>3 DEF putSet
  <1>6. \A present \in BOOLEAN : \A map : Keyed(putMsg(key, present, map), key)
    BY DEF putMsg, Keyed
  <1>7. QED
    BY <1>1, <1>2, <1>3, <1>4, <1>5, <1>6

LEMMA PutIsInjective ==
    ASSUME NEW key, NEW a, NEW b
    PROVE  /\ putStr(key, a) = putStr(key, b) <=> a = b
           /\ putInt(key, a) = putInt(key, b) <=> a = b
           /\ putList(key, a) = putList(key, b) <=> a = b
  <1>1. putStr(key, a) = putStr(key, b) <=> a = b
    BY PutStrIsPair, PairIsInjective, PairIsNotEmpty
  <1>2. putInt(key, a) = putInt(key, b) <=> a = b
    BY PutIntIsPair, PairIsInjective, PairIsNotEmpty
  <1>3. putList(key, a) = putList(key, b) <=> a = b
    BY PutListIsPair, PairIsInjective, PairIsNotEmpty
  <1>4. QED
    BY <1>1, <1>2, <1>3

LEMMA PutBoolIsInjective ==
    ASSUME NEW key, NEW a \in BOOLEAN, NEW b \in BOOLEAN
    PROVE  putBool(key, a) = putBool(key, b) <=> a = b
  BY DEF putBool

LEMMA PutMsgIsInjective ==
    ASSUME NEW key, NEW a \in BOOLEAN, NEW b \in BOOLEAN, NEW m, NEW n
    PROVE  putMsg(key, a, m) = putMsg(key, b, n) <=> a = b /\ (a => m = n)
  <1>1. CASE a /\ b
    <2>1. putMsg(key, a, m) = Pair(key, m) /\ putMsg(key, b, n) = Pair(key, n)
      BY <1>1 DEF putMsg, Pair
    <2>2. QED
      BY <1>1, <2>1, PairIsInjective
  <1>2. CASE ~(a /\ b)
    BY <1>2 DEF putMsg
  <1>3. QED
    BY <1>1, <1>2

(* The fields of a map with distinct keys. *)
LEMMA TwoFields ==
    ASSUME NEW A, NEW B, NEW a, NEW b,
           Keyed(A, a), Keyed(B, b),
           a # b
    PROVE  LET map == A \cup B
           IN  Field(map, a) = A /\ Field(map, b) = B
  BY DEF Field, Keyed

LEMMA ThreeFields ==
    ASSUME NEW A, NEW B, NEW C, NEW a, NEW b, NEW c,
           Keyed(A, a), Keyed(B, b), Keyed(C, c),
           a \notin {b, c}, b # c
    PROVE  LET map == A \cup B \cup C
           IN  Field(map, a) = A /\ Field(map, b) = B /\ Field(map, c) = C
  BY DEF Field, Keyed

LEMMA FourFields ==
    ASSUME NEW A, NEW B, NEW C, NEW D, NEW a, NEW b, NEW c, NEW d,
           Keyed(A, a), Keyed(B, b), Keyed(C, c), Keyed(D, d),
           a \notin {b, c, d}, b \notin {c, d}, c # d
    PROVE  LET map == A \cup B \cup C \cup D
           IN  Field(map, a) = A /\ Field(map, b) = B /\ Field(map, c) = C /\ Field(map, d) = D
  BY DEF Field, Keyed

LEMMA FiveFields ==
    ASSUME NEW A, NEW B, NEW C, NEW D, NEW E, NEW a, NEW b, NEW c, NEW d, NEW e,
           Keyed(A, a), Keyed(B, b), Keyed(C, c), Keyed(D, d), Keyed(E, e),
           a \notin {b, c, d, e}, b \notin {c, d, e}, c \notin {d, e}, d # e
    PROVE  LET map == A \cup B \cup C \cup D \cup E
           IN  Field(map, a) = A /\ Field(map, b) = B /\ Field(map, c) = C /\ Field(map, d) = D /\ Field(map, e) = E
  BY DEF Field, Keyed

-----------------------------------------------------------------------------
(* Lists that are sets *)

LEMMA InjectiveMeans == \A f : IsInjective(f) <=> \A a, b \in DOMAIN f : f[a] = f[b] => a = b
  BY DEF IsInjective

LEMMA SetToSeqOf ==
    ASSUME NEW S, IsFiniteSet(S)
    PROVE  ToSet(SetToSeq(S)) = S
  <1> DEFINE n == Cardinality(S)
  <1>1. n \in Nat /\ ExistsBijection(1..n, S)
    BY FS_CardinalityType
  <1>2. PICK f \in [1..n -> S] : \A a, b \in 1..n : f[a] = f[b] => a = b
    BY <1>1 DEF ExistsBijection, Bijection, Injection, IsInjective
  <1>3. n = Cardinality(S)
    OBVIOUS
  <1> HIDE DEF n
  <1>4. IsInjective(f)
    BY <1>2, InjectiveMeans
  <1> DEFINE g == SetToSeq(S)
  <1>5. g \in [1..n -> S] /\ IsInjective(g)
    BY <1>2, <1>3, <1>4 DEF SetToSeq
  <1> HIDE DEF g
  <1>6. g \in Injection(1..n, S)
    BY <1>5, InjectiveMeans DEF Injection, IsInjective
  <1>7. IsFiniteSet(1..n) /\ Cardinality(1..n) = n
    <2>1. IsFiniteSet(1..n) /\ Cardinality(1..n) = IF 1 > n THEN 0 ELSE n - 1 + 1
      BY <1>1, FS_Interval
    <2>2. QED
      BY <1>1, <2>1
  <1>8. g \in Surjection(1..n, S)
    BY <1>6, <1>7, FS_Injection DEF n
  <1>9. QED
    BY <1>5, <1>8 DEF ToSet, g, Surjection

LEMMA SetToSeqIsInjective ==
    ASSUME NEW S, NEW T, IsFiniteSet(S), IsFiniteSet(T)
    PROVE  SetToSeq(S) = SetToSeq(T) <=> S = T
  BY SetToSeqOf

LEMMA ElementsAreFinite ==
    ASSUME NEW list, NEW n \in Nat, DOMAIN list = 1..n, list = [i \in 1..n |-> list[i]]
    PROVE  IsFiniteSet(ToSet(list))
  <1>1. IsFiniteSet(1..n)
    BY FS_Interval
  <1>2. list \in Surjection(1..n, ToSet(list))
    BY DEF ToSet, Surjection
  <1>3. QED
    BY <1>1, <1>2, FS_Surjection

(* A list: a function on the numbers up to some n. *)
IsList(list) == \E n \in Nat : list = [i \in 1..n |-> list[i]]

LEMMA PutSetIsInjective ==
    ASSUME NEW key, NEW ver, NEW a, NEW b, IsList(a), IsList(b),
           ver # LegacyOrderV0 => IsInjective(a) /\ IsInjective(b)
    PROVE  putSet(ver, key, a) = putSet(ver, key, b) <=> Unordered(ver, a) = Unordered(ver, b)
  <1>1. putSet(ver, key, a) = putSet(ver, key, b)
          <=> sortCanonicalSet(ver, a) = sortCanonicalSet(ver, b)
    BY PutIsInjective DEF putSet
  <1>2. CASE ver = LegacyOrderV0
    BY <1>1, <1>2 DEF sortCanonicalSet, Unordered
  <1>3. CASE ver # LegacyOrderV0
    <2>1. IsFiniteSet(ToSet(a)) /\ IsFiniteSet(ToSet(b))
      BY ElementsAreFinite DEF IsList
    <2>2. sortCanonicalSet(ver, a) = SetToSeq(ToSet(a))
      BY <1>3 DEF sortCanonicalSet
    <2>3. sortCanonicalSet(ver, b) = SetToSeq(ToSet(b))
      BY <1>3 DEF sortCanonicalSet
    <2>4. QED
      BY <1>1, <1>3, <2>1, <2>2, <2>3, SetToSeqIsInjective DEF Unordered
  <1>4. QED
    BY <1>2, <1>3

LEMMA SameSets ==
    ASSUME NEW a, NEW b, NEW c, NEW d, DOMAIN a = DOMAIN c, DOMAIN b = DOMAIN d,
           \A i \in DOMAIN a, j \in DOMAIN b : a[i] = b[j] <=> c[i] = d[j],
           ToSet(a) = ToSet(b)
    PROVE  ToSet(c) = ToSet(d)
  <1>1. \A i \in DOMAIN a : \E j \in DOMAIN b : a[i] = b[j]
    BY DEF ToSet
  <1>2. \A j \in DOMAIN b : \E i \in DOMAIN a : a[i] = b[j]
    BY DEF ToSet
  <1>3. \A i \in DOMAIN c : \E j \in DOMAIN d : c[i] = d[j]
    BY <1>1
  <1>4. \A j \in DOMAIN d : \E i \in DOMAIN c : c[i] = d[j]
    BY <1>2
  <1>5. QED
    BY <1>3, <1>4 DEF ToSet

(* Lists whose elements are equal at the same places. *)
LEMMA SameElements ==
    ASSUME NEW ver, NEW a, NEW b, NEW c, NEW d, IsList(a), IsList(b), IsList(c), IsList(d),
           DOMAIN a = DOMAIN c, DOMAIN b = DOMAIN d,
           \A i \in DOMAIN a, j \in DOMAIN b : a[i] = b[j] <=> c[i] = d[j]
    PROVE  Unordered(ver, a) = Unordered(ver, b) <=> Unordered(ver, c) = Unordered(ver, d)
  <1>1. CASE ver = LegacyOrderV0
    <2>1. a = b <=> c = d
      BY DEF IsList
    <2>2. QED
      BY <1>1, <2>1 DEF Unordered
  <1>2. CASE ver # LegacyOrderV0
    <2>1. ToSet(a) = ToSet(b) <=> ToSet(c) = ToSet(d)
      BY SameSets
    <2>2. QED
      BY <1>2, <2>1 DEF Unordered
  <1>3. QED
    BY <1>1, <1>2
-----------------------------------------------------------------------------
(* The canonical form of the messages in a list *)

LEMMA VariableFields ==
    ASSUME NEW v \in Variable
    PROVE  /\ Field(canonicalVariable(v), "name") = putStr("name", v.name)
           /\ Field(canonicalVariable(v), "source") = putStr("source", v.source)
  <1>1. /\ Keyed(putStr("name", v.name), "name")
        /\ Keyed(putStr("source", v.source), "source")
    BY PutIsKeyed
  <1>2. QED
    BY <1>1, TwoFields DEF canonicalVariable

LEMMA VariableIsInjective ==
    ASSUME NEW v \in Variable, NEW w \in Variable, canonicalVariable(v) = canonicalVariable(w)
    PROVE  v = w
  <1>1. v.name = w.name /\ v.source = w.source
    BY VariableFields, PutIsInjective
  <1>2. QED
    BY <1>1 DEF Variable

LEMMA ParameterFields ==
    ASSUME NEW v \in Parameter
    PROVE  /\ Field(canonicalParameter(v), "name") = putStr("name", v.name)
           /\ Field(canonicalParameter(v), "type") = putInt("type", v.type)
           /\ Field(canonicalParameter(v), "default_value") = putStr("default_value", v.default)
  <1>1. /\ Keyed(putStr("name", v.name), "name")
        /\ Keyed(putInt("type", v.type), "type")
        /\ Keyed(putStr("default_value", v.default), "default_value")
    BY PutIsKeyed
  <1>2. QED
    BY <1>1, ThreeFields DEF canonicalParameter

LEMMA ParameterIsInjective ==
    ASSUME NEW v \in Parameter, NEW w \in Parameter, canonicalParameter(v) = canonicalParameter(w)
    PROVE  v = w
  <1>1. v.name = w.name /\ v.type = w.type /\ v.default = w.default
    BY ParameterFields, PutIsInjective
  <1>2. QED
    BY <1>1 DEF Parameter

LEMMA IntermediateFields ==
    ASSUME NEW v \in Intermediate
    PROVE  /\ Field(canonicalIntermediatePolicy(v), "path_or_pattern") = putStr("path_or_pattern", v.pattern)
           /\ Field(canonicalIntermediatePolicy(v), "policy") = putInt("policy", v.policy)
  <1>1. /\ Keyed(putStr("path_or_pattern", v.pattern), "path_or_pattern")
        /\ Keyed(putInt("policy", v.policy), "policy")
    BY PutIsKeyed
  <1>2. QED
    BY <1>1, TwoFields DEF canonicalIntermediatePolicy

LEMMA IntermediateIsInjective ==
    ASSUME NEW v \in Intermediate, NEW w \in Intermediate, canonicalIntermediatePolicy(v) = canonicalIntermediatePolicy(w)
    PROVE  v = w
  <1>1. v.pattern = w.pattern /\ v.policy = w.policy
    BY IntermediateFields, PutIsInjective
  <1>2. QED
    BY <1>1 DEF Intermediate

LEMMA PortFields ==
    ASSUME NEW ver, NEW v \in Port
    PROVE  /\ Field(canonicalPort(ver, v), "name") = putStr("name", v.name)
           /\ Field(canonicalPort(ver, v), "cardinality") = putInt("cardinality", v.cardinality)
           /\ Field(canonicalPort(ver, v), "required") = putBool("required", v.required)
           /\ Field(canonicalPort(ver, v), "companion_files") = putSet(ver, "companion_files", v.companion_files)
  <1>1. v.required \in BOOLEAN
    BY DEF Port
  <1>2. /\ Keyed(putStr("name", v.name), "name")
        /\ Keyed(putInt("cardinality", v.cardinality), "cardinality")
        /\ Keyed(putBool("required", v.required), "required")
        /\ Keyed(putSet(ver, "companion_files", v.companion_files), "companion_files")
    BY <1>1, PutIsKeyed
  <1>3. QED
    BY <1>2, FourFields DEF canonicalPort

LEMMA SequenceIsList ==
    ASSUME NEW T, NEW s \in Seq(T)
    PROVE  IsList(s)
  <1>1. s = [i \in 1..Len(s) |-> s[i]] /\ Len(s) \in Nat
    OBVIOUS
  <1>2. QED
    BY <1>1 DEF IsList

LEMMA PortIsCanonical ==
    ASSUME NEW ver, NEW v \in Port, NEW w \in Port,
           ver # LegacyOrderV0 => IsInjective(v.companion_files) /\ IsInjective(w.companion_files)
    PROVE  canonicalPort(ver, v) = canonicalPort(ver, w)
             <=> DeclaredPort(ver, v) = DeclaredPort(ver, w)
  <1> DEFINE same == /\ v.name = w.name /\ v.cardinality = w.cardinality /\ v.required = w.required
                     /\ Unordered(ver, v.companion_files) = Unordered(ver, w.companion_files)
  <1>1. IsList(v.companion_files) /\ IsList(w.companion_files)
    BY SequenceIsList DEF Port
  <1>2. putSet(ver, "companion_files", v.companion_files) = putSet(ver, "companion_files", w.companion_files)
          <=> Unordered(ver, v.companion_files) = Unordered(ver, w.companion_files)
    BY <1>1, PutSetIsInjective
  <1>3. v.required \in BOOLEAN /\ w.required \in BOOLEAN
    BY DEF Port
  <1>4. canonicalPort(ver, v) = canonicalPort(ver, w) => same
    BY <1>2, <1>3, PortFields, PutIsInjective, PutBoolIsInjective
  <1>5. same => canonicalPort(ver, v) = canonicalPort(ver, w)
    BY <1>2 DEF canonicalPort
  <1>6. DeclaredPort(ver, v) = DeclaredPort(ver, w) <=> same
    BY DEF DeclaredPort, Port
  <1>7. QED
    BY <1>4, <1>5, <1>6
-----------------------------------------------------------------------------
(* The canonical form of the lists *)

LEMMA MappedList ==
    ASSUME NEW key, NEW ver, NEW a, NEW b, NEW c, NEW d, IsList(a), IsList(b), IsList(c), IsList(d),
           DOMAIN a = DOMAIN c, DOMAIN b = DOMAIN d,
           \A i \in DOMAIN a, j \in DOMAIN b : a[i] = b[j] <=> c[i] = d[j],
           ver # LegacyOrderV0 => IsInjective(a) /\ IsInjective(b)
    PROVE  putSet(ver, key, a) = putSet(ver, key, b) <=> Unordered(ver, c) = Unordered(ver, d)
  <1>1. putSet(ver, key, a) = putSet(ver, key, b) <=> Unordered(ver, a) = Unordered(ver, b)
    BY PutSetIsInjective
  <1>2. Unordered(ver, a) = Unordered(ver, b) <=> Unordered(ver, c) = Unordered(ver, d)
    BY SameElements
  <1>3. QED
    BY <1>1, <1>2

LEMMA MapIsList ==
    ASSUME NEW T, NEW s \in Seq(T), NEW f, f = [i \in DOMAIN s |-> f[i]]
    PROVE  IsList(f) /\ DOMAIN f = DOMAIN s
  <1>1. DOMAIN s = 1..Len(s) /\ Len(s) \in Nat
    OBVIOUS
  <1>2. DOMAIN f = DOMAIN s
    OBVIOUS
  <1>3. QED
    BY <1>1, <1>2 DEF IsList

(* A list of unique names has no element twice. *)
LEMMA UniqueNames ==
    ASSUME NEW T, NEW s \in Seq(T), checkUniqueNames(s), NEW i \in DOMAIN s, NEW j \in DOMAIN s,
           s[i].name = s[j].name
    PROVE  i = j
  <1> DEFINE n == Len(s)
             f == [k \in 1..n |-> s[k].name]
  <1>1. n \in Nat /\ DOMAIN s = 1..n
    OBVIOUS
  <1>2. f \in Surjection(1..n, Names(s))
    BY <1>1 DEF Names, Surjection
  <1>3. IsFiniteSet(1..n) /\ Cardinality(1..n) = n
    <2>1. IsFiniteSet(1..n) /\ Cardinality(1..n) = IF 1 > n THEN 0 ELSE n - 1 + 1
      BY <1>1, FS_Interval
    <2>2. QED
      BY <1>1, <2>1
  <1>4. Cardinality(Names(s)) = n
    BY DEF checkUniqueNames
  <1> HIDE DEF n
  <1>5. f[i] = f[j]
    BY <1>1
  <1> HIDE DEF f
  <1>6. f \in Injection(1..n, Names(s))
    BY <1>2, <1>3, <1>4, FS_Surjection
  <1>7. QED
    BY <1>1, <1>5, <1>6 DEF Injection, IsInjective

(* Lists of messages that are told apart by all they hold. *)
LEMMA VariablesAreCanonical ==
    ASSUME NEW ver, NEW a \in Seq(Variable), NEW b \in Seq(Variable), NEW key,
           ver # LegacyOrderV0 => IsInjective(a) /\ IsInjective(b)
    PROVE  putSet(ver, key, [i \in DOMAIN a |-> canonicalVariable(a[i])]) = putSet(ver, key, [i \in DOMAIN b |-> canonicalVariable(b[i])])
             <=> Unordered(ver, a) = Unordered(ver, b)
  <1> DEFINE c == [i \in DOMAIN a |-> canonicalVariable(a[i])]
             d == [i \in DOMAIN b |-> canonicalVariable(b[i])]
  <1>1. IsList(a) /\ IsList(b) /\ IsList(c) /\ IsList(d) /\ DOMAIN c = DOMAIN a /\ DOMAIN d = DOMAIN b
    BY SequenceIsList, MapIsList
  <1>2. \A i \in DOMAIN a, j \in DOMAIN b : c[i] = d[j] <=> a[i] = b[j]
    BY VariableIsInjective
  <1>3. \A i, j \in DOMAIN a : c[i] = c[j] => a[i] = a[j]
    BY VariableIsInjective
  <1>4. \A i, j \in DOMAIN b : d[i] = d[j] => b[i] = b[j]
    BY VariableIsInjective
  <1> HIDE DEF c, d
  <1>5. ver # LegacyOrderV0 => IsInjective(c) /\ IsInjective(d)
    BY <1>1, <1>3, <1>4, InjectiveMeans
  <1>6. putSet(ver, key, c) = putSet(ver, key, d) <=> Unordered(ver, a) = Unordered(ver, b)
    BY <1>1, <1>2, <1>5, MappedList
  <1>7. QED
    BY <1>6 DEF c, d


LEMMA ParametersAreCanonical ==
    ASSUME NEW ver, NEW a \in Seq(Parameter), NEW b \in Seq(Parameter), NEW key,
           ver # LegacyOrderV0 => IsInjective(a) /\ IsInjective(b)
    PROVE  putSet(ver, key, canonicalParameters(a)) = putSet(ver, key, canonicalParameters(b))
             <=> Unordered(ver, a) = Unordered(ver, b)
  <1> DEFINE c == [i \in DOMAIN a |-> canonicalParameter(a[i])]
             d == [i \in DOMAIN b |-> canonicalParameter(b[i])]
  <1>1. IsList(a) /\ IsList(b) /\ IsList(c) /\ IsList(d) /\ DOMAIN c = DOMAIN a /\ DOMAIN d = DOMAIN b
    BY SequenceIsList, MapIsList
  <1>2. \A i \in DOMAIN a, j \in DOMAIN b : c[i] = d[j] <=> a[i] = b[j]
    BY ParameterIsInjective
  <1>3. \A i, j \in DOMAIN a : c[i] = c[j] => a[i] = a[j]
    BY ParameterIsInjective
  <1>4. \A i, j \in DOMAIN b : d[i] = d[j] => b[i] = b[j]
    BY ParameterIsInjective
  <1> HIDE DEF c, d
  <1>5. ver # LegacyOrderV0 => IsInjective(c) /\ IsInjective(d)
    BY <1>1, <1>3, <1>4, InjectiveMeans
  <1>6. putSet(ver, key, c) = putSet(ver, key, d) <=> Unordered(ver, a) = Unordered(ver, b)
    BY <1>1, <1>2, <1>5, MappedList
  <1>7. QED
    BY <1>6 DEF c, d, canonicalParameters


LEMMA IntermediatesAreCanonical ==
    ASSUME NEW ver, NEW a \in Seq(Intermediate), NEW b \in Seq(Intermediate), NEW key,
           ver # LegacyOrderV0 => IsInjective(a) /\ IsInjective(b)
    PROVE  putSet(ver, key, canonicalIntermediatePolicies(a)) = putSet(ver, key, canonicalIntermediatePolicies(b))
             <=> Unordered(ver, a) = Unordered(ver, b)
  <1> DEFINE c == [i \in DOMAIN a |-> canonicalIntermediatePolicy(a[i])]
             d == [i \in DOMAIN b |-> canonicalIntermediatePolicy(b[i])]
  <1>1. IsList(a) /\ IsList(b) /\ IsList(c) /\ IsList(d) /\ DOMAIN c = DOMAIN a /\ DOMAIN d = DOMAIN b
    BY SequenceIsList, MapIsList
  <1>2. \A i \in DOMAIN a, j \in DOMAIN b : c[i] = d[j] <=> a[i] = b[j]
    BY IntermediateIsInjective
  <1>3. \A i, j \in DOMAIN a : c[i] = c[j] => a[i] = a[j]
    BY IntermediateIsInjective
  <1>4. \A i, j \in DOMAIN b : d[i] = d[j] => b[i] = b[j]
    BY IntermediateIsInjective
  <1> HIDE DEF c, d
  <1>5. ver # LegacyOrderV0 => IsInjective(c) /\ IsInjective(d)
    BY <1>1, <1>3, <1>4, InjectiveMeans
  <1>6. putSet(ver, key, c) = putSet(ver, key, d) <=> Unordered(ver, a) = Unordered(ver, b)
    BY <1>1, <1>2, <1>5, MappedList
  <1>7. QED
    BY <1>6 DEF c, d, canonicalIntermediatePolicies

(* Ports are told apart by what they hold but the order of their companion *)
(* files.                                                                  *)
LEMMA PortsAreCanonical ==
    ASSUME NEW ver, NEW a \in Seq(Port), NEW b \in Seq(Port), NEW key,
           checkUniqueNames(a), checkUniqueNames(b),
           \A i \in DOMAIN a : ver # LegacyOrderV0 => IsInjective(a[i].companion_files),
           \A i \in DOMAIN b : ver # LegacyOrderV0 => IsInjective(b[i].companion_files)
    PROVE  putSet(ver, key, canonicalPorts(ver, a)) = putSet(ver, key, canonicalPorts(ver, b))
             <=> DeclaredPorts(ver, a) = DeclaredPorts(ver, b)
  <1> DEFINE c == canonicalPorts(ver, a)
             d == canonicalPorts(ver, b)
             m == [i \in DOMAIN a |-> DeclaredPort(ver, a[i])]
             n == [i \in DOMAIN b |-> DeclaredPort(ver, b[i])]
  <1>1. IsList(c) /\ IsList(d) /\ DOMAIN c = DOMAIN a /\ DOMAIN d = DOMAIN b
    BY MapIsList DEF canonicalPorts
  <1>2. IsList(m) /\ IsList(n) /\ DOMAIN m = DOMAIN a /\ DOMAIN n = DOMAIN b
    BY MapIsList
  <1>3. \A i \in DOMAIN a, j \in DOMAIN b : c[i] = d[j] <=> m[i] = n[j]
    BY PortIsCanonical DEF canonicalPorts
  <1>4. \A i, j \in DOMAIN a : c[i] = c[j] => i = j
    <2>1. SUFFICES ASSUME NEW i \in DOMAIN a, NEW j \in DOMAIN a, c[i] = c[j] PROVE a[i].name = a[j].name
      BY UniqueNames
    <2>2. canonicalPort(ver, a[i]) = canonicalPort(ver, a[j])
      BY <2>1 DEF canonicalPorts
    <2>3. putStr("name", a[i].name) = putStr("name", a[j].name)
      BY <2>2, PortFields
    <2>4. QED
      BY <2>3, PutIsInjective
  <1>5. \A i, j \in DOMAIN b : d[i] = d[j] => i = j
    <2>1. SUFFICES ASSUME NEW i \in DOMAIN b, NEW j \in DOMAIN b, d[i] = d[j] PROVE b[i].name = b[j].name
      BY UniqueNames
    <2>2. canonicalPort(ver, b[i]) = canonicalPort(ver, b[j])
      BY <2>1 DEF canonicalPorts
    <2>3. putStr("name", b[i].name) = putStr("name", b[j].name)
      BY <2>2, PortFields
    <2>4. QED
      BY <2>3, PutIsInjective
  <1>6. DeclaredPorts(ver, a) = Unordered(ver, m) /\ DeclaredPorts(ver, b) = Unordered(ver, n)
    BY DEF DeclaredPorts
  <1> HIDE DEF c, d, m, n
  <1>7. IsInjective(c) /\ IsInjective(d)
    BY <1>1, <1>4, <1>5, InjectiveMeans
  <1>8. putSet(ver, key, c) = putSet(ver, key, d) <=> Unordered(ver, m) = Unordered(ver, n)
    BY <1>1, <1>2, <1>3, <1>7, MappedList
  <1>9. QED
    BY <1>6, <1>8 DEF c, d
-----------------------------------------------------------------------------
(* The canonical form of a spec *)

LEMMA CommandFields ==
    ASSUME NEW ver, NEW c \in Command
    PROVE  /\ Field(canonicalCommand(ver, c), "executable") = putStr("executable", c.executable)
           /\ Field(canonicalCommand(ver, c), "arguments") = putList("arguments", c.arguments)
           /\ Field(canonicalCommand(ver, c), "environment") = putSet(ver, "environment", [i \in DOMAIN c.environment |-> canonicalVariable(c.environment[i])])
           /\ Field(canonicalCommand(ver, c), "success_exit_codes") = putSet(ver, "success_exit_codes", c.success_exit_codes)
           /\ Field(canonicalCommand(ver, c), "timeout_policy") = putMsg("timeout_policy", c.timeout.present, putInt("soft_seconds", c.timeout.soft))
  <1>1. c.timeout.present \in BOOLEAN
    BY DEF Command, Timeout
  <1>2. /\ Keyed(putStr("executable", c.executable), "executable")
        /\ Keyed(putList("arguments", c.arguments), "arguments")
        /\ Keyed(putSet(ver, "environment", [i \in DOMAIN c.environment |-> canonicalVariable(c.environment[i])]), "environment")
        /\ Keyed(putSet(ver, "success_exit_codes", c.success_exit_codes), "success_exit_codes")
        /\ Keyed(putMsg("timeout_policy", c.timeout.present, putInt("soft_seconds", c.timeout.soft)), "timeout_policy")
    BY <1>1, PutIsKeyed
  <1>3. QED
    BY <1>2, FiveFields DEF canonicalCommand

LEMMA TimeoutIsCanonical ==
    ASSUME NEW t \in Timeout, NEW u \in Timeout, t.present \/ t.soft = 0, u.present \/ u.soft = 0, NEW key
    PROVE  putMsg(key, t.present, putInt("soft_seconds", t.soft))
             = putMsg(key, u.present, putInt("soft_seconds", u.soft)) <=> t = u
  <1>1. t.present \in BOOLEAN /\ u.present \in BOOLEAN
    BY DEF Timeout
  <1>2. putMsg(key, t.present, putInt("soft_seconds", t.soft))
          = putMsg(key, u.present, putInt("soft_seconds", u.soft))
        <=> t.present = u.present
            /\ (t.present => putInt("soft_seconds", t.soft) = putInt("soft_seconds", u.soft))
    BY <1>1, PutMsgIsInjective
  <1>3. putInt("soft_seconds", t.soft) = putInt("soft_seconds", u.soft) <=> t.soft = u.soft
    BY PutIsInjective
  <1>4. t.present = u.present /\ t.soft = u.soft <=> t = u
    BY DEF Timeout
  <1>5. QED
    BY <1>1, <1>2, <1>3, <1>4

LEMMA CommandIsCanonical ==
    ASSUME NEW ver, NEW c \in Command, NEW d \in Command,
           c.timeout.present \/ c.timeout.soft = 0, d.timeout.present \/ d.timeout.soft = 0,
           ver # LegacyOrderV0 =>
               /\ IsInjective(c.environment) /\ IsInjective(c.success_exit_codes)
               /\ IsInjective(d.environment) /\ IsInjective(d.success_exit_codes)
    PROVE  c.present = d.present /\ canonicalCommand(ver, c) = canonicalCommand(ver, d)
             <=> DeclaredCommand(ver, c) = DeclaredCommand(ver, d)
  <1> DEFINE env(x) == [i \in DOMAIN x.environment |-> canonicalVariable(x.environment[i])]
             same == /\ c.executable = d.executable /\ c.arguments = d.arguments
                     /\ Unordered(ver, c.environment) = Unordered(ver, d.environment)
                     /\ Unordered(ver, c.success_exit_codes) = Unordered(ver, d.success_exit_codes)
                     /\ c.timeout = d.timeout
  <1>1. /\ c.environment \in Seq(Variable) /\ c.success_exit_codes \in Seq(Int) /\ c.timeout \in Timeout
        /\ d.environment \in Seq(Variable) /\ d.success_exit_codes \in Seq(Int) /\ d.timeout \in Timeout
    BY DEF Command
  <1>2. putSet(ver, "environment", env(c)) = putSet(ver, "environment", env(d))
          <=> Unordered(ver, c.environment) = Unordered(ver, d.environment)
    BY <1>1, VariablesAreCanonical
  <1>3. putSet(ver, "success_exit_codes", c.success_exit_codes)
          = putSet(ver, "success_exit_codes", d.success_exit_codes)
        <=> Unordered(ver, c.success_exit_codes) = Unordered(ver, d.success_exit_codes)
    BY <1>1, SequenceIsList, PutSetIsInjective
  <1>4. putMsg("timeout_policy", c.timeout.present, putInt("soft_seconds", c.timeout.soft))
          = putMsg("timeout_policy", d.timeout.present, putInt("soft_seconds", d.timeout.soft))
        <=> c.timeout = d.timeout
    BY <1>1, TimeoutIsCanonical
  <1>5. ASSUME canonicalCommand(ver, c) = canonicalCommand(ver, d) PROVE same
    <2>1. /\ putStr("executable", c.executable) = putStr("executable", d.executable)
          /\ putList("arguments", c.arguments) = putList("arguments", d.arguments)
          /\ putSet(ver, "environment", env(c)) = putSet(ver, "environment", env(d))
          /\ putSet(ver, "success_exit_codes", c.success_exit_codes)
               = putSet(ver, "success_exit_codes", d.success_exit_codes)
          /\ putMsg("timeout_policy", c.timeout.present, putInt("soft_seconds", c.timeout.soft))
               = putMsg("timeout_policy", d.timeout.present, putInt("soft_seconds", d.timeout.soft))
      BY <1>5, CommandFields
    <2>2. QED
      BY <1>2, <1>3, <1>4, <2>1, PutIsInjective
  <1>6. ASSUME same PROVE canonicalCommand(ver, c) = canonicalCommand(ver, d)
    BY <1>2, <1>3, <1>4, <1>6 DEF canonicalCommand
  <1>7. DeclaredCommand(ver, c) = DeclaredCommand(ver, d) <=> c.present = d.present /\ same
    BY DEF DeclaredCommand, Command
  <1>8. QED
    BY <1>5, <1>6, <1>7

LEMMA ExecutionFields ==
    ASSUME NEW ver, NEW e \in Execution
    PROVE  /\ Field(canonicalExecEnv(ver, e), "writable_paths") = putSet(ver, "writable_paths", e.writable_paths)
           /\ Field(canonicalExecEnv(ver, e), "requires_root") = putBool("requires_root", e.requires_root)
           /\ Field(canonicalExecEnv(ver, e), "required_capabilities") = putSet(ver, "required_capabilities", e.required_capabilities)
  <1>1. e.requires_root \in BOOLEAN
    BY DEF Execution
  <1>2. /\ Keyed(putSet(ver, "writable_paths", e.writable_paths), "writable_paths")
        /\ Keyed(putBool("requires_root", e.requires_root), "requires_root")
        /\ Keyed(putSet(ver, "required_capabilities", e.required_capabilities), "required_capabilities")
    BY <1>1, PutIsKeyed
  <1>3. QED
    BY <1>2, ThreeFields DEF canonicalExecEnv

LEMMA ExecutionIsCanonical ==
    ASSUME NEW ver, NEW c \in Execution, NEW d \in Execution,
           ver # LegacyOrderV0 =>
               /\ IsInjective(c.writable_paths) /\ IsInjective(c.required_capabilities)
               /\ IsInjective(d.writable_paths) /\ IsInjective(d.required_capabilities)
    PROVE  c.present = d.present /\ canonicalExecEnv(ver, c) = canonicalExecEnv(ver, d)
             <=> DeclaredExecution(ver, c) = DeclaredExecution(ver, d)
  <1> DEFINE same == /\ Unordered(ver, c.writable_paths) = Unordered(ver, d.writable_paths)
                     /\ c.requires_root = d.requires_root
                     /\ Unordered(ver, c.required_capabilities) = Unordered(ver, d.required_capabilities)
  <1>1. /\ IsList(c.writable_paths) /\ IsList(c.required_capabilities) /\ c.requires_root \in BOOLEAN
        /\ IsList(d.writable_paths) /\ IsList(d.required_capabilities) /\ d.requires_root \in BOOLEAN
    BY SequenceIsList DEF Execution
  <1>2. putSet(ver, "writable_paths", c.writable_paths) = putSet(ver, "writable_paths", d.writable_paths)
          <=> Unordered(ver, c.writable_paths) = Unordered(ver, d.writable_paths)
    BY <1>1, PutSetIsInjective
  <1>3. putSet(ver, "required_capabilities", c.required_capabilities)
          = putSet(ver, "required_capabilities", d.required_capabilities)
        <=> Unordered(ver, c.required_capabilities) = Unordered(ver, d.required_capabilities)
    BY <1>1, PutSetIsInjective
  <1>4. ASSUME canonicalExecEnv(ver, c) = canonicalExecEnv(ver, d) PROVE same
    BY <1>1, <1>2, <1>3, <1>4, ExecutionFields, PutBoolIsInjective
  <1>5. ASSUME same PROVE canonicalExecEnv(ver, c) = canonicalExecEnv(ver, d)
    BY <1>2, <1>3, <1>5 DEF canonicalExecEnv
  <1>6. DeclaredExecution(ver, c) = DeclaredExecution(ver, d) <=> c.present = d.present /\ same
    BY DEF DeclaredExecution, Execution
  <1>7. QED
    BY <1>4, <1>5, <1>6

LEMMA SpecFields ==
    ASSUME NEW ver, NEW spec, spec.command.present \in BOOLEAN, spec.execution.present \in BOOLEAN
    PROVE  /\ Field(canonicalToolFunctionSpec(ver, spec), "command") = putMsg("command", spec.command.present, canonicalCommand(ver, spec.command))
           /\ Field(canonicalToolFunctionSpec(ver, spec), "inputs") = putSet(ver, "inputs", canonicalPorts(ver, spec.inputs))
           /\ Field(canonicalToolFunctionSpec(ver, spec), "outputs") = putSet(ver, "outputs", canonicalPorts(ver, spec.outputs))
           /\ Field(canonicalToolFunctionSpec(ver, spec), "parameters") = putSet(ver, "parameters", canonicalParameters(spec.parameters))
           /\ Field(canonicalToolFunctionSpec(ver, spec), "intermediate_file_policies") = putSet(ver, "intermediate_file_policies", canonicalIntermediatePolicies(spec.intermediate))
           /\ Field(canonicalToolFunctionSpec(ver, spec), "execution_environment") = putMsg("execution_environment", spec.execution.present, canonicalExecEnv(ver, spec.execution))
  <1>1. /\ Keyed(putMsg("command", spec.command.present, canonicalCommand(ver, spec.command)), "command")
        /\ Keyed(putSet(ver, "inputs", canonicalPorts(ver, spec.inputs)), "inputs")
        /\ Keyed(putSet(ver, "outputs", canonicalPorts(ver, spec.outputs)), "outputs")
        /\ Keyed(putSet(ver, "parameters", canonicalParameters(spec.parameters)), "parameters")
        /\ Keyed(putSet(ver, "intermediate_file_policies", canonicalIntermediatePolicies(spec.intermediate)), "intermediate_file_policies")
        /\ Keyed(putMsg("execution_environment", spec.execution.present, canonicalExecEnv(ver, spec.execution)), "execution_environment")
    BY PutIsKeyed
  <1> DEFINE cmd  == putMsg("command", spec.command.present, canonicalCommand(ver, spec.command))
             ins  == putSet(ver, "inputs", canonicalPorts(ver, spec.inputs))
             outs == putSet(ver, "outputs", canonicalPorts(ver, spec.outputs))
             pars == putSet(ver, "parameters", canonicalParameters(spec.parameters))
             pols == putSet(ver, "intermediate_file_policies", canonicalIntermediatePolicies(spec.intermediate))
             env  == putMsg("execution_environment", spec.execution.present, canonicalExecEnv(ver, spec.execution))
             whole == canonicalToolFunctionSpec(ver, spec)
  <1>2. whole = cmd \cup ins \cup outs \cup pars \cup pols \cup env
    BY DEF canonicalToolFunctionSpec
  <1>3. /\ Keyed(cmd, "command") /\ Keyed(ins, "inputs") /\ Keyed(outs, "outputs")
        /\ Keyed(pars, "parameters") /\ Keyed(pols, "intermediate_file_policies")
        /\ Keyed(env, "execution_environment")
    BY <1>1
  <1>4. /\ Field(whole, "command") = cmd /\ Field(whole, "inputs") = ins /\ Field(whole, "outputs") = outs
        /\ Field(whole, "parameters") = pars /\ Field(whole, "intermediate_file_policies") = pols
        /\ Field(whole, "execution_environment") = env
    <2> HIDE DEF cmd, ins, outs, pars, pols, env, whole
    <2>1. Field(whole, "command") = cmd
      BY <1>2, <1>3 DEF Field, Keyed
    <2>2. Field(whole, "inputs") = ins
      BY <1>2, <1>3 DEF Field, Keyed
    <2>3. Field(whole, "outputs") = outs
      BY <1>2, <1>3 DEF Field, Keyed
    <2>4. Field(whole, "parameters") = pars
      BY <1>2, <1>3 DEF Field, Keyed
    <2>5. Field(whole, "intermediate_file_policies") = pols
      BY <1>2, <1>3 DEF Field, Keyed
    <2>6. Field(whole, "execution_environment") = env
      BY <1>2, <1>3 DEF Field, Keyed
    <2>7. QED
      BY <2>1, <2>2, <2>3, <2>4, <2>5, <2>6
  <1>5. QED
    BY <1>4

(* What an accepted spec brings with it. *)
CommandOK(ver, c) ==
    /\ c \in Command
    /\ c.present \/ c = NoCommand
    /\ c.timeout.present \/ c.timeout.soft = 0
    /\ ver # LegacyOrderV0 => IsInjective(c.environment) /\ IsInjective(c.success_exit_codes)

PortsOK(ver, ports) ==
    /\ ports \in Seq(Port)
    /\ checkUniqueNames(ports)
    /\ \A i \in DOMAIN ports : ver # LegacyOrderV0 => IsInjective(ports[i].companion_files)

ListsOK(ver, spec) ==
    /\ spec.parameters \in Seq(Parameter) /\ spec.intermediate \in Seq(Intermediate)
    /\ ver # LegacyOrderV0 => IsInjective(spec.parameters) /\ IsInjective(spec.intermediate)

ExecutionOK(ver, e) ==
    /\ e \in Execution
    /\ e.present \/ e = NoExecution
    /\ ver # LegacyOrderV0 => IsInjective(e.writable_paths) /\ IsInjective(e.required_capabilities)

SpecOK(ver, spec) ==
    /\ CommandOK(ver, spec.command)
    /\ PortsOK(ver, spec.inputs)
    /\ PortsOK(ver, spec.outputs)
    /\ ListsOK(ver, spec)
    /\ ExecutionOK(ver, spec.execution)

(* What this release or an earlier one accepted, under its canonicalizer. *)
Admitted(ver, req) == Accepted(ver, req) \/ (ver = LegacyOrderV0 /\ AcceptedEarlier(req))

LEMMA AcceptedSpec ==
    ASSUME RequestsAreMessages, NEW req \in Declarations, NEW ver, Admitted(ver, req)
    PROVE  SpecOK(ver, req.spec) /\ req.unknown = {}
  <1> DEFINE spec == req.spec
  <1>1. req \in Request /\ AbsentIsZero(req)
    BY DEF RequestsAreMessages
  <1>2. /\ spec.command \in Command /\ spec.inputs \in Seq(Port) /\ spec.outputs \in Seq(Port)
        /\ spec.parameters \in Seq(Parameter) /\ spec.intermediate \in Seq(Intermediate)
        /\ spec.execution \in Execution
    BY <1>1 DEF Request
  <1>3. /\ OriginalChecks(spec)
        /\ ver # LegacyOrderV0 => NoExactDuplicate(spec)
    BY DEF Admitted, AcceptedEarlier, Accepted, validateToolFunctionSpec, validateToolFunctionSpecCommon
  <1>4. checkUniqueNames(spec.inputs) /\ checkUniqueNames(spec.outputs)
    BY <1>3 DEF OriginalChecks
  <1>5. CommandOK(ver, spec.command)
    BY <1>1, <1>2, <1>3 DEF CommandOK, AbsentIsZero, NoExactDuplicate
  <1>6. PortsOK(ver, spec.inputs)
    BY <1>2, <1>3, <1>4 DEF PortsOK, NoExactDuplicate, Ports, ToSet
  <1>7. PortsOK(ver, spec.outputs)
    BY <1>2, <1>3, <1>4 DEF PortsOK, NoExactDuplicate, Ports, ToSet
  <1>8. ListsOK(ver, spec)
    BY <1>2, <1>3 DEF ListsOK, NoExactDuplicate
  <1>9. ExecutionOK(ver, spec.execution)
    BY <1>1, <1>2, <1>3 DEF ExecutionOK, AbsentIsZero, NoExactDuplicate
  <1>10. req.unknown = {}
    <2>1. req.unknown \subseteq UNION {Subtree[part] : part \in DOMAIN Subtree}
      BY <1>1 DEF Request
    <2>2. \A part \in DOMAIN Subtree : req.unknown \cap Subtree[part] = {}
      BY DEF Admitted, AcceptedEarlier, Accepted, rejectUnknownRequestFields, firstUnknownField
    <2>3. QED
      BY <2>1, <2>2
  <1>11. QED
    BY <1>5, <1>6, <1>7, <1>8, <1>9, <1>10 DEF SpecOK

LEMMA CommandPart ==
    ASSUME NEW ver, NEW c, NEW d, CommandOK(ver, c), CommandOK(ver, d)
    PROVE  putMsg("command", c.present, canonicalCommand(ver, c))
             = putMsg("command", d.present, canonicalCommand(ver, d))
           <=> DeclaredCommand(ver, c) = DeclaredCommand(ver, d)
  <1>1. c.present \in BOOLEAN /\ d.present \in BOOLEAN
    BY DEF CommandOK, Command
  <1>2. putMsg("command", c.present, canonicalCommand(ver, c))
          = putMsg("command", d.present, canonicalCommand(ver, d))
        <=> c.present = d.present /\ (c.present => canonicalCommand(ver, c) = canonicalCommand(ver, d))
    BY <1>1, PutMsgIsInjective
  <1>3. c.present = d.present /\ canonicalCommand(ver, c) = canonicalCommand(ver, d)
          <=> DeclaredCommand(ver, c) = DeclaredCommand(ver, d)
    BY CommandIsCanonical DEF CommandOK
  <1>4. ~c.present /\ ~d.present => c = d
    BY DEF CommandOK
  <1>5. QED
    BY <1>1, <1>2, <1>3, <1>4

LEMMA ExecutionPart ==
    ASSUME NEW ver, NEW c, NEW d, ExecutionOK(ver, c), ExecutionOK(ver, d)
    PROVE  putMsg("execution_environment", c.present, canonicalExecEnv(ver, c))
             = putMsg("execution_environment", d.present, canonicalExecEnv(ver, d))
           <=> DeclaredExecution(ver, c) = DeclaredExecution(ver, d)
  <1>1. c.present \in BOOLEAN /\ d.present \in BOOLEAN
    BY DEF ExecutionOK, Execution
  <1>2. putMsg("execution_environment", c.present, canonicalExecEnv(ver, c))
          = putMsg("execution_environment", d.present, canonicalExecEnv(ver, d))
        <=> c.present = d.present /\ (c.present => canonicalExecEnv(ver, c) = canonicalExecEnv(ver, d))
    BY <1>1, PutMsgIsInjective
  <1>3. c.present = d.present /\ canonicalExecEnv(ver, c) = canonicalExecEnv(ver, d)
          <=> DeclaredExecution(ver, c) = DeclaredExecution(ver, d)
    BY ExecutionIsCanonical DEF ExecutionOK
  <1>4. ~c.present /\ ~d.present => c = d
    BY DEF ExecutionOK
  <1>5. QED
    BY <1>1, <1>2, <1>3, <1>4

(* The canonical form of an accepted spec is what it declares. *)
SameDeclared(ver, s, t) ==
    /\ DeclaredCommand(ver, s.command) = DeclaredCommand(ver, t.command)
    /\ DeclaredPorts(ver, s.inputs) = DeclaredPorts(ver, t.inputs)
    /\ DeclaredPorts(ver, s.outputs) = DeclaredPorts(ver, t.outputs)
    /\ Unordered(ver, s.parameters) = Unordered(ver, t.parameters)
    /\ Unordered(ver, s.intermediate) = Unordered(ver, t.intermediate)
    /\ DeclaredExecution(ver, s.execution) = DeclaredExecution(ver, t.execution)

LEMMA SpecIsCanonical ==
    ASSUME NEW ver, NEW s, NEW t, SpecOK(ver, s), SpecOK(ver, t)
    PROVE  canonicalToolFunctionSpec(ver, s) = canonicalToolFunctionSpec(ver, t) <=> SameDeclared(ver, s, t)
  <1> DEFINE A(x) == putMsg("command", x.command.present, canonicalCommand(ver, x.command))
             B(x) == putSet(ver, "inputs", canonicalPorts(ver, x.inputs))
             C(x) == putSet(ver, "outputs", canonicalPorts(ver, x.outputs))
             D(x) == putSet(ver, "parameters", canonicalParameters(x.parameters))
             E(x) == putSet(ver, "intermediate_file_policies", canonicalIntermediatePolicies(x.intermediate))
             G(x) == putMsg("execution_environment", x.execution.present, canonicalExecEnv(ver, x.execution))
  <1>1. A(s) = A(t) <=> DeclaredCommand(ver, s.command) = DeclaredCommand(ver, t.command)
    BY CommandPart DEF SpecOK
  <1>2. B(s) = B(t) <=> DeclaredPorts(ver, s.inputs) = DeclaredPorts(ver, t.inputs)
    BY PortsAreCanonical DEF SpecOK, PortsOK
  <1>3. C(s) = C(t) <=> DeclaredPorts(ver, s.outputs) = DeclaredPorts(ver, t.outputs)
    BY PortsAreCanonical DEF SpecOK, PortsOK
  <1>4. D(s) = D(t) <=> Unordered(ver, s.parameters) = Unordered(ver, t.parameters)
    BY ParametersAreCanonical DEF SpecOK, ListsOK
  <1>5. E(s) = E(t) <=> Unordered(ver, s.intermediate) = Unordered(ver, t.intermediate)
    BY IntermediatesAreCanonical DEF SpecOK, ListsOK
  <1>6. G(s) = G(t) <=> DeclaredExecution(ver, s.execution) = DeclaredExecution(ver, t.execution)
    BY ExecutionPart DEF SpecOK
  <1>7. /\ s.command.present \in BOOLEAN /\ s.execution.present \in BOOLEAN
        /\ t.command.present \in BOOLEAN /\ t.execution.present \in BOOLEAN
    BY DEF SpecOK, CommandOK, ExecutionOK, Command, Execution
  <1>8. ASSUME canonicalToolFunctionSpec(ver, s) = canonicalToolFunctionSpec(ver, t)
        PROVE  A(s) = A(t) /\ B(s) = B(t) /\ C(s) = C(t) /\ D(s) = D(t) /\ E(s) = E(t) /\ G(s) = G(t)
    BY <1>7, <1>8, SpecFields
  <1>9. canonicalToolFunctionSpec(ver, s) = A(s) \cup B(s) \cup C(s) \cup D(s) \cup E(s) \cup G(s)
    BY DEF canonicalToolFunctionSpec
  <1>10. canonicalToolFunctionSpec(ver, t) = A(t) \cup B(t) \cup C(t) \cup D(t) \cup E(t) \cup G(t)
    BY DEF canonicalToolFunctionSpec
  <1> HIDE DEF A, B, C, D, E, G
  <1>11. QED
    BY <1>1, <1>2, <1>3, <1>4, <1>5, <1>6, <1>8, <1>9, <1>10 DEF SameDeclared

LEMMA DigestIsDeclaration ==
    ASSUME RequestsAreMessages, NEW ver, NEW r \in Declarations, NEW q \in Declarations,
           Admitted(ver, r), Admitted(ver, q)
    PROVE  functionDigest(ver, r) = functionDigest(ver, q) <=> Declaration(ver, r) = Declaration(ver, q)
  <1>1. r.unknown = q.unknown /\ SpecOK(ver, r.spec) /\ SpecOK(ver, q.spec)
    BY AcceptedSpec
  <1>2. canonicalToolFunctionSpec(ver, r.spec) = canonicalToolFunctionSpec(ver, q.spec)
          <=> SameDeclared(ver, r.spec, q.spec)
    BY <1>1, SpecIsCanonical
  <1>3. functionDigest(ver, r) = functionDigest(ver, q)
          <=> /\ r.base.digest = q.base.digest
              /\ canonicalToolFunctionSpec(ver, r.spec) = canonicalToolFunctionSpec(ver, q.spec)
    BY DEF functionDigest, Normalized
  <1>4. Declaration(ver, r) = Declaration(ver, q)
          <=> r.base.digest = q.base.digest /\ SameDeclared(ver, r.spec, q.spec)
    BY <1>1 DEF Declaration, SameDeclared
  <1>5. QED
    BY <1>2, <1>3, <1>4
-----------------------------------------------------------------------------
(* The envelope and the presentation *)

LEMMA PolicyFields ==
    ASSUME NEW v \in Policy
    PROVE  /\ Field(canonicalValidationPolicy(v), "expected_results") = putList("expected_results", v.expected)
           /\ Field(canonicalValidationPolicy(v), "validation_requirements") = putMsg("validation_requirements", v.required, putInt("minimum_observation_level", v.level))
  <1>1. v.required \in BOOLEAN
    BY DEF Policy
  <1>2. /\ Keyed(putList("expected_results", v.expected), "expected_results")
        /\ Keyed(putMsg("validation_requirements", v.required, putInt("minimum_observation_level", v.level)), "validation_requirements")
    BY <1>1, PutIsKeyed
  <1>3. QED
    BY <1>2, TwoFields DEF canonicalValidationPolicy

LEMMA PolicyIsInjective ==
    ASSUME NEW v \in Policy, NEW w \in Policy, v.required \/ v.level = 0, w.required \/ w.level = 0,
           canonicalValidationPolicy(v) = canonicalValidationPolicy(w), v.present = w.present
    PROVE  v = w
  <1>1. v.required \in BOOLEAN /\ w.required \in BOOLEAN
    BY DEF Policy
  <1>2. /\ putList("expected_results", v.expected) = putList("expected_results", w.expected)
        /\ putMsg("validation_requirements", v.required, putInt("minimum_observation_level", v.level))
             = putMsg("validation_requirements", w.required, putInt("minimum_observation_level", w.level))
    BY PolicyFields
  <1>3. /\ v.required = w.required
        /\ v.required => putInt("minimum_observation_level", v.level) = putInt("minimum_observation_level", w.level)
    BY <1>1, <1>2, PutMsgIsInjective
  <1>4. v.expected = w.expected /\ v.level = w.level
    BY <1>1, <1>2, <1>3, PutIsInjective
  <1>5. QED
    BY <1>3, <1>4 DEF Policy

LEMMA HintsFields ==
    ASSUME NEW v \in Hints
    PROVE  /\ Field(canonicalEnvironmentHints(v), "supported_platforms") = putList("supported_platforms", v.platforms)
           /\ Field(canonicalEnvironmentHints(v), "enforced_resources") = putMsg("enforced_resources", v.enforced, putStr("cpu_request", v.cpu))
  <1>1. v.enforced \in BOOLEAN
    BY DEF Hints
  <1>2. /\ Keyed(putList("supported_platforms", v.platforms), "supported_platforms")
        /\ Keyed(putMsg("enforced_resources", v.enforced, putStr("cpu_request", v.cpu)), "enforced_resources")
    BY <1>1, PutIsKeyed
  <1>3. QED
    BY <1>2, TwoFields DEF canonicalEnvironmentHints

ZeroCpu(v) == v.enforced \/ v.cpu = ""

LEMMA HintsAreInjective ==
    ASSUME NEW v \in Hints, NEW w \in Hints, ZeroCpu(v), ZeroCpu(w),
           canonicalEnvironmentHints(v) = canonicalEnvironmentHints(w), v.present = w.present
    PROVE  v = w
  <1>1. v.enforced \in BOOLEAN /\ w.enforced \in BOOLEAN
    BY DEF Hints
  <1>2. /\ putList("supported_platforms", v.platforms) = putList("supported_platforms", w.platforms)
        /\ putMsg("enforced_resources", v.enforced, putStr("cpu_request", v.cpu))
             = putMsg("enforced_resources", w.enforced, putStr("cpu_request", w.cpu))
    BY HintsFields
  <1>3. /\ v.enforced = w.enforced
        /\ v.enforced => putStr("cpu_request", v.cpu) = putStr("cpu_request", w.cpu)
    BY <1>1, <1>2, PutMsgIsInjective
  <1>4. v.platforms = w.platforms /\ v.cpu = w.cpu
    <2>1. v.platforms = w.platforms /\ (v.enforced => v.cpu = w.cpu)
      BY <1>2, <1>3, PutIsInjective
    <2>2. ~v.enforced => v.cpu = "" /\ w.cpu = ""
      BY <1>1, <1>3 DEF ZeroCpu
    <2>3. QED
      BY <1>1, <2>1, <2>2
  <1>5. QED
    BY <1>3, <1>4 DEF Hints

LEMMA EnvelopeFields ==
    ASSUME NEW r, r.policy.present \in BOOLEAN, r.hints.present \in BOOLEAN
    PROVE  /\ Field(envelope(r), "validation_policy") = putMsg("validation_policy", r.policy.present, canonicalValidationPolicy(r.policy))
           /\ Field(envelope(r), "environment_hints") = putMsg("environment_hints", r.hints.present, canonicalEnvironmentHints(r.hints))
  <1>1. /\ Keyed(putMsg("validation_policy", r.policy.present, canonicalValidationPolicy(r.policy)), "validation_policy")
        /\ Keyed(putMsg("environment_hints", r.hints.present, canonicalEnvironmentHints(r.hints)), "environment_hints")
    BY PutIsKeyed
  <1>2. QED
    BY <1>1, TwoFields DEF envelope

(* An envelope holds the whole contract. *)
LEMMA EnvelopeIsContract ==
    ASSUME RequestsAreMessages, NEW r \in Declarations, NEW q \in Declarations,
           envelope(r) = envelope(q)
    PROVE  Contract(r) = Contract(q)
  <1>1. /\ r.policy \in Policy /\ r.hints \in Hints /\ AbsentIsZero(r)
        /\ q.policy \in Policy /\ q.hints \in Hints /\ AbsentIsZero(q)
    BY DEF RequestsAreMessages, Request
  <1>2. /\ r.policy.present \in BOOLEAN /\ r.hints.present \in BOOLEAN
        /\ q.policy.present \in BOOLEAN /\ q.hints.present \in BOOLEAN
    BY <1>1 DEF Policy, Hints
  <1>3. putMsg("validation_policy", r.policy.present, canonicalValidationPolicy(r.policy))
          = putMsg("validation_policy", q.policy.present, canonicalValidationPolicy(q.policy))
    BY <1>2, EnvelopeFields
  <1>4. putMsg("environment_hints", r.hints.present, canonicalEnvironmentHints(r.hints))
          = putMsg("environment_hints", q.hints.present, canonicalEnvironmentHints(q.hints))
    BY <1>2, EnvelopeFields
  <1>5. r.policy = q.policy
    <2>1. /\ r.policy.present = q.policy.present
          /\ r.policy.present => canonicalValidationPolicy(r.policy) = canonicalValidationPolicy(q.policy)
      BY <1>2, <1>3, PutMsgIsInjective
    <2>2. CASE r.policy.present
      BY <1>1, <2>1, <2>2, PolicyIsInjective DEF AbsentIsZero
    <2>3. CASE ~r.policy.present
      BY <1>1, <2>1, <2>3 DEF AbsentIsZero
    <2>4. QED
      BY <1>2, <2>2, <2>3
  <1>6. r.hints = q.hints
    <2>1. /\ r.hints.present = q.hints.present
          /\ r.hints.present => canonicalEnvironmentHints(r.hints) = canonicalEnvironmentHints(q.hints)
      BY <1>2, <1>4, PutMsgIsInjective
    <2>2. CASE r.hints.present
      BY <1>1, <2>1, <2>2, HintsAreInjective DEF AbsentIsZero, ZeroCpu
    <2>3. CASE ~r.hints.present
      BY <1>1, <2>1, <2>3 DEF AbsentIsZero
    <2>4. QED
      BY <1>2, <2>2, <2>3
  <1>7. QED
    BY <1>5, <1>6 DEF Contract

LEMMA PresentationFields ==
    ASSUME NEW v
    PROVE  /\ Field(canonicalPresentation(v), "label") = putStr("label", v.label)
           /\ Field(canonicalPresentation(v), "tags") = putList("tags", v.tags)
           /\ Field(canonicalPresentation(v), "ports") = putList("ports", v.ports)
  <1>1. /\ Keyed(putStr("label", v.label), "label")
        /\ Keyed(putList("tags", v.tags), "tags")
        /\ Keyed(putList("ports", v.ports), "ports")
    BY PutIsKeyed
  <1>2. QED
    BY <1>1, ThreeFields DEF canonicalPresentation

LEMMA PresentationIsShown ==
    ASSUME RequestsAreMessages, NEW r \in Declarations, NEW q \in Declarations,
           buildPresentationRevision(r.presentation) = buildPresentationRevision(q.presentation)
    PROVE  Shown(r) = Shown(q)
  <1>1. r.presentation \in Presentation /\ q.presentation \in Presentation
    BY DEF RequestsAreMessages, Request
  <1>2. /\ putStr("label", r.presentation.label) = putStr("label", q.presentation.label)
        /\ putList("tags", r.presentation.tags) = putList("tags", q.presentation.tags)
        /\ putList("ports", r.presentation.ports) = putList("ports", q.presentation.ports)
    BY PresentationFields DEF buildPresentationRevision
  <1>3. /\ r.presentation.label = q.presentation.label /\ r.presentation.tags = q.presentation.tags
        /\ r.presentation.ports = q.presentation.ports
    BY <1>2, PutIsInjective
  <1>4. QED
    BY <1>1, <1>3 DEF Shown, Presentation
-----------------------------------------------------------------------------
(* The log *)

(* The basis determines everything that is derived. *)
LEMMA BasisDetermines ==
    ASSUME NEW a, NEW b, Derived(a).basis = Derived(b).basis
    PROVE  /\ Derived(a).toolFunctionDigest = Derived(b).toolFunctionDigest
           /\ Derived(a).casHash = Derived(b).casHash
  BY DEF Derived, deriveToolFunction, functionDigest

(* An entry is appended. *)
LEMMA Appended ==
    ASSUME IdentityTypeOK, NEW e \in Entry, log' = Append(log, e)
    PROVE  /\ IdentityTypeOK'
           /\ DOMAIN log' = DOMAIN log \cup {Len(log) + 1}
           /\ \A i \in DOMAIN log : log'[i] = log[i]
           /\ log'[Len(log) + 1] = e
  BY DEF IdentityTypeOK

LEMMA RecordsOf ==
    ASSUME NEW e
    PROVE  e \in Records <=> \E i \in DOMAIN log : e = log[i] /\ log[i].outcome = "created"
  BY DEF Records, Logged

LEMMA ReceiptsOf ==
    ASSUME NEW id, NEW e \in ReceiptOf(id)
    PROVE  \E i \in DOMAIN log : e = log[i]
  BY DEF ReceiptOf, ReceiptEntries, Logged

(* A log that grows by a request with the basis of an earlier one. *)
LEMMA SameBasisKept ==
    ASSUME IdentityInv, NEW e \in Entry, Accepted(e.version, e.req), log' = Append(log, e),
           NEW k \in DOMAIN log, Derived(e).basis = Derived(log[k]).basis
    PROVE  IdentityInv'
  <1>1. /\ IdentityTypeOK' /\ DOMAIN log' = DOMAIN log \cup {Len(log) + 1}
        /\ \A i \in DOMAIN log : log'[i] = log[i]
        /\ log'[Len(log) + 1] = e
    BY Appended DEF IdentityInv
  <1>2. \A i \in DOMAIN log' : \E m \in DOMAIN log : Derived(log'[i]).basis = Derived(log[m]).basis
    BY <1>1
  <1>3. AllAccepted'
    BY <1>1 DEF IdentityInv, AllAccepted, RegisteredEarlier
  <1>4. Founded'
    <2>1. SUFFICES ASSUME NEW i \in DOMAIN log'
                   PROVE  \E j \in DOMAIN log' : /\ log'[j].outcome = "created"
                                                 /\ Derived(log'[j]).basis = Derived(log'[i]).basis
      BY DEF Founded, Derived
    <2>2. PICK m \in DOMAIN log : Derived(log'[i]).basis = Derived(log[m]).basis
      BY <1>2
    <2>3. PICK j \in DOMAIN log : log[j].outcome = "created" /\ Derived(log[j]).basis = Derived(log[m]).basis
      BY DEF IdentityInv, Founded
    <2>4. QED
      BY <1>1, <2>2, <2>3
  <1>5. SharedEnvelope'
    <2>1. SUFFICES ASSUME NEW i \in DOMAIN log', NEW j \in DOMAIN log',
                          Derived(log'[i]).toolFunctionDigest = Derived(log'[j]).toolFunctionDigest
                   PROVE  Derived(log'[i]).basis.envelope = Derived(log'[j]).basis.envelope
      BY DEF SharedEnvelope, Derived
    <2>2. PICK m \in DOMAIN log : Derived(log'[i]).basis = Derived(log[m]).basis
      BY <1>2
    <2>3. PICK n \in DOMAIN log : Derived(log'[j]).basis = Derived(log[n]).basis
      BY <1>2
    <2>4. Derived(log[m]).toolFunctionDigest = Derived(log[n]).toolFunctionDigest
      BY <2>1, <2>2, <2>3, BasisDetermines
    <2>5. QED
      BY <2>2, <2>3, <2>4 DEF IdentityInv, SharedEnvelope
  <1>6. OneBasis'
    <2>1. SUFFICES ASSUME NEW i \in DOMAIN log', NEW j \in DOMAIN log',
                          Derived(log'[i]).casHash = Derived(log'[j]).casHash
                   PROVE  Derived(log'[i]).basis = Derived(log'[j]).basis
      BY DEF OneBasis, Derived
    <2>2. PICK m \in DOMAIN log : Derived(log'[i]).basis = Derived(log[m]).basis
      BY <1>2
    <2>3. PICK n \in DOMAIN log : Derived(log'[j]).basis = Derived(log[n]).basis
      BY <1>2
    <2>4. Derived(log[m]).casHash = Derived(log[n]).casHash
      BY <2>1, <2>2, <2>3, BasisDetermines
    <2>5. QED
      BY <2>2, <2>3, <2>4 DEF IdentityInv, OneBasis
  <1>7. QED
    BY <1>1, <1>3, <1>4, <1>5, <1>6 DEF IdentityInv
(* A log that grows by a record that no envelope and no identity of an     *)
(* earlier one speaks against.                                             *)
LEMMA CreatedKept ==
    ASSUME IdentityInv, NEW e \in Entry, Accepted(e.version, e.req), e.outcome = "created",
           log' = Append(log, e),
           \A r \in Records : Derived(r).toolFunctionDigest = Derived(e).toolFunctionDigest
               => Derived(r).basis.envelope = Derived(e).basis.envelope,
           \A r \in Records : Derived(r).casHash # Derived(e).casHash
    PROVE  IdentityInv'
  <1>1. /\ IdentityTypeOK' /\ DOMAIN log' = DOMAIN log \cup {Len(log) + 1}
        /\ \A i \in DOMAIN log : log'[i] = log[i]
        /\ log'[Len(log) + 1] = e
    BY Appended DEF IdentityInv
  <1>2. ASSUME NEW i \in DOMAIN log
        PROVE  \E r \in Records : Derived(r).basis = Derived(log[i]).basis
    <2>1. PICK j \in DOMAIN log :
            log[j].outcome = "created" /\ Derived(log[j]).basis = Derived(log[i]).basis
      BY DEF IdentityInv, Founded
    <2>2. log[j] \in Records
      BY <2>1, RecordsOf
    <2>3. QED
      BY <2>1, <2>2
  <1>3. AllAccepted'
    BY <1>1 DEF IdentityInv, AllAccepted, RegisteredEarlier
  <1>4. Founded'
    <2>1. SUFFICES ASSUME NEW i \in DOMAIN log'
                   PROVE  \E j \in DOMAIN log' : /\ log'[j].outcome = "created"
                                                 /\ Derived(log'[j]).basis = Derived(log'[i]).basis
      BY DEF Founded, Derived
    <2>2. CASE i \in DOMAIN log
      <3>1. PICK j \in DOMAIN log :
              log[j].outcome = "created" /\ Derived(log[j]).basis = Derived(log[i]).basis
        BY <2>2 DEF IdentityInv, Founded
      <3>2. QED
        BY <1>1, <2>2, <3>1
    <2>3. CASE i = Len(log) + 1
      BY <1>1, <2>3
    <2>4. QED
      BY <1>1, <2>2, <2>3
  <1>5. SharedEnvelope'
    <2>1. ASSUME NEW i \in DOMAIN log,
                 Derived(log[i]).toolFunctionDigest = Derived(e).toolFunctionDigest
          PROVE  Derived(log[i]).basis.envelope = Derived(e).basis.envelope
      <3>1. PICK r \in Records : Derived(r).basis = Derived(log[i]).basis
        BY <1>2
      <3>2. Derived(r).toolFunctionDigest = Derived(e).toolFunctionDigest
        BY <2>1, <3>1, BasisDetermines
      <3>3. QED
        BY <3>1, <3>2
    <2>2. ASSUME NEW i \in DOMAIN log', NEW j \in DOMAIN log',
                 Derived(log'[i]).toolFunctionDigest = Derived(log'[j]).toolFunctionDigest
          PROVE  Derived(log'[i]).basis.envelope = Derived(log'[j]).basis.envelope
      <3>1. CASE i \in DOMAIN log /\ j \in DOMAIN log
        BY <1>1, <2>2, <3>1 DEF IdentityInv, SharedEnvelope
      <3>2. CASE i \in DOMAIN log /\ j = Len(log) + 1
        BY <1>1, <2>1, <2>2, <3>2
      <3>3. CASE i = Len(log) + 1 /\ j \in DOMAIN log
        BY <1>1, <2>1, <2>2, <3>3
      <3>4. CASE i = Len(log) + 1 /\ j = Len(log) + 1
        BY <3>4
      <3>5. QED
        BY <1>1, <3>1, <3>2, <3>3, <3>4
    <2>3. QED
      BY <2>2 DEF SharedEnvelope, Derived
  <1>6. OneBasis'
    <2>1. ASSUME NEW i \in DOMAIN log PROVE Derived(log[i]).casHash # Derived(e).casHash
      <3>1. PICK r \in Records : Derived(r).basis = Derived(log[i]).basis
        BY <1>2
      <3>2. QED
        BY <3>1, BasisDetermines
    <2>2. ASSUME NEW i \in DOMAIN log', NEW j \in DOMAIN log',
                 Derived(log'[i]).casHash = Derived(log'[j]).casHash
          PROVE  Derived(log'[i]).basis = Derived(log'[j]).basis
      <3>1. CASE i \in DOMAIN log /\ j \in DOMAIN log
        BY <1>1, <2>2, <3>1 DEF IdentityInv, OneBasis
      <3>2. CASE i = Len(log) + 1 /\ j = Len(log) + 1
        BY <3>2
      <3>3. QED
        BY <1>1, <2>1, <2>2, <3>1, <3>2
    <2>3. QED
      BY <2>2 DEF OneBasis, Derived
  <1>7. QED
    BY <1>1, <1>3, <1>4, <1>5, <1>6 DEF IdentityInv

(* The three ways of an answer. *)
LEMMA ReplayKept ==
    ASSUME IdentityInv, NEW id \in RequestIds, NEW ver \in Versions, NEW req \in Declarations,
           Accepted(ver, req), Replay(id, ver, req, deriveToolFunction(ver, req))
    PROVE  IdentityInv'
  <1> DEFINE e == [id |-> id, version |-> ver, req |-> req, outcome |-> "replayed"]
  <1>1. CASE log' = log
    BY <1>1 DEF IdentityInv, IdentityTypeOK, AllAccepted, RegisteredEarlier, Founded, SharedEnvelope, OneBasis, Derived
  <1>2. CASE log' # log
    <2>1. /\ log' = Append(log, e) /\ ReceiptOf(id) # {}
          /\ \A r \in ReceiptOf(id) : Derived(r).basis = deriveToolFunction(ver, req).basis
      BY <1>2 DEF Replay, Answer, Refuse
    <2>2. e \in Entry /\ Accepted(e.version, e.req) /\ Derived(e) = deriveToolFunction(ver, req)
      BY DEF Entry, Derived
    <2>3. PICK r \in ReceiptOf(id) : TRUE
      BY <2>1
    <2>4. PICK k \in DOMAIN log : r = log[k]
      BY ReceiptsOf
    <2> HIDE DEF e
    <2>5. Derived(e).basis = Derived(log[k]).basis
      BY <2>1, <2>2, <2>4
    <2>6. QED
      BY <2>1, <2>2, <2>5, SameBasisKept
  <1>3. QED
    BY <1>1, <1>2

LEMMA RegisterKept ==
    ASSUME IdentityInv, NEW id \in RequestIds, NEW ver \in Versions, NEW req \in Declarations,
           Accepted(ver, req), CreateOrReuse(id, ver, req, deriveToolFunction(ver, req))
    PROVE  IdentityInv'
  <1> DEFINE d == deriveToolFunction(ver, req)
             same == {r \in Records : Derived(r).casHash = d.casHash}
             e(outcome) == [id |-> id, version |-> ver, req |-> req, outcome |-> outcome]
  <1>1. \/ log' = log
        \/ /\ checkToolFunctionEnvelope(d) /\ same = {} /\ log' = Append(log, e("created"))
        \/ /\ same # {} /\ \A r \in same : Derived(r).basis = d.basis
           /\ log' = Append(log, e("reused"))
    BY DEF CreateOrReuse, Answer, Refuse
  <1>2. ASSUME NEW outcome \in {"created", "reused"}
        PROVE  /\ e(outcome) \in Entry /\ Accepted(e(outcome).version, e(outcome).req)
               /\ e(outcome).outcome = outcome /\ Derived(e(outcome)) = d
    BY DEF Entry, Derived
  <1>3. CASE log' = log
    BY <1>3 DEF IdentityInv, IdentityTypeOK, AllAccepted, RegisteredEarlier, Founded, SharedEnvelope, OneBasis, Derived
  <1>4. CASE checkToolFunctionEnvelope(d) /\ same = {} /\ log' = Append(log, e("created"))
    <2>1. \A r \in Records : Derived(r).toolFunctionDigest = d.toolFunctionDigest
               => Derived(r).basis.envelope = d.basis.envelope
      BY <1>4 DEF checkToolFunctionEnvelope
    <2>2. \A r \in Records : Derived(r).casHash # d.casHash
      BY <1>4
    <2> HIDE DEF d, e
    <2>3. QED
      BY <1>2, <1>4, <2>1, <2>2, CreatedKept
  <1>5. CASE /\ same # {} /\ \A r \in same : Derived(r).basis = d.basis
             /\ log' = Append(log, e("reused"))
    <2>1. PICK r \in Records : Derived(r).basis = d.basis
      BY <1>5
    <2>2. PICK k \in DOMAIN log : r = log[k]
      BY RecordsOf
    <2> HIDE DEF d, e
    <2>3. QED
      BY <1>2, <1>5, <2>1, <2>2, SameBasisKept
  <1>6. QED
    BY <1>1, <1>3, <1>4, <1>5

LEMMA IdentityInvInit ==
    ASSUME IdentityInit
    PROVE  IdentityInv
  <1>1. CASE log = <<>>
    BY <1>1 DEF IdentityInv, IdentityTypeOK, AllAccepted, Founded, SharedEnvelope, OneBasis
  <1>2. CASE log # <<>>
    <2>1. PICK id \in RequestIds, req \in Declarations :
            /\ AcceptedEarlier(req)
            /\ log = <<[id |-> id, version |-> LegacyOrderV0, req |-> req, outcome |-> "created"]>>
      BY <1>2 DEF IdentityInit
    <2> DEFINE e == [id |-> id, version |-> LegacyOrderV0, req |-> req, outcome |-> "created"]
    <2>2. e \in Entry /\ RegisteredEarlier(e) /\ AcceptedEarlier(e.req) /\ e.outcome = "created"
      BY <2>1 DEF Entry, Versions, RegisteredEarlier
    <2>3. log = <<e>>
      BY <2>1
    <2> HIDE DEF e
    <2>4. DOMAIN log = {1} /\ log[1] = e
      BY <2>3
    <2>5. IdentityTypeOK
      BY <2>2, <2>3 DEF IdentityTypeOK
    <2>6. QED
      BY <2>2, <2>4, <2>5 DEF IdentityInv, AllAccepted, Founded, SharedEnvelope, OneBasis
  <1>3. QED
    BY <1>1, <1>2

LEMMA IdentityInvNext ==
    ASSUME IdentityInv, [IdentityNext]_identityVars
    PROVE  IdentityInv'
  <1>1. CASE log' = log
    BY <1>1 DEF IdentityInv, IdentityTypeOK, AllAccepted, RegisteredEarlier, Founded, SharedEnvelope, OneBasis, Derived
  <1>2. CASE log' # log
    <2>1. PICK id \in RequestIds, ver \in Versions, req \in Declarations :
            RegisterToolFunction(id, ver, req)
      BY <1>2 DEF IdentityNext, identityVars
    <2>2. /\ Accepted(ver, req)
          /\ \/ Replay(id, ver, req, deriveToolFunction(ver, req))
             \/ CreateOrReuse(id, ver, req, deriveToolFunction(ver, req))
      BY <1>2, <2>1 DEF RegisterToolFunction, Refuse
    <2>3. QED
      BY <2>2, ReplayKept, RegisterKept
  <1>3. QED
    BY <1>1, <1>2

LEMMA IdentityInvariance == IdentitySpec => []IdentityInv
  BY IdentityInvInit, IdentityInvNext, PTL DEF IdentitySpec

(* RegisterToolFunction logs only requests it was given, each under a       *)
(* request id and a canonicalizer version it knows.                         *)
THEOREM RequestsLogged == IdentitySpec => []IdentityTypeOK
  <1>1. IdentityInv => IdentityTypeOK
    BY DEF IdentityInv
  <1>2. QED
    BY <1>1, IdentityInvariance, PTL

-----------------------------------------------------------------------------
(* The properties follow from the invariant *)

LEMMA EntryParts ==
    ASSUME IdentityInv, NEW i \in DOMAIN log
    PROVE  log[i].req \in Declarations /\ Admitted(log[i].version, log[i].req)
  <1>1. log[i] \in Entry
    BY DEF IdentityInv, IdentityTypeOK
  <1>2. QED
    BY <1>1 DEF Entry, IdentityInv, AllAccepted, Admitted, RegisteredEarlier

LEMMA DerivedParts ==
    ASSUME NEW e
    PROVE  /\ Derived(e).toolFunctionDigest = functionDigest(e.version, e.req)
           /\ Derived(e).basis.version = e.version
           /\ Derived(e).basis.image = e.req.image.digest
           /\ Derived(e).basis.presentation = buildPresentationRevision(e.req.presentation)
           /\ Derived(e).basis.envelope = envelope(e.req)
  BY DEF Derived, deriveToolFunction, Normalized

LEMMA BasisParts ==
    ASSUME NEW a, NEW b, Derived(a).basis = Derived(b).basis
    PROVE  /\ a.version = b.version
           /\ a.req.image.digest = b.req.image.digest
           /\ buildPresentationRevision(a.req.presentation)
                = buildPresentationRevision(b.req.presentation)
  BY DEF Derived, deriveToolFunction, Normalized

LEMMA DigestFollows ==
    ASSUME RequestsAreMessages, IdentityInv
    PROVE  SameDigestIffSameDeclaration
  <1>1. SUFFICES ASSUME NEW i \in DOMAIN log, NEW j \in DOMAIN log, log[i].version = log[j].version
                 PROVE  Derived(log[i]).toolFunctionDigest = Derived(log[j]).toolFunctionDigest
                          <=> Declaration(log[i].version, log[i].req) = Declaration(log[j].version, log[j].req)
    BY DEF SameDigestIffSameDeclaration
  <1>2. /\ log[i].req \in Declarations /\ Admitted(log[i].version, log[i].req)
        /\ log[j].req \in Declarations /\ Admitted(log[i].version, log[j].req)
    BY <1>1, EntryParts
  <1>3. functionDigest(log[i].version, log[i].req) = functionDigest(log[i].version, log[j].req)
          <=> Declaration(log[i].version, log[i].req) = Declaration(log[i].version, log[j].req)
    BY <1>2, DigestIsDeclaration
  <1>4. QED
    BY <1>1, <1>3, DerivedParts

LEMMA RequestFollows ==
    ASSUME RequestsAreMessages, IdentityInv
    PROVE  OneRequestPerFunction
  <1>1. ASSUME NEW i \in DOMAIN log, NEW j \in DOMAIN log,
               Derived(log[i]).toolFunctionDigest = Derived(log[j]).toolFunctionDigest
        PROVE  Contract(log[i].req) = Contract(log[j].req)
    <2>1. envelope(log[i].req) = envelope(log[j].req)
      BY <1>1, DerivedParts DEF IdentityInv, SharedEnvelope
    <2>2. QED
      BY <2>1, EntryParts, EnvelopeIsContract
  <1>2. ASSUME NEW i \in DOMAIN log, NEW j \in DOMAIN log,
               Derived(log[i]).casHash = Derived(log[j]).casHash
        PROVE  /\ log[i].version = log[j].version
               /\ log[i].req.image.digest = log[j].req.image.digest
               /\ Shown(log[i].req) = Shown(log[j].req)
    <2>1. Derived(log[i]).basis = Derived(log[j]).basis
      BY <1>2 DEF IdentityInv, OneBasis
    <2>2. /\ log[i].version = log[j].version
          /\ log[i].req.image.digest = log[j].req.image.digest
          /\ buildPresentationRevision(log[i].req.presentation)
               = buildPresentationRevision(log[j].req.presentation)
      BY <2>1, BasisParts
    <2>3. QED
      BY <2>2, EntryParts, PresentationIsShown
  <1>3. QED
    BY <1>1, <1>2 DEF OneRequestPerFunction

(* A value that is substituted for the whole of an argument shows in it. *)
LEMMA ReferencedInfluences ==
    ASSUME NEW spec, NEW name \in Names(spec.parameters),
           [kind |-> "param", name |-> name] \in ToSet(spec.command.arguments)
    PROVE  Influences(name, spec)
  <1> DEFINE args == spec.command.arguments
             one == [n \in Names(spec.parameters) |-> "yes"]
             other == [n \in Names(spec.parameters) |-> IF n = name THEN "no" ELSE "yes"]
  <1>1. PICK k \in DOMAIN args : args[k] = [kind |-> "param", name |-> name]
    BY DEF ToSet
  <1>2. args[k].kind # "literal" /\ args[k].name = name
    BY <1>1
  <1>3. Render(args, one)[k] = "yes" /\ Render(args, other)[k] = "no"
    BY <1>1, <1>2 DEF Render
  <1>4. /\ one \in [Names(spec.parameters) -> {"yes", "no"}]
        /\ other \in [Names(spec.parameters) -> {"yes", "no"}]
        /\ \A n \in Names(spec.parameters) \ {name} : one[n] = other[n]
    OBVIOUS
  <1>5. Render(args, one) # Render(args, other)
    BY <1>3
  <1> HIDE DEF one, other
  <1>6. QED
    BY <1>4, <1>5 DEF Influences

LEMMA ParametersFollow ==
    ASSUME IdentityInv
    PROVE  EveryParameterMatters
  <1>1. SUFFICES ASSUME NEW i \in DOMAIN log, ~RegisteredEarlier(log[i]),
                        NEW name \in Names(log[i].req.spec.parameters)
                 PROVE  Influences(name, log[i].req.spec)
    BY DEF EveryParameterMatters
  <1>2. validateArgumentReferences(log[i].req.spec)
    BY <1>1 DEF IdentityInv, AllAccepted, Accepted, validateToolFunctionSpec, validateToolFunctionSpecCommon
  <1>3. [kind |-> "param", name |-> name] \in ToSet(log[i].req.spec.command.arguments)
    BY <1>2 DEF validateArgumentReferences
  <1>4. QED
    BY <1>3, ReferencedInfluences

(* Two requests RegisterToolFunction answered under one canonicalizer have *)
(* one tool_function_digest exactly when they declare the same function:   *)
(* for any requests, lists of any length and any history of the store.     *)
THEOREM DigestIsIdentity == IdentitySpec => []SameDigestIffSameDeclaration
  <1>1. IdentityInv => SameDigestIffSameDeclaration
    BY RequestsAssumption, DigestFollows
  <1>2. QED
    BY <1>1, IdentityInvariance, PTL

(* Whoever is answered with a casHash, by creation, reuse or replay, asked *)
(* for all that the record behind it was registered with.                  *)
THEOREM IdentityIsNotShared == IdentitySpec => []OneRequestPerFunction
  <1>1. IdentityInv => OneRequestPerFunction
    BY RequestsAssumption, RequestFollows
  <1>2. QED
    BY <1>1, IdentityInvariance, PTL

(* validateArgumentReferences lets no parameter of a function that this     *)
(* release registered, reused or replayed be without influence on its       *)
(* command line.                                                            *)
THEOREM ParametersMatter == IdentitySpec => []EveryParameterMatters
  <1>1. IdentityInv => EveryParameterMatters
    BY ParametersFollow
  <1>2. QED
    BY <1>1, IdentityInvariance, PTL

=============================================================================
