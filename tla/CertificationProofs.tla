------------------------ MODULE CertificationProofs ------------------------
(***************************************************************************)
(* Proofs about Certification, for any records, images, keys, tools,       *)
(* failed saves and crashes, and whatever an earlier release left in the   *)
(* index.  The inductive invariant says of each index what its             *)
(* certifications and catalog entries rest on (Sound), of each handler     *)
(* what it has read (Handled), and of the startup pass what it has dealt   *)
(* with (Dealt): a certification not visited yet is in its snapshot, the   *)
(* index file is the index in memory until intake starts, and one that is  *)
(* to be retracted and has a key of its own keeps it (Lone), so that its   *)
(* retraction replaces it and nothing else.                                *)
(***************************************************************************)
EXTENDS Certification, TLAPS, WellFoundedInduction

-----------------------------------------------------------------------------
(* Lists *)

LEMMA LeastHit ==
    ASSUME NEW hits \in SUBSET Nat, hits # {}
    PROVE  Least(hits) \in hits
  <1>1. PICK x \in hits : \A y \in hits : ~(<<y, x>> \in OpToRel(<, Nat))
    BY NatLessThanWellFounded, WFMin
  <1>2. ASSUME NEW y \in hits PROVE x <= y
    <2>1. y \in Nat /\ x \in Nat
      OBVIOUS
    <2>2. ~(y < x)
      <3>1. ASSUME y < x PROVE <<y, x>> \in OpToRel(<, Nat)
        BY <2>1, <3>1 DEF OpToRel
      <3>2. QED
        BY <1>1, <3>1
    <2>3. QED
      BY <2>1, <2>2
  <1>3. QED
    BY <1>2 DEF Least

LEMMA FirstHit ==
    ASSUME NEW S, NEW s \in Seq(S), NEW hits \in SUBSET DOMAIN s
    PROVE  \/ First(s, hits) = None
           \/ \E i \in hits : First(s, hits) = s[i]
  BY LeastHit DEF First

LEMMA AppendRange ==
    ASSUME NEW S, NEW s \in Seq(S), NEW e \in S
    PROVE  Append(s, e) \in Seq(S) /\ Ranges(Append(s, e)) = Ranges(s) \cup {e}
  <1>1. /\ Append(s, e) \in Seq(S) /\ DOMAIN Append(s, e) = 1..Len(s) + 1
        /\ Append(s, e)[Len(s) + 1] = e
        /\ \A i \in 1..Len(s) : Append(s, e)[i] = s[i]
    OBVIOUS
  <1>2. DOMAIN s = 1..Len(s) /\ Len(s) \in Nat
    OBVIOUS
  <1>3. QED
    BY <1>1, <1>2 DEF Ranges

LEMMA TailRange ==
    ASSUME NEW S, NEW s \in Seq(S), s # <<>>
    PROVE  /\ Tail(s) \in Seq(S) /\ Head(s) \in S
           /\ Ranges(s) = {Head(s)} \cup Ranges(Tail(s))
  <1>1. /\ Tail(s) \in Seq(S) /\ Head(s) \in S /\ Head(s) = s[1] /\ Len(s) \in Nat /\ Len(s) > 0
        /\ DOMAIN s = 1..Len(s) /\ DOMAIN Tail(s) = 1..Len(s) - 1
        /\ \A i \in 1..Len(s) - 1 : Tail(s)[i] = s[i + 1]
    OBVIOUS
  <1>2. ASSUME NEW i \in DOMAIN s PROVE s[i] \in {Head(s)} \cup Ranges(Tail(s))
    <2>1. CASE i = 1
      BY <1>1, <2>1
    <2>2. CASE i # 1
      <3>1. i - 1 \in DOMAIN Tail(s) /\ Tail(s)[i - 1] = s[i]
        BY <1>1, <1>2, <2>2
      <3>2. QED
        BY <3>1 DEF Ranges
    <2>3. QED
      BY <2>1, <2>2
  <1>3. ASSUME NEW i \in DOMAIN Tail(s) PROVE Tail(s)[i] \in Ranges(s)
    BY <1>1, <1>3 DEF Ranges
  <1>4. Head(s) \in Ranges(s)
    BY <1>1 DEF Ranges
  <1>5. QED
    BY <1>1, <1>2, <1>3, <1>4 DEF Ranges

LEMMA RangeMember ==
    ASSUME NEW S, NEW s \in Seq(S)
    PROVE  Ranges(s) \subseteq S
  BY DEF Ranges

(* A record is replaced, or put at the end, and nothing else changes. *)
LEMMA Upserted ==
    ASSUME NEW certs \in Seq(Cert), NEW cert \in Cert
    PROVE  /\ Upsert(certs, cert) \in Seq(Cert)
           /\ \A i \in DOMAIN Upsert(certs, cert) :
                 \/ Upsert(certs, cert)[i] = cert
                 \/ i \in DOMAIN certs /\ Upsert(certs, cert)[i] = certs[i]
  <1> DEFINE same == {i \in DOMAIN certs : sameCertifiedToolKey(certs[i], cert)}
  <1>1. CASE same = {}
    <2>1. Upsert(certs, cert) = Append(certs, cert)
      BY <1>1 DEF Upsert
    <2>2. QED
      BY <2>1
  <1>2. CASE same # {}
    <2>1. Upsert(certs, cert) = [certs EXCEPT ![Least(same)] = cert]
      BY <1>2 DEF Upsert
    <2>2. Least(same) \in DOMAIN certs
      <3>1. same \in SUBSET Nat
        OBVIOUS
      <3>2. QED
        BY <1>2, <3>1, LeastHit
    <2>3. QED
      BY <2>1, <2>2
  <1>3. QED
    BY <1>1, <1>2

(* The record that is replaced is the only one with the key, if there is    *)
(* one.                                                                     *)
LEMMA UpsertedInPlace ==
    ASSUME NEW certs \in Seq(Cert), NEW cert \in Cert, NEW k \in DOMAIN certs,
           sameCertifiedToolKey(certs[k], cert),
           \A i \in DOMAIN certs : sameCertifiedToolKey(certs[i], cert) => i = k
    PROVE  Upsert(certs, cert) = [certs EXCEPT ![k] = cert]
  <1> DEFINE same == {i \in DOMAIN certs : sameCertifiedToolKey(certs[i], cert)}
  <1>1. same = {k}
    OBVIOUS
  <1>2. Least(same) \in same
    <2>1. same \in SUBSET Nat /\ same # {}
      BY <1>1
    <2>2. QED
      BY <2>1, LeastHit
  <1>3. Least(same) = k /\ same # {}
    BY <1>1, <1>2
  <1>4. QED
    BY <1>3 DEF Upsert

-----------------------------------------------------------------------------
(* The inductive invariant *)

(* A certification is one of an earlier release, perhaps retracted since,   *)
(* or binds the records and the casHash of one image.                       *)
Lawful(cert) ==
    \/ \E idx \in EarlierIndexes : \E i \in DOMAIN idx.certs :
           /\ cert.image = idx.certs[i].image
           /\ cert.check = idx.certs[i].check
           /\ cert.cas = idx.certs[i].cas
    \/ /\ cert.check # None /\ cert.check.image = cert.image
       /\ cert.scan = None \/ cert.scan.image = cert.image
       /\ cert.cas = None \/ ImageOf[cert.cas] = cert.image

EntryRests(idx, t, entry) ==
    entry \notin LeftBehind(t) =>
        entry.image = ImageOf[t] /\ (entry.active => Earned(idx, entry))

Sound(idx) ==
    /\ idx \in Index
    /\ \A i \in DOMAIN idx.certs : Lawful(idx.certs[i])
    /\ \A t \in Tools : EntryRests(idx, t, idx.catalog[t])

(* What a handler that is about to write rests on. *)
Backed(idx, h) ==
    /\ h.check \in Ranges(idx.checks) /\ Admissible(h.check)
    /\ h.scan = None \/ (h.scan \in Ranges(idx.scans) /\ h.scan.image = h.check.image)
    /\ h.check.terminal \/ Blocked(h.scan) \/ (h.scan # None /\ terminalL5B(h.scan))

Handled(r) ==
    LET h == handler[r]
    IN  /\ h.pc # "idle" => phase = "serving"
        /\ h.pc = "list" => \/ r \in Checks /\ r \in Ranges(mem.checks) /\ CertifiesOnCheck(r)
                            \/ r \in Scans /\ r \in Ranges(mem.scans) /\ ScanDecides(r)
        /\ h.pc \in {"certify", "catalog"} => Backed(mem, h)
        /\ h.pc = "catalog" => h.cas \in Tools /\ ImageOf[h.cas] = h.check.image

Settled(idx, kept, cert) == Proven(idx, cert) /\ (cert.cas # None => kept[cert.cas] # None)

(* Active, and the startup pass has to retract it. *)
Doomed(idx, cert) == cert.active /\ ~Proven(idx, cert) /\ cert \notin Ambiguous

(* No other record has the key of one that is to be retracted. *)
Lone(idx) ==
    \A i, k \in DOMAIN idx.certs :
        Doomed(idx, idx.certs[k]) /\ sameCertifiedToolKey(idx.certs[i], idx.certs[k]) => i = k

(* Its retraction may have replaced another record. *)
Missed(idx, cert) == cert \in Ambiguous /\ ~Proven(idx, cert)

(* The startup pass over the certifications. *)
Visiting ==
    /\ \A e \in Ranges(todo) : Lawful(e)
    /\ \A i \in DOMAIN mem.certs : mem.certs[i].active =>
          \/ mem.certs[i] \in Ranges(todo)
          \/ Settled(mem, survivor, mem.certs[i])
          \/ Missed(mem, mem.certs[i])
    /\ \A e \in Ranges(todo) : \A k \in DOMAIN mem.certs :
          Doomed(mem, mem.certs[k]) /\ sameCertifiedToolKey(e, mem.certs[k]) => e = mem.certs[k]

Survivors ==
    \A t \in Tools : survivor[t] # None =>
        Lawful(survivor[t]) /\ survivor[t].cas = t /\ Proven(mem, survivor[t])

(* The startup pass over the catalog entries. *)
Reviewing ==
    /\ \A i \in DOMAIN mem.certs : mem.certs[i].active =>
          Settled(mem, survivor, mem.certs[i]) \/ Missed(mem, mem.certs[i])
    /\ \A t \in stale : mem.catalog[t] # None /\ mem.catalog[t].active

Dealt ==
    /\ phase \in {"list", "certs", "entries"} => mem = disk
    /\ phase = "certs" => Visiting
    /\ phase \in {"certs", "entries"} => Survivors
    /\ phase = "entries" => Reviewing
    /\ phase = "serving" => AllJustified(mem) /\ AllJustified(disk)
    /\ Lone(disk)

IInv ==
    /\ TypeOK
    /\ Sound(mem) /\ Sound(disk)
    /\ \A r \in Records : Handled(r)
    /\ Dealt

-----------------------------------------------------------------------------
(* Indexes *)

LEMMA IndexFields ==
    ASSUME NEW idx \in Index
    PROVE  /\ idx.entries \in Seq(Tools) /\ idx.checks \in Seq(Checks) /\ idx.scans \in Seq(Scans)
           /\ idx.certs \in Seq(Cert) /\ idx.catalog \in [Tools -> CatalogEntry \cup {None}]
           /\ Ranges(idx.checks) \subseteq Checks /\ Ranges(idx.scans) \subseteq Scans
           /\ Ranges(idx.certs) \subseteq Cert
  <1>1. /\ idx.entries \in Seq(Tools) /\ idx.checks \in Seq(Checks) /\ idx.scans \in Seq(Scans)
        /\ idx.certs \in Seq(Cert) /\ idx.catalog \in [Tools -> CatalogEntry \cup {None}]
    BY DEF Index
  <1>2. QED
    BY <1>1, RangeMember

LEMMA ProvenStays ==
    ASSUME NEW idx, NEW new, NEW cert, Proven(idx, cert),
           Ranges(idx.checks) \subseteq Ranges(new.checks),
           Ranges(idx.scans) \subseteq Ranges(new.scans)
    PROVE  Proven(new, cert)
  BY DEF Proven

LEMMA EarnedStays ==
    ASSUME NEW idx, NEW new, NEW entry, Earned(idx, entry),
           Ranges(idx.checks) \subseteq Ranges(new.checks),
           Ranges(idx.scans) \subseteq Ranges(new.scans)
    PROVE  Earned(new, entry)
  BY DEF Earned

(* Records are added to an index. *)
LEMMA Grown ==
    ASSUME NEW idx, Sound(idx), NEW new \in Index,
           new.certs = idx.certs, new.catalog = idx.catalog,
           Ranges(idx.checks) \subseteq Ranges(new.checks),
           Ranges(idx.scans) \subseteq Ranges(new.scans)
    PROVE  Sound(new) /\ (AllJustified(idx) => AllJustified(new))
  <1>1. \A t \in Tools : EntryRests(new, t, new.catalog[t])
    BY EarnedStays DEF Sound, EntryRests
  <1>2. AllJustified(idx) => AllJustified(new)
    BY ProvenStays DEF AllJustified
  <1>3. QED
    BY <1>1, <1>2 DEF Sound

(* A certification is written. *)
LEMMA Certified ==
    ASSUME NEW idx, Sound(idx), NEW cert \in Cert, Lawful(cert),
           NEW new, new = [idx EXCEPT !.certs = Upsert(@, cert)]
    PROVE  /\ Sound(new)
           /\ AllJustified(idx) /\ (cert.active => Proven(idx, cert)) => AllJustified(new)
           /\ new.checks = idx.checks /\ new.scans = idx.scans
           /\ new.certs = Upsert(idx.certs, cert) /\ new.catalog = idx.catalog
  <1>0. idx \in Index /\ idx.certs \in Seq(Cert)
    BY IndexFields DEF Sound
  <1>1. /\ new.checks = idx.checks /\ new.scans = idx.scans /\ new.catalog = idx.catalog
        /\ new.certs = Upsert(idx.certs, cert)
    BY <1>0 DEF Index
  <1>records. /\ Ranges(idx.checks) \subseteq Ranges(new.checks)
        /\ Ranges(idx.scans) \subseteq Ranges(new.scans)
    BY <1>1
  <1>2. new \in Index
    BY <1>0, Upserted DEF Index
  <1>3. \A i \in DOMAIN new.certs :
            new.certs[i] = cert \/ (i \in DOMAIN idx.certs /\ new.certs[i] = idx.certs[i])
    BY <1>0, <1>1, Upserted
  <1>4. \A i \in DOMAIN new.certs : Lawful(new.certs[i])
    BY <1>3 DEF Sound
  <1>5. \A t \in Tools : EntryRests(new, t, new.catalog[t])
    BY <1>1, <1>records, EarnedStays DEF Sound, EntryRests
  <1>6. ASSUME AllJustified(idx), cert.active => Proven(idx, cert) PROVE AllJustified(new)
    <2>1. \A i \in DOMAIN new.certs : new.certs[i].active =>
              Proven(idx, new.certs[i]) \/ new.certs[i] \in Ambiguous
      BY <1>3, <1>6 DEF AllJustified
    <2>2. QED
      BY <1>1, <1>records, <2>1, ProvenStays DEF AllJustified
  <1>7. QED
    BY <1>1, <1>2, <1>4, <1>5, <1>6 DEF Sound

(* A catalog entry is written. *)
PutEntry(idx, t, entry) == [idx EXCEPT !.catalog[t] = entry]

LEMMA PutFields ==
    ASSUME NEW idx \in Index, NEW t \in Tools, NEW entry
    PROVE  LET new == PutEntry(idx, t, entry)
           IN  /\ new.checks = idx.checks /\ new.scans = idx.scans /\ new.certs = idx.certs
               /\ new.catalog = [idx.catalog EXCEPT ![t] = entry]
  BY DEF Index, PutEntry

LEMMA Cataloged ==
    ASSUME NEW idx, Sound(idx), NEW t \in Tools, NEW entry \in CatalogEntry \cup {None},
           EntryRests(idx, t, entry),
           NEW new, new = PutEntry(idx, t, entry)
    PROVE  Sound(new) /\ (AllJustified(idx) => AllJustified(new))
  <1>0. idx \in Index /\ idx.catalog \in [Tools -> CatalogEntry \cup {None}]
    BY IndexFields DEF Sound
  <1>1. /\ new.checks = idx.checks /\ new.scans = idx.scans /\ new.certs = idx.certs
        /\ new.catalog = [idx.catalog EXCEPT ![t] = entry]
    BY <1>0, PutFields
  <1>records. /\ Ranges(idx.checks) \subseteq Ranges(new.checks)
        /\ Ranges(idx.scans) \subseteq Ranges(new.scans)
    BY <1>1
  <1>2. new \in Index
    BY <1>0 DEF Index, PutEntry
  <1>3. ASSUME NEW x \in Tools PROVE EntryRests(new, x, new.catalog[x])
    <2>1. CASE x = t
      <3>1. new.catalog[x] = entry
        BY <1>0, <1>1, <2>1
      <3>2. Earned(idx, entry) => Earned(new, entry)
        BY <1>records, EarnedStays
      <3>3. QED
        BY <2>1, <3>1, <3>2 DEF EntryRests
    <2>2. CASE x # t
      <3>1. new.catalog[x] = idx.catalog[x]
        BY <1>0, <1>1, <2>2
      <3>2. QED
        BY <1>records, <1>3, <3>1, EarnedStays DEF Sound, EntryRests
    <2>3. QED
      BY <2>1, <2>2
  <1>4. AllJustified(idx) => AllJustified(new)
    BY <1>1, <1>records, ProvenStays DEF AllJustified
  <1>5. QED
    BY <1>1, <1>2, <1>3, <1>4 DEF Sound

-----------------------------------------------------------------------------
(* Intake *)

LEMMA RecordsDiffer == \A r \in Records : r # None /\ ~(r \in Checks /\ r \in Scans)
  BY RecordsAssumption DEF Records

LEMMA HandledStays ==
    ASSUME NEW r \in Records, Handled(r), handler'[r] = handler[r], phase' = phase,
           Ranges(mem.checks) \subseteq Ranges(mem'.checks),
           Ranges(mem.scans) \subseteq Ranges(mem'.scans)
    PROVE  Handled(r)'
  BY DEF Handled, Backed

(* What the invariant says of an index does not depend on where it is.      *)
LEMMA SameIndex ==
    ASSUME NEW idx, Lone(idx)
    PROVE  (disk' = idx => Lone(disk)') /\ (mem' = idx => Lone(mem)')
  <1>1. Ambiguous' = Ambiguous
    BY DEF Ambiguous, sameCertifiedToolKey
  <1>2. QED
    BY <1>1 DEF Lone, Doomed, Proven, sameCertifiedToolKey

LEMMA JustifiedIndex ==
    ASSUME NEW idx, AllJustified(idx)
    PROVE  /\ Lone(idx)
           /\ (disk' = idx => AllJustified(disk)') /\ (mem' = idx => AllJustified(mem)')
  <1>1. Ambiguous' = Ambiguous
    BY DEF Ambiguous, sameCertifiedToolKey
  <1>2. Lone(idx)
    BY DEF AllJustified, Lone, Doomed
  <1>3. QED
    BY <1>1, <1>2 DEF AllJustified, Proven

(* A step of a handler, which leaves the index alone or writes one that is  *)
(* sound.                                                                   *)
LEMMA ServingStep ==
    ASSUME IInv, phase = "serving",
           NEW new, Sound(new), AllJustified(new),
           Ranges(mem.checks) \subseteq Ranges(new.checks),
           Ranges(mem.scans) \subseteq Ranges(new.scans),
           Saved(new) \/ NotSaved(new) \/ (new = mem /\ UNCHANGED storeVars),
           handler' \in [Records -> Handlers],
           \A r \in Records : handler'[r] = handler[r] \/ Handled(r)',
           answer' \in [Checks -> Answers],
           UNCHANGED <<crashes, startVars>>
    PROVE  IInv'
  <1> USE DEF startVars
  <1>0. TypeOK /\ Sound(mem) /\ Sound(disk) /\ AllJustified(mem) /\ AllJustified(disk)
    BY DEF IInv, Dealt
  <1>1. mem' = new /\ disk' \in {disk, new} /\ failures' \in 0..MaxFailures
    BY <1>0, BoundsAssumption DEF Saved, NotSaved, storeVars, TypeOK
  <1>2. Sound(mem)' /\ Sound(disk)'
    <2>1. Sound(mem') /\ Sound(disk')
      BY <1>0, <1>1
    <2>2. QED
      BY <2>1 DEF Sound, EntryRests, Earned, Lawful
  <1>3. AllJustified(mem)' /\ AllJustified(disk)'
    BY <1>0, <1>1, JustifiedIndex
  <1>lone. Lone(disk)'
    BY <1>0, <1>1, JustifiedIndex, SameIndex
  <1>4. TypeOK'
    <2>1. mem' \in Index /\ disk' \in Index
      BY <1>2 DEF Sound
    <2>2. QED
      BY <1>0, <1>1, <2>1 DEF TypeOK
  <1>5. ASSUME NEW x \in Records PROVE Handled(x)'
    <2>1. CASE handler'[x] = handler[x]
      <3>1. Handled(x)
        BY <1>5 DEF IInv
      <3>2. QED
        BY <1>1, <1>5, <2>1, <3>1, HandledStays
    <2>2. QED
      BY <1>5, <2>1
  <1>6. Dealt'
    BY <1>3, <1>lone DEF Dealt
  <1>7. QED
    BY <1>2, <1>4, <1>5, <1>6 DEF IInv

LEMMA IdleHandled ==
    ASSUME NEW r \in Records
    PROVE  Idle \in Handlers /\ (handler'[r] = Idle => Handled(r)')
  BY DEF Idle, Handlers, Handled

LEMMA AnswerType ==
    ASSUME TypeOK, NEW r, NEW status \in Answers
    PROVE  /\ r \in Checks /\ Respond(r, status) => answer' \in [Checks -> Answers]
           /\ RespondTo(r, status) => answer' \in [Checks -> Answers]
           /\ UNCHANGED answer => answer' \in [Checks -> Answers]
  BY DEF TypeOK, Respond, RespondTo

(* The handler of one record moves. *)
LEMMA Moves ==
    ASSUME TypeOK, NEW r \in Records, NEW h \in Handlers, Go(r, h)
    PROVE  /\ handler' \in [Records -> Handlers] /\ handler'[r] = h
           /\ \A x \in Records : handler'[x] = handler[x] \/ x = r
  BY DEF TypeOK, Go

LEMMA RegisterPreserves ==
    ASSUME IInv, NEW t \in Tools, RegisterTool(t)
    PROVE  IInv'
  <1> DEFINE new == [mem EXCEPT !.entries = Append(@, t)]
  <1>0. TypeOK /\ Sound(mem) /\ mem \in Index /\ phase = "serving" /\ AllJustified(mem)
    BY DEF IInv, Sound, RegisterTool, Dealt
  <1>1. /\ new \in Index /\ new.certs = mem.certs /\ new.catalog = mem.catalog
        /\ new.checks = mem.checks /\ new.scans = mem.scans
    <2>1. Append(mem.entries, t) \in Seq(Tools)
      BY <1>0, IndexFields, AppendRange
    <2>2. QED
      BY <1>0, <2>1 DEF Index
  <1>2. /\ Saved(new) \/ NotSaved(new)
        /\ UNCHANGED <<crashes, handler, answer, startVars>>
    BY DEF RegisterTool
  <1> HIDE DEF new
  <1>3. Sound(new) /\ AllJustified(new)
    BY <1>0, <1>1, Grown
  <1>4. handler' \in [Records -> Handlers] /\ answer' \in [Checks -> Answers]
    BY <1>0, <1>2 DEF TypeOK
  <1>5. QED
    BY <1>0, <1>1, <1>2, <1>3, <1>4, ServingStep

(* A record is stored, and its handler starts or not. *)
LEMMA SubmitCheckPreserves ==
    ASSUME IInv, NEW c \in Checks, handleSubmitCheckRecord(c)
    PROVE  IInv'
  <1> DEFINE new == [mem EXCEPT !.checks = Append(@, c)]
             started == [Idle EXCEPT !.pc = "list"]
  <1>0. /\ TypeOK /\ Sound(mem) /\ mem \in Index /\ phase = "serving" /\ AllJustified(mem)
        /\ c \in Records
    BY DEF IInv, Sound, handleSubmitCheckRecord, Dealt, Records
  <1>1. /\ new \in Index /\ new.certs = mem.certs /\ new.catalog = mem.catalog
        /\ new.checks = Append(mem.checks, c) /\ new.scans = mem.scans
    <2>1. Append(mem.checks, c) \in Seq(Checks)
      BY <1>0, IndexFields, AppendRange
    <2>2. QED
      BY <1>0, <2>1 DEF Index
  <1>2. \/ /\ Saved(new)
           /\ \/ CertifiesOnCheck(c) /\ Go(c, started) /\ UNCHANGED answer
              \/ Respond(c, "pending") /\ UNCHANGED handler
        \/ NotSaved(new) /\ UNCHANGED <<handler, answer>>
    BY DEF handleSubmitCheckRecord, Evaluate
  <1>3. UNCHANGED <<crashes, startVars>>
    BY DEF handleSubmitCheckRecord
  <1> HIDE DEF new
  <1>4. /\ Ranges(new.checks) = Ranges(mem.checks) \cup {c}
        /\ Ranges(new.scans) = Ranges(mem.scans)
    BY <1>0, <1>1, AppendRange, IndexFields
  <1>5. Sound(new) /\ AllJustified(new)
    BY <1>0, <1>1, <1>4, Grown
  <1>6. answer' \in [Checks -> Answers]
    BY <1>0, <1>2, AnswerType DEF Answers
  <1>7. started \in Handlers /\ started.pc = "list"
    BY DEF Idle, Handlers
  <1>8. CASE CertifiesOnCheck(c) /\ Go(c, started) /\ Saved(new)
    <2>1. /\ handler' \in [Records -> Handlers] /\ handler'[c] = started
          /\ \A x \in Records : handler'[x] = handler[x] \/ x = c
      BY <1>0, <1>7, <1>8, Moves
    <2>2. Handled(c)'
      BY <1>0, <1>3, <1>4, <1>7, <1>8, <2>1 DEF Handled, Saved, startVars
    <2>3. \A x \in Records : handler'[x] = handler[x] \/ Handled(x)'
      BY <2>1, <2>2
    <2>4. QED
      BY <1>0, <1>3, <1>4, <1>5, <1>6, <1>8, <2>1, <2>3, ServingStep
  <1>9. CASE UNCHANGED handler
    <2>1. handler' \in [Records -> Handlers] /\ (Saved(new) \/ NotSaved(new))
      BY <1>0, <1>2, <1>9 DEF TypeOK
    <2>2. QED
      BY <1>0, <1>3, <1>4, <1>5, <1>6, <1>9, <2>1, ServingStep
  <1>10. QED
    BY <1>2, <1>8, <1>9

LEMMA SubmitScanPreserves ==
    ASSUME IInv, NEW s \in Scans, handleSubmitScanRecord(s)
    PROVE  IInv'
  <1> DEFINE new == [mem EXCEPT !.scans = Append(@, s)]
             started == [Idle EXCEPT !.pc = "list"]
  <1>0. /\ TypeOK /\ Sound(mem) /\ mem \in Index /\ phase = "serving" /\ AllJustified(mem)
        /\ s \in Records
    BY DEF IInv, Sound, handleSubmitScanRecord, Dealt, Records
  <1>1. /\ new \in Index /\ new.certs = mem.certs /\ new.catalog = mem.catalog
        /\ new.scans = Append(mem.scans, s) /\ new.checks = mem.checks
    <2>1. Append(mem.scans, s) \in Seq(Scans)
      BY <1>0, IndexFields, AppendRange
    <2>2. QED
      BY <1>0, <2>1 DEF Index
  <1>2. \/ /\ Saved(new)
           /\ \/ ScanDecides(s) /\ Go(s, started)
              \/ UNCHANGED handler
        \/ NotSaved(new) /\ UNCHANGED handler
    BY DEF handleSubmitScanRecord, Evaluate
  <1>3. UNCHANGED <<crashes, answer, startVars>>
    BY DEF handleSubmitScanRecord
  <1> HIDE DEF new
  <1>4. /\ Ranges(new.scans) = Ranges(mem.scans) \cup {s}
        /\ Ranges(new.checks) = Ranges(mem.checks)
    BY <1>0, <1>1, AppendRange, IndexFields
  <1>5. Sound(new) /\ AllJustified(new)
    BY <1>0, <1>1, <1>4, Grown
  <1>6. answer' \in [Checks -> Answers]
    BY <1>0, <1>3 DEF TypeOK
  <1>7. started \in Handlers /\ started.pc = "list"
    BY DEF Idle, Handlers
  <1>8. CASE ScanDecides(s) /\ Go(s, started) /\ Saved(new)
    <2>1. /\ handler' \in [Records -> Handlers] /\ handler'[s] = started
          /\ \A x \in Records : handler'[x] = handler[x] \/ x = s
      BY <1>0, <1>7, <1>8, Moves
    <2>2. Handled(s)'
      BY <1>0, <1>3, <1>4, <1>7, <1>8, <2>1 DEF Handled, Saved, startVars
    <2>3. \A x \in Records : handler'[x] = handler[x] \/ Handled(x)'
      BY <2>1, <2>2
    <2>4. QED
      BY <1>0, <1>3, <1>4, <1>5, <1>6, <1>8, <2>1, <2>3, ServingStep
  <1>9. CASE UNCHANGED handler
    <2>1. handler' \in [Records -> Handlers] /\ (Saved(new) \/ NotSaved(new))
      BY <1>0, <1>2, <1>9 DEF TypeOK
    <2>2. QED
      BY <1>0, <1>3, <1>4, <1>5, <1>6, <1>9, <2>1, ServingStep
  <1>10. QED
    BY <1>2, <1>8, <1>9

LEMMA DuplicatePreserves ==
    ASSUME IInv, NEW c \in Checks, DuplicateCheck(c)
    PROVE  IInv'
  <1>0. TypeOK /\ Sound(mem) /\ phase = "serving" /\ AllJustified(mem)
    BY DEF IInv, DuplicateCheck, Dealt
  <1>1. answer' \in [Checks -> Answers]
    BY <1>0, AnswerType DEF DuplicateCheck, Answers
  <1>2. handler' \in [Records -> Handlers] /\ UNCHANGED <<storeVars, crashes, handler, startVars>>
    BY <1>0 DEF TypeOK, DuplicateCheck
  <1>3. QED
    BY <1>0, <1>1, <1>2, ServingStep

-----------------------------------------------------------------------------
(* Evaluation *)

LEMMA LatestScanFound ==
    ASSUME mem \in Index, NEW image
    PROVE  \/ LatestScan(image) = None
           \/ /\ LatestScan(image) \in Ranges(mem.scans)
              /\ LatestScan(image) \in Scans
              /\ LatestScan(image).image = image
  <1> DEFINE all == {i \in DOMAIN mem.scans : mem.scans[i].image = image}
             hits == {i \in all : \A j \in all : mem.scans[j].at <= mem.scans[i].at}
  <1>1. mem.scans \in Seq(Scans) /\ Ranges(mem.scans) \subseteq Scans
    BY IndexFields
  <1>2. CASE \E i \in hits : First(mem.scans, hits) = mem.scans[i]
    BY <1>1, <1>2 DEF LatestScan, Ranges
  <1>3. QED
    BY <1>1, <1>2, FirstHit DEF LatestScan

LEMMA CheckFound ==
    ASSUME mem \in Index, NEW image
    PROVE  \/ FirstAdmissible(image) = None
           \/ /\ FirstAdmissible(image) \in Ranges(mem.checks)
              /\ FirstAdmissible(image) \in Checks
              /\ FirstAdmissible(image).image = image
              /\ Admissible(FirstAdmissible(image))
  <1> DEFINE hits == {i \in DOMAIN mem.checks :
                         mem.checks[i].image = image /\ Admissible(mem.checks[i])}
  <1>1. mem.checks \in Seq(Checks) /\ Ranges(mem.checks) \subseteq Checks
    BY IndexFields
  <1>2. CASE \E i \in hits : First(mem.checks, hits) = mem.checks[i]
    BY <1>1, <1>2 DEF FirstAdmissible, Ranges
  <1>3. QED
    BY <1>1, <1>2, FirstHit DEF FirstAdmissible

LEMMA EntryFound ==
    ASSUME mem \in Index, NEW image
    PROVE  \/ GetByImageDigest(image) = None
           \/ GetByImageDigest(image) \in Tools /\ ImageOf[GetByImageDigest(image)] = image
  <1> DEFINE hits == {i \in DOMAIN mem.entries : ImageOf[mem.entries[i]] = image}
  <1>1. mem.entries \in Seq(Tools)
    BY IndexFields
  <1>2. CASE \E i \in hits : First(mem.entries, hits) = mem.entries[i]
    BY <1>1, <1>2 DEF GetByImageDigest
  <1>3. QED
    BY <1>1, <1>2, FirstHit DEF GetByImageDigest

(* A handler goes on without writing. *)
LEMMA MovePreserves ==
    ASSUME IInv, NEW r \in Records, phase = "serving", NEW h \in Handlers, Go(r, h),
           UNCHANGED <<storeVars, crashes, startVars>>, answer' \in [Checks -> Answers],
           Handled(r)'
    PROVE  IInv'
  <1>0. TypeOK /\ Sound(mem) /\ AllJustified(mem)
    BY DEF IInv, Dealt
  <1>1. /\ handler' \in [Records -> Handlers]
        /\ \A x \in Records : handler'[x] = handler[x] \/ Handled(x)'
    BY <1>0, Moves
  <1>2. QED
    BY <1>0, <1>1, ServingStep

LEMMA EvaluateCheckPreserves ==
    ASSUME IInv, NEW c \in Checks, EvaluateAfterCheck(c)
    PROVE  IInv'
  <1> DEFINE h == [handler[c] EXCEPT !.pc = "certify", !.check = c, !.scan = LatestScan(c.image)]
  <1>0. TypeOK /\ mem \in Index /\ c \in Records /\ handler[c] \in Handlers /\ Handled(c)
    BY DEF IInv, TypeOK, Records
  <1>1. /\ handler[c].pc = "list" /\ Go(c, h)
        /\ UNCHANGED <<storeVars, crashes, answer, startVars>>
    BY DEF EvaluateAfterCheck
  <1>2. phase = "serving" /\ c \in Ranges(mem.checks) /\ CertifiesOnCheck(c)
    BY <1>0, <1>1, RecordsDiffer DEF Handled
  <1>3. h \in Handlers /\ h.pc = "certify" /\ h.check = c /\ h.scan = LatestScan(c.image)
    BY <1>0, LatestScanFound DEF Handlers
  <1> HIDE DEF h
  <1>4. handler'[c] = h
    BY <1>0, <1>1, <1>3, Moves
  <1>5. Backed(mem', h)
    BY <1>0, <1>1, <1>2, <1>3, LatestScanFound DEF Backed, storeVars, CertifiesOnCheck
  <1>6. Handled(c)'
    BY <1>1, <1>2, <1>3, <1>4, <1>5 DEF Handled, startVars, Backed
  <1>7. answer' \in [Checks -> Answers]
    BY <1>0, <1>1 DEF TypeOK
  <1>8. QED
    BY <1>0, <1>1, <1>2, <1>3, <1>6, <1>7, MovePreserves

LEMMA EvaluateScanPreserves ==
    ASSUME IInv, NEW s \in Scans, EvaluateAfterScan(s)
    PROVE  IInv'
  <1> DEFINE check == FirstAdmissible(s.image)
             h == [handler[s] EXCEPT !.pc = "certify", !.check = check, !.scan = s]
  <1>0. TypeOK /\ mem \in Index /\ s \in Records /\ handler[s] \in Handlers /\ Handled(s)
    BY DEF IInv, TypeOK, Records
  <1>1. /\ handler[s].pc = "list"
        /\ UNCHANGED <<storeVars, crashes, answer, startVars>>
        /\ (check = None /\ Go(s, Idle)) \/ (check # None /\ Go(s, h))
    BY DEF EvaluateAfterScan, Return
  <1>2. phase = "serving" /\ s \in Ranges(mem.scans) /\ ScanDecides(s) /\ s # None
    BY <1>0, <1>1, RecordsDiffer DEF Handled
  <1>3. answer' \in [Checks -> Answers]
    BY <1>0, <1>1 DEF TypeOK
  <1>4. CASE check = None /\ Go(s, Idle)
    <2>1. Idle \in Handlers /\ Handled(s)'
      BY <1>0, <1>4, IdleHandled, Moves
    <2>2. QED
      BY <1>0, <1>1, <1>2, <1>3, <1>4, <2>1, MovePreserves
  <1>5. CASE check # None /\ Go(s, h)
    <2>1. /\ check \in Ranges(mem.checks) /\ check \in Checks /\ check.image = s.image
          /\ Admissible(check)
      BY <1>0, <1>5, CheckFound
    <2> HIDE DEF check
    <2>2. h \in Handlers /\ h.pc = "certify" /\ h.check = check /\ h.scan = s
      BY <1>0, <2>1 DEF Handlers
    <2> HIDE DEF h
    <2>3. handler'[s] = h
      BY <1>0, <1>5, <2>2, Moves
    <2>4. Backed(mem', h)
      BY <1>1, <1>2, <2>1, <2>2 DEF Backed, storeVars, ScanDecides, Blocked
    <2>5. Handled(s)'
      BY <1>1, <1>2, <2>2, <2>3, <2>4 DEF Handled, startVars, Backed
    <2>6. QED
      BY <1>0, <1>1, <1>2, <1>3, <1>5, <2>2, <2>5, MovePreserves
  <1>6. QED
    BY <1>1, <1>4, <1>5

(* The certification a handler writes. *)
LEMMA CertWritten ==
    ASSUME mem \in Index, NEW h \in Handlers, Backed(mem, h), NEW cas,
           cas = GetByImageDigest(h.check.image),
           NEW cert, cert = [image |-> h.check.image, key |-> h.check.key, cas |-> cas,
                             active |-> ~Blocked(h.scan), check |-> h.check, scan |-> h.scan]
    PROVE  /\ cert \in Cert /\ Lawful(cert)
           /\ cert.active => Proven(mem, cert)
  <1>1. h.check \in Checks /\ h.check \in Check /\ h.check # None /\ h.scan \in Scans \cup {None}
    BY IndexFields, RecordsAssumption DEF Backed, Handlers
  <1>2. cas \in Tools \cup {None} /\ (cas = None \/ ImageOf[cas] = h.check.image)
    BY EntryFound
  <1>3. cert \in Cert
    BY <1>1, <1>2 DEF Cert, Check
  <1>4. Lawful(cert)
    BY <1>1, <1>2 DEF Lawful, Backed
  <1>5. cert.active => Proven(mem, cert)
    BY DEF Backed, Proven, Blocked
  <1>6. QED
    BY <1>3, <1>4, <1>5

LEMMA CertifyPreserves ==
    ASSUME IInv, NEW r \in Records, certify(r)
    PROVE  IInv'
  <1> DEFINE h == handler[r]
             cas == GetByImageDigest(h.check.image)
             cert == [image |-> h.check.image, key |-> h.check.key, cas |-> cas,
                      active |-> ~Blocked(h.scan), check |-> h.check, scan |-> h.scan]
             new == [mem EXCEPT !.certs = Upsert(@, cert)]
             next == [h EXCEPT !.pc = "catalog", !.cas = cas]
  <1>0. /\ TypeOK /\ mem \in Index /\ h \in Handlers /\ Handled(r)
        /\ Sound(mem)
    BY DEF IInv, TypeOK
  <1>1. /\ h.pc = "certify" /\ UNCHANGED <<crashes, startVars>>
        /\ \/ Go(r, Idle) /\ RespondTo(r, "failed") /\ UNCHANGED storeVars
           \/ /\ Saved(new)
              /\ \/ Go(r, Idle) /\ RespondTo(r, "certified")
                 \/ cas # None /\ Go(r, next) /\ UNCHANGED answer
           \/ NotSaved(new) /\ Go(r, Idle) /\ RespondTo(r, "failed")
    BY DEF certify, WithCert, Return
  <1>2. phase = "serving" /\ Backed(mem, h) /\ AllJustified(mem)
    BY <1>0, <1>1 DEF Handled, IInv, Dealt
  <1>3. /\ cert \in Cert /\ Lawful(cert)
        /\ cert.active => Proven(mem, cert)
    BY <1>0, <1>2, CertWritten
  <1>4. cas = None \/ (cas \in Tools /\ ImageOf[cas] = h.check.image)
    BY <1>0, EntryFound
  <1> HIDE DEF cert, cas
  <1>5. Sound(new) /\ AllJustified(new) /\ new.checks = mem.checks /\ new.scans = mem.scans
    BY <1>0, <1>2, <1>3, Certified
  <1> HIDE DEF new
  <1>6. answer' \in [Checks -> Answers]
    BY <1>0, <1>1, AnswerType DEF Answers
  <1>7. CASE Go(r, Idle)
    <2>1. Idle \in Handlers
      BY IdleHandled
    <2>2. /\ handler' \in [Records -> Handlers] /\ handler'[r] = Idle
          /\ \A x \in Records : handler'[x] = handler[x] \/ x = r
      BY <1>0, <1>7, <2>1, Moves
    <2>3. \A x \in Records : handler'[x] = handler[x] \/ Handled(x)'
      BY <2>2, IdleHandled
    <2>4. CASE UNCHANGED storeVars
      BY <1>0, <1>1, <1>2, <1>6, <2>2, <2>3, <2>4, ServingStep
    <2>5. CASE Saved(new) \/ NotSaved(new)
      BY <1>0, <1>1, <1>2, <1>5, <1>6, <2>2, <2>3, <2>5, ServingStep
    <2>6. QED
      BY <1>1, <2>4, <2>5
  <1>8. CASE Saved(new) /\ cas # None /\ Go(r, next)
    <2>1. /\ next \in Handlers /\ next.pc = "catalog" /\ next.cas = cas
          /\ next.check = h.check /\ next.scan = h.scan
      BY <1>0, <1>4, <1>8 DEF Handlers
    <2> HIDE DEF next
    <2>2. /\ handler' \in [Records -> Handlers] /\ handler'[r] = next
          /\ \A x \in Records : handler'[x] = handler[x] \/ x = r
      BY <1>0, <1>8, <2>1, Moves
    <2>3. mem' = new
      BY <1>8 DEF Saved
    <2>4. Backed(mem', next)
      BY <1>2, <1>5, <2>1, <2>3 DEF Backed
    <2>5. Handled(r)'
      BY <1>1, <1>2, <1>4, <1>8, <2>1, <2>2, <2>4 DEF Handled, startVars, Backed
    <2>6. \A x \in Records : handler'[x] = handler[x] \/ Handled(x)'
      BY <2>2, <2>5
    <2>7. QED
      BY <1>0, <1>1, <1>2, <1>5, <1>6, <1>8, <2>2, <2>6, ServingStep
  <1>9. QED
    BY <1>1, <1>7, <1>8

(* The catalog entry a handler writes. *)
LEMMA EntryWritten ==
    ASSUME Sound(mem), AllJustified(mem), NEW t \in Tools, NEW entry \in CatalogEntry,
           entry.image = ImageOf[t] /\ (entry.active => Earned(mem, entry)),
           NEW new, new = [mem EXCEPT !.catalog[t] = entry]
    PROVE  Sound(new) /\ AllJustified(new) /\ new.checks = mem.checks /\ new.scans = mem.scans
  <1>1. EntryRests(mem, t, entry)
    BY DEF EntryRests
  <1>2. new = PutEntry(mem, t, entry)
    BY DEF PutEntry
  <1>3. Sound(new) /\ AllJustified(new)
    BY <1>1, <1>2, Cataloged
  <1>4. new.checks = mem.checks /\ new.scans = mem.scans
    BY <1>2, PutFields DEF Sound
  <1>5. QED
    BY <1>3, <1>4

LEMMA CatalogPreserves ==
    ASSUME IInv, NEW r \in Records, UpsertToolFunctionCatalogEntry(r)
    PROVE  IInv'
  <1> DEFINE h == handler[r]
             entry == [image |-> h.check.image, check |-> h.check, active |-> ~Blocked(h.scan)]
             new == [mem EXCEPT !.catalog[h.cas] = entry]
  <1>0. TypeOK /\ mem \in Index /\ h \in Handlers /\ Handled(r) /\ Sound(mem)
    BY DEF IInv, TypeOK
  <1>1. /\ h.pc = "catalog" /\ UNCHANGED <<crashes, startVars>> /\ Go(r, Idle)
        /\ \/ Saved(new) /\ RespondTo(r, "certified")
           \/ NotSaved(new) /\ RespondTo(r, "failed")
    BY DEF UpsertToolFunctionCatalogEntry, WithEntry, Return
  <1>2. /\ phase = "serving" /\ Backed(mem, h) /\ AllJustified(mem)
        /\ h.cas \in Tools /\ ImageOf[h.cas] = h.check.image
    BY <1>0, <1>1 DEF Handled, IInv, Dealt
  <1>3. h.check \in Checks /\ h.check \in Check /\ h.scan \in Scans \cup {None}
    BY <1>0, <1>2, IndexFields, RecordsAssumption DEF Backed, Handlers
  <1>4. entry \in CatalogEntry
    BY <1>3 DEF CatalogEntry, Check
  <1>5. entry.image = ImageOf[h.cas] /\ (entry.active => Earned(mem, entry))
    BY <1>2, <1>3 DEF Backed, Earned, Blocked
  <1> HIDE DEF entry
  <1>6. Sound(new) /\ AllJustified(new) /\ new.checks = mem.checks /\ new.scans = mem.scans
    BY <1>0, <1>2, <1>4, <1>5, EntryWritten
  <1> HIDE DEF new
  <1>7. answer' \in [Checks -> Answers]
    BY <1>0, <1>1, AnswerType DEF Answers
  <1>8. Idle \in Handlers
    BY IdleHandled
  <1>9. /\ handler' \in [Records -> Handlers] /\ handler'[r] = Idle
        /\ \A x \in Records : handler'[x] = handler[x] \/ x = r
    BY <1>0, <1>1, <1>8, Moves
  <1>10. \A x \in Records : handler'[x] = handler[x] \/ Handled(x)'
    BY <1>9, IdleHandled
  <1>11. QED
    BY <1>0, <1>1, <1>2, <1>6, <1>7, <1>9, <1>10, ServingStep

-----------------------------------------------------------------------------
(* Startup *)

LEMMA StartupHandled ==
    ASSUME IInv, phase # "serving", handler' = handler
    PROVE  \A r \in Records : Handled(r)'
  BY DEF IInv, Handled

LEMMA KeptSound ==
    ASSUME Sound(mem), Sound(disk), UNCHANGED <<mem, disk>>
    PROVE  Sound(mem)' /\ Sound(disk)'
  BY DEF Sound, EntryRests, Earned, Lawful

(* What the next step of the pass over the certifications starts from. *)
LEMMA VisitingNext ==
    ASSUME NEW idx, mem' = idx,
           \A e \in Ranges(todo') : Lawful(e),
           \A i \in DOMAIN idx.certs : idx.certs[i].active =>
              \/ idx.certs[i] \in Ranges(todo')
              \/ Settled(idx, survivor', idx.certs[i])
              \/ Missed(idx, idx.certs[i]),
           \A e \in Ranges(todo') : \A k \in DOMAIN idx.certs :
              Doomed(idx, idx.certs[k]) /\ sameCertifiedToolKey(e, idx.certs[k])
              => e = idx.certs[k]
    PROVE  Visiting'
  <1>1. Ambiguous' = Ambiguous
    BY DEF Ambiguous, sameCertifiedToolKey
  <1>2. (\A e \in Ranges(todo) : Lawful(e))'
    BY DEF Lawful, Ranges
  <1>3. QED
    BY <1>1, <1>2 DEF Visiting, Settled, Missed, Doomed, Proven, sameCertifiedToolKey, Ranges

LEMMA ReviewingNext ==
    ASSUME NEW idx, mem' = idx,
           \A i \in DOMAIN idx.certs : idx.certs[i].active =>
              Settled(idx, survivor', idx.certs[i]) \/ Missed(idx, idx.certs[i]),
           \A t \in stale' : idx.catalog[t] # None /\ idx.catalog[t].active
    PROVE  Reviewing'
  <1>1. Ambiguous' = Ambiguous
    BY DEF Ambiguous, sameCertifiedToolKey
  <1>2. QED
    BY <1>1 DEF Reviewing, Settled, Missed, Proven

LEMMA ListPreserves ==
    ASSUME IInv, ListCertifications
    PROVE  IInv'
  <1> USE DEF ListCertifications, storeVars
  <1>0. /\ TypeOK /\ Sound(mem) /\ Sound(disk) /\ mem \in Index /\ mem = disk
        /\ Lone(mem)
    BY DEF IInv, Sound, Dealt
  <1>1. Sound(mem)' /\ Sound(disk)'
    BY <1>0, KeptSound
  <1>2. mem.certs \in Seq(Cert) /\ Ranges(todo') = Ranges(mem.certs)
    BY <1>0, IndexFields
  <1>3. TypeOK'
    BY <1>0, <1>2 DEF TypeOK, Phases, NothingRetracted
  <1>4. Visiting'
    <2>1. \A e \in Ranges(todo') : Lawful(e)
      BY <1>0, <1>2 DEF Sound, Ranges
    <2>2. \A i \in DOMAIN mem.certs : mem.certs[i] \in Ranges(todo')
      BY <1>2 DEF Ranges
    <2>3. \A e \in Ranges(todo') : \A k \in DOMAIN mem.certs :
              Doomed(mem, mem.certs[k]) /\ sameCertifiedToolKey(e, mem.certs[k])
              => e = mem.certs[k]
      BY <1>0, <1>2 DEF Lone, Ranges
    <2>4. mem' = mem
      OBVIOUS
    <2>5. QED
      BY <2>1, <2>2, <2>3, <2>4, VisitingNext
  <1>5. Survivors'
    BY DEF Survivors
  <1>6. Dealt'
    BY <1>0, <1>4, <1>5, SameIndex DEF Dealt
  <1>7. \A r \in Records : Handled(r)'
    BY StartupHandled
  <1>8. QED
    BY <1>1, <1>3, <1>6, <1>7 DEF IInv

LEMMA SurvivesPreserves ==
    ASSUME IInv, Survives
    PROVE  IInv'
  <1> DEFINE cert == Head(todo)
  <1>0. /\ TypeOK /\ Sound(mem) /\ Sound(disk) /\ mem \in Index /\ mem = disk
        /\ Lone(disk)
        /\ Visiting /\ Survivors /\ phase = "certs" /\ todo # <<>> /\ todo \in Seq(Cert)
        /\ UNCHANGED <<mem, disk, failures, crashes, handler, answer, phase, retracted, stale>>
        /\ todo' = Tail(todo)
        /\ cert.active => Proven(mem, cert)
        /\ survivor' = [t \in Tools |-> IF cert.active /\ t = cert.cas /\ survivor[t] = None
                                        THEN cert ELSE survivor[t]]
    BY DEF IInv, Sound, Dealt, Survives, TypeOK, storeVars
  <1>1. /\ Tail(todo) \in Seq(Cert) /\ cert \in Cert
        /\ Ranges(todo) = {cert} \cup Ranges(todo')
    BY <1>0, TailRange
  <1> HIDE DEF cert
  <1>2. cert.cas \in Tools \cup {None}
    BY <1>1 DEF Cert
  <1>3. TypeOK'
    BY <1>0, <1>1 DEF TypeOK
  <1>4. Sound(mem)' /\ Sound(disk)'
    BY <1>0, KeptSound
  <1>5. \A t \in Tools : survivor[t] # None => survivor'[t] # None
    BY <1>0
  <1>6. ASSUME NEW c \in Cert, Settled(mem, survivor, c) PROVE Settled(mem', survivor', c)
    <2>1. c.cas \in Tools \cup {None}
      BY <1>6 DEF Cert
    <2>2. QED
      BY <1>0, <1>5, <1>6, <2>1 DEF Settled, Proven
  <1>7. cert.active => Settled(mem', survivor', cert)
    <2>1. cert.active /\ cert.cas # None => survivor'[cert.cas] # None
      BY <1>0, <1>1, <1>2, RecordsAssumption
    <2>2. QED
      BY <1>0, <2>1 DEF Settled, Proven
  <1>8. Visiting'
    <2>1. \A e \in Ranges(todo') : Lawful(e)
      BY <1>0, <1>1 DEF Visiting
    <2>2. ASSUME NEW i \in DOMAIN mem.certs, mem.certs[i].active
          PROVE  \/ mem.certs[i] \in Ranges(todo')
                 \/ Settled(mem, survivor', mem.certs[i])
                 \/ Missed(mem, mem.certs[i])
      <3>1. mem.certs[i] \in Cert
        BY <1>0, <2>2, IndexFields
      <3>2. mem' = mem
        BY <1>0
      <3>3. CASE mem.certs[i] = cert
        BY <1>7, <2>2, <3>2, <3>3
      <3>4. CASE Settled(mem, survivor, mem.certs[i])
        BY <1>6, <3>1, <3>2, <3>4
      <3>5. QED
        BY <1>0, <1>1, <2>2, <3>3, <3>4 DEF Visiting
    <2>3. \A e \in Ranges(todo') : \A k \in DOMAIN mem.certs :
              Doomed(mem, mem.certs[k]) /\ sameCertifiedToolKey(e, mem.certs[k])
              => e = mem.certs[k]
      BY <1>0, <1>1 DEF Visiting
    <2>4. mem' = mem
      BY <1>0
    <2>5. QED
      BY <2>1, <2>2, <2>3, <2>4, VisitingNext
  <1>9. Survivors'
    <2>1. ASSUME NEW t \in Tools, survivor'[t] # None
          PROVE  Lawful(survivor'[t]) /\ survivor'[t].cas = t /\ Proven(mem, survivor'[t])
      <3>1. CASE survivor'[t] = survivor[t]
        BY <1>0, <2>1, <3>1 DEF Survivors
      <3>2. CASE survivor'[t] = cert /\ cert.active /\ t = cert.cas
        BY <1>0, <1>1, <3>2 DEF Visiting
      <3>3. QED
        BY <1>0, <2>1, <3>1, <3>2
    <2>2. QED
      BY <1>0, <2>1 DEF Survivors, Lawful, Proven
  <1>10. Dealt'
    BY <1>0, <1>8, <1>9, SameIndex DEF Dealt
  <1>11. \A r \in Records : Handled(r)'
    BY <1>0, StartupHandled
  <1>12. QED
    BY <1>3, <1>4, <1>10, <1>11 DEF IInv

Off(cert) == [cert EXCEPT !.active = FALSE]

(* What a retraction writes. *)
LEMMA OffRecord ==
    ASSUME NEW cert \in Cert
    PROVE  /\ Off(cert) \in Cert /\ ~Off(cert).active
           /\ Off(cert).key = cert.key /\ Off(cert).image = cert.image
           /\ Lawful(cert) => Lawful(Off(cert))
  <1> DEFINE off == Off(cert)
  <1>1. /\ off \in Cert /\ ~off.active /\ off.key = cert.key /\ off.image = cert.image
        /\ off.check = cert.check /\ off.cas = cert.cas /\ off.scan = cert.scan
    BY DEF Cert, Off
  <1> HIDE DEF off
  <1>2. Lawful(cert) => Lawful(off)
    BY <1>1 DEF Lawful
  <1>3. QED
    BY <1>1, <1>2 DEF off

(* A retraction replaces the certification it is about if no other record   *)
(* has its key.                                                             *)
LEMMA RetractsInPlace ==
    ASSUME NEW idx \in Index, Lone(idx), NEW k \in DOMAIN idx.certs, Doomed(idx, idx.certs[k])
    PROVE  /\ k \in DOMAIN Upsert(idx.certs, Off(idx.certs[k]))
           /\ Upsert(idx.certs, Off(idx.certs[k]))[k] = Off(idx.certs[k])
  <1> DEFINE cert == idx.certs[k]
             off == Off(cert)
  <1>0. idx.certs \in Seq(Cert) /\ cert \in Cert
    BY IndexFields
  <1>1. off \in Cert /\ off.key = cert.key /\ off.image = cert.image
    BY <1>0, OffRecord
  <1> HIDE DEF off
  <1>2. sameCertifiedToolKey(idx.certs[k], off)
    BY <1>1 DEF sameCertifiedToolKey
  <1>3. ASSUME NEW i \in DOMAIN idx.certs, sameCertifiedToolKey(idx.certs[i], off)
        PROVE  i = k
    <2>1. sameCertifiedToolKey(idx.certs[i], idx.certs[k])
      BY <1>1, <1>3 DEF sameCertifiedToolKey
    <2>2. QED
      BY <2>1 DEF Lone
  <1>4. Upsert(idx.certs, off) = [idx.certs EXCEPT ![k] = off]
    BY <1>0, <1>1, <1>2, <1>3, UpsertedInPlace
  <1>5. QED
    BY <1>0, <1>1, <1>4 DEF off

LEMMA RetractPreserves ==
    ASSUME IInv, RetractUnproven
    PROVE  IInv'
  <1> DEFINE cert == Head(todo)
             off == Off(cert)
             new == [mem EXCEPT !.certs = Upsert(@, off)]
  <1>0. /\ TypeOK /\ Sound(mem) /\ Sound(disk) /\ mem \in Index /\ mem = disk
        /\ Lone(disk)
        /\ Visiting /\ Survivors /\ phase = "certs" /\ todo # <<>> /\ todo \in Seq(Cert)
        /\ cert.active /\ ~Proven(mem, cert)
        /\ UNCHANGED <<crashes, handler, answer, survivor, stale>>
    BY DEF IInv, Sound, Dealt, RetractUnproven, TypeOK
  <1>1. \/ /\ Saved(new) /\ todo' = Tail(todo) /\ UNCHANGED phase
           /\ retracted' = [cas |-> retracted.cas \cup ({cert.cas} \ {None}),
                            images |-> retracted.images \cup {cert.image}]
        \/ NotSaved(new) /\ phase' = "exited" /\ UNCHANGED <<retracted, todo>>
    BY DEF RetractUnproven, WithCert, Off
  <1>2. /\ Tail(todo) \in Seq(Cert) /\ cert \in Cert
        /\ Ranges(todo) = {cert} \cup Ranges(Tail(todo))
    BY <1>0, TailRange
  <1>3. cert \in Ranges(todo) /\ cert.cas \in Tools \cup {None} /\ cert.image \in Images
    BY <1>2 DEF Cert
  <1> DEFINE certs == Upsert(mem.certs, off)
  <1>4. /\ off \in Cert /\ ~off.active /\ Lawful(off)
        /\ off.key = cert.key /\ off.image = cert.image
    BY <1>0, <1>2, <1>3, OffRecord DEF Visiting
  <1> HIDE DEF cert, off
  <1>6. /\ Sound(new) /\ new.checks = mem.checks /\ new.scans = mem.scans /\ new.certs = certs
        /\ new.catalog = mem.catalog
    BY <1>0, <1>4, Certified
  <1> HIDE DEF new
  <1>7. mem.certs \in Seq(Cert)
    BY <1>0, IndexFields
  <1>8. \A i \in DOMAIN new.certs :
            new.certs[i] = off \/ (i \in DOMAIN mem.certs /\ new.certs[i] = mem.certs[i])
    BY <1>4, <1>6, <1>7, Upserted
  <1>9. ASSUME NEW k \in DOMAIN new.certs, new.certs[k].active
        PROVE  /\ k \in DOMAIN mem.certs /\ new.certs[k] = mem.certs[k]
               /\ mem.certs[k] = cert => cert \in Ambiguous
    <2>1. k \in DOMAIN mem.certs /\ new.certs[k] = mem.certs[k]
      BY <1>4, <1>8, <1>9
    <2>2. ASSUME mem.certs[k] = cert, cert \notin Ambiguous PROVE FALSE
      <3>1. Doomed(mem, mem.certs[k]) /\ Lone(mem)
        BY <1>0, <2>2 DEF Doomed
      <3>2. new.certs[k] = off
        BY <1>0, <1>6, <2>1, <2>2, <3>1, RetractsInPlace DEF off
      <3>3. QED
        BY <1>4, <1>9, <3>2
    <2>3. QED
      BY <2>1, <2>2
  <1>10. \A c : Proven(new, c) <=> Proven(mem, c)
    BY <1>6 DEF Proven
  <1>11. Lone(new)
    <2>1. ASSUME NEW i \in DOMAIN new.certs, NEW k \in DOMAIN new.certs,
                 Doomed(new, new.certs[k]), sameCertifiedToolKey(new.certs[i], new.certs[k])
          PROVE  i = k
      <3>1. k \in DOMAIN mem.certs /\ new.certs[k] = mem.certs[k] /\ mem.certs[k] # cert
            /\ Doomed(mem, mem.certs[k])
        BY <1>9, <1>10, <2>1 DEF Doomed
      <3>2. CASE new.certs[i] = off
        <4>1. sameCertifiedToolKey(cert, mem.certs[k])
          BY <1>4, <2>1, <3>1, <3>2 DEF sameCertifiedToolKey
        <4>2. QED
          BY <1>0, <1>3, <3>1, <4>1 DEF Visiting
      <3>3. CASE i \in DOMAIN mem.certs /\ new.certs[i] = mem.certs[i]
        BY <1>0, <2>1, <3>1, <3>3 DEF Lone
      <3>4. QED
        BY <1>8, <3>2, <3>3
    <2>2. QED
      BY <2>1 DEF Lone
  <1>12. \A r \in Records : Handled(r)'
    BY <1>0, StartupHandled
  <1>13. CASE /\ Saved(new) /\ todo' = Tail(todo) /\ UNCHANGED phase
              /\ retracted' = [cas |-> retracted.cas \cup ({cert.cas} \ {None}),
                               images |-> retracted.images \cup {cert.image}]
    <2>1. mem' = new /\ disk' = new /\ failures' = failures
      BY <1>13 DEF Saved
    <2>2. Sound(mem)' /\ Sound(disk)'
      <3>1. Sound(mem') /\ Sound(disk')
        BY <1>6, <2>1
      <3>2. QED
        BY <3>1 DEF Sound, EntryRests, Earned, Lawful
    <2>3. TypeOK'
      <3>1. mem' \in Index /\ disk' \in Index
        BY <1>6, <2>1 DEF Sound
      <3>2. retracted' \in [cas: SUBSET Tools, images: SUBSET Images]
        BY <1>0, <1>3, <1>13 DEF TypeOK
      <3>3. QED
        BY <1>0, <1>2, <1>13, <2>1, <3>1, <3>2 DEF TypeOK
    <2>4. Visiting'
      <3>1. \A e \in Ranges(todo') : Lawful(e)
        BY <1>0, <1>2, <1>13 DEF Visiting
      <3>2. ASSUME NEW i \in DOMAIN new.certs, new.certs[i].active
            PROVE  \/ new.certs[i] \in Ranges(todo')
                   \/ Settled(new, survivor', new.certs[i])
                   \/ Missed(new, new.certs[i])
        <4>1. i \in DOMAIN mem.certs /\ new.certs[i] = mem.certs[i]
              /\ (mem.certs[i] = cert => cert \in Ambiguous)
          BY <1>9, <3>2
        <4>2. CASE mem.certs[i] = cert
          BY <1>0, <1>10, <4>1, <4>2 DEF Missed
        <4>3. CASE Settled(mem, survivor, mem.certs[i])
          BY <1>0, <1>10, <4>1, <4>3 DEF Settled
        <4>4. CASE Missed(mem, mem.certs[i])
          BY <1>10, <4>1, <4>4 DEF Missed
        <4>5. CASE mem.certs[i] \in Ranges(todo) /\ mem.certs[i] # cert
          BY <1>2, <1>13, <4>1, <4>5
        <4>6. QED
          BY <1>0, <3>2, <4>1, <4>2, <4>3, <4>4, <4>5 DEF Visiting
      <3>3. ASSUME NEW e \in Ranges(todo'), NEW k \in DOMAIN new.certs,
                   Doomed(new, new.certs[k]), sameCertifiedToolKey(e, new.certs[k])
            PROVE  e = new.certs[k]
        <4>1. e \in Ranges(todo)
          BY <1>2, <1>13, <3>3
        <4>2. k \in DOMAIN mem.certs /\ new.certs[k] = mem.certs[k] /\ Doomed(mem, mem.certs[k])
          BY <1>9, <1>10, <3>3 DEF Doomed
        <4>3. QED
          BY <1>0, <3>3, <4>1, <4>2 DEF Visiting
      <3>4. QED
        BY <2>1, <3>1, <3>2, <3>3, VisitingNext
    <2>5. Survivors'
      BY <1>0, <1>10, <2>1 DEF Survivors, Lawful
    <2>6. Dealt'
      BY <1>0, <1>11, <1>13, <2>1, <2>4, <2>5, SameIndex DEF Dealt
    <2>7. QED
      BY <1>12, <2>2, <2>3, <2>6 DEF IInv
  <1>14. CASE NotSaved(new) /\ phase' = "exited" /\ UNCHANGED <<retracted, todo>>
    <2>1. mem' = new /\ disk' = disk /\ failures' \in 0..MaxFailures
      BY <1>0, <1>14, BoundsAssumption DEF NotSaved, TypeOK
    <2>2. Sound(mem)' /\ Sound(disk)'
      <3>1. Sound(mem') /\ Sound(disk')
        BY <1>0, <1>6, <2>1
      <3>2. QED
        BY <3>1 DEF Sound, EntryRests, Earned, Lawful
    <2>3. TypeOK'
      <3>1. mem' \in Index /\ disk' \in Index
        BY <1>0, <1>6, <2>1 DEF Sound
      <3>2. QED
        BY <1>0, <1>14, <2>1, <3>1 DEF TypeOK, Phases
    <2>4. Dealt'
      BY <1>0, <1>14, <2>1, SameIndex DEF Dealt
    <2>5. QED
      BY <1>12, <2>2, <2>3, <2>4 DEF IInv
  <1>15. QED
    BY <1>1, <1>13, <1>14

LEMMA EntriesPreserve ==
    ASSUME IInv, ListEntries
    PROVE  IInv'
  <1> USE DEF ListEntries, storeVars
  <1>0. /\ TypeOK /\ Sound(mem) /\ Sound(disk) /\ mem = disk
        /\ Lone(disk)
        /\ Visiting /\ Survivors /\ phase = "certs"
    BY DEF IInv, Dealt
  <1>1. Ranges(todo) = {}
    BY DEF Ranges
  <1>2. TypeOK'
    BY <1>0 DEF TypeOK, Phases
  <1>3. Sound(mem)' /\ Sound(disk)'
    BY <1>0, KeptSound
  <1>4. Reviewing'
    BY <1>0, <1>1, ReviewingNext DEF Visiting
  <1>5. Survivors'
    BY <1>0 DEF Survivors, Lawful, Proven
  <1>6. Dealt'
    BY <1>0, <1>4, <1>5, SameIndex DEF Dealt
  <1>7. \A r \in Records : Handled(r)'
    BY <1>0, StartupHandled
  <1>8. QED
    BY <1>2, <1>3, <1>6, <1>7 DEF IInv

(* An entry rebuilt from a survivor rests on it. *)
LEMMA RebuiltRests ==
    ASSUME NEW idx \in Index, NEW cert \in Cert, Lawful(cert), NEW t \in Tools, cert.cas = t,
           Proven(idx, cert)
    PROVE  EntryRests(idx, t, Backing(cert))
  <1>1. CASE \E old \in EarlierIndexes : \E i \in DOMAIN old.certs :
                 /\ cert.image = old.certs[i].image
                 /\ cert.check = old.certs[i].check
                 /\ cert.cas = old.certs[i].cas
    <2>0. PICK old \in EarlierIndexes : \E i \in DOMAIN old.certs :
                 /\ cert.image = old.certs[i].image
                 /\ cert.check = old.certs[i].check
                 /\ cert.cas = old.certs[i].cas
      BY <1>1
    <2>1. PICK i \in DOMAIN old.certs :
                 /\ cert.image = old.certs[i].image
                 /\ cert.check = old.certs[i].check
                 /\ cert.cas = old.certs[i].cas
      BY <2>0
    <2>2. Backing(cert) = Backing(old.certs[i]) /\ old.certs[i] \in Ranges(old.certs)
          /\ old.certs[i].cas = t
      BY <2>1 DEF Backing, Ranges
    <2>3. Backing(cert) \in LeftBehind(t)
      BY <2>2 DEF LeftBehind
    <2>4. QED
      BY <2>3 DEF EntryRests
  <1>2. CASE /\ cert.check # None /\ cert.check.image = cert.image
             /\ cert.scan = None \/ cert.scan.image = cert.image
             /\ cert.cas = None \/ ImageOf[cert.cas] = cert.image
    <2>1. t # None
      BY RecordsAssumption
    <2>2. Ranges(idx.scans) \subseteq Scans
      BY IndexFields
    <2>3. Earned(idx, Backing(cert)) /\ Backing(cert).image = ImageOf[t]
      BY <1>2, <2>1, <2>2, RecordsAssumption DEF Proven, Earned, Backing
    <2>4. QED
      BY <2>3 DEF EntryRests
  <1>3. QED
    BY <1>1, <1>2 DEF Lawful

(* A retracted entry rests on nothing. *)
LEMMA RetractedRests ==
    ASSUME NEW idx, NEW t \in Tools, NEW entry \in CatalogEntry, EntryRests(idx, t, entry)
    PROVE  EntryRests(idx, t, [entry EXCEPT !.active = FALSE])
  <1> DEFINE off == [entry EXCEPT !.active = FALSE]
  <1>1. off.image = entry.image /\ ~off.active
    BY DEF CatalogEntry
  <1>2. CASE entry \in LeftBehind(t)
    <2> DEFINE certs == UNION {Ranges(old.certs) : old \in EarlierIndexes}
               left == ({old.catalog[t] : old \in EarlierIndexes} \ {None})
                       \cup {Backing(cert) : cert \in {c \in certs : c.cas = t}}
    <2>1. LeftBehind(t) = {None} \cup left \cup {[e EXCEPT !.active = FALSE] : e \in left}
      BY DEF LeftBehind
    <2> HIDE DEF left
    <2>2. entry # None
      BY RecordsAssumption
    <2>3. CASE entry \in left
      BY <2>1, <2>3 DEF EntryRests
    <2>4. CASE \E e \in left : entry = [e EXCEPT !.active = FALSE]
      <3>1. off = entry
        BY <2>4 DEF CatalogEntry
      <3>2. QED
        BY <1>2, <3>1 DEF EntryRests
    <2>5. QED
      BY <1>2, <2>1, <2>2, <2>3, <2>4
  <1>3. CASE entry \notin LeftBehind(t)
    BY <1>1, <1>3 DEF EntryRests
  <1>4. QED
    BY <1>2, <1>3

(* Catalog entries as records. *)
LEMMA EntryRecords ==
    /\ \A a, b \in CatalogEntry :
          a.image = b.image /\ a.check = b.check /\ a.active = b.active => a = b
    /\ \A e \in CatalogEntry : e.active => e.active = TRUE
  <1>1. ASSUME NEW a \in CatalogEntry, NEW b \in CatalogEntry,
               a.image = b.image, a.check = b.check, a.active = b.active
        PROVE  a = b
    BY <1>1 DEF CatalogEntry
  <1>2. ASSUME NEW e \in CatalogEntry, e.active PROVE e.active = TRUE
    BY <1>2 DEF CatalogEntry
  <1>3. QED
    BY <1>1, <1>2

LEMMA ReviewedRests ==
    ASSUME Sound(mem), survivor \in [Tools -> Cert \cup {None}], Survivors,
           NEW t \in Tools, mem.catalog[t] # None, mem.catalog[t].active
    PROVE  /\ KeptOrRetracted(t) \in CatalogEntry
           /\ EntryRests(mem, t, KeptOrRetracted(t))
  <1> DEFINE entry == mem.catalog[t]
             cert == survivor[t]
  <1>0. /\ mem \in Index /\ entry \in CatalogEntry /\ EntryRests(mem, t, entry)
        /\ cert \in Cert \cup {None}
    BY IndexFields DEF Sound
  <1>1. CASE cert = None
    <2>1. KeptOrRetracted(t) = [entry EXCEPT !.active = FALSE]
      BY <1>1 DEF KeptOrRetracted
    <2>2. [entry EXCEPT !.active = FALSE] \in CatalogEntry
      BY <1>0 DEF CatalogEntry
    <2>3. EntryRests(mem, t, [entry EXCEPT !.active = FALSE])
      BY <1>0, RetractedRests
    <2>4. QED
      BY <2>1, <2>2, <2>3
  <1>2. CASE cert # None /\ PointsAtRetracted(t)
    <2>1. KeptOrRetracted(t) = [entry EXCEPT !.image = cert.image, !.check = cert.check]
      BY <1>2 DEF KeptOrRetracted
    <2>2. cert \in Cert /\ Lawful(cert) /\ cert.cas = t /\ Proven(mem, cert)
      BY <1>0, <1>2 DEF Survivors
    <2>3. /\ [entry EXCEPT !.image = cert.image, !.check = cert.check] = Backing(cert)
          /\ Backing(cert) \in CatalogEntry
      <3>1. entry.active = TRUE
        BY <1>0, EntryRecords
      <3>2. cert.image \in Images /\ cert.check \in Checks \cup {None}
        BY <2>2 DEF Cert
      <3>3. /\ Backing(cert) \in CatalogEntry /\ Backing(cert).active = TRUE
            /\ Backing(cert).image = cert.image /\ Backing(cert).check = cert.check
        BY <3>2 DEF CatalogEntry, Backing
      <3> DEFINE kept == [entry EXCEPT !.image = cert.image, !.check = cert.check]
      <3>4. /\ kept \in CatalogEntry /\ kept.active = entry.active
            /\ kept.image = cert.image /\ kept.check = cert.check
        BY <1>0, <3>2 DEF CatalogEntry
      <3> HIDE DEF kept
      <3>5. kept = Backing(cert)
        BY <3>1, <3>3, <3>4, EntryRecords
      <3>6. QED
        BY <3>3, <3>5 DEF kept
    <2>4. EntryRests(mem, t, Backing(cert))
      BY <1>0, <2>2, RebuiltRests
    <2>5. QED
      BY <2>1, <2>3, <2>4
  <1>3. CASE cert # None /\ ~PointsAtRetracted(t)
    <2>1. KeptOrRetracted(t) = entry
      BY <1>3 DEF KeptOrRetracted
    <2>2. QED
      BY <1>0, <2>1
  <1>4. QED
    BY <1>1, <1>2, <1>3

LEMMA ReviewPreserves ==
    ASSUME IInv, NEW t \in Tools, ReviewEntry(t)
    PROVE  IInv'
  <1> DEFINE entry == KeptOrRetracted(t)
             new == PutEntry(mem, t, entry)
  <1>0. /\ TypeOK /\ Sound(mem) /\ Sound(disk) /\ mem \in Index /\ mem = disk
        /\ Lone(disk)
        /\ Reviewing /\ Survivors /\ phase = "entries" /\ t \in stale
        /\ UNCHANGED <<crashes, handler, answer, todo, survivor, retracted>>
    BY DEF IInv, Sound, Dealt, ReviewEntry
  <1>1. \/ Saved(new) /\ stale' = stale \ {t} /\ UNCHANGED phase
        \/ NotSaved(new) /\ phase' = "exited" /\ UNCHANGED stale
    BY DEF ReviewEntry, WithEntry, PutEntry
  <1>2. entry \in CatalogEntry /\ EntryRests(mem, t, entry)
    BY <1>0, ReviewedRests DEF Reviewing, TypeOK
  <1> HIDE DEF entry
  <1>3. Sound(new)
    BY <1>0, <1>2, Cataloged
  <1>4. /\ new.checks = mem.checks /\ new.scans = mem.scans /\ new.certs = mem.certs
        /\ new.catalog = [mem.catalog EXCEPT ![t] = entry]
    BY <1>0, PutFields
  <1> HIDE DEF new
  <1>5. \A c : Proven(new, c) <=> Proven(mem, c)
    BY <1>4 DEF Proven
  <1>6. \A r \in Records : Handled(r)'
    BY <1>0, StartupHandled
  <1>7. CASE Saved(new) /\ stale' = stale \ {t} /\ UNCHANGED phase
    <2>1. mem' = new /\ disk' = new /\ failures' = failures
      BY <1>7 DEF Saved
    <2>2. Sound(mem)' /\ Sound(disk)'
      <3>1. Sound(mem') /\ Sound(disk')
        BY <1>3, <2>1
      <3>2. QED
        BY <3>1 DEF Sound, EntryRests, Earned, Lawful
    <2>3. TypeOK'
      <3>1. mem' \in Index /\ disk' \in Index
        BY <1>3, <2>1 DEF Sound
      <3>2. QED
        BY <1>0, <1>7, <2>1, <3>1 DEF TypeOK
    <2>4. Reviewing'
      <3>1. ASSUME NEW x \in stale' PROVE mem'.catalog[x] # None /\ mem'.catalog[x].active
        <4>1. x \in stale /\ x # t /\ x \in Tools
          BY <1>0, <1>7, <3>1 DEF TypeOK
        <4>2. mem'.catalog[x] = mem.catalog[x]
          BY <1>0, <1>4, <2>1, <4>1, IndexFields
        <4>3. QED
          BY <1>0, <4>1, <4>2 DEF Reviewing
      <3>2. ASSUME NEW i \in DOMAIN mem'.certs, mem'.certs[i].active
            PROVE  Settled(mem', survivor', mem'.certs[i]) \/ Missed(mem', mem'.certs[i])
        BY <1>0, <1>4, <1>5, <2>1, <3>2 DEF Reviewing, Settled, Missed
      <3>3. QED
        BY <3>1, <3>2, ReviewingNext
    <2>5. Survivors'
      BY <1>0, <1>5, <2>1 DEF Survivors, Lawful
    <2>6. Lone(new)
      BY <1>0, <1>4, <1>5 DEF Lone, Doomed
    <2>7. Dealt'
      BY <1>0, <1>7, <2>1, <2>4, <2>5, <2>6, SameIndex DEF Dealt
    <2>8. QED
      BY <1>6, <2>2, <2>3, <2>7 DEF IInv
  <1>8. CASE NotSaved(new) /\ phase' = "exited" /\ UNCHANGED stale
    <2>1. mem' = new /\ disk' = disk /\ failures' \in 0..MaxFailures
      BY <1>0, <1>8, BoundsAssumption DEF NotSaved, TypeOK
    <2>2. Sound(mem)' /\ Sound(disk)'
      <3>1. Sound(mem') /\ Sound(disk')
        BY <1>0, <1>3, <2>1
      <3>2. QED
        BY <3>1 DEF Sound, EntryRests, Earned, Lawful
    <2>3. TypeOK'
      <3>1. mem' \in Index /\ disk' \in Index
        BY <1>0, <1>3, <2>1 DEF Sound
      <3>2. QED
        BY <1>0, <1>8, <2>1, <3>1 DEF TypeOK, Phases
    <2>4. Dealt'
      BY <1>0, <1>8, <2>1, SameIndex DEF Dealt
    <2>5. QED
      BY <1>6, <2>2, <2>3, <2>4 DEF IInv
  <1>9. QED
    BY <1>1, <1>7, <1>8

LEMMA IntakePreserves ==
    ASSUME IInv, StartIntake
    PROVE  IInv'
  <1> USE DEF StartIntake, storeVars
  <1>0. /\ TypeOK /\ Sound(mem) /\ Sound(disk) /\ mem = disk /\ Reviewing /\ phase = "entries"
    BY DEF IInv, Dealt
  <1>1. AllJustified(mem)
    BY <1>0 DEF Reviewing, AllJustified, Settled, Missed
  <1>2. TypeOK'
    BY <1>0 DEF TypeOK, Phases
  <1>3. Sound(mem)' /\ Sound(disk)'
    BY <1>0, KeptSound
  <1>4. Dealt'
    BY <1>0, <1>1, JustifiedIndex, SameIndex DEF Dealt
  <1>5. \A r \in Records : Handled(r)'
    BY <1>0, StartupHandled
  <1>6. QED
    BY <1>2, <1>3, <1>4, <1>5 DEF IInv

LEMMA ResetPreserves ==
    ASSUME IInv, Reset, crashes' \in 0..MaxCrashes
    PROVE  IInv'
  <1> USE DEF Reset
  <1>0. TypeOK /\ Sound(mem) /\ Sound(disk) /\ Lone(disk)
    BY DEF IInv, Dealt
  <1>1. Idle \in Handlers /\ Idle.pc = "idle"
    BY DEF Idle, Handlers
  <1>2. TypeOK'
    BY <1>0, <1>1 DEF TypeOK, Phases, NothingRetracted
  <1>3. Sound(mem)' /\ Sound(disk)'
    <2>1. Sound(mem') /\ Sound(disk')
      BY <1>0
    <2>2. QED
      BY <2>1 DEF Sound, EntryRests, Earned, Lawful
  <1>4. Dealt'
    BY <1>0, SameIndex DEF Dealt
  <1>5. \A r \in Records : Handled(r)'
    BY <1>1 DEF Handled
  <1>6. QED
    BY <1>2, <1>3, <1>4, <1>5 DEF IInv

-----------------------------------------------------------------------------
(* Every step *)

(* What an earlier release left is sound. *)
LEMMA EarlierSound ==
    ASSUME NEW idx \in EarlierIndexes
    PROVE  Sound(idx) /\ Lone(idx)
  <1>1. idx \in Index
    BY EarlierAssumption
  <1>lone. ASSUME NEW i \in DOMAIN idx.certs, NEW k \in DOMAIN idx.certs, i # k,
                  sameCertifiedToolKey(idx.certs[i], idx.certs[k])
           PROVE  idx.certs[k] \in Ambiguous
    BY <1>lone DEF Ambiguous
  <1>2. \A i \in DOMAIN idx.certs : Lawful(idx.certs[i])
    BY DEF Lawful
  <1>3. ASSUME NEW t \in Tools PROVE EntryRests(idx, t, idx.catalog[t])
    <2>1. idx.catalog[t] \in LeftBehind(t)
      BY DEF LeftBehind
    <2>2. QED
      BY <2>1 DEF EntryRests
  <1>4. QED
    BY <1>1, <1>2, <1>3, <1>lone DEF Sound, Lone, Doomed

LEMMA InitEstablishes == Init => IInv
  <1> SUFFICES ASSUME Init PROVE IInv
    OBVIOUS
  <1> USE DEF Init
  <1>1. Sound(disk) /\ Lone(disk) /\ mem = disk
    BY EarlierSound
  <1>2. Idle \in Handlers /\ Idle.pc = "idle"
    BY DEF Idle, Handlers
  <1>3. TypeOK
    BY <1>1, <1>2, BoundsAssumption DEF TypeOK, Sound, Phases, Answers, NothingRetracted
  <1>4. Dealt
    BY <1>1 DEF Dealt
  <1>5. \A r \in Records : Handled(r)
    BY <1>2 DEF Handled
  <1>6. QED
    BY <1>1, <1>3, <1>4, <1>5 DEF IInv

LEMMA StartupPreserves ==
    ASSUME IInv, Startup
    PROVE  IInv'
  <1>1. crashes \in 0..MaxCrashes
    BY DEF IInv, TypeOK
  <1>2. CASE RestartAfterExit
    BY <1>1, <1>2, ResetPreserves DEF RestartAfterExit
  <1>3. CASE ~RestartAfterExit
    BY <1>3, ListPreserves, SurvivesPreserves, RetractPreserves, EntriesPreserve, ReviewPreserves,
       IntakePreserves DEF Startup
  <1>4. QED
    BY <1>2, <1>3

LEMMA NextPreserves == IInv /\ [Next]_vars => IInv'
  <1> SUFFICES ASSUME IInv, [Next]_vars PROVE IInv'
    OBVIOUS
  <1>1. CASE UNCHANGED vars
    <2> USE DEF vars, storeVars, startVars
    <2>1. TypeOK'
      BY <1>1 DEF IInv, TypeOK
    <2>2. Sound(mem)' /\ Sound(disk)'
      BY <1>1, KeptSound DEF IInv
    <2>3. \A r \in Records : Handled(r)'
      BY <1>1 DEF IInv, Handled
    <2>4. Dealt'
      <3>1. Visiting => Visiting'
        BY <1>1, VisitingNext DEF Visiting
      <3>2. Reviewing => Reviewing'
        BY <1>1, ReviewingNext DEF Reviewing
      <3>3. Survivors => Survivors'
        BY <1>1 DEF Survivors, Lawful, Proven
      <3>4. QED
        BY <1>1, <3>1, <3>2, <3>3, SameIndex, JustifiedIndex DEF IInv, Dealt
    <2>5. QED
      BY <2>1, <2>2, <2>3, <2>4 DEF IInv
  <1>2. CASE Submit
    <2>1. Submitted \subseteq Checks
      BY RecordsAssumption
    <2>2. QED
      BY <1>2, <2>1, SubmitCheckPreserves, DuplicatePreserves, SubmitScanPreserves,
         RegisterPreserves DEF Submit, SubmitToolScanRecord
  <1>3. CASE \E r \in Records : Handle(r)
    BY <1>3, EvaluateCheckPreserves, EvaluateScanPreserves, CertifyPreserves, CatalogPreserves
       DEF Handle
  <1>4. CASE CrashRestart
    <2>1. crashes' \in 0..MaxCrashes
      BY <1>4, BoundsAssumption DEF CrashRestart, IInv, TypeOK
    <2>2. QED
      BY <1>4, <2>1, ResetPreserves DEF CrashRestart
  <1>5. QED
    BY <1>1, <1>2, <1>3, <1>4, StartupPreserves DEF Next

-----------------------------------------------------------------------------
(* The theorems *)

(* The inductive invariant holds of every reachable state. *)
THEOREM Invariance == Spec => []IInv
  <1>1. QED
    BY InitEstablishes, NextPreserves, PTL DEF Spec

(* Type correctness of the indexes, the handlers and the startup pass. *)
THEOREM TypeCorrect == Spec => []TypeOK
  <1>1. IInv => TypeOK
    BY DEF IInv
  <1>2. QED
    BY <1>1, Invariance, PTL

(* While NodeVault serves, every active certification can be proved from    *)
(* the stored records, or is one that an earlier release left beside        *)
(* another with its key (pkg/certification, service.go): concurrent         *)
(* handlers, failed saves and crashes leave no other.                       *)
THEOREM Certifications == Spec => []CertificationsAreProven
  <1>1. IInv => CertificationsAreProven
    BY DEF IInv, Dealt, CertificationsAreProven
  <1>2. QED
    BY <1>1, Invariance, PTL

(* A catalog entry of this release names the image of its casHash, and is   *)
(* active only with stored evidence about that image                        *)
(* (pkg/certification, service.go).                                         *)
THEOREM Catalog == Spec => []CatalogIsEarned
  <1>1. IInv => CatalogIsEarned
    BY DEF IInv, Sound, EntryRests, CatalogIsEarned
  <1>2. QED
    BY <1>1, Invariance, PTL

(* Startup withdraws no entry that a provable active certification backs    *)
(* (RetractUnprovenCertifications): an entry it withdraws has no survivor,  *)
(* and every active certification of its casHash has been visited.          *)
THEOREM Survivor == Spec => SurvivorKeepsItsEntry
  <1> DEFINE Keeps == \A t \in Tools :
                 /\ phase = "entries" /\ mem.catalog[t] # None /\ mem.catalog[t].active
                 /\ ~mem'.catalog[t].active
                 => \A i \in DOMAIN mem.certs :
                        mem.certs[i].active /\ mem.certs[i].cas = t => ~Proven(mem, mem.certs[i])
  <1>1. IInv /\ [Next]_vars => [Keeps]_vars
    <2> SUFFICES ASSUME IInv, Next, NEW t \in Tools, phase = "entries",
                        mem.catalog[t] # None, mem.catalog[t].active, ~mem'.catalog[t].active,
                        NEW i \in DOMAIN mem.certs, mem.certs[i].active, mem.certs[i].cas = t
                 PROVE  ~Proven(mem, mem.certs[i])
      BY DEF vars
    <2>0. TypeOK /\ mem = disk /\ Reviewing /\ \A r \in Records : handler[r].pc = "idle"
      BY DEF IInv, Dealt, Handled
    <2>1. PICK x \in Tools : ReviewEntry(x)
      <3>1. mem' # mem
        OBVIOUS
      <3>2. ~CrashRestart /\ ~RestartAfterExit
        BY <2>0, <3>1 DEF CrashRestart, RestartAfterExit, Reset
      <3>3. ~(\E r \in Records : Handle(r))
        BY <2>0 DEF Handle, EvaluateAfterCheck, EvaluateAfterScan, certify,
           UpsertToolFunctionCatalogEntry
      <3>4. ~Submit
        BY DEF Submit, handleSubmitCheckRecord, DuplicateCheck, handleSubmitScanRecord,
           SubmitToolScanRecord, RegisterTool
      <3>5. ~(ListCertifications \/ Survives \/ RetractUnproven \/ ListEntries \/ StartIntake)
        BY <3>1 DEF ListCertifications, Survives, RetractUnproven, ListEntries, StartIntake, storeVars
      <3>6. QED
        BY <3>2, <3>3, <3>4, <3>5 DEF Next, Startup
    <2>2. mem' = PutEntry(mem, x, KeptOrRetracted(x)) /\ mem \in Index
      BY <2>0, <2>1 DEF ReviewEntry, Saved, NotSaved, WithEntry, PutEntry, TypeOK
    <2>3. mem'.catalog = [mem.catalog EXCEPT ![x] = KeptOrRetracted(x)]
      BY <2>2, PutFields
    <2>4. x = t /\ ~KeptOrRetracted(t).active
      BY <2>2, <2>3, IndexFields
    <2>5. mem.catalog[t] \in CatalogEntry
      BY <2>2, IndexFields
    <2>6. survivor[t] = None
      BY <2>4, <2>5 DEF KeptOrRetracted, CatalogEntry
    <2>7. t # None
      BY RecordsAssumption
    <2>8. QED
      BY <2>0, <2>6, <2>7 DEF Reviewing, Settled, Missed
  <1>2. QED
    BY <1>1, Invariance, PTL DEF Spec, SurvivorKeepsItsEntry
=============================================================================
