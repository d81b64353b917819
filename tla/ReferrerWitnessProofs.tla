----------------------- MODULE ReferrerWitnessProofs -----------------------
(***************************************************************************)
(* Proofs about ReferrerWitness for any number of artifacts, any page size *)
(* and budgets, any Link headers, and any number of changes of Harbor      *)
(* during the call: a positive answer has a witness and a negative one is  *)
(* a confirmed absence.  That the call ends is liveness and left to TLC.   *)
(*                                                                         *)
(* The second half is about the other referrers of an image, for any       *)
(* number of checks and any retention limit: ObservedProfiles keeps the    *)
(* latest, records only what was pushed, and its cleanup spares what is    *)
(* kept.  It starts from what the stable sort does: ranks are a bijection. *)
(***************************************************************************)
EXTENDS ReferrerWitness, ObservedProfiles, FiniteSetTheorems, FunctionTheorems, TLAPS,
        WellFoundedInduction

Suspect(a) == Own(a) \/ Opaque(a)

-----------------------------------------------------------------------------
(* Facts about artifacts and Link headers *)

(* The candidate under inspection is one of the candidates. *)
LEMMA InspectedIsCandidate ==
    ASSUME TypeOK, candidates # {}
    PROVE  Inspected \in candidates
  <1>1. candidates \subseteq Nat
    BY BudgetAssumption DEF TypeOK, Artifacts
  <1>2. PICK x \in candidates : \A y \in candidates : ~(<<y, x>> \in OpToRel(<, Nat))
    BY <1>1, NatLessThanWellFounded, WFMin
  <1>3. ASSUME NEW y \in candidates PROVE x <= y
    <2>1. y \in Nat /\ x \in Nat
      BY <1>1
    <2>2. ~(y < x)
      <3>1. ASSUME y < x PROVE <<y, x>> \in OpToRel(<, Nat)
        BY <2>1, <3>1 DEF OpToRel
      <3>2. QED
        BY <1>2, <3>1
    <2>3. QED
      BY <2>1, <2>2
  <1>4. QED
    BY <1>3 DEF Inspected

(* A suspect artifact is a candidate for a fetch or leaves a doubt. *)
LEMMA SuspectIsTriaged ==
    ASSUME TypeOK, NEW a \in Artifacts, Suspect(a)
    PROVE  NeedsFetch(a) \/ Illegible(a)
  <1>1. usableDigest(a) = shape[a].usable
    BY DEF usableDigest
  <1>2. (expected # None => a = expected) /\ shape[a].label # "foreign"
    BY DEF Suspect, Own, Opaque
  <1>3. QED
    BY <1>1, <1>2 DEF NeedsFetch, Illegible

(* Without a continuation the registry had no more to list. *)
LEMMA NoContinuation ==
    ASSUME NEW links, NEW more \in BOOLEAN, MayFollow(links, more), nextPageURL(links) = "none"
    PROVE  ~more
  BY DEF MayFollow, nextPageURL

LEMMA ContinuationType ==
    ASSUME NEW links
    PROVE  nextPageURL(links) \in {"none", "page", "error"}
  BY DEF nextPageURL

-----------------------------------------------------------------------------
(* The walk *)

(* What follows a decided request keeps the invariant, if what it leaves    *)
(* undecided is among the candidates, ahead, or in doubt.                   *)
LEMMA ResolveKeeps ==
    ASSUME IInv, pc # "done", NEW rest \in SUBSET Artifacts, NEW doubt \in BOOLEAN,
           UNCHANGED <<harborVars, expired>>,
           next' \in {"none", "page", "error"}, cursor' \in 0..N, auth' = "none",
           resolveCandidates(rest, next', doubt),
           \A a \in rest : NeedsFetch(a),
           \A a \in steady : Suspect(a) => doubt \/ a > cursor' \/ a \in rest,
           next' = "none" => \A a \in steady : a <= cursor'
    PROVE  IInv'
  <1>0. TypeOK /\ HarborInv /\ WalkInv
    BY DEF IInv
  <1>1. UNCHANGED <<shape, listed, manifests, blobs, guarded, changes, expected, steady, complete>>
    BY DEF harborVars
  <1>2. N \in Nat /\ MaxPages \in Nat \ {0} /\ MaxInspections \in Nat
    BY BudgetAssumption
  <1>3. HarborInv'
    BY <1>0, <1>1 DEF HarborInv
  <1>4. \A a : (Own(a) <=> Own(a)') /\ (Opaque(a) <=> Opaque(a)') /\ (NeedsFetch(a) <=> NeedsFetch(a)')
    BY <1>1 DEF Own, Opaque, NeedsFetch, usableDigest
  <1>5. verdict = "none"
    BY <1>0 DEF WalkInv
  <1>6. CASE rest # {} /\ budget # 0
    <2>1. /\ pc' = "manifest" /\ candidates' = rest /\ budget' = budget - 1
          /\ deferred' = doubt /\ page' = page /\ verdict' = verdict
      BY <1>6 DEF resolveCandidates
    <2>2. TypeOK'
      BY <1>0, <1>1, <1>2, <1>6, <2>1 DEF TypeOK
    <2>3. WalkInv'
      BY <1>4, <1>5, <1>6, <2>1 DEF WalkInv
    <2>4. CoverInv'
      BY <1>1, <1>4, <2>1 DEF CoverInv, Suspect
    <2>5. WitnessIsGenuine' /\ AbsenceIsConfirmed'
      BY <1>5, <2>1 DEF WitnessIsGenuine, AbsenceIsConfirmed
    <2>6. QED
      BY <1>3, <2>2, <2>3, <2>4, <2>5 DEF IInv
  <1>7. CASE ~(rest # {} /\ budget # 0)
    <2> DEFINE left == doubt \/ rest # {}
    <2>1. EndOfPage(next', left) /\ deferred' = left /\ budget' = budget
      BY <1>7 DEF resolveCandidates
    <2>2. \A a \in steady : Suspect(a) => left \/ a > cursor'
      OBVIOUS
    <2>3. left \in BOOLEAN
      OBVIOUS
    <2> HIDE DEF left
    <2>4. CASE next' = "page" /\ page + 1 # MaxPages
      <3>1. pc' = "page" /\ page' = page + 1 /\ candidates' = {} /\ verdict' = verdict
        BY <2>1, <2>4 DEF EndOfPage
      <3>2. page \in Nat /\ page + 1 \in Nat /\ page + 1 # 0
        BY <1>0, <1>2 DEF TypeOK
      <3>3. TypeOK'
        BY <1>0, <1>1, <1>2, <2>1, <2>3, <2>4, <3>1 DEF TypeOK
      <3>4. WalkInv'
        BY <1>5, <3>1, <3>2 DEF WalkInv
      <3>5. CoverInv'
        BY <1>1, <1>4, <2>1, <2>2, <3>1 DEF CoverInv, Suspect
      <3>6. WitnessIsGenuine' /\ AbsenceIsConfirmed'
        BY <1>5, <3>1 DEF WitnessIsGenuine, AbsenceIsConfirmed
      <3>7. QED
        BY <1>3, <3>3, <3>4, <3>5, <3>6 DEF IInv
    <2>5. CASE ~(next' = "page" /\ page + 1 # MaxPages)
      <3>1. /\ pc' = "done" /\ candidates' = {} /\ page' = page
            /\ verdict' \in {"absent", "error"}
            /\ verdict' = "absent" => next' = "none" /\ ~left
        <4>1. CASE next' = "none"
          BY <2>1, <4>1 DEF EndOfPage, Finish
        <4>2. CASE next' = "error"
          BY <2>1, <4>2 DEF EndOfPage, Finish
        <4>3. CASE next' = "page"
          BY <2>1, <2>5, <4>3 DEF EndOfPage, Finish
        <4>4. QED
          BY <4>1, <4>2, <4>3
      <3>2. TypeOK'
        BY <1>0, <1>1, <1>2, <2>1, <2>3, <3>1 DEF TypeOK
      <3>3. WalkInv' /\ CoverInv' /\ WitnessIsGenuine'
        BY <3>1 DEF WalkInv, CoverInv, WitnessIsGenuine
      <3>4. AbsenceIsConfirmed'
        <4>1. SUFFICES ASSUME verdict' = "absent", NEW a \in steady
                       PROVE  ~Suspect(a)
          BY <1>1, <1>4 DEF AbsenceIsConfirmed, Suspect
        <4>2. a \in Artifacts /\ a \in Nat /\ cursor' \in Nat
          BY <1>0, <1>2 DEF TypeOK, Artifacts
        <4>3. a <= cursor' /\ ~left
          BY <3>1, <4>1
        <4>4. QED
          BY <2>2, <4>2, <4>3
      <3>5. QED
        BY <1>3, <3>2, <3>3, <3>4 DEF IInv
    <2>6. QED
      BY <2>4, <2>5
  <1>8. QED
    BY <1>6, <1>7

(* The walk ends, with a positive answer only if there is a witness and     *)
(* with a negative one only if there is none.                               *)
LEMMA FinishKeeps ==
    ASSUME IInv, UNCHANGED <<harborVars, expired, cursor, next, budget, deferred>>,
           auth' = "none", NEW v \in {"witness", "absent", "error"}, Finish(v),
           v = "witness" => \E a \in complete : Own(a),
           v = "absent" => \A a \in steady : ~Suspect(a)
    PROVE  IInv'
  <1>0. TypeOK /\ HarborInv /\ WalkInv
    BY DEF IInv
  <1>1. UNCHANGED <<shape, listed, manifests, blobs, guarded, changes, expected, steady, complete>>
    BY DEF harborVars
  <1>2. pc' = "done" /\ verdict' = v /\ candidates' = {} /\ page' = page
    BY DEF Finish
  <1>3. \A a : (Own(a) <=> Own(a)') /\ (Opaque(a) <=> Opaque(a)')
    BY <1>1 DEF Own, Opaque
  <1>4. TypeOK'
    BY <1>0, <1>1, <1>2 DEF TypeOK
  <1>5. HarborInv' /\ WalkInv' /\ CoverInv'
    BY <1>0, <1>1, <1>2 DEF HarborInv, WalkInv, CoverInv
  <1>6. WitnessIsGenuine' /\ AbsenceIsConfirmed'
    BY <1>1, <1>2, <1>3 DEF WitnessIsGenuine, AbsenceIsConfirmed, Suspect
  <1>7. QED
    BY <1>4, <1>5, <1>6 DEF IInv

(* Settling the candidate under inspection, with a doubt if it is suspect   *)
(* and was there all along.                                                 *)
LEMMA SettleKeeps ==
    ASSUME IInv, pc \in {"manifest", "payload"}, NEW doubt \in BOOLEAN, Settle(doubt),
           UNCHANGED <<harborVars, expired>>, auth' = "none",
           Inspected \in steady /\ Suspect(Inspected) => doubt
    PROVE  IInv'
  <1> DEFINE rest == candidates \ {Inspected}
             left == deferred \/ doubt
  <1>0. TypeOK /\ WalkInv /\ CoverInv
    BY DEF IInv
  <1>1. /\ resolveCandidates(rest, next, left)
        /\ cursor' = cursor /\ next' = next
    BY DEF Settle
  <1>2. rest \in SUBSET Artifacts /\ left \in BOOLEAN /\ cursor \in 0..N
        /\ next \in {"none", "page", "error"} /\ pc # "done"
    BY <1>0 DEF TypeOK
  <1>3. \A a \in rest : NeedsFetch(a)
    BY <1>0 DEF WalkInv
  <1>4. \A a \in steady : Suspect(a) => left \/ a > cursor' \/ a \in rest
    BY <1>0, <1>1 DEF CoverInv, Suspect
  <1>5. next' = "none" => \A a \in steady : a <= cursor'
    BY <1>0, <1>1 DEF CoverInv
  <1> HIDE DEF rest, left
  <1>6. QED
    BY <1>1, <1>2, <1>3, <1>4, <1>5, ResolveKeeps

-----------------------------------------------------------------------------
(* Every action preserves the invariant *)

(* The token flow only changes the request under way. *)
LEMMA AuthKeeps ==
    ASSUME IInv, parseBearerChallenge \/ anonymousToken
    PROVE  IInv'
  <1>1. /\ UNCHANGED <<shape, listed, manifests, blobs, guarded, changes, expected, steady, complete>>
        /\ UNCHANGED <<expired, pc, cursor, page, next, candidates, budget, deferred, verdict>>
        /\ auth' \in {"challenged", "token"}
    BY DEF parseBearerChallenge, anonymousToken, harborVars
  <1>2. TypeOK'
    BY <1>1 DEF IInv, TypeOK
  <1>3. HarborInv' /\ CoverInv' /\ WitnessIsGenuine' /\ AbsenceIsConfirmed'
    BY <1>1 DEF IInv, HarborInv, CoverInv, WitnessIsGenuine, AbsenceIsConfirmed, Own, Opaque
  <1>4. WalkInv'
    BY <1>1 DEF IInv, WalkInv, NeedsFetch, usableDigest, Inspected
  <1>5. QED
    BY <1>2, <1>3, <1>4 DEF IInv

(* So does the timeout. *)
LEMMA ExpireKeeps ==
    ASSUME IInv, Expire
    PROVE  IInv'
  <1>1. /\ UNCHANGED <<shape, listed, manifests, blobs, guarded, changes, expected, steady, complete>>
        /\ UNCHANGED <<pc, cursor, page, next, candidates, budget, deferred, auth, verdict>>
        /\ expired' = TRUE
    BY DEF Expire, harborVars, walkVars
  <1>2. TypeOK'
    BY <1>1 DEF IInv, TypeOK
  <1>3. HarborInv' /\ CoverInv' /\ WitnessIsGenuine' /\ AbsenceIsConfirmed'
    BY <1>1 DEF IInv, HarborInv, CoverInv, WitnessIsGenuine, AbsenceIsConfirmed, Own, Opaque
  <1>4. WalkInv'
    BY <1>1 DEF IInv, WalkInv, NeedsFetch, usableDigest, Inspected
  <1>5. QED
    BY <1>2, <1>3, <1>4 DEF IInv

(* A failed request ends the walk or leaves a doubt. *)
LEMMA FailureKeeps ==
    ASSUME IInv, RequestFails
    PROVE  IInv'
  <1>1. UNCHANGED <<harborVars, expired>> /\ auth' = "none" /\ Pending /\ Indeterminate
    BY DEF RequestFails
  <1>2. CASE pc = "page" /\ Finish("error") /\ UNCHANGED <<cursor, next, budget, deferred>>
    BY <1>1, <1>2, FinishKeeps
  <1>3. CASE pc # "page" /\ Settle(TRUE)
    BY <1>1, <1>3, SettleKeeps DEF Pending
  <1>4. QED
    BY <1>1, <1>2, <1>3 DEF Indeterminate

(* A page of the listing. *)
LEMMA PageKeeps ==
    ASSUME IInv, referrerPage
    PROVE  IInv'
  <1>0. TypeOK /\ HarborInv /\ WalkInv /\ CoverInv
    BY DEF IInv
  <1>1. UNCHANGED <<harborVars, expired>> /\ auth' = "none" /\ pc = "page"
    BY DEF referrerPage, Served
  <1>2. N \in Nat /\ steady \subseteq Artifacts /\ listed \subseteq Artifacts
        /\ steady \subseteq listed /\ cursor \in 0..N
    BY <1>0, BudgetAssumption DEF TypeOK, HarborInv
  <1>3. ASSUME NEW upto \in Remaining \cup {cursor}, NEW links \in LinkHeaders,
               ListingFound(upto, links)
        PROVE  IInv'
    <2> DEFINE descriptors == {a \in Remaining : a <= upto}
               rest == {a \in descriptors : NeedsFetch(a)}
               doubt == deferred \/ \E a \in descriptors : Illegible(a)
    <2>1. /\ upto = cursor => Remaining = {}
          /\ MayFollow(links, Remaining # descriptors)
          /\ next' = nextPageURL(links)
          /\ cursor' = upto
          /\ resolveCandidates(rest, next', doubt)
      BY <1>3 DEF ListingFound, triage
    <2>2. /\ rest \in SUBSET Artifacts /\ doubt \in BOOLEAN
          /\ upto \in 0..N /\ cursor <= upto
          /\ next' \in {"none", "page", "error"}
      <3>1. Remaining \subseteq Artifacts /\ \A a \in Remaining : a > cursor
        BY <1>2 DEF Remaining
      <3>2. rest \in SUBSET Artifacts
        BY <3>1
      <3>3. upto \in 0..N /\ cursor <= upto
        BY <1>2, <3>1 DEF Artifacts
      <3>4. doubt \in BOOLEAN
        BY <1>0 DEF TypeOK
      <3>5. next' \in {"none", "page", "error"}
        BY <2>1, ContinuationType
      <3>6. QED
        BY <3>2, <3>3, <3>4, <3>5
    <2>3. \A a \in steady : Suspect(a) => doubt \/ a > upto \/ a \in rest
      <3> SUFFICES ASSUME NEW a \in steady, Suspect(a), ~(a > upto)
                   PROVE  doubt \/ a \in rest
        OBVIOUS
      <3>1. a \in Artifacts /\ a \in Nat /\ a <= upto
        BY <1>2, <2>2 DEF Artifacts
      <3>2. CASE a > cursor
        <4>1. a \in descriptors
          BY <1>2, <3>1, <3>2 DEF Remaining
        <4>2. QED
          BY <1>0, <3>1, <4>1, SuspectIsTriaged
      <3>3. CASE ~(a > cursor)
        BY <1>0, <1>1, <3>3 DEF CoverInv, WalkInv, Suspect
      <3>4. QED
        BY <3>2, <3>3
    <2>4. next' = "none" => \A a \in steady : a <= upto
      <3> SUFFICES ASSUME next' = "none", NEW a \in steady PROVE a <= upto
        OBVIOUS
      <3>1. Remaining = descriptors
        BY <2>1, NoContinuation
      <3>2. a \in Nat /\ a \in listed
        BY <1>2 DEF Artifacts
      <3>3. a > cursor => a \in descriptors
        BY <3>1, <3>2 DEF Remaining
      <3>4. QED
        BY <1>2, <2>2, <3>2, <3>3
    <2>5. \A a \in rest : NeedsFetch(a)
      OBVIOUS
    <2> HIDE DEF descriptors, rest, doubt
    <2>6. QED
      BY <1>1, <2>1, <2>2, <2>3, <2>4, <2>5, ResolveKeeps
  <1>4. CASE ListingGone
    <2>1. CASE page = 0
      <3>1. Remaining = {} /\ cursor = 0
        BY <1>0, <1>1, <1>4, <2>1 DEF ListingGone, WalkInv
      <3>2. steady = {}
        BY <1>2, <3>1 DEF Remaining, Artifacts
      <3>3. QED
        BY <1>1, <1>4, <2>1, <3>2, FinishKeeps DEF ListingGone
    <2>2. CASE page # 0
      BY <1>1, <1>4, <2>2, FinishKeeps DEF ListingGone
    <2>3. QED
      BY <2>1, <2>2
  <1>5. QED
    BY <1>3, <1>4 DEF referrerPage

(* The manifest of a candidate. *)
LEMMA ManifestKeeps ==
    ASSUME IInv, inspectReferrer
    PROVE  IInv'
  <1> DEFINE a == Inspected
  <1>0. TypeOK /\ HarborInv /\ WalkInv /\ CoverInv /\ WitnessIsGenuine /\ AbsenceIsConfirmed
    BY DEF IInv
  <1>1. UNCHANGED <<harborVars, expired>> /\ auth' = "none" /\ pc = "manifest"
    BY DEF inspectReferrer, Served
  <1>2. a \in candidates /\ a \in Artifacts /\ NeedsFetch(a)
    BY <1>0, <1>1, InspectedIsCandidate DEF WalkInv, TypeOK
  <1>3. shape[a].usable /\ shape[a].label # "foreign" /\ shape[a] \in Shape
    BY <1>0, <1>2 DEF NeedsFetch, usableDigest, TypeOK
  <1>4. CASE a \notin manifests /\ Settle(FALSE)
    BY <1>0, <1>1, <1>4, SettleKeeps DEF HarborInv
  <1>5. CASE /\ shape[a].type # "toolspec"
             /\ Settle(\/ shape[a].type = "unstated"
                       \/ shape[a].label = "toolspec" /\ shape[a].type # "toolspec")
    <2> DEFINE doubt == \/ shape[a].type = "unstated"
                        \/ shape[a].label = "toolspec" /\ shape[a].type # "toolspec"
    <2>1. Suspect(a) => doubt
      BY <1>3, <1>5 DEF Suspect, Own, Opaque
    <2>2. doubt \in BOOLEAN /\ Settle(doubt)
      BY <1>5
    <2> HIDE DEF doubt
    <2>3. QED
      BY <1>1, <2>1, <2>2, SettleKeeps
  <1>6. CASE Settle(TRUE)
    BY <1>1, <1>6, SettleKeeps
  <1>7. CASE /\ shape[a].type = "toolspec" /\ shape[a].config /\ pc' = "payload"
             /\ UNCHANGED <<cursor, page, next, candidates, budget, deferred, verdict>>
    <2>1. UNCHANGED <<shape, listed, manifests, blobs, guarded, changes, expected, steady, complete>>
      BY <1>1 DEF harborVars
    <2>2. TypeOK'
      BY <1>0, <1>1, <1>7, <2>1 DEF TypeOK
    <2>3. Inspected' = Inspected
      BY <1>7 DEF Inspected
    <2>4. WalkInv'
      BY <1>0, <1>1, <1>7, <2>1, <2>3 DEF WalkInv, NeedsFetch, usableDigest
    <2>5. HarborInv' /\ CoverInv' /\ WitnessIsGenuine' /\ AbsenceIsConfirmed'
      BY <1>0, <1>1, <1>7, <2>1 DEF HarborInv, CoverInv, WitnessIsGenuine, AbsenceIsConfirmed, Own, Opaque
    <2>6. QED
      BY <2>2, <2>4, <2>5 DEF IInv
  <1>8. QED
    BY <1>4, <1>5, <1>6, <1>7 DEF inspectReferrer

(* Its payload. *)
LEMMA PayloadKeeps ==
    ASSUME IInv, readPayload
    PROVE  IInv'
  <1> DEFINE a == Inspected
             nameless == expected = None /\ shape[a].cas = "none"
  <1>0. TypeOK /\ HarborInv /\ WalkInv
    BY DEF IInv
  <1>1. UNCHANGED <<harborVars, expired>> /\ auth' = "none" /\ pc = "payload"
    BY DEF readPayload, Served
  <1>2. a \in candidates /\ a \in Artifacts /\ NeedsFetch(a)
    BY <1>0, <1>1, InspectedIsCandidate DEF WalkInv, TypeOK
  <1>3. /\ shape[a].usable /\ shape[a].label # "foreign"
        /\ shape[a].type = "toolspec" /\ shape[a].config
        /\ expected # None => a = expected
    BY <1>0, <1>1, <1>2 DEF NeedsFetch, usableDigest, WalkInv
  <1>4. CASE /\ a \in blobs /\ Matches(a) /\ Finish("witness")
             /\ UNCHANGED <<cursor, next, budget, deferred>>
    <2>1. Own(a) /\ a \in complete
      BY <1>0, <1>3, <1>4 DEF Own, Matches, HarborInv
    <2>2. QED
      BY <1>1, <1>4, <2>1, FinishKeeps
  <1>5. CASE (a \notin blobs \/ ~Matches(a)) /\ Settle(a \in blobs /\ nameless)
    <2> DEFINE doubt == a \in blobs /\ nameless
    <2>1. a \in steady /\ Suspect(a) => doubt
      BY <1>0, <1>3, <1>5 DEF Suspect, Own, Opaque, Matches, HarborInv
    <2>2. doubt \in BOOLEAN /\ Settle(doubt)
      BY <1>5
    <2> HIDE DEF doubt
    <2>3. QED
      BY <1>1, <2>1, <2>2, SettleKeeps
  <1>6. QED
    BY <1>4, <1>5 DEF readPayload

(* What changes in Harbor only removes artifacts from the steady ones. *)
LEMMA HarborKeeps ==
    ASSUME IInv, NEW a \in Artifacts, HarborDeletes(a) \/ HarborReceives(a)
    PROVE  IInv'
  <1>0. TypeOK /\ HarborInv /\ WalkInv /\ CoverInv /\ WitnessIsGenuine /\ AbsenceIsConfirmed
    BY DEF IInv
  <1>1. /\ UNCHANGED <<shape, guarded, expected, expired>>
        /\ UNCHANGED <<pc, cursor, page, next, candidates, budget, deferred, auth, verdict>>
        /\ changes < MaxChanges /\ changes' = changes + 1
    BY DEF HarborDeletes, HarborReceives, walkVars
  <1>2. PICK l \in SUBSET Artifacts, m \in SUBSET Artifacts, b \in SUBSET Artifacts :
          /\ Holds(l, m, b)
          /\ m \cup b \subseteq complete \cup (m \cap b)
    <2>1. /\ listed \in SUBSET Artifacts /\ manifests \in SUBSET Artifacts /\ blobs \in SUBSET Artifacts
          /\ manifests \cup blobs \subseteq complete
      BY <1>0 DEF TypeOK, HarborInv
    <2>2. CASE HarborDeletes(a)
      BY <2>1, <2>2 DEF HarborDeletes
    <2>3. CASE HarborReceives(a)
      BY <2>1, <2>3 DEF HarborReceives
    <2>4. QED
      BY <2>2, <2>3
  <1>3. /\ listed' = l /\ manifests' = m /\ blobs' = b
        /\ steady' = steady \cap l \cap m \cap b
        /\ complete' = complete \cup (m \cap b)
    BY <1>2 DEF Holds
  <1>4. TypeOK'
    <2>1. changes' \in 0..MaxChanges
      BY <1>0, <1>1, BudgetAssumption DEF TypeOK
    <2>2. {listed', manifests', blobs', steady', complete', candidates'} \subseteq SUBSET Artifacts
      BY <1>0, <1>1, <1>3 DEF TypeOK
    <2>3. QED
      BY <1>0, <1>1, <2>1, <2>2 DEF TypeOK
  <1>5. HarborInv'
    BY <1>2, <1>3 DEF HarborInv
  <1>6. \A x : (Own(x) <=> Own(x)') /\ (Opaque(x) <=> Opaque(x)') /\ (NeedsFetch(x) <=> NeedsFetch(x)')
    BY <1>1 DEF Own, Opaque, NeedsFetch, usableDigest
  <1>7. Inspected' = Inspected
    BY <1>1 DEF Inspected
  <1>8. WalkInv'
    BY <1>0, <1>1, <1>6, <1>7 DEF WalkInv
  <1>9. CoverInv'
    BY <1>0, <1>1, <1>3, <1>6 DEF CoverInv
  <1>10. WitnessIsGenuine' /\ AbsenceIsConfirmed'
    BY <1>0, <1>1, <1>3, <1>6 DEF WitnessIsGenuine, AbsenceIsConfirmed
  <1>11. QED
    BY <1>4, <1>5, <1>8, <1>9, <1>10 DEF IInv

-----------------------------------------------------------------------------
(* The theorems *)

LEMMA InitEstablishes == Init => IInv
  <1> SUFFICES ASSUME Init PROVE IInv
    OBVIOUS
  <1>1. PICK reference \in parseRef : verdict = Refused(reference)
    BY DEF Init
  <1>2. /\ verdict \in {"none", "absent", "error"}
        /\ verdict = "absent" => listed = {}
    BY <1>1 DEF Refused, parseRef
  <1>3. TypeOK
    <2>1. shape \in [Artifacts -> Shape]
      BY LayoutsAssumption DEF Init
    <2>2. {listed, manifests, blobs, steady, complete, candidates} \subseteq SUBSET Artifacts
      BY DEF Init
    <2>3. {guarded, deferred, expired} \subseteq BOOLEAN
      BY DEF Init
    <2>4. changes \in 0..MaxChanges /\ cursor \in 0..N /\ page \in 0..(MaxPages - 1)
          /\ budget \in 0..MaxInspections
      BY BudgetAssumption DEF Init
    <2>5. pc \in {"page", "manifest", "payload", "done"}
      BY DEF Init
    <2>6. QED
      BY <1>2, <2>1, <2>2, <2>3, <2>4, <2>5 DEF Init, TypeOK
  <1>4. HarborInv /\ WalkInv
    BY <1>2 DEF Init, HarborInv, WalkInv
  <1>5. CoverInv
    BY <1>2, BudgetAssumption DEF Init, CoverInv, Artifacts
  <1>6. WitnessIsGenuine /\ AbsenceIsConfirmed
    BY <1>2 DEF Init, WitnessIsGenuine, AbsenceIsConfirmed
  <1>7. QED
    BY <1>3, <1>4, <1>5, <1>6 DEF IInv

LEMMA StutterKeeps ==
    ASSUME IInv, UNCHANGED vars
    PROVE  IInv'
  <1>1. /\ UNCHANGED <<shape, listed, manifests, blobs, guarded, changes, expected, steady, complete>>
        /\ UNCHANGED <<pc, cursor, page, next, candidates, budget, deferred, auth, verdict, expired>>
    BY DEF vars, harborVars, walkVars
  <1>2. TypeOK'
    BY <1>1 DEF IInv, TypeOK
  <1>3. HarborInv' /\ CoverInv' /\ WitnessIsGenuine' /\ AbsenceIsConfirmed'
    BY <1>1 DEF IInv, HarborInv, CoverInv, WitnessIsGenuine, AbsenceIsConfirmed, Own, Opaque
  <1>4. WalkInv'
    BY <1>1 DEF IInv, WalkInv, NeedsFetch, usableDigest, Inspected
  <1>5. QED
    BY <1>2, <1>3, <1>4 DEF IInv

LEMMA NextKeeps ==
    ASSUME IInv, [Next]_vars
    PROVE  IInv'
  <1>1. CASE Walk
    BY <1>1, AuthKeeps, PageKeeps, ManifestKeeps, PayloadKeeps, FailureKeeps DEF Walk
  <1>2. CASE Expire
    BY <1>2, ExpireKeeps
  <1>3. CASE Harbor
    BY <1>3, HarborKeeps DEF Harbor
  <1>4. CASE UNCHANGED vars
    BY <1>4, StutterKeeps
  <1>5. QED
    BY <1>1, <1>2, <1>3, <1>4 DEF Next

(* The inductive invariant of the walk holds in every reachable state. *)
THEOREM Invariance == Spec => []IInv
  <1>1. Init => IInv
    BY InitEstablishes
  <1>2. IInv /\ [Next]_vars => IInv'
    BY NextKeeps
  <1>3. QED
    BY <1>1, <1>2, PTL DEF Spec

(* Type correctness: pages and inspections stay within their budgets. *)
THEOREM TypeCorrect == Spec => []TypeOK
  <1>1. IInv => TypeOK
    BY DEF IInv
  <1>2. QED
    BY <1>1, Invariance, PTL

(* SpecReferrerWitness answers yes only with a complete ToolSpec referrer   *)
(* of this entry.                                                           *)
THEOREM Witness == Spec => []WitnessIsGenuine
  <1>1. IInv => WitnessIsGenuine
    BY DEF IInv
  <1>2. QED
    BY <1>1, Invariance, PTL

(* SpecReferrerWitness answers no only if no artifact that was there all    *)
(* along is, or may be, this entry's referrer.                              *)
THEOREM Absence == Spec => []AbsenceIsConfirmed
  <1>1. IInv => AbsenceIsConfirmed
    BY DEF IInv
  <1>2. QED
    BY <1>1, Invariance, PTL

-----------------------------------------------------------------------------
(* The rank of a referrer *)

LEMMA UpTo ==
    ASSUME NEW n \in Nat
    PROVE  IsFiniteSet(1..n) /\ Cardinality(1..n) = n
  <1>1. IsFiniteSet(1..n) /\ Cardinality(1..n) = IF 1 > n THEN 0 ELSE n - 1 + 1
    BY FS_Interval
  <1>2. QED
    BY <1>1

LEMMA ReferrerFields ==
    ASSUME NEW a \in ToolProfileReferrer
    PROVE  /\ a.validatedAt \in Nat /\ a.observedAt \in Nat
           /\ a.digest \in Digests
           /\ a.digest.profile \in Nat /\ a.digest.created \in Nat
  BY DEF ToolProfileReferrer, Digests

(* Before is a strict order in which only referrers of one manifest tie. *)
LEMMA BeforeIsOrder ==
    ASSUME NEW a \in ToolProfileReferrer, NEW b \in ToolProfileReferrer,
           NEW c \in ToolProfileReferrer
    PROVE  /\ ~(Before(a, b) /\ Before(b, a))
           /\ ~Before(b, a) /\ ~Before(c, b) => ~Before(c, a)
           /\ ~Before(b, a) /\ Before(b, c) => Before(a, c)
           /\ Before(a, b) /\ ~Before(c, b) => Before(a, c)
  BY ReferrerFields DEF Before

LEMMA TiesShareDigest ==
    ASSUME NEW a \in ToolProfileReferrer, NEW b \in ToolProfileReferrer,
           ~Before(a, b), ~Before(b, a)
    PROVE  a.digest = b.digest
  <1>1. a.digest.profile = b.digest.profile /\ a.digest.created = b.digest.created
    BY ReferrerFields DEF Before
  <1>2. a.digest \in [profile: Nat, created: Nat] /\ b.digest \in [profile: Nat, created: Nat]
    BY ReferrerFields DEF Digests
  <1>3. QED
    BY <1>1, <1>2

LEMMA BeforeIsRecency ==
    ASSUME NEW a \in ToolProfileReferrer, NEW b \in ToolProfileReferrer, ~Before(b, a)
    PROVE  a.validatedAt >= b.validatedAt
  BY ReferrerFields DEF Before

(* Positions are totally ordered by Precedes. *)
LEMMA PrecedesIsTotal ==
    ASSUME NEW refs \in Seq(ToolProfileReferrer),
           NEW i \in DOMAIN refs, NEW j \in DOMAIN refs, NEW k \in DOMAIN refs
    PROVE  /\ ~Precedes(refs, i, i)
           /\ i # j => Precedes(refs, i, j) \/ Precedes(refs, j, i)
           /\ Precedes(refs, i, j) => ~Before(refs[j], refs[i])
           /\ Precedes(refs, i, j) /\ Precedes(refs, j, k) => Precedes(refs, i, k)
  <1>1. i \in Nat /\ j \in Nat /\ k \in Nat
    OBVIOUS
  <1>2. /\ refs[i] \in ToolProfileReferrer
        /\ refs[j] \in ToolProfileReferrer
        /\ refs[k] \in ToolProfileReferrer
    OBVIOUS
  <1>3. QED
    BY <1>1, <1>2, BeforeIsOrder DEF Precedes

(* A position has a rank among the positions, and the order of ranks is the *)
(* order of Precedes.                                                       *)
LEMMA RankInDomain ==
    ASSUME NEW refs \in Seq(ToolProfileReferrer), NEW i \in DOMAIN refs
    PROVE  /\ IsFiniteSet({j \in DOMAIN refs : Precedes(refs, j, i)})
           /\ Rank(refs, i) \in DOMAIN refs /\ Rank(refs, i) \in Nat
  <1> DEFINE P == {j \in DOMAIN refs : Precedes(refs, j, i)}
  <1>1. DOMAIN refs = 1..Len(refs) /\ Len(refs) \in Nat
    OBVIOUS
  <1>2. IsFiniteSet(DOMAIN refs) /\ Cardinality(DOMAIN refs) = Len(refs)
    <2>1. IsFiniteSet(1..Len(refs)) /\ Cardinality(1..Len(refs)) = Len(refs)
      BY <1>1, UpTo
    <2>2. QED
      BY <1>1, <2>1
  <1>3. P \in SUBSET (DOMAIN refs) /\ i \notin P
    BY PrecedesIsTotal
  <1>4. IsFiniteSet(P) /\ Cardinality(P) <= Len(refs) /\ Cardinality(P) # Len(refs)
    BY <1>2, <1>3, FS_Subset
  <1>5. Cardinality(P) \in Nat
    BY <1>4, FS_CardinalityType
  <1>6. Rank(refs, i) = Cardinality(P) + 1
    BY DEF Rank
  <1>7. Rank(refs, i) \in 1..Len(refs)
    BY <1>1, <1>4, <1>5, <1>6
  <1>8. QED
    BY <1>1, <1>4, <1>7

LEMMA RankFollowsOrder ==
    ASSUME NEW refs \in Seq(ToolProfileReferrer), NEW i \in DOMAIN refs, NEW j \in DOMAIN refs,
           Precedes(refs, i, j)
    PROVE  Rank(refs, i) < Rank(refs, j)
  <1> DEFINE P(m) == {k \in DOMAIN refs : Precedes(refs, k, m)}
  <1>1. P(i) \in SUBSET P(j) /\ i \in P(j) /\ i \notin P(i)
    BY PrecedesIsTotal
  <1>2. IsFiniteSet(P(i)) /\ IsFiniteSet(P(j))
    BY RankInDomain
  <1>3. Cardinality(P(i)) <= Cardinality(P(j)) /\ Cardinality(P(i)) # Cardinality(P(j))
    BY <1>1, <1>2, FS_Subset
  <1>4. Cardinality(P(i)) \in Nat /\ Cardinality(P(j)) \in Nat
    BY <1>2, FS_CardinalityType
  <1>5. Rank(refs, i) = Cardinality(P(i)) + 1 /\ Rank(refs, j) = Cardinality(P(j)) + 1
    BY DEF Rank
  <1>6. QED
    BY <1>3, <1>4, <1>5

(* Every rank is taken, by one position. *)
LEMMA EveryRankIsTaken ==
    ASSUME NEW refs \in Seq(ToolProfileReferrer), NEW r \in DOMAIN refs
    PROVE  AtRank(refs, r) \in DOMAIN refs /\ Rank(refs, AtRank(refs, r)) = r
  <1> DEFINE D == DOMAIN refs
             f == [i \in D |-> Rank(refs, i)]
  <1>1. f \in [D -> D]
    BY RankInDomain
  <1>2. ASSUME NEW i \in D, NEW j \in D, f[i] = f[j] PROVE i = j
    <2>1. Rank(refs, i) \in Nat /\ Rank(refs, i) = Rank(refs, j)
      BY <1>2, RankInDomain
    <2>2. ~Precedes(refs, i, j) /\ ~Precedes(refs, j, i)
      BY <2>1, RankFollowsOrder
    <2>3. QED
      BY <2>2, PrecedesIsTotal
  <1>3. f \in Injection(D, D)
    BY <1>1, <1>2, Fun_IsInj
  <1>4. IsFiniteSet(D)
    <2>1. D = 1..Len(refs) /\ Len(refs) \in Nat
      OBVIOUS
    <2>2. QED
      BY <2>1, UpTo
  <1>5. f \in Surjection(D, D)
    BY <1>3, <1>4, FS_Injection
  <1>6. \E i \in D : Rank(refs, i) = r
    BY <1>5, Fun_SurjectionProperties DEF Surjection
  <1>7. QED
    BY <1>6 DEF AtRank

LEMMA RankIsUnique ==
    ASSUME NEW refs \in Seq(ToolProfileReferrer), NEW i \in DOMAIN refs
    PROVE  AtRank(refs, Rank(refs, i)) = i
  <1> DEFINE r == Rank(refs, i)
             j == AtRank(refs, r)
  <1>1. r \in DOMAIN refs /\ r \in Nat
    BY RankInDomain
  <1>2. j \in DOMAIN refs /\ Rank(refs, j) = r
    BY <1>1, EveryRankIsTaken
  <1>3. ~Precedes(refs, i, j) /\ ~Precedes(refs, j, i)
    BY <1>1, <1>2, RankFollowsOrder
  <1>4. QED
    BY <1>2, <1>3, PrecedesIsTotal

-----------------------------------------------------------------------------
(* What ranking makes of the referrers of an entry *)

LEMMA MarkKeepsIdentity ==
    ASSUME NEW ref \in ToolProfileReferrer, NEW r \in Nat, NEW time \in Nat, Retain \in Nat
    PROVE  /\ Marked(ref, r, time) \in ToolProfileReferrer
           /\ Marked(ref, r, time).check = ref.check
           /\ Marked(ref, r, time).digest = ref.digest
           /\ Marked(ref, r, time).validatedAt = ref.validatedAt
           /\ Marked(ref, r, time).observedAt = ref.observedAt
  BY DEF Marked, ToolProfileReferrer

LEMMA MarkFollowsRank ==
    ASSUME NEW ref \in ToolProfileReferrer, NEW r \in Nat, NEW time \in Nat, Retain \in Nat
    PROVE  Marked(ref, r, time).status = "ACTIVE" <=> r <= Retain
  BY DEF Marked, ToolProfileReferrer

Rerank(refs, time) == rankToolProfileReferrers(refs, time)

(* The referrer at a rank is one of those given, and marked by its rank. *)
LEMMA RankedElement ==
    ASSUME NEW refs \in Seq(ToolProfileReferrer), NEW time \in Nat, Retain \in Nat,
           NEW r \in DOMAIN refs
    PROVE  /\ AtRank(refs, r) \in DOMAIN refs
           /\ Rerank(refs, time)[r] \in ToolProfileReferrer
           /\ Rerank(refs, time)[r].check = refs[AtRank(refs, r)].check
           /\ Rerank(refs, time)[r].digest = refs[AtRank(refs, r)].digest
           /\ Rerank(refs, time)[r].validatedAt = refs[AtRank(refs, r)].validatedAt
           /\ Rerank(refs, time)[r].observedAt = refs[AtRank(refs, r)].observedAt
  <1> DEFINE ref == refs[AtRank(refs, r)]
  <1>1. r \in Nat
    OBVIOUS
  <1>2. AtRank(refs, r) \in DOMAIN refs
    BY EveryRankIsTaken
  <1>3. ref \in ToolProfileReferrer
    BY <1>2
  <1>4. Rerank(refs, time)[r] = Marked(ref, r, time)
    BY DEF Rerank, rankToolProfileReferrers
  <1> HIDE DEF ref
  <1>5. /\ Marked(ref, r, time) \in ToolProfileReferrer
        /\ Marked(ref, r, time).check = ref.check
        /\ Marked(ref, r, time).digest = ref.digest
        /\ Marked(ref, r, time).validatedAt = ref.validatedAt
        /\ Marked(ref, r, time).observedAt = ref.observedAt
    BY <1>1, <1>3, MarkKeepsIdentity
  <1>6. QED
    BY <1>2, <1>4, <1>5 DEF ref

LEMMA RankedMark ==
    ASSUME NEW refs \in Seq(ToolProfileReferrer), NEW time \in Nat, Retain \in Nat,
           NEW r \in DOMAIN refs
    PROVE  Rerank(refs, time)[r].status = "ACTIVE" <=> r <= Retain
  <1> DEFINE ref == refs[AtRank(refs, r)]
  <1>1. r \in Nat
    OBVIOUS
  <1>2. ref \in ToolProfileReferrer
    BY EveryRankIsTaken
  <1>3. Rerank(refs, time)[r] = Marked(ref, r, time)
    BY DEF Rerank, rankToolProfileReferrers
  <1> HIDE DEF ref
  <1>4. QED
    BY <1>1, <1>2, <1>3, MarkFollowsRank

LEMMA RankedType ==
    ASSUME NEW refs \in Seq(ToolProfileReferrer), NEW time \in Nat, Retain \in Nat
    PROVE  /\ Rerank(refs, time) \in Seq(ToolProfileReferrer)
           /\ DOMAIN Rerank(refs, time) = DOMAIN refs
  <1>1. DOMAIN refs = 1..Len(refs) /\ Len(refs) \in Nat
    OBVIOUS
  <1>2. Rerank(refs, time) = [r \in 1..Len(refs) |-> Rerank(refs, time)[r]]
    BY <1>1 DEF Rerank, rankToolProfileReferrers
  <1>3. \A r \in 1..Len(refs) : Rerank(refs, time)[r] \in ToolProfileReferrer
    BY <1>1, RankedElement
  <1>4. QED
    BY <1>1, <1>2, <1>3

(* The result is ordered, and no referrer is in it twice. *)
LEMMA RankedOrder ==
    ASSUME NEW refs \in Seq(ToolProfileReferrer), NEW time \in Nat, Retain \in Nat,
           NEW r \in DOMAIN refs, NEW q \in DOMAIN refs, r < q
    PROVE  /\ ~Before(Rerank(refs, time)[q], Rerank(refs, time)[r])
           /\ AtRank(refs, r) # AtRank(refs, q)
  <1> DEFINE i == AtRank(refs, r)
             j == AtRank(refs, q)
  <1>1. /\ i \in DOMAIN refs /\ Rank(refs, i) = r /\ r \in Nat
        /\ j \in DOMAIN refs /\ Rank(refs, j) = q /\ q \in Nat
    BY EveryRankIsTaken
  <1> HIDE DEF i, j
  <1>2. ~Precedes(refs, j, i) /\ j # i
    BY <1>1, RankFollowsOrder
  <1>3. Precedes(refs, i, j)
    BY <1>1, <1>2, PrecedesIsTotal
  <1>4. ~Before(refs[j], refs[i])
    BY <1>1, <1>3, PrecedesIsTotal
  <1>5. ~Before(Rerank(refs, time)[q], Rerank(refs, time)[r])
    BY <1>4, RankedElement DEF Before, i, j
  <1>6. QED
    BY <1>2, <1>5 DEF i, j

(* A referrer is found again at its rank. *)
LEMMA FoundAtRank ==
    ASSUME NEW refs \in Seq(ToolProfileReferrer), NEW time \in Nat, Retain \in Nat,
           NEW i \in DOMAIN refs
    PROVE  Rerank(refs, time)[Rank(refs, i)].digest = refs[i].digest
  <1> DEFINE r == Rank(refs, i)
  <1>1. r \in DOMAIN refs /\ AtRank(refs, r) = i
    BY RankInDomain, RankIsUnique
  <1> HIDE DEF r
  <1>2. Rerank(refs, time)[r].digest = refs[AtRank(refs, r)].digest
    BY <1>1, RankedElement
  <1>3. QED
    BY <1>1, <1>2 DEF r

(* Recording one more referrer takes no manifest off the marked ones: of    *)
(* the referrers ranked up to a marked one, one has to be marked again, and *)
(* if it is another one it ties with it.                                    *)
LEMMA MarkedStaysMarked ==
    ASSUME NEW old \in Seq(ToolProfileReferrer), NEW ref \in ToolProfileReferrer,
           NEW time \in Nat, Retain \in Nat,
           \A i, j \in DOMAIN old : i < j => ~Before(old[j], old[i]),
           NEW m \in DOMAIN old, m > Retain
    PROVE  \E q \in 1..(Len(old) + 1) :
              q > Retain /\ Rerank(Append(old, ref), time)[q].digest = old[m].digest
  <1> DEFINE refs == Append(old, ref)
             ranked == Rerank(refs, time)
             rank(i) == Rank(refs, i)
  <1>1. /\ refs \in Seq(ToolProfileReferrer) /\ DOMAIN refs = 1..(Len(old) + 1)
        /\ \A i \in 1..m : i \in DOMAIN old /\ i \in DOMAIN refs /\ refs[i] = old[i] /\ i \in Nat
        /\ m \in Nat
    OBVIOUS
  <1>2. PICK k \in 1..m : rank(k) > Retain
    <2>1. SUFFICES ASSUME \A k \in 1..m : ~(rank(k) > Retain) PROVE FALSE
      OBVIOUS
    <2>2. \A k \in 1..m : rank(k) \in 1..Retain
      <3>1. \A k \in 1..m : rank(k) \in DOMAIN refs
        BY <1>1, RankInDomain
      <3>2. DOMAIN refs = 1..Len(refs) /\ Len(refs) \in Nat
        BY <1>1
      <3>3. QED
        BY <2>1, <3>1, <3>2
    <2> DEFINE f == [k \in 1..m |-> rank(k)]
    <2>3. f \in [1..m -> 1..Retain]
      BY <2>2
    <2> HIDE DEF f
    <2>4. /\ IsFiniteSet(1..m) /\ IsFiniteSet(1..Retain)
          /\ Cardinality(1..Retain) < Cardinality(1..m)
      <3>1. Cardinality(1..m) = m /\ IsFiniteSet(1..m)
        BY <1>1, UpTo
      <3>2. Cardinality(1..Retain) = Retain /\ IsFiniteSet(1..Retain)
        BY UpTo
      <3>3. QED
        BY <3>1, <3>2
    <2>5. PICK x, y \in 1..m : x # y /\ f[x] = f[y]
      BY <2>3, <2>4, FS_PigeonHole
    <2>6. x # y /\ rank(x) = rank(y)
      BY <2>5 DEF f
    <2>7. QED
      BY <1>1, <2>6, RankIsUnique
  <1>3. \A i \in 1..m : rank(i) \in DOMAIN refs /\ ranked[rank(i)].digest = old[i].digest
    <2>1. SUFFICES ASSUME NEW i \in 1..m
                   PROVE  rank(i) \in DOMAIN refs /\ ranked[rank(i)].digest = old[i].digest
      OBVIOUS
    <2>2. refs \in Seq(ToolProfileReferrer) /\ i \in DOMAIN refs /\ refs[i] = old[i]
      BY <1>1
    <2> HIDE DEF refs
    <2>3. rank(i) \in DOMAIN refs
      BY <2>2, RankInDomain
    <2>4. ranked[rank(i)].digest = refs[i].digest
      BY <2>2, FoundAtRank
    <2>5. QED
      BY <2>2, <2>3, <2>4
  <1>4. m \in 1..m
    BY <1>1
  <1>5. CASE rank(m) > Retain
    BY <1>1, <1>3, <1>4, <1>5
  <1>6. CASE ~(rank(m) > Retain)
    <2>1. k # m /\ k < m
      BY <1>1, <1>2, <1>6
    <2>2. ~Before(old[m], old[k])
      BY <1>1, <2>1
    <2>3. ~Before(old[k], old[m])
      <3>1. /\ m \in DOMAIN refs /\ k \in DOMAIN refs /\ refs[m] = old[m] /\ refs[k] = old[k]
            /\ rank(k) \in Nat /\ rank(m) \in Nat
        BY <1>1, <1>4, RankInDomain
      <3>2. ~Precedes(refs, k, m)
        <4>1. ~(rank(k) < rank(m))
          BY <1>2, <1>6, <3>1
        <4>2. QED
          BY <1>1, <3>1, <4>1, RankFollowsOrder
      <3>3. Precedes(refs, m, k)
        BY <1>1, <2>1, <3>1, <3>2, PrecedesIsTotal
      <3>4. QED
        BY <1>1, <3>1, <3>3, PrecedesIsTotal
    <2>4. old[k].digest = old[m].digest
      BY <1>1, <2>2, <2>3, TiesShareDigest
    <2>5. QED
      BY <1>1, <1>2, <1>3, <2>4
  <1>7. QED
    BY <1>5, <1>6

-----------------------------------------------------------------------------
(* Types *)

Referrer(c) ==
    [check |-> c, digest |-> handler[c].digest,
     validatedAt |-> handler[c].validatedAt, observedAt |-> handler[c].observedAt,
     status |-> "ACTIVE", markedAt |-> 0]

LEMMA Written ==
    ASSUME NEW new, Saved(new) \/ NotSaved(new)
    PROVE  mem' = new /\ disk' \in {disk, new}
  BY DEF Saved, NotSaved

LEMMA FailuresCount ==
    ASSUME NEW new, Saved(new) \/ NotSaved(new), failures \in Nat
    PROVE  failures' \in Nat /\ (failures' = 0 => failures = 0)
  BY DEF Saved, NotSaved, Fail

(* What RecordToolProfileReferrer makes of the index. *)
LEMMA Recorded ==
    ASSUME ProfilesTypeOK, Retain \in Nat \ {0}, NEW c \in Checks, RecordToolProfileReferrer(c)
    PROVE  /\ Referrer(c) \in ToolProfileReferrer
           /\ Append(mem.referrers, Referrer(c)) \in Seq(ToolProfileReferrer)
           /\ mem' \in Index
           /\ mem'.checks = mem.checks /\ mem'.registered = mem.registered
           /\ mem'.referrers = Rerank(Append(mem.referrers, Referrer(c)), now)
           /\ mem'.latest = mem'.referrers[1].digest
           /\ disk' \in {disk, mem'}
  <1> DEFINE refs == Append(mem.referrers, Referrer(c))
             ranked == Rerank(refs, now)
             new == [mem EXCEPT !.referrers = ranked, !.latest = ranked[1].digest]
  <1>1. mem \in Index /\ now \in Nat
    BY DEF ProfilesTypeOK
  <1>2. Referrer(c) \in ToolProfileReferrer
    BY DEF ProfilesTypeOK, Referrer, ToolProfileReferrer
  <1>3. refs \in Seq(ToolProfileReferrer) /\ 1 \in DOMAIN refs
    BY <1>1, <1>2 DEF Index
  <1>4. Saved(new) \/ NotSaved(new)
    BY DEF RecordToolProfileReferrer, Referrer, Rerank
  <1>5. mem' = new /\ disk' \in {disk, new}
    BY <1>4, Written
  <1> HIDE DEF refs
  <1>6. ranked \in Seq(ToolProfileReferrer) /\ ranked[1] \in ToolProfileReferrer
    BY <1>1, <1>3, RankedType, RankedElement
  <1> HIDE DEF ranked
  <1>7. ranked[1].digest \in Digests
    BY <1>6, ReferrerFields
  <1>8. new \in Index
    BY <1>1, <1>6, <1>7 DEF Index
  <1>9. /\ new.checks = mem.checks /\ new.registered = mem.registered
        /\ new.referrers = ranked /\ new.latest = ranked[1].digest
    BY <1>1 DEF Index
  <1>10. QED
    BY <1>2, <1>3, <1>5, <1>8, <1>9 DEF refs, ranked

LEMMA TypeInit ==
    ASSUME ProfilesInit
    PROVE  ProfilesTypeOK
  <1>1. EmptyIndex \in Index
    BY DEF EmptyIndex, Index, NoDigest, Digests
  <1>2. Idle \in [pc: {"idle", "stored", "push", "record"},
                    validatedAt: Nat, observedAt: Nat, digest: Digests]
    BY DEF Idle, NoDigest, Digests
  <1>3. QED
    BY <1>1, <1>2 DEF ProfilesInit, ProfilesTypeOK

LEMMA TypeStep ==
    ASSUME Checks \subseteq Check, Retain \in Nat \ {0}, ProfilesTypeOK, [ProfilesNext]_profileVars
    PROVE  ProfilesTypeOK'
  <1> DEFINE H == [pc: {"idle", "stored", "push", "record"},
                   validatedAt: Nat, observedAt: Nat, digest: Digests]
  <1>1. /\ mem \in Index /\ disk \in Index /\ registry \subseteq Digests
        /\ pushed \subseteq Checks \X Digests /\ handler \in [Checks -> H]
        /\ cleanup \subseteq Digests
        /\ now \in Nat /\ failures \in Nat /\ crashes \in Nat
    BY DEF ProfilesTypeOK
  <1>2. Idle \in H
    BY DEF Idle, NoDigest, Digests
  <1>3. CASE RegisterTool
    <2> DEFINE new == [mem EXCEPT !.registered = TRUE]
    <2>1. new \in Index
      BY <1>1 DEF Index
    <2>2. Saved(new) \/ NotSaved(new)
      BY <1>3 DEF RegisterTool
    <2> HIDE DEF new
    <2>3. QED
      BY <1>1, <1>3, <2>1, <2>2, Written, FailuresCount DEF RegisterTool, ProfilesTypeOK, registryVars
  <1>4. ASSUME NEW c \in Checks, SubmitToolCheckRecord(c) PROVE ProfilesTypeOK'
    <2> DEFINE new == [mem EXCEPT !.checks = @ \cup {c}]
               at == IF c.checkedAt = 0 THEN now ELSE c.checkedAt
               h == [Idle EXCEPT !.pc = "stored", !.validatedAt = at]
    <2>1. new \in Index
      BY <1>1 DEF Index
    <2>2. h \in H
      BY <1>1, <1>2 DEF Check
    <2>3. /\ Saved(new) \/ NotSaved(new)
          /\ handler' \in {handler, [handler EXCEPT ![c] = h]}
      BY <1>4 DEF SubmitToolCheckRecord
    <2> HIDE DEF new, h
    <2>4. handler' \in [Checks -> H]
      BY <1>1, <2>2, <2>3
    <2>5. QED
      BY <1>1, <1>4, <2>1, <2>3, <2>4, Written, FailuresCount
         DEF SubmitToolCheckRecord, ProfilesTypeOK, registryVars
  <1>5. ASSUME NEW c \in Checks, pushProfileReferrer(c) PROVE ProfilesTypeOK'
    <2> DEFINE d == [profile |-> c.profile, created |-> now]
    <2>1. d \in Digests
      BY <1>1 DEF Digests, Check
    <2> DEFINE h == [handler[c] EXCEPT !.pc = "push", !.digest = d]
    <2>2. handler' \in {[handler EXCEPT ![c] = h], [handler EXCEPT ![c] = Idle]}
      BY <1>5 DEF pushProfileReferrer
    <2> HIDE DEF d
    <2>3. h \in H
      BY <1>1, <2>1
    <2> HIDE DEF h, H
    <2>4. handler' \in [Checks -> H]
      BY <1>1, <1>2, <2>2, <2>3
    <2> USE DEF H
    <2>5. QED
      BY <1>1, <1>5, <2>4 DEF pushProfileReferrer, ProfilesTypeOK, registryVars
  <1>6. ASSUME NEW c \in Checks, PushToolProfileReferrer(c) PROVE ProfilesTypeOK'
    <2>1. handler[c].digest \in Digests
      BY <1>1
    <2>2. /\ registry' \in {registry, registry \cup {handler[c].digest}}
          /\ pushed' \in {pushed, pushed \cup {<<c, handler[c].digest>>}}
          /\ failures' \in Nat
      BY <1>1, <1>6 DEF PushToolProfileReferrer, Pushed, Fail, registryVars
    <2>3. \/ handler' = [handler EXCEPT ![c].pc = "record", ![c].observedAt = now]
          \/ handler' = [handler EXCEPT ![c] = Idle]
      BY <1>6 DEF PushToolProfileReferrer, Recording
    <2>4. handler' \in [Checks -> H]
      BY <1>1, <1>2, <2>3
    <2>5. registry' \subseteq Digests /\ pushed' \subseteq Checks \X Digests
      BY <1>1, <2>1, <2>2
    <2>6. QED
      BY <1>1, <1>6, <2>2, <2>4, <2>5 DEF PushToolProfileReferrer, ProfilesTypeOK
  <1>7. ASSUME NEW c \in Checks, RecordToolProfileReferrer(c) PROVE ProfilesTypeOK'
    <2>1. mem' \in Index /\ disk' \in {disk, mem'}
      BY <1>7, Recorded
    <2>2. handler' = [handler EXCEPT ![c] = Idle] /\ failures' \in Nat
      BY <1>1, <1>7, FailuresCount DEF RecordToolProfileReferrer, Saved, NotSaved, Fail
    <2>3. handler' \in [Checks -> H]
      BY <1>1, <1>2, <2>2
    <2>4. QED
      BY <1>1, <1>7, <2>1, <2>2, <2>3 DEF RecordToolProfileReferrer, ProfilesTypeOK, registryVars
  <1>8. CASE ListToolProfileGCCandidates
    <2>1. \A i \in gcCandidates(mem.referrers) : mem.referrers[i].digest \in Digests
      BY <1>1, ReferrerFields DEF Index, gcCandidates
    <2>2. QED
      BY <1>1, <1>8, <2>1 DEF ListToolProfileGCCandidates, ProfilesTypeOK, registryVars
  <1>9. ASSUME NEW d \in cleanup, DeleteReferrer(d) PROVE ProfilesTypeOK'
    BY <1>1, <1>9 DEF DeleteReferrer, ProfilesTypeOK
  <1>10. CASE Tick
    BY <1>1, <1>10 DEF Tick, ProfilesTypeOK, registryVars
  <1>11. CASE CrashRestart
    BY <1>1, <1>2, <1>11 DEF CrashRestart, ProfilesTypeOK, registryVars
  <1>12. CASE UNCHANGED profileVars
    BY <1>1, <1>12 DEF profileVars, ProfilesTypeOK, registryVars
  <1>13. QED
    BY <1>3, <1>4, <1>5, <1>6, <1>7, <1>8, <1>9, <1>10, <1>11, <1>12 DEF ProfilesNext

-----------------------------------------------------------------------------
(* The order and the marks of the stored referrers *)

(* A step leaves in the file what it had or what memory has now; and the    *)
(* referrers in memory change only when one is recorded or with a restart.  *)
LEMMA IndexStep ==
    ASSUME ProfilesTypeOK, Retain \in Nat \ {0}, [ProfilesNext]_profileVars
    PROVE  /\ disk' \in {disk, mem'}
           /\ \/ mem'.referrers = mem.referrers /\ mem'.latest = mem.latest
                 /\ mem.checks \subseteq mem'.checks
              \/ mem' = disk /\ crashes' # 0
              \/ \E c \in Checks : RecordToolProfileReferrer(c)
  <1>1. mem \in Index /\ crashes \in Nat
    BY DEF ProfilesTypeOK
  <1>2. CASE RegisterTool
    <2> DEFINE new == [mem EXCEPT !.registered = TRUE]
    <2>1. mem' = new /\ disk' \in {disk, new}
      BY <1>2, Written DEF RegisterTool
    <2>2. QED
      BY <1>1, <2>1 DEF Index
  <1>3. ASSUME NEW c \in Checks, SubmitToolCheckRecord(c)
        PROVE  /\ disk' \in {disk, mem'}
               /\ mem'.referrers = mem.referrers /\ mem'.latest = mem.latest
               /\ mem.checks \subseteq mem'.checks
    <2> DEFINE new == [mem EXCEPT !.checks = @ \cup {c}]
    <2>1. Saved(new) \/ NotSaved(new)
      BY <1>3 DEF SubmitToolCheckRecord
    <2>2. mem' = new /\ disk' \in {disk, new}
      BY <2>1, Written
    <2>3. QED
      BY <1>1, <2>2 DEF Index
  <1>4. ASSUME NEW c \in Checks, RecordToolProfileReferrer(c) PROVE disk' \in {disk, mem'}
    BY <1>4, Recorded
  <1>5. CASE CrashRestart
    BY <1>1, <1>5 DEF CrashRestart
  <1>6. CASE /\ mem' = mem /\ disk' = disk
    BY <1>6
  <1>7. QED
    BY <1>2, <1>3, <1>4, <1>5, <1>6
       DEF ProfilesNext, profileVars, pushProfileReferrer, PushToolProfileReferrer,
           ListToolProfileGCCandidates, DeleteReferrer, Tick

LEMMA RankStep ==
    ASSUME ProfilesTypeOK, Retain \in Nat \ {0}, RankInv, [ProfilesNext]_profileVars
    PROVE  RankInv'
  <1>1. Ranked(mem) /\ Ranked(disk)
    BY DEF RankInv
  <1>2. SUFFICES Ranked(mem')
    <2>1. disk' \in {disk, mem'}
      BY IndexStep
    <2>2. QED
      BY <1>1, <1>2, <2>1 DEF RankInv
  <1>3. CASE mem'.referrers = mem.referrers /\ mem'.latest = mem.latest
    BY <1>1, <1>3 DEF Ranked
  <1>4. CASE mem' = disk
    BY <1>1, <1>4
  <1>5. ASSUME NEW c \in Checks, RecordToolProfileReferrer(c) PROVE Ranked(mem')
    <2> DEFINE refs == Append(mem.referrers, Referrer(c))
    <2>1. /\ refs \in Seq(ToolProfileReferrer) /\ now \in Nat
          /\ mem'.referrers = Rerank(refs, now)
          /\ mem'.latest = mem'.referrers[1].digest
      BY <1>5, Recorded DEF ProfilesTypeOK
    <2> HIDE DEF refs
    <2>2. DOMAIN mem'.referrers = DOMAIN refs
      BY <2>1, RankedType
    <2>3. \A i, j \in DOMAIN refs : i < j => ~Before(mem'.referrers[j], mem'.referrers[i])
      BY <2>1, RankedOrder
    <2>4. \A i \in DOMAIN refs : (mem'.referrers[i].status = "ACTIVE" <=> i <= Retain)
      BY <2>1, RankedMark
    <2>5. QED
      BY <2>1, <2>2, <2>3, <2>4 DEF Ranked
  <1>6. QED
    BY <1>3, <1>4, <1>5, IndexStep

LEMMA RankedGivesLatest ==
    ASSUME ProfilesTypeOK, RankInv, Retain \in Nat \ {0}
    PROVE  RetainedAreLatest
  <1>1. SUFFICES ASSUME NEW idx \in {mem, disk}
                 PROVE  LET refs == idx.referrers
                        IN  /\ Cardinality(Retained(idx))
                                  = (IF Len(refs) < Retain THEN Len(refs) ELSE Retain)
                            /\ \A i \in Retained(idx), j \in Candidates(idx) :
                                   refs[i].validatedAt >= refs[j].validatedAt
                            /\ refs # <<>> => \E i \in DOMAIN refs :
                                   /\ refs[i].digest = idx.latest
                                   /\ \A j \in DOMAIN refs : refs[i].validatedAt >= refs[j].validatedAt
    BY DEF RetainedAreLatest
  <1> DEFINE refs == idx.referrers
  <1>2. Ranked(idx) /\ refs \in Seq(ToolProfileReferrer)
    BY DEF RankInv, ProfilesTypeOK, Index
  <1>3. DOMAIN refs = 1..Len(refs) /\ Len(refs) \in Nat
    BY <1>2
  <1>4. \A i, j \in DOMAIN refs : i <= j => refs[i].validatedAt >= refs[j].validatedAt
    <2>1. SUFFICES ASSUME NEW i \in DOMAIN refs, NEW j \in DOMAIN refs, i <= j
                   PROVE  refs[i].validatedAt >= refs[j].validatedAt
      OBVIOUS
    <2>2. /\ refs[i] \in ToolProfileReferrer /\ refs[j] \in ToolProfileReferrer
          /\ i \in Nat /\ j \in Nat
      BY <1>2
    <2>3. CASE i = j
      BY <2>2, <2>3, ReferrerFields
    <2>4. CASE i < j
      <3>1. ~Before(refs[j], refs[i])
        BY <1>2, <2>4 DEF Ranked
      <3>2. QED
        BY <2>2, <3>1, BeforeIsRecency
    <2>5. QED
      BY <2>1, <2>2, <2>3, <2>4
  <1>5. Retained(idx) = {i \in DOMAIN refs : i <= Retain}
    BY <1>2 DEF Ranked, Retained
  <1>6. Cardinality(Retained(idx)) = (IF Len(refs) < Retain THEN Len(refs) ELSE Retain)
    <2> DEFINE n == IF Len(refs) < Retain THEN Len(refs) ELSE Retain
    <2>1. n \in Nat /\ Retained(idx) = 1..n
      BY <1>3, <1>5
    <2>2. Cardinality(1..n) = n
      BY <2>1, UpTo
    <2>3. QED
      BY <2>1, <2>2
  <1>7. \A i \in Retained(idx), j \in Candidates(idx) : refs[i].validatedAt >= refs[j].validatedAt
    <2>1. \A i \in Retained(idx), j \in Candidates(idx) :
             i \in DOMAIN refs /\ j \in DOMAIN refs /\ i <= j
      BY <1>3, <1>5 DEF Candidates
    <2>2. QED
      BY <1>4, <2>1
  <1>8. ASSUME refs # <<>>
        PROVE  \E i \in DOMAIN refs :
                  /\ refs[i].digest = idx.latest
                  /\ \A j \in DOMAIN refs : refs[i].validatedAt >= refs[j].validatedAt
    <2>1. 1 \in DOMAIN refs /\ \A j \in DOMAIN refs : 1 <= j
      BY <1>2, <1>3, <1>8
    <2>2. refs[1].digest = idx.latest
      BY <1>2, <1>8 DEF Ranked
    <2>3. \A j \in DOMAIN refs : refs[1].validatedAt >= refs[j].validatedAt
      BY <1>4, <2>1
    <2>4. QED
      BY <2>1, <2>2, <2>3
  <1>9. QED
    BY <1>6, <1>7, <1>8

-----------------------------------------------------------------------------
(* Referrers, checks and pushes *)

(* What RecordedWasPushed says of one index. *)
Backed(idx) ==
    \A i, j \in DOMAIN idx.referrers :
        LET ref == idx.referrers[i]
        IN  /\ <<ref.check, ref.digest>> \in pushed
            /\ ref.check \in idx.checks
            /\ idx.referrers[j].check = ref.check => j = i

LEMMA PushesStay ==
    ASSUME [ProfilesNext]_profileVars
    PROVE  pushed \subseteq pushed'
  BY DEF ProfilesNext, profileVars, registryVars, RegisterTool, SubmitToolCheckRecord,
         pushProfileReferrer, PushToolProfileReferrer, Pushed, RecordToolProfileReferrer,
         ListToolProfileGCCandidates, DeleteReferrer, Tick, CrashRestart

LEMMA BackedStep ==
    ASSUME ProfilesTypeOK, Retain \in Nat \ {0}, RecordedWasPushed, HandlerInv, [ProfilesNext]_profileVars
    PROVE  RecordedWasPushed'
  <1>1. Backed(mem) /\ Backed(disk)
    BY DEF RecordedWasPushed, Backed
  <1>2. pushed \subseteq pushed'
    BY PushesStay
  <1>3. SUFFICES \A i, j \in DOMAIN mem'.referrers :
                    /\ <<mem'.referrers[i].check, mem'.referrers[i].digest>> \in pushed'
                    /\ mem'.referrers[i].check \in mem'.checks
                    /\ mem'.referrers[j].check = mem'.referrers[i].check => j = i
    <2>1. disk' \in {disk, mem'}
      BY IndexStep
    <2>2. \A i, j \in DOMAIN disk.referrers :
             /\ <<disk.referrers[i].check, disk.referrers[i].digest>> \in pushed'
             /\ disk.referrers[i].check \in disk.checks
             /\ disk.referrers[j].check = disk.referrers[i].check => j = i
      BY <1>1, <1>2 DEF Backed
    <2>3. QED
      BY <1>3, <2>1, <2>2 DEF RecordedWasPushed
  <1>4. CASE mem'.referrers = mem.referrers /\ mem.checks \subseteq mem'.checks
    BY <1>1, <1>2, <1>4 DEF Backed
  <1>5. CASE mem' = disk
    BY <1>1, <1>2, <1>5 DEF Backed
  <1>6. ASSUME NEW c \in Checks, RecordToolProfileReferrer(c),
               NEW i \in DOMAIN mem'.referrers, NEW j \in DOMAIN mem'.referrers
        PROVE  /\ <<mem'.referrers[i].check, mem'.referrers[i].digest>> \in pushed'
               /\ mem'.referrers[i].check \in mem'.checks
               /\ mem'.referrers[j].check = mem'.referrers[i].check => j = i
    <2> DEFINE refs == Append(mem.referrers, Referrer(c))
    <2>1. /\ refs \in Seq(ToolProfileReferrer) /\ now \in Nat
          /\ mem'.referrers = Rerank(refs, now) /\ mem'.checks = mem.checks
          /\ mem \in Index
      BY <1>6, Recorded DEF ProfilesTypeOK
    <2>2. ASSUME NEW k \in DOMAIN refs
          PROVE  /\ <<refs[k].check, refs[k].digest>> \in pushed
                 /\ refs[k].check \in mem.checks
                 /\ \A m \in DOMAIN refs : refs[m].check = refs[k].check => m = k
      <3>1. /\ handler[c].pc = "record"
            /\ c \in mem.checks /\ <<c, handler[c].digest>> \in pushed
            /\ \A m \in DOMAIN mem.referrers : mem.referrers[m].check # c
        BY <1>6 DEF RecordToolProfileReferrer, HandlerInv
      <3>2. mem.referrers \in Seq(ToolProfileReferrer)
        BY <2>1 DEF Index
      <3>3. /\ DOMAIN refs = 1..(Len(mem.referrers) + 1)
            /\ DOMAIN mem.referrers = 1..Len(mem.referrers) /\ Len(mem.referrers) \in Nat
            /\ refs[Len(mem.referrers) + 1] = Referrer(c)
            /\ \A m \in DOMAIN mem.referrers : refs[m] = mem.referrers[m]
        BY <3>2
      <3>4. Referrer(c).check = c /\ Referrer(c).digest = handler[c].digest
        BY DEF Referrer
      <3> HIDE DEF refs
      <3>5. \A m \in DOMAIN refs : m \in DOMAIN mem.referrers \/ m = Len(mem.referrers) + 1
        BY <3>3
      <3>6. QED
        BY <1>1, <3>1, <3>3, <3>4, <3>5 DEF Backed
    <2> HIDE DEF refs
    <2>3. i \in DOMAIN refs /\ j \in DOMAIN refs /\ i \in Nat /\ j \in Nat
      <3>1. DOMAIN mem'.referrers = DOMAIN refs
        BY <2>1, RankedType
      <3>2. DOMAIN refs \subseteq Nat
        BY <2>1
      <3>3. QED
        BY <3>1, <3>2
    <2> DEFINE a == AtRank(refs, i)
               b == AtRank(refs, j)
    <2>4. /\ a \in DOMAIN refs /\ b \in DOMAIN refs
          /\ mem'.referrers[i].check = refs[a].check /\ mem'.referrers[i].digest = refs[a].digest
          /\ mem'.referrers[j].check = refs[b].check
      BY <2>1, <2>3, RankedElement
    <2>5. a = b => i = j
      <3>1. (~(i < j) /\ ~(j < i)) \/ a # b
        BY <2>1, <2>3, RankedOrder
      <3>2. QED
        BY <2>3, <3>1
    <2> HIDE DEF a, b
    <2>6. QED
      BY <1>2, <2>1, <2>2, <2>4, <2>5
  <1>7. QED
    BY <1>4, <1>5, <1>6, IndexStep

LEMMA HandlerStep ==
    ASSUME ProfilesTypeOK, Retain \in Nat \ {0}, RecordedWasPushed, HandlerInv, [ProfilesNext]_profileVars
    PROVE  HandlerInv'
  <1> DEFINE Fresh(c) == c \in mem.checks /\ \A i \in DOMAIN mem.referrers : mem.referrers[i].check # c
             Arrived(c) == <<c, handler[c].digest>> \in pushed
  <1>1. /\ handler \in [Checks -> [pc: {"idle", "stored", "push", "record"},
                       validatedAt: Nat, observedAt: Nat, digest: Digests]]
        /\ mem \in Index
    BY DEF ProfilesTypeOK
  <1>2. pushed \subseteq pushed'
    BY PushesStay
  <1>3. SUFFICES ASSUME NEW c \in Checks
                 PROVE  (handler[c].pc # "idle" => Fresh(c))' /\ (handler[c].pc = "record" => Arrived(c))'
    BY DEF HandlerInv
  <1>4. (handler[c].pc # "idle" => Fresh(c)) /\ (handler[c].pc = "record" => Arrived(c))
    BY DEF HandlerInv
  <1>5. Idle.pc = "idle"
    BY DEF Idle
  <1>6. CASE RegisterTool
    <2>1. mem' = [mem EXCEPT !.registered = TRUE]
      BY <1>6, Written DEF RegisterTool
    <2>2. mem'.checks = mem.checks /\ mem'.referrers = mem.referrers
      BY <1>1, <2>1 DEF Index
    <2>3. QED
      BY <1>4, <1>6, <2>2 DEF RegisterTool, registryVars
  <1>7. ASSUME NEW e \in Checks, SubmitToolCheckRecord(e)
        PROVE  (handler[c].pc # "idle" => Fresh(c))' /\ (handler[c].pc = "record" => Arrived(c))'
    <2>1. mem' = [mem EXCEPT !.checks = @ \cup {e}] /\ e \notin mem.checks
      <3>1. \/ Saved([mem EXCEPT !.checks = @ \cup {e}])
            \/ NotSaved([mem EXCEPT !.checks = @ \cup {e}])
        BY <1>7 DEF SubmitToolCheckRecord
      <3>2. QED
        BY <1>7, <3>1, Written DEF SubmitToolCheckRecord
    <2>2. mem'.checks = mem.checks \cup {e} /\ mem'.referrers = mem.referrers
      BY <1>1, <2>1 DEF Index
    <2>3. \A i \in DOMAIN mem.referrers : mem.referrers[i].check # e
      BY <2>1 DEF RecordedWasPushed
    <2>4. /\ c # e => handler'[c] = handler[c]
          /\ handler' = handler \/ handler'[e].pc = "stored"
      BY <1>1, <1>7 DEF SubmitToolCheckRecord, Idle
    <2>5. pushed' = pushed
      BY <1>7 DEF SubmitToolCheckRecord, registryVars
    <2>6. QED
      BY <1>4, <2>2, <2>3, <2>4, <2>5
  <1>8. ASSUME NEW e \in Checks, pushProfileReferrer(e)
        PROVE  (handler[c].pc # "idle" => Fresh(c))' /\ (handler[c].pc = "record" => Arrived(c))'
    <2>1. /\ c # e => handler'[c] = handler[c]
          /\ handler[e].pc = "stored" /\ handler'[e].pc \in {"push", "idle"}
          /\ mem' = mem /\ pushed' = pushed
      BY <1>1, <1>5, <1>8 DEF pushProfileReferrer, registryVars
    <2>2. QED
      BY <1>4, <2>1
  <1>9. ASSUME NEW e \in Checks, PushToolProfileReferrer(e)
        PROVE  (handler[c].pc # "idle" => Fresh(c))' /\ (handler[c].pc = "record" => Arrived(c))'
    <2>1. mem' = mem /\ handler[e].pc = "push"
      BY <1>9 DEF PushToolProfileReferrer
    <2>2. CASE c # e
      <3>1. handler'[c] = handler[c]
        BY <1>1, <1>9, <2>2 DEF PushToolProfileReferrer, Recording
      <3>2. QED
        BY <1>2, <1>4, <2>1, <3>1
    <2>3. CASE c = e
      <3>1. CASE Pushed(e) /\ Recording(e)
        <4>1. handler'[e].pc = "record" /\ handler'[e].digest = handler[e].digest
          BY <1>1, <3>1 DEF Recording
        <4>2. <<e, handler[e].digest>> \in pushed'
          BY <3>1 DEF Pushed
        <4>3. QED
          BY <1>4, <2>1, <2>3, <4>1, <4>2
      <3>2. CASE handler' = [handler EXCEPT ![e] = Idle]
        BY <1>1, <1>5, <2>3, <3>2
      <3>3. QED
        BY <1>9, <3>1, <3>2 DEF PushToolProfileReferrer
    <2>4. QED
      BY <2>2, <2>3
  <1>10. ASSUME NEW e \in Checks, RecordToolProfileReferrer(e)
         PROVE  (handler[c].pc # "idle" => Fresh(c))' /\ (handler[c].pc = "record" => Arrived(c))'
    <2>1. handler' = [handler EXCEPT ![e] = Idle] /\ pushed' = pushed
      BY <1>10 DEF RecordToolProfileReferrer, registryVars
    <2>2. CASE c = e
      BY <1>1, <1>5, <2>1, <2>2
    <2>3. CASE c # e
      <3> DEFINE refs == Append(mem.referrers, Referrer(e))
      <3>1. /\ refs \in Seq(ToolProfileReferrer) /\ now \in Nat
            /\ mem'.referrers = Rerank(refs, now) /\ mem'.checks = mem.checks
        BY <1>10, Recorded DEF ProfilesTypeOK
      <3>2. ASSUME handler[c].pc # "idle", NEW k \in DOMAIN refs PROVE refs[k].check # c
        <4>1. mem.referrers \in Seq(ToolProfileReferrer)
          BY <1>1 DEF Index
        <4>2. Referrer(e).check = e
          BY DEF Referrer
        <4>3. \/ k \in DOMAIN mem.referrers /\ refs[k] = mem.referrers[k]
              \/ refs[k] = Referrer(e)
          BY <4>1
        <4>4. QED
          BY <1>4, <2>3, <3>2, <4>2, <4>3
      <3> HIDE DEF refs
      <3>3. DOMAIN mem'.referrers = DOMAIN refs
        BY <3>1, RankedType
      <3>4. \A k \in DOMAIN refs :
               AtRank(refs, k) \in DOMAIN refs
               /\ mem'.referrers[k].check = refs[AtRank(refs, k)].check
        BY <3>1, RankedElement
      <3>5. handler'[c] = handler[c]
        BY <1>1, <2>1, <2>3
      <3>6. QED
        BY <1>4, <2>1, <3>1, <3>2, <3>3, <3>4, <3>5
    <2>4. QED
      BY <2>2, <2>3
  <1>11. CASE CrashRestart
    BY <1>5, <1>11 DEF CrashRestart
  <1>12. CASE mem' = mem /\ handler' = handler /\ pushed' = pushed
    BY <1>4, <1>12
  <1>13. QED
    BY <1>6, <1>7, <1>8, <1>9, <1>10, <1>11, <1>12
       DEF ProfilesNext, profileVars, registryVars, ListToolProfileGCCandidates, DeleteReferrer, Tick

-----------------------------------------------------------------------------
(* The cleanup *)

(* As long as nothing failed or crashed, a digest that was marked stays so. *)
LEMMA CandidatesStay ==
    ASSUME ProfilesTypeOK, Retain \in Nat \ {0}, RankInv, [ProfilesNext]_profileVars, crashes' = 0
    PROVE  CandidateDigests \subseteq CandidateDigests'
  <1>1. CASE mem'.referrers = mem.referrers
    BY <1>1 DEF CandidateDigests, Candidates, Retained
  <1>2. ASSUME NEW c \in Checks, RecordToolProfileReferrer(c), NEW m \in Candidates(mem)
        PROVE  mem.referrers[m].digest \in CandidateDigests'
    <2> DEFINE old == mem.referrers
               ref == Referrer(c)
    <2>1. /\ ref \in ToolProfileReferrer
          /\ Append(old, ref) \in Seq(ToolProfileReferrer)
          /\ mem'.referrers = Rerank(Append(old, ref), now) /\ now \in Nat
      BY <1>2, Recorded DEF ProfilesTypeOK
    <2>2. /\ old \in Seq(ToolProfileReferrer)
          /\ \A i, j \in DOMAIN old : i < j => ~Before(old[j], old[i])
          /\ m \in DOMAIN old /\ ~(m <= Retain)
      BY <1>2 DEF ProfilesTypeOK, Index, RankInv, Ranked, Candidates, Retained
    <2>3. m > Retain
      BY <2>2
    <2> HIDE DEF old, ref
    <2>4. PICK q \in 1..(Len(old) + 1) :
             q > Retain /\ Rerank(Append(old, ref), now)[q].digest = old[m].digest
      BY <2>1, <2>2, <2>3, MarkedStaysMarked
    <2>5. DOMAIN Append(old, ref) = 1..(Len(old) + 1) /\ q \in Nat
      BY <2>1, <2>2
    <2>6. DOMAIN mem'.referrers = 1..(Len(old) + 1)
      BY <2>1, <2>5, RankedType
    <2>7. ~(mem'.referrers[q].status = "ACTIVE")
      <3>1. mem'.referrers[q].status = "ACTIVE" <=> q <= Retain
        BY <2>1, <2>5, RankedMark
      <3>2. QED
        BY <2>4, <2>5, <3>1
    <2>8. q \in Candidates(mem')
      BY <2>6, <2>7 DEF Candidates, Retained
    <2>9. mem'.referrers[q].digest = mem.referrers[m].digest
      BY <2>1, <2>4 DEF old
    <2>10. QED
      BY <2>8, <2>9 DEF CandidateDigests
  <1>3. CASE \E c \in Checks : RecordToolProfileReferrer(c)
    BY <1>2, <1>3 DEF CandidateDigests
  <1>4. QED
    BY <1>1, <1>3, IndexStep

LEMMA FaultsCount ==
    ASSUME [ProfilesNext]_profileVars
    PROVE  failures' \in {failures, failures + 1} /\ crashes' \in {crashes, crashes + 1}
  <1>1. CASE RegisterTool
    BY <1>1 DEF RegisterTool, Saved, NotSaved, Fail
  <1>2. ASSUME NEW c \in Checks, SubmitToolCheckRecord(c)
        PROVE  failures' \in {failures, failures + 1} /\ crashes' = crashes
    BY <1>2 DEF SubmitToolCheckRecord, Saved, NotSaved, Fail
  <1>3. ASSUME NEW c \in Checks, pushProfileReferrer(c)
        PROVE  failures' = failures /\ crashes' = crashes
    BY <1>3 DEF pushProfileReferrer
  <1>4. ASSUME NEW c \in Checks, PushToolProfileReferrer(c)
        PROVE  failures' \in {failures, failures + 1} /\ crashes' = crashes
    BY <1>4 DEF PushToolProfileReferrer, Fail
  <1>5. ASSUME NEW c \in Checks, RecordToolProfileReferrer(c)
        PROVE  failures' \in {failures, failures + 1} /\ crashes' = crashes
    BY <1>5 DEF RecordToolProfileReferrer, Saved, NotSaved, Fail
  <1>6. CASE ListToolProfileGCCandidates \/ Tick \/ UNCHANGED profileVars
    BY <1>6 DEF ListToolProfileGCCandidates, Tick, profileVars
  <1>7. ASSUME NEW d \in cleanup, DeleteReferrer(d)
        PROVE  failures' = failures /\ crashes' = crashes
    BY <1>7 DEF DeleteReferrer
  <1>8. CASE CrashRestart
    BY <1>8 DEF CrashRestart
  <1>9. QED
    BY <1>1, <1>2, <1>3, <1>4, <1>5, <1>6, <1>7, <1>8 DEF ProfilesNext

LEMMA CleanupStep ==
    ASSUME ProfilesTypeOK, Retain \in Nat \ {0}, RankInv, CleanupInv, [ProfilesNext]_profileVars
    PROVE  CleanupInv'
  <1>1. SUFFICES ASSUME failures' = 0, crashes' = 0
                 PROVE  /\ cleanup' \subseteq CandidateDigests'
                        /\ \A p \in pushed' : p[2] \in registry' \cup CandidateDigests'
    BY DEF CleanupInv
  <1>2. failures \in Nat /\ crashes \in Nat
    BY DEF ProfilesTypeOK
  <1>3. failures = 0 /\ crashes = 0
    BY <1>1, <1>2, FaultsCount
  <1>4. /\ cleanup \subseteq CandidateDigests
        /\ \A p \in pushed : p[2] \in registry \cup CandidateDigests
    BY <1>3 DEF CleanupInv
  <1>5. CandidateDigests \subseteq CandidateDigests'
    BY <1>1, CandidatesStay
  <1>6. ASSUME NEW c \in Checks, PushToolProfileReferrer(c)
        PROVE  /\ cleanup' = cleanup
               /\ \A p \in pushed' : p[2] \in registry' \cup CandidateDigests
    <2>1. \/ Pushed(c)
          \/ UNCHANGED registryVars
      BY <1>6 DEF PushToolProfileReferrer
    <2>2. QED
      BY <1>4, <1>6, <2>1 DEF PushToolProfileReferrer, Pushed, registryVars
  <1>7. ASSUME ListToolProfileGCCandidates
        PROVE  /\ cleanup' \subseteq CandidateDigests
               /\ pushed' = pushed /\ registry' = registry
    <2>1. gcCandidates(mem.referrers) \subseteq Candidates(mem)
      BY DEF gcCandidates, Candidates, Retained
    <2>2. QED
      BY <1>7, <2>1 DEF ListToolProfileGCCandidates, CandidateDigests, registryVars
  <1>8. ASSUME NEW d \in cleanup, DeleteReferrer(d)
        PROVE  /\ cleanup' \subseteq cleanup
               /\ \A p \in pushed' : p[2] \in registry' \cup CandidateDigests
    BY <1>4, <1>8 DEF DeleteReferrer
  <1>9. CASE cleanup' = cleanup /\ pushed' = pushed /\ registry' = registry
    BY <1>4, <1>5, <1>9
  <1>10. QED
    <2>1. \/ \E c \in Checks : PushToolProfileReferrer(c)
          \/ ListToolProfileGCCandidates
          \/ \E d \in cleanup : DeleteReferrer(d)
          \/ cleanup' = cleanup /\ pushed' = pushed /\ registry' = registry
      BY DEF ProfilesNext, profileVars, registryVars, RegisterTool, SubmitToolCheckRecord,
             pushProfileReferrer, RecordToolProfileReferrer, Tick, CrashRestart
    <2>2. QED
      BY <1>4, <1>5, <1>6, <1>7, <1>8, <1>9, <2>1

LEMMA SparedByCleanup ==
    ASSUME RecordedWasPushed, CleanupInv
    PROVE  CleanupSparesRetained
  <1>1. SUFFICES ASSUME failures = 0, crashes = 0, NEW i \in Retained(mem)
                 PROVE  \/ mem.referrers[i].digest \in registry
                        \/ \E j \in Candidates(mem) : mem.referrers[j].digest = mem.referrers[i].digest
    BY DEF CleanupSparesRetained
  <1>2. <<mem.referrers[i].check, mem.referrers[i].digest>> \in pushed
    BY DEF RecordedWasPushed, Retained
  <1>3. mem.referrers[i].digest \in registry \cup CandidateDigests
    BY <1>1, <1>2 DEF CleanupInv
  <1>4. QED
    BY <1>3 DEF CandidateDigests

-----------------------------------------------------------------------------
(* Theorems *)

LEMMA InvariantInit ==
    ASSUME ProfilesInit
    PROVE  ProfilesInv
  <1>1. ProfilesTypeOK
    BY TypeInit
  <1>2. mem.referrers = <<>> /\ disk.referrers = <<>> /\ pushed = {} /\ cleanup = {}
    BY DEF ProfilesInit, EmptyIndex
  <1>3. RankInv
    BY <1>2 DEF RankInv, Ranked
  <1>4. RecordedWasPushed
    BY <1>2 DEF RecordedWasPushed
  <1>5. HandlerInv
    BY DEF ProfilesInit, HandlerInv, Idle
  <1>6. CleanupInv
    BY <1>2 DEF CleanupInv
  <1>7. QED
    BY <1>1, <1>3, <1>4, <1>5, <1>6 DEF ProfilesInv

(* The inductive invariant holds throughout. *)
LEMMA InvariantHolds == ProfilesSpec => []ProfilesInv
  <1>1. ProfilesInit => ProfilesInv
    BY InvariantInit
  <1>2. ProfilesInv /\ [ProfilesNext]_profileVars => ProfilesInv'
    BY ChecksAssumption, RetainAssumption, TypeStep, RankStep, BackedStep, HandlerStep, CleanupStep DEF ProfilesInv
  <1>3. QED
    BY <1>1, <1>2, PTL DEF ProfilesSpec

(* Type correctness of the index, its file, the registry, the handlers and  *)
(* the cleanup.                                                             *)
THEOREM ProfilesTyped == ProfilesSpec => []ProfilesTypeOK
  <1>1. ProfilesInv => ProfilesTypeOK
    BY DEF ProfilesInv
  <1>2. QED
    BY <1>1, InvariantHolds, PTL

(* rankToolProfileReferrers: whatever the order of the submissions, and     *)
(* after any failed save or crash, the referrers kept are the Retain latest *)
(* validations and ObservedProfileDigest is one of the latest.              *)
THEOREM LatestRetained == ProfilesSpec => []RetainedAreLatest
  <1>1. ProfilesInv => RetainedAreLatest
    BY RetainAssumption, RankedGivesLatest DEF ProfilesInv
  <1>2. QED
    BY <1>1, InvariantHolds, PTL

(* RecordToolProfileReferrer: a referrer in the index or its file was       *)
(* pushed, once, for a check stored beside it.                              *)
THEOREM RecordsPushed == ProfilesSpec => []RecordedWasPushed
  <1>1. ProfilesInv => RecordedWasPushed
    BY DEF ProfilesInv
  <1>2. QED
    BY <1>1, InvariantHolds, PTL

(* handleListToolProfileGCCandidates: without failures and crashes, a       *)
(* cleanup that reads the marks and deletes later removes nothing kept.     *)
THEOREM CleanupSafe == ProfilesSpec => []CleanupSparesRetained
  <1>1. ProfilesInv => CleanupSparesRetained
    BY SparedByCleanup DEF ProfilesInv
  <1>2. QED
    BY <1>1, InvariantHolds, PTL

=============================================================================
