-------------------------- MODULE ReferrerWitness --------------------------
(***************************************************************************)
(* One call of HarborChecker.SpecReferrerWitness (pkg/registry, checker.go) *)
(* and the anonymous token flow it uses (resolve.go): does the subject     *)
(* image carry the ToolSpec referrer of THIS index entry?  The answer is   *)
(* pieced together from many requests (listing pages, referrer manifests,  *)
(* payload blobs), each a step of its own, while Harbor's content changes, *)
(* requests fail, the registry may stop answering, and two budgets and one *)
(* timeout bound the walk.                                                 *)
(***************************************************************************)
EXTENDS Naturals, Sequences, FiniteSets

CONSTANTS
    N,             \* artifacts 1..N, in the order in which Harbor lists them
    Layouts,       \* what the artifacts may look like
    LinkHeaders,   \* the Link headers the registry may send
    PageSize,      \* bound: descriptors on one page
    MaxPages,      \* maxReferrerPages
    MaxInspections,\* maxReferrerInspections
    MaxChanges     \* bound: changes of Harbor's content during the call

ASSUME BudgetAssumption ==
    /\ {N, PageSize, MaxPages, MaxInspections} \subseteq Nat \ {0}
    /\ MaxChanges \in Nat

Artifacts == 1..N
None == 0         \* no expected digest on the entry
Unusable == N + 1 \* an expected digest that cannot identify a manifest

VARIABLES
    shape,      \* what each artifact looks like
    listed,     \* artifacts in Harbor's referrers listing of the subject
    manifests,  \* artifacts whose manifest Harbor has
    blobs,      \* artifacts whose payload (config blob) Harbor has
    guarded,    \* the registry demands a token
    changes,
    expected,   \* Entry.SpecReferrerDigest
    pc,         \* the request under way: page, manifest, payload; or done
    cursor,     \* the listing is read up to this artifact
    page,       \* pages read so far
    next,       \* the continuation of the page just read
    candidates, \* artifacts of this page that still need a fetch
    budget,     \* inspections left
    deferred,   \* something could not be read
    auth,       \* of the request under way: none, challenged, token
    expired,    \* witnessTimeout has passed
    verdict,    \* none, witness, absent, error
    steady,     \* history: artifacts listed and complete since the call began
    complete    \* history: artifacts that were complete at some time of it

harborVars == <<shape, listed, manifests, blobs, guarded, changes, expected,
                steady, complete>>
walkVars == <<pc, cursor, page, next, candidates, budget, deferred, auth, verdict>>
vars == <<harborVars, walkVars, expired>>

-----------------------------------------------------------------------------
(* Descriptors, manifests and payloads *)

Kinds == {"toolspec", "foreign"}

Shape ==
    [usable: BOOLEAN,              \* its digest can identify a manifest
     label: Kinds \cup {"generic"},   \* artifactType in the listing
     type: Kinds \cup {"unstated"},  \* what its manifest declares
     config: BOOLEAN,              \* the manifest's config digest is usable
     cas: {"mine", "other", "none"}] \* the casHash its payload names

ASSUME LayoutsAssumption == Layouts \subseteq [Artifacts -> Shape]

usableDigest(d) == IF d \in Artifacts THEN shape[d].usable ELSE d # Unusable

(* The descriptors that need a fetch: with an expected digest only that     *)
(* one, without one every ToolSpec and every untyped descriptor.            *)
NeedsFetch(a) ==
    /\ expected # None => a = expected
    /\ shape[a].label # "foreign"
    /\ usableDigest(a)

(* Descriptors whose kind or digest can never be established. *)
Illegible(a) ==
    /\ expected # None => a = expected
    /\ ~usableDigest(a)
    /\ expected = None => shape[a].label # "foreign"

(* triage: matched is always false, so only candidates and doubt remain. *)
triage(descriptors) ==
    [candidates |-> {a \in descriptors : NeedsFetch(a)},
     doubt |-> \E a \in descriptors : Illegible(a)]

-----------------------------------------------------------------------------
(* The Link header.  A field is split into entries; a field that ends       *)
(* inside a quote or a target is not complete and may hide an entry.        *)

LinkEntry ==
    [target: {"same", "foreign", "malformed"}, rels: Seq(SUBSET {"next", "prev"})]
LinkField == [complete: BOOLEAN, entries: Seq(LinkEntry)]

ASSUME LinkAssumption ==
    \A links \in LinkHeaders : links \in Seq(LinkField)

(* Only the first rel parameter of an entry counts. *)
hasNextRelation(entry) == entry.rels # <<>> /\ "next" \in Head(entry.rels)

sameOrigin(entry) == entry.target = "same"

(* The places of the entries that name the next page. *)
Advertised(links) ==
    UNION {{<<i, j>> : j \in {k \in DOMAIN links[i].entries : hasNextRelation(links[i].entries[k])}} :
             i \in DOMAIN links}

(* The first of them, field by field, decides. *)
nextPageURL(links) ==
    LET places == Advertised(links)
        first == CHOOSE p \in places : \A q \in places : p[1] < q[1] \/ (p[1] = q[1] /\ p[2] <= q[2])
    IN  IF places # {}
        THEN IF sameOrigin(links[first[1]].entries[first[2]]) THEN "page" ELSE "error"
        ELSE IF \E i \in DOMAIN links : ~links[i].complete THEN "error" ELSE "none"

(* A registry with more to list says so, in some form. *)
MayFollow(links, more) ==
    more => Advertised(links) # {} \/ \E i \in DOMAIN links : ~links[i].complete

-----------------------------------------------------------------------------
(* The walk: what follows once a request has been decided *)

Finish(v) ==
    /\ pc' = "done"
    /\ verdict' = v
    /\ candidates' = {}
    /\ UNCHANGED page

(* The end of a page: follow the continuation, or give the final answer,    *)
(* which is an absence only if nothing was left unread.                     *)
EndOfPage(continuation, doubt) ==
    CASE continuation = "error" -> Finish("error")
      [] continuation = "none"  -> Finish(IF doubt THEN "error" ELSE "absent")
      [] continuation = "page" /\ page + 1 = MaxPages -> Finish("error")
      [] continuation = "page" /\ page + 1 # MaxPages ->
           /\ pc' = "page"
           /\ page' = page + 1
           /\ candidates' = {}
           /\ UNCHANGED verdict

DropsTheRest(rest, continuation, doubt) ==
    IF rest = {} \/ budget = 0
    THEN /\ EndOfPage(continuation, doubt)
         /\ deferred' = doubt
         /\ UNCHANGED budget
    ELSE /\ pc' = "manifest"
         /\ candidates' = rest
         /\ budget' = budget - 1
         /\ deferred' = doubt
         /\ UNCHANGED <<page, verdict>>

(* The next candidate of the page, as long as the budget lasts. *)
resolveCandidates(rest, continuation, doubt) ==
    IF rest = {} \/ budget = 0
    THEN /\ EndOfPage(continuation, doubt \/ rest # {})
         /\ deferred' = (doubt \/ rest # {})
         /\ UNCHANGED budget
    ELSE /\ pc' = "manifest"
         /\ candidates' = rest
         /\ budget' = budget - 1
         /\ deferred' = doubt
         /\ UNCHANGED <<page, verdict>>

(* Candidates are inspected in the order of the listing. *)
Inspected == CHOOSE a \in candidates : \A b \in candidates : a <= b

(* The candidate under inspection is settled; doubt is remembered. *)
Settle(doubt) ==
    /\ resolveCandidates(candidates \ {Inspected}, next, deferred \/ doubt)
    /\ UNCHANGED <<cursor, next>>

(* An indeterminate request ends the walk on a page, and is remembered      *)
(* while candidates are resolved.                                           *)
Indeterminate ==
    \/ /\ pc = "page"
       /\ Finish("error")
       /\ UNCHANGED <<cursor, next, budget, deferred>>
    \/ /\ pc # "page"
       /\ Settle(TRUE)

-----------------------------------------------------------------------------
(* Requests.  doWithAuthRetry asks again once, with an anonymous token.     *)

Pending == pc \in {"page", "manifest", "payload"}

(* The request reaches the registry and is let in. *)
Served ==
    /\ ~expired
    /\ auth = IF guarded THEN "token" ELSE "none"
    /\ auth' = "none"

(* 401 with a usable Bearer challenge. *)
parseBearerChallenge ==
    /\ Pending /\ ~expired
    /\ guarded /\ auth = "none"
    /\ auth' = "challenged"
    /\ UNCHANGED <<harborVars, expired, pc, cursor, page, next, candidates, budget,
                   deferred, verdict>>

anonymousToken ==
    /\ Pending /\ ~expired
    /\ auth = "challenged"
    /\ auth' = "token"
    /\ UNCHANGED <<harborVars, expired, pc, cursor, page, next, candidates, budget,
                   deferred, verdict>>

(* Any other status, a 401 without a usable challenge or one that survives  *)
(* the retry, a token that is not given, a body that cannot be decoded, or  *)
(* the deadline, after which every request fails.                           *)
RequestFails ==
    /\ Pending
    /\ Indeterminate
    /\ auth' = "none"
    /\ UNCHANGED <<harborVars, expired>>

(* The next page: the artifacts listed after the cursor, up to one of them; *)
(* an empty page if there are none.                                         *)
Remaining == {a \in listed : a > cursor}

ListingFound(upto, links) ==
    LET descriptors == {a \in Remaining : a <= upto}
        found == triage(descriptors)
    IN  /\ upto = cursor => Remaining = {}
        /\ Cardinality(descriptors) <= PageSize
        /\ MayFollow(links, Remaining # descriptors)
        /\ next' = nextPageURL(links)
        /\ cursor' = upto
        /\ resolveCandidates(found.candidates, nextPageURL(links), deferred \/ found.doubt)

(* A 404 is a subject without referrers, or a continuation that vanished. *)
ListingGone ==
    /\ page = 0 => Remaining = {}
    /\ Finish(IF page = 0 THEN "absent" ELSE "error")
    /\ UNCHANGED <<cursor, next, budget, deferred>>

referrerPage ==
    /\ pc = "page"
    /\ Served
    /\ \/ \E upto \in Remaining \cup {cursor}, links \in LinkHeaders : ListingFound(upto, links)
       \/ ListingGone
    /\ UNCHANGED <<harborVars, expired>>

(* The manifest of a candidate.  Gone: no witness.  It names no kind, or    *)
(* contradicts its label: doubt.  Of another kind: no witness.              *)
inspectReferrer ==
    /\ pc = "manifest"
    /\ Served
    /\ LET a == Inspected
           contradicts == shape[a].label = "toolspec" /\ shape[a].type # "toolspec"
       IN  \/ /\ a \notin manifests
              /\ Settle(FALSE)
           \/ /\ a \in manifests
              /\ shape[a].type # "toolspec"
              /\ Settle(shape[a].type = "unstated" \/ contradicts)
           \/ /\ a \in manifests
              /\ shape[a].type = "toolspec"
              /\ ~shape[a].config
              /\ Settle(TRUE)
           \/ /\ a \in manifests
              /\ shape[a].type = "toolspec"
              /\ shape[a].config
              /\ pc' = "payload"
              /\ UNCHANGED <<cursor, page, next, candidates, budget, deferred, verdict>>
    /\ UNCHANGED <<harborVars, expired>>

AnyPayloadMatches(a) == TRUE

(* With an expected digest the payload only has to be there; without one it *)
(* has to name this entry.                                                  *)
Matches(a) == expected # None \/ shape[a].cas = "mine"

(* payloadExists and referrerCasHash *)
readPayload ==
    /\ pc = "payload"
    /\ Served
    /\ LET a == Inspected
           nameless == expected = None /\ shape[a].cas = "none"
       IN  \/ /\ a \in blobs
              /\ Matches(a)
              /\ Finish("witness")
              /\ UNCHANGED <<cursor, next, budget, deferred>>
           \/ /\ a \notin blobs \/ ~Matches(a)
              /\ Settle(a \in blobs /\ nameless)
    /\ UNCHANGED <<harborVars, expired>>

NeverExpires ==
    /\ FALSE
    /\ UNCHANGED vars

(* witnessTimeout *)
Expire ==
    /\ Pending
    /\ ~expired
    /\ expired' = TRUE
    /\ UNCHANGED <<harborVars, walkVars>>

-----------------------------------------------------------------------------
(* Harbor, during the call *)

Holds(l, m, b) ==
    /\ listed' = l /\ manifests' = m /\ blobs' = b
    /\ steady' = steady \cap l \cap m \cap b
    /\ complete' = complete \cup (m \cap b)

(* The pieces of a deleted referrer disappear one by one, in any order. *)
HarborDeletes(a) ==
    /\ changes < MaxChanges
    /\ changes' = changes + 1
    /\ \/ a \in listed /\ Holds(listed \ {a}, manifests, blobs)
       \/ a \in manifests /\ Holds(listed, manifests \ {a}, blobs)
       \/ a \in blobs /\ Holds(listed, manifests, blobs \ {a})
    /\ UNCHANGED <<shape, guarded, expected, walkVars, expired>>

(* A push of a referrer makes it visible once it is complete. *)
HarborReceives(a) ==
    /\ changes < MaxChanges
    /\ changes' = changes + 1
    /\ a \notin listed
    /\ Holds(listed \cup {a}, manifests \cup {a}, blobs \cup {a})
    /\ UNCHANGED <<shape, guarded, expected, walkVars, expired>>

-----------------------------------------------------------------------------
(* Specification *)

(* What becomes of the entry's image reference: nothing is attached to a    *)
(* subject that has none.                                                   *)
parseRef == {"valid", "malformed"} \cup (IF listed = {} THEN {"none"} ELSE {})

(* An entry without an image reference has no referrers; a malformed        *)
(* reference, or an unusable expected digest, is refused before any request. *)
Refused(reference) ==
    CASE reference = "none"      -> "absent"
      [] reference = "malformed" -> "error"
      [] OTHER -> IF usableDigest(expected) THEN "none" ELSE "error"

Init ==
    /\ shape \in Layouts
    /\ listed \in SUBSET Artifacts
    /\ manifests = listed /\ blobs = listed
    /\ guarded \in BOOLEAN
    /\ changes = 0
    /\ expected \in {None, Unusable} \cup Artifacts
    /\ \E reference \in parseRef : verdict = Refused(reference)
    /\ pc = IF verdict = "none" THEN "page" ELSE "done"
    /\ cursor = 0 /\ page = 0 /\ next = "none"
    /\ candidates = {}
    /\ budget = MaxInspections
    /\ deferred = FALSE
    /\ auth = "none"
    /\ expired = FALSE
    /\ steady = listed /\ complete = listed

Walk ==
    \/ parseBearerChallenge \/ anonymousToken
    \/ referrerPage \/ inspectReferrer \/ readPayload
    \/ RequestFails

Harbor == \E a \in Artifacts : HarborDeletes(a) \/ HarborReceives(a)

Next == Walk \/ Expire \/ Harbor

(* The timer fires, and a goroutine whose context is done gets on with it;  *)
(* no answer of Harbor is taken for granted.                                *)
Spec ==
    /\ Init /\ [][Next]_vars
    /\ WF_vars(Expire)
    /\ WF_vars(expired /\ RequestFails)

-----------------------------------------------------------------------------
(* Properties *)

TypeOK ==
    /\ shape \in [Artifacts -> Shape]
    /\ {listed, manifests, blobs, steady, complete, candidates} \subseteq SUBSET Artifacts
    /\ {guarded, deferred, expired} \subseteq BOOLEAN
    /\ changes \in 0..MaxChanges
    /\ expected \in {None, Unusable} \cup Artifacts
    /\ pc \in {"page", "manifest", "payload", "done"}
    /\ cursor \in 0..N
    /\ page \in 0..(MaxPages - 1)
    /\ next \in {"none", "page", "error"}
    /\ budget \in 0..MaxInspections
    /\ auth \in {"none", "challenged", "token"}
    /\ verdict \in {"none", "witness", "absent", "error"}

(* An artifact that is the referrer of this entry. *)
Own(a) ==
    /\ shape[a].usable /\ shape[a].config
    /\ shape[a].label # "foreign" /\ shape[a].type = "toolspec"
    /\ IF expected = None THEN shape[a].cas = "mine" ELSE a = expected

(* A positive answer has a witness: a ToolSpec referrer of this very entry, *)
(* not of another one on the same image, was complete in Harbor at some     *)
(* moment of the call.                                                      *)
WitnessIsGenuine ==
    verdict = "witness" => \E a \in complete : Own(a)

(* An artifact about which the registry says too little or contradicts      *)
(* itself, and which might be the referrer of this entry.                   *)
Opaque(a) ==
    /\ expected # None => a = expected
    /\ shape[a].label # "foreign"
    /\ \/ ~shape[a].usable
       \/ shape[a].type = "unstated"
       \/ shape[a].label = "toolspec" /\ shape[a].type = "foreign"
       \/ shape[a].type = "toolspec" /\ ~shape[a].config
       \/ shape[a].type = "toolspec" /\ expected = None /\ shape[a].cas = "none"

(* A negative answer is a confirmed absence: whatever pages, budgets,       *)
(* failures and changes the walk met, no artifact that was there all along  *)
(* is this entry's referrer or might be it.                                 *)
AbsenceIsConfirmed ==
    verdict = "absent" => \A a \in steady : ~Own(a) /\ ~Opaque(a)

(* The call ends even if Harbor stops answering, so that a reconcile pass   *)
(* gets to the entries behind this one.                                     *)
WitnessEnds == <>(verdict # "none")

-----------------------------------------------------------------------------
(* The inductive invariant behind the first two *)

(* Pieces of a referrer are only ever left of one that was complete. *)
HarborInv ==
    /\ steady \subseteq listed \cap manifests \cap blobs
    /\ manifests \subseteq complete
    /\ blobs \subseteq complete

(* Where the walk is. *)
WalkInv ==
    /\ pc = "done" <=> verdict # "none"
    /\ pc \in {"manifest", "payload"} <=> candidates # {}
    /\ \A a \in candidates : NeedsFetch(a)
    /\ pc = "payload" => shape[Inspected].type = "toolspec" /\ shape[Inspected].config
    /\ pc = "page" /\ page = 0 => cursor = 0

(* An artifact that was there all along, and that an absence would be wrong *)
(* about, lies ahead, is still to be inspected, or has left a doubt; none   *)
(* lies ahead of the last page.                                             *)
CoverInv ==
    /\ pc # "done" => \A a \in steady :
         Own(a) \/ Opaque(a) => deferred \/ a > cursor \/ a \in candidates
    /\ pc \in {"manifest", "payload"} /\ next = "none" => \A a \in steady : a <= cursor

IInv == TypeOK /\ HarborInv /\ WalkInv /\ CoverInv /\ WitnessIsGenuine /\ AbsenceIsConfirmed
=============================================================================
