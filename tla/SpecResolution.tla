--------------------------- MODULE SpecResolution ---------------------------
(***************************************************************************)
(* Resolution of tool specs (pkg/build, resolve_tool_spec.go; pkg/resolve) *)
(* and the use RegisterToolFunction makes of a resolved spec as the base   *)
(* of a function (pkg/catalog, toolfunction.go).  A call of ResolveToolSpec*)
(* may ask a registry for the digest of a tag that moves, and stores what  *)
(* it resolved in an index whose file another process writes too.  A       *)
(* registration looks its base up, and commits under a later acquisition   *)
(* of the index lock, which may reload the index.                          *)
(*                                                                         *)
(* A digest is its preimage.  The registry is external.  HTTP clients and  *)
(* credentials (clientForHost, the token flow) are in ReferrerWitness.     *)
(***************************************************************************)
EXTENDS Integers, Sequences, SequencesExt, FiniteSets

CONSTANTS
    Calls,           \* ResolveToolSpec calls
    Requests,        \* tool_name and raw_spec
    Functions,       \* RegisterToolFunction requests
    ResolveUnpinned, \* NODEVAULT_RESOLVE_UNPINNED_BASE_IMAGE
    Digests,         \* base image digests that documents name
    Manifests,       \* manifest digests a tag has pointed at
    Foreign,         \* a spec resolved by a newer binary
    Float64(_),      \* the double a JSON number is decoded to; None: out of range
    None,
    MaxMoves,        \* bound: moves of the tag
    MaxFailures,     \* bound: saves that fail before the rename
    MaxRestarts      \* bound: crashes

ASSUME ResolutionBounds == {MaxMoves, MaxFailures, MaxRestarts} \subseteq Nat

VARIABLES
    tag,       \* the manifest the base image's tag points at
    moves,
    call,      \* per call: the handler that runs it
    cache,     \* resolved specs in memory
    disk,      \* resolved specs in the index file
    functions, \* functions in the index file, with the digest of their base
    moved,     \* the file was written by another process since it was read
    claimed,   \* this process holds the write epoch
    checked,   \* functions whose base was looked up and found
    failures, restarts

registryVars == <<tag, moves>>
specIndexVars == <<cache, disk, functions, moved, claimed, failures>>
resolutionVars == <<registryVars, call, specIndexVars, checked, restarts>>

-----------------------------------------------------------------------------
(* raw_spec documents *)

SchemaLegacyV0 == "nodevault.toolspec.raw_spec.v0"
SchemaBuildV1 == "nodevault.build.raw_spec.v1"
DerivationV1 == "nodevault.resolve.v1"
Blank == {"", " "}

(* A JSON number: sign, digits before and after the point, exponent.        *)
Number == [negative: BOOLEAN, int: Seq(0..9), frac: Seq(0..9), exp: Int]

(* A document: an object, an object with more bytes after it, or no JSON    *)
(* object; then nothing is read of its fields.  The layout is what decoding *)
(* drops of a text: white space, the order and repetition of fields,        *)
(* escapes.  In a legacy document kind is any number.                       *)
RawSpec ==
    [json: {"object", "trailing", "broken"}, schema: STRING, kind: Number,
     base: [digest: Digests, padded: BOOLEAN, wellformed: BOOLEAN],
     script: STRING, unknownField: BOOLEAN,
     image_uri: [ref: STRING, digest: Digests \cup {None}], layout: Nat]

(* Name and version of a tool are one name, perhaps with white space around *)
(* it.                                                                      *)
RequestsAreDocuments ==
    /\ Requests \subseteq [tool: [name: STRING, padded: BOOLEAN], raw: RawSpec]
    /\ \A req \in Requests : req.raw.json = "broken" => req.raw.schema = "none"

ASSUME RequestsAssumption == RequestsAreDocuments

Significant(digits) ==
    LET nonzero == {i \in DOMAIN digits : digits[i] # 0}
    IN  SubSeq(digits, CHOOSE i \in nonzero : \A j \in nonzero : i <= j, Len(digits))

jsonNumberEqualsTwo(n) ==
    LET digits == n.int \o n.frac
        stripped == Significant(digits)
    IN  /\ ~n.negative
        /\ \E i \in DOMAIN digits : digits[i] # 0
        /\ stripped[1] = 2
        /\ \A i \in 2..Len(stripped) : stripped[i] = 0
        /\ (Len(stripped) - 1) + n.exp - Len(n.frac) = 0

BySchemaValue(raw) == raw.json # "broken" /\ raw.schema = SchemaBuildV1

(* A document that carries schema_version at all is v1 or nothing.          *)
IsV1RawSpec(raw) == raw.json # "broken" /\ raw.schema # "none"

IsSHA256Digest(base) == base.wellformed

ParseRawSpecV1(raw) ==
    /\ raw.json = "object"
    /\ ~raw.unknownField
    /\ raw.schema = SchemaBuildV1
    /\ jsonNumberEqualsTwo(raw.kind)
    /\ IsSHA256Digest(raw.base) /\ ~raw.base.padded
    /\ raw.script \notin Blank

(* Kind and base digest are normalized, layout is gone.                     *)
canonicalV1(raw) == [schema |-> raw.schema, kind |-> 2, base |-> raw.base.digest, script |-> raw.script]

(* json.Unmarshal into any accepts the document.                            *)
Decodes(raw) == raw.json = "object" /\ Float64(raw.kind) # None

(* What is decoded loses its layout, and its numbers become doubles; any    *)
(* other text is kept as it is.                                             *)
canonicalSpec(raw) ==
    IF Decodes(raw)
    THEN [raw EXCEPT !.json = "decoded", !.layout = 0, !.kind = Float64(@)]
    ELSE raw

RecipeInputsDigest(raw) == IF IsV1RawSpec(raw) THEN canonicalV1(raw) ELSE canonicalSpec(raw)

NoPin == [ref |-> "", digest |-> None]
BaseImagePin(raw) == IF Decodes(raw) THEN raw.image_uri ELSE NoPin

BuildPlanDigest(recipe, base) == [recipe |-> recipe, base |-> base]

ToolSpecDigest(req, recipe, base) ==
    [tool |-> req.tool.name, recipe |-> recipe, plan |-> BuildPlanDigest(recipe, base), base |-> base]

(* The base digest of a request, where found is what the registry answered  *)
(* for an unpinned one; None when the request is refused.                   *)
BaseDigest(req, found) ==
    IF IsV1RawSpec(req.raw)
    THEN IF ParseRawSpecV1(req.raw) THEN req.raw.base.digest ELSE None
    ELSE IF found # None THEN found ELSE BaseImagePin(req.raw).digest

ResolveRawSpec(req, base) ==
    [digest |-> ToolSpecDigest(req, RecipeInputsDigest(req.raw), base),
     req |-> req, base |-> base,
     schema |-> IF IsV1RawSpec(req.raw) THEN SchemaBuildV1 ELSE SchemaLegacyV0,
     derivation |-> DerivationV1]

(* The stored provenance can be interpreted.  Two empty fields are a record *)
(* from before provenance was recorded.                                     *)
EffectiveProvenance(spec) ==
    \/ spec.schema = "" /\ spec.derivation = ""
    \/ spec.schema \in {SchemaLegacyV0, SchemaBuildV1} /\ spec.derivation = DerivationV1

(* What makes the other binary newer.                                       *)
ForeignIsNewer == ~EffectiveProvenance(Foreign)

ASSUME ForeignAssumption == ForeignIsNewer

-----------------------------------------------------------------------------
(* The registry, asked for the digest of the tag *)

MediaTypes == 3

(* What one GET may bring back: an error, or the manifest the tag points at *)
(* with its digest in a header, with a malformed one, or without a header.  *)
Responses ==
    {[status |-> "failed", header |-> m, body |-> None] : m \in Manifests}
    \cup {[status |-> "ok", header |-> h, body |-> [config |-> tag]] : h \in {tag, None, "malformed"}}
    \cup {[status |-> "ok", header |-> None, body |-> None]}

validateDigestFormat(d) == d # "malformed"

StatusNotChecked(response) == IF response.header = "malformed" THEN None ELSE response.header

fetchManifestDigest(response) ==
    IF response.status # "ok" THEN None
    ELSE IF response.header # None
    THEN IF validateDigestFormat(response.header) THEN response.header ELSE None
    ELSE response.body

-----------------------------------------------------------------------------
(* The index.  A save writes all of it. *)

Stored(digest) == {s \in cache : s.digest = digest}

Fails == failures < MaxFailures /\ failures' = failures + 1 /\ UNCHANGED <<disk, functions>>

Saves(specs, fns) == disk' = specs /\ functions' = fns /\ UNCHANGED failures

(* Store.save is refused when another process wrote the file: the index is  *)
(* reloaded and the change dropped.                                         *)
Reloads == cache' = disk /\ moved' = FALSE /\ UNCHANGED <<disk, functions, failures>>

-----------------------------------------------------------------------------
(* ResolveToolSpec *)

(* left: media types still to ask for.  seen is a history variable: the     *)
(* manifests the tag pointed at while the registry was asked.               *)
Idle == [pc |-> "idle", req |-> None, left |-> 0, found |-> None, seen |-> {}, result |-> None]
Proceed(c, h) == call' = [call EXCEPT ![c] = h]

NeedsLookup(req) ==
    /\ ResolveUnpinned
    /\ BaseImagePin(req.raw).ref # ""
    /\ BaseImagePin(req.raw).digest = None

ResolveToolSpec(c, req) ==
    /\ call[c].pc = "idle"
    /\ Proceed(c, IF NeedsLookup(req)
             THEN [Idle EXCEPT !.pc = "lookup", !.req = req, !.left = MediaTypes, !.seen = {tag}]
             ELSE [Idle EXCEPT !.pc = "upsert", !.req = req])
    /\ UNCHANGED <<registryVars, specIndexVars, checked, restarts>>

(* The media types are asked for one after the other.                       *)
ResolveTagDigest(c) ==
    LET h == call[c]
    IN  /\ h.pc = "lookup"
        /\ \E response \in Responses :
             LET d == fetchManifestDigest(response)
             IN  IF d # None THEN Proceed(c, [h EXCEPT !.pc = "upsert", !.left = 0, !.found = d])
                 ELSE IF h.left > 1 THEN Proceed(c, [h EXCEPT !.left = @ - 1])
                 ELSE Proceed(c, Idle)
        /\ UNCHANGED <<registryVars, specIndexVars, checked, restarts>>

RefuseSpec(c) ==
    /\ call[c].pc = "upsert"
    /\ BaseDigest(call[c].req, call[c].found) = None
    /\ Proceed(c, Idle)
    /\ UNCHANGED <<registryVars, specIndexVars, checked, restarts>>

AnswerCall(c, spec) ==
    Proceed(c, IF EffectiveProvenance(spec) THEN [call[c] EXCEPT !.pc = "answered", !.result = spec]
          ELSE Idle)

(* A spec that is known already is answered from memory.  A failed save     *)
(* leaves the new one there.                                                *)
UpsertResolvedToolSpec(c, spec) ==
    \/ /\ Stored(spec.digest) # {}
       /\ \E known \in Stored(spec.digest) : AnswerCall(c, known)
       /\ UNCHANGED specIndexVars
    \/ /\ Stored(spec.digest) = {}
       /\ ~moved
       /\ cache' = cache \cup {spec}
       /\ (Saves(cache', functions) /\ AnswerCall(c, spec)) \/ (Fails /\ Proceed(c, Idle))
       /\ UNCHANGED <<moved, claimed>>
    \/ /\ Stored(spec.digest) = {}
       /\ moved
       /\ Reloads
       /\ Proceed(c, Idle)
       /\ UNCHANGED claimed

StoreSpec(c) ==
    LET base == BaseDigest(call[c].req, call[c].found)
    IN  /\ call[c].pc = "upsert"
        /\ base # None
        /\ UpsertResolvedToolSpec(c, ResolveRawSpec(call[c].req, base))
        /\ UNCHANGED <<registryVars, checked, restarts>>

-----------------------------------------------------------------------------
(* RegisterToolFunction *)

(* A client may name any digest, also of a spec that was never resolved.    *)
Bases ==
    {Foreign} \cup {ResolveRawSpec(req, BaseDigest(req, None)) :
                     req \in {r \in Requests : BaseDigest(r, None) # None}}

Registered(f) == \E r \in functions : r.function = f

BaseNotLookedUp(f, spec) ==
    /\ ~Registered(f)
    /\ checked' = [checked EXCEPT ![f] = spec]
    /\ UNCHANGED <<registryVars, call, specIndexVars, restarts>>

LookUpBase(f, spec) ==
    /\ ~Registered(f)
    /\ spec \in cache
    /\ EffectiveProvenance(spec)
    /\ checked' = [checked EXCEPT ![f] = spec]
    /\ UNCHANGED <<registryVars, call, specIndexVars, restarts>>

(* The first registration of a process claims the write epoch and reloads   *)
(* the index; later ones reload it when another process wrote it.  A failed *)
(* save takes the function back.                                            *)
RegisterToolFunctionAtomic(f) ==
    /\ checked[f] # None
    /\ cache' = IF claimed /\ ~moved THEN cache ELSE disk
    /\ claimed' = TRUE
    /\ moved' = FALSE
    /\ Saves(cache', functions \cup {[function |-> f, base |-> checked[f]]}) \/ Fails
    /\ checked' = [checked EXCEPT ![f] = None]
    /\ UNCHANGED <<registryVars, call, restarts>>

-----------------------------------------------------------------------------
(* Around them *)

MoveTag ==
    /\ moves < MaxMoves
    /\ \E m \in Manifests \ {tag} :
         /\ tag' = m
         /\ call' = [c \in Calls |->
                       IF call[c].pc = "lookup" THEN [call[c] EXCEPT !.seen = @ \cup {m}] ELSE call[c]]
    /\ moves' = moves + 1
    /\ UNCHANGED <<specIndexVars, checked, restarts>>

(* A newer binary resolves a spec; it has read the file first.              *)
OtherProcessResolves ==
    /\ \A s \in disk : s.digest # Foreign.digest
    /\ disk' = disk \cup {Foreign}
    /\ moved' = TRUE
    /\ UNCHANGED <<registryVars, call, cache, functions, claimed, failures, checked, restarts>>

Restart ==
    /\ restarts < MaxRestarts
    /\ restarts' = restarts + 1
    /\ cache' = disk
    /\ moved' = FALSE
    /\ claimed' = FALSE
    /\ call' = [c \in Calls |-> Idle]
    /\ checked' = [f \in Functions |-> None]
    /\ UNCHANGED <<registryVars, disk, functions, failures>>

-----------------------------------------------------------------------------

ResolutionInit ==
    /\ tag \in Manifests
    /\ moves = 0
    /\ call = [c \in Calls |-> Idle]
    /\ cache = {} /\ disk = {} /\ functions = {}
    /\ moved = FALSE
    /\ claimed = FALSE
    /\ checked = [f \in Functions |-> None]
    /\ failures = 0
    /\ restarts = 0

ResolutionNext ==
    \/ \E c \in Calls :
         \/ \E req \in Requests : ResolveToolSpec(c, req)
         \/ ResolveTagDigest(c) \/ RefuseSpec(c) \/ StoreSpec(c)
    \/ \E f \in Functions :
         \/ \E spec \in Bases : LookUpBase(f, spec)
         \/ RegisterToolFunctionAtomic(f)
    \/ MoveTag
    \/ OtherProcessResolves
    \/ Restart

ResolutionSpec == ResolutionInit /\ [][ResolutionNext]_resolutionVars

-----------------------------------------------------------------------------
(* Properties *)

(* What a request asks for: of a v1 document its script; of any other JSON  *)
(* its fields and the doubles its numbers denote, but neither its layout    *)
(* nor the digits of a number beyond a double; of other text all of it.     *)
SaysV1(raw) == raw.schema # "none"

Content(raw) ==
    IF SaysV1(raw) THEN [script |-> raw.script]
    ELSE IF raw.json # "object" \/ Float64(raw.kind) = None THEN [json |-> "text", text |-> raw]
    ELSE [json |-> "object", kind |-> Float64(raw.kind),
          fields |-> <<raw.base, raw.script, raw.unknownField, raw.image_uri>>]

Asked(req, base) == [tool |-> req.tool.name, base |-> base, content |-> Content(req.raw)]

(* A JSON number is 2 if the digit at its units is 2 and every other is 0.  *)
EqualsTwo(n) ==
    LET digits == n.int \o n.frac
        Place(i) == Len(n.int) - i + n.exp
    IN  /\ ~n.negative
        /\ \E i \in DOMAIN digits : Place(i) = 0
        /\ \A i \in DOMAIN digits : digits[i] = IF Place(i) = 0 THEN 2 ELSE 0

(* A call is answered with a record of what it asked for, whoever stored it *)
(* first: the record may be that of a document in another layout, or whose  *)
(* numbers are the same doubles (2, 2.0 and 2.0000000000000001), and of no  *)
(* other.  A document that names a schema version is resolved under v1,     *)
(* with a kind that is exactly 2 however it is written, or not at all.  And *)
(* a spec has one record, however it is laid out and its numbers written.   *)
AnsweredAsAsked ==
    /\ \A c \in Calls :
         LET h == call[c]
         IN  h.pc = "answered" =>
               /\ Asked(h.req, h.result.base) = Asked(h.result.req, h.result.base)
               /\ SaysV1(h.req.raw) =>
                    /\ h.result.schema = SchemaBuildV1
                    /\ h.req.raw.schema = SchemaBuildV1 /\ EqualsTwo(h.req.raw.kind)
    /\ \A s, t \in cache \ {Foreign} : Asked(s.req, s.base) = Asked(t.req, t.base) => s = t

(* The base of an unpinned spec is a manifest its tag pointed at while the  *)
(* call was resolving it, or the config of one.                             *)
PinnedWhileAsked ==
    \A c \in Calls :
        call[c].found # None =>
            call[c].found \in call[c].seen \cup {[config |-> m] : m \in call[c].seen}

(* As long as no save has failed, the base of every registered function is  *)
(* in the index file and can be interpreted.                                *)
LineageResolves ==
    failures = 0 => \A r \in functions : r.base \in disk /\ EffectiveProvenance(r.base)

-----------------------------------------------------------------------------
(* Why they hold: an inductive invariant *)

Found == {None} \cup Manifests \cup {[config |-> m] : m \in Manifests}

(* What this build resolves.                                                *)
Resolved ==
    {s \in {ResolveRawSpec(req, BaseDigest(req, found)) : req \in Requests, found \in Found} :
       s.base # None}

KnownSpecs == Resolved \cup {Foreign}

Handlers ==
    [pc: {"idle", "lookup", "upsert", "answered"}, req: Requests \cup {None}, left: 0..MediaTypes,
     found: Found, seen: SUBSET Manifests, result: KnownSpecs \cup {None}]

(* The variables hold what their comments say.                              *)
ResolutionTypeOK ==
    /\ tag \in Manifests
    /\ call \in [Calls -> Handlers]
    /\ {cache, disk} \subseteq SUBSET KnownSpecs
    /\ {moved, claimed} \subseteq BOOLEAN
    /\ checked \in [Functions -> KnownSpecs \cup {None}]
    /\ {moves, failures, restarts} \subseteq Nat

(* A digest has one record, in memory and in the file.                      *)
OneRecord(specs) == \A s, t \in specs : s.digest = t.digest => s = t
RecordInv == OneRecord(cache) /\ OneRecord(disk)

(* A call works on its request; while it asks for the tag it has seen where *)
(* the tag points; it is answered with a spec that has the digest of its    *)
(* request and that this build can interpret.                               *)
CallInv ==
    \A c \in Calls :
        LET h == call[c]
        IN  /\ h.pc # "idle" => h.req \in Requests
            /\ h.pc = "lookup" => tag \in h.seen
            /\ h.pc = "answered" =>
                 /\ h.result \in Resolved
                 /\ BaseDigest(h.req, h.found) # None
                 /\ h.result.digest = ResolveRawSpec(h.req, BaseDigest(h.req, h.found)).digest

(* Without a failed save memory holds nothing that is not in the file, and  *)
(* all of it unless the file was written by another process.                *)
FileInv ==
    failures = 0 =>
        /\ cache \subseteq disk
        /\ ~moved => cache = disk
        /\ \A f \in Functions :
             checked[f] # None => checked[f] \in disk /\ EffectiveProvenance(checked[f])

ResolutionInv == ResolutionTypeOK /\ RecordInv /\ CallInv /\ PinnedWhileAsked /\ FileInv /\ LineageResolves

-----------------------------------------------------------------------------
(* Statements of the repository that the code does not keep: each one has   *)
(* a counterexample, described in the README.                               *)

(* toolfunction.go on RegisterToolFunction: "A new immutable ToolFunction   *)
(* must not permanently record a dangling base": the base of a registered   *)
(* function is in the index file.                                           *)
NoDanglingBase == \A r \in functions : r.base \in disk

(* resolve.go on ResolveTagDigest: "resolves a "host/name:tag" image        *)
(* reference to its manifest digest".                                       *)
ResolvesToManifest == \A c \in Calls : call[c].found \in Manifests \cup {None}
=============================================================================
