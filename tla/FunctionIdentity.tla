-------------------------- MODULE FunctionIdentity --------------------------
(***************************************************************************)
(* The identity that RegisterToolFunction gives a declaration              *)
(* (pkg/catalog, toolfunction.go): the fail-closed gates, the two          *)
(* canonicalizers, the digests derived from the canonical form, and what   *)
(* the store makes of a second request with the same request_id, digest or *)
(* casHash.  Calls are sequential here; IndexStore interleaves them.       *)
(*                                                                         *)
(* Scalar fields of one message that the canonicalizer treats alike are    *)
(* represented by one of them.  JSON with sorted keys and SHA-256 are      *)
(* injective: a digest is its preimage.                                    *)
(***************************************************************************)
EXTENDS Integers, Sequences, SequencesExt, FiniteSets

CONSTANTS
    Declarations, \* RegisterToolFunction requests, without their request_id
    RequestIds,
    MaxAnswers   \* bound: requests answered with success

ASSUME BoundAssumption == MaxAnswers \in Nat

VARIABLES
    log,    \* the requests answered with success, in order
    answer  \* the last outcome

identityVars == <<log, answer>>

LegacyOrderV0 == "legacy-order-v0"
W2SetV1 == "w2-set-v1"
Versions == {LegacyOrderV0, W2SetV1, ""}

-----------------------------------------------------------------------------
(* Requests *)

(* The messages below each part of a request that a newer client may have   *)
(* given a field this build does not know.                                  *)
Subtree == [
    request |-> {"request"},
    spec |-> {"spec", "command", "timeout_policy", "port", "parameter"},
    presentation |-> {"presentation", "output_port_presentation"},
    validation_policy |-> {"validation_policy", "validation_requirements"},
    environment_hints |-> {"environment_hints", "enforced_resources"}]

(* The messages of nodevault.proto, each with one field of every kind that  *)
(* the gates and canonicalizers treat differently.                          *)
Digest == [digest: STRING, spelled: STRING]
Argument == [kind: STRING, name: STRING]
Variable == [name: STRING, source: STRING]
Timeout == [present: BOOLEAN, soft: Int]
Command ==
    [present: BOOLEAN, executable: STRING, arguments: Seq(Argument), environment: Seq(Variable),
     success_exit_codes: Seq(Int), timeout: Timeout]
Port == [name: STRING, cardinality: Int, required: BOOLEAN, companion_files: Seq(STRING)]
Parameter == [name: STRING, type: Int, default: STRING]
Intermediate == [pattern: STRING, policy: Int]
Execution ==
    [present: BOOLEAN, writable_paths: Seq(STRING), requires_root: BOOLEAN,
     required_capabilities: Seq(STRING)]
Presentation == [present: BOOLEAN, label: STRING, tags: Seq(STRING), ports: Seq(STRING)]
Policy == [present: BOOLEAN, expected: Seq(STRING), required: BOOLEAN, level: Int]
Hints == [present: BOOLEAN, platforms: Seq(STRING), enforced: BOOLEAN, cpu: STRING]

Request ==
    [base: Digest, image: Digest, unknown: SUBSET UNION {Subtree[part] : part \in DOMAIN Subtree},
     spec: [command: Command, inputs: Seq(Port), outputs: Seq(Port), parameters: Seq(Parameter),
            intermediate: Seq(Intermediate), execution: Execution],
     presentation: Presentation, policy: Policy, hints: Hints]

(* The getters of a message that is absent return zero values.              *)
NoCommand == [present |-> FALSE, executable |-> "", arguments |-> <<>>, environment |-> <<>>,
              success_exit_codes |-> <<>>, timeout |-> [present |-> FALSE, soft |-> 0]]
NoExecution == [present |-> FALSE, writable_paths |-> <<>>, requires_root |-> FALSE,
                required_capabilities |-> <<>>]
NoPresentation == [present |-> FALSE, label |-> "", tags |-> <<>>, ports |-> <<>>]
NoPolicy == [present |-> FALSE, expected |-> <<>>, required |-> FALSE, level |-> 0]
NoHints == [present |-> FALSE, platforms |-> <<>>, enforced |-> FALSE, cpu |-> ""]

AbsentIsZero(req) ==
    /\ req.spec.command.present \/ req.spec.command = NoCommand
    /\ req.spec.command.timeout.present \/ req.spec.command.timeout.soft = 0
    /\ req.spec.execution.present \/ req.spec.execution = NoExecution
    /\ req.presentation.present \/ req.presentation = NoPresentation
    /\ req.policy.present \/ req.policy = NoPolicy
    /\ req.policy.required \/ req.policy.level = 0
    /\ req.hints.present \/ req.hints = NoHints
    /\ req.hints.enforced \/ req.hints.cpu = ""

RequestsAreMessages == \A req \in Declarations : req \in Request /\ AbsentIsZero(req)

ASSUME RequestsAssumption == RequestsAreMessages

-----------------------------------------------------------------------------
(* Gates *)

firstUnknownField(req, part) == req.unknown \cap Subtree[part] # {}

ObservationLevels == 0..2

rejectUnknownRequestFields(req) ==
    \/ \E part \in DOMAIN Subtree : firstUnknownField(req, part)
    \/ req.policy.present /\ req.policy.level \notin ObservationLevels

Blank == {"", " "}
Names(list) == {list[i].name : i \in DOMAIN list}

checkUniqueNames(list) ==
    /\ Names(list) \cap Blank = {}
    /\ Cardinality(Names(list)) = Len(list)

CardinalityUnspecified == 0
CardinalitySingle == 1

validatePortCardinality(ports) ==
    \A i \in DOMAIN ports : ports[i].cardinality \in {CardinalityUnspecified, CardinalitySingle}

ParameterTypes == 0..4
validateParameterTypes(params) == \A i \in DOMAIN params : params[i].type \in ParameterTypes

IntermediateKinds == 0..3
validateIntermediateFilePolicyKinds(policies) ==
    \A i \in DOMAIN policies : policies[i].policy \in IntermediateKinds

UnusedParametersAccepted(spec) ==
    \A arg \in ToSet(spec.command.arguments) :
        \/ arg.kind = "literal"
        \/ arg.kind = "param" /\ arg.name \in Names(spec.parameters)

(* An argument is a literal, a whole-element reference in one of the three  *)
(* namespaces, or a malformed or embedded reference.                        *)
validateArgumentReferences(spec) ==
    LET arguments == ToSet(spec.command.arguments)
    IN  /\ \A arg \in arguments :
             \/ arg.kind = "literal"
             \/ arg.kind = "param" /\ arg.name \in Names(spec.parameters)
        /\ \A name \in Names(spec.parameters) : [kind |-> "param", name |-> name] \in arguments

(* The checks of the first releases; argument references came later.        *)
OriginalChecks(spec) ==
    /\ \A ports \in {spec.inputs, spec.outputs} :
         validatePortCardinality(ports) /\ checkUniqueNames(ports)
    /\ checkUniqueNames(spec.parameters)
    /\ validateParameterTypes(spec.parameters)
    /\ validateIntermediateFilePolicyKinds(spec.intermediate)

validateToolFunctionSpecCommon(spec) == OriginalChecks(spec) /\ validateArgumentReferences(spec)

Ports(spec) == ToSet(spec.inputs) \cup ToSet(spec.outputs)
Patterns(policies) == {policies[i].pattern : i \in DOMAIN policies}

(* Capabilities are "CAP_" strings; any other string is not canonical.      *)
Capabilities == {"CAP_A", "CAP_B"}

validateSetLikeEntries(spec) ==
    /\ Names(spec.command.environment) \cap Blank = {}
    /\ \A port \in Ports(spec) : ToSet(port.companion_files) \cap Blank = {}
    /\ Patterns(spec.intermediate) \cap Blank = {}
    /\ Cardinality(Patterns(spec.intermediate)) = Len(spec.intermediate)
    /\ ToSet(spec.execution.writable_paths) \cap Blank = {}
    /\ ToSet(spec.execution.required_capabilities) \subseteq Capabilities

validateToolFunctionPresentation(req) ==
    LET named == req.presentation.ports
    IN  /\ ToSet(named) \subseteq Names(req.spec.outputs) \ Blank
        /\ IsInjective(named)

(* An expected result need not name a port.                                 *)
validateToolFunctionValidationPolicy(req) ==
    ToSet(req.policy.expected) \ {""} \subseteq Names(req.spec.outputs)

-----------------------------------------------------------------------------
(* Canonical form: the pairs of a key and its value that are present.       *)

putStr(key, value) == IF value = "" THEN {} ELSE {<<key, value>>}
putInt(key, value) == IF value = 0 THEN {} ELSE {<<key, value>>}
putBool(key, value) == IF value THEN {<<key, value>>} ELSE {}
putList(key, list) == IF list = <<>> THEN {} ELSE {<<key, list>>}
putMsg(key, present, map) == IF present THEN {<<key, map>>} ELSE {}

(* The order of the encodings is some fixed order of the canonical          *)
(* elements.  Legacy keeps the authored order.                              *)
sortCanonicalSet(ver, list) ==
    IF ver = LegacyOrderV0 \/ ~IsInjective(list) THEN list ELSE SetToSeq(ToSet(list))

putSet(ver, key, list) == putList(key, sortCanonicalSet(ver, list))

canonicalVariable(v) == putStr("name", v.name) \cup putStr("source", v.source)

canonicalCommand(ver, c) ==
    putStr("executable", c.executable)
    \cup putList("arguments", c.arguments)
    \cup putSet(ver, "environment", [i \in DOMAIN c.environment |-> canonicalVariable(c.environment[i])])
    \cup putSet(ver, "success_exit_codes", c.success_exit_codes)
    \cup putMsg("timeout_policy", c.timeout.present, putInt("soft_seconds", c.timeout.soft))

PortOrderedOutside(ver, port) ==
    putStr("name", port.name)
    \cup putInt("cardinality", port.cardinality)
    \cup putBool("required", port.required)
    \cup putList("companion_files", port.companion_files)

(* A port is canonical inside before it is ordered among the others.        *)
canonicalPort(ver, port) ==
    putStr("name", port.name)
    \cup putInt("cardinality", port.cardinality)
    \cup putBool("required", port.required)
    \cup putSet(ver, "companion_files", port.companion_files)

canonicalPorts(ver, ports) == [i \in DOMAIN ports |-> canonicalPort(ver, ports[i])]

canonicalParameter(p) ==
    putStr("name", p.name) \cup putInt("type", p.type) \cup putStr("default_value", p.default)

canonicalParameters(params) == [i \in DOMAIN params |-> canonicalParameter(params[i])]

canonicalIntermediatePolicy(p) == putStr("path_or_pattern", p.pattern) \cup putInt("policy", p.policy)

canonicalIntermediatePolicies(policies) ==
    [i \in DOMAIN policies |-> canonicalIntermediatePolicy(policies[i])]

canonicalExecEnv(ver, ee) ==
    putSet(ver, "writable_paths", ee.writable_paths)
    \cup putBool("requires_root", ee.requires_root)
    \cup putSet(ver, "required_capabilities", ee.required_capabilities)

canonicalToolFunctionSpec(ver, spec) ==
    putMsg("command", spec.command.present, canonicalCommand(ver, spec.command))
    \cup putSet(ver, "inputs", canonicalPorts(ver, spec.inputs))
    \cup putSet(ver, "outputs", canonicalPorts(ver, spec.outputs))
    \cup putSet(ver, "parameters", canonicalParameters(spec.parameters))
    \cup putSet(ver, "intermediate_file_policies", canonicalIntermediatePolicies(spec.intermediate))
    \cup putMsg("execution_environment", spec.execution.present,
              canonicalExecEnv(ver, spec.execution))

canonicalPresentation(p) ==
    putStr("label", p.label) \cup putList("tags", p.tags) \cup putList("ports", p.ports)

EmptyRequirementsFolded(vp) ==
    putList("expected_results", vp.expected) \cup putInt("minimum_observation_level", vp.level)

canonicalValidationPolicy(vp) ==
    putList("expected_results", vp.expected)
    \cup putMsg("validation_requirements", vp.required,
              putInt("minimum_observation_level", vp.level))

canonicalEnvironmentHints(eh) ==
    putList("supported_platforms", eh.platforms)
    \cup putMsg("enforced_resources", eh.enforced, putStr("cpu_request", eh.cpu))

-----------------------------------------------------------------------------
(* What is accepted, and what is derived from it *)

(* sortCanonicalSetIn refuses an exact duplicate in any of the nine lists.  *)
NoExactDuplicate(spec) ==
    /\ IsInjective(spec.command.environment)
    /\ IsInjective(spec.command.success_exit_codes)
    /\ \A port \in Ports(spec) : IsInjective(port.companion_files)
    /\ IsInjective(spec.inputs) /\ IsInjective(spec.outputs)
    /\ IsInjective(spec.parameters) /\ IsInjective(spec.intermediate)
    /\ IsInjective(spec.execution.writable_paths)
    /\ IsInjective(spec.execution.required_capabilities)

validateToolFunctionSpec(ver, spec) ==
    /\ validateToolFunctionSpecCommon(spec)
    /\ ver # LegacyOrderV0 => validateSetLikeEntries(spec) /\ NoExactDuplicate(spec)

(* The digest inputs are trimmed and lowercased: every spelling of a digest *)
(* becomes the digest.                                                      *)
Normalized(spelling) == spelling.digest

Accepted(ver, req) ==
    /\ ~rejectUnknownRequestFields(req)
    /\ validateToolFunctionSpec(ver, req.spec)
    /\ validateToolFunctionPresentation(req)
    /\ validateToolFunctionValidationPolicy(req)

(* What a release before w2-set-v1 accepted.  What it stored is never       *)
(* validated again, by no check that was added since.                       *)
AcceptedEarlier(req) ==
    /\ ~rejectUnknownRequestFields(req)
    /\ OriginalChecks(req.spec)
    /\ validateToolFunctionPresentation(req)
    /\ validateToolFunctionValidationPolicy(req)

(* An absent presentation and an empty one give no revision.                *)
buildPresentationRevision(p) == canonicalPresentation(p)

functionDigest(ver, req) ==
    [base |-> Normalized(req.base), spec |-> canonicalToolFunctionSpec(ver, req.spec)]

envelope(req) ==
    putMsg("validation_policy", req.policy.present, canonicalValidationPolicy(req.policy))
    \cup putMsg("environment_hints", req.hints.present, canonicalEnvironmentHints(req.hints))

deriveToolFunction(ver, req) ==
    LET digest == functionDigest(ver, req)
    IN  [toolFunctionDigest |-> digest,
         casHash |-> [tool_function |-> digest, image |-> Normalized(req.image)],
         presentationRevID |-> buildPresentationRevision(req.presentation),
         basis |-> [version |-> ver, base |-> digest.base, image |-> Normalized(req.image),
                    spec |-> digest.spec,
                    presentation |-> buildPresentationRevision(req.presentation),
                    envelope |-> envelope(req)]]

-----------------------------------------------------------------------------
(* RegisterToolFunction *)

Derived(e) == deriveToolFunction(e.version, e.req)
Logged(outcomes) == {log[i] : i \in {j \in DOMAIN log : log[j].outcome \in outcomes}}
ReceiptEntries == Logged({"created", "reused"})
Records == Logged({"created"})

ReceiptOf(id) == {e \in ReceiptEntries : e.id = id}

(* The receipt selects the canonicalizer of a replay; a new request_id has  *)
(* to name w2-set-v1.                                                       *)
CanonicalizationSelected(id, ver) ==
    IF ReceiptOf(id) = {} THEN ver = W2SetV1 ELSE \A e \in ReceiptOf(id) : e.version = ver

checkToolFunctionEnvelope(d) ==
    \A e \in Records :
        Derived(e).toolFunctionDigest = d.toolFunctionDigest
        => Derived(e).basis.envelope = d.basis.envelope

Refuse(outcome) == answer' = outcome /\ UNCHANGED log

Answer(id, ver, req, outcome) ==
    /\ log' = Append(log, [id |-> id, version |-> ver, req |-> req, outcome |-> outcome])
    /\ answer' = outcome

Replay(id, ver, req, d) ==
    /\ ReceiptOf(id) # {}
    /\ IF \A e \in ReceiptOf(id) : Derived(e).basis = d.basis
       THEN Answer(id, ver, req, "replayed")
       ELSE Refuse("request conflict")

CreateOrReuse(id, ver, req, d) ==
    LET same == {e \in Records : Derived(e).casHash = d.casHash}
    IN  /\ ReceiptOf(id) = {}
        /\ CASE ~checkToolFunctionEnvelope(d) -> Refuse("envelope conflict")
             [] checkToolFunctionEnvelope(d) /\ same = {} -> Answer(id, ver, req, "created")
             [] OTHER -> IF \A e \in same : Derived(e).basis = d.basis
                         THEN Answer(id, ver, req, "reused")
                         ELSE Refuse("identity ambiguous")

RegisterToolFunction(id, ver, req) ==
    /\ Len(log) < MaxAnswers
    /\ IF CanonicalizationSelected(id, ver) /\ Accepted(ver, req)
       THEN LET d == deriveToolFunction(ver, req)
            IN  Replay(id, ver, req, d) \/ CreateOrReuse(id, ver, req, d)
       ELSE Refuse("refused")

(* A release before w2-set-v1 may have registered a request in the order it *)
(* was authored, also one that this release would refuse.                   *)
IdentityInit ==
    /\ log \in {<<>>} \cup
            {<<[id |-> id, version |-> LegacyOrderV0, req |-> req, outcome |-> "created"]>> :
               id \in RequestIds, req \in {r \in Declarations : AcceptedEarlier(r)}}
    /\ answer = "none"

IdentityNext ==
    \E id \in RequestIds, ver \in Versions, req \in Declarations :
        RegisterToolFunction(id, ver, req)

IdentitySpec == IdentityInit /\ [][IdentityNext]_identityVars

-----------------------------------------------------------------------------
(* Properties *)

(* What a client declares: under w2-set-v1 the nine set-like fields are     *)
(* sets, arguments are ordered, and nothing else is identified.             *)
Unordered(ver, list) == IF ver = LegacyOrderV0 THEN list ELSE ToSet(list)
DeclaredPort(ver, port) == [port EXCEPT !.companion_files = Unordered(ver, @)]
DeclaredPorts(ver, ports) ==
    Unordered(ver, [i \in DOMAIN ports |-> DeclaredPort(ver, ports[i])])

DeclaredCommand(ver, c) ==
    [c EXCEPT !.environment = Unordered(ver, @), !.success_exit_codes = Unordered(ver, @)]
DeclaredExecution(ver, ee) ==
    [ee EXCEPT !.writable_paths = Unordered(ver, @), !.required_capabilities = Unordered(ver, @)]

Declaration(ver, req) ==
    [base |-> req.base.digest,
     command |-> DeclaredCommand(ver, req.spec.command),
     inputs |-> DeclaredPorts(ver, req.spec.inputs),
     outputs |-> DeclaredPorts(ver, req.spec.outputs),
     parameters |-> Unordered(ver, req.spec.parameters),
     intermediate |-> Unordered(ver, req.spec.intermediate),
     execution |-> DeclaredExecution(ver, req.spec.execution),
     unknown |-> req.unknown]

Contract(req) == <<req.policy, req.hints>>
Shown(req) == [req.presentation EXCEPT !.present = TRUE]

(* Two registered declarations have one tool_function_digest exactly when   *)
(* they declare the same function: the order in which a set-like field was  *)
(* authored, the spelling of a digest and everything outside the digest do  *)
(* not matter; the order of arguments, an empty message that is present, a  *)
(* field of a newer client do.                                              *)
SameDigestIffSameDeclaration ==
    \A i, j \in DOMAIN log :
        log[i].version = log[j].version =>
            (Derived(log[i]).toolFunctionDigest = Derived(log[j]).toolFunctionDigest
             <=> Declaration(log[i].version, log[i].req) = Declaration(log[j].version, log[j].req))

(* A tool_function_digest has one validation policy and one set of          *)
(* environment hints, and a casHash one request and one canonicalizer:      *)
(* whoever is answered with a casHash, by creation, reuse or replay, asked  *)
(* for all that the record behind it was registered with.                   *)
OneRequestPerFunction ==
    \A i, j \in DOMAIN log :
        LET a == log[i]
            b == log[j]
        IN  /\ Derived(a).toolFunctionDigest = Derived(b).toolFunctionDigest =>
                  Contract(a.req) = Contract(b.req)
            /\ Derived(a).casHash = Derived(b).casHash =>
                  /\ a.version = b.version
                  /\ a.req.image.digest = b.req.image.digest
                  /\ Shown(a.req) = Shown(b.req)

(* The command line of a function that this release registered, reused or   *)
(* replayed is determined by the values of its parameters, and each of them *)
(* has an influence on it.  Of what an earlier release registered nothing   *)
(* is known, until a replay of it is accepted.                              *)
Render(arguments, values) ==
    [i \in DOMAIN arguments |->
        IF arguments[i].kind = "literal" THEN arguments[i].name ELSE values[arguments[i].name]]

Influences(name, spec) ==
    \E one, other \in [Names(spec.parameters) -> {"yes", "no"}] :
        /\ \A n \in Names(spec.parameters) \ {name} : one[n] = other[n]
        /\ Render(spec.command.arguments, one) # Render(spec.command.arguments, other)

RegisteredEarlier(e) == e.version = LegacyOrderV0 /\ e.outcome = "created"

EveryParameterMatters ==
    \A i \in DOMAIN log :
        ~RegisteredEarlier(log[i]) =>
            \A name \in Names(log[i].req.spec.parameters) : Influences(name, log[i].req.spec)

-----------------------------------------------------------------------------
(* Why they hold: an inductive invariant *)

Entry ==
    [id: RequestIds, version: Versions, req: Declarations, outcome: {"created", "reused", "replayed"}]

(* The log is a sequence of answered requests.                              *)
IdentityTypeOK == log \in Seq(Entry)

AllAccepted ==
    \A i \in DOMAIN log : \/ Accepted(log[i].version, log[i].req)
                          \/ RegisteredEarlier(log[i]) /\ AcceptedEarlier(log[i].req)

(* Behind every answer there is a record that was created with its basis.   *)
Founded ==
    \A i \in DOMAIN log : \E j \in DOMAIN log :
        log[j].outcome = "created" /\ Derived(log[j]).basis = Derived(log[i]).basis

SharedEnvelope ==
    \A i, j \in DOMAIN log :
        Derived(log[i]).toolFunctionDigest = Derived(log[j]).toolFunctionDigest
        => Derived(log[i]).basis.envelope = Derived(log[j]).basis.envelope

OneBasis ==
    \A i, j \in DOMAIN log :
        Derived(log[i]).casHash = Derived(log[j]).casHash
        => Derived(log[i]).basis = Derived(log[j]).basis

IdentityInv == IdentityTypeOK /\ AllAccepted /\ Founded /\ SharedEnvelope /\ OneBasis
=============================================================================
