------------------------- MODULE MCFunctionIdentity -------------------------
(* Requests one edit away from a declaration that uses every message, in    *)
(* two authored orders: any two are a reordering and two edits apart.  An   *)
(* edit swaps, drops, repeats or adds an element of a list, changes a       *)
(* field, removes a message or adds a field of a newer client.              *)
EXTENDS FunctionIdentity, TLC

AnyPort(name, files) ==
    [name |-> name, cardinality |-> 1, required |-> TRUE, companion_files |-> files]
AnyParam(name) == [name |-> name, type |-> 1, default |-> ""]
Reference(name) == [kind |-> "param", name |-> name]
Literal(text) == [kind |-> "literal", name |-> text]

Full ==
    [base |-> [digest |-> "d1", spelled |-> "lower"],
     image |-> [digest |-> "i1", spelled |-> "lower"],
     unknown |-> {},
     spec |-> [
        command |-> [NoCommand EXCEPT !.present = TRUE, !.executable = "tool",
                        !.arguments = <<Literal("a"), Reference("p")>>,
                        !.environment = <<[name |-> "HOME", source |-> ""],
                                          [name |-> "LANG", source |-> "host"]>>,
                        !.success_exit_codes = <<0, 3>>],
        inputs |-> <<AnyPort("in", <<"x", "y">>), AnyPort("ref", <<"y">>)>>,
        outputs |-> <<AnyPort("out", <<>>)>>,
        parameters |-> <<AnyParam("p")>>,
        intermediate |-> <<[pattern |-> "*.tmp", policy |-> 1], [pattern |-> "*.log", policy |-> 2]>>,
        execution |-> [NoExecution EXCEPT !.present = TRUE, !.writable_paths = <<"/tmp", "/out">>,
                        !.required_capabilities = <<"CAP_A", "CAP_B">>]],
     presentation |-> [NoPresentation EXCEPT !.present = TRUE, !.label = "Tool"],
     policy |-> NoPolicy,
     hints |-> NoHints]

Swapped(s) == IF Len(s) < 2 THEN s ELSE <<s[2], s[1]>> \o SubSeq(s, 3, Len(s))
ListEdits(s, new) == {Swapped(s), Append(s, new)} \cup {Front(s) : x \in {1} \cap DOMAIN s}

CommandEdits(c) ==
    {NoCommand, [NoCommand EXCEPT !.present = TRUE],
     [c EXCEPT !.timeout.present = TRUE], [c EXCEPT !.timeout = [present |-> TRUE, soft |-> 5]]}
    \cup {[c EXCEPT !.present = TRUE, !.arguments = s] :
             s \in UNION {ListEdits(c.arguments, a) :
                            a \in {Reference("p"), Reference("q"), [kind |-> "input", name |-> "in"]}}}
    \cup {[c EXCEPT !.present = TRUE, !.environment = s] :
             s \in UNION {ListEdits(c.environment, [name |-> n, source |-> "host"]) :
                            n \in {"LANG", " "}}}
    \cup {[c EXCEPT !.present = TRUE, !.success_exit_codes = s] : s \in ListEdits(c.success_exit_codes, 0)}

PortEdits(ports) ==
    ListEdits(ports, AnyPort("ref", <<>>))
    \cup {[ports EXCEPT ![1].companion_files = s] :
             s \in UNION {ListEdits(ports[i].companion_files, f) :
                            i \in {1} \cap DOMAIN ports, f \in {"y", ""}}}
    \cup {[ports EXCEPT ![i].cardinality = n] : i \in {1} \cap DOMAIN ports, n \in {0, 2}}

SpecEdits(spec) ==
    {[spec EXCEPT !.command = c] : c \in CommandEdits(spec.command)}
    \cup {[spec EXCEPT !.inputs = s] : s \in PortEdits(spec.inputs)}
    \cup {[spec EXCEPT !.outputs = s] : s \in ListEdits(spec.outputs, AnyPort("log", <<>>))}
    \cup {[spec EXCEPT !.parameters = s] :
             s \in UNION {ListEdits(spec.parameters, p) :
                            p \in {AnyParam("q"), AnyParam("p"), [AnyParam("q") EXCEPT !.type = 99]}}}
    \cup {[spec EXCEPT !.intermediate = s] :
             s \in UNION {ListEdits(spec.intermediate, [pattern |-> p, policy |-> k]) :
                            p \in {"*.log", "*.bam"}, k \in {0, 99}}}
    \cup {[spec EXCEPT !.execution = e] :
             e \in {NoExecution, [NoExecution EXCEPT !.present = TRUE],
                    [spec.execution EXCEPT !.present = TRUE, !.requires_root = TRUE]}
                   \cup {[spec.execution EXCEPT !.present = TRUE, !.writable_paths = s] :
                            s \in ListEdits(spec.execution.writable_paths, "/tmp")}
                   \cup {[spec.execution EXCEPT !.present = TRUE, !.required_capabilities = s] :
                            s \in ListEdits(spec.execution.required_capabilities, "root")}}

Edits(req) ==
    {[req EXCEPT !.spec = s] : s \in SpecEdits(req.spec)}
    \cup {[req EXCEPT !.base = [digest |-> d, spelled |-> "upper"]] : d \in {"d1", "d2"}}
    \cup {[req EXCEPT !.image = [digest |-> d, spelled |-> "upper"]] : d \in {"i1", "i2"}}
    \cup {[req EXCEPT !.unknown = {m}] : m \in {"request", "command", "presentation", "enforced_resources"}}
    \cup {[req EXCEPT !.presentation = p] :
             p \in {NoPresentation, [NoPresentation EXCEPT !.present = TRUE],
                    [req.presentation EXCEPT !.present = TRUE, !.ports = <<"out">>],
                    [req.presentation EXCEPT !.present = TRUE, !.ports = <<"out", "out">>],
                    [req.presentation EXCEPT !.present = TRUE, !.ports = <<"in">>]}}
    \cup {[req EXCEPT !.policy = p] :
             p \in {[NoPolicy EXCEPT !.present = TRUE], [NoPolicy EXCEPT !.present = TRUE, !.required = TRUE],
                    [NoPolicy EXCEPT !.present = TRUE, !.expected = <<"out", "">>],
                    [NoPolicy EXCEPT !.present = TRUE, !.expected = <<"log">>],
                    [NoPolicy EXCEPT !.present = TRUE, !.required = TRUE, !.level = 9]}}
    \cup {[req EXCEPT !.hints = h] :
             h \in {[NoHints EXCEPT !.present = TRUE], [NoHints EXCEPT !.present = TRUE, !.enforced = TRUE],
                    [NoHints EXCEPT !.present = TRUE, !.platforms = <<"amd64">>]}}

(* The same declaration, authored in another order.                         *)
Reordered ==
    [Full EXCEPT !.spec.command.environment = Swapped(@), !.spec.command.success_exit_codes = Swapped(@),
                 !.spec.inputs = Swapped([@ EXCEPT ![1].companion_files = <<"y", "x">>]),
                 !.spec.intermediate = Swapped(@), !.spec.execution.writable_paths = Swapped(@),
                 !.spec.execution.required_capabilities = Swapped(@)]

(* No step or property tells one request id from another.                  *)
Symmetry == Permutations(RequestIds)

MCDeclarations == UNION {{r} \cup Edits(r) : r \in {Full, Reordered}}
=============================================================================
