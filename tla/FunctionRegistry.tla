------------------------- MODULE FunctionRegistry -------------------------
(***************************************************************************)
(* What RegisterToolFunction promises its callers, whatever processes,     *)
(* files, fences and failures are behind it: one ledger of operations in   *)
(* which no two disagree, from which answers are given, and which a power  *)
(* loss may shorten only by operations that were never answered.           *)
(***************************************************************************)
EXTENDS Naturals

CONSTANTS Requests, Bases, CasOf, DigestOf, EnvelopeOf

VARIABLES ledger, answered

Operations == [req: Requests, basis: Bases]

(* A request_id stands for one request, a casHash for one basis, and a      *)
(* tool_function_digest for one policy and set of hints.                    *)
Compatible(a, b) ==
    /\ a.req = b.req => a.basis = b.basis
    /\ CasOf[a.basis] = CasOf[b.basis] => a.basis = b.basis
    /\ DigestOf[CasOf[a.basis]] = DigestOf[CasOf[b.basis]] =>
         EnvelopeOf[a.basis] = EnvelopeOf[b.basis]

Init ==
    /\ ledger \in SUBSET Operations
    /\ \A a, b \in ledger : Compatible(a, b)
    /\ answered = {}

Register(op) ==
    /\ op \notin ledger
    /\ \A a \in ledger : Compatible(a, op)
    /\ ledger' = ledger \cup {op}
    /\ answered' \in {answered, answered \cup {op}}

Answer(op) ==
    /\ op \in ledger
    /\ answered' = answered \cup {op}
    /\ UNCHANGED ledger

PowerLoss ==
    /\ ledger' \in SUBSET ledger
    /\ answered \subseteq ledger'
    /\ UNCHANGED answered

Next ==
    \/ \E op \in Operations : Register(op) \/ Answer(op)
    \/ PowerLoss

Spec == Init /\ [][Next]_<<ledger, answered>>
=============================================================================
