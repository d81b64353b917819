--------------------------- MODULE MCIndexStore ---------------------------
(* Model-checking instances of IndexStore.  Bases b1 and b2 derive the same *)
(* casHash and differ in their presentation, b3 is another image of the     *)
(* same ToolFunction with another envelope.  An earlier release left q0,    *)
(* canonicalized as legacy-order-v0, and q4, of which no basis is known;    *)
(* b4 derives the casHash that q4 registered.                               *)
EXTENDS IndexStore, TLC

CONSTANTS q0, q4, b0, b3, b4, h0, h1, h3, h4

MCCasOf ==
    [b \in Bases |-> CASE b = b0 -> h0 [] b = b3 -> h3 [] b = b4 -> h4 [] OTHER -> h1]
MCDigestOf == [h \in Hashes |-> IF h \in {h1, h3} THEN "d1" ELSE h]
MCEnvelopeOf == [b \in Bases |-> IF b = b3 THEN "e3" ELSE "e1"]

EmptyIndex ==
    [origin |-> [h \in Hashes |-> NoRequest],
     receipt |-> [q \in Requests |-> NoReceipt],
     entries |-> {}, images |-> {}]

EarlierIndex ==
    [EmptyIndex EXCEPT !.receipt[q0] = b0, !.origin[h0] = q0,
                       !.receipt[q4] = UnknownBasis, !.origin[h4] = q4]

(* The two NodeVault processes and the new request_ids are interchangeable. *)
Symmetry == Permutations(Registrars) \cup Permutations(Requests \ {q0, q4})
=============================================================================
