------------------------- MODULE MCReferrerWitness -------------------------
(* Model-checking instance of ReferrerWitness: the shapes of artifacts and  *)
(* the Link headers that the code tells apart.                              *)
EXTENDS ReferrerWitness

Typed == [usable |-> TRUE, label |-> "toolspec", type |-> "toolspec",
          config |-> TRUE, cas |-> "mine"]
Generic == [Typed EXCEPT !.label = "generic"]

Plain == {Typed, [Generic EXCEPT !.cas = "other"]} \* ours, and another entry's

Odd ==
    {Generic,
     [Typed EXCEPT !.cas = "none"],           \* a payload without cas_hash
     [Typed EXCEPT !.type = "foreign"],       \* label and manifest disagree
     [Typed EXCEPT !.label = "foreign"],      \* settled by the listing
     [Generic EXCEPT !.type = "unstated"],    \* a manifest that names no kind
     [Generic EXCEPT !.type = "foreign"],
     [Generic EXCEPT !.usable = FALSE],
     [Generic EXCEPT !.config = FALSE]}

(* Ours and others in any order, or one artifact of an odd shape, at any    *)
(* place among plain ones.                                                  *)
MCLayouts ==
    [Artifacts -> Plain] \cup
    {[b \in Artifacts |-> IF b = a THEN odd ELSE plain] :
        a \in Artifacts, odd \in Odd, plain \in Plain}

Entry(target, rels) == [target |-> target, rels |-> rels]
Field(whole, entries) == [complete |-> whole, entries |-> entries]

MCLinkHeaders ==
    {<<>>,
     <<Field(TRUE, <<Entry("same", <<{"prev"}, {"next"}>>)>>)>>,
     <<Field(TRUE, <<Entry("same", <<{"prev"}>>)>>),
       Field(TRUE, <<Entry("same", <<{"next"}>>)>>)>>,
     <<Field(TRUE, <<Entry("foreign", <<{"next"}>>)>>)>>,
     <<Field(FALSE, <<>>)>>}
=============================================================================
