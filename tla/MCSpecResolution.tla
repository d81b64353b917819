-------------------------- MODULE MCSpecResolution --------------------------
(* Legacy documents with and without a pinned base, in two layouts, with    *)
(* white space around the tool's name or not, and with numbers that decode  *)
(* to one double or to none; v1 documents with kinds that are and are not   *)
(* 2, and documents in between.                                             *)
EXTENDS SpecResolution

CONSTANTS b1

Decimal(int, frac, exp) == [negative |-> FALSE, int |-> int, frac |-> frac, exp |-> exp]

(* 2 and 0.02e2 are two; 2.01 and 2e9 are not.                              *)
Two == Decimal(<<2>>, <<>>, 0)
AlsoTwo == Decimal(<<0>>, <<0, 2>>, 2)
NearlyTwo == Decimal(<<2>>, <<0, 1>>, 0)
TooLarge == Decimal(<<2>>, <<>>, 9)

(* Doubles with one significant digit and one digit of exponent: 2.01 is    *)
(* rounded to 2, and 2e9 is out of range.                                   *)
Rounded(n) ==
    LET digits == n.int \o n.frac
        first == Len(digits) - Len(Significant(digits)) + 1
        place == Len(n.int) - first + n.exp
    IN  IF place > 8 THEN None ELSE <<n.negative, digits[first], place>>
Doubles == [n \in {Two, AlsoTwo, NearlyTwo, TooLarge} |-> Rounded(n)]
MCFloat64(n) == Doubles[n]

Digest(padded, ok) == [digest |-> b1, padded |-> padded, wellformed |-> ok]

Legacy(uri, layout) ==
    [json |-> "object", schema |-> "none", kind |-> Two, base |-> Digest(FALSE, TRUE), script |-> "",
     unknownField |-> FALSE, image_uri |-> uri, layout |-> layout]
Unpinned == [ref |-> "img", digest |-> None]
Pinned == [ref |-> "img", digest |-> b1]
V1(kind) == [Legacy(NoPin, 1) EXCEPT !.schema = SchemaBuildV1, !.kind = kind, !.script = "s"]

Written(kind, layout) == [Legacy(Pinned, layout) EXCEPT !.kind = kind]

Raws ==
    {Legacy(Unpinned, 1), Written(Two, 1), Written(NearlyTwo, 2), Written(TooLarge, 1),
     [Legacy(Pinned, 1) EXCEPT !.schema = "other"],
     V1(AlsoTwo), V1(NearlyTwo), [V1(Two) EXCEPT !.json = "trailing"]}

(* The tool is named with white space in some.                              *)
Tool(padded) == [name |-> "t", padded |-> padded]
MCRequests == {[tool |-> Tool(raw.layout = 2), raw |-> raw] : raw \in Raws}

NewerSpec == [ResolveRawSpec([tool |-> Tool(FALSE), raw |-> V1(Two)], b1)
                EXCEPT !.derivation = "nodevault.resolve.v2"]

Symmetry == Permutations(Calls) \cup Permutations(Manifests)
=============================================================================
