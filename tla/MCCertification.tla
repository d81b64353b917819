-------------------------- MODULE MCCertification --------------------------
(* Model-checking instances of Certification.  Tools t1 and t2 register     *)
(* images i1 and i2 of one tool and version; a terminal check is the last   *)
(* record of its validation request, a non-terminal one waits for a scan.   *)
EXTENDS Certification

CONSTANTS i1, i2, k1, k2, t1, t2

MCImageOf == [t \in Tools |-> IF t = t1 THEN i1 ELSE i2]

Evidence(id, image, key, terminal) ==
    [id |-> id, image |-> image, key |-> key, named |-> TRUE, succeeded |-> TRUE,
     l5a |-> TRUE, hash |-> TRUE, outputs |-> TRUE, terminal |-> terminal]
(* The image starts and exits 0, outputs not observed.                      *)
Placeholder(id, image, key) == [Evidence(id, image, key, TRUE) EXCEPT !.outputs = FALSE]
Nameless(id, image, key) == [Evidence(id, image, key, TRUE) EXCEPT !.named = FALSE]

ScanOf(id, image, at, staged, blocked) ==
    [id |-> id, image |-> image, at |-> at, l5b |-> staged, terminal |-> staged,
     blocked |-> blocked]

Waiting == Evidence("waiting", i1, k1, FALSE)
Ready == Evidence("ready", i2, k2, TRUE)
MCSubmitted == {Waiting, Ready}

(* What a release that certified placeholders left: an image certified from *)
(* a placeholder, beside an admissible check that names no tool, or sharing *)
(* the casHash t1 with a provable certification.  In the last list a record *)
(* without a key has replaced the first of two certifications of i1, and    *)
(* has the key of the second; the certification of i2 has its own.          *)
Old == Placeholder("old", i1, NoKey)
Good == Evidence("good", i2, NoKey, TRUE)
Older == Placeholder("older", i1, k2)
Other == Placeholder("other", i2, k1)
Anonymous == Nameless("anonymous", i1, NoKey)
OldCert(check, cas) == [image |-> check.image, key |-> check.key, cas |-> cas,
                        active |-> TRUE, check |-> check, scan |-> None]
EntryOf(check) == [image |-> check.image, check |-> check, active |-> TRUE]
Left(checks, certs, entry) ==
    [EmptyIndex EXCEPT !.entries = <<t1>>, !.checks = checks, !.certs = certs,
                       !.catalog[t1] = entry]

Earlier ==
    {EmptyIndex,
     Left(<<Old, Anonymous>>, <<OldCert(Old, t1)>>, EntryOf(Old)),
     Left(<<Old, Good>>, <<OldCert(Old, t1), OldCert(Good, t1)>>, EntryOf(Old)),
     Left(<<Old, Good>>, <<OldCert(Old, t1), OldCert(Good, t1)>>, EntryOf(Good)),
     Left(<<Old, Older, Other>>, <<OldCert(Old, t1), OldCert(Older, t1), OldCert(Other, t1)>>,
          EntryOf(Older))}
MCChecks == MCSubmitted \cup {Old, Older, Other, Good, Anonymous}
MCScans == {ScanOf("closing", i1, 1, TRUE, FALSE), ScanOf("blocking", i2, 2, FALSE, TRUE)}
=============================================================================
