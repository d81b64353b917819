------------------------- MODULE MCObservedProfiles -------------------------
(* Model-checking instance of ObservedProfiles: three checks of one         *)
(* profile, one of them stamped by the server, an older check of another    *)
(* profile, and one that failed.                                            *)
EXTENDS ObservedProfiles

MCChecks ==
    {[id |-> "first", checkedAt |-> 2, observed |-> TRUE, profile |-> 1],
     [id |-> "second", checkedAt |-> 3, observed |-> TRUE, profile |-> 1],
     [id |-> "stamped", checkedAt |-> 0, observed |-> TRUE, profile |-> 1],
     [id |-> "late", checkedAt |-> 1, observed |-> TRUE, profile |-> 2],
     [id |-> "failed", checkedAt |-> 0, observed |-> FALSE, profile |-> 3]}
=============================================================================
