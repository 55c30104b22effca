------------------------------ MODULE MCLoader ------------------------------
(* Loader on small instances for TLC. *)
EXTENDS Loader

\* One game, and a section for another.
MCTitle == [p \in Process |-> "CUSA1"]

Sole(name, id, v) == Named(name, [k \in {id} |-> v])

MCText == STRING

\* plugins.ini as a user may have written it, hen.ini as the payload did.
MCFirstDisk ==
    LET all == Sole("all", "a", "1")
        own == Sole("CUSA1", "b", "1")
        others == Sole("CUSA2", "b", "1")
    IN [{"plugins.ini"} -> {<<own, all>>, <<all, others>>}]

MCDisk ==
    {[path \in Path |-> IF path = "hen.ini" THEN <<Sole("HEN", "o", "1")>> ELSE d[path]] :
        d \in MCFirstDisk}
=============================================================================
