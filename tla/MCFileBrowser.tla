--------------------------- MODULE MCFileBrowser ---------------------------
(* Two directories on two file systems; one file, or an empty one of its   *)
(* name on the other too.                                                  *)
EXTENDS FileBrowser

CONSTANTS d0, d1, a, x

MCDisks ==
    LET Only(held) == [f \in File |-> IF f \in DOMAIN held THEN held[f] ELSE Absent]
        here == In(d0, a)
        there == In(d1, a)
    IN {Only([f \in {here} |-> x]),
        Only([f \in {here, there} |-> IF f = here THEN x ELSE Empty])}
=============================================================================
