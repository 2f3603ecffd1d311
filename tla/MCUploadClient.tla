---------------------------- MODULE MCUploadClient ----------------------------
(* UploadClient on small instances: which step is of which type, and which   *)
(* steps descend from which.                                               *)
EXTENDS UploadClient, TLC

CONSTANTS src, mdl, rsl     \* a source, a model on it, a resolver on that

MCStepTypeOf == [p \in Paths |-> CASE p = src -> "source"
                                   [] p = mdl -> "model"
                                   [] OTHER -> "resolver"]
MCDescendants == [p \in Paths |-> CASE p = src -> Paths \ {src}
                                    [] p = mdl -> Paths \cap {rsl}
                                    [] OTHER -> {}]
MCSymmetry == Permutations(Calls) \cup Permutations(Contents)
=============================================================================
