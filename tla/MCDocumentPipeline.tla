------------------------- MODULE MCDocumentPipeline -------------------------
(***************************************************************************)
(* DocumentPipeline for TLC.  Workers, messages, calls and keys are        *)
(* interchangeable: the symmetry is used by the runs that check safety.    *)
(***************************************************************************)
EXTENDS DocumentPipeline, TLC

Symmetry == UNION {Permutations(S) : S \in {Jobs, Messages, Workers, Requests,
                                            Deletions}}
=============================================================================
