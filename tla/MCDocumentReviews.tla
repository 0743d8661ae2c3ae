--------------------------- MODULE MCDocumentReviews ---------------------------
(* DocumentReviews for TLC: no symmetry, since one property is temporal.       *)
EXTENDS DocumentReviews
===============================================================================
