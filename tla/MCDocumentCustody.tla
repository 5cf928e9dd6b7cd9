------------------------- MODULE MCDocumentCustody -------------------------
(***************************************************************************)
(* A document with two versions and two requests in flight.                *)
(***************************************************************************)
EXTENDS DocumentCustody, TLC

CONSTANTS v1, v2, req1, req2, report, photo

TwoVersions == {v1, v2}
TwoRequests == {req1, req2}
TwoContents == {report, photo}
Symmetry == Permutations(TwoVersions) \cup Permutations(TwoRequests) \cup Permutations(TwoContents)
=============================================================================
