---------------------------- MODULE MCReviewDesk ----------------------------
(* ReviewDesk with a diligent reviewer, a session that opens any field and  *)
(* calls the API too, two connections and the gate engaged.                 *)
EXTENDS ReviewDesk

CONSTANTS alice, bob
=============================================================================
