------------------------------ MODULE MCSiteGate ------------------------------
(* An instance of SiteGate: one contended site.                             *)
EXTENDS SiteGate, TLC

CONSTANTS r1, r2, r3, d1

OneSite == [r \in Requests |-> d1]

(* Calls are alike, so the exclusive ones may be numbered first, as they    *)
(* come.  Liveness rules out a symmetry set; this order takes its place.    *)
InOrder == (wantsExclusive[r3] => wantsExclusive[r2]) /\ (wantsExclusive[r2] => wantsExclusive[r1])
InOrderNext == InOrder'
=============================================================================
