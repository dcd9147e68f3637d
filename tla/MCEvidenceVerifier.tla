----------------------- MODULE MCEvidenceVerifier -----------------------
(* Hashes as terms: a leaf and a pair never collide. *)
EXTENDS EvidenceVerifier

Leaf(k) == <<k>>
Pair(l, r) == <<l, r>>

==========================================================================
