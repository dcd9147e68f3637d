-------------------------- MODULE MCRegistration --------------------------
(* Small instances of registration.  Requests, DIDs and threads are        *)
(* interchangeable, and the runs check no liveness.                        *)
EXTENDS Registration, TLC

Symmetry == Permutations(Requests) \cup Permutations(Dids) \cup Permutations(Workers)

===========================================================================
