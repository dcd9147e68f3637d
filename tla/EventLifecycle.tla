-------------------------- MODULE EventLifecycle --------------------------
(***************************************************************************)
(* What the pipeline promises of events, without threads, cycles or        *)
(* crashes: an event that was accepted goes into one batch, for good, and  *)
(* the batches are anchored one at a time.  Submitted -> Batched ->        *)
(* Anchored (README.md:236).                                               *)
(***************************************************************************)
CONSTANTS Events, BatchIds

VARIABLES
    accepted,   \* the events a receipt was issued for
    home,       \* the batch of an event, as a set of at most one
    done        \* the batches anchored

Init ==
    /\ accepted = {}
    /\ home = [e \in Events |-> {}]
    /\ done = {}

Accept(e) ==
    /\ e \notin accepted
    /\ accepted' = accepted \cup {e}
    /\ UNCHANGED <<home, done>>

\* A fresh batch takes events that have none.
Group(b, S) ==
    /\ S # {}
    /\ \A e \in S : e \in accepted /\ home[e] = {}
    /\ \A e \in Events : b \notin home[e]
    /\ home' = [e \in Events |-> IF e \in S THEN {b} ELSE home[e]]
    /\ UNCHANGED <<accepted, done>>

Anchor(b) ==
    /\ b \notin done
    /\ \E e \in Events : b \in home[e]
    /\ done' = done \cup {b}
    /\ UNCHANGED <<accepted, home>>

Next ==
    \/ \E e \in Events : Accept(e)
    \/ \E b \in BatchIds : Anchor(b) \/ \E S \in SUBSET Events : Group(b, S)

Spec == Init /\ [][Next]_<<accepted, home, done>>

==========================================================================
