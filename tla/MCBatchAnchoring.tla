------------------------- MODULE MCBatchAnchoring -------------------------
(* Small instances of anchoring. *)
EXTENDS BatchAnchoring

\* One commitment, and two that differ in the root (for a tampered batch).
OnePayload == {[merkleRoot |-> 1, eventCount |-> 1, metadataHash |-> 1]}
TwoPayloads == OnePayload \cup {[merkleRoot |-> 2, eventCount |-> 1, metadataHash |-> 2]}

===========================================================================
