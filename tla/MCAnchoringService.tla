------------------------ MODULE MCAnchoringService ------------------------
(* Small instance of the service: one commitment. *)
EXTENDS AnchoringService

OnePayload == {[merkleRoot |-> 1, eventCount |-> 1, metadataHash |-> 1]}

===========================================================================
