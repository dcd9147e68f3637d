----------------------------- MODULE MCLogScan -----------------------------
(* Small instance of the scan and the contract under it: payloads with and *)
(* without each zero field, chunks that halve from 5 through 2 to 1.       *)
EXTENDS LogScan

MCPayloads == {[merkleRoot |-> 1, eventCount |-> 1, metadataHash |-> 1],
               [merkleRoot |-> 0, eventCount |-> 1, metadataHash |-> 1],
               [merkleRoot |-> 1, eventCount |-> 0, metadataHash |-> 1],
               [merkleRoot |-> 2, eventCount |-> 1, metadataHash |-> 0],
               [merkleRoot |-> 2, eventCount |-> 1, metadataHash |-> 1]}

============================================================================
