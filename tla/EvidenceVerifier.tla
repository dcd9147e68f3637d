-------------------------- MODULE EvidenceVerifier --------------------------
(***************************************************************************)
(* `veriagent verify` against the batch of MerkleTree: an event file, a     *)
(* proof file, and an anchor record from a file or fetched.  The proof     *)
(* file is what the server served for an event of the batch, or differs    *)
(* from it in any of its fields.  The anchor record is a batch's own: it   *)
(* is what the caller trusts.  The checks of verify_audit_evidence run in  *)
(* their order; the first that fails ends it.                              *)
(*                                                                         *)
(* A proof file was saved from the route the CLI fetches from, so fetching *)
(* one is Request and then Verify with the file as it was served.          *)
(***************************************************************************)
EXTENDS MerkleTree

CONSTANT None       \* a merkle_root that is missing

VARIABLES
    anchored,   \* whether batch_anchors has a row for the batch
    file,       \* the proof file that is verified
    event,      \* the event that is verified
    anchor,     \* the anchor metadata that is verified
    current,    \* the loop variables of verify_inclusion_proof
    pos,
    result      \* the status, and the check that decided it

vars == <<treeVars, anchored, file, event, anchor, current, pos, result>>
inputs == <<leaves, root, level, index, proof, target, anchored, file, event, anchor>>

\* The other anchored batch there is: of this one event.
Outsider == N + 1

RootOf(batch) == IF batch = "this" THEN root ELSE LeafHash(Outsider)
EventsOf(batch) == IF batch = "this" THEN {leaves[i] : i \in DOMAIN leaves} ELSE {Outsider}

\* An event file: whose hash it has, and whether its signature verifies
\* with the key in its agent_id.  Wrapper is GET /audit/events/{event_id}.
Events == [rank : 1..Outsider, signed : BOOLEAN]
Wrapper == [rank |-> 0, signed |-> FALSE]

\* The answer of the proof route; no field and no step of it is malformed.
Served == [hash |-> LeafHash(leaves[target]), root |-> root, batch |-> "this",
           steps |-> proof, malformed |-> "none"]

\* A step of the proof has the other side or another sibling, or is lost.
StepChanges ==
    UNION {{[proof EXCEPT ![i].side = IF @ = "left" THEN "right" ELSE "left"],
            SubSeq(proof, 1, i - 1) \o SubSeq(proof, i + 1, Len(proof))}
           \cup {[proof EXCEPT ![i].sibling = LeafHash(k)] : k \in Ranks} : i \in DOMAIN proof}

\* The proof files.  Bound: one step differs, or the fields around the steps
\* are any of these, or something is malformed.
Files ==
    {Served}
    \cup {[Served EXCEPT !.steps = s] : s \in StepChanges}
    \cup UNION {[hash : {h}, root : {h, root, RootOf("other")}, batch : {"this", "other"},
                 steps : {proof, <<>>}, malformed : {"none"}]
                    : h \in {LeafHash(k) : k \in 1..Outsider}}
    \cup {[Served EXCEPT !.malformed = m] : m \in {"field", "step"}}

Undecided == [status |-> "FAIL", step |-> "none"]
Failed(step) == result' = [status |-> "FAIL", step |-> step] /\ pc' = "done"

Init ==
    /\ TreeInit
    /\ anchored = FALSE
    /\ file = None
    /\ event = Wrapper
    /\ anchor = [batch |-> "this", root |-> None, complete |-> FALSE, filled |-> FALSE]
    /\ current = <<>>
    /\ pos = 0
    /\ result = Undecided

--------------------------------------------------------------------------
(* The evidence. *)

Serve ==
    /\ TreeNext
    /\ UNCHANGED <<anchored, file, event, anchor, current, pos, result>>

Anchor ==
    /\ pc = "served"
    /\ anchored' = TRUE
    /\ UNCHANGED <<treeVars, file, event, anchor, current, pos, result>>

--------------------------------------------------------------------------
(* _resolve_verify_inputs *)

\* With --api-base-url, a file that holds the stored-event wrapper is replaced
\* by the canonical event of the proof's event_id, which has no signature.
Resolved(e) == IF e = Wrapper THEN [rank |-> leaves[target], signed |-> FALSE] ELSE e

\* The record of the batch once it is anchored, or of the other one, with all
\* its metadata or without; an older API omitted the root.
AnchorRecords ==
    UNION {[batch : {b}, root : {RootOf(b), None}, complete : BOOLEAN, filled : {FALSE}]
              : b \in IF anchored THEN {"this", "other"} ELSE {"other"}}

\* With --anchor, and with or without --api-base-url beside it.
Verify(e, f, a) ==
    /\ event' \in {e, Resolved(e)}
    /\ file' = f
    /\ anchor' = a
    /\ pc' = "hash"
    /\ UNCHANGED <<leaves, root, level, index, proof, target, anchored, current, pos, result>>

\* enrich_anchor_with_merkle_root: a record that was fetched takes the root
\* it lacks from the proof file.  filled remembers it for PassIsEvidence.
Enriched(a, f) == IF a.root = None THEN [a EXCEPT !.root = f.root, !.filled = TRUE] ELSE a

VerifyFetching(e, f, a) ==
    /\ a.complete
    /\ event' = Resolved(e)
    /\ file' = f
    /\ anchor' = Enriched(a, f)
    /\ pc' = "hash"
    /\ UNCHANGED <<leaves, root, level, index, proof, target, anchored, current, pos, result>>

\* The API has no anchor record of the batch yet: 404, exit 2.
FetchFails ==
    /\ pc = "served"
    /\ ~anchored
    /\ Failed("fetch")
    /\ UNCHANGED <<inputs, current, pos>>

--------------------------------------------------------------------------
(* verify_audit_evidence *)

\* The fields of the proof file are read, then proof_event_hash_match.
CheckHash ==
    /\ pc = "hash"
    /\ CASE file.malformed = "field" -> Failed("input_validation")
         [] file.malformed # "field" /\ LeafHash(event.rank) # file.hash ->
                Failed("proof_event_hash_match")
         [] OTHER -> pc' = "signature" /\ UNCHANGED result
    /\ UNCHANGED <<inputs, current, pos>>

\* ed25519_signature; then _parse_proof_steps, and the fold begins with
\* proof.event_hash.
CheckSignature ==
    /\ pc = "signature"
    /\ \/ ~event.signed /\ Failed("ed25519_signature") /\ UNCHANGED <<current, pos>>
       \/ /\ event.signed /\ file.malformed = "step"
          /\ Failed("input_validation") /\ UNCHANGED <<current, pos>>
       \/ /\ event.signed /\ file.malformed # "step"
          /\ pc' = "fold" /\ current' = file.hash /\ pos' = 0 /\ UNCHANGED result
    /\ UNCHANGED inputs

\* verify_inclusion_proof: an iteration of its loop, and its return.
FoldStep ==
    /\ pc = "fold"
    /\ pos < Len(file.steps)
    /\ LET s == file.steps[pos + 1] IN
        current' = IF s.side = "left" THEN HashPair(s.sibling, current)
                                      ELSE HashPair(current, s.sibling)
    /\ pos' = pos + 1
    /\ UNCHANGED <<inputs, pc, result>>

\* Mutated form: the fold's result is not compared with the proof's root.
FoldReturnUnchecked ==
    /\ pc = "fold"
    /\ pos = Len(file.steps)
    /\ pc' = "anchor"
    /\ UNCHANGED <<inputs, current, pos, result>>

\* merkle_inclusion_proof
FoldReturn ==
    /\ pc = "fold"
    /\ pos = Len(file.steps)
    /\ IF current = file.root THEN pc' = "anchor" /\ UNCHANGED result
                              ELSE Failed("merkle_inclusion_proof")
    /\ UNCHANGED <<inputs, current, pos>>

\* Mutated form: the anchored root is not compared with the proof's.
CheckAnchorAnyRoot ==
    /\ pc = "anchor"
    /\ CASE ~anchor.complete \/ anchor.root = None -> Failed("input_validation")
         [] anchor.complete /\ anchor.root # None /\ file.batch # anchor.batch ->
                Failed("batch_id_match")
         [] OTHER -> result' = [status |-> "PASS", step |-> "all"] /\ pc' = "done"
    /\ UNCHANGED <<inputs, current, pos>>

\* _validate_anchor_metadata, anchor_merkle_root_match, batch_id_match
CheckAnchor ==
    /\ pc = "anchor"
    /\ CASE ~anchor.complete \/ anchor.root = None -> Failed("input_validation")
         [] anchor.complete /\ anchor.root \notin {None, file.root} ->
                Failed("anchor_merkle_root_match")
         [] anchor.complete /\ anchor.root = file.root /\ file.batch # anchor.batch ->
                Failed("batch_id_match")
         [] OTHER -> result' = [status |-> "PASS", step |-> "all"] /\ pc' = "done"
    /\ UNCHANGED <<inputs, current, pos>>

Next ==
    \/ Serve \/ Anchor \/ FetchFails
    \/ /\ pc = "served"
       /\ \E f \in Files, a \in AnchorRecords, e \in Events \cup {Wrapper} :
            Verify(e, f, a) \/ VerifyFetching(e, f, a)
    \/ CheckHash \/ CheckSignature \/ FoldStep \/ FoldReturn \/ CheckAnchor

Spec == Init /\ [][Next]_vars

--------------------------------------------------------------------------
(* Properties. *)

\* docs/15-independent-verifier.md, a PASS is evidence: the event is signed by
\* its agent and is one of the events of the batch that the anchor record is
\* of, whatever the proof file says of hash, path, root and batch.  That rests
\* on a root the record has itself.  A fetched record without one takes the
\* proof's (verifier.py:352) and adds nothing to it: then the event is in the
\* batch if the file is what the server served.
PassIsEvidence ==
    pc = "done" /\ result.status = "PASS" =>
        /\ event.signed
        /\ ~anchor.filled \/ file = Served => event.rank \in EventsOf(anchor.batch)

\* A failed check names an input that is really at fault: for every size of
\* batch and every place in it, the signed event with the proof and the anchor
\* record that were served passes, and one fault is not blamed on another input.
BlameIsRight ==
    pc = "done" /\ result.status = "FAIL" =>
        CASE result.step = "proof_event_hash_match" ->
                event.rank # leaves[target] \/ file # Served
          [] result.step = "ed25519_signature" ->
                ~event.signed /\ (file = Served => event.rank = leaves[target])
          [] result.step = "merkle_inclusion_proof" -> file # Served
          [] result.step = "input_validation" ->
                file.malformed # "none" \/ ~anchor.complete \/ anchor.root = None
          [] result.step \in {"anchor_merkle_root_match", "batch_id_match"} ->
                file # Served \/ anchor.batch = "other"
          [] result.step = "fetch" -> ~anchored
          [] OTHER -> FALSE

==========================================================================
