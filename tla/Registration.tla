--------------------------- MODULE Registration ---------------------------
(***************************************************************************)
(* Self-service registration: backend/app/registration.py over the tables  *)
(* registration_requests and agents of storage.py.  An applicant opens a   *)
(* request for a DID, proves control of it before the challenge expires,   *)
(* an admin approves or rejects, and the applicant claims the API key.     *)
(*                                                                         *)
(* A handler is cut at the accesses between which another thread can run:  *)
(* a SELECT and the UPDATE after it are two steps, a BEGIN IMMEDIATE       *)
(* transaction is one.  A read that can only end the handler early is      *)
(* merged with the next one that checks the same.                          *)
(***************************************************************************)
EXTENDS Naturals, FiniteSets

CONSTANTS
    Requests,   \* request identifiers; the key approve generates for r is r
    Dids,
    Workers,    \* request-handling threads
    None,       \* a NULL column, a free worker
    AdminKey,   \* the key POST /agents/register hands to its caller
    TTL,        \* VERIAGENT_REGISTRATION_CHALLENGE_TTL_MINUTES
    MaxTime     \* bound of the clock

ASSUME RegistrationAssumption ==
    /\ None \notin Requests /\ AdminKey \notin Requests /\ None # AdminKey
    /\ None \notin Dids
    /\ TTL \in Nat \ {0}
    /\ MaxTime \in Nat

VARIABLES
    now,
    req,        \* registration_requests
    agents,     \* agents: the key whose hash the row of a DID holds
    handed,     \* how often the key of a request left the server
    op          \* the handler each worker is in

vars == <<now, req, agents, handed, op>>

Statuses == {"none", "pending", "approved", "rejected", "expired"}
Terminal == {"approved", "rejected", "expired"}

NoRequest == [status |-> "none", did |-> None, expires |-> 0,
              proof |-> FALSE, key |-> None, retrieved |-> FALSE]

Rows == [status : Statuses, did : Dids \cup {None}, expires : Nat, proof : BOOLEAN,
         key : Requests \cup {None}, retrieved : BOOLEAN]

Free == [pc |-> "idle", r |-> None, did |-> None, now |-> 0]

Ops == [pc : {"idle", "insert", "read", "mark", "prove", "approve"},
        r : Requests \cup {None}, did : Dids \cup {None}, now : Nat]

RegTypeOK ==
    /\ now \in 0..MaxTime
    /\ req \in [Requests -> Rows]
    /\ agents \in [Dids -> Requests \cup {None, AdminKey}]
    /\ handed \in [Requests -> {0, 1}]
    /\ op \in [Workers -> Ops]
    /\ \A w \in Workers :
        /\ op[w].pc # "idle" => op[w].r \in Requests
        /\ op[w].pc = "insert" => op[w].did \in Dids

Init ==
    /\ now = 0
    /\ req = [r \in Requests |-> NoRequest]
    /\ agents = [d \in Dids |-> None]
    /\ handed = [r \in Requests |-> 0]
    /\ op = [w \in Workers |-> Free]

Pending(r) == req[r].status = "pending"

\* Mutated form: only requests that were proved are looked at.
ExpireStaleProved(rows) ==
    [r \in Requests |->
        IF rows[r].status = "pending" /\ rows[r].proof /\ rows[r].expires < now
        THEN [rows[r] EXCEPT !.status = "expired"] ELSE rows[r]]

\* expire_stale_requests: strictly past the expiry.
ExpireStale(rows) ==
    [r \in Requests |->
        IF rows[r].status = "pending" /\ rows[r].expires < now
        THEN [rows[r] EXCEPT !.status = "expired"] ELSE rows[r]]

Begin(w, pc, r, d, t) == op' = [op EXCEPT ![w] = [pc |-> pc, r |-> r, did |-> d, now |-> t]]
Return(w) == op' = [op EXCEPT ![w] = Free]

--------------------------------------------------------------------------
(* create_registration_request_with_challenge *)

\* get_agent finds no agent of that DID; the challenge is issued.
BeginCreate(w, r, d) ==
    /\ op[w].pc = "idle"
    /\ req[r].status = "none" /\ \A v \in Workers : op[v].r # r
    /\ agents[d] = None
    /\ Begin(w, "insert", r, d, now)
    /\ UNCHANGED <<now, req, agents, handed>>

\* The unique index refuses a second pending request for the DID, even one
\* past its expiry that nothing has marked yet.
InsertRequest(w) ==
    /\ op[w].pc = "insert"
    /\ IF \E r \in Requests : Pending(r) /\ req[r].did = op[w].did
       THEN UNCHANGED req
       ELSE req' = [req EXCEPT ![op[w].r] =
                [NoRequest EXCEPT !.status = "pending", !.did = op[w].did,
                                  !.expires = op[w].now + TTL]]
    /\ Return(w)
    /\ UNCHANGED <<now, agents, handed>>

--------------------------------------------------------------------------
(* submit_registration_request_proof *)

BeginProof(w, r) ==
    /\ op[w].pc = "idle" /\ req[r].status # "none"
    /\ req' = ExpireStale(req)
    /\ Begin(w, "read", r, None, 0)
    /\ UNCHANGED <<now, agents, handed>>

\* The request is read: one past its expiry (now >= expires) is to be
\* marked, another takes the proof when the signature verifies.
ReadRequest(w) ==
    /\ op[w].pc = "read"
    /\ \/ ~Pending(op[w].r) /\ Return(w)
       \/ Pending(op[w].r) /\ now >= req[op[w].r].expires /\ op' = [op EXCEPT ![w].pc = "mark"]
       \/ Pending(op[w].r) /\ now < req[op[w].r].expires
            /\ \/ op' = [op EXCEPT ![w].pc = "prove"]
               \/ Return(w)
    /\ UNCHANGED <<now, req, agents, handed>>

\* The UPDATE of submit_registration_proof: its WHERE names the request only.
WriteProof(w) ==
    /\ op[w].pc = "prove"
    /\ req' = [req EXCEPT ![op[w].r].proof = TRUE]
    /\ Return(w)
    /\ UNCHANGED <<now, agents, handed>>

\* Mutated form: the row is reset, its key with it.
MarkExpiredResets(w) ==
    /\ op[w].pc = "mark"
    /\ req' = [req EXCEPT ![op[w].r].status = "expired", ![op[w].r].key = None]
    /\ Return(w)
    /\ UNCHANGED <<now, agents, handed>>

\* The UPDATE of mark_registration_request_expired: likewise.
MarkExpired(w) ==
    /\ op[w].pc = "mark"
    /\ req' = [req EXCEPT ![op[w].r].status = "expired"]
    /\ Return(w)
    /\ UNCHANGED <<now, agents, handed>>

--------------------------------------------------------------------------
(* approve_registration_request_by_admin, reject, claim *)

\* The clock is read before the transaction begins.
BeginApprove(w, r) ==
    /\ op[w].pc = "idle" /\ req[r].status # "none"
    /\ req' = ExpireStale(req)
    /\ Begin(w, "approve", r, None, now)
    /\ UNCHANGED <<now, agents, handed>>

Approved(r) == [req EXCEPT ![r].status = "approved", ![r].key = r]

\* Mutated forms: the status, the proof, the agent is not looked at.
ApproveAnyStatus(w) ==
    /\ op[w].pc = "approve"
    /\ LET r == op[w].r  d == req[op[w].r].did IN
        IF req[r].proof /\ op[w].now < req[r].expires /\ agents[d] = None
        THEN req' = Approved(r) /\ agents' = [agents EXCEPT ![d] = r]
        ELSE UNCHANGED <<req, agents>>
    /\ Return(w)
    /\ UNCHANGED <<now, handed>>

ApproveUnproved(w) ==
    /\ op[w].pc = "approve"
    /\ LET r == op[w].r  d == req[op[w].r].did IN
        IF Pending(r) /\ op[w].now < req[r].expires /\ agents[d] = None
        THEN req' = Approved(r) /\ agents' = [agents EXCEPT ![d] = r]
        ELSE UNCHANGED <<req, agents>>
    /\ Return(w)
    /\ UNCHANGED <<now, handed>>

ApproveIgnoresAgent(w) ==
    /\ op[w].pc = "approve"
    /\ LET r == op[w].r  d == req[op[w].r].did IN
        IF Pending(r) /\ req[r].proof /\ op[w].now < req[r].expires
        THEN req' = Approved(r) /\ agents' = [agents EXCEPT ![d] = IF @ = None THEN r ELSE @]
        ELSE UNCHANGED <<req, agents>>
    /\ Return(w)
    /\ UNCHANGED <<now, handed>>

\* approve_registration_request, under BEGIN IMMEDIATE.
Approve(w) ==
    /\ op[w].pc = "approve"
    /\ LET r == op[w].r
           d == req[r].did
           proved == Pending(r) /\ req[r].proof
           late == op[w].now >= req[r].expires IN
        \/ proved /\ ~late /\ agents[d] = None
            /\ req' = Approved(r)
            /\ agents' = [agents EXCEPT ![d] = r]
        \/ proved /\ late
            /\ req' = [req EXCEPT ![r].status = "expired"]
            /\ UNCHANGED agents
        \/ (~proved \/ (~late /\ agents[d] # None)) /\ UNCHANGED <<req, agents>>
    /\ Return(w)
    /\ UNCHANGED <<now, handed>>

\* The UPDATE's WHERE has the status.
Reject(r) ==
    /\ Pending(r)
    /\ req' = [req EXCEPT ![r].status = "rejected"]
    /\ UNCHANGED <<now, agents, handed, op>>

\* Mutated form: the retrieval is recorded, the key stays and is served again.
ClaimServesAgain(r) ==
    /\ req[r].status = "approved"
    /\ req[r].key # None
    /\ req' = [req EXCEPT ![r].retrieved = TRUE]
    /\ handed' = [handed EXCEPT ![req[r].key] = @ + 1]
    /\ UNCHANGED <<now, agents, op>>

\* consume_registration_pending_api_key, under BEGIN IMMEDIATE, for an
\* applicant whose signature and token verify.
Claim(r) ==
    /\ req[r].status = "approved"
    /\ ~req[r].retrieved
    /\ req[r].key # None
    /\ req' = [req EXCEPT ![r].key = None, ![r].retrieved = TRUE]
    /\ handed' = [handed EXCEPT ![req[r].key] = @ + 1]
    /\ UNCHANGED <<now, agents, op>>

--------------------------------------------------------------------------

\* GET /registration/requests and /registration/requests/{request_id}
Poll ==
    /\ req' = ExpireStale(req)
    /\ UNCHANGED <<now, agents, handed, op>>

\* POST /agents/register
RegisterAgent(d) ==
    /\ agents[d] = None
    /\ agents' = [agents EXCEPT ![d] = AdminKey]
    /\ UNCHANGED <<now, req, handed, op>>

Tick ==
    /\ now < MaxTime
    /\ now' = now + 1
    /\ UNCHANGED <<req, agents, handed, op>>

\* The process restarts: handlers are gone, the database stays.
Crash ==
    /\ op' = [w \in Workers |-> Free]
    /\ UNCHANGED <<now, req, agents, handed>>

Handle(w) ==
    \/ InsertRequest(w) \/ ReadRequest(w) \/ WriteProof(w) \/ MarkExpired(w) \/ Approve(w)

Next ==
    \/ \E w \in Workers :
        \/ Handle(w)
        \/ \E r \in Requests :
            \/ BeginProof(w, r) \/ BeginApprove(w, r)
            \/ \E d \in Dids : BeginCreate(w, r, d)
    \/ \E r \in Requests : Reject(r) \/ Claim(r)
    \/ \E d \in Dids : RegisterAgent(d)
    \/ Poll \/ Tick \/ Crash

Spec == Init /\ [][Next]_vars

--------------------------------------------------------------------------
(* Properties. *)

\* docs/14-registration-workflow.md:225, an agent row that approval created
\* belongs to a request for that DID whose proof was accepted, whichever
\* proofs, expiries and reviews ran beside it.
AgentFromProof ==
    \A d \in Dids, r \in Requests :
        agents[d] = r => req[r].did = d /\ req[r].proof

\* docs/03-api.md:559, the key of an agent is handed out once: until then
\* its only copy is kept with the request, after that it is gone.
KeyAccounted ==
    \A d \in Dids, r \in Requests :
        agents[d] = r => \/ handed[r] = 0 /\ req[r].key = r
                         \/ handed[r] = 1 /\ req[r].key = None

\* The key an applicant is handed is the one the agents table authenticates.
HandedKeyWorks == \A r \in Requests : handed[r] > 0 => agents[req[r].did] = r

\* The inductive invariant behind the three: a key still stored is the one
\* of that request and of its agent, a request with an agent is past
\* pending, and the handlers under way know what they have read.
KeyIsOwn ==
    \A r \in Requests :
        req[r].key # None => req[r].key = r /\ agents[req[r].did] = r

AgentIsPastPending ==
    \A d \in Dids, r \in Requests :
        agents[d] = r => req[r].status \notin {"none", "pending"}

RowsHaveDids ==
    \A r \in Requests : IF req[r].status = "none" THEN handed[r] = 0 /\ req[r].key = None
                         ELSE req[r].did \in Dids

OpsOK ==
    /\ \A w \in Workers :
        /\ op[w].pc = "insert" => req[op[w].r].status = "none"
        /\ op[w].pc \notin {"idle", "insert"} => req[op[w].r].status # "none"
    /\ \A v, w \in Workers :
        op[v].pc = "insert" /\ op[w].pc = "insert" /\ op[v].r = op[w].r => v = w

RegInv ==
    /\ RegTypeOK
    /\ AgentFromProof /\ KeyAccounted /\ HandedKeyWorks
    /\ KeyIsOwn /\ AgentIsPastPending /\ RowsHaveDids /\ OpsOK

\* A request that was decided or has expired is never pending again and is
\* never approved or rejected after that (expiry may still overwrite it).
NeverReopened ==
    [][\A r \in Requests : req[r].status \in Terminal =>
        req'[r].status \in {req[r].status, "expired"}]_vars

\* docs/03-api.md:477, "(terminal)": approved, rejected and expired are final.
TerminalIsFinal ==
    [][\A r \in Requests : req[r].status \in Terminal => req'[r].status = req[r].status]_vars

==========================================================================
