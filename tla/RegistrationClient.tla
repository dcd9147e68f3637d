------------------------ MODULE RegistrationClient ------------------------
(***************************************************************************)
(* `veriagent register request | prove | claim` against Registration.  A   *)
(* command is one POST (prove may read the status first); the answer can   *)
(* be lost on the way, and claim can fail to write the key it was handed.  *)
(* An applicant who never got the answer of request does not know the      *)
(* request_id, and can only apply again once the first request is expired. *)
(***************************************************************************)
EXTENDS Registration

VARIABLES
    known,      \* the request_id an applicant has
    saved       \* the API key an applicant has

clientVars == <<vars, known, saved>>

ClientTypeOK ==
    /\ RegTypeOK
    /\ known \in [Dids -> Requests \cup {None}]
    /\ saved \in [Dids -> Requests \cup {None, AdminKey}]

ClientInit ==
    /\ Init
    /\ known = [d \in Dids |-> None]
    /\ saved = [d \in Dids |-> None]

--------------------------------------------------------------------------
(* The commands. *)

Known(r) == \E d \in Dids : known[d] = r

\* create_registration_request.  Bound: a request expires before the clock
\* ends.
Apply(w, r, d) ==
    /\ now + TTL < MaxTime
    /\ BeginCreate(w, r, d)
    /\ UNCHANGED <<known, saved>>

\* The request's row is committed and its request_id arrives, or does not.
Applied(w) ==
    /\ InsertRequest(w)
    /\ known' \in {known} \cup
            {[known EXCEPT ![op[w].did] = r] : r \in {r \in Requests : req'[r] # req[r]}}
    /\ UNCHANGED saved

\* submit_registration_proof; its GET of the status is a Poll.
Prove(w, r) ==
    /\ Known(r)
    /\ BeginProof(w, r)
    /\ UNCHANGED <<known, saved>>

\* claim_registration_credentials: the key is saved, or the answer is lost or
\* --output-key-file cannot be written.
ClaimKey(r) ==
    /\ Known(r)
    /\ Claim(r)
    /\ saved' \in {saved, [saved EXCEPT ![req[r].did] = req[r].key]}
    /\ UNCHANGED known

\* The admin registers an agent and gives it the key that the answer holds.
Enrol(d) ==
    /\ RegisterAgent(d)
    /\ saved' \in {saved, [saved EXCEPT ![d] = AdminKey]}
    /\ UNCHANGED known

Serve ==
    /\ \/ \E w \in Workers :
            \/ ReadRequest(w) \/ WriteProof(w) \/ MarkExpired(w) \/ Approve(w)
            \/ \E r \in Requests : BeginApprove(w, r)
       \/ \E r \in Requests : Reject(r)
       \/ Poll \/ Tick \/ Crash
    /\ UNCHANGED <<known, saved>>

ClientNext ==
    \/ Serve
    \/ \E w \in Workers :
        \/ Applied(w)
        \/ \E r \in Requests : Prove(w, r) \/ \E d \in Dids : Apply(w, r, d)
    \/ \E r \in Requests : ClaimKey(r)
    \/ \E d \in Dids : Enrol(d)

\* Time passes and somebody reads a request: an applicant or the admin's
\* console, of this DID or another.  Nothing else is fair.
FairClientSpec ==
    ClientInit /\ [][ClientNext]_clientVars
    /\ WF_clientVars(Tick /\ UNCHANGED <<known, saved>>)
    /\ WF_clientVars(Poll /\ UNCHANGED <<known, saved>>)

--------------------------------------------------------------------------
(* Properties. *)

\* The API key that an applicant ends up with is the one its DID is
\* authenticated by, through lost answers, second requests and an admin who
\* registers the same DID.
SavedKeyWorks == \A d \in Dids : saved[d] # None => agents[d] = saved[d]

\* docs/14-registration-workflow.md:227, a request whose applicant is gone
\* (the answer of create was lost, the proof never sent) does not block its
\* DID for ever: it ends when its time is over, and a new one is accepted.
Released(d) == ~ \E r \in Requests : Pending(r) /\ req[r].did = d /\ known[d] # r
AbandonedIsReleased == \A d \in Dids : []<>Released(d)

==========================================================================
