------------------------ MODULE RegistrationProofs ------------------------
(***************************************************************************)
(* Proofs about registration, for any number of requests, DIDs and         *)
(* threads, any time to live and any clock.                                *)
(*                                                                         *)
(* Most handlers only move a request's status and leave its key, its DID   *)
(* and the agents alone: RowsKept settles these at once.  What remains is  *)
(* the insertion, the approval, the claim and the direct registration.     *)
(***************************************************************************)
EXTENDS RegistrationClient, TLAPS

USE RegistrationAssumption

\* The parts of RegInv about the tables, and about the handlers.
TablesOK ==
    /\ AgentFromProof /\ KeyAccounted /\ HandedKeyWorks
    /\ KeyIsOwn /\ AgentIsPastPending /\ RowsHaveDids

LEMMA InitEstablishes == Init => RegInv
BY DEF Init, RegInv, RegTypeOK, Rows, NoRequest, Free, Ops, Statuses, AgentFromProof, KeyAccounted,
       HandedKeyWorks, KeyIsOwn, AgentIsPastPending, RowsHaveDids, OpsOK

\* A step that keeps every key and DID, never withdraws a proof, and takes
\* a status only forward.
LEMMA RowsKept ==
    ASSUME RegInv, UNCHANGED <<agents, handed>>, req' \in [Requests -> Rows],
           \A r \in Requests :
              /\ req'[r].did = req[r].did /\ req'[r].key = req[r].key
              /\ req[r].proof => req'[r].proof
              /\ req'[r].status = "none" => req[r].status = "none"
              /\ req'[r].status = "pending" => req[r].status = "pending"
              /\ req[r].status = "none" => req'[r].status = "none"
    PROVE  TablesOK'
<1>1. AgentFromProof' /\ AgentIsPastPending' /\ RowsHaveDids'
  BY DEF RegInv, RegTypeOK, AgentFromProof, AgentIsPastPending, RowsHaveDids
<1>2. KeyAccounted' /\ HandedKeyWorks' /\ KeyIsOwn'
  BY DEF RegInv, RegTypeOK, KeyAccounted, HandedKeyWorks, KeyIsOwn
<1> QED BY <1>1, <1>2 DEF TablesOK

\* A handler returns, or goes on with a request that exists; no request
\* comes into being or goes.
LEMMA OpsKept ==
    ASSUME RegInv, NEW w \in Workers, NEW o \in Ops, op' = [op EXCEPT ![w] = o],
           o.pc # "insert",
           o.pc # "idle" => o.r \in Requests /\ req[o.r].status # "none",
           \A r \in Requests : req'[r].status = "none" <=> req[r].status = "none"
    PROVE  OpsOK' /\ op' \in [Workers -> Ops]
           /\ \A v \in Workers : /\ op'[v].pc # "idle" => op'[v].r \in Requests
                                 /\ op'[v].pc = "insert" => op'[v].did \in Dids
<1>1. op' \in [Workers -> Ops]
  BY DEF RegInv, RegTypeOK
<1>2. \A v \in Workers : op'[v] = IF v = w THEN o ELSE op[v]
  BY DEF RegInv, RegTypeOK
<1>3. \A v \in Workers : /\ op'[v].pc # "idle" => op'[v].r \in Requests
                         /\ op'[v].pc = "insert" => op'[v].did \in Dids
  BY <1>2 DEF RegInv, RegTypeOK
<1>4. OpsOK'
  BY <1>2, <1>3 DEF RegInv, RegTypeOK, OpsOK
<1> QED BY <1>1, <1>3, <1>4

LEMMA FreeIsOp == Free \in Ops /\ Free.pc = "idle"
BY DEF Free, Ops

\* An UPDATE of the status of a row.
LEMMA SetsStatus ==
    ASSUME NEW row \in Rows, NEW s \in Statuses
    PROVE  LET new == [row EXCEPT !.status = s] IN
           /\ new \in Rows /\ new.status = s
           /\ new.did = row.did /\ new.key = row.key /\ new.proof = row.proof
BY DEF Rows

\* One row is replaced.
LEMMA RowReplaced ==
    ASSUME RegInv, NEW q \in Requests, NEW new \in Rows, req' = [req EXCEPT ![q] = new]
    PROVE  /\ req' \in [Requests -> Rows]
           /\ \A r \in Requests : req'[r] = IF r = q THEN new ELSE req[r]
BY DEF RegInv, RegTypeOK

LEMMA ExpireKeeps ==
    ASSUME RegInv, req' = ExpireStale(req)
    PROVE  /\ req' \in [Requests -> Rows]
           /\ \A r \in Requests :
                 /\ req'[r].did = req[r].did /\ req'[r].key = req[r].key /\ req'[r].proof = req[r].proof
                 /\ req'[r].status = req[r].status \/ (req[r].status = "pending" /\ req'[r].status = "expired")
<1>1. \A r \in Requests : req[r] \in Rows
  BY DEF RegInv, RegTypeOK
<1>2. \A r \in Requests : req'[r] = IF req[r].status = "pending" /\ req[r].expires < now
                                   THEN [req[r] EXCEPT !.status = "expired"] ELSE req[r]
  BY DEF ExpireStale
<1>3. ASSUME NEW r \in Requests PROVE req'[r] \in Rows
  <2>1. [req[r] EXCEPT !.status = "expired"] \in Rows
    BY <1>1, SetsStatus DEF Statuses
  <2> QED BY <1>1, <1>2, <2>1
<1>4. req' \in [Requests -> Rows]
  BY <1>3 DEF ExpireStale
<1>5. SUFFICES ASSUME NEW r \in Requests
               PROVE  /\ req'[r].did = req[r].did /\ req'[r].key = req[r].key /\ req'[r].proof = req[r].proof
                      /\ req'[r].status = req[r].status \/ (req[r].status = "pending" /\ req'[r].status = "expired")
  BY <1>4
<1>6. CASE req[r].status = "pending" /\ req[r].expires < now
  <2>1. req'[r] = [req[r] EXCEPT !.status = "expired"]
    BY <1>2, <1>6
  <2> QED BY <1>1, <1>6, <2>1, SetsStatus DEF Statuses
<1>7. CASE ~(req[r].status = "pending" /\ req[r].expires < now)
  <2>1. req'[r] = req[r]
    BY <1>2, <1>7
  <2> QED BY <2>1
<1> QED BY <1>6, <1>7

--------------------------------------------------------------------------
(* One lemma per kind of step. *)

LEMMA ReadersStep ==
    ASSUME RegInv, NEW w \in Workers, NEW r \in Requests, BeginProof(w, r) \/ BeginApprove(w, r)
    PROVE  RegInv'
<1>1. PICK o \in Ops : op' = [op EXCEPT ![w] = o] /\ o.r = r /\ o.pc \in {"read", "approve"}
  <2>1. CASE BeginProof(w, r)
    <3> DEFINE o == [pc |-> "read", r |-> r, did |-> None, now |-> 0]
    <3>1. o \in Ops /\ o.r = r /\ o.pc = "read"
      BY DEF Ops
    <3> QED BY <2>1, <3>1 DEF BeginProof, Begin
  <2>2. CASE BeginApprove(w, r)
    <3> DEFINE o == [pc |-> "approve", r |-> r, did |-> None, now |-> now]
    <3>1. o \in Ops /\ o.r = r /\ o.pc = "approve"
      BY DEF Ops, RegInv, RegTypeOK
    <3> QED BY <2>2, <3>1 DEF BeginApprove, Begin
  <2> QED BY <2>1, <2>2
<1>2. req' = ExpireStale(req) /\ UNCHANGED <<now, agents, handed>> /\ req[r].status # "none"
  BY DEF BeginProof, BeginApprove
<1>3. /\ req' \in [Requests -> Rows]
      /\ \A q \in Requests :
            /\ req'[q].did = req[q].did /\ req'[q].key = req[q].key /\ req'[q].proof = req[q].proof
            /\ req'[q].status = req[q].status \/ (req[q].status = "pending" /\ req'[q].status = "expired")
  BY <1>2, ExpireKeeps
<1>4. TablesOK'
  BY <1>2, <1>3, RowsKept
<1>5. OpsOK' /\ op' \in [Workers -> Ops]
      /\ \A v \in Workers : /\ op'[v].pc # "idle" => op'[v].r \in Requests
                            /\ op'[v].pc = "insert" => op'[v].did \in Dids
  BY <1>1, <1>2, <1>3, OpsKept
<1> QED BY <1>2, <1>3, <1>4, <1>5 DEF RegInv, RegTypeOK, TablesOK

LEMMA CreateStep ==
    ASSUME RegInv, NEW w \in Workers, NEW r \in Requests, NEW d \in Dids, BeginCreate(w, r, d)
    PROVE  RegInv'
<1>1. op' = [op EXCEPT ![w] = [pc |-> "insert", r |-> r, did |-> d, now |-> now]]
  BY DEF BeginCreate, Begin
<1>2. \A v \in Workers : op'[v] = IF v = w THEN [pc |-> "insert", r |-> r, did |-> d, now |-> now] ELSE op[v]
  BY <1>1 DEF RegInv, RegTypeOK
<1>3. UNCHANGED <<now, req, agents, handed>> /\ req[r].status = "none" /\ \A v \in Workers : op[v].r # r
  BY DEF BeginCreate
<1>4. RegTypeOK'
  <2>1. [pc |-> "insert", r |-> r, did |-> d, now |-> now] \in Ops
    BY DEF Ops, RegInv, RegTypeOK
  <2> QED BY <1>1, <1>2, <1>3, <2>1 DEF RegInv, RegTypeOK
<1>5. OpsOK'
  BY <1>2, <1>3 DEF RegInv, RegTypeOK, OpsOK
<1>6. TablesOK'
  BY <1>3, RowsKept DEF RegInv, RegTypeOK
<1> QED BY <1>4, <1>5, <1>6 DEF RegInv, TablesOK

LEMMA InsertStep ==
    ASSUME RegInv, NEW w \in Workers, InsertRequest(w)
    PROVE  RegInv'
<1> DEFINE q == op[w].r
           d == op[w].did
           row == [status |-> "pending", did |-> d, expires |-> op[w].now + TTL,
                   proof |-> FALSE, key |-> None, retrieved |-> FALSE]
<1>1. q \in Requests /\ d \in Dids /\ req[q].status = "none" /\ op[w] \in Ops
  BY DEF InsertRequest, RegInv, RegTypeOK, OpsOK
<1>2. op' = [op EXCEPT ![w] = Free] /\ UNCHANGED <<now, agents, handed>>
  BY DEF InsertRequest, Return
<1>3. \A v \in Workers : op'[v] = IF v = w THEN Free ELSE op[v]
  BY <1>2 DEF RegInv, RegTypeOK
<1>4. CASE UNCHANGED req
  <2>1. TablesOK'
    BY <1>2, <1>4, RowsKept DEF RegInv, RegTypeOK
  <2>2. OpsOK' /\ op' \in [Workers -> Ops]
        /\ \A v \in Workers : /\ op'[v].pc # "idle" => op'[v].r \in Requests
                              /\ op'[v].pc = "insert" => op'[v].did \in Dids
    BY <1>2, <1>4, FreeIsOp, OpsKept
  <2> QED BY <1>2, <1>4, <2>1, <2>2 DEF RegInv, RegTypeOK, TablesOK
<1>5. CASE req' = [req EXCEPT ![q] = row]
  <2>1. \A r \in Requests : req'[r] = IF r = q THEN row ELSE req[r]
    BY <1>1, <1>5 DEF RegInv, RegTypeOK
  <2>2. row \in Rows
    BY <1>1 DEF Rows, Statuses, Ops
  <2>3. RegTypeOK'
    BY <1>1, <1>2, <1>3, <1>5, <2>2, FreeIsOp DEF RegInv, RegTypeOK
  <2>4. row.status = "pending" /\ row.did = d /\ row.key = None /\ row.proof = FALSE
    OBVIOUS
  <2> HIDE DEF row, q, d
  <2>5. \A e \in Dids : agents[e] # q
    BY <1>1 DEF RegInv, AgentIsPastPending
  <2>6. handed[q] = 0
    BY <1>1 DEF RegInv, RowsHaveDids
  <2>7. TablesOK'
    <3>1. AgentFromProof' /\ AgentIsPastPending' /\ KeyAccounted'
      BY <1>2, <2>1, <2>5 DEF RegInv, AgentFromProof, AgentIsPastPending, KeyAccounted
    <3>2. HandedKeyWorks' /\ KeyIsOwn' /\ RowsHaveDids'
      BY <1>1, <1>2, <2>1, <2>4, <2>6 DEF RegInv, HandedKeyWorks, KeyIsOwn, RowsHaveDids
    <3> QED BY <3>1, <3>2 DEF TablesOK
  <2>8. OpsOK'
    <3>1. \A v \in Workers : v # w /\ op[v].pc = "insert" => op[v].r # q
      BY DEF RegInv, OpsOK, InsertRequest, q
    <3>2. \A v \in Workers : op[v].pc # "idle" => op[v].r \in Requests
      BY DEF RegInv, RegTypeOK
    <3> QED BY <1>3, <2>1, <2>4, <3>1, <3>2, FreeIsOp DEF RegInv, OpsOK
  <2> QED BY <2>3, <2>7, <2>8 DEF RegInv, TablesOK
<1> QED BY <1>4, <1>5 DEF InsertRequest, NoRequest

LEMMA ReadStep ==
    ASSUME RegInv, NEW w \in Workers, ReadRequest(w)
    PROVE  RegInv'
<1>1. op[w] \in Ops /\ op[w].r \in Requests /\ req[op[w].r].status # "none"
  BY DEF ReadRequest, RegInv, RegTypeOK, OpsOK
<1>2. UNCHANGED <<now, req, agents, handed>>
  BY DEF ReadRequest
<1>3. PICK o \in Ops : /\ op' = [op EXCEPT ![w] = o] /\ o.pc # "insert"
                       /\ o.pc # "idle" => o.r \in Requests /\ req[o.r].status # "none"
  <2>1. CASE Return(w)
    BY <2>1, FreeIsOp DEF Return
  <2>2. ASSUME NEW c \in {"mark", "prove"}, op' = [op EXCEPT ![w].pc = c]
        PROVE  \E o \in Ops : /\ op' = [op EXCEPT ![w] = o] /\ o.pc # "insert"
                              /\ o.pc # "idle" => o.r \in Requests /\ req[o.r].status # "none"
    <3> DEFINE o == [op[w] EXCEPT !.pc = c]
    <3>1. o \in Ops /\ o.pc = c /\ o.r = op[w].r
      BY <1>1 DEF Ops
    <3>2. op' = [op EXCEPT ![w] = o]
      BY <2>2
    <3> QED BY <1>1, <3>1, <3>2
  <2> QED BY <2>1, <2>2 DEF ReadRequest
<1>4. TablesOK'
  BY <1>2, RowsKept DEF RegInv, RegTypeOK
<1>5. OpsOK' /\ op' \in [Workers -> Ops]
      /\ \A v \in Workers : /\ op'[v].pc # "idle" => op'[v].r \in Requests
                            /\ op'[v].pc = "insert" => op'[v].did \in Dids
  BY <1>2, <1>3, OpsKept
<1> QED BY <1>2, <1>4, <1>5 DEF RegInv, RegTypeOK, TablesOK

\* An UPDATE that sets the proof, or the status of a request that exists.
LEMMA UpdateStep ==
    ASSUME RegInv, NEW w \in Workers, WriteProof(w) \/ MarkExpired(w)
    PROVE  RegInv'
<1> DEFINE q == op[w].r
<1>1. q \in Requests /\ req[q].status # "none"
  BY DEF WriteProof, MarkExpired, RegInv, RegTypeOK, OpsOK
<1>2. op' = [op EXCEPT ![w] = Free] /\ UNCHANGED <<now, agents, handed>>
  BY DEF WriteProof, MarkExpired, Return
<1>3. /\ req' \in [Requests -> Rows]
      /\ \A r \in Requests :
            /\ req'[r].did = req[r].did /\ req'[r].key = req[r].key
            /\ req[r].proof => req'[r].proof
            /\ req'[r].status = req[r].status \/ (r = q /\ req'[r].status = "expired")
  <2>1. CASE WriteProof(w)
    <3>1. req[q] \in Rows /\ req' = [req EXCEPT ![q] = [req[q] EXCEPT !.proof = TRUE]]
      BY <1>1, <2>1 DEF WriteProof, RegInv, RegTypeOK
    <3> DEFINE new == [req[q] EXCEPT !.proof = TRUE]
    <3>2. new \in Rows /\ new.proof = TRUE /\ new.did = req[q].did /\ new.key = req[q].key
          /\ new.status = req[q].status
      BY <3>1 DEF Rows
    <3> HIDE DEF new, q
    <3>3. req' = [req EXCEPT ![q] = new]
      BY <3>1 DEF new
    <3>4. /\ req' \in [Requests -> Rows]
          /\ \A r \in Requests : req'[r] = IF r = q THEN new ELSE req[r]
      BY <1>1, <3>2, <3>3, RowReplaced
    <3> QED BY <3>2, <3>4
  <2>2. CASE MarkExpired(w)
    <3> DEFINE new == [req[q] EXCEPT !.status = "expired"]
    <3>1. req[q] \in Rows /\ req' = [req EXCEPT ![q] = new]
      BY <1>1, <2>2 DEF MarkExpired, RegInv, RegTypeOK
    <3>2. new \in Rows /\ new.status = "expired" /\ new.did = req[q].did /\ new.key = req[q].key
          /\ new.proof = req[q].proof
      BY <3>1, SetsStatus DEF Statuses
    <3> HIDE DEF new, q
    <3>3. /\ req' \in [Requests -> Rows]
          /\ \A r \in Requests : req'[r] = IF r = q THEN new ELSE req[r]
      BY <1>1, <3>1, <3>2, RowReplaced
    <3> QED BY <3>2, <3>3
  <2> QED BY <2>1, <2>2
<1>4. TablesOK'
  BY <1>1, <1>2, <1>3, RowsKept
<1>5. OpsOK' /\ op' \in [Workers -> Ops]
      /\ \A v \in Workers : /\ op'[v].pc # "idle" => op'[v].r \in Requests
                            /\ op'[v].pc = "insert" => op'[v].did \in Dids
  BY <1>1, <1>2, <1>3, FreeIsOp, OpsKept
<1> QED BY <1>2, <1>3, <1>4, <1>5 DEF RegInv, RegTypeOK, TablesOK

\* The decision that creates the agent: the request was pending, so no agent
\* has its key yet, and the DID had no agent, so no key is displaced.
LEMMA ApprovedTables ==
    ASSUME RegInv, NEW q \in Requests, Pending(q), req[q].proof, agents[req[q].did] = None,
           req' = Approved(q), agents' = [agents EXCEPT ![req[q].did] = q], UNCHANGED handed
    PROVE  /\ TablesOK'
           /\ req' \in [Requests -> Rows] /\ agents' \in [Dids -> Requests \cup {None, AdminKey}]
           /\ \A r \in Requests : req'[r].status = "none" <=> req[r].status = "none"
<1> DEFINE new == [req[q] EXCEPT !.status = "approved", !.key = q]
           d == req[q].did
<1>1. req[q] \in Rows /\ d \in Dids
  BY DEF RegInv, RegTypeOK, RowsHaveDids, Pending
<1>2. new \in Rows /\ new.status = "approved" /\ new.key = q /\ new.did = d /\ new.proof = TRUE
  BY <1>1 DEF Rows, Statuses
<1>3. req' = [req EXCEPT ![q] = new]
  BY <1>1 DEF Approved, RegInv, RegTypeOK
<1> HIDE DEF new
<1>4. /\ req' \in [Requests -> Rows]
      /\ \A r \in Requests : req'[r] = IF r = q THEN new ELSE req[r]
  BY <1>2, <1>3, RowReplaced
<1>5. /\ agents' \in [Dids -> Requests \cup {None, AdminKey}]
      /\ \A e \in Dids : agents'[e] = IF e = d THEN q ELSE agents[e]
  BY <1>1 DEF RegInv, RegTypeOK
<1>6. \A e \in Dids : agents[e] # q
  BY DEF RegInv, AgentIsPastPending, Pending
<1>7. handed[q] = 0
  <2>1. handed[q] \in {0, 1} /\ ~(handed[q] > 0)
    BY <1>1, <1>6 DEF RegInv, RegTypeOK, HandedKeyWorks
  <2> QED BY <2>1
<1>8. agents[d] = None /\ UNCHANGED handed
  OBVIOUS
<1> HIDE DEF d
<1>9. AgentFromProof' /\ AgentIsPastPending' /\ KeyAccounted'
  <2>1. AgentFromProof'
    <3>1. \A e \in Dids, r \in Requests : agents[e] = r => req[r].did = e /\ req[r].proof
      BY DEF RegInv, AgentFromProof
    <3>2. SUFFICES ASSUME NEW e \in Dids, NEW r \in Requests, agents'[e] = r
                   PROVE  req'[r].did = e /\ req'[r].proof
      BY DEF AgentFromProof
    <3>3. CASE r = q
      <4>1. e = d /\ req'[r] = new
        BY <1>4, <1>5, <1>6, <3>2, <3>3
      <4> QED BY <1>2, <4>1
    <3>4. CASE r # q
      <4>1. agents[e] = r /\ req'[r] = req[r]
        BY <1>4, <1>5, <3>2, <3>4
      <4> QED BY <3>1, <4>1
    <3> QED BY <3>3, <3>4
  <2>2. AgentIsPastPending'
    BY <1>2, <1>4, <1>5, <1>6 DEF RegInv, AgentIsPastPending
  <2>3. KeyAccounted'
    BY <1>2, <1>4, <1>5, <1>6, <1>7, <1>8 DEF RegInv, KeyAccounted
  <2> QED BY <2>1, <2>2, <2>3
<1>10. RowsHaveDids'
  BY <1>1, <1>2, <1>4, <1>8 DEF RegInv, RowsHaveDids
<1>11. HandedKeyWorks' /\ KeyIsOwn'
  <2>1. \A r \in Requests : r # q /\ agents[req[r].did] = r => req[r].did # d
    BY <1>8
  <2>2. \A r \in Requests : handed[r] > 0 => req[r].did \in Dids
    BY DEF RegInv, RegTypeOK, RowsHaveDids
  <2>4. HandedKeyWorks'
    BY <1>1, <1>2, <1>4, <1>5, <1>7, <1>8, <2>1, <2>2 DEF RegInv, HandedKeyWorks
  <2>5. KeyIsOwn'
    BY <1>1, <1>2, <1>4, <1>5, <2>1 DEF RegInv, RegTypeOK, KeyIsOwn
  <2> QED BY <2>4, <2>5
<1>12. \A r \in Requests : req'[r].status = "none" <=> req[r].status = "none"
  BY <1>2, <1>4 DEF Pending
<1> QED BY <1>4, <1>5, <1>9, <1>10, <1>11, <1>12 DEF TablesOK

LEMMA ApproveStep ==
    ASSUME RegInv, NEW w \in Workers, Approve(w)
    PROVE  RegInv'
<1> DEFINE q == op[w].r
<1>1. q \in Requests /\ req[q].status # "none" /\ req[q] \in Rows
  BY DEF Approve, RegInv, RegTypeOK, OpsOK
<1>2. op' = [op EXCEPT ![w] = Free] /\ UNCHANGED <<now, handed>>
  BY DEF Approve, Return
<1>3. /\ TablesOK'
      /\ req' \in [Requests -> Rows] /\ agents' \in [Dids -> Requests \cup {None, AdminKey}]
      /\ \A r \in Requests : req'[r].status = "none" <=> req[r].status = "none"
  <2>1. CASE /\ Pending(q) /\ req[q].proof /\ agents[req[q].did] = None
             /\ req' = Approved(q) /\ agents' = [agents EXCEPT ![req[q].did] = q]
    <3> HIDE DEF q
    <3> QED BY <1>1, <1>2, <2>1, ApprovedTables
  <2>2. CASE req' = [req EXCEPT ![q].status = "expired"] /\ UNCHANGED agents
    <3> DEFINE new == [req[q] EXCEPT !.status = "expired"]
    <3>1. new \in Rows /\ new.status = "expired" /\ new.did = req[q].did /\ new.key = req[q].key
          /\ new.proof = req[q].proof
      BY <1>1, SetsStatus DEF Statuses
    <3>2. req' = [req EXCEPT ![q] = new]
      BY <2>2
    <3> HIDE DEF new, q
    <3>3. /\ req' \in [Requests -> Rows]
          /\ \A r \in Requests : req'[r] = IF r = q THEN new ELSE req[r]
      BY <1>1, <3>1, <3>2, RowReplaced
    <3>4. TablesOK'
      BY <1>1, <1>2, <2>2, <3>1, <3>3, RowsKept
    <3> QED BY <1>1, <2>2, <3>1, <3>3, <3>4 DEF RegInv, RegTypeOK
  <2>3. CASE UNCHANGED <<req, agents>>
    <3>1. TablesOK'
      BY <1>2, <2>3, RowsKept DEF RegInv, RegTypeOK
    <3> QED BY <2>3, <3>1 DEF RegInv, RegTypeOK
  <2> QED BY <2>1, <2>2, <2>3 DEF Approve
<1>4. OpsOK' /\ op' \in [Workers -> Ops]
      /\ \A v \in Workers : /\ op'[v].pc # "idle" => op'[v].r \in Requests
                            /\ op'[v].pc = "insert" => op'[v].did \in Dids
  BY <1>2, <1>3, FreeIsOp, OpsKept
<1> QED BY <1>2, <1>3, <1>4 DEF RegInv, RegTypeOK, TablesOK

LEMMA RejectStep ==
    ASSUME RegInv, NEW q \in Requests, Reject(q)
    PROVE  RegInv'
<1> DEFINE new == [req[q] EXCEPT !.status = "rejected"]
<1>1. req[q] \in Rows /\ req[q].status = "pending"
  BY DEF Reject, Pending, RegInv, RegTypeOK
<1>2. new \in Rows /\ new.status = "rejected" /\ new.did = req[q].did /\ new.key = req[q].key
      /\ new.proof = req[q].proof
  BY <1>1, SetsStatus DEF Statuses
<1>3. req' = [req EXCEPT ![q] = new] /\ UNCHANGED <<now, agents, handed, op>>
  BY DEF Reject
<1> HIDE DEF new
<1>4. /\ req' \in [Requests -> Rows]
      /\ \A r \in Requests : req'[r] = IF r = q THEN new ELSE req[r]
  BY <1>2, <1>3, RowReplaced
<1>5. TablesOK'
  BY <1>1, <1>2, <1>3, <1>4, RowsKept
<1>6. RegTypeOK'
  BY <1>3, <1>4 DEF RegInv, RegTypeOK
<1>7. OpsOK'
  BY <1>1, <1>2, <1>3, <1>4 DEF RegInv, RegTypeOK, OpsOK
<1> QED BY <1>5, <1>6, <1>7 DEF RegInv, TablesOK

\* The key leaves the server: it was still stored, so it had not left
\* before, and it is the key of the request's own agent.
LEMMA ClaimStep ==
    ASSUME RegInv, NEW q \in Requests, Claim(q)
    PROVE  RegInv'
<1> DEFINE new == [req[q] EXCEPT !.key = None, !.retrieved = TRUE]
           d == req[q].did
<1>1. /\ req[q] \in Rows /\ req[q].status = "approved" /\ d \in Dids
      /\ req[q].key = q /\ agents[d] = q
  BY DEF Claim, RegInv, RegTypeOK, KeyIsOwn, RowsHaveDids
<1>2. handed[q] = 0
  BY <1>1 DEF RegInv, KeyAccounted
<1>3. new \in Rows /\ new.status = "approved" /\ new.key = None /\ new.did = d /\ new.proof = req[q].proof
  BY <1>1 DEF Rows
<1>4. req' = [req EXCEPT ![q] = new] /\ UNCHANGED <<now, agents, op>>
  BY <1>1 DEF Claim, RegInv, RegTypeOK
<1>5. \A r \in Requests : handed'[r] = IF r = q THEN 1 ELSE handed[r]
  BY <1>1, <1>2 DEF Claim, RegInv, RegTypeOK
<1>6. handed' \in [Requests -> {0, 1}]
  BY <1>1, <1>2 DEF Claim, RegInv, RegTypeOK
<1> HIDE DEF new, d
<1>7. /\ req' \in [Requests -> Rows]
      /\ \A r \in Requests : req'[r] = IF r = q THEN new ELSE req[r]
  BY <1>3, <1>4, RowReplaced
<1>8. \A r \in Requests : /\ req'[r].status = req[r].status /\ req'[r].did = req[r].did
                          /\ req'[r].proof = req[r].proof
                          /\ req'[r].key # None => r # q /\ req'[r].key = req[r].key
  BY <1>1, <1>3, <1>7 DEF d
<1>9. AgentFromProof' /\ AgentIsPastPending' /\ RowsHaveDids'
  BY <1>1, <1>4, <1>5, <1>8 DEF RegInv, AgentFromProof, AgentIsPastPending, RowsHaveDids
<1>10. HandedKeyWorks' /\ KeyIsOwn'
  BY <1>1, <1>4, <1>5, <1>8 DEF RegInv, HandedKeyWorks, KeyIsOwn, d
<1>11. KeyAccounted'
  BY <1>3, <1>4, <1>5, <1>7 DEF RegInv, KeyAccounted
<1>12. RegTypeOK'
  BY <1>4, <1>6, <1>7 DEF RegInv, RegTypeOK
<1>13. OpsOK'
  BY <1>4, <1>8 DEF RegInv, RegTypeOK, OpsOK
<1> QED BY <1>9, <1>10, <1>11, <1>12, <1>13 DEF RegInv

\* POST /agents/register takes a DID without an agent, whose key no request
\* can have stored or handed out.
LEMMA RegisterStep ==
    ASSUME RegInv, NEW d \in Dids, RegisterAgent(d)
    PROVE  RegInv'
<1>1. agents[d] = None /\ UNCHANGED <<now, req, handed, op>>
  BY DEF RegisterAgent
<1>2. /\ agents' \in [Dids -> Requests \cup {None, AdminKey}]
      /\ \A e \in Dids : agents'[e] = IF e = d THEN AdminKey ELSE agents[e]
  BY DEF RegisterAgent, RegInv, RegTypeOK
<1>3. AgentFromProof' /\ AgentIsPastPending' /\ KeyAccounted' /\ RowsHaveDids'
  BY <1>1, <1>2 DEF RegInv, AgentFromProof, AgentIsPastPending, KeyAccounted, RowsHaveDids
<1>4. \A r \in Requests : agents[req[r].did] = r => req[r].did # d
  BY <1>1
<1>5. \A r \in Requests : handed[r] > 0 \/ req[r].key # None => req[r].did \in Dids
  BY DEF RegInv, RegTypeOK, RowsHaveDids, KeyIsOwn, HandedKeyWorks
<1>6. HandedKeyWorks' /\ KeyIsOwn'
  BY <1>1, <1>2, <1>4, <1>5 DEF RegInv, HandedKeyWorks, KeyIsOwn
<1>7. RegTypeOK' /\ OpsOK'
  BY <1>1, <1>2 DEF RegInv, RegTypeOK, OpsOK
<1> QED BY <1>3, <1>6, <1>7 DEF RegInv

LEMMA PollStep == RegInv /\ Poll => RegInv'
<1> SUFFICES ASSUME RegInv, Poll PROVE RegInv'
  OBVIOUS
<1>1. req' = ExpireStale(req) /\ UNCHANGED <<now, agents, handed, op>>
  BY DEF Poll
<1>2. /\ req' \in [Requests -> Rows]
      /\ \A q \in Requests :
            /\ req'[q].did = req[q].did /\ req'[q].key = req[q].key /\ req'[q].proof = req[q].proof
            /\ req'[q].status = req[q].status \/ (req[q].status = "pending" /\ req'[q].status = "expired")
  BY <1>1, ExpireKeeps
<1>3. TablesOK'
  BY <1>1, <1>2, RowsKept
<1>4. RegTypeOK' /\ OpsOK'
  BY <1>1, <1>2 DEF RegInv, RegTypeOK, OpsOK
<1> QED BY <1>3, <1>4 DEF RegInv, TablesOK

\* Time passes, or the process restarts: the tables stay.
LEMMA TickOrCrash == RegInv /\ (Tick \/ Crash \/ UNCHANGED vars) => RegInv'
<1> SUFFICES ASSUME RegInv, Tick \/ Crash \/ UNCHANGED vars PROVE RegInv'
  OBVIOUS
<1>1. UNCHANGED <<req, agents, handed>> /\ now' \in 0..MaxTime
  BY DEF Tick, Crash, vars, RegInv, RegTypeOK
<1>2. TablesOK'
  BY <1>1, RowsKept DEF RegInv, RegTypeOK
<1>3. op' \in [Workers -> Ops] /\ \A w \in Workers : op'[w] = op[w] \/ op'[w].pc = "idle"
  BY FreeIsOp DEF Tick, Crash, vars, RegInv, RegTypeOK
<1>4. RegTypeOK' /\ OpsOK'
  BY <1>1, <1>3 DEF RegInv, RegTypeOK, OpsOK
<1> QED BY <1>2, <1>4 DEF RegInv, TablesOK

--------------------------------------------------------------------------

LEMMA StepKeepsRegInv == RegInv /\ [Next]_vars => RegInv'
<1> SUFFICES ASSUME RegInv, [Next]_vars PROVE RegInv'
  OBVIOUS
<1>1. ASSUME NEW w \in Workers, Handle(w) PROVE RegInv'
  BY <1>1, InsertStep, ReadStep, UpdateStep, ApproveStep DEF Handle
<1>2. ASSUME NEW w \in Workers, NEW r \in Requests, BeginProof(w, r) \/ BeginApprove(w, r) PROVE RegInv'
  BY <1>2, ReadersStep
<1>3. ASSUME NEW w \in Workers, NEW r \in Requests, NEW d \in Dids, BeginCreate(w, r, d) PROVE RegInv'
  BY <1>3, CreateStep
<1>4. ASSUME NEW r \in Requests, Reject(r) \/ Claim(r) PROVE RegInv'
  BY <1>4, RejectStep, ClaimStep
<1>5. ASSUME NEW d \in Dids, RegisterAgent(d) PROVE RegInv'
  BY <1>5, RegisterStep
<1>6. CASE Poll
  BY <1>6, PollStep
<1>7. CASE Tick \/ Crash \/ UNCHANGED vars
  BY <1>7, TickOrCrash
<1> QED BY <1>1, <1>2, <1>3, <1>4, <1>5, <1>6, <1>7 DEF Next

LEMMA RegInvHolds == Spec => []RegInv
BY InitEstablishes, StepKeepsRegInv, PTL DEF Spec

\* Registration's rows, agents and handlers have their types: in particular
\* no key leaves the server a second time (storage.py:1470).
THEOREM RegistrationTypes == Spec => []RegTypeOK
<1>1. RegInv => RegTypeOK
  BY DEF RegInv
<1> QED BY <1>1, RegInvHolds, PTL

\* An agent that approval created has an accepted proof for its DID, for any
\* interleaving of proofs, expiries, reviews and restarts (storage.py:1259).
THEOREM AgentsAreProved == Spec => []AgentFromProof
<1>1. RegInv => AgentFromProof
  BY DEF RegInv
<1> QED BY <1>1, RegInvHolds, PTL

\* The key of an approved agent is stored or has been handed out, never both
\* and never neither (storage.py:1415).
THEOREM KeysAccountedFor == Spec => []KeyAccounted
<1>1. RegInv => KeyAccounted
  BY DEF RegInv
<1> QED BY <1>1, RegInvHolds, PTL

\* A key that was handed out is the one the agents table authenticates.
THEOREM HandedKeysWork == Spec => []HandedKeyWorks
<1>1. RegInv => HandedKeyWorks
  BY DEF RegInv
<1> QED BY <1>1, RegInvHolds, PTL

--------------------------------------------------------------------------
(* No decided request is reopened. *)

LEMMA StepReopensNothing ==
    ASSUME RegInv, [Next]_vars, NEW r \in Requests, req[r].status \in Terminal
    PROVE  req'[r].status \in {req[r].status, "expired"}
<1>1. req[r] \in Rows /\ req[r].status # "pending" /\ req[r].status # "none"
  BY DEF RegInv, RegTypeOK, Terminal
<1>2. CASE req' = ExpireStale(req)
  BY <1>1, <1>2, ExpireKeeps
<1>3. CASE UNCHANGED req
  BY <1>3
<1>4. ASSUME NEW w \in Workers, InsertRequest(w)
      PROVE  req'[r] = req[r]
  <2>1. op[w].r # r
    BY <1>1, <1>4 DEF InsertRequest, RegInv, OpsOK
  <2> QED BY <2>1, <1>4 DEF InsertRequest, RegInv, RegTypeOK
<1>5. ASSUME NEW w \in Workers, WriteProof(w)
      PROVE  req'[r].status = req[r].status
  BY <1>1, <1>5 DEF WriteProof, RegInv, RegTypeOK, Rows
<1>6. ASSUME NEW q \in Requests, req' = [req EXCEPT ![q].status = "expired"]
      PROVE  req'[r].status \in {req[r].status, "expired"}
  BY <1>1, <1>6 DEF RegInv, RegTypeOK, Rows
<1>7. ASSUME NEW w \in Workers, MarkExpired(w) \/ Approve(w)
      PROVE  req'[r].status \in {req[r].status, "expired"}
  <2>1. op[w].r \in Requests
    BY <1>7 DEF MarkExpired, Approve, RegInv, RegTypeOK
  <2>2. CASE req' = [req EXCEPT ![op[w].r].status = "expired"]
    BY <2>1, <2>2, <1>6
  <2>3. CASE Pending(op[w].r) /\ req' = Approved(op[w].r)
    BY <1>1, <2>1, <2>3 DEF Pending, Approved, RegInv, RegTypeOK
  <2> QED BY <1>7, <1>3, <2>2, <2>3 DEF MarkExpired, Approve
<1>8. ASSUME NEW q \in Requests, Reject(q)
      PROVE  req'[r] = req[r]
  BY <1>1, <1>8 DEF Reject, Pending, RegInv, RegTypeOK
<1>9. ASSUME NEW q \in Requests, Claim(q)
      PROVE  req'[r].status = req[r].status
  BY <1>1, <1>9 DEF Claim, RegInv, RegTypeOK, Rows
<1>10. ASSUME NEW w \in Workers, Handle(w)
       PROVE  req'[r].status \in {req[r].status, "expired"}
  BY <1>3, <1>4, <1>5, <1>7, <1>10 DEF Handle, ReadRequest
<1>11. ASSUME NEW w \in Workers, NEW q \in Requests, BeginProof(w, q) \/ BeginApprove(w, q)
       PROVE  req'[r].status \in {req[r].status, "expired"}
  BY <1>2, <1>11 DEF BeginProof, BeginApprove
<1>12. CASE Poll
  BY <1>2, <1>12 DEF Poll
<1>13. CASE \/ \E d \in Dids : RegisterAgent(d) \/ \E w \in Workers, q \in Requests : BeginCreate(w, q, d)
            \/ Tick \/ Crash \/ UNCHANGED vars
  BY <1>3, <1>13 DEF RegisterAgent, BeginCreate, Tick, Crash, vars
<1> QED BY <1>8, <1>9, <1>10, <1>11, <1>12, <1>13 DEF Next

\* A decided or expired request is never pending, approved or rejected anew
\* (storage.py:1259, 1503), whatever the handlers had read before.
THEOREM NothingReopened == Spec => NeverReopened
<1>1. RegInv /\ [Next]_vars =>
        [\A r \in Requests : req[r].status \in Terminal =>
            req'[r].status \in {req[r].status, "expired"}]_vars
  BY StepReopensNothing
<1> QED BY <1>1, RegInvHolds, PTL DEF Spec, NeverReopened

--------------------------------------------------------------------------
(* The applicants' side: RegistrationClient takes Registration's steps. *)

LEMMA ClientTakesSteps == [ClientNext]_clientVars => [Next]_vars
<1>2. ASSUME ClientNext PROVE Next
  <2>1. CASE Serve
    BY <2>1 DEF Serve, Next, Handle
  <2>2. ASSUME NEW w \in Workers, Applied(w) PROVE Next
    BY <2>2 DEF Applied, Next, Handle
  <2>3. ASSUME NEW w \in Workers, NEW r \in Requests,
               Prove(w, r) \/ \E d \in Dids : Apply(w, r, d)
        PROVE  Next
    BY <2>3 DEF Prove, Apply, Next
  <2>4. ASSUME NEW r \in Requests, ClaimKey(r) PROVE Next
    BY <2>4 DEF ClaimKey, Next
  <2>5. ASSUME NEW d \in Dids, Enrol(d) PROVE Next
    BY <2>5 DEF Enrol, Next
  <2> QED BY <1>2, <2>1, <2>2, <2>3, <2>4, <2>5 DEF ClientNext
<1>3. UNCHANGED clientVars => UNCHANGED vars
  BY DEF clientVars, vars
<1> QED BY <1>2, <1>3

\* What the applicants have: a known request is a request, a saved key works.
ClientInv ==
    /\ RegInv
    /\ known \in [Dids -> Requests \cup {None}]
    /\ saved \in [Dids -> Requests \cup {None, AdminKey}]
    /\ SavedKeyWorks

\* No step takes a registered key from its agent.
LEMMA AgentsKept ==
    ASSUME RegInv, [Next]_vars, NEW d \in Dids, agents[d] # None
    PROVE  agents'[d] = agents[d]
<1>1. ASSUME NEW w \in Workers, Approve(w) PROVE agents'[d] = agents[d]
  <2>1. op[w].r \in Requests
    BY <1>1 DEF Approve, RegInv, RegTypeOK
  <2>2. CASE agents' = [agents EXCEPT ![req[op[w].r].did] = op[w].r]
             /\ agents[req[op[w].r].did] = None
    BY <2>1, <2>2 DEF RegInv, RegTypeOK
  <2> QED BY <1>1, <2>2 DEF Approve
<1>2. ASSUME NEW w \in Workers, InsertRequest(w) \/ ReadRequest(w) \/ WriteProof(w) \/ MarkExpired(w)
      PROVE  agents'[d] = agents[d]
  BY <1>2 DEF InsertRequest, ReadRequest, WriteProof, MarkExpired
<1>3. ASSUME NEW w \in Workers, NEW r \in Requests,
             \/ BeginProof(w, r) \/ BeginApprove(w, r)
             \/ \E e \in Dids : BeginCreate(w, r, e)
      PROVE  agents'[d] = agents[d]
  BY <1>3 DEF BeginProof, BeginApprove, BeginCreate
<1>4. ASSUME NEW r \in Requests, Reject(r) \/ Claim(r) PROVE agents'[d] = agents[d]
  BY <1>4 DEF Reject, Claim
<1>5. ASSUME NEW e \in Dids, RegisterAgent(e) PROVE agents'[d] = agents[d]
  BY <1>5 DEF RegisterAgent, RegInv, RegTypeOK
<1>6. CASE Poll \/ Tick \/ Crash \/ UNCHANGED vars
  BY <1>6 DEF Poll, Tick, Crash, vars
<1> QED BY <1>1, <1>2, <1>3, <1>4, <1>5, <1>6 DEF Next, Handle

LEMMA ClientInitHolds == ClientInit => ClientInv
<1> SUFFICES ASSUME ClientInit PROVE ClientInv
  OBVIOUS
<1>1. RegInv
  BY InitEstablishes DEF ClientInit
<1> QED BY <1>1 DEF ClientInit, ClientInv, SavedKeyWorks

LEMMA ClientStepKeeps == ClientInv /\ [ClientNext]_clientVars => ClientInv'
<1> SUFFICES ASSUME ClientInv, [ClientNext]_clientVars PROVE ClientInv'
  OBVIOUS
<1>1. [Next]_vars
  BY ClientTakesSteps
<1>2. RegInv /\ RegInv'
  BY <1>1, StepKeepsRegInv DEF ClientInv
<1>3. ASSUME UNCHANGED saved PROVE SavedKeyWorks'
  BY <1>1, <1>2, <1>3, AgentsKept DEF ClientInv, SavedKeyWorks
<1>4. CASE Serve \/ UNCHANGED clientVars
  BY <1>2, <1>3, <1>4 DEF Serve, clientVars, ClientInv
<1>5. ASSUME NEW w \in Workers, Applied(w) PROVE ClientInv'
  <2>1. known' \in [Dids -> Requests \cup {None}]
    BY <1>5 DEF Applied, ClientInv
  <2> QED BY <1>2, <1>3, <1>5, <2>1 DEF Applied, ClientInv
<1>6. ASSUME NEW w \in Workers, NEW r \in Requests,
             Prove(w, r) \/ \E d \in Dids : Apply(w, r, d)
      PROVE  ClientInv'
  BY <1>2, <1>3, <1>6 DEF Prove, Apply, ClientInv
<1>7. ASSUME NEW r \in Requests, ClaimKey(r) PROVE ClientInv'
  <2>1. req[r].did \in Dids /\ req[r].key = r /\ agents[req[r].did] = r
    BY <1>7, <1>2 DEF ClaimKey, Claim, RegInv, KeyIsOwn, RowsHaveDids
  <2>2. agents' = agents
    BY <1>7 DEF ClaimKey, Claim
  <2>3. CASE saved' = [saved EXCEPT ![req[r].did] = req[r].key]
    BY <1>2, <1>7, <2>1, <2>2, <2>3 DEF ClientInv, ClaimKey, SavedKeyWorks
  <2>4. CASE saved' = saved
    BY <1>2, <1>3, <1>7, <2>4 DEF ClientInv, ClaimKey
  <2> QED BY <1>7, <2>3, <2>4 DEF ClaimKey
<1>8. ASSUME NEW d \in Dids, Enrol(d) PROVE ClientInv'
  <2>1. agents[d] = None /\ agents' = [agents EXCEPT ![d] = AdminKey]
    BY <1>8 DEF Enrol, RegisterAgent
  <2>2. CASE saved' = [saved EXCEPT ![d] = AdminKey]
    BY <1>2, <1>8, <2>1, <2>2 DEF ClientInv, Enrol, SavedKeyWorks, RegInv, RegTypeOK
  <2>3. CASE saved' = saved
    BY <1>2, <1>3, <1>8, <2>3 DEF ClientInv, Enrol
  <2> QED BY <1>8, <2>2, <2>3 DEF Enrol
<1> QED BY <1>4, <1>5, <1>6, <1>7, <1>8 DEF ClientNext

\* The key an applicant has is the one its DID is authenticated by
\* (registration.py:283, storage.py:1415), whatever was lost on the way.
THEOREM SavedKeysWork == FairClientSpec => []SavedKeyWorks
<1>1. ClientInv => SavedKeyWorks
  BY DEF ClientInv
<1> QED BY <1>1, ClientInitHolds, ClientStepKeeps, PTL DEF FairClientSpec

==========================================================================
