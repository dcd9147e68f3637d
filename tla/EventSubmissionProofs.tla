----------------------- MODULE EventSubmissionProofs -----------------------
(***************************************************************************)
(* Proofs about event submission, for any agents, events and number of     *)
(* calls, and any clock.                                                   *)
(*                                                                         *)
(* The invariant follows a call through the server: what is about to be    *)
(* inserted was accepted, and what was inserted is the row.  That a row is *)
(* signed as it is stored follows from the checks alone, whatever was done *)
(* to the event before it came; that a saved file is the row also needs    *)
(* that the CLI signs what it sends.                                       *)
(***************************************************************************)
EXTENDS EventSubmission, TLAPS

USE SubmissionAssumption

IdOf(n) == calls[n].payload.content.id

RowOf(n) == [content |-> Canonical(calls[n].payload.content),
             signature |-> calls[n].payload.signature, created |-> calls[n].created]

RowsHaveIds ==
    \A id \in EventIds : Stored(id) => rows[id].content.id = id

InsertsAccepted ==
    \A n \in Calls : calls[n].server = "insert" => Accepts(calls[n].payload, calls[n].key)

StoredIsRow ==
    \A n \in Calls : calls[n].server = "stored" =>
        /\ rows[IdOf(n)] = RowOf(n)
        /\ calls[n].payload.signature.over = Canonical(calls[n].payload.content)
        /\ calls[n].key = calls[n].payload.content.agent

AnsweredIsStored ==
    \A n \in Calls : calls[n].client = "answered" => calls[n].server = "stored"

PrintedIsUsed ==
    \A n \in Calls : printed[n] # None => calls[n] # Unused

SubmissionInv ==
    /\ SubmissionTypeOK
    /\ RowsHaveIds /\ InsertsAccepted /\ StoredIsRow /\ AnsweredIsStored
    /\ PrintedIsUsed
    /\ StoredByItsAgent /\ SavedIsStored /\ ReceiptTrue /\ OneAcknowledged

--------------------------------------------------------------------------
(* Facts about the data. *)

LEMMA CanonicalContents ==
    ASSUME NEW c \in Contents
    PROVE  /\ Canonical(c) \in Contents
           /\ Canonical(c).id = c.id
           /\ Canonical(c).agent = c.agent
<1>1. c.timestamp.at \in 0..MaxTime BY DEF Contents, Texts
<1>2. PydanticText(c.timestamp.at) \in Texts BY <1>1 DEF PydanticText, Texts
<1> QED BY <1>2 DEF Canonical, Contents

LEMMA CallIsUsed ==
    ASSUME SubmissionTypeOK, NEW n \in Calls,
           calls[n].client # "unused" \/ calls[n].server # "none"
    PROVE  /\ calls[n] \in CallStates
           /\ calls[n] # Unused
           /\ calls[n].payload \in Payloads
           /\ calls[n].payload.content \in Contents
           /\ IdOf(n) \in EventIds
           /\ calls[n].created \in 0..MaxTime
BY DEF SubmissionTypeOK, CallStates, Unused, Payloads, Contents, IdOf

\* The row made of a call is a row, and is not the absence of one.
LEMMA RowOfCall ==
    ASSUME SubmissionTypeOK, NEW n \in Calls, calls[n] \in CallStates
    PROVE  RowOf(n) \in Rows /\ RowOf(n) # NoRow
<1>1. /\ calls[n].payload.content \in Contents
      /\ calls[n].payload.signature \in Signatures
      /\ calls[n].created \in 0..MaxTime
  BY DEF CallStates, Payloads
<1>2. Canonical(calls[n].payload.content) \in Contents BY <1>1, CanonicalContents
<1>3. RowOf(n) \in Rows BY <1>1, <1>2 DEF RowOf, Rows
<1>4. RowOf(n).created \in Nat /\ NoRow.created \notin Nat
  BY <1>1 DEF RowOf, NoRow
<1> QED BY <1>3, <1>4

--------------------------------------------------------------------------
(* The steps. *)

LEMMA InitInv == Init => SubmissionInv
BY DEF Init, SubmissionInv, SubmissionTypeOK, RowsHaveIds, InsertsAccepted,
       StoredIsRow, AnsweredIsStored, PrintedIsUsed, StoredByItsAgent, SavedIsStored,
       ReceiptTrue, OneAcknowledged, Stored, NoRow, Unused

\* A call is made, whatever it holds.
LEMMA SendInv ==
    ASSUME SubmissionInv, NEW n \in Calls, NEW p \in Payloads,
           NEW key \in Agents \cup {None}, Send(n, p, key),
           UNCHANGED <<files, printed>>
    PROVE  SubmissionInv'
<1> DEFINE r == [client |-> "waiting", server |-> "sent", payload |-> p, key |-> key,
                 created |-> 0]
<1>1. r \in CallStates BY DEF CallStates
<1>2. /\ calls[n] = Unused
      /\ calls' = [calls EXCEPT ![n] = r]
      /\ UNCHANGED <<now, rows, files, printed>>
  BY DEF Send
<1>3. /\ calls'[n] = r
      /\ \A m \in Calls : m # n => calls'[m] = calls[m]
  BY <1>2 DEF SubmissionInv, SubmissionTypeOK
<1> HIDE DEF r
<1>4. /\ r.client = "waiting" /\ r.server = "sent" /\ r.payload = p /\ r # Unused
  BY DEF r, Unused
<1>5. SubmissionTypeOK'
  BY <1>1, <1>2 DEF SubmissionInv, SubmissionTypeOK
<1>6. RowsHaveIds' /\ InsertsAccepted' /\ AnsweredIsStored' /\ PrintedIsUsed'
  BY <1>2, <1>3, <1>4
  DEF SubmissionInv, RowsHaveIds, InsertsAccepted, AnsweredIsStored, PrintedIsUsed, Stored
<1>8. StoredIsRow'
  BY <1>2, <1>3, <1>4 DEF SubmissionInv, StoredIsRow, IdOf, RowOf
<1>9. StoredByItsAgent'
  BY <1>2, <1>3 DEF SubmissionInv, StoredByItsAgent, Stored
<1>10. SavedIsStored'
  BY <1>2 DEF SubmissionInv, SavedIsStored, Stored
<1>11. ReceiptTrue'
  BY <1>2, <1>3 DEF SubmissionInv, ReceiptTrue, PrintedIsUsed, Stored, EventsOf
<1>12. OneAcknowledged'
  BY <1>3, <1>4 DEF SubmissionInv, OneAcknowledged
<1> QED
  BY <1>5, <1>6, <1>8, <1>9, <1>10, <1>11, <1>12 DEF SubmissionInv

LEMMA SubmitInv ==
    ASSUME SubmissionInv, NEW n \in Calls, NEW id \in EventIds, NEW agent \in Agents,
           NEW key \in Agents \cup {None}, NEW text \in Texts,
           Submit(n, id, agent, key, text)
    PROVE  SubmissionInv'
<1>1. SignedPayload(id, agent, text) \in Payloads
  BY DEF SignedPayload, Payloads, Signatures, Contents
<1> QED BY <1>1, SendInv DEF Submit

LEMMA RepostInv ==
    ASSUME SubmissionInv, NEW n \in Calls, NEW m \in Calls, NEW agent \in Agents,
           NEW key \in Agents, NEW text \in Texts, Repost(n, m, agent, key, text)
    PROVE  SubmissionInv'
<1> DEFINE p == [calls[m].payload EXCEPT !.content.agent = agent, !.method = agent,
                                         !.content.timestamp = text]
<1>1. calls[m] \in CallStates
  BY DEF Repost, SubmissionInv, SubmissionTypeOK
<1>2. p \in Payloads BY <1>1 DEF CallStates, Payloads, Contents
<1>3. Send(n, p, key) /\ UNCHANGED <<files, printed>> BY DEF Repost
<1> HIDE DEF p
<1> QED BY <1>2, <1>3, SendInv

\* A client moves on; it has an answer only of a stored event.
LEMMA ClientInv ==
    ASSUME SubmissionInv, NEW n \in Calls, calls[n] \in CallStates,
           NEW pc \in {"answered", "done"}, Client(n, pc),
           pc = "answered" => calls[n].server = "stored",
           UNCHANGED <<now, rows>>
    PROVE  /\ calls' \in [Calls -> CallStates \cup {Unused}]
           /\ RowsHaveIds' /\ InsertsAccepted' /\ StoredIsRow'
           /\ AnsweredIsStored' /\ StoredByItsAgent' /\ OneAcknowledged'
           /\ calls'[n] # Unused
           /\ \A m \in Calls : /\ calls'[m].key = calls[m].key
                               /\ calls[m] # Unused => calls'[m] # Unused
<1>1. /\ calls'[n] \in CallStates
      /\ calls'[n] = [calls[n] EXCEPT !.client = pc]
      /\ \A m \in Calls : m # n => calls'[m] = calls[m]
      /\ calls' \in [Calls -> CallStates \cup {Unused}]
  BY DEF Client, SubmissionInv, SubmissionTypeOK, CallStates
<1>2. /\ calls'[n].server = calls[n].server /\ calls'[n].payload = calls[n].payload
      /\ calls'[n].key = calls[n].key /\ calls'[n].created = calls[n].created
      /\ calls'[n].client = pc /\ calls'[n] # Unused
  BY <1>1 DEF CallStates, Unused
<1>3. \A m \in Calls : /\ calls'[m].key = calls[m].key
                       /\ calls'[m].payload = calls[m].payload
                       /\ calls'[m].server = calls[m].server
                       /\ calls'[m].created = calls[m].created
                       /\ calls[m] # Unused => calls'[m] # Unused
  BY <1>1, <1>2
<1>4. rows' = rows OBVIOUS
<1>5. RowsHaveIds' BY <1>4 DEF SubmissionInv, RowsHaveIds, Stored
<1>6. InsertsAccepted' BY <1>3 DEF SubmissionInv, InsertsAccepted, Accepts, Verifies
<1>7. AnsweredIsStored' BY <1>1, <1>2 DEF SubmissionInv, AnsweredIsStored
<1>9. StoredIsRow' BY <1>3, <1>4 DEF SubmissionInv, StoredIsRow, IdOf, RowOf
<1>10. StoredByItsAgent' BY <1>3, <1>4 DEF SubmissionInv, StoredByItsAgent, Stored
<1>11. OneAcknowledged' BY <1>3 DEF SubmissionInv, OneAcknowledged
<1> QED BY <1>1, <1>2, <1>3, <1>5, <1>6, <1>7, <1>9, <1>10, <1>11

\* A client ends or has its answer, with nothing written.
LEMMA QuietClientInv ==
    ASSUME SubmissionInv, NEW n \in Calls,
           GiveUp(n) \/ Receive(n) \/ SaveFails(n)
    PROVE  SubmissionInv'
<1>1. calls[n] \in CallStates
  BY CallIsUsed DEF SubmissionInv, GiveUp, Receive, SaveFails
<1>2. /\ UNCHANGED <<now, rows, files, printed>>
      /\ \/ Client(n, "done")
         \/ Client(n, "answered") /\ calls[n].server = "stored"
  BY DEF GiveUp, Receive, SaveFails
<1>3. /\ calls' \in [Calls -> CallStates \cup {Unused}]
      /\ RowsHaveIds' /\ InsertsAccepted' /\ StoredIsRow'
      /\ AnsweredIsStored' /\ StoredByItsAgent' /\ OneAcknowledged'
      /\ \A m \in Calls : /\ calls'[m].key = calls[m].key
                          /\ calls[m] # Unused => calls'[m] # Unused
  BY <1>1, <1>2, ClientInv
<1>4. SubmissionTypeOK' BY <1>2, <1>3 DEF SubmissionInv, SubmissionTypeOK
<1>5. PrintedIsUsed' BY <1>2, <1>3 DEF SubmissionInv, PrintedIsUsed
<1>6. SavedIsStored' BY <1>2 DEF SubmissionInv, SavedIsStored, Stored
<1>7. ReceiptTrue' BY <1>2, <1>3 DEF SubmissionInv, ReceiptTrue, Stored, EventsOf
<1> QED BY <1>3, <1>4, <1>5, <1>6, <1>7 DEF SubmissionInv

\* The receipt that is printed, and the file that is written, are the row's.
LEMMA ShowInv ==
    ASSUME SubmissionInv, NEW n \in Calls, Show(n) \/ SaveAndShow(n)
    PROVE  SubmissionInv'
<1> DEFINE id == IdOf(n)
           receipt == ReceiptOf(id, [content |-> Canonical(calls[n].payload.content),
                                     created |-> calls[n].created])
<1>1. /\ calls[n].client = "answered" /\ Client(n, "done")
      /\ UNCHANGED <<now, rows>>
      /\ printed' = [printed EXCEPT ![n] = receipt]
      /\ \/ files' = files
         \/ /\ SignedHere(calls[n].payload)
            /\ files' = [files EXCEPT ![id] = calls[n].payload]
  BY DEF Show, SaveAndShow, IdOf
<1>2. /\ calls[n] \in CallStates /\ id \in EventIds
      /\ calls[n].payload \in Payloads /\ calls[n].payload.content \in Contents
      /\ calls[n].created \in 0..MaxTime
  BY <1>1, CallIsUsed DEF SubmissionInv
<1>3. /\ rows[id] = RowOf(n)
      /\ calls[n].payload.signature.over = Canonical(calls[n].payload.content)
      /\ calls[n].key = calls[n].payload.content.agent
  BY <1>1 DEF SubmissionInv, AnsweredIsStored, StoredIsRow
<1>4. Stored(id) /\ rows[id] \in Rows
  BY <1>2, <1>3, RowOfCall DEF SubmissionInv, Stored
<1>5. /\ rows[id].content = Canonical(calls[n].payload.content)
      /\ rows[id].signature = calls[n].payload.signature
      /\ rows[id].content.agent = calls[n].payload.content.agent
      /\ receipt = ReceiptOf(id, rows[id])
  BY <1>2, <1>3, CanonicalContents DEF RowOf, ReceiptOf
<1>6. receipt \in Receipts /\ receipt.id = id
  BY <1>4, <1>5, <1>2 DEF ReceiptOf, Receipts, Rows
<1>7. id \in EventsOf(calls[n].key)
  BY <1>2, <1>3, <1>4, <1>5 DEF EventsOf
<1> HIDE DEF id, receipt
<1>8. /\ calls' \in [Calls -> CallStates \cup {Unused}]
      /\ RowsHaveIds' /\ InsertsAccepted' /\ StoredIsRow'
      /\ AnsweredIsStored' /\ StoredByItsAgent' /\ OneAcknowledged'
      /\ calls'[n] # Unused
      /\ \A m \in Calls : /\ calls'[m].key = calls[m].key
                          /\ calls[m] # Unused => calls'[m] # Unused
  BY <1>1, <1>2, ClientInv
<1>9. /\ files' \in [EventIds -> Payloads \cup {None}]
      /\ \A e \in EventIds : \/ files'[e] = files[e]
                             \/ /\ e = id /\ files'[e] = calls[n].payload
                                /\ SignedHere(calls[n].payload)
  <2>1. files \in [EventIds -> Payloads \cup {None}] BY DEF SubmissionInv, SubmissionTypeOK
  <2>2. CASE files' = files BY <2>1, <2>2
  <2>3. CASE /\ SignedHere(calls[n].payload)
             /\ files' = [files EXCEPT ![id] = calls[n].payload]
    BY <1>2, <2>1, <2>3
  <2> QED BY <1>1, <2>2, <2>3
<1>10. /\ printed' \in [Calls -> Receipts \cup {None}]
       /\ printed'[n] = receipt
       /\ \A m \in Calls : m # n => printed'[m] = printed[m]
  BY <1>1, <1>6 DEF SubmissionInv, SubmissionTypeOK
<1>11. SubmissionTypeOK' BY <1>1, <1>8, <1>9, <1>10 DEF SubmissionInv, SubmissionTypeOK
<1>12. PrintedIsUsed' BY <1>8, <1>10 DEF SubmissionInv, PrintedIsUsed
<1>13. SavedIsStored'
  <2>1. SignedHere(calls[n].payload) => rows[id].content = calls[n].payload.content
    BY <1>3, <1>5 DEF SignedHere, SignedPayload
  <2> QED BY <1>1, <1>4, <1>5, <1>9, <2>1 DEF SubmissionInv, SavedIsStored, Stored
<1>14. ReceiptTrue'
  BY <1>1, <1>4, <1>5, <1>6, <1>7, <1>8, <1>10
  DEF SubmissionInv, ReceiptTrue, Stored, EventsOf
<1> QED BY <1>8, <1>11, <1>12, <1>13, <1>14 DEF SubmissionInv

\* The handler's checks, and what they let through.
LEMMA CheckInv ==
    ASSUME SubmissionInv, NEW n \in Calls, Check(n)
    PROVE  SubmissionInv'
<1>1. calls[n].server = "sent" /\ UNCHANGED <<now, rows, files, printed>> BY DEF Check
<1>2. calls[n] \in CallStates BY <1>1, CallIsUsed DEF SubmissionInv
<1>3. /\ calls' \in [Calls -> CallStates \cup {Unused}]
      /\ \A m \in Calls : m # n => calls'[m] = calls[m]
      /\ calls'[n] \in CallStates
      /\ calls'[n].payload = calls[n].payload /\ calls'[n].key = calls[n].key
      /\ calls'[n].client = calls[n].client
      /\ \/ calls'[n].server = "refused"
         \/ calls'[n].server = "insert" /\ Accepts(calls[n].payload, calls[n].key)
  BY <1>2 DEF Check, SubmissionInv, SubmissionTypeOK, CallStates
<1>4. calls[n].client # "answered" BY <1>1 DEF SubmissionInv, AnsweredIsStored
<1>5. calls[n] # Unused /\ calls'[n] # Unused BY <1>2, <1>3 DEF CallStates, Unused
<1>6. SubmissionTypeOK' BY <1>1, <1>3 DEF SubmissionInv, SubmissionTypeOK
<1>7. RowsHaveIds' /\ InsertsAccepted' /\ AnsweredIsStored' /\ PrintedIsUsed'
  BY <1>1, <1>3, <1>4, <1>5
  DEF SubmissionInv, RowsHaveIds, InsertsAccepted, AnsweredIsStored, PrintedIsUsed, Stored
<1>9. StoredIsRow'
  BY <1>1, <1>3 DEF SubmissionInv, StoredIsRow, IdOf, RowOf
<1>10. StoredByItsAgent'
  BY <1>1, <1>3, <1>5 DEF SubmissionInv, StoredByItsAgent, Stored
<1>11. SavedIsStored'
  BY <1>1 DEF SubmissionInv, SavedIsStored, Stored
<1>12. ReceiptTrue'
  BY <1>1, <1>3 DEF SubmissionInv, ReceiptTrue, Stored, EventsOf
<1>13. OneAcknowledged'
  BY <1>3 DEF SubmissionInv, OneAcknowledged
<1> QED
  BY <1>6, <1>7, <1>9, <1>10, <1>11, <1>12, <1>13 DEF SubmissionInv

\* The INSERT: refused by a row that is there, or the first row of its event.
LEMMA InsertInv ==
    ASSUME SubmissionInv, NEW n \in Calls, Insert(n)
    PROVE  SubmissionInv'
<1> DEFINE id == IdOf(n)
<1>1. calls[n].server = "insert" /\ UNCHANGED <<now, files, printed>> BY DEF Insert
<1>2. /\ calls[n] \in CallStates /\ id \in EventIds
      /\ calls[n].payload.content \in Contents
  BY <1>1, CallIsUsed DEF SubmissionInv
<1>3. calls[n].client # "answered" BY <1>1 DEF SubmissionInv, AnsweredIsStored
<1>4. ASSUME NEW pc \in {"stored", "conflict"}, Server(n, pc)
      PROVE  /\ calls' \in [Calls -> CallStates \cup {Unused}]
             /\ \A m \in Calls : m # n => calls'[m] = calls[m]
             /\ calls'[n].payload = calls[n].payload /\ calls'[n].key = calls[n].key
             /\ calls'[n].client = calls[n].client /\ calls'[n].created = calls[n].created
             /\ calls'[n].server = pc
             /\ calls[n] # Unused /\ calls'[n] # Unused
  BY <1>2, <1>4 DEF Server, SubmissionInv, SubmissionTypeOK, CallStates, Unused
<1>5. CASE Stored(id)
  <2>1. Server(n, "conflict") /\ UNCHANGED rows BY <1>5 DEF Insert, IdOf
  <2>2. SubmissionTypeOK' BY <1>1, <1>4, <2>1 DEF SubmissionInv, SubmissionTypeOK
  <2>3. RowsHaveIds' /\ InsertsAccepted' /\ AnsweredIsStored' /\ PrintedIsUsed'
    BY <1>1, <1>3, <1>4, <2>1
    DEF SubmissionInv, RowsHaveIds, InsertsAccepted, AnsweredIsStored, PrintedIsUsed, Stored
  <2>4. StoredIsRow'
    BY <1>4, <2>1 DEF SubmissionInv, StoredIsRow, IdOf, RowOf
  <2>5. StoredByItsAgent' BY <1>4, <2>1 DEF SubmissionInv, StoredByItsAgent, Stored
  <2>6. SavedIsStored' BY <1>1, <2>1 DEF SubmissionInv, SavedIsStored, Stored
  <2>7. ReceiptTrue'
    BY <1>1, <1>4, <2>1 DEF SubmissionInv, ReceiptTrue, Stored, EventsOf
  <2>8. OneAcknowledged' BY <1>4, <2>1 DEF SubmissionInv, OneAcknowledged
  <2> QED BY <2>2, <2>3, <2>4, <2>5, <2>6, <2>7, <2>8 DEF SubmissionInv
<1>6. CASE ~Stored(id)
  <2>1. Server(n, "stored") /\ rows' = [rows EXCEPT ![id] = RowOf(n)]
    BY <1>6 DEF Insert, IdOf, RowOf
  <2>2. RowOf(n) \in Rows /\ RowOf(n) # NoRow
    BY <1>2, RowOfCall DEF SubmissionInv
  <2>3. Accepts(calls[n].payload, calls[n].key)
    BY <1>1 DEF SubmissionInv, InsertsAccepted
  <2>4. /\ calls[n].key = calls[n].payload.content.agent
        /\ calls[n].payload.signature =
              [by |-> calls[n].key, over |-> Canonical(calls[n].payload.content)]
    BY <2>3 DEF Accepts, Verifies
  <2>5. /\ RowOf(n).content = Canonical(calls[n].payload.content)
        /\ RowOf(n).signature = calls[n].payload.signature
        /\ RowOf(n).content.id = id
        /\ RowOf(n).content.agent = calls[n].key
    BY <1>2, <2>4, CanonicalContents DEF RowOf, IdOf
  <2>6. /\ rows'[id] = RowOf(n)
        /\ \A e \in EventIds : e # id => rows'[e] = rows[e]
        /\ rows' \in [EventIds -> Rows \cup {NoRow}]
    BY <1>2, <2>1, <2>2 DEF SubmissionInv, SubmissionTypeOK
  <2>7. SubmissionTypeOK' BY <1>1, <1>4, <2>1, <2>6 DEF SubmissionInv, SubmissionTypeOK
  <2>8. RowsHaveIds'
    BY <2>5, <2>6 DEF SubmissionInv, RowsHaveIds, Stored, IdOf
  <2>9. InsertsAccepted' /\ AnsweredIsStored' /\ PrintedIsUsed'
    BY <1>1, <1>3, <1>4, <2>1
    DEF SubmissionInv, InsertsAccepted, AnsweredIsStored, PrintedIsUsed
  <2>10. \A e \in EventIds : Stored(e) => e # id BY <1>6
  <2>11. \A e \in EventIds : Stored(e) => Stored(e)' /\ rows'[e] = rows[e]
    BY <2>6, <2>10 DEF Stored
  <2>12. \A m \in Calls : calls[m].server # "none" => IdOf(m) \in EventIds
    BY CallIsUsed DEF SubmissionInv
  <2>14. \A m \in Calls : calls[m].server = "stored" =>
            IdOf(m) \in EventIds /\ Stored(IdOf(m))
    <3> SUFFICES ASSUME NEW m \in Calls, calls[m].server = "stored"
                 PROVE  IdOf(m) \in EventIds /\ Stored(IdOf(m))
      OBVIOUS
    <3>1. calls[m] \in CallStates /\ IdOf(m) \in EventIds
      BY CallIsUsed DEF SubmissionInv
    <3>2. rows[IdOf(m)] = RowOf(m) BY DEF SubmissionInv, StoredIsRow
    <3> QED BY <3>1, <3>2, RowOfCall DEF SubmissionInv, Stored
  <2>15. StoredIsRow'
    <3> SUFFICES ASSUME NEW m \in Calls, calls'[m].server = "stored"
                 PROVE  /\ rows'[IdOf(m)'] = RowOf(m)'
                        /\ calls'[m].payload.signature.over
                              = Canonical(calls'[m].payload.content)
                        /\ calls'[m].key = calls'[m].payload.content.agent
      BY DEF StoredIsRow, Canonical
    <3>1. CASE m = n
      BY <3>1, <1>4, <2>1, <2>4, <2>6 DEF IdOf, RowOf
    <3>2. CASE m # n
      <4>1. calls'[m] = calls[m] BY <3>2, <1>4, <2>1
      <4>2. Stored(IdOf(m)) /\ IdOf(m) \in EventIds BY <4>1, <2>14
      <4>3. rows'[IdOf(m)] = rows[IdOf(m)] BY <4>2, <2>11
      <4> QED BY <4>1, <4>3 DEF SubmissionInv, StoredIsRow, IdOf, RowOf
    <3> QED BY <3>1, <3>2
  <2>16. StoredByItsAgent'
    <3> SUFFICES ASSUME NEW e \in EventIds, Stored(e)'
                 PROVE  /\ Verifies(rows'[e].content.agent, rows'[e].content,
                                    rows'[e].signature)
                        /\ \E m \in Calls : /\ calls'[m] # Unused
                                            /\ calls'[m].key = rows'[e].content.agent
                                            /\ Canonical(calls'[m].payload.content)
                                                  = rows'[e].content
      BY DEF StoredByItsAgent, Verifies, Canonical
    <3>1. CASE e = id
      BY <3>1, <1>4, <2>1, <2>4, <2>5, <2>6 DEF Verifies
    <3>2. CASE e # id
      <4>1. Stored(e) /\ rows'[e] = rows[e] BY <3>2, <2>6 DEF Stored
      <4>2. \A m \in Calls : /\ calls'[m].key = calls[m].key
                             /\ calls'[m].payload = calls[m].payload
                             /\ calls[m] # Unused => calls'[m] # Unused
        BY <1>4, <2>1
      <4> QED BY <4>1, <4>2 DEF SubmissionInv, StoredByItsAgent
    <3> QED BY <3>1, <3>2
  <2>17. SavedIsStored'
    BY <1>1, <2>11 DEF SubmissionInv, SavedIsStored
  <2>18. ReceiptTrue'
    <3> SUFFICES ASSUME NEW m \in Calls, printed[m] # None
                 PROVE  /\ Stored(printed[m].id)'
                        /\ printed[m] = ReceiptOf(printed[m].id, rows'[printed[m].id])
                        /\ printed[m].id \in EventsOf(calls[m].key)'
      BY <1>1, <1>4, <2>1 DEF ReceiptTrue, EventsOf, Stored, ReceiptOf
    <3>1. /\ Stored(printed[m].id) /\ printed[m].id \in EventIds
          /\ printed[m] = ReceiptOf(printed[m].id, rows[printed[m].id])
          /\ rows[printed[m].id].content.agent = calls[m].key
      BY DEF SubmissionInv, ReceiptTrue, EventsOf
    <3>2. calls'[m].key = calls[m].key BY <1>4, <2>1
    <3> QED BY <1>1, <3>1, <3>2, <2>11 DEF EventsOf
  <2>19. OneAcknowledged'
    <3> SUFFICES ASSUME NEW m \in Calls, NEW k \in Calls,
                        calls'[m].server = "stored", calls'[k].server = "stored",
                        calls'[m].payload.content.id = calls'[k].payload.content.id,
                        m # k
                 PROVE  FALSE
      BY DEF OneAcknowledged
    <3>1. CASE m # n /\ k # n
      BY <3>1, <1>4, <2>1 DEF SubmissionInv, OneAcknowledged
    <3>2. CASE m = n
      <4>1. calls[k].server = "stored" /\ IdOf(k) = id BY <3>2, <1>4, <2>1 DEF IdOf
      <4> QED BY <4>1, <1>6, <2>14
    <3>3. CASE k = n
      <4>1. calls[m].server = "stored" /\ IdOf(m) = id BY <3>3, <1>4, <2>1 DEF IdOf
      <4> QED BY <4>1, <1>6, <2>14
    <3> QED BY <3>1, <3>2, <3>3
  <2> QED
    BY <2>7, <2>8, <2>9, <2>15, <2>16, <2>17, <2>18, <2>19 DEF SubmissionInv
<1> QED BY <1>5, <1>6

\* The process ends with its handlers and the answers it had not given.
LEMMA CrashInv ==
    ASSUME SubmissionInv, Crash
    PROVE  SubmissionInv'
<1>1. UNCHANGED <<now, rows, files, printed>> BY DEF Crash
<1>2. ASSUME NEW n \in Calls
      PROVE  /\ calls'[n] \in CallStates \cup {Unused}
             /\ calls[n] # Unused => calls'[n] # Unused
             /\ \/ calls'[n] = calls[n]
                \/ /\ calls'[n].server = "gone" /\ calls'[n].client = calls[n].client
                   /\ calls'[n].payload = calls[n].payload /\ calls'[n].key = calls[n].key
                   /\ calls[n].client # "answered"
  <2>1. CASE \/ calls[n].server = "insert"
             \/ calls[n].client = "waiting" /\ calls[n].server # "sent"
    <3>1. calls'[n] = [calls[n] EXCEPT !.server = "gone"] BY <2>1 DEF Crash
    <3>2. calls[n] \in CallStates
      BY <2>1, CallIsUsed DEF SubmissionInv
    <3>3. calls[n].client # "answered"
      BY <2>1 DEF SubmissionInv, AnsweredIsStored
    <3> QED BY <3>1, <3>2, <3>3 DEF CallStates, Unused
  <2>2. CASE ~(\/ calls[n].server = "insert"
               \/ calls[n].client = "waiting" /\ calls[n].server # "sent")
    BY <2>2 DEF Crash, SubmissionInv, SubmissionTypeOK
  <2> QED BY <2>1, <2>2
<1>3. calls' \in [Calls -> CallStates \cup {Unused}]
  <2>1. calls' = [n \in Calls |-> calls'[n]] BY DEF Crash
  <2> QED BY <2>1, <1>2
<1>4. SubmissionTypeOK' BY <1>1, <1>3 DEF SubmissionInv, SubmissionTypeOK
<1>5. RowsHaveIds' /\ SavedIsStored'
  BY <1>1 DEF SubmissionInv, RowsHaveIds, SavedIsStored, Stored
<1>6. InsertsAccepted' /\ AnsweredIsStored' /\ PrintedIsUsed'
  BY <1>1, <1>2 DEF SubmissionInv, InsertsAccepted, AnsweredIsStored, PrintedIsUsed
<1>7. StoredIsRow'
  BY <1>1, <1>2 DEF SubmissionInv, StoredIsRow, IdOf, RowOf
<1>8. StoredByItsAgent'
  BY <1>1, <1>2 DEF SubmissionInv, StoredByItsAgent, Stored
<1>9. ReceiptTrue'
  BY <1>1, <1>2 DEF SubmissionInv, ReceiptTrue, Stored, EventsOf
<1>10. OneAcknowledged'
  BY <1>2 DEF SubmissionInv, OneAcknowledged
<1> QED BY <1>4, <1>5, <1>6, <1>7, <1>8, <1>9, <1>10 DEF SubmissionInv

LEMMA QuietInv ==
    ASSUME SubmissionInv, UNCHANGED <<calls, rows, files, printed>>, now' \in 0..MaxTime
    PROVE  SubmissionInv'
BY DEF SubmissionInv, SubmissionTypeOK, RowsHaveIds, InsertsAccepted,
       StoredIsRow, AnsweredIsStored, PrintedIsUsed, StoredByItsAgent, SavedIsStored,
       ReceiptTrue, OneAcknowledged, Stored, IdOf, RowOf, EventsOf

LEMMA NextInv ==
    ASSUME SubmissionInv, [Next]_vars
    PROVE  SubmissionInv'
<1>1. CASE UNCHANGED vars
  BY <1>1, QuietInv DEF vars, SubmissionInv, SubmissionTypeOK
<1>2. CASE Tick
  BY <1>2, QuietInv DEF Tick, SubmissionInv, SubmissionTypeOK
<1>3. CASE Crash
  BY <1>3, CrashInv
<1>4. ASSUME NEW n \in Calls, Work(n)
      PROVE  SubmissionInv'
  BY <1>4, QuietClientInv, ShowInv, CheckInv, InsertInv DEF Work
<1>5. ASSUME NEW n \in Calls, NEW agent \in Agents, NEW text \in Given,
             \/ \E id \in EventIds, key \in Agents \cup {None} : Submit(n, id, agent, key, text)
             \/ \E m \in Calls, key \in Agents : Repost(n, m, agent, key, text)
      PROVE  SubmissionInv'
  <2>1. text \in Texts BY DEF Given
  <2> QED BY <1>5, <2>1, SubmitInv, RepostInv
<1> QED BY <1>1, <1>2, <1>3, <1>4, <1>5 DEF Next

LEMMA AlwaysInv == Spec => []SubmissionInv
<1>1. SubmissionInv /\ [Next]_vars => SubmissionInv' BY NextInv
<1> QED BY InitInv, <1>1, PTL DEF Spec

--------------------------------------------------------------------------
(* The theorems. *)

\* Type correctness of submission, for any agents, events and calls.
THEOREM SubmissionTypes == Spec => []SubmissionTypeOK
<1>1. SubmissionInv => SubmissionTypeOK BY DEF SubmissionInv
<1> QED BY <1>1, AlwaysInv, PTL

\* What is stored was signed, as it is stored, by the agent whose API key came
\* with it, whatever was rewritten in it on the way and whether or not its id
\* was free (store_event).
THEOREM StoredRowsAreSigned == Spec => []StoredByItsAgent
<1>1. SubmissionInv => StoredByItsAgent BY DEF SubmissionInv
<1> QED BY <1>1, AlwaysInv, PTL

\* A file that --output-event wrote is the event in the store.
THEOREM SavedFilesAreStored == Spec => []SavedIsStored
<1>1. SubmissionInv => SavedIsStored BY DEF SubmissionInv
<1> QED BY <1>1, AlwaysInv, PTL

\* A receipt shown is that of the row, which its agent can list.
THEOREM ReceiptsAreTrue == Spec => []ReceiptTrue
<1>1. SubmissionInv => ReceiptTrue BY DEF SubmissionInv
<1> QED BY <1>1, AlwaysInv, PTL

\* However often an event is sent, at most one attempt is acknowledged.
THEOREM AcknowledgedOnce == Spec => []OneAcknowledged
<1>1. SubmissionInv => OneAcknowledged BY DEF SubmissionInv
<1> QED BY <1>1, AlwaysInv, PTL

\* store_audit_event never rewrites a row, and nothing else does.
THEOREM RowsNeverChange == Spec => StoredNeverChanges
<1>1. ASSUME SubmissionInv, [Next]_vars
      PROVE  [\A id \in EventIds : Stored(id) => rows'[id] = rows[id]]_vars
  <2>1. ASSUME NEW n \in Calls, Insert(n), NEW id \in EventIds, Stored(id)
        PROVE  rows'[id] = rows[id]
    <3>1. CASE Stored(IdOf(n)) BY <2>1, <3>1 DEF Insert, IdOf
    <3>2. CASE ~Stored(IdOf(n))
      <4>1. id # IdOf(n) BY <2>1, <3>2
      <4>2. rows' = [rows EXCEPT ![IdOf(n)] = RowOf(n)]
        BY <2>1, <3>2 DEF Insert, IdOf, RowOf
      <4> QED BY <1>1, <4>1, <4>2 DEF SubmissionInv, SubmissionTypeOK
    <3> QED BY <3>1, <3>2
  <2>2. rows' = rows \/ \E n \in Calls : Insert(n)
    BY <1>1 DEF Next, Work, vars, Submit, Repost, Send, GiveUp, Receive, Show, SaveAndShow,
                SaveFails, Check, Crash, Tick
  <2> QED BY <2>1, <2>2
<1> QED BY <1>1, AlwaysInv, PTL DEF Spec, StoredNeverChanges

==========================================================================
