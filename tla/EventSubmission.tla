-------------------------- MODULE EventSubmission --------------------------
(***************************************************************************)
(* An audit event on its way into the store: `veriagent submit` (or        *)
(* VeriAgentClient, or another HTTP client) stamps and signs it, the       *)
(* request travels to POST /audit/events, whose handler authenticates the  *)
(* agent, checks the signature over its own canonical form and inserts the *)
(* row; the answer brings the receipt, and the CLI writes --output-event.  *)
(*                                                                         *)
(* A call is one request.  The client waits for 30 seconds; a request or   *)
(* its handler can be later than that, or be lost with the process.        *)
(***************************************************************************)
EXTENDS Naturals

CONSTANTS
    Agents,     \* DIDs of registered agents; the keys of an agent bear its name
    EventIds,
    Calls,      \* bound: the requests made
    None,       \* NULL; an API key nobody has
    Second,     \* ticks of the clock in a second
    MaxTime     \* bound of the clock

ASSUME SubmissionAssumption ==
    /\ None \notin Agents /\ None \notin Nat
    /\ Second \in Nat \ {0}
    /\ MaxTime \in Nat

VARIABLES
    now,
    calls,      \* the client's and the server's side of each request
    rows,       \* audit_events
    files,      \* what --output-event wrote for an event
    printed     \* the receipt a call showed its user

vars == <<now, calls, rows, files, printed>>

\* A timestamp's text: an instant, with six digits of fraction or with none,
\* which only a whole second allows.
Texts == {s \in [at : 0..MaxTime, fraction : BOOLEAN] : s.fraction \/ s.at % Second = 0}

\* format_timestamp: always the fraction.
SdkText(t) == [at |-> t, fraction |-> TRUE]

\* How Pydantic writes a datetime in JSON mode: no fraction when it is zero.
PydanticText(t) == [at |-> t, fraction |-> t % Second # 0]

\* An unsigned event: what the properties tell apart of its fields.
Contents == [id : EventIds, agent : Agents, timestamp : Texts]

Signatures == [by : Agents, over : Contents]

Payloads == [content : Contents, method : Agents, signature : Signatures]

\* canonicalize_event: the fields as the server's model writes them.
Canonical(c) == [c EXCEPT !.timestamp = PydanticText(c.timestamp.at)]

\* verify_signature with the public key of an agent.
Verifies(agent, bytes, signature) == signature = [by |-> agent, over |-> bytes]

Rows == [content : Contents, signature : Signatures, created : 0..MaxTime]

NoRow == [created |-> None]
Stored(id) == rows[id] # NoRow

ReceiptOf(id, row) == [id |-> id, content |-> row.content, created |-> row.created]
Receipts == [id : EventIds, content : Contents, created : 0..MaxTime]

Unused == [client |-> "unused", server |-> "none"]

CallStates ==
    [client : {"waiting", "answered", "done"},
     server : {"sent", "insert", "stored", "conflict", "refused", "gone"},
     payload : Payloads, key : Agents \cup {None}, created : 0..MaxTime]

SubmissionTypeOK ==
    /\ now \in 0..MaxTime
    /\ calls \in [Calls -> CallStates \cup {Unused}]
    /\ rows \in [EventIds -> Rows \cup {NoRow}]
    /\ files \in [EventIds -> Payloads \cup {None}]
    /\ printed \in [Calls -> Receipts \cup {None}]

Init ==
    /\ now = 0
    /\ calls = [n \in Calls |-> Unused]
    /\ rows = [id \in EventIds |-> NoRow]
    /\ files = [id \in EventIds |-> None]
    /\ printed = [n \in Calls |-> None]

Client(n, pc) == calls' = [calls EXCEPT ![n].client = pc]
Server(n, pc) == calls' = [calls EXCEPT ![n].server = pc]

Send(n, p, key) ==
    /\ calls[n] = Unused
    /\ calls' = [calls EXCEPT ![n] = [client |-> "waiting", server |-> "sent",
                                      payload |-> p, key |-> key, created |-> 0]]
    /\ UNCHANGED <<now, rows>>

--------------------------------------------------------------------------
(* The client. *)

\* build_signed_payload: the identity is derived from the private key.
SignedPayload(id, agent, text) ==
    LET c == [id |-> id, agent |-> agent, timestamp |-> text]
    IN  [content |-> c, method |-> agent, signature |-> [by |-> agent, over |-> c]]

\* Mutated form: the file is written before the request is made.
SubmitSavesFirst(n, id, agent, key, text) ==
    /\ Send(n, SignedPayload(id, agent, text), key)
    /\ files' = [files EXCEPT ![id] = SignedPayload(id, agent, text)]
    /\ UNCHANGED printed

\* veriagent submit with the private key of agent and an API key of its own
\* or, the two being configured apart, another one.  A retry is a new call;
\* without --timestamp its text is new too.
Submit(n, id, agent, key, text) ==
    /\ Send(n, SignedPayload(id, agent, text), key)
    /\ UNCHANGED <<files, printed>>

\* Another HTTP client posts an event that was signed for an earlier call,
\* whatever became of that one: with its timestamp, or its agent (and the
\* verification method with it) rewritten since, or as it is.  Bound: the API key
\* is some agent's; without one a call is refused whatever it holds.
Repost(n, m, agent, key, text) ==
    /\ calls[m] # Unused
    /\ Send(n, [calls[m].payload EXCEPT !.content.agent = agent, !.method = agent,
                                        !.content.timestamp = text], key)
    /\ UNCHANGED <<files, printed>>

\* raise_for_status, a connection error, or no answer in 30 seconds.
GiveUp(n) ==
    /\ calls[n].client = "waiting"
    /\ Client(n, "done")
    /\ UNCHANGED <<now, rows, files, printed>>

Receive(n) ==
    /\ calls[n].client = "waiting"
    /\ calls[n].server = "stored"
    /\ Client(n, "answered")
    /\ UNCHANGED <<now, rows, files, printed>>

\* Without --output-event, or for a client that is not the CLI.
Show(n) ==
    /\ calls[n].client = "answered"
    /\ printed' = [printed EXCEPT ![n] =
            ReceiptOf(calls[n].payload.content.id,
                [content |-> Canonical(calls[n].payload.content), created |-> calls[n].created])]
    /\ Client(n, "done")
    /\ UNCHANGED <<now, rows, files>>

\* The CLI signs what it sends, and only the CLI writes --output-event.
SignedHere(p) == p = SignedPayload(p.content.id, p.content.agent, p.content.timestamp)

SaveAndShow(n) ==
    /\ calls[n].client = "answered"
    /\ SignedHere(calls[n].payload)
    /\ files' = [files EXCEPT ![calls[n].payload.content.id] = calls[n].payload]
    /\ printed' = [printed EXCEPT ![n] =
            ReceiptOf(calls[n].payload.content.id,
                [content |-> Canonical(calls[n].payload.content), created |-> calls[n].created])]
    /\ Client(n, "done")
    /\ UNCHANGED <<now, rows>>

\* The file cannot be written: exit 1, nothing printed.
SaveFails(n) ==
    /\ calls[n].client = "answered"
    /\ Client(n, "done")
    /\ UNCHANGED <<now, rows, files, printed>>

--------------------------------------------------------------------------
(* The server. *)

\* Mutated form: the signature is checked against the event's own agent,
\* whoever is authenticated.
AcceptsByEvent(p, key) ==
    /\ key \in Agents
    /\ p.method = p.content.agent
    /\ Verifies(p.content.agent, Canonical(p.content), p.signature)

\* authenticate_agent and the checks of store_event.
Accepts(p, key) ==
    /\ key \in Agents
    /\ p.content.agent = key
    /\ p.method = key
    /\ Verifies(key, Canonical(p.content), p.signature)

\* store_event up to store_audit_event, whose clock is read before the INSERT.
Check(n) ==
    /\ calls[n].server = "sent"
    /\ calls' = IF Accepts(calls[n].payload, calls[n].key)
                THEN [calls EXCEPT ![n].server = "insert", ![n].created = now]
                ELSE [calls EXCEPT ![n].server = "refused"]
    /\ UNCHANGED <<now, rows, files, printed>>

\* Mutated form: the fields are stored as they were sent.
InsertAsSent(n) ==
    /\ calls[n].server = "insert"
    /\ LET p == calls[n].payload IN
        \/ /\ ~Stored(p.content.id)
           /\ rows' = [rows EXCEPT ![p.content.id] =
                [content |-> p.content, signature |-> p.signature,
                 created |-> calls[n].created]]
           /\ Server(n, "stored")
        \/ /\ Stored(p.content.id)
           /\ Server(n, "conflict")
           /\ UNCHANGED rows
    /\ UNCHANGED <<now, files, printed>>

\* Mutated form: a duplicate is answered with a receipt.
InsertConfirmsDuplicate(n) ==
    /\ calls[n].server = "insert"
    /\ LET p == calls[n].payload IN
        /\ rows' = IF Stored(p.content.id) THEN rows
                   ELSE [rows EXCEPT ![p.content.id] =
                [content |-> Canonical(p.content), signature |-> p.signature,
                 created |-> calls[n].created]]
        /\ Server(n, "stored")
    /\ UNCHANGED <<now, files, printed>>

\* store_audit_event: the primary key refuses a second row, whoever owns the
\* first; the receipt is made of the values of the row.
Insert(n) ==
    /\ calls[n].server = "insert"
    /\ LET p == calls[n].payload IN
        \/ /\ ~Stored(p.content.id)
           /\ rows' = [rows EXCEPT ![p.content.id] =
                [content |-> Canonical(p.content), signature |-> p.signature,
                 created |-> calls[n].created]]
           /\ Server(n, "stored")
        \/ /\ Stored(p.content.id)
           /\ Server(n, "conflict")
           /\ UNCHANGED rows
    /\ UNCHANGED <<now, files, printed>>

\* The process ends: its handlers are gone and so are the answers that no
\* client has yet.  A request still on its way may arrive at the next process.
Crash ==
    /\ calls' = [n \in Calls |->
            IF \/ calls[n].server = "insert"
               \/ calls[n].client = "waiting" /\ calls[n].server # "sent"
            THEN [calls[n] EXCEPT !.server = "gone"] ELSE calls[n]]
    /\ UNCHANGED <<now, rows, files, printed>>

Tick ==
    /\ now < MaxTime
    /\ now' = now + 1
    /\ UNCHANGED <<calls, rows, files, printed>>

\* list_audit_events_for_agent
EventsOf(agent) == {id \in EventIds : Stored(id) /\ rows[id].content.agent = agent}

\* The texts a call can carry: the clock's, or one that its user gives.
Given == {s \in Texts : s.at <= now}

Work(n) ==
    \/ GiveUp(n) \/ Receive(n) \/ Show(n) \/ SaveAndShow(n) \/ SaveFails(n)
    \/ Check(n) \/ Insert(n)

Next ==
    \/ \E n \in Calls :
        \/ Work(n)
        \/ \E agent \in Agents, text \in Given :
            \/ \E id \in EventIds, key \in Agents \cup {None} : Submit(n, id, agent, key, text)
            \/ \E m \in Calls, key \in Agents : Repost(n, m, agent, key, text)
    \/ Crash \/ Tick

Spec == Init /\ [][Next]_vars

--------------------------------------------------------------------------
(* Properties. *)

\* A row holds an event signed, in the very form that is stored, by the
\* agent it names, and it came with that agent's API key (docs/03-api.md:63).
\* A mixed-up key, or an event whose agent or instant was rewritten after
\* signing, never gets in, be its id free or taken; the text of the instant may
\* differ from the one that was sent, for the server verifies and stores a text
\* of its own (main.py:295).
StoredByItsAgent ==
    \A id \in EventIds : Stored(id) =>
        /\ Verifies(rows[id].content.agent, rows[id].content, rows[id].signature)
        /\ \E n \in Calls : /\ calls[n] # Unused
                            /\ calls[n].key = rows[id].content.agent
                            /\ Canonical(calls[n].payload.content) = rows[id].content

\* The file written for `veriagent verify` is the event that the store
\* holds, through retries that stamp the event anew, requests that arrive
\* after their client gave up and answers that are lost.
SavedIsStored ==
    \A id \in EventIds : files[id] # None =>
        /\ Stored(id)
        /\ rows[id].content = files[id].content
        /\ rows[id].signature = files[id].signature

\* A receipt shown to a user is for the row in the store, and the agent that
\* holds it finds the event in its list.
ReceiptTrue ==
    \A n \in Calls : printed[n] # None =>
        /\ Stored(printed[n].id)
        /\ printed[n] = ReceiptOf(printed[n].id, rows[printed[n].id])
        /\ printed[n].id \in EventsOf(calls[n].key)

\* Of all the attempts to submit one event at most one is acknowledged.
OneAcknowledged ==
    \A m, n \in Calls :
        /\ calls[m].server = "stored" /\ calls[n].server = "stored"
        /\ calls[m].payload.content.id = calls[n].payload.content.id
        => m = n

\* A stored event never changes.
StoredNeverChanges ==
    [][\A id \in EventIds : Stored(id) => rows'[id] = rows[id]]_vars

\* sdk/python/veriagent/signing.py:15, "Format a datetime the same way
\* Pydantic JSON mode does for UTC timestamps": an event that the SDK stamps
\* and signs, sent with the API key of its agent, is not refused.
StampedIsAccepted ==
    \A n \in Calls :
        /\ calls[n].server = "refused"
        /\ calls[n].payload = SignedPayload(calls[n].payload.content.id, calls[n].key,
                                            calls[n].payload.content.timestamp)
        => calls[n].payload.content.timestamp # SdkText(calls[n].payload.content.timestamp.at)

==========================================================================
