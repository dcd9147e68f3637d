# VeriAgent: a verification project in TLA+

VeriAgent stores signed audit events of agents, groups them into Merkle
batches, and commits the root of every batch to a contract. This directory
holds TLA+ modules translated from the source under `src/`, the configurations
that check them with TLC, and proofs that TLAPS checks. Paths below are
relative to the repository.

## 1. The system

| Part | State it keeps | Operations that change it | Source |
|---|---|---|---|
| Anchor contract | owner, `anchors`, events emitted | `transferOwnership`, `anchorBatch` | `contracts/src/VeriAgentAnchor.sol` |
| Batch anchoring service | SQLite `batch_anchors`, `pending_anchor_transactions` | `perform_batch_anchor` | `backend/app/batch_anchoring.py`, `anchoring.py` |
| Auto-anchor scheduler | `_runtime_state` in memory | one cycle per interval, in a thread | `backend/app/auto_anchor_scheduler.py` |
| Event store and batches | SQLite `audit_events`, `audit_batches`, `batch_events` | `store_audit_event`, `create_batch_from_unbatched` | `backend/app/storage.py`, `main.py` |
| Registration | SQLite `registration_requests`, `agents` | create, proof, expire, approve, reject, claim, register | `backend/app/registration.py`, `storage.py` |
| Merkle tree | none (loops) | root, proof | `backend/app/merkle.py` |
| Submission | `audit_events`, a file of the client | `store_event`, `veriagent submit` | `backend/app/main.py`, `hashing.py`, `signatures.py`, `receipts.py`, `auth.py`, `sdk/python/veriagent_cli.py`, `veriagent/client.py`, `signing.py` |
| Registration commands | the key and request id an applicant has | `veriagent register request`, `prove`, `claim` | `sdk/python/veriagent/registration.py`, `veriagent_cli.py` |
| Verifier | none (files it reads) | `veriagent verify` | `sdk/python/veriagent/verifier.py`, `merkle.py` |
| Backup and restore | the database file and its copies | copy, replace, roll back | `scripts/backup_sqlite.sh`, `restore_sqlite.sh` |
| Frontend | component state | polling, registration pages | `frontend/src/` |

**How the parts interact.** FastAPI runs synchronous handlers in a thread pool,
and the scheduler runs its cycle in a thread of its own. They share the SQLite
file (every helper opens a connection, so what is atomic is one transaction, not
one function) and the scheduler's state under a lock. The anchoring service
talks to a node by RPC. Clients send events and registrations by HTTP and may
lose any answer; they see events through `GET /audit/events/{event_id}/status`,
and operators see the scheduler through `GET /ops/status`. No lock covers a
batch, an event or a registration request: what keeps concurrent threads apart
is the contract (`BatchAlreadyAnchored`), primary keys, and `WHERE` clauses.
systemd stops and starts the process, with threads running, and the operator's
scripts copy its database and put older copies back.

**What is hard.**

- `perform_batch_anchor` makes up to seven separate accesses to the database and
  the node; the process may die, and the admin route may run, between any two.
- A transaction may be taken without an answer, wait, be dropped, be replaced,
  mine late, or revert; a receipt may be absent because of any of these.
- The backward scan for an event cuts a range into chunks whose size changes
  while it runs, on a chain that grows.
- A stop cannot interrupt the thread of a cycle, and a restored database knows
  less than the chain.
- A batch is created by a read on one connection and an insert on another.
- The scheduler decides on lists it read earlier, and shows a status about them.
- Registration handlers check, then update, and the challenge expires meanwhile.
- An answer of `POST /audit/events` or of a claim may be lost, the request may
  arrive after its client gave up, and the retry carries a new timestamp.
- The bytes that a client signs are the ones another library has to produce again.

`PROJECT.json` lists these hazards at their lines with the properties that
would be violated if one of them bit.

## 2. The modules

| Module | What it models |
|---|---|
| `VeriAgentAnchor` | the contract: `anchorBatch` with its requires in the order of the source, ownership, the `BatchAnchored` events |
| `LogScan` | `find_batch_anchored_log` over the contract's events on a growing chain |
| `ChainNode` | the node as `anchoring.py` uses it (external): the pool with one slot per nonce, replacement, eviction, mining, the confirmed nonce |
| `BatchAnchoring` | `perform_batch_anchor` as a call with a program counter, over the tables and the node; crashes and RPC faults |
| `AnchoringService` | the process around anchoring: cycles, stop, kill and start, backups, restores |
| `AnchorRegistry` | abstract: a batch is committed once, recorded once, by the same transaction |
| `AuditPipeline` | batch creation, `run_auto_anchor_cycle` with its status, the admin routes, a polling client |
| `EventLifecycle` | abstract: an accepted event goes into one batch, for good; batches are anchored |
| `EventSubmission` | `POST /audit/events` and `veriagent submit`, call by call, with the file and the receipt |
| `Registration` | the registration workflow, handlers cut at their SQLite accesses |
| `RegistrationClient` | the `register` commands of the CLI, which lose answers and keys |
| `MerkleTree` | the batch's root and inclusion proof, one level of a loop per step |
| `EvidenceVerifier` | `veriagent verify` of any proof file against the batch and its anchor record |
| `MC*` | instances for TLC |
| `*Proofs` | theorems and proofs |

`BatchAnchoring` EXTENDS `ChainNode`, which EXTENDS `VeriAgentAnchor`; the
contract's variables are part of the composed state and a mined transaction runs
the contract's own action. `AnchoringService` EXTENDS `BatchAnchoring` and puts
its steps inside cycles. `LogScan` EXTENDS the contract too: its property
`ScanExact` is why `BatchAnchoring` may read the log in one step.
`RegistrationClient` EXTENDS `Registration`, `EvidenceVerifier` EXTENDS `MerkleTree`. In
`AuditPipeline` a whole `perform_batch_anchor` is one call that ends with the row
stored or with an exception: the first is what `BatchAnchoring` shows under its
name, and the two abstract specifications meet there (`AnchorRegistry.Record` is
`EventLifecycle.Anchor`).

### How state and actions correspond to the code

**Contract.** A hash is a number, zero the zero word. `AnchorOutcome` is the
chain of `require`s, `AnchorBatch` the rest of the function. A revert changes
nothing. Block times are one nonzero value, since the code only compares them
with zero.

**Scan.** `scan` holds the local variables of `find_batch_anchored_log`: `end` is
`latest` when it began, `chunkEnd` and `chunk` are `chunk_end` and `active_chunk`, `matches`
counts how often the event of a transaction is in the list. A query of the node either answers
(`GetLogs`), is refused for its length, or fails for another reason; the code
treats the last two alike (`Shrunk`). The constants of the code (2000 and 100 blocks) are
parameters. Asked for one batch only, the node filters by the indexed topic.

**Anchoring.** `call[a].pc` names the next access of the thread: `readPending`
(`batch_anchoring.py:70`), `isAnchored` (85), `getNonce` (`anchoring.py:314`),
`send` (347), `persist` (`batch_anchoring.py:108`), `wait` (195), `markPending`,
`markFailed`, `store` (247), `confirm` (257). Two reads with nothing but
unchanging data between them are one step: the batch and its row at the start,
and the reads and assertions of a reconciliation (an anchored batch does not
change). The estimate of the gas may fail and does not end the call
(fallback gas). A receipt always has a status: the branch for a receipt without
one does not arise with the nodes the code targets. Metadata hashes are compared
nowhere in the code and nowhere here.

**Service.** `service` is up, stopping or down, `cycle` is where the scheduler's thread is.
`Stop` sets `stop_event` and changes nothing else: after the grace period the task is
cancelled, but its thread and those of requests go on, and the process exits when they
are done (`Exit`) or is killed (`Kill`). A copy is the three tables of anchoring. A restore
needs the service down, keeps the replaced database as another copy, which may
be rolled back, and starts the service. Retention of old backups only removes copies
and is left out. A batch identifier is a fresh UUID: `used` keeps one that a restore
has erased from being created again.

**Pipeline.** `job[t]` is what a thread has read and where it is: for the
scheduler `submit`, `anchoring`, `recheck`, `count`, `read`, `insert` in the order
of `run_auto_anchor_cycle`. The error text is the batch it is about. A restart
forgets the jobs and the status. Batch identifiers are numbers because SQLite
serves the row of the least identifier when an event has several batches.

**Submission.** A call has a client's side and a server's side. A timestamp is an instant
and whether its text has a fraction: `SdkText` always writes six digits,
`PydanticText` none on a whole second, and `Canonical` is what the server hashes and
verifies, whatever text came. A signature is a term: who signed what. `Check` is
authentication and the checks of `store_event`, `Insert` the transaction with its primary key.
A client may give up and its request arrive later; an answer may be lost with a crash or
without one; the CLI writes `--output-event` only after the answer, and may fail to. `Repost` is another HTTP
client with an event that was signed for an earlier call, stored or not (that call may have failed, or never
have arrived): as it is, or with its agent or its timestamp rewritten. A timestamp that is rewritten to the other text of the
same instant is accepted, because the server verifies, and stores, a text of its own
(`main.py:295-300`); any other rewriting is refused. The API keys of an agent bear its name.

**Registration.** `op[w]` is a handler between two accesses. The `SELECT` and the
`UPDATE` of `submit_registration_proof` and `mark_registration_request_expired`
are separate steps, since their `UPDATE` names the request only; approval and claim
run under `BEGIN IMMEDIATE` and are one step; `reject`'s `UPDATE` has the status in
its `WHERE` and is one step too. `expire_stale_requests` uses `<` and the other
checks `>=`, as in the code. Signatures and tokens verify or do not. A claim by
somebody who cannot sign changes nothing and is left out.

**Registration commands.** `known[d]` is the request id an applicant got, `saved[d]` the key it has
written. Every answer may be lost (`Applied`, `ClaimKey`, `Enrol`); a claim whose file cannot
be written loses the key too, which the server has deleted by then.

**Merkle tree and verifier.** `level`, `index`, `proof` are the loop variables of `merkle_root` and
`merkle_proof` on the server, `current` and `pos` those of `verify_inclusion_proof` in the client.
Hashes are terms: equal only when built alike. There are two anchored batches, the one of
`MerkleTree` and one of a single other event (`Outsider`). The event file is any event of either, signed or not, or the
wrapper of `GET /audit/events/{event_id}`, which is replaced only with `--api-base-url`. The
proof file (`Files`) is what the server served, or differs from it: in a step of the path (other side, other
sibling, lost), in `event_hash`, `merkle_root`, `batch_id` and an empty path in any combination, or by a malformed
field or step. The anchor record is that of either batch, complete or not, with its root or without one, from a file
or fetched; a fetched record without a root takes the proof file's (`Enriched`). Each check is a step; the
first that fails ends the command and names itself in `result`.

What a PASS says therefore depends on the record. Where it has a root of its own, the event is one of that
batch, whatever the proof file says. Where a fetched record lacks it (`verifier.py:345-353`, for older APIs), the root
that the fold is compared with and the root "of the anchor" are both the proof file's, and a PASS says only that
the file is consistent. `PassIsEvidence` states both cases; the current API serves the root
(`main.py:238-252`).

## 3. The runs

| Run | Instance | What it shows |
|---|---|---|
| `logscan` | 2 batches, 2 accounts, 5 payloads with each zero field, 2 transactions; chunks 5, 2, 1 under a limit of 3 blocks, 6 blocks, 2 errors | storage and events agree, commitments are written once; a scan is exact, finds what it was called for, gives up only for the provider's sake, and ends |
| `service` | the scheduler, 2 batches, 4 transactions, 1 copy besides emergency copies, 2 faults out of crash, lost answer, RPC error, eviction, replacement, zero read, stop | one transaction in the pool, at most one wasted per batch, no rebroadcast, copies that agree, batches recorded in the end |
| `anchoring_two` | scheduler and admin, 1 batch, 2 payloads, 4 transactions, 3 faults, handover, zero reads and SQLite edits too | true rows, confirmed rows, failures that are reverts, bounded duplicates, no unverified store, refinement of `AnchorRegistry` |
| `anchoring_stranded` | 1 batch, lost answers and evictions | **violation**: a dropped transaction is resumed for ever |
| `pipeline_single` | 4 events, threshold 2, 2 faults; only the scheduler creates batches | one batch per event, polls move forward, no false `no_events` |
| `pipeline_races` | 2 events, 4 batch identifiers, the admin creates and anchors, 1 fault | failures stay on show, events are eventually anchored |
| `pipeline_lifecycle` | 1 event, 2 creators | **violation**: an event in two batches, its status goes back |
| `registration` | 1 DID with 2 requests, 2 threads, time to live 1, clock to 3, every answer may be lost | proofs before agents, one key, saved keys that work, nothing reopened, abandoned requests release their DID |
| `registration_terminal` | 2 requests, 2 DIDs, 2 threads | **violation**: expiry overwrites a decision |
| `evidence` | all batches of up to 7 events and one event outside; proof files as above, records of both batches | proofs of the right depth, a pass is evidence, a failure names the culprit |
| `submission` | 2 agents, 1 event, 3 calls, 2 ticks per second, clock to 1 | stored events are signed by their agents, rewritten ones at free identifiers included; saved files and receipts are true, one acknowledgement |
| `submission_stamped` | 2 agents, 2 events, 2 calls | **violation**: an event stamped on a whole second is refused |

Deadlock is checked in the pipeline runs and in `registration_terminal`. In the others a behaviour ends
where the bounds do: the transactions are spent, the chain has its last block, the calls
are made, the command has its result, or the clock stands still.

**Bounds.** Two threads are enough for every race in which one thread acts on
what another has changed; two batches for the shared nonce; four
transactions for a lost, a dropped, a duplicate and a successful one of one batch.
The fault budget allows each combination of that many faults, crashes included. One
backup beside the emergency copies gives a database older than the chain, and its
roll back one that is newer than the live one. Chunks of 5 halve to 2 and to the
minimum 1, over 6 blocks: edges fall before, on and behind an event. Three calls give a lost one, its
retry and one more that arrives late. Two requests compete for one DID; the clock
passes the expiry of requests opened at time 0 and 1 and both sides of `<` and `>=`; no request is
opened that could not expire before the clock ends (`Apply`). Seven leaves give
levels of odd length at every height (7, 5, 3). One changed step is enough for the fold, and an empty path
with the other fields free is the proof that a file can make up without knowing the tree. Symmetry is used in
`registration_terminal` (requests, DIDs, threads) and `submission` (agents, calls), where no
liveness is checked and nothing orders them.

**Fairness.** *Scan:* the call goes on, whether the node answers or refuses. *Service:* a call in
progress goes on (threads run), a cycle begins again and again and takes up what it lists
(`_auto_anchor_scheduler_loop` catches everything but cancellation), blocks are
produced, and a stopped process ends and is started again. *Pipeline:* the cycle
goes on, and an anchoring that does not fail ends with the row stored: `service` shows this of
`perform_batch_anchor` (`EventuallyRecorded`), and `anchoring_stranded` where it stops being true (a
dropped transaction, which `EventuallyRecorded` excepts); an admin request that began is answered.
*Registration:* time passes, and somebody reads some request, which is what expires
requests in this code; that is an assumption about its users. No fairness is
assumed of the admin beginning a request, of events arriving, of clients, or of faults, which
are bounded in number.

**The violations.** Each is a disagreement between the code and a sentence of the
repository, quoted under "findings" in `PROJECT.json`:

1. `batch_anchoring.py:71` resumes a submitted transaction without asking the
   contract: if that transaction was dropped and an earlier one, whose answer was
   lost, anchored the batch, the batch is never reconciled, and it stays at the head
   of the scheduler's queue.
2. Two creators put one event in two batches, and the status of the event moves from
   anchored back to batched.
3. The proof handler's expiry overwrites an approval or a rejection made after its
   check; an approved request overwritten so cannot be claimed any more.
4. `signing.py:20` always writes a fraction of a second, and Pydantic none when it is
   zero: an event that the SDK stamps on a whole second is signed over other bytes than the server
   verifies, and is refused (403). The docstring says that both write the same.

A remark beside them: nothing serialises the admin route and the scheduler on one batch, so
with two threads the second may broadcast although a submitted transaction has been
persisted, against the letter of `docs/03-api.md:274`. The contract makes the second revert. `NoRebroadcast`
is therefore checked of one thread (`service`), and `DuplicatesBounded` bounds what several can waste.

## 4. The proofs

All theorems hold for every value of the constants: any number of threads,
batches, transactions, requests, calls, copies and leaves, any chunk sizes, and any bound on
faults. They assume only the named assumptions of the modules, which TLC evaluates in the runs: special
values are distinct, numbers are naturals, the threads of the anchoring service are finitely many, and
event hashes of different ranks differ (a rank is a place in the order of the distinct hashes). Six theorems have a
hypothesis of their own. That of `PassesAreEvidence` is `CollisionFree`: hashes of two nodes are equal only of
equal nodes, and none is an event's hash. The collision resistance of SHA-256 stands for the first; the
second the code does not enforce (both are SHA-256 of bytes, an event's of its JSON text, a node's of 64 bytes of two hashes).
The terms of the run have both; `BlameFallsRight` and `ProofsAreLogarithmic` need neither. Of the other five each hypothesis is the situation
of the run that checks the property: `OneThreadOneExtraRevert` and `OneThreadNeverRebroadcasts` one anchoring
thread (`service`), `NeverFalselyIdle`, `PipelineImplementsLifecycle` and `ClientsSeeProgress` a
pipeline in which the admin does not create batches (`pipeline_single`; `pipeline_lifecycle`
shows what fails without it).

| Module | Theorems |
|---|---|
| `VeriAgentAnchorProofs` | `StorageMatchesLogs`, `AnchorsWrittenOnce`: the contract's storage and events agree; commitments are final |
| `LogScanProofs` | `ScanTypes`, `ScansAreExact`, `ReconciliationFinds`, `RaisedOnlyByProvider` |
| `BatchAnchoringProofs` | `AnchoringTypes`, `AnchorRowsAreTrue`, `ConfirmedRowsExist`, `FailedRowsReverted`, `RowsWrittenVerified`; `NeverTwoInFlight`, `AtMostOneDuplicateEach`: what threads can waste; `AnchoringImplementsRegistry`: refinement |
| `AnchoringServiceProofs` | `ServiceTypes`, `RestoredRowsAreTrue`, `RestoredConfirmedRowsExist`, `NeverTwoInFlightRestored`, `AllCopiesAgree`, `OneThreadOneExtraRevert`, `OneThreadNeverRebroadcasts` |
| `AuditPipelineProofs` | `PipelineTypes`, `FailuresStayOnShow`; with the scheduler as the only creator `NeverFalselyIdle`, `ClientsSeeProgress` and `PipelineImplementsLifecycle`: refinement |
| `EvidenceVerifierProofs` | `PassesAreEvidence`, `BlameFallsRight`, `ProofsAreLogarithmic` |
| `EventSubmissionProofs` | `SubmissionTypes`, `StoredRowsAreSigned`, `SavedFilesAreStored`, `ReceiptsAreTrue`, `AcknowledgedOnce`, `RowsNeverChange` |
| `RegistrationProofs` | `RegistrationTypes`, `AgentsAreProved`, `KeysAccountedFor`, `HandedKeysWork`, `NothingReopened`, `SavedKeysWork` |

**Contract.** `LogsMatchStorage` is inductive with the types: a call that succeeds met
`anchoredAt = 0`, so no event for that batch existed.

**Scan.** `ScanExact` speaks of a finished scan and says nothing of one that is half done. `ScanInv` is the
loop invariant: the events above `chunkEnd`, up to the head at which the scan began, are in
`matches` exactly once each, nothing else is, and they are not several; the chunk never falls
below the minimum. It also keeps the events of the batch within the range (they were there
when `isAnchored` answered, and a batch has no second event, by `LogsMatchStorage`).

**Anchoring.** The row invariants are not inductive: that a row is true depends on what
the thread that writes it has learnt. `IInv` adds `CallOK` (from `persist` on a call
carries a transaction that was sent for its batch; in `markFailed` it has reverted; in
`store` and `confirm` it has succeeded; in `confirm` the row is this transaction),
`PendingOK` (a pending row names a transaction sent for its batch) and
`ReceiptsMatchLogs` (successful transactions and events correspond one to one). Steps fall
into three kinds with a lemma each: the node moves, the call moves, the pending row is
written; only `Store` needs an argument of its own. What makes it inductive is that a final status
of a transaction never changes.

**Pool.** `OneInFlight` follows from `PoolInv`: what is in the pool has the account's next
nonce, and no thread holds a later one, because the nonce is read at "latest".

**Duplicates.** That a batch has few duplicates is not inductive: a thread that has passed `isAnchored` may
still add one. `DupInv` counts the threads that are `Late` (at `getNonce` or `send` for the batch) with the
transactions already `Spent` on it (pending, or reverted as duplicates): once the batch is anchored, their number
together never exceeds the number of threads, because nobody becomes late any more and each late thread sends
once. Before it is anchored `OneInFlight` keeps the account's transactions apart. With one thread the bound is one, which is
`OneExtraRevert`.

**Stores.** `StoreVerified` needs `StoreOK`, that a call at `store` compared its commitment with the
contract's (or read zero), and that a commitment never changes. `NoRebroadcast` of one thread needs
`ReadStill`: what the thread has read of the tables is still in them when it sends, through stops, kills and restores,
because these need the thread to be gone.

**Refinement.** `CommittedTx` and `RecordedTx` are functions of the logs and the rows. Mining a
successful transaction is `Commit`, storing is `Record`, everything else stutters; `IInv`
gives what each needs.

**Service.** What holds of the live tables holds of every copy (`CopyOK`), also when the chain has moved on, because
it only speaks of final statuses; so a restore, with no call running, leads from good tables to
good tables, and two copies that both name a transaction for a batch name the one that anchored it.

**Submission.** `SubmissionInv` follows a call: a call at `insert` was accepted, a call
that was stored has its row with its values, and an answer shown or saved came from such a
call. Rows are final because of the primary key, so what was true of a file or a receipt once stays true.

**Pipeline.** `PInv` adds to the types that a thread's job is about batches and events that exist (`JobOK`), and that
when the scheduler turns to events the batch of the error it shows is anchored (`ErrorOK`), which is
why `FailureKept` holds with any creators. The others hold of a single creator: `LoneInv` says that no event has
two batches, that no batch waits while the scheduler is at its events, and that what it read as unbatched is still so
when it inserts. `SeenOK`, that what a poll answered has not been undone since, gives `SeenForward`.

**Verifier.** A proof of the fold by induction on the height is beyond the provers, and none is needed: the server
computes the levels one step at a time, and `TreeInv` keeps them. There is a `Tower` of levels over the leaves, each the parents
of the one below, to which `RootStep` adds one; a proof as served is a `Path` through it, the places of the
target's ancestors with their siblings, to which `ProofStep` adds one; and the fold holds the ancestor at `pos`. `SiblingFold`
is the heart: hashing a node with its sibling, on its side, gives the parent, on levels of odd length too. At the top
there is one node, the root. `ChecksInv` collects what the checks passed so far have established.
`PassIsEvidence` is the other direction, that a fold that reaches the root began in the tree, and no shape of the proof
file may be used for it: hashing a value that is no node of the tree with any sibling gives no node of it again
(`FoldOutside`, which is where `CollisionFree` is needed), so a fold that begins with the hash of an event outside ends
outside, and `merkle_inclusion_proof` or `anchor_merkle_root_match` fails. `ProofDepth` follows from
`DepthInv`, that a level of l nodes m above the leaves covers more than (l - 1) * 2^m and at most l * 2^m of them.
The provers do not know powers: `PowerDoubles` gets them from the number of subsets of a set
(`FS_SUBSET` of the library, whose own derivation takes the doubling of powers of two as arithmetic).

**Registration.** `RegInv` adds to the properties that a stored key is the one of its
request and of its agent, that a request with an agent is past pending, that rows that exist have
DIDs, and that handlers know what they have read. `RowsKept` settles every step that only moves
a status; the insertion, approval, claim and direct registration have their own lemmas.
`NeverReopened` is proved from the same invariant. `SavedKeyWorks` follows over
`RegistrationClient`, whose steps are steps of `Registration` or leave it alone.

**Left to TLC.** Liveness (`EventuallyAnchored`, `EventuallyRecorded`, `AbandonedIsReleased`, `ScanEnds`), since the
prover has no reasoning about fairness here, and the four violations. Every invariant and action property
of the passing runs is stated by a theorem.

## 5. What is not modelled

- SHA-256, Ed25519, HMAC and JCS themselves: terms that are equal only when built alike. Gas, fees, ABI and
  hex decoding, configuration values.
- The admin key's comparison, CORS, response models, paging, texts of errors and logs, schema
  migrations.
- Parsing of arguments and of files in the CLI, beyond whether a record is complete. The exit codes of
  `veriagent verify` are those of the source: `docs/15` gives a table of its own that
  is not compared here.
- The frontend: its polling of an event appears as `Poll`; the generations of
  `useLifecyclePolling` and the rendering do not.
- The bytes of a SQLite file: `backup_sqlite.sh` takes a consistent copy, and a restore
  happens with no writer. Removal of old backups.
- SQLite lock timeouts: a handler that meets one fails before it has changed anything, which is
  the same as not running.
- Deployment files and build scripts: configuration without behaviour of its own.

## 6. Plan

Done: the contract and the scan, anchoring and the service around it, the pipeline, submission, registration
and its commands, the Merkle tree and the verifier; the proofs of section 4. Next, in this order:

1. Refinement across the service: the node and the rows of `AnchoringService` between two restores implement
   `AnchorRegistry`, so that the bound of one thread and the refinement are about the same specification.
2. What can be said of several creators: an event's batches only grow, and which of them its status shows.
3. `LifecyclePolling`: the generations by which `useLifecyclePolling` drops late answers.
4. The exit codes of the verifier.
