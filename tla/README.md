# Formal verification of keri-js

TLA+ models of the stateful core of keri-js, the TLC runs that check them and the proofs that tlapm
checks. Paths below are relative to the root of the repository. `PROJECT.json` lists components, runs,
mutants, the source lines of every definition, findings, hazards and theorems in machine-readable form.

## 1. Inventory

keri-js is an implementation of KERI (identifiers whose keys are established by a log of signed events)
in four packages and four applications. Nothing is multi-threaded; concurrency is `await`: HTTP requests
between controllers, witnesses, mailboxes and verifiers, timers, and asynchronous signers and key-value
stores. Everything between two awaits is atomic. SQLite access is synchronous.

| Component | Source | State | Operations | Talks to |
| --- | --- | --- | --- | --- |
| CESR codec, code tables | `packages/cesr` | the buffer of a parser, the message and attachments read so far | parse a stream chunk by chunk, encode and read indexers, counters and attachments | everything |
| thresholds, verification | `keri/src/core/threshold.ts`, `verify.ts`, `sign.ts` | the signatures attached to a message | `parseThreshold`, `verifyThreshold`, `verifySignatures`, `signEvent`, `endorse` | key event log |
| key event log | `key-event-log.ts`, `key-event.ts` | events, key state, delegator's log (immutable, `append` returns a new log) | `empty`, `from`, `append`, `parse`, `fromMessages`, `findSealAnchor`, `reduceKeyState` | witness, controller, verifier |
| event index, credentials | `event-index.ts`, `credential*.ts`, `transaction-event-log.ts`, `verify-report.ts` | maps built from one stream | index, resolve, verify a presentation into a report | verifier |
| event table | `keri-infra/src/sqlite` | tables: messages by digest, keys, replies, mailbox entries, cursors | upsert, ordered reads | controller, witness, mailbox, portal |
| witness | `witness/` | an event table | `POST /receipts`, `POST /` with `rct`, `GET /oobi` | controller, verifier |
| witness agreement (KAWA) | `http/kawa.ts`, `http/witness-client.ts` | the receipts of one call | `submitToWitnesses`, two passes | witness |
| controller | `controller/` | an event table and the private keys | `incept`, `delegatedIncept`, `anchor`, `rotate`, `introduce`, `query`, `receiveGrants`, `createRegistry`, `createCredential`, `issueCredential`, `sendCredentialArtifacts`, `grant` | witness, mailbox |
| mailbox | `mailbox/`, `http/mailbox-client.ts` | entries per recipient and topic; on the client a cursor per topic | `/fwd`, `qry mbx`, enrol, OOBI; poll | controller |
| login | `verifier/login*.ts` | a session store and a first-seen key event store, both key-value | submit a log, read, respond to a challenge | browser, wallet |
| presentations | `verifier/verifier*.ts` | one record per presentation | `PUT /`, read | wallet |
| portal | `portal/`, worker's `portal-store.ts` | an event table in a Durable Object | store-and-forward, enrol, replay of `tels` and `logs` queries, OOBI | wallet |
| applications | `apps/*` | sessions of the UI | CLI, servers, worker, React UI | |

What is hard in it, and what makes each part correct:

- **Thresholds.** Fractions are scaled to integers. The verdict must be that of the threshold, for every
  subset of signatures, and must not depend on the order of signing.
- **Key event log.** `append` looks at a cached key state and never back at the events. Over the whole
  history, rotations must follow the commitments made before, signatures must be of the keys in force,
  witnesses those in force, delegations approved.
- **Witness and KAWA.** A receipt is verified before an await and saved after it; a call makes N + N(N-1)
  requests any of which can fail; a call that failed is made again, with the same or other content. What
  a controller stores must be held by enough witnesses, and its and the witnesses' logs must replay.
- **CESR.** Chunks end anywhere; codes, counts and sizes have a small and a large form; a group's count is in
  items or in quadlets. Messages must come out whole, in order, with what was attached to them, and a signature
  with the index of the key that made it.
- **Controller.** The log is read to build an event, and read again to store it, with all requests to
  witnesses in between; several calls share one store. A registry or an issuance is sealed, sent to witnesses and
  stored in three steps, and its way to a recipient is a request per message: a recipient must hold what a
  message rests on before the message.
- **Receiving controller.** A stream is judged leniently as a whole and stored strictly event by event, with
  other work on the same table in between. What is stored must replay, an introduction that returned must
  have stored all it judged, one that failed must not stand in the way of the next.
- **Event index, credentials.** The verdict on a credential must rest on what its issuer sealed, must be the
  one its chain of credentials defines although it is cached half-way, and must not depend on the order in
  which the parts and their copies arrive. Nothing in the code vouches for an inception: `append` computes neither
  its SAID nor its identifier again.
- **Mailbox.** The client's messages, cursor and credentials are separate writes; polls overlap; answers
  are cut short. No message may be skipped.
- **Login.** Every access to the key-value stores is awaited. Recording must precede the challenge, the
  challenge the authentication, for one and the same log, whose events may state any sequence numbers.

The `hazards` of `PROJECT.json` name the lines.

## 2. Modules

| Module | Models | Builds on |
| --- | --- | --- |
| `Threshold` | `parseThreshold`, `verifyThreshold`, `verifySignatures` as operators | |
| `Lemmas` | facts about numbers, sets, sequences, sums, thresholds and event tables | `EventStore`, TLAPS |
| `Multisig` | members of a group who sign one event in any order | `Threshold` |
| `MultisigProofs` | theorems about `Multisig` | `Lemmas` |
| `KeyEvents` | events, key states and logs as data; the checks of `append` | `Threshold` |
| `KeyHistory` | **abstract**: control passes along commitments | |
| `KeyEventLog` | a log to which arbitrary messages arrive | `KeyEvents`, refines `KeyHistory` |
| `KeyEventLogProofs` | theorems about `KeyEventLog` | `Lemmas` |
| `EventStore` | the event table and `KeyEventLog.from` | `KeyEvents` |
| `Witness` | `receipt` (two steps) and `handleMessage` | `EventStore` |
| `Kawa` | controller calls, `submitToWitnesses`, several witnesses | `Witness` |
| `KawaProofs` | theorems about `Kawa` | `Lemmas` |
| `KelStream` | `fromMessages` with delegators, `processMessage` for key events | `EventStore` |
| `Introduction` | a host (mailbox, portal) and a controller that is introduced | `KelStream` |
| `EventIndex` | `EventIndex`: copies folded, exchanges unwrapped at every depth, lookups | `KelStream` |
| `CredentialVerification` | `verify`: credentials, their registry events and edges | `EventIndex` |
| `StreamProofs` | theorems about `Introduction` and `CredentialVerification` | `Lemmas` |
| `Issuance` | registries, issuances, the artifacts and grants sent to a recipient | |
| `IssuanceProofs` | theorems about `Issuance` | `Lemmas` |
| `Mailbox` | mailbox entries, replayed queries, polls, cursor, grants | |
| `MailboxProofs` | theorems about `Mailbox` | TLAPS |
| `Login` | submission, recording, challenge, response | |
| `LoginProofs` | theorems about `Login` | TLAPS |
| `CesrCodes` | codes, their sizes, counters, indexers, version strings | |
| `Attachments` | attachment groups written and read | `CesrCodes` |
| `Delivery` | **abstract**: the messages of a stream in order, to its last or to its flaw | |
| `CesrStream` | the incremental parser | `Attachments`, refines `Delivery` |

`MC*` modules hold the model values and bounds.

**Conventions.** A message is a record of its body and its attachments; a signature is the key that made
it, so a signature verifies exactly when it is by the key at its index. The digest of an event is its
identity (in `Kawa` the content itself, in `CredentialVerification` only what the body states). Indices are 1-based (0-based in the CESR modules). Formatting is left
out, and CESR in all but its own modules. An action covers a stretch of code from one await to the next.

**Threshold, Multisig.** `ParseThreshold` yields the weights and the required sum as `parseThreshold` does
(least common denominator, `Math.round`); the sum is `NaN` where `weights[idx]` is `undefined`, as in
JavaScript (`SumMeets`). `SignEvent` of `Multisig` is `signEvent` by one member, with `index`
placing the signature and the duplicate removed; `Receive` is a signature that was received with the message
and may be wrong or at a foreign index.

**KeyEvents, KeyEventLog.** `CanIncept`, `CanInteract` and `CanRotate` are the conditions under which the
branches of `append` do not throw, in its order; `Extend` is the log it returns. `Options` are
`AppendOptions`. `KeyEventLog` lets any message of a set arrive at any time under any of a set of options;
a message that throws leaves the log alone, and so is no step.

**EventStore, Witness, Kawa.** Rows are kept in the order in which `getKeyEvents` returns them: by sequence
number, then by insertion. `From` is the set of the one log `KeyEventLog.from` makes, or empty when it
throws. `BeginReceipt` is `Witness.receipt` up to the `await` of its signer, `FinishReceipt` the save after
it; `HandleReceipt` has no await and is one step. In `Kawa` a session is a caller: `Incept`, `Anchor` and
`Rotate` build and sign an event from the stored log (`ParsedThreshold` is its `bt`, written in decimal and read
in hexadecimal); `RequestReceipt`/`Receipt`, `NoReceipt` (refused),
`RequestFails` (never arrived) and `GiveUp` (abandoned while the witness works; the witness's `LateReceipt`
follows) are the first pass; `Disagree` and `Agree` the comparison with `toad`; `Deliver`, `DeliveryRefused`
and `DeliveryFails` (processed or not) the second pass; `Finish` and `Rejected` are `processMessage`.
There is one identifier, with one signing key at a time, as the controller makes them, and the witness list
is that of its inception, because `rotate` of the controller passes none.

**KelStream, Introduction.** `FromMessages` is the set of the one log `fromMessages` returns, or empty when
it throws; `BuildFor` counts the links of a delegation chain, as one that is longer than there are
identifiers is a cycle. `Enroll` and `Intake` are what the mailbox and the portal do to their tables: an
owner posts copies of its first events and an end role sealed to one of its establishment events; anyone
pushes copies. `Introduce` is `introduce` up to its first `processMessage`: the fetch and the verdict on the
whole stream. `ProcessEvent` and `ProcessReply` are one `processMessage` each, as each is awaited, `Return`
the end; `Deliver` is a `processMessage` for an event that came by itself, and `Forwarded` the unverified
save of `query`. `Answers` has the host's own answer and that of hosts which put the delegator's events
first, as in the repository's `delegated.cesr`.

**EventIndex, CredentialVerification.** `Flatten` is `flatten` with `Merge`; the sets of hints of a message
are its couples (no prefix) and triples. `flatten` appends what an exchange embeds to the list it goes over, so what is
embedded there is unwrapped in its turn (a grant in a mailbox's `/fwd`, `event-index.test.ts:89-96`). `Pending`
lays this list out level by level: what is nested equally deep follows what is less deep, in the order of the exchanges that
carried it. The levels end at `MaxNesting`, and an assumption says that nothing in the stream is nested deeper. `Union`
keeps the first signature of an index, which is the one
`verifyThreshold` finds. Copies with one SAID may differ in their bodies, as nobody computes the SAID of a key event
again; a pooled signature that was made on another body than the one kept is no signature by any key (`SigsOver`). The stream comes in `pieces`; `Collect` builds the index, `VerifyIdentifiers` the logs of
the identifiers in it (the first pass of `verify`); after that a step is one turn of the loop of `verifyCredentials` or of `verifyEdges`, and `stack` holds the calls of `verifyEdges`
that have not returned, whose credentials are `visiting`. `Checks` are the checks of a credential in the
order of `verify`, without the edges; `intact` says that a digest, and those of the sections, recompute.

**Issuance.** A key event is the sequence of the seals of its chain, so that two events built on the same log
differ by their seals alone. `CreateRegistry` and `IssueCredential` are the calls up to the first request to a
witness (the event is built from the log as it is then), `Commit` the store of the event that seals, after the
witnesses' agreement (`Kawa`) or `FailCommit` without it, `SendToWitness` the registry or issuance at the witness,
`Store` its `processMessage`. `SendCredentialArtifacts` and `Grant` begin a call whose `todo` holds what is still
to be sent: `Expand` reads the rows where the code reads them, `Forward` is one request, which takes the next
message of the recipient's box; `Fail` is a request that fails, served or not.

**Mailbox.** `SaveMailboxEntry` is `/fwd`, `Replay` a `tels` or `logs` query that a portal answers into the box
`/replay`. A poll is `Query` (reads the cursor), `Answer` (the entries from
the offset on, any first part of them, as the stream may end early) or `Abort`, and `Receive`: what `query`
and `receiveGrants` do after the answer, which has no await. `Crash` leaves any prefix of these writes.

**Login.** One action per access to a key-value store; accesses that the code starts together with
`Promise.all` are pending together. The store is modelled as linearizable. Words stand for the
submission they were issued for. An event of a log is the number `s` its body states and its digest; its place in the
log is something else, as `append` checks no `s`, so a log may state one number twice or leave one out. `Submit`
reads the slot of each event, `Compare` compares each event with what was read for it and not with the other events of
the log, and the writes of one submission to one slot go over one another. A refused response is told apart as the router
does: under an older key state (409) or by another signer (400).

**CESR.** A stream is a sequence of frames, each a code, its digits (`soft`) and an opaque payload of a size; its
bytes are counted, not spelled. `CesrCodes` computes sizes from codes and digits as `frame.ts`, `matter.ts`,
`indexer.ts` and `counter.ts` do. `Frames` writes an attachment group, `ReadAttachments` is the reader. In
`CesrStream` a step is one turn of the loop of `parse`; `Chunk` is the arrival of bytes up to one of `cuts`: the
start of every frame, its last byte, and the lengths at which the parser compares its buffer.

## 3. Runs

| Run | Bounds | What it shows |
| --- | --- | --- |
| `multisig` | 3 signers, a foreign key, a repeated key, simple thresholds 0-4, 18 weighted ones | the verdict of `verifyThreshold` is the threshold's, and further signatures of members never revoke it |
| `multisig_short_weights` | two weights for three keys | **violation**: see findings |
| `key_event_log` | logs of 4 events out of some 230 messages: two generations of keys, two-key variants, three witnesses, missing and wrong signatures and receipts, delegated events with right, wrong, foreign and absent hints, two snapshots of the delegator | pre-rotation, signing, witnessing and delegation over the whole history; the log refines `KeyHistory` |
| `key_event_log_continuity` | the undelegated messages, 3 events | **violation** |
| `kawa` | 3 witnesses, toad 2, 3 calls of two callers, 1 of them while another is under way, 2 failed and 1 abandoned request, sequence numbers to 2 | what is stored is held by the threshold; stores replay; calls end, and succeed with complete entries when nothing is lost and calls do not overlap |
| `introduction` | a delegator with a witness and three events, its delegate with one; copies without receipts and with another hint | what the receiver stores replays; an introduction that returned stored all it judged, with the delegator's approval where that was judged; one that failed does not keep out the true history |
| `verification` | streams of up to 4 of 16 pieces, in every order (some 414,000 states): an issuer and its registry, bare and attached copies, a grant and a forwarded grant, wrong hints, a substitute issuance, a revocation (in an exchange, with its seal), an event with a forged signature, another body under the SAID of an event, a forged inception of the issuer with what it sealed, a chain, a wrong schema, a cycle, a delegated issuer; exchanges nested twice | an issued credential was sealed by its issuer, if the log begins with the issuer's inception; the verdict is the one the edges define; the order of a consistent stream is immaterial; verification never gets stuck nor descends twice |
| `mailbox` | 2 boxes of 2 entries, 2 pollers (symmetric), deposits and replays of one and of two events, 1 crash | no message before a cursor is missing, no grant without credential, the cursor returns only by an overtaken poll |
| `login` | 2 tokens (symmetric), 5 logs of 2 identifiers: before and after a rotation, with a rotation and its fork under one number, with a number left out; 3 requests, 1 failed access, one submission recording at a time (some 3 million states) | recording before challenge and first-seen stability, as far as a log that states a number twice leaves them; authentication by a response to a challenge for that log |
| `login_one_shot` | 3 requests | **violation** |
| `issuance` | 2 issuers, one with a witness; a credential of one that rests on a credential of the other, and a third; 2 callers (symmetric), 2 sealing events per log, 2 calls that send, 1 call while another is under way, 1 failed request | what is stored is sealed by the event it names; a seal gets its row while no request fails; every first part of a recipient's box is founded |
| `cesr` | 16 streams: empty and full attachments, every group of version 1, groups nested in pathed couples, groups of version 2, counts on both sides of 64^2, indices on both sides of 63 and up to 4095, bodies of the largest sizes, groups outside an attachment group, two streams with a flaw; any chunks out of `cuts` | the parser implements `Delivery` and never takes a flawed stream for one that has ended; a signature comes out with the index it was made for |

Why these bounds are enough to be interesting: four events hold a rotation, what follows it and what was
before it. Three calls hold an inception, an event and its retry or successor; two losses are enough to
split three witnesses in every way. Two entries and two pollers let one poll overtake another and a crash
hit between them. Three events of a delegator hold its
approval of the delegate and a rotation after it, which is where a gap and a late receipt matter. Four pieces
hold an issuer, a chain on its credential, and two things that disturb it; two levels of exchanges are what mailboxes forward. Two sealing events per issuer hold
its registry and an issuance, or two calls that seal at the same sequence number. Three login requests are a submission, a re-submission or a second response, and a
response. Each property has a mutant: a plausible bug in a mapped definition with which TLC refutes it.

`CHECK_DEADLOCK FALSE` is set where the bounds, or the end of all calls, stop the system.

**Conditional properties.** Some hold only under conditions that the properties spell out:
`CommittedIsHeld` and `StoreReplays` while calls have overlapped once at most (see the observations),
`AtMostOneAgreement` and `CompleteEntries` while no request has failed and no calls have overlapped,
`WitnessReplays` while none was abandoned and no calls have overlapped, `SealedIsStored` while no request has
failed, `FoundedInOrder` except for credentials whose issuance is stored while or after their artifacts are sent,
`DeliversInOrder` and `KeysFound` until a chunk tears a genus or a group outside an attachment group, `Retryable`
while the receiver's table has no gap, `IssuedIsSealed` (its claim about the seal) where the log that the stream gave for the
issuer begins with an event that the issuer has published (`StartsTrue`), `IntroducedIsApproved` for streams that have
the delegator's events, `OrderIsImmaterial` for streams that do not contradict themselves,
`RecordedBeforeChallenge` and `FirstSeenStable` while one submission at a time records (`MaxRecording = 1`; the comment at `login.ts:71-73`
accepts that race) and only up to which of several events of one number in one submission remains, `GrantsFollowCursor` without a crash and without a broken grant. Dropping a condition gives a counterexample in each case.
So none of them says anything of the cases it leaves out; where nothing else catches these, the entry under `hazards` says so.

**Fairness.** `kawa` and `cesr` use it. In `kawa`: weak fairness of the steps of a call and of a witness that has begun to
sign. Both are async functions which await only requests, timers and the signer, each of which settles: a
request is answered, refused or fails. In `cesr`: weak fairness of the parser with the arrival of chunks, as
`parse` is a loop that awaits nothing but the next chunk of a stream that is sent to its end. No fairness is
assumed of callers or of the network.

### Findings

- `multisig_short_weights`: a weighted threshold with fewer weights than keys makes the sum `NaN`, and
  `NaN < required` is false: any one signature at an index without a weight is enough (`verify.ts:65`).
- `key_event_log_continuity`: `append` checks neither `s` nor `p`; `docs/specs/keri.md:141` says it does.
- `login_one_shot`: two responses to one challenge are both answered 204 (`login-router.ts:176`).

### Observations

What modelling and the runs showed beside the findings; no run is kept for these:

- One lost message of the second pass of `submitToWitnesses` leaves witnesses with a row that their own strict
  replay refuses (`witness.ts:109`); they receipt no further event of the identifier.
- A rotation that two `anchor` calls overtake is accepted behind their events, as `append` checks neither `s` nor `p`
  (the finding `key_event_log_continuity`), and read between them, as rows come back by sequence number. The second
  of the two is signed with the keys before the rotation, and the controller can no longer load its own identifier.
  `MaxOverlaps = 2` and `MaxCalls = 4` in `kawa` reach it once `AtMostOneOverlap` is dropped.
- A `dip` is accepted unapproved when no events of its delegator are in the stream (`key-event-log.ts:202`), and
  `verify` then reports it, and what it issued, as ok; `verify-report.ts:51-53` says that a missing delegator is
  reported.
- `bt` is written in decimal and read in hexadecimal by `commit` (`controller.ts:359`): from ten on a call asks
  for more receipts than the event does (for 16 where that says 10).
- After a gap (a rotation accepted while an event before it is missing, which `append` does not notice) a
  receiver refuses the true history for good; this is why `Retryable` has its condition.
- An unverified upsert (`handleIntake`, a second enrolment) replaces the attachments of a stored event, so a
  host may come to serve an event with fewer receipts than it had, and `introduce` fails half-way.
- An inception is taken with any identifier and any SAID: `append` (`key-event-log.ts:163-255`) recomputes neither, while
  `docs/specs/keri.md:140` says "Verify SAID — recompute and compare `d`". A stream with an `icp` that names an
  issuer's identifier but is signed with other keys gives a log that verifies, and `verify` reports what that log seals
  as issued. This is a divergence of code and document like the findings; in the models it appears as the condition `StartsTrue` of
  `IssuedIsSealed`. Without it TLC refutes the property, with the piece that begins with `Icp0` in `MCVerification`.
- Login: a submission may hold two different events with the same `s`, as `append` does not compare `s` with the log
  (the finding `key_event_log_continuity`). Both find their slot empty, both are written to it (`login.ts:77-93`), one
  remains, and the token is challenged for a log of which one event is not recorded. `login.ts:66-70` says
  "first-seen wins" and that a stored event of another digest is duplicity; `login.ts:8-11` says "Every key event the
  verifier has ever seen". `RecordedBeforeChallenge` and `FirstSeenStable` claim what is left of
  this: the slot holds one of the events that this submission has for the number, never one of another log.
  Without that allowance TLC refutes both.
- `introduce` strips replies of their signatures before it stores them; what it stores cannot be verified later.
- Pooling signatures can hurt: `verifyThreshold` refuses a message with one wrong signature, so a copy with a
  wrong one at an index that no copy before it has makes the pooled message fail (the comment at
  `event-index.ts:161-162` assumes it is ignored). `Consistent` excludes contradicting signatures only at one
  index; the pieces of `verification` have no such copy.
- Issuance: a call that fails after its event is stored leaves a seal without its registry or issuance; another
  `createRegistry` makes another registry, another `issueCredential` seals again. Overlapping calls of an
  issuer seal in two events of one sequence number (without witnesses both are stored). `sendCredentialArtifacts`
  reads the log before it sends the sources and the issuance after them: an issuance that is stored
  meanwhile reaches a recipient that has not been sent the event that seals it.
- CESR: an index of exactly 64 cannot be encoded, as `Indexer.crypto` keeps the small code up to 64 and that has
  one digit (`indexer.ts:170`); the streams of `cesr` have 63 and 65. A genus that a chunk tears makes
  `parse` throw. Groups outside an attachment group are read as far as the buffer goes, so that what a message
  gets attached depends on the chunk; a second group replaces what the first has attached. The size of a modern
  body is read from three of its four digits, so bodies of 262144 bytes or more are cut short. A modern body
  selects the codes of version 2 for the groups behind it, while `Attachments.frames` writes those of
  version 1. An ungrouped pathed couple without attachments cannot be read back.
  `parse` takes the body encoded again off its buffer (`parse.ts:94`), `CesrStream` the size that the version string declares; the two
  differ only for a body that is not in the form the encoder gives it.

## 4. Proofs

Each `*Proofs` module proves theorems about the specification of one component, for every value of the
constants that satisfies the component's `ASSUME`, which says what the constants are (a list is a
sequence, an identifier has an owner) and which TLC evaluates on every run. `Introduction` has a second one,
`HistoryAssumption`, about the logs that owners write, and `CredentialVerification` has `TruthAssumption`: only owners
sign with their keys. The bounds that make the runs finite
(`MaxEvents`, `MaxRequests`, ...) are arbitrary numbers in the theorems.

| Module | Theorem | Property | Beyond the component's `ASSUME` |
| --- | --- | --- | --- |
| `KeyEventLogProofs` | `TypeCorrect` | `TypeOK` | |
| | `StateReplaysHolds` | `StateReplays` | |
| | `PreRotationHolds` | `PreRotation` | |
| | `SignedByKeysInForceHolds` | `SignedByKeysInForce` | |
| | `RotationSignedByCommitmentHolds` | `RotationSignedByCommitment` | |
| | `WitnessedByBackersInForceHolds` | `WitnessedByBackersInForce` | |
| | `DelegationApprovedHolds` | `DelegationApproved` | |
| | `ImplementsKeyHistory` | `KeyHistoryImplemented` | |
| `MultisigProofs` | `Sound` | `ThresholdSound` | every key has a weight |
| | `Complete` | `ThresholdComplete` | |
| | `NeverRevokes` | `SigningNeverRevokes` | |
| `MailboxProofs` | `TypeCorrect` | `TypeOK` | |
| | `NothingSkippedHolds` | `NothingSkipped` | |
| | `CursorAdvancesHolds` | `CursorAdvances` | |
| | `GrantsFollowCursorHolds` | `GrantsFollowCursor` | |
| `LoginProofs` | `Authenticated` | `AuthenticatedByResponse` | |
| | `RecordedFirst` | `RecordedBeforeChallenge` | one submission records at a time |
| | `FirstSeen` | `FirstSeenStable` | one submission records at a time |
| `IssuanceProofs` | `Sealed` | `RowsAreSealed` | |
| | `Stored` | `SealedIsStored` | |
| | `Founded` | `FoundedInOrder` | |
| `StreamProofs` | `Held` | `IntroducedIsHeld` | |
| | `Backed` | `ReplyBacked` | |
| | `Approved` | `IntroducedIsApproved` | `Null` is not a log |
| | `Replays` | `ReceiverReplays` | `HistoryAssumption` |
| | `CanRetry` | `Retryable` | `HistoryAssumption` |
| | `VerificationTypeCorrect` | `CredentialVerification!TypeOK` | |
| | `VerdictFounded` | `OkIsFounded` | |
| | `SealedByIssuer` | `IssuedIsSealed` | `TruthAssumption` |
| | `StreamIsBag` | `OrderIsImmaterial` | `TruthAssumption`, through an invariant it shares |
| `KawaProofs` | `HeldByWitnesses` | `CommittedIsHeld` | |
| | `AlwaysReplays` | `StoreReplays` | |
| | `WitnessesReplay` | `WitnessReplays` | |
| | `OneAgreement` | `AtMostOneAgreement` | |
| | `EntriesComplete` | `CompleteEntries` | |
| | `CountedIsHeld` | (`ReceiptsFounded`) | |

**KeyEventLogProofs.** The inductive invariant `IInv` joins the seven invariants with `StateShape` (a state has
all its fields, which `merge` preserves) and `BackersReplay`. `PreRotation` alone is not inductive: `append` compares
a rotation with `state.nextKeyDigests`, and only `StateReplays` says that these are the digests of the last
establishment event of the log; `StateReplays` in turn needs that only the first event is an inception
(`TypeOK`). `WitnessedByBackersInForce` is about the witnesses that a replay of the whole log finds
(`BackersAfter`), while `append` checks receipts against `state.backers`; `BackersReplay` says that they are the
same. `BackersAfter` is a recursive function over the log: it is shown to satisfy its equation at each position
and to change nothing at earlier positions when the log grows. `RotationSignedByCommitment` rests on
`SignatureNeeded`: a threshold that is met has at least one valid signature. The lemmas about `InForce`
say that appending changes nothing for earlier positions and that the event in force is unique. Each invariant
has a lemma for one step, split by the three kinds of events; `Inductive` combines them. The theorems cover options
that TLC's runs do not combine, such as `allowPartiallySigned` and `allowPartiallyWitnessed` from one append
to the next.

**MultisigProofs.** The verdict of the code is about integers scaled by the least common denominator; the properties
are about fractions, scaled by the product of all denominators. Both scales are multiples of every denominator
(`CommonDenominator`, `ProductDivisible`), so neither division leaves a remainder and `Math.round` has nothing to
round; the two sums are then proportional (`Proportional`) and one reaches its whole exactly when the other does
(`ReachTogether`). That the least common denominator is a multiple of each denominator comes down to Euclid's loop
(`GcdEquation`, `GcdDivides`). The invariant needed is only that of the types: the verdict is a function
of the state. `Sound` is about lists of keys with a weight each, because without that it is false: the run
`multisig_short_weights`.

**MailboxProofs.** `NothingSkipped` is not inductive: it says nothing of polls under way, whose answers were read
from the box as it was then and at an offset that the cursor may have left since. `StretchesHeld` says that an
answer is a stretch of its box from its offset to some end, `OffsetsReached` that all before the offset is stored.
Then what lies before the end of the stretch is stored once the answer is, and `NextOffsetIsEnd` shows that the
cursor goes to that end and not beyond. Boxes that grow disturb neither (`DepositStep`). `GrantsReached` is
`OffsetsReached` for the credentials of grants; it is needed for the same reason.

**LoginProofs.** Two invariants. `IInv` follows the words: every record of the session store, and every
record a response has read, is about a submission that was made with that token (`ChallengesFounded`,
`ResponsesFounded`), and each outcome that is about to be written was earned (`OutcomesFounded`). It holds under
any overlap and failure and gives `Authenticated`. `RInv` follows the events. `AllKnow` says, for each phase, what a
request knows of the stored events: while it reads, what it has read is still there; where a write is pending, every event of its
log with that number was found missing, and what has come there since is of this log (`Clear`); what it has
written, or did not need to write, is there or has given way to an event of the same log. `ReliedRecorded` says that the
logs relied on (of a token, of a submission that issues its challenge, of a response about to save) are recorded in the
sense of `RecordedBeforeChallenge`, and `AllApart` that no write is pending for a number that such a log states: by
`Clear` that slot was empty, or holds an event of the very submission, when the log was recorded. So a log that states a
number twice disturbs itself alone. All this holds only while one submission records at a time (`OneRecords`, from
`MaxRecording <= 1`), as two that overlap write over one another; the comment at `login.ts:71-73` accepts that race.

**IssuanceProofs.** A registry or an issuance is stored three steps after its seal was chosen, and a request can
fail in between. `SealsFounded` says what a call in the middle relies on: its event ends with a seal of this
owner that stands for something stored, and after the commit the event is in the log. `SealsServed` says that a
seal without a row has a call that goes on to store it. Overlapping calls keep both, as a log only grows.
`FoundedInOrder` speaks of what is in a recipient's box; it is not inductive, because `Forward` moves messages
there from the `todo` of a call, of which it says nothing. `OInv` says of each call's `todo`, entry by entry,
what the property says of the box: what an entry rests on is in the box or earlier in the list. Entries that
stand for several (`Expand` reads rows where the code reads them) are refilled with a list that is in
order itself, as the log is (`LogInv`: an event comes after what it is built on, a registry is made
once). What is still disturbed stays so: a step only adds to the log, to the rows and to the box.

**StreamProofs**, on introduction. `introduce` judges a whole stream and stores it event by event, with other work in
between. `JudgedIsDue` says that each judged event is stored or still to come in the call, `RepliesDue` the same
of the event an end role is sealed to, which rests on what the host itself stores (`HostBacked`). That needs the tables
to grow only (`SavedGrows`) and `fromMessages` to return a log made of the stream and nothing else
(`FromMessagesIsLog`). `KeyEventLog.from`, `buildFor` and `enroll` loop over messages: the recursive functions
that stand for the loops are shown to exist, and to have their property at each position, by induction over the
positions.

**StreamProofs**, on what is stored. `ReceiverReplays` says only that a table loads, which says nothing of the next event:
`append` judges it at the end of the log and `getKeyEvents` returns it at its sequence number, before events that were
judged without it. `AllSane` relates each table to the history of its owner (`Sane`): it is in order, whatever
establishment events precede one of its events are there as well, and each of its rows, with the signatures and
receipts it came with, extends the history up to it. Interactions may be missing, as `append` checks neither `s`
nor `p`. That such a table replays (`SaneReplays`) is because `append` looks only at keys, commitments and
backers, which interactions leave alone (`Like`, `LikeAccepts`). That an event keeps the table sane is `Accepted`: an interaction
that verifies is signed with keys of the last stored establishment event, and a rotation is committed to by it; only one event
commits to a key, so that this one was in force when the event was written and nothing that matters is missing before it.
`SaneForwarded` is the same for events that arrive in order without a check, and `Authentic` says that what the host hands out are copies of
events of the history. `CanRetry` follows the complete history through `processMessage` from such a table
without a gap (`Leading`): what is stored is skipped, the rest is accepted.
This rests on `HistoryAssumption`, which TLC evaluates in `introduction`: the owners run `controller.ts`, so a history
replays, is numbered upwards, and has its interactions signed with the keys in force; `incept` and `rotate` make a new
key pair for each commitment (`generateKey`), so that one establishment event commits to it; and a copy has the body of an
event of the history. An owner who writes two histories is not covered.

**StreamProofs**, on verification. `OkIsFounded` compares the results that `verify` cached on its way with what the
edges define, a closure over the graph of credentials. `VerifyIInv` says that every cached result is right
already (`ResultsJudged`), that a call of `verifyEdges` has found of the edges it has taken what is true of them
(`EdgesTaken`), and that each call under way is for a credential that those below it lead to (`StackDescends`). The
closure is the intersection of all sets closed under edges, so that nothing is said of paths: `FoundedStep` shows
that a credential is founded exactly when its own checks pass and its targets are founded (that nothing leads
back to it follows), and `CircleUnfounded` that an edge to a credential still under way, which the code calls failed,
is one that no order of verification could find sound. The index that all this is about is shown to have one message
for a SAID (`FlattenIndexed`). The levels of `Pending`, which are a recursive function, are shown to exist (`PendingLevels`), each a
list of messages that may be nested so deep (`LevelsAreSequences`), whatever `MaxNesting` is; these two theorems assume only that the lists of the stream are lists. `TypeOK` has the
bound on the recursion: the stack has no repetition, so it is at most as high as there are credentials.

`IssuedIsSealed` relates a recorded status to what the owners have published (`Truth`), whatever copies, forgeries and substitutes
the stream has. The argument has three parts. What `Flatten` merges out of copies has the body of one of them, and
each of its signatures that counts is on that body (`MergedGenuine`). A log that `fromMessages` makes is that of one identifier, and if
its first event is published by the owner, so is each later one (`OwnersLog`, `FromPublished`): `append` takes them
only with signatures by keys in force or committed to. `keyEvents` reads the events of an identifier and, following `di`, of its delegators in one
list; `WalkedStep` goes along that chain to show that no delegator's log is taken for the identifier's (`KeyEventsWalked`). The
anchor check then has found the issuance in an event that is published (`AnchorPublished`), and `LastFound` says that the issuance
looked up is an event of the stream for this credential and that no revocation is missed. This rests on `TruthAssumption`, which TLC evaluates
in `verification` and which is about signatures alone: only an owner signs with its keys, and it publishes what it signs. Nothing is assumed of
SAIDs and identifiers, since the code computes those of key events nowhere again: inceptions in the name of others, other bodies under a known SAID,
signatures of others, copies with signatures missing, forged registry events and credentials with
changed contents are all in the stream. For an inception the code has nothing else to go by, and a log that begins with a forged one
is outside the claim (`StartsTrue`; see the observations).

`OrderIsImmaterial` compares the run with the index of the same pieces in another order. Under `Consistent` the copies of a
message agree (signatures and receipts included, as `merge` pools both), so that they merge to the same message whichever comes first
(`MergeAgrees`). Lists of the same messages have the same messages at every level of nesting (`LevelsAgree`), and so
both indexes have the same members, each once (`FlattenAgrees`, `FlattenCovers`). Members for different places
then make the rest a function of what the index has: the place of an event after `sort` is the number of those with a
lower `s` (`BeforeCounted`, `SortedAlike`), so that `keyEvents` returns the same list (`KeyEventsAlike`) and the logs are equal; there is
one event of a kind for a credential, so that the last is the only one (`LastAlike`). Without the condition it
is false: the first copy of two that differ wins. The argument itself needs only that sequence numbers are numbers
(`VerificationAssumption`); `TruthAssumption` comes in with the invariant it shares with `SealedByIssuer`.

**KawaProofs.** Four invariants. `IInv` holds whatever fails and overlaps: a receipt that a call has counted is by a
witness that stores the event of the call (`ReceiptsFounded`, the theorem `CountedIsHeld`), which rests on what
witnesses are about to save for a call (`RequestsFounded`) and on tables that lose no event. Receipts that meet a
threshold name different witnesses (`Enough`: the indices of valid signatures map to the witnesses one to
one, even where the list of backers has duplicates). `SInv` is about the order of the controller's rows while calls
have overlapped once at most: an event that is about to be stored has the next sequence number or that of the last
row (`InLine`), so that `saveMessage` puts it last (`SavedLast`) and the rows replay to what `append` was asked
about (`FromAppended`). `StateOf` says what such a replay comes to: the controller's rotations cut and add no
witnesses, so the backers are those of the inception and the threshold is `Toad` or, after a rotation, zero.
`WInv` is about the rows of the witnesses, while calls do not overlap and none is given up. A witness checks
neither `s` nor `p`, so its rows replay only because of what controllers send: `KnownBuilt` and `OneCopy` say
that every event in circulation was built from a row of the controller, and that an event built again after a failed call is the
same event with the same signatures (`BuiltNext`: one log, one next event for the same data or key); `RowsReplay` says that no
witness is ahead of the controller, so that a new row comes last; `RequestsFit` says that what a
witness saves after its await still extends the rows it was checked against. A row whose receipts are joined or replaced
replays as before, since only valid receipts are ever joined (`Reattached`, `JoinedHolds`).
`UInv` is about the entries of the witnesses, while nothing is lost and calls do not overlap (`Undisturbed`).
`AtMostOneAgreement` is not inductive by itself: that two events of one number are never both agreed on rests on every
earlier call having been answered by all. `AInv` says so: between calls the rows of a witness are those of the
controller, one by one and with the receipts of all witnesses (`Level`); during a call the witnesses that have
answered have one row more, with the event of the call and at least their own receipt (`Ahead`). The call has asked
the backers in their order and counts each that it asked, once (`Asking`), and in the second pass a receipt that a witness does not have yet is still
to be sent (`Telling`, by `EverythingTold`). `Fits` says that the event extends the log of the controller, so that a
witness in step signs it (`LevelReceipts`), no delivery is refused and the controller stores it (`FullRow`). One call
may fail without a disturbance: an inception whose `bt`, read in hexadecimal, asks for more receipts than there are
witnesses. It leaves its event with the witnesses and its keys with the controller, and no other call can begin
(`Stillborn`). Nothing is assumed of the list of backers: a repeated one is asked and told twice, and counted once.

**Lemmas.** The library states induction with an operator as a parameter, which the provers cannot
instantiate. `SetInduction` states it with a set in place of the predicate; the set of the numbers (or
positions, or finite sets) at which a function has its property is an ordinary set, and so recursive functions and
folds over data, such as `GreatestCommonDivisor` and the sums of weights, can be reasoned about after all.

Only model-checked: the CESR modules (recursive operators, which take a module out of reach of
the provers); and liveness, which the provers do not support.

## 5. Plan

Done, in this order: thresholds, key event log with its abstraction and proofs, event table, witness,
KAWA, mailbox, login, key event streams and introduction with enrolment, event index and credential
verification, CESR codec and parser, issuance by the controller, the replay of a portal, the text form of `bt`,
proofs about the
key event log, thresholds, the mailbox, login, issuance, introduction, KAWA and credential verification. Next:

1. **`delegatedIncept`**: the delegator's anchor and the delegate's inception, in two identifiers of one controller.
2. **Presentations**: the records of `verifier.ts` and the two challenges that `verifier-router.ts` tells apart.
3. **Abstract `WitnessedLog`** that `Kawa` implements while nothing is lost.
4. **Proofs**: the invariants of `CesrStream`, once its parser is written without recursive operators.

## 6. Not modelled

The payload of CESR codes, their raw and binary (qb2) forms and the codes that key event streams do not use (data,
covered by test vectors), Ed25519 and Blake3 (a signature is by its key), how a SAID is computed (whether that of a credential or registry event recomputes is a
field of it, `intact`; those of key events are computed nowhere), endpoint discovery (endpoints are given), encryption, key storage, schema documents, HTTP
routing, CORS and logging, the dispatch and the records of presentations, the CLI and the React UI,
`delegatedIncept`, the listing of credentials (`sqlite-storage.ts:266-277` selects by registry without the type, so
that `listCredentials` also returns events), the offset fallback for mailbox servers that send no ids, eventual
consistency of the deployed key-value store, and concurrent writers of one SQLite file.
