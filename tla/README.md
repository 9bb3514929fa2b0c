# Folio in TLA+

Folio (this repository) turns documents into reviewed, structured data: a workspace has
parsers, a parser has fields and documents, an AI provider proposes fields and extracts
values, people review, approve, export and have results delivered. Everything durable is in
PostgreSQL and an object store; requests, background workers and short-lived hosted
invocations are concurrent clients of both. The specifications here model how those clients
interleave, TLC checks them on small instances, and TLAPS proves the central ones for every
instance.

`PROJECT.json` names for each definition the source lines it models, for each run its
properties, and for each hazard of the code the property that would notice it go wrong.

## 1. The system

### Components

| Component | State it keeps | Operations | Hard behaviour | What makes it correct |
|---|---|---|---|---|
| AI work claims: `worker.ts`, `schema-suggestions.ts`, `split-suggestions.ts`, `runnableAiWorkSql` | `jobs`, `schema_suggestions`, `split_suggestions`: state, attempts, lease | claim, save, record failure, recover expired | three lanes share a FIFO and a capacity across processes; queries read old snapshots; leases expire under a late answer; crashes | never past the plan; nobody overtaken; only the current attempt settles a row; everything settles |
| Parser setup and documents: `parser-setup.ts`, `parser-routes.ts`, `document-routes.ts`, `intake.ts`, `retention.ts` | `parsers.field_setup_state` and its pointer, held jobs, `schema_versions`, document status, latest and approved run | upload, retry setup, save fields, archive, reprocess, correct, approve, delete | field discovery finishes after its sample was deleted, its fields replaced or its parser archived; review during a new attempt | held jobs follow setup; one active job per document; drafts apply only to their base; status true to the work |
| Storage and intake: `storage.ts`, `intake.ts`, `retention.ts`, `object-reconciliation.ts` | `intake_files`, `file_deletions`, objects in a bucket or directory | reserve, write, commit, remove, reconcile | the object store is outside the transaction: crash between write and commit, a write that lands late, removal racing a commit | no referenced object is removed; no orphan stays for ever |
| PDF splits, archives: `pdf-split-intake.ts`, `stored-pdf-split.ts`, `archive-import-intake.ts` | attempts, reservations, children; request bindings, lineage | accept, replay, clean up; split a stored document, undo | part of a batch written, then a crash; the same request twice, for something else, or after its source was deleted; a split of a split | all or nothing; a replay returns the first outcome; a request keeps its meaning; a child holds the pages its lineage names |
| Saved templates: `template-mutations.ts`, `native-template.ts`, `NativeTemplateEditor.tsx` | `templates`, `template_mutations`; a pending save in the browser | save, look up, close | an answer is lost, a save arrives after it was closed, two editors share one browser | a save is applied once or never, as was told; no sent save is forgotten |
| Direct uploads: `upload-routes.ts` | `direct_uploads` with a finalize lease | reserve, bind a plan, finalize, expire | finalize twice, cleanup during finalize, two plans for one upload | an upload is decided once |
| Split suggestions: `split-suggestion-create.ts`, `split-suggestions.ts` | a private copy, write and AI leases, expiry | populate, cancel, confirm, accept, clean | cancelled or expired while written or processed; a write that outlives its request, or its lease | once a key is released only a write that outlived its lease can leave a copy; a live suggestion keeps its copy |
| Delivery outbox: `webhooks.ts` | `webhook_deliveries`: status, attempts, lease token | enqueue, claim, deliver, retry, replay | accepted but not recorded; replay under a late answer; fifth attempt lost | at least once, with one identity; bounded attempts; a stale attempt records nothing |
| Google Sheets: `providers.ts` | `sheet_writes`, cursors, credentials | reserve a range, write, settle; connect, refresh | the write succeeded, its record did not; an older authorization comes back last | one range per approval; the newest connection stays |
| Provider events: `providers.ts`, `stripe-event-recovery.ts` | `provider_events` with leases, `subscriptions`, the plan | receive, process, recover by digest | reordered events, an event settled by a worker that lost it, recovery of an event that moved on | the plan never goes back; what is settled is whole; recovery is a compare-and-set |
| Checkout: `providers.ts`, `checkout-contracts.ts` | `billing_checkouts` | reserve, create, bind, replace | Stripe is called between two transactions, answers get lost, two plans are asked for | one Session that may be paid |
| Accounts: `auth.ts`, `account-recovery.ts`, `email-verification.ts`, `account-recovery-mail.ts` | `users`, `sessions`, tokens, the mail outbox | sign in, change or reset the password, verify, send | passwords are verified outside transactions; links are made in the background and mailed late | nothing from before a change counts after it |
| Invitations: `invitations.ts`, `invitation-email.ts` | `invitations`, their outbox, memberships | create, resend, revoke, accept | the issuer loses the role, the link is replaced while it is mailed or followed | whoever joined was invited by a link that was current, from somebody who might |
| Hosted worker: `hosted-worker.ts` | the drain in flight, the initialization in flight | wake, drain lanes, abort at the budget | a wake during a drain; lanes that block each other; failed initialization | admitted work is found by this drain or a later wake |
| Monitor: `operations-monitor.ts` and its workflow, `monitor-artifact-state.ts` | checkpoints as artifacts, an incident | select, observe, prepare, send, finish | runs are cancelled, re-run and lost at any step, and only artifacts survive | every incident and recovery is mailed once |
| Restore: `scripts/backup*` | marker, receipt, key, originals, database | restore, activate | a command dies anywhere; several commands at once | services run only on one whole, activated backup |
| Exports: `exports.ts` | `export_snapshots`, status | render approved revisions | approval and deletion meanwhile | only approved revisions leave |
| Journal and notifications; pure extraction, template choice and bank rules; decoders; parser copies; web application | append-only or none | | | not modelled, section 7 |

### How they interact

- One **workspace advisory lock** (`pg_advisory_xact_lock(hashtextextended(workspace))`)
  serializes most writing requests and the worker's result transactions. Claims only *try*
  it: they already hold row locks.
- The three lanes meet in `runnableAiWorkSql` (who is first) and in the count of processing
  rows (is there room), both evaluated in a claim's own snapshots.
- Parser setup holds jobs back (`waiting_for_schema`): a held job is invisible to the lanes
  until discovery or a person supplies fields.
- A deletion enqueues the stored object for removal; direct uploads, splits and archives end
  in the same reservation, write and commit as a plain upload.
- A status change fires the journal trigger; an approval or a failure is later picked up
  by the outbox.
- Billing rewrites `workspaces.plan`, which claims, quotas and parser limits read.
- A hosted drain runs one unit of each lane after the other: AI work, deliveries, provider
  events, mails, clean-up.

## 2. Plan

In order of importance to the system. All of it is built but what is named last.

1. `AiWorkQueue` (what the lanes promise) and `AiWorkClaims` (statements, locks, leases),
   with proofs: types, capacity, order, refinement.
2. `ParserDocuments`: setup, documents, suggestions and review as transactions, resting on
   AiWorkQueue's promise, with proofs of every safety property.
3. `DeliveryContract` (at least once) and `WebhookDelivery`, the outbox, with proofs: what a
   stale attempt may record, deletion, refinement.
4. `StoredObjects`: reservation, write, commit, deletion queue and reconciliation with crashes
   between any two; `DirectUploads` and `SplitSources` over it, all with proofs.
5. `ProviderEvents` and `CheckoutSessions`, with proofs.
6. `AccountAccess` and `Invitations`, with proofs.
7. `SheetWrites` with proofs of ranges, reservations and connections.
8. `HostedWorker`: single-flight drains, budgets, wakes; liveness; types proved.
9. `OperationsMonitor` and `RestoreActivation`, with proofs.
10. `StoredSplits`: page ranges, lineage and request ids of splits; `TemplateChanges`; with proofs.

Left: pure algorithms with small
discrete inputs (template choice, rate limit windows) against reference definitions; the journal.

## 3. Modules and the code

### AiWorkQueue: the promise

Rows (of all three tables) move absent, queued, processing, then done or failed, or back to
queued; from anywhere but absent to gone. `Start` needs an attempt left and a free slot of the
plan; `Complete` stores as `result` the number of the current attempt. No locks, clocks or
workers.

### AiWorkClaims: one workspace's lanes at statement grain

Rows are numbered in the order `(created_at, id, lane)`; a worker is an invocation of
`processOneCoreJob` or of its two siblings. A claim's transaction is five steps:

| pc before | action | statement (worker.ts) |
|---|---|---|
| idle | `Scan`, `Recover` | 63-75: unlocked candidate query, then one transaction each under the advisory lock |
| polling | `Select` / `SelectNone` | 88-92: the SELECT, its subqueries reading one snapshot |
| selected | `LockRows` | 93: FOR UPDATE OF j, w SKIP LOCKED; a changed row is re-evaluated on its own columns, the subqueries keep the old snapshot |
| locked | `TryAdvisory` | 97: `pg_try_advisory_xact_lock`, gives up rather than wait |
| advised | `Recheck` | 98: `hasWorkspaceExtractionCapacity` in a fresh statement |
| checked | `CommitClaim` | 99-101: the UPDATE, commit, locks released |
| attempting | `Extracted`, `SourceMissing`, `Throws` | 105-172, outside every transaction |
| saving, retrying, rejecting | `Save`, `RecordFailure` | 175-185: fenced by state and lease_owner, under the advisory lock |

`asOf[w]` is the set of rows available at the claim transaction's `now()`, which is its start,
not the statement's time: a row that became available since is not "earlier work" even to the
fresh recheck. `owner` is `<<worker, attempt>>`, standing for a fresh UUID. `expired` and `due`
are sets of rows whose lease has run out and whose backoff has passed; time is nothing
more. `Interrupt` is a crash, lost connection or abort at any statement: the transaction
rolls back, a committed lease stays. `Save` may lose the acknowledgement of its commit, which
sends the worker to its catch block. The environment admits rows (`Admit`, uploads and
releases under the lock), deletes (`BeginRemove` takes the lock, `Remove` waits for the row)
and changes the plan (`ChangePlan` waits for the workspace row).

Two over-approximations, both safe: inserts do not wait for a claim's lock on the
workspace row (their foreign key check would), and mock billing takes the advisory lock before it
changes the plan while the model does not ask for it.

### ParserDocuments: one parser's transactions

Each action is one whole handler transaction. `jobs[d]` is the sequence of a document's jobs, a
completed one standing for its run; `latest` and `approved` point into it. `setup`, `pointer`
and `archived` are the parser's; `active` and `versions` its schema versions (1 is the
placeholder a sample parser starts with); `suggestions` is every `schema_suggestions` row in
request order. The helpers are those of `parser-setup.ts`: `QueueInitialSetup`,
`ReleaseInitialJobs`, `FailInitialSetup`, `Detach`. The worker's actions (`ClaimJob`, `SaveRun`,
`RejectJob`, `RetryJob`, `RecoverJob` and the same for suggestions) are the fenced
transactions, atomic here because AiWorkClaims shows that only the current attempt's
takes effect. What the provider answers is a choice among these actions.

### DeliveryContract and WebhookDelivery: the outbox

The contract has, for each event, an outcome and whether the destination accepted it since it
was last asked for; `Deliver` needs the acceptance, `Forget` is final. WebhookDelivery is
`webhooks.ts` at the grain of its transactions and the request between them:

| pc before | action | webhooks.ts |
|---|---|---|
| idle | `EnqueueSelect`, then `EnqueueInsert` | 67-109: one statement, two steps, because another worker's enqueue may overlap it; `Shared` is its FOR KEY SHARE on the documents, for which `Purge` waits |
| idle | `FailExhausted` | 118-128: last attempts whose lease ran out |
| claiming | `Claim`, `ClaimNone` | 131-144 |
| claimed | `LookUp` | 150-151: the integration may be disabled by now |
| sending | `SendAccepted`, `SendFails` | 164-170, outside every transaction; an accepted request may lose its answer |
| delivered, failing | `RecordDelivered`, `RecordFailure` | 172-185, fenced by `lease_token` |

`token[e]` is the number of the claim that owns row `e`, standing for its random UUID, and
`claims[e]` counts them. `Replay`, `Toggle` and `Purge` are requests. `Outcome` is the refinement
mapping: a row's status with its three unsettled values merged, "gone" once the document is deleted.

### SheetWrites: rows and credentials

One Google Sheets integration. An attempt reserves (`Reserve`, 290-306, under the integration's
row lock), refreshes and stores the tokens (`Persist`, 322, compare-and-set on the ciphertext),
writes the range (`WriteRange`) and records it (`RecordWrite`). Attempts overlap because a delivery's
lease may expire under a slow one. Meanwhile `Start`, `Consume`, `Connect`, `Disconnect` are the
OAuth requests, with Google's token exchange between `Consume` and `Connect`. Grants are
numbered in the order they are started; a ciphertext is a number of its own for each
encryption, since `encryptSecret` draws a new initialization vector. `sheet` is what Google
holds. A request that times out and is applied later writes what `WriteRange` followed
by `Fail` writes.

### StoredObjects: originals and their reservations

The same request arrives several times (`Attempts`), as a plain upload or as a batch (a split or
an archive: a source and its parts). An attempt decides (`Decide`: replay, conflict, go on), reserves
its keys in `intake_files` (`Reserve`), sends its writes (`Send`), sees them acknowledged
(`Written`), and accepts, rejects or fails; then it releases or cleans up what it did not
use. `inflight` holds writes the store may still apply after the attempt gave them up (`Land`, `Vanish`).
`intent` is the row of an object in `intake_files` with its lease, "stale" an hour past it;
`deletion` is its row in `file_deletions`. `Remove` is `deleteStoredFile`, `ReconcileRemote`,
`SweepFile` and `SweepIntent` are `object-reconciliation.ts`. A commit may lose its acknowledgement
(`unsure`), a process may stop between any two steps (`Crash`).

### DirectUploads: signed uploads

An upload is `[state, owner, lease, age, plan]`; a finalizer takes its lease (`TakeUpload`), reads the
staged bytes (`ReadStaged`), and ends as a document (`FileDocument`, then `CompleteUpload`) or as the
batch (`AcceptBatch`), each fenced by owner and state. `BindPlan` is a client's confirmation,
`LapseUpload` and `AgeUpload` are clocks, `CleanUpload` is the expiry sweep. `batch`, `filed` and `refused`
are receipts.

### SplitSources: a suggestion's private copy

`populate` takes a write lease of 120 s (`BeginCopy`), verifies, writes and reads back the copy
(`Verified`, `WriteCopy`, `ReadBack`) and queues the suggestion under the lease (`QueueSuggestion`).
Its deadline of 90 s ends the operation, not the request at the store, which is given no abort signal and has
a timeout of 45 s of its own (`storage.ts:93`). So a write may be left behind in two ways. After
the deadline (`CopyTimesOut`) it is in `lateCopies` while the lease covers it (`LateCopy`), and `adrift`
once the lease lapses, which is by the clock alone (`LapseWriteLease`). After an error answer (`CopyFails`), which
the store client's own timeout is too, the lease is released at once and the write may be `adrift` already. What
is adrift is applied at any time, or never (`ApplyAdrift`); `CleaningFails` may leave a removal so. That an operation is
over before its lease lapses rests on 90 < 120 and on clocks of database and hosts less than 30 s apart.

Hence "released only after physical deletion" (`split-suggestions.ts:342`) cannot hold of every write: one that
is applied after the removal leaves an object without a key, as
`docs/AI-SPLIT-SUGGESTIONS.md:42` concedes ("not a guarantee against arbitrarily late operations"). `ReleasedIsGone` says
that nothing else does. On the filesystem the object is an unreferenced file, which
`SweepFile` of StoredObjects finds after its grace; the remote store is not enumerated. `LiveIsStored` is the other direction:
nothing applied late takes the copy of a suggestion that is queued, worked on or ready. `CopyMatchesRow` is both.

The lane's attempt has its own lease. `CancelSuggestion`, `ConfirmSuggestion`, `CompleteSplit` and
`ExpireSuggestion` are requests and clock; a cleaner takes the write lease too before it removes the copy
(`TakeExpired`, `RemoveCopy`) and forgets its key (`ForgetCopy`).

### StoredSplits: splits of splits

A file is the sequence of its pages, numbered in the file first uploaded, so that what a document
holds can be compared with what its lineage says. `Ranges`, `Plannable`, `MarkerRanges` and
`MarkerVerified` are `shared/pdf-split.ts`; `RootPages` and `RootOf` are the lineage a stored child gets.
An invocation passes from the admission of `splitStoredPdf` (`Admit`, which binds the request id in
`stored_pdf_split_requests`) or from the upload route (`UploadSplit`) through the three
transactions of `addSplitDocuments` (`Cut`, `ReserveSplit`, `CommitSplit`), each of which looks for the
request's batch again (`Prior`, `Replay`) and at its source (`SourceStands`); between them run
`RejectSplit`, `PurgeFile`, `UndoSplit` and `PurgeSplit`. `SplitFails` is every error, deadline,
lost answer and crash. Objects and reservations of the same code are StoredObjects.

### TemplateChanges: a save and what is told of it

`Mutate` and `Close` are the two transactions on `template_mutations`. An editor has `pending`
(React state), `body` (the draft, lost on reload) and one `task` with a call under way; `storage` is the
one pending record all editors of a browser share. `Save` stores before it sends, `Find` looks before a
save is sent or sent again, `Resolved` tells the outcome and clears the record. A call whose
editor went on (`EndTask`, `Reactivate`, `Reload`) stays in `late`, may arrive at any time and more than
once (`ServeLate`). `effects` counts how often a request changed a template.

### ProviderEvents: Stripe's and Resend's events

One customer whose subscription is changed `changed` times, and one email delivered to `Routes`.
`StoreEvent` is the webhook endpoint, `ClaimEvent` the claim with a token and a lease that a heartbeat
renews (`RenewLease`) and that may run out (`ExpireLease`). Processing captures the evidence of a Checkout
(`Capture`), locks the customer's row (`LockCustomer`), lists the subscriptions
(`ListSubscriptions`) and writes the plan (`WritePlan`), or takes each item (`TakeItem`); `Settle` is fenced
by the token. `Inspect` and `Recover` are the operator's two commands, joined by a digest.

### CheckoutSessions: one Session that may be paid

A request takes the billing lock (`BeginCheckout`), lists subscriptions at Stripe, resumes, retries
or replaces what an earlier request reserved, commits its reservation (`ReserveCheckout`), and only then
creates the Session (`CreateSession`, whose idempotency key is the reservation's `request_id`) and
binds it (`BindSession`). `Pay`, `Lapsed` and `Cancel` happen at Stripe.

### AccountAccess: passwords, sessions, links

`Begin` reads the row and verifies the password outside the transaction; `EnterSession`,
`ChangePassword`, `CompleteReset` and `CompleteVerification` are the transactions that follow and compare what
was read. `RequestLink` queues a request, `ResolveRequest` makes the link and its mail in the
background, `ClaimMail`, `SendMail` and `FinishMail` are the outbox, `ExpireMail` and `CleanExpired` the clocks and
clean-up. A password is its number, so that a session and a token tell which one they are of.

### Invitations: links and whoever issued them

`CreateInvitation`, `ResendInvitation` and `DeleteInvitation` are requests by members whose `rank`
changes (`ChangeRole`), a letter is claimed and checked again before it is sent (`Verdict`), the
invitee's `LookUp` and `AcceptInvitation` are two requests. `joined` remembers the link of each
acceptance.

### HostedWorker: hosts, drains, lanes

`Wake` is a mutation's response or the watchdog; `Initialize` may fail for all who wait for it; `StartDrain`
joins the drain in flight. Extraction lanes go round by round (`Try`, `Worked`, `RoundOver`,
`NextRound`) until none made progress, each other lane on its own; errors (`Throws`), the
budget (`OutOfTime`) and a host that stops (`StopHost`) end it. `due` is the durable work of a
lane.

### OperationsMonitor: a checkpoint handed from run to run

A run's attempt selects the authoritative checkpoint among the artifacts (`Select`, with
`Predecessor`, `Trusted`, `PassedOver` the selector's rules), uploads it as resumed, observes (`Observe`,
`Advanced` the incident's state machine), uploads it as prepared, mails its notices (`SendNotice`, with the
provider's idempotency key for 24 hours, refused by the code after 23), and uploads it as finished. `Displaced` is the workflow's concurrency
group, which cancels a queued run when another is queued. `Rerun`, `Refuse` and `Break` are people, the
code's refusals and everything else that can fail; `TimePasses` ages notices and artifacts (90 days). `Owed` is what the artifact
uploaded last has that was not mailed; the properties speak of it and of `mailed`.

### RestoreActivation: from an archive to a service

A restore writes the pending marker, copies originals, writes the key and loads the database; an
activation verifies everything, records the receipt and unlinks the marker. Each file is only
ever created; a command that dies leaves a part of it ("torn") or none. `Serve` is the
services' start, refused while a marker is there.

Definitions such as `RecheckSkipped` or `DetachNothing`, next to the definition they vary,
are plausible mistakes; `PROJECT.json` pairs each with the property that notices it.

## 4. Runs

| Run | Instance | Shows |
|---|---|---|
| `ai_claims` | 3 rows, 2 workers, 2 attempts, plans {1, 2}, no crashes, symmetric workers | `CapacityRespected`, `ClaimsInOrder`, and that AiWorkClaims implements AiWorkQueue |
| `ai_claims_live` | 2 rows, 2 workers, 2 attempts, plans {1, 2}, 1 crash | `EveryRowSettles`, `DeleteProceeds` |
| `parser_documents` | 2 documents, 1 attempt, 2 suggestions, 2 jobs, 2 versions | `TypeOK`, `OneActiveJob`, `HeldWorkFollowsSetup`, `SuggestingIsAlive`, `NoPlaceholderRuns` |
| `document_history` | 1 document, 2 attempts, 2 suggestions, 2 jobs, 3 versions; a file of 3 pages, 2 requests, 2 invocations, 4 documents; 2 editors, 2 saves, 2 revisions, 1 set of fields | `StatusTellsJob`, `DraftsApplyToTheirBase`; `PagesAreAsTold`, `AnswersFitRequests`; `ShownIsTrue`, `NoSaveForgotten` |
| `parser_documents_live` | 2 documents, 2 attempts, 1 job each, fair workers | `EveryJobSettles` |
| `webhook_delivery` | 1 event, 2 workers, 3 attempts, 1 replay, 1 crash, fair workers | `DeletedIsForgotten`, that WebhookDelivery implements DeliveryContract, `EveryEventSettles` |
| `sheet_writes` | 2 approvals of 1 or 2 rows, 2 workers, 3 attempts, 1 browser, 2 authorizations; 3 attempts of the monitor's runs, 2 faults, 1 external tick | `RangesDisjoint`, `OneRangePerApproval`, `ConnectionsAreNewest`; `EveryNoticeOnce` |
| `stored_objects` | 2 attempts of one request, 2 parts, 1 crash, 1 unsure commit; 2 uploads, 2 finalizers, 2 plans; 2 copiers, 2 cleaners, 2 AI attempts; 3 operators, 2 backups, 2 keys | `OriginalsKept`, `EveryObjectIsFound`, `OneOutcome`, `BytesStayReserved`; `UploadsAreDecidedOnce`; `CopyMatchesRow`; `RunsOnlyActivated` |
| `accounts` | 2 workers, 2 changes, 2 attempts, 1 review; 2 requests, 2 plans, 3 reservations; 2 browsers, 2 passwords, 2 mails; an admin and an owner, 2 letters; 2 hosts, 3 lanes, 2 units of work | `PlanNeverGoesBack`, `CompletedIsWhole`, `BudgetIsReviewed`; `OneOpenSession`; `AccessIsCurrent`; `InvitedByRight`; `AccountsTypeOK` |
| `liveness` | 1 attempt of 2 parts; 2 hosts, 3 lanes, 2 units of work | `OrphansGo`; `EveryLaneDrains` |
| `deleted_reservation` | 1 approval, 1 worker, 1 attempt | violates `DeletedHasNoReservation`: the second finding below |
| `approved_label` | 1 document, preset fields, 2 jobs | violates `ProcessedIsApproved`: the first finding below |

`MCDocumentHistory`, `MCOutsideWrites`, `MCStoredObjects`, `MCAccounts` and `MCLiveness` put components that share no state into one run: a variable `part`, fixed in the initial state, says which
of them moves. Type invariants are properties of two runs, `parser_documents` and `accounts`; those of all modules but
the abstract ones are proved, as are `ClaimInv`, `AttemptInv` and OperationsMonitor's `PromisesKept`, `GoesOnFromLast`
and `BacklogStaysShort`, which are properties of no run.

Why the bounds suffice. Capacity and order need two claims in each other's snapshot and a
third row to be overtaken or to fill the slot; a plan of 2 over three rows reaches its limit and a
plan lowered from 2 to 1 leaves too many running. A stale attempt needs two
attempts of one row and two workers. Setup needs one sample, one document waiting for it and
two discoveries, so that the later overtakes the earlier. A review that shows through needs two
jobs of one document and, to be recovered in between, two attempts. No crash is needed for
safety in `ai_claims`: an expired lease under a live worker leaves a subset of a crash's
states behind, and the proofs cover any number of crashes.

One event is enough for the outbox because its rows do not interact: each has its own token,
lease and attempts, and only the choice of the next row to claim looks at several. Three attempts
leave one in the middle that is neither first nor last; two workers, a replay and a crash
give late answers to attempts before and after the replay. Sheets need two approvals to overlap, two
workers in one approval, an attempt after both to find what they left, and two grants of which
the older comes back last.

A change of a template needs two saves to be mixed up and two editors that share a storage; a save that the
server refuses needs one reason, here a revision that is no longer the current one (with changed fields as a second
reason the run has three times the states; the proof has both). A
split of a split needs a first piece that does not begin at page 1, hence three pages; a last piece
shorter than the others, hence pieces of two; two requests, two invocations and one of four documents
to be taken, undone or deleted in between.

A split copy needs a second request and a second reconciliation that go on under or after the first one's lease; `adrift`
holds kinds of requests, so the run has any number of each.

Objects of different requests have different keys and meet only in the limits, so two attempts of
one request with two objects each are the smallest instance in which one cleans up what the other
commits, and one removal tried is the smallest limit at which an entry is failed and retried by
an operator. An upload is decided twice only by two finalizers with a lease each, a batch by two
uploads with different plans. The copy of a suggestion needs a writer, a second writer or cleaner,
and a lease that ran out in between; every step of a second cleaner is one of them. Two changes at
Stripe are the smallest history that can be applied in the wrong order, two couriers the smallest
number that can apply it so. Three reservations let a second request replace the first while the first
still creates its Session. For the monitor an incident needs `Threshold` observations, 2 here and 3
in the code, a third run sends or repeats it; a fault in the first and one in the second run cover each
pair of lost steps. A third operator is one more than a restore and an activation that overlap.

**Deadlock** is checked in the claim and outbox runs: a worker can always poll. The other
systems may stop (every bound reached, nothing asked), so there it is not.

**Fairness.** AiWorkClaims: workers poll in a loop and the platform restarts them (`WF` of each
worker's steps), clocks advance (`WF` of backoff and lease expiry). A delete that holds the
advisory lock waits in PostgreSQL's lock queue for a row that failing claims lock and release
again; the queue serves it, hence `SF(\E r : Remove(r))`. Nobody has to upload, delete, change
plans, or make a provider succeed. ParserDocuments: the lanes claim and settle
(`WF` of each document's and each suggestion's worker steps), which is what `EveryRowSettles`
shows of them; users owe nothing. WebhookDelivery: `tickIntegrations` and the hosted drain call
enqueue and then process, again and again, so a worker processes if it can (`WF`) and, being
sometimes busy, enqueues if that is possible again and again (`SF(EnqueueSelect)`; a weak
condition would be satisfied by a worker that only polls); backoffs and leases run out. Neither
destinations nor people owe anything, and `EveryEventSettles` supposes that the integration
stays enabled from some time on. StoredObjects (`UpkeepFairness`): clocks advance, a write in flight
lands or vanishes, maintenance reconciles (`WF`), and a removal that can be tried again and again is
(`SF`: the store may fail, not for ever); a running attempt goes on (`WF`) unless it crashes.
HostedWorker (`DrainFairness`): a host's lanes step and the platform's budget ends a drain; some host is
woken again and again, by the watchdog (`WakeSomeHost`), none in particular. The other components
claim safety only.

**First finding** (`approved_label`). The interface calls status `processed` "approved · ready to
export" (`src/features/bank-statements/bank-upload.ts:65`, asserted by
`tests/bank-upload-progress-ui.test.ts:37`). Approve the latest run, approve an older one, correct
the older one: `document-routes.ts:95` clears `approved_run_id`, leaves the status because the
corrected run is not the latest, and the document stays `processed` with nothing to export.

**Second finding** (`deleted_reservation`). "The deletion transaction removes the document's ...
queued delivery payloads, and Sheets write reservations" (`docs/NOTIFICATIONS-RETENTION.md:25`).
A worker that claimed the delivery before the deletion reserves after it: `reserveSheetWrite`
(`providers.ts:290-306`) looks at the integration only and inserts a `sheet_writes` row that
holds the deleted document's values. Nothing removes it: the deletion's own statement
(`retention.ts:26`) has run, and finds its rows through approvals that no longer exist. The
`webhook_deliveries` row itself is safe from this (`DeletedIsForgotten`), by the enqueue
statement's lock on the document.

## 5. What is proved

By TLAPS, for all values of the constants that satisfy the module's named assumption, any number of
crashes and lost answers. The proof modules share a layout: one lemma per part of the inductive
invariant and action that can disturb it, `InitInv`, `NextInv`, then the theorems by PTL.

`AiWorkClaims_proofs` (`ClaimsAssumption`: rows are finitely many positive numbers, at least
one attempt, the two lock-holder constants are distinct and no workers):

- `TypeCorrect`: `Spec => []TypeOK`. Inductive as it stands; it includes that a row has an owner
  exactly while it is processing.
- `ClaimsSafe`: `Spec => []ClaimInv`. Exclusive workspace row, exact holder of the advisory lock,
  locked rows unchanged, owners that name the current attempt. These five parts are
  inductive together with `TypeOK`. The sixth, `RecheckStays` (what the recheck saw stays
  true until the commit), is preserved because they are: no other claim can be between lock
  and commit, `Admit` and every settling step need the advisory lock, and a plan change needs the
  workspace row.
- `Capacity` and `Order`: `CapacityRespected` and `ClaimsInOrder` follow from `ClaimInv` and one
  step: only `CommitClaim` starts work, and there the recheck still holds.
- `Implements`: `Spec => ImplementsQueue`, with the identity on `state`, `attempts`, `result` and
  `cap`. A fenced write maps to `Complete`, `Retry` or `Fail` because the fence and
  `OwnerIsCurrentAttempt` make the worker's attempt the row's current one; a step whose fence
  fails maps to a stutter.

`WebhookDelivery_proofs`: `DeliveryTypes`, `OneAttemptRecords` (`AttemptInv`),
`DeletedStaysForgotten` (`DeletedIsForgotten`), `OutboxImplementsContract`. `DeletedIsForgotten` is not
inductive: an enqueue that has selected a document inserts its rows later. What makes it so
is the lock: a document in a worker's batch is not deleted, since `Purge` waits for the locks
that the select took. The refinement then needs `AttemptInv` in one place: the worker that records a
delivery has the row's current token, hence was accepted since the last replay.

`OutsideWrites_proofs` has the two that write where an answer may be lost, and `OutsideIsSheet` and `OutsideIsMonitor`: what the
run's composition does is a behaviour of each.

- SheetWrites (`SheetsAssumption`; it includes that `NoWrite` is no record): `SheetTypes`, `RangesStayApart`
  (`RangesDisjoint`), `ReservedOnce` (`OneRangePerApproval`), `NewestConnection` (`ConnectionsAreNewest`). Ranges are apart
  because every range ends below the tab's cursor, and a worker that holds a range holds the
  reservation's; a connection is newest because the pending authorization is newer than the stored
  one, and a consumed one is connected only if nothing newer was stored meanwhile.
- OperationsMonitor (`MonitorAssumption`): `MailedOnce` (`EveryNoticeOnce`), `PromisesAreKept` (what is owed is owed by each next
  artifact until it is mailed, and nothing else is mailed), `GoesOnFromTheNewest`, `BacklogIsShort`, `MonitorTypes`.
  `EveryNoticeOnce` speaks only of artifacts and mail, and is not inductive: what the next artifact says depends on the
  checkpoint on a runner and on which one that was copied from. The invariant `MonitorInv` (checked by TLC for three attempts before it was proved)
  has three parts besides the types and what runs are. `History`: uploads are ordered by run, attempt and phase, their notices are exactly what
  was mailed or is owed, these alternate, have ids that attempts gave them, and leave open the incident the last
  artifact says. `LastInv`: the executing attempt's uploads come last, since one attempt executes and only
  the newest run is let through. `FileInv`: the runner's checkpoint says what the history says, has the owed notice until it is sent, and
  is ahead of the history by at most one notice between observation and upload (`Ahead`), when nothing is owed.
  That carries the rest: `Select` takes the last artifact (`GoesOnFromTheLast`: the highest attempt's latest
  phase of the newest run not passed over is the last upload, because a run is only passed over if it uploaded
  nothing), so no incident is opened from a checkpoint that forgot one; an attempt observes only after it sent
  everything, so there is never a second unsent notice, and a limit of 16 is not needed; and a notice that is sent is the owed one or was
  sent before and is known to the provider, since older ones are refused.

`ParserDocuments_proofs` (`ParserInvariant` and the seven theorems that follow from it): `TypesAreKept` (`TypeOK`),
`OneJobPerDocument` (`OneActiveJob`), `HeldWorkIsTheSetups` (`HeldWorkFollowsSetup`), `DiscoveryIsAlive`
(`SuggestingIsAlive`), `StatusIsTheJobs` (`StatusTellsJob`), `PlaceholdersNeverRun` (`NoPlaceholderRuns`) and
`DraftsApplyOnce` (`DraftsApplyToTheirBase`). None of them is inductive. `ParserInv` says of every document, as a
predicate of its own row of jobs, status, references and the parser's setup (`DocInv`), that only the newest job is ever active
(`NewestWorks`, hence at most one is), that a held job is its document's only one (`HeldRow`, since nothing is
reprocessed before the setup is ready) and that a job that is not held has fields somebody chose
(`FieldsKnown`); of the setup, that there is one version until it is over (`SetupInv`); and of discovery, that one under way
is the parser's own or comes too late, and that only a finished one was applied (`DiscoveryInv`). A step on one document leaves
`DocInv` of the others alone, and a step on the parser (holding, releasing, failing the held work) is one lemma for all of them.

`Storage_proofs` has the four modules about private storage.

- StoredObjects (`ObjectsAssumption`): `ObjectsAreTyped`, `ReferencedOriginalsStay` (`OriginalsKept`), `NoObjectIsForgotten`
  (`EveryObjectIsFound`), `BatchBytesAreCounted` (`BytesStayReserved`), `KeysStandForOneOutcome` (`OneOutcome`). `ObjectsInv`
  is stated per object: what was not sent has left no trace (`UnsentInv`), a write the store may
  still apply is neither given up nor about to be removed (`InflightInv`), a reservation that a writing attempt still has
  means that nobody removed what it wrote (`ReservedInv`), and after its commit an attempt only releases, or
  takes its error path without knowing of it (`CommittedInv`). The last one is why a plain attempt with a lost acknowledgement is
  the only one that can remove an original: a batch rereads the receipt before it cleans.
- DirectUploads: `DecidedOnce` (`UploadsAreDecidedOnce`). What a request knows survives the loss of its
  lease (`KnowsUpload`): it accepts only what it verified, and gives up for good only what can never become a document; only the
  fence on the plan needs the lease.
- SplitSources: `RowAndCopyAgree` (`CopyMatchesRow`). A copier that is at work, a write it left behind that is not adrift,
  and a cleaner that removes hold the write lease; a key is forgotten by the cleaner whose name is on it and which saw the
  removal succeed, so that a copy found later was adrift (`GoneInv`). Removals, adrift ones
  too, were sent for a suggestion that was cancelled or past its time, which is never taken
  back; what was read back before stays until then (`LiveInv`).
- RestoreActivation: `ServedIsActivated` (`RunsOnlyActivated`). What a command verified stays whole, because files
  are only created; a command that removes the marker knows a receipt, which is never replaced; the marker
  outlives a restore that has not loaded yet; hence a loaded database without a marker is whole and
  activated, and a loaded database is never loaded again.

`Billing_proofs` has the two about money.

- CheckoutSessions: `OneSession` (`OneOpenSession`). The invariant that carries it: only the Session
  of the latest reservation can be open or still be created, because a reservation replaces another only
  after that one's Session is known not to be open, under the billing lock.
- ProviderEvents: `EventsTypes`, `PlansNeverGoBack` (`PlanNeverGoesBack`), `CompletedEventsAreWhole` (`CompletedIsWhole`),
  `BudgetsAreReviewed` (`BudgetIsReviewed`). The plan is kept by what a worker knows (`CourierInv`): a list it fetched under
  the customer's lock is at least as new as the plan in force, as long as it has the lock. Wholeness needs what is not left to do
  to be done (`PartsInv`), whichever worker did it. For budgets, every recovery used up one inspected failure,
  and the claim under way is not among those yet (`ReviewInv`).

`Accounts_proofs` has access, invitations, hosted workers and the composition of all that `MCAccounts` has.

- AccountAccess: `AccessTypes`, `NothingOutdatedCounts` (`AccessIsCurrent`). Passwords only grow, so a session, a token or a
  read in flight is of the current password or of an older one, and each change removes the rows of older
  ones in the transaction that makes it.
- Invitations: `InvitationsTypes`, `MembersAreInvitedByRight` (`InvitedByRight`). A letter that waits or is being sent is the open
  invitation's latest (`LettersInv`), and a link that made a member is never again that of an open invitation (`MembersInv`),
  because links are only issued, by growing numbers, and accepting closes the invitation.
- HostedWorker and MCAccounts: `AccountsTypes` (`AccountsTypeOK`). The bound on what is due in a lane needs what is in process
  in it to be counted (`Bounded`: due and busy units together were admitted), because an error or a stopped host
  makes a unit due again. The inductive invariants of the five components are conjoined: a step of one is a stutter of the others.

`History_proofs` has the two about templates and split documents.

- TemplateChanges: `TemplatesTypesHold`, `ShownStaysTrue` (`ShownIsTrue`), `SavesAreRemembered`
  (`NoSaveForgotten`). The invariant `TemplatesInv` says of an outcome that it is the receipt
  (`AnswersAreReceipts`), which never changes once there is one, and of a receipt that it is
  accepted exactly when the request changed a template (`EffectsAreReceipts`); and that a request
  is the stored one not only when it was sent, but already while an editor looks it up in order to send it
  (`Remembered`), since the storage gives it up only when its outcome is told.
- StoredSplits (`StoredSplitsAssumption`): `SplitAnswersFit` (`AnswersFitRequests`). That a batch keeps its source as long as it has
  documents needs one fact about what is computed: an accepted request has at least one range
  (`RangesFit`, for every specification and every file), so a batch begins with a document; and one about what was asked, that
  an invocation that goes on to commit found its ranges plannable (`SplitterInv`).
  `SplitPagesTrue` (`PagesAreAsTold`) has a second invariant, `PagesInv`: what is remembered of a source names the same
  pages in the first file (`RootTells`), at every stage of an invocation, in every batch and for every document. It is preserved
  because nothing that is done later changes what a document or a batch was made of (`HistoryStays`), and because a range of a range is
  a range (`RootFound`). What the pieces then contain follows from the plan alone: ranges are apart (`RangesApart`), those of one
  size cover the file (`EveryPieces`), those that agree with the text have one beginning for each marker (`MarkersFound`), and
  the cells that are charged correspond one to one to the pages that the pieces hold (`PiecesHold`). The requests with marker plans
  that the model enumerates have two ranges, in the theorem as in the runs; of page-number ranges, one.

Some definitions were changed so that they can be reasoned about, without changing what the model does: a worker
takes the first claimable event of the inbox as the one with no claimable event before it (`ClaimEvent`), `Unused` is a record no row
equals (it was a constant assumed to be no row), a range's constructor is `PageRange`, and what makes pieces fit a request
is stated of any pieces (`FitTogether`). What the monitor owes
is the rest of the last artifact's notices from the first that was not mailed (it was a filtered sequence), and attempts are counted as a set.
`ObjectsAssumption` says
that the bounds on crashes and unsure commits are numbers.

## 6. Model-checked only

- Liveness (`EveryRowSettles`, `DeleteProceeds`, `EveryJobSettles`, `EveryEventSettles`, `OrphansGo`, `EveryLaneDrains`) and
  everything that needs ENABLED: beyond the prover.
- `ProcessedIsApproved` and `DeletedHasNoReservation` do not hold: they are the findings.
## 7. Not modelled, and why

- Of the lanes: the split lane's expiry and cancellation are in SplitSources, not in the claims; a
  call with `onlyJobId`, which skips the order on purpose; the evaluation plan PostgreSQL picks
  inside a statement. Several workspaces share nothing a claim reads. `split-suggestions.ts:323-325`
  audits a suggestion as ready even if the update fenced by clock and owner changed no row; the audit is read by nobody.
- Of documents: page quotas, idempotency keys (a replay returns the earlier
  outcome and changes nothing), what templates match and extract, the fixed bank preset's version, the
  journal trigger, which attributes a status change to the newest job. Exports only as far as they
  read and set a document's status.
- Of delivery: deleting an integration (its rows go by cascade), the payloads, the attempt audit
  (written, never read back), batch limits, integrations of other kinds side by side (their rows
  and reservations are keyed by integration). Of Sheets: revoking the token at Google after a
  disconnect, role checks, the sheet's row limit, how values become cells.
- Of a suggestion's copy: signed staging; when an object that was applied after its key was forgotten is found (section 3,
  SplitSources), which on the remote store is never.
- Of storage: byte budgets as numbers (a reservation counts or does not), the renewal of signed
  staging, which checks expiry before its transaction. A plain upload whose process stops after the
  document was added and whose row then expires is answered 410 although the document exists.
- Of splits: matching a marker in a page's text, limits on documents, pages and bytes, whether the format is
  still accepted (a choice in `ReserveSplit` and `CommitSplit`), the check against a direct upload's
  request id (`stored-pdf-split.ts:93`), and the binding of a suggestion's request, which the plain routes
  refuse. Of templates: the limit of templates, the actor check before each call, text templates
  saved without a request id, changes other people make (a change and a deletion fail an
  older request alike, so only the deletion is taken).
- Of billing: the mode of a Stripe event, which completes without effect if it is not the installation's; the
  23-hour guard before a reservation is replaced (`StopCheckout` covers its refusal); a Session paid
  between the list and the retrieve, after which a second one is created: `OneOpenSession` still holds.
- Of accounts: registration, caps and limits, invitations from before issuers were recorded, the wording of
  mails. One queued request per kind is a bound, not a rule of the code.
- Of the monitor: the probes, the backlog limit of 16 (it is never met: `BacklogIsShort`), ticks older than 20 minutes. A run that is
  cancelled while it waits for the concurrency group is never passed over, so later runs refuse until
  people intervene; a first run that is not `initialize` means the history can never be initialized. Both are
  reachable in the model, and safe.
- Of restores: power loss and `fsync`, stores other than the filesystem, foreign originals, the capture and the
  read-only verification. A torn marker or receipt leaves the destination inactive until people look,
  and so does a second restore that looked early and writes its marker after an activation.
- Authentication and access checks, which are not a subject here; decoders and renderers
  (bytes in, bytes out, no protocol); the web application beyond the label above.
