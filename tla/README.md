# A verification of the upload server

TLA+ models of `divine-upload-server`, the configurations with which TLC checks
them, and theorems about them that TLAPS proves. Source paths are relative to
the repository (`src/...` below is the crate's `src` directory); `PROJECT.json`
maps every definition to the lines it stands for.

- [The system](#the-system): parts, state, operations, interactions, hazards
- [Modules](#modules): which module models what, and how
- [Runs](#runs): what each checks and shows, bounds, fairness
- [Theorems](#theorems): what is proved, from what, how
- [Limits](#limits): what is only model-checked, what is not modelled
- [Plan](#plan)

## The system

The server takes media in, stores it under its SHA-256 at Google Cloud Storage,
Backblaze B2 or both, records for each finished upload an event, delivers these
events to a processing service, and is, in another role, that service's durable
inbox. Any number of server processes share one PostgreSQL database; there is no
other shared state but the two object stores. A process runs its requests
concurrently, but most database components own one connection behind a mutex.

| Part | State | Operations | What makes it correct |
| --- | --- | --- | --- |
| Finalization inbox (`inbox.rs`, migration 003) | jobs, their destinations, stored events | accept, claim, renew, complete, lookup | exclusive leases; one completion for one input revision, made for every object that was accepted; bounded attempts; all or nothing of each event; no job forgotten |
| Inbox boundary (`inbox_http.rs`) | journal switch, deadlines | routes to the store calls | a transaction ends within its request; with the journal enabled nothing is completed |
| Producer journal (`producer_journal.rs`, migration 004) | attempts and planned operations | begin, prepare, dispatch, inspect | one namespace per assignment; plans whole, fenced and final |
| Outbox delivery (`outbox.rs`, `processing.rs`) | event rows: next attempt, token, delivered | dispatch_once, deliver | at least once; one dispatcher at a time; no event forgotten |
| Outbox intents, receipts, recovery (`outbox.rs`, migration 002) | intents, events, receipts | reserve, enqueue, forget receipt, recover, look up sources | a completed intent has its event; an uploader is answered only for a committed event; one event for one session; no recorded provider dropped; recovery is not held up |
| Resumable sessions (`resumable.rs`) | session: offset, expiry, finalized object | init, chunk, complete, abort, expiry | offset matches stored chunks; completion at most once, of the right bytes; replays answered |
| Session store and staging (`resumable_storage.rs`, migration 001) | session rows with revisions, tombstones, chunk rows, staged versions, final references; session locks | lock, load, save, delete, reserve, record, remove, sweep, finalize | deleted sessions stay deleted; no lost update; acknowledged bytes stay; a removal is complete; the sweep starves nobody |
| Canonical storage (`storage/mod.rs`) | objects at two providers | put, put_file, read, stat | one orderly version; what was answered is stored; a dual write that failed half way can be resumed |
| B2 store (`storage/b2.rs`, `multipart.sql`) | object versions, multipart uploads and their registrations | put, put_file, track, sweep | no live upload swept; no parts without a registration; registrations end |
| Request handlers (`main.rs`, `thumbnail.rs`) | none of their own | upload, mirror, chunk, complete, thumbnail, transcribe; recovery loop each 5 s, sweep each 60 s | intent before bytes, event after them; follow-ups once; nothing claimed that is not stored |
| Admission, coordination (`resources.rs`, `coordination.rs`) | four pools of permits, lock connections | acquire, lock | permits return however a request ends |
| Authentication, audit log, media types, scripts | none that outlives a request | - | not modelled |


How they interact. A direct upload, a migration or the completion of a session
reserves an *intent* (the storage policy of this owner's upload of this hash),
writes the objects, and enqueues an *event*, which completes the intent and, for
a session, adds a *receipt*. The recovery loop enqueues for intents whose request
died after its last write. The dispatch loop hands events to the configured
consumer, which may be the inbox of another deployment. Workers poll the inbox
for assignments and, with the journal enabled, have the server allocate the
namespace for what they will write.

What is hard:

- time against locks: leases, claims and session expiry run on while a
  transaction waits for a row, and answers come after the lease they belong to;
- calls that come twice, late, or after the state they refer to is gone, since
  every answer can be lost;
- state that changes between two reads or between a read and its use: mutable
  intents under a finished session, destinations under a running job, the head
  of the recovery queue;
- crashes between two durable steps: objects stored and no event, session
  finalized and no event, event accepted and no acknowledgement;
- provider requests that outlive the process that sent them: a PUT that timed
  out may land after its retry, after the abort, after the lock has gone;
- locks that are connections: they break while the work under them goes on;
- state in two places (a row and an object, two providers) that no transaction
  spans;
- futures that clients drop at any await, with the permits and locks in them;
- bounds (attempts, destinations, blocking batch, sweep page, recovery budget)
  tested in a different statement than the one they limit;
- nothing may wait for ever behind something that never succeeds.

`PROJECT.json` lists these hazards, each at its line and with the properties
that would be violated if it went wrong.

## Modules

| Module | Models | Extends |
| --- | --- | --- |
| `Inbox` | inbox and its HTTP boundary | |
| `ProducerJournal` | the journal composed with the inbox | `Inbox` |
| `AtLeastOnce` | abstract: what a delivery promises | |
| `Dispatch` | dispatch loops and delivery client | |
| `Outbox` | intents, events, receipts, session completion, recovery | |
| `ResumableSession` | sessions, their store, staged chunks, removal and the sweep | |
| `CanonicalStorage` | writes of one key at GCS and B2 by several processes | |
| `B2Multipart` | multipart uploads, their registrations and sweeps | |
| `MediaRequests` | the request handlers of one process and its admission | |
| `InboxProofs`, `JournalProofs`, `DispatchProofs`, `OutboxProofs`, `ResumableSessionProofs`, `CanonicalProofs`, `B2MultipartProofs`, `MediaRequestsProofs` | proofs | the module proved about |
| `MCInbox`, `MCProducerJournal`, `MCDispatch`, `MCOutbox`, `MCResumableSession`, `MCCanonicalStorage`, `MCB2Multipart`, `MCMediaRequests` | instances for TLC | the module checked |

The five state machines from `Outbox` on meet at the objects they write. Each is
detailed where another one takes a single step: how one object gets to a provider
is `CanonicalStorage` (and `B2Multipart` above one part), which objects and rows
make an upload durable is `Outbox`, which bytes a session promotes is
`ResumableSession`, and what a request does around all of these is
`MediaRequests`. Only `ProducerJournal` is composed with another machine in one
state space, because it takes part in the same transactions.

Operators whose comment starts with "Mistake" are plausible bugs of the
definition that follows them. No specification uses them; they show that each
property would notice such a bug.

### Inbox

`jobs`, `destinations` and `inbox` are the three tables. Timestamps are kept as
time that is left, and `Tick` decrements all of them; the code never tells a NULL
lease from an expired one, so 0 is both. accept, renew and complete lock the
job's row, then read and decide: `Begin*` takes the lock (`tx`), and
`AcceptNew`, `AcceptReplay`, `AcceptConflict`, `Renew`, `Complete`,
`CompleteReplay` or `Stale` decides and commits in one step. This is sound since
every statement of these transactions touches rows of the locked job only, so
that no one else can see or change anything between the statements; what can
happen in between, time and the other jobs' transactions, happens between
`Begin*` and the decision. `Rollback` is a passed deadline, a failed statement or
a dead process. claim uses `SKIP LOCKED` and is one action, its two statements
included. A worker is not a process of the model: it may present any lease that
was ever issued, at any time, which covers late and repeated calls. `issued`,
`acked` and `confirmed` are history: assignments handed out, with the lease time
the worker believes it has, and answers that arrived. An answer that is lost is a
step that does not add to them. `created_at` is the order of first events; lookup
changes nothing and is left out.

### ProducerJournal

Attempts are records, with their operations as a set, since the order of a plan's
list is lost in the code. The random nonce is any nonce. begin, prepare and
dispatch are transactions of the inbox's `tx` on the same row lock. `told` is
what workers learned. `ImplementsInbox` maps each journal transaction to a
renewal that is rolled back: nothing the journal does is visible to the inbox but
a lock held for a while.

### AtLeastOnce and Dispatch

`rows` is the outbox table as delivery sees it; `line` is the order of
`next_attempt_at`, which `ORDER BY` uses also among rows that are all due. A
dispatcher's fresh random token is its own name: it has one delivery at a time.
The claim commits by itself, the delivery holds no lock, and its outcome is
recorded only while the row has the token. `Deliver` has four outcomes:
confirmed, a success without the confirmation of this very event, accepted with
the answer lost, not accepted. `retry_delay` is any of `Delays`, shorter and
longer than a claim. (It is documented as capped at 24 hours; the exponent stops
at 14, so the largest delay is 5 * 2^14 = 81920 seconds and the cap of 86400 is
never used. Nothing depends on it.)

### Outbox

An intent belongs to a hash and an owner and holds a policy: mode and buckets.
`Upserted` is the `ON CONFLICT` clause: a pending intent keeps its policy, a
completed one takes the caller's and stays completed only if that is the same.
A request is a `Task` with phases: *writing* (`StoreNext`, one provider at a
time, reusing what is there), *recorded* (`SaveObjects`), *saved* (`SaveSession`,
compare-and-set on the revision), *ready* (`FinalObjects`), and the event. The
end is `Enqueue` (event, intent and receipt in one transaction), `AdoptHistory`
(the intent has moved on, but this very event exists: receipt only),
`AnswerReceipt` (another request was first), `Conflict`, or `Fail` at any point.
The transaction of `enqueue_upload_inner` is one step: it locks the receipt's key
and the intent's row before it decides. The session lock is an advisory lock of a
connection that the request does not otherwise use; `LoseLock` breaks that
connection without stopping the request. `stored` gives what each place holds of
a hash; `Erase` is the removal of media by other services, after which a new
upload makes a new version. `finalized` holds each hash's events in the order of
`finalized_at`, `waiting` the intents in that of `updated_at`. The recovery loop is
`Peek` (the first pending intent sets the byte budget), `Pick` (the queue read
again), `Consider` (the intent goes to the end; budget and destinations are
tested), `ReadNext` (object found and read), `Enqueue` or `Conflict`.

Abstracted: a hash has one size, so size comparisons cannot fail; the content
type is the first declared one for ever; stored bytes are right, since every
write is read back; places are examined and read one by one, where the code
first asks for the metadata of all of them, which stops some recoveries earlier
and starts none.

### ResumableSession

`row` is `upload_sessions` (revision, offset, whether it is finalized), `tombs`
its tombstones, `chunkRows` the reservations with the versions each names,
`stored` the staged versions at the provider and `flying` the PUTs in between.
A worker is a request handler or the sweep. `call` is what it is at: every await
of the code is a step of its own, and everything between two awaits is one.
A request takes the lock (`Lock`), loads (`Load`, which meets the expiry, too),
and works on its copy `mine`: a chunk reserves its row (`Reserve`), looks whether
a version is there already (`Found`), PUTs (`Send`), awaits the answer, records
the version and saves; a completion checks the hash, promotes, saves, removes the chunks; an
abort and an expiry run the same removal twice, as the code does: the first
attempt must succeed, the second one repeats it. The removal is `ReadRows`, `EraseVersion`,
`EraseRows`, then `Forget` (the receipt), `Drop` (the session) and, in the sweep,
`DropFinals`. A save is accepted at the loaded revision and without a
tombstone only (`CanSave`). `Land` and `Lose` are the provider's: a PUT that
nobody waits for any more may still land. `LoseLock` takes the lock from a worker
that goes on; `Fail`, `RemoveFails` and `Restart` are failures at any await.
HEAD changes nothing. Sessions of `Legacy` are those of earlier releases: one
GCS resumable upload and a manifest object, which survives the deletion of the
row, so that the tombstone alone keeps them deleted.

Abstracted: an offset counts units of 256 KiB; a chunk has the right bytes or
wrong ones; the versions of one provider stand for those of all.

### CanonicalStorage

A writer follows `put` and `put_file` from await to await: take the guard (a
PostgreSQL session lock, only where there is a database), inherit metadata, look
at GCS, send, hear or look again, take the winner's metadata, and the same at
B2. `sent` are requests under way; they land or are lost whatever has become of
the writer. GCS takes the first object only, B2 keeps every version. `doomed`
says that the guard's connection broke, which the code notices later.
A version's `orderly` is history: its writer still waited for it and had not
lost its guard. Erasure of media by other services is not in this module: a
canonical object is never deleted by the server (`Outbox` has `Erase`).

### B2Multipart

`row` is the lease of each registration in `b2_multipart_intents` (counted down
by `Tick`), `remote` and `stored` are what B2 has, `sent` the one request of
`put_file` that may still take effect, `work` where `put_file` is, `batch` what
each sweep has claimed and not yet gone through. A sweep claims with a fresh
lease, so that two processes do not abort the same uploads. Every answer can be
lost and every statement can fail. `quiet` is history: how long `put_file` has
not renewed its lease. Left out: the limit of 100 rows in one batch, the S3
client's own retries.

### MediaRequests

`req` is where each handler is, `free` the permits left, `lock` the session lock,
`hooks`, `refused` and `claims` what the process has started, refused and told.
Steps are the awaits of the handlers in `main.rs`; which permits a handler needs
and when it takes them is `Entry` and `Admit`. A dropped future is `Fail` at any
step: permit and lock go with it. The process is started in one of
`Deployments`. The video, its thumbnail and its session are one of each. A PUT
that timed out, or whose request was dropped, is in `late` and lands at any later
time or never (`Abandon`, `Land`), after a restart too. A thumbnail is looked for
(`Send`) and its answer or its outcome taken (`Keep`, `NotKept`) in two steps, so
that other writers and late PUTs come in between: GCS takes the first JPEG only,
in B2 the last one to land is shown. Two JPEGs of one video under one key differ,
since they are made of different sources, which sets them apart from the media of
`CanonicalStorage`. The write guard of `put` is left out here: it stops no PUT that
is on its way, and what is checked holds without it. ffmpeg gives some image or
fails.

## Runs

Deadlock is checked except in `canonical`, `requests`, `sessions`,
`session_sweep` and `session_cleanup`, which really stop once their bounded
requests have been made and answered.

| Run | Properties | Question |
| --- | --- | --- |
| `inbox` | `TypeOK`, `LeaseExclusion`, `CompletionCoversEvents`, `OneWinner`, `AttemptBudget`, `AcceptIsAtomic`, `SharedInput`, `ConfirmedIsRecorded`, `CompletionIsStable` | Do leases, revisions and transactions keep their promises under any interleaving? |
| `inbox_live` | `JobsEnd` | Does each of two competing jobs end, and again after a new revision? |
| `producer_journal` | `OneNamespace`, `ToldIsDurable`, `PlansAreWhole`, `GateIsClosed`, `WritesAreFenced`, `ImplementsInbox` | Is an attempt one, whole, fenced and durable, and is the inbox undisturbed? |
| `dispatch` | `TypeOK`, `OneDispatcher`, `ImplementsAtLeastOnce`, `NeverForgotten` | Do claims exclude each other; is delivery an at-least-once hand-off that happens? |
| `outbox` | `CompletedHasEvent`, `AnsweredIsCommitted`, `ReceiptsAreGenuine`, `ProvidersAreKept` | Do intents, events, receipts and answers agree under any failure, with recovery at work? |
| `outbox_live` | `Recovered` | Does recovery reach each intent it can complete? |
| `canonical` | `OneOrderlyVersion`, `AnsweredIsStored`, `CopiesAgree` | Is what was answered stored, once and the same at both providers, whatever lands late? |
| `multipart` | `UntrackedIsEmpty`, `PromptUploadsSurvive`, `RecordsEnd` | Do sweeps end what was given up and spare what is alive? |
| `sessions` | `AckedIsKept`, `OnlyRightBytes`, `NoReceiptIsOrphaned`, `NothingComesBack`, `CleanupIsComplete` | Does a session keep what it acknowledged, promote nothing else, and go completely? |
| `session_sweep` | `ExpiredAreSwept` | Does an expired session go although another one cannot? |
| `requests` | `ScannedOnce`, `ClaimedThumbnailIsWhole`, `RefusedOnlyWhenFull` | Do permits, follow-ups and claims survive dropped requests, restarts and PUTs that land late? |
| `session_cleanup` | `CleanupIsFinal` (violated) | Is nothing under way any more when a session was removed? See [A finding](#a-finding). |

Bounds, and why they do:

- `inbox`: one job, since safety is about one row and its lock; two processes, of
  which one has the journal enabled, so that two transactions contend and both
  kinds of complete occur; five events that differ in each field that the code
  compares (replica, owner, size, MIME type); two attempts, so that budget,
  exhaustion and a second assignment of a revision occur; two destinations
  against three possible ones, so that the bound is passed; lease 2 and
  assignment 3, so that a renewal is cut short by the assignment's end.
- `inbox_live`: two jobs against a blocking batch of one and a claim that takes
  one at a time, one process, so that what delays a job is the other job; one of
  them gets a second destination and starts anew.
- `producer_journal`: two nonces for up to four assignments, so that begin also
  finds none; families of two files with two orders, two sums and one list that is
  none; every process has the journal, which is the only setting in which the
  gate is closed.
- `dispatch`: three dispatchers, so that a late answer meets both a claim of
  another and one after that; a delivery of 2 within a claim of 3; delays below
  and above the claim.
- `outbox`: two requests and one recovery loop, one session for one hash, with
  admission that changes between dual writes and GCS (a rollback and a second
  roll-out). Only one hash and owner: safety is about one intent and the events
  of one hash. `MaxVersions` bounds how often media are erased and stored anew.
- `outbox_live`: two hashes of sizes 1 and 3, so that a budget taken from the
  small one does not pay for the large one; one request, dual writes only, so
  that it can die between its two providers.
- `canonical`: two dual writers with a guard, of different owners, and one
  process of an earlier deployment that writes to GCS without one, other bytes;
  three calls, so that a writer can come again after another one's late landing
  (`MaxCalls`).
- `multipart`: two uploads, so that a batch has a rest; two parts, so that an
  upload is quiet between parts; a lease of 2, so that it can pass half way. One
  sweeper; the theorems hold for any number of them.
- `sessions`: one session, since no property relates two; two requests that race
  for it, and the sweep; two chunks, one of them also with other bytes; three
  calls and two PUTs, so that one chunk is PUT twice and something comes after
  both (`MaxCalls`, `MaxPuts`); one failure and one lost lock (`MaxFaults`,
  `MaxLost`): that any number is harmless to the proved properties, the theorems
  say.
- `session_sweep`: two sessions, one of them legacy, and a page of one, so that
  one that stays would hide the other. Failures are left out, which the sweep
  would retry a minute later.
- `session_cleanup`: as `sessions`, without failures or lost locks: the finding
  needs neither.
- `requests`: three requests, one more than the permits of each pool (two; one for
  mirrors); deployments with GCS alone, with both providers, with B2. Any
  number of PUTs may be under way, at most one of each request, provider and key.

Fairness:

- Inbox: time passes (`WF Tick`). A transaction ends, since the boundary cancels
  it after 10 seconds (`WF` on decision or rollback). Some worker polls again and
  again; claim skips rows that are locked at that moment, hence strong fairness:
  a row that is unlocked again and again is met unlocked. Nothing is assumed of
  workers: they may never renew or complete.
- Dispatch: time passes, and each loop goes on (`tokio` interval, restart after
  an exit). Strong fairness says that a consumer that is asked for ever confirms
  at some time, and that not every process dies just between a confirmation and
  its recording. Without these no at-least-once sender can promise delivery.
- Multipart: time passes, sweeps go on (every 5 seconds, with the recovery loop),
  and a row that a sweep comes to again and again is settled at some time (strong
  fairness: B2 and the database do not fail for ever just there). Nothing is
  assumed of uploads.
- Sessions: a handler goes on (a PUT that is not answered times out) and the sweep
  runs every minute. `ExpiredAreSwept` excepts a session with a chunk nobody has
  learned the outcome of, which the code keeps on purpose.
- Outbox: each recovery loop goes on (5 second interval). `Recovered` claims
  something only of behaviours in which uploads, failures and erasures do not go
  on for ever: these push an intent's place in the queue back at will.

### A finding

`session_cleanup`: the plan of the B2 work
(`docs/superpowers/plans/2026-11-05-upload-server-b2-support.md:68`) says "never
report cleanup complete while provider I/O may still commit", and
`docs/deployment.md:255-262` tells operators the same. The code keeps a session
as long as one of its chunks has no version. But a chunk whose first PUT timed
out, and whose retry found nothing and was sent again, has a version: the
session can then be aborted and deleted (`resumable_storage.rs:514`) while the
first PUT may still be accepted, and leave a version that no row names. What does
hold is `CleanupIsComplete`: such a leftover has the bytes of a chunk of which
another version was recorded and removed.

## Theorems

All are proved for every value of the constants that satisfies the named
assumptions (`ConstantsAssumption`, `JournalConstants`, `DispatchConstants`,
`OutboxConstants`, `ResumableConstants`, `CanonicalConstants`, `MultipartConstants`,
`RequestConstants`), which TLC evaluates in the runs: any number of processes,
workers, events, files, sessions, chunks, parts, permits, and any bound.

| Theorem | Says |
| --- | --- |
| `InboxProofs!TypeCorrect` | `[]TypeOK` |
| `InboxProofs!LeasesExclude` | `[]LeaseExclusion` |
| `InboxProofs!CompletionCovers` | `[]CompletionCoversEvents` |
| `InboxProofs!SingleWinner` | `[]OneWinner` |
| `InboxProofs!ConfirmationsHold` | `[]ConfirmedIsRecorded` |
| `InboxProofs!LeasesAreHonoured` | `[]LeaseHonoured`: a row's lease is one its worker was granted |
| `InboxProofs!BudgetHolds` | `[]AttemptBudget` |
| `InboxProofs!AcceptAtomic` | `[]AcceptIsAtomic` |
| `InboxProofs!InputShared` | `[]SharedInput` |
| `InboxProofs!CompletionStable` | `CompletionIsStable` |
| `JournalProofs!AttemptsTyped` | the journal's types |
| `JournalProofs!JournalImplementsInbox` | `ImplementsInbox` |
| `JournalProofs!NamespacesAreOne` | `[]OneNamespace` |
| `JournalProofs!AnswersAreDurable` | `[]ToldIsDurable` |
| `JournalProofs!PlansWhole` | `[]PlansAreWhole` |
| `JournalProofs!AttemptsAreFenced` | `WritesAreFenced` |
| `JournalProofs!NothingCompletes` | `[]GateIsClosed` |
| `OutboxProofs!OutboxTyped` | `[]Typed`, where `Typed` is stated |
| `OutboxProofs!CompletedHaveEvents` | `[]CompletedHasEvent` |
| `OutboxProofs!AnswersAreCommitted` | `[]AnsweredIsCommitted` |
| `OutboxProofs!ReceiptsGenuine` | `[]ReceiptsAreGenuine` |
| `OutboxProofs!ProvidersStay` | `ProvidersAreKept` |
| `OutboxProofs!EventsAreGenuine` | an event names, in each place of one policy and in no other, a version which that place has had of this hash |
| `OutboxProofs!QueueHoldsIntents` | `[]Lined`: the recovery's queue lists each intent once, and a hash's history each event once |
| `OutboxProofs!NobodyOvertakes` | an intent that is not touched itself never falls behind its place in the queue |
| `DispatchProofs!RowsTyped` | `[]Typed` |
| `DispatchProofs!LineInOrder` | `[]TypeOK`: the line has each undelivered event once, in the order of next attempts |
| `DispatchProofs!DispatchersExclude` | `[]OneDispatcher` |
| `DispatchProofs!KeepsPromise` | `ImplementsAtLeastOnce` |
| `ResumableSessionProofs!SessionsTyped` | `[]TypeOK` |
| `ResumableSessionProofs!PromotionIsRight` | `[]OnlyRightBytes` |
| `ResumableSessionProofs!ReceiptsGoFirst` | `[]NoReceiptIsOrphaned`, which excepts sessions whose lock was lost |
| `ResumableSessionProofs!RowsOnlyGrow` | `NothingComesBack` |
| `ResumableSessionProofs!AcknowledgedStays` | `[]AckedIsKept` |
| `ResumableSessionProofs!CleanupLeavesNoRow` | `CleanupIsComplete` |
| `CanonicalProofs!CanonicalTyped` | `[]TypeOK` |
| `CanonicalProofs!AnswersHold` | `[]AnsweredIsStored` |
| `CanonicalProofs!OneVersion` | `[]OneOrderlyVersion` |
| `CanonicalProofs!CopiesAlwaysAgree` | `[]CopiesAgree` |
| `B2MultipartProofs!MultipartTyped` | `[]TypeOK` |
| `B2MultipartProofs!UntrackedAreEmpty` | `[]UntrackedIsEmpty` |
| `B2MultipartProofs!PromptSurvive` | `PromptUploadsSurvive` |
| `MediaRequestsProofs!RequestsTyped` | `[]TypeOK` |
| `MediaRequestsProofs!RefusalsAreFull` | `RefusedOnlyWhenFull` |
| `MediaRequestsProofs!OneScan` | `[]ScannedOnce` |
| `MediaRequestsProofs!ClaimsAreWhole` | `[]ClaimedThumbnailIsWhole` |

The inbox. The properties speak of assignments as workers see them, and none is
inductive by itself. `IInv` adds how an assignment relates to its job's row: its
fence is not ahead of the row's (`Numbered`), a generation names one assignment
(`OneAssignmentPerGeneration`), a lease that a worker believes in is covered by
the row's lease and generation (`LeaseCovered`), while the revision is current its
destinations are those of the job and its completion is the row's
(`SnapshotCurrent`, `DoneIsRecorded`, `CompletedByAssignment`). `LeaseExclusion`
then follows from two leases that must both have the row's one generation.
Keeping a running lease through a new revision is what `LeaseCovered` needs; the
fence's test of the revision is what `CompletedByAssignment` needs. The proof that
steps preserve it has one case per action. `BudgetInv` says that
`attempts_in_revision` is exactly the number of assignments of the current
revision, which is how a bound on a column becomes one on what was handed out;
`StoredInv` adds that destinations are finite, which counting needs.

Delivery. `DInv` says that while a claim runs the row still has its token and is
not due before the claim ends (`Claimed`), and that confirmed implies accepted
implies offered (`Honest`). Exclusion comes from the token and the wait, not
from the delivery's timeout. The refinement is proved step by step: initial
states map to initial states, every step to a hand-off step or none; the order of
the line plays no part in it. That order is `LineInOrder`. It rests on two lemmas
about sequences: `WithoutFacts` (an event that leaves the line takes nothing else
along) and `QueuedFacts` (one that is put where its delay belongs splits the line
into those due before and those due after it, which needs the least position
with a longer wait, a fact about well-founded orders), and on a fact about the
dispatcher: a row that somebody claimed is still undelivered (`Tokened`), so that
a late answer puts nothing back into the line that has left it.

The outbox. The properties are about who finds what when a task commits, so
the invariant says what a task may rely on although it holds no lock on its
intent: the intent is there (`Intended`; none is ever deleted), and the session a
request completes is one of the hash and owner it works for (`Sessioned`). With
that, `Enqueue` completes exactly the intent that its event was compared with,
and `CompletedHasEvent` follows although the policy may have changed since the
objects were written. A receipt is that of an event of this session's key
(`Receipted`), which is why an answer from a receipt, and one from an earlier
event, is an answer about a committed event. That a receipt fits its session
(`ReceiptsAreGenuine`) is a second invariant, `Bound`: whoever works on a session
that records its policy writes and takes over objects in that policy's places
only, although the intent of the same hash may have been begun anew with another
policy, and the references a completion has saved are such objects. Nothing of
this needs the session's lock: it is proved with locks lost at any time.
`ProvidersAreKept` follows from events never leaving a hash's history: of those that name a
provider there is a newest one (`Greatest`), and it is looked at. `EventsAreGenuine`
follows the objects from where they are found or stored through a task and the
record of its session to the event (`Genuine`). The queue needs one lemma,
`TouchedOrders`: an element that goes to the end moves nobody else back.

The journal. `JournalImplementsInbox` comes first: seen through `Held`, a journal
transaction is a renewal that decides nothing, so every step of the composition
is one of the inbox or none. With it the theorems about the inbox hold of the
composition (`Proved == INSTANCE InboxProofs WITH tx <- Held`), and
`AssignmentsSound` collects what the journal needs of them: fences and
generations name one assignment each, and a row's running lease is its
worker's. Of the journal itself `JournalInv` adds that an attempt is determined by
its fence as well as by its nonce (`OneAttemptEach`) and that what was told is
still true, up to a plan that was made since. `WritesAreFenced` needs
`LeaseHonoured`: a write that is allowed by the row must be one its worker was
granted. `PlansAreWhole` is a pigeonhole argument: a list as long as the family
that misses nothing of it repeats nothing.

Sessions. A worker's copy is never ahead of the row, and is the row while their
revisions agree (`Copied`): with that alone, whether or not the lock holds, a save
neither moves an offset back nor revives a session. While the lock holds, nobody
else touches the session (`Held`), so that what a worker has seen of rows and
versions stays true until its next step (`Knows`), and the bytes that were hashed
are the bytes that are promoted. `ProgressKeeps` shows once that a step of one
worker leaves what the others know true.

What was acknowledged (`AckedIsKept`) needs no lock. `Accounted` says of every
session that nobody began to remove that the rows below its offset are exactly the
bytes below it, each with stored versions of its own chunk (`Whole`), and of every
worker that its copy's offset is the row's or the start of a chunk that is kept
(`Traced`). So a request whose copy is stale meets, at the place where it would
write, the row of the chunk that overtook it, and adds none; and a save that is
accepted moves the offset over a row with a version. A complete removal
(`CleanupIsComplete`) does need the lock: `Cleanable` says that whatever is stored
or on its way belongs to a chunk that has a row, or to one of which a version was
recorded and removed (`Listed`), that a worker about to send has its row and a
removal erases just what the rows name (`Clears`), and that no version is ever
sent twice (`Once`), so that what has been erased stays away. It is the most a
removal can promise: see [A finding](#a-finding).

Canonical storage. `Knows` says what a writer may rely on at each step (GCS has
its bytes once it has left GCS), `Holding` that a writer beyond the guard still
has it unless it is doomed, `Sound` what each request under way carries: a B2
request of a dual writer has the bytes and owner of the GCS object, and while an
orderly request is awaited there is no orderly version yet.

Multipart uploads. `Sound` bounds what B2 can have by where `put_file` is: from
the first part on an open upload has a row, and without a row no part is there or
on its way. `Leases` says that lease and quiet time add up to at least a whole
lease, and that no sweep has the row in its batch before.

Requests. Every handler step is one of four kinds (arrive, take a permit, go on,
leave), from which the permits left and held add up (`Counted`), a fact about
cardinalities. `Scanned` says that without an outbox at most one request found the
video missing, `GcsLeads` that unless the process writes B2 alone whatever
writes to B2 writes to GCS first, and `Whole` that what was told of a thumbnail is
there, and that every PUT to B2, awaited or given up, then has the image that GCS
holds: so none that lands late shows another one.

## Limits

Only model-checked: liveness (`JobsEnd`, `NeverForgotten`, `Recovered`,
`RecordsEnd`, `ExpiredAreSwept`), which is out of the prover's reach with its
fairness, and the counterexample of the finding. Every invariant and every action
property of the other runs is a theorem. The inductive invariants were
checked by TLC on the runs' instances before they were proved.

Out of the live runs' reach: in `inbox_live` one process polls, so that no claim
skips a row another process has locked; the strong fairness of `dispatch` and
`multipart` excludes an event that is never confirmed and an abort that is refused
for ever. What such an event does to the others rests on the order of the line
(`LineInOrder`); a refused abort ends its batch, and what then becomes of the rest
is not checked.

Not modelled, or in part:

- authentication, the audit log (`request_log.rs`) and media type detection: they
  keep no state, and a refusal is an answer that changes nothing;
- the operational scripts: one-shot tools outside the server;
- redirects, health checks and the erasure endpoints of `main.rs`; what another
  service erases is `Erase` in `Outbox`;
- connection set-up, TLS, URL signing and the configuration's parsing; the
  clients' own retries and timeouts, which are the choice of an answer or none;
- byte limits, MIME syntax, credentials and status texts, everywhere.

Seen while modelling, and not a violation of anything the code promises:

- A request that lost its session's lock can add a receipt after the expired
  session was deleted; the receipt stays, and can answer nothing. After a lost
  lock, too, the chunks that are read again for promotion are not compared with
  the declared hash.
- A completion with a mismatching hash and an expired finished session can leave
  chunk rows and objects behind a failure; the rows keep them known. Final
  references are dropped after the session, and stay if that last statement
  fails.
- Media that is erased between recovery's read and its event is named by that
  event. With several recovery loops one may take its budget from another intent
  than the one it then picks, which postpones that intent by one round; the run
  has one loop, whose reads are disturbed by requests only.
- Where B2 is written alone, a thumbnail PUT that was given up may land after
  another request stored and told of a JPEG of another source: B2 then shows the
  late one. `ClaimedThumbnailIsWhole` promises there that a thumbnail is in B2, and
  which one only where GCS has a copy.
- A new video whose PUT answer was lost counts as stored before
  (`storage/mod.rs:497`): no request starts its NSFW scan.
- While a dual thumbnail is half written, GET answers 502; only an upload of the
  same video writes the other half.
- Stale multipart uploads are swept by the outbox's loop (`main.rs:466`): a
  process without one (GCS writes only) sweeps none of those others left.

## Plan

Done: every component that keeps state has its module, and every safety property
that a run checks is proved.

Next:

1. `Delivery`: `Dispatch` with `Inbox` as its consumer. Each event that is
   committed by the sender is stored by the inbox, and gets its job.
2. The parts of the liveness properties that are safety: which step a job, an
   event or a registration is nearer to its end by, as `NobodyOvertakes` is for the
   queue of the recovery.
3. An abstract specification of an upload (bytes declared, stored, recorded, told)
   which `Outbox` implements.
4. Two recovery loops for `Recovered`.
