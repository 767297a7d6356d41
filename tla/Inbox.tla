------------------------------- MODULE Inbox -------------------------------
(***************************************************************************)
(* The durable finalization inbox (src/src/inbox.rs, migration 003) behind  *)
(* its HTTP boundary (src/src/inbox_http.rs): events of finalized media are *)
(* accepted into shared processing jobs, and workers claim, renew and       *)
(* complete leased assignments of those jobs.                               *)
(*                                                                          *)
(* Several server processes share one PostgreSQL database.  Each process    *)
(* has one connection behind a mutex, so it runs one transaction at a time. *)
(* accept, renew and complete lock the job's row first (SELECT .. FOR       *)
(* UPDATE) and decide afterwards, so each is a Begin action, which takes    *)
(* the row lock, and a later action which decides and commits; anything on  *)
(* other rows, and time, passes in between.  claim skips locked rows and is *)
(* one action.  A transaction whose request outlives its deadline, or whose *)
(* process dies, is rolled back.                                            *)
(*                                                                          *)
(* Timestamps are kept as the time that is left.  Every comparison of the   *)
(* code treats a NULL lease and an expired one alike, so 0 stands for both. *)
(***************************************************************************)
EXTENDS Naturals, FiniteSets

CONSTANTS
    Procs,            \* server processes
    JournalProcs,     \* those started with the producer journal enabled
    Jobs,             \* processing identities: one per (pipeline, source)
    Replicas,         \* pinned copies of a source at the other provider
    Owners,           \* uploaders, and the absence of one
    Mimes, NoMime,    \* declared content types
    Events,           \* the finalization events that senders deliver
    Manifests,        \* valid completion markers
    NoManifest,
    MaxAttempts,      \* claims of one input revision     (3 in the code)
    MaxDestinations,  \* destinations of one job          (16 in the code)
    BlockBatch,       \* jobs blocked by one claim        (64 in the code)
    LeaseTTL,         \* granted by a claim or renewal    (60 seconds)
    AttemptTTL        \* granted by a claim, not renewed  (15 minutes)

\* What validate_event lets through: at most one replica.  The source and the
\* pipeline of an event are its job's identity, and its sha256 is the source's key.
EventRecord ==
    [job : Jobs, replicas : {{}} \cup {{r} : r \in Replicas},
     owner : Owners, size : Nat, mime : Mimes]

ASSUME ConstantsAssumption ==
    /\ JournalProcs \subseteq Procs
    /\ IsFiniteSet(Jobs)  \* an identity is a SHA-256
    /\ Jobs \cap Replicas = {}
    /\ Events \subseteq EventRecord
    /\ NoManifest \notin Manifests
    /\ MaxAttempts \in Nat \ {0}
    /\ MaxDestinations \in Nat \ {0}
    /\ BlockBatch \in Nat \ {0}
    /\ LeaseTTL \in Nat \ {0}
    /\ AttemptTTL \in Nat \ {0}

VARIABLES
    jobs,          \* rows of media_processing_jobs
    destinations,  \* rows of media_processing_destinations, by job
    inbox,         \* rows of media_finalization_inbox: the stored payloads
    tx,            \* the open transaction of each process
    issued,        \* history: assignments handed out, with the time their lease has left
    acked,         \* history: events whose sender was told they are durable
    confirmed      \* history: completions whose worker was told they are recorded

dbVars == <<jobs, destinations, inbox>>
vars == <<jobs, destinations, inbox, tx, issued, acked, confirmed>>

-----------------------------------------------------------------------------
Objects == Jobs \cup Replicas

\* The objects an event names: its source, which identifies the job, and its replica.
Wanted(e) == {e.job} \cup e.replicas

\* event.job_id hashes pipeline, source, replicas and owner, not size or type.
SameEventId(e, f) ==
    e.job = f.job /\ e.replicas = f.replicas /\ e.owner = f.owner

NoJob ==
    [state |-> "absent", size |-> 0, mime |-> NoMime, revision |-> 0,
     generation |-> 0, attempts |-> 0, lease |-> 0, deadline |-> 0,
     manifest |-> NoManifest, born |-> 0]

States == {"absent", "pending", "running", "completed", "blocked"}

Row == [state : States,
        size : Nat, mime : Mimes \cup {NoMime}, revision : Nat, generation : Nat,
        attempts : 0..MaxAttempts, lease : 0..LeaseTTL, deadline : 0..AttemptTTL,
        manifest : Manifests \cup {NoManifest}, born : Nat]

\* What a worker presents: the fence of the assignment it holds or once held.
Lease == [job : Jobs, generation : Nat, revision : Nat]

\* An assignment keeps the destinations it was issued for and, as history, the
\* time its last granted lease still runs and the marker it completed with.
Assignment ==
    [job : Jobs, generation : Nat, revision : Nat, destinations : SUBSET Objects,
     left : 0..LeaseTTL, done : Manifests \cup {NoManifest}]

LeaseOf(a) == [job |-> a.job, generation |-> a.generation, revision |-> a.revision]

Idle == [op |-> "idle"]

Transaction ==
    {Idle}
    \cup [op : {"accept"}, job : Jobs, event : Events]
    \cup [op : {"renew"}, job : Jobs, of : Lease]
    \cup [op : {"complete"}, job : Jobs, of : Lease, manifest : Manifests]

\* Rows are locked for as long as the transaction that locked them is open.
Locked(j) == \E p \in Procs : tx[p] # Idle /\ tx[p].job = j

Exists(j) == jobs[j].state # "absent"

\* Mistake: the fence without the input revision.
LiveAnyRevision(l) ==
    /\ jobs[l.job].generation = l.generation
    /\ jobs[l.job].state = "running"
    /\ jobs[l.job].lease > 0

\* The fence of renew and complete, evaluated while the row is locked.
Live(l) ==
    /\ jobs[l.job].generation = l.generation
    /\ jobs[l.job].revision = l.revision
    /\ jobs[l.job].state = "running"
    /\ jobs[l.job].lease > 0
    /\ jobs[l.job].deadline > 0

\* Mistake: any marker is a replay of the recorded one.
RecordedAnyMarker(l, m) ==
    /\ jobs[l.job].state = "completed"
    /\ jobs[l.job].generation = l.generation
    /\ jobs[l.job].revision = l.revision

\* complete, called again with the marker that is already recorded.
Recorded(l, m) ==
    /\ jobs[l.job].state = "completed"
    /\ jobs[l.job].generation = l.generation
    /\ jobs[l.job].revision = l.revision
    /\ jobs[l.job].manifest = m

\* ORDER BY created_at, processing_job_id.
Older(j, k) == jobs[j].born < jobs[k].born

Init ==
    /\ jobs = [j \in Jobs |-> NoJob]
    /\ destinations = [j \in Jobs |-> {}]
    /\ inbox = {}
    /\ tx = [p \in Procs |-> Idle]
    /\ issued = {}
    /\ acked = {}
    /\ confirmed = {}

-----------------------------------------------------------------------------
\* Taking the row lock, as soon as no other transaction holds it.
Begin(p, t) ==
    /\ tx[p] = Idle
    /\ ~Locked(t.job)
    /\ tx' = [tx EXCEPT ![p] = t]
    /\ UNCHANGED <<jobs, destinations, inbox, issued, acked, confirmed>>

End(p) == tx' = [tx EXCEPT ![p] = Idle]

BeginAccept(p, e) == Begin(p, [op |-> "accept", job |-> e.job, event |-> e])

\* Workers retry, and their calls may be late: any lease ever issued may come back.
BeginRenew(p, a) ==
    /\ Exists(a.job)
    /\ Begin(p, [op |-> "renew", job |-> a.job, of |-> LeaseOf(a)])

\* Mistake: completing also where the journal is enabled.
BeginCompleteAnywhere(p, a, m) ==
    /\ Exists(a.job)
    /\ Begin(p, [op |-> "complete", job |-> a.job, of |-> LeaseOf(a), manifest |-> m])

BeginComplete(p, a, m) ==
    /\ p \notin JournalProcs
    /\ Exists(a.job)
    /\ Begin(p, [op |-> "complete", job |-> a.job, of |-> LeaseOf(a), manifest |-> m])

\* The request's deadline passes, a statement fails or the process dies
\* before the commit.
Rollback(p) ==
    /\ tx[p] # Idle
    /\ End(p)
    /\ UNCHANGED <<jobs, destinations, inbox, issued, acked, confirmed>>

\* Mistakes: comparing the hint in place of the size; counting the
\* destinations before the new ones are inserted.
DifferentHint(e) == Exists(e.job) /\ jobs[e.job].mime # e.mime
TooManyBefore(e) == Cardinality(destinations[e.job]) > MaxDestinations

\* The three reasons for InboxConflict.
DifferentInput(e) == Exists(e.job) /\ jobs[e.job].size # e.size
DifferentPayload(e) == \E f \in inbox : SameEventId(e, f) /\ f # e
TooManyDestinations(e) ==
    Cardinality(destinations[e.job] \cup Wanted(e)) > MaxDestinations

\* The acknowledgement may be lost after the commit.
Acknowledge(e) == acked' = acked \/ acked' = acked \cup {e}

AcceptReplay(p) ==
    /\ tx[p].op = "accept"
    /\ LET e == tx[p].event IN
        /\ ~DifferentInput(e)
        /\ e \in inbox
        /\ ~DifferentPayload(e)
        /\ Acknowledge(e)
    /\ End(p)
    /\ UNCHANGED <<jobs, destinations, inbox, issued, confirmed>>

\* The row of a job's first event: created_at orders the jobs.
FirstRow(e) ==
    [NoJob EXCEPT !.state = "pending", !.size = e.size, !.mime = e.mime,
                  !.born = 1 + Cardinality({k \in Jobs : Exists(k)})]

Reopened(state) == IF state \in {"completed", "blocked"} THEN "pending" ELSE state

\* Mistake: a new revision frees the lease of the one before.
NewRevisionFreesLease(row) ==
    [row EXCEPT !.revision = row.revision + 1, !.attempts = 0, !.manifest = NoManifest,
                !.state = Reopened(row.state), !.lease = 0]

\* A running lease is kept, although its revision is stale from here on.
NewRevision(row) ==
    [row EXCEPT !.revision = row.revision + 1, !.attempts = 0, !.manifest = NoManifest,
                !.state = Reopened(row.state)]

\* Mistake: every new event reopens the job, one without a new destination too.
RevisedByAnyEvent(e) ==
    LET row == IF Exists(e.job) THEN jobs[e.job] ELSE FirstRow(e)
    IN  IF Wanted(e) \subseteq destinations[e.job]
        THEN [row EXCEPT !.attempts = 0, !.manifest = NoManifest, !.state = Reopened(row.state)]
        ELSE NewRevision(row)

\* The job's row after a new event: a new input revision if the event names a
\* destination the job did not have.
Revised(e) ==
    LET row == IF Exists(e.job) THEN jobs[e.job] ELSE FirstRow(e)
    IN  IF Wanted(e) \subseteq destinations[e.job] THEN row ELSE NewRevision(row)

AcceptNew(p) ==
    /\ tx[p].op = "accept"
    /\ LET e == tx[p].event IN
        /\ ~DifferentInput(e)
        /\ ~\E f \in inbox : SameEventId(e, f)
        /\ ~TooManyDestinations(e)
        /\ jobs' = [jobs EXCEPT ![e.job] = Revised(e)]
        /\ destinations' = [destinations EXCEPT ![e.job] = @ \cup Wanted(e)]
        /\ inbox' = inbox \cup {e}
        /\ Acknowledge(e)
    /\ End(p)
    /\ UNCHANGED <<issued, confirmed>>

\* InboxConflict: the transaction is dropped, with the rows it had inserted.
AcceptConflict(p) ==
    /\ tx[p].op = "accept"
    /\ LET e == tx[p].event IN
        \/ DifferentInput(e)
        \/ DifferentPayload(e)
        \/ TooManyDestinations(e) /\ e \notin inbox
    /\ End(p)
    /\ UNCHANGED <<jobs, destinations, inbox, issued, acked, confirmed>>

-----------------------------------------------------------------------------
\* Jobs whose lease has run out and which no transaction has locked.
Available(j) ==
    /\ jobs[j].state \in {"pending", "running"}
    /\ jobs[j].lease = 0
    /\ ~Locked(j)

\* Mistakes: one attempt more; blocking only beyond it.
ExhaustedLate == {j \in Jobs : Available(j) /\ jobs[j].attempts > MaxAttempts}
ClaimableOnceMore == {j \in Jobs : Available(j) /\ jobs[j].attempts <= MaxAttempts}

Exhausted == {j \in Jobs : Available(j) /\ jobs[j].attempts >= MaxAttempts}

Claimable == {j \in Jobs : Available(j) /\ jobs[j].attempts < MaxAttempts}

\* The first statement of claim blocks the oldest exhausted jobs.
Blocking == {j \in Exhausted : Cardinality({k \in Exhausted : Older(k, j)}) < BlockBatch}

Oldest(j) == j \in Claimable /\ \A k \in Claimable \ {j} : ~Older(k, j)

BlockRow(row) == [row EXCEPT !.state = "blocked", !.lease = 0]

ClaimRow(row) ==
    [row EXCEPT !.state = "running", !.generation = row.generation + 1,
                !.attempts = row.attempts + 1,
                !.lease = LeaseTTL, !.deadline = AttemptTTL]

NewAssignment(j) ==
    [job |-> j, generation |-> jobs[j].generation + 1, revision |-> jobs[j].revision,
     destinations |-> destinations[j], left |-> LeaseTTL, done |-> NoManifest]

\* claim with a job to hand out.  Its answer may be lost: the assignment is then
\* one that no worker ever presents.
Claim(p, j) ==
    /\ tx[p] = Idle
    /\ Oldest(j)
    /\ jobs' = [k \in Jobs |-> IF k = j THEN ClaimRow(jobs[k])
                               ELSE IF k \in Blocking THEN BlockRow(jobs[k])
                               ELSE jobs[k]]
    /\ issued' = issued \cup {NewAssignment(j)}
    /\ UNCHANGED <<destinations, inbox, tx, acked, confirmed>>

\* claim with none: the jobs it blocked are committed all the same.
ClaimNone(p) ==
    /\ tx[p] = Idle
    /\ Claimable = {}
    /\ Blocking # {}
    /\ jobs' = [k \in Jobs |-> IF k \in Blocking THEN BlockRow(jobs[k]) ELSE jobs[k]]
    /\ UNCHANGED <<destinations, inbox, tx, issued, acked, confirmed>>

Smaller(m, n) == IF m < n THEN m ELSE n

RenewedRow(row) == [row EXCEPT !.lease = Smaller(LeaseTTL, row.deadline)]
Renewed(a, lease) == [a EXCEPT !.left = lease]

Renew(p) ==
    /\ tx[p].op = "renew"
    /\ LET l == tx[p].of
           row == RenewedRow(jobs[l.job])
       IN /\ Live(l)
          /\ jobs' = [jobs EXCEPT ![l.job] = row]
          /\ issued' = {IF LeaseOf(a) = l THEN Renewed(a, row.lease) ELSE a : a \in issued}
    /\ End(p)
    /\ UNCHANGED <<destinations, inbox, acked, confirmed>>

CompletedRow(row, m) == [row EXCEPT !.state = "completed", !.manifest = m, !.lease = 0]
Finished(a, m) == [a EXCEPT !.done = m]

\* The worker that completed, or completed before, learns of it unless the
\* answer is lost.
Confirm(l, m) == confirmed' = confirmed \/ confirmed' = confirmed \cup {<<l, m>>}

Complete(p) ==
    /\ tx[p].op = "complete"
    /\ LET l == tx[p].of
           m == tx[p].manifest
       IN /\ Live(l)
          /\ jobs' = [jobs EXCEPT ![l.job] = CompletedRow(@, m)]
          /\ issued' = {IF LeaseOf(a) = l THEN Finished(a, m) ELSE a : a \in issued}
          /\ Confirm(l, m)
    /\ End(p)
    /\ UNCHANGED <<destinations, inbox, acked>>

CompleteReplay(p) ==
    /\ tx[p].op = "complete"
    /\ ~Live(tx[p].of)
    /\ Recorded(tx[p].of, tx[p].manifest)
    /\ Confirm(tx[p].of, tx[p].manifest)
    /\ End(p)
    /\ UNCHANGED <<jobs, destinations, inbox, issued, acked>>

\* 409: the assignment is stale.
Stale(p) ==
    /\ tx[p].op \in {"renew", "complete"}
    /\ ~Live(tx[p].of)
    /\ tx[p].op = "complete" => ~Recorded(tx[p].of, tx[p].manifest)
    /\ End(p)
    /\ UNCHANGED <<jobs, destinations, inbox, issued, acked, confirmed>>

\* With the journal enabled complete only answers for what is already recorded,
\* from one statement that takes no row lock.
JournalCompletionReplay(p, a, m) ==
    /\ p \in JournalProcs
    /\ tx[p] = Idle
    /\ Recorded(LeaseOf(a), m)
    /\ confirmed' = confirmed \cup {<<LeaseOf(a), m>>}
    /\ UNCHANGED <<jobs, destinations, inbox, tx, issued, acked>>

-----------------------------------------------------------------------------
Less(n) == IF n = 0 THEN 0 ELSE n - 1

AgedRow(row) == [row EXCEPT !.lease = Less(row.lease), !.deadline = Less(row.deadline)]
Aged(a) == [a EXCEPT !.left = Less(a.left)]

\* The database's clock moves on, whatever transactions are open.
Tick ==
    /\ jobs' = [j \in Jobs |-> AgedRow(jobs[j])]
    /\ issued' = {Aged(a) : a \in issued}
    /\ UNCHANGED <<destinations, inbox, tx, acked, confirmed>>

\* Every way an open transaction ends by a decision.
Decide(p) ==
    \/ AcceptReplay(p) \/ AcceptNew(p) \/ AcceptConflict(p)
    \/ Renew(p) \/ Complete(p) \/ CompleteReplay(p) \/ Stale(p)

ClaimCall == \E p \in Procs : ClaimNone(p) \/ \E j \in Jobs : Claim(p, j)

Next ==
    \/ \E p \in Procs :
        \/ \E e \in Events : BeginAccept(p, e)
        \/ \E a \in issued : BeginRenew(p, a)
        \/ \E a \in issued, m \in Manifests : BeginComplete(p, a, m)
        \/ \E a \in issued, m \in Manifests : JournalCompletionReplay(p, a, m)
        \/ Rollback(p)
        \/ Decide(p)
    \/ ClaimCall
    \/ Tick

Spec == Init /\ [][Next]_vars

\* Time passes; PostgreSQL and the 10 second deadline end every transaction;
\* some worker keeps polling, and a row that is unlocked again and again is not
\* skipped for ever.
Fairness ==
    /\ WF_vars(Tick)
    /\ \A p \in Procs : WF_vars(Decide(p) \/ Rollback(p))
    /\ SF_vars(ClaimCall)

FairSpec == Spec /\ Fairness

-----------------------------------------------------------------------------
TypeOK ==
    /\ jobs \in [Jobs -> Row]
    /\ destinations \in [Jobs -> SUBSET Objects]
    /\ inbox \subseteq Events
    /\ tx \in [Procs -> Transaction]
    /\ issued \subseteq Assignment
    /\ acked \subseteq Events
    /\ confirmed \subseteq Lease \X Manifests

\* The reason a revised job keeps its lease (inbox.rs:266): two workers are
\* never both inside an unfinished, unexpired assignment of one job.
LeaseExclusion ==
    \A a, b \in issued :
        /\ a.job = b.job /\ a # b
        /\ a.done = NoManifest /\ b.done = NoManifest
        => a.left = 0 \/ b.left = 0

\* A completed job's marker is the work of an assignment that was issued for
\* every object that any accepted event of the job names: an event accepted
\* between claim and complete is never silently left out (inbox.rs:264-271, 378).
CompletionCoversEvents ==
    \A e \in inbox : jobs[e.job].state = "completed" =>
        \E a \in issued :
            /\ a.job = e.job
            /\ a.done = jobs[e.job].manifest /\ a.done # NoManifest
            /\ Wanted(e) \subseteq a.destinations

\* One input revision of a job is completed by one assignment at most, with one
\* marker, however many workers held it and however late their calls come.
OneWinner ==
    \A a, b \in issued :
        a.job = b.job /\ a.revision = b.revision
            /\ a.done # NoManifest /\ b.done # NoManifest
        => a = b

\* One revision is handed out MaxAttempts times at most, and a job is given up
\* only when every one of them has run out unfinished (inbox.rs:283-284).
AttemptBudget ==
    \A j \in Jobs :
        LET current == {l \in {LeaseOf(a) : a \in issued} :
                            l.job = j /\ l.revision = jobs[j].revision}
        IN  /\ Cardinality(current) <= MaxAttempts
            /\ jobs[j].state = "blocked" =>
                   /\ Cardinality(current) = MaxAttempts
                   /\ \A a \in issued :
                          LeaseOf(a) \in current => a.left = 0 /\ a.done = NoManifest

\* An accept leaves all of its rows or none: a job's destinations are exactly
\* the objects of its stored events, also after an event was refused because of
\* the bound (inbox.rs:262), and every event told to be durable is stored.
AcceptIsAtomic ==
    /\ \A j \in Jobs :
        /\ destinations[j] = UNION {Wanted(e) : e \in {f \in inbox : f.job = j}}
        /\ Cardinality(destinations[j]) <= MaxDestinations
    /\ acked \subseteq inbox

\* The events that share a job agree on what its input is, and no two stored
\* payloads share an event identity (inbox.rs:226-247).
SharedInput ==
    \A e, f \in inbox :
        /\ e.job = f.job => e.size = f.size /\ jobs[e.job].size = e.size
        /\ SameEventId(e, f) => e = f

\* A worker is told "completed" only for the marker its own assignment
\* completed with (inbox.rs:379-383, producer_journal.rs:328-331).
ConfirmedIsRecorded ==
    \A c \in confirmed : \E a \in issued : LeaseOf(a) = c[1] /\ a.done = c[2]

\* A completed job stays completed, with its marker, until an event with a new
\* destination gives it a new input revision.
CompletionIsStable ==
    [][\A j \in Jobs :
        jobs[j].state = "completed" /\ jobs[j]' # jobs[j] =>
            \/ jobs[j].revision' > jobs[j].revision
            \/ /\ jobs[j].state' = "completed"
               /\ jobs[j].manifest' = jobs[j].manifest]_vars

\* No accepted job is forgotten: time, the attempt budget and polling workers
\* bring each to an end, and after a new revision again.
JobsEnd ==
    \A j \in Jobs :
        jobs[j].state \in {"pending", "running"} ~> jobs[j].state \in {"completed", "blocked"}

=============================================================================
