-------------------------- MODULE ProducerJournal --------------------------
(***************************************************************************)
(* The producer preparation journal (src/src/producer_journal.rs, migration *)
(* 004): the worker that holds an assignment of the inbox has the server    *)
(* allocate one durable attempt for it, whose nonce is the namespace of     *)
(* everything it will write, and plans the exact artifacts of the attempt.  *)
(* Nothing is dispatched to storage.                                        *)
(*                                                                         *)
(* begin, prepare and dispatch lock the job's row, as the inbox's own       *)
(* transactions do, and evaluate the fence under that lock: they are        *)
(* transactions of tx with operations of their own.  inspect reads one      *)
(* attempt in one statement and changes nothing, so it is no action; what   *)
(* it may answer is what attempts holds.  The routes exist only on          *)
(* processes with the journal enabled.                                      *)
(***************************************************************************)
EXTENDS Inbox, Sequences

CONSTANTS
    Nonces,       \* the random attempt identities drawn
    Files,        \* names of the artifacts of a complete family  (7 in the code)
    Sums,         \* checksums of artifacts
    Submissions   \* the lists of artifacts that workers send, valid ones and others

Artifact == [file : Files, sum : Sums]

ASSUME JournalConstants ==
    /\ IsFiniteSet(Files) /\ Files # {}
    /\ Submissions \subseteq Seq(Artifact)

VARIABLES
    attempts,  \* rows of media_storage_attempts, with their media_storage_operations
    told       \* history: attempts as begin and prepare answered them

journalVars == <<jobs, destinations, inbox, tx, issued, acked, confirmed, attempts, told>>

-----------------------------------------------------------------------------
\* What is stored of an artifact: its target lies in the attempt's namespace.
Operation == [target : Nonces \X Files, sum : Sums]

Attempt ==
    [id : Nonces, of : Lease, size : Nat, phase : {"allocated", "planned"},
     operations : SUBSET Operation]

JournalTransaction ==
    [op : {"begin"}, job : Jobs, of : Lease]
    \cup [op : {"prepare"}, job : Jobs, of : Lease, id : Nonces, artifacts : Submissions]
    \cup [op : {"dispatch"}, job : Jobs, of : Lease, id : Nonces]

JournalInit == Init /\ attempts = {} /\ told = {}

\* The attempts that a call can mean: an identity is 128 random bits, and workers
\* know the ones they were told.
Known == {x.id : x \in attempts}

\* Mistake: as many artifacts as files, one of them perhaps twice.
RightLength(s) == Len(s) = Cardinality(Files)

\* plan's test: every file of the family exactly once, in any order.
Whole(s) ==
    /\ Len(s) = Cardinality(Files)
    /\ {s[i].file : i \in DOMAIN s} = Files

\* plan's result, in which the order of the list is lost.
Planned(x, s) == {[target |-> <<x.id, s[i].file>>, sum |-> s[i].sum] : i \in DOMAIN s}

\* The answer.  It may be lost, which changes nothing: no call depends on it.
Tell(x) == told' = told \cup {x}

-----------------------------------------------------------------------------
\* Mistake: the fence read without FOR UPDATE.
BeginUnlocked(p, t) ==
    /\ p \in JournalProcs
    /\ Exists(t.job)
    /\ tx[p] = Idle
    /\ tx' = [tx EXCEPT ![p] = t]
    /\ UNCHANGED <<dbVars, issued, acked, confirmed, attempts, told>>

\* live_job's row lock.  The fence is evaluated when the transaction decides.
BeginJournal(p, t) ==
    /\ p \in JournalProcs
    /\ Exists(t.job)
    /\ Begin(p, t)
    /\ UNCHANGED <<attempts, told>>

RequestBegin(p, a) == BeginJournal(p, [op |-> "begin", job |-> a.job, of |-> LeaseOf(a)])

RequestPrepare(p, a, n, s) ==
    BeginJournal(p, [op |-> "prepare", job |-> a.job, of |-> LeaseOf(a), id |-> n,
                     artifacts |-> s])

RequestDispatch(p, a, n) ==
    BeginJournal(p, [op |-> "dispatch", job |-> a.job, of |-> LeaseOf(a), id |-> n])

\* Mistake: each call allocates, whatever was allocated before.
FreshNonce(l, n) == n \notin Known

\* The row to insert conflicts with none, neither by nonce nor by fence.
Fresh(l, n) == n \notin Known /\ ~\E x \in attempts : x.of = l

NewAttempt(l, n) ==
    [id |-> n, of |-> l, size |-> jobs[l.job].size, phase |-> "allocated",
     operations |-> {}]

\* journal_begin commits the nonce before it answers.
Allocate(p) ==
    /\ tx[p].op = "begin"
    /\ LET l == tx[p].of IN
        /\ Live(l)
        /\ \E n \in Nonces :
            /\ Fresh(l, n)
            /\ attempts' = attempts \cup {NewAttempt(l, n)}
            /\ Tell(NewAttempt(l, n))
    /\ End(p)
    /\ UNCHANGED <<dbVars, issued, acked, confirmed>>

\* journal_begin again: ON CONFLICT the nonce that is there.
AllocateReplay(p) ==
    /\ tx[p].op = "begin"
    /\ Live(tx[p].of)
    /\ \E x \in attempts : x.of = tx[p].of /\ Tell(x)
    /\ End(p)
    /\ UNCHANGED <<dbVars, issued, acked, confirmed, attempts>>

\* Mistake: the identity alone finds the attempt, under any live lease.
NamedById(t, x) == x.id = t.id /\ Live(t.of)

\* The attempt that prepare and dispatch act on.
Named(t, x) == x.id = t.id /\ x.of = t.of /\ Live(t.of)

\* Mistake: a plan may be replaced.
Replannable(x) == TRUE

Plannable(x) == x.phase = "allocated"

PlannedAttempt(x, s) == [x EXCEPT !.phase = "planned", !.operations = Planned(x, s)]

\* journal_prepare inserts every artifact and turns the phase, or nothing.
Prepare(p) ==
    /\ tx[p].op = "prepare"
    /\ LET s == tx[p].artifacts IN \E x \in attempts :
        /\ Named(tx[p], x)
        /\ Whole(s)
        /\ Plannable(x)
        /\ attempts' = (attempts \ {x}) \cup {PlannedAttempt(x, s)}
        /\ Tell(PlannedAttempt(x, s))
    /\ End(p)
    /\ UNCHANGED <<dbVars, issued, acked, confirmed>>

PrepareReplay(p) ==
    /\ tx[p].op = "prepare"
    /\ LET s == tx[p].artifacts IN \E x \in attempts :
        /\ Named(tx[p], x)
        /\ Whole(s)
        /\ x.phase = "planned" /\ x.operations = Planned(x, s)
        /\ Tell(x)
    /\ End(p)
    /\ UNCHANGED <<dbVars, issued, acked, confirmed, attempts>>

\* 400, 409, and 503 for the dispatch of a planned attempt: an error ends the
\* transaction, and what it had written is dropped.
Refuse(p) ==
    /\ \/ tx[p].op = "begin" /\ ~Live(tx[p].of)
       \/ /\ tx[p].op = "prepare"
          /\ ~\E x \in attempts :
                /\ Named(tx[p], x)
                /\ Whole(tx[p].artifacts)
                /\ x.phase = "planned" => x.operations = Planned(x, tx[p].artifacts)
       \/ tx[p].op = "dispatch"
    /\ End(p)
    /\ UNCHANGED <<dbVars, issued, acked, confirmed, attempts, told>>

JournalDecide(p) ==
    Allocate(p) \/ AllocateReplay(p) \/ Prepare(p) \/ PrepareReplay(p) \/ Refuse(p)

JournalStep(p) ==
    \/ \E a \in issued :
        \/ RequestBegin(p, a)
        \/ \E n \in Known :
            RequestDispatch(p, a, n) \/ \E s \in Submissions : RequestPrepare(p, a, n, s)
    \/ JournalDecide(p)

JournalNext ==
    \/ Next /\ UNCHANGED <<attempts, told>>
    \/ \E p \in Procs : JournalStep(p)

JournalSpec == JournalInit /\ [][JournalNext]_journalVars

-----------------------------------------------------------------------------
\* The journal does nothing to assignments: to the inbox a journal transaction
\* is a renewal that locks the job's row for a while and is rolled back.
JournalOps == {"begin", "prepare", "dispatch"}

Held == [p \in Procs |->
            IF tx[p].op \in JournalOps
            THEN [op |-> "renew", job |-> tx[p].job, of |-> tx[p].of]
            ELSE tx[p]]

Assignments == INSTANCE Inbox WITH tx <- Held

ImplementsInbox == Assignments!Spec

\* "A lost response cannot create a different revision namespace"
\* (docs/contracts/producer-journal-v1.md:69): all answers for one assignment name
\* the same attempt, whoever asked and whatever answers were lost, and no two
\* assignments are ever given the same one (producer_journal.rs:226-231).
OneNamespace ==
    \A x, y \in told \cup attempts : x.of = y.of <=> x.id = y.id

\* What a worker was told stays true, after expiry and a new revision too: its
\* attempt is still there, with the inventory it was told.
ToldIsDurable ==
    \A x \in told : \E y \in attempts :
        /\ y.id = x.id /\ y.of = x.of /\ y.size = x.size
        /\ x.phase = "planned" => y = x

\* A planned attempt has the whole family, an allocated one no part of it
\* (producer_journal.rs:252-272).
PlansAreWhole ==
    \A x \in attempts :
        {o.target : o \in x.operations} =
            (IF x.phase = "planned" THEN {x.id} \X Files ELSE {})
        /\ Cardinality(x.operations) = Cardinality({o.target : o \in x.operations})

\* Only the one worker whose granted lease still runs, on the current revision,
\* changes its attempt, and never the attempt of another assignment.
WritesAreFenced ==
    [][\A x \in (attempts \ attempts') \cup (attempts' \ attempts) :
        \E a \in issued :
            /\ LeaseOf(a) = x.of
            /\ a.left > 0 /\ a.done = NoManifest
            /\ a.revision = jobs[a.job].revision]_journalVars

\* "A caller cannot skip the missing producer gate" (docs/contracts/
\* producer-journal-v1.md:28): with the journal enabled
\* everywhere nothing is ever completed (inbox_http.rs:243-254).
GateIsClosed ==
    JournalProcs = Procs =>
        /\ confirmed = {}
        /\ \A j \in Jobs : jobs[j].state # "completed" /\ jobs[j].manifest = NoManifest

=============================================================================
