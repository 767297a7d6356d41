------------------------------- MODULE Outbox -------------------------------
(***************************************************************************)
(* Upload intents, finalization events and session receipts of the          *)
(* processing outbox (src/src/outbox.rs, migration 002), with their callers: *)
(* direct uploads and migrations (main.rs), completion of resumable sessions *)
(* (resumable.rs, resumable_storage.rs) and the recovery loop of each server *)
(* process.                                                                 *)
(*                                                                         *)
(* An intent records the storage policy of one owner's upload of one hash   *)
(* before any byte is stored; the transaction that records the upload's     *)
(* event completes it.  Everything may fail between any two steps, in which *)
(* case stored objects, intents, finalized sessions stay as they are.       *)
(* A request holds its session's lock by a database connection of its own:  *)
(* the lock can be lost while the request goes on.                          *)
(*                                                                         *)
(* A hash has one size, so the size comparisons of the code never fail; the *)
(* first declared content type of an intent is kept by all later calls and  *)
(* is left out.  Stored bytes are right: each write is read back.           *)
(***************************************************************************)
EXTENDS Naturals, Sequences

CONSTANTS
    Hashes,
    Owners,
    Size,         \* the size of each hash
    Buckets,
    NoBucket,
    Deployments,  \* storage configurations that server processes run with
    Sessions,     \* resumable uploads
    ContentOf,    \* the hash and owner of each session
    NoSession,
    Requests,     \* upload requests in progress at a time
    Recoverers,   \* recovery loops, one in each process
    RunsWith,     \* the configuration of each recovery loop
    MaxVersions   \* bound: versions that one place ever has of a hash

Modes == {"gcs", "b2", "dual"}

\* What MediaStorage::new lets a process start with.
Config ==
    {c \in [mode : Modes, gcs : Buckets \cup {NoBucket}, b2 : Buckets \cup {NoBucket}] :
        /\ c.mode \in {"gcs", "dual"} => c.gcs # NoBucket
        /\ c.mode \in {"b2", "dual"} => c.b2 # NoBucket}

Keys == Hashes \X Owners

ASSUME OutboxConstants ==
    /\ Size \in [Hashes -> Nat \ {0}]
    /\ NoBucket \notin Buckets
    /\ Deployments \subseteq Config
    /\ ContentOf \in [Sessions -> Keys]
    /\ NoSession \notin Sessions
    /\ Requests \cap Recoverers = {}
    /\ RunsWith \in [Recoverers -> Deployments]
    /\ Keys \cap Sessions = {}  \* a key and a session are different things
    /\ MaxVersions \in Nat

VARIABLES
    intents,    \* rows of upload_processing_intents
    waiting,    \* their keys ordered by updated_at
    finalized,  \* rows of upload_processing_outbox of each hash, by finalized_at
    receipts,   \* rows of upload_processing_session_receipts: the event, or NoEvent
    sessions,   \* rows of upload_sessions
    finals,     \* rows of upload_final_objects
    held,       \* session locks: pairs of a session and the request that has it
    stored,     \* the version each place holds of a hash, and the last it had
    work,       \* what each request and each recovery loop is doing
    answered    \* history: keys and sessions whose uploader was told of success

dbVars == <<intents, waiting, finalized, receipts>>
sessionVars == <<sessions, finals, held>>
vars == <<intents, waiting, finalized, receipts, sessions, finals, held,
          stored, work, answered>>

-----------------------------------------------------------------------------
Actors == Requests \cup Recoverers

Place == [provider : {"gcs", "b2"}, bucket : Buckets]
Object == [at : Place, version : 1..MaxVersions]
NoEvent == [key |-> <<>>, objects |-> <<>>]

Gcs(c) == [provider |-> "gcs", bucket |-> c.gcs]
B2(c) == [provider |-> "b2", bucket |-> c.b2]

\* required_destinations: the places a policy binds, in finalization order.
Required(c) ==
    CASE c.mode = "gcs"  -> <<Gcs(c)>>
      [] c.mode = "b2"   -> <<B2(c)>>
      [] c.mode = "dual" -> <<Gcs(c), B2(c)>>

\* destinations_configured.
Configured(c, places) == \A i \in DOMAIN places : places[i] \in {Gcs(c), B2(c)}

Places(objects) == [i \in DOMAIN objects |-> objects[i].at]

Unknown == [state |-> "unknown"]

Pending(k) == intents[k].state = "pending"

\* The rows of upload_processing_outbox.
Events == UNION {{finalized[h][i] : i \in DOMAIN finalized[h]} : h \in Hashes}

\* The order by a time stamp after that of x, which has one place at most, was
\* set to the present.
Touched(seq, x) ==
    IF \E i \in DOMAIN seq : seq[i] = x
    THEN LET at == CHOOSE i \in DOMAIN seq : seq[i] = x
         IN  [i \in DOMAIN seq |->
                IF i < at THEN seq[i] ELSE IF i < Len(seq) THEN seq[i + 1] ELSE x]
    ELSE Append(seq, x)

\* The places of the pending intents, and the one that was touched longest ago.
Queue == {i \in DOMAIN waiting : Pending(waiting[i])}
First == waiting[CHOOSE i \in Queue : \A j \in Queue : i <= j]

Idle == [phase |-> "idle"]

\* A request or a recovery between its intent and its event.
Task(phase, k, s, c, objects) ==
    [phase |-> phase, key |-> k, session |-> s, store |-> c, objects |-> objects]

Unread(t) == Len(t.objects) < Len(Required(t.store))
NextPlace(t) == Required(t.store)[Len(t.objects) + 1]

\* Dropping the connection that holds the lock releases it.
Released(a) == {x \in held : x[2] # a}
Free(s) == \A x \in held : x[1] # s

Init ==
    /\ intents = [k \in Keys |-> Unknown]
    /\ waiting = <<>>
    /\ finalized = [h \in Hashes |-> <<>>]
    /\ receipts = [s \in Sessions |-> NoEvent]
    /\ sessions = [s \in Sessions |-> [state |-> "none"]]
    /\ finals = [s \in Sessions |-> <<>>]
    /\ held = {}
    /\ stored = [h \in Hashes |-> [p \in Place |-> [now |-> 0, last |-> 0]]]
    /\ work = [a \in Actors |-> Idle]
    /\ answered = {}

-----------------------------------------------------------------------------
\* The upsert of reserve_upload: an unfinished intent keeps its policy, a
\* finished one takes the new policy and is finished only if that is the same.
Upserted(i, c) ==
    CASE i.state = "unknown"   -> [state |-> "pending", policy |-> c]
      [] i.state = "pending"   -> i
      [] i.state = "completed" ->
            IF i.policy = c THEN i ELSE [state |-> "pending", policy |-> c]

\* reserve_upload for the storage c of the caller.  The row is committed before
\* the policy is judged: a conflict has touched it.
Reserve(a, k, s, c, resume) ==
    LET i == Upserted(intents[k], c)
        usable == /\ Configured(c, Required(i.policy))
                  /\ resume \/ i.policy.mode = c.mode
    IN  /\ intents' = [intents EXCEPT ![k] = i]
        /\ waiting' = Touched(waiting, k)
        /\ IF usable
           THEN /\ work' = [work EXCEPT ![a] = Task("writing", k, s,
                                                    [c EXCEPT !.mode = i.policy.mode], <<>>)]
                /\ held' = IF s = NoSession THEN held ELSE held \cup {<<s, a>>}
           ELSE UNCHANGED <<work, held>>

\* A direct upload or a migration has received all bytes.
BeginDirect(a, k, c) ==
    /\ work[a] = Idle
    /\ Reserve(a, k, NoSession, c, TRUE)
    /\ UNCHANGED <<finalized, receipts, sessions, finals, stored, answered>>

\* A session is created with the mode and buckets of that time; in GCS mode it is
\* a legacy session, which records neither.
CreateSession(s, c) ==
    /\ sessions[s].state = "none"
    /\ sessions' = [sessions EXCEPT ![s] = [state |-> "open", policy |-> c, age |-> "live"]]
    /\ UNCHANGED <<intents, waiting, finalized, receipts, finals, held, stored, work,
                   answered>>

Staged(s) == sessions[s].policy.mode # "gcs"

\* staged_store: the buckets that the session writes are the configured ones.
Unmoved(s, c) ==
    /\ sessions[s].policy.mode # "b2" => sessions[s].policy.gcs = c.gcs
    /\ Staged(s) => sessions[s].policy.b2 = c.b2

Exists(s) == sessions[s].state \in {"open", "finalized"}

Completable(a, s) ==
    /\ work[a] = Idle
    /\ Exists(s)
    /\ sessions[s].age = "live"
    /\ Free(s)

\* complete_session of a session that is not finalized: begin_finalization.
BeginSession(a, s, c) ==
    /\ Completable(a, s)
    /\ sessions[s].state = "open"
    /\ Staged(s) => Unmoved(s, c)
    /\ c.gcs = NoBucket => Staged(s)
    /\ Reserve(a, ContentOf[s], s, [c EXCEPT !.mode = sessions[s].policy.mode], FALSE)
    /\ UNCHANGED <<finalized, receipts, sessions, finals, stored, answered>>

\* Mistake: a finalized session is taken for one whose event is committed.
FinalizedIsEnough(s) == TRUE

HasReceipt(s) == receipts[s] # NoEvent

\* complete_session of a finalized session that has its receipt.
AnswerReplay(a, s) ==
    /\ Completable(a, s)
    /\ sessions[s].state = "finalized"
    /\ HasReceipt(s)
    /\ answered' = answered \cup {s}
    /\ UNCHANGED <<intents, waiting, finalized, receipts, sessions, finals, held, stored,
                   work>>

\* complete_session of one that has none: the session stands, its event may not.
ResumeSession(a, s, c) ==
    /\ Completable(a, s)
    /\ sessions[s].state = "finalized"
    /\ ~HasReceipt(s)
    /\ work' = [work EXCEPT ![a] = Task("saved", ContentOf[s], s, c, <<>>)]
    /\ held' = held \cup {<<s, a>>}
    /\ UNCHANGED <<intents, waiting, finalized, receipts, sessions, finals, stored,
                   answered>>

\* put_file and copy_to_final at the next place: an existing object is reused,
\* and a dual write goes on only while GCS still has its copy.
StoreNext(a) ==
    /\ work[a].phase = "writing"
    /\ Unread(work[a])
    /\ LET t == work[a]
           h == t.key[1]
           p == NextPlace(t)
           o == stored[h][p]
           v == IF o.now # 0 THEN o.now ELSE o.last + 1
       IN /\ \A i \in DOMAIN t.objects : stored[h][t.objects[i].at].now # 0
          /\ v <= MaxVersions
          /\ stored' = [stored EXCEPT ![h][p] = [now |-> v, last |-> IF v > o.last THEN v ELSE o.last]]
          /\ work' = [work EXCEPT ![a].objects = Append(t.objects, [at |-> p, version |-> v])]
    /\ UNCHANGED <<intents, waiting, finalized, receipts, sessions, finals, held, answered>>

\* finalize records the objects of a staged session; a later attempt replaces them.
SaveObjects(a) ==
    /\ work[a].phase = "writing"
    /\ work[a].session # NoSession
    /\ ~Unread(work[a])
    /\ finals' = IF Staged(work[a].session)
                 THEN [finals EXCEPT ![work[a].session] = work[a].objects] ELSE finals
    /\ work' = [work EXCEPT ![a].phase = "recorded"]
    /\ UNCHANGED <<intents, waiting, finalized, receipts, sessions, held, stored, answered>>

\* store.save: it compares and sets the revision, which the request loaded when
\* the session was open.
SaveSession(a) ==
    /\ work[a].phase = "recorded"
    /\ sessions[work[a].session].state = "open"
    /\ sessions' = [sessions EXCEPT ![work[a].session].state = "finalized"]
    /\ work' = [work EXCEPT ![a].phase = "saved", ![a].objects = <<>>]
    /\ UNCHANGED <<intents, waiting, finalized, receipts, finals, held, stored, answered>>

\* Mistake: what a session stored is whatever GCS holds.
FinalFromGcs(a) ==
    /\ work[a].phase = "saved"
    /\ LET t == work[a]
           now == stored[t.key[1]][Gcs(t.store)].now
       IN /\ t.store.gcs # NoBucket
          /\ now # 0
          /\ work' = [work EXCEPT ![a].phase = "ready",
                                  ![a].objects = <<[at |-> Gcs(t.store), version |-> now]>>]
    /\ UNCHANGED <<intents, waiting, finalized, receipts, sessions, finals, held, stored,
                   answered>>

\* final_objects: the recorded objects, or what GCS holds for a legacy session.
FinalObjects(a) ==
    /\ work[a].phase = "saved"
    /\ LET t == work[a]
           now == stored[t.key[1]][Gcs(t.store)].now
       IN IF Staged(t.session)
          THEN /\ finals[t.session] # <<>>
               /\ work' = [work EXCEPT ![a].phase = "ready", ![a].objects = finals[t.session]]
          ELSE /\ t.store.gcs # NoBucket
               /\ now # 0
               /\ work' = [work EXCEPT ![a].phase = "ready",
                                       ![a].objects = <<[at |-> Gcs(t.store), version |-> now]>>]
    /\ UNCHANGED <<intents, waiting, finalized, receipts, sessions, finals, held, stored,
                   answered>>

-----------------------------------------------------------------------------
\* The task has its verified objects and asks for its event.
Ready(a) ==
    \/ work[a].phase = "ready"
    \/ work[a].phase = "writing" /\ work[a].session = NoSession /\ ~Unread(work[a])
    \/ work[a].phase = "reading" /\ ~Unread(work[a])

Proposed(t) == [key |-> t.key, objects |-> t.objects]

\* Mistake: destinations beyond the ones the intent requires are let through.
CoversPolicy(t) ==
    \A i \in DOMAIN Required(intents[t.key].policy) :
        \E j \in DOMAIN t.objects : t.objects[j].at = Required(intents[t.key].policy)[i]

\* The objects lie exactly in the places the intent requires, in that order.
MatchesIntent(t) == Places(t.objects) = Required(intents[t.key].policy)

\* Under the receipt's lock: this session has no event yet.
Unreceipted(t) == t.session # NoSession => ~HasReceipt(t.session)

\* The uploader is told, unless the answer is lost; a recovery tells nobody.
Answer(a, t) ==
    answered' = IF a \in Recoverers THEN answered
                ELSE IF t.session = NoSession THEN answered \cup {t.key}
                ELSE answered \cup {t.session}

Finish(a) ==
    /\ work' = [work EXCEPT ![a] = Idle]
    /\ held' = Released(a)

\* enqueue_upload_inner: event, completed intent and receipt in one transaction.
Enqueue(a) ==
    /\ Ready(a)
    /\ LET t == work[a]
           e == Proposed(t)
       IN /\ Unreceipted(t)
          /\ MatchesIntent(t)
          /\ finalized' = [finalized EXCEPT ![t.key[1]] = Touched(@, e)]
          /\ intents' = [intents EXCEPT ![t.key].state = "completed"]
          /\ waiting' = Touched(waiting, t.key)
          /\ receipts' = IF t.session = NoSession THEN receipts
                         ELSE [receipts EXCEPT ![t.session] = e]
          /\ Answer(a, t)
    /\ Finish(a)
    /\ UNCHANGED <<sessions, finals, stored>>

\* A session whose event is there already, while its intent has moved on to
\* another policy: the receipt is all that is added.
AdoptHistory(a) ==
    /\ Ready(a)
    /\ LET t == work[a] IN
        /\ t.session # NoSession
        /\ Unreceipted(t)
        /\ ~MatchesIntent(t)
        /\ Proposed(t) \in Events
        /\ receipts' = [receipts EXCEPT ![t.session] = Proposed(t)]
        /\ Answer(a, t)
    /\ Finish(a)
    /\ UNCHANGED <<intents, waiting, finalized, sessions, finals, stored>>

\* The receipt answers for a request that another one has overtaken.
AnswerReceipt(a) ==
    /\ Ready(a)
    /\ ~Unreceipted(work[a])
    /\ Answer(a, work[a])
    /\ Finish(a)
    /\ UNCHANGED <<dbVars, sessions, finals, stored>>

\* IntentConflict: neither the intent nor an earlier event agrees.
Conflict(a) ==
    /\ Ready(a)
    /\ Unreceipted(work[a])
    /\ ~MatchesIntent(work[a])
    /\ work[a].session # NoSession => Proposed(work[a]) \notin Events
    /\ Finish(a)
    /\ UNCHANGED <<dbVars, sessions, finals, stored, answered>>

\* An error, also of a save that finds another revision; a lost process, a
\* dropped request.
Fail(a) ==
    /\ work[a] # Idle
    /\ Finish(a)
    /\ UNCHANGED <<dbVars, sessions, finals, stored, answered>>

\* The connection that holds a session's lock breaks while the request lives on.
LoseLock(s) ==
    /\ ~Free(s)
    /\ held' = {x \in held : x[1] # s}
    /\ UNCHANGED <<dbVars, sessions, finals, stored, work, answered>>

-----------------------------------------------------------------------------
Expire(s) ==
    /\ Exists(s)
    /\ sessions[s].age = "live"
    /\ sessions' = [sessions EXCEPT ![s].age = "expired"]
    /\ UNCHANGED <<dbVars, finals, held, stored, work, answered>>

\* The sweep, and any call on an expired session, first drop the receipt ...
ForgetReceipt(s) ==
    /\ Exists(s)
    /\ sessions[s].age # "live"
    /\ Free(s)
    /\ receipts' = [receipts EXCEPT ![s] = NoEvent]
    /\ sessions' = [sessions EXCEPT ![s].age = "forgotten"]
    /\ UNCHANGED <<intents, waiting, finalized, finals, held, stored, work, answered>>

\* ... and then the session, and only the sweep the record of its objects.
DeleteSession(s) ==
    /\ Exists(s)
    /\ sessions[s].age = "forgotten"
    /\ Free(s)
    /\ sessions' = [sessions EXCEPT ![s].state = "deleted"]
    /\ finals' = finals \/ finals' = [finals EXCEPT ![s] = <<>>]
    /\ UNCHANGED <<dbVars, held, stored, work, answered>>

\* The uploader aborts the session, or its bytes have another hash.
AbortSession(s) ==
    /\ sessions[s].state = "open"
    /\ sessions[s].age = "live"
    /\ Free(s)
    /\ sessions' = [sessions EXCEPT ![s].state = "deleted"]
    /\ UNCHANGED <<dbVars, finals, held, stored, work, answered>>

\* Media is erased by others than this server.
Erase(h, p) ==
    /\ stored[h][p].now # 0
    /\ stored' = [stored EXCEPT ![h][p].now = 0]
    /\ UNCHANGED <<dbVars, sessionVars, work, answered>>

-----------------------------------------------------------------------------
\* The loop looks at the first intent of the queue for the number of bytes that
\* the pass may read ...
Peek(r) ==
    /\ work[r] = Idle
    /\ Queue # {}
    /\ work' = [work EXCEPT ![r] = [phase |-> "peeked", budget |-> 2 * Size[First[1]]]]
    /\ UNCHANGED <<dbVars, sessionVars, stored, answered>>

\* ... and recover_intents reads the queue again.
Pick(r) ==
    /\ work[r].phase = "peeked"
    /\ work' = [work EXCEPT ![r] =
                    IF Queue = {} THEN Idle
                    ELSE [phase |-> "picked", budget |-> work[r].budget, key |-> First,
                          policy |-> intents[First].policy]]
    /\ UNCHANGED <<dbVars, sessionVars, stored, answered>>

\* Mistake: an intent that cannot be recovered stays at the head of the queue.
InPlace(seq, x) == seq

\* The picked intent goes to the end of the queue, whatever becomes of it now.
Rotated(seq, x) == Touched(seq, x)

Affordable(w, c) ==
    /\ Configured(c, Required(w.policy))
    /\ Size[w.key[1]] * Len(Required(w.policy)) <= w.budget

Consider(r) ==
    /\ work[r].phase = "picked"
    /\ LET w == work[r]
           c == RunsWith[r]
       IN /\ waiting' = Rotated(waiting, w.key)
          /\ work' = [work EXCEPT ![r] =
                IF Affordable(w, c)
                THEN Task("reading", w.key, NoSession, [c EXCEPT !.mode = w.policy.mode], <<>>)
                ELSE Idle]
    /\ UNCHANGED <<intents, finalized, receipts, sessionVars, stored, answered>>

\* The object at the next place is found and read in full.
ReadNext(r) ==
    /\ work[r].phase = "reading"
    /\ Unread(work[r])
    /\ LET t == work[r]
           p == NextPlace(t)
           v == stored[t.key[1]][p].now
       IN work' = [work EXCEPT ![r] =
                      IF v = 0 THEN Idle
                      ELSE [t EXCEPT !.objects = Append(t.objects, [at |-> p, version |-> v])]]
    /\ UNCHANGED <<dbVars, sessionVars, stored, answered>>

Recovery(r) == Peek(r) \/ Pick(r) \/ Consider(r) \/ ReadNext(r) \/ Enqueue(r) \/ Conflict(r)

\* What uploaders, failures and others do.
Outside ==
    \/ \E a \in Requests, c \in Deployments :
        \/ \E k \in Keys : BeginDirect(a, k, c)
        \/ \E s \in Sessions : BeginSession(a, s, c) \/ ResumeSession(a, s, c)
    \/ \E a \in Requests :
        \/ \E s \in Sessions : AnswerReplay(a, s)
        \/ StoreNext(a) \/ SaveObjects(a) \/ SaveSession(a) \/ FinalObjects(a)
        \/ Enqueue(a) \/ AdoptHistory(a) \/ AnswerReceipt(a) \/ Conflict(a)
    \/ \E a \in Actors : Fail(a)
    \/ \E s \in Sessions :
        \/ \E c \in Deployments : CreateSession(s, c)
        \/ LoseLock(s) \/ Expire(s) \/ ForgetReceipt(s) \/ DeleteSession(s) \/ AbortSession(s)
    \/ \E h \in Hashes, p \in Place : Erase(h, p)

Next == Outside \/ \E r \in Recoverers : Recovery(r)

Spec == Init /\ [][Next]_vars

\* Each process runs its recovery loop every five seconds.
FairSpec == Spec /\ \A r \in Recoverers : WF_vars(Recovery(r))

-----------------------------------------------------------------------------
Objects(e) == {e.objects[i] : i \in DOMAIN e.objects}

\* Mistake: only the newest event of a hash is looked at.
NewestOnly(h) ==
    IF finalized[h] = <<>> THEN {} ELSE Objects(finalized[h][Len(finalized[h])])

\* source_objects: the newest event's objects, and for a provider that it lacks
\* the object of the newest event that has one.
SourceObjects(h) ==
    {o \in UNION {Objects(e) : e \in Events} :
        \E i \in DOMAIN finalized[h] :
            /\ o \in Objects(finalized[h][i])
            /\ \A j \in (i + 1)..Len(finalized[h]) :
                 \A later \in Objects(finalized[h][j]) : later.at.provider # o.at.provider}

\* "It only marks that intent complete in the transaction that records a
\* processing event for all verified destinations" (docs/contracts/
\* media-finalized-v1.md:65): a completed intent has an event in exactly the
\* places of its policy, also after the policy has changed back and forth.
CompletedHasEvent ==
    \A k \in Keys : intents[k].state = "completed" =>
        \E e \in Events : e.key = k /\ Places(e.objects) = Required(intents[k].policy)

\* Whoever was told of success has an event, whatever was lost on the way and
\* whichever request gave the answer.
AnsweredIsCommitted ==
    \A x \in answered : \E e \in Events :
        e.key = IF x \in Sessions THEN ContentOf[x] ELSE x

\* Each object is one that its place, which now has these copies, has had.
Had(copies, objects) ==
    \A i \in DOMAIN objects : objects[i].version <= copies[objects[i].at].last

\* "A receipt names the event its session committed" (outbox.rs:458): the event
\* is there, for the session's hash and owner, of versions that were stored, and of
\* a session that records its policy exactly where that policy wants them, even
\* where the intent has moved on to another, another request has completed the
\* session under a lost lock, or a direct upload's event is adopted.
ReceiptsAreGenuine ==
    \A s \in Sessions : HasReceipt(s) =>
        LET e == receipts[s] IN
        /\ e \in Events /\ e.key = ContentOf[s]
        /\ Had(stored[e.key[1]], e.objects)
        /\ Staged(s) => Places(e.objects) = Required(sessions[s].policy)

\* No later finalization makes a hash lose a provider that an earlier one
\* recorded (outbox.rs:390-394).
ProvidersAreKept ==
    [][\A h \in Hashes : \A o \in SourceObjects(h) :
        \E n \in SourceObjects(h)' : n.at.provider = o.at.provider]_vars

\* What recovery may complete: everything the intent requires is there and
\* within the reach of each recovery loop.
Recoverable(k) ==
    /\ Pending(k)
    /\ LET places == Required(intents[k].policy) IN
        /\ \A i \in DOMAIN places : stored[k[1]][places[i]].now # 0
        /\ \A r \in Recoverers : Configured(RunsWith[r], places)

\* Unless something outside happens again and again for ever, no recoverable
\* intent waits for ever, whatever other intents wait for objects that are not
\* there (outbox.rs:302-308).  A step to Idle that recovery takes by itself is
\* no failure.
Recovered ==
    \/ []<><<Outside /\ ~(\E r \in Recoverers : Recovery(r))>>_vars
    \/ \A k \in Keys : []<>~Recoverable(k)
=============================================================================
