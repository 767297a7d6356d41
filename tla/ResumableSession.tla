-------------------------- MODULE ResumableSession --------------------------
(***************************************************************************)
(* Resumable upload sessions (src/src/resumable.rs, the durable store and   *)
(* backend of src/src/resumable_storage.rs; tables upload_sessions,         *)
(* upload_session_tombstones, upload_chunks, upload_final_objects).         *)
(*                                                                         *)
(* A request takes the session's advisory lock or is told to retry, loads   *)
(* the session and works on its copy; a save is accepted at the revision    *)
(* that was loaded.  Chunks are staged as objects of their own: a row is    *)
(* reserved, the object is PUT, the row learns the version.  A completion   *)
(* hashes the staged chunks, promotes them and cleans up; an abort, an      *)
(* expired session and the sweep remove the versions the rows name, then    *)
(* the rows, then the receipt, then the session.                            *)
(*                                                                         *)
(* Sessions that stage nothing (Legacy) go through one GCS resumable        *)
(* upload; their manifest is an object an earlier release wrote.            *)
(*                                                                         *)
(* An offset counts units of 256 KiB.  A chunk is right or wrong: whether   *)
(* the bytes are those the declared hash stands for.  The versions of one   *)
(* provider stand for those of all (CanonicalStorage has two); the intent   *)
(* before promotion and the transaction that writes the receipt are in      *)
(* Outbox.                                                                  *)
(***************************************************************************)
EXTENDS Naturals, FiniteSets, Functions

CONSTANTS
    Sessions,
    Legacy,      \* the sessions that stage nothing
    Requests,    \* the request handlers of all server processes
    Sweeper,     \* the loop that sweeps expired sessions
    Nobody,
    Size,        \* the declared size of every upload
    Chunks,      \* what clients send: [start, end, right]
    Page,        \* how many sessions a sweep looks at
    MaxCalls,    \* bound: requests
    MaxPuts,     \* bound: PUT requests for chunks
    MaxFaults,   \* bound: storage or database failures, and requests dropped
    MaxLost      \* bound: locks whose connection breaks

Workers == Requests \cup {Sweeper}

ASSUME ResumableConstants ==
    /\ IsFiniteSet(Sessions) /\ Legacy \subseteq Sessions
    /\ Sweeper \notin Requests /\ Nobody \notin Workers
    /\ Size \in Nat \ {0} /\ Page \in Nat \ {0}
    /\ Chunks \subseteq [start : 0..Size-1, end : 0..Size-1, right : BOOLEAN]
    /\ \A c \in Chunks : c.start <= c.end
    /\ {MaxCalls, MaxPuts, MaxFaults, MaxLost} \subseteq Nat

VARIABLES
    row,       \* upload_sessions; revision 0 stands for no row
    tombs,     \* upload_session_tombstones
    expired,   \* sessions past their expiry
    order,     \* the place of each session by cleanup_checked_at, oldest first
    chunkRows, \* upload_chunks
    finals,    \* sessions with a row in upload_final_objects
    receipts,  \* sessions with a receipt in the outbox
    stored,    \* chunk versions at the provider
    flying,    \* PUTs that have neither landed nor been lost
    cancelled, \* legacy uploads that were cancelled
    canon,     \* what was promoted: whether it was right
    holder,    \* who holds the advisory lock of each session
    call,      \* what each worker is at
    left,      \* what is left of each bound
    acked,     \* history: the chunks each session's client was told are kept
    named,     \* history: the versions that rows ever named
    erased,    \* history: sessions whose chunks some worker began to remove
    unlocked   \* history: sessions somebody worked on after losing the lock

database == <<row, tombs, order, chunkRows, finals, receipts>>
provider == <<stored, flying, cancelled, canon>>
history == <<acked, named, erased, unlocked>>
vars == <<database, expired, provider, holder, call, left, history>>

-----------------------------------------------------------------------------
NoRow == [rev |-> 0, next |-> 0, done |-> FALSE]
NoChunk == [start |-> 0, end |-> 0, right |-> FALSE]
Version == [s : Sessions, chunk : Chunks, n : 1..MaxPuts]
ChunkRow == [chunk : Chunks, refs : SUBSET Version]
\* HEAD changes nothing: any request that is Refused stands for it.
Ops == {"chunk", "complete", "abort"}

\* Why chunks are removed; an abort and an expiry do it twice.
Purposes == {"abort", "abort_again", "expire", "expire_again", "sweep",
             "mismatch", "finish"}
Idle == [at |-> "idle", op |-> "chunk", s |-> Nobody, mine |-> NoRow,
         chunk |-> NoChunk, put |-> {}, why |-> "finish", page |-> {}]

Staged(s) == s \notin Legacy
ChunksOf(R) == {x.chunk : x \in R}
RowAt(s, start) == {x \in chunkRows[s] : x.chunk.start = start}
Covers(C, n) == UNION {c.start..c.end : c \in C} = 0..n-1
Overlap(c, d) == c # d /\ c.start <= d.end /\ d.start <= c.end

\* assemble_file and hash_temp_object can read the bytes.
Readable(s) ==
    IF Staged(s)
    THEN /\ \A x \in chunkRows[s] : x.refs # {} /\ x.refs \subseteq stored
         /\ \E n \in 0..Size : Covers(ChunksOf(chunkRows[s]), n)
         /\ \A c, d \in ChunksOf(chunkRows[s]) : ~Overlap(c, d)
    ELSE Covers({v.chunk : v \in {w \in stored : w.s = s}}, Size)

\* They are the declared bytes.
AreRight(C) == Covers(C, Size) /\ \A c \in C : c.right

BytesOf(s) == IF Staged(s) THEN ChunksOf(chunkRows[s])
                           ELSE {v.chunk : v \in {w \in stored : w.s = s}}

\* load finds a session: no tombstone, and a row or a manifest.
Known(s) == s \notin tombs /\ (row[s].rev > 0 \/ s \in Legacy)

Init ==
    /\ row = [s \in Sessions |-> NoRow]
    /\ tombs = {} /\ expired = {} /\ finals = {} /\ receipts = {}
    /\ order \in {o \in [Sessions -> 1..Cardinality(Sessions)] : IsInjective(o)}
    /\ chunkRows = [s \in Sessions |-> {}]
    /\ stored = {} /\ flying = {} /\ cancelled = {} /\ canon = {}
    /\ holder = [s \in Sessions |-> Nobody]
    /\ call = [p \in Workers |-> Idle]
    /\ left = [calls |-> MaxCalls, puts |-> MaxPuts, faults |-> MaxFaults,
               locks |-> MaxLost]
    /\ acked = [s \in Sessions |-> {}]
    /\ named = {} /\ erased = {} /\ unlocked = {}

-----------------------------------------------------------------------------
(* A worker moves on, or is done and gives its lock back. *)

At(p, step) == call[p].at = step
S(p) == call[p].s
Goto(p, step) == call' = [call EXCEPT ![p].at = step]

Unlocked(p) == [s \in Sessions |-> IF holder[s] = p THEN Nobody ELSE holder[s]]

\* The sweep goes on to the next session of its page.
Rest(p) == IF p = Sweeper THEN [Idle EXCEPT !.at = "page", !.page = call[p].page]
                          ELSE Idle
End(p) == /\ call' = [call EXCEPT ![p] = Rest(p)]
          /\ holder' = Unlocked(p)

Spend(what) == left[what] > 0 /\ left' = [left EXCEPT ![what] = @ - 1]

Discard(p, why) == call' = [call EXCEPT ![p].at = "rows", ![p].why = why]

-----------------------------------------------------------------------------
(* init_session: the identifier is fresh, no client knows it yet. *)

CreateSession(s) ==
    /\ Staged(s) /\ row[s].rev = 0 /\ s \notin tombs
    /\ row' = [row EXCEPT ![s].rev = 1]
    /\ UNCHANGED <<tombs, order, chunkRows, finals, receipts, expired, provider,
                   holder, call, left, history>>

Expire(s) ==
    /\ s \notin expired
    /\ expired' = expired \cup {s}
    /\ UNCHANGED <<database, provider, holder, call, left, history>>

(***************************************************************************)
(* Every request: lock, load, authorize.                                   *)
(***************************************************************************)
Begin(r, op, s, c) ==
    /\ At(r, "idle") /\ Known(s)
    /\ Spend("calls")
    /\ call' = [call EXCEPT ![r] = [Idle EXCEPT !.at = "lock", !.op = op,
                                                !.s = s, !.chunk = c]]
    /\ UNCHANGED <<database, expired, provider, holder, history>>

\* pg_try_advisory_lock; a busy session is refused.
Lock(p) ==
    /\ At(p, "lock")
    /\ IF holder[S(p)] = Nobody
       THEN /\ holder' = [holder EXCEPT ![S(p)] = p]
            /\ Goto(p, "load")
       ELSE End(p)
    /\ UNCHANGED <<database, expired, provider, left, history>>

\* A request that finds its session expired removes it first; the sweep goes
\* on only with an expired one.  Both have the session's copy from here on.
Load(p) ==
    /\ At(p, "load")
    /\ LET Take(at, why) ==
               /\ call' = [call EXCEPT ![p].at = at, ![p].why = why,
                                       ![p].mine = row[S(p)]]
               /\ UNCHANGED holder
       IN  \/ /\ ~Known(S(p)) \/ (p = Sweeper /\ S(p) \notin expired)
              /\ End(p)
           \/ /\ Known(S(p)) /\ S(p) \notin expired /\ p # Sweeper
              /\ Take("ready", "finish")
           \/ /\ Known(S(p)) /\ S(p) \in expired /\ p = Sweeper
              /\ Take(IF Staged(S(p)) \/ ~row[S(p)].done THEN "rows" ELSE "forget",
                      "sweep")
           \/ /\ Known(S(p)) /\ S(p) \in expired /\ p # Sweeper
              /\ Take(IF row[S(p)].done THEN "forget" ELSE "rows", "expire")
    /\ UNCHANGED <<database, expired, provider, left, history>>

\* A wrong token or owner, a malformed range, a body of another length, no
\* media slot; or a chunk, a completion or an abort that the offset or a
\* finished upload rules out: an answer that changes nothing.
Refused(r) ==
    /\ At(r, "ready")
    /\ End(r)
    /\ UNCHANGED <<database, expired, provider, left, history>>

(***************************************************************************)
(* upload_chunk                                                            *)
(***************************************************************************)

\* is_committed_retry: a chunk behind the offset is acknowledged again if its
\* row has the same bytes and a version.
Retry(r) ==
    /\ At(r, "ready") /\ call[r].op = "chunk" /\ ~call[r].mine.done
    /\ Staged(S(r))
    /\ call[r].chunk.start # call[r].mine.next
    /\ call[r].chunk.end < call[r].mine.next
    /\ \E x \in RowAt(S(r), call[r].chunk.start) :
          x.chunk = call[r].chunk /\ x.refs # {}
    /\ acked' = [acked EXCEPT ![S(r)] = @ \cup {call[r].chunk}]
    /\ End(r)
    /\ UNCHANGED <<database, expired, provider, left, named, erased,
                   unlocked>>

\* Mistake: ON CONFLICT DO NOTHING, and the row that is there is taken for this
\* chunk's.
TakesAnyRow(s, c) == \A x \in RowAt(s, c.start) : x.chunk.start = c.start

\* The row may be there already, of an attempt with the same bytes.
CanReserve(s, c) == \A x \in RowAt(s, c.start) : x.chunk = c

Reserve(r) ==
    /\ At(r, "ready") /\ call[r].op = "chunk" /\ ~call[r].mine.done
    /\ call[r].chunk.start = call[r].mine.next
    /\ LET s == S(r) c == call[r].chunk
       IN  CASE ~Staged(s) -> Goto(r, "put") /\ UNCHANGED <<chunkRows, holder>>
             [] Staged(s) /\ ~CanReserve(s, c) -> End(r) /\ UNCHANGED chunkRows
             [] OTHER ->
                  /\ chunkRows' = [chunkRows EXCEPT ![s] =
                        IF RowAt(s, c.start) = {}
                        THEN @ \cup {[chunk |-> c, refs |-> {}]} ELSE @]
                  /\ Goto(r, "put") /\ UNCHANGED holder
    /\ UNCHANGED <<row, tombs, order, finals, receipts, expired, provider, left,
                   history>>

Same(r) == {v \in stored : v.s = S(r) /\ v.chunk = call[r].chunk}

\* put looks first: what is there already is taken, whoever sent it.
Found(r) ==
    /\ At(r, "put") \/ At(r, "sent")
    /\ Staged(S(r))
    /\ \E v \in Same(r) : call' = [call EXCEPT ![r].at = "record", ![r].put = {v}]
    /\ UNCHANGED <<database, expired, provider, holder, left, history>>

Send(r) ==
    /\ At(r, "put")
    /\ Staged(S(r)) => Same(r) = {}
    /\ Spend("puts")
    /\ flying' = flying \cup {[s |-> S(r), chunk |-> call[r].chunk,
                               n |-> left.puts]}
    /\ Goto(r, "sent")
    /\ UNCHANGED <<database, expired, stored, cancelled, canon, holder, history>>

\* GCS answers a legacy chunk once it has the bytes.
Accepted(r) ==
    /\ At(r, "sent") /\ ~Staged(S(r))
    /\ \E v \in stored : v.s = S(r) /\ v.chunk.end >= call[r].chunk.end
    /\ Goto(r, "save")
    /\ UNCHANGED <<database, expired, provider, holder, left, history>>

\* A timeout, and nothing is found afterwards: the outcome is unknown.
Unresolved(r) ==
    /\ At(r, "sent")
    /\ End(r)
    /\ UNCHANGED <<database, expired, provider, left, history>>

Record(r) ==
    /\ At(r, "record")
    /\ chunkRows' = [chunkRows EXCEPT ![S(r)] =
          {IF x.chunk.start = call[r].chunk.start
           THEN [x EXCEPT !.refs = call[r].put] ELSE x : x \in @}]
    /\ named' = named \cup call[r].put
    /\ Goto(r, "save")
    /\ UNCHANGED <<row, tombs, order, finals, receipts, expired, provider,
                   holder, left, acked, erased, unlocked>>

\* Mistake: an update without the revision.
NotDeleted(p) == S(p) \notin tombs

\* save: an insert without a tombstone, an update at the loaded revision.
CanSave(p) == row[S(p)].rev = call[p].mine.rev /\ S(p) \notin tombs

Saved(p, next, done) ==
    row' = [row EXCEPT ![S(p)] =
              [rev |-> call[p].mine.rev + 1, next |-> next, done |-> done]]

\* The answer may be lost; acked has it all the same.
SaveChunk(r) ==
    /\ At(r, "save") /\ call[r].op = "chunk"
    /\ IF CanSave(r)
       THEN /\ Saved(r, call[r].chunk.end + 1, FALSE)
            /\ acked' = [acked EXCEPT ![S(r)] = @ \cup {call[r].chunk}]
       ELSE UNCHANGED <<row, acked>>
    /\ End(r)
    /\ UNCHANGED <<tombs, order, chunkRows, finals, receipts, expired, provider,
                   left, named, erased, unlocked>>

(***************************************************************************)
(* complete_session                                                        *)
(***************************************************************************)

\* A finished upload whose receipt is written is answered from the receipt
\* (Refused changes nothing either); without one the receipt is made up for.
Replay(r) ==
    /\ At(r, "ready") /\ call[r].op = "complete" /\ call[r].mine.next = Size
    /\ call[r].mine.done
    /\ IF S(r) \in receipts THEN End(r) ELSE Goto(r, "receipt") /\ UNCHANGED holder
    /\ UNCHANGED <<database, expired, provider, left, history>>

\* Mistake: the size is compared and the hash is not.
SizeMatches(s) == Covers(BytesOf(s), Size)

HashMatches(s) == AreRight(BytesOf(s))

\* Bytes that cannot be read are an error; wrong ones end the session.
Hash(r) ==
    /\ At(r, "ready") /\ call[r].op = "complete" /\ call[r].mine.next = Size
    /\ ~call[r].mine.done
    /\ IF ~Readable(S(r)) THEN End(r)
       ELSE /\ IF HashMatches(S(r)) THEN Goto(r, "promote")
                                   ELSE Discard(r, "mismatch")
            /\ UNCHANGED holder
    /\ UNCHANGED <<database, expired, provider, left, history>>

\* finalize: the bytes are read once more and put under the declared hash; a
\* staged session's final references are written next.
Promote(r) ==
    /\ At(r, "promote")
    /\ IF ~Readable(S(r)) THEN End(r) /\ UNCHANGED canon
       ELSE /\ canon' = canon \cup {[s |-> S(r), right |-> AreRight(BytesOf(S(r)))]}
            /\ Goto(r, "references") /\ UNCHANGED holder
    /\ UNCHANGED <<database, expired, stored, flying, cancelled, left, history>>

References(r) ==
    /\ At(r, "references")
    /\ finals' = IF Staged(S(r)) THEN finals \cup {S(r)} ELSE finals
    /\ Goto(r, "save")
    /\ UNCHANGED <<row, tombs, order, chunkRows, receipts, expired, provider,
                   holder, left, history>>

SaveFinalized(r) ==
    /\ At(r, "save") /\ call[r].op = "complete"
    /\ IF CanSave(r)
       THEN /\ Saved(r, call[r].mine.next, TRUE)
            /\ Discard(r, "finish") /\ UNCHANGED holder
       ELSE End(r) /\ UNCHANGED row
    /\ UNCHANGED <<tombs, order, chunkRows, finals, receipts, expired, provider,
                   left, history>>

\* completed_response: the references must be there; then the transaction.
Receipt(r) ==
    /\ At(r, "receipt")
    /\ receipts' = IF Staged(S(r)) /\ S(r) \notin finals THEN receipts
                   ELSE receipts \cup {S(r)}
    /\ End(r)
    /\ UNCHANGED <<row, tombs, order, chunkRows, finals, expired, provider, left,
                   history>>

Abort(r) ==
    /\ At(r, "ready") /\ call[r].op = "abort" /\ ~call[r].mine.done
    /\ Discard(r, "abort")
    /\ UNCHANGED <<database, expired, provider, holder, left, history>>

(***************************************************************************)
(* Removing chunks (delete_object, cancel_session), then the session.       *)
(***************************************************************************)

\* Mistake: the sweep deletes the session first.
SessionFirst(p) ==
    CASE call[p].why = "abort"  -> Discard(p, "abort_again")
      [] call[p].why = "expire" -> Discard(p, "expire_again")
      [] call[p].why = "finish" -> Goto(p, "receipt")
      [] call[p].why = "expire_again" -> Goto(p, "forget")
      [] call[p].why \in {"sweep", "abort_again", "mismatch"} -> Goto(p, "drop")

\* What follows.  A completion and an abort's second attempt ignore a failure.
After(p) ==
    CASE call[p].why = "abort"  -> Discard(p, "abort_again")
      [] call[p].why = "expire" -> Discard(p, "expire_again")
      [] call[p].why = "finish" -> Goto(p, "receipt")
      [] call[p].why \in {"sweep", "expire_again"} -> Goto(p, "forget")
      [] call[p].why \in {"abort_again", "mismatch"} -> Goto(p, "drop")

NotRemoved(p) ==
    IF call[p].why \in {"finish", "abort_again", "mismatch"}
    THEN After(p) /\ UNCHANGED holder
    ELSE End(p)

\* Mistake: what was never recorded is taken for never sent.
SettledAnyway(s) == s \in Sessions

\* A chunk without a version keeps everything.
Settled(s) == \A x \in chunkRows[s] : x.refs # {}

ReadRows(p) ==
    /\ At(p, "rows") /\ Staged(S(p))
    /\ IF Settled(S(p))
       THEN /\ call' = [call EXCEPT ![p].at = "erase",
                                    ![p].put = UNION {x.refs : x \in chunkRows[S(p)]}]
            /\ erased' = erased \cup {S(p)}
            /\ UNCHANGED holder
       ELSE NotRemoved(p) /\ UNCHANGED erased
    /\ UNCHANGED <<database, expired, provider, left, acked, named,
                   unlocked>>

EraseVersion(p, v) ==
    /\ At(p, "erase") /\ v \in call[p].put
    /\ stored' = stored \ {v}
    /\ call' = [call EXCEPT ![p].put = @ \ {v}]
    /\ UNCHANGED <<database, expired, flying, cancelled, canon, holder, left,
                   history>>

EraseRows(p) ==
    /\ At(p, "erase") /\ call[p].put = {}
    /\ chunkRows' = [chunkRows EXCEPT ![S(p)] = {}]
    /\ After(p)
    /\ UNCHANGED <<row, tombs, order, finals, receipts, expired, provider,
                   holder, left, history>>

\* A legacy upload is cancelled, and its object removed.
EraseLegacy(p) ==
    /\ At(p, "rows") /\ ~Staged(S(p))
    /\ cancelled' = cancelled \cup {S(p)}
    /\ stored' = {v \in stored : v.s # S(p)}
    /\ After(p)
    /\ UNCHANGED <<database, expired, flying, canon, holder, left, history>>

Forget(p) ==
    /\ At(p, "forget")
    /\ receipts' = receipts \ {S(p)}
    /\ Goto(p, "drop")
    /\ UNCHANGED <<row, tombs, order, chunkRows, finals, expired, provider,
                   holder, left, history>>

\* The row goes and the tombstone stays, in one statement.
Drop(p) ==
    /\ At(p, "drop")
    /\ row' = [row EXCEPT ![S(p)] = NoRow]
    /\ tombs' = tombs \cup {S(p)}
    /\ IF p = Sweeper THEN Goto(p, "finals") /\ UNCHANGED holder ELSE End(p)
    /\ UNCHANGED <<order, chunkRows, finals, receipts, expired, provider, left,
                   history>>

DropFinals(p) ==
    /\ At(p, "finals")
    /\ finals' = finals \ {S(p)}
    /\ End(p)
    /\ UNCHANGED <<row, tombs, order, chunkRows, receipts, expired, provider,
                   left, history>>

(***************************************************************************)
(* sweep_expired                                                           *)
(***************************************************************************)
Due == {s \in expired : row[s].rev > 0}

Select ==
    /\ At(Sweeper, "idle")
    /\ Due # {}
    /\ call' = [call EXCEPT ![Sweeper].at = "page", ![Sweeper].page =
                  {s \in Due : Cardinality({t \in Due : order[t] < order[s]}) < Page}]
    /\ UNCHANGED <<database, expired, provider, holder, left, history>>

Visit(s) ==
    /\ At(Sweeper, "page")
    /\ s \in call[Sweeper].page
    /\ \A t \in call[Sweeper].page : order[s] <= order[t]
    /\ call' = [call EXCEPT ![Sweeper] =
                  [Idle EXCEPT !.at = "lock", !.s = s, !.page = call[Sweeper].page \ {s}]]
    /\ UNCHANGED <<row, tombs, chunkRows, finals, receipts, expired, provider,
                   holder, left, history>>

\* Mistake: the sweep starts at the same sessions every time.
CheckInPlace(s) == Visit(s) /\ UNCHANGED order

MovedToEnd(s) ==
    [t \in Sessions |-> IF t = s THEN Cardinality(Sessions)
                        ELSE IF order[t] > order[s] THEN order[t] - 1 ELSE order[t]]

\* cleanup_checked_at is set before the session is looked at.
Check(s) ==
    /\ Visit(s)
    /\ order' = IF row[s].rev = 0 THEN order ELSE MovedToEnd(s)

Swept ==
    /\ At(Sweeper, "page") /\ call[Sweeper].page = {}
    /\ call' = [call EXCEPT ![Sweeper] = Idle]
    /\ UNCHANGED <<database, expired, provider, holder, left, history>>

(***************************************************************************)
(* Failures.                                                               *)
(***************************************************************************)

\* A statement or a storage request failed before it did anything, or the
\* client went away and its handler with it (Refused and Unresolved end a
\* request where they can be taken); the sweep goes on to the next session.
Fail(p) ==
    /\ call[p].at \notin {"idle", "page", "sent"}
    /\ p = Sweeper \/ call[p].at \notin {"lock", "load", "ready"}
    /\ Spend("faults")
    /\ End(p)
    /\ UNCHANGED <<database, expired, provider, history>>

\* A failed removal is ignored where the code ignores it.
RemoveFails(p) ==
    /\ At(p, "rows") \/ At(p, "erase")
    /\ call[p].why \in {"finish", "abort_again", "mismatch"}
    /\ Spend("faults")
    /\ NotRemoved(p)
    /\ UNCHANGED <<database, expired, provider, history>>

\* The lock's connection breaks; until the process exits, its work goes on.
LoseLock(p) ==
    /\ call[p].at \notin {"idle", "page", "lock"}
    /\ holder[S(p)] = p
    /\ Spend("locks")
    /\ holder' = [holder EXCEPT ![S(p)] = Nobody]
    /\ unlocked' = unlocked \cup {S(p)}
    /\ UNCHANGED <<database, expired, provider, call, acked, named, erased>>

Restart ==
    /\ \E p \in Workers : ~At(p, "idle")
    /\ Spend("faults")
    /\ call' = [p \in Workers |-> Idle]
    /\ holder' = [s \in Sessions |-> Nobody]
    /\ UNCHANGED <<database, expired, provider, history>>

\* A PUT lands, wanted or not; a legacy upload takes its next bytes only.
Land(v) ==
    /\ v \in flying
    /\ Staged(v.s) \/ /\ v.s \notin cancelled
                      /\ Covers({w.chunk : w \in {x \in stored : x.s = v.s}},
                                v.chunk.start)
    /\ flying' = flying \ {v}
    /\ stored' = stored \cup {v}
    /\ UNCHANGED <<database, expired, cancelled, canon, holder, call, left,
                   history>>

Lose(v) ==
    /\ v \in flying
    /\ flying' = flying \ {v}
    /\ UNCHANGED <<database, expired, stored, cancelled, canon, holder, call,
                   left, history>>

-----------------------------------------------------------------------------
Request(r) ==
    \/ Lock(r) \/ Load(r) \/ Refused(r)
    \/ Retry(r) \/ Reserve(r) \/ Found(r) \/ Send(r) \/ Accepted(r)
    \/ Unresolved(r) \/ Record(r) \/ SaveChunk(r)
    \/ Replay(r) \/ Hash(r) \/ Promote(r) \/ References(r) \/ SaveFinalized(r)
    \/ Receipt(r) \/ Abort(r)

Removal(p) ==
    \/ ReadRows(p) \/ (\E v \in call[p].put : EraseVersion(p, v)) \/ EraseRows(p)
    \/ EraseLegacy(p) \/ Forget(p) \/ Drop(p)

Sweep == Select \/ (\E s \in Sessions : Check(s)) \/ Swept \/ Lock(Sweeper) \/ Load(Sweeper)
         \/ Removal(Sweeper) \/ DropFinals(Sweeper)

Next ==
    \/ \E s \in Sessions : CreateSession(s) \/ Expire(s)
    \/ \E r \in Requests, s \in Sessions :
          \/ \E op \in Ops \ {"chunk"} : Begin(r, op, s, NoChunk)
          \/ \E c \in Chunks : Begin(r, "chunk", s, c)
    \/ \E r \in Requests : Request(r) \/ Removal(r)
    \/ Sweep
    \/ \E p \in Workers : Fail(p) \/ RemoveFails(p) \/ LoseLock(p)
    \/ Restart
    \/ \E v \in flying : Land(v) \/ Lose(v)

Spec == Init /\ [][Next]_vars

\* Handlers run on, a request that waits for a provider times out, and the
\* sweep runs every minute for as long as the process lives.
FairSpec ==
    /\ Spec
    /\ \A r \in Requests : WF_vars(Request(r) \/ Removal(r))
    /\ WF_vars(Sweep)

-----------------------------------------------------------------------------
(* Properties. *)

\* Where a worker can be.
Steps == {"idle", "page", "lock", "load", "ready", "put", "sent", "record", "save",
          "promote", "references", "receipt", "rows", "erase", "forget", "drop",
          "finals"}

\* UploadSession as stored, and the local variables of a worker.
RowType == [rev : Nat, next : 0..Size, done : BOOLEAN]
CallType == [at : Steps, op : Ops, s : Sessions \cup {Nobody}, mine : RowType,
             chunk : Chunks \cup {NoChunk}, put : SUBSET Version, why : Purposes,
             page : SUBSET Sessions]
LeftType == [calls : Nat, puts : 0..MaxPuts, faults : Nat, locks : Nat]

\* Every variable has the shape of the rows, objects or local variables it
\* stands for, what a chunk's row names is of its session, and a lock is held
\* by a worker that is at that session.
TypeOK ==
    /\ row \in [Sessions -> RowType]
    /\ order \in [Sessions -> 1..Cardinality(Sessions)]
    /\ (tombs \cup expired \cup finals \cup receipts \cup cancelled) \subseteq Sessions
    /\ (erased \cup unlocked) \subseteq Sessions
    /\ chunkRows \in [Sessions -> SUBSET ChunkRow]
    /\ acked \in [Sessions -> SUBSET Chunks]
    /\ (stored \cup flying \cup named) \subseteq Version
    /\ canon \subseteq [s : Sessions, right : BOOLEAN]
    /\ holder \in [Sessions -> Workers \cup {Nobody}]
    /\ call \in [Workers -> CallType]
    /\ left \in LeftType
    /\ \A s \in Sessions :
          /\ \A x \in chunkRows[s] : \A v \in x.refs : v.s = s
          /\ holder[s] # Nobody => S(holder[s]) = s

\* upload_chunk acknowledges what a restart keeps: until somebody removes the
\* session's chunks, each acknowledged chunk has a row with those very bytes
\* that names stored versions of them, and the rows below the offset a client
\* is told are exactly the bytes below it, whatever was retried, lost, or done
\* without the lock.
AckedIsKept ==
    \A s \in Sessions \ Legacy :
        s \in erased \/ row[s].rev = 0
        \/ LET kept == {x \in chunkRows[s] : x.chunk.end < row[s].next}
           IN  /\ acked[s] \subseteq ChunksOf(kept)
               /\ Covers(ChunksOf(kept), row[s].next)
               /\ \A x \in kept :
                     /\ x.refs # {} /\ x.refs \subseteq stored
                     /\ \A v \in x.refs : v.chunk = x.chunk
                     /\ \A y \in kept : ~Overlap(x.chunk, y.chunk)

\* save and delete: whatever copy a worker has kept, an offset never goes back,
\* a finished upload stays finished, and a session that was deleted does not
\* return (upload_session_tombstones; its legacy manifest is still there).
NothingComesBack ==
    [][\A s \in Sessions :
          /\ row'[s].rev > 0 => /\ row'[s].next >= row[s].next
                                /\ row[s].done => row'[s].done
          /\ s \in tombs => s \in tombs' /\ row'[s].rev = 0]_vars

\* complete_session and finalize: while the lock holds, nothing but bytes of the
\* declared hash is promoted, though they are read again after they were hashed
\* and failed removals, saves and restarts may have left any part of a session.
OnlyRightBytes == \A c \in canon : c.right \/ c.s \in unlocked

\* The worker that deletes a session's row, having removed its chunks.
Cleaned(p, s) ==
    /\ At(p, "drop") /\ S(p) = s
    /\ call[p].why \in {"abort_again", "expire_again", "sweep"}

Leftover(s) == {v \in stored \cup flying : v.s = s}

\* delete_object: when an abort, an expiry or the sweep deletes a session, no
\* row is left, and a version or a PUT is left only of a chunk of which another
\* attempt was recorded, and that version removed.  A chunk nobody has learned
\* the outcome of keeps its session.
CleanupIsComplete ==
    [][\A s \in (tombs' \ tombs) \ (Legacy \cup unlocked) :
          (\E p \in Workers : Cleaned(p, s)) =>
             /\ chunkRows[s] = {}
             /\ \A v \in Leftover(s) :
                   \E w \in named \ Leftover(s) : w.s = s /\ w.chunk = v.chunk]_vars

\* forget_session_receipt comes before delete: a session no sweep finds again
\* has left no receipt in the outbox, unless somebody worked on it after losing
\* its lock: then a completion may write a receipt behind the removal.
NoReceiptIsOrphaned == receipts \cap tombs \subseteq unlocked

\* The plan of the B2 work: "never report cleanup complete while provider I/O
\* may still commit".
CleanupIsFinal ==
    \A s \in (tombs \cap Sessions) \ unlocked : \A v \in flying : v.s # s

\* sweep_expired: an expired session is deleted unless one of its chunks has no
\* version, although a page has fewer rows than are due and some of them can
\* never be cleaned.
ExpiredAreSwept ==
    \A s \in Sessions :
        s \in expired /\ row[s].rev > 0 ~> s \in tombs \/ ~Settled(s)
=============================================================================
