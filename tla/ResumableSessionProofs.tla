------------------------ MODULE ResumableSessionProofs ------------------------
(***************************************************************************)
(* Proofs about ResumableSession for any sessions, requests, chunks, sizes  *)
(* and bounds.                                                             *)
(*                                                                         *)
(* A worker's copy of its session is never ahead of the row and is the row  *)
(* while their revisions agree (Copied): that alone keeps deleted sessions  *)
(* and old offsets from coming back, with or without the lock.  While the   *)
(* lock holds nobody else touches the session (Held), so that what a worker *)
(* has seen of it stays true until its next step (Knows).  A step of one    *)
(* worker leaves what the others know true (ProgressKeeps), so each step is *)
(* looked at from its own worker's side only.                              *)
(*                                                                         *)
(* What was acknowledged needs no lock (Accounted): the offset of a stale   *)
(* copy is the start of a chunk that is already kept, so its request finds  *)
(* that chunk's row and adds none.  A complete removal needs it             *)
(* (Cleanable): every PUT has a row before it is sent, and a row goes only  *)
(* when it names a version and that version has gone, for good, since no    *)
(* version is sent twice (Once).                                            *)
(***************************************************************************)
EXTENDS ResumableSession, FiniteSetTheorems, TLAPS

Outside == {"idle", "page", "lock"}       \* steps without a lock
Copying == {"ready", "put", "sent", "record", "save", "promote", "references"}
Removing == {"rows", "erase", "forget", "drop"}

Typed ==
    /\ row \in [Sessions -> RowType]
    /\ tombs \subseteq Sessions /\ expired \subseteq Sessions
    /\ chunkRows \in [Sessions -> SUBSET ChunkRow]
    /\ \A s \in Sessions : \A x \in chunkRows[s] : \A v \in x.refs : v.s = s
    /\ acked \in [Sessions -> SUBSET Chunks]
    /\ holder \in [Sessions -> Workers \cup {Nobody}]
    /\ stored \subseteq Version /\ flying \subseteq Version /\ named \subseteq Version
    /\ call \in [Workers -> CallType]
    /\ left \in LeftType

\* Where a worker can be in which operation.
Fit(p) ==
    LET c == call[p]
    IN  /\ c.at \notin {"idle", "page"} => c.s \in Sessions
        /\ c.page \subseteq Sessions
        /\ p = Sweeper =>
              /\ c.at \in Outside \cup {"load", "finals"} \cup Removing
              /\ c.at \in Removing => c.why = "sweep"
        /\ p # Sweeper =>
              /\ c.at \notin {"page", "finals"}
              /\ c.op = "chunk" /\ c.at # "idle" => c.chunk \in Chunks
              /\ c.at \in Removing => c.why # "sweep"
        /\ c.at \in {"put", "sent", "record"} => c.op = "chunk"
        /\ c.at = "save" => c.op \in {"chunk", "complete"}
        /\ c.at \in {"promote", "references"} => c.op = "complete"
        /\ c.at = "erase" => Staged(c.s)
        /\ \A v \in c.put : v.s = c.s

\* The lock: whoever works on a session holds it, or somebody has lost it.
Held(p) == call[p].at \notin Outside => holder[S(p)] = p \/ S(p) \in unlocked
HeldBy(s) == holder[s] # Nobody => S(holder[s]) = s /\ call[holder[s]].at \notin Outside

\* The worker's copy of the session.
Copied(p) ==
    LET c == call[p]
    IN  c.at \notin Outside \cup {"load"} =>
           /\ Staged(c.s) => c.mine.rev > 0
           /\ c.s \notin tombs => /\ c.mine.rev <= row[c.s].rev
                                  /\ c.mine.rev = row[c.s].rev => c.mine = row[c.s]
           /\ c.at \in {"put", "sent", "record"} \/ (c.at = "save" /\ c.op = "chunk")
                 => c.chunk.start = c.mine.next /\ ~c.mine.done

\* What a worker knows of its session as long as nobody has lost the lock.
Knows(p) ==
    LET c == call[p]
    IN  c.at \notin Outside \cup {"load", "finals"} /\ c.s \notin unlocked =>
           /\ c.s \notin tombs
           /\ c.at \in Copying => row[c.s] = c.mine
           /\ c.at = "receipt" => row[c.s].done
           /\ c.at \in {"rows", "erase"} =>
                 /\ c.why = "finish" => row[c.s].done
                 /\ c.why \in {"abort", "abort_again", "mismatch"} => ~row[c.s].done
           /\ c.at = "drop" => c.s \notin receipts
           /\ c.at = "promote" => AreRight(BytesOf(c.s))

Sound(p) == Fit(p) /\ Held(p) /\ Copied(p) /\ Knows(p)

\* Of the tables: a deleted session has no row, a receipt is that of a finished
\* session, and what was promoted is right.
Tables ==
    /\ \A s \in tombs : row[s] = NoRow
    /\ \A s \in Sessions : row[s].rev = 0 => row[s] = NoRow
    /\ \A s \in receipts : s \in Sessions /\ (row[s].done \/ s \in unlocked)
    /\ \A c \in canon : c.right \/ c.s \in unlocked

Inv == /\ Typed /\ Tables
       /\ \A s \in Sessions : HeldBy(s)
       /\ \A p \in Workers : Sound(p)

-----------------------------------------------------------------------------
(* How a step changes what others know. *)

\* A step that no session notices.
Quiet ==
    \A t \in Sessions : /\ row'[t] = row[t]
                        /\ t \in tombs' <=> t \in tombs
                        /\ t \in receipts' <=> t \in receipts
                        /\ AreRight(BytesOf(t)) => AreRight(BytesOf(t))'

\* A step on session s leaves the others as they are, and rows only grow.
Frame(s) ==
    /\ \A t \in Sessions \ {s} :
          /\ row'[t] = row[t]
          /\ t \in tombs' <=> t \in tombs
          /\ t \in receipts' <=> t \in receipts
          /\ AreRight(BytesOf(t)) => AreRight(BytesOf(t))'
    /\ \A t \in Sessions :
          t \notin tombs' => /\ t \notin tombs
                             /\ row'[t] = row[t] \/ row'[t].rev > row[t].rev

\* The locks of others stay theirs.
LocksOf(q) ==
    /\ holder' \in [Sessions -> Workers \cup {Nobody}]
    /\ \A s \in Sessions :
          /\ holder[s] \notin {q, Nobody} => holder'[s] = holder[s]
          /\ holder'[s] \notin {q, Nobody} => holder'[s] = holder[s]
          /\ holder'[s] = q => S(q)' = s /\ call'[q].at \notin Outside

\* A step of one worker on its session.
Progress(q) ==
    /\ call' \in [Workers -> CallType]
    /\ \A p \in Workers \ {q} : call'[p] = call[p]
    /\ Typed' /\ Tables' /\ Sound(q)'
    /\ LocksOf(q) /\ unlocked' = unlocked
    /\ Quiet \/ (call[q].at \notin Outside /\ Frame(S(q)))

\* What one worker does leaves the others' knowledge true.
LEMMA ProgressKeeps ==
    ASSUME Inv, NEW q \in Workers, Progress(q)
    PROVE  Inv'
<1>1. ASSUME NEW p \in Workers \ {q} PROVE Sound(p)'
  <2>0. call'[p] = call[p] /\ Sound(p) /\ S(p)' = S(p) /\ unlocked' = unlocked
    BY DEF Progress, Inv, S
  <2>1. Fit(p)'
    BY <2>0 DEF Sound, Fit
  <2>2. Held(p)'
    <3> SUFFICES ASSUME call[p].at \notin Outside, S(p) \notin unlocked
                 PROVE  holder'[S(p)] = p
      BY <2>0 DEF Held
    <3>1. holder[S(p)] = p /\ S(p) \in Sessions
      BY <2>0 DEF Sound, Held, Fit, Outside, S
    <3>2. p # Nobody
      BY ResumableConstants
    <3>. QED BY <3>1, <3>2 DEF Progress, LocksOf
  <2>3. Quiet \/ (call[q].at \notin Outside /\ Frame(S(q)))
    BY DEF Progress
  <2>4. Copied(p)'
    <3> SUFFICES ASSUME call[p].at \notin Outside \cup {"load"} PROVE Copied(p)'
      BY <2>0 DEF Copied
    <3>1. S(p) \in Sessions
      BY <2>0 DEF Sound, Fit, Outside, S
    <3>2. S(p) \notin tombs' => /\ S(p) \notin tombs
                                /\ row'[S(p)] = row[S(p)] \/ row'[S(p)].rev > row[S(p)].rev
      BY <2>3, <3>1 DEF Frame, Quiet
    <3>3. row[S(p)].rev \in Nat /\ row'[S(p)].rev \in Nat /\ call[p].mine.rev \in Nat
      BY <3>1 DEF Progress, Inv, Typed, RowType, CallType
    <3>. QED BY <2>0, <3>2, <3>3 DEF Sound, Copied, S
  <2>5. Knows(p)'
    <3> SUFFICES ASSUME call[p].at \notin Outside \cup {"load", "finals"}, S(p) \notin unlocked
                 PROVE  Knows(p)'
      BY <2>0 DEF Knows, S
    <3>1. PICK t \in Sessions : t = S(p) /\ t = call[p].s /\ holder[t] = p
      BY <2>0 DEF Sound, Fit, Held, Outside, S
    <3>2. call[q].at \notin Outside => t # S(q)
      BY <3>1 DEF Inv, Sound, Held
    <3>3. /\ row'[t] = row[t]
          /\ t \in tombs' <=> t \in tombs
          /\ t \in receipts' <=> t \in receipts
          /\ AreRight(BytesOf(t)) => AreRight(BytesOf(t))'
      BY <2>3, <3>1, <3>2 DEF Frame, Quiet
    <3>4. call'[p].s = t /\ Knows(p)
      BY <2>0, <3>1 DEF Sound
    <3>. QED BY <2>0, <3>1, <3>3, <3>4 DEF Knows
  <2>. QED BY <2>1, <2>2, <2>4, <2>5 DEF Sound
<1>2. ASSUME NEW s \in Sessions PROVE HeldBy(s)'
  <2>1. CASE holder'[s] \in {q, Nobody}
    BY <2>1 DEF Progress, LocksOf, HeldBy, S
  <2>2. CASE holder'[s] \notin {q, Nobody}
    <3>1. holder'[s] = holder[s] /\ holder[s] \in Workers \ {q}
      BY <2>2 DEF Progress, LocksOf
    <3>. QED BY <2>2, <3>1 DEF Progress, Inv, HeldBy, S
  <2>. QED BY <2>1, <2>2
<1>. QED BY <1>1, <1>2 DEF Progress, Inv

-----------------------------------------------------------------------------
(* Steps that change no table. *)

\* A change of one worker's call.
LEMMA CallFacts ==
    ASSUME Inv, NEW q \in Workers, NEW x \in CallType, call' = [call EXCEPT ![q] = x]
    PROVE  /\ call' \in [Workers -> CallType] /\ call'[q] = x
           /\ \A p \in Workers \ {q} : call'[p] = call[p]
BY DEF Inv, Typed

\* What the tables and the provider are asked for does not disturb anybody.
LEMMA QuietProgress ==
    ASSUME Inv, NEW q \in Workers, call' \in [Workers -> CallType],
           \A p \in Workers \ {q} : call'[p] = call[p],
           Sound(q)', LocksOf(q),
           UNCHANGED <<row, tombs, expired, chunkRows, receipts, canon, stored, unlocked>>,
           acked' \in [Sessions -> SUBSET Chunks], flying' \subseteq Version,
           named' \subseteq Version, left' \in LeftType
    PROVE  Progress(q)
<1>1. Typed'
  BY DEF Inv, Typed, LocksOf
<1>2. Tables'
  BY DEF Inv, Tables
<1>3. Quiet
  BY DEF Quiet, BytesOf
<1>. QED BY <1>1, <1>2, <1>3 DEF Progress

\* A worker that holds no lock yet and takes none.
LEMMA OutsideProgress ==
    ASSUME Inv, NEW q \in Workers, NEW x \in CallType, call' = [call EXCEPT ![q] = x],
           call[q].at \in Outside, x.at \in Outside, Fit(q)',
           UNCHANGED <<row, tombs, expired, chunkRows, receipts, canon, stored, unlocked,
                       holder, acked, flying, named>>, left' \in LeftType
    PROVE  Progress(q)
<1>1. /\ call' \in [Workers -> CallType] /\ call'[q] = x
      /\ \A p \in Workers \ {q} : call'[p] = call[p]
  BY CallFacts
<1>2. Sound(q)'
  BY <1>1 DEF Sound, Held, Copied, Knows
<1>3. q # Nobody
  BY ResumableConstants
<1>4. LocksOf(q)
  BY <1>3 DEF LocksOf, Inv, Typed, HeldBy
<1>. QED BY <1>1, <1>2, <1>4, QuietProgress DEF Inv, Typed

\* A worker that is done is at nothing.
LEMMA IdleTyped ==
    Idle \in CallType /\ Idle.put = {} /\ Idle.page = {} /\ Idle.at = "idle"
    /\ Idle.mine = NoRow /\ NoRow \in RowType
<1>1. NoRow \in RowType
  BY ResumableConstants DEF NoRow, RowType
<1>. QED BY <1>1 DEF Idle, CallType, Steps, Ops, Purposes

\* A worker that ends gives its lock back and knows nothing more.
LEMMA EndFacts ==
    ASSUME Inv, NEW q \in Workers, End(q), unlocked' = unlocked
    PROVE  /\ call' \in [Workers -> CallType]
           /\ \A p \in Workers \ {q} : call'[p] = call[p]
           /\ Sound(q)' /\ LocksOf(q)
<1>1. call[q] \in CallType /\ Fit(q) /\ q # Nobody
  BY ResumableConstants DEF Inv, Typed, Sound
<1>2. /\ Rest(q) \in CallType /\ Rest(q).at \in {"idle", "page"}
      /\ Rest(q).put = {} /\ Rest(q).page \subseteq Sessions
      /\ Rest(q).at = "page" => q = Sweeper
  <2>1. Idle \in CallType /\ Idle.put = {} /\ Idle.page = {} /\ Idle.at = "idle"
    BY IdleTyped
  <2>2. call[q].page \subseteq Sessions
    BY <1>1 DEF Fit
  <2>3. /\ [Idle EXCEPT !.at = "page", !.page = call[q].page] \in CallType
        /\ [Idle EXCEPT !.at = "page", !.page = call[q].page].put = {}
    BY <2>1, <2>2 DEF CallType, Steps
  <2>. QED BY <2>1, <2>2, <2>3 DEF Rest, CallType
<1>3. /\ call' \in [Workers -> CallType] /\ call'[q] = Rest(q)
      /\ \A p \in Workers \ {q} : call'[p] = call[p]
  BY <1>2 DEF End, Inv, Typed
<1>4. Fit(q)'
  BY <1>2, <1>3 DEF Fit, Outside, Removing
<1>5. Sound(q)'
  BY <1>2, <1>3, <1>4 DEF Sound, Held, Copied, Knows, Outside
<1>6. LocksOf(q)
  BY <1>1 DEF LocksOf, End, Unlocked, Inv, Typed
<1>. QED BY <1>3, <1>5, <1>6

\* So a worker may end anywhere.
LEMMA EndProgress ==
    ASSUME Inv, NEW q \in Workers, End(q),
           UNCHANGED <<row, tombs, expired, chunkRows, receipts, canon, stored, unlocked,
                       flying, named>>,
           acked' \in [Sessions -> SUBSET Chunks], left' \in LeftType
    PROVE  Progress(q)
BY EndFacts, QuietProgress DEF Inv, Typed

\* A worker that goes on behind its lock keeps it.
LEMMA OnwardFacts ==
    ASSUME Inv, NEW q \in Workers, NEW x \in CallType, call' = [call EXCEPT ![q] = x],
           call[q].at \notin Outside, x.at \notin Outside, x.s = call[q].s,
           UNCHANGED <<holder, unlocked>>
    PROVE  /\ call' \in [Workers -> CallType] /\ call'[q] = x
           /\ \A p \in Workers \ {q} : call'[p] = call[p]
           /\ LocksOf(q) /\ Held(q)'
<1>1. /\ call' \in [Workers -> CallType] /\ call'[q] = x
      /\ \A p \in Workers \ {q} : call'[p] = call[p]
  BY CallFacts
<1>2. q # Nobody
  BY ResumableConstants
<1>3. LocksOf(q)
  BY <1>1, <1>2 DEF LocksOf, Inv, Typed, HeldBy, S
<1>4. Held(q)'
  BY <1>1 DEF Inv, Sound, Held, S
<1>. QED BY <1>1, <1>3, <1>4

\* What a worker behind its lock is.
LEMMA AtFacts ==
    ASSUME Inv, NEW q \in Workers, call[q].at \notin Outside
    PROVE  /\ call[q] \in CallType /\ S(q) \in Sessions /\ S(q) = call[q].s
           /\ Sound(q) /\ Fit(q) /\ Copied(q) /\ Knows(q)
           /\ row[S(q)] \in RowType
BY DEF Inv, Typed, Sound, Fit, S, Outside

\* Its next step.
LEMMA GotoTypes ==
    ASSUME Inv, NEW q \in Workers, NEW step \in Steps, Goto(q, step)
    PROVE  /\ [call[q] EXCEPT !.at = step] \in CallType
           /\ call' = [call EXCEPT ![q] = [call[q] EXCEPT !.at = step]]
<1>1. call[q] \in CallType
  BY DEF Inv, Typed
<1>. QED BY <1>1 DEF CallType, Goto, Inv, Typed

LEMMA DiscardTypes ==
    ASSUME Inv, NEW q \in Workers, NEW why \in Purposes, Discard(q, why)
    PROVE  /\ [call[q] EXCEPT !.at = "rows", !.why = why] \in CallType
           /\ call' = [call EXCEPT ![q] = [call[q] EXCEPT !.at = "rows", !.why = why]]
<1>1. call[q] \in CallType /\ "rows" \in Steps
  BY DEF Inv, Typed, Steps
<1>2. [call[q] EXCEPT !.at = "rows", !.why = why] \in CallType
  <2> HIDE DEF Steps, Purposes
  <2>. QED BY <1>1 DEF CallType
<1>3. call \in [Workers -> CallType]
  BY DEF Inv, Typed
<1>4. call' = [call EXCEPT ![q] = [call[q] EXCEPT !.at = "rows", !.why = why]]
  BY <1>1, <1>3 DEF Discard, CallType
<1>. QED BY <1>2, <1>4

-----------------------------------------------------------------------------
(* Beginning, locking, loading. *)

\* A request is accepted.
LEMMA BeginProgress ==
    ASSUME Inv, NEW r \in Requests, NEW op \in Ops, NEW s \in Sessions,
           NEW c \in Chunks \cup {NoChunk}, op = "chunk" => c \in Chunks, Begin(r, op, s, c)
    PROVE  Progress(r)
<1> DEFINE x == [Idle EXCEPT !.at = "lock", !.op = op, !.s = s, !.chunk = c]
<1>1. /\ x \in CallType /\ x.at = "lock" /\ x.op = op /\ x.s = s /\ x.chunk = c
      /\ x.put = {} /\ x.page = {}
  BY IdleTyped DEF CallType, Steps
<1>2. r \in Workers /\ r # Sweeper
  BY ResumableConstants DEF Workers
<1>3. call' = [call EXCEPT ![r] = x] /\ call[r].at \in Outside /\ x.at \in Outside
  BY <1>1 DEF Begin, At, Outside
<1>4. left' \in LeftType
  BY DEF Begin, Spend, Inv, Typed, LeftType
<1> HIDE DEF x
<1>5. call'[r] = x
  BY <1>1, <1>2, <1>3, CallFacts
<1>6. Fit(r)'
  BY <1>1, <1>2, <1>5 DEF Fit, Removing
<1>. QED BY <1>1, <1>2, <1>3, <1>4, <1>6, OutsideProgress
         DEF Begin, database, provider, history

\* The sweep takes a page and the next session of it.
LEMMA SweepProgress ==
    ASSUME Inv, Select \/ Swept \/ \E s \in Sessions : Check(s)
    PROVE  Progress(Sweeper)
<1>1. Sweeper \in Workers /\ call[Sweeper] \in CallType /\ Fit(Sweeper) /\ left \in LeftType
      /\ call[Sweeper].page \subseteq Sessions
  BY DEF Workers, Inv, Typed, Sound, CallType
<1>2. ASSUME NEW x \in CallType, call' = [call EXCEPT ![Sweeper] = x], x.at \in Outside,
             call[Sweeper].at \in Outside, \A v \in x.put : v.s = x.s,
             x.at = "lock" => x.s \in Sessions,
             UNCHANGED <<row, tombs, expired, chunkRows, receipts, canon, stored, unlocked,
                         holder, acked, flying, named, left>>
      PROVE  Progress(Sweeper)
  <2>1. call'[Sweeper] = x
    BY <1>1, <1>2, CallFacts
  <2>2. Fit(Sweeper)'
    BY <1>2, <2>1 DEF Fit, Outside, Removing, CallType
  <2>. QED BY <1>1, <1>2, <2>2, OutsideProgress
<1>3. CASE Select
  <2> DEFINE page == {s \in Due : Cardinality({t \in Due : order[t] < order[s]}) < Page}
             x == [call[Sweeper] EXCEPT !.at = "page", !.page = page]
  <2>1. page \subseteq Sessions
    BY DEF Due, Inv, Typed
  <2>2. call' = [call EXCEPT ![Sweeper] = x]
    BY <1>1, <1>3 DEF Select, Inv, Typed
  <2> HIDE DEF page
  <2>3. x \in CallType /\ x.at = "page" /\ x.put = call[Sweeper].put /\ x.s = call[Sweeper].s
    BY <1>1, <2>1 DEF CallType, Steps
  <2>4. \A v \in call[Sweeper].put : v.s = call[Sweeper].s
    BY <1>1 DEF Fit
  <2> HIDE DEF x
  <2>. QED BY <1>2, <1>3, <2>2, <2>3, <2>4
           DEF Select, At, Outside, database, provider, history
<1>4. CASE Swept
  BY <1>2, <1>4, IdleTyped DEF Swept, At, Outside, database, provider, history
<1>5. ASSUME NEW s \in Sessions, Check(s) PROVE Progress(Sweeper)
  <2> DEFINE x == [Idle EXCEPT !.at = "lock", !.s = s, !.page = call[Sweeper].page \ {s}]
  <2>1. x \in CallType /\ x.at = "lock" /\ x.put = {} /\ x.s = s
    BY <1>1, IdleTyped DEF CallType, Steps
  <2>2. call' = [call EXCEPT ![Sweeper] = x]
    BY <1>5 DEF Check, Visit
  <2> HIDE DEF x
  <2>. QED BY <1>2, <1>5, <2>1, <2>2 DEF Check, Visit, At, Outside, provider, history
<1>. QED BY <1>3, <1>4, <1>5

\* The lock is taken or the request is refused.
LEMMA LockProgress ==
    ASSUME Inv, NEW p \in Workers, Lock(p)
    PROVE  Progress(p)
<1>1. CASE holder[S(p)] # Nobody
  BY <1>1, EndProgress DEF Lock, Inv, Typed, database, provider, history
<1>2. CASE holder[S(p)] = Nobody
  <2> DEFINE x == [call[p] EXCEPT !.at = "load"]
  <2>1. call[p] \in CallType /\ Fit(p) /\ call[p].at = "lock" /\ S(p) = call[p].s
        /\ S(p) \in Sessions /\ p # Nobody
    BY ResumableConstants DEF Inv, Typed, Sound, Lock, At, Fit, S
  <2>2. call' = [call EXCEPT ![p] = x] /\ x \in CallType
    BY <1>2, GotoTypes DEF Lock, Steps
  <2>3. /\ x.at = "load" /\ x.s = call[p].s /\ x.op = call[p].op /\ x.chunk = call[p].chunk
        /\ x.put = call[p].put /\ x.page = call[p].page
    BY <2>1 DEF CallType
  <2> HIDE DEF x
  <2>4. /\ call' \in [Workers -> CallType] /\ call'[p] = x
        /\ \A q \in Workers \ {p} : call'[q] = call[q]
    BY <2>2, CallFacts
  <2>5. holder' = [holder EXCEPT ![S(p)] = p]
    BY <1>2 DEF Lock
  <2>6. LocksOf(p)
    BY <1>2, <2>1, <2>3, <2>4, <2>5 DEF LocksOf, Inv, Typed, HeldBy, Outside, S
  <2>7. Fit(p)'
    BY <2>1, <2>3, <2>4 DEF Fit, Outside, Removing
  <2>8. Held(p)'
    BY <2>1, <2>3, <2>4, <2>5 DEF Held, Inv, Typed, S
  <2>9. Sound(p)'
    BY <2>3, <2>4, <2>7, <2>8 DEF Sound, Copied, Knows
  <2>. QED BY <2>4, <2>6, <2>9, QuietProgress
           DEF Lock, Inv, Typed, database, provider, history
<1>. QED BY <1>1, <1>2

\* The worker has read the session.
LEMMA Loaded ==
    ASSUME Inv, NEW p \in Workers, Load(p), UNCHANGED holder,
           S(p) \notin tombs, row[S(p)].rev > 0 \/ S(p) \in Legacy,
           NEW x \in CallType, call' = [call EXCEPT ![p] = x],
           x.s = call[p].s, x.op = call[p].op, x.chunk = call[p].chunk,
           x.put = call[p].put, x.page = call[p].page, x.mine = row[S(p)],
           x.at \in {"ready", "rows", "forget"},
           p = Sweeper => x.at # "ready" /\ x.why = "sweep",
           p # Sweeper => x.why \in {"finish", "expire"},
           x.at = "rows" => x.why \in {"sweep", "expire"}
    PROVE  Progress(p)
<1>1. call[p].at = "load" /\ call[p].at \notin Outside /\ x.at \notin Outside
  BY DEF Load, At, Outside
<1>2. /\ call[p] \in CallType /\ S(p) \in Sessions /\ S(p) = call[p].s
      /\ Fit(p) /\ row[S(p)] \in RowType
  BY <1>1, AtFacts
<1>3. UNCHANGED <<row, tombs, expired, chunkRows, receipts, canon, stored, unlocked,
                  acked, flying, named, left>>
  BY DEF Load, database, provider, history
<1>4. /\ call' \in [Workers -> CallType] /\ call'[p] = x
      /\ \A q \in Workers \ {p} : call'[q] = call[q]
      /\ LocksOf(p) /\ Held(p)'
  BY <1>1, <1>3, OnwardFacts
<1>5. Fit(p)'
  BY <1>1, <1>2, <1>4 DEF Fit, Outside, Removing
<1>6. PICK t \in Sessions : t = S(p)
  BY <1>2
<1>7. /\ x.s = t /\ x.mine = row[t] /\ row[t].rev \in Nat /\ t \notin tombs
      /\ Staged(t) => row[t].rev > 0
  BY <1>2, <1>6 DEF Staged, RowType
<1>8. Copied(p)'
  BY <1>3, <1>4, <1>7 DEF Copied, Staged
<1>9. Knows(p)'
  BY <1>3, <1>4, <1>7 DEF Knows
<1>. QED BY <1>3, <1>4, <1>5, <1>8, <1>9, QuietProgress DEF Sound, Inv, Typed

LEMMA LoadProgress ==
    ASSUME Inv, NEW p \in Workers, Load(p)
    PROVE  Progress(p)
<1>1. CASE End(p)
  BY <1>1, EndProgress DEF Load, Inv, Typed, database, provider, history
<1>2. call[p] \in CallType /\ row[S(p)] \in RowType
  BY AtFacts DEF Load, At, Outside
<1>3. ASSUME NEW step \in {"ready", "rows", "forget"}, NEW why \in {"finish", "expire", "sweep"},
             call' = [call EXCEPT ![p].at = step, ![p].why = why, ![p].mine = row[S(p)]],
             Known(S(p)), UNCHANGED holder,
             p = Sweeper => step # "ready" /\ why = "sweep",
             p # Sweeper => why \in {"finish", "expire"},
             step = "rows" => why \in {"sweep", "expire"}
      PROVE  Progress(p)
  <2> DEFINE x == [call[p] EXCEPT !.at = step, !.why = why, !.mine = row[S(p)]]
  <2>1. x \in CallType
    BY <1>2, <1>3 DEF CallType, Steps, Purposes
  <2>2. /\ x.at = step /\ x.why = why /\ x.s = call[p].s /\ x.op = call[p].op
        /\ x.chunk = call[p].chunk /\ x.put = call[p].put /\ x.page = call[p].page
        /\ x.mine = row[S(p)]
    BY <1>2 DEF CallType
  <2>3. call' = [call EXCEPT ![p] = x]
    BY <1>2, <1>3 DEF Inv, Typed
  <2> HIDE DEF x
  <2>. QED BY <1>3, <2>1, <2>2, <2>3, Loaded DEF Known
<1>4. CASE ~End(p)
  <2>1. /\ Known(S(p)) /\ UNCHANGED holder
        /\ \/ /\ S(p) \notin expired /\ p # Sweeper
              /\ call' = [call EXCEPT ![p].at = "ready", ![p].why = "finish",
                                      ![p].mine = row[S(p)]]
           \/ /\ p = Sweeper
              /\ call' = [call EXCEPT ![p].at = IF Staged(S(p)) \/ ~row[S(p)].done
                                                THEN "rows" ELSE "forget",
                                      ![p].why = "sweep", ![p].mine = row[S(p)]]
           \/ /\ p # Sweeper
              /\ call' = [call EXCEPT ![p].at = IF row[S(p)].done THEN "forget" ELSE "rows",
                                      ![p].why = "expire", ![p].mine = row[S(p)]]
    BY <1>4 DEF Load
  <2>. QED BY <1>3, <2>1
<1>. QED BY <1>1, <1>4

-----------------------------------------------------------------------------
(* Behind the lock. *)

\* A worker that goes on with the copy it has, tables as they are.
LEMMA OnwardProgress ==
    ASSUME Inv, NEW q \in Workers, NEW x \in CallType, call' = [call EXCEPT ![q] = x],
           call[q].at \notin Outside \cup {"load", "finals"},
           x.at \notin Outside \cup {"load", "finals"},
           x.s = call[q].s, x.mine = call[q].mine, x.op = call[q].op,
           x.chunk = call[q].chunk, x.page = call[q].page,
           \A v \in x.put : v.s = x.s,
           UNCHANGED <<row, tombs, expired, chunkRows, receipts, canon, stored, unlocked,
                       holder, acked, named>>,
           flying' \subseteq Version, left' \in LeftType,
           q = Sweeper => x.at \in Removing /\ x.why = "sweep",
           q # Sweeper => (x.at \in Removing => x.why # "sweep"),
           x.at \in {"put", "sent", "record"} \/ (x.at = "save" /\ x.op = "chunk")
              => x.op = "chunk" /\ x.chunk.start = x.mine.next /\ ~x.mine.done,
           x.at = "save" => x.op \in {"chunk", "complete"},
           x.at \in {"promote", "references"} => x.op = "complete",
           x.at = "erase" => Staged(x.s),
           S(q) \notin unlocked =>
              /\ x.at \in Copying => row[S(q)] = x.mine
              /\ x.at = "receipt" => row[S(q)].done
              /\ x.at \in {"rows", "erase"} =>
                    /\ x.why = "finish" => row[S(q)].done
                    /\ x.why \in {"abort", "abort_again", "mismatch"} => ~row[S(q)].done
              /\ x.at = "drop" => S(q) \notin receipts
              /\ x.at = "promote" => AreRight(BytesOf(S(q)))
    PROVE  Progress(q)
<1>1. /\ S(q) \in Sessions /\ S(q) = call[q].s /\ Fit(q) /\ Copied(q) /\ Knows(q)
      /\ call[q].at \notin Outside /\ x.at \notin Outside
  BY AtFacts
<1>2. /\ call' \in [Workers -> CallType] /\ call'[q] = x
      /\ \A p \in Workers \ {q} : call'[p] = call[p]
      /\ LocksOf(q) /\ Held(q)'
  BY <1>1, OnwardFacts
<1>3. Fit(q)'
  BY <1>1, <1>2 DEF Fit, Removing, Outside
<1>4. PICK t \in Sessions : t = S(q)
  BY <1>1
<1>5. Copied(q)'
  BY <1>1, <1>2, <1>4 DEF Copied
<1>6. Knows(q)'
  <2>1. AreRight(BytesOf(t)) => AreRight(BytesOf(t))'
    BY DEF BytesOf
  <2>. QED BY <1>1, <1>2, <1>4, <2>1 DEF Knows
<1>. QED BY <1>2, <1>3, <1>5, <1>6, QuietProgress DEF Sound, Inv, Typed

\* The same for a step that only changes where the worker is.
LEMMA GotoProgress ==
    ASSUME Inv, NEW q \in Workers, NEW step \in Steps, Goto(q, step),
           call[q].at \notin Outside \cup {"load", "finals"},
           step \notin Outside \cup {"load", "finals"},
           UNCHANGED <<row, tombs, expired, chunkRows, receipts, canon, stored, unlocked,
                       holder, acked, named>>,
           flying' \subseteq Version, left' \in LeftType,
           q = Sweeper => step \in Removing /\ call[q].why = "sweep",
           q # Sweeper => (step \in Removing => call[q].why # "sweep"),
           step \in {"put", "sent", "record"} \/ (step = "save" /\ call[q].op = "chunk")
              => /\ call[q].op = "chunk" /\ call[q].chunk.start = call[q].mine.next
                 /\ ~call[q].mine.done,
           step = "save" => call[q].op \in {"chunk", "complete"},
           step \in {"promote", "references"} => call[q].op = "complete",
           step \notin {"rows", "erase"},
           S(q) \notin unlocked =>
              /\ step \in Copying => row[S(q)] = call[q].mine
              /\ step = "receipt" => row[S(q)].done
              /\ step = "drop" => S(q) \notin receipts
              /\ step = "promote" => AreRight(BytesOf(S(q)))
    PROVE  Progress(q)
<1> DEFINE x == [call[q] EXCEPT !.at = step]
<1>1. x \in CallType /\ call' = [call EXCEPT ![q] = x]
  BY GotoTypes
<1>2. call[q] \in CallType /\ Fit(q)
  BY AtFacts
<1>3. /\ x.at = step /\ x.why = call[q].why /\ x.s = call[q].s /\ x.op = call[q].op
      /\ x.chunk = call[q].chunk /\ x.put = call[q].put /\ x.page = call[q].page
      /\ x.mine = call[q].mine
  BY <1>2 DEF CallType
<1>4. \A v \in x.put : v.s = x.s
  BY <1>2, <1>3 DEF Fit
<1> HIDE DEF x
<1>5. /\ x.at \notin Outside \cup {"load", "finals"}
      /\ q = Sweeper => x.at \in Removing /\ x.why = "sweep"
      /\ q # Sweeper => (x.at \in Removing => x.why # "sweep")
      /\ x.at \in {"put", "sent", "record"} \/ (x.at = "save" /\ x.op = "chunk")
            => x.op = "chunk" /\ x.chunk.start = x.mine.next /\ ~x.mine.done
      /\ x.at = "save" => x.op \in {"chunk", "complete"}
      /\ x.at \in {"promote", "references"} => x.op = "complete"
      /\ x.at = "erase" => Staged(x.s)
  BY <1>3
<1>6. S(q) \notin unlocked =>
         /\ x.at \in Copying => row[S(q)] = x.mine
         /\ x.at = "receipt" => row[S(q)].done
         /\ x.at \in {"rows", "erase"} =>
               /\ x.why = "finish" => row[S(q)].done
               /\ x.why \in {"abort", "abort_again", "mismatch"} => ~row[S(q)].done
         /\ x.at = "drop" => S(q) \notin receipts
         /\ x.at = "promote" => AreRight(BytesOf(S(q)))
  BY <1>3
<1>. QED BY <1>1, <1>3, <1>4, <1>5, <1>6, OnwardProgress

\* A chunk is found, sent, or accepted by GCS.
LEMMA ChunkOnward ==
    ASSUME Inv, NEW r \in Requests, Found(r) \/ Send(r) \/ Accepted(r)
    PROVE  Progress(r)
<1>1. r \in Workers /\ r # Sweeper /\ call[r].at \in {"put", "sent"}
  BY ResumableConstants DEF Workers, Found, Send, Accepted, At
<1>2. /\ call[r] \in CallType /\ S(r) \in Sessions /\ S(r) = call[r].s
      /\ Fit(r) /\ Copied(r) /\ Knows(r)
  BY <1>1, AtFacts DEF Outside
<1>3. /\ call[r].op = "chunk" /\ call[r].chunk \in Chunks
      /\ call[r].chunk.start = call[r].mine.next /\ ~call[r].mine.done
      /\ S(r) \notin unlocked => row[S(r)] = call[r].mine
  BY <1>1, <1>2 DEF Fit, Copied, Knows, Copying, Outside
<1>4. CASE Found(r)
  <2>1. PICK v \in Same(r) : call' = [call EXCEPT ![r].at = "record", ![r].put = {v}]
    BY <1>4 DEF Found
  <2> DEFINE x == [call[r] EXCEPT !.at = "record", !.put = {v}]
  <2>2. v \in Version /\ v.s = S(r)
    BY <2>1 DEF Same, Inv, Typed
  <2>3. x \in CallType /\ call' = [call EXCEPT ![r] = x]
    <3>1. {v} \in SUBSET Version
      BY <2>2
    <3> HIDE DEF Version
    <3>2. x \in CallType
      BY <1>2, <3>1 DEF CallType, Steps
    <3>. QED BY <2>1, <3>2 DEF Inv, Typed
  <2>4. /\ x.at = "record" /\ x.why = call[r].why /\ x.s = call[r].s /\ x.op = call[r].op
        /\ x.chunk = call[r].chunk /\ x.put = {v} /\ x.page = call[r].page
        /\ x.mine = call[r].mine
    BY <1>2 DEF CallType
  <2> HIDE DEF x
  <2>5. \A w \in x.put : w.s = x.s
    BY <1>2, <2>2, <2>4
  <2>6. UNCHANGED <<row, tombs, expired, chunkRows, receipts, canon, stored, unlocked,
                    holder, acked, named, flying, left>>
    BY <1>4 DEF Found, database, provider, history
  <2>7. flying' \subseteq Version /\ left' \in LeftType
    BY <2>6 DEF Inv, Typed
  <2>8. x.at \notin Outside \cup {"load", "finals"} /\ x.at \in Copying /\ x.at \notin Removing
    BY <2>4 DEF Outside, Copying, Removing
  <2>9. call[r].at \notin Outside \cup {"load", "finals"}
    BY <1>1 DEF Outside
  <2>. QED BY <1>1, <1>3, <2>3, <2>4, <2>5, <2>6, <2>7, <2>8, <2>9, OnwardProgress
<1>5. CASE Send(r)
  <2>1. left.puts \in 1..MaxPuts /\ left' \in LeftType
    BY <1>5, ResumableConstants DEF Send, Spend, Inv, Typed, LeftType
  <2>2. flying' \subseteq Version
    BY <1>2, <1>3, <1>5, <2>1 DEF Send, Version, Inv, Typed
  <2>3. Goto(r, "sent") /\ UNCHANGED <<row, tombs, expired, chunkRows, receipts, canon,
                                       stored, unlocked, holder, acked, named>>
    BY <1>5 DEF Send, database, history
  <2>. QED BY <1>1, <1>3, <2>1, <2>2, <2>3, GotoProgress DEF Steps, Outside, Removing
<1>6. CASE Accepted(r)
  <2>1. Goto(r, "save") /\ UNCHANGED <<row, tombs, expired, chunkRows, receipts, canon,
                                       stored, unlocked, holder, acked, named, flying, left>>
    BY <1>6 DEF Accepted, database, provider, history
  <2>2. flying' \subseteq Version /\ left' \in LeftType
    BY <2>1 DEF Inv, Typed
  <2>. QED BY <1>1, <1>3, <2>1, <2>2, GotoProgress DEF Steps, Outside, Removing
<1>. QED BY <1>4, <1>5, <1>6

\* What follows a removal, done or given up.
LEMMA AfterFacts ==
    ASSUME Inv, NEW p \in Workers, call[p].at \in {"rows", "erase"}, After(p),
           UNCHANGED <<row, tombs, receipts, holder, unlocked>>
    PROVE  /\ call' \in [Workers -> CallType]
           /\ \A q \in Workers \ {p} : call'[q] = call[q]
           /\ Sound(p)' /\ LocksOf(p)
<1>1. /\ call[p] \in CallType /\ S(p) \in Sessions /\ S(p) = call[p].s
      /\ Fit(p) /\ Copied(p) /\ Knows(p) /\ call[p].at \notin Outside
  BY AtFacts DEF Outside
<1> DEFINE Becomes(x) ==
         /\ call' = [call EXCEPT ![p] = x]
         /\ x.s = call[p].s /\ x.op = call[p].op /\ x.chunk = call[p].chunk
         /\ x.put = call[p].put /\ x.page = call[p].page /\ x.mine = call[p].mine
         /\ x.at \in {"rows", "receipt", "forget", "drop"}
         /\ x.why = "sweep" <=> call[p].why = "sweep"
         /\ x.at = "rows" => x.why \in {"abort_again", "expire_again"}
         /\ x.why = "abort_again" => call[p].why \in {"abort", "abort_again"}
         /\ x.at = "receipt" => call[p].why = "finish"
         /\ x.at = "drop" => call[p].why \in {"abort_again", "mismatch"}
         /\ call[p].why = "sweep" => x.at = "forget"
<1>2. PICK x \in CallType : Becomes(x)
  <2>1. ASSUME NEW why \in {"abort_again", "expire_again"}, Discard(p, why),
               why = "abort_again" => call[p].why = "abort", call[p].why \in {"abort", "expire"}
        PROVE  \E y \in CallType : Becomes(y)
    <3> DEFINE x == [call[p] EXCEPT !.at = "rows", !.why = why]
    <3>1. x \in CallType /\ call' = [call EXCEPT ![p] = x]
      BY <2>1, DiscardTypes DEF Purposes
    <3>2. /\ x.at = "rows" /\ x.why = why /\ x.s = call[p].s /\ x.op = call[p].op
          /\ x.chunk = call[p].chunk /\ x.put = call[p].put /\ x.page = call[p].page
          /\ x.mine = call[p].mine
      BY <1>1 DEF CallType
    <3> HIDE DEF x
    <3>. QED BY <2>1, <3>1, <3>2
  <2>2. ASSUME NEW step \in {"receipt", "forget", "drop"}, Goto(p, step),
               step = "receipt" <=> call[p].why = "finish",
               step = "drop" <=> call[p].why \in {"abort_again", "mismatch"},
               call[p].why # "abort"
        PROVE  \E y \in CallType : Becomes(y)
    <3> DEFINE x == [call[p] EXCEPT !.at = step]
    <3>1. x \in CallType /\ call' = [call EXCEPT ![p] = x]
      BY <2>2, GotoTypes DEF Steps
    <3>2. /\ x.at = step /\ x.why = call[p].why /\ x.s = call[p].s /\ x.op = call[p].op
          /\ x.chunk = call[p].chunk /\ x.put = call[p].put /\ x.page = call[p].page
          /\ x.mine = call[p].mine
      BY <1>1 DEF CallType
    <3> HIDE DEF x
    <3>. QED BY <2>2, <3>1, <3>2
  <2>3. call[p].why \in Purposes
    BY <1>1 DEF CallType
  <2>. QED BY <2>1, <2>2, <2>3 DEF After, Purposes
<1>3. /\ call' \in [Workers -> CallType] /\ call'[p] = x
      /\ \A q \in Workers \ {p} : call'[q] = call[q]
      /\ LocksOf(p) /\ Held(p)'
  BY <1>1, <1>2, OnwardFacts DEF Outside
<1>4. Fit(p)'
  <2>1. p = Sweeper => x.at = "forget" /\ x.why = "sweep"
    BY <1>1, <1>2 DEF Fit, Removing
  <2>2. p # Sweeper => x.why # "sweep"
    BY <1>1, <1>2 DEF Fit, Removing
  <2>. QED BY <1>1, <1>2, <1>3, <2>1, <2>2 DEF Fit, Removing, Outside
<1>5. PICK t \in Sessions : t = S(p)
  BY <1>1
<1>6. Copied(p)'
  BY <1>1, <1>2, <1>3, <1>5 DEF Copied, Outside
<1>7. Knows(p)'
  <2> SUFFICES ASSUME t \notin unlocked PROVE Knows(p)'
    BY <1>1, <1>2, <1>3, <1>5 DEF Knows
  <2>1. /\ t \notin tombs
        /\ call[p].why = "finish" => row[t].done
        /\ call[p].why \in {"abort", "abort_again", "mismatch"} => ~row[t].done
    BY <1>1, <1>5 DEF Knows, Outside
  <2>2. ~row[t].done => t \notin receipts
    BY DEF Inv, Tables
  <2>3. /\ call'[p].at = x.at /\ call'[p].why = x.why /\ call'[p].s = t
    BY <1>1, <1>2, <1>3, <1>5
  <2>4. /\ x.at \notin Copying \cup {"promote"}
        /\ x.at = "receipt" => row[t].done
        /\ x.at \in {"rows", "erase"} =>
              /\ x.why # "finish"
              /\ x.why \in {"abort", "abort_again", "mismatch"} => ~row[t].done
        /\ x.at = "drop" => t \notin receipts
    BY <1>2, <2>1, <2>2 DEF Copying
  <2>5. UNCHANGED <<row, tombs, receipts>>
    OBVIOUS
  <2>. QED BY <2>1, <2>3, <2>4, <2>5 DEF Knows
<1>. QED BY <1>3, <1>4, <1>6, <1>7 DEF Sound

\* A worker stops where it is: refused, unresolved, failed, or done.
LEMMA StopProgress ==
    ASSUME Inv, NEW p \in Workers,
           Refused(p) \/ Unresolved(p) \/ Fail(p) \/ RemoveFails(p)
    PROVE  Progress(p)
<1>1. left' \in LeftType
  BY DEF Refused, Unresolved, Fail, RemoveFails, Spend, Inv, Typed, LeftType
<1>2. UNCHANGED <<row, tombs, expired, chunkRows, receipts, canon, stored, unlocked, acked,
                  flying, named>>
  BY DEF Refused, Unresolved, Fail, RemoveFails, database, provider, history
<1>3. acked' \in [Sessions -> SUBSET Chunks]
  BY <1>2 DEF Inv, Typed
<1>4. CASE End(p)
  BY <1>1, <1>2, <1>3, <1>4, EndProgress
<1>5. CASE call[p].at \in {"rows", "erase"} /\ After(p) /\ UNCHANGED holder
  <2>1. /\ call' \in [Workers -> CallType]
        /\ \A q \in Workers \ {p} : call'[q] = call[q]
        /\ Sound(p)' /\ LocksOf(p)
    BY <1>2, <1>5, AfterFacts
  <2>. QED BY <1>1, <1>2, <1>3, <2>1, QuietProgress DEF Inv, Typed
<1>. QED BY <1>4, <1>5 DEF Refused, Unresolved, Fail, RemoveFails, NotRemoved, At

\* A step on the chunks of one session leaves the bytes of the others.
LEMMA ChunksFrame ==
    ASSUME Inv, NEW s \in Sessions, UNCHANGED <<row, tombs, receipts>>,
           \A t \in Sessions \ {s} :
              /\ chunkRows'[t] = chunkRows[t]
              /\ {w \in stored' : w.s = t} = {w \in stored : w.s = t}
    PROVE  Frame(s)
<1>1. ASSUME NEW t \in Sessions \ {s} PROVE AreRight(BytesOf(t)) => AreRight(BytesOf(t))'
  <2>1. BytesOf(t)' = BytesOf(t)
    BY DEF BytesOf, Staged
  <2>. QED BY <2>1 DEF AreRight, Covers
<1>. QED BY <1>1 DEF Frame

\* A row for the chunk, then its version.
LEMMA RowProgress ==
    ASSUME Inv, NEW r \in Requests, Retry(r) \/ Reserve(r) \/ Record(r)
    PROVE  Progress(r)
<1>1. r \in Workers /\ r # Sweeper /\ call[r].at \in {"ready", "record"}
  BY ResumableConstants DEF Workers, Retry, Reserve, Record, At
<1>2. /\ call[r] \in CallType /\ S(r) \in Sessions /\ S(r) = call[r].s
      /\ Fit(r) /\ Copied(r) /\ Knows(r)
  BY <1>1, AtFacts DEF Outside
<1>3. PICK s \in Sessions : s = S(r)
  BY <1>2
<1>4. call[r].op = "chunk" => call[r].chunk \in Chunks
  BY <1>1, <1>2 DEF Fit
<1>5. CASE Retry(r)
  <2>1. acked' \in [Sessions -> SUBSET Chunks]
    BY <1>3, <1>4, <1>5 DEF Retry, Inv, Typed
  <2>. QED BY <1>1, <1>5, <2>1, EndProgress DEF Retry, Inv, Typed, database, provider
\* Whichever way the rows change, the worker goes on.
<1>6. ASSUME NEW step \in {"put", "save"}, Goto(r, step), UNCHANGED holder,
             call[r].op = "chunk", call[r].chunk.start = call[r].mine.next, ~call[r].mine.done,
             chunkRows' \in [Sessions -> SUBSET ChunkRow],
             \A x \in chunkRows'[s] : \A v \in x.refs : v.s = s,
             \A t \in Sessions \ {s} : chunkRows'[t] = chunkRows[t],
             UNCHANGED <<row, tombs, expired, receipts, canon, stored, flying, acked, unlocked,
                         left>>,
             named' \subseteq Version
      PROVE  Progress(r)
  <2> DEFINE x == [call[r] EXCEPT !.at = step]
  <2>1. x \in CallType /\ call' = [call EXCEPT ![r] = x]
    BY <1>1, <1>6, GotoTypes DEF Steps
  <2>2. /\ x.at = step /\ x.s = call[r].s /\ x.op = call[r].op
        /\ x.chunk = call[r].chunk /\ x.put = call[r].put /\ x.page = call[r].page
        /\ x.mine = call[r].mine
    BY <1>2 DEF CallType
  <2> HIDE DEF x
  <2>3. call[r].at \notin Outside /\ x.at \notin Outside
    BY <1>1, <2>2 DEF Outside
  <2>4. /\ call' \in [Workers -> CallType] /\ call'[r] = x
        /\ \A p \in Workers \ {r} : call'[p] = call[p]
        /\ LocksOf(r) /\ Held(r)'
    BY <1>1, <1>6, <2>1, <2>2, <2>3, OnwardFacts
  <2>5. Fit(r)'
    BY <1>1, <1>2, <1>4, <1>6, <2>2, <2>4 DEF Fit, Removing, Outside
  <2>6. Copied(r)'
    BY <1>1, <1>2, <1>3, <1>6, <2>2, <2>4 DEF Copied, Outside
  <2>7. Knows(r)'
    BY <1>1, <1>2, <1>3, <1>6, <2>2, <2>4 DEF Knows, Copying, Outside
  <2>8. Typed'
    BY <1>6, <2>4 DEF Inv, Typed, LocksOf
  <2>9. Tables'
    BY <1>6 DEF Inv, Tables
  <2>10. Frame(s)
    BY <1>6, ChunksFrame
  <2>. QED BY <1>3, <1>6, <2>3, <2>4, <2>5, <2>6, <2>7, <2>8, <2>9, <2>10
           DEF Progress, Sound
<1>7. CASE Reserve(r)
  <2>1. /\ call[r].op = "chunk" /\ call[r].chunk.start = call[r].mine.next
        /\ ~call[r].mine.done /\ call[r].at = "ready"
        /\ UNCHANGED <<row, tombs, expired, receipts, canon, stored, flying, acked, named,
                       unlocked, left>>
    BY <1>7 DEF Reserve, At, provider, history
  <2>2. CASE End(r) /\ UNCHANGED chunkRows
    BY <1>1, <2>1, <2>2, EndProgress DEF Inv, Typed
  <2>3. CASE Goto(r, "put") /\ UNCHANGED <<chunkRows, holder>>
    BY <1>3, <1>6, <2>1, <2>3 DEF Inv, Typed
  <2>4. CASE ~(End(r) /\ UNCHANGED chunkRows) /\ ~(Goto(r, "put") /\ UNCHANGED <<chunkRows, holder>>)
    <3>1. /\ Goto(r, "put") /\ UNCHANGED holder
          /\ chunkRows' = [chunkRows EXCEPT ![s] =
                 IF RowAt(s, call[r].chunk.start) = {}
                 THEN @ \cup {[chunk |-> call[r].chunk, refs |-> {}]} ELSE @]
      BY <1>3, <1>7, <2>4 DEF Reserve
    <3>2. [chunk |-> call[r].chunk, refs |-> {}] \in ChunkRow
      BY <1>4, <2>1 DEF ChunkRow
    <3>3. chunkRows' \in [Sessions -> SUBSET ChunkRow]
      BY <3>1, <3>2 DEF Inv, Typed
    <3>4. \A t \in Sessions \ {s} : chunkRows'[t] = chunkRows[t]
      BY <3>1 DEF Inv, Typed
    <3>5. \A x \in chunkRows'[s] : \A v \in x.refs : v.s = s
      <4>1. chunkRows'[s] \subseteq chunkRows[s] \cup {[chunk |-> call[r].chunk, refs |-> {}]}
        BY <3>1 DEF Inv, Typed
      <4>. QED BY <4>1 DEF Inv, Typed
    <3>. QED BY <1>6, <2>1, <3>1, <3>3, <3>4, <3>5 DEF Inv, Typed
  <2>. QED BY <2>2, <2>3, <2>4
<1>8. CASE Record(r)
  <2>1. /\ call[r].at = "record" /\ Goto(r, "save")
        /\ UNCHANGED <<row, tombs, expired, receipts, canon, stored, flying, acked, holder,
                       unlocked, left>>
    BY <1>8 DEF Record, At, provider, history
  <2>2. call[r].op = "chunk" /\ call[r].chunk.start = call[r].mine.next /\ ~call[r].mine.done
    BY <1>2, <2>1 DEF Fit, Copied, Outside
  <2>3. call[r].put \in SUBSET Version /\ \A v \in call[r].put : v.s = s
    BY <1>2, <1>3 DEF Fit, CallType
  <2> DEFINE New(x) == IF x.chunk.start = call[r].chunk.start
                       THEN [x EXCEPT !.refs = call[r].put] ELSE x
  <2>4. chunkRows' = [chunkRows EXCEPT ![s] = {New(x) : x \in @}]
    BY <1>3, <1>8 DEF Record
  <2>5. ASSUME NEW x \in chunkRows[s]
        PROVE  New(x) \in ChunkRow /\ \A v \in New(x).refs : v.s = s
    <3>1. x \in ChunkRow /\ \A v \in x.refs : v.s = s
      BY DEF Inv, Typed
    <3> HIDE DEF Version
    <3>. QED BY <2>3, <3>1 DEF ChunkRow
  <2> HIDE DEF New
  <2>6. /\ chunkRows' \in [Sessions -> SUBSET ChunkRow]
        /\ \A t \in Sessions \ {s} : chunkRows'[t] = chunkRows[t]
        /\ chunkRows'[s] = {New(x) : x \in chunkRows[s]}
    BY <2>4, <2>5 DEF Inv, Typed
  <2>7. \A x \in chunkRows'[s] : \A v \in x.refs : v.s = s
    BY <2>5, <2>6
  <2>8. named' \subseteq Version
    BY <1>8, <2>3 DEF Record, Inv, Typed
  <2>. QED BY <1>6, <2>1, <2>2, <2>6, <2>7, <2>8
<1>. QED BY <1>5, <1>7, <1>8

\* A save at the loaded revision: the copy was the row, and the row grows.
LEMMA SaveFacts ==
    ASSUME Inv, NEW r \in Workers, call[r].at = "save", CanSave(r),
           NEW next \in 0..Size, NEW done \in BOOLEAN, Saved(r, next, done),
           UNCHANGED <<tombs, receipts, chunkRows, stored>>
    PROVE  /\ S(r) \notin tombs /\ row[S(r)] = call[r].mine
           /\ row' \in [Sessions -> RowType] /\ Frame(S(r))
           /\ \A t \in Sessions \ {S(r)} : row'[t] = row[t]
           /\ row'[S(r)] = [rev |-> row[S(r)].rev + 1, next |-> next, done |-> done]
           /\ row'[S(r)].rev > row[S(r)].rev /\ row[S(r)].rev \in Nat
<1>1. /\ call[r] \in CallType /\ S(r) \in Sessions /\ S(r) = call[r].s
      /\ Copied(r) /\ row[S(r)] \in RowType
  BY AtFacts DEF Outside
<1>2. PICK s \in Sessions : s = S(r)
  BY <1>1
<1>3. s \notin tombs /\ row[s] = call[r].mine /\ row[s].rev \in Nat
  BY <1>1, <1>2 DEF CanSave, Copied, Outside, RowType
<1>4. /\ row' = [row EXCEPT ![s] = [rev |-> row[s].rev + 1, next |-> next, done |-> done]]
      /\ [rev |-> row[s].rev + 1, next |-> next, done |-> done] \in RowType
  BY <1>2, <1>3 DEF Saved, RowType
<1>5. /\ row' \in [Sessions -> RowType] /\ \A t \in Sessions \ {s} : row'[t] = row[t]
      /\ row'[s] = [rev |-> row[s].rev + 1, next |-> next, done |-> done]
  BY <1>4 DEF Inv, Typed
<1>6. row'[s].rev > row[s].rev
  BY <1>3, <1>5
<1>7. ASSUME NEW t \in Sessions PROVE AreRight(BytesOf(t)) => AreRight(BytesOf(t))'
  BY DEF BytesOf, Staged, AreRight, Covers
<1>8. Frame(s)
  BY <1>5, <1>6, <1>7 DEF Frame
<1>. QED BY <1>2, <1>3, <1>5, <1>6, <1>8

\* The tables after it.
LEMMA SavedTables ==
    ASSUME Inv, NEW s \in Sessions, s \notin tombs, row'[s].rev # 0,
           \A t \in Sessions \ {s} : row'[t] = row[t],
           row'[s].done \/ s \notin receipts \/ s \in unlocked,
           UNCHANGED <<tombs, receipts, canon, unlocked>>
    PROVE  Tables'
<1>1. \A t \in tombs : t \in Sessions \ {s} /\ row[t] = NoRow
  BY DEF Inv, Typed, Tables
<1>2. \A t \in Sessions : row[t].rev = 0 => row[t] = NoRow
  BY DEF Inv, Tables
<1>3. \A t \in receipts : t \in Sessions /\ (row[t].done \/ t \in unlocked)
  BY DEF Inv, Tables
<1>4. \A t \in receipts' : t \in Sessions /\ (row'[t].done \/ t \in unlocked')
  BY <1>3
<1>5. \A t \in Sessions : row'[t].rev = 0 => row'[t] = NoRow
  BY <1>2
<1>. QED BY <1>1, <1>4, <1>5 DEF Inv, Tables

\* The end of a chunk.
LEMMA SaveChunkProgress ==
    ASSUME Inv, NEW r \in Requests, SaveChunk(r)
    PROVE  Progress(r)
<1>1. r \in Workers /\ r # Sweeper /\ call[r].at = "save" /\ call[r].op = "chunk" /\ End(r)
  BY ResumableConstants DEF Workers, SaveChunk, At
<1>2. /\ call[r] \in CallType /\ S(r) \in Sessions /\ S(r) = call[r].s
      /\ Fit(r) /\ Copied(r) /\ Knows(r) /\ call[r].at \notin Outside
  BY <1>1, AtFacts DEF Outside
<1>3. PICK s \in Sessions : s = S(r)
  BY <1>2
<1>4. /\ call[r].chunk \in Chunks /\ call[r].chunk.end + 1 \in 0..Size
      /\ ~call[r].mine.done
  BY <1>1, <1>2, ResumableConstants DEF Fit, Copied, Outside
<1>5. UNCHANGED <<tombs, expired, chunkRows, receipts, canon, stored, flying, named, unlocked,
                  left>>
  BY DEF SaveChunk, provider
<1>6. CASE ~CanSave(r)
  BY <1>1, <1>5, <1>6, EndProgress DEF SaveChunk, Inv, Typed
<1>7. CASE CanSave(r)
  <2>1. /\ s \notin tombs /\ row[s] = call[r].mine
        /\ row' \in [Sessions -> RowType] /\ Frame(s)
        /\ \A t \in Sessions \ {s} : row'[t] = row[t]
        /\ row'[s].rev > row[s].rev /\ row[s].rev \in Nat
    BY <1>1, <1>3, <1>4, <1>5, <1>7, SaveFacts DEF SaveChunk
  <2>2. acked' \in [Sessions -> SUBSET Chunks]
    BY <1>3, <1>4, <1>7 DEF SaveChunk, Inv, Typed
  <2>3. /\ call' \in [Workers -> CallType]
        /\ \A p \in Workers \ {r} : call'[p] = call[p]
        /\ Sound(r)' /\ LocksOf(r)
    BY <1>1, <1>5, EndFacts
  <2>4. Typed'
    BY <1>5, <2>1, <2>2, <2>3 DEF Inv, Typed, LocksOf
  <2>5. Tables'
    <3>1. s \notin receipts \/ s \in unlocked
      BY <1>4, <2>1 DEF Inv, Tables
    <3>2. row'[s].rev # 0
      BY <2>1
    <3>. QED BY <1>5, <2>1, <3>1, <3>2, SavedTables
  <2>. QED BY <1>2, <1>3, <1>5, <2>1, <2>3, <2>4, <2>5 DEF Progress
<1>. QED BY <1>6, <1>7

\* The end of a completion: saved, the chunks are removed next.
LEMMA SaveFinalizedProgress ==
    ASSUME Inv, NEW r \in Requests, SaveFinalized(r)
    PROVE  Progress(r)
<1>1. r \in Workers /\ r # Sweeper /\ call[r].at = "save" /\ call[r].op = "complete"
  BY ResumableConstants DEF Workers, SaveFinalized, At
<1>2. /\ call[r] \in CallType /\ S(r) \in Sessions /\ S(r) = call[r].s
      /\ Fit(r) /\ Copied(r) /\ Knows(r) /\ call[r].at \notin Outside
  BY <1>1, AtFacts DEF Outside
<1>3. PICK s \in Sessions : s = S(r)
  BY <1>2
<1>4. call[r].mine.next \in 0..Size /\ call[r].mine.rev \in Nat
  BY <1>2 DEF CallType, RowType
<1>5. UNCHANGED <<tombs, expired, chunkRows, receipts, canon, stored, flying, acked, named,
                  unlocked, left>>
  BY DEF SaveFinalized, provider, history
<1>6. CASE ~CanSave(r)
  BY <1>1, <1>5, <1>6, EndProgress DEF SaveFinalized, Inv, Typed
<1>7. CASE CanSave(r)
  <2> DEFINE x == [call[r] EXCEPT !.at = "rows", !.why = "finish"]
  <2>1. x \in CallType /\ call' = [call EXCEPT ![r] = x] /\ UNCHANGED holder
    <3>1. Discard(r, "finish") /\ UNCHANGED holder
      BY <1>7 DEF SaveFinalized
    <3>. QED BY <1>1, <3>1, DiscardTypes DEF Purposes
  <2>2. /\ x.at = "rows" /\ x.why = "finish" /\ x.s = call[r].s /\ x.op = call[r].op
        /\ x.chunk = call[r].chunk /\ x.put = call[r].put /\ x.page = call[r].page
        /\ x.mine = call[r].mine
    BY <1>2 DEF CallType
  <2> HIDE DEF x
  <2>3. /\ s \notin tombs /\ row[s] = call[r].mine
        /\ row' \in [Sessions -> RowType] /\ Frame(s)
        /\ \A t \in Sessions \ {s} : row'[t] = row[t]
        /\ row'[s].rev > row[s].rev /\ row[s].rev \in Nat /\ row'[s].done
    <3>1. Saved(r, call[r].mine.next, TRUE) /\ TRUE \in BOOLEAN
      BY <1>7 DEF SaveFinalized
    <3>2. row'[s] = [rev |-> row[s].rev + 1, next |-> call[r].mine.next, done |-> TRUE]
      BY <1>1, <1>3, <1>4, <1>5, <1>7, <3>1, SaveFacts
    <3>3. row'[s].done
      <4>1. row'[s].done = TRUE
        BY <3>2
      <4>. QED BY <4>1, Zenon
    <3>4. /\ s \notin tombs /\ row[s] = call[r].mine
          /\ row' \in [Sessions -> RowType] /\ Frame(s)
          /\ \A t \in Sessions \ {s} : row'[t] = row[t]
          /\ row'[s].rev > row[s].rev /\ row[s].rev \in Nat
      BY <1>1, <1>3, <1>4, <1>5, <1>7, <3>1, SaveFacts
    <3>. QED BY <3>3, <3>4
  <2>4. /\ call' \in [Workers -> CallType] /\ call'[r] = x
        /\ \A p \in Workers \ {r} : call'[p] = call[p]
        /\ LocksOf(r) /\ Held(r)'
    BY <1>1, <1>2, <1>5, <2>1, <2>2, OnwardFacts DEF Outside
  <2>5. Fit(r)'
    BY <1>1, <1>2, <2>2, <2>4 DEF Fit, Removing, Outside
  <2>6. Copied(r)'
    <3>1. row'[s].rev \in Nat
      BY <2>3 DEF RowType
    <3>2. call'[r].mine.rev = row[s].rev /\ call'[r].s = s /\ call'[r].at = "rows"
      BY <1>2, <1>3, <2>2, <2>3, <2>4
    <3>3. call'[r].mine.rev <= row'[s].rev /\ call'[r].mine.rev # row'[s].rev
      BY <2>3, <3>1, <3>2
    <3>4. Staged(s) => call'[r].mine.rev > 0
      BY <1>1, <1>2, <1>3, <2>2, <2>4 DEF Copied, Outside
    <3>. QED BY <3>2, <3>3, <3>4 DEF Copied
  <2>7. Knows(r)'
    BY <1>2, <1>3, <1>5, <2>2, <2>3, <2>4 DEF Knows, Copying
  <2>8. Typed'
    BY <1>5, <2>3, <2>4 DEF Inv, Typed, LocksOf
  <2>9. Tables'
    <3>1. row'[s].rev # 0
      BY <2>3
    <3>. QED BY <1>5, <2>3, <3>1, SavedTables
  <2>. QED BY <1>2, <1>3, <1>5, <2>3, <2>4, <2>5, <2>6, <2>7, <2>8, <2>9
           DEF Progress, Sound
<1>. QED BY <1>6, <1>7

\* A completion looks at what it has; an abort begins to remove it.
LEMMA ChooseProgress ==
    ASSUME Inv, NEW r \in Requests, Replay(r) \/ Hash(r) \/ Abort(r)
    PROVE  Progress(r)
<1>1. r \in Workers /\ r # Sweeper /\ call[r].at = "ready"
  BY ResumableConstants DEF Workers, Replay, Hash, Abort, At
<1>2. /\ call[r] \in CallType /\ S(r) \in Sessions /\ S(r) = call[r].s
      /\ Fit(r) /\ Copied(r) /\ Knows(r)
      /\ call[r].at \notin Outside \cup {"load", "finals"}
  BY <1>1, AtFacts DEF Outside
<1>3. S(r) \notin unlocked => row[S(r)] = call[r].mine
  BY <1>1, <1>2 DEF Knows, Copying, Outside
<1>4. /\ UNCHANGED <<row, tombs, expired, chunkRows, receipts, canon, stored, unlocked,
                     acked, named, flying, left>>
      /\ acked' \in [Sessions -> SUBSET Chunks] /\ flying' \subseteq Version
      /\ left' \in LeftType
  BY DEF Replay, Hash, Abort, database, provider, history, Inv, Typed
<1>5. CASE End(r)
  BY <1>1, <1>4, <1>5, EndProgress
<1>6. CASE Goto(r, "receipt") /\ UNCHANGED holder /\ call[r].mine.done
  BY <1>1, <1>2, <1>3, <1>4, <1>6, GotoProgress DEF Steps, Outside, Removing, Copying
<1>7. CASE /\ Goto(r, "promote") /\ UNCHANGED holder /\ call[r].op = "complete"
           /\ AreRight(BytesOf(S(r)))
  BY <1>1, <1>2, <1>3, <1>4, <1>7, GotoProgress DEF Steps, Outside, Removing, Copying
<1>8. ASSUME NEW why \in {"abort", "mismatch"}, Discard(r, why), UNCHANGED holder,
             ~call[r].mine.done
      PROVE  Progress(r)
  <2> DEFINE x == [call[r] EXCEPT !.at = "rows", !.why = why]
  <2>1. x \in CallType /\ call' = [call EXCEPT ![r] = x]
    BY <1>1, <1>8, DiscardTypes DEF Purposes
  <2>2. /\ x.at = "rows" /\ x.why = why /\ x.s = call[r].s /\ x.op = call[r].op
        /\ x.chunk = call[r].chunk /\ x.put = call[r].put /\ x.page = call[r].page
        /\ x.mine = call[r].mine
    BY <1>2 DEF CallType
  <2> HIDE DEF x
  <2>3. \A v \in x.put : v.s = x.s
    BY <1>2, <2>2 DEF Fit
  <2>4. x.at \notin Outside \cup {"load", "finals"} \cup Copying
    BY <2>2 DEF Outside, Copying
  <2>5. S(r) \notin unlocked =>
           /\ x.why # "finish"
           /\ x.why \in {"abort", "abort_again", "mismatch"} => ~row[S(r)].done
    BY <1>3, <1>8, <2>2
  <2>. QED BY <1>1, <1>2, <1>4, <1>8, <2>1, <2>2, <2>3, <2>4, <2>5, OnwardProgress
<1>. QED BY <1>5, <1>6, <1>7, <1>8 DEF Replay, Hash, Abort, HashMatches

\* Promotion: the bytes are read again, still under the lock.
LEMMA PromoteProgress ==
    ASSUME Inv, NEW r \in Requests, Promote(r) \/ References(r)
    PROVE  Progress(r)
<1>1. r \in Workers /\ r # Sweeper /\ call[r].at \in {"promote", "references"}
  BY ResumableConstants DEF Workers, Promote, References, At
<1>2. /\ call[r] \in CallType /\ S(r) \in Sessions /\ S(r) = call[r].s
      /\ Fit(r) /\ Copied(r) /\ Knows(r)
      /\ call[r].at \notin Outside \cup {"load", "finals"}
  BY <1>1, AtFacts DEF Outside
<1>3. /\ call[r].op = "complete"
      /\ S(r) \notin unlocked => row[S(r)] = call[r].mine
  BY <1>1, <1>2 DEF Fit, Knows, Copying, Outside
<1>4. /\ UNCHANGED <<row, tombs, expired, chunkRows, receipts, stored, unlocked,
                     acked, named, flying, left>>
      /\ acked' \in [Sessions -> SUBSET Chunks] /\ flying' \subseteq Version
      /\ left' \in LeftType
  BY DEF Promote, References, database, provider, history, Inv, Typed
<1>5. CASE End(r) /\ UNCHANGED canon
  BY <1>1, <1>4, <1>5, EndProgress
<1>6. CASE References(r)
  <2>1. Goto(r, "save") /\ UNCHANGED <<holder, canon>>
    BY <1>6 DEF References, provider
  <2>. QED BY <1>1, <1>2, <1>3, <1>4, <2>1, GotoProgress
           DEF Steps, Outside, Removing, Copying
<1>7. CASE Promote(r) /\ ~(End(r) /\ UNCHANGED canon)
  <2>1. /\ call[r].at = "promote" /\ Goto(r, "references") /\ UNCHANGED holder
        /\ canon' = canon \cup {[s |-> S(r), right |-> AreRight(BytesOf(S(r)))]}
    BY <1>7 DEF Promote, At
  <2> DEFINE x == [call[r] EXCEPT !.at = "references"]
  <2>2. x \in CallType /\ call' = [call EXCEPT ![r] = x]
    BY <1>1, <2>1, GotoTypes DEF Steps
  <2>3. /\ x.at = "references" /\ x.s = call[r].s /\ x.op = call[r].op
        /\ x.chunk = call[r].chunk /\ x.put = call[r].put /\ x.page = call[r].page
        /\ x.mine = call[r].mine
    BY <1>2 DEF CallType
  <2> HIDE DEF x
  <2>4. /\ call' \in [Workers -> CallType] /\ call'[r] = x
        /\ \A p \in Workers \ {r} : call'[p] = call[p]
        /\ LocksOf(r) /\ Held(r)'
    BY <1>1, <1>2, <1>4, <2>1, <2>2, <2>3, OnwardFacts DEF Outside
  <2>5. Fit(r)'
    BY <1>1, <1>2, <1>3, <2>3, <2>4 DEF Fit, Removing, Outside
  <2>6. PICK s \in Sessions : s = S(r)
    BY <1>2
  <2>7. Copied(r)'
    BY <1>2, <1>4, <2>3, <2>4, <2>6 DEF Copied
  <2>8. Knows(r)'
    BY <1>2, <1>3, <1>4, <2>3, <2>4, <2>6 DEF Knows, Copying
  <2>9. Typed'
    BY <1>4, <2>4 DEF Inv, Typed, LocksOf
  <2>10. Tables'
    <3> DEFINE new == [s |-> s, right |-> AreRight(BytesOf(s))]
    <3>1. AreRight(BytesOf(s)) \/ s \in unlocked
      BY <1>2, <2>1, <2>6 DEF Knows, Outside
    <3>2. new.s = s /\ (AreRight(BytesOf(s)) => new.right = TRUE)
      OBVIOUS
    <3>3. canon' = canon \cup {new}
      BY <2>1, <2>6
    <3> HIDE DEF new
    <3>4. new.right \/ new.s \in unlocked
      BY <3>1, <3>2, Zenon
    <3>5. \A c \in canon : c.right \/ c.s \in unlocked
      BY DEF Inv, Tables
    <3>6. \A c \in canon' : c.right \/ c.s \in unlocked'
      BY <1>4, <3>3, <3>4, <3>5
    <3>. QED BY <1>4, <3>6 DEF Inv, Tables
  <2>11. Quiet
    BY <1>4 DEF Quiet, BytesOf
  <2>. QED BY <1>4, <2>4, <2>5, <2>7, <2>8, <2>9, <2>10, <2>11 DEF Progress, Sound
<1>. QED BY <1>5, <1>6, <1>7

\* The receipt of a finished session.
LEMMA ReceiptProgress ==
    ASSUME Inv, NEW r \in Requests, Receipt(r)
    PROVE  Progress(r)
<1>1. r \in Workers /\ call[r].at = "receipt" /\ End(r)
  BY DEF Workers, Receipt, At
<1>2. S(r) \in Sessions /\ S(r) = call[r].s /\ Knows(r) /\ call[r].at \notin Outside
  BY <1>1, AtFacts DEF Outside
<1>3. PICK s \in Sessions : s = S(r)
  BY <1>2
<1>4. /\ row[s].done \/ s \in unlocked
      /\ receipts' \subseteq receipts \cup {s} /\ receipts \subseteq receipts'
      /\ UNCHANGED <<row, tombs, expired, chunkRows, stored, canon, flying, acked, named,
                     unlocked, left>>
  BY <1>1, <1>2, <1>3 DEF Knows, Receipt, provider, history, Outside
<1>5. /\ call' \in [Workers -> CallType]
      /\ \A p \in Workers \ {r} : call'[p] = call[p]
      /\ Sound(r)' /\ LocksOf(r)
  BY <1>1, <1>4, EndFacts
<1>6. Typed'
  BY <1>4, <1>5 DEF Inv, Typed, LocksOf
<1>7. Tables'
  BY <1>3, <1>4 DEF Inv, Tables
<1>8. Frame(s)
  BY <1>4 DEF Frame, BytesOf
<1>. QED BY <1>2, <1>3, <1>4, <1>5, <1>6, <1>7, <1>8 DEF Progress

-----------------------------------------------------------------------------
(* Removal. *)

\* The rows are read, the versions they name are removed one by one.
LEMMA EraseProgress ==
    ASSUME Inv, NEW p \in Workers, ReadRows(p) \/ \E v \in call[p].put : EraseVersion(p, v)
    PROVE  Progress(p)
<1>1. call[p].at \in {"rows", "erase"} /\ call[p].at \notin Outside \cup {"load", "finals"}
  BY DEF ReadRows, EraseVersion, At, Outside
<1>2. /\ call[p] \in CallType /\ S(p) \in Sessions /\ S(p) = call[p].s
      /\ Fit(p) /\ Copied(p) /\ Knows(p)
  BY <1>1, AtFacts
<1>3. PICK s \in Sessions : s = S(p)
  BY <1>2
<1>4. /\ UNCHANGED <<row, tombs, expired, chunkRows, receipts, canon, flying, acked, named,
                     unlocked, left>>
      /\ acked' \in [Sessions -> SUBSET Chunks] /\ flying' \subseteq Version
      /\ left' \in LeftType
  BY DEF ReadRows, EraseVersion, database, provider, history, Inv, Typed
<1>5. /\ p = Sweeper => call[p].why = "sweep"
      /\ p # Sweeper => call[p].why # "sweep"
      /\ s \notin unlocked =>
            /\ call[p].why = "finish" => row[s].done
            /\ call[p].why \in {"abort", "abort_again", "mismatch"} => ~row[s].done
  BY <1>1, <1>2, <1>3 DEF Fit, Knows, Removing
<1>6. CASE ReadRows(p) /\ Settled(S(p))
  <2> DEFINE put == UNION {e.refs : e \in chunkRows[s]}
             x == [call[p] EXCEPT !.at = "erase", !.put = put]
  <2>1. call' = [call EXCEPT ![p].at = "erase", ![p].put = put]
        /\ UNCHANGED <<holder, stored>> /\ Staged(s)
    BY <1>3, <1>6 DEF ReadRows, provider
  <2>2. put \in SUBSET Version /\ \A v \in put : v.s = s
    <3>1. \A e \in chunkRows[s] : e.refs \subseteq Version /\ \A v \in e.refs : v.s = s
      BY DEF Inv, Typed, ChunkRow
    <3>. QED BY <3>1
  <2> HIDE DEF put
  <2>3. x \in CallType /\ call' = [call EXCEPT ![p] = x]
    <3> HIDE DEF Version
    <3>. QED BY <1>2, <2>1, <2>2 DEF CallType, Steps, Inv, Typed
  <2>4. /\ x.at = "erase" /\ x.why = call[p].why /\ x.s = s /\ x.op = call[p].op
        /\ x.chunk = call[p].chunk /\ x.put = put /\ x.page = call[p].page
        /\ x.mine = call[p].mine
    BY <1>2, <1>3 DEF CallType
  <2> HIDE DEF x
  <2>5. x.at \notin Outside \cup {"load", "finals"} \cup Copying /\ x.at \in Removing
    BY <2>4 DEF Outside, Copying, Removing
  <2>6. /\ x.at \notin {"put", "sent", "record", "save", "promote", "references"}
        /\ \A v \in x.put : v.s = x.s
        /\ Staged(x.s) /\ x.s = call[p].s
    BY <1>2, <1>3, <2>1, <2>2, <2>4
  <2>7. S(p) \notin unlocked =>
           /\ x.why = "finish" => row[S(p)].done
           /\ x.why \in {"abort", "abort_again", "mismatch"} => ~row[S(p)].done
           /\ x.at \notin {"receipt", "drop", "promote"} \cup Copying
    BY <1>3, <1>5, <2>4, <2>5
  <2>8. (p = Sweeper => x.why = "sweep") /\ (p # Sweeper => x.why # "sweep")
    BY <1>5, <2>4
  <2>. QED BY <1>1, <1>4, <2>1, <2>3, <2>4, <2>5, <2>6, <2>7, <2>8, OnwardProgress
<1>7. CASE ReadRows(p) /\ ~Settled(S(p))
  <2>1. NotRemoved(p) /\ UNCHANGED stored
    BY <1>7 DEF ReadRows, provider
  <2>2. CASE End(p)
    BY <1>4, <2>1, <2>2, EndProgress
  <2>3. CASE After(p) /\ UNCHANGED holder
    <3>1. /\ call' \in [Workers -> CallType]
          /\ \A q \in Workers \ {p} : call'[q] = call[q]
          /\ Sound(p)' /\ LocksOf(p)
      BY <1>1, <1>4, <2>3, AfterFacts
    <3>. QED BY <1>4, <2>1, <3>1, QuietProgress DEF Inv, Typed
  <2>. QED BY <2>1, <2>2, <2>3 DEF NotRemoved
<1>8. ASSUME NEW v \in call[p].put, EraseVersion(p, v)
      PROVE  Progress(p)
  <2> DEFINE x == [call[p] EXCEPT !.put = @ \ {v}]
  <2>1. /\ call[p].at = "erase" /\ UNCHANGED holder /\ stored' = stored \ {v}
        /\ call' = [call EXCEPT ![p] = x]
    BY <1>2, <1>8 DEF EraseVersion, At, Inv, Typed
  <2>2. x \in CallType
    <3>1. call[p].put \ {v} \in SUBSET Version
      BY <1>2 DEF CallType
    <3> HIDE DEF Version
    <3>. QED BY <1>2, <3>1 DEF CallType
  <2>3. /\ x.at = "erase" /\ x.why = call[p].why /\ x.s = s /\ x.op = call[p].op
        /\ x.chunk = call[p].chunk /\ x.put = call[p].put \ {v} /\ x.page = call[p].page
        /\ x.mine = call[p].mine
    BY <1>2, <1>3, <2>1 DEF CallType
  <2> HIDE DEF x
  <2>4. v.s = s
    BY <1>2, <1>3, <1>8 DEF Fit
  <2>5. /\ call' \in [Workers -> CallType] /\ call'[p] = x
        /\ \A q \in Workers \ {p} : call'[q] = call[q]
        /\ LocksOf(p) /\ Held(p)'
    BY <1>1, <1>2, <1>3, <1>4, <2>1, <2>2, <2>3, OnwardFacts DEF Outside
  <2>6. Fit(p)'
    BY <1>2, <1>3, <2>1, <2>3, <2>5 DEF Fit, Removing, Outside
  <2>7. Copied(p)'
    BY <1>2, <1>3, <1>4, <2>1, <2>3, <2>5 DEF Copied, Outside
  <2>8. Knows(p)'
    BY <1>2, <1>3, <1>4, <2>1, <2>3, <2>5 DEF Knows, Copying, Outside
  <2>9. Typed'
    BY <1>4, <2>1, <2>5 DEF Inv, Typed, LocksOf
  <2>10. Tables'
    BY <1>4 DEF Inv, Tables
  <2>11. Frame(s)
    <3>1. \A t \in Sessions \ {s} : {w \in stored' : w.s = t} = {w \in stored : w.s = t}
      BY <2>1, <2>4
    <3>. QED BY <1>4, <3>1, ChunksFrame
  <2>. QED BY <1>1, <1>3, <1>4, <2>5, <2>6, <2>7, <2>8, <2>9, <2>10, <2>11
           DEF Progress, Sound
<1>. QED BY <1>6, <1>7, <1>8

\* The rows go, or the upload at GCS.
LEMMA EmptyProgress ==
    ASSUME Inv, NEW p \in Workers, EraseRows(p) \/ EraseLegacy(p)
    PROVE  Progress(p)
<1>1. call[p].at \in {"rows", "erase"} /\ call[p].at \notin Outside /\ After(p)
  BY DEF EraseRows, EraseLegacy, At, Outside
<1>2. PICK s \in Sessions : s = S(p)
  BY <1>1, AtFacts
<1>3. UNCHANGED <<row, tombs, expired, receipts, canon, flying, acked, named, unlocked, left,
                  holder>>
  BY DEF EraseRows, EraseLegacy, database, provider, history
<1>4. /\ call' \in [Workers -> CallType]
      /\ \A q \in Workers \ {p} : call'[q] = call[q]
      /\ Sound(p)' /\ LocksOf(p)
  BY <1>1, <1>3, AfterFacts
<1>5. /\ chunkRows' \in [Sessions -> SUBSET ChunkRow] /\ stored' \subseteq Version
      /\ \A t \in Sessions : chunkRows'[t] \subseteq chunkRows[t]
      /\ \A t \in Sessions \ {s} :
            /\ chunkRows'[t] = chunkRows[t]
            /\ {w \in stored' : w.s = t} = {w \in stored : w.s = t}
  <2>1. CASE EraseRows(p)
    BY <1>2, <2>1 DEF EraseRows, provider, Inv, Typed
  <2>2. CASE EraseLegacy(p)
    BY <1>2, <2>2 DEF EraseLegacy, database, Inv, Typed
  <2>. QED BY <2>1, <2>2
<1>6. Typed'
  BY <1>3, <1>4, <1>5 DEF Inv, Typed, LocksOf
<1>7. Tables'
  BY <1>3 DEF Inv, Tables
<1>8. Frame(s)
  BY <1>3, <1>5, ChunksFrame
<1>. QED BY <1>1, <1>2, <1>3, <1>4, <1>6, <1>7, <1>8 DEF Progress

\* The receipt goes before the session.
LEMMA ForgetProgress ==
    ASSUME Inv, NEW p \in Workers, Forget(p)
    PROVE  Progress(p)
<1>1. call[p].at = "forget" /\ call[p].at \notin Outside /\ Goto(p, "drop")
  BY DEF Forget, At, Outside
<1>2. /\ call[p] \in CallType /\ S(p) \in Sessions /\ S(p) = call[p].s
      /\ Fit(p) /\ Copied(p) /\ Knows(p)
  BY <1>1, AtFacts
<1>3. PICK s \in Sessions : s = S(p)
  BY <1>2
<1>4. /\ receipts' = receipts \ {s}
      /\ UNCHANGED <<row, tombs, expired, chunkRows, canon, stored, flying, acked, named,
                     unlocked, left, holder>>
  BY <1>3 DEF Forget, provider, history
<1> DEFINE x == [call[p] EXCEPT !.at = "drop"]
<1>5. x \in CallType /\ call' = [call EXCEPT ![p] = x]
  BY <1>1, GotoTypes DEF Steps
<1>6. /\ x.at = "drop" /\ x.why = call[p].why /\ x.s = s /\ x.op = call[p].op
      /\ x.chunk = call[p].chunk /\ x.put = call[p].put /\ x.page = call[p].page
      /\ x.mine = call[p].mine
  BY <1>2, <1>3 DEF CallType
<1> HIDE DEF x
<1>7. /\ call' \in [Workers -> CallType] /\ call'[p] = x
      /\ \A q \in Workers \ {p} : call'[q] = call[q]
      /\ LocksOf(p) /\ Held(p)'
  BY <1>1, <1>2, <1>3, <1>4, <1>5, <1>6, OnwardFacts DEF Outside
<1>8. Fit(p)'
  BY <1>1, <1>2, <1>3, <1>6, <1>7 DEF Fit, Removing, Outside
<1>9. Copied(p)'
  BY <1>1, <1>2, <1>3, <1>4, <1>6, <1>7 DEF Copied, Outside
<1>10. Knows(p)'
  BY <1>1, <1>2, <1>3, <1>4, <1>6, <1>7 DEF Knows, Copying, Outside
<1>11. Typed'
  BY <1>4, <1>7 DEF Inv, Typed, LocksOf
<1>12. Tables'
  BY <1>4 DEF Inv, Tables
<1>13. Frame(s)
  BY <1>4 DEF Frame, BytesOf
<1>. QED BY <1>1, <1>3, <1>4, <1>7, <1>8, <1>9, <1>10, <1>11, <1>12, <1>13
         DEF Progress, Sound

\* The session goes, and the sweep drops its references.
LEMMA DropProgress ==
    ASSUME Inv, NEW p \in Workers, Drop(p)
    PROVE  Progress(p)
<1>1. call[p].at = "drop" /\ call[p].at \notin Outside
  BY DEF Drop, At, Outside
<1>2. /\ call[p] \in CallType /\ S(p) \in Sessions /\ S(p) = call[p].s
      /\ Fit(p) /\ Copied(p) /\ Knows(p)
  BY <1>1, AtFacts
<1>3. PICK s \in Sessions : s = S(p)
  BY <1>2
<1>4. /\ row' = [row EXCEPT ![s] = NoRow] /\ tombs' = tombs \cup {s}
      /\ UNCHANGED <<receipts, expired, chunkRows, canon, stored, flying, acked, named,
                     unlocked, left>>
  BY <1>3 DEF Drop, provider, history
<1>5. /\ row' \in [Sessions -> RowType] /\ row'[s] = NoRow
      /\ \A t \in Sessions \ {s} : row'[t] = row[t]
  BY <1>4, IdleTyped DEF Inv, Typed
<1>6. /\ call' \in [Workers -> CallType]
      /\ \A q \in Workers \ {p} : call'[q] = call[q]
      /\ Sound(p)' /\ LocksOf(p)
  <2>1. CASE End(p)
    BY <1>4, <2>1, EndFacts
  <2>2. CASE p = Sweeper /\ Goto(p, "finals") /\ UNCHANGED holder
    <3> DEFINE x == [call[p] EXCEPT !.at = "finals"]
    <3>1. x \in CallType /\ call' = [call EXCEPT ![p] = x]
      BY <2>2, GotoTypes DEF Steps
    <3>2. /\ x.at = "finals" /\ x.why = call[p].why /\ x.s = s /\ x.op = call[p].op
          /\ x.chunk = call[p].chunk /\ x.put = call[p].put /\ x.page = call[p].page
          /\ x.mine = call[p].mine
      BY <1>2, <1>3 DEF CallType
    <3> HIDE DEF x
    <3>3. /\ call' \in [Workers -> CallType] /\ call'[p] = x
          /\ \A q \in Workers \ {p} : call'[q] = call[q]
          /\ LocksOf(p) /\ Held(p)'
      <4>1. x.at \notin Outside /\ x.s = call[p].s /\ UNCHANGED <<holder, unlocked>>
        BY <1>2, <1>3, <1>4, <2>2, <3>2 DEF Outside
      <4> HIDE DEF Goto
      <4>. QED BY <1>1, <3>1, <4>1, OnwardFacts
    <3>4. Fit(p)'
      BY <1>1, <1>2, <1>3, <2>2, <3>2, <3>3 DEF Fit, Removing, Outside
    <3>5. Copied(p)'
      BY <1>1, <1>2, <1>3, <1>4, <3>2, <3>3 DEF Copied, Outside
    <3>6. Knows(p)'
      BY <3>2, <3>3 DEF Knows
    <3>. QED BY <3>3, <3>4, <3>5, <3>6 DEF Sound
  <2>. QED BY <2>1, <2>2 DEF Drop
<1>7. Typed'
  BY <1>3, <1>4, <1>5, <1>6 DEF Inv, Typed, LocksOf
<1>8. Tables'
  <2>1. s \in receipts => s \in unlocked
    BY <1>1, <1>2, <1>3 DEF Knows, Outside
  <2>2. \A t \in receipts' : t \in Sessions /\ (row'[t].done \/ t \in unlocked')
    BY <1>4, <1>5, <2>1 DEF Inv, Tables
  <2>3. \A t \in tombs' : row'[t] = NoRow
    BY <1>4, <1>5 DEF Inv, Tables, Typed
  <2>4. \A t \in Sessions : row'[t].rev = 0 => row'[t] = NoRow
    BY <1>5 DEF Inv, Tables
  <2>. QED BY <1>4, <2>2, <2>3, <2>4 DEF Inv, Tables
<1>9. Frame(s)
  BY <1>4, <1>5 DEF Frame, BytesOf
<1>. QED BY <1>1, <1>3, <1>4, <1>6, <1>7, <1>8, <1>9 DEF Progress

LEMMA DropFinalsProgress ==
    ASSUME Inv, NEW p \in Workers, DropFinals(p)
    PROVE  Progress(p)
BY EndProgress DEF DropFinals, provider, history, Inv, Typed

-----------------------------------------------------------------------------
(* What happens to the workers. *)

\* As long as the tables say the same, everybody knows what they knew.
LEMMA QuietKeeps ==
    ASSUME Inv, Quiet, Typed', Tables', UNCHANGED <<call, holder, unlocked>>
    PROVE  Inv'
<1>1. ASSUME NEW p \in Workers PROVE Sound(p)'
  <2>1. Sound(p) /\ S(p)' = S(p)
    BY DEF Inv, S
  <2>2. Fit(p)' /\ Held(p)'
    BY <2>1 DEF Sound, Fit, Held
  <2>3. CASE call[p].at \in Outside \cup {"load"}
    BY <2>2, <2>3 DEF Sound, Copied, Knows
  <2>4. CASE call[p].at \notin Outside \cup {"load"}
    <3>1. PICK t \in Sessions : t = call[p].s
      BY <2>1, <2>4 DEF Sound, Fit, Outside
    <3>2. /\ row'[t] = row[t] /\ (t \in tombs' <=> t \in tombs)
          /\ t \in receipts' <=> t \in receipts
          /\ AreRight(BytesOf(t)) => AreRight(BytesOf(t))'
      BY DEF Quiet
    <3>3. Copied(p)'
      BY <2>1, <3>1, <3>2 DEF Sound, Copied
    <3>4. Knows(p)'
      BY <2>1, <3>1, <3>2 DEF Sound, Knows
    <3>. QED BY <2>2, <3>3, <3>4 DEF Sound
  <2>. QED BY <2>3, <2>4
<1>2. ASSUME NEW s \in Sessions PROVE HeldBy(s)'
  BY DEF Inv, HeldBy, S
<1>. QED BY <1>1, <1>2 DEF Inv

\* A session past its expiry, a PUT that lands or is lost.
LEMMA EnvironmentKeeps ==
    ASSUME Inv, (\E s \in Sessions : Expire(s)) \/ \E v \in flying : Land(v) \/ Lose(v)
    PROVE  Inv'
<1>1. /\ UNCHANGED <<row, tombs, chunkRows, receipts, canon, call, holder, unlocked, acked,
                     named, left>>
      /\ expired' \subseteq Sessions /\ stored' \subseteq Version /\ flying' \subseteq Version
  BY DEF Expire, Land, Lose, database, provider, history, Inv, Typed
<1>2. Typed'
  BY <1>1 DEF Inv, Typed
<1>3. Tables'
  BY <1>1 DEF Inv, Tables
<1>4. ASSUME NEW t \in Sessions, AreRight(BytesOf(t)) PROVE AreRight(BytesOf(t))'
  <2>1. CASE BytesOf(t)' = BytesOf(t)
    BY <1>4, <2>1 DEF AreRight, Covers
  <2>2. CASE BytesOf(t)' # BytesOf(t)
    <3>1. PICK v \in flying : Land(v) /\ v.s = t /\ ~Staged(t)
      <4>1. CASE stored' = stored
        BY <1>1, <2>2, <4>1 DEF BytesOf, Staged
      <4>2. CASE stored' # stored
        <5>1. PICK v \in flying : Land(v)
          BY <4>2 DEF Expire, Land, Lose, provider
        <5>2. stored' = stored \cup {v}
          BY <5>1 DEF Land
        <5>. QED BY <1>1, <2>2, <5>1, <5>2 DEF BytesOf, Staged
      <4>. QED BY <4>1, <4>2
    <3>2. /\ v.chunk.start \in 0..Size-1
          /\ Covers(BytesOf(t), v.chunk.start) /\ Covers(BytesOf(t), Size)
      BY <1>4, <3>1, ResumableConstants
         DEF Land, BytesOf, AreRight, Staged, Inv, Typed, Version
    <3>3. 0..v.chunk.start-1 = 0..Size-1
      BY <3>2 DEF Covers
    <3>. QED BY <3>2, <3>3, ResumableConstants
  <2>. QED BY <2>1, <2>2
<1>5. Quiet
  BY <1>1, <1>4 DEF Quiet
<1>. QED BY <1>1, <1>2, <1>3, <1>5, QuietKeeps

\* A new session: nobody is at one that has no row.
LEMMA CreateKeeps ==
    ASSUME Inv, NEW s \in Sessions, CreateSession(s)
    PROVE  Inv'
<1>1. /\ UNCHANGED <<tombs, expired, chunkRows, receipts, canon, stored, flying, call, holder,
                     unlocked, acked, named, left>>
      /\ row' = [row EXCEPT ![s].rev = 1] /\ s \notin tombs /\ row[s].rev = 0 /\ Staged(s)
  BY DEF CreateSession, provider, history
<1>2. /\ row' \in [Sessions -> RowType] /\ row'[s].rev = 1 /\ row'[s].done = row[s].done
      /\ \A t \in Sessions \ {s} : row'[t] = row[t]
  BY <1>1 DEF Inv, Typed, RowType
<1>3. Typed'
  BY <1>1, <1>2 DEF Inv, Typed
<1>4. Tables'
  BY <1>1, <1>2 DEF Inv, Tables, Typed
<1>5. ASSUME NEW p \in Workers PROVE Sound(p)'
  <2>1. Sound(p) /\ S(p)' = S(p)
    BY <1>1 DEF Inv, S
  <2>2. Fit(p)' /\ Held(p)'
    BY <1>1, <2>1 DEF Sound, Fit, Held
  <2>3. CASE call[p].at \in Outside \cup {"load"}
    BY <1>1, <2>2, <2>3 DEF Sound, Copied, Knows
  <2>4. CASE call[p].at \notin Outside \cup {"load"}
    <3>1. PICK t \in Sessions : t = call[p].s
      BY <2>1, <2>4 DEF Sound, Fit, Outside
    <3>2. call[p].mine.rev \in Nat
      BY DEF Inv, Typed, CallType, RowType
    <3>3. t # s
      BY <1>1, <2>1, <2>4, <3>1, <3>2 DEF Sound, Copied
    <3>4. row'[t] = row[t] /\ (AreRight(BytesOf(t)) => AreRight(BytesOf(t))')
      BY <1>1, <1>2, <3>3 DEF BytesOf, AreRight, Covers, Staged
    <3>5. Copied(p)'
      BY <1>1, <2>1, <3>1, <3>4 DEF Sound, Copied
    <3>6. Knows(p)'
      BY <1>1, <2>1, <3>1, <3>4 DEF Sound, Knows
    <3>. QED BY <2>2, <3>5, <3>6 DEF Sound
  <2>. QED BY <2>3, <2>4
<1>6. ASSUME NEW t \in Sessions PROVE HeldBy(t)'
  BY <1>1 DEF Inv, HeldBy, S
<1>. QED BY <1>3, <1>4, <1>5, <1>6 DEF Inv

\* A lock that is lost is free, and the session is known to have lost it.
LEMMA LoseLockKeeps ==
    ASSUME Inv, NEW q \in Workers, LoseLock(q)
    PROVE  Inv'
<1>1. /\ UNCHANGED <<row, tombs, expired, chunkRows, receipts, canon, stored, flying, call,
                     acked, named>>
      /\ unlocked' = unlocked \cup {S(q)} /\ holder[S(q)] = q
      /\ holder' = [holder EXCEPT ![S(q)] = Nobody] /\ left' \in LeftType
  BY DEF LoseLock, Spend, database, provider, Inv, Typed, LeftType
<1>2. PICK s \in Sessions : s = S(q)
  <2>1. call[q].at \notin Outside
    BY DEF LoseLock, Outside
  <2>. QED BY <2>1, AtFacts
<1>3. /\ holder' \in [Sessions -> Workers \cup {Nobody}] /\ holder'[s] = Nobody
      /\ \A t \in Sessions \ {s} : holder'[t] = holder[t]
  BY <1>1, <1>2 DEF Inv, Typed
<1>4. Typed'
  BY <1>1, <1>3 DEF Inv, Typed
<1>5. Tables'
  BY <1>1 DEF Inv, Tables
<1>6. ASSUME NEW p \in Workers PROVE Sound(p)'
  <2>1. Sound(p) /\ S(p)' = S(p)
    BY <1>1 DEF Inv, S
  <2>2. Fit(p)'
    BY <1>1, <2>1 DEF Sound, Fit
  <2>3. Held(p)'
    <3> SUFFICES ASSUME call[p].at \notin Outside PROVE Held(p)'
      BY <1>1 DEF Held
    <3>1. S(p) \in Sessions
      BY AtFacts
    <3>. QED BY <1>1, <1>2, <1>3, <2>1, <3>1 DEF Sound, Held
  <2>4. Copied(p)'
    BY <1>1, <2>1 DEF Sound, Copied
  <2>5. AreRight(BytesOf(call[p].s)) => AreRight(BytesOf(call[p].s))'
    BY <1>1 DEF AreRight, BytesOf, Covers, Staged
  <2>6. Knows(p)'
    BY <1>1, <2>1, <2>5 DEF Sound, Knows
  <2>. QED BY <2>2, <2>3, <2>4, <2>6 DEF Sound
<1>7. ASSUME NEW t \in Sessions PROVE HeldBy(t)'
  BY <1>1, <1>3 DEF Inv, HeldBy, S
<1>. QED BY <1>4, <1>5, <1>6, <1>7 DEF Inv

\* A restart: everybody is at nothing.
LEMMA RestartKeeps ==
    ASSUME Inv, Restart
    PROVE  Inv'
<1>1. /\ UNCHANGED <<row, tombs, expired, chunkRows, receipts, canon, stored, flying, acked,
                     named, unlocked>>
      /\ call' = [p \in Workers |-> Idle] /\ holder' = [s \in Sessions |-> Nobody]
      /\ left' \in LeftType
  BY DEF Restart, Spend, database, provider, history, Inv, Typed, LeftType
<1>2. Typed'
  BY <1>1, IdleTyped DEF Inv, Typed
<1>3. Tables'
  BY <1>1 DEF Inv, Tables
<1>4. \A p \in Workers : Sound(p)'
  BY <1>1, IdleTyped DEF Sound, Fit, Held, Copied, Knows, Outside, Removing
<1>5. \A s \in Sessions : HeldBy(s)'
  BY <1>1 DEF HeldBy
<1>. QED BY <1>2, <1>3, <1>4, <1>5 DEF Inv

LEMMA InitKeeps == Init => Inv
<1> SUFFICES ASSUME Init PROVE Inv
  OBVIOUS
<1>1. left \in LeftType
  BY ResumableConstants DEF Init, LeftType
<1>2. Typed
  BY <1>1, IdleTyped DEF Init, Typed
<1>3. Tables
  BY DEF Init, Tables
<1>4. \A p \in Workers : Sound(p)
  BY IdleTyped DEF Init, Sound, Fit, Held, Copied, Knows, Outside, Removing
<1>5. \A s \in Sessions : HeldBy(s)
  BY DEF Init, HeldBy
<1>. QED BY <1>2, <1>3, <1>4, <1>5 DEF Inv

-----------------------------------------------------------------------------
(* The invariant, and what follows from it. *)

LEMMA NextKeeps == Inv /\ [Next]_vars => Inv'
<1> SUFFICES ASSUME Inv, [Next]_vars PROVE Inv'
  OBVIOUS
<1>1. ASSUME NEW p \in Workers, Removal(p) PROVE Inv'
  <2>1. Progress(p)
    BY <1>1, EraseProgress, EmptyProgress, ForgetProgress, DropProgress DEF Removal
  <2>. QED BY <2>1, ProgressKeeps
<1>2. ASSUME NEW r \in Requests, Request(r) PROVE Inv'
  <2>1. r \in Workers
    BY DEF Workers
  <2>2. Progress(r)
    BY <1>2, <2>1, LockProgress, LoadProgress, StopProgress, ChunkOnward, RowProgress,
       SaveChunkProgress, SaveFinalizedProgress, ChooseProgress, PromoteProgress,
       ReceiptProgress
       DEF Request
  <2>. QED BY <2>1, <2>2, ProgressKeeps
<1>3. CASE Sweep
  <2>1. Sweeper \in Workers
    BY DEF Workers
  <2>2. CASE Removal(Sweeper)
    BY <1>1, <2>1, <2>2
  <2>3. CASE ~Removal(Sweeper)
    <3>1. Progress(Sweeper)
      BY <1>3, <2>1, <2>3, SweepProgress, LockProgress, LoadProgress, DropFinalsProgress
         DEF Sweep
    <3>. QED BY <2>1, <3>1, ProgressKeeps
  <2>. QED BY <2>2, <2>3
<1>4. ASSUME NEW r \in Requests, NEW s \in Sessions,
             \/ \E op \in Ops \ {"chunk"} : Begin(r, op, s, NoChunk)
             \/ \E c \in Chunks : Begin(r, "chunk", s, c)
      PROVE  Inv'
  <2>1. r \in Workers
    BY DEF Workers
  <2>2. Progress(r)
    BY <1>4, BeginProgress DEF Ops
  <2>. QED BY <2>1, <2>2, ProgressKeeps
<1>5. ASSUME NEW p \in Workers, Fail(p) \/ RemoveFails(p) PROVE Inv'
  BY <1>5, StopProgress, ProgressKeeps
<1>6. CASE UNCHANGED vars
  <2>1. UNCHANGED <<row, tombs, expired, chunkRows, receipts, canon, stored, flying, call,
                    holder, unlocked, acked, named, left>>
    BY <1>6 DEF vars, database, provider, history
  <2>2. Typed' /\ Tables'
    BY <2>1 DEF Inv, Typed, Tables
  <2>3. Quiet
    BY <2>1 DEF Quiet, BytesOf
  <2>. QED BY <2>1, <2>2, <2>3, QuietKeeps
<1>7. ASSUME NEW r \in Requests, Request(r) \/ Removal(r) PROVE Inv'
  <2>1. r \in Workers
    BY DEF Workers
  <2>. QED BY <1>1, <1>2, <1>7, <2>1
<1>. QED BY <1>3, <1>4, <1>5, <1>6, <1>7, EnvironmentKeeps, CreateKeeps, LoseLockKeeps,
            RestartKeeps
         DEF Next

\* Everything the invariant says is so in every reachable state.
THEOREM SessionInvariant == Spec => []Inv
<1>1. Init => Inv
  BY InitKeeps
<1>2. Inv /\ [Next]_vars => Inv'
  BY NextKeeps
<1>. QED BY <1>1, <1>2, PTL DEF Spec

\* What the steps that matter to nobody else write.
Marked ==
    /\ (finals \cup cancelled \cup erased \cup unlocked) \subseteq Sessions
    /\ canon \subseteq [s : Sessions, right : BOOLEAN]
    /\ order \in [Sessions -> 1..Cardinality(Sessions)]

\* A worker marks the session it is at.
LEMMA MarkedStays ==
    ASSUME Inv, Marked, [Next]_vars
    PROVE  Marked'
<1> USE DEF database, provider, history
<1>1. ASSUME NEW p \in Workers, call[p].at \notin Outside PROVE S(p) \in Sessions
  BY <1>1, AtFacts
<1>2. ASSUME NEW r \in Requests, Request(r) PROVE Marked'
  <2>1. r \in Workers
    BY DEF Workers
  <2>2. CASE References(r)
    BY <1>1, <2>1, <2>2 DEF References, At, Outside, Marked
  <2>3. CASE Promote(r)
    <3>1. S(r) \in Sessions
      BY <1>1, <2>1, <2>3 DEF Promote, At, Outside
    <3>2. AreRight(BytesOf(S(r))) \in BOOLEAN
      BY DEF AreRight
    <3>. QED BY <2>3, <3>1, <3>2 DEF Promote, Marked
  <2>4. CASE ~References(r) /\ ~Promote(r)
    BY <1>2, <2>4 DEF Request, Lock, Load, Refused, Retry, Reserve, Found, Send, Accepted,
       Unresolved, Record, SaveChunk, Replay, Hash, SaveFinalized, Receipt, Abort, Marked
  <2>. QED BY <2>2, <2>3, <2>4
<1>3. ASSUME NEW p \in Workers, Removal(p) PROVE Marked'
  <2>1. CASE ReadRows(p)
    BY <1>1, <2>1 DEF ReadRows, At, Outside, Marked
  <2>2. CASE EraseLegacy(p)
    BY <1>1, <2>2 DEF EraseLegacy, At, Outside, Marked
  <2>3. CASE ~ReadRows(p) /\ ~EraseLegacy(p)
    BY <1>3, <2>3 DEF Removal, EraseVersion, EraseRows, Forget, Drop, Marked
  <2>. QED BY <2>1, <2>2, <2>3
<1>4. ASSUME NEW s \in Sessions, Check(s) PROVE Marked'
  <2>1. MovedToEnd(s) \in [Sessions -> 1..Cardinality(Sessions)]
    <3>1. Cardinality(Sessions) \in Nat
      BY ResumableConstants, FS_CardinalityType
    <3>2. \A t \in Sessions : order[t] \in 1..Cardinality(Sessions)
      BY DEF Marked
    <3>3. ASSUME NEW t \in Sessions PROVE MovedToEnd(s)[t] \in 1..Cardinality(Sessions)
      <4>1. order[t] \in 1..Cardinality(Sessions) /\ order[s] \in 1..Cardinality(Sessions)
        BY <3>2
      <4>2. order[t] > order[s] => order[t] - 1 \in 1..Cardinality(Sessions)
        BY <3>1, <4>1
      <4>3. Cardinality(Sessions) \in 1..Cardinality(Sessions)
        BY <3>1, <4>1
      <4>. QED BY <4>1, <4>2, <4>3 DEF MovedToEnd
    <3>. QED BY <3>3 DEF MovedToEnd
  <2>. QED BY <1>4, <2>1 DEF Check, Visit, Marked
<1>5. CASE Sweep
  <2>1. Sweeper \in Workers
    BY DEF Workers
  <2>2. CASE Select \/ Swept \/ Lock(Sweeper) \/ Load(Sweeper) \/ DropFinals(Sweeper)
    BY <2>2 DEF Select, Swept, Lock, Load, DropFinals, Marked
  <2>. QED BY <1>3, <1>4, <1>5, <2>1, <2>2 DEF Sweep
<1>6. CASE UNCHANGED vars
  BY <1>6 DEF vars, Marked
<1>7. ASSUME NEW p \in Workers, Fail(p) \/ RemoveFails(p) \/ LoseLock(p) PROVE Marked'
  <2>1. CASE LoseLock(p)
    BY <1>1, <2>1 DEF LoseLock, Outside, Marked
  <2>. QED BY <1>7, <2>1 DEF Fail, RemoveFails, Marked
<1>8. CASE Restart \/ \E v \in flying : Land(v) \/ Lose(v)
  BY <1>8 DEF Restart, Land, Lose, Marked
<1>9. ASSUME NEW r \in Requests, Request(r) \/ Removal(r) PROVE Marked'
  BY <1>2, <1>3, <1>9 DEF Workers
<1>. QED BY <1>3, <1>5, <1>6, <1>7, <1>8, <1>9 DEF Next, Expire, Begin, CreateSession, Marked

\* Every variable has the shape of what it stands for, what a chunk's row names
\* is of its session, and a lock is held by a worker that is at its session.
THEOREM SessionsTyped == Spec => []TypeOK
<1>1. Init => Marked
  BY DEF Init, Marked
<1>2. Inv /\ Marked /\ [Next]_vars => Marked'
  BY MarkedStays
<1>3. Inv /\ Marked => TypeOK
  <2> SUFFICES ASSUME Inv, Marked PROVE TypeOK
    OBVIOUS
  <2>1. receipts \subseteq Sessions
    BY DEF Inv, Tables
  <2>2. \A s \in Sessions : holder[s] # Nobody => S(holder[s]) = s
    BY DEF Inv, HeldBy
  <2>. QED BY <2>1, <2>2 DEF Inv, Typed, Marked, TypeOK
<1>. QED BY <1>1, <1>2, <1>3, SessionInvariant, PTL DEF Spec

\* Only bytes of the declared hash are promoted while the lock holds.
THEOREM PromotionIsRight == Spec => []OnlyRightBytes
<1>1. Inv => OnlyRightBytes
  BY DEF Inv, Tables, OnlyRightBytes
<1>. QED BY <1>1, SessionInvariant, PTL

\* A deleted session has no receipt, unless its lock was lost.
THEOREM ReceiptsGoFirst == Spec => []NoReceiptIsOrphaned
<1>1. Inv => NoReceiptIsOrphaned
  <2> SUFFICES ASSUME Inv, NEW s \in receipts, s \in tombs PROVE s \in unlocked
    BY DEF NoReceiptIsOrphaned
  <2>1. row[s] = NoRow /\ (row[s].done \/ s \in unlocked)
    BY DEF Inv, Tables
  <2>. QED BY <2>1 DEF NoRow
<1>. QED BY <1>1, SessionInvariant, PTL

\* The row of a session is written by four statements.
LEMMA WritersOfRow ==
    ASSUME [Next]_vars
    PROVE  \/ row' = row /\ tombs' = tombs
           \/ \E s \in Sessions : CreateSession(s)
           \/ \E r \in Requests : SaveChunk(r) \/ SaveFinalized(r)
           \/ \E p \in Workers : Drop(p)
<1> USE DEF database, provider, history
<1>1. ASSUME NEW r \in Requests, Request(r)
      PROVE  (row' = row /\ tombs' = tombs) \/ SaveChunk(r) \/ SaveFinalized(r)
  BY <1>1 DEF Request, Lock, Load, Refused, Retry, Reserve, Found, Send, Accepted, Unresolved,
              Record, Replay, Hash, Promote, References, Receipt, Abort
<1>2. ASSUME NEW p \in Workers, Removal(p)
      PROVE  (row' = row /\ tombs' = tombs) \/ Drop(p)
  BY <1>2 DEF Removal, ReadRows, EraseVersion, EraseRows, EraseLegacy, Forget
<1>3. Sweeper \in Workers /\ Requests \subseteq Workers
  BY DEF Workers
<1>4. CASE Sweep
  BY <1>2, <1>3, <1>4 DEF Sweep, Select, Check, Visit, Swept, Lock, Load, DropFinals
<1>5. CASE UNCHANGED vars
  BY <1>5 DEF vars
<1>6. ASSUME NEW p \in Workers, Fail(p) \/ RemoveFails(p) \/ LoseLock(p)
      PROVE  row' = row /\ tombs' = tombs
  BY <1>6 DEF Fail, RemoveFails, LoseLock
<1>7. CASE Restart \/ \E v \in flying : Land(v) \/ Lose(v)
  BY <1>7 DEF Restart, Land, Lose
<1>. QED BY <1>1, <1>2, <1>3, <1>4, <1>5, <1>6, <1>7 DEF Next, Expire, Begin

\* Whatever copy a worker has kept: an offset never goes back, a finished upload
\* stays finished, a deleted session does not return.
THEOREM RowsOnlyGrow == Spec => NothingComesBack
<1> DEFINE Grows(s) ==
       /\ row'[s].rev > 0 => /\ row'[s].next >= row[s].next
                             /\ row[s].done => row'[s].done
       /\ s \in tombs => s \in tombs' /\ row'[s].rev = 0
<1>1. ASSUME Inv, Inv', [Next]_vars, NEW s \in Sessions PROVE Grows(s)
  <2>1. row[s] \in RowType /\ (s \in tombs => row[s] = NoRow)
    BY <1>1 DEF Inv, Typed, Tables
  <2>2. CASE row' = row /\ tombs' = tombs
    BY <2>1, <2>2, ResumableConstants DEF RowType, NoRow
  <2>3. ASSUME NEW t \in Sessions, CreateSession(t) PROVE Grows(s)
    BY <1>1, <2>1, <2>3, ResumableConstants DEF CreateSession, Inv, Typed, RowType, NoRow
  <2>4. ASSUME NEW p \in Workers, Drop(p) PROVE Grows(s)
    <3>1. S(p) \in Sessions
      BY <1>1, <2>4, AtFacts DEF Drop, At, Outside
    <3>2. row' = [row EXCEPT ![S(p)] = NoRow] /\ tombs' = tombs \cup {S(p)}
      BY <2>4 DEF Drop
    <3>. QED BY <1>1, <2>1, <3>1, <3>2, ResumableConstants DEF Inv, Typed, RowType, NoRow
  <2>5. ASSUME NEW r \in Workers, call[r].at = "save", CanSave(r),
               NEW next \in 0..Size, NEW done \in BOOLEAN, Saved(r, next, done),
               UNCHANGED <<tombs, receipts, chunkRows, stored>>,
               next >= call[r].mine.next, call[r].mine.done => done
        PROVE  Grows(s)
    <3>1. /\ S(r) \notin tombs /\ row[S(r)] = call[r].mine
          /\ \A t \in Sessions \ {S(r)} : row'[t] = row[t]
          /\ row'[S(r)] = [rev |-> row[S(r)].rev + 1, next |-> next, done |-> done]
      BY <1>1, <2>5, SaveFacts
    <3>2. CASE s = S(r)
      <4>1. row'[s].next = next /\ row'[s].done = done
        BY <3>1, <3>2
      <4>2. row'[s].next >= row[s].next
        BY <2>5, <3>1, <3>2, <4>1
      <4>3. row[s].done => row'[s].done
        BY <2>5, <3>1, <3>2, <4>1
      <4>. QED BY <3>1, <3>2, <4>2, <4>3
    <3>3. CASE s # S(r)
      <4>1. row'[s] = row[s] /\ tombs' = tombs
        BY <2>5, <3>1, <3>3
      <4>. QED BY <2>1, <4>1, ResumableConstants DEF RowType, NoRow
    <3>. QED BY <3>2, <3>3
  <2>6. ASSUME NEW r \in Requests, SaveChunk(r) PROVE Grows(s)
    <3>1. r \in Workers /\ r # Sweeper /\ call[r].at = "save" /\ call[r].op = "chunk"
      BY <2>6, ResumableConstants DEF Workers, SaveChunk, At
    <3>2. call[r] \in CallType /\ Fit(r) /\ Copied(r)
      BY <1>1, <3>1, AtFacts DEF Outside
    <3>3. /\ call[r].chunk \in Chunks /\ call[r].chunk.start = call[r].mine.next
          /\ ~call[r].mine.done
      BY <3>1, <3>2 DEF Fit, Copied, Outside
    <3>4. call[r].chunk.end + 1 \in 0..Size /\ call[r].chunk.end + 1 >= call[r].mine.next
      BY <3>3, ResumableConstants
    <3>5. CASE CanSave(r)
      <4>1. Saved(r, call[r].chunk.end + 1, FALSE) /\ FALSE \in BOOLEAN
            /\ UNCHANGED <<tombs, receipts, chunkRows, stored>>
        BY <2>6, <3>5 DEF SaveChunk, provider
      <4>. QED BY <2>5, <3>1, <3>3, <3>4, <3>5, <4>1
    <3>6. CASE ~CanSave(r)
      BY <2>2, <2>6, <3>6 DEF SaveChunk
    <3>. QED BY <3>5, <3>6
  <2>7. ASSUME NEW r \in Requests, SaveFinalized(r) PROVE Grows(s)
    <3>1. r \in Workers /\ call[r].at = "save"
      BY <2>7 DEF Workers, SaveFinalized, At
    <3>2. call[r].mine.next \in 0..Size
      BY <1>1, <3>1, AtFacts DEF Outside, CallType, RowType
    <3>3. call[r].mine.next >= call[r].mine.next
      BY <3>2, ResumableConstants
    <3>4. CASE CanSave(r)
      <4>1. Saved(r, call[r].mine.next, TRUE) /\ TRUE \in BOOLEAN
            /\ UNCHANGED <<tombs, receipts, chunkRows, stored>>
        BY <2>7, <3>4 DEF SaveFinalized, provider
      <4>. QED BY <2>5, <3>1, <3>2, <3>3, <3>4, <4>1
    <3>5. CASE ~CanSave(r)
      BY <2>2, <2>7, <3>5 DEF SaveFinalized
    <3>. QED BY <3>4, <3>5
  <2>. QED BY <1>1, <2>2, <2>3, <2>4, <2>6, <2>7, WritersOfRow
<1>2. Inv /\ Inv' /\ [Next]_vars => [\A s \in Sessions : Grows(s)]_vars
  BY <1>1
<1>. QED BY <1>2, SessionInvariant, PTL DEF Spec, NothingComesBack

-----------------------------------------------------------------------------
(* What was acknowledged is kept. *)

\* A session that was neither deleted nor had chunks removed.
Live(s) == s \in Sessions \ Legacy /\ s \notin erased \cup tombs

\* The rows below the offset.
Kept(s) == {x \in chunkRows[s] : x.chunk.end < row[s].next}

\* The rows below it are the bytes below it, each with stored versions of its own
\* chunk; no two rows start at the same byte, and none reaches across the offset.
Whole(s) ==
    /\ acked[s] \subseteq ChunksOf(Kept(s))
    /\ Covers(ChunksOf(Kept(s)), row[s].next)
    /\ \A x \in Kept(s) : x.refs # {} /\ \A y \in Kept(s) : ~Overlap(x.chunk, y.chunk)
    /\ \A x \in chunkRows[s] :
          /\ x.refs \subseteq stored /\ \A v \in x.refs : v.chunk = x.chunk
          /\ x.chunk.start <= row[s].next
          /\ x.chunk.start < row[s].next => x.chunk.end < row[s].next
          /\ \A y \in chunkRows[s] : x.chunk.start = y.chunk.start => x = y

\* What a worker counts on even without the lock: its copy's offset is the row's,
\* or a kept chunk starts there; what it sends has a row, what it saves a version.
Traced(p) ==
    LET c == call[p]
    IN  /\ c.at = "erase" => c.s \in erased
        /\ c.at \notin Outside \cup {"load", "finals"} /\ Live(c.s) =>
              /\ \/ c.mine.next = row[c.s].next
                 \/ \E x \in Kept(c.s) : x.chunk.start = c.mine.next
              /\ c.at \in {"put", "sent", "record"} =>
                    \E x \in chunkRows[c.s] : x.chunk = c.chunk
              /\ c.at = "record" =>
                    c.put # {} /\ c.put \subseteq stored /\ \A v \in c.put : v.chunk = c.chunk
              /\ c.at = "save" /\ c.op = "chunk" =>
                    \E x \in chunkRows[c.s] : x.chunk = c.chunk /\ x.refs # {}

Accounted ==
    /\ \A s \in Sessions : Live(s) => Whole(s)
    /\ \A p \in Workers : Traced(p)

\* What a step does to a session that stays live.
Keeps(t) ==
    Live(t)' =>
       /\ Live(t) /\ Whole(t)'
       /\ \A x \in chunkRows[t] :
             \E y \in chunkRows'[t] : y.chunk = x.chunk /\ (x.refs # {} => y.refs # {})
       /\ row'[t].next >= row[t].next
       /\ \/ row'[t].next = row[t].next
          \/ \E y \in Kept(t)' : y.chunk.start = row[t].next
       /\ \A v \in stored : v.s = t => v \in stored'

\* A session's live state is that of all its chunks' types.
LEMMA ChunkTypes ==
    ASSUME Typed, NEW t \in Sessions
    PROVE  /\ row[t].next \in 0..Size /\ row[t].next \in Nat
           /\ \A x \in chunkRows[t] : /\ x = [chunk |-> x.chunk, refs |-> x.refs]
                                      /\ x.chunk \in Chunks /\ x.refs \subseteq stored \cup Version
                                      /\ x.chunk.start \in Nat /\ x.chunk.end \in Nat
                                      /\ x.chunk.start <= x.chunk.end /\ x.chunk.end < Size
                                      /\ \A v \in x.refs : v.s = t
<1>1. \A c \in Chunks : /\ c.start \in Nat /\ c.end \in Nat
                        /\ c.start <= c.end /\ c.end < Size
  BY ResumableConstants
<1>2. row[t] \in RowType /\ chunkRows[t] \subseteq ChunkRow
  BY DEF Typed
<1>. QED BY <1>1, <1>2, ResumableConstants DEF Typed, RowType, ChunkRow

\* The kept rows stay kept.
LEMMA KeptStays ==
    ASSUME Typed, Typed', NEW t \in Sessions, Keeps(t), Live(t)', NEW x \in Kept(t)
    PROVE  \E y \in Kept(t)' : y.chunk = x.chunk
<1>1. PICK y \in chunkRows'[t] : y.chunk = x.chunk
  BY DEF Keeps, Kept
<1>2. x.chunk.end < row[t].next /\ row'[t].next >= row[t].next
  BY DEF Keeps, Kept
<1>3. x.chunk.end \in Nat /\ row[t].next \in Nat /\ row'[t].next \in Nat
  BY ChunkTypes DEF Kept, Typed, RowType
<1>. QED BY <1>1, <1>2, <1>3 DEF Kept

\* A copy's offset stays that of the row, or the start of a kept chunk.
LEMMA OffsetStays ==
    ASSUME Typed, Typed', NEW t \in Sessions, Keeps(t), Live(t)', NEW n,
           n = row[t].next \/ \E x \in Kept(t) : x.chunk.start = n
    PROVE  n = row'[t].next \/ \E y \in Kept(t)' : y.chunk.start = n
<1>1. CASE n = row[t].next
  BY <1>1 DEF Keeps
<1>2. CASE \E x \in Kept(t) : x.chunk.start = n
  <2>1. PICK x \in Kept(t) : x.chunk.start = n
    BY <1>2
  <2>2. PICK y \in Kept(t)' : y.chunk = x.chunk
    BY KeptStays
  <2>. QED BY <2>1, <2>2
<1>. QED BY <1>1, <1>2

\* What a worker counts on stays, if it does not move.
LEMMA TracedStays ==
    ASSUME Typed, Typed', Accounted, NEW p \in Workers, Fit(p), Copied(p), call'[p] = call[p],
           \A t \in Sessions : Keeps(t), erased \subseteq erased'
    PROVE  Traced(p)'
<1>1. Traced(p) /\ (call[p].at = "erase" => call[p].s \in erased')
  BY DEF Accounted, Traced
<1>2. SUFFICES ASSUME call[p].at \notin Outside \cup {"load", "finals"}, Live(call[p].s)'
               PROVE  Traced(p)'
  BY <1>1 DEF Traced
<1>3. PICK t \in Sessions : t = call[p].s
  BY <1>2 DEF Fit, Outside
<1>4. Keeps(t) /\ Live(t)' /\ Live(t)
  BY <1>2, <1>3 DEF Keeps
<1>5. \/ call[p].mine.next = row'[t].next
      \/ \E y \in Kept(t)' : y.chunk.start = call[p].mine.next
  BY <1>1, <1>2, <1>3, <1>4, OffsetStays DEF Traced
<1>6. call[p].at \in {"put", "sent", "record"} => \E x \in chunkRows'[t] : x.chunk = call[p].chunk
  BY <1>1, <1>2, <1>3, <1>4 DEF Traced, Keeps
<1>7. call[p].at = "record" => call[p].put # {} /\ call[p].put \subseteq stored'
                               /\ \A v \in call[p].put : v.chunk = call[p].chunk
  BY <1>1, <1>2, <1>3, <1>4 DEF Traced, Keeps, Fit
<1>8. call[p].at = "save" /\ call[p].op = "chunk" =>
         \E x \in chunkRows'[t] : x.chunk = call[p].chunk /\ x.refs # {}
  BY <1>1, <1>2, <1>3, <1>4 DEF Traced, Keeps
<1>. QED BY <1>1, <1>3, <1>5, <1>6, <1>7, <1>8 DEF Traced

\* So a step is looked at from the sessions' and from its own worker's side.
LEMMA AccountedStays ==
    ASSUME Inv, Inv', Accounted, NEW q \in Workers, \A p \in Workers \ {q} : call'[p] = call[p],
           \A t \in Sessions : Keeps(t), erased \subseteq erased', Traced(q)'
    PROVE  Accounted'
<1>1. \A t \in Sessions : Live(t)' => Whole(t)'
  BY DEF Keeps
<1>2. ASSUME NEW p \in Workers \ {q} PROVE Traced(p)'
  BY <1>2, TracedStays DEF Inv, Sound
<1>. QED BY <1>1, <1>2 DEF Accounted

\* A step that writes none of it.
Calm == /\ UNCHANGED <<row, chunkRows, acked>>
        /\ tombs \subseteq tombs' /\ erased \subseteq erased' /\ stored \subseteq stored'

\* A session whose offset, rows, acknowledged chunks and versions stay.
LEMMA SameKeeps ==
    ASSUME Inv, Accounted, NEW t \in Sessions, Live(t)' => Live(t),
           row'[t].next = row[t].next, chunkRows'[t] = chunkRows[t], acked'[t] = acked[t],
           \A v \in stored : v.s = t => v \in stored'
    PROVE  Keeps(t)
<1> SUFFICES ASSUME Live(t)' PROVE Keeps(t)
  BY DEF Keeps
<1>1. Whole(t)
  BY DEF Accounted
<1>2. Kept(t)' = Kept(t)
  BY DEF Kept
<1>3. Whole(t)'
  <2>1. \A x \in chunkRows[t] : x.refs \subseteq stored => x.refs \subseteq stored'
    BY ChunkTypes DEF Inv
  <2>. QED BY <1>1, <1>2, <2>1 DEF Whole, Covers, ChunksOf, Overlap
<1>4. row[t].next \in Nat
  BY ChunkTypes DEF Inv
<1>. QED BY <1>1, <1>3, <1>4 DEF Keeps

LEMMA CalmKeeps ==
    ASSUME Inv, Accounted, Calm
    PROVE  /\ \A t \in Sessions : Keeps(t)
           /\ erased \subseteq erased'
BY SameKeeps DEF Calm, Live

\* Steps that count on no chunk.
Free == {"rows", "promote", "references", "receipt", "forget", "drop", "finals"}

LEMMA FreeTraced ==
    ASSUME Inv, Inv', Accounted, NEW q \in Workers, \A t \in Sessions : Keeps(t),
           \/ call'[q].at \in Outside \cup {"load", "finals"}
           \/ /\ call'[q].at \in Free \/ (call'[q].at = "save" /\ call'[q].op # "chunk")
              /\ call[q].at \notin Outside \cup {"load", "finals"}
              /\ call'[q].s = call[q].s /\ call'[q].mine = call[q].mine
    PROVE  Traced(q)'
<1>1. CASE call'[q].at \in Outside \cup {"load", "finals"}
  BY <1>1 DEF Traced, Outside
<1>2. CASE /\ call'[q].at \in Free \/ (call'[q].at = "save" /\ call'[q].op # "chunk")
           /\ call[q].at \notin Outside \cup {"load", "finals"}
           /\ call'[q].s = call[q].s /\ call'[q].mine = call[q].mine
  <2>1. PICK t \in Sessions : t = call[q].s /\ t = call'[q].s
    BY <1>2, AtFacts
  <2>2. Live(t)' => \/ call'[q].mine.next = row'[t].next
                    \/ \E y \in Kept(t)' : y.chunk.start = call'[q].mine.next
    <3> SUFFICES ASSUME Live(t)'
                 PROVE  \/ call'[q].mine.next = row'[t].next
                        \/ \E y \in Kept(t)' : y.chunk.start = call'[q].mine.next
      OBVIOUS
    <3>1. Keeps(t) /\ Live(t) /\ Traced(q)
      BY DEF Keeps, Accounted
    <3>2. \/ call[q].mine.next = row[t].next
          \/ \E y \in Kept(t) : y.chunk.start = call[q].mine.next
      BY <1>2, <2>1, <3>1 DEF Traced
    <3>3. call'[q].mine.next = call[q].mine.next
      BY <1>2
    <3>4. Typed /\ Typed'
      BY DEF Inv
    <3>5. \/ call[q].mine.next = row'[t].next
          \/ \E y \in Kept(t)' : y.chunk.start = call[q].mine.next
      BY <3>1, <3>2, <3>4, OffsetStays
    <3>. QED BY <3>3, <3>5
  <2>. QED BY <1>2, <2>1, <2>2 DEF Traced, Free, Outside
<1>. QED BY <1>1, <1>2

\* Where a step leaves its worker.
LEMMA MovedFacts ==
    ASSUME Inv, NEW q \in Workers
    PROVE  /\ End(q) => /\ call'[q].at \in Outside /\ call'[q].put = {}
                        /\ \A p \in Workers \ {q} : call'[p] = call[p]
           /\ \A step \in Steps : Goto(q, step) =>
                 /\ call'[q].at = step /\ call'[q].s = call[q].s /\ call'[q].mine = call[q].mine
                 /\ call'[q].chunk = call[q].chunk /\ call'[q].op = call[q].op
                 /\ call'[q].put = call[q].put /\ call'[q].why = call[q].why
                 /\ \A p \in Workers \ {q} : call'[p] = call[p]
           /\ \A why \in Purposes : Discard(q, why) =>
                 /\ call'[q].at = "rows" /\ call'[q].s = call[q].s /\ call'[q].mine = call[q].mine
                 /\ call'[q].put = call[q].put /\ call'[q].why = why
                 /\ \A p \in Workers \ {q} : call'[p] = call[p]
<1>1. call \in [Workers -> CallType] /\ call[q] \in CallType
  BY DEF Inv, Typed
<1>2. End(q) => /\ call'[q].at \in Outside /\ call'[q].put = {}
                /\ \A p \in Workers \ {q} : call'[p] = call[p]
  BY <1>1 DEF End, Rest, Idle, Outside
<1>3. ASSUME NEW step \in Steps, Goto(q, step)
      PROVE  /\ call'[q].at = step /\ call'[q].s = call[q].s /\ call'[q].mine = call[q].mine
             /\ call'[q].chunk = call[q].chunk /\ call'[q].op = call[q].op
             /\ call'[q].put = call[q].put /\ call'[q].why = call[q].why
             /\ \A p \in Workers \ {q} : call'[p] = call[p]
  BY <1>1, <1>3 DEF Goto, CallType
<1>4. ASSUME NEW why \in Purposes, Discard(q, why)
      PROVE  /\ call'[q].at = "rows" /\ call'[q].s = call[q].s /\ call'[q].mine = call[q].mine
             /\ call'[q].put = call[q].put /\ call'[q].why = why
             /\ \A p \in Workers \ {q} : call'[p] = call[p]
  BY <1>1, <1>4 DEF Discard, CallType
<1>. QED BY <1>2, <1>3, <1>4

\* A worker ends.
LEMMA EndAccounted ==
    ASSUME Inv, Inv', Accounted, NEW q \in Workers, End(q), \A t \in Sessions : Keeps(t),
           erased \subseteq erased'
    PROVE  Accounted'
<1>1. call'[q].at \in Outside /\ \A p \in Workers \ {q} : call'[p] = call[p]
  BY MovedFacts
<1>2. Traced(q)'
  BY <1>1, FreeTraced
<1>. QED BY <1>1, <1>2, AccountedStays

\* A worker goes on to a step that counts on nothing more.
LEMMA FreeAccounted ==
    ASSUME Inv, Inv', Accounted, NEW q \in Workers, \A t \in Sessions : Keeps(t),
           erased \subseteq erased', call[q].at \notin Outside \cup {"load", "finals"},
           \/ \E step \in Free : step \in Steps /\ Goto(q, step)
           \/ \E why \in Purposes : Discard(q, why)
           \/ call[q].op # "chunk" /\ Goto(q, "save")
    PROVE  Accounted'
<1>1. /\ \/ call'[q].at \in Free \/ (call'[q].at = "save" /\ call'[q].op # "chunk")
      /\ call'[q].s = call[q].s /\ call'[q].mine = call[q].mine
      /\ \A p \in Workers \ {q} : call'[p] = call[p]
  BY MovedFacts DEF Free, Steps
<1>2. Traced(q)'
  BY <1>1, FreeTraced
<1>. QED BY <1>1, <1>2, AccountedStays

LEMMA AfterFree ==
    ASSUME Inv, NEW q \in Workers, After(q)
    PROVE  \/ \E step \in Free : step \in Steps /\ Goto(q, step)
           \/ \E why \in Purposes : Discard(q, why)
<1>1. call[q].why \in Purposes
  BY DEF Inv, Typed, CallType
<1>. QED BY <1>1 DEF After, Purposes, Free, Steps

\* Steps that write no offset, no row of a chunk, no version.
LEMMA CalmAccounted ==
    ASSUME Inv, Inv', Accounted, NEW p \in Workers,
           \/ Lock(p) \/ Refused(p) \/ Unresolved(p) \/ Replay(p) \/ Hash(p) \/ Promote(p)
           \/ References(p) \/ Receipt(p) \/ Abort(p) \/ Forget(p) \/ DropFinals(p)
           \/ Fail(p) \/ RemoveFails(p)
    PROVE  Accounted'
<1>1. Calm
  BY DEF Calm, Lock, Refused, Unresolved, Replay, Hash, Promote, References, Receipt, Abort,
         Forget, DropFinals, Fail, RemoveFails, database, provider, history
<1>2. (\A t \in Sessions : Keeps(t)) /\ erased \subseteq erased'
  BY <1>1, CalmKeeps
<1>3. CASE End(p)
  BY <1>2, <1>3, EndAccounted
<1>4. CASE Lock(p) /\ Goto(p, "load")
  <2>1. call'[p].at = "load" /\ \A q \in Workers \ {p} : call'[q] = call[q]
    BY <1>4, MovedFacts DEF Steps
  <2>2. Traced(p)'
    BY <1>2, <2>1, FreeTraced
  <2>. QED BY <1>2, <2>1, <2>2, AccountedStays
<1>5. CASE /\ call[p].at \notin Outside \cup {"load", "finals"}
           /\ \/ \E step \in Free : step \in Steps /\ Goto(p, step)
              \/ \E why \in Purposes : Discard(p, why)
              \/ call[p].op # "chunk" /\ Goto(p, "save")
  BY <1>2, <1>5, FreeAccounted
<1>6. References(p) => call[p].op # "chunk"
  BY DEF References, At, Inv, Sound, Fit
<1>7. RemoveFails(p) => \/ End(p)
                        \/ \E step \in Free : step \in Steps /\ Goto(p, step)
                        \/ \E why \in Purposes : Discard(p, why)
  BY AfterFree DEF RemoveFails, NotRemoved
<1>. QED BY <1>3, <1>4, <1>5, <1>6, <1>7
         DEF Lock, Refused, Unresolved, Replay, Hash, Promote, References, Receipt, Abort,
             Forget, DropFinals, Fail, RemoveFails, At, Outside, Free, Steps, Purposes

\* A worker reads the session: its offset is the row's.
LEMMA LoadAccounted ==
    ASSUME Inv, Inv', Accounted, NEW p \in Workers, Load(p)
    PROVE  Accounted'
<1>1. Calm
  BY DEF Calm, Load, database, provider, history
<1>2. (\A t \in Sessions : Keeps(t)) /\ erased \subseteq erased'
  BY <1>1, CalmKeeps
<1>3. CASE End(p)
  BY <1>2, <1>3, EndAccounted
<1>4. CASE ~End(p)
  <2>1. /\ call'[p].at \in {"ready", "rows", "forget"}
        /\ call'[p].mine = row[S(p)] /\ call'[p].s = S(p)
        /\ \A q \in Workers \ {p} : call'[q] = call[q]
    BY <1>4 DEF Load, Inv, Typed, CallType, S
  <2>2. Traced(p)'
    BY <1>1, <2>1 DEF Traced, Calm
  <2>. QED BY <1>2, <2>1, <2>2, AccountedStays
<1>. QED BY <1>3, <1>4

\* Requests begin and the sweep goes through its page.
LEMMA OutsideMoves ==
    ASSUME Inv,
           \/ \E r \in Requests, s \in Sessions, op \in Ops, c \in Chunks \cup {NoChunk} :
                 Begin(r, op, s, c)
           \/ Select \/ Swept \/ \E s \in Sessions : Check(s)
    PROVE  \E q \in Workers : /\ call'[q].at \in Outside
                              /\ \A p \in Workers \ {q} : call'[p] = call[p]
<1>1. call \in [Workers -> CallType] /\ Sweeper \in Workers /\ Requests \subseteq Workers
  BY DEF Inv, Typed, Workers
<1>2. Idle.at = "idle"
  BY DEF Idle
<1>3. ASSUME NEW r \in Requests, NEW s \in Sessions, NEW op \in Ops,
             NEW c \in Chunks \cup {NoChunk}, Begin(r, op, s, c)
      PROVE  call'[r].at = "lock" /\ \A p \in Workers \ {r} : call'[p] = call[p]
  BY <1>1, <1>3 DEF Begin, Idle
<1>4. Select => call'[Sweeper].at = "page" /\ \A p \in Workers \ {Sweeper} : call'[p] = call[p]
  BY <1>1 DEF Select, CallType
<1>5. Swept => call'[Sweeper].at = "idle" /\ \A p \in Workers \ {Sweeper} : call'[p] = call[p]
  BY <1>1, <1>2 DEF Swept
<1>6. ASSUME NEW s \in Sessions, Check(s)
      PROVE  call'[Sweeper].at = "lock" /\ \A p \in Workers \ {Sweeper} : call'[p] = call[p]
  BY <1>1, <1>6 DEF Check, Visit, Idle
<1>. QED BY <1>1, <1>3, <1>4, <1>5, <1>6 DEF Outside

LEMMA OutsideAccounted ==
    ASSUME Inv, Inv', Accounted,
           \/ \E r \in Requests, s \in Sessions, op \in Ops, c \in Chunks \cup {NoChunk} :
                 Begin(r, op, s, c)
           \/ Select \/ Swept \/ \E s \in Sessions : Check(s)
    PROVE  Accounted'
<1>1. Calm
  BY DEF Calm, Begin, Select, Swept, Check, Visit, database, provider, history
<1>2. (\A t \in Sessions : Keeps(t)) /\ erased \subseteq erased'
  BY <1>1, CalmKeeps
<1>3. PICK q \in Workers : /\ call'[q].at \in Outside
                           /\ \A p \in Workers \ {q} : call'[p] = call[p]
  BY OutsideMoves
<1>4. Traced(q)'
  BY <1>2, <1>3, FreeTraced
<1>. QED BY <1>2, <1>3, <1>4, AccountedStays

\* A chunk behind the offset is acknowledged again: its row is a kept one.
LEMMA RetryAccounted ==
    ASSUME Inv, Inv', Accounted, NEW r \in Requests, Retry(r)
    PROVE  Accounted'
<1>1. /\ r \in Workers /\ call[r].at = "ready" /\ End(r)
      /\ UNCHANGED <<row, tombs, chunkRows, stored, erased>>
  BY DEF Workers, Retry, At, database, provider
<1>2. /\ call[r] \in CallType /\ S(r) \in Sessions /\ S(r) = call[r].s
  BY <1>1, AtFacts DEF Outside
<1>3. PICK s \in Sessions : s = S(r) /\ s = call[r].s
  BY <1>2
<1>4. acked' = [acked EXCEPT ![s] = @ \cup {call[r].chunk}]
  BY <1>3 DEF Retry
<1>5. ASSUME NEW t \in Sessions \ {s} PROVE Keeps(t)
  BY <1>1, <1>4, SameKeeps DEF Live, Inv, Typed
<1>6. Keeps(s)
  <2> SUFFICES ASSUME Live(s)' PROVE Keeps(s)
    BY DEF Keeps
  <2>1. Live(s) /\ Whole(s) /\ Kept(s)' = Kept(s)
    BY <1>1 DEF Live, Kept, Accounted
  <2>2. PICK x \in chunkRows[s] : x.chunk = call[r].chunk /\ x.chunk.end < call[r].mine.next
    BY <1>3 DEF Retry, RowAt
  <2>3. x \in Kept(s)
    <3>1. \/ call[r].mine.next = row[s].next
          \/ \E y \in Kept(s) : y.chunk.start = call[r].mine.next
      BY <1>1, <1>3, <2>1 DEF Accounted, Traced, Outside
    <3>2. call[r].mine.next <= row[s].next /\ x.chunk.end < call[r].mine.next
      BY <2>2, <3>1, ChunkTypes DEF Kept, Inv
    <3>3. /\ row[s].next \in Nat /\ x.chunk.end \in Nat /\ call[r].mine.next \in Nat
      BY <1>2, ChunkTypes DEF Inv, CallType, RowType
    <3>. QED BY <3>2, <3>3 DEF Kept
  <2>4. acked'[s] \subseteq ChunksOf(Kept(s))
    BY <1>4, <2>1, <2>2, <2>3 DEF Whole, ChunksOf, Inv, Typed
  <2>5. Whole(s)'
    BY <1>1, <2>1, <2>4 DEF Whole, Covers, ChunksOf, Overlap
  <2>6. row[s].next \in Nat
    BY ChunkTypes DEF Inv
  <2>. QED BY <1>1, <2>1, <2>5, <2>6 DEF Keeps
<1>7. (\A t \in Sessions : Keeps(t)) /\ erased \subseteq erased'
  BY <1>1, <1>5, <1>6
<1>. QED BY <1>1, <1>7, EndAccounted

\* A row is reserved: at the offset, where no row is yet, or it is there already.
LEMMA ReserveAccounted ==
    ASSUME Inv, Inv', Accounted, NEW r \in Requests, Reserve(r)
    PROVE  Accounted'
<1>1. /\ r \in Workers /\ call[r].at = "ready" /\ call[r].op = "chunk"
      /\ call[r].chunk.start = call[r].mine.next
      /\ UNCHANGED <<row, tombs, stored, acked, erased>>
  BY DEF Workers, Reserve, At, provider, history
<1>2. /\ call[r] \in CallType /\ S(r) \in Sessions /\ S(r) = call[r].s /\ r # Sweeper
      /\ call[r].chunk \in Chunks
  BY <1>1, AtFacts, ResumableConstants DEF Outside, Fit
<1>3. PICK s \in Sessions : s = S(r) /\ s = call[r].s
  BY <1>2
<1> DEFINE c == call[r].chunk
<1>4. CASE End(r) /\ UNCHANGED chunkRows
  BY <1>1, <1>4, CalmKeeps, EndAccounted DEF Calm
<1>5. CASE Goto(r, "put")
  <2>1. /\ call'[r].at = "put" /\ call'[r].s = s /\ call'[r].mine = call[r].mine
        /\ call'[r].chunk = c /\ \A p \in Workers \ {r} : call'[p] = call[p]
    BY <1>1, <1>3, <1>5, MovedFacts DEF Steps
  <2>2. /\ \A t \in Sessions \ {s} : chunkRows'[t] = chunkRows[t]
        /\ Staged(s) => /\ CanReserve(s, c)
                        /\ chunkRows'[s] = IF RowAt(s, c.start) = {}
                                           THEN chunkRows[s] \cup {[chunk |-> c, refs |-> {}]}
                                           ELSE chunkRows[s]
    <3>1. "put" \notin {"idle", "page"} /\ chunkRows \in [Sessions -> SUBSET ChunkRow]
      BY DEF Inv, Typed
    <3>2. ~End(r)
      <4>1. End(r) => call'[r].at \in Outside
        BY <1>1, MovedFacts
      <4>. QED BY <2>1, <4>1 DEF Outside
    <3>. QED BY <1>3, <3>1, <3>2 DEF Reserve
  <2>3. ASSUME NEW t \in Sessions \ {s} PROVE Keeps(t)
    BY <1>1, <2>2, SameKeeps DEF Live
  <2>4. ASSUME Live(s)'
        PROVE  /\ Keeps(s) /\ \E x \in chunkRows'[s] : x.chunk = c
               /\ \/ call[r].mine.next = row'[s].next
                  \/ \E y \in Kept(s)' : y.chunk.start = call[r].mine.next
    <3>1. Live(s) /\ Whole(s) /\ Staged(s)
      BY <1>1, <2>4 DEF Live, Accounted, Staged
    <3>2. \/ call[r].mine.next = row[s].next
          \/ \E y \in Kept(s) : y.chunk.start = call[r].mine.next
      BY <1>1, <1>3, <3>1 DEF Accounted, Traced, Outside
    <3>3. CASE RowAt(s, c.start) # {}
      <4>1. chunkRows'[s] = chunkRows[s] /\ Kept(s)' = Kept(s)
        BY <1>1, <2>2, <3>1, <3>3 DEF Kept
      <4>2. \E x \in chunkRows[s] : x.chunk = c
        BY <2>2, <3>1, <3>3 DEF CanReserve, RowAt
      <4>. QED BY <1>1, <3>1, <3>2, <4>1, <4>2, SameKeeps DEF Live
    <3>4. CASE RowAt(s, c.start) = {}
      <4> DEFINE new == [chunk |-> c, refs |-> {}]
      <4>1. chunkRows'[s] = chunkRows[s] \cup {new} /\ new.chunk = c /\ new.refs = {}
        BY <2>2, <3>1, <3>4
      <4>2. c.start = row[s].next
        BY <1>1, <3>2, <3>4 DEF RowAt, Kept
      <4>3. c.end \in Nat /\ c.start \in Nat /\ c.start <= c.end /\ row[s].next \in Nat
        BY <1>2, ChunkTypes, ResumableConstants DEF Inv
      <4> HIDE DEF new, c
      <4>4. Kept(s)' = Kept(s)
        BY <1>1, <4>1, <4>2, <4>3 DEF Kept
      <4>5. \A x \in chunkRows'[s] : /\ x.refs \subseteq stored' /\ \A v \in x.refs : v.chunk = x.chunk
                                     /\ x.chunk.start <= row'[s].next
                                     /\ x.chunk.start < row'[s].next => x.chunk.end < row'[s].next
        BY <1>1, <3>1, <4>1, <4>2, <4>3 DEF Whole
      <4>6. \A x, y \in chunkRows'[s] : x.chunk.start = y.chunk.start => x = y
        BY <3>1, <3>4, <4>1 DEF Whole, RowAt
      <4>7. Whole(s)'
        BY <1>1, <3>1, <4>4, <4>5, <4>6 DEF Whole, Covers, ChunksOf, Overlap
      <4>. QED BY <1>1, <3>1, <3>2, <4>1, <4>3, <4>4, <4>7 DEF Keeps
    <3>. QED BY <3>3, <3>4
  <2>5. Traced(r)'
    BY <2>1, <2>4 DEF Traced
  <2>6. \A t \in Sessions : Keeps(t)
    BY <2>3, <2>4 DEF Keeps
  <2>. QED BY <1>1, <2>1, <2>5, <2>6, AccountedStays
<1>. QED BY <1>4, <1>5 DEF Reserve

\* A chunk is found, sent, or accepted by GCS.
LEMMA ChunkAccounted ==
    ASSUME Inv, Inv', Accounted, NEW r \in Requests, Found(r) \/ Send(r) \/ Accepted(r)
    PROVE  Accounted'
<1>1. r \in Workers /\ call[r].at \in {"put", "sent"} /\ Calm
  BY DEF Workers, Found, Send, Accepted, At, Calm, database, provider, history
<1>2. call[r] \in CallType /\ S(r) = call[r].s /\ call \in [Workers -> CallType]
  BY <1>1, AtFacts DEF Outside, Inv, Typed
<1>3. PICK s \in Sessions : s = S(r) /\ s = call[r].s
  BY <1>1, AtFacts DEF Outside
<1>4. (\A t \in Sessions : Keeps(t)) /\ erased \subseteq erased'
  BY <1>1, CalmKeeps
<1>5. Traced(r)
  BY <1>1 DEF Accounted
<1>6. /\ call'[r].s = s /\ call'[r].mine = call[r].mine /\ call'[r].chunk = call[r].chunk
      /\ \A p \in Workers \ {r} : call'[p] = call[p]
      /\ call'[r].at \in {"sent", "record"} \/ (call'[r].at = "save" /\ ~Staged(s))
      /\ call'[r].at = "record" => /\ call'[r].put # {} /\ call'[r].put \subseteq stored
                                   /\ \A v \in call'[r].put : v.chunk = call[r].chunk
  <2>1. CASE Found(r)
    <3>1. PICK v \in Same(r) : call' = [call EXCEPT ![r].at = "record", ![r].put = {v}]
      BY <2>1 DEF Found
    <3>2. /\ call'[r].at = "record" /\ call'[r].put = {v} /\ call'[r].s = s
          /\ call'[r].mine = call[r].mine /\ call'[r].chunk = call[r].chunk
          /\ \A p \in Workers \ {r} : call'[p] = call[p]
      BY <1>1, <1>2, <1>3, <3>1 DEF CallType
    <3>3. v \in stored /\ v.chunk = call[r].chunk
      BY <3>1 DEF Same
    <3>. QED BY <3>2, <3>3
  <2>2. CASE Send(r) \/ Accepted(r)
    <3>1. (Send(r) /\ Goto(r, "sent")) \/ (Accepted(r) /\ Goto(r, "save") /\ ~Staged(s))
      BY <1>3, <2>2 DEF Send, Accepted
    <3>. QED BY <1>1, <1>3, <3>1, MovedFacts DEF Steps
  <2>. QED BY <2>1, <2>2
<1>7. Live(s) => /\ \/ call[r].mine.next = row[s].next
                    \/ \E x \in Kept(s) : x.chunk.start = call[r].mine.next
                 /\ \E x \in chunkRows[s] : x.chunk = call[r].chunk
  BY <1>1, <1>3, <1>5 DEF Traced, Outside
<1>8. Live(s)' => Live(s) /\ Staged(s) /\ Kept(s)' = Kept(s)
  BY <1>1 DEF Calm, Live, Kept, Staged
<1>9. Traced(r)'
  BY <1>1, <1>6, <1>7, <1>8 DEF Traced, Calm
<1>. QED BY <1>1, <1>4, <1>6, <1>9, AccountedStays

\* The row learns the version: its chunk is the request's own.
LEMMA RecordAccounted ==
    ASSUME Inv, Inv', Accounted, NEW r \in Requests, Record(r)
    PROVE  Accounted'
<1>1. /\ r \in Workers /\ call[r].at = "record" /\ Goto(r, "save")
      /\ UNCHANGED <<row, tombs, stored, acked, erased>>
  BY DEF Workers, Record, At, provider
<1>2. call[r] \in CallType /\ Fit(r) /\ Traced(r)
  BY <1>1, AtFacts DEF Outside, Accounted
<1>3. PICK s \in Sessions : s = S(r) /\ s = call[r].s
  BY <1>1, AtFacts DEF Outside
<1> DEFINE c == call[r].chunk
           Put(x) == IF x.chunk.start = c.start THEN [x EXCEPT !.refs = call[r].put] ELSE x
<1>4. /\ call'[r].at = "save" /\ call'[r].s = s /\ call'[r].mine = call[r].mine
      /\ call'[r].chunk = c /\ \A p \in Workers \ {r} : call'[p] = call[p]
  BY <1>1, <1>3, MovedFacts DEF Steps
<1>5. /\ \A t \in Sessions \ {s} : chunkRows'[t] = chunkRows[t]
      /\ chunkRows'[s] = {Put(x) : x \in chunkRows[s]}
  BY <1>3 DEF Record, Inv, Typed
<1>6. ASSUME NEW t \in Sessions \ {s} PROVE Keeps(t)
  BY <1>1, <1>5, SameKeeps DEF Live
<1>7. ASSUME Live(s)'
      PROVE  /\ Keeps(s) /\ \E x \in chunkRows'[s] : x.chunk = c /\ x.refs # {}
             /\ \/ call[r].mine.next = row'[s].next
                \/ \E y \in Kept(s)' : y.chunk.start = call[r].mine.next
  <2>1. Live(s) /\ Whole(s)
    BY <1>1, <1>7 DEF Live, Accounted
  <2>2. /\ \/ call[r].mine.next = row[s].next
           \/ \E y \in Kept(s) : y.chunk.start = call[r].mine.next
        /\ \E x \in chunkRows[s] : x.chunk = c
        /\ call[r].put # {} /\ call[r].put \subseteq stored /\ \A v \in call[r].put : v.chunk = c
    BY <1>1, <1>2, <1>3, <2>1 DEF Traced, Outside
  <2>3. ASSUME NEW x \in chunkRows[s]
        PROVE  /\ Put(x).chunk = x.chunk
               /\ Put(x).refs = IF x.chunk.start = c.start THEN call[r].put ELSE x.refs
               /\ Put(x).refs \subseteq stored /\ \A v \in Put(x).refs : v.chunk = x.chunk
               /\ x.refs # {} => Put(x).refs # {}
    <3>1. x = [chunk |-> x.chunk, refs |-> x.refs]
      BY ChunkTypes DEF Inv
    <3>2. x.chunk.start = c.start => x.chunk = c
      BY <2>1, <2>2 DEF Whole
    <3>3. /\ Put(x).chunk = x.chunk
          /\ Put(x).refs = IF x.chunk.start = c.start THEN call[r].put ELSE x.refs
      BY <3>1
    <3>4. x.refs \subseteq stored /\ \A v \in x.refs : v.chunk = x.chunk
      BY <2>1 DEF Whole
    <3> HIDE DEF Put, c
    <3>. QED BY <2>2, <3>2, <3>3, <3>4
  <2>4. \E x \in chunkRows'[s] : x.chunk = c /\ x.refs # {}
    <3>1. PICK x \in chunkRows[s] : x.chunk = c
      BY <2>2
    <3>2. Put(x).chunk = c /\ Put(x).refs # {}
      BY <2>2, <2>3, <3>1
    <3>3. Put(x) \in chunkRows'[s]
      BY <1>5
    <3>. QED BY <3>2, <3>3
  <2> HIDE DEF Put
  <2>5. Kept(s)' = {Put(x) : x \in Kept(s)}
    BY <1>1, <1>5, <2>3 DEF Kept
  <2>6. ChunksOf(Kept(s)') = ChunksOf(Kept(s))
    <3>1. \A x \in Kept(s) : Put(x).chunk = x.chunk
      BY <2>3 DEF Kept
    <3>. QED BY <2>5, <3>1 DEF ChunksOf
  <2>7. Whole(s)'
    <3>1. acked'[s] \subseteq ChunksOf(Kept(s)') /\ Covers(ChunksOf(Kept(s)'), row'[s].next)
      BY <1>1, <2>1, <2>6 DEF Whole
    <3>2. \A x \in Kept(s)' : x.refs # {} /\ \A y \in Kept(s)' : ~Overlap(x.chunk, y.chunk)
      BY <2>1, <2>3, <2>5 DEF Whole, Kept
    <3>3. \A x \in chunkRows'[s] :
             /\ x.refs \subseteq stored /\ \A v \in x.refs : v.chunk = x.chunk
             /\ x.chunk.start <= row[s].next
             /\ x.chunk.start < row[s].next => x.chunk.end < row[s].next
      BY <1>5, <2>1, <2>3 DEF Whole
    <3>4. \A x, y \in chunkRows'[s] : x.chunk.start = y.chunk.start => x = y
      BY <1>5, <2>1, <2>3 DEF Whole
    <3>. QED BY <1>1, <3>1, <3>2, <3>3, <3>4 DEF Whole, ChunksOf, Covers, Overlap
  <2>8. \/ call[r].mine.next = row'[s].next
        \/ \E y \in Kept(s)' : y.chunk.start = call[r].mine.next
    BY <1>1, <2>2, <2>3, <2>5 DEF Kept
  <2>9. \A x \in chunkRows[s] :
           \E y \in chunkRows'[s] : y.chunk = x.chunk /\ (x.refs # {} => y.refs # {})
    BY <1>5, <2>3
  <2>10. row[s].next \in Nat
    BY ChunkTypes DEF Inv
  <2>. QED BY <1>1, <2>1, <2>4, <2>7, <2>8, <2>9, <2>10 DEF Keeps
<1>8. Traced(r)'
  BY <1>4, <1>7 DEF Traced
<1>9. \A t \in Sessions : Keeps(t)
  BY <1>6, <1>7 DEF Keeps
<1>. QED BY <1>1, <1>4, <1>8, <1>9, AccountedStays

\* The next chunk continues the cover and overlaps nothing below it.
LEMMA CoverGrows ==
    ASSUME NEW n \in Nat, NEW C, \A d \in C : d.start \in Nat /\ d.end \in Nat /\ d.end < n,
           Covers(C, n), NEW c, c.start = n, c.end \in Nat, c.start <= c.end
    PROVE  /\ Covers(C \cup {c}, c.end + 1)
           /\ \A d \in C : ~Overlap(c, d) /\ ~Overlap(d, c)
<1>1. UNION {d.start..d.end : d \in C \cup {c}} = (0..n-1) \cup (n..c.end)
  <2>1. UNION {d.start..d.end : d \in C \cup {c}}
           = (UNION {d.start..d.end : d \in C}) \cup (c.start..c.end)
    OBVIOUS
  <2>. QED BY <2>1 DEF Covers
<1>2. (0..n-1) \cup (n..c.end) = 0..(c.end + 1)-1
  OBVIOUS
<1>. QED BY <1>1, <1>2 DEF Covers, Overlap

\* The offset moves on by the chunk that stood at it.
LEMMA SaveChunkAccounted ==
    ASSUME Inv, Inv', Accounted, NEW r \in Requests, SaveChunk(r)
    PROVE  Accounted'
<1>1. /\ r \in Workers /\ call[r].at = "save" /\ call[r].op = "chunk" /\ End(r)
      /\ UNCHANGED <<tombs, chunkRows, stored, erased, receipts>>
  BY DEF Workers, SaveChunk, At, provider
<1>2. /\ call[r] \in CallType /\ Fit(r) /\ Copied(r) /\ Traced(r)
  BY <1>1, AtFacts DEF Outside, Accounted
<1>3. PICK s \in Sessions : s = S(r) /\ s = call[r].s
  BY <1>1, AtFacts DEF Outside
<1>4. CASE ~CanSave(r)
  BY <1>1, <1>4, CalmKeeps, EndAccounted DEF SaveChunk, Calm
<1>5. CASE CanSave(r)
  <2> DEFINE c == call[r].chunk
  <2>1. c \in Chunks /\ c.start = call[r].mine.next
    BY <1>1, <1>2, ResumableConstants DEF Fit, Copied, Outside
  <2>2. c.start \in Nat /\ c.end \in Nat /\ c.start <= c.end /\ c.end + 1 \in 0..Size
    BY <2>1, ResumableConstants
  <2>3. /\ row[s] = call[r].mine /\ row'[s].next = c.end + 1
        /\ \A t \in Sessions \ {s} : row'[t] = row[t]
    <3>1. PICK next \in 0..Size, done \in BOOLEAN : next = c.end + 1 /\ Saved(r, next, done)
      BY <1>5, <2>2 DEF SaveChunk
    <3> HIDE DEF c
    <3>2. /\ row[s] = call[r].mine /\ \A t \in Sessions \ {s} : row'[t] = row[t]
          /\ row'[s] = [rev |-> row[s].rev + 1, next |-> next, done |-> done]
      BY <1>1, <1>3, <1>5, <3>1, SaveFacts
    <3>. QED BY <3>1, <3>2
  <2>4. acked' = [acked EXCEPT ![s] = @ \cup {c}]
    BY <1>3, <1>5 DEF SaveChunk
  <2>5. ASSUME NEW t \in Sessions \ {s} PROVE Keeps(t)
    BY <1>1, <2>3, <2>4, SameKeeps DEF Live, Inv, Typed
  <2>6. Keeps(s)
    <3> SUFFICES ASSUME Live(s)' PROVE Keeps(s)
      BY DEF Keeps
    <3> DEFINE n == row[s].next
    <3>1. Live(s) /\ Whole(s) /\ n \in Nat /\ c.start = n
      BY <1>1, <2>1, <2>3, ChunkTypes DEF Live, Accounted, Inv
    <3>2. PICK x \in chunkRows[s] : x.chunk = c /\ x.refs # {}
      BY <1>1, <1>2, <1>3, <3>1 DEF Traced, Outside
    <3> HIDE DEF n, c
    <3>3. Kept(s)' = Kept(s) \cup {x}
      <4>1. ASSUME NEW y \in chunkRows[s]
            PROVE  y.chunk.end < c.end + 1 <=> y.chunk.end < n \/ y = x
        <5>1. y.chunk.start \in Nat /\ y.chunk.end \in Nat /\ y.chunk.start <= y.chunk.end
          BY ChunkTypes DEF Inv
        <5>2. /\ y.chunk.start <= n /\ (y.chunk.start < n => y.chunk.end < n)
              /\ y.chunk.start = c.start => y = x
          BY <3>1, <3>2 DEF Whole, n
        <5>. QED BY <2>2, <3>1, <3>2, <5>1, <5>2
      <4>. QED BY <1>1, <2>3, <3>2, <4>1 DEF Kept, n
    <3>4. ChunksOf(Kept(s)') = ChunksOf(Kept(s)) \cup {c}
      BY <3>2, <3>3 DEF ChunksOf
    <3>5. \A d \in ChunksOf(Kept(s)) : d.start \in Nat /\ d.end \in Nat /\ d.end < n
      BY ChunkTypes DEF ChunksOf, Kept, Inv, n
    <3>6. /\ Covers(ChunksOf(Kept(s)) \cup {c}, c.end + 1)
          /\ \A d \in ChunksOf(Kept(s)) : ~Overlap(c, d) /\ ~Overlap(d, c)
      <4>1. Covers(ChunksOf(Kept(s)), n)
        BY <3>1 DEF Whole, n
      <4>. QED BY <2>2, <3>1, <3>5, <4>1, CoverGrows
    <3>7. Whole(s)'
      <4>1. acked'[s] \subseteq ChunksOf(Kept(s)') /\ Covers(ChunksOf(Kept(s)'), row'[s].next)
        BY <2>3, <2>4, <3>1, <3>4, <3>6 DEF Whole, Inv, Typed
      <4>2. \A y \in Kept(s)' : y.refs # {} /\ \A z \in Kept(s)' : ~Overlap(y.chunk, z.chunk)
        <5>1. ~Overlap(c, c)
          BY DEF Overlap
        <5>2. \A y \in Kept(s) : ~Overlap(c, y.chunk) /\ ~Overlap(y.chunk, c)
          BY <3>6 DEF ChunksOf
        <5>. QED BY <3>1, <3>2, <3>3, <5>1, <5>2 DEF Whole
      <4>3. \A y \in chunkRows[s] : y.chunk.start <= c.end + 1
                                    /\ (y.chunk.start < c.end + 1 => y.chunk.end < c.end + 1)
        <5> SUFFICES ASSUME NEW y \in chunkRows[s]
                     PROVE  y.chunk.start <= c.end + 1
                            /\ (y.chunk.start < c.end + 1 => y.chunk.end < c.end + 1)
          OBVIOUS
        <5>1. y.chunk.start \in Nat /\ y.chunk.end \in Nat /\ y.chunk.start <= y.chunk.end
          BY ChunkTypes DEF Inv
        <5>2. /\ y.chunk.start <= n /\ (y.chunk.start < n => y.chunk.end < n)
              /\ y.chunk.start = c.start => y = x
          BY <3>1, <3>2 DEF Whole, n
        <5>. QED BY <2>2, <3>1, <3>2, <5>1, <5>2
      <4>. QED BY <1>1, <2>3, <3>1, <4>1, <4>2, <4>3 DEF Whole, Covers, ChunksOf, Overlap
    <3>8. x \in Kept(s)' /\ x.chunk.start = n
      BY <3>1, <3>2, <3>3
    <3>. QED BY <1>1, <2>2, <2>3, <3>1, <3>7, <3>8 DEF Keeps, n
  <2>7. \A t \in Sessions : Keeps(t)
    BY <2>5, <2>6
  <2>. QED BY <1>1, <2>7, EndAccounted
<1>. QED BY <1>4, <1>5

\* The finished upload keeps its offset.
LEMMA SaveFinalizedAccounted ==
    ASSUME Inv, Inv', Accounted, NEW r \in Requests, SaveFinalized(r)
    PROVE  Accounted'
<1>1. /\ r \in Workers /\ call[r].at = "save" /\ call[r].op = "complete"
      /\ UNCHANGED <<tombs, chunkRows, stored, acked, erased, receipts>>
  BY DEF Workers, SaveFinalized, At, provider, history
<1>2. PICK s \in Sessions : s = S(r) /\ s = call[r].s
  BY <1>1, AtFacts DEF Outside
<1>3. CASE ~CanSave(r)
  BY <1>1, <1>3, CalmKeeps, EndAccounted DEF SaveFinalized, Calm
<1>4. CASE CanSave(r)
  <2>1. Saved(r, call[r].mine.next, TRUE) /\ TRUE \in BOOLEAN /\ call[r].mine.next \in 0..Size
        /\ Discard(r, "finish")
    BY <1>1, <1>4, AtFacts DEF SaveFinalized, Outside, CallType, RowType
  <2>2. \A t \in Sessions : row'[t].next = row[t].next
    <3>1. /\ row[s] = call[r].mine
          /\ row'[s] = [rev |-> row[s].rev + 1, next |-> call[r].mine.next, done |-> TRUE]
          /\ \A t \in Sessions \ {s} : row'[t] = row[t]
      BY <1>1, <1>2, <1>4, <2>1, SaveFacts
    <3>. QED BY <3>1
  <2>3. \A t \in Sessions : Keeps(t)
    BY <1>1, <2>2, SameKeeps DEF Live
  <2>. QED BY <1>1, <2>1, <2>3, FreeAccounted DEF Outside, Purposes
<1>. QED BY <1>3, <1>4

\* A removal counts on nothing and takes only from its own session.
LEMMA RemovalAccounted ==
    ASSUME Inv, Inv', Accounted, NEW p \in Workers, Removal(p)
    PROVE  Accounted'
<1>1. CASE Forget(p)
  BY <1>1, CalmAccounted
<1>2. CASE ~Forget(p)
  <2>1. /\ call[p].at \in {"rows", "erase", "drop"} /\ erased \subseteq erased'
        /\ call[p].at \notin Outside \cup {"load", "finals"}
    BY <1>2 DEF Removal, ReadRows, EraseVersion, EraseRows, EraseLegacy, Drop, At, Outside,
                history
  <2>2. PICK s \in Sessions : s = S(p) /\ s = call[p].s
    BY <2>1, AtFacts
  <2>3. call[p] \in CallType /\ Fit(p) /\ call \in [Workers -> CallType]
    BY <2>1, AtFacts DEF Inv, Typed
  <2>4. call[p].at = "erase" => s \in erased
    BY <2>2 DEF Accounted, Traced
  <2>5. \A t \in Sessions : Keeps(t)
    <3>1. CASE ReadRows(p)
      BY <3>1, CalmKeeps DEF Calm, ReadRows, database, provider
    <3>2. ASSUME NEW v \in call[p].put, EraseVersion(p, v) PROVE \A t \in Sessions : Keeps(t)
      <4>1. /\ UNCHANGED <<row, tombs, chunkRows, acked, erased>> /\ stored' = stored \ {v}
            /\ s \in erased /\ v.s = s
        BY <2>2, <2>3, <2>4, <3>2 DEF EraseVersion, At, database, history, Fit
      <4>. QED BY <4>1, SameKeeps DEF Live, Keeps
    <3>3. CASE EraseRows(p)
      <4>1. /\ UNCHANGED <<row, tombs, stored, acked, erased>> /\ s \in erased
            /\ \A t \in Sessions \ {s} : chunkRows'[t] = chunkRows[t]
        BY <2>2, <2>4, <3>3 DEF EraseRows, At, provider, history, Inv, Typed
      <4>. QED BY <4>1, SameKeeps DEF Live, Keeps
    <3>4. CASE EraseLegacy(p)
      <4>1. /\ UNCHANGED <<row, tombs, chunkRows, acked, erased>> /\ s \in Legacy
            /\ \A v \in stored : v.s # s => v \in stored'
        BY <2>2, <3>4 DEF EraseLegacy, Staged, database, history
      <4>. QED BY <4>1, SameKeeps DEF Live, Keeps
    <3>5. CASE Drop(p)
      <4>1. /\ UNCHANGED <<chunkRows, stored, acked, erased>> /\ tombs' = tombs \cup {s}
            /\ \A t \in Sessions \ {s} : row'[t] = row[t]
        BY <2>2, <3>5 DEF Drop, provider, history, Inv, Typed
      <4>. QED BY <4>1, SameKeeps DEF Live, Keeps
    <3>. QED BY <1>2, <3>1, <3>2, <3>3, <3>4, <3>5 DEF Removal
  <2>6. CASE End(p)
    BY <2>1, <2>5, <2>6, EndAccounted
  <2>7. CASE After(p) \/ Goto(p, "finals")
    <3>1. \/ \E step \in Free : step \in Steps /\ Goto(p, step)
          \/ \E why \in Purposes : Discard(p, why)
      BY <2>7, AfterFree DEF Free, Steps
    <3>. QED BY <2>1, <2>5, <3>1, FreeAccounted
  <2>8. CASE (ReadRows(p) /\ Settled(S(p))) \/ \E v \in call[p].put : EraseVersion(p, v)
    <3>1. /\ call'[p].at = "erase" /\ call'[p].s = s
          /\ \A q \in Workers \ {p} : call'[q] = call[q]
      BY <2>2, <2>3, <2>8 DEF ReadRows, EraseVersion, At, CallType
    <3>2. s \in erased'
      BY <2>1, <2>2, <2>4, <2>8 DEF ReadRows, EraseVersion, At
    <3>3. Traced(p)'
      BY <3>1, <3>2 DEF Traced, Live
    <3>. QED BY <2>1, <2>5, <3>1, <3>3, AccountedStays
  <2>. QED BY <1>2, <2>6, <2>7, <2>8
           DEF Removal, ReadRows, EraseRows, EraseLegacy, Drop, NotRemoved
<1>. QED BY <1>1, <1>2

\* Steps that move no worker, and the restart that ends them all.
LEMMA EnvironmentAccounted ==
    ASSUME Inv, Inv', Accounted,
           \/ \E s \in Sessions : CreateSession(s) \/ Expire(s)
           \/ \E p \in Workers : LoseLock(p)
           \/ \E v \in flying : Land(v) \/ Lose(v)
           \/ Restart \/ UNCHANGED vars
    PROVE  Accounted'
<1>1. ASSUME \A t \in Sessions : Keeps(t), UNCHANGED <<call, erased>> PROVE Accounted'
  <2>1. \A t \in Sessions : Live(t)' => Whole(t)'
    BY <1>1 DEF Keeps
  <2>2. ASSUME NEW p \in Workers PROVE Traced(p)'
    <3>1. Typed /\ Typed' /\ Fit(p) /\ Copied(p) /\ call'[p] = call[p]
      BY <1>1 DEF Inv, Sound
    <3>. QED BY <1>1, <3>1, TracedStays
  <2>. QED BY <2>1, <2>2 DEF Accounted
<1>2. ASSUME NEW s \in Sessions, CreateSession(s) PROVE Accounted'
  <2>1. UNCHANGED <<tombs, chunkRows, stored, acked, erased, call>>
        /\ \A t \in Sessions : row'[t].next = row[t].next
    BY <1>2 DEF CreateSession, provider, history, Inv, Typed, RowType
  <2>. QED BY <1>1, <2>1, SameKeeps DEF Live
<1>3. CASE \/ \E s \in Sessions : Expire(s)
           \/ \E p \in Workers : LoseLock(p)
           \/ \E v \in flying : Land(v) \/ Lose(v)
           \/ UNCHANGED vars
  <2>1. Calm /\ UNCHANGED <<call, erased>>
    BY <1>3 DEF Calm, Expire, LoseLock, Land, Lose, vars, database, provider, history
  <2>. QED BY <1>1, <2>1, CalmKeeps
<1>4. CASE Restart
  <2>1. Calm
    BY <1>4 DEF Calm, Restart, database, provider, history
  <2>2. \A t \in Sessions : Live(t)' => Whole(t)'
    BY <2>1, CalmKeeps DEF Keeps
  <2>3. \A p \in Workers : call'[p].at = "idle"
    BY <1>4 DEF Restart, Idle
  <2>. QED BY <2>2, <2>3 DEF Accounted, Traced, Outside
<1>. QED BY <1>2, <1>3, <1>4

LEMMA InitAccounted == Init => Accounted
<1> SUFFICES ASSUME Init PROVE Accounted
  OBVIOUS
<1>1. ASSUME NEW s \in Sessions PROVE Whole(s)
  <2>1. /\ acked[s] = {} /\ chunkRows[s] = {} /\ row[s].next = 0
    BY DEF Init, NoRow
  <2>2. Kept(s) = {} /\ ChunksOf(Kept(s)) = {}
    BY <2>1 DEF Kept, ChunksOf
  <2>3. Covers({}, 0)
    BY DEF Covers
  <2>. QED BY <2>1, <2>2, <2>3 DEF Whole
<1>2. ASSUME NEW p \in Workers PROVE Traced(p)
  BY DEF Init, Idle, Traced, Outside
<1>. QED BY <1>1, <1>2 DEF Accounted

LEMMA NextAccounted == Inv /\ Inv' /\ Accounted /\ [Next]_vars => Accounted'
<1> SUFFICES ASSUME Inv, Inv', Accounted, [Next]_vars PROVE Accounted'
  OBVIOUS
<1>1. Requests \subseteq Workers /\ Sweeper \in Workers
  BY DEF Workers
<1>2. ASSUME NEW r \in Requests, Request(r) PROVE Accounted'
  BY <1>1, <1>2, CalmAccounted, LoadAccounted, RetryAccounted, ReserveAccounted,
     ChunkAccounted, RecordAccounted, SaveChunkAccounted, SaveFinalizedAccounted
     DEF Request
<1>3. CASE Sweep
  BY <1>1, <1>3, OutsideAccounted, CalmAccounted, LoadAccounted, RemovalAccounted DEF Sweep
<1>4. ASSUME NEW r \in Requests, NEW s \in Sessions,
             \/ \E op \in Ops \ {"chunk"} : Begin(r, op, s, NoChunk)
             \/ \E c \in Chunks : Begin(r, "chunk", s, c)
      PROVE  Accounted'
  BY <1>4, OutsideAccounted DEF Ops
<1>. QED BY <1>1, <1>2, <1>3, <1>4, RemovalAccounted, CalmAccounted, EnvironmentAccounted
         DEF Next

\* What upload_chunk acknowledged is kept: until somebody removes the session's
\* chunks, the rows below the offset are the bytes below it, and name stored
\* versions of them, whatever was retried, lost, or done without the lock.
THEOREM AcknowledgedStays == Spec => []AckedIsKept
<1>1. Init => Inv /\ Accounted
  BY InitKeeps, InitAccounted
<1>2. Inv /\ Accounted /\ [Next]_vars => Inv' /\ Accounted'
  BY NextKeeps, NextAccounted
<1>3. Inv /\ Accounted => AckedIsKept
  <2> SUFFICES ASSUME Inv, Accounted, NEW s \in Sessions \ Legacy, s \notin erased,
                      row[s].rev # 0
               PROVE  Whole(s) /\ \A x \in Kept(s) : x.refs \subseteq stored
                                                      /\ \A v \in x.refs : v.chunk = x.chunk
    BY DEF AckedIsKept, Whole, Kept
  <2>1. s \notin tombs
    BY DEF Inv, Tables, NoRow
  <2>. QED BY <2>1 DEF Accounted, Live, Whole, Kept
<1>. QED BY <1>1, <1>2, <1>3, PTL DEF Spec

-----------------------------------------------------------------------------
(* What is cleaned is clean. *)

\* A version is sent once: one that a row named, or that a worker has found, is
\* not on its way, and none is sent again.
Once ==
    /\ stored \cap flying = {} /\ named \cap flying = {}
    /\ \A v \in stored \cup flying \cup named : v.n > left.puts
    /\ \A s \in Sessions : \A x \in chunkRows[s] : x.refs \subseteq named
    /\ \A p \in Workers : \A v \in call[p].put : v \notin flying /\ v.n > left.puts

\* A session nobody has touched without its lock.
Safe(s) == s \in Sessions \ Legacy /\ s \notin unlocked

HasRow(s, c) == \E x \in chunkRows[s] : x.chunk = c
Removed(s, c) == \E w \in named \ Leftover(s) : w.s = s /\ w.chunk = c

\* Every version still there is of a chunk that has a row, or of one of which a
\* version was recorded and removed.
Listed(s) ==
    /\ \A x \in chunkRows[s] :
          /\ \A v \in x.refs : v.chunk = x.chunk
          /\ \A y \in chunkRows[s] : x.chunk.start = y.chunk.start => x = y
    /\ \A v \in Leftover(s) : HasRow(s, v.chunk) \/ Removed(s, v.chunk)

\* A worker whose removal has been through the rows.
Emptied(c) ==
    \/ c.at \in {"rows", "erase"} /\ c.why \in {"abort_again", "expire_again"}
    \/ c.at \in {"forget", "drop"} /\ c.why \in {"abort_again", "expire_again", "sweep"}

\* Where the worker of a session is: what it sends has a row, what it removes is
\* what the rows name, and it deletes a session it has cleaned.
Clears(p) ==
    LET c == call[p]
    IN  Safe(c.s) =>
           /\ c.at \in {"put", "sent", "record"} => HasRow(c.s, c.chunk)
           /\ c.at = "record" => \A v \in c.put : v.chunk = c.chunk
           /\ c.at = "erase" =>
                 \A x \in chunkRows[c.s] :
                    x.refs # {} /\ \A v \in x.refs : v \in c.put \/ v \notin stored
           /\ Emptied(c) => chunkRows[c.s] = {}

Cleanable ==
    /\ Once
    /\ \A s \in Sessions : Safe(s) => Listed(s)
    /\ \A p \in Workers : Clears(p)

\* A step that sends nothing: what it finds or reads was sent once already.
LEMMA OnceStays ==
    ASSUME Inv, Inv', Once, left'.puts = left.puts,
           flying' \subseteq flying, stored' \subseteq stored \cup flying,
           stored' \cap flying' = {},
           \A v \in named' : v \in named \/ \E p \in Workers : v \in call[p].put,
           \A p \in Workers : call'[p].put \subseteq call[p].put \cup stored \cup named,
           \A s \in Sessions : \A x \in chunkRows'[s] : x.refs \subseteq named'
    PROVE  Once'
<1>1. named' \cap flying' = {} /\ \A v \in stored' \cup flying' \cup named' : v.n > left'.puts
  BY DEF Once
<1>2. ASSUME NEW p \in Workers, NEW v \in call'[p].put PROVE v \notin flying' /\ v.n > left'.puts
  BY DEF Once
<1>. QED BY <1>1, <1>2 DEF Once

\* The PUT that is sent has a number of its own.
LEMMA SendOnce ==
    ASSUME Inv, Once, NEW r \in Requests, Send(r)
    PROVE  /\ Once' /\ \E v \in Version : /\ flying' = flying \cup {v} /\ v \notin named
                                          /\ v.s = S(r) /\ v.chunk = call[r].chunk
<1>1. r \in Workers /\ call[r].at = "put" /\ Goto(r, "sent")
      /\ UNCHANGED <<chunkRows, stored, named>>
  BY DEF Workers, Send, At, database, history
<1>2. call[r] \in CallType /\ S(r) \in Sessions /\ Fit(r) /\ r # Sweeper
  BY <1>1, AtFacts, ResumableConstants DEF Outside
<1>3. left.puts \in 1..MaxPuts /\ left'.puts = left.puts - 1
  BY <1>1, ResumableConstants DEF Send, Spend, Inv, Typed, LeftType
<1> DEFINE v == [s |-> S(r), chunk |-> call[r].chunk, n |-> left.puts]
<1>4. flying' = flying \cup {v} /\ v.n = left.puts /\ v.s = S(r) /\ v.chunk = call[r].chunk
  BY DEF Send
<1>5. v \in Version
  BY <1>1, <1>2, <1>3 DEF Fit, Version
<1>6. call'[r].put = call[r].put /\ \A p \in Workers \ {r} : call'[p] = call[p]
  BY <1>1, MovedFacts DEF Steps
<1> HIDE DEF v
<1>7. \A w \in Version : w.n \in Nat
  BY ResumableConstants DEF Version
<1>8. \A w \in Version : w.n > left.puts => w.n > left'.puts /\ w # v
  BY <1>3, <1>4, <1>7
<1>9. v.n > left'.puts
  BY <1>3, <1>4
<1>10. \A p \in Workers : call[p].put \subseteq Version
  BY DEF Inv, Typed, CallType
<1>11. /\ v \notin stored \cup named /\ \A p \in Workers : v \notin call[p].put
       /\ \A w \in stored \cup flying \cup named : w.n > left'.puts
       /\ \A p \in Workers : \A w \in call[p].put : w.n > left'.puts
  BY <1>8, <1>10 DEF Once, Inv, Typed
<1>12. Once'
  <2>1. stored' \cap flying' = {} /\ named' \cap flying' = {}
    BY <1>1, <1>4, <1>11 DEF Once
  <2>2. \A w \in stored' \cup flying' \cup named' : w.n > left'.puts
    BY <1>1, <1>4, <1>9, <1>11
  <2>3. \A p \in Workers : call'[p].put = call[p].put
    BY <1>6
  <2>4. \A p \in Workers : \A w \in call'[p].put : w \notin flying' /\ w.n > left'.puts
    BY <1>4, <1>11, <2>3 DEF Once
  <2>. QED BY <1>1, <2>1, <2>2, <2>4 DEF Once
<1>. QED BY <1>4, <1>5, <1>11, <1>12

\* A worker comes by a version only by finding it or reading its row.
LEMMA PutsOf ==
    ASSUME Inv, Once, NEW q \in Workers,
           \/ End(q) \/ (\E step \in Steps : Goto(q, step))
           \/ (\E why \in Purposes : Discard(q, why))
           \/ Load(q) \/ Found(q) \/ ReadRows(q) \/ \E v \in call[q].put : EraseVersion(q, v)
    PROVE  \A p \in Workers : call'[p].put \subseteq call[p].put \cup stored \cup named
<1>1. call \in [Workers -> CallType] /\ call[q] \in CallType
  BY DEF Inv, Typed
<1>2. ASSUME \A p \in Workers \ {q} : call'[p] = call[p],
             call'[q].put \subseteq call[q].put \cup stored \cup named
      PROVE  \A p \in Workers : call'[p].put \subseteq call[p].put \cup stored \cup named
  BY <1>2
<1>3. CASE \/ End(q) \/ (\E step \in Steps : Goto(q, step))
           \/ \E why \in Purposes : Discard(q, why)
  BY <1>2, <1>3, MovedFacts
<1>4. CASE Load(q)
  <2>1. CASE End(q)
    BY <1>3, <2>1
  <2>2. CASE ~End(q)
    <3>1. call'[q].put = call[q].put /\ \A p \in Workers \ {q} : call'[p] = call[p]
      BY <1>1, <1>4, <2>2 DEF Load, CallType
    <3>. QED BY <1>2, <3>1
  <2>. QED BY <2>1, <2>2
<1>5. CASE Found(q)
  <2>1. PICK v \in stored : call' = [call EXCEPT ![q].at = "record", ![q].put = {v}]
    BY <1>5 DEF Found, Same
  <2>2. call'[q].put = {v} /\ \A p \in Workers \ {q} : call'[p] = call[p]
    BY <1>1, <2>1 DEF CallType
  <2>. QED BY <1>2, <2>2
<1>6. CASE ReadRows(q)
  <2>1. S(q) \in Sessions
    BY <1>6, AtFacts DEF ReadRows, At, Outside
  <2>2. CASE Settled(S(q))
    <3>1. /\ call'[q].put = UNION {x.refs : x \in chunkRows[S(q)]}
          /\ \A p \in Workers \ {q} : call'[p] = call[p]
      BY <1>1, <1>6, <2>2 DEF ReadRows, CallType
    <3>2. UNION {x.refs : x \in chunkRows[S(q)]} \subseteq named
      BY <2>1 DEF Once
    <3>. QED BY <1>2, <3>1, <3>2
  <2>3. CASE ~Settled(S(q))
    <3>1. call[q].why \in Purposes
      BY <1>1 DEF CallType
    <3>2. \/ End(q) \/ (\E step \in Steps : Goto(q, step))
          \/ \E why \in Purposes : Discard(q, why)
      BY <1>6, <2>3, <3>1 DEF ReadRows, NotRemoved, After, Steps, Purposes
    <3>. QED BY <1>3, <3>2
  <2>. QED BY <2>2, <2>3
<1>7. ASSUME NEW v \in call[q].put, EraseVersion(q, v)
      PROVE  \A p \in Workers : call'[p].put \subseteq call[p].put \cup stored \cup named
  BY <1>1, <1>2, <1>7 DEF EraseVersion, CallType
<1>. QED BY <1>3, <1>4, <1>5, <1>6, <1>7

\* A step that leaves rows, versions and PUTs.
LEMMA StillOnce ==
    ASSUME Inv, Inv', Once, UNCHANGED <<chunkRows, stored, flying, named>>,
           left'.puts = left.puts,
           \A p \in Workers : call'[p].put \subseteq call[p].put \cup stored \cup named
    PROVE  Once'
<1>1. /\ stored' \cap flying' = {} /\ \A s \in Sessions : \A x \in chunkRows'[s] : x.refs \subseteq named'
  BY DEF Once
<1>. QED BY <1>1, OnceStays

LEMMA RequestOnce ==
    ASSUME Inv, Inv', Once, NEW r \in Requests, Request(r)
    PROVE  Once'
<1>1. r \in Workers /\ call[r].why \in Purposes /\ call[r] \in CallType
  BY DEF Workers, Inv, Typed, CallType
<1>2. CASE Send(r)
  BY <1>2, SendOnce
<1>3. CASE Reserve(r)
  <2>1. End(r) \/ \E step \in Steps : Goto(r, step)
    BY <1>3 DEF Reserve, Steps
  <2>2. \A s \in Sessions : \A x \in chunkRows'[s] : x.refs \subseteq named'
    BY <1>3 DEF Reserve, Once, Inv, Typed, history
  <2>3. UNCHANGED <<stored, flying, named, left>>
    BY <1>3 DEF Reserve, provider, history
  <2>. QED BY <1>1, <2>1, <2>2, <2>3, PutsOf, OnceStays DEF Once
<1>4. CASE Record(r)
  <2>1. \E step \in Steps : Goto(r, step)
    BY <1>4 DEF Record, Steps
  <2>2. named' = named \cup call[r].put /\ UNCHANGED <<stored, flying, left>>
    BY <1>4 DEF Record, provider
  <2>3. ASSUME NEW s \in Sessions, NEW x \in chunkRows'[s] PROVE x.refs \subseteq named'
    <3>1. CASE s # S(r)
      BY <1>4, <2>2, <2>3, <3>1 DEF Record, Once, Inv, Typed
    <3>2. CASE s = S(r)
      <4>1. PICK y \in chunkRows[s] :
               x = IF y.chunk.start = call[r].chunk.start
                   THEN [y EXCEPT !.refs = call[r].put] ELSE y
        BY <1>4, <2>3, <3>2 DEF Record, Inv, Typed
      <4>2. y = [chunk |-> y.chunk, refs |-> y.refs] /\ y.refs \subseteq named
        BY ChunkTypes DEF Inv, Once
      <4>. QED BY <2>2, <4>1, <4>2
    <3>. QED BY <3>1, <3>2
  <2>4. \A v \in named' : v \in named \/ \E p \in Workers : v \in call[p].put
    BY <1>1, <2>2
  <2>. QED BY <1>1, <2>1, <2>2, <2>3, <2>4, PutsOf, OnceStays DEF Once
<1>5. CASE ~Send(r) /\ ~Reserve(r) /\ ~Record(r)
  <2>1. UNCHANGED <<chunkRows, stored, flying, named, left>>
    BY <1>5 DEF Request, Lock, Load, Refused, Retry, Found, Accepted, Unresolved, SaveChunk,
                Replay, Hash, Promote, References, SaveFinalized, Receipt, Abort,
                database, provider, history
  <2>2. \/ End(r) \/ (\E step \in Steps : Goto(r, step))
        \/ (\E why \in Purposes : Discard(r, why))
        \/ Load(r) \/ Found(r)
    BY <1>5 DEF Request, Lock, Refused, Retry, Accepted, Unresolved, SaveChunk,
                Replay, Hash, Promote, References, SaveFinalized, Receipt, Abort, Steps, Purposes
  <2>. QED BY <1>1, <2>1, <2>2, PutsOf, StillOnce
<1>. QED BY <1>2, <1>3, <1>4, <1>5

LEMMA RemovalOnce ==
    ASSUME Inv, Inv', Once, NEW p \in Workers, Removal(p)
    PROVE  Once'
<1>1. call[p].why \in Purposes
  BY DEF Inv, Typed, CallType
<1>2. /\ flying' = flying /\ stored' \subseteq stored /\ named' = named /\ left' = left
      /\ \A s \in Sessions : chunkRows'[s] = chunkRows[s] \/ chunkRows'[s] = {}
  BY DEF Removal, ReadRows, EraseVersion, EraseRows, EraseLegacy, Forget, Drop,
         database, provider, history, Inv, Typed
<1>3. \/ End(p) \/ (\E step \in Steps : Goto(p, step))
      \/ (\E why \in Purposes : Discard(p, why))
      \/ ReadRows(p) \/ \E v \in call[p].put : EraseVersion(p, v)
  BY <1>1 DEF Removal, EraseRows, EraseLegacy, Forget, Drop, After, Steps, Purposes
<1>4. \A q \in Workers : call'[q].put \subseteq call[q].put \cup stored \cup named
  BY <1>3, PutsOf
<1>5. /\ \A s \in Sessions : \A x \in chunkRows'[s] : x.refs \subseteq named'
      /\ stored' \cap flying' = {}
  BY <1>2 DEF Once
<1>. QED BY <1>2, <1>4, <1>5, OnceStays

LEMMA NextOnce ==
    ASSUME Inv, Inv', Once, [Next]_vars
    PROVE  Once'
<1>1. Requests \subseteq Workers /\ Sweeper \in Workers /\ call \in [Workers -> CallType]
      /\ Idle.put = {}
  BY IdleTyped DEF Workers, Inv, Typed
<1>2. ASSUME UNCHANGED <<chunkRows, stored, flying, named>>, left'.puts = left.puts,
             NEW q \in Workers, \A p \in Workers \ {q} : call'[p] = call[p],
             call'[q].put \subseteq call[q].put
      PROVE  Once'
  BY <1>2, StillOnce
<1>3. CASE Sweep /\ ~Removal(Sweeper)
  <2>1. UNCHANGED <<chunkRows, stored, flying, named, left>>
    BY <1>3 DEF Sweep, Lock, Load, DropFinals, Select, Check, Visit, Swept,
                database, provider, history
  <2>2. CASE Lock(Sweeper) \/ Load(Sweeper) \/ DropFinals(Sweeper)
    <3>1. \/ End(Sweeper) \/ Load(Sweeper) \/ \E step \in Steps : Goto(Sweeper, step)
      BY <2>2 DEF Lock, DropFinals, Steps
    <3>. QED BY <1>1, <2>1, <3>1, PutsOf, StillOnce
  <2>3. CASE Select \/ Swept \/ \E s \in Sessions : Check(s)
    <3>1. /\ call'[Sweeper].put \subseteq call[Sweeper].put
          /\ \A p \in Workers \ {Sweeper} : call'[p] = call[p]
      <4>1. CASE Select
        BY <1>1, <4>1 DEF Select, CallType
      <4>2. CASE Swept
        BY <1>1, <4>2 DEF Swept
      <4>3. ASSUME NEW s \in Sessions, Check(s)
            PROVE  /\ call'[Sweeper].put \subseteq call[Sweeper].put
                   /\ \A p \in Workers \ {Sweeper} : call'[p] = call[p]
        BY <1>1, <4>3 DEF Check, Visit, Idle
      <4>. QED BY <2>3, <4>1, <4>2, <4>3
    <3>. QED BY <1>1, <1>2, <2>1, <3>1
  <2>. QED BY <1>3, <2>2, <2>3 DEF Sweep
<1>4. ASSUME NEW r \in Requests, NEW s \in Sessions, NEW op \in Ops, NEW c \in Chunks \cup {NoChunk},
             Begin(r, op, s, c)
      PROVE  Once'
  <2>1. left'.puts = left.puts
    BY <1>4 DEF Begin, Spend, Inv, Typed, LeftType
  <2>2. UNCHANGED <<chunkRows, stored, flying, named>>
    BY <1>4 DEF Begin, database, provider, history
  <2>3. call'[r].put = {} /\ \A p \in Workers \ {r} : call'[p] = call[p]
    BY <1>1, <1>4 DEF Begin, Idle
  <2>. QED BY <1>1, <1>2, <2>1, <2>2, <2>3
<1>5. ASSUME NEW p \in Workers, Fail(p) \/ RemoveFails(p)
      PROVE  Once'
  <2>1. left'.puts = left.puts
    BY <1>5 DEF Fail, RemoveFails, Spend, Inv, Typed, LeftType
  <2>2. UNCHANGED <<chunkRows, stored, flying, named>>
    BY <1>5 DEF Fail, RemoveFails, database, provider, history
  <2>3. \/ End(p) \/ (\E step \in Steps : Goto(p, step))
        \/ \E why \in Purposes : Discard(p, why)
    BY <1>5 DEF Fail, RemoveFails, NotRemoved, After, Steps, Purposes
  <2>. QED BY <2>1, <2>2, <2>3, PutsOf, StillOnce
<1>6. CASE \/ \E s \in Sessions : CreateSession(s) \/ Expire(s)
           \/ \E p \in Workers : LoseLock(p)
           \/ UNCHANGED vars
  <2>1. left'.puts = left.puts
    BY <1>6 DEF CreateSession, Expire, LoseLock, vars, Spend, Inv, Typed, LeftType
  <2>2. UNCHANGED <<chunkRows, stored, flying, named, call>>
    BY <1>6 DEF CreateSession, Expire, LoseLock, vars, database, provider, history
  <2>. QED BY <1>1, <1>2, <2>1, <2>2
<1>7. CASE Restart
  <2>1. left'.puts = left.puts
    BY <1>7 DEF Restart, Spend, Inv, Typed, LeftType
  <2>2. UNCHANGED <<chunkRows, stored, flying, named>>
    BY <1>7 DEF Restart, database, provider, history
  <2>3. \A p \in Workers : call'[p].put = {}
    BY <1>1, <1>7 DEF Restart
  <2>. QED BY <2>1, <2>2, <2>3, StillOnce
<1>8. ASSUME NEW v \in flying, Land(v) \/ Lose(v)
      PROVE  Once'
  <2>1. /\ UNCHANGED <<chunkRows, named, call, left>>
        /\ flying' = flying \ {v} /\ (stored' = stored \/ stored' = stored \cup {v})
    BY <1>8 DEF Land, Lose, database, history
  <2>. QED BY <2>1, OnceStays DEF Once
<1>. QED BY <1>1, <1>3, <1>4, <1>5, <1>6, <1>7, <1>8, RequestOnce, RemovalOnce DEF Next, Ops

\* A session's rows stay, and no version comes.
LEMMA SameListed ==
    ASSUME Cleanable, NEW t \in Sessions, Safe(t), chunkRows'[t] = chunkRows[t],
           Leftover(t)' \subseteq Leftover(t), named \subseteq named'
    PROVE  Listed(t)'
<1>1. Listed(t)
  BY DEF Cleanable
<1>2. \A c : HasRow(t, c) => HasRow(t, c)'
  BY DEF HasRow
<1>3. \A c : Removed(t, c) => Removed(t, c)'
  BY DEF Removed
<1>. QED BY <1>1, <1>2, <1>3 DEF Listed

\* A worker changes the rows of no session but its own.
Touches(q) ==
    \/ chunkRows' = chunkRows
    \/ call[q].at \notin Outside /\ \A t \in Sessions \ {S(q)} : chunkRows'[t] = chunkRows[t]

\* What a worker counts on stays, if another one moves: while the lock holds
\* they are not at the same session.
LEMMA ClearsStays ==
    ASSUME Inv, Inv', Cleanable, NEW p \in Workers, NEW q \in Workers \ {p},
           call'[p] = call[p], Touches(q), unlocked \subseteq unlocked',
           stored' \subseteq stored \cup flying
    PROVE  Clears(p)'
<1> DEFINE c == call[p]
<1> SUFFICES ASSUME Safe(c.s)', c.at \notin Outside PROVE Clears(p)'
  BY DEF Clears, Emptied, Outside
<1>1. Clears(p) /\ Safe(c.s) /\ c.s \in Sessions /\ c.s = S(p)
  BY DEF Cleanable, Safe, S
<1>2. chunkRows'[c.s] = chunkRows[c.s]
  <2>1. holder[S(p)] = p
    BY <1>1 DEF Inv, Sound, Held, Safe
  <2>2. call[q].at \notin Outside => S(q) # S(p)
    BY <1>1, <2>1 DEF Inv, Sound, Held, Safe
  <2>. QED BY <1>1, <2>2 DEF Touches
<1>3. \A x \in chunkRows[c.s] : \A v \in x.refs : v \notin flying
  BY <1>1 DEF Cleanable, Once
<1>4. \A x \in chunkRows[c.s] : \A v \in x.refs : v \notin stored => v \notin stored'
  BY <1>3
<1>5. HasRow(c.s, c.chunk) => HasRow(c.s, c.chunk)'
  BY <1>2 DEF HasRow
<1>. QED BY <1>1, <1>2, <1>4, <1>5 DEF Clears

\* So a step is looked at from its session's and its worker's side.
LEMMA CleanableStays ==
    ASSUME Inv, Inv', Cleanable, Once', NEW q \in Workers,
           \A p \in Workers \ {q} : call'[p] = call[p], Touches(q), unlocked \subseteq unlocked',
           stored' \subseteq stored \cup flying,
           \A t \in Sessions : Safe(t)' => Listed(t)', Clears(q)'
    PROVE  Cleanable'
<1>1. \A p \in Workers \ {q} : Clears(p)'
  BY ClearsStays
<1>. QED BY <1>1 DEF Cleanable

\* A step that leaves the rows and brings no version.
Still == /\ chunkRows' = chunkRows /\ named' = named /\ unlocked \subseteq unlocked'
         /\ stored' \subseteq stored \cup flying /\ flying' \subseteq flying

LEMMA StillListed ==
    ASSUME Inv, Cleanable, Still
    PROVE  \A t \in Sessions : Safe(t)' => Listed(t)' /\ Safe(t)
<1> SUFFICES ASSUME NEW t \in Sessions, Safe(t)' PROVE Listed(t)' /\ Safe(t)
  OBVIOUS
<1>1. Safe(t)
  BY DEF Safe, Still
<1>2. Leftover(t)' \subseteq Leftover(t)
  BY DEF Leftover, Still
<1>. QED BY <1>1, <1>2, SameListed DEF Still

\* A worker that counts on no row.
Harmless(c) == c.at \notin {"put", "sent", "record", "erase"} /\ ~Emptied(c)

LEMMA HarmlessCleanable ==
    ASSUME Inv, Inv', Cleanable, Once', NEW q \in Workers,
           \A p \in Workers \ {q} : call'[p] = call[p], Still,
           Safe(S(q))' => Harmless(call'[q])
    PROVE  Cleanable'
<1>1. Clears(q)'
  BY DEF Clears, Harmless, S
<1>2. Touches(q) /\ unlocked \subseteq unlocked' /\ stored' \subseteq stored \cup flying
  BY DEF Still, Touches
<1>. QED BY <1>1, <1>2, StillListed, CleanableStays

\* A worker ends, or goes on behind its lock to a step that counts on no row.
LEMMA EndCleanable ==
    ASSUME Inv, Inv', Cleanable, Once', NEW q \in Workers, Still,
           \/ End(q)
           \/ \E step \in {"load", "promote", "references", "receipt", "save", "finals"} :
                 Goto(q, step)
           \/ \E why \in {"abort", "mismatch", "finish"} : Discard(q, why)
    PROVE  Cleanable'
<1>1. /\ \A p \in Workers \ {q} : call'[p] = call[p]
      /\ Harmless(call'[q])
  BY MovedFacts DEF Harmless, Emptied, Outside, Steps, Purposes
<1>. QED BY <1>1, HarmlessCleanable

LEMMA LoadCleanable ==
    ASSUME Inv, Inv', Cleanable, Once', NEW p \in Workers, Load(p)
    PROVE  Cleanable'
<1>1. Still
  BY DEF Still, Load, database, provider, history
<1>2. CASE End(p)
  BY <1>1, <1>2, EndCleanable
<1>3. CASE ~End(p)
  <2>1. /\ call'[p].s = S(p) /\ \A q \in Workers \ {p} : call'[q] = call[q]
        /\ \/ call'[p].at = "ready"
           \/ call'[p].at = "rows" /\ call'[p].why \in {"sweep", "expire"}
           \/ call'[p].at = "forget" /\ call'[p].why = "expire"
           \/ call'[p].at = "forget" /\ ~Staged(S(p))
    BY <1>3 DEF Load, Inv, Typed, CallType, S
  <2>2. Safe(S(p))' => Staged(S(p))
    BY <2>1 DEF Safe, Staged, S
  <2>. QED BY <1>1, <2>1, <2>2, HarmlessCleanable DEF Harmless, Emptied
<1>. QED BY <1>2, <1>3

\* Where a removal, done or given up, leaves its worker.
LEMMA AfterLeads ==
    ASSUME Inv, NEW p \in Workers, After(p)
    PROVE  /\ call'[p].at \in {"rows", "receipt", "forget", "drop"} /\ call'[p].s = call[p].s
           /\ call[p].why \in {"finish", "abort_again", "mismatch"} =>
                 /\ call'[p].at \in {"receipt", "drop"}
                 /\ call'[p].at = "drop" => /\ call'[p].why = call[p].why
                                            /\ call[p].why \in {"abort_again", "mismatch"}
           /\ \A q \in Workers \ {p} : call'[q] = call[q]
<1>1. call[p].why \in Purposes
  BY DEF Inv, Typed, CallType
<1>2. CASE call[p].why \in {"abort", "expire"}
  BY <1>2, MovedFacts DEF After, Purposes
<1>3. CASE call[p].why \in {"finish", "sweep", "expire_again", "abort_again", "mismatch"}
  BY <1>3, MovedFacts DEF After, Steps
<1>. QED BY <1>1, <1>2, <1>3 DEF Purposes

\* Where no row is left there is nothing to count on.
LEMMA EmptyClears ==
    ASSUME NEW q \in Workers, NEW s \in Sessions, call'[q].s = s, chunkRows'[s] = {},
           call'[q].at \notin {"put", "sent", "record"}
    PROVE  Clears(q)'
BY DEF Clears

\* A removal that is given up: only an abort's second attempt goes on to delete
\* the session, and the first one has left no row.
LEMMA GivenUp ==
    ASSUME Inv, Inv', Cleanable, Once', NEW p \in Workers, call[p].at \in {"rows", "erase"},
           NotRemoved(p), Still
    PROVE  Cleanable'
<1>1. CASE End(p)
  BY <1>1, EndCleanable
<1>2. CASE call[p].why \in {"finish", "abort_again", "mismatch"} /\ After(p)
  <2>1. /\ call'[p].at \in {"receipt", "drop"} /\ call'[p].s = call[p].s
        /\ call'[p].at = "drop" => /\ call'[p].why = call[p].why
                                   /\ call[p].why \in {"abort_again", "mismatch"}
        /\ \A q \in Workers \ {p} : call'[q] = call[q]
    BY <1>2, AfterLeads
  <2>2. CASE Harmless(call'[p])
    BY <2>1, <2>2, HarmlessCleanable
  <2>3. CASE call[p].why = "abort_again"
    <3>1. Clears(p)'
      <4>1. PICK s \in Sessions : s = call[p].s /\ s = call'[p].s
        BY <2>1, AtFacts DEF Outside
      <4>2. Safe(s) => chunkRows[s] = {}
        BY <2>3, <4>1 DEF Cleanable, Clears, Emptied
      <4>3. Safe(s)' => chunkRows'[s] = {}
        BY <4>2 DEF Safe, Still
      <4>. QED BY <2>1, <4>1, <4>3 DEF Clears
    <3>2. Touches(p) /\ unlocked \subseteq unlocked' /\ stored' \subseteq stored \cup flying
      BY DEF Still, Touches
    <3>. QED BY <2>1, <3>1, <3>2, StillListed, CleanableStays
  <2>. QED BY <2>1, <2>2, <2>3 DEF Harmless, Emptied
<1>. QED BY <1>1, <1>2 DEF NotRemoved

\* The steps of a request that leave rows and versions.
LEMMA PlainCleanable ==
    ASSUME Inv, Inv', Cleanable, Once', NEW p \in Workers,
           \/ Lock(p) \/ Refused(p) \/ Unresolved(p) \/ Retry(p) \/ Accepted(p) \/ SaveChunk(p)
           \/ Replay(p) \/ Hash(p) \/ Promote(p) \/ References(p) \/ SaveFinalized(p)
           \/ Receipt(p) \/ Abort(p) \/ DropFinals(p) \/ Fail(p) \/ RemoveFails(p)
    PROVE  Cleanable'
<1>1. Still
  BY DEF Still, Lock, Refused, Unresolved, Retry, Accepted, SaveChunk, Replay, Hash, Promote,
         References, SaveFinalized, Receipt, Abort, DropFinals, Fail, RemoveFails,
         database, provider, history
<1>2. CASE ~RemoveFails(p)
  <2>1. \/ End(p)
        \/ \E step \in {"load", "promote", "references", "receipt", "save", "finals"} :
              Goto(p, step)
        \/ \E why \in {"abort", "mismatch", "finish"} : Discard(p, why)
    BY <1>2 DEF Lock, Refused, Unresolved, Retry, Accepted, SaveChunk, Replay, Hash, Promote,
                References, SaveFinalized, Receipt, Abort, DropFinals, Fail
  <2>. QED BY <1>1, <2>1, EndCleanable
<1>3. CASE RemoveFails(p)
  BY <1>1, <1>3, GivenUp DEF RemoveFails, At
<1>. QED BY <1>2, <1>3

LEMMA OutsideCleanable ==
    ASSUME Inv, Inv', Cleanable, Once',
           \/ \E r \in Requests, s \in Sessions, op \in Ops, c \in Chunks \cup {NoChunk} :
                 Begin(r, op, s, c)
           \/ Select \/ Swept \/ \E s \in Sessions : Check(s)
    PROVE  Cleanable'
<1>1. Still
  BY DEF Still, Begin, Select, Swept, Check, Visit, database, provider, history
<1>2. PICK q \in Workers : /\ call'[q].at \in Outside
                           /\ \A p \in Workers \ {q} : call'[p] = call[p]
  BY OutsideMoves
<1>. QED BY <1>1, <1>2, HarmlessCleanable DEF Harmless, Emptied, Outside

\* What is sent has a row: it is reserved first.
LEMMA ReserveCleanable ==
    ASSUME Inv, Inv', Cleanable, Once', NEW r \in Requests, Reserve(r)
    PROVE  Cleanable'
<1>1. /\ r \in Workers /\ call[r].at = "ready" /\ call[r].at \notin Outside
      /\ UNCHANGED <<stored, flying, named, unlocked>>
  BY DEF Workers, Reserve, At, Outside, provider, history
<1>2. PICK s \in Sessions : s = S(r) /\ s = call[r].s
  BY <1>1, AtFacts
<1> DEFINE c == call[r].chunk
<1>3. CASE End(r) /\ UNCHANGED chunkRows
  BY <1>1, <1>3, EndCleanable DEF Still
<1>4. CASE Goto(r, "put")
  <2>1. /\ call'[r].at = "put" /\ call'[r].s = s /\ call'[r].chunk = c
        /\ \A p \in Workers \ {r} : call'[p] = call[p]
    BY <1>1, <1>2, <1>4, MovedFacts DEF Steps
  <2>2. /\ \A t \in Sessions \ {s} : chunkRows'[t] = chunkRows[t]
        /\ Staged(s) => /\ CanReserve(s, c)
                        /\ chunkRows'[s] = IF RowAt(s, c.start) = {}
                                           THEN chunkRows[s] \cup {[chunk |-> c, refs |-> {}]}
                                           ELSE chunkRows[s]
    <3>1. chunkRows \in [Sessions -> SUBSET ChunkRow]
      BY DEF Inv, Typed
    <3>2. ~End(r)
      <4>1. End(r) => call'[r].at \in Outside
        BY <1>1, MovedFacts
      <4>. QED BY <2>1, <4>1 DEF Outside
    <3>. QED BY <1>2, <3>1, <3>2 DEF Reserve
  <2>3. ASSUME NEW t \in Sessions \ {s}, Safe(t)' PROVE Listed(t)'
    <3>1. Safe(t) /\ Leftover(t)' \subseteq Leftover(t)
      BY <1>1, <2>3 DEF Safe, Leftover
    <3>2. chunkRows'[t] = chunkRows[t] /\ named \subseteq named'
      BY <1>1, <2>2, <2>3
    <3>. QED BY <3>1, <3>2, SameListed
  <2>4. ASSUME Safe(s)' PROVE Listed(s)' /\ HasRow(s, c)'
    <3>1. Safe(s) /\ Leftover(s)' = Leftover(s) /\ Listed(s) /\ Staged(s)
      BY <1>1, <2>4 DEF Safe, Leftover, Cleanable, Staged
    <3>2. CASE RowAt(s, c.start) # {}
      <4>1. chunkRows'[s] = chunkRows[s]
        BY <2>2, <3>1, <3>2
      <4>2. \E x \in chunkRows[s] : x.chunk = c
        BY <2>2, <3>1, <3>2 DEF CanReserve, RowAt
      <4>3. named \subseteq named' /\ Leftover(s)' \subseteq Leftover(s)
        BY <1>1, <3>1
      <4>4. Listed(s)'
        BY <3>1, <4>1, <4>3, SameListed
      <4>. QED BY <2>1, <4>1, <4>2, <4>4 DEF HasRow
    <3>3. CASE RowAt(s, c.start) = {}
      <4> DEFINE new == [chunk |-> c, refs |-> {}]
      <4>1. chunkRows'[s] = chunkRows[s] \cup {new} /\ new.chunk = c /\ new.refs = {}
        BY <2>2, <3>1, <3>3
      <4> HIDE DEF new, c
      <4>2. \A x \in chunkRows'[s] :
               /\ \A v \in x.refs : v.chunk = x.chunk
               /\ \A y \in chunkRows'[s] : x.chunk.start = y.chunk.start => x = y
        BY <3>1, <3>3, <4>1 DEF Listed, RowAt
      <4>3. ASSUME NEW v \in Leftover(s) PROVE HasRow(s, v.chunk)' \/ Removed(s, v.chunk)'
        BY <1>1, <3>1, <4>1 DEF Listed, HasRow, Removed
      <4>4. Listed(s)'
        BY <3>1, <4>2, <4>3 DEF Listed
      <4>5. \E x \in chunkRows'[s] : x.chunk = c
        BY <4>1
      <4>. QED BY <2>1, <4>4, <4>5 DEF HasRow, c
    <3>. QED BY <3>2, <3>3
  <2>5. Clears(r)'
    BY <2>1, <2>4 DEF Clears, Emptied
  <2>. QED BY <1>1, <1>2, <2>1, <2>2, <2>3, <2>4, <2>5, CleanableStays DEF Touches
<1>. QED BY <1>3, <1>4 DEF Reserve

\* A version that is found is of the chunk that was looked for.
LEMMA FoundCleanable ==
    ASSUME Inv, Inv', Cleanable, Once', NEW r \in Requests, Found(r)
    PROVE  Cleanable'
<1>1. r \in Workers /\ call[r].at \in {"put", "sent"} /\ Still
  BY DEF Workers, Found, At, Still, database, provider, history
<1>2. PICK s \in Sessions : s = S(r) /\ s = call[r].s
  BY <1>1, AtFacts DEF Outside
<1>3. PICK v \in Same(r) : call' = [call EXCEPT ![r].at = "record", ![r].put = {v}]
  BY DEF Found
<1>4. /\ call'[r].at = "record" /\ call'[r].put = {v} /\ call'[r].s = s
      /\ call'[r].chunk = call[r].chunk /\ \A p \in Workers \ {r} : call'[p] = call[p]
  <2>1. call \in [Workers -> CallType] /\ call[r] \in CallType
    BY <1>1 DEF Inv, Typed
  <2>. QED BY <1>1, <1>2, <1>3, <2>1 DEF CallType
<1>5. v.chunk = call[r].chunk /\ (Safe(s) => HasRow(s, call[r].chunk))
  BY <1>1, <1>2, <1>3 DEF Same, Cleanable, Clears
<1>6. Safe(s)' => HasRow(s, call[r].chunk)'
  BY <1>1, <1>4, <1>5 DEF Safe, Still, HasRow
<1>7. Clears(r)'
  BY <1>4, <1>5, <1>6 DEF Clears, Emptied
<1>8. Touches(r) /\ unlocked \subseteq unlocked' /\ stored' \subseteq stored \cup flying
  BY <1>1 DEF Still, Touches
<1>. QED BY <1>1, <1>4, <1>7, <1>8, StillListed, CleanableStays

\* So has the PUT that is sent.
LEMMA SendCleanable ==
    ASSUME Inv, Inv', Cleanable, Once', NEW r \in Requests, Send(r)
    PROVE  Cleanable'
<1>1. /\ r \in Workers /\ call[r].at = "put" /\ Goto(r, "sent")
      /\ UNCHANGED <<chunkRows, stored, named, unlocked>>
  BY DEF Workers, Send, At, database, history
<1>2. PICK s \in Sessions : s = S(r) /\ s = call[r].s
  BY <1>1, AtFacts DEF Outside
<1>3. PICK v \in Version : /\ flying' = flying \cup {v} /\ v \notin named
                           /\ v.s = S(r) /\ v.chunk = call[r].chunk
  BY SendOnce DEF Cleanable
<1>4. /\ call'[r].at = "sent" /\ call'[r].s = s /\ call'[r].chunk = call[r].chunk
      /\ \A p \in Workers \ {r} : call'[p] = call[p]
  BY <1>1, <1>2, MovedFacts DEF Steps
<1>5. Safe(s) => HasRow(s, call[r].chunk)
  BY <1>1, <1>2 DEF Cleanable, Clears
<1>6. ASSUME NEW t \in Sessions, Safe(t)' PROVE Listed(t)'
  <2>1. Safe(t) /\ Listed(t)
    BY <1>1, <1>6 DEF Safe, Cleanable
  <2>2. \A w \in Leftover(t)' : w \in Leftover(t) \/ (w = v /\ t = s)
    BY <1>1, <1>2, <1>3 DEF Leftover
  <2>3. named \ Leftover(t)' = named \ Leftover(t)
    BY <1>1, <1>3 DEF Leftover
  <2>4. \A c : HasRow(t, c)' <=> HasRow(t, c)
    BY <1>1 DEF HasRow
  <2>5. \A c : Removed(t, c)' <=> Removed(t, c)
    BY <1>1, <2>3 DEF Removed
  <2>6. \A w \in Leftover(t)' : HasRow(t, w.chunk) \/ Removed(t, w.chunk)
    BY <1>3, <1>5, <2>1, <2>2 DEF Listed
  <2>. QED BY <1>1, <2>1, <2>4, <2>5, <2>6 DEF Listed
<1>7. Safe(s)' => HasRow(s, call[r].chunk)'
  BY <1>1, <1>4, <1>5 DEF Safe, HasRow
<1>8. Clears(r)'
  BY <1>4, <1>7 DEF Clears, Emptied
<1>9. Touches(r)
  BY <1>1 DEF Touches
<1>. QED BY <1>1, <1>4, <1>6, <1>8, <1>9, CleanableStays

\* The row learns a version of its own chunk.
LEMMA RecordCleanable ==
    ASSUME Inv, Inv', Cleanable, Once', NEW r \in Requests, Record(r)
    PROVE  Cleanable'
<1>1. /\ r \in Workers /\ call[r].at = "record" /\ call[r].at \notin Outside /\ Goto(r, "save")
      /\ UNCHANGED <<stored, flying, unlocked>> /\ named' = named \cup call[r].put
  BY DEF Workers, Record, At, Outside, provider
<1>2. PICK s \in Sessions : s = S(r) /\ s = call[r].s
  BY <1>1, AtFacts
<1> DEFINE c == call[r].chunk
           Put(x) == IF x.chunk.start = c.start THEN [x EXCEPT !.refs = call[r].put] ELSE x
<1>3. /\ call'[r].at = "save" /\ \A p \in Workers \ {r} : call'[p] = call[p]
  BY <1>1, MovedFacts DEF Steps
<1>4. /\ \A t \in Sessions \ {s} : chunkRows'[t] = chunkRows[t]
      /\ chunkRows'[s] = {Put(x) : x \in chunkRows[s]}
  BY <1>2 DEF Record, Inv, Typed
<1>5. \A t \in Sessions : Leftover(t)' = Leftover(t) /\ (Safe(t)' => Safe(t))
  BY <1>1 DEF Leftover, Safe
<1>6. ASSUME NEW t \in Sessions \ {s}, Safe(t)' PROVE Listed(t)'
  <2>1. Leftover(t)' \subseteq Leftover(t) /\ Safe(t) /\ chunkRows'[t] = chunkRows[t]
        /\ named \subseteq named'
    BY <1>1, <1>4, <1>5, <1>6
  <2>. QED BY <2>1, SameListed
<1>7. ASSUME Safe(s)' PROVE Listed(s)'
  <2>1. /\ Safe(s) /\ Listed(s) /\ \E x \in chunkRows[s] : x.chunk = c
        /\ \A v \in call[r].put : v.chunk = c
    BY <1>1, <1>2, <1>5, <1>7 DEF Cleanable, Clears, HasRow
  <2>2. ASSUME NEW x \in chunkRows[s]
        PROVE  /\ Put(x).chunk = x.chunk /\ \A v \in Put(x).refs : v.chunk = x.chunk
    <3>1. x = [chunk |-> x.chunk, refs |-> x.refs]
      BY ChunkTypes DEF Inv
    <3>2. x.chunk.start = c.start => x.chunk = c
      BY <2>1 DEF Listed
    <3>3. /\ Put(x).chunk = x.chunk
          /\ Put(x).refs = IF x.chunk.start = c.start THEN call[r].put ELSE x.refs
      BY <3>1
    <3>4. \A v \in x.refs : v.chunk = x.chunk
      BY <2>1 DEF Listed
    <3> HIDE DEF Put, c
    <3>. QED BY <2>1, <3>2, <3>3, <3>4
  <2> HIDE DEF Put, c
  <2>3. \A x \in chunkRows'[s] :
           /\ \A v \in x.refs : v.chunk = x.chunk
           /\ \A y \in chunkRows'[s] : x.chunk.start = y.chunk.start => x = y
    BY <1>4, <2>1, <2>2 DEF Listed
  <2>4. ASSUME NEW v \in Leftover(s)
        PROVE  \/ \E x \in chunkRows'[s] : x.chunk = v.chunk
               \/ \E w \in named' \ Leftover(s) : w.s = s /\ w.chunk = v.chunk
    <3>1. CASE HasRow(s, v.chunk)
      BY <1>4, <2>2, <3>1 DEF HasRow
    <3>2. CASE Removed(s, v.chunk)
      BY <1>1, <3>2 DEF Removed
    <3>. QED BY <2>1, <3>1, <3>2 DEF Listed
  <2>. QED BY <1>5, <2>3, <2>4 DEF Listed, HasRow, Removed
<1>8. Clears(r)'
  BY <1>3 DEF Clears, Emptied
<1>. QED BY <1>1, <1>2, <1>3, <1>4, <1>6, <1>7, <1>8, CleanableStays DEF Touches

\* The rows are read, and each of them names a version.
LEMMA ReadRowsCleanable ==
    ASSUME Inv, Inv', Cleanable, Once', NEW p \in Workers, ReadRows(p)
    PROVE  Cleanable'
<1>1. call[p].at = "rows" /\ Still
  BY DEF ReadRows, At, Still, database, provider, history
<1>2. PICK s \in Sessions : s = S(p) /\ s = call[p].s
  BY <1>1, AtFacts DEF Outside
<1>3. CASE ~Settled(s)
  BY <1>1, <1>2, <1>3, GivenUp DEF ReadRows
<1>4. CASE Settled(s)
  <2>1. /\ call'[p].at = "erase" /\ call'[p].put = UNION {x.refs : x \in chunkRows[s]}
        /\ call'[p].s = s /\ call'[p].why = call[p].why
        /\ \A q \in Workers \ {p} : call'[q] = call[q]
    <3>1. call \in [Workers -> CallType] /\ call[p] \in CallType
      BY DEF Inv, Typed
    <3>. QED BY <1>2, <1>4, <3>1 DEF ReadRows, CallType
  <2>2. \A x \in chunkRows'[s] : x.refs # {} /\ \A v \in x.refs : v \in call'[p].put
    BY <1>1, <1>4, <2>1 DEF Settled, Still
  <2>3. Safe(s)' => (Emptied(call[p]) => chunkRows'[s] = {})
    BY <1>1, <1>2 DEF Safe, Still, Cleanable, Clears
  <2>4. Clears(p)'
    BY <1>1, <2>1, <2>2, <2>3 DEF Clears, Emptied
  <2>5. Touches(p) /\ unlocked \subseteq unlocked' /\ stored' \subseteq stored \cup flying
    BY <1>1 DEF Still, Touches
  <2>. QED BY <2>1, <2>4, <2>5, StillListed, CleanableStays, <1>1
<1>. QED BY <1>3, <1>4

\* One version less to remove.
LEMMA EraseVersionCleanable ==
    ASSUME Inv, Inv', Cleanable, Once', NEW p \in Workers, NEW v \in call[p].put,
           EraseVersion(p, v)
    PROVE  Cleanable'
<1>1. call[p].at = "erase" /\ stored' = stored \ {v} /\ Still
  BY DEF EraseVersion, At, Still, database, history
<1>2. PICK s \in Sessions : s = S(p) /\ s = call[p].s
  BY <1>1, AtFacts DEF Outside
<1>3. /\ call'[p].at = "erase" /\ call'[p].put = call[p].put \ {v}
      /\ call'[p].s = s /\ call'[p].why = call[p].why
      /\ \A q \in Workers \ {p} : call'[q] = call[q]
  <2>1. call \in [Workers -> CallType] /\ call[p] \in CallType
    BY DEF Inv, Typed
  <2>. QED BY <1>1, <1>2, <2>1 DEF EraseVersion, CallType
<1>4. Safe(s)' => /\ \A x \in chunkRows[s] :
                        x.refs # {} /\ \A w \in x.refs : w \in call[p].put \/ w \notin stored
                  /\ Emptied(call[p]) => chunkRows[s] = {}
  BY <1>1, <1>2 DEF Safe, Still, Cleanable, Clears
<1>5. Clears(p)'
  BY <1>1, <1>3, <1>4 DEF Clears, Emptied, Still
<1>6. Touches(p) /\ unlocked \subseteq unlocked' /\ stored' \subseteq stored \cup flying
  BY <1>1 DEF Still, Touches
<1>. QED BY <1>1, <1>3, <1>5, <1>6, StillListed, CleanableStays

\* The rows go once every version they name has gone: of each chunk that had a
\* row a version was recorded and removed.
LEMMA EraseRowsCleanable ==
    ASSUME Inv, Inv', Cleanable, Once', NEW p \in Workers, EraseRows(p)
    PROVE  Cleanable'
<1>1. /\ call[p].at = "erase" /\ call[p].put = {} /\ After(p)
      /\ UNCHANGED <<stored, flying, named, unlocked>>
  BY DEF EraseRows, At, provider, history
<1>2. PICK s \in Sessions : s = S(p) /\ s = call[p].s
  BY <1>1, AtFacts DEF Outside
<1>3. /\ \A t \in Sessions \ {s} : chunkRows'[t] = chunkRows[t]
      /\ chunkRows'[s] = {}
  BY <1>2 DEF EraseRows, Inv, Typed
<1>4. /\ call'[p].at \in {"rows", "receipt", "forget", "drop"} /\ call'[p].s = s
      /\ \A q \in Workers \ {p} : call'[q] = call[q]
  BY <1>1, <1>2, AfterLeads
<1>5. \A t \in Sessions : Leftover(t)' = Leftover(t) /\ (Safe(t)' => Safe(t))
  BY <1>1 DEF Leftover, Safe
<1>6. ASSUME NEW t \in Sessions \ {s}, Safe(t)' PROVE Listed(t)'
  <2>1. Leftover(t)' \subseteq Leftover(t) /\ Safe(t) /\ chunkRows'[t] = chunkRows[t]
        /\ named \subseteq named'
    BY <1>1, <1>3, <1>5, <1>6
  <2>. QED BY <2>1, SameListed
<1>7. ASSUME Safe(s)' PROVE Listed(s)'
  <2>1. /\ Safe(s) /\ Listed(s)
        /\ \A x \in chunkRows[s] : x.refs # {} /\ \A v \in x.refs : v \notin stored
    BY <1>1, <1>2, <1>5, <1>7 DEF Cleanable, Clears
  <2>2. ASSUME NEW x \in chunkRows[s] PROVE Removed(s, x.chunk)
    <3>1. PICK w \in x.refs : w \notin stored
      BY <2>1
    <3>2. w \in named /\ w \notin flying
      BY DEF Cleanable, Once
    <3>3. w.chunk = x.chunk /\ w.s = s
      BY <2>1 DEF Listed, Inv, Typed
    <3>. QED BY <3>1, <3>2, <3>3 DEF Removed, Leftover
  <2>3. \A v \in Leftover(s) : Removed(s, v.chunk)
    BY <2>1, <2>2 DEF Listed, HasRow
  <2>4. \A v \in Leftover(s)' : Removed(s, v.chunk)'
    BY <1>1, <1>5, <2>3 DEF Removed
  <2>. QED BY <1>3, <2>4 DEF Listed
<1>8. Clears(p)'
  BY <1>3, <1>4, EmptyClears
<1>9. call[p].at \notin Outside
  BY <1>1 DEF Outside
<1>. QED BY <1>1, <1>2, <1>3, <1>4, <1>6, <1>7, <1>8, <1>9, CleanableStays DEF Touches

\* A legacy upload is nobody's rows; a session that is cleaned stays so.
LEMMA EndingCleanable ==
    ASSUME Inv, Inv', Cleanable, Once', NEW p \in Workers, EraseLegacy(p) \/ Forget(p) \/ Drop(p)
    PROVE  Cleanable'
<1>1. /\ call[p].at \in {"rows", "forget", "drop"} /\ Still
  BY DEF EraseLegacy, Forget, Drop, At, Still, database, provider, history
<1>2. PICK s \in Sessions : s = S(p) /\ s = call[p].s
  BY <1>1, AtFacts DEF Outside
<1>3. CASE EraseLegacy(p)
  <2>1. call'[p].s = s /\ \A q \in Workers \ {p} : call'[q] = call[q]
    BY <1>2, <1>3, AfterLeads DEF EraseLegacy
  <2>2. ~Safe(S(p))'
    BY <1>2, <1>3, <2>1 DEF EraseLegacy, Staged, Safe, S
  <2>. QED BY <1>1, <2>1, <2>2, HarmlessCleanable
<1>4. CASE Forget(p)
  <2>1. /\ call[p].at = "forget" /\ call'[p].at = "drop" /\ call'[p].s = s
        /\ call'[p].why = call[p].why /\ \A q \in Workers \ {p} : call'[q] = call[q]
    BY <1>2, <1>4, MovedFacts DEF Forget, At, Steps
  <2>2. CASE Emptied(call[p])
    <3>1. Safe(s)' => chunkRows'[s] = {}
      BY <1>1, <1>2, <2>2 DEF Safe, Still, Cleanable, Clears
    <3>2. Clears(p)'
      BY <2>1, <3>1 DEF Clears
    <3>3. Touches(p) /\ unlocked \subseteq unlocked' /\ stored' \subseteq stored \cup flying
      BY <1>1 DEF Still, Touches
    <3>. QED BY <1>1, <2>1, <3>2, <3>3, StillListed, CleanableStays
  <2>3. CASE ~Emptied(call[p])
    BY <1>1, <2>1, <2>3, HarmlessCleanable DEF Harmless, Emptied
  <2>. QED BY <2>2, <2>3
<1>5. CASE Drop(p)
  BY <1>1, <1>5, EndCleanable DEF Drop
<1>. QED BY <1>3, <1>4, <1>5

\* Steps that move no worker, and the restart that ends them all.
LEMMA EnvironmentCleanable ==
    ASSUME Inv, Inv', Cleanable, Once',
           \/ \E s \in Sessions : CreateSession(s) \/ Expire(s)
           \/ \E p \in Workers : LoseLock(p)
           \/ \E v \in flying : Land(v) \/ Lose(v)
           \/ Restart \/ UNCHANGED vars
    PROVE  Cleanable'
<1>1. Still
  BY DEF Still, CreateSession, Expire, LoseLock, Land, Lose, Restart, vars,
         database, provider, history
<1>2. \A t \in Sessions : Safe(t)' => Listed(t)'
  BY <1>1, StillListed
<1>3. CASE Restart
  <2>1. \A p \in Workers : call'[p].at = "idle"
    BY <1>3 DEF Restart, Idle
  <2>2. \A p \in Workers : Clears(p)'
    BY <2>1 DEF Clears, Emptied
  <2>. QED BY <1>2, <2>2 DEF Cleanable
<1>4. CASE ~Restart
  <2>1. call' = call
    BY <1>4 DEF CreateSession, Expire, LoseLock, Land, Lose, vars
  <2>2. ASSUME NEW p \in Workers PROVE Clears(p)'
    <3>1. Clears(p) /\ (Safe(S(p))' => Safe(S(p))) /\ S(p)' = S(p)
      BY <1>1, <2>1 DEF Cleanable, Safe, Still, S
    <3>2. \A s \in Sessions : \A x \in chunkRows[s] : \A v \in x.refs :
             v \notin stored => v \notin stored'
      BY <1>1 DEF Cleanable, Once, Still
    <3>3. S(p) \in Sessions => chunkRows'[S(p)] = chunkRows[S(p)]
      BY <1>1 DEF Still
    <3>4. Safe(S(p)) => S(p) \in Sessions
      BY DEF Safe
    <3>5. \A c : HasRow(S(p), c)' <=> HasRow(S(p), c)
      BY <1>1, <3>1 DEF HasRow, Still
    <3>. QED BY <2>1, <3>1, <3>2, <3>3, <3>4, <3>5 DEF Clears, Emptied, S
  <2>. QED BY <1>2, <2>2 DEF Cleanable
<1>. QED BY <1>3, <1>4

LEMMA InitCleanable == Init => Cleanable
<1> SUFFICES ASSUME Init PROVE Cleanable
  OBVIOUS
<1>1. Once
  BY IdleTyped DEF Init, Once
<1>2. ASSUME NEW s \in Sessions PROVE Listed(s)
  BY DEF Init, Listed, Leftover
<1>3. ASSUME NEW p \in Workers PROVE Clears(p)
  BY DEF Init, Idle, Clears, Emptied
<1>. QED BY <1>1, <1>2, <1>3 DEF Cleanable

LEMMA NextCleanable == Inv /\ Inv' /\ Cleanable /\ [Next]_vars => Cleanable'
<1> SUFFICES ASSUME Inv, Inv', Cleanable, [Next]_vars PROVE Cleanable'
  OBVIOUS
<1>1. Requests \subseteq Workers /\ Sweeper \in Workers
  BY DEF Workers
<1>2. Once'
  BY NextOnce DEF Cleanable
<1>3. ASSUME NEW r \in Requests, Request(r) PROVE Cleanable'
  BY <1>1, <1>2, <1>3, PlainCleanable, LoadCleanable, ReserveCleanable, FoundCleanable,
     SendCleanable, RecordCleanable
     DEF Request
<1>4. ASSUME NEW p \in Workers, Removal(p) PROVE Cleanable'
  BY <1>2, <1>4, ReadRowsCleanable, EraseVersionCleanable, EraseRowsCleanable,
     EndingCleanable
     DEF Removal
<1>5. CASE Sweep
  BY <1>1, <1>2, <1>4, <1>5, OutsideCleanable, PlainCleanable, LoadCleanable DEF Sweep
<1>6. ASSUME NEW r \in Requests, NEW s \in Sessions,
             \/ \E op \in Ops \ {"chunk"} : Begin(r, op, s, NoChunk)
             \/ \E c \in Chunks : Begin(r, "chunk", s, c)
      PROVE  Cleanable'
  BY <1>2, <1>6, OutsideCleanable DEF Ops
<1>. QED BY <1>1, <1>2, <1>3, <1>4, <1>5, <1>6, PlainCleanable, EnvironmentCleanable DEF Next

\* When an abort, an expiry or the sweep deletes a session, no row is left, and
\* of each chunk that still has a version or a PUT another version was recorded
\* and removed.
THEOREM CleanupLeavesNoRow == Spec => CleanupIsComplete
<1> DEFINE Complete(s) ==
       (\E p \in Workers : Cleaned(p, s)) =>
          /\ chunkRows[s] = {}
          /\ \A v \in Leftover(s) : \E w \in named \ Leftover(s) : w.s = s /\ w.chunk = v.chunk
<1>1. Init => Inv /\ Cleanable
  BY InitKeeps, InitCleanable
<1>2. Inv /\ Cleanable /\ [Next]_vars => Inv' /\ Cleanable'
  BY NextKeeps, NextCleanable
<1>3. ASSUME Inv, Inv', Cleanable, [Next]_vars,
             NEW s \in (tombs' \ tombs) \ (Legacy \cup unlocked)
      PROVE  Complete(s)
  <2> SUFFICES ASSUME NEW p \in Workers, Cleaned(p, s) PROVE Complete(s)
    OBVIOUS
  <2>1. Safe(s) /\ s \in Sessions
    BY <1>3 DEF Safe, Inv, Typed
  <2>2. call[p].s = s /\ Emptied(call[p])
    BY DEF Cleaned, At, S, Emptied
  <2>3. Clears(p) /\ Listed(s)
    BY <1>3, <2>1 DEF Cleanable
  <2>4. chunkRows[s] = {}
    BY <2>1, <2>2, <2>3 DEF Clears
  <2>5. \A v \in Leftover(s) : Removed(s, v.chunk)
    BY <2>3, <2>4 DEF Listed, HasRow
  <2>. QED BY <2>4, <2>5 DEF Removed
<1>4. Inv /\ Inv' /\ Cleanable /\ [Next]_vars =>
         [\A s \in (tombs' \ tombs) \ (Legacy \cup unlocked) : Complete(s)]_vars
  BY <1>3
<1>. QED BY <1>1, <1>2, <1>4, PTL DEF Spec, CleanupIsComplete
=============================================================================
