---------------------------- MODULE OutboxProofs ----------------------------
(***************************************************************************)
(* Proofs about Outbox, for every value of its constants.                  *)
(*                                                                         *)
(* A task holds no lock on its intent.  What it may rely on is that the     *)
(* intent's row is there (Intended) and that the session it completes is    *)
(* one of its hash and owner (Sessioned); its objects are compared with the *)
(* intent in the transaction that records the event.  A receipt is that of  *)
(* an event of its session's key (Receipted).  None of this needs the       *)
(* session's lock.  Later sections follow the recovery's queue (Lined), the *)
(* objects of an event back to what was stored (Genuine), and those of a    *)
(* session's event back to the policy the session records (Bound).          *)
(***************************************************************************)
EXTENDS Outbox, WellFoundedInduction, TLAPS

\* One number is lower than another.
Lower == {x \in Nat \X Nat : x[1] < x[2]}

\* A set of natural numbers that is not empty has a least one.
LEMMA Least == ASSUME NEW T \in SUBSET Nat, T # {} PROVE \E i \in T : \A j \in T : i <= j
<1>1. IsWellFoundedOn(Lower, Nat)
  BY NatLessThanWellFounded DEF OpToRel, Lower
<1>2. PICK i \in T : \A j \in T : <<j, i>> \notin Lower
  BY <1>1, WFMin
<1>3. \A j \in T : ~(j < i)
  BY <1>2 DEF Lower
<1> QED BY <1>3

\* And one with a bound has a greatest one.
LEMMA Greatest ==
    ASSUME NEW n \in Nat, NEW T \in SUBSET (1..n), T # {}
    PROVE  \E i \in T : \A j \in T : j <= i
<1> DEFINE U == {n - i : i \in T}
<1>1. U \in SUBSET Nat /\ U # {}
  <2>1. \A i \in T : n - i \in Nat
    OBVIOUS
  <2>2. PICK i \in T : TRUE
    OBVIOUS
  <2>3. n - i \in U
    OBVIOUS
  <2> QED BY <2>1, <2>3
<1>2. PICK u \in U : \A v \in U : u <= v
  <2> HIDE DEF U
  <2> QED BY <1>1, Least
<1>3. PICK i \in T : u = n - i
  OBVIOUS
<1>4. \A j \in T : n - i <= n - j
  BY <1>2, <1>3
<1> QED BY <1>4

\* What a sequence lists.
Listed(seq) == {seq[i] : i \in DOMAIN seq}

\* Touching moves an element of an order to its end, or adds it there.
LEMMA TouchedKeeps ==
    ASSUME NEW S, NEW seq \in Seq(S), NEW x \in S
    PROVE  /\ Touched(seq, x) \in Seq(S)
           /\ Listed(Touched(seq, x)) = Listed(seq) \cup {x}
<1> DEFINE n == Len(seq)
           new == Touched(seq, x)
<1>1. n \in Nat /\ DOMAIN seq = 1..n /\ \A i \in 1..n : seq[i] \in S
  OBVIOUS
<1>2. CASE ~\E i \in DOMAIN seq : seq[i] = x
  <2>1. new = Append(seq, x)
    BY <1>2 DEF Touched
  <2>2. /\ new \in Seq(S) /\ DOMAIN new = 1..(n + 1)
        /\ \A i \in 1..n : new[i] = seq[i]
        /\ new[n + 1] = x
    BY <1>1, <2>1
  <2> HIDE DEF new, n
  <2>3. \A i \in 1..(n + 1) : new[i] \in {seq[j] : j \in 1..n} \cup {x}
    BY <1>1, <2>2
  <2>4. n + 1 \in 1..(n + 1) /\ \A i \in 1..n : i \in 1..(n + 1)
    BY <1>1
  <2>5. \A i \in 1..n : seq[i] \in {new[j] : j \in 1..(n + 1)}
    BY <2>2, <2>4
  <2>6. x \in {new[j] : j \in 1..(n + 1)}
    BY <2>2, <2>4
  <2> QED BY <1>1, <2>2, <2>3, <2>5, <2>6 DEF new, n, Listed
<1>3. CASE \E i \in DOMAIN seq : seq[i] = x
  <2> DEFINE at == CHOOSE i \in DOMAIN seq : seq[i] = x
  <2>1. at \in 1..n /\ seq[at] = x
    BY <1>1, <1>3
  <2>2. new = [i \in 1..n |-> IF i < at THEN seq[i] ELSE IF i < n THEN seq[i + 1] ELSE x]
    BY <1>1, <1>3 DEF Touched
  <2> HIDE DEF new, n, at
  <2>3. /\ DOMAIN new = 1..n
        /\ \A i \in 1..n : new[i] \in S
    BY <1>1, <2>2
  <2>4. new \in Seq(S)
    BY <1>1, <2>2, <2>3
  <2>5. \A i \in 1..n : new[i] \in {seq[j] : j \in 1..n} \cup {x}
    BY <1>1, <2>2
  <2>6. \A i \in 1..n : seq[i] \in {new[j] : j \in 1..n}
    <3> SUFFICES ASSUME NEW i \in 1..n PROVE \E j \in 1..n : seq[i] = new[j]
      OBVIOUS
    <3>1. CASE i < at
      BY <1>1, <2>1, <2>2, <3>1
    <3>2. CASE i = at
      <4>1. n \in 1..n /\ new[n] = x
        BY <1>1, <2>1, <2>2
      <4> QED BY <2>1, <3>2, <4>1
    <3>3. CASE i > at
      <4>1. i - 1 \in 1..n /\ new[i - 1] = seq[i]
        BY <1>1, <2>1, <2>2, <3>3
      <4> QED BY <4>1
    <3> QED BY <2>1, <3>1, <3>2, <3>3
  <2> QED BY <1>1, <2>1, <2>3, <2>4, <2>5, <2>6 DEF new, n, Listed
<1> QED BY <1>2, <1>3

-----------------------------------------------------------------------------
(* Types. *)

Intent == {Unknown} \cup [state : {"pending", "completed"}, policy : Config]
Event == [key : Keys, objects : Seq(Object)]
Created == [state : {"open", "finalized", "deleted"}, policy : Config,
            age : {"live", "expired", "forgotten"}]
Session == {[state |-> "none"]} \cup Created
Copy == [now : 0..MaxVersions, last : 0..MaxVersions]

OfRequest == [phase : {"writing", "recorded", "saved", "ready"}, key : Keys,
              session : Sessions \cup {NoSession}, store : Config,
              objects : Seq(Object)]
OfRecovery == [phase : {"reading"}, key : Keys, session : {NoSession},
               store : Config, objects : Seq(Object)]
Peeked == [phase : {"peeked"}, budget : Nat]
Picked == [phase : {"picked"}, budget : Nat, key : Keys, policy : Config]

WorkTyped ==
    /\ work \in [Actors -> {Idle} \cup OfRequest \cup OfRecovery \cup Peeked \cup Picked]
    /\ \A a \in Requests : work[a] \in {Idle} \cup OfRequest
    /\ \A r \in Recoverers : work[r] \in {Idle} \cup OfRecovery \cup Peeked \cup Picked

Typed ==
    /\ intents \in [Keys -> Intent]
    /\ waiting \in Seq(Keys)
    /\ finalized \in [Hashes -> Seq(Event)]
    /\ receipts \in [Sessions -> Event \cup {NoEvent}]
    /\ sessions \in [Sessions -> Session]
    /\ finals \in [Sessions -> Seq(Object)]
    /\ held \subseteq Sessions \X Requests
    /\ stored \in [Hashes -> [Place -> Copy]]
    /\ WorkTyped
    /\ answered \subseteq Keys \cup Sessions

\* Who works for an intent.
Tasks == {a \in Actors : work[a].phase \in
            {"writing", "recorded", "saved", "ready", "picked", "reading"}}

\* An intent is never forgotten: whoever works for one, or has finished with it,
\* finds its row.
Intended ==
    /\ \A a \in Tasks : intents[work[a].key] # Unknown
    /\ \A s \in Sessions : sessions[s].state = "finalized" => intents[ContentOf[s]] # Unknown

\* A request completes a session of the hash and owner it works for.
Sessioned ==
    \A a \in Requests : a \in Tasks =>
        /\ work[a].session # NoSession => work[a].key = ContentOf[work[a].session]
        /\ work[a].phase # "writing" => work[a].session # NoSession

\* A receipt is that of an event, and of this session's.
Receipted ==
    \A s \in Sessions : HasReceipt(s) =>
        receipts[s] \in Events /\ receipts[s].key = ContentOf[s]

Inv == /\ Typed /\ Intended /\ Sessioned
       /\ Receipted /\ CompletedHasEvent /\ AnsweredIsCommitted

-----------------------------------------------------------------------------
(* Policies. *)

\* The places a policy requires, and what is configured for them.
LEMMA Policies ==
    ASSUME NEW c \in Config
    PROVE  /\ Required(c) \in Seq(Place)
           /\ Len(Required(c)) \in 1..2
           /\ c.mode \in {"gcs", "dual"} => c.gcs \in Buckets
<1>1. /\ c.mode \in Modes
      /\ c.mode \in {"gcs", "dual"} => c.gcs \in Buckets
      /\ c.mode \in {"b2", "dual"} => c.b2 \in Buckets
  BY OutboxConstants DEF Config
<1>2. CASE c.mode = "gcs"
  <2>1. Required(c) = <<Gcs(c)>> /\ Gcs(c) \in Place
    BY <1>1, <1>2 DEF Required, Gcs, Place
  <2> QED BY <1>1, <2>1
<1>3. CASE c.mode = "b2"
  <2>1. Required(c) = <<B2(c)>> /\ B2(c) \in Place
    BY <1>1, <1>3 DEF Required, B2, Place
  <2> QED BY <1>1, <2>1
<1>4. CASE c.mode = "dual"
  <2>1. Required(c) = <<Gcs(c), B2(c)>> /\ Gcs(c) \in Place /\ B2(c) \in Place
    BY <1>1, <1>4 DEF Required, Gcs, B2, Place
  <2> QED BY <1>1, <2>1
<1> QED BY <1>1, <1>2, <1>3, <1>4 DEF Modes

\* A configuration that has the places of a policy can take over its mode.
LEMMA TakesMode ==
    ASSUME NEW c \in Config, NEW i \in Config, Configured(c, Required(i))
    PROVE  [c EXCEPT !.mode = i.mode] \in Config
<1>1. /\ i.mode \in Modes
      /\ i.mode \in {"gcs", "dual"} => i.gcs \in Buckets
      /\ i.mode \in {"b2", "dual"} => i.b2 \in Buckets
      /\ c.gcs \in Buckets \cup {NoBucket} /\ c.b2 \in Buckets \cup {NoBucket}
  BY OutboxConstants DEF Config
<1>2. ASSUME i.mode \in {"gcs", "dual"} PROVE c.gcs # NoBucket
  <2>1. Required(i)[1] = Gcs(i) /\ 1 \in DOMAIN Required(i)
    BY <1>2 DEF Required
  <2>2. Gcs(i) \in {Gcs(c), B2(c)}
    BY <2>1 DEF Configured
  <2>3. Gcs(i) = Gcs(c)
    BY <2>2 DEF Gcs, B2
  <2>4. i.gcs = c.gcs
    BY <2>3 DEF Gcs
  <2> QED BY <1>1, <1>2, <2>4, OutboxConstants
<1>3. ASSUME i.mode \in {"b2", "dual"} PROVE c.b2 # NoBucket
  <2> DEFINE n == IF i.mode = "b2" THEN 1 ELSE 2
  <2>1. Required(i)[n] = B2(i) /\ n \in DOMAIN Required(i)
    BY <1>3 DEF Required
  <2>2. B2(i) \in {Gcs(c), B2(c)}
    BY <2>1 DEF Configured
  <2>3. B2(i) = B2(c)
    BY <2>2 DEF Gcs, B2
  <2>4. i.b2 = c.b2
    BY <2>3 DEF B2
  <2> QED BY <1>1, <1>3, <2>4, OutboxConstants
<1>4. [c EXCEPT !.mode = i.mode] \in
        [mode : Modes, gcs : Buckets \cup {NoBucket}, b2 : Buckets \cup {NoBucket}]
  BY <1>1 DEF Config
<1> DEFINE d == [c EXCEPT !.mode = i.mode]
<1>5. d.mode = i.mode /\ d.gcs = c.gcs /\ d.b2 = c.b2
  BY DEF Config
<1> QED BY <1>2, <1>3, <1>4, <1>5 DEF Config

\* So can a session's request in a process whose buckets are the session's.
LEMMA SessionMode ==
    ASSUME Typed, NEW s \in Sessions, sessions[s].state = "open", NEW c \in Config,
           Staged(s) => Unmoved(s, c), c.gcs = NoBucket => Staged(s)
    PROVE  [c EXCEPT !.mode = sessions[s].policy.mode] \in Config
<1> DEFINE i == sessions[s].policy
           d == [c EXCEPT !.mode = i.mode]
<1>1. i \in Config
  BY DEF Typed, Session, Created
<1>2. /\ i.mode \in Modes
      /\ i.mode \in {"gcs", "dual"} => i.gcs \in Buckets
      /\ i.mode \in {"b2", "dual"} => i.b2 \in Buckets
  BY <1>1, OutboxConstants DEF Config
<1>3. /\ d \in [mode : Modes, gcs : Buckets \cup {NoBucket}, b2 : Buckets \cup {NoBucket}]
      /\ d.mode = i.mode /\ d.gcs = c.gcs /\ d.b2 = c.b2
  BY <1>2 DEF Config
<1>4. i.mode = "gcs" => c.gcs # NoBucket
  BY DEF Staged
<1>5. i.mode # "gcs" => i.b2 = c.b2
  BY DEF Staged, Unmoved
<1>6. i.mode = "dual" => i.gcs = c.gcs
  BY DEF Staged, Unmoved
<1>7. d.mode \in {"gcs", "dual"} => d.gcs # NoBucket
  BY <1>2, <1>3, <1>4, <1>6, OutboxConstants
<1>8. d.mode \in {"b2", "dual"} => d.b2 # NoBucket
  BY <1>2, <1>3, <1>5, OutboxConstants
<1> QED BY <1>3, <1>7, <1>8 DEF Config

-----------------------------------------------------------------------------
(* Every variable keeps its type. *)

\* What an actor is given to do next is of its kind.
LEMMA SetWork ==
    ASSUME WorkTyped, NEW a \in Actors, NEW v,
           a \in Requests => v \in {Idle} \cup OfRequest,
           a \in Recoverers => v \in {Idle} \cup OfRecovery \cup Peeked \cup Picked,
           work' = [work EXCEPT ![a] = v]
    PROVE  WorkTyped'
<1>1. v \in {Idle} \cup OfRequest \cup OfRecovery \cup Peeked \cup Picked
  BY DEF Actors
<1>2. /\ work' \in [Actors -> {Idle} \cup OfRequest \cup OfRecovery \cup Peeked \cup Picked]
      /\ work'[a] = v /\ \A b \in Actors : b # a => work'[b] = work[b]
  BY <1>1 DEF WorkTyped
<1>3. \A b \in Requests : work'[b] \in {Idle} \cup OfRequest
  BY <1>2 DEF WorkTyped, Actors
<1>4. \A r \in Recoverers : work'[r] \in {Idle} \cup OfRecovery \cup Peeked \cup Picked
  BY <1>2 DEF WorkTyped, Actors
<1> QED BY <1>2, <1>3, <1>4 DEF WorkTyped

\* An upsert makes a row, of the policy that is there or the caller's.
LEMMA Upserting ==
    ASSUME NEW i \in Intent, NEW c \in Config
    PROVE  /\ Upserted(i, c) \in Intent
           /\ Upserted(i, c) # Unknown
           /\ Upserted(i, c).policy \in Config
           /\ i # Unknown => Upserted(i, c).state \in {i.state, "pending"}
           /\ Upserted(i, c).state = "completed" => i # Unknown /\ Upserted(i, c) = i
<1>1. i = Unknown \/ i \in [state : {"pending", "completed"}, policy : Config]
  BY DEF Intent
<1>2. \A x \in [state : {"pending", "completed"}, policy : Config] : x # Unknown
  BY DEF Unknown
<1>3. CASE i = Unknown
  <2>1. Upserted(i, c) = [state |-> "pending", policy |-> c]
    BY <1>3 DEF Upserted, Unknown
  <2> QED BY <1>2, <1>3, <2>1 DEF Intent
<1>4. CASE i \in [state : {"pending", "completed"}, policy : Config]
  <2>1. Upserted(i, c) \in {i, [state |-> "pending", policy |-> c]}
    BY <1>4 DEF Upserted
  <2>2. Upserted(i, c) \in [state : {"pending", "completed"}, policy : Config]
    BY <1>4, <2>1
  <2> QED BY <1>2, <1>4, <2>1, <2>2 DEF Intent
<1> QED BY <1>1, <1>3, <1>4

\* The head of a queue that is not empty is a pending intent.
LEMMA FirstPending ==
    ASSUME Typed, Queue # {}
    PROVE  First \in Keys /\ intents[First] # Unknown /\ intents[First].policy \in Config
<1>1. Queue \in SUBSET Nat /\ Queue \subseteq DOMAIN waiting
  BY DEF Queue, Typed
<1>2. \E i \in Queue : \A j \in Queue : i <= j
  BY <1>1, Least
<1> DEFINE i == CHOOSE i \in Queue : \A j \in Queue : i <= j
<1>3. i \in Queue
  BY <1>2
<1>4. First = waiting[i]
  BY DEF First
<1> HIDE DEF i
<1>5. First \in Keys /\ Pending(First)
  BY <1>1, <1>3, <1>4 DEF Queue, Typed
<1>6. intents[First] \in Intent /\ intents[First].state = "pending"
  BY <1>5 DEF Typed, Pending
<1> QED BY <1>5, <1>6 DEF Intent, Unknown

\* The place a task has to look at next.
LEMMA NextIsPlace ==
    ASSUME NEW t, t.store \in Config, t.objects \in Seq(Object), Unread(t)
    PROVE  NextPlace(t) \in Place
<1>1. Required(t.store) \in Seq(Place) /\ Len(Required(t.store)) \in Nat
  BY Policies
<1>2. Len(t.objects) \in Nat /\ Len(t.objects) < Len(Required(t.store))
  BY DEF Unread
<1>3. Len(t.objects) + 1 \in 1..Len(Required(t.store))
  BY <1>1, <1>2
<1> QED BY <1>1, <1>3 DEF NextPlace

\* An object that is added to a task's makes a list of objects.
LEMMA AddObject ==
    ASSUME NEW objects \in Seq(Object), NEW p \in Place, NEW v \in 1..MaxVersions
    PROVE  Append(objects, [at |-> p, version |-> v]) \in Seq(Object)
<1>1. [at |-> p, version |-> v] \in Object
  BY DEF Object
<1> QED BY <1>1

\* What a task asks for is an event.
LEMMA Proposing ==
    ASSUME NEW t \in OfRequest \cup OfRecovery
    PROVE  /\ Proposed(t) \in Event
           /\ t.key \in Keys /\ t.key[1] \in Hashes
           /\ t.session \in Sessions \cup {NoSession}
           /\ t.store \in Config /\ t.objects \in Seq(Object)
           /\ Proposed(t) # NoEvent
<1>1. t.key \in Keys /\ t.objects \in Seq(Object)
  BY DEF OfRequest, OfRecovery
<1>2. t.key # <<>>
  <2>1. PICK h \in Hashes, o \in Owners : t.key = <<h, o>>
    BY <1>1 DEF Keys
  <2>2. Len(<<h, o>>) = 2 /\ Len(<<>>) = 0
    OBVIOUS
  <2> QED BY <2>1, <2>2
<1> QED BY <1>1, <1>2 DEF OfRequest, OfRecovery, Proposed, Event, Keys, NoEvent

\* Where an actor is at a step of a task, it has one.
LEMMA Tasked ==
    ASSUME Typed, NEW a \in Actors
    PROVE  /\ work[a].phase \in {"writing", "recorded", "saved", "ready", "reading"} =>
                work[a] \in OfRequest \cup OfRecovery
           /\ work[a].phase \in {"writing", "recorded", "saved", "ready"} =>
                a \in Requests /\ work[a] \in OfRequest
           /\ work[a].phase = "reading" => a \in Recoverers /\ work[a] \in OfRecovery
           /\ work[a].phase = "peeked" => a \in Recoverers /\ work[a] \in Peeked
           /\ work[a].phase = "picked" => a \in Recoverers /\ work[a] \in Picked
           /\ Ready(a) => a \in Tasks /\ work[a] \in OfRequest \cup OfRecovery
BY OutboxConstants DEF Typed, WorkTyped, Actors, OfRequest, OfRecovery, Peeked, Picked,
                       Idle, Ready, Tasks

\* reserve_upload keeps every type.
LEMMA ReserveTyped ==
    ASSUME Typed, NEW a \in Requests, NEW k \in Keys, NEW s \in Sessions \cup {NoSession},
           NEW c \in Config, NEW resume, Reserve(a, k, s, c, resume),
           UNCHANGED <<finalized, receipts, sessions, finals, stored, answered>>
    PROVE  Typed'
<1> DEFINE i == Upserted(intents[k], c)
           d == [c EXCEPT !.mode = i.policy.mode]
<1>1. i \in Intent /\ i.policy \in Config
  BY Upserting DEF Typed
<1>2. intents' = [intents EXCEPT ![k] = i] /\ waiting' = Touched(waiting, k)
  BY DEF Reserve
<1>3. \/ work' = work /\ held' = held
      \/ /\ Configured(c, Required(i.policy))
         /\ work' = [work EXCEPT ![a] = Task("writing", k, s, d, <<>>)]
         /\ held' \subseteq held \cup {<<s, a>>} /\ (s = NoSession => held' = held)
  BY DEF Reserve
<1> HIDE DEF i
<1>4. intents' \in [Keys -> Intent]
  BY <1>1, <1>2 DEF Typed
<1>5. waiting' \in Seq(Keys)
  BY <1>2, TouchedKeeps DEF Typed
<1>6. held' \subseteq Sessions \X Requests
  BY <1>3 DEF Typed
<1>7. WorkTyped'
  <2>1. CASE work' = work
    BY <2>1 DEF Typed, WorkTyped
  <2>2. CASE /\ Configured(c, Required(i.policy))
             /\ work' = [work EXCEPT ![a] = Task("writing", k, s, d, <<>>)]
    <3>1. d \in Config
      BY <1>1, <2>2, TakesMode
    <3>2. Task("writing", k, s, d, <<>>) \in OfRequest
      BY <3>1 DEF Task, OfRequest
    <3> QED BY <2>2, <3>2, SetWork, OutboxConstants DEF Typed, Actors
  <2> QED BY <1>3, <2>1, <2>2
<1> QED BY <1>4, <1>5, <1>6, <1>7 DEF Typed

\* Initially every variable has its type.
LEMMA TypedInit == Init => Typed
<1> SUFFICES ASSUME Init PROVE Typed
  OBVIOUS
<1>1. intents \in [Keys -> Intent] /\ waiting \in Seq(Keys)
  BY DEF Init, Intent
<1>2. finalized \in [Hashes -> Seq(Event)] /\ receipts \in [Sessions -> Event \cup {NoEvent}]
  BY DEF Init
<1>3. sessions \in [Sessions -> Session] /\ finals \in [Sessions -> Seq(Object)]
  BY DEF Init, Session
<1>4. held \subseteq Sessions \X Requests /\ answered \subseteq Keys \cup Sessions
  BY DEF Init
<1>5. stored \in [Hashes -> [Place -> Copy]]
  BY OutboxConstants DEF Init, Copy
<1>6. WorkTyped
  BY DEF Init, WorkTyped, Actors
<1> QED BY <1>1, <1>2, <1>3, <1>4, <1>5, <1>6 DEF Typed

\* And every step keeps them.
LEMMA TypedStep ==
    ASSUME Typed, Intended, Sessioned, [Next]_vars
    PROVE  Typed'
<1> USE OutboxConstants
<1>1. ASSUME NEW a \in Requests, NEW k \in Keys, NEW c \in Deployments, BeginDirect(a, k, c)
      PROVE  Typed'
  BY <1>1, ReserveTyped DEF BeginDirect
<1>2. ASSUME NEW a \in Requests, NEW s \in Sessions, NEW c \in Deployments, BeginSession(a, s, c)
      PROVE  Typed'
  <2>1. [c EXCEPT !.mode = sessions[s].policy.mode] \in Config /\ ContentOf[s] \in Keys
    BY <1>2, SessionMode DEF BeginSession
  <2> QED BY <1>2, <2>1, ReserveTyped DEF BeginSession
<1>3. ASSUME NEW a \in Requests, NEW s \in Sessions, NEW c \in Deployments, ResumeSession(a, s, c)
      PROVE  Typed'
  <2>1. Task("saved", ContentOf[s], s, c, <<>>) \in OfRequest
    BY DEF Task, OfRequest
  <2>2. WorkTyped'
    BY <1>3, <2>1, SetWork DEF ResumeSession, Typed, Actors
  <2> QED BY <1>3, <2>2 DEF ResumeSession, Typed
<1>4. ASSUME NEW a \in Requests, NEW s \in Sessions, AnswerReplay(a, s)
      PROVE  Typed'
  BY <1>4 DEF AnswerReplay, Typed, WorkTyped
<1>5. ASSUME NEW a \in Requests, StoreNext(a)
      PROVE  Typed'
  <2> DEFINE t == work[a]
             h == t.key[1]
             p == NextPlace(t)
             o == stored[h][p]
             v == IF o.now # 0 THEN o.now ELSE o.last + 1
  <2>1. t \in OfRequest /\ a \in Actors
    BY <1>5, Tasked DEF StoreNext, Actors
  <2>2. h \in Hashes /\ p \in Place
    <3>1. h \in Hashes /\ t.store \in Config /\ t.objects \in Seq(Object)
      BY <2>1, Proposing
    <3> QED BY <1>5, <3>1, NextIsPlace DEF StoreNext
  <2>3. o \in Copy
    BY <2>2 DEF Typed
  <2>4. v \in 1..MaxVersions
    <3>1. v <= MaxVersions
      BY <1>5 DEF StoreNext
    <3>2. o.now \in Nat /\ o.last \in Nat
      BY <2>3 DEF Copy
    <3> HIDE DEF o
    <3> QED BY <3>1, <3>2
  <2>5. /\ stored' = [stored EXCEPT ![h][p] = [now |-> v, last |-> IF v > o.last THEN v ELSE o.last]]
        /\ work' = [work EXCEPT ![a].objects = Append(t.objects, [at |-> p, version |-> v])]
    BY <1>5 DEF StoreNext
  <2> HIDE DEF h, p, o, v
  <2>6. [now |-> v, last |-> IF v > o.last THEN v ELSE o.last] \in Copy
    BY <2>3, <2>4 DEF Copy
  <2>7. stored' \in [Hashes -> [Place -> Copy]]
    BY <2>2, <2>5, <2>6 DEF Typed
  <2>8. [t EXCEPT !.objects = Append(t.objects, [at |-> p, version |-> v])] \in OfRequest
    <3>1. Append(t.objects, [at |-> p, version |-> v]) \in Seq(Object)
      BY <2>1, <2>2, <2>4, AddObject DEF OfRequest
    <3> QED BY <2>1, <3>1 DEF OfRequest
  <2>9. work' = [work EXCEPT ![a] = [t EXCEPT !.objects = Append(t.objects, [at |-> p, version |-> v])]]
    BY <2>5
  <2>10. WorkTyped'
    BY <2>1, <2>8, <2>9, SetWork DEF Typed
  <2> QED BY <1>5, <2>7, <2>10 DEF StoreNext, Typed
<1>6. ASSUME NEW a \in Requests, SaveObjects(a)
      PROVE  Typed'
  <2>1. work[a] \in OfRequest /\ a \in Actors
    BY <1>6, Tasked DEF SaveObjects, Actors
  <2>2. WorkTyped'
    <3>1. work' = [work EXCEPT ![a] = [work[a] EXCEPT !.phase = "recorded"]]
      BY <1>6 DEF SaveObjects
    <3>2. [work[a] EXCEPT !.phase = "recorded"] \in OfRequest
      BY <2>1 DEF OfRequest
    <3> QED BY <2>1, <3>1, <3>2, SetWork DEF Typed
  <2>3. finals' \in [Sessions -> Seq(Object)]
    BY <1>6, <2>1 DEF SaveObjects, Typed, OfRequest
  <2> QED BY <1>6, <2>2, <2>3 DEF SaveObjects, Typed
<1>7. ASSUME NEW a \in Requests, SaveSession(a)
      PROVE  Typed'
  <2>1. work[a] \in OfRequest /\ a \in Actors
    BY <1>7, Tasked DEF SaveSession, Actors
  <2>2. WorkTyped'
    <3>1. work' = [work EXCEPT ![a] = [work[a] EXCEPT !.phase = "saved", !.objects = <<>>]]
      BY <1>7 DEF SaveSession
    <3>2. <<>> \in Seq(Object)
      OBVIOUS
    <3>3. [work[a] EXCEPT !.phase = "saved", !.objects = <<>>] \in OfRequest
      BY <2>1, <3>2 DEF OfRequest
    <3> QED BY <2>1, <3>1, <3>3, SetWork DEF Typed
  <2>3. sessions' \in [Sessions -> Session]
    <3> DEFINE s == work[a].session
               new == [sessions[s] EXCEPT !.state = "finalized"]
    <3>1. sessions' = [sessions EXCEPT ![s] = new] /\ sessions[s].state = "open"
      BY <1>7 DEF SaveSession
    <3>2. s \in Sessions => sessions[s] \in Created
      BY <3>1 DEF Typed, Session
    <3>3. s \in Sessions => new \in Session
      BY <3>2 DEF Session, Created
    <3> HIDE DEF new
    <3> QED BY <3>1, <3>3 DEF Typed
  <2> QED BY <1>7, <2>2, <2>3 DEF SaveSession, Typed
<1>8. ASSUME NEW a \in Requests, FinalObjects(a)
      PROVE  Typed'
  <2>1. work[a] \in OfRequest /\ a \in Actors
    BY <1>8, Tasked DEF FinalObjects, Actors
  <2> DEFINE t == work[a]
             now == stored[t.key[1]][Gcs(t.store)].now
  <2>2. PICK objects \in Seq(Object) : work' = [work EXCEPT ![a] = [t EXCEPT !.phase = "ready", !.objects = objects]]
    <3>1. CASE Staged(t.session)
      <4>1. finals[t.session] # <<>> /\ work' = [work EXCEPT ![a] = [t EXCEPT !.phase = "ready", !.objects = finals[t.session]]]
        BY <1>8, <3>1 DEF FinalObjects
      <4>2. t.session \in Sessions
        BY <1>8, <2>1 DEF FinalObjects, Sessioned, Tasks, OfRequest
      <4>3. finals[t.session] \in Seq(Object)
        BY <4>2 DEF Typed
      <4> QED BY <4>1, <4>3
    <3>2. CASE ~Staged(t.session)
      <4>1. /\ t.store.gcs # NoBucket /\ now # 0
            /\ work' = [work EXCEPT ![a] = [t EXCEPT !.phase = "ready", !.objects = <<[at |-> Gcs(t.store), version |-> now]>>]]
        BY <1>8, <3>2 DEF FinalObjects
      <4>2. t.store \in Config /\ t.key[1] \in Hashes
        BY <2>1, Proposing
      <4>3. Gcs(t.store) \in Place
        BY <4>1, <4>2 DEF Config, Gcs, Place
      <4>4. stored[t.key[1]][Gcs(t.store)] \in Copy
        BY <4>2, <4>3 DEF Typed
      <4>5. now \in 1..MaxVersions
        BY <4>1, <4>4 DEF Copy
      <4> HIDE DEF now
      <4>6. <<[at |-> Gcs(t.store), version |-> now]>> \in Seq(Object)
        BY <4>3, <4>5 DEF Object
      <4> QED BY <4>1, <4>6
    <3> QED BY <3>1, <3>2
  <2>3. [t EXCEPT !.phase = "ready", !.objects = objects] \in OfRequest
    BY <2>1 DEF OfRequest
  <2>4. WorkTyped'
    BY <2>1, <2>2, <2>3, SetWork DEF Typed
  <2> QED BY <1>8, <2>4 DEF FinalObjects, Typed
<1>9. ASSUME NEW a \in Actors, Finish(a)
      PROVE  WorkTyped' /\ held' \subseteq Sessions \X Requests
  <2>1. WorkTyped'
    BY <1>9, SetWork DEF Finish, Typed
  <2> QED BY <1>9, <2>1 DEF Finish, Released, Typed
<1>10. ASSUME NEW a \in Actors, Ready(a), Answer(a, work[a])
       PROVE  answered' \subseteq Keys \cup Sessions
  <2>1. work[a].key \in Keys /\ work[a].session \in Sessions \cup {NoSession}
    BY <1>10, Tasked, Proposing
  <2> QED BY <1>10, <2>1 DEF Answer, Typed
<1>11. ASSUME NEW a \in Actors, Enqueue(a)
       PROVE  Typed'
  <2> DEFINE t == work[a]
             e == Proposed(t)
  <2>1. t \in OfRequest \cup OfRecovery /\ a \in Tasks
    BY <1>11, Tasked DEF Enqueue
  <2>2. e \in Event /\ t.key \in Keys /\ t.key[1] \in Hashes /\ t.session \in Sessions \cup {NoSession}
    BY <2>1, Proposing
  <2>3. /\ finalized' = [finalized EXCEPT ![t.key[1]] = Touched(@, e)]
        /\ intents' = [intents EXCEPT ![t.key].state = "completed"]
        /\ waiting' = Touched(waiting, t.key)
        /\ receipts' = IF t.session = NoSession THEN receipts
                       ELSE [receipts EXCEPT ![t.session] = e]
    BY <1>11 DEF Enqueue
  <2> HIDE DEF e
  <2>4. finalized' \in [Hashes -> Seq(Event)]
    <3>1. Touched(finalized[t.key[1]], e) \in Seq(Event)
      BY <2>2, TouchedKeeps DEF Typed
    <3> QED BY <2>2, <2>3, <3>1 DEF Typed
  <2>5. intents' \in [Keys -> Intent]
    <3>1. intents[t.key] \in [state : {"pending", "completed"}, policy : Config]
      BY <2>1, <2>2 DEF Typed, Intended, Intent
    <3>2. [intents[t.key] EXCEPT !.state = "completed"] \in Intent
      BY <3>1 DEF Intent
    <3> QED BY <2>2, <2>3, <3>2 DEF Typed
  <2>6. waiting' \in Seq(Keys)
    BY <2>2, <2>3, TouchedKeeps DEF Typed
  <2>7. receipts' \in [Sessions -> Event \cup {NoEvent}]
    BY <2>2, <2>3 DEF Typed
  <2> QED BY <1>9, <1>10, <1>11, <2>4, <2>5, <2>6, <2>7 DEF Enqueue, Typed
<1>12. ASSUME NEW a \in Requests, AdoptHistory(a)
       PROVE  Typed'
  <2>1. a \in Actors
    BY DEF Actors
  <2>2. work[a].session \in Sessions \cup {NoSession} /\ Proposed(work[a]) \in Event
    BY <1>12, <2>1, Tasked, Proposing DEF AdoptHistory
  <2>3. receipts' \in [Sessions -> Event \cup {NoEvent}]
    BY <1>12, <2>2 DEF AdoptHistory, Typed
  <2> QED BY <1>9, <1>10, <1>12, <2>1, <2>3 DEF AdoptHistory, Typed
<1>13. ASSUME NEW a \in Requests, AnswerReceipt(a)
       PROVE  Typed'
  <2>1. a \in Actors
    BY DEF Actors
  <2> QED BY <1>9, <1>10, <1>13, <2>1 DEF AnswerReceipt, Typed, dbVars
<1>14. ASSUME NEW a \in Actors, Conflict(a) \/ Fail(a)
       PROVE  Typed'
  BY <1>9, <1>14 DEF Conflict, Fail, Typed, dbVars
<1>15. ASSUME NEW s \in Sessions, NEW c \in Deployments, CreateSession(s, c)
       PROVE  Typed'
  <2>1. sessions' \in [Sessions -> Session]
    BY <1>15 DEF CreateSession, Typed, Session, Created
  <2> QED BY <1>15, <2>1 DEF CreateSession, Typed, WorkTyped
<1>16. ASSUME NEW s \in Sessions, LoseLock(s)
       PROVE  Typed'
  BY <1>16 DEF LoseLock, Typed, WorkTyped, dbVars
<1>17. ASSUME NEW s \in Sessions, Expire(s) \/ ForgetReceipt(s) \/ DeleteSession(s) \/ AbortSession(s)
       PROVE  Typed'
  <2>1. sessions' \in [Sessions -> Session]
    <3>1. sessions[s].state \in {"open", "finalized"}
      BY <1>17 DEF Expire, ForgetReceipt, DeleteSession, AbortSession, Exists
    <3>2. PICK new : new \in Session /\ sessions' = [sessions EXCEPT ![s] = new]
      <4> DEFINE x == [sessions[s] EXCEPT !.age = "expired"]
                 y == [sessions[s] EXCEPT !.age = "forgotten"]
                 z == [sessions[s] EXCEPT !.state = "deleted"]
      <4>1. x \in Session /\ y \in Session /\ z \in Session
        <5>1. sessions[s] \in Created
          BY <3>1 DEF Typed, Session
        <5> QED BY <5>1 DEF Session, Created
      <4>2. \E new \in {x, y, z} : sessions' = [sessions EXCEPT ![s] = new]
        BY <1>17 DEF Expire, ForgetReceipt, DeleteSession, AbortSession
      <4> HIDE DEF x, y, z
      <4> QED BY <4>1, <4>2
    <3> QED BY <3>2 DEF Typed
  <2>2. /\ receipts' \in [Sessions -> Event \cup {NoEvent}]
        /\ finals' \in [Sessions -> Seq(Object)]
    <3>1. receipts' = receipts \/ receipts' = [receipts EXCEPT ![s] = NoEvent]
      BY <1>17 DEF Expire, ForgetReceipt, DeleteSession, AbortSession, dbVars
    <3> DEFINE none == <<>>
    <3>2. finals' = finals \/ finals' = [finals EXCEPT ![s] = none]
      BY <1>17 DEF Expire, ForgetReceipt, DeleteSession, AbortSession
    <3>3. receipts' \in [Sessions -> Event \cup {NoEvent}]
      BY <3>1 DEF Typed
    <3>4. none \in Seq(Object)
      OBVIOUS
    <3> HIDE DEF none
    <3>5. finals' \in [Sessions -> Seq(Object)]
      <4>1. finals \in [Sessions -> Seq(Object)]
        BY DEF Typed
      <4>2. CASE finals' = finals
        BY <4>1, <4>2
      <4>3. CASE finals' = [finals EXCEPT ![s] = none]
        BY <3>4, <4>1, <4>3
      <4> QED BY <3>2, <4>2, <4>3
    <3> QED BY <3>3, <3>5
  <2>3. /\ UNCHANGED <<intents, waiting, finalized, held, stored, work, answered>>
    BY <1>17 DEF Expire, ForgetReceipt, DeleteSession, AbortSession, dbVars
  <2> QED BY <2>1, <2>2, <2>3 DEF Typed, WorkTyped
<1>18. ASSUME NEW h \in Hashes, NEW p \in Place, Erase(h, p)
       PROVE  Typed'
  <2>1. [stored[h][p] EXCEPT !.now = 0] \in Copy
    <3>1. stored[h][p] \in Copy
      BY DEF Typed
    <3> QED BY <3>1 DEF Copy
  <2>2. stored' \in [Hashes -> [Place -> Copy]]
    BY <1>18, <2>1 DEF Erase, Typed
  <2> QED BY <1>18, <2>2 DEF Erase, Typed, WorkTyped, dbVars, sessionVars
<1>19. ASSUME NEW r \in Recoverers, Peek(r) \/ Pick(r) \/ Consider(r) \/ ReadNext(r)
       PROVE  Typed'
  <2>0. r \in Actors
    BY DEF Actors
  <2>1. CASE Peek(r)
    <3>1. First[1] \in Hashes
      BY <2>1, FirstPending DEF Peek, Keys
    <3>2. [phase |-> "peeked", budget |-> 2 * Size[First[1]]] \in Peeked
      BY <3>1 DEF Peeked
    <3>3. WorkTyped'
      BY <2>0, <2>1, <3>2, SetWork DEF Peek, Typed
    <3> QED BY <2>1, <3>3 DEF Peek, Typed, dbVars, sessionVars
  <2>2. CASE Pick(r)
    <3>1. work[r] \in Peeked
      BY <2>0, <2>2, Tasked DEF Pick
    <3> DEFINE new == [phase |-> "picked", budget |-> work[r].budget, key |-> First,
                       policy |-> intents[First].policy]
    <3>2. Queue # {} => new \in Picked
      BY <3>1, FirstPending DEF Peeked, Picked
    <3>3. work' = [work EXCEPT ![r] = IF Queue = {} THEN Idle ELSE new]
      BY <2>2 DEF Pick
    <3> HIDE DEF new
    <3>4. WorkTyped'
      BY <2>0, <3>2, <3>3, SetWork DEF Typed
    <3> QED BY <2>2, <3>4 DEF Pick, Typed, dbVars, sessionVars
  <2>3. CASE Consider(r)
    <3> DEFINE w == work[r]
               c == RunsWith[r]
               d == [c EXCEPT !.mode = w.policy.mode]
    <3>1. w.key \in Keys /\ w.policy \in Config /\ c \in Config
      BY <2>0, <2>3, Tasked DEF Consider, Picked
    <3>2. /\ waiting' = Touched(waiting, w.key)
          /\ work' = [work EXCEPT ![r] = IF Affordable(w, c)
                                         THEN Task("reading", w.key, NoSession, d, <<>>) ELSE Idle]
      BY <2>3 DEF Consider, Rotated
    <3>3. Affordable(w, c) => d \in Config
      BY <3>1, TakesMode DEF Affordable
    <3>4. Affordable(w, c) => Task("reading", w.key, NoSession, d, <<>>) \in OfRecovery
      BY <3>1, <3>3 DEF Task, OfRecovery
    <3>5. WorkTyped'
      BY <2>0, <3>2, <3>4, SetWork DEF Typed
    <3>6. waiting' \in Seq(Keys)
      BY <3>1, <3>2, TouchedKeeps DEF Typed
    <3> QED BY <2>3, <3>5, <3>6 DEF Consider, Typed, sessionVars
  <2>4. CASE ReadNext(r)
    <3> DEFINE t == work[r]
               p == NextPlace(t)
               v == stored[t.key[1]][p].now
               new == [t EXCEPT !.objects = Append(t.objects, [at |-> p, version |-> v])]
    <3>1. t \in OfRecovery
      BY <2>0, <2>4, Tasked DEF ReadNext
    <3>2. t.key[1] \in Hashes /\ p \in Place
      <4>1. t.key[1] \in Hashes /\ t.store \in Config /\ t.objects \in Seq(Object)
        BY <3>1, Proposing
      <4> QED BY <2>4, <4>1, NextIsPlace DEF ReadNext
    <3>3. v # 0 => v \in 1..MaxVersions
      <4>1. stored[t.key[1]][p] \in Copy
        BY <3>2 DEF Typed
      <4> QED BY <4>1 DEF Copy
    <3>4. work' = [work EXCEPT ![r] = IF v = 0 THEN Idle ELSE new]
      BY <2>4 DEF ReadNext
    <3> HIDE DEF p, v
    <3>5. v # 0 => new \in OfRecovery
      <4>1. v # 0 => Append(t.objects, [at |-> p, version |-> v]) \in Seq(Object)
        BY <3>1, <3>2, <3>3, AddObject DEF OfRecovery
      <4> QED BY <3>1, <4>1 DEF OfRecovery
    <3> HIDE DEF new
    <3>6. WorkTyped'
      BY <2>0, <3>4, <3>5, SetWork DEF Typed
    <3> QED BY <2>4, <3>6 DEF ReadNext, Typed, dbVars, sessionVars
  <2> QED BY <1>19, <2>1, <2>2, <2>3, <2>4
<1>20. CASE UNCHANGED vars
  BY <1>20 DEF vars, Typed, WorkTyped
<1> QED BY <1>1, <1>2, <1>3, <1>4, <1>5, <1>6, <1>7, <1>8, <1>11, <1>12, <1>13, <1>14, <1>15,
           <1>16, <1>17, <1>18, <1>19, <1>20 DEF Next, Outside, Recovery, Actors

-----------------------------------------------------------------------------
(* What a step does to intents and events. *)

\* A request reserves an intent, for the content of its session if it has one.
Reserving ==
    \E a \in Requests, k \in Keys, s \in Sessions \cup {NoSession}, c \in Config :
        /\ s # NoSession => k = ContentOf[s]
        /\ \E resume \in BOOLEAN : Reserve(a, k, s, c, resume)
        /\ UNCHANGED <<finalized, receipts, sessions, finals, stored, answered>>

\* Direct uploads, migrations and completions of sessions reserve theirs.
LEMMA Reservations ==
    ASSUME Typed
    PROVE  /\ \A a \in Requests, k \in Keys, c \in Deployments :
                BeginDirect(a, k, c) => Reserving
           /\ \A a \in Requests, s \in Sessions, c \in Deployments :
                BeginSession(a, s, c) => Reserving
<1>1. ASSUME NEW a \in Requests, NEW k \in Keys, NEW c \in Deployments, BeginDirect(a, k, c)
      PROVE  Reserving
  BY <1>1, OutboxConstants DEF BeginDirect, Reserving
<1>2. ASSUME NEW a \in Requests, NEW s \in Sessions, NEW c \in Deployments, BeginSession(a, s, c)
      PROVE  Reserving
  <2> DEFINE d == [c EXCEPT !.mode = sessions[s].policy.mode]
             k == ContentOf[s]
  <2>1. d \in Config /\ k \in Keys /\ s # NoSession
    BY <1>2, SessionMode, OutboxConstants DEF BeginSession
  <2>2. /\ Reserve(a, k, s, d, FALSE)
        /\ UNCHANGED <<finalized, receipts, sessions, finals, stored, answered>>
    BY <1>2 DEF BeginSession
  <2>3. FALSE \in BOOLEAN /\ s \in Sessions \cup {NoSession} /\ k = ContentOf[s]
    OBVIOUS
  <2> HIDE DEF d, k
  <2>4. \E resume \in BOOLEAN : Reserve(a, k, s, d, resume)
    BY <2>2, <2>3
  <2>5. k = ContentOf[s]
    BY <2>3 DEF k
  <2> QED BY <2>1, <2>2, <2>3, <2>4, <2>5, Zenon DEF Reserving
<1> QED BY <1>1, <1>2

\* Only reservations and recorded events change intents, and only the latter
\* change the events.
LEMMA Frame ==
    ASSUME Typed, [Next]_vars
    PROVE  \/ Reserving
           \/ \E a \in Actors : Enqueue(a)
           \/ UNCHANGED <<intents, finalized>>
<1> SUFFICES ASSUME ~\E a \in Actors : Enqueue(a)
             PROVE  Reserving \/ UNCHANGED <<intents, finalized>>
  OBVIOUS
<1>1. ASSUME NEW a \in Actors
      PROVE  /\ \A s \in Sessions :
                   /\ AnswerReplay(a, s) => UNCHANGED <<intents, finalized>>
                   /\ \A c \in Deployments : ResumeSession(a, s, c) => UNCHANGED <<intents, finalized>>
             /\ StoreNext(a) \/ SaveObjects(a) \/ SaveSession(a) \/ FinalObjects(a)
                   => UNCHANGED <<intents, finalized>>
             /\ AdoptHistory(a) \/ AnswerReceipt(a) \/ Conflict(a) \/ Fail(a)
                   => UNCHANGED <<intents, finalized>>
             /\ Peek(a) \/ Pick(a) \/ Consider(a) \/ ReadNext(a)
                   => UNCHANGED <<intents, finalized>>
  BY DEF AnswerReplay, ResumeSession, StoreNext, SaveObjects, SaveSession, FinalObjects,
         AdoptHistory, AnswerReceipt, Conflict, Fail, Peek, Pick, Consider, ReadNext, dbVars
<1>2. ASSUME NEW s \in Sessions
      PROVE  /\ \A c \in Deployments : CreateSession(s, c) => UNCHANGED <<intents, finalized>>
             /\ LoseLock(s) \/ Expire(s) \/ ForgetReceipt(s) \/ DeleteSession(s) \/ AbortSession(s)
                   => UNCHANGED <<intents, finalized>>
  BY DEF CreateSession, LoseLock, Expire, ForgetReceipt, DeleteSession, AbortSession, dbVars
<1>3. \A h \in Hashes, p \in Place : Erase(h, p) => UNCHANGED <<intents, finalized>>
  BY DEF Erase, dbVars
<1>4. CASE UNCHANGED vars
  BY <1>4 DEF vars
<1> QED BY <1>1, <1>2, <1>3, <1>4, Reservations DEF Next, Outside, Recovery, Actors

\* A recorded event joins those of its hash, and none leaves.
LEMMA Recorded ==
    ASSUME Typed, NEW a \in Actors, Enqueue(a)
    PROVE  /\ \A h \in Hashes : Listed(finalized[h]) \subseteq Listed(finalized'[h])
           /\ Events \subseteq Events'
           /\ Proposed(work[a]) \in Events'
           /\ Proposed(work[a]).key = work[a].key
           /\ Proposed(work[a]).objects = work[a].objects
<1> DEFINE t == work[a]
           e == Proposed(t)
           old == finalized[t.key[1]]
           new == finalized'[t.key[1]]
<1>1. t \in OfRequest \cup OfRecovery
  BY Tasked DEF Enqueue
<1>2. e \in Event /\ t.key[1] \in Hashes
  BY <1>1, Proposing
<1>3. finalized' = [finalized EXCEPT ![t.key[1]] = Touched(old, e)]
  BY DEF Enqueue
<1>4. e.key = t.key /\ e.objects = t.objects
  BY DEF Proposed
<1>5. old \in Seq(Event) /\ new = Touched(old, e)
  BY <1>2, <1>3 DEF Typed
<1>6. \A h \in Hashes : h # t.key[1] => finalized'[h] = finalized[h]
  BY <1>2, <1>3 DEF Typed
<1> HIDE DEF e
<1>7. Listed(new) = Listed(old) \cup {e}
  <2> HIDE DEF old, new
  <2> QED BY <1>2, <1>5, TouchedKeeps
<1>8. \A h \in Hashes : Listed(finalized[h]) \subseteq Listed(finalized'[h])
  BY <1>6, <1>7
<1>9. /\ Events = UNION {Listed(finalized[h]) : h \in Hashes}
      /\ Events' = UNION {Listed(finalized'[h]) : h \in Hashes}
  BY DEF Events, Listed
<1>10. Events \subseteq Events' /\ e \in Events'
  BY <1>2, <1>7, <1>8, <1>9
<1> QED BY <1>4, <1>8, <1>10 DEF e

\* Events stay.
LEMMA EventsStay ==
    ASSUME Typed, [Next]_vars
    PROVE  Events \subseteq Events'
<1>1. CASE UNCHANGED finalized
  BY <1>1 DEF Events
<1>2. CASE Reserving
  BY <1>2 DEF Reserving, Events
<1>3. ASSUME NEW a \in Actors, Enqueue(a) PROVE Events \subseteq Events'
  BY <1>3, Recorded
<1> QED BY <1>1, <1>2, <1>3, Frame

\* An intent that is known stays known, and is completed by an event in the
\* places of its policy only.
LEMMA IntentsStay ==
    ASSUME Typed, Intended, [Next]_vars, NEW k \in Keys
    PROVE  /\ intents[k] # Unknown => intents'[k] # Unknown
           /\ intents'[k].state = "completed" =>
                \/ intents'[k] = intents[k]
                \/ \E a \in Actors : /\ Enqueue(a) /\ work[a].key = k
                                     /\ intents'[k].policy = intents[k].policy
<1>1. CASE UNCHANGED intents
  BY <1>1
<1>2. CASE Reserving
  <2>1. PICK a \in Requests, l \in Keys, c \in Config : intents' = [intents EXCEPT ![l] = Upserted(intents[l], c)]
    BY <1>2 DEF Reserving, Reserve
  <2>2. intents[l] \in Intent
    BY DEF Typed
  <2>3. /\ Upserted(intents[l], c) # Unknown
        /\ Upserted(intents[l], c).state = "completed" => Upserted(intents[l], c) = intents[l]
    BY <2>2, Upserting
  <2> QED BY <2>1, <2>3 DEF Typed
<1>3. ASSUME NEW a \in Actors, Enqueue(a)
      PROVE  /\ intents[k] # Unknown => intents'[k] # Unknown
             /\ intents'[k].state = "completed" =>
                  \/ intents'[k] = intents[k]
                  \/ work[a].key = k /\ intents'[k].policy = intents[k].policy
  <2>1. intents' = [intents EXCEPT ![work[a].key].state = "completed"]
    BY <1>3 DEF Enqueue
  <2>2. work[a].key \in Keys /\ intents[work[a].key] # Unknown
    BY <1>3, Tasked, Proposing DEF Enqueue, Intended
  <2>3. intents[work[a].key] \in [state : {"pending", "completed"}, policy : Config]
    BY <2>2 DEF Typed, Intent
  <2>4. [intents[work[a].key] EXCEPT !.state = "completed"] # Unknown
    BY <2>3 DEF Unknown
  <2>5. [intents[work[a].key] EXCEPT !.state = "completed"].policy = intents[work[a].key].policy
    BY <2>3
  <2> QED BY <2>1, <2>2, <2>4, <2>5 DEF Typed
<1> QED BY <1>1, <1>2, <1>3, Frame

-----------------------------------------------------------------------------
(* Tasks keep what they know of their intents and sessions. *)

Claimed(a) ==
    /\ intents[work[a].key] # Unknown
    /\ a \in Requests =>
        /\ work[a].session # NoSession => work[a].key = ContentOf[work[a].session]
        /\ work[a].phase # "writing" => work[a].session # NoSession

\* A task that goes on has the key and the session it had.
LEMMA GoesOn ==
    ASSUME Typed, Intended, Sessioned, [Next]_vars, NEW a \in Tasks, a \in Tasks',
           work'[a].key = work[a].key,
           a \in Requests =>
               /\ work'[a].session = work[a].session
               /\ work[a].phase # "writing" => work'[a].phase # "writing"
               /\ work'[a].phase # "writing" => work[a].session # NoSession
    PROVE  Claimed(a)'
<1>1. a \in Actors /\ work[a].key \in Keys
  BY Tasked, Proposing DEF Tasks, Picked
<1>2. intents[work[a].key] # Unknown
  BY DEF Intended
<1>3. intents'[work[a].key] # Unknown
  BY <1>1, <1>2, IntentsStay
<1> QED BY <1>1, <1>3 DEF Sessioned, Claimed

\* A request that reserves an intent works for it.
LEMMA ReservedClaim ==
    ASSUME Typed, Reserving, NEW b \in Actors, work'[b] # work[b]
    PROVE  Claimed(b)'
<1>1. PICK a \in Requests, k \in Keys, s \in Sessions \cup {NoSession}, c \in Config :
         /\ s # NoSession => k = ContentOf[s]
         /\ \E resume \in BOOLEAN : Reserve(a, k, s, c, resume)
  BY DEF Reserving
<1> DEFINE i == Upserted(intents[k], c)
           d == [c EXCEPT !.mode = i.policy.mode]
<1>2. /\ intents' = [intents EXCEPT ![k] = i]
      /\ work' = work \/ work' = [work EXCEPT ![a] = Task("writing", k, s, d, <<>>)]
  BY <1>1 DEF Reserve
<1>3. i # Unknown
  BY Upserting DEF Typed
<1> HIDE DEF i, d
<1>4. work'[b] = Task("writing", k, s, d, <<>>)
  BY <1>2 DEF Typed, WorkTyped
<1>5. work'[b].key = k /\ work'[b].session = s /\ work'[b].phase = "writing"
  BY <1>4 DEF Task
<1>6. intents'[k] # Unknown
  BY <1>2, <1>3 DEF Typed
<1> QED BY <1>1, <1>5, <1>6 DEF Claimed

\* Whoever has a task after a step can account for it.
LEMMA ClaimsKept ==
    ASSUME Typed, Intended, Sessioned, [Next]_vars, NEW b \in Actors, b \in Tasks'
    PROVE  Claimed(b)'
<1> USE OutboxConstants
<1>1. CASE work'[b] = work[b]
  <2>1. b \in Tasks
    BY <1>1 DEF Tasks
  <2>2. b \in Requests /\ work[b].phase # "writing" => work[b].session # NoSession
    BY <2>1 DEF Sessioned
  <2> QED BY <1>1, <2>1, <2>2, GoesOn
<1> SUFFICES ASSUME work'[b] # work[b] PROVE Claimed(b)'
  BY <1>1
<1>2. ASSUME NEW v, NEW a \in Actors, work' = [work EXCEPT ![a] = v]
      PROVE  b = a /\ work'[b] = v
  BY <1>2 DEF Typed, WorkTyped
<1>3. ~\E a \in Actors : Finish(a)
  BY <1>2 DEF Finish, Tasks, Idle
<1>4. ASSUME NEW a \in Requests, NEW s \in Sessions, NEW c \in Deployments, ResumeSession(a, s, c)
      PROVE  Claimed(b)'
  <2>1. work' = [work EXCEPT ![a] = Task("saved", ContentOf[s], s, c, <<>>)]
    BY <1>4 DEF ResumeSession
  <2>2. work'[b] = Task("saved", ContentOf[s], s, c, <<>>)
    BY <1>2, <2>1 DEF Actors
  <2>3. work'[b].key = ContentOf[s] /\ work'[b].session = s
    BY <2>2 DEF Task
  <2>4. intents'[ContentOf[s]] # Unknown
    BY <1>4 DEF ResumeSession, Intended
  <2> QED BY <2>3, <2>4 DEF Claimed
<1>5. ASSUME NEW a \in Requests, StoreNext(a) \/ SaveObjects(a) \/ SaveSession(a) \/ FinalObjects(a)
      PROVE  Claimed(b)'
  <2>0. a \in Actors
    BY DEF Actors
  <2>1. a \in Tasks /\ work[a] \in OfRequest
    BY <1>5, <2>0, Tasked DEF Tasks, StoreNext, SaveObjects, SaveSession, FinalObjects
  <2> DEFINE t == work[a]
  <2>2. PICK v : /\ work' = [work EXCEPT ![a] = v]
                 /\ v.key = t.key /\ v.session = t.session
                 /\ \/ v.phase = t.phase
                    \/ v.phase # "writing" /\ (t.phase # "writing" \/ t.session # NoSession)
    <3>1. CASE StoreNext(a)
      <4> DEFINE p == NextPlace(t)
                 o == stored[t.key[1]][p]
                 n == IF o.now # 0 THEN o.now ELSE o.last + 1
                 v == [t EXCEPT !.objects = Append(t.objects, [at |-> p, version |-> n])]
      <4>1. work' = [work EXCEPT ![a] = v]
        BY <3>1 DEF StoreNext
      <4>2. v.key = t.key /\ v.session = t.session /\ v.phase = t.phase
        BY <2>1 DEF OfRequest
      <4> HIDE DEF v
      <4> QED BY <4>1, <4>2
    <3>2. CASE SaveObjects(a)
      <4> DEFINE v == [t EXCEPT !.phase = "recorded"]
      <4>1. work' = [work EXCEPT ![a] = v] /\ t.session # NoSession
        BY <3>2 DEF SaveObjects
      <4>2. v.key = t.key /\ v.session = t.session /\ v.phase = "recorded"
        BY <2>1 DEF OfRequest
      <4> HIDE DEF v
      <4> QED BY <4>1, <4>2
    <3>3. CASE SaveSession(a)
      <4> DEFINE v == [t EXCEPT !.phase = "saved", !.objects = <<>>]
      <4>1. work' = [work EXCEPT ![a] = v] /\ t.phase = "recorded"
        BY <3>3 DEF SaveSession
      <4>2. v.key = t.key /\ v.session = t.session /\ v.phase = "saved"
        BY <2>1 DEF OfRequest
      <4> HIDE DEF v
      <4> QED BY <4>1, <4>2
    <3>4. CASE FinalObjects(a)
      <4> DEFINE y == finals[t.session]
                 z == <<[at |-> Gcs(t.store), version |-> stored[t.key[1]][Gcs(t.store)].now]>>
                 v(x) == [t EXCEPT !.phase = "ready", !.objects = x]
      <4>1. (work' = [work EXCEPT ![a] = v(y)] \/ work' = [work EXCEPT ![a] = v(z)]) /\ t.phase = "saved"
        BY <3>4 DEF FinalObjects
      <4>2. \A x : v(x).key = t.key /\ v(x).session = t.session /\ v(x).phase = "ready"
        BY <2>1 DEF OfRequest
      <4> HIDE DEF v
      <4> QED BY <4>1, <4>2
    <3> QED BY <1>5, <3>1, <3>2, <3>3, <3>4
  <2>3. b = a /\ work'[b] = v
    BY <1>2, <2>0, <2>2
  <2>4. t.phase # "writing" => t.session # NoSession
    BY <2>1 DEF Sessioned
  <2> QED BY <2>1, <2>2, <2>3, <2>4, GoesOn
<1>6. ASSUME NEW r \in Recoverers, Peek(r) \/ Pick(r) \/ Consider(r) \/ ReadNext(r)
      PROVE  Claimed(b)'
  <2>0. r \in Actors /\ r \notin Requests
    BY DEF Actors
  <2>1. ~Peek(r)
    <3>1. \A v : v.phase = "peeked" => work' # [work EXCEPT ![r] = v]
      BY <1>2, <2>0 DEF Tasks
    <3> QED BY <3>1 DEF Peek
  <2>2. CASE Pick(r)
    <3> DEFINE new == [phase |-> "picked", budget |-> work[r].budget, key |-> First,
                       policy |-> intents[First].policy]
    <3>1. work' = [work EXCEPT ![r] = IF Queue = {} THEN Idle ELSE new]
      BY <2>2 DEF Pick
    <3>2. new.key = First
      OBVIOUS
    <3> HIDE DEF new
    <3>3. b = r /\ work'[b] = IF Queue = {} THEN Idle ELSE new
      BY <1>2, <2>0, <3>1
    <3>4. Queue # {}
      BY <3>3 DEF Tasks, Idle
    <3>5. intents'[First] # Unknown
      BY <2>2, <3>4, FirstPending DEF Pick, dbVars
    <3> QED BY <2>0, <3>2, <3>3, <3>4, <3>5 DEF Claimed
  <2>3. CASE Consider(r)
    <3> DEFINE w == work[r]
               new == Task("reading", w.key, NoSession, [RunsWith[r] EXCEPT !.mode = w.policy.mode], <<>>)
    <3>1. work' = [work EXCEPT ![r] = IF Affordable(w, RunsWith[r]) THEN new ELSE Idle]
      BY <2>3 DEF Consider
    <3>2. new.key = w.key
      BY DEF Task
    <3> HIDE DEF new
    <3>3. b = r /\ work'[b] = IF Affordable(w, RunsWith[r]) THEN new ELSE Idle
      BY <1>2, <2>0, <3>1
    <3>4. work'[b].key = work[r].key
      BY <3>2, <3>3 DEF Tasks, Idle
    <3>5. r \in Tasks
      BY <2>0, <2>3 DEF Consider, Tasks
    <3> QED BY <2>0, <3>3, <3>4, <3>5, GoesOn
  <2>4. CASE ReadNext(r)
    <3> DEFINE t == work[r]
               p == NextPlace(t)
               n == stored[t.key[1]][p].now
               new == [t EXCEPT !.objects = Append(t.objects, [at |-> p, version |-> n])]
    <3>1. work' = [work EXCEPT ![r] = IF n = 0 THEN Idle ELSE new]
      BY <2>4 DEF ReadNext
    <3>2. t \in OfRecovery
      BY <2>0, <2>4, Tasked DEF ReadNext
    <3>3. new.key = t.key
      BY <3>2 DEF OfRecovery
    <3> HIDE DEF n, new
    <3>4. b = r /\ work'[b] = IF n = 0 THEN Idle ELSE new
      BY <1>2, <2>0, <3>1
    <3>5. work'[b].key = work[r].key
      BY <3>3, <3>4 DEF Tasks, Idle
    <3>6. r \in Tasks
      BY <2>0, <2>4 DEF ReadNext, Tasks
    <3> QED BY <2>0, <3>4, <3>5, <3>6, GoesOn
  <2> QED BY <1>6, <2>1, <2>2, <2>3, <2>4
<1>7. ASSUME NEW a \in Actors, Enqueue(a) \/ AdoptHistory(a) \/ AnswerReceipt(a) \/ Conflict(a) \/ Fail(a)
      PROVE  FALSE
  BY <1>3, <1>7 DEF Enqueue, AdoptHistory, AnswerReceipt, Conflict, Fail
<1>8. work' # work
  OBVIOUS
<1>9. ASSUME NEW s \in Sessions
      PROVE  /\ \A a \in Requests : ~AnswerReplay(a, s)
             /\ \A c \in Deployments : ~CreateSession(s, c)
             /\ ~(LoseLock(s) \/ Expire(s) \/ ForgetReceipt(s) \/ DeleteSession(s) \/ AbortSession(s))
  BY <1>8 DEF AnswerReplay, CreateSession, LoseLock, Expire, ForgetReceipt, DeleteSession,
              AbortSession
<1>10. \A h \in Hashes, p \in Place : ~Erase(h, p)
  BY <1>8 DEF Erase
<1>11. ~UNCHANGED vars
  BY <1>8 DEF vars
<1> QED BY <1>4, <1>5, <1>6, <1>7, <1>9, <1>10, <1>11, Reservations, ReservedClaim
        DEF Next, Outside, Recovery, Actors

\* Only save finishes a session, that of the request's key.
LEMMA SavedSessions ==
    ASSUME Typed, Sessioned, [Next]_vars, NEW s \in Sessions,
           sessions'[s].state = "finalized", sessions[s].state # "finalized"
    PROVE  \E a \in Requests : /\ a \in Tasks /\ work[a].session = s
                               /\ work[a].key = ContentOf[s]
<1> USE OutboxConstants
<1>1. ASSUME NEW a \in Requests, SaveSession(a)
      PROVE  a \in Tasks /\ work[a].session = s /\ work[a].key = ContentOf[s]
  <2>1. a \in Tasks /\ work[a].session \in Sessions
    <3>1. a \in Actors
      BY DEF Actors
    <3>2. a \in Tasks /\ work[a] \in OfRequest /\ work[a].phase = "recorded"
      BY <1>1, <3>1, Tasked DEF SaveSession, Tasks
    <3>3. work[a].session # NoSession
      BY <3>2 DEF Sessioned
    <3> QED BY <3>2, <3>3 DEF OfRequest
  <2>2. sessions' = [sessions EXCEPT ![work[a].session].state = "finalized"]
    BY <1>1 DEF SaveSession
  <2>3. work[a].session = s
    BY <2>1, <2>2 DEF Typed
  <2> QED BY <2>1, <2>3 DEF Sessioned
<1>2. ASSUME NEW x \in Sessions, NEW c \in Deployments, CreateSession(x, c)
      PROVE  FALSE
  BY <1>2 DEF CreateSession, Typed
<1>3. ASSUME NEW x \in Sessions,
             Expire(x) \/ ForgetReceipt(x) \/ DeleteSession(x) \/ AbortSession(x)
      PROVE  FALSE
  <2>1. sessions[x] \in Created
    BY <1>3 DEF Expire, ForgetReceipt, DeleteSession, AbortSession, Exists, Typed, Session
  <2>2. \/ sessions' = [sessions EXCEPT ![x].age = "expired"]
        \/ sessions' = [sessions EXCEPT ![x].age = "forgotten"]
        \/ sessions' = [sessions EXCEPT ![x].state = "deleted"]
    BY <1>3 DEF Expire, ForgetReceipt, DeleteSession, AbortSession
  <2> DEFINE y == [sessions[x] EXCEPT !.age = "expired"]
             z == [sessions[x] EXCEPT !.age = "forgotten"]
             d == [sessions[x] EXCEPT !.state = "deleted"]
  <2>3. PICK v \in {y, z, d} : sessions' = [sessions EXCEPT ![x] = v]
    BY <2>2
  <2>4. y.state = sessions[x].state /\ z.state = sessions[x].state /\ d.state = "deleted"
    BY <2>1 DEF Created
  <2> HIDE DEF y, z, d
  <2>5. v.state = "finalized" => sessions[x].state = "finalized"
    BY <2>4
  <2>6. sessions'[s] = IF x = s THEN v ELSE sessions[s]
    BY <2>3 DEF Typed
  <2> QED BY <2>5, <2>6
<1>4. sessions' # sessions
  OBVIOUS
<1>5. ASSUME NEW a \in Actors
      PROVE  /\ \A x \in Sessions : ~AnswerReplay(a, x)
             /\ \A x \in Sessions, c \in Deployments : ~ResumeSession(a, x, c)
             /\ ~(StoreNext(a) \/ SaveObjects(a) \/ FinalObjects(a))
             /\ ~(Enqueue(a) \/ AdoptHistory(a) \/ AnswerReceipt(a) \/ Conflict(a) \/ Fail(a))
             /\ ~(Peek(a) \/ Pick(a) \/ Consider(a) \/ ReadNext(a))
  BY <1>4 DEF AnswerReplay, ResumeSession, StoreNext, SaveObjects, FinalObjects, Enqueue,
              AdoptHistory, AnswerReceipt, Conflict, Fail, Peek, Pick, Consider, ReadNext, sessionVars
<1>6. /\ ~Reserving
      /\ \A x \in Sessions : ~LoseLock(x)
      /\ \A h \in Hashes, p \in Place : ~Erase(h, p)
      /\ ~UNCHANGED vars
  BY <1>4 DEF Reserving, LoseLock, Erase, sessionVars, vars
<1> QED BY <1>1, <1>2, <1>3, <1>5, <1>6, Reservations DEF Next, Outside, Recovery, Actors

\* So intents stay known to those who need them.
LEMMA ClaimsStep ==
    ASSUME Typed, Intended, Sessioned, [Next]_vars
    PROVE  Intended' /\ Sessioned'
<1>1. \A b \in Tasks' : Claimed(b)'
  BY ClaimsKept DEF Tasks
<1>2. ASSUME NEW s \in Sessions, sessions'[s].state = "finalized"
      PROVE  intents'[ContentOf[s]] # Unknown
  <2>1. intents[ContentOf[s]] # Unknown
    <3>1. CASE sessions[s].state = "finalized"
      BY <3>1 DEF Intended
    <3>2. CASE sessions[s].state # "finalized"
      BY <1>2, <3>2, SavedSessions DEF Intended
    <3> QED BY <3>1, <3>2
  <2> QED BY <2>1, IntentsStay, OutboxConstants
<1> QED BY <1>1, <1>2 DEF Intended, Sessioned, Claimed

-----------------------------------------------------------------------------
(* What is recorded. *)

\* What a recorded event is put into.
LEMMA Recording ==
    ASSUME Typed, Sessioned, NEW a \in Actors, Enqueue(a) \/ AdoptHistory(a)
    PROVE  /\ Proposed(work[a]) \in Events'
           /\ Proposed(work[a]) # NoEvent
           /\ Proposed(work[a]).key = work[a].key
           /\ work[a].session \in Sessions \cup {NoSession}
           /\ receipts' = IF work[a].session = NoSession THEN receipts
                          ELSE [receipts EXCEPT ![work[a].session] = Proposed(work[a])]
           /\ work[a].session # NoSession => work[a].key = ContentOf[work[a].session]
           /\ Unreceipted(work[a])
           /\ Answer(a, work[a])
<1>1. a \in Tasks /\ work[a] \in OfRequest \cup OfRecovery
  BY Tasked DEF Enqueue, AdoptHistory
<1>2. /\ Proposed(work[a]) # NoEvent
      /\ work[a].session \in Sessions \cup {NoSession}
      /\ Proposed(work[a]).key = work[a].key
  BY <1>1, Proposing DEF Proposed
<1>3. work[a].session # NoSession => work[a].key = ContentOf[work[a].session]
  <2>1. work[a].session # NoSession => work[a] \in OfRequest
    BY <1>1 DEF OfRecovery
  <2>2. work[a] \in OfRequest => a \in Requests
    BY <1>1, Tasked DEF OfRequest
  <2> QED BY <1>1, <2>1, <2>2 DEF Sessioned
<1>4. CASE Enqueue(a)
  <2>1. Proposed(work[a]) \in Events'
    BY <1>4, Recorded
  <2> QED BY <1>2, <1>3, <1>4, <2>1 DEF Enqueue
<1>5. CASE AdoptHistory(a)
  <2>1. Events' = Events
    BY <1>5 DEF AdoptHistory, Events
  <2> QED BY <1>2, <1>3, <1>5, <2>1 DEF AdoptHistory
<1> QED BY <1>4, <1>5

\* What a step does to receipts and to answers.
LEMMA Receipts ==
    ASSUME Typed, [Next]_vars
    PROVE  /\ \/ UNCHANGED receipts
              \/ \E s \in Sessions : receipts' = [receipts EXCEPT ![s] = NoEvent]
              \/ \E a \in Actors : Enqueue(a) \/ AdoptHistory(a)
           /\ \/ UNCHANGED answered
              \/ \E a \in Requests, s \in Sessions : AnswerReplay(a, s)
              \/ \E a \in Actors : Enqueue(a) \/ AdoptHistory(a) \/ AnswerReceipt(a)
<1> USE OutboxConstants
<1>1. ASSUME NEW s \in Sessions
      PROVE  /\ LoseLock(s) \/ Expire(s) \/ DeleteSession(s) \/ AbortSession(s)
                    => UNCHANGED <<receipts, answered>>
             /\ ForgetReceipt(s) =>
                    receipts' = [receipts EXCEPT ![s] = NoEvent] /\ UNCHANGED answered
             /\ \A c \in Deployments : CreateSession(s, c) => UNCHANGED <<receipts, answered>>
  BY DEF CreateSession, LoseLock, Expire, ForgetReceipt, DeleteSession, AbortSession, dbVars
<1>2. ASSUME NEW a \in Actors
      PROVE  /\ \A s \in Sessions, c \in Deployments :
                    ResumeSession(a, s, c) => UNCHANGED <<receipts, answered>>
             /\ \A s \in Sessions : AnswerReplay(a, s) => UNCHANGED receipts
             /\ StoreNext(a) \/ SaveObjects(a) \/ SaveSession(a) \/ FinalObjects(a)
                    => UNCHANGED <<receipts, answered>>
             /\ AnswerReceipt(a) => UNCHANGED receipts
             /\ Conflict(a) \/ Fail(a) => UNCHANGED <<receipts, answered>>
             /\ Peek(a) \/ Pick(a) \/ Consider(a) \/ ReadNext(a)
                    => UNCHANGED <<receipts, answered>>
  BY DEF ResumeSession, AnswerReplay, StoreNext, SaveObjects, SaveSession, FinalObjects,
         AnswerReceipt, Conflict, Fail, Peek, Pick, Consider, ReadNext, dbVars
<1>3. /\ Reserving => UNCHANGED <<receipts, answered>>
      /\ \A h \in Hashes, p \in Place : Erase(h, p) => UNCHANGED <<receipts, answered>>
      /\ UNCHANGED vars => UNCHANGED <<receipts, answered>>
  BY DEF Reserving, Erase, dbVars, vars
<1> DEFINE P == \/ UNCHANGED receipts
                \/ \E s \in Sessions : receipts' = [receipts EXCEPT ![s] = NoEvent]
                \/ \E a \in Actors : Enqueue(a) \/ AdoptHistory(a)
           Q == \/ UNCHANGED answered
                \/ \E a \in Requests, s \in Sessions : AnswerReplay(a, s)
                \/ \E a \in Actors : Enqueue(a) \/ AdoptHistory(a) \/ AnswerReceipt(a)
<1>4. UNCHANGED <<receipts, answered>> => P /\ Q
  OBVIOUS
<1>5. \A s \in Sessions : receipts' = [receipts EXCEPT ![s] = NoEvent] /\ UNCHANGED answered => P /\ Q
  OBVIOUS
<1>6. \A a \in Actors : Enqueue(a) \/ AdoptHistory(a) => P /\ Q
  OBVIOUS
<1>7. \A a \in Requests, s \in Sessions : AnswerReplay(a, s) /\ UNCHANGED receipts => P /\ Q
  OBVIOUS
<1>8. \A a \in Actors : AnswerReceipt(a) /\ UNCHANGED receipts => P /\ Q
  OBVIOUS
<1>9. P /\ Q
  <2> HIDE DEF P, Q
  <2> QED BY <1>1, <1>2, <1>3, <1>4, <1>5, <1>6, <1>7, <1>8, Reservations
          DEF Next, Outside, Recovery, Actors
<1> QED BY <1>9

\* Receipts stay those of events of their sessions.
LEMMA ReceiptedStep ==
    ASSUME Typed, Sessioned, Receipted, [Next]_vars
    PROVE  Receipted'
<1> SUFFICES ASSUME NEW s \in Sessions, receipts'[s] # NoEvent
             PROVE  receipts'[s] \in Events' /\ receipts'[s].key = ContentOf[s]
  BY DEF Receipted, HasReceipt
<1>1. CASE receipts'[s] = receipts[s]
  BY <1>1, EventsStay DEF Receipted, HasReceipt
<1>2. ASSUME NEW x \in Sessions, receipts' = [receipts EXCEPT ![x] = NoEvent]
      PROVE  receipts'[s] = receipts[s]
  BY <1>2 DEF Typed
<1>3. ASSUME NEW a \in Actors, Enqueue(a) \/ AdoptHistory(a), receipts'[s] # receipts[s]
      PROVE  receipts'[s] \in Events' /\ receipts'[s].key = ContentOf[s]
  <2> DEFINE e == Proposed(work[a])
             x == work[a].session
  <2>1. /\ e \in Events' /\ e.key = work[a].key
        /\ x \in Sessions \cup {NoSession}
        /\ receipts' = IF x = NoSession THEN receipts ELSE [receipts EXCEPT ![x] = e]
        /\ x # NoSession => work[a].key = ContentOf[x]
    BY <1>3, Recording
  <2> HIDE DEF e, x
  <2>2. x = s /\ x # NoSession /\ receipts'[s] = e
    BY <1>3, <2>1 DEF Typed
  <2> QED BY <2>1, <2>2
<1> QED BY <1>1, <1>2, <1>3, Receipts

\* Answers are given of what is recorded.
LEMMA AnsweredStep ==
    ASSUME Typed, Sessioned, Receipted, AnsweredIsCommitted, [Next]_vars
    PROVE  AnsweredIsCommitted'
<1> DEFINE KeyOf(x) == IF x \in Sessions THEN ContentOf[x] ELSE x
<1>1. \A x \in answered : \E e \in Events' : e.key = KeyOf(x)
  BY EventsStay DEF AnsweredIsCommitted
<1>2. ASSUME NEW s \in Sessions, HasReceipt(s)
      PROVE  \E e \in Events' : e.key = KeyOf(s)
  BY <1>2, EventsStay DEF Receipted
<1>3. CASE UNCHANGED answered
  BY <1>1, <1>3 DEF AnsweredIsCommitted
<1>4. ASSUME NEW a \in Requests, NEW s \in Sessions, AnswerReplay(a, s)
      PROVE  AnsweredIsCommitted'
  BY <1>1, <1>2, <1>4 DEF AnswerReplay, AnsweredIsCommitted
<1>5. ASSUME NEW a \in Actors, Enqueue(a) \/ AdoptHistory(a)
      PROVE  AnsweredIsCommitted'
  <2> DEFINE e == Proposed(work[a])
             s == work[a].session
  <2>1. /\ e \in Events' /\ e.key = work[a].key
        /\ s \in Sessions \cup {NoSession}
        /\ s # NoSession => work[a].key = ContentOf[s]
        /\ \/ answered' = answered
           \/ s = NoSession /\ answered' = answered \cup {work[a].key}
           \/ s # NoSession /\ answered' = answered \cup {s}
    BY <1>5, Recording DEF Answer
  <2>2. work[a].key \in Keys
    BY <1>5, Tasked, Proposing DEF Enqueue, AdoptHistory
  <2> HIDE DEF e, s
  <2>3. KeyOf(work[a].key) = work[a].key /\ (s # NoSession => KeyOf(s) = work[a].key)
    BY <2>1, <2>2, OutboxConstants
  <2> QED BY <1>1, <2>1, <2>3 DEF AnsweredIsCommitted
<1>6. ASSUME NEW a \in Actors, AnswerReceipt(a)
      PROVE  AnsweredIsCommitted'
  <2> DEFINE s == work[a].session
  <2>1. work[a].session \in Sessions \cup {NoSession}
    BY <1>6, Tasked, Proposing DEF AnswerReceipt
  <2>2. s # NoSession /\ HasReceipt(s)
    BY <1>6 DEF AnswerReceipt, Unreceipted
  <2>3. answered' = answered \/ answered' = answered \cup {s}
    BY <1>6, <2>2 DEF AnswerReceipt, Answer
  <2> HIDE DEF s
  <2>4. s \in Sessions
    BY <2>1, <2>2 DEF s
  <2> QED BY <1>1, <1>2, <2>2, <2>3, <2>4 DEF AnsweredIsCommitted
<1> QED BY <1>3, <1>4, <1>5, <1>6, Receipts

\* An intent is completed with its event, in the places it requires.
LEMMA CompletedStep ==
    ASSUME Typed, Intended, CompletedHasEvent, [Next]_vars
    PROVE  CompletedHasEvent'
<1> SUFFICES ASSUME NEW k \in Keys, intents'[k].state = "completed"
             PROVE  \E e \in Events' :
                        e.key = k /\ Places(e.objects) = Required(intents'[k].policy)
  BY DEF CompletedHasEvent
<1>1. CASE intents'[k] = intents[k]
  BY <1>1, EventsStay DEF CompletedHasEvent
<1>2. ASSUME NEW a \in Actors, Enqueue(a), work[a].key = k,
             intents'[k].policy = intents[k].policy
      PROVE  \E e \in Events' :
                 e.key = k /\ Places(e.objects) = Required(intents'[k].policy)
  <2> DEFINE e == Proposed(work[a])
  <2>1. e \in Events' /\ e.key = k /\ e.objects = work[a].objects
    BY <1>2, Recorded
  <2>2. Places(work[a].objects) = Required(intents[work[a].key].policy)
    BY <1>2 DEF Enqueue, MatchesIntent
  <2> HIDE DEF e
  <2> QED BY <1>2, <2>1, <2>2
<1> QED BY <1>1, <1>2, IntentsStay

-----------------------------------------------------------------------------
(* The theorems. *)

\* The invariant holds at first.
LEMMA InvInit == Init => Inv
<1> SUFFICES ASSUME Init PROVE Inv
  OBVIOUS
<1>1. Typed
  BY TypedInit
<1>2. \A k \in Keys : intents[k] = Unknown
  BY DEF Init
<1>3. Tasks = {}
  BY DEF Init, Tasks, Idle
<1>4. Intended /\ Sessioned
  BY <1>3 DEF Init, Intended, Sessioned
<1>5. Receipted
  BY DEF Init, Receipted, HasReceipt
<1>6. CompletedHasEvent
  BY <1>2 DEF CompletedHasEvent, Unknown
<1>7. AnsweredIsCommitted
  BY DEF Init, AnsweredIsCommitted
<1> QED BY <1>1, <1>4, <1>5, <1>6, <1>7 DEF Inv

\* And after every step.
LEMMA InvStep == Inv /\ [Next]_vars => Inv'
BY TypedStep, ClaimsStep, ReceiptedStep, CompletedStep, AnsweredStep DEF Inv

\* In every state of every run.
THEOREM OutboxInvariant == Spec => []Inv
BY InvInit, InvStep, PTL DEF Spec

\* Rows, locks, stored versions and the work of requests and recovery loops keep
\* their types; no storage policy is ever made up of two processes' that is no
\* configuration a process could start with.
THEOREM OutboxTyped == Spec => []Typed
<1>1. Inv => Typed
  BY DEF Inv
<1> QED BY <1>1, OutboxInvariant, PTL

\* A completed intent has an event in exactly the places of its policy.
THEOREM CompletedHaveEvents == Spec => []CompletedHasEvent
<1>1. Inv => CompletedHasEvent
  BY DEF Inv
<1> QED BY <1>1, OutboxInvariant, PTL

\* Whoever was told of success has an event.
THEOREM AnswersAreCommitted == Spec => []AnsweredIsCommitted
<1>1. Inv => AnsweredIsCommitted
  BY DEF Inv
<1> QED BY <1>1, OutboxInvariant, PTL

\* Where some event of a hash has an object at a provider after a step, the newest
\* such event is looked at then.
LEMMA NewestHas ==
    ASSUME Typed', NEW h \in Hashes, NEW provider,
           NEW e \in Listed(finalized'[h]), NEW o \in Objects(e), o.at.provider = provider
    PROVE  \E n \in SourceObjects(h)' : n.at.provider = provider
<1> DEFINE f == finalized'[h]
           T == {i \in DOMAIN f : \E x \in Objects(f[i]) : x.at.provider = provider}
<1>1. f \in Seq(Event) /\ DOMAIN f = 1..Len(f) /\ Len(f) \in Nat
  BY DEF Typed
<1>2. T \in SUBSET (1..Len(f)) /\ T # {}
  BY <1>1 DEF Listed
<1>3. PICK i \in T : \A j \in T : j <= i
  <2> HIDE DEF T, f
  <2> QED BY <1>1, <1>2, Greatest
<1>4. i \in DOMAIN f /\ i \in Nat
  BY <1>1
<1>5. PICK n \in Objects(f[i]) : n.at.provider = provider
  OBVIOUS
<1>6. f[i] \in Events'
  BY <1>4 DEF Events
<1>7. ASSUME NEW j \in (i + 1)..Len(f), NEW later \in Objects(f[j])
      PROVE  later.at.provider # n.at.provider
  <2>1. j \in DOMAIN f /\ ~(j <= i)
    BY <1>1, <1>4
  <2>2. j \notin T
    BY <1>3, <2>1
  <2> QED BY <1>5, <2>1, <2>2
<1>8. n \in UNION {Objects(x) : x \in Events'}
  BY <1>5, <1>6
<1>9. n \in SourceObjects(h)'
  BY <1>4, <1>5, <1>7, <1>8 DEF SourceObjects
<1> QED BY <1>5, <1>9

\* No later finalization makes a hash lose a provider.
THEOREM ProvidersStay == Spec => ProvidersAreKept
<1>1. ASSUME Inv, [Next]_vars, NEW h \in Hashes, NEW o \in SourceObjects(h)
      PROVE  \E n \in SourceObjects(h)' : n.at.provider = o.at.provider
  <2>1. PICK e \in Listed(finalized[h]) : o \in Objects(e)
    BY DEF SourceObjects, Listed
  <2>2. e \in Listed(finalized'[h])
    <3>1. finalized' = finalized \/ \E a \in Actors : Enqueue(a)
      BY <1>1, Frame DEF Inv, Reserving
    <3> QED BY <1>1, <2>1, <3>1, Recorded DEF Inv
  <2>3. Typed'
    BY <1>1, InvStep DEF Inv
  <2>4. Objects(e)' = Objects(e)
    BY DEF Objects
  <2> QED BY <2>1, <2>2, <2>3, NewestHas
<1>2. Inv /\ [Next]_vars =>
        [\A h \in Hashes : \A o \in SourceObjects(h) :
            \E n \in SourceObjects(h)' : n.at.provider = o.at.provider]_vars
  BY <1>1
<1> QED BY <1>2, OutboxInvariant, PTL DEF Spec, ProvidersAreKept

-----------------------------------------------------------------------------
(* The queue of the recovery and the history of each hash. *)

\* A sequence lists nothing twice.
Once(seq) == \A i, j \in DOMAIN seq : seq[i] = seq[j] => i = j

\* Touching an element of an order leaves the others in theirs.
LEMMA TouchedOrders ==
    ASSUME NEW S, NEW seq \in Seq(S), NEW x \in S, Once(seq)
    PROVE  LET new == Touched(seq, x)
           IN  /\ Once(new)
               /\ \A i \in DOMAIN seq : \E j \in DOMAIN new :
                     /\ new[j] = seq[i]
                     /\ j <= i \/ \A l \in DOMAIN new : l <= j
<1> DEFINE n == Len(seq)
           new == Touched(seq, x)
           Stays(i) == \E j \in DOMAIN new : /\ new[j] = seq[i]
                                             /\ j <= i \/ \A l \in DOMAIN new : l <= j
<1>1. n \in Nat /\ DOMAIN seq = 1..n
  OBVIOUS
<1>2. CASE ~\E i \in DOMAIN seq : seq[i] = x
  <2>1. new = Append(seq, x)
    BY <1>2 DEF Touched
  <2>2. /\ DOMAIN new = 1..(n + 1)
        /\ \A i \in 1..n : new[i] = seq[i]
        /\ new[n + 1] = x
    BY <1>1, <2>1
  <2> HIDE DEF new, n
  <2>3. ASSUME NEW i \in 1..n PROVE i \in 1..(n + 1) /\ new[i] = seq[i] /\ i <= i
    BY <1>1, <2>2
  <2>4. \A i \in DOMAIN seq : Stays(i)
    BY <1>1, <2>2, <2>3
  <2>5. ASSUME NEW i \in 1..(n + 1), NEW j \in 1..(n + 1), new[i] = new[j] PROVE i = j
    <3>1. \A k \in 1..(n + 1) : k \in 1..n \/ k = n + 1
      BY <1>1
    <3> QED BY <1>1, <1>2, <2>2, <2>5, <3>1 DEF Once
  <2> QED BY <2>2, <2>4, <2>5 DEF Once, new
<1>3. CASE \E i \in DOMAIN seq : seq[i] = x
  <2> DEFINE at == CHOOSE i \in DOMAIN seq : seq[i] = x
  <2>1. at \in 1..n /\ seq[at] = x
    BY <1>1, <1>3
  <2>2. new = [i \in 1..n |-> IF i < at THEN seq[i] ELSE IF i < n THEN seq[i + 1] ELSE x]
    BY <1>1, <1>3 DEF Touched
  <2> HIDE DEF new, n, at
  <2>3. /\ \A i \in 1..n : i < at => new[i] = seq[i]
        /\ \A i \in 1..n : at <= i /\ i < n => new[i] = seq[i + 1]
        /\ new[n] = seq[at]
    BY <1>1, <2>1, <2>2
  <2>4. ASSUME NEW i \in 1..n PROVE Stays(i)
    <3>1. CASE i < at
      BY <1>1, <2>2, <2>3, <3>1
    <3>2. CASE i = at
      <4>1. n \in 1..n /\ \A l \in 1..n : l <= n
        BY <1>1, <2>1
      <4> QED BY <2>2, <2>3, <3>2, <4>1
    <3>3. CASE i > at
      <4>1. i - 1 \in 1..n /\ new[i - 1] = seq[i] /\ i - 1 <= i
        BY <1>1, <2>1, <2>3, <3>3
      <4> QED BY <2>2, <4>1
    <3> QED BY <1>1, <2>1, <3>1, <3>2, <3>3
  <2>5. ASSUME NEW i \in 1..n, NEW j \in 1..n, new[i] = new[j] PROVE i = j
    <3> DEFINE From(k) == IF k < at THEN k ELSE IF k < n THEN k + 1 ELSE at
    <3>1. ASSUME NEW k \in 1..n PROVE From(k) \in 1..n /\ new[k] = seq[From(k)]
      BY <1>1, <2>1, <2>3
    <3>2. From(i) = From(j)
      <4> HIDE DEF From
      <4> QED BY <1>1, <2>5, <3>1 DEF Once
    <3> QED BY <1>1, <2>1, <3>2
  <2> QED BY <1>1, <2>2, <2>4, <2>5 DEF Once, new
<1> QED BY <1>2, <1>3

\* The queue lists the intents there are, each once, and each event once, in the
\* history of its own hash.
Lined ==
    /\ Listed(waiting) = {k \in Keys : intents[k] # Unknown}
    /\ Once(waiting)
    /\ \A h \in Hashes : Once(finalized[h])
    /\ \A h \in Hashes : \A e \in Listed(finalized[h]) : e.key[1] = h

\* The order of the queue is changed by touching an intent only.
LEMMA QueueFrame ==
    ASSUME Typed, [Next]_vars
    PROVE  \/ Reserving
           \/ \E a \in Actors : Enqueue(a)
           \/ \E r \in Recoverers : Consider(r)
           \/ UNCHANGED <<intents, finalized, waiting>>
<1> SUFFICES ASSUME ~\E a \in Actors : Enqueue(a), ~\E r \in Recoverers : Consider(r)
             PROVE  Reserving \/ UNCHANGED <<intents, finalized, waiting>>
  OBVIOUS
<1>1. ASSUME NEW a \in Actors
      PROVE  /\ \A s \in Sessions :
                   /\ AnswerReplay(a, s) => UNCHANGED <<intents, finalized, waiting>>
                   /\ \A c \in Deployments :
                        ResumeSession(a, s, c) => UNCHANGED <<intents, finalized, waiting>>
             /\ StoreNext(a) \/ SaveObjects(a) \/ SaveSession(a) \/ FinalObjects(a)
                   => UNCHANGED <<intents, finalized, waiting>>
             /\ AdoptHistory(a) \/ AnswerReceipt(a) \/ Conflict(a) \/ Fail(a)
                   => UNCHANGED <<intents, finalized, waiting>>
             /\ Peek(a) \/ Pick(a) \/ ReadNext(a)
                   => UNCHANGED <<intents, finalized, waiting>>
  BY DEF AnswerReplay, ResumeSession, StoreNext, SaveObjects, SaveSession, FinalObjects,
         AdoptHistory, AnswerReceipt, Conflict, Fail, Peek, Pick, ReadNext, dbVars
<1>2. ASSUME NEW s \in Sessions
      PROVE  /\ \A c \in Deployments :
                   CreateSession(s, c) => UNCHANGED <<intents, finalized, waiting>>
             /\ LoseLock(s) \/ Expire(s) \/ ForgetReceipt(s) \/ DeleteSession(s) \/ AbortSession(s)
                   => UNCHANGED <<intents, finalized, waiting>>
  BY DEF CreateSession, LoseLock, Expire, ForgetReceipt, DeleteSession, AbortSession, dbVars
<1>3. \A h \in Hashes, p \in Place : Erase(h, p) => UNCHANGED <<intents, finalized, waiting>>
  BY DEF Erase, dbVars
<1>4. CASE UNCHANGED vars
  BY <1>4 DEF vars
<1> QED BY <1>1, <1>2, <1>3, <1>4, Reservations DEF Next, Outside, Recovery, Actors

\* The queue changes by touching an intent that is known afterwards.
LEMMA QueueTouched ==
    ASSUME Inv, [Next]_vars
    PROVE  \/ UNCHANGED <<intents, waiting>>
           \/ \E k \in Keys :
                 /\ waiting' = Touched(waiting, k)
                 /\ intents'[k] # Unknown
                 /\ \A l \in Keys : l # k => intents'[l] = intents[l]
<1>1. CASE Reserving
  <2>1. PICK a \in Requests, k \in Keys, c \in Config :
            /\ waiting' = Touched(waiting, k)
            /\ intents' = [intents EXCEPT ![k] = Upserted(intents[k], c)]
    BY <1>1 DEF Reserving, Reserve
  <2>2. Upserted(intents[k], c) # Unknown
    BY Upserting DEF Inv, Typed
  <2> QED BY <2>1, <2>2 DEF Inv, Typed
<1>2. ASSUME NEW a \in Actors, Enqueue(a)
      PROVE  /\ work[a].key \in Keys
             /\ waiting' = Touched(waiting, work[a].key)
             /\ intents'[work[a].key] # Unknown
             /\ \A l \in Keys : l # work[a].key => intents'[l] = intents[l]
  <2>1. /\ waiting' = Touched(waiting, work[a].key)
        /\ intents' = [intents EXCEPT ![work[a].key].state = "completed"]
    BY <1>2 DEF Enqueue
  <2>2. work[a].key \in Keys /\ a \in Tasks
    BY <1>2, Tasked, Proposing DEF Enqueue, Inv, Ready, Tasks
  <2>3. intents'[work[a].key] # Unknown
    BY <2>2, IntentsStay DEF Inv, Intended
  <2> QED BY <2>1, <2>2, <2>3 DEF Inv, Typed
<1>3. ASSUME NEW r \in Recoverers, Consider(r)
      PROVE  /\ work[r].key \in Keys
             /\ waiting' = Touched(waiting, work[r].key)
             /\ intents' = intents /\ intents[work[r].key] # Unknown
  <2>1. r \in Tasks /\ work[r].key \in Keys
    BY <1>3, Tasked DEF Consider, Inv, Tasks, Actors, Picked
  <2> QED BY <1>3, <2>1 DEF Consider, Rotated, Inv, Intended
<1> QED BY <1>1, <1>2, <1>3, QueueFrame DEF Inv

\* Histories change by touching an event of their own hash.
LEMMA HistoryTouched ==
    ASSUME Inv, [Next]_vars, NEW h \in Hashes
    PROVE  \/ finalized'[h] = finalized[h]
           \/ \E e \in Event : e.key[1] = h /\ finalized'[h] = Touched(finalized[h], e)
<1>1. CASE finalized' = finalized
  BY <1>1
<1>2. CASE Reserving
  BY <1>2 DEF Reserving
<1>3. ASSUME NEW a \in Actors, Enqueue(a)
      PROVE  \/ finalized'[h] = finalized[h]
             \/ \E e \in Event : e.key[1] = h /\ finalized'[h] = Touched(finalized[h], e)
  <2> DEFINE e == Proposed(work[a])
  <2>1. e \in Event /\ e.key = work[a].key
    BY <1>3, Tasked, Proposing, Recorded DEF Enqueue, Inv
  <2>2. finalized' = [finalized EXCEPT ![work[a].key[1]] = Touched(finalized[work[a].key[1]], e)]
    BY <1>3 DEF Enqueue
  <2> HIDE DEF e
  <2> QED BY <2>1, <2>2 DEF Inv, Typed
<1> QED BY <1>1, <1>2, <1>3, Frame DEF Inv

LEMMA LinedInit == Init => Lined
<1> SUFFICES ASSUME Init PROVE Lined
  OBVIOUS
<1>1. \A k \in Keys : intents[k] = Unknown
  BY DEF Init
<1>2. DOMAIN waiting = {} /\ \A h \in Hashes : DOMAIN finalized[h] = {}
  BY DEF Init
<1> QED BY <1>1, <1>2 DEF Lined, Listed, Once

LEMMA LinedStep ==
    ASSUME Inv, Lined, [Next]_vars
    PROVE  Lined'
<1>1. waiting \in Seq(Keys) /\ \A h \in Hashes : finalized[h] \in Seq(Event)
  BY DEF Inv, Typed
<1>2. Listed(waiting)' = {k \in Keys : intents[k] # Unknown}' /\ Once(waiting)'
  <2>1. CASE UNCHANGED <<intents, waiting>>
    BY <2>1 DEF Lined, Listed, Once
  <2>2. ASSUME NEW k \in Keys, waiting' = Touched(waiting, k), intents'[k] # Unknown,
               \A l \in Keys : l # k => intents'[l] = intents[l]
        PROVE  Listed(waiting') = {l \in Keys : intents'[l] # Unknown} /\ Once(waiting')
    <3>1. Listed(waiting') = Listed(waiting) \cup {k}
      BY <1>1, <2>2, TouchedKeeps
    <3>2. Once(waiting')
      BY <1>1, <2>2, TouchedOrders DEF Lined
    <3> QED BY <2>2, <3>1, <3>2 DEF Lined
  <2>3. Listed(waiting)' = Listed(waiting') /\ Once(waiting)' <=> Once(waiting')
    BY DEF Listed, Once
  <2>4. {k \in Keys : intents[k] # Unknown}' = {k \in Keys : intents'[k] # Unknown}
    OBVIOUS
  <2> QED BY <2>1, <2>2, <2>3, <2>4, QueueTouched
<1>3. ASSUME NEW h \in Hashes
      PROVE  Once(finalized'[h]) /\ \A e \in Listed(finalized'[h]) : e.key[1] = h
  <2>1. CASE finalized'[h] = finalized[h]
    BY <2>1 DEF Lined
  <2>2. ASSUME NEW e \in Event, e.key[1] = h, finalized'[h] = Touched(finalized[h], e)
        PROVE  Once(finalized'[h]) /\ \A x \in Listed(finalized'[h]) : x.key[1] = h
    <3>1. Listed(finalized'[h]) = Listed(finalized[h]) \cup {e}
      BY <1>1, <2>2, TouchedKeeps
    <3>2. Once(finalized'[h])
      BY <1>1, <2>2, TouchedOrders DEF Lined
    <3> QED BY <2>2, <3>1, <3>2 DEF Lined
  <2> QED BY <2>1, <2>2, HistoryTouched
<1> QED BY <1>2, <1>3 DEF Lined, Listed, Once

\* What recover_intents and finalized_objects order by time lists every intent, and
\* every event, exactly once: no intent is forgotten by the queue.
THEOREM QueueHoldsIntents == Spec => []Lined
<1>1. Inv /\ Lined /\ [Next]_vars => Inv' /\ Lined'
  BY InvStep, LinedStep
<1> QED BY <1>1, InvInit, LinedInit, PTL DEF Spec

\* An intent goes to the end of the queue when it is reserved, recorded or considered
\* itself; whatever happens to other intents, it never falls behind its place.
THEOREM NobodyOvertakes ==
    Spec => [][\A i \in DOMAIN waiting : \E j \in DOMAIN waiting' :
                  /\ waiting'[j] = waiting[i]
                  /\ j <= i \/ \A l \in DOMAIN waiting' : l <= j]_vars
<1>1. ASSUME Inv, Lined, [Next]_vars, NEW i \in DOMAIN waiting
      PROVE  \E j \in DOMAIN waiting' : /\ waiting'[j] = waiting[i]
                                        /\ j <= i \/ \A l \in DOMAIN waiting' : l <= j
  <2>1. waiting \in Seq(Keys)
    BY <1>1 DEF Inv, Typed
  <2>2. CASE waiting' = waiting
    <3>1. i <= i
      BY <2>1
    <3> QED BY <2>2, <3>1
  <2>3. ASSUME NEW k \in Keys, waiting' = Touched(waiting, k)
        PROVE  \E j \in DOMAIN waiting' : /\ waiting'[j] = waiting[i]
                                          /\ j <= i \/ \A l \in DOMAIN waiting' : l <= j
    BY <1>1, <2>1, <2>3, TouchedOrders DEF Lined
  <2> QED BY <1>1, <2>2, <2>3, QueueTouched
<1>2. Inv /\ Lined /\ [Next]_vars =>
        [\A i \in DOMAIN waiting : \E j \in DOMAIN waiting' :
            /\ waiting'[j] = waiting[i]
            /\ j <= i \/ \A l \in DOMAIN waiting' : l <= j]_vars
  BY <1>1
<1>3. Inv /\ Lined /\ [Next]_vars => Inv' /\ Lined'
  BY InvStep, LinedStep
<1> QED BY <1>2, <1>3, InvInit, LinedInit, PTL DEF Spec

-----------------------------------------------------------------------------
(* What events name was stored. *)

Carrying == {"writing", "recorded", "saved", "ready", "reading"}

\* The objects a task has collected so far were there.
Backed(a) ==
    work[a].phase \in Carrying => Had(stored[work[a].key[1]], work[a].objects)

\* What tasks, sessions and events name was stored, for the hash they name it for;
\* and an event has an object in every place of a policy, and no other.
Genuine ==
    /\ \A h \in Hashes, p \in Place : stored[h][p].now <= stored[h][p].last
    /\ \A a \in Actors : Backed(a)
    /\ \A s \in Sessions : Had(stored[ContentOf[s][1]], finals[s])
    /\ \A e \in Events : /\ Had(stored[e.key[1]], e.objects)
                         /\ \E c \in Config : Places(e.objects) = Required(c)

\* What a place has had it will always have had.
LEMMA HadStays ==
    ASSUME NEW old \in [Place -> Copy], NEW new \in [Place -> Copy],
           \A p \in Place : old[p].last <= new[p].last,
           NEW objects \in Seq(Object), Had(old, objects)
    PROVE  Had(new, objects)
<1>1. ASSUME NEW i \in DOMAIN objects PROVE objects[i].version <= new[objects[i].at].last
  <2>1. objects[i] \in Object
    BY <1>1
  <2>2. objects[i].at \in Place /\ objects[i].version \in 1..MaxVersions
    BY <2>1 DEF Object
  <2>3. /\ old[objects[i].at].last \in Nat /\ new[objects[i].at].last \in Nat
        /\ old[objects[i].at].last <= new[objects[i].at].last
    BY <2>2 DEF Copy
  <2>4. objects[i].version <= old[objects[i].at].last
    BY DEF Had
  <2>5. objects[i].version \in Nat
    BY <2>2
  <2> QED BY <2>3, <2>4, <2>5
<1> QED BY <1>1 DEF Had

\* One more object that is there.
LEMMA HadAppend ==
    ASSUME NEW copies, NEW objects \in Seq(Object), Had(copies, objects),
           NEW p \in Place, NEW v \in 1..MaxVersions, v <= copies[p].last
    PROVE  Had(copies, Append(objects, [at |-> p, version |-> v]))
<1> DEFINE o == [at |-> p, version |-> v]
           n == Len(objects)
           new == Append(objects, o)
<1>1. o \in Object
  BY DEF Object
<1>2. /\ n \in Nat /\ DOMAIN objects = 1..n /\ DOMAIN new = 1..(n + 1)
      /\ \A i \in 1..n : new[i] = objects[i]
      /\ new[n + 1] = o
  BY <1>1
<1>3. o.at = p /\ o.version = v
  OBVIOUS
<1> HIDE DEF n, o, new
<1>4. \A i \in 1..(n + 1) : i \in 1..n \/ i = n + 1
  BY <1>2
<1>5. Had(copies, new)
  BY <1>2, <1>3, <1>4 DEF Had
<1> QED BY <1>5 DEF new, o

LEMMA HadNone == ASSUME NEW copies PROVE Had(copies, <<>>)
BY DEF Had

\* Only uploads, and those who erase, change what is stored.
LEMMA StoredFrame ==
    ASSUME Typed, [Next]_vars
    PROVE  \/ \E a \in Requests : StoreNext(a)
           \/ \E h \in Hashes, p \in Place : Erase(h, p)
           \/ UNCHANGED stored
<1>1. ASSUME NEW a \in Actors
      PROVE  /\ \A s \in Sessions :
                   /\ AnswerReplay(a, s) => UNCHANGED stored
                   /\ \A c \in Deployments : ResumeSession(a, s, c) => UNCHANGED stored
             /\ SaveObjects(a) \/ SaveSession(a) \/ FinalObjects(a) => UNCHANGED stored
             /\ Enqueue(a) \/ AdoptHistory(a) \/ AnswerReceipt(a) \/ Conflict(a) \/ Fail(a)
                   => UNCHANGED stored
             /\ Peek(a) \/ Pick(a) \/ Consider(a) \/ ReadNext(a) => UNCHANGED stored
  BY DEF AnswerReplay, ResumeSession, SaveObjects, SaveSession, FinalObjects, Enqueue,
         AdoptHistory, AnswerReceipt, Conflict, Fail, Peek, Pick, Consider, ReadNext
<1>2. ASSUME NEW s \in Sessions
      PROVE  /\ \A c \in Deployments : CreateSession(s, c) => UNCHANGED stored
             /\ LoseLock(s) \/ Expire(s) \/ ForgetReceipt(s) \/ DeleteSession(s) \/ AbortSession(s)
                   => UNCHANGED stored
  BY DEF CreateSession, LoseLock, Expire, ForgetReceipt, DeleteSession, AbortSession
<1>3. Reserving \/ UNCHANGED vars => UNCHANGED stored
  BY DEF Reserving, vars
<1> QED BY <1>1, <1>2, <1>3, Reservations DEF Next, Outside, Recovery, Actors

\* Only saving the objects of a session, and the sweep, change what is recorded.
LEMMA FinalsFrame ==
    ASSUME Typed, [Next]_vars
    PROVE  \/ \E a \in Requests : SaveObjects(a)
           \/ \E s \in Sessions : finals' = [finals EXCEPT ![s] = <<>>]
           \/ UNCHANGED finals
<1>1. ASSUME NEW a \in Actors
      PROVE  /\ \A s \in Sessions :
                   /\ AnswerReplay(a, s) => UNCHANGED finals
                   /\ \A c \in Deployments : ResumeSession(a, s, c) => UNCHANGED finals
             /\ StoreNext(a) \/ SaveSession(a) \/ FinalObjects(a) => UNCHANGED finals
             /\ Enqueue(a) \/ AdoptHistory(a) \/ AnswerReceipt(a) \/ Conflict(a) \/ Fail(a)
                   => UNCHANGED finals
             /\ Peek(a) \/ Pick(a) \/ Consider(a) \/ ReadNext(a) => UNCHANGED finals
  BY DEF AnswerReplay, ResumeSession, StoreNext, SaveSession, FinalObjects, Enqueue,
         AdoptHistory, AnswerReceipt, Conflict, Fail, Peek, Pick, Consider, ReadNext,
         sessionVars
<1>2. ASSUME NEW s \in Sessions
      PROVE  /\ \A c \in Deployments : CreateSession(s, c) => UNCHANGED finals
             /\ LoseLock(s) \/ Expire(s) \/ ForgetReceipt(s) \/ AbortSession(s)
                   => UNCHANGED finals
             /\ DeleteSession(s) => finals' = finals \/ finals' = [finals EXCEPT ![s] = <<>>]
  BY DEF CreateSession, LoseLock, Expire, ForgetReceipt, DeleteSession, AbortSession
<1>3. Reserving \/ UNCHANGED vars => UNCHANGED finals
  BY DEF Reserving, vars
<1>4. \A h \in Hashes, p \in Place : Erase(h, p) => UNCHANGED finals
  BY DEF Erase, sessionVars
<1> QED BY <1>1, <1>2, <1>3, <1>4, Reservations DEF Next, Outside, Recovery, Actors

\* What is stored has been stored, and a place forgets no version it has had.
LEMMA StoredGrows ==
    ASSUME Typed, Typed', Genuine, [Next]_vars, NEW h \in Hashes
    PROVE  /\ stored[h] \in [Place -> Copy] /\ stored'[h] \in [Place -> Copy]
           /\ \A p \in Place : /\ stored[h][p].last <= stored'[h][p].last
                               /\ stored'[h][p].now <= stored'[h][p].last
<1>1. /\ stored \in [Hashes -> [Place -> Copy]] /\ stored' \in [Hashes -> [Place -> Copy]]
      /\ \A p \in Place : stored[h][p].now <= stored[h][p].last
  BY DEF Typed, Genuine
<1>2. \A c \in Copy : c.now \in Nat /\ c.last \in Nat /\ c.last <= c.last /\ 0 <= c.last
  BY DEF Copy
<1>3. CASE UNCHANGED stored
  BY <1>1, <1>2, <1>3
<1>4. ASSUME NEW g \in Hashes, NEW q \in Place, Erase(g, q)
      PROVE  \A p \in Place : /\ stored[h][p].last <= stored'[h][p].last
                              /\ stored'[h][p].now <= stored'[h][p].last
  <2>1. stored' = [stored EXCEPT ![g] = [stored[g] EXCEPT ![q] = [stored[g][q] EXCEPT !.now = 0]]]
    BY <1>4 DEF Erase
  <2>2. \A c \in Copy : [c EXCEPT !.now = 0].last = c.last /\ [c EXCEPT !.now = 0].now = 0
    BY DEF Copy
  <2>3. ASSUME NEW p \in Place
        PROVE  \/ stored'[h][p] = stored[h][p]
               \/ stored'[h][p] = [stored[h][p] EXCEPT !.now = 0]
    BY <1>1, <2>1
  <2>4. ASSUME NEW p \in Place
        PROVE  /\ stored[h][p].last <= stored'[h][p].last
               /\ stored'[h][p].now <= stored'[h][p].last
    <3> DEFINE o == stored[h][p]
               n == stored'[h][p]
    <3>1. o \in Copy /\ o.now <= o.last /\ (n = o \/ n = [o EXCEPT !.now = 0])
      BY <1>1, <2>3
    <3> HIDE DEF o, n
    <3>2. o.last <= n.last /\ n.now <= n.last
      BY <1>2, <2>2, <3>1
    <3> QED BY <3>2 DEF o, n
  <2> QED BY <2>4
<1>5. ASSUME NEW a \in Requests, StoreNext(a)
      PROVE  \A p \in Place : /\ stored[h][p].last <= stored'[h][p].last
                              /\ stored'[h][p].now <= stored'[h][p].last
  <2> DEFINE t == work[a]
             g == t.key[1]
             q == NextPlace(t)
             o == stored[g][q]
             v == IF o.now # 0 THEN o.now ELSE o.last + 1
             c == [now |-> v, last |-> IF v > o.last THEN v ELSE o.last]
  <2>1. g \in Hashes /\ q \in Place
    <3>1. t \in OfRequest
      BY <1>5, Tasked DEF StoreNext, Actors
    <3>2. t.key[1] \in Hashes /\ t.store \in Config /\ t.objects \in Seq(Object)
      BY <3>1, Proposing
    <3> QED BY <1>5, <3>2, NextIsPlace DEF StoreNext
  <2>2. stored' = [stored EXCEPT ![g] = [stored[g] EXCEPT ![q] = c]]
    BY <1>5 DEF StoreNext
  <2>3. o \in Copy
    BY <1>1, <2>1
  <2>4. c.now <= c.last /\ o.last <= c.last
    <3> HIDE DEF o
    <3> QED BY <1>2, <2>3
  <2> HIDE DEF c, g, q
  <2>5. ASSUME NEW p \in Place
        PROVE  \/ stored'[h][p] = stored[h][p]
               \/ h = g /\ p = q /\ stored'[h][p] = c
    BY <1>1, <2>1, <2>2
  <2>6. \A p \in Place : stored[h][p] \in Copy
    BY <1>1
  <2> QED BY <1>1, <1>2, <2>4, <2>5, <2>6
<1> QED BY <1>1, <1>3, <1>4, <1>5, StoredFrame

\* A task's next object, found or stored by its own step, is there; what it takes
\* over from its session was.
LEMMA BackedStep ==
    ASSUME Inv, Typed', Genuine, [Next]_vars, NEW b \in Actors
    PROVE  Backed(b)'
<1> USE OutboxConstants
<1> SUFFICES ASSUME work'[b].phase \in Carrying
             PROVE  Had(stored'[work'[b].key[1]], work'[b].objects)
  BY DEF Backed
<1>1. Typed
  BY DEF Inv
<1>2. ASSUME NEW h \in Hashes, NEW objects \in Seq(Object), Had(stored[h], objects)
      PROVE  Had(stored'[h], objects)
  <2>1. /\ stored[h] \in [Place -> Copy] /\ stored'[h] \in [Place -> Copy]
        /\ \A p \in Place : stored[h][p].last <= stored'[h][p].last
    BY <1>1, StoredGrows
  <2> QED BY <1>2, <2>1, HadStays
<1>3. ASSUME NEW a \in Actors, work[a].phase \in Carrying
      PROVE  /\ work[a] \in OfRequest \cup OfRecovery
             /\ work[a].key[1] \in Hashes /\ work[a].objects \in Seq(Object)
             /\ work[a].store \in Config
             /\ Had(stored[work[a].key[1]], work[a].objects)
             /\ Had(stored'[work[a].key[1]], work[a].objects)
  <2>1. work[a] \in OfRequest \cup OfRecovery
    BY <1>1, <1>3, Tasked DEF Carrying
  <2>2. /\ work[a].key[1] \in Hashes /\ work[a].objects \in Seq(Object)
        /\ work[a].store \in Config
    BY <2>1, Proposing
  <2>3. Had(stored[work[a].key[1]], work[a].objects)
    BY <1>3 DEF Genuine, Backed
  <2> QED BY <1>2, <2>1, <2>2, <2>3
<1>4. CASE work'[b] = work[b]
  BY <1>3, <1>4
<1> SUFFICES ASSUME work'[b] # work[b]
             PROVE  Had(stored'[work'[b].key[1]], work'[b].objects)
  BY <1>4
<1>5. ASSUME NEW v, NEW a \in Actors, work' = [work EXCEPT ![a] = v]
      PROVE  b = a /\ work'[b] = v
  BY <1>1, <1>5 DEF Typed, WorkTyped
<1>6. ~\E a \in Actors : Finish(a)
  <2>1. Idle.phase \notin Carrying
    BY DEF Idle, Carrying
  <2>2. \A a \in Actors : work' # [work EXCEPT ![a] = Idle]
    BY <1>5, <2>1
  <2> QED BY <2>2 DEF Finish
<1>7. ASSUME NEW k, NEW s, NEW c, NEW phase, work'[b] = Task(phase, k, s, c, <<>>)
      PROVE  Had(stored'[work'[b].key[1]], work'[b].objects)
  BY <1>7, HadNone DEF Task
<1>8. CASE Reserving
  <2>1. PICK a \in Requests, k \in Keys, s \in Sessions \cup {NoSession}, c \in Config, resume \in BOOLEAN :
            Reserve(a, k, s, c, resume)
    BY <1>8 DEF Reserving
  <2> DEFINE d == [c EXCEPT !.mode = Upserted(intents[k], c).policy.mode]
  <2>2. work' = work \/ work' = [work EXCEPT ![a] = Task("writing", k, s, d, <<>>)]
    BY <2>1 DEF Reserve
  <2> HIDE DEF d
  <2>3. work'[b] = Task("writing", k, s, d, <<>>)
    BY <1>5, <2>2 DEF Actors
  <2> QED BY <1>7, <2>3
<1>9. ASSUME NEW a \in Requests, NEW s \in Sessions, NEW c \in Deployments, ResumeSession(a, s, c)
      PROVE  Had(stored'[work'[b].key[1]], work'[b].objects)
  <2>1. work' = [work EXCEPT ![a] = Task("saved", ContentOf[s], s, c, <<>>)]
    BY <1>9 DEF ResumeSession
  <2>2. work'[b] = Task("saved", ContentOf[s], s, c, <<>>)
    BY <1>5, <2>1 DEF Actors
  <2> QED BY <1>7, <2>2
<1>10. ASSUME NEW a \in Requests, StoreNext(a)
       PROVE  Had(stored'[work'[b].key[1]], work'[b].objects)
  <2> DEFINE t == work[a]
             h == t.key[1]
             p == NextPlace(t)
             o == stored[h][p]
             v == IF o.now # 0 THEN o.now ELSE o.last + 1
             c == [now |-> v, last |-> IF v > o.last THEN v ELSE o.last]
             new == Append(t.objects, [at |-> p, version |-> v])
  <2>0. a \in Actors /\ t.phase \in Carrying
    BY <1>10 DEF Actors, StoreNext, Carrying
  <2>1. p \in Place /\ h \in Hashes
    BY <1>3, <1>10, <2>0, NextIsPlace DEF StoreNext
  <2>2. o \in Copy
    BY <1>1, <2>1 DEF Typed
  <2>3. v \in 1..MaxVersions /\ v <= c.last
    <3>1. v <= MaxVersions
      BY <1>10 DEF StoreNext
    <3> HIDE DEF o
    <3>2. o.now \in Nat /\ o.last \in Nat
      BY <2>2 DEF Copy
    <3> QED BY <3>1, <3>2
  <2>4. /\ stored' = [stored EXCEPT ![h] = [stored[h] EXCEPT ![p] = c]]
        /\ work' = [work EXCEPT ![a] = [t EXCEPT !.objects = new]]
    BY <1>10 DEF StoreNext
  <2> HIDE DEF v
  <2>5. stored'[h][p] = c
    <3> HIDE DEF c
    <3> QED BY <1>1, <2>1, <2>4 DEF Typed
  <2>6. Had(stored'[h], new)
    BY <1>3, <2>0, <2>1, <2>3, <2>5, HadAppend
  <2> HIDE DEF new
  <2>7. work'[b] = [t EXCEPT !.objects = new]
    BY <1>5, <2>0, <2>4
  <2>8. work'[b].key = t.key /\ work'[b].objects = new
    BY <1>3, <2>0, <2>7 DEF OfRequest, OfRecovery
  <2> QED BY <2>6, <2>8
<1>11. ASSUME NEW a \in Requests, SaveObjects(a) \/ SaveSession(a) \/ FinalObjects(a)
       PROVE  Had(stored'[work'[b].key[1]], work'[b].objects)
  <2> DEFINE t == work[a]
             h == t.key[1]
  <2>0. /\ a \in Actors /\ t \in OfRequest /\ t.phase \in Carrying /\ a \in Tasks
        /\ stored' = stored
    BY <1>1, <1>11, Tasked DEF Actors, SaveObjects, SaveSession, FinalObjects, Carrying, Tasks
  <2>1. \A x, y : /\ [t EXCEPT !.phase = x].key = t.key
                 /\ [t EXCEPT !.phase = x].objects = t.objects
                 /\ [t EXCEPT !.phase = x, !.objects = y].key = t.key
                 /\ [t EXCEPT !.phase = x, !.objects = y].objects = y
    BY <2>0 DEF OfRequest
  <2>2. CASE SaveObjects(a)
    <3>1. work'[b] = [t EXCEPT !.phase = "recorded"]
      BY <1>5, <2>0, <2>2 DEF SaveObjects
    <3> QED BY <1>3, <2>0, <2>1, <3>1
  <2>3. CASE SaveSession(a)
    <3>1. work' = [work EXCEPT ![a] = [t EXCEPT !.phase = "saved", !.objects = <<>>]]
      BY <2>3 DEF SaveSession
    <3>2. work'[b] = [t EXCEPT !.phase = "saved", !.objects = <<>>]
      BY <1>5, <2>0, <3>1
    <3> QED BY <2>1, <3>2, HadNone
  <2>4. CASE FinalObjects(a)
    <3> DEFINE p == Gcs(t.store)
               now == stored[h][p].now
    <3>1. t.session \in Sessions /\ t.key = ContentOf[t.session]
      <4>1. t.session # NoSession
        BY <2>0, <2>4 DEF FinalObjects, Inv, Sessioned
      <4> QED BY <2>0, <4>1 DEF OfRequest, Inv, Sessioned
    <3>2. CASE work' = [work EXCEPT ![a] = [t EXCEPT !.phase = "ready", !.objects = finals[t.session]]]
      <4>1. work'[b] = [t EXCEPT !.phase = "ready", !.objects = finals[t.session]]
        BY <1>5, <2>0, <3>2
      <4>2. Had(stored'[h], finals[t.session])
        BY <2>0, <3>1 DEF Genuine
      <4> QED BY <2>1, <4>1, <4>2
    <3>3. CASE /\ t.store.gcs # NoBucket /\ now # 0
               /\ work' = [work EXCEPT ![a] =
                              [t EXCEPT !.phase = "ready", !.objects = <<[at |-> p, version |-> now]>>]]
      <4> DEFINE new == <<[at |-> p, version |-> now]>>
      <4>1. work'[b] = [t EXCEPT !.phase = "ready", !.objects = new]
        BY <1>5, <2>0, <3>3
      <4>2. now <= stored[h][p].last
        <5>1. h \in Hashes /\ t.store \in Config
          BY <1>3, <2>0
        <5>2. p \in Place
          BY <3>3, <5>1 DEF Gcs, Place, Config
        <5> QED BY <5>1, <5>2 DEF Genuine
      <4>3. Had(stored'[h], new)
        <5> HIDE DEF now, p
        <5> QED BY <2>0, <4>2 DEF Had
      <4> HIDE DEF new
      <4> QED BY <2>1, <4>1, <4>3
    <3> QED BY <2>4, <3>2, <3>3 DEF FinalObjects
  <2> QED BY <1>11, <2>2, <2>3, <2>4
<1>12. ASSUME NEW r \in Recoverers, Peek(r) \/ Pick(r) \/ Consider(r) \/ ReadNext(r)
       PROVE  Had(stored'[work'[b].key[1]], work'[b].objects)
  <2>0. r \in Actors
    BY DEF Actors
  <2>1. ~Peek(r)
    <3>1. \A v : v.phase = "peeked" => work' # [work EXCEPT ![r] = v]
      BY <1>5, <2>0 DEF Carrying
    <3> QED BY <3>1 DEF Peek
  <2>2. ~Pick(r)
    <3> SUFFICES ASSUME Pick(r) PROVE FALSE
      OBVIOUS
    <3> DEFINE new == [phase |-> "picked", budget |-> work[r].budget, key |-> First,
                       policy |-> intents[First].policy]
    <3>1. work' = [work EXCEPT ![r] = IF Queue = {} THEN Idle ELSE new]
      BY DEF Pick
    <3>2. new.phase = "picked"
      OBVIOUS
    <3> HIDE DEF new
    <3>3. work'[b] = IF Queue = {} THEN Idle ELSE new
      BY <1>5, <2>0, <3>1
    <3> QED BY <3>2, <3>3 DEF Carrying, Idle
  <2>3. CASE Consider(r)
    <3> DEFINE w == work[r]
               d == [RunsWith[r] EXCEPT !.mode = w.policy.mode]
    <3>1. work' = [work EXCEPT ![r] = IF Affordable(w, RunsWith[r])
                                      THEN Task("reading", w.key, NoSession, d, <<>>) ELSE Idle]
      BY <2>3 DEF Consider
    <3> HIDE DEF d
    <3>2. work'[b] = IF Affordable(w, RunsWith[r])
                     THEN Task("reading", w.key, NoSession, d, <<>>) ELSE Idle
      BY <1>5, <2>0, <3>1
    <3>3. Idle.phase \notin Carrying
      BY DEF Idle, Carrying
    <3>4. work'[b] = Task("reading", w.key, NoSession, d, <<>>)
      BY <3>2, <3>3
    <3> QED BY <1>7, <3>4
  <2>4. CASE ReadNext(r)
    <3> DEFINE t == work[r]
               h == t.key[1]
               p == NextPlace(t)
               v == stored[h][p].now
               new == Append(t.objects, [at |-> p, version |-> v])
    <3>0. t.phase \in Carrying /\ stored' = stored
      BY <2>4 DEF ReadNext, Carrying
    <3>1. p \in Place /\ h \in Hashes
      BY <1>3, <2>0, <2>4, <3>0, NextIsPlace DEF ReadNext
    <3>2. stored[h][p] \in Copy /\ v <= stored[h][p].last
      BY <1>1, <3>1 DEF Typed, Genuine
    <3>3. v # 0 => v \in 1..MaxVersions
      BY <3>2 DEF Copy
    <3>4. v # 0 => Had(stored'[h], new)
      BY <1>3, <2>0, <3>0, <3>1, <3>2, <3>3, HadAppend
    <3>5. work' = [work EXCEPT ![r] = IF v = 0 THEN Idle ELSE [t EXCEPT !.objects = new]]
      BY <2>4 DEF ReadNext
    <3> HIDE DEF v, new
    <3>6. work'[b] = IF v = 0 THEN Idle ELSE [t EXCEPT !.objects = new]
      BY <1>5, <2>0, <3>5
    <3>7. Idle.phase \notin Carrying
      BY DEF Idle, Carrying
    <3>8. v # 0 /\ work'[b] = [t EXCEPT !.objects = new]
      BY <3>6, <3>7
    <3>9. work'[b].key = t.key /\ work'[b].objects = new
      BY <1>3, <2>0, <3>0, <3>8 DEF OfRequest, OfRecovery
    <3> QED BY <3>4, <3>8, <3>9
  <2> QED BY <1>12, <2>1, <2>2, <2>3, <2>4
<1>13. ASSUME NEW a \in Actors, Enqueue(a) \/ AdoptHistory(a) \/ AnswerReceipt(a) \/ Conflict(a) \/ Fail(a)
       PROVE  FALSE
  BY <1>6, <1>13 DEF Enqueue, AdoptHistory, AnswerReceipt, Conflict, Fail
<1>14. work' # work
  OBVIOUS
<1>15. ASSUME NEW s \in Sessions
       PROVE  /\ \A a \in Requests : ~AnswerReplay(a, s)
              /\ \A c \in Deployments : ~CreateSession(s, c)
              /\ ~(LoseLock(s) \/ Expire(s) \/ ForgetReceipt(s) \/ DeleteSession(s) \/ AbortSession(s))
  BY <1>14 DEF AnswerReplay, CreateSession, LoseLock, Expire, ForgetReceipt, DeleteSession,
               AbortSession
<1>16. \A h \in Hashes, p \in Place : ~Erase(h, p)
  BY <1>14 DEF Erase
<1>17. ~UNCHANGED vars
  BY <1>14 DEF vars
<1> QED BY <1>1, <1>8, <1>9, <1>10, <1>11, <1>12, <1>13, <1>15, <1>16, <1>17, Reservations
        DEF Next, Outside, Recovery, Actors

\* An event is made of a task's objects, in the places the intent requires.
LEMMA GenuineStep ==
    ASSUME Inv, Inv', Genuine, [Next]_vars
    PROVE  Genuine'
<1>1. Typed /\ Typed'
  BY DEF Inv
<1>2. ASSUME NEW h \in Hashes, NEW objects \in Seq(Object), Had(stored[h], objects)
      PROVE  Had(stored'[h], objects)
  <2>1. /\ stored[h] \in [Place -> Copy] /\ stored'[h] \in [Place -> Copy]
        /\ \A p \in Place : stored[h][p].last <= stored'[h][p].last
    BY <1>1, StoredGrows
  <2> QED BY <1>2, <2>1, HadStays
<1>3. \A h \in Hashes, p \in Place : stored'[h][p].now <= stored'[h][p].last
  BY <1>1, StoredGrows
<1>4. \A a \in Actors : Backed(a)'
  BY <1>1, BackedStep
<1>5. ASSUME NEW s \in Sessions PROVE Had(stored'[ContentOf[s][1]], finals'[s])
  <2>1. finals[s] \in Seq(Object) /\ ContentOf[s][1] \in Hashes
    BY <1>1, OutboxConstants DEF Typed, Keys
  <2>2. CASE finals'[s] = finals[s]
    BY <1>2, <2>1, <2>2 DEF Genuine
  <2>3. CASE finals'[s] = <<>>
    BY <2>3, HadNone
  <2>4. ASSUME NEW a \in Requests, SaveObjects(a), finals'[s] # finals[s]
        PROVE  Had(stored'[ContentOf[s][1]], finals'[s])
    <3>1. /\ work[a] \in OfRequest /\ a \in Actors /\ a \in Tasks
          /\ work[a].phase \in Carrying /\ stored' = stored
      BY <1>1, <2>4, Tasked DEF SaveObjects, Actors, Tasks, Carrying
    <3>2. s = work[a].session /\ finals'[s] = work[a].objects
      BY <1>1, <2>4 DEF SaveObjects, Typed
    <3>3. work[a].key = ContentOf[s]
      BY <2>4, <3>1, <3>2 DEF SaveObjects, Inv, Sessioned
    <3>4. Had(stored[work[a].key[1]], work[a].objects)
      BY <3>1 DEF Genuine, Backed
    <3> QED BY <3>1, <3>2, <3>3, <3>4
  <2>5. ASSUME NEW x \in Sessions, finals' = [finals EXCEPT ![x] = <<>>]
        PROVE  finals'[s] = finals[s] \/ finals'[s] = <<>>
    BY <1>1, <2>5 DEF Typed
  <2> QED BY <1>1, <2>2, <2>3, <2>4, <2>5, FinalsFrame
<1>6. ASSUME NEW e \in Events'
      PROVE  Had(stored'[e.key[1]], e.objects) /\ \E c \in Config : Places(e.objects) = Required(c)
  <2>1. CASE e \in Events
    <3>1. e.key[1] \in Hashes /\ e.objects \in Seq(Object)
      <4>1. PICK h \in Hashes : \E i \in DOMAIN finalized[h] : e = finalized[h][i]
        BY <2>1 DEF Events
      <4>2. e \in Event
        BY <1>1, <4>1 DEF Typed
      <4> QED BY <4>2 DEF Event, Keys
    <3>2. Had(stored[e.key[1]], e.objects) /\ \E c \in Config : Places(e.objects) = Required(c)
      BY <2>1 DEF Genuine
    <3> QED BY <1>2, <3>1, <3>2
  <2>2. ASSUME NEW a \in Actors, Enqueue(a), e = Proposed(work[a])
        PROVE  Had(stored'[e.key[1]], e.objects) /\ \E c \in Config : Places(e.objects) = Required(c)
    <3>1. /\ work[a] \in OfRequest \cup OfRecovery /\ a \in Tasks /\ stored' = stored
          /\ work[a].phase \in Carrying
      BY <1>1, <2>2, Tasked DEF Enqueue, Ready, Carrying
    <3>2. e.key = work[a].key /\ e.objects = work[a].objects
      BY <2>2 DEF Proposed
    <3>3. Had(stored[work[a].key[1]], work[a].objects)
      BY <3>1 DEF Genuine, Backed
    <3>4. Places(work[a].objects) = Required(intents[work[a].key].policy)
      BY <2>2 DEF Enqueue, MatchesIntent
    <3>5. intents[work[a].key].policy \in Config
      BY <3>1, Proposing DEF Inv, Typed, Intent, Intended
    <3> QED BY <3>1, <3>2, <3>3, <3>4, <3>5
  <2>3. ASSUME NEW a \in Actors, Enqueue(a), e \notin Events
        PROVE  e = Proposed(work[a])
    <3> DEFINE new == Proposed(work[a])
               g == work[a].key[1]
    <3>1. new \in Event /\ g \in Hashes
      BY <1>1, <2>3, Tasked, Proposing DEF Enqueue
    <3>2. finalized' = [finalized EXCEPT ![g] = Touched(finalized[g], new)]
      BY <2>3 DEF Enqueue
    <3> HIDE DEF new
    <3>3. Listed(Touched(finalized[g], new)) = Listed(finalized[g]) \cup {new}
      BY <1>1, <3>1, TouchedKeeps DEF Typed
    <3>4. PICK h \in Hashes : e \in Listed(finalized'[h])
      BY DEF Events, Listed
    <3>5. e \notin Listed(finalized[h])
      BY <2>3 DEF Events, Listed
    <3>6. h = g /\ finalized'[g] = Touched(finalized[g], new)
      BY <1>1, <3>1, <3>2, <3>4, <3>5 DEF Typed
    <3>7. e = new
      BY <3>3, <3>4, <3>5, <3>6
    <3> QED BY <3>7 DEF new
  <2>4. CASE UNCHANGED finalized
    BY <2>1, <2>4 DEF Events
  <2>5. Reserving => UNCHANGED finalized
    BY DEF Reserving
  <2> QED BY <1>1, <2>1, <2>2, <2>3, <2>4, <2>5, Frame
<1> QED BY <1>3, <1>4, <1>5, <1>6 DEF Genuine

LEMMA GenuineInit == Init => Genuine
<1> SUFFICES ASSUME Init PROVE Genuine
  OBVIOUS
<1>1. \A h \in Hashes, p \in Place : stored[h][p] = [now |-> 0, last |-> 0]
  BY DEF Init
<1>2. \A a \in Actors : Backed(a)
  BY DEF Init, Backed, Idle, Carrying
<1>3. \A s \in Sessions : finals[s] = <<>>
  BY DEF Init
<1>4. Events = {}
  BY DEF Init, Events
<1> QED BY <1>1, <1>2, <1>3, <1>4, HadNone DEF Genuine

\* An event names, in every place of one policy and in no other, a version which that
\* place has had of the very hash, whatever was erased, retried or recovered.
THEOREM EventsAreGenuine ==
    Spec => [](\A e \in Events : /\ Had(stored[e.key[1]], e.objects)
                                 /\ \E c \in Config : Places(e.objects) = Required(c))
<1>1. Inv /\ Genuine /\ [Next]_vars => Inv' /\ Genuine'
  BY InvStep, GenuineStep
<1>2. Genuine => \A e \in Events : /\ Had(stored[e.key[1]], e.objects)
                                   /\ \E c \in Config : Places(e.objects) = Required(c)
  BY DEF Genuine
<1> QED BY <1>1, <1>2, InvInit, GenuineInit, PTL DEF Spec

-----------------------------------------------------------------------------
(* What receipts name fits the session. *)

\* These are objects of the first of these places, in their order.
InPlaces(objects, places) ==
    \A i \in DOMAIN objects : i \in DOMAIN places /\ objects[i].at = places[i]

\* Where a session records its policy, what was recorded of it lies where that
\* policy wants it.
Fits(s, objects) == Staged(s) => Places(objects) = Required(sessions[s].policy)

\* A request writes where the session's policy wants it to, and takes over what
\* does.
Obeys(t, policy) ==
    /\ t.phase \in {"writing", "recorded"} =>
            Required(t.store) = Required(policy) /\ InPlaces(t.objects, Required(policy))
    /\ t.phase \in {"recorded", "ready"} => Places(t.objects) = Required(policy)

BoundTask(a) ==
    work[a].phase \in {"writing", "recorded", "saved", "ready"} /\ work[a].session # NoSession =>
        /\ sessions[work[a].session].state # "none"
        /\ Staged(work[a].session) => Obeys(work[a], sessions[work[a].session].policy)

Bound ==
    /\ \A s \in Sessions : finals[s] # <<>> =>
            sessions[s].state # "none" /\ Fits(s, finals[s])
    /\ \A s \in Sessions : HasReceipt(s) =>
            sessions[s].state # "none" /\ Fits(s, receipts[s].objects)
    /\ \A a \in Requests : BoundTask(a)

\* A session keeps the policy it was created with.
LEMMA PolicyStays ==
    ASSUME Typed, [Next]_vars, NEW s \in Sessions, sessions[s].state # "none"
    PROVE  sessions'[s].state # "none" /\ sessions'[s].policy = sessions[s].policy
<1> USE OutboxConstants
<1>0. sessions[s] \in Created
  BY DEF Typed, Session
<1>1. ASSUME NEW x \in Sessions, NEW v,
             v \in {[sessions[x] EXCEPT !.state = "finalized"],
                    [sessions[x] EXCEPT !.state = "deleted"],
                    [sessions[x] EXCEPT !.age = "expired"],
                    [sessions[x] EXCEPT !.age = "forgotten"]},
             sessions' = [sessions EXCEPT ![x] = v]
      PROVE  sessions'[s].state # "none" /\ sessions'[s].policy = sessions[s].policy
  <2>1. CASE x = s
    <3>1. v.state # "none" /\ v.policy = sessions[s].policy
      BY <1>0, <1>1, <2>1 DEF Created
    <3> QED BY <1>1, <2>1, <3>1 DEF Typed
  <2>2. CASE x # s
    BY <1>1, <2>2 DEF Typed
  <2> QED BY <2>1, <2>2
<1>2. ASSUME NEW a \in Requests, SaveSession(a)
      PROVE  sessions'[s].state # "none" /\ sessions'[s].policy = sessions[s].policy
  <2> DEFINE x == work[a].session
             v == [sessions[x] EXCEPT !.state = "finalized"]
  <2>1. sessions' = [sessions EXCEPT ![x] = v]
    BY <1>2 DEF SaveSession
  <2>2. CASE x \in Sessions
    BY <1>1, <2>1, <2>2
  <2>3. CASE x \notin Sessions
    <3> HIDE DEF x, v
    <3> QED BY <2>1, <2>3 DEF Typed
  <2> QED BY <2>2, <2>3
<1>3. ASSUME NEW x \in Sessions, NEW c \in Deployments, CreateSession(x, c)
      PROVE  sessions'[s] = sessions[s]
  BY <1>3 DEF CreateSession, Typed
<1>4. ASSUME NEW x \in Sessions,
             Expire(x) \/ ForgetReceipt(x) \/ DeleteSession(x) \/ AbortSession(x)
      PROVE  sessions'[s].state # "none" /\ sessions'[s].policy = sessions[s].policy
  <2>1. \/ sessions' = [sessions EXCEPT ![x].age = "expired"]
        \/ sessions' = [sessions EXCEPT ![x].age = "forgotten"]
        \/ sessions' = [sessions EXCEPT ![x].state = "deleted"]
    BY <1>4 DEF Expire, ForgetReceipt, DeleteSession, AbortSession
  <2> QED BY <1>1, <2>1
<1>5. ASSUME NEW a \in Actors
      PROVE  /\ \A x \in Sessions : AnswerReplay(a, x) => UNCHANGED sessions
             /\ \A x \in Sessions, c \in Deployments : ResumeSession(a, x, c) => UNCHANGED sessions
             /\ StoreNext(a) \/ SaveObjects(a) \/ FinalObjects(a) => UNCHANGED sessions
             /\ Enqueue(a) \/ AdoptHistory(a) \/ AnswerReceipt(a) \/ Conflict(a) \/ Fail(a)
                    => UNCHANGED sessions
             /\ Peek(a) \/ Pick(a) \/ Consider(a) \/ ReadNext(a) => UNCHANGED sessions
  BY DEF AnswerReplay, ResumeSession, StoreNext, SaveObjects, FinalObjects, Enqueue,
         AdoptHistory, AnswerReceipt, Conflict, Fail, Peek, Pick, Consider, ReadNext, sessionVars
<1>6. /\ Reserving => UNCHANGED sessions
      /\ \A x \in Sessions : LoseLock(x) => UNCHANGED sessions
      /\ \A h \in Hashes, p \in Place : Erase(h, p) => UNCHANGED sessions
      /\ UNCHANGED vars => UNCHANGED sessions
  BY DEF Reserving, LoseLock, Erase, sessionVars, vars
<1>7. CASE UNCHANGED sessions
  BY <1>7
<1> QED BY <1>2, <1>3, <1>4, <1>5, <1>6, <1>7, Reservations DEF Next, Outside, Recovery, Actors

\* A request that begins on a session writes where the session's policy wants it.
LEMMA BeginsBound ==
    ASSUME Typed, NEW a \in Requests, NEW s \in Sessions, NEW c \in Deployments,
           BeginSession(a, s, c), work'[a] # work[a]
    PROVE  /\ work'[a].session = s /\ work'[a].phase = "writing" /\ work'[a].objects = <<>>
           /\ sessions[s].state # "none" /\ sessions' = sessions
           /\ Staged(s) => Required(work'[a].store) = Required(sessions[s].policy)
<1> DEFINE q == sessions[s].policy
           d == [c EXCEPT !.mode = q.mode]
           i == Upserted(intents[ContentOf[s]], d)
           e == [d EXCEPT !.mode = i.policy.mode]
<1>1. /\ Reserve(a, ContentOf[s], s, d, FALSE) /\ sessions' = sessions
      /\ sessions[s].state = "open" /\ (Staged(s) => Unmoved(s, c))
      /\ c.gcs = NoBucket => Staged(s)
  BY DEF BeginSession
<1>2. d \in Config /\ c \in Config /\ q \in Config
  <2>1. c \in Config
    BY OutboxConstants
  <2>2. q \in Config
    BY <1>1 DEF Typed, Session, Created
  <2> QED BY <1>1, <2>1, <2>2, SessionMode
<1>3. d.mode = q.mode /\ d.gcs = c.gcs /\ d.b2 = c.b2
  BY <1>2 DEF Config
<1>4. i.policy.mode = d.mode /\ work' = [work EXCEPT ![a] = Task("writing", ContentOf[s], s, e, <<>>)]
  BY <1>1 DEF Reserve
<1>5. e.mode = q.mode /\ e.gcs = c.gcs /\ e.b2 = c.b2
  <2> HIDE DEF d, i
  <2> QED BY <1>2, <1>3, <1>4 DEF Config
<1> HIDE DEF e
<1>6. work'[a] = Task("writing", ContentOf[s], s, e, <<>>)
  BY <1>4 DEF Typed, WorkTyped, Actors
<1>7. /\ work'[a].session = s /\ work'[a].phase = "writing" /\ work'[a].objects = <<>>
      /\ work'[a].store = e
  BY <1>6 DEF Task
<1>8. Staged(s) => Required(e) = Required(q)
  <2> SUFFICES ASSUME Staged(s) PROVE Required(e) = Required(q)
    OBVIOUS
  <2>1. q.b2 = c.b2 /\ (q.mode # "b2" => q.gcs = c.gcs) /\ q.mode \in {"b2", "dual"}
    BY <1>1, <1>2 DEF Staged, Unmoved, Config, Modes
  <2> HIDE DEF q
  <2> QED BY <1>5, <2>1 DEF Required, Gcs, B2
<1> QED BY <1>1, <1>7, <1>8

\* What lies in the first of some places and in no fewer lies in them.
LEMMA AllPlaces ==
    ASSUME NEW c \in Config, NEW objects \in Seq(Object), InPlaces(objects, Required(c)),
           ~(Len(objects) < Len(Required(c)))
    PROVE  Places(objects) = Required(c)
<1>1. Required(c) \in Seq(Place) /\ Len(Required(c)) \in Nat
  BY Policies
<1>2. DOMAIN objects = 1..Len(objects) /\ Len(objects) \in Nat
      /\ DOMAIN Required(c) = 1..Len(Required(c))
  BY <1>1
<1>3. Len(objects) = Len(Required(c))
  <2>1. CASE Len(objects) = 0
    BY <1>1, <2>1
  <2>2. CASE Len(objects) # 0
    <3>1. Len(objects) \in DOMAIN objects
      BY <1>2, <2>2
    <3>2. Len(objects) \in DOMAIN Required(c)
      BY <3>1 DEF InPlaces
    <3>3. Len(objects) \in 1..Len(Required(c))
      BY <1>2, <3>2
    <3>4. \A m, n \in Nat : m \in 1..n /\ ~(m < n) => m = n
      OBVIOUS
    <3> QED BY <1>1, <1>2, <3>3, <3>4
  <2> QED BY <2>1, <2>2
<1>4. Required(c) = [i \in DOMAIN objects |-> Required(c)[i]]
  BY <1>1, <1>2, <1>3
<1>5. \A i \in DOMAIN objects : objects[i].at = Required(c)[i]
  BY DEF InPlaces
<1>6. Places(objects) = [i \in DOMAIN objects |-> Required(c)[i]]
  BY <1>5 DEF Places
<1> QED BY <1>4, <1>6

\* The next object lies in the next place.
LEMMA OneMorePlace ==
    ASSUME NEW t, t.store \in Config, t.objects \in Seq(Object), Unread(t),
           InPlaces(t.objects, Required(t.store)), NEW v \in 1..MaxVersions
    PROVE  InPlaces(Append(t.objects, [at |-> NextPlace(t), version |-> v]), Required(t.store))
<1> DEFINE o == [at |-> NextPlace(t), version |-> v]
           n == Len(t.objects)
           new == Append(t.objects, o)
           places == Required(t.store)
<1>1. places \in Seq(Place) /\ Len(places) \in Nat /\ DOMAIN places = 1..Len(places)
  BY Policies
<1>2. o \in Object
  BY NextIsPlace DEF Object
<1>3. /\ n \in Nat /\ DOMAIN t.objects = 1..n /\ DOMAIN new = 1..(n + 1)
      /\ \A i \in 1..n : new[i] = t.objects[i]
      /\ new[n + 1] = o
  BY <1>2
<1>4. n + 1 \in 1..Len(places) /\ o.at = places[n + 1]
  BY <1>1, <1>3 DEF Unread, NextPlace
<1> HIDE DEF n, o, new, places
<1>5. \A i \in 1..(n + 1) : i \in 1..n \/ i = n + 1
  BY <1>3
<1>6. InPlaces(new, places)
  BY <1>1, <1>3, <1>4, <1>5 DEF InPlaces, places
<1> QED BY <1>6 DEF new, o, places

\* A request goes on as its session's policy wants it to.
LEMMA BoundTaskStep ==
    ASSUME Inv, Bound, [Next]_vars, NEW b \in Requests
    PROVE  BoundTask(b)'
<1> USE OutboxConstants
<1>1. Typed /\ Sessioned /\ b \in Actors
  BY DEF Inv, Actors
<1> DEFINE Carried == {"writing", "recorded", "saved", "ready"}
<1>2. ASSUME NEW s \in Sessions, sessions[s].state # "none"
      PROVE  /\ sessions'[s].state # "none" /\ sessions'[s].policy = sessions[s].policy
  BY <1>1, <1>2, PolicyStays
<1>3. ASSUME NEW a \in Requests, work[a].phase \in Carried
      PROVE  /\ work[a] \in OfRequest /\ work[a].session \in Sessions \cup {NoSession}
             /\ work[a].store \in Config /\ work[a].objects \in Seq(Object)
             /\ work[a].session # NoSession => work[a].session \in Sessions
  <2>1. work[a] \in OfRequest
    BY <1>1, <1>3, Tasked DEF Actors
  <2> QED BY <2>1, Proposing
<1>4. CASE work'[b] = work[b]
  <2> DEFINE s == work[b].session
  <2>1. CASE work[b].phase \in Carried /\ s # NoSession
    <3>1. /\ s \in Sessions /\ sessions[s].state # "none"
          /\ sessions[s].policy.mode # "gcs" => Obeys(work[b], sessions[s].policy)
      BY <1>3, <2>1 DEF Bound, BoundTask, Staged
    <3>2. sessions'[s].state # "none" /\ sessions'[s].policy = sessions[s].policy
      BY <1>2, <3>1
    <3>3. Obeys(work[b], sessions[s].policy) => Obeys(work'[b], sessions'[s].policy)
      BY <1>4, <3>2
    <3> HIDE DEF s
    <3>4. work'[b].session = s
      BY <1>4 DEF s
    <3>5. BoundTask(b)'
      <4>1. /\ sessions'[s].state # "none"
            /\ sessions'[s].policy.mode # "gcs" => Obeys(work'[b], sessions'[s].policy)
        BY <3>1, <3>2, <3>3
      <4> QED BY <3>4, <4>1 DEF BoundTask, Staged, Obeys
    <3> QED BY <3>5
  <2>2. CASE ~(work[b].phase \in Carried /\ s # NoSession)
    BY <1>4, <2>2 DEF BoundTask
  <2> QED BY <2>1, <2>2
<1> DEFINE Goal == /\ sessions'[work'[b].session].state # "none"
                   /\ sessions'[work'[b].session].policy.mode # "gcs"
                         => Obeys(work'[b], sessions'[work'[b].session].policy)
<1> SUFFICES ASSUME work'[b] # work[b], work'[b].phase \in Carried, work'[b].session # NoSession
             PROVE  Goal
  BY <1>4 DEF BoundTask, Staged, Obeys
<1>5. ASSUME NEW v, NEW a \in Actors, work' = [work EXCEPT ![a] = v]
      PROVE  b = a /\ work'[b] = v
  BY <1>1, <1>5 DEF Typed, WorkTyped
<1>6. ASSUME NEW s \in Sessions, sessions[s].state # "none", work'[b].session = s,
             Staged(s) => Obeys(work'[b], sessions[s].policy)
      PROVE  Goal
  BY <1>2, <1>6 DEF Staged
<1> HIDE DEF Goal
<1>7. ~\E a \in Actors : Finish(a)
  <2>1. Idle.phase \notin Carried
    BY DEF Idle
  <2>2. \A a \in Actors : work' # [work EXCEPT ![a] = Idle]
    BY <1>5, <2>1
  <2> QED BY <2>2 DEF Finish
<1>8. ASSUME NEW a \in Requests, NEW k \in Keys, NEW c \in Deployments, BeginDirect(a, k, c)
      PROVE  FALSE
  <2> DEFINE d == [c EXCEPT !.mode = Upserted(intents[k], c).policy.mode]
  <2>1. work' = work \/ work' = [work EXCEPT ![a] = Task("writing", k, NoSession, d, <<>>)]
    BY <1>8 DEF BeginDirect, Reserve
  <2> HIDE DEF d
  <2>2. work'[b] = Task("writing", k, NoSession, d, <<>>)
    BY <1>5, <2>1 DEF Actors
  <2> QED BY <2>2 DEF Task
<1>9. ASSUME NEW a \in Requests, NEW s \in Sessions, NEW c \in Deployments, BeginSession(a, s, c)
      PROVE  Goal
  <2> DEFINE k == ContentOf[s]
             d == [c EXCEPT !.mode = sessions[s].policy.mode]
             e == [d EXCEPT !.mode = Upserted(intents[k], d).policy.mode]
  <2>1. work' = work \/ work' = [work EXCEPT ![a] = Task("writing", k, s, e, <<>>)]
    BY <1>9 DEF BeginSession, Reserve
  <2> HIDE DEF e
  <2>2. a = b
    BY <1>5, <2>1 DEF Actors
  <2>3. /\ work'[b].session = s /\ work'[b].phase = "writing" /\ work'[b].objects = <<>>
        /\ sessions[s].state # "none"
        /\ Staged(s) => Required(work'[b].store) = Required(sessions[s].policy)
    BY <1>1, <1>9, <2>2, BeginsBound
  <2>4. Staged(s) => Obeys(work'[b], sessions[s].policy)
    BY <2>3 DEF Obeys, InPlaces
  <2> QED BY <1>6, <2>3, <2>4
<1>10. ASSUME NEW a \in Requests, NEW s \in Sessions, NEW c \in Deployments, ResumeSession(a, s, c)
       PROVE  Goal
  <2>1. work' = [work EXCEPT ![a] = Task("saved", ContentOf[s], s, c, <<>>)]
    BY <1>10 DEF ResumeSession
  <2>2. work'[b] = Task("saved", ContentOf[s], s, c, <<>>)
    BY <1>5, <2>1 DEF Actors
  <2>3. work'[b].session = s /\ work'[b].phase = "saved"
    BY <2>2 DEF Task
  <2>4. sessions[s].state # "none"
    BY <1>10 DEF ResumeSession
  <2> QED BY <1>6, <2>3, <2>4 DEF Obeys
<1>11. ASSUME NEW a \in Requests, StoreNext(a) \/ SaveObjects(a) \/ SaveSession(a) \/ FinalObjects(a)
       PROVE  Goal
  <2> DEFINE t == work[a]
             s == t.session
  <2>0. t \in OfRequest /\ t.phase \in Carried /\ t.store \in Config /\ t.objects \in Seq(Object)
    BY <1>3, <1>11 DEF StoreNext, SaveObjects, SaveSession, FinalObjects
  <2>1. \A x, y : /\ [t EXCEPT !.phase = x].session = s
                 /\ [t EXCEPT !.phase = x].phase = x
                 /\ [t EXCEPT !.phase = x].store = t.store
                 /\ [t EXCEPT !.phase = x].objects = t.objects
                 /\ [t EXCEPT !.objects = y].session = s
                 /\ [t EXCEPT !.objects = y].phase = t.phase
                 /\ [t EXCEPT !.objects = y].store = t.store
                 /\ [t EXCEPT !.objects = y].objects = y
                 /\ [t EXCEPT !.phase = x, !.objects = y].session = s
                 /\ [t EXCEPT !.phase = x, !.objects = y].phase = x
                 /\ [t EXCEPT !.phase = x, !.objects = y].objects = y
    BY <2>0 DEF OfRequest
  <2>2. ASSUME s # NoSession
        PROVE  /\ s \in Sessions /\ sessions[s].state # "none"
               /\ Staged(s) => Obeys(t, sessions[s].policy)
    BY <1>3, <2>0, <2>2 DEF Bound, BoundTask
  <2>3. CASE StoreNext(a)
    <3> DEFINE o == stored[t.key[1]][NextPlace(t)]
               v == IF o.now # 0 THEN o.now ELSE o.last + 1
               new == Append(t.objects, [at |-> NextPlace(t), version |-> v])
    <3>1. work' = [work EXCEPT ![a] = [t EXCEPT !.objects = new]] /\ t.phase = "writing" /\ Unread(t)
      BY <2>3 DEF StoreNext
    <3>2. v \in 1..MaxVersions
      <4>1. o \in Copy
        <5>1. t.key[1] \in Hashes /\ NextPlace(t) \in Place
          BY <2>0, <3>1, Proposing, NextIsPlace
        <5> QED BY <1>1, <5>1 DEF Typed
      <4>2. v <= MaxVersions
        BY <2>3 DEF StoreNext
      <4> HIDE DEF o
      <4>3. o.now \in Nat /\ o.last \in Nat
        BY <4>1 DEF Copy
      <4> QED BY <4>2, <4>3
    <3> HIDE DEF v
    <3>3. InPlaces(t.objects, Required(t.store)) => InPlaces(new, Required(t.store))
      BY <2>0, <3>1, <3>2, OneMorePlace
    <3> HIDE DEF new
    <3>4. work'[b] = [t EXCEPT !.objects = new]
      BY <1>5, <3>1 DEF Actors
    <3>5. work'[b].session = s /\ work'[b].phase = "writing" /\ work'[b].store = t.store
          /\ work'[b].objects = new
      BY <2>1, <3>1, <3>4
    <3>6. Staged(s) => Obeys(work'[b], sessions[s].policy)
      BY <2>2, <3>1, <3>3, <3>5 DEF Obeys
    <3> QED BY <1>6, <2>2, <3>5, <3>6
  <2>4. CASE SaveObjects(a)
    <3>1. work' = [work EXCEPT ![a] = [t EXCEPT !.phase = "recorded"]]
          /\ t.phase = "writing" /\ ~Unread(t)
      BY <2>4 DEF SaveObjects
    <3>2. work'[b] = [t EXCEPT !.phase = "recorded"]
      BY <1>5, <3>1 DEF Actors
    <3>3. work'[b].session = s /\ work'[b].phase = "recorded" /\ work'[b].store = t.store
          /\ work'[b].objects = t.objects
      BY <2>1, <3>2
    <3>4. InPlaces(t.objects, Required(t.store)) => Places(t.objects) = Required(t.store)
      BY <2>0, <3>1, AllPlaces DEF Unread
    <3>5. Staged(s) => Obeys(work'[b], sessions[s].policy)
      <4> SUFFICES ASSUME Staged(s) PROVE Obeys(work'[b], sessions[s].policy)
        OBVIOUS
      <4>1. /\ Required(t.store) = Required(sessions[s].policy)
            /\ InPlaces(t.objects, Required(sessions[s].policy))
        BY <1>6, <2>2, <3>1, <3>3 DEF Obeys
      <4>2. Places(t.objects) = Required(sessions[s].policy)
        BY <3>4, <4>1
      <4> HIDE DEF s
      <4> QED BY <3>3, <4>1, <4>2 DEF Obeys
    <3> QED BY <1>6, <2>2, <3>3, <3>5
  <2>5. CASE SaveSession(a)
    <3>1. work' = [work EXCEPT ![a] = [t EXCEPT !.phase = "saved", !.objects = <<>>]]
      BY <2>5 DEF SaveSession
    <3>2. work'[b] = [t EXCEPT !.phase = "saved", !.objects = <<>>]
      BY <1>5, <3>1 DEF Actors
    <3>3. work'[b].session = s /\ work'[b].phase = "saved"
      BY <2>1, <3>2
    <3> QED BY <1>6, <2>2, <3>3 DEF Obeys
  <2>6. CASE FinalObjects(a)
    <3>1. PICK y : /\ work' = [work EXCEPT ![a] = [t EXCEPT !.phase = "ready", !.objects = y]]
                   /\ Staged(s) => y = finals[s] /\ y # <<>>
      <4> DEFINE x == <<[at |-> Gcs(t.store), version |-> stored[t.key[1]][Gcs(t.store)].now]>>
      <4>1. CASE Staged(s)
        <5>1. finals[s] # <<>> /\ work' = [work EXCEPT ![a] = [t EXCEPT !.phase = "ready",
                                                                     !.objects = finals[s]]]
          BY <2>6, <4>1 DEF FinalObjects
        <5> QED BY <5>1
      <4>2. CASE ~Staged(s)
        <5>1. work' = [work EXCEPT ![a] = [t EXCEPT !.phase = "ready", !.objects = x]]
          BY <2>6, <4>2 DEF FinalObjects
        <5> HIDE DEF x
        <5> QED BY <4>2, <5>1
      <4> QED BY <4>1, <4>2
    <3>2. work'[b] = [t EXCEPT !.phase = "ready", !.objects = y]
      BY <1>5, <3>1 DEF Actors
    <3>3. work'[b].session = s /\ work'[b].phase = "ready" /\ work'[b].objects = y
      BY <2>1, <3>2
    <3>4. Staged(s) => Places(y) = Required(sessions[s].policy)
      BY <2>2, <3>1, <3>3 DEF Bound, Fits
    <3> QED BY <1>6, <2>2, <3>3, <3>4 DEF Obeys
  <2> QED BY <1>11, <2>3, <2>4, <2>5, <2>6
<1>12. ASSUME NEW r \in Recoverers, Peek(r) \/ Pick(r) \/ Consider(r) \/ ReadNext(r)
       PROVE  FALSE
  <2>1. \E v : work' = [work EXCEPT ![r] = v]
    BY <1>12 DEF Peek, Pick, Consider, ReadNext
  <2> QED BY <1>5, <2>1 DEF Actors
<1>13. ASSUME NEW a \in Actors, Enqueue(a) \/ AdoptHistory(a) \/ AnswerReceipt(a) \/ Conflict(a) \/ Fail(a)
       PROVE  FALSE
  BY <1>7, <1>13 DEF Enqueue, AdoptHistory, AnswerReceipt, Conflict, Fail
<1>14. /\ \A a \in Requests, s \in Sessions : ~AnswerReplay(a, s)
       /\ \A s \in Sessions, c \in Deployments : ~CreateSession(s, c)
       /\ \A s \in Sessions : ~(LoseLock(s) \/ Expire(s) \/ ForgetReceipt(s) \/ DeleteSession(s)
                                \/ AbortSession(s))
       /\ \A h \in Hashes, p \in Place : ~Erase(h, p)
       /\ ~UNCHANGED vars
  BY DEF AnswerReplay, CreateSession, LoseLock, Expire, ForgetReceipt, DeleteSession,
         AbortSession, Erase, vars
<1>15. Goal
  BY <1>8, <1>9, <1>10, <1>11, <1>12, <1>13, <1>14 DEF Next, Outside, Recovery, Actors
<1> QED BY <1>15 DEF Goal

\* So what is recorded of a session, and its receipt, fit its policy.
LEMMA BoundStep ==
    ASSUME Inv, Bound, [Next]_vars
    PROVE  Bound'
<1> USE OutboxConstants
<1>1. Typed /\ Sessioned
  BY DEF Inv
<1>2. ASSUME NEW s \in Sessions, sessions[s].state # "none", NEW objects, Fits(s, objects)
      PROVE  sessions'[s].state # "none" /\ Fits(s, objects)'
  BY <1>1, <1>2, PolicyStays DEF Fits, Staged, Places
<1>3. ASSUME NEW s \in Sessions, finals'[s] # <<>>
      PROVE  sessions'[s].state # "none" /\ Fits(s, finals[s])'
  <2>1. CASE finals'[s] = finals[s]
    <3>1. sessions[s].state # "none" /\ Fits(s, finals[s])
      BY <1>3, <2>1 DEF Bound
    <3> QED BY <1>1, <2>1, <3>1, PolicyStays DEF Fits, Staged, Places
  <2>2. ASSUME NEW a \in Requests, SaveObjects(a), finals'[s] # finals[s]
        PROVE  sessions'[s].state # "none" /\ Fits(s, finals[s])'
    <3> DEFINE t == work[a]
    <3>1. /\ t.phase = "writing" /\ t.session # NoSession /\ ~Unread(t)
          /\ finals' = IF Staged(t.session) THEN [finals EXCEPT ![t.session] = t.objects] ELSE finals
      BY <2>2 DEF SaveObjects
    <3>2. t.session = s /\ finals'[s] = t.objects /\ Staged(s)
      BY <1>1, <2>2, <3>1 DEF Typed
    <3>3. t.store \in Config /\ t.objects \in Seq(Object)
      <4>1. t \in OfRequest
        BY <1>1, <3>1, Tasked DEF Actors
      <4> QED BY <4>1, Proposing
    <3>4. sessions[s].state # "none" /\ Obeys(t, sessions[s].policy)
      BY <3>1, <3>2 DEF Bound, BoundTask
    <3>5. Places(t.objects) = Required(sessions[s].policy)
      BY <3>1, <3>3, <3>4, AllPlaces DEF Obeys, Unread
    <3> QED BY <1>1, <3>2, <3>4, <3>5, PolicyStays DEF Fits, Staged, Places
  <2>3. ASSUME NEW x \in Sessions, finals' = [finals EXCEPT ![x] = <<>>]
        PROVE  finals'[s] = finals[s]
    BY <1>1, <1>3, <2>3 DEF Typed
  <2> QED BY <1>1, <2>1, <2>2, <2>3, FinalsFrame
<1>4. ASSUME NEW s \in Sessions, receipts'[s] # NoEvent
      PROVE  sessions'[s].state # "none" /\ Fits(s, receipts[s].objects)'
  <2>1. CASE receipts'[s] = receipts[s]
    <3>1. sessions[s].state # "none" /\ Fits(s, receipts[s].objects)
      BY <1>4, <2>1 DEF Bound, HasReceipt
    <3> QED BY <1>1, <2>1, <3>1, PolicyStays DEF Fits, Staged, Places
  <2>2. ASSUME NEW a \in Actors, Enqueue(a) \/ AdoptHistory(a), receipts'[s] # receipts[s]
        PROVE  sessions'[s].state # "none" /\ Fits(s, receipts[s].objects)'
    <3> DEFINE t == work[a]
               e == Proposed(t)
    <3>1. /\ t.session \in Sessions \cup {NoSession}
          /\ receipts' = IF t.session = NoSession THEN receipts ELSE [receipts EXCEPT ![t.session] = e]
      BY <1>1, <2>2, Recording
    <3>2. e.objects = t.objects
      BY DEF Proposed
    <3> HIDE DEF e
    <3>3. t.session = s /\ s # NoSession /\ receipts'[s] = e
      BY <1>1, <2>2, <3>1 DEF Typed
    <3>4. a \in Requests /\ t.phase = "ready"
      <4>1. Ready(a)
        BY <2>2 DEF Enqueue, AdoptHistory
      <4>2. t.phase # "reading"
        BY <1>1, <3>3, Tasked DEF OfRecovery
      <4>3. t.phase = "ready"
        BY <3>3, <4>1, <4>2 DEF Ready
      <4> QED BY <1>1, <4>3, Tasked
    <3>5. sessions[s].state # "none" /\ (Staged(s) => Places(t.objects) = Required(sessions[s].policy))
      BY <3>3, <3>4 DEF Bound, BoundTask, Obeys
    <3> QED BY <1>1, <3>2, <3>3, <3>5, PolicyStays DEF Fits, Staged, Places
  <2>3. ASSUME NEW x \in Sessions, receipts' = [receipts EXCEPT ![x] = NoEvent]
        PROVE  receipts'[s] = receipts[s]
    BY <1>1, <1>4, <2>3 DEF Typed
  <2> QED BY <1>1, <2>1, <2>2, <2>3, Receipts
<1> QED BY <1>3, <1>4, BoundTaskStep DEF Bound, HasReceipt

LEMMA BoundInit == Init => Bound
<1> SUFFICES ASSUME Init PROVE Bound
  OBVIOUS
<1>1. \A s \in Sessions : finals[s] = <<>> /\ receipts[s] = NoEvent
  BY DEF Init
<1>2. \A a \in Requests : work[a].phase = "idle"
  BY DEF Init, Idle, Actors
<1> QED BY <1>1, <1>2 DEF Bound, BoundTask, HasReceipt

\* A receipt names an event of its session's hash and owner, of versions that were
\* stored, and of a session that records its policy just where this wants them.
THEOREM ReceiptsGenuine == Spec => []ReceiptsAreGenuine
<1>1. Inv /\ Genuine /\ Bound /\ [Next]_vars => Inv' /\ Genuine' /\ Bound'
  BY InvStep, GenuineStep, BoundStep
<1>2. Inv /\ Genuine /\ Bound => ReceiptsAreGenuine
  BY DEF Inv, Receipted, Genuine, Bound, Fits, ReceiptsAreGenuine
<1> QED BY <1>1, <1>2, InvInit, GenuineInit, BoundInit, PTL DEF Spec
=============================================================================
