--------------------------- MODULE CanonicalProofs ---------------------------
(***************************************************************************)
(* Proofs about CanonicalStorage: what put and put_file return is stored,  *)
(* orderly writes share one B2 version, and copies are the same media.     *)
(***************************************************************************)
EXTENDS CanonicalStorage, FiniteSetTheorems, TLAPS

B2Steps == {"b2", "b2_put", "b2_look"}

Typed ==
    /\ gcs \in [Keys -> [bytes : Bytes, owner : Owners] \cup {Nothing}]
    /\ b2 \in [Keys -> Seq(Version)]
    /\ guard \in [Keys -> Coordinated \cup {NoWriter}]
    /\ sent \subseteq Request
    /\ call \in [Writers -> Call \cup {Idle}]
    /\ begun \in 0..MaxCalls
    /\ answers \subseteq Answer

\* GCS holds what the writer uploads.
AtGcs(w) == gcs[Key(w)] # Nothing /\ gcs[Key(w)].bytes = UploadOf[w].bytes

\* Version i at B2 holds what the writer uploads.
AtB2(w, i) == i \in 1..Newest(Key(w)) /\ b2[Key(w)][i].bytes = UploadOf[w].bytes

\* What a writer may rely on at each step of its call.
Knows(w) ==
    /\ call[w].at \in {"gcs", "gcs_put", "gcs_look"} => UsesGcs(w)
    /\ At(w, "winner") => ModeOf[w] = "dual"
    /\ call[w].at \in B2Steps => UsesB2(w)
    /\ UsesGcs(w) /\ call[w].at \in B2Steps \cup {"winner"} => AtGcs(w)
    /\ At(w, "gcs_put") /\ call[w].reply # NoReply => AtGcs(w)
    /\ At(w, "b2_put") /\ call[w].reply # NoReply => AtB2(w, call[w].reply)
    /\ ModeOf[w] = "dual" /\ call[w].at \in B2Steps
         => call[w].owner = gcs[Key(w)].owner

\* Who has passed the guard and kept its connection holds the lock, and calls
\* are numbered in their order.
Holding(w) ==
    call[w].at # "idle" =>
        /\ call[w].id <= begun
        /\ w \in Coordinated /\ call[w].at # "guard" /\ ~call[w].doomed
             => guard[Key(w)] = w

\* No version of a key is an orderly one.
NoOrderly(k) == \A i \in 1..Newest(k) : ~b2[k][i].orderly

\* What a request in flight may do when it lands.
Sound(r) ==
    /\ r.id <= begun
    /\ r.key = Key(r.by)
    /\ r.bytes = UploadOf[r.by].bytes
    /\ r.to = "b2" =>
         /\ UsesB2(r.by)
         /\ ModeOf[r.by] = "dual" =>
              /\ AtGcs(r.by)
              /\ r.owner = gcs[r.key].owner
         /\ call[r.by].at # "idle" /\ call[r.by].id = r.id
              => call[r.by].at \in {"b2_put", "b2_look", "returned"}
         /\ Awaits(r) => r.owner = call[r.by].owner
         /\ Awaits(r) /\ ~call[r.by].doomed => NoOrderly(r.key)

OneOrderly ==
    \A k \in Keys : \A i, j \in 1..Newest(k) :
        b2[k][i].orderly /\ b2[k][j].orderly => i = j

SameMedia ==
    (\A w \in Writers : ModeOf[w] # "b2") =>
        \A k \in Keys : \A i \in 1..Newest(k) :
            /\ gcs[k] # Nothing
            /\ b2[k][i].bytes = gcs[k].bytes
            /\ b2[k][i].owner = gcs[k].owner

Inv ==
    /\ Typed
    /\ \A w \in Writers : Knows(w) /\ Holding(w)
    /\ \A r \in sent : Sound(r)
    /\ OneOrderly
    /\ SameMedia
    /\ AnsweredIsStored

-----------------------------------------------------------------------------
(* Facts about the data. *)

\* Nothing is no stored object.
LEMMA NothingIsNoObject ==
    ASSUME NEW b \in Bytes, NEW o
    PROVE  [bytes |-> b, owner |-> o] # Nothing
BY CanonicalConstants DEF Nothing

\* A writer without a database writes to GCS alone.
LEMMA B2IsCoordinated == \A w \in Writers : UsesB2(w) => w \in Coordinated
BY CanonicalConstants DEF UsesB2

\* Modes, keys, bytes and owners of uploads.
LEMMA Uploads ==
    \A w \in Writers :
        /\ Key(w) \in Keys
        /\ UploadOf[w].bytes \in Bytes
        /\ UploadOf[w].owner \in Owners
        /\ ModeOf[w] \in {"gcs", "b2", "dual"}
        /\ w # NoWriter
BY CanonicalConstants DEF Key

-----------------------------------------------------------------------------
(* What the steps do to a call. *)

\* The fields of a call, which is never idle.
LEMMA CallFields ==
    ASSUME NEW c \in Call
    PROVE  /\ c # Idle
           /\ c.at \in Steps /\ c.at # "idle"
           /\ c.id \in 1..MaxCalls
           /\ c.owner \in Owners
           /\ c.reply \in {NoReply} \cup Nat
           /\ c.new \in BOOLEAN
           /\ c.doomed \in BOOLEAN
BY DEF Call, Idle, Steps

\* An update of a call, written out.
LEMMA UpdatedCall ==
    ASSUME NEW c \in Call
    PROVE  /\ \A step \in Steps : [c EXCEPT !.at = step] \in Call
           /\ \A o \in Owners : [c EXCEPT !.owner = o] \in Call
           /\ \A n \in {NoReply} \cup Nat : [c EXCEPT !.reply = n] \in Call
           /\ \A b \in BOOLEAN : [c EXCEPT !.new = b] \in Call
           /\ [c EXCEPT !.doomed = TRUE] \in Call
BY DEF Call

\* Only w's call is another one now, with these fields.
Now(w, step, owner, reply, new, doomed) ==
    /\ call' \in [Writers -> Call \cup {Idle}]
    /\ \A v \in Writers \ {w} : call'[v] = call[v]
    /\ call'[w] \in Call
    /\ call'[w].id = call[w].id
    /\ call'[w].at = step
    /\ call'[w].owner = owner
    /\ call'[w].reply = reply
    /\ call'[w].new = new
    /\ call'[w].doomed = doomed

\* A call that is not idle is one.
LEMMA CallOrIdle ==
    ASSUME Typed, NEW w \in Writers
    PROVE  IF call[w].at = "idle" THEN call[w] = Idle ELSE call[w] \in Call
BY CallFields DEF Typed, Idle

LEMMA GotoMoves ==
    ASSUME Typed, NEW w \in Writers, call[w] \in Call, NEW step \in Steps, Goto(w, step)
    PROVE  Now(w, step, call[w].owner, NoReply, call[w].new, call[w].doomed)
<1> DEFINE d == [call[w] EXCEPT !.at = step]
           e == [d EXCEPT !.reply = NoReply]
<1>1. d \in Call
  BY UpdatedCall
<1>2. e \in Call
  BY <1>1, UpdatedCall
<1>3. call' = [call EXCEPT ![w] = e]
  BY DEF Goto, Typed
<1>4. /\ e.id = call[w].id /\ e.at = step /\ e.owner = call[w].owner
      /\ e.reply = NoReply /\ e.new = call[w].new /\ e.doomed = call[w].doomed
  BY DEF Call
<1> HIDE DEF e
<1> QED BY <1>2, <1>3, <1>4 DEF Now, Typed

LEMMA ReturnMoves ==
    ASSUME Typed, NEW w \in Writers, call[w] \in Call, NEW n \in Nat, NEW new \in BOOLEAN,
           Returns(w, n, new)
    PROVE  /\ Now(w, "returned", call[w].owner, NoReply, call[w].new, call[w].doomed)
           /\ answers' = answers \cup {[by |-> w, version |-> n, new |-> new]}
           /\ answers' \subseteq Answer
<1>1. "returned" \in Steps /\ Goto(w, "returned")
  BY DEF Steps, Goto, Returns
<1>2. [by |-> w, version |-> n, new |-> new] \in Answer
  BY DEF Answer
<1> QED BY <1>1, <1>2, GotoMoves DEF Returns, Typed

\* The end of the GCS part.
LEMMA LeaveGcsMoves ==
    ASSUME Typed, NEW w \in Writers, call[w] \in Call, NEW new \in BOOLEAN, LeaveGcs(w, new)
    PROVE  \/ /\ ModeOf[w] = "dual"
              /\ Now(w, "winner", call[w].owner, NoReply, new, call[w].doomed)
              /\ UNCHANGED answers
           \/ /\ ModeOf[w] # "dual"
              /\ Now(w, "returned", call[w].owner, NoReply, call[w].new, call[w].doomed)
              /\ answers' = answers \cup {[by |-> w, version |-> 0, new |-> new]}
              /\ answers' \subseteq Answer
<1>1. CASE ModeOf[w] = "dual"
  <2> DEFINE d == [call[w] EXCEPT !.at = "winner"]
             e == [d EXCEPT !.new = new]
             f == [e EXCEPT !.reply = NoReply]
  <2>1. d \in Call
    BY UpdatedCall DEF Steps
  <2>2. e \in Call
    BY <2>1, UpdatedCall
  <2>3. f \in Call
    BY <2>2, UpdatedCall
  <2>4. call' = [call EXCEPT ![w] = f] /\ UNCHANGED answers
    BY <1>1 DEF LeaveGcs, Typed
  <2>5. /\ f.id = call[w].id /\ f.at = "winner" /\ f.owner = call[w].owner
        /\ f.reply = NoReply /\ f.new = new /\ f.doomed = call[w].doomed
    BY DEF Call
  <2> HIDE DEF f
  <2> QED BY <1>1, <2>3, <2>4, <2>5 DEF Now, Typed
<1>2. CASE ModeOf[w] # "dual"
  BY <1>2, ReturnMoves DEF LeaveGcs
<1> QED BY <1>1, <1>2

LEMMA OwnerMoves ==
    ASSUME Typed, NEW w \in Writers, call[w] \in Call, NEW step \in Steps, NEW o \in Owners,
           call' = [call EXCEPT ![w].at = step, ![w].owner = o]
    PROVE  Now(w, step, o, call[w].reply, call[w].new, call[w].doomed)
<1> DEFINE d == [call[w] EXCEPT !.at = step]
           e == [d EXCEPT !.owner = o]
<1>1. d \in Call
  BY UpdatedCall
<1>2. e \in Call
  BY <1>1, UpdatedCall
<1>3. call' = [call EXCEPT ![w] = e]
  BY DEF Typed
<1>4. /\ e.id = call[w].id /\ e.at = step /\ e.owner = o
      /\ e.reply = call[w].reply /\ e.new = call[w].new /\ e.doomed = call[w].doomed
  BY DEF Call
<1> HIDE DEF e
<1> QED BY <1>2, <1>3, <1>4 DEF Now, Typed

\* Inherit takes the step to the first provider.
LEMMA InheritMoves ==
    ASSUME Typed, NEW w \in Writers, Inherit(w)
    PROVE  \E o \in Owners : Now(w, FirstProvider(w), o, call[w].reply, call[w].new, call[w].doomed)
<1> DEFINE o == IF ModeOf[w] = "dual" /\ gcs[Key(w)] # Nothing THEN gcs[Key(w)].owner
                ELSE call[w].owner
<1>1. call[w] \in Call
  BY CallOrIdle DEF Inherit, At
<1>2. o \in Owners
  BY <1>1, CallFields, Uploads DEF Typed
<1>3. FirstProvider(w) \in Steps
  BY DEF FirstProvider, Steps
<1>4. call' = [call EXCEPT ![w].at = FirstProvider(w), ![w].owner = o]
  BY <1>1 DEF Inherit, Typed, Call
<1> HIDE DEF o
<1> QED BY <1>1, <1>2, <1>3, <1>4, OwnerMoves

\* Winner gives the call the owner of the GCS object.
LEMMA WinnerMoves ==
    ASSUME Typed, NEW w \in Writers, Winner(w)
    PROVE  /\ gcs[Key(w)].owner \in Owners
           /\ Now(w, "b2", gcs[Key(w)].owner, call[w].reply, call[w].new, call[w].doomed)
<1>1. call[w] \in Call
  BY CallOrIdle DEF Winner, At
<1>2. gcs[Key(w)].owner \in Owners
  BY Uploads DEF Winner, Typed
<1> QED BY <1>1, <1>2, OwnerMoves DEF Winner, Steps

LEMMA LoseGuardMoves ==
    ASSUME Typed, NEW w \in Writers, LoseGuard(w)
    PROVE  /\ call[w] \in Call
           /\ Now(w, call[w].at, call[w].owner, call[w].reply, call[w].new, TRUE)
<1> DEFINE d == [call[w] EXCEPT !.doomed = TRUE]
<1>1. call[w] \in Call
  BY CallOrIdle DEF LoseGuard, Steps
<1>2. d \in Call
  BY <1>1, UpdatedCall
<1>3. /\ d.id = call[w].id /\ d.at = call[w].at /\ d.owner = call[w].owner
      /\ d.reply = call[w].reply /\ d.new = call[w].new /\ d.doomed = TRUE
  BY <1>1 DEF Call
<1>4. call' = [call EXCEPT ![w] = d]
  BY DEF LoseGuard
<1> HIDE DEF d
<1> QED BY <1>1, <1>2, <1>3, <1>4 DEF Now, Typed

\* A response moves nothing but the reply of the call that awaits it.
LEMMA ReplyMoves ==
    ASSUME Typed, NEW r \in sent, NEW n \in Nat, Reply(r, n)
    PROVE  IF Awaits(r)
           THEN /\ call[r.by] \in Call
                /\ Now(r.by, call[r.by].at, call[r.by].owner, n, call[r.by].new,
                       call[r.by].doomed)
           ELSE call' = call
<1>1. r.by \in Writers
  BY DEF Typed, Request
<1>2. CASE Awaits(r)
  <2> DEFINE d == [call[r.by] EXCEPT !.reply = n]
  <2>1. call[r.by] \in Call
    BY <1>1, <1>2, CallOrIdle DEF Awaits
  <2>2. d \in Call
    BY <2>1, UpdatedCall
  <2>3. /\ d.id = call[r.by].id /\ d.at = call[r.by].at /\ d.owner = call[r.by].owner
        /\ d.reply = n /\ d.new = call[r.by].new /\ d.doomed = call[r.by].doomed
    BY <2>1 DEF Call
  <2>4. call' = [call EXCEPT ![r.by] = d]
    BY <1>2 DEF Reply
  <2> HIDE DEF d
  <2> QED BY <1>1, <1>2, <2>1, <2>2, <2>3, <2>4 DEF Now, Typed
<1>3. CASE ~Awaits(r)
  BY <1>3 DEF Reply
<1> QED BY <1>2, <1>3

\* A call begins, with the next number.
LEMMA BeginMoves ==
    ASSUME Typed, NEW w \in Writers, Begin(w)
    PROVE  /\ call' \in [Writers -> Call \cup {Idle}]
           /\ \A v \in Writers \ {w} : call'[v] = call[v]
           /\ call'[w] \in Call
           /\ call'[w].at = "guard" /\ call'[w].id = begun + 1 /\ ~call'[w].doomed
           /\ begun' = begun + 1 /\ begun' \in 0..MaxCalls
<1> DEFINE c == [at |-> "guard", id |-> begun + 1, owner |-> UploadOf[w].owner,
                 reply |-> NoReply, new |-> FALSE, doomed |-> FALSE]
<1>1. begun' = begun + 1 /\ begun' \in 1..MaxCalls
  BY CanonicalConstants DEF Begin, Typed
<1>2. c \in Call
  BY <1>1, Uploads DEF Begin, Call, Steps
<1>3. c.at = "guard" /\ c.id = begun + 1 /\ c.doomed = FALSE
  OBVIOUS
<1>4. call' = [call EXCEPT ![w] = c]
  BY DEF Begin
<1> HIDE DEF c
<1> QED BY <1>1, <1>2, <1>3, <1>4 DEF Typed

\* A request for the caller's bytes, sent under its call.
LEMMA PutFields ==
    ASSUME Typed, NEW w \in Writers, call[w] \in Call, NEW to \in {"gcs", "b2"}
    PROVE  /\ Put(w, to) \in Request
           /\ Put(w, to).to = to /\ Put(w, to).by = w /\ Put(w, to).id = call[w].id
           /\ Put(w, to).key = Key(w) /\ Put(w, to).bytes = UploadOf[w].bytes
           /\ Put(w, to).owner = call[w].owner
BY Uploads, CallFields DEF Put, Request

\* The lock of a key has one holder, who alone gives it back.
LEMMA UnlockedFacts ==
    ASSUME Typed, NEW w \in Writers
    PROVE  /\ Unlocked(w) \in [Keys -> Coordinated \cup {NoWriter}]
           /\ \A v \in Writers \ {w} :
                guard[Key(v)] = v => Unlocked(w)[Key(v)] = v
BY Uploads DEF Unlocked, Typed

-----------------------------------------------------------------------------
(* Types. *)

LEMMA TypedInit == Init => Typed
BY CanonicalConstants DEF Init, Typed, Nothing

\* A step of a writer leaves every variable in its type.
LEMMA TypedWrite ==
    ASSUME Typed, NEW w \in Writers, Write(w)
    PROVE  Typed'
<1>1. ASSUME call[w].at # "idle"
      PROVE  call[w] \in Call
  BY <1>1, CallOrIdle
<1>2. CASE Begin(w)
  BY <1>2, BeginMoves DEF Begin, Typed
<1>3. CASE TakeGuard(w)
  <2>1. call' \in [Writers -> Call \cup {Idle}]
    BY <1>1, <1>3, GotoMoves DEF TakeGuard, Steps, At, Now
  <2>2. guard' \in [Keys -> Coordinated \cup {NoWriter}]
    BY <1>3 DEF TakeGuard, Typed
  <2> QED BY <1>3, <2>1, <2>2 DEF TakeGuard, Typed
<1>4. CASE Inherit(w)
  BY <1>4, InheritMoves DEF Inherit, Typed, Now
<1>5. CASE LookAtGcs(w)
  <2>1. call[w] \in Call
    BY <1>1, <1>5 DEF LookAtGcs, At
  <2>2. sent' \subseteq Request
    <3>1. Put(w, "gcs") \in Request
      BY <2>1, PutFields
    <3> QED BY <1>5, <3>1 DEF LookAtGcs, Typed
  <2>3. call' \in [Writers -> Call \cup {Idle}] /\ answers' \subseteq Answer
    BY <1>5, <2>1, GotoMoves, LeaveGcsMoves DEF LookAtGcs, Steps, Now, Typed
  <2> QED BY <1>5, <2>2, <2>3 DEF LookAtGcs, Typed
<1>6. CASE GcsStored(w) \/ LookAgainAtGcs(w)
  BY <1>1, <1>6, LeaveGcsMoves DEF GcsStored, LookAgainAtGcs, Typed, At, Now
<1>7. CASE GcsError(w) \/ B2Error(w)
  BY <1>1, <1>7, GotoMoves DEF GcsError, B2Error, Typed, Steps, At, Now
<1>8. CASE Winner(w)
  BY <1>8, WinnerMoves DEF Winner, Typed, Now
<1>9. Newest(Key(w)) \in Nat
  BY Uploads DEF Typed, Newest
<1>10. CASE LookAtB2(w)
  <2>1. call[w] \in Call
    BY <1>1, <1>10 DEF LookAtB2, At
  <2>2. sent' \subseteq Request
    BY <1>10, <2>1, PutFields DEF LookAtB2, Typed
  <2>3. call' \in [Writers -> Call \cup {Idle}] /\ answers' \subseteq Answer
    BY <1>9, <1>10, <2>1, CallFields, GotoMoves, ReturnMoves DEF LookAtB2, Steps, Now, Typed
  <2> QED BY <1>10, <2>2, <2>3 DEF LookAtB2, Typed
<1>11. CASE B2Stored(w)
  <2>1. call[w] \in Call /\ call[w].reply \in Nat /\ Returns(w, call[w].reply, TRUE)
    BY <1>1, <1>11, CallFields DEF B2Stored, At
  <2> QED BY <1>11, <2>1, ReturnMoves DEF B2Stored, Typed, Now
<1>12. CASE LookAgainAtB2(w)
  <2>1. call[w] \in Call /\ call[w].new \in BOOLEAN
    BY <1>1, <1>12, CallFields DEF LookAgainAtB2, At
  <2> QED BY <1>9, <1>12, <2>1, ReturnMoves DEF LookAgainAtB2, Typed, Now
<1>13. CASE Release(w) \/ Abandon(w)
  <2>1. guard' \in [Keys -> Coordinated \cup {NoWriter}]
    BY <1>13, UnlockedFacts DEF Release, Abandon
  <2>2. call' \in [Writers -> Call \cup {Idle}]
    BY <1>13 DEF Release, Abandon, Typed
  <2> QED BY <1>13, <2>1, <2>2 DEF Release, Abandon, Typed
<1>14. CASE LoseGuard(w)
  BY <1>14, UnlockedFacts, LoseGuardMoves DEF LoseGuard, Typed, Now
<1> QED
  BY <1>2, <1>3, <1>4, <1>5, <1>6, <1>7, <1>8, <1>10, <1>11, <1>12, <1>13, <1>14 DEF Write

\* So does a request that lands or is lost.
LEMMA TypedLand == ASSUME Typed, Land PROVE Typed'
<1>1. PICK r \in sent : /\ LandsAtGcs(r) \/ LandsAtB2(r)
                        /\ sent' = sent \ {r}
                        /\ UNCHANGED <<guard, begun, answers>>
  BY DEF Land
<1>2. r \in Request
  BY DEF Typed
<1>3. Newest(r.key) + 1 \in Nat
  BY <1>2 DEF Typed, Newest, Request
<1>4. ASSUME NEW n \in Nat, Reply(r, n) PROVE call' \in [Writers -> Call \cup {Idle}]
  BY <1>4, ReplyMoves DEF Now, Typed
<1>5. CASE LandsAtGcs(r)
  <2>1. gcs' \in [Keys -> [bytes : Bytes, owner : Owners] \cup {Nothing}]
    <3>1. r.key \in Keys /\ r.bytes \in Bytes /\ r.owner \in Owners
      BY <1>2 DEF Request
    <3>2. [bytes |-> r.bytes, owner |-> r.owner] \in [bytes : Bytes, owner : Owners]
      BY <3>1
    <3> QED BY <1>5, <3>1, <3>2 DEF LandsAtGcs, Typed
  <2>2. call' \in [Writers -> Call \cup {Idle}]
    BY <1>4, <1>5 DEF LandsAtGcs, Typed
  <2> QED BY <1>1, <1>5, <2>1, <2>2 DEF LandsAtGcs, Typed
<1>6. CASE LandsAtB2(r)
  <2>1. (Awaits(r) /\ ~call[r.by].doomed) \in BOOLEAN
    BY DEF Awaits
  <2>2. [bytes |-> r.bytes, owner |-> r.owner,
         orderly |-> Awaits(r) /\ ~call[r.by].doomed] \in Version
    BY <1>2, <2>1 DEF Version, Request
  <2>3. b2' \in [Keys -> Seq(Version)]
    BY <1>2, <1>6, <2>2 DEF LandsAtB2, Typed, Request
  <2>4. call' \in [Writers -> Call \cup {Idle}]
    BY <1>3, <1>4, <1>6 DEF LandsAtB2
  <2> QED BY <1>1, <1>6, <2>3, <2>4 DEF LandsAtB2, Typed
<1> QED BY <1>1, <1>5, <1>6

-----------------------------------------------------------------------------
(* A writer's step. *)

\* It sends requests and moves its call, and leaves the rest alone.
LEMMA WriterFrame ==
    ASSUME Typed, NEW w \in Writers, Write(w)
    PROVE  /\ gcs' = gcs /\ b2' = b2
           /\ begun \in Nat /\ begun' \in Nat /\ begun <= begun'
           /\ \A v \in Writers \ {w} :
                /\ call'[v] = call[v]
                /\ guard[Key(v)] = v => guard'[Key(v)] = v
<1>1. gcs' = gcs /\ b2' = b2
  BY DEF Write, Begin, TakeGuard, Inherit, LookAtGcs, GcsStored, GcsError, LookAgainAtGcs, Winner,
         LookAtB2, B2Stored, B2Error, LookAgainAtB2, Release, Abandon, LoseGuard
<1>2. begun' = begun \/ begun' = begun + 1
  BY DEF Write, Begin, TakeGuard, Inherit, LookAtGcs, GcsStored, GcsError, LookAgainAtGcs, Winner,
         LookAtB2, B2Stored, B2Error, LookAgainAtB2, Release, Abandon, LoseGuard
<1>3. begun \in Nat /\ begun' \in Nat /\ begun <= begun'
  BY <1>2, CanonicalConstants DEF Typed
<1>4. ASSUME NEW v \in Writers \ {w} PROVE call'[v] = call[v]
  BY DEF Typed, Write, Begin, TakeGuard, Inherit, LookAtGcs, GcsStored, GcsError, LookAgainAtGcs,
         Winner, LookAtB2, B2Stored, B2Error, LookAgainAtB2, Release, Abandon, LoseGuard,
         Goto, LeaveGcs, Returns
<1>5. ASSUME NEW v \in Writers \ {w}, guard[Key(v)] = v PROVE guard'[Key(v)] = v
  <2>1. guard' = guard \/ TakeGuard(w) \/ guard' = Unlocked(w)
    BY DEF Write, Begin, TakeGuard, Inherit, LookAtGcs, GcsStored, GcsError, LookAgainAtGcs, Winner,
           LookAtB2, B2Stored, B2Error, LookAgainAtB2, Release, Abandon, LoseGuard
  <2>2. CASE TakeGuard(w)
    BY <1>5, <2>2, Uploads DEF TakeGuard, Typed
  <2> QED BY <1>5, <2>1, <2>2, UnlockedFacts
<1> QED BY <1>1, <1>3, <1>4, <1>5

\* What a writer knows after a step of its own.
LEMMA WriterKnows ==
    ASSUME Inv, NEW w \in Writers, Write(w)
    PROVE  Knows(w)' /\ Holding(w)'
<1>1. Typed /\ Knows(w) /\ Holding(w)
  BY DEF Inv
<1>2. gcs' = gcs /\ b2' = b2 /\ begun \in Nat /\ begun' \in Nat /\ begun <= begun'
  BY <1>1, WriterFrame
<1>3. /\ AtGcs(w)' <=> AtGcs(w)
      /\ \A i : AtB2(w, i)' <=> AtB2(w, i)
  BY <1>2 DEF AtGcs, AtB2, Newest
<1>4. ASSUME call[w].at # "idle" PROVE call[w] \in Call
  BY <1>1, <1>4, CallOrIdle
<1> DEFINE Settled(step) ==
       /\ call'[w].id = call[w].id /\ call'[w].doomed = call[w].doomed
       /\ call'[w].at = step /\ guard' = guard
<1>5. ASSUME NEW step \in Steps, Settled(step), call[w].at \notin {"idle", "guard"}
      PROVE  Holding(w)'
  <2>1. call[w].id <= begun /\ call[w].id \in Nat
    BY <1>1, <1>4, <1>5, CallFields, CanonicalConstants DEF Holding
  <2> QED BY <1>1, <1>2, <1>5, <2>1 DEF Holding
<1>6. CASE Begin(w)
  BY <1>1, <1>2, <1>6, BeginMoves DEF Knows, Holding, At, B2Steps
<1>7. CASE TakeGuard(w)
  <2>1. Now(w, "inherit", call[w].owner, NoReply, call[w].new, call[w].doomed)
    BY <1>1, <1>4, <1>7, GotoMoves DEF TakeGuard, At, Steps
  <2>2. w \in Coordinated => guard'[Key(w)] = w
    BY <1>1, <1>7, Uploads DEF TakeGuard, Typed
  <2>3. call[w].id <= begun /\ call'[w].id = call[w].id /\ begun' = begun
    BY <1>1, <1>7, <2>1 DEF Holding, TakeGuard, At, Now
  <2> QED BY <2>1, <2>2, <2>3 DEF Now, Knows, Holding, At, B2Steps
<1>8. CASE Inherit(w)
  <2>1. PICK o \in Owners : Now(w, FirstProvider(w), o, call[w].reply, call[w].new, call[w].doomed)
    BY <1>1, <1>8, InheritMoves
  <2>2. Holding(w)'
    BY <1>5, <1>8, <2>1 DEF Inherit, At, Now, FirstProvider, Steps
  <2>3. \/ UsesGcs(w) /\ call'[w].at = "gcs"
        \/ ~UsesGcs(w) /\ UsesB2(w) /\ call'[w].at = "b2" /\ ModeOf[w] # "dual"
    BY <2>1, Uploads DEF Now, FirstProvider, UsesGcs, UsesB2
  <2> QED BY <2>2, <2>3 DEF Knows, At, B2Steps
<1>9. CASE LookAtGcs(w) \/ GcsStored(w) \/ LookAgainAtGcs(w)
  <2>1. call[w] \in Call /\ call[w].at \notin {"idle", "guard"} /\ guard' = guard /\ UsesGcs(w)
    BY <1>1, <1>4, <1>9 DEF LookAtGcs, GcsStored, LookAgainAtGcs, At, Knows
  <2>2. CASE AtGcs(w) /\ \E new \in BOOLEAN : LeaveGcs(w, new)
    <3>1. AtGcs(w)
      BY <2>2
    <3>2. \/ ModeOf[w] = "dual" /\ \E new \in BOOLEAN :
               Now(w, "winner", call[w].owner, NoReply, new, call[w].doomed)
          \/ Now(w, "returned", call[w].owner, NoReply, call[w].new, call[w].doomed)
      BY <1>1, <2>1, <2>2, LeaveGcsMoves
    <3>3. Holding(w)'
      BY <1>5, <2>1, <3>2 DEF Now, Steps
    <3> QED BY <1>3, <3>1, <3>2, <3>3 DEF Now, Knows, At, B2Steps
  <2>3. CASE Goto(w, "gcs_put")
    <3>1. Now(w, "gcs_put", call[w].owner, NoReply, call[w].new, call[w].doomed)
      BY <1>1, <2>1, <2>3, GotoMoves DEF Steps
    <3>2. Holding(w)'
      BY <1>5, <2>1, <3>1 DEF Now, Steps
    <3> QED BY <2>1, <3>1, <3>2 DEF Now, Knows, At, B2Steps
  <2>4. GcsStored(w) => AtGcs(w)
    BY <1>1 DEF GcsStored, Knows, At, NoReply
  <2> QED BY <1>9, <2>2, <2>3, <2>4 DEF LookAtGcs, GcsStored, LookAgainAtGcs, Matches, AtGcs
<1>10. CASE GcsError(w)
  <2>1. Now(w, "gcs_look", call[w].owner, NoReply, call[w].new, call[w].doomed) /\ UsesGcs(w)
    BY <1>1, <1>4, <1>10, GotoMoves DEF GcsError, At, Steps, Knows
  <2>2. Holding(w)'
    BY <1>5, <1>10, <2>1 DEF GcsError, At, Now, Steps
  <2> QED BY <2>1, <2>2 DEF Now, Knows, At, B2Steps
<1>11. CASE Winner(w)
  <2>1. Now(w, "b2", gcs[Key(w)].owner, call[w].reply, call[w].new, call[w].doomed)
    BY <1>1, <1>11, WinnerMoves
  <2>2. Holding(w)'
    BY <1>5, <1>11, <2>1 DEF Winner, At, Now, Steps
  <2>3. ModeOf[w] = "dual" /\ UsesB2(w) /\ AtGcs(w)
    BY <1>1, <1>11 DEF Winner, Knows, At, UsesGcs, UsesB2
  <2> QED BY <1>2, <1>3, <2>1, <2>2, <2>3 DEF Now, Knows, At, B2Steps
<1>12. CASE LookAtB2(w) \/ B2Error(w)
  <2>1. call[w] \in Call /\ call[w].at \in B2Steps /\ guard' = guard
    BY <1>4, <1>12 DEF LookAtB2, B2Error, At, B2Steps
  <2>2. UsesB2(w) /\ (UsesGcs(w) => AtGcs(w))
        /\ (ModeOf[w] = "dual" => call[w].owner = gcs[Key(w)].owner)
    BY <1>1, <2>1 DEF Knows
  <2>3. CASE \E step \in {"b2_put", "b2_look"} : Goto(w, step)
    <3>1. PICK step \in {"b2_put", "b2_look"} :
            Now(w, step, call[w].owner, NoReply, call[w].new, call[w].doomed)
      BY <1>1, <2>1, <2>3, GotoMoves DEF Steps
    <3>2. Holding(w)'
      BY <1>5, <2>1, <3>1 DEF Now, Steps, B2Steps
    <3> QED BY <1>2, <1>3, <2>2, <3>1, <3>2 DEF Now, Knows, At, B2Steps
  <2>4. CASE LookAtB2(w) /\ Returns(w, Newest(Key(w)), call[w].new)
    <3>1. Now(w, "returned", call[w].owner, NoReply, call[w].new, call[w].doomed)
      <4>1. Newest(Key(w)) \in Nat /\ call[w].new \in BOOLEAN
        BY <1>1, <2>1, Uploads, CallFields DEF Typed, Newest
      <4> QED BY <1>1, <2>1, <2>4, <4>1, ReturnMoves
    <3>2. Holding(w)'
      BY <1>5, <2>1, <3>1 DEF Now, Steps, B2Steps
    <3> QED BY <3>1, <3>2 DEF Now, Knows, At, B2Steps
  <2> QED BY <1>12, <2>3, <2>4 DEF LookAtB2, B2Error
<1>13. CASE B2Stored(w) \/ LookAgainAtB2(w)
  <2>1. call[w] \in Call /\ call[w].at \in B2Steps /\ guard' = guard
    BY <1>4, <1>13 DEF B2Stored, LookAgainAtB2, At, B2Steps
  <2>2. \E n \in Nat, new \in BOOLEAN : Returns(w, n, new)
    <3>1. /\ Newest(Key(w)) \in Nat /\ call[w].new \in BOOLEAN
          /\ call[w].reply # NoReply => call[w].reply \in Nat
      BY <1>1, <2>1, Uploads, CallFields DEF Typed, Newest
    <3> QED BY <1>13, <3>1 DEF B2Stored, LookAgainAtB2
  <2>3. Now(w, "returned", call[w].owner, NoReply, call[w].new, call[w].doomed)
    BY <1>1, <2>1, <2>2, ReturnMoves
  <2>4. Holding(w)'
    BY <1>5, <2>1, <2>3 DEF Now, Steps, B2Steps
  <2> QED BY <2>3, <2>4 DEF Now, Knows, At, B2Steps
<1>14. CASE Release(w) \/ Abandon(w)
  <2>1. call'[w].at = "idle"
    BY <1>1, <1>14 DEF Release, Abandon, Typed, Idle
  <2> QED BY <2>1 DEF Knows, Holding, At, B2Steps
<1>15. CASE LoseGuard(w)
  <2>1. call[w] \in Call /\ Now(w, call[w].at, call[w].owner, call[w].reply, call[w].new, TRUE)
    BY <1>1, <1>15, LoseGuardMoves
  <2>2. call'[w].id <= begun'
    BY <1>1, <1>2, <2>1, CallFields, CanonicalConstants DEF Now, Holding
  <2> QED BY <1>1, <1>2, <1>3, <2>1, <2>2 DEF Now, Knows, Holding, At
<1> QED
  BY <1>6, <1>7, <1>8, <1>9, <1>10, <1>11, <1>12, <1>13, <1>14, <1>15 DEF Write

\* What a step of a writer returns is stored.
LEMMA ReturnedIsStored ==
    ASSUME Inv, NEW w \in Writers, Write(w), NEW a \in answers' \ answers
    PROVE  /\ a.by = w
           /\ UsesGcs(w) => AtGcs(w)
           /\ UsesB2(w) => AtB2(w, a.version)
<1>1. Typed /\ Knows(w)
  BY DEF Inv
<1>2. ASSUME call[w].at # "idle" PROVE call[w] \in Call
  BY <1>1, <1>2, CallOrIdle
<1>3. CASE LookAtGcs(w) \/ GcsStored(w) \/ LookAgainAtGcs(w)
  <2>1. call[w] \in Call /\ UsesGcs(w)
    BY <1>1, <1>2, <1>3 DEF LookAtGcs, GcsStored, LookAgainAtGcs, At, Knows
  <2>2. GcsStored(w) => AtGcs(w)
    BY <1>1 DEF GcsStored, Knows, At, NoReply
  <2>3. AtGcs(w) /\ \E new \in BOOLEAN : LeaveGcs(w, new)
    BY <1>3, <2>2 DEF LookAtGcs, GcsStored, LookAgainAtGcs, Matches, AtGcs
  <2>4. ModeOf[w] # "dual" /\ a.by = w
    BY <1>1, <2>1, <2>3, LeaveGcsMoves
  <2> QED BY <2>1, <2>3, <2>4 DEF UsesGcs, UsesB2
<1>4. CASE LookAtB2(w) \/ B2Stored(w) \/ LookAgainAtB2(w)
  <2>1. call[w] \in Call /\ call[w].at \in B2Steps
    BY <1>2, <1>4 DEF LookAtB2, B2Stored, LookAgainAtB2, At, B2Steps
  <2>2. PICK n \in Nat, new \in BOOLEAN : Returns(w, n, new) /\ AtB2(w, n)
    <3>1. Newest(Key(w)) \in Nat /\ call[w].new \in BOOLEAN /\ call[w].reply \in {NoReply} \cup Nat
      BY <1>1, <2>1, Uploads, CallFields DEF Typed, Newest
    <3>2. CASE LookAtB2(w) \/ LookAgainAtB2(w)
      BY <3>1, <3>2 DEF LookAtB2, LookAgainAtB2, Matches, AtB2
    <3>3. CASE B2Stored(w)
      BY <1>1, <3>1, <3>3 DEF B2Stored, Knows
    <3> QED BY <1>4, <3>2, <3>3
  <2>3. a.by = w /\ a.version = n
    BY <1>1, <2>1, <2>2, ReturnMoves
  <2> QED BY <1>1, <2>1, <2>2, <2>3 DEF Knows
<1>5. \/ answers' = answers
      \/ LookAtGcs(w) \/ GcsStored(w) \/ LookAgainAtGcs(w)
      \/ LookAtB2(w) \/ B2Stored(w) \/ LookAgainAtB2(w)
  BY DEF Write, Begin, TakeGuard, Inherit, GcsError, Winner, B2Error, Release, Abandon, LoseGuard
<1> QED BY <1>3, <1>4, <1>5

\* Requests in flight, the one just sent included, stay sound.
LEMMA WriterSound ==
    ASSUME Inv, NEW w \in Writers, Write(w), NEW r \in sent'
    PROVE  Sound(r)'
<1>1. Typed /\ Knows(w) /\ Holding(w)
  BY DEF Inv
<1>2. gcs' = gcs /\ b2' = b2 /\ begun \in Nat /\ begun' \in Nat /\ begun <= begun'
  BY <1>1, WriterFrame
<1>3. CASE r \in sent
  <2>1. Sound(r) /\ r.id \in Nat /\ r.by \in Writers
    BY <1>1, <1>3, CanonicalConstants DEF Inv, Typed, Request
  <2>2. r.id <= begun'
    BY <1>2, <2>1 DEF Sound
  <2>3. AtGcs(r.by)' <=> AtGcs(r.by)
    BY <1>2 DEF AtGcs
  <2>4. NoOrderly(r.key)' <=> NoOrderly(r.key)
    BY <1>2 DEF NoOrderly, Newest
  <2>5. CASE r.by # w
    <3>1. call'[r.by] = call[r.by]
      BY <1>1, <2>1, <2>5, WriterFrame
    <3> QED BY <1>2, <2>1, <2>2, <2>3, <2>4, <3>1 DEF Sound, Awaits
  <2>6. CASE r.by = w /\ r.to = "b2" /\ call'[w].at # "idle" /\ call'[w].id = r.id
    <3>1. ~Begin(w)
      BY <1>1, <2>1, <2>6, BeginMoves DEF Sound, Typed
    <3>2. call[w] \in Call
      BY <1>1, <2>6, <3>1, CallOrIdle DEF Write, TakeGuard, Inherit, LookAtGcs, GcsStored,
            GcsError, LookAgainAtGcs, Winner, LookAtB2, B2Stored, B2Error, LookAgainAtB2, Release,
            Abandon, LoseGuard, At, Steps
    <3>3. CASE B2Stored(w) \/ LookAgainAtB2(w)
      <4>1. \E n \in Nat, new \in BOOLEAN : Returns(w, n, new)
        <5>1. /\ Newest(Key(w)) \in Nat /\ call[w].new \in BOOLEAN
              /\ call[w].reply # NoReply => call[w].reply \in Nat
          BY <1>1, <3>2, Uploads, CallFields DEF Typed, Newest
        <5> QED BY <3>3, <5>1 DEF B2Stored, LookAgainAtB2
      <4>2. call'[w].at = "returned"
        BY <1>1, <3>2, <4>1, ReturnMoves DEF Now
      <4> QED BY <1>2, <2>1, <2>2, <2>3, <2>4, <2>6, <4>2 DEF Sound, Awaits
    <3>4. CASE B2Error(w)
      <4>1. call'[w].at = "b2_look"
        BY <1>1, <3>2, <3>4, GotoMoves DEF B2Error, Steps, Now
      <4> QED BY <1>2, <2>1, <2>2, <2>3, <2>4, <2>6, <4>1 DEF Sound, Awaits
    <3>5. CASE LoseGuard(w)
      <4>1. Now(w, call[w].at, call[w].owner, call[w].reply, call[w].new, TRUE)
        BY <1>1, <3>5, LoseGuardMoves
      <4> QED BY <1>2, <2>1, <2>2, <2>3, <2>4, <2>6, <3>2, <4>1, CallFields DEF Sound, Awaits, Now
    <3>6. CASE Release(w) \/ Abandon(w)
      BY <1>1, <2>6, <3>6 DEF Release, Abandon, Typed, Idle
    <3>7. CASE call[w].at \notin {"b2_put", "b2_look", "returned"}
      <4>1. call'[w].id = call[w].id
        <5>1. CASE TakeGuard(w) \/ GcsError(w)
          BY <1>1, <3>2, <5>1, GotoMoves DEF TakeGuard, GcsError, Steps, Now
        <5>2. CASE Inherit(w)
          BY <1>1, <5>2, InheritMoves DEF Now
        <5>3. CASE LookAtGcs(w) \/ GcsStored(w) \/ LookAgainAtGcs(w)
          <6>1. Goto(w, "gcs_put") \/ \E new \in BOOLEAN : LeaveGcs(w, new)
            BY <5>3 DEF LookAtGcs, GcsStored, LookAgainAtGcs
          <6> QED BY <1>1, <3>2, <6>1, GotoMoves, LeaveGcsMoves DEF Steps, Now
        <5>4. CASE Winner(w)
          BY <1>1, <5>4, WinnerMoves DEF Now
        <5>5. CASE LookAtB2(w)
          <6>1. Newest(Key(w)) \in Nat /\ call[w].new \in BOOLEAN
            BY <1>1, <3>2, Uploads, CallFields DEF Typed, Newest
          <6> QED BY <1>1, <3>2, <5>5, <6>1, GotoMoves, ReturnMoves DEF LookAtB2, Steps, Now
        <5>6. CASE LoseGuard(w)
          BY <1>1, <5>6, LoseGuardMoves DEF Now
        <5>7. ~Abandon(w)
          BY <1>1, <2>6 DEF Abandon, Typed, Idle
        <5>8. ~B2Stored(w) /\ ~B2Error(w) /\ ~LookAgainAtB2(w) /\ ~Release(w)
          BY <3>7 DEF B2Stored, B2Error, LookAgainAtB2, Release, At
        <5> QED BY <3>1, <5>1, <5>2, <5>3, <5>4, <5>5, <5>6, <5>7, <5>8 DEF Write
      <4> QED BY <2>1, <2>6, <3>2, <3>7, <4>1, CallFields DEF Sound
    <3> QED BY <3>1, <3>3, <3>4, <3>5, <3>6, <3>7 DEF Write, TakeGuard, Inherit, LookAtGcs, GcsStored,
            GcsError, LookAgainAtGcs, Winner, LookAtB2, At
  <2>7. CASE r.by = w /\ ~(r.to = "b2" /\ call'[w].at # "idle" /\ call'[w].id = r.id)
    BY <1>2, <2>1, <2>2, <2>3, <2>7 DEF Sound, Awaits
  <2> QED BY <2>5, <2>6, <2>7
<1>4. CASE r \notin sent
  <2>1. call[w] \in Call
    BY <1>1, <1>4, CallOrIdle DEF Write, Begin, TakeGuard, Inherit, LookAtGcs, GcsStored, GcsError,
          LookAgainAtGcs, Winner, LookAtB2, B2Stored, B2Error, LookAgainAtB2, Release, Abandon,
          LoseGuard, At
  <2>2. call[w].id <= begun /\ call[w].id \in Nat
    BY <1>1, <2>1, CallFields, CanonicalConstants DEF Holding
  <2>3. CASE r = Put(w, "gcs")
    BY <1>1, <1>2, <2>1, <2>2, <2>3, PutFields DEF Sound
  <2>4. CASE LookAtB2(w) /\ r = Put(w, "b2")
    <3>1. Newest(Key(w)) = 0 /\ Goto(w, "b2_put")
      BY <1>1, <1>4, <2>4 DEF LookAtB2
    <3>2. Now(w, "b2_put", call[w].owner, NoReply, call[w].new, call[w].doomed)
      BY <1>1, <2>1, <3>1, GotoMoves DEF Steps
    <3>3. UsesB2(w) /\ (ModeOf[w] = "dual" => AtGcs(w) /\ call[w].owner = gcs[Key(w)].owner)
      BY <1>1, <2>4 DEF LookAtB2, Knows, At, B2Steps, UsesGcs
    <3>4. NoOrderly(Key(w))'
      BY <1>2, <3>1 DEF NoOrderly, Newest
    <3>5. AtGcs(w)' <=> AtGcs(w)
      BY <1>2 DEF AtGcs
    <3>6. /\ r.to = "b2" /\ r.by = w /\ r.id = call[w].id /\ r.key = Key(w)
          /\ r.bytes = UploadOf[w].bytes /\ r.owner = call[w].owner
      BY <1>1, <2>1, <2>4, PutFields
    <3> QED BY <1>2, <2>2, <3>2, <3>3, <3>4, <3>5, <3>6 DEF Sound, Now, Awaits
  <2> QED BY <1>4, <2>3, <2>4 DEF Write, Begin, TakeGuard, Inherit, LookAtGcs, GcsStored, GcsError,
          LookAgainAtGcs, Winner, LookAtB2, B2Stored, B2Error, LookAgainAtB2, Release, Abandon,
          LoseGuard
<1> QED BY <1>3, <1>4

\* A writer's step preserves the invariant.
LEMMA WriterKeeps == ASSUME Inv, NEW w \in Writers, Write(w) PROVE Inv'
<1>1. Typed /\ Typed'
  BY TypedWrite DEF Inv
<1>2. gcs' = gcs /\ b2' = b2 /\ begun \in Nat /\ begun' \in Nat /\ begun <= begun'
  BY <1>1, WriterFrame
<1>3. ASSUME NEW v \in Writers PROVE Knows(v)' /\ Holding(v)'
  <2>1. CASE v = w
    BY <2>1, WriterKnows
  <2>2. CASE v # w
    <3>1. call'[v] = call[v] /\ (guard[Key(v)] = v => guard'[Key(v)] = v)
      BY <1>1, <2>2, WriterFrame
    <3>2. Knows(v) /\ Holding(v)
      BY DEF Inv
    <3>3. Knows(v)'
      BY <1>2, <3>1, <3>2 DEF Knows, At, AtGcs, AtB2, Newest
    <3>4. call[v].at # "idle" => call[v].id \in Nat
      BY <1>1, CallOrIdle, CallFields, CanonicalConstants
    <3> QED BY <1>2, <3>1, <3>2, <3>3, <3>4 DEF Holding
  <2> QED BY <2>1, <2>2
<1>4. \A r \in sent' : Sound(r)'
  BY WriterSound
<1>5. OneOrderly' /\ SameMedia'
  BY <1>2 DEF Inv, OneOrderly, SameMedia, Newest
<1>6. AnsweredIsStored'
  <2> SUFFICES ASSUME NEW a \in answers'
               PROVE  /\ UsesGcs(a.by) => gcs'[Key(a.by)].bytes = UploadOf[a.by].bytes
                      /\ UsesB2(a.by) =>
                           /\ a.version \in 1..Len(b2'[Key(a.by)])
                           /\ b2'[Key(a.by)][a.version].bytes = UploadOf[a.by].bytes
    BY DEF AnsweredIsStored, Newest
  <2>1. CASE a \in answers
    BY <1>2, <2>1 DEF Inv, AnsweredIsStored, Newest
  <2>2. CASE a \notin answers
    BY <1>2, <2>2, ReturnedIsStored DEF AtGcs, AtB2, Newest
  <2> QED BY <2>1, <2>2
<1> QED BY <1>1, <1>3, <1>4, <1>5, <1>6 DEF Inv

-----------------------------------------------------------------------------
(* A request lands. *)

\* GCS never replaces an object; B2 adds at most the request's version.
LEMMA ProvidersGrow ==
    ASSUME Typed, NEW r \in sent, LandsAtGcs(r) \/ LandsAtB2(r)
    PROVE  /\ \A k \in Keys : gcs[k] # Nothing => gcs'[k] = gcs[k]
           /\ \A k \in Keys :
                /\ Newest(k) \in Nat /\ Newest(k)' \in Nat
                /\ Newest(k) <= Newest(k)'
                /\ \A i \in 1..Newest(k) : b2'[k][i] = b2[k][i]
           /\ \A k \in Keys \ {r.key} : b2'[k] = b2[k]
           /\ LandsAtGcs(r) => b2' = b2
           /\ LandsAtB2(r) =>
                /\ gcs' = gcs
                /\ Newest(r.key)' = Newest(r.key) + 1
                /\ b2'[r.key][Newest(r.key) + 1].bytes = r.bytes
                /\ b2'[r.key][Newest(r.key) + 1].owner = r.owner
                /\ b2'[r.key][Newest(r.key) + 1].orderly => Awaits(r) /\ ~call[r.by].doomed
<1>1. r.key \in Keys /\ \A k \in Keys : b2[k] \in Seq(Version)
  BY DEF Typed, Request
<1>2. CASE LandsAtGcs(r)
  <2>1. b2' = b2 /\ \A k \in Keys : gcs[k] # Nothing => gcs'[k] = gcs[k]
    BY <1>2 DEF LandsAtGcs, Typed
  <2>2. \A k \in Keys : Newest(k) \in Nat /\ Newest(k)' = Newest(k)
    BY <1>1, <2>1 DEF Newest
  <2>3. ~LandsAtB2(r)
    BY <1>2 DEF LandsAtGcs, LandsAtB2
  <2> QED BY <1>2, <2>1, <2>2, <2>3
<1>3. CASE LandsAtB2(r)
  <2> DEFINE new == [bytes |-> r.bytes, owner |-> r.owner,
                     orderly |-> Awaits(r) /\ ~call[r.by].doomed]
  <2>1. gcs' = gcs /\ b2' = [b2 EXCEPT ![r.key] = Append(b2[r.key], new)]
    BY <1>3 DEF LandsAtB2
  <2>2. new \in Version
    <3>1. r.bytes \in Bytes /\ r.owner \in Owners
      BY DEF Typed, Request
    <3>2. (Awaits(r) /\ ~call[r.by].doomed) \in BOOLEAN
      BY DEF Awaits
    <3> QED BY <3>1, <3>2 DEF Version
  <2>2a. /\ new.bytes = r.bytes /\ new.owner = r.owner
         /\ new.orderly => Awaits(r) /\ ~call[r.by].doomed
    OBVIOUS
  <2> HIDE DEF new
  <2>3. /\ b2'[r.key] = Append(b2[r.key], new)
        /\ \A k \in Keys \ {r.key} : b2'[k] = b2[k]
    BY <1>1, <2>1 DEF Typed
  <2>4. /\ Len(b2'[r.key]) = Len(b2[r.key]) + 1
        /\ b2'[r.key][Len(b2[r.key]) + 1] = new
        /\ \A i \in 1..Len(b2[r.key]) : b2'[r.key][i] = b2[r.key][i]
    BY <1>1, <2>2, <2>3
  <2>5. ~LandsAtGcs(r)
    BY <1>3 DEF LandsAtGcs, LandsAtB2
  <2>6. \A k \in Keys : Newest(k) \in Nat
    BY <1>1 DEF Newest
  <2>7. ASSUME NEW k \in Keys
        PROVE  /\ Newest(k)' \in Nat /\ Newest(k) <= Newest(k)'
               /\ \A i \in 1..Newest(k) : b2'[k][i] = b2[k][i]
    <3>1. CASE k = r.key
      BY <2>4, <2>6, <3>1 DEF Newest
    <3>2. CASE k # r.key
      BY <2>3, <2>6, <3>2 DEF Newest
    <3> QED BY <3>1, <3>2
  <2>8. /\ Newest(r.key)' = Newest(r.key) + 1
        /\ b2'[r.key][Newest(r.key) + 1].bytes = r.bytes
        /\ b2'[r.key][Newest(r.key) + 1].owner = r.owner
        /\ b2'[r.key][Newest(r.key) + 1].orderly => Awaits(r) /\ ~call[r.by].doomed
    BY <2>2a, <2>4 DEF Newest
  <2>9. \A k \in Keys :
           /\ gcs[k] # Nothing => gcs'[k] = gcs[k]
           /\ Newest(k) \in Nat /\ Newest(k)' \in Nat
           /\ Newest(k) <= Newest(k)'
           /\ \A i \in 1..Newest(k) : b2'[k][i] = b2[k][i]
    BY <2>1, <2>6, <2>7
  <2> QED BY <2>1, <2>3, <2>5, <2>8, <2>9
<1> QED BY <1>2, <1>3

\* What the response does to the calls.
LEMMA LandedCalls ==
    ASSUME Typed, NEW r \in sent, LandsAtGcs(r) \/ LandsAtB2(r)
    PROVE  \A v \in Writers :
             /\ call'[v].at = call[v].at
             /\ call[v].at # "idle" =>
                  /\ call'[v].id = call[v].id
                  /\ call'[v].owner = call[v].owner
                  /\ call'[v].doomed = call[v].doomed
             /\ \/ call'[v] = call[v]
                \/ /\ v = r.by /\ Awaits(r) /\ call[v] \in Call
                   /\ \/ LandsAtGcs(r) /\ gcs[r.key] = Nothing /\ call'[v].reply = 0
                      \/ LandsAtB2(r) /\ call'[v].reply = Newest(r.key) + 1
<1>1. r.key \in Keys /\ r.by \in Writers
  BY DEF Typed, Request
<1>2. Newest(r.key) + 1 \in Nat
  BY <1>1 DEF Typed, Newest
<1>3. CASE call' = call
  BY <1>3
<1>4. CASE LandsAtGcs(r) /\ gcs[r.key] = Nothing /\ Reply(r, 0)
  BY <1>1, <1>3, <1>4, ReplyMoves DEF Now
<1>5. CASE LandsAtB2(r) /\ Reply(r, Newest(r.key) + 1)
  BY <1>1, <1>2, <1>3, <1>5, ReplyMoves DEF Now
<1> QED BY <1>3, <1>4, <1>5 DEF LandsAtGcs, LandsAtB2

\* A request that lands preserves the invariant.
LEMMA LandKeeps == ASSUME Inv, Land PROVE Inv'
<1>1. PICK r \in sent : /\ LandsAtGcs(r) \/ LandsAtB2(r)
                        /\ sent' = sent \ {r}
                        /\ UNCHANGED <<guard, begun, answers>>
  BY DEF Land
<1>2. Typed /\ Typed' /\ Sound(r) /\ r \in Request
  BY TypedLand DEF Inv, Typed
<1>3. r.key \in Keys /\ r.by \in Writers /\ r.bytes \in Bytes
  BY <1>2 DEF Request
<1> DEFINE Stays(k) ==
      /\ gcs[k] # Nothing => gcs'[k] = gcs[k]
      /\ Newest(k) \in Nat /\ Newest(k)' \in Nat /\ Newest(k) <= Newest(k)'
      /\ \A i \in 1..Newest(k) : b2'[k][i] = b2[k][i]
<1>4. \A k \in Keys : Stays(k)
  BY <1>1, <1>2, ProvidersGrow
<1> DEFINE Added(k) ==
      /\ gcs' = gcs
      /\ Newest(k)' = Newest(k) + 1
      /\ b2'[k][Newest(k) + 1].bytes = r.bytes
      /\ b2'[k][Newest(k) + 1].owner = r.owner
      /\ b2'[k][Newest(k) + 1].orderly => Awaits(r) /\ ~call[r.by].doomed
<1>4a. LandsAtB2(r) => Added(r.key)
  BY <1>1, <1>2, ProvidersGrow
<1>5. ASSUME NEW v \in Writers
      PROVE  /\ AtGcs(v) => AtGcs(v)' /\ gcs'[Key(v)] = gcs[Key(v)]
             /\ \A i : AtB2(v, i) => AtB2(v, i)'
  <2>1. Stays(Key(v))
    BY <1>4, Uploads
  <2>2. ASSUME NEW i, AtB2(v, i) PROVE AtB2(v, i)'
    <3>1. i \in 1..Newest(Key(v)) /\ i \in 1..Newest(Key(v))'
      BY <2>1, <2>2 DEF AtB2
    <3> QED BY <2>1, <2>2, <3>1 DEF AtB2
  <2> QED BY <2>1, <2>2 DEF AtGcs
<1>6. ASSUME NEW v \in Writers PROVE Knows(v)' /\ Holding(v)'
  <2>1. Knows(v) /\ Holding(v)
    BY DEF Inv
  <2>2. /\ call'[v].at = call[v].at
        /\ call[v].at # "idle" =>
             /\ call'[v].id = call[v].id
             /\ call'[v].owner = call[v].owner
             /\ call'[v].doomed = call[v].doomed
    BY <1>1, <1>2, LandedCalls
  <2>3. Holding(v)'
    BY <1>1, <2>1, <2>2 DEF Holding
  <2>4. ModeOf[v] = "dual" => UsesGcs(v)
    BY DEF UsesGcs
  <2>5. CASE call'[v] = call[v]
    BY <1>5, <2>1, <2>3, <2>4, <2>5 DEF Knows, At, B2Steps
  <2>6. CASE /\ v = r.by /\ Awaits(r)
             /\ \/ LandsAtGcs(r) /\ gcs[r.key] = Nothing /\ call'[v].reply = 0
                \/ LandsAtB2(r) /\ call'[v].reply = Newest(r.key) + 1
    <3>1. CASE LandsAtGcs(r) /\ gcs[r.key] = Nothing
      <4>1. call[v].at = "gcs_put"
        BY <2>6, <3>1 DEF Awaits, LandsAtGcs
      <4>2. gcs'[r.key] = [bytes |-> r.bytes, owner |-> r.owner]
        BY <1>2, <1>3, <3>1 DEF LandsAtGcs, Typed
      <4>3. gcs'[r.key] # Nothing /\ gcs'[r.key].bytes = r.bytes
        BY <1>3, <4>2, NothingIsNoObject
      <4>4. AtGcs(v)'
        BY <1>2, <2>6, <4>3 DEF AtGcs, Sound
      <4> QED BY <2>1, <2>2, <2>3, <4>1, <4>4 DEF Knows, At, B2Steps
    <3>2. CASE LandsAtB2(r) /\ call'[v].reply = Newest(r.key) + 1
      <4>1. call[v].at = "b2_put"
        BY <2>6, <3>2 DEF Awaits, LandsAtB2
      <4>2. AtB2(v, call[v].reply)'
        <5>1. Added(r.key) /\ Newest(r.key) \in Nat
          BY <1>3, <1>4, <1>4a, <3>2
        <5>2. v = r.by /\ r.key = Key(v) /\ r.bytes = UploadOf[v].bytes
          BY <1>2, <2>6 DEF Sound
        <5>3. Newest(Key(v)) + 1 \in 1..Newest(Key(v))'
          BY <5>1, <5>2
        <5>4. b2'[Key(v)][Newest(Key(v)) + 1].bytes = UploadOf[v].bytes
          BY <5>1, <5>2
        <5> QED BY <3>2, <5>2, <5>3, <5>4 DEF AtB2
      <4> QED BY <1>5, <2>1, <2>2, <2>3, <2>4, <3>2, <4>1, <4>2 DEF Knows, At, B2Steps
    <3> QED BY <2>6, <3>1, <3>2 DEF LandsAtGcs, LandsAtB2
  <2> QED BY <1>1, <1>2, <2>5, <2>6, LandedCalls
<1>7. ASSUME NEW q \in sent, q # r PROVE Sound(q)'
  <2>1. Sound(q) /\ q \in Request /\ q.by \in Writers /\ q.key \in Keys
    BY <1>2 DEF Inv, Typed, Request
  <2>2. /\ call'[q.by].at = call[q.by].at
        /\ call[q.by].at # "idle" =>
             /\ call'[q.by].id = call[q.by].id
             /\ call'[q.by].owner = call[q.by].owner
             /\ call'[q.by].doomed = call[q.by].doomed
    BY <1>1, <1>2, <2>1, LandedCalls
  <2>3. Awaits(q)' <=> Awaits(q)
    BY <2>2 DEF Awaits
  <2>4. Awaits(q) => call[q.by].at # "idle"
    BY DEF Awaits
  <2>5. ASSUME q.to = "b2", Awaits(q), ~call[q.by].doomed PROVE NoOrderly(q.key)'
    <3>1. NoOrderly(q.key)
      BY <2>1, <2>5 DEF Sound
    <3>2. CASE b2'[q.key] = b2[q.key]
      BY <3>1, <3>2 DEF NoOrderly, Newest
    <3>3. CASE LandsAtB2(r) /\ q.key = r.key
      <4>1. r.to = "b2"
        BY <3>3 DEF LandsAtB2
      <4>2. ~(Awaits(r) /\ ~call[r.by].doomed)
        <5> SUFFICES ASSUME Awaits(r), ~call[r.by].doomed PROVE FALSE
          OBVIOUS
        <5>1. call[r.by].at = "b2_put" /\ call[q.by].at = "b2_put"
          BY <2>5, <4>1 DEF Awaits
        <5>2. r.by \in Coordinated /\ q.by \in Coordinated
          BY <1>2, <1>3, <2>1, <2>5, <4>1, B2IsCoordinated DEF Sound
        <5>3. guard[Key(r.by)] = r.by /\ guard[Key(q.by)] = q.by
          BY <1>3, <2>1, <2>5, <5>1, <5>2 DEF Inv, Holding
        <5>4. r.by = q.by
          BY <1>2, <2>1, <3>3, <5>3 DEF Sound
        <5>5. /\ r.id = q.id /\ r.owner = q.owner /\ r.key = q.key /\ r.bytes = q.bytes
              /\ r.to = q.to
          BY <1>2, <2>1, <2>5, <3>3, <4>1, <5>4 DEF Sound, Awaits
        <5>6. r = q
          BY <1>2, <2>1, <5>4, <5>5 DEF Request
        <5> QED BY <1>7, <5>6
      <4>3. /\ Newest(q.key) \in Nat /\ Newest(q.key)' = Newest(q.key) + 1
            /\ ~b2'[q.key][Newest(q.key) + 1].orderly
        BY <1>4, <1>4a, <2>1, <3>3, <4>2
      <4>4. \A i \in 1..Newest(q.key) : b2'[q.key][i] = b2[q.key][i]
        BY <1>4, <2>1
      <4> QED BY <3>1, <4>3, <4>4 DEF NoOrderly
    <3> QED BY <1>1, <1>2, <2>1, <3>2, <3>3, ProvidersGrow
  <2>6. AtGcs(q.by) => AtGcs(q.by)' /\ gcs'[q.key] = gcs[q.key]
    BY <1>5, <2>1 DEF Sound
  <2> QED BY <1>1, <2>1, <2>2, <2>3, <2>4, <2>5, <2>6 DEF Sound
<1>8. OneOrderly'
  <2> SUFFICES ASSUME NEW k \in Keys, NEW i \in 1..Newest(k)', NEW j \in 1..Newest(k)',
                      b2'[k][i].orderly, b2'[k][j].orderly
               PROVE  i = j
    BY DEF OneOrderly
  <2>1. CASE b2'[k] = b2[k]
    BY <2>1 DEF Inv, OneOrderly, Newest
  <2>2. CASE LandsAtB2(r) /\ k = r.key
    <3>1. /\ Newest(k) \in Nat /\ Newest(k)' = Newest(k) + 1
          /\ \A n \in 1..Newest(k) : b2'[k][n] = b2[k][n]
          /\ b2'[k][Newest(k) + 1].orderly => Awaits(r) /\ ~call[r.by].doomed
      BY <1>4, <1>4a, <2>2
    <3>2. CASE i \in 1..Newest(k) /\ j \in 1..Newest(k)
      BY <3>1, <3>2 DEF Inv, OneOrderly
    <3>3. CASE i = Newest(k) + 1 \/ j = Newest(k) + 1
      <4>1. NoOrderly(k)
        BY <1>2, <2>2, <3>1, <3>3 DEF Sound, LandsAtB2
      <4> QED BY <3>1, <4>1 DEF NoOrderly
    <3> QED BY <3>1, <3>2, <3>3
  <2> QED BY <1>1, <1>2, <2>1, <2>2, ProvidersGrow
<1>9. SameMedia'
  <2> SUFFICES ASSUME \A w \in Writers : ModeOf[w] # "b2", NEW k \in Keys, NEW i \in 1..Newest(k)'
               PROVE  /\ gcs'[k] # Nothing
                      /\ b2'[k][i].bytes = gcs'[k].bytes
                      /\ b2'[k][i].owner = gcs'[k].owner
    BY DEF SameMedia
  <2>1. CASE i \in 1..Newest(k)
    BY <1>4, <2>1 DEF Inv, SameMedia
  <2>2. CASE i \notin 1..Newest(k)
    <3>1. LandsAtB2(r) /\ k = r.key /\ i = Newest(k) + 1
      <4>1. Newest(k)' # Newest(k)
        BY <2>2
      <4>2. LandsAtB2(r) /\ k = r.key
        BY <1>1, <1>2, <4>1, ProvidersGrow DEF Newest
      <4>3. Newest(k) \in Nat /\ Newest(k)' = Newest(k) + 1
        BY <1>4, <1>4a, <4>2
      <4> QED BY <2>2, <4>2, <4>3
    <3>2. gcs' = gcs /\ b2'[k][i].bytes = r.bytes /\ b2'[k][i].owner = r.owner
      BY <1>4a, <3>1
    <3>3. r.to = "b2" /\ ModeOf[r.by] = "dual"
      BY <1>2, <1>3, <3>1, Uploads DEF LandsAtB2, Sound, UsesB2
    <3> QED BY <1>2, <3>1, <3>2, <3>3 DEF Sound, AtGcs
  <2> QED BY <2>1, <2>2
<1>10. AnsweredIsStored'
  <2> SUFFICES ASSUME NEW a \in answers
               PROVE  /\ UsesGcs(a.by) => gcs'[Key(a.by)].bytes = UploadOf[a.by].bytes
                      /\ UsesB2(a.by) => AtB2(a.by, a.version)'
    BY <1>1 DEF AnsweredIsStored, AtB2
  <2>1. a.by \in Writers
    BY <1>2 DEF Typed, Answer
  <2>2. UsesB2(a.by) => AtB2(a.by, a.version)
    BY DEF Inv, AnsweredIsStored, AtB2
  <2>3. UsesGcs(a.by) => AtGcs(a.by)
    <3>1. UsesGcs(a.by) => gcs[Key(a.by)].bytes \in Bytes
      BY <2>1, Uploads DEF Inv, AnsweredIsStored
    <3>2. Nothing.bytes \notin Bytes
      BY CanonicalConstants DEF Nothing
    <3> QED BY <3>1, <3>2 DEF Inv, AnsweredIsStored, AtGcs
  <2> QED BY <1>5, <2>1, <2>2, <2>3 DEF AtGcs
<1> QED BY <1>1, <1>2, <1>6, <1>7, <1>8, <1>9, <1>10 DEF Inv

\* A request that is lost preserves the invariant.
LEMMA LoseKeeps == ASSUME Inv, Lose PROVE Inv'
<1>1. /\ sent' \subseteq sent
      /\ gcs' = gcs /\ b2' = b2 /\ guard' = guard /\ call' = call /\ begun' = begun
      /\ answers' = answers
  BY DEF Lose
<1>2. Typed'
  BY <1>1 DEF Inv, Typed
<1>3. \A w \in Writers : Knows(w)' /\ Holding(w)'
  BY <1>1 DEF Inv, Knows, Holding, At, AtGcs, AtB2, Newest
<1>4. \A r \in sent' : Sound(r)'
  BY <1>1 DEF Inv, Sound, AtGcs, Awaits, NoOrderly, Newest
<1>5. OneOrderly' /\ SameMedia' /\ AnsweredIsStored'
  BY <1>1 DEF Inv, OneOrderly, SameMedia, AnsweredIsStored, Newest
<1> QED BY <1>2, <1>3, <1>4, <1>5 DEF Inv

-----------------------------------------------------------------------------
(* The theorems. *)

LEMMA InvInit == Init => Inv
<1> SUFFICES ASSUME Init PROVE Inv
  OBVIOUS
<1>1. \A k \in Keys : Newest(k) = 0
  BY DEF Init, Newest
<1>2. sent = {} /\ answers = {} /\ \A w \in Writers : call[w].at = "idle"
  BY DEF Init, Idle
<1> QED BY <1>1, <1>2, TypedInit
        DEF Inv, Knows, Holding, At, B2Steps, OneOrderly, SameMedia, AnsweredIsStored

\* The inductive invariant of canonical writes.
THEOREM InvHolds == Spec => []Inv
<1>1. ASSUME Inv, [Next]_vars PROVE Inv'
  <2>1. CASE Next
    BY <1>1, <2>1, WriterKeeps, LandKeeps, LoseKeeps DEF Next
  <2>2. CASE UNCHANGED vars
    BY <1>1, <2>2 DEF vars, Inv, Typed, Knows, Holding, At, AtGcs, AtB2, Newest, Sound, Awaits,
          NoOrderly, OneOrderly, SameMedia, AnsweredIsStored
  <2> QED BY <1>1, <2>1, <2>2
<1> QED BY <1>1, InvInit, PTL DEF Spec

\* Every variable of canonical storage always has its type (storage/mod.rs).
THEOREM CanonicalTyped == Spec => []TypeOK
<1>1. Inv => TypeOK
  <2> SUFFICES ASSUME Typed PROVE TypeOK
    BY DEF Inv
  <2>1. \A k \in Keys : \A i \in 1..Newest(k) : b2[k][i] \in Version
    BY DEF Typed, Newest
  <2> QED BY <2>1 DEF Typed, TypeOK
<1> QED BY <1>1, InvHolds, PTL

\* Whatever put and put_file returned is stored at every provider of the write's
\* mode, in the version that was returned and with the caller's bytes.
THEOREM AnswersHold == Spec => []AnsweredIsStored
<1>1. Inv => AnsweredIsStored
  BY DEF Inv
<1> QED BY <1>1, InvHolds, PTL

\* Of all the versions that B2's unconditional uploads leave of one key, one at
\* most was stored by a writer that held the lock and waited for it.
THEOREM OneVersion == Spec => []OneOrderlyVersion
<1>1. Inv => OneOrderlyVersion
  <2> SUFFICES ASSUME Inv, NEW k \in Keys
               PROVE  Cardinality({i \in 1..Newest(k) : b2[k][i].orderly}) <= 1
    BY DEF OneOrderlyVersion
  <2> DEFINE orderly == {i \in 1..Newest(k) : b2[k][i].orderly}
  <2>1. \A i, j \in orderly : i = j
    BY DEF Inv, OneOrderly
  <2> HIDE DEF orderly
  <2>2. CASE orderly = {}
    BY <2>2, FS_EmptySet DEF orderly
  <2>3. CASE orderly # {}
    <3>1. PICK i \in orderly : orderly = {i}
      BY <2>1, <2>3
    <3>2. Cardinality(orderly) = 1
      BY <3>1, FS_Singleton
    <3> QED BY <3>2 DEF orderly
  <2> QED BY <2>2, <2>3
<1> QED BY <1>1, InvHolds, PTL

\* Where every write to B2 is a dual one, a verified read finds one medium with
\* one owner under a key, late and repeated writes included.
THEOREM CopiesAlwaysAgree == Spec => []CopiesAgree
<1>1. Inv => CopiesAgree
  <2> SUFFICES ASSUME Inv, \A w \in Writers : ModeOf[w] # "b2", NEW k \in Keys, Newest(k) > 0
               PROVE  VerifiedRead(k) /\ b2[k][Newest(k)].owner = gcs[k].owner
    BY DEF CopiesAgree
  <2>1. Newest(k) \in Nat
    BY DEF Inv, Typed, Newest
  <2>2. Newest(k) \in 1..Newest(k)
    BY <2>1
  <2> QED BY <2>2 DEF Inv, SameMedia, VerifiedRead
<1> QED BY <1>1, InvHolds, PTL
=============================================================================
