-------------------------- MODULE CanonicalStorage --------------------------
(***************************************************************************)
(* Canonical media storage (src/src/storage/mod.rs and the unconditional    *)
(* writes of src/src/storage/b2.rs): MediaStorage::put and put_file, which  *)
(* several server processes call for one key at a time.                     *)
(*                                                                         *)
(* A write takes a PostgreSQL session lock on its key, looks at each        *)
(* provider, sends a PUT where nothing is stored and reads back what is     *)
(* there.  GCS takes the first object only (if_generation_match 0); B2      *)
(* keeps every version it is sent.  A PUT is a message: after a timeout or  *)
(* a crash it may still land, and nobody knows.  put and put_file differ in *)
(* how they send a body, which multipart uploads (B2Multipart) are about.   *)
(*                                                                         *)
(* Canonical objects are never deleted by this service, versions are        *)
(* immutable, and the content type travels with the owner.                  *)
(***************************************************************************)
EXTENDS Integers, Sequences, FiniteSets

CONSTANTS
    Writers,      \* upload requests, each in a process of its own
    NoWriter,
    ModeOf,       \* the write mode each writer was admitted with
    Coordinated,  \* the writers whose process has a coordination database
    UploadOf,     \* what each writer uploads, again if it failed
    Keys,
    Bytes,
    Owners,
    MaxCalls      \* bound: writes that are ever begun

ASSUME CanonicalConstants ==
    /\ NoWriter \notin Writers
    /\ ModeOf \in [Writers -> {"gcs", "b2", "dual"}]
    /\ Coordinated \subseteq Writers
    /\ \A w \in Writers \ Coordinated : ModeOf[w] = "gcs"
    /\ UploadOf \in [Writers -> [key : Keys, bytes : Bytes, owner : Owners]]
    /\ MaxCalls \in Nat
    /\ {} \notin Bytes

VARIABLES
    gcs,      \* the object GCS holds of each key, or Nothing
    b2,       \* the versions B2 holds of each key, oldest first
    guard,    \* who holds the advisory lock of each key
    sent,     \* PUT requests that have neither landed nor been lost
    call,     \* the write each writer is at
    begun,    \* how many writes were begun
    answers   \* history: what put and put_file returned

vars == <<gcs, b2, guard, sent, call, begun, answers>>

-----------------------------------------------------------------------------
Nothing == [bytes |-> {}, owner |-> {}]

\* orderly is history: the writer still waited for this version, and had not
\* lost the connection that holds its lock.
Version == [bytes : Bytes, owner : Owners, orderly : BOOLEAN]
Idle == [at |-> "idle"]

\* A PUT's response names the version it stored; 0 stands for GCS's only one.
NoReply == -1

Request == [to : {"gcs", "b2"}, by : Writers, id : 1..MaxCalls, key : Keys,
            bytes : Bytes, owner : Owners]

\* Where put_file awaits an answer, and what it knows by then.
Steps == {"guard", "inherit", "gcs", "gcs_put", "gcs_look", "winner",
          "b2", "b2_put", "b2_look", "returned"}
Call == [at : Steps, id : 1..MaxCalls, owner : Owners,
         reply : {NoReply} \cup Nat, new : BOOLEAN, doomed : BOOLEAN]

Answer == [by : Writers, version : Nat, new : BOOLEAN]

UsesGcs(w) == ModeOf[w] \in {"gcs", "dual"}
UsesB2(w) == ModeOf[w] \in {"b2", "dual"}

At(w, step) == call[w].at = step
Key(w) == UploadOf[w].key

\* B2Store::stat: a HEAD without a version sees the newest one.
Newest(k) == Len(b2[k])

\* Mistake: an object that exists is not read back.
AnyBytes(object, w) == object # Nothing

\* verify, verify_stream: what is stored has the caller's length and digest.
Matches(object, w) == object.bytes = UploadOf[w].bytes

\* read_verified of a dual store: both copies are there and are the same bytes.
VerifiedRead(k) ==
    /\ gcs[k] # Nothing
    /\ Newest(k) > 0
    /\ b2[k][Newest(k)].bytes = gcs[k].bytes

Init ==
    /\ gcs = [k \in Keys |-> Nothing]
    /\ b2 = [k \in Keys |-> <<>>]
    /\ guard = [k \in Keys |-> NoWriter]
    /\ sent = {}
    /\ call = [w \in Writers |-> Idle]
    /\ begun = 0
    /\ answers = {}

-----------------------------------------------------------------------------
(* One write. *)

Begin(w) ==
    /\ At(w, "idle")
    /\ begun < MaxCalls
    /\ begun' = begun + 1
    /\ call' = [call EXCEPT ![w] =
         [at |-> "guard", id |-> begun + 1, owner |-> UploadOf[w].owner,
          reply |-> NoReply, new |-> FALSE, doomed |-> FALSE]]
    /\ UNCHANGED <<gcs, b2, guard, sent, answers>>

Goto(w, step) == call' = [call EXCEPT ![w].at = step, ![w].reply = NoReply]

\* Mistake: the write does not wait for the lock.
UnguardedWrite(w) ==
    /\ At(w, "guard")
    /\ Goto(w, "inherit")
    /\ UNCHANGED <<gcs, b2, guard, sent, begun, answers>>

\* write_guard: no database, no guard; otherwise wait for the lock.
TakeGuard(w) ==
    /\ At(w, "guard")
    /\ \/ /\ w \notin Coordinated
          /\ UNCHANGED guard
       \/ /\ w \in Coordinated
          /\ guard[Key(w)] = NoWriter
          /\ guard' = [guard EXCEPT ![Key(w)] = w]
    /\ Goto(w, "inherit")
    /\ UNCHANGED <<gcs, b2, sent, begun, answers>>

FirstProvider(w) == IF UsesGcs(w) THEN "gcs" ELSE "b2"

\* inherited_metadata: a dual write that repairs B2 keeps the metadata of the
\* GCS object.
Inherit(w) ==
    /\ At(w, "inherit")
    /\ call' = [call EXCEPT
         ![w].at = FirstProvider(w),
         ![w].owner = IF ModeOf[w] = "dual" /\ gcs[Key(w)] # Nothing
                      THEN gcs[Key(w)].owner ELSE @]
    /\ UNCHANGED <<gcs, b2, guard, sent, begun, answers>>

Put(w, provider) ==
    [to |-> provider, by |-> w, id |-> call[w].id, key |-> Key(w),
     bytes |-> UploadOf[w].bytes, owner |-> call[w].owner]

\* The function returns Ok with the references it collected.
Returns(w, version, new) ==
    /\ answers' = answers \cup
         {[by |-> w, version |-> version, new |-> new]}
    /\ call' = [call EXCEPT ![w].at = "returned", ![w].reply = NoReply]

\* The GCS part of the write is over.
LeaveGcs(w, new) ==
    IF ModeOf[w] = "dual"
    THEN /\ call' = [call EXCEPT ![w].at = "winner", ![w].new = new,
                                 ![w].reply = NoReply]
         /\ UNCHANGED answers
    ELSE Returns(w, 0, new)

\* put_gcs, and put_file likewise: reuse the object that is there, after
\* reading it, or send the first one.
LookAtGcs(w) ==
    /\ At(w, "gcs")
    /\ \/ /\ gcs[Key(w)] # Nothing
          /\ Matches(gcs[Key(w)], w)
          /\ LeaveGcs(w, FALSE)
          /\ UNCHANGED sent
       \/ /\ gcs[Key(w)] = Nothing
          /\ sent' = sent \cup {Put(w, "gcs")}
          /\ Goto(w, "gcs_put")
          /\ UNCHANGED answers
    /\ UNCHANGED <<gcs, b2, guard, begun>>

\* The response says stored: the object is the caller's, and reads back.
GcsStored(w) ==
    /\ At(w, "gcs_put")
    /\ call[w].reply = 0
    /\ LeaveGcs(w, TRUE)
    /\ UNCHANGED <<gcs, b2, guard, sent, begun>>

\* A failed precondition, a timeout or a lost response: look again.
GcsError(w) ==
    /\ At(w, "gcs_put")
    /\ Goto(w, "gcs_look")
    /\ UNCHANGED <<gcs, b2, guard, sent, begun, answers>>

\* Whatever object is there now is used if it has the bytes; none at all is
\* an unresolved outcome, which fails the write.
LookAgainAtGcs(w) ==
    /\ At(w, "gcs_look")
    /\ gcs[Key(w)] # Nothing
    /\ Matches(gcs[Key(w)], w)
    /\ LeaveGcs(w, FALSE)
    /\ UNCHANGED <<gcs, b2, guard, sent, begun>>

\* Mistake: the uploader's own metadata goes to B2.
KeepOwner(w) ==
    /\ At(w, "winner")
    /\ Goto(w, "b2")
    /\ UNCHANGED <<gcs, b2, guard, sent, begun, answers>>

\* Dual writes give B2 the metadata of the object that won in GCS.
Winner(w) ==
    /\ At(w, "winner")
    /\ gcs[Key(w)] # Nothing
    /\ call' = [call EXCEPT ![w].at = "b2", ![w].owner = gcs[Key(w)].owner]
    /\ UNCHANGED <<gcs, b2, guard, sent, begun, answers>>

\* B2Store::put and put_file: reuse the newest version or send one, with no
\* precondition.
LookAtB2(w) ==
    /\ At(w, "b2")
    /\ \/ /\ Newest(Key(w)) > 0
          /\ Matches(b2[Key(w)][Newest(Key(w))], w)
          /\ Returns(w, Newest(Key(w)), call[w].new)
          /\ UNCHANGED sent
       \/ /\ Newest(Key(w)) = 0
          /\ sent' = sent \cup {Put(w, "b2")}
          /\ Goto(w, "b2_put")
          /\ UNCHANGED answers
    /\ UNCHANGED <<gcs, b2, guard, begun>>

\* The response names the version, which is pinned and read back.
B2Stored(w) ==
    /\ At(w, "b2_put")
    /\ call[w].reply # NoReply
    /\ Returns(w, call[w].reply, TRUE)
    /\ UNCHANGED <<gcs, b2, guard, sent, begun>>

B2Error(w) ==
    /\ At(w, "b2_put")
    /\ Goto(w, "b2_look")
    /\ UNCHANGED <<gcs, b2, guard, sent, begun, answers>>

LookAgainAtB2(w) ==
    /\ At(w, "b2_look")
    /\ Newest(Key(w)) > 0
    /\ Matches(b2[Key(w)][Newest(Key(w))], w)
    /\ Returns(w, Newest(Key(w)), call[w].new)
    /\ UNCHANGED <<gcs, b2, guard, sent, begun>>

\* The guard is dropped: a task of its own unlocks the key.
Unlocked(w) ==
    IF guard[Key(w)] = w THEN [guard EXCEPT ![Key(w)] = NoWriter] ELSE guard

Release(w) ==
    /\ At(w, "returned")
    /\ guard' = Unlocked(w)
    /\ call' = [call EXCEPT ![w] = Idle]
    /\ UNCHANGED <<gcs, b2, sent, begun, answers>>

\* A provider or the database answers with an error, stored bytes differ, the
\* client goes away or the process dies: the lock goes with the connection,
\* a request that was sent does not.
Abandon(w) ==
    /\ call[w].at \in Steps \ {"returned"}
    /\ guard' = Unlocked(w)
    /\ call' = [call EXCEPT ![w] = Idle]
    /\ UNCHANGED <<gcs, b2, sent, begun, answers>>

\* The lock's connection breaks.  The process exits, but only once its other
\* tasks have run into it: until Abandon, the write goes on.
LoseGuard(w) ==
    /\ call[w].at \in Steps
    /\ guard[Key(w)] = w
    /\ guard' = Unlocked(w)
    /\ call' = [call EXCEPT ![w].doomed = TRUE]
    /\ UNCHANGED <<gcs, b2, sent, begun, answers>>

-----------------------------------------------------------------------------
(* The providers. *)

Awaits(r) ==
    /\ call[r.by].at = (IF r.to = "gcs" THEN "gcs_put" ELSE "b2_put")
    /\ call[r.by].id = r.id

Reply(r, version) ==
    call' = IF Awaits(r) THEN [call EXCEPT ![r.by].reply = version] ELSE call

\* upload_object with if_generation_match 0.
LandsAtGcs(r) ==
    /\ r.to = "gcs"
    /\ \/ /\ gcs[r.key] = Nothing
          /\ gcs' = [gcs EXCEPT ![r.key] = [bytes |-> r.bytes, owner |-> r.owner]]
          /\ Reply(r, 0)
       \/ /\ gcs[r.key] # Nothing
          /\ UNCHANGED <<gcs, call>>
    /\ UNCHANGED b2

LandsAtB2(r) ==
    /\ r.to = "b2"
    /\ b2' = [b2 EXCEPT ![r.key] = Append(@,
         [bytes |-> r.bytes, owner |-> r.owner,
          orderly |-> Awaits(r) /\ ~call[r.by].doomed])]
    /\ Reply(r, Newest(r.key) + 1)
    /\ UNCHANGED gcs

Land ==
    \E r \in sent :
        /\ LandsAtGcs(r) \/ LandsAtB2(r)
        /\ sent' = sent \ {r}
        /\ UNCHANGED <<guard, begun, answers>>

Lose ==
    \E r \in sent :
        /\ sent' = sent \ {r}
        /\ UNCHANGED <<gcs, b2, guard, call, begun, answers>>

Write(w) ==
    \/ Begin(w) \/ TakeGuard(w) \/ Inherit(w)
    \/ LookAtGcs(w) \/ GcsStored(w) \/ GcsError(w) \/ LookAgainAtGcs(w)
    \/ Winner(w)
    \/ LookAtB2(w) \/ B2Stored(w) \/ B2Error(w) \/ LookAgainAtB2(w)
    \/ Release(w) \/ Abandon(w) \/ LoseGuard(w)

Next == (\E w \in Writers : Write(w)) \/ Land \/ Lose

Spec == Init /\ [][Next]_vars

-----------------------------------------------------------------------------
(* Properties. *)

TypeOK ==
    /\ gcs \in [Keys -> [bytes : Bytes, owner : Owners] \cup {Nothing}]
    /\ \A k \in Keys : \A i \in 1..Newest(k) : b2[k][i] \in Version
    /\ DOMAIN b2 = Keys
    /\ guard \in [Keys -> Coordinated \cup {NoWriter}]
    /\ sent \subseteq Request
    /\ call \in [Writers -> Call \cup {Idle}]
    /\ begun \in 0..MaxCalls
    /\ answers \subseteq Answer

\* Writers of one key share one B2 version, although B2 uploads carry no
\* precondition: at most one of the versions is an orderly one.  Every other is
\* a request left behind by a write that timed out, died or lost its lock.
OneOrderlyVersion ==
    \A k \in Keys :
        Cardinality({i \in 1..Newest(k) : b2[k][i].orderly}) <= 1

\* What a write returned is durable at every provider of its mode, in the
\* very version that was returned and with the caller's bytes, whatever was
\* stored, left half written or still in flight when the write began.
AnsweredIsStored ==
    \A a \in answers :
        /\ UsesGcs(a.by) => gcs[Key(a.by)].bytes = UploadOf[a.by].bytes
        /\ UsesB2(a.by) =>
             /\ a.version \in 1..Newest(Key(a.by))
             /\ b2[Key(a.by)][a.version].bytes = UploadOf[a.by].bytes

\* Where all B2 writes are dual ones, every version B2 ever shows of a key,
\* late ones included, has the bytes and the owner of its GCS object: a
\* verified read never meets two media under one key, and a retry that repairs
\* the B2 copy does not make the media its own.
CopiesAgree ==
    (\A w \in Writers : ModeOf[w] # "b2") =>
        \A k \in Keys : Newest(k) > 0 =>
            /\ VerifiedRead(k)
            /\ b2[k][Newest(k)].owner = gcs[k].owner
=============================================================================
