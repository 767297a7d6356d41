---------------------------- MODULE MediaRequests ----------------------------
(***************************************************************************)
(* The request handlers of one server process (src/src/main.rs) and the     *)
(* admission they share (src/src/resources.rs): uploads, mirrors, chunks and *)
(* completion of one resumable session, thumbnails and transcription, all    *)
(* about one video.                                                         *)
(*                                                                         *)
(* A handler is a future: its client may leave at any await, which drops the *)
(* future and with it the permit and the session lock it holds, while a PUT  *)
(* it had sent goes on and may land at any later time, as one may whose      *)
(* answer timed out.  Admission never waits: a handler that finds no permit  *)
(* answers 503.                                                             *)
(*                                                                         *)
(* How an original is written, an intent recorded and a chunk kept is told   *)
(* in CanonicalStorage, Outbox and ResumableSession; here each of these is   *)
(* one step.  A thumbnail is looked for and sent in two, since other PUTs    *)
(* may land in between: the write guard that keeps live writers of one key   *)
(* apart stops none that is already on its way, and its connection may       *)
(* break, so it is left out.  Authentication, sizes and everything else a    *)
(* handler can refuse a request for is an error that may happen.            *)
(***************************************************************************)
EXTENDS Naturals, FiniteSets

CONSTANTS
    Requests,
    NoRequest,
    Slots,        \* permits of each pool
    Deployments   \* how the process may have been started

Pools == {"upload", "thumbnail", "mirror", "transcribe"}
Kinds == {"upload", "mirror", "chunk", "complete", "thumbnail", "transcribe"}
Modes == {"gcs", "b2", "dual"}

ASSUME RequestConstants ==
    /\ IsFiniteSet(Requests)
    /\ NoRequest \notin Requests
    /\ Slots \in [Pools -> Nat \ {0}]
    /\ \A d \in Deployments :
          /\ d.mode \in Modes
          /\ d.outbox \in BOOLEAN /\ d.database \in BOOLEAN
          /\ d.mode # "gcs" => d.outbox
          /\ d.outbox => d.database

VARIABLES
    server,    \* the configuration of the process
    free,      \* permits left in each pool
    lock,      \* who has locked the resumable session
    session,   \* how far the resumable session is
    intents,   \* the upload intent of each owner
    recorded,  \* the providers that committed events name for the video
    original,  \* the providers that hold the video
    thumb,     \* the JPEG that each provider shows under the video's key
    late,      \* PUTs on their way whose answer nobody waits for any more
    req,       \* where each handler is
    hooks,     \* history: follow-ups this process started, and for whom
    refused,   \* history: requests that were refused for want of a permit
    claims     \* history: thumbnails that an answer said are stored

media == <<intents, recorded, original, thumb, late>>
history == <<hooks, refused, claims>>
vars == <<server, free, lock, session, media, req, history>>

-----------------------------------------------------------------------------
NoImage == "none"

\* A JPEG depends on what it was made of: the remuxed upload, the original or a
\* stream of the transcoder.
Images == {"remuxed", "original", "stream"}

Providers == {"gcs", "b2"}
Steps == {"admit", "auth", "lock", "resolve", "head", "body", "put", "put b2",
          "intent", "fetch", "append", "load", "proxy", "save", "enqueue", "told",
          "thumb", "lookup", "keep", "keep b2", "send", "send b2"}

\* A handler, and a PUT that has outlived the wait for it.
Handling == [at : Steps, kind : Kinds, permit : BOOLEAN, mode : Modes,
             new : BOOLEAN, image : Images \cup {NoImage}]
Abandoned == [by : Requests, to : Providers, key : {"video", "thumb"},
              image : Images \cup {NoImage}]

Unknown == [state |-> "unknown", mode |-> "gcs"]
Gone == [at |-> "gone"]

Places(mode) == CASE mode = "gcs" -> {"gcs"}
                  [] mode = "b2" -> {"b2"}
                  [] mode = "dual" -> {"gcs", "b2"}

PoolOf(kind) == CASE kind = "mirror" -> "mirror"
                  [] kind = "thumbnail" -> "thumbnail"
                  [] kind = "transcribe" -> "transcribe"
                  [] OTHER -> "upload"

At(r, step) == req[r].at = step
Kind(r) == req[r].kind
Pool(r) == PoolOf(Kind(r))
Live(r) == req[r].at \notin {"new", "gone"}
Admitted(r) == Live(r) /\ req[r].permit
Holders(pool) == {r \in Requests : Admitted(r) /\ Pool(r) = pool}

\* process_migrate has no caller's proof: with an outbox nobody owns a mirror.
Owner(r) == IF Kind(r) = "mirror" THEN "nobody" ELSE "user"

Goto(r, step) == req' = [req EXCEPT ![r].at = step]

\* Mistake: only an answer gives the permit back.
KeepPermit(r) ==
    /\ req' = [req EXCEPT ![r] = Gone]
    /\ lock' = IF lock = r THEN NoRequest ELSE lock
    /\ UNCHANGED free

\* The future ends or is dropped: OwnedSemaphorePermit and the lock's
\* connection go with it.
Leave(r) ==
    /\ req' = [req EXCEPT ![r] = Gone]
    /\ free' = IF Admitted(r) THEN [free EXCEPT ![Pool(r)] = @ + 1] ELSE free
    /\ lock' = IF lock = r THEN NoRequest ELSE lock

Init ==
    /\ server \in Deployments
    /\ free = Slots
    /\ lock = NoRequest
    /\ session \in {"open", "filled"}  \* an earlier process may have filled it
    /\ recorded = {} /\ original = {}
    /\ thumb = [p \in Providers |-> NoImage]
    /\ late = {}
    /\ req = [r \in Requests |-> [at |-> "new"]]
    /\ hooks = {} /\ refused = {} /\ claims = {}
       \* An upload may have been begun before dual writes were switched on.
    /\ \E i \in {Unknown, [state |-> "pending", mode |-> "gcs"]} :
          /\ i # Unknown => server.mode = "dual"
          /\ intents = [o \in {"user", "nobody"} |-> IF o = "user" THEN i ELSE Unknown]

-----------------------------------------------------------------------------
(* Admission. *)

\* Where a handler starts: build_router, and what precedes the permit.
Entry(kind) == CASE kind \in {"upload", "mirror", "chunk"} -> "admit"
                 [] kind = "transcribe" -> "auth"
                 [] kind = "complete" -> "lock"
                 [] kind = "thumbnail" -> "resolve"

Arrive(r, kind) ==
    /\ At(r, "new")
    /\ req' = [req EXCEPT ![r] =
         [at |-> Entry(kind), kind |-> kind, permit |-> FALSE,
          mode |-> server.mode, new |-> FALSE, image |-> NoImage]]
    /\ UNCHANGED <<server, free, lock, session, media, history>>

\* handle_transcribe checks the token, its scope and the configuration first.
Authorize(r) ==
    /\ At(r, "auth")
    /\ Goto(r, "admit")
    /\ UNCHANGED <<server, free, lock, session, media, history>>

WithPermit(kind) ==
    CASE kind = "chunk" -> "head"
      [] kind = "complete" -> IF server.outbox THEN "intent" ELSE "put"
      [] kind = "thumbnail" -> "fetch"
      [] OTHER -> "body"

\* acquire, acquire_thumbnail, acquire_mirror, transcribe_slots.
Admit(r) ==
    /\ At(r, "admit")
    /\ free[Pool(r)] > 0
    /\ free' = [free EXCEPT ![Pool(r)] = @ - 1]
    /\ req' = [req EXCEPT ![r].permit = TRUE, ![r].at = WithPermit(Kind(r))]
    /\ UNCHANGED <<server, lock, session, media, history>>

Shed(r) ==
    /\ At(r, "admit")
    /\ free[Pool(r)] = 0
    /\ refused' = refused \cup {r}
    /\ Leave(r)
    /\ UNCHANGED <<server, session, media, hooks, claims>>

-----------------------------------------------------------------------------
(* Bodies and the resumable session. *)

Lockable == ~server.database \/ lock = NoRequest

\* head_session locks, checks and unlocks before the body of a chunk is read.
Head(r) ==
    /\ At(r, "head")
    /\ Lockable
    /\ Goto(r, "body")
    /\ UNCHANGED <<server, free, lock, session, media, history>>

\* collect_body_bytes, to_bytes: the body in memory.
Buffer(r) ==
    /\ At(r, "body")
    /\ Kind(r) \in {"chunk", "transcribe"}
    /\ Goto(r, IF Kind(r) = "chunk" THEN "lock" ELSE "proxy")
    /\ UNCHANGED <<server, free, lock, session, media, history>>

Spooled == IF server.outbox THEN "intent" ELSE "put"

\* stream_to_gcs_with_hash: the body in a file, which is hashed.
Spool(r) ==
    /\ At(r, "body")
    /\ Kind(r) = "upload"
    /\ Goto(r, Spooled)
    /\ UNCHANGED <<server, free, lock, session, media, history>>

\* process_migrate: the same with what the source answers, asked again with a
\* signature if it demands one.
FetchSource(r) ==
    /\ At(r, "body")
    /\ Kind(r) = "mirror"
    /\ Goto(r, Spooled)
    /\ UNCHANGED <<server, free, lock, session, media, history>>

\* proxy_transcribe_audio: the transcoder's answer is passed on.
Proxied(r) ==
    /\ At(r, "proxy")
    /\ Leave(r)
    /\ UNCHANGED <<server, session, media, history>>

\* upload_chunk and complete_session lock the session without waiting.
Lock(r) ==
    /\ At(r, "lock")
    /\ Lockable
    /\ lock' = IF server.database THEN r ELSE lock
    /\ Goto(r, IF Kind(r) = "chunk" THEN "append" ELSE "load")
    /\ UNCHANGED <<server, free, session, media, history>>

\* The only chunk is committed, or was already.
Append(r) ==
    /\ At(r, "append")
    /\ session \in {"open", "filled"}
    /\ session' = "filled"
    /\ Leave(r)
    /\ UNCHANGED <<server, media, history>>

\* complete_session of a full session needs an upload permit, of a finalized one
\* it needs none and has stored nothing new.
Load(r) ==
    /\ At(r, "load")
    /\ \/ session = "filled" /\ Goto(r, "admit") /\ UNCHANGED <<free, lock>>
       \/ session = "done" /\ server.outbox /\ Goto(r, "enqueue") /\ UNCHANGED <<free, lock>>
       \/ session = "done" /\ ~server.outbox /\ Leave(r)
       \/ session = "receipted" /\ Leave(r)
    /\ UNCHANGED <<server, session, media, history>>

-----------------------------------------------------------------------------
(* The original. *)

\* put and put_file: GCS unless the policy is b2, and then B2 unless it is gcs.
Provider(r) == IF req[r].at \in {"put", "keep", "send"} THEN "gcs" ELSE "b2"
First(mode, gcsStep, b2Step) == IF mode = "b2" THEN b2Step ELSE gcsStep

\* The PUT a handler may have sent and wait for; a video that is there is not
\* sent again.
Sent(r) ==
    CASE req[r].at \in {"put", "put b2"} /\ Provider(r) \notin original ->
            {[by |-> r, to |-> Provider(r), key |-> "video", image |-> NoImage]}
      [] req[r].at \in {"send", "send b2"} ->
            {[by |-> r, to |-> Provider(r), key |-> "thumb", image |-> req[r].image]}
      [] OTHER -> {}

\* Nobody waits for them any longer: they have failed, or are on their way.
Abandon(puts) == \E lost \in SUBSET puts : late' = late \cup (puts \ lost)

\* reserve_upload, with one storage configuration for all: see Outbox.
Upserted(i) ==
    IF i.state = "pending" \/ (i.state = "completed" /\ i.mode = server.mode)
    THEN i ELSE [state |-> "pending", mode |-> server.mode]

\* begin_or_resume_upload follows the policy that is recorded; begin_finalization
\* insists on the session's.
Intent(r) ==
    /\ At(r, "intent")
    /\ LET i == Upserted(intents[Owner(r)])
       IN  /\ intents' = [intents EXCEPT ![Owner(r)] = i]
           /\ \/ /\ Kind(r) # "complete" \/ i.mode = server.mode
                 /\ req' = [req EXCEPT ![r].mode = i.mode,
                                         ![r].at = First(i.mode, "put", "put b2")]
                 /\ UNCHANGED <<free, lock>>
              \/ Kind(r) = "complete" /\ i.mode # server.mode /\ Leave(r)
    /\ UNCHANGED <<server, session, recorded, original, thumb, late, history>>

AfterPut(r) ==
    IF Kind(r) = "complete" THEN "save"
    ELSE IF server.outbox THEN "enqueue"
    ELSE IF Kind(r) = "upload" THEN "thumb" ELSE "told"

\* The PUT answers, or its outcome is read back, or the object was there.  GCS
\* takes the first of several; B2 may call one new that another has overtaken.
Put(r) ==
    /\ At(r, "put") \/ At(r, "put b2")
    /\ original' = original \cup {Provider(r)}
    /\ \E new \in IF Provider(r) = "gcs" /\ "gcs" \in original THEN {FALSE} ELSE BOOLEAN :
          req' = [req EXCEPT ![r].new = @ \/ new,
                    ![r].at = IF At(r, "put") /\ req[r].mode = "dual"
                              THEN "put b2" ELSE AfterPut(r)]
    /\ UNCHANGED <<server, free, lock, session, intents, recorded, thumb, late, history>>

\* complete_session saves the finalized session if nobody has since it was read.
Save(r) ==
    /\ At(r, "save")
    /\ session = "filled"
    /\ session' = "done"
    /\ Goto(r, IF server.outbox THEN "enqueue" ELSE "told")
    /\ UNCHANGED <<server, free, lock, media, history>>

\* enqueue_upload, enqueue_session_upload: the objects fit the intent.
Enqueue(r) ==
    /\ At(r, "enqueue")
    /\ intents[Owner(r)].mode = req[r].mode
    /\ intents' = [intents EXCEPT ![Owner(r)].state = "completed"]
    /\ recorded' = recorded \cup Places(req[r].mode)
    /\ session' = IF Kind(r) = "complete" THEN "receipted" ELSE session
    /\ Goto(r, IF Kind(r) = "upload" THEN "thumb" ELSE "told")
    /\ UNCHANGED <<server, free, lock, original, thumb, late, history>>

\* Mistake: the scan does not ask whether the video is new.
ScanAgain(r) == {<<"nsfw", r>>}

\* spawn_nsfw_scan.
Scan(r) == IF req[r].new THEN {<<"nsfw", r>>} ELSE {}

\* trigger_transcoding, trigger_transcription and the scan: without an outbox the
\* handlers start the follow-ups themselves.
FollowUps(r) ==
    IF server.outbox THEN {}
    ELSE CASE Kind(r) = "upload" -> {<<h, r>> : h \in {"transcode", "transcribe"}} \cup Scan(r)
           [] Kind(r) = "complete" -> Scan(r)
           [] OTHER -> {}

Tell(r) ==
    /\ At(r, "told")
    /\ hooks' = hooks \cup FollowUps(r)
    /\ Leave(r)
    /\ UNCHANGED <<server, session, media, refused, claims>>

-----------------------------------------------------------------------------
(* Thumbnails. *)

\* stat and read: GCS is asked unless the policy is b2.
Cached(mode) == thumb[First(mode, "gcs", "b2")]

\* extract_and_upload_thumbnail: a JPEG that is there is written again as it is,
\* otherwise one is made of the upload; or there is none for this upload.
ThumbnailOfUpload(r) ==
    /\ At(r, "thumb")
    /\ \/ \E image \in IF Cached(req[r].mode) # NoImage THEN {Cached(req[r].mode)}
                       ELSE {"remuxed", "original"} :
             req' = [req EXCEPT ![r].image = image,
                                ![r].at = First(req[r].mode, "keep", "keep b2")]
       \/ Goto(r, "told")
    /\ UNCHANGED <<server, free, lock, session, media, history>>

\* recorded_write_mode.
RecordedMode ==
    CASE recorded = {"gcs", "b2"} -> "dual"
      [] recorded = {"gcs"} -> "gcs"
      [] recorded = {"b2"} -> "b2"
      [] OTHER -> server.mode

\* thumbnail_storage: the policy of the recorded events.
Resolve(r) ==
    /\ At(r, "resolve")
    /\ req' = [req EXCEPT ![r].mode = RecordedMode, ![r].at = "lookup"]
    /\ UNCHANGED <<server, free, lock, session, media, history>>

\* read_verified: both copies of a dual policy are there and agree.
Verified(mode) ==
    /\ Cached(mode) # NoImage
    /\ mode = "dual" => thumb["b2"] = thumb["gcs"]

Claim(r, image) == claims' = claims \cup {[mode |-> req[r].mode, image |-> image]}

\* handle_thumbnail_generate: a cache hit needs no permit.
Hit(r) ==
    /\ At(r, "lookup")
    /\ Verified(req[r].mode)
    /\ Claim(r, Cached(req[r].mode))
    /\ Leave(r)
    /\ UNCHANGED <<server, session, media, hooks, refused>>

\* Nothing is cached, or GCS alone could not tell.
Miss(r) ==
    /\ At(r, "lookup")
    /\ Cached(req[r].mode) = NoImage \/ req[r].mode = "gcs"
    /\ Goto(r, "admit")
    /\ UNCHANGED <<server, free, lock, session, media, history>>

\* The transcoder has been asked for streams of the video.
Transcoded == recorded # {} \/ \E r \in Requests : <<"transcode", r>> \in hooks

\* download_best_available_media_bytes: the original if it can be read, else a
\* stream; extract_thumbnail.
Fetch(r) ==
    /\ At(r, "fetch")
    /\ \E source \in {"original", "stream"} :
          /\ source = "original" => recorded \cap original # {}
                                    \/ First(req[r].mode, "gcs", "b2") \in original
          /\ source = "stream" => Transcoded
          /\ req' = [req EXCEPT ![r].image = source,
                                ![r].at = First(req[r].mode, "keep", "keep b2")]
    /\ UNCHANGED <<server, free, lock, session, media, history>>

Keeping(r) == At(r, "keep") \/ At(r, "keep b2")
Sending(r) == At(r, "send") \/ At(r, "send b2")

\* Mistake: the PUT to GCS has no precondition.
LandedOver(to, image) == [thumb EXCEPT ![to] = image]

\* A PUT of a JPEG lands: GCS takes it where nothing is, in B2 it is the newest
\* version whatever is there.
Landed(to, image) ==
    [thumb EXCEPT ![to] = IF to = "b2" \/ @ = NoImage THEN image ELSE @]

\* put finds nothing at the provider and sends the JPEG.
Send(r) ==
    /\ Keeping(r)
    /\ thumb[Provider(r)] = NoImage
    /\ Goto(r, IF At(r, "keep") THEN "send" ELSE "send b2")
    /\ UNCHANGED <<server, free, lock, session, media, history>>

\* The handler has its JPEG verified at one more provider: it was there, or was
\* sent, or one that is the same is found after an answer that never came.  After
\* the last provider it is told of.
Keep(r) ==
    /\ \/ Keeping(r) /\ UNCHANGED <<thumb, late>>
       \/ Sending(r) /\ thumb' = Landed(Provider(r), req[r].image) /\ UNCHANGED late
       \/ Sending(r) /\ UNCHANGED thumb /\ late' = late \cup Sent(r)
    /\ thumb'[Provider(r)] = req[r].image
    /\ IF Provider(r) = "gcs" /\ req[r].mode = "dual"
       THEN Goto(r, "keep b2") /\ UNCHANGED <<free, lock, claims>>
       ELSE /\ Claim(r, req[r].image)
            /\ IF Kind(r) = "upload" THEN Goto(r, "told") /\ UNCHANGED <<free, lock>>
               ELSE Leave(r)
    /\ UNCHANGED <<server, session, intents, recorded, original, hooks, refused>>

\* It differs from what is there, or its outcome is unresolved: an upload goes on
\* without a thumbnail; the endpoint answers with the JPEG it made in gcs mode and
\* with an error in the others.
NotKept(r) ==
    /\ Keeping(r) \/ Sending(r)
    /\ Abandon(Sent(r))
    /\ IF Kind(r) = "upload" THEN Goto(r, "told") /\ UNCHANGED <<free, lock>>
       ELSE Leave(r)
    /\ UNCHANGED <<server, session, intents, recorded, original, thumb, history>>

-----------------------------------------------------------------------------
\* Any step may fail, and any await may be the last: the client is gone.
Fail(r) ==
    /\ Live(r)
    /\ Abandon(Sent(r))
    /\ Leave(r)
    /\ UNCHANGED <<server, session, intents, recorded, original, thumb, history>>

\* The process exits and is started again.
Restart ==
    /\ \E r \in Requests : Live(r)
    /\ Abandon(UNION {Sent(r) : r \in {q \in Requests : Live(q)}})
    /\ req' = [r \in Requests |-> IF Live(r) THEN Gone ELSE req[r]]
    /\ free' = Slots
    /\ lock' = NoRequest
    /\ UNCHANGED <<server, session, intents, recorded, original, thumb, history>>

\* A PUT that nobody waits for any more arrives after all.
Land(put) ==
    /\ late' = late \ {put}
    /\ IF put.key = "thumb"
       THEN thumb' = Landed(put.to, put.image) /\ UNCHANGED original
       ELSE original' = original \cup {put.to} /\ UNCHANGED thumb
    /\ UNCHANGED <<server, free, lock, session, intents, recorded, req, history>>

Handler(r) ==
    \/ \E kind \in Kinds : Arrive(r, kind)
    \/ Authorize(r) \/ Admit(r) \/ Shed(r)
    \/ Head(r) \/ Buffer(r) \/ Spool(r) \/ FetchSource(r) \/ Proxied(r) \/ Lock(r) \/ Append(r) \/ Load(r)
    \/ Intent(r) \/ Put(r) \/ Save(r) \/ Enqueue(r) \/ Tell(r)
    \/ ThumbnailOfUpload(r) \/ Resolve(r) \/ Hit(r) \/ Miss(r) \/ Fetch(r)
    \/ Send(r) \/ Keep(r) \/ NotKept(r)

Next == (\E r \in Requests : Handler(r) \/ Fail(r)) \/ Restart \/ \E put \in late : Land(put)

Spec == Init /\ [][Next]_vars

-----------------------------------------------------------------------------
(* Properties. *)

\* Every variable has the shape of the row, object or local state it stands for.
TypeOK ==
    /\ server \in Deployments
    /\ free \in [Pools -> Nat]
    /\ lock \in Requests \cup {NoRequest}
    /\ session \in {"open", "filled", "done", "receipted"}
    /\ intents \in [{"user", "nobody"} ->
                      [state : {"unknown", "pending", "completed"}, mode : Modes]]
    /\ recorded \subseteq Providers /\ original \subseteq Providers
    /\ thumb \in [Providers -> Images \cup {NoImage}]
    /\ late \subseteq Abandoned
    /\ req \in [Requests -> {[at |-> "new"], Gone} \cup Handling]
    /\ hooks \subseteq {"transcode", "transcribe", "nsfw"} \X Requests
    /\ refused \subseteq Requests
    /\ claims \subseteq [mode : Modes, image : Images]

\* deployment.md "Mirrors cannot occupy thumbnail or upload admission": a request
\* is refused for want of a permit only while live requests of its own pool hold
\* every permit, however earlier ones have ended.
RefusedOnlyWhenFull ==
    [][\A r \in refused' \ refused :
          Cardinality(Holders(Pool(r))) = Slots[Pool(r)]]_vars

\* spawn_nsfw_scan, "one evidence-only NSFW scan": uploads and completions of one
\* video, concurrent or repeated, cut off or answered, ask for at most one scan,
\* and for nothing where an outbox schedules the processing.
ScannedOnce ==
    /\ Cardinality({h \in hooks : h[1] = "nsfw"}) <= 1
    /\ server.outbox => hooks = {}

\* The rollout plan: "If a response claims a thumbnail already exists, both
\* required copies must also be verified".  Whichever handlers made, repaired or
\* half wrote it before, and whatever PUT of another JPEG lands later: every copy
\* of the policy is there, and is the thumbnail told of wherever GCS holds one.
\* B2 alone promises less: there a PUT that was given up may land on top of the
\* JPEG told of and show another one of the same video.
ClaimedThumbnailIsWhole ==
    \A c \in claims : \A p \in Places(c.mode) :
        /\ thumb[p] # NoImage
        /\ server.mode # "b2" => thumb[p] = c.image
=============================================================================
