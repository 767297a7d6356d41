------------------------ MODULE MediaRequestsProofs ------------------------
(***************************************************************************)
(* Proofs about MediaRequests for any finite set of requests, any number of *)
(* permits and any deployments.                                            *)
(*                                                                         *)
(* A step of a handler makes the request arrive, takes a permit, goes on    *)
(* with what it holds, or leaves (Handled): from this the permits that are  *)
(* left and those that are held add up to the size of each pool.  What a    *)
(* handler can be at in which mode (Fit) and who may have found the video   *)
(* missing (Scanned) carry the scans.  That GCS is written first wherever   *)
(* it is written at all (GcsLeads), and that all that was ever sent to B2   *)
(* is then the JPEG which GCS has (Whole), carry the thumbnails told of.    *)
(***************************************************************************)
EXTENDS MediaRequests, FiniteSetTheorems, TLAPS

\* What a live handler can be at: the provider it writes to is one of its mode,
\* and only an outbox has intents and events.
Fit(r) ==
    /\ req[r] \in {[at |-> "new"], Gone} \cup Handling
    /\ Live(r) =>
        /\ req[r] \in Handling
        /\ req[r].at \in {"put", "keep", "send"} => req[r].mode # "b2"
        /\ req[r].at \in {"put b2", "keep b2", "send b2"} => req[r].mode # "gcs"
        /\ ~server.outbox => /\ req[r].mode = "gcs"
                             /\ ~At(r, "intent") /\ ~At(r, "enqueue")
        /\ Keeping(r) \/ Sending(r) => req[r].image # NoImage
        /\ req[r].at \in {"admit", "auth", "resolve", "lookup", "load"} => ~req[r].permit
        /\ At(r, "lock") /\ Kind(r) # "chunk" => ~req[r].permit

Typed ==
    /\ server \in Deployments
    /\ server.mode \in Modes /\ server.outbox \in BOOLEAN
    /\ ~server.outbox => server.mode = "gcs" /\ recorded = {}
    /\ DOMAIN req = Requests /\ req = [r \in Requests |-> req[r]]
    /\ intents \in [{"user", "nobody"} -> [state : {"unknown", "pending", "completed"}, mode : Modes]]
    /\ recorded \subseteq Providers /\ original \subseteq Providers
    /\ thumb \in [Providers -> Images \cup {NoImage}]
    /\ late \subseteq Abandoned
    /\ claims \subseteq [mode : Modes, image : Images]
    /\ lock \in Requests \cup {NoRequest}
    /\ session \in {"open", "filled", "done", "receipted"}
    /\ refused \subseteq Requests
    /\ \A r \in Requests : Fit(r)

\* What a step does to the request that takes it and to its permit.
Arrives(r) == ~Live(r) /\ Live(r)' /\ ~req'[r].permit /\ free' = free
Advances(r) == /\ Live(r) /\ Live(r)' /\ req'[r].permit = req[r].permit
               /\ req'[r].kind = req[r].kind /\ free' = free
Takes(r) == /\ Live(r) /\ Live(r)' /\ ~req[r].permit /\ req'[r].permit
            /\ req'[r].kind = req[r].kind
            /\ free[Pool(r)] > 0 /\ free' = [free EXCEPT ![Pool(r)] = @ - 1]

\* A step of one request's handler: what it makes of it fits again.
Handled(r) ==
    /\ Arrives(r) \/ Advances(r) \/ Takes(r) \/ (Live(r) /\ Leave(r))
    /\ Fit(r)'
    /\ DOMAIN req' = Requests /\ req' = [q \in Requests |-> req'[q]]
    /\ \A q \in Requests \ {r} : req'[q] = req[q]

-----------------------------------------------------------------------------
(* Types and control. *)

\* A handler that goes on changes its place only.
LEMMA GotoFacts ==
    ASSUME Typed, NEW r \in Requests, Live(r), NEW step \in Steps, Goto(r, step)
    PROVE  /\ Live(r)' /\ req'[r] \in Handling /\ req'[r].at = step
           /\ req'[r].kind = req[r].kind /\ req'[r].permit = req[r].permit
           /\ req'[r].mode = req[r].mode /\ req'[r].new = req[r].new
           /\ req'[r].image = req[r].image
           /\ req' = [q \in Requests |-> req'[q]] /\ DOMAIN req' = Requests
           /\ \A q \in Requests \ {r} : req'[q] = req[q]
<1>1. req[r] \in Handling
  BY DEF Typed, Fit
<1>2. req' = [req EXCEPT ![r] = [req[r] EXCEPT !.at = step]] /\ DOMAIN req = Requests
  BY DEF Goto, Typed
<1>3. step \notin {"new", "gone"}
  BY DEF Steps
<1>. QED BY <1>1, <1>2, <1>3 DEF Handling, Live

\* A handler that leaves takes nothing along.
LEMMA LeaveFacts ==
    ASSUME Typed, NEW r \in Requests, Leave(r)
    PROVE  /\ ~Live(r)' /\ req' = [q \in Requests |-> req'[q]] /\ DOMAIN req' = Requests
           /\ \A q \in Requests \ {r} : req'[q] = req[q]
           /\ req'[r] = Gone
BY DEF Leave, Live, Gone, Typed

\* A handler that leaves is handled.
LEMMA LeaveHandled ==
    ASSUME Typed, NEW r \in Requests, Live(r), Leave(r)
    PROVE  Handled(r)
BY LeaveFacts DEF Handled, Fit

\* So is one that goes on to a step that fits.
LEMMA GotoHandled ==
    ASSUME Typed, NEW r \in Requests, Live(r), NEW step \in Steps, Goto(r, step),
           UNCHANGED <<server, free>>,
           step \notin {"put", "put b2", "keep", "keep b2", "send", "send b2", "admit", "auth", "resolve",
                        "lookup", "load", "lock"},
           step \in {"intent", "enqueue"} => server.outbox
    PROVE  Handled(r)
<1>1. /\ Live(r)' /\ req'[r] \in Handling /\ req'[r].at = step
      /\ req'[r].kind = req[r].kind /\ req'[r].permit = req[r].permit
      /\ req'[r].mode = req[r].mode /\ req'[r].image = req[r].image
      /\ req' = [q \in Requests |-> req'[q]] /\ DOMAIN req' = Requests
      /\ \A q \in Requests \ {r} : req'[q] = req[q]
  BY GotoFacts
<1>2. Fit(r)'
  BY <1>1 DEF Typed, Fit, At, Keeping, Sending
<1>. QED BY <1>1, <1>2 DEF Handled, Advances

\* And one that waits for a permit or looks further, which holds none.
LEMMA GotoWithoutPermit ==
    ASSUME Typed, NEW r \in Requests, Live(r), NEW step \in {"admit", "load", "lookup"},
           Goto(r, step), UNCHANGED <<server, free>>, ~req[r].permit
    PROVE  Handled(r)
<1>0. step \in Steps
  BY DEF Steps
<1>1. /\ Live(r)' /\ req'[r] \in Handling /\ req'[r].at = step
      /\ req'[r].kind = req[r].kind /\ req'[r].permit = req[r].permit
      /\ req'[r].mode = req[r].mode /\ req'[r].image = req[r].image
      /\ req' = [q \in Requests |-> req'[q]] /\ DOMAIN req' = Requests
      /\ \A q \in Requests \ {r} : req'[q] = req[q]
  BY <1>0, GotoFacts
<1>2. Fit(r)'
  BY <1>1 DEF Typed, Fit, At, Keeping, Sending
<1>. QED BY <1>1, <1>2 DEF Handled, Advances

\* Without an outbox a body is put to GCS at once.
LEMMA PutHandled ==
    ASSUME Typed, NEW r \in Requests, Live(r), Goto(r, "put"),
           UNCHANGED <<server, free>>, ~server.outbox
    PROVE  Handled(r)
<1>1. /\ Live(r)' /\ req'[r] \in Handling /\ req'[r].at = "put"
      /\ req'[r].kind = req[r].kind /\ req'[r].permit = req[r].permit
      /\ req'[r].mode = req[r].mode
      /\ req' = [q \in Requests |-> req'[q]] /\ DOMAIN req' = Requests
      /\ \A q \in Requests \ {r} : req'[q] = req[q]
  BY GotoFacts DEF Steps
<1>2. Fit(r)'
  BY <1>1 DEF Typed, Fit, At, Keeping, Sending
<1>. QED BY <1>1, <1>2 DEF Handled, Advances

\* What an arriving request is.
LEMMA ArriveFacts ==
    ASSUME Typed, NEW r \in Requests, NEW kind \in Kinds, Arrive(r, kind)
    PROVE  /\ req'[r] = [at |-> Entry(kind), kind |-> kind, permit |-> FALSE,
                         mode |-> server.mode, new |-> FALSE, image |-> NoImage]
           /\ req'[r].at = Entry(kind) /\ req'[r].kind = kind /\ req'[r].permit = FALSE
           /\ req'[r].mode = server.mode /\ req'[r].new = FALSE
           /\ DOMAIN req' = Requests /\ req' = [q \in Requests |-> req'[q]]
           /\ \A q \in Requests \ {r} : req'[q] = req[q]
<1>1. /\ req'[r] = [at |-> Entry(kind), kind |-> kind, permit |-> FALSE,
                    mode |-> server.mode, new |-> FALSE, image |-> NoImage]
      /\ DOMAIN req' = Requests /\ req' = [q \in Requests |-> req'[q]]
      /\ \A q \in Requests \ {r} : req'[q] = req[q]
  BY DEF Arrive, Typed
<1>. QED BY <1>1

\* Where an arriving request starts it holds nothing.
LEMMA ArriveHandled ==
    ASSUME Typed, NEW r \in Requests, NEW kind \in Kinds, Arrive(r, kind)
    PROVE  Handled(r)
<1>1. /\ Entry(kind) \in {"admit", "auth", "lock", "resolve"}
      /\ Entry(kind) = "lock" => kind = "complete"
  BY DEF Entry, Kinds
<1>3. /\ req'[r] = [at |-> Entry(kind), kind |-> kind, permit |-> FALSE,
                    mode |-> server.mode, new |-> FALSE, image |-> NoImage]
      /\ DOMAIN req' = Requests /\ req' = [q \in Requests |-> req'[q]]
      /\ \A q \in Requests \ {r} : req'[q] = req[q]
  BY ArriveFacts
<1>4. /\ req'[r].at = Entry(kind) /\ req'[r].kind = kind /\ req'[r].permit = FALSE
      /\ req'[r].mode = server.mode
  BY ArriveFacts
<1>5. Live(r)' /\ ~Live(r) /\ UNCHANGED <<server, free>>
  <2>1. req'[r].at \notin {"new", "gone"}
    BY <1>1, <1>4
  <2>. QED BY <2>1 DEF Live, Arrive, At
<1>6. req'[r] \in Handling
  <2>1. Entry(kind) \in Steps
    BY <1>1 DEF Steps
  <2>2. server.mode \in Modes
    BY DEF Typed
  <2>. QED BY <1>3, <2>1, <2>2 DEF Handling
<1>7. Fit(r)'
  BY <1>1, <1>4, <1>5, <1>6 DEF Fit, At, Kind, Keeping, Sending, Typed
<1>. QED BY <1>3, <1>4, <1>5, <1>7 DEF Handled, Arrives

\* A permit leads to the handler's first step behind it.
LEMMA AdmitHandled ==
    ASSUME Typed, NEW r \in Requests, Admit(r)
    PROVE  Handled(r)
<1>1. Live(r) /\ req[r] \in Handling /\ ~req[r].permit /\ Kind(r) \in Kinds
  BY DEF Admit, At, Live, Typed, Fit, Handling, Kind
<1>2. /\ WithPermit(Kind(r)) \in {"head", "intent", "put", "fetch", "body"}
      /\ WithPermit(Kind(r)) = "intent" => server.outbox
      /\ WithPermit(Kind(r)) = "put" => ~server.outbox
  BY <1>1 DEF WithPermit, Kinds, Typed
<1>3. req'[r] = [req[r] EXCEPT !.permit = TRUE, !.at = WithPermit(Kind(r))]
  BY DEF Admit, Typed
<1>4. /\ req'[r] \in Handling /\ req'[r].at = WithPermit(Kind(r)) /\ req'[r].permit
      /\ req'[r].kind = req[r].kind /\ req'[r].mode = req[r].mode
  BY <1>1, <1>2, <1>3 DEF Handling, Steps
<1>5. Live(r)'
  BY <1>2, <1>4 DEF Live
<1>6. Fit(r)'
  BY <1>1, <1>2, <1>4, <1>5 DEF Fit, At, Keeping, Sending, Admit, Typed
<1>7. /\ DOMAIN req' = Requests /\ req' = [q \in Requests |-> req'[q]]
      /\ \A q \in Requests \ {r} : req'[q] = req[q]
  BY DEF Admit, Typed
<1>. QED BY <1>1, <1>4, <1>5, <1>6, <1>7 DEF Handled, Takes, Admit

\* The steps of the session and of bodies.
LEMMA BodyHandled ==
    ASSUME Typed, NEW r \in Requests,
           \/ Authorize(r) \/ Shed(r) \/ Head(r) \/ Buffer(r) \/ Spool(r) \/ FetchSource(r)
           \/ Proxied(r) \/ Lock(r) \/ Append(r) \/ Load(r)
    PROVE  Handled(r)
<1>0. Live(r) /\ req[r] \in Handling
  BY DEF Authorize, Shed, Head, Buffer, Spool, FetchSource, Proxied, Lock, Append, Load,
         Typed, Fit, At, Live
<1>1. CASE Shed(r) \/ Proxied(r) \/ Append(r)
  BY <1>0, <1>1, LeaveHandled DEF Shed, Proxied, Append
<1>2. CASE Authorize(r)
  BY <1>0, <1>2, GotoWithoutPermit DEF Authorize, Typed, Fit, At
<1>3. CASE Head(r)
  BY <1>0, <1>3, GotoHandled DEF Head, Steps
<1>4. CASE Buffer(r)
  <2>1. CASE Kind(r) = "chunk"
    <3>1. Goto(r, "lock") /\ "lock" \in Steps /\ UNCHANGED <<server, free>>
      BY <1>4, <2>1 DEF Buffer, Steps
    <3>2. /\ Live(r)' /\ req'[r] \in Handling /\ req'[r].at = "lock"
          /\ req'[r].kind = req[r].kind /\ req'[r].permit = req[r].permit
          /\ req'[r].mode = req[r].mode
          /\ req' = [q \in Requests |-> req'[q]] /\ DOMAIN req' = Requests
          /\ \A q \in Requests \ {r} : req'[q] = req[q]
      BY <1>0, <3>1, GotoFacts
    <3>3. Fit(r)'
      BY <1>0, <2>1, <3>1, <3>2 DEF Typed, Fit, At, Keeping, Sending, Kind
    <3>. QED BY <1>0, <3>1, <3>2, <3>3 DEF Handled, Advances
  <2>2. CASE Kind(r) # "chunk"
    BY <1>0, <1>4, <2>2, GotoHandled DEF Buffer, Steps
  <2>. QED BY <2>1, <2>2
<1>5. CASE Spool(r) \/ FetchSource(r)
  <2>1. Goto(r, Spooled) /\ UNCHANGED <<server, free>>
    BY <1>5 DEF Spool, FetchSource
  <2>2. CASE server.outbox
    BY <1>0, <2>1, <2>2, GotoHandled DEF Spooled, Steps
  <2>3. CASE ~server.outbox
    BY <1>0, <2>1, <2>3, PutHandled DEF Spooled
  <2>. QED BY <2>2, <2>3
<1>6. CASE Lock(r)
  <2>1. CASE Kind(r) = "chunk"
    BY <1>0, <1>6, <2>1, GotoHandled DEF Lock, Steps
  <2>2. CASE Kind(r) # "chunk"
    BY <1>0, <1>6, <2>2, GotoWithoutPermit DEF Lock, Typed, Fit, At
  <2>. QED BY <2>1, <2>2
<1>7. CASE Load(r)
  <2>1. ~req[r].permit
    BY <1>0, <1>7 DEF Load, Typed, Fit, At
  <2>2. CASE Leave(r)
    BY <1>0, <2>2, LeaveHandled
  <2>3. CASE Goto(r, "admit") /\ UNCHANGED <<server, free>>
    BY <1>0, <2>1, <2>3, GotoWithoutPermit
  <2>4. CASE Goto(r, "enqueue") /\ server.outbox /\ UNCHANGED <<server, free>>
    BY <1>0, <2>4, GotoHandled DEF Steps
  <2>. QED BY <1>7, <2>2, <2>3, <2>4 DEF Load
<1>. QED BY <1>1, <1>2, <1>3, <1>4, <1>5, <1>6, <1>7

\* A handler that goes on in any other way fits if its new state does.
LEMMA ChangeHandled ==
    ASSUME Typed, NEW r \in Requests, Live(r), NEW x \in Handling,
           req' = [req EXCEPT ![r] = x], UNCHANGED <<server, free>>,
           x.kind = req[r].kind, x.permit = req[r].permit,
           x.at \in {"put", "keep", "send"} => x.mode # "b2",
           x.at \in {"put b2", "keep b2", "send b2"} => x.mode # "gcs",
           ~server.outbox => x.mode = "gcs" /\ x.at \notin {"intent", "enqueue"},
           x.at \in {"keep", "keep b2", "send", "send b2"} => x.image # NoImage,
           x.at \in {"admit", "auth", "resolve", "lookup", "load", "lock"} => ~x.permit
    PROVE  Handled(r)
<1>1. /\ req'[r] = x /\ DOMAIN req' = Requests /\ req' = [q \in Requests |-> req'[q]]
      /\ \A q \in Requests \ {r} : req'[q] = req[q]
  BY DEF Typed
<1>2. Live(r)'
  BY <1>1 DEF Handling, Steps, Live
<1>3. Fit(r)'
  BY <1>1, <1>2 DEF Fit, At, Keeping, Sending
<1>. QED BY <1>1, <1>2, <1>3 DEF Handled, Advances

\* The steps that write the original, its session and its event.
LEMMA WriteHandled ==
    ASSUME Typed, NEW r \in Requests,
           \/ Intent(r) \/ Put(r) \/ Save(r) \/ Enqueue(r) \/ Tell(r)
    PROVE  Handled(r)
<1>0. Live(r) /\ req[r] \in Handling
  BY DEF Intent, Put, Save, Enqueue, Tell, Typed, Fit, At, Live
<1>1. CASE Tell(r)
  BY <1>0, <1>1, LeaveHandled DEF Tell
<1>2. CASE Save(r)
  BY <1>0, <1>2, GotoHandled DEF Save, Steps
<1>3. CASE Enqueue(r)
  BY <1>0, <1>3, GotoHandled DEF Enqueue, Steps
<1>4. CASE Intent(r)
  <2> DEFINE i == Upserted(intents[Owner(r)])
             x == [req[r] EXCEPT !.mode = i.mode, !.at = First(i.mode, "put", "put b2")]
  <2>1. i.mode \in Modes
    BY DEF Typed, Upserted, Owner
  <2>2. CASE Leave(r)
    BY <1>0, <2>2, LeaveHandled
  <2>3. CASE req' = [req EXCEPT ![r].mode = i.mode, ![r].at = First(i.mode, "put", "put b2")]
             /\ UNCHANGED <<server, free>>
    <3>1. req' = [req EXCEPT ![r] = x]
      BY <1>0, <2>3 DEF Typed
    <3>2. /\ First(i.mode, "put", "put b2") \in {"put", "put b2"}
          /\ First(i.mode, "put", "put b2") = "put" => i.mode # "b2"
          /\ First(i.mode, "put", "put b2") = "put b2" => i.mode # "gcs"
      BY DEF First
    <3>3. x \in Handling /\ x.mode = i.mode /\ x.at = First(i.mode, "put", "put b2")
          /\ x.kind = req[r].kind /\ x.permit = req[r].permit
      BY <1>0, <2>1, <3>2 DEF Handling, Steps
    <3>4. server.outbox
      BY <1>0, <1>4 DEF Intent, Typed, Fit
    <3> HIDE DEF x
    <3>. QED BY <1>0, <2>3, <3>1, <3>2, <3>3, <3>4, ChangeHandled
  <2>. QED BY <1>4, <2>2, <2>3 DEF Intent
<1>5. CASE Put(r)
  <2>1. PICK new \in BOOLEAN :
          req' = [req EXCEPT ![r].new = @ \/ new,
                    ![r].at = IF At(r, "put") /\ req[r].mode = "dual"
                              THEN "put b2" ELSE AfterPut(r)]
    BY <1>5 DEF Put
  <2> DEFINE next == IF At(r, "put") /\ req[r].mode = "dual" THEN "put b2" ELSE AfterPut(r)
             x == [req[r] EXCEPT !.new = @ \/ new, !.at = next]
  <2>2. /\ next \in {"put b2", "save", "enqueue", "thumb", "told"}
        /\ next = "put b2" => req[r].mode = "dual"
        /\ next = "enqueue" => server.outbox
    BY DEF AfterPut
  <2>3. req' = [req EXCEPT ![r] = x]
    BY <1>0, <2>1 DEF Typed
  <2> HIDE DEF next
  <2>4. x \in Handling /\ x.at = next /\ x.mode = req[r].mode /\ x.image = req[r].image
        /\ x.kind = req[r].kind /\ x.permit = req[r].permit
    BY <1>0, <2>2 DEF Handling, Steps
  <2> HIDE DEF x
  <2>5. ~server.outbox => req[r].mode = "gcs"
    BY <1>0 DEF Typed, Fit
  <2>. QED BY <1>0, <1>5, <2>2, <2>3, <2>4, <2>5, ChangeHandled DEF Put
<1>. QED BY <1>1, <1>2, <1>3, <1>4, <1>5

\* The steps of thumbnails.
LEMMA ThumbnailHandled ==
    ASSUME Typed, NEW r \in Requests,
           \/ ThumbnailOfUpload(r) \/ Resolve(r) \/ Hit(r) \/ Miss(r) \/ Fetch(r)
           \/ Send(r) \/ Keep(r) \/ NotKept(r)
    PROVE  Handled(r)
<1>0. Live(r) /\ req[r] \in Handling
  BY DEF ThumbnailOfUpload, Resolve, Hit, Miss, Fetch, Send, Keep, NotKept, Keeping,
         Sending, Typed, Fit, At, Live
<1>1. ~server.outbox => req[r].mode = "gcs"
  BY <1>0 DEF Typed, Fit
<1>2. ASSUME NEW image \in Images,
             req' = [req EXCEPT ![r].image = image,
                                ![r].at = First(req[r].mode, "keep", "keep b2")],
             UNCHANGED <<server, free>>
      PROVE  Handled(r)
  <2> DEFINE step == First(req[r].mode, "keep", "keep b2")
             x == [req[r] EXCEPT !.image = image, !.at = step]
  <2>1. /\ step \in {"keep", "keep b2"}
        /\ step = "keep" => req[r].mode # "b2"
        /\ step = "keep b2" => req[r].mode # "gcs"
    BY <1>0 DEF First, Handling, Modes
  <2>2. req' = [req EXCEPT ![r] = x]
    BY <1>0, <1>2 DEF Typed
  <2> HIDE DEF step
  <2>3. x \in Handling /\ x.at = step /\ x.mode = req[r].mode /\ x.image = image
        /\ x.kind = req[r].kind /\ x.permit = req[r].permit
    BY <1>0, <2>1 DEF Handling, Steps
  <2> HIDE DEF x
  <2>4. image # NoImage
    BY DEF Images, NoImage
  <2>. QED BY <1>0, <1>1, <1>2, <2>1, <2>2, <2>3, <2>4, ChangeHandled
<1>3. CASE ThumbnailOfUpload(r)
  <2>1. CASE Goto(r, "told")
    BY <1>0, <1>3, <2>1, GotoHandled DEF ThumbnailOfUpload, Steps
  <2>2. ASSUME NEW image \in IF Cached(req[r].mode) # NoImage THEN {Cached(req[r].mode)}
                             ELSE {"remuxed", "original"},
               req' = [req EXCEPT ![r].image = image,
                                  ![r].at = First(req[r].mode, "keep", "keep b2")]
        PROVE  Handled(r)
    <3>1. Cached(req[r].mode) \in Images \cup {NoImage}
      BY DEF Cached, First, Typed, Providers
    <3>2. image \in Images
      BY <2>2, <3>1 DEF Images
    <3>. QED BY <1>2, <1>3, <2>2, <3>2 DEF ThumbnailOfUpload
  <2>. QED BY <1>3, <2>1, <2>2 DEF ThumbnailOfUpload
<1>4. CASE Resolve(r)
  <2> DEFINE x == [req[r] EXCEPT !.mode = RecordedMode, !.at = "lookup"]
  <2>1. RecordedMode \in Modes /\ (~server.outbox => RecordedMode = "gcs")
    BY DEF RecordedMode, Typed, Modes
  <2>2. req' = [req EXCEPT ![r] = x]
    BY <1>0, <1>4 DEF Resolve, Typed
  <2>3. x \in Handling /\ x.at = "lookup" /\ x.mode = RecordedMode
        /\ x.kind = req[r].kind /\ x.permit = req[r].permit
    BY <1>0, <2>1 DEF Handling, Steps
  <2>4. ~req[r].permit
    BY <1>0, <1>4 DEF Resolve, Typed, Fit, At
  <2> HIDE DEF x
  <2>. QED BY <1>0, <1>4, <2>1, <2>2, <2>3, <2>4, ChangeHandled DEF Resolve
<1>5. CASE Hit(r)
  BY <1>0, <1>5, LeaveHandled DEF Hit
<1>6. CASE Miss(r)
  BY <1>0, <1>6, GotoWithoutPermit DEF Miss, Typed, Fit, At
<1>7. CASE Fetch(r)
  BY <1>2, <1>7 DEF Fetch, Images
<1>8. CASE Goto(r, "told") /\ UNCHANGED <<server, free>>
  BY <1>0, <1>8, GotoHandled DEF Steps
<1>9. ASSUME NEW step \in {"keep b2", "send", "send b2"}, Goto(r, step), UNCHANGED <<server, free>>,
             Keeping(r) \/ Sending(r), step = "send" => req[r].mode # "b2",
             step # "send" => req[r].mode # "gcs"
      PROVE  Handled(r)
  <2> DEFINE x == [req[r] EXCEPT !.at = step]
  <2>1. req' = [req EXCEPT ![r] = x]
    BY <1>0, <1>9 DEF Goto, Typed
  <2>2. x \in Handling /\ x.at = step /\ x.mode = req[r].mode
        /\ x.kind = req[r].kind /\ x.permit = req[r].permit /\ x.image = req[r].image
    BY <1>0, <1>9 DEF Handling, Steps
  <2>3. x.image # NoImage
    BY <1>0, <1>9, <2>2 DEF Typed, Fit
  <2> HIDE DEF x
  <2>. QED BY <1>0, <1>1, <1>9, <2>1, <2>2, <2>3, ChangeHandled
<1>10. CASE Send(r)
  <2>1. CASE At(r, "keep")
    <3>1. Goto(r, "send") /\ UNCHANGED <<server, free>> /\ Keeping(r) /\ req[r].mode # "b2"
      BY <1>0, <1>10, <2>1 DEF Send, Typed, Fit, At
    <3>. QED BY <3>1, <1>9
  <2>2. CASE ~At(r, "keep")
    <3>1. /\ Goto(r, "send b2") /\ UNCHANGED <<server, free>> /\ Keeping(r)
          /\ req[r].mode # "gcs"
      BY <1>0, <1>10, <2>2 DEF Send, Keeping, Typed, Fit, At
    <3>. QED BY <3>1, <1>9
  <2>. QED BY <2>1, <2>2
<1>11. CASE Keep(r) \/ NotKept(r)
  <2>1. CASE Leave(r)
    BY <1>0, <2>1, LeaveHandled
  <2>2. CASE Goto(r, "keep b2") /\ req[r].mode = "dual" /\ UNCHANGED free
    BY <1>9, <1>11, <2>2 DEF Keep, NotKept
  <2>. QED BY <1>8, <1>11, <2>1, <2>2 DEF Keep, NotKept
<1>. QED BY <1>3, <1>4, <1>5, <1>6, <1>7, <1>10, <1>11

\* So every step of a handler is one of these.
LEMMA HandlerHandled ==
    ASSUME Typed, NEW r \in Requests, Handler(r) \/ Fail(r)
    PROVE  Handled(r) /\ server' = server
<1>1. CASE Fail(r)
  BY <1>1, LeaveHandled DEF Fail
<1>2. CASE \E kind \in Kinds : Arrive(r, kind)
  BY <1>2, ArriveHandled DEF Arrive
<1>3. CASE Admit(r)
  BY <1>3, AdmitHandled DEF Admit
<1>4. CASE \/ Authorize(r) \/ Shed(r) \/ Head(r) \/ Buffer(r) \/ Spool(r) \/ FetchSource(r)
           \/ Proxied(r) \/ Lock(r) \/ Append(r) \/ Load(r)
  BY <1>4, BodyHandled DEF Authorize, Shed, Head, Buffer, Spool, FetchSource, Proxied,
                           Lock, Append, Load
<1>5. CASE \/ Intent(r) \/ Put(r) \/ Save(r) \/ Enqueue(r) \/ Tell(r)
  BY <1>5, WriteHandled DEF Intent, Put, Save, Enqueue, Tell
<1>6. CASE \/ ThumbnailOfUpload(r) \/ Resolve(r) \/ Hit(r) \/ Miss(r) \/ Fetch(r)
           \/ Send(r) \/ Keep(r) \/ NotKept(r)
  BY <1>6, ThumbnailHandled DEF ThumbnailOfUpload, Resolve, Hit, Miss, Fetch, Send, Keep, NotKept
<1>. QED BY <1>1, <1>2, <1>3, <1>4, <1>5, <1>6 DEF Handler

\* After a restart nobody is live.
LEMMA RestartFacts ==
    ASSUME Typed, Restart
    PROVE  /\ \A r \in Requests : ~Live(r)'
           /\ req' = [r \in Requests |-> req'[r]] /\ DOMAIN req' = Requests
           /\ server' = server
BY DEF Restart, Live, Gone

\* What a handler has sent is a PUT, and only such are abandoned.
LEMMA SentTyped ==
    ASSUME Typed, NEW r \in Requests
    PROVE  Sent(r) \subseteq Abandoned /\ (Sent(r) # {} => Live(r))
<1>1. CASE ~Live(r)
  <2>1. req[r].at \in {"new", "gone"}
    BY <1>1 DEF Live
  <2>2. Sent(r) = {}
    BY <2>1 DEF Sent
  <2>. QED BY <2>2
<1>2. CASE Live(r)
  <2>1. req[r] \in Handling /\ Provider(r) \in Providers
    BY <1>2 DEF Typed, Fit, Provider, Providers
  <2>2. CASE req[r].at \in {"put", "put b2"}
    <3>1. Sent(r) \subseteq {[by |-> r, to |-> Provider(r), key |-> "video", image |-> NoImage]}
      BY <2>2 DEF Sent
    <3>. QED BY <1>2, <2>1, <3>1 DEF Abandoned
  <2>3. CASE req[r].at \in {"send", "send b2"}
    <3>1. Sent(r) = {[by |-> r, to |-> Provider(r), key |-> "thumb", image |-> req[r].image]}
      BY <2>3 DEF Sent
    <3>. QED BY <1>2, <2>1, <3>1 DEF Abandoned, Handling
  <2>4. CASE req[r].at \notin {"put", "put b2", "send", "send b2"}
    <3>1. Sent(r) = {}
      BY <2>4 DEF Sent
    <3>. QED BY <3>1
  <2>. QED BY <2>2, <2>3, <2>4
<1>. QED BY <1>1, <1>2

\* A handler leaves behind nothing but what it has sent.
LEMMA LateIsSent ==
    ASSUME NEW r \in Requests, Handler(r) \/ Fail(r)
    PROVE  late' \subseteq late \cup Sent(r)
<1>1. CASE Keep(r)
  BY <1>1 DEF Keep
<1>2. CASE NotKept(r) \/ Fail(r)
  BY <1>2 DEF NotKept, Fail, Abandon
<1>3. CASE ~(Keep(r) \/ NotKept(r) \/ Fail(r))
  BY <1>3 DEF Handler, Arrive, Authorize, Admit, Shed, Head, Buffer, Spool,
         FetchSource, Proxied, Lock, Append, Load, Intent, Put, Save, Enqueue, Tell,
         ThumbnailOfUpload, Resolve, Hit, Miss, Fetch, Send, media
<1>. QED BY <1>1, <1>2, <1>3

\* A landing PUT is stored under its key at its provider.
LEMMA LandFacts ==
    ASSUME Typed, NEW put \in late, Land(put)
    PROVE  /\ UNCHANGED <<server, free, lock, session, intents, recorded, req>>
           /\ UNCHANGED <<hooks, refused, claims>>
           /\ late' \subseteq late /\ original \subseteq original'
           /\ original' \subseteq Providers /\ thumb' \in [Providers -> Images \cup {NoImage}]
<1>1. put \in Abandoned
  BY DEF Typed
<1>2. put.to \in Providers /\ put.image \in Images \cup {NoImage}
  BY <1>1 DEF Abandoned
<1>. QED BY <1>2 DEF Land, Landed, history, Typed

\* The first state is typed.
LEMMA TypedInit == Init => Typed
<1> SUFFICES ASSUME Init PROVE Typed
  OBVIOUS
<1>1. server \in Deployments /\ server.mode \in Modes /\ server.outbox \in BOOLEAN
      /\ (~server.outbox => server.mode = "gcs")
  BY RequestConstants DEF Init, Modes
<1>2. req = [r \in Requests |-> req[r]] /\ DOMAIN req = Requests
      /\ \A r \in Requests : ~Live(r)
  BY DEF Init, Live
<1>3. intents \in [{"user", "nobody"} -> [state : {"unknown", "pending", "completed"}, mode : Modes]]
  BY DEF Init, Unknown, Modes
<1>4. \A r \in Requests : req[r] = [at |-> "new"]
  BY DEF Init
<1>. QED BY <1>1, <1>2, <1>3, <1>4, RequestConstants DEF Init, Typed, Fit

\* Every step keeps the types.
LEMMA TypedStep == Typed /\ [Next]_vars => Typed'
<1> SUFFICES ASSUME Typed, [Next]_vars PROVE Typed'
  OBVIOUS
<1>1. CASE UNCHANGED vars
  <2>1. ASSUME NEW r \in Requests PROVE Fit(r)'
    BY <1>1 DEF vars, media, history, Typed, Fit, Live, At, Keeping, Sending, Kind
  <2>. QED BY <1>1, <2>1 DEF vars, media, history, Typed
<1>2. CASE Restart
  <2>1. ASSUME NEW r \in Requests PROVE Fit(r)'
    <3>1. req'[r] \in {[at |-> "new"], Gone}
      <4>1. req'[r] = IF Live(r) THEN Gone ELSE req[r]
        BY <1>2 DEF Restart
      <4>2. ~Live(r) => req[r] \notin Handling
        BY DEF Live, Handling, Steps
      <4>. QED BY <4>1, <4>2 DEF Typed, Fit
    <3>. QED BY <1>2, <3>1, RestartFacts DEF Fit
  <2>2. late' \subseteq Abandoned
    BY <1>2, SentTyped DEF Restart, Abandon, Typed
  <2>. QED BY <1>2, <2>1, <2>2, RestartFacts DEF Restart, history, Typed
<1>4. ASSUME NEW put \in late, Land(put) PROVE Typed'
  <2>1. ASSUME NEW r \in Requests PROVE Fit(r)'
    BY <1>4, LandFacts DEF Typed, Fit, Live, At, Keeping, Sending, Kind
  <2>. QED BY <1>4, <2>1, LandFacts DEF Typed
<1>3. ASSUME NEW r \in Requests, Handler(r) \/ Fail(r) PROVE Typed'
  <2>1. Handled(r) /\ server' = server
    BY <1>3, HandlerHandled
  <2>2. ASSUME NEW q \in Requests PROVE Fit(q)'
    <3>1. CASE q = r
      BY <2>1, <3>1 DEF Handled
    <3>2. CASE q # r
      <4>1. req'[q] = req[q] /\ server' = server /\ Fit(q)
        BY <2>1, <3>2 DEF Handled, Typed
      <4>. QED BY <4>1 DEF Fit, Live, At, Keeping, Sending, Kind
    <3>. QED BY <3>1, <3>2
  <2>3. ~server.outbox => recorded' = recorded
    <3>1. CASE Enqueue(r)
      BY <3>1 DEF Enqueue, Typed, Fit, Live, At
    <3>. QED BY <1>3, <3>1 DEF Handler, Arrive, Authorize, Admit, Shed, Head, Buffer, Spool,
           FetchSource, Proxied, Lock, Append, Load, Intent, Put, Save, Tell,
           ThumbnailOfUpload, Resolve, Hit, Miss, Fetch, Send, Keep, NotKept, Fail, media, history
  <2>4. /\ intents' \in [{"user", "nobody"} -> [state : {"unknown", "pending", "completed"}, mode : Modes]]
        /\ recorded' \subseteq Providers /\ original' \subseteq Providers
        /\ thumb' \in [Providers -> Images \cup {NoImage}]
        /\ session' \in {"open", "filled", "done", "receipted"}
    <3>1. CASE Intent(r)
      BY <3>1 DEF Intent, Upserted, Owner, Typed
    <3>2. CASE Put(r)
      BY <3>2 DEF Put, Provider, Providers, Typed
    <3>3. CASE Enqueue(r)
      <4>1. req[r].mode \in Modes
        BY <3>3 DEF Enqueue, Typed, Fit, Live, At, Handling
      <4>2. Places(req[r].mode) \subseteq Providers
        BY <4>1 DEF Places, Modes, Providers
      <4>3. intents' \in [{"user", "nobody"} -> [state : {"unknown", "pending", "completed"}, mode : Modes]]
        BY <3>3 DEF Enqueue, Owner, Typed
      <4>. QED BY <3>3, <4>2, <4>3 DEF Enqueue, Typed
    <3>4. CASE Keep(r) \/ NotKept(r)
      <4>1. req[r].image \in Images \cup {NoImage}
        BY <3>4 DEF Keep, NotKept, Keeping, Sending, Typed, Fit, Live, At, Handling
      <4>2. Landed(Provider(r), req[r].image) \in [Providers -> Images \cup {NoImage}]
        BY <4>1 DEF Landed, Typed
      <4>. QED BY <3>4, <4>2 DEF Keep, NotKept, Typed
    <3>. QED BY <1>3, <3>1, <3>2, <3>3, <3>4 DEF Handler, Arrive, Authorize, Admit, Shed, Head,
           Buffer, Spool, FetchSource, Proxied, Lock, Append, Load, Save, Tell,
           ThumbnailOfUpload, Resolve, Hit, Miss, Fetch, Send, Fail, media, history, Typed
  <2>5. lock' \in Requests \cup {NoRequest}
    BY <1>3 DEF Handler, Arrive, Authorize, Admit, Shed, Head, Buffer, Spool,
           FetchSource, Proxied, Lock, Append, Load, Intent, Put, Save, Enqueue, Tell,
           ThumbnailOfUpload, Resolve, Hit, Miss, Fetch, Send, Keep, NotKept, Fail, Leave, Typed
  <2>6. refused' \subseteq Requests
    BY <1>3 DEF Handler, Arrive, Authorize, Admit, Shed, Head, Buffer, Spool,
           FetchSource, Proxied, Lock, Append, Load, Intent, Put, Save, Enqueue, Tell,
           ThumbnailOfUpload, Resolve, Hit, Miss, Fetch, Send, Keep, NotKept, Fail, history, Typed
  <2>7. late' \subseteq Abandoned
    BY <1>3, LateIsSent, SentTyped DEF Typed
  <2>8. claims' \subseteq [mode : Modes, image : Images]
    <3>1. CASE Hit(r)
      <4>1. req[r].mode \in Modes
        BY <3>1 DEF Hit, Typed, Fit, Live, At, Handling
      <4>2. Cached(req[r].mode) \in Images
        BY <3>1, <4>1 DEF Hit, Verified, Cached, First, Typed, Providers
      <4>. QED BY <3>1, <4>1, <4>2 DEF Hit, Claim, Typed
    <3>2. CASE Keep(r)
      <4>1. Live(r)
        BY <3>2 DEF Keep, Keeping, Sending, Live, At
      <4>2. req[r].mode \in Modes /\ req[r].image \in Images
        BY <3>2, <4>1 DEF Keep, Typed, Fit, Handling
      <4>3. claims' = claims \/ Claim(r, req[r].image)
        BY <3>2 DEF Keep
      <4>. QED BY <4>2, <4>3 DEF Claim, Typed
    <3>. QED BY <1>3, <3>1, <3>2 DEF Handler, Arrive, Authorize, Admit, Shed, Head, Buffer, Spool,
           FetchSource, Proxied, Lock, Append, Load, Intent, Put, Save, Enqueue, Tell,
           ThumbnailOfUpload, Resolve, Miss, Fetch, Send, NotKept, Fail, history, Typed
  <2>. QED BY <2>1, <2>2, <2>3, <2>4, <2>5, <2>6, <2>7, <2>8 DEF Handled, Typed
<1>. QED BY <1>1, <1>2, <1>3, <1>4 DEF Next

-----------------------------------------------------------------------------
(* Permits. *)

\* The permits that are left and those that are held make up the pool.
Counted ==
    /\ free \in [Pools -> Nat]
    /\ \A p \in Pools : free[p] + Cardinality(Holders(p)) = Slots[p]

\* A live request has a pool.
LEMMA PoolFact ==
    ASSUME Typed, NEW r \in Requests, Live(r)
    PROVE  Pool(r) \in Pools
BY DEF Typed, Fit, Handling, Kinds, Pool, Kind, PoolOf, Pools

\* The holders of a pool are finitely many.
LEMMA HoldersFinite ==
    ASSUME NEW p PROVE IsFiniteSet(Holders(p)) /\ Cardinality(Holders(p)) \in Nat
<1>1. Holders(p) \subseteq Requests
  BY DEF Holders
<1>. QED BY <1>1, RequestConstants, FS_Subset, FS_CardinalityType

\* Before anybody has come every permit is left.
LEMMA CountedInit == Init => Counted
<1> SUFFICES ASSUME Init PROVE Counted
  OBVIOUS
<1>1. \A p : Holders(p) = {}
  BY DEF Init, Holders, Admitted, Live
<1>2. free = Slots /\ free \in [Pools -> Nat]
  BY RequestConstants DEF Init
<1>. QED BY <1>1, <1>2, FS_EmptySet DEF Counted

\* No step loses a permit or makes one.
LEMMA CountedStep == Typed /\ Counted /\ [Next]_vars => Counted'
<1> SUFFICES ASSUME Typed, Counted, [Next]_vars PROVE Counted'
  OBVIOUS
<1>1. CASE UNCHANGED vars
  <2>1. \A p : Holders(p)' = Holders(p)
    BY <1>1 DEF vars, Holders, Admitted, Live, Pool, Kind
  <2>. QED BY <1>1, <2>1 DEF vars, Counted
<1>2. CASE Restart
  <2>1. \A p : Holders(p)' = {}
    BY <1>2, RestartFacts DEF Holders, Admitted
  <2>2. free' = Slots /\ free' \in [Pools -> Nat]
    BY <1>2, RequestConstants DEF Restart
  <2>. QED BY <2>1, <2>2, FS_EmptySet DEF Counted
<1>3. ASSUME NEW r \in Requests, Handler(r) \/ Fail(r) PROVE Counted'
  <2>1. Handled(r)
    BY <1>3, HandlerHandled
  <2>2. \A q \in Requests \ {r} : req'[q] = req[q]
    BY <2>1 DEF Handled
  <2>3. ASSUME Admitted(r)' <=> Admitted(r), Admitted(r) => Kind(r)' = Kind(r), free' = free
        PROVE  Counted'
    <3>1. \A p : Holders(p)' = Holders(p)
      BY <2>2, <2>3 DEF Holders, Admitted, Live, Pool, Kind
    <3>. QED BY <2>3, <3>1 DEF Counted
  <2>4. CASE Arrives(r)
    BY <2>3, <2>4 DEF Arrives, Admitted
  <2>5. CASE Advances(r)
    BY <2>3, <2>5 DEF Advances, Admitted, Kind
  <2>6. CASE Takes(r)
    <3>1. ~Admitted(r) /\ Admitted(r)' /\ Pool(r)' = Pool(r)
      BY <2>6 DEF Takes, Admitted, Pool, Kind
    <3>2. \A p : Holders(p)' = IF p = Pool(r) THEN Holders(p) \cup {r} ELSE Holders(p)
      BY <2>2, <3>1 DEF Holders, Admitted, Live, Pool, Kind
    <3>3. r \notin Holders(Pool(r))
      BY <3>1 DEF Holders
    <3>4. Cardinality(Holders(Pool(r)) \cup {r}) = Cardinality(Holders(Pool(r))) + 1
      BY <3>3, HoldersFinite, FS_AddElement
    <3>5. Pool(r) \in Pools
      BY <2>6, PoolFact DEF Takes
    <3>6. free[Pool(r)] > 0 /\ free' = [free EXCEPT ![Pool(r)] = @ - 1]
      BY <2>6 DEF Takes
    <3>7. free' \in [Pools -> Nat]
      BY <3>5, <3>6 DEF Counted
    <3>. QED BY <3>2, <3>4, <3>5, <3>6, <3>7, HoldersFinite DEF Counted
  <2>7. CASE Live(r) /\ Leave(r)
    <3>1. ~Live(r)' /\ ~Admitted(r)'
      BY <2>7, LeaveFacts DEF Admitted
    <3>2. CASE ~Admitted(r)
      BY <2>3, <2>7, <3>1, <3>2 DEF Leave
    <3>3. CASE Admitted(r)
      <4>1. \A p : Holders(p)' = IF p = Pool(r) THEN Holders(p) \ {r} ELSE Holders(p)
        BY <2>2, <3>1, <3>3 DEF Holders, Admitted, Live, Pool, Kind
      <4>2. r \in Holders(Pool(r))
        BY <3>3 DEF Holders
      <4>3. Cardinality(Holders(Pool(r)) \ {r}) = Cardinality(Holders(Pool(r))) - 1
        BY <4>2, HoldersFinite, FS_RemoveElement
      <4>4. Pool(r) \in Pools
        BY <2>7, PoolFact
      <4>5. free' = [free EXCEPT ![Pool(r)] = @ + 1]
        BY <2>7, <3>3 DEF Leave
      <4>6. free' \in [Pools -> Nat]
        BY <4>4, <4>5 DEF Counted
      <4>. QED BY <4>1, <4>3, <4>4, <4>5, <4>6, HoldersFinite DEF Counted
    <3>. QED BY <3>2, <3>3
  <2>. QED BY <2>1, <2>4, <2>5, <2>6, <2>7 DEF Handled
<1>4. ASSUME NEW put \in late, Land(put) PROVE Counted'
  <2>1. \A p : Holders(p)' = Holders(p)
    BY <1>4, LandFacts DEF Holders, Admitted, Live, Pool, Kind
  <2>. QED BY <1>4, <2>1, LandFacts DEF Counted
<1>. QED BY <1>1, <1>2, <1>3, <1>4 DEF Next

\* A request is refused for want of a permit only while live requests of its own
\* pool hold every permit: no way a handler can end loses one.
THEOREM RefusalsAreFull == Spec => RefusedOnlyWhenFull
<1>1. Typed /\ Counted /\ [Next]_vars =>
        [\A r \in refused' \ refused : Cardinality(Holders(Pool(r))) = Slots[Pool(r)]]_vars
  <2> SUFFICES ASSUME Typed, Counted, [Next]_vars, NEW r \in refused' \ refused
               PROVE  Cardinality(Holders(Pool(r))) = Slots[Pool(r)]
    OBVIOUS
  <2>1. PICK q \in Requests : Handler(q) \/ Fail(q)
    BY LandFacts DEF Next, vars, Restart, history
  <2>2. Shed(q) /\ r = q
    BY <2>1 DEF Handler, Arrive, Authorize, Admit, Shed, Head, Buffer, Spool,
         FetchSource, Proxied, Lock, Append, Load, Intent, Put, Save, Enqueue, Tell,
         ThumbnailOfUpload, Resolve, Hit, Miss, Fetch, Send, Keep, NotKept, Fail, history
  <2>3. Pool(r) \in Pools /\ free[Pool(r)] = 0
    BY <2>2, PoolFact DEF Shed, At, Live
  <2>. QED BY <2>3, HoldersFinite DEF Counted
<1>. QED BY <1>1, TypedInit, TypedStep, CountedInit, CountedStep, PTL DEF Spec, RefusedOnlyWhenFull

-----------------------------------------------------------------------------
(* Scans. *)

\* The request found the video missing, or has asked for its scan since.
Found(r) == (Live(r) /\ req[r].new) \/ <<"nsfw", r>> \in hooks

\* Without an outbox one request at most has found the video missing, and only if
\* the video has been stored since.
Scanned ==
    /\ hooks \subseteq {"transcode", "transcribe", "nsfw"} \X Requests
    /\ server.outbox => hooks = {}
    /\ ~server.outbox =>
          /\ \A r \in Requests : Found(r) => "gcs" \in original
          /\ \A r, q \in Requests : Found(r) /\ Found(q) => r = q

\* Only a PUT finds a video missing.
LEMMA NewIsFromPut ==
    ASSUME Typed, NEW r \in Requests, Handler(r) \/ Fail(r), ~Put(r), Live(r)', req'[r].new
    PROVE  Live(r) /\ req[r].new
<1>1. Handled(r)
  BY HandlerHandled
<1>2. CASE ~Live(r)
  <2>1. Arrives(r)
    BY <1>1, <1>2 DEF Handled, Advances, Takes
  <2>2. PICK kind \in Kinds : Arrive(r, kind)
    BY <1>2 DEF Handler, Authorize, Admit, Shed, Head, Buffer, Spool,
         FetchSource, Proxied, Lock, Append, Load, Intent, Put, Save, Enqueue, Tell,
         ThumbnailOfUpload, Resolve, Hit, Miss, Fetch, Send, Keep, NotKept, Keeping, Sending,
         Fail, Live, At
  <2>3. req'[r].new = FALSE
    BY <2>2, ArriveFacts
  <2>. QED BY <2>3
<1>3. CASE Live(r)
  <2> SUFFICES req'[r].new = req[r].new
    BY <1>3
  <2>1. req[r] \in Handling
    BY <1>3 DEF Typed, Fit
  <2>2. ~Leave(r)
    BY LeaveFacts
  <2>3. ASSUME NEW step, Goto(r, step) PROVE req'[r].new = req[r].new
    <3>1. req'[r] = [req[r] EXCEPT !.at = step]
      BY <2>3 DEF Goto, Typed
    <3>. QED BY <2>1, <3>1 DEF Handling
  <2>4. CASE Admit(r)
    <3>1. req'[r] = [req[r] EXCEPT !.permit = TRUE, !.at = WithPermit(Kind(r))]
      BY <2>4 DEF Admit, Typed
    <3>. QED BY <2>1, <3>1 DEF Handling
  <2>5. ASSUME NEW mode, NEW step, req' = [req EXCEPT ![r].mode = mode, ![r].at = step]
        PROVE  req'[r].new = req[r].new
    <3>1. req'[r] = [req[r] EXCEPT !.mode = mode, !.at = step]
      BY <2>5 DEF Typed
    <3>. QED BY <2>1, <3>1 DEF Handling
  <2>6. ASSUME NEW image, NEW step, req' = [req EXCEPT ![r].image = image, ![r].at = step]
        PROVE  req'[r].new = req[r].new
    <3>1. req'[r] = [req[r] EXCEPT !.image = image, !.at = step]
      BY <2>6 DEF Typed
    <3>. QED BY <2>1, <3>1 DEF Handling
  <2>7. CASE Intent(r) \/ Resolve(r)
    BY <2>2, <2>5, <2>7 DEF Intent, Resolve
  <2>9. CASE ThumbnailOfUpload(r) \/ Fetch(r)
    BY <2>3, <2>6, <2>9 DEF ThumbnailOfUpload, Fetch
  <2>. QED
    BY <1>3, <2>2, <2>3, <2>4, <2>7, <2>9
       DEF Handler, Arrive, Live, At, Authorize, Shed, Head, Buffer, Spool, FetchSource,
           Proxied, Lock, Append, Load, Save, Enqueue, Tell, Hit, Miss, Send, Keep,
           NotKept, Fail
<1>. QED BY <1>2, <1>3

\* Nobody has found anything at first.
LEMMA ScannedInit == Init => Scanned
BY DEF Init, Scanned, Found, Live

\* No step lets a second request find the video missing.
LEMMA ScannedStep == Typed /\ Scanned /\ [Next]_vars => Scanned'
<1> SUFFICES ASSUME Typed, Scanned, [Next]_vars PROVE Scanned'
  OBVIOUS
<1>0. ASSUME server' = server, hooks' = hooks, original \subseteq original',
             \A q \in Requests : Found(q)' => Found(q)
      PROVE  Scanned'
  BY <1>0 DEF Scanned
<1>1. CASE UNCHANGED vars
  BY <1>0, <1>1 DEF vars, media, history, Found, Live
<1>2. CASE Restart
  BY <1>0, <1>2, RestartFacts DEF Restart, history, Found
<1>4. ASSUME NEW put \in late, Land(put) PROVE Scanned'
  BY <1>0, <1>4, LandFacts DEF Found, Live
<1>3. ASSUME NEW r \in Requests, Handler(r) \/ Fail(r) PROVE Scanned'
  <2>1. Handled(r) /\ server' = server
    BY <1>3, HandlerHandled
  <2>2. \A q \in Requests \ {r} : (Live(q)' /\ req'[q].new) <=> (Live(q) /\ req[q].new)
    BY <2>1 DEF Handled, Live
  <2>3. CASE Tell(r)
    <3>1. ~Live(r)'
      BY <2>3, LeaveFacts DEF Tell
    <3>2. Live(r)
      BY <2>3 DEF Tell, At, Live
    <3>3. hooks' = hooks \cup FollowUps(r) /\ UNCHANGED original
      BY <2>3 DEF Tell, media
    <3>4. CASE server.outbox
      <4>1. hooks' = hooks
        BY <3>3, <3>4 DEF FollowUps
      <4>2. \A q \in Requests : Found(q)' => Found(q)
        BY <2>2, <3>1, <4>1 DEF Found
      <4>. QED BY <1>0, <2>1, <3>3, <4>1, <4>2
    <3>5. CASE ~server.outbox
      <4>1. /\ FollowUps(r) \subseteq {"transcode", "transcribe", "nsfw"} \X {r}
            /\ <<"nsfw", r>> \in FollowUps(r) => req[r].new
        BY <3>5 DEF FollowUps, Scan
      <4>2. ASSUME NEW q \in Requests, Found(q)' PROVE Found(q)
        <5>1. CASE q = r
          BY <3>1, <3>2, <3>3, <4>1, <4>2, <5>1 DEF Found
        <5>2. CASE q # r
          <6>1. <<"nsfw", q>> \notin FollowUps(r)
            BY <4>1, <5>2
          <6>. QED BY <2>2, <3>3, <4>2, <5>2, <6>1 DEF Found
        <5>. QED BY <5>1, <5>2
      <4>. QED BY <2>1, <3>3, <3>5, <4>1, <4>2 DEF Scanned
    <3>. QED BY <3>4, <3>5
  <2>4. CASE Put(r)
    <3>1. hooks' = hooks /\ original \subseteq original'
      BY <2>4 DEF Put, history
    <3>2. CASE server.outbox
      BY <2>1, <3>1, <3>2 DEF Scanned
    <3>3. CASE ~server.outbox
      <4>1. Live(r) /\ req[r] \in Handling /\ At(r, "put")
        BY <2>4, <3>3 DEF Put, Typed, Fit, At, Live
      <4>2. Provider(r) = "gcs" /\ "gcs" \in original'
        BY <2>4, <4>1 DEF Put, Provider, At
      <4>3. CASE "gcs" \in original
        <5>1. req'[r].new = req[r].new
          <6>1. PICK new \in {FALSE} :
                  req' = [req EXCEPT ![r].new = @ \/ new,
                            ![r].at = IF At(r, "put") /\ req[r].mode = "dual"
                                      THEN "put b2" ELSE AfterPut(r)]
            BY <2>4, <4>2, <4>3 DEF Put
          <6>. QED BY <4>1, <6>1 DEF Typed, Handling
        <5>2. \A q \in Requests : Found(q)' => Found(q)
          BY <2>2, <3>1, <4>1, <5>1 DEF Found
        <5>. QED BY <1>0, <2>1, <3>1, <5>2
      <4>4. CASE "gcs" \notin original
        <5>1. \A q \in Requests : ~Found(q)
          BY <3>3, <4>4 DEF Scanned
        <5>2. \A q \in Requests \ {r} : ~Found(q)'
          BY <2>2, <3>1, <5>1 DEF Found
        <5>. QED BY <2>1, <3>1, <3>3, <4>2, <5>2 DEF Scanned
      <4>. QED BY <4>3, <4>4
    <3>. QED BY <3>2, <3>3
  <2>5. CASE ~Tell(r) /\ ~Put(r)
    <3>1. hooks' = hooks
      BY <1>3, <2>5 DEF Handler, Arrive, Authorize, Admit, Shed, Head, Buffer, Spool,
         FetchSource, Proxied, Lock, Append, Load, Intent, Save, Enqueue,
         ThumbnailOfUpload, Resolve, Hit, Miss, Fetch, Send, Keep, NotKept, Fail, history
    <3>2. original \subseteq original'
      BY <1>3, <2>5 DEF Handler, Arrive, Authorize, Admit, Shed, Head, Buffer, Spool,
         FetchSource, Proxied, Lock, Append, Load, Intent, Save, Enqueue,
         ThumbnailOfUpload, Resolve, Hit, Miss, Fetch, Send, Keep, NotKept, Fail, media
    <3>3. Live(r)' /\ req'[r].new => Live(r) /\ req[r].new
      BY <1>3, <2>5, NewIsFromPut
    <3>4. \A q \in Requests : Found(q)' => Found(q)
      BY <2>2, <3>1, <3>3 DEF Found
    <3>. QED BY <1>0, <2>1, <3>1, <3>2, <3>4
  <2>. QED BY <2>3, <2>4, <2>5
<1>. QED BY <1>1, <1>2, <1>3, <1>4 DEF Next

\* Every variable has its type: permits are never negative, a handler is new, gone
\* or has a step, kind, mode and image, and the lock, scans, claims and PUTs still
\* on their way are those of requests there are.
THEOREM RequestsTyped == Spec => []TypeOK
<1>1. Typed /\ Counted /\ Scanned => TypeOK
  <2> SUFFICES ASSUME Typed, Counted, Scanned PROVE TypeOK
    OBVIOUS
  <2>1. req \in [Requests -> {[at |-> "new"], Gone} \cup Handling]
    <3>1. \A r \in Requests : req[r] \in {[at |-> "new"], Gone} \cup Handling
      BY DEF Typed, Fit
    <3>2. req = [r \in Requests |-> req[r]]
      BY DEF Typed
    <3>. QED BY <3>1, <3>2
  <2>. QED BY <2>1 DEF Typed, Counted, Scanned, TypeOK
<1>. QED BY <1>1, TypedInit, TypedStep, CountedInit, CountedStep, ScannedInit, ScannedStep, PTL
         DEF Spec

\* At most one scan is asked for of a video, and nothing is where an outbox
\* schedules the processing.
THEOREM OneScan == Spec => []ScannedOnce
<1>1. Typed /\ Scanned => ScannedOnce
  <2> SUFFICES ASSUME Typed, Scanned PROVE ScannedOnce
    OBVIOUS
  <2> DEFINE scans == {h \in hooks : h[1] = "nsfw"}
  <2>1. CASE server.outbox
    BY <2>1, FS_EmptySet DEF Scanned, ScannedOnce
  <2>2. CASE scans = {}
    BY <2>2, FS_EmptySet DEF Scanned, ScannedOnce
  <2>3. CASE ~server.outbox /\ scans # {}
    <3>1. PICK h \in scans : TRUE
      BY <2>3
    <3>2. ASSUME NEW g \in scans, NEW h2 \in scans PROVE g = h2
      <4>1. PICK r \in Requests, q \in Requests : g = <<"nsfw", r>> /\ h2 = <<"nsfw", q>>
        BY DEF Scanned
      <4>2. Found(r) /\ Found(q)
        BY <4>1 DEF Found
      <4>. QED BY <2>3, <4>1, <4>2 DEF Scanned
    <3>3. scans = {h}
      BY <3>1, <3>2
    <3>. QED BY <2>3, <3>3, FS_Singleton DEF ScannedOnce
  <2>. QED BY <2>1, <2>2, <2>3
<1>. QED BY <1>1, TypedInit, TypedStep, ScannedInit, ScannedStep, PTL DEF Spec

-----------------------------------------------------------------------------
(* Thumbnails. *)

Owners == {"user", "nobody"}

\* A process that does not write B2 alone never does: no intent, no record of
\* events and no handler has that policy.
GcsLeads ==
    server.mode # "b2" =>
        /\ \A o \in Owners : intents[o].mode # "b2"
        /\ recorded # {} => "gcs" \in recorded
        /\ \A r \in Requests : Live(r) => req[r].mode # "b2"

\* What has been told of is there, and a dual write reaches B2 with the JPEG that
\* GCS has.  Where GCS leads, that is what was told of, and whatever B2 has or may
\* still be sent is that JPEG, too.
Whole ==
    /\ \A c \in claims : \A p \in Places(c.mode) : thumb[p] # NoImage
    /\ \A r \in Requests :
          Live(r) /\ req[r].at \in {"keep b2", "send b2"} /\ req[r].mode # "b2"
            => thumb["gcs"] = req[r].image
    /\ \A put \in late : put.key = "thumb" => put.image # NoImage
    /\ server.mode # "b2" =>
          /\ \A c \in claims : c.mode # "b2" /\ thumb["gcs"] = c.image
          /\ thumb["b2"] \in {NoImage, thumb["gcs"]}
          /\ \A put \in late : put.key = "thumb" /\ put.to = "b2" => thumb["gcs"] = put.image

\* At first there is the process's policy alone, or an older one of GCS.
LEMMA GcsLeadsInit == Init => GcsLeads
<1> SUFFICES ASSUME Init, server.mode # "b2" PROVE GcsLeads
  BY DEF GcsLeads
<1>1. recorded = {} /\ \A r \in Requests : ~Live(r)
  BY DEF Init, Live
<1>2. \A o \in Owners : intents[o].mode = "gcs"
  BY DEF Init, Unknown, Owners
<1>. QED BY <1>1, <1>2 DEF GcsLeads

\* Where GCS leads no step gives a handler the policy of B2 alone.
LEMMA HandlerMode ==
    ASSUME Typed, GcsLeads, server.mode # "b2", NEW r \in Requests, Handler(r) \/ Fail(r), Live(r)'
    PROVE  req'[r].mode # "b2"
<1>1. Handled(r) /\ ~Leave(r)
  BY HandlerHandled, LeaveFacts
<1>2. CASE ~Live(r)
  <2>1. PICK kind \in Kinds : Arrive(r, kind)
    BY <1>2 DEF Handler, Authorize, Admit, Shed, Head, Buffer, Spool,
         FetchSource, Proxied, Lock, Append, Load, Intent, Put, Save, Enqueue, Tell,
         ThumbnailOfUpload, Resolve, Hit, Miss, Fetch, Send, Keep, NotKept, Keeping, Sending,
         Fail, Live, At
  <2>. QED BY <2>1, ArriveFacts
<1>3. CASE Live(r)
  <2>1. req[r] \in Handling /\ req[r].mode # "b2"
    BY <1>3 DEF Typed, Fit, GcsLeads
  <2>2. ASSUME NEW step, Goto(r, step) PROVE req'[r].mode = req[r].mode
    <3>1. req'[r] = [req[r] EXCEPT !.at = step]
      BY <2>2 DEF Goto, Typed
    <3>. QED BY <2>1, <3>1 DEF Handling
  <2>3. CASE Admit(r)
    <3>1. req'[r] = [req[r] EXCEPT !.permit = TRUE, !.at = WithPermit(Kind(r))]
      BY <2>3 DEF Admit, Typed
    <3>. QED BY <2>1, <3>1 DEF Handling
  <2>4. ASSUME NEW mode, NEW step, req' = [req EXCEPT ![r].mode = mode, ![r].at = step]
        PROVE  req'[r].mode = mode
    <3>1. req'[r] = [req[r] EXCEPT !.mode = mode, !.at = step]
      BY <2>4 DEF Typed
    <3>. QED BY <2>1, <3>1 DEF Handling
  <2>5. CASE Intent(r)
    <3>1. Upserted(intents[Owner(r)]).mode # "b2"
      BY DEF GcsLeads, Upserted, Owner, Owners
    <3>. QED BY <1>1, <2>4, <2>5, <3>1 DEF Intent
  <2>6. CASE Resolve(r)
    <3>1. RecordedMode # "b2"
      BY DEF GcsLeads, RecordedMode
    <3>. QED BY <2>4, <2>6, <3>1 DEF Resolve
  <2>7. ASSUME NEW image, NEW step, req' = [req EXCEPT ![r].image = image, ![r].at = step]
        PROVE  req'[r].mode = req[r].mode
    <3>1. req'[r] = [req[r] EXCEPT !.image = image, !.at = step]
      BY <2>7 DEF Typed
    <3>. QED BY <2>1, <3>1 DEF Handling
  <2>8. CASE Put(r)
    <3>1. PICK new : req' = [req EXCEPT ![r].new = @ \/ new,
                      ![r].at = IF At(r, "put") /\ req[r].mode = "dual"
                                THEN "put b2" ELSE AfterPut(r)]
      BY <2>8 DEF Put
    <3>2. req'[r] = [req[r] EXCEPT !.new = @ \/ new,
                      !.at = IF At(r, "put") /\ req[r].mode = "dual"
                                THEN "put b2" ELSE AfterPut(r)]
      BY <3>1 DEF Typed
    <3>. QED BY <2>1, <3>2 DEF Handling
  <2>9. CASE ThumbnailOfUpload(r) \/ Fetch(r)
    BY <2>1, <2>2, <2>7, <2>9 DEF ThumbnailOfUpload, Fetch
  <2>. QED
    BY <1>1, <1>3, <2>1, <2>2, <2>3, <2>5, <2>6, <2>8, <2>9
       DEF Handler, Arrive, Live, At, Authorize, Shed, Head, Buffer, Spool, FetchSource,
           Proxied, Lock, Append, Load, Save, Enqueue, Tell, Hit, Miss, Send, Keep,
           NotKept, Fail
<1>. QED BY <1>2, <1>3

\* A handler has the policy of its process, of an intent or of the events.
LEMMA GcsLeadsStep == Typed /\ GcsLeads /\ [Next]_vars => GcsLeads'
<1> SUFFICES ASSUME Typed, GcsLeads, [Next]_vars, server'.mode # "b2" PROVE GcsLeads'
  BY DEF GcsLeads
<1>0. ASSUME server' = server, intents' = intents, recorded' = recorded,
             \A q \in Requests : Live(q)' => Live(q) /\ req'[q].mode = req[q].mode
      PROVE  GcsLeads'
  BY <1>0 DEF GcsLeads
<1>1. CASE UNCHANGED vars
  BY <1>0, <1>1 DEF vars, media, Live
<1>2. CASE Restart
  BY <1>0, <1>2, RestartFacts DEF Restart
<1>3. ASSUME NEW put \in late, Land(put) PROVE GcsLeads'
  BY <1>0, <1>3, LandFacts DEF Live
<1>4. ASSUME NEW r \in Requests, Handler(r) \/ Fail(r) PROVE GcsLeads'
  <2>1. Handled(r) /\ server' = server
    BY <1>4, HandlerHandled
  <2>2. \A q \in Requests \ {r} : req'[q] = req[q]
    BY <2>1 DEF Handled
  <2>3. server.mode # "b2"
    BY <2>1
  <2>4. \A o \in Owners : intents'[o].mode # "b2"
    <3>1. CASE Intent(r)
      BY <2>3, <3>1 DEF Intent, Upserted, Owner, Owners, GcsLeads, Typed
    <3>2. CASE Enqueue(r)
      BY <2>3, <3>2 DEF Enqueue, Owner, Owners, GcsLeads, Typed
    <3>3. CASE ~Intent(r) /\ ~Enqueue(r)
      <4>1. intents' = intents
        BY <1>4, <3>3 DEF Handler, Arrive, Authorize, Admit, Shed, Head, Buffer, Spool,
           FetchSource, Proxied, Lock, Append, Load, Put, Save, Tell,
           ThumbnailOfUpload, Resolve, Hit, Miss, Fetch, Send, Keep, NotKept, Fail, media
      <4>. QED BY <2>3, <4>1 DEF GcsLeads
    <3>. QED BY <3>1, <3>2, <3>3
  <2>5. recorded' # {} => "gcs" \in recorded'
    <3>1. CASE Enqueue(r)
      <4>1. Live(r) /\ req[r].mode \in Modes
        BY <3>1 DEF Enqueue, Typed, Fit, Live, At, Handling
      <4>2. "gcs" \in Places(req[r].mode)
        BY <2>3, <4>1 DEF GcsLeads, Places, Modes
      <4>. QED BY <3>1, <4>2 DEF Enqueue
    <3>2. CASE ~Enqueue(r)
      <4>1. recorded' = recorded
        BY <1>4, <3>2 DEF Handler, Arrive, Authorize, Admit, Shed, Head, Buffer, Spool,
           FetchSource, Proxied, Lock, Append, Load, Intent, Put, Save, Tell,
           ThumbnailOfUpload, Resolve, Hit, Miss, Fetch, Send, Keep, NotKept, Fail, media
      <4>. QED BY <2>3, <4>1 DEF GcsLeads
    <3>. QED BY <3>1, <3>2
  <2>6. Live(r)' => req'[r].mode # "b2"
    BY <1>4, <2>3, HandlerMode
  <2>7. \A q \in Requests \ {r} : Live(q)' => req'[q].mode # "b2"
    BY <2>2, <2>3 DEF GcsLeads, Live
  <2>. QED BY <2>4, <2>5, <2>6, <2>7 DEF GcsLeads
<1>. QED BY <1>1, <1>2, <1>3, <1>4 DEF Next

\* Nothing has been told of at first.
LEMMA WholeInit == Init => Whole
<1> SUFFICES ASSUME Init PROVE Whole
  OBVIOUS
<1>1. claims = {} /\ late = {} /\ thumb["b2"] = NoImage /\ \A r \in Requests : ~Live(r)
  BY DEF Init, Live, Providers
<1>. QED BY <1>1 DEF Whole

\* A JPEG that is there is followed by others at most, and at GCS it stays.
LEMMA LandedStays ==
    ASSUME Typed, NEW to \in Providers, NEW image \in Images
    PROVE  /\ \A p \in Providers : thumb[p] # NoImage => Landed(to, image)[p] # NoImage
           /\ thumb["gcs"] # NoImage => Landed(to, image)["gcs"] = thumb["gcs"]
           /\ to = "b2" => Landed(to, image)["gcs"] = thumb["gcs"] /\ Landed(to, image)["b2"] = image
           /\ to = "gcs" => /\ Landed(to, image)["b2"] = thumb["b2"]
                            /\ Landed(to, image)["gcs"] \in {thumb["gcs"], image}
                            /\ Landed(to, image)["gcs"] # NoImage
<1>1. image # NoImage /\ thumb \in [Providers -> Images \cup {NoImage}]
  BY DEF Typed, Images, NoImage
<1>. QED BY <1>1 DEF Landed, Providers

\* What a handler that keeps a thumbnail knows of it.
LEMMA KeepFacts ==
    ASSUME Typed, NEW r \in Requests, Keep(r)
    PROVE  /\ Live(r) /\ req[r].image \in Images /\ Provider(r) \in Providers
           /\ thumb' = thumb \/ thumb' = Landed(Provider(r), req[r].image)
           /\ thumb'[Provider(r)] = req[r].image
           /\ Provider(r) = "b2" => req[r].at \in {"keep b2", "send b2"}
           /\ Provider(r) = "gcs" => req[r].mode # "b2"
<1>1. req[r].at \in {"keep", "keep b2", "send", "send b2"}
  BY DEF Keep, Keeping, Sending, At
<1>2. Live(r)
  BY <1>1 DEF Live
<1>3. req[r] \in Handling /\ req[r].image # NoImage
  BY <1>1, <1>2 DEF Typed, Fit, Keeping, Sending, At
<1>. QED BY <1>1, <1>2, <1>3 DEF Keep, Provider, Providers, Handling, Typed, Fit

\* No handler takes away a JPEG, and only Keep stores one.
LEMMA ThumbnailsStay ==
    ASSUME Typed, NEW r \in Requests, Handler(r) \/ Fail(r)
    PROVE  /\ \A p \in Providers : thumb[p] # NoImage => thumb'[p] # NoImage
           /\ thumb["gcs"] # NoImage => thumb'["gcs"] = thumb["gcs"]
           /\ Keep(r) \/ thumb' = thumb
<1>1. CASE Keep(r)
  <2>1. CASE thumb' = thumb
    BY <1>1, <2>1
  <2>2. CASE thumb' = Landed(Provider(r), req[r].image)
    <3>1. Provider(r) \in Providers /\ req[r].image \in Images
      BY <1>1, KeepFacts
    <3>2. /\ \A p \in Providers : thumb[p] # NoImage => Landed(Provider(r), req[r].image)[p] # NoImage
          /\ thumb["gcs"] # NoImage => Landed(Provider(r), req[r].image)["gcs"] = thumb["gcs"]
      BY <3>1, LandedStays
    <3>. QED BY <1>1, <2>2, <3>2
  <2>. QED BY <1>1, <2>1, <2>2, KeepFacts
<1>2. CASE ~Keep(r)
  BY <1>2 DEF Handler, Arrive, Authorize, Admit, Shed, Head, Buffer, Spool,
         FetchSource, Proxied, Lock, Append, Load, Intent, Put, Save, Enqueue, Tell,
         ThumbnailOfUpload, Resolve, Hit, Miss, Fetch, Send, NotKept, Fail, media
<1>. QED BY <1>1, <1>2

\* Unless B2 stands alone, only a thumbnail verified in GCS brings a handler to B2.
LEMMA KeepsThere ==
    ASSUME Typed, NEW r \in Requests, Handler(r) \/ Fail(r), Live(r)',
           req'[r].at \in {"keep b2", "send b2"}, req'[r].mode # "b2"
    PROVE  /\ Live(r) /\ req[r] \in Handling /\ req'[r].image = req[r].image
           /\ \/ Keep(r) /\ Provider(r) = "gcs"
              \/ Send(r) /\ At(r, "keep b2")
<1>1. ~Leave(r)
  BY LeaveFacts
<1>2. ASSUME NEW step, step \notin {"keep b2", "send b2"}, Live(r), Goto(r, step) PROVE FALSE
  BY <1>2 DEF Goto, Typed, Fit, Handling
<1>3. ~\E kind \in Kinds : Arrive(r, kind)
  <2> SUFFICES ASSUME NEW kind \in Kinds, Arrive(r, kind) PROVE FALSE
    OBVIOUS
  <2>1. Entry(kind) \notin {"keep b2", "send b2"}
    BY DEF Entry, Kinds
  <2>2. req'[r].at = Entry(kind)
    BY ArriveFacts
  <2>. QED BY <2>1, <2>2
<1>4. Live(r) /\ req[r] \in Handling
  <2>1. CASE Fail(r)
    BY <2>1 DEF Fail, Typed, Fit
  <2>2. CASE ~Fail(r)
    <3>1. Live(r)
      BY <1>3, <2>2 DEF Handler, Authorize, Admit, Shed, Head, Buffer, Spool, FetchSource,
         Proxied, Lock, Append, Load, Intent, Put, Save, Enqueue, Tell,
         ThumbnailOfUpload, Resolve, Hit, Miss, Fetch, Send, Keep, NotKept, Keeping, Sending, Live, At
    <3>. QED BY <3>1 DEF Typed, Fit
  <2>. QED BY <2>1, <2>2
<1>5. ASSUME Admit(r) PROVE FALSE
  <2>1. WithPermit(Kind(r)) \notin {"keep b2", "send b2"}
    BY <1>4 DEF WithPermit, Kind, Handling, Kinds
  <2>2. req'[r] = [req[r] EXCEPT !.permit = TRUE, !.at = WithPermit(Kind(r))]
    BY <1>5 DEF Admit, Typed
  <2>. QED BY <1>4, <2>1, <2>2 DEF Handling
<1>6. ASSUME NEW mode, req' = [req EXCEPT ![r].mode = mode, ![r].at = First(mode, "put", "put b2")]
      PROVE  FALSE
  <2>1. req'[r] = [req[r] EXCEPT !.mode = mode, !.at = First(mode, "put", "put b2")]
    BY <1>6 DEF Typed
  <2>. QED BY <1>4, <2>1 DEF Handling, First
<1>7. ASSUME Put(r) PROVE FALSE
  <2>1. PICK new : req' = [req EXCEPT ![r].new = @ \/ new,
                    ![r].at = IF At(r, "put") /\ req[r].mode = "dual"
                              THEN "put b2" ELSE AfterPut(r)]
    BY <1>7 DEF Put
  <2>2. req'[r] = [req[r] EXCEPT !.new = @ \/ new,
                    !.at = IF At(r, "put") /\ req[r].mode = "dual"
                              THEN "put b2" ELSE AfterPut(r)]
    BY <2>1 DEF Typed
  <2>. QED BY <1>4, <2>2 DEF Handling, AfterPut
<1>8. ASSUME NEW image,
             req' = [req EXCEPT ![r].image = image,
                                ![r].at = First(req[r].mode, "keep", "keep b2")]
      PROVE  FALSE
  <2>1. req'[r] = [req[r] EXCEPT !.image = image, !.at = First(req[r].mode, "keep", "keep b2")]
    BY <1>8 DEF Typed
  <2>. QED BY <1>4, <2>1 DEF Handling, First
<1>9. ~Resolve(r)
  <2>1. ASSUME Resolve(r) PROVE FALSE
    <3>1. req'[r] = [req[r] EXCEPT !.mode = RecordedMode, !.at = "lookup"]
      BY <2>1 DEF Resolve, Typed
    <3>. QED BY <1>4, <3>1 DEF Handling
  <2>. QED BY <2>1
<1>10. ~Buffer(r) /\ ~Spool(r) /\ ~FetchSource(r) /\ ~Lock(r) /\ ~Save(r) /\ ~Enqueue(r)
  BY <1>2, <1>4 DEF Buffer, Spool, FetchSource, Lock, Save, Enqueue, Spooled
<1>11. /\ ~Authorize(r) /\ ~Shed(r) /\ ~Head(r) /\ ~Proxied(r) /\ ~Append(r) /\ ~Load(r)
       /\ ~Tell(r) /\ ~Hit(r) /\ ~Miss(r) /\ ~NotKept(r) /\ ~Fail(r)
  BY <1>1, <1>2, <1>4 DEF Authorize, Shed, Head, Proxied, Append, Load, Tell, Hit,
                          Miss, NotKept, Fail
<1>12. ~Intent(r)
  BY <1>1, <1>6 DEF Intent
<1>13. ~ThumbnailOfUpload(r) /\ ~Fetch(r)
  BY <1>2, <1>4, <1>8 DEF ThumbnailOfUpload, Fetch
<1>14. Keep(r) \/ Send(r)
  BY <1>3, <1>5, <1>7, <1>9, <1>10, <1>11, <1>12, <1>13 DEF Handler
<1>15. CASE Keep(r)
  <2>1. Provider(r) = "gcs" /\ Goto(r, "keep b2")
    BY <1>1, <1>2, <1>4, <1>15 DEF Keep
  <2>. QED BY <1>4, <1>15, <2>1 DEF Goto, Typed, Handling
<1>16. CASE Send(r)
  <2>1. Goto(r, "send b2") /\ ~At(r, "keep")
    BY <1>2, <1>4, <1>16 DEF Send
  <2>. QED BY <1>4, <1>16, <2>1 DEF Send, Keeping, Goto, Typed, Handling
<1>. QED BY <1>14, <1>15, <1>16

\* A handler that tells of a thumbnail has verified every copy of its policy.
LEMMA ClaimsHold ==
    ASSUME Typed, GcsLeads, Whole, NEW r \in Requests, Handler(r) \/ Fail(r),
           NEW c \in claims' \ claims
    PROVE  /\ \A p \in Places(c.mode) : thumb'[p] # NoImage
           /\ server.mode # "b2" => c.mode # "b2" /\ thumb'["gcs"] = c.image
<1>1. Hit(r) \/ Keep(r)
  BY DEF Handler, Arrive, Authorize, Admit, Shed, Head, Buffer, Spool,
         FetchSource, Proxied, Lock, Append, Load, Intent, Put, Save, Enqueue, Tell,
         ThumbnailOfUpload, Resolve, Miss, Fetch, Send, NotKept, Fail, history
<1>2. Live(r) /\ req[r] \in Handling /\ req[r].mode \in Modes
  BY <1>1 DEF Hit, Keep, Keeping, Sending, Typed, Fit, Live, At, Handling
<1>3. server.mode # "b2" => req[r].mode # "b2"
  BY <1>2 DEF GcsLeads
<1>4. CASE Hit(r)
  <2>1. c.mode = req[r].mode /\ c.image = Cached(req[r].mode) /\ Verified(req[r].mode)
        /\ thumb' = thumb
    BY <1>4 DEF Hit, Claim, media
  <2>. QED BY <1>2, <1>3, <2>1 DEF Verified, Cached, First, Places, Modes
<1>5. CASE Keep(r)
  <2>1. /\ c.mode = req[r].mode /\ c.image = req[r].image
        /\ ~(Provider(r) = "gcs" /\ req[r].mode = "dual")
    <3>1. Claim(r, req[r].image) /\ ~(Provider(r) = "gcs" /\ req[r].mode = "dual")
      BY <1>5 DEF Keep
    <3>2. c = [mode |-> req[r].mode, image |-> req[r].image]
      BY <3>1 DEF Claim
    <3>. QED BY <3>1, <3>2
  <2>2. req[r].image # NoImage /\ thumb'[Provider(r)] = req[r].image
    BY <1>5, KeepFacts DEF Images, NoImage
  <2>3. CASE Provider(r) = "gcs"
    <3>1. req[r].mode = "gcs"
      BY <1>2, <1>5, <2>1, <2>3, KeepFacts DEF Modes
    <3>. QED BY <2>1, <2>2, <2>3, <3>1 DEF Places
  <2>4. CASE Provider(r) = "b2"
    <3>1. req[r].at \in {"keep b2", "send b2"}
      BY <1>5, <2>4, KeepFacts
    <3>2. req[r].mode # "gcs"
      BY <1>2, <3>1 DEF Typed, Fit
    <3>3. req[r].mode = "dual" => thumb'["gcs"] = req[r].image
      <4>1. req[r].mode = "dual" => thumb["gcs"] = req[r].image
        BY <1>2, <3>1 DEF Whole
      <4>. QED BY <2>1, <2>2, <4>1, ThumbnailsStay
    <3>. QED BY <1>2, <1>3, <2>1, <2>2, <2>4, <3>2, <3>3 DEF Places, Modes
  <2>. QED BY <1>5, <2>3, <2>4, KeepFacts DEF Providers
<1>. QED BY <1>1, <1>4, <1>5

\* A thumbnail that was sent is one, and in B2 it is the one that GCS has.
LEMMA SentIsThere ==
    ASSUME Typed, GcsLeads, Whole, NEW r \in Requests, NEW put \in Sent(r), put.key = "thumb"
    PROVE  /\ put.image # NoImage
           /\ server.mode # "b2" /\ put.to = "b2" => thumb["gcs"] = put.image
<1>1. Live(r)
  BY SentTyped
<1>2. req[r].at \in {"send", "send b2"}
  <2>1. CASE req[r].at \in {"put", "put b2"}
    <3>1. Sent(r) \subseteq {[by |-> r, to |-> Provider(r), key |-> "video", image |-> NoImage]}
      BY <2>1 DEF Sent
    <3>2. put.key = "video"
      BY <3>1
    <3>. QED BY <3>2
  <2>2. CASE req[r].at \notin {"put", "put b2", "send", "send b2"}
    <3>1. Sent(r) = {}
      BY <2>2 DEF Sent
    <3>. QED BY <3>1
  <2>. QED BY <2>1, <2>2
<1>3. put = [by |-> r, to |-> Provider(r), key |-> "thumb", image |-> req[r].image]
  BY <1>2 DEF Sent
<1>4. req[r].image # NoImage /\ (server.mode # "b2" => req[r].mode # "b2")
  BY <1>1, <1>2 DEF GcsLeads, Typed, Fit, Sending, At
<1>5. put.to = "b2" => req[r].at = "send b2"
  BY <1>2, <1>3 DEF Provider
<1>. QED BY <1>1, <1>3, <1>4, <1>5 DEF Whole

\* A JPEG may be added under every provider that Whole speaks of.
LEMMA ClaimsKept ==
    ASSUME Typed, Whole,
           \A p \in Providers : thumb[p] # NoImage => thumb'[p] # NoImage,
           thumb["gcs"] # NoImage => thumb'["gcs"] = thumb["gcs"],
           server' = server, NEW c \in claims
    PROVE  /\ \A p \in Places(c.mode) : thumb'[p] # NoImage
           /\ server.mode # "b2" => c.mode # "b2" /\ thumb'["gcs"] = c.image
<1>1. c.mode \in Modes /\ c.image \in Images
  BY DEF Typed
<1>2. Places(c.mode) \subseteq Providers /\ c.image # NoImage
  BY <1>1 DEF Places, Modes, Providers, Images, NoImage
<1>. QED BY <1>2 DEF Whole

\* No step takes back what has been told.
LEMMA WholeStep == Typed /\ GcsLeads /\ Whole /\ [Next]_vars => Whole'
<1> SUFFICES ASSUME Typed, GcsLeads, Whole, [Next]_vars PROVE Whole'
  OBVIOUS
<1>1. CASE UNCHANGED vars
  BY <1>1 DEF vars, media, history, Whole, Live
<1>2. CASE Restart
  <2>1. ASSUME NEW put \in late' \ late, put.key = "thumb"
        PROVE  /\ put.image # NoImage
               /\ server.mode # "b2" /\ put.to = "b2" => thumb["gcs"] = put.image
    <3>1. PICK r \in Requests : put \in Sent(r)
      BY <1>2, <2>1 DEF Restart, Abandon
    <3>. QED BY <2>1, <3>1, SentIsThere
  <2>. QED BY <1>2, <2>1, RestartFacts DEF Restart, history, Whole
<1>3. ASSUME NEW put \in late, Land(put) PROVE Whole'
  <2>1. put \in Abandoned /\ put.to \in Providers
    BY DEF Typed, Abandoned
  <2>2. CASE put.key # "thumb"
    BY <1>3, <2>2, LandFacts DEF Land, Whole, Live
  <2>3. CASE put.key = "thumb"
    <3>1. put.image \in Images
      BY <2>1, <2>3 DEF Whole, Abandoned
    <3>2. thumb' = Landed(put.to, put.image) /\ UNCHANGED <<server, req, claims>> /\ late' \subseteq late
      BY <1>3, <2>3, LandFacts DEF Land
    <3>3. /\ \A p \in Providers : thumb[p] # NoImage => thumb'[p] # NoImage
          /\ thumb["gcs"] # NoImage => thumb'["gcs"] = thumb["gcs"]
      BY <2>1, <3>1, <3>2, LandedStays
    <3>4. \A r \in Requests :
             Live(r)' /\ req'[r].at \in {"keep b2", "send b2"} /\ req'[r].mode # "b2"
               => thumb'["gcs"] = req'[r].image
      BY <3>2, <3>3 DEF Whole, Live, Typed, Fit, Keeping, Sending, At
    <3>5. server.mode # "b2" => thumb'["b2"] \in {NoImage, thumb'["gcs"]}
      <4>1. CASE put.to = "b2"
        <5>1. thumb'["gcs"] = thumb["gcs"] /\ thumb'["b2"] = put.image
          BY <2>1, <3>1, <3>2, <4>1, LandedStays
        <5>. QED BY <2>3, <4>1, <5>1 DEF Whole
      <4>2. CASE put.to = "gcs"
        BY <2>1, <3>1, <3>2, <3>3, <4>2, LandedStays DEF Whole
      <4>. QED BY <2>1, <4>1, <4>2 DEF Providers
    <3>6. \A x \in late' : x.key = "thumb" =>
             x.image # NoImage /\ (server.mode # "b2" /\ x.to = "b2" => thumb'["gcs"] = x.image)
      BY <3>2, <3>3 DEF Whole
    <3>7. ASSUME NEW c \in claims'
          PROVE  /\ \A p \in Places(c.mode) : thumb'[p] # NoImage
                 /\ server.mode # "b2" => c.mode # "b2" /\ thumb'["gcs"] = c.image
      BY <3>2, <3>3, ClaimsKept
    <3>. QED BY <3>2, <3>4, <3>5, <3>6, <3>7 DEF Whole
  <2>. QED BY <2>2, <2>3
<1>4. ASSUME NEW r \in Requests, Handler(r) \/ Fail(r) PROVE Whole'
  <2>0. Handled(r) /\ server' = server
    BY <1>4, HandlerHandled
  <2>1. /\ \A p \in Providers : thumb[p] # NoImage => thumb'[p] # NoImage
        /\ thumb["gcs"] # NoImage => thumb'["gcs"] = thumb["gcs"]
        /\ Keep(r) \/ thumb' = thumb
    BY <1>4, ThumbnailsStay
  <2>2. ASSUME NEW c \in claims'
        PROVE  /\ \A p \in Places(c.mode) : thumb'[p] # NoImage
               /\ server.mode # "b2" => c.mode # "b2" /\ thumb'["gcs"] = c.image
    <3>1. CASE c \in claims
      BY <2>0, <2>1, <3>1, ClaimsKept
    <3>2. CASE c \notin claims
      BY <1>4, <2>2, <3>2, ClaimsHold
    <3>. QED BY <3>1, <3>2
  <2>3. ASSUME NEW q \in Requests, Live(q)', req'[q].at \in {"keep b2", "send b2"},
               req'[q].mode # "b2"
        PROVE  thumb'["gcs"] = req'[q].image
    <3>1. CASE q = r
      <4>1. /\ Live(r) /\ req[r] \in Handling /\ req'[r].image = req[r].image
            /\ \/ Keep(r) /\ Provider(r) = "gcs"
               \/ Send(r) /\ At(r, "keep b2")
        BY <1>4, <2>3, <3>1, KeepsThere
      <4>2. CASE Keep(r) /\ Provider(r) = "gcs"
        BY <3>1, <4>1, <4>2, KeepFacts
      <4>3. CASE Send(r) /\ At(r, "keep b2")
        <5>1. req'[r].mode = req[r].mode /\ thumb' = thumb
          BY <4>1, <4>3 DEF Send, Goto, Typed, Handling, media
        <5>. QED BY <2>3, <3>1, <4>1, <4>3, <5>1 DEF Whole, At
      <4>. QED BY <4>1, <4>2, <4>3
    <3>2. CASE q # r
      <4>1. req'[q] = req[q] /\ Live(q)
        BY <2>0, <2>3, <3>2 DEF Handled, Live
      <4>2. thumb["gcs"] = req[q].image /\ req[q].image # NoImage
        BY <2>3, <4>1 DEF Whole, Typed, Fit, Keeping, Sending, At
      <4>. QED BY <2>1, <4>1, <4>2
    <3>. QED BY <3>1, <3>2
  <2>4. ASSUME server.mode # "b2" PROVE thumb'["b2"] \in {NoImage, thumb'["gcs"]}
    <3>1. CASE thumb' = thumb
      BY <2>4, <3>1 DEF Whole
    <3>2. CASE Keep(r) /\ thumb' # thumb
      <4>1. /\ req[r].image \in Images /\ Provider(r) \in Providers /\ Live(r)
            /\ thumb' = Landed(Provider(r), req[r].image)
            /\ Provider(r) = "b2" => req[r].at \in {"keep b2", "send b2"}
        BY <3>2, KeepFacts
      <4>2. CASE Provider(r) = "b2"
        <5>1. req[r].mode # "b2"
          BY <2>4, <4>1 DEF GcsLeads
        <5>2. thumb["gcs"] = req[r].image
          BY <4>1, <4>2, <5>1 DEF Whole
        <5>. QED BY <4>1, <4>2, <5>2, LandedStays
      <4>3. CASE Provider(r) = "gcs"
        <5>1. thumb'["b2"] = thumb["b2"]
          BY <4>1, <4>3, LandedStays
        <5>2. thumb["b2"] \in {NoImage, thumb["gcs"]}
          BY <2>4 DEF Whole
        <5>. QED BY <2>1, <5>1, <5>2
      <4>. QED BY <4>1, <4>2, <4>3 DEF Providers
    <3>. QED BY <2>1, <3>1, <3>2
  <2>5. ASSUME NEW put \in late', put.key = "thumb"
        PROVE  /\ put.image # NoImage
               /\ server.mode # "b2" /\ put.to = "b2" => thumb'["gcs"] = put.image
    <3>1. /\ put.image # NoImage
          /\ server.mode # "b2" /\ put.to = "b2" => thumb["gcs"] = put.image
      <4>1. CASE put \in late
        BY <2>5, <4>1 DEF Whole
      <4>2. CASE put \in Sent(r)
        BY <2>5, <4>2, SentIsThere
      <4>. QED BY <1>4, <2>5, <4>1, <4>2, LateIsSent
    <3>. QED BY <2>1, <3>1
  <2>. QED BY <2>0, <2>2, <2>3, <2>4, <2>5 DEF Whole
<1>. QED BY <1>1, <1>2, <1>3, <1>4 DEF Next

\* Each copy that its policy wants of a thumbnail told of is there for ever, and
\* unless the process writes B2 alone it is the thumbnail told of.
THEOREM ClaimsAreWhole == Spec => []ClaimedThumbnailIsWhole
<1>1. Typed /\ Whole => ClaimedThumbnailIsWhole
  <2> SUFFICES ASSUME Typed, Whole, NEW c \in claims, NEW p \in Places(c.mode)
               PROVE  /\ thumb[p] # NoImage
                      /\ server.mode # "b2" => thumb[p] = c.image
    BY DEF ClaimedThumbnailIsWhole
  <2>1. c.mode \in Modes
    BY DEF Typed
  <2>2. p \in {"gcs", "b2"} /\ thumb[p] # NoImage
    BY <2>1 DEF Places, Modes, Whole
  <2>. QED BY <2>2 DEF Whole
<1>. QED BY <1>1, TypedInit, TypedStep, GcsLeadsInit, GcsLeadsStep, WholeInit, WholeStep, PTL
         DEF Spec
=============================================================================
