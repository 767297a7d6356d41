------------------------- MODULE B2MultipartProofs -------------------------
(***************************************************************************)
(* Proofs about B2Multipart for any finite set of uploads, any sweepers,    *)
(* number of parts and lease.                                              *)
(*                                                                         *)
(* Two facts carry the properties: what put_file is at bounds what B2 can   *)
(* have of its upload, and a row is there from the first part on for as     *)
(* long as the upload is open (Sound); and while put_file keeps its lease,  *)
(* the lease outlasts the time it was quiet and no sweep has the row in its *)
(* batch (Leases).                                                          *)
(***************************************************************************)
EXTENDS B2Multipart, FiniteSetTheorems, TLAPS

Early(u) == work[u].at \in {"new", "starting", "record"}
InBatch(u) == \E s \in Sweepers : \E i \in 1..Len(batch[s]) : batch[s][i] = u

\* TypeOK but for the order of the batches.
Typed ==
    /\ remote \in [Uploads -> {"none", "open", "completed", "aborted"}]
    /\ stored \in [Uploads -> SUBSET (1..Parts)]
    /\ sent \in [Uploads -> {NoRequest, "create", "part", "complete"}]
    /\ work \in [Uploads -> [at : Steps, part : 1..Parts + 1]]
    /\ row \in [Uploads -> 0..NoRow]
    /\ batch \in [Sweepers -> Seq(Uploads)]
    /\ quiet \in [Uploads -> 0..TTL]

Distinct ==
    \A s \in Sweepers : \A i, j \in 1..Len(batch[s]) :
        batch[s][i] = batch[s][j] => i = j

\* What put_file is at bounds what B2 has of its upload.
Sound(u) ==
    \* Begun: B2 has the upload once put_file has its id, and not as an open one
    \* when put_file goes to remove the row.
    /\ At(u, "new") \/ sent[u] = "create" => remote[u] = "none"
    /\ At(u, "new") => sent[u] # "create"
    /\ Working(u) \/ work[u].at \in {"record", "abort", "forget"} => remote[u] # "none"
    /\ At(u, "forget") => remote[u] # "open"
    /\ remote[u] = "none" => stored[u] = {} /\ sent[u] # "part"
    \* Numbered: the part in flight is one of the file's that B2 does not have.
    /\ sent[u] = "part" =>
         /\ ~Early(u) /\ ~At(u, "renew") /\ work[u].part <= Parts
         /\ At(u, "uploading") => work[u].part \notin stored[u]
    /\ Early(u) => stored[u] = {}
    /\ At(u, "renew") => stored[u] \subseteq 1..(work[u].part - 1)
    /\ At(u, "uploading") => /\ stored[u] \subseteq 1..work[u].part
                             /\ work[u].part <= Parts
    \* Tracked: an open upload without a row has no part and none on its way.
    /\ remote[u] = "open" /\ row[u] = NoRow => stored[u] = {} /\ sent[u] # "part"

\* The lease of a put_file that was never quiet for a whole lease has not run
\* out, and no sweep has claimed it.
Leases ==
    \A u \in Uploads :
        /\ Early(u) => row[u] = NoRow /\ quiet[u] = 0 /\ ~InBatch(u)
        /\ Working(u) /\ quiet[u] < TTL =>
             row[u] <= TTL /\ row[u] + quiet[u] >= TTL /\ ~InBatch(u)

MInv == Typed /\ (\A u \in Uploads : Sound(u)) /\ Leases

-----------------------------------------------------------------------------
(* Batches. *)

\* A claimed batch lists stale rows, each once.
LEMMA BatchOfClaim ==
    ASSUME NEW S, S \subseteq Uploads, NEW order \in SetToSeqs(S)
    PROVE  /\ order \in Seq(Uploads)
           /\ \A i \in 1..Len(order) : order[i] \in S
           /\ \A i, j \in 1..Len(order) : order[i] = order[j] => i = j
<1>1. IsFiniteSet(S)
  BY FS_Subset, MultipartConstants
<1>2. Cardinality(S) \in Nat
  BY <1>1, FS_CardinalityType
<1>3. /\ order \in [1..Cardinality(S) -> S]
      /\ \A i, j \in 1..Cardinality(S) : i # j => order[i] # order[j]
  BY DEF SetToSeqs
<1>4. order \in [1..Cardinality(S) -> Uploads]
  BY <1>3
<1>. QED BY <1>2, <1>3, <1>4

\* Going on in a batch leaves a batch of later rows.
LEMMA BatchTail ==
    ASSUME NEW b \in Seq(Uploads), b # <<>>
    PROVE  /\ Head(b) \in Uploads /\ Head(b) = b[1] /\ 1 \in 1..Len(b)
           /\ Tail(b) \in Seq(Uploads)
           /\ \A i \in 1..Len(Tail(b)) : i + 1 \in 1..Len(b) /\ Tail(b)[i] = b[i + 1]
OBVIOUS

-----------------------------------------------------------------------------
(* What the parts of an action do. *)

\* Where put_file goes.
LEMMA GotoFacts ==
    ASSUME Typed, NEW u \in Uploads, NEW step \in Steps, NEW n \in 1..Parts + 1,
           Goto(u, step, n)
    PROVE  /\ work' \in [Uploads -> [at : Steps, part : 1..Parts + 1]]
           /\ work'[u].at = step /\ work'[u].part = n
           /\ \A v \in Uploads \ {u} : work'[v] = work[v]
BY DEF Typed, Goto

\* Leaving the loop keeps the number of a part in flight and calms the clock.
LEMMA LeaveFacts ==
    ASSUME Typed, NEW u \in Uploads, NEW step \in Steps, Leave(u, step)
    PROVE  /\ work' \in [Uploads -> [at : Steps, part : 1..Parts + 1]]
           /\ work'[u].at = step
           /\ sent[u] = "part" => work'[u].part = work[u].part
           /\ \A v \in Uploads \ {u} : work'[v] = work[v]
           /\ quiet' \in [Uploads -> 0..TTL]
           /\ quiet'[u] = 0
           /\ \A v \in Uploads \ {u} : quiet'[v] = quiet[v]
<1>1. (IF sent[u] = "part" THEN work[u].part ELSE 1) \in 1..Parts + 1
  BY MultipartConstants DEF Typed
<1>2. quiet' = [quiet EXCEPT ![u] = 0] /\ 0 \in 0..TTL
  BY MultipartConstants DEF Leave
<1>. QED BY <1>1, <1>2, GotoFacts DEF Leave, Typed

\* A lease is renewed for its full time.
LEMMA LeasedFacts ==
    ASSUME Typed, NEW u \in Uploads, Leased(u)
    PROVE  /\ row' \in [Uploads -> 0..NoRow]
           /\ row'[u] = TTL /\ TTL # NoRow
           /\ \A v \in Uploads \ {u} : row'[v] = row[v]
           /\ quiet' \in [Uploads -> 0..TTL]
           /\ quiet'[u] = IF quiet[u] = TTL THEN TTL ELSE 0
           /\ \A v \in Uploads \ {u} : quiet'[v] = quiet[v]
<1>1. TTL \in 0..NoRow /\ TTL # NoRow /\ TTL \in 0..TTL /\ 0 \in 0..TTL
  BY MultipartConstants DEF NoRow
<1>. QED BY <1>1 DEF Typed, Leased

\* An aborted upload is not open and has no parts; others stay as they are.
LEMMA DroppedFacts ==
    ASSUME Typed, NEW u \in Uploads, DropFails(u)
    PROVE  /\ remote' \in [Uploads -> {"none", "open", "completed", "aborted"}]
           /\ stored' \in [Uploads -> SUBSET (1..Parts)]
           /\ \A v \in Uploads : \/ remote'[v] = remote[v] /\ stored'[v] = stored[v]
                                 \/ /\ v = u /\ remote[v] = "open"
                                    /\ remote'[v] = "aborted" /\ stored'[v] = {}
BY DEF Typed, DropFails, Dropped

\* A request that takes effect, by kind.
LEMMA LandFacts ==
    ASSUME Typed, NEW u \in Uploads, Sound(u), Land(u)
    PROVE  /\ remote' \in [Uploads -> {"none", "open", "completed", "aborted"}]
           /\ stored' \in [Uploads -> SUBSET (1..Parts)]
<1>1. CASE sent[u] = "create"
  BY <1>1 DEF Typed, Land
<1>2. CASE sent[u] = "part"
  <2>1. work[u].part \in 1..Parts
    BY <1>2, MultipartConstants DEF Typed, Sound
  <2>2. UNCHANGED remote /\ (stored' = stored \/ stored' = [stored EXCEPT ![u] = @ \cup {work[u].part}])
    BY <1>2 DEF Land, Typed
  <2>3. stored[u] \cup {work[u].part} \in SUBSET (1..Parts)
    BY <2>1 DEF Typed
  <2>. QED BY <2>2, <2>3 DEF Typed
<1>3. CASE sent[u] = "complete"
  BY <1>3 DEF Typed, Land
<1>. QED BY <1>1, <1>2, <1>3 DEF Land

-----------------------------------------------------------------------------
(* Preservation: one lemma per conjunct of the invariant, by action. *)

\* The initial state satisfies the invariant.
LEMMA InitMInv == Init => MInv /\ Distinct
<1>. SUFFICES ASSUME Init PROVE MInv /\ Distinct
  OBVIOUS
<1>1. Typed
  BY MultipartConstants DEF Init, Typed, Steps, NoRow, NoRequest
<1>2. \A u \in Uploads : Sound(u)
  BY DEF Init, Sound, At, Working, Early, NoRow, NoRequest
<1>3. Leases /\ Distinct
  BY MultipartConstants DEF Init, Leases, Distinct, At, Working, Early, InBatch, NoRow
<1>. QED BY <1>1, <1>2, <1>3 DEF MInv

\* What an upload's own steps, B2 and time leave alone.
LEMMA OnlySweepsMoveBatches ==
    ASSUME Next, \A s \in Sweepers : ~Sweep(s)
    PROVE  batch' = batch
BY DEF Next, Upload, Land, Lose, Tick, Begin, Started, Record, RecordFails, Renew,
       PartStored, SendComplete, Completed, Error, Abort, Forget, Die, provider

\* Each step keeps the types.
LEMMA TypedStep ==
    ASSUME Typed, \A u \in Uploads : Sound(u), [Next]_vars
    PROVE  Typed'
<1>. USE MultipartConstants
<1>0. TTL \in 0..NoRow /\ NoRow \in 0..NoRow
  BY DEF NoRow
<1>1. ASSUME NEW u \in Uploads, Upload(u) PROVE Typed'
  <2>0. 1 \in 1..Parts + 1 /\ work[u].part \in 1..Parts + 1
    BY DEF Typed
  <2>1. CASE Begin(u)
    BY <2>0, <2>1, GotoFacts DEF Typed, Begin, Steps
  <2>2. CASE Started(u)
    BY <2>0, <2>2, GotoFacts DEF Typed, Started, Steps, provider
  <2>3. CASE Record(u)
    BY <2>0, <2>3, GotoFacts, LeasedFacts DEF Typed, Record, Steps, provider
  <2>4. CASE RecordFails(u)
    <3>1. row' \in [Uploads -> 0..NoRow]
      <4>1. row' = row \/ row' = [row EXCEPT ![u] = TTL]
        BY <2>4 DEF RecordFails
      <4>2. row \in [Uploads -> 0..NoRow]
        BY DEF Typed
      <4>. QED BY <4>1, <4>2, <1>0
    <3>. QED BY <2>4, <3>1, LeaveFacts, DroppedFacts DEF Typed, RecordFails, Steps
  <2>5. CASE Renew(u)
    BY <2>0, <2>5, GotoFacts, LeasedFacts DEF Typed, Renew, Steps
  <2>6. CASE PartStored(u)
    <3>1. work[u].part + 1 \in 1..Parts + 1
      BY <2>6 DEF Typed, PartStored
    <3>. QED BY <2>6, <3>1, GotoFacts DEF Typed, PartStored, Steps, provider
  <2>7. CASE SendComplete(u)
    BY <2>0, <2>7, GotoFacts DEF Typed, SendComplete, Steps
  <2>8. CASE Completed(u) \/ Error(u) \/ Die(u)
    BY <2>8, LeaveFacts DEF Typed, Completed, Error, Die, Steps, provider
  <2>9. CASE Abort(u)
    <3>1. DropFails(u)
      BY <2>9 DEF Abort, DropFails
    <3>. QED BY <2>9, <3>1, LeaveFacts, DroppedFacts DEF Typed, Abort, Steps
  <2>10. CASE Forget(u)
    <3>1. row' \in [Uploads -> 0..NoRow]
      <4>1. row' = row \/ row' = [row EXCEPT ![u] = NoRow]
        BY <2>10 DEF Forget
      <4>2. row \in [Uploads -> 0..NoRow]
        BY DEF Typed
      <4>. QED BY <4>1, <4>2, <1>0
    <3>. QED BY <2>10, <3>1, LeaveFacts DEF Typed, Forget, Steps, provider
  <2>. QED BY <1>1, <2>1, <2>2, <2>3, <2>4, <2>5, <2>6, <2>7, <2>8, <2>9, <2>10 DEF Upload
<1>2. ASSUME NEW u \in Uploads, Land(u) PROVE Typed'
  BY <1>2, LandFacts DEF Typed, Land, NoRequest
<1>3. ASSUME NEW u \in Uploads, Lose(u) PROVE Typed'
  BY <1>3 DEF Typed, Lose, NoRequest
<1>4. ASSUME NEW s \in Sweepers, Claim(s) PROVE Typed'
  <2>1. PICK order \in SetToSeqs({u \in Uploads : Stale(u)}) :
           batch' = [batch EXCEPT ![s] = order]
    BY <1>4 DEF Claim
  <2>2. order \in Seq(Uploads)
    BY BatchOfClaim, {u \in Uploads : Stale(u)} \subseteq Uploads
  <2>. QED BY <1>4, <2>1, <2>2 DEF Typed, Claim, NoRow, provider
<1>5. ASSUME NEW s \in Sweepers, NEW u \in Uploads, SweepRow(s, u) PROVE Typed'
  <2>1. Tail(batch[s]) \in Seq(Uploads)
    BY <1>5, BatchTail DEF SweepRow, Typed
  <2>2. batch' \in [Sweepers -> Seq(Uploads)]
    BY <1>5, <2>1 DEF SweepRow, Typed
  <2>3. row' \in [Uploads -> 0..NoRow]
    BY <1>0, <1>5 DEF SweepRow, Typed
  <2>4. DropFails(u)
    BY <1>5 DEF SweepRow, DropFails
  <2>. QED BY <1>5, <2>2, <2>3, <2>4, DroppedFacts DEF Typed, SweepRow
<1>6. ASSUME NEW s \in Sweepers, SweepFails(s) PROVE Typed'
  <2>1. Head(batch[s]) \in Uploads
    BY <1>6, BatchTail DEF SweepFails, Typed
  <2>2. batch' \in [Sweepers -> Seq(Uploads)]
    <3>1. <<>> \in Seq(Uploads)
      OBVIOUS
    <3>. QED BY <1>6, <3>1 DEF SweepFails, Typed
  <2>. QED BY <1>6, <2>1, <2>2, DroppedFacts DEF Typed, SweepFails
<1>7. CASE Tick
  BY <1>7 DEF Typed, Tick, NoRow, provider
<1>8. CASE UNCHANGED vars
  BY <1>8 DEF Typed, vars
<1>. QED BY <1>1, <1>2, <1>3, <1>4, <1>5, <1>6, <1>7, <1>8 DEF Next, Sweep

\* The steps of one upload keep it sound.
LEMMA OwnStepSound ==
    ASSUME Typed, NEW u \in Uploads, Sound(u), Upload(u)
    PROVE  Sound(u)'
<1>. USE MultipartConstants DEF Sound, At, Working, Early
<1>0. /\ 1 \in 1..Parts + 1 /\ work[u].part \in 1..Parts + 1
      /\ remote[u] \in {"none", "open", "completed", "aborted"}
      /\ stored[u] \subseteq 1..Parts
  BY DEF Typed
<1>1. CASE Begin(u)
  <2>1. /\ work'[u].at = "starting" /\ sent'[u] = "create"
        /\ UNCHANGED <<remote, stored, row>>
    BY <1>0, <1>1, GotoFacts DEF Begin, Steps, Typed
  <2>. QED BY <1>1, <2>1 DEF Begin
<1>2. CASE Started(u)
  <2>1. work'[u].at = "record" /\ UNCHANGED <<remote, stored, sent, row>>
    BY <1>0, <1>2, GotoFacts DEF Started, Steps, provider
  <2>. QED BY <1>2, <2>1 DEF Started
<1>3. CASE Record(u)
  <2>1. /\ work'[u].at = "renew" /\ work'[u].part = 1
        /\ UNCHANGED <<remote, stored, sent>> /\ row'[u] # NoRow
    BY <1>0, <1>3, GotoFacts, LeasedFacts DEF Record, Steps, provider
  <2>. QED BY <1>3, <2>1 DEF Record
<1>4. CASE RecordFails(u)
  <2>1. /\ work'[u].at = "done" /\ sent'[u] = sent[u]
        /\ \/ remote'[u] = remote[u] /\ stored'[u] = stored[u]
           \/ remote'[u] = "aborted" /\ stored'[u] = {}
    BY <1>4, LeaveFacts, DroppedFacts DEF RecordFails, Steps
  <2>. QED BY <1>4, <2>1 DEF RecordFails
<1>5. CASE Renew(u)
  <2>1. /\ work'[u].at = "uploading" /\ work'[u].part = work[u].part
        /\ UNCHANGED <<remote, stored>> /\ sent'[u] = "part" /\ row'[u] # NoRow
    BY <1>0, <1>5, GotoFacts, LeasedFacts DEF Renew, Steps, Typed
  <2>2. work[u].part \notin stored[u] /\ stored[u] \subseteq 1..work[u].part
    BY <1>0, <1>5 DEF Renew
  <2>. QED BY <1>5, <2>1, <2>2 DEF Renew
<1>6. CASE PartStored(u)
  <2>1. work[u].part + 1 \in 1..Parts + 1
    BY <1>6 DEF Typed, PartStored
  <2>2. /\ work'[u].at = "renew" /\ work'[u].part = work[u].part + 1
        /\ UNCHANGED <<remote, stored, sent, row>>
    BY <1>6, <2>1, GotoFacts DEF PartStored, Steps, provider
  <2>3. sent[u] # "part" /\ stored[u] \subseteq 1..(work'[u].part - 1)
    BY <1>0, <1>6, <2>2 DEF PartStored
  <2>. QED BY <1>6, <2>2, <2>3 DEF PartStored
<1>7. CASE SendComplete(u)
  <2>1. /\ work'[u].at = "completing" /\ sent'[u] = "complete"
        /\ UNCHANGED <<remote, stored, row>>
    BY <1>0, <1>7, GotoFacts DEF SendComplete, Steps, Typed
  <2>. QED BY <1>7, <2>1 DEF SendComplete
<1>8. CASE Completed(u) \/ Error(u) \/ Die(u)
  <2>1. /\ work'[u].at \in {"forget", "abort", "dead"}
        /\ sent[u] = "part" => work'[u].part = work[u].part
        /\ UNCHANGED <<remote, stored, sent, row>>
    BY <1>8, LeaveFacts DEF Completed, Error, Die, Steps, provider
  <2>2. work'[u].at # "dead" => Working(u)
    BY <1>8, LeaveFacts DEF Completed, Error, Die, Steps
  <2>3. work'[u].at = "forget" => remote[u] # "open"
    BY <1>8, LeaveFacts DEF Completed, Error, Die, Steps
  <2>. QED BY <2>1, <2>2, <2>3
<1>9. CASE Abort(u)
  <2>1. DropFails(u) /\ sent'[u] = sent[u] /\ row'[u] = row[u]
    BY <1>9 DEF Abort, DropFails
  <2>2. /\ work'[u].at \in {"forget", "done"}
        /\ sent[u] = "part" => work'[u].part = work[u].part
        /\ work'[u].at = "forget" => Dropped(u)
    BY <1>9, LeaveFacts DEF Abort, Steps
  <2>3. Dropped(u) => remote'[u] # "open"
    BY DEF Dropped, Typed
  <2>4. \/ remote'[u] = remote[u] /\ stored'[u] = stored[u]
        \/ remote'[u] = "aborted" /\ stored'[u] = {}
    BY <2>1, DroppedFacts
  <2>. QED BY <1>9, <2>1, <2>2, <2>3, <2>4 DEF Abort
<1>10. CASE Forget(u)
  <2>1. /\ work'[u].at = "done"
        /\ sent[u] = "part" => work'[u].part = work[u].part
        /\ UNCHANGED <<remote, stored, sent>>
    BY <1>10, LeaveFacts DEF Forget, Steps, provider
  <2>. QED BY <1>10, <2>1 DEF Forget
<1>. QED BY <1>1, <1>2, <1>3, <1>4, <1>5, <1>6, <1>7, <1>8, <1>9, <1>10 DEF Upload

\* A step of another upload, of a sweep or of time leaves the upload as it is,
\* or aborts it.
LEMMA OtherStepSound ==
    ASSUME Typed, NEW u \in Uploads, Sound(u),
           work'[u] = work[u], sent'[u] = sent[u],
           \/ remote'[u] = remote[u] /\ stored'[u] = stored[u]
           \/ remote[u] = "open" /\ remote'[u] = "aborted" /\ stored'[u] = {},
           row'[u] = NoRow => row[u] = NoRow \/ remote'[u] # "open"
    PROVE  Sound(u)'
BY DEF Sound, At, Working, Early

\* Each step keeps every upload sound.
LEMMA SoundStep ==
    ASSUME Typed, \A v \in Uploads : Sound(v), [Next]_vars, NEW u \in Uploads
    PROVE  Sound(u)'
<1>0. TTL # NoRow /\ NoRow # 0
  BY MultipartConstants DEF NoRow
<1>1. CASE Upload(u)
  BY <1>1, OwnStepSound
<1>2. ASSUME NEW v \in Uploads \ {u}, Upload(v) PROVE Sound(u)'
  <2>1. /\ work'[u] = work[u] /\ sent'[u] = sent[u] /\ row'[u] = row[u]
        /\ remote'[u] = remote[u] /\ stored'[u] = stored[u]
    BY <1>2 DEF Typed, Upload, Begin, Started, Record, RecordFails, Renew, PartStored,
                SendComplete, Completed, Error, Abort, Forget, Die, Leased, Leave, Goto,
                DropFails, Dropped, provider
  <2>. QED BY <2>1, OtherStepSound
<1>3. CASE Land(u)
  <2>1. sent'[u] = NoRequest /\ UNCHANGED <<work, row>>
    BY <1>3 DEF Land, Typed
  <2>11. sent[u] = "create" => remote'[u] = "open" /\ stored'[u] = stored[u]
    BY <1>3 DEF Land, Typed
  <2>12. sent[u] = "part" =>
             /\ remote'[u] = remote[u]
             /\ stored'[u] \in {stored[u], stored[u] \cup {work[u].part}}
    BY <1>3 DEF Land, Typed
  <2>13. sent[u] = "complete" =>
             \/ remote'[u] = remote[u] /\ stored'[u] = stored[u]
             \/ remote[u] = "open" /\ remote'[u] = "completed" /\ stored'[u] = {}
    BY <1>3 DEF Land, Typed
  <2>14. sent[u] \in {"create", "part", "complete"}
    BY <1>3 DEF Land
  <2>2. CASE sent[u] = "create"
    BY <2>1, <2>11, <2>2 DEF Sound, At, Working, Early, NoRequest
  <2>3. CASE sent[u] = "part"
    <3>1. At(u, "uploading") => stored'[u] \subseteq 1..work[u].part
      BY <2>12, <2>3, MultipartConstants DEF Sound, Typed
    <3>. QED BY <2>1, <2>12, <2>3, <3>1 DEF Sound, At, Working, Early, NoRequest
  <2>4. CASE sent[u] = "complete"
    BY <2>1, <2>13, <2>4 DEF Sound, At, Working, Early, NoRequest
  <2>. QED BY <2>14, <2>2, <2>3, <2>4
<1>4. CASE Lose(u)
  BY <1>4 DEF Lose, Typed, Sound, At, Working, Early, NoRequest
<1>5. ASSUME NEW v \in Uploads \ {u}, Land(v) \/ Lose(v) PROVE Sound(u)'
  <2>1. /\ work'[u] = work[u] /\ sent'[u] = sent[u] /\ row'[u] = row[u]
        /\ remote'[u] = remote[u] /\ stored'[u] = stored[u]
    BY <1>5 DEF Typed, Land, Lose
  <2>. QED BY <2>1, OtherStepSound
<1>6. ASSUME NEW s \in Sweepers, Claim(s) PROVE Sound(u)'
  <2>1. /\ UNCHANGED <<work, remote, stored, sent>>
        /\ row'[u] = NoRow => row[u] = NoRow
    BY <1>0, <1>6 DEF Claim, Stale, provider
  <2>. QED BY <2>1, OtherStepSound
<1>7. ASSUME NEW s \in Sweepers, NEW v \in Uploads, SweepRow(s, v) PROVE Sound(u)'
  <2>1. /\ UNCHANGED <<work, sent>>
        /\ row'[u] = NoRow => row[u] = NoRow \/ v = u
        /\ DropFails(v) /\ (v = u => remote'[u] # "open")
    BY <1>7 DEF SweepRow, DropFails, Dropped, Typed
  <2>. QED BY <2>1, DroppedFacts, OtherStepSound
<1>8. ASSUME NEW s \in Sweepers, SweepFails(s) PROVE Sound(u)'
  <2>1. Head(batch[s]) \in Uploads
    BY <1>8, BatchTail DEF SweepFails, Typed
  <2>2. UNCHANGED <<work, sent, row>> /\ DropFails(Head(batch[s]))
    BY <1>8 DEF SweepFails
  <2>. QED BY <2>1, <2>2, DroppedFacts, OtherStepSound
<1>9. CASE Tick
  <2>1. /\ UNCHANGED <<work, remote, stored, sent>>
        /\ row'[u] = NoRow => row[u] = NoRow
    BY <1>9, MultipartConstants DEF Tick, Typed, NoRow, provider
  <2>. QED BY <2>1, OtherStepSound
<1>10. CASE UNCHANGED vars
  BY <1>10, OtherStepSound DEF vars
<1>. QED BY <1>1, <1>2, <1>3, <1>4, <1>5, <1>6, <1>7, <1>8, <1>9, <1>10 DEF Next, Sweep

\* A batch shrinks, or takes rows whose lease ran out.
LEMMA BatchStep ==
    ASSUME Typed, [Next]_vars, NEW u \in Uploads, InBatch(u)'
    PROVE  InBatch(u) \/ Stale(u)
<1>1. CASE batch' = batch
  BY <1>1 DEF InBatch
<1>2. ASSUME NEW s \in Sweepers, Claim(s) PROVE InBatch(u) \/ Stale(u)
  <2>1. PICK order \in SetToSeqs({v \in Uploads : Stale(v)}) :
           batch' = [batch EXCEPT ![s] = order]
    BY <1>2 DEF Claim
  <2>2. \A i \in 1..Len(order) : order[i] \in {v \in Uploads : Stale(v)}
    BY BatchOfClaim, {v \in Uploads : Stale(v)} \subseteq Uploads
  <2>. QED BY <2>1, <2>2 DEF InBatch, Typed
<1>3. ASSUME NEW s \in Sweepers, NEW v \in Uploads, SweepRow(s, v)
      PROVE InBatch(u) \/ Stale(u)
  <2>1. batch[s] \in Seq(Uploads) /\ batch[s] # <<>>
    BY <1>3 DEF SweepRow, Typed
  <2>2. \A i \in 1..Len(Tail(batch[s])) :
           i + 1 \in 1..Len(batch[s]) /\ Tail(batch[s])[i] = batch[s][i + 1]
    BY <2>1, BatchTail
  <2>3. batch' = [batch EXCEPT ![s] = Tail(batch[s])]
    BY <1>3 DEF SweepRow
  <2>. QED BY <2>2, <2>3 DEF InBatch, Typed
<1>4. ASSUME NEW s \in Sweepers, SweepFails(s) PROVE InBatch(u) \/ Stale(u)
  <2>1. batch' = [batch EXCEPT ![s] = <<>>]
    BY <1>4 DEF SweepFails
  <2>. QED BY <2>1 DEF InBatch, Typed
<1>5. CASE UNCHANGED vars
  BY <1>5, <1>1 DEF vars
<1>. QED BY <1>1, <1>2, <1>3, <1>4, <1>5, OnlySweepsMoveBatches DEF Sweep

\* Each step keeps the lease of a prompt upload ahead of the clock.
LEMMA LeasesStep ==
    ASSUME Typed, Leases, [Next]_vars
    PROVE  Leases'
<1>. USE MultipartConstants
<1>1. \A u \in Uploads : InBatch(u)' => InBatch(u) \/ Stale(u)
  BY BatchStep
<1>2. \A u \in Uploads : Stale(u) => ~Early(u) /\ ~(Working(u) /\ quiet[u] < TTL)
  BY DEF Stale, Leases, Typed, NoRow
<1>3. ASSUME NEW u \in Uploads, Upload(u) PROVE Leases'
  <2>1. batch' = batch
    BY <1>3 DEF Upload, Begin, Started, Record, RecordFails, Renew, PartStored, SendComplete,
                Completed, Error, Abort, Forget, Die, provider
  <2>2. \A v \in Uploads : InBatch(v)' <=> InBatch(v)
    BY <2>1 DEF InBatch
  <2>3. CASE Begin(u) \/ Started(u) \/ PartStored(u) \/ SendComplete(u)
    BY <2>2, <2>3 DEF Typed, Leases, Begin, Started, PartStored, SendComplete, Goto, provider,
                      At, Working, Early
  <2>4. CASE Record(u) \/ Renew(u)
    <3>1. /\ Leased(u) /\ \E step \in Steps, n \in 1..Parts + 1 : Goto(u, step, n)
          /\ Early(u) \/ Working(u)
      BY <2>4, MultipartConstants DEF Record, Renew, At, Steps, Typed, Early, Working
    <3>2. work'[u].at \in {"renew", "uploading"} /\ \A v \in Uploads \ {u} : work'[v] = work[v]
      BY <2>4 DEF Record, Renew, Goto, Typed
    <3>3. (~InBatch(u) /\ row'[u] = TTL) \/ quiet[u] = TTL
      BY <3>1, LeasedFacts DEF Leases, Typed
    <3>4. /\ ~Early(u)' /\ row'[u] = TTL /\ quiet'[u] \in {0, TTL}
          /\ quiet[u] # TTL => ~InBatch(u) /\ quiet'[u] = 0
          /\ quiet[u] = TTL => quiet'[u] = TTL
      BY <3>1, <3>2, <3>3, LeasedFacts DEF Early, Leases, Typed, Working
    <3>5. \A v \in Uploads \ {u} : row'[v] = row[v] /\ quiet'[v] = quiet[v]
      BY <3>1, LeasedFacts
    <3>. QED BY <2>2, <3>2, <3>4, <3>5 DEF Leases, Working, Early
  <2>5. CASE Completed(u) \/ Error(u) \/ Die(u)
    BY <2>2, <2>5, LeaveFacts DEF Typed, Leases, Completed, Error, Die, provider, Working,
                                  Early, Steps
  <2>6. CASE RecordFails(u) \/ Abort(u) \/ Forget(u)
    BY <2>2, <2>6 DEF Typed, Leases, RecordFails, Abort, Forget, Leave, Goto, At, Working, Early
  <2>. QED BY <1>3, <2>3, <2>4, <2>5, <2>6 DEF Upload
<1>4. ASSUME NEW u \in Uploads, Land(u) \/ Lose(u) PROVE Leases'
  BY <1>1, <1>2, <1>4 DEF Leases, Land, Lose, Working, Early
<1>5. ASSUME NEW s \in Sweepers, Claim(s) PROVE Leases'
  <2>1. UNCHANGED <<work, quiet>>
    BY <1>5 DEF Claim
  <2>2. \A u \in Uploads : ~Stale(u) => row'[u] = row[u]
    BY <1>5 DEF Claim
  <2>. QED BY <1>1, <1>2, <2>1, <2>2 DEF Leases, Working, Early
<1>6. ASSUME NEW s \in Sweepers, NEW u \in Uploads, SweepRow(s, u) PROVE Leases'
  <2>1. InBatch(u)
    BY <1>6, BatchTail DEF SweepRow, InBatch, Typed
  <2>2. UNCHANGED <<work, quiet>> /\ row' = [row EXCEPT ![u] = NoRow]
    BY <1>6 DEF SweepRow
  <2>. QED BY <1>1, <1>2, <2>1, <2>2 DEF Leases, Working, Early, Typed
<1>7. ASSUME NEW s \in Sweepers, SweepFails(s) PROVE Leases'
  <2>1. UNCHANGED <<work, row, quiet>>
    BY <1>7 DEF SweepFails
  <2>. QED BY <1>1, <1>2, <2>1 DEF Leases, Working, Early
<1>8. CASE Tick
  BY <1>1, <1>2, <1>8 DEF Typed, Leases, Tick, NoRow, Working, Early
<1>9. CASE UNCHANGED vars
  BY <1>1, <1>2, <1>9 DEF Leases, vars, Working, Early
<1>. QED BY <1>3, <1>4, <1>5, <1>6, <1>7, <1>8, <1>9 DEF Next, Sweep

\* No step puts a row twice into a batch.
LEMMA DistinctStep ==
    ASSUME Typed, Distinct, [Next]_vars
    PROVE  Distinct'
<1>1. CASE batch' = batch
  BY <1>1 DEF Distinct
<1>2. ASSUME NEW s \in Sweepers, Claim(s) PROVE Distinct'
  <2>1. PICK order \in SetToSeqs({v \in Uploads : Stale(v)}) :
           batch' = [batch EXCEPT ![s] = order]
    BY <1>2 DEF Claim
  <2>2. \A i, j \in 1..Len(order) : order[i] = order[j] => i = j
    BY BatchOfClaim, {v \in Uploads : Stale(v)} \subseteq Uploads
  <2>. QED BY <2>1, <2>2 DEF Distinct, Typed
<1>3. ASSUME NEW s \in Sweepers, NEW v \in Uploads, SweepRow(s, v) PROVE Distinct'
  <2>1. batch[s] \in Seq(Uploads) /\ batch[s] # <<>>
    BY <1>3 DEF SweepRow, Typed
  <2>2. /\ Tail(batch[s]) \in Seq(Uploads)
        /\ \A i \in 1..Len(Tail(batch[s])) :
             i + 1 \in 1..Len(batch[s]) /\ Tail(batch[s])[i] = batch[s][i + 1]
    BY <2>1, BatchTail
  <2>3. batch' = [batch EXCEPT ![s] = Tail(batch[s])]
    BY <1>3 DEF SweepRow
  <2>4. \A i, j \in 1..Len(Tail(batch[s])) : Tail(batch[s])[i] = Tail(batch[s])[j] => i = j
    BY <2>1, <2>2 DEF Distinct
  <2>. QED BY <2>3, <2>4 DEF Distinct, Typed
<1>4. ASSUME NEW s \in Sweepers, SweepFails(s) PROVE Distinct'
  <2>1. batch' = [batch EXCEPT ![s] = <<>>]
    BY <1>4 DEF SweepFails
  <2>. QED BY <2>1 DEF Distinct, Typed
<1>5. CASE UNCHANGED vars
  BY <1>5, <1>1 DEF vars
<1>. QED BY <1>1, <1>2, <1>3, <1>4, <1>5, OnlySweepsMoveBatches DEF Sweep

-----------------------------------------------------------------------------
(* The theorems. *)

\* The invariant holds in every reachable state.
THEOREM MInvHolds == Spec => [](MInv /\ Distinct)
<1>1. ASSUME MInv, Distinct, [Next]_vars PROVE MInv' /\ Distinct'
  BY <1>1, TypedStep, SoundStep, LeasesStep, DistinctStep DEF MInv
<1>. QED BY InitMInv, <1>1, PTL DEF Spec

\* Every variable keeps its shape and no sweep claims a row twice.
THEOREM MultipartTyped == Spec => []TypeOK
<1>1. ASSUME Typed, Distinct PROVE TypeOK
  <2>1. ASSUME NEW s \in Sweepers PROVE IsInjective(batch[s])
    <3>1. DOMAIN batch[s] = 1..Len(batch[s])
      BY <1>1 DEF Typed
    <3>. QED BY <1>1, <3>1 DEF Distinct, IsInjective
  <2>. QED BY <1>1, <2>1 DEF Typed, TypeOK
<1>. QED BY MInvHolds, <1>1, PTL DEF MInv

\* put_file, track and the sweep: an open upload with a part has a row.
THEOREM UntrackedAreEmpty == Spec => []UntrackedIsEmpty
<1>1. MInv => UntrackedIsEmpty
  BY DEF MInv, Sound, UntrackedIsEmpty
<1>. QED BY MInvHolds, <1>1, PTL

\* sweep_stale_multipart never aborts the upload of a put_file that renewed its
\* lease in time.
THEOREM PromptSurvive == Spec => PromptUploadsSurvive
<1>1. ASSUME MInv, [Next]_vars, NEW u \in Uploads, Working(u), Working(u)',
             remote[u] = "open", quiet[u] < TTL
      PROVE  remote'[u] # "aborted"
  <2>1. ~InBatch(u)
    BY <1>1 DEF MInv, Leases
  <2>2. ASSUME NEW v \in Uploads, Upload(v) \/ Land(v) \/ Lose(v) PROVE remote'[u] # "aborted"
    <3>1. CASE RecordFails(v) \/ Abort(v)
      <4>1. v # u
        BY <1>1, <3>1 DEF RecordFails, Abort, At, Working
      <4>. QED BY <1>1, <3>1, <4>1 DEF RecordFails, Abort, DropFails, Dropped, MInv, Typed
    <3>2. CASE Land(v)
      BY <1>1, <3>2 DEF Land, MInv, Typed
    <3>. QED BY <1>1, <2>2, <3>1, <3>2 DEF Upload, Lose, Begin, Started, Record, Renew,
                PartStored, SendComplete, Completed, Error, Forget, Die, provider
  <2>3. ASSUME NEW s \in Sweepers, Sweep(s) PROVE remote'[u] # "aborted"
    <3>1. CASE Claim(s)
      BY <1>1, <3>1 DEF Claim, provider
    <3>2. CASE ~Claim(s)
      <4>1. batch[s] # <<>> /\ (\A v \in Uploads : SweepRow(s, v) => v = Head(batch[s]))
        BY <2>3, <3>2 DEF Sweep, SweepRow, SweepFails
      <4>2. Head(batch[s]) \in Uploads /\ InBatch(Head(batch[s]))
        BY <1>1, <4>1, BatchTail DEF InBatch, MInv, Typed
      <4>3. Head(batch[s]) # u
        BY <2>1, <4>2
      <4>. QED BY <1>1, <2>3, <3>2, <4>1, <4>2, <4>3
                  DEF Sweep, SweepRow, SweepFails, DropFails, Dropped, MInv, Typed
    <3>. QED BY <3>1, <3>2
  <2>4. CASE Tick
    BY <1>1, <2>4 DEF Tick, provider
  <2>5. CASE UNCHANGED vars
    BY <1>1, <2>5 DEF vars
  <2>. QED BY <1>1, <2>2, <2>3, <2>4, <2>5 DEF Next
<1>2. MInv /\ [Next]_vars =>
        [\A u \in Uploads :
           Working(u) /\ Working(u)' /\ remote[u] = "open" /\ quiet[u] < TTL
              => remote'[u] # "aborted"]_vars
  BY <1>1
<1>. QED BY MInvHolds, <1>2, PTL DEF Spec, PromptUploadsSurvive
=============================================================================
