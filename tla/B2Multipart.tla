---------------------------- MODULE B2Multipart ----------------------------
(***************************************************************************)
(* Multipart uploads to B2 (src/src/storage/b2.rs: put_file above one part, *)
(* track, sweep_stale_multipart; table b2_multipart_intents).               *)
(*                                                                         *)
(* An upload is begun at B2, recorded with a lease of ten minutes that      *)
(* every part renews, completed or aborted, and its record removed.  Each   *)
(* server process sweeps records whose lease ran out: it claims a batch,    *)
(* aborts one upload after the other at B2 and removes their records.  All  *)
(* B2 requests are messages: the answer may be lost, and a request that     *)
(* timed out may still take effect.                                         *)
(*                                                                         *)
(* An upload stands for one call of put_file on one file; which version of  *)
(* the object a second call leaves is the subject of CanonicalStorage.  The *)
(* limit of 100 rows in a batch is left out.                                *)
(***************************************************************************)
EXTENDS Naturals, Sequences, SequencesExt

CONSTANTS
    Uploads,
    Sweepers,
    Parts,    \* how many parts each file has
    TTL       \* the lease, in ticks

ASSUME MultipartConstants ==
    IsFiniteSet(Uploads) /\ Parts \in Nat \ {0} /\ TTL \in Nat \ {0}

VARIABLES
    remote,   \* each multipart upload at B2
    stored,   \* the parts B2 has of it
    sent,     \* the request of put_file that has not taken effect yet
    work,     \* where put_file is
    row,      \* rows of b2_multipart_intents: the lease that is left
    batch,    \* the rows each sweep has claimed and still has to go through
    quiet     \* history: ticks since put_file last renewed its lease; TTL for
              \* good once it was quiet for that long

provider == <<remote, stored, sent>>
vars == <<remote, stored, sent, work, row, batch, quiet>>

-----------------------------------------------------------------------------
NoRow == TTL + 1
NoRequest == "none"

\* What put_file awaits or does next; part is the number of the next part.
Steps == {"new", "starting", "record", "renew", "uploading", "completing",
          "abort", "forget", "done", "dead"}

At(u, step) == work[u].at = step
Alive(u) == work[u].at \notin {"new", "done", "dead"}
Working(u) == work[u].at \in {"renew", "uploading", "completing"}

Init ==
    /\ remote = [u \in Uploads |-> "none"]
    /\ stored = [u \in Uploads |-> {}]
    /\ sent = [u \in Uploads |-> NoRequest]
    /\ work = [u \in Uploads |-> [at |-> "new", part |-> 1]]
    /\ row = [u \in Uploads |-> NoRow]
    /\ batch = [s \in Sweepers |-> <<>>]
    /\ quiet = [u \in Uploads |-> 0]

-----------------------------------------------------------------------------
(* put_file *)

Goto(u, step, part) ==
    work' = [work EXCEPT ![u] = [at |-> step, part |-> part]]

\* The loop is left; a part in flight keeps its number.
Leave(u, step) ==
    /\ Goto(u, step, IF sent[u] = "part" THEN work[u].part ELSE 1)
    /\ quiet' = [quiet EXCEPT ![u] = 0]

\* The DELETE of an upload: B2 drops an open one with its parts and answers
\* 404 to any other.
Dropped(u) ==
    IF remote[u] = "open"
    THEN /\ remote' = [remote EXCEPT ![u] = "aborted"]
         /\ stored' = [stored EXCEPT ![u] = {}]
    ELSE UNCHANGED <<remote, stored>>

\* The DELETE has an error for an answer: perhaps B2 dropped the upload.
DropFails(u) == Dropped(u) \/ UNCHANGED <<remote, stored>>

Begin(u) ==
    /\ At(u, "new")
    /\ sent' = [sent EXCEPT ![u] = "create"]
    /\ Goto(u, "starting", 1)
    /\ UNCHANGED <<remote, stored, row, batch, quiet>>

\* The id arrived.
Started(u) ==
    /\ At(u, "starting")
    /\ remote[u] # "none"
    /\ Goto(u, "record", 1)
    /\ UNCHANGED <<provider, row, batch, quiet>>

\* Mistake: ON CONFLICT DO NOTHING.
LeasedOnce(u) ==
    /\ row' = [row EXCEPT ![u] = IF @ = NoRow THEN TTL ELSE @]
    /\ quiet' = [quiet EXCEPT ![u] = IF @ = TTL THEN TTL ELSE 0]

\* track: insert the row or renew its lease.
Leased(u) ==
    /\ row' = [row EXCEPT ![u] = TTL]
    /\ quiet' = [quiet EXCEPT ![u] = IF @ = TTL THEN TTL ELSE 0]

\* The upload is recorded before its first part.
Record(u) ==
    /\ At(u, "record")
    /\ Leased(u)
    /\ Goto(u, "renew", 1)
    /\ UNCHANGED <<provider, batch>>

\* The statement failed, or its answer was lost: one attempt to abort, whatever
\* comes of it.
RecordFails(u) ==
    /\ At(u, "record")
    /\ DropFails(u)
    /\ row' \in {row, [row EXCEPT ![u] = TTL]}
    /\ Leave(u, "done")
    /\ UNCHANGED <<sent, batch>>

\* Renew the lease, then send the next part.
Renew(u) ==
    /\ At(u, "renew")
    /\ work[u].part <= Parts
    /\ Leased(u)
    /\ Goto(u, "uploading", work[u].part)
    /\ sent' = [sent EXCEPT ![u] = "part"]
    /\ UNCHANGED <<remote, stored, batch>>

\* B2 answered that it has the part.
PartStored(u) ==
    /\ At(u, "uploading")
    /\ work[u].part \in stored[u]
    /\ Goto(u, "renew", work[u].part + 1)
    /\ UNCHANGED <<provider, row, batch, quiet>>

SendComplete(u) ==
    /\ At(u, "renew")
    /\ work[u].part = Parts + 1
    /\ sent' = [sent EXCEPT ![u] = "complete"]
    /\ Goto(u, "completing", work[u].part)
    /\ UNCHANGED <<remote, stored, row, batch, quiet>>

\* The result names the new version, which reads back.
Completed(u) ==
    /\ At(u, "completing")
    /\ remote[u] = "completed"
    /\ Leave(u, "forget")
    /\ UNCHANGED <<provider, row, batch>>

\* Any error: a refused or lost renewal, part or completion, a short file, a
\* version that does not read back.
Error(u) ==
    /\ Working(u)
    /\ Leave(u, "abort")
    /\ UNCHANGED <<provider, row, batch>>

\* The record goes only once B2 has confirmed that the upload is not open.
Abort(u) ==
    /\ At(u, "abort")
    /\ \/ Dropped(u) /\ Leave(u, "forget")
       \/ DropFails(u) /\ Leave(u, "done")
    /\ UNCHANGED <<sent, row, batch>>

\* track with remove; if it fails the row is left to the sweep.
Forget(u) ==
    /\ At(u, "forget")
    /\ row' \in {row, [row EXCEPT ![u] = NoRow]}
    /\ Leave(u, "done")
    /\ UNCHANGED <<provider, batch>>

\* No id ever arrives, the client goes away or the process dies.
Die(u) ==
    /\ Alive(u)
    /\ Leave(u, "dead")
    /\ UNCHANGED <<provider, row, batch>>

-----------------------------------------------------------------------------
(* sweep_stale_multipart *)

\* Mistake: the sweep looks for uploads that put_file has given up.
StaleOnceDone(u) == row[u] = 0 /\ At(u, "done")

Stale(u) == row[u] = 0

\* Claim the stale rows with a fresh lease; UPDATE .. RETURNING gives them in
\* no particular order.
Claim(s) ==
    /\ batch[s] = <<>>
    /\ \E u \in Uploads : Stale(u)
    /\ \E order \in SetToSeqs({u \in Uploads : Stale(u)}) :
         batch' = [batch EXCEPT ![s] = order]
    /\ row' = [u \in Uploads |-> IF Stale(u) THEN TTL ELSE row[u]]
    /\ UNCHANGED <<provider, work, quiet>>

\* Mistake: the row goes although B2 did not confirm.
SweepRowAnyway(s, u) ==
    /\ batch[s] # <<>>
    /\ Head(batch[s]) = u
    /\ DropFails(u)
    /\ row' = [row EXCEPT ![u] = NoRow]
    /\ batch' = [batch EXCEPT ![s] = Tail(@)]
    /\ UNCHANGED <<sent, work, quiet>>

\* B2 aborts the upload or answers 404, and the row goes.  Nothing opens the
\* upload again, so that it does not matter when its row goes.
SweepRow(s, u) ==
    /\ batch[s] # <<>>
    /\ Head(batch[s]) = u
    /\ Dropped(u)
    /\ row' = [row EXCEPT ![u] = NoRow]
    /\ batch' = [batch EXCEPT ![s] = Tail(@)]
    /\ UNCHANGED <<sent, work, quiet>>

\* An error of B2 or of the database, or the end of the process, leaves the
\* rest of the batch to a later sweep.
SweepFails(s) ==
    /\ batch[s] # <<>>
    /\ DropFails(Head(batch[s]))
    /\ batch' = [batch EXCEPT ![s] = <<>>]
    /\ UNCHANGED <<sent, work, row, quiet>>

-----------------------------------------------------------------------------
(* B2 and time *)

Land(u) ==
    /\ \/ /\ sent[u] = "create"
          /\ remote' = [remote EXCEPT ![u] = "open"]
          /\ UNCHANGED stored
       \/ /\ sent[u] = "part"
          /\ stored' = [stored EXCEPT ![u] =
               IF remote[u] = "open" THEN @ \cup {work[u].part} ELSE @]
          /\ UNCHANGED remote
       \/ /\ sent[u] = "complete"
          /\ IF remote[u] = "open" /\ stored[u] = 1..Parts
             THEN /\ remote' = [remote EXCEPT ![u] = "completed"]
                  /\ stored' = [stored EXCEPT ![u] = {}]
             ELSE UNCHANGED <<remote, stored>>
    /\ sent' = [sent EXCEPT ![u] = NoRequest]
    /\ UNCHANGED <<work, row, batch, quiet>>

Lose(u) ==
    /\ sent[u] # NoRequest
    /\ sent' = [sent EXCEPT ![u] = NoRequest]
    /\ UNCHANGED <<remote, stored, work, row, batch, quiet>>

Tick ==
    /\ row' = [u \in Uploads |->
                 IF row[u] \in {NoRow, 0} THEN row[u] ELSE row[u] - 1]
    /\ quiet' = [u \in Uploads |->
                   IF Working(u) /\ quiet[u] < TTL THEN quiet[u] + 1
                                                   ELSE quiet[u]]
    /\ UNCHANGED <<provider, work, batch>>

Upload(u) ==
    \/ Begin(u) \/ Started(u) \/ Record(u) \/ RecordFails(u)
    \/ Renew(u) \/ PartStored(u) \/ SendComplete(u) \/ Completed(u)
    \/ Error(u) \/ Abort(u) \/ Forget(u) \/ Die(u)

Sweep(s) == Claim(s) \/ (\E u \in Uploads : SweepRow(s, u)) \/ SweepFails(s)

Next ==
    \/ \E u \in Uploads : Upload(u) \/ Land(u) \/ Lose(u)
    \/ \E s \in Sweepers : Sweep(s)
    \/ Tick

Spec == Init /\ [][Next]_vars

\* The recovery loop of main.rs sweeps every five seconds, and a row it comes
\* to again and again is aborted at last.  Uploads need not get on.
Fairness ==
    /\ WF_vars(Tick)
    /\ \A s \in Sweepers : WF_vars(Claim(s))
    /\ \A s \in Sweepers, u \in Uploads : SF_vars(SweepRow(s, u))

FairSpec == Spec /\ Fairness

-----------------------------------------------------------------------------
(* Properties. *)

\* Every variable keeps its shape; a sweep claims a row once.
TypeOK ==
    /\ remote \in [Uploads -> {"none", "open", "completed", "aborted"}]
    /\ stored \in [Uploads -> SUBSET (1..Parts)]
    /\ sent \in [Uploads -> {NoRequest, "create", "part", "complete"}]
    /\ work \in [Uploads -> [at : Steps, part : 1..Parts + 1]]
    /\ row \in [Uploads -> 0..NoRow]
    /\ batch \in [Sweepers -> Seq(Uploads)]
    /\ \A s \in Sweepers : IsInjective(batch[s])
    /\ quiet \in [Uploads -> 0..TTL]

\* "Multipart IDs are persisted before uploading parts; an uncertain initiation
\* can leave an empty provider-side unfinished upload" (docs/deployment.md):
\* no unfinished upload with parts in it is ever without its row, through late
\* requests, lost answers, sweeps of live uploads and deaths at any step.
UntrackedIsEmpty ==
    \A u \in Uploads :
        remote[u] = "open" /\ row[u] = NoRow => stored[u] = {}

\* put_file never loses its upload to a sweep if it renews its lease in time
\* for every part: sweeps abort what was quiet for a whole lease only.
PromptUploadsSurvive ==
    [][\A u \in Uploads :
         Working(u) /\ Working(u)' /\ remote[u] = "open" /\ quiet[u] < TTL
            => remote'[u] # "aborted"]_vars

\* Whatever becomes of a recorded upload, put_file or a sweep removes its row
\* in the end, and by UntrackedIsEmpty its parts at B2.
RecordsEnd == \A u \in Uploads : row[u] # NoRow ~> row[u] = NoRow
=============================================================================
