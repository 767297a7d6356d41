------------------------------ MODULE Dispatch ------------------------------
(***************************************************************************)
(* Delivery of the processing outbox: dispatch_once (src/src/outbox.rs) and *)
(* the client it delivers with (src/src/processing.rs).                     *)
(*                                                                         *)
(* Each server process dispatches one event at a time.  It takes the row    *)
(* that is due longest, moves the row's next attempt 60 seconds on and      *)
(* writes a fresh random token into it, posts the event, and records the    *)
(* outcome if the row still holds its token.  Posting takes at most 30      *)
(* seconds; recording may come late, or never if the process dies.          *)
(*                                                                         *)
(* next_attempt_at is kept as the time that is left, and line as the rows   *)
(* in the order of that column, which outlives it for rows that are due.    *)
(* A dispatcher has one token in use, so its own name stands for the token. *)
(***************************************************************************)
EXTENDS Naturals, Sequences

CONSTANTS
    Dispatchers,  \* server processes, one dispatch loop each
    NoToken,
    Events,       \* payloads of the outbox
    LeaseTTL,     \* what a claim moves the next attempt on by  (60 seconds)
    HttpTTL,      \* timeout of a delivery                      (30 seconds)
    Delays        \* values of retry_delay                      (5 seconds to a day)

ASSUME DispatchConstants ==
    /\ NoToken \notin Dispatchers
    /\ HttpTTL \in Nat \ {0}
    /\ LeaseTTL \in Nat
    /\ HttpTTL < LeaseTTL
    /\ Delays \subseteq Nat \ {0}

VARIABLES
    rows,      \* rows of upload_processing_outbox
    line,      \* the undelivered events ordered by next_attempt_at
    work,      \* what each dispatch loop is doing
    accepted   \* events the consumer has made durable

vars == <<rows, line, work, accepted>>

-----------------------------------------------------------------------------
Row == [status : {"absent", "pending", "delivered"},
        wait : Nat, token : Dispatchers \cup {NoToken}]

Idle == [phase |-> "idle"]

\* A delivery in progress: how much is left of its claim and of its timeout.
Work == {Idle}
        \cup [phase : {"sent"}, event : Events, left : 0..LeaseTTL, patience : 0..HttpTTL]
        \cup [phase : {"answered"}, event : Events, left : 0..LeaseTTL, ok : BOOLEAN]

\* What may become of a delivery: confirmed; answered with success but without
\* the confirmation; accepted, with the answer lost; not accepted.
Answers == {"durable", "unconfirmed", "lost", "refused"}

\* Mistake: any successful HTTP status.
AnySuccess(answer) == answer \in {"durable", "unconfirmed"}

\* deliver demands an acknowledgement that names the event and says durable.
Success(answer) == answer = "durable"

\* Mistake: an event that is to be tried again goes to the end of the line.
QueuedLast(e, delay) == LET Others(f) == f # e IN SelectSeq(line, Others) \o <<e>>

\* The line when e has left it.
Without(e) ==
    IF \E i \in DOMAIN line : line[i] = e
    THEN LET at == CHOOSE i \in DOMAIN line : line[i] = e
         IN  [i \in 1..(Len(line) - 1) |-> IF i < at THEN line[i] ELSE line[i + 1]]
    ELSE line

\* The rows in order once e is to be tried again after delay: it comes behind
\* those that wait no longer than that, and the others one place later.
Queued(e, delay) ==
    LET rest == Without(e)
        Sooner(i) == rows[rest[i]].wait <= delay
    IN  [i \in 1..(Len(rest) + 1) |->
            IF i <= Len(rest) /\ Sooner(i) THEN rest[i]
            ELSE IF i = 1 \/ Sooner(i - 1) THEN e
            ELSE rest[i - 1]]

Init ==
    /\ rows = [e \in Events |-> [status |-> "absent", wait |-> 0, token |-> NoToken]]
    /\ line = <<>>
    /\ work = [d \in Dispatchers |-> Idle]
    /\ accepted = {}

-----------------------------------------------------------------------------
\* enqueue_upload commits an event.  Committing it again changes neither its
\* delivery nor its next attempt.
Enqueue(e) ==
    /\ rows[e].status = "absent"
    /\ rows' = [rows EXCEPT ![e].status = "pending"]
    /\ line' = Queued(e, 0)
    /\ UNCHANGED <<work, accepted>>

\* Mistake: a row that someone claimed is left to its claimant.
DueUnclaimed(e) ==
    /\ line # <<>> /\ e = Head(line)
    /\ rows[e].status = "pending" /\ rows[e].wait = 0 /\ rows[e].token = NoToken

\* The undelivered event that is due longest.
Due(e) ==
    /\ line # <<>> /\ e = Head(line)
    /\ rows[e].status = "pending" /\ rows[e].wait = 0

\* The claim is one statement that skips locked rows, committed by itself.
Claim(d, e) ==
    /\ work[d] = Idle
    /\ Due(e)
    /\ rows' = [rows EXCEPT ![e].token = d, ![e].wait = LeaseTTL]
    /\ line' = Queued(e, LeaseTTL)
    /\ work' = [work EXCEPT ![d] = [phase |-> "sent", event |-> e, left |-> LeaseTTL,
                                    patience |-> HttpTTL]]
    /\ UNCHANGED accepted

\* The delivery comes to an end, by the client's timeout at the latest.
Deliver(d, answer) ==
    /\ work[d].phase = "sent"
    /\ work' = [work EXCEPT ![d] = [phase |-> "answered", event |-> work[d].event,
                                    left |-> work[d].left, ok |-> Success(answer)]]
    /\ accepted' = IF answer \in {"durable", "lost"} THEN accepted \cup {work[d].event}
                                                     ELSE accepted
    /\ UNCHANGED <<rows, line>>

\* Mistake: the outcome is recorded whoever holds the row by now.
HoldsAlways(d) == TRUE

\* WHERE lease_token=$2.
Holds(d) == rows[work[d].event].token = d

\* delivered_at=now().
Acknowledge(d) ==
    /\ work[d].phase = "answered"
    /\ work[d].ok
    /\ Holds(d)
    /\ LET e == work[d].event IN
        /\ rows' = [rows EXCEPT ![e].status = "delivered", ![e].token = NoToken]
        /\ line' = Without(e)
    /\ work' = [work EXCEPT ![d] = Idle]
    /\ UNCHANGED accepted

\* The next attempt is in retry_delay(attempts) seconds, a time that grows with
\* every attempt: sometimes less than a claim lasts, later more.
Reschedule(d) ==
    /\ work[d].phase = "answered"
    /\ ~work[d].ok
    /\ Holds(d)
    /\ LET e == work[d].event IN
        /\ \E delay \in Delays :
            /\ rows' = [rows EXCEPT ![e].wait = delay, ![e].token = NoToken]
            /\ line' = Queued(e, delay)
    /\ work' = [work EXCEPT ![d] = Idle]
    /\ UNCHANGED accepted

\* The update finds no row with this token: another process has claimed it.
Superseded(d) ==
    /\ work[d].phase = "answered"
    /\ ~Holds(d)
    /\ work' = [work EXCEPT ![d] = Idle]
    /\ UNCHANGED <<rows, line, accepted>>

\* The process dies, or loses its database connection and exits; it restarts.
Crash(d) ==
    /\ work[d] # Idle
    /\ work' = [work EXCEPT ![d] = Idle]
    /\ UNCHANGED <<rows, line, accepted>>

Less(n) == IF n = 0 THEN 0 ELSE n - 1

AgedWork(w) ==
    CASE w.phase = "idle"     -> w
      [] w.phase = "sent"     -> [w EXCEPT !.left = Less(w.left), !.patience = Less(w.patience)]
      [] w.phase = "answered" -> [w EXCEPT !.left = Less(w.left)]

\* Time passes, but no further than the timeout of a delivery under way.
Tick ==
    /\ \A d \in Dispatchers : work[d].phase = "sent" => work[d].patience > 0
    /\ rows' = [e \in Events |-> [rows[e] EXCEPT !.wait = Less(rows[e].wait)]]
    /\ work' = [d \in Dispatchers |-> AgedWork(work[d])]
    /\ UNCHANGED <<line, accepted>>

Step(d) ==
    \/ \E e \in Events : Claim(d, e)
    \/ \E answer \in Answers : Deliver(d, answer)
    \/ Acknowledge(d) \/ Reschedule(d) \/ Superseded(d)

Next ==
    \/ \E e \in Events : Enqueue(e)
    \/ \E d \in Dispatchers : Step(d) \/ Crash(d)
    \/ Tick

Spec == Init /\ [][Next]_vars

\* A consumer that is asked again and again confirms at some time, and a process
\* does not die each time just before it records a confirmation.
Confirmed(e) ==
    \E d \in Dispatchers : work[d] # Idle /\ work[d].event = e /\ Deliver(d, "durable")
Recorded(e) ==
    \E d \in Dispatchers : work[d] # Idle /\ work[d].event = e /\ Acknowledge(d)

Fairness ==
    /\ WF_vars(Tick)
    /\ \A d \in Dispatchers : WF_vars(Step(d))
    /\ \A e \in Events : SF_vars(Confirmed(e)) /\ SF_vars(Recorded(e))

FairSpec == Spec /\ Fairness

-----------------------------------------------------------------------------
Typed ==
    /\ rows \in [Events -> Row]
    /\ work \in [Dispatchers -> Work]
    /\ accepted \subseteq Events

\* The line holds each undelivered event once, in the order of next_attempt_at.
TypeOK ==
    /\ Typed
    /\ line \in Seq(Events)
    /\ \A e \in Events :
        rows[e].status = "pending" <=> \E i \in DOMAIN line : line[i] = e
    /\ \A i, j \in DOMAIN line :
        i < j => line[i] # line[j] /\ rows[line[i]].wait <= rows[line[j]].wait

\* No event is in the hands of two dispatchers whose claims both still run: a
\* late answer never shortens the claim of the one that took over
\* (outbox.rs:427, 437-441).
OneDispatcher ==
    \A c, d \in Dispatchers :
        /\ c # d /\ work[c] # Idle /\ work[d] # Idle
        /\ work[c].event = work[d].event
        => work[c].left = 0 \/ work[d].left = 0

\* What the outbox shows of a hand-off.
offered == {e \in Events : rows[e].status # "absent"}
marked == {e \in Events : rows[e].status = "delivered"}

Promise == INSTANCE AtLeastOnce

\* dispatch_once keeps the promise of an at-least-once hand-off, step by step.
ImplementsAtLeastOnce == Promise!Spec

\* A committed event is delivered in the end, past refusals, lost answers, late
\* answers and crashes.
NeverForgotten ==
    \A e \in Events : rows[e].status = "pending" ~> rows[e].status = "delivered"
=============================================================================
