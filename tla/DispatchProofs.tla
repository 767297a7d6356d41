--------------------------- MODULE DispatchProofs ---------------------------
(***************************************************************************)
(* Proofs about Dispatch for any number of dispatchers and events, and any  *)
(* durations that keep the timeout of a delivery within its claim.          *)
(*                                                                         *)
(* The invariant relates a delivery to the row it was claimed from: while   *)
(* its claim runs the row still holds its token and is not due, and what a  *)
(* delivery confirmed the consumer has.  The order of the line plays no     *)
(* part in it; that the line is in order is proved after it, from what      *)
(* leaving the line and coming back into it do to a sequence.               *)
(***************************************************************************)
EXTENDS Dispatch, WellFoundedInduction, TLAPS

\* A running claim is the row's own, and the row is not due before it ends.
Claimed ==
    \A d \in Dispatchers :
        work[d] # Idle /\ work[d].left > 0 =>
            /\ rows[work[d].event].token = d
            /\ rows[work[d].event].wait >= work[d].left

\* What is delivered was offered, what was confirmed or marked was accepted.
Honest ==
    /\ \A d \in Dispatchers : work[d] # Idle =>
        /\ work[d].event \in offered
        /\ work[d].phase = "answered" /\ work[d].ok => work[d].event \in accepted
    /\ marked \subseteq accepted
    /\ accepted \subseteq offered

DInv == Typed /\ Claimed /\ Honest

\* The shape of a delivery in progress: it names an event and has time left.
LEMMA BusyFields ==
    ASSUME NEW w \in Work, w # Idle
    PROVE  /\ w.event \in Events
           /\ w.left \in Nat
           /\ w.phase \in {"sent", "answered"}
           /\ w.phase = "sent" =>
                w \in [phase : {"sent"}, event : Events, left : 0..LeaseTTL,
                       patience : 0..HttpTTL]
           /\ w.phase = "answered" =>
                w \in [phase : {"answered"}, event : Events, left : 0..LeaseTTL, ok : BOOLEAN]
BY DispatchConstants DEF Work, Idle

\* The initial state satisfies the invariant.
LEMMA InitDInv == Init => DInv
BY DEF Init, DInv, Typed, Claimed, Honest, Row, Work, Idle, offered, marked

\* Waiting makes a time that is left no larger, and never negative.
LEMMA LessFacts ==
    ASSUME NEW n \in Nat
    PROVE  Less(n) \in Nat /\ Less(n) <= n /\ (Less(n) > 0 => Less(n) = n - 1)
BY DEF Less

\* Time passing keeps the type of a delivery and what it is about.
LEMMA AgedFields ==
    ASSUME NEW w \in Work
    PROVE  /\ AgedWork(w) \in Work
           /\ w = Idle <=> AgedWork(w) = Idle
           /\ w # Idle =>
                /\ AgedWork(w).event = w.event
                /\ AgedWork(w).left = Less(w.left)
                /\ AgedWork(w).phase = w.phase
                /\ w.phase = "answered" => AgedWork(w).ok = w.ok
<1>1. CASE w = Idle
  BY <1>1 DEF AgedWork, Work, Idle
<1>2. CASE w \in [phase : {"sent"}, event : Events, left : 0..LeaseTTL, patience : 0..HttpTTL]
  <2>1. AgedWork(w) = [w EXCEPT !.left = Less(w.left), !.patience = Less(w.patience)]
    BY <1>2 DEF AgedWork
  <2>2. Less(w.left) \in 0..LeaseTTL /\ Less(w.patience) \in 0..HttpTTL
    BY <1>2, DispatchConstants DEF Less
  <2>3. AgedWork(w) \in [phase : {"sent"}, event : Events, left : 0..LeaseTTL,
                         patience : 0..HttpTTL]
    BY <1>2, <2>1, <2>2
  <2>. QED BY <1>2, <2>1, <2>2, <2>3 DEF Work, Idle
<1>3. CASE w \in [phase : {"answered"}, event : Events, left : 0..LeaseTTL, ok : BOOLEAN]
  <2>1. AgedWork(w) = [w EXCEPT !.left = Less(w.left)]
    BY <1>3 DEF AgedWork
  <2>2. Less(w.left) \in 0..LeaseTTL
    BY <1>3, DispatchConstants DEF Less
  <2>3. AgedWork(w) \in [phase : {"answered"}, event : Events, left : 0..LeaseTTL, ok : BOOLEAN]
    BY <1>3, <2>1, <2>2
  <2>. QED BY <1>3, <2>1, <2>2, <2>3 DEF Work, Idle
<1>. QED BY <1>1, <1>2, <1>3 DEF Work

\* Every step preserves the invariant.
LEMMA StepDInv == DInv /\ [Next]_vars => DInv'
<1>. SUFFICES ASSUME DInv, [Next]_vars PROVE DInv'
  OBVIOUS
<1>. USE DispatchConstants
<1>0. /\ rows \in [Events -> Row]
      /\ work \in [Dispatchers -> Work]
      /\ accepted \subseteq Events
  BY DEF DInv, Typed
<1>1. ASSUME NEW e \in Events, Enqueue(e) PROVE DInv'
  <2>1. Typed'
    BY <1>0, <1>1 DEF Enqueue, Typed, Row
  <2>2. \A f \in Events : rows'[f].wait = rows[f].wait /\ rows'[f].token = rows[f].token
    BY <1>0, <1>1 DEF Enqueue, Row
  <2>3. offered' = offered \cup {e} /\ marked' = marked
    BY <1>0, <1>1 DEF Enqueue, Row, offered, marked
  <2>4. Claimed'
    BY <1>0, <1>1, <2>2, BusyFields DEF Enqueue, DInv, Claimed
  <2>5. Honest'
    BY <1>0, <1>1, <2>3 DEF Enqueue, DInv, Honest
  <2>. QED BY <2>1, <2>4, <2>5 DEF DInv
<1>2. ASSUME NEW d \in Dispatchers, NEW e \in Events, Claim(d, e) PROVE DInv'
  <2> DEFINE w == [phase |-> "sent", event |-> e, left |-> LeaseTTL, patience |-> HttpTTL]
  <2>1. w \in Work /\ w # Idle
    BY DEF Work, Idle
  <2>2. work' = [work EXCEPT ![d] = w]
    BY <1>2 DEF Claim
  <2>3. \A c \in Dispatchers \ {d} : work'[c] = work[c]
    BY <1>0, <2>2
  <2>4. work'[d] = w
    BY <1>0, <2>2
  <2>5. /\ rows'[e].token = d /\ rows'[e].wait = LeaseTTL /\ rows'[e].status = rows[e].status
        /\ \A f \in Events \ {e} : rows'[f] = rows[f]
    BY <1>0, <1>2 DEF Claim, Row
  <2>6. Typed'
    <3>1. LeaseTTL \in Nat /\ rows[e] \in Row
      BY <1>0
    <3>2. rows' = [rows EXCEPT ![e] = [rows[e] EXCEPT !.token = d, !.wait = LeaseTTL]]
      BY <1>2 DEF Claim
    <3>3. [rows[e] EXCEPT !.token = d, !.wait = LeaseTTL] \in Row
      BY <3>1 DEF Row
    <3>4. rows' \in [Events -> Row]
      BY <1>0, <3>2, <3>3
    <3>. HIDE DEF w
    <3>5. work' \in [Dispatchers -> Work]
      BY <1>0, <2>1, <2>2
    <3>6. accepted' = accepted
      BY <1>2 DEF Claim
    <3>. QED BY <1>0, <3>4, <3>5, <3>6 DEF Typed
  <2>7. offered' = offered /\ marked' = marked /\ e \in offered
    BY <1>0, <1>2, <2>5 DEF Claim, Due, Row, offered, marked
  <2>8. Claimed'
    <3>1. SUFFICES ASSUME NEW c \in Dispatchers, work'[c] # Idle, work'[c].left > 0
                   PROVE  /\ rows'[work'[c].event].token = c
                          /\ rows'[work'[c].event].wait >= work'[c].left
      BY DEF Claimed
    <3>2. CASE c = d
      BY <2>4, <2>5, <3>2
    <3>3. CASE c # d
      <4>1. work'[c] = work[c] /\ work[c] \in Work
        BY <1>0, <2>3, <3>3
      <4>2. /\ rows[work[c].event].wait >= work[c].left /\ work[c].left > 0
            /\ rows[work[c].event].token = c
        BY <3>1, <4>1 DEF DInv, Claimed
      <4>3. work[c].event \in Events /\ work[c].left \in Nat
        BY <3>1, <4>1, BusyFields
      <4>4. work[c].event # e
        BY <1>2, <4>2, <4>3 DEF Claim, Due
      <4>. QED BY <2>5, <4>1, <4>2, <4>3, <4>4
    <3>. QED BY <3>2, <3>3
  <2>9. Honest'
    <3>1. accepted' = accepted
      BY <1>2 DEF Claim
    <3>2. w.event = e /\ w.phase = "sent"
      OBVIOUS
    <3>. HIDE DEF w
    <3>. QED BY <1>0, <2>3, <2>4, <2>7, <3>1, <3>2 DEF DInv, Honest
  <2>. QED BY <2>6, <2>8, <2>9 DEF DInv
<1>3. ASSUME NEW d \in Dispatchers, NEW answer \in Answers, Deliver(d, answer) PROVE DInv'
  <2> DEFINE w == [phase |-> "answered", event |-> work[d].event, left |-> work[d].left,
                   ok |-> Success(answer)]
  <2>0. work[d] \in Work /\ work[d] # Idle
    BY <1>0, <1>3 DEF Deliver, Idle
  <2>1. work[d] \in [phase : {"sent"}, event : Events, left : 0..LeaseTTL, patience : 0..HttpTTL]
    BY <1>3, <2>0, BusyFields DEF Deliver
  <2>2. w \in Work /\ w # Idle
    BY <2>1 DEF Work, Idle, Success
  <2>3. work' = [work EXCEPT ![d] = w]
    BY <1>3 DEF Deliver
  <2>4. work'[d] = w /\ \A c \in Dispatchers \ {d} : work'[c] = work[c]
    BY <1>0, <2>3
  <2>5. rows' = rows /\ offered' = offered /\ marked' = marked
    BY <1>3 DEF Deliver, offered, marked
  <2>6. accepted \subseteq accepted' /\ accepted' \subseteq accepted \cup {work[d].event}
    BY <1>3 DEF Deliver
  <2>7. Success(answer) => work[d].event \in accepted'
    BY <1>3 DEF Deliver, Success
  <2>8. Typed'
    BY <1>0, <2>1, <2>2, <2>3, <2>5, <2>6 DEF Typed
  <2>9. w.event = work[d].event /\ w.left = work[d].left /\ w.ok = Success(answer)
    OBVIOUS
  <2>. HIDE DEF w
  <2>10. Claimed'
    BY <1>0, <2>0, <2>4, <2>5, <2>9 DEF DInv, Claimed
  <2>11. Honest'
    BY <1>0, <2>0, <2>4, <2>5, <2>6, <2>7, <2>9 DEF DInv, Honest
  <2>. QED BY <2>8, <2>10, <2>11 DEF DInv
<1>4. ASSUME NEW d \in Dispatchers, Acknowledge(d) PROVE DInv'
  <2>0. work[d] # Idle /\ work[d].event \in Events /\ work[d].event \in accepted
    BY <1>0, <1>4, BusyFields DEF Acknowledge, Idle, DInv, Honest
  <2>1. PICK e \in Events : e = work[d].event
    BY <2>0
  <2>2. /\ rows'[e].status = "delivered" /\ rows'[e].wait = rows[e].wait
        /\ \A f \in Events \ {e} : rows'[f] = rows[f]
    BY <1>0, <1>4, <2>1 DEF Acknowledge, Row
  <2>3. work'[d] = Idle /\ \A c \in Dispatchers \ {d} : work'[c] = work[c]
    BY <1>0, <1>4 DEF Acknowledge
  <2>4. Typed'
    BY <1>0, <1>4, <2>1 DEF Acknowledge, Typed, Row, Work
  <2>5. accepted' = accepted /\ offered \subseteq offered' /\ marked' = marked \cup {e}
    BY <1>0, <1>4, <2>1, <2>2 DEF Acknowledge, offered, marked
  <2>6. Claimed'
    <3>1. SUFFICES ASSUME NEW c \in Dispatchers, work'[c] # Idle, work'[c].left > 0
                   PROVE  /\ rows'[work'[c].event].token = c
                          /\ rows'[work'[c].event].wait >= work'[c].left
      BY DEF Claimed
    <3>2. c # d /\ work'[c] = work[c] /\ work[c] \in Work
      BY <1>0, <2>3, <3>1
    <3>3. rows[work[c].event].token = c /\ rows[work[c].event].wait >= work[c].left
      BY <3>1, <3>2 DEF DInv, Claimed
    <3>4. work[c].event \in Events /\ work[c].event # e
      BY <1>4, <2>1, <3>1, <3>2, <3>3, BusyFields DEF Acknowledge, Holds
    <3>. QED BY <2>2, <3>2, <3>3, <3>4
  <2>7. Honest'
    BY <2>0, <2>1, <2>3, <2>5, <2>2 DEF DInv, Honest, marked, offered
  <2>. QED BY <2>4, <2>6, <2>7 DEF DInv
<1>5. ASSUME NEW d \in Dispatchers, Reschedule(d) PROVE DInv'
  <2>0. work[d] # Idle /\ work[d].event \in Events
    BY <1>0, <1>5, BusyFields DEF Reschedule, Idle
  <2>1. PICK e \in Events : e = work[d].event
    BY <2>0
  <2>2. /\ rows'[e].status = rows[e].status
        /\ \A f \in Events \ {e} : rows'[f] = rows[f]
    BY <1>0, <1>5, <2>1 DEF Reschedule, Row
  <2>3. work'[d] = Idle /\ \A c \in Dispatchers \ {d} : work'[c] = work[c]
    BY <1>0, <1>5 DEF Reschedule
  <2>4. Typed'
    BY <1>0, <1>5, <2>1 DEF Reschedule, Typed, Row, Work
  <2>5. accepted' = accepted /\ offered' = offered /\ marked' = marked
    BY <1>5, <2>2 DEF Reschedule, offered, marked
  <2>6. Claimed'
    <3>1. SUFFICES ASSUME NEW c \in Dispatchers, work'[c] # Idle, work'[c].left > 0
                   PROVE  /\ rows'[work'[c].event].token = c
                          /\ rows'[work'[c].event].wait >= work'[c].left
      BY DEF Claimed
    <3>2. c # d /\ work'[c] = work[c] /\ work[c] \in Work
      BY <1>0, <2>3, <3>1
    <3>3. rows[work[c].event].token = c /\ rows[work[c].event].wait >= work[c].left
      BY <3>1, <3>2 DEF DInv, Claimed
    <3>4. work[c].event \in Events /\ work[c].event # e
      BY <1>5, <2>1, <3>1, <3>2, <3>3, BusyFields DEF Reschedule, Holds
    <3>. QED BY <2>2, <3>2, <3>3, <3>4
  <2>7. Honest'
    BY <2>3, <2>5 DEF DInv, Honest
  <2>. QED BY <2>4, <2>6, <2>7 DEF DInv
<1>6. ASSUME NEW d \in Dispatchers, Superseded(d) \/ Crash(d) PROVE DInv'
  <2>1. work' = [work EXCEPT ![d] = Idle] /\ rows' = rows /\ accepted' = accepted
    BY <1>6 DEF Superseded, Crash
  <2>2. \A c \in Dispatchers : work'[c] = Idle \/ work'[c] = work[c]
    BY <1>0, <2>1
  <2>3. offered' = offered /\ marked' = marked
    BY <2>1 DEF offered, marked
  <2>4. Typed'
    BY <1>0, <2>1 DEF Typed, Work
  <2>5. Claimed'
    BY <2>1, <2>2 DEF DInv, Claimed
  <2>6. Honest'
    BY <2>1, <2>2, <2>3 DEF DInv, Honest
  <2>. QED BY <2>4, <2>5, <2>6 DEF DInv
<1>7. ASSUME Tick PROVE DInv'
  <2>1. \A e \in Events :
            /\ rows'[e].status = rows[e].status /\ rows'[e].token = rows[e].token
            /\ rows'[e].wait = Less(rows[e].wait)
            /\ rows'[e] \in Row
    <3>1. TAKE e \in Events
    <3>2. rows[e] \in Row
      BY <1>0
    <3>3. Less(rows[e].wait) \in Nat
      BY <3>2, LessFacts DEF Row
    <3>4. rows'[e] = [rows[e] EXCEPT !.wait = Less(rows[e].wait)]
      BY <1>7 DEF Tick
    <3>. QED BY <3>2, <3>3, <3>4 DEF Row
  <2>2. \A d \in Dispatchers : work'[d] = AgedWork(work[d]) /\ work[d] \in Work
    BY <1>0, <1>7 DEF Tick
  <2>3. accepted' = accepted /\ offered' = offered /\ marked' = marked
    BY <1>7, <2>1 DEF Tick, offered, marked
  <2>4. Typed'
    <3>1. rows' \in [Events -> Row]
      BY <1>7, <2>1 DEF Tick
    <3>2. work' \in [Dispatchers -> Work]
      BY <1>7, <2>2, AgedFields DEF Tick
    <3>. QED BY <1>0, <2>3, <3>1, <3>2 DEF Typed
  <2>5. Claimed'
    <3>1. SUFFICES ASSUME NEW d \in Dispatchers, work'[d] # Idle, work'[d].left > 0
                   PROVE  /\ rows'[work'[d].event].token = d
                          /\ rows'[work'[d].event].wait >= work'[d].left
      BY DEF Claimed
    <3>2. /\ work[d] # Idle /\ work'[d].event = work[d].event
          /\ work'[d].left = Less(work[d].left)
      BY <2>2, <3>1, AgedFields
    <3>3. work[d].event \in Events /\ work[d].left \in Nat
      BY <2>2, <3>2, BusyFields
    <3>4. work[d].left > 0 /\ Less(work[d].left) = work[d].left - 1
      BY <3>1, <3>2, <3>3, LessFacts DEF Less
    <3>5. rows[work[d].event].token = d /\ rows[work[d].event].wait >= work[d].left
      BY <3>2, <3>4 DEF DInv, Claimed
    <3>6. rows[work[d].event].wait \in Nat
      BY <1>0, <3>3 DEF Row
    <3>7. Less(rows[work[d].event].wait) >= Less(work[d].left)
      BY <3>3, <3>4, <3>5, <3>6 DEF Less
    <3>. QED BY <2>1, <3>2, <3>3, <3>5, <3>7
  <2>6. Honest'
    BY <2>2, <2>3, AgedFields DEF DInv, Honest
  <2>. QED BY <2>4, <2>5, <2>6 DEF DInv
<1>8. ASSUME UNCHANGED vars PROVE DInv'
  BY <1>8 DEF vars, DInv, Typed, Claimed, Honest, offered, marked
<1>. QED BY <1>1, <1>2, <1>3, <1>4, <1>5, <1>6, <1>7, <1>8 DEF Next, Step

\* The invariant holds throughout.
THEOREM DispatchInvariance == Spec => []DInv
BY InitDInv, StepDInv, PTL DEF Spec

\* Rows, deliveries and acceptances always have their types.
THEOREM RowsTyped == Spec => []Typed
BY DispatchInvariance, PTL DEF DInv

\* No two dispatchers hold one event with claims that both still run, for any
\* number of them and any delays: the token of a row names the one whose claim
\* runs, and a late answer with another token touches nothing.
THEOREM DispatchersExclude == Spec => []OneDispatcher
<1>1. DInv => OneDispatcher
  <2>. SUFFICES ASSUME DInv, NEW c \in Dispatchers, NEW d \in Dispatchers,
                       c # d, work[c] # Idle, work[d] # Idle,
                       work[c].event = work[d].event
                PROVE  work[c].left = 0 \/ work[d].left = 0
    BY DEF OneDispatcher
  <2>1. work[c].left \in Nat /\ work[d].left \in Nat
    BY BusyFields DEF DInv, Typed
  <2>. QED BY <2>1 DEF DInv, Claimed
<1>. QED BY <1>1, DispatchInvariance, PTL

-----------------------------------------------------------------------------
(* The line. *)

Listed(seq) == {seq[i] : i \in DOMAIN seq}

\* A row that somebody claimed is not delivered yet.
Tokened == \A e \in Events : rows[e].token # NoToken => rows[e].status = "pending"

\* An event that is committed for the first time is due at once.
DueAtOnce == \A e \in Events : rows[e].status = "absent" => rows[e].wait = 0

LineInv == TypeOK /\ Tokened /\ DueAtOnce

\* One number is lower than another.
Lower == {x \in Nat \X Nat : x[1] < x[2]}

\* A set of natural numbers that is not empty has a least one.
LEMMA Least == ASSUME NEW T \in SUBSET Nat, T # {} PROVE \E i \in T : \A j \in T : i <= j
<1>1. IsWellFoundedOn(Lower, Nat)
  BY NatLessThanWellFounded DEF OpToRel, Lower
<1>2. PICK i \in T : \A j \in T : <<j, i>> \notin Lower
  BY <1>1, WFMin
<1>3. \A j \in T : ~(j < i)
  BY <1>2 DEF Lower
<1>. QED BY <1>3

\* What the order of the line says of two places.
LEMMA LineFacts ==
    ASSUME TypeOK
    PROVE  /\ Len(line) \in Nat /\ DOMAIN line = 1..Len(line)
           /\ \A i \in 1..Len(line) : line[i] \in Events /\ rows[line[i]].wait \in Nat
           /\ \A i, j \in 1..Len(line) :
                i < j => line[i] # line[j] /\ rows[line[i]].wait <= rows[line[j]].wait
<1>1. line \in Seq(Events) /\ rows \in [Events -> Row]
  BY DEF TypeOK, Typed
<1>2. Len(line) \in Nat /\ DOMAIN line = 1..Len(line) /\ \A i \in 1..Len(line) : line[i] \in Events
  BY <1>1
<1>3. \A e \in Events : rows[e].wait \in Nat
  BY <1>1 DEF Row
<1>4. \A i, j \in DOMAIN line :
        i < j => line[i] # line[j] /\ rows[line[i]].wait <= rows[line[j]].wait
  BY DEF TypeOK
<1>. QED BY <1>2, <1>3, <1>4

\* A sequence lists what is at its places.
LEMMA ListedIs == ASSUME NEW seq, NEW x PROVE x \in Listed(seq) <=> \E i \in DOMAIN seq : x = seq[i]
BY DEF Listed

\* Leaving the line keeps the order of the others.
LEMMA WithoutFacts ==
    ASSUME TypeOK, NEW e \in Events
    PROVE  /\ Without(e) \in Seq(Events)
           /\ Listed(Without(e)) = Listed(line) \ {e}
           /\ \A i, j \in DOMAIN Without(e) : i < j =>
                /\ Without(e)[i] # Without(e)[j]
                /\ rows[Without(e)[i]].wait <= rows[Without(e)[j]].wait
<1> DEFINE n == Len(line)
           rest == Without(e)
<1>1. /\ n \in Nat /\ DOMAIN line = 1..n
      /\ \A i \in 1..n : line[i] \in Events /\ rows[line[i]].wait \in Nat
      /\ \A i, j \in 1..n : i < j => line[i] # line[j] /\ rows[line[i]].wait <= rows[line[j]].wait
  BY LineFacts
<1>2. CASE ~\E i \in DOMAIN line : line[i] = e
  <2>1. rest = line
    BY <1>2 DEF Without
  <2>2. Listed(line) = Listed(line) \ {e}
    BY <1>2 DEF Listed
  <2>. QED BY <2>1, <2>2 DEF TypeOK
<1>3. CASE \E i \in DOMAIN line : line[i] = e
  <2> DEFINE at == CHOOSE i \in DOMAIN line : line[i] = e
  <2>1. at \in 1..n /\ line[at] = e
    BY <1>1, <1>3
  <2>2. rest = [i \in 1..(n - 1) |-> IF i < at THEN line[i] ELSE line[i + 1]]
    BY <1>3 DEF Without
  <2> HIDE DEF rest, at, n
  <2>3. /\ n - 1 \in Nat
        /\ DOMAIN rest = 1..(n - 1)
        /\ \A i \in 1..(n - 1) : /\ i \in 1..n /\ i + 1 \in 1..n
                                 /\ rest[i] = IF i < at THEN line[i] ELSE line[i + 1]
    BY <1>1, <2>1, <2>2
  <2>4. rest \in Seq(Events)
    <3>1. \A i \in 1..(n - 1) : rest[i] \in Events
      BY <1>1, <2>3
    <3>. QED BY <2>2, <2>3, <3>1
  <2>5. \A i \in 1..(n - 1) : rest[i] \in Listed(line) \ {e}
    <3>1. TAKE i \in 1..(n - 1)
    <3>2. CASE i < at
      BY <1>1, <2>1, <2>3, <3>2 DEF Listed
    <3>3. CASE ~(i < at)
      <4>1. at < i + 1
        BY <2>1, <3>3
      <4>. QED BY <1>1, <2>1, <2>3, <3>3, <4>1 DEF Listed
    <3>. QED BY <3>2, <3>3
  <2>6. \A i \in 1..n : line[i] # e => \E j \in 1..(n - 1) : rest[j] = line[i]
    <3>1. SUFFICES ASSUME NEW i \in 1..n, line[i] # e
                   PROVE  \E j \in 1..(n - 1) : rest[j] = line[i]
      OBVIOUS
    <3>2. CASE i < at
      <4>1. i \in 1..(n - 1)
        BY <1>1, <2>1, <3>2
      <4>. QED BY <2>3, <3>2, <4>1
    <3>3. CASE i > at
      <4>1. i - 1 \in 1..(n - 1) /\ ~(i - 1 < at) /\ (i - 1) + 1 = i
        BY <1>1, <2>1, <3>3
      <4>. QED BY <2>3, <4>1
    <3>. QED BY <2>1, <3>1, <3>2, <3>3
  <2>7. Listed(rest) = Listed(line) \ {e}
    <3>1. \A x \in Listed(rest) : x \in Listed(line) \ {e}
      BY <2>3, <2>5, ListedIs
    <3>2. \A x \in Listed(line) \ {e} : x \in Listed(rest)
      BY <1>1, <2>3, <2>6, ListedIs
    <3>. QED BY <3>1, <3>2
  <2>8. ASSUME NEW i \in 1..(n - 1), NEW j \in 1..(n - 1), i < j
        PROVE  rest[i] # rest[j] /\ rows[rest[i]].wait <= rows[rest[j]].wait
    <3>1. PICK a \in 1..n : rest[i] = line[a] /\ a = IF i < at THEN i ELSE i + 1
      BY <2>3
    <3>2. PICK b \in 1..n : rest[j] = line[b] /\ b = IF j < at THEN j ELSE j + 1
      BY <2>3
    <3>3. a < b
      BY <2>1, <2>8, <3>1, <3>2
    <3>. QED BY <1>1, <3>1, <3>2, <3>3
  <2>. QED BY <2>3, <2>4, <2>7, <2>8 DEF rest
<1>. QED BY <1>2, <1>3

\* The row that is tried again has its place by its new wait.
LEMMA QueuedFacts ==
    ASSUME TypeOK, NEW e \in Events, NEW delay \in Nat, NEW wait,
           \A f \in Events : wait[f] = IF f = e THEN delay ELSE rows[f].wait
    PROVE  /\ Queued(e, delay) \in Seq(Events)
           /\ Listed(Queued(e, delay)) = Listed(line) \cup {e}
           /\ \A i, j \in DOMAIN Queued(e, delay) : i < j =>
                /\ Queued(e, delay)[i] # Queued(e, delay)[j]
                /\ wait[Queued(e, delay)[i]] <= wait[Queued(e, delay)[j]]
<1> DEFINE rest == Without(e)
           n == Len(rest)
           new == Queued(e, delay)
           Soon(i) == rows[rest[i]].wait <= delay
<1>1. /\ rest \in Seq(Events) /\ Listed(rest) = Listed(line) \ {e}
      /\ \A i, j \in DOMAIN rest : i < j =>
            rest[i] # rest[j] /\ rows[rest[i]].wait <= rows[rest[j]].wait
  BY WithoutFacts
<1>2. new = [i \in 1..(n + 1) |-> IF i <= n /\ Soon(i) THEN rest[i]
                                  ELSE IF i = 1 \/ Soon(i - 1) THEN e ELSE rest[i - 1]]
  BY DEF Queued
<1> HIDE DEF rest, new
<1>3. /\ n \in Nat /\ DOMAIN rest = 1..n
      /\ \A i \in 1..n : /\ rest[i] \in Events /\ rest[i] # e
                         /\ rows[rest[i]].wait \in Nat /\ wait[rest[i]] = rows[rest[i]].wait
  <2>1. n \in Nat /\ DOMAIN rest = 1..n /\ \A i \in 1..n : rest[i] \in Events
    BY <1>1
  <2>2. \A i \in 1..n : rest[i] \in Listed(rest)
    BY <2>1 DEF Listed
  <2>. QED BY <1>1, <2>1, <2>2 DEF TypeOK, Typed, Row
<1> HIDE DEF n
<1> DEFINE T == {i \in 1..(n + 1) : i = n + 1 \/ ~Soon(i)}
<1>4. PICK m \in T : \A j \in T : m <= j
  <2>1. T \in SUBSET Nat /\ n + 1 \in T
    BY <1>3
  <2>. HIDE DEF T
  <2>. QED BY <2>1, Least
<1>5. m \in 1..(n + 1) /\ m \in Nat
  BY <1>3, <1>4
<1>6. \A i \in 1..n : Soon(i) <=> i < m
  <2>1. TAKE i \in 1..n
  <2>2. i \in 1..(n + 1) /\ i # n + 1
    BY <1>3
  <2>3. i < m => Soon(i)
    BY <1>4, <1>5, <2>2
  <2>4. CASE i = m
    BY <1>3, <1>4, <2>2, <2>4
  <2>5. CASE m < i
    <3>1. m \in 1..n
      BY <1>3, <1>5, <2>5
    <3>2. ~Soon(m)
      BY <1>3, <1>4, <3>1
    <3>3. rows[rest[m]].wait <= rows[rest[i]].wait
      BY <1>1, <1>3, <2>5, <3>1
    <3>4. rows[rest[m]].wait \in Nat /\ rows[rest[i]].wait \in Nat
      BY <1>3, <3>1
    <3>. QED BY <1>5, <2>5, <3>2, <3>3, <3>4
  <2>. QED BY <1>3, <1>5, <2>3, <2>4, <2>5
<1> HIDE DEF T
<1>7. new = [i \in 1..(n + 1) |-> IF i < m THEN rest[i] ELSE IF i = m THEN e ELSE rest[i - 1]]
  <2>1. ASSUME NEW i \in 1..(n + 1)
        PROVE  (IF i <= n /\ Soon(i) THEN rest[i]
                ELSE IF i = 1 \/ Soon(i - 1) THEN e ELSE rest[i - 1])
               = (IF i < m THEN rest[i] ELSE IF i = m THEN e ELSE rest[i - 1])
    <3>1. i <= n => i \in 1..n
      BY <1>3
    <3>2. i # 1 => i - 1 \in 1..n
      BY <1>3
    <3>. HIDE DEF Soon
    <3>3. CASE i < m
      BY <1>3, <1>5, <1>6, <3>1, <3>3
    <3>4. CASE i = m
      <4>1. ~(i <= n /\ Soon(i))
        BY <1>5, <1>6, <3>1, <3>4
      <4>2. i = 1 \/ Soon(i - 1)
        BY <1>5, <1>6, <3>2, <3>4
      <4>. QED BY <1>5, <3>4, <4>1, <4>2
    <3>5. CASE i > m
      <4>1. ~(i <= n /\ Soon(i))
        BY <1>5, <1>6, <3>1, <3>5
      <4>2. i # 1 /\ ~(i - 1 < m)
        BY <1>5, <3>5
      <4>3. ~Soon(i - 1)
        BY <1>6, <3>2, <4>2
      <4>. QED BY <1>5, <3>5, <4>1, <4>2, <4>3
    <3>. QED BY <1>3, <1>5, <3>3, <3>4, <3>5
  <2>. HIDE DEF Soon
  <2>. QED BY <1>2, <2>1
<1>8. /\ DOMAIN new = 1..(n + 1) /\ n + 1 \in Nat
      /\ \A i \in 1..(n + 1) : new[i] = IF i < m THEN rest[i] ELSE IF i = m THEN e ELSE rest[i - 1]
      /\ \A i \in 1..(n + 1) : (i < m => i \in 1..n) /\ (i > m => i - 1 \in 1..n)
  BY <1>3, <1>5, <1>7
<1>9. new \in Seq(Events)
  <2>1. \A i \in 1..(n + 1) : new[i] \in Events
    BY <1>3, <1>5, <1>8
  <2>. QED BY <1>7, <1>8, <2>1
<1>10. Listed(new) = Listed(line) \cup {e}
  <2>1. \A i \in 1..(n + 1) : new[i] \in Listed(rest) \cup {e}
    <3>1. TAKE i \in 1..(n + 1)
    <3>2. \A j \in 1..n : rest[j] \in Listed(rest)
      BY <1>3, ListedIs
    <3>. QED BY <1>5, <1>8, <3>2
  <2>2. \A i \in 1..n : \E j \in 1..(n + 1) : new[j] = rest[i]
    <3>1. TAKE i \in 1..n
    <3>2. CASE i < m
      BY <1>3, <1>8, <3>2
    <3>3. CASE ~(i < m)
      <4>1. i + 1 \in 1..(n + 1) /\ i + 1 > m /\ (i + 1) - 1 = i
        BY <1>3, <1>5, <3>3
      <4>2. new[i + 1] = rest[i]
        BY <1>5, <1>8, <4>1
      <4>. QED BY <4>1, <4>2
    <3>. QED BY <3>2, <3>3
  <2>3. new[m] = e
    BY <1>5, <1>8
  <2>4. Listed(rest) \cup {e} = Listed(line) \cup {e}
    <3>1. Listed(rest) = Listed(line) \ {e}
      BY <1>1
    <3>. QED BY <3>1
  <2>5. Listed(new) = Listed(rest) \cup {e}
    <3>1. \A x \in Listed(new) : x \in Listed(rest) \cup {e}
      BY <1>8, <2>1, ListedIs
    <3>2. \A x \in Listed(rest) : x \in Listed(new)
      BY <1>3, <1>8, <2>2, ListedIs
    <3>3. e \in Listed(new)
      BY <1>5, <1>8, <2>3, ListedIs
    <3>. QED BY <3>1, <3>2, <3>3
  <2>. QED BY <2>4, <2>5
<1>11. ASSUME NEW i \in 1..(n + 1), NEW j \in 1..(n + 1), i < j
       PROVE  new[i] # new[j] /\ wait[new[i]] <= wait[new[j]]
  <2>1. wait[e] = delay
    OBVIOUS
  <2>2. CASE j < m
    <3>1. new[i] = rest[i] /\ new[j] = rest[j] /\ i \in 1..n /\ j \in 1..n
      BY <1>3, <1>5, <1>8, <1>11, <2>2
    <3>. QED BY <1>1, <1>3, <1>11, <3>1
  <2>3. CASE j = m
    <3>1. new[i] = rest[i] /\ new[j] = e /\ i \in 1..n /\ Soon(i)
      BY <1>5, <1>6, <1>8, <1>11, <2>3
    <3>. QED BY <1>3, <2>1, <3>1
  <2>4. CASE i = m
    <3>1. new[i] = e /\ new[j] = rest[j - 1] /\ j - 1 \in 1..n /\ ~(j - 1 < m)
      BY <1>5, <1>8, <1>11, <2>4
    <3>2. ~Soon(j - 1)
      BY <1>6, <3>1
    <3>. QED BY <1>3, <2>1, <3>1, <3>2
  <2>5. CASE i < m /\ m < j
    <3>1. i \in 1..n /\ j - 1 \in 1..n /\ Soon(i) /\ ~Soon(j - 1)
      BY <1>5, <1>6, <1>8, <2>5
    <3>2. new[i] = rest[i] /\ new[j] = rest[j - 1]
      BY <1>5, <1>8, <2>5
    <3>3. rows[rest[i]].wait <= delay /\ ~(rows[rest[j - 1]].wait <= delay)
      BY <3>1
    <3>. QED BY <1>3, <3>1, <3>2, <3>3
  <2>6. CASE m < i
    <3>1. new[i] = rest[i - 1] /\ new[j] = rest[j - 1] /\ i - 1 \in 1..n /\ j - 1 \in 1..n /\ i - 1 < j - 1
      BY <1>5, <1>8, <1>11, <2>6
    <3>. QED BY <1>1, <1>3, <3>1
  <2>. QED BY <1>5, <1>11, <2>2, <2>3, <2>4, <2>5, <2>6
<1>12. Queued(e, delay) = new /\ DOMAIN new = 1..(n + 1)
  BY <1>8 DEF new
<1>. QED BY <1>9, <1>10, <1>11, <1>12

\* A row that comes back into the line keeps it in order.
LEMMA QueuedLine ==
    ASSUME LineInv, Typed', NEW e \in Events, NEW delay \in Nat,
           line' = Queued(e, delay),
           rows'[e].wait = delay, rows'[e].status = "pending",
           \A f \in Events \ {e} :
               rows'[f].wait = rows[f].wait /\ rows'[f].status = rows[f].status
    PROVE  TypeOK'
<1>. DEFINE wait == [f \in Events |-> rows'[f].wait]
<1>1. \A f \in Events : wait[f] = IF f = e THEN delay ELSE rows[f].wait
  OBVIOUS
<1>2. /\ line' \in Seq(Events)
      /\ Listed(line') = Listed(line) \cup {e}
      /\ \A i, j \in DOMAIN line' : i < j =>
            line'[i] # line'[j] /\ wait[line'[i]] <= wait[line'[j]]
  <2>. HIDE DEF wait
  <2>. QED BY <1>1, QueuedFacts DEF LineInv
<1>3. \A i \in DOMAIN line' : line'[i] \in Events
  BY <1>2
<1>4. \A f \in Events : rows[f].status = "pending" <=> f \in Listed(line)
  BY ListedIs DEF LineInv, TypeOK
<1>5. \A f \in Events : rows'[f].status = "pending" <=> f \in Listed(line')
  BY <1>2, <1>4
<1>6. \A f \in Events : rows'[f].status = "pending" <=> \E i \in DOMAIN line' : line'[i] = f
  BY <1>5, ListedIs
<1>7. \A i, j \in DOMAIN line' : i < j =>
        line'[i] # line'[j] /\ rows'[line'[i]].wait <= rows'[line'[j]].wait
  <2>1. \A f \in Events : wait[f] = rows'[f].wait
    OBVIOUS
  <2>. HIDE DEF wait
  <2>. QED BY <1>2, <1>3, <2>1
<1>. QED BY <1>2, <1>6, <1>7 DEF TypeOK

\* Every step keeps the line in order.
LEMMA StepLineInv == DInv /\ LineInv /\ [Next]_vars => LineInv'
<1>. SUFFICES ASSUME DInv, LineInv, [Next]_vars PROVE LineInv'
  OBVIOUS
<1>. USE DispatchConstants
<1>0. /\ rows \in [Events -> Row] /\ work \in [Dispatchers -> Work] /\ Typed'
      /\ \A e \in Events : rows[e].token # NoToken => rows[e].status = "pending"
      /\ \A e \in Events : rows[e].status = "absent" => rows[e].wait = 0
  BY StepDInv DEF DInv, Typed, LineInv, Tokened, DueAtOnce
<1>1. ASSUME UNCHANGED <<rows, line>> PROVE LineInv'
  <2>1. Tokened' /\ DueAtOnce'
    BY <1>0, <1>1 DEF Tokened, DueAtOnce
  <2>. QED BY <1>0, <1>1, <2>1 DEF LineInv, TypeOK
<1>2. ASSUME NEW e \in Events, Enqueue(e) PROVE LineInv'
  <2>1. /\ rows'[e].status = "pending" /\ rows'[e].token = rows[e].token
        /\ rows'[e].wait = rows[e].wait
        /\ \A f \in Events \ {e} : rows'[f] = rows[f]
    BY <1>0, <1>2 DEF Enqueue, Row
  <2>0. rows'[e].wait = 0
    BY <1>0, <1>2, <2>1 DEF Enqueue
  <2>2. line' = Queued(e, 0)
    BY <1>2 DEF Enqueue
  <2>3. Tokened' /\ DueAtOnce'
    BY <1>0, <2>1 DEF Tokened, DueAtOnce
  <2>4. TypeOK'
    BY <1>0, <2>0, <2>1, <2>2, QueuedLine
  <2>. QED BY <2>3, <2>4 DEF LineInv
<1>3. ASSUME NEW d \in Dispatchers, NEW e \in Events, Claim(d, e) PROVE LineInv'
  <2>1. /\ rows'[e].status = "pending" /\ rows'[e].wait = LeaseTTL
        /\ \A f \in Events \ {e} : rows'[f] = rows[f]
    BY <1>0, <1>3 DEF Claim, Due, Row
  <2>2. line' = Queued(e, LeaseTTL)
    BY <1>3 DEF Claim
  <2>3. Tokened' /\ DueAtOnce'
    BY <1>0, <2>1 DEF Tokened, DueAtOnce
  <2>4. TypeOK'
    BY <1>0, <2>1, <2>2, QueuedLine
  <2>. QED BY <2>3, <2>4 DEF LineInv
<1>4. ASSUME NEW d \in Dispatchers, Reschedule(d) PROVE LineInv'
  <2> DEFINE e == work[d].event
  <2>1. e \in Events
    BY <1>0, <1>4, BusyFields DEF Reschedule, Idle
  <2>2. PICK delay \in Delays :
            /\ rows' = [rows EXCEPT ![e].wait = delay, ![e].token = NoToken]
            /\ line' = Queued(e, delay)
    BY <1>4, Zenon DEF Reschedule
  <2>3. rows[e].status = "pending"
    BY <1>0, <1>4, <2>1 DEF Reschedule, Holds
  <2>. HIDE DEF e
  <2>4. /\ rows'[e].status = "pending" /\ rows'[e].wait = delay /\ delay \in Nat
        /\ \A f \in Events \ {e} : rows'[f] = rows[f]
    BY <1>0, <2>1, <2>2, <2>3 DEF Row
  <2>5. Tokened' /\ DueAtOnce'
    BY <1>0, <2>4 DEF Tokened, DueAtOnce
  <2>6. TypeOK'
    BY <1>0, <2>1, <2>2, <2>4, QueuedLine
  <2>. QED BY <2>5, <2>6 DEF LineInv
<1>5. ASSUME NEW d \in Dispatchers, Acknowledge(d) PROVE LineInv'
  <2> DEFINE e == work[d].event
  <2>1. e \in Events
    BY <1>0, <1>5, BusyFields DEF Acknowledge, Idle
  <2>2. /\ rows' = [rows EXCEPT ![e].status = "delivered", ![e].token = NoToken]
        /\ line' = Without(e)
    BY <1>5 DEF Acknowledge
  <2>. HIDE DEF e
  <2>3. /\ rows'[e].status = "delivered" /\ rows'[e].token = NoToken
        /\ rows'[e].wait = rows[e].wait
        /\ \A f \in Events \ {e} : rows'[f] = rows[f]
    BY <1>0, <2>1, <2>2 DEF Row
  <2>4. Tokened' /\ DueAtOnce'
    BY <1>0, <2>3 DEF Tokened, DueAtOnce
  <2>5. /\ line' \in Seq(Events)
        /\ Listed(line') = Listed(line) \ {e}
        /\ \A i, j \in DOMAIN line' : i < j =>
              line'[i] # line'[j] /\ rows[line'[i]].wait <= rows[line'[j]].wait
    BY <2>1, <2>2, WithoutFacts DEF LineInv
  <2>6. \A i \in DOMAIN line' : line'[i] \in Events
    BY <2>5
  <2>7. \A f \in Events : rows[f].status = "pending" <=> f \in Listed(line)
    BY ListedIs DEF LineInv, TypeOK
  <2>8. \A f \in Events : rows'[f].status = "pending" <=> f \in Listed(line')
    BY <2>3, <2>5, <2>7
  <2>9. \A f \in Events : rows'[f].status = "pending" <=> \E i \in DOMAIN line' : line'[i] = f
    BY <2>8, ListedIs
  <2>10. \A f \in Events : rows'[f].wait = rows[f].wait
    BY <2>3
  <2>11. \A i, j \in DOMAIN line' : i < j =>
            line'[i] # line'[j] /\ rows'[line'[i]].wait <= rows'[line'[j]].wait
    BY <2>5, <2>6, <2>10
  <2>. QED BY <1>0, <2>4, <2>5, <2>9, <2>11 DEF LineInv, TypeOK
<1>6. ASSUME Tick PROVE LineInv'
  <2>1. \A e \in Events : /\ rows'[e].status = rows[e].status /\ rows'[e].token = rows[e].token
                          /\ rows'[e].wait = Less(rows[e].wait) /\ rows[e].wait \in Nat
    BY <1>0, <1>6 DEF Tick, Row
  <2>2. line' = line
    BY <1>6 DEF Tick
  <2>3. Tokened' /\ DueAtOnce'
    BY <1>0, <2>1 DEF Tokened, DueAtOnce, Less
  <2>4. \A i \in DOMAIN line : line[i] \in Events
    BY DEF LineInv, TypeOK
  <2>5. \A m, n \in Nat : m <= n => Less(m) <= Less(n)
    BY DEF Less
  <2>6. \A i, j \in DOMAIN line : i < j =>
            line[i] # line[j] /\ rows[line[i]].wait <= rows[line[j]].wait
    BY DEF LineInv, TypeOK
  <2>7. \A i, j \in DOMAIN line : i < j =>
            line[i] # line[j] /\ rows'[line[i]].wait <= rows'[line[j]].wait
    BY <2>1, <2>4, <2>5, <2>6
  <2>8. line \in Seq(Events) /\
        \A e \in Events : rows'[e].status = "pending" <=> \E i \in DOMAIN line : line[i] = e
    BY <2>1 DEF LineInv, TypeOK
  <2>. QED BY <1>0, <2>2, <2>3, <2>7, <2>8 DEF LineInv, TypeOK
<1>7. ASSUME NEW d \in Dispatchers,
             Superseded(d) \/ Crash(d) \/ \E answer \in Answers : Deliver(d, answer)
      PROVE  LineInv'
  BY <1>1, <1>7 DEF Superseded, Crash, Deliver
<1>8. ASSUME UNCHANGED vars PROVE LineInv'
  BY <1>1, <1>8 DEF vars
<1>. QED BY <1>2, <1>3, <1>4, <1>5, <1>6, <1>7, <1>8 DEF Next, Step

\* The line holds each undelivered event once and in the order of its next
\* attempt, whatever claims, delays and late answers there were: what is taken
\* from its head is what is due longest.
THEOREM LineInOrder == Spec => []TypeOK
<1>1. Init => LineInv
  <2>1. Init => Typed /\ Tokened /\ DueAtOnce
    BY InitDInv DEF Init, DInv, Tokened, DueAtOnce
  <2>2. Init => /\ line \in Seq(Events) /\ DOMAIN line = {}
                /\ \A e \in Events : rows[e].status # "pending"
    BY DEF Init
  <2>. QED BY <2>1, <2>2 DEF LineInv, TypeOK
<1>2. LineInv => TypeOK
  BY DEF LineInv
<1>. QED BY <1>1, <1>2, StepLineInv, DispatchInvariance, PTL DEF Spec

-----------------------------------------------------------------------------
\* Every step of the dispatcher is a step of the hand-off or invisible to it.
LEMMA StepKeepsPromise ==
    DInv /\ [Next]_vars => [Promise!Next]_(Promise!handoff)
<1>. SUFFICES ASSUME DInv, [Next]_vars PROVE Promise!Next \/ UNCHANGED Promise!handoff
  OBVIOUS
<1>. USE DEF Promise!Next, Promise!handoff
<1>0. rows \in [Events -> Row] /\ work \in [Dispatchers -> Work]
  BY DEF DInv, Typed
<1>1. ASSUME NEW e \in Events, Enqueue(e) PROVE Promise!Offer(e)
  <2>1. /\ rows[e].status = "absent" /\ rows'[e].status = "pending"
        /\ \A f \in Events \ {e} : rows'[f] = rows[f]
    BY <1>0, <1>1 DEF Enqueue
  <2>2. offered' = offered \cup {e} /\ marked' = marked /\ e \notin offered
    BY <2>1 DEF offered, marked
  <2>. QED BY <1>1, <2>2 DEF Promise!Offer, Enqueue
<1>2. ASSUME NEW d \in Dispatchers, NEW e \in Events, Claim(d, e)
      PROVE  UNCHANGED Promise!handoff
  <2>1. \A f \in Events : rows'[f].status = rows[f].status
    BY <1>0, <1>2 DEF Claim, Row
  <2>. QED BY <1>2, <2>1 DEF Claim, offered, marked
<1>3. ASSUME NEW d \in Dispatchers, NEW answer \in Answers, Deliver(d, answer)
      PROVE  Promise!Next \/ UNCHANGED Promise!handoff
  <2>1. work[d] \in Work /\ work[d] # Idle
    BY <1>0, <1>3 DEF Deliver, Idle
  <2>2. work[d].event \in Events /\ work[d].event \in offered
    BY <2>1, BusyFields DEF DInv, Honest
  <2>3. offered' = offered /\ marked' = marked
    BY <1>3 DEF Deliver, offered, marked
  <2>4. accepted' = accepted \/ accepted' = accepted \cup {work[d].event}
    BY <1>3 DEF Deliver
  <2>5. CASE accepted' = accepted
    BY <2>3, <2>5
  <2>6. CASE accepted' = accepted \cup {work[d].event}
    BY <2>2, <2>3, <2>6 DEF Promise!Accept
  <2>. QED BY <2>4, <2>5, <2>6
<1>4. ASSUME NEW d \in Dispatchers, Acknowledge(d)
      PROVE  Promise!Next \/ UNCHANGED Promise!handoff
  <2>1. work[d] \in Work /\ work[d] # Idle
    BY <1>0, <1>4 DEF Acknowledge, Idle
  <2>2. PICK e \in Events : e = work[d].event
    BY <2>1, BusyFields
  <2>3. e \in accepted /\ e \in offered
    BY <1>4, <2>1, <2>2 DEF Acknowledge, DInv, Honest
  <2>4. /\ rows'[e].status = "delivered"
        /\ \A f \in Events \ {e} : rows'[f] = rows[f]
    BY <1>0, <1>4, <2>2 DEF Acknowledge
  <2>5. offered' = offered /\ marked' = marked \cup {e} /\ accepted' = accepted
    BY <1>4, <2>3, <2>4 DEF Acknowledge, offered, marked
  <2>6. CASE e \in marked
    BY <2>5, <2>6
  <2>7. CASE e \notin marked
    BY <2>3, <2>5, <2>7 DEF Promise!Mark
  <2>. QED BY <2>6, <2>7
<1>5. ASSUME NEW d \in Dispatchers, Reschedule(d) PROVE UNCHANGED Promise!handoff
  <2>1. \A f \in Events : rows'[f].status = rows[f].status
    BY <1>0, <1>5 DEF Reschedule, Row
  <2>. QED BY <1>5, <2>1 DEF Reschedule, offered, marked
<1>6. ASSUME NEW d \in Dispatchers, Superseded(d) \/ Crash(d)
      PROVE  UNCHANGED Promise!handoff
  BY <1>6 DEF Superseded, Crash, offered, marked
<1>7. ASSUME Tick PROVE UNCHANGED Promise!handoff
  <2>1. \A f \in Events : rows'[f].status = rows[f].status
    BY <1>0, <1>7 DEF Tick, Row
  <2>. QED BY <1>7, <2>1 DEF Tick, offered, marked
<1>8. ASSUME UNCHANGED vars PROVE UNCHANGED Promise!handoff
  BY <1>8 DEF vars, offered, marked
<1>. QED BY <1>1, <1>2, <1>3, <1>4, <1>5, <1>6, <1>7, <1>8 DEF Next, Step

\* dispatch_once implements the at-least-once hand-off: nothing is accepted that
\* was not committed, and a delivery is recorded only after the consumer said it
\* is durable, past crashes, lost answers and late ones.
THEOREM KeepsPromise == Spec => ImplementsAtLeastOnce
<1>1. Init => Promise!Init
  BY DEF Init, Promise!Init, offered, marked
<1>. QED BY <1>1, StepKeepsPromise, DispatchInvariance, PTL
     DEF Spec, ImplementsAtLeastOnce, Promise!Spec
=============================================================================
