---------------------------- MODULE JournalProofs ----------------------------
(***************************************************************************)
(* Proofs about ProducerJournal: the journal implements the inbox, so that *)
(* what is proved of the inbox holds of the composition too; and attempts  *)
(* are one, whole, durable and fenced.                                     *)
(***************************************************************************)
EXTENDS ProducerJournal, FiniteSetTheorems, TLAPS

\* The theorems about the inbox, for the inbox as the journal implements it.
Proved == INSTANCE InboxProofs WITH tx <- Held

OneTransactionEach == tx = [p \in Procs |-> tx[p]]

-----------------------------------------------------------------------------
(* Transactions as the inbox sees them. *)

\* A process holds the same row under either view of its transaction.
LEMMA HeldFacts ==
    ASSUME NEW p \in Procs
    PROVE  /\ Held[p] = Idle <=> tx[p] = Idle
           /\ tx[p] # Idle /\ tx[p].op \in JournalOps =>
                Held[p] = [op |-> "renew", job |-> tx[p].job, of |-> tx[p].of]
           /\ tx[p].op \notin JournalOps => Held[p] = tx[p]
           /\ tx[p] # Idle => Held[p].job = tx[p].job
BY DEF Held, Idle, JournalOps

\* What a change of one transaction is to the inbox.
LEMMA HeldSteps ==
    ASSUME OneTransactionEach, NEW p \in Procs, NEW t, tx' = [tx EXCEPT ![p] = t]
    PROVE  /\ t.op \notin JournalOps => Held' = [Held EXCEPT ![p] = t]
           /\ t.op \in JournalOps =>
                Held' = [Held EXCEPT ![p] = [op |-> "renew", job |-> t.job, of |-> t.of]]
           /\ OneTransactionEach'
<1>1. \A q \in Procs : tx'[q] = IF q = p THEN t ELSE tx[q]
  BY DEF OneTransactionEach
<1> QED BY <1>1 DEF Held, OneTransactionEach

\* The end of a transaction is one for the inbox.
LEMMA HeldEnd ==
    ASSUME OneTransactionEach, NEW p \in Procs, End(p)
    PROVE  Held' = [Held EXCEPT ![p] = Idle] /\ OneTransactionEach'
<1>1. Idle.op \notin JournalOps
  BY DEF Idle, JournalOps
<1> QED BY <1>1, HeldSteps DEF End

\* A row is locked for the inbox if it is locked.
LEMMA SameLocks == \A j : Assignments!Locked(j) <=> Locked(j)
<1>1. Assignments!Idle = Idle
  BY DEF Assignments!Idle, Idle
<1> QED BY <1>1, HeldFacts DEF Assignments!Locked, Locked

\* Counting is the same under either name.
LEMMA SameCardinality == \A S : Assignments!Cardinality(S) = Cardinality(S)
BY DEF Assignments!Cardinality, Cardinality, Assignments!IsFiniteSet, IsFiniteSet

\* What the inbox computes does not depend on the transactions.
LEMMA SameInbox ==
    /\ Assignments!Idle = Idle
    /\ \A j : Assignments!Exists(j) <=> Exists(j)
    /\ \A l : Assignments!Live(l) <=> Live(l)
    /\ \A l, m : Assignments!Recorded(l, m) <=> Recorded(l, m)
    /\ \A a : Assignments!LeaseOf(a) = LeaseOf(a)
    /\ \A e : /\ Assignments!DifferentInput(e) <=> DifferentInput(e)
              /\ Assignments!DifferentPayload(e) <=> DifferentPayload(e)
              /\ Assignments!TooManyDestinations(e) <=> TooManyDestinations(e)
              /\ Assignments!Wanted(e) = Wanted(e)
              /\ Assignments!Revised(e) = Revised(e)
    /\ \A e, f : Assignments!SameEventId(e, f) <=> SameEventId(e, f)
    /\ \A j, k : Assignments!Older(j, k) <=> Older(j, k)
    /\ \A row : /\ Assignments!BlockRow(row) = BlockRow(row)
                /\ Assignments!ClaimRow(row) = ClaimRow(row)
                /\ Assignments!RenewedRow(row) = RenewedRow(row)
                /\ Assignments!AgedRow(row) = AgedRow(row)
    /\ \A row, m : Assignments!CompletedRow(row, m) = CompletedRow(row, m)
    /\ \A a : Assignments!Aged(a) = Aged(a)
    /\ \A a, x : /\ Assignments!Renewed(a, x) = Renewed(a, x)
                 /\ Assignments!Finished(a, x) = Finished(a, x)
    /\ \A j : Assignments!NewAssignment(j) = NewAssignment(j)
<1>1. /\ Assignments!Idle = Idle
      /\ \A j : Assignments!Exists(j) <=> Exists(j)
      /\ \A l : Assignments!Live(l) <=> Live(l)
      /\ \A l, m : Assignments!Recorded(l, m) <=> Recorded(l, m)
      /\ \A a : Assignments!LeaseOf(a) = LeaseOf(a)
  BY DEF Assignments!Idle, Idle, Assignments!Exists, Exists, Assignments!Live, Live,
         Assignments!Recorded, Recorded, Assignments!LeaseOf, LeaseOf
<1>2. \A e : Assignments!Wanted(e) = Wanted(e)
  BY DEF Assignments!Wanted, Wanted
<1>3. \A e, f : Assignments!SameEventId(e, f) <=> SameEventId(e, f)
  BY DEF Assignments!SameEventId, SameEventId
<1>4. \A e : /\ Assignments!DifferentInput(e) <=> DifferentInput(e)
             /\ Assignments!DifferentPayload(e) <=> DifferentPayload(e)
             /\ Assignments!TooManyDestinations(e) <=> TooManyDestinations(e)
  BY <1>1, <1>2, <1>3, SameCardinality
     DEF Assignments!DifferentInput, DifferentInput, Assignments!DifferentPayload,
         DifferentPayload, Assignments!TooManyDestinations, TooManyDestinations
<1>7. \A row : Assignments!NewRevision(row) = NewRevision(row)
  BY DEF Assignments!NewRevision, NewRevision, Assignments!Reopened, Reopened
<1>8. \A e : Assignments!FirstRow(e) = FirstRow(e)
  <2>1. {k \in Jobs : Assignments!Exists(k)} = {k \in Jobs : Exists(k)}
    BY <1>1
  <2>2. Assignments!NoJob = NoJob
    BY DEF Assignments!NoJob, NoJob
  <2> QED BY <2>1, <2>2, SameCardinality DEF Assignments!FirstRow, FirstRow
<1>9. \A e : Assignments!Revised(e) = Revised(e)
  BY <1>1, <1>2, <1>7, <1>8 DEF Assignments!Revised, Revised
<1>10. \A j, k : Assignments!Older(j, k) <=> Older(j, k)
  BY DEF Assignments!Older, Older
<1>5. /\ \A row : /\ Assignments!BlockRow(row) = BlockRow(row)
                  /\ Assignments!ClaimRow(row) = ClaimRow(row)
                  /\ Assignments!RenewedRow(row) = RenewedRow(row)
                  /\ Assignments!AgedRow(row) = AgedRow(row)
      /\ \A row, m : Assignments!CompletedRow(row, m) = CompletedRow(row, m)
  BY DEF Assignments!BlockRow, BlockRow, Assignments!ClaimRow, ClaimRow, Assignments!RenewedRow,
         RenewedRow, Assignments!AgedRow, AgedRow, Assignments!Less, Less, Assignments!Smaller,
         Smaller, Assignments!CompletedRow, CompletedRow
<1>6. /\ \A a : Assignments!Aged(a) = Aged(a)
      /\ \A a, x : /\ Assignments!Renewed(a, x) = Renewed(a, x)
                   /\ Assignments!Finished(a, x) = Finished(a, x)
      /\ \A j : Assignments!NewAssignment(j) = NewAssignment(j)
  BY DEF Assignments!Aged, Aged, Assignments!Less, Less, Assignments!Renewed, Renewed,
         Assignments!Finished, Finished, Assignments!NewAssignment, NewAssignment
<1> QED BY <1>1, <1>2, <1>3, <1>4, <1>5, <1>6, <1>9, <1>10

-----------------------------------------------------------------------------
(* Every step of the journal is one of the inbox. *)

\* A transaction of the inbox's own begins as one.
LEMMA BeginSteps ==
    ASSUME OneTransactionEach, NEW p \in Procs, NEW t, t.op \notin JournalOps, Begin(p, t)
    PROVE  Assignments!Begin(p, t) /\ OneTransactionEach'
<1>1. tx[p] = Idle /\ ~Locked(t.job) /\ tx' = [tx EXCEPT ![p] = t]
      /\ UNCHANGED <<jobs, destinations, inbox, issued, acked, confirmed>>
  BY DEF Begin
<1>2. Held[p] = Assignments!Idle /\ ~Assignments!Locked(t.job)
  BY <1>1, HeldFacts, SameLocks, SameInbox
<1> QED BY <1>1, <1>2, HeldSteps DEF Assignments!Begin

\* The journal's own transactions hold the row as a renewal does.
LEMMA JournalBegins ==
    ASSUME OneTransactionEach, NEW p \in Procs, NEW a \in issued, NEW t,
           BeginJournal(p, t), t.op \in JournalOps, t.job = a.job, t.of = LeaseOf(a)
    PROVE  Assignments!BeginRenew(p, a) /\ OneTransactionEach'
<1>1. /\ Exists(a.job) /\ tx[p] = Idle /\ ~Locked(a.job) /\ tx' = [tx EXCEPT ![p] = t]
      /\ UNCHANGED <<jobs, destinations, inbox, issued, acked, confirmed>>
  BY DEF BeginJournal, Begin
<1>2. Held[p] = Assignments!Idle /\ ~Assignments!Locked(a.job) /\ Assignments!Exists(a.job)
  BY <1>1, HeldFacts, SameLocks, SameInbox
<1>3. /\ Held' = [Held EXCEPT ![p] = [op |-> "renew", job |-> a.job, of |-> LeaseOf(a)]]
      /\ OneTransactionEach'
  <2>1. t.job = a.job /\ t.of = LeaseOf(a) /\ t.op \in JournalOps
    OBVIOUS
  <2>2. /\ t.op \in JournalOps =>
             Held' = [Held EXCEPT ![p] = [op |-> "renew", job |-> t.job, of |-> t.of]]
        /\ OneTransactionEach'
    BY <1>1, HeldSteps
  <2> QED BY <2>1, <2>2
<1>4. Assignments!LeaseOf(a) = LeaseOf(a)
  BY SameInbox
<1> QED BY <1>1, <1>2, <1>3, <1>4 DEF Assignments!BeginRenew, Assignments!Begin

\* They end as a renewal that is rolled back.
LEMMA JournalDecides ==
    ASSUME OneTransactionEach, NEW p \in Procs, JournalDecide(p)
    PROVE  Assignments!Rollback(p) /\ OneTransactionEach'
<1>1. /\ tx[p].op \in JournalOps /\ End(p)
      /\ UNCHANGED <<jobs, destinations, inbox, issued, acked, confirmed>>
  BY DEF JournalDecide, Allocate, AllocateReplay, Prepare, PrepareReplay, Refuse, JournalOps,
         dbVars
<1>2. tx[p] # Idle
  BY <1>1 DEF Idle, JournalOps
<1> QED BY <1>1, <1>2, HeldFacts, HeldEnd, SameInbox
        DEF Assignments!Rollback, Assignments!End

\* A rollback is one of whatever the inbox sees there.
LEMMA RollbackSteps ==
    ASSUME OneTransactionEach, NEW p \in Procs, Rollback(p)
    PROVE  Assignments!Rollback(p) /\ OneTransactionEach'
BY HeldFacts, HeldEnd, SameInbox DEF Rollback, Assignments!Rollback, Assignments!End

\* Decisions about events: the inbox sees the very transaction.
LEMMA AcceptSteps ==
    ASSUME OneTransactionEach, NEW p \in Procs,
           AcceptReplay(p) \/ AcceptNew(p) \/ AcceptConflict(p)
    PROVE  /\ Assignments!AcceptReplay(p) \/ Assignments!AcceptNew(p)
                 \/ Assignments!AcceptConflict(p)
           /\ OneTransactionEach'
<1>1. tx[p].op = "accept" /\ Held[p] = tx[p]
  BY HeldFacts DEF AcceptReplay, AcceptNew, AcceptConflict, JournalOps
<1>2. End(p) /\ Held' = [Held EXCEPT ![p] = Idle] /\ OneTransactionEach'
  BY HeldEnd DEF AcceptReplay, AcceptNew, AcceptConflict
<1>3. Assignments!End(p)
  BY <1>2, SameInbox DEF Assignments!End
<1>4. AcceptReplay(p) => Assignments!AcceptReplay(p)
  BY <1>1, <1>3, SameInbox
     DEF AcceptReplay, Assignments!AcceptReplay, Acknowledge, Assignments!Acknowledge
<1>5. AcceptNew(p) => Assignments!AcceptNew(p)
  BY <1>1, <1>3, SameInbox
     DEF AcceptNew, Assignments!AcceptNew, Acknowledge, Assignments!Acknowledge
<1>6. AcceptConflict(p) => Assignments!AcceptConflict(p)
  BY <1>1, <1>3, SameInbox DEF AcceptConflict, Assignments!AcceptConflict
<1> QED BY <1>2, <1>4, <1>5, <1>6

\* Decisions about leases, the inbox's own renewals among them.
LEMMA WorkerSteps ==
    ASSUME OneTransactionEach, NEW p \in Procs,
           Renew(p) \/ Complete(p) \/ CompleteReplay(p) \/ Stale(p)
    PROVE  /\ \/ Assignments!Renew(p) \/ Assignments!Complete(p)
              \/ Assignments!CompleteReplay(p) \/ Assignments!Stale(p)
           /\ OneTransactionEach'
<1>1. Held[p] = tx[p]
  BY HeldFacts DEF Renew, Complete, CompleteReplay, Stale, JournalOps
<1>2. End(p) /\ Held' = [Held EXCEPT ![p] = Idle] /\ OneTransactionEach'
  BY HeldEnd DEF Renew, Complete, CompleteReplay, Stale
<1>3. Assignments!End(p)
  BY <1>2, SameInbox DEF Assignments!End
<1>4. Renew(p) => Assignments!Renew(p)
  <2>1. \A l, x : {IF Assignments!LeaseOf(a) = l THEN Assignments!Renewed(a, x) ELSE a :
                      a \in issued}
                  = {IF LeaseOf(a) = l THEN Renewed(a, x) ELSE a : a \in issued}
    BY SameInbox
  <2>2. \A l : /\ Assignments!Live(l) <=> Live(l)
               /\ Assignments!RenewedRow(jobs[l.job]) = RenewedRow(jobs[l.job])
    BY SameInbox
  <2> SUFFICES ASSUME Renew(p) PROVE Assignments!Renew(p)
    OBVIOUS
  <2> DEFINE l == tx[p].of
             row == RenewedRow(jobs[l.job])
  <2>3. /\ tx[p].op = "renew" /\ Live(l)
        /\ jobs' = [jobs EXCEPT ![l.job] = row]
        /\ issued' = {IF LeaseOf(a) = l THEN Renewed(a, row.lease) ELSE a : a \in issued}
        /\ UNCHANGED <<destinations, inbox, acked, confirmed>>
    BY DEF Renew
  <2>4. /\ Held[p].of = l /\ Held[p].op = "renew" /\ Assignments!Live(l)
        /\ Assignments!RenewedRow(jobs[l.job]) = row
    BY <1>1, <2>2, <2>3
  <2> HIDE DEF l, row
  <2>5. issued' = {IF Assignments!LeaseOf(a) = l THEN Assignments!Renewed(a, row.lease) ELSE a :
                      a \in issued}
    BY <2>1, <2>3
  <2> QED BY <1>3, <2>3, <2>4, <2>5 DEF Assignments!Renew
<1>5. Complete(p) => Assignments!Complete(p)
  <2>1. \A l, m : {IF Assignments!LeaseOf(a) = l THEN Assignments!Finished(a, m) ELSE a :
                      a \in issued}
                  = {IF LeaseOf(a) = l THEN Finished(a, m) ELSE a : a \in issued}
    BY SameInbox
  <2>2. \A l, m : /\ Assignments!Live(l) <=> Live(l)
                  /\ Assignments!CompletedRow(jobs[l.job], m) = CompletedRow(jobs[l.job], m)
    BY SameInbox
  <2> SUFFICES ASSUME Complete(p) PROVE Assignments!Complete(p)
    OBVIOUS
  <2> DEFINE l == tx[p].of
             m == tx[p].manifest
             row == CompletedRow(jobs[l.job], m)
  <2>3. /\ tx[p].op = "complete" /\ Live(l)
        /\ jobs' = [jobs EXCEPT ![l.job] = row]
        /\ issued' = {IF LeaseOf(a) = l THEN Finished(a, m) ELSE a : a \in issued}
        /\ Confirm(l, m)
        /\ UNCHANGED <<destinations, inbox, acked>>
    BY DEF Complete
  <2>4. /\ Held[p].of = l /\ Held[p].op = "complete" /\ Held[p].manifest = m
        /\ Assignments!Live(l) /\ Assignments!CompletedRow(jobs[l.job], m) = row
    BY <1>1, <2>2, <2>3
  <2> HIDE DEF l, m, row
  <2>5. /\ issued' = {IF Assignments!LeaseOf(a) = l THEN Assignments!Finished(a, m) ELSE a :
                         a \in issued}
        /\ Assignments!Confirm(l, m)
    BY <2>1, <2>3 DEF Confirm, Assignments!Confirm
  <2> QED BY <1>3, <2>3, <2>4, <2>5 DEF Assignments!Complete
<1>6. CompleteReplay(p) => Assignments!CompleteReplay(p)
  BY <1>1, <1>3, SameInbox
     DEF CompleteReplay, Assignments!CompleteReplay, Confirm, Assignments!Confirm
<1>7. Stale(p) => Assignments!Stale(p)
  BY <1>1, <1>3, SameInbox DEF Stale, Assignments!Stale
<1> QED BY <1>2, <1>4, <1>5, <1>6, <1>7

\* Claims see the same rows locked.
LEMMA SameQueue ==
    /\ Assignments!Claimable = Claimable
    /\ Assignments!Blocking = Blocking
    /\ \A j : Assignments!Oldest(j) <=> Oldest(j)
<1>1. \A j : Assignments!Available(j) <=> Available(j)
  BY SameLocks DEF Assignments!Available, Available
<1>2. Assignments!Claimable = Claimable /\ Assignments!Exhausted = Exhausted
  BY <1>1 DEF Assignments!Claimable, Claimable, Assignments!Exhausted, Exhausted
<1>3. \A j : {k \in Assignments!Exhausted : Assignments!Older(k, j)}
                = {k \in Exhausted : Older(k, j)}
  BY <1>2, SameInbox
<1>4. Assignments!Blocking = Blocking
  BY <1>2, <1>3, SameCardinality DEF Assignments!Blocking, Blocking
<1> QED BY <1>2, <1>4, SameInbox DEF Assignments!Oldest, Oldest

\* A claim is one for the inbox too.
LEMMA ClaimSteps ==
    ASSUME OneTransactionEach, NEW p \in Procs
    PROVE  /\ \A j \in Jobs : Claim(p, j) => Assignments!Claim(p, j) /\ Held' = Held
           /\ ClaimNone(p) => Assignments!ClaimNone(p) /\ Held' = Held
<1>1. tx' = tx => Held' = Held
  BY DEF Held
<1>2. tx[p] = Idle => Held[p] = Assignments!Idle
  BY HeldFacts, SameInbox
<1>3. ASSUME NEW j \in Jobs, Claim(p, j) PROVE Assignments!Claim(p, j) /\ Held' = Held
  BY <1>1, <1>2, <1>3, SameQueue, SameInbox DEF Claim, Assignments!Claim
<1>4. ASSUME ClaimNone(p) PROVE Assignments!ClaimNone(p) /\ Held' = Held
  BY <1>1, <1>2, <1>4, SameQueue, SameInbox DEF ClaimNone, Assignments!ClaimNone
<1> QED BY <1>3, <1>4

\* So are the passing of time and the replay of a completion.
LEMMA OtherSteps ==
    ASSUME OneTransactionEach
    PROVE  /\ Tick => Assignments!Tick
           /\ \A p \in Procs : \A a \in issued : \A m \in Manifests :
                JournalCompletionReplay(p, a, m) => Assignments!JournalCompletionReplay(p, a, m)
<1>1. tx' = tx => Held' = Held
  BY DEF Held
<1>2. \A p \in Procs : tx[p] = Idle => Held[p] = Assignments!Idle
  BY HeldFacts, SameInbox
<1>3. Tick => Assignments!Tick
  BY <1>1, SameInbox DEF Tick, Assignments!Tick
<1>4. \A p \in Procs : \A a \in issued : \A m \in Manifests :
         JournalCompletionReplay(p, a, m) => Assignments!JournalCompletionReplay(p, a, m)
  BY <1>1, <1>2, SameInbox DEF JournalCompletionReplay, Assignments!JournalCompletionReplay
<1> QED BY <1>3, <1>4

\* Both start with no transaction open.
LEMMA Starts == JournalInit => Assignments!Init /\ OneTransactionEach
<1> SUFFICES ASSUME JournalInit PROVE Assignments!Init /\ OneTransactionEach
  OBVIOUS
<1>1. tx = [p \in Procs |-> Idle]
  BY DEF JournalInit, Init
<1>2. OneTransactionEach
  BY <1>1 DEF OneTransactionEach
<1>3. Held = [p \in Procs |-> Assignments!Idle]
  BY <1>1, SameInbox DEF Held, Idle, JournalOps
<1>4. Assignments!NoJob = NoJob
  BY DEF Assignments!NoJob, NoJob
<1> QED BY <1>2, <1>3, <1>4 DEF JournalInit, Init, Assignments!Init

\* Each step of the journal and the inbox is one of the inbox, or none.
LEMMA Simulates ==
    ASSUME OneTransactionEach, [JournalNext]_journalVars
    PROVE  [Assignments!Next]_(Assignments!vars) /\ OneTransactionEach'
<1>1. ASSUME NEW p \in Procs, NEW e \in Events, BeginAccept(p, e)
      PROVE  Assignments!Next /\ OneTransactionEach'
  <2>1. Assignments!Begin(p, [op |-> "accept", job |-> e.job, event |-> e]) /\ OneTransactionEach'
    BY <1>1, BeginSteps DEF BeginAccept, JournalOps
  <2> QED BY <2>1 DEF Assignments!BeginAccept, Assignments!Next
<1>2. ASSUME NEW p \in Procs, NEW a \in issued, BeginRenew(p, a)
      PROVE  Assignments!Next /\ OneTransactionEach'
  <2>1. /\ Assignments!Begin(p, [op |-> "renew", job |-> a.job, of |-> LeaseOf(a)])
        /\ OneTransactionEach' /\ Assignments!Exists(a.job)
    BY <1>2, BeginSteps, SameInbox DEF BeginRenew, JournalOps
  <2>2. Assignments!BeginRenew(p, a)
    BY <2>1, SameInbox DEF Assignments!BeginRenew
  <2> QED BY <2>1, <2>2 DEF Assignments!Next
<1>3. ASSUME NEW p \in Procs, NEW a \in issued, NEW m \in Manifests, BeginComplete(p, a, m)
      PROVE  Assignments!Next /\ OneTransactionEach'
  <2>1. /\ Assignments!Begin(p, [op |-> "complete", job |-> a.job, of |-> LeaseOf(a),
                                 manifest |-> m])
        /\ OneTransactionEach' /\ Assignments!Exists(a.job) /\ p \notin JournalProcs
    BY <1>3, BeginSteps, SameInbox DEF BeginComplete, JournalOps
  <2>2. Assignments!BeginComplete(p, a, m)
    BY <2>1, SameInbox DEF Assignments!BeginComplete
  <2> QED BY <2>1, <2>2 DEF Assignments!Next
<1>4. ASSUME NEW p \in Procs, Rollback(p) \/ JournalDecide(p)
      PROVE  Assignments!Next /\ OneTransactionEach'
  BY <1>4, RollbackSteps, JournalDecides DEF Assignments!Next
<1>5. ASSUME NEW p \in Procs, Decide(p)
      PROVE  Assignments!Next /\ OneTransactionEach'
  <2>1. Assignments!Decide(p) /\ OneTransactionEach'
    BY <1>5, AcceptSteps, WorkerSteps DEF Decide, Assignments!Decide
  <2> QED BY <2>1 DEF Assignments!Next
<1>6. ASSUME NEW p \in Procs, NEW a \in issued, NEW n, NEW s,
             RequestBegin(p, a) \/ RequestDispatch(p, a, n) \/ RequestPrepare(p, a, n, s)
      PROVE  Assignments!Next /\ OneTransactionEach'
  <2>1. PICK t : BeginJournal(p, t) /\ t.op \in JournalOps /\ t.job = a.job /\ t.of = LeaseOf(a)
    BY <1>6 DEF RequestBegin, RequestDispatch, RequestPrepare, JournalOps
  <2>2. Assignments!BeginRenew(p, a) /\ OneTransactionEach'
    BY <2>1, JournalBegins
  <2> QED BY <2>2 DEF Assignments!Next
<1>7. tx' = tx => OneTransactionEach' /\ Held' = Held
  BY DEF OneTransactionEach, Held
<1>8. CASE ClaimCall
  <2>1. tx' = tx
    BY <1>8 DEF ClaimCall, Claim, ClaimNone
  <2>2. Assignments!ClaimCall
    BY <1>8, ClaimSteps DEF ClaimCall, Assignments!ClaimCall
  <2> QED BY <1>7, <2>1, <2>2 DEF Assignments!Next
<1>9. CASE Tick
  BY <1>7, <1>9, OtherSteps DEF Tick, Assignments!Next
<1>10. ASSUME NEW p \in Procs, NEW a \in issued, NEW m \in Manifests,
              JournalCompletionReplay(p, a, m)
       PROVE  Assignments!Next /\ OneTransactionEach'
  <2>1. Assignments!JournalCompletionReplay(p, a, m) /\ tx' = tx
    BY <1>10, OtherSteps DEF JournalCompletionReplay
  <2> QED BY <1>7, <2>1 DEF Assignments!Next
<1>11. CASE UNCHANGED journalVars
  BY <1>7, <1>11 DEF journalVars, Assignments!vars
<1>12. CASE Next
  BY <1>1, <1>2, <1>3, <1>4, <1>5, <1>8, <1>9, <1>10, <1>12 DEF Next
<1>13. CASE \E p \in Procs : JournalStep(p)
  BY <1>4, <1>6, <1>13 DEF JournalStep
<1> QED BY <1>11, <1>12, <1>13 DEF JournalNext

\* Whatever workers ask of the journal, assignments behave as without it: the
\* journal adds transactions that hold a job's row for a while and change
\* nothing of the inbox (producer_journal.rs:341-386).
THEOREM JournalImplementsInbox == JournalSpec => ImplementsInbox
<1>1. OneTransactionEach /\ [JournalNext]_journalVars =>
         OneTransactionEach' /\ [Assignments!Next]_(Assignments!vars)
  BY Simulates
<1> QED BY <1>1, Starts, PTL DEF JournalSpec, ImplementsInbox, Assignments!Spec

-----------------------------------------------------------------------------
(* What is proved of the inbox holds of the composition. *)

\* The theorems are about the inbox that the journal implements.
LEMMA SameSpec == ImplementsInbox <=> Proved!Spec
<1>1. Assignments!Next <=> Proved!Next
  BY DEF Assignments!Next, Proved!Next, Assignments!BeginAccept, Proved!BeginAccept,
         Assignments!BeginRenew, Proved!BeginRenew, Assignments!BeginComplete,
         Proved!BeginComplete, Assignments!JournalCompletionReplay,
         Proved!JournalCompletionReplay, Assignments!Rollback, Proved!Rollback,
         Assignments!Decide, Proved!Decide, Assignments!ClaimCall, Proved!ClaimCall,
         Assignments!Tick, Proved!Tick, Assignments!Begin, Proved!Begin, Assignments!Idle,
         Proved!Idle, Assignments!Locked, Proved!Locked, Assignments!Exists, Proved!Exists,
         Assignments!LeaseOf, Proved!LeaseOf, Assignments!End, Proved!End,
         Assignments!AcceptReplay, Proved!AcceptReplay, Assignments!AcceptNew, Proved!AcceptNew,
         Assignments!AcceptConflict, Proved!AcceptConflict, Assignments!Renew, Proved!Renew,
         Assignments!Complete, Proved!Complete, Assignments!CompleteReplay, Proved!CompleteReplay,
         Assignments!Stale, Proved!Stale, Assignments!ClaimNone, Proved!ClaimNone,
         Assignments!Claim, Proved!Claim, Assignments!DifferentInput, Proved!DifferentInput,
         Assignments!DifferentPayload, Proved!DifferentPayload, Assignments!TooManyDestinations,
         Proved!TooManyDestinations, Assignments!Wanted, Proved!Wanted, Assignments!SameEventId,
         Proved!SameEventId, Assignments!Acknowledge, Proved!Acknowledge, Assignments!Revised,
         Proved!Revised, Assignments!FirstRow, Proved!FirstRow, Assignments!NewRevision,
         Proved!NewRevision, Assignments!Reopened, Proved!Reopened, Assignments!NoJob,
         Proved!NoJob, Assignments!Live, Proved!Live, Assignments!Recorded, Proved!Recorded,
         Assignments!Confirm, Proved!Confirm, Assignments!RenewedRow, Proved!RenewedRow,
         Assignments!Renewed, Proved!Renewed, Assignments!CompletedRow, Proved!CompletedRow,
         Assignments!Finished, Proved!Finished, Assignments!Smaller, Proved!Smaller,
         Assignments!Oldest, Proved!Oldest, Assignments!Claimable, Proved!Claimable,
         Assignments!Blocking, Proved!Blocking, Assignments!Exhausted, Proved!Exhausted,
         Assignments!Available, Proved!Available, Assignments!Older, Proved!Older,
         Assignments!BlockRow, Proved!BlockRow, Assignments!ClaimRow, Proved!ClaimRow,
         Assignments!NewAssignment, Proved!NewAssignment, Assignments!AgedRow, Proved!AgedRow,
         Assignments!Aged, Proved!Aged, Assignments!Less, Proved!Less, Assignments!Cardinality,
         Proved!Cardinality, Assignments!IsFiniteSet, Proved!IsFiniteSet
<1>2. Assignments!Init <=> Proved!Init
  BY DEF Assignments!Init, Proved!Init, Assignments!NoJob, Proved!NoJob, Assignments!Idle,
         Proved!Idle
<1>3. [Assignments!Next]_(Assignments!vars) <=> [Proved!Next]_(Proved!vars)
  BY <1>1 DEF Assignments!vars, Proved!vars
<1> QED BY <1>2, <1>3, PTL DEF ImplementsInbox, Assignments!Spec, Proved!Spec

\* What the journal needs to know of assignments.
AssignmentsSound ==
    /\ OneTransactionEach
    /\ jobs \in [Jobs -> Row]
    /\ issued \subseteq Assignment
    /\ confirmed \subseteq Lease \X Manifests
    /\ \A a \in issued :
        /\ a.done # NoManifest /\ a.revision = jobs[a.job].revision =>
              jobs[a.job].state = "completed"
        /\ a.generation = jobs[a.job].generation => jobs[a.job].lease <= a.left
    /\ \A p \in Procs :
        tx[p].op \in JournalOps => \E a \in issued : LeaseOf(a) = tx[p].of

\* All of it is proved of the inbox.
LEMMA AssignmentsAreSound == JournalSpec => []AssignmentsSound
<1>1. Proved!ConstantsAssumption
  BY ConstantsAssumption
     DEF Proved!ConstantsAssumption, Proved!IsFiniteSet, IsFiniteSet, Proved!EventRecord,
         EventRecord
<1>2. Proved!Spec => [](Proved!TypeOK /\ Proved!IInv)
  BY <1>1, Proved!Invariance
<1>3. Proved!Spec => []Proved!LeaseHonoured
  BY <1>1, Proved!LeasesAreHonoured
<1>4. JournalSpec => []OneTransactionEach
  <2>1. OneTransactionEach /\ [JournalNext]_journalVars => OneTransactionEach'
    BY Simulates
  <2> QED BY <2>1, Starts, PTL DEF JournalSpec
<1>5. ASSUME OneTransactionEach, Proved!TypeOK, Proved!IInv, Proved!LeaseHonoured
      PROVE  AssignmentsSound
  <2>1. Proved!Row = Row /\ Proved!Assignment = Assignment /\ Proved!Lease = Lease
    BY DEF Proved!Row, Row, Proved!States, States, Proved!Assignment, Assignment, Proved!Lease,
           Lease, Proved!Objects, Objects
  <2>2. /\ jobs \in [Jobs -> Row] /\ issued \subseteq Assignment
        /\ confirmed \subseteq Lease \X Manifests
    BY <1>5, <2>1 DEF Proved!TypeOK
  <2>3. \A a \in issued : a.done # NoManifest /\ a.revision = jobs[a.job].revision =>
           jobs[a.job].state = "completed"
    BY <1>5 DEF Proved!IInv, Proved!DbInv, Proved!DoneIsRecorded
  <2>4. \A a \in issued : a.generation = jobs[a.job].generation => jobs[a.job].lease <= a.left
    BY <1>5 DEF Proved!LeaseHonoured
  <2>5. \A p \in Procs : Held[p].op \in {"renew", "complete"} =>
           \E a \in issued : LeaseOf(a) = Held[p].of
    BY <1>5 DEF Proved!IInv, Proved!PresentedIsIssued, Proved!LeaseOf, LeaseOf
  <2>6. \A p \in Procs : tx[p].op \in JournalOps =>
           \E a \in issued : LeaseOf(a) = tx[p].of
    <3> SUFFICES ASSUME NEW p \in Procs, tx[p].op \in JournalOps
                 PROVE  \E a \in issued : LeaseOf(a) = tx[p].of
      OBVIOUS
    <3>1. Held[p] = [op |-> "renew", job |-> tx[p].job, of |-> tx[p].of]
      BY DEF Held
    <3> QED BY <2>5, <3>1
  <2> QED BY <1>5, <2>2, <2>3, <2>4, <2>6 DEF AssignmentsSound
<1> QED BY <1>2, <1>3, <1>4, <1>5, SameSpec, JournalImplementsInbox, PTL

-----------------------------------------------------------------------------
(***************************************************************************)
(* The attempts.  A fence and a nonce each name one attempt, and what an    *)
(* attempt was told as can only become a plan: from these OneNamespace      *)
(* follows for everything that was ever told.                               *)
(***************************************************************************)
JournalTyped ==
    /\ attempts \subseteq Attempt
    /\ told \subseteq Attempt
    /\ \A p \in Procs : tx[p].op \in JournalOps => tx[p] \in JournalTransaction

OneAttemptEach == \A x, y \in attempts : x.of = y.of \/ x.id = y.id => x = y

JournalInv == JournalTyped /\ OneAttemptEach /\ ToldIsDurable /\ PlansAreWhole

\* The invariant holds while there are no attempts.
LEMMA JournalStarts == JournalInit => JournalInv
BY DEF JournalInit, Init, Idle, JournalOps, JournalInv, JournalTyped, OneAttemptEach,
       ToldIsDurable, PlansAreWhole

\* It implies that namespaces are one.
LEMMA ToldOnce == ASSUME JournalInv PROVE OneNamespace
<1> SUFFICES ASSUME NEW x \in told \cup attempts, NEW y \in told \cup attempts
             PROVE  x.of = y.of <=> x.id = y.id
  BY DEF OneNamespace
<1>1. PICK v \in attempts : v.id = x.id /\ v.of = x.of
  BY DEF JournalInv, ToldIsDurable
<1>2. PICK w \in attempts : w.id = y.id /\ w.of = y.of
  BY DEF JournalInv, ToldIsDurable
<1> QED BY <1>1, <1>2 DEF JournalInv, OneAttemptEach

\* The inventory of a plan: one operation for each file of the family.
LEMMA PlanIsWhole ==
    ASSUME NEW x \in Attempt, NEW s \in Submissions, Whole(s)
    PROVE  LET ops == Planned(x, s)
               targets == {o.target : o \in ops}
           IN  /\ ops \subseteq Operation
               /\ targets = {x.id} \X Files
               /\ Cardinality(ops) = Cardinality(targets)
<1> DEFINE n == Len(s)
           Op(i) == [target |-> <<x.id, s[i].file>>, sum |-> s[i].sum]
           ops == {Op(i) : i \in 1..n}
           targets == {o.target : o \in ops}
<1>1. /\ s \in Seq(Artifact) /\ n \in Nat /\ DOMAIN s = 1..n
      /\ \A i \in 1..n : s[i] \in Artifact /\ s[i].file \in Files /\ s[i].sum \in Sums
      /\ n = Cardinality(Files) /\ {s[i].file : i \in 1..n} = Files
  <2>1. s \in Seq(Artifact)
    BY JournalConstants
  <2>2. n \in Nat /\ DOMAIN s = 1..n /\ \A i \in 1..n : s[i] \in Artifact
    BY <2>1
  <2> QED BY <2>1, <2>2 DEF Artifact, Whole
<1>2. Planned(x, s) = ops
  BY <1>1 DEF Planned
<1>3. ops \subseteq Operation
  BY <1>1 DEF Operation, Attempt
<1>4. targets = {<<x.id, s[i].file>> : i \in 1..n}
  <2>1. \A i \in 1..n : Op(i) \in ops /\ Op(i).target = <<x.id, s[i].file>>
    OBVIOUS
  <2>2. \A o \in ops : \E i \in 1..n : o.target = <<x.id, s[i].file>>
    BY <2>1
  <2> HIDE DEF ops, Op
  <2>3. ASSUME NEW t \in targets PROVE t \in {<<x.id, s[i].file>> : i \in 1..n}
    BY <2>2
  <2>4. ASSUME NEW i \in 1..n PROVE <<x.id, s[i].file>> \in targets
    BY <2>1
  <2> QED BY <2>3, <2>4
<1>5. targets = {x.id} \X Files
  <2>1. \A i \in 1..n : <<x.id, s[i].file>> \in {x.id} \X Files
    BY <1>1
  <2>2. ASSUME NEW t \in {x.id} \X Files PROVE t \in {<<x.id, s[i].file>> : i \in 1..n}
    <3>1. PICK i \in 1..n : s[i].file = t[2]
      BY <1>1
    <3>2. t = <<x.id, s[i].file>>
      BY <3>1
    <3> QED BY <3>2
  <2> QED BY <1>4, <2>1, <2>2
<1>6. IsFiniteSet(ops) /\ Cardinality(ops) <= n
  <2>1. [i \in 1..n |-> Op(i)] \in Surjection(1..n, ops)
    BY DEF Surjection
  <2>2. IsFiniteSet(1..n) /\ Cardinality(1..n) = n
    BY <1>1, FS_Interval
  <2> HIDE DEF ops, Op
  <2> QED BY <2>1, <2>2, FS_Surjection
<1>7. IsFiniteSet(targets) /\ Cardinality(targets) <= Cardinality(ops)
  <2>1. [o \in ops |-> o.target] \in Surjection(ops, targets)
    BY DEF Surjection
  <2> HIDE DEF ops, targets
  <2> QED BY <1>6, <2>1, FS_Surjection
<1>8. Cardinality(Files) <= Cardinality(targets)
  <2>1. [t \in targets |-> t[2]] \in Surjection(targets, Files)
    <3> HIDE DEF targets
    <3>1. \A t \in targets : t[2] \in Files
      BY <1>5
    <3>2. \A f \in Files : <<x.id, f>> \in targets /\ <<x.id, f>>[2] = f
      BY <1>5
    <3> QED BY <3>1, <3>2 DEF Surjection
  <2> HIDE DEF targets
  <2> QED BY <1>7, <2>1, FS_Surjection
<1>9. Cardinality(ops) = Cardinality(targets)
  <2>1. Cardinality(ops) \in Nat /\ Cardinality(targets) \in Nat /\ Cardinality(Files) \in Nat
    BY <1>6, <1>7, JournalConstants, FS_CardinalityType
  <2> HIDE DEF ops, targets, n
  <2> QED BY <1>1, <1>6, <1>7, <1>8, <2>1
<1> QED BY <1>2, <1>3, <1>5, <1>9

\* A lease that a transaction presents is one.
LEMMA PresentedLease ==
    ASSUME AssignmentsSound
    PROVE  \A a \in issued : LeaseOf(a) \in Lease /\ a.job \in Jobs
BY DEF AssignmentsSound, Assignment, LeaseOf, Lease

\* A transaction that is none of the journal's needs no typing.
LEMMA TypedSteps ==
    ASSUME OneTransactionEach, JournalTyped, NEW p \in Procs, NEW t,
           tx' = [tx EXCEPT ![p] = t],
           t.op \in JournalOps => t \in JournalTransaction
    PROVE  \A q \in Procs : tx'[q].op \in JournalOps => tx'[q] \in JournalTransaction
<1>1. \A q \in Procs : tx'[q] = IF q = p THEN t ELSE tx[q]
  BY DEF OneTransactionEach
<1> QED BY <1>1 DEF JournalTyped

\* An ended transaction needs none either.
LEMMA TypedEnd ==
    ASSUME OneTransactionEach, JournalTyped, NEW p \in Procs, End(p)
    PROVE  \A q \in Procs : tx'[q].op \in JournalOps => tx'[q] \in JournalTransaction
<1>1. Idle.op \notin JournalOps
  BY DEF Idle, JournalOps
<1> QED BY <1>1, TypedSteps DEF End

\* A request leaves every attempt alone.
LEMMA QuietSteps ==
    ASSUME AssignmentsSound, JournalInv, NEW p \in Procs,
           JournalStep(p), ~JournalDecide(p)
    PROVE  JournalInv' /\ UNCHANGED <<attempts, told>>
<1>1. PICK a \in issued :
         \/ RequestBegin(p, a)
         \/ \E n \in Known :
             RequestDispatch(p, a, n) \/ \E s \in Submissions : RequestPrepare(p, a, n, s)
  BY DEF JournalStep
<1>2. a.job \in Jobs /\ LeaseOf(a) \in Lease
  BY PresentedLease
<1>3. \A n \in Known : n \in Nonces
  BY DEF Known, JournalInv, JournalTyped, Attempt
<1>4. PICK t \in JournalTransaction : BeginJournal(p, t)
  BY <1>1, <1>2, <1>3 DEF RequestBegin, RequestDispatch, RequestPrepare, JournalTransaction
<1>5. tx' = [tx EXCEPT ![p] = t] /\ UNCHANGED <<attempts, told>>
  BY <1>4 DEF BeginJournal, Begin
<1>6. JournalTyped'
  BY <1>5, TypedSteps DEF AssignmentsSound, JournalInv, JournalTyped
<1> QED BY <1>5, <1>6 DEF JournalInv, OneAttemptEach, ToldIsDurable, PlansAreWhole

\* So do the inbox's own steps.
LEMMA InboxSteps ==
    ASSUME AssignmentsSound, JournalInv, Next, UNCHANGED <<attempts, told>>
    PROVE  JournalInv'
<1>1. \/ tx' = tx
      \/ \E p \in Procs : \E t :
            tx' = [tx EXCEPT ![p] = t] /\ t.op \notin JournalOps
  <2>1. Idle.op \notin JournalOps
    BY DEF Idle, JournalOps
  <2>2. ASSUME NEW p \in Procs, NEW e \in Events, BeginAccept(p, e)
        PROVE  \E t : tx' = [tx EXCEPT ![p] = t] /\ t.op \notin JournalOps
    <3> DEFINE t == [op |-> "accept", job |-> e.job, event |-> e]
    <3>1. tx' = [tx EXCEPT ![p] = t] /\ t.op \notin JournalOps
      BY <2>2 DEF BeginAccept, Begin, JournalOps
    <3> HIDE DEF t
    <3> QED BY <3>1
  <2>3. ASSUME NEW p \in Procs, NEW a \in issued, BeginRenew(p, a)
        PROVE  \E t : tx' = [tx EXCEPT ![p] = t] /\ t.op \notin JournalOps
    <3> DEFINE t == [op |-> "renew", job |-> a.job, of |-> LeaseOf(a)]
    <3>1. tx' = [tx EXCEPT ![p] = t] /\ t.op \notin JournalOps
      BY <2>3 DEF BeginRenew, Begin, JournalOps
    <3> HIDE DEF t
    <3> QED BY <3>1
  <2>4. ASSUME NEW p \in Procs, NEW a \in issued, NEW m \in Manifests, BeginComplete(p, a, m)
        PROVE  \E t : tx' = [tx EXCEPT ![p] = t] /\ t.op \notin JournalOps
    <3> DEFINE t == [op |-> "complete", job |-> a.job, of |-> LeaseOf(a), manifest |-> m]
    <3>1. tx' = [tx EXCEPT ![p] = t] /\ t.op \notin JournalOps
      BY <2>4 DEF BeginComplete, Begin, JournalOps
    <3> HIDE DEF t
    <3> QED BY <3>1
  <2>5. \/ tx' = tx
        \/ \E p \in Procs :
              \/ tx' = [tx EXCEPT ![p] = Idle]
              \/ \E e \in Events : BeginAccept(p, e)
              \/ \E a \in issued : BeginRenew(p, a)
              \/ \E a \in issued, m \in Manifests : BeginComplete(p, a, m)
    BY DEF Next, Decide, ClaimCall, JournalCompletionReplay, Rollback, AcceptReplay,
           AcceptNew, AcceptConflict, Renew, Complete, CompleteReplay, Stale, Claim,
           ClaimNone, Tick, End
  <2> QED BY <2>1, <2>2, <2>3, <2>4, <2>5
<1>2. JournalTyped'
  BY <1>1, TypedSteps DEF AssignmentsSound, JournalInv, JournalTyped
<1> QED BY <1>2 DEF JournalInv, OneAttemptEach, ToldIsDurable, PlansAreWhole

\* A decision of the journal presents a lease that was issued.
LEMMA Presented ==
    ASSUME AssignmentsSound, JournalInv, NEW p \in Procs, tx[p].op \in JournalOps
    PROVE  /\ tx[p] \in JournalTransaction
           /\ tx[p].of \in Lease
           /\ \E a \in issued : LeaseOf(a) = tx[p].of
<1>1. PICK a \in issued : LeaseOf(a) = tx[p].of
  BY DEF AssignmentsSound
<1> QED BY <1>1, PresentedLease DEF JournalInv, JournalTyped

\* A new attempt has a fence and a nonce that no other has.
LEMMA AllocateInv ==
    ASSUME AssignmentsSound, JournalInv, NEW p \in Procs, Allocate(p)
    PROVE  JournalInv'
<1> DEFINE l == tx[p].of
<1>1. l \in Lease
  BY Presented DEF Allocate, JournalOps
<1>2. PICK n \in Nonces :
         /\ Fresh(l, n)
         /\ attempts' = attempts \cup {NewAttempt(l, n)}
         /\ told' = told \cup {NewAttempt(l, n)}
  BY DEF Allocate, Tell
<1> DEFINE y == NewAttempt(l, n)
<1>3. /\ y \in Attempt /\ y.id = n /\ y.of = l /\ y.phase = "allocated" /\ y.operations = {}
  <2>1. jobs[l.job].size \in Nat
    BY <1>1 DEF AssignmentsSound, Row, Lease
  <2> QED BY <1>1, <2>1 DEF NewAttempt, Attempt
<1> HIDE DEF y
<1>4. JournalTyped'
  <2>1. \A q \in Procs : tx'[q].op \in JournalOps => tx'[q] \in JournalTransaction
    BY TypedEnd DEF Allocate, AssignmentsSound, JournalInv
  <2> QED BY <1>2, <1>3, <2>1 DEF JournalInv, JournalTyped, y
<1>5. OneAttemptEach'
  <2>1. \A x \in attempts : x.of # l /\ x.id # n
    BY <1>2 DEF Fresh, Known
  <2> QED BY <1>2, <1>3, <2>1 DEF JournalInv, OneAttemptEach, y
<1>6. ToldIsDurable'
  BY <1>2, <1>3 DEF JournalInv, ToldIsDurable, y
<1>7. PlansAreWhole'
  <2>1. {o.target : o \in y.operations} = {} /\ y.operations = {}
    BY <1>3
  <2> QED BY <1>2, <1>3, <2>1 DEF JournalInv, PlansAreWhole, y
<1> QED BY <1>4, <1>5, <1>6, <1>7 DEF JournalInv

\* A plan replaces the attempt that was told as allocated.
LEMMA PrepareInv ==
    ASSUME AssignmentsSound, JournalInv, NEW p \in Procs, Prepare(p)
    PROVE  JournalInv'
<1> DEFINE s == tx[p].artifacts
<1>1. s \in Submissions
  BY Presented DEF Prepare, JournalOps, JournalTransaction
<1>2. PICK x \in attempts :
         /\ Named(tx[p], x) /\ Whole(s) /\ x.phase = "allocated"
         /\ attempts' = (attempts \ {x}) \cup {PlannedAttempt(x, s)}
         /\ told' = told \cup {PlannedAttempt(x, s)}
  BY DEF Prepare, Plannable, Tell
<1> DEFINE y == PlannedAttempt(x, s)
<1>3. x \in Attempt
  BY DEF JournalInv, JournalTyped
<1>4. /\ y.id = x.id /\ y.of = x.of /\ y.size = x.size /\ y.phase = "planned"
      /\ y.operations = Planned(x, s)
  BY <1>3 DEF PlannedAttempt, Attempt
<1>5. /\ Planned(x, s) \subseteq Operation
      /\ {o.target : o \in y.operations} = {y.id} \X Files
      /\ Cardinality(y.operations) = Cardinality({o.target : o \in y.operations})
  <2> HIDE DEF y, s
  <2> QED BY <1>1, <1>2, <1>3, <1>4, PlanIsWhole
<1>6. y \in Attempt
  BY <1>3, <1>5 DEF PlannedAttempt, Attempt
<1> HIDE DEF y, s
<1>7. JournalTyped'
  <2>1. \A q \in Procs : tx'[q].op \in JournalOps => tx'[q] \in JournalTransaction
    BY TypedEnd DEF Prepare, AssignmentsSound, JournalInv
  <2> QED BY <1>2, <1>6, <2>1 DEF JournalInv, JournalTyped, y
<1>8. OneAttemptEach'
  BY <1>2, <1>4 DEF JournalInv, OneAttemptEach, y
<1>9. ToldIsDurable'
  <2> SUFFICES ASSUME NEW z \in told'
               PROVE  \E w \in attempts' :
                         /\ w.id = z.id /\ w.of = z.of /\ w.size = z.size
                         /\ z.phase = "planned" => w = z
    BY DEF ToldIsDurable
  <2>1. y \in attempts'
    BY <1>2 DEF y
  <2>2. CASE z = y
    BY <2>1, <2>2
  <2>3. CASE z \in told
    <3>1. PICK w \in attempts : /\ w.id = z.id /\ w.of = z.of /\ w.size = z.size
                                /\ z.phase = "planned" => w = z
      BY <2>3 DEF JournalInv, ToldIsDurable
    <3>2. CASE w = x
      BY <1>2, <1>4, <2>1, <3>1, <3>2
    <3>3. CASE w # x
      BY <1>2, <3>1, <3>3
    <3> QED BY <3>2, <3>3
  <2> QED BY <1>2, <2>2, <2>3 DEF y
<1>10. PlansAreWhole'
  BY <1>2, <1>4, <1>5 DEF JournalInv, PlansAreWhole, y
<1> QED BY <1>7, <1>8, <1>9, <1>10 DEF JournalInv

\* Every step preserves the invariant.
LEMMA JournalNextInv ==
    ASSUME AssignmentsSound, JournalInv, [JournalNext]_journalVars
    PROVE  JournalInv'
<1>1. ASSUME NEW p \in Procs, AllocateReplay(p) \/ PrepareReplay(p) \/ Refuse(p)
      PROVE  JournalInv'
  <2>1. /\ End(p) /\ attempts' = attempts
        /\ \/ told' = told
           \/ \E x \in attempts : told' = told \cup {x}
    BY <1>1 DEF AllocateReplay, PrepareReplay, Refuse, Tell
  <2>2. JournalTyped'
    <3>1. \A q \in Procs : tx'[q].op \in JournalOps => tx'[q] \in JournalTransaction
      BY <2>1, TypedEnd DEF AssignmentsSound, JournalInv
    <3> QED BY <2>1, <3>1 DEF JournalInv, JournalTyped
  <2>3. ToldIsDurable'
    BY <2>1 DEF JournalInv, ToldIsDurable
  <2> QED BY <2>1, <2>2, <2>3 DEF JournalInv, OneAttemptEach, PlansAreWhole
<1>2. CASE UNCHANGED journalVars
  BY <1>2 DEF journalVars, JournalInv, JournalTyped, OneAttemptEach, ToldIsDurable, PlansAreWhole
<1> QED BY <1>1, <1>2, InboxSteps, QuietSteps, AllocateInv, PrepareInv
        DEF JournalNext, JournalStep, JournalDecide

\* The invariant holds of every reachable state.
THEOREM JournalInvariance == JournalSpec => []JournalInv
<1> QED BY JournalStarts, JournalNextInv, AssignmentsAreSound, PTL DEF JournalSpec

\* Attempts, what was told of them and the open calls always have their types.
THEOREM AttemptsTyped == JournalSpec => []JournalTyped
<1>1. JournalInv => JournalTyped
  BY DEF JournalInv
<1> QED BY <1>1, JournalInvariance, PTL

\* Every answer about one assignment, to whomever and however often, names the
\* same attempt, and no other assignment is ever given it.
THEOREM NamespacesAreOne == JournalSpec => []OneNamespace
<1> QED BY ToldOnce, JournalInvariance, PTL

\* What a worker was told of an attempt is never taken back.
THEOREM AnswersAreDurable == JournalSpec => []ToldIsDurable
<1>1. JournalInv => ToldIsDurable
  BY DEF JournalInv
<1> QED BY <1>1, JournalInvariance, PTL

\* A plan has every file of the family once, at a place of its own.
THEOREM PlansWhole == JournalSpec => []PlansAreWhole
<1>1. JournalInv => PlansAreWhole
  BY DEF JournalInv
<1> QED BY <1>1, JournalInvariance, PTL

\* An attempt is written by the worker that holds the job's lease at that moment
\* and by no other, however long its call waited for the row.
THEOREM AttemptsAreFenced == JournalSpec => WritesAreFenced
<1> DEFINE Fenced == \A x \in (attempts \ attempts') \cup (attempts' \ attempts) :
                        \E a \in issued :
                            /\ LeaseOf(a) = x.of
                            /\ a.left > 0 /\ a.done = NoManifest
                            /\ a.revision = jobs[a.job].revision
<1>1. ASSUME AssignmentsSound, JournalInv, NEW p \in Procs, NEW l,
             tx[p].op \in JournalOps, tx[p].of = l, Live(l)
      PROVE  \E a \in issued : /\ LeaseOf(a) = l
                               /\ a.left > 0 /\ a.done = NoManifest
                               /\ a.revision = jobs[a.job].revision
  <2>1. PICK a \in issued : LeaseOf(a) = l
    BY <1>1 DEF AssignmentsSound
  <2>2. l.job = a.job /\ l.generation = a.generation /\ l.revision = a.revision
    BY <2>1 DEF LeaseOf
  <2>3. a.generation = jobs[a.job].generation /\ a.revision = jobs[a.job].revision
          /\ jobs[a.job].state = "running" /\ jobs[a.job].lease > 0
    BY <1>1, <2>2 DEF Live
  <2>4. a.done = NoManifest /\ jobs[a.job].lease <= a.left
    BY <1>1, <2>3 DEF AssignmentsSound
  <2>5. a.left \in Nat /\ jobs[a.job].lease \in Nat
    BY <1>1, ConstantsAssumption DEF AssignmentsSound, Assignment, Row
  <2> QED BY <2>1, <2>3, <2>4, <2>5
<1>2. ASSUME AssignmentsSound, JournalInv, [JournalNext]_journalVars PROVE Fenced
  <2>1. CASE attempts' = attempts
    BY <2>1
  <2>2. ASSUME NEW p \in Procs, Allocate(p) PROVE Fenced
    <3>1. tx[p].op \in JournalOps /\ Live(tx[p].of)
      BY <2>2 DEF Allocate, JournalOps
    <3>2. \A x \in (attempts \ attempts') \cup (attempts' \ attempts) : x.of = tx[p].of
      BY <2>2 DEF Allocate, NewAttempt
    <3> QED BY <1>1, <1>2, <3>1, <3>2
  <2>3. ASSUME NEW p \in Procs, Prepare(p) PROVE Fenced
    <3>1. PICK x \in attempts :
             /\ Named(tx[p], x)
             /\ attempts' = (attempts \ {x}) \cup {PlannedAttempt(x, tx[p].artifacts)}
      BY <2>3 DEF Prepare
    <3>2. PlannedAttempt(x, tx[p].artifacts).of = x.of
      BY <1>2 DEF PlannedAttempt, JournalInv, JournalTyped, Attempt
    <3>3. tx[p].op \in JournalOps /\ Live(tx[p].of) /\ x.of = tx[p].of
      BY <2>3, <3>1 DEF Prepare, JournalOps, Named
    <3>4. \A y \in (attempts \ attempts') \cup (attempts' \ attempts) : y.of = tx[p].of
      BY <3>1, <3>2, <3>3
    <3> QED BY <1>1, <1>2, <3>3, <3>4
  <2>4. \/ attempts' = attempts
        \/ \E p \in Procs : Allocate(p) \/ Prepare(p)
    BY <1>2 DEF JournalNext, JournalStep, JournalDecide, RequestBegin, RequestDispatch,
                RequestPrepare, BeginJournal, AllocateReplay, PrepareReplay, Refuse, journalVars
  <2> QED BY <2>1, <2>2, <2>3, <2>4
<1>3. Fenced => [Fenced]_journalVars
  OBVIOUS
<1> QED BY <1>2, <1>3, AssignmentsAreSound, JournalInvariance, PTL DEF JournalSpec, WritesAreFenced

-----------------------------------------------------------------------------
\* Where every process has the journal no transaction can complete.
Gated ==
    JournalProcs = Procs =>
        /\ confirmed = {}
        /\ \A p \in Procs : tx[p].op # "complete"
        /\ \A j \in Jobs : jobs[j].state # "completed" /\ jobs[j].manifest = NoManifest

\* No step but a completion makes a row a completed one.
LEMMA RowsStayOpen ==
    ASSUME NEW row \in Row, row.state # "completed", row.manifest = NoManifest
    PROVE  \A r \in {AgedRow(row), RenewedRow(row), BlockRow(row), ClaimRow(row),
                     NewRevision(row)} :
               r.state # "completed" /\ r.manifest = NoManifest
<1>1. AgedRow(row).state = row.state /\ AgedRow(row).manifest = row.manifest
  BY DEF Row, AgedRow
<1>2. RenewedRow(row).state = row.state /\ RenewedRow(row).manifest = row.manifest
  BY DEF Row, RenewedRow
<1>3. BlockRow(row).state = "blocked" /\ BlockRow(row).manifest = row.manifest
  BY DEF Row, BlockRow
<1>4. ClaimRow(row).state = "running" /\ ClaimRow(row).manifest = row.manifest
  BY DEF Row, ClaimRow
<1>5. NewRevision(row).state # "completed" /\ NewRevision(row).manifest = NoManifest
  BY DEF Row, NewRevision, Reopened
<1> QED BY <1>1, <1>2, <1>3, <1>4, <1>5

\* Neither does a job's first event.
LEMMA FirstRowIsOpen ==
    \A e : LET row == NewRevision(FirstRow(e)) IN
               /\ FirstRow(e).state # "completed" /\ FirstRow(e).manifest = NoManifest
               /\ row.state # "completed" /\ row.manifest = NoManifest
<1> SUFFICES ASSUME NEW e
             PROVE  /\ FirstRow(e).state # "completed" /\ FirstRow(e).manifest = NoManifest
                    /\ NewRevision(FirstRow(e)).state # "completed"
                    /\ NewRevision(FirstRow(e)).manifest = NoManifest
  OBVIOUS
<1>1. \E n : FirstRow(e) =
         [state |-> "pending", size |-> e.size, mime |-> e.mime, revision |-> 0,
          generation |-> 0, attempts |-> 0, lease |-> 0, deadline |-> 0,
          manifest |-> NoManifest, born |-> n]
  <2> DEFINE n == 1 + Cardinality({k \in Jobs : Exists(k)})
  <2>1. FirstRow(e) = [NoJob EXCEPT !.state = "pending", !.size = e.size, !.mime = e.mime,
                                    !.born = n]
    BY DEF FirstRow
  <2> HIDE DEF n
  <2> QED BY <2>1 DEF NoJob
<1> QED BY <1>1 DEF NewRevision, Reopened

\* No step completes anything where all processes have the journal.
LEMMA GatedNext ==
    ASSUME AssignmentsSound, Gated, [JournalNext]_journalVars
    PROVE  Gated'
<1> SUFFICES ASSUME JournalProcs = Procs
             PROVE  /\ confirmed' = {}
                    /\ \A p \in Procs : tx'[p].op # "complete"
                    /\ \A j \in Jobs : jobs'[j].state # "completed" /\ jobs'[j].manifest = NoManifest
  BY DEF Gated
<1> DEFINE Open(rows) == \A j \in Jobs : rows[j].state # "completed" /\ rows[j].manifest = NoManifest
<1>1. /\ confirmed = {} /\ \A p \in Procs : tx[p].op # "complete"
      /\ Open(jobs)
      /\ jobs \in [Jobs -> Row]
  BY DEF Gated, AssignmentsSound
<1>2. confirmed' = confirmed
  <2>1. \A p \in Procs : ~Complete(p) /\ ~CompleteReplay(p)
    BY <1>1 DEF Complete, CompleteReplay
  <2>2. \A p \in Procs, a \in issued, m \in Manifests : ~JournalCompletionReplay(p, a, m)
    <3>1. \A a \in issued : LeaseOf(a).job \in Jobs
      BY DEF AssignmentsSound, Assignment, LeaseOf
    <3> QED BY <1>1, <3>1 DEF JournalCompletionReplay, Recorded
  <2> QED BY <2>1, <2>2
          DEF JournalNext, JournalStep, JournalDecide, RequestBegin, RequestDispatch,
              RequestPrepare, BeginJournal, Allocate, Prepare, AllocateReplay, PrepareReplay,
              Refuse, journalVars, Next, Decide, ClaimCall, BeginAccept, BeginRenew,
              BeginComplete, Begin, Rollback, AcceptReplay, AcceptNew, AcceptConflict, Renew,
              Stale, Claim, ClaimNone, Tick
<1>3. \A p \in Procs : tx'[p].op # "complete"
  <2>1. ASSUME NEW p \in Procs, NEW t, tx' = [tx EXCEPT ![p] = t], t.op # "complete"
        PROVE  \A q \in Procs : tx'[q].op # "complete"
    BY <1>1, <2>1 DEF AssignmentsSound, OneTransactionEach
  <2>2. ASSUME NEW p \in Procs, End(p) PROVE \A q \in Procs : tx'[q].op # "complete"
    <3>1. Idle.op # "complete"
      BY DEF Idle
    <3> QED BY <2>1, <2>2, <3>1 DEF End
  <2>3. ASSUME NEW p \in Procs, NEW e \in Events, BeginAccept(p, e)
        PROVE  \A q \in Procs : tx'[q].op # "complete"
    <3> DEFINE t == [op |-> "accept", job |-> e.job, event |-> e]
    <3>1. tx' = [tx EXCEPT ![p] = t] /\ t.op # "complete"
      BY <2>3 DEF BeginAccept, Begin
    <3> HIDE DEF t
    <3> QED BY <2>1, <3>1
  <2>4. ASSUME NEW p \in Procs, NEW a \in issued, BeginRenew(p, a)
        PROVE  \A q \in Procs : tx'[q].op # "complete"
    <3> DEFINE t == [op |-> "renew", job |-> a.job, of |-> LeaseOf(a)]
    <3>1. tx' = [tx EXCEPT ![p] = t] /\ t.op # "complete"
      BY <2>4 DEF BeginRenew, Begin
    <3> HIDE DEF t
    <3> QED BY <2>1, <3>1
  <2>5. ASSUME NEW p \in Procs, NEW a \in issued, NEW n, NEW s,
               RequestBegin(p, a) \/ RequestDispatch(p, a, n) \/ RequestPrepare(p, a, n, s)
        PROVE  \A q \in Procs : tx'[q].op # "complete"
    <3>1. PICK t : BeginJournal(p, t) /\ t.op \in JournalOps
      BY <2>5 DEF RequestBegin, RequestDispatch, RequestPrepare, JournalOps
    <3> QED BY <2>1, <3>1 DEF JournalOps, BeginJournal, Begin
  <2>6. \A p \in Procs, a \in issued, m \in Manifests : ~BeginComplete(p, a, m)
    BY DEF BeginComplete
  <2>7. \/ tx' = tx
        \/ \E p \in Procs :
            \/ End(p)
            \/ \E e \in Events : BeginAccept(p, e)
            \/ \E a \in issued :
                \/ BeginRenew(p, a)
                \/ RequestBegin(p, a)
                \/ \E n, s : RequestDispatch(p, a, n) \/ RequestPrepare(p, a, n, s)
    BY <2>6 DEF JournalNext, JournalStep, JournalDecide, Allocate, Prepare, AllocateReplay,
                PrepareReplay, Refuse, journalVars, Next, Decide, ClaimCall,
                JournalCompletionReplay, Rollback, AcceptReplay, AcceptNew, AcceptConflict,
                Renew, Complete, CompleteReplay, Stale, Claim, ClaimNone, Tick
  <2> QED BY <1>1, <2>2, <2>3, <2>4, <2>5, <2>7
<1>4. Open(jobs')
  <2>1. ASSUME NEW p \in Procs, AcceptNew(p) PROVE Open(jobs')
    <3> DEFINE e == tx[p].event
    <3>1. jobs' = [jobs EXCEPT ![e.job] = Revised(e)]
      BY <2>1 DEF AcceptNew
    <3>2. e.job \in Jobs => Revised(e).state # "completed" /\ Revised(e).manifest = NoManifest
      BY <1>1, RowsStayOpen, FirstRowIsOpen DEF Revised
    <3> QED BY <1>1, <3>1, <3>2
  <2>2. ASSUME NEW p \in Procs, Renew(p) PROVE Open(jobs')
    <3> DEFINE k == tx[p].of.job
    <3>1. jobs' = [jobs EXCEPT ![k] = RenewedRow(jobs[k])]
      BY <2>2 DEF Renew
    <3>2. k \in Jobs => RenewedRow(jobs[k]).state # "completed" /\ RenewedRow(jobs[k]).manifest = NoManifest
      BY <1>1, RowsStayOpen
    <3> QED BY <1>1, <3>1, <3>2
  <2>3. ASSUME NEW p \in Procs, ClaimNone(p) \/ \E j \in Jobs : Claim(p, j) PROVE Open(jobs')
    <3>1. \A k \in Jobs : jobs'[k] \in {jobs[k], ClaimRow(jobs[k]), BlockRow(jobs[k])}
      BY <2>3 DEF Claim, ClaimNone
    <3> QED BY <1>1, <3>1, RowsStayOpen
  <2>4. CASE Tick
    <3>1. \A k \in Jobs : jobs'[k] = AgedRow(jobs[k])
      BY <2>4 DEF Tick
    <3> QED BY <1>1, <3>1, RowsStayOpen
  <2>5. \/ jobs' = jobs \/ Tick
        \/ \E p \in Procs : \/ AcceptNew(p) \/ Renew(p) \/ ClaimNone(p)
                            \/ \E j \in Jobs : Claim(p, j)
    <3>1. \A p \in Procs : ~Complete(p)
      BY <1>1 DEF Complete
    <3> QED BY <3>1
            DEF JournalNext, JournalStep, JournalDecide, RequestBegin, RequestDispatch,
                RequestPrepare, BeginJournal, Allocate, Prepare, AllocateReplay, PrepareReplay,
                Refuse, journalVars, dbVars, Next, Decide, ClaimCall, BeginAccept, BeginRenew,
                BeginComplete, Begin, JournalCompletionReplay, Rollback, AcceptReplay,
                AcceptConflict, CompleteReplay, Stale
  <2> QED BY <1>1, <2>1, <2>2, <2>3, <2>4, <2>5
<1> QED BY <1>1, <1>2, <1>3, <1>4

\* With the journal on every process nothing is completed, whatever is called.
THEOREM NothingCompletes == JournalSpec => []GateIsClosed
<1>1. JournalInit => Gated
  BY DEF JournalInit, Init, Idle, NoJob, Gated
<1>2. Gated => GateIsClosed
  BY DEF Gated, GateIsClosed
<1> QED BY <1>1, <1>2, GatedNext, AssignmentsAreSound, PTL DEF JournalSpec
=============================================================================
