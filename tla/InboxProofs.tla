---------------------------- MODULE InboxProofs ----------------------------
(* Proofs about Inbox, for every value of its constants. *)
EXTENDS Inbox, FiniteSetTheorems, TLAPS

\* The fence of an assignment is a lease.
LEMMA LeaseOfType == ASSUME NEW a \in Assignment PROVE LeaseOf(a) \in Lease
  BY DEF Assignment, LeaseOf, Lease

\* The values that the steps write are of the types of their fields.
LEMMA FieldValues ==
  /\ 0 \in 0..MaxAttempts /\ 0 \in 0..LeaseTTL /\ 0 \in 0..AttemptTTL
  /\ LeaseTTL \in 0..LeaseTTL /\ AttemptTTL \in 0..AttemptTTL
  /\ {"absent", "pending", "running", "completed", "blocked"} \subseteq States
  /\ \A n \in Nat : n + 1 \in Nat
  /\ \A n \in 0..MaxAttempts : n < MaxAttempts => n + 1 \in 0..MaxAttempts
  BY ConstantsAssumption DEF States

\* The row of a job's first event is a row.
LEMMA FirstRowType == ASSUME NEW e \in Events PROVE FirstRow(e) \in Row
  <1>1. e \in EventRecord /\ e.size \in Nat /\ e.mime \in Mimes
    BY ConstantsAssumption DEF EventRecord
  <1>2. NoJob \in Row
    BY FieldValues DEF NoJob, Row
  <1>3. 1 + Cardinality({k \in Jobs : Exists(k)}) \in Nat
    BY ConstantsAssumption, FS_Subset, FS_CardinalityType
  <1>4. QED
    BY <1>1, <1>2, <1>3, FieldValues DEF FirstRow, Row, NoJob

\* The row that a new event leaves behind is a row.
LEMMA RevisedType ==
  ASSUME TypeOK, NEW e \in Events
  PROVE  Revised(e) \in Row
  <1>1. e.job \in Jobs
    BY ConstantsAssumption DEF EventRecord
  <1>2. jobs[e.job] \in Row
    BY <1>1 DEF TypeOK
  <1>3. FirstRow(e) \in Row
    BY FirstRowType
  <1>4. \A row \in Row : NewRevision(row) \in Row
    <2> SUFFICES ASSUME NEW row \in Row PROVE NewRevision(row) \in Row
      OBVIOUS
    <2>1. Reopened(row.state) \in States
      BY FieldValues DEF Row, Reopened
    <2>2. QED
      BY <2>1, FieldValues DEF NewRevision, Row
  <1>5. QED
    BY <1>2, <1>3, <1>4 DEF Revised

\* What the steps do to a row and to an assignment keeps their types.
LEMMA RowTypes ==
  ASSUME NEW row \in Row
  PROVE  /\ BlockRow(row) \in Row
         /\ row.attempts < MaxAttempts => ClaimRow(row) \in Row
         /\ AgedRow(row) \in Row
         /\ RenewedRow(row) \in Row
         /\ \A m \in Manifests : CompletedRow(row, m) \in Row
  <1>1. BlockRow(row) \in Row
    BY FieldValues DEF Row, BlockRow
  <1>2. row.attempts < MaxAttempts => ClaimRow(row) \in Row
    BY FieldValues DEF Row, ClaimRow
  <1>3. AgedRow(row) \in Row
    <2>1. Less(row.lease) \in 0..LeaseTTL /\ Less(row.deadline) \in 0..AttemptTTL
      BY ConstantsAssumption DEF Row, Less
    <2>2. QED
      BY <2>1 DEF Row, AgedRow
  <1>4. RenewedRow(row) \in Row
    <2>1. Smaller(LeaseTTL, row.deadline) \in 0..LeaseTTL
      BY ConstantsAssumption DEF Row, Smaller
    <2>2. QED
      BY <2>1 DEF Row, RenewedRow
  <1>5. \A m \in Manifests : CompletedRow(row, m) \in Row
    BY FieldValues DEF Row, CompletedRow
  <1>6. QED
    BY <1>1, <1>2, <1>3, <1>4, <1>5

\* Ageing, renewing and finishing an assignment keep its type.
LEMMA AssignmentTypes ==
  ASSUME NEW a \in Assignment
  PROVE  /\ Aged(a) \in Assignment
         /\ \A n \in 0..LeaseTTL : Renewed(a, n) \in Assignment
         /\ \A m \in Manifests : Finished(a, m) \in Assignment
  <1>1. Aged(a) \in Assignment
    <2>1. Less(a.left) \in 0..LeaseTTL
      BY ConstantsAssumption DEF Assignment, Less
    <2>2. QED
      BY <2>1 DEF Assignment, Aged
  <1>2. \A n \in 0..LeaseTTL : Renewed(a, n) \in Assignment
    BY DEF Assignment, Renewed
  <1>3. \A m \in Manifests : Finished(a, m) \in Assignment
    BY DEF Assignment, Finished
  <1>4. QED
    BY <1>1, <1>2, <1>3

\* What a claim hands out is an assignment.
LEMMA NewAssignmentType ==
  ASSUME TypeOK, NEW j \in Jobs
  PROVE  NewAssignment(j) \in Assignment
  <1>1. /\ jobs[j].generation + 1 \in Nat
        /\ jobs[j].revision \in Nat
        /\ destinations[j] \in SUBSET Objects
    BY DEF TypeOK, Row
  <1>2. QED
    BY <1>1, FieldValues DEF NewAssignment, Assignment

\* The four shapes of transaction, and what each carries.
LEMMA TransactionTypes ==
  ASSUME TypeOK, NEW p \in Procs
  PROVE  /\ tx[p].op = "accept" =>
               tx[p].event \in Events /\ tx[p].event.job \in Jobs
         /\ tx[p].op \in {"renew", "complete"} => tx[p].of \in Lease /\ tx[p].of.job \in Jobs
         /\ tx[p].op = "complete" => tx[p].manifest \in Manifests
  <1>1. tx[p] \in Transaction
    BY DEF TypeOK
  <1>2. \A e \in Events : e.job \in Jobs
    BY ConstantsAssumption DEF EventRecord
  <1>3. \A l \in Lease : l.job \in Jobs
    BY DEF Lease
  <1>4. QED
    BY <1>1, <1>2, <1>3 DEF Transaction, Idle

-----------------------------------------------------------------------------
\* The initial state has the types.
LEMMA InitType == Init => TypeOK
  <1>1. NoJob \in Row
    BY FieldValues DEF NoJob, Row
  <1>2. QED
    BY <1>1 DEF Init, TypeOK, Transaction

\* Every step keeps every variable in its type.
LEMMA NextType == TypeOK /\ [Next]_vars => TypeOK'
  <1> SUFFICES ASSUME TypeOK, [Next]_vars PROVE TypeOK'
    OBVIOUS
  <1>1. ASSUME NEW p \in Procs, NEW e \in Events, BeginAccept(p, e) PROVE TypeOK'
    <2>1. [op |-> "accept", job |-> e.job, event |-> e] \in Transaction
      BY ConstantsAssumption DEF EventRecord, Transaction
    <2>2. QED
      BY <1>1, <2>1 DEF TypeOK, BeginAccept, Begin
  <1>2. ASSUME NEW p \in Procs, NEW a \in issued, BeginRenew(p, a) PROVE TypeOK'
    <2>1. a \in Assignment /\ LeaseOf(a) \in Lease /\ a.job \in Jobs
      BY LeaseOfType DEF TypeOK, Assignment
    <2>2. [op |-> "renew", job |-> a.job, of |-> LeaseOf(a)] \in Transaction
      BY <2>1 DEF Transaction
    <2>3. QED
      BY <1>2, <2>2 DEF TypeOK, BeginRenew, Begin
  <1>3. ASSUME NEW p \in Procs, NEW a \in issued, NEW m \in Manifests,
               BeginComplete(p, a, m)
        PROVE  TypeOK'
    <2>1. a \in Assignment /\ LeaseOf(a) \in Lease /\ a.job \in Jobs
      BY LeaseOfType DEF TypeOK, Assignment
    <2>2. [op |-> "complete", job |-> a.job, of |-> LeaseOf(a), manifest |-> m] \in Transaction
      BY <2>1 DEF Transaction
    <2>3. QED
      BY <1>3, <2>2 DEF TypeOK, BeginComplete, Begin
  <1>4. ASSUME NEW p \in Procs, NEW a \in issued, NEW m \in Manifests,
               JournalCompletionReplay(p, a, m)
        PROVE  TypeOK'
    <2>1. <<LeaseOf(a), m>> \in Lease \X Manifests
      BY LeaseOfType DEF TypeOK
    <2>2. QED
      BY <1>4, <2>1 DEF TypeOK, JournalCompletionReplay
  <1> DEFINE Ended(p) == tx' = [tx EXCEPT ![p] = Idle]
  <1>5. ASSUME NEW p \in Procs, Ended(p) PROVE tx' \in [Procs -> Transaction]
    BY <1>5 DEF TypeOK, Transaction
  <1>6. ASSUME NEW p \in Procs, Rollback(p) \/ AcceptConflict(p) \/ Stale(p)
        PROVE  TypeOK'
    BY <1>5, <1>6 DEF TypeOK, Rollback, AcceptConflict, Stale, End
  <1>7. ASSUME NEW p \in Procs, AcceptReplay(p) PROVE TypeOK'
    BY <1>5, <1>7, TransactionTypes DEF TypeOK, AcceptReplay, Acknowledge, End
  <1>8. ASSUME NEW p \in Procs, AcceptNew(p) PROVE TypeOK'
    <2> DEFINE e == tx[p].event
    <2>1. e \in Events /\ e.job \in Jobs
      BY <1>8, TransactionTypes DEF AcceptNew
    <2>2. Wanted(e) \subseteq Objects
      BY <2>1, ConstantsAssumption DEF Wanted, Objects, EventRecord
    <2>3. Revised(e) \in Row
      BY <2>1, RevisedType
    <2>4. /\ jobs' = [jobs EXCEPT ![e.job] = Revised(e)]
          /\ destinations' = [destinations EXCEPT ![e.job] = destinations[e.job] \cup Wanted(e)]
          /\ inbox' = inbox \cup {e}
          /\ acked' \subseteq acked \cup {e}
          /\ Ended(p)
          /\ UNCHANGED <<issued, confirmed>>
      BY <1>8 DEF AcceptNew, Acknowledge, End
    <2>5. jobs' \in [Jobs -> Row] /\ destinations' \in [Jobs -> SUBSET Objects]
      BY <2>1, <2>2, <2>3, <2>4 DEF TypeOK
    <2>6. QED
      BY <1>5, <2>1, <2>4, <2>5 DEF TypeOK
  <1>9. ASSUME NEW p \in Procs, Renew(p) PROVE TypeOK'
    <2> DEFINE l == tx[p].of
               row == RenewedRow(jobs[l.job])
    <2>1. l \in Lease /\ l.job \in Jobs
      BY <1>9, TransactionTypes DEF Renew
    <2>2. row \in Row
      BY <2>1, RowTypes DEF TypeOK
    <2>3. /\ jobs' = [jobs EXCEPT ![l.job] = row]
          /\ issued' = {IF LeaseOf(a) = l THEN Renewed(a, row.lease) ELSE a : a \in issued}
          /\ Ended(p)
          /\ UNCHANGED <<destinations, inbox, acked, confirmed>>
      BY <1>9 DEF Renew, End
    <2>4. jobs' \in [Jobs -> Row]
      BY <2>2, <2>3 DEF TypeOK
    <2>5. row.lease \in 0..LeaseTTL
      BY <2>2 DEF Row
    <2>6. issued' \subseteq Assignment
      BY <2>3, <2>5, AssignmentTypes DEF TypeOK
    <2>7. QED
      BY <1>5, <2>3, <2>4, <2>6 DEF TypeOK
  <1>10. ASSUME NEW p \in Procs, Complete(p) PROVE TypeOK'
    <2> DEFINE l == tx[p].of
               m == tx[p].manifest
    <2>1. l \in Lease /\ l.job \in Jobs /\ m \in Manifests
      BY <1>10, TransactionTypes DEF Complete
    <2>2. CompletedRow(jobs[l.job], m) \in Row
      BY <2>1, RowTypes DEF TypeOK
    <2>3. /\ jobs' = [jobs EXCEPT ![l.job] = CompletedRow(jobs[l.job], m)]
          /\ issued' = {IF LeaseOf(a) = l THEN Finished(a, m) ELSE a : a \in issued}
          /\ confirmed' \subseteq confirmed \cup {<<l, m>>}
          /\ Ended(p)
          /\ UNCHANGED <<destinations, inbox, acked>>
      BY <1>10 DEF Complete, Confirm, End
    <2>4. jobs' \in [Jobs -> Row]
      BY <2>2, <2>3 DEF TypeOK
    <2>5. issued' \subseteq Assignment
      BY <2>1, <2>3, AssignmentTypes DEF TypeOK
    <2>6. <<l, m>> \in Lease \X Manifests
      BY <2>1
    <2>7. confirmed' \subseteq Lease \X Manifests
      BY <2>3, <2>6 DEF TypeOK
    <2>8. QED
      BY <1>5, <2>3, <2>4, <2>5, <2>7 DEF TypeOK
  <1>11. ASSUME NEW p \in Procs, CompleteReplay(p) PROVE TypeOK'
    <2>1. tx[p].of \in Lease /\ tx[p].manifest \in Manifests
      BY <1>11, TransactionTypes DEF CompleteReplay
    <2>2. <<tx[p].of, tx[p].manifest>> \in Lease \X Manifests
      BY <2>1
    <2>3. confirmed' \subseteq Lease \X Manifests
      BY <1>11, <2>2 DEF TypeOK, CompleteReplay, Confirm
    <2>4. QED
      BY <1>5, <1>11, <2>3 DEF TypeOK, CompleteReplay, End
  <1>12. ASSUME NEW p \in Procs, NEW j \in Jobs, Claim(p, j) PROVE TypeOK'
    <2>1. jobs[j].attempts < MaxAttempts
      BY <1>12 DEF Claim, Oldest, Claimable
    <2>2. jobs' \in [Jobs -> Row]
      BY <1>12, <2>1, RowTypes DEF Claim, TypeOK
    <2>3. issued' \subseteq Assignment
      BY <1>12, NewAssignmentType DEF Claim, TypeOK
    <2>4. QED
      BY <1>12, <2>2, <2>3 DEF Claim, TypeOK
  <1>13. ASSUME NEW p \in Procs, ClaimNone(p) PROVE TypeOK'
    BY <1>13, RowTypes DEF ClaimNone, TypeOK
  <1>14. CASE Tick
    BY <1>14, RowTypes, AssignmentTypes DEF Tick, TypeOK
  <1>15. CASE UNCHANGED vars
    BY <1>15 DEF vars, TypeOK
  <1>16. QED
    BY <1>1, <1>2, <1>3, <1>4, <1>6, <1>7, <1>8, <1>9, <1>10, <1>11, <1>12, <1>13,
       <1>14, <1>15 DEF Next, Decide, ClaimCall

\* The database's rows, the open transactions and the histories always have
\* their types; in particular attempts_in_revision never passes the budget and
\* a renewal never grants more than a claim.
THEOREM TypeCorrect == Spec => []TypeOK
  BY InitType, NextType, PTL DEF Spec

-----------------------------------------------------------------------------
(***************************************************************************)
(* The inductive invariant.  The safety properties talk about assignments  *)
(* as workers see them; what makes them inductive is how each assignment   *)
(* relates to its job's row: its fence is not ahead of the row's, its      *)
(* lease is covered by the row's, and while its revision is the current    *)
(* one its snapshot is the current set of destinations and its completion  *)
(* the row's.                                                              *)
(***************************************************************************)
AbsentRow == \A j \in Jobs : ~Exists(j) => jobs[j] = NoJob /\ destinations[j] = {}

Numbered == \A a \in issued :
    /\ 1 <= a.generation /\ a.generation <= jobs[a.job].generation
    /\ a.revision <= jobs[a.job].revision

OneAssignmentPerGeneration == \A a, b \in issued :
    a.job = b.job /\ a.generation = b.generation => a = b

LeaseCovered == \A a \in issued :
    a.done = NoManifest /\ a.left > 0 =>
        /\ a.generation = jobs[a.job].generation
        /\ a.left <= jobs[a.job].lease

SnapshotCurrent == \A a \in issued :
    a.revision = jobs[a.job].revision => a.destinations = destinations[a.job]

DoneIsRecorded == \A a \in issued :
    a.done # NoManifest /\ a.revision = jobs[a.job].revision =>
        /\ jobs[a.job].state = "completed"
        /\ jobs[a.job].generation = a.generation

CompletedByAssignment == \A j \in Jobs : jobs[j].state = "completed" =>
    /\ jobs[j].manifest # NoManifest
    /\ \E a \in issued :
        /\ a.job = j
        /\ a.generation = jobs[j].generation
        /\ a.revision = jobs[j].revision
        /\ a.done = jobs[j].manifest

EventsStored == \A e \in inbox :
    /\ Exists(e.job)
    /\ jobs[e.job].size = e.size
    /\ Wanted(e) \subseteq destinations[e.job]

DbInv ==
    /\ AbsentRow /\ Numbered /\ OneAssignmentPerGeneration /\ LeaseCovered
    /\ SnapshotCurrent /\ DoneIsRecorded /\ CompletedByAssignment
    /\ EventsStored /\ OneWinner

\* A lease that a worker presents was issued.
PresentedIsIssued == \A p \in Procs :
    tx[p].op \in {"renew", "complete"} => \E a \in issued : LeaseOf(a) = tx[p].of

IInv == DbInv /\ PresentedIsIssued /\ ConfirmedIsRecorded

\* The invariant implies the properties that it is not made of.
LEMMA Consequences ==
  ASSUME TypeOK, IInv
  PROVE  LeaseExclusion /\ CompletionCoversEvents
  <1>1. LeaseExclusion
    <2> SUFFICES ASSUME NEW a \in issued, NEW b \in issued, a.job = b.job, a # b,
                        a.done = NoManifest, b.done = NoManifest,
                        a.left # 0, b.left # 0
                 PROVE  FALSE
      BY DEF LeaseExclusion
    <2>1. a.left > 0 /\ b.left > 0
      BY DEF TypeOK, Assignment
    <2>2. a.generation = jobs[a.job].generation /\ b.generation = jobs[a.job].generation
      BY <2>1 DEF IInv, DbInv, LeaseCovered
    <2>3. QED
      BY <2>2 DEF IInv, DbInv, OneAssignmentPerGeneration
  <1>2. CompletionCoversEvents
    <2> SUFFICES ASSUME NEW e \in inbox, jobs[e.job].state = "completed"
                 PROVE  \E a \in issued :
                            /\ a.job = e.job
                            /\ a.done = jobs[e.job].manifest /\ a.done # NoManifest
                            /\ Wanted(e) \subseteq a.destinations
      BY DEF CompletionCoversEvents
    <2>1. e.job \in Jobs
      BY ConstantsAssumption DEF TypeOK, EventRecord
    <2>2. PICK a \in issued : /\ a.job = e.job
                              /\ a.revision = jobs[e.job].revision
                              /\ a.done = jobs[e.job].manifest
      BY <2>1 DEF IInv, DbInv, CompletedByAssignment
    <2>3. a.done # NoManifest
      BY <2>1, <2>2 DEF IInv, DbInv, CompletedByAssignment
    <2>4. Wanted(e) \subseteq a.destinations
      BY <2>2 DEF IInv, DbInv, SnapshotCurrent, EventsStored
    <2>5. QED
      BY <2>2, <2>3, <2>4
  <1>3. QED
    BY <1>1, <1>2

\* The initial state satisfies the invariant: there is nothing yet.
LEMMA InitInv == Init => IInv
  BY DEF Init, IInv, DbInv, AbsentRow, Exists, Numbered, OneAssignmentPerGeneration,
         LeaseCovered, SnapshotCurrent, DoneIsRecorded, CompletedByAssignment, NoJob,
         EventsStored, OneWinner, PresentedIsIssued, Idle, ConfirmedIsRecorded

\* How the helpers change the fields of a row and of an assignment.
LEMMA RowFields ==
  ASSUME NEW row \in Row
  PROVE  /\ AgedRow(row).lease = Less(row.lease)
         /\ BlockRow(row).lease = 0 /\ BlockRow(row).state = "blocked"
         /\ RenewedRow(row).lease = Smaller(LeaseTTL, row.deadline)
         /\ \A m : /\ CompletedRow(row, m).state = "completed"
                   /\ CompletedRow(row, m).manifest = m
                   /\ CompletedRow(row, m).lease = 0
         /\ ClaimRow(row).state = "running" /\ ClaimRow(row).lease = LeaseTTL
         /\ ClaimRow(row).generation = row.generation + 1
         /\ \A r \in {AgedRow(row), RenewedRow(row)} :
               r.state = row.state /\ r.manifest = row.manifest
         /\ \A r \in {AgedRow(row), RenewedRow(row), BlockRow(row)}
                     \cup {CompletedRow(row, m) : m \in Manifests} :
               r.generation = row.generation
         /\ \A r \in {AgedRow(row), RenewedRow(row), BlockRow(row), ClaimRow(row)}
                     \cup {CompletedRow(row, m) : m \in Manifests} :
               r.revision = row.revision /\ r.size = row.size
  BY DEF Row, AgedRow, BlockRow, RenewedRow, CompletedRow, ClaimRow

\* Ageing, renewing and finishing an assignment leave its identity alone.
LEMMA AssignmentFields ==
  ASSUME NEW a \in Assignment
  PROVE  /\ Aged(a).left = Less(a.left) /\ Aged(a).done = a.done
         /\ \A n : Renewed(a, n).left = n /\ Renewed(a, n).done = a.done
         /\ \A m : Finished(a, m).left = a.left /\ Finished(a, m).done = m
         /\ \A b \in {Aged(a)} \cup {Renewed(a, n) : n \in Nat}
                      \cup {Finished(a, m) : m \in Manifests} :
               /\ b.job = a.job /\ b.generation = a.generation
               /\ b.revision = a.revision /\ b.destinations = a.destinations
  BY DEF Assignment, Aged, Renewed, Finished

\* Time passes for the rows and for the workers alike.
LEMMA TickInv == ASSUME TypeOK, DbInv, Tick PROVE DbInv'
  <1>1. /\ jobs' = [j \in Jobs |-> AgedRow(jobs[j])]
        /\ issued' = {Aged(a) : a \in issued}
        /\ destinations' = destinations /\ inbox' = inbox
    BY DEF Tick
  <1>2. \A j \in Jobs : /\ jobs'[j].lease = Less(jobs[j].lease)
                        /\ jobs'[j].state = jobs[j].state
                        /\ jobs'[j].generation = jobs[j].generation
                        /\ jobs'[j].revision = jobs[j].revision
                        /\ jobs'[j].size = jobs[j].size
                        /\ jobs'[j].manifest = jobs[j].manifest
    BY <1>1, RowFields DEF TypeOK
  <1>3. \A b \in issued' : \E a \in issued :
            /\ b = Aged(a) /\ b.left = Less(a.left) /\ b.done = a.done
            /\ b.job = a.job /\ b.generation = a.generation
            /\ b.revision = a.revision /\ b.destinations = a.destinations
    BY <1>1, AssignmentFields DEF TypeOK
  <1>4. \A a \in issued : a \in Assignment /\ a.job \in Jobs /\ a.left \in Nat
    BY ConstantsAssumption DEF TypeOK, Assignment
  <1>5. \A e \in inbox : e.job \in Jobs
    BY ConstantsAssumption DEF TypeOK, EventRecord
  <1>6. AbsentRow'
    <2>1. AgedRow(NoJob) = NoJob
      BY DEF AgedRow, NoJob, Less
    <2>2. QED
      BY <1>1, <1>2, <2>1 DEF DbInv, AbsentRow, Exists
  <1>7. Numbered' /\ SnapshotCurrent' /\ DoneIsRecorded'
    BY <1>1, <1>2, <1>3, <1>4 DEF DbInv, Numbered, SnapshotCurrent, DoneIsRecorded
  <1>8. OneAssignmentPerGeneration' /\ OneWinner'
    BY <1>3 DEF DbInv, OneAssignmentPerGeneration, OneWinner
  <1>9. LeaseCovered'
    <2> SUFFICES ASSUME NEW b \in issued', b.done = NoManifest, b.left > 0
                 PROVE  /\ b.generation = jobs'[b.job].generation
                        /\ b.left <= jobs'[b.job].lease
      BY DEF LeaseCovered
    <2>1. PICK a \in issued :
            /\ b.left = Less(a.left) /\ b.done = a.done
            /\ b.job = a.job /\ b.generation = a.generation
      BY <1>3
    <2>2. a.left > 0 /\ b.left = a.left - 1
      BY <1>4, <2>1 DEF Less
    <2>3. a.generation = jobs[a.job].generation /\ a.left <= jobs[a.job].lease
      BY <2>1, <2>2 DEF DbInv, LeaseCovered
    <2>4. jobs[a.job].lease \in Nat
      BY <1>4, ConstantsAssumption DEF TypeOK, Row
    <2>5. QED
      BY <1>2, <1>4, <2>1, <2>2, <2>3, <2>4 DEF Less
  <1>10. CompletedByAssignment'
    <2> SUFFICES ASSUME NEW j \in Jobs, jobs'[j].state = "completed"
                 PROVE  /\ jobs'[j].manifest # NoManifest
                        /\ \E b \in issued' :
                              /\ b.job = j /\ b.generation = jobs'[j].generation
                              /\ b.revision = jobs'[j].revision
                              /\ b.done = jobs'[j].manifest
      BY DEF CompletedByAssignment
    <2>1. PICK a \in issued : /\ a.job = j /\ a.generation = jobs[j].generation
                              /\ a.revision = jobs[j].revision
                              /\ a.done = jobs[j].manifest
      BY <1>2 DEF DbInv, CompletedByAssignment
    <2>2. Aged(a) \in issued'
      BY <1>1
    <2>3. QED
      BY <1>2, <1>4, <2>1, <2>2, AssignmentFields DEF DbInv, CompletedByAssignment
  <1>11. EventsStored'
    BY <1>1, <1>2, <1>5 DEF DbInv, EventsStored, Exists
  <1>12. QED
    BY <1>6, <1>7, <1>8, <1>9, <1>10, <1>11 DEF DbInv

\* Blocking gives a row up that no live assignment holds.
LEMMA BlockInv ==
  ASSUME TypeOK, DbInv, NEW B \in SUBSET Jobs,
         \A j \in B : jobs[j].state \in {"pending", "running"},
         jobs' = [k \in Jobs |-> IF k \in B THEN BlockRow(jobs[k]) ELSE jobs[k]],
         \A j \in B : jobs[j].lease = 0,
         UNCHANGED <<destinations, inbox, issued>>
  PROVE  DbInv'
  <1>1. \A j \in Jobs : /\ jobs'[j].lease = jobs[j].lease
                        /\ jobs'[j].generation = jobs[j].generation
                        /\ jobs'[j].revision = jobs[j].revision
                        /\ jobs'[j].size = jobs[j].size
                        /\ jobs[j].state = "completed" => jobs'[j] = jobs[j]
                        /\ jobs'[j].state = "completed" => jobs'[j] = jobs[j]
                        /\ ~Exists(j) => jobs'[j] = jobs[j]
                        /\ jobs'[j].state # "absent" <=> jobs[j].state # "absent"
    BY RowFields DEF TypeOK, Exists
  <1>2. \A a \in issued : a.job \in Jobs
    BY DEF TypeOK, Assignment
  <1>3. \A e \in inbox : e.job \in Jobs
    BY ConstantsAssumption DEF TypeOK, EventRecord
  <1>4. AbsentRow' /\ EventsStored'
    BY <1>1, <1>3 DEF DbInv, AbsentRow, EventsStored, Exists
  <1>5. Numbered' /\ LeaseCovered' /\ SnapshotCurrent' /\ DoneIsRecorded'
    BY <1>1, <1>2 DEF DbInv, Numbered, LeaseCovered, SnapshotCurrent, DoneIsRecorded
  <1>6. OneAssignmentPerGeneration' /\ OneWinner'
    BY DEF DbInv, OneAssignmentPerGeneration, OneWinner
  <1>7. CompletedByAssignment'
    BY <1>1 DEF DbInv, CompletedByAssignment
  <1>8. QED
    BY <1>4, <1>5, <1>6, <1>7 DEF DbInv

\* A claim finds the lease run out, so nobody else holds the job.
LEMMA ClaimInv == ASSUME TypeOK, DbInv, NEW p \in Procs, NEW j \in Jobs, Claim(p, j)
                  PROVE  DbInv'
  <1> DEFINE n == NewAssignment(j)
  <1>1. /\ jobs[j].state \in {"pending", "running"} /\ jobs[j].lease = 0
        /\ j \notin Blocking
        /\ \A k \in Blocking : jobs[k].state \in {"pending", "running"}
        /\ issued' = issued \cup {n}
        /\ destinations' = destinations /\ inbox' = inbox
    <2>1. j \in Claimable /\ issued' = issued \cup {n}
            /\ destinations' = destinations /\ inbox' = inbox
      BY DEF Claim, Oldest
    <2>2. \A k \in Blocking : Available(k) /\ jobs[k].attempts >= MaxAttempts
      BY DEF Blocking, Exhausted
    <2>3. Available(j) /\ jobs[j].attempts < MaxAttempts
      BY <2>1 DEF Claimable
    <2>4. j \notin Blocking
      BY <2>2, <2>3, ConstantsAssumption DEF TypeOK, Row
    <2>5. QED
      BY <2>1, <2>2, <2>3, <2>4 DEF Available
  <1>2. \A k \in Jobs : /\ jobs'[k].revision = jobs[k].revision
                        /\ jobs'[k].size = jobs[k].size
                        /\ jobs[k].generation <= jobs'[k].generation
                        /\ jobs'[k].state = "completed" => jobs'[k] = jobs[k]
                        /\ jobs[k].state = "completed" => jobs'[k] = jobs[k]
                        /\ jobs'[k].state # "absent" <=> jobs[k].state # "absent"
                        /\ ~Exists(k) => jobs'[k] = jobs[k]
                        /\ k # j => jobs'[k].generation = jobs[k].generation
    BY <1>1, RowFields DEF Claim, TypeOK, Row, Exists
  <1>3. \A k \in Jobs \ {j} : jobs'[k].lease = jobs[k].lease
    BY <1>1, RowFields DEF Claim, TypeOK, Blocking, Exhausted, Available
  <1>4. jobs'[j].generation = jobs[j].generation + 1 /\ jobs'[j].lease = LeaseTTL
    BY <1>1, RowFields DEF Claim, TypeOK
  <1>5. /\ n.job = j /\ n.generation = jobs[j].generation + 1
        /\ n.revision = jobs[j].revision /\ n.destinations = destinations[j]
        /\ n.left = LeaseTTL /\ n.done = NoManifest
    BY DEF NewAssignment
  <1>6. \A a \in issued : a.job \in Jobs /\ a.generation \in Nat /\ a.left \in Nat
    BY ConstantsAssumption DEF TypeOK, Assignment
  <1>7. jobs[j].generation \in Nat /\ jobs[j].revision \in Nat
    BY DEF TypeOK, Row
  <1>8. \A e \in inbox : e.job \in Jobs
    BY ConstantsAssumption DEF TypeOK, EventRecord
  <1>9. AbsentRow' /\ EventsStored'
    BY <1>1, <1>2, <1>8 DEF DbInv, AbsentRow, EventsStored, Exists
  <1>10. Numbered'
    <2>1. \A a \in issued : /\ 1 <= a.generation
                            /\ a.generation <= jobs'[a.job].generation
                            /\ a.revision <= jobs'[a.job].revision
      <3> SUFFICES ASSUME NEW a \in issued
                   PROVE  /\ 1 <= a.generation
                          /\ a.generation <= jobs'[a.job].generation
                          /\ a.revision <= jobs'[a.job].revision
        OBVIOUS
      <3>1. jobs[a.job].generation \in Nat
        BY <1>6 DEF TypeOK, Row
      <3>2. CASE a.job = j
        BY <1>2, <1>4, <1>6, <3>1, <3>2 DEF DbInv, Numbered
      <3>3. CASE a.job # j
        BY <1>2, <1>6, <3>3 DEF DbInv, Numbered
      <3>4. QED
        BY <3>2, <3>3
    <2>2. 1 <= n.generation /\ n.generation <= jobs'[n.job].generation
            /\ n.revision <= jobs'[n.job].revision
      BY <1>2, <1>4, <1>5, <1>7
    <2>3. QED
      BY <1>1, <2>1, <2>2 DEF Numbered
  <1>11. \A a \in issued : a.job = j => a.generation # n.generation
    BY <1>5, <1>6, <1>7 DEF DbInv, Numbered
  <1>12. OneAssignmentPerGeneration' /\ OneWinner'
    BY <1>1, <1>5, <1>11 DEF DbInv, OneAssignmentPerGeneration, OneWinner
  <1>13. LeaseCovered'
    <2>1. ASSUME NEW a \in issued, a.done = NoManifest, a.left > 0
          PROVE  a.job # j
      BY <1>1, <1>6, <2>1 DEF DbInv, LeaseCovered
    <2>2. LeaseTTL <= LeaseTTL
      BY ConstantsAssumption
    <2>3. QED
      BY <1>1, <1>2, <1>3, <1>4, <1>5, <1>6, <2>1, <2>2 DEF DbInv, LeaseCovered
  <1>14. SnapshotCurrent'
    BY <1>1, <1>2, <1>5, <1>6 DEF DbInv, SnapshotCurrent
  <1>15. DoneIsRecorded'
    BY <1>1, <1>2, <1>5, <1>6 DEF DbInv, DoneIsRecorded
  <1>16. CompletedByAssignment'
    BY <1>1, <1>2 DEF DbInv, CompletedByAssignment
  <1>17. QED
    BY <1>9, <1>10, <1>12, <1>13, <1>14, <1>15, <1>16 DEF DbInv

\* A renewal changes no fence, and grants the row and the holder the same time.
LEMMA RenewInv == ASSUME TypeOK, DbInv, PresentedIsIssued, NEW p \in Procs, Renew(p)
                  PROVE  DbInv'
  <1> DEFINE l == tx[p].of
             row == RenewedRow(jobs[l.job])
             After(a) == IF LeaseOf(a) = l THEN Renewed(a, row.lease) ELSE a
  <1>1. /\ jobs' = [jobs EXCEPT ![l.job] = row]
        /\ issued' = {After(a) : a \in issued}
        /\ destinations' = destinations /\ inbox' = inbox
        /\ Live(l)
    BY DEF Renew
  <1>2. l \in Lease /\ l.job \in Jobs
    BY TransactionTypes DEF Renew
  <1>3. row \in Row /\ row.lease \in Nat
    <2>1. row \in Row
      BY <1>2, RowTypes DEF TypeOK
    <2>2. QED
      BY <2>1, ConstantsAssumption DEF Row
  <1>4. \A j \in Jobs : /\ jobs'[j].state = jobs[j].state
                        /\ jobs'[j].generation = jobs[j].generation
                        /\ jobs'[j].revision = jobs[j].revision
                        /\ jobs'[j].size = jobs[j].size
                        /\ jobs'[j].manifest = jobs[j].manifest
                        /\ j # l.job => jobs'[j] = jobs[j]
    BY <1>1, <1>2, RowFields DEF TypeOK
  <1>5. jobs'[l.job].lease = row.lease /\ Exists(l.job)
    BY <1>1, <1>2 DEF TypeOK, Live, Exists
  <1>6. \A a \in issued : a \in Assignment /\ a.job \in Jobs
    BY DEF TypeOK, Assignment
  <1>7. \A a \in issued : /\ After(a).job = a.job /\ After(a).generation = a.generation
                          /\ After(a).revision = a.revision
                          /\ After(a).destinations = a.destinations
                          /\ After(a).done = a.done
                          /\ LeaseOf(a) # l => After(a).left = a.left
                          /\ LeaseOf(a) = l => After(a).left = row.lease
    BY <1>3, <1>6, AssignmentFields
  <1> HIDE DEF After, row
  <1>8. \A e \in inbox : e.job \in Jobs
    BY ConstantsAssumption DEF TypeOK, EventRecord
  <1>9. AbsentRow' /\ EventsStored'
    BY <1>1, <1>4, <1>5, <1>8 DEF DbInv, AbsentRow, EventsStored, Exists
  <1>10. Numbered' /\ SnapshotCurrent' /\ DoneIsRecorded'
    BY <1>1, <1>4, <1>6, <1>7 DEF DbInv, Numbered, SnapshotCurrent, DoneIsRecorded
  <1>11. OneAssignmentPerGeneration' /\ OneWinner'
    BY <1>1, <1>7 DEF DbInv, OneAssignmentPerGeneration, OneWinner
  <1>12. LeaseCovered'
    <2> SUFFICES ASSUME NEW a \in issued, After(a).done = NoManifest, After(a).left > 0
                 PROVE  /\ After(a).generation = jobs'[After(a).job].generation
                        /\ After(a).left <= jobs'[After(a).job].lease
      BY <1>1 DEF LeaseCovered
    <2>1. CASE LeaseOf(a) = l
      <3>1. a.job = l.job /\ a.generation = l.generation
        BY <2>1 DEF LeaseOf
      <3>2. jobs[l.job].generation = l.generation
        BY <1>1 DEF Live
      <3>3. QED
        BY <1>2, <1>3, <1>4, <1>5, <1>7, <2>1, <3>1, <3>2
    <2>2. CASE LeaseOf(a) # l
      <3>1. a.generation = jobs[a.job].generation /\ a.left <= jobs[a.job].lease
        BY <1>7, <2>2 DEF DbInv, LeaseCovered
      <3>2. PICK b \in issued : LeaseOf(b) = l
        BY DEF PresentedIsIssued, Renew
      <3>3. b.job = l.job /\ b.generation = jobs[l.job].generation
        BY <1>1, <3>2 DEF LeaseOf, Live
      <3>4. a.job # l.job
        BY <2>2, <3>1, <3>2, <3>3 DEF DbInv, OneAssignmentPerGeneration
      <3>5. QED
        BY <1>4, <1>6, <1>7, <2>2, <3>1, <3>4
    <2>3. QED
      BY <2>1, <2>2
  <1>13. CompletedByAssignment'
    <2> SUFFICES ASSUME NEW j \in Jobs, jobs'[j].state = "completed"
                 PROVE  /\ jobs'[j].manifest # NoManifest
                        /\ \E b \in issued' :
                              /\ b.job = j /\ b.generation = jobs'[j].generation
                              /\ b.revision = jobs'[j].revision
                              /\ b.done = jobs'[j].manifest
      BY DEF CompletedByAssignment
    <2>1. PICK a \in issued : /\ a.job = j /\ a.generation = jobs[j].generation
                              /\ a.revision = jobs[j].revision
                              /\ a.done = jobs[j].manifest
      BY <1>4 DEF DbInv, CompletedByAssignment
    <2>2. After(a) \in issued'
      BY <1>1
    <2>3. QED
      BY <1>4, <1>7, <2>1, <2>2 DEF DbInv, CompletedByAssignment
  <1>14. QED
    BY <1>9, <1>10, <1>11, <1>12, <1>13 DEF DbInv

\* A completion finds its job running at its own revision, so that no other
\* assignment of that revision has completed.
LEMMA CompleteInv == ASSUME TypeOK, DbInv, PresentedIsIssued, NEW p \in Procs, Complete(p)
                     PROVE  DbInv'
  <1> DEFINE l == tx[p].of
             m == tx[p].manifest
             After(a) == IF LeaseOf(a) = l THEN Finished(a, m) ELSE a
  <1>1. /\ jobs' = [jobs EXCEPT ![l.job] = CompletedRow(jobs[l.job], m)]
        /\ issued' = {After(a) : a \in issued}
        /\ destinations' = destinations /\ inbox' = inbox
        /\ Live(l)
    BY DEF Complete
  <1>2. l \in Lease /\ l.job \in Jobs /\ m \in Manifests /\ m # NoManifest
    BY TransactionTypes, ConstantsAssumption DEF Complete
  <1>3. /\ jobs[l.job].state = "running"
        /\ jobs[l.job].generation = l.generation /\ jobs[l.job].revision = l.revision
    BY <1>1 DEF Live
  <1>4. /\ jobs'[l.job].state = "completed" /\ jobs'[l.job].manifest = m
        /\ \A j \in Jobs : /\ jobs'[j].generation = jobs[j].generation
                           /\ jobs'[j].revision = jobs[j].revision
                           /\ jobs'[j].size = jobs[j].size
                           /\ j # l.job => jobs'[j] = jobs[j]
    BY <1>1, <1>2, RowFields DEF TypeOK
  <1>5. \A a \in issued : a \in Assignment /\ a.job \in Jobs
    BY DEF TypeOK, Assignment
  <1>6. \A a \in issued : /\ After(a).job = a.job /\ After(a).generation = a.generation
                          /\ After(a).revision = a.revision
                          /\ After(a).destinations = a.destinations
                          /\ After(a).left = a.left
                          /\ LeaseOf(a) # l => After(a).done = a.done
                          /\ LeaseOf(a) = l => After(a).done = m
    BY <1>2, <1>5, AssignmentFields
  <1>7. PICK w \in issued : LeaseOf(w) = l
    BY DEF PresentedIsIssued, Complete
  <1>8. w.job = l.job /\ w.generation = l.generation /\ w.revision = l.revision
    BY <1>7 DEF LeaseOf
  <1>9. \A a \in issued : a # w => LeaseOf(a) # l
    BY <1>7, <1>8 DEF LeaseOf, DbInv, OneAssignmentPerGeneration
  <1>10. \A e \in inbox : e.job \in Jobs
    BY ConstantsAssumption DEF TypeOK, EventRecord
  <1> HIDE DEF After
  <1>11. AbsentRow' /\ EventsStored'
    <2>1. jobs'[l.job].state # "absent" /\ Exists(l.job)
      BY <1>3, <1>4 DEF Exists
    <2>2. QED
      BY <1>1, <1>4, <1>10, <2>1 DEF DbInv, AbsentRow, EventsStored, Exists
  <1>12. Numbered' /\ SnapshotCurrent'
    BY <1>1, <1>4, <1>5, <1>6 DEF DbInv, Numbered, SnapshotCurrent
  <1>13. OneAssignmentPerGeneration'
    BY <1>1, <1>6 DEF DbInv, OneAssignmentPerGeneration
  <1>14. LeaseCovered'
    <2> SUFFICES ASSUME NEW a \in issued, After(a).done = NoManifest, After(a).left > 0
                 PROVE  /\ After(a).generation = jobs'[After(a).job].generation
                        /\ After(a).left <= jobs'[After(a).job].lease
      BY <1>1 DEF LeaseCovered
    <2>1. a # w /\ a.done = NoManifest /\ a.left > 0
      BY <1>2, <1>6, <1>7, <1>9
    <2>2. a.generation = jobs[a.job].generation /\ a.left <= jobs[a.job].lease
      BY <2>1 DEF DbInv, LeaseCovered
    <2>3. a.job # l.job
      BY <1>3, <1>8, <2>1, <2>2 DEF DbInv, OneAssignmentPerGeneration
    <2>4. QED
      BY <1>4, <1>5, <1>6, <2>2, <2>3
  <1>15. \A a \in issued : a.job = l.job /\ a.revision = l.revision => a.done = NoManifest
    BY <1>3 DEF DbInv, DoneIsRecorded
  <1>16. DoneIsRecorded'
    <2> SUFFICES ASSUME NEW a \in issued, After(a).done # NoManifest,
                        After(a).revision = jobs'[After(a).job].revision
                 PROVE  /\ jobs'[After(a).job].state = "completed"
                        /\ jobs'[After(a).job].generation = After(a).generation
      BY <1>1 DEF DoneIsRecorded
    <2>1. CASE a = w
      BY <1>2, <1>3, <1>4, <1>6, <1>8, <2>1
    <2>2. CASE a # w
      <3>1. a.done # NoManifest /\ a.revision = jobs[a.job].revision
        BY <1>4, <1>5, <1>6, <1>9, <2>2
      <3>2. a.job # l.job
        BY <1>3, <1>15, <3>1
      <3>3. QED
        BY <1>4, <1>5, <1>6, <3>1, <3>2 DEF DbInv, DoneIsRecorded
    <2>3. QED
      BY <2>1, <2>2
  <1>17. OneWinner'
    <2> SUFFICES ASSUME NEW a \in issued, NEW b \in issued,
                        After(a).job = After(b).job, After(a).revision = After(b).revision,
                        After(a).done # NoManifest, After(b).done # NoManifest
                 PROVE  a = b
      BY <1>1 DEF OneWinner
    <2>1. a.job = b.job /\ a.revision = b.revision
      BY <1>6
    <2>2. CASE a = w \/ b = w
      BY <1>6, <1>8, <1>9, <1>15, <2>1, <2>2
    <2>3. CASE a # w /\ b # w
      BY <1>6, <1>9, <2>1, <2>3 DEF DbInv, OneWinner
    <2>4. QED
      BY <2>2, <2>3
  <1>18. CompletedByAssignment'
    <2> SUFFICES ASSUME NEW j \in Jobs, jobs'[j].state = "completed"
                 PROVE  /\ jobs'[j].manifest # NoManifest
                        /\ \E b \in issued' :
                              /\ b.job = j /\ b.generation = jobs'[j].generation
                              /\ b.revision = jobs'[j].revision
                              /\ b.done = jobs'[j].manifest
      BY DEF CompletedByAssignment
    <2>1. CASE j = l.job
      <3>1. After(w) \in issued'
        BY <1>1
      <3>2. QED
        BY <1>2, <1>3, <1>4, <1>6, <1>7, <1>8, <2>1, <3>1
    <2>2. CASE j # l.job
      <3>1. PICK a \in issued : /\ a.job = j /\ a.generation = jobs[j].generation
                                /\ a.revision = jobs[j].revision
                                /\ a.done = jobs[j].manifest
        BY <1>4, <2>2 DEF DbInv, CompletedByAssignment
      <3>2. After(a) \in issued' /\ a # w
        BY <1>1, <1>8, <2>2, <3>1
      <3>3. QED
        BY <1>4, <1>6, <1>9, <2>2, <3>1, <3>2 DEF DbInv, CompletedByAssignment
    <2>3. QED
      BY <2>1, <2>2
  <1>19. QED
    BY <1>11, <1>12, <1>13, <1>14, <1>16, <1>17, <1>18 DEF DbInv

\* What a new event does to its job's row: nothing, or a new revision; never to
\* the fence and the lease of the assignment that is out.
LEMMA RevisedFields ==
  ASSUME TypeOK, DbInv, NEW e \in Events, ~DifferentInput(e)
  PROVE  LET old == jobs[e.job]
             new == Revised(e)
         IN  /\ new.size = e.size /\ new.state # "absent"
             /\ new.generation = old.generation /\ new.lease = old.lease
             /\ \/ /\ Wanted(e) \subseteq destinations[e.job] /\ Exists(e.job) /\ new = old
                \/ /\ new.revision = old.revision + 1 /\ new.state # "completed"
  <1> DEFINE old == jobs[e.job]
             new == Revised(e)
  <1>1. e.job \in Jobs /\ old \in Row
    BY ConstantsAssumption DEF EventRecord, TypeOK
  <1>2. /\ FirstRow(e).state = "pending" /\ FirstRow(e).size = e.size
        /\ FirstRow(e).generation = 0 /\ FirstRow(e).revision = 0 /\ FirstRow(e).lease = 0
    BY DEF FirstRow, NoJob
  <1>3. FirstRow(e) \in Row
    BY FirstRowType
  <1>4. \A row \in Row : /\ NewRevision(row).revision = row.revision + 1
                         /\ NewRevision(row).generation = row.generation
                         /\ NewRevision(row).lease = row.lease
                         /\ NewRevision(row).size = row.size
                         /\ NewRevision(row).state = Reopened(row.state)
    BY DEF NewRevision, Row
  <1>5. \A st : st # "absent" => Reopened(st) # "absent" /\ Reopened(st) # "completed"
    BY DEF Reopened
  <1>6. CASE Exists(e.job)
    <2>1. old.size = e.size /\ old.state # "absent"
      BY <1>6 DEF DifferentInput, Exists
    <2>2. new = IF Wanted(e) \subseteq destinations[e.job] THEN old ELSE NewRevision(old)
      BY <1>6 DEF Revised
    <2>3. QED
      BY <1>1, <1>4, <1>5, <1>6, <2>1, <2>2
  <1>7. CASE ~Exists(e.job)
    <2>1. old = NoJob /\ destinations[e.job] = {}
      BY <1>1, <1>7 DEF DbInv, AbsentRow
    <2>2. ~(Wanted(e) \subseteq destinations[e.job])
      BY <2>1 DEF Wanted
    <2>3. new = NewRevision(FirstRow(e))
      BY <1>7, <2>2 DEF Revised
    <2>4. old.generation = 0 /\ old.revision = 0 /\ old.lease = 0
      BY <2>1 DEF NoJob
    <2>5. QED
      BY <1>2, <1>3, <1>4, <1>5, <2>3, <2>4
  <1>8. QED
    BY <1>6, <1>7

\* An accepted event leaves every assignment of its job either current, or of a
\* revision that is past and can no longer be completed.
LEMMA AcceptInv == ASSUME TypeOK, DbInv, NEW p \in Procs, AcceptNew(p) PROVE DbInv'
  <1> DEFINE e == tx[p].event
             j == e.job
             new == Revised(e)
  <1>1. e \in Events /\ j \in Jobs
    BY TransactionTypes DEF AcceptNew
  <1>2. /\ ~DifferentInput(e)
        /\ jobs' = [jobs EXCEPT ![j] = new]
        /\ destinations' = [destinations EXCEPT ![j] = destinations[j] \cup Wanted(e)]
        /\ inbox' = inbox \cup {e}
        /\ issued' = issued
    BY DEF AcceptNew
  <1>3. /\ new.size = e.size /\ new.state # "absent"
        /\ new.generation = jobs[j].generation /\ new.lease = jobs[j].lease
        /\ \/ /\ Wanted(e) \subseteq destinations[j] /\ Exists(j) /\ new = jobs[j]
           \/ /\ new.revision = jobs[j].revision + 1 /\ new.state # "completed"
    BY <1>1, <1>2, RevisedFields
  <1> HIDE DEF new
  <1>4. /\ jobs'[j] = new
        /\ \A k \in Jobs \ {j} : jobs'[k] = jobs[k] /\ destinations'[k] = destinations[k]
        /\ destinations'[j] = destinations[j] \cup Wanted(e)
    BY <1>1, <1>2 DEF TypeOK
  <1>5. \A a \in issued : a.job \in Jobs /\ a.revision \in Nat
    BY DEF TypeOK, Assignment
  <1>6. \A f \in inbox : f.job \in Jobs
    BY ConstantsAssumption DEF TypeOK, EventRecord
  <1>7. jobs[j].revision \in Nat /\ jobs[j].generation \in Nat
    BY <1>1 DEF TypeOK, Row
  <1>8. AbsentRow'
    BY <1>1, <1>3, <1>4 DEF DbInv, AbsentRow, Exists
  <1>9. EventsStored'
    <2>1. ASSUME NEW f \in inbox
          PROVE  jobs'[f.job].state # "absent" /\ jobs'[f.job].size = f.size
                   /\ Wanted(f) \subseteq destinations'[f.job]
      <3>1. jobs[f.job].state # "absent" /\ jobs[f.job].size = f.size
              /\ Wanted(f) \subseteq destinations[f.job]
        BY DEF DbInv, EventsStored, Exists
      <3>2. CASE f.job = j
        <4>1. e.size = jobs[j].size
          BY <1>2, <3>1, <3>2 DEF DifferentInput, Exists
        <4>2. QED
          BY <1>3, <1>4, <3>1, <3>2, <4>1
      <3>3. CASE f.job # j
        BY <1>4, <1>6, <3>1, <3>3
      <3>4. QED
        BY <3>2, <3>3
    <2>2. jobs'[j].state # "absent" /\ jobs'[j].size = e.size /\ Wanted(e) \subseteq destinations'[j]
      BY <1>3, <1>4
    <2>3. QED
      BY <1>2, <2>1, <2>2 DEF EventsStored, Exists
  <1>10. Numbered' /\ LeaseCovered'
    <2>1. \A a \in issued : /\ jobs'[a.job].generation = jobs[a.job].generation
                            /\ jobs'[a.job].lease = jobs[a.job].lease
      BY <1>3, <1>4, <1>5
    <2>2. \A a \in issued : a.revision <= jobs'[a.job].revision
      <3> SUFFICES ASSUME NEW a \in issued PROVE a.revision <= jobs'[a.job].revision
        OBVIOUS
      <3>1. a.revision <= jobs[a.job].revision
        BY DEF DbInv, Numbered
      <3>2. QED
        BY <1>3, <1>4, <1>5, <1>7, <3>1
    <2>3. QED
      BY <1>2, <2>1, <2>2 DEF DbInv, Numbered, LeaseCovered
  <1>11. OneAssignmentPerGeneration' /\ OneWinner'
    BY <1>2 DEF DbInv, OneAssignmentPerGeneration, OneWinner
  <1>12. \A a \in issued : a.revision = jobs'[a.job].revision =>
            jobs'[a.job] = jobs[a.job] /\ destinations'[a.job] = destinations[a.job]
    <2> SUFFICES ASSUME NEW a \in issued, a.revision = jobs'[a.job].revision
                 PROVE  jobs'[a.job] = jobs[a.job] /\ destinations'[a.job] = destinations[a.job]
      OBVIOUS
    <2>1. CASE a.job = j
      <3>1. a.revision <= jobs[j].revision
        BY <2>1 DEF DbInv, Numbered
      <3>2. Wanted(e) \subseteq destinations[j] /\ new = jobs[j]
        BY <1>3, <1>4, <1>5, <1>7, <2>1, <3>1
      <3>3. QED
        BY <1>4, <2>1, <3>2
    <2>2. CASE a.job # j
      BY <1>4, <1>5, <2>2
    <2>3. QED
      BY <2>1, <2>2
  <1>13. SnapshotCurrent' /\ DoneIsRecorded'
    BY <1>2, <1>12 DEF DbInv, SnapshotCurrent, DoneIsRecorded
  <1>14. CompletedByAssignment'
    <2>1. \A k \in Jobs : jobs'[k].state = "completed" => jobs'[k] = jobs[k]
      BY <1>3, <1>4
    <2>2. QED
      BY <1>2, <2>1 DEF DbInv, CompletedByAssignment
  <1>15. QED
    BY <1>8, <1>9, <1>10, <1>11, <1>13, <1>14 DEF DbInv

\* The leases of the issued assignments are never taken back, and an assignment
\* that completed keeps its marker.
LEMMA IssuedKept ==
  ASSUME TypeOK, DbInv, [Next]_vars, NEW a \in issued
  PROVE  \E b \in issued' : /\ LeaseOf(b) = LeaseOf(a)
                            /\ a.done # NoManifest => b.done = a.done
  <1>1. a \in Assignment
    BY DEF TypeOK
  <1>2. CASE a \in issued'
    BY <1>2
  <1>3. CASE Tick
    <2>1. Aged(a) \in issued' /\ LeaseOf(Aged(a)) = LeaseOf(a) /\ Aged(a).done = a.done
      BY <1>1, <1>3, AssignmentFields DEF Tick, LeaseOf
    <2>2. QED
      BY <2>1
  <1>4. ASSUME NEW p \in Procs, Renew(p)
        PROVE  \E b \in issued' : LeaseOf(b) = LeaseOf(a) /\ b.done = a.done
    <2> DEFINE lease == RenewedRow(jobs[tx[p].of.job]).lease
               b == IF LeaseOf(a) = tx[p].of THEN Renewed(a, lease) ELSE a
    <2>1. tx[p].of.job \in Jobs
      BY <1>4, TransactionTypes DEF Renew
    <2>2. lease \in Nat
      <3>1. RenewedRow(jobs[tx[p].of.job]) \in Row
        BY <2>1, RowTypes DEF TypeOK
      <3>2. QED
        BY <3>1, ConstantsAssumption DEF Row
    <2>3. b \in issued'
      BY <1>4 DEF Renew
    <2>4. LeaseOf(b) = LeaseOf(a) /\ b.done = a.done
      BY <1>1, <2>2, AssignmentFields DEF LeaseOf
    <2>5. QED
      BY <2>3, <2>4
  <1>5. ASSUME NEW p \in Procs, Complete(p)
        PROVE  \E b \in issued' : /\ LeaseOf(b) = LeaseOf(a)
                                  /\ a.done # NoManifest => b.done = a.done
    <2> DEFINE l == tx[p].of
               m == tx[p].manifest
               b == IF LeaseOf(a) = l THEN Finished(a, m) ELSE a
    <2>1. m \in Manifests /\ Live(l) /\ b \in issued'
      BY <1>5, TransactionTypes DEF Complete
    <2>2. LeaseOf(b) = LeaseOf(a)
      BY <1>1, <2>1, AssignmentFields DEF LeaseOf
    <2>3. CASE LeaseOf(a) = l
      <3>1. a.done = NoManifest
        BY <2>1, <2>3 DEF DbInv, DoneIsRecorded, Live, LeaseOf
      <3>2. QED
        BY <2>1, <2>2, <3>1
    <2>4. CASE LeaseOf(a) # l
      BY <2>1, <2>2, <2>4
    <2>5. QED
      BY <2>3, <2>4
  <1>6. \/ issued \subseteq issued' \/ Tick
        \/ \E p \in Procs : Renew(p) \/ Complete(p)
    BY DEF Next, Decide, ClaimCall, BeginAccept, BeginRenew, BeginComplete, Begin,
           JournalCompletionReplay, Rollback, AcceptReplay, AcceptNew, AcceptConflict,
           CompleteReplay, Stale, Claim, ClaimNone, vars
  <1>7. QED
    BY <1>2, <1>3, <1>4, <1>5, <1>6

\* Only these steps write to the database; the others are requests, refusals,
\* replays and rollbacks.
LEMMA DbNext == ASSUME TypeOK, DbInv, PresentedIsIssued, [Next]_vars PROVE DbInv'
  <1>1. ASSUME NEW p \in Procs, ClaimNone(p) PROVE DbInv'
    <2>1. \A j \in Blocking : jobs[j].state \in {"pending", "running"} /\ jobs[j].lease = 0
      BY DEF Blocking, Exhausted, Available
    <2>2. Blocking \in SUBSET Jobs
      BY DEF Blocking, Exhausted
    <2>3. /\ jobs' = [k \in Jobs |-> IF k \in Blocking THEN BlockRow(jobs[k]) ELSE jobs[k]]
          /\ UNCHANGED <<destinations, inbox, issued>>
      BY <1>1 DEF ClaimNone
    <2>4. QED
      BY <2>1, <2>2, <2>3, BlockInv
  <1>2. CASE UNCHANGED <<jobs, destinations, inbox, issued>>
    BY <1>2 DEF DbInv, AbsentRow, Exists, Numbered, OneAssignmentPerGeneration, LeaseCovered,
       SnapshotCurrent, DoneIsRecorded, CompletedByAssignment, EventsStored, OneWinner
  <1>3. \/ UNCHANGED <<jobs, destinations, inbox, issued>> \/ Tick
        \/ \E p \in Procs : \/ AcceptNew(p) \/ Renew(p) \/ Complete(p) \/ ClaimNone(p)
                            \/ \E j \in Jobs : Claim(p, j)
    BY DEF Next, Decide, ClaimCall, BeginAccept, BeginRenew, BeginComplete, Begin,
           JournalCompletionReplay, Rollback, AcceptReplay, AcceptConflict,
           CompleteReplay, Stale, vars
  <1>4. QED
    BY <1>1, <1>2, <1>3, TickInv, AcceptInv, RenewInv, CompleteInv, ClaimInv

\* Workers present leases they were given.
LEMMA PresentedNext == ASSUME TypeOK, IInv, [Next]_vars PROVE PresentedIsIssued'
  <1> SUFFICES ASSUME NEW q \in Procs, tx'[q].op \in {"renew", "complete"}
               PROVE  \E b \in issued' : LeaseOf(b) = tx'[q].of
    BY DEF PresentedIsIssued
  <1>1. CASE \E a \in issued : tx'[q].of = LeaseOf(a)
    BY <1>1, IssuedKept DEF IInv
  <1>2. CASE tx'[q] = tx[q]
    BY <1>1, <1>2 DEF IInv, PresentedIsIssued
  <1>3. ASSUME NEW p \in Procs, tx' = [tx EXCEPT ![p] = Idle] PROVE tx'[q] = tx[q]
    BY <1>3 DEF TypeOK, Idle
  <1>4. ASSUME NEW p \in Procs, NEW e \in Events, BeginAccept(p, e) PROVE tx'[q] = tx[q]
    BY <1>4 DEF TypeOK, BeginAccept, Begin
  <1>5. ASSUME NEW p \in Procs, NEW a \in issued, BeginRenew(p, a)
        PROVE  tx'[q] = tx[q] \/ tx'[q].of = LeaseOf(a)
    BY <1>5 DEF TypeOK, BeginRenew, Begin
  <1>6. ASSUME NEW p \in Procs, NEW a \in issued, NEW m \in Manifests, BeginComplete(p, a, m)
        PROVE  tx'[q] = tx[q] \/ tx'[q].of = LeaseOf(a)
    BY <1>6 DEF TypeOK, BeginComplete, Begin
  <1>7. \/ tx' = tx
        \/ \E p \in Procs :
              \/ tx' = [tx EXCEPT ![p] = Idle]
              \/ \E e \in Events : BeginAccept(p, e)
              \/ \E a \in issued : BeginRenew(p, a)
              \/ \E a \in issued, m \in Manifests : BeginComplete(p, a, m)
    BY DEF Next, Decide, ClaimCall, JournalCompletionReplay, Rollback, AcceptReplay,
           AcceptNew, AcceptConflict, Renew, Complete, CompleteReplay, Stale, Claim,
           ClaimNone, Tick, End, vars
  <1>8. QED
    BY <1>1, <1>2, <1>3, <1>4, <1>5, <1>6, <1>7

\* A recorded completion is that of an issued assignment.
LEMMA RecordedIsIssued ==
  ASSUME TypeOK, DbInv, NEW l \in Lease, NEW m, Recorded(l, m)
  PROVE  \E a \in issued : LeaseOf(a) = l /\ a.done = m
  <1>1. PICK a \in issued : /\ a.job = l.job /\ a.generation = jobs[l.job].generation
                            /\ a.revision = jobs[l.job].revision
                            /\ a.done = jobs[l.job].manifest
    BY DEF DbInv, CompletedByAssignment, Recorded, Lease
  <1>2. LeaseOf(a) = [job |-> l.job, generation |-> l.generation, revision |-> l.revision]
    BY <1>1 DEF LeaseOf, Recorded
  <1>3. LeaseOf(a) = l
    BY <1>2 DEF Lease
  <1>4. QED
    BY <1>1, <1>3 DEF Recorded

\* What a worker was told is recorded, and a later step keeps the record.
LEMMA ConfirmedNext == ASSUME TypeOK, IInv, [Next]_vars PROVE ConfirmedIsRecorded'
  <1> SUFFICES ASSUME NEW c \in confirmed'
               PROVE  \E b \in issued' : LeaseOf(b) = c[1] /\ b.done = c[2]
    BY DEF ConfirmedIsRecorded
  <1>1. CASE c \in confirmed
    <2>1. PICK a \in issued : LeaseOf(a) = c[1] /\ a.done = c[2]
      BY <1>1 DEF IInv, ConfirmedIsRecorded
    <2>2. a.done # NoManifest
      BY <1>1, <2>1, ConstantsAssumption DEF TypeOK
    <2>3. QED
      BY <2>1, <2>2, IssuedKept DEF IInv
  <1>2. ASSUME NEW p \in Procs, Complete(p), c = <<tx[p].of, tx[p].manifest>>
        PROVE  \E b \in issued' : LeaseOf(b) = c[1] /\ b.done = c[2]
    <2> DEFINE l == tx[p].of
               m == tx[p].manifest
    <2>1. PICK w \in issued : LeaseOf(w) = l
      BY <1>2 DEF IInv, PresentedIsIssued, Complete
    <2>2. m \in Manifests /\ w \in Assignment
      BY <1>2, TransactionTypes DEF Complete, TypeOK
    <2>3. Finished(w, m) \in issued'
      BY <1>2, <2>1 DEF Complete
    <2>4. LeaseOf(Finished(w, m)) = l /\ Finished(w, m).done = m
      BY <2>1, <2>2, AssignmentFields DEF LeaseOf
    <2>5. c[1] = l /\ c[2] = m
      BY <1>2
    <2>6. QED
      BY <2>3, <2>4, <2>5
  <1>3. ASSUME NEW p \in Procs, CompleteReplay(p), c = <<tx[p].of, tx[p].manifest>>
        PROVE  \E b \in issued' : LeaseOf(b) = c[1] /\ b.done = c[2]
    <2>1. tx[p].of \in Lease /\ Recorded(tx[p].of, tx[p].manifest) /\ issued' = issued
      BY <1>3, TransactionTypes DEF CompleteReplay
    <2>2. c[1] = tx[p].of /\ c[2] = tx[p].manifest
      BY <1>3
    <2>3. QED
      BY <2>1, <2>2, RecordedIsIssued DEF IInv
  <1>4. ASSUME NEW p \in Procs, NEW a \in issued, NEW m \in Manifests,
               JournalCompletionReplay(p, a, m), c = <<LeaseOf(a), m>>
        PROVE  \E b \in issued' : LeaseOf(b) = c[1] /\ b.done = c[2]
    <2>1. LeaseOf(a) \in Lease /\ Recorded(LeaseOf(a), m) /\ issued' = issued
      BY <1>4, LeaseOfType DEF JournalCompletionReplay, TypeOK
    <2>2. c[1] = LeaseOf(a) /\ c[2] = m
      BY <1>4
    <2>3. QED
      BY <2>1, <2>2, RecordedIsIssued DEF IInv
  <1>5. \/ confirmed' = confirmed
        \/ \E p \in Procs : /\ Complete(p) \/ CompleteReplay(p)
                            /\ confirmed' = confirmed \cup {<<tx[p].of, tx[p].manifest>>}
        \/ \E p \in Procs, a \in issued, m \in Manifests :
              /\ JournalCompletionReplay(p, a, m)
              /\ confirmed' = confirmed \cup {<<LeaseOf(a), m>>}
    <2>1. \A p \in Procs : Complete(p) \/ CompleteReplay(p) =>
             \/ confirmed' = confirmed
             \/ confirmed' = confirmed \cup {<<tx[p].of, tx[p].manifest>>}
      BY DEF Complete, CompleteReplay, Confirm
    <2>2. \A p \in Procs, a \in issued, m \in Manifests :
             JournalCompletionReplay(p, a, m) =>
                confirmed' = confirmed \cup {<<LeaseOf(a), m>>}
      BY DEF JournalCompletionReplay
    <2>3. \/ confirmed' = confirmed
          \/ \E p \in Procs : Complete(p) \/ CompleteReplay(p)
          \/ \E p \in Procs, a \in issued, m \in Manifests : JournalCompletionReplay(p, a, m)
      BY DEF Next, Decide, ClaimCall, BeginAccept, BeginRenew, BeginComplete, Begin,
             Rollback, AcceptReplay, AcceptNew, AcceptConflict, Renew, Stale, Claim,
             ClaimNone, Tick, vars
    <2>4. QED
      BY <2>1, <2>2, <2>3
  <1>6. QED
    BY <1>1, <1>2, <1>3, <1>4, <1>5

\* The inductive invariant holds of every reachable state.
THEOREM Invariance == Spec => [](TypeOK /\ IInv)
  <1>1. Init => TypeOK /\ IInv
    BY InitType, InitInv
  <1>2. TypeOK /\ IInv /\ [Next]_vars => (TypeOK /\ IInv)'
    BY NextType, DbNext, PresentedNext, ConfirmedNext DEF IInv
  <1>3. QED
    BY <1>1, <1>2, PTL DEF Spec

\* Two workers are never both inside an unfinished, unexpired assignment of one
\* job, whatever revisions arrive and however calls are delayed.
THEOREM LeasesExclude == Spec => []LeaseExclusion
  <1>1. TypeOK /\ IInv => LeaseExclusion
    BY Consequences
  <1>2. QED
    BY <1>1, Invariance, PTL

\* The marker of a completed job was made for every destination that any event
\* accepted until now names.
THEOREM CompletionCovers == Spec => []CompletionCoversEvents
  <1>1. TypeOK /\ IInv => CompletionCoversEvents
    BY Consequences
  <1>2. QED
    BY <1>1, Invariance, PTL

\* An input revision is completed once.
THEOREM SingleWinner == Spec => []OneWinner
  <1>1. IInv => OneWinner
    BY DEF IInv, DbInv
  <1>2. QED
    BY <1>1, Invariance, PTL

\* No worker is told of a completion that was not its own.
THEOREM ConfirmationsHold == Spec => []ConfirmedIsRecorded
  <1>1. IInv => ConfirmedIsRecorded
    BY DEF IInv
  <1>2. QED
    BY <1>1, Invariance, PTL

-----------------------------------------------------------------------------
\* The other side of LeaseCovered: while a row's lease runs, the worker that has
\* the row's generation was granted all of it.
LeaseHonoured == \A a \in issued :
    a.generation = jobs[a.job].generation => jobs[a.job].lease <= a.left

\* A step that leaves the assignments alone may only let a row's lease fall.
LEMMA HonouredStill ==
  ASSUME TypeOK, LeaseHonoured, issued' = issued,
         \A a \in issued : /\ jobs'[a.job].generation = jobs[a.job].generation
                           /\ \/ jobs'[a.job].lease = jobs[a.job].lease
                              \/ jobs'[a.job].lease = 0
  PROVE  LeaseHonoured'
  <1>1. \A a \in issued : a.left \in Nat /\ 0 <= a.left
    BY ConstantsAssumption DEF TypeOK, Assignment
  <1>2. QED
    BY <1>1 DEF LeaseHonoured

\* A renewal and a completion find one assignment with the row's fence.
LEMMA HonouredWhileLive ==
  ASSUME TypeOK, IInv, LeaseHonoured, NEW p \in Procs, Renew(p) \/ Complete(p)
  PROVE  LeaseHonoured'
  <1> DEFINE l == tx[p].of
  <1>1. l \in Lease /\ l.job \in Jobs /\ tx[p].op \in {"renew", "complete"} /\ Live(l)
    BY TransactionTypes DEF Renew, Complete
  <1>2. PICK w \in issued : LeaseOf(w) = l
    BY <1>1 DEF IInv, PresentedIsIssued
  <1>3. \A a \in issued : a \in Assignment /\ a.job \in Jobs
    BY DEF TypeOK, Assignment
  <1>4. \A a \in issued :
           a.job = l.job /\ a.generation = jobs[l.job].generation => LeaseOf(a) = l
    BY <1>1, <1>2 DEF IInv, DbInv, OneAssignmentPerGeneration, LeaseOf, Live
  <1>5. CASE Renew(p)
    <2> DEFINE row == RenewedRow(jobs[l.job])
               After(a) == IF LeaseOf(a) = l THEN Renewed(a, row.lease) ELSE a
    <2>1. jobs' = [jobs EXCEPT ![l.job] = row] /\ issued' = {After(a) : a \in issued}
      BY <1>5 DEF Renew
    <2>2. row.lease \in Nat /\ row.generation = jobs[l.job].generation /\ row.lease <= row.lease
      <3>1. row \in Row /\ row.generation = jobs[l.job].generation
        <4>1. jobs[l.job] \in Row
          BY <1>1 DEF TypeOK
        <4>2. row \in Row
          BY <4>1, RowTypes
        <4>3. row.generation = jobs[l.job].generation
          BY <4>1 DEF RenewedRow, Row
        <4>4. QED
          BY <4>2, <4>3
      <3>2. row.lease \in Nat
        BY <3>1, ConstantsAssumption DEF Row
      <3>3. QED
        BY <3>1, <3>2
    <2>3. \A a \in issued : /\ After(a).job = a.job /\ After(a).generation = a.generation
                            /\ LeaseOf(a) # l => After(a).left = a.left
                            /\ LeaseOf(a) = l => After(a).left = row.lease
      BY <1>3, <2>2, AssignmentFields
    <2> HIDE DEF row, After
    <2>4. /\ jobs'[l.job] = row
          /\ \A j \in Jobs : j # l.job => jobs'[j] = jobs[j]
      BY <1>1, <2>1 DEF TypeOK
    <2>5. SUFFICES ASSUME NEW a \in issued, a.generation = jobs'[a.job].generation
                   PROVE  jobs'[a.job].lease <= After(a).left
      BY <2>1, <2>3 DEF LeaseHonoured
    <2>6. CASE a.job = l.job
      BY <1>4, <2>2, <2>3, <2>4, <2>5, <2>6
    <2>7. CASE a.job # l.job
      <3>1. LeaseOf(a) # l
        BY <2>7 DEF LeaseOf
      <3>2. jobs'[a.job] = jobs[a.job] /\ After(a).left = a.left
        BY <1>3, <2>3, <2>4, <2>7, <3>1
      <3>3. QED
        BY <2>5, <3>2 DEF LeaseHonoured
    <2>8. QED
      BY <2>6, <2>7
  <1>6. CASE Complete(p)
    <2> DEFINE m == tx[p].manifest
               After(a) == IF LeaseOf(a) = l THEN Finished(a, m) ELSE a
    <2>1. /\ jobs' = [jobs EXCEPT ![l.job] = CompletedRow(jobs[l.job], m)]
          /\ issued' = {After(a) : a \in issued} /\ m \in Manifests
      BY <1>6, TransactionTypes DEF Complete
    <2>2. \A a \in issued : /\ After(a).job = a.job /\ After(a).generation = a.generation
                            /\ After(a).left = a.left /\ a.left \in Nat /\ 0 <= a.left
      BY <1>3, <2>1, AssignmentFields, ConstantsAssumption DEF Assignment
    <2> HIDE DEF After
    <2>3. /\ jobs'[l.job].lease = 0
          /\ \A j \in Jobs : j # l.job => jobs'[j] = jobs[j]
      BY <1>1, <2>1, RowFields DEF TypeOK
    <2>4. SUFFICES ASSUME NEW a \in issued, a.generation = jobs'[a.job].generation
                   PROVE  jobs'[a.job].lease <= a.left
      BY <2>1, <2>2 DEF LeaseHonoured
    <2>5. QED
      BY <1>3, <2>2, <2>3, <2>4 DEF LeaseHonoured
  <1>7. QED
    BY <1>5, <1>6

LEMMA HonouredNext == ASSUME TypeOK, IInv, LeaseHonoured, [Next]_vars PROVE LeaseHonoured'
  <1>1. \A a \in issued : a \in Assignment /\ a.job \in Jobs /\ a.left \in Nat /\ 0 <= a.left
    BY ConstantsAssumption DEF TypeOK, Assignment
  <1>2. \A j \in Jobs : jobs[j] \in Row /\ jobs[j].generation \in Nat /\ jobs[j].lease \in Nat
    BY ConstantsAssumption DEF TypeOK, Row
  <1>3. CASE UNCHANGED <<jobs, issued>>
    BY <1>3 DEF LeaseHonoured
  <1>4. CASE Tick
    <2>1. /\ jobs' = [j \in Jobs |-> AgedRow(jobs[j])]
          /\ issued' = {Aged(a) : a \in issued}
      BY <1>4 DEF Tick
    <2>2. \A a \in issued : /\ Aged(a).job = a.job /\ Aged(a).generation = a.generation
                            /\ Aged(a).left = Less(a.left)
                            /\ jobs'[a.job].generation = jobs[a.job].generation
                            /\ jobs'[a.job].lease = Less(jobs[a.job].lease)
      BY <1>1, <1>2, <2>1, AssignmentFields, RowFields
    <2>3. \A m, n \in Nat : m <= n => Less(m) <= Less(n)
      BY DEF Less
    <2>4. SUFFICES ASSUME NEW a \in issued, a.generation = jobs[a.job].generation
                   PROVE  Less(jobs[a.job].lease) <= Less(a.left)
      BY <2>1, <2>2 DEF LeaseHonoured
    <2>5. QED
      BY <1>1, <1>2, <2>3, <2>4 DEF LeaseHonoured
  <1>5. ASSUME NEW p \in Procs, NEW j \in Jobs, Claim(p, j) PROVE LeaseHonoured'
    <2> DEFINE n == NewAssignment(j)
    <2>1. /\ issued' = issued \cup {n} /\ n.job = j /\ n.left = LeaseTTL
          /\ jobs'[j].lease = LeaseTTL /\ jobs'[j].generation = jobs[j].generation + 1
      BY <1>2, <1>5, RowFields DEF Claim, NewAssignment
    <2>2. \A k \in Jobs : k # j =>
             /\ jobs'[k].generation = jobs[k].generation
             /\ jobs'[k].lease = jobs[k].lease \/ jobs'[k].lease = 0
      BY <1>2, <1>5, RowFields DEF Claim
    <2>3. \A a \in issued : a.generation <= jobs[a.job].generation /\ a.generation \in Nat
      BY DEF IInv, DbInv, Numbered, TypeOK, Assignment
    <2> HIDE DEF n
    <2>4. ASSUME NEW a \in issued, a.generation = jobs'[a.job].generation
          PROVE  jobs'[a.job].lease <= a.left
      <3>1. a.job # j
        BY <1>2, <2>1, <2>3, <2>4
      <3>2. QED
        BY <1>1, <2>2, <2>4, <3>1 DEF LeaseHonoured
    <2>5. LeaseTTL <= LeaseTTL
      BY ConstantsAssumption
    <2>6. QED
      BY <2>1, <2>4, <2>5 DEF LeaseHonoured
  <1>6. ASSUME NEW p \in Procs, ClaimNone(p) PROVE LeaseHonoured'
    <2>1. issued' = issued
      BY <1>6 DEF ClaimNone
    <2>2. \A k \in Jobs : /\ jobs'[k].generation = jobs[k].generation
                          /\ jobs'[k].lease = jobs[k].lease \/ jobs'[k].lease = 0
      BY <1>2, <1>6, RowFields DEF ClaimNone
    <2>3. QED
      BY <1>1, <2>1, <2>2, HonouredStill
  <1>7. ASSUME NEW p \in Procs, AcceptNew(p) PROVE LeaseHonoured'
    <2> DEFINE e == tx[p].event
    <2>1. e \in Events /\ e.job \in Jobs /\ ~DifferentInput(e) /\ issued' = issued
            /\ jobs' = [jobs EXCEPT ![e.job] = Revised(e)]
      BY <1>7, TransactionTypes DEF AcceptNew
    <2>2. /\ Revised(e).generation = jobs[e.job].generation
          /\ Revised(e).lease = jobs[e.job].lease
      BY <2>1, RevisedFields DEF IInv
    <2>3. \A k \in Jobs : /\ jobs'[k].generation = jobs[k].generation
                          /\ jobs'[k].lease = jobs[k].lease
      BY <2>1, <2>2 DEF TypeOK
    <2>4. QED
      BY <1>1, <2>1, <2>3, HonouredStill
  <1>8. \/ UNCHANGED <<jobs, issued>> \/ Tick
        \/ \E p \in Procs : \/ AcceptNew(p) \/ Renew(p) \/ Complete(p) \/ ClaimNone(p)
                            \/ \E j \in Jobs : Claim(p, j)
    BY DEF Next, Decide, ClaimCall, BeginAccept, BeginRenew, BeginComplete, Begin,
           JournalCompletionReplay, Rollback, AcceptReplay, AcceptConflict,
           CompleteReplay, Stale, vars
  <1>9. QED
    BY <1>3, <1>4, <1>5, <1>6, <1>7, <1>8, HonouredWhileLive

\* The server never holds a job longer than the worker believes it has it.
THEOREM LeasesAreHonoured == Spec => []LeaseHonoured
  <1>1. Init => LeaseHonoured
    BY DEF Init, LeaseHonoured
  <1>2. TypeOK /\ IInv /\ LeaseHonoured /\ [Next]_vars => LeaseHonoured'
    BY HonouredNext
  <1>3. QED
    BY <1>1, <1>2, Invariance, PTL DEF Spec

-----------------------------------------------------------------------------
(* Counting attempts, and what stored events say. *)

(***************************************************************************)
(* attempts_in_revision counts exactly the assignments of the row's current *)
(* revision.  AttemptBudget speaks of assignments alone; this is what ties  *)
(* the column that claim tests to them.                                     *)
(***************************************************************************)
Leases == {LeaseOf(a) : a \in issued}

Current(j) == {l \in Leases : l.job = j /\ l.revision = jobs[j].revision}

BudgetInv == \A j \in Jobs :
    /\ IsFiniteSet(Current(j))
    /\ Cardinality(Current(j)) = jobs[j].attempts
    /\ jobs[j].state = "blocked" => jobs[j].attempts = MaxAttempts /\ jobs[j].lease = 0

\* Which steps change the count of attempts of a row, and its state.
LEMMA RowAttempts ==
  ASSUME NEW row \in Row
  PROVE  /\ \A r \in {AgedRow(row), RenewedRow(row), BlockRow(row)}
                     \cup {CompletedRow(row, m) : m \in Manifests} :
               r.attempts = row.attempts
         /\ ClaimRow(row).attempts = row.attempts + 1
         /\ NewRevision(row).attempts = 0
         /\ NewRevision(row).state = Reopened(row.state)
         /\ NewRevision(row).revision = row.revision + 1
  BY DEF Row, AgedRow, RenewedRow, BlockRow, CompletedRow, ClaimRow, NewRevision

\* Time, renewals and completions do not change which leases were issued.
LEMMA LeasesKept ==
  ASSUME TypeOK, Tick \/ (\E p \in Procs : Renew(p) \/ Complete(p)) \/ issued' = issued
  PROVE  Leases' = Leases
  <1>1. CASE Tick
    <2>1. \A a \in issued : LeaseOf(Aged(a)) = LeaseOf(a)
      BY AssignmentFields DEF TypeOK, LeaseOf
    <2>2. issued' = {Aged(a) : a \in issued}
      BY <1>1 DEF Tick
    <2>3. QED
      BY <2>1, <2>2 DEF Leases
  <1>2. ASSUME NEW p \in Procs, Renew(p) PROVE Leases' = Leases
    <2> DEFINE row == RenewedRow(jobs[tx[p].of.job])
               After(a) == IF LeaseOf(a) = tx[p].of THEN Renewed(a, row.lease) ELSE a
    <2>1. tx[p].of.job \in Jobs
      BY <1>2, TransactionTypes DEF Renew
    <2>2. row \in Row
      BY <2>1, RowTypes DEF TypeOK
    <2>3. row.lease \in Nat
      BY <2>2, ConstantsAssumption DEF Row
    <2>4. \A a \in issued : LeaseOf(After(a)) = LeaseOf(a)
      BY <2>3, AssignmentFields DEF TypeOK, LeaseOf
    <2>5. issued' = {After(a) : a \in issued}
      BY <1>2 DEF Renew
    <2>6. QED
      BY <2>4, <2>5 DEF Leases
  <1>3. ASSUME NEW p \in Procs, Complete(p) PROVE Leases' = Leases
    <2> DEFINE m == tx[p].manifest
               After(a) == IF LeaseOf(a) = tx[p].of THEN Finished(a, m) ELSE a
    <2>1. m \in Manifests
      BY <1>3, TransactionTypes DEF Complete
    <2>2. \A a \in issued : LeaseOf(After(a)) = LeaseOf(a)
      BY <2>1, AssignmentFields DEF TypeOK, LeaseOf
    <2>3. issued' = {After(a) : a \in issued}
      BY <1>3 DEF Complete
    <2>4. QED
      BY <2>2, <2>3 DEF Leases
  <1>4. QED
    BY <1>1, <1>2, <1>3 DEF Leases

\* No job has assignments, and none is counted, at first.
LEMMA InitBudget == Init => BudgetInv
  BY FS_EmptySet DEF Init, BudgetInv, Current, Leases, NoJob

\* One case per step that writes to a row: only a claim adds to a revision's
\* count, and only a new revision starts it again.
LEMMA BudgetNext == ASSUME TypeOK, IInv, BudgetInv, [Next]_vars PROVE BudgetInv'
  <1>1. CASE UNCHANGED <<jobs, issued>>
    BY <1>1 DEF BudgetInv, Current, Leases
  <1>2. CASE Tick
    <2>1. Leases' = Leases
      BY <1>2, LeasesKept
    <2>2. jobs' = [j \in Jobs |-> AgedRow(jobs[j])]
      BY <1>2 DEF Tick
    <2>3. \A j \in Jobs : /\ jobs'[j].revision = jobs[j].revision
                          /\ jobs'[j].attempts = jobs[j].attempts
                          /\ jobs'[j].state = jobs[j].state
                          /\ jobs'[j].lease = Less(jobs[j].lease)
      BY <2>2, RowFields, RowAttempts DEF TypeOK
    <2>4. \A j \in Jobs : Current(j)' = Current(j)
      BY <2>1, <2>3 DEF Current
    <2>5. QED
      BY <2>3, <2>4 DEF BudgetInv, Less
  <1>3. ASSUME NEW p \in Procs, Renew(p) \/ Complete(p) PROVE BudgetInv'
    <2> DEFINE l == tx[p].of
               m == tx[p].manifest
    <2>1. l.job \in Jobs /\ jobs[l.job] \in Row
      BY <1>3, TransactionTypes DEF Renew, Complete, TypeOK
    <2>2. jobs[l.job].state = "running" /\ \A j \in Jobs \ {l.job} : jobs'[j] = jobs[j]
      BY <1>3, <2>1 DEF Renew, Complete, Live, TypeOK
    <2>6. Leases' = Leases
      BY <1>3, LeasesKept
    <2>3. CASE Renew(p)
      <3>1. jobs'[l.job] = RenewedRow(jobs[l.job])
        BY <2>1, <2>3 DEF Renew, TypeOK
      <3>2. jobs'[l.job].state = "running"
        BY <2>1, <2>2, <3>1, RowFields
      <3>3. \A j \in Jobs : /\ jobs'[j].attempts = jobs[j].attempts
                            /\ jobs'[j].revision = jobs[j].revision
        BY <2>1, <2>2, <3>1, RowFields, RowAttempts
      <3>4. \A j \in Jobs : Current(j)' = Current(j)
        BY <2>6, <3>3 DEF Current
      <3>5. \A j \in Jobs : jobs'[j].state = "blocked" => jobs'[j] = jobs[j]
        BY <2>2, <3>2
      <3>6. QED
        BY <3>3, <3>4, <3>5 DEF BudgetInv
    <2>4. CASE Complete(p)
      <3>1. jobs'[l.job] = CompletedRow(jobs[l.job], m) /\ m \in Manifests
        BY <2>1, <2>4, TransactionTypes DEF Complete, TypeOK
      <3>2. jobs'[l.job].state = "completed"
        BY <2>1, <3>1, RowFields
      <3>3. \A j \in Jobs : /\ jobs'[j].attempts = jobs[j].attempts
                            /\ jobs'[j].revision = jobs[j].revision
        BY <2>1, <2>2, <3>1, RowFields, RowAttempts
      <3>4. \A j \in Jobs : Current(j)' = Current(j)
        BY <2>6, <3>3 DEF Current
      <3>5. \A j \in Jobs : jobs'[j].state = "blocked" => jobs'[j] = jobs[j]
        BY <2>2, <3>2
      <3>6. QED
        BY <3>3, <3>4, <3>5 DEF BudgetInv
    <2>5. QED
      BY <1>3, <2>3, <2>4
  <1>4. ASSUME NEW p \in Procs, AcceptNew(p) PROVE BudgetInv'
    <2>0. PICK e \in Events, j \in Jobs : e = tx[p].event /\ j = e.job
      BY <1>4, TransactionTypes DEF AcceptNew
    <2> DEFINE new == Revised(e)
    <2>1. e \in Events /\ j \in Jobs /\ jobs[j] \in Row
      BY DEF TypeOK
    <2>2. /\ ~DifferentInput(e) /\ Leases' = Leases
          /\ jobs'[j] = new /\ \A k \in Jobs \ {j} : jobs'[k] = jobs[k]
      BY <1>4, <2>0, <2>1, LeasesKept DEF AcceptNew, TypeOK
    <2>3. \A k \in Jobs \ {j} : Current(k)' = Current(k)
      BY <2>2 DEF Current
    <2>4. CASE new = jobs[j]
      BY <2>2, <2>3, <2>4 DEF BudgetInv, Current
    <2>5. CASE new # jobs[j]
      <3> DEFINE row == IF Exists(j) THEN jobs[j] ELSE FirstRow(e)
      <3>1. new = NewRevision(row) /\ new.revision = jobs[j].revision + 1
        <4>1. new.revision = jobs[j].revision + 1
          BY <2>0, <2>1, <2>2, <2>5, RevisedFields DEF IInv
        <4>2. new = IF Wanted(e) \subseteq destinations[j] THEN row ELSE NewRevision(row)
          BY <2>0 DEF Revised
        <4>3. ~(Wanted(e) \subseteq destinations[j])
          <5>1. CASE Exists(j)
            BY <2>5, <4>2, <5>1
          <5>2. CASE ~Exists(j)
            BY <2>0, <2>1, <5>2 DEF IInv, DbInv, AbsentRow, Wanted
          <5>3. QED
            BY <5>1, <5>2
        <4>4. QED
          BY <4>1, <4>2, <4>3
      <3>2. new.attempts = 0 /\ new.state # "blocked"
        <4>1. row \in Row
          BY <2>1, FirstRowType
        <4> HIDE DEF row, new
        <4>3. NewRevision(row).attempts = 0 /\ NewRevision(row).state = Reopened(row.state)
          BY <4>1, RowAttempts
        <4>2. QED
          BY <3>1, <4>3 DEF Reopened
      <3>3. Current(j)' = {}
        <4>4. Current(j)' = {k \in Leases : k.job = j /\ k.revision = new.revision}
          BY <2>2 DEF Current
        <4> HIDE DEF new, row
        <4> SUFFICES ASSUME NEW a \in issued, a.job = j, a.revision = new.revision
                     PROVE  FALSE
          BY <4>4 DEF Leases, LeaseOf
        <4>1. a.revision <= jobs[j].revision
          BY DEF IInv, DbInv, Numbered
        <4>2. jobs[j].revision \in Nat
          BY <2>1 DEF Row
        <4>3. QED
          BY <3>1, <4>1, <4>2
      <3>4. QED
        BY <2>2, <2>3, <3>2, <3>3, FS_EmptySet DEF BudgetInv
    <2>6. QED
      BY <2>4, <2>5
  <1>5. ASSUME NEW p \in Procs, NEW j \in Jobs, Claim(p, j) PROVE BudgetInv'
    <2> DEFINE n == NewAssignment(j)
    <2>1. /\ j \in Claimable /\ issued' = issued \cup {n}
          /\ jobs' = [k \in Jobs |-> IF k = j THEN ClaimRow(jobs[k])
                                     ELSE IF k \in Blocking THEN BlockRow(jobs[k])
                                     ELSE jobs[k]]
      BY <1>5 DEF Claim, Oldest
    <2>2. \A k \in Blocking : jobs[k].attempts = MaxAttempts /\ jobs[k].lease = 0
      BY ConstantsAssumption DEF Blocking, Exhausted, Available, TypeOK, Row
    <2>3. \A k \in Jobs : jobs'[k].revision = jobs[k].revision
      BY <2>1, RowFields DEF TypeOK
    <2>4. Leases' = Leases \cup {LeaseOf(n)}
      BY <2>1 DEF Leases
    <2>5. /\ LeaseOf(n).job = j /\ LeaseOf(n).revision = jobs[j].revision
          /\ LeaseOf(n).generation = jobs[j].generation + 1
      BY DEF LeaseOf, NewAssignment
    <2>6. LeaseOf(n) \notin Leases
      <3> SUFFICES ASSUME NEW a \in issued, LeaseOf(a) = LeaseOf(n) PROVE FALSE
        BY DEF Leases
      <3>1. a.job = j /\ a.generation = jobs[j].generation + 1
        BY <2>5 DEF LeaseOf
      <3>2. a.generation <= jobs[j].generation /\ jobs[j].generation \in Nat
        BY <3>1 DEF IInv, DbInv, Numbered, TypeOK, Row
      <3>3. QED
        BY <3>1, <3>2
    <2>7. Current(j)' = Current(j) \cup {LeaseOf(n)} /\ LeaseOf(n) \notin Current(j)
      BY <2>3, <2>4, <2>5, <2>6 DEF Current
    <2>8. \A k \in Jobs \ {j} : Current(k)' = Current(k)
      BY <2>3, <2>4, <2>5 DEF Current
    <2>9. jobs'[j].attempts = jobs[j].attempts + 1 /\ jobs'[j].state = "running"
      BY <2>1, RowFields, RowAttempts DEF TypeOK
    <2>10. IsFiniteSet(Current(j)') /\ Cardinality(Current(j)') = jobs'[j].attempts
      BY <2>7, <2>9, FS_AddElement DEF BudgetInv
    <2>11. \A k \in Jobs \ {j} :
              /\ jobs'[k].attempts = jobs[k].attempts
              /\ jobs'[k].state = "blocked" =>
                    jobs'[k].attempts = MaxAttempts /\ jobs'[k].lease = 0
      BY <2>1, <2>2, RowFields, RowAttempts DEF TypeOK, BudgetInv
    <2>12. QED
      BY <2>8, <2>9, <2>10, <2>11 DEF BudgetInv
  <1>6. ASSUME NEW p \in Procs, ClaimNone(p) PROVE BudgetInv'
    <2>1. /\ Leases' = Leases
          /\ jobs' = [k \in Jobs |-> IF k \in Blocking THEN BlockRow(jobs[k]) ELSE jobs[k]]
      BY <1>6, LeasesKept DEF ClaimNone
    <2>2. \A k \in Blocking : jobs[k].attempts = MaxAttempts /\ jobs[k].lease = 0
      BY ConstantsAssumption DEF Blocking, Exhausted, Available, TypeOK, Row
    <2>3. \A k \in Jobs : /\ jobs'[k].revision = jobs[k].revision
                          /\ jobs'[k].attempts = jobs[k].attempts
                          /\ jobs'[k].state = "blocked" =>
                                jobs'[k].attempts = MaxAttempts /\ jobs'[k].lease = 0
      BY <2>1, <2>2, RowFields, RowAttempts DEF TypeOK, BudgetInv
    <2>4. QED
      BY <2>1, <2>3 DEF BudgetInv, Current
  <1>7. \/ UNCHANGED <<jobs, issued>> \/ Tick
        \/ \E p \in Procs : \/ AcceptNew(p) \/ Renew(p) \/ Complete(p) \/ ClaimNone(p)
                            \/ \E j \in Jobs : Claim(p, j)
    BY DEF Next, Decide, ClaimCall, BeginAccept, BeginRenew, BeginComplete, Begin,
           JournalCompletionReplay, Rollback, AcceptReplay, AcceptConflict,
           CompleteReplay, Stale, vars
  <1>8. QED
    BY <1>1, <1>2, <1>3, <1>4, <1>5, <1>6, <1>7

\* The count bounds what was handed out, and a blocked job has used all of it.
LEMMA BudgetConsequence == ASSUME TypeOK, IInv, BudgetInv PROVE AttemptBudget
  <1> SUFFICES ASSUME NEW j \in Jobs
               PROVE  /\ Cardinality(Current(j)) <= MaxAttempts
                      /\ jobs[j].state = "blocked" =>
                            /\ Cardinality(Current(j)) = MaxAttempts
                            /\ \A a \in issued : LeaseOf(a) \in Current(j) =>
                                  a.left = 0 /\ a.done = NoManifest
    BY DEF AttemptBudget, Current, Leases
  <1>1. Cardinality(Current(j)) = jobs[j].attempts /\ jobs[j].attempts <= MaxAttempts
    BY ConstantsAssumption DEF BudgetInv, TypeOK, Row
  <1>2. ASSUME jobs[j].state = "blocked", NEW a \in issued, LeaseOf(a) \in Current(j)
        PROVE  a.left = 0 /\ a.done = NoManifest
    <2>1. a.job = j /\ a.revision = jobs[j].revision /\ jobs[j].lease = 0
      BY <1>2 DEF Current, LeaseOf, BudgetInv
    <2>2. a.done = NoManifest
      BY <1>2, <2>1 DEF IInv, DbInv, DoneIsRecorded
    <2>3. a.left \in Nat
      BY ConstantsAssumption DEF TypeOK, Assignment
    <2>4. QED
      BY <2>1, <2>2, <2>3 DEF IInv, DbInv, LeaseCovered
  <1>3. QED
    BY <1>1, <1>2 DEF BudgetInv

\* A revision is handed out MaxAttempts times at most, and only a revision whose
\* assignments all ran out unfinished is blocked.
THEOREM BudgetHolds == Spec => []AttemptBudget
  <1>1. Init => BudgetInv
    BY InitBudget
  <1>2. TypeOK /\ IInv /\ BudgetInv /\ [Next]_vars => BudgetInv'
    BY BudgetNext
  <1>3. TypeOK /\ IInv /\ BudgetInv => AttemptBudget
    BY BudgetConsequence
  <1>4. QED
    BY <1>1, <1>2, <1>3, Invariance, PTL DEF Spec
-----------------------------------------------------------------------------
(***************************************************************************)
(* The stored events.  Only AcceptNew writes them, and it writes them       *)
(* together with the job's destinations.                                    *)
(***************************************************************************)
StoredInv == AcceptIsAtomic /\ \A j \in Jobs : IsFiniteSet(destinations[j])

\* An event names finitely many objects.
LEMMA WantedIsFinite == ASSUME NEW e \in Events PROVE IsFiniteSet(Wanted(e))
  <1>1. e.replicas = {} \/ \E r \in Replicas : e.replicas = {r}
    BY ConstantsAssumption DEF EventRecord
  <1>2. IsFiniteSet(e.replicas) /\ IsFiniteSet({e.job})
    BY <1>1, FS_EmptySet, FS_Singleton
  <1>3. QED
    BY <1>2, FS_Union DEF Wanted

\* At first there are no events, no destinations and no answers.
LEMMA InitEvents == Init => StoredInv /\ SharedInput
  <1> SUFFICES ASSUME Init PROVE StoredInv /\ SharedInput
    OBVIOUS
  <1>1. inbox = {} /\ acked = {} /\ \A j \in Jobs : destinations[j] = {}
    BY DEF Init
  <1>2. \A j \in Jobs : IsFiniteSet(destinations[j]) /\ Cardinality(destinations[j]) <= MaxDestinations
    BY <1>1, ConstantsAssumption, FS_EmptySet
  <1>3. QED
    BY <1>1, <1>2 DEF StoredInv, AcceptIsAtomic, SharedInput

\* Each step writes an event with all of its destinations or not at all.
LEMMA StoredNext == ASSUME TypeOK, StoredInv, [Next]_vars PROVE StoredInv'
  <1>1. CASE /\ UNCHANGED <<destinations, inbox>>
             /\ acked' = acked \/ \E p \in Procs : AcceptReplay(p)
    <2>1. acked' \subseteq inbox
      BY <1>1 DEF StoredInv, AcceptIsAtomic, AcceptReplay, Acknowledge
    <2>2. QED
      BY <1>1, <2>1 DEF StoredInv, AcceptIsAtomic
  <1>2. ASSUME NEW p \in Procs, AcceptNew(p) PROVE StoredInv'
    <2>1. PICK e \in Events : e = tx[p].event /\ e.job \in Jobs
      BY <1>2, TransactionTypes DEF AcceptNew
    <2> DEFINE all == destinations[e.job] \cup Wanted(e)
    <2>2. /\ ~TooManyDestinations(e)
          /\ destinations' = [destinations EXCEPT ![e.job] = all]
          /\ inbox' = inbox \cup {e}
          /\ acked' \subseteq acked \cup {e}
      BY <1>2, <2>1 DEF AcceptNew, Acknowledge
    <2>3. IsFiniteSet(all) /\ Cardinality(all) \in Nat
      BY <2>1, WantedIsFinite, FS_Union, FS_CardinalityType DEF StoredInv
    <2>4. Cardinality(all) <= MaxDestinations
      BY <2>2, <2>3, ConstantsAssumption DEF TooManyDestinations
    <2>5. \A j \in Jobs : destinations'[j] = IF j = e.job THEN all ELSE destinations[j]
      BY <2>2 DEF TypeOK
    <2> HIDE DEF all
    <2>6. \A j \in Jobs : /\ IsFiniteSet(destinations'[j])
                          /\ Cardinality(destinations'[j]) <= MaxDestinations
      BY <2>3, <2>4, <2>5 DEF StoredInv, AcceptIsAtomic
    <2>7. ASSUME NEW j \in Jobs
          PROVE  destinations'[j] = UNION {Wanted(f) : f \in {g \in inbox' : g.job = j}}
      <3>1. destinations[j] = UNION {Wanted(f) : f \in {g \in inbox : g.job = j}}
        BY DEF StoredInv, AcceptIsAtomic
      <3>2. CASE j = e.job
        <4>1. {g \in inbox' : g.job = j} = {g \in inbox : g.job = j} \cup {e}
          BY <2>2, <3>2
        <4>2. destinations'[j] = destinations[j] \cup Wanted(e)
          BY <2>5, <3>2 DEF all
        <4>3. QED
          BY <3>1, <4>1, <4>2
      <3>3. CASE j # e.job
        <4>1. {g \in inbox' : g.job = j} = {g \in inbox : g.job = j}
          BY <2>2, <3>3
        <4>2. QED
          BY <2>5, <3>1, <3>3, <4>1
      <3>4. QED
        BY <3>2, <3>3
    <2>8. acked' \subseteq inbox'
      BY <2>2 DEF StoredInv, AcceptIsAtomic
    <2>9. AcceptIsAtomic'
      BY <2>6, <2>7, <2>8 DEF AcceptIsAtomic, Wanted
    <2>10. QED
      BY <2>6, <2>9 DEF StoredInv
  <1>3. \/ /\ UNCHANGED <<destinations, inbox>>
           /\ acked' = acked \/ \E p \in Procs : AcceptReplay(p)
        \/ \E p \in Procs : AcceptNew(p)
    BY DEF Next, Decide, ClaimCall, BeginAccept, BeginRenew, BeginComplete, Begin,
           JournalCompletionReplay, Rollback, AcceptReplay, AcceptConflict,
           CompleteReplay, Stale, Renew, Complete, Claim, ClaimNone, Tick, vars
  <1>4. QED
    BY <1>1, <1>2, <1>3

\* The agreement on the size follows from the job's row; that no two payloads
\* share an identity is what AcceptNew's test keeps.
LEMMA SharedNext == ASSUME TypeOK, SharedInput, [Next]_vars, TypeOK', IInv' PROVE SharedInput'
  <1>1. \A e, f \in inbox' : e.job = f.job => e.size = f.size /\ jobs'[e.job].size = e.size
    BY DEF IInv, DbInv, EventsStored
  <1>2. \A e, f \in inbox' : SameEventId(e, f) => e = f
    <2>1. CASE inbox' = inbox
      BY <2>1 DEF SharedInput
    <2>2. ASSUME NEW p \in Procs, AcceptNew(p)
          PROVE  \A e, f \in inbox' : SameEventId(e, f) => e = f
      <3>1. PICK e \in Events : /\ inbox' = inbox \cup {e}
                                /\ ~\E f \in inbox : SameEventId(e, f)
        BY <2>2, TransactionTypes DEF AcceptNew
      <3>2. QED
        BY <3>1 DEF SharedInput, SameEventId
    <2>3. inbox' = inbox \/ \E p \in Procs : AcceptNew(p)
      BY DEF Next, Decide, ClaimCall, BeginAccept, BeginRenew, BeginComplete, Begin,
             JournalCompletionReplay, Rollback, AcceptReplay, AcceptConflict,
             CompleteReplay, Stale, Renew, Complete, Claim, ClaimNone, Tick, vars
    <2>4. QED
      BY <2>1, <2>2, <2>3
  <1>3. QED
    BY <1>1, <1>2 DEF SharedInput, SameEventId

\* A refused event leaves nothing behind, and an acknowledged one is stored.
THEOREM AcceptAtomic == Spec => []AcceptIsAtomic
  <1>1. Init => StoredInv
    BY InitEvents
  <1>2. TypeOK /\ StoredInv /\ [Next]_vars => StoredInv'
    BY StoredNext
  <1>3. StoredInv => AcceptIsAtomic
    BY DEF StoredInv
  <1>4. QED
    BY <1>1, <1>2, <1>3, TypeCorrect, PTL DEF Spec

\* The events of a job agree on its input, and an identity has one payload.
THEOREM InputShared == Spec => []SharedInput
  <1>1. Init => SharedInput
    BY InitEvents
  <1>2. TypeOK /\ SharedInput /\ [Next]_vars /\ TypeOK' /\ IInv' => SharedInput'
    BY SharedNext
  <1>3. QED
    BY <1>1, <1>2, Invariance, PTL DEF Spec

-----------------------------------------------------------------------------
CompletionKept ==
    \A j \in Jobs :
        jobs[j].state = "completed" /\ jobs[j]' # jobs[j] =>
            \/ jobs[j].revision' > jobs[j].revision
            \/ /\ jobs[j].state' = "completed"
               /\ jobs[j].manifest' = jobs[j].manifest

\* A completed row is changed by time, and by an event that gives it a new
\* revision; claims, renewals and completions all ask for another state.
LEMMA CompletedRowKept == ASSUME TypeOK, IInv, [Next]_vars PROVE CompletionKept
  <1> SUFFICES ASSUME NEW j \in Jobs, jobs[j].state = "completed", jobs'[j] # jobs[j]
               PROVE  \/ jobs'[j].revision > jobs[j].revision
                      \/ /\ jobs'[j].state = "completed"
                         /\ jobs'[j].manifest = jobs[j].manifest
    BY DEF CompletionKept
  <1>1. jobs[j] \in Row
    BY DEF TypeOK
  <1>2. CASE Tick
    <2>1. jobs'[j] = AgedRow(jobs[j])
      BY <1>2 DEF Tick
    <2>2. QED
      BY <1>1, <2>1, RowFields
  <1>3. ASSUME NEW p \in Procs, Renew(p) \/ Complete(p) PROVE FALSE
    <2>1. tx[p].of.job \in Jobs /\ jobs[tx[p].of.job].state = "running"
      BY <1>3, TransactionTypes DEF Renew, Complete, Live
    <2>2. \A k \in Jobs : k # tx[p].of.job => jobs'[k] = jobs[k]
      BY <1>3 DEF Renew, Complete, TypeOK
    <2>3. QED
      BY <2>1, <2>2
  <1>4. ASSUME NEW p \in Procs, AcceptNew(p) PROVE jobs'[j].revision > jobs[j].revision
    <2>1. PICK e \in Events : /\ jobs' = [jobs EXCEPT ![e.job] = Revised(e)]
                              /\ ~DifferentInput(e)
      BY <1>4, TransactionTypes DEF AcceptNew
    <2>2. j = e.job /\ jobs'[j] = Revised(e)
      BY <2>1 DEF TypeOK
    <2>3. Revised(e).revision = jobs[j].revision + 1
      BY <2>1, <2>2, RevisedFields DEF IInv
    <2>4. QED
      BY <1>1, <2>2, <2>3 DEF Row
  <1>5. ASSUME NEW p \in Procs, ClaimNone(p) \/ \E k \in Jobs : Claim(p, k) PROVE FALSE
    <2>1. j \notin Blocking /\ j \notin Claimable
      BY DEF Blocking, Exhausted, Claimable, Available
    <2>2. QED
      BY <1>5, <2>1 DEF Claim, ClaimNone, Oldest
  <1>6. \/ Tick
        \/ \E p \in Procs : \/ AcceptNew(p) \/ Renew(p) \/ Complete(p) \/ ClaimNone(p)
                            \/ \E k \in Jobs : Claim(p, k)
    BY DEF Next, Decide, ClaimCall, BeginAccept, BeginRenew, BeginComplete, Begin,
           JournalCompletionReplay, Rollback, AcceptReplay, AcceptConflict,
           CompleteReplay, Stale, vars
  <1>7. QED
    BY <1>2, <1>3, <1>4, <1>5, <1>6

\* What was completed stays completed, until an event brings a new revision.
THEOREM CompletionStable == Spec => CompletionIsStable
  <1>1. TypeOK /\ IInv /\ [Next]_vars => [CompletionKept]_vars
    BY CompletedRowKept
  <1>2. QED
    BY <1>1, Invariance, PTL DEF Spec, CompletionIsStable, CompletionKept
=============================================================================
