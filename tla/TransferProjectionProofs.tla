----------------------- MODULE TransferProjectionProofs -----------------------
(***************************************************************************)
(* Proofs about TransferProjection, for every tree of blocks and number of *)
(* workers, reorgs, redeliveries and aborts.                               *)
(***************************************************************************)
EXTENDS TransferProjection, TLAPS

\* Nothing happened yet.
LEMMA InitInv == Init => TransferInv
  <1> SUFFICES ASSUME Init PROVE TransferInv
    OBVIOUS
  <1> USE TransferAssumption, BlockAssumption DEF Init
  <1>1. TypeOK
    BY DEF TypeOK, BlockStatus, FactStatus, Balances, Nothing, NoBlock
  <1>2. CanonicalRows(blockRow) = {}
    BY DEF CanonicalRows
  <1>3. PublishedInv /\ PendingInv /\ OrphanedInv
    BY <1>2 DEF PublishedInv, PendingInv, OrphanedInv, Inserted
  <1> QED BY <1>1, <1>3 DEF TransferInv

\* A block enters with no transfer of its own, so none can be orphaned.
LEMMA IndexBlockInv == ASSUME TransferInv, IndexBlock PROVE TransferInv'
  <1> USE TransferAssumption, BlockAssumption
  <1>1. PICK b \in Blocks :
            /\ blockRow[b] = "absent"
            /\ blockRow' = InsertBlocks(blockRow, {b}, "unfinal")
            /\ queue' = queue \cup {b}
            /\ published' = published \cup {b}
    BY DEF IndexBlock
  <1>2. UNCHANGED <<transferRow, balance, indexer, range, pc, job, own, sum, reorgs, redeliveries, aborts>>
        /\ indexer = "index"
    BY DEF IndexBlock, working, bounds
  <1>3. blockRow \in [Blocks -> BlockStatus] /\ blockRow' \in [Blocks -> BlockStatus]
    BY <1>1 DEF TransferInv, TypeOK, InsertBlocks, BlockStatus
  <1>4. CanonicalRows(blockRow') = CanonicalRows(blockRow) \cup {b}
        /\ \A d \in Blocks : blockRow'[d] # "absent" <=> blockRow[d] # "absent" \/ d = b
    BY <1>1, <1>3 DEF InsertBlocks, CanonicalRows
  <1>5. b \notin published
    BY <1>1 DEF TransferInv, PublishedInv
  <1>6. TypeOK'
    BY <1>1, <1>2, <1>3 DEF TransferInv, TypeOK
  <1>7. PublishedInv'
    BY <1>1, <1>2, <1>4 DEF TransferInv, PublishedInv
  <1>8. PendingInv'
    BY <1>1, <1>2 DEF TransferInv, PendingInv
  <1>9. OrphanedInv'
    <2>1. transferRow[b] = "absent" /\ \A w \in Workers : own[w] # "absent" => job[w] # b
      BY <1>5 DEF TransferInv, PublishedInv, PendingInv, Inserted
    <2> QED BY <1>2, <1>4, <2>1 DEF TransferInv, OrphanedInv
  <1> QED BY <1>6, <1>7, <1>8, <1>9 DEF TransferInv

\* The range reaches from an ancestor to the top, so no canonical block of it
\* is left when its transfers are marked.
LEMMA OrphanBlocksInv == ASSUME TransferInv, OrphanBlocks PROVE TransferInv'
  <1> USE TransferAssumption, BlockAssumption
  <1>1. PICK from \in Heights, to \in Heights :
            /\ range' = [from |-> from, to |-> to]
            /\ blockRow' = OrphanRange(blockRow, from, to)
    BY DEF OrphanBlocks
  <1>2. UNCHANGED <<transferRow, balance, queue, published, pc, job, own, sum, redeliveries, aborts>>
        /\ indexer' = "orphan" /\ reorgs' \in 0 .. MaxReorgs
    BY DEF OrphanBlocks, working, bounds, TransferInv, TypeOK
  <1>3. blockRow \in [Blocks -> BlockStatus]
    BY DEF TransferInv, TypeOK
  <1>4. from \in Nat /\ to \in Nat
    BY <1>3 DEF Heights, CanonicalRows
  <1>5. /\ blockRow' \in [Blocks -> BlockStatus]
        /\ CanonicalRows(blockRow') \subseteq CanonicalRows(blockRow)
        /\ \A b \in CanonicalRows(blockRow') : ~InRange(Number[b], from, to)
        /\ \A b \in Blocks : blockRow'[b] = "absent" <=> blockRow[b] = "absent"
    BY <1>1, <1>3 DEF OrphanRange, CanonicalRows, BlockStatus
  <1>6. TypeOK'
    BY <1>1, <1>2, <1>4, <1>5 DEF TransferInv, TypeOK
  <1>7. PublishedInv' /\ PendingInv'
    BY <1>2, <1>5 DEF TransferInv, PublishedInv, PendingInv
  <1>8. OrphanedInv'
    BY <1>1, <1>2, <1>5 DEF TransferInv, OrphanedInv
  <1> QED BY <1>6, <1>7, <1>8 DEF TransferInv

\* Marking touches no transfer of a canonical block.
LEMMA OrphanTransfersInv == ASSUME TransferInv, OrphanTransfers PROVE TransferInv'
  <1>1. UNCHANGED <<blockRow, balance, queue, published, range, pc, job, own, sum, reorgs,
                    redeliveries, aborts>>
        /\ indexer' = "index" /\ indexer = "orphan"
        /\ transferRow' = OrphanRange(transferRow, range.from, range.to)
    BY DEF OrphanTransfers, MarkTransfers, working, bounds
  <1>2. transferRow \in [Blocks -> FactStatus]
    BY DEF TransferInv, TypeOK
  <1>3. /\ transferRow' \in [Blocks -> FactStatus]
        /\ \A b \in Blocks : transferRow'[b] = "absent" <=> transferRow[b] = "absent"
        /\ \A b \in Blocks : transferRow'[b] = "orphaned" =>
              transferRow[b] = "orphaned" \/ InRange(Number[b], range.from, range.to)
    BY <1>1, <1>2 DEF OrphanRange, CanonicalRows, FactStatus
  <1>4. TypeOK'
    BY <1>1, <1>3 DEF TransferInv, TypeOK
  <1>5. PublishedInv' /\ PendingInv'
    <2>1. \A w \in Workers : pc[w] # "idle" => job[w] \in Blocks
      BY DEF TransferInv, TypeOK, PublishedInv
    <2>2. published \subseteq Blocks
      BY DEF TransferInv, TypeOK
    <2> QED BY <1>1, <1>3, <2>1, <2>2 DEF TransferInv, PublishedInv, PendingInv, Inserted
  <1>6. OrphanedInv'
    BY <1>1, <1>3 DEF TransferInv, OrphanedInv
  <1> QED BY <1>4, <1>5, <1>6 DEF TransferInv

\* A job leaves the queue into a worker's hands, or comes back to it.
LEMMA QueueInv ==
    ASSUME TransferInv, Redeliver \/ \E w \in Workers : Deliver(w)
    PROVE  TransferInv'
  <1>1. UNCHANGED <<blockRow, transferRow, balance, indexer, range, published, own, sum, reorgs, aborts>>
    BY DEF Redeliver, Deliver, indexing, working, bounds
  <1>2. CASE Redeliver
    <2>1. /\ UNCHANGED <<pc, job>> /\ redeliveries' \in 0 .. MaxRedeliveries
          /\ queue' \subseteq published /\ queue \subseteq queue'
      BY <1>2, TransferAssumption DEF Redeliver, working, TransferInv, TypeOK
    <2> QED BY <1>1, <2>1
        DEF TransferInv, TypeOK, PublishedInv, PendingInv, OrphanedInv, Inserted
  <1>3. ASSUME NEW w \in Workers, Deliver(w) PROVE TransferInv'
    <2>1. PICK b \in queue :
              job' = [job EXCEPT ![w] = b] /\ queue' = queue \ {b}
      BY <1>3 DEF Deliver
    <2>2. pc' = [pc EXCEPT ![w] = "insert"] /\ pc[w] = "idle" /\ UNCHANGED redeliveries
      BY <1>3 DEF Deliver, bounds
    <2>3. b \in published /\ b \in Blocks
      BY DEF TransferInv, TypeOK
    <2>4. TypeOK'
      BY <1>1, <2>1, <2>2, <2>3 DEF TransferInv, TypeOK
    <2>5. /\ pc'[w] = "insert" /\ job'[w] = b
          /\ \A v \in Workers : v # w => pc'[v] = pc[v] /\ job'[v] = job[v]
      BY <2>1, <2>2 DEF TransferInv, TypeOK
    <2>6. own[w] = "absent"
      BY <2>2 DEF TransferInv, PendingInv, Inserted
    <2>7. PublishedInv'
      BY <1>1, <2>3, <2>5 DEF TransferInv, PublishedInv
    <2>8. PendingInv'
      <3>1. ASSUME NEW d \in published
            PROVE  \/ d \in queue'
                   \/ transferRow[d] # "absent"
                   \/ \E v \in Workers : job'[v] = d /\ pc'[v] # "idle"
        <4>1. CASE d = b
          BY <4>1, <2>5
        <4>2. CASE d # b
          BY <4>2, <2>1, <2>2, <2>5 DEF TransferInv, PendingInv
        <4> QED BY <4>1, <4>2
      <3> QED BY <1>1, <2>5, <2>6, <3>1 DEF TransferInv, PendingInv, Inserted
    <2>9. OrphanedInv'
      BY <1>1, <2>5, <2>6 DEF TransferInv, OrphanedInv
    <2> QED BY <2>4, <2>7, <2>8, <2>9 DEF TransferInv
  <1> QED BY <1>2, <1>3

\* The row a transaction inserts is orphaned only if its block is.
LEMMA InsertTransferInv ==
    ASSUME TransferInv, NEW w \in Workers, InsertTransfer(w)
    PROVE  TransferInv'
  <1> DEFINE row == IF transferRow[job[w]] = "absent" THEN StatusOf(job[w]) ELSE "absent"
  <1>1. /\ UNCHANGED <<blockRow, transferRow, balance, indexer, range, queue, published, job, sum,
                       reorgs, redeliveries, aborts>>
        /\ pc[w] = "insert" /\ pc' = [pc EXCEPT ![w] = "select"]
        /\ own' = [own EXCEPT ![w] = row]
    BY DEF InsertTransfer, indexing, bounds
  <1>2. row \in FactStatus
        /\ (row = "orphaned" => job[w] \notin CanonicalRows(blockRow))
        /\ (transferRow[job[w]] # "absent" \/ row # "absent")
    BY DEF StatusOf, FactStatus
  <1> HIDE DEF row
  <1>3. /\ pc'[w] = "select" /\ own'[w] = row
        /\ \A v \in Workers : v # w => pc'[v] = pc[v] /\ own'[v] = own[v]
    BY <1>1 DEF TransferInv, TypeOK
  <1>4. TypeOK'
    BY <1>1, <1>2 DEF TransferInv, TypeOK
  <1>5. PublishedInv'
    BY <1>1, <1>3 DEF TransferInv, PublishedInv
  <1>6. PendingInv'
    BY <1>1, <1>2, <1>3 DEF TransferInv, PendingInv, Inserted
  <1>7. OrphanedInv'
    BY <1>1, <1>2, <1>3 DEF TransferInv, OrphanedInv
  <1> QED BY <1>4, <1>5, <1>6, <1>7 DEF TransferInv

\* Computing and upserting the balance leaves the transfers alone.
LEMMA ProjectInv ==
    ASSUME TransferInv, NEW w \in Workers, Select(w) \/ Upsert(w)
    PROVE  TransferInv'
  <1>1. /\ UNCHANGED <<blockRow, transferRow, balance, indexer, range, queue, published, job, own,
                       reorgs, redeliveries, aborts>>
        /\ pc[w] \in {"select", "upsert"}
        /\ (pc' = [pc EXCEPT ![w] = "upsert"] \/ pc' = [pc EXCEPT ![w] = "commit"])
    BY DEF Select, Upsert, indexing, bounds
  <1>2. SumOf(w) \in Balances
    BY DEF SumOf, Balances
  <1>3. sum' \in [Workers -> Balances]
    <2>1. sum' = sum \/ sum' = [sum EXCEPT ![w] = SumOf(w)]
      BY DEF Select, Upsert
    <2> QED BY <1>2, <2>1 DEF TransferInv, TypeOK
  <1>4. /\ pc'[w] \in {"upsert", "commit"}
        /\ \A v \in Workers : v # w => pc'[v] = pc[v]
    BY <1>1 DEF TransferInv, TypeOK
  <1>5. TypeOK'
    BY <1>1, <1>3 DEF TransferInv, TypeOK
  <1>6. PublishedInv' /\ PendingInv'
    BY <1>1, <1>4 DEF TransferInv, PublishedInv, PendingInv, Inserted
  <1>7. OrphanedInv'
    BY <1>1 DEF TransferInv, OrphanedInv
  <1> QED BY <1>5, <1>6, <1>7 DEF TransferInv

\* Back to idle, a worker holds no job and no row.
LEMMA FinishType ==
    ASSUME TypeOK, NEW w \in Workers, Finish(w)
    PROVE  /\ pc' \in [Workers -> {"idle", "insert", "select", "upsert", "commit"}]
           /\ job' \in [Workers -> Blocks \cup {NoBlock}]
           /\ own' \in [Workers -> FactStatus]
           /\ sum' \in [Workers -> Balances]
           /\ pc'[w] = "idle" /\ own'[w] = "absent"
           /\ \A v \in Workers : v # w => pc'[v] = pc[v] /\ job'[v] = job[v] /\ own'[v] = own[v]
  <1>1. Nothing \in Balances
    BY DEF Nothing, Balances
  <1> QED BY <1>1 DEF Finish, TypeOK, FactStatus

\* The committed row is the one the transaction inserted, or was there before.
LEMMA CommitInv ==
    ASSUME TransferInv, NEW w \in Workers, Commit(w)
    PROVE  TransferInv'
  <1>1. /\ UNCHANGED <<blockRow, indexer, range, queue, published, reorgs, redeliveries, aborts>>
        /\ pc[w] = "commit" /\ transferRow' = Visible(w) /\ balance' = sum[w] /\ Finish(w)
    BY DEF Commit, indexing, bounds
  <1>2. job[w] \in published /\ job[w] \in Blocks
    BY <1>1 DEF TransferInv, TypeOK, PublishedInv
  <1>3. own \in [Workers -> FactStatus] /\ transferRow \in [Blocks -> FactStatus]
        /\ sum \in [Workers -> Balances]
    BY DEF TransferInv, TypeOK
  <1>4. /\ transferRow' \in [Blocks -> FactStatus]
        /\ transferRow'[job[w]] # "absent"
        /\ \A b \in Blocks : transferRow[b] # "absent" => transferRow'[b] # "absent"
        /\ \A b \in Blocks : transferRow'[b] # transferRow[b] => b = job[w] /\ transferRow'[b] = own[w]
    <2>1. transferRow[job[w]] # "absent" \/ own[w] # "absent"
      BY <1>1 DEF TransferInv, PendingInv, Inserted
    <2> QED BY <1>1, <1>2, <1>3, <2>1 DEF Visible
  <1>5. TypeOK'
    BY <1>1, <1>3, <1>4, FinishType DEF TransferInv, TypeOK
  <1>6. PublishedInv'
    BY <1>1, <1>2, <1>4, FinishType DEF TransferInv, PublishedInv
  <1>7. PendingInv'
    <2>1. ASSUME NEW b \in published
          PROVE  \/ b \in queue
                 \/ transferRow'[b] # "absent"
                 \/ \E v \in Workers : job'[v] = b /\ pc'[v] # "idle"
      <3>1. CASE b = job[w]
        BY <1>4, <3>1
      <3>2. CASE b # job[w]
        BY <1>1, <1>4, <3>2, FinishType DEF TransferInv, TypeOK, PendingInv
      <3> QED BY <3>1, <3>2
    <2>2. ASSUME NEW v \in Workers
          PROVE  /\ pc'[v] \in Inserted => transferRow'[job'[v]] # "absent" \/ own'[v] # "absent"
                 /\ pc'[v] \notin Inserted => own'[v] = "absent"
      <3>1. CASE v = w
        BY <1>1, <3>1, FinishType DEF TransferInv, Inserted
      <3>2. CASE v # w
        <4>1. pc'[v] = pc[v] /\ job'[v] = job[v] /\ own'[v] = own[v]
          BY <1>1, <3>2, FinishType DEF TransferInv
        <4>2. pc[v] # "idle" => job[v] \in Blocks
          BY DEF TransferInv, TypeOK, PublishedInv
        <4> QED BY <1>4, <4>1, <4>2 DEF TransferInv, PendingInv, Inserted
      <3> QED BY <3>1, <3>2
    <2> QED BY <1>1, <2>1, <2>2 DEF PendingInv
  <1>8. OrphanedInv'
    <2>1. ASSUME NEW v \in Workers, own'[v] = "orphaned"
          PROVE  job'[v] \notin CanonicalRows(blockRow)
      BY <1>1, <2>1, FinishType DEF TransferInv, OrphanedInv
    <2>2. ASSUME NEW b \in Blocks, transferRow'[b] = "orphaned"
          PROVE  b \notin CanonicalRows(blockRow)
      BY <1>4, <2>2 DEF TransferInv, OrphanedInv
    <2> QED BY <1>1, <2>1, <2>2 DEF TransferInv, OrphanedInv
  <1> QED BY <1>5, <1>6, <1>7, <1>8 DEF TransferInv

\* A transaction that fails leaves nothing behind but its job.
LEMMA AbortInv ==
    ASSUME TransferInv, NEW w \in Workers, Abort(w)
    PROVE  TransferInv'
  <1>1. /\ UNCHANGED <<blockRow, transferRow, balance, indexer, range, published, reorgs, redeliveries>>
        /\ pc[w] # "idle" /\ queue' = queue \cup {job[w]} /\ Finish(w) /\ aborts' \in 0 .. MaxAborts
    BY TransferAssumption DEF Abort, indexing, TransferInv, TypeOK
  <1>2. job[w] \in published
    BY <1>1 DEF TransferInv, PublishedInv
  <1>3. TypeOK'
    BY <1>1, <1>2, FinishType DEF TransferInv, TypeOK
  <1>4. PublishedInv'
    BY <1>1, FinishType DEF TransferInv, PublishedInv
  <1>5. PendingInv'
    BY <1>1, FinishType DEF TransferInv, TypeOK, PendingInv, Inserted
  <1>6. OrphanedInv'
    BY <1>1, FinishType DEF TransferInv, OrphanedInv
  <1> QED BY <1>3, <1>4, <1>5, <1>6 DEF TransferInv

\* Every step of the indexer, the queue and the workers keeps TransferInv.
LEMMA NextInv == TransferInv /\ [Next]_vars => TransferInv'
  <1> SUFFICES ASSUME TransferInv, [Next]_vars PROVE TransferInv'
    OBVIOUS
  <1>1. CASE UNCHANGED vars
    BY <1>1 DEF vars, working, bounds, TransferInv, TypeOK, PublishedInv, PendingInv, OrphanedInv
  <1>2. CASE Indexer \/ Redeliver
    BY <1>2, IndexBlockInv, OrphanBlocksInv, OrphanTransfersInv, QueueInv DEF Indexer
  <1>3. ASSUME NEW w \in Workers, Process(w) \/ Abort(w) PROVE TransferInv'
    BY <1>3, QueueInv, InsertTransferInv, ProjectInv, CommitInv, AbortInv DEF Process
  <1> QED BY <1>1, <1>2, <1>3 DEF Next

\* The variables keep their types: among others a job goes back to the queue
\* only if it was published.
THEOREM TypeCorrect == Spec => []TypeOK
  <1>1. TransferInv => TypeOK
    BY DEF TransferInv
  <1> QED BY InitInv, NextInv, <1>1, PTL DEF Spec

\* At rest a canonical block's transfer counts: no reorg of other blocks, no
\* redelivery and no failed transaction takes it away.
THEOREM TransfersKept == Spec => []CanonicalTransfersKept
  <1>1. TransferInv => CanonicalTransfersKept
    <2> SUFFICES ASSUME TransferInv, Quiet, NEW b \in CanonicalRows(blockRow)
                 PROVE  transferRow[b] = "canonical"
      BY DEF CanonicalTransfersKept
    <2>1. b \in Blocks /\ b \in published
      BY DEF CanonicalRows, TransferInv, TypeOK, PublishedInv
    <2>2. transferRow[b] # "absent" /\ transferRow[b] # "orphaned"
      BY <2>1 DEF TransferInv, PendingInv, OrphanedInv, Quiet
    <2> QED BY <2>1, <2>2 DEF TransferInv, TypeOK, FactStatus
  <1> QED BY InitInv, NextInv, <1>1, PTL DEF Spec

-------------------------------------------------------------------------------
(* What the balance counts.                                                *)

\* A transfer once recorded stays recorded, canonical or orphaned.
LEMMA RecordedStays ==
    ASSUME TransferInv, [Next]_vars, NEW b \in Blocks, transferRow[b] # "absent"
    PROVE  transferRow'[b] # "absent"
  <1>1. CASE OrphanTransfers
    BY <1>1 DEF OrphanTransfers, MarkTransfers, OrphanRange, TransferInv, TypeOK
  <1>2. ASSUME NEW w \in Workers, Commit(w) PROVE transferRow'[b] # "absent"
    BY <1>2 DEF Commit, Visible
  <1>3. ASSUME NEW w \in Workers,
               Deliver(w) \/ InsertTransfer(w) \/ Select(w) \/ Upsert(w) \/ Abort(w)
        PROVE  transferRow' = transferRow
    BY <1>3 DEF Deliver, InsertTransfer, Select, Upsert, Abort
  <1>4. CASE IndexBlock \/ OrphanBlocks \/ Redeliver \/ UNCHANGED vars
    BY <1>4 DEF IndexBlock, OrphanBlocks, Redeliver, vars
  <1> QED BY <1>1, <1>2, <1>3, <1>4 DEF Next, Indexer, Process

\* A step of one worker leaves the others' sums, jobs and rows alone, and its
\* own sum counts nothing that was not there when it was computed.
LEMMA SumStep ==
    ASSUME TransferInv, SumInv, [Next]_vars
    PROVE  SumInv'
  <1>1. ASSUME NEW w \in Workers, NEW b \in Blocks, UNCHANGED working
        PROVE  /\ sum'[w][b] <= 1
               /\ sum'[w][b] = 1 =>
                     transferRow'[b] # "absent" \/ (b = job'[w] /\ own'[w] # "absent")
    BY <1>1, RecordedStays DEF working, SumInv
  <1>2. ASSUME NEW v \in Workers, Process(v) \/ Abort(v), NEW w \in Workers, NEW b \in Blocks
        PROVE  /\ sum'[w][b] <= 1
               /\ sum'[w][b] = 1 =>
                     transferRow'[b] # "absent" \/ (b = job'[w] /\ own'[w] # "absent")
    <2>1. CASE w # v
      <3>1. sum'[w] = sum[w] /\ job'[w] = job[w] /\ own'[w] = own[w]
        BY <1>2, <2>1 DEF Process, Deliver, InsertTransfer, Select, Upsert, Commit, Abort, Finish,
                       TransferInv, TypeOK
      <3> QED BY <3>1, RecordedStays DEF SumInv
    <2>2. CASE w = v /\ Deliver(v)
      <3>1. sum' = sum /\ own' = own /\ own[v] = "absent"
        BY <2>2 DEF Deliver, TransferInv, PendingInv, Inserted
      <3> QED BY <2>2, <3>1, RecordedStays DEF SumInv
    <2>3. CASE w = v /\ InsertTransfer(v)
      <3>1. sum' = sum /\ own[v] = "absent"
        BY <2>3 DEF InsertTransfer, TransferInv, PendingInv, Inserted
      <3> QED BY <2>3, <3>1, RecordedStays DEF SumInv
    <2>4. CASE w = v /\ Select(v)
      <3>1. sum'[v] = SumOf(v) /\ UNCHANGED <<transferRow, job, own>>
        BY <2>4 DEF Select, TransferInv, TypeOK
      <3> QED BY <2>4, <3>1 DEF SumOf, Visible
    <2>5. CASE w = v /\ Upsert(v)
      BY <2>5, RecordedStays DEF Upsert, SumInv
    <2>6. CASE w = v /\ (Commit(v) \/ Abort(v))
      <3>1. sum'[v] = Nothing
        BY <2>6 DEF Commit, Abort, Finish, TransferInv, TypeOK
      <3> QED BY <2>6, <3>1 DEF Nothing
    <2> QED BY <1>2, <2>1, <2>2, <2>3, <2>4, <2>5, <2>6 DEF Process
  <1>3. (\E v \in Workers : Process(v) \/ Abort(v)) \/ UNCHANGED working
    BY DEF Next, Indexer, IndexBlock, OrphanBlocks, OrphanTransfers, Redeliver, vars
  <1> QED BY <1>1, <1>2, <1>3 DEF SumInv

\* The balance counts no transfer twice and none that was not recorded, for any
\* number of workers, redeliveries and failed transactions.
THEOREM NoDoubleCounting == Spec => []CountedOnce
  <1>1. Init => CountInv
    BY DEF Init, CountInv, CountedOnce, SumInv, Nothing
  <1>2. TransferInv /\ CountInv /\ [Next]_vars => CountInv'
    <2> SUFFICES ASSUME TransferInv, CountInv, [Next]_vars PROVE CountInv'
      OBVIOUS
    <2>1. SumInv'
      BY SumStep DEF CountInv
    <2>2. ASSUME balance' = balance PROVE CountedOnce'
      <3> SUFFICES ASSUME NEW b \in Blocks
                   PROVE  balance'[b] <= 1 /\ (balance'[b] = 1 => transferRow'[b] # "absent")
        BY DEF CountedOnce
      <3>1. balance[b] <= 1 /\ (balance[b] = 1 => transferRow[b] # "absent")
        BY DEF CountInv, CountedOnce
      <3> QED BY <2>2, <3>1, RecordedStays
    <2>3. ASSUME NEW w \in Workers, Commit(w) PROVE CountedOnce'
      <3>1. balance' = sum[w] /\ transferRow' = Visible(w)
        BY <2>3 DEF Commit
      <3>2. ASSUME NEW b \in Blocks, sum[w][b] = 1 PROVE Visible(w)[b] # "absent"
        BY <3>2 DEF Visible, CountInv, SumInv
      <3> QED BY <3>1, <3>2 DEF CountedOnce, CountInv, SumInv
    <2>4. balance' = balance \/ \E w \in Workers : Commit(w)
      BY DEF Next, Indexer, IndexBlock, OrphanBlocks, OrphanTransfers, Redeliver, Process, Deliver,
             InsertTransfer, Select, Upsert, Abort, vars
    <2> QED BY <2>1, <2>2, <2>3, <2>4 DEF CountInv
  <1>3. CountInv => CountedOnce
    BY DEF CountInv
  <1> QED BY InitInv, NextInv, <1>1, <1>2, <1>3, PTL DEF Spec
===============================================================================
