--------------------------- MODULE LiveIndexerProofs --------------------------
(***************************************************************************)
(* Proofs about LiveIndexer, for every block tree, configuration and       *)
(* number of reorgs, crashes and failures, and, at the end, about the      *)
(* repair modes that work on the same tables.                              *)
(***************************************************************************)
EXTENDS LiveIndexer, SequenceTheorems, FiniteSetTheorems, WellFoundedInduction, TLAPS

\* Rows are inserted and orphaned but never removed: a row that is present
\* stays present, and an insert leaves a row for every block of the batch.
LEMMA InsertBlocksRows ==
    ASSUME NEW S, "absent" \in S, NEW rows \in [Blocks -> S],
           NEW new, NEW status \in S \ {"absent"}
    PROVE  /\ InsertBlocks(rows, new, status) \in [Blocks -> S]
           /\ \A b \in Blocks : rows[b] # "absent" => InsertBlocks(rows, new, status)[b] # "absent"
           /\ \A b \in Blocks : b \in new => InsertBlocks(rows, new, status)[b] # "absent"
           /\ \A b \in Blocks : InsertBlocks(rows, new, status)[b] # "absent"
                                  => rows[b] # "absent" \/ b \in new
  BY DEF InsertBlocks

\* An update that orphans a range keeps every row of the table.
LEMMA OrphanRangeRows ==
    ASSUME NEW S, "orphaned" \in S, NEW rows \in [Blocks -> S], NEW from, NEW to
    PROVE  /\ OrphanRange(rows, from, to) \in [Blocks -> S]
           /\ \A b \in Blocks : OrphanRange(rows, from, to)[b] = "absent" <=> rows[b] = "absent"
  BY DEF OrphanRange, CanonicalRows

\* Inserting a batch leaves well-typed transaction rows.
LEMMA InsertTxsType ==
    ASSUME NEW rows \in [Txs -> TxRows], NEW new \in SUBSET Blocks
    PROVE  InsertTxs(rows, new) \in [Txs -> TxRows]
  <1> SUFFICES ASSUME NEW t \in Txs PROVE InsertTxs(rows, new)[t] \in TxRows
    BY DEF InsertTxs
  <1>1. CASE rows[t] = NoTxRow /\ \E b \in new : t \in TxsOf[b]
    <2>1. (CHOOSE b \in new : t \in TxsOf[b]) \in Blocks
      BY <1>1
    <2> QED BY <1>1, <2>1 DEF InsertTxs, TxRows
  <1>2. CASE ~(rows[t] = NoTxRow /\ \E b \in new : t \in TxsOf[b])
    BY <1>2 DEF InsertTxs
  <1> QED BY <1>1, <1>2

\* So does orphaning a range of them.
LEMMA OrphanTxRangeType ==
    ASSUME NEW rows \in [Txs -> TxRows], NEW from, NEW to
    PROVE  OrphanTxRange(rows, from, to) \in [Txs -> TxRows]
  BY DEF OrphanTxRange, TxRows

\* handleReorg has seven tables to mark.
LEMMA ReorgTablesLength == Len(ReorgTables) = 7 /\ DOMAIN ReorgTables = 1 .. 7
  BY DEF ReorgTables

\* A fresh database and a stopped process.
LEMMA InitInv == Init => IInv
  <1> SUFFICES ASSUME Init PROVE IInv
    OBVIOUS
  <1> USE BlockAssumption, ChainAssumption, ConfigAssumption DEF Init
  <1>1. TypeOK
    BY DEF TypeOK, BlockStatus, FactStatus, TxRows, NoTxRow, Checkpoints, NoCheckpoint,
           Lines, ReorgTables
  <1>2. PositionInv /\ HeadInv /\ BatchInv /\ AncestorInv
    BY DEF PositionInv, HeadInv, BatchInv, AncestorInv, Draining, Tailing, Persisted,
           NoCheckpoint
  <1>3. CheckpointCovered /\ JobsOnlyForDurableBlocks
    BY DEF CheckpointCovered, JobsOnlyForDurableBlocks, NoCheckpoint
  <1> QED BY <1>1, <1>2, <1>3 DEF IInv

-------------------------------------------------------------------------------
(* The chain's steps.                                                      *)

\* The chain the providers report never gets shorter.
LEMMA ChainGrows ==
    ASSUME TypeOK, Extend \/ Reorg
    PROVE  Len(chain) <= Len(chain') /\ chain' \in Chains /\ Len(chain) \in Nat /\ Len(chain') \in Nat
  BY ChainAssumption DEF TypeOK, Extend, Reorg, IsExtension, IsChain

\* The chain may grow or reorganise: its tip never falls behind what was read.
LEMMA EnvironmentInv ==
    ASSUME IInv, Extend \/ Reorg
    PROVE  IInv'
  <1>1. TypeOK'
    <2>1. chain' \in Chains
      BY ChainGrows DEF IInv
    <2>2. reorgs' \in 0 .. MaxReorgs
      BY ConfigAssumption DEF IInv, TypeOK, Extend, Reorg
    <2>3. UNCHANGED <<facts, progress, pc, memory, budget>>
      BY DEF Extend, Reorg
    <2> QED BY <2>1, <2>2, <2>3 DEF IInv, TypeOK, facts, handled, progress, memory, budget
  <1>2. HeadInv'
    BY ChainGrows DEF IInv, TypeOK, HeadInv, Tip, Extend, Reorg, memory
  <1>3. PositionInv' /\ BatchInv' /\ AncestorInv'
    BY DEF IInv, Extend, Reorg, facts, handled, progress, memory,
           PositionInv, BatchInv, AncestorInv, BatchBlocks, Event, LastOf
  <1>4. CheckpointCovered' /\ JobsOnlyForDurableBlocks'
    BY DEF IInv, Extend, Reorg, facts, handled, progress, memory,
           CheckpointCovered, JobsOnlyForDurableBlocks
  <1> QED BY <1>1, <1>2, <1>3, <1>4 DEF IInv

-------------------------------------------------------------------------------
(* The process's steps, in the order of the code.                          *)

\* Back at the top of the loop only the position and the checkpoint matter.
LEMMA IterateInv ==
    ASSUME IInv, NEW next \in Nat, NEW hash \in Blocks \cup {NoHash},
           Iterate(next, hash), UNCHANGED <<world, facts, published, budget>>,
           checkpoint' \in Checkpoints, reorgEvents' \in Seq(ReorgEvent),
           StartBlock <= next, next <= checkpoint'.next,
           hash # NoHash => next > 0,
           checkpoint'.hash # NoHash => checkpoint'.next > 0,
           \A n \in StartBlock .. checkpoint'.next - 1 :
               \E b \in Blocks : Number[b] = n /\ blockRow[b] # "absent"
    PROVE  IInv'
  <1> USE ConfigAssumption
  <1>1. TypeOK'
    <2>1. pc' \in Lines /\ stage' \in 1 .. Len(ReorgTables) + 1 /\ batch' \in Seq(Blocks)
          /\ finality' \in {"unfinal", "finalized"}
      BY DEF Iterate, Lines, ReorgTables
    <2>2. cur' \in Nat /\ last' \in Blocks \cup {NoHash} /\ latest' \in Nat /\ probe' \in Nat
      BY DEF Iterate
    <2>3. chain' \in Chains /\ reorgs' \in 0 .. MaxReorgs /\ published' \in SUBSET Blocks
          /\ crashes' \in 0 .. MaxCrashes /\ failures' \in 0 .. MaxFailures
      BY DEF IInv, TypeOK, world, budget
    <2>4. /\ blockRow' \in [Blocks -> BlockStatus] /\ txRow' \in [Txs -> TxRows]
          /\ logRow' \in [Blocks -> FactStatus] /\ protocolRow' \in [Blocks -> FactStatus]
          /\ {protocolJobs', swallowed'} \subseteq SUBSET Blocks
      BY DEF IInv, TypeOK, facts, handled
    <2> QED BY <2>1, <2>2, <2>3, <2>4 DEF TypeOK
  <1>2. PositionInv'
    <2>1. checkpoint'.next \in Int /\ StartBlock <= checkpoint'.next
      BY DEF Checkpoints
    <2>2. checkpoint' # NoCheckpoint
      BY <2>1 DEF NoCheckpoint
    <2> QED BY <2>1, <2>2 DEF PositionInv, Iterate
  <1>3. HeadInv' /\ BatchInv'
    BY DEF HeadInv, BatchInv, Iterate, Draining, Tailing, Persisted
  <1>4. AncestorInv'
    BY DEF IInv, AncestorInv, Iterate, facts, handled
  <1>5. CheckpointCovered' /\ JobsOnlyForDurableBlocks'
    BY DEF IInv, CheckpointCovered, JobsOnlyForDurableBlocks, facts, handled
  <1> QED BY <1>1, <1>2, <1>3, <1>4, <1>5 DEF IInv

\* A restart resumes at the checkpoint.
LEMMA StartInv == ASSUME IInv, Start PROVE IInv'
  <1> USE ConfigAssumption
  <1>1. checkpoint' \in Checkpoints /\ StartBlock <= checkpoint'.next /\ checkpoint'.next \in Nat
    BY DEF Start, IInv, TypeOK, PositionInv, Checkpoints, NoCheckpoint
  <1>2. checkpoint'.hash # NoHash => checkpoint'.next > 0
    BY DEF Start, IInv, TypeOK, PositionInv, Checkpoints
  <1>3. \A n \in StartBlock .. checkpoint'.next - 1 :
            \E b \in Blocks : Number[b] = n /\ blockRow[b] # "absent"
    BY DEF Start, IInv, CheckpointCovered
  <1>4. checkpoint'.hash \in Blocks \cup {NoHash}
    BY <1>1 DEF Checkpoints
  <1>5. Iterate(checkpoint'.next, checkpoint'.hash) /\ UNCHANGED <<world, facts, published, budget>>
        /\ reorgEvents' \in Seq(ReorgEvent)
    BY DEF Start, IInv, TypeOK
  <1> QED BY <1>1, <1>2, <1>3, <1>4, <1>5, IterateInv

\* Reading the head moves nothing.
LEMMA ReadHeadInv == ASSUME IInv, ReadHead PROVE IInv'
  <1> USE ConfigAssumption DEF ReadHead
  <1>0. Tip(chain) \in Nat /\ chain \in Chains
    BY ChainAssumption DEF IInv, TypeOK, IsChain, Tip
  <1>1. TypeOK'
    BY <1>0 DEF IInv, TypeOK, world, facts, handled, progress, budget, Lines
  <1>2. PositionInv' /\ HeadInv'
    BY <1>0 DEF IInv, TypeOK, PositionInv, HeadInv, progress, world, Tip
  <1>3. BatchInv' /\ AncestorInv'
    BY DEF IInv, BatchInv, AncestorInv, Draining, Tailing, Persisted, facts, handled, progress
  <1>4. CheckpointCovered' /\ JobsOnlyForDurableBlocks'
    BY DEF IInv, CheckpointCovered, JobsOnlyForDurableBlocks, facts, handled, progress
  <1> QED BY <1>1, <1>2, <1>3, <1>4 DEF IInv

\* A window is a run of blocks of the chain that starts at the position.
LEMMA FetchWindowInv == ASSUME IInv, FetchWindow PROVE IInv'
  <1> USE ConfigAssumption DEF FetchWindow
  <1>0. chain \in Seq(Blocks) /\ Tip(chain) = Len(chain) - 1
        /\ \A i \in 1 .. Len(chain) : Number[chain[i]] = i - 1
    BY ChainAssumption DEF IInv, TypeOK, IsChain, Tip
  <1>1. PICK k \in 1 .. WindowEnd - cur + 1 : batch' = SubSeq(chain, cur + 1, cur + k)
    OBVIOUS
  <1>2. cur \in Nat /\ k \in Nat /\ 1 <= k /\ cur + k <= Len(chain)
    <2>1. cur \in Nat /\ latest \in Nat /\ latest <= Len(chain) - 1 /\ Len(chain) \in Nat
      BY <1>0 DEF IInv, TypeOK, HeadInv
    <2>2. WindowEnd \in Int /\ WindowEnd <= latest - FinalityConfirmations
      BY <2>1 DEF WindowEnd, SafeCeiling
    <2>3. k \in Int /\ 1 <= k /\ k <= WindowEnd - cur + 1
      BY <2>1, <2>2
    <2> QED BY <2>1, <2>2, <2>3
  <1>3. /\ batch' \in Seq(Blocks) /\ Len(batch') = k
        /\ \A i \in 1 .. k : batch'[i] = chain[cur + i]
    <2>1. \A i \in cur + 1 .. cur + k : chain[i] \in Blocks
      BY <1>0, <1>2
    <2> QED BY <1>0, <1>1, <1>2, <2>1
  <1>4. \A i \in 1 .. Len(batch') : Number[batch'[i]] = cur + i - 1
    BY <1>0, <1>2, <1>3
  <1>5. TypeOK'
    BY <1>3 DEF IInv, TypeOK, world, facts, handled, progress, budget, Lines
  <1>6. PositionInv' /\ HeadInv' /\ AncestorInv'
    BY DEF IInv, PositionInv, HeadInv, AncestorInv, progress, facts, handled, world
  <1>7. BatchInv'
    <2>1. batch' # << >>
      BY <1>2, <1>3
    <2>2. pc' = "persistWindow"
      OBVIOUS
    <2> QED BY <1>4, <2>1, <2>2 DEF BatchInv, Draining, Tailing, Persisted
  <1>8. CheckpointCovered' /\ JobsOnlyForDurableBlocks'
    BY DEF IInv, CheckpointCovered, JobsOnlyForDurableBlocks, facts, handled, progress
  <1> QED BY <1>5, <1>6, <1>7, <1>8 DEF IInv

\* One transaction of inserts: every row of the batch is there afterwards.
LEMMA InsertBatchRows ==
    ASSUME IInv, pc \in {"persistWindow", "persist"},
           NEW status \in {"unfinal", "finalized"}, InsertBatch(status)
    PROVE  /\ blockRow' \in [Blocks -> BlockStatus] /\ logRow' \in [Blocks -> FactStatus]
           /\ txRow' \in [Txs -> TxRows]
           /\ protocolRow' = protocolRow
           /\ protocolJobs' = protocolJobs /\ swallowed' = swallowed
           /\ \A b \in Blocks : blockRow[b] # "absent" => blockRow'[b] # "absent"
           /\ \A b \in Blocks : logRow[b] # "absent" => logRow'[b] # "absent"
           /\ \A b \in BatchBlocks : blockRow'[b] # "absent" /\ logRow'[b] # "absent"
           /\ \A b \in Blocks : blockRow'[b] # "absent" => Number[b] >= StartBlock
  <1> USE ConfigAssumption DEF InsertBatch, handled
  <1>1. BatchBlocks \subseteq Blocks
    BY DEF IInv, TypeOK, BatchBlocks
  <1>2. "absent" \in BlockStatus /\ status \in BlockStatus \ {"absent"}
        /\ blockRow \in [Blocks -> BlockStatus]
    BY DEF BlockStatus, IInv, TypeOK
  <1>3. "absent" \in FactStatus /\ "canonical" \in FactStatus \ {"absent"}
        /\ logRow \in [Blocks -> FactStatus]
    BY DEF FactStatus, IInv, TypeOK
  <1>4. txRow' \in [Txs -> TxRows]
    BY <1>1, InsertTxsType DEF IInv, TypeOK
  <1>5. \A b \in BatchBlocks : Number[b] >= StartBlock
    <2>1. StartBlock <= cur /\ cur \in Nat
      BY DEF IInv, TypeOK, PositionInv
    <2>2. \A i \in 1 .. Len(batch) : Number[batch[i]] = cur + i - 1
      BY DEF IInv, BatchInv, Draining, Tailing
    <2> QED BY <2>1, <2>2 DEF BatchBlocks, IInv, TypeOK
  <1>6. \A b \in Blocks : blockRow[b] # "absent" => Number[b] >= StartBlock
    BY DEF IInv, AncestorInv
  <1> QED BY <1>1, <1>2, <1>3, <1>4, <1>5, <1>6, InsertBlocksRows

\* A persisted window has its rows.
LEMMA PersistWindowInv == ASSUME IInv, PersistWindow PROVE IInv'
  <1> USE DEF PersistWindow
  <1>0. InsertBatch("finalized") /\ pc \in {"persistWindow", "persist"}
    OBVIOUS
  <1>1. TypeOK'
    BY <1>0, InsertBatchRows DEF IInv, TypeOK, world, progress, memory, budget, Lines
  <1>2. PositionInv' /\ HeadInv'
    BY DEF IInv, PositionInv, HeadInv, progress, memory, world
  <1>3. BatchInv' /\ AncestorInv'
    BY <1>0, InsertBatchRows
    DEF IInv, BatchInv, AncestorInv, BatchBlocks, Draining, Tailing, Persisted, memory, progress
  <1>4. CheckpointCovered' /\ JobsOnlyForDurableBlocks'
    BY <1>0, InsertBatchRows
    DEF IInv, TypeOK, CheckpointCovered, JobsOnlyForDurableBlocks, progress
  <1> QED BY <1>1, <1>2, <1>3, <1>4 DEF IInv

\* So has a persisted block.
LEMMA PersistBlockInv == ASSUME IInv, PersistBlock PROVE IInv'
  <1> USE DEF PersistBlock
  <1>0. InsertBatch(finality) /\ pc \in {"persistWindow", "persist"}
        /\ finality \in {"unfinal", "finalized"}
    BY DEF IInv, TypeOK
  <1>1. TypeOK'
    BY <1>0, InsertBatchRows DEF IInv, TypeOK, world, progress, memory, budget, Lines
  <1>2. PositionInv' /\ HeadInv'
    BY DEF IInv, PositionInv, HeadInv, progress, memory, world
  <1>3. BatchInv' /\ AncestorInv'
    BY <1>0, InsertBatchRows
    DEF IInv, BatchInv, AncestorInv, BatchBlocks, Draining, Tailing, Persisted, memory, progress
  <1>4. CheckpointCovered' /\ JobsOnlyForDurableBlocks'
    BY <1>0, InsertBatchRows
    DEF IInv, TypeOK, CheckpointCovered, JobsOnlyForDurableBlocks, progress
  <1> QED BY <1>1, <1>2, <1>3, <1>4 DEF IInv

\* Upserting protocol facts touches no block row.
LEMMA RouteInv == ASSUME IInv, RouteWindow \/ RouteBlock PROVE IInv'
  <1> USE DEF RouteWindow, RouteBlock
  <1>1. BatchBlocks \subseteq Blocks /\ HandleProtocolEvents
    BY DEF IInv, TypeOK, BatchBlocks
  <1>2. PICK failed \in SUBSET BatchBlocks : \E stored \in SUBSET failed :
            /\ protocolRow' = UpsertCanonical(protocolRow, (BatchBlocks \ failed) \cup stored)
            /\ protocolJobs' = protocolJobs \cup (BatchBlocks \ failed)
            /\ swallowed' = swallowed \cup failed
    BY <1>1 DEF HandleProtocolEvents
  <1>3. blockRow' = blockRow /\ txRow' = txRow /\ logRow' = logRow
    BY <1>1 DEF HandleProtocolEvents
  <1>4. TypeOK'
    <2>1. protocolRow' \in [Blocks -> FactStatus]
      BY <1>2 DEF IInv, TypeOK, UpsertCanonical, FactStatus
    <2>2. {published', protocolJobs', swallowed'} \subseteq SUBSET Blocks
      BY <1>1, <1>2 DEF IInv, TypeOK, progress
    <2> QED BY <1>3, <2>1, <2>2 DEF IInv, TypeOK, world, progress, memory, budget, Lines
  <1>5. PositionInv' /\ HeadInv'
    BY DEF IInv, PositionInv, HeadInv, progress, memory, world
  <1>6. BatchInv' /\ AncestorInv'
    BY <1>3
    DEF IInv, BatchInv, AncestorInv, BatchBlocks, Draining, Tailing, Persisted, memory, progress
  <1>7. CheckpointCovered' /\ JobsOnlyForDurableBlocks'
    BY <1>2, <1>3
    DEF IInv, BatchInv, Persisted, CheckpointCovered, JobsOnlyForDurableBlocks, progress
  <1> QED BY <1>4, <1>5, <1>6, <1>7 DEF IInv

\* Publishing adds only blocks of a batch whose rows are written.
LEMMA PublishWindowInv == ASSUME IInv, PublishWindow PROVE IInv'
  <1> USE DEF PublishWindow
  <1>1. TypeOK'
    <2>1. published' \in SUBSET Blocks
      BY DEF IInv, TypeOK, BatchBlocks
    <2> QED BY <2>1 DEF IInv, TypeOK, world, facts, handled, memory, budget, Lines
  <1>2. PositionInv' /\ HeadInv'
    BY DEF IInv, PositionInv, HeadInv, memory, world
  <1>3. BatchInv' /\ AncestorInv'
    BY DEF IInv, BatchInv, AncestorInv, BatchBlocks, Draining, Tailing, Persisted, memory, facts, handled
  <1>4. CheckpointCovered' /\ JobsOnlyForDurableBlocks'
    BY DEF IInv, BatchInv, Persisted, CheckpointCovered, JobsOnlyForDurableBlocks, facts, handled
  <1> QED BY <1>1, <1>2, <1>3, <1>4 DEF IInv

\* Every height of a persisted batch is written, so the heights below the
\* checkpoint stay covered when it moves to the end of the batch.
LEMMA BatchCovers ==
    ASSUME IInv, pc \in {"saveWindow", "save"}
    PROVE  /\ cur \in Nat /\ Len(batch) \in Nat /\ Len(batch) >= 1
           /\ LastOf(batch) \in Blocks
           /\ StartBlock <= cur
           /\ \A n \in StartBlock .. cur + Len(batch) - 1 :
                  \E b \in Blocks : Number[b] = n /\ blockRow[b] # "absent"
  <1>1. cur \in Nat /\ batch \in Seq(Blocks) /\ batch # << >> /\ StartBlock <= cur
        /\ cur <= checkpoint.next /\ checkpoint.next \in Int
    BY DEF IInv, TypeOK, BatchInv, PositionInv, Draining, Tailing, Checkpoints
  <1>2. Len(batch) \in Nat /\ Len(batch) >= 1 /\ LastOf(batch) \in Blocks
    BY <1>1 DEF LastOf
  <1>3. ASSUME NEW n \in StartBlock .. cur + Len(batch) - 1
        PROVE  \E b \in Blocks : Number[b] = n /\ blockRow[b] # "absent"
    <2>1. CASE n < cur
      BY <1>1, <2>1, ConfigAssumption DEF IInv, CheckpointCovered
    <2>2. CASE n >= cur
      <3>1. n - cur + 1 \in 1 .. Len(batch)
        BY <1>1, <1>2, <2>2, ConfigAssumption
      <3>2. Number[batch[n - cur + 1]] = cur + (n - cur + 1) - 1
        BY <3>1 DEF IInv, BatchInv, Draining, Tailing
      <3>3. batch[n - cur + 1] \in Blocks /\ batch[n - cur + 1] \in BatchBlocks
        BY <1>1, <3>1 DEF BatchBlocks
      <3>4. blockRow[batch[n - cur + 1]] # "absent"
        BY <3>3 DEF IInv, BatchInv, Persisted
      <3> QED BY <1>1, <3>2, <3>3, <3>4, ConfigAssumption
    <2> QED BY <1>1, <1>2, <2>1, <2>2, ConfigAssumption
  <1> QED BY <1>1, <1>2, <1>3

\* The checkpoint moves past a window only when all its rows are there.
LEMMA SaveWindowInv == ASSUME IInv, SaveWindow PROVE IInv'
  <1> USE ConfigAssumption DEF SaveWindow, AfterWindow
  <1>1. cur + Len(batch) \in Nat /\ cur + Len(batch) > 0 /\ StartBlock <= cur + Len(batch)
        /\ LastOf(batch) \in Blocks
    BY BatchCovers
  <1>2. checkpoint'.next = cur + Len(batch) /\ checkpoint'.hash = LastOf(batch)
        /\ checkpoint' \in Checkpoints
    BY <1>1 DEF Checkpoints
  <1>3. \A n \in StartBlock .. checkpoint'.next - 1 :
            \E b \in Blocks : Number[b] = n /\ blockRow[b] # "absent"
    BY <1>2, BatchCovers
  <1>4. reorgEvents' \in Seq(ReorgEvent)
    BY DEF IInv, TypeOK
  <1>5. Iterate(checkpoint'.next, checkpoint'.hash) /\ UNCHANGED <<world, facts, published, budget>>
    OBVIOUS
  <1> QED BY <1>1, <1>2, <1>3, <1>4, <1>5, IterateInv

\* A tailed block is the chain's block at the position.
LEMMA FetchBlockInv == ASSUME IInv, FetchBlock PROVE IInv'
  <1> USE ConfigAssumption DEF FetchBlock
  <1>1. /\ BlockAt(chain, cur) \in Blocks /\ Number[BlockAt(chain, cur)] = cur
        /\ cur \in Nat
    <2>1. chain \in Seq(Blocks) /\ \A i \in 1 .. Len(chain) : Number[chain[i]] = i - 1
      BY ChainAssumption DEF IInv, TypeOK, IsChain
    <2>2. cur \in Nat /\ cur + 1 \in 1 .. Len(chain)
      BY <2>1 DEF IInv, TypeOK, HeadInv, Tip
    <2> QED BY <2>1, <2>2 DEF BlockAt
  <1>2. batch' \in Seq(Blocks) /\ Len(batch') = 1 /\ batch'[1] = BlockAt(chain, cur) /\ batch' # << >>
    BY <1>1
  <1>3. pc' \in {"finality", "ancestor"} /\ probe' \in Nat /\ (pc' = "ancestor" => probe' < cur)
    <2>1. CASE ParentValid(BlockAt(chain, cur))
      BY <2>1 DEF IInv, TypeOK
    <2>2. CASE ~ParentValid(BlockAt(chain, cur))
      <3>1. cur > 0
        BY <2>2 DEF ParentValid, IInv, PositionInv
      <3> QED BY <1>1, <2>2, <3>1
    <2> QED BY <2>1, <2>2
  <1>4. TypeOK'
    BY <1>2, <1>3 DEF IInv, TypeOK, world, facts, handled, progress, budget, Lines
  <1>5. PositionInv' /\ HeadInv' /\ AncestorInv'
    BY <1>3 DEF IInv, PositionInv, HeadInv, AncestorInv, progress, facts, handled, world
  <1>6. BatchInv'
    BY <1>1, <1>2, <1>3 DEF BatchInv, Draining, Tailing, Persisted
  <1>7. CheckpointCovered' /\ JobsOnlyForDurableBlocks'
    BY DEF IInv, CheckpointCovered, JobsOnlyForDurableBlocks, facts, handled, progress
  <1> QED BY <1>4, <1>5, <1>6, <1>7 DEF IInv

\* The ancestor is a row, so it lies at or above the first block ever indexed.
LEMMA FindAncestorInv == ASSUME IInv, FindAncestor PROVE IInv'
  <1> USE ConfigAssumption DEF FindAncestor
  <1>1. probe \in Nat /\ cur \in Nat /\ probe < cur /\ StartBlock <= probe
    <2>1. PICK b \in CanonicalAt(blockRow, probe) : TRUE
      OBVIOUS
    <2>2. b \in Blocks /\ Number[b] = probe /\ blockRow[b] # "absent"
      BY <2>1 DEF CanonicalAt, CanonicalRows, IInv, TypeOK
    <2> QED BY <2>2 DEF IInv, TypeOK, AncestorInv
  <1>2. NewEvent(probe) \in ReorgEvent
    BY <1>1 DEF NewEvent, ReorgEvent
  <1>3. reorgEvents' \in Seq(ReorgEvent) /\ reorgEvents' # << >> /\ Event' = NewEvent(probe)
    <2>1. reorgEvents \in Seq(ReorgEvent) /\ reorgEvents' = Append(reorgEvents, NewEvent(probe))
      BY DEF IInv, TypeOK
    <2>2. reorgEvents' \in Seq(ReorgEvent) /\ Len(reorgEvents') = Len(reorgEvents) + 1
          /\ reorgEvents'[Len(reorgEvents) + 1] = NewEvent(probe)
      BY <1>2, <2>1
    <2> QED BY <2>1, <2>2 DEF Event, LastOf
  <1>4. TypeOK'
    BY <1>3 DEF IInv, TypeOK, world, facts, handled, memory, budget, Lines
  <1>5. PositionInv' /\ HeadInv'
    BY DEF IInv, PositionInv, HeadInv, memory, world
  <1>6. AncestorInv'
    <2>1. pc' = "orphan" /\ Event'.ancestor = probe
      BY <1>3 DEF NewEvent
    <2>2. stage' \in DOMAIN ReorgTables
      BY ReorgTablesLength DEF IInv, AncestorInv, memory
    <2> QED BY <1>1, <1>3, <2>1, <2>2 DEF IInv, AncestorInv, facts, handled, memory
  <1>7. BatchInv'
    BY DEF IInv, BatchInv, BatchBlocks, Draining, Tailing, Persisted, memory, facts, handled
  <1>8. CheckpointCovered' /\ JobsOnlyForDurableBlocks'
    BY DEF IInv, CheckpointCovered, JobsOnlyForDurableBlocks, facts, handled
  <1> QED BY <1>4, <1>5, <1>6, <1>7, <1>8 DEF IInv

\* The search for an ancestor goes down, and writes nothing.
LEMMA ProbeInv ==
    ASSUME IInv, ProbeLower \/ ProbeUnanswered \/ NoAncestor PROVE IInv'
  <1> USE DEF ProbeLower, ProbeUnanswered, NoAncestor
  <1>1. probe' \in Nat /\ (pc' = "ancestor" => probe' < cur)
    BY DEF IInv, TypeOK, AncestorInv, memory
  <1>2. failures' \in 0 .. MaxFailures /\ pc' \in Lines
    BY ConfigAssumption DEF IInv, TypeOK, memory, budget, Lines
  <1>3. TypeOK'
    BY <1>1, <1>2 DEF IInv, TypeOK, world, facts, handled, progress, memory, budget
  <1>4. PositionInv' /\ HeadInv'
    BY DEF IInv, PositionInv, HeadInv, progress, memory, world
  <1>5. AncestorInv'
    BY <1>1 DEF IInv, AncestorInv, facts, handled, progress, memory
  <1>6. BatchInv'
    BY DEF IInv, BatchInv, BatchBlocks, Draining, Tailing, Persisted, memory, facts, handled
  <1>7. CheckpointCovered' /\ JobsOnlyForDurableBlocks'
    BY DEF IInv, CheckpointCovered, JobsOnlyForDurableBlocks, facts, handled, progress
  <1> QED BY <1>3, <1>4, <1>5, <1>6, <1>7 DEF IInv

\* Orphaning keeps every row, so the checkpoint stays covered.
LEMMA OrphanTableRows ==
    ASSUME IInv, OrphanTable
    PROVE  /\ blockRow' \in [Blocks -> BlockStatus] /\ logRow' \in [Blocks -> FactStatus]
           /\ protocolRow' \in [Blocks -> FactStatus]
           /\ txRow' \in [Txs -> TxRows]
           /\ \A b \in Blocks : blockRow'[b] = "absent" <=> blockRow[b] = "absent"
           /\ \A b \in Blocks : logRow'[b] = "absent" <=> logRow[b] = "absent"
  <1> USE DEF OrphanTable
  <1>1. "orphaned" \in BlockStatus /\ blockRow \in [Blocks -> BlockStatus]
    BY DEF BlockStatus, IInv, TypeOK
  <1>2. "orphaned" \in FactStatus /\ logRow \in [Blocks -> FactStatus]
        /\ protocolRow \in [Blocks -> FactStatus]
    BY DEF FactStatus, IInv, TypeOK
  <1>3. txRow \in [Txs -> TxRows]
    BY DEF IInv, TypeOK
  <1>4. blockRow' = OrphanRange(blockRow, Event.from, Event.to) \/ blockRow' = blockRow
    OBVIOUS
  <1>5. logRow' = OrphanRange(logRow, Event.from, Event.to) \/ logRow' = logRow
    OBVIOUS
  <1>6. protocolRow' = OrphanRange(protocolRow, Event.from, Event.to) \/ protocolRow' = protocolRow
    OBVIOUS
  <1>7. txRow' = OrphanTxRange(txRow, Event.from, Event.to) \/ txRow' = txRow
    OBVIOUS
  <1>9. blockRow' \in [Blocks -> BlockStatus]
        /\ \A b \in Blocks : blockRow'[b] = "absent" <=> blockRow[b] = "absent"
    BY <1>1, <1>4, OrphanRangeRows
  <1>10. logRow' \in [Blocks -> FactStatus]
         /\ \A b \in Blocks : logRow'[b] = "absent" <=> logRow[b] = "absent"
    BY <1>2, <1>5, OrphanRangeRows
  <1>11. protocolRow' \in [Blocks -> FactStatus]
    BY <1>2, <1>6, OrphanRangeRows
  <1>12. txRow' \in [Txs -> TxRows]
    BY <1>3, <1>7, OrphanTxRangeType
  <1> HIDE DEF OrphanTable
  <1> QED BY <1>9, <1>10, <1>11, <1>12

\* One UPDATE of handleReorg keeps the invariant, whichever table it is for.
LEMMA OrphanTableInv == ASSUME IInv, OrphanTable PROVE IInv'
  <1>1. stage' = stage + 1 /\ stage \in 1 .. 7
        /\ (pc' = "orphan" \/ pc' = "resolve") /\ (pc' = "orphan" => stage # 7)
        /\ pc = "orphan"
    BY ReorgTablesLength DEF OrphanTable, IInv, AncestorInv
  <1>2. /\ UNCHANGED <<world, progress, cur, last, latest, batch, finality, probe, budget>>
        /\ UNCHANGED <<protocolJobs, swallowed>>
    BY DEF OrphanTable, handled
  <1>3. TypeOK'
    <2>1. stage' \in 1 .. Len(ReorgTables) + 1 /\ pc' \in Lines
      BY <1>1, ReorgTablesLength DEF Lines
    <2> QED BY <1>2, <2>1, OrphanTableRows DEF IInv, TypeOK, world, progress, budget
  <1>4. PositionInv' /\ HeadInv'
    BY <1>1, <1>2 DEF IInv, PositionInv, HeadInv, progress, world
  <1>5. AncestorInv'
    <2>1. pc' = "orphan" => stage' \in DOMAIN ReorgTables
      BY <1>1, ReorgTablesLength
    <2>2. Event' = Event /\ reorgEvents' = reorgEvents /\ cur' = cur
      BY <1>2 DEF progress, Event, LastOf
    <2> QED BY <1>1, <2>1, <2>2, OrphanTableRows DEF IInv, AncestorInv
  <1>6. BatchInv'
    BY <1>1, <1>2, OrphanTableRows
    DEF IInv, BatchInv, BatchBlocks, Draining, Tailing, Persisted
  <1>7. CheckpointCovered' /\ JobsOnlyForDurableBlocks'
    BY <1>2, OrphanTableRows
    DEF IInv, TypeOK, CheckpointCovered, JobsOnlyForDurableBlocks, progress
  <1> QED BY <1>3, <1>4, <1>5, <1>6, <1>7 DEF IInv

\* The position goes back to the ancestor, which the checkpoint covers.
LEMMA ResolveReorgInv == ASSUME IInv, ResolveReorg PROVE IInv'
  <1> USE ConfigAssumption DEF ResolveReorg
  <1>0. reorgEvents \in Seq(ReorgEvent) /\ reorgEvents # << >>
        /\ Len(reorgEvents) \in 1 .. Len(reorgEvents)
    BY DEF IInv, TypeOK, AncestorInv
  <1>1. Event \in ReorgEvent
    BY <1>0 DEF Event, LastOf
  <1>2. Event.ancestor + 1 \in Nat /\ StartBlock <= Event.ancestor + 1
        /\ Event.ancestor + 1 <= checkpoint.next
    <2>1. Event.ancestor \in Nat
      BY <1>1 DEF ReorgEvent
    <2>2. StartBlock <= Event.ancestor /\ Event.ancestor < cur
      BY DEF IInv, AncestorInv
    <2>3. cur \in Nat /\ checkpoint \in Checkpoints /\ checkpoint.next \in Int
      <3> HIDE DEF ResolveReorg
      <3> QED BY DEF IInv, TypeOK, Checkpoints
    <2>4. cur <= checkpoint.next
      BY DEF IInv, PositionInv
    <2>5. StartBlock \in Nat
      BY ConfigAssumption
    <2>6. /\ Event.ancestor + 1 \in Nat
          /\ StartBlock <= Event.ancestor + 1
          /\ Event.ancestor + 1 <= checkpoint.next
      <3> DEFINE a == Event.ancestor
      <3>1. /\ a \in Nat /\ StartBlock <= a /\ a < cur /\ cur <= checkpoint.next
            /\ cur \in Nat /\ checkpoint.next \in Int /\ StartBlock \in Nat
        BY <2>1, <2>2, <2>3, <2>4, <2>5
      <3> HIDE DEF a, ResolveReorg
      <3> SUFFICES a + 1 \in Nat /\ StartBlock <= a + 1 /\ a + 1 <= checkpoint.next
        BY DEF a
      <3> QED BY <3>1
    <2> QED BY <2>6
  <1>3. reorgEvents' \in Seq(ReorgEvent)
    <2> DEFINE resolved == [Event EXCEPT !.resolved = TRUE]
    <2>1. resolved \in ReorgEvent
      BY <1>1 DEF ReorgEvent
    <2>2. reorgEvents' = [reorgEvents EXCEPT ![Len(reorgEvents)] = resolved]
      BY <1>0 DEF Event, LastOf
    <2> HIDE DEF resolved, ResolveReorg
    <2>3. [reorgEvents EXCEPT ![Len(reorgEvents)] = resolved] \in Seq(ReorgEvent)
      BY <1>0, <2>1, ExceptSeq
    <2> QED BY <2>2, <2>3
  <1>4. checkpoint' = checkpoint /\ (checkpoint.hash # NoHash => checkpoint.next > 0)
        /\ \A n \in StartBlock .. checkpoint.next - 1 :
              \E b \in Blocks : Number[b] = n /\ blockRow[b] # "absent"
    BY DEF IInv, PositionInv, CheckpointCovered
  <1>5. Iterate(Event.ancestor + 1, NoHash) /\ UNCHANGED <<world, facts, published, budget>>
    OBVIOUS
  <1>6. checkpoint \in Checkpoints
    <2> HIDE DEF ResolveReorg
    <2> QED BY DEF IInv, TypeOK
  <1> HIDE DEF ResolveReorg
  <1> QED BY <1>1, <1>2, <1>3, <1>4, <1>5, <1>6, IterateInv

\* Probing the finality moves nothing.
LEMMA DetermineFinalityInv == ASSUME IInv, DetermineFinality PROVE IInv'
  <1> USE DEF DetermineFinality
  <1>1. TypeOK'
    BY DEF FinalityOf, IInv, TypeOK, world, facts, handled, progress, budget, Lines
  <1>2. PositionInv' /\ HeadInv' /\ AncestorInv'
    BY DEF IInv, PositionInv, HeadInv, AncestorInv, progress, facts, handled, world
  <1>3. BatchInv'
    BY DEF IInv, BatchInv, BatchBlocks, Draining, Tailing, Persisted, facts, handled
  <1>4. CheckpointCovered' /\ JobsOnlyForDurableBlocks'
    BY DEF IInv, CheckpointCovered, JobsOnlyForDurableBlocks, facts, handled, progress
  <1> QED BY <1>1, <1>2, <1>3, <1>4 DEF IInv

\* The checkpoint moves past a tailed block only when its rows are there.
LEMMA SaveBlockInv == ASSUME IInv, SaveBlock PROVE IInv'
  <1> USE ConfigAssumption DEF SaveBlock
  <1>1. Len(batch) = 1 /\ cur \in Nat /\ StartBlock <= cur /\ LastOf(batch) \in Blocks
    BY BatchCovers DEF IInv, BatchInv, Tailing
  <1>2. /\ checkpoint' \in Checkpoints /\ checkpoint'.next = cur + 1 /\ checkpoint' # NoCheckpoint
    BY <1>1 DEF Checkpoints, NoCheckpoint
  <1>3. TypeOK'
    BY <1>2 DEF IInv, TypeOK, world, facts, handled, memory, budget, Lines
  <1>4. PositionInv'
    BY <1>1, <1>2 DEF IInv, PositionInv, memory
  <1>5. HeadInv' /\ AncestorInv'
    BY DEF IInv, HeadInv, AncestorInv, facts, handled, memory, world
  <1>6. BatchInv'
    BY DEF IInv, BatchInv, BatchBlocks, Draining, Tailing, Persisted, facts, handled, memory
  <1>7. CheckpointCovered'
    BY <1>1, <1>2, BatchCovers DEF CheckpointCovered, facts, handled
  <1>8. JobsOnlyForDurableBlocks'
    BY DEF IInv, JobsOnlyForDurableBlocks, facts, handled
  <1> QED BY <1>3, <1>4, <1>5, <1>6, <1>7, <1>8 DEF IInv

\* Publishing a tailed block's jobs ends the iteration below the checkpoint.
LEMMA PublishBlockInv == ASSUME IInv, PublishBlock PROVE IInv'
  <1> USE ConfigAssumption DEF PublishBlock
  <1>1. /\ cur \in Nat /\ StartBlock <= cur /\ cur < checkpoint.next /\ checkpoint \in Checkpoints
        /\ checkpoint.next \in Int
    BY DEF IInv, TypeOK, PositionInv, Checkpoints
  <1>2. LastOf(batch) \in Blocks /\ BatchBlocks \subseteq Blocks
    BY DEF IInv, TypeOK, BatchInv, BatchBlocks, Tailing, LastOf
  <1>3. \A b \in BatchBlocks : blockRow[b] # "absent" /\ logRow[b] # "absent"
    BY DEF IInv, BatchInv, Persisted
  <1>4. TypeOK'
    <2>1. pc' \in Lines /\ stage' \in 1 .. Len(ReorgTables) + 1 /\ batch' \in Seq(Blocks)
          /\ finality' \in {"unfinal", "finalized"}
      BY ReorgTablesLength DEF Iterate, Lines
    <2>2. cur' \in Nat /\ last' \in Blocks /\ latest' \in Nat /\ probe' \in Nat
      BY <1>1, <1>2 DEF Iterate
    <2>3. published' \in SUBSET Blocks
      BY <1>2 DEF IInv, TypeOK
    <2> QED BY <2>1, <2>2, <2>3 DEF IInv, TypeOK, world, facts, handled, budget
  <1>5. PositionInv'
    BY <1>1 DEF IInv, PositionInv, Iterate
  <1>6. HeadInv' /\ BatchInv' /\ AncestorInv'
    BY DEF IInv, HeadInv, BatchInv, AncestorInv, Iterate, Draining, Tailing, Persisted, facts, handled
  <1>7. CheckpointCovered' /\ JobsOnlyForDurableBlocks'
    BY <1>3 DEF IInv, CheckpointCovered, JobsOnlyForDurableBlocks, facts, handled
  <1> QED BY <1>4, <1>5, <1>6, <1>7 DEF IInv

\* A failed await leaves the position where it was, at or below the checkpoint.
LEMMA FailInv == ASSUME IInv, Fail PROVE IInv'
  <1> USE ConfigAssumption DEF Fail
  <1>1. /\ cur \in Nat /\ last \in Blocks \cup {NoHash} /\ StartBlock <= cur
        /\ cur <= checkpoint.next /\ (last # NoHash => cur > 0)
        /\ (checkpoint.hash # NoHash => checkpoint.next > 0)
    BY DEF IInv, TypeOK, PositionInv
  <1>2. TypeOK'
    <2>1. pc' \in Lines /\ stage' \in 1 .. Len(ReorgTables) + 1 /\ batch' \in Seq(Blocks)
          /\ finality' \in {"unfinal", "finalized"}
      BY ReorgTablesLength DEF Iterate, Lines
    <2>2. cur' \in Nat /\ last' \in Blocks \cup {NoHash} /\ latest' \in Nat /\ probe' \in Nat
      BY <1>1 DEF Iterate
    <2>3. failures' \in 0 .. MaxFailures
      BY DEF IInv, TypeOK
    <2> QED BY <2>1, <2>2, <2>3 DEF IInv, TypeOK, world, facts, handled, progress
  <1>3. PositionInv'
    BY <1>1 DEF IInv, PositionInv, Iterate, progress
  <1>4. HeadInv' /\ BatchInv' /\ AncestorInv'
    BY DEF IInv, HeadInv, BatchInv, AncestorInv, Iterate, Draining, Tailing, Persisted, facts, handled
  <1>5. CheckpointCovered' /\ JobsOnlyForDurableBlocks'
    BY DEF IInv, CheckpointCovered, JobsOnlyForDurableBlocks, facts, handled, progress
  <1> QED BY <1>2, <1>3, <1>4, <1>5 DEF IInv

\* A crash forgets the process and keeps the databases.
LEMMA CrashInv == ASSUME IInv, Crash PROVE IInv'
  <1> USE ConfigAssumption DEF Crash
  <1>1. TypeOK'
    <2>1. pc' \in Lines /\ stage' \in 1 .. Len(ReorgTables) + 1 /\ batch' \in Seq(Blocks)
      BY ReorgTablesLength DEF Lines
    <2>2. crashes' \in 0 .. MaxCrashes
      BY DEF IInv, TypeOK
    <2> QED BY <2>1, <2>2 DEF IInv, TypeOK, world, facts, handled, progress
  <1>2. PositionInv' /\ HeadInv' /\ BatchInv' /\ AncestorInv'
    BY DEF IInv, PositionInv, HeadInv, BatchInv, AncestorInv, Draining, Tailing, Persisted,
           progress, facts, handled
  <1>3. CheckpointCovered' /\ JobsOnlyForDurableBlocks'
    BY DEF IInv, CheckpointCovered, JobsOnlyForDurableBlocks, facts, handled, progress
  <1> QED BY <1>1, <1>2, <1>3 DEF IInv

\* Nothing happens.
LEMMA StutterInv == ASSUME IInv, UNCHANGED vars PROVE IInv'
  BY DEF vars, world, facts, handled, progress, memory, budget, IInv, TypeOK, PositionInv, HeadInv,
         BatchInv, AncestorInv, BatchBlocks, Event, LastOf, CheckpointCovered,
         JobsOnlyForDurableBlocks

-------------------------------------------------------------------------------

\* IInv is inductive.
LEMMA NextInv == IInv /\ [Next]_vars => IInv'
  <1> SUFFICES ASSUME IInv, [Next]_vars PROVE IInv'
    OBVIOUS
  <1>1. CASE Extend \/ Reorg
    BY <1>1, EnvironmentInv
  <1>2. CASE Start
    BY <1>2, StartInv
  <1>3. CASE ReadHead
    BY <1>3, ReadHeadInv
  <1>4. CASE Drain
    BY <1>4, FetchWindowInv, PersistWindowInv, RouteInv, PublishWindowInv, SaveWindowInv
    DEF Drain
  <1>5. CASE HandleReorg
    BY <1>5, FindAncestorInv, ProbeInv, OrphanTableInv, ResolveReorgInv DEF HandleReorg
  <1>6. CASE TailBlock
    BY <1>6, FetchBlockInv, DetermineFinalityInv, PersistBlockInv, SaveBlockInv, RouteInv,
       PublishBlockInv DEF TailBlock
  <1>7. CASE Fail
    BY <1>7, FailInv
  <1>8. CASE Crash
    BY <1>8, CrashInv
  <1>9. CASE AtHead \/ UNCHANGED vars
    BY <1>9, StutterInv DEF AtHead
  <1>10. CASE ProbeUnanswered
    BY <1>10, ProbeInv
  <1> QED
    BY <1>1, <1>2, <1>3, <1>4, <1>5, <1>6, <1>7, <1>8, <1>9, <1>10 DEF Next, Indexer

\* The variables keep their types: no position is negative, no stage of
\* handleReorg is past its tables, and the event being handled exists.
THEOREM TypeCorrect == Spec => []TypeOK
  <1>1. IInv => TypeOK
    BY DEF IInv
  <1> QED BY InitInv, NextInv, <1>1, PTL DEF Spec

\* A restart never resumes past a height that was not written: whatever the
\* chain does and wherever the process fails or dies, the checkpoint of
\* createOrUpdateCheckpoint covers only heights with a block row.
THEOREM CheckpointIsCovered == Spec => []CheckpointCovered
  <1>1. IInv => CheckpointCovered
    BY DEF IInv
  <1> QED BY InitInv, NextInv, <1>1, PTL DEF Spec

\* No derived job is ever queued for a block whose rows are not committed.
THEOREM JobsFindTheirBlocks == Spec => []JobsOnlyForDurableBlocks
  <1>1. IInv => JobsOnlyForDurableBlocks
    BY DEF IInv
  <1> QED BY InitInv, NextInv, <1>1, PTL DEF Spec

-------------------------------------------------------------------------------
(* What handleReorg has marked stays marked until the event is resolved.   *)

\* An UPDATE leaves no canonical row of the range in its table, and makes no
\* row of another range canonical.
LEMMA OrphanRangeCleans ==
    ASSUME NEW rows \in [Blocks -> BlockStatus \cup FactStatus], NEW from, NEW to, NEW x, NEW y
    PROVE  /\ Clean(OrphanRange(rows, from, to), from, to)
           /\ Clean(rows, x, y) => Clean(OrphanRange(rows, from, to), x, y)
  BY DEF Clean, OrphanRange, CanonicalRows, InRange

\* The same of a table keyed by transaction hash.
LEMMA OrphanTxRangeCleans ==
    ASSUME NEW rows \in [Txs -> TxRows], NEW from, NEW to, NEW x, NEW y
    PROVE  /\ TxClean(OrphanTxRange(rows, from, to), from, to)
           /\ TxClean(rows, x, y) => TxClean(OrphanTxRange(rows, from, to), x, y)
  BY DEF TxClean, OrphanTxRange, TxRows, InRange

\* One UPDATE of handleReorg cleans its own table and soils no other.
LEMMA OrphanTableCleans ==
    ASSUME IInv, OrphanTable, NEW table,
           table = ReorgTables[stage] \/ TableClean(table, Event)
    PROVE  TableClean(table, Event)'
  <1> DEFINE from == Event.from
             to == Event.to
             now == ReorgTables[stage]
  <1>1. /\ blockRow \in [Blocks -> BlockStatus \cup FactStatus]
        /\ logRow \in [Blocks -> BlockStatus \cup FactStatus]
        /\ protocolRow \in [Blocks -> BlockStatus \cup FactStatus]
        /\ txRow \in [Txs -> TxRows]
    BY DEF IInv, TypeOK
  <1>2. /\ blockRow' = IF now = "blocks" THEN OrphanRange(blockRow, from, to) ELSE blockRow
        /\ logRow' = IF now = "logs" THEN OrphanRange(logRow, from, to) ELSE logRow
        /\ protocolRow' = IF now = "protocol" THEN OrphanRange(protocolRow, from, to)
                          ELSE protocolRow
        /\ txRow' = IF now = "transactions" THEN OrphanTxRange(txRow, from, to) ELSE txRow
        /\ Event' = Event
    BY DEF OrphanTable, Event, LastOf, progress
  <1>3. /\ Clean(OrphanRange(blockRow, from, to), from, to)
        /\ Clean(OrphanRange(logRow, from, to), from, to)
        /\ Clean(OrphanRange(protocolRow, from, to), from, to)
        /\ TxClean(OrphanTxRange(txRow, from, to), from, to)
    BY <1>1, OrphanRangeCleans, OrphanTxRangeCleans
  <1>4. /\ table = "blocks" => Clean(blockRow, from, to) \/ now = "blocks"
        /\ table = "transactions" => TxClean(txRow, from, to) \/ now = "transactions"
        /\ table = "logs" => Clean(logRow, from, to) \/ now = "logs"
        /\ table = "protocol" => Clean(protocolRow, from, to) \/ now = "protocol"
    BY DEF TableClean
  <1> HIDE DEF from, to, now
  <1>5. /\ table = "blocks" => Clean(blockRow', from, to)
        /\ table = "transactions" => TxClean(txRow', from, to)
        /\ table = "logs" => Clean(logRow', from, to)
        /\ table = "protocol" => Clean(protocolRow', from, to)
    BY <1>2, <1>3, <1>4
  <1>6. (TableClean(table, Event))' <=>
            /\ table = "blocks" => Clean(blockRow', Event'.from, Event'.to)
            /\ table = "transactions" => TxClean(txRow', Event'.from, Event'.to)
            /\ table = "logs" => Clean(logRow', Event'.from, Event'.to)
            /\ table = "protocol" => Clean(protocolRow', Event'.from, Event'.to)
    BY DEF TableClean, Clean, TxClean
  <1>7. Event'.from = from /\ Event'.to = to
    BY <1>2 DEF from, to
  <1> QED BY <1>5, <1>6, <1>7

\* Only handleReorg works on a range while its event is open.
LEMMA MarkedStep == IInv /\ MarkedInv /\ [Next]_vars => MarkedInv'
  <1> SUFFICES ASSUME IInv, MarkedInv, [Next]_vars, pc' \in {"orphan", "resolve"}
               PROVE  MarkedInv'
    BY DEF MarkedInv
  <1>1. CASE OrphanTable
    <2>1. stage' = stage + 1 /\ stage \in 1 .. 7 /\ (pc' = "resolve" => stage = 7) /\ pc = "orphan"
      BY <1>1, ReorgTablesLength DEF OrphanTable, IInv, AncestorInv
    <2>2. ASSUME NEW j \in DOMAIN ReorgTables, j < stage + 1
          PROVE  TableClean(ReorgTables[j], Event)'
      <3>1. j = stage \/ j < stage
        BY <2>1, <2>2, ReorgTablesLength
      <3>2. ReorgTables[j] = ReorgTables[stage] \/ TableClean(ReorgTables[j], Event)
        BY <2>1, <3>1 DEF MarkedInv
      <3> QED BY <1>1, <3>2, OrphanTableCleans
    <2> QED BY <2>1, <2>2, ReorgTablesLength DEF MarkedInv
  <1>2. CASE FindAncestor
    <2>1. stage' = 1 /\ pc' = "orphan"
      BY <1>2 DEF FindAncestor, memory, IInv, AncestorInv
    <2> QED BY <2>1, ReorgTablesLength DEF MarkedInv
  <1>3. CASE Extend \/ Reorg \/ AtHead \/ UNCHANGED vars
    <2>1. UNCHANGED <<facts, progress, pc, memory>>
      BY <1>3 DEF Extend, Reorg, AtHead, vars
    <2> QED BY <2>1 DEF facts, handled, progress, memory, MarkedInv, TableClean, Event, LastOf, Clean,
                        TxClean
  <1>4. ASSUME Start \/ ReadHead \/ Drain \/ TailBlock \/ ProbeLower \/ NoAncestor
               \/ ProbeUnanswered \/ ResolveReorg \/ Fail \/ Crash
        PROVE  FALSE
    BY <1>4 DEF Start, ReadHead, Drain, TailBlock, ProbeLower, NoAncestor, ResolveReorg, Fail,
           Crash, ProbeUnanswered, Iterate, FetchWindow, PersistWindow, RouteWindow, PublishWindow, SaveWindow,
           FetchBlock, DetermineFinality, PersistBlock, SaveBlock, RouteBlock, PublishBlock
  <1> QED BY <1>1, <1>2, <1>3, <1>4 DEF Next, Indexer, HandleReorg

\* handleReorg resolves its event last, so all its tables are clean by then.
LEMMA ResolvedStep ==
    ASSUME IInv, MarkedInv, [Next]_vars
    PROVE  [\A i \in DOMAIN reorgEvents :
               reorgEvents'[i].resolved /\ ~reorgEvents[i].resolved => AllClean(reorgEvents[i])]_vars
  <1> SUFFICES ASSUME NEW i \in DOMAIN reorgEvents,
                      reorgEvents'[i].resolved, ~reorgEvents[i].resolved
               PROVE  AllClean(reorgEvents[i])
    OBVIOUS
  <1>1. CASE ResolveReorg
    <2>1. reorgEvents[i] = Event
      <3>1. i = Len(reorgEvents)
        BY <1>1 DEF ResolveReorg, IInv, TypeOK
      <3> QED BY <3>1 DEF Event, LastOf
    <2>2. \A j \in 1 .. 7 : TableClean(ReorgTables[j], Event)
      BY <1>1, ReorgTablesLength DEF ResolveReorg, MarkedInv
    <2>3. /\ TableClean("blocks", Event) /\ TableClean("transactions", Event)
          /\ TableClean("logs", Event) /\ TableClean("protocol", Event)
      <3>1. /\ ReorgTables[1] = "blocks" /\ ReorgTables[2] = "transactions"
            /\ ReorgTables[3] = "logs" /\ ReorgTables[6] = "protocol"
        BY DEF ReorgTables
      <3> QED BY <2>2, <3>1
    <2> QED BY <2>1, <2>3 DEF AllClean, TableClean
  <1>2. CASE FindAncestor
    <2>1. reorgEvents'[i] = reorgEvents[i]
      BY <1>2 DEF FindAncestor, IInv, TypeOK
    <2> QED BY <2>1
  <1>3. CASE ~ResolveReorg /\ ~FindAncestor
    <2>1. reorgEvents' = reorgEvents
      BY <1>3 DEF Next, Indexer, HandleReorg, Drain, TailBlock, progress, vars, Extend, Reorg,
             AtHead, Fail, Crash, Start, ReadHead, FetchWindow, PersistWindow, RouteWindow,
             PublishWindow, SaveWindow, FetchBlock, DetermineFinality, PersistBlock, SaveBlock,
             RouteBlock, PublishBlock, ProbeLower, ProbeUnanswered, NoAncestor,
             OrphanTable
    <2> QED BY <2>1
  <1> QED BY <1>1, <1>2, <1>3

\* When handleReorg resolves an event, no table holds a canonical row of the
\* heights it abandoned, for any fork, range and number of failed attempts.
THEOREM ResolvedReorgsAreClean == Spec => ReorgResolvedClean
  <1>1. Init => MarkedInv
    BY DEF Init, MarkedInv
  <1>2. IInv /\ MarkedInv /\ [Next]_vars =>
            [\A i \in DOMAIN reorgEvents :
                reorgEvents'[i].resolved /\ ~reorgEvents[i].resolved => AllClean(reorgEvents[i])]_vars
    BY ResolvedStep
  <1> QED BY InitInv, NextInv, <1>1, MarkedStep, <1>2, PTL DEF Spec, ReorgResolvedClean

-------------------------------------------------------------------------------
(* Published jobs and the position.                                        *)

\* The heights of a batch are those the position passes.
LEMMA BatchCoversHeights ==
    ASSUME IInv, pc \in Draining \cup Tailing,
           NEW n \in cur .. cur + Len(batch) - 1
    PROVE  \E b \in BatchBlocks : Number[b] = n
  <1>1. cur \in Nat /\ Len(batch) \in Nat /\ \A i \in 1 .. Len(batch) : Number[batch[i]] = cur + i - 1
    BY DEF IInv, TypeOK, BatchInv
  <1>2. n - cur + 1 \in 1 .. Len(batch) /\ cur + (n - cur + 1) - 1 = n
    BY <1>1
  <1>3. batch[n - cur + 1] \in BatchBlocks
    BY <1>2 DEF BatchBlocks, IInv, TypeOK
  <1>4. Number[batch[n - cur + 1]] = n
    BY <1>1, <1>2
  <1> QED BY <1>3, <1>4

\* handleReorg works on an event whose ancestor is below the position.
LEMMA HandledEvent ==
    ASSUME IInv, pc \in Handling
    PROVE  /\ reorgEvents \in Seq(ReorgEvent) /\ Len(reorgEvents) \in DOMAIN reorgEvents
           /\ Event = reorgEvents[Len(reorgEvents)] /\ Event \in ReorgEvent
           /\ Event.ancestor \in Nat /\ Event.from \in Nat /\ Event.to \in Int
           /\ StartBlock <= Event.ancestor /\ Event.ancestor < cur /\ cur \in Nat
  <1>1. reorgEvents \in Seq(ReorgEvent) /\ reorgEvents # << >> /\ cur \in Nat
        /\ StartBlock <= Event.ancestor /\ Event.ancestor < cur
    BY DEF IInv, TypeOK, AncestorInv, Handling
  <1>2. Len(reorgEvents) \in DOMAIN reorgEvents /\ Event = reorgEvents[Len(reorgEvents)]
        /\ Event \in ReorgEvent
    BY <1>1 DEF Event, LastOf
  <1> QED BY <1>1, <1>2 DEF ReorgEvent

\* No step takes a job back, and nothing but these adds one.
LEMMA JobsGrow ==
    ASSUME [Next]_vars
    PROVE  /\ published \subseteq published' /\ protocolJobs \subseteq protocolJobs'
           /\ swallowed \subseteq swallowed'
           /\ RouteWindow \/ RouteBlock =>
                  BatchBlocks \subseteq protocolJobs' \cup swallowed'
           /\ PublishWindow \/ PublishBlock => BatchBlocks \subseteq published'
  <1>1. CASE Extend \/ Reorg \/ AtHead \/ UNCHANGED vars \/ Fail \/ Crash
    BY <1>1 DEF Extend, Reorg, AtHead, Fail, Crash, vars, facts, handled, progress,
           RouteWindow, RouteBlock, PublishWindow, PublishBlock, HandleProtocolEvents
  <1>2. CASE Start \/ ReadHead \/ FetchWindow \/ SaveWindow \/ FetchBlock \/ DetermineFinality
             \/ SaveBlock \/ FindAncestor \/ ProbeLower \/ ProbeUnanswered \/ NoAncestor
             \/ ResolveReorg
    BY <1>2 DEF Start, ReadHead, FetchWindow, SaveWindow, FetchBlock, DetermineFinality,
           SaveBlock, FindAncestor, ProbeLower, ProbeUnanswered, NoAncestor, ResolveReorg,
           facts, handled, progress, RouteWindow, RouteBlock, PublishWindow, PublishBlock
  <1>3. CASE PersistWindow \/ PersistBlock \/ OrphanTable
    BY <1>3 DEF PersistWindow, PersistBlock, OrphanTable, InsertBatch, handled, progress,
           RouteWindow, RouteBlock, PublishWindow, PublishBlock
  <1>4. CASE PublishWindow \/ PublishBlock
    BY <1>4 DEF PublishWindow, PublishBlock, RouteWindow, RouteBlock, facts, handled
  <1>5. CASE RouteWindow \/ RouteBlock
    BY <1>5 DEF RouteWindow, RouteBlock, PublishWindow, PublishBlock, HandleProtocolEvents, progress
  <1> QED BY <1>1, <1>2, <1>3, <1>4, <1>5 DEF Next, Indexer, Drain, HandleReorg, TailBlock

\* Where the position does not move up, the heights below it keep their jobs.
LEMMA SameJobs ==
    ASSUME IInv, JobsForEveryHeight, [Next]_vars,
           crashes' = 0 => crashes = 0 /\ cur' \in Nat /\ cur' <= cur
    PROVE  JobsForEveryHeight'
  <1>1. cur \in Nat /\ StartBlock \in Nat
    BY ConfigAssumption DEF IInv, TypeOK
  <1>2. ASSUME crashes' = 0, NEW n \in StartBlock .. cur' - 1
        PROVE  \E b \in published' \cap (protocolJobs' \cup swallowed') : Number[b] = n
    <2>1. n \in StartBlock .. cur - 1
      BY <1>1, <1>2
    <2> QED BY <1>2, <2>1, JobsGrow DEF JobsForEveryHeight
  <1> QED BY <1>2 DEF JobsForEveryHeight

\* Where it passes a batch, the batch's jobs are out.
LEMMA PassJobs ==
    ASSUME IInv, JobsInv, [Next]_vars, SaveWindow \/ PublishBlock
    PROVE  JobsForEveryHeight'
  <1>1. cur \in Nat /\ StartBlock \in Nat /\ Len(batch) \in Nat
    BY ConfigAssumption DEF IInv, TypeOK
  <1>2. /\ cur' = cur + Len(batch) /\ crashes' = crashes
        /\ pc \in Draining \cup Tailing /\ pc \in Routed
    BY DEF SaveWindow, PublishBlock, Iterate, AfterWindow, budget, Routed, Draining, Tailing,
           IInv, BatchInv
  <1>3. BatchBlocks \subseteq published' \cap (protocolJobs' \cup swallowed')
    <2>1. BatchBlocks \subseteq published'
      BY JobsGrow DEF SaveWindow, PublishBlock, JobsInv
    <2> QED BY <1>2, <2>1, JobsGrow DEF JobsInv
  <1>4. ASSUME crashes' = 0, NEW n \in StartBlock .. cur' - 1
        PROVE  \E b \in published' \cap (protocolJobs' \cup swallowed') : Number[b] = n
    <2>1. n \in StartBlock .. cur - 1 \/ n \in cur .. cur + Len(batch) - 1
      BY <1>1, <1>2
    <2>2. CASE n \in StartBlock .. cur - 1
      BY <1>2, <1>4, <2>2, JobsGrow DEF JobsInv, JobsForEveryHeight
    <2>3. CASE n \in cur .. cur + Len(batch) - 1
      BY <1>2, <1>3, <2>3, BatchCoversHeights
    <2> QED BY <2>1, <2>2, <2>3
  <1> QED BY <1>4 DEF JobsForEveryHeight

\* A step that does not arrive behind a batch that was not routed or published.
LEMMA SameRouting ==
    ASSUME JobsInv, [Next]_vars, pc' \in Routed => pc \in Routed /\ batch' = batch,
           pc' = "saveWindow" => pc = "saveWindow"
    PROVE  /\ pc' = "saveWindow" => BatchBlocks' \subseteq published'
           /\ pc' \in Routed => BatchBlocks' \subseteq protocolJobs' \cup swallowed'
  <1>1. batch' = batch => BatchBlocks' = BatchBlocks
    BY DEF BatchBlocks
  <1> QED BY <1>1, JobsGrow DEF JobsInv, Routed

\* JobsInv is inductive: the position passes a window or a block only when its
\* jobs are out.
LEMMA JobsStep == IInv /\ JobsInv /\ [Next]_vars => JobsInv'
  <1> SUFFICES ASSUME IInv, JobsInv, [Next]_vars PROVE JobsInv'
    OBVIOUS
  <1> USE ConfigAssumption
  <1>0. cur \in Nat /\ crashes \in Nat
    BY DEF IInv, TypeOK
  <1>1. CASE Start
    <2>1. crashes = 0 => cur' = StartBlock
      BY <1>1 DEF Start, JobsInv, Iterate
    <2>2. pc' = "top" /\ crashes' = crashes
      BY <1>1 DEF Start, Iterate, budget
    <2>3. JobsForEveryHeight'
      BY <2>1, <2>2 DEF JobsForEveryHeight
    <2> QED BY <2>2, <2>3 DEF JobsInv, Routed
  <1>2. CASE PublishWindow
    <2>1. /\ cur' = cur /\ crashes' = crashes /\ pc' = "saveWindow" /\ pc = "publishWindow"
          /\ BatchBlocks' = BatchBlocks
      BY <1>2 DEF PublishWindow, memory, budget, BatchBlocks
    <2>2. BatchBlocks \subseteq published' /\ BatchBlocks \subseteq protocolJobs' \cup swallowed'
      BY <1>2, <2>1, JobsGrow DEF JobsInv, Routed
    <2>3. JobsForEveryHeight'
      BY <1>0, <2>1, SameJobs DEF JobsInv
    <2> QED BY <2>1, <2>2, <2>3 DEF JobsInv
  <1>3. CASE SaveWindow \/ PublishBlock
    <2>1. pc' = "top"
      BY <1>3 DEF SaveWindow, PublishBlock, Iterate
    <2> QED BY <1>3, <2>1, PassJobs DEF JobsInv, Routed
  <1>4. CASE RouteWindow \/ RouteBlock
    <2>1. /\ cur' = cur /\ crashes' = crashes /\ pc' \in {"publishWindow", "publish"}
          /\ BatchBlocks' = BatchBlocks
      BY <1>4 DEF RouteWindow, RouteBlock, memory, budget, BatchBlocks
    <2>2. BatchBlocks \subseteq protocolJobs' \cup swallowed'
      BY <1>4, JobsGrow
    <2>3. JobsForEveryHeight'
      BY <1>0, <2>1, SameJobs DEF JobsInv
    <2> QED BY <2>1, <2>2, <2>3 DEF JobsInv
  <1>5. CASE ResolveReorg
    <2>1. cur' = Event.ancestor + 1 /\ pc' = "top" /\ crashes' = crashes
      BY <1>5 DEF ResolveReorg, Iterate, budget
    <2>2. Event.ancestor + 1 <= cur /\ Event.ancestor \in Nat
      BY <1>0, <1>5, HandledEvent DEF ResolveReorg, Handling
    <2>3. JobsForEveryHeight'
      BY <1>0, <2>1, <2>2, SameJobs DEF JobsInv
    <2> QED BY <2>1, <2>3 DEF JobsInv, Routed
  <1>6. CASE Crash
    <2>1. crashes' # 0 /\ pc' = "down"
      BY <1>0, <1>6 DEF Crash
    <2> QED BY <2>1 DEF JobsInv, JobsForEveryHeight, Routed
  <1>7. CASE Fail
    <2>1. cur' = cur /\ crashes' = crashes /\ pc' = "top"
      BY <1>7 DEF Fail, Iterate
    <2>2. JobsForEveryHeight'
      BY <1>0, <2>1, SameJobs DEF JobsInv
    <2> QED BY <2>1, <2>2 DEF JobsInv, Routed
  <1>8. CASE Extend \/ Reorg \/ AtHead \/ UNCHANGED vars
    <2>1. UNCHANGED <<cur, crashes, pc, batch, checkpoint>>
      BY <1>8 DEF Extend, Reorg, AtHead, vars, progress, memory, budget
    <2>2. JobsForEveryHeight'
      BY <1>0, <2>1, SameJobs DEF JobsInv
    <2> QED BY <2>1, <2>2, SameRouting DEF JobsInv
  <1>9. CASE ReadHead \/ FetchWindow \/ PersistWindow \/ FetchBlock
             \/ DetermineFinality \/ PersistBlock \/ SaveBlock
             \/ FindAncestor \/ ProbeLower \/ ProbeUnanswered \/ NoAncestor \/ OrphanTable
    <2>1. UNCHANGED <<cur, crashes>> /\ pc' # "down" /\ pc' \notin Routed
      BY <1>9 DEF ReadHead, FetchWindow, PersistWindow, FetchBlock, Routed,
             DetermineFinality, PersistBlock, SaveBlock, FindAncestor, ProbeLower,
             ProbeUnanswered, NoAncestor, OrphanTable, progress, memory, budget
    <2>2. JobsForEveryHeight'
      BY <1>0, <2>1, SameJobs DEF JobsInv
    <2> QED BY <2>1, <2>2 DEF JobsInv, Routed
  <1> QED
    BY <1>1, <1>2, <1>3, <1>4, <1>5, <1>6, <1>7, <1>8, <1>9
    DEF Next, Indexer, Drain, HandleReorg, TailBlock

\* As long as the process lives, the loop passes no height before the discovery jobs
\* of a block of it are out, whatever fails between its checkpoint and its jobs; and
\* so are its protocol events' jobs, but for what their handler swallowed.
THEOREM JobsBeforeTheNextHeight == Spec => []JobsForEveryHeight
  <1>1. Init => JobsInv
    BY ConfigAssumption DEF Init, JobsInv, JobsForEveryHeight, Routed
  <1>2. JobsInv => JobsForEveryHeight
    BY DEF JobsInv
  <1> QED BY InitInv, NextInv, <1>1, JobsStep, <1>2, PTL DEF Spec

-------------------------------------------------------------------------------
(* The checkpoint goes back only after a reorg.                            *)

\* Every step but these leaves the position, the checkpoint and the events.
LEMMA QuietStep ==
    ASSUME [Next]_vars,
           ~(Start \/ SaveWindow \/ SaveBlock \/ PublishBlock \/ FindAncestor \/ ResolveReorg \/ Crash)
    PROVE  /\ UNCHANGED <<cur, last, checkpoint, reorgEvents, crashes>>
           /\ pc' \in {"route", "publish"} => pc \in {"route", "publish"}
           /\ pc' \in Handling => pc \in Handling
           /\ pc' = "down" => pc = "down"
           /\ pc' = "ancestor" => pc = "ancestor" \/ last # NoHash
  <1>1. CASE ReadHead \/ FetchWindow \/ PersistWindow \/ RouteWindow \/ PublishWindow
    BY <1>1 DEF ReadHead, FetchWindow, PersistWindow, RouteWindow, PublishWindow,
           Handling, progress, memory, budget
  <1>2. CASE FetchBlock \/ DetermineFinality \/ PersistBlock \/ RouteBlock
    BY <1>2 DEF FetchBlock, ParentValid, DetermineFinality, PersistBlock, RouteBlock,
           Handling, progress, memory, budget
  <1>3. CASE ProbeLower \/ ProbeUnanswered \/ NoAncestor \/ OrphanTable
    BY <1>3 DEF ProbeLower, ProbeUnanswered, NoAncestor, OrphanTable, Handling, progress,
           memory, budget
  <1>4. CASE Fail
    BY <1>4 DEF Fail, Iterate, Handling, progress
  <1>5. CASE Extend \/ Reorg \/ AtHead \/ UNCHANGED vars
    BY <1>5 DEF Extend, Reorg, AtHead, vars, progress, memory, budget
  <1> QED BY <1>1, <1>2, <1>3, <1>4, <1>5
          DEF Next, Indexer, Drain, HandleReorg, TailBlock

\* Only a start begins anew.
LEMMA NotDown == ASSUME [Next]_vars, pc = "down", pc' # "down" PROVE Start
  BY DEF Next, Indexer, Drain, HandleReorg, TailBlock, ReadHead, FetchWindow, PersistWindow,
         RouteWindow, PublishWindow, SaveWindow, FetchBlock, DetermineFinality, PersistBlock,
         SaveBlock, RouteBlock, PublishBlock, FindAncestor, ProbeLower, ProbeUnanswered,
         NoAncestor, OrphanTable, ResolveReorg, Fail, Crash, Extend, Reorg, AtHead, vars

\* RewindInv is inductive: resolving a reorg is what takes the position back.
LEMMA RewindStep == IInv /\ RewindInv /\ [Next]_vars => RewindInv'
  <1> SUFFICES ASSUME IInv, RewindInv, [Next]_vars PROVE RewindInv'
    OBVIOUS
  <1>0. cur \in Nat /\ checkpoint.next \in Int
    BY DEF IInv, TypeOK, Checkpoints
  <1>1. CASE Start
    BY <1>1 DEF Start, Iterate, RewindInv, Handling
  <1>2. CASE SaveWindow
    BY <1>2 DEF SaveWindow, Iterate, RewindInv, Handling
  <1>3. CASE SaveBlock
    <2>1. checkpoint'.next = cur + 1 /\ cur' = cur /\ pc' = "route"
      BY <1>3 DEF SaveBlock, memory
    <2> QED BY <2>1 DEF RewindInv, Handling
  <1>4. CASE PublishBlock
    <2>1. checkpoint'.next = cur' /\ pc' = "top"
      BY <1>4 DEF PublishBlock, Iterate, RewindInv
    <2> QED BY <2>1 DEF RewindInv, Handling
  <1>5. CASE FindAncestor
    <2>1. pc = "ancestor" /\ pc' = "orphan" /\ UNCHANGED <<checkpoint, cur, last>>
      BY <1>5 DEF FindAncestor, memory
    <2>2. reorgEvents \in Seq(ReorgEvent) /\ reorgEvents' = Append(reorgEvents, NewEvent(probe))
      BY <1>5 DEF FindAncestor, IInv, TypeOK
    <2>3. Event' = NewEvent(probe)
      BY <2>2 DEF Event, LastOf
    <2> QED BY <2>1, <2>3 DEF RewindInv, Handling, NewEvent
  <1>6. CASE ResolveReorg
    <2>1. pc \in Handling /\ pc' = "top" /\ checkpoint' = checkpoint /\ last' = NoHash
          /\ cur' = Event.ancestor + 1
      BY <1>6 DEF ResolveReorg, Iterate, Handling
    <2>2. checkpoint.next \in {cur, cur + 1} /\ Event.to = cur - 1
      BY <2>1 DEF RewindInv, Handling
    <2> DEFINE i == Len(reorgEvents)
    <2>3. i \in DOMAIN reorgEvents' /\ reorgEvents'[i].resolved
          /\ reorgEvents'[i].ancestor = Event.ancestor /\ reorgEvents'[i].to = Event.to
      BY <1>6, <2>1, HandledEvent DEF ResolveReorg, ReorgEvent
    <2>4. checkpoint'.next <= Event.to + 2
      BY <1>0, <2>1, <2>2
    <2> QED BY <2>1, <2>3, <2>4 DEF RewindInv, Handling
  <1>7. CASE Crash
    BY <1>7 DEF Crash, RewindInv, Handling
  <1>8. CASE ~(Start \/ SaveWindow \/ SaveBlock \/ PublishBlock \/ FindAncestor \/ ResolveReorg
               \/ Crash)
    <2>1. /\ UNCHANGED <<cur, last, checkpoint, reorgEvents>> /\ Event' = Event
          /\ pc' \in {"route", "publish"} => pc \in {"route", "publish"}
          /\ pc' \in Handling => pc \in Handling
          /\ pc' = "down" => pc = "down"
          /\ pc' = "ancestor" => pc = "ancestor" \/ last # NoHash
      BY <1>8, QuietStep DEF Event, LastOf
    <2>2. pc' # "down" => pc # "down"
      BY <1>8, NotDown
    <2>3. pc' \in {"ancestor"} \cup Handling => last' # NoHash
      BY <2>1 DEF RewindInv
    <2>4. pc' \in {"route", "publish"} => checkpoint'.next = cur' + 1
      BY <2>1 DEF RewindInv
    <2>5. pc' \in Handling => Event'.from = Event'.ancestor + 1 /\ Event'.to = cur' - 1
      BY <2>1 DEF RewindInv
    <2>6. pc' # "down" =>
            \/ checkpoint'.next \in {cur', cur' + 1}
            \/ /\ last' = NoHash
               /\ \E i \in DOMAIN reorgEvents' :
                     /\ reorgEvents'[i].resolved
                     /\ reorgEvents'[i].ancestor + 1 = cur'
                     /\ checkpoint'.next <= reorgEvents'[i].to + 2
      BY <2>1, <2>2 DEF RewindInv
    <2> QED BY <2>3, <2>4, <2>5, <2>6 DEF RewindInv
  <1> QED BY <1>1, <1>2, <1>3, <1>4, <1>5, <1>6, <1>7, <1>8

\* A step of the process that takes the checkpoint back finds the position at
\* the first block after a resolved reorg's ancestor.
LEMMA CheckpointBack ==
    ASSUME IInv, RewindInv, [Next]_vars, checkpoint'.next < checkpoint.next
    PROVE  \E i \in DOMAIN reorgEvents :
              /\ reorgEvents[i].resolved
              /\ reorgEvents[i].ancestor + 1 < checkpoint'.next
              /\ checkpoint'.next <= reorgEvents[i].to + 1
  <1>0. cur \in Nat /\ checkpoint.next \in Int /\ checkpoint'.next \in Int
        /\ reorgEvents \in Seq(ReorgEvent)
    <2>1. TypeOK /\ TypeOK'
      BY NextInv DEF IInv
    <2>2. checkpoint \in Checkpoints /\ checkpoint' \in Checkpoints
      BY <2>1 DEF TypeOK
    <2>3. cur \in Nat /\ reorgEvents \in Seq(ReorgEvent)
      BY <2>1 DEF TypeOK
    <2> QED BY <2>2, <2>3 DEF Checkpoints
  <1>1. /\ pc # "down"
        /\ cur < checkpoint'.next
    <2>1. CASE Start
      <3>1. checkpoint = NoCheckpoint /\ checkpoint'.next = StartBlock
        BY <1>0, <2>1 DEF Start
      <3> QED BY <3>1, ConfigAssumption DEF NoCheckpoint
    <2>2. CASE SaveWindow
      <3>1. checkpoint'.next = cur + Len(batch) /\ Len(batch) \in Nat /\ Len(batch) >= 1
        BY <2>2, BatchCovers DEF SaveWindow, AfterWindow
      <3> QED BY <1>0, <2>2, <3>1 DEF SaveWindow
    <2>3. CASE SaveBlock
      BY <1>0, <2>3 DEF SaveBlock
    <2>4. checkpoint' # checkpoint
      BY <1>0
    <2>5. CASE PublishBlock \/ FindAncestor \/ ResolveReorg \/ Crash
      BY <2>4, <2>5 DEF PublishBlock, FindAncestor, ResolveReorg, Crash, progress
    <2> QED BY <2>1, <2>2, <2>3, <2>4, <2>5, QuietStep
  <1>2. checkpoint.next \notin {cur, cur + 1}
    BY <1>0, <1>1
  <1>3. PICK i \in DOMAIN reorgEvents :
            /\ reorgEvents[i].resolved
            /\ reorgEvents[i].ancestor + 1 = cur
            /\ checkpoint.next <= reorgEvents[i].to + 2
    BY <1>1, <1>2 DEF RewindInv
  <1>4. reorgEvents[i].to \in Int
    <2>1. reorgEvents[i] \in ReorgEvent
      BY <1>0
    <2> QED BY <2>1 DEF ReorgEvent
  <1> QED BY <1>0, <1>1, <1>3, <1>4

\* The checkpoint goes back only into heights that handleReorg has orphaned:
\* no retry, restart or late save moves it below a block that still counts.
THEOREM CheckpointBackAfterReorg == Spec => CheckpointBackOnlyAfterReorg
  <1>1. Init => RewindInv
    BY DEF Init, RewindInv, Handling
  <1>2. IInv /\ RewindInv /\ [Next]_vars =>
            [checkpoint'.next < checkpoint.next =>
                \E i \in DOMAIN reorgEvents :
                    /\ reorgEvents[i].resolved
                    /\ reorgEvents[i].ancestor + 1 < checkpoint'.next
                    /\ checkpoint'.next <= reorgEvents[i].to + 1]_vars
    BY CheckpointBack
  <1> QED BY InitInv, NextInv, <1>1, RewindStep, <1>2, PTL DEF Spec, CheckpointBackOnlyAfterReorg

-------------------------------------------------------------------------------
(* One canonical block of a height.                                        *)

\* What a batch of inserts makes canonical is in the batch, and what an UPDATE
\* of handleReorg leaves canonical was so before.
LEMMA CanonicalAfterInsert ==
    ASSUME IInv, pc \in {"persistWindow", "persist"},
           NEW status \in {"unfinal", "finalized"}, InsertBatch(status)
    PROVE  /\ CanonicalRows(blockRow') \subseteq CanonicalRows(blockRow) \cup BatchBlocks
           /\ CanonicalRows(blockRow) \subseteq CanonicalRows(blockRow')
  BY DEF IInv, TypeOK, InsertBatch, InsertBlocks, CanonicalRows

LEMMA CanonicalAfterOrphan ==
    ASSUME IInv, OrphanTable
    PROVE  CanonicalRows(blockRow') \subseteq CanonicalRows(blockRow)
  <1>1. blockRow' = OrphanRange(blockRow, Event.from, Event.to) \/ blockRow' = blockRow
    BY DEF OrphanTable
  <1>2. blockRow \in [Blocks -> BlockStatus]
    BY DEF IInv, TypeOK
  <1> QED BY <1>1, <1>2 DEF OrphanRange, CanonicalRows

\* Blocks of one batch and one height are one block, not below the position.
LEMMA BatchHeights ==
    ASSUME IInv, pc \in Draining \cup Tailing
    PROVE  /\ BatchBlocks \subseteq Blocks
           /\ \A b \in BatchBlocks : cur <= Number[b] /\ Number[b] < cur + Len(batch)
           /\ \A b, d \in BatchBlocks : Number[b] = Number[d] => b = d
  <1>1. cur \in Nat /\ Len(batch) \in Nat /\ batch \in Seq(Blocks) /\ DOMAIN batch = 1 .. Len(batch)
        /\ \A i \in 1 .. Len(batch) : Number[batch[i]] = cur + i - 1
    BY DEF IInv, TypeOK, BatchInv
  <1>2. ASSUME NEW b \in BatchBlocks PROVE cur <= Number[b] /\ Number[b] < cur + Len(batch)
    <2>1. PICK i \in 1 .. Len(batch) : b = batch[i]
      BY <1>1 DEF BatchBlocks
    <2> QED BY <1>1, <2>1
  <1>3. ASSUME NEW b \in BatchBlocks, NEW d \in BatchBlocks, Number[b] = Number[d] PROVE b = d
    <2>1. PICK i \in 1 .. Len(batch) : b = batch[i]
      BY <1>1 DEF BatchBlocks
    <2>2. PICK j \in 1 .. Len(batch) : d = batch[j]
      BY <1>1 DEF BatchBlocks
    <2>3. i = j
      BY <1>1, <1>3, <2>1, <2>2
    <2> QED BY <2>1, <2>2, <2>3
  <1> QED BY <1>1, <1>2, <1>3 DEF BatchBlocks

\* Only writes of rows, and moves of the position, concern the heights.
LEMMA SameHeights ==
    ASSUME Heights, CanonicalRows(blockRow') \subseteq CanonicalRows(blockRow),
           cur' = cur, batch' = batch \/ pc \notin Persisted, pc \in Persisted => pc' \in Persisted,
           pc' = "down" => pc = "down"
    PROVE  Heights'
  BY DEF Heights, BatchBlocks

LEMMA InsertHeights ==
    ASSUME IInv, Heights, pc \in {"persistWindow", "persist"},
           NEW status \in {"unfinal", "finalized"}, InsertBatch(status),
           pc' \in Persisted, UNCHANGED memory
    PROVE  Heights'
  <1>1. /\ CanonicalRows(blockRow') \subseteq CanonicalRows(blockRow) \cup BatchBlocks
        /\ CanonicalRows(blockRow) \subseteq Blocks
        /\ \A b \in CanonicalRows(blockRow) : Number[b] < cur
        /\ \A b \in CanonicalRows(blockRow) : Number[b] \in Nat
    BY BlockAssumption, CanonicalAfterInsert
    DEF Heights, Persisted, CanonicalRows, IInv, TypeOK
  <1>2. /\ \A b \in BatchBlocks : cur <= Number[b] /\ Number[b] \in Nat
        /\ \A b, d \in BatchBlocks : Number[b] = Number[d] => b = d
        /\ cur \in Nat /\ cur' = cur /\ BatchBlocks' = BatchBlocks
    <2>1. cur \in Nat /\ UNCHANGED <<cur, batch>>
      BY DEF memory, IInv, TypeOK
    <2>2. BatchBlocks' = BatchBlocks
      BY <2>1 DEF BatchBlocks
    <2>3. pc \in Draining \cup Tailing
      BY DEF Draining, Tailing
    <2> QED BY <2>1, <2>2, <2>3, BatchHeights, BlockAssumption
  <1>3. ASSUME NEW b \in CanonicalRows(blockRow'), NEW d \in CanonicalRows(blockRow'),
               Number[b] = Number[d]
        PROVE  b = d
    <2>1. CASE b \in CanonicalRows(blockRow) /\ d \in CanonicalRows(blockRow)
      BY <1>3, <2>1 DEF Heights
    <2>2. CASE b \in BatchBlocks /\ d \in BatchBlocks
      BY <1>2, <1>3, <2>2
    <2>3. ASSUME NEW x \in CanonicalRows(blockRow), NEW y \in BatchBlocks PROVE Number[x] # Number[y]
      BY <1>1, <1>2
    <2> QED BY <1>1, <1>3, <2>1, <2>2, <2>3
  <1>4. \A b \in CanonicalRows(blockRow') : Number[b] < cur \/ b \in BatchBlocks
    BY <1>1
  <1>5. pc' # "down"
    BY DEF Persisted
  <1> QED BY <1>2, <1>3, <1>4, <1>5 DEF Heights

\* The position passes the batch.
LEMMA PassHeights ==
    ASSUME IInv, Heights, pc \in {"saveWindow", "publish"}, blockRow' = blockRow,
           cur' = cur + Len(batch), pc' = "top"
    PROVE  Heights'
  <1>1. /\ \A b \in BatchBlocks : Number[b] < cur + Len(batch)
        /\ cur \in Nat /\ Len(batch) \in Nat
        /\ \A b \in CanonicalRows(blockRow) : Number[b] \in Nat
    BY BatchHeights, BlockAssumption DEF IInv, TypeOK, Draining, Tailing, CanonicalRows
  <1>2. \A b \in CanonicalRows(blockRow) : Number[b] < cur + Len(batch)
    BY <1>1 DEF Heights
  <1> QED BY <1>2 DEF Heights

\* The range above the ancestor is clean when the position goes back to it.
LEMMA ResolveHeights ==
    ASSUME IInv, MarkedInv, RewindInv, Heights, ResolveReorg
    PROVE  Heights' /\ \A b \in CanonicalRows(blockRow) : Number[b] <= Event.ancestor
  <1>1. cur' = Event.ancestor + 1 /\ blockRow' = blockRow /\ pc = "resolve" /\ pc \in Handling
        /\ pc' = "top"
    BY DEF ResolveReorg, Iterate, facts, Handling
  <1>2. Event.ancestor \in Nat /\ cur \in Nat /\ Event.from = Event.ancestor + 1
        /\ Event.to = cur - 1
    BY <1>1, HandledEvent DEF RewindInv
  <1>3. Clean(blockRow, Event.from, Event.to)
    <2>1. TableClean(ReorgTables[1], Event)
      BY <1>1, ReorgTablesLength DEF MarkedInv
    <2> QED BY <2>1 DEF TableClean, ReorgTables
  <1>4. \A b \in CanonicalRows(blockRow) : Number[b] \in Nat /\ Number[b] < cur
    BY <1>1, BlockAssumption DEF IInv, TypeOK, CanonicalRows, Heights, Persisted
  <1>5. \A b \in CanonicalRows(blockRow) : Number[b] <= Event.ancestor
    BY <1>2, <1>3, <1>4 DEF Clean, InRange
  <1>6. \A b \in CanonicalRows(blockRow) : Number[b] < Event.ancestor + 1
    BY <1>2, <1>4, <1>5
  <1> QED BY <1>1, <1>5, <1>6 DEF Heights

\* Heights is inductive as long as nothing cuts an iteration short.
LEMMA HeightsStep ==
    ASSUME IInv, MarkedInv, RewindInv, Heights, [Next]_vars, Uninterrupted'
    PROVE  Heights'
  <1>0. ~Crash /\ ~Fail /\ ~ProbeUnanswered
    BY DEF Crash, Fail, ProbeUnanswered, Uninterrupted, IInv, TypeOK
  <1>1. CASE Start
    <2>1. blockRow' = blockRow /\ cur = 0 /\ pc = "down" /\ pc' = "top"
      BY <1>1 DEF Start, Iterate, facts, Heights
    <2>2. \A b \in CanonicalRows(blockRow) : Number[b] \in Nat
      BY BlockAssumption DEF IInv, TypeOK, CanonicalRows
    <2>3. CanonicalRows(blockRow) = {}
      BY <2>1, <2>2 DEF Heights, Persisted
    <2> QED BY <2>1, <2>3 DEF Heights
  <1>2. CASE PersistWindow
    BY <1>2, InsertHeights DEF PersistWindow, Persisted
  <1>3. CASE PersistBlock
    BY <1>3, InsertHeights DEF PersistBlock, Persisted, IInv, TypeOK
  <1>4. CASE SaveWindow
    BY <1>4, PassHeights DEF SaveWindow, AfterWindow, Iterate, facts
  <1>5. CASE PublishBlock
    BY <1>5, PassHeights DEF PublishBlock, Iterate, facts, IInv, BatchInv, Tailing
  <1>6. CASE ResolveReorg
    BY <1>6, ResolveHeights
  <1>7. CASE OrphanTable
    BY <1>7, CanonicalAfterOrphan, SameHeights DEF OrphanTable, Persisted
  <1>8. CASE ReadHead \/ FetchWindow \/ FetchBlock \/ DetermineFinality
    BY <1>8, SameHeights DEF ReadHead, FetchWindow, FetchBlock, DetermineFinality, Persisted, facts
  <1>9. CASE RouteWindow \/ RouteBlock \/ PublishWindow \/ SaveBlock
    BY <1>9, SameHeights
    DEF RouteWindow, RouteBlock, PublishWindow, SaveBlock, HandleProtocolEvents, Persisted, facts,
        memory
  <1>10. CASE FindAncestor \/ ProbeLower \/ NoAncestor
    BY <1>10, SameHeights DEF FindAncestor, ProbeLower, NoAncestor, Persisted, facts, memory
  <1>11. CASE Extend \/ Reorg \/ AtHead \/ UNCHANGED vars
    BY <1>11, SameHeights DEF Extend, Reorg, AtHead, vars, facts, memory
  <1> QED
    BY <1>0, <1>1, <1>2, <1>3, <1>4, <1>5, <1>6, <1>7, <1>8, <1>9, <1>10, <1>11
    DEF Next, Indexer, Drain, HandleReorg, TailBlock

\* What was uninterrupted after a step was so before it.
LEMMA StillUninterrupted == ASSUME IInv, [Next]_vars, Uninterrupted' PROVE Uninterrupted
  <1>1. CASE Crash \/ Fail \/ ProbeUnanswered
    BY <1>1 DEF Crash, Fail, ProbeUnanswered, Uninterrupted, IInv, TypeOK
  <1>2. CASE ~(Crash \/ Fail \/ ProbeUnanswered)
    <2>1. UNCHANGED budget
      BY <1>2 DEF Next, Indexer, Drain, HandleReorg, TailBlock, Start, ReadHead, FetchWindow,
             PersistWindow, RouteWindow, PublishWindow, SaveWindow, FetchBlock,
             DetermineFinality, PersistBlock, SaveBlock, RouteBlock, PublishBlock, FindAncestor,
             ProbeLower, NoAncestor, OrphanTable, ResolveReorg, Extend, Reorg, AtHead, vars
    <2> QED BY <2>1 DEF budget, Uninterrupted
  <1> QED BY <1>1, <1>2

LEMMA HeightStep == IInv /\ MarkedInv /\ RewindInv /\ HeightInv /\ [Next]_vars => HeightInv'
  <1> SUFFICES ASSUME IInv, MarkedInv, RewindInv, HeightInv, [Next]_vars, Uninterrupted'
               PROVE  Heights'
    BY DEF HeightInv
  <1> QED BY StillUninterrupted, HeightsStep DEF HeightInv

\* As long as no iteration is cut short between two of its writes, one block of
\* a height is canonical at most: handleReorg orphans the abandoned fork's row
\* before the winning fork's is inserted, whatever the chain does meanwhile.
THEOREM OneBlockOfAHeight == Spec => []OneCanonicalPerHeight
  <1>1. Init => MarkedInv
    BY DEF Init, MarkedInv
  <1>2. Init => RewindInv
    BY DEF Init, RewindInv, Handling
  <1>3. Init => HeightInv
    BY DEF Init, HeightInv, Heights, CanonicalRows
  <1>4. HeightInv => OneCanonicalPerHeight
    BY DEF HeightInv, Heights, OneCanonicalPerHeight
  <1> QED BY InitInv, NextInv, <1>1, MarkedStep, <1>2, RewindStep, <1>3, HeightStep, <1>4, PTL
          DEF Spec

-------------------------------------------------------------------------------
(* How deep a reorg reaches.                                               *)

\* A set of heights has a lowest one: the finite intervals below them are well
\* ordered by inclusion.
LEMMA LeastNat ==
    ASSUME NEW T \in SUBSET Nat, T # {}
    PROVE  \E m \in T : \A k \in T : m <= k
  <1> DEFINE F == {0 .. k : k \in T}
  <1>1. F \subseteq FiniteSubsetsOf(Nat) /\ F # {}
    <2>1. \A k \in T : 0 .. k \in SUBSET Nat
      OBVIOUS
    <2>2. \A k \in T : IsFiniteSet(0 .. k)
      BY FS_Interval
    <2> QED BY <2>1, <2>2 DEF FiniteSubsetsOf
  <1>2. PICK x \in F : \A y \in F : ~(<<y, x>> \in StrictSubsetOrdering(Nat))
    <2> HIDE DEF F
    <2> QED BY <1>1, FS_StrictSubsetOrderingWellFounded, WFMin, Zenon
  <1>3. PICK m \in T : x = 0 .. m
    OBVIOUS
  <1>4. ASSUME NEW k \in T PROVE m <= k
    <2> SUFFICES ASSUME k < m PROVE FALSE
      OBVIOUS
    <2>1. 0 .. k \in F /\ 0 .. k \subseteq 0 .. m /\ 0 .. k # 0 .. m
      <3>1. m \in 0 .. m /\ m \notin 0 .. k
        OBVIOUS
      <3> QED BY <3>1
    <2>2. <<0 .. k, 0 .. m>> \in StrictSubsetOrdering(Nat)
      <3>1. 0 .. k \in SUBSET Nat /\ 0 .. m \in SUBSET Nat
        OBVIOUS
      <3> QED BY <2>1, <3>1 DEF StrictSubsetOrdering
    <2> QED BY <1>2, <1>3, <2>1, <2>2
  <1> QED BY <1>4

\* Two chains that share a block share what is below it.
LEMMA SharedBelow ==
    ASSUME NEW c, NEW d, IsChain(c), IsChain(d), NEW i \in Nat, NEW j \in Nat,
           1 <= i, i <= j, j <= Len(c), j <= Len(d), c[j] = d[j]
    PROVE  c[i] = d[i]
  <1> DEFINE T == {k \in i .. j : c[k] = d[k]}
  <1>1. T \in SUBSET Nat /\ j \in T
    OBVIOUS
  <1>2. PICK k \in T : \A n \in T : k <= n
    <2> HIDE DEF T
    <2> QED BY <1>1, LeastNat
  <1>3. k = i
    <2> SUFFICES ASSUME k # i PROVE FALSE
      OBVIOUS
    <2>1. k \in i + 1 .. j /\ c[k] = d[k]
      BY <1>2
    <2>2. Len(c) \in Nat /\ Len(d) \in Nat
      BY DEF IsChain
    <2>3. k \in 2 .. Len(c) /\ k \in 2 .. Len(d)
      BY <2>1, <2>2
    <2>4. c[k - 1] = Parent[c[k]] /\ d[k - 1] = Parent[d[k]]
      BY <2>3 DEF IsChain
    <2>5. k - 1 \in T
      BY <2>1, <2>4
    <2> QED BY <1>2, <2>1, <2>5
  <1> QED BY <1>2, <1>3

\* A reorg that replaces a block replaces all that is above it.
LEMMA DepthOfReorg ==
    ASSUME NEW c, NEW d, IsChain(c), IsChain(d), Len(c) <= Len(d),
           NEW i \in 1 .. Len(c), c[i] # d[i]
    PROVE  ReorgDepth(c, d) \in Nat /\ Len(c) - i + 1 <= ReorgDepth(c, d)
  <1> DEFINE lost == {k \in 1 .. Len(c) : k > Len(d) \/ c[k] # d[k]}
  <1>1. Len(c) \in Nat /\ Len(d) \in Nat
    BY DEF IsChain
  <1>2. i .. Len(c) \subseteq lost
    <2> SUFFICES ASSUME NEW k \in i .. Len(c), c[k] = d[k] PROVE FALSE
      BY <1>1
    <2> QED BY <1>1, SharedBelow
  <1>3. IsFiniteSet(1 .. Len(c)) /\ lost \subseteq 1 .. Len(c)
    BY <1>1, FS_Interval
  <1>4. IsFiniteSet(lost) /\ Cardinality(i .. Len(c)) <= Cardinality(lost)
    BY <1>2, <1>3, FS_Subset
  <1>5. Cardinality(i .. Len(c)) = Len(c) - i + 1
    BY <1>1, FS_Interval
  <1>6. Cardinality(lost) \in Nat /\ ReorgDepth(c, d) = Cardinality(lost)
    BY <1>4, FS_CardinalityType DEF ReorgDepth
  <1> QED BY <1>4, <1>5, <1>6

\* WindowInv is inductive: drainFinalizedBacklog stops as far below the head
\* as a reorg may reach, and the head only moves up.
LEMMA WindowStep ==
    ASSUME MaxReorgDepth <= FinalityConfirmations, IInv, WindowInv, [Next]_vars
    PROVE  WindowInv'
  <1> USE ConfigAssumption
  <1>0. /\ cur \in Nat /\ IsChain(chain) /\ Len(chain) \in Nat /\ latest \in Nat
        /\ batch \in Seq(Blocks) /\ DOMAIN batch = 1 .. Len(batch) /\ Len(batch) \in Nat
    BY ChainAssumption DEF IInv, TypeOK, IsChain
  <1>1. CASE Extend \/ Reorg
    <2>1. /\ IsChain(chain') /\ Len(chain) <= Len(chain') /\ Len(chain') \in Nat
          /\ UNCHANGED <<pc, cur, latest, batch>>
      BY <1>1, ChainGrows, ChainAssumption DEF IInv, Extend, Reorg, memory
    <2>2. ASSUME pc \in Draining, NEW i \in DOMAIN batch
          PROVE  cur + i <= Len(chain') - FinalityConfirmations /\ chain'[cur + i] = batch[i]
      <3>1. cur + i <= Len(chain) - FinalityConfirmations /\ chain[cur + i] = batch[i]
        BY <2>2 DEF WindowInv
      <3>2. cur + i \in 1 .. Len(chain)
        BY <1>0, <3>1
      <3>3. CASE Extend
        <4>1. SubSeq(chain', 1, Len(chain)) = chain /\ chain' \in Seq(Blocks)
          BY <2>1, <3>3 DEF Extend, IsExtension, IsChain
        <4>2. SubSeq(chain', 1, Len(chain))[cur + i] = chain'[cur + i]
          BY <1>0, <2>1, <3>2, <4>1
        <4> QED BY <1>0, <2>1, <3>1, <4>1, <4>2
      <3>4. CASE Reorg
        <4>1. ReorgDepth(chain, chain') \in 1 .. MaxReorgDepth
          BY <3>4 DEF Reorg
        <4>2. chain[cur + i] # chain'[cur + i] =>
                  Len(chain) - (cur + i) + 1 <= ReorgDepth(chain, chain')
          BY <1>0, <2>1, <3>2, DepthOfReorg
        <4> QED BY <1>0, <2>1, <3>1, <4>1, <4>2
      <3> QED BY <1>1, <3>3, <3>4
    <2> QED BY <2>1, <2>2 DEF WindowInv, Draining
  <1>2. CASE FetchWindow
    <2>1. PICK k \in 1 .. WindowEnd - cur + 1 : batch' = SubSeq(chain, cur + 1, cur + k)
      BY <1>2 DEF FetchWindow
    <2>2. latest <= Len(chain) - 1 /\ WindowEnd \in Int /\ WindowEnd <= latest - FinalityConfirmations
      BY <1>0, <1>2 DEF FetchWindow, IInv, HeadInv, Tip, WindowEnd, SafeCeiling
    <2>3. k \in Nat /\ 1 <= k /\ cur + k <= Len(chain) - FinalityConfirmations
      BY <1>0, <2>2
    <2>4. Len(batch') = k /\ \A i \in 1 .. k : batch'[i] = chain[cur + i]
      BY <1>0, <2>1, <2>3 DEF IsChain
    <2>5. DOMAIN batch' = 1 .. k
      BY <1>0, <2>1, <2>3, <2>4 DEF IsChain
    <2>6. UNCHANGED <<chain, cur>> /\ pc' = "persistWindow"
      BY <1>2 DEF FetchWindow, world
    <2> QED BY <1>0, <2>3, <2>4, <2>5, <2>6 DEF WindowInv
  <1>3. CASE ReadHead
    BY <1>3 DEF ReadHead, WindowInv, Draining
  <1>4. CASE PersistWindow \/ RouteWindow \/ PublishWindow
    BY <1>4 DEF PersistWindow, RouteWindow, PublishWindow, WindowInv, Draining, memory, world
  <1>5. CASE AtHead \/ UNCHANGED vars
    BY <1>5 DEF AtHead, vars, memory, world, WindowInv, Draining
  <1>6. CASE Start \/ SaveWindow \/ TailBlock \/ HandleReorg \/ ProbeUnanswered \/ Fail \/ Crash
    <2>1. pc' \notin Draining \cup {"drain"}
      BY <1>6 DEF Start, SaveWindow, TailBlock, HandleReorg, ProbeUnanswered, Fail, Crash,
             Iterate, FetchBlock, DetermineFinality, PersistBlock, SaveBlock, RouteBlock,
             PublishBlock, FindAncestor, ProbeLower, NoAncestor, OrphanTable, ResolveReorg,
             Draining
    <2> QED BY <2>1 DEF WindowInv
  <1> QED BY <1>1, <1>2, <1>3, <1>4, <1>5, <1>6 DEF Next, Indexer, Drain

\* Where drainFinalizedBacklog checks no parent hashes it needs none: if no
\* reorg is deeper than the confirmations it waits for, every block of a
\* window is still on the chain when it is written, published and saved.
THEOREM DrainedBlocksStay ==
    MaxReorgDepth <= FinalityConfirmations => (Spec => []DrainedBlocksStayOnChain)
  <1> SUFFICES ASSUME MaxReorgDepth <= FinalityConfirmations
               PROVE  Spec => []DrainedBlocksStayOnChain
    OBVIOUS
  <1>1. Init => WindowInv
    BY DEF Init, WindowInv, Draining
  <1>2. IInv /\ WindowInv /\ [Next]_vars => WindowInv'
    BY WindowStep
  <1>3. WindowInv => DrainedBlocksStayOnChain
    BY DEF WindowInv, DrainedBlocksStayOnChain, Draining
  <1> QED BY InitInv, NextInv, <1>1, <1>2, <1>3, PTL DEF Spec

-------------------------------------------------------------------------------
(* The canonical rows follow the chain.                                    *)

\* Where the blocks of a chain are.
LEMMA ChainBlocks ==
    ASSUME NEW c, IsChain(c)
    PROVE  /\ Tip(c) \in Nat
           /\ \A b \in BlocksOf(c) :
                 b \in Blocks /\ Number[b] \in 0 .. Tip(c) /\ BlockAt(c, Number[b]) = b
           /\ \A n \in 0 .. Tip(c) : BlockAt(c, n) \in BlocksOf(c) /\ Number[BlockAt(c, n)] = n
           /\ \A n \in 1 .. Tip(c) : Parent[BlockAt(c, n)] = BlockAt(c, n - 1)
  <1>1. /\ c \in Seq(Blocks) /\ Len(c) \in Nat /\ Len(c) > 0 /\ DOMAIN c = 1 .. Len(c)
        /\ \A i \in 1 .. Len(c) : c[i] \in Blocks /\ Number[c[i]] = i - 1
        /\ \A i \in 2 .. Len(c) : Parent[c[i]] = c[i - 1]
    BY DEF IsChain
  <1>2. ASSUME NEW b \in BlocksOf(c)
        PROVE  b \in Blocks /\ Number[b] \in 0 .. Tip(c) /\ BlockAt(c, Number[b]) = b
    <2>1. PICK i \in 1 .. Len(c) : b = c[i]
      BY <1>1 DEF BlocksOf
    <2> QED BY <1>1, <2>1 DEF Tip, BlockAt
  <1>3. ASSUME NEW n \in 0 .. Tip(c)
        PROVE  BlockAt(c, n) \in BlocksOf(c) /\ Number[BlockAt(c, n)] = n
    <2>1. n + 1 \in 1 .. Len(c) /\ (n + 1) - 1 = n
      BY <1>1 DEF Tip
    <2> QED BY <1>1, <2>1 DEF BlockAt, BlocksOf
  <1>4. ASSUME NEW n \in 1 .. Tip(c) PROVE Parent[BlockAt(c, n)] = BlockAt(c, n - 1)
    <2>1. n + 1 \in 2 .. Len(c) /\ (n + 1) - 1 = (n - 1) + 1
      BY <1>1 DEF Tip
    <2> QED BY <1>1, <2>1 DEF BlockAt
  <1> QED BY <1>1, <1>2, <1>3, <1>4 DEF Tip

\* Chains agree where findCommonAncestor looks last.
LEMMA SharedStart ==
    ASSUME ForksAboveStart, NEW c \in Chains, NEW d \in Chains, NEW b \in BlocksOf(d),
           Number[b] <= LowestProbe, Number[b] <= Tip(c)
    PROVE  b \in BlocksOf(c)
  <1>1. IsChain(c) /\ IsChain(d)
    BY ChainAssumption
  <1>2. LowestProbe \in Nat
    BY ConfigAssumption DEF LowestProbe
  <1>3. Number[b] \in 0 .. LowestProbe /\ Number[b] \in 0 .. Tip(c) /\ Number[b] \in 0 .. Tip(d)
        /\ BlockAt(d, Number[b]) = b
    BY <1>1, <1>2, ChainBlocks
  <1>4. BlockAt(c, Number[b]) = b
    BY <1>3 DEF ForksAboveStart, HasBlock
  <1> QED BY <1>1, <1>3, <1>4, ChainBlocks

\* What is canonical is recorded, not below the first block ever indexed.
LEMMA CanonicalBlocks ==
    ASSUME IInv
    PROVE  /\ CanonicalRows(blockRow) \subseteq Blocks
           /\ CanonicalRows(blockRow) = {b \in Blocks : blockRow[b] \in {"unfinal", "finalized"}}
           /\ \A b \in CanonicalRows(blockRow) :
                 /\ blockRow[b] # "absent" /\ blockRow[b] # "orphaned"
                 /\ Number[b] \in Nat /\ StartBlock <= Number[b]
                 /\ b \in CanonicalAt(blockRow, Number[b])
           /\ \A b \in Blocks : b \notin CanonicalRows(blockRow) =>
                 blockRow[b] = "absent" \/ blockRow[b] = "orphaned"
  <1>1. blockRow \in [Blocks -> BlockStatus] /\ \A b \in Blocks : Number[b] \in Nat
    BY BlockAssumption DEF IInv, TypeOK
  <1>2. CanonicalRows(blockRow) = {b \in Blocks : blockRow[b] \in {"unfinal", "finalized"}}
    BY <1>1 DEF CanonicalRows, BlockStatus
  <1>3. \A b \in Blocks : b \notin CanonicalRows(blockRow) =>
            blockRow[b] = "absent" \/ blockRow[b] = "orphaned"
    BY <1>1, <1>2 DEF BlockStatus
  <1>4. \A b \in Blocks : blockRow[b] # "absent" => Number[b] >= StartBlock
    BY DEF IInv, AncestorInv
  <1> QED BY <1>1, <1>2, <1>3, <1>4, ConfigAssumption DEF CanonicalAt

\* The chain the indexer reads.
LEMMA TheChain ==
    ASSUME IInv
    PROVE  chain \in Chains /\ IsChain(chain) /\ Tip(chain) \in Nat /\ cur \in Nat
           /\ StartBlock \in Nat /\ probe \in Nat /\ batch \in Seq(Blocks)
           /\ last \in Blocks \cup {NoHash}
  BY ChainAssumption, ChainBlocks, ConfigAssumption DEF IInv, TypeOK

\* A window stands so deep that no reorg reaches the block below it.
LEMMA BelowWindow ==
    ASSUME MaxReorgDepth <= FinalityConfirmations, IInv, WindowInv, Extend \/ Reorg,
           pc \in {"drain"} \cup Draining, NEW b \in BlocksOf(chain), Number[b] = cur - 1
    PROVE  b \in BlocksOf(chain')
  <1> USE ConfigAssumption
  <1>1. /\ IsChain(chain) /\ IsChain(chain') /\ Len(chain) <= Len(chain') /\ Len(chain) \in Nat
        /\ Len(chain') \in Nat /\ cur \in Nat /\ batch \in Seq(Blocks) /\ latest \in Nat
        /\ DOMAIN chain' = 1 .. Len(chain')
    BY ChainGrows, ChainAssumption DEF IInv, TypeOK, IsChain
  <1>2. cur \in 1 .. Len(chain) /\ b = chain[cur]
    <2>1. Number[b] \in 0 .. Tip(chain) /\ BlockAt(chain, Number[b]) = b
      BY <1>1, ChainBlocks
    <2> QED BY <1>1, <2>1 DEF BlockAt, Tip
  <1>3. cur + 1 <= Len(chain) - FinalityConfirmations
    <2>1. CASE pc = "drain"
      BY <1>1, <2>1 DEF WindowInv, IInv, HeadInv, Tip
    <2>2. CASE pc \in Draining
      <3>1. batch # << >>
        BY <2>2 DEF IInv, BatchInv
      <3>2. 1 \in DOMAIN batch
        BY <1>1, <3>1
      <3> QED BY <2>2, <3>2 DEF WindowInv
    <2> QED BY <2>1, <2>2
  <1>4. chain'[cur] = b
    <2>1. CASE Extend
      <3>1. SubSeq(chain', 1, Len(chain)) = chain /\ chain' \in Seq(Blocks)
        BY <1>1, <2>1 DEF Extend, IsExtension, IsChain
      <3>2. SubSeq(chain', 1, Len(chain))[cur] = chain'[cur]
        BY <1>1, <1>2, <3>1
      <3> QED BY <1>2, <3>1, <3>2
    <2>2. CASE Reorg
      <3>1. ReorgDepth(chain, chain') \in 1 .. MaxReorgDepth
        BY <2>2 DEF Reorg
      <3>2. chain[cur] # chain'[cur] =>
                Len(chain) - cur + 1 <= ReorgDepth(chain, chain')
        BY <1>1, <1>2, DepthOfReorg
      <3> QED BY <1>1, <1>2, <1>3, <3>1, <3>2
    <2> QED BY <2>1, <2>2
  <1>5. cur \in DOMAIN chain'
    BY <1>1, <1>2
  <1> QED BY <1>4, <1>5 DEF BlocksOf

\* All that is known of a state of an orderly history.
Sound == IInv /\ MarkedInv /\ RewindInv /\ WindowInv /\ Follow

\* Below a row that is on a chain, all rows are.
LEMMA DownFrom ==
    ASSUME IInv, LinkedInv, NEW c, IsChain(c), NEW b \in CanonicalRows(blockRow), b \in BlocksOf(c),
           NEW d \in CanonicalRows(blockRow), Number[d] <= Number[b]
    PROVE  d \in BlocksOf(c)
  <1> DEFINE T == {n \in Nat : /\ Number[d] <= n
                               /\ \E e \in CanonicalRows(blockRow) : e \in BlocksOf(c) /\ Number[e] = n}
  <1>1. /\ \A e \in CanonicalRows(blockRow) : Number[e] \in Nat /\ StartBlock <= Number[e]
        /\ StartBlock \in Nat
    BY CanonicalBlocks, TheChain
  <1>2. T \in SUBSET Nat /\ Number[b] \in T
    BY <1>1
  <1>3. PICK m \in T : \A k \in T : m <= k
    <2> HIDE DEF T
    <2> QED BY <1>2, LeastNat
  <1>4. PICK e \in CanonicalRows(blockRow) : e \in BlocksOf(c) /\ Number[e] = m
    BY <1>3
  <1>5. m \in Nat /\ Number[d] <= m
    BY <1>3
  <1>6. CASE m = Number[d]
    BY <1>4, <1>6 DEF LinkedInv
  <1>7. CASE Number[d] < m
    <2>1. m - 1 \in StartBlock .. Number[e] /\ m \in Nat \ {0} /\ Number[d] <= m - 1
      BY <1>1, <1>4, <1>5, <1>7
    <2>2. PICK r \in CanonicalAt(blockRow, m - 1) : TRUE
      BY <2>1 DEF LinkedInv
    <2>3. r \in CanonicalRows(blockRow) /\ Number[r] = m - 1
      BY <2>2 DEF CanonicalAt
    <2>4. Parent[e] = r
      <3>1. Number[e] = Number[r] + 1
        BY <1>4, <2>1, <2>3
      <3> QED BY <2>3, <3>1 DEF LinkedInv
    <2>5. m \in 1 .. Tip(c) /\ BlockAt(c, m) = e
      BY <1>4, <2>1, ChainBlocks
    <2>6. BlockAt(c, m - 1) = r /\ m - 1 \in 0 .. Tip(c)
      BY <2>4, <2>5, ChainBlocks
    <2>7. r \in BlocksOf(c)
      BY <2>6, ChainBlocks
    <2>8. m - 1 \in T
      BY <2>1, <2>3, <2>7
    <2> QED BY <1>3, <2>1, <2>8
  <1> QED BY <1>1, <1>5, <1>6, <1>7

\* Where the rows and the chain stay as they are, so does what a position follows.
LEMMA SameFollows ==
    ASSUME blockRow' = blockRow, chain' = chain,
           pc \in Persisted => pc' \in Persisted /\ batch' = batch
    PROVE  \A n, h : FollowsRow(n, h) => FollowsRow(n, h)'
  <1> SUFFICES ASSUME NEW n, NEW h, FollowsRow(n, h) PROVE FollowsRow(n, h)'
    OBVIOUS
  <1>1. RowsFrom(n)' => RowsFrom(n)
    BY DEF RowsFrom, BatchBlocks
  <1>2. Anchored' = Anchored
    BY DEF Anchored
  <1>3. Unsettled(n, h)' => Unsettled(n, h)
    BY <1>1 DEF Unsettled
  <1> QED BY <1>2, <1>3 DEF FollowsRow

\* A step that moves neither the position nor the checkpoint.
LEMMA SameResume ==
    ASSUME ResumeInv, UNCHANGED <<blockRow, chain, checkpoint>>,
           pc \in Persisted => pc' \in Persisted /\ batch' = batch,
           pc' # "down" => pc # "down" /\ UNCHANGED <<cur, last>>
    PROVE  ResumeInv'
  <1>1. \A n, h : FollowsRow(n, h) => FollowsRow(n, h)'
    BY SameFollows
  <1>2. FollowsRow(checkpoint.next, checkpoint.hash)'
    <2>1. FollowsRow(checkpoint.next, checkpoint.hash)
      BY DEF ResumeInv
    <2> QED BY <1>1, <2>1 DEF FollowsRow, Unsettled, RowsFrom
  <1>3. ASSUME pc' # "down" PROVE FollowsRow(cur, last)'
    <2>1. FollowsRow(cur, last) /\ UNCHANGED <<cur, last>>
      BY <1>3 DEF ResumeInv
    <2> QED BY <1>1, <2>1 DEF FollowsRow, Unsettled, RowsFrom
  <1> QED BY <1>2, <1>3 DEF ResumeInv

\* Where the chain brings nothing back, what follows it still does.
LEMMA WorldFollow ==
    ASSUME MaxReorgDepth <= FinalityConfirmations,
           IInv, WindowInv, Follow, Extend \/ Reorg, OrderlyReorg
    PROVE  Follow'
  <1>1. /\ IsChain(chain) /\ IsChain(chain') /\ Tip(chain) \in Nat /\ Tip(chain') \in Nat
        /\ Tip(chain) <= Tip(chain') /\ Len(chain) \in Nat /\ Len(chain') \in Nat
    BY ChainGrows, ChainAssumption, ChainBlocks DEF IInv, TypeOK, Tip
  <1>2. /\ UNCHANGED <<pc, cur, last, probe, batch, stage, blockRow, reorgEvents, checkpoint>>
        /\ Event' = Event /\ BatchBlocks' = BatchBlocks
    BY DEF Extend, Reorg, facts, progress, memory, Event, LastOf, BatchBlocks
  <1>3. Extend => BlocksOf(chain') \subseteq BlocksOf(chain) \cup {chain'[Len(chain')]}
                  /\ BlocksOf(chain) \subseteq BlocksOf(chain')
                  /\ Len(chain') = Len(chain) + 1
    <2> SUFFICES ASSUME Extend PROVE BlocksOf(chain') \subseteq BlocksOf(chain) \cup {chain'[Len(chain')]}
                                     /\ BlocksOf(chain) \subseteq BlocksOf(chain')
                                     /\ Len(chain') = Len(chain) + 1
      OBVIOUS
    <2>1. Len(chain') = Len(chain) + 1 /\ SubSeq(chain', 1, Len(chain)) = chain
      BY DEF Extend, IsExtension
    <2>2. \A i \in 1 .. Len(chain) : chain[i] = chain'[i]
      <3>1. chain' \in Seq(Blocks)
        BY <1>1 DEF IsChain
      <3>2. \A i \in 1 .. Len(chain) : SubSeq(chain', 1, Len(chain))[i] = chain'[i]
        BY <1>1, <2>1, <3>1
      <3> QED BY <2>1, <3>2
    <2>3. DOMAIN chain = 1 .. Len(chain) /\ DOMAIN chain' = 1 .. Len(chain')
      BY <1>1 DEF IsChain
    <2> QED BY <1>1, <2>1, <2>2, <2>3 DEF BlocksOf
  <1>4. ASSUME NEW b \in Blocks, blockRow[b] # "absent", b \in BlocksOf(chain')
        PROVE  b \in BlocksOf(chain)
    <2>1. CASE Extend
      <3>1. Number[b] <= Tip(chain)
        BY <1>4 DEF Follow, KnownInv
      <3>2. Number[chain'[Len(chain')]] = Len(chain)
        BY <1>1, <1>3, <2>1 DEF IsChain
      <3> QED BY <1>1, <1>3, <1>4, <2>1, <3>1, <3>2 DEF Tip
    <2>2. CASE Reorg
      BY <1>4, <2>2 DEF OrderlyReorg
    <2> QED BY <2>1, <2>2
  <1>5. /\ \A n, h : Unsettled(n, h)' = Unsettled(n, h)
        /\ Unsettled(cur, last)' = Unsettled(cur, last)
        /\ Unsettled(checkpoint.next, checkpoint.hash)' = Unsettled(checkpoint.next, checkpoint.hash)
        /\ RowsFrom(cur)' = RowsFrom(cur)
        /\ Recovering' = Recovering
    BY <1>2 DEF Unsettled, RowsFrom, Recovering
  <1>6. Recovering => BlocksOf(chain) \subseteq BlocksOf(chain')
    BY <1>3 DEF OrderlyReorg
  <1>7. Recovering /\ Anchored => Anchored'
    BY <1>2, <1>6 DEF Anchored
  <1>8. \A b \in CanonicalRows(blockRow) : b \in BlocksOf(chain') => b \in BlocksOf(chain)
    BY <1>4, CanonicalBlocks
  <1>9. LinkedInv'
    BY <1>2 DEF Follow, LinkedInv
  <1>10. KnownInv'
    <2>1. \A b \in Blocks : blockRow[b] # "absent" => Number[b] <= Tip(chain')
      BY <1>1, BlockAssumption DEF Follow, KnownInv
    <2> QED BY <1>2, <1>4, <2>1 DEF Follow, KnownInv
  <1>11. ResumeInv'
    <2>1. pc # "down" => FollowsRow(cur, last)'
      <3>1. pc # "down" /\ Unsettled(cur, last) => Recovering
        BY DEF Recovering
      <3> QED BY <1>2, <1>5, <1>7, <3>1 DEF Follow, ResumeInv, FollowsRow
    <2>2. FollowsRow(checkpoint.next, checkpoint.hash)'
      <3>1. Unsettled(checkpoint.next, checkpoint.hash) => Recovering
        BY DEF Recovering
      <3> QED BY <1>2, <1>5, <1>7, <3>1 DEF Follow, ResumeInv, FollowsRow
    <2> QED BY <1>2, <2>1, <2>2 DEF Follow, ResumeInv
  <1>12. SearchInv'
    <2>1. pc = "ancestor" => LowestProbe < cur /\ AbandonedFrom(probe)'
      BY <1>2, <1>8 DEF AbandonedFrom, Follow, SearchInv
    <2>2. ASSUME pc \in Handling
          PROVE  /\ LowestProbe <= Event.ancestor
                 /\ \E b \in CanonicalAt(blockRow, Event.ancestor) : b \in BlocksOf(chain')
                 /\ AbandonedFrom(Event.ancestor)'
                 /\ stage > 1 => Anchored'
      <3>1. Recovering
        BY <2>2 DEF Recovering
      <3> QED BY <1>2, <1>6, <1>7, <1>8, <2>2, <3>1 DEF AbandonedFrom, Follow, SearchInv
    <2> QED BY <1>2, <2>1, <2>2 DEF SearchInv
  <1>13. ReadInv'
    <2>1. ASSUME pc \in {"drain", "persistWindow"}, NEW b \in CanonicalRows(blockRow), Number[b] < cur
          PROVE  b \in BlocksOf(chain')
      <3>1. b \in BlocksOf(chain)
        BY <2>1 DEF Follow, ReadInv
      <3>2. CASE Recovering
        BY <1>6, <3>1, <3>2
      <3>3. CASE ~Recovering
        <4>0. pc # "down"
          BY <2>1
        <4>1. ~Unsettled(cur, last)
          BY <4>0, <3>3 DEF Recovering
        <4>2. StartBlock <= Number[b] /\ Number[b] \in Nat /\ cur \in Nat /\ StartBlock \in Nat
          BY CanonicalBlocks, TheChain
        <4>3. last # NoHash
          BY <2>1, <4>1, <4>2 DEF Unsettled
        <4>4. last \in CanonicalRows(blockRow) /\ Number[last] = cur - 1
          BY <4>0, <4>1, <4>3 DEF Unsettled, Follow, ResumeInv, FollowsRow
        <4>5. last \in BlocksOf(chain)
          BY <2>1, <4>2, <4>4 DEF Follow, ReadInv
        <4>6. last \in BlocksOf(chain')
          BY <2>1, <4>4, <4>5, BelowWindow DEF Draining
        <4>7. Number[b] <= Number[last]
          BY <2>1, <4>2, <4>4
        <4> QED BY <1>1, <4>4, <4>6, <4>7, DownFrom DEF Follow
      <3> QED BY <3>2, <3>3
    <2>2. pc \in Tailing => cur <= Tip(chain')
      BY <1>1, TheChain DEF Follow, ReadInv
    <2>3. pc \in {"finality", "persist"} /\ Recovering => batch[1] \in BlocksOf(chain')
      BY <1>6 DEF Follow, ReadInv
    <2>4. pc \in {"drain", "persistWindow"} =>
              \A b \in CanonicalRows(blockRow) : Number[b] < cur => b \in BlocksOf(chain')
      BY <2>1
    <2> QED BY <1>2, <1>5, <2>2, <2>3, <2>4 DEF Follow, ReadInv
  <1> QED BY <1>9, <1>10, <1>11, <1>12, <1>13 DEF Follow

\* The position is the checkpoint's; the first start finds no rows.
LEMMA StartFollow == ASSUME Sound, Start PROVE Follow'
  <1> USE DEF Sound
  <1>1. /\ pc = "down" /\ pc' = "top" /\ blockRow' = blockRow /\ chain' = chain
        /\ cur' = checkpoint'.next /\ last' = checkpoint'.hash
    BY DEF Start, Iterate, facts, world
  <1>2. FollowsRow(checkpoint.next, checkpoint.hash)'
    <2>1. CASE checkpoint = NoCheckpoint
      <3>1. checkpoint' = [next |-> StartBlock, hash |-> NoHash]
        BY <2>1 DEF Start
      <3>2. CanonicalRows(blockRow) = {}
        BY <2>1 DEF Follow, ResumeInv
      <3> QED BY <1>1, <3>1, <3>2, TheChain DEF FollowsRow, Unsettled, RowsFrom
    <2>2. CASE checkpoint # NoCheckpoint
      <3>1. checkpoint' = checkpoint
        BY <2>2 DEF Start
      <3> QED BY <1>1, <3>1 DEF Follow, ResumeInv, FollowsRow, Unsettled, RowsFrom, Persisted, Anchored
    <2> QED BY <2>1, <2>2
  <1>3. ResumeInv'
    <2>1. FollowsRow(cur, last)'
      BY <1>1, <1>2 DEF FollowsRow, Unsettled, RowsFrom
    <2>2. checkpoint' # NoCheckpoint
      BY TheChain DEF Start, NoCheckpoint
    <2>3. checkpoint'.hash = NoHash => checkpoint'.next <= StartBlock
      BY TheChain DEF Start, Follow, ResumeInv
    <2> QED BY <1>2, <2>1, <2>2, <2>3 DEF ResumeInv
  <1>4. LinkedInv' /\ KnownInv'
    BY <1>1 DEF Follow, LinkedInv, KnownInv
  <1>5. SearchInv'
    BY <1>1 DEF SearchInv, Handling
  <1>6. ReadInv'
    BY <1>1 DEF ReadInv, Persisted, Tailing
  <1> QED BY <1>3, <1>4, <1>5, <1>6 DEF Follow

\* Until the position is settled the rows are the chain's.
LEMMA AnchoredFrom ==
    ASSUME Sound, pc # "down", pc \notin Persisted,
           NEW b \in CanonicalRows(blockRow), cur <= Number[b]
    PROVE  Anchored
  <1>1. RowsFrom(cur)
    BY DEF RowsFrom
  <1> QED BY <1>1 DEF Unsettled, FollowsRow, ResumeInv, Follow, Sound

\* A drain goes on from a row of the chain.
LEMMA ReadHeadFollow == ASSUME Sound, ReadHead, OrderlyDrain PROVE Follow'
  <1> USE DEF Sound
  <1>1. /\ pc = "top" /\ pc # "down" /\ pc' \in {"drain", "fetch"} /\ pc \notin Persisted
        /\ UNCHANGED <<blockRow, chain, cur, last, checkpoint>>
    BY DEF ReadHead, facts, world, progress, Persisted
  <1>2. FollowsRow(cur, last)
    BY <1>1 DEF Follow, ResumeInv
  <1>3. pc' = "drain" => last = NoHash \/ last \in CanonicalRows(blockRow)
    <2> SUFFICES ASSUME pc' = "drain", last # NoHash PROVE last \in CanonicalRows(blockRow)
      OBVIOUS
    <2>1. last \in BlocksOf(chain) /\ last \in Blocks
      BY <1>1, TheChain DEF OrderlyDrain
    <2>2. blockRow[last] # "absent" /\ blockRow[last] # "orphaned"
      BY <1>2, <2>1 DEF Follow, FollowsRow, KnownInv
    <2> QED BY <2>1, <2>2, CanonicalBlocks
  <1>4. ASSUME pc' = "drain", NEW b \in CanonicalRows(blockRow), Number[b] < cur
        PROVE  b \in BlocksOf(chain)
    <2>1. StartBlock <= Number[b] /\ Number[b] \in Nat /\ cur \in Nat /\ StartBlock \in Nat
      BY CanonicalBlocks, TheChain
    <2>2. CASE last = NoHash
      <3>1. Unsettled(cur, last)
        BY <1>4, <2>1, <2>2 DEF Unsettled
      <3> QED BY <1>2, <3>1 DEF FollowsRow, Anchored
    <2>3. CASE last # NoHash
      <3>1. last \in CanonicalRows(blockRow) /\ last \in BlocksOf(chain) /\ Number[last] = cur - 1
        BY <1>1, <1>2, <1>3, <1>4, <2>3 DEF OrderlyDrain, FollowsRow
      <3>2. Number[b] <= Number[last]
        BY <1>4, <2>1, <3>1
      <3> QED BY <3>1, <3>2, TheChain, DownFrom DEF Follow
    <2> QED BY <2>2, <2>3
  <1>5. ResumeInv'
    BY <1>1, SameResume DEF Follow
  <1>6. LinkedInv' /\ KnownInv'
    BY <1>1 DEF Follow, LinkedInv, KnownInv
  <1>7. SearchInv'
    BY <1>1 DEF SearchInv, Handling
  <1>8. ReadInv'
    BY <1>1, <1>3, <1>4 DEF ReadInv, Persisted, Tailing
  <1> QED BY <1>5, <1>6, <1>7, <1>8 DEF Follow

\* A window is cut from the chain.
LEMMA FetchWindowFollow == ASSUME Sound, FetchWindow PROVE Follow'
  <1> USE DEF Sound
  <1>1. /\ pc = "drain" /\ pc # "down" /\ pc' = "persistWindow" /\ pc \notin Persisted
        /\ UNCHANGED <<blockRow, chain, cur, last, checkpoint>>
    BY DEF FetchWindow, facts, world, progress, Persisted
  <1>2. ResumeInv'
    BY <1>1, SameResume DEF Follow
  <1>3. LinkedInv' /\ KnownInv'
    BY <1>1 DEF Follow, LinkedInv, KnownInv
  <1>4. SearchInv'
    BY <1>1 DEF SearchInv, Handling
  <1>5. ReadInv'
    BY <1>1 DEF Follow, ReadInv, Persisted, Tailing
  <1> QED BY <1>2, <1>3, <1>4, <1>5 DEF Follow

\* A block whose parent hash is right follows the last row, or has its row from
\* an earlier attempt.
LEMMA FetchNext ==
    ASSUME Sound, pc = "fetch", NEW f, f = BlockAt(chain, cur), ParentValid(f)
    PROVE  /\ last = NoHash \/ last \in CanonicalRows(blockRow)
           /\ \/ f \in CanonicalRows(blockRow)
              \/ /\ blockRow[f] = "absent"
                 /\ ~RowsFrom(cur)
                 /\ \A d \in CanonicalAt(blockRow, cur - 1) : Parent[f] = d
  <1> USE DEF Sound
  <1>1. /\ f \in Blocks /\ f \in BlocksOf(chain) /\ Number[f] = cur /\ cur \in 0 .. Tip(chain)
        /\ StartBlock <= cur /\ StartBlock \in Nat /\ cur \in Nat
    BY TheChain, ChainBlocks DEF IInv, HeadInv, PositionInv
  <1>2. FollowsRow(cur, last) /\ pc # "down" /\ pc \notin Persisted
    BY DEF Follow, ResumeInv, Persisted
  <1>3. \A n \in 1 .. Tip(chain) : Parent[BlockAt(chain, n)] = BlockAt(chain, n - 1)
    BY TheChain, ChainBlocks
  <1>4. ASSUME last # NoHash PROVE last \in CanonicalRows(blockRow) /\ Number[last] = cur - 1
    <2>1. Number[last] = cur - 1 /\ blockRow[last] # "absent" /\ last \in Blocks
      BY <1>2, <1>4, TheChain DEF FollowsRow
    <2>2. Parent[f] = last /\ cur \in 1 .. Tip(chain)
      BY <1>1, <1>4, <2>1, BlockAssumption DEF ParentValid
    <2>3. last \in BlocksOf(chain)
      <3>1. last = BlockAt(chain, cur - 1)
        BY <1>3, <2>2
      <3>2. cur - 1 \in 0 .. Tip(chain)
        BY <2>2, TheChain
      <3> QED BY <3>1, <3>2, TheChain, ChainBlocks
    <2>4. blockRow[last] # "orphaned"
      BY <2>1, <2>3 DEF Follow, KnownInv
    <2> QED BY <2>1, <2>4, CanonicalBlocks
  <1>5. ASSUME f \notin CanonicalRows(blockRow)
        PROVE  /\ blockRow[f] = "absent"
               /\ ~RowsFrom(cur)
               /\ \A d \in CanonicalAt(blockRow, cur - 1) : Parent[f] = d
    <2>1. blockRow[f] = "absent"
      BY <1>1, <1>5, CanonicalBlocks DEF Follow, KnownInv
    <2>2. ASSUME RowsFrom(cur) PROVE FALSE
      <3>1. PICK b \in CanonicalRows(blockRow) : cur <= Number[b]
        BY <2>2 DEF RowsFrom
      <3>2. cur \in StartBlock .. Number[b]
        BY <1>1, <3>1, CanonicalBlocks
      <3>3. PICK d \in CanonicalAt(blockRow, cur) : TRUE
        BY <3>2 DEF Follow, LinkedInv
      <3>4. d \in CanonicalRows(blockRow) /\ Number[d] = cur
        BY <3>3 DEF CanonicalAt
      <3>5. d \in BlocksOf(chain)
        BY <1>2, <3>1, <3>4, AnchoredFrom DEF Anchored
      <3>6. d = f
        BY <3>4, <3>5, TheChain, ChainBlocks
      <3> QED BY <1>5, <3>4, <3>6
    <2>3. ASSUME NEW d \in CanonicalAt(blockRow, cur - 1) PROVE Parent[f] = d
      <3>1. d \in CanonicalRows(blockRow) /\ Number[d] = cur - 1
        BY DEF CanonicalAt
      <3>2. StartBlock <= cur - 1 /\ cur - 1 \in Nat
        BY <3>1, CanonicalBlocks
      <3>3. CASE last = NoHash
        <4>1. Unsettled(cur, last)
          BY <1>1, <3>2, <3>3 DEF Unsettled
        <4>2. d \in BlocksOf(chain)
          BY <1>2, <3>1, <4>1 DEF FollowsRow, Anchored
        <4>3. BlockAt(chain, cur - 1) = d
          BY <3>1, <4>2, TheChain, ChainBlocks
        <4>4. cur \in 1 .. Tip(chain)
          BY <1>1, <3>2
        <4> QED BY <1>3, <4>3, <4>4
      <3>4. CASE last # NoHash
        <4>1. last = d
          BY <1>4, <3>1, <3>4 DEF Follow, LinkedInv
        <4> QED BY <3>4, <4>1 DEF ParentValid
      <3> QED BY <3>3, <3>4
    <2> QED BY <2>1, <2>2, <2>3
  <1> QED BY <1>4, <1>5

\* A search for an ancestor has somewhere to look.
LEMMA SearchStarts ==
    ASSUME ForksAboveStart, Sound, pc = "fetch", ~ParentValid(BlockAt(chain, cur))
    PROVE  LowestProbe <= cur - 1
  <1> USE DEF Sound
  <1>1. last # NoHash /\ Parent[BlockAt(chain, cur)] # last
    BY DEF ParentValid
  <1>2. FollowsRow(cur, last) /\ last \in Blocks
    BY <1>1, TheChain DEF Follow, ResumeInv
  <1>3. Number[last] = cur - 1 /\ blockRow[last] # "absent"
    BY <1>1, <1>2 DEF FollowsRow
  <1>4. /\ StartBlock <= cur - 1 /\ cur - 1 \in Nat /\ Number[last] <= Tip(chain)
        /\ \E c \in Chains : last \in BlocksOf(c)
    BY <1>2, <1>3, BlockAssumption DEF Follow, KnownInv, IInv, AncestorInv
  <1>5. ASSUME cur - 1 < LowestProbe PROVE FALSE
    <2>1. last \in BlocksOf(chain)
      BY <1>3, <1>4, <1>5, TheChain, SharedStart, ConfigAssumption DEF LowestProbe
    <2>2. BlockAt(chain, cur - 1) = last
      BY <1>3, <2>1, TheChain, ChainBlocks
    <2>3. cur \in 1 .. Tip(chain)
      BY <1>4, TheChain DEF IInv, HeadInv
    <2> QED BY <1>1, <2>2, <2>3, TheChain, ChainBlocks
  <1>6. LowestProbe \in Nat
    BY ConfigAssumption DEF LowestProbe
  <1> QED BY <1>4, <1>5, <1>6

LEMMA FetchBlockFollow == ASSUME ForksAboveStart, Sound, FetchBlock PROVE Follow'
  <1> USE DEF Sound
  <1> DEFINE f == BlockAt(chain, cur)
  <1>1. /\ pc = "fetch" /\ pc # "down" /\ pc \notin Persisted
        /\ UNCHANGED <<blockRow, chain, cur, last, checkpoint>> /\ batch' = <<f>>
        /\ pc' \in {"finality", "ancestor"}
        /\ pc' = "finality" => ParentValid(f)
        /\ pc' = "ancestor" => ~ParentValid(f) /\ probe' = cur - 1
    BY DEF FetchBlock, facts, world, progress, Persisted
  <1>2. batch'[1] = f
    BY <1>1
  <1>3. cur <= Tip(chain) /\ f \in BlocksOf(chain) /\ chain \in Chains
    BY <1>1, TheChain, ChainBlocks DEF IInv, HeadInv
  <1>4. ResumeInv'
    BY <1>1, SameResume DEF Follow
  <1>5. LinkedInv' /\ KnownInv'
    BY <1>1 DEF Follow, LinkedInv, KnownInv
  <1>6. SearchInv'
    <2>1. ASSUME pc' = "ancestor" PROVE LowestProbe < cur /\ AbandonedFrom(probe)'
      <3>1. \A d \in CanonicalRows(blockRow) : Number[d] \in Nat
        BY CanonicalBlocks
      <3>2. LowestProbe <= cur - 1 /\ LowestProbe \in Nat
        BY <1>1, <2>1, SearchStarts, ConfigAssumption DEF LowestProbe
      <3> QED BY <1>1, <2>1, <3>1, <3>2, TheChain DEF AbandonedFrom
    <2> QED BY <1>1, <2>1 DEF SearchInv, Handling
  <1>7. ReadInv'
    <2>1. pc' = "finality" =>
              /\ last = NoHash \/ last \in CanonicalRows(blockRow)
              /\ \/ f \in CanonicalRows(blockRow)
                 \/ /\ blockRow[f] = "absent"
                    /\ ~RowsFrom(cur)
                    /\ \A d \in CanonicalAt(blockRow, cur - 1) : Parent[f] = d
      BY <1>1, FetchNext
    <2>2. RowsFrom(cur)' => RowsFrom(cur)
      BY <1>1 DEF RowsFrom
    <2>3. pc' = "finality" => \/ batch'[1] \in CanonicalRows(blockRow')
                              \/ /\ blockRow'[batch'[1]] = "absent"
                                 /\ ~RowsFrom(cur)'
                                 /\ \A d \in CanonicalAt(blockRow', cur' - 1) : Parent[batch'[1]] = d
      BY <1>1, <1>2, <2>1, <2>2
    <2>4. pc' \in Tailing /\ pc' \notin Persisted
          /\ pc' \notin {"drain", "persistWindow", "persist"}
      BY <1>1 DEF Tailing, Persisted
    <2> QED BY <1>1, <1>2, <1>3, <2>1, <2>3, <2>4 DEF ReadInv
  <1> QED BY <1>4, <1>5, <1>6, <1>7 DEF Follow

\* The search never goes below the lowest height it compares: there is a row, and
\* it is the chain's.
LEMMA SearchEnds ==
    ASSUME ForksAboveStart, Sound, pc = "ancestor"
    PROVE  LowestProbe <= probe
  <1> USE DEF Sound
  <1>1. /\ StartBlock <= LowestProbe /\ LowestProbe \in Nat /\ StartBlock \in Nat /\ cur \in Nat
        /\ probe \in Nat
    BY TheChain DEF LowestProbe
  <1>2. last # NoHash /\ LowestProbe < cur /\ AbandonedFrom(probe)
    BY DEF RewindInv, Follow, SearchInv
  <1>3. PICK b \in CanonicalRows(blockRow) : LowestProbe <= Number[b]
    <2>1. FollowsRow(cur, last)
      BY DEF Follow, ResumeInv
    <2>2. CASE last \in CanonicalRows(blockRow)
      <3>1. Number[last] = cur - 1
        BY <1>2, <2>1 DEF FollowsRow
      <3> QED BY <1>1, <1>2, <2>2, <3>1
    <2>3. CASE last \notin CanonicalRows(blockRow)
      BY <1>2, <2>1, <2>3 DEF FollowsRow
    <2> QED BY <2>2, <2>3
  <1>4. LowestProbe \in StartBlock .. Number[b]
    BY <1>1, <1>3, CanonicalBlocks
  <1>5. PICK r \in CanonicalAt(blockRow, LowestProbe) : TRUE
    BY <1>4 DEF Follow, LinkedInv
  <1>6. r \in CanonicalRows(blockRow) /\ Number[r] = LowestProbe
    BY <1>5 DEF CanonicalAt
  <1>7. r \in BlocksOf(chain)
    <2>1. Number[r] <= Tip(chain) /\ \E c \in Chains : r \in BlocksOf(c)
      BY <1>6, CanonicalBlocks DEF Follow, KnownInv
    <2>2. Number[r] <= LowestProbe
      BY <1>1, <1>6
    <2> QED BY <2>1, <2>2, TheChain, SharedStart
  <1>8. ~(probe < Number[r])
    BY <1>2, <1>6, <1>7 DEF AbandonedFrom
  <1> QED BY <1>1, <1>6, <1>8

\* The ancestor found is on the chain, and nothing between it and the position is.
LEMMA FindAncestorFollow == ASSUME ForksAboveStart, Sound, FindAncestor PROVE Follow'
  <1> USE DEF Sound
  <1>1. /\ pc = "ancestor" /\ pc # "down" /\ pc' = "orphan" /\ pc \notin Persisted /\ stage = 1
        /\ UNCHANGED <<blockRow, chain, cur, last, batch, probe, checkpoint, stage>>
    BY DEF FindAncestor, facts, world, memory, Persisted, IInv, AncestorInv
  <1>2. Event'.ancestor = probe
    <2>1. reorgEvents \in Seq(ReorgEvent) /\ reorgEvents' = Append(reorgEvents, NewEvent(probe))
      BY DEF FindAncestor, IInv, TypeOK
    <2>2. Event' = NewEvent(probe)
      BY <2>1 DEF Event, LastOf
    <2> QED BY <2>2 DEF NewEvent
  <1>3. ResumeInv'
    BY <1>1, SameResume DEF Follow
  <1>4. LinkedInv' /\ KnownInv'
    BY <1>1 DEF Follow, LinkedInv, KnownInv
  <1>5. SearchInv'
    <2>1. \E b \in CanonicalAt(blockRow, probe) : b \in BlocksOf(chain)
      BY TheChain, ChainBlocks DEF FindAncestor, HasBlock
    <2>2. LowestProbe <= probe /\ AbandonedFrom(probe)
      BY <1>1, SearchEnds DEF Follow, SearchInv
    <2> QED BY <1>1, <1>2, <2>1, <2>2 DEF SearchInv, AbandonedFrom
  <1>6. ReadInv'
    BY <1>1 DEF Follow, ReadInv, Persisted, Tailing
  <1> QED BY <1>3, <1>4, <1>5, <1>6 DEF Follow

\* The search goes below a height only when no row of it is on the chain.
LEMMA ProbeFollow ==
    ASSUME Sound, ProbeLower \/ ProbeUnanswered, OrderlyFailure
    PROVE  Follow'
  <1> USE DEF Sound
  <1>1. /\ pc = "ancestor" /\ pc # "down" /\ pc' = "ancestor" /\ pc \notin Persisted
        /\ probe > 0 /\ probe' = probe - 1
        /\ UNCHANGED <<blockRow, chain, cur, last, batch, checkpoint>>
    BY DEF ProbeLower, ProbeUnanswered, facts, world, progress, Persisted
  <1>2. ASSUME NEW b \in CanonicalRows(blockRow), Number[b] = probe PROVE b \notin BlocksOf(chain)
    <2>0. b \in CanonicalAt(blockRow, probe)
      BY <1>2 DEF CanonicalAt
    <2>1. CASE ProbeUnanswered
      BY <2>0, <2>1 DEF OrderlyFailure
    <2>2. CASE ProbeLower
      <3> SUFFICES ASSUME b \in BlocksOf(chain) PROVE FALSE
        OBVIOUS
      <3>1. probe \in 0 .. Tip(chain) /\ BlockAt(chain, probe) = b
        BY <1>2, TheChain, ChainBlocks
      <3>2. \A d \in CanonicalAt(blockRow, probe) : d = b
        BY <1>2 DEF Follow, LinkedInv, CanonicalAt
      <3> QED BY <2>0, <2>2, <3>1, <3>2 DEF ProbeLower, HasBlock
    <2> QED BY <2>1, <2>2
  <1>3. ResumeInv'
    BY <1>1, SameResume DEF Follow
  <1>4. LinkedInv' /\ KnownInv'
    BY <1>1 DEF Follow, LinkedInv, KnownInv
  <1>5. SearchInv'
    <2>1. LowestProbe < cur /\ AbandonedFrom(probe)
      BY <1>1 DEF Follow, SearchInv
    <2>2. ASSUME NEW b \in CanonicalRows(blockRow), probe - 1 < Number[b], Number[b] < cur
          PROVE  b \notin BlocksOf(chain)
      <3>1. Number[b] = probe \/ probe < Number[b]
        BY <2>2, TheChain, CanonicalBlocks
      <3> QED BY <1>2, <2>1, <2>2, <3>1 DEF AbandonedFrom
    <2> QED BY <1>1, <2>1, <2>2 DEF SearchInv, AbandonedFrom, Handling
  <1>6. ReadInv'
    BY <1>1 DEF Follow, ReadInv, Persisted, Tailing
  <1> QED BY <1>3, <1>4, <1>5, <1>6 DEF Follow

\* The search never ends without an ancestor.
LEMMA NoAncestorFollow == ASSUME ForksAboveStart, Sound, NoAncestor PROVE FALSE
  <1>1. pc = "ancestor" /\ probe = 0 /\ LowestProbe <= probe
    BY SearchEnds DEF NoAncestor
  <1> QED BY <1>1, ConfigAssumption DEF LowestProbe

\* What an UPDATE of handleReorg makes of the block rows.
LEMMA OrphanBlocks ==
    ASSUME Sound, OrphanTable
    PROVE  /\ CanonicalRows(blockRow') \subseteq CanonicalRows(blockRow)
           /\ \A b \in Blocks : blockRow'[b] = "absent" <=> blockRow[b] = "absent"
           /\ \A b \in CanonicalRows(blockRow) :
                 b \in CanonicalRows(blockRow') \/ (Event.ancestor < Number[b] /\ Number[b] < cur)
           /\ \A b \in Blocks : blockRow'[b] = "orphaned" =>
                 \/ blockRow[b] = "orphaned"
                 \/ b \in CanonicalRows(blockRow) /\ Event.ancestor < Number[b] /\ Number[b] < cur
           /\ stage = 1 => \A b \in CanonicalRows(blockRow') :
                              Number[b] <= Event.ancestor \/ cur <= Number[b]
           /\ stage # 1 => blockRow' = blockRow
  <1> USE DEF Sound
  <1>0. pc \in Handling /\ pc = "orphan"
    BY DEF OrphanTable, Handling
  <1>1. Event.from = Event.ancestor + 1 /\ Event.to = cur - 1 /\ Event.ancestor \in Nat /\ cur \in Nat
    BY <1>0, HandledEvent, TheChain DEF RewindInv
  <1>2. /\ CanonicalRows(blockRow) \subseteq Blocks
        /\ blockRow \in [Blocks -> BlockStatus]
        /\ \A b \in CanonicalRows(blockRow) : Number[b] \in Nat
    BY CanonicalBlocks DEF IInv, TypeOK
  <1>3. blockRow' = IF stage = 1 THEN OrphanRange(blockRow, Event.from, Event.to) ELSE blockRow
    <2>1. stage \in 1 .. 7 /\ \A i \in 1 .. 7 : ReorgTables[i] = "blocks" <=> i = 1
      BY <1>0, ReorgTablesLength DEF ReorgTables, IInv, AncestorInv
    <2> QED BY <2>1 DEF OrphanTable
  <1>4. \A b \in CanonicalRows(blockRow) :
            InRange(Number[b], Event.from, Event.to) <=> Event.ancestor < Number[b] /\ Number[b] < cur
    BY <1>1, <1>2 DEF InRange
  <1>5. CASE stage # 1
    <2>1. blockRow' = blockRow
      BY <1>3, <1>5
    <2> QED BY <1>5, <2>1
  <1>6. CASE stage = 1
    <2>1. \A b \in Blocks : blockRow'[b] =
              IF b \in CanonicalRows(blockRow) /\ InRange(Number[b], Event.from, Event.to)
              THEN "orphaned" ELSE blockRow[b]
      BY <1>3, <1>6 DEF OrphanRange
    <2>2. DOMAIN blockRow' = Blocks /\ DOMAIN blockRow = Blocks
      BY <1>2, <1>3, <1>6 DEF OrphanRange
    <2>3. CanonicalRows(blockRow') \subseteq CanonicalRows(blockRow)
      BY <2>1, <2>2 DEF CanonicalRows
    <2>4. \A b \in Blocks : blockRow'[b] = "absent" <=> blockRow[b] = "absent"
      BY <2>1, CanonicalBlocks
    <2>5. \A b \in CanonicalRows(blockRow) :
              b \in CanonicalRows(blockRow') \/ InRange(Number[b], Event.from, Event.to)
      BY <1>2, <2>1, <2>2 DEF CanonicalRows
    <2>6. ASSUME NEW b \in CanonicalRows(blockRow'), InRange(Number[b], Event.from, Event.to)
          PROVE  FALSE
      <3>1. b \in CanonicalRows(blockRow) /\ b \in Blocks
        BY <1>2, <2>3
      <3>2. blockRow'[b] = "orphaned"
        BY <2>1, <2>6, <3>1
      <3> QED BY <3>2 DEF CanonicalRows
    <2>7. \A b \in CanonicalRows(blockRow') : Number[b] <= Event.ancestor \/ cur <= Number[b]
      BY <1>1, <1>2, <1>4, <2>3, <2>6
    <2> QED BY <1>4, <1>6, <2>1, <2>3, <2>4, <2>5, <2>7
  <1> QED BY <1>5, <1>6

\* When the block rows are marked, nothing of the abandoned fork is left: up to the
\* ancestor the rows are the chain's, and if there were others above the position,
\* there was nothing to mark.
LEMMA OrphanAnchors ==
    ASSUME Sound, OrphanTable
    PROVE  /\ Anchored'
           /\ \A b \in CanonicalRows(blockRow), d \in CanonicalRows(blockRow) :
                 cur <= Number[d] => b \in CanonicalRows(blockRow')
  <1> USE DEF Sound
  <1>1. /\ pc \in Handling /\ pc # "down" /\ pc \notin Persisted /\ chain' = chain
        /\ Event.ancestor \in Nat /\ cur \in Nat /\ StartBlock \in Nat
    BY HandledEvent, TheChain DEF OrphanTable, Handling, Persisted, world
  <1>2. PICK a \in CanonicalAt(blockRow, Event.ancestor) : a \in BlocksOf(chain)
    BY <1>1 DEF Follow, SearchInv
  <1>3. a \in CanonicalRows(blockRow) /\ Number[a] = Event.ancestor
    BY <1>2 DEF CanonicalAt
  <1>4. \A b \in CanonicalRows(blockRow) : Number[b] <= Event.ancestor => b \in BlocksOf(chain)
    BY <1>2, <1>3, TheChain, DownFrom DEF Follow
  <1>5. \A b \in CanonicalRows(blockRow) : cur <= Number[b] => b \in BlocksOf(chain)
    BY <1>1, AnchoredFrom DEF Anchored
  <1>6. Anchored'
    <2>1. CASE stage = 1
      BY <1>1, <1>4, <1>5, <2>1, OrphanBlocks DEF Anchored
    <2>2. CASE stage # 1
      <3>1. stage > 1
        BY <2>2 DEF IInv, TypeOK
      <3> QED BY <1>1, <2>2, <3>1, OrphanBlocks DEF Follow, SearchInv, Anchored
    <2> QED BY <2>1, <2>2
  <1>7. ASSUME NEW b \in CanonicalRows(blockRow), NEW d \in CanonicalRows(blockRow),
               cur <= Number[d]
        PROVE  b \in CanonicalRows(blockRow')
    <2> SUFFICES ASSUME Event.ancestor < Number[b], Number[b] < cur PROVE FALSE
      BY OrphanBlocks
    <2>1. b \in BlocksOf(chain)
      BY <1>1, <1>7, AnchoredFrom DEF Anchored
    <2> QED BY <1>1, <2>1 DEF Follow, SearchInv, AbandonedFrom
  <1> QED BY <1>6, <1>7

\* An orphaned row is not on the chain, and the rows up to the ancestor stay.
LEMMA OrphanTableFollow == ASSUME Sound, OrphanTable PROVE Follow'
  <1> USE DEF Sound
  <1> DEFINE C == CanonicalRows(blockRow)
             D == CanonicalRows(blockRow')
  <1>1. /\ pc \in Handling /\ pc' \in Handling /\ pc # "down" /\ pc' # "down"
        /\ pc \notin Persisted /\ pc' \notin Persisted
        /\ UNCHANGED <<chain, cur, last, batch, probe, checkpoint>> /\ Event' = Event
    BY DEF OrphanTable, world, progress, Handling, Event, LastOf, Persisted
  <1>2. /\ \A b \in C : Number[b] \in Nat /\ StartBlock <= Number[b] /\ b \in Blocks
        /\ StartBlock \in Nat /\ cur \in Nat
        /\ Event.ancestor \in Nat /\ Event.ancestor < cur /\ LowestProbe \in Nat
        /\ D \subseteq C
    BY <1>1, HandledEvent, CanonicalBlocks, OrphanBlocks, TheChain
    DEF LowestProbe, IInv, AncestorInv, Handling
  <1>3. PICK a \in D : Number[a] = Event.ancestor /\ a \in BlocksOf(chain)
    <2>1. PICK b \in CanonicalAt(blockRow, Event.ancestor) : b \in BlocksOf(chain)
      BY <1>1 DEF Follow, SearchInv
    <2>2. b \in C /\ Number[b] = Event.ancestor
      BY <2>1 DEF CanonicalAt
    <2> QED BY <1>2, <2>1, <2>2, OrphanBlocks
  <1>4. Anchored'
    BY OrphanAnchors
  <1>5. LinkedInv'
    <2>1. ASSUME NEW b \in D, NEW n \in StartBlock .. Number[b]
          PROVE  CanonicalAt(blockRow', n) # {}
      <3>1. PICK r \in CanonicalAt(blockRow, n) : TRUE
        BY <1>2 DEF Follow, LinkedInv
      <3>2. r \in C /\ Number[r] = n /\ n <= Number[b]
        BY <1>2, <3>1 DEF CanonicalAt
      <3>3. r \in D
        <4> SUFFICES ASSUME r \notin D PROVE FALSE
          OBVIOUS
        <4>1. Event.ancestor < Number[r] /\ Number[r] < cur
          BY <3>2, OrphanBlocks
        <4>2. CASE stage # 1
          BY <3>2, <4>2, OrphanBlocks
        <4>3. CASE stage = 1
          <5>1. Number[b] <= Event.ancestor \/ cur <= Number[b]
            BY <4>3, OrphanBlocks
          <5>2. cur <= Number[b]
            BY <1>2, <3>2, <4>1, <5>1
          <5> QED BY <1>2, <3>2, <5>2, OrphanAnchors
        <4> QED BY <4>2, <4>3
      <3> QED BY <3>2, <3>3 DEF CanonicalAt
    <2> QED BY <1>2, <2>1 DEF Follow, LinkedInv
  <1>6. KnownInv'
    <2>1. ASSUME NEW b \in Blocks, blockRow'[b] = "orphaned" PROVE b \notin BlocksOf(chain)
      <3>1. \/ blockRow[b] = "orphaned"
            \/ b \in C /\ Event.ancestor < Number[b] /\ Number[b] < cur
        BY <2>1, OrphanBlocks
      <3> QED BY <1>1, <3>1 DEF Follow, KnownInv, SearchInv, AbandonedFrom
    <2> QED BY <1>1, <2>1, OrphanBlocks DEF Follow, KnownInv
  <1>7. ASSUME NEW n, NEW h, n \in Nat, cur <= n, h \in Blocks \cup {NoHash}, FollowsRow(n, h),
               h # NoHash \/ n <= StartBlock
        PROVE  FollowsRow(n, h)'
    <2>1. h # NoHash => blockRow'[h] # "absent"
      BY <1>7, OrphanBlocks DEF FollowsRow
    <2>2. LowestProbe <= Number[a] /\ Number[a] < n
      BY <1>1, <1>2, <1>3, <1>7 DEF Follow, SearchInv
    <2>3. ~(h = NoHash /\ StartBlock < n)
      BY <1>2, <1>7
    <2> QED BY <1>1, <1>3, <1>4, <1>7, <2>1, <2>2, <2>3 DEF FollowsRow
  <1>8. ResumeInv'
    <2>1. FollowsRow(cur, last)'
      <3>1. FollowsRow(cur, last) /\ last # NoHash /\ last \in Blocks \cup {NoHash}
        BY <1>1, TheChain DEF Follow, ResumeInv, RewindInv
      <3>2. \A n, h : n = cur /\ h = last => FollowsRow(n, h)'
        BY <1>2, <1>7, <3>1
      <3> QED BY <1>1, <3>2 DEF FollowsRow, Unsettled, RowsFrom
    <2>2. FollowsRow(checkpoint.next, checkpoint.hash)'
      <3>1. /\ checkpoint.next \in Nat /\ cur <= checkpoint.next
            /\ checkpoint.hash \in Blocks \cup {NoHash}
        <4>1. checkpoint # NoCheckpoint /\ cur <= checkpoint.next /\ checkpoint \in Checkpoints
          BY <1>1 DEF IInv, TypeOK, PositionInv
        <4> QED BY <1>2, <4>1 DEF Checkpoints
      <3>2. /\ FollowsRow(checkpoint.next, checkpoint.hash)
            /\ checkpoint.hash # NoHash \/ checkpoint.next <= StartBlock
        BY DEF Follow, ResumeInv
      <3>3. \A n, h : n = checkpoint.next /\ h = checkpoint.hash => FollowsRow(n, h)'
        BY <1>7, <3>1, <3>2
      <3> QED BY <1>1, <3>3 DEF FollowsRow, Unsettled, RowsFrom
    <2>3. checkpoint # NoCheckpoint
      BY <1>1 DEF IInv, PositionInv
    <2> QED BY <1>1, <2>1, <2>2, <2>3 DEF Follow, ResumeInv
  <1>9. SearchInv'
    <2>1. LowestProbe <= Event.ancestor /\ AbandonedFrom(Event.ancestor)
      BY <1>1 DEF Follow, SearchInv
    <2>2. AbandonedFrom(Event.ancestor)'
      BY <1>1, <1>2, <2>1 DEF AbandonedFrom
    <2>3. a \in CanonicalAt(blockRow', Event.ancestor)
      BY <1>3 DEF CanonicalAt
    <2>4. pc' # "ancestor"
      BY <1>1 DEF Handling
    <2> QED BY <1>1, <1>3, <1>4, <2>1, <2>2, <2>3, <2>4 DEF SearchInv
  <1>10. ReadInv'
    <2>1. pc' \notin {"drain", "persistWindow", "finality", "persist"} /\ pc \in Tailing
      BY <1>1 DEF Handling, Tailing
    <2> QED BY <1>1, <2>1 DEF Follow, ReadInv
  <1> QED BY <1>5, <1>6, <1>8, <1>9, <1>10 DEF Follow

\* The ancestor is the block the position goes back to.
LEMMA ResolveFollow == ASSUME Sound, ResolveReorg PROVE Follow'
  <1> USE DEF Sound
  <1>1. /\ pc = "resolve" /\ pc \in Handling /\ pc # "down" /\ pc' = "top" /\ pc \notin Persisted
        /\ pc' \notin Persisted /\ UNCHANGED <<blockRow, chain, checkpoint>>
        /\ cur' = Event.ancestor + 1 /\ last' = NoHash
    BY DEF ResolveReorg, Iterate, facts, world, Handling, Persisted
  <1>2. Anchored
    <2>1. stage > 1
      BY <1>1, ReorgTablesLength DEF MarkedInv
    <2> QED BY <1>1, <2>1 DEF Follow, SearchInv
  <1>3. ResumeInv'
    <2>1. Event.ancestor \in Nat /\ CanonicalAt(blockRow, Event.ancestor) # {}
      BY <1>1, HandledEvent DEF Follow, SearchInv
    <2>2. cur' - 1 = Event.ancestor
      BY <1>1, <2>1
    <2>3. FollowsRow(cur, last)'
      BY <1>1, <1>2, <2>1, <2>2 DEF FollowsRow, Anchored
    <2>4. FollowsRow(checkpoint.next, checkpoint.hash)'
      <3>1. \A n, h : FollowsRow(n, h) => FollowsRow(n, h)'
        BY <1>1, SameFollows
      <3>2. FollowsRow(checkpoint.next, checkpoint.hash)
        BY DEF Follow, ResumeInv
      <3> QED BY <1>1, <3>1, <3>2 DEF FollowsRow, Unsettled, RowsFrom
    <2> QED BY <1>1, <2>3, <2>4 DEF Follow, ResumeInv
  <1>4. LinkedInv' /\ KnownInv'
    BY <1>1 DEF Follow, LinkedInv, KnownInv
  <1>5. SearchInv'
    BY <1>1 DEF SearchInv, Handling
  <1>6. ReadInv'
    BY <1>1 DEF ReadInv, Persisted, Tailing
  <1> QED BY <1>3, <1>4, <1>5, <1>6 DEF Follow

\* The steps of a block or window that write no block row and move nothing.
LEMMA QuietFollow ==
    ASSUME Sound, DetermineFinality \/ RouteBlock \/ RouteWindow \/ PublishWindow
    PROVE  Follow'
  <1> USE DEF Sound
  <1>1. UNCHANGED <<blockRow, chain, cur, last, batch, checkpoint>> /\ BatchBlocks' = BatchBlocks
    BY DEF DetermineFinality, RouteBlock, RouteWindow, PublishWindow, HandleProtocolEvents, facts,
           world, memory, progress, BatchBlocks
  <1>2. \/ pc = "finality" /\ pc' = "persist"
        \/ pc \in {"route", "routeWindow", "publishWindow"}
           /\ pc' \in {"publish", "publishWindow", "saveWindow"}
           /\ (pc' = "publish" => pc = "route")
    BY DEF DetermineFinality, RouteBlock, RouteWindow, PublishWindow
  <1>3. pc # "down" /\ pc' # "down" /\ (pc \in Persisted <=> pc' \in Persisted)
    BY <1>2 DEF Persisted
  <1>4. ResumeInv'
    BY <1>1, <1>3, SameResume DEF Follow
  <1>5. LinkedInv' /\ KnownInv'
    BY <1>1 DEF Follow, LinkedInv, KnownInv
  <1>6. SearchInv'
    BY <1>2 DEF SearchInv, Handling
  <1>7. ReadInv'
    <2>1. CASE pc = "finality" /\ pc' = "persist"
      <3>1. RowsFrom(cur)' = RowsFrom(cur) /\ Recovering' = Recovering
        BY <1>1, <2>1 DEF RowsFrom, Recovering, Unsettled, Persisted, Handling
      <3>2. pc' \notin Persisted /\ pc \in Tailing /\ pc' \in Tailing
        BY <2>1 DEF Persisted, Tailing
      <3> QED BY <1>1, <2>1, <3>1, <3>2 DEF Follow, ReadInv
    <2>2. CASE pc # "finality"
      <3>1. /\ pc' \notin {"drain", "persistWindow", "finality", "persist"}
            /\ pc' \in Persisted /\ pc \in Persisted /\ (pc' \in Tailing => pc \in Tailing)
        BY <1>2, <1>3, <2>2 DEF Tailing, Persisted
      <3> QED BY <1>1, <3>1 DEF Follow, ReadInv
    <2> QED BY <1>2, <2>1, <2>2
  <1> QED BY <1>4, <1>5, <1>6, <1>7 DEF Follow

\* A batch of one block.
LEMMA OneBlock ==
    ASSUME IInv, pc \in Tailing
    PROVE  /\ batch[1] \in Blocks /\ BatchBlocks = {batch[1]} /\ LastOf(batch) = batch[1]
           /\ Number[batch[1]] = cur
  <1>1. batch \in Seq(Blocks) /\ Len(batch) = 1 /\ cur \in Nat
        /\ \A i \in 1 .. Len(batch) : Number[batch[i]] = cur + i - 1
    BY DEF IInv, TypeOK, BatchInv
  <1>2. DOMAIN batch = {1} /\ batch[1] \in Blocks
    <2>1. DOMAIN batch = 1 .. Len(batch) /\ batch \in [1 .. Len(batch) -> Blocks]
      BY <1>1, LenProperties
    <2>2. 1 .. 1 = {1}
      OBVIOUS
    <2> QED BY <1>1, <2>1, <2>2
  <1>3. BatchBlocks = {batch[1]} /\ LastOf(batch) = batch[1]
    BY <1>1, <1>2 DEF BatchBlocks, LastOf
  <1>4. Number[batch[1]] = cur
    BY <1>1
  <1> QED BY <1>2, <1>3, <1>4

\* The blocks of a window are the chain's.
LEMMA WindowBlocks ==
    ASSUME IInv, WindowInv, pc \in Draining
    PROVE  \A b \in BatchBlocks :
              /\ b \in Blocks /\ b \in BlocksOf(chain)
              /\ Number[b] \in Nat /\ cur <= Number[b]
  <1> SUFFICES ASSUME NEW b \in BatchBlocks PROVE b \in BlocksOf(chain)
    BY BatchHeights, BlockAssumption
  <1>1. PICK i \in DOMAIN batch : b = batch[i]
    BY DEF BatchBlocks
  <1>2. cur + i <= Len(chain) - FinalityConfirmations /\ chain[cur + i] = b
    BY <1>1 DEF WindowInv
  <1>3. cur \in Nat /\ DOMAIN batch = 1 .. Len(batch) /\ Len(batch) \in Nat
        /\ DOMAIN chain = 1 .. Len(chain) /\ Len(chain) \in Nat
    BY TheChain, LenProperties DEF IsChain
  <1>4. cur + i \in DOMAIN chain
    BY <1>2, <1>3, ConfigAssumption
  <1> QED BY <1>2, <1>4 DEF BlocksOf

\* What is recorded twice is recorded once: a batch becomes canonical with what
\* was canonical before, and no other row changes.
LEMMA InsertRows ==
    ASSUME Sound, pc \in {"persistWindow", "persist"},
           NEW status \in {"unfinal", "finalized"}, InsertBatch(status)
    PROVE  /\ BatchBlocks \subseteq Blocks
           /\ CanonicalRows(blockRow') = CanonicalRows(blockRow) \cup BatchBlocks
           /\ \A b \in Blocks : blockRow[b] # "absent" => blockRow'[b] = blockRow[b]
           /\ \A b \in Blocks : b \notin BatchBlocks => blockRow'[b] = blockRow[b]
  <1> USE DEF Sound
  <1>1. BatchBlocks \subseteq Blocks /\ \A b \in BatchBlocks : blockRow[b] # "orphaned"
    <2>1. CASE pc = "persist"
      <3>1. batch[1] \in Blocks /\ BatchBlocks = {batch[1]}
        BY <2>1, OneBlock DEF Tailing
      <3>2. batch[1] \in CanonicalRows(blockRow) \/ blockRow[batch[1]] = "absent"
        BY <2>1 DEF Follow, ReadInv
      <3> QED BY <3>1, <3>2, CanonicalBlocks
    <2>2. CASE pc = "persistWindow"
      BY <2>2, WindowBlocks DEF Follow, KnownInv, Draining
    <2> QED BY <2>1, <2>2
  <1>2. blockRow' = InsertBlocks(blockRow, BatchBlocks, status)
    BY DEF InsertBatch
  <1>3. blockRow \in [Blocks -> BlockStatus]
    BY DEF IInv, TypeOK
  <1>4. \A b \in Blocks : blockRow'[b] = IF b \in BatchBlocks /\ blockRow[b] = "absent"
                                         THEN status ELSE blockRow[b]
    BY <1>2 DEF InsertBlocks
  <1>5. DOMAIN blockRow' = Blocks /\ DOMAIN blockRow = Blocks
    BY <1>2, <1>3 DEF InsertBlocks
  <1>6. \A b \in BatchBlocks : b \in CanonicalRows(blockRow) \/ blockRow[b] = "absent"
    BY <1>1, CanonicalBlocks
  <1>7. \A b \in CanonicalRows(blockRow') : b \in CanonicalRows(blockRow) \cup BatchBlocks
    BY <1>4, <1>5 DEF CanonicalRows
  <1>8. \A b \in CanonicalRows(blockRow) : b \in CanonicalRows(blockRow')
    BY <1>4, <1>5 DEF CanonicalRows
  <1>9. \A b \in BatchBlocks : b \in CanonicalRows(blockRow')
    BY <1>1, <1>4, <1>5, <1>6 DEF CanonicalRows
  <1> QED BY <1>1, <1>4, <1>7, <1>8, <1>9

\* Whatever is not settled yet has only blocks of the chain recorded.
LEMMA InsertResume ==
    ASSUME Sound, pc \in {"persistWindow", "persist"}, pc' \in Persisted,
           UNCHANGED <<chain, checkpoint, cur, last, batch>>,
           CanonicalRows(blockRow') = CanonicalRows(blockRow) \cup BatchBlocks,
           \A b \in Blocks : blockRow[b] # "absent" => blockRow'[b] = blockRow[b],
           Recovering => BatchBlocks \subseteq BlocksOf(chain)
    PROVE  ResumeInv'
  <1> USE DEF Sound
  <1>1. pc # "down" /\ pc \notin Persisted /\ pc' # "down" /\ BatchBlocks' = BatchBlocks
    BY DEF Persisted, BatchBlocks
  <1>2. ASSUME NEW n, NEW h, h \in Blocks \cup {NoHash}, FollowsRow(n, h),
               Unsettled(n, h) => Recovering
        PROVE  FollowsRow(n, h)'
    <2>1. RowsFrom(n)' => RowsFrom(n)
      BY <1>1 DEF RowsFrom
    <2>2. Unsettled(n, h)' => Unsettled(n, h)
      BY <2>1 DEF Unsettled
    <2>3. Unsettled(n, h)' => Anchored'
      BY <1>2, <2>2 DEF FollowsRow, Anchored
    <2>4. h # NoHash => blockRow'[h] # "absent"
      BY <1>2 DEF FollowsRow
    <2>5. h = NoHash /\ StartBlock < n => CanonicalAt(blockRow', n - 1) # {}
      BY <1>2 DEF FollowsRow, CanonicalAt
    <2> QED BY <1>2, <2>3, <2>4, <2>5 DEF FollowsRow
  <1>3. FollowsRow(cur, last)'
    <2>1. FollowsRow(cur, last) /\ (Unsettled(cur, last) => Recovering) /\ last \in Blocks \cup {NoHash}
      BY <1>1, TheChain DEF Follow, ResumeInv, Recovering
    <2>2. \A n, h : n = cur /\ h = last => FollowsRow(n, h)'
      BY <1>2, <2>1
    <2> QED BY <2>2 DEF FollowsRow, Unsettled, RowsFrom
  <1>4. FollowsRow(checkpoint.next, checkpoint.hash)'
    <2>1. /\ FollowsRow(checkpoint.next, checkpoint.hash)
          /\ Unsettled(checkpoint.next, checkpoint.hash) => Recovering
          /\ checkpoint.hash \in Blocks \cup {NoHash}
      BY DEF Follow, ResumeInv, Recovering, IInv, TypeOK, Checkpoints
    <2>2. \A n, h : n = checkpoint.next /\ h = checkpoint.hash => FollowsRow(n, h)'
      BY <1>2, <2>1
    <2> QED BY <2>2 DEF FollowsRow, Unsettled, RowsFrom
  <1>5. checkpoint # NoCheckpoint
    BY <1>1 DEF IInv, PositionInv
  <1> QED BY <1>3, <1>4, <1>5 DEF Follow, ResumeInv

\* There is a row of every height below a position that is not torn.
LEMMA RowsBelow ==
    ASSUME Sound, pc # "down", last = NoHash \/ last \in CanonicalRows(blockRow),
           NEW n \in StartBlock .. cur - 1
    PROVE  CanonicalAt(blockRow, n) # {}
  <1>1. FollowsRow(cur, last) /\ LinkedInv /\ IInv
    BY DEF Sound, Follow, ResumeInv
  <1>2. StartBlock \in Nat /\ cur \in Nat
    BY <1>1, TheChain
  <1>3. PICK r \in CanonicalRows(blockRow) : Number[r] = cur - 1
    <2>1. CASE last = NoHash
      <3>1. CanonicalAt(blockRow, cur - 1) # {}
        BY <1>1, <1>2, <2>1 DEF FollowsRow
      <3> QED BY <3>1 DEF CanonicalAt
    <2>2. CASE last # NoHash
      BY <1>1, <2>2 DEF FollowsRow
    <2> QED BY <2>1, <2>2
  <1>4. n \in StartBlock .. Number[r]
    BY <1>2, <1>3
  <1> QED BY <1>1, <1>4 DEF LinkedInv

\* A window continues the canonical chain: all rows are the chain's.
LEMMA PersistWindowFollow == ASSUME Sound, PersistWindow PROVE Follow'
  <1> USE DEF Sound
  <1>1. /\ pc = "persistWindow" /\ pc \in Draining /\ pc' = "routeWindow" /\ pc # "down"
        /\ pc \notin Persisted /\ pc' \in Persisted
        /\ UNCHANGED <<chain, cur, last, batch, checkpoint>> /\ InsertBatch("finalized")
    BY DEF PersistWindow, world, memory, progress, Draining, Persisted
  <1>2. \A b \in BatchBlocks :
            /\ b \in Blocks /\ b \in BlocksOf(chain)
            /\ Number[b] \in Nat /\ cur <= Number[b]
    BY <1>1, WindowBlocks
  <1>3. /\ CanonicalRows(blockRow') = CanonicalRows(blockRow) \cup BatchBlocks
        /\ \A b \in Blocks : blockRow[b] # "absent" => blockRow'[b] = blockRow[b]
        /\ \A b \in Blocks : b \notin BatchBlocks => blockRow'[b] = blockRow[b]
    BY <1>1, InsertRows
  <1>4. cur \in Nat /\ StartBlock \in Nat /\ \A b \in CanonicalRows(blockRow) : Number[b] \in Nat
    BY TheChain, CanonicalBlocks
  <1>5. ASSUME NEW b \in CanonicalRows(blockRow') PROVE b \in BlocksOf(chain)
    <2>1. CASE b \in BatchBlocks
      BY <1>2, <2>1
    <2>2. CASE b \in CanonicalRows(blockRow) /\ cur <= Number[b]
      BY <1>1, <2>2, AnchoredFrom DEF Anchored
    <2>3. CASE b \in CanonicalRows(blockRow) /\ Number[b] < cur
      BY <1>1, <2>3 DEF Follow, ReadInv
    <2> QED BY <1>3, <1>4, <2>1, <2>2, <2>3
  <1>6. LinkedInv'
    <2>1. ASSUME NEW b \in CanonicalRows(blockRow'), NEW n \in StartBlock .. Number[b]
          PROVE  CanonicalAt(blockRow', n) # {}
      <3>1. CanonicalAt(blockRow, n) \subseteq CanonicalAt(blockRow', n)
        BY <1>3 DEF CanonicalAt
      <3>2. CASE b \in CanonicalRows(blockRow)
        BY <3>1, <3>2 DEF Follow, LinkedInv
      <3>3. CASE b \in BatchBlocks /\ n < cur
        <4>1. n \in StartBlock .. cur - 1
          BY <1>4, <3>3
        <4> QED BY <1>1, <3>1, <4>1, RowsBelow DEF Follow, ReadInv
      <3>4. CASE b \in BatchBlocks /\ cur <= n
        <4>1. Number[b] < cur + Len(batch) /\ Len(batch) \in Nat
          BY <1>1, <3>4, BatchHeights, TheChain
        <4>2. n \in cur .. cur + Len(batch) - 1
          BY <1>2, <1>4, <3>4, <4>1
        <4>3. PICK d \in BatchBlocks : Number[d] = n
          BY <1>1, <4>2, BatchCoversHeights
        <4> QED BY <1>3, <4>3 DEF CanonicalAt
      <3> QED BY <1>3, <1>4, <3>2, <3>3, <3>4
    <2>2. ASSUME NEW b \in CanonicalRows(blockRow'), NEW d \in CanonicalRows(blockRow')
          PROVE  /\ Number[b] = Number[d] => b = d
                 /\ Number[d] = Number[b] + 1 => Parent[d] = b
      <3>1. /\ Number[b] \in 0 .. Tip(chain) /\ BlockAt(chain, Number[b]) = b
            /\ Number[d] \in 0 .. Tip(chain) /\ BlockAt(chain, Number[d]) = d
        BY <1>5, TheChain, ChainBlocks
      <3>2. ASSUME Number[d] = Number[b] + 1 PROVE Parent[d] = b
        <4>1. Number[d] \in 1 .. Tip(chain) /\ Number[d] - 1 = Number[b]
          BY <3>1, <3>2, TheChain
        <4> QED BY <3>1, <4>1, TheChain, ChainBlocks
      <3> QED BY <3>1, <3>2
    <2> QED BY <1>1, <2>1, <2>2 DEF LinkedInv
  <1>7. KnownInv'
    <2>1. \A b \in BatchBlocks : Number[b] <= Tip(chain) /\ \E c \in Chains : b \in BlocksOf(c)
      BY <1>2, TheChain, ChainBlocks
    <2>2. \A b \in BatchBlocks : blockRow'[b] # "orphaned"
      BY <1>3 DEF CanonicalRows
    <2> QED BY <1>1, <1>3, <2>1, <2>2 DEF Follow, KnownInv
  <1>8. ResumeInv'
    BY <1>1, <1>2, <1>3, InsertResume
  <1>9. SearchInv'
    BY <1>1 DEF SearchInv, Handling
  <1>10. ReadInv'
    <2>1. BatchBlocks' = BatchBlocks /\ pc' \notin Tailing
      BY <1>1 DEF BatchBlocks, Tailing
    <2>2. last = NoHash \/ last \in CanonicalRows(blockRow)
      BY <1>1 DEF Follow, ReadInv
    <2> QED BY <1>1, <1>3, <2>1, <2>2 DEF ReadInv
  <1> QED BY <1>6, <1>7, <1>8, <1>9, <1>10 DEF Follow

\* A tailed block continues the canonical chain, or its row is there already.
LEMMA PersistBlockFollow == ASSUME Sound, PersistBlock PROVE Follow'
  <1> USE DEF Sound
  <1> DEFINE new == batch[1]
             C == CanonicalRows(blockRow)
             D == CanonicalRows(blockRow')
  <1>1. /\ pc = "persist" /\ pc \in Tailing /\ pc' = "save" /\ pc' \in Persisted /\ pc # "down"
        /\ pc \notin Persisted /\ UNCHANGED <<chain, cur, last, batch, checkpoint>>
        /\ InsertBatch(finality) /\ finality \in {"unfinal", "finalized"}
    BY DEF PersistBlock, world, memory, progress, Tailing, Persisted, IInv, TypeOK
  <1>2. /\ new \in Blocks /\ Number[new] = cur /\ BatchBlocks = {new}
        /\ cur <= Tip(chain) /\ \E c \in Chains : new \in BlocksOf(c)
        /\ Recovering => new \in BlocksOf(chain)
        /\ last = NoHash \/ last \in C
    BY <1>1, OneBlock DEF Follow, ReadInv
  <1>3. /\ D = C \cup {new}
        /\ \A b \in Blocks : blockRow[b] # "absent" => blockRow'[b] = blockRow[b]
        /\ \A b \in Blocks : b # new => blockRow'[b] = blockRow[b]
    BY <1>1, <1>2, InsertRows
  <1>4. /\ cur \in Nat /\ StartBlock \in Nat /\ \A b \in C : Number[b] \in Nat
        /\ new \in C \/ (/\ \A b \in C : Number[b] < cur
                         /\ \A b \in C : Number[b] = cur - 1 => Parent[new] = b)
    <2>1. cur \in Nat /\ StartBlock \in Nat /\ \A b \in C : Number[b] \in Nat
      BY TheChain, CanonicalBlocks
    <2>2. ASSUME new \notin C
          PROVE  ~RowsFrom(cur) /\ \A b \in CanonicalAt(blockRow, cur - 1) : Parent[new] = b
      BY <1>1, <2>2 DEF Follow, ReadInv
    <2>3. new \notin C => \A b \in C : Number[b] < cur
      BY <1>1, <2>1, <2>2 DEF RowsFrom
    <2> QED BY <2>1, <2>2, <2>3 DEF CanonicalAt
  <1> HIDE DEF new
  <1>5. LinkedInv'
    <2>1. ASSUME NEW b \in D, NEW n \in StartBlock .. Number[b]
          PROVE  CanonicalAt(blockRow', n) # {}
      <3>1. CanonicalAt(blockRow, n) \subseteq CanonicalAt(blockRow', n)
        BY <1>3 DEF CanonicalAt
      <3>2. CASE b \in C
        BY <3>1, <3>2 DEF Follow, LinkedInv
      <3>3. CASE b = new /\ n = cur
        BY <1>2, <1>3, <3>3 DEF CanonicalAt
      <3>4. CASE b = new /\ n # cur
        <4>1. n \in StartBlock .. cur - 1
          BY <1>2, <1>4, <3>4
        <4> QED BY <1>1, <1>2, <3>1, <4>1, RowsBelow
      <3> QED BY <1>3, <3>2, <3>3, <3>4
    <2>2. CASE new \in C
      <3>1. D = C
        BY <1>3, <2>2
      <3> QED BY <1>1, <2>1, <3>1 DEF Follow, LinkedInv
    <2>3. CASE new \notin C
      <3>1. \A b \in C : Number[b] < cur /\ (Number[b] = cur - 1 => Parent[new] = b)
        BY <1>4, <2>3
      <3>2. ASSUME NEW b \in D, NEW d \in D
            PROVE  /\ Number[b] = Number[d] => b = d
                   /\ Number[d] = Number[b] + 1 => Parent[d] = b
        <4>1. CASE b \in C /\ d \in C
          BY <4>1 DEF Follow, LinkedInv
        <4>2. CASE b \in C /\ d = new
          <5>1. Number[b] < cur /\ Number[d] = cur /\ Number[b] \in Nat
            BY <1>2, <1>4, <3>1, <4>2
          <5>2. Number[d] = Number[b] + 1 => Number[b] = cur - 1
            BY <5>1
          <5> QED BY <1>4, <3>1, <4>2, <5>1, <5>2
        <4>3. CASE b = new /\ d \in C
          <5>1. Number[d] < cur /\ Number[b] = cur /\ Number[d] \in Nat
            BY <1>2, <1>4, <3>1, <4>3
          <5> QED BY <1>4, <5>1
        <4>4. CASE b = new /\ d = new
          BY <1>2, <1>4, <4>4
        <4> QED BY <1>3, <4>1, <4>2, <4>3, <4>4
      <3> QED BY <1>1, <2>1, <3>2 DEF LinkedInv
    <2> QED BY <2>2, <2>3
  <1>6. KnownInv'
    <2>1. blockRow'[new] # "orphaned"
      BY <1>3 DEF CanonicalRows
    <2> QED BY <1>1, <1>2, <1>3, <2>1 DEF Follow, KnownInv
  <1>7. ResumeInv'
    BY <1>1, <1>2, <1>3, InsertResume
  <1>8. SearchInv'
    BY <1>1 DEF SearchInv, Handling
  <1>9. ReadInv'
    <2>1. batch'[1] = new /\ BatchBlocks' = {new}
      BY <1>1, <1>2 DEF new, BatchBlocks
    <2> QED BY <1>1, <1>2, <1>3, <2>1 DEF ReadInv
  <1> QED BY <1>5, <1>6, <1>7, <1>8, <1>9 DEF Follow

\* Past the batch, the position follows its last block.
LEMMA PastBatch ==
    ASSUME Sound, pc \in {"saveWindow", "save", "publish"}
    PROVE  /\ LastOf(batch) \in CanonicalRows(blockRow) /\ LastOf(batch) # NoHash
           /\ Number[LastOf(batch)] = cur + Len(batch) - 1
           /\ blockRow[LastOf(batch)] # "absent"
           /\ cur + Len(batch) \in Nat
           /\ \A b \in CanonicalRows(blockRow) : cur + Len(batch) <= Number[b] => Anchored
  <1> USE DEF Sound
  <1>1. pc \in Draining \cup Tailing /\ pc \in Persisted /\ pc # "down"
    BY DEF Draining, Tailing, Persisted
  <1>2. /\ cur \in Nat /\ batch \in Seq(Blocks) /\ Len(batch) \in Nat
        /\ Len(batch) >= 1 /\ DOMAIN batch = 1 .. Len(batch)
        /\ \A i \in 1 .. Len(batch) : Number[batch[i]] = cur + i - 1
    BY <1>1, TheChain, LenProperties DEF IInv, BatchInv
  <1>3. LastOf(batch) \in BatchBlocks /\ Number[LastOf(batch)] = cur + Len(batch) - 1
    <2>1. Len(batch) \in DOMAIN batch
      BY <1>2
    <2> QED BY <1>2, <2>1 DEF LastOf, BatchBlocks
  <1>4. LastOf(batch) \in CanonicalRows(blockRow)
    BY <1>1, <1>3 DEF Follow, ReadInv
  <1>5. ASSUME NEW b \in CanonicalRows(blockRow), cur + Len(batch) <= Number[b] PROVE Anchored
    <2>1. b \notin BatchBlocks /\ cur <= Number[b]
      BY <1>1, <1>2, <1>5, BatchHeights, CanonicalBlocks
    <2>2. RowsFrom(cur)
      BY <2>1 DEF RowsFrom
    <2> QED BY <1>1, <2>2 DEF Follow, ResumeInv, FollowsRow, Unsettled
  <1> QED BY <1>2, <1>3, <1>4, <1>5, CanonicalBlocks, BlockAssumption

\* The checkpoint and the position move past the batch.
LEMMA PassFollow == ASSUME Sound, SaveWindow \/ SaveBlock \/ PublishBlock PROVE Follow'
  <1> USE DEF Sound
  <1> DEFINE next == cur + Len(batch)
             hash == LastOf(batch)
  <1>1. /\ pc \in {"saveWindow", "save", "publish"} /\ pc \in Persisted /\ pc # "down"
        /\ pc' \in {"top", "route"} /\ pc' # "down" /\ (pc' = "route" <=> pc = "save")
        /\ UNCHANGED <<chain, blockRow>>
        /\ pc # "saveWindow" => Len(batch) = 1
    BY DEF SaveWindow, SaveBlock, PublishBlock, Iterate, world, facts, Persisted, IInv, BatchInv,
           Tailing
  <1>2. ASSUME NEW n, NEW h, n = next, h = hash PROVE FollowsRow(n, h)'
    <2>1. Unsettled(n, h)' => Anchored
      BY <1>1, <1>2, PastBatch DEF Unsettled, RowsFrom
    <2>2. Anchored' = Anchored
      BY <1>1 DEF Anchored
    <2>3. Number[h] = n - 1
      <3>1. cur \in Nat /\ Len(batch) \in Nat /\ Number[hash] = cur + Len(batch) - 1
        BY <1>1, PastBatch, TheChain, LenProperties
      <3>2. Number[hash] = next - 1
        BY <3>1
      <3> QED BY <1>2, <3>2
    <2>4. h # NoHash /\ h \in CanonicalRows(blockRow') /\ blockRow'[h] # "absent"
      BY <1>1, <1>2, PastBatch
    <2> QED BY <2>1, <2>2, <2>3, <2>4 DEF FollowsRow
  <1>3. FollowsRow(cur, last) /\ FollowsRow(checkpoint.next, checkpoint.hash)
    BY <1>1 DEF Follow, ResumeInv
  <1> HIDE DEF next, hash
  <1>4. ResumeInv'
    <2>1. CASE SaveWindow
      <3>1. /\ checkpoint'.next = next /\ checkpoint'.hash = hash /\ cur' = next /\ last' = hash
        BY <2>1 DEF SaveWindow, AfterWindow, Iterate, next, hash
      <3>2. FollowsRow(cur, last)' /\ FollowsRow(checkpoint.next, checkpoint.hash)'
        BY <1>2, <3>1 DEF FollowsRow, Unsettled, RowsFrom
      <3>3. hash # NoHash
        BY <1>1, PastBatch DEF hash
      <3> QED BY <3>1, <3>2, <3>3 DEF ResumeInv, NoCheckpoint
    <2>2. CASE SaveBlock
      <3>1. /\ checkpoint'.next = next /\ checkpoint'.hash = hash
            /\ UNCHANGED <<cur, last, batch>> /\ pc' \in Persisted
        BY <1>1, <2>2 DEF SaveBlock, memory, next, hash, Persisted
      <3>2. FollowsRow(cur, last)'
        <4>1. \A n, h : FollowsRow(n, h) => FollowsRow(n, h)'
          BY <1>1, <3>1, SameFollows
        <4> QED BY <1>3, <3>1, <4>1 DEF FollowsRow, Unsettled, RowsFrom
      <3>3. FollowsRow(checkpoint.next, checkpoint.hash)'
        BY <1>2, <3>1 DEF FollowsRow, Unsettled, RowsFrom
      <3>4. hash # NoHash
        BY <1>1, PastBatch DEF hash
      <3> QED BY <3>1, <3>2, <3>3, <3>4 DEF ResumeInv, NoCheckpoint
    <2>3. CASE PublishBlock
      <3>1. /\ cur' = next /\ last' = hash /\ checkpoint' = checkpoint /\ pc = "publish"
            /\ pc' = "top" /\ pc' \notin Persisted
        BY <1>1, <2>3 DEF PublishBlock, Iterate, next, hash, Persisted
      <3>2. FollowsRow(cur, last)'
        BY <1>2, <3>1 DEF FollowsRow, Unsettled, RowsFrom
      <3>3. FollowsRow(checkpoint.next, checkpoint.hash)'
        <4>1. checkpoint.next = next
          BY <1>1, <3>1 DEF RewindInv, next
        <4>2. RowsFrom(checkpoint.next)' => Anchored
          BY <1>1, <3>1, <4>1, PastBatch DEF RowsFrom, next
        <4>3. Unsettled(checkpoint.next, checkpoint.hash)' => Anchored
          BY <1>1, <1>3, <3>1, <4>2 DEF Unsettled, FollowsRow
        <4>4. Anchored' = Anchored
          BY <1>1 DEF Anchored
        <4> QED BY <1>1, <1>3, <3>1, <4>3, <4>4 DEF FollowsRow
      <3> QED BY <1>1, <3>1, <3>2, <3>3 DEF Follow, ResumeInv
    <2> QED BY <2>1, <2>2, <2>3
  <1>5. LinkedInv' /\ KnownInv'
    BY <1>1 DEF Follow, LinkedInv, KnownInv
  <1>6. SearchInv'
    BY <1>1 DEF SearchInv, Handling
  <1>7. ReadInv'
    <2>1. CASE pc' = "top"
      BY <2>1 DEF ReadInv, Persisted, Tailing
    <2>2. CASE pc' = "route"
      <3>1. UNCHANGED <<batch, cur, last>> /\ pc \in Tailing /\ BatchBlocks' = BatchBlocks
        BY <1>1, <2>2 DEF SaveBlock, SaveWindow, PublishBlock, Iterate, memory, Tailing, BatchBlocks
      <3>2. pc' \notin {"drain", "persistWindow", "finality", "persist"}
        BY <2>2
      <3> QED BY <1>1, <3>1, <3>2 DEF Follow, ReadInv
    <2> QED BY <1>1, <2>1, <2>2
  <1> QED BY <1>4, <1>5, <1>6, <1>7 DEF Follow

\* When what was just recorded is the chain's, all rows are.
LEMMA RecordedAnchors ==
    ASSUME Sound, pc \in Persisted, BatchBlocks \subseteq BlocksOf(chain)
    PROVE  Anchored
  <1> USE DEF Sound
  <1>1. pc \in Draining \cup Tailing /\ pc # "down"
    BY DEF Draining, Tailing, Persisted
  <1>2. PICK e \in BatchBlocks : cur <= Number[e]
    <2>1. 1 \in DOMAIN batch
      BY <1>1, TheChain, LenProperties DEF IInv, BatchInv
    <2> QED BY <1>1, <2>1, BatchHeights DEF BatchBlocks
  <1>3. e \in CanonicalRows(blockRow) /\ e \in BlocksOf(chain)
    BY <1>2 DEF Follow, ReadInv
  <1>4. CASE RowsFrom(cur)
    BY <1>1, <1>4 DEF Follow, ResumeInv, FollowsRow, Unsettled
  <1>5. CASE ~RowsFrom(cur)
    <2>1. ASSUME NEW b \in CanonicalRows(blockRow) PROVE b \in BlocksOf(chain)
      <3>1. CASE b \in BatchBlocks
        BY <3>1
      <3>2. CASE b \notin BatchBlocks
        <4>1. ~(cur <= Number[b])
          BY <1>5, <3>2 DEF RowsFrom
        <4>2. Number[b] <= Number[e]
          BY <1>2, <1>3, <4>1, TheChain, CanonicalBlocks
        <4> QED BY <1>3, <4>2, TheChain, DownFrom DEF Follow
      <3> QED BY <3>1, <3>2
    <2> QED BY <2>1 DEF Anchored
  <1> QED BY <1>4, <1>5

\* An iteration that is cut short leaves its rows behind, and they are the chain's.
LEMMA CutShortFollow == ASSUME Sound, Fail \/ Crash, OrderlyFailure PROVE Follow'
  <1> USE DEF Sound
  <1>1. /\ pc # "down" /\ pc' \in {"top", "down"} /\ UNCHANGED <<blockRow, chain, checkpoint>>
        /\ pc' = "top" => UNCHANGED <<cur, last>>
        /\ pc' \notin Persisted
    BY DEF Fail, Crash, Iterate, facts, world, progress, Persisted
  <1>2. pc \in Persisted => Anchored
    BY RecordedAnchors DEF OrderlyFailure
  <1>3. ASSUME NEW n, NEW h, FollowsRow(n, h) PROVE FollowsRow(n, h)'
    <2>1. Anchored' = Anchored
      BY <1>1 DEF Anchored
    <2>2. CASE pc \in Persisted
      BY <1>1, <1>2, <1>3, <2>1, <2>2 DEF FollowsRow
    <2>3. CASE pc \notin Persisted
      BY <1>1, <1>3, <2>3, SameFollows
    <2> QED BY <2>2, <2>3
  <1>4. ResumeInv'
    <2>1. FollowsRow(checkpoint.next, checkpoint.hash)'
      <3>1. FollowsRow(checkpoint.next, checkpoint.hash)
        BY DEF Follow, ResumeInv
      <3> QED BY <1>1, <1>3, <3>1 DEF FollowsRow, Unsettled, RowsFrom
    <2>2. ASSUME pc' # "down" PROVE FollowsRow(cur, last)'
      <3>1. FollowsRow(cur, last) /\ UNCHANGED <<cur, last>>
        BY <1>1, <2>2 DEF Follow, ResumeInv
      <3> QED BY <1>3, <3>1 DEF FollowsRow, Unsettled, RowsFrom
    <2> QED BY <1>1, <2>1, <2>2 DEF Follow, ResumeInv
  <1>5. LinkedInv' /\ KnownInv'
    BY <1>1 DEF Follow, LinkedInv, KnownInv
  <1>6. SearchInv'
    BY <1>1 DEF SearchInv, Handling
  <1>7. ReadInv'
    BY <1>1 DEF ReadInv, Persisted, Tailing
  <1> QED BY <1>4, <1>5, <1>6, <1>7 DEF Follow

\* Follow is inductive when forks leave one another above the first heights, no
\* reorg is deeper than the confirmations a drain waits for, and reorgs, drains and
\* failures are orderly.
LEMMA FollowStep ==
    ASSUME ForksAboveStart, MaxReorgDepth <= FinalityConfirmations, Sound,
           [Next]_vars, [OrderlyReorg]_vars, [OrderlyDrain]_vars, [OrderlyFailure]_vars
    PROVE  Follow'
  <1>1. CASE UNCHANGED vars \/ AtHead
    <2>1. /\ UNCHANGED <<blockRow, chain, checkpoint, pc, cur, last, batch, probe, stage>>
          /\ Event' = Event /\ BatchBlocks' = BatchBlocks
      BY <1>1 DEF AtHead, vars, world, facts, progress, memory, Event, LastOf, BatchBlocks
    <2>2. ResumeInv'
      BY <2>1, SameResume DEF Sound, Follow
    <2>3. LinkedInv' /\ KnownInv'
      BY <2>1 DEF Sound, Follow, LinkedInv, KnownInv
    <2>4. SearchInv'
      BY <2>1 DEF Sound, Follow, SearchInv, AbandonedFrom, Anchored
    <2>5. Recovering' = Recovering /\ RowsFrom(cur)' = RowsFrom(cur)
      BY <2>1 DEF Recovering, Unsettled, RowsFrom
    <2>6. ReadInv'
      BY <2>1, <2>5 DEF Sound, Follow, ReadInv
    <2> QED BY <2>2, <2>3, <2>4, <2>6 DEF Follow
  <1>2. CASE (Extend \/ Reorg) /\ ~UNCHANGED vars
    BY <1>2, WorldFollow DEF Sound
  <1>3. CASE ReadHead /\ ~UNCHANGED vars
    BY <1>3, ReadHeadFollow
  <1>4. CASE Drain
    BY <1>4, FetchWindowFollow, PersistWindowFollow, QuietFollow, PassFollow DEF Drain
  <1>5. CASE TailBlock
    BY <1>5, FetchBlockFollow, QuietFollow, PersistBlockFollow, PassFollow DEF TailBlock
  <1>6. CASE (HandleReorg \/ ProbeUnanswered) /\ ~UNCHANGED vars
    BY <1>6, FindAncestorFollow, ProbeFollow, NoAncestorFollow, OrphanTableFollow, ResolveFollow
    DEF HandleReorg
  <1>7. CASE (Fail \/ Crash) /\ ~UNCHANGED vars
    BY <1>7, CutShortFollow
  <1> QED BY <1>1, <1>2, <1>3, <1>4, <1>5, <1>6, <1>7, StartFollow DEF Next, Indexer

\* Caught up, the canonical rows end in the tip, and are the chain down from it.
LEMMA CanonicalIsTheChain ==
    ASSUME Sound, CaughtUp, NEW n \in StartBlock .. Tip(chain)
    PROVE  CanonicalAt(blockRow, n) = {BlockAt(chain, n)}
  <1> USE DEF Sound
  <1>1. /\ Tip(chain) \in Nat /\ StartBlock \in Nat /\ IsChain(chain)
        /\ last = BlockAt(chain, Tip(chain)) /\ pc # "down"
    BY TheChain DEF CaughtUp, LastOf, BlockAt, Tip, IsChain
  <1>2. last \in Blocks /\ last \in BlocksOf(chain) /\ Number[last] = Tip(chain)
    BY <1>1, ChainBlocks
  <1>3. last \in CanonicalRows(blockRow)
    <2>1. blockRow[last] # "absent"
      BY <1>1, <1>2, BlockAssumption DEF Follow, ResumeInv, FollowsRow
    <2>2. blockRow[last] # "orphaned"
      BY <1>2 DEF Follow, KnownInv
    <2> QED BY <1>2, <2>1, <2>2, CanonicalBlocks
  <1>4. ASSUME NEW b \in CanonicalAt(blockRow, n) PROVE b = BlockAt(chain, n)
    <2>1. b \in CanonicalRows(blockRow) /\ Number[b] = n /\ Number[b] <= Number[last]
      BY <1>1, <1>2 DEF CanonicalAt
    <2>2. b \in BlocksOf(chain)
      BY <1>1, <1>2, <1>3, <2>1, DownFrom DEF Follow
    <2> QED BY <1>1, <2>1, <2>2, ChainBlocks
  <1>5. CanonicalAt(blockRow, n) # {}
    BY <1>2, <1>3 DEF Follow, LinkedInv
  <1> QED BY <1>4, <1>5

LEMMA InitFollow == Init => MarkedInv /\ RewindInv /\ WindowInv /\ HeightInv /\ Follow
  <1> SUFFICES ASSUME Init
               PROVE  MarkedInv /\ RewindInv /\ WindowInv /\ HeightInv /\ Follow
    OBVIOUS
  <1> USE ConfigAssumption DEF Init
  <1>1. MarkedInv /\ RewindInv /\ WindowInv
    BY DEF MarkedInv, RewindInv, WindowInv, Handling, Draining
  <1>2. CanonicalRows(blockRow) = {}
    BY DEF CanonicalRows
  <1>3. HeightInv
    BY <1>2 DEF HeightInv, Heights
  <1>4. LinkedInv /\ KnownInv /\ SearchInv /\ ReadInv
    BY <1>2 DEF LinkedInv, KnownInv, SearchInv, ReadInv, Handling, Tailing, Persisted
  <1>5. checkpoint.next = -1 /\ checkpoint.hash = NoHash
    BY DEF NoCheckpoint
  <1>6. ResumeInv
    BY <1>2, <1>5 DEF ResumeInv, FollowsRow, Unsettled, RowsFrom, NoCheckpoint
  <1> QED BY <1>1, <1>3, <1>4, <1>6 DEF Follow

\* Whatever the chain does, and however often the indexer fails, crashes and
\* starts again: if forks leave one another above the first heights, no reorg is
\* deeper than the confirmations a drain waits for, each reorg comes when the
\* indexer has dealt with the last one and with its own failures, a drain, which
\* compares no parent hash, begins on the chain, and what is cut short had recorded
\* blocks of the chain, then an indexer that has caught up holds exactly the chain
\* as canonical: detectReorg finds every fork it was on, from whatever checkpoint
\* it resumes, handleReorg leaves none of it, and blocks indexed again are recorded
\* once.
THEOREM RecordsTheChain ==
    ForksAboveStart /\ MaxReorgDepth <= FinalityConfirmations =>
        (Spec /\ OrderlyReorgs /\ OrderlyDrains /\ OrderlyFailures => []RecordedChainIsTheChain)
  <1> SUFFICES ASSUME ForksAboveStart, MaxReorgDepth <= FinalityConfirmations
               PROVE  Spec /\ OrderlyReorgs /\ OrderlyDrains /\ OrderlyFailures =>
                          []RecordedChainIsTheChain
    OBVIOUS
  <1>1. /\ IInv /\ MarkedInv /\ RewindInv /\ WindowInv /\ Follow
        /\ [Next]_vars /\ [OrderlyReorg]_vars /\ [OrderlyDrain]_vars /\ [OrderlyFailure]_vars
        => Follow'
    BY FollowStep DEF Sound
  <1>2. IInv /\ WindowInv /\ [Next]_vars => WindowInv'
    BY WindowStep
  <1>3. IInv /\ MarkedInv /\ RewindInv /\ WindowInv /\ Follow => RecordedChainIsTheChain
    BY CanonicalIsTheChain DEF Sound, RecordedChainIsTheChain
  <1> QED BY InitInv, NextInv, InitFollow, MarkedStep, RewindStep, <1>1, <1>2, <1>3, PTL
          DEF Spec, OrderlyReorgs, OrderlyDrains, OrderlyFailures

-------------------------------------------------------------------------------
(* The facts follow the blocks.                                            *)

\* A step that writes no row, and moves neither the position nor anything out of
\* what is routed.
LEMMA SameFacts ==
    ASSUME RowsAgree, UNCHANGED facts, pc # "down" => pc' # "down",
           UNCHANGED <<cur, last>>, Unrouted \subseteq Unrouted'
    PROVE  RowsAgree'
  <1>1. UNCHANGED <<blockRow, logRow, protocolRow, txRow>>
    BY DEF facts
  <1>2. \A b : Torn(b) => Torn(b)'
    BY <1>1 DEF Torn
  <1> QED BY <1>1, <1>2 DEF RowsAgree, TxRowsAgree, FactsOfBlocks

\* The indexer has no orphaned position where it records or has recorded a batch.
LEMMA NoneTorn ==
    ASSUME Sound, RowsAgree, pc \in {"persistWindow", "persist"} \cup Persisted
    PROVE  \A b \in Blocks :
              /\ ~Torn(b)
              /\ logRow[b] = "canonical" => b \in CanonicalRows(blockRow)
              /\ protocolRow[b] = "canonical" => b \in CanonicalRows(blockRow)
  <1>1. last = NoHash \/ last \in CanonicalRows(blockRow)
    BY DEF Sound, Follow, ReadInv
  <1> QED BY <1>1 DEF Torn, RowsAgree, FactsOfBlocks

\* Then a transaction's row is canonical exactly if the block it names is.
LEMMA TxOfNoneTorn ==
    ASSUME RowsAgree, \A b \in Blocks : ~Torn(b), NEW t \in Txs, txRow[t] # NoTxRow
    PROVE  /\ txRow[t].canonical => txRow[t].block \in CanonicalRows(blockRow)
           /\ txRow[t].block \in CanonicalRows(blockRow) => txRow[t].canonical
  BY DEF RowsAgree, TxRowsAgree

\* The first start finds no row of any table.
LEMMA StartRows ==
    ASSUME Sound, RowsAgree, JobsInv, crashes = 0, Start
    PROVE  RowsAgree'
  <1>1. CanonicalRows(blockRow) = {} /\ pc = "down"
    BY DEF JobsInv, Sound, Follow, ResumeInv, Start
  <1>0. \A b : ~Torn(b)
    BY <1>1 DEF Torn
  <1>2. UNCHANGED <<blockRow, logRow, protocolRow, txRow>>
    BY DEF Start, facts
  <1>3. \A b \in Blocks : logRow[b] # "canonical" /\ protocolRow[b] # "canonical"
    BY <1>0, <1>1 DEF RowsAgree, FactsOfBlocks
  <1>4. TxRowsAgree'
    BY <1>0, <1>1, <1>2 DEF RowsAgree, TxRowsAgree
  <1> QED BY <1>1, <1>2, <1>3, <1>4 DEF RowsAgree, FactsOfBlocks

\* Recording blocks records their logs and transactions with them, once however
\* often it is repeated.
LEMMA PersistRows ==
    ASSUME Sound, RowsAgree, PersistWindow \/ PersistBlock
    PROVE  RowsAgree'
  <1> USE DEF Sound
  <1> DEFINE new == BatchBlocks
             C == CanonicalRows(blockRow)
             D == CanonicalRows(blockRow')
  <1>1. /\ pc \in {"persistWindow", "persist"} /\ pc' \in {"save", "routeWindow"}
        /\ pc \in Draining \cup Tailing /\ pc \notin Routed /\ pc' \notin Routed
        /\ cur' = cur /\ last' = last
    BY DEF PersistWindow, PersistBlock, memory, Draining, Tailing, Routed
  <1>2. PICK status \in {"unfinal", "finalized"} : InsertBatch(status)
    BY DEF PersistWindow, PersistBlock, IInv, TypeOK
  <1>3. /\ new \subseteq Blocks
        /\ D = C \cup new
        /\ \A b \in Blocks : blockRow[b] # "absent" => blockRow'[b] = blockRow[b]
        /\ \A b \in Blocks : b \notin new => blockRow'[b] = blockRow[b]
        /\ C \subseteq Blocks
    BY <1>1, <1>2, InsertRows, CanonicalBlocks
  <1>4. /\ \A b \in D : blockRow'[b] # "absent"
        /\ \A b \in new : b \notin C => blockRow[b] = "absent"
    <2>1. \A b \in D : blockRow'[b] # "absent"
      BY DEF CanonicalRows
    <2>2. ASSUME NEW b \in new, b \notin C PROVE blockRow[b] = "absent"
      <3>1. blockRow[b] # "absent" => blockRow'[b] = blockRow[b]
        BY <1>3
      <3>2. b \in D /\ b \in Blocks
        BY <1>3
      <3>3. blockRow'[b] \in {"unfinal", "finalized", "canonical"}
        BY <3>2 DEF CanonicalRows
      <3>4. blockRow[b] \notin {"unfinal", "finalized", "canonical"}
        BY <2>2, <3>2 DEF CanonicalRows, IInv, TypeOK
      <3> QED BY <3>1, <3>3, <3>4
    <2> QED BY <2>1, <2>2
  <1>5. /\ logRow' = InsertBlocks(logRow, new, "canonical")
        /\ txRow' = InsertTxs(txRow, new)
        /\ protocolRow' = protocolRow /\ swallowed' = swallowed
    BY <1>2 DEF InsertBatch, handled
  <1>6. cur \in Nat /\ \A b \in new : Number[b] \in Nat /\ cur <= Number[b]
    BY <1>1, <1>3, BatchHeights, BlockAssumption, TheChain
  <1>7. \A b \in Blocks : /\ logRow[b] = "canonical" => b \in C
                          /\ protocolRow[b] = "canonical" => b \in C
    BY <1>1, NoneTorn
  <1> HIDE DEF new, C, D
  <1>8. \A b \in Blocks : logRow'[b] = IF b \in new THEN "canonical" ELSE logRow[b]
    <2> SUFFICES ASSUME NEW b \in Blocks
                 PROVE  logRow'[b] = IF b \in new THEN "canonical" ELSE logRow[b]
      OBVIOUS
    <2>1. logRow'[b] = IF b \in new /\ logRow[b] = "absent" THEN "canonical" ELSE logRow[b]
      BY <1>5 DEF InsertBlocks
    <2>2. b \in new /\ b \notin C => logRow[b] = "absent"
      BY <1>4 DEF RowsAgree
    <2>3. b \in C => logRow[b] = "canonical"
      BY DEF C, RowsAgree, FactsOfBlocks
    <2> QED BY <2>1, <2>2, <2>3
  <1>9. ASSUME NEW t \in Txs
        PROVE  \/ /\ txRow'[t] = txRow[t]
                  /\ txRow[t] # NoTxRow \/ \A d \in new : t \notin TxsOf[d]
               \/ \E d \in new : t \in TxsOf[d] /\ txRow'[t] = [block |-> d, canonical |-> TRUE]
    BY <1>5 DEF InsertTxs
  <1>10. \A d \in Blocks : [block |-> d, canonical |-> TRUE] # NoTxRow
    <2> SUFFICES ASSUME NEW d \in Blocks, [block |-> d, canonical |-> TRUE] = NoTxRow PROVE FALSE
      OBVIOUS
    <2>1. [block |-> d, canonical |-> TRUE].canonical = NoTxRow.canonical
      OBVIOUS
    <2> QED BY <2>1 DEF NoTxRow
  <1>11. \A b \in Blocks : blockRow'[b] = "absent" <=> logRow'[b] = "absent"
    <2>1. \A b \in new : blockRow'[b] # "absent"
      BY <1>3, <1>4
    <2> QED BY <1>3, <1>8, <2>1 DEF RowsAgree
  <1>12. FactsOfBlocks(logRow, {})'
    <2>1. \A b \in D : logRow'[b] = "canonical"
      BY <1>3, <1>8 DEF C, RowsAgree, FactsOfBlocks
    <2>2. \A b \in Blocks : logRow'[b] = "canonical" => b \in D
      BY <1>3, <1>7, <1>8
    <2> QED BY <2>1, <2>2 DEF D, FactsOfBlocks
  <1>13. FactsOfBlocks(protocolRow, Unrouted)'
    <2>1. ASSUME NEW b \in D PROVE protocolRow'[b] = "canonical" \/ b \in Unrouted'
      <3>1. CASE b \in new
        BY <1>1, <1>6, <2>1, <3>1 DEF D, Unrouted
      <3>2. CASE b \in C
        <4>1. protocolRow[b] = "canonical" \/ b \in Unrouted
          BY <3>2 DEF C, RowsAgree, FactsOfBlocks
        <4>2. b \in Unrouted => b \in Unrouted'
          BY <1>1, <1>5, <2>1 DEF D, Unrouted
        <4> QED BY <1>5, <4>1, <4>2
      <3> QED BY <1>3, <3>1, <3>2
    <2>2. \A b \in Blocks : protocolRow'[b] = "canonical" => b \in D
      BY <1>3, <1>5, <1>7
    <2> QED BY <2>1, <2>2 DEF D, FactsOfBlocks
  <1>14. ASSUME NEW t \in Txs, txRow'[t] # NoTxRow
         PROVE  /\ \E b \in Blocks : txRow'[t].block = b /\ blockRow'[b] # "absent" /\ t \in TxsOf[b]
                /\ txRow'[t].block \in D => txRow'[t].canonical
                /\ txRow'[t].canonical => txRow'[t].block \in D
    <2>1. CASE txRow'[t] = txRow[t]
      <3>1. PICK b \in Blocks : txRow[t].block = b /\ blockRow[b] # "absent" /\ t \in TxsOf[b]
        BY <1>14, <2>1 DEF RowsAgree, TxRowsAgree
      <3>2. txRow[t].canonical => b \in C
        BY <1>1, <1>14, <2>1, <3>1, NoneTorn, TxOfNoneTorn DEF C
      <3>3. b \in D => b \in C
        <4>1. b \in new => b \in C
          BY <1>4, <3>1
        <4> QED BY <1>3, <4>1
      <3>4. b \in C => txRow[t].canonical
        BY <1>14, <2>1, <3>1 DEF C, RowsAgree, TxRowsAgree
      <3> QED BY <1>3, <2>1, <3>1, <3>2, <3>3, <3>4
    <2>2. CASE \E d \in new : t \in TxsOf[d] /\ txRow'[t] = [block |-> d, canonical |-> TRUE]
      BY <1>3, <1>4, <2>2
    <2> QED BY <1>9, <2>1, <2>2
  <1>15. ASSUME NEW b \in Blocks, blockRow'[b] # "absent", NEW t \in TxsOf[b]
         PROVE  txRow'[t] # NoTxRow
    <2>1. t \in Txs
      BY BlockAssumption
    <2>2. CASE txRow[t] # NoTxRow
      BY <1>3, <1>9, <1>10, <2>1, <2>2
    <2>3. CASE txRow[t] = NoTxRow
      <3>1. b \in new
        BY <1>3, <1>15, <2>3 DEF RowsAgree, TxRowsAgree
      <3> QED BY <1>3, <1>9, <1>10, <2>1, <2>3, <3>1
    <2> QED BY <2>2, <2>3
  <1>16. TxRowsAgree'
    BY <1>14, <1>15 DEF TxRowsAgree, D
  <1> QED BY <1>11, <1>12, <1>13, <1>16 DEF RowsAgree, D

\* Upserting the protocol facts of the batch settles what was pending of it, but for
\* what the handler swallows.
LEMMA RouteRows == ASSUME Sound, RowsAgree, RouteWindow \/ RouteBlock PROVE RowsAgree'
  <1> USE DEF Sound
  <1>1. /\ pc \in {"routeWindow", "route"} /\ pc \in Persisted /\ pc \notin Routed
        /\ pc' \in {"publishWindow", "publish"} /\ pc' # "down"
        /\ UNCHANGED <<blockRow, logRow, txRow, cur, last>> /\ BatchBlocks' = BatchBlocks
    BY DEF RouteWindow, RouteBlock, HandleProtocolEvents, Persisted, Routed, memory, BatchBlocks
  <1>2. BatchBlocks \subseteq CanonicalRows(blockRow) /\ CanonicalRows(blockRow) \subseteq Blocks
    BY <1>1, CanonicalBlocks DEF Follow, ReadInv
  <1>3. PICK failed \in SUBSET BatchBlocks, stored \in SUBSET BatchBlocks :
            /\ stored \subseteq failed /\ swallowed' = swallowed \cup failed
            /\ protocolRow' = UpsertCanonical(protocolRow, (BatchBlocks \ failed) \cup stored)
    BY DEF RouteWindow, RouteBlock, HandleProtocolEvents
  <1>4. /\ \A b \in Blocks : b \notin BatchBlocks => protocolRow'[b] = protocolRow[b]
        /\ \A b \in BatchBlocks : protocolRow'[b] = "canonical" \/ b \in swallowed'
    BY <1>2, <1>3 DEF UpsertCanonical
  <1>5. \A b \in Blocks : /\ logRow[b] = "canonical" => b \in CanonicalRows(blockRow)
                          /\ protocolRow[b] = "canonical" => b \in CanonicalRows(blockRow)
                          /\ ~Torn(b)
    BY <1>1, NoneTorn
  <1>6. FactsOfBlocks(protocolRow, Unrouted)'
    <2>1. ASSUME NEW b \in CanonicalRows(blockRow)
          PROVE  protocolRow'[b] = "canonical" \/ b \in Unrouted'
      <3>1. CASE b \in BatchBlocks
        BY <1>1, <1>4, <3>1 DEF Unrouted
      <3>2. CASE b \notin BatchBlocks
        <4>1. protocolRow[b] = "canonical" \/ b \in Unrouted
          BY DEF RowsAgree, FactsOfBlocks
        <4>2. b \in Unrouted => b \in Unrouted'
          BY <1>1, <1>3, <3>2 DEF Unrouted
        <4> QED BY <1>2, <1>4, <3>2, <4>1, <4>2
      <3> QED BY <3>1, <3>2
    <2>2. \A b \in Blocks : protocolRow'[b] = "canonical" => b \in CanonicalRows(blockRow)
      BY <1>2, <1>4, <1>5
    <2> QED BY <1>1, <2>1, <2>2 DEF FactsOfBlocks
  <1>7. FactsOfBlocks(logRow, {})'
    BY <1>1, <1>5 DEF RowsAgree, FactsOfBlocks
  <1>8. TxRowsAgree'
    <2>1. \A b \in Blocks : Torn(b)' => Torn(b)
      BY <1>1 DEF Torn, Persisted
    <2>2. \A t \in Txs : txRow[t] # NoTxRow => txRow[t].block \in Blocks
      BY DEF RowsAgree, TxRowsAgree
    <2> QED BY <1>1, <1>5, <2>2 DEF RowsAgree, TxRowsAgree
  <1> QED BY <1>1, <1>6, <1>7, <1>8 DEF RowsAgree

\* Past the batch, what lies behind the position is routed.
LEMMA PassRows == ASSUME Sound, RowsAgree, SaveWindow \/ PublishBlock PROVE RowsAgree'
  <1> USE DEF Sound
  <1>1. /\ pc \in {"saveWindow", "publish"} /\ pc \in Persisted /\ pc \in Routed
        /\ pc \in Draining \cup Tailing
        /\ pc' = "top" /\ pc' \notin Routed /\ cur' = cur + Len(batch)
        /\ UNCHANGED <<blockRow, logRow, protocolRow, txRow, swallowed>>
    BY DEF SaveWindow, PublishBlock, AfterWindow, Iterate, facts, handled, Persisted, Routed, Draining,
           Tailing, IInv, BatchInv
  <1>2. \A b \in Blocks : /\ logRow[b] = "canonical" => b \in CanonicalRows(blockRow)
                          /\ protocolRow[b] = "canonical" => b \in CanonicalRows(blockRow)
                          /\ ~Torn(b)
    BY <1>1, NoneTorn
  <1>3. BatchBlocks \subseteq CanonicalRows(blockRow) /\ CanonicalRows(blockRow) \subseteq Blocks
        /\ cur \in Nat /\ Len(batch) \in Nat
        /\ \A b \in CanonicalRows(blockRow) : Number[b] \in Nat
    BY <1>1, CanonicalBlocks, TheChain, LenProperties DEF Follow, ReadInv
  <1>4. ASSUME NEW b \in Unrouted, b \notin swallowed PROVE b \in Unrouted'
    <2>1. b \in CanonicalRows(blockRow) /\ cur <= Number[b] /\ b \notin BatchBlocks
      BY <1>1, <1>4 DEF Unrouted
    <2>2. ASSUME Number[b] < cur + Len(batch) PROVE FALSE
      <3>1. Number[b] \in cur .. cur + Len(batch) - 1
        BY <1>3, <2>1, <2>2
      <3>2. PICK d \in BatchBlocks : Number[d] = Number[b]
        BY <1>1, <3>1, BatchCoversHeights
      <3>3. d = b
        BY <1>3, <2>1, <3>2 DEF Follow, LinkedInv
      <3> QED BY <2>1, <3>2, <3>3
    <2>3. cur' <= Number[b]
      BY <1>1, <1>3, <2>1, <2>2
    <2> QED BY <1>1, <2>1, <2>3 DEF Unrouted
  <1>6. \A b \in Unrouted : b \in Unrouted'
    BY <1>1, <1>4 DEF Unrouted
  <1>7. TxRowsAgree'
    <2>1. \A t \in Txs : txRow[t] # NoTxRow => txRow[t].block \in Blocks
      BY DEF RowsAgree, TxRowsAgree
    <2> QED BY <1>1, <1>2, <2>1 DEF RowsAgree, TxRowsAgree
  <1>5. FactsOfBlocks(logRow, {})' /\ FactsOfBlocks(protocolRow, Unrouted)'
    BY <1>1, <1>2, <1>6 DEF RowsAgree, FactsOfBlocks
  <1> QED BY <1>1, <1>5, <1>7 DEF RowsAgree

\* When the event is resolved, what it orphaned is canonical in no table.
LEMMA ResolveRows == ASSUME Sound, RowsAgree, ResolveReorg PROVE RowsAgree'
  <1> USE DEF Sound
  <1>1. /\ pc = "resolve" /\ pc \in Handling /\ pc \notin Routed /\ pc' = "top"
        /\ cur' = Event.ancestor + 1 /\ last' = NoHash
        /\ UNCHANGED <<blockRow, logRow, protocolRow, txRow, swallowed>>
    BY DEF ResolveReorg, Iterate, facts, handled, Handling, Routed
  <1>2. /\ Event.from = Event.ancestor + 1 /\ Event.to = cur - 1 /\ Event.ancestor < cur
        /\ cur \in Nat /\ Event.ancestor \in Nat
    <2>1. reorgEvents \in Seq(ReorgEvent) /\ reorgEvents # << >>
      BY <1>1 DEF IInv, TypeOK, AncestorInv
    <2>2. Event \in ReorgEvent
      BY <2>1 DEF Event, LastOf
    <2> QED BY <1>1, <2>2, TheChain DEF RewindInv, IInv, AncestorInv, ReorgEvent
  <1>3. /\ Clean(logRow, Event.from, Event.to) /\ Clean(protocolRow, Event.from, Event.to)
        /\ TxClean(txRow, Event.from, Event.to)
    <2>1. \A j \in 1 .. 7 : TableClean(ReorgTables[j], Event)
      BY <1>1, ReorgTablesLength DEF MarkedInv
    <2>2. ReorgTables[2] = "transactions" /\ ReorgTables[3] = "logs" /\ ReorgTables[6] = "protocol"
      BY DEF ReorgTables
    <2> QED BY <2>1, <2>2 DEF TableClean
  <1>4. ASSUME NEW b \in Blocks, Torn(b) PROVE InRange(Number[b], Event.from, Event.to)
    <2>1. PICK d \in CanonicalRows(blockRow) : Number[d] = Event.ancestor
      BY <1>1 DEF Follow, SearchInv, CanonicalAt
    <2>2. Event.ancestor < Number[b] /\ Number[b] < cur
      BY <1>2, <1>4, <2>1 DEF Torn
    <2> QED BY <1>2, <2>2, BlockAssumption DEF InRange
  <1>5. \A b \in Blocks : /\ logRow[b] = "canonical" => b \in CanonicalRows(blockRow)
                          /\ protocolRow[b] = "canonical" => b \in CanonicalRows(blockRow)
    <2>1. logRow \in [Blocks -> FactStatus] /\ protocolRow \in [Blocks -> FactStatus]
      BY DEF IInv, TypeOK
    <2> QED BY <1>3, <1>4, <2>1 DEF RowsAgree, FactsOfBlocks, Clean, CanonicalRows
  <1>6. ASSUME NEW b \in Unrouted PROVE b \in Unrouted'
    <2>1. /\ b \in CanonicalRows(blockRow) /\ Number[b] \in Nat
          /\ b \in swallowed \/ cur <= Number[b]
      BY CanonicalBlocks DEF Unrouted
    <2> QED BY <1>1, <1>2, <2>1 DEF Unrouted, Routed
  <1>8. TxRowsAgree'
    <2>1. \A t \in Txs : txRow[t] # NoTxRow /\ txRow[t].canonical =>
              /\ txRow[t].block \in Blocks
              /\ txRow[t].block \in CanonicalRows(blockRow) \/ Torn(txRow[t].block)
      BY DEF RowsAgree, TxRowsAgree
    <2>2. \A t \in Txs : txRow[t] # NoTxRow /\ txRow[t].canonical =>
              txRow[t].block \in CanonicalRows(blockRow)
      BY <1>3, <1>4, <2>1 DEF TxClean
    <2> QED BY <1>1, <2>2 DEF RowsAgree, TxRowsAgree
  <1>7. FactsOfBlocks(logRow, {})' /\ FactsOfBlocks(protocolRow, Unrouted)'
    BY <1>1, <1>5, <1>6 DEF RowsAgree, FactsOfBlocks
  <1> QED BY <1>1, <1>7, <1>8 DEF RowsAgree

\* handleReorg marks the block rows first, and of the other tables only what it
\* marked there, in this attempt or an earlier one.
LEMMA OrphanTableRowsAgree == ASSUME Sound, RowsAgree, OrphanTable PROVE RowsAgree'
  <1> USE DEF Sound
  <1> DEFINE now == ReorgTables[stage]
             from == Event.from
             to == Event.to
  <1>1. /\ pc = "orphan" /\ pc \in Handling /\ pc' \in Handling /\ pc # "down" /\ pc' # "down"
        /\ pc' \notin Routed /\ UNCHANGED <<cur, last, swallowed>> /\ stage \in 1 .. 7
    BY ReorgTablesLength DEF OrphanTable, handled, progress, Handling, Routed, IInv, AncestorInv
  <1>2. /\ blockRow' = IF now = "blocks" THEN OrphanRange(blockRow, from, to) ELSE blockRow
        /\ logRow' = IF now = "logs" THEN OrphanRange(logRow, from, to) ELSE logRow
        /\ protocolRow' = IF now = "protocol" THEN OrphanRange(protocolRow, from, to)
                          ELSE protocolRow
        /\ txRow' = IF now = "transactions" THEN OrphanTxRange(txRow, from, to) ELSE txRow
    BY DEF OrphanTable
  <1>3. /\ blockRow \in [Blocks -> BlockStatus] /\ txRow \in [Txs -> TxRows]
        /\ logRow \in [Blocks -> FactStatus] /\ protocolRow \in [Blocks -> FactStatus]
        /\ CanonicalRows(blockRow) \subseteq Blocks
    BY CanonicalBlocks DEF IInv, TypeOK
  <1>4. now # "blocks" => Clean(blockRow, from, to)
    <2> SUFFICES ASSUME now # "blocks" PROVE Clean(blockRow, from, to)
      OBVIOUS
    <2>1. ReorgTables[1] = "blocks"
      BY DEF ReorgTables
    <2>2. 1 < stage /\ 1 \in DOMAIN ReorgTables
      BY <1>1, <2>1, ReorgTablesLength
    <2>3. TableClean("blocks", Event)
      BY <1>1, <2>1, <2>2 DEF MarkedInv
    <2> QED BY <2>3 DEF TableClean
  <1> HIDE DEF now
  <1>5. CanonicalRows(blockRow') \subseteq CanonicalRows(blockRow)
    BY CanonicalAfterOrphan
  <1>6. \A b \in Blocks : blockRow'[b] = "absent" <=> logRow'[b] = "absent"
    BY OrphanTableRows DEF RowsAgree
  <1>7. ASSUME NEW b \in CanonicalRows(blockRow), b \notin CanonicalRows(blockRow') PROVE Torn(b)'
    <2>1. now = "blocks" /\ InRange(Number[b], from, to)
      BY <1>2, <1>3, <1>7 DEF OrphanRange, CanonicalRows
    <2>2. \A d \in CanonicalRows(blockRow') : ~InRange(Number[d], from, to)
      BY <1>2, <1>3, <1>5, <2>1 DEF OrphanRange, CanonicalRows
    <2>3. /\ to = cur - 1 /\ cur \in Nat /\ last # NoHash
          /\ from <= Number[b] /\ Number[b] <= cur - 1 /\ Number[b] \in Nat
          /\ from = Event.ancestor + 1
          /\ \A d \in CanonicalRows(blockRow) : Number[d] \in Nat
      BY <1>1, <2>1, TheChain, CanonicalBlocks DEF RewindInv, InRange
    <2>4. Event.ancestor \in Nat
      <3>1. reorgEvents \in Seq(ReorgEvent) /\ reorgEvents # << >>
        BY <1>1 DEF IInv, TypeOK, AncestorInv, Handling
      <3>2. Event \in ReorgEvent
        BY <3>1 DEF Event, LastOf
      <3> QED BY <3>2 DEF ReorgEvent
    <2>5. Number[last] = cur - 1
      BY <1>1, <2>3 DEF Follow, ResumeInv, FollowsRow
    <2>6. last \notin CanonicalRows(blockRow')
      BY <2>2, <2>3, <2>4, <2>5 DEF InRange
    <2>7. ASSUME NEW d \in CanonicalRows(blockRow'), Number[d] < cur PROVE Number[d] < Number[b]
      <3>1. ~(from <= Number[d])
        BY <1>5, <2>2, <2>3, <2>7 DEF InRange
      <3> QED BY <1>5, <2>3, <2>4, <3>1
    <2> QED BY <1>1, <2>3, <2>6, <2>7 DEF Torn
  <1>8. \A b : Torn(b) => Torn(b)'
    BY <1>1, <1>5 DEF Torn
  <1>9. FactsOfBlocks(logRow, {})'
    <2>1. \A b \in Blocks : logRow'[b] = "canonical" => logRow[b] = "canonical"
      BY <1>2, <1>3 DEF OrphanRange
    <2>2. \A b \in CanonicalRows(blockRow') : logRow'[b] = "canonical"
      <3>1. \A b \in CanonicalRows(blockRow') : logRow[b] = "canonical"
        BY <1>5 DEF RowsAgree, FactsOfBlocks
      <3>2. now = "logs" => \A b \in CanonicalRows(blockRow') : ~InRange(Number[b], from, to)
        BY <1>4, <1>5 DEF Clean
      <3> QED BY <1>2, <1>3, <1>5, <3>1, <3>2 DEF OrphanRange
    <2>3. \A b \in Blocks : logRow'[b] = "canonical" =>
              b \in CanonicalRows(blockRow') \/ Torn(b)'
      BY <1>7, <1>8, <2>1 DEF RowsAgree, FactsOfBlocks
    <2> QED BY <2>2, <2>3 DEF FactsOfBlocks
  <1>10. FactsOfBlocks(protocolRow, Unrouted)'
    <2>1. \A b \in Blocks : protocolRow'[b] = "canonical" => protocolRow[b] = "canonical"
      BY <1>2, <1>3 DEF OrphanRange
    <2>2. \A b \in CanonicalRows(blockRow') : protocolRow'[b] = "canonical" \/ b \in Unrouted'
      <3>1. \A b \in CanonicalRows(blockRow') : protocolRow[b] = "canonical" \/ b \in Unrouted
        BY <1>5 DEF RowsAgree, FactsOfBlocks
      <3>2. \A b \in CanonicalRows(blockRow') : b \in Unrouted => b \in Unrouted'
        BY <1>1 DEF Unrouted
      <3>3. now = "protocol" => \A b \in CanonicalRows(blockRow') : ~InRange(Number[b], from, to)
        BY <1>4, <1>5 DEF Clean
      <3>4. \A b \in CanonicalRows(blockRow') : protocolRow'[b] = protocolRow[b]
        BY <1>2, <1>3, <1>5, <3>3 DEF OrphanRange
      <3> QED BY <3>1, <3>2, <3>4
    <2>3. \A b \in Blocks : protocolRow'[b] = "canonical" =>
              b \in CanonicalRows(blockRow') \/ Torn(b)'
      BY <1>7, <1>8, <2>1 DEF RowsAgree, FactsOfBlocks
    <2> QED BY <2>2, <2>3 DEF FactsOfBlocks
  <1>11. ASSUME NEW t \in Txs
         PROVE  /\ txRow'[t] # NoTxRow => txRow[t] # NoTxRow
                /\ txRow'[t].block = txRow[t].block
                /\ txRow'[t].canonical => txRow[t].canonical
    <2>1. \/ txRow'[t] = txRow[t]
          \/ txRow[t].canonical /\ txRow'[t] = [txRow[t] EXCEPT !.canonical = FALSE]
      BY <1>2 DEF OrphanTxRange
    <2>2. [txRow[t] EXCEPT !.canonical = FALSE].block = txRow[t].block
      BY <1>3 DEF TxRows
    <2>3. [txRow[t] EXCEPT !.canonical = FALSE].canonical = FALSE
      BY <1>3 DEF TxRows
    <2>4. ~NoTxRow.canonical
      BY DEF NoTxRow
    <2> QED BY <2>1, <2>2, <2>3, <2>4
  <1>12. ASSUME NEW t \in Txs, txRow'[t] # NoTxRow
         PROVE  /\ \E b \in Blocks : txRow'[t].block = b /\ blockRow'[b] # "absent" /\ t \in TxsOf[b]
                /\ txRow'[t].canonical => txRow'[t].block \in CanonicalRows(blockRow') \/ Torn(txRow[t].block)'
    <2>1. PICK b \in Blocks : txRow[t].block = b /\ blockRow[b] # "absent" /\ t \in TxsOf[b]
      BY <1>11, <1>12 DEF RowsAgree, TxRowsAgree
    <2>2. txRow'[t].block = b /\ blockRow'[b] # "absent"
      BY <1>11, <2>1, OrphanTableRows
    <2>3. txRow'[t].canonical => b \in CanonicalRows(blockRow) \/ Torn(b)
      BY <1>11, <1>12, <2>1 DEF RowsAgree, TxRowsAgree
    <2>4. txRow'[t].canonical => b \in CanonicalRows(blockRow') \/ Torn(b)'
      BY <1>7, <1>8, <2>3
    <2>5. Torn(b)' => Torn(txRow[t].block)'
      BY <2>2 DEF Torn
    <2> QED BY <2>1, <2>2, <2>4, <2>5
  <1>13. ASSUME NEW t \in Txs, txRow'[t] # NoTxRow, txRow'[t].block \in CanonicalRows(blockRow')
         PROVE  txRow'[t].canonical
    <2>1. txRow[t].block \in CanonicalRows(blockRow') /\ txRow[t].canonical
      BY <1>5, <1>11, <1>13 DEF RowsAgree, TxRowsAgree
    <2>2. now = "transactions" => ~InRange(Number[txRow[t].block], from, to)
      BY <1>4, <1>5, <2>1 DEF Clean
    <2>3. txRow'[t] = txRow[t]
      BY <1>2, <2>2 DEF OrphanTxRange
    <2> QED BY <2>1, <2>3
  <1>14. ASSUME NEW b \in Blocks, blockRow'[b] # "absent", NEW t \in TxsOf[b]
         PROVE  txRow'[t] # NoTxRow
    <2>1. t \in Txs /\ txRow[t] # NoTxRow
      BY <1>14, OrphanTableRows, BlockAssumption DEF RowsAgree, TxRowsAgree
    <2>2. txRow[t].block \in Blocks
      BY <2>1 DEF RowsAgree, TxRowsAgree
    <2>3. NoTxRow.block \notin Blocks
      BY BlockAssumption DEF NoTxRow
    <2> QED BY <1>11, <2>1, <2>2, <2>3
  <1>15. TxRowsAgree'
    BY <1>12, <1>13, <1>14 DEF TxRowsAgree
  <1> QED BY <1>6, <1>9, <1>10, <1>15 DEF RowsAgree

\* RowsAgree is inductive as long as the process does not die.
LEMMA RowsStep ==
    ASSUME Sound, JobsInv, RowsAgree, [Next]_vars, crashes' = 0
    PROVE  RowsAgree'
  <1> USE DEF Sound
  <1>0. ~Crash
    BY DEF Crash, IInv, TypeOK
  <1>1. CASE Extend \/ Reorg \/ AtHead \/ UNCHANGED vars
    <2>1. UNCHANGED <<facts, pc, cur, last, batch>>
      BY <1>1 DEF Extend, Reorg, AtHead, vars, progress, memory
    <2> QED BY <2>1, SameFacts DEF Unrouted, facts, handled, BatchBlocks
  <1>2. CASE Start
    <2>1. crashes = 0
      BY <1>2 DEF Start, budget
    <2> QED BY <1>2, <2>1, StartRows
  <1>3. CASE \/ ReadHead \/ FetchBlock \/ DetermineFinality \/ FindAncestor \/ ProbeLower
             \/ NoAncestor \/ FetchWindow \/ SaveBlock \/ ProbeUnanswered
    <2>1. /\ UNCHANGED <<facts, cur, last>> /\ pc # "down" /\ pc' # "down" /\ pc' \notin Routed
      BY <1>3 DEF ReadHead, FetchBlock, DetermineFinality, FindAncestor, ProbeLower, NoAncestor,
                  FetchWindow, SaveBlock, ProbeUnanswered, memory, Routed
    <2> QED BY <2>1, SameFacts DEF Unrouted, facts, handled
  <1>4. CASE PublishWindow
    <2>1. /\ UNCHANGED <<facts, cur, last, batch>> /\ pc \in Routed /\ pc' \in Routed
          /\ pc' # "down"
      BY <1>4 DEF PublishWindow, memory, Routed
    <2> QED BY <2>1, SameFacts DEF Unrouted, facts, handled, BatchBlocks
  <1>5. CASE Fail
    <2>1. UNCHANGED <<facts, cur, last>> /\ pc' = "top" /\ pc' \notin Routed
      BY <1>5 DEF Fail, Iterate, Routed
    <2> QED BY <2>1, SameFacts DEF Unrouted, facts, handled
  <1> QED BY <1>0, <1>1, <1>2, <1>3, <1>4, <1>5, PersistRows, RouteRows, PassRows, ResolveRows,
             OrphanTableRowsAgree
          DEF Next, Indexer, Drain, HandleReorg, TailBlock

\* A process that has not died had not.
LEMMA StillAlive == ASSUME IInv, [Next]_vars, crashes' = 0 PROVE crashes = 0
  <1>1. crashes \in Nat
    BY DEF IInv, TypeOK
  <1>2. CASE Crash
    BY <1>1, <1>2 DEF Crash
  <1>3. CASE ~Crash
    <2>1. crashes' = crashes
      BY <1>3 DEF Next, Indexer, Drain, HandleReorg, TailBlock, Extend, Reorg, AtHead, Start, ReadHead,
                  FetchWindow, PersistWindow, RouteWindow, PublishWindow, SaveWindow, FetchBlock,
                  FindAncestor, ProbeLower, ProbeUnanswered, NoAncestor, OrphanTable, ResolveReorg,
                  DetermineFinality, PersistBlock, SaveBlock, RouteBlock, PublishBlock, Fail, vars, budget
    <2> QED BY <2>1
  <1> QED BY <1>2, <1>3

LEMMA FactsStep ==
    ASSUME IInv, MarkedInv, RewindInv, JobsInv, WindowInv, Follow, FactsInv, [Next]_vars
    PROVE  FactsInv'
  <1> SUFFICES ASSUME crashes' = 0 PROVE RowsAgree'
    BY DEF FactsInv
  <1>1. crashes = 0
    BY StillAlive
  <1> QED BY <1>1, RowsStep DEF Sound, FactsInv

LEMMA FactsAreTheChain ==
    ASSUME Sound, RowsAgree PROVE FactsFollowTheChain
  <1> DEFINE here(n) == BlockAt(chain, n)
  <1> SUFFICES ASSUME CaughtUp, NEW n \in StartBlock .. Tip(chain)
               PROVE  /\ CanonicalAt(logRow, n) = {here(n)}
                      /\ CanonicalAt(protocolRow, n) \subseteq {here(n)}
                      /\ here(n) \in CanonicalRows(protocolRow) \cup swallowed
                      /\ \A t \in TxsOf[here(n)] : \E b \in Blocks :
                            /\ t \in TxsOf[b]
                            /\ txRow[t] = [block |-> b, canonical |-> b \in BlocksOf(chain)]
    BY DEF FactsFollowTheChain
  <1>1. CanonicalAt(blockRow, n) = {here(n)}
    BY CanonicalIsTheChain
  <1>2. /\ logRow \in [Blocks -> FactStatus] /\ protocolRow \in [Blocks -> FactStatus]
        /\ txRow \in [Txs -> TxRows]
        /\ CanonicalRows(blockRow) \subseteq Blocks
        /\ Tip(chain) \in Nat /\ StartBlock \in Nat /\ IsChain(chain)
    BY CanonicalBlocks, TheChain DEF Sound, IInv, TypeOK
  <1>3. last \in CanonicalRows(blockRow)
    <2>1. Tip(chain) \in StartBlock .. Tip(chain)
      BY <1>2
    <2>2. CanonicalAt(blockRow, Tip(chain)) = {BlockAt(chain, Tip(chain))}
      BY <2>1, CanonicalIsTheChain
    <2>3. last = BlockAt(chain, Tip(chain))
      BY TheChain DEF Sound, CaughtUp, LastOf, BlockAt, Tip, IsChain
    <2> QED BY <2>2, <2>3 DEF CanonicalAt
  <1>4. Unrouted \subseteq swallowed
    <2> SUFFICES ASSUME NEW b \in CanonicalRows(blockRow) PROVE ~(cur <= Number[b])
      BY DEF Unrouted
    <2>1. Number[b] <= Tip(chain) /\ Number[b] \in Nat
      BY CanonicalBlocks DEF Sound, Follow, KnownInv
    <2> QED BY <1>2, <2>1 DEF CaughtUp
  <1>5. \A b : ~Torn(b)
    BY <1>3 DEF Torn
  <1>6. CanonicalRows(logRow) = {b \in Blocks : logRow[b] = "canonical"}
        /\ CanonicalRows(protocolRow) = {b \in Blocks : protocolRow[b] = "canonical"}
    BY <1>2 DEF CanonicalRows, FactStatus
  <1>7. /\ CanonicalRows(logRow) = CanonicalRows(blockRow)
        /\ CanonicalRows(protocolRow) \subseteq CanonicalRows(blockRow)
        /\ CanonicalRows(blockRow) \subseteq CanonicalRows(protocolRow) \cup swallowed
    BY <1>2, <1>4, <1>5, <1>6 DEF RowsAgree, FactsOfBlocks
  <1>8. here(n) \in CanonicalRows(blockRow)
    BY <1>1 DEF CanonicalAt
  <1>9. ASSUME NEW b \in Blocks, blockRow[b] # "absent"
        PROVE  b \in CanonicalRows(blockRow) <=> b \in BlocksOf(chain)
    <2>1. Number[b] \in StartBlock .. Tip(chain)
      BY <1>2, <1>9, BlockAssumption DEF Sound, IInv, AncestorInv, Follow, KnownInv
    <2>2. CanonicalAt(blockRow, Number[b]) = {BlockAt(chain, Number[b])}
      BY <2>1, CanonicalIsTheChain
    <2>3. BlockAt(chain, Number[b]) \in BlocksOf(chain)
      BY <1>2, <2>1, ChainBlocks
    <2>4. b \in CanonicalRows(blockRow) => b = BlockAt(chain, Number[b])
      BY <2>2 DEF CanonicalAt
    <2>5. b \in BlocksOf(chain) => b = BlockAt(chain, Number[b])
      BY <1>2, ChainBlocks
    <2>6. b = BlockAt(chain, Number[b]) => b \in CanonicalRows(blockRow)
      BY <2>2 DEF CanonicalAt
    <2> QED BY <2>3, <2>4, <2>5, <2>6
  <1>10. ASSUME NEW t \in TxsOf[here(n)]
         PROVE  \E b \in Blocks :
                   /\ t \in TxsOf[b]
                   /\ txRow[t] = [block |-> b, canonical |-> b \in BlocksOf(chain)]
    <2>1. here(n) \in Blocks /\ blockRow[here(n)] # "absent" /\ t \in Txs
      BY <1>2, <1>8, CanonicalBlocks, BlockAssumption DEF Sound
    <2>2. txRow[t] # NoTxRow
      BY <2>1 DEF RowsAgree, TxRowsAgree
    <2>3. PICK b \in Blocks : txRow[t].block = b /\ blockRow[b] # "absent" /\ t \in TxsOf[b]
      BY <2>1, <2>2 DEF RowsAgree, TxRowsAgree
    <2>4. txRow[t].canonical <=> b \in BlocksOf(chain)
      BY <1>5, <1>9, <2>1, <2>2, <2>3, TxOfNoneTorn
    <2>5. txRow[t].canonical \in BOOLEAN /\ (b \in BlocksOf(chain)) \in BOOLEAN
          /\ txRow[t] = [block |-> txRow[t].block, canonical |-> txRow[t].canonical]
      BY <1>2, <2>1 DEF TxRows
    <2>6. txRow[t].canonical = (b \in BlocksOf(chain))
      BY <2>4, <2>5
    <2>7. txRow[t] = [block |-> b, canonical |-> b \in BlocksOf(chain)]
      BY <2>3, <2>5, <2>6
    <2> QED BY <2>3, <2>7
  <1> QED BY <1>1, <1>7, <1>8, <1>10 DEF CanonicalAt

\* Under the same hypotheses, when the process does not die, however often an
\* iteration or the protocol handler fails: an indexer that has caught up holds exactly
\* the chain's logs as canonical, the protocol facts of the chain's blocks and of no
\* other, but for the blocks whose handler failed, and a row of each transaction of the
\* chain, canonical exactly if the block it names is on the chain.
THEOREM FactsRecordTheChain ==
    ForksAboveStart /\ MaxReorgDepth <= FinalityConfirmations =>
        (Spec /\ OrderlyReorgs /\ OrderlyDrains /\ OrderlyFailures =>
            [](crashes = 0 => FactsFollowTheChain))
  <1> SUFFICES ASSUME ForksAboveStart, MaxReorgDepth <= FinalityConfirmations
               PROVE  Spec /\ OrderlyReorgs /\ OrderlyDrains /\ OrderlyFailures =>
                          [](crashes = 0 => FactsFollowTheChain)
    OBVIOUS
  <1>1. /\ IInv /\ MarkedInv /\ RewindInv /\ WindowInv /\ Follow
        /\ [Next]_vars /\ [OrderlyReorg]_vars /\ [OrderlyDrain]_vars /\ [OrderlyFailure]_vars
        => Follow'
    BY FollowStep DEF Sound
  <1>2. /\ IInv /\ MarkedInv /\ RewindInv /\ JobsInv /\ WindowInv /\ Follow /\ FactsInv
        /\ [Next]_vars
        => FactsInv'
    BY FactsStep
  <1>3. IInv /\ WindowInv /\ [Next]_vars => WindowInv'
    BY WindowStep
  <1>4. Init => FactsInv /\ JobsInv
    <2>1. Init => JobsInv
      BY ConfigAssumption DEF Init, JobsInv, JobsForEveryHeight, Routed
    <2>2. Init => FactsInv
      BY DEF Init, FactsInv, RowsAgree, TxRowsAgree, FactsOfBlocks, CanonicalRows
    <2> QED BY <2>1, <2>2
  <1>5. IInv /\ MarkedInv /\ RewindInv /\ WindowInv /\ Follow /\ FactsInv =>
            (crashes = 0 => FactsFollowTheChain)
    BY FactsAreTheChain DEF Sound, FactsInv
  <1> QED BY InitInv, NextInv, InitFollow, MarkedStep, RewindStep, JobsStep, <1>1, <1>2, <1>3, <1>4,
             <1>5, PTL DEF Spec, OrderlyReorgs, OrderlyDrains, OrderlyFailures

-------------------------------------------------------------------------------
(* The repair modes (IndexRepair), over the tables of the live mode and a  *)
(* chain that has settled.                                                 *)

CONSTANTS
    Settled, From, To, Ancestor, Abandoned, Missed, MaxRuns, MaxDeaths

VARIABLES resolved, queue, gaps, runs, deaths, unanswered, early

Repair == INSTANCE IndexRepair WITH chain <- Settled

\* The chain's blocks of the range.
SettledBlocks == {BlockAt(Settled, n) : n \in From .. To}

\* Rows are of the range; whatever the chain does not have there is a block the
\* live mode had published before it died.
RowsInv ==
    \A b \in Blocks : blockRow[b] # "absent" =>
        /\ Number[b] \in From .. To
        /\ b \in published \/ b = BlockAt(Settled, Number[b])

\* A mode that indexes holds blocks of the chain while it is at work on them.
QueueInv ==
    \A m \in Repair!Indexing :
        /\ queue[m] \subseteq SettledBlocks
        /\ pc[m] \in {"down", "next"} => queue[m] = {}

\* The blocks of the backfill's batch are published, queued or unanswered, and
\* those that are queued would be fetched again.
BackfillInv ==
    pc["historical"] \notin {"down", "next"} =>
        /\ \A n \in cur .. Repair!BatchEnd :
               BlockAt(Settled, n) \in published \cup unanswered \cup queue["historical"]
        /\ \A b \in queue["historical"] : Number[b] >= cur

\* What JobsForRecordedBlocks says of the discovery jobs alone.
DiscoveryJobs ==
    deaths = 0 => \A b \in Blocks :
        blockRow[b] # "absent" => b \in published \/ Repair!Pending(b) \/ b \in unanswered

RepairInv ==
    /\ Repair!TypeOK
    /\ RowsInv
    /\ QueueInv
    /\ BackfillInv
    /\ DiscoveryJobs

\* The chain has a block of every height of the range, and of that height.
LEMMA SettledAt ==
    ASSUME Repair!RepairAssumption, NEW n \in From .. To
    PROVE  BlockAt(Settled, n) \in Blocks /\ Number[BlockAt(Settled, n)] = n
  <1>1. /\ IsChain(Settled) /\ n \in Nat /\ n + 1 \in 1 .. Len(Settled)
    BY ChainAssumption DEF Repair!RepairAssumption, Repair!Tip, IsChain
  <1> QED BY <1>1 DEF IsChain, BlockAt

\* The database as the live mode left it.
LEMMA RepairInit ==
    ASSUME Repair!RepairAssumption, Repair!Init
    PROVE  RepairInv
  <1> PICK holes \in SUBSET Repair!Common,
           unrouted \in SUBSET (Repair!Common \cup Abandoned), marked \in 0 .. 3 :
        /\ blockRow = [b \in Blocks |->
              IF b \in Abandoned THEN (IF marked > 0 THEN "orphaned" ELSE "unfinal")
              ELSE IF b \in Repair!Common \ holes THEN "finalized" ELSE "absent"]
        /\ logRow = [b \in Blocks |->
              IF b \in Abandoned THEN (IF marked > 1 THEN "orphaned" ELSE "canonical")
              ELSE IF b \in Repair!Common \ holes THEN "canonical" ELSE "absent"]
        /\ protocolRow = [b \in Blocks |->
              IF b \in unrouted THEN "absent"
              ELSE IF b \in Abandoned THEN (IF marked > 2 THEN "orphaned" ELSE "canonical")
              ELSE IF b \in Repair!Common \ holes THEN "canonical" ELSE "absent"]
        /\ published = (Repair!Common \cup Abandoned) \ holes
        /\ protocolJobs = published \ unrouted
        /\ swallowed = unrouted
    BY DEF Repair!Init
  <1>1. /\ Ancestor \in From .. To /\ From \in Nat /\ To \in Nat
        /\ Abandoned \subseteq Blocks
        /\ \A b \in Abandoned : Number[b] \in Ancestor + 1 .. To
    BY DEF Repair!RepairAssumption
  <1>2. \A b \in Repair!Common : b \in Blocks /\ Number[b] \in From .. Ancestor
    <2>1. ASSUME NEW n \in From .. Ancestor
          PROVE  BlockAt(Settled, n) \in Blocks /\ Number[BlockAt(Settled, n)] = n
      <3>1. n \in From .. To
        BY <1>1
      <3> QED BY <3>1, SettledAt
    <2>2. Repair!Common = {BlockAt(Settled, n) : n \in From .. Ancestor}
      BY DEF Repair!Common, Repair!BlockAt, BlockAt
    <2> QED BY <2>1, <2>2
  <1>3. Repair!TypeOK
    <2>1. /\ blockRow \in [Blocks -> BlockStatus]
          /\ logRow \in [Blocks -> FactStatus]
          /\ protocolRow \in [Blocks -> FactStatus]
      BY DEF BlockStatus, FactStatus
    <2>2. {published, protocolJobs, swallowed} \subseteq SUBSET Blocks
      BY <1>1, <1>2
    <2>3. /\ resolved \in BOOLEAN
          /\ pc \in [Repair!Modes -> Repair!Lines]
          /\ queue \in [Repair!Modes -> SUBSET Blocks]
          /\ gaps \subseteq Repair!Gap
          /\ unanswered \subseteq Blocks
          /\ early \subseteq Repair!Modes \ {"reorg-reconciliation"}
      BY DEF Repair!Init, Repair!Lines
    <2>4. /\ cur \in From .. To + BatchSize
          /\ runs \in 0 .. MaxRuns
          /\ deaths \in 0 .. MaxDeaths
          /\ failures \in 0 .. MaxFailures
      BY <1>1 DEF Repair!Init, Repair!RepairAssumption
    <2> QED BY <2>1, <2>2, <2>3, <2>4
            DEF Repair!TypeOK, Repair!BlockStatus, Repair!FactStatus, BlockStatus, FactStatus
  <1>4. \A b \in Blocks : blockRow[b] # "absent" =>
            Number[b] \in From .. To /\ b \in published
    BY <1>1, <1>2
  <1>5. QueueInv /\ BackfillInv
    BY DEF Repair!Init, QueueInv, BackfillInv, Repair!Indexing, Repair!Modes
  <1> QED BY <1>3, <1>4, <1>5 DEF RepairInv, RowsInv, DiscoveryJobs

\* A mode's place in its loop, and no other's.
LEMMA GotoLine ==
    ASSUME Repair!TypeOK, NEW m \in Repair!Modes, NEW line \in Repair!Lines, Repair!Goto(m, line)
    PROVE  /\ pc' \in [Repair!Modes -> Repair!Lines]
           /\ pc'[m] = line
           /\ \A k \in Repair!Modes : k # m => pc'[k] = pc[k]
  BY DEF Repair!TypeOK, Repair!Goto

\* A batch ends within the range, and not before it began.
LEMMA BatchEndInRange ==
    ASSUME Repair!RepairAssumption, Repair!TypeOK
    PROVE  /\ Repair!BatchEnd \in Int
           /\ Repair!BatchEnd <= To
           /\ cur <= To => cur <= Repair!BatchEnd
           /\ Repair!BatchEnd + 1 \in From .. To + BatchSize
  BY DEF Repair!RepairAssumption, Repair!TypeOK, Repair!BatchEnd

\* A step that loses no row, no job and nothing of a mode's queue, and leaves
\* the backfill where it is.
LEMMA RepairSame ==
    ASSUME Repair!RepairAssumption, RepairInv, Repair!TypeOK', QueueInv',
           \A b \in Blocks : blockRow'[b] # "absent" <=> blockRow[b] # "absent",
           published \subseteq published', unanswered \subseteq unanswered',
           cur' = cur, deaths' = deaths,
           pc'["historical"] \in {"down", "next"} <=> pc["historical"] \in {"down", "next"},
           pc'["historical"] = "down" <=> pc["historical"] = "down",
           queue'["historical"] = queue["historical"],
           queue["gap-repair"] \subseteq queue'["gap-repair"]
    PROVE  RepairInv'
  <1>1. RowsInv' /\ BackfillInv'
    BY DEF RepairInv, RowsInv, BackfillInv, Repair!BatchEnd, Repair!Indexing
  <1>2. DiscoveryJobs'
    BY DEF RepairInv, DiscoveryJobs, Repair!Pending, QueueInv,
           Repair!Indexing
  <1> QED BY <1>1, <1>2 DEF RepairInv

\* Fetching a range: what the queue holds then, and what it does not.
LEMMA FetchedRange ==
    ASSUME Repair!RepairAssumption, Repair!TypeOK, NEW m \in Repair!Indexing,
           NEW from \in From .. To, NEW to \in From .. To, Repair!Fetched(m, from, to)
    PROVE  /\ failures' \in 0 .. MaxFailures
           /\ unanswered \subseteq unanswered' /\ unanswered' \subseteq Blocks
           /\ queue' \in [Repair!Modes -> SUBSET Blocks]
           /\ queue'[m] \subseteq SettledBlocks
           /\ \A k \in Repair!Modes : k # m => queue'[k] = queue[k]
           /\ \A n \in from .. to : BlockAt(Settled, n) \in queue'[m] \cup unanswered'
           /\ \A b \in queue'[m] : Number[b] >= from
           /\ Repair!Goto(m, IF queue'[m] = {} THEN "next" ELSE "persist")
  <1> PICK holes \in SUBSET (from .. to) :
        /\ failures' \in failures .. MaxFailures
        /\ unanswered' = unanswered \cup {BlockAt(Settled, n) : n \in holes}
        /\ queue' = [queue EXCEPT ![m] =
                        {BlockAt(Settled, n) : n \in (from .. to) \ holes}]
        /\ Repair!Goto(m, IF queue'[m] = {} THEN "next" ELSE "persist")
    BY DEF Repair!Fetched, Repair!BlockAt, BlockAt
  <1>1. m \in Repair!Modes /\ queue \in [Repair!Modes -> SUBSET Blocks] /\ unanswered \subseteq Blocks
    BY DEF Repair!TypeOK, Repair!Indexing, Repair!Modes
  <1>2. \A n \in from .. to : n \in From .. To /\ BlockAt(Settled, n) \in Blocks
    <2>1. from \in Nat /\ to \in Nat /\ From \in Nat /\ To \in Nat
      BY DEF Repair!RepairAssumption
    <2> QED BY <2>1, SettledAt
  <1>3. queue'[m] = {BlockAt(Settled, n) : n \in (from .. to) \ holes}
    BY <1>1
  <1>4. failures' \in 0 .. MaxFailures
    BY DEF Repair!TypeOK
  <1>5. queue'[m] \subseteq SettledBlocks /\ queue'[m] \subseteq Blocks
    BY <1>2, <1>3 DEF SettledBlocks
  <1>6. queue' \in [Repair!Modes -> SUBSET Blocks]
    BY <1>1, <1>3, <1>5
  <1>7. \A n \in from .. to : BlockAt(Settled, n) \in queue'[m] \cup unanswered'
    BY <1>3
  <1>8. \A b \in queue'[m] : Number[b] >= from
    <2> SUFFICES ASSUME NEW n \in (from .. to) \ holes PROVE Number[BlockAt(Settled, n)] >= from
      BY <1>3
    <2> QED BY <1>2, SettledAt
  <1> QED BY <1>1, <1>2, <1>4, <1>5, <1>6, <1>7, <1>8

\* Handing a block's events to the handlers keeps the types of what they write.
LEMMA EventsTypes ==
    ASSUME Repair!RepairAssumption, Repair!TypeOK, NEW b \in Blocks, Repair!HandleEvents(b)
    PROVE  /\ protocolRow' \in [Blocks -> Repair!FactStatus]
           /\ protocolJobs' \subseteq Blocks /\ swallowed' \subseteq Blocks
           /\ failures' \in 0 .. MaxFailures
  <1>1. Repair!UpsertCanonical(protocolRow, {b}) \in [Blocks -> Repair!FactStatus]
    BY DEF Repair!TypeOK, Repair!UpsertCanonical, Repair!FactStatus
  <1>2. failures' \in 0 .. MaxFailures
    BY DEF Repair!HandleEvents, Repair!TypeOK, Repair!RepairAssumption
  <1>3. protocolJobs' \subseteq Blocks /\ swallowed' \subseteq Blocks
    BY DEF Repair!HandleEvents, Repair!TypeOK
  <1> QED BY <1>1, <1>2, <1>3 DEF Repair!HandleEvents, Repair!TypeOK

\* Starting a mode counts the run.
LEMMA StartTypes ==
    ASSUME Repair!RepairAssumption, Repair!TypeOK, NEW m \in Repair!Modes, Repair!Starts(m)
    PROVE  /\ runs' \in 0 .. MaxRuns
           /\ early' \subseteq Repair!Modes \ {"reorg-reconciliation"}
           /\ early \subseteq early' /\ pc[m] = "down"
  <1>1. runs' \in 0 .. MaxRuns
    BY DEF Repair!Starts, Repair!TypeOK, Repair!RepairAssumption
  <1>2. early \subseteq Repair!Modes \ {"reorg-reconciliation"}
    BY DEF Repair!TypeOK
  <1> QED BY <1>1, <1>2 DEF Repair!Starts

\* So do the histories of a run, and nothing else writes them.
LEMMA HistoryTypes ==
    ASSUME Repair!RepairAssumption, Repair!TypeOK, [Repair!Next]_(Repair!vars)
    PROVE  /\ protocolJobs' \subseteq Blocks /\ swallowed' \subseteq Blocks
           /\ runs' \in 0 .. MaxRuns
           /\ early' \subseteq Repair!Modes \ {"reorg-reconciliation"}
           /\ early \subseteq early'
           /\ protocolJobs \subseteq protocolJobs' /\ swallowed \subseteq swallowed'
  <1> USE DEF Repair!facts, Repair!handled, Repair!memory, Repair!bounds
  <1> DEFINE Runs == UNCHANGED <<runs, early>>
             Handled == UNCHANGED <<protocolJobs, swallowed>>
  <1>1. /\ protocolJobs \subseteq Blocks /\ swallowed \subseteq Blocks /\ runs \in 0 .. MaxRuns
        /\ early \subseteq Repair!Modes \ {"reorg-reconciliation"}
    BY DEF Repair!TypeOK
  <1>2. \A m \in Repair!Modes : queue[m] \subseteq Blocks
    BY DEF Repair!TypeOK
  <1>3. CASE Repair!StartBackfill \/ Repair!StartGapRepair \/ Repair!StartReconciliation
             \/ Repair!StartReplay
    <2>1. \E m \in Repair!Modes : Repair!Starts(m)
      BY <1>3 DEF Repair!StartBackfill, Repair!StartGapRepair, Repair!StartReconciliation,
             Repair!StartReplay, Repair!Modes
    <2>2. Handled
      BY <1>3 DEF Repair!StartBackfill, Repair!StartGapRepair, Repair!StartReconciliation,
             Repair!StartReplay
    <2> QED BY <1>1, <2>1, <2>2, StartTypes
  <1>4. CASE Repair!ReplayLog \/ \E m \in Repair!Indexing : Repair!Route(m)
    <2>1. \E b \in Blocks : Repair!HandleEvents(b)
      BY <1>2, <1>4 DEF Repair!ReplayLog, Repair!Route, Repair!First, Repair!Modes, Repair!Indexing
    <2>2. Runs
      BY <1>4 DEF Repair!ReplayLog, Repair!Route
    <2>3. protocolJobs \subseteq protocolJobs' /\ swallowed \subseteq swallowed'
      BY <2>1 DEF Repair!HandleEvents
    <2> QED BY <1>1, <2>1, <2>2, <2>3, EventsTypes
  <1>5. CASE \E m \in Repair!Indexing : Repair!Persist(m) \/ Repair!Publish(m)
    <2>1. Runs /\ Handled
      BY <1>5 DEF Repair!Persist, Repair!Publish
    <2> QED BY <1>1, <2>1
  <1>6. CASE Repair!FetchBatch \/ Repair!RetryBatch \/ Repair!EndBackfill \/ Repair!FetchGap
             \/ Repair!EndGapRepair
    <2>1. Runs /\ Handled
      BY <1>6 DEF Repair!FetchBatch, Repair!RetryBatch, Repair!EndBackfill, Repair!FetchGap,
             Repair!EndGapRepair
    <2> QED BY <1>1, <2>1
  <1>7. CASE Repair!OrphanBlocks \/ Repair!OrphanLogs \/ Repair!OrphanProtocolFacts
             \/ Repair!Resolve \/ UNCHANGED Repair!vars \/ \E m \in Repair!Modes : Repair!Die(m)
    <2>1. Runs /\ Handled
      BY <1>7 DEF Repair!OrphanBlocks, Repair!OrphanLogs, Repair!OrphanProtocolFacts,
             Repair!Resolve, Repair!vars, Repair!Die
    <2> QED BY <1>1, <2>1
  <1>8. "historical" \in Repair!Indexing /\ "gap-repair" \in Repair!Indexing
    BY DEF Repair!Indexing
  <1> QED BY <1>3, <1>4, <1>5, <1>6, <1>7, <1>8
          DEF Repair!Next, Repair!Backfill, Repair!GapRepair, Repair!Reconcile, Repair!Replay,
              Repair!IndexBlock

\* The types after a step, mode by mode.
LEMMA RepairTypeStep ==
    ASSUME Repair!RepairAssumption, RepairInv, [Repair!Next]_(Repair!vars)
    PROVE  Repair!TypeOK'
  <1> USE DEF Repair!facts, Repair!handled, Repair!memory, Repair!bounds
  <1> Repair!TypeOK
    BY DEF RepairInv
  <1> /\ protocolJobs' \subseteq Blocks /\ swallowed' \subseteq Blocks
      /\ runs' \in 0 .. MaxRuns /\ early' \subseteq Repair!Modes \ {"reorg-reconciliation"}
    BY HistoryTypes
  <1>1. ASSUME NEW m \in Repair!Indexing, Repair!IndexBlock(m) PROVE Repair!TypeOK'
    <2>0. m \in Repair!Modes
      BY DEF Repair!Indexing, Repair!Modes
    <2>1. CASE Repair!Persist(m)
      <3>1. PICK b \in Repair!First(queue[m]) :
               /\ blockRow' = Repair!InsertBlocks(blockRow, {b}, "finalized")
               /\ logRow' = Repair!InsertBlocks(logRow, {b}, "canonical")
        BY <2>1 DEF Repair!Persist
      <3>2. /\ blockRow' \in [Blocks -> Repair!BlockStatus]
            /\ logRow' \in [Blocks -> Repair!FactStatus]
        BY <3>1 DEF Repair!TypeOK, Repair!InsertBlocks, Repair!BlockStatus, Repair!FactStatus
      <3> QED BY <2>0, <2>1, <3>2, GotoLine DEF Repair!Persist, Repair!TypeOK, Repair!Lines
    <2>2. CASE Repair!Route(m)
      <3>1. PICK b \in queue[m] : b \in Blocks /\ Repair!HandleEvents(b)
        BY <2>0, <2>2 DEF Repair!Route, Repair!First, Repair!TypeOK
      <3>2. protocolRow' \in [Blocks -> Repair!FactStatus] /\ failures' \in 0 .. MaxFailures
        BY <3>1, EventsTypes
      <3> QED BY <2>0, <2>2, <3>2, GotoLine DEF Repair!Route, Repair!TypeOK, Repair!Lines
    <2>3. CASE Repair!Publish(m)
      <3>1. PICK b \in Repair!First(queue[m]) :
               /\ published' = published \cup {b}
               /\ queue' = [queue EXCEPT ![m] = queue[m] \ {b}]
        BY <2>3 DEF Repair!Publish
      <3>2. b \in queue[m] /\ queue[m] \subseteq Blocks
        BY <2>0 DEF Repair!First, Repair!TypeOK
      <3>3. published' \subseteq Blocks /\ queue' \in [Repair!Modes -> SUBSET Blocks]
        BY <2>0, <3>1, <3>2 DEF Repair!TypeOK
      <3>4. cur' \in From .. To + BatchSize
        BY <2>3, BatchEndInRange DEF Repair!Publish, Repair!TypeOK
      <3>5. pc' \in [Repair!Modes -> Repair!Lines]
        BY <2>0, <2>3, GotoLine DEF Repair!Publish, Repair!Lines
      <3> QED BY <2>3, <3>3, <3>4, <3>5 DEF Repair!Publish, Repair!TypeOK
    <2> QED BY <1>1, <2>1, <2>2, <2>3 DEF Repair!IndexBlock
  <1>2. CASE Repair!Backfill
    <2>0. "historical" \in Repair!Modes /\ "historical" \in Repair!Indexing
      BY DEF Repair!Modes, Repair!Indexing
    <2>1. CASE Repair!StartBackfill
      <3>1. cur' \in From .. To + BatchSize
        BY <2>1 DEF Repair!StartBackfill, Repair!TypeOK, Repair!RepairAssumption
      <3> QED BY <2>0, <2>1, <3>1, GotoLine DEF Repair!StartBackfill, Repair!TypeOK, Repair!Lines
    <2>2. CASE Repair!FetchBatch
      <3>1. cur \in From .. To /\ Repair!BatchEnd \in From .. To
        BY <2>2, BatchEndInRange
           DEF Repair!FetchBatch, Repair!TypeOK, Repair!RepairAssumption
      <3>2. Repair!Fetched("historical", cur, Repair!BatchEnd)
        BY <2>2 DEF Repair!FetchBatch
      <3>3. /\ failures' \in 0 .. MaxFailures
            /\ unanswered' \subseteq Blocks
            /\ queue' \in [Repair!Modes -> SUBSET Blocks]
            /\ Repair!Goto("historical", IF queue'["historical"] = {} THEN "next" ELSE "persist")
        BY <2>0, <3>1, <3>2, FetchedRange
      <3>4. cur' \in From .. To + BatchSize
        BY <2>2, BatchEndInRange DEF Repair!FetchBatch, Repair!TypeOK
      <3>5. pc' \in [Repair!Modes -> Repair!Lines]
        BY <2>0, <3>3, GotoLine DEF Repair!Lines
      <3> QED BY <2>2, <3>3, <3>4, <3>5 DEF Repair!FetchBatch, Repair!TypeOK
    <2>3. CASE Repair!IndexBlock("historical")
      BY <2>0, <2>3, <1>1
    <2>4. CASE Repair!RetryBatch
      <3>1. failures' \in 0 .. MaxFailures
        BY <2>4 DEF Repair!RetryBatch, Repair!TypeOK, Repair!RepairAssumption
      <3>2. queue' \in [Repair!Modes -> SUBSET Blocks]
        BY <2>4 DEF Repair!RetryBatch, Repair!TypeOK
      <3> QED BY <2>0, <2>4, <3>1, <3>2, GotoLine DEF Repair!RetryBatch, Repair!TypeOK, Repair!Lines
    <2>5. CASE Repair!EndBackfill
      BY <2>0, <2>5, GotoLine DEF Repair!EndBackfill, Repair!TypeOK, Repair!Lines
    <2> QED BY <1>2, <2>1, <2>2, <2>3, <2>4, <2>5 DEF Repair!Backfill
  <1>3. CASE Repair!GapRepair
    <2>0. "gap-repair" \in Repair!Modes /\ "gap-repair" \in Repair!Indexing
      BY DEF Repair!Modes, Repair!Indexing
    <2>1. CASE Repair!StartGapRepair
      <3>1. gaps' \subseteq Repair!Gap
        BY <2>1 DEF Repair!StartGapRepair, Repair!MissingRanges
      <3> QED BY <2>0, <2>1, <3>1, GotoLine DEF Repair!StartGapRepair, Repair!TypeOK, Repair!Lines
    <2>2. CASE Repair!FetchGap
      <3>1. PICK g \in gaps : Repair!Fetched("gap-repair", g.from, g.to) /\ gaps' = gaps \ {g}
        BY <2>2 DEF Repair!FetchGap
      <3>2. g.from \in From .. To /\ g.to \in From .. To
        BY DEF Repair!TypeOK, Repair!Gap
      <3>3. /\ failures' \in 0 .. MaxFailures
            /\ unanswered' \subseteq Blocks
            /\ queue' \in [Repair!Modes -> SUBSET Blocks]
            /\ Repair!Goto("gap-repair", IF queue'["gap-repair"] = {} THEN "next" ELSE "persist")
        BY <2>0, <3>1, <3>2, FetchedRange
      <3>4. pc' \in [Repair!Modes -> Repair!Lines]
        BY <2>0, <3>3, GotoLine DEF Repair!Lines
      <3> QED BY <2>2, <3>1, <3>3, <3>4 DEF Repair!FetchGap, Repair!TypeOK
    <2>3. CASE Repair!IndexBlock("gap-repair")
      BY <2>0, <2>3, <1>1
    <2>4. CASE Repair!EndGapRepair
      BY <2>0, <2>4, GotoLine DEF Repair!EndGapRepair, Repair!TypeOK, Repair!Lines
    <2> QED BY <1>3, <2>1, <2>2, <2>3, <2>4 DEF Repair!GapRepair
  <1>4. CASE Repair!Reconcile
    <2>0. "reorg-reconciliation" \in Repair!Modes
      BY DEF Repair!Modes
    <2>1. CASE Repair!StartReconciliation
      BY <2>0, <2>1, GotoLine DEF Repair!StartReconciliation, Repair!TypeOK, Repair!Lines
    <2>2. CASE Repair!OrphanBlocks
      <3>1. blockRow' \in [Blocks -> Repair!BlockStatus]
        BY <2>2 DEF Repair!OrphanBlocks, Repair!TypeOK, Repair!OrphanEvent, Repair!OrphanRange,
                    Repair!BlockStatus
      <3> QED BY <2>0, <2>2, <3>1, GotoLine DEF Repair!OrphanBlocks, Repair!TypeOK, Repair!Lines
    <2>3. CASE Repair!OrphanLogs
      <3>1. logRow' \in [Blocks -> Repair!FactStatus]
        BY <2>3 DEF Repair!OrphanLogs, Repair!TypeOK, Repair!OrphanEvent, Repair!OrphanRange,
                    Repair!FactStatus
      <3> QED BY <2>0, <2>3, <3>1, GotoLine DEF Repair!OrphanLogs, Repair!TypeOK, Repair!Lines
    <2>4. CASE Repair!OrphanProtocolFacts
      <3>1. protocolRow' \in [Blocks -> Repair!FactStatus]
        BY <2>4 DEF Repair!OrphanProtocolFacts, Repair!TypeOK, Repair!OrphanEvent,
                    Repair!OrphanRange, Repair!FactStatus
      <3> QED BY <2>0, <2>4, <3>1, GotoLine
              DEF Repair!OrphanProtocolFacts, Repair!TypeOK, Repair!Lines
    <2>5. CASE Repair!Resolve
      BY <2>0, <2>5, GotoLine DEF Repair!Resolve, Repair!TypeOK, Repair!Lines
    <2> QED BY <1>4, <2>1, <2>2, <2>3, <2>4, <2>5 DEF Repair!Reconcile
  <1>5. CASE Repair!Replay
    <2>0. "contract-replay" \in Repair!Modes
      BY DEF Repair!Modes
    <2>1. CASE Repair!StartReplay
      <3>1. queue' \in [Repair!Modes -> SUBSET Blocks]
        BY <2>1 DEF Repair!StartReplay, Repair!TypeOK, Repair!CanonicalLogs,
                    Repair!CanonicalRows
      <3> QED BY <2>0, <2>1, <3>1, GotoLine DEF Repair!StartReplay, Repair!TypeOK, Repair!Lines
    <2>2. CASE Repair!ReplayLog
      <3>1. PICK b \in queue["contract-replay"] :
               /\ b \in Blocks /\ Repair!HandleEvents(b)
               /\ queue' = [queue EXCEPT !["contract-replay"] = queue["contract-replay"] \ {b}]
        BY <2>0, <2>2 DEF Repair!ReplayLog, Repair!First, Repair!TypeOK
      <3>2. protocolRow' \in [Blocks -> Repair!FactStatus] /\ failures' \in 0 .. MaxFailures
        BY <3>1, EventsTypes
      <3>3. queue' \in [Repair!Modes -> SUBSET Blocks]
        BY <3>1 DEF Repair!TypeOK
      <3> QED BY <2>0, <2>2, <3>2, <3>3, GotoLine DEF Repair!ReplayLog, Repair!TypeOK, Repair!Lines
    <2> QED BY <1>5, <2>1, <2>2 DEF Repair!Replay
  <1>6. ASSUME NEW m \in Repair!Modes, Repair!Die(m) PROVE Repair!TypeOK'
    <2>1. deaths' \in 0 .. MaxDeaths /\ gaps' \subseteq Repair!Gap
      BY <1>6 DEF Repair!Die, Repair!TypeOK, Repair!RepairAssumption
    <2>2. queue' \in [Repair!Modes -> SUBSET Blocks]
      BY <1>6 DEF Repair!Die, Repair!TypeOK
    <2> QED BY <1>6, <2>1, <2>2, GotoLine DEF Repair!Die, Repair!TypeOK, Repair!Lines
  <1>7. CASE UNCHANGED Repair!vars
    BY <1>7 DEF Repair!vars, Repair!TypeOK
  <1> QED BY <1>2, <1>3, <1>4, <1>5, <1>6, <1>7 DEF Repair!Next

\* Which modes index, and what QueueInv says of each.
LEMMA QueueInvModes ==
    QueueInv <=>
        /\ queue["historical"] \subseteq SettledBlocks
        /\ queue["gap-repair"] \subseteq SettledBlocks
        /\ pc["historical"] \in {"down", "next"} => queue["historical"] = {}
        /\ pc["gap-repair"] \in {"down", "next"} => queue["gap-repair"] = {}
  BY DEF QueueInv, Repair!Indexing

\* persistBlockData, routing and publishing, of a mode that indexes.
LEMMA IndexBlockStep ==
    ASSUME Repair!RepairAssumption, RepairInv, Repair!TypeOK',
           NEW m \in Repair!Indexing, Repair!IndexBlock(m)
    PROVE  RepairInv'
  <1> USE DEF Repair!facts, Repair!handled, Repair!memory, Repair!bounds
  <1> DEFINE k == IF m = "historical" THEN "gap-repair" ELSE "historical"
  <1>0. /\ m \in Repair!Modes /\ k \in Repair!Modes /\ k # m
        /\ Repair!Indexing = {m, k}
        /\ Repair!TypeOK
    BY DEF Repair!Indexing, Repair!Modes, RepairInv
  <1>1. CASE Repair!Persist(m)
    <2>1. PICK b \in Repair!First(queue[m]) :
             blockRow' = Repair!InsertBlocks(blockRow, {b}, "finalized")
      BY <1>1 DEF Repair!Persist
    <2>2. b \in queue[m] /\ b \in SettledBlocks
      BY DEF Repair!First, RepairInv, QueueInv
    <2>3. b \in Blocks /\ Number[b] \in From .. To /\ b = BlockAt(Settled, Number[b])
      BY <2>2, SettledAt DEF SettledBlocks
    <2>4. \A d \in Blocks : blockRow'[d] # "absent" => blockRow[d] # "absent" \/ d = b
      BY <2>1 DEF Repair!InsertBlocks
    <2>5. /\ pc[m] = "persist" /\ pc'[m] = "route" /\ pc'[k] = pc[k]
          /\ UNCHANGED <<published, queue, cur, unanswered, deaths>>
      BY <1>0, <1>1, GotoLine DEF Repair!Persist, Repair!Lines
    <2>6. RowsInv'
      BY <2>3, <2>4, <2>5 DEF RepairInv, RowsInv
    <2>7. QueueInv' /\ BackfillInv'
      BY <1>0, <2>5 DEF RepairInv, QueueInv, BackfillInv, Repair!BatchEnd
    <2>8. DiscoveryJobs'
      BY <1>0, <2>2, <2>4, <2>5 DEF RepairInv, DiscoveryJobs, Repair!Pending
    <2> QED BY <2>6, <2>7, <2>8 DEF RepairInv
  <1>2. CASE Repair!Route(m)
    <2>1. /\ pc[m] = "route" /\ pc'[m] = "publish" /\ pc'[k] = pc[k]
          /\ UNCHANGED <<blockRow, published, queue, cur, unanswered, deaths>>
      BY <1>0, <1>2, GotoLine DEF Repair!Route, Repair!Lines
    <2>2. QueueInv'
      BY <1>0, <2>1 DEF RepairInv, QueueInv
    <2> QED BY <1>0, <2>1, <2>2, RepairSame
  <1>3. CASE Repair!Publish(m)
    <2>1. PICK b \in Repair!First(queue[m]) :
             /\ published' = published \cup {b}
             /\ queue' = [queue EXCEPT ![m] = queue[m] \ {b}]
      BY <1>3 DEF Repair!Publish
    <2>2. /\ b \in queue[m] /\ queue'[m] = queue[m] \ {b} /\ queue'[k] = queue[k]
          /\ published \subseteq published' /\ b \in published'
      BY <1>0, <2>1 DEF Repair!First, Repair!TypeOK
    <2>3. /\ pc[m] = "publish" /\ pc'[k] = pc[k]
          /\ pc'[m] = IF queue'[m] = {} THEN "next" ELSE "persist"
          /\ cur' = IF m = "historical" /\ queue'[m] = {} THEN Repair!BatchEnd + 1 ELSE cur
          /\ UNCHANGED <<blockRow, unanswered, deaths>>
      BY <1>0, <1>3, GotoLine DEF Repair!Publish, Repair!Lines
    <2>4. RowsInv'
      BY <2>2, <2>3 DEF RepairInv, RowsInv
    <2>5. QueueInv'
      BY <1>0, <2>2, <2>3 DEF RepairInv, QueueInv
    <2>6. BackfillInv'
      BY <1>0, <2>2, <2>3 DEF RepairInv, BackfillInv, Repair!BatchEnd
    <2>7. DiscoveryJobs'
      <3> SUFFICES ASSUME deaths = 0, NEW d \in Blocks, blockRow[d] # "absent",
                          d \notin published', d \notin unanswered
                   PROVE  Repair!Pending(d)'
        BY <2>3 DEF DiscoveryJobs
      <3>1. d \notin published /\ d # b
        BY <2>2
      <3>2. Repair!Pending(d)
        BY <3>1 DEF RepairInv, DiscoveryJobs
      <3>3. Number[d] \in From .. To /\ d = BlockAt(Settled, Number[d])
        BY <3>1 DEF RepairInv, RowsInv
      <3>4. CASE \E j \in Repair!Indexing : pc[j] # "down" /\ d \in queue[j]
        BY <1>0, <2>2, <2>3, <3>1, <3>4 DEF Repair!Pending
      <3>5. CASE pc["historical"] # "down" /\ Number[d] >= cur
        <4>1. CASE cur' = cur
          BY <1>0, <2>3, <3>5, <4>1 DEF Repair!Pending, Repair!Indexing
        <4>2. CASE cur' # cur
          <5>1. m = "historical" /\ queue'[m] = {} /\ cur' = Repair!BatchEnd + 1
            BY <2>3, <4>2
          <5>2. queue[m] = {b}
            BY <2>2, <5>1
          <5>3. \A n \in cur .. Repair!BatchEnd :
                    BlockAt(Settled, n) \in published \cup unanswered \cup {b}
            BY <2>3, <5>1, <5>2 DEF RepairInv, BackfillInv
          <5>4. Repair!BatchEnd \in Int /\ cur \in Int /\ Number[d] \in Int
            BY <1>0, <3>3, BatchEndInRange DEF Repair!TypeOK, Repair!RepairAssumption
          <5>5. Number[d] >= Repair!BatchEnd + 1
            BY <3>1, <3>3, <3>5, <5>3, <5>4
          <5> QED BY <2>3, <5>1, <5>5 DEF Repair!Pending, Repair!Indexing
        <4> QED BY <4>1, <4>2
      <3> QED BY <3>2, <3>4, <3>5 DEF Repair!Pending
    <2> QED BY <2>4, <2>5, <2>6, <2>7 DEF RepairInv
  <1> QED BY <1>1, <1>2, <1>3 DEF Repair!IndexBlock

\* The historical mode's loop.
LEMMA BackfillStep ==
    ASSUME Repair!RepairAssumption, RepairInv, Repair!TypeOK', Repair!Backfill
    PROVE  RepairInv'
  <1> USE DEF Repair!facts, Repair!handled, Repair!memory, Repair!bounds
  <1>0. /\ "historical" \in Repair!Modes /\ "gap-repair" \in Repair!Modes
        /\ "historical" \in Repair!Indexing
        /\ Repair!Indexing = {"historical", "gap-repair"}
        /\ Repair!TypeOK
    BY DEF Repair!Indexing, Repair!Modes, RepairInv
  <1>1. CASE Repair!StartBackfill
    <2>1. /\ pc["historical"] = "down" /\ pc'["historical"] = "next"
          /\ pc'["gap-repair"] = pc["gap-repair"]
          /\ UNCHANGED <<blockRow, published, queue, unanswered, deaths>>
      BY <1>0, <1>1, GotoLine DEF Repair!StartBackfill, Repair!Starts, Repair!Lines
    <2>2. RowsInv' /\ QueueInv' /\ BackfillInv'
      BY <1>0, <2>1 DEF RepairInv, RowsInv, QueueInv, BackfillInv
    <2>3. DiscoveryJobs'
      BY <1>0, <2>1 DEF RepairInv, DiscoveryJobs, Repair!Pending
    <2> QED BY <2>2, <2>3 DEF RepairInv
  <1>2. CASE Repair!FetchBatch
    <2>1. cur \in From .. To /\ Repair!BatchEnd \in From .. To
      BY <1>0, <1>2, BatchEndInRange
         DEF Repair!FetchBatch, Repair!TypeOK, Repair!RepairAssumption
    <2>2. Repair!Fetched("historical", cur, Repair!BatchEnd)
      BY <1>2 DEF Repair!FetchBatch
    <2>3. /\ unanswered \subseteq unanswered'
          /\ queue'["historical"] \subseteq SettledBlocks
          /\ queue'["gap-repair"] = queue["gap-repair"]
          /\ \A n \in cur .. Repair!BatchEnd :
                 BlockAt(Settled, n) \in queue'["historical"] \cup unanswered'
          /\ \A b \in queue'["historical"] : Number[b] >= cur
          /\ Repair!Goto("historical", IF queue'["historical"] = {} THEN "next" ELSE "persist")
      BY <1>0, <2>1, <2>2, FetchedRange
    <2>4. /\ pc["historical"] = "next"
          /\ pc'["historical"] = IF queue'["historical"] = {} THEN "next" ELSE "persist"
          /\ pc'["gap-repair"] = pc["gap-repair"]
      BY <1>0, <1>2, <2>3, GotoLine DEF Repair!FetchBatch, Repair!Lines
    <2>5. /\ cur' = IF queue'["historical"] = {} THEN Repair!BatchEnd + 1 ELSE cur
          /\ UNCHANGED <<blockRow, published, deaths>>
      BY <1>2 DEF Repair!FetchBatch
    <2>6. RowsInv' /\ QueueInv'
      BY <1>0, <2>3, <2>4, <2>5 DEF RepairInv, RowsInv, QueueInv
    <2>7. BackfillInv'
      BY <2>3, <2>4, <2>5 DEF BackfillInv, Repair!BatchEnd
    <2>8. DiscoveryJobs'
      <3> SUFFICES ASSUME deaths = 0, NEW d \in Blocks, blockRow[d] # "absent",
                          d \notin published, d \notin unanswered'
                   PROVE  Repair!Pending(d)'
        BY <2>5 DEF DiscoveryJobs
      <3>1. Repair!Pending(d) /\ d \notin unanswered
        BY <2>3 DEF RepairInv, DiscoveryJobs
      <3>2. Number[d] \in From .. To /\ d = BlockAt(Settled, Number[d])
        BY DEF RepairInv, RowsInv
      <3>3. CASE pc["gap-repair"] # "down" /\ d \in queue["gap-repair"]
        BY <1>0, <2>3, <2>4, <3>3 DEF Repair!Pending
      <3>4. CASE d \in queue["historical"]
        BY <1>0, <2>4, <3>4 DEF RepairInv, QueueInv
      <3>5. CASE Number[d] >= cur
        <4>1. CASE cur' = cur
          BY <1>0, <2>4, <3>5, <4>1 DEF Repair!Pending
        <4>2. CASE queue'["historical"] = {}
          <5>1. Repair!BatchEnd \in Int /\ cur \in Int /\ Number[d] \in Int
            BY <2>1, <3>2 DEF Repair!RepairAssumption
          <5>2. Number[d] >= Repair!BatchEnd + 1
            BY <2>3, <3>2, <3>5, <4>2, <5>1
          <5> QED BY <1>0, <2>4, <2>5, <4>2, <5>2 DEF Repair!Pending
        <4> QED BY <2>5, <4>1, <4>2
      <3> QED BY <1>0, <3>1, <3>3, <3>4, <3>5 DEF Repair!Pending
    <2> QED BY <2>6, <2>7, <2>8 DEF RepairInv
  <1>3. CASE Repair!IndexBlock("historical")
    BY <1>0, <1>3, IndexBlockStep
  <1>4. CASE Repair!RetryBatch
    <2>1. /\ pc["historical"] \in {"persist", "route", "publish"}
          /\ pc'["historical"] = "next" /\ pc'["gap-repair"] = pc["gap-repair"]
          /\ queue'["historical"] = {} /\ queue'["gap-repair"] = queue["gap-repair"]
          /\ UNCHANGED <<blockRow, published, cur, unanswered, deaths>>
      BY <1>0, <1>4, GotoLine DEF Repair!RetryBatch, Repair!Lines, Repair!TypeOK
    <2>2. RowsInv' /\ QueueInv' /\ BackfillInv'
      BY <1>0, <2>1 DEF RepairInv, RowsInv, QueueInv, BackfillInv
    <2>3. \A b \in queue["historical"] : Number[b] >= cur
      BY <2>1 DEF RepairInv, BackfillInv
    <2>4. DiscoveryJobs'
      BY <1>0, <2>1, <2>3 DEF RepairInv, DiscoveryJobs, Repair!Pending
    <2> QED BY <2>2, <2>4 DEF RepairInv
  <1>5. CASE Repair!EndBackfill
    <2>1. /\ pc["historical"] = "next" /\ cur > To
          /\ pc'["historical"] = "down" /\ pc'["gap-repair"] = pc["gap-repair"]
          /\ UNCHANGED <<blockRow, published, queue, cur, unanswered, deaths>>
      BY <1>0, <1>5, GotoLine DEF Repair!EndBackfill, Repair!Lines
    <2>2. RowsInv' /\ QueueInv' /\ BackfillInv'
      BY <1>0, <2>1 DEF RepairInv, RowsInv, QueueInv, BackfillInv
    <2>3. \A b \in Blocks : blockRow[b] # "absent" => ~(Number[b] >= cur)
      BY <1>0, <2>1 DEF RepairInv, RowsInv, Repair!TypeOK, Repair!RepairAssumption
    <2>4. DiscoveryJobs'
      BY <1>0, <2>1, <2>3
         DEF RepairInv, QueueInv, DiscoveryJobs, Repair!Pending
    <2> QED BY <2>2, <2>4 DEF RepairInv
  <1> QED BY <1>1, <1>2, <1>3, <1>4, <1>5 DEF Repair!Backfill

\* Gap repair's loop.
LEMMA GapRepairStep ==
    ASSUME Repair!RepairAssumption, RepairInv, Repair!TypeOK', Repair!GapRepair
    PROVE  RepairInv'
  <1> USE DEF Repair!facts, Repair!handled, Repair!memory, Repair!bounds
  <1>0. /\ "historical" \in Repair!Modes /\ "gap-repair" \in Repair!Modes
        /\ "gap-repair" \in Repair!Indexing
        /\ Repair!Indexing = {"historical", "gap-repair"}
        /\ Repair!TypeOK
    BY DEF Repair!Indexing, Repair!Modes, RepairInv
  <1>1. CASE Repair!StartGapRepair \/ Repair!EndGapRepair
    <2>1. /\ pc["gap-repair"] \in {"down", "next"} /\ pc'["gap-repair"] \in {"down", "next"}
          /\ pc'["historical"] = pc["historical"]
          /\ UNCHANGED <<blockRow, published, queue, cur, unanswered, deaths>>
      BY <1>0, <1>1, GotoLine
         DEF Repair!StartGapRepair, Repair!EndGapRepair, Repair!Starts, Repair!Lines
    <2>2. QueueInv'
      BY <1>0, <2>1 DEF RepairInv, QueueInv
    <2> QED BY <2>1, <2>2, RepairSame
  <1>2. CASE Repair!FetchGap
    <2>1. PICK g \in gaps : Repair!Fetched("gap-repair", g.from, g.to)
      BY <1>2 DEF Repair!FetchGap
    <2>2. g.from \in From .. To /\ g.to \in From .. To
      BY <1>0 DEF Repair!TypeOK, Repair!Gap
    <2>3. /\ unanswered \subseteq unanswered'
          /\ queue'["gap-repair"] \subseteq SettledBlocks
          /\ queue'["historical"] = queue["historical"]
          /\ Repair!Goto("gap-repair", IF queue'["gap-repair"] = {} THEN "next" ELSE "persist")
      BY <1>0, <2>1, <2>2, FetchedRange
    <2>4. /\ pc["gap-repair"] = "next"
          /\ pc'["gap-repair"] = IF queue'["gap-repair"] = {} THEN "next" ELSE "persist"
          /\ pc'["historical"] = pc["historical"]
          /\ UNCHANGED <<blockRow, published, cur, deaths>>
      BY <1>0, <1>2, <2>3, GotoLine DEF Repair!FetchGap, Repair!Lines
    <2>5. QueueInv' /\ queue["gap-repair"] = {}
      BY <1>0, <2>3, <2>4 DEF RepairInv, QueueInv
    <2> QED BY <2>3, <2>4, <2>5, RepairSame
  <1>3. CASE Repair!IndexBlock("gap-repair")
    BY <1>0, <1>3, IndexBlockStep
  <1> QED BY <1>1, <1>2, <1>3 DEF Repair!GapRepair

\* Reconciliation and replay touch no block row but to orphan it.
LEMMA ReconcileReplayStep ==
    ASSUME Repair!RepairAssumption, RepairInv, Repair!TypeOK',
           Repair!Reconcile \/ Repair!Replay
    PROVE  RepairInv'
  <1> USE DEF Repair!facts, Repair!handled, Repair!memory, Repair!bounds
  <1>0. /\ {"historical", "gap-repair", "reorg-reconciliation", "contract-replay"}
               \subseteq Repair!Modes
        /\ Repair!Indexing = {"historical", "gap-repair"}
        /\ Repair!TypeOK
    BY DEF Repair!Indexing, Repair!Modes, RepairInv
  <1>1. /\ \A m \in Repair!Indexing : pc'[m] = pc[m] /\ queue'[m] = queue[m]
        /\ UNCHANGED <<published, cur, unanswered, deaths>>
    <2>1. CASE Repair!Reconcile
      BY <1>0, <2>1, GotoLine
         DEF Repair!Reconcile, Repair!StartReconciliation, Repair!OrphanBlocks,
             Repair!OrphanLogs, Repair!OrphanProtocolFacts, Repair!Resolve, Repair!Lines
    <2>2. CASE Repair!StartReplay
      BY <1>0, <2>2, GotoLine DEF Repair!StartReplay, Repair!Lines, Repair!TypeOK
    <2>3. CASE Repair!ReplayLog
      BY <1>0, <2>3, GotoLine DEF Repair!ReplayLog, Repair!Lines, Repair!TypeOK
    <2> QED BY <2>1, <2>2, <2>3 DEF Repair!Replay
  <1>2. \A b \in Blocks : blockRow'[b] # "absent" <=> blockRow[b] # "absent"
    <2>1. CASE Repair!OrphanBlocks
      BY <1>0, <2>1 DEF Repair!OrphanBlocks, Repair!OrphanEvent, Repair!OrphanRange,
                        Repair!CanonicalRows, Repair!TypeOK
    <2>2. CASE blockRow' = blockRow
      BY <2>2
    <2> QED BY <2>1, <2>2 DEF Repair!Reconcile, Repair!StartReconciliation, Repair!OrphanLogs,
               Repair!OrphanProtocolFacts, Repair!Resolve, Repair!Replay, Repair!StartReplay,
               Repair!ReplayLog
  <1>3. QueueInv'
    BY <1>1 DEF RepairInv, QueueInv
  <1> QED BY <1>0, <1>1, <1>2, <1>3, RepairSame

\* A run that dies loses its queue, and the property says nothing any more.
LEMMA DieStep ==
    ASSUME Repair!RepairAssumption, RepairInv, Repair!TypeOK',
           NEW m \in Repair!Modes, Repair!Die(m)
    PROVE  RepairInv'
  <1> USE DEF Repair!facts, Repair!handled, Repair!memory, Repair!bounds
  <1>0. "historical" \in Repair!Modes /\ Repair!Indexing \subseteq Repair!Modes /\ Repair!TypeOK
    BY DEF Repair!Indexing, Repair!Modes, RepairInv
  <1>1. /\ pc'[m] = "down" /\ queue'[m] = {}
        /\ \A k \in Repair!Modes : k # m => pc'[k] = pc[k] /\ queue'[k] = queue[k]
        /\ UNCHANGED <<blockRow, published, cur, unanswered>>
        /\ deaths' = deaths + 1
    BY <1>0, GotoLine DEF Repair!Die, Repair!Lines, Repair!TypeOK
  <1>2. RowsInv' /\ QueueInv'
    BY <1>0, <1>1 DEF RepairInv, RowsInv, QueueInv
  <1>3. BackfillInv'
    BY <1>0, <1>1 DEF RepairInv, BackfillInv, Repair!BatchEnd
  <1>4. deaths' # 0
    BY <1>0, <1>1 DEF Repair!TypeOK
  <1> QED BY <1>2, <1>3, <1>4 DEF RepairInv, DiscoveryJobs

\* RepairInv is inductive.
LEMMA RepairStep ==
    ASSUME Repair!RepairAssumption, RepairInv, [Repair!Next]_(Repair!vars)
    PROVE  RepairInv'
  <1>0. Repair!TypeOK'
    BY RepairTypeStep
  <1>1. CASE Repair!Backfill
    BY <1>0, <1>1, BackfillStep
  <1>2. CASE Repair!GapRepair
    BY <1>0, <1>2, GapRepairStep
  <1>3. CASE Repair!Reconcile \/ Repair!Replay
    BY <1>0, <1>3, ReconcileReplayStep
  <1>4. ASSUME NEW m \in Repair!Modes, Repair!Die(m) PROVE RepairInv'
    BY <1>0, <1>4, DieStep
  <1>5. CASE UNCHANGED Repair!vars
    BY <1>5
       DEF Repair!vars, Repair!facts, Repair!handled, Repair!memory, Repair!bounds, RepairInv, Repair!TypeOK,
           RowsInv, QueueInv, BackfillInv, Repair!BatchEnd, DiscoveryJobs,
           Repair!Pending
  <1> QED BY <1>1, <1>2, <1>3, <1>4, <1>5 DEF Repair!Next

\* RepairInv holds in every state of the repair modes.
LEMMA RepairInvariant ==
    ASSUME Repair!RepairAssumption PROVE Repair!Spec => []RepairInv
  <1>1. Repair!Init => RepairInv
    BY RepairInit
  <1>2. RepairInv /\ [Repair!Next]_(Repair!vars) => RepairInv'
    BY RepairStep
  <1> QED BY <1>1, <1>2, PTL DEF Repair!Spec

\* The modes keep the types of their tables, queues and bounds.
THEOREM RepairTypes ==
    ASSUME Repair!RepairAssumption PROVE Repair!Spec => []Repair!TypeOK
  <1>1. RepairInv => Repair!TypeOK
    BY DEF RepairInv
  <1> QED BY <1>1, RepairInvariant, PTL

-------------------------------------------------------------------------------
(* Jobs of the protocol events.                                            *)

\* What was routed has its protocol events' jobs, or the handler swallowed a failure.
HandledInv ==
    /\ published \subseteq protocolJobs \cup swallowed
    /\ \A m \in Repair!Indexing :
          pc[m] = "publish" => Repair!First(queue[m]) \subseteq protocolJobs \cup swallowed

\* Of two blocks of the chain one is lower.
LEMMA FirstIsOne ==
    ASSUME Repair!RepairAssumption, RepairInv, NEW m \in Repair!Indexing,
           NEW b \in Repair!First(queue[m])
    PROVE  /\ b \in SettledBlocks /\ b \in Blocks
           /\ Repair!First(queue[m]) = {b}
  <1>1. queue[m] \subseteq SettledBlocks
    BY DEF RepairInv, QueueInv
  <1>2. \A d \in SettledBlocks :
            d \in Blocks /\ Number[d] \in From .. To /\ d = BlockAt(Settled, Number[d])
    BY SettledAt DEF SettledBlocks
  <1>3. From \in Nat /\ To \in Nat
    BY DEF Repair!RepairAssumption
  <1>4. ASSUME NEW d \in Repair!First(queue[m]) PROVE d = b
    <2>1. b \in queue[m] /\ d \in queue[m] /\ Number[b] <= Number[d] /\ Number[d] <= Number[b]
      BY DEF Repair!First
    <2>2. Number[b] = Number[d]
      BY <1>1, <1>2, <1>3, <2>1
    <2> QED BY <1>1, <1>2, <2>1, <2>2
  <1> QED BY <1>1, <1>2, <1>4 DEF Repair!First

\* HandledInv is inductive.
LEMMA HandledStep ==
    ASSUME Repair!RepairAssumption, RepairInv, HandledInv, [Repair!Next]_(Repair!vars)
    PROVE  HandledInv'
  <1> USE DEF Repair!facts, Repair!handled, Repair!memory, Repair!bounds
  <1>0. /\ {"historical", "gap-repair", "reorg-reconciliation", "contract-replay"}
               = Repair!Modes
        /\ Repair!Indexing = {"historical", "gap-repair"}
        /\ Repair!TypeOK
        /\ protocolJobs \cup swallowed \subseteq protocolJobs' \cup swallowed'
    BY HistoryTypes DEF Repair!Indexing, Repair!Modes, RepairInv
  <1>1. ASSUME NEW m \in Repair!Indexing, Repair!Route(m) PROVE HandledInv'
    <2>1. PICK b \in Repair!First(queue[m]) : Repair!HandleEvents(b)
      BY <1>1 DEF Repair!Route
    <2>2. b \in protocolJobs' \cup swallowed' /\ Repair!First(queue[m]) = {b}
      BY <2>1, FirstIsOne DEF Repair!HandleEvents
    <2>3. /\ queue' = queue /\ published' = published
          /\ \A k \in Repair!Modes : k # m => pc'[k] = pc[k]
      BY <1>0, <1>1, GotoLine DEF Repair!Route, Repair!Lines
    <2>4. \A k \in Repair!Indexing : Repair!First(queue[k])' = Repair!First(queue[k])
      BY <2>3 DEF Repair!First
    <2> QED BY <1>0, <2>2, <2>3, <2>4 DEF HandledInv
  <1>2. ASSUME NEW m \in Repair!Indexing, Repair!Publish(m) PROVE HandledInv'
    <2>1. PICK b \in Repair!First(queue[m]) :
             /\ published' = published \cup {b}
             /\ queue' = [queue EXCEPT ![m] = queue[m] \ {b}]
      BY <1>2 DEF Repair!Publish
    <2>2. b \in protocolJobs' \cup swallowed'
      BY <1>0, <1>2 DEF Repair!Publish, HandledInv
    <2>3. /\ pc'[m] # "publish"
          /\ \A k \in Repair!Modes : k # m => pc'[k] = pc[k] /\ queue'[k] = queue[k]
      BY <1>0, <1>2, <2>1, GotoLine DEF Repair!Publish, Repair!Lines, Repair!TypeOK
    <2>4. ASSUME NEW k \in Repair!Indexing, k # m
          PROVE  Repair!First(queue[k])' = Repair!First(queue[k])
      BY <1>0, <2>3, <2>4 DEF Repair!First
    <2> QED BY <1>0, <2>1, <2>2, <2>3, <2>4 DEF HandledInv
  <1>3. ASSUME published' = published,
               \A m \in Repair!Indexing :
                  pc'[m] = "publish" => pc[m] = "publish" /\ queue'[m] = queue[m]
        PROVE  HandledInv'
    <2>1. \A m \in Repair!Indexing :
              queue'[m] = queue[m] => Repair!First(queue[m])' = Repair!First(queue[m])
      BY DEF Repair!First
    <2> QED BY <1>0, <1>3, <2>1 DEF HandledInv
  <1>4. ASSUME NEW m \in Repair!Indexing, Repair!Persist(m) PROVE HandledInv'
    BY <1>0, <1>3, <1>4, GotoLine DEF Repair!Persist, Repair!Lines
  <1>5. CASE Repair!StartBackfill \/ Repair!RetryBatch \/ Repair!EndBackfill
    BY <1>0, <1>3, <1>5, GotoLine
       DEF Repair!StartBackfill, Repair!RetryBatch, Repair!EndBackfill, Repair!Lines,
           Repair!TypeOK
  <1>6. CASE Repair!StartGapRepair \/ Repair!EndGapRepair
    BY <1>0, <1>3, <1>6, GotoLine DEF Repair!StartGapRepair, Repair!EndGapRepair, Repair!Lines
  <1>7. ASSUME NEW m \in Repair!Indexing, NEW from, NEW to, Repair!Fetched(m, from, to),
               published' = published
        PROVE  HandledInv'
    <2>1. /\ pc'[m] # "publish"
          /\ \A k \in Repair!Modes : k # m => pc'[k] = pc[k] /\ queue'[k] = queue[k]
      BY <1>0, <1>7, GotoLine DEF Repair!Fetched, Repair!Lines, Repair!TypeOK
    <2> QED BY <1>0, <1>3, <1>7, <2>1
  <1>8. CASE Repair!FetchBatch
    BY <1>0, <1>7, <1>8 DEF Repair!FetchBatch
  <1>9. CASE Repair!FetchGap
    BY <1>0, <1>7, <1>9 DEF Repair!FetchGap
  <1>10. CASE Repair!Reconcile
    BY <1>0, <1>3, <1>10, GotoLine
       DEF Repair!Reconcile, Repair!StartReconciliation, Repair!OrphanBlocks,
           Repair!OrphanLogs, Repair!OrphanProtocolFacts, Repair!Resolve, Repair!Lines
  <1>11. CASE Repair!Replay
    <2>1. CASE Repair!StartReplay
      BY <1>0, <1>3, <2>1, GotoLine DEF Repair!StartReplay, Repair!Lines, Repair!TypeOK
    <2>2. CASE Repair!ReplayLog
      BY <1>0, <1>3, <2>2, GotoLine DEF Repair!ReplayLog, Repair!Lines, Repair!TypeOK
    <2> QED BY <1>11, <2>1, <2>2 DEF Repair!Replay
  <1>12. ASSUME NEW m \in Repair!Modes, Repair!Die(m) PROVE HandledInv'
    BY <1>0, <1>3, <1>12, GotoLine DEF Repair!Die, Repair!Lines, Repair!TypeOK
  <1>13. CASE UNCHANGED Repair!vars
    BY <1>3, <1>13 DEF Repair!vars
  <1> QED
    BY <1>0, <1>1, <1>2, <1>4, <1>5, <1>6, <1>8, <1>9, <1>10, <1>11, <1>12, <1>13
    DEF Repair!Next, Repair!Backfill, Repair!GapRepair, Repair!IndexBlock

\* As long as no run dies, whatever the backfill and gap repair record, side by
\* side, over failed publishes and fetches with holes, has its discovery jobs enqueued
\* or still to be enqueued, or is a block the provider did not answer for; and it has
\* its protocol events' jobs with them, unless their handler swallowed a failure.
THEOREM RepairedBlocksHaveJobs ==
    ASSUME Repair!RepairAssumption PROVE Repair!Spec => []Repair!JobsForRecordedBlocks
  <1>1. Repair!Init => HandledInv
    BY DEF Repair!Init, HandledInv, Repair!Indexing, Repair!Modes
  <1>2. RepairInv /\ HandledInv /\ [Repair!Next]_(Repair!vars) => HandledInv'
    BY HandledStep
  <1>3. RepairInv /\ HandledInv => Repair!JobsForRecordedBlocks
    BY DEF RepairInv, DiscoveryJobs, HandledInv, Repair!JobsForRecordedBlocks
  <1> QED BY <1>1, <1>2, <1>3, RepairInvariant, PTL DEF Repair!Spec

-------------------------------------------------------------------------------
(* The abandoned fork, and the gaps.                                       *)

\* A mode's line and queue are its own: only its steps, and its death, move them.
LEMMA OtherModes ==
    ASSUME Repair!TypeOK, [Repair!Next]_(Repair!vars), NEW m \in Repair!Modes
    PROVE  \/ pc'[m] = pc[m] /\ queue'[m] = queue[m]
           \/ m = "historical" /\ Repair!Backfill
           \/ m = "gap-repair" /\ Repair!GapRepair
           \/ m = "reorg-reconciliation" /\ Repair!Reconcile
           \/ m = "contract-replay" /\ Repair!Replay
           \/ Repair!Die(m)
  <1> USE DEF Repair!facts, Repair!handled, Repair!memory, Repair!bounds
  <1>0. Repair!Modes = {"historical", "gap-repair", "reorg-reconciliation", "contract-replay"}
    BY DEF Repair!Modes
  <1>1. ASSUME NEW k \in {"historical", "gap-repair"}, k # m, Repair!IndexBlock(k)
        PROVE  pc'[m] = pc[m] /\ queue'[m] = queue[m]
    BY <1>0, <1>1 DEF Repair!IndexBlock, Repair!Persist, Repair!Route, Repair!Publish, Repair!Goto,
                      Repair!TypeOK
  <1>2. ASSUME NEW k \in {"historical", "gap-repair"}, NEW from, NEW to, k # m,
               Repair!Fetched(k, from, to)
        PROVE  pc'[m] = pc[m] /\ queue'[m] = queue[m]
    BY <1>0, <1>2 DEF Repair!Fetched, Repair!Goto, Repair!TypeOK
  <1>3. CASE Repair!Backfill /\ m # "historical"
    <2>1. CASE Repair!StartBackfill \/ Repair!RetryBatch \/ Repair!EndBackfill
      BY <1>0, <1>3, <2>1 DEF Repair!StartBackfill, Repair!RetryBatch, Repair!EndBackfill,
                              Repair!Goto, Repair!TypeOK
    <2>2. CASE Repair!FetchBatch
      BY <1>2, <1>3, <2>2 DEF Repair!FetchBatch
    <2> QED BY <1>1, <1>3, <2>1, <2>2 DEF Repair!Backfill
  <1>4. CASE Repair!GapRepair /\ m # "gap-repair"
    <2>1. CASE Repair!StartGapRepair \/ Repair!EndGapRepair
      BY <1>0, <1>4, <2>1 DEF Repair!StartGapRepair, Repair!EndGapRepair, Repair!Goto, Repair!TypeOK
    <2>2. CASE Repair!FetchGap
      BY <1>2, <1>4, <2>2 DEF Repair!FetchGap
    <2> QED BY <1>1, <1>4, <2>1, <2>2 DEF Repair!GapRepair
  <1>5. CASE Repair!Reconcile /\ m # "reorg-reconciliation"
    BY <1>0, <1>5 DEF Repair!Reconcile, Repair!StartReconciliation, Repair!OrphanBlocks,
           Repair!OrphanLogs, Repair!OrphanProtocolFacts, Repair!Resolve, Repair!Goto, Repair!TypeOK
  <1>6. CASE Repair!Replay /\ m # "contract-replay"
    <2>1. CASE Repair!StartReplay
      BY <1>0, <1>6, <2>1 DEF Repair!StartReplay, Repair!Goto, Repair!TypeOK
    <2>2. CASE Repair!ReplayLog
      BY <1>0, <1>6, <2>2 DEF Repair!ReplayLog, Repair!Goto, Repair!TypeOK
    <2> QED BY <1>6, <2>1, <2>2 DEF Repair!Replay
  <1>7. ASSUME NEW k \in Repair!Modes, k # m, Repair!Die(k)
        PROVE  pc'[m] = pc[m] /\ queue'[m] = queue[m]
    BY <1>7 DEF Repair!Die, Repair!Goto, Repair!TypeOK
  <1>8. CASE UNCHANGED Repair!vars
    BY <1>8 DEF Repair!vars
  <1> QED BY <1>3, <1>4, <1>5, <1>6, <1>7, <1>8 DEF Repair!Next

\* Who writes the rows of blocks and logs, who those of protocol facts, and who
\* resolves the event.
LEMMA Writers ==
    ASSUME [Repair!Next]_(Repair!vars)
    PROVE  /\ \/ blockRow' = blockRow /\ logRow' = logRow
              \/ Repair!OrphanBlocks \/ Repair!OrphanLogs
              \/ \E m \in Repair!Indexing : Repair!Persist(m)
           /\ \/ protocolRow' = protocolRow
              \/ Repair!OrphanProtocolFacts \/ Repair!ReplayLog
              \/ \E m \in Repair!Indexing : Repair!Route(m)
           /\ resolved' = resolved \/ Repair!Resolve
           /\ unanswered \subseteq unanswered'
  <1> USE DEF Repair!facts, Repair!handled, Repair!memory, Repair!bounds
  <1>0. "historical" \in Repair!Indexing /\ "gap-repair" \in Repair!Indexing
    BY DEF Repair!Indexing
  <1>1. ASSUME NEW m \in Repair!Indexing, Repair!IndexBlock(m)
        PROVE  /\ (blockRow' = blockRow /\ logRow' = logRow) \/ Repair!Persist(m)
               /\ protocolRow' = protocolRow \/ Repair!Route(m)
               /\ resolved' = resolved /\ unanswered' = unanswered
    BY <1>1 DEF Repair!IndexBlock, Repair!Persist, Repair!Route, Repair!Publish
  <1>2. CASE Repair!Backfill
    <2>1. CASE Repair!StartBackfill \/ Repair!RetryBatch \/ Repair!EndBackfill
      BY <2>1 DEF Repair!StartBackfill, Repair!RetryBatch, Repair!EndBackfill
    <2>2. CASE Repair!FetchBatch
      BY <2>2 DEF Repair!FetchBatch, Repair!Fetched
    <2> QED BY <1>0, <1>1, <1>2, <2>1, <2>2 DEF Repair!Backfill
  <1>3. CASE Repair!GapRepair
    <2>1. CASE Repair!StartGapRepair \/ Repair!EndGapRepair
      BY <2>1 DEF Repair!StartGapRepair, Repair!EndGapRepair
    <2>2. CASE Repair!FetchGap
      BY <2>2 DEF Repair!FetchGap, Repair!Fetched
    <2> QED BY <1>0, <1>1, <1>3, <2>1, <2>2 DEF Repair!GapRepair
  <1>4. CASE Repair!Reconcile
    BY <1>4 DEF Repair!Reconcile, Repair!StartReconciliation, Repair!OrphanBlocks,
           Repair!OrphanLogs, Repair!OrphanProtocolFacts, Repair!Resolve
  <1>5. CASE Repair!Replay
    BY <1>5 DEF Repair!Replay, Repair!StartReplay, Repair!ReplayLog
  <1>6. ASSUME NEW m \in Repair!Modes, Repair!Die(m)
        PROVE  UNCHANGED <<blockRow, logRow, protocolRow, resolved, unanswered>>
    BY <1>6 DEF Repair!Die
  <1>7. CASE UNCHANGED Repair!vars
    BY <1>7 DEF Repair!vars
  <1> QED BY <1>2, <1>3, <1>4, <1>5, <1>6, <1>7 DEF Repair!Next

\* handleReorg's steps, one after the other.
LEMMA ReconciliationAt ==
    ASSUME Repair!TypeOK, [Repair!Next]_(Repair!vars)
    PROVE  LET at == pc["reorg-reconciliation"] IN
           /\ at' = "logs" => at = "logs" \/ Repair!OrphanBlocks
           /\ at' = "protocol" => at = "protocol" \/ Repair!OrphanLogs
           /\ at' = "resolve" => at = "resolve" \/ Repair!OrphanProtocolFacts
           /\ at' = "down" \/ at' = at \/ ~resolved \/ at # "down"
           /\ Repair!Resolve => at' = "down"
  <1> DEFINE at == pc["reorg-reconciliation"]
  <1>0. "reorg-reconciliation" \in Repair!Modes
    BY DEF Repair!Modes
  <1>1. CASE Repair!Reconcile
    BY <1>0, <1>1, GotoLine
       DEF Repair!Reconcile, Repair!StartReconciliation, Repair!OrphanBlocks,
           Repair!OrphanLogs, Repair!OrphanProtocolFacts, Repair!Resolve, Repair!Lines
  <1>2. CASE Repair!Die("reorg-reconciliation")
    BY <1>0, <1>2, GotoLine DEF Repair!Die, Repair!Lines, Repair!Resolve
  <1>3. CASE at' = at
    BY <1>0, <1>3, GotoLine DEF Repair!Resolve, Repair!Lines
  <1> QED BY <1>0, <1>1, <1>2, <1>3, OtherModes

\* What orphaning the range of the event leaves canonical.
LEMMA OrphanEventRows ==
    ASSUME Repair!RepairAssumption, NEW S, NEW rows \in [Blocks -> S]
    PROVE  /\ Repair!CanonicalRows(Repair!OrphanEvent(rows)) \subseteq Repair!CanonicalRows(rows)
           /\ \A b \in Abandoned : b \notin Repair!CanonicalRows(Repair!OrphanEvent(rows))
           /\ \A b \in Blocks :
                 b \notin Repair!CanonicalRows(rows) \/ Number[b] <= Ancestor =>
                     Repair!OrphanEvent(rows)[b] = rows[b]
  <1> DEFINE new == Repair!OrphanEvent(rows)
  <1>1. /\ DOMAIN new = Blocks /\ DOMAIN rows = Blocks
        /\ \A b \in Blocks :
              new[b] = IF b \in Repair!CanonicalRows(rows)
                          /\ Repair!InRange(Number[b], Ancestor + 1, To)
                       THEN "orphaned" ELSE rows[b]
    BY DEF Repair!OrphanEvent, Repair!OrphanRange
  <1>2. \A b \in Abandoned : b \in Blocks /\ Repair!InRange(Number[b], Ancestor + 1, To)
    BY DEF Repair!RepairAssumption, Repair!InRange
  <1>3. \A b \in Blocks : Number[b] <= Ancestor => ~Repair!InRange(Number[b], Ancestor + 1, To)
    BY BlockAssumption DEF Repair!RepairAssumption, Repair!InRange
  <1> HIDE DEF new
  <1>4. Repair!CanonicalRows(new) \subseteq Repair!CanonicalRows(rows)
    BY <1>1 DEF Repair!CanonicalRows
  <1>5. ASSUME NEW b \in Abandoned PROVE b \notin Repair!CanonicalRows(new)
    BY <1>1, <1>2, <1>4 DEF Repair!CanonicalRows
  <1> QED BY <1>1, <1>3, <1>4, <1>5 DEF new

\* The fork's blocks are not the chain's.
LEMMA ForkIsOff ==
    ASSUME Repair!RepairAssumption, NEW b \in Abandoned
    PROVE  b \in Blocks /\ b \notin SettledBlocks
  <1>1. ASSUME NEW n \in From .. To, b = BlockAt(Settled, n) PROVE FALSE
    BY <1>1, SettledAt DEF Repair!RepairAssumption, Repair!BlockAt, BlockAt
  <1> QED BY <1>1 DEF SettledBlocks, Repair!RepairAssumption

\* What handleReorg has passed of the fork is gone; a replay begun after its last
\* step holds none of it.
ForkInv ==
    LET at == pc["reorg-reconciliation"]
        replay == "contract-replay"
    IN  /\ \A b \in Abandoned :
              /\ resolved \/ at \in {"logs", "protocol", "resolve"} =>
                     b \notin Repair!CanonicalRows(blockRow)
              /\ resolved \/ at \in {"protocol", "resolve"} =>
                     b \notin Repair!CanonicalRows(logRow)
              /\ (resolved \/ at = "resolve") /\ replay \notin early =>
                     b \notin Repair!CanonicalRows(protocolRow)
        /\ pc[replay] # "down" /\ replay \notin early =>
              resolved /\ queue[replay] \cap Abandoned = {}

\* Only a replay brings a fact of the fork back.
LEMMA ForkRows ==
    ASSUME Repair!RepairAssumption, RepairInv, [Repair!Next]_(Repair!vars), NEW b \in Abandoned
    PROVE  /\ b \in Repair!CanonicalRows(blockRow') => b \in Repair!CanonicalRows(blockRow)
           /\ b \in Repair!CanonicalRows(logRow') => b \in Repair!CanonicalRows(logRow)
           /\ b \in Repair!CanonicalRows(protocolRow') =>
                  \/ b \in Repair!CanonicalRows(protocolRow)
                  \/ pc["contract-replay"] # "down" /\ b \in queue["contract-replay"]
           /\ Repair!OrphanBlocks => b \notin Repair!CanonicalRows(blockRow')
           /\ Repair!OrphanLogs => b \notin Repair!CanonicalRows(logRow')
           /\ Repair!OrphanProtocolFacts => b \notin Repair!CanonicalRows(protocolRow')
  <1>1. /\ blockRow \in [Blocks -> Repair!BlockStatus] /\ logRow \in [Blocks -> Repair!FactStatus]
        /\ protocolRow \in [Blocks -> Repair!FactStatus]
        /\ Repair!TypeOK /\ b \in Blocks /\ b \notin SettledBlocks
    BY ForkIsOff DEF RepairInv, Repair!TypeOK
  <1>2. /\ Repair!OrphanBlocks => blockRow' = Repair!OrphanEvent(blockRow) /\ logRow' = logRow
        /\ Repair!OrphanLogs => logRow' = Repair!OrphanEvent(logRow) /\ blockRow' = blockRow
        /\ Repair!OrphanProtocolFacts => protocolRow' = Repair!OrphanEvent(protocolRow)
    BY DEF Repair!OrphanBlocks, Repair!OrphanLogs, Repair!OrphanProtocolFacts
  <1>3. ASSUME NEW m \in Repair!Indexing, Repair!Persist(m)
        PROVE  /\ b \in Repair!CanonicalRows(blockRow') => b \in Repair!CanonicalRows(blockRow)
               /\ b \in Repair!CanonicalRows(logRow') => b \in Repair!CanonicalRows(logRow)
    <2>1. PICK d \in Repair!First(queue[m]) :
             /\ blockRow' = Repair!InsertBlocks(blockRow, {d}, "finalized")
             /\ logRow' = Repair!InsertBlocks(logRow, {d}, "canonical")
      BY <1>3 DEF Repair!Persist
    <2>2. d # b
      BY <1>1, FirstIsOne
    <2> QED BY <1>1, <2>1, <2>2 DEF Repair!InsertBlocks, Repair!CanonicalRows
  <1>4. ASSUME NEW d \in Blocks, d # b, Repair!HandleEvents(d)
        PROVE  b \in Repair!CanonicalRows(protocolRow') => b \in Repair!CanonicalRows(protocolRow)
    BY <1>1, <1>4 DEF Repair!HandleEvents, Repair!UpsertCanonical, Repair!CanonicalRows
  <1>5. ASSUME NEW m \in Repair!Indexing, Repair!Route(m)
        PROVE  b \in Repair!CanonicalRows(protocolRow') => b \in Repair!CanonicalRows(protocolRow)
    <2>1. PICK d \in Repair!First(queue[m]) : Repair!HandleEvents(d)
      BY <1>5 DEF Repair!Route
    <2> QED BY <1>1, <1>4, <2>1, FirstIsOne
  <1>6. CASE Repair!ReplayLog
    <2>1. PICK d \in queue["contract-replay"] : d \in Blocks /\ Repair!HandleEvents(d)
      BY <1>1, <1>6 DEF Repair!ReplayLog, Repair!First, Repair!TypeOK, Repair!Modes
    <2>2. pc["contract-replay"] # "down" /\ blockRow' = blockRow /\ logRow' = logRow
      BY <1>6 DEF Repair!ReplayLog
    <2>3. b \in Repair!CanonicalRows(protocolRow') =>
              b \in Repair!CanonicalRows(protocolRow) \/ b \in queue["contract-replay"]
      BY <1>4, <2>1
    <2>4. ~Repair!OrphanProtocolFacts \/ b \notin Repair!CanonicalRows(protocolRow')
      BY <1>1, <1>2, OrphanEventRows
    <2> QED BY <1>1, <1>2, <2>2, <2>3, <2>4, OrphanEventRows
  <1>7. /\ b \in Repair!CanonicalRows(blockRow') => b \in Repair!CanonicalRows(blockRow)
        /\ b \in Repair!CanonicalRows(logRow') => b \in Repair!CanonicalRows(logRow)
    BY <1>1, <1>2, <1>3, Writers, OrphanEventRows
  <1>8. ~Repair!ReplayLog =>
            (b \in Repair!CanonicalRows(protocolRow') => b \in Repair!CanonicalRows(protocolRow))
    BY <1>1, <1>2, <1>5, Writers, OrphanEventRows
  <1>9. /\ Repair!OrphanBlocks => b \notin Repair!CanonicalRows(blockRow')
        /\ Repair!OrphanLogs => b \notin Repair!CanonicalRows(logRow')
        /\ Repair!OrphanProtocolFacts => b \notin Repair!CanonicalRows(protocolRow')
    BY <1>1, <1>2, OrphanEventRows
  <1> QED BY <1>6, <1>7, <1>8, <1>9

\* A replay at work was at work before, on no less, or was started, on logs that were
\* canonical then.
LEMMA ReplayAt ==
    ASSUME Repair!TypeOK, [Repair!Next]_(Repair!vars), pc'["contract-replay"] # "down"
    PROVE  \/ /\ pc["contract-replay"] # "down"
              /\ queue'["contract-replay"] \subseteq queue["contract-replay"]
           \/ /\ queue'["contract-replay"] \subseteq Repair!CanonicalRows(logRow)
              /\ resolved \/ "contract-replay" \in early'
              /\ UNCHANGED resolved
  <1> DEFINE replay == "contract-replay"
  <1>0. replay \in Repair!Modes
    BY DEF Repair!Modes
  <1>1. CASE Repair!StartReplay
    <2>1. queue'[replay] \subseteq Repair!CanonicalRows(logRow)
      BY <1>0, <1>1 DEF Repair!StartReplay, Repair!CanonicalLogs, Repair!TypeOK
    <2>2. resolved \/ replay \in early'
      BY <1>1 DEF Repair!StartReplay, Repair!Starts
    <2> QED BY <1>1, <2>1, <2>2 DEF Repair!StartReplay
  <1>2. CASE Repair!ReplayLog
    BY <1>0, <1>2 DEF Repair!ReplayLog, Repair!TypeOK
  <1>3. CASE Repair!Die(replay)
    BY <1>0, <1>3, GotoLine DEF Repair!Die, Repair!Lines
  <1>4. CASE pc'[replay] = pc[replay] /\ queue'[replay] = queue[replay]
    BY <1>4
  <1> QED BY <1>0, <1>1, <1>2, <1>3, <1>4, OtherModes DEF Repair!Replay

\* ForkInv is inductive.
LEMMA ForkStep ==
    ASSUME Repair!RepairAssumption, RepairInv, ForkInv, [Repair!Next]_(Repair!vars)
    PROVE  ForkInv'
  <1> DEFINE at == pc["reorg-reconciliation"]
             replay == "contract-replay"
  <1>0. Repair!TypeOK /\ early \subseteq early'
    BY HistoryTypes DEF RepairInv
  <1>1. /\ resolved' => resolved \/ at = "resolve"
        /\ resolved => resolved'
    <2>1. CASE resolved' = resolved
      BY <2>1
    <2>2. CASE Repair!Resolve
      <3>1. resolved' = TRUE /\ at = "resolve"
        BY <2>2 DEF Repair!Resolve
      <3> QED BY <3>1
    <2> QED BY <2>1, <2>2, Writers
  <1>2. ASSUME NEW b \in Abandoned, resolved' \/ at' \in {"logs", "protocol", "resolve"}
        PROVE  b \notin Repair!CanonicalRows(blockRow')
    <2>1. \/ resolved \/ at \in {"logs", "protocol", "resolve"}
          \/ Repair!OrphanBlocks \/ Repair!OrphanLogs \/ Repair!OrphanProtocolFacts
      BY <1>0, <1>1, <1>2, ReconciliationAt
    <2>2. Repair!OrphanLogs => at = "logs"
      BY DEF Repair!OrphanLogs
    <2>3. Repair!OrphanProtocolFacts => at = "protocol"
      BY DEF Repair!OrphanProtocolFacts
    <2> QED BY <2>1, <2>2, <2>3, ForkRows DEF ForkInv
  <1>3. ASSUME NEW b \in Abandoned, resolved' \/ at' \in {"protocol", "resolve"}
        PROVE  b \notin Repair!CanonicalRows(logRow')
    <2>1. \/ resolved \/ at \in {"protocol", "resolve"}
          \/ Repair!OrphanLogs \/ Repair!OrphanProtocolFacts
      BY <1>0, <1>1, <1>3, ReconciliationAt
    <2>2. Repair!OrphanProtocolFacts => at = "protocol"
      BY DEF Repair!OrphanProtocolFacts
    <2> QED BY <2>1, <2>2, ForkRows DEF ForkInv
  <1>4. ASSUME NEW b \in Abandoned, resolved' \/ at' = "resolve", replay \notin early'
        PROVE  b \notin Repair!CanonicalRows(protocolRow')
    <2>1. resolved \/ at = "resolve" \/ Repair!OrphanProtocolFacts
      BY <1>0, <1>1, <1>4, ReconciliationAt
    <2>2. replay \notin early
      BY <1>0, <1>4
    <2>3. ~(pc[replay] # "down" /\ b \in queue[replay])
      BY <2>2 DEF ForkInv
    <2> QED BY <2>1, <2>2, <2>3, ForkRows DEF ForkInv
  <1>5. ASSUME pc'[replay] # "down", replay \notin early'
        PROVE  resolved' /\ queue'[replay] \cap Abandoned = {}
    <2>1. replay \notin early
      BY <1>0, <1>5
    <2>2. CASE pc[replay] # "down" /\ queue'[replay] \subseteq queue[replay]
      BY <1>1, <2>1, <2>2 DEF ForkInv
    <2>3. CASE /\ queue'[replay] \subseteq Repair!CanonicalRows(logRow)
               /\ resolved \/ replay \in early'
      BY <1>1, <1>5, <2>3 DEF ForkInv
    <2> QED BY <1>0, <1>5, <2>2, <2>3, ReplayAt
  <1> QED BY <1>2, <1>3, <1>4, <1>5 DEF ForkInv

\* Once its event is resolved the abandoned fork is canonical in no table and does
\* not come back, whatever modes run beside handleReorg or after it, fail or die; but
\* for protocol facts, if a replay was started before.
THEOREM AbandonedForkStaysGone ==
    ASSUME Repair!RepairAssumption PROVE Repair!Spec => []Repair!AbandonedForkIsGone
  <1>1. Repair!Init => ForkInv
    BY DEF Repair!Init, ForkInv, Repair!Modes
  <1>2. RepairInv /\ ForkInv /\ [Repair!Next]_(Repair!vars) => ForkInv'
    BY ForkStep
  <1>3. ForkInv => Repair!AbandonedForkIsGone
    BY DEF ForkInv, Repair!AbandonedForkIsGone
  <1> QED BY <1>1, <1>2, <1>3, RepairInvariant, PTL DEF Repair!Spec
\* Every missing height is in a range the scan finds.
LEMMA RangesCover ==
    ASSUME Repair!RepairAssumption, NEW n \in From .. To, Repair!Missing(n)
    PROVE  \E g \in Repair!MissingRanges : Repair!InRange(n, g.from, g.to)
  <1> DEFINE Below == {k \in From .. n : \A i \in k .. n : Repair!Missing(i)}
             After == {d \in Nat : n + d + 1 > To \/ ~Repair!Missing(n + d + 1)}
  <1>0. From \in Nat /\ To \in Nat /\ n \in Nat /\ From <= n /\ n <= To
    BY DEF Repair!RepairAssumption
  <1> HIDE DEF Repair!Missing
  <1>1. PICK lo \in Below : \A k \in Below : lo <= k
    <2>1. n \in Below
      BY <1>0
    <2>2. Below \in SUBSET Nat
      BY <1>0
    <2> QED BY <2>1, <2>2, LeastNat
  <1>2. PICK d \in After : \A k \in After : d <= k
    <2>1. To - n \in After
      BY <1>0
    <2> QED BY <2>1, LeastNat
  <1>3. lo = From \/ ~Repair!Missing(lo - 1)
    <2> SUFFICES ASSUME lo # From, Repair!Missing(lo - 1) PROVE FALSE
      OBVIOUS
    <2>1. lo - 1 \in Below
      BY <1>0, <1>1
    <2> QED BY <1>0, <1>1, <2>1
  <1>4. n + d <= To
    <2>1. CASE d = 0
      BY <1>0, <2>1
    <2>2. CASE d # 0
      <3>1. d - 1 \in Nat /\ d - 1 \notin After
        BY <1>2, <2>2
      <3>2. ~(n + (d - 1) + 1 > To)
        BY <3>1
      <3> QED BY <1>0, <1>2, <3>1, <3>2
    <2> QED BY <2>1, <2>2
  <1>5. ASSUME NEW i \in n .. n + d PROVE Repair!Missing(i)
    <2>1. CASE i = n
      BY <2>1
    <2>2. CASE i # n
      <3>1. PICK k \in Nat : k < d /\ i = n + k + 1
        <4>1. i - n - 1 \in Nat /\ i - n - 1 < d /\ i = n + (i - n - 1) + 1
          BY <1>0, <1>2, <2>2
        <4> QED BY <4>1
      <3>2. k \notin After
        BY <1>2, <3>1
      <3> QED BY <3>1, <3>2
    <2> QED BY <2>1, <2>2
  <1>6. n + d = To \/ ~Repair!Missing(n + d + 1)
    BY <1>0, <1>2, <1>4
  <1>7. \A i \in lo .. n + d : Repair!Missing(i)
    BY <1>0, <1>1, <1>2, <1>5
  <1> DEFINE g == [from |-> lo, to |-> n + d]
  <1>8. g \in Repair!MissingRanges
    BY <1>0, <1>1, <1>2, <1>3, <1>4, <1>6, <1>7 DEF Repair!MissingRanges, Repair!Gap
  <1>9. Repair!InRange(n, g.from, g.to)
    BY <1>0, <1>1, <1>2 DEF Repair!InRange
  <1> QED BY <1>8, <1>9

\* As long as nothing indexed the range before its event was resolved: handleReorg
\* finds no block of the chain to orphan, so what gap repair has inserted, or found,
\* stays canonical.
FillInv ==
    early \cap Repair!Indexing = {} =>
        /\ ~resolved =>
              /\ pc["historical"] = "down" /\ pc["gap-repair"] = "down"
              /\ \A b \in SettledBlocks : Number[b] > Ancestor => blockRow[b] = "absent"
        /\ resolved => pc["reorg-reconciliation"] = "down"
        /\ \A b \in SettledBlocks : blockRow[b] # "orphaned"
        /\ pc["gap-repair"] \in {"route", "publish"} =>
              Repair!First(queue["gap-repair"]) \subseteq Repair!CanonicalRows(blockRow)
        /\ Repair!GapsAreFilled

\* The gaps are gap repair's own.
LEMMA OtherGaps ==
    ASSUME [Repair!Next]_(Repair!vars)
    PROVE  gaps' = gaps \/ Repair!GapRepair \/ Repair!Die("gap-repair")
  <1> USE DEF Repair!facts, Repair!handled, Repair!memory, Repair!bounds
  <1>1. CASE Repair!Backfill
    BY <1>1 DEF Repair!Backfill, Repair!StartBackfill, Repair!FetchBatch, Repair!IndexBlock,
           Repair!Persist, Repair!Route, Repair!Publish, Repair!RetryBatch, Repair!EndBackfill
  <1>2. CASE Repair!Reconcile \/ Repair!Replay
    BY <1>2 DEF Repair!Reconcile, Repair!StartReconciliation, Repair!OrphanBlocks,
           Repair!OrphanLogs, Repair!OrphanProtocolFacts, Repair!Resolve, Repair!Replay,
           Repair!StartReplay, Repair!ReplayLog
  <1>3. ASSUME NEW m \in Repair!Modes, Repair!Die(m), m # "gap-repair" PROVE gaps' = gaps
    BY <1>3 DEF Repair!Die
  <1>4. CASE UNCHANGED Repair!vars
    BY <1>4 DEF Repair!vars
  <1> QED BY <1>1, <1>2, <1>3, <1>4 DEF Repair!Next

\* The chain's rows under a step: none is orphaned, and none is written before the
\* event is resolved.
LEMMA SettledRows ==
    ASSUME Repair!RepairAssumption, RepairInv, FillInv, [Repair!Next]_(Repair!vars),
           early \cap Repair!Indexing = {}
    PROVE  /\ \A b \in SettledBlocks : blockRow'[b] # "orphaned"
           /\ ~resolved => \A b \in SettledBlocks : Number[b] > Ancestor => blockRow'[b] = "absent"
           /\ resolved => Repair!CanonicalRows(blockRow) \subseteq Repair!CanonicalRows(blockRow')
  <1>0. /\ Repair!TypeOK /\ blockRow \in [Blocks -> Repair!BlockStatus]
        /\ Repair!Indexing = {"historical", "gap-repair"}
    BY DEF RepairInv, Repair!TypeOK, Repair!Indexing
  <1>1. \A b \in SettledBlocks : b \in Blocks /\ Number[b] \in Nat
    BY SettledAt, BlockAssumption DEF SettledBlocks
  <1>2. CASE blockRow' = blockRow
    BY <1>2 DEF FillInv
  <1>3. CASE Repair!OrphanBlocks
    <2>1. blockRow' = Repair!OrphanEvent(blockRow) /\ ~resolved
      BY <1>3 DEF Repair!OrphanBlocks, FillInv
    <2>2. ASSUME NEW b \in SettledBlocks
          PROVE  b \notin Repair!CanonicalRows(blockRow) \/ Number[b] <= Ancestor
      <3>1. Number[b] > Ancestor => blockRow[b] = "absent"
        BY <2>1 DEF FillInv
      <3>2. Ancestor \in Nat /\ Number[b] \in Nat
        BY <1>1 DEF Repair!RepairAssumption
      <3> QED BY <3>1, <3>2 DEF Repair!CanonicalRows
    <2>3. \A b \in SettledBlocks : blockRow'[b] = blockRow[b]
      BY <1>0, <1>1, <2>1, <2>2, OrphanEventRows
    <2> QED BY <2>1, <2>3 DEF FillInv
  <1>4. CASE Repair!OrphanLogs
    BY <1>2, <1>4 DEF Repair!OrphanLogs
  <1>5. ASSUME NEW m \in Repair!Indexing, Repair!Persist(m)
        PROVE  /\ resolved
               /\ \A b \in SettledBlocks : blockRow'[b] # "orphaned"
               /\ Repair!CanonicalRows(blockRow) \subseteq Repair!CanonicalRows(blockRow')
    <2>1. resolved
      BY <1>0, <1>5 DEF Repair!Persist, FillInv
    <2>2. PICK d : blockRow' = Repair!InsertBlocks(blockRow, {d}, "finalized")
      BY <1>5 DEF Repair!Persist
    <2>3. \A b \in SettledBlocks : blockRow'[b] # "orphaned"
      BY <1>1, <2>2 DEF FillInv, Repair!InsertBlocks
    <2>4. Repair!CanonicalRows(blockRow) \subseteq Repair!CanonicalRows(blockRow')
      BY <1>0, <2>2 DEF Repair!InsertBlocks, Repair!CanonicalRows
    <2> QED BY <2>1, <2>3, <2>4
  <1> QED BY <1>2, <1>3, <1>4, <1>5, Writers

\* Gap repair's own steps: what it holds, and what it has put in.
LEMMA FillGapRepair ==
    ASSUME Repair!RepairAssumption, RepairInv, FillInv, [Repair!Next]_(Repair!vars),
           early \cap Repair!Indexing = {}, resolved, Repair!GapRepair
    PROVE  /\ pc'["gap-repair"] \in {"route", "publish"} =>
                 Repair!First(queue'["gap-repair"]) \subseteq Repair!CanonicalRows(blockRow')
           /\ Repair!GapsAreFilled'
  <1> USE DEF Repair!facts, Repair!handled, Repair!memory, Repair!bounds
  <1> DEFINE gap == "gap-repair"
             Held(n) == \/ \E g \in gaps : Repair!InRange(n, g.from, g.to)
                        \/ BlockAt(Settled, n) \in queue[gap] \cup unanswered
  <1>0. /\ gap \in Repair!Modes /\ gap \in Repair!Indexing /\ Repair!TypeOK
        /\ blockRow \in [Blocks -> Repair!BlockStatus]
    BY DEF RepairInv, Repair!TypeOK, Repair!Indexing, Repair!Modes
  <1>1. ASSUME NEW n \in From .. To, Repair!Missing(n)' PROVE Repair!Missing(n)
    BY <1>1, SettledRows DEF Repair!Missing, Repair!CanonicalAt
  <1>2. ASSUME pc[gap] # "down", NEW n \in From .. To, Repair!Missing(n)' PROVE Held(n)
    BY <1>1, <1>2 DEF FillInv, Repair!GapsAreFilled, Repair!BlockAt, BlockAt
  <1>3. CASE Repair!StartGapRepair
    <2>1. pc'[gap] = "next" /\ gaps' = Repair!MissingRanges
      BY <1>0, <1>3, GotoLine DEF Repair!StartGapRepair, Repair!Lines
    <2>2. \A n \in From .. To : Repair!Missing(n)' =>
              \E g \in gaps' : Repair!InRange(n, g.from, g.to)
      BY <1>1, <2>1, RangesCover
    <2> QED BY <2>1, <2>2 DEF Repair!GapsAreFilled
  <1>4. CASE Repair!FetchGap
    <2>1. PICK g \in gaps : Repair!Fetched(gap, g.from, g.to) /\ gaps' = gaps \ {g}
      BY <1>4 DEF Repair!FetchGap
    <2>2. g.from \in From .. To /\ g.to \in From .. To
      BY <1>0 DEF Repair!TypeOK, Repair!Gap
    <2>3. /\ unanswered \subseteq unanswered'
          /\ \A n \in g.from .. g.to : BlockAt(Settled, n) \in queue'[gap] \cup unanswered'
          /\ Repair!Goto(gap, IF queue'[gap] = {} THEN "next" ELSE "persist")
      BY <1>0, <2>1, <2>2, FetchedRange
    <2>4. pc[gap] = "next" /\ queue[gap] = {} /\ pc'[gap] \in {"next", "persist"}
      BY <1>0, <1>4, <2>3, GotoLine DEF Repair!FetchGap, Repair!Lines, RepairInv, QueueInv
    <2>5. ASSUME NEW n \in From .. To, Repair!Missing(n)' PROVE Held(n)'
      <3>1. Held(n)
        BY <1>2, <2>4, <2>5
      <3>2. CASE \E k \in gaps : k # g /\ Repair!InRange(n, k.from, k.to)
        BY <2>1, <3>2
      <3>3. CASE Repair!InRange(n, g.from, g.to)
        <4>1. n \in g.from .. g.to
          BY <2>2, <3>3 DEF Repair!InRange, Repair!RepairAssumption
        <4> QED BY <2>3, <4>1
      <3>4. CASE BlockAt(Settled, n) \in unanswered
        BY <2>3, <3>4
      <3> QED BY <2>4, <3>1, <3>2, <3>3, <3>4
    <2> QED BY <2>4, <2>5 DEF Repair!GapsAreFilled, Repair!BlockAt, BlockAt
  <1>5. CASE Repair!Persist(gap)
    <2>1. PICK b \in Repair!First(queue[gap]) :
             blockRow' = Repair!InsertBlocks(blockRow, {b}, "finalized")
      BY <1>5 DEF Repair!Persist
    <2>2. b \in SettledBlocks /\ b \in Blocks /\ Repair!First(queue[gap]) = {b}
      BY <1>0, FirstIsOne
    <2>3. blockRow[b] # "orphaned"
      BY <2>2 DEF FillInv
    <2>4. b \in Repair!CanonicalRows(blockRow')
      BY <1>0, <2>1, <2>2, <2>3
         DEF Repair!InsertBlocks, Repair!CanonicalRows, Repair!BlockStatus
    <2>5. pc[gap] # "down" /\ queue' = queue /\ gaps' = gaps /\ unanswered' = unanswered
      BY <1>5 DEF Repair!Persist
    <2>6. Repair!GapsAreFilled'
      BY <1>2, <2>5 DEF Repair!GapsAreFilled, Repair!BlockAt, BlockAt
    <2> QED BY <2>2, <2>4, <2>5, <2>6
  <1>6. CASE Repair!Route(gap)
    <2>1. /\ pc[gap] = "route" /\ queue' = queue /\ gaps' = gaps /\ unanswered' = unanswered
          /\ blockRow' = blockRow
      BY <1>6 DEF Repair!Route
    <2>2. Repair!GapsAreFilled'
      BY <1>2, <2>1 DEF Repair!GapsAreFilled, Repair!BlockAt, BlockAt
    <2> QED BY <2>1, <2>2 DEF FillInv
  <1>7. CASE Repair!Publish(gap)
    <2>1. PICK b \in Repair!First(queue[gap]) : queue' = [queue EXCEPT ![gap] = queue[gap] \ {b}]
      BY <1>7 DEF Repair!Publish
    <2>2. /\ queue'[gap] = queue[gap] \ {b} /\ pc[gap] = "publish"
          /\ pc'[gap] \in {"next", "persist"}
          /\ gaps' = gaps /\ unanswered' = unanswered /\ blockRow' = blockRow
      BY <1>0, <1>7, <2>1, GotoLine DEF Repair!Publish, Repair!Lines, Repair!TypeOK
    <2>3. b \in Repair!CanonicalRows(blockRow)
      BY <2>2 DEF FillInv
    <2>4. ASSUME NEW n \in From .. To, Repair!Missing(n)' PROVE Held(n)'
      <3>1. Held(n)
        BY <1>2, <2>2, <2>4
      <3>2. BlockAt(Settled, n) # b
        BY <1>1, <2>3, <2>4, SettledAt DEF Repair!Missing, Repair!CanonicalAt
      <3> QED BY <2>2, <3>1, <3>2
    <2> QED BY <2>2, <2>4 DEF Repair!GapsAreFilled, Repair!BlockAt, BlockAt
  <1>8. CASE Repair!EndGapRepair
    <2>1. pc'[gap] = "down"
      BY <1>0, <1>8, GotoLine DEF Repair!EndGapRepair, Repair!Lines
    <2> QED BY <2>1 DEF Repair!GapsAreFilled
  <1> QED BY <1>3, <1>4, <1>5, <1>6, <1>7, <1>8 DEF Repair!GapRepair, Repair!IndexBlock
\* FillInv is inductive.
LEMMA FillStep ==
    ASSUME Repair!RepairAssumption, RepairInv, FillInv, [Repair!Next]_(Repair!vars)
    PROVE  FillInv'
  <1> DEFINE gap == "gap-repair"
             at == pc["reorg-reconciliation"]
  <1> SUFFICES ASSUME (early \cap Repair!Indexing = {})'
               PROVE  /\ ~resolved' =>
                            /\ pc'["historical"] = "down" /\ pc'[gap] = "down"
                            /\ \A b \in SettledBlocks :
                                  Number[b] > Ancestor => blockRow'[b] = "absent"
                      /\ resolved' => at' = "down"
                      /\ \A b \in SettledBlocks : blockRow'[b] # "orphaned"
                      /\ pc'[gap] \in {"route", "publish"} =>
                            Repair!First(queue'[gap]) \subseteq Repair!CanonicalRows(blockRow')
                      /\ Repair!GapsAreFilled'
    BY DEF FillInv, Repair!First, Repair!CanonicalRows
  <1>0. /\ Repair!TypeOK /\ early \cap Repair!Indexing = {}
        /\ Repair!Modes = {"historical", "gap-repair", "reorg-reconciliation", "contract-replay"}
        /\ Repair!Indexing = {"historical", "gap-repair"}
    BY HistoryTypes DEF RepairInv, Repair!Indexing, Repair!Modes
  <1>1. /\ \A b \in SettledBlocks : blockRow'[b] # "orphaned"
        /\ ~resolved => \A b \in SettledBlocks : Number[b] > Ancestor => blockRow'[b] = "absent"
        /\ resolved => Repair!CanonicalRows(blockRow) \subseteq Repair!CanonicalRows(blockRow')
    BY <1>0, SettledRows
  <1>2. resolved' = resolved \/ (Repair!Resolve /\ resolved' /\ ~resolved)
    <2>1. CASE Repair!Resolve
      <3>1. at = "resolve" /\ resolved' = TRUE
        BY <2>1 DEF Repair!Resolve
      <3>2. ~resolved
        BY <1>0, <3>1 DEF FillInv
      <3> QED BY <2>1, <3>1, <3>2
    <2> QED BY <2>1, Writers
  <1>3. resolved' => at' = "down"
    <2>1. CASE Repair!Resolve
      BY <1>0, <2>1, ReconciliationAt
    <2>2. CASE resolved' = resolved
      BY <1>0, <2>2, ReconciliationAt DEF FillInv
    <2> QED BY <1>2, <2>1, <2>2
  <1>4. ASSUME NEW m \in Repair!Indexing, ~resolved PROVE pc'[m] = "down"
    <2>1. pc[m] = "down"
      BY <1>0, <1>4 DEF FillInv
    <2>2. ~Repair!Starts(m)
      BY <1>0, <1>4 DEF Repair!Starts
    <2>3. CASE m = "historical" /\ Repair!Backfill
      BY <2>1, <2>2, <2>3
         DEF Repair!Backfill, Repair!StartBackfill, Repair!FetchBatch, Repair!IndexBlock,
             Repair!Persist, Repair!Route, Repair!Publish, Repair!RetryBatch, Repair!EndBackfill
    <2>4. CASE m = gap /\ Repair!GapRepair
      BY <2>1, <2>2, <2>4
         DEF Repair!GapRepair, Repair!StartGapRepair, Repair!FetchGap, Repair!IndexBlock,
             Repair!Persist, Repair!Route, Repair!Publish, Repair!EndGapRepair
    <2>5. ~Repair!Die(m)
      BY <2>1 DEF Repair!Die
    <2> QED BY <1>0, <2>1, <2>3, <2>4, <2>5, OtherModes
  <1>5. ASSUME ~resolved'
        PROVE  /\ pc'["historical"] = "down" /\ pc'[gap] = "down"
               /\ \A b \in SettledBlocks : Number[b] > Ancestor => blockRow'[b] = "absent"
    BY <1>0, <1>1, <1>2, <1>4, <1>5
  <1>6. ASSUME pc'[gap] # "down"
        PROVE  /\ pc'[gap] \in {"route", "publish"} =>
                     Repair!First(queue'[gap]) \subseteq Repair!CanonicalRows(blockRow')
               /\ Repair!GapsAreFilled'
    <2>1. resolved
      BY <1>0, <1>4, <1>6
    <2>2. CASE Repair!GapRepair
      BY <1>0, <2>1, <2>2, FillGapRepair
    <2>3. CASE Repair!Die(gap)
      BY <1>0, <1>6, <2>3, GotoLine DEF Repair!Die, Repair!Lines
    <2>4. CASE pc'[gap] = pc[gap] /\ queue'[gap] = queue[gap] /\ gaps' = gaps
      <3>1. ASSUME NEW n \in From .. To, Repair!Missing(n)' PROVE Repair!Missing(n)
        BY <1>1, <2>1, <3>1 DEF Repair!Missing, Repair!CanonicalAt
      <3>2. unanswered \subseteq unanswered'
        BY Writers
      <3>3. Repair!GapsAreFilled'
        BY <1>0, <1>6, <2>4, <3>1, <3>2 DEF FillInv, Repair!GapsAreFilled
      <3> QED BY <1>0, <1>1, <2>1, <2>4, <3>3 DEF FillInv
    <2> QED BY <1>0, <2>2, <2>3, <2>4, OtherModes, OtherGaps
  <1>7. CASE pc'[gap] = "down"
    BY <1>1, <1>3, <1>5, <1>7 DEF Repair!GapsAreFilled
  <1> QED BY <1>1, <1>3, <1>5, <1>6, <1>7

\* A gap repair leaves no height missing but those it still has before it and those
\* the provider did not answer for, whatever a backfill and a replay do beside it,
\* unless a mode indexed the range before its reorg event was resolved.
THEOREM GapsAreRepaired ==
    ASSUME Repair!RepairAssumption PROVE Repair!Spec => []Repair!GapsAreFilled
  <1>1. Repair!Init => FillInv
    <2> SUFFICES ASSUME Repair!Init PROVE FillInv
      OBVIOUS
    <2>1. /\ resolved = FALSE /\ \A m \in Repair!Modes : pc[m] = "down"
      BY DEF Repair!Init
    <2>2. \A m \in Repair!Indexing : pc[m] = "down"
      BY <2>1 DEF Repair!Indexing, Repair!Modes
    <2>3. Repair!GapsAreFilled
      BY <2>2 DEF Repair!GapsAreFilled, Repair!Indexing
    <2>4. ASSUME NEW b \in SettledBlocks
          PROVE  /\ blockRow[b] # "orphaned"
                 /\ Number[b] > Ancestor => blockRow[b] = "absent"
      <3>1. PICK holes : blockRow[b] = IF b \in Repair!Common \ holes THEN "finalized" ELSE "absent"
        <4>1. b \in Blocks /\ b \notin Abandoned
          BY ForkIsOff, SettledAt DEF SettledBlocks
        <4> QED BY <4>1 DEF Repair!Init
      <3>2. ASSUME NEW n \in From .. Ancestor, b = BlockAt(Settled, n) PROVE ~(Number[b] > Ancestor)
        <4>1. n \in From .. To /\ n <= Ancestor
          BY DEF Repair!RepairAssumption
        <4> QED BY <3>2, <4>1, SettledAt DEF Repair!RepairAssumption
      <3>3. b \in Repair!Common => ~(Number[b] > Ancestor)
        BY <3>2 DEF Repair!Common, Repair!BlockAt, BlockAt
      <3> QED BY <3>1, <3>3
    <2> QED BY <2>1, <2>2, <2>3, <2>4 DEF FillInv, Repair!Indexing
  <1>2. RepairInv /\ FillInv /\ [Repair!Next]_(Repair!vars) => FillInv'
    BY FillStep
  <1>3. FillInv => Repair!GapsAreFilled
    BY DEF FillInv, Repair!GapsAreFilled
  <1> QED BY <1>1, <1>2, <1>3, RepairInvariant, PTL DEF Repair!Spec
===============================================================================
