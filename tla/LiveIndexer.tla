------------------------------ MODULE LiveIndexer -----------------------------
(***************************************************************************)
(* The live mode of apps/indexer: one process that follows a chain which   *)
(* may reorganise under it, records blocks, transactions, logs and         *)
(* protocol facts, moves a checkpoint and publishes derived jobs.  Every   *)
(* await of runLiveMode is a step of its own, so the chain, a failure or   *)
(* a crash may come in between.                                            *)
(***************************************************************************)
EXTENDS ChainFacts

CONSTANTS
    StartBlock,             \* config.startBlock
    BatchSize,              \* config.batchSize
    FinalityConfirmations,  \* config.finalityConfirmations
    MaxReorgDepth,          \* deepest reorg the chain makes
    MaxReorgs,              \* bound: how many reorgs
    MaxCrashes,             \* bound: how many crashes
    MaxFailures,            \* bound: how many awaits that throw or come back empty
    MaxSwallowed            \* bound: how many blocks the protocol handler fails for

ASSUME ConfigAssumption ==
    /\ StartBlock \in Nat
    /\ BatchSize \in Nat \ {0}
    /\ FinalityConfirmations \in Nat
    /\ MaxReorgDepth \in Nat
    /\ MaxReorgs \in Nat
    /\ MaxCrashes \in Nat
    /\ MaxFailures \in Nat
    /\ MaxSwallowed \in Nat

VARIABLES
    \* the world
    chain,          \* the chain the providers report
    reorgs,         \* how often it was reorganised
    \* PostgreSQL
    blockRow, txRow, logRow, protocolRow,
    checkpoint,     \* indexer_checkpoints of the stream, or NoCheckpoint
    reorgEvents,    \* reorg_events, in the order of their identity
    \* Redis
    published,      \* blocks whose discovery jobs were enqueued
    protocolJobs,   \* blocks whose protocol events' jobs were enqueued
    \* the process
    pc,             \* the await the process is at
    cur, last,      \* currentBlock, lastBlockHash
    latest,         \* latestBlock of this iteration
    batch,          \* the block, or window of blocks, being indexed
    finality,       \* finalityState of this iteration
    probe,          \* findCommonAncestor's currentBlock
    stage,          \* the next table handleReorg marks
    \* history: blocks a protocol handler caught and logged a failure for
    swallowed,
    \* bounds
    crashes, failures

world == <<chain, reorgs>>
handled == <<protocolJobs, swallowed>>
facts == <<blockRow, txRow, logRow, protocolRow, handled>>
progress == <<checkpoint, reorgEvents, published>>
memory == <<cur, last, latest, batch, finality, probe, stage>>
budget == <<crashes, failures>>
vars == <<world, facts, progress, pc, memory, budget>>

NoCheckpoint == [next |-> -1, hash |-> NoHash]

Checkpoints == [next : Nat \cup {-1}, hash : Blocks \cup {NoHash}]

ReorgEvent == [from : Nat, to : Int, ancestor : Nat, resolved : BOOLEAN]

\* The tables in the order handleReorg marks them.  Transfers, wallet
\* projections and prices are written by the worker and hold no row here.
\* Bug: one table is left out.
LogsForgotten ==
    <<"blocks", "transactions", "tokenTransfers", "walletProjections", "protocol",
      "pricing">>

ReorgTables ==
    <<"blocks", "transactions", "logs", "tokenTransfers", "walletProjections",
      "protocol", "pricing">>

Lines ==
    {"down", "top", "drain", "persistWindow", "routeWindow", "publishWindow",
     "saveWindow", "fetch", "ancestor", "orphan", "resolve", "finality",
     "persist", "save", "route", "publish"}

TypeOK ==
    /\ chain \in Chains
    /\ reorgs \in 0 .. MaxReorgs
    /\ blockRow \in [Blocks -> BlockStatus]
    /\ txRow \in [Txs -> TxRows]
    /\ logRow \in [Blocks -> FactStatus]
    /\ protocolRow \in [Blocks -> FactStatus]
    /\ checkpoint \in Checkpoints
    /\ reorgEvents \in Seq(ReorgEvent)
    /\ {published, protocolJobs, swallowed} \subseteq SUBSET Blocks
    /\ pc \in Lines
    /\ cur \in Nat
    /\ last \in Blocks \cup {NoHash}
    /\ latest \in Nat
    /\ batch \in Seq(Blocks)
    /\ finality \in {"unfinal", "finalized"}
    /\ probe \in Nat
    /\ stage \in 1 .. Len(ReorgTables) + 1
    /\ crashes \in 0 .. MaxCrashes
    /\ failures \in 0 .. MaxFailures

-------------------------------------------------------------------------------
(* Helper state formulae.                                                  *)

BatchBlocks == {batch[i] : i \in DOMAIN batch}

LastOf(s) == s[Len(s)]

\* The reorg event being handled is the last one recorded.
Event == LastOf(reorgEvents)

\* Bug: the block at the ceiling plus one counts as final.
CeilingOneHigher == latest - FinalityConfirmations + 1

SafeCeiling == latest - FinalityConfirmations

WindowEnd ==
    IF cur + BatchSize - 1 > SafeCeiling THEN SafeCeiling ELSE cur + BatchSize - 1

FinalityOf(n, head) ==
    IF head - n >= FinalityConfirmations THEN "finalized" ELSE "unfinal"

\* Bug: parent hashes are not checked.
NeverValidated(b) == TRUE

\* validateParentHash
ParentValid(b) == last = NoHash \/ Parent[b] = last

\* Bug: the range ends one block early.
LastBlockLeftOut(ancestor) ==
    [from |-> ancestor + 1, to |-> cur - 2, ancestor |-> ancestor, resolved |-> FALSE]

\* The event detectReorg records for a common ancestor.
NewEvent(ancestor) ==
    [from |-> ancestor + 1, to |-> cur - 1, ancestor |-> ancestor, resolved |-> FALSE]

\* Bug: a window cut short counts as complete.
WindowAsRequested == [next |-> cur + BatchSize, hash |-> LastOf(batch)]

\* A window may be shorter than was asked for: the count says how far it got.
AfterWindow == [next |-> cur + Len(batch), hash |-> LastOf(batch)]

Init ==
    /\ chain \in {c \in Chains : Len(c) = 1}
    /\ reorgs = 0
    /\ blockRow = [b \in Blocks |-> "absent"]
    /\ txRow = [t \in Txs |-> NoTxRow]
    /\ logRow = [b \in Blocks |-> "absent"]
    /\ protocolRow = [b \in Blocks |-> "absent"]
    /\ checkpoint = NoCheckpoint
    /\ reorgEvents = << >>
    /\ published = {}
    /\ protocolJobs = {}
    /\ swallowed = {}
    /\ pc = "down"
    /\ cur = 0
    /\ last = NoHash
    /\ latest = 0
    /\ batch = << >>
    /\ finality = "unfinal"
    /\ probe = 0
    /\ stage = 1
    /\ crashes = 0
    /\ failures = 0

-------------------------------------------------------------------------------
(* The chain.                                                              *)

Extend ==
    /\ \E c \in Chains : IsExtension(chain, c) /\ chain' = c
    /\ UNCHANGED <<reorgs, facts, progress, pc, memory, budget>>

\* A fork at least as long replaces the last blocks of the chain.
Reorg ==
    /\ reorgs < MaxReorgs
    /\ \E c \in Chains :
        /\ Len(c) >= Len(chain)
        /\ ReorgDepth(chain, c) \in 1 .. MaxReorgDepth
        /\ chain' = c
    /\ reorgs' = reorgs + 1
    /\ UNCHANGED <<facts, progress, pc, memory, budget>>

-------------------------------------------------------------------------------
(* The process.                                                            *)

\* The locals of an iteration go out of scope and the loop comes round.
Iterate(next, hash) ==
    /\ pc' = "top"
    /\ cur' = next
    /\ last' = hash
    /\ latest' = 0
    /\ batch' = << >>
    /\ finality' = "unfinal"
    /\ probe' = 0
    /\ stage' = 1

\* Bug: every start begins at config.startBlock.
StartOver ==
    /\ pc = "down"
    /\ checkpoint' = [next |-> StartBlock, hash |-> NoHash]
    /\ Iterate(checkpoint'.next, checkpoint'.hash)
    /\ UNCHANGED <<world, facts, reorgEvents, published, budget>>

\* runLiveMode up to its loop: resume at the checkpoint, or create it.
Start ==
    /\ pc = "down"
    /\ checkpoint' = IF checkpoint = NoCheckpoint
                     THEN [next |-> StartBlock, hash |-> NoHash] ELSE checkpoint
    /\ Iterate(checkpoint'.next, checkpoint'.hash)
    /\ UNCHANGED <<world, facts, reorgEvents, published, budget>>

\* Bug: the head itself is never indexed.
ReadHeadLagging ==
    /\ pc = "top"
    /\ cur < Tip(chain)
    /\ latest' = Tip(chain)
    /\ pc' = "fetch"
    /\ UNCHANGED <<world, facts, progress, cur, last, batch, finality, probe, stage, budget>>

\* Read the head: drain a finalized backlog or tail one block.
ReadHead ==
    /\ pc = "top"
    /\ cur <= Tip(chain)
    /\ latest' = Tip(chain)
    /\ pc' = IF cur <= Tip(chain) - FinalityConfirmations THEN "drain" ELSE "fetch"
    /\ UNCHANGED <<world, facts, progress, cur, last, batch, finality, probe, stage, budget>>

AtHead ==
    /\ pc = "top"
    /\ cur > Tip(chain)
    /\ UNCHANGED vars

\* fetchBlockWindow: the prefix of the window before the first hole.
FetchWindow ==
    /\ pc = "drain"
    /\ \E k \in 1 .. WindowEnd - cur + 1 :
        batch' = SubSeq(chain, cur + 1, cur + k)
    /\ pc' = "persistWindow"
    /\ UNCHANGED <<world, facts, progress, cur, last, latest, finality, probe, stage, budget>>

\* One transaction: the rows of the batch, where there are none.
InsertBatch(status) ==
    /\ blockRow' = InsertBlocks(blockRow, BatchBlocks, status)
    /\ logRow' = InsertBlocks(logRow, BatchBlocks, "canonical")
    /\ txRow' = InsertTxs(txRow, BatchBlocks)
    /\ UNCHANGED <<protocolRow, handled>>

PersistWindow ==
    /\ pc = "persistWindow"
    /\ InsertBatch("finalized")
    /\ pc' = "routeWindow"
    /\ UNCHANGED <<world, progress, memory, budget>>

\* collectDerivedJobs hands the batch's logs to the protocol handler, which upserts
\* a block's facts, then enqueues their jobs.  What fails in between it catches and
\* logs: these blocks go on without their jobs, and without facts unless stored.
HandleProtocolEvents ==
    /\ \E failed \in SUBSET BatchBlocks : \E stored \in SUBSET failed :
        /\ Cardinality(swallowed \cup failed) <= MaxSwallowed
        /\ protocolRow' = UpsertCanonical(protocolRow, (BatchBlocks \ failed) \cup stored)
        /\ protocolJobs' = protocolJobs \cup (BatchBlocks \ failed)
        /\ swallowed' = swallowed \cup failed
    /\ UNCHANGED <<blockRow, txRow, logRow>>

RouteWindow ==
    /\ pc = "routeWindow"
    /\ HandleProtocolEvents
    /\ pc' = "publishWindow"
    /\ UNCHANGED <<world, progress, memory, budget>>

\* Bug: the jobs may go out before the window is written.
PublishWindowAtOnce ==
    /\ pc \in {"persistWindow", "publishWindow"}
    /\ published' = published \cup BatchBlocks
    /\ pc' = IF pc = "publishWindow" THEN "saveWindow" ELSE pc
    /\ UNCHANGED <<world, facts, checkpoint, reorgEvents, memory, budget>>

PublishWindow ==
    /\ pc = "publishWindow"
    /\ published' = published \cup BatchBlocks
    /\ pc' = "saveWindow"
    /\ UNCHANGED <<world, facts, checkpoint, reorgEvents, memory, budget>>

SaveWindow ==
    /\ pc = "saveWindow"
    /\ checkpoint' = AfterWindow
    /\ Iterate(checkpoint'.next, checkpoint'.hash)
    /\ UNCHANGED <<world, facts, reorgEvents, published, budget>>

\* fetchBlock and validateParentHash.
FetchBlock ==
    /\ pc = "fetch"
    /\ batch' = <<BlockAt(chain, cur)>>
    /\ IF ParentValid(BlockAt(chain, cur))
       THEN pc' = "finality" /\ UNCHANGED probe
       ELSE pc' = "ancestor" /\ probe' = cur - 1
    /\ UNCHANGED <<world, facts, progress, cur, last, latest, finality, stage, budget>>

\* One round of findCommonAncestor: some canonical row of the height, against
\* the chain's block.  On a match the reorg event is recorded.
FindAncestor ==
    /\ pc = "ancestor"
    /\ probe > 0
    /\ \E b \in CanonicalAt(blockRow, probe) :
        /\ HasBlock(chain, probe)
        /\ b = BlockAt(chain, probe)
    /\ reorgEvents' = Append(reorgEvents, NewEvent(probe))
    /\ pc' = "orphan"
    /\ UNCHANGED <<world, facts, checkpoint, published, memory, budget>>

ProbeLower ==
    /\ pc = "ancestor"
    /\ probe > 0
    /\ \/ CanonicalAt(blockRow, probe) = {}
       \/ ~HasBlock(chain, probe)
       \/ \E b \in CanonicalAt(blockRow, probe) : b # BlockAt(chain, probe)
    /\ probe' = probe - 1
    /\ UNCHANGED <<world, facts, progress, pc, cur, last, latest, batch, finality, stage, budget>>

\* A provider without an answer for a block of the chain: the search goes past it.
ProbeUnanswered ==
    /\ pc = "ancestor"
    /\ probe > 0
    /\ CanonicalAt(blockRow, probe) # {}
    /\ failures < MaxFailures
    /\ failures' = failures + 1
    /\ probe' = probe - 1
    /\ UNCHANGED <<world, facts, progress, pc, cur, last, latest, batch, finality, stage, crashes>>

\* No common ancestor: detectReorg returns null and the block is indexed on.
NoAncestor ==
    /\ pc = "ancestor"
    /\ probe = 0
    /\ pc' = "finality"
    /\ UNCHANGED <<world, facts, progress, memory, budget>>

\* One stage of handleReorg.  A stage is one UPDATE, but for the wallet projections'
\* three and the protocol facts' eleven, each of a table of its own.
OrphanTable ==
    /\ pc = "orphan"
    /\ LET table == ReorgTables[stage]
           Mark(rows) == OrphanRange(rows, Event.from, Event.to)
           MarkTxs(rows) == OrphanTxRange(rows, Event.from, Event.to)
       IN  /\ blockRow' = IF table = "blocks" THEN Mark(blockRow) ELSE blockRow
           /\ txRow' = IF table = "transactions" THEN MarkTxs(txRow) ELSE txRow
           /\ logRow' = IF table = "logs" THEN Mark(logRow) ELSE logRow
           /\ protocolRow' = IF table = "protocol" THEN Mark(protocolRow) ELSE protocolRow
    /\ stage' = stage + 1
    /\ pc' = IF stage = Len(ReorgTables) THEN "resolve" ELSE "orphan"
    /\ UNCHANGED <<world, handled, progress, cur, last, latest, batch, finality, probe, budget>>

\* The event is resolved and the loop goes back to the ancestor, with no hash
\* to check the next block against.
ResolveReorg ==
    /\ pc = "resolve"
    /\ reorgEvents' = [reorgEvents EXCEPT ![Len(reorgEvents)].resolved = TRUE]
    /\ Iterate(Event.ancestor + 1, NoHash)
    /\ UNCHANGED <<world, facts, checkpoint, published, budget>>

\* determineFinalityState reads the head again.
DetermineFinality ==
    /\ pc = "finality"
    /\ finality' = FinalityOf(cur, Tip(chain))
    /\ pc' = "persist"
    /\ UNCHANGED <<world, facts, progress, cur, last, latest, batch, probe, stage, budget>>

PersistBlock ==
    /\ pc = "persist"
    /\ InsertBatch(finality)
    /\ pc' = "save"
    /\ UNCHANGED <<world, progress, memory, budget>>

\* Tailing moves the checkpoint before it publishes.
SaveBlock ==
    /\ pc = "save"
    /\ checkpoint' = [next |-> cur + 1, hash |-> LastOf(batch)]
    /\ pc' = "route"
    /\ UNCHANGED <<world, facts, reorgEvents, published, memory, budget>>

RouteBlock ==
    /\ pc = "route"
    /\ HandleProtocolEvents
    /\ pc' = "publish"
    /\ UNCHANGED <<world, progress, memory, budget>>

PublishBlock ==
    /\ pc = "publish"
    /\ published' = published \cup BatchBlocks
    /\ Iterate(cur + 1, LastOf(batch))
    /\ UNCHANGED <<world, facts, checkpoint, reorgEvents, budget>>

\* Bug: the retry starts from the checkpoint, past what it saved.
FailToCheckpoint ==
    /\ pc \notin {"down", "top"}
    /\ failures < MaxFailures
    /\ failures' = failures + 1
    /\ Iterate(checkpoint.next, checkpoint.hash)
    /\ UNCHANGED <<world, facts, progress, crashes>>

\* An await throws, or a window comes back empty: the loop sleeps and tries
\* the same position again.
Fail ==
    /\ pc \notin {"down", "top"}
    /\ failures < MaxFailures
    /\ failures' = failures + 1
    /\ Iterate(cur, last)
    /\ UNCHANGED <<world, facts, progress, crashes>>

\* The process dies; only the databases keep their state.
Crash ==
    /\ pc # "down"
    /\ crashes < MaxCrashes
    /\ crashes' = crashes + 1
    /\ pc' = "down"
    /\ cur' = 0
    /\ last' = NoHash
    /\ latest' = 0
    /\ batch' = << >>
    /\ finality' = "unfinal"
    /\ probe' = 0
    /\ stage' = 1
    /\ UNCHANGED <<world, facts, progress, failures>>

-------------------------------------------------------------------------------

Drain == FetchWindow \/ PersistWindow \/ RouteWindow \/ PublishWindow \/ SaveWindow

HandleReorg == FindAncestor \/ ProbeLower \/ NoAncestor \/ OrphanTable \/ ResolveReorg

TailBlock ==
    \/ FetchBlock \/ DetermineFinality \/ PersistBlock \/ SaveBlock
    \/ RouteBlock \/ PublishBlock

Indexer == Start \/ ReadHead \/ Drain \/ HandleReorg \/ TailBlock

Next ==
    \/ Extend \/ Reorg
    \/ Indexer \/ AtHead \/ ProbeUnanswered \/ Fail \/ Crash

Spec == Init /\ [][Next]_vars

\* The loop runs on as long as the process lives and a supervisor restarts
\* it.  The chain owes nobody a block.
FairSpec == Spec /\ WF_vars(Indexer)

-------------------------------------------------------------------------------
(* Properties.                                                             *)

\* Every height below the checkpoint has a block row: a restart resumes past
\* nothing that was never written (persistBlockData and persistBlockWindow
\* commit before createOrUpdateCheckpoint).
CheckpointCovered ==
    \A n \in StartBlock .. checkpoint.next - 1 :
        \E b \in Blocks : Number[b] = n /\ blockRow[b] # "absent"

\* A queued job always finds its block: "Jobs are published only once the
\* window is durable" (drainFinalizedBacklog), whatever fails or crashes.
JobsOnlyForDurableBlocks ==
    \A b \in published \cup protocolJobs : blockRow[b] # "absent" /\ logRow[b] # "absent"

\* When handleReorg resolves an event, no table holds a canonical fact of the
\* heights it orphaned, however often it was tried, failed or crashed before.
AllClean(e) ==
    /\ Clean(blockRow, e.from, e.to) /\ Clean(logRow, e.from, e.to)
    /\ Clean(protocolRow, e.from, e.to)
    /\ TxClean(txRow, e.from, e.to)

ReorgResolvedClean ==
    [][\A i \in DOMAIN reorgEvents :
          reorgEvents'[i].resolved /\ ~reorgEvents[i].resolved => AllClean(reorgEvents[i])]_vars

\* The checkpoint goes back only into a range that a resolved reorg orphaned.
CheckpointBackOnlyAfterReorg ==
    [][checkpoint'.next < checkpoint.next =>
          \E i \in DOMAIN reorgEvents :
              /\ reorgEvents[i].resolved
              /\ reorgEvents[i].ancestor + 1 < checkpoint'.next
              /\ checkpoint'.next <= reorgEvents[i].to + 1]_vars

\* No iteration was cut short between two of its writes.
Uninterrupted == crashes = 0 /\ failures = 0

\* One block of a height is canonical at most (the abandoned fork's row is
\* orphaned before the winning fork's is inserted), whatever the chain does.
OneCanonicalPerHeight ==
    Uninterrupted =>
        \A b, d \in CanonicalRows(blockRow) : Number[b] = Number[d] => b = d

\* Where parent hashes are not checked, the blocks could not have reorged:
\* "Every block up to safeCeiling ... cannot reorg" (drainFinalizedBacklog).
DrainedBlocksStayOnChain ==
    pc \in {"persistWindow", "routeWindow", "publishWindow", "saveWindow"} =>
        \A i \in DOMAIN batch : chain[cur + i] = batch[i]

\* At rest: everything up to the chain's own head is indexed.
CaughtUp == pc = "top" /\ cur = Tip(chain) + 1 /\ last = LastOf(chain)

\* At rest, the canonical rows are the chain: the abandoned fork's blocks are
\* orphaned and the winning fork's replace them.
RecordedChainIsTheChain ==
    CaughtUp => \A n \in StartBlock .. Tip(chain) :
                    CanonicalAt(blockRow, n) = {BlockAt(chain, n)}

BlocksOf(c) == {c[i] : i \in DOMAIN c}

\* At rest, the logs are the chain's, and the protocol facts but for what the
\* handler swallowed.  A transaction's row names a block that carries it and is
\* canonical exactly if that block is on the chain: one that both forks carry may
\* keep the row of the abandoned block.
FactsFollowTheChain ==
    CaughtUp =>
        \A n \in StartBlock .. Tip(chain) : LET here == BlockAt(chain, n) IN
            /\ CanonicalAt(logRow, n) = {here}
            /\ CanonicalAt(protocolRow, n) \subseteq {here}
            /\ here \in CanonicalRows(protocolRow) \cup swallowed
            /\ \A t \in TxsOf[here] : \E b \in Blocks :
                   /\ t \in TxsOf[b]
                   /\ txRow[t] = [block |-> b, canonical |-> b \in BlocksOf(chain)]

\* Until the process dies, the loop passes no height before the discovery jobs of a
\* block of it are out, whatever fails between saving the checkpoint and publishing.
\* So are its protocol events' jobs, unless their handler swallowed a failure.
JobsForEveryHeight ==
    crashes = 0 =>
        \A n \in StartBlock .. cur - 1 :
            \E b \in published \cap (protocolJobs \cup swallowed) : Number[b] = n

\* The indexer catches up with a chain that stops changing.
EventuallyCaughtUp == <>[](pc = "top" /\ cur > Tip(chain))

\* When the last block indexed is abandoned and the new fork has a block after
\* it, it is eventually orphaned.
AbandonedForkIsOrphaned ==
    \A b \in Blocks :
        (pc = "top" /\ last = b /\ cur <= Tip(chain) /\ chain[cur] # b)
            ~> (blockRow[b] = "orphaned")

-------------------------------------------------------------------------------
(* The inductive invariant behind CheckpointCovered and                    *)
(* JobsOnlyForDurableBlocks.                                               *)

Tailing == {"ancestor", "orphan", "resolve", "finality", "persist", "save", "route", "publish"}

Draining == {"persistWindow", "routeWindow", "publishWindow", "saveWindow"}

Persisted == {"routeWindow", "publishWindow", "saveWindow", "save", "route", "publish"}

\* The position in memory is never beyond the checkpoint, and moves beyond it
\* only through a saved block.
PositionInv ==
    /\ checkpoint # NoCheckpoint =>
          checkpoint.next >= StartBlock /\ (checkpoint.hash # NoHash => checkpoint.next > 0)
    /\ pc # "down" =>
          /\ checkpoint # NoCheckpoint
          /\ StartBlock <= cur /\ cur <= checkpoint.next
          /\ last # NoHash => cur > 0
    /\ pc \in {"route", "publish"} => cur < checkpoint.next

\* What was read of the chain is still within it.
HeadInv ==
    /\ pc = "drain" => latest <= Tip(chain)
    /\ pc = "fetch" => cur <= Tip(chain)

\* The batch is a run of blocks that starts at the position.
BatchInv ==
    /\ pc \in Draining \cup Tailing =>
          batch # << >> /\ \A i \in 1 .. Len(batch) : Number[batch[i]] = cur + i - 1
    /\ pc \in Tailing => Len(batch) = 1
    /\ pc \in Persisted =>
          \A b \in BatchBlocks : blockRow[b] # "absent" /\ logRow[b] # "absent"

\* A common ancestor is a recorded block below the position.
AncestorInv ==
    /\ \A b \in Blocks : blockRow[b] # "absent" => Number[b] >= StartBlock
    /\ pc = "ancestor" => probe < cur
    /\ pc = "orphan" => stage \in DOMAIN ReorgTables
    /\ pc \notin {"orphan", "resolve"} => stage = 1
    /\ pc \in {"orphan", "resolve"} =>
          /\ reorgEvents # << >>
          /\ StartBlock <= Event.ancestor /\ Event.ancestor < cur

IInv ==
    /\ TypeOK
    /\ PositionInv /\ HeadInv /\ BatchInv /\ AncestorInv
    /\ CheckpointCovered /\ JobsOnlyForDurableBlocks

\* The strengthening behind ReorgResolvedClean: the tables handleReorg has
\* passed are clean, and it resolves the event after the last one.
TableClean(table, e) ==
    /\ table = "blocks" => Clean(blockRow, e.from, e.to)
    /\ table = "transactions" => TxClean(txRow, e.from, e.to)
    /\ table = "logs" => Clean(logRow, e.from, e.to)
    /\ table = "protocol" => Clean(protocolRow, e.from, e.to)

MarkedInv ==
    /\ pc \in {"orphan", "resolve"} =>
          \A j \in DOMAIN ReorgTables : j < stage => TableClean(ReorgTables[j], Event)
    /\ pc = "resolve" => stage = Len(ReorgTables) + 1

-------------------------------------------------------------------------------
(* The inductive invariants behind JobsForEveryHeight,                     *)
(* CheckpointBackOnlyAfterReorg, DrainedBlocksStayOnChain and              *)
(* OneCanonicalPerHeight.                                                  *)

Handling == {"orphan", "resolve"}

Routed == {"publishWindow", "saveWindow", "publish"}

\* A window is published before the position moves past it.
JobsInv ==
    /\ JobsForEveryHeight
    /\ crashes = 0 /\ pc = "down" => checkpoint = NoCheckpoint
    /\ pc = "saveWindow" => BatchBlocks \subseteq published
    /\ pc \in Routed => BatchBlocks \subseteq protocolJobs \cup swallowed

\* The position is at the checkpoint or one below it, except between a reorg and
\* the block after its ancestor.
RewindInv ==
    /\ pc # "down" =>
          \/ checkpoint.next \in {cur, cur + 1}
          \/ /\ last = NoHash
             /\ \E i \in DOMAIN reorgEvents :
                   /\ reorgEvents[i].resolved
                   /\ reorgEvents[i].ancestor + 1 = cur
                   /\ checkpoint.next <= reorgEvents[i].to + 2
    /\ pc \in {"route", "publish"} => checkpoint.next = cur + 1
    /\ pc \in {"ancestor"} \cup Handling => last # NoHash
    /\ pc \in Handling => Event.from = Event.ancestor + 1 /\ Event.to = cur - 1

\* A window ends as far below the head as a reorg may reach.
WindowInv ==
    /\ pc = "drain" => cur <= latest - FinalityConfirmations
    /\ pc \in Draining =>
          \A i \in DOMAIN batch :
              cur + i <= Len(chain) - FinalityConfirmations /\ chain[cur + i] = batch[i]

\* No canonical row is above the position, but for those of the batch.
Heights ==
    /\ pc = "down" => cur = 0
    /\ \A b, d \in CanonicalRows(blockRow) : Number[b] = Number[d] => b = d
    /\ \A b \in CanonicalRows(blockRow) :
          Number[b] < cur \/ (pc \in Persisted /\ b \in BatchBlocks)

HeightInv == Uninterrupted => Heights

-------------------------------------------------------------------------------
(* Under what RecordedChainIsTheChain and FactsFollowTheChain hold for any *)
(* number of reorgs, and the inductive invariant behind them.              *)

\* The lowest height findCommonAncestor compares.
LowestProbe == IF StartBlock = 0 THEN 1 ELSE StartBlock

\* Forks leave one another above it.
ForksAboveStart ==
    \A c, d \in Chains : \A n \in 0 .. LowestProbe :
        HasBlock(c, n) /\ HasBlock(d, n) => BlockAt(c, n) = BlockAt(d, n)

\* A canonical row from a height on which is not of the batch just recorded.
RowsFrom(n) ==
    \E b \in CanonicalRows(blockRow) : n <= Number[b] /\ ~(pc \in Persisted /\ b \in BatchBlocks)

\* At such a position the indexer has no hash to check a parent against, or an
\* orphaned block's, or rows of an earlier attempt are ahead of it.
Unsettled(next, hash) ==
    \/ hash = NoHash /\ StartBlock < next
    \/ hash # NoHash /\ hash \notin CanonicalRows(blockRow)
    \/ RowsFrom(next)

\* On the way back from a reorg, or from an iteration that was cut short.
Recovering ==
    \/ pc \in Handling
    \/ pc # "down" /\ Unsettled(cur, last)
    \/ Unsettled(checkpoint.next, checkpoint.hash)

\* A reorg brings blocks that were never recorded, and not while the indexer
\* recovers.
OrderlyReorg ==
    Reorg => /\ ~Recovering
             /\ \A b \in BlocksOf(chain') \ BlocksOf(chain) : blockRow[b] = "absent"

OrderlyReorgs == [][OrderlyReorg]_vars

\* A drain, which looks at no parent hash, goes on from a block of the chain.
OrderlyDrain == pc = "top" /\ pc' = "drain" => last = NoHash \/ last \in BlocksOf(chain)

OrderlyDrains == [][OrderlyDrain]_vars

\* What is cut short between two of its writes had recorded blocks of the chain,
\* and the provider that does not answer had no match to report.
OrderlyFailure ==
    /\ Fail \/ Crash => (pc \in Persisted => BatchBlocks \subseteq BlocksOf(chain))
    /\ ProbeUnanswered => CanonicalAt(blockRow, probe) \cap BlocksOf(chain) = {}

OrderlyFailures == [][OrderlyFailure]_vars

\* The canonical rows are a chain of their own, from the first block on.
LinkedInv ==
    /\ \A b \in CanonicalRows(blockRow) : \A n \in StartBlock .. Number[b] :
          CanonicalAt(blockRow, n) # {}
    /\ \A b, d \in CanonicalRows(blockRow) : Number[b] = Number[d] => b = d
    /\ \A b, d \in CanonicalRows(blockRow) : Number[d] = Number[b] + 1 => Parent[d] = b

\* What is recorded was read of some chain, and what was orphaned is not on this one.
KnownInv ==
    \A b \in Blocks :
        /\ blockRow[b] # "absent" =>
              Number[b] <= Tip(chain) /\ \E c \in Chains : b \in BlocksOf(c)
        /\ blockRow[b] = "orphaned" => b \notin BlocksOf(chain)

Anchored == CanonicalRows(blockRow) \subseteq BlocksOf(chain)

\* A position follows a recorded block.  If that one is orphaned, a search from
\* there ends at a row, and until the position is settled all rows are the chain's.
FollowsRow(next, hash) ==
    /\ hash # NoHash => Number[hash] = next - 1 /\ blockRow[hash] # "absent"
    /\ hash = NoHash /\ StartBlock < next => CanonicalAt(blockRow, next - 1) # {}
    /\ hash # NoHash /\ hash \notin CanonicalRows(blockRow) =>
          \E b \in CanonicalRows(blockRow) : LowestProbe <= Number[b] /\ Number[b] < next
    /\ Unsettled(next, hash) => Anchored

ResumeInv ==
    /\ pc # "down" => FollowsRow(cur, last)
    /\ FollowsRow(checkpoint.next, checkpoint.hash)
    /\ checkpoint = NoCheckpoint => CanonicalRows(blockRow) = {}
    /\ checkpoint.hash = NoHash => checkpoint.next <= StartBlock

\* The rows between a height and the position are an abandoned fork's.
AbandonedFrom(n) ==
    \A b \in CanonicalRows(blockRow) : n < Number[b] /\ Number[b] < cur => b \notin BlocksOf(chain)

SearchInv ==
    /\ pc = "ancestor" => LowestProbe < cur /\ AbandonedFrom(probe)
    /\ pc \in Handling =>
          /\ LowestProbe <= Event.ancestor
          /\ \E b \in CanonicalAt(blockRow, Event.ancestor) : b \in BlocksOf(chain)
          /\ AbandonedFrom(Event.ancestor)
          /\ stage > 1 => Anchored

\* What is about to be recorded follows the last row, or is recorded already.
ReadInv ==
    /\ pc \in {"drain", "persistWindow"} =>
          \A b \in CanonicalRows(blockRow) : Number[b] < cur => b \in BlocksOf(chain)
    /\ pc \in {"drain", "persistWindow", "finality", "persist"} \cup Persisted =>
          last = NoHash \/ last \in CanonicalRows(blockRow)
    /\ pc \in Tailing => cur <= Tip(chain) /\ \E c \in Chains : batch[1] \in BlocksOf(c)
    /\ pc \in {"finality", "persist"} =>
          /\ \/ batch[1] \in CanonicalRows(blockRow)
             \/ /\ blockRow[batch[1]] = "absent"
                /\ ~RowsFrom(cur)
                /\ \A b \in CanonicalAt(blockRow, cur - 1) : Parent[batch[1]] = b
          /\ Recovering => batch[1] \in BlocksOf(chain)
    /\ pc \in Persisted => BatchBlocks \subseteq CanonicalRows(blockRow)

Follow == LinkedInv /\ KnownInv /\ ResumeInv /\ SearchInv /\ ReadInv

\* The range that handleReorg orphaned, or will when the search is repeated after
\* a failure: what is between the last canonical row and an orphaned position.
Torn(b) ==
    /\ pc # "down" /\ last # NoHash /\ last \notin CanonicalRows(blockRow)
    /\ Number[b] < cur
    /\ \A d \in CanonicalRows(blockRow) : Number[d] < cur => Number[d] < Number[b]

\* A table of facts has the canonical blocks' and no others, but for the tables
\* handleReorg has still to mark.
FactsOfBlocks(rows, pending) ==
    /\ \A b \in CanonicalRows(blockRow) : rows[b] = "canonical" \/ b \in pending
    /\ \A b \in Blocks : rows[b] = "canonical" => b \in CanonicalRows(blockRow) \/ Torn(b)

\* The blocks that are recorded and whose protocol events may not be: the batch
\* before it is routed, what an iteration that was cut short left behind, and what
\* the handler did not store.
Unrouted ==
    {b \in CanonicalRows(blockRow) :
        b \in swallowed \/ (cur <= Number[b] /\ ~(pc \in Routed /\ b \in BatchBlocks))}

\* A row names a recorded block that carries the transaction, and is canonical with it.
TxRowsAgree ==
    /\ \A t \in Txs : txRow[t] # NoTxRow =>
          /\ \E b \in Blocks : txRow[t].block = b /\ blockRow[b] # "absent" /\ t \in TxsOf[b]
          /\ txRow[t].block \in CanonicalRows(blockRow) => txRow[t].canonical
          /\ txRow[t].canonical => txRow[t].block \in CanonicalRows(blockRow) \/ Torn(txRow[t].block)
    /\ \A b \in Blocks : blockRow[b] # "absent" => \A t \in TxsOf[b] : txRow[t] # NoTxRow

RowsAgree ==
    /\ \A b \in Blocks : blockRow[b] = "absent" <=> logRow[b] = "absent"
    /\ FactsOfBlocks(logRow, {})
    /\ FactsOfBlocks(protocolRow, Unrouted)
    /\ TxRowsAgree

\* A crash between saving the checkpoint and routing loses a block's protocol facts.
FactsInv == crashes = 0 => RowsAgree
===============================================================================
