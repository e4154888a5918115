-------------------------- MODULE TransferProjection --------------------------
(***************************************************************************)
(* The worker's token transfers and the balance projected from them        *)
(* (processors/token-transfer.ts, token-balance-projection.ts), while the  *)
(* indexer goes on and orphans blocks.                                     *)
(*                                                                         *)
(* A job is the block that emitted its transfer: token_transfers is unique *)
(* on block hash, transaction and log index, and here a block emits one    *)
(* transfer, all of them to the same holder.  A worker runs each job in a  *)
(* transaction at READ COMMITTED: a statement sees what was committed when *)
(* it began, and its own transaction's writes.                             *)
(***************************************************************************)
EXTENDS ChainFacts

CONSTANTS
    Workers,         \* concurrent jobs of the derived-jobs queue
    MaxReorgs,       \* bound: how many reorgs the indexer handles
    MaxRedeliveries, \* bound: how many jobs are delivered once more
    MaxAborts        \* bound: how many transactions fail; below the job's attempts

ASSUME TransferAssumption ==
    /\ MaxReorgs \in Nat
    /\ MaxRedeliveries \in Nat
    /\ MaxAborts \in Nat

VARIABLES
    blockRow,       \* blocks
    transferRow,    \* token_transfers, committed
    balance,        \* token_balances of the holder: how often each transfer counts
    queue,          \* blocks whose job waits to be delivered
    published,      \* blocks whose job was enqueued
    indexer,        \* "index", or "orphan" between two updates of handleReorg
    range,          \* the heights handleReorg orphans
    pc, job,        \* where a worker's transaction is, and its job
    own,            \* the row the transaction inserted, "absent" if none
    sum,            \* the balance its SELECT computed
    reorgs, redeliveries, aborts

indexing == <<blockRow, indexer, range, reorgs>>
working == <<pc, job, own, sum>>
bounds == <<redeliveries, aborts>>
vars == <<blockRow, transferRow, balance, queue, published, indexer, range, working,
          reorgs, bounds>>

NoBlock == NoHash

Balances == [Blocks -> Nat]

TypeOK ==
    /\ blockRow \in [Blocks -> BlockStatus]
    /\ transferRow \in [Blocks -> FactStatus]
    /\ balance \in Balances
    /\ queue \subseteq published
    /\ published \subseteq Blocks
    /\ indexer \in {"index", "orphan"}
    /\ range \in [from : Nat, to : Nat]
    /\ pc \in [Workers -> {"idle", "insert", "select", "upsert", "commit"}]
    /\ job \in [Workers -> Blocks \cup {NoBlock}]
    /\ own \in [Workers -> FactStatus]
    /\ sum \in [Workers -> Balances]
    /\ reorgs \in 0 .. MaxReorgs
    /\ redeliveries \in 0 .. MaxRedeliveries
    /\ aborts \in 0 .. MaxAborts

Nothing == [b \in Blocks |-> 0]

Init ==
    /\ blockRow = [b \in Blocks |-> "absent"]
    /\ transferRow = [b \in Blocks |-> "absent"]
    /\ balance = Nothing
    /\ queue = {}
    /\ published = {}
    /\ indexer = "index"
    /\ range = [from |-> 0, to |-> 0]
    /\ pc = [w \in Workers |-> "idle"]
    /\ job = [w \in Workers |-> NoBlock]
    /\ own = [w \in Workers |-> "absent"]
    /\ sum = [w \in Workers |-> Nothing]
    /\ reorgs = 0
    /\ redeliveries = 0
    /\ aborts = 0

-------------------------------------------------------------------------------
(* The indexer, as far as the worker sees it.                              *)

Heights == {Number[b] : b \in CanonicalRows(blockRow)}

\* The next block of some fork is persisted and its job enqueued.
IndexBlock ==
    /\ indexer = "index"
    /\ \E b \in Blocks :
        /\ blockRow[b] = "absent"
        /\ Parent[b] = NoHash \/ Parent[b] \in CanonicalRows(blockRow)
        /\ Number[b] \notin Heights
        /\ blockRow' = InsertBlocks(blockRow, {b}, "unfinal")
        /\ queue' = queue \cup {b}
        /\ published' = published \cup {b}
    /\ UNCHANGED <<transferRow, balance, indexer, range, working, reorgs, bounds>>

\* handleReorg: the blocks above a common ancestor, then their transfers.
\* findCommonAncestor never returns height 0.
OrphanBlocks ==
    /\ indexer = "index"
    /\ reorgs < MaxReorgs
    /\ \E from, to \in Heights :
        /\ from > 1
        /\ \A n \in Heights : n <= to
        /\ range' = [from |-> from, to |-> to]
        /\ blockRow' = OrphanRange(blockRow, from, to)
    /\ reorgs' = reorgs + 1
    /\ indexer' = "orphan"
    /\ UNCHANGED <<transferRow, balance, queue, published, working, bounds>>

\* Bug: the range reaches down to the common ancestor.
AncestorToo(rows) == OrphanRange(rows, range.from - 1, range.to)

\* The UPDATE sees committed rows only.
MarkTransfers(rows) == OrphanRange(rows, range.from, range.to)

OrphanTransfers ==
    /\ indexer = "orphan"
    /\ transferRow' = MarkTransfers(transferRow)
    /\ indexer' = "index"
    /\ UNCHANGED <<blockRow, balance, queue, published, range, working, reorgs, bounds>>

-------------------------------------------------------------------------------
(* The queue.                                                              *)

Deliver(w) ==
    /\ pc[w] = "idle"
    /\ \E b \in queue :
        /\ job' = [job EXCEPT ![w] = b]
        /\ queue' = queue \ {b}
    /\ pc' = [pc EXCEPT ![w] = "insert"]
    /\ UNCHANGED <<indexing, transferRow, balance, published, own, sum, bounds>>

\* A job comes again, after it was done or while it is still running.
Redeliver ==
    /\ redeliveries < MaxRedeliveries
    /\ \E b \in published \ queue : queue' = queue \cup {b}
    /\ redeliveries' = redeliveries + 1
    /\ UNCHANGED <<indexing, transferRow, balance, published, working, aborts>>

-------------------------------------------------------------------------------
(* processTokenTransfer.                                                   *)

\* canonical: EXISTS a canonical row of the block.
StatusOf(b) == IF b \in CanonicalRows(blockRow) THEN "canonical" ELSE "orphaned"

\* ON CONFLICT DO NOTHING waits for a transaction that inserted the same key.
KeyFree(w) ==
    \A v \in Workers \ {w} : job[v] = job[w] => own[v] = "absent"

InsertTransfer(w) ==
    /\ pc[w] = "insert"
    /\ KeyFree(w)
    /\ own' = [own EXCEPT ![w] =
            IF transferRow[job[w]] = "absent" THEN StatusOf(job[w]) ELSE "absent"]
    /\ pc' = [pc EXCEPT ![w] = "select"]
    /\ UNCHANGED <<indexing, transferRow, balance, queue, published, job, sum, bounds>>

\* The rows a statement of the worker's transaction sees.
Visible(w) ==
    [b \in Blocks |-> IF b = job[w] /\ own[w] # "absent" THEN own[w] ELSE transferRow[b]]

\* Bug: the job's own transfer is added to the balance instead.
DeltaOf(w) == [balance EXCEPT ![job[w]] = @ + 1]

\* The sum over the holder's canonical transfers.
SumOf(w) == [b \in Blocks |-> IF Visible(w)[b] = "canonical" THEN 1 ELSE 0]

Select(w) ==
    /\ pc[w] = "select"
    /\ sum' = [sum EXCEPT ![w] = SumOf(w)]
    /\ pc' = [pc EXCEPT ![w] = "upsert"]
    /\ UNCHANGED <<indexing, transferRow, balance, queue, published, job, own, bounds>>

\* The upsert of the statement's sum waits for the lock on the holder's row;
\* the sum is not computed again.
Upsert(w) ==
    /\ pc[w] = "upsert"
    /\ \A v \in Workers : pc[v] # "commit"
    /\ pc' = [pc EXCEPT ![w] = "commit"]
    /\ UNCHANGED <<indexing, transferRow, balance, queue, published, job, own, sum, bounds>>

Finish(w) ==
    /\ pc' = [pc EXCEPT ![w] = "idle"]
    /\ job' = [job EXCEPT ![w] = NoBlock]
    /\ own' = [own EXCEPT ![w] = "absent"]
    /\ sum' = [sum EXCEPT ![w] = Nothing]

Commit(w) ==
    /\ pc[w] = "commit"
    /\ transferRow' = Visible(w)
    /\ balance' = sum[w]
    /\ Finish(w)
    /\ UNCHANGED <<indexing, queue, published, bounds>>

\* Bug: a failed job counts as done.
AbortAndForget(w) ==
    /\ pc[w] # "idle"
    /\ aborts < MaxAborts
    /\ aborts' = aborts + 1
    /\ Finish(w)
    /\ UNCHANGED <<indexing, transferRow, balance, queue, published, redeliveries>>

\* Bug: the job is put back after the worker let go of it.
AbortAfterReset(w) ==
    /\ pc[w] # "idle"
    /\ aborts < MaxAborts
    /\ aborts' = aborts + 1
    /\ Finish(w)
    /\ queue' = queue \cup {job'[w]}
    /\ UNCHANGED <<indexing, transferRow, balance, published, redeliveries>>

\* The transaction fails or the worker dies: nothing is written and the job
\* is delivered again.
Abort(w) ==
    /\ pc[w] # "idle"
    /\ aborts < MaxAborts
    /\ aborts' = aborts + 1
    /\ queue' = queue \cup {job[w]}
    /\ Finish(w)
    /\ UNCHANGED <<indexing, transferRow, balance, published, redeliveries>>

-------------------------------------------------------------------------------

Process(w) == Deliver(w) \/ InsertTransfer(w) \/ Select(w) \/ Upsert(w) \/ Commit(w)

Indexer == IndexBlock \/ OrphanBlocks \/ OrphanTransfers

Next ==
    \/ Indexer \/ Redeliver
    \/ \E w \in Workers : Process(w) \/ Abort(w)

Spec == Init /\ [][Next]_vars

\* handleReorg runs on to its next update; workers take the jobs there are,
\* and PostgreSQL grants a lock in the end.
FairSpec ==
    /\ Spec
    /\ WF_vars(OrphanTransfers)
    /\ \A w \in Workers :
        /\ WF_vars(Deliver(w)) /\ WF_vars(Select(w)) /\ WF_vars(Commit(w))
        /\ SF_vars(InsertTransfer(w)) /\ SF_vars(Upsert(w))

-------------------------------------------------------------------------------
(* Properties.                                                             *)

\* No orphaning, no job and no transaction under way.
Quiet ==
    /\ indexer = "index"
    /\ queue = {}
    /\ \A w \in Workers : pc[w] = "idle"

\* At rest, a canonical block's transfer counts, whatever was orphaned around
\* it and however its job was delivered, aborted and delivered again.
CanonicalTransfersKept ==
    Quiet => \A b \in CanonicalRows(blockRow) : transferRow[b] = "canonical"

\* At rest, an orphaned block's transfer does not count ("derive canonicality
\* from the block itself", processTokenTransfer).
AbandonedTransfersStopCounting ==
    Quiet => \A b \in CanonicalRows(transferRow) : b \in CanonicalRows(blockRow)

\* At rest, the balance is the sum of the canonical transfers, each counted
\* once ("a redelivered job recomputes the same sum", projectTokenBalances).
BalanceIsTheSum ==
    Quiet => balance = [b \in Blocks |-> IF transferRow[b] = "canonical" THEN 1 ELSE 0]

\* The balance counts no transfer twice and none that was not recorded, with
\* redelivered, failed and concurrent jobs ("instead of double-counting",
\* projectTokenBalances).
CountedOnce ==
    \A b \in Blocks : balance[b] <= 1 /\ (balance[b] = 1 => transferRow[b] # "absent")

\* Every published transfer is recorded in the end, although transactions
\* fail and wait for each other's keys and rows.
EventuallyRecorded ==
    \A b \in Blocks : b \in published ~> transferRow[b] # "absent"

-------------------------------------------------------------------------------
(* The inductive invariants behind CanonicalTransfersKept and CountedOnce.   *)

Inserted == {"select", "upsert", "commit"}

\* What was published is indexed, and what has a transfer was published.
PublishedInv ==
    /\ \A b \in Blocks : b \in CanonicalRows(blockRow) => b \in published
    /\ \A b \in Blocks : b \in published => blockRow[b] # "absent"
    /\ \A b \in Blocks : transferRow[b] # "absent" => b \in published
    /\ \A w \in Workers : pc[w] # "idle" => job[w] \in published

\* No published transfer is lost: it waits, is worked on or is recorded.
PendingInv ==
    /\ \A b \in published :
          \/ b \in queue
          \/ transferRow[b] # "absent"
          \/ \E w \in Workers : job[w] = b /\ pc[w] # "idle"
    /\ \A w \in Workers :
          /\ pc[w] \in Inserted => transferRow[job[w]] # "absent" \/ own[w] # "absent"
          /\ pc[w] \notin Inserted => own[w] = "absent"

\* An orphaned transfer belongs to a block that will not be canonical again.
OrphanedInv ==
    /\ \A b \in Blocks : transferRow[b] = "orphaned" => b \notin CanonicalRows(blockRow)
    /\ \A w \in Workers : own[w] = "orphaned" => job[w] \notin CanonicalRows(blockRow)
    /\ indexer = "orphan" =>
          \A b \in CanonicalRows(blockRow) : ~InRange(Number[b], range.from, range.to)

TransferInv == TypeOK /\ PublishedInv /\ PendingInv /\ OrphanedInv

\* The strengthening behind CountedOnce: a sum under way counts recorded
\* transfers and the one its own transaction inserted.
SumInv ==
    \A w \in Workers, b \in Blocks :
        /\ sum[w][b] <= 1
        /\ sum[w][b] = 1 =>
              transferRow[b] # "absent" \/ (b = job[w] /\ own[w] # "absent")

CountInv == CountedOnce /\ SumInv
===============================================================================
