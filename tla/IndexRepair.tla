----------------------------- MODULE IndexRepair ------------------------------
(***************************************************************************)
(* The modes of apps/indexer that mend what the live mode left behind: the *)
(* historical backfill, gap repair, reorg reconciliation and contract      *)
(* replay, over a range of heights the chain no longer changes.  The live  *)
(* mode died inside handleReorg, so an event is unresolved and some tables *)
(* still hold the abandoned fork; heights, and protocol facts of others,   *)
(* are missing.                                                            *)
(*                                                                         *)
(* Each mode has a stream, and so a lease, of its own (getStreamName): a   *)
(* mode runs once at a time, and different modes run beside one another.   *)
(* Each is started by hand, at any moment, in any order, or never.         *)
(***************************************************************************)
EXTENDS ChainFacts

CONSTANTS
    chain,          \* the chain, which has settled
    From, To,       \* config.startBlock, config.endBlock
    BatchSize,      \* config.batchSize
    Ancestor,       \* the common ancestor of the unresolved reorg event
    Abandoned,      \* the blocks of the fork it abandoned
    Missed,         \* how many heights and blocks' facts may be missing
    MaxRuns,        \* bound: how often a mode is started
    MaxDeaths,      \* bound: how many runs die
    MaxFailures     \* bound: how many awaits fail that a mode survives

ASSUME RepairAssumption ==
    /\ chain \in Chains
    /\ From \in Nat /\ To \in From .. Tip(chain)
    /\ BatchSize \in Nat \ {0}
    /\ Ancestor \in From .. To
    /\ Abandoned \subseteq Blocks
    /\ \A b \in Abandoned : Number[b] \in Ancestor + 1 .. To /\ BlockAt(chain, Number[b]) # b
    /\ {Missed, MaxRuns, MaxDeaths, MaxFailures} \subseteq Nat

VARIABLES
    blockRow, logRow, protocolRow,  \* PostgreSQL
    resolved,       \* whether the event's resolved_at is set
    published,      \* Redis: blocks whose discovery jobs were enqueued
    protocolJobs,   \* Redis: blocks whose protocol events' jobs were enqueued
    pc,             \* the await a mode's process is at
    queue,          \* the blocks a mode has fetched and not finished
    cur,            \* historical: currentBlock
    gaps,           \* gap-repair: the gaps not yet fetched
    runs, deaths, failures,
    unanswered,     \* history: blocks a range was fetched without
    swallowed,      \* history: blocks a protocol handler caught and logged a failure for
    early           \* history: other modes started while the event was unresolved

handled == <<protocolJobs, swallowed>>
facts == <<blockRow, logRow, protocolRow, handled>>
memory == <<pc, queue, cur, gaps>>
bounds == <<runs, deaths, failures>>
vars == <<facts, resolved, published, memory, bounds, unanswered, early>>

Modes == {"historical", "gap-repair", "reorg-reconciliation", "contract-replay"}

Indexing == {"historical", "gap-repair"}

Gap == [from : From .. To, to : From .. To]

Lines == {"down", "next", "persist", "route", "publish", "blocks", "logs", "protocol", "resolve"}

TypeOK ==
    /\ blockRow \in [Blocks -> BlockStatus]
    /\ logRow \in [Blocks -> FactStatus]
    /\ protocolRow \in [Blocks -> FactStatus]
    /\ resolved \in BOOLEAN
    /\ {published, protocolJobs, swallowed} \subseteq SUBSET Blocks
    /\ pc \in [Modes -> Lines]
    /\ queue \in [Modes -> SUBSET Blocks]
    /\ cur \in From .. To + BatchSize
    /\ gaps \subseteq Gap
    /\ runs \in 0 .. MaxRuns
    /\ deaths \in 0 .. MaxDeaths
    /\ failures \in 0 .. MaxFailures
    /\ unanswered \subseteq Blocks
    /\ early \subseteq Modes \ {"reorg-reconciliation"}

-------------------------------------------------------------------------------
(* What the live mode left behind.                                         *)

Common == {BlockAt(chain, n) : n \in From .. Ancestor}

\* handleReorg had marked the first tables, in its order, when it died.  A block
\* without protocol facts is one the live mode's handler had swallowed a failure for.
Init ==
    /\ \E holes \in SUBSET Common, unrouted \in SUBSET (Common \cup Abandoned),
          marked \in 0 .. 3 :
        /\ Cardinality(holes) + Cardinality(unrouted) <= Missed
        /\ blockRow = [b \in Blocks |->
              IF b \in Abandoned THEN (IF marked > 0 THEN "orphaned" ELSE "unfinal")
              ELSE IF b \in Common \ holes THEN "finalized" ELSE "absent"]
        /\ logRow = [b \in Blocks |->
              IF b \in Abandoned THEN (IF marked > 1 THEN "orphaned" ELSE "canonical")
              ELSE IF b \in Common \ holes THEN "canonical" ELSE "absent"]
        /\ protocolRow = [b \in Blocks |->
              IF b \in unrouted THEN "absent"
              ELSE IF b \in Abandoned THEN (IF marked > 2 THEN "orphaned" ELSE "canonical")
              ELSE IF b \in Common \ holes THEN "canonical" ELSE "absent"]
        /\ published = (Common \cup Abandoned) \ holes
        /\ protocolJobs = published \ unrouted
        /\ swallowed = unrouted
    /\ resolved = FALSE
    /\ pc = [m \in Modes |-> "down"]
    /\ queue = [m \in Modes |-> {}]
    /\ cur = From
    /\ gaps = {}
    /\ runs = 0
    /\ deaths = 0
    /\ failures = 0
    /\ unanswered = {}
    /\ early = {}

-------------------------------------------------------------------------------
(* Helpers.                                                                *)

Starts(m) ==
    /\ pc[m] = "down"
    /\ runs < MaxRuns
    /\ runs' = runs + 1
    /\ early' = IF resolved \/ m = "reorg-reconciliation" THEN early ELSE early \cup {m}

Goto(m, line) == pc' = [pc EXCEPT ![m] = line]

BatchEnd == IF cur + BatchSize - 1 > To THEN To ELSE cur + BatchSize - 1

Missing(n) == CanonicalAt(blockRow, n) = {}

\* Bug: a gap is closed only by an indexed height after it.
GapsBeforeAnIndexedHeight ==
    {g \in Gap : /\ g.from <= g.to
                 /\ \A n \in g.from .. g.to : Missing(n)
                 /\ g.from = From \/ ~Missing(g.from - 1)
                 /\ g.to < To /\ ~Missing(g.to + 1)}

\* scanForGaps: the longest runs of heights without a canonical row.
MissingRanges ==
    {g \in Gap : /\ g.from <= g.to
                 /\ \A n \in g.from .. g.to : Missing(n)
                 /\ g.from = From \/ ~Missing(g.from - 1)
                 /\ g.to = To \/ ~Missing(g.to + 1)}

\* Fetched blocks, and logs, are gone through by ascending height.
First(blocks) == {b \in blocks : \A d \in blocks : Number[b] <= Number[d]}

\* fetchBlockRange: the blocks of a range the provider has an answer for.
Fetched(m, from, to) ==
    \E holes \in SUBSET (from .. to) :
        /\ failures' \in failures .. MaxFailures
        /\ Cardinality(holes) = failures' - failures
        /\ unanswered' = unanswered \cup {BlockAt(chain, n) : n \in holes}
        /\ queue' = [queue EXCEPT ![m] = {BlockAt(chain, n) : n \in (from .. to) \ holes}]
        /\ Goto(m, IF queue'[m] = {} THEN "next" ELSE "persist")

-------------------------------------------------------------------------------
(* The loop body the historical mode and gap repair share.                 *)

\* persistBlockData: one transaction, the rows where there are none.
Persist(m) ==
    /\ pc[m] = "persist"
    /\ \E b \in First(queue[m]) :
           /\ blockRow' = InsertBlocks(blockRow, {b}, "finalized")
           /\ logRow' = InsertBlocks(logRow, {b}, "canonical")
    /\ Goto(m, "route")
    /\ UNCHANGED <<protocolRow, handled, resolved, published, queue, cur, gaps, bounds, unanswered, early>>

\* ProtocolEventsHandler.handle: a block's facts are upserted, then their jobs
\* enqueued.  What fails in between is caught and logged: the jobs are lost, and the
\* facts where the upsert was what failed.
HandleEvents(b) ==
    \/ /\ protocolRow' = UpsertCanonical(protocolRow, {b})
       /\ protocolJobs' = protocolJobs \cup {b}
       /\ UNCHANGED <<swallowed, failures>>
    \/ /\ failures < MaxFailures
       /\ failures' = failures + 1
       /\ protocolRow' \in {protocolRow, UpsertCanonical(protocolRow, {b})}
       /\ swallowed' = swallowed \cup {b}
       /\ UNCHANGED protocolJobs

\* collectDerivedJobs.
Route(m) ==
    /\ pc[m] = "route"
    /\ \E b \in First(queue[m]) : HandleEvents(b)
    /\ Goto(m, "publish")
    /\ UNCHANGED <<blockRow, logRow, resolved, published, queue, cur, gaps, runs, deaths, unanswered, early>>

\* publishJobs, of the block's discovery jobs.
Publish(m) ==
    /\ pc[m] = "publish"
    /\ \E b \in First(queue[m]) :
           /\ published' = published \cup {b}
           /\ queue' = [queue EXCEPT ![m] = queue[m] \ {b}]
    /\ Goto(m, IF queue'[m] = {} THEN "next" ELSE "persist")
    /\ cur' = IF m = "historical" /\ queue'[m] = {} THEN BatchEnd + 1 ELSE cur
    /\ UNCHANGED <<facts, resolved, gaps, bounds, unanswered, early>>

IndexBlock(m) == Persist(m) \/ Route(m) \/ Publish(m)

-------------------------------------------------------------------------------
(* runHistoricalMode: every height of the range, batch by batch.           *)

StartBackfill ==
    /\ Starts("historical")
    /\ cur' = From
    /\ Goto("historical", "next")
    /\ UNCHANGED <<facts, resolved, published, queue, gaps, deaths, failures, unanswered>>

\* A batch without a single answer is passed at once.
FetchBatch ==
    /\ pc["historical"] = "next"
    /\ cur <= To
    /\ Fetched("historical", cur, BatchEnd)
    /\ cur' = IF queue'["historical"] = {} THEN BatchEnd + 1 ELSE cur
    /\ UNCHANGED <<facts, resolved, published, gaps, runs, deaths, early>>

\* Bug: the loop goes on behind the batch that failed.
SkipBatch ==
    /\ pc["historical"] \in {"persist", "route", "publish"}
    /\ failures < MaxFailures
    /\ failures' = failures + 1
    /\ queue' = [queue EXCEPT !["historical"] = {}]
    /\ cur' = BatchEnd + 1
    /\ Goto("historical", "next")
    /\ UNCHANGED <<facts, resolved, published, gaps, runs, deaths, unanswered, early>>

\* An await throws: the loop sleeps and fetches the same batch again.
RetryBatch ==
    /\ pc["historical"] \in {"persist", "route", "publish"}
    /\ failures < MaxFailures
    /\ failures' = failures + 1
    /\ queue' = [queue EXCEPT !["historical"] = {}]
    /\ Goto("historical", "next")
    /\ UNCHANGED <<facts, resolved, published, cur, gaps, runs, deaths, unanswered, early>>

EndBackfill ==
    /\ pc["historical"] = "next"
    /\ cur > To
    /\ Goto("historical", "down")
    /\ UNCHANGED <<facts, resolved, published, queue, cur, gaps, bounds, unanswered, early>>

Backfill ==
    \/ StartBackfill \/ FetchBatch \/ IndexBlock("historical") \/ RetryBatch \/ EndBackfill

-------------------------------------------------------------------------------
(* runGapRepairMode: scan once, then fetch gap by gap.                     *)

StartGapRepair ==
    /\ Starts("gap-repair")
    /\ gaps' = MissingRanges
    /\ Goto("gap-repair", "next")
    /\ UNCHANGED <<facts, resolved, published, queue, cur, deaths, failures, unanswered>>

FetchGap ==
    /\ pc["gap-repair"] = "next"
    /\ \E g \in gaps :
           /\ \A k \in gaps : g.from <= k.from
           /\ Fetched("gap-repair", g.from, g.to)
           /\ gaps' = gaps \ {g}
    /\ UNCHANGED <<facts, resolved, published, cur, runs, deaths, early>>

EndGapRepair ==
    /\ pc["gap-repair"] = "next"
    /\ gaps = {}
    /\ Goto("gap-repair", "down")
    /\ UNCHANGED <<facts, resolved, published, queue, cur, gaps, bounds, unanswered, early>>

GapRepair == StartGapRepair \/ FetchGap \/ IndexBlock("gap-repair") \/ EndGapRepair

-------------------------------------------------------------------------------
(* runReorgReconciliationMode: handleReorg once more, table by table.      *)

StartReconciliation ==
    /\ Starts("reorg-reconciliation")
    /\ ~resolved
    /\ Goto("reorg-reconciliation", "blocks")
    /\ UNCHANGED <<facts, resolved, published, queue, cur, gaps, deaths, failures, unanswered>>

\* Bug: the range ends one height early.
OrphanButTheLast(rows) == OrphanRange(rows, Ancestor + 1, To - 1)

OrphanEvent(rows) == OrphanRange(rows, Ancestor + 1, To)

OrphanBlocks ==
    /\ pc["reorg-reconciliation"] = "blocks"
    /\ blockRow' = OrphanEvent(blockRow)
    /\ Goto("reorg-reconciliation", "logs")
    /\ UNCHANGED <<logRow, protocolRow, handled, resolved, published, queue, cur, gaps, bounds, unanswered, early>>

OrphanLogs ==
    /\ pc["reorg-reconciliation"] = "logs"
    /\ logRow' = OrphanEvent(logRow)
    /\ Goto("reorg-reconciliation", "protocol")
    /\ UNCHANGED <<blockRow, protocolRow, handled, resolved, published, queue, cur, gaps, bounds, unanswered, early>>

OrphanProtocolFacts ==
    /\ pc["reorg-reconciliation"] = "protocol"
    /\ protocolRow' = OrphanEvent(protocolRow)
    /\ Goto("reorg-reconciliation", "resolve")
    /\ UNCHANGED <<blockRow, logRow, handled, resolved, published, queue, cur, gaps, bounds, unanswered, early>>

Resolve ==
    /\ pc["reorg-reconciliation"] = "resolve"
    /\ resolved' = TRUE
    /\ Goto("reorg-reconciliation", "down")
    /\ UNCHANGED <<facts, published, queue, cur, gaps, bounds, unanswered, early>>

Reconcile ==
    StartReconciliation \/ OrphanBlocks \/ OrphanLogs \/ OrphanProtocolFacts \/ Resolve

-------------------------------------------------------------------------------
(* runContractReplayMode: the canonical logs of some contracts, read once, *)
(* to the handlers.                                                        *)

CanonicalLogs == {b \in CanonicalRows(logRow) : InRange(Number[b], From, To)}

StartReplay ==
    /\ Starts("contract-replay")
    /\ \E logs \in SUBSET CanonicalLogs :
           /\ queue' = [queue EXCEPT !["contract-replay"] = logs]
           /\ Goto("contract-replay", IF logs = {} THEN "down" ELSE "route")
    /\ UNCHANGED <<facts, resolved, published, cur, gaps, deaths, failures, unanswered>>

\* The row says canonical, and was when it was read.
ReplayLog ==
    /\ pc["contract-replay"] = "route"
    /\ \E b \in First(queue["contract-replay"]) :
           /\ HandleEvents(b)
           /\ queue' = [queue EXCEPT !["contract-replay"] = queue["contract-replay"] \ {b}]
    /\ Goto("contract-replay", IF queue'["contract-replay"] = {} THEN "down" ELSE "route")
    /\ UNCHANGED <<blockRow, logRow, resolved, published, cur, gaps, runs, deaths, unanswered, early>>

Replay == StartReplay \/ ReplayLog

-------------------------------------------------------------------------------

\* A process dies, or an await of a mode without a retry throws and start()
\* ends: the databases keep what was written, the run's memory is gone.
Die(m) ==
    /\ pc[m] # "down"
    /\ deaths < MaxDeaths
    /\ deaths' = deaths + 1
    /\ Goto(m, "down")
    /\ queue' = [queue EXCEPT ![m] = {}]
    /\ gaps' = IF m = "gap-repair" THEN {} ELSE gaps
    /\ UNCHANGED <<facts, resolved, published, cur, runs, failures, unanswered, early>>

Next ==
    \/ Backfill \/ GapRepair \/ Reconcile \/ Replay
    \/ \E m \in Modes : Die(m)

Spec == Init /\ [][Next]_vars

-------------------------------------------------------------------------------
(* Properties.                                                             *)

\* Once the event is resolved no table holds a canonical fact of the abandoned fork,
\* and none comes back, whatever runs beside handleReorg or after it, however often a
\* reconciliation died.  Excepted are the protocol facts if a replay was started
\* before: it may have read the fork's logs while they were canonical.
AbandonedForkIsGone ==
    resolved =>
        \A b \in Abandoned :
            /\ b \notin CanonicalRows(blockRow) \cup CanonicalRows(logRow)
            /\ "contract-replay" \notin early => b \notin CanonicalRows(protocolRow)

\* A gap repair leaves no height missing but those it still has before it and
\* those the provider did not answer for, beside a backfill and a replay, unless a
\* mode indexed the range before its event was resolved: handleReorg then orphans
\* good blocks, whose rows stay.
GapsAreFilled ==
    pc["gap-repair"] # "down" /\ early \cap Indexing = {} =>
        \A n \in From .. To : Missing(n) =>
            \/ \E g \in gaps : InRange(n, g.from, g.to)
            \/ BlockAt(chain, n) \in queue["gap-repair"] \cup unanswered

\* A mode still has the jobs of a block to publish.
Pending(b) ==
    \E m \in Indexing :
        /\ pc[m] # "down"
        /\ \/ b \in queue[m]
           \/ m = "historical" /\ Number[b] >= cur

\* As long as no run dies, a block recorded without its discovery jobs is one the
\* provider did not answer for: two modes may race for its rows and a failed publish
\* is tried again (runHistoricalMode's catch leaves currentBlock where it was), but
\* the batch is fetched anew for it, and fetchBlockRange leaves out what it misses.
\* One without its protocol events' jobs had a handler that swallowed a failure.
JobsForRecordedBlocks ==
    deaths = 0 => \A b \in Blocks :
        blockRow[b] # "absent" =>
            \/ b \in published \cap (protocolJobs \cup swallowed)
            \/ Pending(b)
            \/ b \in unanswered
===============================================================================
