----------------------------- MODULE IndexerLease -----------------------------
(***************************************************************************)
(* The lease of an indexer stream (checkpoint-manager.ts) and what a       *)
(* process does under it.  A worker is one incarnation of the process:     *)
(* main.ts gives every start an identity of its own.  Each statement sent  *)
(* to PostgreSQL is a step.                                                *)
(***************************************************************************)
EXTENDS Integers

CONSTANTS
    Workers,        \* worker ids, one for every start of an indexer
    NoWorker,       \* no row in indexer_leases
    LeaseDuration,  \* config.leaseDurationMs
    MaxTime,        \* bound: the clock
    MaxBlock,       \* bound: the last block there is to index
    MaxStops,       \* bound: how many workers are told to stop
    MaxFailures     \* bound: how many inserts report an error

ASSUME LeaseAssumption ==
    /\ NoWorker \notin Workers
    /\ LeaseDuration \in Nat
    /\ MaxTime \in Nat /\ MaxBlock \in Nat /\ MaxStops \in Nat /\ MaxFailures \in Nat

VARIABLES
    now,            \* the clock the workers share
    lease,          \* the row of indexer_leases
    checkpoint,     \* next_block of indexer_checkpoints, -1 without a row
    pc,             \* the await a worker is at
    at,             \* the time its acquireLease began
    pos,            \* its currentBlock
    running,        \* its this.running
    timely,         \* history: no worker has outlasted its own lease within a step
    contested,      \* history: two workers took over a lease at the same time
    late,           \* history: checkpoint writes since it last held the lease
    stops, failures

tables == <<lease, checkpoint>>
bounds == <<stops, failures>>
history == <<timely, contested, late>>
vars == <<now, tables, pc, at, pos, running, history, bounds>>

NoLease == [worker |-> NoWorker, expires |-> 0]

Lines ==
    {"new", "insert", "own", "renewOwn", "other", "takeover", "load", "create",
     "top", "body", "save", "release", "gone"}

Acquiring == {"insert", "own", "renewOwn", "other", "takeover"}

TypeOK ==
    /\ now \in 0 .. MaxTime
    /\ lease \in [worker : Workers \cup {NoWorker}, expires : Nat]
    /\ checkpoint \in -1 .. MaxBlock + 1
    /\ pc \in [Workers -> Lines]
    /\ at \in [Workers -> Nat]
    /\ pos \in [Workers -> 0 .. MaxBlock + 1]
    /\ running \in [Workers -> BOOLEAN]
    /\ timely \in BOOLEAN
    /\ contested \in BOOLEAN
    /\ late \in [Workers -> Nat]
    /\ stops \in 0 .. MaxStops
    /\ failures \in 0 .. MaxFailures

Holds(w) == lease.worker = w

Init ==
    /\ now = 0
    /\ lease = NoLease
    /\ checkpoint = -1
    /\ pc = [w \in Workers |-> "new"]
    /\ at = [w \in Workers |-> 0]
    /\ pos = [w \in Workers |-> 0]
    /\ running = [w \in Workers |-> TRUE]
    /\ timely = TRUE
    /\ contested = FALSE
    /\ late = [w \in Workers |-> 0]
    /\ stops = 0
    /\ failures = 0

Goto(w, line) == pc' = [pc EXCEPT ![w] = line]

-------------------------------------------------------------------------------
(* Time.                                                                   *)

\* A holder renews before its lease runs out, and an acquisition that began
\* in time ends in time.
InTime(w) ==
    /\ Holds(w) /\ pc[w] \notin {"new", "gone"} => now < lease.expires
    /\ pc[w] \in Acquiring => now < at[w] + LeaseDuration

Tick ==
    /\ now < MaxTime
    /\ now' = now + 1
    /\ timely' = (timely /\ \A w \in Workers : InTime(w))
    /\ UNCHANGED <<tables, pc, at, pos, running, contested, late, bounds>>

-------------------------------------------------------------------------------
(* acquireLease.                                                           *)

Begin(w) ==
    /\ pc[w] = "new"
    /\ at' = [at EXCEPT ![w] = now]
    /\ Goto(w, "insert")
    /\ UNCHANGED <<now, tables, pos, running, history, bounds>>

OwnLease(w) == [worker |-> w, expires |-> at[w] + LeaseDuration]

Insert(w) ==
    /\ pc[w] = "insert"
    /\ IF lease = NoLease
       THEN lease' = OwnLease(w) /\ Goto(w, "load")
       ELSE UNCHANGED lease /\ Goto(w, "own")
    /\ UNCHANGED <<now, checkpoint, at, pos, running, history, bounds>>

\* The insert reports an error; its row may be there all the same.
InsertFails(w) ==
    /\ pc[w] = "insert"
    /\ lease = NoLease
    /\ failures < MaxFailures
    /\ failures' = failures + 1
    /\ lease' \in {NoLease, OwnLease(w)}
    /\ Goto(w, "own")
    /\ UNCHANGED <<now, checkpoint, at, pos, running, history, stops>>

CheckOwn(w) ==
    /\ pc[w] = "own"
    /\ Goto(w, IF Holds(w) THEN "renewOwn" ELSE "other")
    /\ UNCHANGED <<now, tables, at, pos, running, history, bounds>>

RenewOwn(w) ==
    /\ pc[w] = "renewOwn"
    /\ IF Holds(w)
       THEN lease' = [lease EXCEPT !.expires = now + LeaseDuration] /\ Goto(w, "load")
       ELSE UNCHANGED lease /\ Goto(w, "gone")
    /\ UNCHANGED <<now, checkpoint, at, pos, running, history, bounds>>

\* Bug: whoever finds a lease takes it.
TakenWhileValid(w) == lease # NoLease

Expired(w) == lease # NoLease /\ lease.expires < at[w]

\* Somebody else's lease: take it over when it has expired, give up otherwise,
\* also when it was released in the meantime.
CheckOther(w) ==
    /\ pc[w] = "other"
    /\ Goto(w, IF Expired(w) THEN "takeover" ELSE "gone")
    /\ UNCHANGED <<now, tables, at, pos, running, history, bounds>>

\* The DELETE names the stream only, and the acquisition starts again.
TakeOver(w) ==
    /\ pc[w] = "takeover"
    /\ lease' = NoLease
    /\ at' = [at EXCEPT ![w] = now]
    /\ contested' = (contested \/ \E v \in Workers \ {w} : pc[v] = "takeover")
    /\ Goto(w, "insert")
    /\ UNCHANGED <<now, checkpoint, pos, running, timely, late, bounds>>

Acquire(w) ==
    Begin(w) \/ Insert(w) \/ InsertFails(w) \/ CheckOwn(w) \/ RenewOwn(w)
        \/ CheckOther(w) \/ TakeOver(w)

-------------------------------------------------------------------------------
(* runLiveMode.                                                            *)

WriteCheckpoint(w, next) ==
    /\ checkpoint' = next
    /\ pos' = [pos EXCEPT ![w] = next]
    /\ late' = [late EXCEPT ![w] = IF Holds(w) THEN 0 ELSE @ + 1]
    /\ Goto(w, "top")

\* Bug: the checkpoint is not read back.
LoadFromStart(w) ==
    /\ pc[w] = "load"
    /\ Goto(w, "create")
    /\ UNCHANGED <<now, tables, at, pos, running, history, bounds>>

Load(w) ==
    /\ pc[w] = "load"
    /\ IF checkpoint = -1
       THEN Goto(w, "create") /\ UNCHANGED pos
       ELSE Goto(w, "top") /\ pos' = [pos EXCEPT ![w] = checkpoint]
    /\ UNCHANGED <<now, tables, at, running, history, bounds>>

Create(w) ==
    /\ pc[w] = "create"
    /\ WriteCheckpoint(w, 0)
    /\ UNCHANGED <<now, lease, at, running, timely, contested, bounds>>

\* Bug: the answer of renewLease is ignored.
RenewRegardless(w) ==
    /\ pc[w] = "top"
    /\ running[w]
    /\ Goto(w, "body")
    /\ UNCHANGED <<now, tables, at, pos, running, history, bounds>>

\* The row is renewed whether or not it has expired.
Renew(w) ==
    /\ pc[w] = "top"
    /\ running[w]
    /\ IF Holds(w)
       THEN /\ lease' = [lease EXCEPT !.expires = now + LeaseDuration]
            /\ late' = [late EXCEPT ![w] = 0]
            /\ Goto(w, "body")
       ELSE UNCHANGED <<lease, late>> /\ Goto(w, "gone")
    /\ UNCHANGED <<now, checkpoint, at, pos, running, timely, contested, bounds>>

Leave(w) ==
    /\ pc[w] = "top"
    /\ ~running[w]
    /\ Goto(w, "release")
    /\ UNCHANGED <<now, tables, at, pos, running, history, bounds>>

\* Bug: the iteration does not stop at the head.
IndexPastHead(w) ==
    /\ pc[w] = "body"
    /\ Goto(w, "save")
    /\ UNCHANGED <<now, tables, at, pos, running, history, bounds>>

\* The iteration indexes a block, or ends without one: at the head, on an
\* error, or without an answer.
IndexBlock(w) ==
    /\ pc[w] = "body"
    /\ pos[w] <= MaxBlock
    /\ Goto(w, "save")
    /\ UNCHANGED <<now, tables, at, pos, running, history, bounds>>

Idle(w) ==
    /\ pc[w] = "body"
    /\ Goto(w, "top")
    /\ UNCHANGED <<now, tables, at, pos, running, history, bounds>>

\* createOrUpdateCheckpoint does not ask who holds the lease.
Save(w) ==
    /\ pc[w] = "save"
    /\ WriteCheckpoint(w, pos[w] + 1)
    /\ UNCHANGED <<now, lease, at, running, timely, contested, bounds>>

ReleaseOwn(w) == lease' = IF Holds(w) THEN NoLease ELSE lease

Release(w) ==
    /\ pc[w] = "release"
    /\ ReleaseOwn(w)
    /\ Goto(w, "gone")
    /\ UNCHANGED <<now, checkpoint, at, pos, running, history, bounds>>

Live(w) ==
    Load(w) \/ Create(w) \/ Renew(w) \/ Leave(w) \/ IndexBlock(w) \/ Idle(w)
        \/ Save(w) \/ Release(w)

-------------------------------------------------------------------------------
(* From outside.                                                           *)

\* stop() releases the lease at once; the iteration in flight goes on.
Stop(w) ==
    /\ pc[w] \notin {"new", "gone"}
    /\ running[w]
    /\ stops < MaxStops
    /\ stops' = stops + 1
    /\ running' = [running EXCEPT ![w] = FALSE]
    /\ ReleaseOwn(w)
    /\ UNCHANGED <<now, checkpoint, pc, at, pos, history, failures>>

\* The process dies, and its row outlives it.
Crash(w) ==
    /\ pc[w] \notin {"new", "gone"}
    /\ Goto(w, "gone")
    /\ UNCHANGED <<now, tables, at, pos, running, history, bounds>>

Next ==
    \/ Tick
    \/ \E w \in Workers : Acquire(w) \/ Live(w) \/ Stop(w) \/ Crash(w)

Spec == Init /\ [][Next]_vars

-------------------------------------------------------------------------------
(* Properties.                                                             *)

\* A worker that lost its lease writes the checkpoint at most once more,
\* however it lost it: the next renewLease finds no row and the process ends.
AtMostOneLateWrite == \A w \in Workers : late[w] <= 1

\* The strengthening behind AtMostOneLateWrite: past a successful renewal there
\* was no late write, and a late write leads straight to the next renewal.
LateInv ==
    /\ TypeOK
    /\ AtMostOneLateWrite
    /\ \A w \in Workers : pc[w] \notin {"top", "release", "gone"} => late[w] = 0
    /\ \A w \in Workers : pc[w] = "save" => pos[w] <= MaxBlock

\* One indexer at a time is inside the loop ("the lease is the indexer's
\* mutual-exclusion token", chain-facts.ts).
Inside == {w \in Workers : pc[w] \in {"body", "save"}}

OneInside == \A v, w \in Inside : v = w

\* No worker outlasted its lease, none was told to stop, and no two that had
\* found a lease expired went on to delete it (checkpoint-manager.ts:113).
Undisturbed == timely /\ ~contested /\ stops = 0

\* Across takeovers, crashes and failed inserts one indexer at a time is inside
\* the loop, as long as each renews its lease in time and takes over alone.
MutualExclusion == Undisturbed => OneInside

\* The same when indexers are told to stop.
MutualExclusionWhenStopping == timely /\ ~contested => OneInside

\* Nor does the checkpoint go back, when the chain does not reorganise
\* (createOrUpdateCheckpoint does not compare).
CheckpointNeverBack == [][Undisturbed => checkpoint' >= checkpoint]_vars
-------------------------------------------------------------------------------
(* The inductive invariant behind MutualExclusion and CheckpointNeverBack.  *)

\* Past acquireLease and before the lease is given back.
Settled == {"load", "create", "top", "body", "save", "release"}

LeaseRowInv == lease = NoLease \/ lease.worker \in Workers

\* Who is past acquireLease holds the lease; a lease lasts while its holder lives,
\* so whoever takes it over takes it from a dead process.
HolderInv ==
    /\ \A w \in Workers : pc[w] \in Settled => Holds(w)
    /\ \A w \in Workers : Holds(w) /\ pc[w] # "gone" => pc[w] # "new" /\ now <= lease.expires
    /\ \A w \in Workers : pc[w] \in Acquiring => at[w] <= now /\ now <= at[w] + LeaseDuration
    /\ \A w \in Workers : pc[w] = "other" => ~Holds(w)
    /\ \A w \in Workers : pc[w] = "takeover" =>
          lease.worker \in Workers /\ pc[lease.worker] = "gone"

\* The holder alone has read the checkpoint, and it knows where it is.
ReadInv ==
    /\ \A w \in Workers : pc[w] = "create" => checkpoint = -1
    /\ \A w \in Workers : pc[w] \in {"top", "body", "save"} => pos[w] = checkpoint

ExclusionInv == LeaseRowInv /\ (Undisturbed => HolderInv /\ ReadInv)
===============================================================================
