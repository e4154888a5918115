------------------------------ MODULE TradeIntents ------------------------------
(***************************************************************************)
(* Trades of a signed-in user (apps/api/src/trading-service.ts, routes/    *)
(* trading.ts, packages/trading, the adapter of packages/chain).  A quote  *)
(* is kept in the process, a transaction is prepared from it, simulated    *)
(* and recorded as an intent; the user's wallet sends it, and the user     *)
(* reports its hash and later its confirmation.  Requests run side by side *)
(* and wait for the database or the provider between their steps.          *)
(***************************************************************************)
EXTENDS Integers, Sequences, FiniteSets

CONSTANTS
    Requests,           \* concurrent requests of the user
    Quotes,             \* the quotes that are issued
    Approval,           \* the call that approves a spender
    Intents,            \* the ids of transaction_intents
    Txs,                \* the transactions the wallet may send
    CallOf,             \* what a transaction calls: a quote's swap, or the approval
    None,
    MaxCached,          \* MAX_CACHED_QUOTES: 5_000
    MaxLapses,          \* bound: quotes and intents that expire
    MaxReorgs           \* bound: transactions that are mined again

ASSUME TradeAssumption ==
    /\ None \notin Txs \cup Intents \cup Quotes /\ Approval \notin Quotes \cup {None}
    /\ CallOf \in [Txs -> Quotes \cup {Approval}]
    /\ MaxCached \in Nat \ {0}
    /\ MaxLapses \in Nat /\ MaxReorgs \in Nat

VARIABLES
    issued, cache,      \* the quotes in the order of issue, and those kept
    lapsed,             \* quotes and intents that have expired
    row, events,        \* transaction_intents and transaction_intent_events
    chain, receipts,    \* the state of a transaction, and all it ever had
    pc, call, intent, tx,   \* a request, what it prepares, and what it reports
    reorgs

quotes == <<issued, cache>>
tables == <<row, events>>
provider == <<chain, receipts, reorgs>>
request == <<pc, call, intent, tx>>
vars == <<quotes, lapsed, tables, provider, request>>

Calls == Quotes \cup {Approval}
Statuses == {"none", "simulated", "broadcast", "confirmed", "failed"}
Outcomes == {"success", "reverted"}

TypeOK ==
    /\ issued \in Seq(Quotes)
    /\ cache \subseteq Quotes
    /\ lapsed \subseteq Quotes \cup Intents
    /\ row \in [Intents -> [status : Statuses, call : Calls, tx : Txs \cup {None}]]
    /\ events \in [Intents -> SUBSET ({"created", "broadcast", "confirmed"} \X
                                      (Txs \cup {None}))]
    /\ chain \in [Txs -> {"unknown", "pending"} \cup Outcomes]
    /\ receipts \in [Txs -> SUBSET Outcomes]
    /\ reorgs \in 0 .. MaxReorgs
    /\ pc \in [Requests -> {"idle", "preparing", "creating", "looking", "binding",
                            "waiting", "confirming", "failing"}]
    /\ call \in [Requests -> Calls \cup {None}]
    /\ intent \in [Requests -> Intents \cup {None}]
    /\ tx \in [Requests -> Txs \cup {None}]

Init ==
    /\ issued = <<>> /\ cache = {}
    /\ lapsed = {}
    /\ row = [i \in Intents |-> [status |-> "none", call |-> Approval, tx |-> None]]
    /\ events = [i \in Intents |-> {}]
    /\ chain = [t \in Txs |-> "unknown"]
    /\ receipts = [t \in Txs |-> {}]
    /\ reorgs = 0
    /\ pc = [r \in Requests |-> "idle"]
    /\ call = [r \in Requests |-> None]
    /\ intent = [r \in Requests |-> None]
    /\ tx = [r \in Requests |-> None]

Goto(r, where) == pc' = [pc EXCEPT ![r] = where]

\* The request is over, with an answer or an error.
Return(r) ==
    /\ Goto(r, "idle")
    /\ call' = [call EXCEPT ![r] = None]
    /\ intent' = [intent EXCEPT ![r] = None]
    /\ tx' = [tx EXCEPT ![r] = None]

Set(i, status) == row' = [row EXCEPT ![i].status = status]

Log(i, action, t) == events' = [events EXCEPT ![i] = @ \cup {<<action, t>>}]

-------------------------------------------------------------------------------
(* POST /quotes: rememberQuote                                             *)

Issued == {issued[n] : n \in DOMAIN issued}

Older(p, q) == \E m, n \in DOMAIN issued : m < n /\ issued[m] = p /\ issued[n] = q

\* Expired quotes go, then the oldest until there is room.
Remembered(q) ==
    LET active == cache \ lapsed
    IN  {p \in active : Cardinality({o \in active : Older(p, o)}) + 1 < MaxCached} \cup {q}

Quote(q) ==
    /\ q \notin Issued
    /\ issued' = Append(issued, q)
    /\ cache' = Remembered(q)
    /\ UNCHANGED <<lapsed, tables, provider, request>>

-------------------------------------------------------------------------------
(* POST /trades/prepare, /approvals/prepare and /approvals/revoke-prepare  *)

\* requireQuote
RequireQuote(r, q) ==
    /\ pc[r] = "idle"
    /\ q \in cache
    /\ IF q \in lapsed
       THEN /\ cache' = cache \ {q}
            /\ UNCHANGED request
       ELSE /\ Goto(r, "preparing")
            /\ call' = [call EXCEPT ![r] = q]
            /\ UNCHANGED <<cache, intent, tx>>
    /\ UNCHANGED <<issued, lapsed, tables, provider>>

\* prepareSwapTransaction validates and simulates the swap; then some of the
\* quote's time must remain.  The adapter keeps what it issued for as long as
\* the service keeps quotes.
PrepareSwap(r) ==
    /\ pc[r] = "preparing"
    /\ call[r] \notin lapsed
    /\ Goto(r, "creating")
    /\ UNCHANGED <<quotes, lapsed, tables, provider, call, intent, tx>>

PrepareApproval(r) ==
    /\ pc[r] = "idle"
    /\ Goto(r, "creating")
    /\ call' = [call EXCEPT ![r] = Approval]
    /\ UNCHANGED <<quotes, lapsed, tables, provider, intent, tx>>

\* createIntent
CreateIntent(r) ==
    /\ pc[r] = "creating"
    /\ \E i \in Intents :
        /\ row[i].status = "none"
        /\ row' = [row EXCEPT ![i] = [status |-> "simulated", call |-> call[r], tx |-> None]]
        /\ Log(i, "created", None)
    /\ Return(r)
    /\ UNCHANGED <<quotes, lapsed, provider>>

-------------------------------------------------------------------------------
(* POST /transaction-intents/:intentId/broadcast                           *)

\* A row that is bound is answered from what it says.
ReadForBroadcast(r, i, t) ==
    /\ pc[r] = "idle"
    /\ row[i].status = "simulated"
    /\ i \notin lapsed
    /\ Goto(r, "looking")
    /\ intent' = [intent EXCEPT ![r] = i]
    /\ tx' = [tx EXCEPT ![r] = t]
    /\ UNCHANGED <<quotes, lapsed, tables, provider, call>>

\* The sender, the target, the calldata and the value are the intent's.
Matches(i, t) == CallOf[t] = row[i].call

\* Bug: what the provider answers is not compared with the intent.
GetAnyTransaction(r) ==
    /\ pc[r] = "looking"
    /\ IF chain[tx[r]] # "unknown"
       THEN Goto(r, "binding") /\ UNCHANGED <<call, intent, tx>>
       ELSE Return(r)
    /\ UNCHANGED <<quotes, lapsed, tables, provider>>

GetTransaction(r) ==
    /\ pc[r] = "looking"
    /\ IF chain[tx[r]] # "unknown" /\ Matches(intent[r], tx[r])
       THEN Goto(r, "binding") /\ UNCHANGED <<call, intent, tx>>
       ELSE Return(r)
    /\ UNCHANGED <<quotes, lapsed, tables, provider>>

\* Bug: the row was simulated when it was read.
BindWhatWasRead(r) ==
    /\ pc[r] = "binding"
    /\ row' = [row EXCEPT ![intent[r]].status = "broadcast", ![intent[r]].tx = tx[r]]
    /\ Log(intent[r], "broadcast", tx[r])
    /\ Return(r)
    /\ UNCHANGED <<quotes, lapsed, provider>>

\* The update finds the row still simulated; the event is inserted, and the
\* request answered "broadcast", whether it did or not.
Bind(r) ==
    /\ pc[r] = "binding"
    /\ row' = IF row[intent[r]].status = "simulated"
              THEN [row EXCEPT ![intent[r]].status = "broadcast", ![intent[r]].tx = tx[r]]
              ELSE row
    /\ Log(intent[r], "broadcast", tx[r])
    /\ Return(r)
    /\ UNCHANGED <<quotes, lapsed, provider>>

-------------------------------------------------------------------------------
(* POST /transaction-intents/:intentId/confirm                             *)

ReadForConfirmation(r, i) ==
    /\ pc[r] = "idle"
    /\ row[i].status = "broadcast"
    /\ Goto(r, "waiting")
    /\ intent' = [intent EXCEPT ![r] = i]
    /\ tx' = [tx EXCEPT ![r] = row[i].tx]
    /\ UNCHANGED <<quotes, lapsed, tables, provider, call>>

\* Bug: a receipt is taken for a success.
GetAnyReceipt(r) ==
    /\ pc[r] = "waiting"
    /\ IF chain[tx[r]] \in Outcomes
       THEN Goto(r, "confirming") /\ UNCHANGED <<call, intent, tx>>
       ELSE Return(r)
    /\ UNCHANGED <<quotes, lapsed, tables, provider>>

GetReceipt(r) ==
    /\ pc[r] = "waiting"
    /\ CASE chain[tx[r]] = "success" -> Goto(r, "confirming") /\ UNCHANGED <<call, intent, tx>>
         [] chain[tx[r]] = "reverted" -> Goto(r, "failing") /\ UNCHANGED <<call, intent, tx>>
         [] OTHER -> Return(r)
    /\ UNCHANGED <<quotes, lapsed, tables, provider>>

Confirm(r) ==
    /\ pc[r] = "confirming"
    /\ row' = IF row[intent[r]].status = "broadcast"
              THEN [row EXCEPT ![intent[r]].status = "confirmed"]
              ELSE row
    /\ Log(intent[r], "confirmed", tx[r])
    /\ Return(r)
    /\ UNCHANGED <<quotes, lapsed, provider>>

\* Nothing guards this update: a row that another request confirmed fails too.
Fail(r) ==
    /\ pc[r] = "failing"
    /\ Set(intent[r], "failed")
    /\ Return(r)
    /\ UNCHANGED <<quotes, lapsed, events, provider>>

-------------------------------------------------------------------------------
(* The process, time and the chain                                         *)

\* A check or a call fails and the request with it.
Abort(r) ==
    /\ pc[r] # "idle"
    /\ Return(r)
    /\ UNCHANGED <<quotes, lapsed, tables, provider>>

\* The process restarts: the quotes were kept in its memory.
Crash ==
    /\ cache' = {}
    /\ pc' = [r \in Requests |-> "idle"]
    /\ call' = [r \in Requests |-> None]
    /\ intent' = [r \in Requests |-> None]
    /\ tx' = [r \in Requests |-> None]
    /\ UNCHANGED <<issued, lapsed, tables, provider>>

Lapse(x) ==
    /\ x \in Issued \cup {i \in Intents : row[i].status = "simulated"}
    /\ Cardinality(lapsed) < MaxLapses
    /\ x \notin lapsed
    /\ lapsed' = lapsed \cup {x}
    /\ UNCHANGED <<quotes, tables, provider, request>>

Send(t) ==
    /\ chain[t] = "unknown"
    /\ chain' = [chain EXCEPT ![t] = "pending"]
    /\ UNCHANGED <<receipts, reorgs, quotes, lapsed, tables, request>>

MineTx(t, outcome) ==
    /\ chain[t] = "pending"
    /\ chain' = [chain EXCEPT ![t] = outcome]
    /\ receipts' = [receipts EXCEPT ![t] = @ \cup {outcome}]
    /\ UNCHANGED <<reorgs, quotes, lapsed, tables, request>>

\* The block of the transaction is replaced.
Reorg(t) ==
    /\ reorgs < MaxReorgs
    /\ chain[t] \in Outcomes
    /\ chain' = [chain EXCEPT ![t] = "pending"]
    /\ reorgs' = reorgs + 1
    /\ UNCHANGED <<receipts, quotes, lapsed, tables, request>>

Next ==
    \/ \E q \in Quotes : Quote(q)
    \/ \E r \in Requests :
        \/ \E q \in Quotes : RequireQuote(r, q)
        \/ PrepareSwap(r) \/ PrepareApproval(r) \/ CreateIntent(r)
        \/ \E i \in Intents, t \in Txs : ReadForBroadcast(r, i, t)
        \/ GetTransaction(r) \/ Bind(r)
        \/ \E i \in Intents : ReadForConfirmation(r, i)
        \/ GetReceipt(r) \/ Confirm(r) \/ Fail(r) \/ Abort(r)
    \/ Crash
    \/ \E x \in Quotes \cup Intents : Lapse(x)
    \/ \E t \in Txs : Send(t) \/ Reorg(t) \/ \E outcome \in Outcomes : MineTx(t, outcome)

Spec == Init /\ [][Next]_vars

-------------------------------------------------------------------------------
(* Properties                                                              *)

\* The hash of an intent is bound once, however many requests read the intent
\* unbound before one of them wrote, and an intent that was settled is never
\* open again (trading-service.ts:361).
BindsOneTransaction ==
    [][\A i \in Intents :
        /\ row[i].tx # None => row'[i].tx = row[i].tx
        /\ row[i].status \in {"confirmed", "failed"} =>
               row'[i].status \in {row[i].status, "failed"}]_vars

\* What an intent says happened, happened: its transaction is one the wallet
\* sent for it, and had the receipt its status claims, if not the one it has
\* now; and the events tell the same (trading-service.ts:425).
StatusHasEvidence ==
    \A i \in Intents :
        LET status == row[i].status
            t == row[i].tx
        IN  /\ status # "none" => <<"created", None>> \in events[i]
            /\ status \in {"broadcast", "confirmed", "failed"} =>
                   t # None /\ Matches(i, t) /\ chain[t] # "unknown"
                            /\ <<"broadcast", t>> \in events[i]
            /\ status = "confirmed" =>
                   "success" \in receipts[t] /\ <<"confirmed", t>> \in events[i]
            /\ status = "failed" => "reverted" \in receipts[t]
===============================================================================
