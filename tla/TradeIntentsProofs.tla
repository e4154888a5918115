--------------------------- MODULE TradeIntentsProofs ---------------------------
(***************************************************************************)
(* Proofs about TradeIntents, for every number of requests, quotes,        *)
(* intents and transactions.                                               *)
(***************************************************************************)
EXTENDS TradeIntents, SequenceTheorems, TLAPS

\* What a request found out stays true while it waits: a transaction is never
\* unknown again, an intent keeps its call, and one that is bound its hash.
RequestInv ==
    \A r \in Requests :
        /\ pc[r] \in {"preparing", "creating"} => call[r] \in Calls
        /\ pc[r] \in {"looking", "binding"} =>
               /\ intent[r] \in Intents /\ tx[r] \in Txs
               /\ row[intent[r]].status # "none"
        /\ pc[r] = "binding" => chain[tx[r]] # "unknown" /\ Matches(intent[r], tx[r])
        /\ pc[r] \in {"waiting", "confirming", "failing"} =>
               /\ intent[r] \in Intents /\ tx[r] \in Txs
               /\ row[intent[r]].tx = tx[r]
               /\ row[intent[r]].status \in {"broadcast", "confirmed", "failed"}
        /\ pc[r] = "confirming" => "success" \in receipts[tx[r]]
        /\ pc[r] = "failing" => "reverted" \in receipts[tx[r]]

ChainInv == \A t \in Txs : chain[t] \in Outcomes => chain[t] \in receipts[t]

UnboundInv == \A i \in Intents : row[i].status \in {"none", "simulated"} => row[i].tx = None

\* The inductive invariant.
IInv == TypeOK /\ RequestInv /\ ChainInv /\ UnboundInv /\ StatusHasEvidence

Rows == [status : Statuses, call : Calls, tx : Txs \cup {None}]

\* What a request's end leaves to prove.
LEMMA ReturnInv ==
    ASSUME TypeOK, RequestInv, NEW r \in Requests, Return(r), chain' = chain,
           receipts' = receipts,
           row' \in [Intents -> Rows],
           \A i \in Intents : row[i].status # "none" =>
                row'[i].call = row[i].call /\ row'[i].status # "none",
           \A i \in Intents : row[i].status \in {"broadcast", "confirmed", "failed"} =>
                row'[i].tx = row[i].tx /\ row'[i].status \in {"broadcast", "confirmed", "failed"}
    PROVE  /\ RequestInv'
           /\ pc' \in [Requests -> {"idle", "preparing", "creating", "looking", "binding",
                                    "waiting", "confirming", "failing"}]
           /\ call' \in [Requests -> Calls \cup {None}]
           /\ intent' \in [Requests -> Intents \cup {None}]
           /\ tx' \in [Requests -> Txs \cup {None}]
  <1>1. /\ pc' \in [Requests -> {"idle", "preparing", "creating", "looking", "binding",
                                 "waiting", "confirming", "failing"}]
        /\ call' \in [Requests -> Calls \cup {None}]
        /\ intent' \in [Requests -> Intents \cup {None}]
        /\ tx' \in [Requests -> Txs \cup {None}]
    BY DEF Return, Goto, TypeOK
  <1>2. \A q \in Requests : pc'[q] # "idle" =>
          q # r /\ pc'[q] = pc[q] /\ call'[q] = call[q] /\ intent'[q] = intent[q] /\ tx'[q] = tx[q]
    BY DEF Return, Goto, TypeOK
  <1>3. RequestInv'
    BY <1>2 DEF RequestInv, Matches
  <1> QED BY <1>1, <1>3

\* A step that writes nothing.
LEMMA NothingWritten ==
    ASSUME IInv, UNCHANGED <<tables, provider>>
    PROVE  ChainInv' /\ UnboundInv' /\ StatusHasEvidence'
  BY DEF IInv, tables, provider, ChainInv, UnboundInv, StatusHasEvidence, Matches

\* A request that ends without a word.
LEMMA EndInv ==
    ASSUME IInv, NEW r \in Requests, Return(r), UNCHANGED <<quotes, lapsed, tables, provider>>
    PROVE  IInv'
  <1>1. chain' = chain /\ receipts' = receipts /\ row' = row /\ row \in [Intents -> Rows]
    BY DEF tables, provider, IInv, TypeOK, Rows
  <1>2. /\ RequestInv'
        /\ pc' \in [Requests -> {"idle", "preparing", "creating", "looking", "binding",
                                 "waiting", "confirming", "failing"}]
        /\ call' \in [Requests -> Calls \cup {None}]
        /\ intent' \in [Requests -> Intents \cup {None}]
        /\ tx' \in [Requests -> Txs \cup {None}]
    BY <1>1, ReturnInv DEF IInv
  <1>3. TypeOK'
    BY <1>2 DEF IInv, TypeOK, quotes, tables, provider
  <1> QED BY <1>2, <1>3, NothingWritten DEF IInv

LEMMA QuoteInv ==
    ASSUME IInv, NEW q \in Quotes, Quote(q)
    PROVE  IInv'
  <1>1. issued' \in Seq(Quotes) /\ cache' \subseteq Quotes
    BY DEF IInv, TypeOK, Quote, Remembered
  <1>2. TypeOK'
    BY <1>1 DEF IInv, TypeOK, Quote, tables, provider, request
  <1>3. RequestInv'
    BY DEF IInv, RequestInv, Matches, Quote, tables, provider, request
  <1> QED BY <1>2, <1>3, NothingWritten DEF IInv, Quote

\* A step of a request that writes nothing and goes on to prepare a call.
LEMMA PrepareInv ==
    ASSUME IInv, NEW r \in Requests, NEW where \in {"preparing", "creating"},
           NEW c \in Calls, Goto(r, where), call' = [call EXCEPT ![r] = c],
           UNCHANGED <<intent, tx, issued, lapsed, tables, provider>>, cache' \subseteq Quotes
    PROVE  IInv'
  <1>1. TypeOK'
    BY DEF IInv, TypeOK, Goto, tables, provider
  <1>2. UNCHANGED <<row, chain, receipts>>
    BY DEF tables, provider
  <1>3. \A q \in Requests \ {r} : pc'[q] = pc[q] /\ call'[q] = call[q]
    BY DEF IInv, TypeOK, Goto
  <1>4. pc'[r] = where /\ call'[r] = c
    BY DEF IInv, TypeOK, Goto
  <1>5. RequestInv'
    BY <1>2, <1>3, <1>4 DEF IInv, RequestInv, Matches
  <1> QED BY <1>1, <1>5, NothingWritten DEF IInv

\* The same for one that goes on to report a transaction.
LEMMA ReportInv ==
    ASSUME IInv, NEW r \in Requests,
           NEW where \in {"looking", "binding", "waiting", "confirming", "failing"},
           NEW i \in Intents, NEW t \in Txs, Goto(r, where),
           intent' = [intent EXCEPT ![r] = i],
           tx' = [tx EXCEPT ![r] = t],
           UNCHANGED <<call, quotes, lapsed, tables, provider>>,
           row[i].status # "none",
           where = "binding" => chain[t] # "unknown" /\ Matches(i, t),
           where \in {"waiting", "confirming", "failing"} =>
               /\ row[i].tx = t
               /\ row[i].status \in {"broadcast", "confirmed", "failed"},
           where = "confirming" => "success" \in receipts[t],
           where = "failing" => "reverted" \in receipts[t]
    PROVE  IInv'
  <1>1. TypeOK'
    BY DEF IInv, TypeOK, Goto, tables, provider, quotes
  <1>2. UNCHANGED <<row, chain, receipts>>
    BY DEF tables, provider
  <1>3. \A q \in Requests \ {r} : pc'[q] = pc[q] /\ intent'[q] = intent[q] /\ tx'[q] = tx[q]
    BY DEF IInv, TypeOK, Goto
  <1>4. pc'[r] = where /\ intent'[r] = i /\ tx'[r] = t
    BY DEF IInv, TypeOK, Goto
  <1>5. RequestInv'
    BY <1>2, <1>3, <1>4 DEF IInv, RequestInv, Matches
  <1> QED BY <1>1, <1>5, NothingWritten DEF IInv

\* A request that stays about the same call, intent and hash.
LEMMA Kept ==
    ASSUME IInv, NEW r \in Requests
    PROVE  /\ call = [call EXCEPT ![r] = call[r]]
           /\ intent = [intent EXCEPT ![r] = intent[r]]
           /\ tx = [tx EXCEPT ![r] = tx[r]]
           /\ cache \subseteq Quotes
  BY DEF IInv, TypeOK

LEMMA ReadInv ==
    ASSUME IInv, NEW r \in Requests,
           \/ \E q \in Quotes : RequireQuote(r, q)
           \/ PrepareSwap(r) \/ PrepareApproval(r)
           \/ \E i \in Intents, t \in Txs : ReadForBroadcast(r, i, t)
           \/ GetTransaction(r)
           \/ \E i \in Intents : ReadForConfirmation(r, i)
           \/ GetReceipt(r)
    PROVE  IInv'
  <1>1. ASSUME NEW q \in Quotes, RequireQuote(r, q)
        PROVE  IInv'
    <2>1. CASE q \in lapsed
      <3>1. cache' \subseteq Quotes /\ UNCHANGED <<issued, lapsed, tables, provider, request>>
        BY <1>1, <2>1 DEF RequireQuote, IInv, TypeOK
      <3>2. TypeOK' /\ RequestInv'
        BY <3>1 DEF IInv, TypeOK, RequestInv, Matches, tables, provider, request
      <3> QED BY <3>1, <3>2, NothingWritten DEF IInv
    <2>2. CASE q \notin lapsed
      <3>1. /\ Goto(r, "preparing") /\ call' = [call EXCEPT ![r] = q]
            /\ UNCHANGED <<cache, intent, tx, issued, lapsed, tables, provider>>
        BY <1>1, <2>2 DEF RequireQuote
      <3>2. cache' \subseteq Quotes /\ q \in Calls
        BY <3>1, Kept DEF Calls
      <3> QED BY <3>1, <3>2, PrepareInv
    <2> QED BY <2>1, <2>2
  <1>2. CASE PrepareSwap(r)
    <2>1. call[r] \in Calls
      BY <1>2 DEF IInv, RequestInv, PrepareSwap
    <2>2. /\ Goto(r, "creating") /\ call' = [call EXCEPT ![r] = call[r]]
          /\ UNCHANGED <<intent, tx, issued, lapsed, tables, provider>>
          /\ cache' \subseteq Quotes
      BY <1>2, Kept DEF PrepareSwap, quotes
    <2> QED BY <2>1, <2>2, PrepareInv
  <1>3. CASE PrepareApproval(r)
    <2>1. /\ Goto(r, "creating") /\ call' = [call EXCEPT ![r] = Approval]
          /\ UNCHANGED <<intent, tx, issued, lapsed, tables, provider>>
          /\ cache' \subseteq Quotes /\ Approval \in Calls
      BY <1>3, Kept DEF PrepareApproval, Calls, quotes
    <2> QED BY <2>1, PrepareInv
  <1>4. ASSUME NEW i \in Intents, NEW t \in Txs, ReadForBroadcast(r, i, t)
        PROVE  IInv'
    BY <1>4, ReportInv DEF ReadForBroadcast
  <1>5. CASE GetTransaction(r)
    <2>1. CASE chain[tx[r]] # "unknown" /\ Matches(intent[r], tx[r])
      <3>1. intent[r] \in Intents /\ tx[r] \in Txs /\ row[intent[r]].status # "none"
        BY <1>5 DEF IInv, RequestInv, GetTransaction
      <3>2. Goto(r, "binding") /\ UNCHANGED <<call, intent, tx, quotes, lapsed, tables, provider>>
        BY <1>5, <2>1 DEF GetTransaction
      <3> QED BY <2>1, <3>1, <3>2, Kept, ReportInv
    <2>2. CASE ~(chain[tx[r]] # "unknown" /\ Matches(intent[r], tx[r]))
      BY <1>5, <2>2, EndInv DEF GetTransaction
    <2> QED BY <2>1, <2>2
  <1>6. ASSUME NEW i \in Intents, ReadForConfirmation(r, i)
        PROVE  IInv'
    <2>1. row[i].tx \in Txs
      BY <1>6 DEF IInv, TypeOK, StatusHasEvidence, ReadForConfirmation
    <2> QED BY <1>6, <2>1, ReportInv DEF ReadForConfirmation
  <1>7. CASE GetReceipt(r)
    <2>1. /\ intent[r] \in Intents /\ tx[r] \in Txs /\ row[intent[r]].tx = tx[r]
          /\ row[intent[r]].status \in {"broadcast", "confirmed", "failed"}
      BY <1>7 DEF IInv, RequestInv, GetReceipt
    <2>2. UNCHANGED <<quotes, lapsed, tables, provider>>
      BY <1>7 DEF GetReceipt
    <2>3. CASE chain[tx[r]] = "success"
      <3>1. Goto(r, "confirming") /\ UNCHANGED <<call, intent, tx>>
        BY <1>7, <2>3 DEF GetReceipt
      <3>2. "success" \in receipts[tx[r]]
        BY <2>1, <2>3 DEF IInv, ChainInv, Outcomes
      <3> QED BY <2>1, <2>2, <3>1, <3>2, Kept, ReportInv
    <2>4. CASE chain[tx[r]] = "reverted"
      <3>1. Goto(r, "failing") /\ UNCHANGED <<call, intent, tx>>
        BY <1>7, <2>4 DEF GetReceipt
      <3>2. "reverted" \in receipts[tx[r]]
        BY <2>1, <2>4 DEF IInv, ChainInv, Outcomes
      <3> QED BY <2>1, <2>2, <3>1, <3>2, Kept, ReportInv
    <2>5. CASE chain[tx[r]] \notin {"success", "reverted"}
      BY <1>7, <2>5, EndInv DEF GetReceipt
    <2> QED BY <2>3, <2>4, <2>5
  <1> QED BY <1>1, <1>2, <1>3, <1>4, <1>5, <1>6, <1>7

\* A request that writes one row, its event, and ends.
LEMMA WriteInv ==
    ASSUME IInv, NEW r \in Requests, Return(r), UNCHANGED <<quotes, lapsed, provider>>,
           NEW i \in Intents, NEW new \in Rows, row' = [row EXCEPT ![i] = new],
           events' \in [Intents -> SUBSET ({"created", "broadcast", "confirmed"} \X
                                           (Txs \cup {None}))],
           \A j \in Intents : events[j] \subseteq events'[j],
           row[i].status # "none" => new.call = row[i].call,
           new.status # "none",
           row[i].status \in {"broadcast", "confirmed", "failed"} =>
               new.tx = row[i].tx /\ new.status \in {"broadcast", "confirmed", "failed"},
           new.status = "simulated" => new.tx = None,
           <<"created", None>> \in events'[i],
           new.status \in {"broadcast", "confirmed", "failed"} =>
               /\ new.tx \in Txs /\ CallOf[new.tx] = new.call /\ chain[new.tx] # "unknown"
               /\ <<"broadcast", new.tx>> \in events'[i],
           new.status = "confirmed" =>
               "success" \in receipts[new.tx] /\ <<"confirmed", new.tx>> \in events'[i],
           new.status = "failed" => "reverted" \in receipts[new.tx]
    PROVE  IInv'
  <1>1. row \in [Intents -> Rows] /\ row' \in [Intents -> Rows]
        /\ row'[i] = new /\ \A j \in Intents \ {i} : row'[j] = row[j]
    BY DEF IInv, TypeOK, Rows
  <1>2. chain' = chain /\ receipts' = receipts /\ reorgs' = reorgs
    BY DEF provider
  <1>3. /\ RequestInv'
        /\ pc' \in [Requests -> {"idle", "preparing", "creating", "looking", "binding",
                                 "waiting", "confirming", "failing"}]
        /\ call' \in [Requests -> Calls \cup {None}]
        /\ intent' \in [Requests -> Intents \cup {None}]
        /\ tx' \in [Requests -> Txs \cup {None}]
    <2>1. \A j \in Intents : row[j].status # "none" =>
                row'[j].call = row[j].call /\ row'[j].status # "none"
      BY <1>1
    <2>2. \A j \in Intents : row[j].status \in {"broadcast", "confirmed", "failed"} =>
                /\ row'[j].tx = row[j].tx
                /\ row'[j].status \in {"broadcast", "confirmed", "failed"}
      BY <1>1
    <2> QED BY <1>1, <1>2, <2>1, <2>2, ReturnInv DEF IInv
  <1>4. TypeOK'
    BY <1>1, <1>2, <1>3 DEF IInv, TypeOK, Rows, quotes
  <1>5. ChainInv' /\ UnboundInv'
    BY <1>1, <1>2 DEF IInv, ChainInv, UnboundInv
  <1>6. StatusHasEvidence'
    <2>1. \A j \in Intents \ {i} : row'[j] = row[j] /\ events[j] \subseteq events'[j]
      BY <1>1
    <2>2. new.status # "none" => new.status \in {"simulated", "broadcast", "confirmed", "failed"}
      BY DEF Rows, Statuses
    <2>3. None \notin Txs
      BY TradeAssumption
    <2> QED BY <1>1, <1>2, <2>1, <2>2, <2>3 DEF IInv, StatusHasEvidence, Matches
  <1> QED BY <1>3, <1>4, <1>5, <1>6 DEF IInv

LEMMA LogType ==
    ASSUME IInv, NEW i \in Intents, NEW action \in {"created", "broadcast", "confirmed"},
           NEW t \in Txs \cup {None}, Log(i, action, t)
    PROVE  /\ events' \in [Intents -> SUBSET ({"created", "broadcast", "confirmed"} \X
                                              (Txs \cup {None}))]
           /\ \A j \in Intents : events[j] \subseteq events'[j]
           /\ <<action, t>> \in events'[i]
  BY DEF IInv, TypeOK, Log

LEMMA CreateIntentInv ==
    ASSUME IInv, NEW r \in Requests, CreateIntent(r)
    PROVE  IInv'
  <1> PICK i \in Intents :
        /\ row[i].status = "none"
        /\ row' = [row EXCEPT ![i] = [status |-> "simulated", call |-> call[r], tx |-> None]]
        /\ Log(i, "created", None)
    BY DEF CreateIntent
  <1> DEFINE new == [status |-> "simulated", call |-> call[r], tx |-> None]
  <1>1. Return(r) /\ UNCHANGED <<quotes, lapsed, provider>> /\ call[r] \in Calls
    BY DEF CreateIntent, IInv, RequestInv
  <1>2. new \in Rows /\ new.status = "simulated" /\ new.tx = None
    BY <1>1 DEF Rows, Statuses
  <1>3. row' = [row EXCEPT ![i] = new]
    OBVIOUS
  <1> HIDE DEF new
  <1>4. /\ events' \in [Intents -> SUBSET ({"created", "broadcast", "confirmed"} \X
                                          (Txs \cup {None}))]
        /\ \A j \in Intents : events[j] \subseteq events'[j]
        /\ <<"created", None>> \in events'[i]
    BY LogType
  <1> QED BY <1>1, <1>2, <1>3, <1>4, WriteInv

LEMMA BindInv ==
    ASSUME IInv, NEW r \in Requests, Bind(r)
    PROVE  IInv'
  <1> DEFINE i == intent[r]
             t == tx[r]
             new == IF row[i].status = "simulated"
                    THEN [row[i] EXCEPT !.status = "broadcast", !.tx = t] ELSE row[i]
  <1>1. /\ Return(r) /\ UNCHANGED <<quotes, lapsed, provider>>
        /\ i \in Intents /\ t \in Txs /\ row[i].status # "none"
        /\ chain[t] # "unknown" /\ Matches(i, t) /\ Log(i, "broadcast", t)
    BY DEF Bind, IInv, RequestInv
  <1>2. row[i] \in Rows
    BY <1>1 DEF IInv, TypeOK, Rows
  <1>3. row' = [row EXCEPT ![i] = new]
    <2>1. row[i] = [status |-> row[i].status, call |-> row[i].call, tx |-> row[i].tx]
      BY <1>2 DEF Rows
    <2> QED BY <1>1, <1>2, <2>1 DEF Bind, IInv, TypeOK, Rows
  <1>4. new \in Rows /\ new.call = row[i].call
    BY <1>1, <1>2 DEF Rows, Statuses
  <1>5. \/ new = row[i] /\ row[i].status # "simulated"
        \/ row[i].status = "simulated" /\ new.status = "broadcast" /\ new.tx = t
    BY <1>2 DEF Rows
  <1> HIDE DEF new
  <1>6. /\ events' \in [Intents -> SUBSET ({"created", "broadcast", "confirmed"} \X
                                          (Txs \cup {None}))]
        /\ \A j \in Intents : events[j] \subseteq events'[j]
        /\ <<"broadcast", t>> \in events'[i]
    BY <1>1, LogType
  <1>7. <<"created", None>> \in events'[i]
    BY <1>1, <1>6 DEF IInv, StatusHasEvidence
  <1>8. new.status \in {"broadcast", "confirmed", "failed"} =>
               /\ new.tx \in Txs /\ CallOf[new.tx] = new.call /\ chain[new.tx] # "unknown"
               /\ <<"broadcast", new.tx>> \in events'[i]
    BY <1>1, <1>2, <1>4, <1>5, <1>6 DEF IInv, StatusHasEvidence, Matches, Rows
  <1>9. /\ new.status = "confirmed" =>
               "success" \in receipts[new.tx] /\ <<"confirmed", new.tx>> \in events'[i]
        /\ new.status = "failed" => "reverted" \in receipts[new.tx]
        /\ new.status # "none" /\ new.status # "simulated"
    BY <1>1, <1>5, <1>6 DEF IInv, StatusHasEvidence
  <1>10. row[i].status \in {"broadcast", "confirmed", "failed"} =>
               new.tx = row[i].tx /\ new.status \in {"broadcast", "confirmed", "failed"}
    BY <1>5
  <1> HIDE DEF i, t
  <1> QED BY <1>1, <1>3, <1>4, <1>6, <1>7, <1>8, <1>9, <1>10, WriteInv

LEMMA ConfirmInv ==
    ASSUME IInv, NEW r \in Requests, Confirm(r)
    PROVE  IInv'
  <1> DEFINE i == intent[r]
             t == tx[r]
             new == IF row[i].status = "broadcast"
                    THEN [row[i] EXCEPT !.status = "confirmed"] ELSE row[i]
  <1>1. /\ Return(r) /\ UNCHANGED <<quotes, lapsed, provider>>
        /\ i \in Intents /\ t \in Txs /\ row[i].tx = t
        /\ row[i].status \in {"broadcast", "confirmed", "failed"}
        /\ "success" \in receipts[t] /\ Log(i, "confirmed", t)
    BY DEF Confirm, IInv, RequestInv
  <1>2. row[i] \in Rows
    BY <1>1 DEF IInv, TypeOK, Rows
  <1>3. row' = [row EXCEPT ![i] = new]
    <2>1. row[i] = [status |-> row[i].status, call |-> row[i].call, tx |-> row[i].tx]
      BY <1>2 DEF Rows
    <2> QED BY <1>1, <1>2, <2>1 DEF Confirm, IInv, TypeOK, Rows
  <1>4. /\ new \in Rows /\ new.call = row[i].call /\ new.tx = t
        /\ new.status \in {"confirmed", "failed"}
        /\ new.status = "failed" => row[i].status = "failed"
    BY <1>1, <1>2 DEF Rows, Statuses
  <1> HIDE DEF new
  <1>5. /\ events' \in [Intents -> SUBSET ({"created", "broadcast", "confirmed"} \X
                                          (Txs \cup {None}))]
        /\ \A j \in Intents : events[j] \subseteq events'[j]
        /\ <<"confirmed", t>> \in events'[i]
    BY <1>1, LogType
  <1>6. /\ <<"created", None>> \in events'[i] /\ <<"broadcast", t>> \in events'[i]
        /\ CallOf[t] = new.call /\ chain[t] # "unknown"
        /\ new.status = "failed" => "reverted" \in receipts[t]
    BY <1>1, <1>4, <1>5 DEF IInv, StatusHasEvidence, Matches
  <1> HIDE DEF i, t
  <1> QED BY <1>1, <1>3, <1>4, <1>5, <1>6, WriteInv

LEMMA FailInv ==
    ASSUME IInv, NEW r \in Requests, Fail(r)
    PROVE  IInv'
  <1> DEFINE i == intent[r]
             t == tx[r]
             new == [row[i] EXCEPT !.status = "failed"]
  <1>1. /\ Return(r) /\ UNCHANGED <<quotes, lapsed, events, provider>>
        /\ i \in Intents /\ t \in Txs /\ row[i].tx = t
        /\ row[i].status \in {"broadcast", "confirmed", "failed"}
        /\ "reverted" \in receipts[t] /\ Set(i, "failed")
    BY DEF Fail, IInv, RequestInv
  <1>2. row[i] \in Rows /\ row' = [row EXCEPT ![i] = new]
    BY <1>1 DEF IInv, TypeOK, Rows, Set
  <1>3. /\ new \in Rows /\ new.call = row[i].call /\ new.tx = t /\ new.status = "failed"
    BY <1>1, <1>2 DEF Rows, Statuses
  <1> HIDE DEF new
  <1>4. /\ events' \in [Intents -> SUBSET ({"created", "broadcast", "confirmed"} \X
                                          (Txs \cup {None}))]
        /\ \A j \in Intents : events[j] \subseteq events'[j]
    BY <1>1 DEF IInv, TypeOK
  <1>5. /\ <<"created", None>> \in events'[i] /\ <<"broadcast", t>> \in events'[i]
        /\ CallOf[t] = new.call /\ chain[t] # "unknown"
    BY <1>1, <1>3, <1>4 DEF IInv, StatusHasEvidence, Matches
  <1>6. UNCHANGED <<quotes, lapsed, provider>>
    BY <1>1
  <1> HIDE DEF i, t
  <1> QED BY <1>1, <1>2, <1>3, <1>4, <1>5, <1>6, WriteInv

LEMMA CrashInv ==
    ASSUME IInv, Crash
    PROVE  IInv'
  <1>1. TypeOK' /\ RequestInv'
    BY DEF IInv, TypeOK, RequestInv, Crash, tables, provider
  <1> QED BY <1>1, NothingWritten DEF IInv, Crash

LEMMA LapseInv ==
    ASSUME IInv, NEW x \in Quotes \cup Intents, Lapse(x)
    PROVE  IInv'
  <1>1. TypeOK' /\ RequestInv'
    BY DEF IInv, TypeOK, RequestInv, Matches, Lapse, quotes, tables, provider, request
  <1> QED BY <1>1, NothingWritten DEF IInv, Lapse

\* The chain remembers what it has seen.
LEMMA ChainStepInv ==
    ASSUME IInv, NEW t \in Txs,
           Send(t) \/ Reorg(t) \/ \E outcome \in Outcomes : MineTx(t, outcome)
    PROVE  IInv'
  <1>1. UNCHANGED <<quotes, lapsed, tables, request>>
    BY DEF Send, Reorg, MineTx
  <1>2. /\ chain' \in [Txs -> {"unknown", "pending"} \cup Outcomes]
        /\ receipts' \in [Txs -> SUBSET Outcomes]
        /\ reorgs' \in 0 .. MaxReorgs
        /\ \A u \in Txs : chain[u] # "unknown" => chain'[u] # "unknown"
        /\ \A u \in Txs : receipts[u] \subseteq receipts'[u]
        /\ ChainInv'
    <2>1. CASE Send(t)
      BY <2>1 DEF Send, IInv, TypeOK, ChainInv, Outcomes
    <2>2. CASE Reorg(t)
      BY <2>2, TradeAssumption DEF Reorg, IInv, TypeOK, ChainInv, Outcomes
    <2>3. ASSUME NEW outcome \in Outcomes, MineTx(t, outcome)
          PROVE  /\ chain' \in [Txs -> {"unknown", "pending"} \cup Outcomes]
                 /\ receipts' \in [Txs -> SUBSET Outcomes]
                 /\ reorgs' \in 0 .. MaxReorgs
                 /\ \A u \in Txs : chain[u] # "unknown" => chain'[u] # "unknown"
                 /\ \A u \in Txs : receipts[u] \subseteq receipts'[u]
                 /\ ChainInv'
      BY <2>3 DEF MineTx, IInv, TypeOK, ChainInv, Outcomes
    <2> QED BY <2>1, <2>2, <2>3
  <1>3. TypeOK'
    BY <1>1, <1>2 DEF IInv, TypeOK, quotes, tables, request
  <1>4. RequestInv'
    BY <1>1, <1>2 DEF IInv, RequestInv, Matches, tables, request
  <1>5. UnboundInv'
    BY <1>1 DEF IInv, UnboundInv, tables
  <1>6. StatusHasEvidence'
    <2>1. \A i \in Intents : row[i].tx # None => row[i].tx \in Txs
      BY DEF IInv, TypeOK
    <2> QED BY <1>1, <1>2, <2>1 DEF IInv, TypeOK, StatusHasEvidence, Matches, tables
  <1> QED BY <1>2, <1>3, <1>4, <1>5, <1>6 DEF IInv

LEMMA NextInv ==
    ASSUME IInv, [Next]_vars
    PROVE  IInv'
  <1>1. ASSUME NEW r \in Requests, Abort(r)
        PROVE  IInv'
    BY <1>1, EndInv DEF Abort
  <1>2. CASE UNCHANGED vars
    BY <1>2 DEF vars, quotes, tables, provider, request, IInv, TypeOK, RequestInv, ChainInv,
               UnboundInv, StatusHasEvidence, Matches
  <1>3. ASSUME NEW r \in Requests,
               \/ \E q \in Quotes : RequireQuote(r, q)
               \/ PrepareSwap(r) \/ PrepareApproval(r) \/ CreateIntent(r)
               \/ \E i \in Intents, t \in Txs : ReadForBroadcast(r, i, t)
               \/ GetTransaction(r) \/ Bind(r)
               \/ \E i \in Intents : ReadForConfirmation(r, i)
               \/ GetReceipt(r) \/ Confirm(r) \/ Fail(r) \/ Abort(r)
        PROVE  IInv'
    BY <1>1, <1>3, ReadInv, CreateIntentInv, BindInv, ConfirmInv, FailInv
  <1> QED BY <1>2, <1>3, QuoteInv, CrashInv, LapseInv, ChainStepInv DEF Next

LEMMA InitInv == Init => IInv
  <1> SUFFICES ASSUME Init PROVE IInv
    OBVIOUS
  <1>1. TypeOK
    BY TradeAssumption DEF Init, TypeOK, Calls, Statuses
  <1>2. RequestInv /\ ChainInv /\ UnboundInv /\ StatusHasEvidence
    BY DEF Init, RequestInv, ChainInv, UnboundInv, StatusHasEvidence, Outcomes
  <1> QED BY <1>1, <1>2 DEF IInv

LEMMA Invariance == Spec => []IInv
  BY InitInv, NextInv, PTL DEF Spec

\* The variables keep their types, for every number of requests and intents.
THEOREM TypeCorrect == Spec => []TypeOK
  <1>1. IInv => TypeOK
    BY DEF IInv
  <1> QED BY <1>1, Invariance, PTL

\* An intent that says so was sent, succeeded or reverted, whatever requests
\* and reorganisations came between what was read and what was written
\* (trading-service.ts:425).
THEOREM StatusesHaveEvidence == Spec => []StatusHasEvidence
  <1>1. IInv => StatusHasEvidence
    BY DEF IInv
  <1> QED BY <1>1, Invariance, PTL

\* No two requests bind an intent to two hashes (trading-service.ts:361).
THEOREM IntentsBindOnce == Spec => BindsOneTransaction
  <1> DEFINE Binding == \A i \in Intents :
        /\ row[i].tx # None => row'[i].tx = row[i].tx
        /\ row[i].status \in {"confirmed", "failed"} =>
               row'[i].status \in {row[i].status, "failed"}
  <1>1. IInv /\ [Next]_vars => [Binding]_vars
    <2> SUFFICES ASSUME IInv, Next PROVE Binding
      BY DEF vars
    <2> USE DEF IInv, TypeOK, UnboundInv
    <2>1. CASE row' = row
      BY <2>1
    <2>2. ASSUME NEW r \in Requests, CreateIntent(r)
          PROVE  Binding
      BY <2>2 DEF CreateIntent
    <2>3. ASSUME NEW r \in Requests, Bind(r)
          PROVE  Binding
      BY <2>3 DEF Bind, RequestInv
    <2>4. ASSUME NEW r \in Requests, Confirm(r)
          PROVE  Binding
      BY <2>4 DEF Confirm, RequestInv
    <2>5. ASSUME NEW r \in Requests, Fail(r)
          PROVE  Binding
      BY <2>5 DEF Fail, Set, RequestInv
    <2>6. row' = row \/ \E r \in Requests : CreateIntent(r) \/ Bind(r) \/ Confirm(r) \/ Fail(r)
      BY DEF Next, Quote, RequireQuote, PrepareSwap, PrepareApproval, ReadForBroadcast,
             GetTransaction, ReadForConfirmation, GetReceipt, Abort, Crash, Lapse, Send,
             Reorg, MineTx, tables
    <2> QED BY <2>1, <2>2, <2>3, <2>4, <2>5, <2>6
  <1> QED BY <1>1, Invariance, PTL DEF Spec, BindsOneTransaction
===============================================================================
