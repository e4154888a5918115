--------------------------- MODULE TokenEntitlements ---------------------------
(***************************************************************************)
(* Access tiers by token balance (apps/api/src/token-entitlement-service.ts, *)
(* packages/entitlements).  A user's request reconciles the tier of a      *)
(* wallet with the balance the worker projected and with the chain's, in   *)
(* steps between which blocks are mined, replaced, indexed and projected.  *)
(* A block's timestamp is its height.                                      *)
(***************************************************************************)
EXTENDS Integers, Sequences, FiniteSetsExt

CONSTANTS
    Requests,           \* concurrent requests
    Amounts,            \* the balances the wallet may have
    Minimums,           \* the smallest balance of the tiers above free, 1 .. n
    MinimumHolding,     \* minimumHoldingSeconds
    MaxHeight,          \* bound: the chain's height
    MaxReorgs           \* bound: blocks that are replaced

ASSUME EntitlementAssumption ==
    /\ Amounts \subseteq Nat /\ 0 \in Amounts
    /\ Minimums \in Seq(Nat \ {0})
    /\ MinimumHolding \in Nat
    /\ MaxHeight \in Nat /\ MaxReorgs \in Nat

VARIABLES
    chain,              \* the provider's blocks: fork, balance, and whether it moved
    seen,               \* the canonical blocks of the database
    due,                \* the transfers whose jobs have not been done yet: height and fork
    indexed,            \* token_balances: a balance and as_of_block, 0 if there is none
    tier,               \* token_entitlement_states
    row,                \* whether that row exists, and its expires_at has not passed
    pc, read,           \* a request, and the indexed balance it read
    reorgs

database == <<seen, due, indexed>>
request == <<pc, read>>
vars == <<chain, database, tier, row, request, reorgs>>

Tiers == 0 .. Len(Minimums)
None == -1

NoTier == [granted |-> 0, candidate |-> None, since |-> None, start |-> None]

NoBalance == [amount |-> 0, asOf |-> 0]

Init ==
    /\ chain = <<>>
    /\ seen = <<>>
    /\ due = {}
    /\ indexed = NoBalance
    /\ tier = NoTier
    /\ row = "none"
    /\ pc = [r \in Requests |-> "idle"]
    /\ read = [r \in Requests |-> NoBalance]
    /\ reorgs = 0

-------------------------------------------------------------------------------
(* The chain, the indexer and the projection of balances.                  *)

Amount(blocks) == IF blocks = <<>> THEN 0 ELSE blocks[Len(blocks)].amount

Extensions(blocks) ==
    {Append(blocks, [fork |-> reorgs', amount |-> a, moved |-> m]) :
        <<a, m>> \in {<<a, m>> \in Amounts \X BOOLEAN : m \/ a = Amount(blocks)}}

Mine ==
    /\ Len(chain) < MaxHeight
    /\ UNCHANGED reorgs
    /\ chain' \in Extensions(chain)
    /\ UNCHANGED <<database, tier, row, request>>

\* The newest block is replaced.
Reorg ==
    /\ reorgs < MaxReorgs
    /\ chain # <<>>
    /\ reorgs' = reorgs + 1
    /\ chain' \in Extensions(SubSeq(chain, 1, Len(chain) - 1))
    /\ UNCHANGED <<database, tier, row, request>>

OnChain == Len(seen) <= Len(chain) /\ seen = SubSeq(chain, 1, Len(seen))

Index ==
    /\ OnChain
    /\ Len(seen) < Len(chain)
    /\ seen' = Append(seen, chain[Len(seen) + 1])
    /\ LET n == Len(seen) + 1
       IN  due' = IF chain[n].moved THEN due \cup {<<n, chain[n].fork>>} ELSE due
    /\ UNCHANGED <<chain, indexed, tier, row, request, reorgs>>

\* A reorg orphans transfers, and projects nothing.
Rollback ==
    /\ ~OnChain
    /\ seen' = SubSeq(seen, 1, Len(seen) - 1)
    /\ UNCHANGED <<chain, due, indexed, tier, row, request, reorgs>>

\* The blocks whose transfer is in token_transfers, and canonical there.
Transferred(blocks, missing) ==
    {n \in DOMAIN blocks : blocks[n].moved /\ <<n, blocks[n].fork>> \notin missing}

\* projectTokenBalances: the sum of the transfers, as of the block of the last one.
Projection(blocks, missing) ==
    LET heights == Transferred(blocks, missing)
        moved(n) == Amount(SubSeq(blocks, 1, n)) - Amount(SubSeq(blocks, 1, n - 1))
    IN  [amount |-> MapThenSumSet(moved, heights), asOf |-> Max(heights \cup {0})]

\* processTokenTransfer: one transaction, in which the transfer is canonical if its
\* block is.
Project ==
    /\ \E transfer \in due : due' = due \ {transfer}
    /\ indexed' = Projection(seen, due')
    /\ UNCHANGED <<chain, seen, tier, row, request, reorgs>>

-------------------------------------------------------------------------------
(* reconcile                                                               *)

Goto(r, where) == pc' = [pc EXCEPT ![r] = where]

\* The request goes on with what it read if a condition holds, and else is answered
\* "unavailable".
GoOnIf(r, holds, where) ==
    /\ Goto(r, IF holds THEN where ELSE "idle")
    /\ read' = IF holds THEN read ELSE [read EXCEPT ![r] = NoBalance]

ReadBalance(r) ==
    /\ pc[r] = "idle"
    /\ indexed.asOf > 0
    /\ read' = [read EXCEPT ![r] = indexed]
    /\ Goto(r, "block")
    /\ UNCHANGED <<chain, database, tier, row, reorgs>>

\* The canonical block of that height.
ReadBlock(r) ==
    /\ pc[r] = "block"
    /\ GoOnIf(r, read[r].asOf <= Len(seen), "chain")
    /\ UNCHANGED <<chain, database, tier, row, reorgs>>

\* Bug: only a balance as of the newest block is reconciled.
AgreeAtHead(r) == read[r].asOf = Len(chain) /\ Amount(chain) = read[r].amount

\* The bytecode and the indexed identity are those of the configured token, and
\* the chain's balance at that height is the indexed one.
Agree(r) == read[r].asOf <= Len(chain) /\ chain[read[r].asOf].amount = read[r].amount

ReadChain(r) ==
    /\ pc[r] = "chain"
    /\ GoOnIf(r, Agree(r), "commit")
    /\ UNCHANGED <<chain, database, tier, row, reorgs>>

CalculateTier(amount) ==
    CHOOSE t \in Tiers :
        /\ t > 0 => amount >= Minimums[t]
        /\ \A u \in t + 1 .. Len(Minimums) : amount < Minimums[u]

\* advanceEntitlementState: a downgrade is made at once, an upgrade when the tier
\* has been a candidate long enough without a transfer.
Advance(current, eligible, at, reset) ==
    LET changed == current.candidate # eligible \/ reset
        since == IF changed THEN at ELSE current.since
    IN  IF eligible <= current.granted \/ at - since >= MinimumHolding
        THEN [granted |-> eligible, candidate |-> None, since |-> None]
        ELSE [granted |-> current.granted, candidate |-> eligible, since |-> since]

\* What a request makes of the row it read, and writes over whatever is there.
Upsert(r, current, reset) ==
    LET at == read[r].asOf
        next == Advance(current, CalculateTier(read[r].amount), at, reset)
        same == next.candidate = current.candidate /\ next.since = current.since /\ ~reset
    IN  /\ tier' = [granted |-> next.granted, candidate |-> next.candidate, since |-> next.since,
                    start |-> IF next.candidate = None THEN None
                              ELSE IF same THEN current.start ELSE at]
        /\ row' = "fresh"
        /\ Goto(r, "idle")
        /\ read' = [read EXCEPT ![r] = NoBalance]
        /\ UNCHANGED <<chain, database, reorgs>>

\* SELECT ... FOR UPDATE locks the row until the transaction ends, which looks for
\* transfers since the candidate.
Commit(r) ==
    /\ pc[r] = "commit"
    /\ row # "none"
    /\ Upsert(r, tier,
              tier.start # None /\ \E n \in Transferred(seen, due) : n > tier.start)

\* There is no row to lock: another request may insert the first one meanwhile.
FindNoRow(r) ==
    /\ pc[r] = "commit"
    /\ row = "none"
    /\ Goto(r, "insert")
    /\ UNCHANGED <<chain, database, tier, row, read, reorgs>>

CommitFirst(r) ==
    /\ pc[r] = "insert"
    /\ Upsert(r, NoTier, FALSE)

Expire ==
    /\ row = "fresh"
    /\ row' = "expired"
    /\ UNCHANGED <<chain, database, tier, request, reorgs>>

Reconcile(r) == ReadBalance(r) \/ ReadBlock(r) \/ ReadChain(r) \/ Commit(r) \/ FindNoRow(r) \/ CommitFirst(r)

Next ==
    \/ Mine \/ Reorg \/ Index \/ Rollback \/ Project \/ Expire
    \/ \E r \in Requests : Reconcile(r)

Spec == Init /\ [][Next]_vars

\* The indexer and the worker go on, and the user asks again and again.
FairSpec ==
    /\ Spec
    /\ WF_vars(Index \/ Rollback) /\ WF_vars(Project)
    /\ \A r \in Requests : WF_vars(Reconcile(r))

-------------------------------------------------------------------------------
(* Properties.                                                             *)

\* A transfer's job is done, and what it projected is out of date for good.
IndexIsStale == <>[](indexed # Projection(chain, {}))

\* When transfers end, what status() serves is the tier of the wallet's balance, and
\* it is served again and again, whatever was in flight (token-entitlement-service.ts:131),
\* unless a reorg took away the block of the indexed balance (reorg-detector.ts:177).
TiersFollowBalances ==
    \/ IndexIsStale
    \/ /\ <>[](row = "fresh" => tier.granted = CalculateTier(Amount(chain)))
       /\ []<>(row = "fresh" \/ indexed.asOf = 0)

\* A tier that waits for its holding duration while the balance rests is granted in
\* the end (token-gating.test.ts:22, "waits before an upgrade and downgrades without
\* delay").
Waiting ==
    /\ tier.candidate # None
    /\ Len(chain) - tier.since >= MinimumHolding
    /\ \A n \in 1 .. Len(chain) : n > tier.start => ~chain[n].moved

WaitingIsRewarded == Waiting ~> ~Waiting
===============================================================================
