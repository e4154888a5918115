------------------------------ MODULE ChainFacts ------------------------------
(***************************************************************************)
(* The chain as an RPC provider reports it, and the rows the indexer keeps *)
(* of it (packages/db/src/schema/chain-facts.ts).                          *)
(*                                                                         *)
(* Every block that may ever exist is a member of the constant Blocks: a   *)
(* block hash.  A chain is the sequence of hashes from height 0 to its     *)
(* tip, so the block of height n is c[n + 1].  Rows are the values of      *)
(* functions over hashes, as the tables are keyed by block hash; the       *)
(* transaction tables are keyed by transaction hash alone.                 *)
(***************************************************************************)
EXTENDS Integers, Sequences, FiniteSets

CONSTANTS
    Blocks,     \* block hashes, of every fork
    Number,     \* the height of a block
    Parent,     \* the parent hash a block carries
    NoHash,     \* null, where a hash is expected
    Chains,     \* the chains a provider may report
    Txs,        \* transaction hashes
    TxsOf       \* the transactions a block carries

\* A chain starts at height 0, rises by one and is linked by parent hashes.
IsChain(c) ==
    /\ c \in Seq(Blocks)
    /\ c # << >>
    /\ \A i \in 1 .. Len(c) : Number[c[i]] = i - 1
    /\ \A i \in 2 .. Len(c) : Parent[c[i]] = c[i - 1]

ASSUME BlockAssumption ==
    /\ Number \in [Blocks -> Nat]
    /\ Parent \in [Blocks -> Blocks \cup {NoHash}]
    /\ NoHash \notin Blocks
    /\ TxsOf \in [Blocks -> SUBSET Txs]

ASSUME ChainAssumption == \A c \in Chains : IsChain(c)

Tip(c) == Len(c) - 1

HasBlock(c, n) == n \in 0 .. Tip(c)

BlockAt(c, n) == c[n + 1]

\* How many blocks of c the chain d has abandoned.
ReorgDepth(c, d) ==
    Cardinality({i \in 1 .. Len(c) : i > Len(d) \/ c[i] # d[i]})

IsExtension(c, d) == Len(d) = Len(c) + 1 /\ SubSeq(d, 1, Len(c)) = c

-------------------------------------------------------------------------------
(* Rows.  A block row is "unfinal" (pending, soft_confirmed or safe) or    *)
(* "finalized" while canonical; "orphaned" sets canonical to false and     *)
(* finality_state to 'orphaned' in one statement.                          *)

BlockStatus == {"absent", "unfinal", "finalized", "orphaned"}

FactStatus == {"absent", "canonical", "orphaned"}

\* A row keyed by transaction hash names the block it was read from.
TxRows == [block : Blocks \cup {NoHash}, canonical : BOOLEAN]

NoTxRow == [block |-> NoHash, canonical |-> FALSE]

CanonicalRows(rows) ==
    {b \in DOMAIN rows : rows[b] \in {"unfinal", "finalized", "canonical"}}

CanonicalAt(rows, n) == {b \in CanonicalRows(rows) : Number[b] = n}

InRange(n, from, to) == from <= n /\ n <= to

\* INSERT ... ON CONFLICT DO NOTHING of the blocks of a batch.
InsertBlocks(rows, new, status) ==
    [b \in Blocks |-> IF b \in new /\ rows[b] = "absent" THEN status ELSE rows[b]]

\* The same into a table keyed by transaction hash: the first row stays,
\* whichever block it names and whether or not it is still canonical.
InsertTxs(rows, new) ==
    [t \in Txs |-> IF rows[t] = NoTxRow /\ \E b \in new : t \in TxsOf[b]
                   THEN [block |-> CHOOSE b \in new : t \in TxsOf[b],
                         canonical |-> TRUE]
                   ELSE rows[t]]

\* An upsert that takes the new row's canonical flag.
UpsertCanonical(rows, new) ==
    [b \in Blocks |-> IF b \in new THEN "canonical" ELSE rows[b]]

\* UPDATE ... SET canonical = false WHERE number BETWEEN from AND to AND canonical.
OrphanRange(rows, from, to) ==
    [b \in Blocks |-> IF b \in CanonicalRows(rows) /\ InRange(Number[b], from, to)
                      THEN "orphaned" ELSE rows[b]]

OrphanTxRange(rows, from, to) ==
    [t \in Txs |-> IF rows[t].canonical /\ InRange(Number[rows[t].block], from, to)
                   THEN [rows[t] EXCEPT !.canonical = FALSE] ELSE rows[t]]

\* No canonical fact of a height in the range is left in a table.
Clean(rows, from, to) ==
    \A b \in CanonicalRows(rows) : ~InRange(Number[b], from, to)

TxClean(rows, from, to) ==
    \A t \in Txs : rows[t].canonical => ~InRange(Number[rows[t].block], from, to)
===============================================================================
