------------------------------ MODULE ChainView ------------------------------
(***************************************************************************)
(* The chain that the watcher and the indexer read, with the policy both   *)
(* judge it by: blocks are added and, above the finality line, replaced.   *)
(***************************************************************************)
EXTENDS Naturals, FiniteSets, FiniteSetsExt

CONSTANTS
    Txs,          \* transactions somebody may send
    Depth,        \* ConfirmationPolicy.depth
    Window,       \* ConfirmationPolicy.reorgWatchWindow
    MaxHeight,    \* bound: the chain's height
    MaxReorgs     \* bound: reorganisations

Heights == 1 .. MaxHeight

ASSUME ChainAssumption ==
    Depth \in Nat \ {0} /\ Window \in Nat \ {0} /\ MaxHeight \in Nat /\ MaxReorgs \in Nat

VARIABLES
    head,     \* number of the last block
    hash,     \* hash of the block at each height, a number never used there before
    at,       \* height of each transaction, 0 while it is in no block (not sent, or waiting)
    final,    \* height of the last block that was ever Depth deep
    reorgs    \* reorganisations so far

chain == <<head, hash, at, final, reorgs>>

TopOf(a, b) == IF a >= b THEN a ELSE b
LowOf(a, b) == IF a <= b THEN a ELSE b
Minus(a, b) == IF a >= b THEN a - b ELSE 0

InBlock(h) == {x \in Txs : at[x] = h}
Mempool == {x \in Txs : at[x] = 0}
Settled == {x \in Txs : at[x] \in 1 .. final}

\* confirmationsOf: the head block has one.
Confirmations(h, top) == IF h > top THEN 0 ELSE top - h + 1

\* Mutant: one confirmation too few.
DeepEnough_Shallow(h, top) == Confirmations(h, top) + 1 >= Depth

DeepEnough(h, top) == Confirmations(h, top) >= Depth

InReorgWatch(h, top) == Confirmations(h, top) <= Depth * Window

\* classifyDeposit of a row, by the height and hash it was seen at, a head read
\* before and the hash the chain has there now.
Classify(row, top) ==
    IF row.height > head THEN "PENDING"
    ELSE IF hash[row.height] # row.hash THEN "ORPHANED"
    ELSE IF DeepEnough(row.height, top) THEN "CONFIRMED"
    ELSE "PENDING"

FinalAfter(top) == TopOf(final, Minus(top + 1, Depth))

\* A block with some of the mempool.
Grow ==
    /\ head < MaxHeight
    /\ head' = head + 1
    /\ hash' = [hash EXCEPT ![head + 1] = reorgs]
    /\ \E X \in SUBSET Mempool : at' = [x \in Txs |-> IF x \in X THEN head + 1 ELSE at[x]]
    /\ final' = FinalAfter(head + 1)
    /\ UNCHANGED reorgs

\* The blocks from h on are replaced, perhaps by one fewer: their transactions are
\* mined again anywhere in the new ones, or wait.
Reorg ==
    /\ reorgs < MaxReorgs
    /\ \E h \in final + 1 .. head, top \in {head, Minus(head, 1)} :
          /\ h <= top + 1
          /\ head' = top
          /\ hash' = [k \in Heights |-> IF k >= h /\ k <= top THEN reorgs + 1 ELSE hash[k]]
          /\ \E place \in [{x \in Txs : at[x] = 0 \/ at[x] >= h} -> {0} \cup h .. top] :
                at' = [x \in Txs |-> IF x \in DOMAIN place THEN place[x] ELSE at[x]]
    /\ reorgs' = reorgs + 1
    /\ UNCHANGED final

ChainInit ==
    /\ head = 0 /\ hash = [h \in Heights |-> 0]
    /\ at = [x \in Txs |-> 0] /\ final = 0 /\ reorgs = 0

(***************************************************************************)
(* What holds of the chain, and of what was seen on it                     *)
(***************************************************************************)

\* Every transaction is in a block there is, or in none; a hash that is there is
\* not newer than the last reorganisation; what is Depth deep is final.
ChainInv ==
    /\ head \in 0 .. MaxHeight /\ reorgs \in 0 .. MaxReorgs
    /\ hash \in [Heights -> 0 .. reorgs] /\ at \in [Txs -> 0 .. head]
    /\ final \in 0 .. head /\ final >= Minus(head + 1, Depth)

\* The block at height h with hash n is not in the chain now.
Gone(h, n) == h > head \/ hash[h] # n

\* x was seen at height h in a block with hash n: it is still there if that block
\* is, and a block that is gone does not come back.
SeenAt(x, h, n) ==
    /\ h \in Heights /\ n \in 0 .. reorgs
    /\ h > head => n < reorgs
    /\ ~Gone(h, n) => at[x] = h

=============================================================================
