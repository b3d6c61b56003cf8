--------------------------- MODULE SwapRefinement ---------------------------
(***************************************************************************)
(* The swap program implements AtomicSwap: balances are what an owner's    *)
(* unspent notes add up to, the book is read off the orders in the tree    *)
(* and the receipts of the transactions that spent them.                   *)
(***************************************************************************)
EXTENDS SwapProgram

\* What a note adds to owner w's balance of asset x: an order is in the book.
Credit(n, w, x) ==
  IF n.owner = w /\ n.asset = x /\ ~(w = Authority /\ n.data # NoData) THEN n.amount ELSE 0

Balance ==
  [w \in Owner |-> [x \in Asset |-> SumFunction([i \in Unspent |-> Credit(leaves[i], w, x)])]]

OrderState(o) ==
  IF o \notin DOMAIN nullifiers THEN "open"
  ELSE IF nullifiers[o].ix \in TakeRails THEN "filled"
  ELSE IF nullifiers[o].ix = "cancel" THEN "refunded"
  ELSE "lost"

Book ==
  [o \in Orders |-> [asset |-> leaves[o].asset, amount |-> leaves[o].amount,
                     terms |-> leaves[o].data, state |-> OrderState(o)]]

Atomic == INSTANCE AtomicSwap
  WITH Terms <- Payload, Verifiable <- TakeModeVerifiable,
       balance <- Balance, book <- Book, clock <- now

(***************************************************************************)
(* Every behaviour of the program is a behaviour of AtomicSwap: no step    *)
(* changes a balance or an order except by placing, filling or refunding   *)
(* an order or by a transfer its sender signed.                            *)
(***************************************************************************)
ImplementsAtomicSwap == Atomic!AtomicSpec
=============================================================================
