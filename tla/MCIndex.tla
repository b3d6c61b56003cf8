------------------------------ MODULE MCIndex -------------------------------
(***************************************************************************)
(* Instances of OrderIndex for TLC: maker m, takers t and u.               *)
(***************************************************************************)
EXTENDS OrderIndex

CONSTANTS m, t, u, am, other

MCHome == [w \in Wallet |-> IF w = m THEN am ELSE other]

Taker == [wallet |-> t, role |-> "taker"]
Maker == [wallet |-> m, role |-> "maker"]

TheTaker    == {Taker}
TakerAlone  == {{Taker}}
MakerAndTaker == {Maker, Taker}
EitherAlone == {{Maker}, {Taker}}

OrderLeaf(id, tree) ==
  [address |-> am, data |-> [id |-> id, assets |-> {"SOL", "USDC"}], tree |-> tree]

PlainLeaf == [address |-> other, data |-> NoOrder, tree |-> 0]

MCSlot(encoding, index, to, leaf) ==
  [encoding |-> encoding, index |-> index, to |-> to, leaf |-> leaf]

\* A make by m of an order for `to', marked with a tag.
MakeTx(id, tree, to, tag, change) ==
  [author |-> m, tags |-> {m, tag},
   marker |-> [tag |-> tag, order |-> OrderLeaf(id, tree), maker |-> m],
   slots |-> <<MCSlot(change, 0, m, PlainLeaf),
               MCSlot("confidential", IF change = "empty" THEN 0 ELSE 1, to,
                      OrderLeaf(id, tree))>>]

\* A settlement or transfer that reaches t: no marker.
PlainTx ==
  [author |-> u, tags |-> {t}, marker |-> NoMarker,
   slots |-> <<MCSlot("confidential", 0, t, PlainLeaf)>>]

\* Two orders for t, one of them without a change ciphertext, another one in
\* another tree, and a transfer.
MCTransactions ==
  {MakeTx(1, 0, t, t, "empty"), MakeTx(2, 0, t, t, "confidential"),
   MakeTx(3, 1, t, t, "encrypted"), PlainTx}

\* Two orders for t, and an order for u under the tag of t.
MistaggedTransactions ==
  {MakeTx(1, 0, t, t, "empty"), MakeTx(2, 0, t, t, "confidential"),
   MakeTx(3, 0, u, t, "empty")}

MCKnownAssets == {"USDC"}
=============================================================================
