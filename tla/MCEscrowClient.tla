--------------------------- MODULE MCEscrowClient ---------------------------
(***************************************************************************)
(* Instances of EscrowClient for TLC.                                      *)
(***************************************************************************)
EXTENDS EscrowClient

CONSTANTS c, d, sol

GenesisNote(owner, amount) ==
  [owner |-> owner, asset |-> sol, amount |-> amount, data |-> NoData, ring |-> DefaultRing,
   blinding |-> Chosen(c), ciphertext |-> NoCiphertext]

\* A funding note that two escrows compete for, and a note of wallet d.
MCGenesis == <<GenesisNote(Authority, 2), GenesisNote(d, 1)>>

\* An escrow of each wallet.
MCPayload == {[owner |-> c, unlock |-> 0], [owner |-> d, unlock |-> 0]}

\* The creator signs alone, or with a relayer that pays.
MCSignerSets == {{c}, {d}, {c, d}}
=============================================================================
