------------------------------ MODULE MCEscrow ------------------------------
(***************************************************************************)
(* Instances of EscrowProgram for TLC.                                     *)
(***************************************************************************)
EXTENDS EscrowProgram

CONSTANTS c, d, sol, OtherRing

\* Creator c and another wallet d.  The funding notes of escrows are held by
\* the PDA, as in the test fixture; d also holds a note of its own.
MCGenesis ==
  <<[owner |-> Authority, asset |-> sol, amount |-> 2, data |-> NoData, ring |-> DefaultRing,
     blinding |-> Chosen(c), ciphertext |-> NoCiphertext],
    [owner |-> Authority, asset |-> sol, amount |-> 1, data |-> NoData, ring |-> DefaultRing,
     blinding |-> Chosen(d), ciphertext |-> NoCiphertext],
    [owner |-> d, asset |-> sol, amount |-> 1, data |-> NoData, ring |-> DefaultRing,
     blinding |-> Chosen(d), ciphertext |-> NoCiphertext]>>

\* An escrow already unlocked when it is made, one that unlocks later and one
\* that never does.
MCPayload ==
  {[owner |-> c, unlock |-> 0], [owner |-> c, unlock |-> 1],
   [owner |-> d, unlock |-> 1], [owner |-> c, unlock |-> MaxExpiry]}

OneSigner == {{p} : p \in Party}

\* A clock reading that the window rejects.
BeforeEpoch == -1
=============================================================================
