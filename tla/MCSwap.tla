------------------------------- MODULE MCSwap -------------------------------
(***************************************************************************)
(* Instances of SwapProgram for TLC.                                       *)
(***************************************************************************)
EXTENDS SwapRefinement

CONSTANTS m, t, a, b, OtherRing

GenesisNote(owner, asset, amount) ==
  [owner |-> owner, asset |-> asset, amount |-> amount, data |-> NoData,
   ring |-> DefaultRing, blinding |-> Chosen(m), ciphertext |-> NoCiphertext]

\* The maker's funding note is held by the PDA, as in the test fixture; both
\* wallets hold a note that could pay for an order.
MCGenesis == <<GenesisNote(Authority, a, 2), GenesisNote(t, b, 1), GenesisNote(m, b, 1)>>

MCTerms(amount, expiry, takeMode) ==
  [destinationAsset |-> b, destinationAmount |-> amount, maker |-> m,
   expiry |-> expiry, taker |-> t, takeMode |-> takeMode]

\* Two funding notes, and two wallets that compete to take.
TwoFunded == <<GenesisNote(Authority, a, 1), GenesisNote(Authority, a, 1),
               GenesisNote(t, b, 1), GenesisNote(m, b, 1)>>

\* One order per rail, one that can never be paid and one that never expires.
MCPayload ==
  {MCTerms(1, 1, TakeModeDerived), MCTerms(1, 1, TakeModeVerifiable),
   MCTerms(0, 1, TakeModeDerived), MCTerms(1, MaxExpiry, TakeModeVerifiable)}

\* One order per rail.
BothRails == {MCTerms(1, 1, TakeModeDerived), MCTerms(1, 1, TakeModeVerifiable)}

\* Every transaction is signed by one wallet.
OneSigner == {{p} : p \in Party}

\* A clock reading that both windows reject.
BeforeEpoch == -1
=============================================================================
