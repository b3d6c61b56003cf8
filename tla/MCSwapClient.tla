---------------------------- MODULE MCSwapClient ----------------------------
(***************************************************************************)
(* Instances of SwapClient for TLC.                                        *)
(***************************************************************************)
EXTENDS SwapClient

CONSTANTS m, t, a, b

GenesisNote(owner, asset, amount) ==
  [owner |-> owner, asset |-> asset, amount |-> amount, data |-> NoData,
   ring |-> DefaultRing, blinding |-> Chosen(m), ciphertext |-> NoCiphertext]

\* A funding note, a note of the taker that holds the price and one that holds
\* more.
MCGenesis == <<GenesisNote(Authority, a, 1), GenesisNote(t, b, 1), GenesisNote(t, b, 2)>>

MCTerms(amount, expiry, takeMode) ==
  [destinationAsset |-> b, destinationAmount |-> amount, maker |-> m,
   expiry |-> expiry, taker |-> t, takeMode |-> takeMode]

\* One order per rail.
MCPayload == {MCTerms(1, 0, TakeModeDerived), MCTerms(1, 0, TakeModeVerifiable)}

\* The maker signs alone, or with a relayer that pays.
MCSignerSets == {{m}, {t}, {m, t}}

BeforeEpoch == -1
=============================================================================
