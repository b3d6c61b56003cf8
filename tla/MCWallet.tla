------------------------------ MODULE MCWallet ------------------------------
(***************************************************************************)
(* Instances of WalletFlows for TLC.                                       *)
(***************************************************************************)
EXTENDS WalletFlows

CONSTANTS p, q, s

Together(x, y, z) == [r \in {p, q, s} |-> CASE r = p -> x [] r = q -> y [] r = s -> z]

Rust(x) == [example |-> x, client |-> "rust"]
Ts(x)   == [example |-> x, client |-> "typescript"]

\* Processes of one wallet that run at the same time.
MCScenarios ==
  {Together(Rust("deposit_transfer_withdraw"), Ts("deposit_transfer_withdraw"),
            Rust("sync_balance")),
   Together(Ts("deposit_with_interface_setup"), Rust("deposit_with_interface_setup"),
            Rust("idle")),
   Together(Ts("deposit_with_interface_setup"), Rust("sync_balance"), Rust("sync_balance")),
   Together(Rust("register_private_wallet"), Ts("deposit_transfer_withdraw"), Rust("idle"))}
=============================================================================
