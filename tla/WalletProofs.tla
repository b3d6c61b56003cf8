---------------------------- MODULE WalletProofs ----------------------------
(***************************************************************************)
(* Proofs about WalletFlows: the assertions of the examples hold, their    *)
(* transactions are rejected only by a race for a mint's interface, a SOL  *)
(* flow that ends early leaves its funds in one spendable note, a scan     *)
(* that met unknown mints can be repeated, and a balance shown is the sum  *)
(* of what landed.                                                         *)
(*                                                                         *)
(* The inductive invariant says which transaction each step of a process   *)
(* sends, and that every signature is on the chain or in flight once.  A   *)
(* note is then spent only by the step after the one that made it, and     *)
(* what a process reads back under its signature is its own.  The books    *)
(* add that what is spendable is worth what the transactions moved.        *)
(***************************************************************************)
EXTENDS WalletFlows, Sums

-----------------------------------------------------------------------------
(***************************************************************************)
(* The inductive invariant.                                                *)
(***************************************************************************)
AnyNote == [sig : Run \X Nat, owner : {"sender", "recipient"}, mint : Run \cup {Sol}, amount : Int]

Operation == {"deposit", "transfer", "withdraw", "setup_test_token", "deposit_spl", "fund",
              "register", "create_interface"}

AnyTx == [sig : Run \X Nat, op : Operation, creates : SUBSET Run, spends : SUBSET AnyNote,
          outs : SUBSET AnyNote, amount : Nat]

Phase == {"check", "build", "sent", "confirmed", "located", "registered", "registry", "scan",
          "done", "failed"}

Problem == {"none", "rejected", "timeout", "status missing", "not registered",
            "registry missing", "assertion", "unknown mint", "request"}

RunState ==
  [example : Example, client : {"rust", "typescript"}, step : Nat, phase : Phase, slot : Nat,
   utxos : SUBSET AnyNote, assets : SUBSET (Run \cup {Sol}), found : BOOLEAN, error : Problem]

\* What step k of an example is.
Kind(state, k) == Steps[state.example][k]

\* The step and the phase a process can be in.
PhaseOK(state) ==
  /\ \/ state.example = "idle" /\ state.phase = "done"
     \/ state.example # "idle" /\ state.step \in 1 .. Len(Steps[state.example])
  /\ state.phase = "check" => StepOf(state) = "deposit_spl"
  /\ state.phase \in {"registry", "scan"} => state.example = "sync_balance"
  /\ state.phase \in {"build", "sent"} => state.example # "sync_balance"
  /\ state.phase = "confirmed" => StepOf(state) \in ReadsBack /\ state.client = "rust"
  /\ state.phase = "located" => StepOf(state) \in ReadsBack
  /\ state.phase = "registered" => StepOf(state) = "register"

\* The process has sent the transaction of step k.
Gone(state, k) ==
  \/ k < state.step
  \/ k = state.step /\ state.phase \notin {"check", "build", "registry", "scan"}

\* The sender's note that step k of process r makes.
Made(r, kind, k) ==
  [sig |-> <<r, k>>, owner |-> "sender", mint |-> IF kind = "deposit_spl" THEN r ELSE Sol,
   amount |-> CASE kind = "transfer" -> DepositAmount - TransferAmount
                [] kind = "withdraw" -> DepositAmount - TransferAmount - WithdrawAmount
                [] OTHER             -> DepositAmount]

\* What step k leaves the sender with.
Kept(r, kind, k) == IF kind \in ReadsBack THEN {Made(r, kind, k)} ELSE {}

\* tx is what step k of process r sends.
IsSent(tx, r, state, k) ==
  LET kind == Kind(state, k)
  IN  /\ tx.sig = <<r, k>>
      /\ k \in 1 .. Len(Steps[state.example])
      /\ tx.op = kind
      /\ tx.creates = IF kind = "deposit_spl" /\ ~state.found THEN {r} ELSE {}
      /\ tx.spends = CASE kind = "transfer" -> {Made(r, "deposit", 1)}
                       [] kind = "withdraw" -> {Made(r, "transfer", 2)}
                       [] OTHER             -> {}
      /\ {n \in tx.outs : n.owner = "sender"} = Kept(r, kind, k)
      /\ \A n \in tx.outs : n.sig = <<r, k>> /\ n.mint = IF kind = "deposit_spl" THEN r ELSE Sol

OnChain(ch, sig) == \E i \in DOMAIN ch : ch[i].sig = sig

\* The interfaces that the first transactions of a chain create.
Created(ch, slot) == UNION {ch[i].creates : i \in 1 .. slot}

\* tx was sent by a process.
Own(tx, rn) == \E r \in Run, k \in Nat : Gone(rn[r], k) /\ IsSent(tx, r, rn[r], k)

\* tx is somebody else's.
Foreign(tx) ==
  \E r \in Run : /\ tx.sig = <<r, 0>> /\ tx.op = "create_interface"
                 /\ tx.creates = {r} /\ tx.spends = {} /\ tx.outs = {}

\* The notes a SOL flow holds when it builds its next transaction.
CoinsOK(r, st) ==
  /\ st.step = 2 => st.utxos = {Made(r, "deposit", 1)}
  /\ st.step = 3 => st.utxos = {Made(r, "transfer", 2)}

\* What is known about process r in state st when the chain is ch.
ProcessOK(r, st, ch) ==
  /\ PhaseOK(st)
  /\ st.example = "deposit_transfer_withdraw" =>
       /\ \A j \in 1 .. st.step - 1 : OnChain(ch, <<r, j>>)
       /\ st.phase = "build" => CoinsOK(r, st)
  /\ st.phase \in {"located", "registered"} =>
       st.slot \in DOMAIN ch /\ ch[st.slot].sig = <<r, st.step>>
  /\ st.phase = "scan" =>
       st.slot \in 0 .. Len(ch) /\ st.assets = {Sol} \cup Created(ch, st.slot)
  /\ st.error = "unknown mint" =>
       /\ st.slot \in 0 .. Len(ch)
       /\ \A n \in st.utxos : n.mint \in {Sol} \cup Created(ch, st.slot)
  /\ st.found => r \in Created(ch, Len(ch))
  /\ st.phase # "failed" => st.error = "none"
  /\ st.error # "assertion"

WalletTypes ==
  /\ chain \in Seq(AnyTx)
  /\ flight \subseteq AnyTx
  /\ indexed \in 0 .. Len(chain)
  /\ run \in [Run -> RunState]

\* Every transaction is accounted for, every signature is there once, and a
\* note's mint has its interface by the time the note lands.
LedgerOK(ch, fl, rn) ==
  /\ \A i \in DOMAIN ch : Own(ch[i], rn) \/ Foreign(ch[i])
  /\ \A i, j \in DOMAIN ch : ch[i].sig = ch[j].sig => i = j
  /\ \A i \in DOMAIN ch : \A n \in ch[i].outs : n.mint \in {Sol} \cup Created(ch, i)
  /\ \A tx \in fl : Own(tx, rn) /\ ~OnChain(ch, tx.sig)
  /\ \A tx, other \in fl : tx.sig = other.sig => tx = other

\* Process r was sent to create its interface, and somebody else did.
LostRace(r, st, ch) ==
  /\ st.example = "deposit_with_interface_setup"
  /\ Gone(st, 2)
  /\ ~st.found
  /\ \E i \in DOMAIN ch : ch[i].op = "create_interface" /\ ch[i].creates = {r}

RejectionsOK(sigs, ch, rn) ==
  \A sig \in sigs : \E r \in Run : sig = <<r, 2>> /\ LostRace(r, rn[r], ch)

WalletInv ==
  /\ WalletTypes
  /\ \A r \in Run : ProcessOK(r, run[r], chain)
  /\ LedgerOK(chain, flight, run)
  /\ RejectionsOK(rejected, chain, run)

\* Step k of example e, which has len steps, is of this kind.
InTable(e, k, len, kind) ==
  \/ /\ e = "deposit_transfer_withdraw" /\ len = 3
     /\ \/ k = 1 /\ kind = "deposit"
        \/ k = 2 /\ kind = "transfer"
        \/ k = 3 /\ kind = "withdraw"
  \/ /\ e = "deposit_with_interface_setup" /\ len = 2
     /\ \/ k = 1 /\ kind = "setup_test_token"
        \/ k = 2 /\ kind = "deposit_spl"
  \/ /\ e = "register_private_wallet" /\ len = 2
     /\ \/ k = 1 /\ kind = "fund"
        \/ k = 2 /\ kind = "register"
  \/ e = "sync_balance" /\ len = 1 /\ k = 1 /\ kind = "sync"

\* The effect of the transaction of step k.
Effect(tx, r, st, k) ==
  /\ tx.sig = <<r, k>>
  /\ k \in 1 .. 3
  /\ \/ /\ st.example = "deposit_transfer_withdraw"
        /\ \/ k = 1 /\ Kind(st, k) = "deposit" /\ tx.spends = {}
           \/ k = 2 /\ Kind(st, k) = "transfer" /\ tx.spends = {Made(r, "deposit", 1)}
           \/ k = 3 /\ Kind(st, k) = "withdraw" /\ tx.spends = {Made(r, "transfer", 2)}
        /\ tx.creates = {}
        /\ \A n \in tx.outs : n.mint = Sol
     \/ /\ st.example = "deposit_with_interface_setup"
        /\ \/ k = 1 /\ Kind(st, k) = "setup_test_token" /\ tx.creates = {}
              /\ \A n \in tx.outs : n.mint = Sol
           \/ k = 2 /\ Kind(st, k) = "deposit_spl"
              /\ tx.creates = (IF st.found THEN {} ELSE {r})
              /\ \A n \in tx.outs : n.mint = r
        /\ tx.spends = {}
     \/ /\ st.example \in {"register_private_wallet", "sync_balance"}
        /\ Kind(st, k) \in {"fund", "register", "sync"}
        /\ tx.creates = {} /\ tx.spends = {}
        /\ \A n \in tx.outs : n.mint = Sol

\* st may come after old: what was sent stays as it was.
Follows(old, st) ==
  /\ st.example = old.example
  /\ \A k \in Nat : Gone(old, k) => Gone(st, k)
  /\ st.found = old.found \/ old.phase = "check"

\* Chain new is chain ch with tx added.
GrownBy(ch, new, tx) ==
  /\ new \in Seq(AnyTx)
  /\ \A i \in DOMAIN ch : i \in DOMAIN new /\ new[i] = ch[i]
  /\ \A i \in DOMAIN new : i \in DOMAIN ch \/ i = Len(new)
  /\ Len(new) \in DOMAIN new /\ Len(new) \notin DOMAIN ch /\ new[Len(new)] = tx
  /\ 0 .. Len(ch) \subseteq 0 .. Len(new)
  /\ \A s \in 0 .. Len(ch) : Created(new, s) = Created(ch, s)
  /\ Created(ch, Len(ch)) \subseteq Created(new, Len(new))

-----------------------------------------------------------------------------
(***************************************************************************)
(* The examples' steps.                                                    *)
(***************************************************************************)

(***************************************************************************)
(* Which example has which steps.                                          *)
(***************************************************************************)
LEMMA StepTable ==
  ASSUME NEW e \in Example, e # "idle", NEW k \in 1 .. Len(Steps[e])
  PROVE  InTable(e, k, Len(Steps[e]), Steps[e][k])
<1>1. CASE e = "deposit_transfer_withdraw"
  <2>1. Steps[e] = <<"deposit", "transfer", "withdraw">>
    BY <1>1 DEF Steps
  <2> QED BY <1>1, <2>1, SMT DEF InTable
<1>2. CASE e = "deposit_with_interface_setup"
  <2>1. Steps[e] = <<"setup_test_token", "deposit_spl">>
    BY <1>2 DEF Steps
  <2> QED BY <1>2, <2>1, SMT DEF InTable
<1>3. CASE e = "register_private_wallet"
  <2>1. Steps[e] = <<"fund", "register">>
    BY <1>3 DEF Steps
  <2> QED BY <1>3, <2>1, SMT DEF InTable
<1>4. CASE e = "sync_balance"
  <2>1. Steps[e] = <<"sync">>
    BY <1>4 DEF Steps
  <2> QED BY <1>4, <2>1, SMT DEF InTable
<1> QED BY <1>1, <1>2, <1>3, <1>4 DEF Example

(***************************************************************************)
(* An idle process has no steps.                                           *)
(***************************************************************************)
LEMMA IdleHasNoSteps == Len(Steps["idle"]) = 0
BY DEF Steps

(***************************************************************************)
(* What a transaction that was sent spends, creates and makes, by its      *)
(* example and step.                                                       *)
(***************************************************************************)
LEMMA SentTable ==
  ASSUME NEW tx, NEW r, NEW st, st.example \in Example, NEW k, IsSent(tx, r, st, k)
  PROVE  Effect(tx, r, st, k)
<1> DEFINE e == st.example
           kind == Steps[e][k]
<1>1. /\ tx.sig = <<r, k>>
      /\ k \in 1 .. Len(Steps[e])
      /\ tx.creates = IF kind = "deposit_spl" /\ ~st.found THEN {r} ELSE {}
      /\ tx.spends = CASE kind = "transfer" -> {Made(r, "deposit", 1)}
                       [] kind = "withdraw" -> {Made(r, "transfer", 2)}
                       [] OTHER             -> {}
      /\ \A n \in tx.outs : n.mint = IF kind = "deposit_spl" THEN r ELSE Sol
  BY Zenon DEF IsSent, Kind
<1>2. e # "idle"
  BY <1>1, IdleHasNoSteps, SMT
<1>3. Kind(st, k) = kind /\ e \in Example
  BY Zenon DEF Kind
<1>4. InTable(e, k, Len(Steps[e]), kind)
  <2> HIDE DEF e
  <2>1. k \in 1 .. Len(Steps[e])
    BY <1>1, Zenon
  <2> QED BY <1>2, <1>3, <2>1, StepTable, Zenon
<1> HIDE DEF kind
<1> HIDE DEF e
<1> USE DEF InTable
<1>5. k \in 1 .. 3
  BY <1>4, SMT
<1> DEFINE dep == Made(r, "deposit", 1)
           trf == Made(r, "transfer", 2)
           found == st.found
<1> HIDE DEF dep, trf, found
<1>6. /\ tx.creates = IF kind = "deposit_spl" /\ ~found THEN {r} ELSE {}
      /\ tx.spends = CASE kind = "transfer" -> {dep}
                       [] kind = "withdraw" -> {trf}
                       [] OTHER             -> {}
  BY <1>1, Zenon DEF dep, trf, found
<1>7. CASE e = "deposit_transfer_withdraw"
  <2>1. kind # "deposit_spl" /\ \A n \in tx.outs : n.mint = Sol
    BY <1>1, <1>4, <1>7
  <2>2. /\ \/ k = 1 /\ kind = "deposit" /\ tx.spends = {}
           \/ k = 2 /\ kind = "transfer" /\ tx.spends = {dep}
           \/ k = 3 /\ kind = "withdraw" /\ tx.spends = {trf}
        /\ tx.creates = {}
    BY <1>4, <1>6, <1>7, <2>1
  <2> QED BY <1>1, <1>5, <1>7, <2>1, <2>2, <1>3, Zenon DEF Effect, e, dep, trf
<1>8. CASE e = "deposit_with_interface_setup"
  <2>1. tx.spends = {}
    BY <1>4, <1>6, <1>8
  <2>2. \/ k = 1 /\ kind = "setup_test_token" /\ tx.creates = {}
           /\ \A n \in tx.outs : n.mint = Sol
        \/ k = 2 /\ kind = "deposit_spl" /\ tx.creates = (IF found THEN {} ELSE {r})
           /\ \A n \in tx.outs : n.mint = r
    BY <1>1, <1>4, <1>6, <1>8
  <2> QED BY <1>1, <1>5, <1>8, <2>1, <2>2, <1>3, Zenon DEF Effect, e, found
<1>9. CASE e \in {"register_private_wallet", "sync_balance"}
  <2>1. kind \in {"fund", "register", "sync"} /\ tx.creates = {} /\ tx.spends = {}
    BY <1>4, <1>6, <1>9
  <2>2. kind # "deposit_spl" /\ \A n \in tx.outs : n.mint = Sol
    BY <1>1, <2>1
  <2> QED BY <1>1, <1>5, <1>9, <2>1, <2>2, <1>3, Zenon DEF Effect, e
<1>10. \/ e = "deposit_transfer_withdraw" \/ e = "deposit_with_interface_setup"
       \/ e \in {"register_private_wallet", "sync_balance"}
  BY <1>4
<1> QED BY <1>7, <1>8, <1>9, <1>10, Zenon

(***************************************************************************)
(* The balance of a single note of the mint is its amount.                 *)
(***************************************************************************)
LEMMA AmountOfOne ==
  ASSUME NEW n, NEW mint, n.amount \in Int
  PROVE  Amounts({n}, mint) = IF n.mint = mint THEN n.amount ELSE 0
<1> DEFINE w == [x \in {n} |-> IF x.mint = mint THEN x.amount ELSE 0]
<1>1. DOMAIN w = {n} /\ w[n] = (IF n.mint = mint THEN n.amount ELSE 0) /\ w[n] \in Int
  OBVIOUS
<1>2. Amounts({n}, mint) = SumFunction(w)
  BY DEF Amounts
<1> HIDE DEF w
<1>3. SumFunctionOnSet(w, {n}) = w[n]
  BY <1>1, SumOne, Zenon
<1> QED BY <1>1, <1>2, <1>3 DEF SumFunction

(***************************************************************************)
(* One process moves.                                                      *)
(***************************************************************************)

(***************************************************************************)
(* A process that still looks its interface up has not sent the deposit.   *)
(***************************************************************************)
LEMMA CheckComesFirst ==
  ASSUME NEW st \in RunState, PhaseOK(st), st.phase = "check"
  PROVE  st.example = "deposit_with_interface_setup" /\ st.step = 2
<1> DEFINE e == st.example
           k == st.step
<1>1. e \in Example
  BY SMT DEF RunState
<1>2. /\ e # "idle" /\ k \in 1 .. Len(Steps[e])
      /\ Steps[e][k] = "deposit_spl"
  BY Zenon DEF PhaseOK, StepOf
<1> HIDE DEF e, k
<1>3. InTable(e, k, Len(Steps[e]), Steps[e][k])
  BY <1>1, <1>2, StepTable, Zenon
<1>4. e = "deposit_with_interface_setup" /\ k = 2
  BY <1>2, <1>3 DEF InTable
<1> QED BY <1>4, Zenon DEF e, k

(***************************************************************************)
(* What a process has sent does not change when it moves on: the only      *)
(* input that changes, the result of the interface lookup, does so before  *)
(* the deposit is built.                                                   *)
(***************************************************************************)
LEMMA SentStable ==
  ASSUME NEW r, NEW old \in RunState, PhaseOK(old), NEW st, Follows(old, st),
         NEW k \in Nat, Gone(old, k), NEW tx, IsSent(tx, r, old, k)
  PROVE  Gone(st, k) /\ IsSent(tx, r, st, k)
<1>1. Gone(st, k) /\ st.example = old.example
  BY Zenon DEF Follows
<1>2. Kind(st, k) = Kind(old, k)
  BY <1>1, Zenon DEF Kind
<1>3. CASE st.found = old.found
  BY <1>1, <1>2, <1>3, Zenon DEF IsSent
<1>4. CASE old.phase = "check"
  <2>1. old.step = 2
    BY <1>4, CheckComesFirst, Zenon
  <2>2. k < 2
    BY <1>4, <2>1 DEF Gone
  <2>3. old.example \in Example
    BY SMT DEF RunState
  <2>4. Kind(old, k) # "deposit_spl"
    <3> DEFINE e == old.example
               kind == Steps[e][k]
    <3>1. k \in 1 .. Len(Steps[e])
      BY Zenon DEF IsSent
    <3>2. e # "idle"
      BY <3>1, IdleHasNoSteps, SMT
    <3> HIDE DEF e
    <3>3. InTable(e, k, Len(Steps[e]), kind)
      BY <2>3, <3>1, <3>2, StepTable, Zenon DEF e
    <3> HIDE DEF kind
    <3>4. kind # "deposit_spl"
      BY <2>2, <3>3, SMT DEF InTable
    <3> QED BY <3>4, Zenon DEF Kind, e, kind
  <2> QED BY <1>1, <1>2, <2>4, Zenon DEF IsSent
<1> QED BY <1>3, <1>4, Zenon DEF Follows

(***************************************************************************)
(* So a transaction that was a process's own still is.                     *)
(***************************************************************************)
LEMMA OwnStable ==
  ASSUME run \in [Run -> RunState], NEW r \in Run, PhaseOK(run[r]), NEW st,
         Follows(run[r], st), run' = [run EXCEPT ![r] = st], NEW tx, Own(tx, run)
  PROVE  Own(tx, run')
<1>1. PICK q \in Run, k \in Nat : Gone(run[q], k) /\ IsSent(tx, q, run[q], k)
  BY Zenon DEF Own
<1>2. CASE q = r
  <2>1. run'[q] = st
    BY <1>2
  <2>2. run[r] \in RunState
    <3> HIDE DEF RunState
    <3> QED OBVIOUS
  <2>3. Gone(st, k) /\ IsSent(tx, q, st, k)
    BY <1>1, <1>2, <2>2, SentStable, Zenon
  <2> QED BY <2>1, <2>3, Zenon DEF Own
<1>3. CASE q # r
  <2>1. run'[q] = run[q]
    BY <1>3
  <2> QED BY <1>1, <2>1, Zenon DEF Own
<1> QED BY <1>2, <1>3

(***************************************************************************)
(* A rejection stays the result of a lost race when a process moves on.    *)
(***************************************************************************)
LEMMA RejectionsStable ==
  ASSUME run \in [Run -> RunState], NEW r \in Run, PhaseOK(run[r]), NEW st,
         Follows(run[r], st), run' = [run EXCEPT ![r] = st],
         RejectionsOK(rejected, chain, run)
  PROVE  RejectionsOK(rejected, chain, run')
<1> SUFFICES ASSUME NEW sig \in rejected
             PROVE  \E q \in Run : sig = <<q, 2>> /\ LostRace(q, run'[q], chain)
  BY Zenon DEF RejectionsOK
<1>1. PICK q \in Run : sig = <<q, 2>> /\ LostRace(q, run[q], chain)
  BY Zenon DEF RejectionsOK
<1>2. CASE q = r
  <2>1. run'[q] = st
    BY <1>2
  <2>2. run[r] \in RunState
    <3> HIDE DEF RunState
    <3> QED OBVIOUS
  <2>3. run[r].phase # "check"
    <3> SUFFICES ASSUME run[r].phase = "check" PROVE FALSE
      OBVIOUS
    <3>1. run[r].step = 2
      BY <2>2, CheckComesFirst, Zenon
    <3>2. Gone(run[r], 2)
      BY <1>1, <1>2, Zenon DEF LostRace
    <3> QED BY <3>1, <3>2 DEF Gone
  <2>4. LostRace(r, st, chain)
    <3>1. /\ st.example = run[r].example /\ st.found = run[r].found
          /\ \A k \in Nat : Gone(run[r], k) => Gone(st, k)
      BY <2>3, Zenon DEF Follows
    <3>2. 2 \in Nat
      OBVIOUS
    <3> QED BY <1>1, <1>2, <3>1, <3>2, Zenon DEF LostRace
  <2> QED BY <1>1, <1>2, <2>1, <2>4, Zenon
<1>3. CASE q # r
  <2>1. run'[q] = run[q]
    BY <1>3
  <2> QED BY <1>1, <2>1, Zenon
<1> QED BY <1>2, <1>3

(***************************************************************************)
(* A process that moves on while the chain and the flight stay as they are *)
(* keeps the invariant if its new state is as it should be.                *)
(***************************************************************************)
LEMMA OneProcessMoves ==
  ASSUME WalletInv, NEW r \in Run, NEW st \in RunState,
         ProcessOK(r, st, chain), Follows(run[r], st),
         run' = [run EXCEPT ![r] = st], UNCHANGED <<chain, rejected, indexed, flight>>
  PROVE  WalletInv'
<1>1. run \in [Run -> RunState] /\ PhaseOK(run[r])
  BY Zenon DEF WalletInv, WalletTypes, ProcessOK
<1>2. WalletTypes'
  <2>1. run' \in [Run -> RunState]
    <3> HIDE DEF RunState
    <3> QED BY <1>1
  <2> QED BY <2>1, Zenon DEF WalletInv, WalletTypes
<1>3. \A q \in Run : ProcessOK(q, run'[q], chain)
  <2> TAKE q \in Run
  <2>1. CASE q = r
    BY <1>1, <2>1, Zenon
  <2>2. CASE q # r
    BY <1>1, <2>2, Zenon DEF WalletInv
  <2> QED BY <2>1, <2>2
<1>4. LedgerOK(chain, flight, run')
  <2>1. LedgerOK(chain, flight, run)
    BY Zenon DEF WalletInv
  <2>2. \A tx : Own(tx, run) => Own(tx, run')
    BY <1>1, OwnStable, Zenon
  <2> QED BY <2>1, <2>2, Zenon DEF LedgerOK
<1>5. RejectionsOK(rejected, chain, run')
  BY <1>1, RejectionsStable, Zenon DEF WalletInv
<1> QED BY <1>2, <1>3, <1>4, <1>5, Zenon DEF WalletInv

-----------------------------------------------------------------------------
(***************************************************************************)
(* A process goes on to its next step.                                     *)
(***************************************************************************)

(***************************************************************************)
(* After its step a process is done, builds the next transaction or looks  *)
(* its interface up.                                                       *)
(***************************************************************************)
LEMMA AdvancedShape ==
  ASSUME NEW st \in RunState, PhaseOK(st), st.example # "idle"
  PROVE  \/ /\ Advanced(st) = [st EXCEPT !.phase = "done"]
            /\ st.step = Len(Steps[st.example])
         \/ /\ Advanced(st) = [st EXCEPT !.step = st.step + 1, !.phase = "build"]
            /\ \/ st.example = "deposit_transfer_withdraw" /\ st.step \in {1, 2}
               \/ st.example = "register_private_wallet" /\ st.step = 1
            /\ st.step + 1 \in 1 .. Len(Steps[st.example])
         \/ /\ Advanced(st) = [st EXCEPT !.step = st.step + 1, !.phase = "check"]
            /\ st.example = "deposit_with_interface_setup" /\ st.step = 1
            /\ Steps[st.example][st.step + 1] = "deposit_spl"
            /\ st.step + 1 \in 1 .. Len(Steps[st.example])
<1> DEFINE e == st.example
           k == st.step
           first == FirstPhase(Steps[e][k + 1])
           len == Len(Steps[e])
<1>1. e \in Example /\ k \in Nat
  BY SMT DEF RunState
<1>2. e # "idle" /\ k \in 1 .. len
  BY Zenon DEF PhaseOK
<1>3. Advanced(st) = IF k = len THEN [st EXCEPT !.phase = "done"]
                     ELSE [st EXCEPT !.step = k + 1, !.phase = first]
  BY Zenon DEF Advanced
<1> HIDE DEF e, k
<1>4. InTable(e, k, len, Steps[e][k])
  BY <1>1, <1>2, StepTable, Zenon
<1>5. CASE k = len
  BY <1>3, <1>5, Zenon DEF e, k
<1>6. CASE k # len
  <2>1. k + 1 \in 1 .. len
    BY <1>4, <1>6, SMT DEF InTable
  <2>2. InTable(e, k + 1, len, Steps[e][k + 1])
    BY <1>1, <1>2, <2>1, StepTable, Zenon
  <2> DEFINE next == Steps[e][k + 1]
  <2> HIDE DEF next
  <2>3. \/ e = "deposit_transfer_withdraw" /\ k \in {1, 2} /\ next \in {"transfer", "withdraw"}
        \/ e = "register_private_wallet" /\ k = 1 /\ next = "register"
        \/ e = "deposit_with_interface_setup" /\ k = 1 /\ next = "deposit_spl"
    <3>1. InTable(e, k + 1, len, next)
      BY <2>2, Zenon DEF next
    <3> HIDE DEF len
    <3> QED BY <1>4, <1>6, <3>1, SMT DEF InTable
  <2>4. first = FirstPhase(next)
    BY Zenon DEF next
  <2> HIDE DEF first, len
  <2>5. next = "deposit_spl" => first = "check"
    BY <2>4, SMT DEF FirstPhase
  <2>6. next \in {"transfer", "withdraw", "register"} => first = "build"
    BY <2>4, SMT DEF FirstPhase
  <2>7. Advanced(st) = [st EXCEPT !.step = k + 1, !.phase = first]
    BY <1>3, <1>6, Zenon
  <2>8. CASE e = "deposit_with_interface_setup" /\ k = 1 /\ next = "deposit_spl"
    <3>1. Advanced(st) = [st EXCEPT !.step = k + 1, !.phase = "check"]
      BY <2>5, <2>7, <2>8, Zenon
    <3> QED BY <2>1, <2>8, <3>1, Zenon DEF e, k, len, next
  <2>9. CASE /\ first = "build"
             /\ \/ e = "deposit_transfer_withdraw" /\ k \in {1, 2}
                \/ e = "register_private_wallet" /\ k = 1
    <3>1. Advanced(st) = [st EXCEPT !.step = k + 1, !.phase = "build"]
      BY <2>7, <2>9, Zenon
    <3> QED BY <2>1, <2>9, <3>1, Zenon DEF e, k, len
  <2> QED BY <2>3, <2>6, <2>8, <2>9, Zenon
<1> QED BY <1>5, <1>6

(***************************************************************************)
(* A process whose transaction is on the chain goes on with the note it    *)
(* has read back.                                                          *)
(***************************************************************************)
LEMMA AdvancedOK ==
  ASSUME NEW r \in Run, NEW ch, NEW st \in RunState, ProcessOK(r, st, ch),
         st.example # "idle", st.phase \in {"sent", "located", "registered"},
         OnChain(ch, <<r, st.step>>),
         st.example = "deposit_transfer_withdraw" =>
           /\ st.step = 1 => st.utxos = {Made(r, "deposit", 1)}
           /\ st.step = 2 => st.utxos = {Made(r, "transfer", 2)}
  PROVE  /\ Advanced(st) \in RunState
         /\ ProcessOK(r, Advanced(st), ch)
         /\ Follows(st, Advanced(st))
<1>1. PhaseOK(st)
  BY Zenon DEF ProcessOK
<1>2. st.step \in Nat /\ st.error = "none"
  <2>1. st.step \in Nat
    BY SMT DEF RunState
  <2>2. st.phase # "failed"
    OBVIOUS
  <2> QED BY <2>1, <2>2, Zenon DEF ProcessOK
<1> DEFINE adv == Advanced(st)
<1>3. CASE /\ adv = [st EXCEPT !.phase = "done"]
           /\ st.step = Len(Steps[st.example])
  <2>1. adv \in RunState
    <3>1. "done" \in Phase
      BY DEF Phase
    <3> QED BY <1>3, <3>1, Zenon DEF RunState
  <2>2. /\ adv.phase = "done" /\ adv.example = st.example /\ adv.client = st.client
        /\ adv.step = st.step /\ adv.slot = st.slot /\ adv.utxos = st.utxos
        /\ adv.found = st.found /\ adv.error = st.error
    BY <1>3, SMT DEF RunState
  <2> HIDE DEF adv
  <2>3. PhaseOK(adv)
    BY <1>1, <2>2 DEF PhaseOK
  <2>4. ProcessOK(r, adv, ch)
    BY <1>2, <2>2, <2>3 DEF ProcessOK
  <2>5. Follows(st, adv)
    BY <2>2 DEF Follows, Gone
  <2> QED BY <2>1, <2>4, <2>5 DEF adv
<1>4. ASSUME NEW phase \in {"build", "check"},
             adv = [st EXCEPT !.step = st.step + 1, !.phase = phase],
             st.step + 1 \in 1 .. Len(Steps[st.example]),
             st.example # "sync_balance",
             phase = "check" => Steps[st.example][st.step + 1] = "deposit_spl",
             st.example = "deposit_transfer_withdraw" => st.step \in {1, 2}
      PROVE  /\ adv \in RunState
             /\ ProcessOK(r, adv, ch)
             /\ Follows(st, adv)
  <2>1. adv \in RunState
    <3>1. phase \in Phase
      BY DEF Phase
    <3>2. st.step + 1 \in Nat
      BY <1>2
    <3> QED BY <1>4, <3>1, <3>2, Zenon DEF RunState
  <2>2. /\ adv.phase = phase /\ adv.example = st.example /\ adv.client = st.client
        /\ adv.step = st.step + 1 /\ adv.slot = st.slot /\ adv.utxos = st.utxos
        /\ adv.found = st.found /\ adv.error = st.error
    BY <1>4, SMT DEF RunState
  <2> HIDE DEF adv
  <2>3. PhaseOK(adv)
    BY <1>4, <2>2 DEF PhaseOK, StepOf
  <2>4. st.example = "deposit_transfer_withdraw" =>
          /\ \A j \in 1 .. adv.step - 1 : OnChain(ch, <<r, j>>)
          /\ CoinsOK(r, adv)
    <3> SUFFICES ASSUME st.example = "deposit_transfer_withdraw"
                 PROVE  /\ \A j \in 1 .. adv.step - 1 : OnChain(ch, <<r, j>>)
                        /\ CoinsOK(r, adv)
      OBVIOUS
    <3>1. \A j \in 1 .. st.step - 1 : OnChain(ch, <<r, j>>)
      BY Zenon DEF ProcessOK
    <3>2. \A j \in 1 .. adv.step - 1 : j \in 1 .. st.step - 1 \/ j = st.step
      BY <1>2, <2>2, SMT
    <3>3. \A j \in 1 .. adv.step - 1 : OnChain(ch, <<r, j>>)
      BY <3>1, <3>2, Zenon
    <3>4. CoinsOK(r, adv)
      <4>1. adv.step = 2 => st.step = 1
        BY <1>2, <2>2
      <4>2. adv.step = 3 => st.step = 2
        BY <1>2, <2>2
      <4> QED BY <2>2, <4>1, <4>2, Zenon DEF CoinsOK
    <3> QED BY <3>3, <3>4
  <2>5. ProcessOK(r, adv, ch)
    <3>1. adv.phase \notin {"located", "registered", "scan", "failed"}
      BY <2>2
    <3>2. adv.error = "none" /\ (adv.found => r \in Created(ch, Len(ch)))
      BY <1>2, <2>2, Zenon DEF ProcessOK
    <3> QED BY <2>2, <2>3, <2>4, <3>1, <3>2 DEF ProcessOK
  <2>6. Follows(st, adv)
    BY <1>2, <2>2, SMT DEF Follows, Gone
  <2> QED BY <2>1, <2>5, <2>6 DEF adv
<1>5. \/ /\ adv = [st EXCEPT !.phase = "done"]
         /\ st.step = Len(Steps[st.example])
      \/ /\ adv = [st EXCEPT !.step = st.step + 1, !.phase = "build"]
         /\ \/ st.example = "deposit_transfer_withdraw" /\ st.step \in {1, 2}
            \/ st.example = "register_private_wallet" /\ st.step = 1
         /\ st.step + 1 \in 1 .. Len(Steps[st.example])
      \/ /\ adv = [st EXCEPT !.step = st.step + 1, !.phase = "check"]
         /\ st.example = "deposit_with_interface_setup" /\ st.step = 1
         /\ Steps[st.example][st.step + 1] = "deposit_spl"
         /\ st.step + 1 \in 1 .. Len(Steps[st.example])
  BY <1>1, AdvancedShape, Zenon
<1> HIDE DEF adv
<1>6. CASE /\ adv = [st EXCEPT !.step = st.step + 1, !.phase = "build"]
           /\ \/ st.example = "deposit_transfer_withdraw" /\ st.step \in {1, 2}
              \/ st.example = "register_private_wallet" /\ st.step = 1
           /\ st.step + 1 \in 1 .. Len(Steps[st.example])
  <2>1. "build" \in {"build", "check"} /\ "build" # "check" /\ st.example # "sync_balance"
    BY <1>6
  <2>2. st.example = "deposit_transfer_withdraw" => st.step \in {1, 2}
    BY <1>6
  <2> QED BY <1>4, <1>6, <2>1, <2>2, Zenon DEF adv
<1>7. CASE /\ adv = [st EXCEPT !.step = st.step + 1, !.phase = "check"]
           /\ st.example = "deposit_with_interface_setup" /\ st.step = 1
           /\ Steps[st.example][st.step + 1] = "deposit_spl"
           /\ st.step + 1 \in 1 .. Len(Steps[st.example])
  <2>1. "check" \in {"build", "check"} /\ st.example # "sync_balance"
        /\ st.example # "deposit_transfer_withdraw"
    BY <1>7
  <2> QED BY <1>4, <1>7, <2>1, Zenon DEF adv
<1> QED BY <1>3, <1>5, <1>6, <1>7, Zenon DEF adv

(***************************************************************************)
(* A process that fails for a reason other than an assertion or an unknown *)
(* mint keeps what it has.                                                 *)
(***************************************************************************)
LEMMA FailedOK ==
  ASSUME WalletInv, NEW r \in Run, NEW why \in Problem,
         why \notin {"assertion", "unknown mint"}, run[r].phase # "done"
  PROVE  /\ Failed(r, why) \in RunState
         /\ ProcessOK(r, Failed(r, why), chain)
         /\ Follows(run[r], Failed(r, why))
<1> DEFINE old == run[r]
           st == [old EXCEPT !.phase = "failed", !.error = why]
<1>1. old \in RunState /\ ProcessOK(r, old, chain)
  <2>1. run \in [Run -> RunState]
    BY Zenon DEF WalletInv, WalletTypes
  <2>2. old \in RunState
    <3> HIDE DEF RunState
    <3> QED BY <2>1
  <2> QED BY <2>2, Zenon DEF WalletInv
<1>2. Failed(r, why) = st
  BY Zenon DEF Failed
<1>3. old.phase # "done"
  OBVIOUS
<1> HIDE DEF old
<1>4. st \in RunState
  <2>1. "failed" \in Phase
    BY DEF Phase
  <2> QED BY <1>1, <2>1, Zenon DEF RunState
<1>5. /\ st.phase = "failed" /\ st.example = old.example /\ st.client = old.client
      /\ st.step = old.step /\ st.slot = old.slot /\ st.utxos = old.utxos
      /\ st.found = old.found /\ st.error = why
  BY <1>1, Zenon DEF RunState
<1> HIDE DEF st
<1>6. PhaseOK(st)
  <2>1. PhaseOK(old)
    BY <1>1, Zenon DEF ProcessOK
  <2> QED BY <1>3, <1>5, <2>1 DEF PhaseOK
<1>7. ProcessOK(r, st, chain)
  <2>1. st.phase \notin {"located", "registered", "scan", "build"}
    BY <1>5
  <2>2. why # "unknown mint" /\ why # "assertion"
    OBVIOUS
  <2> QED BY <1>1, <1>3, <1>5, <1>6, <2>1, <2>2, Zenon DEF ProcessOK
<1>8. Follows(old, st)
  BY <1>5 DEF Follows, Gone
<1> QED BY <1>2, <1>4, <1>7, <1>8, Zenon DEF old

(***************************************************************************)
(* A process that learns more about a transaction it has sent: that it was *)
(* confirmed, or the slot it landed in.                                    *)
(***************************************************************************)
LEMMA ConfirmedOK ==
  ASSUME NEW r \in Run, NEW ch, NEW old \in RunState, ProcessOK(r, old, ch),
         old.phase \in {"sent", "confirmed", "located"}, NEW st,
         st.example = old.example, st.client = old.client, st.step = old.step,
         st.found = old.found, st.error = old.error,
         st.phase \in {"confirmed", "located", "registered"},
         st.phase = "confirmed" => StepOf(old) \in ReadsBack /\ old.client = "rust",
         st.phase = "located" => StepOf(old) \in ReadsBack,
         st.phase = "registered" => StepOf(old) = "register",
         st.phase \in {"located", "registered"} =>
           st.slot \in DOMAIN ch /\ ch[st.slot].sig = <<r, st.step>>
  PROVE  ProcessOK(r, st, ch) /\ Follows(old, st)
<1>1. PhaseOK(old) /\ old.error = "none"
  <2>1. old.phase # "failed"
    OBVIOUS
  <2> QED BY <2>1, Zenon DEF ProcessOK
<1>2. StepOf(st) = StepOf(old)
  BY Zenon DEF StepOf
<1>3. PhaseOK(st)
  BY <1>1, <1>2 DEF PhaseOK
<1>4. st.phase \notin {"build", "scan", "failed"} /\ st.error = "none"
  BY <1>1
<1>5. /\ st.example = "deposit_transfer_withdraw" =>
           \A j \in 1 .. st.step - 1 : OnChain(ch, <<r, j>>)
      /\ st.found => r \in Created(ch, Len(ch))
  BY Zenon DEF ProcessOK
<1>6. ProcessOK(r, st, ch)
  BY <1>3, <1>4, <1>5 DEF ProcessOK
<1>7. Follows(old, st)
  BY SMT DEF Follows, Gone
<1> QED BY <1>6, <1>7

-----------------------------------------------------------------------------
(***************************************************************************)
(* Reading the invariant.                                                  *)
(***************************************************************************)

(***************************************************************************)
(* The state of a process, and the step it is at.                          *)
(***************************************************************************)
LEMMA ProcessState ==
  ASSUME WalletInv, NEW r \in Run
  PROVE  /\ run[r] \in RunState /\ ProcessOK(r, run[r], chain) /\ PhaseOK(run[r])
         /\ run[r].step \in Nat
         /\ run[r].phase # "done" =>
              /\ run[r].example # "idle"
              /\ run[r].step \in 1 .. Len(Steps[run[r].example])
              /\ InTable(run[r].example, run[r].step, Len(Steps[run[r].example]), StepOf(run[r]))
<1> DEFINE st == run[r]
<1>1. run \in [Run -> RunState]
  BY Zenon DEF WalletInv, WalletTypes
<1>2. st \in RunState
  <2> HIDE DEF RunState
  <2> QED BY <1>1
<1>3. ProcessOK(r, st, chain) /\ PhaseOK(st)
  BY Zenon DEF WalletInv, ProcessOK
<1> HIDE DEF st
<1>4. st.step \in Nat /\ st.example \in Example
  BY <1>2, SMT DEF RunState
<1>5. st.phase # "done" => st.example # "idle" /\ st.step \in 1 .. Len(Steps[st.example])
  BY <1>3, Zenon DEF PhaseOK
<1>6. st.phase # "done" => InTable(st.example, st.step, Len(Steps[st.example]), StepOf(st))
  BY <1>4, <1>5, StepTable, Zenon DEF StepOf
<1> QED BY <1>2, <1>3, <1>4, <1>5, <1>6, Zenon DEF st

(***************************************************************************)
(* The interfaces an RPC node shows have been created by now.              *)
(***************************************************************************)
LEMMA InterfacesSeen ==
  ASSUME chain \in Seq(AnyTx), NEW s \in 0 .. Len(chain)
  PROVE  /\ InterfacesAt(s) = Created(chain, s)
         /\ InterfacesAt(s) \subseteq Run
         /\ InterfacesAt(s) \subseteq InterfacesAt(Len(chain))
<1>1. \A i \in 1 .. s : i \in 1 .. Len(chain)
  OBVIOUS
<1>2. \A i \in 1 .. Len(chain) : chain[i].creates \in SUBSET Run
  <2>1. \A i \in 1 .. Len(chain) : chain[i] \in AnyTx
    <3> HIDE DEF AnyTx
    <3> QED OBVIOUS
  <2> QED BY <2>1, Zenon DEF AnyTx
<1>3. InterfacesAt(s) = Created(chain, s)
  BY Zenon DEF InterfacesAt, Created, Upto
<1>4. InterfacesAt(s) \subseteq InterfacesAt(Len(chain))
  BY <1>1, Zenon DEF InterfacesAt, Upto
<1>5. InterfacesAt(s) \subseteq Run
  BY <1>1, <1>2, Zenon DEF InterfacesAt, Upto
<1> QED BY <1>3, <1>4, <1>5

(***************************************************************************)
(* The signature of a transaction that is accounted for is that of a step  *)
(* a process has sent, or of somebody else's creation.                     *)
(***************************************************************************)
LEMMA OwnSignature ==
  ASSUME WalletInv, NEW tx, Own(tx, run), NEW r, NEW k, tx.sig = <<r, k>>
  PROVE  /\ r \in Run /\ k \in 1 .. 3
         /\ Gone(run[r], k) /\ IsSent(tx, r, run[r], k)
<1>1. PICK q \in Run, j \in Nat : Gone(run[q], j) /\ IsSent(tx, q, run[q], j)
  BY Zenon DEF Own
<1>2. run[q].example \in Example
  <2>1. run[q] \in RunState
    BY ProcessState, Zenon
  <2> QED BY <2>1, Zenon DEF RunState
<1>3. tx.sig = <<q, j>> /\ j \in 1 .. 3
  <2>1. Effect(tx, q, run[q], j)
    BY <1>1, <1>2, SentTable, Zenon
  <2> QED BY <2>1, Zenon DEF Effect
<1>4. q = r /\ j = k
  BY <1>3, SMT
<1> QED BY <1>1, <1>3, <1>4, Zenon

(***************************************************************************)
(* Interfaces stay.                                                        *)
(***************************************************************************)
LEMMA CreatedGrows ==
  ASSUME NEW ch, NEW j \in Nat, NEW k \in Nat, j <= k
  PROVE  Created(ch, j) \subseteq Created(ch, k)
<1>1. \A i \in 1 .. j : i \in 1 .. k
  OBVIOUS
<1> QED BY <1>1, Zenon DEF Created

(***************************************************************************)
(* What is on the chain under a process's signature is what it sent.       *)
(***************************************************************************)
LEMMA ChainSignature ==
  ASSUME WalletInv, NEW i \in DOMAIN chain, NEW r, NEW k \in Nat \ {0}, chain[i].sig = <<r, k>>
  PROVE  /\ r \in Run /\ k \in 1 .. 3
         /\ Gone(run[r], k) /\ IsSent(chain[i], r, run[r], k)
<1>1. ~Foreign(chain[i])
  <2> SUFFICES ASSUME Foreign(chain[i]) PROVE FALSE
    OBVIOUS
  <2>1. PICK q \in Run : chain[i].sig = <<q, 0>>
    BY Zenon DEF Foreign
  <2>2. k = 0
    BY <2>1, SMT
  <2> QED BY <2>2
<1>2. Own(chain[i], run)
  BY <1>1, Zenon DEF WalletInv, LedgerOK
<1> QED BY <1>2, OwnSignature, Zenon

-----------------------------------------------------------------------------
(***************************************************************************)
(* The steps of a process.                                                 *)
(***************************************************************************)

(***************************************************************************)
(* CheckInterface: an interface that the lookup finds has been created.    *)
(***************************************************************************)
LEMMA CheckInterfaceKeeps ==
  ASSUME WalletInv, NEW r \in Run, CheckInterface(r)
  PROVE  WalletInv'
<1> DEFINE old == run[r]
<1>1. /\ old \in RunState /\ ProcessOK(r, old, chain) /\ PhaseOK(old)
      /\ chain \in Seq(AnyTx)
  BY ProcessState, Zenon DEF WalletInv, WalletTypes
<1>2. PICK s \in RpcView : Becomes(r, [run[r] EXCEPT !.found = r \in InterfacesAt(s), !.phase = "build"])
  BY Zenon DEF CheckInterface
<1> DEFINE seen == r \in InterfacesAt(s)
           st == [old EXCEPT !.found = seen, !.phase = "build"]
<1>3. run' = [run EXCEPT ![r] = st] /\ UNCHANGED <<chain, rejected, indexed, flight>>
  BY <1>2, Zenon DEF Becomes, CheckInterface
<1>4. old.phase = "check"
  BY Zenon DEF CheckInterface
<1>5. s \in 0 .. Len(chain) /\ Len(chain) \in 0 .. Len(chain)
  <2> HIDE DEF AnyTx
  <2> QED BY <1>1 DEF RpcView
<1>6. seen => r \in Created(chain, Len(chain))
  BY <1>1, <1>5, InterfacesSeen, Zenon
<1>7. seen \in BOOLEAN
  OBVIOUS
<1> HIDE DEF seen, old
<1>8. old.example = "deposit_with_interface_setup" /\ old.step = 2
  BY <1>1, <1>4, CheckComesFirst, Zenon
<1>9. st \in RunState
  <2>1. "build" \in Phase
    BY DEF Phase
  <2> QED BY <1>1, <1>7, <2>1, Zenon DEF RunState
<1>10. /\ st.phase = "build" /\ st.example = old.example /\ st.client = old.client
       /\ st.step = old.step /\ st.slot = old.slot /\ st.utxos = old.utxos
       /\ st.found = seen /\ st.error = old.error
  BY <1>1, Zenon DEF RunState
<1> HIDE DEF st
<1>11. PhaseOK(st)
  BY <1>1, <1>4, <1>8, <1>10 DEF PhaseOK
<1>12. old.error = "none"
  <2>1. old.phase # "failed"
    BY <1>4
  <2> QED BY <1>1, <2>1, Zenon DEF ProcessOK
<1>13. ProcessOK(r, st, chain)
  <2>1. st.example # "deposit_transfer_withdraw" /\ st.error \notin {"unknown mint", "assertion"}
    BY <1>8, <1>10, <1>12
  <2>2. st.phase \notin {"located", "registered", "scan"}
    BY <1>10
  <2> QED BY <1>6, <1>10, <1>11, <1>12, <2>1, <2>2, Zenon DEF ProcessOK
<1>14. Follows(old, st)
  BY <1>4, <1>10 DEF Follows, Gone
<1> QED BY <1>3, <1>9, <1>13, <1>14, OneProcessMoves, Zenon DEF old

(***************************************************************************)
(* Only a SOL flow deposits, transfers or withdraws SOL.                   *)
(***************************************************************************)
LEMMA SolSteps ==
  ASSUME NEW e, NEW k, NEW len, NEW kind, InTable(e, k, len, kind)
  PROVE  /\ e = "deposit_transfer_withdraw" => kind \in {"deposit", "transfer", "withdraw"}
         /\ kind \in {"deposit", "transfer", "withdraw"} => e = "deposit_transfer_withdraw"
         /\ kind \in ReadsBack <=> kind \in {"deposit", "transfer", "withdraw", "deposit_spl"}
         /\ k \in 1 .. 3
         /\ kind = "deposit" => k = 1
         /\ kind = "transfer" => k = 2
         /\ kind = "withdraw" => k = 3
         /\ kind = "deposit_spl" => k = 2 /\ e = "deposit_with_interface_setup"
         /\ e = "sync_balance" => k = 1 /\ len = 1 /\ kind = "sync"
         /\ kind = "sync" => e = "sync_balance"
BY SMT DEF InTable, ReadsBack

(***************************************************************************)
(* Confirm: the status that confirms a transaction is about the slot in    *)
(* which this process's transaction landed.                                *)
(***************************************************************************)
LEMMA ConfirmKeeps ==
  ASSUME WalletInv, NEW r \in Run, Confirm(r)
  PROVE  WalletInv'
<1> DEFINE old == run[r]
           step == StepOf(old)
<1>1. /\ old \in RunState /\ ProcessOK(r, old, chain) /\ PhaseOK(old) /\ old.step \in Nat
  BY ProcessState, Zenon
<1>2. old.phase = "sent" /\ UNCHANGED <<chain, rejected, indexed, flight>>
  BY Zenon DEF Confirm
<1>3. old.example # "idle" /\ InTable(old.example, old.step, Len(Steps[old.example]), step)
  <2>1. old.phase # "done"
    BY <1>2
  <2> QED BY <2>1, ProcessState, Zenon
<1>4. PICK slot \in SlotOf(Signature(r)) :
        Becomes(r, IF step \in ReadsBack
                   THEN IF run[r].client = "rust"
                        THEN [run[r] EXCEPT !.phase = "confirmed"]
                        ELSE [run[r] EXCEPT !.phase = "located", !.slot = slot]
                   ELSE IF step = "register"
                   THEN [run[r] EXCEPT !.phase = "registered", !.slot = slot]
                   ELSE Advanced(run[r]))
  BY Zenon DEF Confirm
<1>5. slot \in DOMAIN chain /\ chain[slot].sig = <<r, old.step>>
  BY <1>4, Zenon DEF SlotOf, Signature
<1>6. slot \in Nat
  <2>1. chain \in Seq(AnyTx)
    BY Zenon DEF WalletInv, WalletTypes
  <2> HIDE DEF AnyTx
  <2> QED BY <1>5, <2>1
<1> HIDE DEF step
<1> DEFINE st1 == [old EXCEPT !.phase = "confirmed"]
           st2 == [old EXCEPT !.phase = "located", !.slot = slot]
           st3 == [old EXCEPT !.phase = "registered", !.slot = slot]
<1>7. run' = [run EXCEPT ![r] =
        IF step \in ReadsBack THEN IF old.client = "rust" THEN st1 ELSE st2
        ELSE IF step = "register" THEN st3 ELSE Advanced(old)]
  BY <1>4, Zenon DEF Becomes
<1>8. "confirmed" \in Phase /\ "located" \in Phase /\ "registered" \in Phase
  BY DEF Phase
<1>9. \A q : q = old => q.phase \in {"sent", "confirmed", "located"}
  BY <1>2
<1>10. old.phase \in {"sent", "confirmed", "located"}
  BY <1>9, Zenon
<1>11. CASE step \in ReadsBack /\ old.client = "rust"
  <2>1. run' = [run EXCEPT ![r] = st1]
    BY <1>7, <1>11, Zenon
  <2> HIDE DEF old
  <2>2. st1 \in RunState
    BY <1>1, <1>8, Zenon DEF RunState
  <2>3. /\ st1.phase = "confirmed" /\ st1.example = old.example /\ st1.client = old.client
        /\ st1.step = old.step /\ st1.found = old.found /\ st1.error = old.error
    BY <1>1, Zenon DEF RunState
  <2> HIDE DEF st1
  <2>4. /\ st1.phase \in {"confirmed", "located", "registered"}
        /\ st1.phase \notin {"located", "registered"}
        /\ st1.phase # "located" /\ st1.phase # "registered"
    BY <2>3
  <2>5. ProcessOK(r, st1, chain) /\ Follows(old, st1)
    BY <1>1, <1>10, <1>11, <2>3, <2>4, ConfirmedOK, Zenon DEF step
  <2> QED BY <1>2, <2>1, <2>2, <2>5, OneProcessMoves, Zenon DEF old
<1>12. CASE step \in ReadsBack /\ old.client # "rust"
  <2>1. run' = [run EXCEPT ![r] = st2]
    BY <1>7, <1>12, Zenon
  <2> HIDE DEF old
  <2>2. st2 \in RunState
    BY <1>1, <1>6, <1>8, Zenon DEF RunState
  <2>3. /\ st2.phase = "located" /\ st2.example = old.example /\ st2.client = old.client
        /\ st2.step = old.step /\ st2.found = old.found /\ st2.error = old.error
        /\ st2.slot = slot
    BY <1>1, Zenon DEF RunState
  <2> HIDE DEF st2
  <2>4. /\ st2.phase \in {"confirmed", "located", "registered"}
        /\ st2.phase # "confirmed" /\ st2.phase # "registered"
    BY <2>3
  <2>5. ProcessOK(r, st2, chain) /\ Follows(old, st2)
    BY <1>1, <1>5, <1>10, <1>12, <2>3, <2>4, ConfirmedOK, Zenon DEF step
  <2> QED BY <1>2, <2>1, <2>2, <2>5, OneProcessMoves, Zenon DEF old
<1>13. CASE step \notin ReadsBack /\ step = "register"
  <2>1. run' = [run EXCEPT ![r] = st3]
    BY <1>7, <1>13, Zenon
  <2> HIDE DEF old
  <2>2. st3 \in RunState
    BY <1>1, <1>6, <1>8, Zenon DEF RunState
  <2>3. /\ st3.phase = "registered" /\ st3.example = old.example /\ st3.client = old.client
        /\ st3.step = old.step /\ st3.found = old.found /\ st3.error = old.error
        /\ st3.slot = slot
    BY <1>1, Zenon DEF RunState
  <2> HIDE DEF st3
  <2>4. /\ st3.phase \in {"confirmed", "located", "registered"}
        /\ st3.phase # "confirmed" /\ st3.phase # "located"
    BY <2>3
  <2>5. ProcessOK(r, st3, chain) /\ Follows(old, st3)
    BY <1>1, <1>5, <1>10, <1>13, <2>3, <2>4, ConfirmedOK, Zenon DEF step
  <2> QED BY <1>2, <2>1, <2>2, <2>5, OneProcessMoves, Zenon DEF old
<1>14. CASE step \notin ReadsBack /\ step # "register"
  <2>1. run' = [run EXCEPT ![r] = Advanced(old)]
    BY <1>7, <1>14, Zenon
  <2>2. old.example # "deposit_transfer_withdraw"
    BY <1>3, <1>14, SolSteps
  <2>3. OnChain(chain, <<r, old.step>>)
    BY <1>5, Zenon DEF OnChain
  <2>4. old.phase \in {"sent", "located", "registered"}
    <3> HIDE DEF old
    <3> QED BY <1>2
  <2>5. /\ Advanced(old) \in RunState /\ ProcessOK(r, Advanced(old), chain)
        /\ Follows(old, Advanced(old))
    <3> HIDE DEF old
    <3> QED BY <1>1, <1>3, <2>2, <2>3, <2>4, AdvancedOK, Zenon
  <2> QED BY <1>2, <2>1, <2>5, OneProcessMoves, Zenon
<1> QED BY <1>11, <1>12, <1>13, <1>14

(***************************************************************************)
(* ConfirmFails: the transaction was rejected, or the process stops        *)
(* waiting.                                                                *)
(***************************************************************************)
LEMMA ConfirmFailsKeeps ==
  ASSUME WalletInv, NEW r \in Run, ConfirmFails(r)
  PROVE  WalletInv'
<1>1. run[r].phase = "sent" /\ UNCHANGED <<chain, rejected, indexed, flight>>
  BY Zenon DEF ConfirmFails
<1>2. run[r].phase # "done"
  BY <1>1
<1>3. CASE Signature(r) \in rejected /\ Becomes(r, Failed(r, "rejected"))
  <2>1. "rejected" \in Problem /\ "rejected" \notin {"assertion", "unknown mint"}
    BY DEF Problem
  <2>2. /\ Failed(r, "rejected") \in RunState
        /\ ProcessOK(r, Failed(r, "rejected"), chain)
        /\ Follows(run[r], Failed(r, "rejected"))
    BY <1>2, <2>1, FailedOK, Zenon
  <2> QED BY <1>1, <1>3, <2>2, OneProcessMoves, Zenon DEF Becomes
<1>4. CASE Becomes(r, Failed(r, "timeout"))
  <2>1. "timeout" \in Problem /\ "timeout" \notin {"assertion", "unknown mint"}
    BY DEF Problem
  <2>2. /\ Failed(r, "timeout") \in RunState
        /\ ProcessOK(r, Failed(r, "timeout"), chain)
        /\ Follows(run[r], Failed(r, "timeout"))
    BY <1>2, <2>1, FailedOK, Zenon
  <2> QED BY <1>1, <1>4, <2>2, OneProcessMoves, Zenon DEF Becomes
<1> QED BY <1>3, <1>4, Zenon DEF ConfirmFails

(***************************************************************************)
(* RequestFails: the process ends with what it has; nothing else changes.  *)
(***************************************************************************)
LEMMA RequestFailsKeeps ==
  ASSUME WalletInv, NEW r \in Run, RequestFails(r)
  PROVE  WalletInv'
<1>1. /\ run[r].phase # "done" /\ Becomes(r, Failed(r, "request"))
      /\ UNCHANGED <<chain, rejected, indexed, flight>>
  BY DEF RequestFails
<1>2. "request" \in Problem /\ "request" \notin {"assertion", "unknown mint"}
  BY DEF Problem
<1>3. /\ Failed(r, "request") \in RunState
      /\ ProcessOK(r, Failed(r, "request"), chain)
      /\ Follows(run[r], Failed(r, "request"))
  BY <1>1, <1>2, FailedOK, Zenon
<1> QED BY <1>1, <1>3, OneProcessMoves, Zenon DEF Becomes

(***************************************************************************)
(* landed_slot: the Rust client may fail here, asking a node that is       *)
(* behind; if it does not, it has the slot of its own transaction.         *)
(***************************************************************************)
LEMMA LandedSlotKeeps ==
  ASSUME WalletInv, NEW r \in Run, landed_slot(r)
  PROVE  WalletInv'
<1> DEFINE old == run[r]
<1>1. old \in RunState /\ ProcessOK(r, old, chain) /\ PhaseOK(old)
  BY ProcessState, Zenon
<1>2. old.phase = "confirmed" /\ UNCHANGED <<chain, rejected, indexed, flight>>
  BY Zenon DEF landed_slot
<1>3. StepOf(old) \in ReadsBack /\ old.client = "rust"
  BY <1>1, <1>2, Zenon DEF PhaseOK
<1>4. PICK s \in RpcView, slot \in SlotOf(Signature(r)) :
        Becomes(r, IF slot <= s THEN [run[r] EXCEPT !.phase = "located", !.slot = slot]
                   ELSE Failed(r, "status missing"))
  BY Zenon DEF landed_slot
<1>5. slot \in DOMAIN chain /\ chain[slot].sig = <<r, old.step>>
  BY <1>4, Zenon DEF SlotOf, Signature
<1>6. slot \in Nat
  <2>1. chain \in Seq(AnyTx)
    BY Zenon DEF WalletInv, WalletTypes
  <2> HIDE DEF AnyTx
  <2> QED BY <1>5, <2>1
<1> DEFINE st == [old EXCEPT !.phase = "located", !.slot = slot]
<1>7. CASE slot <= s
  <2>1. run' = [run EXCEPT ![r] = st]
    BY <1>4, <1>7, Zenon DEF Becomes
  <2>2. "located" \in Phase /\ \A q : q = "confirmed" => q \in {"sent", "confirmed", "located"}
    BY DEF Phase
  <2> HIDE DEF old
  <2>3. st \in RunState
    BY <1>1, <1>6, <2>2, Zenon DEF RunState
  <2>4. /\ st.phase = "located" /\ st.example = old.example /\ st.client = old.client
        /\ st.step = old.step /\ st.found = old.found /\ st.error = old.error
        /\ st.slot = slot
    BY <1>1, Zenon DEF RunState
  <2> HIDE DEF st
  <2>5. /\ st.phase \in {"confirmed", "located", "registered"}
        /\ st.phase # "confirmed" /\ st.phase # "registered"
    BY <2>4
  <2>6. ProcessOK(r, st, chain) /\ Follows(old, st)
    BY <1>1, <1>2, <1>3, <1>5, <2>2, <2>4, <2>5, ConfirmedOK, Zenon
  <2> QED BY <1>2, <2>1, <2>3, <2>6, OneProcessMoves, Zenon DEF old
<1>8. CASE ~(slot <= s)
  <2>1. run' = [run EXCEPT ![r] = Failed(r, "status missing")]
    BY <1>4, <1>8, Zenon DEF Becomes
  <2>2. "status missing" \in Problem /\ "status missing" \notin {"assertion", "unknown mint"}
    BY DEF Problem
  <2>3. run[r].phase # "done"
    BY <1>2
  <2>4. /\ Failed(r, "status missing") \in RunState
        /\ ProcessOK(r, Failed(r, "status missing"), chain)
        /\ Follows(run[r], Failed(r, "status missing"))
    BY <2>2, <2>3, FailedOK, Zenon
  <2> QED BY <1>2, <2>1, <2>4, OneProcessMoves, Zenon
<1> QED BY <1>7, <1>8

(***************************************************************************)
(* CheckRegistered: the lookup may be answered by a node that is behind.   *)
(***************************************************************************)
LEMMA CheckRegisteredKeeps ==
  ASSUME WalletInv, NEW r \in Run, CheckRegistered(r)
  PROVE  WalletInv'
<1> DEFINE old == run[r]
<1>1. old \in RunState /\ ProcessOK(r, old, chain) /\ PhaseOK(old)
  BY ProcessState, Zenon
<1>2. old.phase = "registered" /\ UNCHANGED <<chain, rejected, indexed, flight>>
  BY Zenon DEF CheckRegistered
<1>3. old.phase # "done" /\ old.phase \in {"located", "registered"}
      /\ old.phase \in {"sent", "located", "registered"}
  BY <1>2
<1>4. old.example # "idle" /\ InTable(old.example, old.step, Len(Steps[old.example]), StepOf(old))
  BY <1>3, ProcessState, Zenon
<1>5. old.example # "deposit_transfer_withdraw"
  <2>1. StepOf(old) = "register"
    BY <1>1, <1>2, Zenon DEF PhaseOK
  <2> QED BY <1>4, <2>1 DEF InTable
<1>6. PICK s \in RpcView :
        Becomes(r, IF run[r].slot <= s THEN Advanced(run[r]) ELSE Failed(r, "not registered"))
  BY Zenon DEF CheckRegistered
<1>7. CASE run[r].slot <= s
  <2>1. run' = [run EXCEPT ![r] = Advanced(old)]
    BY <1>6, <1>7, Zenon DEF Becomes
  <2>2. OnChain(chain, <<r, old.step>>)
    BY <1>1, <1>3, Zenon DEF ProcessOK, OnChain
  <2>3. /\ Advanced(old) \in RunState /\ ProcessOK(r, Advanced(old), chain)
        /\ Follows(old, Advanced(old))
    <3> HIDE DEF old
    <3> QED BY <1>1, <1>3, <1>4, <1>5, <2>2, AdvancedOK, Zenon
  <2> QED BY <1>2, <2>1, <2>3, OneProcessMoves, Zenon
<1>8. CASE ~(run[r].slot <= s)
  <2>1. run' = [run EXCEPT ![r] = Failed(r, "not registered")]
    BY <1>6, <1>8, Zenon DEF Becomes
  <2>2. "not registered" \in Problem /\ "not registered" \notin {"assertion", "unknown mint"}
    BY DEF Problem
  <2>3. /\ Failed(r, "not registered") \in RunState
        /\ ProcessOK(r, Failed(r, "not registered"), chain)
        /\ Follows(run[r], Failed(r, "not registered"))
    BY <1>3, <2>2, FailedOK, Zenon
  <2> QED BY <1>2, <2>1, <2>3, OneProcessMoves, Zenon
<1> QED BY <1>7, <1>8

(***************************************************************************)
(* LookupRegistry: the asset table of the process grows, or the process    *)
(* fails because the node that answers is behind.                          *)
(***************************************************************************)
LEMMA LookupRegistryKeeps ==
  ASSUME WalletInv, NEW r \in Run, LookupRegistry(r)
  PROVE  WalletInv'
<1> DEFINE old == run[r]
<1>1. old \in RunState /\ ProcessOK(r, old, chain) /\ PhaseOK(old)
  BY ProcessState, Zenon
<1>2. /\ old.phase = "located" /\ StepOf(old) = "deposit_spl"
      /\ UNCHANGED <<chain, rejected, indexed, flight>>
  BY Zenon DEF LookupRegistry
<1>3. old.phase # "done" /\ old.phase \in {"located", "registered"}
      /\ old.phase \in {"sent", "confirmed", "located"}
  BY <1>2
<1>4. PICK s \in RpcView :
        Becomes(r, IF r \in InterfacesAt(s) THEN [run[r] EXCEPT !.assets = @ \cup {r}]
                   ELSE Failed(r, "registry missing"))
  BY Zenon DEF LookupRegistry
<1> DEFINE st == [old EXCEPT !.assets = old.assets \cup {r}]
<1>5. CASE r \in InterfacesAt(s)
  <2>1. run' = [run EXCEPT ![r] = st]
    BY <1>4, <1>5, Zenon DEF Becomes
  <2> HIDE DEF old
  <2>2. old.assets \cup {r} \in SUBSET (Run \cup {Sol})
    <3>1. old.assets \in SUBSET (Run \cup {Sol})
      BY <1>1, Zenon DEF RunState
    <3> QED BY <3>1
  <2>3. st \in RunState
    BY <1>1, <2>2, Zenon DEF RunState
  <2>4. /\ st.phase = old.phase /\ st.example = old.example /\ st.client = old.client
        /\ st.step = old.step /\ st.found = old.found /\ st.error = old.error
        /\ st.slot = old.slot
    BY <1>1, Zenon DEF RunState
  <2> HIDE DEF st
  <2>5. /\ st.phase \in {"confirmed", "located", "registered"}
        /\ st.phase # "confirmed" /\ st.phase # "registered"
    BY <1>2, <2>4
  <2>6. StepOf(old) \in ReadsBack
    BY <1>2 DEF ReadsBack
  <2>7. st.slot \in DOMAIN chain /\ chain[st.slot].sig = <<r, st.step>>
    BY <1>1, <1>3, <2>4, Zenon DEF ProcessOK
  <2>8. ProcessOK(r, st, chain) /\ Follows(old, st)
    BY <1>1, <1>3, <2>4, <2>5, <2>6, <2>7, ConfirmedOK, Zenon
  <2> QED BY <1>2, <2>1, <2>3, <2>8, OneProcessMoves, Zenon DEF old
<1>6. CASE r \notin InterfacesAt(s)
  <2>1. run' = [run EXCEPT ![r] = Failed(r, "registry missing")]
    BY <1>4, <1>6, Zenon DEF Becomes
  <2>2. "registry missing" \in Problem /\ "registry missing" \notin {"assertion", "unknown mint"}
    BY DEF Problem
  <2>3. /\ Failed(r, "registry missing") \in RunState
        /\ ProcessOK(r, Failed(r, "registry missing"), chain)
        /\ Follows(run[r], Failed(r, "registry missing"))
    BY <1>3, <2>2, FailedOK, Zenon
  <2> QED BY <1>2, <2>1, <2>3, OneProcessMoves, Zenon
<1> QED BY <1>5, <1>6

(***************************************************************************)
(* LoadRegistry: the process notes as of which slot it knows the mints.    *)
(***************************************************************************)
LEMMA LoadRegistryKeeps ==
  ASSUME WalletInv, NEW r \in Run, LoadRegistry(r)
  PROVE  WalletInv'
<1> DEFINE old == run[r]
<1>1. /\ old \in RunState /\ ProcessOK(r, old, chain) /\ PhaseOK(old)
      /\ chain \in Seq(AnyTx)
  BY ProcessState, Zenon DEF WalletInv, WalletTypes
<1>2. old.phase = "registry" /\ UNCHANGED <<chain, rejected, indexed, flight>>
  BY Zenon DEF LoadRegistry
<1>3. PICK s \in RpcView :
        Becomes(r, [run[r] EXCEPT !.assets = asset_registry(s), !.slot = s, !.phase = "scan"])
  BY Zenon DEF LoadRegistry
<1> DEFINE known == asset_registry(s)
           st == [old EXCEPT !.assets = known, !.slot = s, !.phase = "scan"]
<1>4. run' = [run EXCEPT ![r] = st]
  BY <1>3, Zenon DEF Becomes
<1>5. s \in 0 .. Len(chain) /\ s \in Nat
  <2> HIDE DEF AnyTx
  <2> QED BY <1>1 DEF RpcView
<1>6. known = {Sol} \cup Created(chain, s) /\ known \in SUBSET (Run \cup {Sol})
  <2>1. InterfacesAt(s) = Created(chain, s) /\ InterfacesAt(s) \subseteq Run
    BY <1>1, <1>5, InterfacesSeen, Zenon
  <2> QED BY <2>1, Zenon DEF asset_registry
<1> HIDE DEF known, old
<1>7. st \in RunState
  <2>1. "scan" \in Phase
    BY DEF Phase
  <2> QED BY <1>1, <1>5, <1>6, <2>1, Zenon DEF RunState
<1>8. /\ st.phase = "scan" /\ st.example = old.example /\ st.client = old.client
      /\ st.step = old.step /\ st.slot = s /\ st.assets = known
      /\ st.found = old.found /\ st.error = old.error
  BY <1>1, Zenon DEF RunState
<1> HIDE DEF st
<1>9. old.example = "sync_balance"
  BY <1>1, <1>2 DEF PhaseOK
<1>10. PhaseOK(st)
  BY <1>1, <1>8, <1>9 DEF PhaseOK
<1>11. old.error = "none" /\ (old.found => r \in Created(chain, Len(chain)))
  <2>1. old.phase # "failed"
    BY <1>2
  <2> QED BY <1>1, <2>1, Zenon DEF ProcessOK
<1>12. ProcessOK(r, st, chain)
  <2>1. /\ st.example # "deposit_transfer_withdraw"
        /\ st.phase \notin {"located", "registered"}
        /\ st.error \notin {"unknown mint", "assertion"}
    BY <1>8, <1>9, <1>11
  <2> QED BY <1>5, <1>6, <1>8, <1>10, <1>11, <2>1, Zenon DEF ProcessOK
<1>13. Follows(old, st)
  BY <1>2, <1>8 DEF Follows, Gone
<1> QED BY <1>2, <1>4, <1>7, <1>12, <1>13, OneProcessMoves, Zenon DEF old

(***************************************************************************)
(* Scan: a balance is shown only if every mint is known; otherwise the     *)
(* notes' mints were registered by the slot that was scanned.              *)
(***************************************************************************)
LEMMA ScanKeeps ==
  ASSUME WalletInv, NEW r \in Run, Scan(r)
  PROVE  WalletInv'
<1> DEFINE old == run[r]
           got == decrypt_spendable(Upto(indexed))
           mid == [old EXCEPT !.utxos = got, !.slot = indexed]
<1>1. /\ old \in RunState /\ ProcessOK(r, old, chain) /\ PhaseOK(old)
      /\ chain \in Seq(AnyTx) /\ indexed \in 0 .. Len(chain)
  BY ProcessState, Zenon DEF WalletInv, WalletTypes
<1>2. old.phase = "scan" /\ UNCHANGED <<chain, rejected, indexed, flight>>
  BY Zenon DEF Scan
<1>3. run' = [run EXCEPT ![r] =
        IF {n.mint : n \in got} \subseteq old.assets THEN Advanced(mid)
        ELSE [Failed(r, "unknown mint") EXCEPT !.utxos = got, !.slot = indexed]]
  BY Zenon DEF Scan, Becomes
<1>4. got \in SUBSET AnyNote
  <2>1. \A i \in 1 .. indexed : chain[i] \in AnyTx
    <3> HIDE DEF AnyTx
    <3> QED BY <1>1
  <2>2. \A i \in 1 .. indexed : chain[i].outs \in SUBSET AnyNote
    BY <2>1, Zenon DEF AnyTx
  <2>3. SUFFICES ASSUME NEW n \in got PROVE n \in AnyNote
    BY Zenon
  <2>4. PICK tx \in Upto(indexed) : n \in tx.outs
    BY Zenon DEF decrypt_spendable
  <2>5. PICK i \in 1 .. indexed : tx = chain[i]
    BY Zenon DEF Upto
  <2> QED BY <2>2, <2>4, <2>5, Zenon
<1>5. old.example = "sync_balance" /\ old.phase # "done" /\ old.phase # "failed"
  BY <1>1, <1>2 DEF PhaseOK
<1>6. /\ old.error = "none" /\ (old.found => r \in Created(chain, Len(chain)))
      /\ old.slot \in 0 .. Len(chain) /\ old.assets = {Sol} \cup Created(chain, old.slot)
  BY <1>1, <1>2, <1>5, Zenon DEF ProcessOK
<1>7. indexed \in Nat
  <2> HIDE DEF AnyTx
  <2> QED BY <1>1
<1>8. Failed(r, "unknown mint") = [old EXCEPT !.phase = "failed", !.error = "unknown mint"]
  BY Zenon DEF Failed
<1>9. \A n \in got : n.mint \in {Sol} \cup Created(chain, indexed)
  <2> TAKE n \in got
  <2>1. PICK tx \in Upto(indexed) : n \in tx.outs
    BY Zenon DEF decrypt_spendable
  <2>2. PICK i \in 1 .. indexed : tx = chain[i]
    BY <2>1, Zenon DEF Upto
  <2>3. i \in DOMAIN chain /\ i \in Nat /\ i <= indexed
    <3> HIDE DEF AnyTx, got
    <3> QED BY <1>1
  <2>4. n.mint \in {Sol} \cup Created(chain, i)
    BY <2>1, <2>2, <2>3, Zenon DEF WalletInv, LedgerOK
  <2>5. Created(chain, i) \subseteq Created(chain, indexed)
    BY <1>7, <2>3, CreatedGrows, Zenon
  <2> QED BY <2>4, <2>5, Zenon
<1> HIDE DEF got, old
<1>10. CASE {n.mint : n \in got} \subseteq old.assets
  <2> DEFINE st == [mid EXCEPT !.phase = "done"]
  <2>1. mid \in RunState
    BY <1>1, <1>4, <1>7, Zenon DEF RunState
  <2>2. /\ mid.phase = old.phase /\ mid.example = old.example /\ mid.client = old.client
        /\ mid.step = old.step /\ mid.found = old.found /\ mid.error = old.error
    BY <1>1, Zenon DEF RunState
  <2> HIDE DEF mid
  <2>3. PhaseOK(mid)
    BY <1>1, <1>2, <1>5, <2>2 DEF PhaseOK, StepOf
  <2>4. Advanced(mid) = st
    <3>1. InTable(old.example, old.step, Len(Steps[old.example]), StepOf(old))
      BY <1>5, ProcessState, Zenon DEF old
    <3>2. old.step = Len(Steps[old.example])
      BY <1>5, <3>1 DEF InTable
    <3>3. mid.step = Len(Steps[mid.example])
      BY <2>2, <3>2, Zenon
    <3> QED BY <3>3, Zenon DEF Advanced
  <2>5. st \in RunState
    <3>1. "done" \in Phase
      BY DEF Phase
    <3> QED BY <2>1, <3>1, Zenon DEF RunState
  <2>6. /\ st.phase = "done" /\ st.example = old.example /\ st.client = old.client
        /\ st.step = old.step /\ st.found = old.found /\ st.error = old.error
    <3>1. /\ st.phase = "done" /\ st.example = mid.example /\ st.client = mid.client
          /\ st.step = mid.step /\ st.found = mid.found /\ st.error = mid.error
      BY <2>1, Zenon DEF RunState
    <3> QED BY <2>2, <3>1, Zenon
  <2> HIDE DEF st
  <2>7. PhaseOK(st)
    BY <1>1, <1>2, <1>5, <2>6 DEF PhaseOK
  <2>8. ProcessOK(r, st, chain)
    <3>1. /\ st.example # "deposit_transfer_withdraw"
          /\ st.phase \notin {"located", "registered", "scan"}
          /\ st.error \notin {"unknown mint", "assertion"}
      BY <1>5, <1>6, <2>6
    <3> QED BY <1>6, <2>6, <2>7, <3>1, Zenon DEF ProcessOK
  <2>9. Follows(old, st)
    BY <1>2, <2>6 DEF Follows, Gone
  <2>10. run' = [run EXCEPT ![r] = st]
    BY <1>3, <1>10, <2>4, Zenon
  <2> QED BY <1>2, <2>5, <2>8, <2>9, <2>10, OneProcessMoves, Zenon DEF old
<1>11. CASE ~({n.mint : n \in got} \subseteq old.assets)
  <2> DEFINE st == [[old EXCEPT !.phase = "failed", !.error = "unknown mint"]
                      EXCEPT !.utxos = got, !.slot = indexed]
  <2>1. st \in RunState
    <3>1. "failed" \in Phase /\ "unknown mint" \in Problem
      BY DEF Phase, Problem
    <3> QED BY <1>1, <1>4, <1>7, <3>1, Zenon DEF RunState
  <2>2. /\ st.phase = "failed" /\ st.example = old.example /\ st.client = old.client
        /\ st.step = old.step /\ st.found = old.found /\ st.error = "unknown mint"
        /\ st.slot = indexed /\ st.utxos = got
    BY <1>1, Zenon DEF RunState
  <2> HIDE DEF st
  <2>3. PhaseOK(st)
    BY <1>1, <1>2, <1>5, <2>2 DEF PhaseOK
  <2>4. \A n \in st.utxos : n.mint \in {Sol} \cup Created(chain, st.slot)
    BY <1>9, <2>2, Zenon
  <2>5. ProcessOK(r, st, chain)
    <3>1. /\ st.example # "deposit_transfer_withdraw"
          /\ st.phase \notin {"located", "registered", "scan"}
          /\ st.error # "assertion"
      BY <1>5, <2>2
    <3> QED BY <1>1, <1>6, <2>2, <2>3, <2>4, <3>1, Zenon DEF ProcessOK
  <2>6. Follows(old, st)
    BY <1>2, <2>2 DEF Follows, Gone
  <2>7. run' = [run EXCEPT ![r] = st]
    BY <1>3, <1>8, <1>11, Zenon DEF st
  <2> QED BY <1>2, <2>1, <2>5, <2>6, <2>7, OneProcessMoves, Zenon DEF old
<1> QED BY <1>10, <1>11

(***************************************************************************)
(* The note a step leaves the sender with.                                 *)
(***************************************************************************)
LEMMA MadeIsNote ==
  ASSUME NEW r \in Run, NEW kind, NEW k \in Nat
  PROVE  /\ Made(r, kind, k) \in AnyNote
         /\ Made(r, kind, k).sig = <<r, k>>
         /\ Made(r, kind, k).mint = IF kind = "deposit_spl" THEN r ELSE Sol
         /\ Made(r, kind, k).owner = "sender"
         /\ Made(r, kind, k).amount \in Int
<1> DEFINE amount == CASE kind = "transfer" -> DepositAmount - TransferAmount
                       [] kind = "withdraw" -> DepositAmount - TransferAmount - WithdrawAmount
                       [] OTHER             -> DepositAmount
           mint == IF kind = "deposit_spl" THEN r ELSE Sol
<1>1. Made(r, kind, k) = [sig |-> <<r, k>>, owner |-> "sender", mint |-> mint, amount |-> amount]
  BY Zenon DEF Made
<1>2. amount \in Int
  BY WalletAssumption
<1>3. mint \in Run \cup {Sol}
  OBVIOUS
<1>4. <<r, k>> \in Run \X Nat /\ "sender" \in {"sender", "recipient"}
  OBVIOUS
<1> HIDE DEF amount
<1>5. /\ Made(r, kind, k).sig = <<r, k>> /\ Made(r, kind, k).mint = mint
      /\ Made(r, kind, k).owner = "sender" /\ Made(r, kind, k).amount = amount
  <2> HIDE DEF mint
  <2> QED BY <1>1
<1>6. Made(r, kind, k) \in AnyNote
  <2> HIDE DEF mint
  <2> QED BY <1>1, <1>2, <1>3, <1>4 DEF AnyNote
<1> QED BY <1>2, <1>5, <1>6, Zenon

(***************************************************************************)
(* What the examples assert is the note their step makes.                  *)
(***************************************************************************)
LEMMA ExpectedIsMade ==
  ASSUME NEW r \in Run, NEW k \in Nat, StepOf(run[r]) \in ReadsBack
  PROVE  /\ Expected(r)[1] = Made(r, StepOf(run[r]), k).mint
         /\ Expected(r)[2] = Made(r, StepOf(run[r]), k).amount
<1> DEFINE kind == StepOf(run[r])
           expected == CASE kind = "deposit"     -> <<Sol, DepositAmount>>
                         [] kind = "transfer"    -> <<Sol, DepositAmount - TransferAmount>>
                         [] kind = "withdraw"    -> <<Sol, DepositAmount - TransferAmount - WithdrawAmount>>
                         [] kind = "deposit_spl" -> <<r, DepositAmount>>
           mint == IF kind = "deposit_spl" THEN r ELSE Sol
           amount == CASE kind = "transfer" -> DepositAmount - TransferAmount
                       [] kind = "withdraw" -> DepositAmount - TransferAmount - WithdrawAmount
                       [] OTHER             -> DepositAmount
<1>1. Expected(r) = expected
  BY Zenon DEF Expected
<1>2. Made(r, kind, k).mint = mint /\ Made(r, kind, k).amount = amount
  BY Zenon DEF Made
<1>3. kind \in {"deposit", "transfer", "withdraw", "deposit_spl"}
  BY DEF ReadsBack
<1> HIDE DEF kind
<1>4. expected = <<mint, amount>>
  BY <1>3
<1> HIDE DEF expected, mint, amount
<1>5. expected[1] = mint /\ expected[2] = amount
  BY <1>4
<1> QED BY <1>1, <1>2, <1>5, Zenon DEF kind

(***************************************************************************)
(* Under its own signature a process finds its own transaction and nothing *)
(* else, and of it the note that its step makes.                           *)
(***************************************************************************)
LEMMA FoundIsMade ==
  ASSUME WalletInv, NEW r \in Run, run[r].phase = "located", at_slot(run[r].slot)
  PROVE  decrypt_spendable(BySignature(Signature(r))) = {Made(r, StepOf(run[r]), run[r].step)}
<1> DEFINE old == run[r]
           k == old.step
           kind == StepOf(old)
           tx == chain[old.slot]
<1>1. /\ old \in RunState /\ ProcessOK(r, old, chain) /\ PhaseOK(old) /\ k \in Nat
      /\ chain \in Seq(AnyTx) /\ indexed \in 0 .. Len(chain)
  BY ProcessState, Zenon DEF WalletInv, WalletTypes
<1>2. old.phase \in {"located", "registered"} /\ old.phase # "done"
  BY SMT
<1>3. old.slot \in DOMAIN chain /\ tx.sig = <<r, k>>
  BY <1>1, <1>2, Zenon DEF ProcessOK
<1>4. InTable(old.example, k, Len(Steps[old.example]), kind) /\ kind \in ReadsBack
  BY <1>1, <1>2, ProcessState, Zenon DEF PhaseOK
<1>5. k \in Nat \ {0} /\ (kind = "transfer" => k = 2) /\ (kind = "withdraw" => k = 3)
  <2> HIDE DEF old, k, kind
  <2> QED BY <1>4 DEF InTable
<1>6. IsSent(tx, r, old, k)
  BY <1>3, <1>5, ChainSignature, Zenon
<1>7. BySignature(Signature(r)) = {tx}
  <2>1. old.slot \in 1 .. indexed
    <3>1. indexed >= old.slot
      BY Zenon DEF at_slot
    <3>2. old.slot \in 1 .. Len(chain)
      <4> HIDE DEF AnyTx, old
      <4> QED BY <1>1, <1>3
    <3> HIDE DEF old
    <3> QED BY <1>1, <3>1, <3>2
  <2>2. \A i \in 1 .. indexed : i \in DOMAIN chain
    <3> HIDE DEF AnyTx
    <3> QED BY <1>1
  <2>3. \A i, j \in DOMAIN chain : chain[i].sig = chain[j].sig => i = j
    BY Zenon DEF WalletInv, LedgerOK
  <2>4. Signature(r) = <<r, k>>
    BY Zenon DEF Signature
  <2>5. \A t \in BySignature(Signature(r)) : t = tx
    <3> SUFFICES ASSUME NEW t \in Upto(indexed), t.sig = <<r, k>> PROVE t = tx
      BY <2>4, Zenon DEF BySignature
    <3>1. PICK i \in 1 .. indexed : t = chain[i]
      BY Zenon DEF Upto
    <3>2. i = old.slot
      BY <1>3, <2>2, <2>3, <3>1, Zenon
    <3> QED BY <3>1, <3>2, Zenon
  <2>6. tx \in BySignature(Signature(r))
    BY <1>3, <2>1, <2>4, Zenon DEF BySignature, Upto
  <2> QED BY <2>5, <2>6, Zenon
<1> DEFINE sent == {n \in tx.outs : n.owner = "sender"}
           made == Made(r, kind, k)
<1>8. sent = {made}
  <2>1. Kind(old, k) = kind
    BY Zenon DEF Kind, StepOf
  <2> QED BY <1>4, <1>6, <2>1, Zenon DEF IsSent, Kept
<1>9. made \notin tx.spends
  <2>1. tx.spends = CASE kind = "transfer" -> {Made(r, "deposit", 1)}
                      [] kind = "withdraw" -> {Made(r, "transfer", 2)}
                      [] OTHER             -> {}
    BY <1>6, Zenon DEF IsSent, Kind, StepOf
  <2>2. made.sig = <<r, k>>
    BY Zenon DEF Made
  <2>3. Made(r, "deposit", 1).sig = <<r, 1>> /\ Made(r, "transfer", 2).sig = <<r, 2>>
    BY Zenon DEF Made
  <2> DEFINE dep == Made(r, "deposit", 1)
             trf == Made(r, "transfer", 2)
  <2> HIDE DEF kind, k, made, dep, trf
  <2>4. kind = "transfer" => made # dep
    <3>1. SUFFICES ASSUME kind = "transfer", made = dep PROVE FALSE
      OBVIOUS
    <3>2. <<r, k>> = <<r, 1>>
      BY <2>2, <2>3, <3>1, Zenon DEF dep
    <3> QED BY <1>5, <3>1, <3>2, SMT
  <2>5. kind = "withdraw" => made # trf
    <3>1. SUFFICES ASSUME kind = "withdraw", made = trf PROVE FALSE
      OBVIOUS
    <3>2. <<r, k>> = <<r, 2>>
      BY <2>2, <2>3, <3>1, Zenon DEF trf
    <3> QED BY <1>5, <3>1, <3>2, SMT
  <2>6. tx.spends = CASE kind = "transfer" -> {dep} [] kind = "withdraw" -> {trf} [] OTHER -> {}
    BY <2>1, Zenon DEF dep, trf
  <2>7. CASE kind = "transfer"
    <3>1. tx.spends = {dep}
      BY <2>6, <2>7
    <3> QED BY <2>4, <2>7, <3>1, Zenon
  <2>8. CASE kind = "withdraw"
    <3>1. tx.spends = {trf}
      BY <2>6, <2>8
    <3> QED BY <2>5, <2>8, <3>1, Zenon
  <2>9. CASE kind \notin {"transfer", "withdraw"}
    <3>1. tx.spends = {}
      BY <2>6, <2>9
    <3> QED BY <3>1, Zenon
  <2> QED BY <2>7, <2>8, <2>9
<1>10. decrypt_spendable({tx}) = sent \ tx.spends
  BY Zenon DEF decrypt_spendable
<1> HIDE DEF sent, made, tx
<1>11. decrypt_spendable({tx}) = {made}
  BY <1>8, <1>9, <1>10, Zenon
<1> QED BY <1>7, <1>11, Zenon DEF made

(***************************************************************************)
(* ReadBack: what the process reads back is the note its step makes, so    *)
(* the assertion holds and the process goes on with that note.             *)
(***************************************************************************)
LEMMA ReadBackKeeps ==
  ASSUME WalletInv, NEW r \in Run, ReadBack(r)
  PROVE  WalletInv'
<1> DEFINE old == run[r]
           k == old.step
           kind == StepOf(old)
           made == Made(r, kind, k)
           mid == [old EXCEPT !.utxos = {made}]
<1>1. /\ old \in RunState /\ ProcessOK(r, old, chain) /\ PhaseOK(old) /\ k \in Nat
  BY ProcessState, Zenon
<1>2. /\ old.phase = "located" /\ at_slot(old.slot)
      /\ UNCHANGED <<chain, rejected, indexed, flight>>
  BY Zenon DEF ReadBack
<1>3. /\ old.phase \in {"located", "registered"} /\ old.phase # "done" /\ old.phase # "failed"
      /\ old.phase \in {"sent", "located", "registered"}
      /\ old.phase \in {"sent", "confirmed", "located"}
      /\ old.phase \in {"confirmed", "located", "registered"}
      /\ old.phase # "confirmed" /\ old.phase # "registered"
  BY <1>2
<1>4. /\ old.example # "idle" /\ kind \in ReadsBack
      /\ InTable(old.example, k, Len(Steps[old.example]), kind)
  BY <1>1, <1>2, <1>3, ProcessState, Zenon DEF PhaseOK
<1>5. decrypt_spendable(BySignature(Signature(r))) = {made}
  BY <1>2, FoundIsMade, Zenon
<1>6. made \in AnyNote /\ made.amount \in Int
  BY <1>1, MadeIsNote, Zenon
<1>7. made.mint = Expected(r)[1] /\ made.amount = Expected(r)[2]
  BY <1>1, <1>4, ExpectedIsMade, Zenon
<1>8. Amounts({made}, Expected(r)[1]) = Expected(r)[2]
  <2> HIDE DEF made
  <2> QED BY <1>6, <1>7, AmountOfOne, Zenon
<1>9. Cardinality({made}) = 1
  <2> HIDE DEF made
  <2> QED BY FS_Singleton, Zenon
<1>10. run' = [run EXCEPT ![r] = Advanced(mid)]
  <2> HIDE DEF made
  <2> QED BY <1>5, <1>8, <1>9, Zenon DEF ReadBack, Becomes
<1> HIDE DEF made
<1>12. /\ kind = "deposit" => made = Made(r, "deposit", 1)
       /\ kind = "transfer" => made = Made(r, "transfer", 2)
  <2>1. (kind = "deposit" => k = 1) /\ (kind = "transfer" => k = 2)
    BY <1>4, SolSteps, Zenon
  <2> QED BY <2>1, Zenon DEF made
<1>13. old.example = "deposit_transfer_withdraw" =>
         (k = 1 => kind = "deposit") /\ (k = 2 => kind = "transfer")
  <2> HIDE DEF old, k, kind
  <2> QED BY <1>4 DEF InTable
<1> HIDE DEF old
<1>14. mid \in RunState
  <2>1. {made} \in SUBSET AnyNote
    BY <1>6, Zenon
  <2> QED BY <1>1, <2>1, Zenon DEF RunState
<1>15. /\ mid.phase = old.phase /\ mid.example = old.example /\ mid.client = old.client
       /\ mid.step = k /\ mid.found = old.found /\ mid.error = old.error
       /\ mid.slot = old.slot /\ mid.utxos = {made}
  BY <1>1, Zenon DEF RunState
<1> HIDE DEF mid
<1>16. /\ mid.phase = "located" /\ mid.phase \in {"confirmed", "located", "registered"}
       /\ mid.phase \in {"sent", "located", "registered"}
       /\ mid.phase # "confirmed" /\ mid.phase # "registered"
  BY <1>2, <1>15
<1>17. mid.slot \in DOMAIN chain /\ chain[mid.slot].sig = <<r, mid.step>>
  BY <1>1, <1>3, <1>15, Zenon DEF ProcessOK
<1>18. ProcessOK(r, mid, chain) /\ Follows(old, mid)
  BY <1>1, <1>3, <1>4, <1>15, <1>16, <1>17, ConfirmedOK, Zenon
<1>19. OnChain(chain, <<r, mid.step>>)
  BY <1>17, Zenon DEF OnChain
<1>20. mid.example = "deposit_transfer_withdraw" =>
         /\ mid.step = 1 => mid.utxos = {Made(r, "deposit", 1)}
         /\ mid.step = 2 => mid.utxos = {Made(r, "transfer", 2)}
  BY <1>12, <1>13, <1>15, Zenon
<1>21. /\ Advanced(mid) \in RunState /\ ProcessOK(r, Advanced(mid), chain)
       /\ Follows(mid, Advanced(mid))
  BY <1>4, <1>14, <1>15, <1>16, <1>18, <1>19, <1>20, AdvancedOK, Zenon
<1>22. Follows(old, Advanced(mid))
  <2>1. old.phase # "check" /\ mid.phase # "check"
    BY <1>2, <1>16
  <2> QED BY <1>18, <1>21, <2>1, Zenon DEF Follows
<1> QED BY <1>2, <1>10, <1>21, <1>22, OneProcessMoves, Zenon DEF old

(***************************************************************************)
(* The sender's output of a transaction is the note that its step makes.   *)
(***************************************************************************)
LEMMA NoteIsMade ==
  ASSUME NEW r, NEW kind, NEW mint, NEW amount,
         mint = IF kind = "deposit_spl" THEN r ELSE Sol,
         amount = CASE kind = "transfer" -> DepositAmount - TransferAmount
                    [] kind = "withdraw" -> DepositAmount - TransferAmount - WithdrawAmount
                    [] OTHER             -> DepositAmount
  PROVE  Note(r, "sender", mint, amount) = Made(r, kind, run[r].step)
BY Zenon DEF Note, Made, Signature

(***************************************************************************)
(* A transaction with the inputs and the outputs of its step is what the   *)
(* step sends.                                                             *)
(***************************************************************************)
LEMMA TxIsSent ==
  ASSUME NEW r \in Run, run[r].step \in Nat, run[r].step \in 1 .. Len(Steps[run[r].example]),
         NEW kind \in Operation, kind = StepOf(run[r]),
         NEW creates \in SUBSET Run, NEW spends \in SUBSET AnyNote, NEW outs \in SUBSET AnyNote,
         NEW amount \in Nat,
         creates = IF kind = "deposit_spl" /\ ~run[r].found THEN {r} ELSE {},
         spends = CASE kind = "transfer" -> {Made(r, "deposit", 1)}
                    [] kind = "withdraw" -> {Made(r, "transfer", 2)}
                    [] OTHER             -> {},
         {n \in outs : n.owner = "sender"} = Kept(r, kind, run[r].step),
         \A n \in outs : /\ n.sig = <<r, run[r].step>>
                         /\ n.mint = IF kind = "deposit_spl" THEN r ELSE Sol
  PROVE  /\ Tx(r, creates, spends, outs, amount) \in AnyTx
         /\ IsSent(Tx(r, creates, spends, outs, amount), r, run[r], run[r].step)
<1> DEFINE tx == Tx(r, creates, spends, outs, amount)
           k == run[r].step
<1>1. tx = [sig |-> <<r, k>>, op |-> kind, creates |-> creates, spends |-> spends,
            outs |-> outs, amount |-> amount]
  BY Zenon DEF Tx, Signature
<1>2. <<r, k>> \in Run \X Nat
  OBVIOUS
<1>3. tx \in AnyTx
  <2> HIDE DEF tx, k, AnyNote
  <2> QED BY <1>1, <1>2 DEF AnyTx
<1>4. /\ tx.sig = <<r, k>> /\ tx.op = kind /\ tx.creates = creates /\ tx.spends = spends
      /\ tx.outs = outs
  <2> HIDE DEF tx, k, AnyNote
  <2> QED BY <1>1
<1>5. Kind(run[r], k) = kind
  BY Zenon DEF Kind, StepOf
<1> HIDE DEF tx
<1>6. IsSent(tx, r, run[r], k)
  BY <1>4, <1>5, Zenon DEF IsSent
<1> QED BY <1>3, <1>6, Zenon DEF tx

(***************************************************************************)
(* A note of this transaction, and the set that holds just one.            *)
(***************************************************************************)
LEMMA OutputNotes ==
  ASSUME NEW r \in Run, run[r].step \in Nat, NEW owner \in {"sender", "recipient"},
         NEW mint \in Run \cup {Sol}, NEW amount \in Int
  PROVE  /\ Note(r, owner, mint, amount) \in AnyNote
         /\ Note(r, owner, mint, amount).sig = <<r, run[r].step>>
         /\ Note(r, owner, mint, amount).mint = mint
         /\ Note(r, owner, mint, amount).owner = owner
<1> DEFINE note == Note(r, owner, mint, amount)
           k == run[r].step
<1>1. note = [sig |-> <<r, k>>, owner |-> owner, mint |-> mint, amount |-> amount]
  BY Zenon DEF Note, Signature
<1> HIDE DEF note, k
<1>2. k \in Nat
  BY Zenon DEF k
<1>3. note \in AnyNote
  BY <1>1, <1>2 DEF AnyNote
<1>4. note.sig = <<r, k>> /\ note.mint = mint /\ note.owner = owner
  BY <1>1
<1> QED BY <1>3, <1>4, Zenon DEF note, k

(***************************************************************************)
(* What a process builds is what its step sends: in particular a transfer  *)
(* and a withdrawal spend the note of the step before, whole.              *)
(***************************************************************************)
LEMMA BuiltIsSent ==
  ASSUME WalletInv, NEW r \in Run, run[r].phase = "build"
  PROVE  Built(r) \in AnyTx /\ IsSent(Built(r), r, run[r], run[r].step)
<1> DEFINE old == run[r]
           k == old.step
           kind == StepOf(old)
           found == old.found
           amount == CASE kind = "transfer" -> DepositAmount - TransferAmount
                       [] kind = "withdraw" -> DepositAmount - TransferAmount - WithdrawAmount
                       [] OTHER             -> DepositAmount
           mint == IF kind = "deposit_spl" THEN r ELSE Sol
           Is(tx) == tx \in AnyTx /\ IsSent(tx, r, old, k)
           Creates(set) == set = IF kind = "deposit_spl" /\ ~found THEN {r} ELSE {}
           dep == Made(r, "deposit", 1)
           trf == Made(r, "transfer", 2)
           Spends(set) == set = CASE kind = "transfer" -> {dep}
                                  [] kind = "withdraw" -> {trf}
                                  [] OTHER             -> {}
<1>1. /\ old \in RunState /\ ProcessOK(r, old, chain) /\ PhaseOK(old) /\ k \in Nat
  BY ProcessState, Zenon
<1>2. old.phase = "build" /\ old.phase # "done" /\ old.phase \in {"build", "sent"}
  <2>1. old.phase = "build"
    OBVIOUS
  <2> HIDE DEF old
  <2> QED BY <2>1
<1>3. /\ old.example # "idle" /\ k \in 1 .. Len(Steps[old.example])
      /\ InTable(old.example, k, Len(Steps[old.example]), kind)
  BY <1>1, <1>2, ProcessState, Zenon
<1>4. old.example # "sync_balance"
  BY <1>1, <1>2, Zenon DEF PhaseOK
<1>5. /\ kind \in {"deposit", "transfer", "withdraw", "setup_test_token", "deposit_spl",
                   "fund", "register"}
      /\ kind \in Operation
  <2> HIDE DEF old, k, kind
  <2> QED BY <1>3, <1>4 DEF InTable, Operation
<1>6. found \in BOOLEAN
  <2> HIDE DEF old
  <2> QED BY <1>1, Zenon DEF RunState
<1>7. Built(r) = CASE kind = "deposit"          -> Deposit(r)
                   [] kind = "transfer"         -> Transfer(r)
                   [] kind = "withdraw"         -> Withdraw(r)
                   [] kind = "setup_test_token" -> setup_test_token(r)
                   [] kind = "deposit_spl"      -> DepositSpl(r)
                   [] OTHER                     -> RegisterWallet(r)
  BY Zenon DEF Built
<1>8. /\ DepositAmount \in Nat /\ TransferAmount \in Nat /\ WithdrawAmount \in Nat
      /\ {} \in SUBSET Run /\ {r} \in SUBSET Run /\ {} \in SUBSET AnyNote /\ 0 \in Nat
  BY WalletAssumption
<1>9. amount \in Int /\ mint \in Run \cup {Sol} /\ "sender" \in {"sender", "recipient"}
      /\ "recipient" \in {"sender", "recipient"}
  <2> HIDE DEF kind
  <2> QED BY <1>8
<1>10. Note(r, "sender", mint, amount) = Made(r, kind, k)
  BY NoteIsMade, Zenon
<1> HIDE DEF mint, amount
<1> DEFINE out == Note(r, "sender", mint, amount)
<1>11. out \in AnyNote /\ out.sig = <<r, k>> /\ out.mint = mint /\ out.owner = "sender"
  <2>1. run[r].step \in Nat
    BY <1>1, Zenon
  <2> HIDE DEF old
  <2>2. /\ Note(r, "sender", mint, amount) \in AnyNote
        /\ Note(r, "sender", mint, amount).sig = <<r, run[r].step>>
        /\ Note(r, "sender", mint, amount).mint = mint
        /\ Note(r, "sender", mint, amount).owner = "sender"
    BY <1>9, <2>1, OutputNotes
  <2> QED BY <2>2, Zenon DEF old
<1>12. ASSUME NEW creates \in SUBSET Run, NEW spends \in SUBSET AnyNote, NEW moved \in Nat,
              NEW outs \in SUBSET AnyNote, Creates(creates), Spends(spends),
              {n \in outs : n.owner = "sender"} = Kept(r, kind, k),
              \A n \in outs : n.sig = <<r, k>> /\ n.mint = mint
       PROVE  Is(Tx(r, creates, spends, outs, moved))
  <2>1. \A n \in outs : n.sig = <<r, k>> /\ n.mint = IF kind = "deposit_spl" THEN r ELSE Sol
    BY <1>12, Zenon DEF mint
  <2>2. /\ creates = IF kind = "deposit_spl" /\ ~old.found THEN {r} ELSE {}
        /\ spends = CASE kind = "transfer" -> {Made(r, "deposit", 1)}
                      [] kind = "withdraw" -> {Made(r, "transfer", 2)}
                      [] OTHER             -> {}
    BY <1>12, Zenon
  <2> QED BY <1>1, <1>3, <1>5, <1>12, <2>1, <2>2, TxIsSent, Zenon
<1> HIDE DEF Creates, Spends, Is, out
<1>13. ASSUME kind \in ReadsBack, NEW creates \in SUBSET Run, NEW spends \in SUBSET AnyNote,
              NEW moved \in Nat, Creates(creates), Spends(spends)
       PROVE  Is(Tx(r, creates, spends, {out}, moved))
  <2>1. {n \in {out} : n.owner = "sender"} = {out}
    BY <1>11, Zenon
  <2>2. Kept(r, kind, k) = {out}
    BY <1>10, <1>13, Zenon DEF Kept, out
  <2>3. {out} \in SUBSET AnyNote /\ \A n \in {out} : n.sig = <<r, k>> /\ n.mint = mint
    BY <1>11, Zenon
  <2> QED BY <1>12, <1>13, <2>1, <2>2, <2>3, Zenon
<1>14. ASSUME kind \notin ReadsBack, NEW moved \in Nat, Creates({}), Spends({})
       PROVE  Is(Tx(r, {}, {}, {}, moved))
  <2>1. {n \in {} : n.owner = "sender"} = Kept(r, kind, k) /\ \A n \in {} : FALSE
    BY <1>14, Zenon DEF Kept
  <2> QED BY <1>8, <1>12, <1>14, <2>1, Zenon
<1>15. /\ dep \in AnyNote /\ trf \in AnyNote
       /\ dep.amount = DepositAmount /\ trf.amount = DepositAmount - TransferAmount
  <2>1. dep \in AnyNote /\ trf \in AnyNote
    <3>1. 1 \in Nat /\ 2 \in Nat
      OBVIOUS
    <3> QED BY <3>1, MadeIsNote, Zenon
  <2>2. dep.amount = DepositAmount /\ trf.amount = DepositAmount - TransferAmount
    BY DEF Made
  <2> QED BY <2>1, <2>2, Zenon
<1>16. /\ kind = "transfer" => old.utxos = {dep}
       /\ kind = "withdraw" => old.utxos = {trf}
  <2>1. /\ kind = "transfer" => k = 2 /\ old.example = "deposit_transfer_withdraw"
        /\ kind = "withdraw" => k = 3 /\ old.example = "deposit_transfer_withdraw"
    <3> HIDE DEF old, k, kind
    <3> QED BY <1>3 DEF InTable
  <2>2. old.example = "deposit_transfer_withdraw" => CoinsOK(r, old)
    BY <1>1, <1>2, Zenon DEF ProcessOK
  <2> QED BY <2>1, <2>2, Zenon DEF CoinsOK
<1>17. CASE kind = "deposit"
  <2>1. /\ kind \in ReadsBack /\ Creates({}) /\ Spends({})
        /\ mint = Sol /\ amount = DepositAmount /\ Built(r) = Deposit(r)
    <3> HIDE DEF kind, found, dep, trf
    <3> QED BY <1>7, <1>17 DEF ReadsBack, Creates, Spends, mint, amount
  <2>2. Deposit(r) = Tx(r, {}, {}, {out}, DepositAmount)
    BY <2>1, Zenon DEF Deposit, out
  <2> QED BY <1>8, <1>13, <2>1, <2>2, Zenon DEF Is
<1>18. CASE kind = "transfer"
  <2>1. /\ kind \in ReadsBack /\ Creates({}) /\ Spends({dep})
        /\ mint = Sol /\ amount = DepositAmount - TransferAmount /\ Built(r) = Transfer(r)
    <3> HIDE DEF kind, found, dep, trf
    <3> QED BY <1>7, <1>18 DEF ReadsBack, Creates, Spends, mint, amount
  <2> DEFINE theirs == Note(r, "recipient", Sol, TransferAmount)
             outs == {theirs, out}
  <2>2. (CHOOSE n \in old.utxos : TRUE) = dep
    <3>1. (CHOOSE n \in {dep} : TRUE) = dep
      BY Zenon
    <3> QED BY <1>16, <1>18, <3>1, Zenon
  <2>3. dep.amount - TransferAmount = amount
    BY <1>15, <2>1, Zenon
  <2>4. Transfer(r) = Tx(r, {}, {dep}, outs, TransferAmount)
    <3> HIDE DEF dep
    <3> QED BY <2>1, <2>2, <2>3, Zenon DEF Transfer, out
  <2>5. theirs \in AnyNote /\ theirs.sig = <<r, k>> /\ theirs.mint = mint /\ theirs.owner = "recipient"
    <3>1. Sol \in Run \cup {Sol} /\ TransferAmount \in Int
      BY <1>8
    <3>2. run[r].step \in Nat
      BY <1>1, Zenon
    <3> HIDE DEF old, k, kind, found, dep, trf, theirs, outs
    <3>3. /\ Note(r, "recipient", Sol, TransferAmount) \in AnyNote
          /\ Note(r, "recipient", Sol, TransferAmount).sig = <<r, run[r].step>>
          /\ Note(r, "recipient", Sol, TransferAmount).mint = Sol
          /\ Note(r, "recipient", Sol, TransferAmount).owner = "recipient"
      BY <3>1, <3>2, OutputNotes, SMTT(30)
    <3> QED BY <2>1, <3>3, Zenon DEF old, k, theirs
  <2> HIDE DEF theirs, dep
  <2>6. outs \in SUBSET AnyNote /\ \A n \in outs : n.sig = <<r, k>> /\ n.mint = mint
    BY <1>11, <2>5, Zenon
  <2>7. {n \in outs : n.owner = "sender"} = Kept(r, kind, k)
    <3>1. Kept(r, kind, k) = {out}
      BY <1>10, <2>1, Zenon DEF Kept, out
    <3>2. theirs.owner # "sender" /\ out.owner = "sender"
      <4> HIDE DEF kind, k
      <4> QED BY <1>11, <2>5
    <3>3. {n \in outs : n.owner = "sender"} = {out}
      BY <3>2, Zenon
    <3> QED BY <3>1, <3>3, Zenon
  <2>8. {dep} \in SUBSET AnyNote
    BY <1>15, Zenon DEF dep
  <2>9. Is(Tx(r, {}, {dep}, outs, TransferAmount))
    <3> HIDE DEF outs
    <3> QED BY <1>8, <1>12, <2>1, <2>6, <2>7, <2>8, Zenon DEF dep
  <2> QED BY <2>1, <2>4, <2>9, Zenon DEF Is
<1>19. CASE kind = "withdraw"
  <2>1. /\ kind \in ReadsBack /\ Creates({}) /\ Spends({trf}) /\ mint = Sol
        /\ amount = DepositAmount - TransferAmount - WithdrawAmount /\ Built(r) = Withdraw(r)
    <3> HIDE DEF kind, found, dep, trf
    <3> QED BY <1>7, <1>19 DEF ReadsBack, Creates, Spends, mint, amount
  <2>2. (CHOOSE n \in old.utxos : TRUE) = trf
    <3>1. (CHOOSE n \in {trf} : TRUE) = trf
      BY Zenon
    <3> QED BY <1>16, <1>19, <3>1, Zenon
  <2>3. trf.amount - WithdrawAmount = amount
    BY <1>15, <2>1, Zenon
  <2>4. {trf} \in SUBSET AnyNote
    BY <1>15, Zenon
  <2>5. Withdraw(r) = Tx(r, {}, {trf}, {out}, WithdrawAmount)
    <3> HIDE DEF trf
    <3> QED BY <2>1, <2>2, <2>3, Zenon DEF Withdraw, out
  <2> QED BY <1>8, <1>13, <2>1, <2>4, <2>5, Zenon DEF Is
<1>20. CASE kind = "deposit_spl"
  <2>1. /\ kind \in ReadsBack /\ Creates(IF found THEN {} ELSE {r}) /\ Spends({})
        /\ mint = r /\ amount = DepositAmount /\ Built(r) = DepositSpl(r)
    <3> HIDE DEF kind, found, dep, trf
    <3> QED BY <1>6, <1>7, <1>20 DEF ReadsBack, Creates, Spends, mint, amount
  <2>2. DepositSpl(r) = Tx(r, IF found THEN {} ELSE {r}, {}, {out}, DepositAmount)
    BY <2>1, Zenon DEF DepositSpl, out
  <2>3. (IF found THEN {} ELSE {r}) \in SUBSET Run
    BY <1>8, Zenon
  <2> QED BY <1>8, <1>13, <2>1, <2>2, <2>3, Zenon DEF Is
<1>21. CASE kind = "setup_test_token"
  <2>1. /\ kind \notin ReadsBack /\ Creates({}) /\ Spends({}) /\ Built(r) = setup_test_token(r)
    <3> HIDE DEF kind, found, dep, trf
    <3> QED BY <1>7, <1>21 DEF ReadsBack, Creates, Spends
  <2> QED BY <1>8, <1>14, <2>1, Zenon DEF Is, setup_test_token
<1>22. CASE kind \in {"fund", "register"}
  <2>1. /\ kind \notin ReadsBack /\ Creates({}) /\ Spends({}) /\ Built(r) = RegisterWallet(r)
    <3> HIDE DEF kind, found, dep, trf
    <3> QED BY <1>7, <1>22 DEF ReadsBack, Creates, Spends
  <2> QED BY <1>8, <1>14, <2>1, Zenon DEF Is, RegisterWallet
<1> HIDE DEF kind
<1>23. \/ kind = "deposit" \/ kind = "transfer" \/ kind = "withdraw" \/ kind = "deposit_spl"
       \/ kind = "setup_test_token" \/ kind \in {"fund", "register"}
  BY <1>5
<1> QED BY <1>17, <1>18, <1>19, <1>20, <1>21, <1>22, <1>23, Zenon

(***************************************************************************)
(* Send: the signature of the transaction is new, in flight as on chain.   *)
(***************************************************************************)
LEMMA SendKeeps ==
  ASSUME WalletInv, NEW r \in Run, Send(r)
  PROVE  WalletInv'
<1> DEFINE old == run[r]
           k == old.step
           tx == Built(r)
           st == [old EXCEPT !.phase = "sent"]
<1>1. /\ old \in RunState /\ ProcessOK(r, old, chain) /\ PhaseOK(old) /\ k \in Nat
      /\ run \in [Run -> RunState]
  BY ProcessState, Zenon DEF WalletInv, WalletTypes
<1>2. old.phase = "build" /\ UNCHANGED <<chain, rejected, indexed>> /\ flight' = flight \cup {tx}
  BY Zenon DEF Send
<1>3. run' = [run EXCEPT ![r] = st]
  BY Zenon DEF Send, Becomes
<1>4. tx \in AnyTx /\ IsSent(tx, r, old, k)
  BY <1>2, BuiltIsSent, Zenon
<1> HIDE DEF tx
<1>5. /\ old.phase # "done" /\ old.phase # "failed" /\ old.phase \in {"build", "sent"}
      /\ ~Gone(old, k)
  <2> HIDE DEF old, k
  <2> QED BY <1>1, <1>2 DEF Gone, k
<1>6. k \in Nat \ {0} /\ tx.sig = <<r, k>>
  <2>1. k \in 1 .. Len(Steps[old.example])
    BY <1>5, ProcessState, Zenon
  <2>2. tx.sig = <<r, k>>
    BY <1>4, Zenon DEF IsSent
  <2> HIDE DEF old, k
  <2> QED BY <1>1, <2>1, <2>2
<1>7. ~OnChain(chain, <<r, k>>)
  <2> SUFFICES ASSUME NEW i \in DOMAIN chain, chain[i].sig = <<r, k>> PROVE FALSE
    BY Zenon DEF OnChain
  <2> QED BY <1>5, <1>6, ChainSignature, Zenon
<1>8. \A other \in flight : Own(other, run) /\ other.sig # <<r, k>>
  <2> SUFFICES ASSUME NEW other \in flight PROVE Own(other, run) /\ other.sig # <<r, k>>
    OBVIOUS
  <2>1. Own(other, run)
    BY Zenon DEF WalletInv, LedgerOK
  <2>2. other.sig # <<r, k>>
    BY <1>5, <2>1, OwnSignature, Zenon
  <2> QED BY <2>1, <2>2
<1> HIDE DEF old
<1>9. st \in RunState
  <2>1. "sent" \in Phase
    BY DEF Phase
  <2> QED BY <1>1, <2>1, Zenon DEF RunState
<1>10. /\ st.phase = "sent" /\ st.example = old.example /\ st.client = old.client
       /\ st.step = old.step /\ st.slot = old.slot /\ st.utxos = old.utxos
       /\ st.found = old.found /\ st.error = old.error
  BY <1>1, Zenon DEF RunState
<1> HIDE DEF st
<1>11. PhaseOK(st)
  BY <1>1, <1>2, <1>10 DEF PhaseOK
<1>12. ProcessOK(r, st, chain)
  <2>1. old.error = "none"
    BY <1>1, <1>5, Zenon DEF ProcessOK
  <2>2. /\ st.phase \notin {"located", "registered", "scan", "build"}
        /\ st.error \notin {"unknown mint", "assertion"}
    BY <1>10, <2>1
  <2> QED BY <1>1, <1>10, <1>11, <2>1, <2>2, Zenon DEF ProcessOK
<1>13. Follows(old, st) /\ Gone(st, k)
  BY <1>2, <1>10 DEF Follows, Gone
<1>14. IsSent(tx, r, st, k)
  <2>1. Kind(st, k) = Kind(old, k)
    BY <1>10, Zenon DEF Kind
  <2> QED BY <1>4, <1>10, <2>1, Zenon DEF IsSent
<1>15. run'[r] = st /\ \A q \in Run : q # r => run'[q] = run[q]
  <2> HIDE DEF RunState
  <2> QED BY <1>1, <1>3
<1>16. WalletTypes'
  <2>1. run' \in [Run -> RunState]
    <3> HIDE DEF RunState
    <3> QED BY <1>1, <1>3, <1>9
  <2>2. flight' \subseteq AnyTx
    BY <1>2, <1>4, Zenon DEF WalletInv, WalletTypes
  <2> QED BY <1>2, <2>1, <2>2, Zenon DEF WalletInv, WalletTypes
<1>17. \A q \in Run : ProcessOK(q, run'[q], chain)
  <2> TAKE q \in Run
  <2>1. CASE q = r
    BY <1>12, <1>15, <2>1, Zenon
  <2>2. CASE q # r
    BY <1>15, <2>2, Zenon DEF WalletInv
  <2> QED BY <2>1, <2>2
<1>18. LedgerOK(chain, flight', run')
  <2>1. LedgerOK(chain, flight, run)
    BY Zenon DEF WalletInv
  <2>2. \A t : Own(t, run) => Own(t, run')
    BY <1>1, <1>3, <1>13, OwnStable, Zenon DEF old
  <2>3. Own(tx, run')
    BY <1>1, <1>13, <1>14, <1>15, Zenon DEF Own
  <2>4. \A t \in flight' : t = tx \/ t \in flight
    BY <1>2, Zenon
  <2>5. \A t \in flight' : Own(t, run') /\ ~OnChain(chain, t.sig)
    BY <1>6, <1>7, <2>1, <2>2, <2>3, <2>4, Zenon DEF LedgerOK
  <2>6. \A t, other \in flight' : t.sig = other.sig => t = other
    BY <1>6, <1>8, <2>1, <2>4, Zenon DEF LedgerOK
  <2> QED BY <2>1, <2>2, <2>5, <2>6, Zenon DEF LedgerOK
<1>19. RejectionsOK(rejected, chain, run')
  BY <1>1, <1>3, <1>13, RejectionsStable, Zenon DEF WalletInv, old
<1> QED BY <1>2, <1>16, <1>17, <1>18, <1>19, Zenon DEF WalletInv

-----------------------------------------------------------------------------
(***************************************************************************)
(* The chain grows.                                                        *)
(***************************************************************************)

(***************************************************************************)
(* What a chain that has grown by one transaction has in common with what  *)
(* it was.                                                                 *)
(***************************************************************************)
LEMMA Appended ==
  ASSUME NEW ch \in Seq(AnyTx), NEW tx \in AnyTx
  PROVE  GrownBy(ch, Append(ch, tx), tx)
<1> DEFINE new == Append(ch, tx)
<1> HIDE DEF AnyTx
<1>1. /\ new \in Seq(AnyTx) /\ Len(ch) \in Nat /\ Len(new) = Len(ch) + 1
      /\ DOMAIN ch = 1 .. Len(ch) /\ DOMAIN new = 1 .. Len(ch) + 1
      /\ new[Len(ch) + 1] = tx /\ \A i \in 1 .. Len(ch) : new[i] = ch[i]
  OBVIOUS
<1> HIDE DEF new
<1>2. /\ \A i \in DOMAIN ch : i \in DOMAIN new /\ new[i] = ch[i]
      /\ \A i \in DOMAIN new : i \in DOMAIN ch \/ i = Len(new)
      /\ Len(new) \in DOMAIN new /\ Len(new) \notin DOMAIN ch /\ new[Len(new)] = tx
      /\ 0 .. Len(ch) \subseteq 0 .. Len(new)
      /\ 1 .. Len(ch) \subseteq 1 .. Len(new)
      /\ \A s \in 0 .. Len(ch) : \A i \in 1 .. s : i \in 1 .. Len(ch)
  BY <1>1
<1>3. \A s \in 0 .. Len(ch) : Created(new, s) = Created(ch, s)
  <2> TAKE s \in 0 .. Len(ch)
  <2>1. \A i \in 1 .. s : new[i].creates = ch[i].creates
    BY <1>1, <1>2, Zenon
  <2>2. {new[i].creates : i \in 1 .. s} = {ch[i].creates : i \in 1 .. s}
    BY <2>1, Zenon
  <2> QED BY <2>2, Zenon DEF Created
<1>4. Created(ch, Len(ch)) \subseteq Created(new, Len(new))
  <2> SUFFICES ASSUME NEW q \in Created(ch, Len(ch)) PROVE q \in Created(new, Len(new))
    BY Zenon
  <2>1. PICK i \in 1 .. Len(ch) : q \in ch[i].creates
    BY Zenon DEF Created
  <2> QED BY <1>1, <1>2, <2>1, Zenon DEF Created
<1> QED BY <1>1, <1>2, <1>3, <1>4, Zenon DEF GrownBy, new

(***************************************************************************)
(* A signature stays on the chain, and only the new one comes to it.       *)
(***************************************************************************)
LEMMA OnChainGrows ==
  ASSUME NEW ch, NEW new, NEW tx, GrownBy(ch, new, tx), NEW sig
  PROVE  /\ OnChain(ch, sig) => OnChain(new, sig)
         /\ OnChain(new, sig) => OnChain(ch, sig) \/ sig = tx.sig
<1>1. OnChain(ch, sig) => OnChain(new, sig)
  BY Zenon DEF GrownBy, OnChain
<1>2. OnChain(new, sig) => OnChain(ch, sig) \/ sig = tx.sig
  BY Zenon DEF GrownBy, OnChain
<1> QED BY <1>1, <1>2

(***************************************************************************)
(* A process does not notice that the chain grows.                         *)
(***************************************************************************)
LEMMA ProcessGrows ==
  ASSUME NEW ch, NEW new, NEW tx, GrownBy(ch, new, tx), NEW r, NEW st, ProcessOK(r, st, ch)
  PROVE  ProcessOK(r, st, new)
<1>1. \A sig : OnChain(ch, sig) => OnChain(new, sig)
  BY OnChainGrows, Zenon
<1>2. st.example = "deposit_transfer_withdraw" =>
        /\ \A j \in 1 .. st.step - 1 : OnChain(new, <<r, j>>)
        /\ st.phase = "build" => CoinsOK(r, st)
  BY <1>1, Zenon DEF ProcessOK
<1>3. st.phase \in {"located", "registered"} =>
        st.slot \in DOMAIN new /\ new[st.slot].sig = <<r, st.step>>
  BY Zenon DEF ProcessOK, GrownBy
<1>4. st.phase = "scan" =>
        st.slot \in 0 .. Len(new) /\ st.assets = {Sol} \cup Created(new, st.slot)
  BY Zenon DEF ProcessOK, GrownBy
<1>5. st.error = "unknown mint" =>
        /\ st.slot \in 0 .. Len(new)
        /\ \A n \in st.utxos : n.mint \in {Sol} \cup Created(new, st.slot)
  BY Zenon DEF ProcessOK, GrownBy
<1>6. st.found => r \in Created(new, Len(new))
  BY Zenon DEF ProcessOK, GrownBy
<1> QED BY <1>2, <1>3, <1>4, <1>5, <1>6, Zenon DEF ProcessOK

(***************************************************************************)
(* A transaction that is accounted for and whose signature is new to the   *)
(* chain may be added to it, once it is no longer in flight.               *)
(***************************************************************************)
LEMMA ChainGrows ==
  ASSUME WalletInv, NEW tx \in AnyTx, Own(tx, run) \/ Foreign(tx), ~OnChain(chain, tx.sig),
         chain' = Append(chain, tx), flight' \subseteq flight, \A t \in flight' : t.sig # tx.sig,
         \A n \in tx.outs : n.mint \in {Sol} \cup tx.creates \cup InterfacesAt(Len(chain)),
         UNCHANGED <<rejected, indexed, run>>
  PROVE  WalletInv'
<1>1. /\ chain \in Seq(AnyTx) /\ flight \subseteq AnyTx /\ indexed \in 0 .. Len(chain)
      /\ run \in [Run -> RunState]
  BY Zenon DEF WalletInv, WalletTypes
<1>2. GrownBy(chain, chain', tx)
  BY <1>1, Appended, Zenon
<1>3. WalletTypes'
  BY <1>1, <1>2, Zenon DEF WalletTypes, GrownBy
<1>4. \A r \in Run : ProcessOK(r, run[r], chain')
  BY <1>2, ProcessGrows, Zenon DEF WalletInv
<1>5. LedgerOK(chain', flight', run)
  <2>1. LedgerOK(chain, flight, run)
    BY Zenon DEF WalletInv
  <2>2. \A i \in DOMAIN chain' : Own(chain'[i], run) \/ Foreign(chain'[i])
    BY <1>2, <2>1, Zenon DEF LedgerOK, GrownBy
  <2>3. \A i \in DOMAIN chain : chain[i].sig # tx.sig
    BY Zenon DEF OnChain
  <2>4. \A i, j \in DOMAIN chain' : chain'[i].sig = chain'[j].sig => i = j
    <3> SUFFICES ASSUME NEW i \in DOMAIN chain', NEW j \in DOMAIN chain',
                        chain'[i].sig = chain'[j].sig
                 PROVE  i = j
      BY Zenon
    <3>1. (i \in DOMAIN chain \/ i = Len(chain')) /\ (j \in DOMAIN chain \/ j = Len(chain'))
      BY <1>2, Zenon DEF GrownBy
    <3>2. CASE i \in DOMAIN chain /\ j \in DOMAIN chain
      BY <1>2, <2>1, <3>2, Zenon DEF GrownBy, LedgerOK
    <3>3. CASE i \in DOMAIN chain /\ j = Len(chain')
      BY <1>2, <2>3, <3>3, Zenon DEF GrownBy
    <3>4. CASE i = Len(chain') /\ j \in DOMAIN chain
      BY <1>2, <2>3, <3>4, Zenon DEF GrownBy
    <3>5. CASE i = Len(chain') /\ j = Len(chain')
      BY <3>5, Zenon
    <3> QED BY <3>1, <3>2, <3>3, <3>4, <3>5, Zenon
  <2>5. \A t \in flight' : Own(t, run) /\ ~OnChain(chain', t.sig)
    <3> TAKE t \in flight'
    <3>1. t \in flight /\ t.sig # tx.sig
      BY Zenon
    <3>2. Own(t, run) /\ ~OnChain(chain, t.sig)
      BY <2>1, <3>1, Zenon DEF LedgerOK
    <3> QED BY <1>2, <3>1, <3>2, OnChainGrows, Zenon
  <2>6. \A t, other \in flight' : t.sig = other.sig => t = other
    BY <2>1, Zenon DEF LedgerOK
  <2>7. \A i \in DOMAIN chain' : \A n \in chain'[i].outs : n.mint \in {Sol} \cup Created(chain', i)
    <3>1. /\ DOMAIN chain = 1 .. Len(chain) /\ Len(chain') \in 1 .. Len(chain')
          /\ \A i \in DOMAIN chain : i \in 0 .. Len(chain)
      <4>1. chain' \in Seq(AnyTx) /\ Len(chain') \in DOMAIN chain'
        BY <1>2, Zenon DEF GrownBy
      <4> HIDE DEF AnyTx
      <4> QED BY <1>1, <4>1
    <3>2. ASSUME NEW i \in DOMAIN chain
          PROVE  \A n \in chain'[i].outs : n.mint \in {Sol} \cup Created(chain', i)
      <4>1. chain'[i] = chain[i] /\ Created(chain', i) = Created(chain, i)
        BY <1>2, <3>1, Zenon DEF GrownBy
      <4> QED BY <2>1, <4>1, Zenon DEF LedgerOK
    <3>3. tx.creates \cup InterfacesAt(Len(chain)) \subseteq Created(chain', Len(chain'))
      <4>1. chain'[Len(chain')] = tx /\ Created(chain, Len(chain)) \subseteq Created(chain', Len(chain'))
        BY <1>2, Zenon DEF GrownBy
      <4>2. tx.creates \subseteq Created(chain', Len(chain'))
        BY <3>1, <4>1, Zenon DEF Created
      <4>3. InterfacesAt(Len(chain)) = Created(chain, Len(chain))
        BY Zenon DEF InterfacesAt, Created, Upto
      <4> QED BY <4>1, <4>2, <4>3, Zenon
    <3>4. \A n \in tx.outs : n.mint \in {Sol} \cup Created(chain', Len(chain'))
      BY <3>3, Zenon
    <3> QED BY <1>2, <3>2, <3>4, Zenon DEF GrownBy
  <2> QED BY <2>2, <2>4, <2>5, <2>6, <2>7, Zenon DEF LedgerOK
<1>6. RejectionsOK(rejected, chain', run)
  <2> SUFFICES ASSUME NEW sig \in rejected
               PROVE  \E r \in Run : sig = <<r, 2>> /\ LostRace(r, run[r], chain')
    BY Zenon DEF RejectionsOK
  <2>1. PICK r \in Run : sig = <<r, 2>> /\ LostRace(r, run[r], chain)
    BY Zenon DEF WalletInv, RejectionsOK
  <2>2. LostRace(r, run[r], chain')
    BY <1>2, <2>1, Zenon DEF LostRace, GrownBy
  <2> QED BY <2>1, <2>2, Zenon
<1> QED BY <1>3, <1>4, <1>5, <1>6, Zenon DEF WalletInv

(***************************************************************************)
(* Notes of different steps are different.                                 *)
(***************************************************************************)
LEMMA MadeDiffers ==
  ASSUME NEW r, NEW kind, NEW k, NEW q, NEW other, NEW m,
         Made(r, kind, k) = Made(q, other, m)
  PROVE  r = q /\ k = m
<1>1. Made(r, kind, k).sig = <<r, k>> /\ Made(q, other, m).sig = <<q, m>>
  BY Zenon DEF Made
<1>2. <<r, k>> = <<q, m>>
  BY <1>1, Zenon
<1> QED BY <1>2, SMT

(***************************************************************************)
(* A note that is spent is spent by the step after the one that made it.   *)
(***************************************************************************)
LEMMA SpenderIsNext ==
  ASSUME WalletInv, NEW i \in DOMAIN chain, NEW r, NEW kind, NEW k \in Nat,
         Made(r, kind, k) \in chain[i].spends
  PROVE  chain[i].sig = <<r, k + 1>>
<1>1. Own(chain[i], run) \/ Foreign(chain[i])
  BY Zenon DEF WalletInv, LedgerOK
<1>2. ~Foreign(chain[i])
  BY Zenon DEF Foreign
<1>3. PICK q \in Run, m \in Nat : Gone(run[q], m) /\ IsSent(chain[i], q, run[q], m)
  BY <1>1, <1>2, Zenon DEF Own
<1>4. Effect(chain[i], q, run[q], m)
  <2>1. run[q] \in RunState
    BY ProcessState, Zenon
  <2>2. run[q].example \in Example
    BY <2>1, Zenon DEF RunState
  <2> QED BY <1>3, <2>2, SentTable, Zenon
<1>5. chain[i].sig = <<q, m>>
  BY <1>4, Zenon DEF Effect
<1>6. \/ m = 2 /\ chain[i].spends = {Made(q, "deposit", 1)}
      \/ m = 3 /\ chain[i].spends = {Made(q, "transfer", 2)}
      \/ chain[i].spends = {}
  BY <1>4, Zenon DEF Effect
<1>7. CASE m = 2 /\ chain[i].spends = {Made(q, "deposit", 1)}
  <2>1. r = q /\ k = 1
    <3>1. Made(r, kind, k) = Made(q, "deposit", 1)
      BY <1>7, Zenon
    <3> QED BY <3>1, MadeDiffers
  <2>2. m = k + 1
    <3>1. m = 2
      BY <1>7, Zenon
    <3> QED BY <2>1, <3>1
  <2> QED BY <1>5, <2>1, <2>2, Zenon
<1>8. CASE m = 3 /\ chain[i].spends = {Made(q, "transfer", 2)}
  <2>1. r = q /\ k = 2
    <3>1. Made(r, kind, k) = Made(q, "transfer", 2)
      BY <1>8, Zenon
    <3> QED BY <3>1, MadeDiffers
  <2>2. m = k + 1
    <3>1. m = 3
      BY <1>8, Zenon
    <3> QED BY <2>1, <3>1
  <2> QED BY <1>5, <2>1, <2>2, Zenon
<1>9. CASE chain[i].spends = {}
  BY <1>9, Zenon
<1> QED BY <1>6, <1>7, <1>8, <1>9, Zenon

(***************************************************************************)
(* The note of a step that landed is unspent as long as the next step has  *)
(* not landed.                                                             *)
(***************************************************************************)
LEMMA NoteIsThere ==
  ASSUME WalletInv, NEW r \in Run, NEW k \in Nat \ {0}, OnChain(chain, <<r, k>>),
         NEW kind \in ReadsBack, kind = Steps[run[r].example][k], ~OnChain(chain, <<r, k + 1>>)
  PROVE  Made(r, kind, k) \in NotesAt(Len(chain)) \ SpentAt(Len(chain))
<1>1. PICK i \in DOMAIN chain : chain[i].sig = <<r, k>>
  BY Zenon DEF OnChain
<1>2. k \in Nat \ {0} /\ k \in Nat
  OBVIOUS
<1>3. IsSent(chain[i], r, run[r], k)
  BY <1>1, <1>2, ChainSignature, Zenon
<1>4. {n \in chain[i].outs : n.owner = "sender"} = {Made(r, kind, k)}
  <2>1. Kind(run[r], k) = kind
    BY Zenon DEF Kind
  <2> QED BY <1>3, <2>1, Zenon DEF IsSent, Kept
<1>5. DOMAIN chain = 1 .. Len(chain)
  <2>1. chain \in Seq(AnyTx)
    BY Zenon DEF WalletInv, WalletTypes
  <2> HIDE DEF AnyTx
  <2> QED BY <2>1
<1>6. Made(r, kind, k) \in NotesAt(Len(chain))
  <2>1. Made(r, kind, k) \in chain[i].outs
    BY <1>4, Zenon
  <2> QED BY <1>1, <1>5, <2>1, Zenon DEF NotesAt, Upto
<1>7. Made(r, kind, k) \notin SpentAt(Len(chain))
  <2> SUFFICES ASSUME Made(r, kind, k) \in SpentAt(Len(chain)) PROVE FALSE
    OBVIOUS
  <2>1. PICK j \in 1 .. Len(chain) : Made(r, kind, k) \in chain[j].spends
    BY Zenon DEF SpentAt, Upto
  <2>2. chain[j].sig = <<r, k + 1>>
    BY <1>2, <1>5, <2>1, SpenderIsNext, Zenon
  <2> QED BY <1>5, <2>2, Zenon DEF OnChain
<1> QED BY <1>6, <1>7, Zenon

(***************************************************************************)
(* So the note of an earlier step of a SOL flow waits for the next step.   *)
(***************************************************************************)
LEMMA CoinIsThere ==
  ASSUME WalletInv, NEW r \in Run, run[r].example = "deposit_transfer_withdraw",
         NEW k \in 1 .. run[r].step - 1, NEW kind \in ReadsBack, kind = Steps[run[r].example][k],
         ~OnChain(chain, <<r, k + 1>>)
  PROVE  Made(r, kind, k) \in NotesAt(Len(chain)) \ SpentAt(Len(chain))
<1>1. ProcessOK(r, run[r], chain) /\ run[r].step \in Nat
  BY ProcessState, Zenon
<1>2. OnChain(chain, <<r, k>>)
  BY <1>1, Zenon DEF ProcessOK
<1>3. k \in Nat \ {0}
  BY <1>1
<1> QED BY <1>2, <1>3, NoteIsThere, Zenon

(***************************************************************************)
(* Who created an interface: its process, or somebody else.                *)
(***************************************************************************)
LEMMA InterfaceCreator ==
  ASSUME WalletInv, NEW r \in InterfacesAt(Len(chain)), ~OnChain(chain, <<r, 2>>)
  PROVE  \E i \in DOMAIN chain : /\ chain[i].op = "create_interface" /\ chain[i].creates = {r}
                                 /\ chain[i].sig = <<r, 0>>
<1>1. DOMAIN chain = 1 .. Len(chain)
  <2>1. chain \in Seq(AnyTx)
    BY Zenon DEF WalletInv, WalletTypes
  <2> HIDE DEF AnyTx
  <2> QED BY <2>1
<1>2. PICK i \in DOMAIN chain : r \in chain[i].creates
  BY <1>1, Zenon DEF InterfacesAt, Upto
<1>3. CASE Foreign(chain[i])
  <2>1. PICK q \in Run : /\ chain[i].sig = <<q, 0>> /\ chain[i].op = "create_interface"
                         /\ chain[i].creates = {q}
    BY <1>3, Zenon DEF Foreign
  <2>2. q = r
    BY <1>2, <2>1, Zenon
  <2> QED BY <2>1, <2>2, Zenon
<1>4. CASE Own(chain[i], run)
  <2>1. PICK q \in Run, m \in Nat : Gone(run[q], m) /\ IsSent(chain[i], q, run[q], m)
    BY <1>4, Zenon DEF Own
  <2>2. Effect(chain[i], q, run[q], m)
    <3>1. run[q] \in RunState
      BY ProcessState, Zenon
    <3>2. run[q].example \in Example
      BY <3>1, Zenon DEF RunState
    <3> QED BY <2>1, <3>2, SentTable, Zenon
  <2>3. chain[i].creates = {} \/ (m = 2 /\ chain[i].creates = (IF run[q].found THEN {} ELSE {q}))
    BY <2>2, Zenon DEF Effect
  <2>4. m = 2 /\ q = r
    BY <1>2, <2>3, Zenon
  <2>5. chain[i].sig = <<r, 2>>
    BY <2>2, <2>4, Zenon DEF Effect
  <2> QED BY <2>5, Zenon DEF OnChain
<1> QED BY <1>3, <1>4, Zenon DEF WalletInv, LedgerOK

(***************************************************************************)
(* A transaction of a process that the chain does not accept has lost the  *)
(* race for the interface.                                                 *)
(***************************************************************************)
LEMMA RejectedLostRace ==
  ASSUME WalletInv, NEW tx \in flight, ~Accepted(tx)
  PROVE  \E r \in Run : tx.sig = <<r, 2>> /\ LostRace(r, run[r], chain)
<1>1. Own(tx, run) /\ ~OnChain(chain, tx.sig)
  BY Zenon DEF WalletInv, LedgerOK
<1>2. PICK r \in Run, k \in Nat : Gone(run[r], k) /\ IsSent(tx, r, run[r], k)
  BY <1>1, Zenon DEF Own
<1> DEFINE st == run[r]
           now == Len(chain)
<1>3. st \in RunState /\ ProcessOK(r, st, chain) /\ st.step \in Nat
  BY ProcessState, Zenon
<1>4. Effect(tx, r, st, k)
  <2>1. st.example \in Example
    <3> HIDE DEF st
    <3> QED BY <1>3, Zenon DEF RunState
  <2> QED BY <1>2, <2>1, SentTable, Zenon
<1>5. tx.sig = <<r, k>>
  BY <1>4, Zenon DEF Effect
<1>6. ~(/\ tx.spends \subseteq NotesAt(now) \ SpentAt(now)
        /\ tx.creates \cap InterfacesAt(now) = {}
        /\ \A n \in tx.outs : n.mint \in {Sol} \cup tx.creates \cup InterfacesAt(now))
  BY Zenon DEF Accepted
<1>7. CASE /\ st.example = "deposit_transfer_withdraw"
           /\ \/ k = 1 /\ tx.spends = {}
              \/ k = 2 /\ tx.spends = {Made(r, "deposit", 1)}
              \/ k = 3 /\ tx.spends = {Made(r, "transfer", 2)}
           /\ tx.creates = {}
           /\ \A n \in tx.outs : n.mint = Sol
  <2>1. /\ tx.creates \cap InterfacesAt(now) = {}
        /\ \A n \in tx.outs : n.mint \in {Sol} \cup tx.creates \cup InterfacesAt(now)
    BY <1>7, Zenon
  <2>2. Steps[st.example] = <<"deposit", "transfer", "withdraw">>
    <3> HIDE DEF st
    <3> QED BY <1>7 DEF Steps
  <2>3. CASE k = 2 /\ tx.spends = {Made(r, "deposit", 1)}
    <3>1. 1 \in 1 .. st.step - 1 /\ 1 + 1 = 2
      <4>1. Gone(st, 2)
        BY <1>2, <2>3, Zenon
      <4> HIDE DEF st
      <4> QED BY <1>3, <4>1, SMT DEF Gone
    <3>2. "deposit" \in ReadsBack /\ "deposit" = Steps[st.example][1]
      <4> HIDE DEF st
      <4> QED BY <2>2 DEF ReadsBack
    <3>3. ~OnChain(chain, <<r, 1 + 1>>)
      BY <1>1, <1>5, <2>3, <3>1, Zenon
    <3>4. Made(r, "deposit", 1) \in NotesAt(now) \ SpentAt(now)
      BY <1>7, <3>1, <3>2, <3>3, CoinIsThere, Zenon
    <3> QED BY <1>6, <2>1, <2>3, <3>4, Zenon
  <2>4. CASE k = 3 /\ tx.spends = {Made(r, "transfer", 2)}
    <3>1. 2 \in 1 .. st.step - 1 /\ 2 + 1 = 3
      <4>1. Gone(st, 3)
        BY <1>2, <2>4, Zenon
      <4> HIDE DEF st
      <4> QED BY <1>3, <4>1, SMT DEF Gone
    <3>2. "transfer" \in ReadsBack /\ "transfer" = Steps[st.example][2]
      <4> HIDE DEF st
      <4> QED BY <2>2 DEF ReadsBack
    <3>3. ~OnChain(chain, <<r, 2 + 1>>)
      BY <1>1, <1>5, <2>4, <3>1, Zenon
    <3>4. Made(r, "transfer", 2) \in NotesAt(now) \ SpentAt(now)
      BY <1>7, <3>1, <3>2, <3>3, CoinIsThere, Zenon
    <3> QED BY <1>6, <2>1, <2>4, <3>4, Zenon
  <2>5. CASE tx.spends = {}
    BY <1>6, <2>1, <2>5, Zenon
  <2> QED BY <1>7, <2>3, <2>4, <2>5, Zenon
<1>8. CASE /\ st.example = "deposit_with_interface_setup" /\ k = 2 /\ tx.spends = {}
           /\ tx.creates = (IF st.found THEN {} ELSE {r})
           /\ \A n \in tx.outs : n.mint = r
  <2>1. ~st.found
    <3> SUFFICES ASSUME st.found PROVE FALSE
      OBVIOUS
    <3>1. r \in InterfacesAt(now)
      <4>1. r \in Created(chain, Len(chain))
        BY <1>3, Zenon DEF ProcessOK
      <4> QED BY <4>1, Zenon DEF Created, InterfacesAt, Upto
    <3> QED BY <1>6, <1>8, <3>1, Zenon
  <2>2. r \in InterfacesAt(now)
    BY <1>6, <1>8, <2>1, Zenon
  <2>3. ~OnChain(chain, <<r, 2>>) /\ Gone(st, 2)
    BY <1>1, <1>2, <1>5, <1>8, Zenon
  <2>4. PICK i \in DOMAIN chain : chain[i].op = "create_interface" /\ chain[i].creates = {r}
    BY <2>2, <2>3, InterfaceCreator, Zenon
  <2> QED BY <1>5, <1>8, <2>1, <2>3, <2>4, Zenon DEF LostRace
<1>9. CASE tx.creates = {} /\ tx.spends = {} /\ \A n \in tx.outs : n.mint = Sol
  BY <1>6, <1>9, Zenon
<1> QED BY <1>4, <1>7, <1>8, <1>9, Zenon DEF Effect

(***************************************************************************)
(* Land: a transaction that is accepted is on the chain, once; one that is *)
(* not has lost the race for the interface.                                *)
(***************************************************************************)
LEMMA LandKeeps ==
  ASSUME WalletInv, NEW tx \in flight, Land(tx)
  PROVE  WalletInv'
<1>1. flight' = flight \ {tx} /\ UNCHANGED <<indexed, run>>
  BY Zenon DEF Land
<1>2. tx \in AnyTx /\ Own(tx, run) /\ ~OnChain(chain, tx.sig)
  BY Zenon DEF WalletInv, WalletTypes, LedgerOK
<1>3. \A t \in flight' : t.sig # tx.sig
  BY <1>1, Zenon DEF WalletInv, LedgerOK
<1>4. CASE Accepted(tx) /\ chain' = Append(chain, tx) /\ UNCHANGED rejected
  <2>1. \A n \in tx.outs : n.mint \in {Sol} \cup tx.creates \cup InterfacesAt(Len(chain))
    BY <1>4, Zenon DEF Accepted
  <2> QED BY <1>1, <1>2, <1>3, <1>4, <2>1, ChainGrows, Zenon
<1>5. CASE ~Accepted(tx) /\ rejected' = rejected \cup {tx.sig} /\ UNCHANGED chain
  <2>1. \E r \in Run : tx.sig = <<r, 2>> /\ LostRace(r, run[r], chain)
    BY <1>5, RejectedLostRace, Zenon
  <2>2. RejectionsOK(rejected', chain, run)
    BY <1>5, <2>1, Zenon DEF WalletInv, RejectionsOK
  <2>3. LedgerOK(chain, flight', run)
    BY <1>1, Zenon DEF WalletInv, LedgerOK
  <2>4. WalletTypes'
    BY <1>1, <1>5, Zenon DEF WalletInv, WalletTypes
  <2> QED BY <1>1, <1>5, <2>2, <2>3, <2>4, Zenon DEF WalletInv
<1> QED BY <1>4, <1>5, Zenon DEF Land

(***************************************************************************)
(* Expire: what is left in flight is as it was.                            *)
(***************************************************************************)
LEMMA ExpireKeeps ==
  ASSUME WalletInv, NEW tx \in flight, Expire(tx)
  PROVE  WalletInv'
<1>1. flight' = flight \ {tx} /\ UNCHANGED <<chain, rejected, indexed, run>>
  BY Zenon DEF Expire
<1>2. LedgerOK(chain, flight', run)
  BY <1>1, Zenon DEF WalletInv, LedgerOK
<1>3. WalletTypes'
  BY <1>1, Zenon DEF WalletInv, WalletTypes
<1> QED BY <1>1, <1>2, <1>3, Zenon DEF WalletInv

(***************************************************************************)
(* An interface that does not exist was not created by somebody else.      *)
(***************************************************************************)
LEMMA FreshCreation ==
  ASSUME WalletInv, NEW r, r \notin InterfacesAt(Len(chain))
  PROVE  ~OnChain(chain, <<r, 0>>)
<1>1. 0 \notin 1 .. 3
  OBVIOUS
<1> SUFFICES ASSUME NEW i \in DOMAIN chain, chain[i].sig = <<r, 0>> PROVE FALSE
  BY Zenon DEF OnChain
<1>2. ~Own(chain[i], run)
  BY <1>1, OwnSignature, Zenon
<1>3. Foreign(chain[i])
  BY <1>2, Zenon DEF WalletInv, LedgerOK
<1>4. PICK q \in Run : chain[i].sig = <<q, 0>> /\ chain[i].creates = {q}
  BY <1>3, Zenon DEF Foreign
<1>5. q = r
  BY <1>4, SMT
<1>6. DOMAIN chain = 1 .. Len(chain)
  <2>1. chain \in Seq(AnyTx)
    BY Zenon DEF WalletInv, WalletTypes
  <2> HIDE DEF AnyTx
  <2> QED BY <2>1
<1>7. r \in InterfacesAt(Len(chain))
  BY <1>4, <1>5, <1>6, Zenon DEF InterfacesAt, Upto
<1> QED BY <1>7

(***************************************************************************)
(* OtherCreates: an interface that does not exist was not created under    *)
(* this signature before.                                                  *)
(***************************************************************************)
LEMMA OtherCreatesKeeps ==
  ASSUME WalletInv, NEW r \in Run, OtherCreates(r)
  PROVE  WalletInv'
<1> DEFINE tx == [sig |-> <<r, 0>>, op |-> "create_interface", creates |-> {r},
                  spends |-> {}, outs |-> {}, amount |-> 0]
<1>1. /\ chain' = Append(chain, tx) /\ UNCHANGED <<rejected, indexed, flight, run>>
      /\ r \notin InterfacesAt(Len(chain))
  BY Zenon DEF OtherCreates
<1>2. /\ tx.sig = <<r, 0>> /\ tx.op = "create_interface" /\ tx.creates = {r}
      /\ tx.spends = {} /\ tx.outs = {}
  BY Zenon
<1>3. tx \in AnyTx
  <2>1. <<r, 0>> \in Run \X Nat /\ {r} \in SUBSET Run /\ {} \in SUBSET AnyNote /\ 0 \in Nat
        /\ "create_interface" \in Operation
    BY DEF Operation
  <2> QED BY <2>1, Zenon DEF AnyTx
<1> HIDE DEF tx
<1>4. Foreign(tx)
  BY <1>2, Zenon DEF Foreign
<1>5. 0 \notin 1 .. 3
  OBVIOUS
<1>6. ~OnChain(chain, tx.sig)
  BY <1>1, <1>2, FreshCreation, Zenon
<1>7. \A t \in flight' : t.sig # tx.sig
  <2> SUFFICES ASSUME NEW t \in flight, t.sig = <<r, 0>> PROVE FALSE
    BY <1>1, <1>2, Zenon
  <2>1. Own(t, run)
    BY Zenon DEF WalletInv, LedgerOK
  <2> QED BY <1>5, <2>1, OwnSignature, Zenon
<1>8. flight' \subseteq flight
  BY <1>1, Zenon
<1>9. \A n \in tx.outs : n.mint \in {Sol} \cup tx.creates \cup InterfacesAt(Len(chain))
  BY <1>2, Zenon
<1> QED BY <1>1, <1>3, <1>4, <1>6, <1>7, <1>8, <1>9, ChainGrows, Zenon

(***************************************************************************)
(* Index: the indexer does not overtake the chain.                         *)
(***************************************************************************)
LEMMA IndexKeeps ==
  ASSUME WalletInv, Index
  PROVE  WalletInv'
<1>1. /\ indexed < Len(chain) /\ indexed' = indexed + 1
      /\ UNCHANGED <<chain, rejected, flight, run>>
  BY Zenon DEF Index
<1>2. chain \in Seq(AnyTx) /\ indexed \in 0 .. Len(chain)
  BY Zenon DEF WalletInv, WalletTypes
<1>3. indexed' \in 0 .. Len(chain)
  <2> HIDE DEF AnyTx
  <2> QED BY <1>1, <1>2
<1>4. WalletTypes'
  BY <1>1, <1>3, Zenon DEF WalletInv, WalletTypes
<1> QED BY <1>1, <1>4, Zenon DEF WalletInv

-----------------------------------------------------------------------------
(***************************************************************************)
(* The invariant holds.                                                    *)
(***************************************************************************)

(***************************************************************************)
(* A process starts with its first step, or is done if it runs none.       *)
(***************************************************************************)
LEMMA StartOK ==
  ASSUME NEW r \in Run, NEW setting \in [example : Example, client : {"rust", "typescript"}]
  PROVE  Start(setting) \in RunState /\ ProcessOK(r, Start(setting), <<>>)
<1> DEFINE e == setting.example
           c == setting.client
           phase == IF e = "idle" THEN "done" ELSE FirstPhase(Steps[e][1])
           st == Start(setting)
<1>1. e \in Example /\ c \in {"rust", "typescript"}
  OBVIOUS
<1>2. st = [example |-> e, client |-> c, step |-> 1, phase |-> phase, slot |-> 0, utxos |-> {},
            assets |-> {Sol}, found |-> FALSE, error |-> "none"]
  BY Zenon DEF Start
<1> HIDE DEF e, c, st
<1>3. e # "idle" =>
        /\ Len(Steps[e]) \in Nat \ {0}
        /\ Steps[e][1] \in {"deposit", "setup_test_token", "fund", "sync"}
        /\ Steps[e][1] = "sync" <=> e = "sync_balance"
  BY <1>1, SMT DEF Example, Steps
<1>4. /\ phase \in {"build", "registry", "done"}
      /\ phase = "done" <=> e = "idle"
      /\ phase = "registry" <=> e = "sync_balance"
  <2>1. CASE e = "idle"
    BY <2>1
  <2>2. CASE e # "idle"
    <3> DEFINE first == Steps[e][1]
    <3>1. first \in {"deposit", "setup_test_token", "fund", "sync"}
          /\ (first = "sync" <=> e = "sync_balance")
      BY <1>3, <2>2, Zenon
    <3>2. phase = FirstPhase(first)
      BY <2>2, Zenon
    <3> HIDE DEF first, phase
    <3> QED BY <2>2, <3>1, <3>2 DEF FirstPhase
  <2> QED BY <2>1, <2>2
<1> HIDE DEF phase
<1>5. st \in RunState
  <2>1. /\ phase \in Phase /\ "none" \in Problem /\ {Sol} \in SUBSET (Run \cup {Sol})
        /\ {} \in SUBSET AnyNote /\ 1 \in Nat /\ 0 \in Nat /\ FALSE \in BOOLEAN
    BY <1>4 DEF Phase, Problem
  <2> QED BY <1>1, <1>2, <2>1, Zenon DEF RunState
<1>6. /\ st.example = e /\ st.client = c /\ st.step = 1 /\ st.phase = phase
      /\ st.found = FALSE /\ st.error = "none"
  BY <1>2
<1>7. PhaseOK(st)
  <2>1. \/ st.example = "idle" /\ st.phase = "done"
        \/ st.example # "idle" /\ st.step \in 1 .. Len(Steps[st.example])
    BY <1>3, <1>4, <1>6
  <2> QED BY <1>4, <1>6, <2>1 DEF PhaseOK
<1>8. ProcessOK(r, st, <<>>)
  <2>1. /\ st.phase \notin {"located", "registered", "scan"}
        /\ st.error \notin {"unknown mint", "assertion"}
        /\ ~st.found
    BY <1>4, <1>6
  <2>2. \A j \in 1 .. st.step - 1 : FALSE
    BY <1>6
  <2>3. CoinsOK(r, st)
    <3>1. st.step # 2 /\ st.step # 3
      BY <1>6
    <3> QED BY <3>1, Zenon DEF CoinsOK
  <2> QED BY <1>6, <1>7, <2>1, <2>2, <2>3, Zenon DEF ProcessOK
<1> QED BY <1>5, <1>8, Zenon DEF st

(***************************************************************************)
(* The invariant holds when the processes start.                           *)
(***************************************************************************)
LEMMA InitKeeps == Init => WalletInv
<1> SUFFICES ASSUME Init PROVE WalletInv
  OBVIOUS
<1>1. chain = <<>> /\ rejected = {} /\ indexed = 0 /\ flight = {}
  BY Zenon DEF Init
<1>2. PICK s \in Scenario : run = [r \in Run |-> Start(s[r])]
  BY Zenon DEF Init
<1>3. \A r \in Run : s[r] \in [example : Example, client : {"rust", "typescript"}]
  BY WalletAssumption, Zenon
<1>4. \A r \in Run : run[r] \in RunState /\ ProcessOK(r, run[r], chain)
  <2> TAKE r \in Run
  <2>1. run[r] = Start(s[r])
    BY <1>2, Zenon
  <2>2. Start(s[r]) \in RunState /\ ProcessOK(r, Start(s[r]), <<>>)
    BY <1>3, StartOK, Zenon
  <2> QED BY <1>1, <2>1, <2>2, Zenon
<1>5. WalletTypes
  <2>1. <<>> \in Seq(AnyTx) /\ 0 \in 0 .. Len(<<>>)
    OBVIOUS
  <2>2. run \in [Run -> RunState]
    BY <1>2, <1>4, Zenon
  <2> QED BY <1>1, <2>1, <2>2, Zenon DEF WalletTypes
<1>6. LedgerOK(chain, flight, run)
  <2>1. DOMAIN chain = {}
    BY <1>1
  <2> QED BY <1>1, <2>1, Zenon DEF LedgerOK
<1>7. RejectionsOK(rejected, chain, run)
  BY <1>1, Zenon DEF RejectionsOK
<1> QED BY <1>4, <1>5, <1>6, <1>7, Zenon DEF WalletInv

(***************************************************************************)
(* Every step keeps the invariant.                                         *)
(***************************************************************************)
LEMMA NextKeeps == WalletInv /\ [Next]_vars => WalletInv'
<1> SUFFICES ASSUME WalletInv, [Next]_vars PROVE WalletInv'
  OBVIOUS
<1>1. ASSUME NEW r \in Run, RunStep(r) PROVE WalletInv'
  BY <1>1, CheckInterfaceKeeps, SendKeeps, ConfirmKeeps, ConfirmFailsKeeps, LandedSlotKeeps,
     CheckRegisteredKeeps, LookupRegistryKeeps, ReadBackKeeps, LoadRegistryKeeps, ScanKeeps, Zenon
     DEF RunStep
<1>2. ASSUME NEW r \in Run, RequestFails(r) \/ OtherCreates(r) PROVE WalletInv'
  BY <1>2, RequestFailsKeeps, OtherCreatesKeeps, Zenon
<1>3. ASSUME NEW tx \in flight, Land(tx) PROVE WalletInv'
  BY <1>3, LandKeeps, Zenon
<1>4. ASSUME NEW tx \in flight, Expire(tx) PROVE WalletInv'
  BY <1>4, ExpireKeeps, Zenon
<1>5. CASE Index
  BY <1>5, IndexKeeps, Zenon
<1>6. CASE UNCHANGED vars
  <2>1. UNCHANGED <<chain, rejected, indexed, flight, run>>
    BY <1>6, Zenon DEF vars
  <2>2. WalletTypes'
    BY <2>1, Zenon DEF WalletInv, WalletTypes
  <2> QED BY <2>1, <2>2, Zenon DEF WalletInv
<1> QED BY <1>1, <1>2, <1>3, <1>4, <1>5, <1>6, Zenon DEF Next

(***************************************************************************)
(* Whatever the processes, the chain, the RPC nodes and the indexer do, in *)
(* any number and any scenario: every process is where its example says,   *)
(* every transaction is accounted for once, and every rejection is a lost  *)
(* race.                                                                   *)
(***************************************************************************)
THEOREM WalletInvariant == Spec => []WalletInv
BY InitKeeps, NextKeeps, PTL DEF Spec

(***************************************************************************)
(* The assertions that the examples make of the notes they read back hold. *)
(***************************************************************************)
THEOREM AssertionsHold == Spec => []ReadBacksExact
<1>1. WalletInv => ReadBacksExact
  BY Zenon DEF WalletInv, ProcessOK, ReadBacksExact
<1> QED BY <1>1, WalletInvariant, PTL

(***************************************************************************)
(* The chain rejects a process's transaction only if somebody else created *)
(* the mint's interface unseen by the node that answered the process's     *)
(* lookup.                                                                 *)
(***************************************************************************)
THEOREM OnlyRacesAreRejected == Spec => []RejectedOnlyByRace
<1>1. WalletInv => RejectedOnlyByRace
  <2> SUFFICES ASSUME WalletInv, NEW sig \in rejected
               PROVE  /\ Steps[run[sig[1]].example][sig[2]] = "deposit_spl"
                      /\ ~run[sig[1]].found
                      /\ \E tx \in Others : tx.creates = {sig[1]}
    BY Zenon DEF RejectedOnlyByRace
  <2>1. PICK r \in Run : sig = <<r, 2>> /\ LostRace(r, run[r], chain)
    BY Zenon DEF WalletInv, RejectionsOK
  <2>2. sig[1] = r /\ sig[2] = 2
    BY <2>1
  <2>3. Steps[run[r].example][2] = "deposit_spl" /\ ~run[r].found
    <3>1. run[r].example = "deposit_with_interface_setup" /\ ~run[r].found
      BY <2>1, Zenon DEF LostRace
    <3> QED BY <3>1 DEF Steps
  <2>4. PICK i \in DOMAIN chain : chain[i].op = "create_interface" /\ chain[i].creates = {r}
    BY <2>1, Zenon DEF LostRace
  <2>5. DOMAIN chain = 1 .. Len(chain)
    <3>1. chain \in Seq(AnyTx)
      BY Zenon DEF WalletInv, WalletTypes
    <3> HIDE DEF AnyTx
    <3> QED BY <3>1
  <2>6. chain[i] \in Others
    BY <2>4, <2>5, Zenon DEF Others, Upto
  <2> QED BY <2>2, <2>3, <2>4, <2>6, Zenon
<1> QED BY <1>1, WalletInvariant, PTL

(***************************************************************************)
(* A new attempt of sync_balance whose registry view is not older than     *)
(* what the failed one scanned knows the mints of all the notes that the   *)
(* failed one read: an SPL note lands no earlier than its mint's interface.*)
(***************************************************************************)
THEOREM NewAttemptResolves == Spec => []NewAttemptKnowsTheMints
<1>1. WalletInv => NewAttemptKnowsTheMints
  <2> SUFFICES ASSUME WalletInv, NEW r \in Run, NEW q \in Run, run[r].error = "unknown mint",
                      run[q].phase = "scan", run[q].slot >= run[r].slot, NEW n \in run[r].utxos
               PROVE  n.mint \in run[q].assets
    BY Zenon DEF NewAttemptKnowsTheMints
  <2>1. /\ run[r].slot \in 0 .. Len(chain)
        /\ n.mint \in {Sol} \cup Created(chain, run[r].slot)
        /\ run[q].slot \in 0 .. Len(chain)
        /\ run[q].assets = {Sol} \cup Created(chain, run[q].slot)
    BY Zenon DEF WalletInv, ProcessOK
  <2>2. run[r].slot \in Nat /\ run[q].slot \in Nat /\ run[r].slot <= run[q].slot
    <3>1. run[r] \in RunState /\ run[q] \in RunState
      BY ProcessState, Zenon
    <3>2. run[r].slot \in Nat /\ run[q].slot \in Nat
      BY <3>1, Zenon DEF RunState
    <3> QED BY <3>2
  <2>3. Created(chain, run[r].slot) \subseteq Created(chain, run[q].slot)
    BY <2>2, CreatedGrows, Zenon
  <2> QED BY <2>1, <2>3, Zenon
<1> QED BY <1>1, WalletInvariant, PTL

-----------------------------------------------------------------------------
(***************************************************************************)
(* What a SOL flow that ended leaves behind.                               *)
(***************************************************************************)

\* The steps of a SOL flow by number.
SolKind(k) == Steps["deposit_transfer_withdraw"][k]

\* The note that step k leaves is the one the flow holds after it.
LEMMA HeldIsMade ==
  ASSUME NEW r, NEW k \in 1 .. 3
  PROVE  /\ SolKind(k) \in ReadsBack
         /\ HeldAfter(r, k) = {Made(r, SolKind(k), k)}
<1>1. /\ SolKind(1) = "deposit" /\ SolKind(2) = "transfer" /\ SolKind(3) = "withdraw"
  BY DEF SolKind, Steps
<1>2. SolKind(k) \in ReadsBack
  BY <1>1 DEF ReadsBack
<1>3. {DepositAmount, TransferAmount, WithdrawAmount} \subseteq Int
  BY WalletAssumption
<1>4. CASE k = 1
  <2>1. HeldAfter(r, k) = {[sig |-> <<r, k>>, owner |-> "sender", mint |-> Sol,
                            amount |-> DepositAmount]}
    BY <1>3, <1>4 DEF HeldAfter
  <2> QED BY <1>1, <1>2, <1>4, <2>1 DEF Made
<1>5. CASE k = 2
  <2>1. HeldAfter(r, k) = {[sig |-> <<r, k>>, owner |-> "sender", mint |-> Sol,
                            amount |-> DepositAmount - TransferAmount]}
    BY <1>3, <1>5 DEF HeldAfter
  <2> QED BY <1>1, <1>2, <1>5, <2>1 DEF Made
<1>6. CASE k = 3
  <2>1. HeldAfter(r, k) = {[sig |-> <<r, k>>, owner |-> "sender", mint |-> Sol,
                            amount |-> DepositAmount - TransferAmount - WithdrawAmount]}
    BY <1>3, <1>6 DEF HeldAfter
  <2> QED BY <1>1, <1>2, <1>6, <2>1 DEF Made
<1> QED BY <1>4, <1>5, <1>6

\* The transaction of a later step of a SOL flow spends what the step before left.
LEMMA NextSpends ==
  ASSUME WalletInv, NEW r \in Run, run[r].example = "deposit_transfer_withdraw",
         NEW m \in 1 .. 3, OnChain(chain, <<r, m + 1>>)
  PROVE  m + 1 \in 1 .. 3 /\ Made(r, SolKind(m), m) \in SpentAt(Len(chain))
<1>1. PICK j \in DOMAIN chain : chain[j].sig = <<r, m + 1>>
  BY Zenon DEF OnChain
<1>2. m + 1 \in Nat \ {0} /\ m \in Nat
  OBVIOUS
<1>3. m + 1 \in 1 .. 3 /\ IsSent(chain[j], r, run[r], m + 1)
  BY <1>1, <1>2, ChainSignature, Zenon
<1>4. Kind(run[r], m + 1) = SolKind(m + 1)
  BY Zenon DEF Kind, SolKind
<1>5. /\ SolKind(1) = "deposit" /\ SolKind(2) = "transfer" /\ SolKind(3) = "withdraw"
  BY DEF SolKind, Steps
<1>6. chain[j].spends = CASE SolKind(m + 1) = "transfer" -> {Made(r, "deposit", 1)}
                          [] SolKind(m + 1) = "withdraw" -> {Made(r, "transfer", 2)}
                          [] OTHER -> {}
  BY <1>3, <1>4, Zenon DEF IsSent
<1>7. Made(r, SolKind(m), m) \in chain[j].spends
  <2>1. m = 1 \/ m = 2
    BY <1>3
  <2>2. m = 1 => m + 1 = 2
    OBVIOUS
  <2>3. m = 2 => m + 1 = 3
    OBVIOUS
  <2>4. CASE m = 1
    <3>1. chain[j].spends = {Made(r, "deposit", 1)}
      BY <1>5, <1>6, <2>2, <2>4
    <3> QED BY <1>5, <2>4, <3>1, Zenon
  <2>5. CASE m = 2
    <3>1. chain[j].spends = {Made(r, "transfer", 2)}
      BY <1>5, <1>6, <2>3, <2>5
    <3> QED BY <1>5, <2>5, <3>1, Zenon
  <2> QED BY <2>1, <2>4, <2>5
<1>8. DOMAIN chain = 1 .. Len(chain)
  <2>1. chain \in Seq(AnyTx)
    BY Zenon DEF WalletInv, WalletTypes
  <2> HIDE DEF AnyTx
  <2> QED BY <2>1
<1>9. Made(r, SolKind(m), m) \in SpentAt(Len(chain))
  BY <1>7, <1>8, Zenon DEF SpentAt, Upto
<1> QED BY <1>3, <1>9

\* A spendable note of a SOL flow is what the last of its steps that landed left.
LEMMA SpendableIsLast ==
  ASSUME WalletInv, NEW r \in Run, run[r].example = "deposit_transfer_withdraw",
         NEW n \in decrypt_spendable(Upto(Len(chain))), n.sig[1] = r
  PROVE  \E m \in 1 .. 3 : /\ OnChain(chain, <<r, m>>)
                           /\ ~OnChain(chain, <<r, m + 1>>)
                           /\ n = Made(r, SolKind(m), m)
<1>1. DOMAIN chain = 1 .. Len(chain)
  <2>1. chain \in Seq(AnyTx)
    BY Zenon DEF WalletInv, WalletTypes
  <2> HIDE DEF AnyTx
  <2> QED BY <2>1
<1>2. PICK i \in DOMAIN chain : n \in chain[i].outs
  <2>1. PICK tx \in Upto(Len(chain)) : n \in tx.outs
    BY Zenon DEF decrypt_spendable
  <2> QED BY <1>1, <2>1, Zenon DEF Upto
<1>3. n.owner = "sender" /\ n \notin SpentAt(Len(chain))
  BY Zenon DEF decrypt_spendable, SpentAt
<1>4. ~Foreign(chain[i])
  BY <1>2, Zenon DEF Foreign
<1>5. PICK q \in Run, m \in Nat : Gone(run[q], m) /\ IsSent(chain[i], q, run[q], m)
  BY <1>4, Zenon DEF WalletInv, LedgerOK, Own
<1>6. n.sig = <<q, m>> /\ chain[i].sig = <<q, m>> /\ m \in 1 .. Len(Steps[run[q].example])
  BY <1>2, <1>5, Zenon DEF IsSent
<1>7. q = r
  BY <1>6
<1>8. m \in 1 .. 3
  <2>1. Len(Steps["deposit_transfer_withdraw"]) = 3
    BY DEF Steps
  <2> QED BY <1>6, <1>7, <2>1, Zenon
<1>9. n = Made(r, SolKind(m), m)
  <2>1. {x \in chain[i].outs : x.owner = "sender"} = Kept(r, Kind(run[r], m), m)
    BY <1>5, <1>7, Zenon DEF IsSent
  <2>2. Kind(run[r], m) = SolKind(m)
    BY Zenon DEF Kind, SolKind
  <2>3. SolKind(m) \in ReadsBack
    BY <1>8, HeldIsMade, Zenon
  <2> QED BY <1>2, <1>3, <2>1, <2>2, <2>3, Zenon DEF Kept
<1>10. OnChain(chain, <<r, m>>)
  BY <1>6, <1>7, Zenon DEF OnChain
<1>11. ~OnChain(chain, <<r, m + 1>>)
  BY <1>3, <1>8, <1>9, NextSpends, Zenon
<1> QED BY <1>8, <1>9, <1>10, <1>11, Zenon

(***************************************************************************)
(* Wherever a SOL flow stops, for a failed request, a missing status or a  *)
(* wait given up, what landed of it are its steps up to the current or the *)
(* one before, and it leaves all its funds in one note that is spendable.  *)
(***************************************************************************)
THEOREM SolFlowsKeepTheirFunds == Spec => []FlowsKeepTheirFunds
<1>1. ASSUME WalletInv, NEW r \in Run, run[r].example = "deposit_transfer_withdraw"
      PROVE  \E k \in {run[r].step - 1, run[r].step} :
               /\ \A j \in 1 .. 3 : SlotOf(<<r, j>>) # {} <=> j <= k
               /\ {n \in decrypt_spendable(Upto(Len(chain))) : n.sig[1] = r} = HeldAfter(r, k)
  <2> DEFINE st   == run[r]
             step == st.step
             k    == IF OnChain(chain, <<r, step>>) THEN step ELSE step - 1
             held == {n \in decrypt_spendable(Upto(Len(chain))) : n.sig[1] = r}
  <2>1. step \in 1 .. 3 /\ ProcessOK(r, st, chain)
    <3>1. Len(Steps["deposit_transfer_withdraw"]) = 3
      BY DEF Steps
    <3>2. PhaseOK(st) /\ ProcessOK(r, st, chain)
      BY <1>1, ProcessState, Zenon
    <3>3. st.example = "deposit_transfer_withdraw" /\ st.example # "idle"
      BY <1>1
    <3> QED BY <3>1, <3>2, <3>3, Zenon DEF PhaseOK
  <2>2. \A j \in 1 .. step - 1 : OnChain(chain, <<r, j>>)
    BY <1>1, <2>1, Zenon DEF ProcessOK
  <2>3. \A j \in 1 .. 3 : OnChain(chain, <<r, j>>) => j <= step
    <3> SUFFICES ASSUME NEW j \in 1 .. 3, OnChain(chain, <<r, j>>) PROVE j <= step
      OBVIOUS
    <3>1. j \in Nat \ {0}
      OBVIOUS
    <3>2. Gone(st, j)
      BY <1>1, <3>1, ChainSignature, Zenon DEF OnChain
    <3> QED BY <2>1, <3>2 DEF Gone
  <2> HIDE DEF st, step
  <2>4. k \in 0 .. 3 /\ k \in {step - 1, step}
    BY <2>1
  <2>5. \A j \in 1 .. 3 : OnChain(chain, <<r, j>>) <=> j <= k
    BY <2>1, <2>2, <2>3
  <2> HIDE DEF k
  <2>6. \A j \in 1 .. 3 : SlotOf(<<r, j>>) # {} <=> j <= k
    <3>1. \A sig : SlotOf(sig) # {} <=> OnChain(chain, sig)
      BY DEF SlotOf, OnChain
    <3> QED BY <2>5, <3>1, Zenon
  <2>7. ASSUME NEW n \in held
        PROVE  k # 0 /\ n = Made(r, SolKind(k), k)
    <3>1. PICK m \in 1 .. 3 : /\ OnChain(chain, <<r, m>>) /\ ~OnChain(chain, <<r, m + 1>>)
                              /\ n = Made(r, SolKind(m), m)
      BY <1>1, <2>7, SpendableIsLast, Zenon
    <3>2. m <= k
      BY <2>5, <3>1, Zenon
    <3>3. m + 1 \in 1 .. 3 => ~(m + 1 <= k)
      BY <2>5, <3>1, Zenon
    <3>4. m = k
      BY <2>4, <3>2, <3>3
    <3> QED BY <3>1, <3>4
  <2>8. k # 0 => Made(r, SolKind(k), k) \in held
    <3> SUFFICES ASSUME k # 0 PROVE Made(r, SolKind(k), k) \in held
      OBVIOUS
    <3>1. k \in 1 .. 3 /\ k \in Nat \ {0} /\ k <= k /\ ~(k + 1 <= k)
      BY <2>4
    <3>2. OnChain(chain, <<r, k>>)
      BY <2>5, <3>1, Zenon
    <3>3. ~OnChain(chain, <<r, k + 1>>)
      <4>1. OnChain(chain, <<r, k + 1>>) => k + 1 \in 1 .. 3
        BY <1>1, <3>1, NextSpends, Zenon
      <4> QED BY <2>5, <3>1, <4>1, Zenon
    <3>4. SolKind(k) \in ReadsBack /\ SolKind(k) = Steps[run[r].example][k]
      BY <1>1, <3>1, HeldIsMade, Zenon DEF SolKind
    <3>5. Made(r, SolKind(k), k) \in NotesAt(Len(chain)) \ SpentAt(Len(chain))
      BY <1>1, <3>1, <3>2, <3>3, <3>4, NoteIsThere, Zenon
    <3>6. Made(r, SolKind(k), k).owner = "sender" /\ Made(r, SolKind(k), k).sig[1] = r
      BY DEF Made
    <3> QED BY <3>5, <3>6, Zenon DEF NotesAt, SpentAt, decrypt_spendable
  <2> HIDE DEF held
  <2>9. held = HeldAfter(r, k)
    <3>1. CASE k = 0
      <4>1. \A x : x \notin held
        BY <2>7, <3>1, Zenon
      <4>2. HeldAfter(r, k) = {}
        BY <3>1, Zenon DEF HeldAfter
      <4> QED BY <4>1, <4>2
    <3>2. CASE k # 0
      <4>1. k \in 1 .. 3
        BY <2>4, <3>2
      <4>2. HeldAfter(r, k) = {Made(r, SolKind(k), k)}
        BY <4>1, HeldIsMade, Zenon
      <4> HIDE DEF Made, SolKind
      <4> QED BY <2>7, <2>8, <3>2, <4>2, Zenon
    <3> QED BY <3>1, <3>2
  <2> QED BY <2>4, <2>6, <2>9, Zenon DEF held, step, st
<1>2. WalletInv => FlowsKeepTheirFunds
  BY <1>1, Zenon DEF FlowsKeepTheirFunds
<1> QED BY <1>2, WalletInvariant, PTL

-----------------------------------------------------------------------------
(***************************************************************************)
(* The books.  A transaction is settled if what it leaves to the sender,   *)
(* less what it spends, is what it moves; then the balance of every mint   *)
(* stays equal to the ledger, slot by slot, as transactions land.          *)
(***************************************************************************)
\* The operations that move what the wallet holds.
Counted == {"deposit", "transfer", "withdraw", "deposit_spl"}

\* What a transaction of this kind moves.
Moves(op) == CASE op = "transfer" -> TransferAmount
               [] op = "withdraw" -> WithdrawAmount
               [] OTHER           -> DepositAmount

\* A transaction moves what its operation moves.
AmountOK(tx) == tx.op \in Counted => tx.amount = Moves(tx.op)

\* The first transactions of a chain.
Txs(ch, slot) == {ch[i] : i \in 1 .. slot}

\* The notes that a transaction makes for the sender.
Change(tx) == {n \in tx.outs : n.owner = "sender"}

\* What one transaction adds to what operations of these kinds moved.
Part(tx, ops, by) == IF tx.op \in ops /\ tx.sig[1] \in by THEN tx.amount ELSE 0

\* What one transaction adds to the balance of a mint.
Gain(tx, mint) ==
  IF mint = Sol THEN Part(tx, {"deposit"}, Run) - Part(tx, {"transfer", "withdraw"}, Run)
  ELSE Part(tx, {"deposit_spl"}, {mint})

\* What the transactions leave to the sender is what they moved, and they
\* spend only what they made.
Balances(T) ==
  /\ T \in SUBSET AnyTx /\ IsFiniteSet(T) /\ IsFiniteSet(decrypt_spendable(T))
  /\ \A tx \in T : \A n \in tx.outs : n.sig = tx.sig
  /\ UNION {tx.spends : tx \in T} \subseteq UNION {tx.outs : tx \in T}
  /\ \A mint \in Run \cup {Sol} : Amounts(decrypt_spendable(T), mint) = Ledger(T, mint)

\* What the transaction leaves to the sender, less what it spends, is its gain.
Settled(tx) ==
  /\ IsFiniteSet(Change(tx)) /\ IsFiniteSet(tx.spends)
  /\ \A mint \in Run \cup {Sol} :
       Amounts(Change(tx), mint) - Amounts(tx.spends, mint) = Gain(tx, mint)

\* The weights that balances and ledgers are sums of.
Worth(mint) == [n \in AnyNote |-> IF n.mint = mint THEN n.amount ELSE 0]

Weight(ops, by) == [tx \in AnyTx |-> Part(tx, ops, by)]

(***************************************************************************)
(* A note is worth an integer.                                             *)
(***************************************************************************)
LEMMA WorthInt == ASSUME NEW mint PROVE \A n \in AnyNote : Worth(mint)[n] \in Int
BY SMT DEF Worth, AnyNote

(***************************************************************************)
(* A transaction moves an integer.                                         *)
(***************************************************************************)
LEMMA WeightInt == ASSUME NEW ops, NEW by PROVE \A tx \in AnyTx : Weight(ops, by)[tx] \in Int
<1> SUFFICES ASSUME NEW tx \in AnyTx PROVE Weight(ops, by)[tx] \in Int
  OBVIOUS
<1>1. tx.amount \in Nat
  BY Zenon DEF AnyTx
<1>2. Weight(ops, by)[tx] = Part(tx, ops, by)
  BY Zenon DEF Weight
<1> QED BY <1>1, <1>2 DEF Part

(***************************************************************************)
(* A balance is a sum over the notes.                                      *)
(***************************************************************************)
LEMMA AmountsSum ==
  ASSUME NEW X \in SUBSET AnyNote, IsFiniteSet(X), NEW mint
  PROVE  Amounts(X, mint) = SumFunctionOnSet(Worth(mint), X) /\ Amounts(X, mint) \in Int
<1> DEFINE v == [n \in X |-> IF n.mint = mint THEN n.amount ELSE 0]
<1>1. DOMAIN v = X /\ \A n \in X : v[n] = Worth(mint)[n]
  BY Zenon DEF Worth
<1>2. \A n \in X : Worth(mint)[n] \in Int
  BY WorthInt, Zenon
<1>3. Amounts(X, mint) = SumFunction(v)
  BY DEF Amounts
<1> HIDE DEF v
<1>4. SumFunctionOnSet(v, X) = SumFunctionOnSet(Worth(mint), X)
  BY <1>1, <1>2, SumSame, Zenon
<1>5. Amounts(X, mint) = SumFunctionOnSet(Worth(mint), X)
  BY <1>1, <1>3, <1>4 DEF SumFunction
<1>6. SumFunctionOnSet(Worth(mint), X) \in Int
  BY <1>2, SumInt, Zenon
<1> QED BY <1>5, <1>6, Zenon

(***************************************************************************)
(* What was moved is a sum over the transactions.                          *)
(***************************************************************************)
LEMMA MovedSum ==
  ASSUME NEW T \in SUBSET AnyTx, IsFiniteSet(T), NEW ops, NEW by
  PROVE  Moved(T, ops, by) = SumFunctionOnSet(Weight(ops, by), T) /\ Moved(T, ops, by) \in Int
<1> DEFINE v == [tx \in T |-> IF tx.op \in ops /\ tx.sig[1] \in by THEN tx.amount ELSE 0]
<1>1. DOMAIN v = T /\ \A tx \in T : v[tx] = Weight(ops, by)[tx]
  BY Zenon DEF Weight, Part
<1>2. \A tx \in T : Weight(ops, by)[tx] \in Int
  BY WeightInt, Zenon
<1>3. Moved(T, ops, by) = SumFunction(v)
  BY DEF Moved
<1> HIDE DEF v
<1>4. SumFunctionOnSet(v, T) = SumFunctionOnSet(Weight(ops, by), T)
  BY <1>1, <1>2, SumSame, Zenon
<1>5. Moved(T, ops, by) = SumFunctionOnSet(Weight(ops, by), T)
  BY <1>1, <1>3, <1>4 DEF SumFunction
<1>6. SumFunctionOnSet(Weight(ops, by), T) \in Int
  BY <1>2, SumInt, Zenon
<1> QED BY <1>5, <1>6, Zenon

(***************************************************************************)
(* One transaction more moves its part more.                               *)
(***************************************************************************)
LEMMA MovedOneMore ==
  ASSUME NEW T \in SUBSET AnyTx, IsFiniteSet(T), NEW tx \in AnyTx, tx \notin T, NEW ops, NEW by
  PROVE  /\ Moved(T \cup {tx}, ops, by) = Moved(T, ops, by) + Part(tx, ops, by)
         /\ Moved(T, ops, by) \in Int /\ Part(tx, ops, by) \in Int
<1> DEFINE w == Weight(ops, by)
<1>1. T \cup {tx} \in SUBSET AnyTx /\ IsFiniteSet(T \cup {tx})
  BY FS_AddElement, Zenon
<1>2. \A y \in T \cup {tx} : w[y] \in Int
  BY <1>1, WeightInt, Zenon
<1>3. w[tx] = Part(tx, ops, by)
  BY Zenon DEF Weight
<1>4. Moved(T \cup {tx}, ops, by) = SumFunctionOnSet(w, T \cup {tx})
  BY <1>1, MovedSum, Zenon
<1>5. Moved(T, ops, by) = SumFunctionOnSet(w, T) /\ Moved(T, ops, by) \in Int
  BY MovedSum, Zenon
<1>6. w[tx] \in Int
  BY <1>2, Zenon
<1> HIDE DEF w
<1>7. SumFunctionOnSet(w, T \cup {tx}) = w[tx] + SumFunctionOnSet(w, T)
  BY <1>2, SumAdd, Zenon
<1> QED BY <1>3, <1>4, <1>5, <1>6, <1>7

(***************************************************************************)
(* One transaction more, and the ledger has its gain more.                 *)
(***************************************************************************)
LEMMA LedgerOneMore ==
  ASSUME NEW T \in SUBSET AnyTx, IsFiniteSet(T), NEW tx \in AnyTx, tx \notin T, NEW mint
  PROVE  /\ Ledger(T \cup {tx}, mint) = Ledger(T, mint) + Gain(tx, mint)
         /\ Ledger(T, mint) \in Int /\ Gain(tx, mint) \in Int
<1>1. \A ops, by : /\ Moved(T \cup {tx}, ops, by) = Moved(T, ops, by) + Part(tx, ops, by)
                   /\ Moved(T, ops, by) \in Int /\ Part(tx, ops, by) \in Int
  BY MovedOneMore, Zenon
<1>2. CASE mint = Sol
  BY <1>1, <1>2 DEF Ledger, Gain
<1>3. CASE mint # Sol
  BY <1>1, <1>3 DEF Ledger, Gain
<1> QED BY <1>2, <1>3, Zenon

\* Two sets of notes with the same notes in them are one set.
LEMMA SameElements ==
  ASSUME NEW A, NEW B, \A n : n \in A <=> n \in B
  PROVE  A = B
OBVIOUS

(***************************************************************************)
(* After one transaction more the sender can spend what it could, less     *)
(* what the transaction spends, and the notes it makes for the sender.     *)
(***************************************************************************)
LEMMA SpendableOneMore ==
  ASSUME NEW T, NEW tx,
         \A t \in T : t.sig # tx.sig,
         \A t \in T : \A n \in t.outs : n.sig = t.sig,
         \A n \in tx.outs : n.sig = tx.sig,
         UNION {t.spends : t \in T} \subseteq UNION {t.outs : t \in T},
         tx.spends \subseteq decrypt_spendable(T)
  PROVE  /\ decrypt_spendable(T \cup {tx}) = (decrypt_spendable(T) \ tx.spends) \cup Change(tx)
         /\ decrypt_spendable(T) \cap Change(tx) = {}
         /\ UNION {t.spends : t \in T \cup {tx}} \subseteq UNION {t.outs : t \in T \cup {tx}}
<1> DEFINE outs == UNION {t.outs : t \in T}
           spent == UNION {t.spends : t \in T}
           own == {n \in outs : n.owner = "sender"}
<1>1. decrypt_spendable(T) = own \ spent
  BY Zenon DEF decrypt_spendable
<1>2. /\ UNION {t.outs : t \in T \cup {tx}} = outs \cup tx.outs
      /\ UNION {t.spends : t \in T \cup {tx}} = spent \cup tx.spends
  BY SMT
<1>3. decrypt_spendable(T \cup {tx}) = {n \in outs \cup tx.outs : n.owner = "sender"} \ (spent \cup tx.spends)
  BY <1>2, Zenon DEF decrypt_spendable
<1>4. \A n \in tx.outs : n \notin outs
  BY SMT
<1>5. spent \subseteq outs
  BY Zenon
<1>6. tx.spends \subseteq own \ spent
  BY <1>1, Zenon
<1> HIDE DEF outs, spent
<1>7. decrypt_spendable(T \cup {tx}) = (decrypt_spendable(T) \ tx.spends) \cup Change(tx)
  <2>1. \A n : n \in tx.outs => n \notin spent /\ n \notin tx.spends
    BY <1>4, <1>5, <1>6, Zenon
  <2>2. \A n : n \in decrypt_spendable(T \cup {tx}) <=>
                 /\ n \in outs \/ n \in tx.outs
                 /\ n.owner = "sender" /\ n \notin spent /\ n \notin tx.spends
    BY <1>3, Zenon
  <2>3. \A n : n \in (decrypt_spendable(T) \ tx.spends) \cup Change(tx) <=>
                 \/ n \in outs /\ n.owner = "sender" /\ n \notin spent /\ n \notin tx.spends
                 \/ n \in tx.outs /\ n.owner = "sender"
    BY <1>1, Zenon DEF Change
  <2>4. \A n : n \in decrypt_spendable(T \cup {tx}) <=> n \in (decrypt_spendable(T) \ tx.spends) \cup Change(tx)
    BY <2>1, <2>2, <2>3, Zenon
  <2> HIDE DEF own
  <2> QED BY <2>4, SameElements, Zenon
<1>8. decrypt_spendable(T) \cap Change(tx) = {}
  BY <1>1, <1>4, SMT DEF Change
<1>9. spent \cup tx.spends \subseteq outs \cup tx.outs
  BY <1>5, <1>6, SMT
<1> QED BY <1>2, <1>7, <1>8, <1>9, Zenon

(***************************************************************************)
(* A transaction that spends what is spendable and is settled keeps the    *)
(* balance of every mint equal to the ledger.                              *)
(***************************************************************************)
LEMMA BalancesStep ==
  ASSUME NEW T, Balances(T), NEW tx \in AnyTx, Settled(tx),
         \A t \in T : t.sig # tx.sig, \A n \in tx.outs : n.sig = tx.sig,
         tx.spends \subseteq decrypt_spendable(T)
  PROVE  Balances(T \cup {tx})
<1> DEFINE S == decrypt_spendable(T)
           In == Change(tx)
           Out == tx.spends
           SS == decrypt_spendable(T \cup {tx})
<1>1. /\ T \in SUBSET AnyTx /\ IsFiniteSet(T) /\ IsFiniteSet(S)
      /\ \A t \in T : \A n \in t.outs : n.sig = t.sig
      /\ UNION {t.spends : t \in T} \subseteq UNION {t.outs : t \in T}
  BY Zenon DEF Balances
<1>2. /\ SS = (S \ Out) \cup In /\ S \cap In = {}
      /\ UNION {t.spends : t \in T \cup {tx}} \subseteq UNION {t.outs : t \in T \cup {tx}}
  BY <1>1, SpendableOneMore, Zenon
<1>3. T \cup {tx} \in SUBSET AnyTx /\ IsFiniteSet(T \cup {tx}) /\ tx \notin T
  BY <1>1, FS_AddElement, Zenon
<1>4. \A t \in T \cup {tx} : \A n \in t.outs : n.sig = t.sig
  BY <1>1, Zenon
<1>5. IsFiniteSet(In) /\ IsFiniteSet(Out)
  BY Zenon DEF Settled
<1>6. S \subseteq AnyNote /\ In \subseteq AnyNote /\ Out \in SUBSET S /\ Out \in SUBSET AnyNote
  <2>1. \A t \in T \cup {tx} : t.outs \in SUBSET AnyNote
    BY <1>3, Zenon DEF AnyTx
  <2>2. S \subseteq AnyNote
    BY <2>1, SMT DEF decrypt_spendable
  <2>3. In \subseteq AnyNote
    BY <2>1, SMT DEF Change
  <2> QED BY <2>2, <2>3, SMT
<1> HIDE DEF S, In, Out, SS
<1>7. IsFiniteSet(SS) /\ SS \in SUBSET AnyNote
  <2>1. IsFiniteSet(S \ Out)
    BY <1>1, FS_Difference, Zenon
  <2>2. IsFiniteSet((S \ Out) \cup In)
    BY <2>1, <1>5, FS_Union, Zenon
  <2> QED BY <1>2, <1>6, <2>2, SMT
<1>8. ASSUME NEW mint \in Run \cup {Sol} PROVE Amounts(SS, mint) = Ledger(T \cup {tx}, mint)
  <2> DEFINE w == Worth(mint)
  <2>1. \A x \in S \cup In : w[x] \in Int
    BY <1>6, WorthInt, SMT
  <2>2. /\ Amounts(SS, mint) = SumFunctionOnSet(w, SS)
        /\ Amounts(S, mint) = SumFunctionOnSet(w, S)
        /\ Amounts(In, mint) = SumFunctionOnSet(w, In)
        /\ Amounts(Out, mint) = SumFunctionOnSet(w, Out)
        /\ Amounts(S, mint) \in Int /\ Amounts(In, mint) \in Int /\ Amounts(Out, mint) \in Int
    <3>1. S \in SUBSET AnyNote /\ In \in SUBSET AnyNote
      BY <1>6, Zenon
    <3> QED BY <1>1, <1>5, <1>6, <1>7, <3>1, AmountsSum, Zenon
  <2> HIDE DEF w
  <2>3. SumFunctionOnSet(w, (S \ Out) \cup In) =
          SumFunctionOnSet(w, S) - SumFunctionOnSet(w, Out) + SumFunctionOnSet(w, In)
    BY <1>1, <1>2, <1>5, <1>6, <2>1, SumChanges, SMTT(60)
  <2>4. Amounts(SS, mint) = Amounts(S, mint) - Amounts(Out, mint) + Amounts(In, mint)
    BY <1>2, <2>2, <2>3, Zenon
  <2>5. Amounts(S, mint) = Ledger(T, mint)
    BY Zenon DEF Balances, S
  <2>6. Amounts(In, mint) - Amounts(Out, mint) = Gain(tx, mint)
    BY Zenon DEF Settled, In, Out
  <2>7. Ledger(T \cup {tx}, mint) = Ledger(T, mint) + Gain(tx, mint) /\ Ledger(T, mint) \in Int
    BY <1>1, <1>3, LedgerOneMore, Zenon
  <2> QED BY <2>2, <2>4, <2>5, <2>6, <2>7, SMT
<1> QED BY <1>1, <1>2, <1>3, <1>4, <1>7, <1>8, Zenon DEF Balances, SS

(***************************************************************************)
(* No notes are worth nothing.                                             *)
(***************************************************************************)
LEMMA AmountOfNone == ASSUME NEW mint PROVE Amounts({}, mint) = 0
<1>1. {} \in SUBSET AnyNote /\ IsFiniteSet({})
  BY FS_EmptySet, Zenon
<1> QED BY <1>1, AmountsSum, SumEmpty, Zenon

\* What the sender's note of process r and this kind is worth.
NoteWorth(r, kind, mint) ==
  IF mint = (IF kind = "deposit_spl" THEN r ELSE Sol)
  THEN CASE kind = "transfer" -> DepositAmount - TransferAmount
         [] kind = "withdraw" -> DepositAmount - TransferAmount - WithdrawAmount
         [] OTHER             -> DepositAmount
  ELSE 0

(***************************************************************************)
(* What a note of the sender is worth.                                     *)
(***************************************************************************)
LEMMA MadeIsWorth ==
  ASSUME NEW r \in Run, NEW kind \in ReadsBack, NEW k \in Nat, NEW mint
  PROVE  Amounts({Made(r, kind, k)}, mint) = NoteWorth(r, kind, mint)
<1> DEFINE n == Made(r, kind, k)
           amount == CASE kind = "transfer" -> DepositAmount - TransferAmount
                       [] kind = "withdraw" -> DepositAmount - TransferAmount - WithdrawAmount
                       [] OTHER             -> DepositAmount
<1>1. n.mint = (IF kind = "deposit_spl" THEN r ELSE Sol) /\ n.amount = amount
  BY Zenon DEF Made
<1>2. amount \in Int
  BY WalletAssumption, SMT
<1> HIDE DEF n, amount
<1>3. Amounts({n}, mint) = IF n.mint = mint THEN n.amount ELSE 0
  BY <1>1, <1>2, AmountOfOne, Zenon
<1> QED BY <1>1, <1>3, SMT DEF n, amount, NoteWorth

(***************************************************************************)
(* A process's transaction leaves the sender what it moved, more or less.  *)
(***************************************************************************)
LEMMA SentSettles ==
  ASSUME NEW tx \in AnyTx, NEW r \in Run, NEW st, st.example \in Example, NEW k \in Nat,
         IsSent(tx, r, st, k), AmountOK(tx)
  PROVE  Settled(tx)
<1> DEFINE kind == Kind(st, k)
           In == Change(tx)
           Out == tx.spends
           dep == Made(r, "deposit", 1)
           trf == Made(r, "transfer", 2)
           own == Made(r, kind, k)
<1>1. /\ tx.op = kind /\ tx.sig = <<r, k>> /\ In = Kept(r, kind, k)
      /\ Out = CASE kind = "transfer" -> {dep} [] kind = "withdraw" -> {trf} [] OTHER -> {}
  BY Zenon DEF IsSent, Change
<1>2. tx.sig[1] = r /\ Sol # r
  BY <1>1, WalletAssumption
<1>3. In = IF kind \in ReadsBack THEN {own} ELSE {}
  BY <1>1, Zenon DEF Kept
<1>4. kind \in Counted => tx.amount = Moves(kind)
  BY <1>1, Zenon DEF AmountOK
<1>5. \A mint : /\ Amounts({}, mint) = 0
                /\ Amounts({dep}, mint) = NoteWorth(r, "deposit", mint)
                /\ Amounts({trf}, mint) = NoteWorth(r, "transfer", mint)
  <2>1. "deposit" \in ReadsBack /\ "transfer" \in ReadsBack /\ 1 \in Nat /\ 2 \in Nat
    BY DEF ReadsBack
  <2> QED BY <2>1, AmountOfNone, MadeIsWorth, Zenon
<1>6. kind \in ReadsBack => \A mint : Amounts({own}, mint) = NoteWorth(r, kind, mint)
  <2> HIDE DEF kind
  <2> QED BY MadeIsWorth, Zenon
<1>7. DepositAmount \in Nat /\ TransferAmount \in Nat /\ WithdrawAmount \in Nat
  BY WalletAssumption
<1>8. IsFiniteSet(In) /\ IsFiniteSet(Out)
  <2>1. In = {own} \/ In = {}
    BY <1>3, Zenon
  <2>2. Out = {dep} \/ Out = {trf} \/ Out = {}
    <3> HIDE DEF kind, dep, trf, Out
    <3> QED BY <1>1, SMT
  <2>3. \A x : IsFiniteSet({x})
    BY FS_Singleton, Zenon
  <2> HIDE DEF In, Out, own, dep, trf
  <2> QED BY <2>1, <2>2, <2>3, FS_EmptySet, Zenon
<1>9. ASSUME NEW mint \in Run \cup {Sol} PROVE Amounts(In, mint) - Amounts(Out, mint) = Gain(tx, mint)
  <2> DEFINE none == Amounts({}, mint)
             first == Amounts({dep}, mint)
             second == Amounts({trf}, mint)
             mine == Amounts({own}, mint)
             in == Amounts(In, mint)
             out == Amounts(Out, mint)
             a == tx.amount
             op == tx.op
  <2>1. none = 0 /\ first = NoteWorth(r, "deposit", mint) /\ second = NoteWorth(r, "transfer", mint)
    BY <1>5, Zenon
  <2>2. kind \in ReadsBack => mine = NoteWorth(r, kind, mint)
    BY <1>6, Zenon
  <2>3. in = IF kind \in ReadsBack THEN mine ELSE none
    <3> HIDE DEF kind, In, own
    <3> QED BY <1>3, SMT
  <2>4. out = CASE kind = "transfer" -> first [] kind = "withdraw" -> second [] OTHER -> none
    <3> HIDE DEF kind, Out, dep, trf
    <3> QED BY <1>1, SMT
  <2>5. Gain(tx, mint) =
          IF mint = Sol
          THEN (IF kind = "deposit" THEN a ELSE 0)
                 - (IF kind \in {"transfer", "withdraw"} THEN a ELSE 0)
          ELSE IF kind = "deposit_spl" /\ r = mint THEN a ELSE 0
    <3> HIDE DEF kind
    <3> QED BY <1>1, <1>2, SMT DEF Gain, Part
  <2>6. kind \in Counted => a = CASE kind = "transfer" -> TransferAmount
                                  [] kind = "withdraw" -> WithdrawAmount
                                  [] OTHER             -> DepositAmount
    BY <1>4, Zenon DEF Moves
  <2> HIDE DEF kind, none, first, second, mine, in, out, a, op
  <2>7. in - out = Gain(tx, mint)
    BY <1>2, <1>7, <2>1, <2>2, <2>3, <2>4, <2>5, <2>6, SMT DEF Counted, ReadsBack, NoteWorth
  <2> QED BY <2>7, Zenon DEF in, out
<1> QED BY <1>8, <1>9, Zenon DEF Settled

(***************************************************************************)
(* Somebody else's transaction moves nothing.                              *)
(***************************************************************************)
LEMMA ForeignSettles ==
  ASSUME NEW tx, Foreign(tx)
  PROVE  Settled(tx)
<1>1. tx.op = "create_interface" /\ tx.spends = {} /\ tx.outs = {}
  BY Zenon DEF Foreign
<1>2. Change(tx) = {}
  BY <1>1, SMT DEF Change
<1>3. \A mint : Amounts({}, mint) = 0
  BY AmountOfNone, Zenon
<1>4. \A mint : Gain(tx, mint) = 0
  BY <1>1 DEF Gain, Part
<1> QED BY <1>1, <1>2, <1>3, <1>4, FS_EmptySet, SMT DEF Settled

\* A process that shows a balance shows what it could spend at its slot.
Shown(st, ch) ==
  st.example = "sync_balance" /\ st.phase = "done" =>
    st.slot \in 0 .. Len(ch) /\ st.utxos = decrypt_spendable(Txs(ch, st.slot))

\* With WalletInv inductive: the balances are the ledger at every slot of the chain.
BooksOK ==
  /\ \A tx \in flight : AmountOK(tx)
  /\ \A k \in 0 .. Len(chain) : Balances(Txs(chain, k))
  /\ \A r \in Run : Shown(run[r], chain)

(***************************************************************************)
(* The transactions of a chain with one more, slot by slot.                *)
(***************************************************************************)
LEMMA TxsGrow ==
  ASSUME NEW ch \in Seq(AnyTx), NEW tx \in AnyTx, NEW new, new = Append(ch, tx)
  PROVE  /\ \A k \in 0 .. Len(ch) : k \in 0 .. Len(new) /\ Txs(new, k) = Txs(ch, k)
         /\ Txs(new, Len(new)) = Txs(ch, Len(ch)) \cup {tx}
         /\ \A k \in 0 .. Len(new) : k \in 0 .. Len(ch) \/ k = Len(new)
<1> HIDE DEF AnyTx
<1>1. /\ Len(ch) \in Nat /\ Len(new) = Len(ch) + 1
      /\ new[Len(ch) + 1] = tx /\ \A i \in 1 .. Len(ch) : new[i] = ch[i]
  OBVIOUS
<1>2. \A k \in 0 .. Len(ch) : k \in 0 .. Len(new) /\ \A i \in 1 .. k : i \in 1 .. Len(ch)
  BY <1>1
<1>3. \A k \in 0 .. Len(ch) : Txs(new, k) = Txs(ch, k)
  <2> TAKE k \in 0 .. Len(ch)
  <2>1. \A i \in 1 .. k : new[i] = ch[i]
    BY <1>1, <1>2, Zenon
  <2> QED BY <2>1, Zenon DEF Txs
<1>4. Txs(new, Len(new)) = Txs(ch, Len(ch)) \cup {tx}
  <2>1. \A i : i \in 1 .. Len(new) <=> i \in 1 .. Len(ch) \/ i = Len(ch) + 1
    BY <1>1
  <2>2. \A x : x \in Txs(new, Len(new)) <=> \E i \in 1 .. Len(new) : x = new[i]
    BY Zenon DEF Txs
  <2>3. \A x : x \in Txs(ch, Len(ch)) <=> \E i \in 1 .. Len(ch) : x = ch[i]
    BY Zenon DEF Txs
  <2>4. \A x : (\E i \in 1 .. Len(new) : x = new[i]) <=> (\E i \in 1 .. Len(ch) : x = ch[i]) \/ x = tx
    BY <1>1, <2>1, Zenon
  <2>5. \A x : x \in Txs(new, Len(new)) <=> x \in Txs(ch, Len(ch)) \cup {tx}
    BY <2>2, <2>3, <2>4, Zenon
  <2> QED BY <2>5, SMT
<1>5. \A k \in 0 .. Len(new) : k \in 0 .. Len(ch) \/ k = Len(new)
  BY <1>1
<1> QED BY <1>2, <1>3, <1>4, <1>5, Zenon

(***************************************************************************)
(* A transaction lands: the books have it too.                             *)
(***************************************************************************)
LEMMA BooksGrow ==
  ASSUME WalletInv, BooksOK, NEW tx \in AnyTx, Settled(tx), ~OnChain(chain, tx.sig),
         \A n \in tx.outs : n.sig = tx.sig, \A n \in tx.spends : n.owner = "sender", Accepted(tx),
         chain' = Append(chain, tx), flight' \subseteq flight, UNCHANGED run
  PROVE  BooksOK'
<1>1. chain \in Seq(AnyTx)
  BY Zenon DEF WalletInv, WalletTypes
<1>2. /\ \A k \in 0 .. Len(chain) : k \in 0 .. Len(chain') /\ Txs(chain', k) = Txs(chain, k)
      /\ Txs(chain', Len(chain')) = Txs(chain, Len(chain)) \cup {tx}
      /\ \A k \in 0 .. Len(chain') : k \in 0 .. Len(chain) \/ k = Len(chain')
  BY <1>1, TxsGrow, Zenon
<1> DEFINE T == Txs(chain, Len(chain))
<1>3. DOMAIN chain = 1 .. Len(chain) /\ Len(chain) \in 0 .. Len(chain)
  <2> HIDE DEF AnyTx
  <2> QED BY <1>1
<1>4. Balances(T)
  BY <1>3, Zenon DEF BooksOK
<1>5. \A t \in T : t.sig # tx.sig
  BY <1>3, Zenon DEF Txs, OnChain
<1>6. tx.spends \subseteq decrypt_spendable(T)
  <2>1. Upto(Len(chain)) = T
    BY Zenon DEF Upto, Txs
  <2>2. tx.spends \subseteq NotesAt(Len(chain)) \ SpentAt(Len(chain))
    BY Zenon DEF Accepted
  <2>3. /\ NotesAt(Len(chain)) = UNION {t.outs : t \in T}
        /\ SpentAt(Len(chain)) = UNION {t.spends : t \in T}
    BY <2>1, Zenon DEF NotesAt, SpentAt
  <2> HIDE DEF T
  <2> QED BY <2>2, <2>3, Zenon DEF decrypt_spendable
<1>7. Balances(T \cup {tx})
  <2> HIDE DEF T
  <2> QED BY <1>4, <1>5, <1>6, BalancesStep, Zenon
<1>8. \A k \in 0 .. Len(chain') : Balances(Txs(chain', k))
  <2> TAKE k \in 0 .. Len(chain')
  <2>1. CASE k \in 0 .. Len(chain)
    BY <1>2, <2>1, Zenon DEF BooksOK
  <2>2. CASE k = Len(chain')
    BY <1>2, <1>7, <2>2, Zenon
  <2> QED BY <1>2, <2>1, <2>2, Zenon
<1>9. \A r \in Run : Shown(run[r], chain')
  BY <1>2, Zenon DEF BooksOK, Shown
<1>10. \A t \in flight' : AmountOK(t)
  BY Zenon DEF BooksOK
<1> QED BY <1>8, <1>9, <1>10, Zenon DEF BooksOK

(***************************************************************************)
(* Land: a process's transaction is settled, and spends what is spendable. *)
(***************************************************************************)
LEMMA LandBooks ==
  ASSUME WalletInv, BooksOK, NEW tx \in flight, Land(tx)
  PROVE  BooksOK'
<1>1. flight' \subseteq flight /\ UNCHANGED run
  BY Zenon DEF Land
<1>2. tx \in AnyTx /\ Own(tx, run) /\ ~OnChain(chain, tx.sig) /\ AmountOK(tx)
  BY Zenon DEF WalletInv, WalletTypes, LedgerOK, BooksOK
<1>3. CASE UNCHANGED chain
  BY <1>1, <1>3, Zenon DEF BooksOK
<1>4. CASE Accepted(tx) /\ chain' = Append(chain, tx)
  <2>1. PICK r \in Run, k \in Nat : IsSent(tx, r, run[r], k)
    BY <1>2, Zenon DEF Own
  <2>2. run[r].example \in Example
    <3>1. run[r] \in RunState
      BY ProcessState, Zenon
    <3> QED BY <3>1, Zenon DEF RunState
  <2>3. Settled(tx)
    BY <1>2, <2>1, <2>2, SentSettles, Zenon
  <2>4. \A n \in tx.outs : n.sig = tx.sig
    BY <2>1, Zenon DEF IsSent
  <2>5. \A n \in tx.spends : n.owner = "sender"
    <3>1. \A kind, m : Made(r, kind, m).owner = "sender"
      BY Zenon DEF Made
    <3>2. tx.spends = {} \/ tx.spends = {Made(r, "deposit", 1)} \/ tx.spends = {Made(r, "transfer", 2)}
      <4>1. Effect(tx, r, run[r], k)
        BY <2>1, <2>2, SentTable, Zenon
      <4> QED BY <4>1, Zenon DEF Effect
    <3> QED BY <3>1, <3>2, SMT
  <2> QED BY <1>1, <1>2, <1>4, <2>3, <2>4, <2>5, BooksGrow, Zenon
<1> QED BY <1>3, <1>4, Zenon DEF Land

(***************************************************************************)
(* OtherCreates: the creation moves nothing.                               *)
(***************************************************************************)
LEMMA OtherCreatesBooks ==
  ASSUME WalletInv, BooksOK, NEW r \in Run, OtherCreates(r)
  PROVE  BooksOK'
<1> DEFINE tx == [sig |-> <<r, 0>>, op |-> "create_interface", creates |-> {r},
                  spends |-> {}, outs |-> {}, amount |-> 0]
<1>1. /\ chain' = Append(chain, tx) /\ UNCHANGED <<flight, run>>
      /\ r \notin InterfacesAt(Len(chain))
  BY Zenon DEF OtherCreates
<1>2. /\ tx.sig = <<r, 0>> /\ tx.op = "create_interface" /\ tx.creates = {r}
      /\ tx.spends = {} /\ tx.outs = {}
  BY Zenon
<1>3. tx \in AnyTx
  <2>1. <<r, 0>> \in Run \X Nat /\ {r} \in SUBSET Run /\ {} \in SUBSET AnyNote /\ 0 \in Nat
        /\ "create_interface" \in Operation
    BY DEF Operation
  <2> QED BY <2>1, Zenon DEF AnyTx
<1> HIDE DEF tx
<1>4. Settled(tx)
  <2>1. Foreign(tx)
    BY <1>2, Zenon DEF Foreign
  <2> QED BY <2>1, ForeignSettles, Zenon
<1>5. ~OnChain(chain, tx.sig)
  BY <1>1, <1>2, FreshCreation, Zenon
<1>6. Accepted(tx)
  <2>1. tx.creates \cap InterfacesAt(Len(chain)) = {}
    BY <1>1, <1>2, Zenon
  <2>2. tx.spends \subseteq NotesAt(Len(chain)) \ SpentAt(Len(chain))
    BY <1>2, Zenon
  <2> QED BY <1>2, <2>1, <2>2, Zenon DEF Accepted
<1>7. flight' \subseteq flight /\ UNCHANGED run
  BY <1>1, Zenon
<1> QED BY <1>1, <1>2, <1>3, <1>4, <1>5, <1>6, <1>7, BooksGrow, Zenon

(***************************************************************************)
(* A process moves on, and shows what it could spend if it shows a         *)
(* balance.                                                                *)
(***************************************************************************)
LEMMA BooksProcess ==
  ASSUME WalletInv, BooksOK, NEW r \in Run, NEW st, Shown(st, chain),
         run' = [run EXCEPT ![r] = st], UNCHANGED chain, \A tx \in flight' : AmountOK(tx)
  PROVE  BooksOK'
<1>1. run \in [Run -> RunState]
  BY Zenon DEF WalletInv, WalletTypes
<1>2. \A q \in Run : run'[q] = IF q = r THEN st ELSE run[q]
  BY <1>1, Zenon
<1>3. \A q \in Run : Shown(run'[q], chain)
  BY <1>2, Zenon DEF BooksOK
<1> QED BY <1>3, Zenon DEF BooksOK

(***************************************************************************)
(* A process that advances runs the same example.                          *)
(***************************************************************************)
LEMMA AdvancedExample ==
  ASSUME NEW st \in RunState
  PROVE  Advanced(st).example = st.example
BY Zenon DEF Advanced, RunState

(***************************************************************************)
(* A process that shows a balance neither sends nor waits.                 *)
(***************************************************************************)
LEMMA SyncPhases ==
  ASSUME WalletInv, NEW r \in Run, run[r].example = "sync_balance"
  PROVE  run[r].phase \in {"registry", "scan", "done", "failed"}
<1> DEFINE st == run[r]
<1>1. st \in RunState /\ PhaseOK(st)
      /\ (st.phase # "done" => InTable(st.example, st.step, Len(Steps[st.example]), StepOf(st)))
  BY ProcessState, Zenon
<1>2. st.example = "sync_balance" /\ st.phase \in Phase
  BY <1>1, Zenon DEF RunState
<1> HIDE DEF st
<1>3. st.phase # "done" => StepOf(st) = "sync"
  BY <1>1, <1>2, SMT DEF InTable
<1>4. st.phase \in {"registry", "scan", "done", "failed"}
  BY <1>1, <1>2, <1>3, SMT DEF PhaseOK, Phase, ReadsBack
<1> QED BY <1>4, Zenon DEF st

(***************************************************************************)
(* A process sends the amount of the step it is at.                        *)
(***************************************************************************)
LEMMA BuiltAmount ==
  ASSUME WalletInv, NEW r \in Run
  PROVE  AmountOK(Built(r))
<1> DEFINE kind == StepOf(run[r])
<1>1. \A creates, spends, outs, amount :
        /\ Tx(r, creates, spends, outs, amount).op = kind
        /\ Tx(r, creates, spends, outs, amount).amount = amount
  BY Zenon DEF Tx
<1>2. CASE kind = "deposit"
  <2>1. Built(r) = Deposit(r)
    BY <1>2 DEF Built
  <2>2. \E creates, spends, outs : Deposit(r) = Tx(r, creates, spends, outs, DepositAmount)
    BY Zenon DEF Deposit
  <2>3. Built(r).op = kind /\ Built(r).amount = DepositAmount
    BY <1>1, <2>1, <2>2, SMT
  <2> QED BY <1>2, <2>3 DEF AmountOK, Moves
<1>3. CASE kind = "transfer"
  <2>1. Built(r) = Transfer(r)
    BY <1>3 DEF Built
  <2>2. \E creates, spends, outs : Transfer(r) = Tx(r, creates, spends, outs, TransferAmount)
    BY Zenon DEF Transfer
  <2>3. Built(r).op = kind /\ Built(r).amount = TransferAmount
    BY <1>1, <2>1, <2>2, SMT
  <2> QED BY <1>3, <2>3 DEF AmountOK, Moves
<1>4. CASE kind = "withdraw"
  <2>1. Built(r) = Withdraw(r)
    BY <1>4 DEF Built
  <2>2. \E creates, spends, outs : Withdraw(r) = Tx(r, creates, spends, outs, WithdrawAmount)
    BY Zenon DEF Withdraw
  <2>3. Built(r).op = kind /\ Built(r).amount = WithdrawAmount
    BY <1>1, <2>1, <2>2, SMT
  <2> QED BY <1>4, <2>3 DEF AmountOK, Moves
<1>5. CASE kind = "deposit_spl"
  <2>1. Built(r) = DepositSpl(r)
    BY <1>5 DEF Built
  <2>2. \E creates, spends, outs : DepositSpl(r) = Tx(r, creates, spends, outs, DepositAmount)
    BY Zenon DEF DepositSpl
  <2>3. Built(r).op = kind /\ Built(r).amount = DepositAmount
    BY <1>1, <2>1, <2>2, SMT
  <2> QED BY <1>5, <2>3 DEF AmountOK, Moves
<1>6. CASE kind \notin Counted
  <2>1. Built(r) = setup_test_token(r) \/ Built(r) = RegisterWallet(r)
    <3> HIDE DEF kind
    <3>1. kind # "deposit" /\ kind # "transfer" /\ kind # "withdraw" /\ kind # "deposit_spl"
      BY <1>6 DEF Counted
    <3> QED BY <3>1, SMT DEF Built, kind
  <2>2. \E outs, amount : setup_test_token(r) = Tx(r, {}, {}, outs, amount)
    BY Zenon DEF setup_test_token
  <2>3. \E outs, amount : RegisterWallet(r) = Tx(r, {}, {}, outs, amount)
    BY Zenon DEF RegisterWallet
  <2>4. Built(r).op = kind
    BY <1>1, <2>1, <2>2, <2>3, SMT
  <2> QED BY <1>6, <2>4, Zenon DEF AmountOK
<1> QED BY <1>2, <1>3, <1>4, <1>5, <1>6 DEF Counted

(***************************************************************************)
(* Scan: what it shows is what is spendable as of the slot it shows.       *)
(***************************************************************************)
LEMMA ScanBooks ==
  ASSUME WalletInv, BooksOK, NEW r \in Run, Scan(r)
  PROVE  BooksOK'
<1> DEFINE got == decrypt_spendable(Upto(indexed))
           old == run[r]
           mid == [old EXCEPT !.utxos = got, !.slot = indexed]
           lost == [Failed(r, "unknown mint") EXCEPT !.utxos = got, !.slot = indexed]
           st == IF {n.mint : n \in got} \subseteq old.assets THEN Advanced(mid) ELSE lost
<1>1. run' = [run EXCEPT ![r] = st] /\ UNCHANGED <<chain, flight>>
  BY Zenon DEF Scan, Becomes
<1>2. old \in RunState /\ chain \in Seq(AnyTx) /\ indexed \in 0 .. Len(chain)
  BY ProcessState, Zenon DEF WalletInv, WalletTypes
<1>3. got = decrypt_spendable(Txs(chain, indexed))
  BY Zenon DEF Upto, Txs
<1>4. lost.phase = "failed"
  BY <1>2, Zenon DEF Failed, RunState
<1>5. Advanced(mid).slot = indexed /\ Advanced(mid).utxos = got
  <2> HIDE DEF got
  <2> QED BY <1>2, Zenon DEF Advanced, RunState
<1> HIDE DEF mid, lost, got
<1>6. Shown(st, chain)
  <2>1. CASE st = Advanced(mid)
    BY <1>2, <1>3, <1>5, <2>1, Zenon DEF Shown
  <2>2. CASE st = lost
    <3>1. "failed" # "done"
      OBVIOUS
    <3> QED BY <1>4, <2>2, <3>1, Zenon DEF Shown
  <2> QED BY <2>1, <2>2, Zenon
<1> HIDE DEF st
<1>7. \A tx \in flight' : AmountOK(tx)
  BY <1>1, Zenon DEF BooksOK
<1> QED BY <1>1, <1>6, <1>7, BooksProcess, Zenon

(***************************************************************************)
(* A process that shows no balance goes on: the books are as they were.    *)
(***************************************************************************)
LEMMA QuietBooks ==
  ASSUME WalletInv, BooksOK, NEW r \in Run, NEW st,
         \/ st.phase # "done"
         \/ run[r].example # "sync_balance" /\ st.example = run[r].example,
         Becomes(r, st), UNCHANGED chain, \A tx \in flight' : AmountOK(tx)
  PROVE  BooksOK'
<1>1. Shown(st, chain)
  BY Zenon DEF Shown
<1>2. run' = [run EXCEPT ![r] = st]
  BY Zenon DEF Becomes
<1> QED BY <1>1, <1>2, BooksProcess, Zenon

(***************************************************************************)
(* The steps of a process other than the scan.                             *)
(***************************************************************************)
LEMMA StepBooks ==
  ASSUME WalletInv, BooksOK, NEW r \in Run, RunStep(r), ~Scan(r)
  PROVE  BooksOK'
<1> DEFINE old == run[r]
<1>1. old \in RunState
  BY ProcessState, Zenon
<1>2. \A tx \in flight : AmountOK(tx)
  BY Zenon DEF BooksOK
<1>3. old.example = "sync_balance" => old.phase \in {"registry", "scan", "done", "failed"}
  BY SyncPhases, Zenon
<1>4. \A why : Failed(r, why).phase = "failed"
  BY <1>1, Zenon DEF Failed, RunState
<1>5. "failed" # "done" /\ "build" # "done" /\ "sent" # "done" /\ "confirmed" # "done"
      /\ "located" # "done" /\ "registered" # "done" /\ "scan" # "done"
  OBVIOUS
<1>6. old.phase \in {"sent", "registered", "located"} => old.example # "sync_balance"
  <2> HIDE DEF old
  <2> QED BY <1>3
<1>7. Advanced(old).example = old.example
  BY <1>1, AdvancedExample, Zenon
<1>8. CASE CheckInterface(r)
  <2>1. PICK s \in RpcView : Becomes(r, [old EXCEPT !.found = r \in InterfacesAt(s), !.phase = "build"])
    BY <1>8, Zenon DEF CheckInterface
  <2>2. [old EXCEPT !.found = r \in InterfacesAt(s), !.phase = "build"].phase # "done"
    BY <1>1, <1>5, Zenon DEF RunState
  <2>3. UNCHANGED <<chain, flight>>
    BY <1>8, Zenon DEF CheckInterface
  <2> QED BY <1>2, <2>1, <2>2, <2>3, QuietBooks, Zenon
<1>9. CASE Send(r)
  <2>1. Becomes(r, [old EXCEPT !.phase = "sent"]) /\ flight' = flight \cup {Built(r)} /\ UNCHANGED chain
    BY <1>9, Zenon DEF Send
  <2>2. [old EXCEPT !.phase = "sent"].phase # "done"
    BY <1>1, <1>5, Zenon DEF RunState
  <2>3. AmountOK(Built(r))
    BY BuiltAmount, Zenon
  <2>4. \A tx \in flight' : AmountOK(tx)
    BY <1>2, <2>1, <2>3, SMT
  <2> QED BY <2>1, <2>2, <2>4, QuietBooks, Zenon
<1>10. CASE Confirm(r)
  <2>1. old.phase = "sent" /\ UNCHANGED <<chain, flight>>
    BY <1>10, Zenon DEF Confirm
  <2>2. PICK slot \in SlotOf(Signature(r)) :
          \/ Becomes(r, [old EXCEPT !.phase = "confirmed"])
          \/ Becomes(r, [old EXCEPT !.phase = "located", !.slot = slot])
          \/ Becomes(r, [old EXCEPT !.phase = "registered", !.slot = slot])
          \/ Becomes(r, Advanced(old))
    BY <1>10, Zenon DEF Confirm
  <2>3. /\ [old EXCEPT !.phase = "confirmed"].phase # "done"
        /\ [old EXCEPT !.phase = "located", !.slot = slot].phase # "done"
        /\ [old EXCEPT !.phase = "registered", !.slot = slot].phase # "done"
    BY <1>1, <1>5, Zenon DEF RunState
  <2>4. old.example # "sync_balance"
    BY <1>6, <2>1, SMT
  <2> QED BY <1>2, <1>7, <2>1, <2>2, <2>3, <2>4, QuietBooks, Zenon
<1>11. CASE ConfirmFails(r)
  <2>1. \E why : Becomes(r, Failed(r, why))
    BY <1>11, Zenon DEF ConfirmFails
  <2>2. UNCHANGED <<chain, flight>>
    BY <1>11, Zenon DEF ConfirmFails
  <2> QED BY <1>2, <1>4, <1>5, <2>1, <2>2, QuietBooks, Zenon
<1>12. CASE landed_slot(r)
  <2>1. PICK s \in RpcView, slot \in SlotOf(Signature(r)) :
          \/ Becomes(r, [old EXCEPT !.phase = "located", !.slot = slot])
          \/ Becomes(r, Failed(r, "status missing"))
    BY <1>12, Zenon DEF landed_slot
  <2>2. [old EXCEPT !.phase = "located", !.slot = slot].phase # "done"
    BY <1>1, <1>5, Zenon DEF RunState
  <2>3. UNCHANGED <<chain, flight>>
    BY <1>12, Zenon DEF landed_slot
  <2> QED BY <1>2, <1>4, <1>5, <2>1, <2>2, <2>3, QuietBooks, Zenon
<1>13. CASE CheckRegistered(r)
  <2>1. Becomes(r, Advanced(old)) \/ Becomes(r, Failed(r, "not registered"))
    BY <1>13, Zenon DEF CheckRegistered
  <2>2. old.phase = "registered" /\ UNCHANGED <<chain, flight>>
    BY <1>13, Zenon DEF CheckRegistered
  <2>3. old.example # "sync_balance"
    BY <1>6, <2>2, SMT
  <2> QED BY <1>2, <1>4, <1>5, <1>7, <2>1, <2>2, <2>3, QuietBooks, Zenon
<1>14. CASE LookupRegistry(r)
  <2>1. \/ Becomes(r, [old EXCEPT !.assets = @ \cup {r}])
        \/ Becomes(r, Failed(r, "registry missing"))
    BY <1>14, Zenon DEF LookupRegistry
  <2>2. old.phase = "located" /\ UNCHANGED <<chain, flight>>
    BY <1>14, Zenon DEF LookupRegistry
  <2>3. [old EXCEPT !.assets = @ \cup {r}].phase # "done"
    BY <1>1, <1>5, <2>2, Zenon DEF RunState
  <2> QED BY <1>2, <1>4, <1>5, <2>1, <2>2, <2>3, QuietBooks, Zenon
<1>15. CASE ReadBack(r)
  <2>1. PICK got : \/ Becomes(r, Advanced([old EXCEPT !.utxos = got]))
                   \/ Becomes(r, Failed(r, "assertion"))
    BY <1>15, Zenon DEF ReadBack
  <2>2. old.phase = "located" /\ UNCHANGED <<chain, flight>>
    BY <1>15, Zenon DEF ReadBack
  <2>3. old.example # "sync_balance"
    BY <1>6, <2>2, SMT
  <2>4. Advanced([old EXCEPT !.utxos = got]).example = old.example
    BY <1>1, Zenon DEF Advanced, RunState
  <2> QED BY <1>2, <1>4, <1>5, <2>1, <2>2, <2>3, <2>4, QuietBooks, Zenon
<1>16. CASE LoadRegistry(r)
  <2>1. PICK s \in RpcView : Becomes(r, [old EXCEPT !.assets = asset_registry(s), !.slot = s, !.phase = "scan"])
    BY <1>16, Zenon DEF LoadRegistry
  <2>2. [old EXCEPT !.assets = asset_registry(s), !.slot = s, !.phase = "scan"].phase # "done"
    BY <1>1, <1>5, Zenon DEF RunState
  <2>3. UNCHANGED <<chain, flight>>
    BY <1>16, Zenon DEF LoadRegistry
  <2> QED BY <1>2, <2>1, <2>2, <2>3, QuietBooks, Zenon
<1> QED BY <1>8, <1>9, <1>10, <1>11, <1>12, <1>13, <1>14, <1>15, <1>16, Zenon DEF RunStep

(***************************************************************************)
(* A process whose request failed shows nothing.                           *)
(***************************************************************************)
LEMMA RequestFailsBooks ==
  ASSUME WalletInv, BooksOK, NEW r \in Run, RequestFails(r)
  PROVE  BooksOK'
<1>1. run[r] \in RunState
  BY ProcessState, Zenon
<1>2. Becomes(r, Failed(r, "request")) /\ UNCHANGED <<chain, flight>>
  BY Zenon DEF RequestFails
<1>3. Failed(r, "request").phase = "failed" /\ "failed" # "done"
  BY <1>1, Zenon DEF Failed, RunState
<1>4. \A tx \in flight' : AmountOK(tx)
  BY <1>2, Zenon DEF BooksOK
<1> QED BY <1>2, <1>3, <1>4, QuietBooks, Zenon

(***************************************************************************)
(* Nothing has landed: there is nothing to show.                           *)
(***************************************************************************)
LEMMA InitBooks == Init => BooksOK
<1> SUFFICES ASSUME Init PROVE BooksOK
  OBVIOUS
<1>1. chain = <<>> /\ flight = {}
  BY Zenon DEF Init
<1>2. PICK s \in Scenario : run = [r \in Run |-> Start(s[r])]
  BY Zenon DEF Init
<1>3. Balances({})
  <2>1. decrypt_spendable({}) = {} /\ IsFiniteSet({}) /\ {} \in SUBSET AnyTx
    BY FS_EmptySet, SMT DEF decrypt_spendable
  <2>2. \A ops, by : Moved({}, ops, by) = 0
    BY <2>1, MovedSum, SumEmpty, Zenon
  <2>3. \A mint : Ledger({}, mint) = 0
    BY <2>2 DEF Ledger
  <2>4. \A mint : Amounts({}, mint) = 0
    BY AmountOfNone, Zenon
  <2> QED BY <2>1, <2>3, <2>4, SMT DEF Balances
<1>4. \A k \in 0 .. Len(chain) : Balances(Txs(chain, k))
  <2>1. \A k \in 0 .. Len(chain) : k = 0
    BY <1>1
  <2>2. Txs(chain, 0) = {}
    BY SMT DEF Txs
  <2> QED BY <1>3, <2>1, <2>2, Zenon
<1>5. \A r \in Run : Shown(run[r], chain)
  <2> TAKE r \in Run
  <2>1. run[r] = Start(s[r])
    BY <1>2, Zenon
  <2> DEFINE e == s[r].example
  <2>2. run[r].example = e
        /\ run[r].phase = IF e = "idle" THEN "done" ELSE FirstPhase(Steps[e][1])
    <3> DEFINE phase == IF e = "idle" THEN "done" ELSE FirstPhase(Steps[e][1])
               c == s[r].client
    <3>1. Start(s[r]) = [example |-> e, client |-> c, step |-> 1, phase |-> phase, slot |-> 0,
                         utxos |-> {}, assets |-> {Sol}, found |-> FALSE, error |-> "none"]
      BY Zenon DEF Start
    <3> HIDE DEF e, c, phase
    <3>2. run[r].example = e /\ run[r].phase = phase
      BY <2>1, <3>1
    <3> QED BY <3>2, Zenon DEF phase
  <2> HIDE DEF e
  <2>3. e = "sync_balance" => Steps[e][1] = "sync"
    BY DEF Steps
  <2>4. \A step : step = "sync" => FirstPhase(step) # "done"
    BY SMT DEF FirstPhase
  <2>5. e = "sync_balance" => e # "idle"
    OBVIOUS
  <2>6. run[r].example = "sync_balance" => run[r].phase # "done"
    BY <2>2, <2>3, <2>4, <2>5, Zenon
  <2> QED BY <2>6, Zenon DEF Shown
<1> QED BY <1>1, <1>4, <1>5, Zenon DEF BooksOK

(***************************************************************************)
(* Every step keeps the books.                                             *)
(***************************************************************************)
LEMMA NextBooks == WalletInv /\ BooksOK /\ [Next]_vars => BooksOK'
<1> SUFFICES ASSUME WalletInv, BooksOK, [Next]_vars PROVE BooksOK'
  OBVIOUS
<1>1. ASSUME NEW r \in Run, RunStep(r) PROVE BooksOK'
  BY <1>1, ScanBooks, StepBooks, Zenon
<1>2. ASSUME NEW r \in Run, RequestFails(r) \/ OtherCreates(r) PROVE BooksOK'
  BY <1>2, RequestFailsBooks, OtherCreatesBooks, Zenon
<1>3. ASSUME NEW tx \in flight, Land(tx) PROVE BooksOK'
  BY <1>3, LandBooks, Zenon
<1>4. ASSUME NEW tx \in flight, Expire(tx) PROVE BooksOK'
  BY <1>4, Zenon DEF Expire, BooksOK
<1>5. CASE Index
  BY <1>5, Zenon DEF Index, BooksOK
<1>6. CASE UNCHANGED vars
  BY <1>6, Zenon DEF vars, BooksOK
<1> QED BY <1>1, <1>2, <1>3, <1>4, <1>5, <1>6, Zenon DEF Next

(***************************************************************************)
(* A balance that sync_balance shows of a mint is what landed up to the    *)
(* slot the indexer had reached: the deposits, less the transfers and      *)
(* withdrawals, of every process in any number and any scenario, those     *)
(* included whose process gave up waiting.                                 *)
(***************************************************************************)
THEOREM BalancesAreTheLedger == Spec => []SyncShowsTheLedger
<1>1. WalletInv /\ BooksOK => SyncShowsTheLedger
  <2> SUFFICES ASSUME BooksOK, NEW r \in Run, run[r].example = "sync_balance",
                      run[r].phase = "done", NEW mint \in Run \cup {Sol}
               PROVE  Amounts(run[r].utxos, mint) = Ledger(Upto(run[r].slot), mint)
    BY Zenon DEF SyncShowsTheLedger
  <2>1. /\ run[r].slot \in 0 .. Len(chain)
        /\ run[r].utxos = decrypt_spendable(Txs(chain, run[r].slot))
    BY Zenon DEF BooksOK, Shown
  <2>2. Balances(Txs(chain, run[r].slot))
    BY <2>1, Zenon DEF BooksOK
  <2>3. Upto(run[r].slot) = Txs(chain, run[r].slot)
    BY Zenon DEF Upto, Txs
  <2> QED BY <2>1, <2>2, <2>3, Zenon DEF Balances
<1>2. Spec => []BooksOK
  BY InitBooks, NextBooks, WalletInvariant, PTL DEF Spec
<1> QED BY <1>1, <1>2, WalletInvariant, PTL
=============================================================================
