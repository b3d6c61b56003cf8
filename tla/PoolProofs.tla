----------------------------- MODULE PoolProofs -----------------------------
(***************************************************************************)
(* Facts about ShieldedPool that the proofs about both programs rest on:   *)
(* what a landed transact does to the tree and to the nullifiers, and what *)
(* is enough for it to be accepted.                                        *)
(***************************************************************************)
EXTENDS ShieldedPool, Sums

\* What every leaf spent by one transact is recorded with.
TheReceipt(ix, first, signers) ==
  [ix |-> ix, at |-> now, first |-> first, out |-> Len(leaves) + 1, signers |-> signers]

\* The effect of a transact that spends the set of leaves spends.
Landed(ix, spends, first, outs, signers) ==
  /\ spends \subseteq Unspent
  /\ first \in spends
  /\ leaves' = leaves \o outs
  /\ now' = now
  /\ DOMAIN nullifiers' = DOMAIN nullifiers \cup spends
  /\ \A k \in DOMAIN nullifiers : nullifiers'[k] = nullifiers[k]
  /\ \A k \in spends : nullifiers'[k] = TheReceipt(ix, first, signers)

\* A transact with one input spends that leaf and nothing else, and that
\* leaf's owner is the owner of whatever output carries data.
LEMMA TransactOneInput ==
  ASSUME NEW ix, NEW i, NEW outs, NEW signers, NEW expiry,
         Transact(ix, <<i>>, outs, signers, expiry)
  PROVE  /\ Landed(ix, {i}, i, outs, signers)
         /\ leaves[i].owner \in signers
         /\ \A n \in ToSet(outs) : n.data # NoData => leaves[i].owner = n.owner
         /\ now <= expiry
  <1>1. ToSet(<<i>>) = {i}
    BY DEF ToSet
  <1>2. <<i>>[1] = i
    OBVIOUS
  <1> QED
    BY <1>1, <1>2 DEF Transact, Accepts, Unspent, Landed, TheReceipt

\* A transact with two inputs spends those two leaves and nothing else.
LEMMA TransactTwoInputs ==
  ASSUME NEW ix, NEW i, NEW j, NEW outs, NEW signers, NEW expiry,
         Transact(ix, <<i, j>>, outs, signers, expiry)
  PROVE  /\ Landed(ix, {i, j}, i, outs, signers)
         /\ i # j
         /\ leaves[i].owner \in signers
         /\ leaves[j].owner \in signers
         /\ now <= expiry
  <1>1. ToSet(<<i, j>>) = {i, j}
    BY DEF ToSet
  <1>2. <<i, j>>[1] = i /\ <<i, j>>[2] = j /\ DOMAIN <<i, j>> = {1, 2}
    OBVIOUS
  <1>3. i # j
    BY <1>2 DEF Transact, Accepts, IsInjective
  <1> QED
    BY <1>1, <1>2, <1>3 DEF Transact, Accepts, Unspent, Landed, TheReceipt

\* Appending notes keeps every leaf and puts the first new one at Len + 1.
LEMMA Appended ==
  ASSUME NEW s \in Seq(Note), NEW outs \in Seq(Note)
  PROVE  /\ s \o outs \in Seq(Note)
         /\ Len(s \o outs) = Len(s) + Len(outs)
         /\ DOMAIN s \subseteq DOMAIN (s \o outs)
         /\ \A k \in DOMAIN s : (s \o outs)[k] = s[k]
         /\ \A k \in DOMAIN outs : /\ Len(s) + k \in DOMAIN (s \o outs)
                                   /\ (s \o outs)[Len(s) + k] = outs[k]
         /\ \A k \in DOMAIN (s \o outs) :
              k \in DOMAIN s \/ \E j \in DOMAIN outs : k = Len(s) + j
  <1>1. \A k \in DOMAIN (s \o outs) :
          k \in DOMAIN s \/ (k - Len(s) \in DOMAIN outs /\ k = Len(s) + (k - Len(s)))
    OBVIOUS
  <1> QED
    BY <1>1

\* The leaves and the receipts that exist stay as they are, and the leaves
\* that are added are outs.
Kept(outs) ==
  /\ leaves' \in Seq(Note)
  /\ DOMAIN leaves \subseteq DOMAIN leaves'
  /\ \A k \in DOMAIN leaves : leaves'[k] = leaves[k]
  /\ DOMAIN nullifiers' \subseteq DOMAIN leaves
  /\ DOMAIN nullifiers \subseteq DOMAIN nullifiers'
  /\ \A k \in DOMAIN nullifiers : nullifiers'[k] = nullifiers[k]
  /\ \A k \in DOMAIN outs : /\ Len(leaves) + k \in DOMAIN leaves'
                            /\ leaves'[Len(leaves) + k] = outs[k]
  /\ \A k \in DOMAIN leaves' :
       k \in DOMAIN leaves \/ \E j \in DOMAIN outs : k = Len(leaves) + j

\* A transact keeps what exists.
LEMMA LandedKeeps ==
  ASSUME PoolTypeOK,
         NEW ix, NEW spends, NEW first, NEW outs \in Seq(Note), NEW signers,
         Landed(ix, spends, first, outs, signers)
  PROVE  Kept(outs)
  <1>1. leaves \in Seq(Note) /\ DOMAIN nullifiers \subseteq DOMAIN leaves
    BY DEF PoolTypeOK
  <1>2. leaves' = leaves \o outs
    BY DEF Landed
  <1>3. /\ leaves' \in Seq(Note)
        /\ DOMAIN leaves \subseteq DOMAIN leaves'
        /\ \A k \in DOMAIN leaves : leaves'[k] = leaves[k]
        /\ \A k \in DOMAIN outs : /\ Len(leaves) + k \in DOMAIN leaves'
                                  /\ leaves'[Len(leaves) + k] = outs[k]
        /\ \A k \in DOMAIN leaves' :
             k \in DOMAIN leaves \/ \E j \in DOMAIN outs : k = Len(leaves) + j
    BY <1>1, <1>2, Appended
  <1> QED
    BY <1>1, <1>3 DEF Landed, Unspent, Kept

\* A transact of well-typed outputs keeps the pool well typed.
LEMMA LandedType ==
  ASSUME PoolTypeOK,
         NEW ix \in Instruction, NEW spends, NEW first, NEW outs \in Seq(Note),
         NEW signers \in SUBSET Owner,
         Landed(ix, spends, first, outs, signers)
  PROVE  PoolTypeOK'
  <1>1. /\ leaves' \in Seq(Note)
        /\ DOMAIN leaves \subseteq DOMAIN leaves'
        /\ DOMAIN nullifiers' \subseteq DOMAIN leaves
    BY LandedKeeps DEF Kept
  <1>2. TheReceipt(ix, first, signers) \in Receipt
    BY DEF PoolTypeOK, Receipt, TheReceipt, Landed, Unspent
  <1>3. \A k \in DOMAIN nullifiers' : nullifiers'[k] \in Receipt
    BY <1>2 DEF Landed, PoolTypeOK
  <1>4. now' \in Int /\ now' <= MaxTime
    BY DEF Landed, PoolTypeOK
  <1> QED
    BY <1>1, <1>3, <1>4 DEF PoolTypeOK

\* The pool starts well typed.
LEMMA PoolInitType == PoolInit => PoolTypeOK
  <1>1. Genesis \in Seq(Note)
    BY PoolAssumption
  <1> QED
    BY <1>1, PoolAssumption DEF PoolInit, PoolTypeOK

\* What a wallet can send is a note.
LEMMA TransferOutputsAreNotes ==
  ASSUME PoolTypeOK, NEW p \in Party, NEW i \in Unspent
  PROVE  TransferOutputs(p, i) \subseteq Note
  <1>1. Chosen(p) \in Blinding /\ NoCiphertext \in Ciphertext
    BY DEF Chosen, Blinding, Ciphertext
  <1>2. leaves[i] \in Note
    BY DEF PoolTypeOK, Unspent
  <1> QED
    BY <1>1, <1>2 DEF TransferOutputs, Note

\* The clock does not touch the pool.
LEMMA TickType == PoolTypeOK /\ Tick => PoolTypeOK'
  BY BoundsAssumption DEF Tick, PoolTypeOK

-----------------------------------------------------------------------------
\* What note n adds to the total of asset a.
Part(n, a) == IF n.asset = a THEN n.amount ELSE 0

LEMMA PartType ==
  ASSUME NEW n \in Note, NEW a
  PROVE  Part(n, a) \in Int
  BY BoundsAssumption DEF Part, Note, Amount

\* The totals of one note and of two.
LEMMA TotalOfOne ==
  ASSUME NEW notes, DOMAIN notes = {1}, notes[1] \in Note, NEW a
  PROVE  Total(notes, a) = Part(notes[1], a)
  <1> DEFINE f == [k \in DOMAIN notes |-> IF notes[k].asset = a THEN notes[k].amount ELSE 0]
  <1>1. DOMAIN f = {1} /\ f[1] = Part(notes[1], a)
    BY DEF Part
  <1>2. f[1] \in Int
    BY <1>1, PartType
  <1>3. Total(notes, a) = SumFunction(f)
    BY DEF Total
  <1> HIDE DEF f
  <1>4. SumFunctionOnSet(f, {1}) = f[1]
    BY <1>2, SumOne
  <1> QED
    BY <1>1, <1>3, <1>4 DEF SumFunction

LEMMA TotalOfTwo ==
  ASSUME NEW notes, DOMAIN notes = {1, 2}, notes[1] \in Note, notes[2] \in Note, NEW a
  PROVE  Total(notes, a) = Part(notes[1], a) + Part(notes[2], a)
  <1> DEFINE f == [k \in DOMAIN notes |-> IF notes[k].asset = a THEN notes[k].amount ELSE 0]
  <1>1. DOMAIN f = {1, 2} /\ f[1] = Part(notes[1], a) /\ f[2] = Part(notes[2], a)
    BY DEF Part
  <1>2. f[1] \in Int /\ f[2] \in Int
    BY <1>1, PartType
  <1>3. Total(notes, a) = SumFunction(f)
    BY DEF Total
  <1> HIDE DEF f
  <1>4. SumFunctionOnSet(f, {1, 2}) = f[1] + f[2]
    <2>1. 1 # 2
      OBVIOUS
    <2> QED
      BY <1>2, <2>1, SumTwo, Zenon
  <1> QED
    BY <1>1, <1>3, <1>4 DEF SumFunction

\* One note that pays for two of one asset, not both empty, is of that asset
\* and holds what they hold.
LEMMA Conserved ==
  ASSUME PoolTypeOK, NEW ix, NEW i, NEW m \in Note, NEW n \in Note, NEW signers, NEW expiry,
         Transact(ix, <<i>>, <<m, n>>, signers, expiry),
         m.asset = n.asset, n.amount # 0
  PROVE  leaves[i].asset = n.asset /\ leaves[i].amount = m.amount + n.amount
  <1> DEFINE received == [k \in DOMAIN <<i>> |-> leaves[<<i>>[k]]]
  <1>1. ToSet(<<i>>) = {i}
    BY DEF ToSet
  <1>2. leaves[i] \in Note
    BY <1>1 DEF Transact, Accepts, Unspent, PoolTypeOK
  <1>3. DOMAIN received = {1} /\ received[1] = leaves[i]
    OBVIOUS
  <1>4. n.asset \in Asset /\ m.amount \in Nat /\ n.amount \in Nat /\ leaves[i].amount \in Nat
    BY <1>2, BoundsAssumption DEF Note, Amount
  <1>5. Total(received, n.asset) = Total(<<m, n>>, n.asset)
    BY <1>4, Zenon DEF Transact, Accepts
  <1> HIDE DEF received
  <1>6. Total(received, n.asset) = Part(leaves[i], n.asset)
    BY <1>2, <1>3, TotalOfOne
  <1>7. Total(<<m, n>>, n.asset) = Part(m, n.asset) + Part(n, n.asset)
    <2>1. DOMAIN <<m, n>> = {1, 2} /\ <<m, n>>[1] = m /\ <<m, n>>[2] = n
      OBVIOUS
    <2> QED
      BY <2>1, TotalOfTwo
  <1> QED
    BY <1>4, <1>5, <1>6, <1>7 DEF Part

(***************************************************************************)
(* What is enough for a transact to be accepted: unspent inputs whose      *)
(* owners sign, a deadline that has not passed, no data on the outputs but *)
(* the inputs' owner's, and amounts that add up.                           *)
(***************************************************************************)
\* Sequences of one element and of two.
LEMMA OneElement ==
  ASSUME NEW x
  PROVE  ToSet(<<x>>) = {x} /\ IsInjective(<<x>>)
  <1>1. DOMAIN <<x>> = {1} /\ <<x>>[1] = x
    OBVIOUS
  <1> QED
    BY <1>1, Zenon DEF ToSet, IsInjective

LEMMA TwoElements ==
  ASSUME NEW x, NEW y
  PROVE  ToSet(<<x, y>>) = {x, y} /\ (x # y => IsInjective(<<x, y>>))
  <1>1. DOMAIN <<x, y>> = {1, 2} /\ <<x, y>>[1] = x /\ <<x, y>>[2] = y
    OBVIOUS
  <1>2. ToSet(<<x, y>>) = {x, y}
    BY <1>1 DEF ToSet
  <1>3. x # y => IsInjective(<<x, y>>)
    BY <1>1 DEF IsInjective
  <1> QED
    BY <1>2, <1>3

\* One note becomes one plain note of its value.
LEMMA AcceptsOneForOne ==
  ASSUME PoolTypeOK, NEW i \in Unspent, NEW n \in Note, NEW signers, NEW expiry,
         now <= expiry, leaves[i].owner \in signers,
         n.data = NoData, n.asset = leaves[i].asset, n.amount = leaves[i].amount
  PROVE  Accepts(<<i>>, <<n>>, signers, expiry)
  <1> DEFINE received == [k \in DOMAIN <<i>> |-> leaves[<<i>>[k]]]
             outs     == <<n>>
  <1>1. ToSet(<<i>>) = {i} /\ ToSet(<<n>>) = {n} /\ IsInjective(<<i>>)
    BY OneElement
  <1>2. leaves[i] \in Note
    BY DEF Unspent, PoolTypeOK
  <1>3. /\ DOMAIN received = {1} /\ received[1] = leaves[i]
        /\ DOMAIN outs = {1} /\ outs[1] = n
    OBVIOUS
  <1>4. ASSUME NEW a \in Asset
        PROVE  Total(received, a) = Total(outs, a)
    <2> HIDE DEF received, outs
    <2>1. Total(received, a) = Part(leaves[i], a) /\ Total(outs, a) = Part(n, a)
      BY <1>2, <1>3, TotalOfOne
    <2> QED
      BY <2>1 DEF Part
  <1> QED
    BY <1>1, <1>4 DEF Accepts

\* One note becomes two of its asset, which only its owner's may carry data.
LEMMA AcceptsOneForTwo ==
  ASSUME PoolTypeOK, NEW i \in Unspent, NEW m \in Note, NEW n \in Note, NEW signers, NEW expiry,
         now <= expiry, leaves[i].owner \in signers,
         m.data # NoData => leaves[i].owner = m.owner,
         n.data # NoData => leaves[i].owner = n.owner,
         m.asset = leaves[i].asset, n.asset = leaves[i].asset,
         leaves[i].amount = m.amount + n.amount
  PROVE  Accepts(<<i>>, <<m, n>>, signers, expiry)
  <1> DEFINE received == [k \in DOMAIN <<i>> |-> leaves[<<i>>[k]]]
             outs     == <<m, n>>
  <1>1. ToSet(<<i>>) = {i} /\ ToSet(<<m, n>>) = {m, n} /\ IsInjective(<<i>>)
    BY OneElement, TwoElements
  <1>2. leaves[i] \in Note
    BY DEF Unspent, PoolTypeOK
  <1>3. /\ DOMAIN received = {1} /\ received[1] = leaves[i]
        /\ DOMAIN outs = {1, 2} /\ outs[1] = m /\ outs[2] = n
    OBVIOUS
  <1>4. ASSUME NEW a \in Asset
        PROVE  Total(received, a) = Total(outs, a)
    <2> HIDE DEF received, outs
    <2>1. Total(received, a) = Part(leaves[i], a) /\ Total(outs, a) = Part(m, a) + Part(n, a)
      BY <1>2, <1>3, TotalOfOne, TotalOfTwo
    <2> QED
      BY <2>1 DEF Part
  <1> QED
    BY <1>1, <1>4 DEF Accepts

\* Two notes are exchanged for plain ones of their values.
LEMMA AcceptsTwoForTwo ==
  ASSUME PoolTypeOK, NEW i \in Unspent, NEW j \in Unspent, i # j,
         NEW m \in Note, NEW n \in Note, NEW signers, NEW expiry,
         now <= expiry, leaves[i].owner \in signers, leaves[j].owner \in signers,
         m.data = NoData, m.asset = leaves[i].asset, m.amount = leaves[i].amount,
         n.data = NoData, n.asset = leaves[j].asset, n.amount = leaves[j].amount
  PROVE  Accepts(<<i, j>>, <<m, n>>, signers, expiry)
  <1> DEFINE received == [k \in DOMAIN <<i, j>> |-> leaves[<<i, j>>[k]]]
             outs     == <<m, n>>
  <1>1. ToSet(<<i, j>>) = {i, j} /\ ToSet(<<m, n>>) = {m, n} /\ IsInjective(<<i, j>>)
    BY TwoElements
  <1>2. leaves[i] \in Note /\ leaves[j] \in Note
    BY DEF Unspent, PoolTypeOK
  <1>3. /\ DOMAIN received = {1, 2} /\ received[1] = leaves[i] /\ received[2] = leaves[j]
        /\ DOMAIN outs = {1, 2} /\ outs[1] = m /\ outs[2] = n
    OBVIOUS
  <1>4. ASSUME NEW a \in Asset
        PROVE  Total(received, a) = Total(outs, a)
    <2> HIDE DEF received, outs
    <2>1. /\ Total(received, a) = Part(leaves[i], a) + Part(leaves[j], a)
          /\ Total(outs, a) = Part(m, a) + Part(n, a)
      BY <1>2, <1>3, TotalOfTwo
    <2> QED
      BY <2>1 DEF Part
  <1> QED
    BY <1>1, <1>4 DEF Accepts
=============================================================================
