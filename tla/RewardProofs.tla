---------------------------- MODULE RewardProofs ----------------------------
(***************************************************************************)
(* Theorems about Rewards, for any number of proofs, orders and requests.  *)
(* The steps of Orders keep what OrderProofs shows of them; what is new is *)
(* the wallet that a request for a reward has read and not yet written.    *)
(* The second half shows that the books balance: first some facts about    *)
(* totals, then how each step moves the two columns of a wallet.           *)
(***************************************************************************)
EXTENDS MCRewards, OrderProofs, WellFoundedInduction

Stage == {"none", "asked", "found", "denied", "credited", "done"}

\* The proofs and the requests that make them.
ProofsOK ==
  /\ proof \in [Proof -> ProofRow \cup {None}]
  /\ stage \in [Proof -> Stage]
  /\ paid \in [Proof -> Nat]
  /\ \A p \in Proof :
       /\ stage[p] = "none" <=> proof[p] = None
       /\ stage[p] \in {"none", "asked", "found", "denied"} => paid[p] = 0
       /\ stage[p] = "credited" => paid[p] = 1
       /\ stage[p] \in {"asked", "found", "denied", "credited"} => proof[p].coin = -1

SolventSeen == seen \in [Proof -> Row(Nat) \cup {None}]

RewardInv == TypeInv /\ MoneyInv /\ SolventSeen /\ ProofsOK /\ PaidAsRecorded

LEMMA OwnerType ==
  ASSUME ProofsOK, NEW p \in Proof, stage[p] # "none"
  PROVE  proof[p] \in ProofRow /\ Owner(p) \in User
  BY DEF ProofsOK, ProofRow, Owner

\* Crediting a reward keeps every wallet solvent, however old the row is that
\* the request has read.
LEMMA RewardedType ==
  ASSUME wallet \in Table(Nat), NEW u \in User, NEW row \in Row(Nat) \cup {None}
  PROVE  Rewarded(u, row) \in Table(Nat)
  <1>1. CASE row = None
    BY <1>1, CoinsOK, SetRowType DEF Rewarded
  <1>2. CASE row # None
    <2>1. row.balance + Coins \in Nat
      BY <1>2, CoinsOK DEF Row
    <2> QED
      BY <1>2, <2>1, SetType DEF Rewarded
  <1> QED
    BY <1>1, <1>2

\* Orders and Rewards share the wallets only.
LEMMA RowsAreWallets == Table(Nat) \subseteq [User -> WalletRow \cup {None}]
  <1>1. Row(Nat) \subseteq WalletRow
    BY DEF Row, WalletRow
  <1> QED
    BY <1>1 DEF Table

LEMMA RewardTypeInv ==
  ASSUME TypeInv, wallet' \in Table(Nat),
         UNCHANGED <<order, ledger, timeline, grant, asking, pc, req, snap>>
  PROVE  TypeInv'
  BY RowsAreWallets DEF TypeInv, TypeOK, LoadedExists

LEMMA CreditStep ==
  ASSUME RewardInv, NEW p \in Proof, AddProof_Credit(p)
  PROVE  RewardInv'
  <1>1. Owner(p) \in User /\ proof[p] \in ProofRow
    BY OwnerType DEF RewardInv, AddProof_Credit
  <1>2. seen[p] \in Row(Nat) \cup {None}
    BY DEF RewardInv, SolventSeen
  <1>3. wallet' \in Table(Nat)
    BY <1>1, <1>2, RewardedType DEF RewardInv, MoneyInv, AddProof_Credit
  <1>4. TypeInv'
    BY <1>3, RewardTypeInv DEF RewardInv, AddProof_Credit
  <1>5. MoneyInv' /\ SolventSeen'
    BY <1>3 DEF RewardInv, MoneyInv, SolventSnapshots, SolventSeen, AddProof_Credit
  <1>6. ProofsOK'
    BY DEF RewardInv, ProofsOK, AddProof_Credit, Goto, Stage
  <1>7. PaidAsRecorded'
    BY DEF RewardInv, ProofsOK, PaidAsRecorded, AddProof_Credit, Goto
  <1> QED
    BY <1>4, <1>5, <1>6, <1>7 DEF RewardInv

\* The steps that do not write a wallet.
LEMMA QuietStep ==
  ASSUME RewardInv, UNCHANGED vars, SolventSeen', ProofsOK', PaidAsRecorded'
  PROVE  RewardInv'
  BY DEF RewardInv, vars, MoneyInv, SolventSnapshots, TypeInv, TypeOK, LoadedExists

LEMMA SaveStep ==
  ASSUME RewardInv, NEW p \in Proof, NEW u \in User, AddProof_Save(p, u)
  PROVE  RewardInv'
  <1>1. [user |-> u, coin |-> -1] \in ProofRow
    BY DEF ProofRow
  <1>2. ProofsOK'
    BY <1>1, NoneIsNoProof DEF RewardInv, ProofsOK, AddProof_Save, Goto, Stage
  <1>3. PaidAsRecorded'
    BY CoinsOK DEF RewardInv, ProofsOK, PaidAsRecorded, AddProof_Save, Goto
  <1>4. SolventSeen' /\ UNCHANGED vars
    BY DEF RewardInv, SolventSeen, AddProof_Save
  <1> QED
    BY <1>2, <1>3, <1>4, QuietStep

LEMMA FindWalletStep ==
  ASSUME RewardInv, NEW p \in Proof, AddProof_FindWallet(p)
  PROVE  RewardInv'
  <1>1. Owner(p) \in User
    BY OwnerType DEF RewardInv, AddProof_FindWallet
  <1>2. wallet[Owner(p)] \in Row(Nat) \cup {None}
    BY <1>1 DEF RewardInv, MoneyInv, Table
  <1>3. SolventSeen'
    BY <1>2 DEF RewardInv, SolventSeen, AddProof_FindWallet
  <1>4. ProofsOK' /\ PaidAsRecorded'
    BY DEF RewardInv, ProofsOK, PaidAsRecorded, AddProof_FindWallet, Goto, Stage
  <1>5. UNCHANGED vars
    BY DEF AddProof_FindWallet
  <1> QED
    BY <1>3, <1>4, <1>5, QuietStep

LEMMA RecordStep ==
  ASSUME RewardInv, NEW p \in Proof, AddProof_Record(p)
  PROVE  RewardInv'
  <1>1. proof[p] \in ProofRow
    BY OwnerType DEF RewardInv, AddProof_Record
  <1>2. proof' \in [Proof -> ProofRow \cup {None}]
    BY <1>1 DEF RewardInv, ProofsOK, ProofRow, AddProof_Record
  <1>3. ProofsOK'
    <2>1. proof'[p] \in ProofRow /\ \A q \in Proof \ {p} : proof'[q] = proof[q]
      BY <1>1 DEF RewardInv, ProofsOK, ProofRow, AddProof_Record
    <2>2. stage' = [stage EXCEPT ![p] = "done"] /\ paid' = paid
      BY DEF AddProof_Record, Goto
    <2>3. stage[p] # "none"
      BY DEF AddProof_Record
    <2> QED
      BY <1>2, <2>1, <2>2, <2>3, NoneIsNoProof DEF RewardInv, ProofsOK, Stage
  <1>4. PaidAsRecorded'
    BY <1>1, CoinsOK DEF RewardInv, ProofsOK, ProofRow, PaidAsRecorded, AddProof_Record, Goto
  <1>5. SolventSeen' /\ UNCHANGED vars
    BY DEF RewardInv, SolventSeen, AddProof_Record
  <1> QED
    BY <1>3, <1>4, <1>5, QuietStep

LEMMA RewardStep == RewardInv /\ [MoneyNext]_moneyVars => RewardInv'
  <1> SUFFICES ASSUME RewardInv, [MoneyNext]_moneyVars PROVE RewardInv'
    OBVIOUS
  <1>1. CASE Next /\ UNCHANGED rewards
    <2>1. TypeInv' /\ MoneyInv'
      BY <1>1, TypeStep, MoneyStep DEF RewardInv
    <2>2. SolventSeen' /\ ProofsOK' /\ PaidAsRecorded'
      BY <1>1 DEF rewards, RewardInv, SolventSeen, ProofsOK, PaidAsRecorded
    <2> QED
      BY <2>1, <2>2 DEF RewardInv
  <1>2. ASSUME NEW p \in Proof, AddProof(p) PROVE RewardInv'
    <2>1. CASE AddProof_Deny(p) \/ AddProof_Unclear(p) \/ AddProof_DuplicateWallet(p)
      <3>1. ProofsOK' /\ PaidAsRecorded'
        BY <2>1 DEF RewardInv, ProofsOK, PaidAsRecorded, AddProof_Deny, AddProof_Unclear,
                    AddProof_DuplicateWallet, Goto, Stage
      <3>2. SolventSeen' /\ UNCHANGED vars
        BY <2>1 DEF RewardInv, SolventSeen, AddProof_Deny, AddProof_Unclear,
                    AddProof_DuplicateWallet
      <3> QED
        BY <3>1, <3>2, QuietStep
    <2>2. CASE AddProof_Die(p)
      <3>1. ProofsOK' /\ PaidAsRecorded'
        BY <2>2 DEF RewardInv, ProofsOK, PaidAsRecorded, AddProof_Die, InFlight, Goto, Stage
      <3>2. SolventSeen' /\ UNCHANGED vars
        BY <2>2 DEF RewardInv, SolventSeen, AddProof_Die
      <3> QED
        BY <3>1, <3>2, QuietStep
    <2> QED
      BY <1>2, <2>1, <2>2, SaveStep, FindWalletStep, CreditStep, RecordStep DEF AddProof
  <1>3. CASE UNCHANGED moneyVars
    BY <1>3, QuietStep DEF moneyVars, rewards, RewardInv, SolventSeen, ProofsOK, PaidAsRecorded
  <1> QED
    BY <1>1, <1>2, <1>3 DEF MoneyNext

LEMMA RewardInvariant == MoneySpec => []RewardInv
  <1>1. MoneyInit => RewardInv
    <2> SUFFICES ASSUME MoneyInit PROVE RewardInv
      OBVIOUS
    <2>1. TypeInv
      BY InitType DEF MoneyInit, Init, TypeInv, LoadedExists
    <2>2. MoneyInv
      BY RowFacts DEF MoneyInit, Init, MoneyInv, SolventSnapshots, Table
    <2>3. SolventSeen /\ ProofsOK /\ PaidAsRecorded
      BY DEF MoneyInit, SolventSeen, ProofsOK, PaidAsRecorded, Stage
    <2> QED
      BY <2>1, <2>2, <2>3 DEF RewardInv
  <1> QED
    BY <1>1, RewardStep, PTL DEF MoneySpec

\* Neither overlapping orders nor rewards that are written back over them make
\* a wallet's balance or escrow negative.
THEOREM RewardedSolvency == MoneySpec => []NeverOverdrawn
  <1>1. RewardInv => NeverOverdrawn
    BY DEF RewardInv, MoneyInv, NeverOverdrawn, Solvent, Table, Row
  <1> QED
    BY <1>1, RewardInvariant, PTL

\* A proof is paid once at most, is recorded as rewarded only if it was paid,
\* and is recorded as rewarded if it was paid by a request that did not die.
THEOREM RewardsRecorded == MoneySpec => []PaidAsRecorded
  BY RewardInvariant, PTL DEF RewardInv

-----------------------------------------------------------------------------
(* What OrderProofs shows of orders that do not overlap each other stays   *)
(* true when rewards are credited in between: they write only wallets.     *)

RecordsInv == RewardInv /\ CausalInv

LEMMA RecordsKept ==
  ASSUME RecordsInv, Quiet, UNCHANGED <<pc, req, snap>>
  PROVE  /\ CausalInv'
         /\ SerialInv => SerialInv'
  <1>1. CausalInv'
    BY DEF RecordsInv, Quiet, CausalInv, PaidBeforeDeducted, Justified, LoadedStatus, Recorded
  <1>2. SerialInv => SerialInv'
    BY FreshKept, BookedKept DEF SerialInv, Quiet
  <1> QED
    BY <1>1, <1>2

\* A step of MoneySpec is one of Orders, or leaves what the orders are made of.
LEMMA MoneyStepsAre ==
  ASSUME [MoneyNext]_moneyVars
  PROVE  [Next]_vars \/ (Quiet /\ UNCHANGED <<pc, req, snap>>)
  BY DEF MoneyNext, moneyVars, AddProof, AddProof_Save, AddProof_FindWallet, AddProof_Deny,
     AddProof_Unclear, AddProof_Credit, AddProof_DuplicateWallet, AddProof_Record, AddProof_Die,
     vars, Quiet

LEMMA RecordsInvariant == MoneySpec => []RecordsInv
  <1>1. MoneyInit => CausalInv
    BY DEF MoneyInit, Init, CausalInv, PaidBeforeDeducted, Entry
  <1>2. RewardInv /\ RewardInv' /\ CausalInv /\ [MoneyNext]_moneyVars => CausalInv'
    BY MoneyStepsAre, CausalStep, RecordsKept DEF RewardInv, RecordsInv
  <1> QED
    BY <1>1, <1>2, RewardInvariant, PTL DEF MoneySpec, RecordsInv

LEMMA MoneySerialInvariant == MoneySpec /\ []OneAtATime => []SerialInv
  <1>1. MoneyInit => SerialInv
    BY SerialInit DEF MoneyInit
  <1>2. RecordsInv /\ RecordsInv' /\ SerialInv /\ OneAtATime /\ [MoneyNext]_moneyVars => SerialInv'
    BY MoneyStepsAre, SerialStep, RecordsKept DEF RewardInv, RecordsInv
  <1> QED
    BY <1>1, <1>2, RecordsInvariant, PTL DEF MoneySpec

\* While the requests of orders do not overlap, each order's status, transaction
\* rows and timeline tell one story, whatever rewards do beside them.
THEOREM RewardedRecordsAgree == MoneySpec /\ []OneAtATime => []StatusAsBooked
  BY MoneySerialInvariant, PTL DEF SerialInv

\* Nor does an order's status then skip or take back a step.
THEOREM RewardedForward == MoneySpec /\ []OneAtATime => StatusMovesForward
  <1>1. RecordsInv /\ RecordsInv' /\ SerialInv /\ [MoneyNext]_moneyVars =>
          [\A o \in OrderId : order[o] # None =>
             \/ order'[o].status = order[o].status
             \/ order'[o].status \in Successors[order[o].status]]_vars
    <2> SUFFICES ASSUME RecordsInv, RecordsInv', SerialInv, [MoneyNext]_moneyVars,
                        NEW o \in OrderId, order[o] # None
                 PROVE  \/ order'[o].status = order[o].status
                        \/ order'[o].status \in Successors[order[o].status]
      OBVIOUS
    <2> QED
      BY MoneyStepsAre, ForwardStep DEF RecordsInv, RewardInv, Quiet
  <1> QED
    BY <1>1, RecordsInvariant, MoneySerialInvariant, PTL DEF MoneySpec, StatusMovesForward

\* And the promise to the two parties of every order is kept.
THEOREM RewardedEscrow == MoneySpec /\ []OneAtATime => KeepsEscrow
  <1>1. MoneyInit => Escrow!Init
    BY EscrowInit DEF MoneyInit
  <1>2. RecordsInv /\ RecordsInv' /\ SerialInv /\ SerialInv' /\ [MoneyNext]_moneyVars =>
          [Escrow!Next]_(Escrow!vars)
    <2>1. Quiet => UNCHANGED Escrow!vars
      BY DEF Quiet, Escrow!vars, HolderOf, Recorded
    <2> QED
      BY <2>1, MoneyStepsAre, EscrowStep DEF RecordsInv, RewardInv
  <1> QED
    BY <1>1, <1>2, RecordsInvariant, MoneySerialInvariant, PTL DEF MoneySpec, KeepsEscrow, Escrow!Spec

-----------------------------------------------------------------------------
(* Totals of finitely many rows.                                           *)

\* A set of natural numbers that is closed under successor has them all.
LEMMA Counting ==
  ASSUME NEW P, 0 \in P, \A n \in Nat : n \in P => n + 1 \in P
  PROVE  Nat \subseteq P
  <1> DEFINE T == Nat \ P
  <1> SUFFICES ASSUME T # {} PROVE FALSE
    OBVIOUS
  <1>1. \E x \in T : \A y \in Nat : y < x => y \notin T
    <2>1. \E x \in T : \A y \in T : <<y, x>> \notin OpToRel(<, Nat)
      <3>1. IsWellFoundedOn(OpToRel(<, Nat), Nat)
        BY NatLessThanWellFounded, Zenon
      <3>2. T \subseteq Nat /\ T # {}
        OBVIOUS
      <3> HIDE DEF T
      <3> QED
        BY <3>1, <3>2, WFMin, Zenon
    <2>2. PICK x \in T : \A y \in T : <<y, x>> \notin OpToRel(<, Nat)
      BY <2>1
    <2>3. \A y \in T : ~ (y < x)
      BY <2>2, Zenon DEF OpToRel
    <2> QED
      BY <2>3
  <1>2. PICK x \in T : \A y \in Nat : y < x => y \notin T
    BY <1>1
  <1>3. x # 0 /\ x \in Nat
    OBVIOUS
  <1>4. x - 1 \in Nat /\ x - 1 < x
    BY <1>3
  <1>5. x - 1 \in P
    BY <1>2, <1>4
  <1> QED
    BY <1>4, <1>5

Pick(s) == CHOOSE x \in s : TRUE
Step(f, g, s) == IF s = {} THEN 0 ELSE f[Pick(s)] + g[s \ {Pick(s)}]
Sums(f, g, S) == g = [s \in SUBSET S |-> Step(f, g, s)]
Iter(f, S) == CHOOSE g : Sums(f, g, S)

LEMMA TotalIs == \A f, S : Total(f, S) = Iter(f, S)[S]
  BY DEF Total, SumFunctionOnSet, FoldFunctionOnSet, MapThenFoldSet, Step, Pick, Iter, Sums

LEMMA Picked == \A s : s # {} => Pick(s) \in s
  BY Zenon DEF Pick

LEMMA Iterated == ASSUME NEW f, NEW S, \E g : Sums(f, g, S) PROVE Sums(f, Iter(f, S), S)
  BY Zenon DEF Iter

LEMMA Taken ==
  ASSUME NEW s, IsFiniteSet(s), NEW x \in s
  PROVE  /\ IsFiniteSet(s \ {x}) /\ Cardinality(s) \in Nat /\ Cardinality(s \ {x}) \in Nat
         /\ Cardinality(s) = Cardinality(s \ {x}) + 1
  <1>1. IsFiniteSet(s \ {x}) /\ Cardinality(s \ {x}) = Cardinality(s) - 1
    BY FS_RemoveElement
  <1> QED
    BY <1>1, FS_CardinalityType

\* What is summed does not depend on the set around it.
LEMMA SameSums ==
  ASSUME NEW f, NEW g, NEW h, NEW A, NEW B, Sums(f, g, A), Sums(f, h, B)
  PROVE  \A s \in SUBSET (A \cap B) : IsFiniteSet(s) => g[s] = h[s]
  <1> DEFINE P == {n \in Nat : \A s \in SUBSET (A \cap B) :
                     IsFiniteSet(s) /\ Cardinality(s) = n => g[s] = h[s]}
  <1>1. \A s \in SUBSET A : g[s] = Step(f, g, s)
    BY DEF Sums
  <1>2. \A s \in SUBSET B : h[s] = Step(f, h, s)
    BY DEF Sums
  <1>3. 0 \in P
    <2>1. ASSUME NEW s \in SUBSET (A \cap B), IsFiniteSet(s), Cardinality(s) = 0 PROVE g[s] = h[s]
      <3>1. s = {}
        BY <2>1, FS_EmptySet
      <3> QED
        BY <3>1, <1>1, <1>2 DEF Step
    <2> QED
      BY <2>1
  <1>4. ASSUME NEW n \in Nat, n \in P PROVE n + 1 \in P
    <2>1. ASSUME NEW s \in SUBSET (A \cap B), IsFiniteSet(s), Cardinality(s) = n + 1
          PROVE  g[s] = h[s]
      <3>1. s # {}
        BY <2>1, FS_EmptySet
      <3>2. PICK x \in s : x = Pick(s)
        BY <3>1, Picked
      <3>3. IsFiniteSet(s \ {x}) /\ Cardinality(s \ {x}) = n
        BY <2>1, Taken
      <3>4. g[s \ {x}] = h[s \ {x}]
        BY <1>4, <3>3
      <3> QED
        BY <3>1, <3>2, <3>4, <1>1, <1>2 DEF Step
    <2> QED
      BY <2>1
  <1>5. Nat \subseteq P
    <2> HIDE DEF P
    <2> QED
      BY <1>3, <1>4, Counting
  <1> QED
    BY <1>5, FS_CardinalityType

LEMMA SumsExist == \A S : IsFiniteSet(S) => \A f : \E g : Sums(f, g, S)
  <1> DEFINE P == {n \in Nat : \A S : IsFiniteSet(S) /\ Cardinality(S) <= n =>
                      \A f : \E g : Sums(f, g, S)}
  <1>1. 0 \in P
    <2>1. ASSUME NEW S, IsFiniteSet(S), Cardinality(S) <= 0, NEW f PROVE \E g : Sums(f, g, S)
      <3>1. S = {}
        BY <2>1, FS_EmptySet, FS_CardinalityType
      <3>2. Sums(f, [s \in SUBSET S |-> 0], S)
        BY <3>1 DEF Sums, Step
      <3> QED
        BY <3>2
    <2> QED
      BY <2>1
  <1>2. ASSUME NEW n \in Nat, n \in P PROVE n + 1 \in P
    <2>1. ASSUME NEW S, IsFiniteSet(S), Cardinality(S) <= n + 1, NEW f PROVE \E g : Sums(f, g, S)
      <3> DEFINE g == [s \in SUBSET S |->
                         IF s = {} THEN 0 ELSE f[Pick(s)] + Iter(f, s \ {Pick(s)})[s \ {Pick(s)}]]
      <3>1. ASSUME NEW s \in SUBSET S, s # {} PROVE g[s \ {Pick(s)}] = Iter(f, s \ {Pick(s)})[s \ {Pick(s)}]
        <4>1. PICK x \in s : x = Pick(s)
          BY <3>1, Picked
        <4>2. PICK t : t = s \ {x}
          OBVIOUS
        <4>3. IsFiniteSet(s) /\ Cardinality(s) <= n + 1 /\ IsFiniteSet(t) /\ Cardinality(s) \in Nat
              /\ Cardinality(t) \in Nat /\ Cardinality(t) + 1 = Cardinality(s)
          BY <2>1, <4>2, FS_Subset, Taken, FS_CardinalityType
        <4>4. Sums(f, Iter(f, t), t)
          BY <1>2, <4>3, Iterated
        <4>5. Iter(f, t)[t] = Step(f, Iter(f, t), t)
          BY <4>4 DEF Sums
        <4>6. CASE t = {}
          BY <4>1, <4>2, <4>5, <4>6 DEF Step
        <4>7. CASE t # {}
          <5>1. PICK y \in t : y = Pick(t)
            BY <4>7, Picked
          <5>2. PICK r : r = t \ {y}
            OBVIOUS
          <5>3. IsFiniteSet(r) /\ Cardinality(r) \in Nat /\ Cardinality(r) + 1 = Cardinality(t)
            BY <4>3, <5>2, Taken
          <5>4. Sums(f, Iter(f, r), r)
            BY <1>2, <4>3, <5>3, Iterated
          <5>5. Iter(f, t)[r] = Iter(f, r)[r]
            BY <4>4, <5>2, <5>3, <5>4, SameSums
          <5>6. g[t] = f[y] + Iter(f, r)[r]
            BY <4>2, <4>7, <5>1, <5>2
          <5> QED
            BY <4>1, <4>2, <4>5, <4>7, <5>1, <5>2, <5>5, <5>6 DEF Step
        <4> QED
          BY <4>6, <4>7
      <3>2. Sums(f, g, S)
        BY <3>1 DEF Sums, Step
      <3> QED
        BY <3>2
    <2> QED
      BY <2>1
  <1>3. Nat \subseteq P
    <2> HIDE DEF P
    <2> QED
      BY <1>1, <1>2, Counting
  <1> QED
    BY <1>3, FS_CardinalityType

LEMMA TotalOut ==
  ASSUME NEW f, NEW S, IsFiniteSet(S)
  PROVE  Total(f, S) = IF S = {} THEN 0 ELSE f[Pick(S)] + Total(f, S \ {Pick(S)})
  <1>1. Sums(f, Iter(f, S), S)
    BY SumsExist, Iterated
  <1>2. Total(f, S) = Step(f, Iter(f, S), S)
    BY <1>1, TotalIs DEF Sums, Total
  <1>3. CASE S # {}
    <2>1. PICK t : t = S \ {Pick(S)}
      OBVIOUS
    <2>2. IsFiniteSet(t) /\ t \subseteq S
      BY <2>1, FS_Subset
    <2>3. Sums(f, Iter(f, t), t)
      BY <2>2, SumsExist, Iterated
    <2>4. Iter(f, S)[t] = Iter(f, t)[t]
      BY <1>1, <2>2, <2>3, SameSums
    <2> QED
      BY <1>2, <1>3, <2>1, <2>4, TotalIs DEF Step, Total
  <1> QED
    BY <1>2, <1>3 DEF Step

LEMMA TotalType ==
  ASSUME NEW f, NEW S, IsFiniteSet(S), \A x \in S : f[x] \in Int
  PROVE  Total(f, S) \in Int
  <1> DEFINE P == {n \in Nat : \A s \in SUBSET S : IsFiniteSet(s) /\ Cardinality(s) = n => Total(f, s) \in Int}
  <1>1. 0 \in P
    <2>1. ASSUME NEW s \in SUBSET S, IsFiniteSet(s), Cardinality(s) = 0 PROVE Total(f, s) \in Int
      <3>1. s = {}
        BY <2>1, FS_EmptySet
      <3>2. Total(f, s) = 0
        BY <2>1, <3>1, TotalOut
      <3> QED
        BY <3>2
    <2> QED
      BY <2>1
  <1>2. ASSUME NEW n \in Nat, n \in P PROVE n + 1 \in P
    <2>1. ASSUME NEW s \in SUBSET S, IsFiniteSet(s), Cardinality(s) = n + 1 PROVE Total(f, s) \in Int
      <3>1. s # {}
        BY <2>1, FS_EmptySet
      <3>2. PICK x \in s : x = Pick(s)
        BY <3>1, Picked
      <3>3. IsFiniteSet(s \ {x}) /\ Cardinality(s \ {x}) = n
        BY <2>1, Taken
      <3>4. Total(f, s \ {x}) \in Int
        BY <1>2, <3>3
      <3>5. Total(f, s) = f[x] + Total(f, s \ {x})
        BY <2>1, <3>1, <3>2, TotalOut
      <3> QED
        BY <3>4, <3>5
    <2> QED
      BY <2>1
  <1>3. Nat \subseteq P
    <2> HIDE DEF P
    <2> QED
      BY <1>1, <1>2, Counting
  <1> QED
    BY <1>3, FS_CardinalityType

\* It does not matter which one is taken out first.
LEMMA TotalWithout ==
  ASSUME NEW f, NEW S, IsFiniteSet(S), \A x \in S : f[x] \in Int, NEW y \in S
  PROVE  Total(f, S) = f[y] + Total(f, S \ {y})
  <1> DEFINE P == {n \in Nat : \A s \in SUBSET S : IsFiniteSet(s) /\ Cardinality(s) = n =>
                      \A z \in s : Total(f, s) = f[z] + Total(f, s \ {z})}
  <1>1. 0 \in P
    <2>1. ASSUME NEW s \in SUBSET S, IsFiniteSet(s), Cardinality(s) = 0 PROVE s = {}
      BY <2>1, FS_EmptySet
    <2> QED
      BY <2>1
  <1>2. ASSUME NEW n \in Nat, n \in P PROVE n + 1 \in P
    <2>1. ASSUME NEW s \in SUBSET S, IsFiniteSet(s), Cardinality(s) = n + 1, NEW z \in s
          PROVE  Total(f, s) = f[z] + Total(f, s \ {z})
      <3>1. PICK x \in s : x = Pick(s)
        BY Picked
      <3>2. Total(f, s) = f[x] + Total(f, s \ {x})
        BY <2>1, <3>1, TotalOut
      <3>3. CASE x # z
        <4>1. PICK r : r = (s \ {x}) \ {z} /\ r = (s \ {z}) \ {x} /\ r \subseteq S
          OBVIOUS
        <4>2. /\ IsFiniteSet(s \ {x}) /\ Cardinality(s \ {x}) = n
              /\ IsFiniteSet(s \ {z}) /\ Cardinality(s \ {z}) = n
          <5>1. IsFiniteSet(s \ {x}) /\ Cardinality(s \ {x}) \in Nat /\ Cardinality(s) = Cardinality(s \ {x}) + 1
            BY <2>1, Taken
          <5>2. IsFiniteSet(s \ {z}) /\ Cardinality(s \ {z}) \in Nat /\ Cardinality(s) = Cardinality(s \ {z}) + 1
            BY <2>1, Taken
          <5> QED
            BY <2>1, <5>1, <5>2
        <4>3. Total(f, s \ {x}) = f[z] + Total(f, r)
          BY <1>2, <3>3, <4>1, <4>2
        <4>4. Total(f, s \ {z}) = f[x] + Total(f, r)
          BY <1>2, <3>3, <4>1, <4>2
        <4>5. Total(f, r) \in Int
          BY <4>1, <4>2, FS_Subset, TotalType
        <4>6. f[x] \in Int /\ f[z] \in Int
          OBVIOUS
        <4> QED
          BY <3>2, <4>3, <4>4, <4>5, <4>6
      <3> QED
        BY <3>2, <3>3
    <2> QED
      BY <2>1
  <1>3. Nat \subseteq P
    <2> HIDE DEF P
    <2> QED
      BY <1>1, <1>2, Counting
  <1> QED
    BY <1>3, FS_CardinalityType

LEMMA TotalSame ==
  ASSUME NEW f, NEW g, NEW S, IsFiniteSet(S), \A x \in S : f[x] = g[x]
  PROVE  Total(f, S) = Total(g, S)
  <1> DEFINE P == {n \in Nat : \A s \in SUBSET S : IsFiniteSet(s) /\ Cardinality(s) = n =>
                      Total(f, s) = Total(g, s)}
  <1>1. 0 \in P
    <2>1. ASSUME NEW s \in SUBSET S, IsFiniteSet(s), Cardinality(s) = 0 PROVE Total(f, s) = Total(g, s)
      BY <2>1, FS_EmptySet, TotalOut
    <2> QED
      BY <2>1
  <1>2. ASSUME NEW n \in Nat, n \in P PROVE n + 1 \in P
    <2>1. ASSUME NEW s \in SUBSET S, IsFiniteSet(s), Cardinality(s) = n + 1
          PROVE  Total(f, s) = Total(g, s)
      <3>1. s # {}
        BY <2>1, FS_EmptySet
      <3>2. PICK x \in s : x = Pick(s)
        BY <3>1, Picked
      <3>3. IsFiniteSet(s \ {x}) /\ Cardinality(s \ {x}) = n
        BY <2>1, Taken
      <3>4. Total(f, s \ {x}) = Total(g, s \ {x})
        BY <1>2, <3>3
      <3>5. Total(f, s) = f[x] + Total(f, s \ {x}) /\ Total(g, s) = g[x] + Total(g, s \ {x})
        BY <2>1, <3>1, <3>2, TotalOut
      <3> QED
        BY <3>4, <3>5
    <2> QED
      BY <2>1
  <1>3. Nat \subseteq P
    <2> HIDE DEF P
    <2> QED
      BY <1>1, <1>2, Counting
  <1> QED
    BY <1>3, FS_CardinalityType

\* A row that is added, or one that changes.
LEMMA TotalChange ==
  ASSUME NEW f, NEW g, NEW S, NEW y, IsFiniteSet(S), \A x \in S \cup {y} : f[x] \in Int /\ g[x] \in Int,
         \A x \in S \ {y} : f[x] = g[x], y \notin S => f[y] = 0
  PROVE  Total(g, S \cup {y}) = Total(f, S) + g[y] - f[y]
  <1>1. PICK r : r = S \ {y}
    OBVIOUS
  <1>2. IsFiniteSet(r) /\ IsFiniteSet(S \cup {y})
    BY <1>1, FS_AddElement, FS_Subset
  <1>3. Total(f, r) = Total(g, r) /\ Total(f, r) \in Int
    BY <1>1, <1>2, TotalSame, TotalType
  <1>4. Total(g, S \cup {y}) = g[y] + Total(g, r)
    <2>1. (S \cup {y}) \ {y} = r /\ y \in S \cup {y}
      BY <1>1
    <2>2. Total(g, S \cup {y}) = g[y] + Total(g, (S \cup {y}) \ {y})
      BY <1>2, <2>1, TotalWithout
    <2> QED
      BY <2>1, <2>2
  <1>5. CASE y \in S
    <2>1. Total(f, S) = f[y] + Total(f, r)
      BY <1>1, <1>5, TotalWithout
    <2>2. f[y] \in Int /\ g[y] \in Int
      OBVIOUS
    <2> QED
      BY <1>3, <1>4, <2>1, <2>2
  <1>6. CASE y \notin S
    <2>1. r = S
      BY <1>1, <1>6
    <2>2. f[y] = 0 /\ g[y] \in Int
      BY <1>6
    <2> QED
      BY <1>3, <1>4, <2>1, <2>2
  <1> QED
    BY <1>5, <1>6

\* Rows that count nothing can be added.
LEMMA TotalOnly ==
  ASSUME NEW f, NEW g, NEW S, IsFiniteSet(S), NEW R, R \subseteq S,
         \A x \in S : g[x] \in Int, \A x \in R : f[x] = g[x], \A x \in S \ R : g[x] = 0
  PROVE  Total(f, R) = Total(g, S)
  <1> DEFINE P == {n \in Nat : \A s \in SUBSET S : IsFiniteSet(s) /\ Cardinality(s) = n =>
                      Total(f, s \cap R) = Total(g, s)}
  <1>1. 0 \in P
    <2>1. ASSUME NEW s \in SUBSET S, IsFiniteSet(s), Cardinality(s) = 0
          PROVE  Total(f, s \cap R) = Total(g, s)
      <3>1. s = {} /\ s \cap R = {}
        BY <2>1, FS_EmptySet
      <3> QED
        BY <2>1, <3>1, TotalOut
    <2> QED
      BY <2>1
  <1>2. ASSUME NEW n \in Nat, n \in P PROVE n + 1 \in P
    <2>1. ASSUME NEW s \in SUBSET S, IsFiniteSet(s), Cardinality(s) = n + 1
          PROVE  Total(f, s \cap R) = Total(g, s)
      <3>1. PICK x : x \in s
        BY <2>1, FS_EmptySet
      <3>2. PICK t : t = s \ {x}
        OBVIOUS
      <3>3. IsFiniteSet(t) /\ Cardinality(t) = n /\ t \subseteq S
        <4>1. IsFiniteSet(t) /\ Cardinality(t) \in Nat /\ Cardinality(s) = Cardinality(t) + 1
          BY <2>1, <3>1, <3>2, Taken
        <4> QED
          BY <2>1, <3>2, <4>1
      <3>4. Total(f, t \cap R) = Total(g, t)
        BY <1>2, <3>3
      <3>5. Total(g, s) = g[x] + Total(g, t)
        BY <2>1, <3>1, <3>2, TotalWithout
      <3>6. Total(g, t) \in Int
        BY <3>3, TotalType
      <3>7. CASE x \in R
        <4>1. PICK q : q = s \cap R
          OBVIOUS
        <4>2. x \in q /\ q \ {x} = t \cap R /\ IsFiniteSet(q) /\ \A y \in q : f[y] \in Int
          BY <2>1, <3>1, <3>2, <3>7, <4>1, FS_Subset
        <4>3. Total(f, q) = f[x] + Total(f, q \ {x})
          BY <4>2, TotalWithout
        <4> QED
          BY <3>4, <3>5, <3>7, <4>1, <4>2, <4>3
      <3>8. CASE x \notin R
        <4>1. t \cap R = s \cap R
          BY <3>2, <3>8
        <4>2. g[x] = 0
          BY <3>1, <3>8
        <4>3. Total(g, s) = Total(g, t)
          BY <3>5, <3>6, <4>2
        <4> QED
          BY <3>4, <4>1, <4>3
      <3> QED
        BY <3>7, <3>8
    <2> QED
      BY <2>1
  <1>3. Nat \subseteq P
    <2> HIDE DEF P
    <2> QED
      BY <1>1, <1>2, Counting
  <1>4. Total(f, S \cap R) = Total(g, S)
    BY <1>3, FS_CardinalityType
  <1>5. S \cap R = R
    OBVIOUS
  <1> QED
    BY <1>4, <1>5

LEMMA TotalPlus ==
  ASSUME NEW f, NEW g, NEW h, NEW S, IsFiniteSet(S),
         \A x \in S : f[x] \in Int /\ g[x] \in Int /\ h[x] = f[x] + g[x]
  PROVE  Total(h, S) = Total(f, S) + Total(g, S)
  <1> DEFINE P == {n \in Nat : \A s \in SUBSET S : IsFiniteSet(s) /\ Cardinality(s) = n =>
                      Total(h, s) = Total(f, s) + Total(g, s)}
  <1>1. 0 \in P
    <2>1. ASSUME NEW s \in SUBSET S, IsFiniteSet(s), Cardinality(s) = 0
          PROVE  Total(h, s) = Total(f, s) + Total(g, s)
      <3>1. s = {}
        BY <2>1, FS_EmptySet
      <3>2. Total(f, s) = 0 /\ Total(g, s) = 0 /\ Total(h, s) = 0
        BY <2>1, <3>1, TotalOut
      <3> QED
        BY <3>2
    <2> QED
      BY <2>1
  <1>2. ASSUME NEW n \in Nat, n \in P PROVE n + 1 \in P
    <2>1. ASSUME NEW s \in SUBSET S, IsFiniteSet(s), Cardinality(s) = n + 1
          PROVE  Total(h, s) = Total(f, s) + Total(g, s)
      <3>1. PICK x : x \in s
        BY <2>1, FS_EmptySet
      <3>2. PICK t : t = s \ {x}
        OBVIOUS
      <3>3. IsFiniteSet(t) /\ Cardinality(t) = n /\ t \subseteq S
        <4>1. IsFiniteSet(t) /\ Cardinality(t) \in Nat /\ Cardinality(s) = Cardinality(t) + 1
          BY <2>1, <3>1, <3>2, Taken
        <4> QED
          BY <2>1, <3>2, <4>1
      <3>4. Total(h, t) = Total(f, t) + Total(g, t)
        BY <1>2, <3>3
      <3>5. Total(f, s) = f[x] + Total(f, t) /\ Total(g, s) = g[x] + Total(g, t)
        BY <2>1, <3>1, <3>2, TotalWithout
      <3>6. Total(h, s) = h[x] + Total(h, t)
        BY <2>1, <3>1, <3>2, TotalWithout
      <3>7. Total(f, t) \in Int /\ Total(g, t) \in Int
        BY <3>3, TotalType
      <3>8. f[x] \in Int /\ g[x] \in Int /\ h[x] = f[x] + g[x]
        BY <3>1
      <3> QED
        BY <3>4, <3>5, <3>6, <3>7, <3>8
    <2> QED
      BY <2>1
  <1>3. Nat \subseteq P
    <2> HIDE DEF P
    <2> QED
      BY <1>1, <1>2, Counting
  <1> QED
    BY <1>3, FS_CardinalityType
-----------------------------------------------------------------------------
(* The books, while order requests do not overlap each other and nobody    *)
(* orders from oneself.  A column of a wallet is a total over all orders   *)
(* (and proofs) of what each of them contributes to it; a step changes the *)
(* contribution of one.                                                    *)

\* What an order holds in the escrow of u, and what it added to the balance of
\* u, given its status.
HeldOf(row, u) ==
  IF row # None /\ row.seller = u /\ row.status \in Open THEN row.amount ELSE 0
NetOf(row, u) ==
  IF row = None THEN 0
  ELSE (IF row.seller = u /\ row.status = "delivered" THEN row.amount ELSE 0)
     - (IF row.buyer = u /\ row.status \in Open \cup {"delivered"} THEN row.amount ELSE 0)

Held(u) == [o \in OrderId |-> HeldOf(order[o], u)]
Net(u) == [o \in OrderId |-> NetOf(order[o], u)]

Made == {p \in Proof : proof[p] # None}
Won(u) == [p \in Proof |-> IF proof[p] # None /\ Owner(p) = u THEN paid[p] * Coins ELSE 0]

\* The wallet of u, an empty one if it has not been opened.
Purse(u) == Found(wallet[u], EmptyWallet)

Tally(u) ==
  /\ Purse(u).pending = Total(Held(u), Placed)
  /\ apart => Purse(u).balance = grant[u] + Total(Net(u), Placed) + Total(Won(u), Made)

\* A row that an order request read is the wallet of u as it is, but for the
\* balance when rewards overlap, or there was no wallet to read.
Current(row, u) ==
  row # None => /\ wallet[u] # None
                /\ row.pending = wallet[u].pending
                /\ apart => row.balance = wallet[u].balance

SameDeal(row, loaded) ==
  row.buyer = loaded.buyer /\ row.seller = loaded.seller /\ row.amount = loaded.amount

Settled(w) ==
  LET q == req[w] IN
  q # None =>
    /\ q.row.buyer # q.row.seller
    /\ q.op # "create" => SameDeal(order[q.id], q.row)
    /\ pc[w] = "begun" => Current(snap[w].buyer, q.row.buyer) /\ Current(snap[w].seller, q.row.seller)

\* Only what moves between two users can be added up.
Deals == \A o \in Placed : order[o].buyer # order[o].seller

GrantsOpen == \A u \in User : wallet[u] = None => grant[u] = 0

\* Without overlap proofs and orders take turns, and what a proof has read is
\* the wallet.
Turns ==
  apart => /\ \A p, q \in Proof : InFlight(p) /\ InFlight(q) => p = q
           /\ \A p \in Proof : InFlight(p) => NoOrder
           /\ \A p \in Proof : stage[p] = "found" /\ seen[p] # None => seen[p] = wallet[Owner(p)]

\* What keeps the books balanced: the two tallies of every user, and what the
\* requests under way know of the wallets and orders they are about to write.
BooksInv ==
  /\ IsFiniteSet(Placed) /\ IsFiniteSet(Made)
  /\ Deals /\ GrantsOpen /\ Turns
  /\ \A w \in Worker : Settled(w)
  /\ \A u \in User : Tally(u)

LEMMA PurseType ==
  ASSUME wallet \in Table(Nat), NEW u \in User
  PROVE  /\ Purse(u) \in Row(Nat) /\ Purse(u).balance \in Nat /\ Purse(u).pending \in Nat
         /\ wallet[u] # None => Purse(u) = wallet[u] /\ wallet[u] \in Row(Nat)
         /\ wallet[u] = None => Purse(u).balance = 0 /\ Purse(u).pending = 0
  <1>1. wallet[u] \in Row(Nat) \cup {None}
    BY DEF Table
  <1>2. Purse(u) \in Row(Nat)
    BY <1>1, FoundType, RowFacts DEF Purse
  <1> QED
    BY <1>1, <1>2 DEF Purse, Found, EmptyWallet, Row

LEMMA RowsArePresent == None \notin Row(Nat)
  BY NoneIsNoRow DEF Row, WalletRow

\* What the operators that write wallets leave in the purses.
LEMMA SetRowPurse ==
  ASSUME wallet \in Table(Nat), NEW u \in User, NEW x \in Nat, NEW y \in Nat,
         wallet' = SetRow(wallet, u, x, y)
  PROVE  /\ Purse(u)'.balance = x /\ Purse(u)'.pending = y /\ wallet'[u] # None
         /\ \A v \in User \ {u} : wallet'[v] = wallet[v] /\ Purse(v)' = Purse(v)
  <1>1. wallet'[u] = [balance |-> x, pending |-> y] /\ \A v \in User \ {u} : wallet'[v] = wallet[v]
    BY DEF SetRow, Table
  <1>2. wallet'[u] \in Row(Nat)
    BY <1>1 DEF Row
  <1>3. wallet'[u] # None
    BY <1>2, RowsArePresent
  <1> QED
    BY <1>1, <1>3 DEF Purse, Found

\* Two users' wallets written one after the other.
LEMMA TwoRows ==
  ASSUME wallet \in Table(Nat), NEW b \in User, NEW s \in User, b # s,
         NEW x \in Nat, NEW y \in Nat, NEW z \in Nat, NEW t \in Nat,
         wallet' = SetRow(SetRow(wallet, b, x, y), s, z, t)
  PROVE  /\ Purse(b)'.balance = x /\ Purse(b)'.pending = y /\ wallet'[b] # None
         /\ Purse(s)'.balance = z /\ Purse(s)'.pending = t /\ wallet'[s] # None
         /\ \A v \in User \ {b, s} : wallet'[v] = wallet[v] /\ Purse(v)' = Purse(v)
  <1>1. /\ wallet'[b] = [balance |-> x, pending |-> y] /\ wallet'[s] = [balance |-> z, pending |-> t]
        /\ \A v \in User \ {b, s} : wallet'[v] = wallet[v]
    BY DEF SetRow, Table
  <1>2. wallet'[b] \in Row(Nat) /\ wallet'[s] \in Row(Nat)
    BY <1>1 DEF Row
  <1>3. wallet'[b] # None /\ wallet'[s] # None
    BY <1>2, RowsArePresent
  <1> QED
    BY <1>1, <1>3 DEF Purse, Found

LEMMA PayIs ==
  ASSUME wallet \in Table(Nat), NEW b \in User, NEW s \in User, b # s, NEW a,
         NEW buyerRow, NEW sellerRow
  PROVE  Pay(b, s, a, buyerRow, sellerRow) =
           SetRow(SetRow(wallet, b, buyerRow.balance - a, Purse(b).pending),
                  s, Purse(s).balance, sellerRow.pending + a)
  <1>1. PICK mid : mid = SetRow(wallet, b, buyerRow.balance - a, Purse(b).pending)
    OBVIOUS
  <1>2. mid[s] = wallet[s]
    BY <1>1 DEF SetRow, Table
  <1>3. SetBalance(wallet, b, buyerRow.balance - a) = mid
    BY <1>1 DEF SetBalance, Purse
  <1> QED
    BY <1>1, <1>2, <1>3 DEF Pay, SetPending, Purse

LEMMA ReturnEscrowIs ==
  ASSUME wallet \in Table(Nat), NEW b \in User, NEW s \in User, b # s, NEW a,
         NEW buyerRow, NEW sellerRow
  PROVE  ReturnEscrow(b, s, a, buyerRow, sellerRow) =
           SetRow(SetRow(wallet, b, buyerRow.balance + a, Purse(b).pending),
                  s, Purse(s).balance, sellerRow.pending - a)
  <1>1. PICK mid : mid = SetRow(wallet, b, buyerRow.balance + a, Purse(b).pending)
    OBVIOUS
  <1>2. mid[s] = wallet[s]
    BY <1>1 DEF SetRow, Table
  <1>3. SetBalance(wallet, b, buyerRow.balance + a) = mid
    BY <1>1 DEF SetBalance, Purse
  <1> QED
    BY <1>1, <1>2, <1>3 DEF ReturnEscrow, SetPending, Purse

LEMMA TakeBackIs ==
  ASSUME wallet \in Table(Nat), NEW b \in User, NEW s \in User, b # s, NEW a,
         NEW buyerRow, NEW sellerRow
  PROVE  TakeBack(b, s, a, buyerRow, sellerRow) =
           SetRow(SetRow(wallet, b, buyerRow.balance + a, Purse(b).pending),
                  s, sellerRow.balance - a, Purse(s).pending)
  <1>1. PICK mid : mid = SetRow(wallet, b, buyerRow.balance + a, Purse(b).pending)
    OBVIOUS
  <1>2. mid[s] = wallet[s]
    BY <1>1 DEF SetRow, Table
  <1>3. SetBalance(wallet, b, buyerRow.balance + a) = mid
    BY <1>1 DEF SetBalance, Purse
  <1> QED
    BY <1>1, <1>2, <1>3 DEF TakeBack, SetBalance, Purse

\* A row that was read and is still current is the purse.
LEMMA CurrentIs ==
  ASSUME wallet \in Table(Nat), NEW u \in User, NEW row, Current(row, u), CanInsert(u, row)
  PROVE  /\ Found(row, EmptyWallet).pending = Purse(u).pending
         /\ apart => Found(row, EmptyWallet).balance = Purse(u).balance
  BY PurseType DEF Current, CanInsert, Found, Purse, EmptyWallet

\* How a step moves the two columns of u, x into the balance (beyond what the
\* wallet was opened with) and y into escrow.
Moves(u, x, y) ==
  /\ Purse(u)'.pending = Purse(u).pending + y
  /\ apart => Purse(u)'.balance - grant'[u] = Purse(u).balance - grant[u] + x

Shifts(i, u) ==
  Moves(u, NetOf(order'[i], u) - NetOf(order[i], u), HeldOf(order'[i], u) - HeldOf(order[i], u))

\* What the write of an order's status leaves of the order.
LEMMA SavedRow ==
  ASSUME TypeInv, NEW w \in Worker, NEW i \in OrderId, req[w].id = i, NEW s \in Status,
         order[i] # None, SaveStatus(w, s), snap[w].status = order[i].status
  PROVE  order'[i] # None /\ order'[i].status = s /\ SameDeal(order'[i], order[i])
  <1>1. order[i] \in OrderRow
    BY DEF TypeInv, TypeOK
  <1>2. order'[i] = [order[i] EXCEPT !.status = s]
    BY <1>1 DEF SaveStatus, TypeInv, TypeOK, OrderRow
  <1>3. order'[i] \in OrderRow
    BY <1>1, <1>2 DEF OrderRow
  <1>4. order'[i].status = s /\ SameDeal(order'[i], order[i])
    BY <1>1, <1>2 DEF OrderRow, SameDeal
  <1> QED
    BY <1>3, <1>4, NoneIsNoRow

LEMMA RowCounts ==
  ASSUME NEW row, row # None, NEW b, NEW s, NEW a \in Nat, b # s,
         row.buyer = b, row.seller = s, row.amount = a, NEW u
  PROVE  /\ row.status \in Open => /\ HeldOf(row, u) = (IF u = s THEN a ELSE 0)
                                   /\ NetOf(row, u) = (IF u = b THEN -a ELSE 0)
         /\ row.status = "delivered" => /\ HeldOf(row, u) = 0
                                        /\ NetOf(row, u) = (IF u = s THEN a ELSE IF u = b THEN -a ELSE 0)
         /\ row.status \in {"cancelled", "refunded"} => HeldOf(row, u) = 0 /\ NetOf(row, u) = 0
  <1>1. row.status \in Open => HeldOf(row, u) = (IF u = s THEN a ELSE 0)
    BY DEF HeldOf
  <1>2. row.status \in Open => NetOf(row, u) = (IF u = b THEN -a ELSE 0)
    BY DEF NetOf, Open
  <1>3. row.status = "delivered" => HeldOf(row, u) = 0
    BY DEF HeldOf, Open
  <1>4. row.status = "delivered" => NetOf(row, u) = (IF u = s THEN a ELSE IF u = b THEN -a ELSE 0)
    BY DEF NetOf, Open
  <1>5. row.status \in {"cancelled", "refunded"} => HeldOf(row, u) = 0 /\ NetOf(row, u) = 0
    BY DEF HeldOf, NetOf, Open
  <1> QED
    BY <1>1, <1>2, <1>3, <1>4, <1>5

MoneyFacts == RecordsInv /\ SerialInv /\ BooksInv

\* What a request that is about to write knows.
LEMMA Known ==
  ASSUME MoneyFacts, NEW w \in Worker, pc[w] = "begun"
  PROVE  /\ req[w] # None /\ req[w].id \in OrderId
         /\ req[w].row # None /\ req[w].row.buyer \in User /\ req[w].row.seller \in User
         /\ req[w].row.amount \in Nat /\ req[w].row.buyer # req[w].row.seller
         /\ snap[w].buyer \in Row(Nat) \cup {None} /\ snap[w].seller \in Row(Nat) \cup {None}
         /\ Found(snap[w].buyer, EmptyWallet) \in Row(Nat)
         /\ Found(snap[w].seller, EmptyWallet) \in Row(Nat)
         /\ Current(snap[w].buyer, req[w].row.buyer)
         /\ Current(snap[w].seller, req[w].row.seller)
         /\ IF req[w].op = "create" THEN order[req[w].id] = None
            ELSE /\ order[req[w].id] # None /\ SameDeal(order[req[w].id], req[w].row)
                 /\ order[req[w].id].status = req[w].row.status
                 /\ snap[w].status = order[req[w].id].status
         /\ LoadedStatus(req[w])
  <1>1. TypeInv /\ MoneyInv /\ CausalInv
    BY DEF MoneyFacts, RecordsInv, RewardInv
  <1>2. /\ req[w] # None /\ req[w].id \in OrderId
        /\ req[w].row # None /\ req[w].row.buyer \in User /\ req[w].row.seller \in User
        /\ req[w].row.amount \in Nat
    BY <1>1, RunningType, NoneIsNoRow DEF TypeInv
  <1>3. /\ snap[w].buyer \in Row(Nat) \cup {None} /\ snap[w].seller \in Row(Nat) \cup {None}
        /\ Found(snap[w].buyer, EmptyWallet) \in Row(Nat)
        /\ Found(snap[w].seller, EmptyWallet) \in Row(Nat)
    BY <1>1, SolventRows
  <1>4. Settled(w)
    BY DEF MoneyFacts, BooksInv
  <1>5. Fresh(w)
    BY <1>2 DEF MoneyFacts, SerialInv
  <1>6. LoadedStatus(req[w])
    BY <1>1, <1>2 DEF CausalInv
  <1>7. req[w].op # "create" => order[req[w].id] # None
    BY <1>1, <1>2 DEF TypeInv, LoadedExists
  <1>8. /\ req[w].row.buyer # req[w].row.seller
        /\ Current(snap[w].buyer, req[w].row.buyer)
        /\ Current(snap[w].seller, req[w].row.seller)
        /\ req[w].op # "create" => SameDeal(order[req[w].id], req[w].row)
    BY <1>2, <1>4 DEF Settled
  <1>9. IF req[w].op = "create" THEN order[req[w].id] = None
        ELSE order[req[w].id].status = req[w].row.status /\ snap[w].status = req[w].row.status
    BY <1>5 DEF Fresh
  <1> QED
    BY <1>2, <1>3, <1>6, <1>7, <1>8, <1>9

\* A step that moves x and z into the balances of buyer and seller and y into
\* the escrow of the seller, and nothing else.
LEMMA TwoMove ==
  ASSUME NEW b \in User, NEW s \in User, b # s, NEW x \in Int, NEW z \in Int, NEW y \in Int,
         wallet \in Table(Nat), grant \in [User -> Nat],
         Moves(b, x, 0), Moves(s, z, y),
         \A v \in User \ {b, s} : Purse(v)' = Purse(v) /\ grant'[v] = grant[v],
         NEW i,
         \A v \in User :
           /\ NetOf(order'[i], v) - NetOf(order[i], v) = (IF v = b THEN x ELSE IF v = s THEN z ELSE 0)
           /\ HeldOf(order'[i], v) - HeldOf(order[i], v) = (IF v = s THEN y ELSE 0)
  PROVE  \A u \in User : Shifts(i, u)
  <1> TAKE u \in User
  <1>1. CASE u = b
    BY <1>1 DEF Shifts
  <1>2. CASE u = s
    BY <1>2 DEF Shifts
  <1>3. CASE u \notin {b, s}
    <2>1. Purse(u).balance \in Nat /\ Purse(u).pending \in Nat /\ grant[u] \in Nat
      BY PurseType
    <2>2. Purse(u)' = Purse(u) /\ grant'[u] = grant[u]
      BY <1>3
    <2>3. Moves(u, 0, 0)
      BY <2>1, <2>2 DEF Moves
    <2> QED
      BY <1>3, <2>3 DEF Shifts
  <1> QED
    BY <1>1, <1>2, <1>3

Kept == \A v \in User : wallet[v] # None => wallet'[v] # None

LEMMA GiveBackShifts ==
  ASSUME MoneyFacts, NEW w \in Worker, CancelOrder_Tx(w) \/ RejectBuyer_Tx(w)
  PROVE  (\A u \in User : Shifts(req[w].id, u)) /\ Kept
  <1> PICK b, s, a, i : b = req[w].row.buyer /\ s = req[w].row.seller /\ a = req[w].row.amount /\ i = req[w].id
    OBVIOUS
  <1>1. pc[w] = "begun" /\ GiveBack(w) /\ req[w].op \in {"cancel", "reject"}
    BY DEF CancelOrder_Tx, RejectBuyer_Tx, Running
  <1>2. PICK X, Y : X = Found(snap[w].buyer, EmptyWallet) /\ Y = snap[w].seller
    OBVIOUS
  <1>3. /\ b \in User /\ s \in User /\ a \in Nat /\ b # s /\ i \in OrderId
        /\ X \in Row(Nat) /\ Y \in Row(Nat) /\ Y # None
        /\ order[i] # None /\ SameDeal(order[i], req[w].row) /\ snap[w].status = order[i].status
        /\ order[i].status \in {"pending", "confirmed"}
    BY <1>1, <1>2, Known DEF GiveBack, EscrowCovers, LoadedStatus
  <1>4. Y.pending >= a /\ CanInsert(b, snap[w].buyer) /\ UNCHANGED grant
        /\ wallet' = ReturnEscrow(b, s, a, X, Y) /\ SaveStatus(w, "cancelled")
    BY <1>1, <1>2 DEF GiveBack, EscrowCovers
  <1>5. TypeInv /\ wallet \in Table(Nat) /\ grant \in [User -> Nat]
    BY DEF MoneyFacts, RecordsInv, RewardInv, MoneyInv, TypeInv, TypeOK
  <1>6. /\ X.balance \in Nat /\ X.pending \in Nat /\ Y.balance \in Nat /\ Y.pending \in Nat
        /\ X.balance + a \in Nat /\ Y.pending - a \in Nat
    BY <1>3, <1>4 DEF Row
  <1>7. Y.pending = Purse(s).pending /\ (apart => X.balance = Purse(b).balance)
    <2>1. Current(snap[w].buyer, b) /\ Current(Y, s)
      BY <1>1, <1>2, Known
    <2>2. apart => X.balance = Purse(b).balance
      BY <1>2, <1>3, <1>4, <1>5, <2>1, CurrentIs
    <2>3. Y.pending = Purse(s).pending
      BY <1>3, <1>5, <2>1, PurseType DEF Current
    <2> QED
      BY <2>2, <2>3
  <1>8. /\ Purse(b).pending \in Nat /\ Purse(b).balance \in Nat
        /\ Purse(s).balance \in Nat /\ Purse(s).pending \in Nat
    BY <1>3, <1>5, PurseType
  <1>9. wallet' = SetRow(SetRow(wallet, b, X.balance + a, Purse(b).pending),
                         s, Purse(s).balance, Y.pending - a)
    BY <1>3, <1>4, <1>5, ReturnEscrowIs
  <1>10. /\ Purse(b)'.balance = X.balance + a /\ Purse(b)'.pending = Purse(b).pending
         /\ Purse(s)'.balance = Purse(s).balance /\ Purse(s)'.pending = Y.pending - a
         /\ wallet'[b] # None /\ wallet'[s] # None
         /\ \A v \in User \ {b, s} : wallet'[v] = wallet[v] /\ Purse(v)' = Purse(v)
    <2>1. PICK x \in Nat, y \in Nat, z \in Nat, t \in Nat :
            x = X.balance + a /\ y = Purse(b).pending /\ z = Purse(s).balance /\ t = Y.pending - a
      BY <1>6, <1>8
    <2>2. wallet' = SetRow(SetRow(wallet, b, x, y), s, z, t)
      BY <1>9, <2>1
    <2>3. /\ Purse(b)'.balance = x /\ Purse(b)'.pending = y
          /\ Purse(s)'.balance = z /\ Purse(s)'.pending = t
          /\ wallet'[b] # None /\ wallet'[s] # None
          /\ \A v \in User \ {b, s} : wallet'[v] = wallet[v] /\ Purse(v)' = Purse(v)
      <3>1. b \in User /\ s \in User /\ b # s /\ wallet \in Table(Nat)
        BY <1>3, <1>5
      <3> QED
        BY <2>2, <3>1, TwoRows
    <2> QED
      BY <2>1, <2>3
  <1>11. Moves(b, a, 0) /\ Moves(s, 0, -a)
    <2>1. grant[b] \in Nat /\ grant[s] \in Nat
      BY <1>3, <1>5
    <2>2. Moves(b, a, 0)
      BY <1>3, <1>4, <1>6, <1>7, <1>8, <1>10, <2>1 DEF Moves
    <2>3. Moves(s, 0, -a)
      BY <1>3, <1>4, <1>6, <1>7, <1>8, <1>10, <2>1 DEF Moves
    <2> QED
      BY <2>2, <2>3
  <1>12. order'[i] # None /\ order'[i].status = "cancelled" /\ SameDeal(order'[i], order[i])
    BY <1>3, <1>4, <1>5, SavedRow DEF Status
  <1>13. ASSUME NEW v \in User
         PROVE  /\ NetOf(order'[i], v) - NetOf(order[i], v) = (IF v = b THEN a ELSE IF v = s THEN 0 ELSE 0)
                /\ HeldOf(order'[i], v) - HeldOf(order[i], v) = (IF v = s THEN -a ELSE 0)
    <2>1. HeldOf(order'[i], v) = 0 /\ NetOf(order'[i], v) = 0
      BY <1>3, <1>12, RowCounts DEF SameDeal
    <2>2. /\ HeldOf(order[i], v) = (IF v = s THEN a ELSE 0)
          /\ NetOf(order[i], v) = (IF v = b THEN -a ELSE 0)
      BY <1>3, RowCounts DEF SameDeal, Open
    <2> QED
      BY <1>3, <2>1, <2>2
  <1>14. PICK n \in Int : n = -a
    BY <1>3
  <1>15. \A v \in User \ {b, s} : Purse(v)' = Purse(v) /\ grant'[v] = grant[v]
    BY <1>4, <1>10
  <1>16. \A u \in User : Shifts(i, u)
    BY <1>3, <1>5, <1>11, <1>13, <1>14, <1>15, TwoMove
  <1>17. Kept
    BY <1>10 DEF Kept
  <1> QED
    BY <1>16, <1>17

LEMMA CreateShifts ==
  ASSUME MoneyFacts, NEW w \in Worker, CreateOrder_Tx(w)
  PROVE  /\ \A u \in User : Shifts(req[w].id, u)
         /\ GrantsOpen' /\ Kept
  <1> PICK b, s, a, i : b = req[w].row.buyer /\ s = req[w].row.seller /\ a = req[w].row.amount /\ i = req[w].id
    OBVIOUS
  <1>1. pc[w] = "begun" /\ req[w].op = "create"
    BY DEF CreateOrder_Tx, Running
  <1>2. PICK X, Y : X = Found(snap[w].buyer, OpeningWallet) /\ Y = Found(snap[w].seller, EmptyWallet)
    OBVIOUS
  <1>3. /\ b \in User /\ s \in User /\ a \in Nat /\ b # s /\ i \in OrderId
        /\ X \in Row(Nat) /\ Y \in Row(Nat) /\ order[i] = None
        /\ req[w].row # None /\ req[w].row.status = "pending"
    <2>1. X \in Row(Nat)
      BY <1>1, <1>2, SolventRows DEF MoneyFacts, RecordsInv, RewardInv
    <2> QED
      BY <1>1, <1>2, <2>1, Known DEF LoadedStatus
  <1>4. /\ X.balance >= a /\ CanInsert(b, snap[w].buyer) /\ CanInsert(s, snap[w].seller)
        /\ wallet' = Pay(b, s, a, X, Y) /\ order' = [order EXCEPT ![i] = req[w].row]
        /\ grant' = IF snap[w].buyer = None THEN [grant EXCEPT ![b] = InitialBalance] ELSE grant
    BY <1>2 DEF CreateOrder_Tx, CanPay
  <1>5. /\ TypeInv /\ wallet \in Table(Nat) /\ grant \in [User -> Nat] /\ GrantsOpen
        /\ order \in [OrderId -> OrderRow \cup {None}]
    BY DEF MoneyFacts, RecordsInv, RewardInv, MoneyInv, TypeInv, TypeOK, BooksInv
  <1>6. /\ X.balance \in Nat /\ X.pending \in Nat /\ Y.balance \in Nat /\ Y.pending \in Nat
        /\ X.balance - a \in Nat /\ Y.pending + a \in Nat
    BY <1>3, <1>4 DEF Row
  <1>7. Y.pending = Purse(s).pending
    <2>1. Current(snap[w].seller, s)
      BY <1>1, Known
    <2> QED
      BY <1>2, <1>3, <1>4, <1>5, <2>1, CurrentIs
  <1>8. /\ Purse(b).pending \in Nat /\ Purse(b).balance \in Nat
        /\ Purse(s).balance \in Nat /\ Purse(s).pending \in Nat
    BY <1>3, <1>5, PurseType
  <1>9. grant'[b] \in Nat /\ (apart => X.balance - grant'[b] = Purse(b).balance - grant[b])
    <2>1. CASE snap[w].buyer = None
      <3>1. wallet[b] = None
        BY <1>4, <2>1 DEF CanInsert
      <3>2. grant[b] = 0 /\ Purse(b).balance = 0
        BY <1>3, <1>5, <3>1, PurseType DEF GrantsOpen
      <3>3. X.balance = InitialBalance /\ grant'[b] = InitialBalance
        BY <1>2, <1>3, <1>4, <1>5, <2>1 DEF Found, OpeningWallet
      <3> QED
        BY <3>2, <3>3, ConstantsOK
    <2>2. CASE snap[w].buyer # None
      <3>1. X = snap[w].buyer /\ grant'[b] = grant[b]
        BY <1>2, <1>4, <2>2 DEF Found
      <3>2. Current(snap[w].buyer, b)
        BY <1>1, Known
      <3>3. apart => X.balance = Purse(b).balance
        BY <1>3, <1>5, <2>2, <3>1, <3>2, PurseType DEF Current
      <3>4. grant[b] \in Nat
        BY <1>3, <1>5
      <3> QED
        BY <1>6, <1>8, <3>1, <3>3, <3>4
    <2> QED
      BY <2>1, <2>2
  <1>10. wallet' = SetRow(SetRow(wallet, b, X.balance - a, Purse(b).pending),
                          s, Purse(s).balance, Y.pending + a)
    BY <1>3, <1>4, <1>5, PayIs
  <1>11. /\ Purse(b)'.balance = X.balance - a /\ Purse(b)'.pending = Purse(b).pending
         /\ Purse(s)'.balance = Purse(s).balance /\ Purse(s)'.pending = Y.pending + a
         /\ wallet'[b] # None /\ wallet'[s] # None
         /\ \A v \in User \ {b, s} : wallet'[v] = wallet[v] /\ Purse(v)' = Purse(v)
    <2>1. PICK x \in Nat, y \in Nat, z \in Nat, t \in Nat :
            x = X.balance - a /\ y = Purse(b).pending /\ z = Purse(s).balance /\ t = Y.pending + a
      BY <1>6, <1>8
    <2>2. wallet' = SetRow(SetRow(wallet, b, x, y), s, z, t)
      BY <1>10, <2>1
    <2>3. /\ Purse(b)'.balance = x /\ Purse(b)'.pending = y
          /\ Purse(s)'.balance = z /\ Purse(s)'.pending = t
          /\ wallet'[b] # None /\ wallet'[s] # None
          /\ \A v \in User \ {b, s} : wallet'[v] = wallet[v] /\ Purse(v)' = Purse(v)
      <3>1. b \in User /\ s \in User /\ b # s /\ wallet \in Table(Nat)
        BY <1>3, <1>5
      <3> QED
        BY <2>2, <3>1, TwoRows
    <2> QED
      BY <2>1, <2>3
  <1>12. \A v \in User \ {b} : grant'[v] = grant[v]
    BY <1>4, <1>5
  <1>13. PICK n \in Int : n = -a
    BY <1>3
  <1>14. Moves(b, n, 0) /\ Moves(s, 0, a)
    <2>1. grant[b] \in Nat /\ grant[s] \in Nat /\ grant'[s] = grant[s]
      BY <1>3, <1>5, <1>12
    <2>2. Moves(b, n, 0)
      BY <1>3, <1>6, <1>8, <1>9, <1>11, <1>13, <2>1 DEF Moves
    <2>3. Moves(s, 0, a)
      BY <1>3, <1>6, <1>7, <1>8, <1>11, <2>1 DEF Moves
    <2> QED
      BY <2>2, <2>3
  <1>15. ASSUME NEW v \in User
         PROVE  /\ NetOf(order'[i], v) - NetOf(order[i], v) = (IF v = b THEN n ELSE IF v = s THEN 0 ELSE 0)
                /\ HeldOf(order'[i], v) - HeldOf(order[i], v) = (IF v = s THEN a ELSE 0)
    <2>1. order'[i] = req[w].row
      BY <1>3, <1>4, <1>5
    <2>2. /\ HeldOf(order'[i], v) = (IF v = s THEN a ELSE 0)
          /\ NetOf(order'[i], v) = (IF v = b THEN -a ELSE 0)
      BY <1>3, <2>1, RowCounts DEF Open
    <2>3. HeldOf(order[i], v) = 0 /\ NetOf(order[i], v) = 0
      BY <1>3 DEF HeldOf, NetOf
    <2> QED
      BY <1>3, <1>13, <2>2, <2>3
  <1>16. \A v \in User \ {b, s} : Purse(v)' = Purse(v) /\ grant'[v] = grant[v]
    BY <1>11, <1>12
  <1>17. \A u \in User : Shifts(i, u)
    BY <1>3, <1>5, <1>14, <1>15, <1>16, TwoMove
  <1>18. GrantsOpen'
    BY <1>3, <1>5, <1>11, <1>12 DEF GrantsOpen
  <1>19. Kept
    BY <1>11 DEF Kept
  <1> QED
    BY <1>17, <1>18, <1>19

LEMMA ConfirmShifts ==
  ASSUME MoneyFacts, NEW w \in Worker, BuyerConfirmReceived_Tx(w)
  PROVE  (\A u \in User : Shifts(req[w].id, u)) /\ Kept
  <1> PICK b, s, a, i : b = req[w].row.buyer /\ s = req[w].row.seller /\ a = req[w].row.amount /\ i = req[w].id
    OBVIOUS
  <1>1. pc[w] = "begun" /\ req[w].op = "confirm"
    BY DEF BuyerConfirmReceived_Tx, Running
  <1>2. PICK Y : Y = snap[w].seller
    OBVIOUS
  <1>3. /\ b \in User /\ s \in User /\ a \in Nat /\ b # s /\ i \in OrderId
        /\ Y \in Row(Nat) /\ Y # None
        /\ order[i] # None /\ SameDeal(order[i], req[w].row) /\ snap[w].status = order[i].status
        /\ order[i].status = "shipping"
    BY <1>1, <1>2, Known DEF BuyerConfirmReceived_Tx, EscrowCovers, LoadedStatus
  <1>4. /\ Y.pending >= a /\ UNCHANGED grant
        /\ wallet' = SetRow(wallet, s, Y.balance + a, Y.pending - a) /\ SaveStatus(w, "delivered")
    BY <1>2 DEF BuyerConfirmReceived_Tx, EscrowCovers
  <1>5. TypeInv /\ wallet \in Table(Nat) /\ grant \in [User -> Nat]
    BY DEF MoneyFacts, RecordsInv, RewardInv, MoneyInv, TypeInv, TypeOK
  <1>6. /\ Y.balance \in Nat /\ Y.pending \in Nat
        /\ Y.balance + a \in Nat /\ Y.pending - a \in Nat
    BY <1>3, <1>4 DEF Row
  <1>7. Y.pending = Purse(s).pending /\ (apart => Y.balance = Purse(s).balance)
    <2>1. Current(Y, s)
      BY <1>1, <1>2, Known
    <2> QED
      BY <1>3, <1>5, <2>1, PurseType DEF Current
  <1>8. /\ Purse(b).pending \in Nat /\ Purse(b).balance \in Nat
        /\ Purse(s).balance \in Nat /\ Purse(s).pending \in Nat
    BY <1>3, <1>5, PurseType
  <1>9. /\ Purse(s)'.balance = Y.balance + a /\ Purse(s)'.pending = Y.pending - a
        /\ wallet'[s] # None
        /\ \A v \in User \ {s} : wallet'[v] = wallet[v] /\ Purse(v)' = Purse(v)
    BY <1>3, <1>4, <1>5, <1>6, SetRowPurse
  <1>10. PICK n \in Int : n = -a
    BY <1>3
  <1>11. Moves(b, 0, 0) /\ Moves(s, a, n)
    <2>1. grant[b] \in Nat /\ grant[s] \in Nat
      BY <1>3, <1>5
    <2>2. Moves(b, 0, 0)
      BY <1>3, <1>4, <1>8, <1>9, <2>1 DEF Moves
    <2>3. Moves(s, a, n)
      BY <1>3, <1>4, <1>6, <1>7, <1>8, <1>9, <1>10, <2>1 DEF Moves
    <2> QED
      BY <2>2, <2>3
  <1>12. order'[i] # None /\ order'[i].status = "delivered" /\ SameDeal(order'[i], order[i])
    BY <1>3, <1>4, <1>5, SavedRow DEF Status
  <1>13. ASSUME NEW v \in User
         PROVE  /\ NetOf(order'[i], v) - NetOf(order[i], v) = (IF v = b THEN 0 ELSE IF v = s THEN a ELSE 0)
                /\ HeldOf(order'[i], v) - HeldOf(order[i], v) = (IF v = s THEN n ELSE 0)
    <2>1. /\ HeldOf(order'[i], v) = 0
          /\ NetOf(order'[i], v) = (IF v = s THEN a ELSE IF v = b THEN -a ELSE 0)
      BY <1>3, <1>12, RowCounts DEF SameDeal
    <2>2. /\ HeldOf(order[i], v) = (IF v = s THEN a ELSE 0)
          /\ NetOf(order[i], v) = (IF v = b THEN -a ELSE 0)
      BY <1>3, RowCounts DEF SameDeal, Open
    <2> QED
      BY <1>3, <1>10, <2>1, <2>2
  <1>14. \A v \in User \ {b, s} : Purse(v)' = Purse(v) /\ grant'[v] = grant[v]
    BY <1>4, <1>9
  <1>15. \A u \in User : Shifts(i, u)
    BY <1>3, <1>5, <1>11, <1>13, <1>14, TwoMove
  <1>16. Kept
    BY <1>9 DEF Kept
  <1> QED
    BY <1>15, <1>16

LEMMA RefundShifts ==
  ASSUME MoneyFacts, NEW w \in Worker, RefundOrder_Tx(w)
  PROVE  (\A u \in User : Shifts(req[w].id, u)) /\ Kept
  <1> PICK b, s, a, i : b = req[w].row.buyer /\ s = req[w].row.seller /\ a = req[w].row.amount /\ i = req[w].id
    OBVIOUS
  <1>1. pc[w] = "begun" /\ req[w].op = "refund"
    BY DEF RefundOrder_Tx, Running
  <1>2. PICK X, Y : X = Found(snap[w].buyer, EmptyWallet) /\ Y = snap[w].seller
    OBVIOUS
  <1>3. /\ b \in User /\ s \in User /\ a \in Nat /\ b # s /\ i \in OrderId
        /\ X \in Row(Nat) /\ Y \in Row(Nat) /\ Y # None
        /\ order[i] # None /\ SameDeal(order[i], req[w].row) /\ snap[w].status = order[i].status
        /\ order[i].status = "delivered"
    BY <1>1, <1>2, Known DEF RefundOrder_Tx, BalanceCovers, LoadedStatus
  <1>4. Y.balance >= a /\ CanInsert(b, snap[w].buyer) /\ UNCHANGED grant
        /\ wallet' = TakeBack(b, s, a, X, Y) /\ SaveStatus(w, "refunded")
    BY <1>1, <1>2 DEF RefundOrder_Tx, BalanceCovers
  <1>5. TypeInv /\ wallet \in Table(Nat) /\ grant \in [User -> Nat]
    BY DEF MoneyFacts, RecordsInv, RewardInv, MoneyInv, TypeInv, TypeOK
  <1>6. /\ X.balance \in Nat /\ X.pending \in Nat /\ Y.balance \in Nat /\ Y.pending \in Nat
        /\ X.balance + a \in Nat /\ Y.balance - a \in Nat
    BY <1>3, <1>4 DEF Row
  <1>7. apart => Y.balance = Purse(s).balance /\ X.balance = Purse(b).balance
    <2>1. Current(snap[w].buyer, b) /\ Current(Y, s)
      BY <1>1, <1>2, Known
    <2>2. apart => X.balance = Purse(b).balance
      BY <1>2, <1>3, <1>4, <1>5, <2>1, CurrentIs
    <2>3. apart => Y.balance = Purse(s).balance
      BY <1>3, <1>5, <2>1, PurseType DEF Current
    <2> QED
      BY <2>2, <2>3
  <1>8. /\ Purse(b).pending \in Nat /\ Purse(b).balance \in Nat
        /\ Purse(s).balance \in Nat /\ Purse(s).pending \in Nat
    BY <1>3, <1>5, PurseType
  <1>9. wallet' = SetRow(SetRow(wallet, b, X.balance + a, Purse(b).pending),
                         s, Y.balance - a, Purse(s).pending)
    BY <1>3, <1>4, <1>5, TakeBackIs
  <1>10. /\ Purse(b)'.balance = X.balance + a /\ Purse(b)'.pending = Purse(b).pending
         /\ Purse(s)'.balance = Y.balance - a /\ Purse(s)'.pending = Purse(s).pending
         /\ wallet'[b] # None /\ wallet'[s] # None
         /\ \A v \in User \ {b, s} : wallet'[v] = wallet[v] /\ Purse(v)' = Purse(v)
    <2>1. PICK x \in Nat, y \in Nat, z \in Nat, t \in Nat :
            x = X.balance + a /\ y = Purse(b).pending /\ z = Y.balance - a /\ t = Purse(s).pending
      BY <1>6, <1>8
    <2>2. wallet' = SetRow(SetRow(wallet, b, x, y), s, z, t)
      BY <1>9, <2>1
    <2>3. /\ Purse(b)'.balance = x /\ Purse(b)'.pending = y
          /\ Purse(s)'.balance = z /\ Purse(s)'.pending = t
          /\ wallet'[b] # None /\ wallet'[s] # None
          /\ \A v \in User \ {b, s} : wallet'[v] = wallet[v] /\ Purse(v)' = Purse(v)
      <3>1. b \in User /\ s \in User /\ b # s /\ wallet \in Table(Nat)
        BY <1>3, <1>5
      <3> QED
        BY <2>2, <3>1, TwoRows
    <2> QED
      BY <2>1, <2>3
  <1>11. PICK n \in Int : n = -a
    BY <1>3
  <1>12. Moves(b, a, 0) /\ Moves(s, n, 0)
    <2>1. grant[b] \in Nat /\ grant[s] \in Nat
      BY <1>3, <1>5
    <2>2. Moves(b, a, 0)
      BY <1>3, <1>4, <1>6, <1>7, <1>8, <1>10, <2>1 DEF Moves
    <2>3. Moves(s, n, 0)
      BY <1>3, <1>4, <1>6, <1>7, <1>8, <1>10, <1>11, <2>1 DEF Moves
    <2> QED
      BY <2>2, <2>3
  <1>13. order'[i] # None /\ order'[i].status = "refunded" /\ SameDeal(order'[i], order[i])
    BY <1>3, <1>4, <1>5, SavedRow DEF Status
  <1>14. ASSUME NEW v \in User
         PROVE  /\ NetOf(order'[i], v) - NetOf(order[i], v) = (IF v = b THEN a ELSE IF v = s THEN n ELSE 0)
                /\ HeldOf(order'[i], v) - HeldOf(order[i], v) = (IF v = s THEN 0 ELSE 0)
    <2>1. HeldOf(order'[i], v) = 0 /\ NetOf(order'[i], v) = 0
      BY <1>3, <1>13, RowCounts DEF SameDeal
    <2>2. /\ HeldOf(order[i], v) = 0
          /\ NetOf(order[i], v) = (IF v = s THEN a ELSE IF v = b THEN -a ELSE 0)
      BY <1>3, RowCounts DEF SameDeal
    <2> QED
      BY <1>3, <1>11, <2>1, <2>2
  <1>15. \A v \in User \ {b, s} : Purse(v)' = Purse(v) /\ grant'[v] = grant[v]
    BY <1>4, <1>10
  <1>16. \A u \in User : Shifts(i, u)
    BY <1>3, <1>5, <1>12, <1>14, <1>15, TwoMove
  <1>17. Kept
    BY <1>10 DEF Kept
  <1> QED
    BY <1>16, <1>17

LEMMA RowCountsType ==
  \A row \in OrderRow \cup {None} : \A u : HeldOf(row, u) \in Int /\ NetOf(row, u) \in Int
  <1> TAKE row \in OrderRow \cup {None}
  <1> TAKE u
  <1>1. row # None => row.amount \in Int
    <2>1. row # None => row.amount \in Amount
      BY DEF OrderRow
    <2>2. Amount \subseteq Int
      BY ConstantsOK
    <2> QED
      BY <2>1, <2>2
  <1> QED
    BY <1>1 DEF HeldOf, NetOf

\* What orders and proofs count for is a number.
LEMMA CountsType ==
  ASSUME TypeInv, ProofsOK, NEW u
  PROVE  /\ \A o \in OrderId : HeldOf(order[o], u) \in Int /\ NetOf(order[o], u) \in Int
         /\ \A o \in OrderId : Held(u)[o] = HeldOf(order[o], u) /\ Net(u)[o] = NetOf(order[o], u)
         /\ \A p \in Proof : Won(u)[p] \in Int
  <1>1. ASSUME NEW o \in OrderId PROVE HeldOf(order[o], u) \in Int /\ NetOf(order[o], u) \in Int
    BY RowCountsType DEF TypeInv, TypeOK
  <1>2. \A p \in Proof : Won(u)[p] \in Int
    BY CoinsOK DEF ProofsOK, Won
  <1> QED
    BY <1>1, <1>2 DEF Held, Net

LEMMA TotalsType ==
  ASSUME TypeInv, ProofsOK, IsFiniteSet(Placed), IsFiniteSet(Made), NEW u
  PROVE  /\ Total(Held(u), Placed) \in Int /\ Total(Net(u), Placed) \in Int
         /\ Total(Won(u), Made) \in Int
  <1>1. \A o \in Placed : Held(u)[o] \in Int /\ Net(u)[o] \in Int
    BY CountsType DEF Placed
  <1>2. \A p \in Made : Won(u)[p] \in Int
    BY CountsType DEF Made
  <1> QED
    BY <1>1, <1>2, TotalType

\* The writes that leave the wallets alone leave the order open.
LEMMA StatusShifts ==
  ASSUME MoneyFacts, NEW w \in Worker,
         AcceptBuyer_Tx(w) \/ SellerMarkAsShipped_Save(w) \/ EditPurchase_Save(w)
  PROVE  \A u \in User : Shifts(req[w].id, u)
  <1> PICK b, s, a, i : b = req[w].row.buyer /\ s = req[w].row.seller /\ a = req[w].row.amount /\ i = req[w].id
    OBVIOUS
  <1>1. pc[w] = "begun" /\ req[w].op \in {"accept", "ship", "edit"} /\ UNCHANGED <<wallet, grant>>
    BY DEF AcceptBuyer_Tx, SellerMarkAsShipped_Save, EditPurchase_Save, Running
  <1>2. PICK t \in {"pending", "confirmed", "shipping"} : SaveStatus(w, t)
    <2>1. req[w].row.status \in {"pending", "confirmed"}
      BY <1>1, Known DEF LoadedStatus
    <2> QED
      BY <2>1 DEF AcceptBuyer_Tx, SellerMarkAsShipped_Save, EditPurchase_Save
  <1>3. /\ b \in User /\ s \in User /\ a \in Nat /\ b # s /\ i \in OrderId
        /\ order[i] # None /\ SameDeal(order[i], req[w].row) /\ snap[w].status = order[i].status
        /\ order[i].status \in {"pending", "confirmed"}
    BY <1>1, Known DEF LoadedStatus
  <1>4. TypeInv /\ wallet \in Table(Nat) /\ grant \in [User -> Nat]
    BY DEF MoneyFacts, RecordsInv, RewardInv, MoneyInv, TypeInv, TypeOK
  <1>5. order'[i] # None /\ order'[i].status = t /\ SameDeal(order'[i], order[i])
    <2>1. t \in Status
      BY DEF Status
    <2> QED
      BY <1>2, <1>3, <1>4, <2>1, SavedRow
  <1>6. \A v \in User : Purse(v)' = Purse(v) /\ grant'[v] = grant[v]
    BY <1>1 DEF Purse
  <1>7. Moves(b, 0, 0) /\ Moves(s, 0, 0)
    <2>1. /\ Purse(b).pending \in Nat /\ Purse(b).balance \in Nat /\ grant[b] \in Nat
          /\ Purse(s).balance \in Nat /\ Purse(s).pending \in Nat /\ grant[s] \in Nat
      BY <1>3, <1>4, PurseType
    <2> QED
      BY <1>3, <1>6, <2>1 DEF Moves
  <1>8. ASSUME NEW v \in User
        PROVE  /\ NetOf(order'[i], v) - NetOf(order[i], v) = (IF v = b THEN 0 ELSE IF v = s THEN 0 ELSE 0)
               /\ HeldOf(order'[i], v) - HeldOf(order[i], v) = (IF v = s THEN 0 ELSE 0)
    <2>1. /\ HeldOf(order'[i], v) = (IF v = s THEN a ELSE 0)
          /\ NetOf(order'[i], v) = (IF v = b THEN -a ELSE 0)
      BY <1>3, <1>5, RowCounts DEF SameDeal, Open
    <2>2. /\ HeldOf(order[i], v) = (IF v = s THEN a ELSE 0)
          /\ NetOf(order[i], v) = (IF v = b THEN -a ELSE 0)
      BY <1>3, RowCounts DEF SameDeal, Open
    <2> QED
      BY <1>3, <2>1, <2>2
  <1>9. \A u \in User : Shifts(i, u)
    BY <1>3, <1>4, <1>6, <1>7, <1>8, TwoMove
  <1> QED
    BY <1>9

LEMMA TimelineShifts ==
  ASSUME MoneyFacts, NEW w \in Worker, SellerMarkAsShipped_Timeline(w), req[w].id \in OrderId
  PROVE  \A u \in User : Shifts(req[w].id, u)
  <1> TAKE u \in User
  <1> PICK i \in OrderId : i = req[w].id
    OBVIOUS
  <1>1. UNCHANGED <<wallet, order, grant>>
    BY DEF SellerMarkAsShipped_Timeline
  <1>2. TypeInv /\ ProofsOK /\ wallet \in Table(Nat) /\ grant \in [User -> Nat]
    BY DEF MoneyFacts, RecordsInv, RewardInv, MoneyInv, TypeInv, TypeOK
  <1>3. /\ Purse(u).pending \in Nat /\ Purse(u).balance \in Nat /\ grant[u] \in Nat
        /\ HeldOf(order[i], u) \in Int /\ NetOf(order[i], u) \in Int
    BY <1>2, PurseType, CountsType
  <1>4. Purse(u)' = Purse(u)
    BY <1>1 DEF Purse
  <1> QED
    BY <1>1, <1>3, <1>4 DEF Shifts, Moves

\* A write adds one order or changes it, and keeps the deal.
OneDeal(i) ==
  /\ \A o \in OrderId \ {i} : order'[o] = order[o]
  /\ order'[i] # None /\ order'[i].buyer # order'[i].seller
  /\ order[i] # None => SameDeal(order'[i], order[i])

LEMMA WritesOneDeal ==
  ASSUME MoneyFacts, NEW w \in Worker, Writes(w), NEW i \in OrderId, i = req[w].id
  PROVE  OneDeal(i)
  <1>1. TypeInv /\ Deals
    BY DEF MoneyFacts, RecordsInv, RewardInv, BooksInv
  <1>2. order \in [OrderId -> OrderRow \cup {None}]
    BY <1>1 DEF TypeInv, TypeOK
  <1>3. CASE CreateOrder_Tx(w)
    <2>1. pc[w] = "begun" /\ req[w].op = "create" /\ order' = [order EXCEPT ![i] = req[w].row]
      BY <1>3 DEF CreateOrder_Tx, Running
    <2>2. order[i] = None /\ req[w].row # None /\ req[w].row.buyer # req[w].row.seller
      BY <2>1, Known
    <2> QED
      BY <1>2, <2>1, <2>2 DEF OneDeal
  <1>4. CASE SellerMarkAsShipped_Timeline(w)
    <2>1. pc[w] = "saved" /\ UNCHANGED order
      BY <1>4 DEF SellerMarkAsShipped_Timeline
    <2>2. req[w] # None
      BY <1>1, <2>1 DEF TypeInv, TypeOK
    <2>3. req[w].op = "ship"
      BY <2>1, <2>2 DEF MoneyFacts, SerialInv, Fresh
    <2>4. order[i] # None
      BY <1>1, <2>2, <2>3 DEF TypeInv, LoadedExists
    <2> QED
      BY <1>1, <2>1, <2>4 DEF OneDeal, Deals, Placed, SameDeal
  <1>5. CASE ~CreateOrder_Tx(w) /\ ~SellerMarkAsShipped_Timeline(w)
    <2>1. pc[w] = "begun" /\ req[w].op # "create"
      BY <1>5 DEF Writes, CancelOrder_Tx, RejectBuyer_Tx, AcceptBuyer_Tx, SellerMarkAsShipped_Save,
           BuyerConfirmReceived_Tx, RefundOrder_Tx, EditPurchase_Save, Running
    <2>2. /\ order[i] # None /\ snap[w].status = order[i].status /\ req[w].row.status = order[i].status
      BY <2>1, Known
    <2>3. req[w].row.status \in Status
      BY <1>1, <2>1, RunningType DEF TypeInv
    <2>4. \E t \in Status : SaveStatus(w, t)
      BY <1>5, <2>3 DEF Writes, CancelOrder_Tx, RejectBuyer_Tx, GiveBack, AcceptBuyer_Tx, SellerMarkAsShipped_Save,
           BuyerConfirmReceived_Tx, RefundOrder_Tx, EditPurchase_Save, Status
    <2>5. PICK t \in Status : SaveStatus(w, t)
      BY <2>4
    <2>6. order'[i] # None /\ SameDeal(order'[i], order[i])
      BY <1>1, <2>2, <2>5, SavedRow
    <2>7. \A o \in OrderId \ {i} : order'[o] = order[o]
      BY <1>2, <2>5 DEF SaveStatus
    <2>8. order[i].buyer # order[i].seller
      BY <1>1, <2>2 DEF Deals, Placed
    <2> QED
      BY <2>6, <2>7, <2>8 DEF OneDeal, SameDeal
  <1> QED
    BY <1>3, <1>4, <1>5

LEMMA WritesShift ==
  ASSUME MoneyFacts, NEW w \in Worker, Writes(w)
  PROVE  /\ req[w].id \in OrderId /\ pc[w] # "idle"
         /\ \A u \in User : Shifts(req[w].id, u)
         /\ GrantsOpen'
  <1>1. pc[w] \in {"begun", "saved"}
    BY DEF Writes, CreateOrder_Tx, CancelOrder_Tx, RejectBuyer_Tx, AcceptBuyer_Tx,
       SellerMarkAsShipped_Save, SellerMarkAsShipped_Timeline, BuyerConfirmReceived_Tx,
       RefundOrder_Tx, EditPurchase_Save, Running
  <1>2. TypeInv /\ GrantsOpen /\ wallet \in Table(Nat)
    BY DEF MoneyFacts, RecordsInv, RewardInv, BooksInv, MoneyInv
  <1>3. req[w].id \in OrderId
    BY <1>1, <1>2, RunningType DEF TypeInv
  <1>4. \A u \in User : Shifts(req[w].id, u)
    BY <1>3, GiveBackShifts, CreateShifts, ConfirmShifts, RefundShifts, StatusShifts, TimelineShifts
    DEF Writes
  <1>5. ASSUME ~CreateOrder_Tx(w) PROVE GrantsOpen'
    <2>1. UNCHANGED grant
      BY <1>5 DEF Writes, CancelOrder_Tx, RejectBuyer_Tx, GiveBack, AcceptBuyer_Tx,
         SellerMarkAsShipped_Save, SellerMarkAsShipped_Timeline, BuyerConfirmReceived_Tx,
         RefundOrder_Tx, EditPurchase_Save
    <2>2. Kept
      <3>1. CASE UNCHANGED wallet
        BY <3>1 DEF Kept
      <3>2. CASE ~UNCHANGED wallet
        BY <1>5, <3>2, GiveBackShifts, ConfirmShifts, RefundShifts
        DEF Writes, AcceptBuyer_Tx, SellerMarkAsShipped_Save, SellerMarkAsShipped_Timeline, EditPurchase_Save
      <3> QED
        BY <3>1, <3>2
    <2> QED
      BY <1>2, <2>1, <2>2 DEF GrantsOpen, Kept
  <1>6. ASSUME CreateOrder_Tx(w) PROVE GrantsOpen'
    BY <1>6, CreateShifts
  <1> QED
    BY <1>1, <1>3, <1>4, <1>5, <1>6

\* Totals over the orders when one order is written.
LEMMA TallyWritten ==
  ASSUME MoneyFacts, RecordsInv', NEW i \in OrderId, OneDeal(i), NEW u \in User,
         UNCHANGED rewards, Shifts(i, u)
  PROVE  Tally(u)'
  <1>1. /\ TypeInv /\ TypeInv' /\ ProofsOK /\ ProofsOK' /\ IsFiniteSet(Placed) /\ IsFiniteSet(Made)
        /\ Tally(u) /\ wallet \in Table(Nat) /\ grant \in [User -> Nat]
    BY DEF MoneyFacts, RecordsInv, RewardInv, MoneyInv, BooksInv, TypeInv, TypeOK
  <1>2. /\ \A o \in OrderId : Held(u)[o] \in Int /\ Net(u)[o] \in Int
        /\ Held(u)[i] = HeldOf(order[i], u) /\ Net(u)[i] = NetOf(order[i], u)
    BY <1>1, CountsType
  <1>3. /\ \A o \in OrderId : Held(u)'[o] \in Int /\ Net(u)'[o] \in Int
        /\ Held(u)'[i] = HeldOf(order'[i], u) /\ Net(u)'[i] = NetOf(order'[i], u)
    <2>1. \A o \in OrderId : order'[o] \in OrderRow \cup {None}
      BY <1>1 DEF TypeInv, TypeOK
    <2>2. \A o \in OrderId : HeldOf(order'[o], u) \in Int /\ NetOf(order'[o], u) \in Int
      BY <2>1, RowCountsType
    <2>3. \A o \in OrderId : Held(u)'[o] = HeldOf(order'[o], u) /\ Net(u)'[o] = NetOf(order'[o], u)
      BY DEF Held, Net, HeldOf, NetOf
    <2> QED
      BY <2>2, <2>3
  <1>4. PICK h, k, g, m, P, Q :
          /\ h = Held(u) /\ k = Held(u)' /\ g = Net(u) /\ m = Net(u)'
          /\ P = Placed /\ Q = Placed'
    OBVIOUS
  <1>5. Q = P \cup {i} /\ P \subseteq OrderId
    BY <1>4 DEF OneDeal, Placed
  <1>0. IsFiniteSet(P)
    BY <1>1, <1>4
  <1>6. \A o \in OrderId \ {i} : h[o] = k[o] /\ g[o] = m[o]
    BY <1>4 DEF OneDeal, Held, Net, HeldOf, NetOf
  <1>7. i \notin P => h[i] = 0 /\ g[i] = 0
    <2>1. i \notin P => order[i] = None
      BY <1>4 DEF Placed
    <2> QED
      BY <1>2, <1>4, <2>1 DEF HeldOf, NetOf
  <1>8. Total(k, Q) = Total(h, P) + k[i] - h[i]
    <2>1. \A x \in P \cup {i} : h[x] \in Int /\ k[x] \in Int
      BY <1>2, <1>3, <1>4, <1>5
    <2>2. \A x \in P \ {i} : h[x] = k[x]
      BY <1>5, <1>6
    <2>3. i \notin P => h[i] = 0
      BY <1>7
    <2>4. Total(k, P \cup {i}) = Total(h, P) + k[i] - h[i]
      BY <1>0, <2>1, <2>2, <2>3, TotalChange
    <2> QED
      BY <1>5, <2>4
  <1>9. Total(m, Q) = Total(g, P) + m[i] - g[i]
    <2>1. \A x \in P \cup {i} : g[x] \in Int /\ m[x] \in Int
      BY <1>2, <1>3, <1>4, <1>5
    <2>2. \A x \in P \ {i} : g[x] = m[x]
      BY <1>5, <1>6
    <2>3. i \notin P => g[i] = 0
      BY <1>7
    <2>4. Total(m, P \cup {i}) = Total(g, P) + m[i] - g[i]
      BY <1>0, <2>1, <2>2, <2>3, TotalChange
    <2> QED
      BY <1>5, <2>4
  <1>10. Total(h, P) \in Int /\ Total(g, P) \in Int /\ Total(Won(u), Made) \in Int
    BY <1>1, <1>4, TotalsType
  <1>11. Won(u)' = Won(u) /\ Made' = Made /\ apart' = apart
    BY DEF rewards, Won, Made, Owner
  <1>12. Total(Held(u), Placed)' = Total(k, Q) /\ Total(Net(u), Placed)' = Total(m, Q)
         /\ Total(Won(u), Made)' = Total(Won(u), Made)
    BY <1>4, <1>11 DEF Total
  <1>13. /\ h[i] \in Int /\ k[i] \in Int /\ g[i] \in Int /\ m[i] \in Int
         /\ k[i] = HeldOf(order'[i], u) /\ h[i] = HeldOf(order[i], u)
         /\ m[i] = NetOf(order'[i], u) /\ g[i] = NetOf(order[i], u)
    BY <1>2, <1>3, <1>4
  <1>14. Moves(u, m[i] - g[i], k[i] - h[i])
    BY <1>13 DEF Shifts
  <1>15. Purse(u)'.pending = Total(Held(u), Placed)'
    <2>1. Purse(u).pending = Total(h, P) /\ Purse(u)'.pending = Purse(u).pending + (k[i] - h[i])
      BY <1>1, <1>4, <1>14 DEF Tally, Moves
    <2>2. Purse(u)'.pending = Total(k, Q)
      BY <1>8, <1>10, <1>13, <2>1
    <2> QED
      BY <1>12, <2>2
  <1>16. ASSUME apart PROVE Purse(u)'.balance = grant'[u] + Total(Net(u), Placed)' + Total(Won(u), Made)'
    <2>1. PICK x, y, t : x = Total(g, P) /\ y = Total(Won(u), Made) /\ t = Total(m, Q)
      OBVIOUS
    <2>2. Purse(u).balance = grant[u] + x + y
          /\ Purse(u)'.balance - grant'[u] = Purse(u).balance - grant[u] + (m[i] - g[i])
      BY <1>1, <1>4, <1>14, <1>16, <2>1 DEF Tally, Moves
    <2>3. x \in Int /\ y \in Int /\ t = x + m[i] - g[i]
      BY <1>9, <1>10, <2>1
    <2>4. grant[u] \in Nat /\ grant'[u] \in Nat /\ Purse(u).balance \in Nat /\ Purse(u)'.balance \in Nat
      <3>1. RecordsInv' => wallet' \in Table(Nat)
        BY DEF RecordsInv, RewardInv, MoneyInv
      <3>2. Purse(u)' \in Row(Nat)
        <4>1. wallet'[u] \in Row(Nat) \cup {None}
          BY <3>1 DEF Table
        <4> QED
          BY <4>1, FoundType, RowFacts DEF Purse
      <3>3. grant'[u] \in Nat
        BY <1>1 DEF TypeInv, TypeOK
      <3> QED
        BY <1>1, <3>2, <3>3, PurseType DEF Row
    <2>5. Purse(u)'.balance = grant'[u] + t + y
      BY <1>13, <2>2, <2>3, <2>4
    <2> QED
      BY <1>12, <2>1, <2>5
  <1> QED
    BY <1>11, <1>15, <1>16 DEF Tally

\* The tally of u when the orders stay as they are.
LEMMA TallyKept ==
  ASSUME MoneyFacts, NEW u \in User, UNCHANGED <<order, apart>>, Made' = Made, Won(u)' = Won(u),
         Moves(u, 0, 0), RecordsInv'
  PROVE  Tally(u)'
  <1>1. Held(u)' = Held(u) /\ Net(u)' = Net(u) /\ Placed' = Placed
    BY DEF Held, Net, HeldOf, NetOf, Placed
  <1>2. /\ Total(Held(u), Placed)' = Total(Held(u), Placed)
        /\ Total(Net(u), Placed)' = Total(Net(u), Placed)
        /\ Total(Won(u), Made)' = Total(Won(u), Made)
    BY <1>1 DEF Total
  <1>3. /\ TypeInv /\ ProofsOK /\ IsFiniteSet(Placed) /\ IsFiniteSet(Made) /\ Tally(u)
        /\ wallet \in Table(Nat) /\ grant[u] \in Nat /\ wallet' \in Table(Nat) /\ grant'[u] \in Nat
    BY DEF MoneyFacts, RecordsInv, RewardInv, MoneyInv, BooksInv, TypeInv, TypeOK
  <1>4. PICK x \in Int, y \in Int, z \in Int :
          x = Total(Held(u), Placed) /\ y = Total(Net(u), Placed) /\ z = Total(Won(u), Made)
    BY <1>3, TotalsType
  <1>5. /\ Purse(u).pending \in Nat /\ Purse(u).balance \in Nat
        /\ Purse(u)'.pending \in Nat /\ Purse(u)'.balance \in Nat
    <2>1. wallet'[u] \in Row(Nat) \cup {None}
      BY <1>3 DEF Table
    <2>2. Purse(u)' \in Row(Nat)
      BY <2>1, FoundType, RowFacts DEF Purse
    <2> QED
      BY <1>3, <2>2, PurseType DEF Row
  <1>6. Purse(u)'.pending = x
    BY <1>3, <1>4, <1>5 DEF Tally, Moves
  <1>7. apart => Purse(u)'.balance = grant'[u] + y + z
    BY <1>3, <1>4, <1>5 DEF Tally, Moves
  <1> QED
    BY <1>2, <1>4, <1>6, <1>7 DEF Tally

LEMMA WriteBooks ==
  ASSUME MoneyFacts, RecordsInv', OneAtATime, UNCHANGED rewards, apart => NoProof,
         NEW w \in Worker, Writes(w)
  PROVE  BooksInv'
  <1>1. req[w].id \in OrderId /\ pc[w] # "idle" /\ GrantsOpen'
    BY WritesShift
  <1>2. PICK i \in OrderId : i = req[w].id
    BY <1>1
  <1>3. OneDeal(i) /\ \A u \in User : Shifts(i, u)
    BY <1>2, WritesOneDeal, WritesShift
  <1>4. /\ TypeInv /\ TypeInv' /\ IsFiniteSet(Placed) /\ IsFiniteSet(Made) /\ Deals /\ Turns
        /\ \A v \in Worker : Settled(v)
    BY DEF MoneyFacts, RecordsInv, RewardInv, BooksInv
  <1>5. IsFiniteSet(Placed)' /\ IsFiniteSet(Made)'
    <2>1. Placed' = Placed \cup {i}
      BY <1>3 DEF OneDeal, Placed
    <2>2. IsFiniteSet(Placed \cup {i})
      BY <1>4, FS_AddElement
    <2>3. Made' = Made
      BY DEF rewards, Made
    <2> QED
      BY <1>4, <2>1, <2>2, <2>3
  <1>6. Deals'
    BY <1>3, <1>4 DEF OneDeal, Deals, Placed
  <1>7. Turns'
    BY DEF Turns, rewards, NoProof, InFlight
  <1>8. ASSUME NEW v \in Worker PROVE Settled(v)'
    <2>1. v = w \/ req[v] = None
      BY <1>1, <1>4 DEF OneAtATime, TypeInv, TypeOK
    <2>2. CASE Finish(w)
      <3>1. req'[v] = None
        BY <1>4, <2>1, <2>2 DEF Finish, TypeInv, TypeOK
      <3> QED
        BY <3>1 DEF Settled
    <2>3. CASE ~Finish(w)
      <3>1. SellerMarkAsShipped_Save(w)
        BY <2>3 DEF Writes, CreateOrder_Tx, CancelOrder_Tx, RejectBuyer_Tx, GiveBack, AcceptBuyer_Tx,
           SellerMarkAsShipped_Timeline, BuyerConfirmReceived_Tx, RefundOrder_Tx, EditPurchase_Save
      <3>2. req' = req /\ pc'[w] = "saved" /\ req[w].op = "ship" /\ pc[w] = "begun"
        BY <1>4, <3>1 DEF SellerMarkAsShipped_Save, Running, TypeInv, TypeOK
      <3>3. order[i] # None
        BY <1>2, <3>2, Known
      <3>4. v = w => SameDeal(order'[i], req[w].row) /\ req[w].row.buyer # req[w].row.seller
        BY <1>2, <1>3, <3>2, <3>3, Known DEF OneDeal, SameDeal
      <3> QED
        BY <1>2, <2>1, <3>2, <3>4 DEF Settled
    <2> QED
      BY <2>2, <2>3
  <1>9. \A u \in User : Tally(u)'
    BY <1>3, TallyWritten
  <1> QED
    BY <1>1, <1>5, <1>6, <1>7, <1>8, <1>9 DEF BooksInv

\* Opened wallets keep their escrow, and their balance when rewards wait.
RowsKept ==
  \A u \in User : wallet[u] # None =>
    /\ wallet'[u] # None /\ wallet'[u].pending = wallet[u].pending
    /\ apart => wallet'[u].balance = wallet[u].balance

LEMMA CurrentKept ==
  ASSUME RowsKept, UNCHANGED apart, NEW u \in User, NEW row, Current(row, u)
  PROVE  Current(row, u)'
  BY DEF RowsKept, Current

LEMMA SettledKept ==
  ASSUME MoneyFacts, NEW v \in Worker, RowsKept, UNCHANGED <<apart, order>>,
         pc'[v] = pc[v], req'[v] = req[v], snap'[v] = snap[v]
  PROVE  Settled(v)'
  <1>1. Settled(v) /\ TypeInv
    BY DEF MoneyFacts, BooksInv, RecordsInv, RewardInv
  <1>2. CASE req[v] = None
    BY <1>2 DEF Settled
  <1>3. CASE req[v] # None
    <2>1. /\ req[v].row.buyer # req[v].row.seller
          /\ req[v].op # "create" => SameDeal(order[req[v].id], req[v].row)
          /\ pc[v] = "begun" => /\ Current(snap[v].buyer, req[v].row.buyer)
                                /\ Current(snap[v].seller, req[v].row.seller)
      BY <1>1, <1>3 DEF Settled
    <2>2. pc[v] = "begun" => req[v].row.buyer \in User /\ req[v].row.seller \in User
      BY Known
    <2>3. pc[v] = "begun" => /\ Current(snap[v].buyer, req[v].row.buyer)'
                             /\ Current(snap[v].seller, req[v].row.seller)'
      <3>1. PICK x, y, b, s : x = snap[v].buyer /\ y = snap[v].seller
                              /\ b = req[v].row.buyer /\ s = req[v].row.seller
        OBVIOUS
      <3>2. ASSUME pc[v] = "begun" PROVE Current(x, b)' /\ Current(y, s)'
        BY <2>1, <2>2, <3>1, <3>2, CurrentKept
      <3> QED
        BY <3>1, <3>2 DEF Current
    <2> QED
      BY <2>1, <2>3 DEF Settled, SameDeal
  <1> QED
    BY <1>2, <1>3

\* Steps that write no order and no proof.
LEMMA AsideBooks ==
  ASSUME MoneyFacts, RecordsInv', UNCHANGED <<order, rewards>>, apart => NoProof,
         \A u \in User : Moves(u, 0, 0), GrantsOpen', \A v \in Worker : Settled(v)'
  PROVE  BooksInv'
  <1>1. IsFiniteSet(Placed) /\ IsFiniteSet(Made) /\ Deals /\ Turns
    BY DEF MoneyFacts, BooksInv
  <1>2. Placed' = Placed /\ Made' = Made /\ apart' = apart /\ \A u \in User : Won(u)' = Won(u)
    BY DEF Placed, Made, Won, Owner, rewards
  <1>3. \A u \in User : Tally(u)'
    BY <1>2, TallyKept
  <1>4. Deals'
    BY <1>1, <1>2 DEF Deals
  <1>5. Turns'
    BY DEF Turns, rewards, NoProof, InFlight
  <1> QED
    BY <1>1, <1>2, <1>3, <1>4, <1>5 DEF BooksInv

LEMMA StillMoves ==
  ASSUME MoneyFacts, UNCHANGED <<wallet, grant, apart>>
  PROVE  /\ \A u \in User : Moves(u, 0, 0)
         /\ GrantsOpen' /\ RowsKept
  <1>1. wallet \in Table(Nat) /\ grant \in [User -> Nat] /\ GrantsOpen
    BY DEF MoneyFacts, BooksInv, RecordsInv, RewardInv, MoneyInv, TypeInv, TypeOK
  <1>2. ASSUME NEW u \in User PROVE Moves(u, 0, 0)
    <2>1. Purse(u).balance \in Nat /\ Purse(u).pending \in Nat /\ grant[u] \in Nat
      BY <1>1, PurseType
    <2>2. Purse(u)' = Purse(u) /\ grant'[u] = grant[u]
      BY DEF Purse
    <2> QED
      BY <2>1, <2>2 DEF Moves
  <1>3. RowsKept
    BY DEF RowsKept
  <1>4. GrantsOpen'
    BY <1>1 DEF GrantsOpen
  <1> QED
    BY <1>2, <1>3, <1>4

LEMMA OrderBooks ==
  ASSUME MoneyFacts, RecordsInv', OneAtATime, SelfOrders = FALSE, UNCHANGED rewards,
         apart => NoProof, Next
  PROVE  BooksInv'
  <1>1. TypeInv /\ wallet \in Table(Nat) /\ grant \in [User -> Nat] /\ UNCHANGED apart /\ Deals /\ GrantsOpen
    BY DEF MoneyFacts, RecordsInv, RewardInv, MoneyInv, TypeInv, TypeOK, rewards, BooksInv
  <1>2. ASSUME NEW w \in Worker, Checks(w) PROVE BooksInv'
    <2>1. UNCHANGED <<wallet, grant, order, snap>> /\ \A v \in Worker \ {w} : pc'[v] = pc[v] /\ req'[v] = req[v]
      BY <1>1, <1>2, ChecksAre DEF Check, CreateOrder_Check, db, TypeInv, TypeOK
    <2>2. Settled(w)'
      <3>1. ASSUME NEW b \in User, NEW s \in User, NEW a \in Amount, NEW o \in OrderId,
                   CreateOrder_Check(w, b, s, a, o)
            PROVE  Settled(w)'
        <4>1. pc'[w] = "checked" /\ b # s
          BY <1>1, <3>1 DEF CreateOrder_Check, TypeInv, TypeOK
        <4>2. req'[w] = [op |-> "create", id |-> o,
                         row |-> [buyer |-> b, seller |-> s, amount |-> a, status |-> "pending"]]
          BY <1>1, <3>1 DEF CreateOrder_Check, TypeInv, TypeOK
        <4> QED
          BY <4>1, <4>2 DEF Settled
      <3>2. ASSUME NEW op \in Op \ {"create"}, NEW o \in OrderId, NEW R, Check(w, op, o, R)
            PROVE  Settled(w)'
        <4>1. pc'[w] = "checked" /\ order[o] # None /\ order' = order
          BY <1>1, <3>2 DEF Check, db, TypeInv, TypeOK
        <4>2. req'[w] = [op |-> op, id |-> o, row |-> order[o]]
          BY <1>1, <3>2 DEF Check, TypeInv, TypeOK
        <4>3. order[o].buyer # order[o].seller
          BY <1>1, <4>1 DEF Deals, Placed
        <4> QED
          BY <4>1, <4>2, <4>3 DEF Settled, SameDeal
      <3> QED
        BY <1>2, <3>1, <3>2, ChecksAre DEF Op
    <2>3. \A v \in Worker \ {w} : Settled(v)'
      BY <1>1, <2>1, StillMoves, SettledKept
    <2> QED
      BY <1>1, <2>1, <2>2, <2>3, StillMoves, AsideBooks
  <1>3. ASSUME NEW w \in Worker, BeginTx(w) PROVE BooksInv'
    <2>1. UNCHANGED <<wallet, grant, order, req>>
          /\ \A v \in Worker \ {w} : pc'[v] = pc[v] /\ snap'[v] = snap[v]
      BY <1>1, <1>3 DEF BeginTx, db, TypeInv, TypeOK
    <2>2. Settled(w)'
      <3>1. Settled(w) /\ pc[w] = "checked" /\ pc'[w] = "begun"
        BY <1>1, <1>3 DEF BeginTx, TypeInv, TypeOK, MoneyFacts, BooksInv
      <3>2. snap'[w].buyer = wallet[req[w].row.buyer] /\ snap'[w].seller = wallet[req[w].row.seller]
        BY <1>1, <1>3 DEF BeginTx, TypeInv, TypeOK
      <3>3. /\ Current(snap[w].buyer, req[w].row.buyer)'
            /\ Current(snap[w].seller, req[w].row.seller)'
        BY <2>1, <3>2 DEF Current
      <3> QED
        BY <2>1, <3>1, <3>3 DEF Settled, SameDeal
    <2>3. \A v \in Worker \ {w} : Settled(v)'
      BY <1>1, <2>1, StillMoves, SettledKept
    <2> QED
      BY <1>1, <2>1, <2>2, <2>3, StillMoves, AsideBooks
  <1>4. ASSUME NEW w \in Worker, Abandon(w) PROVE BooksInv'
    <2>1. UNCHANGED <<wallet, grant, order>> /\ req'[w] = None
          /\ \A v \in Worker \ {w} : pc'[v] = pc[v] /\ snap'[v] = snap[v] /\ req'[v] = req[v]
      BY <1>1, <1>4 DEF Abandon, Finish, db, TypeInv, TypeOK
    <2>2. Settled(w)'
      BY <2>1 DEF Settled
    <2>3. \A v \in Worker \ {w} : Settled(v)'
      BY <1>1, <2>1, StillMoves, SettledKept
    <2> QED
      BY <1>1, <2>1, <2>2, <2>3, StillMoves, AsideBooks
  <1>5. ASSUME NEW u \in User, GetCurrentBalance_Find(u) PROVE BooksInv'
    <2>1. UNCHANGED <<wallet, grant, order, pc, req, snap>>
      BY <1>5 DEF GetCurrentBalance_Find, db
    <2>2. \A v \in Worker : Settled(v)'
      BY <1>1, <2>1, StillMoves, SettledKept
    <2> QED
      BY <1>1, <2>1, <2>2, StillMoves, AsideBooks
  <1>6. ASSUME NEW u \in User, GetCurrentBalance_Save(u) PROVE BooksInv'
    <2>1. UNCHANGED <<order, pc, req, snap>>
      BY <1>6 DEF GetCurrentBalance_Save
    <2>2. CASE wallet[u] # None
      <3>1. UNCHANGED <<wallet, grant>>
        BY <1>6, <2>2 DEF GetCurrentBalance_Save
      <3>2. \A v \in Worker : Settled(v)'
        BY <1>1, <2>1, <3>1, StillMoves, SettledKept
      <3> QED
        BY <1>1, <2>1, <3>1, <3>2, StillMoves, AsideBooks
    <2>3. CASE wallet[u] = None
      <3>1. wallet' = [wallet EXCEPT ![u] = OpeningWallet] /\ grant' = [grant EXCEPT ![u] = InitialBalance]
        BY <1>6, <2>3 DEF GetCurrentBalance_Save
      <3>2. /\ wallet'[u] = OpeningWallet /\ grant'[u] = InitialBalance /\ OpeningWallet # None
            /\ \A v \in User \ {u} : wallet'[v] = wallet[v] /\ grant'[v] = grant[v]
        BY <1>1, <3>1, RowFacts, RowsArePresent DEF Table
      <3>3. RowsKept
        BY <2>3, <3>2 DEF RowsKept
      <3>4. GrantsOpen'
        BY <1>1, <3>2 DEF GrantsOpen
      <3>5. ASSUME NEW v \in User PROVE Moves(v, 0, 0)
        <4>1. Purse(v).balance \in Nat /\ Purse(v).pending \in Nat /\ grant[v] \in Nat
          BY <1>1, PurseType
        <4>2. CASE v # u
          <5>1. Purse(v)' = Purse(v) /\ grant'[v] = grant[v]
            BY <3>2, <4>2 DEF Purse
          <5> QED
            BY <4>1, <5>1 DEF Moves
        <4>3. CASE v = u
          <5>1. Purse(u).balance = 0 /\ Purse(u).pending = 0 /\ grant[u] = 0
            BY <1>1, <2>3, PurseType DEF GrantsOpen
          <5>2. Purse(u)' = OpeningWallet
            BY <3>2 DEF Purse, Found
          <5>3. Purse(u)'.balance = InitialBalance /\ Purse(u)'.pending = 0
            BY <5>2 DEF OpeningWallet
          <5> QED
            BY <3>2, <4>3, <5>1, <5>3, ConstantsOK DEF Moves
        <4> QED
          BY <4>2, <4>3
      <3>6. \A v \in Worker : Settled(v)'
        BY <1>1, <2>1, <3>3, SettledKept
      <3> QED
        BY <2>1, <3>4, <3>5, <3>6, AsideBooks
    <2> QED
      BY <2>2, <2>3
  <1> QED
    BY <1>2, <1>3, <1>4, <1>5, <1>6, WriteBooks DEF Next

\* The two columns of u when the orders stay as they are and the proofs of u
\* count for x coins more.
LEMMA TallyRewarded ==
  ASSUME MoneyFacts, RecordsInv', UNCHANGED <<order, grant, apart>>, NEW p \in Proof, Made' = Made \cup {p},
         NEW u \in User, NEW x \in Int, Moves(u, x, 0),
         Won(u)'[p] = Won(u)[p] + x, \A q \in Proof \ {p} : Won(u)'[q] = Won(u)[q]
  PROVE  Tally(u)'
  <1>1. Held(u)' = Held(u) /\ Net(u)' = Net(u) /\ Placed' = Placed
    BY DEF Held, Net, HeldOf, NetOf, Placed
  <1>2. /\ Total(Held(u), Placed)' = Total(Held(u), Placed)
        /\ Total(Net(u), Placed)' = Total(Net(u), Placed)
    BY <1>1 DEF Total
  <1>3. /\ TypeInv /\ ProofsOK /\ IsFiniteSet(Placed) /\ IsFiniteSet(Made) /\ Tally(u)
        /\ wallet \in Table(Nat) /\ grant[u] \in Nat /\ wallet' \in Table(Nat)
    BY DEF MoneyFacts, RecordsInv, RewardInv, MoneyInv, BooksInv, TypeInv, TypeOK
  <1>4. PICK y \in Int, z \in Int, t \in Int :
          y = Total(Held(u), Placed) /\ z = Total(Net(u), Placed) /\ t = Total(Won(u), Made)
    BY <1>3, TotalsType
  <1>5. Total(Won(u), Made)' = t + x
    <2>1. PICK f, g, S, T : f = Won(u) /\ g = Won(u)' /\ S = Made /\ T = Made'
      OBVIOUS
    <2>2. \A q \in Proof : f[q] \in Int
      BY <1>3, <2>1, CountsType
    <2>3. T = S \cup {p} /\ S \subseteq Proof /\ IsFiniteSet(S)
      BY <1>3, <2>1 DEF Made
    <2>4. \A q \in S \cup {p} : f[q] \in Int /\ g[q] \in Int
      BY <2>1, <2>2, <2>3
    <2>5. \A q \in S \ {p} : f[q] = g[q]
      BY <2>1, <2>3
    <2>6. p \notin S => f[p] = 0
      BY <2>1 DEF Made, Won
    <2>7. Total(g, S \cup {p}) = Total(f, S) + g[p] - f[p]
      BY <2>3, <2>4, <2>5, <2>6, TotalChange
    <2>8. g[p] = f[p] + x /\ f[p] \in Int
      BY <2>1, <2>2
    <2>9. Total(g, T) = t + x
      BY <1>4, <2>1, <2>3, <2>7, <2>8
    <2>10. Total(Won(u), Made)' = Total(g, T)
      BY <2>1 DEF Total
    <2> QED
      BY <2>9, <2>10
  <1>6. /\ Purse(u).pending \in Nat /\ Purse(u).balance \in Nat
        /\ Purse(u)'.pending \in Nat /\ Purse(u)'.balance \in Nat
    <2>1. wallet'[u] \in Row(Nat) \cup {None}
      BY <1>3 DEF Table
    <2>2. Purse(u)' \in Row(Nat)
      BY <2>1, FoundType, RowFacts DEF Purse
    <2> QED
      BY <1>3, <2>2, PurseType DEF Row
  <1>7. Purse(u)'.pending = y
    BY <1>3, <1>4, <1>6 DEF Tally, Moves
  <1>8. apart => Purse(u)'.balance = grant[u] + z + (t + x)
    BY <1>3, <1>4, <1>6 DEF Tally, Moves
  <1> QED
    BY <1>2, <1>4, <1>5, <1>7, <1>8 DEF Tally

\* Steps of a request for a reward that leave the wallets and what it was paid.
LEMMA ProofBooks ==
  ASSUME MoneyFacts, RecordsInv', UNCHANGED <<vars, paid, apart>>, NEW p \in Proof, Made' = Made \cup {p},
         \A q \in Made : Owner(q)' = Owner(q), p \notin Made => paid[p] = 0, Turns'
  PROVE  BooksInv'
  <1>1. IsFiniteSet(Placed) /\ IsFiniteSet(Made) /\ Deals /\ GrantsOpen
    BY DEF MoneyFacts, BooksInv
  <1>2. Placed' = Placed /\ Deals' /\ IsFiniteSet(Made)'
    BY <1>1, FS_AddElement DEF Placed, Deals, vars
  <1>3. /\ \A u \in User : Moves(u, 0, 0)
        /\ GrantsOpen' /\ RowsKept
    BY StillMoves DEF vars
  <1>4. \A v \in Worker : Settled(v)'
    BY <1>3, SettledKept DEF vars
  <1>5. ASSUME NEW u \in User PROVE Tally(u)'
    <2>1. ASSUME NEW q \in Made PROVE Won(u)'[q] = Won(u)[q]
      <3>1. q \in Made'
        OBVIOUS
      <3> QED
        BY <3>1 DEF Won, Made
    <2>2. p \notin Made => Won(u)[p] = 0 /\ Won(u)'[p] = 0
      BY CoinsOK DEF Won, Made
    <2>3. ASSUME NEW q \in Proof, q # p PROVE Won(u)'[q] = Won(u)[q]
      <3>1. CASE q \in Made
        BY <2>1, <3>1
      <3>2. CASE q \notin Made
        <4>1. q \notin Made'
          BY <2>3, <3>2
        <4> QED
          BY <3>2, <4>1 DEF Won, Made
      <3> QED
        BY <3>1, <3>2
    <2>4. Won(u)[p] \in Int
      BY CountsType DEF MoneyFacts, RecordsInv, RewardInv
    <2>5. Won(u)'[p] = Won(u)[p] + 0
      BY <2>1, <2>2, <2>4
    <2>6. UNCHANGED <<order, grant>> /\ Moves(u, 0, 0)
      BY <1>3 DEF vars
    <2>7. PICK x \in Int : x = 0
      OBVIOUS
    <2> QED
      BY <2>3, <2>5, <2>6, <2>7, TallyRewarded
  <1> QED
    BY <1>1, <1>2, <1>3, <1>4, <1>5 DEF BooksInv

LEMMA CreditBooks ==
  ASSUME MoneyFacts, RecordsInv', NEW p \in Proof, AddProof_Credit(p)
  PROVE  BooksInv'
  <1>1. /\ TypeInv /\ ProofsOK /\ wallet \in Table(Nat) /\ seen[p] \in Row(Nat) \cup {None}
        /\ grant \in [User -> Nat]
    BY DEF MoneyFacts, RecordsInv, RewardInv, MoneyInv, SolventSeen, TypeInv, TypeOK
  <1>2. IsFiniteSet(Placed) /\ IsFiniteSet(Made) /\ Deals /\ GrantsOpen /\ Turns
    BY DEF MoneyFacts, BooksInv
  <1>3. stage[p] = "found" /\ proof[p] # None /\ paid[p] = 0 /\ paid'[p] = 1
        /\ \A q \in Proof \ {p} : paid'[q] = paid[q] /\ stage'[q] = stage[q]
    BY <1>1 DEF AddProof_Credit, ProofsOK, Goto
  <1>4. UNCHANGED <<order, grant, apart, pc, req, snap, proof, seen>> /\ stage'[p] = "credited"
    BY <1>1 DEF AddProof_Credit, ProofsOK, Goto
  <1>5. PICK u \in User : u = Owner(p)
    BY <1>1, <1>3, OwnerType
  <1>6. PICK row \in Row(Nat) \cup {None} : row = seen[p]
    BY <1>1
  <1>7. CanInsert(u, row) /\ wallet' = Rewarded(u, row)
    BY <1>5, <1>6 DEF AddProof_Credit
  <1>8. apart /\ row # None => row = wallet[u]
    BY <1>2, <1>3, <1>5, <1>6 DEF Turns
  <1>9. Coins \in Nat
    BY CoinsOK
  <1>10. Purse(u).balance \in Nat /\ Purse(u).pending \in Nat /\ grant[u] \in Nat
    BY <1>1, PurseType
  <1>11. PICK x \in Nat : /\ wallet' = SetRow(wallet, u, x, Purse(u).pending)
                          /\ apart => x = Purse(u).balance + Coins
    <2>1. CASE row = None
      <3>1. Purse(u).balance = 0 /\ Purse(u).pending = 0
        BY <1>1, <1>7, <2>1, PurseType DEF CanInsert
      <3> QED
        BY <1>7, <1>9, <2>1, <3>1 DEF Rewarded
    <2>2. CASE row # None
      <3>1. row.balance \in Nat
        BY <2>2 DEF Row
      <3>2. wallet' = SetRow(wallet, u, row.balance + Coins, Purse(u).pending)
        BY <1>7, <2>2 DEF Rewarded, SetBalance, Purse
      <3>3. apart => row.balance = Purse(u).balance
        BY <1>1, <1>8, <2>2, PurseType
      <3>4. row.balance + Coins \in Nat
        BY <1>9, <3>1
      <3> QED
        BY <3>2, <3>3, <3>4
    <2> QED
      BY <2>1, <2>2
  <1>12. /\ Purse(u)'.balance = x /\ Purse(u)'.pending = Purse(u).pending /\ wallet'[u] # None
         /\ \A v \in User \ {u} : wallet'[v] = wallet[v] /\ Purse(v)' = Purse(v)
    <2>1. PICK y \in Nat : y = Purse(u).pending
      BY <1>10
    <2>2. wallet' = SetRow(wallet, u, x, y)
      BY <1>11, <2>1
    <2>3. /\ Purse(u)'.balance = x /\ Purse(u)'.pending = y /\ wallet'[u] # None
          /\ \A v \in User \ {u} : wallet'[v] = wallet[v] /\ Purse(v)' = Purse(v)
      BY <1>1, <2>2, SetRowPurse
    <2> QED
      BY <2>1, <2>3
  <1>13. Moves(u, Coins, 0)
    BY <1>4, <1>9, <1>10, <1>11, <1>12 DEF Moves
  <1>14. ASSUME NEW v \in User, v # u PROVE Moves(v, 0, 0)
    <2>1. Purse(v).balance \in Nat /\ Purse(v).pending \in Nat /\ grant[v] \in Nat
      BY <1>1, PurseType
    <2>2. Purse(v)' = Purse(v)
      BY <1>12, <1>14
    <2> QED
      BY <1>4, <2>1, <2>2 DEF Moves
  <1>15. GrantsOpen'
    BY <1>2, <1>4, <1>12 DEF GrantsOpen
  <1>16. ASSUME NEW v \in Worker PROVE Settled(v)'
    <2>1. CASE apart
      <3>1. pc[v] = "idle"
        BY <1>2, <1>3, <2>1 DEF Turns, InFlight, NoOrder
      <3>2. req[v] = None
        BY <1>1, <3>1 DEF TypeInv, TypeOK
      <3> QED
        BY <1>4, <3>2 DEF Settled
    <2>2. CASE ~apart
      <3>1. ASSUME wallet[u] # None PROVE wallet'[u].pending = wallet[u].pending
        <4>1. Purse(u) = wallet[u] /\ Purse(u)' = wallet'[u]
          BY <1>12, <3>1 DEF Purse, Found
        <4> QED
          BY <1>12, <4>1
      <3>2. RowsKept
        BY <1>12, <2>2, <3>1 DEF RowsKept
      <3> QED
        BY <1>4, <3>2, SettledKept
    <2> QED
      BY <2>1, <2>2
  <1>17. ASSUME NEW v \in User PROVE Tally(v)'
    <2>1. Made' = Made /\ p \in Made
      BY <1>3, <1>4 DEF Made
    <2>2. Made' = Made \cup {p}
      BY <2>1
    <2>3. \A q \in Proof \ {p} : Won(v)'[q] = Won(v)[q]
      BY <1>3, <1>4 DEF Won, Owner
    <2>4. Won(v)[p] = 0 /\ Won(v)'[p] = IF v = u THEN Coins ELSE 0
      BY <1>3, <1>4, <1>5, <1>9 DEF Won, Owner
    <2>5. PICK n \in Int : n = (IF v = u THEN Coins ELSE 0) /\ Won(v)'[p] = Won(v)[p] + n
      BY <1>9, <2>4
    <2>6. Moves(v, n, 0)
      BY <1>13, <1>14, <2>5
    <2>7. UNCHANGED <<order, grant, apart>>
      BY <1>4
    <2> QED
      BY <2>2, <2>3, <2>5, <2>6, <2>7, TallyRewarded
  <1>18. Turns'
    <2>1. \A q \in Proof : InFlight(q)' => InFlight(q)
      BY <1>3, <1>4 DEF InFlight
    <2>2. InFlight(p)
      BY <1>3 DEF InFlight
    <2>3. ASSUME apart, NEW q \in Proof PROVE stage'[q] # "found"
      BY <1>2, <1>3, <1>4, <2>2, <2>3 DEF Turns, InFlight
    <2>4. NoOrder' = NoOrder
      BY <1>4 DEF NoOrder
    <2> QED
      BY <1>2, <1>4, <2>1, <2>3, <2>4 DEF Turns
  <1>19. Placed' = Placed /\ Made' = Made /\ Deals'
    BY <1>2, <1>4 DEF Placed, Made, Deals
  <1> QED
    BY <1>2, <1>15, <1>16, <1>17, <1>18, <1>19 DEF BooksInv

LEMMA RewardBooks ==
  ASSUME MoneyFacts, RecordsInv', NEW p \in Proof, AddProof(p)
  PROVE  BooksInv'
  <1>1. ProofsOK /\ Turns /\ TypeInv
    BY DEF MoneyFacts, RecordsInv, RewardInv, BooksInv
  <1>2. ASSUME NEW u \in User, AddProof_Save(p, u) PROVE BooksInv'
    <2>1. /\ proof[p] = None /\ paid[p] = 0 /\ UNCHANGED <<vars, paid, apart, seen>>
          /\ proof' = [proof EXCEPT ![p] = [user |-> u, coin |-> -1]]
          /\ stage' = [stage EXCEPT ![p] = "asked"] /\ (apart => NoProof /\ NoOrder)
      BY <1>1, <1>2 DEF AddProof_Save, ProofsOK, Goto
    <2>2. [user |-> u, coin |-> -1] # None
      <3>1. [user |-> u, coin |-> -1] \in ProofRow
        BY DEF ProofRow
      <3> QED
        BY <3>1, NoneIsNoProof
    <2>3. Made' = Made \cup {p} /\ p \notin Made
      BY <1>1, <2>1, <2>2 DEF Made, ProofsOK
    <2>4. \A q \in Made : Owner(q)' = Owner(q)
      BY <1>1, <2>1, <2>3 DEF Made, Owner, ProofsOK
    <2>5. Turns'
      <3>1. NoOrder' = NoOrder
        BY <2>1 DEF NoOrder, vars
      <3>2. \A q \in Proof \ {p} : stage'[q] = stage[q]
        BY <1>1, <2>1 DEF ProofsOK
      <3>3. stage'[p] = "asked"
        BY <1>1, <2>1 DEF ProofsOK
      <3> QED
        BY <2>1, <3>1, <3>2, <3>3 DEF Turns, NoProof, InFlight
    <2> QED
      BY <2>1, <2>3, <2>4, <2>5, ProofBooks
  <1>3. ASSUME p \in Made, UNCHANGED <<vars, paid, apart>>, Made' = Made,
               \A q \in Made : Owner(q)' = Owner(q), Turns'
        PROVE  BooksInv'
    BY <1>3, ProofBooks
  <1>4. InFlight(p) => p \in Made
    BY <1>1 DEF ProofsOK, InFlight, Made
  <1>5. CASE AddProof_FindWallet(p)
    <2>1. /\ InFlight(p) /\ UNCHANGED <<vars, paid, apart, proof>>
          /\ seen'[p] = wallet[Owner(p)] /\ stage'[p] = "found"
          /\ \A q \in Proof \ {p} : stage'[q] = stage[q]
      <3>1. seen \in [Proof -> Row(Nat) \cup {None}]
        BY DEF MoneyFacts, RecordsInv, RewardInv, SolventSeen
      <3> QED
        BY <1>1, <1>5, <3>1 DEF AddProof_FindWallet, Goto, InFlight, ProofsOK
    <2>2. Made' = Made /\ \A q \in Proof : Owner(q)' = Owner(q)
      BY <2>1 DEF Made, Owner
    <2>3. Turns'
      <3>1. NoOrder' = NoOrder /\ wallet' = wallet
        BY <2>1 DEF NoOrder, vars
      <3>2. \A q \in Proof : InFlight(q)' => InFlight(q)
        BY <2>1 DEF InFlight
      <3>3. ASSUME apart, NEW q \in Proof, stage'[q] = "found" PROVE q = p
        BY <1>1, <2>1, <3>3 DEF Turns, InFlight
      <3> QED
        BY <1>1, <2>1, <2>2, <3>1, <3>2, <3>3 DEF Turns
    <2>4. \A q \in Made : Owner(q)' = Owner(q)
      BY <2>2 DEF Made
    <2> QED
      BY <1>3, <1>4, <2>1, <2>2, <2>3, <2>4
  <1>6. ASSUME InFlight(p), UNCHANGED <<vars, paid, apart, seen>>,
               Made' = Made, \A q \in Made : Owner(q)' = Owner(q),
               \A q \in Proof \ {p} : stage'[q] = stage[q], stage'[p] # "found"
        PROVE  BooksInv'
    <2>1. Turns'
      <3>1. NoOrder' = NoOrder /\ wallet' = wallet
        BY <1>6 DEF NoOrder, vars
      <3>2. \A q \in Proof : InFlight(q)' => InFlight(q)
        BY <1>6 DEF InFlight
      <3>3. \A q \in Proof : stage'[q] = "found" => stage[q] = "found" /\ q \in Made
        BY <1>1, <1>6 DEF ProofsOK, Made
      <3> QED
        BY <1>1, <1>6, <3>1, <3>2, <3>3 DEF Turns
    <2> QED
      BY <1>3, <1>4, <1>6, <2>1
  <1>7. CASE AddProof_Deny(p) \/ AddProof_Unclear(p) \/ AddProof_DuplicateWallet(p) \/ AddProof_Die(p)
    <2>1. /\ InFlight(p) /\ UNCHANGED <<vars, paid, apart, seen, proof>> /\ stage'[p] # "found"
          /\ \A q \in Proof \ {p} : stage'[q] = stage[q]
      BY <1>1, <1>7 DEF AddProof_Deny, AddProof_Unclear, AddProof_DuplicateWallet, AddProof_Die,
         Goto, InFlight, ProofsOK
    <2>2. Made' = Made /\ \A q \in Made : Owner(q)' = Owner(q)
      BY <2>1 DEF Made, Owner
    <2> QED
      BY <1>6, <2>1, <2>2
  <1>8. CASE AddProof_Record(p)
    <2>1. /\ InFlight(p) /\ UNCHANGED <<vars, paid, apart, seen>> /\ stage'[p] # "found"
          /\ \A q \in Proof \ {p} : stage'[q] = stage[q]
      BY <1>1, <1>8 DEF AddProof_Record, Goto, InFlight, ProofsOK
    <2>2. proof[p] \in ProofRow
      BY <1>1, <2>1, OwnerType DEF InFlight
    <2>3. PICK c \in {0, Coins} : proof' = [proof EXCEPT ![p].coin = c]
      BY <1>8 DEF AddProof_Record
    <2>4. proof'[p] \in ProofRow /\ proof'[p].user = proof[p].user
          /\ \A q \in Proof \ {p} : proof'[q] = proof[q]
      BY <1>1, <2>2, <2>3 DEF ProofRow, ProofsOK
    <2>5. Made' = Made /\ \A q \in Made : Owner(q)' = Owner(q)
      BY <2>2, <2>4, NoneIsNoProof DEF Made, Owner
    <2> QED
      BY <1>6, <2>1, <2>5
  <1> QED
    BY <1>2, <1>5, <1>7, <1>8, CreditBooks DEF AddProof

LEMMA BooksStart == MoneyInit => BooksInv
  <1> SUFFICES ASSUME MoneyInit PROVE BooksInv
    OBVIOUS
  <1>1. Placed = {} /\ Made = {}
    BY DEF MoneyInit, Init, Placed, Made
  <1>2. IsFiniteSet({}) /\ \A f : Total(f, {}) = 0
    BY FS_EmptySet, TotalOut
  <1>3. Deals /\ \A w \in Worker : Settled(w)
    BY <1>1 DEF Deals, Settled, MoneyInit, Init
  <1>4. GrantsOpen
    BY DEF GrantsOpen, MoneyInit, Init, Found, EmptyWallet
  <1>5. Turns
    BY DEF Turns, InFlight, MoneyInit
  <1>6. ASSUME NEW u \in User PROVE Tally(u)
    <2>1. /\ Total(Held(u), Placed) = 0 /\ Total(Net(u), Placed) = 0 /\ Total(Won(u), Made) = 0
      BY <1>1, <1>2
    <2>2. Purse(u).pending = 0 /\ Purse(u).balance = grant[u] /\ grant[u] \in Nat
      BY RowFacts, ConstantsOK DEF MoneyInit, Init, Purse, Found, EmptyWallet, OpeningWallet
    <2> QED
      BY <2>1, <2>2 DEF Tally
  <1> QED
    BY <1>1, <1>2, <1>3, <1>4, <1>5, <1>6 DEF BooksInv

LEMMA BooksInvariant ==
  ASSUME SelfOrders = FALSE
  PROVE  MoneySpec /\ []OneAtATime => []BooksInv
  <1>1. MoneyInit => BooksInv
    BY BooksStart
  <1>2. RecordsInv /\ RecordsInv' /\ SerialInv /\ OneAtATime /\ BooksInv /\ [MoneyNext]_moneyVars => BooksInv'
    <2> SUFFICES ASSUME MoneyFacts, RecordsInv', OneAtATime, [MoneyNext]_moneyVars PROVE BooksInv'
      BY DEF MoneyFacts
    <2>1. CASE (apart => NoProof) /\ Next /\ UNCHANGED rewards
      BY <2>1, OrderBooks
    <2>2. CASE \E p \in Proof : AddProof(p)
      BY <2>2, RewardBooks
    <2>3. CASE UNCHANGED moneyVars
      <3>1. UNCHANGED <<order, rewards, wallet, grant, pc, req, snap, apart>>
        BY <2>3 DEF moneyVars, vars, rewards
      <3>2. /\ \A u \in User : Moves(u, 0, 0)
            /\ GrantsOpen' /\ RowsKept
        BY <3>1, StillMoves
      <3>3. \A v \in Worker : Settled(v)'
        BY <3>1, <3>2, SettledKept
      <3>4. Placed' = Placed /\ Made' = Made /\ \A u \in User : Won(u)' = Won(u)
        BY <3>1 DEF Placed, Made, Won, Owner, rewards
      <3>5. \A u \in User : Tally(u)'
        BY <3>1, <3>2, <3>4, TallyKept
      <3>6. Turns'
        BY <2>3, <3>1, <3>4 DEF MoneyFacts, BooksInv, Turns, NoOrder, InFlight, Owner, moneyVars, rewards
      <3>7. IsFiniteSet(Placed)' /\ IsFiniteSet(Made)' /\ Deals'
        BY <3>1, <3>4 DEF MoneyFacts, BooksInv, Deals
      <3> QED
        BY <3>2, <3>3, <3>5, <3>6, <3>7 DEF BooksInv
    <2> QED
      BY <2>1, <2>2, <2>3 DEF MoneyNext
  <1> QED
    BY <1>1, <1>2, RecordsInvariant, MoneySerialInvariant, PTL DEF MoneySpec

\* What the transaction rows say of one order, in the terms of its status.
LEMMA BookedCounts ==
  ASSUME TypeInv, LedgerMatchesStatus, NEW o \in Placed
  PROVE  /\ order[o].amount \in Int
         /\ AmountOf[o] = order[o].amount
         /\ Spent[o] = order[o].amount
         /\ order[o].status \in Open => Earned[o] = 0 /\ Deducted[o] = 0 /\ Returned[o] = 0
         /\ order[o].status = "delivered" => Earned[o] = order[o].amount /\ Deducted[o] = 0 /\ Returned[o] = 0
         /\ order[o].status = "cancelled" => Earned[o] = 0 /\ Deducted[o] = 0 /\ Returned[o] = order[o].amount
         /\ order[o].status = "refunded" => /\ Earned[o] = order[o].amount /\ Deducted[o] = order[o].amount
                                            /\ Returned[o] = order[o].amount
         /\ order[o].status \in Open \cup {"delivered", "cancelled", "refunded"}
  <1>1. o \in OrderId /\ order[o] # None /\ order[o] \in OrderRow /\ ledger[o] = LedgerOf(order[o])
    BY DEF Placed, TypeInv, TypeOK, LedgerMatchesStatus
  <1>2. order[o].amount \in Int
    <2>1. order[o].amount \in Amount /\ Amount \subseteq Int
      BY <1>1, ConstantsOK DEF OrderRow
    <2> QED
      BY <2>1
  <1>3. order[o].status \in Open \cup {"delivered", "cancelled", "refunded"}
    BY <1>1 DEF OrderRow, Status, Open
  <1>4. PICK a \in Int, s \in {order[o].status} : a = order[o].amount /\ s = order[o].status
    BY <1>2
  <1>5. /\ AmountOf[o] = a /\ Spent[o] = ledger[o]["payment"] * a /\ Earned[o] = ledger[o]["received"] * a
        /\ Deducted[o] = ledger[o]["deducted"] * a /\ Returned[o] = ledger[o]["refund"] * a
    BY <1>4 DEF AmountOf, Spent, Earned, Deducted, Returned
  <1>6. 0 * a = 0 /\ 1 * a = a
    BY <1>4
  <1>7. CASE s \in Open
    <2>1. ledger[o] = Booked(1, 0, 0, 0)
      BY <1>1, <1>4, <1>7 DEF LedgerOf, Open
    <2>2. /\ ledger[o]["payment"] = 1 /\ ledger[o]["received"] = 0
          /\ ledger[o]["deducted"] = 0 /\ ledger[o]["refund"] = 0
      BY <2>1 DEF Booked, Entry
    <2> QED
      BY <1>2, <1>4, <1>5, <1>6, <1>7, <2>2 DEF Open
  <1>8. CASE s = "delivered"
    <2>1. ledger[o] = Booked(1, 0, 1, 0)
      BY <1>1, <1>4, <1>8 DEF LedgerOf
    <2>2. /\ ledger[o]["payment"] = 1 /\ ledger[o]["received"] = 1
          /\ ledger[o]["deducted"] = 0 /\ ledger[o]["refund"] = 0
      BY <2>1 DEF Booked, Entry
    <2> QED
      BY <1>2, <1>4, <1>5, <1>6, <1>8, <2>2 DEF Open
  <1>9. CASE s = "cancelled"
    <2>1. ledger[o] = Booked(1, 1, 0, 0)
      BY <1>1, <1>4, <1>9 DEF LedgerOf
    <2>2. /\ ledger[o]["payment"] = 1 /\ ledger[o]["received"] = 0
          /\ ledger[o]["deducted"] = 0 /\ ledger[o]["refund"] = 1
      BY <2>1 DEF Booked, Entry
    <2> QED
      BY <1>2, <1>4, <1>5, <1>6, <1>9, <2>2 DEF Open
  <1>10. CASE s = "refunded"
    <2>1. ledger[o] = Booked(1, 1, 1, 1)
      BY <1>1, <1>4, <1>10 DEF LedgerOf
    <2>2. /\ ledger[o]["payment"] = 1 /\ ledger[o]["received"] = 1
          /\ ledger[o]["deducted"] = 1 /\ ledger[o]["refund"] = 1
      BY <2>1 DEF Booked, Entry
    <2> QED
      BY <1>2, <1>4, <1>5, <1>6, <1>10, <2>2 DEF Open
  <1> QED
    BY <1>3, <1>4, <1>7, <1>8, <1>9, <1>10

LEMMA EscrowAddsUp ==
  ASSUME RecordsInv, StatusAsBooked, BooksInv
  PROVE  EscrowCoversOpenOrders
  <1> SUFFICES ASSUME NEW u \in User, wallet[u] # None
               PROVE  wallet[u].pending = Total(AmountOf, {o \in Sold(u) : order[o].status \in Open})
    BY DEF EscrowCoversOpenOrders
  <1>1. TypeInv /\ ProofsOK /\ wallet \in Table(Nat) /\ IsFiniteSet(Placed) /\ Tally(u) /\ LedgerMatchesStatus
    BY DEF RecordsInv, RewardInv, MoneyInv, BooksInv, StatusAsBooked
  <1>2. wallet[u].pending = Total(Held(u), Placed)
    BY <1>1, PurseType DEF Tally
  <1>3. PICK f, g, S, R : f = AmountOf /\ g = Held(u) /\ S = Placed /\ R = {o \in Sold(u) : order[o].status \in Open}
    OBVIOUS
  <1>4. R \subseteq S /\ IsFiniteSet(S)
    BY <1>1, <1>3 DEF Sold
  <1>5. \A x \in S : g[x] \in Int
    BY <1>1, <1>3, CountsType DEF Placed
  <1>6. \A x \in S : g[x] = IF x \in R THEN f[x] ELSE 0
    BY <1>3 DEF Placed, Sold, Held, HeldOf, AmountOf
  <1>7. Total(f, R) = Total(g, S)
    <2>1. \A x \in R : f[x] = g[x]
      BY <1>4, <1>6
    <2>2. \A x \in S \ R : g[x] = 0
      BY <1>6
    <2> QED
      BY <1>4, <1>5, <2>1, <2>2, TotalOnly
  <1> QED
    BY <1>2, <1>3, <1>7

\* The rows of f that the user is named in, out of all rows.
Share(f, R) == [o \in OrderId |-> IF o \in R THEN f[o] ELSE 0]

LEMMA Shared ==
  ASSUME IsFiniteSet(Placed), NEW f, NEW R, R \subseteq Placed, \A o \in Placed : f[o] \in Int
  PROVE  /\ Total(f, R) = Total(Share(f, R), Placed)
         /\ \A o \in Placed : Share(f, R)[o] \in Int
         /\ Total(Share(f, R), Placed) \in Int
  <1>1. \A o \in Placed : Share(f, R)[o] = IF o \in R THEN f[o] ELSE 0
    BY DEF Share, Placed
  <1>2. PICK g : g = Share(f, R)
    OBVIOUS
  <1>3. \A o \in Placed : g[o] \in Int
    BY <1>1, <1>2
  <1>4. /\ \A o \in R : f[o] = g[o]
        /\ \A o \in Placed \ R : g[o] = 0
    BY <1>1, <1>2
  <1>5. Total(f, R) = Total(g, Placed)
    BY <1>3, <1>4, TotalOnly
  <1>6. Total(g, Placed) \in Int
    BY <1>3, TotalType
  <1> QED
    BY <1>2, <1>3, <1>5, <1>6

LEMMA BookingIs ==
  ASSUME TypeInv, ProofsOK, LedgerMatchesStatus, IsFiniteSet(Placed), NEW u \in User
  PROVE  Booking(u) = grant[u] + Total(Net(u), Placed)
  <1>1. PICK A, B, n, e, d, r, s :
          /\ A = Sold(u) /\ B = Bought(u) /\ n = Net(u)
          /\ e = Share(Earned, A) /\ d = Share(Deducted, A)
          /\ r = Share(Returned, B) /\ s = Share(Spent, B)
    OBVIOUS
  <1>2. A \subseteq Placed /\ B \subseteq Placed
    BY <1>1 DEF Sold, Bought
  <1>3. \A o \in Placed : /\ Earned[o] \in Int /\ Deducted[o] \in Int
                          /\ Returned[o] \in Int /\ Spent[o] \in Int
    <2> TAKE o \in Placed
    <2>1. order[o].status \in Open \cup {"delivered", "cancelled", "refunded"}
      BY BookedCounts
    <2> QED
      BY <2>1, BookedCounts
  <1>4. /\ Total(Earned, A) = Total(e, Placed) /\ Total(e, Placed) \in Int
        /\ \A o \in Placed : e[o] \in Int
    BY <1>1, <1>2, <1>3, Shared
  <1>5. /\ Total(Deducted, A) = Total(d, Placed) /\ Total(d, Placed) \in Int
        /\ \A o \in Placed : d[o] \in Int
    BY <1>1, <1>2, <1>3, Shared
  <1>6. /\ Total(Returned, B) = Total(r, Placed) /\ Total(r, Placed) \in Int
        /\ \A o \in Placed : r[o] \in Int
    BY <1>1, <1>2, <1>3, Shared
  <1>7. /\ Total(Spent, B) = Total(s, Placed) /\ Total(s, Placed) \in Int
        /\ \A o \in Placed : s[o] \in Int
    BY <1>1, <1>2, <1>3, Shared
  <1>8. \A o \in Placed : n[o] \in Int
    BY <1>1, CountsType DEF Placed
  <1>9. ASSUME NEW o \in Placed PROVE n[o] + (d[o] + s[o]) = e[o] + r[o]
    <2>1. PICK a \in Int, t \in {order[o].status} : a = order[o].amount /\ t = order[o].status
      BY BookedCounts
    <2>2. order[o] # None /\ o \in OrderId
      BY DEF Placed
    <2>3. /\ e[o] = (IF order[o].seller = u THEN Earned[o] ELSE 0)
          /\ d[o] = (IF order[o].seller = u THEN Deducted[o] ELSE 0)
          /\ r[o] = (IF order[o].buyer = u THEN Returned[o] ELSE 0)
          /\ s[o] = (IF order[o].buyer = u THEN Spent[o] ELSE 0)
      BY <1>1, <2>2 DEF Share, Sold, Bought
    <2>4. n[o] = (IF order[o].seller = u /\ t = "delivered" THEN a ELSE 0)
               - (IF order[o].buyer = u /\ t \in Open \cup {"delivered"} THEN a ELSE 0)
      BY <1>1, <2>1, <2>2 DEF Net, NetOf
    <2>5. Spent[o] = a
      BY <2>1, BookedCounts
    <2>6. CASE t \in Open
      <3>1. Earned[o] = 0 /\ Deducted[o] = 0 /\ Returned[o] = 0
        BY <2>1, <2>6, BookedCounts
      <3> QED
        BY <2>3, <2>4, <2>5, <2>6, <3>1 DEF Open
    <2>7. CASE t = "delivered"
      <3>1. Earned[o] = a /\ Deducted[o] = 0 /\ Returned[o] = 0
        BY <2>1, <2>7, BookedCounts
      <3> QED
        BY <2>3, <2>4, <2>5, <2>7, <3>1 DEF Open
    <2>8. CASE t = "cancelled"
      <3>1. Earned[o] = 0 /\ Deducted[o] = 0 /\ Returned[o] = a
        BY <2>1, <2>8, BookedCounts
      <3> QED
        BY <2>3, <2>4, <2>5, <2>8, <3>1 DEF Open
    <2>9. CASE t = "refunded"
      <3>1. Earned[o] = a /\ Deducted[o] = a /\ Returned[o] = a
        BY <2>1, <2>9, BookedCounts
      <3> QED
        BY <2>3, <2>4, <2>5, <2>9, <3>1 DEF Open
    <2> QED
      BY <2>1, <2>6, <2>7, <2>8, <2>9, BookedCounts
  <1>10. PICK x, y : x = [o \in Placed |-> d[o] + s[o]] /\ y = [o \in Placed |-> e[o] + r[o]]
    OBVIOUS
  <1>11. /\ \A o \in Placed : d[o] \in Int /\ s[o] \in Int /\ x[o] = d[o] + s[o]
         /\ \A o \in Placed : e[o] \in Int /\ r[o] \in Int /\ y[o] = e[o] + r[o]
    BY <1>4, <1>5, <1>6, <1>7, <1>10
  <1>12. \A o \in Placed : n[o] \in Int /\ x[o] \in Int /\ y[o] = n[o] + x[o]
    BY <1>8, <1>9, <1>11
  <1>13. Total(x, Placed) = Total(d, Placed) + Total(s, Placed)
    BY <1>11, TotalPlus
  <1>14. Total(y, Placed) = Total(e, Placed) + Total(r, Placed)
    BY <1>11, TotalPlus
  <1>15. Total(y, Placed) = Total(n, Placed) + Total(x, Placed)
    BY <1>12, TotalPlus
  <1>16. Total(n, Placed) \in Int /\ grant[u] \in Int
    BY <1>8, TotalType DEF TypeInv, TypeOK
  <1>17. Booking(u) = grant[u] + Total(e, Placed) - Total(d, Placed) + Total(r, Placed) - Total(s, Placed)
    BY <1>1, <1>4, <1>5, <1>6, <1>7 DEF Booking
  <1> QED
    BY <1>1, <1>4, <1>5, <1>6, <1>7, <1>13, <1>14, <1>15, <1>16, <1>17

LEMMA BalanceAddsUp ==
  ASSUME RecordsInv, StatusAsBooked, BooksInv
  PROVE  BalanceMatchesLedger
  <1> SUFFICES ASSUME apart, NEW u \in User, wallet[u] # None
               PROVE  wallet[u].balance = Booking(u) + Total(Received, RewardsOf(u))
    BY DEF BalanceMatchesLedger
  <1>1. /\ TypeInv /\ ProofsOK /\ wallet \in Table(Nat) /\ LedgerMatchesStatus
        /\ IsFiniteSet(Placed) /\ IsFiniteSet(Made) /\ Tally(u)
    BY DEF RecordsInv, RewardInv, MoneyInv, BooksInv, StatusAsBooked
  <1>2. wallet[u].balance = grant[u] + Total(Net(u), Placed) + Total(Won(u), Made)
    BY <1>1, PurseType DEF Tally
  <1>3. Booking(u) = grant[u] + Total(Net(u), Placed)
    BY <1>1, BookingIs
  <1>4. PICK f, g, S, R : f = Received /\ g = Won(u) /\ S = Made /\ R = RewardsOf(u)
    OBVIOUS
  <1>5. R \subseteq S /\ IsFiniteSet(S)
    BY <1>1, <1>4 DEF RewardsOf, Made
  <1>6. \A x \in S : g[x] \in Int
    BY <1>1, <1>4, CountsType DEF Made
  <1>7. \A x \in S : g[x] = IF x \in R THEN f[x] ELSE 0
    BY <1>4 DEF Made, RewardsOf, Won, Received
  <1>8. Total(f, R) = Total(g, S)
    <2>1. \A x \in R : f[x] = g[x]
      BY <1>5, <1>7
    <2>2. \A x \in S \ R : g[x] = 0
      BY <1>7
    <2> QED
      BY <1>5, <1>6, <2>1, <2>2, TotalOnly
  <1> QED
    BY <1>2, <1>3, <1>4, <1>8

\* While the requests of orders do not overlap each other and nobody orders from
\* oneself, the books balance: the escrow column of every wallet is the total of
\* its open orders, and, if rewards wait for orders and orders for rewards, the
\* balance is what the transaction rows and the rewarded proofs add up to.
THEOREM BooksAlwaysBalance ==
  ASSUME SelfOrders = FALSE
  PROVE  MoneySpec /\ []OneAtATime => []BooksBalance
  <1>1. RecordsInv /\ SerialInv /\ BooksInv => BooksBalance
    BY EscrowAddsUp, BalanceAddsUp DEF SerialInv, BooksBalance
  <1> QED
    BY <1>1, RecordsInvariant, MoneySerialInvariant, BooksInvariant, PTL

\* One worker never overlaps with itself: then there is nothing to assume of the
\* requests.
COROLLARY BooksBalanceOneByOne ==
  ASSUME SelfOrders = FALSE, \A v, w \in Worker : v = w
  PROVE  MoneySpec => []BooksBalance
  <1>1. OneAtATime
    BY DEF OneAtATime
  <1>2. []OneAtATime
    BY <1>1, PTL
  <1> QED
    BY <1>2, BooksAlwaysBalance, PTL
=============================================================================
