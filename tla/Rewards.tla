------------------------------ MODULE Rewards ------------------------------
(***************************************************************************)
(* Rewards beside orders: RewardsService.addRewardProof saves a proof,     *)
(* asks a model to judge it, credits the user's wallet and records the     *)
(* score, while the handlers of Orders work on the same wallets.           *)
(*                                                                         *)
(* Every query is a step, and the question to the model takes as long as   *)
(* it takes.  There is no transaction: the balance that was read is        *)
(* written back with the coins added.  A request makes one proof, so stage *)
(* and seen are kept per proof.  The environment decides at the start      *)
(* whether proofs and orders overlap and whether these requests may die.   *)
(***************************************************************************)
EXTENDS OrderProperties

CONSTANTS
  Proof,        \* ids of reward proofs
  Coins,        \* reward_coin of a proof that was accepted
  Environments  \* combinations of <<apart, dies>> that may occur

ASSUME EnvironmentsOK == Environments \subseteq BOOLEAN \X BOOLEAN
ASSUME CoinsOK == Coins \in Nat \ {0}

\* reward_coin is -1 until the proof has been judged.
ProofRow == [user : User, coin : {-1, 0, Coins}]
ASSUME NoneIsNoProof == None \notin ProofRow

VARIABLES
  proof,  \* reward_proofs: id -> row or None
  stage,  \* how far the request got that makes this proof
  seen,   \* the wallet it has read
  paid,   \* history: how often the wallet was credited for it
  apart,  \* proofs and orders are handled one after the other
  dies    \* the requests that make proofs may die

rewards == <<proof, stage, seen, paid, apart, dies>>
moneyVars == <<vars, rewards>>

MoneyInit ==
  /\ Init
  /\ proof = [p \in Proof |-> None]
  /\ stage = [p \in Proof |-> "none"]
  /\ seen = [p \in Proof |-> None]
  /\ paid = [p \in Proof |-> 0]
  /\ \E e \in Environments : apart = e[1] /\ dies = e[2]

-----------------------------------------------------------------------------
InFlight(p) == stage[p] \notin {"none", "done"}
NoProof == \A p \in Proof : ~InFlight(p)
NoOrder == \A w \in Worker : pc[w] = "idle"

Owner(p) == proof[p].user
Goto(p, at) == stage' = [stage EXCEPT ![p] = at] /\ UNCHANGED <<apart, dies>>

AddProof_Save(p, u) ==
  /\ stage[p] = "none"
  /\ apart => NoProof /\ NoOrder
  /\ proof' = [proof EXCEPT ![p] = [user |-> u, coin |-> -1]]
  /\ Goto(p, "asked")
  /\ UNCHANGED <<vars, seen, paid>>

\* The model answers 1: the wallet is read.
AddProof_FindWallet(p) ==
  /\ stage[p] = "asked"
  /\ seen' = [seen EXCEPT ![p] = wallet[Owner(p)]]
  /\ Goto(p, "found")
  /\ UNCHANGED <<vars, proof, paid>>

\* It answers 0.
AddProof_Deny(p) ==
  /\ stage[p] = "asked"
  /\ Goto(p, "denied")
  /\ UNCHANGED <<vars, proof, seen, paid>>

\* It answers something else, or not at all: the proof stays unjudged.
AddProof_Unclear(p) ==
  /\ stage[p] = "asked"
  /\ Goto(p, "done")
  /\ UNCHANGED <<vars, proof, seen, paid>>

\* UPDATE of the balance alone; or the insert of a wallet.
Rewarded(u, row) ==
  IF row = None THEN SetRow(wallet, u, Coins, 0) ELSE SetBalance(wallet, u, row.balance + Coins)

AddProof_Credit(p) ==
  /\ stage[p] = "found"
  /\ CanInsert(Owner(p), seen[p])
  /\ wallet' = Rewarded(Owner(p), seen[p])
  /\ paid' = [paid EXCEPT ![p] = @ + 1]
  /\ Goto(p, "credited")
  /\ UNCHANGED <<order, ledger, timeline, grant, asking, pc, req, snap, proof, seen>>

\* The insert finds a wallet that was not there before.
AddProof_DuplicateWallet(p) ==
  /\ stage[p] = "found"
  /\ ~CanInsert(Owner(p), seen[p])
  /\ Goto(p, "done")
  /\ UNCHANGED <<vars, proof, seen, paid>>

\* Mutant: the score is recorded before the wallet is credited.
AddProof_Record_First(p) ==
  /\ stage[p] \in {"found", "denied"}
  /\ proof' = [proof EXCEPT ![p].coin = IF stage[p] = "denied" THEN 0 ELSE Coins]
  /\ Goto(p, "done")
  /\ UNCHANGED <<vars, seen, paid>>

AddProof_Record(p) ==
  /\ stage[p] \in {"credited", "denied"}
  /\ proof' = [proof EXCEPT ![p].coin = IF stage[p] = "denied" THEN 0 ELSE Coins]
  /\ Goto(p, "done")
  /\ UNCHANGED <<vars, seen, paid>>

AddProof_Die(p) ==
  /\ dies
  /\ InFlight(p)
  /\ Goto(p, "done")
  /\ UNCHANGED <<vars, proof, seen, paid>>

-----------------------------------------------------------------------------
AddProof(p) ==
  \/ \E u \in User : AddProof_Save(p, u)
  \/ AddProof_FindWallet(p) \/ AddProof_Deny(p) \/ AddProof_Unclear(p)
  \/ AddProof_Credit(p) \/ AddProof_DuplicateWallet(p)
  \/ AddProof_Record(p)
  \/ AddProof_Die(p)

MoneyNext ==
  \/ (apart => NoProof) /\ Next /\ UNCHANGED rewards
  \/ \E p \in Proof : AddProof(p)

MoneySpec == MoneyInit /\ [][MoneyNext]_moneyVars

-----------------------------------------------------------------------------
\* However proofs, orders and the answers of the model overlap, a proof is paid
\* at most once, and one that is recorded as rewarded has been paid; and unless
\* the request died in between, one that was paid is recorded as rewarded.
PaidAsRecorded ==
  \A p \in Proof :
    /\ paid[p] <= 1
    /\ proof[p] # None /\ proof[p].coin = Coins => paid[p] = 1
    /\ paid[p] = 1 /\ ~dies => proof[p].coin = Coins \/ stage[p] = "credited"
=============================================================================
