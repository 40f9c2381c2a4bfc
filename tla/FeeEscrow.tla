----------------------------- MODULE FeeEscrow ------------------------------
(***************************************************************************)
(* What the kernel's fee accounting promises, without its pools: a prepaid *)
(* balance per account, an escrow entry per open request that is either    *)
(* earned or returned in full to whoever paid it, and earnings that are    *)
(* all the operator can take out.                                          *)
(***************************************************************************)
EXTENDS Integers, FiniteSets

CONSTANTS Accounts, Deposits

VARIABLES
  balance,  \* account -> prepaid amount
  escrow,   \* open entries [id, payer, fee]
  opened,   \* how many entries were ever opened; the last id given out
  earned    \* fees of earned entries not yet taken out

escrowVars == <<balance, escrow, opened, earned>>

Init ==
  /\ balance = [x \in Accounts |-> 0]
  /\ escrow = {} /\ opened = 0 /\ earned = 0

Deposit(x, amount) ==
  /\ balance' = [balance EXCEPT ![x] = @ + amount]
  /\ UNCHANGED <<escrow, opened, earned>>

Open(payer, fee) ==
  /\ balance' = [balance EXCEPT ![payer] = @ - fee]
  /\ opened' = opened + 1
  /\ escrow' = escrow \cup {[id |-> opened + 1, payer |-> payer, fee |-> fee]}
  /\ UNCHANGED earned

Earn(e) ==
  /\ escrow' = escrow \ {e}
  /\ earned' = earned + e.fee
  /\ UNCHANGED <<balance, opened>>

Return(e) ==
  /\ escrow' = escrow \ {e}
  /\ balance' = [balance EXCEPT ![e.payer] = @ + e.fee]
  /\ UNCHANGED <<opened, earned>>

\* Taken out, or turned into the prepaid balance of some account.
TakeEarnings(amount) ==
  /\ earned' = earned - amount
  /\ \/ UNCHANGED balance
     \/ \E x \in Accounts : balance' = [balance EXCEPT ![x] = @ + amount]
  /\ UNCHANGED <<escrow, opened>>

Next ==
  \/ \E x \in Accounts, amount \in Deposits : Deposit(x, amount)
  \/ \E x \in Accounts : \E fee \in 1 .. balance[x] : Open(x, fee)
  \/ \E e \in escrow : Earn(e) \/ Return(e)
  \/ \E amount \in 1 .. earned : TakeEarnings(amount)

Spec == Init /\ [][Next]_escrowVars
=============================================================================
