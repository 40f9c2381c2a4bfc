------------------------------ MODULE NeoXDice ------------------------------
(***************************************************************************)
(* MiniAppDiceGameEVM, the consumer of MorpheusOracleEVM that holds money. *)
(* A bet is one kernel request, and is settled from the kernel's callback  *)
(* or, when that failed, by anyone from the request the kernel stored.     *)
(* Payments are sent after the last write; one that fails is owed to the   *)
(* player.  setOracle is left out: bets are kept by request id alone.      *)
(***************************************************************************)
EXTENDS NeoXOracle

CONSTANTS
  Dice,             \* the address of the game, the callback contract of its app
  RandomModule,     \* "random.generate"
  Players,
  Faces,            \* the faces that are bet on
  Stakes,           \* msg.value of a bet
  DefaultStakes,    \* the pair <<minStake, maxStake>> at first
  StakeLimits,      \* the pairs the owner sets
  Funds,            \* what the house pays in
  MaxDiceBalance    \* bound: the game's balance

ASSUME DiceConstants ==
  /\ Dice \in EvmAccounts /\ 0 \in Values /\ RandomModule \in EvmModules
  /\ Players \subseteq EvmAccounts /\ IsFiniteSet(Players)
  /\ Faces \subseteq 1 .. 6 /\ EvmResults \subseteq 1 .. 6
  /\ Stakes \subseteq Nat /\ Funds \subseteq Nat
  /\ DefaultStakes \in StakeLimits
  /\ StakeLimits \subseteq Nat \X Nat /\ \A l \in StakeLimits : 0 < l[1] /\ l[1] <= l[2]

VARIABLES
  diceOwner,
  stakeLimits,      \* minStake, maxStake
  diceBalance,      \* address(this).balance
  diceReserved,     \* reserved
  owed,             \* pendingWithdrawals
  totalPending,
  bets,             \* request id -> bet
  paid              \* history: what each player was sent

diceVars == <<diceOwner, stakeLimits, diceBalance, diceReserved, owed, totalPending, bets, paid>>

Bet == [player : Players, stake : Nat, face : 1 .. 6,
        status : {"pending", "won", "lost", "refunded"}]

BetIds == DOMAIN bets

DiceInit ==
  /\ diceOwner = EvmDeployer
  /\ stakeLimits = DefaultStakes
  /\ diceBalance = 0 /\ diceReserved = 0 /\ totalPending = 0
  /\ owed = [p \in Players |-> 0] /\ paid = [p \in Players |-> 0]
  /\ bets = <<>>

\* 5.7 times the stake, rounded down.
Payout(stake) == (stake * 57) \div 10

\* receive and fundBankroll
fundBankroll(amount) ==
  /\ diceBalance + amount <= MaxDiceBalance
  /\ diceBalance' = diceBalance + amount
  /\ UNCHANGED <<evmVars, diceOwner, stakeLimits, diceReserved, owed, totalPending, bets, paid>>

\* Mutant of CanCover: the new payout alone is compared with the balance.
CoversItself(stake) == diceBalance + stake >= Payout(stake)

\* The balance, which includes the stake, covers every reservation and this one.
CanCover(stake) == diceBalance + stake >= diceReserved + Payout(stake)

placeBet(player, face, stake) ==
  /\ diceBalance + stake <= MaxDiceBalance
  /\ stakeLimits[1] <= stake /\ stake <= stakeLimits[2]
  /\ CanCover(stake)
  /\ requestFromCallback(Dice, 0, RandomModule)
  /\ LET id == Len(evmRequests) + 1
     IN  bets' = [i \in BetIds \cup {id} |->
                    IF i = id THEN [player |-> player, stake |-> stake, face |-> face,
                                    status |-> "pending"]
                    ELSE bets[i]]
  /\ diceBalance' = diceBalance + stake
  /\ diceReserved' = diceReserved + Payout(stake)
  /\ UNCHANGED <<diceOwner, stakeLimits, owed, totalPending, paid>>

\* Mutant of BetOpen: a settled bet is settled again.
BetKnown(id) == id \in BetIds

BetOpen(id) == id \in BetIds /\ bets[id].status = "pending"

\* A player of a scene with contracts may refuse a payment.
MayRefuse == "refusals" \in scene

\* _pay: the payment is sent, or owed when the call fails.
Pay(to, amount) ==
  IF amount = 0 THEN UNCHANGED <<diceBalance, owed, totalPending, paid>>
  ELSE \/ /\ diceBalance >= amount
          /\ diceBalance' = diceBalance - amount
          /\ paid' = [paid EXCEPT ![to] = @ + amount]
          /\ UNCHANGED <<owed, totalPending>>
       \/ /\ MayRefuse \/ diceBalance < amount
          /\ owed' = [owed EXCEPT ![to] = @ + amount]
          /\ totalPending' = totalPending + amount
          /\ UNCHANGED <<diceBalance, paid>>

BetStatus(b, success, result) ==
  IF ~success THEN "refunded" ELSE IF result = b.face THEN "won" ELSE "lost"

Prize(b, status) ==
  IF status = "refunded" THEN b.stake ELSE IF status = "won" THEN Payout(b.stake) ELSE 0

\* _settle
Settle(id, success, result) ==
  LET b      == bets[id]
      status == BetStatus(b, success, result)
  IN  /\ BetOpen(id) /\ diceReserved >= Payout(b.stake)
      /\ diceReserved' = diceReserved - Payout(b.stake)
      /\ bets' = [bets EXCEPT ![id].status = status]
      /\ Pay(b.player, Prize(b, status))
      /\ UNCHANGED <<diceOwner, stakeLimits>>

\* The callback of fulfillRequest: onOracleResult settles the bet, or the call
\* reverts or runs out of gas and the kernel goes on.
Callback(id, success, result) ==
  \/ evmRequests[id].callback = Dice /\ Settle(id, success, result)
  \/ UNCHANGED diceVars

fulfillRequest(s, id, success, result, signer) ==
  Fulfill(s, id, success, result, signer) /\ Callback(id, success, result)

\* The kernel stores no result for a request it answered with a failure or
\* let expire.
settleFromKernel(id) ==
  /\ id \in EvmIds /\ ~EvmPending(id)
  /\ Settle(id, evmRequests[id].status = "succeeded", evmRequests[id].result)
  /\ UNCHANGED evmVars

claim(player) ==
  /\ owed[player] > 0 /\ diceBalance >= owed[player]
  /\ owed' = [owed EXCEPT ![player] = 0]
  /\ totalPending' = totalPending - owed[player]
  /\ diceBalance' = diceBalance - owed[player]
  /\ paid' = [paid EXCEPT ![player] = @ + owed[player]]
  /\ UNCHANGED <<evmVars, diceOwner, stakeLimits, diceReserved, bets>>

availableBankroll ==
  LET locked == diceReserved + totalPending
  IN  IF diceBalance > locked THEN diceBalance - locked ELSE 0

withdrawBankroll(s, amount) ==
  /\ s = diceOwner
  /\ amount <= availableBankroll
  /\ diceBalance' = diceBalance - amount
  /\ UNCHANGED <<evmVars, diceOwner, stakeLimits, diceReserved, owed, totalPending, bets, paid>>

setStakeLimits(s, limits) ==
  /\ s = diceOwner
  /\ stakeLimits' = limits
  /\ UNCHANGED <<evmVars, diceOwner, diceBalance, diceReserved, owed, totalPending, bets, paid>>

\* setOwner of the game
SetDiceOwner(s, next) ==
  /\ s = diceOwner
  /\ diceOwner' = next
  /\ UNCHANGED <<evmVars, stakeLimits, diceBalance, diceReserved, owed, totalPending, bets, paid>>

Play ==
  \/ /\ "dice" \in scene
     /\ \/ \E amount \in Funds : fundBankroll(amount)
        \/ \E player \in Players, face \in Faces, stake \in Stakes :
              placeBet(player, face, stake)
        \/ \E id \in BetIds : settleFromKernel(id)
        \/ \E player \in Players : claim(player)
        \/ \E s \in EvmAccounts :
              \/ \E amount \in 1 .. availableBankroll : withdrawBankroll(s, amount)
              \/ \E limits \in StakeLimits : setStakeLimits(s, limits)
  \/ "registry" \in scene /\ \E s, next \in EvmAccounts : SetDiceOwner(s, next)

\* An answer of the relayer's Neo X lane, sent by whoever the kernel lets.
Answer ==
  /\ "relayer" \in scene
  /\ \E s \in EvmAccounts, id \in EvmIds, signer \in EvmAccounts :
        \/ \E result \in EvmResults : fulfillRequest(s, id, TRUE, result, signer)
        \/ fulfillRequest(s, id, FALSE, EvmNone, signer)

NeoXNext ==
  \/ (EvmAdmin \/ EvmExpire) /\ UNCHANGED diceVars
  \/ scene \cap {"fees", "registry", "requests"} # {} /\ EvmSubmit /\ UNCHANGED diceVars
  \/ Answer
  \/ Play

NeoXSpec == EvmInit /\ DiceInit /\ [][NeoXNext]_<<evmVars, diceVars>>

-----------------------------------------------------------------------------
\* Type correctness of the game.
DiceTypeOK ==
  /\ EvmTypeOK
  /\ diceOwner \in EvmAccounts /\ stakeLimits \in StakeLimits
  /\ diceBalance \in Nat /\ diceReserved \in Nat /\ totalPending \in Nat
  /\ owed \in [Players -> Nat] /\ paid \in [Players -> Nat]
  /\ BetIds \subseteq EvmIds /\ bets \in [BetIds -> Bet]

PendingPayout ==
  [id \in BetIds |-> IF bets[id].status = "pending" THEN Payout(bets[id].stake) ELSE 0]

\* What the outcome that the kernel stored makes due on a bet.
DueOn(id) ==
  IF evmRequests[id].status = "failed" THEN bets[id].stake
  ELSE IF evmRequests[id].result = bets[id].face THEN Payout(bets[id].stake) ELSE 0

\* What the settled bets of player p make due.
Due(p) ==
  [id \in BetIds |->
     IF bets[id].player = p /\ bets[id].status # "pending" /\ ~EvmPending(id)
     THEN DueOn(id) ELSE 0]

\* The game's books: a player was sent, or is owed, exactly what the outcomes
\* stored in the kernel make due on the settled bets, although a bet may be
\* settled from a callback or from the stored request, after an answer or an
\* expiry, and payments may fail; and the reservation is that of the open bets.
DiceBooksExact ==
  /\ diceReserved = Total(BetIds, PendingPayout)
  /\ totalPending = Total(Players, owed)
  /\ \A p \in Players : paid[p] + owed[p] = Total(BetIds, Due(p))

\* What the comment on reserved promises: the balance covers what every open
\* bet may win, and what is owed.
Covered == diceBalance >= diceReserved + totalPending

\* It holds as long as no payment is refused; placeBet does not count what is
\* owed, so with refused payments it does not.
CoveredUnlessRefused == MayRefuse \/ Covered
=============================================================================
