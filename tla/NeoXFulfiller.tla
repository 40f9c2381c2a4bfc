--------------------------- MODULE NeoXFulfiller ---------------------------
(***************************************************************************)
(* deploy/evm/neox-fulfiller.mjs, the service that answers the requests of *)
(* MorpheusOracleEVM, composed with the kernel and the dice game.  One     *)
(* process; every await is a step boundary.  It keeps a block cursor in    *)
(* memory and in a file, and walks the blocks above it in chunks.  A block *)
(* holds one request and has its number: a block without requests changes  *)
(* nothing but the cursor.                                                 *)
(***************************************************************************)
EXTENDS NeoXDice

CONSTANTS
  Fulfiller,        \* the account that sends and signs: updater and verifier
  Lookback,         \* LOOKBACK_BLOCKS
  ChunkBlocks,      \* the 2000 blocks of one getLogs
  MaxMishaps        \* bound: failing calls and crashes

ASSUME FulfillerConstants ==
  /\ Fulfiller \in EvmAccounts
  /\ Lookback \in Nat /\ ChunkBlocks \in Nat \ {0} /\ MaxMishaps \in Nat

VARIABLES
  fulPc,      \* where the process is
  cursor,     \* state.cursor of the process, 0 when there is none
  headBlock,  \* head of the cycle under way
  endBlock,   \* end of the chunk
  atBlock,    \* the block whose log is next
  saved,      \* the cursor in the state file, 0 when there is none
  mempool,    \* external: fulfillRequest transactions that are not in a block
  missed,     \* history: blocks passed without an answer, whose request could
              \* not be read or lay before the lookback
  mishaps

chunkVars == <<headBlock, endBlock, atBlock>>
fulVars   == <<fulPc, cursor, chunkVars, saved, mempool, missed, mishaps>>
neoxVars  == <<evmVars, diceVars, fulVars>>

FulInit ==
  /\ fulPc = "idle" /\ cursor = 0 /\ saved = 0
  /\ headBlock = 0 /\ endBlock = 0 /\ atBlock = 0
  /\ mempool = {} /\ missed = {} /\ mishaps = 0

Mishap == mishaps < MaxMishaps /\ mishaps' = mishaps + 1

Unanswered(id) == id \in EvmIds /\ EvmPending(id)

\* The chunk from start on; what is left of the last one does not matter while
\* no cycle is under way.
Chunk(start, head) ==
  /\ atBlock' = start
  /\ headBlock' = head
  /\ endBlock' = IF start + ChunkBlocks - 1 <= head THEN start + ChunkBlocks - 1 ELSE head

Rest(next) ==
  /\ fulPc' = "idle" /\ cursor' = next
  /\ headBlock' = 0 /\ endBlock' = 0 /\ atBlock' = 0

\* The first block of a cycle.
From(head) ==
  IF cursor # 0 THEN cursor + 1 ELSE IF head > Lookback THEN head - Lookback ELSE 0

\* cycle: the head is read once
Cycle ==
  LET head == Len(evmRequests)
  IN  /\ fulPc = "idle"
      /\ From(head) <= head
      /\ fulPc' = "logs"
      /\ Chunk(From(head), head)
      /\ missed' = IF cursor = 0 THEN missed \cup (1 .. From(head) - 1) ELSE missed
      /\ UNCHANGED <<cursor, saved, mempool, mishaps>>

\* Mutant of GiveUp: the chunk counts as done.
GiveUpDone == Rest(endBlock)

\* return state: the chunk is walked again in the next cycle
GiveUp == Rest(cursor)

GetLogs ==
  /\ fulPc = "logs"
  /\ \/ fulPc' = "walk" /\ UNCHANGED <<cursor, chunkVars, mishaps>>
     \/ Mishap /\ GiveUp
  /\ UNCHANGED <<saved, mempool, missed>>

\* getRequest of the next log of the chunk; one that fails is passed over.
ReadRequest ==
  /\ fulPc = "walk" /\ atBlock <= endBlock
  /\ \/ /\ Unanswered(atBlock)
        /\ fulPc' = "work"
        /\ UNCHANGED <<atBlock, missed, mishaps>>
     \/ /\ ~Unanswered(atBlock)
        /\ atBlock' = atBlock + 1
        /\ UNCHANGED <<fulPc, missed, mishaps>>
     \/ /\ atBlock \in EvmIds /\ Mishap
        /\ atBlock' = atBlock + 1
        /\ missed' = missed \cup {atBlock}
        /\ UNCHANGED fulPc
  /\ UNCHANGED <<cursor, headBlock, endBlock, saved, mempool>>

\* The gas estimate of the transaction runs it on the state of the moment.
Sendable(id) ==
  EvmPending(id) /\ Fulfiller \in {evmUpdater, evmOwner} /\ Fulfiller = oracleVerifier

\* What doWork comes to.
Answers == [success : {TRUE}, result : EvmResults] \cup [success : {FALSE}, result : {EvmNone}]

\* The count of mishaps is the nonce: a request is sent again only after one.
SendAnswer ==
  /\ Sendable(atBlock)
  /\ \E answer \in Answers :
        mempool' = mempool \cup {[id |-> atBlock, answer |-> answer, nonce |-> mishaps]}

\* doWork, the signature and the sending of the transaction, which may fail
\* before the broadcast or after it, when the answer of the node is lost.
Work ==
  /\ fulPc = "work"
  /\ \/ /\ SendAnswer
        /\ fulPc' = "wait"
        /\ UNCHANGED <<cursor, chunkVars, mishaps>>
     \/ /\ ~Sendable(atBlock) /\ GiveUp
        /\ UNCHANGED <<mempool, mishaps>>
     \/ /\ Mishap /\ GiveUp
        /\ SendAnswer \/ UNCHANGED mempool
  /\ UNCHANGED <<saved, missed>>

\* tx.wait throws; the transaction may get into a block all the same.
WaitFails ==
  /\ fulPc = "wait" /\ Mishap /\ GiveUp
  /\ UNCHANGED <<saved, mempool, missed>>

\* The chunk is done: the cursor moves, and is saved unless the write fails.
EndChunk ==
  /\ fulPc = "walk" /\ atBlock > endBlock
  /\ IF endBlock < headBlock
     THEN fulPc' = "logs" /\ cursor' = endBlock /\ Chunk(endBlock + 1, headBlock)
     ELSE Rest(endBlock)
  /\ \/ saved' = endBlock /\ UNCHANGED mishaps
     \/ Mishap /\ UNCHANGED saved
  /\ UNCHANGED <<mempool, missed>>

\* Mutant of Reload: a restarted process starts at the head of the chain.
ReloadAtHead == Rest(Len(evmRequests))

\* readState at the start of the process
Reload == Rest(saved)

\* The process dies and systemd starts it again.
CrashAndRestart ==
  /\ Mishap
  /\ Reload
  /\ UNCHANGED <<saved, mempool, missed>>

\* tx.wait() of the process is about this transaction.
AwaitedBy(tx) == fulPc = "wait" /\ atBlock = tx.id /\ tx.nonce = mishaps

\* A transaction gets into a block, where it is executed or reverts; the
\* process that waits for it goes on, or gives the cycle up.
Mine(tx) ==
  /\ mempool' = mempool \ {tx}
  /\ IF Sendable(tx.id)
     THEN /\ fulfillRequest(Fulfiller, tx.id, tx.answer.success, tx.answer.result, Fulfiller)
          /\ IF AwaitedBy(tx)
             THEN fulPc' = "walk" /\ atBlock' = atBlock + 1 /\ UNCHANGED <<cursor, headBlock, endBlock>>
             ELSE UNCHANGED <<fulPc, cursor, chunkVars>>
     ELSE /\ UNCHANGED <<evmVars, diceVars>>
          /\ IF AwaitedBy(tx) THEN GiveUp ELSE UNCHANGED <<fulPc, cursor, chunkVars>>
  /\ UNCHANGED <<saved, missed, mishaps>>

FulStep == Cycle \/ GetLogs \/ ReadRequest \/ Work \/ EndChunk

FulNext ==
  \/ NeoXNext /\ UNCHANGED fulVars
  \/ /\ "fulfiller" \in scene
     /\ \/ (FulStep \/ WaitFails \/ CrashAndRestart) /\ UNCHANGED <<evmVars, diceVars>>
        \/ \E tx \in mempool : Mine(tx)

\* The loop catches every error and goes on, systemd restarts the process, and
\* what is in the mempool gets into a block.
FulFairness ==
  /\ WF_neoxVars("fulfiller" \in scene /\ FulStep /\ UNCHANGED <<evmVars, diceVars>>)
  /\ WF_neoxVars("fulfiller" \in scene /\ \E tx \in mempool : Mine(tx))

FulSafety == EvmInit /\ DiceInit /\ FulInit /\ [][FulNext]_neoxVars

FulSpec == FulSafety /\ FulFairness

-----------------------------------------------------------------------------
\* Type correctness of the service.
FulTypeOK ==
  /\ fulPc \in {"idle", "logs", "walk", "work", "wait"}
  /\ cursor \in Nat /\ saved \in Nat /\ mishaps \in Nat
  /\ headBlock \in Nat /\ endBlock \in Nat /\ atBlock \in Nat
  /\ mempool \subseteq [id : Nat, answer : Answers, nonce : Nat]

\* Below the cursor, in memory or in the file, nothing is left to answer, but
\* for what could not be read: whatever failed or crashed when.
CursorCovers ==
  \A id \in EvmIds :
     id <= cursor \/ id <= saved => ~EvmPending(id) \/ id \in missed

\* The service answers this request: it could read it, and it is updater and
\* verifier for good.
Served(id) == "fulfiller" \in scene /\ "roles" \notin scene /\ id \notin missed

\* No request waits for ever: while the service is updater and verifier, every
\* request it could read is answered or expires, although calls fail, the
\* process crashes or loses the answer after sending, and transactions are late.
RequestsAnswered ==
  \A id \in 1 .. MaxEvmRequests : []<>~(Served(id) /\ Unanswered(id))
=============================================================================
