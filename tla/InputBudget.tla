----------------------------- MODULE InputBudget -----------------------------
(***************************************************************************)
(* What every input mailbox of the transports promises: a command that was *)
(* accepted is charged to an 8 MiB, 1024 item budget until its bytes are   *)
(* written or it is discarded, not merely until it leaves the queue, and   *)
(* nothing is accepted once the mailbox is stopped.                        *)
(***************************************************************************)
EXTENDS Integers, FiniteSets

CONSTANTS Commands,   \* commands a mailbox may be asked to carry
          Cost,       \* bytes a command is charged
          ByteLimit,  \* BYTE_LIMIT
          ItemLimit   \* ITEM_LIMIT

VARIABLES charged,  \* accepted commands that are neither written nor discarded
          open      \* whether the mailbox still accepts

(* The bytes of a set of commands, each byte named by its command.         *)
BytesOf(S) == UNION {{x} \X (1 .. Cost[x]) : x \in S}
Load(S) == Cardinality(BytesOf(S))

BudgetInit == charged = {} /\ open = TRUE

Accept(x) ==
  /\ open /\ x \notin charged
  /\ Load(charged) + Cost[x] <= ByteLimit
  /\ Cardinality(charged) < ItemLimit
  /\ charged' = charged \cup {x}
  /\ UNCHANGED open

Release(S) ==
  /\ charged' = charged \ S
  /\ open' \in {open, FALSE}

BudgetNext ==
  \/ \E x \in Commands : Accept(x)
  \/ \E S \in SUBSET charged : Release(S)

BudgetSpec == BudgetInit /\ [][BudgetNext]_<<charged, open>>
=============================================================================
