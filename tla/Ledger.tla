------------------------------- MODULE Ledger -------------------------------
(***************************************************************************)
(* What the database file is to its writers, without connections, locks,   *)
(* private copies or processes: transactions enter it whole, one after the *)
(* other and each at most once, and nothing but a loss of power takes one  *)
(* out again, from the end and never behind the last sync.                 *)
(***************************************************************************)
EXTENDS Naturals, Sequences, SequencesExt

CONSTANT Tx

VARIABLES
    durable,   \* the transactions that survive anything
    tail       \* the later ones, in the order of their commits

ledgerVars == <<durable, tail>>

LedgerInit ==
    /\ durable = {}
    /\ tail = << >>

Record(x) ==
    /\ x \notin durable \cup ToSet(tail)
    /\ tail' = Append(tail, x)
    /\ UNCHANGED durable

\* The medium has the first k of the tail; what comes after them is gone.
Cut(k) ==
    /\ durable' = durable \cup ToSet(SubSeq(tail, 1, k))
    /\ tail' = << >>

Sync == Cut(Len(tail))

PowerFailure == \E k \in 0 .. Len(tail) : Cut(k)

LedgerNext ==
    \/ \E x \in Tx : Record(x)
    \/ Sync
    \/ PowerFailure

LedgerSpec == LedgerInit /\ [][LedgerNext]_ledgerVars

=============================================================================
