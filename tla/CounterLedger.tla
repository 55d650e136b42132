--------------------------- MODULE CounterLedger ---------------------------
(***************************************************************************)
(* What a batched increment promises: a counter owes what was asked of it  *)
(* until the amount is applied, or is written off with a failed flush.     *)
(* Each unit is applied or written off at most once.                       *)
(***************************************************************************)
EXTENDS Integers

CONSTANT Counters

VARIABLES
  owed,         \* accepted and not settled yet
  applied,      \* what the store shows
  writtenOff    \* given up

ledger == <<owed, applied, writtenOff>>

LedgerInit ==
  /\ owed = [c \in Counters |-> 0]
  /\ applied = [c \in Counters |-> 0]
  /\ writtenOff = [c \in Counters |-> 0]

\* One increment is taken on.
Owe(c) ==
  /\ owed' = [owed EXCEPT ![c] = @ + 1]
  /\ UNCHANGED <<applied, writtenOff>>

\* A part of what is owed moves to the store.
Apply ==
  /\ \A c \in Counters : /\ applied[c] <= applied'[c]
                         /\ owed'[c] \in Nat
                         /\ applied'[c] + owed'[c] = applied[c] + owed[c]
  /\ UNCHANGED writtenOff

\* A part of what is owed is given up.
WriteOff ==
  /\ \A c \in Counters : /\ writtenOff[c] <= writtenOff'[c]
                         /\ owed'[c] \in Nat
                         /\ writtenOff'[c] + owed'[c] = writtenOff[c] + owed[c]
  /\ UNCHANGED applied

LedgerNext == (\E c \in Counters : Owe(c)) \/ Apply \/ WriteOff

LedgerSpec == LedgerInit /\ [][LedgerNext]_ledger
=============================================================================
