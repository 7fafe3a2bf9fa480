------------------------------- MODULE Ledger -------------------------------
(***************************************************************************)
(* The Ledger aggregate (crates/accounting/src/ledger.rs) and the account  *)
(* balances (crates/infra/src/projections/accounting.rs).  An entry is a   *)
(* sequence of lines with an account, an amount and a side.  The aggregate *)
(* keeps no state that a later entry depends on.                           *)
(***************************************************************************)
EXTENDS Integers, Sequences, SequencesExt

EntryLine(accounts) == [account : accounts, amount : Int, debit : BOOLEAN]

SideTotal(lines, debit) ==
    FoldLeft(LAMBDA sum, line : IF line.debit = debit THEN sum + line.amount ELSE sum, 0, lines)

(* Mutant: every entry has two sides, but they need not be equal. *)
CanPostUnbalanced(lines) ==
    /\ lines # <<>>
    /\ \A i \in 1 .. Len(lines) : lines[i].amount > 0
    /\ SideTotal(lines, TRUE) > 0 /\ SideTotal(lines, FALSE) > 0

(* handle_post *)
CanPost(lines) ==
    /\ lines # <<>>
    /\ \A i \in 1 .. Len(lines) : lines[i].amount > 0
    /\ SideTotal(lines, TRUE) = SideTotal(lines, FALSE)

(* AccountBalancesProjection::apply_envelope: line after line, debits add. *)
BalancesAfter(balances, lines) ==
    FoldLeft(LAMBDA b, line :
                 [b EXCEPT ![line.account] = @ + (IF line.debit THEN line.amount
                                                  ELSE -line.amount)],
             balances, lines)

=============================================================================
