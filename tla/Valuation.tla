----------------------------- MODULE Valuation -----------------------------
(***************************************************************************)
(* The rows of InventoryValuationProjection                                *)
(* (crates/infra/src/projections/inventory_valuation.rs): an item's        *)
(* quantity, and its value once somebody has set a unit cost.  An Option   *)
(* is a set with at most one member.                                       *)
(***************************************************************************)
EXTENDS InventoryItem, Sequences, SequencesExt

CONSTANT MaxValue  \* u64::MAX

ASSUME ValuationAssumption == MaxValue \in Nat

NewValuation == [listed |-> TRUE, quantity |-> 0, unit_cost |-> {}, total_value |-> {}]

NoValuation == [NewValuation EXCEPT !.listed = FALSE]

SaturatingMul(a, b) == IF a * b > MaxValue THEN MaxValue ELSE a * b

RecalculateValue(row) ==
    [row EXCEPT !.total_value =
        {IF row.quantity > 0 THEN SaturatingMul(row.quantity, cost) ELSE 0 : cost \in row.unit_cost}]

SetUnitCost(row, cost) == RecalculateValue([row EXCEPT !.unit_cost = {cost}])

(* Mutant: the value waits for the next cost. *)
ValuationAfterStale(row, event) ==
    IF event.type = "ItemCreated" THEN NewValuation
    ELSE [row EXCEPT !.listed = TRUE, !.quantity = AddI64(@, event.delta)]

ValuationAfter(row, event) ==
    IF event.type = "ItemCreated" THEN NewValuation
    ELSE RecalculateValue([row EXCEPT !.listed = TRUE, !.quantity = AddI64(@, event.delta)])

(* rebuild_from_scratch, for one item *)
RebuiltValuation(events) == FoldLeft(ValuationAfter, NoValuation, events)

=============================================================================
