----------------------------- MODULE MCReports -----------------------------
(* A small instance of Reports for TLC. *)
EXTENDS Reports

CONSTANTS i1, i2, o1, c1, k1, n1

(* Two invoices together exceed MaxU64 if one of them is large. *)
MCInvoiceLines == {<<[quantity |-> 2, price |-> 1]>>, <<[quantity |-> 1, price |-> 3]>>}

MCDeltas == {-1, 2}
=============================================================================
