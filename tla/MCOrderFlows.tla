---------------------------- MODULE MCOrderFlows ----------------------------
(* Small instances of OrderFlows for TLC. *)
EXTENDS OrderFlows

CONSTANTS o1, i1, p1, cash, sales

(* One line is refused for its quantity, one for its price, and one has a  *)
(* total beyond MaxU64.                                                    *)
MCSalesLines == {[quantity |-> 0, price |-> 1], [quantity |-> 1, price |-> 0],
                 [quantity |-> 2, price |-> 3], [quantity |-> 3, price |-> 3]}

Line(account, amount, debit) == [account |-> account, amount |-> amount, debit |-> debit]

MCEntries ==
    {<<>>, <<Line(cash, 1, TRUE), Line(sales, 1, FALSE)>>,
     <<Line(sales, 2, TRUE), Line(cash, 1, FALSE), Line(sales, 1, FALSE)>>,
     <<Line(cash, 2, TRUE), Line(sales, 1, FALSE)>>, <<Line(cash, 0, TRUE)>>}

MCBodies == {<<>>, <<1, 2>>, <<1, 0>>}

=============================================================================
