--------------------------- MODULE MCRegistration ---------------------------
(***************************************************************************)
(* Three nodes, of which one is started to register, or two are.           *)
(***************************************************************************)
EXTENDS Registration, TLC

CONSTANTS n1, n2, n3

MCNode == {n1, n2, n3}

Others == [n \in MCNode |-> MCNode \ {n}]

Setting(register, teammates, stops, refusals) ==
    [register |-> register, teammates |-> teammates, stops |-> stops, refusals |-> refusals]

\* Proper command lines, with restarts and refusals; two registrants; the own key
\* among the two; one key only.
MCSettings ==
    {Setting({n1}, Others, 2, 2),
     Setting({n1, n2}, Others, 1, 1),
     Setting({n1}, [Others EXCEPT ![n1] = {n1, n2}], 1, 0),
     Setting({n1, n2}, [Others EXCEPT ![n1] = {n2}], 0, 1)}
=============================================================================
