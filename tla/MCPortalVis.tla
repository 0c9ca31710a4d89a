---------------------------- MODULE MCPortalVis ----------------------------
(* Four clusters: 1 leads to 2, and 2, 3 and 4 lead to each other.  From 1 *)
(* one sees 4 past the corner through 3, but not 3 through 4.              *)
EXTENDS PortalVis

MCClusters == 1..4
MCPortals == {<<1, 2>>, <<2, 1>>, <<2, 3>>, <<3, 2>>, <<2, 4>>, <<4, 2>>,
              <<3, 4>>, <<4, 3>>}
MCNeighbour == [p \in MCPortals |-> p[2]]
MCExits == <<<< <<1, 2>> >>,
             << <<2, 1>>, <<2, 3>>, <<2, 4>> >>,
             << <<3, 2>>, <<3, 4>> >>,
             << <<4, 2>>, <<4, 3>> >>>>
MCInFront == [p \in MCPortals |->
    {q \in MCPortals : q[2] # p[1] /\ q[1] # p[1] /\ q # p}]
Lines == {<<1, 2, 3>>, <<2, 3, 4>>, <<2, 4, 3>>, <<1, 2, 3, 4>>}
Reversed(l) == [i \in DOMAIN l |-> l[Len(l) + 1 - i]]
Through(l) == [i \in 1..(Len(l) - 1) |-> <<l[i], l[i + 1]>>]
MCClear == {<<p>> : p \in MCPortals}
           \cup {Through(l) : l \in Lines} \cup {Through(Reversed(l)) : l \in Lines}
(* Accepted though no line goes that way: 4 from 1 without the corner, and *)
(* 1 from 3 by way of 4, where the flow from 4 is rejected.                *)
MCOpen == MCClear \cup {Through(<<1, 2, 4>>), Through(<<3, 4, 2, 1>>)}
=============================================================================
