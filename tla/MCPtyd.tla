-------------------------------- MODULE MCPtyd --------------------------------
(* Instances of Ptyd for TLC. *)
EXTENDS Ptyd

CONSTANTS c1, c2, s1

TwoConns == {c1, c2}
OneId    == {s1}
Policies == {"active", "min"}

Size(c, r) == [cols |-> c, rows |-> r]
Smallest   == Size(2, 1)
Largest    == Size(4, 4)
Default    == Size(3, 3)

(* A pane that is not measured, a wide window that is too large, and a tall *)
(* one.                                                                    *)
Windows == {Size(0, 0), Size(9, 2), Size(2, 4)}
=============================================================================
