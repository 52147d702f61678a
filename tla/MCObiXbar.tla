------------------------------ MODULE MCObiXbar ------------------------------
(* Three managers and two subordinates: managers 0 and 1 switch between both *)
(* subordinates, manager 2 competes for the first, so that priorities,       *)
(* locks, full fifos and changes of destination all meet.                    *)
EXTENDS ObiXbar

CONSTANTS s1, s2
MCSubs == {s1, s2}
MCReach(m) == IF m = 2 THEN {s1} ELSE {s1, s2}
=============================================================================
