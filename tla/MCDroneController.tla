-------------------------- MODULE MCDroneController --------------------------
(* DroneController on a 2 x 8 matrix (four words, so that words change row), *)
(* an eight-element state and a four-element control vector.  Software may   *)
(* move the x_in pointer from one region to the one next to it and issue     *)
(* every kind of command, alone and combined.                                *)
EXTENDS DroneController

Command(bits) == [we |-> TRUE, reg |-> "CMD", value |-> 0, bits |-> bits]
Point(r, a)   == [we |-> TRUE, reg |-> r, value |-> a, bits |-> {}]
Load(r)       == [we |-> FALSE, reg |-> r, value |-> 0, bits |-> {}]

MCRequests ==
  {Command({b}) : b \in CmdBits}
  \cup {Command({"UPDATE_CONTROLLER", "UPDATE_CONTROLLER_STATE"})}
  \cup {Point("X_IN_VEC", 8)}
  \cup {Load("X_REF_VEC")}
=============================================================================
