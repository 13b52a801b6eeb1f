------------------------------ MODULE MCSendFile ------------------------------
(* Values for model checking SendFile: download counts of every kind the     *)
(* validation tells apart, a negative one among them.                        *)
EXTENDS SendFile

MCLimits == {-2, 0, 1, 2}
=============================================================================
