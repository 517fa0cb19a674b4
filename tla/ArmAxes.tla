------------------------------- MODULE ArmAxes -------------------------------
(***************************************************************************)
(* The axes that the arm controller and the EtherCAT driver share: the     *)
(* fourteen joints of the two arms.                                        *)
(***************************************************************************)
CONSTANT Axes

ASSUME AxesAssumption == Axes # {}
==============================================================================
