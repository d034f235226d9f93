--------------------------- MODULE MCModbusDevice ---------------------------
(* Model values for the runs of ModbusDevice.                              *)
EXTENDS ModbusDevice, TLC

Symmetry == Permutations(Tasks)
=============================================================================
