---------------------------- MODULE MCEnergyMgmt ----------------------------
(* EnergyMgmt with thresholds and levels below, on and above each of them.   *)
EXTENDS EnergyMgmt

Thresholds ==
  [thres_low |-> 2, thres_high |-> 4,
   thres_off_low |-> 1, thres_low_mid |-> 3, thres_mid_high |-> 5,
   thres_retention_to_off |-> 0, thres_off_to_1 |-> 3,
   thres_1_to_retention |-> 2, thres_retention_to_1 |-> 3,
   thres_2_to_1 |-> 3, thres_1_to_2 |-> 4, thres_3_to_2 |-> 4, thres_2_to_3 |-> 5,
   thres_4_to_3 |-> 5, thres_3_to_4 |-> 6, thres_5_to_4 |-> 6, thres_4_to_5 |-> 7]

EnergyLevels == -1 .. 8
=============================================================================
