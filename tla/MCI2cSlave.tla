----------------------------- MODULE MCI2cSlave -----------------------------
(* A wrapping map with one address byte, a saturating one with two, and a   *)
(* streaming sensor without register address.                               *)
EXTENDS I2cSlave

MCConfigs == {
    [width |-> 1, len |-> 3, inc |-> "BOTH", wrap |-> TRUE,  writes |-> TRUE],
    [width |-> 2, len |-> 2, inc |-> "READ", wrap |-> FALSE, writes |-> TRUE],
    [width |-> 0, len |-> 2, inc |-> "WRITE", wrap |-> FALSE, writes |-> TRUE]}
=============================================================================
