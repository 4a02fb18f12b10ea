--------------------------- MODULE MCSensorTable ---------------------------
(* Small instance of SensorTable: more ids than slots, as in the firmware.  *)
EXTENDS SensorTable

MCProtocolIds == {"I2C", "PWM"}
MCInternalIds == {0}
=============================================================================
