--------------------------- MODULE MCCameraSession ---------------------------
(* A camera with firmware before 105 and dual SATA on or off, and another  *)
(* thing at the other address.                                             *)
EXTENDS CameraSession

CONSTANTS c1, c2

MCKinds == {k \in [Camera -> Kind] : k[c1] = "v1" /\ k[c2] # "v1"}
MCSatas == {s \in [Camera -> BOOLEAN] : ~s[c2]}

Pulses(on, channels) ==
  [delay |-> 0, pulseOn |-> on, pulseOff |-> 1, numberOfPulses |-> 3, channelEnable |-> channels]

(* A proper setting, one with a pulse that is too long, and one without    *)
(* channels.                                                               *)
MCSetting == {Pulses(1, 1), Pulses(65536, 1), Pulses(1, NoChannels)}
MCWord    == {65536}
=============================================================================
