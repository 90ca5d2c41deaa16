----------------------------- MODULE MCCamStream -----------------------------
(* Blocks of two octets in packets of three: every second block spans two  *)
(* packets.                                                                *)
EXTENDS CamStream

MCFaultSets ==
  {{}, {"loss", "disorder"}, {"loss", "foreign"}, {"loss", "overrun"}, {"test"}}
=============================================================================
