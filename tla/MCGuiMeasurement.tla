-------------------------- MODULE MCGuiMeasurement --------------------------
(* A measurement and the next one, which meets what the first has left.    *)
EXTENDS GuiMeasurement

MCEnvSets ==
  {{}, {"disconnect", "progFails"}, {"measureFails", "progFails"}, {"hang", "progCrashes"},
   {"trigger"}, {"writeFails"}}
MCNone == {{}}
=============================================================================
