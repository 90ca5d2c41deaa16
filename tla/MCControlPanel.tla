--------------------------- MODULE MCControlPanel ---------------------------
(* Two channels, one of them with two names, and one of a missing board.   *)
EXTENDS ControlPanel

MCNames == <<"ADC1", "ADC2", "ADC3", "APD-1-1">>
MCMap   == [n \in {"ADC1", "ADC2", "ADC3", "APD-1-1"} |->
              CASE n = "ADC1" -> 1 [] n = "ADC3" -> 3 [] OTHER -> 2]

Level(p, l) == [enable |-> TRUE, polarity |-> p, level |-> l]
File(a, b, c, d) == [n \in {"ADC1", "ADC2", "ADC3", "APD-1-1"} |->
                       CASE n = "ADC1" -> a [] n = "ADC2" -> b [] n = "ADC3" -> c [] OTHER -> d]

(* Both channels, the second one twice; one only; a bad level, a text that *)
(* cannot be read, a positive one, and one for the missing board.          *)
MCConfigs ==
  {File(Level("negative", 1), Level("negative", 2), NoEntry, Level("negative", 3)),
   File(NoEntry, Level("negative", 1), NoEntry, NoEntry),
   File(Level("negative", 1), Level("negative", 4), NoEntry, NoEntry),
   File(Level("negative", 1), NoEntry, NoEntry, Invalid),
   File(Level("negative", 1), Level("positive", 1), NoEntry, NoEntry),
   File(Level("negative", 1), NoEntry, Level("negative", 1), NoEntry)}
=============================================================================
