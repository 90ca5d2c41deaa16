--------------------------- MODULE MCNativeReceiver ---------------------------
(* With an MTU of 114 there are 8 octets in a packet.                      *)
EXTENDS NativeReceiver

Masks(first, second) == [a \in Adc |-> [c \in Chip |-> IF a = 0 THEN first[c] ELSE second[c]]]

Full        == [c \in Chip |-> 0..7]
ChipZero(m) == [c \in Chip |-> IF c = 0 THEN m ELSE {}]

(* A full board, and one with holes in the mask of a chip; the other way   *)
(* round; a size that is rounded.                                          *)
MCRequests ==
  {[mask |-> Masks(Full, ChipZero({0, 1, 2, 7})), bits |-> 8],
   [mask |-> Masks(ChipZero({0, 7}), Full), bits |-> 8],
   [mask |-> Masks(Full, ChipZero({0, 1, 2})), bits |-> 14]}
=============================================================================
