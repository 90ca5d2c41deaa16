---------------------------- MODULE MCPlotFigures ----------------------------
(* One signal, another one and a matrix of signals; two camera types.      *)
EXTENDS PlotFigures

MCndim     == [t \in Title |-> IF t = "matrix" THEN 3 ELSE 1]
MCVersions == [t \in Type |-> IF t = "8x8" THEN <<1, 2>> ELSE << >>]
=============================================================================
