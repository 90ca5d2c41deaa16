-------------------------- MODULE PlotFiguresProofs --------------------------
(***************************************************************************)
(* Proofs about PlotFigures: types, and that the panel's lists are true of *)
(* the windows.                                                            *)
(***************************************************************************)
EXTENDS PlotFigures, SequenceTheorems, WellFoundedInduction, TLAPS

Figure == {New} \cup Num

(* The current window is one that is open, and there is one if any is.     *)
CurrentInv == gcf = New <=> Opened = {}

(* The lists reach as far as the numbers of the windows and of the menu,   *)
(* and a window was selected for every plot under way.                     *)
ListsInv ==
  /\ Len(figure_list) >= 1 /\ Len(figure_list) <= Len(legend_list)
  /\ \A i \in 1..Len(figure_list) : figure_list[i] < Len(figure_list)
  /\ var_figure < Len(figure_list)
  /\ \A n \in Opened : n < Len(figure_list)
  /\ stack # <<>> => Len(figure_list) >= 2

(* A plot in the middle of which another one is made is at a call that     *)
(* processes events; what it will draw has been loaded.                    *)
StackInv ==
  /\ \A i \in 1..(Len(stack) - 1) : stack[i].at \in {"update1", "update2", "pause"}
  /\ \A i \in 1..Len(stack) : stack[i].at \in {"update2", "draw"} => stack[i].ps # None
  /\ stack # <<>> => data # None

OptionsInv == shown = option /\ disabled = option \cap Autoscale

VersionInv == camera_version # None => camera_version \in Range(Versions[camera_type])

(* As long as nothing came in between: the menu holds the numbers in their *)
(* order, and of the plots under way only the innermost one is between its *)
(* drawing and what is recorded of it.                                     *)
RegularInv ==
  regular =>
    /\ \A i \in 1..Len(figure_list) : figure_list[i] = i - 1
    /\ \A n \in Opened : legend_list[n + 1] = drawn[n] /\ plotID_list[n + 1] \in {None, Id(n)}
    /\ \A n \in Opened : drawn[n] # <<>> =>
         plotID_list[n + 1] = Id(n) \/ (stack # <<>> /\ Top.at = "pause" /\ gcf = n)
    /\ stack # <<>> => gcf # New /\ act_plotID = plotID_list[gcf + 1]
    /\ \A i \in 1..(Len(stack) - 1) : stack[i].at # "pause"
    /\ \A i \in 1..Len(stack) : stack[i].at \in {"update2", "draw"} => stack[i].ps = data
    /\ stack # <<>> /\ Top.at = "pause" => plotID = Id(gcf)

PlotInv == CurrentInv /\ ListsInv /\ StackInv /\ OptionsInv /\ VersionInv /\ RegularInv

-----------------------------------------------------------------------------
(* The numbers of the windows.                                             *)

LEMMA FigureType == ASSUME NEW n \in Figure PROVE n \in Nat /\ n + 1 \in Nat
  BY PlotAssumption DEF Figure, Num, New

LEMMA NumType == ASSUME NEW n \in Num PROVE n \in Nat /\ n >= 1 /\ n \in Figure /\ n # New
  BY PlotAssumption DEF Figure, Num, New

(* A set of windows has a greatest number.                                 *)
LEMMA Greatest ==
  ASSUME NEW S \in SUBSET Num, S # {}
  PROVE  Max(S) \in S /\ \A n \in S : Max(S) >= n
  <1> DEFINE R == OpToRel(<, Nat)
             T == {MaxFigures - n : n \in S}
  <1>1. MaxFigures \in Nat
    BY PlotAssumption
  <1>2. T \subseteq Nat /\ T # {}
    BY <1>1 DEF Num
  <1>3. PICK m \in T : \A k \in T : <<k, m>> \notin R
    BY <1>2, NatLessThanWellFounded, WFMin
  <1>4. \A k \in T : ~(k < m)
    BY <1>2, <1>3 DEF OpToRel
  <1>5. PICK x \in S : m = MaxFigures - x
    OBVIOUS
  <1>6. \A n \in S : x >= n
    BY <1>1, <1>4, <1>5 DEF Num
  <1>7. QED
    BY <1>6 DEF Max

LEMMA OpenedType == ASSUME TypeOK PROVE Opened \subseteq Num /\ Opened \subseteq Nat
  BY NumType DEF Opened

LEMMA IdType == ASSUME TypeOK, NEW n \in Num PROVE Id(n) \in Ids /\ Id(n) # None /\ Id(n) \in Num \X Nat
  <1>1. window[n].serial \in Nat
    BY DEF TypeOK
  <1>2. n \in Nat
    BY NumType
  <1>3. Id(n) \in Num \X Nat /\ Id(n) \in Nat \X Nat
    BY <1>1, <1>2 DEF Id
  <1>4. QED
    BY <1>3, PlotAssumption DEF Ids

(* The next number is greater than those of the windows that exist, but no *)
(* greater than a list that reaches as far.                                *)
LEMMA NextNumber ==
  ASSUME TypeOK, NEW l \in Nat, l >= 1, \A n \in Opened : n < l
  PROVE  NewNumber \in Nat /\ NewNumber >= 1 /\ NewNumber <= l /\ NewNumber \notin Opened
  <1>1. CASE Opened = {}
    BY <1>1 DEF NewNumber
  <1>2. CASE Opened # {}
    <2> DEFINE m == Max(Opened)
    <2>1. m \in Opened /\ (\A n \in Opened : m >= n) /\ m \in Nat
      BY <1>2, Greatest, OpenedType
    <2>2. NewNumber = m + 1
      BY <1>2 DEF NewNumber
    <2> HIDE DEF m
    <2>3. m < l /\ m + 1 \notin Opened
      BY <2>1
    <2>4. QED
      BY <2>1, <2>2, <2>3
  <1>3. QED
    BY <1>1, <1>2

-----------------------------------------------------------------------------
(* What the selection of a window comes to: the window is open, it and its *)
(* entries are as they were or new, and the other windows are untouched.   *)
Selected ==
  /\ gcf' \in Num /\ Opened' = Opened \cup {gcf'} /\ gcf' < Len(figure_list')
  /\ window' \in [Num -> [open : BOOLEAN, serial : Nat]] /\ drawn' \in [Num -> Seq(Title)]
  /\ figure_list' \in Seq(Figure) /\ plotID_list' \in Seq(Ids) /\ legend_list' \in Seq(Seq(Title))
  /\ Len(figure_list') = Len(plotID_list') /\ Len(figure_list') <= Len(legend_list')
  /\ Len(figure_list') >= 2
  /\ \A i \in 1..Len(figure_list') : figure_list'[i] < Len(figure_list')
  /\ \A n \in Opened' : n < Len(figure_list')
  /\ \A n \in Opened : n # gcf' => Id(n)' = Id(n)
  /\ regular' => regular /\ ~Within("pause")
  /\ regular' => \A i \in 1..Len(figure_list') : figure_list'[i] = i - 1
  /\ regular' => \A n \in Opened' :
       \/ /\ n \in Opened /\ Id(n)' = Id(n) /\ drawn'[n] = drawn[n]
          /\ plotID_list'[n + 1] = plotID_list[n + 1] /\ legend_list'[n + 1] = legend_list[n + 1]
       \/ n = gcf' /\ drawn'[n] = <<>> /\ plotID_list'[n + 1] = None /\ legend_list'[n + 1] = <<>>

LEMMA WindowOpened ==
  ASSUME TypeOK, NEW n, OpenWindow(n)
  PROVE  /\ n \in Num /\ Opened' = Opened \cup {n}
         /\ window' \in [Num -> [open : BOOLEAN, serial : Nat]] /\ drawn' \in [Num -> Seq(Title)]
         /\ drawn'[n] = <<>>
         /\ \A m \in Num : m # n => Id(m)' = Id(m) /\ drawn'[m] = drawn[m]
  <1>1. /\ n \in Num /\ window' = [window EXCEPT ![n] = [open |-> TRUE, serial |-> window[n].serial + 1]]
        /\ drawn' = [drawn EXCEPT ![n] = <<>>]
    BY DEF OpenWindow
  <1>2. window \in [Num -> [open : BOOLEAN, serial : Nat]] /\ drawn \in [Num -> Seq(Title)]
    BY DEF TypeOK
  <1>3. [open |-> TRUE, serial |-> window[n].serial + 1] \in [open : BOOLEAN, serial : Nat]
    BY <1>1, <1>2
  <1>4. window' \in [Num -> [open : BOOLEAN, serial : Nat]]
    BY <1>1, <1>2, <1>3
  <1>5. <<>> \in Seq(Title)
    BY EmptySeq
  <1>6. drawn' \in [Num -> Seq(Title)] /\ drawn'[n] = <<>>
    BY <1>1, <1>2, <1>5
  <1>7. \A m \in Num : m # n => window'[m] = window[m] /\ drawn'[m] = drawn[m]
    BY <1>1, <1>2
  <1>8. window'[n].open
    BY <1>1, <1>2
  <1>9. Opened' = Opened \cup {n}
    BY <1>1, <1>7, <1>8 DEF Opened
  <1>10. QED
    BY <1>1, <1>4, <1>6, <1>7, <1>9 DEF Id

LEMMA ListTypes ==
  ASSUME TypeOK
  PROVE  /\ figure_list \in Seq(Figure) /\ plotID_list \in Seq(Ids) /\ legend_list \in Seq(Seq(Title))
         /\ Len(figure_list) \in Nat /\ Len(plotID_list) = Len(figure_list) /\ Len(legend_list) \in Nat
         /\ stack \in Seq([at : Places, type : PlotType, ps : Title \cup {None}]) /\ Len(stack) \in Nat
         /\ None \in Ids /\ <<>> \in Seq(Title)
  <1>1. /\ figure_list \in Seq(Figure) /\ plotID_list \in Seq(Ids) /\ legend_list \in Seq(Seq(Title))
        /\ stack \in Seq([at : Places, type : PlotType, ps : Title \cup {None}])
        /\ Len(plotID_list) = Len(figure_list)
    BY DEF TypeOK, Figure
  <1>2. None \in Ids /\ <<>> \in Seq(Title)
    BY EmptySeq DEF Ids
  <1>3. QED
    BY <1>1, <1>2, LenProperties

LEMMA SelectNew ==
  ASSUME TypeOK, ListsInv, RegularInv, NEW list, NEW ids, NewFigure(list, ids),
         \/ list = figure_list /\ ids = plotID_list
         \/ Opened = {} /\ list = <<New>> /\ ids = <<None>>
  PROVE  Selected
  <1> DEFINE l == Len(list)
             k == NewNumber
             g == Len(legend_list)
  <1>1. /\ list \in Seq(Figure) /\ ids \in Seq(Ids) /\ l \in Nat /\ l >= 1 /\ Len(ids) = l
        /\ g \in Nat /\ l <= g /\ legend_list \in Seq(Seq(Title))
        /\ \A i \in 1..l : list[i] < l
        /\ \A n \in Opened : n < l
        /\ regular => \A i \in 1..l : list[i] = i - 1
        /\ Opened # {} => list = figure_list /\ ids = plotID_list
    <2>1. CASE list = figure_list /\ ids = plotID_list
      BY <2>1, ListTypes DEF ListsInv, RegularInv
    <2>2. CASE Opened = {} /\ list = <<New>> /\ ids = <<None>>
      <3>1. New \in Figure /\ New = 0
        BY DEF Figure, New
      <3>2. list \in Seq(Figure) /\ ids \in Seq(Ids) /\ l = 1 /\ Len(ids) = 1 /\ list[1] = 0
        BY <2>2, <3>1, ListTypes
      <3>3. \A i \in 1..1 : i = 1
        OBVIOUS
      <3>4. g \in Nat /\ g >= 1 /\ legend_list \in Seq(Seq(Title))
        BY ListTypes DEF ListsInv
      <3>5. QED
        BY <2>2, <3>2, <3>3, <3>4
    <2>3. QED
      BY <2>1, <2>2
  <1>2. k \in Nat /\ k >= 1 /\ k <= l /\ k \notin Opened
    BY <1>1, NextNumber
  <1>3. /\ OpenWindow(k) /\ gcf' = k
        /\ figure_list' = Append(list, k) /\ plotID_list' = Append(ids, None)
        /\ legend_list' = Append(legend_list, <<>>)
        /\ regular' = (Quiet /\ l = k /\ g = k)
    BY DEF NewFigure
  <1>4. /\ k \in Num /\ Opened' = Opened \cup {k}
        /\ window' \in [Num -> [open : BOOLEAN, serial : Nat]] /\ drawn' \in [Num -> Seq(Title)]
        /\ drawn'[k] = <<>>
        /\ \A m \in Num : m # k => Id(m)' = Id(m) /\ drawn'[m] = drawn[m]
    BY <1>3, WindowOpened
  <1> HIDE DEF k
  <1>5. /\ figure_list' \in Seq(Figure) /\ Len(figure_list') = l + 1
        /\ \A i \in 1..l : figure_list'[i] = list[i]
        /\ figure_list'[l + 1] = k
    BY <1>1, <1>3, <1>4, NumType, AppendProperties
  <1>6. /\ plotID_list' \in Seq(Ids) /\ Len(plotID_list') = l + 1
        /\ \A i \in 1..l : plotID_list'[i] = ids[i]
        /\ plotID_list'[l + 1] = None
    BY <1>1, <1>3, ListTypes, AppendProperties
  <1>7. /\ legend_list' \in Seq(Seq(Title)) /\ Len(legend_list') = g + 1
        /\ \A i \in 1..g : legend_list'[i] = legend_list[i]
        /\ legend_list'[g + 1] = <<>>
    BY <1>1, <1>3, ListTypes, AppendProperties
  <1> HIDE DEF l, g
  <1>8. l + 1 <= g + 1 /\ l + 1 >= 2 /\ k < l + 1
    BY <1>1, <1>2
  <1>9. \A i \in 1..(l + 1) : figure_list'[i] < l + 1
    <2>1. ASSUME NEW i \in 1..(l + 1) PROVE figure_list'[i] < l + 1
      <3>1. CASE i = l + 1
        BY <1>5, <1>8, <3>1
      <3>2. CASE i # l + 1
        <4>1. i \in 1..l
          BY <1>1, <3>2
        <4>2. figure_list'[i] = list[i] /\ list[i] < l /\ list[i] \in Figure
          BY <1>1, <1>5, <4>1, ElementOfSeq DEF l
        <4>3. QED
          BY <1>1, <4>2, FigureType
      <3>3. QED
        BY <3>1, <3>2
    <2>2. QED
      BY <2>1
  <1>10. \A n \in Opened' : n < l + 1
    BY <1>1, <1>4, <1>8, OpenedType
  <1>11. \A n \in Opened : n # k => Id(n)' = Id(n)
    BY <1>4, OpenedType
  <1>12. regular' => Quiet /\ l = k /\ g = k
    BY <1>3
  <1>13. ASSUME regular' PROVE \A i \in 1..(l + 1) : figure_list'[i] = i - 1
    <2>1. regular
      BY <1>12, <1>13 DEF Quiet
    <2>2. \A i \in 1..(l + 1) : i \in 1..l \/ (i = l + 1 /\ i - 1 = l)
      BY <1>1
    <2>3. QED
      BY <1>1, <1>5, <1>12, <1>13, <2>1, <2>2
  <1>14. ASSUME regular', NEW n \in Opened'
         PROVE  \/ /\ n \in Opened /\ Id(n)' = Id(n) /\ drawn'[n] = drawn[n]
                   /\ plotID_list'[n + 1] = plotID_list[n + 1] /\ legend_list'[n + 1] = legend_list[n + 1]
                \/ n = k /\ drawn'[n] = <<>> /\ plotID_list'[n + 1] = None /\ legend_list'[n + 1] = <<>>
    <2>1. CASE n \in Opened
      <3>1. n \in Num /\ n # k /\ n \in Nat /\ n < l /\ n + 1 \in 1..l /\ n + 1 \in 1..g
        BY <1>1, <1>2, <2>1, OpenedType
      <3>2. QED
        BY <1>1, <1>4, <1>6, <1>7, <2>1, <3>1
    <2>2. CASE n \notin Opened
      <3>1. n = k
        BY <1>4, <2>2
      <3>2. QED
        BY <1>4, <1>6, <1>7, <1>12, <1>14, <3>1
    <2>3. QED
      BY <2>1, <2>2
  <1>15. regular' => regular /\ ~Within("pause")
    BY <1>12 DEF Quiet
  <1>16. QED
    BY <1>3, <1>4, <1>5, <1>6, <1>7, <1>8, <1>9, <1>10, <1>11, <1>13, <1>14, <1>15 DEF Selected

LEMMA SelectMade ==
  ASSUME TypeOK, ListsInv, RegularInv, NEW n \in Num, n < Len(figure_list), Len(figure_list) >= 2,
         OldFigure(n) \/ ClosedFigure(n), regular' = Quiet
  PROVE  Selected
  <1> DEFINE l == Len(figure_list)
             g == Len(legend_list)
  <1>1. l \in Nat /\ l <= g /\ g \in Nat /\ n \in Nat /\ n + 1 \in 1..l /\ n + 1 \in 1..g
    BY ListTypes, NumType DEF ListsInv
  <1>2. /\ \A i \in 1..l : figure_list[i] < l
        /\ \A m \in Opened : m < l
        /\ regular' => regular /\ ~Within("pause")
        /\ regular => \A i \in 1..l : figure_list[i] = i - 1
    BY DEF ListsInv, RegularInv, Quiet
  <1>3. CASE OldFigure(n)
    <2>1. n \in Opened /\ gcf' = n /\ UNCHANGED <<window, drawn, figure_list, plotID_list, legend_list>>
      BY <1>3 DEF OldFigure
    <2>2. Opened' = Opened /\ \A m : Id(m)' = Id(m)
      BY <2>1 DEF Opened, Id
    <2>3. QED
      BY <1>1, <1>2, <2>1, <2>2, ListTypes DEF Selected, TypeOK
  <1>4. CASE ClosedFigure(n)
    <2>1. /\ n \notin Opened /\ OpenWindow(n) /\ gcf' = n /\ figure_list' = figure_list
          /\ plotID_list' = [plotID_list EXCEPT ![n + 1] = None]
          /\ legend_list' = [legend_list EXCEPT ![n + 1] = <<>>]
      BY <1>4 DEF ClosedFigure, Put
    <2>2. /\ Opened' = Opened \cup {n}
          /\ window' \in [Num -> [open : BOOLEAN, serial : Nat]] /\ drawn' \in [Num -> Seq(Title)]
          /\ drawn'[n] = <<>>
          /\ \A m \in Num : m # n => Id(m)' = Id(m) /\ drawn'[m] = drawn[m]
      BY <2>1, WindowOpened
    <2>3. /\ plotID_list' \in Seq(Ids) /\ Len(plotID_list') = l
          /\ \A j \in 1..l : plotID_list'[j] = IF j = n + 1 THEN None ELSE plotID_list[j]
      BY <1>1, <2>1, ListTypes, ExceptSeq
    <2>4. /\ legend_list' \in Seq(Seq(Title)) /\ Len(legend_list') = g
          /\ \A j \in 1..g : legend_list'[j] = IF j = n + 1 THEN <<>> ELSE legend_list[j]
      BY <1>1, <2>1, ListTypes, ExceptSeq
    <2> HIDE DEF l, g
    <2>5. \A m \in Opened' : m < l
      BY <1>2, <2>2 DEF l
    <2>6. ASSUME NEW m \in Opened'
          PROVE  \/ /\ m \in Opened /\ Id(m)' = Id(m) /\ drawn'[m] = drawn[m]
                    /\ plotID_list'[m + 1] = plotID_list[m + 1] /\ legend_list'[m + 1] = legend_list[m + 1]
                 \/ m = n /\ drawn'[m] = <<>> /\ plotID_list'[m + 1] = None /\ legend_list'[m + 1] = <<>>
      <3>1. CASE m = n
        BY <1>1, <2>2, <2>3, <2>4, <3>1
      <3>2. CASE m # n
        <4>1. m \in Opened /\ m \in Num /\ m \in Nat /\ m < l
          BY <1>2, <2>2, <3>2, OpenedType
        <4>2. m + 1 \in 1..l /\ m + 1 \in 1..g /\ m + 1 # n + 1
          BY <1>1, <3>2, <4>1
        <4>3. QED
          BY <2>2, <2>3, <2>4, <3>2, <4>1, <4>2
      <3>3. QED
        BY <3>1, <3>2
    <2>7. \A m \in Opened : m # n => Id(m)' = Id(m)
      BY <2>2, OpenedType
    <2>8. Len(figure_list) = l /\ figure_list \in Seq(Figure)
      BY ListTypes DEF l
    <2>9. QED
      BY <1>1, <1>2, <2>1, <2>2, <2>3, <2>4, <2>5, <2>6, <2>7, <2>8 DEF Selected, l
  <1>5. QED
    BY <1>3, <1>4

(* Every selection, from the menu or for a plot.                           *)
LEMMA SelectDone ==
  ASSUME TypeOK, ListsInv, CurrentInv, RegularInv,
         SelectForPlot \/ \E i \in DOMAIN figure_list : Select(figure_list[i])
  PROVE  Selected /\ var_figure' = figure_list'[gcf' + 1] /\ act_plotID' = plotID_list'[gcf' + 1]
  <1>1. var_figure' = figure_list'[gcf' + 1] /\ act_plotID' = plotID_list'[gcf' + 1]
    BY DEF SelectForPlot, Select
  <1>2. ASSUME NEW choice \in Figure, choice < Len(figure_list), Select(choice), choice # New => Len(figure_list) >= 2
        PROVE  Selected
    <2>1. CASE choice = New
      <3>1. NewFigure(figure_list, plotID_list)
        BY <1>2, <2>1 DEF Select
      <3>2. QED
        BY <3>1, SelectNew
    <2>2. CASE choice # New
      <3>1. choice \in Num /\ (OldFigure(choice) \/ ClosedFigure(choice)) /\ regular' = Quiet
        BY <1>2, <2>2 DEF Select, Figure
      <3>2. QED
        BY <1>2, <2>2, <3>1, SelectMade
    <2>3. QED
      BY <2>1, <2>2
  <1>3. CASE \E i \in DOMAIN figure_list : Select(figure_list[i])
    <2>1. PICK i \in 1..Len(figure_list) : Select(figure_list[i])
      BY <1>3, ListTypes, LenProperties
    <2>2. figure_list[i] \in Figure /\ figure_list[i] < Len(figure_list)
      BY ListTypes, ElementOfSeq DEF ListsInv
    <2>3. figure_list[i] # New => Len(figure_list) >= 2
      BY <2>2, ListTypes, NumType DEF Figure
    <2>4. QED
      BY <1>1, <1>2, <2>1, <2>2, <2>3
  <1>4. CASE SelectForPlot /\ Opened = {}
    <2>1. NewFigure(<<New>>, <<None>>)
      BY <1>4 DEF SelectForPlot
    <2>2. QED
      BY <1>1, <1>4, <2>1, SelectNew
  <1>5. CASE SelectForPlot /\ Opened # {}
    <2>1. Select(var_figure)
      BY <1>5 DEF SelectForPlot
    <2>2. var_figure \in Figure /\ var_figure < Len(figure_list)
      BY DEF TypeOK, Figure, ListsInv
    <2>3. var_figure # New => Len(figure_list) >= 2
      BY <2>2, ListTypes, NumType DEF Figure
    <2>4. QED
      BY <1>1, <1>2, <2>1, <2>2, <2>3
  <1>6. QED
    BY <1>3, <1>4, <1>5

-----------------------------------------------------------------------------
(* The invariants are kept.                                                *)

(* The parts about figures and plots after a selection.                    *)
LEMMA FiguresSelected ==
  ASSUME TypeOK, ListsInv, CurrentInv, RegularInv, Selected,
         var_figure' = figure_list'[gcf' + 1], act_plotID' = plotID_list'[gcf' + 1]
  PROVE  /\ CurrentInv'
         /\ gcf' \in Opened' \cup {New} /\ var_figure' \in {New} \cup Num /\ act_plotID' \in Ids
         /\ var_figure' < Len(figure_list')
         /\ figure_list' \in Seq({New} \cup Num) /\ plotID_list' \in Seq(Ids)
         /\ act_plotID' = plotID_list'[gcf' + 1]
         /\ regular' => \A n \in Opened' :
              /\ legend_list'[n + 1] = drawn'[n] /\ plotID_list'[n + 1] \in {None, Id(n)'}
              /\ drawn'[n] # <<>> => plotID_list'[n + 1] = Id(n)'
  <1> DEFINE l == Len(figure_list')
  <1>1. /\ gcf' \in Num /\ Opened' = Opened \cup {gcf'} /\ gcf' < l
        /\ figure_list' \in Seq(Figure) /\ plotID_list' \in Seq(Ids) /\ Len(plotID_list') = l
        /\ \A i \in 1..l : figure_list'[i] < l
    BY DEF Selected
  <1>2. l \in Nat
    BY <1>1, LenProperties
  <1>3. gcf' + 1 \in 1..l
    <2>1. \A g \in Num : g < l => g + 1 \in 1..l
      BY <1>2, NumType
    <2>2. QED
      BY <1>1, <2>1
  <1>4. var_figure' \in Figure /\ var_figure' < l /\ act_plotID' \in Ids
    BY <1>1, <1>3, ElementOfSeq
  <1>5. CurrentInv'
    BY <1>1, NumType DEF CurrentInv, New
  <1>6. ASSUME regular', NEW n \in Opened'
        PROVE  /\ legend_list'[n + 1] = drawn'[n] /\ plotID_list'[n + 1] \in {None, Id(n)'}
               /\ drawn'[n] # <<>> => plotID_list'[n + 1] = Id(n)'
    <2>1. regular /\ ~Within("pause")
      BY <1>6 DEF Selected
    <2>2. ~(stack # <<>> /\ Top.at = "pause")
      <3>1. stack # <<>> => Len(stack) \in DOMAIN stack
        BY ListTypes, EmptySeq, LenProperties
      <3>2. QED
        BY <2>1, <3>1 DEF Within, Top
    <2>3. CASE n \in Opened /\ Id(n)' = Id(n) /\ drawn'[n] = drawn[n]
               /\ plotID_list'[n + 1] = plotID_list[n + 1] /\ legend_list'[n + 1] = legend_list[n + 1]
      BY <2>1, <2>2, <2>3 DEF RegularInv
    <2>4. CASE drawn'[n] = <<>> /\ plotID_list'[n + 1] = None /\ legend_list'[n + 1] = <<>>
      BY <2>4
    <2>5. QED
      BY <1>6, <2>3, <2>4 DEF Selected
  <1>7. QED
    BY <1>1, <1>4, <1>5, <1>6 DEF Figure

PInv == TypeOK /\ PlotInv

Entry == [at : Places, type : PlotType, ps : Title \cup {None}]

LEMMA StackTypes ==
  ASSUME TypeOK
  PROVE  /\ stack \in Seq(Entry) /\ Len(stack) \in Nat
         /\ stack # <<>> => Len(stack) >= 1 /\ Len(stack) \in 1..Len(stack) /\ Top \in Entry
         /\ \A i \in 1..Len(stack) : stack[i] \in Entry
  <1>1. stack \in Seq(Entry) /\ Len(stack) \in Nat
    BY ListTypes DEF Entry
  <1>2. stack # <<>> => Len(stack) >= 1
    BY <1>1, EmptySeq
  <1>3. \A i \in 1..Len(stack) : stack[i] \in Entry
    BY <1>1, ElementOfSeq
  <1>4. QED
    BY <1>1, <1>2, <1>3 DEF Top

(* A plot ends.                                                            *)
LEMMA StackLeave ==
  ASSUME TypeOK, stack # <<>>, Leave
  PROVE  /\ stack' \in Seq(Entry) /\ Len(stack') = Len(stack) - 1
         /\ \A i \in 1..(Len(stack) - 1) : stack'[i] = stack[i]
         /\ stack' # <<>> => Len(stack) - 1 \in 1..(Len(stack) - 1) /\ Top' = stack[Len(stack) - 1]
  <1> DEFINE n == Len(stack) - 1
  <1>1. n \in Nat /\ n <= Len(stack) /\ Len(stack) \in Nat /\ \A i \in 1..Len(stack) : stack[i] \in Entry
    BY StackTypes
  <1> HIDE DEF n
  <1>2. /\ SubSeq(stack, 1, n) \in Seq(Entry)
        /\ Len(SubSeq(stack, 1, n)) = IF 1 <= n THEN n - 1 + 1 ELSE 0
        /\ \A i \in 1..(n - 1 + 1) : SubSeq(stack, 1, n)[i] = stack[1 + i - 1]
    <2>1. \A i \in 1..n : stack[i] \in Entry
      BY <1>1
    <2>2. QED
      BY <1>1, <2>1, SubSeqProperties
  <1>3. n - 1 + 1 = n /\ (IF 1 <= n THEN n - 1 + 1 ELSE 0) = n /\ \A i \in 1..n : 1 + i - 1 = i
    BY <1>1
  <1>4. stack' = SubSeq(stack, 1, n)
    BY DEF Leave, Under, n
  <1>5. stack' \in Seq(Entry) /\ Len(stack') = n /\ \A i \in 1..n : stack'[i] = stack[i]
    BY <1>2, <1>3, <1>4
  <1>6. ASSUME stack' # <<>> PROVE n \in 1..n /\ Top' = stack[n]
    <2>1. n # 0
      BY <1>5, <1>6, EmptySeq
    <2>2. n \in 1..n
      BY <1>1, <2>1
    <2>3. Top' = stack'[n]
      BY <1>5 DEF Top
    <2>4. QED
      BY <1>5, <2>2, <2>3
  <1>7. QED
    BY <1>5, <1>6 DEF n

(* The innermost plot goes on.                                             *)
LEMMA StackReplace ==
  ASSUME TypeOK, stack # <<>>, NEW e \in Entry, stack' = [stack EXCEPT ![Len(stack)] = e]
  PROVE  /\ stack' \in Seq(Entry) /\ Len(stack') = Len(stack) /\ stack' # <<>>
         /\ \A i \in 1..Len(stack) : stack'[i] = IF i = Len(stack) THEN e ELSE stack[i]
         /\ Top' = e
  <1>1. Len(stack) \in 1..Len(stack) /\ stack \in Seq(Entry) /\ Len(stack) \in Nat /\ Len(stack) >= 1
    BY StackTypes
  <1>2. /\ stack' \in Seq(Entry) /\ Len(stack') = Len(stack)
        /\ \A i \in 1..Len(stack) : stack'[i] = IF i = Len(stack) THEN e ELSE stack[i]
    BY <1>1, ExceptSeq
  <1>3. Top' = stack'[Len(stack)]
    BY <1>2 DEF Top
  <1>4. stack' # <<>>
    <2>1. Len(stack') # 0
      BY <1>1, <1>2
    <2>2. QED
      BY <2>1, EmptySeq
  <1>5. QED
    BY <1>1, <1>2, <1>3, <1>4

(* Only a plot in progress moves on or ends.                               *)
LEMMA PlotsOn ==
  ASSUME PInv, stack # <<>>, UNCHANGED <<program, figures, plotID, data, camera, options, regular, events>>,
         Top.at # "pause",
         \/ Leave
         \/ \E e \in Entry : /\ stack' = [stack EXCEPT ![Len(stack)] = e]
                             /\ e.at \in {"update2", "draw"} /\ e.ps # None /\ (regular => e.ps = data)
  PROVE  PInv'
  <1> DEFINE n == Len(stack)
  <1>1. n \in Nat /\ n >= 1 /\ n \in 1..n /\ \A i \in 1..n : stack[i] \in Entry
    BY StackTypes DEF PInv
  <1>2. /\ CurrentInv' /\ OptionsInv' /\ VersionInv'
        /\ Opened' = Opened /\ \A m : Id(m)' = Id(m)
    BY DEF PInv, PlotInv, CurrentInv, OptionsInv, VersionInv, Opened, Id, figures, options, camera
  <1>3. ListsInv' /\ data # None
    BY <1>2 DEF PInv, PlotInv, ListsInv, StackInv, figures
  <1>4. CASE Leave
    <2>1. /\ stack' \in Seq(Entry) /\ Len(stack') = n - 1
          /\ \A i \in 1..(n - 1) : stack'[i] = stack[i]
          /\ stack' # <<>> => n - 1 \in 1..(n - 1) /\ Top' = stack[n - 1]
      BY <1>4, StackLeave DEF PInv
    <2> HIDE DEF n
    <2>2. \A i \in 1..(n - 1) : i \in 1..n
      BY <1>1
    <2>3. \A i \in 1..((n - 1) - 1) : i \in 1..(n - 1)
      BY <1>1
    <2>4. StackInv'
      BY <2>1, <2>2, <2>3 DEF PInv, PlotInv, StackInv, n
    <2>5. ASSUME regular
          PROVE  /\ \A m \in Opened : drawn[m] # <<>> => plotID_list[m + 1] = Id(m)
                 /\ stack' # <<>> => Top'.at # "pause"
                 /\ \A i \in 1..((n - 1) - 1) : stack'[i].at # "pause"
                 /\ \A i \in 1..(n - 1) : stack'[i].at \in {"update2", "draw"} => stack'[i].ps = data
      BY <2>1, <2>2, <2>3, <2>5 DEF PInv, PlotInv, RegularInv, n
    <2>6. RegularInv'
      BY <1>2, <2>1, <2>5 DEF PInv, PlotInv, RegularInv, figures
    <2>7. TypeOK'
      BY <1>2, <2>1 DEF PInv, TypeOK, figures, camera, options, Entry, Ids
    <2>8. QED
      BY <1>2, <1>3, <2>4, <2>6, <2>7 DEF PInv, PlotInv
  <1>5. CASE ~Leave
    <2>1. PICK e \in Entry : /\ stack' = [stack EXCEPT ![n] = e]
                             /\ e.at \in {"update2", "draw"} /\ e.ps # None /\ (regular => e.ps = data)
      BY <1>5
    <2>2. /\ stack' \in Seq(Entry) /\ Len(stack') = n /\ stack' # <<>>
          /\ \A i \in 1..n : stack'[i] = IF i = n THEN e ELSE stack[i]
          /\ Top' = e
      BY <2>1, StackReplace DEF PInv
    <2> HIDE DEF n
    <2>3. \A i \in 1..(n - 1) : i \in 1..n /\ i # n
      BY <1>1
    <2>4. StackInv'
      <3>1. \A i \in 1..(n - 1) : stack'[i].at \in {"update1", "update2", "pause"}
        BY <2>2, <2>3 DEF PInv, PlotInv, StackInv, n
      <3>2. ASSUME NEW i \in 1..n, stack'[i].at \in {"update2", "draw"} PROVE stack'[i].ps # None
        <4>1. CASE i = n
          BY <2>1, <2>2, <4>1
        <4>2. CASE i # n
          <5>1. stack'[i] = stack[i]
            BY <2>2, <4>2
          <5>2. QED
            BY <3>2, <5>1 DEF PInv, PlotInv, StackInv, n
        <4>3. QED
          BY <4>1, <4>2
      <3>3. data' # None /\ Len(stack') = n
        BY <1>3, <2>2
      <3>4. QED
        BY <3>1, <3>2, <3>3 DEF StackInv
    <2>5. ASSUME regular
          PROVE  /\ \A m \in Opened : drawn[m] # <<>> => plotID_list[m + 1] = Id(m)
                 /\ Top'.at # "pause"
                 /\ \A i \in 1..(n - 1) : stack'[i].at # "pause"
                 /\ \A i \in 1..n : stack'[i].at \in {"update2", "draw"} => stack'[i].ps = data
      <3>1. \A m \in Opened : drawn[m] # <<>> => plotID_list[m + 1] = Id(m)
        BY <2>5 DEF PInv, PlotInv, RegularInv
      <3>2. Top'.at # "pause"
        BY <2>1, <2>2
      <3>3. \A i \in 1..(n - 1) : stack'[i].at # "pause"
        BY <2>2, <2>3, <2>5 DEF PInv, PlotInv, RegularInv, n
      <3>4. ASSUME NEW i \in 1..n, stack'[i].at \in {"update2", "draw"} PROVE stack'[i].ps = data
        <4>1. CASE i = n
          BY <2>1, <2>2, <2>5, <4>1
        <4>2. CASE i # n
          <5>1. stack'[i] = stack[i]
            BY <2>2, <4>2
          <5>2. QED
            BY <2>5, <3>4, <5>1 DEF PInv, PlotInv, RegularInv, n
        <4>3. QED
          BY <4>1, <4>2
      <3>5. QED
        BY <3>1, <3>2, <3>3, <3>4
    <2>6. RegularInv'
      BY <1>2, <2>2, <2>5 DEF PInv, PlotInv, RegularInv, figures
    <2>7. TypeOK'
      BY <1>2, <2>2 DEF PInv, TypeOK, figures, camera, options, Entry, Ids
    <2>8. QED
      BY <1>2, <1>3, <2>4, <2>6, <2>7 DEF PInv, PlotInv
  <1>6. QED
    BY <1>4, <1>5

LEMMA PlotProgress ==
  ASSUME PInv, RawDraw \/ SpectrFails \/ Apsd \/ UpdateReturns \/ DrawFails
  PROVE  PInv'
  <1>1. /\ stack # <<>> /\ Top.at # "pause"
        /\ UNCHANGED <<program, figures, plotID, data, camera, options, regular, events>>
    BY DEF RawDraw, SpectrFails, Apsd, UpdateReturns, DrawFails, During
  <1>2. Top \in Entry /\ Len(stack) \in 1..Len(stack)
    BY <1>1, StackTypes DEF PInv
  <1>3. data \in Title /\ data # None
    BY <1>1 DEF PInv, PlotInv, StackInv, TypeOK
  <1>4. ASSUME NEW p \in {"update2", "draw"},
               stack' = [stack EXCEPT ![Len(stack)] = [at |-> p, type |-> @.type, ps |-> data]]
        PROVE  PInv'
    <2> DEFINE e == [at |-> p, type |-> Top.type, ps |-> data]
    <2>1. p \in Places /\ Top.type \in PlotType
      BY <1>2 DEF Entry, Places
    <2>2. e \in Entry /\ e.at = p /\ e.ps = data
      BY <1>3, <2>1 DEF Entry
    <2>3. stack' = [stack EXCEPT ![Len(stack)] = e]
      BY <1>4 DEF Top
    <2> HIDE DEF e
    <2>4. QED
      BY <1>1, <1>3, <2>2, <2>3, PlotsOn
  <1>5. ASSUME Top.at = "update2", GoTo("draw")
        PROVE  PInv'
    <2> DEFINE e == [Top EXCEPT !.at = "draw"]
    <2>1. e = [at |-> "draw", type |-> Top.type, ps |-> Top.ps] /\ e \in Entry
      BY <1>2 DEF Entry, Places
    <2>2. stack' = [stack EXCEPT ![Len(stack)] = e]
      BY <1>5 DEF Top, GoTo
    <2>3. Top.ps # None /\ (regular => Top.ps = data)
      BY <1>1, <1>2, <1>5 DEF PInv, PlotInv, StackInv, RegularInv, Top
    <2>4. e.at = "draw" /\ e.ps = Top.ps
      BY <2>1
    <2> HIDE DEF e
    <2>5. QED
      BY <1>1, <2>1, <2>2, <2>3, <2>4, PlotsOn
  <1>6. Leave => PInv'
    BY <1>1, PlotsOn
  <1>7. CASE RawDraw
    BY <1>4, <1>6, <1>7 DEF RawDraw
  <1>8. CASE Apsd
    BY <1>4, <1>8 DEF Apsd
  <1>9. CASE UpdateReturns
    BY <1>5, <1>6, <1>9 DEF UpdateReturns, During
  <1>10. CASE SpectrFails \/ DrawFails
    BY <1>6, <1>10 DEF SpectrFails, DrawFails
  <1>11. QED
    BY <1>7, <1>8, <1>9, <1>10

(* What is done to the data and the options.                               *)
LEMMA DataKept ==
  ASSUME PInv, NEW t \in Title, getdata(t)
  PROVE  PInv'
  <1>1. /\ data' = t /\ t # None /\ UNCHANGED <<program, figures, plotID, camera, options, stack>>
        /\ regular' => regular /\ ~Within("update2")
        /\ events' = events + 1 /\ events < MaxEvents
        /\ stack # <<>> => Top.at \in {"update1", "update2", "pause"}
    BY PlotAssumption DEF getdata, Event
  <1>2. /\ CurrentInv' /\ OptionsInv' /\ VersionInv' /\ ListsInv' /\ StackInv'
        /\ Opened' = Opened /\ \A m : Id(m)' = Id(m)
    BY <1>1 DEF PInv, PlotInv, CurrentInv, OptionsInv, VersionInv, ListsInv, StackInv, Opened, Id,
                figures, options, camera
  <1>3. events' \in 0..MaxEvents
    BY <1>1, PlotAssumption DEF PInv, TypeOK
  <1>4. TypeOK'
    BY <1>1, <1>2, <1>3 DEF PInv, TypeOK, getdata, figures, camera, options, Ids
  <1>5. ASSUME regular', NEW i \in 1..Len(stack) PROVE stack[i].at \notin {"update2", "draw"}
    <2>1. stack \in Seq(Entry) /\ Len(stack) \in Nat
      BY StackTypes DEF PInv
    <2>2. stack[i].at # "update2"
      BY <1>1, <1>5, <2>1 DEF Within
    <2>3. CASE i = Len(stack)
      BY <1>1, <2>1, <2>2, <2>3, EmptySeq DEF Top
    <2>4. CASE i # Len(stack)
      <3>1. i \in 1..(Len(stack) - 1)
        BY <2>1, <2>4
      <3>2. QED
        BY <2>2, <3>1 DEF PInv, PlotInv, StackInv
    <2>5. QED
      BY <2>3, <2>4
  <1>6. RegularInv'
    BY <1>1, <1>2, <1>5 DEF PInv, PlotInv, RegularInv, figures, Top
  <1>7. QED
    BY <1>2, <1>4, <1>6 DEF PInv, PlotInv

LEMMA VersionKept ==
  ASSUME PInv, NEW t \in Type, camera_type_select(t) \/ \E i \in DOMAIN Versions[t] : camera_version_select(i)
  PROVE  PInv'
  <1>1. /\ UNCHANGED <<program, figures, plotID, data, options, stack, regular>>
        /\ events' = events + 1 /\ events < MaxEvents
    BY DEF camera_type_select, camera_version_select, Event
  <1>2. camera_type' \in Type /\ camera_version' \in Nat \cup {None} /\ VersionInv'
    <2>1. CASE camera_type_select(t)
      <3>1. Versions[t] \in Seq(Nat)
        BY PlotAssumption
      <3>2. CASE Versions[t] = <<>>
        BY <2>1, <3>2 DEF camera_type_select, VersionInv
      <3>3. CASE Versions[t] # <<>>
        <4>1. Len(Versions[t]) \in Nat /\ Len(Versions[t]) # 0
          BY <3>1, <3>3, EmptySeq, LenProperties
        <4>2. 1 \in 1..Len(Versions[t])
          BY <4>1
        <4>3. Versions[t][1] \in Nat /\ 1 \in DOMAIN Versions[t]
          BY <3>1, <4>2, ElementOfSeq, LenProperties
        <4>4. Versions[t][1] \in Range(Versions[t])
          BY <4>3 DEF Range
        <4>5. camera_type' = t /\ camera_version' = Versions[t][1]
          BY <2>1, <3>3 DEF camera_type_select
        <4>6. QED
          BY <4>3, <4>4, <4>5 DEF VersionInv
      <3>4. QED
        BY <3>2, <3>3
    <2>2. CASE \E i \in DOMAIN Versions[t] : camera_version_select(i)
      <3>1. PICK i : camera_version_select(i)
        BY <2>2
      <3>2. /\ camera_type # None /\ i \in DOMAIN Versions[camera_type]
            /\ camera_version' = Versions[camera_type][i] /\ camera_type' = camera_type
        BY <3>1 DEF camera_version_select
      <3>3. camera_type \in Type /\ Versions[camera_type] \in Seq(Nat)
        BY <3>2, PlotAssumption DEF PInv, TypeOK
      <3>4. Versions[camera_type][i] \in Nat /\ Versions[camera_type][i] \in Range(Versions[camera_type])
        BY <3>2, <3>3, ElementOfSeq, LenProperties DEF Range
      <3>5. QED
        BY <3>2, <3>3, <3>4 DEF VersionInv
    <2>3. QED
      BY <2>1, <2>2
  <1>3. /\ CurrentInv' /\ OptionsInv' /\ ListsInv' /\ StackInv'
        /\ Opened' = Opened /\ \A m : Id(m)' = Id(m)
    BY <1>1 DEF PInv, PlotInv, CurrentInv, OptionsInv, ListsInv, StackInv, Opened, Id, figures, options
  <1>4. events' \in 0..MaxEvents
    BY <1>1, PlotAssumption DEF PInv, TypeOK
  <1>5. RegularInv'
    BY <1>1, <1>3 DEF PInv, PlotInv, RegularInv, figures, Top
  <1>6. TypeOK'
    BY <1>1, <1>2, <1>3, <1>4 DEF PInv, TypeOK, figures, options, Ids
  <1>7. QED
    BY <1>2, <1>3, <1>5, <1>6 DEF PInv, PlotInv

LEMMA OptionsKept ==
  ASSUME PInv, NEW o \in Option, toggle(o)
  PROVE  PInv'
  <1>1. /\ UNCHANGED <<program, figures, plotID, data, camera, stack, regular>>
        /\ events' = events + 1 /\ events < MaxEvents
        /\ option' = Flip(option, o) /\ shown' = (shown \ {o}) \cup (option' \cap {o})
        /\ disabled' = (disabled \ {o}) \cup (option' \cap Autoscale \cap {o})
    BY DEF toggle, Event
  <1>2. option \subseteq Option /\ shown = option /\ disabled = option \cap Autoscale
    BY DEF PInv, PlotInv, OptionsInv, TypeOK
  <1>3. \A p : p # o => (p \in option' <=> p \in option)
    BY <1>1 DEF Flip
  <1>4. option' \subseteq Option
    BY <1>1, <1>2 DEF Flip
  <1>5. \A p : p \in shown' <=> p \in option'
    BY <1>1, <1>2, <1>3
  <1>6. \A p : p \in disabled' <=> p \in option' \cap Autoscale
    BY <1>1, <1>2, <1>3
  <1>7. OptionsInv' /\ shown' \subseteq Option /\ disabled' \subseteq Autoscale
    BY <1>4, <1>5, <1>6 DEF OptionsInv
  <1>8. /\ CurrentInv' /\ VersionInv' /\ ListsInv' /\ StackInv'
        /\ Opened' = Opened /\ \A m : Id(m)' = Id(m)
    BY <1>1 DEF PInv, PlotInv, CurrentInv, VersionInv, ListsInv, StackInv, Opened, Id, figures, camera
  <1>9. events' \in 0..MaxEvents
    BY <1>1, PlotAssumption DEF PInv, TypeOK
  <1>10. RegularInv'
    BY <1>1, <1>8 DEF PInv, PlotInv, RegularInv, figures, Top
  <1>11. TypeOK'
    BY <1>1, <1>4, <1>7, <1>8, <1>9 DEF PInv, TypeOK, figures, camera, Ids
  <1>12. QED
    BY <1>7, <1>8, <1>10, <1>11 DEF PInv, PlotInv

(* The user's windows.                                                     *)
LEMMA WindowsKept ==
  ASSUME PInv, NEW n \in Num, Close(n) \/ Activate(n)
  PROVE  PInv'
  <1>1. /\ n \in Opened
        /\ UNCHANGED <<program, figure_list, plotID_list, legend_list, var_figure, act_plotID, drawn, plotID,
                       data, camera, options, stack>>
        /\ events' = events + 1 /\ events < MaxEvents
        /\ regular' = (regular /\ stack = <<>>)
    BY DEF Close, Activate, Event
  <1>2. /\ gcf' \in Opened' \cup {New} /\ Opened' \subseteq Opened /\ CurrentInv'
        /\ window' \in [Num -> [open : BOOLEAN, serial : Nat]] /\ \A m \in Num : Id(m)' = Id(m)
    <2>1. window \in [Num -> [open : BOOLEAN, serial : Nat]] /\ gcf \in Opened \cup {New}
      BY DEF PInv, TypeOK
    <2>2. Opened # {} /\ gcf # New /\ gcf \in Opened
      BY <1>1, <2>1 DEF PInv, PlotInv, CurrentInv
    <2>3. New \notin Opened
      BY NumType DEF Opened
    <2>4. CASE Activate(n)
      BY <1>1, <2>1, <2>3, <2>4 DEF Activate, CurrentInv, Opened, Id
    <2>5. CASE Close(n)
      <3>1. window' = [window EXCEPT ![n].open = FALSE]
        BY <2>5 DEF Close
      <3>2. window' \in [Num -> [open : BOOLEAN, serial : Nat]]
        BY <2>1, <3>1
      <3>3. \A m \in Num : window'[m].serial = window[m].serial /\ (window'[m].open <=> window[m].open /\ m # n)
        BY <2>1, <3>1
      <3>4. Opened' = Opened \ {n}
        BY <3>3 DEF Opened
      <3>5. gcf' \in IF gcf # n THEN {gcf} ELSE IF Opened' = {} THEN {New} ELSE Opened'
        BY <2>5, <3>4 DEF Close
      <3>6. QED
        BY <2>2, <2>3, <3>2, <3>3, <3>4, <3>5 DEF CurrentInv, Id
    <2>6. QED
      BY <2>4, <2>5
  <1>3. OptionsInv' /\ VersionInv' /\ ListsInv' /\ StackInv'
    BY <1>1, <1>2 DEF PInv, PlotInv, OptionsInv, VersionInv, ListsInv, StackInv, camera, options
  <1>4. events' \in 0..MaxEvents
    BY <1>1, PlotAssumption DEF PInv, TypeOK
  <1>5. TypeOK'
    BY <1>1, <1>2, <1>4 DEF PInv, TypeOK, camera, options, Ids
  <1>6. RegularInv'
    <2>1. SUFFICES ASSUME regular' PROVE RegularInv'
      BY DEF RegularInv
    <2>2. regular /\ stack = <<>> /\ Len(stack) = 0
      BY <1>1, <2>1, EmptySeq
    <2>3. \A m \in Opened' : m \in Num /\ m \in Opened
      BY <1>2, OpenedType DEF PInv
    <2>4. \A i \in 1..0 : FALSE
      OBVIOUS
    <2>5. \A m \in Opened : /\ legend_list[m + 1] = drawn[m] /\ plotID_list[m + 1] \in {None, Id(m)}
                            /\ drawn[m] # <<>> => plotID_list[m + 1] = Id(m)
      BY <2>2 DEF PInv, PlotInv, RegularInv
    <2>6. \A i \in 1..Len(figure_list) : figure_list[i] = i - 1
      BY <2>2 DEF PInv, PlotInv, RegularInv
    <2>7. stack' = <<>> /\ Len(stack') = 0 /\ \A i \in 1..(0 - 1) : FALSE
      BY <1>1, <2>2
    <2>8. \A m \in Opened' : /\ legend_list'[m + 1] = drawn'[m] /\ plotID_list'[m + 1] \in {None, Id(m)'}
                             /\ drawn'[m] # <<>> => plotID_list'[m + 1] = Id(m)'
      BY <1>1, <1>2, <2>3, <2>5
    <2>9. QED
      BY <1>1, <2>4, <2>6, <2>7, <2>8 DEF RegularInv
  <1>7. QED
    BY <1>2, <1>3, <1>5, <1>6 DEF PInv, PlotInv

LEMMA MakeCurrentKept ==
  ASSUME PInv, MakeCurrent
  PROVE  PInv'
  <1>1. /\ stack # <<>> /\ gcf = New /\ OpenWindow(1) /\ gcf' = 1
        /\ UNCHANGED <<program, figure_list, plotID_list, legend_list, var_figure, act_plotID, plotID,
                       data, camera, options, stack, regular, events>>
    BY DEF MakeCurrent, During
  <1>2. /\ 1 \in Num /\ Opened' = Opened \cup {1}
        /\ window' \in [Num -> [open : BOOLEAN, serial : Nat]] /\ drawn' \in [Num -> Seq(Title)]
    BY <1>1, WindowOpened DEF PInv
  <1>3. ~regular'
    BY <1>1 DEF PInv, PlotInv, RegularInv
  <1>4. Len(figure_list) >= 2 /\ Len(figure_list) \in Nat
    BY <1>1, ListTypes DEF PInv, PlotInv, ListsInv
  <1>5. \A n \in Opened' : n < Len(figure_list)
    BY <1>2, <1>4 DEF PInv, PlotInv, ListsInv
  <1>6. ListsInv'
    BY <1>1, <1>5 DEF PInv, PlotInv, ListsInv
  <1>7. CurrentInv' /\ OptionsInv' /\ VersionInv' /\ StackInv' /\ RegularInv'
    BY <1>1, <1>2, <1>3 DEF PInv, PlotInv, CurrentInv, OptionsInv, VersionInv, StackInv, RegularInv,
                            camera, options, New
  <1>8. TypeOK'
    BY <1>1, <1>2 DEF PInv, TypeOK, camera, options, Ids
  <1>9. QED
    BY <1>6, <1>7, <1>8 DEF PInv, PlotInv

LEMMA RecordKept ==
  ASSUME PInv, Record
  PROVE  PInv'
  <1> DEFINE s == Len(stack)
             l == Len(figure_list)
  <1>1. /\ stack # <<>> /\ Top.at = "pause" /\ gcf # New /\ Leave
        /\ plotID_list' = [plotID_list EXCEPT ![gcf + 1] = plotID] /\ act_plotID' = plotID
        /\ UNCHANGED <<program, window, gcf, figure_list, legend_list, var_figure, drawn, plotID,
                       data, camera, options, regular, events>>
    BY DEF Record, During, Put
  <1>2. /\ stack' \in Seq(Entry) /\ Len(stack') = s - 1
        /\ \A i \in 1..(s - 1) : stack'[i] = stack[i]
        /\ stack' # <<>> => s - 1 \in 1..(s - 1) /\ Top' = stack[s - 1]
    BY <1>1, StackLeave DEF PInv
  <1>3. s \in Nat /\ l \in Nat
    BY ListTypes DEF PInv
  <1>4. gcf \in Opened /\ gcf \in Nat /\ gcf + 1 \in 1..l
    <2>1. gcf \in Opened /\ gcf \in Nat /\ gcf < l
      BY <1>1, OpenedType DEF PInv, PlotInv, ListsInv, TypeOK
    <2>2. QED
      BY <1>3, <2>1
  <1>5. /\ plotID_list' \in Seq(Ids) /\ Len(plotID_list') = l
        /\ \A i \in 1..l : plotID_list'[i] = IF i = gcf + 1 THEN plotID ELSE plotID_list[i]
    <2>1. plotID \in Ids /\ plotID_list \in Seq(Ids) /\ Len(plotID_list) = l
      BY ListTypes DEF PInv, TypeOK
    <2>2. QED
      BY <1>1, <1>4, <2>1, ExceptSeq
  <1> HIDE DEF s, l
  <1>6. \A i \in 1..(s - 1) : i \in 1..s
    BY <1>3
  <1>7. \A i \in 1..((s - 1) - 1) : i \in 1..(s - 1)
    BY <1>3
  <1>8. StackInv'
    BY <1>1, <1>2, <1>6, <1>7 DEF PInv, PlotInv, StackInv, s
  <1>9. /\ CurrentInv' /\ OptionsInv' /\ VersionInv' /\ Opened' = Opened /\ \A m : Id(m)' = Id(m)
    BY <1>1 DEF PInv, PlotInv, CurrentInv, OptionsInv, VersionInv, Opened, Id, camera, options
  <1>10. ListsInv'
    BY <1>1, <1>9 DEF PInv, PlotInv, ListsInv
  <1>11. TypeOK'
    BY <1>1, <1>2, <1>5, <1>9 DEF PInv, TypeOK, camera, options, Ids, Entry, l
  <1>12. ASSUME regular
         PROVE  /\ \A n \in Opened : /\ plotID_list'[n + 1] \in {None, Id(n)}
                                     /\ drawn[n] # <<>> => plotID_list'[n + 1] = Id(n)
                /\ act_plotID' = plotID_list'[gcf + 1]
                /\ stack' # <<>> => Top'.at # "pause"
                /\ \A i \in 1..((s - 1) - 1) : stack'[i].at # "pause"
                /\ \A i \in 1..(s - 1) : stack'[i].at \in {"update2", "draw"} => stack'[i].ps = data
    <2>1. plotID = Id(gcf)
      BY <1>1, <1>12 DEF PInv, PlotInv, RegularInv
    <2>2. act_plotID' = plotID_list'[gcf + 1]
      BY <1>1, <1>4, <1>5
    <2>3. ASSUME NEW n \in Opened
          PROVE  /\ plotID_list'[n + 1] \in {None, Id(n)}
                 /\ drawn[n] # <<>> => plotID_list'[n + 1] = Id(n)
      <3>1. n \in Nat /\ n + 1 \in 1..l
        <4>1. n \in Nat /\ n < l
          BY OpenedType DEF PInv, PlotInv, ListsInv, l
        <4>2. QED
          BY <1>3, <4>1
      <3>2. CASE n = gcf
        BY <1>4, <1>5, <2>1, <3>2
      <3>3. CASE n # gcf
        <4>1. n + 1 # gcf + 1
          BY <1>4, <3>1, <3>3
        <4>2. plotID_list'[n + 1] = plotID_list[n + 1]
          BY <1>5, <3>1, <4>1
        <4>3. QED
          BY <1>12, <3>3, <4>2 DEF PInv, PlotInv, RegularInv
      <3>4. QED
        BY <3>2, <3>3
    <2>4. /\ stack' # <<>> => Top'.at # "pause"
          /\ \A i \in 1..((s - 1) - 1) : stack'[i].at # "pause"
          /\ \A i \in 1..(s - 1) : stack'[i].at \in {"update2", "draw"} => stack'[i].ps = data
      BY <1>2, <1>6, <1>7, <1>12 DEF PInv, PlotInv, RegularInv, s
    <2>5. QED
      BY <2>2, <2>3, <2>4
  <1>13. RegularInv'
    BY <1>1, <1>2, <1>9, <1>12 DEF PInv, PlotInv, RegularInv
  <1>14. QED
    BY <1>8, <1>9, <1>10, <1>11, <1>13 DEF PInv, PlotInv

LEMMA DrawKept ==
  ASSUME PInv, Draw
  PROVE  PInv'
  <1> DEFINE s == Len(stack)
             g == Len(legend_list)
             e == [Top EXCEPT !.at = "pause"]
  <1>1. /\ stack # <<>> /\ Top.at = "draw" /\ gcf # New /\ GoTo("pause")
        /\ UNCHANGED <<program, window, gcf, figure_list, plotID_list, var_figure, act_plotID,
                       data, camera, options, regular, events>>
    BY DEF Draw, During
  <1>2. PICK n \in Opened :
          /\ Target(n) /\ plotID' = Id(n)
          /\ \/ drawn' = [drawn EXCEPT ![n] = Append(@, Top.ps)]
                /\ legend_list' = [legend_list EXCEPT ![gcf + 1] = Append(@, data)]
             \/ UNCHANGED <<drawn, legend_list>>
    BY DEF Draw
  <1>3. s \in 1..s /\ s \in Nat /\ stack \in Seq(Entry) /\ Top \in Entry
    BY <1>1, StackTypes DEF PInv
  <1>4. Top.ps \in Title /\ data \in Title /\ (regular => Top.ps = data)
    <2>1. Top = stack[s] /\ Top.ps \in Title \cup {None} /\ data \in Title \cup {None}
      BY <1>3 DEF Top, Entry, PInv, TypeOK
    <2>2. Top.ps # None /\ data # None /\ (regular => Top.ps = data)
      BY <1>1, <1>3, <2>1 DEF PInv, PlotInv, StackInv, RegularInv
    <2>3. QED
      BY <2>1, <2>2
  <1>5. /\ stack' \in Seq(Entry) /\ Len(stack') = s /\ stack' # <<>>
        /\ \A i \in 1..s : stack'[i] = IF i = s THEN e ELSE stack[i]
        /\ Top' = e /\ e.at = "pause"
    <2>1. e = [at |-> "pause", type |-> Top.type, ps |-> Top.ps] /\ e \in Entry
      BY <1>3 DEF Entry, Places
    <2>2. stack' = [stack EXCEPT ![Len(stack)] = e]
      BY <1>1 DEF Top, GoTo
    <2>3. e.at = "pause"
      BY <2>1
    <2> HIDE DEF e
    <2>4. QED
      BY <1>1, <2>1, <2>2, <2>3, StackReplace DEF PInv
  <1>6. /\ gcf \in Opened /\ gcf \in Nat /\ gcf + 1 \in 1..g /\ g \in Nat /\ n \in Num /\ gcf \in Num
    <2>1. gcf \in Opened /\ gcf \in Nat /\ gcf < Len(figure_list) /\ gcf \in Num /\ n \in Num
      BY <1>1, OpenedType DEF PInv, PlotInv, ListsInv, TypeOK
    <2>2. Len(figure_list) \in Nat /\ g \in Nat /\ Len(figure_list) <= g
      BY ListTypes DEF PInv, PlotInv, ListsInv
    <2>3. QED
      BY <2>1, <2>2
  <1> HIDE DEF s, g, e
  <1>7. /\ drawn' \in [Num -> Seq(Title)] /\ legend_list' \in Seq(Seq(Title)) /\ Len(legend_list') = g
    <2>1. drawn \in [Num -> Seq(Title)] /\ legend_list \in Seq(Seq(Title)) /\ Len(legend_list) = g
      BY DEF PInv, TypeOK, g
    <2>2. legend_list[gcf + 1] \in Seq(Title) /\ drawn[n] \in Seq(Title)
      BY <1>6, <2>1, ElementOfSeq
    <2>3. Append(legend_list[gcf + 1], data) \in Seq(Title) /\ Append(drawn[n], Top.ps) \in Seq(Title)
      BY <1>4, <2>2, AppendProperties
    <2>4. CASE UNCHANGED <<drawn, legend_list>>
      BY <2>1, <2>4
    <2>5. CASE /\ drawn' = [drawn EXCEPT ![n] = Append(@, Top.ps)]
               /\ legend_list' = [legend_list EXCEPT ![gcf + 1] = Append(@, data)]
      <3>1. drawn' \in [Num -> Seq(Title)]
        BY <2>1, <2>3, <2>5
      <3>2. legend_list' \in Seq(Seq(Title)) /\ Len(legend_list') = g
        BY <1>6, <2>1, <2>3, <2>5, ExceptSeq
      <3>3. QED
        BY <3>1, <3>2
    <2>6. QED
      BY <1>2, <2>4, <2>5
  <1>8. /\ CurrentInv' /\ OptionsInv' /\ VersionInv' /\ Opened' = Opened /\ \A m : Id(m)' = Id(m)
    BY <1>1 DEF PInv, PlotInv, CurrentInv, OptionsInv, VersionInv, Opened, Id, camera, options
  <1>9. ListsInv'
    BY <1>1, <1>7, <1>8 DEF PInv, PlotInv, ListsInv, g
  <1>10. \A i \in 1..(s - 1) : i \in 1..s /\ i # s
    BY <1>3
  <1>11. \A i \in 1..(s - 1) : stack'[i] = stack[i]
    BY <1>5, <1>10
  <1>12. \A i \in 1..s : stack'[i].at \in {"update2", "draw"} => stack'[i] = stack[i]
    BY <1>5
  <1>13. StackInv'
    BY <1>1, <1>5, <1>11, <1>12 DEF PInv, PlotInv, StackInv, s
  <1>14. TypeOK'
    <2>1. plotID' \in Ids
      BY <1>2, <1>6, IdType DEF PInv
    <2>2. QED
      BY <1>1, <1>5, <1>7, <1>8, <2>1 DEF PInv, TypeOK, camera, options, Ids, Entry
  <1>15. ASSUME regular PROVE n = gcf
    <2>1. act_plotID \in {None, Id(gcf)}
      BY <1>1, <1>6, <1>15 DEF PInv, PlotInv, RegularInv
    <2>2. \A m \in Num : Id(m) # None /\ (Id(m) = Id(gcf) => m = gcf)
      BY IdType DEF PInv, Id
    <2>3. CASE act_plotID = None
      BY <1>2, <2>2, <2>3, OpenedType DEF PInv, Target
    <2>4. CASE act_plotID = Id(gcf)
      BY <1>2, <1>6, <2>2, <2>4 DEF Target
    <2>5. QED
      BY <2>1, <2>3, <2>4
  <1>16. ASSUME regular, NEW m \in Opened
         PROVE  legend_list'[m + 1] = drawn'[m] /\ (m # gcf => drawn'[m] = drawn[m])
    <2>1. legend_list[m + 1] = drawn[m] /\ m \in Num /\ m \in Nat
      BY <1>16, OpenedType DEF PInv, PlotInv, RegularInv
    <2>2. m + 1 \in 1..g
      <3>1. m < Len(figure_list) /\ Len(figure_list) <= g /\ Len(figure_list) \in Nat
        BY ListTypes DEF PInv, PlotInv, ListsInv, g
      <3>2. QED
        BY <1>6, <2>1, <3>1
    <2>3. CASE UNCHANGED <<drawn, legend_list>>
      BY <2>1, <2>3
    <2>4. CASE /\ drawn' = [drawn EXCEPT ![n] = Append(@, Top.ps)]
               /\ legend_list' = [legend_list EXCEPT ![gcf + 1] = Append(@, data)]
      <3>1. drawn \in [Num -> Seq(Title)] /\ legend_list \in Seq(Seq(Title)) /\ Len(legend_list) = g
        BY DEF PInv, TypeOK, g
      <3>2. DOMAIN drawn = Num /\ DOMAIN legend_list = 1..g
        BY <3>1, LenProperties
      <3>3. CASE m = gcf
        <4>1. drawn'[m] = Append(drawn[m], Top.ps)
          BY <1>15, <1>16, <2>1, <2>4, <3>2, <3>3
        <4>2. legend_list'[m + 1] = Append(legend_list[m + 1], data)
          BY <2>2, <2>4, <3>2, <3>3
        <4>3. QED
          BY <1>4, <1>16, <2>1, <3>3, <4>1, <4>2
      <3>4. CASE m # gcf
        <4>1. drawn'[m] = drawn[m]
          BY <1>15, <1>16, <2>1, <2>4, <3>2, <3>4
        <4>2. m + 1 # gcf + 1
          BY <1>6, <2>1, <3>4
        <4>3. legend_list'[m + 1] = legend_list[m + 1]
          BY <2>2, <2>4, <3>2, <4>2
        <4>4. QED
          BY <2>1, <4>1, <4>3
      <3>5. QED
        BY <3>3, <3>4
    <2>5. QED
      BY <1>2, <2>3, <2>4
  <1>17. ASSUME regular
         PROVE  /\ \A m \in Opened : plotID_list[m + 1] \in {None, Id(m)}
                /\ \A m \in Opened : drawn'[m] # <<>> => plotID_list[m + 1] = Id(m) \/ m = gcf
                /\ act_plotID = plotID_list[gcf + 1]
                /\ \A i \in 1..(s - 1) : stack'[i].at # "pause"
                /\ \A i \in 1..s : stack'[i].at \in {"update2", "draw"} => stack'[i].ps = data
                /\ plotID' = Id(gcf)
    <2>1. /\ \A m \in Opened : plotID_list[m + 1] \in {None, Id(m)}
          /\ act_plotID = plotID_list[gcf + 1]
      BY <1>1, <1>17 DEF PInv, PlotInv, RegularInv
    <2>2. \A m \in Opened : drawn'[m] # <<>> => plotID_list[m + 1] = Id(m) \/ m = gcf
      BY <1>1, <1>16, <1>17 DEF PInv, PlotInv, RegularInv
    <2>3. /\ \A i \in 1..(s - 1) : stack'[i].at # "pause"
          /\ \A i \in 1..s : stack'[i].at \in {"update2", "draw"} => stack'[i].ps = data
      BY <1>11, <1>12, <1>17 DEF PInv, PlotInv, RegularInv, s
    <2>4. QED
      BY <1>2, <1>15, <1>17, <2>1, <2>2, <2>3
  <1>18. \A i \in 1..Len(figure_list') : regular => figure_list'[i] = i - 1
    BY <1>1 DEF PInv, PlotInv, RegularInv
  <1>19. RegularInv'
    BY <1>1, <1>5, <1>8, <1>16, <1>17, <1>18 DEF RegularInv
  <1>20. QED
    BY <1>8, <1>9, <1>13, <1>14, <1>19 DEF PInv, PlotInv

-----------------------------------------------------------------------------
(* A figure is selected, from the menu or for a plot that begins.          *)

LEMMA SelectionKept ==
  ASSUME PInv, Event, UNCHANGED <<program, plotID, data, camera, options>>,
         \/ UNCHANGED stack /\ \E i \in DOMAIN figure_list : Select(figure_list[i])
         \/ /\ SelectForPlot /\ data # None
            /\ \E type \in PlotType, place \in {"raw", "update1"} :
                 stack' = Append(stack, [at |-> place, type |-> type, ps |-> None])
  PROVE  PInv'
  <1> DEFINE s == Len(stack)
  <1>1. Selected /\ var_figure' = figure_list'[gcf' + 1] /\ act_plotID' = plotID_list'[gcf' + 1]
    BY SelectDone DEF PInv, PlotInv
  <1>2. /\ CurrentInv'
        /\ gcf' \in Opened' \cup {New} /\ var_figure' \in {New} \cup Num /\ act_plotID' \in Ids
        /\ var_figure' < Len(figure_list')
        /\ figure_list' \in Seq({New} \cup Num) /\ plotID_list' \in Seq(Ids)
        /\ act_plotID' = plotID_list'[gcf' + 1]
        /\ regular' => \A n \in Opened' :
             /\ legend_list'[n + 1] = drawn'[n] /\ plotID_list'[n + 1] \in {None, Id(n)'}
             /\ drawn'[n] # <<>> => plotID_list'[n + 1] = Id(n)'
    BY <1>1, FiguresSelected DEF PInv, PlotInv
  <1>3. s \in Nat /\ stack \in Seq(Entry) /\ (stack # <<>> => s \in 1..s) /\ \A i \in 1..s : stack[i] \in Entry
    BY StackTypes DEF PInv
  <1>4. stack # <<>> => Top.at \in {"update1", "update2", "pause"}
    BY DEF Event
  <1>5. \A i \in 1..s : stack[i].at \in {"update1", "update2", "pause"}
    <2>1. ASSUME NEW i \in 1..s PROVE stack[i].at \in {"update1", "update2", "pause"}
      <3>1. CASE i = s
        <4>1. stack # <<>>
          BY <1>3, <3>1, EmptySeq
        <4>2. QED
          BY <1>4, <3>1, <4>1 DEF Top
      <3>2. CASE i # s
        <4>1. i \in 1..(s - 1)
          BY <1>3, <3>2
        <4>2. QED
          BY <4>1 DEF PInv, PlotInv, StackInv
      <3>3. QED
        BY <3>1, <3>2
    <2>2. QED
      BY <2>1
  <1>6. regular' => regular /\ \A i \in 1..s : stack[i].at # "pause"
    <2>1. DOMAIN stack = 1..s
      BY <1>3, LenProperties
    <2>2. QED
      BY <1>1, <2>1 DEF Selected, Within
  <1>7. /\ stack' \in Seq(Entry) /\ Len(stack') \in Nat /\ (stack' # <<>> => data # None)
        /\ \A i \in 1..(Len(stack') - 1) : stack'[i].at \in {"update1", "update2", "pause"}
        /\ \A i \in 1..Len(stack') :
             \/ i \in 1..s /\ stack'[i] = stack[i]
             \/ stack'[i].at \in {"raw", "update1"}
        /\ stack' # <<>> => Top' = stack'[Len(stack')] /\ Len(stack') \in 1..Len(stack')
    <2>1. CASE UNCHANGED stack
      <3>1. \A i \in 1..(s - 1) : i \in 1..s
        BY <1>3
      <3>2. stack # <<>> => data # None
        BY DEF PInv, PlotInv, StackInv
      <3>3. QED
        BY <1>3, <1>5, <2>1, <3>1, <3>2 DEF Top
    <2>2. CASE /\ data # None
               /\ \E type \in PlotType, place \in {"raw", "update1"} :
                    stack' = Append(stack, [at |-> place, type |-> type, ps |-> None])
      <3>1. PICK type \in PlotType, place \in {"raw", "update1"} :
                    stack' = Append(stack, [at |-> place, type |-> type, ps |-> None])
        BY <2>2
      <3> DEFINE e == [at |-> place, type |-> type, ps |-> None]
      <3>2. e \in Entry /\ e.at \in {"raw", "update1"}
        BY DEF Entry, Places
      <3>3. stack' = Append(stack, e)
        BY <3>1
      <3> HIDE DEF e
      <3>4. /\ stack' \in Seq(Entry) /\ Len(stack') = s + 1
            /\ \A i \in 1..s : stack'[i] = stack[i]
            /\ stack'[s + 1] = e
        BY <1>3, <3>2, <3>3, AppendProperties
      <3> HIDE DEF s
      <3>5. s + 1 \in Nat /\ s + 1 \in 1..(s + 1) /\ (s + 1) - 1 = s /\ \A i \in 1..(s + 1) : i \in 1..s \/ i = s + 1
        BY <1>3
      <3>6. \A i \in 1..(s + 1) : \/ i \in 1..s /\ stack'[i] = stack[i]
                                  \/ stack'[i].at \in {"raw", "update1"}
        BY <3>2, <3>4, <3>5
      <3>7. \A i \in 1..s : stack'[i].at \in {"update1", "update2", "pause"}
        BY <1>5, <3>4
      <3>8. Top' = stack'[Len(stack')]
        BY DEF Top
      <3>9. QED
        BY <2>2, <3>4, <3>5, <3>6, <3>7, <3>8
    <2>3. QED
      BY <2>1, <2>2
  <1> HIDE DEF s
  <1>8. OptionsInv' /\ VersionInv'
    BY DEF PInv, PlotInv, OptionsInv, VersionInv, camera, options
  <1>9. StackInv'
    <2>1. ASSUME NEW i \in 1..Len(stack'), stack'[i].at \in {"update2", "draw"} PROVE stack'[i].ps # None
      <3>1. i \in 1..s /\ stack'[i] = stack[i]
        BY <1>7, <2>1
      <3>2. QED
        BY <2>1, <3>1 DEF PInv, PlotInv, StackInv, s
    <2>2. QED
      BY <1>7, <2>1 DEF StackInv
  <1>10. ListsInv'
    <2>1. Len(figure_list') \in Nat
      BY <1>2, LenProperties
    <2>2. Len(figure_list') >= 1 /\ Len(figure_list') >= 2
      BY <1>1, <2>1 DEF Selected
    <2>3. QED
      BY <1>1, <1>2, <2>2 DEF Selected, ListsInv
  <1>11. TypeOK'
    <2>1. events' \in 0..MaxEvents
      BY PlotAssumption DEF PInv, TypeOK, Event
    <2>2. regular' \in BOOLEAN
      BY DEF PInv, TypeOK, SelectForPlot, Select, NewFigure, Quiet
    <2>3. /\ window' \in [Num -> [open : BOOLEAN, serial : Nat]] /\ drawn' \in [Num -> Seq(Title)]
          /\ legend_list' \in Seq(Seq(Title)) /\ Len(figure_list') = Len(plotID_list')
      BY <1>1 DEF Selected
    <2>4. /\ {act_plotID', plotID'} \subseteq Ids
          /\ data' \in Title \cup {None} /\ camera_type' \in Type \cup {None}
          /\ camera_version' \in Nat \cup {None}
          /\ option' \subseteq Option /\ shown' \subseteq Option /\ disabled' \subseteq Autoscale
      BY <1>2 DEF PInv, TypeOK, camera, options
    <2>5. stack' \in Seq([at : Places, type : PlotType, ps : Title \cup {None}])
      BY <1>7 DEF Entry
    <2>6. Ids' = Ids
      BY DEF Ids
    <2>7. QED
      BY <1>2, <2>1, <2>2, <2>3, <2>4, <2>5, <2>6 DEF TypeOK
  <1>12. RegularInv'
    <2>1. SUFFICES ASSUME regular' PROVE RegularInv'
      BY DEF RegularInv
    <2>2. regular /\ \A i \in 1..s : stack[i].at # "pause"
      BY <1>6, <2>1
    <2>3. \A i \in 1..Len(stack') : stack'[i].at # "pause"
      BY <1>7, <2>2
    <2>4. \A i \in 1..(Len(stack') - 1) : i \in 1..Len(stack')
      BY <1>7
    <2>5. /\ \A i \in 1..(Len(stack') - 1) : stack'[i].at # "pause"
          /\ stack' # <<>> => Top'.at # "pause"
      BY <1>7, <2>3, <2>4
    <2>6. ASSUME NEW i \in 1..Len(stack'), stack'[i].at \in {"update2", "draw"} PROVE stack'[i].ps = data
      <3>1. i \in 1..s /\ stack'[i] = stack[i]
        BY <1>7, <2>6
      <3>2. QED
        BY <2>2, <2>6, <3>1 DEF PInv, PlotInv, RegularInv, s
    <2>7. gcf' # New /\ \A i \in 1..Len(figure_list') : figure_list'[i] = i - 1
      BY <1>1, <2>1, NumType DEF Selected
    <2>8. QED
      BY <1>2, <2>1, <2>5, <2>6, <2>7 DEF RegularInv
  <1>13. QED
    BY <1>2, <1>8, <1>9, <1>10, <1>11, <1>12 DEF PInv, PlotInv

LEMMA InitPInv == Init => PInv
  <1> SUFFICES ASSUME Init PROVE PInv
    OBVIOUS
  <1>1. /\ window = [n \in Num |-> [open |-> FALSE, serial |-> 0]] /\ gcf = New
        /\ figure_list = <<New>> /\ plotID_list = <<None>> /\ legend_list = << <<>> >>
        /\ var_figure = New /\ act_plotID = None /\ plotID = None /\ data = None
        /\ option = {"logfres", "logx", "logy"} /\ shown = option /\ disabled = {}
        /\ stack = <<>> /\ drawn = [n \in Num |-> <<>>] /\ regular = TRUE /\ events = 0
    BY DEF Init
  <1>2. Opened = {} /\ New = 0
    BY <1>1 DEF Opened, New
  <1>3. /\ Len(figure_list) = 1 /\ Len(plotID_list) = 1 /\ Len(legend_list) = 1 /\ figure_list[1] = 0
        /\ <<>> \in Seq(Title) /\ None \in Ids /\ Len(stack) = 0
    BY <1>1, <1>2, EmptySeq DEF Ids
  <1>4. /\ camera_type \in Type \cup {None} /\ camera_version \in Nat \cup {None} /\ VersionInv
    <2>1. CASE camera_type = None /\ camera_version = None
      BY <2>1 DEF VersionInv
    <2>2. CASE camera_type \in Type /\ camera_version \in Range(Versions[camera_type]) \cup {None}
      <3>1. Versions[camera_type] \in Seq(Nat)
        BY <2>2, PlotAssumption
      <3>2. Range(Versions[camera_type]) \subseteq Nat
        BY <3>1, ElementOfSeq, LenProperties DEF Range
      <3>3. QED
        BY <2>2, <3>2 DEF VersionInv
    <2>3. QED
      BY <2>1, <2>2 DEF Init
  <1>5. TypeOK
    <2>1. window \in [Num -> [open : BOOLEAN, serial : Nat]] /\ drawn \in [Num -> Seq(Title)]
      BY <1>1, <1>3
    <2>2. figure_list \in Seq({New} \cup Num) /\ plotID_list \in Seq(Ids) /\ legend_list \in Seq(Seq(Title))
      BY <1>1, <1>3
    <2>3. stack \in Seq([at : Places, type : PlotType, ps : Title \cup {None}])
      BY <1>1, EmptySeq
    <2>4. option \subseteq Option
      BY <1>1 DEF Option
    <2>5. events \in 0..MaxEvents
      BY <1>1, PlotAssumption
    <2>6. QED
      BY <1>1, <1>2, <1>3, <1>4, <2>1, <2>2, <2>3, <2>4, <2>5 DEF TypeOK
  <1>6. \A i \in 1..1 : i = 1
    OBVIOUS
  <1>7. (\A i \in 1..0 : FALSE) /\ (\A i \in 1..(0 - 1) : FALSE)
    OBVIOUS
  <1>8. CurrentInv /\ ListsInv
    BY <1>1, <1>2, <1>3, <1>6 DEF CurrentInv, ListsInv
  <1>9. StackInv
    BY <1>1, <1>3, <1>7 DEF StackInv
  <1>10. OptionsInv
    BY <1>1 DEF OptionsInv, Autoscale
  <1>11. RegularInv
    BY <1>1, <1>2, <1>3, <1>6, <1>7 DEF RegularInv
  <1>12. QED
    BY <1>4, <1>5, <1>8, <1>9, <1>10, <1>11 DEF PInv, PlotInv

LEMMA NextPInv == PInv /\ [Next]_vars => PInv'
  <1> SUFFICES ASSUME PInv, [Next]_vars PROVE PInv'
    OBVIOUS
  <1>1. CASE \E i \in DOMAIN figure_list : figure_select(i)
    <2>1. /\ Event /\ UNCHANGED <<program, plotID, data, camera, options, stack>>
          /\ \E i \in DOMAIN figure_list : Select(figure_list[i])
      BY <1>1 DEF figure_select
    <2>2. QED
      BY <2>1, SelectionKept
  <1>2. CASE \E n \in Num : Close(n) \/ Activate(n)
    BY <1>2, WindowsKept
  <1>3. CASE \E t \in Title : getdata(t)
    BY <1>3, DataKept
  <1>4. CASE \E t \in Type : camera_type_select(t) \/ \E i \in DOMAIN Versions[t] : camera_version_select(i)
    BY <1>4, VersionKept
  <1>5. CASE \E o \in ToggleOptions : toggle(o)
    BY <1>5, OptionsKept, ToggleAssumption
  <1>6. CASE \E type \in PlotType : rawplot(type) \/ spectrplot(type)
    <2>1. PICK type \in PlotType, place \in {"raw", "update1"} : StartPlot(type, place)
      BY <1>6 DEF rawplot, spectrplot
    <2>2. /\ Event /\ UNCHANGED <<program, plotID, data, camera, options>>
          /\ SelectForPlot /\ data # None
          /\ stack' = Append(stack, [at |-> place, type |-> type, ps |-> None])
      BY <2>1 DEF StartPlot
    <2>3. QED
      BY <2>2, SelectionKept
  <1>7. CASE RawDraw \/ SpectrFails \/ Apsd \/ UpdateReturns \/ DrawFails
    BY <1>7, PlotProgress
  <1>8. CASE MakeCurrent
    BY <1>8, MakeCurrentKept
  <1>9. CASE Draw
    BY <1>9, DrawKept
  <1>10. CASE Record
    BY <1>10, RecordKept
  <1>11. CASE UNCHANGED vars
    <2>1. UNCHANGED <<program, figures, plotID, data, camera, options, stack, regular, events>>
      BY <1>11 DEF vars
    <2>2. /\ CurrentInv' /\ OptionsInv' /\ VersionInv' /\ ListsInv' /\ StackInv'
          /\ Opened' = Opened /\ \A m : Id(m)' = Id(m)
      BY <2>1 DEF PInv, PlotInv, CurrentInv, OptionsInv, VersionInv, ListsInv, StackInv, Opened, Id,
                  figures, options, camera
    <2>3. TypeOK'
      BY <2>1, <2>2 DEF PInv, TypeOK, figures, camera, options, Ids
    <2>4. RegularInv'
      BY <2>1, <2>2 DEF PInv, PlotInv, RegularInv, figures, Top
    <2>5. QED
      BY <2>2, <2>3, <2>4 DEF PInv, PlotInv
  <1>12. QED
    BY <1>1, <1>2, <1>3, <1>4, <1>5, <1>6, <1>7, <1>8, <1>9, <1>10, <1>11 DEF Next

(* What the invariants say of a state.                                     *)
LEMMA ShownIfPInv == PInv => TypeOK /\ PlotsAsShown
  <1> SUFFICES ASSUME PInv PROVE PlotsAsShown
    BY DEF PInv
  <1>1. \A n \in Opened : n < Len(plotID_list) /\ n < Len(legend_list)
    <2>1. ASSUME NEW n \in Opened PROVE n < Len(plotID_list) /\ n < Len(legend_list)
      <3>1. n < Len(figure_list) /\ Len(figure_list) <= Len(legend_list)
        BY DEF PInv, PlotInv, ListsInv
      <3>2. n \in Nat /\ Len(figure_list) \in Nat /\ Len(legend_list) \in Nat /\ Len(plotID_list) = Len(figure_list)
        BY OpenedType, ListTypes DEF PInv
      <3>3. QED
        BY <3>1, <3>2
    <2>2. QED
      BY <2>1
  <1>2. ASSUME regular, NEW n \in Opened
        PROVE  /\ figure_list[n + 1] = n /\ legend_list[n + 1] = drawn[n]
               /\ plotID_list[n + 1] \in {None, Id(n)}
               /\ drawn[n] # <<>> /\ stack = <<>> => plotID_list[n + 1] = Id(n)
    <2>1. n + 1 \in 1..Len(figure_list) /\ (n + 1) - 1 = n
      <3>1. n \in Nat /\ n < Len(figure_list) /\ Len(figure_list) \in Nat
        BY OpenedType, ListTypes DEF PInv, PlotInv, ListsInv
      <3>2. QED
        BY <3>1
    <2>2. QED
      BY <1>2, <2>1 DEF PInv, PlotInv, RegularInv
  <1>3. VersionInv /\ OptionsInv
    BY DEF PInv, PlotInv
  <1>4. QED
    BY <1>1, <1>2, <1>3 DEF PlotsAsShown, VersionInv, OptionsInv

-----------------------------------------------------------------------------
(* Every variable keeps its type.                                          *)
THEOREM TypeCorrect == Spec => []TypeOK
  <1>1. Init => PInv
    BY InitPInv
  <1>2. PInv /\ [Next]_vars => PInv'
    BY NextPInv
  <1>3. PInv => TypeOK
    BY ShownIfPInv
  <1>4. QED
    BY <1>1, <1>2, <1>3, PTL DEF Spec

(* However plots nest and windows come and go: no window has a number      *)
(* outside the lists, and while nothing came in between, the plot IDs and  *)
(* the legends are those of the windows they stand for (figure_select,     *)
(* rawplot, spectrplot).                                                   *)
THEOREM ListsAreTrue == Spec => []PlotsAsShown
  <1>1. Init => PInv
    BY InitPInv
  <1>2. PInv /\ [Next]_vars => PInv'
    BY NextPInv
  <1>3. PInv => PlotsAsShown
    BY ShownIfPInv
  <1>4. QED
    BY <1>1, <1>2, <1>3, PTL DEF Spec
=============================================================================
