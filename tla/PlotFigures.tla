----------------------------- MODULE PlotFigures -----------------------------
(***************************************************************************)
(* The windows of the plot panel, APDCAM_Plot_class.  The panel keeps one  *)
(* list of figures, one of flap's plot IDs and one of legends, all indexed *)
(* by the number of the figure, while the numbers are given by matplotlib  *)
(* and the user closes windows as he likes.  plt.pause() and root.update() *)
(* let events be processed in the middle of a plot: the handlers nest.     *)
(***************************************************************************)
EXTENDS Integers, FiniteSetsExt, SequencesExt

CONSTANTS
  Title, ndim,     \* data that can be read, and how many dimensions they have
  Type, Versions,  \* camera types, and the versions of each
  None,
  Programs,        \* {"plot", "control"}: the program the panel is part of
  ToggleOptions,   \* buttons modelled
  MaxFigures, MaxNesting, MaxEvents   \* bounds

ASSUME PlotAssumption ==
  /\ ndim \in [Title -> 1..3] /\ None \notin Title \cup Type \cup Nat \cup (Nat \X Nat)
  /\ Versions \in [Type -> Seq(Nat)] /\ Programs \subseteq {"plot", "control"}
  /\ {MaxFigures, MaxNesting, MaxEvents} \subseteq Nat

Option    == {"raw allpoints", "raw autoscale", "allpoints", "autoscale", "logfres", "logx", "logy"}
Autoscale == {"raw autoscale", "autoscale"}    \* these switch the entries of the range off
PlotType  == {"xy", "grid xy", "image", "anim-image"}
Num       == 1..MaxFigures
New       == 0                                 \* entry "New figure" of the menu

ASSUME ToggleAssumption == ToggleOptions \subseteq Option

VARIABLES
  program,
  window,        \* the windows that exist, each with how many had its number so far
  gcf,           \* the current one, or New
  figure_list, plotID_list, legend_list, var_figure, act_plotID,
  plotID,        \* flap's: the window of the last plot
  data, camera_type, camera_version,
  option, shown, disabled,   \* options that are on, are shown as on; disabled entries
  stack,         \* plots under way, innermost last
  drawn,         \* curves in each window
  regular,       \* history: numbers are indices, and nothing came in between
  events

figures == <<window, gcf, figure_list, plotID_list, legend_list, var_figure, act_plotID, drawn>>
camera  == <<camera_type, camera_version>>
options == <<option, shown, disabled>>
vars    == <<program, figures, plotID, data, camera, options, stack, regular, events>>

Opened == {n \in Num : window[n].open}
Id(n)  == <<n, window[n].serial>>
Ids    == (Num \X Nat) \cup {None}
Places == {"raw", "update1", "apsd", "update2", "draw", "pause", "record"}

(* Every variable keeps its type.                                          *)
TypeOK ==
  /\ window \in [Num -> [open : BOOLEAN, serial : Nat]] /\ gcf \in Opened \cup {New}
  /\ figure_list \in Seq({New} \cup Num) /\ plotID_list \in Seq(Ids) /\ legend_list \in Seq(Seq(Title))
  /\ Len(figure_list) = Len(plotID_list) /\ var_figure \in {New} \cup Num
  /\ {act_plotID, plotID} \subseteq Ids /\ drawn \in [Num -> Seq(Title)]
  /\ data \in Title \cup {None} /\ camera_type \in Type \cup {None} /\ camera_version \in Nat \cup {None}
  /\ option \subseteq Option /\ shown \subseteq Option /\ disabled \subseteq Autoscale
  /\ stack \in Seq([at : Places, type : PlotType, ps : Title \cup {None}])
  /\ regular \in BOOLEAN /\ events \in 0..MaxEvents

Init ==
  /\ program \in Programs
  /\ window = [n \in Num |-> [open |-> FALSE, serial |-> 0]] /\ gcf = New
  /\ figure_list = <<New>> /\ plotID_list = <<None>> /\ legend_list = << <<>> >>
  /\ var_figure = New /\ act_plotID = None /\ plotID = None
  /\ data = None
  /\ IF program = "plot" THEN camera_type = None /\ camera_version = None
     ELSE camera_type \in Type /\ camera_version \in Range(Versions[camera_type]) \cup {None}
  /\ option = {"logfres", "logx", "logy"} /\ shown = option /\ disabled = {}
  /\ stack = <<>> /\ drawn = [n \in Num |-> <<>>] /\ regular = TRUE /\ events = 0

-----------------------------------------------------------------------------
(* The handlers.                                                           *)

Top      == stack[Len(stack)]
GoTo(p)  == stack' = [stack EXCEPT ![Len(stack)].at = p]
Under    == SubSeq(stack, 1, Len(stack) - 1)
Leave    == stack' = Under

(* Handlers run when the event loop does.                                  *)
Event ==
  /\ stack # <<>> => Top.at \in {"update1", "update2", "pause"}
  /\ events < MaxEvents /\ events' = events + 1

During(places) == stack # <<>> /\ Top.at \in places
Within(place)  == \E i \in DOMAIN stack : stack[i].at = place
Put(list, n, x) == [list EXCEPT ![n + 1] = x]

-----------------------------------------------------------------------------
(* Selection of a figure: the entry New makes a window, the number of a    *)
(* window that was closed makes it again.  For a plot, the lists start     *)
(* anew when all windows have been closed, but for the legends.            *)

NewNumber == IF Opened = {} THEN 1 ELSE Max(Opened) + 1

OpenWindow(n) ==
  /\ n \in Num
  /\ window' = [window EXCEPT ![n] = [open |-> TRUE, serial |-> @.serial + 1]]
  /\ drawn' = [drawn EXCEPT ![n] = <<>>]

(* plt.pause() processes events between the plot and what is recorded.     *)
Quiet == regular /\ ~Within("pause")

NewFigure(list, ids) ==
  /\ OpenWindow(NewNumber)
  /\ figure_list' = Append(list, NewNumber)
  /\ plotID_list' = Append(ids, None)
  /\ legend_list' = Append(legend_list, <<>>)
  /\ gcf' = NewNumber
  /\ regular' = (Quiet /\ Len(list) = NewNumber /\ Len(legend_list) = NewNumber)

OldFigure(n) ==
  /\ n \in Opened
  /\ gcf' = n
  /\ UNCHANGED <<window, drawn, figure_list, plotID_list, legend_list>>

(* Mutant: the plot ID of the window that was closed is kept.              *)
ClosedFigure_KeepsId(n) ==
  /\ n \notin Opened /\ OpenWindow(n)
  /\ legend_list' = Put(legend_list, n, <<>>)
  /\ gcf' = n
  /\ UNCHANGED <<figure_list, plotID_list>>

ClosedFigure(n) ==
  /\ n \notin Opened /\ OpenWindow(n)
  /\ plotID_list' = Put(plotID_list, n, None)
  /\ legend_list' = Put(legend_list, n, <<>>)
  /\ gcf' = n
  /\ UNCHANGED figure_list

Select(choice) ==
  /\ \/ choice = New /\ NewFigure(figure_list, plotID_list)
     \/ choice # New /\ (OldFigure(choice) \/ ClosedFigure(choice)) /\ regular' = Quiet
  /\ var_figure' = figure_list'[gcf' + 1]
  /\ act_plotID' = plotID_list'[gcf' + 1]

(* Mutant: the list of plot IDs does not start anew.                       *)
SelectForPlot_KeepsIds ==
  IF Opened = {}
  THEN /\ NewFigure(<<New>>, plotID_list)
       /\ var_figure' = figure_list'[gcf' + 1] /\ act_plotID' = plotID_list'[gcf' + 1]
  ELSE Select(var_figure)

(* Called by a plot.                                                       *)
SelectForPlot ==
  IF Opened = {}
  THEN /\ NewFigure(<<New>>, <<None>>)
       /\ var_figure' = figure_list'[gcf' + 1]
       /\ act_plotID' = plotID_list'[gcf' + 1]
  ELSE Select(var_figure)

figure_select(i) ==
  /\ Event /\ i \in DOMAIN figure_list
  /\ Select(figure_list[i])
  /\ UNCHANGED <<program, plotID, data, camera, options, stack>>

-----------------------------------------------------------------------------
(* The user's windows.                                                     *)

Close(n) ==
  /\ Event /\ n \in Opened
  /\ window' = [window EXCEPT ![n].open = FALSE]
  /\ LET left == Opened \ {n}
     IN gcf' \in IF gcf # n THEN {gcf} ELSE IF left = {} THEN {New} ELSE left
  /\ regular' = (regular /\ stack = <<>>)
  /\ UNCHANGED <<program, figure_list, plotID_list, legend_list, var_figure, act_plotID, drawn, plotID,
                 data, camera, options, stack>>

Activate(n) ==
  /\ Event /\ n \in Opened
  /\ gcf' = n /\ regular' = (regular /\ stack = <<>>)
  /\ UNCHANGED <<program, window, figure_list, plotID_list, legend_list, var_figure, act_plotID, drawn,
                 plotID, data, camera, options, stack>>

-----------------------------------------------------------------------------
(* Data and options.                                                       *)

getdata(t) ==
  /\ Event
  /\ data' = t /\ regular' = (regular /\ ~Within("update2"))
  /\ UNCHANGED <<program, figures, plotID, camera, options, stack>>

(* In the program that controls the camera its configuration names it.     *)
camera_type_select(t) ==
  /\ Event /\ program = "plot"
  /\ camera_type' = t
  /\ camera_version' = IF Versions[t] = <<>> THEN None ELSE Versions[t][1]
  /\ UNCHANGED <<program, figures, plotID, data, options, stack, regular>>

camera_version_select(i) ==
  /\ Event /\ program = "plot" /\ camera_type # None /\ i \in DOMAIN Versions[camera_type]
  /\ camera_version' = Versions[camera_type][i]
  /\ UNCHANGED <<program, figures, plotID, data, camera_type, options, stack, regular>>

Flip(set, o) == IF o \in set THEN set \ {o} ELSE set \cup {o}

toggle(o) ==
  /\ Event
  /\ option' = Flip(option, o) /\ shown' = (shown \ {o}) \cup (option' \cap {o})
  /\ disabled' = (disabled \ {o}) \cup (option' \cap Autoscale \cap {o})
  /\ UNCHANGED <<program, figures, plotID, data, camera, stack, regular>>

-----------------------------------------------------------------------------
(* Plots.                                                                  *)

Plottable(type) == data # None /\ (type = "xy" <=> ndim[data] = 1) /\ (type # "xy" <=> ndim[data] = 3)
StartPlot(type, place) ==
  /\ Event /\ data # None /\ Len(stack) < MaxNesting
  /\ SelectForPlot
  /\ stack' = Append(stack, [at |-> place, type |-> type, ps |-> None])
  /\ UNCHANGED <<program, plotID, data, camera, options>>

rawplot(type) == StartPlot(type, "raw")

(* The figure is selected before the data are looked at.                   *)
RawDraw ==
  /\ During({"raw"})
  /\ IF Plottable(Top.type)
     THEN stack' = [stack EXCEPT ![Len(stack)] = [at |-> "draw", type |-> @.type, ps |-> data]]
     ELSE Leave
  /\ UNCHANGED <<program, figures, plotID, data, camera, options, regular, events>>

spectrplot(type) == Plottable(type) /\ StartPlot(type, "update1")

(* root is known only to the program in apdcam_plot; an entry may not be a *)
(* number, the spectrum may fail.                                          *)
SpectrFails ==
  /\ During({"update1"})
  /\ Leave
  /\ UNCHANGED <<program, figures, plotID, data, camera, options, regular, events>>

(* update() returns; the spectrum of what is now loaded.                   *)
Apsd ==
  /\ During({"update1"}) /\ program = "plot"
  /\ stack' = [stack EXCEPT ![Len(stack)] = [at |-> "update2", type |-> @.type, ps |-> data]]
  /\ UNCHANGED <<program, figures, plotID, data, camera, options, regular, events>>

UpdateReturns ==
  /\ During({"update2"})
  /\ IF Plottable(Top.type) THEN GoTo("draw") ELSE Leave
  /\ UNCHANGED <<program, figures, plotID, data, camera, options, regular, events>>

DrawFails ==
  /\ During({"draw"})
  /\ Leave
  /\ UNCHANGED <<program, figures, plotID, data, camera, options, regular, events>>

(* plt.gcf() makes a window when all have been closed.                     *)
MakeCurrent ==
  /\ During({"draw", "pause"}) /\ gcf = New
  /\ OpenWindow(1) /\ gcf' = 1
  /\ UNCHANGED <<program, figure_list, plotID_list, legend_list, var_figure, act_plotID, plotID,
                 data, camera, options, stack, regular, events>>

(* flap draws in the figure of the plot ID if it is still open, or else in *)
(* the current one.                                                        *)
Target(n) == IF \E m \in Opened : act_plotID = Id(m) THEN act_plotID = Id(n) ELSE n = gcf

Draw ==
  /\ During({"draw"}) /\ gcf # New
  /\ \E n \in Opened :
       /\ Target(n) /\ plotID' = Id(n)
       /\ IF Top.type = "xy"
          THEN /\ drawn' = [drawn EXCEPT ![n] = Append(@, Top.ps)]
               /\ legend_list' = [legend_list EXCEPT ![gcf + 1] = Append(@, data)]
          ELSE UNCHANGED <<drawn, legend_list>>
  /\ GoTo("pause")
  /\ UNCHANGED <<program, window, gcf, figure_list, plotID_list, var_figure, act_plotID,
                 data, camera, options, regular, events>>

Record ==
  /\ During({"pause"}) /\ gcf # New
  /\ plotID_list' = Put(plotID_list, gcf, plotID)
  /\ act_plotID' = plotID
  /\ Leave
  /\ UNCHANGED <<program, window, gcf, figure_list, legend_list, var_figure, drawn, plotID,
                 data, camera, options, regular, events>>

Next ==
  \/ \E i \in DOMAIN figure_list : figure_select(i)
  \/ \E n \in Num : Close(n) \/ Activate(n)
  \/ \E t \in Title : getdata(t)
  \/ \E t \in Type : camera_type_select(t) \/ \E i \in DOMAIN Versions[t] : camera_version_select(i)
  \/ \E o \in ToggleOptions : toggle(o)
  \/ \E type \in PlotType : rawplot(type) \/ spectrplot(type)
  \/ RawDraw \/ SpectrFails \/ Apsd \/ UpdateReturns \/ DrawFails \/ MakeCurrent \/ Draw \/ Record

Spec == Init /\ [][Next]_vars

-----------------------------------------------------------------------------
(* Property.                                                               *)

(* No window has a number outside the lists.  As long as windows got their *)
(* numbers in the order of the list and nothing was closed, brought to the *)
(* front or loaded in the middle of a plot, the lists are true of them:    *)
(* a further plot goes into the plot of its window, also after the window  *)
(* was closed and made again, and the legend names its curves.  The        *)
(* version selected is one of the camera type, and the buttons show the    *)
(* options.                                                                *)
PlotsAsShown ==
  /\ \A n \in Opened : n < Len(plotID_list) /\ n < Len(legend_list)
  /\ regular => \A n \in Opened :
       /\ figure_list[n + 1] = n /\ legend_list[n + 1] = drawn[n]
       /\ plotID_list[n + 1] \in {None, Id(n)}
       /\ drawn[n] # <<>> /\ stack = <<>> => plotID_list[n + 1] = Id(n)
  /\ camera_version # None => camera_version \in Range(Versions[camera_type])
  /\ shown = option /\ disabled = option \cap Autoscale
=============================================================================
