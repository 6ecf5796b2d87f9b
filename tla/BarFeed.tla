------------------------------- MODULE BarFeed -------------------------------
(***************************************************************************)
(* What a series of bars is: ticks gather, a bar takes all that have       *)
(* gathered and is never touched again, bars come in order, and so no tick *)
(* counts in two of them.  What has gathered may be dropped.               *)
(***************************************************************************)
EXTENDS Naturals

CONSTANTS Ticks, Intervals, NoBar

VARIABLES
  gathered,  \* ticks that arrived since the last bar
  bars       \* the ticks of each interval's bar, or NoBar

vars == << gathered, bars >>

Init == gathered = {} /\ bars = [b \in Intervals |-> NoBar]

Gather(t) ==
  /\ t \notin gathered
  /\ \A b \in Intervals : bars[b] # NoBar => t \notin bars[b]
  /\ gathered' = gathered \union {t}
  /\ UNCHANGED bars

Close(b) ==
  /\ \A c \in Intervals : bars[c] # NoBar => c < b
  /\ bars' = [bars EXCEPT ![b] = gathered]
  /\ gathered' = {}

Drop ==
  /\ gathered' = {}
  /\ UNCHANGED bars

Next ==
  \/ \E t \in Ticks : Gather(t)
  \/ \E b \in Intervals : Close(b)
  \/ Drop

Spec == Init /\ [][Next]_vars
=============================================================================
