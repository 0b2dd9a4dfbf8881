--------------------------- MODULE SlidingWindow ---------------------------
(***************************************************************************)
(* The dictionary of a stream of linked blocks, as both ends of it see it: *)
(* the last W bytes of a preset dictionary followed by everything that was *)
(* coded since.                                                            *)
(***************************************************************************)
EXTENDS Integers, Sequences

CONSTANTS
  W,      \* how many bytes a match can reach back
  Inputs  \* the strings that are coded or preset

VARIABLES
  window,  \* what a match can refer to
  preset,  \* the preset dictionary
  coded    \* a block that is coded but not yet in the window

vars == <<window, preset, coded>>

\* The last n bytes of s, or all of it if it has no more.
Last(s, n) == IF Len(s) > n THEN SubSeq(s, Len(s) - n + 1, Len(s)) ELSE s

Init == window = <<>> /\ preset = <<>> /\ coded = <<>>

\* The stream starts anew from a preset dictionary, maybe the one it has.
Restart ==
  /\ preset' \in Inputs
  /\ window' = Last(preset', W)
  /\ UNCHANGED coded

\* The preset dictionary is set or dropped for the next restart only.
Keep ==
  /\ preset' \in Inputs
  /\ UNCHANGED <<window, coded>>

Code ==
  /\ coded = <<>>
  /\ coded' \in Inputs
  /\ UNCHANGED <<window, preset>>

Slide ==
  /\ window' = Last(window \o coded, W)
  /\ coded' = <<>>
  /\ UNCHANGED preset

Next == Restart \/ Keep \/ Code \/ Slide

Spec == Init /\ [][Next]_vars
=============================================================================
