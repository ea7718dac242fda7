--------------------------- MODULE SMARTselection ----------------------------
(***************************************************************************)
(* What the selection of S.M.A.R.T. attributes promises for one drive: the *)
(* lines of its table are fixed when the drive is first found, to all the  *)
(* attributes that are selected, to others too if the list may be cut when *)
(* it is copied or, if the drive did not tell what it supports, to none;   *)
(* values come one by one, to lines of selected attributes only; and only  *)
(* a retrieval that did not know what to read takes a value away. SMARTids *)
(* implements it.                                                          *)
(***************************************************************************)
CONSTANTS
  IDs,
  Cuts        \* whether a list may be cut when it is copied

VARIABLES
  selected,   \* the IDs that are both wanted and supported
  found,      \* whether the drive was found
  lines,      \* the IDs that have a line in the table
  valid,      \* the lines that have a value
  blind       \* a retrieval that does not know what to read is under way

vars == <<selected, found, lines, valid, blind>>

Init ==
  /\ selected \subseteq IDs
  /\ found = FALSE /\ lines = {} /\ valid = {} /\ blind = FALSE

Find ==
  /\ ~found /\ found' = TRUE
  /\ \/ lines' = selected /\ blind' = FALSE
     \/ Cuts /\ lines' \in SUBSET IDs /\ blind' = FALSE
     \/ lines' = {} /\ blind' = TRUE
  /\ UNCHANGED <<selected, valid>>

Retrieve ==
  /\ found /\ blind' \in BOOLEAN
  /\ UNCHANGED <<selected, found, lines, valid>>

Get(id) ==
  /\ id \in (lines \cap selected) \ valid /\ valid' = valid \cup {id}
  /\ blind' \in {blind, FALSE}
  /\ UNCHANGED <<selected, found, lines>>

Lose(id) ==
  /\ blind /\ id \in valid /\ valid' = valid \ {id}
  /\ blind' \in {blind, FALSE}
  /\ UNCHANGED <<selected, found, lines>>

Next == Find \/ Retrieve \/ (\E id \in IDs : Get(id) \/ Lose(id))
Spec == Init /\ [][Next]_vars
=============================================================================
