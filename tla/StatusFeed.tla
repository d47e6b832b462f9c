------------------------------- MODULE StatusFeed -------------------------------
(***************************************************************************)
(* What the observer of a printer link is promised (link.onOnline in       *)
(* internal/printer/link.go): it is told every change of the status, once, *)
(* in the order of the changes, and no change happens while it is told.    *)
(* PrinterLink implements this.                                            *)
(***************************************************************************)
VARIABLES
  status, \* the status of the link
  told,   \* what its observer was told last
  busy    \* whether the observer is being told of a change

feedVars == <<status, told, busy>>

Init == status = FALSE /\ told = FALSE /\ busy = FALSE

Change ==
  /\ ~busy /\ busy' = TRUE
  /\ status' = ~status
  /\ UNCHANGED told

Tell ==
  /\ busy /\ busy' = FALSE
  /\ told # status /\ told' = status
  /\ UNCHANGED status

Next == Change \/ Tell

Spec == Init /\ [][Next]_feedVars
=============================================================================
