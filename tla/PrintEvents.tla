------------------------------ MODULE PrintEvents ------------------------------
EXTENDS Integers
(***************************************************************************)
(* The rules of internal/printer/events.go that tell the modules where a   *)
(* print begins.  A document is a record with a field state: "none" before *)
(* the first report, "PAUSE" for PAUSE and PAUSED, and "IDLE" for every    *)
(* state a printer rests in (IDLE, FINISH, FAILED).                        *)
(***************************************************************************)
Preparing == {"PREPARE", "SLICING"}
States == {"none", "IDLE", "PAUSE", "RUNNING"} \cup Preparing

(* The first report of a new job.  A resume is none, and neither is the    *)
(* first state ever seen.                                                  *)
NewJob(prev, cur) ==
  /\ prev.state # "none" /\ cur.state # prev.state
  /\ prev.state \notin Preparing
  /\ cur.state \in Preparing \/ (cur.state = "RUNNING" /\ prev.state # "PAUSE")

(* The event carries the kind state_initial.                               *)
StateInitial(prev, cur) == prev.state = "none" /\ cur.state # "none"

(* The kinds print_preparing and print_started: a state is entered, and    *)
(* RUNNING is not entered from a pause.                                    *)
PrintPreparing(prev, cur) ==
  prev.state # "none" /\ cur.state # prev.state /\ cur.state \in Preparing
PrintStarted(prev, cur) ==
  prev.state \notin {"none", "PAUSE"} /\ cur.state # prev.state /\ cur.state = "RUNNING"

(* The kind first_layer_complete; an unreported layer counts as none done. *)
FirstLayerComplete(prev, cur) ==
  /\ prev.state # "none" /\ cur.state \in {"RUNNING", "PAUSE"}
  /\ prev.layer <= 1 /\ cur.layer >= 2
=============================================================================
