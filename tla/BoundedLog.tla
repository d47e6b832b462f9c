------------------------------- MODULE BoundedLog -------------------------------
(***************************************************************************)
(* What the activity log promises its readers (internal/activity): per     *)
(* printer, the newest Capacity entries, newest first, under IDs that      *)
(* always increase, across restarts too.  The ring buffer of ActivityLog   *)
(* implements this.                                                        *)
(***************************************************************************)
EXTENDS Naturals, Sequences

CONSTANTS Printers, Capacity

VARIABLES
  log,   \* log[p]: the entry IDs a reader of p is shown, newest first
  last   \* an upper bound of every ID ever given out

Newest(s) == SubSeq(s, 1, IF Len(s) < Capacity THEN Len(s) ELSE Capacity)

Empty == [p \in Printers |-> <<>>]

Init == log = Empty /\ last \in Nat

Record(p) ==
  /\ last' > last
  /\ log' = [log EXCEPT ![p] = Newest(<<last'>> \o @)]

(* A restart forgets the entries but not the order of the IDs.             *)
Restart ==
  /\ log' = Empty
  /\ last' >= last

Next == Restart \/ \E p \in Printers : Record(p)

Spec == Init /\ [][Next]_<<log, last>>
=============================================================================
