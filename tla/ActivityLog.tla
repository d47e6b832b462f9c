------------------------------- MODULE ActivityLog -------------------------------
(***************************************************************************)
(* The activity log (internal/activity/activity.go): one ring buffer per   *)
(* configured printer, one channel closed and replaced at every entry, and *)
(* readers that long-poll with the ID of the newest entry they have seen.  *)
(* Log.mu makes record, Recent and one turn of Wait's loop atomic; the     *)
(* observer is called after mu is released.  The process may restart: the  *)
(* rings start empty and the IDs start from the clock, while a reader      *)
(* keeps the ID it holds.  An entry is represented by its ID.              *)
(***************************************************************************)
EXTENDS Integers, Sequences

CONSTANTS
  Printers,  \* configured serials
  Serials,   \* serials that callers may name, configured or not
  Writers,   \* goroutines that record entries
  Readers,   \* clients of Wait
  Capacity,  \* entries kept per printer
  MaxClock   \* bound: microseconds in a behaviour

ASSUME LogAssumption ==
  /\ Printers \subseteq Serials
  /\ Capacity \in Nat \ {0}
  /\ MaxClock \in Nat

VARIABLES
  clock,    \* the process clock, in microseconds
  nextID,   \* Log.nextID: the last ID given out
  buf,      \* ring.buf
  next,     \* ring.next: the slot the next write of a full ring overwrites
  changed,  \* Log.changed: channels are numbered, the lower ones are closed
  notify,   \* notify[w]: the entry w recorded and has yet to give the observer
  polling,  \* polling[r]: where r's call of Wait is
  wanted,   \* wanted[r]: the serial of that call
  afterID,  \* afterID[r]: the newest ID r has been given, in this run or an earlier one
  wake      \* wake[r]: the channel that call has taken

logVars == <<clock, nextID, buf, next, changed, notify, polling, wanted, afterID, wake>>
rings == <<buf, next>>
calls == <<polling, wanted, afterID, wake>>

LogTypes ==
  /\ clock \in Nat /\ nextID \in Nat /\ changed \in Nat
  /\ buf \in [Printers -> Seq(Nat)] /\ \A p \in Printers : Len(buf[p]) <= Capacity
  /\ next \in [Printers -> 0 .. Capacity - 1]
  /\ notify \in [Writers -> Nat]
  /\ polling \in [Readers -> {"out", "look", "select"}]
  /\ wanted \in [Readers -> Serials]
  /\ afterID \in [Readers -> Nat]
  /\ wake \in [Readers -> Nat]

LogInit ==
  /\ clock = 0 /\ nextID = 0 /\ changed = 0
  /\ buf = [p \in Printers |-> <<>>]
  /\ next = [p \in Printers |-> 0]
  /\ notify = [w \in Writers |-> 0]
  /\ polling = [r \in Readers |-> "out"]
  /\ wanted \in [Readers -> Serials]
  /\ afterID = [r \in Readers |-> 0]
  /\ wake = [r \in Readers |-> 0]

-----------------------------------------------------------------------------
\* Mutant: counts back from the slot to be overwritten.
NewestFirstFromNext(p) ==
  LET len == Len(buf[p])
  IN  [i \in 1 .. len |-> buf[p][((next[p] - i + 1 + len) % len) + 1]]

(* ring.snapshot's walk over the ring, back from the slot before next.     *)
NewestFirst(p) ==
  LET len == Len(buf[p])
  IN  [i \in 1 .. len |-> buf[p][((next[p] - i + len) % len) + 1]]

(* Its positions with an ID above after: the entries it returns.           *)
Newer(p, after) == {i \in 1 .. Len(buf[p]) : NewestFirst(p)[i] > after}

(* Log.Recent; unknown serials have no entries.                            *)
Recent(s) == IF s \in Printers THEN NewestFirst(s) ELSE <<>>

Tick ==
  /\ clock < MaxClock
  /\ clock' = clock + 1
  /\ UNCHANGED <<nextID, rings, changed, notify, calls>>

(* The append or the overwrite of record().                                *)
Store(p, id) ==
  IF Len(buf[p]) < Capacity
  THEN /\ buf' = [buf EXCEPT ![p] = Append(@, id)]
       /\ UNCHANGED next
  ELSE /\ buf' = [buf EXCEPT ![p][next[p] + 1] = id]
       /\ next' = [next EXCEPT ![p] = (@ + 1) % Capacity]

\* Mutant: the channel is closed only where an entry overwrites another.
RecordWithoutWake(w, s) ==
  /\ notify[w] = 0
  /\ s \in Printers
  /\ nextID < clock
  /\ nextID' = nextID + 1
  /\ Store(s, nextID')
  /\ changed' = IF Len(buf[s]) < Capacity THEN changed ELSE changed + 1
  /\ notify' = [notify EXCEPT ![w] = nextID']
  /\ UNCHANGED <<clock, calls>>

(* record(): a printer is assumed to see less than one entry per           *)
(* microsecond, so that the IDs do not overtake the clock.  An unknown     *)
(* serial is ignored.                                                      *)
Record(w, s) ==
  /\ notify[w] = 0
  /\ s \in Printers
  /\ nextID < clock
  /\ nextID' = nextID + 1
  /\ Store(s, nextID')
  /\ changed' = changed + 1
  /\ notify' = [notify EXCEPT ![w] = nextID']
  /\ UNCHANGED <<clock, calls>>

(* The observer is given the entry outside the lock.                       *)
Tell(w) ==
  /\ notify[w] # 0
  /\ notify' = [notify EXCEPT ![w] = 0]
  /\ UNCHANGED <<clock, nextID, rings, changed, calls>>

-----------------------------------------------------------------------------
CallWait(r, s) ==
  /\ polling[r] = "out"
  /\ polling' = [polling EXCEPT ![r] = "look"]
  /\ wanted' = [wanted EXCEPT ![r] = s]
  /\ UNCHANGED <<clock, nextID, rings, changed, notify, afterID, wake>>

(* An unknown serial gets no entries, at once.                             *)
LookUnknown(r) ==
  /\ polling[r] = "look" /\ wanted[r] \notin Printers
  /\ polling' = [polling EXCEPT ![r] = "out"]
  /\ UNCHANGED <<clock, nextID, rings, changed, notify, wanted, afterID, wake>>

(* The entries are returned newest first; the reader keeps the first ID.   *)
LookAnswer(r) ==
  /\ polling[r] = "look" /\ wanted[r] \in Printers
  /\ \E first \in Newer(wanted[r], afterID[r]) :
       /\ \A i \in Newer(wanted[r], afterID[r]) : first <= i
       /\ afterID' = [afterID EXCEPT ![r] = NewestFirst(wanted[r])[first]]
  /\ polling' = [polling EXCEPT ![r] = "out"]
  /\ UNCHANGED <<clock, nextID, rings, changed, notify, wanted, wake>>

\* Mutant: the channel is taken after the lock is released and an entry recorded.
LookSleepLate(r) ==
  /\ polling[r] = "look" /\ wanted[r] \in Printers
  /\ Newer(wanted[r], afterID[r]) = {}
  /\ wake' = [wake EXCEPT ![r] = changed + 1]
  /\ polling' = [polling EXCEPT ![r] = "select"]
  /\ UNCHANGED <<clock, nextID, rings, changed, notify, wanted, afterID>>

(* No entry yet: the channel is taken under the same lock as the snapshot. *)
LookSleep(r) ==
  /\ polling[r] = "look" /\ wanted[r] \in Printers
  /\ Newer(wanted[r], afterID[r]) = {}
  /\ wake' = [wake EXCEPT ![r] = changed]
  /\ polling' = [polling EXCEPT ![r] = "select"]
  /\ UNCHANGED <<clock, nextID, rings, changed, notify, wanted, afterID>>

Woken(r) ==
  /\ polling[r] = "select" /\ wake[r] < changed
  /\ polling' = [polling EXCEPT ![r] = "look"]
  /\ UNCHANGED <<clock, nextID, rings, changed, notify, wanted, afterID, wake>>

(* The caller's context ends while Wait sleeps.                            *)
EndCall(r) ==
  /\ polling[r] = "select"
  /\ polling' = [polling EXCEPT ![r] = "out"]
  /\ UNCHANGED <<clock, nextID, rings, changed, notify, wanted, afterID, wake>>

Wait(r) == LookUnknown(r) \/ LookAnswer(r) \/ LookSleep(r) \/ Woken(r)

-----------------------------------------------------------------------------
\* Mutant: IDs start from zero in every run.
RebuildFromZero ==
  /\ nextID' = 0
  /\ buf' = [p \in Printers |-> <<>>]
  /\ next' = [p \in Printers |-> 0]
  /\ changed' = 0
  /\ notify' = [w \in Writers |-> 0]
  /\ polling' = [r \in Readers |-> "out"]
  /\ wake' = [r \in Readers |-> 0]
  /\ UNCHANGED <<clock, wanted, afterID>>

(* The process ends and New() builds the log again: calls of Wait end with *)
(* their connections, but a client keeps the ID it was last given.         *)
Rebuild ==
  /\ nextID' = clock
  /\ buf' = [p \in Printers |-> <<>>]
  /\ next' = [p \in Printers |-> 0]
  /\ changed' = 0
  /\ notify' = [w \in Writers |-> 0]
  /\ polling' = [r \in Readers |-> "out"]
  /\ wake' = [r \in Readers |-> 0]
  /\ UNCHANGED <<clock, wanted, afterID>>

LogNext ==
  \/ Tick
  \/ Rebuild
  \/ \E w \in Writers : Tell(w) \/ \E s \in Serials : Record(w, s)
  \/ \E r \in Readers : Wait(r) \/ EndCall(r) \/ \E s \in Serials : CallWait(r, s)

LogSpec == LogInit /\ [][LogNext]_logVars

(* A goroutine that has been woken is scheduled.                           *)
LogFairness == \A r \in Readers : WF_logVars(Wait(r))

-----------------------------------------------------------------------------
(* The rings show readers what the abstract log promises: wraparound,      *)
(* eviction and restart included.                                          *)
Promise == INSTANCE BoundedLog WITH log <- [p \in Printers |-> Recent(p)], last <- nextID
KeepsNewest == Promise!Spec

(* No lost wakeup: a reader asleep on the channel that the next entry will *)
(* close has not missed an entry it asked for.                             *)
NoLostWakeup ==
  \A r \in Readers :
    polling[r] = "select" /\ wake[r] = changed => Newer(wanted[r], afterID[r]) = {}

(* A cursor handed out by an earlier run never hides an entry of this one: *)
(* the next entry's ID is above every ID any reader holds.                 *)
CursorsBehind == \A r \in Readers : afterID[r] <= nextID

(* A reader that calls Wait while its printer has an entry for it returns. *)
CallAnswered(r) ==
  polling[r] # "out" /\ wanted[r] \in Printers /\ Newer(wanted[r], afterID[r]) # {}
    ~> polling[r] = "out"
EveryWaitAnswered == \A r \in Readers : CallAnswered(r)
=============================================================================
