------------------------------- MODULE JobPreview -------------------------------
(***************************************************************************)
(* The archive preview of one printer (internal/jobpreview/service.go):    *)
(* reports reach Run through a bounded queue, Run starts a fetch worker    *)
(* for a new selection and cancels the one before, and a worker retries    *)
(* three times before it gives up.  The store's document moves on while    *)
(* events wait and workers fetch.  A key is the archive() selection of a   *)
(* document; NoKey is that of a document without selectors.                *)
(***************************************************************************)
EXTENDS Naturals, Sequences, PrintEvents

CONSTANTS
  Keys, NoKey, \* archive selections
  Nil,         \* no entry in a map
  QueueCap,    \* cap(events)
  MaxAttempts, \* fetches of a worker
  MaxReports,  \* bound: reports that change the document
  MaxWorkers   \* bound: workers started

ASSUME PreviewAssumption ==
  /\ NoKey \in Keys /\ Nil \notin Keys
  /\ QueueCap \in Nat \ {0} /\ MaxAttempts \in Nat \ {0}
  /\ MaxReports \in Nat /\ MaxWorkers \in Nat

VARIABLES
  doc,       \* the store's document: its selection and gcode_state
  reports,   \* reports so far
  events,    \* Service.events
  run,       \* where Run is; "spawn" between its two critical sections
  current,   \* the document of the event Run is at
  keys,      \* keys[serial], or Nil
  latest,    \* the worker that cancels[serial] cancels, or 0
  pending,   \* Service.pending[serial], or Nil
  entry,     \* the key of Service.entries[serial], or Nil
  started,   \* workers started so far
  worker,    \* worker[w]: where worker w is
  fetching,  \* fetching[w]: its key
  attempt,   \* attempt[w]: its attempt
  failed,    \* failed[w]: that attempt failed
  cancelled  \* workers whose context is cancelled

vars == <<doc, reports, events, run, current, keys, latest, pending, entry, started,
          worker, fetching, attempt, failed, cancelled>>
store == <<doc, reports, events>>
loop == <<run, current, keys, latest>>
work == <<started, worker, fetching, attempt, failed, cancelled>>

Workers == 1 .. MaxWorkers
Docs == [key : Keys, state : States]

(* The document before the first report.                                   *)
NoDoc == [key |-> NoKey, state |-> "none"]

(* Where a running worker can be.                                          *)
Busy == {"fetch", "ctx", "doc", "accept", "wait", "giveUp"}

TypeOK ==
  /\ doc \in Docs /\ reports \in 0 .. MaxReports
  /\ events \in Seq([prev : Docs, cur : Docs]) /\ Len(events) <= QueueCap
  /\ run \in {"select", "spawn", "stopping", "done"} /\ current \in Docs
  /\ {keys, pending, entry} \subseteq Keys \cup {Nil}
  /\ latest \in 0 .. MaxWorkers /\ started \in 0 .. MaxWorkers
  /\ worker \in [Workers -> Busy \cup {"none", "done"}]
  /\ fetching \in [Workers -> Keys]
  /\ attempt \in [Workers -> 0 .. MaxAttempts] /\ failed \in [Workers -> BOOLEAN]
  /\ cancelled \subseteq Workers

Init ==
  /\ doc = NoDoc /\ reports = 0 /\ events = <<>>
  /\ run = "select" /\ current = NoDoc /\ keys = Nil /\ latest = 0
  /\ pending = Nil /\ entry = Nil
  /\ started = 0 /\ cancelled = {}
  /\ worker = [w \in Workers |-> "none"]
  /\ fetching = [w \in Workers |-> NoKey]
  /\ attempt = [w \in Workers |-> 0]
  /\ failed = [w \in Workers |-> FALSE]

-----------------------------------------------------------------------------
Active(d) == d.state \in {"PREPARE", "RUNNING", "PAUSE"}

(* Run's trigger: a new job, the first state seen, or another selection.   *)
Triggers(e) ==
  \/ NewJob(e.prev, e.cur)
  \/ Active(e.cur) /\ (StateInitial(e.prev, e.cur) \/ e.prev.key # e.cur.key)

(* Store.Apply and the subscriber: an event that finds the queue full is   *)
(* dropped.                                                                *)
Report(d) ==
  /\ reports < MaxReports /\ d # doc /\ d.state # "none"
  /\ reports' = reports + 1
  /\ doc' = d
  /\ events' = IF Len(events) < QueueCap THEN Append(events, [prev |-> doc, cur |-> d]) ELSE events
  /\ UNCHANGED <<loop, pending, entry, work>>

-----------------------------------------------------------------------------
(* One turn of Run up to its look at pending.                              *)
Dispatch ==
  /\ run = "select" /\ events # <<>>
  /\ LET e == Head(events)
         moved == keys \notin {Nil, e.cur.key}
     IN  /\ current' = e.cur
         /\ run' = IF Triggers(e) /\ pending # e.cur.key THEN "spawn" ELSE "select"
         /\ keys' = IF moved THEN Nil ELSE keys
         /\ cancelled' = IF moved THEN cancelled \cup {latest} ELSE cancelled
  /\ events' = Tail(events)
  /\ UNCHANGED <<doc, reports, latest, pending, entry, started, worker, fetching, attempt, failed>>

(* The rest of it: the worker is announced as pending and started.         *)
Spawn ==
  /\ run = "spawn" /\ started < MaxWorkers
  /\ run' = "select"
  /\ started' = started + 1
  /\ latest' = started'
  /\ keys' = current.key
  /\ pending' = current.key
  /\ worker' = [worker EXCEPT ![started'] = "fetch"]
  /\ fetching' = [fetching EXCEPT ![started'] = current.key]
  /\ attempt' = [attempt EXCEPT ![started'] = 1]
  /\ UNCHANGED <<store, current, entry, failed, cancelled>>

(* The module's context ends, and with it every worker's.                  *)
Stop ==
  /\ run = "select"
  /\ run' = "stopping"
  /\ cancelled' = Workers
  /\ UNCHANGED <<store, current, keys, latest, pending, entry, started, worker, fetching, attempt, failed>>

\* Mutant: Run does not wait for its workers.
JoinNone ==
  /\ run = "stopping"
  /\ run' = "done"
  /\ UNCHANGED <<store, current, keys, latest, pending, entry, work>>

Join ==
  /\ run = "stopping" /\ \A w \in Workers : worker[w] \notin Busy
  /\ run' = "done"
  /\ UNCHANGED <<store, current, keys, latest, pending, entry, work>>

-----------------------------------------------------------------------------
Move(w, from, to) ==
  /\ worker[w] = from
  /\ worker' = [worker EXCEPT ![w] = to]

(* fetch returns; a cancelled one may still have succeeded.                *)
Fetched(w) ==
  /\ Move(w, "fetch", "ctx")
  /\ \E f \in BOOLEAN : failed' = [failed EXCEPT ![w] = f]
  /\ UNCHANGED <<store, loop, pending, entry, started, fetching, attempt, cancelled>>

(* The check of the context.                                               *)
CheckContext(w) ==
  /\ Move(w, "ctx", IF w \in cancelled THEN "done" ELSE "doc")
  /\ UNCHANGED <<store, loop, pending, entry, started, fetching, attempt, failed, cancelled>>

(* The check of the store's document: a result for another selection is    *)
(* discarded.                                                              *)
CheckDoc(w) ==
  /\ Move(w, "doc", CASE doc.key # fetching[w] -> "done"
                      [] doc.key = fetching[w] /\ ~failed[w] -> "accept"
                      [] doc.key = fetching[w] /\ failed[w] /\ attempt[w] < MaxAttempts -> "wait"
                      [] OTHER -> "giveUp")
  /\ UNCHANGED <<store, loop, pending, entry, started, fetching, attempt, failed, cancelled>>

(* The result is published and the selection no longer pending.            *)
Accept(w) ==
  /\ Move(w, "accept", "done")
  /\ entry' = fetching[w]
  /\ pending' = Nil
  /\ UNCHANGED <<store, loop, started, fetching, attempt, failed, cancelled>>

\* Mutant: the retry timer is not selected on.
RetryWhenCancelled(w) ==
  /\ w \in cancelled /\ Move(w, "wait", "done")
  /\ UNCHANGED <<store, loop, pending, entry, started, fetching, attempt, failed, cancelled>>

(* The wait between attempts.                                              *)
Retry(w) ==
  /\ \/ w \in cancelled /\ Move(w, "wait", "done") /\ UNCHANGED attempt
     \/ Move(w, "wait", "fetch") /\ attempt' = [attempt EXCEPT ![w] = @ + 1]
  /\ UNCHANGED <<store, loop, pending, entry, started, fetching, failed, cancelled>>

GiveUp(w) ==
  /\ Move(w, "giveUp", "done")
  /\ pending' = Nil
  /\ UNCHANGED <<store, loop, entry, started, fetching, attempt, failed, cancelled>>

Retrieve(w) ==
  Fetched(w) \/ CheckContext(w) \/ CheckDoc(w) \/ Accept(w) \/ Retry(w) \/ GiveUp(w)

-----------------------------------------------------------------------------
Next ==
  \/ \E d \in Docs : Report(d)
  \/ Dispatch \/ Spawn \/ Stop \/ Join
  \/ \E w \in Workers : Retrieve(w)

Spec == Init /\ [][Next]_vars

(* Run and its workers are scheduled and a fetch ends: its context has a   *)
(* deadline.  Nothing has to be reported or stopped.                       *)
FairSpec ==
  /\ Spec
  /\ WF_vars(Dispatch \/ Spawn) /\ WF_vars(Join)
  /\ \A w \in Workers : WF_vars(Retrieve(w))

-----------------------------------------------------------------------------
(* A started worker ends, in success, discarded or after its last attempt; *)
(* so does Run after its context, having joined every one of them.         *)
WorkersEnd ==
  /\ \A w \in Workers : worker[w] = "fetch" ~> worker[w] = "done"
  /\ run = "stopping" ~> run = "done"

(* Once Run has returned, no worker publishes a result.                    *)
JoinedAtReturn == run = "done" => \A w \in Workers : worker[w] \notin Busy

(* Service.pending: ongoing retrieval selections.  When Run is at rest and *)
(* no worker is, no selection is pending.                                  *)
PendingIsOngoing ==
  events = <<>> /\ run = "select" /\ (\A w \in Workers : worker[w] \notin Busy) => pending = Nil
=============================================================================
