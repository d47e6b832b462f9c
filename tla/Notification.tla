----------------------------- MODULE Notification -----------------------------
(***************************************************************************)
(* Notifications (internal/notification/service.go): activity entries are  *)
(* queued without waiting, gathered per printer for two seconds, and one   *)
(* worker sends a message per printer, each delivery waiting for a camera  *)
(* image and for the provider.                                             *)
(*                                                                         *)
(* An entry is its summary: "paused" is the one that notifies only beside  *)
(* an error or a warning, "told" stands for the others; an entry of a kind *)
(* that never notifies changes nothing.  The order of the lines, names and *)
(* images are left out.                                                    *)
(***************************************************************************)
EXTENDS Naturals, Sequences

CONSTANTS
  Machines,  \* the configured printers
  Waiting    \* cap(Service.events); 16 in the code

ASSUME NotificationAssumption == Waiting \in Nat \ {0}

VARIABLES
  troubled,         \* the printers whose view shows an error or a warning
  waiting,          \* Service.events
  batch,            \* pending of Run
  deadlines, past,  \* the printers with a deadline, those whose deadline passed
  courier, due,     \* where Run is, and the printers it still has to deliver
  message,          \* the message it delivers
  accepted,         \* history: queued summaries that no delivery has considered
  stopping          \* the context of Run has ended

notifyVars ==
  <<troubled, waiting, batch, deadlines, past, courier, due, message, accepted, stopping>>

Summaries == {"paused", "told"}
Entry == [printer : Machines, summary : Summaries]
Messages == [lines : BOOLEAN, summaries : SUBSET Summaries]
NoMessage == [lines |-> FALSE, summaries |-> {}]

NotifyTypes ==
  /\ {troubled, deadlines, past, due} \subseteq SUBSET Machines /\ past \subseteq deadlines
  /\ waiting \in Seq(Entry) /\ Len(waiting) <= Waiting
  /\ {batch, accepted} \subseteq [Machines -> SUBSET Summaries]
  /\ courier \in {"select", "deliver", "send", "ended"}
  /\ message \in Messages /\ stopping \in BOOLEAN

NotifyInit ==
  /\ troubled = {} /\ waiting = <<>> /\ batch = [p \in Machines |-> {}]
  /\ deadlines = {} /\ past = {} /\ courier = "select" /\ due = {} /\ message = NoMessage
  /\ accepted = [p \in Machines |-> {}] /\ stopping = FALSE
-----------------------------------------------------------------------------
(* Service.Observe; a full queue drops the entry.                          *)
Enqueue(p, s) ==
  /\ waiting' = Append(waiting, [printer |-> p, summary |-> s])
  /\ accepted' = [accepted EXCEPT ![p] = @ \cup {s}]

Offer(p, s) == IF Len(waiting) < Waiting THEN Enqueue(p, s) ELSE UNCHANGED <<waiting, accepted>>

Observe(p, s) ==
  /\ ~stopping /\ Offer(p, s)
  /\ UNCHANGED <<troubled, batch, deadlines, past, courier, due, message, stopping>>

Trouble(p) ==
  /\ ~stopping
  /\ troubled' = IF p \in troubled THEN troubled \ {p} ELSE troubled \cup {p}
  /\ UNCHANGED <<waiting, batch, deadlines, past, courier, due, message, accepted, stopping>>

Pass(p) ==
  /\ p \in deadlines \ past /\ ~stopping /\ past' = past \cup {p}
  /\ UNCHANGED <<troubled, waiting, batch, deadlines, courier, due, message, accepted, stopping>>

Shutdown ==
  /\ ~stopping /\ stopping' = TRUE
  /\ UNCHANGED <<troubled, waiting, batch, deadlines, past, courier, due, message, accepted>>
-----------------------------------------------------------------------------
(* Run: an entry joins its printer's batch; the first one opens it.        *)
Gather ==
  /\ courier = "select" /\ waiting # <<>>
  /\ LET e == Head(waiting) IN
       /\ deadlines' = IF batch[e.printer] = {} THEN deadlines \cup {e.printer} ELSE deadlines
       /\ batch' = [batch EXCEPT ![e.printer] = @ \cup {e.summary}]
  /\ waiting' = Tail(waiting)
  /\ UNCHANGED <<troubled, past, courier, due, message, accepted, stopping>>

(* Run: the timer fires; the printers due now are delivered in turn.       *)
Wake ==
  /\ courier = "select" /\ past # {}
  /\ courier' = "deliver" /\ due' = past
  /\ UNCHANGED <<troubled, waiting, batch, deadlines, past, message, accepted, stopping>>

\* Mutant: a delivery drops the batches of the others too.
ForgetAll(p) ==
  /\ batch' = [q \in Machines |-> {}]
  /\ deadlines' = {} /\ past' = {}

Forget(p) ==
  /\ batch' = [batch EXCEPT ![p] = {}]
  /\ deadlines' = deadlines \ {p} /\ past' = past \ {p}

(* What a batch tells: an unqualified pause is silent.                     *)
Told(p) == IF p \in troubled THEN batch[p] ELSE batch[p] \ {"paused"}

(* deliverBatch up to its waits.                                           *)
Deliver(p) ==
  /\ courier = "deliver" /\ p \in due /\ due' = due \ {p}
  /\ Forget(p)
  /\ IF stopping \/ Told(p) = {}
     THEN courier' = "deliver" /\ message' = NoMessage
     ELSE courier' = "send" /\ message' = [lines |-> p \in troubled, summaries |-> Told(p)]
  /\ accepted' = [accepted EXCEPT ![p] =
       @ \cap {waiting[i].summary : i \in {j \in DOMAIN waiting : waiting[j].printer = p}}]
  /\ UNCHANGED <<troubled, waiting, stopping>>

(* The image and the provider answer, or their 10 and 20 seconds pass.     *)
Send ==
  /\ courier = "send" /\ courier' = "deliver" /\ message' = NoMessage
  /\ UNCHANGED <<troubled, waiting, batch, deadlines, past, due, accepted, stopping>>

Delivered ==
  /\ courier = "deliver" /\ due = {} /\ courier' = "select"
  /\ UNCHANGED <<troubled, waiting, batch, deadlines, past, due, message, accepted, stopping>>

End ==
  /\ courier = "select" /\ stopping /\ courier' = "ended"
  /\ UNCHANGED <<troubled, waiting, batch, deadlines, past, due, message, accepted, stopping>>

NotifyNext ==
  \/ \E p \in Machines : \/ \E s \in Summaries : Observe(p, s)
                         \/ Trouble(p) \/ Pass(p) \/ Deliver(p)
  \/ Shutdown \/ Gather \/ Wake \/ Send \/ Delivered \/ End

NotifySpec == NotifyInit /\ [][NotifyNext]_notifyVars
-----------------------------------------------------------------------------
(* What the queue accepted is considered by a delivery before it is gone,  *)
(* however long the delivery of another printer takes: it waits in the     *)
(* queue, or in a batch that has a deadline (Service.Run).                 *)
NothingForgotten ==
  \A p \in Machines : \A s \in accepted[p] :
    \/ \E i \in DOMAIN waiting : waiting[i] = [printer |-> p, summary |-> s]
    \/ s \in batch[p] /\ p \in deadlines

(* A message about nothing but a pause names the problem it is sent for,   *)
(* and a printer is not delivered twice for one batch (deliverBatch).      *)
PauseIsQualified ==
  /\ courier = "send" => message.summaries # {} /\ (message.summaries = {"paused"} => message.lines)
  /\ \A p \in due : batch[p] # {}

Notified == NothingForgotten /\ PauseIsQualified
=============================================================================
