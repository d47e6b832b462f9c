------------------------------ MODULE PlateCheck ------------------------------
(***************************************************************************)
(* The plate check of one printer (internal/platecheck service.go,         *)
(* layer.go, frames.go).  Reports are queued without waiting; the worker   *)
(* takes them one at a time, and a check of up to 25 seconds runs inside   *)
(* the handling of one report.  A check reads the printer's live document, *)
(* a queued report carries the document of its own time.                   *)
(*                                                                         *)
(* A layer of -1 is one the printer has not reported.  Scores, reasons,    *)
(* the chamber light and the activity entries are left out: what a failed  *)
(* capture, a failed request or an elapsed time limit leaves behind is the *)
(* same status, so each wait ends in a result or in "error".               *)
(***************************************************************************)
EXTENDS Integers, Sequences, PrintEvents

CONSTANTS
  Reported,     \* the gcode states the printer reports
  Numbers,      \* bound: the layer numbers it reports
  QueueCap,     \* cap(worker.events); 64 in the code
  FirstLayerOn  \* settings.FirstLayer.On()

ASSUME PlateAssumption ==
  /\ Reported \subseteq States \ {"none"}
  /\ Numbers \subseteq Nat /\ 0 \in Numbers
  /\ QueueCap \in Nat \ {0} /\ FirstLayerOn \in BOOLEAN

VARIABLES
  doc, online, \* the store's document and connectivity of the printer
  attached,    \* no print has begun since the proxy started
  live,        \* history: what the live print was given, and how it began
  queue,       \* worker.events
  w,           \* the worker's fields
  pc, event,   \* where the worker is, and the event it handles
  pass,        \* the check it runs: startup, homing, layer or its retry
  at,          \* the layer it read from the live document
  cancelled    \* the context of Run

env == <<doc, online, attached>>
vars == <<doc, online, attached, live, queue, w, pc, event, pass, at, cancelled>>

Unknown == -1
Layers == Numbers \cup {Unknown}
Docs == [state : Reported \cup {"none"}, layer : Layers, homing : BOOLEAN]
NoDoc == [state |-> "none", layer |-> Unknown, homing |-> FALSE]

(* printer.Event: of Prev the worker reads only whether it is PREPARE.     *)
Kinds == {"link", "state_initial", "print_preparing", "print_started", "first_layer_complete"}
Events == [kinds : SUBSET Kinds, new : BOOLEAN, prepare : BOOLEAN, cur : Docs]
LinkEvent == [kinds |-> {"link"}, new |-> FALSE, prepare |-> FALSE, cur |-> NoDoc]
EventOf(prev, cur) ==
  [kinds |-> (IF StateInitial(prev, cur) THEN {"state_initial"} ELSE {})
               \cup (IF PrintPreparing(prev, cur) THEN {"print_preparing"} ELSE {})
               \cup (IF PrintStarted(prev, cur) THEN {"print_started"} ELSE {})
               \cup (IF FirstLayerComplete(prev, cur) THEN {"first_layer_complete"} ELSE {}),
   new |-> NewJob(prev, cur), prepare |-> prev.state = "PREPARE", cur |-> cur]

(* pendingCommand: its layer is a number even when none was reported, so   *)
(* Unknown stands for the nil pointer.                                     *)
Known(layer) == IF layer = Unknown THEN 0 ELSE layer
NoStop == [layer |-> Unknown, prepare |-> FALSE]

Passes == {"startup", "homing", "retry", "layer"}
LayerPasses == {"retry", "layer"}
Unstarted == [pass1 |-> FALSE, seen |-> FALSE, homing |-> FALSE, stopSent |-> FALSE,
              pending |-> NoStop, paused |-> Unknown, retryAt |-> "none", status |-> "idle",
              first |-> IF FirstLayerOn THEN "idle" ELSE "disabled", pause |-> "none"]
Worker == [pass1 : BOOLEAN, seen : BOOLEAN, homing : BOOLEAN, stopSent : BOOLEAN,
           pending : [layer : Layers, prepare : BOOLEAN], paused : Layers,
           retryAt : {"none", "later", "due"},
           status : {"idle", "checking", "continued", "would_stop", "stop_requested", "stop_failed",
                     "stopped", "stop_unconfirmed"},
           first : {"disabled", "idle", "checking", "continued", "pause"},
           pause : {"none", "pending", "confirmed", "failed", "unconfirmed"}]

(* The stops sent and the first-layer checks begun on the reports of the   *)
(* live print; how many earlier reports the worker has yet to finish; and  *)
(* whether the queue took the first report of the print.                   *)
Live == [stops : 0 .. 3, checks : 0 .. 3, \* bound: counted to 3
         late : 0 .. QueueCap + 1, queued : BOOLEAN]
NoneSent(late, queued) == [stops |-> 0, checks |-> 0, late |-> late, queued |-> queued]
Count(n, happens) == IF happens /\ n < 3 THEN n + 1 ELSE n

(* The types; pass and at are meaningful inside a check only.              *)
TypeOK ==
  /\ doc \in Docs /\ queue \in Seq(Events) /\ Len(queue) <= QueueCap
  /\ w \in Worker /\ event \in Events /\ pass \in Passes \cup {"none"} /\ at \in Layers
  /\ pc \in {"receive", "wait", "verdict", "send", "ended"}
  /\ {online, attached, cancelled} \subseteq BOOLEAN /\ live \in Live

(* The link is up and the worker has taken its event before the printer's  *)
(* first report, which is a full one.                                      *)
Init ==
  /\ doc = NoDoc /\ online = TRUE /\ attached = TRUE /\ live = NoneSent(0, TRUE)
  /\ queue = <<>> /\ w = Unstarted
  /\ pc = "receive" /\ event = LinkEvent /\ pass = "none" /\ at = Unknown
  /\ cancelled = FALSE
-----------------------------------------------------------------------------
(* Service.observe: a full queue drops the event.                          *)
Observe(e) ==
  queue' = IF Len(queue) < QueueCap THEN Append(queue, e) ELSE queue

(* The documents a printer's report may lead to: the first one shows any   *)
(* state; PREPARE and SLICING keep the layer of the print before; RUNNING  *)
(* starts at layer 0 and only climbs; the homing stages come early.        *)
Successors(d) ==
  {n \in Docs :
     /\ n.state # "none"
     /\ n.homing => n.state = "PREPARE"
     /\ d.state # "none" =>
          \/ n.state \in {"IDLE", "PAUSE"} /\ n.layer = d.layer
          \/ n.state \in Preparing /\ d.state \in Preparing \cup {"IDLE"} /\ n.layer = d.layer
          \/ n.state = "RUNNING" /\ d.state \in {"RUNNING", "PAUSE"} /\ n.layer >= d.layer
          \/ n.state = "RUNNING" /\ d.state \in Preparing \cup {"IDLE"} /\ n.layer = 0
          \/ n = d
     /\ n.state = "PAUSE" => d.state \in {"none", "RUNNING", "PAUSE"}}

(* After the shutdown began no report changes what the worker does.        *)
Settled == ~cancelled

Report ==
  /\ Settled
  /\ \E n \in Successors(doc) :
    /\ doc' = n
    /\ attached' = (attached /\ ~NewJob(doc, n))
    /\ live' = IF NewJob(doc, n)
                 THEN NoneSent(Len(queue) + (IF pc = "receive" THEN 0 ELSE 1), Len(queue) < QueueCap)
               ELSE live
    /\ Observe(EventOf(doc, n))
    /\ UNCHANGED <<online, w, pc, event, pass, at, cancelled>>

(* Store.SetOnline.                                                        *)
LinkChanges ==
  /\ doc.state # "none" /\ Settled
  /\ online' = ~online
  /\ Observe(LinkEvent)
  /\ UNCHANGED <<doc, attached, live, w, pc, event, pass, at, cancelled>>

(* layerRetryDelay passes.                                                 *)
Elapse ==
  /\ w.retryAt = "later" /\ Settled
  /\ w' = [w EXCEPT !.retryAt = "due"]
  /\ UNCHANGED <<env, live, queue, pc, event, pass, at, cancelled>>

(* Nobody takes an event after it.                                         *)
Cancel ==
  /\ ~cancelled /\ cancelled' = TRUE /\ queue' = <<>>
  /\ UNCHANGED <<env, live, w, pc, event, pass, at>>
-----------------------------------------------------------------------------
\* Mutant: a stop is repeated wherever it was sent.
ResendsAnyStop(v, e) ==
  v.pending # NoStop /\ e.prepare /\ e.cur.state = "RUNNING"

(* worker.resolve: does this report repeat a stop sent during PREPARE?     *)
Resends(v, e) ==
  /\ v.pending # NoStop /\ v.pending.prepare
  /\ e.prepare /\ e.cur.state = "RUNNING"

Resolve(v, e, ok) ==
  LET past(layer) == e.cur.state = "RUNNING" /\ e.cur.layer > layer
      stop == IF v.pending = NoStop THEN v
              ELSE IF e.cur.state \in {"PAUSE", "IDLE"}
                THEN [v EXCEPT !.status = "stopped", !.pending = NoStop]
              ELSE IF Resends(v, e)
                THEN [v EXCEPT !.status = IF ok THEN "stop_requested" ELSE "stop_failed",
                               !.pending = [layer |-> Known(doc.layer), prepare |-> FALSE]]
              ELSE IF past(v.pending.layer)
                THEN [v EXCEPT !.status = "stop_unconfirmed", !.pending = NoStop]
              ELSE v
  IN  IF v.paused = Unknown THEN stop
      ELSE IF e.cur.state = "PAUSE"
        THEN [stop EXCEPT !.pause = "confirmed", !.paused = Unknown]
      ELSE IF past(v.paused)
        THEN [stop EXCEPT !.pause = "unconfirmed", !.paused = Unknown]
      ELSE stop

(* A new print clears every finding and outstanding command.               *)
Reset(v, e) == IF e.new THEN Unstarted ELSE v

\* Mutant: the checks of an attached print are left open.
AttachWithoutPasses(v, e) ==
  IF "state_initial" \notin e.kinds \/ e.cur.state = "IDLE" THEN v
  ELSE [v EXCEPT !.status = "continued"]

(* Attaching to a print admits no startup check of it.                     *)
Attach(v, e) ==
  IF "state_initial" \notin e.kinds THEN v
  ELSE [v EXCEPT !.pass1 = TRUE, !.homing = TRUE,
                 !.status = IF e.cur.state = "IDLE" THEN @ ELSE "continued"]

Stage(v, e) == [v EXCEPT !.seen = @ \/ e.cur.homing]

(* worker.startupReason: may the live print still be stopped at its start? *)
AtStart ==
  /\ online
  /\ \/ doc.state \in Preparing
     \/ doc.state = "RUNNING" /\ doc.layer = 0

(* layerLiveReason: may the live print still be paused?                    *)
MayPause(p) == online /\ doc.state = "RUNNING" /\ (p = "retry" => doc.layer = 2)

May(p) == IF p \in LayerPasses THEN MayPause(p) ELSE AtStart

\* Mutant: the first read decides.
StillMayAsRead(p) == TRUE

(* The same question when the verdict asks for a command.                  *)
StillMay(p) == May(p) /\ ~cancelled

(* skipPass and layerCheckSkip: a retry keeps the earlier findings.        *)
Skipped(v, p) ==
  IF p = "retry" THEN v
  ELSE IF p = "layer" THEN [v EXCEPT !.first = "continued", !.pause = "none"]
  ELSE [v EXCEPT !.status = "continued"]

(* The first read of worker.check and worker.checkLayer: where a check     *)
(* waits, and the fields; "none" is no check.                              *)
Begun(v, p) ==
  [waits |-> p,
   v |-> IF p = "retry" THEN v
         ELSE IF p = "layer" THEN [v EXCEPT !.first = "checking", !.pause = "none"]
         ELSE [v EXCEPT !.status = "checking"]]

(* worker.handle from one of its checks on: each condition either starts   *)
(* its check, which waits or is skipped at once, or gives way to the next. *)
FromLayer(v, e) ==
  IF "first_layer_complete" \notin e.kinds \/ ~FirstLayerOn THEN [waits |-> "none", v |-> v]
  ELSE IF v.stopSent \/ ~May("layer") THEN [waits |-> "none", v |-> Skipped(v, "layer")]
  ELSE Begun(v, "layer")

FromRetry(v, e) ==
  LET inLayer2 == e.cur.state = "RUNNING" /\ e.cur.layer = 2
      over == [v EXCEPT !.retryAt = "none"]
  IN  IF ~inLayer2 THEN FromLayer(over, e)
      ELSE IF v.retryAt # "due" THEN FromLayer(v, e)
      ELSE IF May("retry") THEN Begun(over, "retry")
      ELSE FromLayer(over, e)

PastStart(d) == d.layer > 0 /\ d.state \notin Preparing

\* Mutant: the second check runs after a stop too.
AwaitsHomingAfterStop(v) == v.seen /\ v.pass1 /\ ~v.homing

AwaitsHoming(v) == v.seen /\ v.pass1 /\ ~v.homing /\ ~v.stopSent

FromHoming(v, e) ==
  LET over == [v EXCEPT !.homing = TRUE] IN
  IF ~AwaitsHoming(v) THEN FromRetry(v, e)
  ELSE IF PastStart(e.cur) THEN FromRetry(Skipped(over, "homing"), e)
  ELSE IF e.cur.state # "RUNNING" \/ e.cur.layer # 0 THEN FromRetry(v, e)
  ELSE IF May("homing") THEN Begun(over, "homing")
  ELSE FromRetry(Skipped(over, "homing"), e)

FromStartup(v, e) ==
  LET over == [v EXCEPT !.pass1 = TRUE] IN
  IF v.pass1 \/ e.kinds \cap {"print_preparing", "print_started"} = {} THEN FromHoming(v, e)
  ELSE IF May("startup") THEN Begun(over, "startup")
  ELSE FromHoming(Skipped(over, "startup"), e)

(* What is left of the handling of e once the check p is over.             *)
Rest(p, v, e) ==
  IF p = "startup" THEN FromHoming(v, e)
  ELSE IF p = "homing" THEN FromRetry(v, e)
  ELSE IF p = "retry" THEN FromLayer(v, e)
  ELSE [waits |-> "none", v |-> v]

(* What Rest reads of e.                                                   *)
StillRead(p, e) ==
  IF p \in {"none", "layer"} THEN LinkEvent
  ELSE [LinkEvent EXCEPT !.kinds = e.kinds \cap {"first_layer_complete"},
                         !.cur = [NoDoc EXCEPT !.state = e.cur.state, !.layer = e.cur.layer]]

(* What a step adds to the history of the live print: a stop it sent, and  *)
(* the check it waits for, unless it handles a report of an earlier print. *)
Counted(sent, waits) ==
  live' = IF live.late > 0
            THEN [live EXCEPT !.late = IF waits = "none" THEN @ - 1 ELSE @]
          ELSE [live EXCEPT !.stops = Count(@, sent), !.checks = Count(@, waits \in LayerPasses)]

(* The worker runs on to its next wait, for a check or for an event; sent  *)
(* tells whether it sent a stop on the way.                                *)
RunOn(next, e, sent) ==
  /\ Counted(sent, next.waits)
  /\ w' = next.v
  /\ pc' = IF next.waits = "none" THEN "receive" ELSE "wait"
  /\ pass' = next.waits
  /\ event' = StillRead(next.waits, e)
  /\ at' = IF next.waits = "layer" THEN doc.layer ELSE Unknown

Leave(v) == RunOn(Rest(pass, v, event), event, FALSE)
-----------------------------------------------------------------------------
(* worker.run takes an event; a link event is none of its business.        *)
Receive ==
  /\ pc = "receive" /\ ~cancelled /\ queue # <<>>
  /\ LET e == Head(queue) IN
       \/ "link" \in e.kinds /\ Counted(FALSE, "none") /\ UNCHANGED <<w, event, pc, pass, at>>
       \/ /\ "link" \notin e.kinds
          /\ \E ok \in BOOLEAN :
               RunOn(FromStartup(Stage(Attach(Reset(Resolve(w, e, ok), e), e), e), e), e,
                     Resends(w, e))
  /\ queue' = Tail(queue)
  /\ UNCHANGED <<env, cancelled>>

(* A check waits for one image or two and for the provider's answer; the   *)
(* waits are bounded, and what ends one early is an error of the check.    *)
Fail ==
  /\ pc = "wait"
  /\ Leave(Skipped(w, pass))
  /\ UNCHANGED <<env, queue, cancelled>>

(* The provider's answer, classified: only a stop or a pause goes on.      *)
Judge ==
  /\ pc = "wait" /\ pass \notin LayerPasses
  /\ \/ Leave([w EXCEPT !.status = "continued"])
     \/ /\ pc' = "verdict" /\ w' = [w EXCEPT !.status = "would_stop"]
        /\ UNCHANGED <<live, event, pass, at>>
  /\ UNCHANGED <<env, queue, cancelled>>

\* Mutant: a retry may be retried.
RetriesAgain(limited) == limited

Retries(limited) == pass = "layer" /\ limited /\ at = 2

JudgeLayer ==
  /\ pc = "wait" /\ pass \in LayerPasses
  /\ \E limited \in BOOLEAN :
       \/ Leave([w EXCEPT !.first = "continued", !.pause = "none",
                          !.retryAt = IF Retries(limited) THEN "later" ELSE @])
       \/ ~limited /\ pc' = "verdict" /\ UNCHANGED <<live, w, event, pass, at>>
  /\ UNCHANGED <<env, queue, cancelled>>

(* The live document is read again; the check may have run out of time.    *)
Recheck ==
  /\ pc = "verdict"
  /\ \/ Leave(Skipped(w, pass))
     \/ /\ StillMay(pass)
        /\ pc' = "send" /\ at' = IF pass \in LayerPasses THEN doc.layer ELSE at
        /\ w' = IF pass \in LayerPasses THEN [w EXCEPT !.first = "pause", !.pause = "none"]
                ELSE [w EXCEPT !.stopSent = TRUE,
                               !.pending = [layer |-> Known(doc.layer),
                                            prepare |-> doc.state = "PREPARE"]]
        /\ UNCHANGED <<live, event, pass>>
  /\ UNCHANGED <<env, queue, cancelled>>

(* sendStop and commands.Pause: the command is sent, or refused at once.   *)
SendStop ==
  /\ pc = "send" /\ pass \notin LayerPasses
  /\ \E ok \in BOOLEAN :
       LET v == [w EXCEPT !.status = IF ok THEN "stop_requested" ELSE "stop_failed"] IN
         RunOn(Rest(pass, v, event), event, TRUE)
  /\ UNCHANGED <<env, queue, cancelled>>

SendPause ==
  /\ pc = "send" /\ pass \in LayerPasses
  /\ \E ok \in BOOLEAN :
       Leave(IF ok THEN [w EXCEPT !.paused = Known(at), !.pause = "pending"]
             ELSE [w EXCEPT !.pause = "failed"])
  /\ UNCHANGED <<env, queue, cancelled>>

(* The worker sees the cancelled context.                                  *)
End ==
  /\ pc = "receive" /\ cancelled /\ pc' = "ended"
  /\ UNCHANGED <<env, live, queue, w, event, pass, at, cancelled>>
-----------------------------------------------------------------------------
Work == \/ Receive \/ Fail \/ Judge \/ JudgeLayer \/ Recheck \/ SendStop \/ SendPause \/ End
Next == Report \/ LinkChanges \/ Elapse \/ Cancel \/ Work
Spec == Init /\ [][Next]_vars
-----------------------------------------------------------------------------
(* The reports of a print lead to one stop, and to a second only as the    *)
(* repeat of a stop sent during PREPARE, on the report that it now runs:   *)
(* whatever reports the queue dropped, its first one included, and         *)
(* whichever checks ran (service.go, worker.check and worker.resolve).     *)
StopsOnce ==
  [][live'.stops > live.stops =>
       \/ live.stops = 0
       \/ live.stops = 1 /\ w.pending.prepare /\ ~w'.pending.prepare]_vars

(* A print under way when the proxy starts is never stopped, although its  *)
(* later reports look like those of a print that begins (worker.handle,    *)
(* state_initial).                                                         *)
AttachedNotStopped == [][live'.stops > live.stops => ~attached]_vars

(* A command is decided only while the live printer is where the command   *)
(* makes sense, although reports moved it on during the check: a stop at   *)
(* the start of a print, a pause while it prints, neither after the        *)
(* shutdown (worker.check and worker.checkLayer read the document again).  *)
CommandsFit ==
  [][/\ ~w.stopSent /\ w'.stopSent => AtStart /\ ~cancelled
     /\ w.first # "pause" /\ w'.first = "pause" => online /\ doc.state = "RUNNING" /\ ~cancelled]_vars

(* The page says that a stop awaits its confirmation exactly as long as    *)
(* the worker awaits it: no check that runs on, and no skipped one, hides  *)
(* an unresolved stop, and none is resolved twice (worker.status and       *)
(* worker.pending).                                                        *)
StopShown ==
  /\ w.status = "stop_requested" => w.pending # NoStop
  /\ w.pending # NoStop =>
       \/ w.status \in {"stop_requested", "stop_failed"}
       \/ w.status = "would_stop" /\ pc = "send"

(* The reports of a print whose first one the queue took lead to one check *)
(* of its first layer and one retry: however long the checks take, and     *)
(* whatever is left from the print before (worker.handle, layerRetryAt).   *)
OneRetry == live.queued => live.checks <= 2

(* The same of every print: "Each job gets at most one first-layer check   *)
(* plus that one retry" (src/README.md:478).                               *)
OneRetryPerJob == live.checks <= 2

=============================================================================
