--------------------------- MODULE PlateCheck_proofs ---------------------------
(***************************************************************************)
(* Theorems about PlateCheck for every set of layer numbers and states the *)
(* printer may report, every capacity of the queue, with and without the   *)
(* check of the first layer.                                               *)
(***************************************************************************)
EXTENDS PlateCheck, TLAPS

(* What each field of the worker says of the others: a stop awaits its     *)
(* confirmation after one was sent only, and one was sent after the        *)
(* startup check was decided only.                                         *)
Sound(v) ==
  /\ v \in Worker
  /\ v.pending # NoStop => v.stopSent
  /\ v.stopSent => v.pass1

(* Outside the sending of a stop: StopShown.                               *)
Shown(v) ==
  /\ v.status = "stop_requested" => v.pending # NoStop
  /\ v.pending # NoStop => v.status \in {"stop_requested", "stop_failed"}

Good(v) == Sound(v) /\ Shown(v)

(* The checks of a print's start run before any stop was sent.             *)
StartPasses == {"startup", "homing"}

InPass ==
  /\ pc \in {"receive", "ended"} => pass = "none" /\ Good(w)
  /\ pc = "wait" =>
       /\ pass \in Passes /\ Good(w)
       /\ pass \in StartPasses => ~w.stopSent /\ w.pass1
  /\ pc = "verdict" =>
       /\ pass \in Passes /\ Good(w)
       /\ pass \in StartPasses => ~w.stopSent /\ w.pass1 /\ w.status = "would_stop"
  /\ pc = "send" =>
       /\ pass \in Passes /\ Sound(w)
       /\ pass \in StartPasses => w.pending # NoStop /\ w.status = "would_stop"
       /\ pass \in LayerPasses => Good(w)

(* The printer's first report is the first event of a worker that has seen *)
(* none, and no other event has its kind.                                  *)
FirstIsFirst ==
  /\ doc.state = "none" => queue = <<>> /\ w = Unstarted /\ pc \in {"receive", "ended"}
  /\ \A i \in 1 .. Len(queue) :
       "state_initial" \in queue[i].kinds =>
         /\ i = 1 /\ w = Unstarted /\ pc \in {"receive", "ended"}
         /\ "link" \notin queue[i].kinds

(* Before a print has begun no stop was sent and none can be: the checks   *)
(* of the start are closed, or the event that closes them comes next.      *)
NoneBegun ==
  attached =>
    /\ w.pending = NoStop /\ ~w.stopSent /\ pass \notin StartPasses
    /\ \A i \in 1 .. Len(queue) : ~queue[i].new
    /\ \/ cancelled \/ doc.state = "none"
       \/ queue # <<>> /\ "state_initial" \in queue[1].kinds
       \/ w.pass1 /\ w.homing

IInv == TypeOK /\ InPass /\ FirstIsFirst /\ NoneBegun

(* Below IInv, the history of the live print.  A worker that handles a     *)
(* report has one of those that live.late counts in its hands, if any; the *)
(* others are the first Ahead events of the queue.                         *)
InHand == pc \notin {"receive", "ended"}
Ahead == IF InHand THEN live.late - 1 ELSE live.late

(* A report of a new job comes before every other report of the print, and *)
(* nothing was sent on the reports of a print before it is handled.  It is *)
(* there, behind the late ones, if the queue took it.                      *)
Order ==
  /\ pc = "ended" => cancelled
  /\ ~cancelled => Ahead <= Len(queue)
  /\ live.late > 0 => live.stops = 0 /\ live.checks = 0
  /\ \A i \in 1 .. Len(queue) :
       queue[i].new => /\ i <= Ahead + 1
                       /\ ~queue[i].prepare /\ "link" \notin queue[i].kinds
                       /\ live.stops = 0 /\ live.checks = 0
  /\ live.queued /\ live.late > 0 /\ ~cancelled =>
       Ahead + 1 \in 1 .. Len(queue) /\ queue[Ahead + 1].new

(* A worker that has sent no stop has sent none on these reports, and one  *)
(* whose stop may be repeated has sent one at most.                        *)
Sending == pc = "send" /\ pass \in StartPasses

Stops ==
  /\ ~w.stopSent => live.stops = 0
  /\ Sending => live.stops = 0
  /\ w.pending.prepare => live.stops <= 1
  /\ live.stops <= 2

(* The report that completes a first layer.                                *)
Completes(e) == "first_layer_complete" \in e.kinds

(* The report that completes the first layer of the live print is still to *)
(* be handled: its check is to come.                                       *)
DueInHand == live.late = 0 /\ InHand /\ Completes(event)
Due(i) == i > Ahead /\ Completes(queue[i])

(* The live print is past its first layer, and stays so until the next.    *)
Past(d) == d.layer >= 2 /\ d.state \in {"RUNNING", "PAUSE", "IDLE"}

(* The worker handles the reports of the live print, and has handled the   *)
(* first one.                                                              *)
Handled == live.late = 0 /\ ~(queue # <<>> /\ queue[1].new) /\ (InHand \/ ~cancelled)

(* One report completes the first layer of a print, no check comes before  *)
(* it, and a retry is due after one check only.                            *)
Checks ==
  /\ DueInHand => Past(doc) /\ live.checks = 0
  /\ \A i \in 1 .. Len(queue) : Due(i) =>
       /\ Past(doc) /\ live.checks = 0 /\ ~DueInHand
       /\ \A j \in 1 .. Len(queue) : Due(j) => i = j
  /\ live.checks > 0 => Past(doc)
  /\ Handled => /\ w.retryAt # "none" => live.checks = 1
                /\ pass = "layer" => live.checks = 1
  /\ live.checks <= 2

HInv == Order /\ Stops /\ (live.queued => Checks)
-----------------------------------------------------------------------------
(* The fields a handler of events leaves alone, or only brings closer to   *)
(* the end of the checks of the start.                                     *)
Keeps(r, v) ==
  /\ r.pending = v.pending /\ r.stopSent = v.stopSent /\ r.retryAt \in {v.retryAt, "none"}
  /\ r.first = "pause" => v.first = "pause"
  /\ v.pass1 /\ v.homing => r.pass1 /\ r.homing

(* What holds where a handler of e stops to wait for a check.              *)
Waits(next, v, e) ==
  /\ next.waits \in Passes \cup {"none"} /\ Good(next.v) /\ Keeps(next.v, v)
  /\ next.waits \in StartPasses => ~next.v.stopSent /\ next.v.pass1 /\ ~(v.pass1 /\ v.homing)
  /\ next.waits = "retry" => v.retryAt # "none" /\ next.v.retryAt = "none"
  /\ next.waits = "layer" => Completes(e)

(* A layer, reported or not, is a number to compare with.                  *)
LEMMA KnownNumber ==
  ASSUME NEW x \in Layers
  PROVE  Known(x) \in Numbers /\ Known(x) \in Layers /\ Known(x) # Unknown
BY PlateAssumption DEF Known, Layers, Unknown

(* A worker that has handled nothing is in order.                          *)
LEMMA UnstartedGood == Good(Unstarted) /\ Unstarted.pending = NoStop /\ ~Unstarted.stopSent
                         /\ Unstarted.paused = Unknown /\ Unstarted.first # "pause"
                         /\ ~Unstarted.pending.prepare /\ Unstarted.retryAt = "none"
BY PlateAssumption DEF Good, Sound, Shown, Unstarted, Worker, NoStop, Layers, Unknown

(* What a skipped check leaves in order.                                   *)
LEMMA SkippedGood ==
  ASSUME NEW v, Good(v), NEW p \in Passes, p \in StartPasses => ~v.stopSent
  PROVE  Good(Skipped(v, p)) /\ Keeps(Skipped(v, p), v) /\ Skipped(v, p).pass1 = v.pass1
           /\ Skipped(v, p).homing = v.homing /\ Skipped(v, p).retryAt = v.retryAt
<1>1. CASE p = "retry"
  BY <1>1 DEF Skipped, Keeps
<1>2. CASE p = "layer"
  <2> DEFINE r == [v EXCEPT !.first = "continued", !.pause = "none"]
  <2>1. Skipped(v, p) = r
    BY <1>2 DEF Skipped
  <2>2. r \in Worker
    BY DEF Good, Sound, Worker
  <2>3. Good(r) /\ Keeps(r, v) /\ r.pass1 = v.pass1 /\ r.homing = v.homing
          /\ r.retryAt = v.retryAt
    BY <2>2 DEF Good, Sound, Shown, Keeps, Worker
  <2> QED BY <2>1, <2>3
<1>3. CASE p \in StartPasses
  <2> DEFINE r == [v EXCEPT !.status = "continued"]
  <2>1. Skipped(v, p) = r
    BY <1>3 DEF Skipped, StartPasses
  <2>2. r \in Worker
    BY DEF Good, Sound, Worker
  <2>3. v.pending = NoStop /\ ~v.pending.prepare
    BY <1>3 DEF Good, Sound, NoStop
  <2>4. Good(r) /\ Keeps(r, v) /\ r.pass1 = v.pass1 /\ r.homing = v.homing
          /\ r.retryAt = v.retryAt
    BY <2>2, <2>3 DEF Good, Sound, Shown, Keeps, Worker
  <2> QED BY <2>1, <2>4
<1> QED BY <1>1, <1>2, <1>3 DEF Passes, StartPasses

(* A check that begins.                                                    *)
LEMMA BegunWaits ==
  ASSUME NEW v, Good(v), NEW p \in Passes, p \in StartPasses => ~v.stopSent
  PROVE  /\ Begun(v, p).waits = p /\ Good(Begun(v, p).v) /\ Keeps(Begun(v, p).v, v)
         /\ Begun(v, p).v.pass1 = v.pass1 /\ Begun(v, p).v.retryAt = v.retryAt
<1>1. CASE p = "retry"
  BY <1>1 DEF Begun, Keeps
<1>2. CASE p = "layer"
  <2> DEFINE r == [v EXCEPT !.first = "checking", !.pause = "none"]
  <2>1. Begun(v, p).waits = p /\ Begun(v, p).v = r
    BY <1>2 DEF Begun
  <2>2. r \in Worker
    BY DEF Good, Sound, Worker
  <2> QED BY <2>1, <2>2 DEF Good, Sound, Shown, Keeps, Worker
<1>3. CASE p \in StartPasses
  <2> DEFINE r == [v EXCEPT !.status = "checking"]
  <2>1. Begun(v, p).waits = p /\ Begun(v, p).v = r
    BY <1>3 DEF Begun, StartPasses
  <2>2. r \in Worker
    BY DEF Good, Sound, Worker
  <2>3. v.pending = NoStop /\ ~v.pending.prepare
    BY <1>3 DEF Good, Sound, NoStop
  <2> QED BY <1>3, <2>1, <2>2, <2>3 DEF Good, Sound, Shown, Keeps, Worker, StartPasses
<1> QED BY <1>1, <1>2, <1>3 DEF Passes, StartPasses

LEMMA FromLayerWaits ==
  ASSUME NEW v, Good(v), NEW e \in Events
  PROVE  Waits(FromLayer(v, e), v, e) /\ FromLayer(v, e).waits \notin StartPasses
<1>1. CASE "first_layer_complete" \notin e.kinds \/ ~FirstLayerOn
  BY <1>1 DEF FromLayer, Waits, Keeps, Good, StartPasses, Completes
<1>2. CASE ~("first_layer_complete" \notin e.kinds \/ ~FirstLayerOn) /\ (v.stopSent \/ ~May("layer"))
  BY <1>2, SkippedGood DEF FromLayer, Waits, StartPasses, Passes, Completes
<1>3. CASE ~("first_layer_complete" \notin e.kinds \/ ~FirstLayerOn) /\ ~(v.stopSent \/ ~May("layer"))
  BY <1>3, BegunWaits DEF FromLayer, Waits, StartPasses, Passes, Completes
<1> QED BY <1>1, <1>2, <1>3

(* The checks one after the other, each giving way to the next.            *)
LEMMA FromRetryWaits ==
  ASSUME NEW v, Good(v), NEW e \in Events
  PROVE  Waits(FromRetry(v, e), v, e) /\ FromRetry(v, e).waits \notin StartPasses
<1> DEFINE over == [v EXCEPT !.retryAt = "none"]
           inLayer2 == e.cur.state = "RUNNING" /\ e.cur.layer = 2
<1>1. Good(over) /\ Keeps(over, v)
  <2>1. over \in Worker
    BY DEF Good, Sound, Worker
  <2> QED BY <2>1 DEF Good, Sound, Shown, Keeps, Worker
<1>2. Waits(FromLayer(over, e), v, e) /\ FromLayer(over, e).waits \notin StartPasses
  <2>1. Waits(FromLayer(over, e), over, e) /\ FromLayer(over, e).waits \notin StartPasses
    BY <1>1, FromLayerWaits
  <2> QED BY <1>1, <2>1 DEF Waits, Keeps
<1>3. CASE ~inLayer2
  BY <1>2, <1>3 DEF FromRetry
<1>4. CASE inLayer2 /\ v.retryAt # "due"
  BY <1>4, FromLayerWaits DEF FromRetry
<1>5. CASE inLayer2 /\ v.retryAt = "due" /\ May("retry")
  <2>1. FromRetry(v, e) = Begun(over, "retry")
    BY <1>5 DEF FromRetry
  <2>2. over.retryAt = "none"
    BY DEF Good, Sound, Worker
  <2>3. Begun(over, "retry").waits = "retry" /\ Good(Begun(over, "retry").v)
          /\ Keeps(Begun(over, "retry").v, over) /\ Begun(over, "retry").v.retryAt = "none"
    BY <1>1, <2>2, BegunWaits DEF Passes, StartPasses
  <2> QED BY <1>1, <1>5, <2>1, <2>3 DEF Waits, Keeps, Passes, StartPasses
<1>6. CASE inLayer2 /\ v.retryAt = "due" /\ ~May("retry")
  BY <1>2, <1>6 DEF FromRetry
<1> QED BY <1>3, <1>4, <1>5, <1>6

LEMMA FromHomingWaits ==
  ASSUME NEW v, Good(v), NEW e \in Events
  PROVE  Waits(FromHoming(v, e), v, e)
<1> DEFINE over == [v EXCEPT !.homing = TRUE]
<1>1. CASE ~AwaitsHoming(v)
  BY <1>1, FromRetryWaits DEF FromHoming
<1>2. CASE AwaitsHoming(v)
  <2>1. Good(over) /\ Keeps(over, v) /\ ~over.stopSent /\ over.pass1
    <3>1. over \in Worker
      BY DEF Good, Sound, Worker
    <3> QED BY <1>2, <3>1 DEF Good, Sound, Shown, Keeps, Worker, AwaitsHoming
  <2>2. Waits(FromRetry(Skipped(over, "homing"), e), v, e)
    <3>1. Good(Skipped(over, "homing")) /\ Keeps(Skipped(over, "homing"), over)
      BY <2>1, SkippedGood DEF Passes
    <3>2. Waits(FromRetry(Skipped(over, "homing"), e), Skipped(over, "homing"), e)
            /\ FromRetry(Skipped(over, "homing"), e).waits \notin StartPasses
      BY <3>1, FromRetryWaits
    <3> QED BY <2>1, <3>1, <3>2 DEF Waits, Keeps
  <2>3. CASE PastStart(e.cur)
    BY <1>2, <2>2, <2>3 DEF FromHoming
  <2>4. CASE ~PastStart(e.cur) /\ (e.cur.state # "RUNNING" \/ e.cur.layer # 0)
    BY <1>2, <2>4, FromRetryWaits DEF FromHoming
  <2>5. CASE ~PastStart(e.cur) /\ ~(e.cur.state # "RUNNING" \/ e.cur.layer # 0) /\ May("homing")
    <3>1. FromHoming(v, e) = Begun(over, "homing")
      BY <1>2, <2>5 DEF FromHoming
    <3>2. Begun(over, "homing").waits = "homing" /\ Good(Begun(over, "homing").v)
            /\ Keeps(Begun(over, "homing").v, over) /\ Begun(over, "homing").v.pass1 = over.pass1
      BY <2>1, BegunWaits DEF Passes
    <3> QED BY <1>2, <2>1, <3>1, <3>2 DEF Waits, Keeps, Passes, AwaitsHoming
  <2>6. CASE ~PastStart(e.cur) /\ ~(e.cur.state # "RUNNING" \/ e.cur.layer # 0) /\ ~May("homing")
    BY <1>2, <2>2, <2>6 DEF FromHoming
  <2> QED BY <2>3, <2>4, <2>5, <2>6
<1> QED BY <1>1, <1>2

LEMMA FromStartupWaits ==
  ASSUME NEW v, Good(v), NEW e \in Events
  PROVE  Waits(FromStartup(v, e), v, e)
<1> DEFINE over == [v EXCEPT !.pass1 = TRUE]
           begins == e.kinds \cap {"print_preparing", "print_started"} # {}
<1>1. CASE v.pass1 \/ ~begins
  BY <1>1, FromHomingWaits DEF FromStartup
<1>2. CASE ~v.pass1 /\ begins
  <2>1. Good(over) /\ Keeps(over, v) /\ ~over.stopSent /\ over.pass1
    <3>1. over \in Worker
      BY DEF Good, Sound, Worker
    <3> QED BY <1>2, <3>1 DEF Good, Sound, Shown, Keeps, Worker
  <2>2. CASE May("startup")
    <3>1. FromStartup(v, e) = Begun(over, "startup")
      BY <1>2, <2>2 DEF FromStartup
    <3>2. Begun(over, "startup").waits = "startup" /\ Good(Begun(over, "startup").v)
            /\ Keeps(Begun(over, "startup").v, over) /\ Begun(over, "startup").v.pass1 = over.pass1
      BY <2>1, BegunWaits DEF Passes
    <3> QED BY <1>2, <2>1, <3>1, <3>2 DEF Waits, Keeps, Passes
  <2>3. CASE ~May("startup")
    <3>1. Good(Skipped(over, "startup")) /\ Keeps(Skipped(over, "startup"), over)
      BY <2>1, SkippedGood DEF Passes
    <3>2. Waits(FromHoming(Skipped(over, "startup"), e), Skipped(over, "startup"), e)
      BY <3>1, FromHomingWaits
    <3>3. FromStartup(v, e) = FromHoming(Skipped(over, "startup"), e)
      BY <1>2, <2>3 DEF FromStartup
    <3> QED BY <1>2, <2>1, <3>1, <3>2, <3>3 DEF Waits, Keeps
  <2> QED BY <2>2, <2>3
<1> QED BY <1>1, <1>2

(* What is left of a report once one of its checks is over.                *)
LEMMA RestWaits ==
  ASSUME NEW v, Good(v), NEW e \in Events, NEW p \in Passes
  PROVE  Waits(Rest(p, v, e), v, e) /\ (p \notin StartPasses => Rest(p, v, e).waits \notin StartPasses)
<1>1. CASE p = "startup"
  BY <1>1, FromHomingWaits DEF Rest, StartPasses
<1>2. CASE p = "homing"
  BY <1>2, FromRetryWaits DEF Rest, StartPasses
<1>3. CASE p = "retry"
  BY <1>3, FromLayerWaits DEF Rest, StartPasses
<1>4. CASE p = "layer"
  BY <1>4 DEF Rest, Waits, Keeps, StartPasses, Good
<1> QED BY <1>1, <1>2, <1>3, <1>4 DEF Passes

(* What a report resolves: the only stop it can send repeats one sent      *)
(* during PREPARE, and with nothing outstanding it sends and ends none.    *)
Resolved(r, v) ==
  /\ Good(r)
  /\ r.first = v.first /\ r.stopSent = v.stopSent /\ r.pass1 = v.pass1 /\ r.homing = v.homing
  /\ r.retryAt = v.retryAt
  /\ r.pending.prepare => r.pending = v.pending
  /\ v.pending = NoStop => r.pending = NoStop

LEMMA ResolveGood ==
  ASSUME NEW v, Good(v), NEW e \in Events, NEW ok \in BOOLEAN, doc \in Docs
  PROVE  /\ Resolved(Resolve(v, e, ok), v)
         /\ Resends(v, e) => ~Resolve(v, e, ok).pending.prepare
<1> DEFINE past(layer) == e.cur.state = "RUNNING" /\ e.cur.layer > layer
           closed(status) == [v EXCEPT !.status = status, !.pending = NoStop]
           again == [layer |-> Known(doc.layer), prepare |-> FALSE]
           repeat == [v EXCEPT !.status = IF ok THEN "stop_requested" ELSE "stop_failed",
                               !.pending = again]
           stop == IF v.pending = NoStop THEN v
                   ELSE IF e.cur.state \in {"PAUSE", "IDLE"} THEN closed("stopped")
                   ELSE IF Resends(v, e) THEN repeat
                   ELSE IF past(v.pending.layer) THEN closed("stop_unconfirmed")
                   ELSE v
<1>1. ASSUME NEW status \in {"stopped", "stop_unconfirmed"}, v.pending # NoStop
      PROVE  Resolved(closed(status), v)
  <2>1. closed(status) \in Worker
    BY DEF Good, Sound, Worker, NoStop, Layers
  <2>2. ~NoStop.prepare
    BY DEF NoStop
  <2> QED BY <1>1, <2>1, <2>2 DEF Good, Sound, Shown, Resolved, Worker
<1>2. ASSUME v.pending # NoStop, Resends(v, e)
      PROVE  Resolved(repeat, v) /\ ~repeat.pending.prepare
  <2>1. again \in [layer : Layers, prepare : BOOLEAN] /\ again # NoStop /\ ~again.prepare
    BY KnownNumber DEF Docs, NoStop
  <2> DEFINE status == IF ok THEN "stop_requested" ELSE "stop_failed"
             r == [v EXCEPT !.status = status, !.pending = again]
  <2>2. repeat = r
    OBVIOUS
  <2>3. status \in {"stop_requested", "stop_failed"}
    OBVIOUS
  <2> HIDE DEF status, again
  <2>4. r \in Worker
    BY <2>1, <2>3 DEF Good, Sound, Worker
  <2>5. r.status = status /\ r.pending = again
    BY DEF Good, Sound, Worker
  <2>6. Good(r)
    BY <1>2, <2>1, <2>3, <2>4, <2>5 DEF Good, Sound, Shown, Worker
  <2>7. Resolved(r, v) /\ ~r.pending.prepare
    BY <1>2, <2>1, <2>5, <2>6 DEF Good, Sound, Resolved, Worker
  <2> QED BY <2>2, <2>7
<1>3. Resolved(v, v)
  BY DEF Resolved, Good, Sound, Worker
<1>4. Resolved(stop, v)
  BY <1>1, <1>2, <1>3
<1>5. Resends(v, e) => ~stop.pending.prepare
  <2>1. Resends(v, e) => v.pending # NoStop /\ e.cur.state \notin {"PAUSE", "IDLE"}
    BY DEF Resends
  <2> QED BY <1>2, <2>1
<1> HIDE DEF stop
<1>6. ASSUME NEW pause \in {"confirmed", "unconfirmed"}
      PROVE  LET r == [stop EXCEPT !.pause = pause, !.paused = Unknown] IN
               Resolved(r, v) /\ r.pending = stop.pending
  <2> DEFINE r == [stop EXCEPT !.pause = pause, !.paused = Unknown]
  <2>1. stop \in Worker
    BY <1>4 DEF Resolved, Good, Sound
  <2>2. r \in Worker
    BY <2>1 DEF Worker, Layers
  <2>3. Good(r)
    BY <1>4, <2>1, <2>2 DEF Resolved, Good, Sound, Shown, Worker
  <2> QED BY <1>4, <2>1, <2>3 DEF Resolved, Worker
<1>7. Resolve(v, e, ok) \in {stop, [stop EXCEPT !.pause = "confirmed", !.paused = Unknown],
                             [stop EXCEPT !.pause = "unconfirmed", !.paused = Unknown]}
  BY DEF Resolve, stop
<1> QED BY <1>4, <1>5, <1>6, <1>7

LEMMA ResolveUnstarted ==
  ASSUME NEW e, NEW ok
  PROVE  Resolve(Unstarted, e, ok) = Unstarted
BY UnstartedGood DEF Resolve

(* The worker between the resolution of a report and its first check.      *)
Prepared(v, e, ok) == Stage(Attach(Reset(Resolve(v, e, ok), e), e), e)

LEMMA PreparedGood ==
  ASSUME NEW v, Good(v), NEW e \in Events, NEW ok \in BOOLEAN, doc \in Docs,
         "state_initial" \in e.kinds => v = Unstarted
  PROVE  LET r == Prepared(v, e, ok) IN
           /\ Good(r)
           /\ r.first = "pause" => v.first = "pause"
           /\ r.stopSent => v.stopSent
           /\ r.pending.prepare => r.pending = v.pending /\ ~Resends(v, e)
           /\ IF e.new THEN r.retryAt = "none" ELSE r.stopSent = v.stopSent /\ r.retryAt = v.retryAt
           /\ v.pending = NoStop /\ ~v.stopSent => r.pending = NoStop
           /\ "state_initial" \in e.kinds \/ (v.pass1 /\ v.homing /\ ~e.new) => r.pass1 /\ r.homing
<1> DEFINE a == Resolve(v, e, ok)
           b == Reset(a, e)
           c == Attach(b, e)
           r == Stage(c, e)
<1>1. Resolved(a, v) /\ (Resends(v, e) => ~a.pending.prepare)
  BY ResolveGood
<1>2. /\ Good(b)
      /\ IF e.new THEN b = Unstarted ELSE b = a
  BY <1>1, UnstartedGood DEF Reset, Resolved
<1>3. "state_initial" \in e.kinds => b = Unstarted
  BY <1>2, ResolveUnstarted DEF Reset
<1> HIDE DEF a, b
<1>4. /\ Good(c) /\ c.first = b.first /\ c.stopSent = b.stopSent
      /\ c.pending = b.pending /\ c.retryAt = b.retryAt
      /\ "state_initial" \in e.kinds => c.pass1 /\ c.homing
      /\ "state_initial" \notin e.kinds => c = b
  <2>1. CASE "state_initial" \notin e.kinds
    BY <1>2, <2>1 DEF Attach
  <2>2. CASE "state_initial" \in e.kinds
    <3> DEFINE status == IF e.cur.state = "IDLE" THEN b.status ELSE "continued"
               u == [b EXCEPT !.pass1 = TRUE, !.homing = TRUE, !.status = status]
    <3>1. c = u
      BY <2>2 DEF Attach
    <3>2. b = Unstarted /\ b \in Worker
      BY <1>2, <1>3, <2>2 DEF Good, Sound
    <3>3. status \in {"idle", "continued"}
      BY <3>2 DEF Unstarted
    <3> HIDE DEF status
    <3>4. u \in Worker
      BY <3>2, <3>3 DEF Worker
    <3>5. Good(u)
      BY <1>2, <3>2, <3>3, <3>4, UnstartedGood DEF Good, Sound, Shown, Worker
    <3> QED BY <2>2, <3>1, <3>2, <3>5 DEF Worker
  <2> QED BY <2>1, <2>2
<1> HIDE DEF c
<1>5. Good(r) /\ r.first = c.first /\ r.stopSent = c.stopSent /\ r.retryAt = c.retryAt
        /\ r.pending = c.pending /\ r.pass1 = c.pass1 /\ r.homing = c.homing
  <2>1. c \in Worker
    BY <1>4 DEF Good, Sound
  <2>2. (c.seen \/ e.cur.homing) \in BOOLEAN
    BY <2>1 DEF Worker
  <2>3. r \in Worker
    BY <2>1, <2>2 DEF Stage, Worker
  <2>4. r.first = c.first /\ r.stopSent = c.stopSent /\ r.pending = c.pending
          /\ r.pass1 = c.pass1 /\ r.homing = c.homing /\ r.status = c.status
          /\ r.retryAt = c.retryAt
    BY <2>1 DEF Stage, Worker
  <2> QED BY <1>4, <2>3, <2>4 DEF Good, Sound, Shown
<1> HIDE DEF r
<1>6. /\ r.first = "pause" => v.first = "pause"
      /\ r.stopSent => v.stopSent
  BY <1>1, <1>2, <1>4, <1>5, UnstartedGood DEF Resolved
<1>7. /\ r.pending.prepare => r.pending = v.pending /\ ~Resends(v, e)
      /\ IF e.new THEN r.retryAt = "none" ELSE r.stopSent = v.stopSent /\ r.retryAt = v.retryAt
  BY <1>1, <1>2, <1>4, <1>5, UnstartedGood DEF Resolved
<1>8. v.pending = NoStop /\ ~v.stopSent => r.pending = NoStop
  BY <1>1, <1>2, <1>4, <1>5, UnstartedGood DEF Resolved
<1>9. "state_initial" \in e.kinds \/ (v.pass1 /\ v.homing /\ ~e.new) => r.pass1 /\ r.homing
  BY <1>1, <1>2, <1>4, <1>5 DEF Resolved
<1> QED BY <1>5, <1>6, <1>7, <1>8, <1>9 DEF Prepared, r, c, b, a
-----------------------------------------------------------------------------
(* Events, and where the handling of one leaves the worker.                *)
LEMMA EventTyped ==
  ASSUME NEW prev \in Docs, NEW cur \in Docs
  PROVE  /\ EventOf(prev, cur) \in Events
         /\ "state_initial" \in EventOf(prev, cur).kinds <=> prev.state = "none" /\ cur.state # "none"
         /\ EventOf(prev, cur).new = NewJob(prev, cur) /\ "link" \notin EventOf(prev, cur).kinds
         /\ Completes(EventOf(prev, cur)) <=> FirstLayerComplete(prev, cur)
         /\ EventOf(prev, cur).prepare <=> prev.state = "PREPARE"
<1> DEFINE kinds == (IF StateInitial(prev, cur) THEN {"state_initial"} ELSE {})
                       \cup (IF PrintPreparing(prev, cur) THEN {"print_preparing"} ELSE {})
                       \cup (IF PrintStarted(prev, cur) THEN {"print_started"} ELSE {})
                       \cup (IF FirstLayerComplete(prev, cur) THEN {"first_layer_complete"} ELSE {})
<1>1. kinds \in SUBSET Kinds /\ "link" \notin kinds /\ ("state_initial" \in kinds <=> StateInitial(prev, cur))
        /\ ("first_layer_complete" \in kinds <=> FirstLayerComplete(prev, cur))
  BY DEF Kinds
<1>2. NewJob(prev, cur) \in BOOLEAN
  BY DEF NewJob
<1> DEFINE prepare == prev.state = "PREPARE"
<1>3. prepare \in BOOLEAN
  OBVIOUS
<1>4. EventOf(prev, cur) = [kinds |-> kinds, new |-> NewJob(prev, cur), prepare |-> prepare, cur |-> cur]
  BY DEF EventOf
<1> HIDE DEF kinds, prepare
<1>5. /\ EventOf(prev, cur).kinds = kinds /\ EventOf(prev, cur).new = NewJob(prev, cur)
      /\ EventOf(prev, cur).prepare = prepare
  BY <1>4
<1>6. EventOf(prev, cur) \in Events
  BY <1>1, <1>2, <1>3, <1>4 DEF Events
<1> QED BY <1>1, <1>5, <1>6 DEF StateInitial, Completes, prepare

LEMMA LinkTyped == NoDoc \in Docs /\ LinkEvent \in Events /\ "state_initial" \notin LinkEvent.kinds
                     /\ ~LinkEvent.new /\ ~Completes(LinkEvent)
BY DEF NoDoc, Docs, Layers, LinkEvent, Events, Kinds, States, Completes

LEMMA StillTyped ==
  ASSUME NEW e \in Events, NEW p
  PROVE  /\ StillRead(p, e) \in Events
         /\ Completes(StillRead(p, e)) => Completes(e) /\ p \notin {"none", "layer"}
<1> DEFINE kinds == e.kinds \cap {"first_layer_complete"}
           cur == [NoDoc EXCEPT !.state = e.cur.state, !.layer = e.cur.layer]
           still == [LinkEvent EXCEPT !.kinds = kinds, !.cur = cur]
<1>1. kinds \in SUBSET Kinds /\ cur \in Docs
  BY LinkTyped DEF Events, Kinds, Docs
<1>2. StillRead(p, e) = IF p \in {"none", "layer"} THEN LinkEvent ELSE still
  BY DEF StillRead
<1>3. kinds \subseteq e.kinds
  OBVIOUS
<1> HIDE DEF kinds, cur
<1>4. still \in Events /\ still.kinds = kinds
  BY <1>1, LinkTyped DEF Events
<1> QED BY <1>2, <1>3, <1>4, LinkTyped DEF Completes

(* Where a handler of e ran on to from the fields v, for the history of    *)
(* the live print; sent tells whether it sent a stop.                      *)
Ran(v, e, sent) ==
  /\ Counted(sent, pass') /\ Keeps(w', v) /\ pass' \in Passes \cup {"none"}
  /\ pc' = IF pass' = "none" THEN "receive" ELSE "wait"
  /\ pass' = "retry" => v.retryAt # "none" /\ w'.retryAt = "none"
  /\ pass' = "layer" => Completes(e)
  /\ Completes(event') => Completes(e) /\ pass' \notin {"none", "layer"}

LEMMA CountedTyped ==
  ASSUME live \in Live, NEW sent \in BOOLEAN, NEW waits, Counted(sent, waits)
  PROVE  live' \in Live
<1>1. live.stops \in 0 .. 3 /\ live.checks \in 0 .. 3 /\ live.late \in 0 .. QueueCap + 1 /\ QueueCap \in Nat
  BY PlateAssumption DEF Live
<1>2. Count(live.stops, sent) \in 0 .. 3 /\ Count(live.checks, waits \in LayerPasses) \in 0 .. 3
  BY <1>1 DEF Count
<1>3. live.late > 0 => live.late - 1 \in 0 .. QueueCap + 1
  BY <1>1
<1> QED BY <1>2, <1>3 DEF Counted, Live

LEMMA RunOnGood ==
  ASSUME NEW v, NEW next, NEW e \in Events, Waits(next, v, e), doc \in Docs, live \in Live,
         NEW sent \in BOOLEAN, RunOn(next, e, sent)
  PROVE  /\ w' \in Worker /\ event' \in Events /\ pass' \in Passes \cup {"none"} /\ at' \in Layers
         /\ pc' \in {"receive", "wait"} /\ Keeps(w', v) /\ InPass' /\ live' \in Live
         /\ pass' = next.waits
         /\ pass' \in StartPasses => ~(v.pass1 /\ v.homing)
         /\ Ran(v, e, sent)
<1>1. w' = next.v /\ pass' = next.waits /\ Good(w') /\ Keeps(w', v)
  BY DEF RunOn, Waits
<1>2. w' \in Worker
  BY <1>1 DEF Good, Sound
<1>3. event' \in Events /\ (Completes(event') => Completes(e) /\ pass' \notin {"none", "layer"})
  BY StillTyped DEF RunOn
<1>4. at' \in Layers
  BY DEF RunOn, Docs, Layers
<1>5. pass' \in Passes \cup {"none"} /\ (pass' \in StartPasses => ~(v.pass1 /\ v.homing))
  BY <1>1 DEF Waits
<1>6. /\ pc' \in {"receive", "wait"}
      /\ pc' = IF pass' = "none" THEN "receive" ELSE "wait"
  BY DEF RunOn
<1>7. InPass'
  BY <1>1, <1>5, <1>6 DEF InPass, Waits, Passes
<1>8. live' \in Live /\ Counted(sent, pass')
  BY <1>1, CountedTyped DEF RunOn
<1>9. Ran(v, e, sent)
  BY <1>1, <1>3, <1>5, <1>6, <1>8 DEF Ran, Waits
<1> QED BY <1>1, <1>2, <1>3, <1>4, <1>5, <1>6, <1>7, <1>8, <1>9

(* The end of a check with the worker's fields v: the rest of the report.  *)
LEMMA LeaveGood ==
  ASSUME TypeOK, pc \in {"wait", "verdict", "send"}, pass \in Passes, NEW v, Good(v),
         NEW sent \in BOOLEAN, RunOn(Rest(pass, v, event), event, sent)
  PROVE  /\ w' \in Worker /\ event' \in Events /\ pass' \in Passes \cup {"none"} /\ at' \in Layers
         /\ pc' \in {"receive", "wait"} /\ Keeps(w', v) /\ InPass' /\ live' \in Live
         /\ pass \notin StartPasses => pass' \notin StartPasses
         /\ Ran(v, event, sent)
<1>1. Waits(Rest(pass, v, event), v, event)
        /\ (pass \notin StartPasses => Rest(pass, v, event).waits \notin StartPasses)
  BY RestWaits DEF TypeOK
<1> QED BY <1>1, RunOnGood DEF TypeOK

(* A step inside a check: the documents and the queue stay, and the fields *)
(* that NoneBegun reads stay, or close.                                    *)
LEMMA CheckStep ==
  ASSUME IInv, pc \in {"wait", "verdict", "send"}, UNCHANGED <<env, queue, cancelled>>,
         w' \in Worker, event' \in Events, pass' \in Passes \cup {"none"}, at' \in Layers,
         pc' \in {"receive", "wait", "verdict", "send"}, InPass', live' \in Live,
         attached => /\ w'.pending = NoStop /\ ~w'.stopSent /\ pass' \notin StartPasses
                     /\ w.pass1 /\ w.homing => w'.pass1 /\ w'.homing
  PROVE  IInv'
<1> USE DEF IInv
<1>1. TypeOK'
  BY DEF TypeOK, env
<1>2. doc.state # "none" /\ \A i \in 1 .. Len(queue) : "state_initial" \notin queue[i].kinds
  BY DEF FirstIsFirst
<1>3. FirstIsFirst'
  BY <1>2 DEF FirstIsFirst, env
<1>4. NoneBegun'
  <2>1. queue # <<>> => 1 \in 1 .. Len(queue)
    BY DEF TypeOK
  <2> QED BY <1>2, <2>1 DEF NoneBegun, env
<1> QED BY <1>1, <1>3, <1>4

LEMMA LeaveStep ==
  ASSUME IInv, pc \in {"wait", "verdict", "send"}, pass \in Passes, UNCHANGED <<env, queue, cancelled>>,
         NEW v, Good(v), NEW sent \in BOOLEAN, RunOn(Rest(pass, v, event), event, sent),
         attached => v.pending = NoStop /\ ~v.stopSent /\ (w.pass1 /\ w.homing => v.pass1 /\ v.homing)
  PROVE  IInv' /\ Keeps(w', v) /\ Ran(v, event, sent)
<1>1. /\ w' \in Worker /\ event' \in Events /\ pass' \in Passes \cup {"none"} /\ at' \in Layers
      /\ pc' \in {"receive", "wait"} /\ Keeps(w', v) /\ InPass' /\ live' \in Live
      /\ pass \notin StartPasses => pass' \notin StartPasses
      /\ Ran(v, event, sent)
  BY LeaveGood DEF IInv
<1>2. attached => /\ w'.pending = NoStop /\ ~w'.stopSent /\ pass' \notin StartPasses
                  /\ w.pass1 /\ w.homing => w'.pass1 /\ w'.homing
  BY <1>1 DEF Keeps, IInv, NoneBegun
<1> QED BY <1>1, <1>2, CheckStep

(* What most steps do: no command is decided.                              *)
Quiet ==
  /\ w'.stopSent => w.stopSent
  /\ w'.first = "pause" => w.first = "pause"

(* What a step inside a check means for the history: the worker runs on to *)
(* its next wait, or goes on with this check.                              *)
InCheck == pc \in {"wait", "verdict", "send"}

Same(v) ==
  v.stopSent = w.stopSent /\ v.pending = w.pending /\ (v.retryAt = w.retryAt \/ pass = "layer")

RunsOn(sent) ==
  /\ InCheck /\ UNCHANGED <<env, queue, cancelled>>
  /\ \E v : Ran(v, event, sent) /\ Same(v)

GoesOn ==
  /\ InCheck /\ pc' \in {"verdict", "send"}
  /\ UNCHANGED <<env, queue, cancelled, live, event, pass>>
  /\ w'.retryAt = w.retryAt
  /\ \/ ~w.stopSent
     \/ w'.stopSent = w.stopSent /\ w'.pending = w.pending /\ ~Sending'

LEMMA InitInv == Init => IInv
<1> SUFFICES ASSUME Init PROVE IInv
  OBVIOUS
<1>1. TypeOK
  <2>1. queue \in Seq(Events) /\ Len(queue) <= QueueCap
    BY PlateAssumption DEF Init
  <2>2. w \in Worker
    BY UnstartedGood DEF Init, Good, Sound
  <2>3. live \in Live
    BY PlateAssumption DEF Init, NoneSent, Live
  <2> QED BY <2>1, <2>2, <2>3, LinkTyped DEF Init, TypeOK, Layers
<1>2. InPass
  BY UnstartedGood DEF Init, InPass
<1>3. FirstIsFirst
  BY DEF Init, FirstIsFirst, NoDoc
<1>4. NoneBegun
  BY UnstartedGood DEF Init, NoneBegun, NoDoc, StartPasses
<1> QED BY <1>1, <1>2, <1>3, <1>4 DEF IInv

LEMMA FailStep ==
  ASSUME IInv, Fail
  PROVE  IInv' /\ Quiet /\ RunsOn(FALSE) /\ ~Sending
<1>1. pass \in Passes /\ Good(w) /\ (pass \in StartPasses => ~w.stopSent) /\ pc = "wait"
  BY DEF IInv, InPass, Fail
<1>2. Good(Skipped(w, pass)) /\ Keeps(Skipped(w, pass), w) /\ Skipped(w, pass).retryAt = w.retryAt
  BY <1>1, SkippedGood
<1>3. attached => w.pending = NoStop /\ ~w.stopSent
  BY DEF IInv, NoneBegun
<1>4. IInv' /\ Keeps(w', Skipped(w, pass)) /\ Ran(Skipped(w, pass), event, FALSE)
  BY <1>1, <1>2, <1>3, LeaveStep DEF Fail, Keeps, Leave
<1>5. RunsOn(FALSE) /\ ~Sending
  BY <1>1, <1>2, <1>4 DEF RunsOn, Same, Keeps, InCheck, Fail, Sending
<1> QED BY <1>2, <1>4, <1>5 DEF Quiet, Keeps

LEMMA JudgeStep ==
  ASSUME IInv, Judge
  PROVE  IInv' /\ Quiet /\ (RunsOn(FALSE) \/ GoesOn) /\ ~Sending
<1>1. pass \in StartPasses /\ pass \in Passes /\ Good(w) /\ ~w.stopSent /\ w.pass1 /\ pc = "wait"
  BY DEF IInv, InPass, Judge, Passes, StartPasses, LayerPasses
<1>2. ~attached
  BY <1>1 DEF IInv, NoneBegun
<1>3. w \in Worker /\ w.pending = NoStop /\ ~w.pending.prepare
  BY <1>1 DEF Good, Sound, Worker, NoStop
<1>4. ASSUME NEW status \in {"continued", "would_stop"}
      PROVE  LET v == [w EXCEPT !.status = status] IN
               Good(v) /\ Keeps(v, w) /\ v.status = status /\ v.retryAt = w.retryAt /\ v.pass1
  <2>1. [w EXCEPT !.status = status] \in Worker
    BY <1>3 DEF Worker
  <2> QED BY <1>1, <1>3, <2>1 DEF Good, Sound, Shown, Keeps, Worker
<1>5. CASE Leave([w EXCEPT !.status = "continued"])
  <2> DEFINE v == [w EXCEPT !.status = "continued"]
  <2>1. Good(v) /\ Keeps(v, w) /\ v.retryAt = w.retryAt
    BY <1>4
  <2> HIDE DEF v
  <2>2. IInv' /\ Keeps(w', v) /\ Ran(v, event, FALSE)
    BY <1>1, <1>2, <1>5, <2>1, LeaveStep DEF Judge, Leave, v
  <2>3. RunsOn(FALSE) /\ ~Sending
    BY <1>1, <2>1, <2>2 DEF RunsOn, Same, Keeps, InCheck, Judge, Sending
  <2> QED BY <2>1, <2>2, <2>3 DEF Quiet, Keeps
<1>6. CASE /\ pc' = "verdict" /\ w' = [w EXCEPT !.status = "would_stop"]
           /\ UNCHANGED <<live, event, pass, at>>
  <2>1. Good(w') /\ Keeps(w', w) /\ w'.status = "would_stop" /\ w'.retryAt = w.retryAt /\ w'.pass1
    BY <1>4, <1>6
  <2>2. InPass'
    BY <1>1, <1>6, <2>1 DEF InPass, Keeps
  <2>3. w' \in Worker /\ event' \in Events /\ pass' \in Passes \cup {"none"} /\ at' \in Layers /\ live' \in Live
    BY <1>6, <2>1 DEF IInv, TypeOK, Good, Sound
  <2>4. IInv'
    BY <1>1, <1>2, <1>6, <2>2, <2>3, CheckStep DEF Judge
  <2>5. GoesOn /\ ~Sending
    BY <1>1, <1>6, <2>1 DEF GoesOn, InCheck, Judge, Sending
  <2> QED BY <2>1, <2>4, <2>5 DEF Quiet, Keeps
<1> QED BY <1>5, <1>6 DEF Judge

LEMMA JudgeLayerStep ==
  ASSUME IInv, JudgeLayer
  PROVE  IInv' /\ Quiet /\ (RunsOn(FALSE) \/ GoesOn) /\ ~Sending
<1>1. pass \in LayerPasses /\ pass \in Passes /\ pass \notin StartPasses /\ Good(w) /\ pc = "wait"
        /\ w \in Worker
  BY DEF IInv, InPass, JudgeLayer, Passes, StartPasses, LayerPasses, Good, Sound
<1>2. attached => w.pending = NoStop /\ ~w.stopSent
  BY DEF IInv, NoneBegun
<1> PICK limited \in BOOLEAN :
       \/ Leave([w EXCEPT !.first = "continued", !.pause = "none",
                          !.retryAt = IF Retries(limited) THEN "later" ELSE @])
       \/ ~limited /\ pc' = "verdict" /\ UNCHANGED <<live, w, event, pass, at>>
  BY DEF JudgeLayer
<1> DEFINE due == IF Retries(limited) THEN "later" ELSE w.retryAt
           v == [w EXCEPT !.first = "continued", !.pause = "none", !.retryAt = due]
<1>3. CASE Leave(v)
  <2>1. due \in {"none", "later", "due"} /\ (due = w.retryAt \/ pass = "layer")
    BY <1>1 DEF Retries, Worker
  <2> HIDE DEF due
  <2>2. v \in Worker
    BY <1>1, <2>1 DEF Worker
  <2>3. Good(v) /\ Same(v) /\ v.first # "pause" /\ v.pass1 = w.pass1 /\ v.homing = w.homing
    BY <1>1, <2>1, <2>2 DEF Good, Sound, Shown, Same, Worker
  <2> HIDE DEF v
  <2>4. IInv' /\ Keeps(w', v) /\ Ran(v, event, FALSE)
    BY <1>1, <1>2, <1>3, <2>3, LeaveStep DEF JudgeLayer, Same, Leave
  <2>5. RunsOn(FALSE) /\ ~Sending
    BY <1>1, <2>3, <2>4 DEF RunsOn, InCheck, JudgeLayer, Sending
  <2> QED BY <2>3, <2>4, <2>5 DEF Quiet, Keeps, Same
<1>4. CASE pc' = "verdict" /\ UNCHANGED <<live, w, event, pass, at>>
  <2>1. InPass'
    BY <1>1, <1>4 DEF InPass
  <2>2. w' \in Worker /\ event' \in Events /\ pass' \in Passes \cup {"none"} /\ at' \in Layers /\ live' \in Live
    BY <1>1, <1>4 DEF IInv, TypeOK
  <2>3. IInv'
    BY <1>1, <1>2, <1>4, <2>1, <2>2, CheckStep DEF JudgeLayer
  <2>4. GoesOn /\ ~Sending
    BY <1>1, <1>4 DEF GoesOn, InCheck, JudgeLayer, Sending
  <2> QED BY <1>4, <2>3, <2>4 DEF Quiet
<1> QED BY <1>3, <1>4

(* The step that decides a command: only where the live printer fits it.   *)
LEMMA RecheckStep ==
  ASSUME IInv, Recheck
  PROVE  /\ IInv' /\ (RunsOn(FALSE) \/ GoesOn) /\ ~Sending
         /\ ~w.stopSent /\ w'.stopSent => AtStart /\ ~cancelled
         /\ w.first # "pause" /\ w'.first = "pause" => online /\ doc.state = "RUNNING" /\ ~cancelled
<1>1. pass \in Passes /\ Good(w) /\ (pass \in StartPasses => ~w.stopSent /\ w.pass1 /\ w.status = "would_stop")
        /\ pc = "verdict" /\ w \in Worker
  BY DEF IInv, InPass, Recheck, Good, Sound
<1>2. attached => w.pending = NoStop /\ ~w.stopSent /\ pass \notin StartPasses
  BY DEF IInv, NoneBegun
<1>3. ~Sending
  BY <1>1 DEF Sending
<1>4. CASE Leave(Skipped(w, pass))
  <2>1. Good(Skipped(w, pass)) /\ Keeps(Skipped(w, pass), w) /\ Skipped(w, pass).retryAt = w.retryAt
    BY <1>1, SkippedGood
  <2>2. IInv' /\ Keeps(w', Skipped(w, pass)) /\ Ran(Skipped(w, pass), event, FALSE)
    BY <1>1, <1>2, <1>4, <2>1, LeaveStep DEF Recheck, Keeps, Leave
  <2>3. RunsOn(FALSE)
    BY <1>1, <2>1, <2>2 DEF RunsOn, Same, Keeps, InCheck, Recheck
  <2> QED BY <1>3, <2>1, <2>2, <2>3 DEF Keeps
<1>5. CASE pass \in LayerPasses /\ ~Leave(Skipped(w, pass))
  <2> DEFINE v == [w EXCEPT !.first = "pause", !.pause = "none"]
  <2>1. w' = v /\ pc' = "send" /\ at' = doc.layer /\ UNCHANGED <<live, pass, event>> /\ StillMay(pass)
          /\ UNCHANGED <<env, queue, cancelled>>
    BY <1>5 DEF Recheck
  <2>2. v \in Worker
    BY <1>1 DEF Worker
  <2>3. Good(v) /\ v.stopSent = w.stopSent /\ v.pending = w.pending
          /\ v.pass1 = w.pass1 /\ v.homing = w.homing /\ v.retryAt = w.retryAt
    BY <1>1, <2>2 DEF Good, Sound, Shown, Worker
  <2> HIDE DEF v
  <2>4. InPass'
    BY <1>1, <1>5, <2>1, <2>3 DEF InPass, Good, LayerPasses, StartPasses
  <2>5. event' \in Events /\ pass' \in Passes \cup {"none"} /\ at' \in Layers /\ live' \in Live
    BY <1>1, <2>1 DEF IInv, TypeOK, Docs
  <2>6. attached => /\ w'.pending = NoStop /\ ~w'.stopSent /\ pass' \notin StartPasses
                    /\ w.pass1 /\ w.homing => w'.pass1 /\ w'.homing
    BY <1>2, <2>1, <2>3
  <2>7. IInv'
    BY <1>1, <2>1, <2>2, <2>4, <2>5, <2>6, CheckStep
  <2>8. online /\ doc.state = "RUNNING" /\ ~cancelled
    BY <1>5, <2>1 DEF StillMay, May, MayPause
  <2>9. GoesOn
    BY <1>1, <1>5, <2>1, <2>3 DEF GoesOn, InCheck, Sending, LayerPasses, StartPasses
  <2> QED BY <1>3, <2>1, <2>3, <2>7, <2>8, <2>9
<1>6. CASE pass \notin LayerPasses /\ ~Leave(Skipped(w, pass))
  <2> DEFINE stop == [layer |-> Known(doc.layer), prepare |-> doc.state = "PREPARE"]
             v == [w EXCEPT !.stopSent = TRUE, !.pending = stop]
  <2>1. w' = v /\ pc' = "send" /\ at' = at /\ UNCHANGED <<live, pass, event>> /\ StillMay(pass)
          /\ UNCHANGED <<env, queue, cancelled>>
    BY <1>6 DEF Recheck
  <2>2. pass \in StartPasses
    BY <1>1, <1>6 DEF Passes, LayerPasses, StartPasses
  <2>3. stop \in [layer : Layers, prepare : BOOLEAN] /\ stop # NoStop
    BY KnownNumber DEF IInv, TypeOK, Docs, NoStop
  <2> HIDE DEF stop
  <2>4. v \in Worker
    BY <1>1, <2>3 DEF Worker
  <2>5. Sound(v) /\ v.first = w.first /\ v.pending # NoStop
          /\ v.status = "would_stop" /\ v.retryAt = w.retryAt
    BY <1>1, <2>2, <2>3, <2>4 DEF Good, Sound, Worker
  <2> HIDE DEF v
  <2>6. InPass'
    BY <1>1, <1>6, <2>1, <2>5 DEF InPass
  <2>7. event' \in Events /\ pass' \in Passes \cup {"none"} /\ at' \in Layers /\ live' \in Live
    BY <1>1, <2>1 DEF IInv, TypeOK
  <2>8. ~attached
    BY <1>2, <2>2
  <2>9. IInv'
    BY <1>1, <2>1, <2>4, <2>6, <2>7, <2>8, CheckStep
  <2>10. AtStart /\ ~cancelled
    BY <1>6, <2>1 DEF StillMay, May
  <2>11. GoesOn
    BY <1>1, <2>1, <2>2, <2>5 DEF GoesOn, InCheck
  <2> QED BY <1>3, <2>1, <2>5, <2>9, <2>10, <2>11
<1> QED BY <1>4, <1>5, <1>6

(* The stop is sent, or refused at once.                                   *)
LEMMA SendStopStep ==
  ASSUME IInv, SendStop
  PROVE  IInv' /\ Quiet /\ RunsOn(TRUE) /\ Sending /\ ~attached /\ w.stopSent
<1>1. pass \in StartPasses /\ pass \in Passes /\ Sound(w) /\ w.pending # NoStop
        /\ w.stopSent /\ pc = "send" /\ w \in Worker
  BY DEF IInv, InPass, SendStop, Passes, StartPasses, LayerPasses, Sound
<1>2. ~attached
  BY <1>1 DEF IInv, NoneBegun
<1> PICK ok \in BOOLEAN :
      LET v == [w EXCEPT !.status = IF ok THEN "stop_requested" ELSE "stop_failed"] IN
        RunOn(Rest(pass, v, event), event, TRUE)
  BY DEF SendStop
<1> DEFINE status == IF ok THEN "stop_requested" ELSE "stop_failed"
           v == [w EXCEPT !.status = status]
<1>3. RunOn(Rest(pass, v, event), event, TRUE)
  OBVIOUS
<1>4. status \in {"stop_requested", "stop_failed"}
  OBVIOUS
<1> HIDE DEF status
<1>5. v \in Worker
  BY <1>1, <1>4 DEF Worker
<1>6. v.status = status /\ v.pending = w.pending /\ v.stopSent = w.stopSent
        /\ v.first = w.first /\ v.pass1 = w.pass1 /\ v.retryAt = w.retryAt
  BY <1>1 DEF Worker
<1> HIDE DEF v
<1>7. Good(v)
  BY <1>1, <1>4, <1>5, <1>6 DEF Good, Sound, Shown
<1>8. IInv' /\ Keeps(w', v) /\ Ran(v, event, TRUE)
  BY <1>1, <1>2, <1>3, <1>7, LeaveStep DEF SendStop
<1>9. RunsOn(TRUE) /\ Sending
  BY <1>1, <1>6, <1>8 DEF RunsOn, Same, InCheck, SendStop, Sending
<1> QED BY <1>1, <1>2, <1>6, <1>8, <1>9 DEF Quiet, Keeps

LEMMA SendPauseStep ==
  ASSUME IInv, SendPause
  PROVE  IInv' /\ Quiet /\ RunsOn(FALSE) /\ ~Sending
<1>1. pass \in LayerPasses /\ pass \in Passes /\ pass \notin StartPasses /\ Good(w) /\ w \in Worker /\ pc = "send"
  BY DEF IInv, InPass, SendPause, Passes, LayerPasses, StartPasses, Good, Sound
<1>2. attached => w.pending = NoStop /\ ~w.stopSent
  BY DEF IInv, NoneBegun
<1>3. ASSUME NEW pause \in {"pending", "failed"}, NEW paused \in Layers
      PROVE  LET v == [w EXCEPT !.paused = paused, !.pause = pause] IN
               Good(v) /\ Keeps(v, w) /\ v.retryAt = w.retryAt
  <2> DEFINE v == [w EXCEPT !.paused = paused, !.pause = pause]
  <2>1. v \in Worker
    BY <1>1 DEF Worker
  <2> QED BY <1>1, <2>1 DEF Good, Sound, Shown, Keeps, Worker
<1>4. PICK v : Leave(v) /\ Good(v) /\ Keeps(v, w) /\ v.retryAt = w.retryAt
  <2> PICK ok \in BOOLEAN :
        Leave(IF ok THEN [w EXCEPT !.paused = Known(at), !.pause = "pending"]
              ELSE [w EXCEPT !.pause = "failed"])
    BY DEF SendPause
  <2>1. CASE ok
    BY <1>3, <2>1, KnownNumber DEF IInv, TypeOK
  <2>2. CASE ~ok
    <3>1. [w EXCEPT !.pause = "failed"] = [w EXCEPT !.paused = w.paused, !.pause = "failed"]
            /\ w.paused \in Layers
      BY <1>1 DEF Worker
    <3> QED BY <1>3, <2>2, <3>1
  <2> QED BY <2>1, <2>2
<1>5. IInv' /\ Keeps(w', v) /\ Ran(v, event, FALSE)
  BY <1>1, <1>2, <1>4, LeaveStep DEF SendPause, Keeps, Leave
<1>6. RunsOn(FALSE) /\ ~Sending
  BY <1>1, <1>4, <1>5 DEF RunsOn, Same, Keeps, InCheck, SendPause, Sending
<1> QED BY <1>4, <1>5, <1>6 DEF Quiet, Keeps

(* An event that is queued, or dropped.                                    *)
LEMMA Observed ==
  ASSUME queue \in Seq(Events), Len(queue) <= QueueCap, NEW e \in Events, Observe(e)
  PROVE  /\ queue' \in Seq(Events) /\ Len(queue') <= QueueCap
         /\ \A i \in 1 .. Len(queue') :
               \/ i \in 1 .. Len(queue) /\ queue'[i] = queue[i]
               \/ i = Len(queue) + 1 /\ queue'[i] = e
         /\ queue # <<>> => queue' # <<>> /\ queue'[1] = queue[1]
         /\ queue = <<>> => queue' = <<e>>
<1>1. CASE Len(queue) < QueueCap
  <2>1. queue' = Append(queue, e) /\ Len(queue') = Len(queue) + 1 /\ Len(queue) \in Nat
          /\ queue' \in Seq(Events)
    BY <1>1 DEF Observe
  <2>2. \A i \in 1 .. Len(queue) : queue'[i] = queue[i]
    BY <2>1
  <2>3. queue'[Len(queue) + 1] = e
    BY <2>1
  <2>4. Len(queue') <= QueueCap
    BY <1>1, <2>1, PlateAssumption
  <2>5. queue # <<>> => 1 \in 1 .. Len(queue)
    OBVIOUS
  <2>6. queue = <<>> => queue' = <<e>>
    BY <2>1
  <2> QED BY <2>1, <2>2, <2>3, <2>4, <2>5, <2>6
<1>2. CASE ~(Len(queue) < QueueCap)
  <2>1. queue' = queue /\ queue # <<>>
    BY <1>2, PlateAssumption DEF Observe
  <2> QED BY <2>1
<1> QED BY <1>1, <1>2

(* A step of the printer, the link, the clock or the shutdown.             *)
LEMMA ReportStep ==
  ASSUME IInv, Report
  PROVE  IInv' /\ w' = w
<1> PICK n \in Successors(doc) :
      /\ doc' = n /\ attached' = (attached /\ ~NewJob(doc, n)) /\ Observe(EventOf(doc, n))
      /\ live' = IF NewJob(doc, n)
                   THEN NoneSent(Len(queue) + (IF pc = "receive" THEN 0 ELSE 1), Len(queue) < QueueCap)
                 ELSE live
      /\ UNCHANGED <<online, w, pc, event, pass, at, cancelled>>
  BY DEF Report
<1> DEFINE e == EventOf(doc, n)
<1>1. n \in Docs /\ n.state # "none" /\ doc \in Docs
  BY DEF Successors, IInv, TypeOK
<1>2. e \in Events /\ ("state_initial" \in e.kinds <=> doc.state = "none") /\ e.new = NewJob(doc, n)
        /\ "link" \notin e.kinds
  BY <1>1, EventTyped
<1> HIDE DEF e
<1>3. /\ queue' \in Seq(Events) /\ Len(queue') <= QueueCap
      /\ \A i \in 1 .. Len(queue') :
            \/ i \in 1 .. Len(queue) /\ queue'[i] = queue[i]
            \/ i = Len(queue) + 1 /\ queue'[i] = e
      /\ queue # <<>> => queue' # <<>> /\ queue'[1] = queue[1]
      /\ queue = <<>> => queue' = <<e>>
  BY <1>2, Observed DEF IInv, TypeOK, e
<1>4. TypeOK'
  <2>1. Len(queue) \in Nat /\ Len(queue) <= QueueCap /\ QueueCap \in Nat
    BY PlateAssumption DEF IInv, TypeOK
  <2> DEFINE late == Len(queue) + (IF pc = "receive" THEN 0 ELSE 1)
             queued == Len(queue) < QueueCap
  <2>2. late \in 0 .. QueueCap + 1 /\ queued \in BOOLEAN
    BY <2>1
  <2> HIDE DEF late, queued
  <2>3. NoneSent(late, queued) \in Live
    BY <2>2 DEF NoneSent, Live
  <2>4. live' = IF NewJob(doc, n) THEN NoneSent(late, queued) ELSE live
    BY DEF late, queued
  <2>5. live' \in Live
    BY <2>3, <2>4 DEF IInv, TypeOK
  <2> QED BY <1>1, <1>3, <2>5 DEF IInv, TypeOK, NewJob
<1>5. InPass'
  BY DEF IInv, InPass
<1>6. FirstIsFirst'
  <2>1. CASE doc.state = "none"
    <3>1. queue' = <<e>> /\ Len(queue') = 1 /\ queue'[1] = e
      BY <1>3, <2>1 DEF IInv, FirstIsFirst
    <3> QED BY <1>1, <1>2, <2>1, <3>1 DEF IInv, FirstIsFirst
  <2>2. CASE doc.state # "none"
    <3>1. ASSUME NEW i \in 1 .. Len(queue'), "state_initial" \in queue'[i].kinds
          PROVE  i \in 1 .. Len(queue) /\ queue'[i] = queue[i]
      BY <1>2, <1>3, <2>2, <3>1
    <3> QED BY <1>1, <3>1 DEF IInv, FirstIsFirst
  <2> QED BY <2>1, <2>2
<1>7. NoneBegun'
  <2> SUFFICES ASSUME attached' PROVE NoneBegun'
    BY DEF NoneBegun
  <2>1. attached /\ ~e.new
    BY <1>2
  <2>2. \A i \in 1 .. Len(queue') : ~queue'[i].new
    BY <1>3, <2>1 DEF IInv, NoneBegun
  <2>3. CASE doc.state = "none"
    <3>1. queue' # <<>> /\ queue'[1] = e
      BY <1>3, <2>3 DEF IInv, FirstIsFirst
    <3> QED BY <1>2, <2>1, <2>2, <2>3, <3>1 DEF IInv, NoneBegun
  <2>4. CASE doc.state # "none"
    BY <1>3, <2>1, <2>2, <2>4 DEF IInv, NoneBegun
  <2> QED BY <2>3, <2>4
<1> QED BY <1>4, <1>5, <1>6, <1>7 DEF IInv

LEMMA LinkStep ==
  ASSUME IInv, LinkChanges
  PROVE  IInv' /\ w' = w
<1>1. /\ queue' \in Seq(Events) /\ Len(queue') <= QueueCap
      /\ \A i \in 1 .. Len(queue') :
            \/ i \in 1 .. Len(queue) /\ queue'[i] = queue[i]
            \/ i = Len(queue) + 1 /\ queue'[i] = LinkEvent
      /\ queue # <<>> => queue' # <<>> /\ queue'[1] = queue[1]
  BY Observed, LinkTyped DEF LinkChanges, IInv, TypeOK
<1>2. TypeOK'
  BY <1>1 DEF LinkChanges, IInv, TypeOK
<1>3. InPass'
  BY DEF LinkChanges, IInv, InPass
<1>4. FirstIsFirst'
  BY <1>1, LinkTyped DEF LinkChanges, IInv, FirstIsFirst
<1>5. NoneBegun'
  BY <1>1, LinkTyped DEF LinkChanges, IInv, NoneBegun
<1> QED BY <1>2, <1>3, <1>4, <1>5 DEF LinkChanges, IInv

LEMMA ElapseStep ==
  ASSUME IInv, Elapse
  PROVE  IInv' /\ Quiet /\ w'.stopSent = w.stopSent /\ w'.pending = w.pending
<1> DEFINE v == [w EXCEPT !.retryAt = "due"]
<1>1. w \in Worker /\ Sound(w) /\ w.retryAt = "later"
  BY DEF Elapse, IInv, TypeOK, InPass, Good, Sound, Worker
<1>2. w' = v /\ UNCHANGED <<env, live, queue, pc, event, pass, at, cancelled>>
  BY DEF Elapse
<1>3. v \in Worker
  BY <1>1 DEF Worker
<1>4. /\ v.pass1 = w.pass1 /\ v.stopSent = w.stopSent /\ v.pending = w.pending
      /\ v.status = w.status /\ v.first = w.first /\ v.homing = w.homing
  BY <1>1 DEF Worker
<1> HIDE DEF v
<1>5. Sound(v) /\ (Good(w) => Good(v))
  BY <1>1, <1>3, <1>4 DEF Good, Sound, Shown
<1>6. TypeOK'
  BY <1>2, <1>3 DEF IInv, TypeOK, env
<1>7. InPass'
  BY <1>2, <1>4, <1>5 DEF IInv, InPass
<1>8. w # Unstarted
  BY <1>1 DEF Unstarted
<1>9. FirstIsFirst'
  BY <1>2, <1>8 DEF IInv, FirstIsFirst, env
<1>10. NoneBegun'
  BY <1>2, <1>4, <1>8 DEF IInv, NoneBegun, FirstIsFirst, env
<1> QED BY <1>1, <1>2, <1>4, <1>6, <1>7, <1>9, <1>10 DEF IInv, Quiet

LEMMA CancelStep ==
  ASSUME IInv, Cancel
  PROVE  IInv' /\ w' = w
<1>1. queue' = <<>> /\ queue' \in Seq(Events) /\ Len(queue') = 0
  BY DEF Cancel
<1>2. TypeOK'
  BY <1>1, PlateAssumption DEF Cancel, IInv, TypeOK, env
<1>3. InPass' /\ FirstIsFirst' /\ w' = w
  BY <1>1 DEF Cancel, IInv, InPass, FirstIsFirst, env
<1>4. NoneBegun'
  BY <1>1 DEF Cancel, IInv, NoneBegun, env
<1> QED BY <1>2, <1>3, <1>4 DEF IInv

LEMMA EndStep ==
  ASSUME IInv, End
  PROVE  IInv' /\ w' = w
BY DEF End, IInv, TypeOK, InPass, FirstIsFirst, NoneBegun, env


(* What the receipt of a report means for the history: the worker runs on  *)
(* from fields that its handling of the outstanding commands left.         *)
Takes(e, r) ==
  /\ Ran(r, e, Resends(w, e))
  /\ r.stopSent => w.stopSent
  /\ r.pending.prepare => r.pending = w.pending /\ ~Resends(w, e)
  /\ IF e.new THEN r.retryAt = "none" ELSE r.stopSent = w.stopSent /\ r.retryAt = w.retryAt

(* The worker takes a report: the only command it may send is the repeat   *)
(* of an outstanding stop.                                                 *)
LEMMA ReceiveStep ==
  ASSUME IInv, Receive
  PROVE  /\ IInv' /\ Quiet
         /\ \/ /\ "link" \in Head(queue).kinds /\ Counted(FALSE, "none")
               /\ UNCHANGED <<w, event, pc, pass>>
            \/ \E r : Takes(Head(queue), r)
         /\ Resends(w, Head(queue)) => ~attached /\ w.stopSent
<1> DEFINE e == Head(queue)
<1>1. /\ queue # <<>> /\ e \in Events /\ e = queue[1] /\ queue' = Tail(queue)
      /\ queue' \in Seq(Events) /\ Len(queue') <= QueueCap
      /\ \A i \in 1 .. Len(queue') : i + 1 \in 1 .. Len(queue) /\ queue'[i] = queue[i + 1]
      /\ 1 \in 1 .. Len(queue)
  BY PlateAssumption DEF Receive, IInv, TypeOK
<1>2. /\ pc = "receive" /\ ~cancelled /\ UNCHANGED <<env, cancelled>>
      /\ Good(w) /\ w \in Worker /\ doc \in Docs /\ live \in Live
  BY DEF Receive, IInv, InPass, TypeOK, Good, Sound
<1> HIDE DEF e
<1>3. "state_initial" \in e.kinds => w = Unstarted /\ "link" \notin e.kinds
  BY <1>1 DEF IInv, FirstIsFirst
<1>4. \A i \in 1 .. Len(queue') : "state_initial" \notin queue'[i].kinds
  <2> SUFFICES ASSUME NEW i \in 1 .. Len(queue') PROVE "state_initial" \notin queue[i + 1].kinds
    BY <1>1
  <2>1. i + 1 \in 1 .. Len(queue) /\ i + 1 # 1
    BY <1>1
  <2> QED BY <2>1 DEF IInv, FirstIsFirst
<1>5. attached => /\ w.pending = NoStop /\ ~w.stopSent /\ pass \notin StartPasses
                  /\ ~e.new
                  /\ \A i \in 1 .. Len(queue') : ~queue'[i].new
                  /\ "state_initial" \in e.kinds \/ (w.pass1 /\ w.homing)
  <2>1. doc.state # "none"
    BY <1>1 DEF IInv, FirstIsFirst
  <2> QED BY <1>1, <1>2, <2>1 DEF IInv, NoneBegun
<1>6. Resends(w, e) \in BOOLEAN /\ (Resends(w, e) => ~attached /\ w.stopSent)
  BY <1>2, <1>5 DEF Resends, Good, Sound
<1>7. doc.state # "none"
  BY <1>1 DEF IInv, FirstIsFirst
<1>8. CASE "link" \in e.kinds /\ Counted(FALSE, "none") /\ UNCHANGED <<w, event, pc, pass, at>>
  <2>1. live' \in Live
    BY <1>2, <1>8, CountedTyped
  <2>2. TypeOK'
    BY <1>1, <1>2, <1>8, <2>1 DEF IInv, TypeOK, env
  <2>3. InPass' /\ FirstIsFirst'
    BY <1>2, <1>4, <1>7, <1>8 DEF IInv, InPass, FirstIsFirst, env
  <2>4. "state_initial" \notin e.kinds
    BY <1>3, <1>8
  <2>5. NoneBegun'
    BY <1>2, <1>5, <1>8, <2>4 DEF NoneBegun, env
  <2> QED BY <1>6, <1>8, <2>2, <2>3, <2>5 DEF IInv, Quiet, e
<1>9. CASE "link" \notin e.kinds
  <2>1. PICK ok \in BOOLEAN : RunOn(FromStartup(Prepared(w, e, ok), e), e, Resends(w, e))
    BY <1>9 DEF Receive, Prepared, e
  <2> DEFINE r == Prepared(w, e, ok)
  <2>2. /\ Good(r)
        /\ r.first = "pause" => w.first = "pause"
        /\ r.stopSent => w.stopSent
        /\ r.pending.prepare => r.pending = w.pending /\ ~Resends(w, e)
        /\ IF e.new THEN r.retryAt = "none" ELSE r.stopSent = w.stopSent /\ r.retryAt = w.retryAt
        /\ w.pending = NoStop /\ ~w.stopSent => r.pending = NoStop
        /\ "state_initial" \in e.kinds \/ (w.pass1 /\ w.homing /\ ~e.new) => r.pass1 /\ r.homing
    BY <1>1, <1>2, <1>3, PreparedGood
  <2> HIDE DEF r
  <2>3. Waits(FromStartup(r, e), r, e) /\ RunOn(FromStartup(r, e), e, Resends(w, e))
    BY <1>1, <2>1, <2>2, FromStartupWaits DEF r
  <2>4. /\ w' \in Worker /\ event' \in Events /\ pass' \in Passes \cup {"none"} /\ at' \in Layers
        /\ pc' \in {"receive", "wait"} /\ Keeps(w', r) /\ InPass' /\ live' \in Live
        /\ pass' \in StartPasses => ~(r.pass1 /\ r.homing)
        /\ Ran(r, e, Resends(w, e))
    BY <1>1, <1>2, <1>6, <2>3, RunOnGood
  <2>5. TypeOK'
    BY <1>1, <1>2, <2>4 DEF IInv, TypeOK, env
  <2>6. FirstIsFirst'
    BY <1>2, <1>4, <1>7 DEF FirstIsFirst, env
  <2>7. NoneBegun'
    BY <1>2, <1>5, <2>2, <2>4 DEF NoneBegun, Keeps, env
  <2>8. Quiet
    BY <2>2, <2>4 DEF Quiet, Keeps
  <2>9. Takes(e, r)
    BY <2>2, <2>4 DEF Takes
  <2> QED BY <1>6, <2>4, <2>5, <2>6, <2>7, <2>8, <2>9 DEF IInv, e
<1> QED BY <1>8, <1>9 DEF Receive, e

-----------------------------------------------------------------------------
(* The history of the live print, step by step.                            *)
LEMMA LiveTyped ==
  ASSUME IInv
  PROVE  /\ live.stops \in 0 .. 3 /\ live.checks \in 0 .. 3 /\ live.late \in Nat
         /\ queue \in Seq(Events) /\ Len(queue) \in Nat /\ Ahead \in Int
         /\ InHand => Ahead = live.late - 1
         /\ ~InHand => Ahead = live.late
BY PlateAssumption DEF IInv, TypeOK, Live, Ahead

LEMMA InitHistory == Init => HInv
<1> SUFFICES ASSUME Init PROVE HInv
  OBVIOUS
<1>1. /\ live.stops = 0 /\ live.checks = 0 /\ live.late = 0
      /\ queue = <<>> /\ pc = "receive" /\ pass = "none" /\ ~cancelled
      /\ Len(queue) = 0 /\ w.retryAt = "none"
  BY UnstartedGood DEF Init, NoneSent
<1>2. ~InHand /\ Ahead = 0
  BY <1>1 DEF InHand, Ahead
<1> QED BY <1>1, <1>2 DEF HInv, Order, Stops, Sending, Checks, DueInHand, Due, Handled

(* What a step that counts adds: at most one stop and one check, and only  *)
(* where the reports of the print are handled.                             *)
LEMMA CountedStep ==
  ASSUME live \in Live, NEW sent \in BOOLEAN, NEW waits, Counted(sent, waits)
  PROVE  /\ live'.queued = live.queued
         /\ live.late > 0 =>
              /\ live'.stops = live.stops /\ live'.checks = live.checks
              /\ live'.late = IF waits = "none" THEN live.late - 1 ELSE live.late
         /\ live.late = 0 =>
              /\ live'.late = 0
              /\ live.stops <= 2 => live'.stops = IF sent THEN live.stops + 1 ELSE live.stops
              /\ live.checks <= 2 =>
                   live'.checks = IF waits \in LayerPasses THEN live.checks + 1 ELSE live.checks
<1>1. live.stops \in 0 .. 3 /\ live.checks \in 0 .. 3 /\ live.late \in Nat
  BY PlateAssumption DEF Live
<1>2. CASE live.late > 0
  BY <1>1, <1>2 DEF Counted, Live
<1>3. CASE live.late = 0
  <2> DEFINE stops == Count(live.stops, sent)
             checks == Count(live.checks, waits \in LayerPasses)
  <2>1. live' = [live EXCEPT !.stops = stops, !.checks = checks]
    BY <1>3 DEF Counted
  <2>2. live.stops <= 2 => stops = IF sent THEN live.stops + 1 ELSE live.stops
    BY <1>1 DEF Count
  <2>3. live.checks <= 2 => checks = IF waits \in LayerPasses THEN live.checks + 1 ELSE live.checks
    BY <1>1 DEF Count
  <2> HIDE DEF stops, checks
  <2>4. live'.stops = stops /\ live'.checks = checks /\ live'.late = live.late /\ live'.queued = live.queued
    BY <2>1 DEF Live
  <2> QED BY <1>3, <2>2, <2>3, <2>4
<1> QED BY <1>1, <1>2, <1>3

(* A check goes on: nothing it has sent, and nothing to come, changes.     *)
LEMMA GoesOnHistory ==
  ASSUME IInv, HInv, GoesOn
  PROVE  HInv' /\ live' = live
<1>1. InHand /\ InHand' /\ Ahead' = Ahead /\ UNCHANGED <<doc, queue, cancelled, live, event, pass>>
        /\ pc' # "ended"
  BY DEF GoesOn, InCheck, InHand, Ahead, env
<1>2. Order'
  BY <1>1 DEF HInv, Order
<1>3. Stops'
  <2>1. CASE ~w.stopSent
    BY <1>1, <2>1 DEF HInv, Stops
  <2>2. CASE w'.stopSent = w.stopSent /\ w'.pending = w.pending /\ ~Sending'
    BY <1>1, <2>2 DEF HInv, Stops
  <2> QED BY <2>1, <2>2 DEF GoesOn
<1>4. live.queued => Checks'
  <2> SUFFICES ASSUME live.queued PROVE Checks'
    OBVIOUS
  <2>1. (DueInHand' <=> DueInHand) /\ (Handled' <=> Handled) /\ \A i : Due(i)' <=> Due(i)
    BY <1>1 DEF DueInHand, Handled, Due
  <2>2. w'.retryAt = w.retryAt
    BY DEF GoesOn
  <2> QED BY <1>1, <2>1, <2>2 DEF HInv, Checks
<1> QED BY <1>1, <1>2, <1>3, <1>4 DEF HInv

(* The end of a check: the worker runs on to its next wait.                *)
LEMMA RunsOnHistory ==
  ASSUME IInv, IInv', HInv, NEW sent \in BOOLEAN, RunsOn(sent), sent <=> Sending,
         sent => w.stopSent
  PROVE  HInv' /\ (live'.stops > live.stops => sent /\ live.stops = 0)
<1> PICK v : Ran(v, event, sent) /\ Same(v)
  BY DEF RunsOn
<1>1. InHand /\ UNCHANGED <<doc, queue, cancelled>> /\ Counted(sent, pass')
        /\ (InHand' <=> pass' # "none") /\ pc' \in {"receive", "wait"}
  BY DEF RunsOn, Ran, InCheck, InHand, env
<1>2. /\ live.stops \in 0 .. 3 /\ live.checks \in 0 .. 3 /\ live.late \in Nat /\ Len(queue) \in Nat
      /\ Ahead = live.late - 1 /\ live \in Live
  BY <1>1, LiveTyped DEF IInv, TypeOK
<1>3. live'.late \in Nat /\ (InHand' => Ahead' = live'.late - 1) /\ (~InHand' => Ahead' = live'.late)
  BY PlateAssumption DEF IInv, TypeOK, Live, Ahead
<1>4. /\ live'.queued = live.queued
      /\ live.late > 0 =>
           /\ live'.stops = live.stops /\ live'.checks = live.checks
           /\ live'.late = IF pass' = "none" THEN live.late - 1 ELSE live.late
      /\ live.late = 0 =>
           /\ live'.late = 0
           /\ live.stops <= 2 => live'.stops = IF sent THEN live.stops + 1 ELSE live.stops
           /\ live.checks <= 2 =>
                live'.checks = IF pass' \in LayerPasses THEN live.checks + 1 ELSE live.checks
  BY <1>1, <1>2, CountedStep
<1>5. /\ live.late > 0 => Ahead' = Ahead
      /\ live.late = 0 => Ahead = -1 /\ Ahead' \in {-1, 0}
  BY <1>1, <1>2, <1>3, <1>4
<1>6. live.late = 0 => \A i \in 1 .. Len(queue) : ~queue[i].new
  BY <1>2, <1>5 DEF HInv, Order
<1>7. Order'
  <2>1. ~cancelled => Ahead' <= Len(queue)
    BY <1>2, <1>5 DEF HInv, Order
  <2>2. live'.late > 0 => live.late > 0 /\ live'.stops = 0 /\ live'.checks = 0
    BY <1>2, <1>4 DEF HInv, Order
  <2>3. ASSUME NEW i \in 1 .. Len(queue), queue[i].new
        PROVE  /\ i <= Ahead' + 1 /\ live'.stops = 0 /\ live'.checks = 0
               /\ ~queue[i].prepare /\ "link" \notin queue[i].kinds
    <3>1. live.late > 0
      BY <1>2, <1>6, <2>3
    <3> QED BY <1>4, <1>5, <2>3, <3>1 DEF HInv, Order
  <2>4. live'.queued /\ live'.late > 0 /\ ~cancelled => Ahead' + 1 \in 1 .. Len(queue) /\ queue[Ahead' + 1].new
    BY <1>4, <1>5, <2>2 DEF HInv, Order
  <2> QED BY <1>1, <2>1, <2>2, <2>3, <2>4 DEF Order
<1>8. live'.stops <= 2 /\ (sent => live.stops = 0)
        /\ (live'.stops > live.stops => sent /\ live.stops = 0)
  <2>1. live.stops <= 2 /\ (sent => live.stops = 0)
    BY DEF HInv, Stops
  <2>2. live'.stops = live.stops \/ (sent /\ live'.stops = live.stops + 1)
    BY <1>2, <1>4, <2>1
  <2> QED BY <1>2, <2>1, <2>2
<1>9. Stops'
  <2>1. w'.stopSent = w.stopSent /\ w'.pending = w.pending
    BY DEF Ran, Same, Keeps
  <2>2. ~Sending'
    BY <1>1 DEF Sending
  <2>3. live'.stops = live.stops \/ (sent /\ live'.stops = 1)
    BY <1>2, <1>4, <1>8 DEF HInv, Stops
  <2> QED BY <1>2, <1>8, <2>1, <2>2, <2>3 DEF HInv, Stops
<1>10. ASSUME live.queued
       PROVE  Checks'
  <2> USE <1>10
  <2>1. Checks /\ live.checks <= 2
    BY DEF HInv, Checks
  <2>2. /\ pass' = "layer" => Completes(event)
        /\ pass' = "retry" => v.retryAt # "none" /\ w'.retryAt = "none"
        /\ w'.retryAt # "none" => v.retryAt # "none"
        /\ Completes(event') => Completes(event) /\ pass' \notin {"none", "layer"}
        /\ v.retryAt = w.retryAt \/ pass = "layer"
    BY DEF Ran, Same, Keeps
  <2>3. \A i \in 1 .. Len(queue) : Due(i)' => Due(i)
    BY <1>1, <1>2, <1>5 DEF Due
  <2>4. CASE live.late > 0
    <3>1. ~DueInHand' /\ live'.checks = live.checks
      BY <1>1, <1>4, <2>4 DEF DueInHand
    <3>2. ~Handled'
      <4>1. CASE live'.late = 0
        <5>1. live.late = 1 /\ ~InHand' /\ Ahead + 1 = 1
          BY <1>1, <1>2, <1>4, <2>4, <4>1
        <5>2. cancelled \/ (1 \in 1 .. Len(queue) /\ queue[1].new)
          BY <2>4, <5>1 DEF HInv, Order
        <5>3. 1 \in 1 .. Len(queue) => queue # <<>>
          BY LiveTyped
        <5> QED BY <1>1, <5>1, <5>2, <5>3 DEF Handled
      <4>2. CASE live'.late # 0
        BY <4>2 DEF Handled
      <4> QED BY <4>1, <4>2
    <3> QED BY <1>1, <2>1, <2>3, <3>1, <3>2 DEF Checks
  <2>5. CASE live.late = 0
    <3>1. Handled
      <4>1. queue # <<>> => 1 \in 1 .. Len(queue)
        BY LiveTyped
      <4> QED BY <1>1, <1>6, <2>5, <4>1 DEF Handled
    <3>2. v.retryAt # "none" => live.checks = 1
      BY <2>1, <2>2, <3>1 DEF Checks
    <3>3. DueInHand <=> Completes(event)
      BY <1>1, <2>5 DEF DueInHand
    <3>4. CASE pass' = "layer"
      <4>1. live.checks = 0 /\ Past(doc) /\ live'.checks = 1 /\ ~DueInHand'
        BY <1>4, <2>1, <2>2, <2>5, <3>3, <3>4 DEF Checks, LayerPasses, DueInHand
      <4>2. \A i \in 1 .. Len(queue) : ~Due(i)'
        BY <2>1, <2>2, <2>3, <3>3, <3>4 DEF Checks
      <4> QED BY <1>1, <4>1, <4>2 DEF Checks
    <3>5. CASE pass' = "retry"
      <4>1. live.checks = 1 /\ Past(doc) /\ live'.checks = 2 /\ w'.retryAt = "none"
        BY <1>4, <2>1, <2>2, <2>5, <3>2, <3>5 DEF Checks, LayerPasses
      <4>2. ~DueInHand' /\ \A i \in 1 .. Len(queue) : ~Due(i)'
        BY <2>1, <2>2, <2>3, <3>3, <4>1 DEF Checks, DueInHand
      <4> QED BY <1>1, <3>5, <4>1, <4>2 DEF Checks
    <3>6. CASE pass' \notin LayerPasses
      <4>1. live'.checks = live.checks
        BY <1>4, <2>1, <2>5, <3>6
      <4>2. DueInHand' => DueInHand
        BY <2>2, <3>3 DEF DueInHand
      <4>3. w'.retryAt # "none" => live'.checks = 1
        BY <2>2, <3>2, <4>1
      <4> QED BY <1>1, <2>1, <2>3, <3>6, <4>1, <4>2, <4>3 DEF Checks, LayerPasses
    <3> QED BY <3>4, <3>5, <3>6 DEF LayerPasses
  <2> QED BY <1>2, <2>4, <2>5
<1> QED BY <1>4, <1>7, <1>8, <1>9, <1>10 DEF HInv

(* The first event of the queue is taken: what is left moves up.           *)
LEMMA TakenShift ==
  ASSUME IInv, Receive
  PROVE  /\ Head(queue) = queue[1] /\ 1 \in 1 .. Len(queue) /\ queue # <<>>
         /\ Len(queue') = Len(queue) - 1 /\ Len(queue') \in Nat
         /\ \A i \in 1 .. Len(queue') : i + 1 \in 1 .. Len(queue) /\ queue'[i] = queue[i + 1]
         /\ queue' # <<>> => 1 \in 1 .. Len(queue')
         /\ ~InHand /\ ~cancelled /\ UNCHANGED <<doc, cancelled>>
BY DEF Receive, IInv, TypeOK, InHand, env

LEMMA ReceiveHistory ==
  ASSUME IInv, IInv', HInv, Receive
  PROVE  /\ HInv'
         /\ live'.stops > live.stops =>
              live.stops <= 1 /\ w.pending.prepare /\ ~w'.pending.prepare /\ Resends(w, Head(queue))
<1> DEFINE e == Head(queue)
<1>1. /\ e = queue[1] /\ 1 \in 1 .. Len(queue) /\ queue # <<>>
      /\ Len(queue') = Len(queue) - 1 /\ Len(queue') \in Nat
      /\ \A i \in 1 .. Len(queue') : i + 1 \in 1 .. Len(queue) /\ queue'[i] = queue[i + 1]
      /\ queue' # <<>> => 1 \in 1 .. Len(queue')
      /\ ~InHand /\ ~cancelled /\ UNCHANGED <<doc, cancelled>>
  BY TakenShift
<1>2. /\ live.stops \in 0 .. 3 /\ live.checks \in 0 .. 3 /\ live.late \in Nat /\ Len(queue) \in Nat
      /\ Ahead = live.late /\ live \in Live
  BY <1>1, LiveTyped DEF IInv, TypeOK
<1>3. live'.late \in Nat /\ (InHand' => Ahead' = live'.late - 1) /\ (~InHand' => Ahead' = live'.late)
  BY PlateAssumption DEF IInv, TypeOK, Live, Ahead
<1>4. pc = "receive" /\ pass = "none" /\ Resends(w, e) \in BOOLEAN
  BY DEF Receive, IInv, InPass, Resends
<1> HIDE DEF e
<1>5. PICK sent \in BOOLEAN, next \in Passes \cup {"none"} :
        /\ Counted(sent, next) /\ (InHand' <=> next # "none") /\ pc' \in {"receive", "wait"}
        /\ next = pass'
        /\ \/ /\ "link" \in e.kinds /\ next = "none" /\ ~sent /\ w' = w
           \/ sent = Resends(w, e) /\ \E r : Takes(e, r)
  <2>1. CASE /\ "link" \in e.kinds /\ Counted(FALSE, "none") /\ UNCHANGED <<w, event, pc, pass>>
    BY <1>4, <2>1 DEF InHand
  <2>2. CASE \E r : Takes(e, r)
    BY <1>4, <2>2 DEF Takes, Ran, InHand
  <2> QED BY <2>1, <2>2, ReceiveStep DEF e
<1>6. /\ live'.queued = live.queued
      /\ live.late > 0 =>
           /\ live'.stops = live.stops /\ live'.checks = live.checks
           /\ live'.late = IF next = "none" THEN live.late - 1 ELSE live.late
      /\ live.late = 0 =>
           /\ live'.late = 0
           /\ live.stops <= 2 => live'.stops = IF sent THEN live.stops + 1 ELSE live.stops
           /\ live.checks <= 2 =>
                live'.checks = IF next \in LayerPasses THEN live.checks + 1 ELSE live.checks
  BY <1>2, <1>5, CountedStep
<1>7. /\ live.late > 0 => Ahead' = Ahead - 1
      /\ live.late = 0 => Ahead = 0 /\ Ahead' \in {-1, 0}
  BY <1>2, <1>3, <1>5, <1>6
<1>8. /\ e.new => /\ ~e.prepare /\ "link" \notin e.kinds
                  /\ live.stops = 0 /\ live.checks = 0
      /\ live.late = 0 => \A i \in 1 .. Len(queue') : ~queue'[i].new
  <2>1. e.new => /\ ~e.prepare /\ "link" \notin e.kinds
                 /\ live.stops = 0 /\ live.checks = 0
    BY <1>1 DEF HInv, Order
  <2>2. ASSUME live.late = 0, NEW i \in 1 .. Len(queue'), queue'[i].new
        PROVE  FALSE
    <3>1. i + 1 <= Ahead + 1
      BY <1>1, <2>2 DEF HInv, Order
    <3> QED BY <1>1, <1>2, <2>2, <3>1
  <2> QED BY <2>1, <2>2
<1>9. Order'
  <2>1. Ahead' <= Len(queue')
    BY <1>1, <1>2, <1>7 DEF HInv, Order
  <2>2. live'.late > 0 => live.late > 0 /\ live'.stops = 0 /\ live'.checks = 0
    BY <1>2, <1>6 DEF HInv, Order
  <2>3. ASSUME NEW i \in 1 .. Len(queue'), queue'[i].new
        PROVE  /\ i <= Ahead' + 1 /\ live'.stops = 0 /\ live'.checks = 0
               /\ ~queue'[i].prepare /\ "link" \notin queue'[i].kinds
    <3>1. live.late > 0
      BY <1>2, <1>8, <2>3
    <3>2. i + 1 <= Ahead + 1 /\ ~queue'[i].prepare /\ "link" \notin queue'[i].kinds
      BY <1>1, <2>3 DEF HInv, Order
    <3> QED BY <1>2, <1>6, <1>7, <3>1, <3>2 DEF HInv, Order
  <2>4. ASSUME live'.queued, live'.late > 0
        PROVE  Ahead' + 1 \in 1 .. Len(queue') /\ queue'[Ahead' + 1].new
    <3>1. Ahead + 1 \in 1 .. Len(queue) /\ queue[Ahead + 1].new /\ live.late > 0
      BY <1>1, <1>6, <2>2, <2>4 DEF HInv, Order
    <3>2. Ahead' + 1 \in 1 .. Len(queue')
      BY <1>1, <1>2, <1>7, <3>1
    <3>3. queue'[Ahead' + 1] = queue[(Ahead' + 1) + 1] /\ (Ahead' + 1) + 1 = Ahead + 1
      BY <1>1, <1>2, <1>7, <3>1, <3>2
    <3> QED BY <3>1, <3>2, <3>3
  <2>5. pc' # "ended"
    BY <1>5
  <2> QED BY <2>1, <2>2, <2>3, <2>4, <2>5 DEF Order
<1>10. /\ w'.stopSent => w.stopSent
       /\ ~e.new => w'.stopSent = w.stopSent
       /\ w'.pending.prepare => w'.pending = w.pending /\ ~sent
       /\ sent => w.stopSent /\ w.pending.prepare /\ ~e.new
  <2>1. CASE "link" \in e.kinds /\ next = "none" /\ ~sent /\ w' = w
    BY <2>1
  <2>2. CASE sent = Resends(w, e) /\ \E r : Takes(e, r)
    <3>1. Resends(w, e) => w.stopSent /\ w.pending.prepare /\ e.prepare
      BY ReceiveStep DEF Resends, Preparing, e
    <3> QED BY <1>8, <2>2, <3>1 DEF Takes, Ran, Keeps
  <2> QED BY <1>5, <2>1, <2>2
<1>11. live'.stops = live.stops \/ (sent /\ live'.stops = live.stops + 1)
  BY <1>2, <1>6 DEF HInv, Stops
<1>12. Stops'
  <2>1. ~Sending'
    BY <1>5 DEF Sending
  <2>2. ~w'.stopSent => live'.stops = 0
    BY <1>8, <1>10, <1>11 DEF HInv, Stops
  <2>3. sent => live.stops <= 1
    BY <1>10 DEF HInv, Stops
  <2>4. live'.stops <= 2
    BY <1>2, <1>11, <2>3 DEF HInv, Stops
  <2>5. w'.pending.prepare => live'.stops <= 1
    BY <1>2, <1>10, <1>11 DEF HInv, Stops
  <2> QED BY <2>1, <2>2, <2>4, <2>5 DEF Stops
<1>13. ASSUME live.queued
       PROVE  Checks'
  <2> USE <1>13
  <2>1. Checks /\ live.checks <= 2
    BY DEF HInv, Checks
  <2>2. /\ next = "layer" => Completes(e)
        /\ next = "retry" => w.retryAt # "none" /\ w'.retryAt = "none" /\ ~e.new
        /\ w'.retryAt # "none" => w.retryAt # "none" /\ ~e.new
        /\ next # "none" /\ Completes(event') => Completes(e) /\ next # "layer"
    <3>1. CASE "link" \in e.kinds /\ next = "none" /\ ~sent /\ w' = w
      BY <1>8, <3>1
    <3>2. CASE sent = Resends(w, e) /\ \E r : Takes(e, r)
      BY <1>5, <3>2 DEF Takes, Ran, Keeps
    <3> QED BY <1>5, <3>1, <3>2
  <2>3. \A i \in 1 .. Len(queue') : Due(i)' => i + 1 \in 1 .. Len(queue) /\ Due(i + 1)
    BY <1>1, <1>2, <1>7 DEF Due
  <2>4. ~DueInHand
    BY <1>1 DEF DueInHand
  <2>5. \A i \in 1 .. Len(queue') : Due(i)' =>
          /\ Past(doc) /\ live.checks = 0
          /\ \A j \in 1 .. Len(queue') : Due(j)' => i = j
    BY <1>1, <2>1, <2>3 DEF Checks
  <2>6. CASE live.late > 0
    <3>1. ~DueInHand' /\ live'.checks = live.checks
      BY <1>2, <1>5, <1>6, <2>6 DEF DueInHand
    <3>2. ~Handled'
      <4>1. CASE live'.late = 0
        <5>1. live.late = 1 /\ Ahead = 1
          BY <1>2, <1>6, <2>6, <4>1
        <5>2. 2 \in 1 .. Len(queue) /\ queue[2].new
          BY <1>1, <2>6, <5>1 DEF HInv, Order
        <5>3. 1 \in 1 .. Len(queue') /\ queue'[1] = queue[1 + 1]
          BY <1>1, <1>2, <5>2
        <5>4. queue' # <<>>
          BY <1>1, <5>3
        <5> QED BY <5>2, <5>3, <5>4 DEF Handled
      <4>2. CASE live'.late # 0
        BY <4>2 DEF Handled
      <4> QED BY <4>1, <4>2
    <3> QED BY <1>1, <2>1, <2>5, <3>1, <3>2 DEF Checks
  <2>7. CASE live.late = 0
    <3>1. ~e.new /\ w.retryAt # "none" => live.checks = 1
      <4>1. ~e.new => Handled
        BY <1>1, <2>7 DEF Handled
      <4> QED BY <2>1, <4>1 DEF Checks
    <3>2. Completes(e) => Due(1)
      BY <1>1, <1>7, <2>7 DEF Due
    <3>3. CASE next = "layer"
      <4>1. live.checks = 0 /\ Past(doc) /\ live'.checks = 1 /\ ~DueInHand'
        BY <1>1, <1>6, <2>1, <2>2, <2>7, <3>2, <3>3 DEF Checks, LayerPasses, DueInHand
      <4>2. \A i \in 1 .. Len(queue') : ~Due(i)'
        <5> SUFFICES ASSUME NEW i \in 1 .. Len(queue'), Due(i)' PROVE FALSE
          OBVIOUS
        <5>1. i + 1 = 1
          BY <1>1, <2>1, <2>2, <2>3, <3>2, <3>3 DEF Checks
        <5> QED BY <1>1, <5>1
      <4> QED BY <1>1, <4>1, <4>2 DEF Checks
    <3>4. CASE next = "retry"
      <4>1. live.checks = 1 /\ Past(doc) /\ live'.checks = 2 /\ w'.retryAt = "none"
        BY <1>6, <2>1, <2>2, <2>7, <3>1, <3>4 DEF Checks, LayerPasses
      <4>2. \A i \in 1 .. Len(queue') : ~Due(i)'
        BY <2>5, <4>1
      <4>3. ~DueInHand'
        BY <1>1, <1>5, <2>1, <2>2, <3>2, <4>1 DEF Checks, DueInHand
      <4> QED BY <1>1, <1>5, <3>4, <4>1, <4>2, <4>3 DEF Checks
    <3>5. CASE next \notin LayerPasses
      <4>1. live'.checks = live.checks
        BY <1>6, <2>1, <2>7, <3>5
      <4>2. DueInHand' => /\ Past(doc) /\ live.checks = 0
                          /\ \A i \in 1 .. Len(queue') : ~Due(i)'
        <5> SUFFICES ASSUME DueInHand' PROVE /\ Past(doc) /\ live.checks = 0
                                             /\ \A i \in 1 .. Len(queue') : ~Due(i)'
          OBVIOUS
        <5>1. Due(1)
          BY <1>5, <2>2, <3>2 DEF DueInHand
        <5>2. ASSUME NEW i \in 1 .. Len(queue'), Due(i)' PROVE FALSE
          <6>1. i + 1 = 1
            BY <1>1, <2>1, <2>3, <5>1, <5>2 DEF Checks
          <6> QED BY <1>1, <5>2, <6>1
        <5> QED BY <1>1, <2>1, <5>1, <5>2 DEF Checks
      <4>3. w'.retryAt # "none" => live'.checks = 1
        BY <2>2, <3>1, <4>1
      <4> QED BY <1>1, <1>5, <2>1, <2>5, <3>5, <4>1, <4>2, <4>3 DEF Checks, LayerPasses
    <3> QED BY <3>3, <3>4, <3>5 DEF LayerPasses
  <2> QED BY <1>2, <2>6, <2>7
<1>14. live'.stops > live.stops => live.stops <= 1 /\ w.pending.prepare /\ ~w'.pending.prepare /\ Resends(w, e)
  BY <1>2, <1>5, <1>10, <1>11 DEF HInv, Stops
<1> QED BY <1>6, <1>9, <1>12, <1>13, <1>14 DEF HInv, e

(* An event that begins no print is queued, or dropped: the report that    *)
(* completes the first layer comes once.                                   *)
LEMMA AddedHistory ==
  ASSUME IInv, HInv, NEW e \in Events, Observe(e), ~e.new, ~cancelled,
         UNCHANGED <<live, w, pc, event, pass, cancelled>>,
         Past(doc) => Past(doc'), Completes(e) => ~Past(doc) /\ Past(doc')
  PROVE  HInv'
<1>1. live.checks \in 0 .. 3 /\ Len(queue) \in Nat /\ queue \in Seq(Events) /\ Len(queue) <= QueueCap
  BY LiveTyped DEF IInv, TypeOK
<1>2. /\ Len(queue') \in Nat /\ Len(queue) <= Len(queue')
      /\ \A i \in 1 .. Len(queue) : i \in 1 .. Len(queue') /\ queue'[i] = queue[i]
      /\ \A i \in 1 .. Len(queue') : i \in 1 .. Len(queue) \/ (i = Len(queue) + 1 /\ queue'[i] = e)
      /\ queue # <<>> => queue' # <<>> /\ 1 \in 1 .. Len(queue)
  <2>1. CASE Len(queue) < QueueCap
    BY <1>1, <2>1 DEF Observe
  <2>2. CASE ~(Len(queue) < QueueCap)
    BY <1>1, <2>2 DEF Observe
  <2> QED BY <2>1, <2>2
<1>3. InHand' = InHand /\ Ahead' = Ahead /\ Ahead \in Int
  BY LiveTyped DEF InHand, Ahead
<1>4. Order'
  <2>1. \A i \in 1 .. Len(queue') : queue'[i].new => i \in 1 .. Len(queue) /\ queue'[i] = queue[i]
    BY <1>2
  <2>2. ~cancelled => Ahead <= Len(queue')
    BY <1>1, <1>2, <1>3 DEF HInv, Order
  <2>3. Ahead + 1 \in 1 .. Len(queue) =>
          Ahead + 1 \in 1 .. Len(queue') /\ queue'[Ahead + 1] = queue[Ahead + 1]
    BY <1>2
  <2> QED BY <1>3, <2>1, <2>2, <2>3 DEF HInv, Order
<1>5. Stops'
  BY DEF HInv, Stops, Sending
<1>6. ASSUME live.queued
      PROVE  Checks'
  <2>1. Checks
    BY <1>6 DEF HInv
  <2>2. DueInHand' <=> DueInHand
    BY <1>3 DEF DueInHand
  <2>3. \A i \in 1 .. Len(queue) : Due(i)' => Due(i)
    BY <1>2, <1>3 DEF Due
  <2>4. ASSUME NEW i \in 1 .. Len(queue'), i \notin 1 .. Len(queue), Due(i)'
        PROVE  i = Len(queue) + 1 /\ Completes(e)
    BY <1>2, <2>4 DEF Due
  <2>5. ASSUME NEW i \in 1 .. Len(queue'), Due(i)'
        PROVE  /\ Past(doc') /\ live.checks = 0 /\ ~DueInHand
               /\ \A j \in 1 .. Len(queue') : Due(j)' => i = j
    <3>1. CASE i \in 1 .. Len(queue)
      <4>1. Due(i) /\ Past(doc) /\ live.checks = 0 /\ ~DueInHand
        BY <2>1, <2>3, <2>5, <3>1 DEF Checks
      <4>2. \A j \in 1 .. Len(queue') : Due(j)' => j \in 1 .. Len(queue)
        BY <2>4, <4>1
      <4> QED BY <2>1, <2>3, <3>1, <4>1, <4>2 DEF Checks
    <3>2. CASE i \notin 1 .. Len(queue)
      <4>1. i = Len(queue) + 1 /\ ~Past(doc) /\ Past(doc')
        BY <2>4, <2>5, <3>2
      <4>2. live.checks = 0 /\ ~DueInHand /\ \A j \in 1 .. Len(queue) : ~Due(j)
        BY <1>1, <2>1, <4>1 DEF Checks
      <4> QED BY <2>3, <2>4, <4>1, <4>2
    <3> QED BY <3>1, <3>2
  <2>6. Handled' => Handled
    BY <1>2, <1>3 DEF Handled
  <2>7. (live.checks > 0 => Past(doc')) /\ (DueInHand => Past(doc'))
    BY <2>1 DEF Checks
  <2> QED BY <2>1, <2>2, <2>5, <2>6, <2>7 DEF Checks
<1> QED BY <1>4, <1>5, <1>6 DEF HInv

(* A layer once past stays past until the next print.                      *)
LEMMA StaysPast ==
  ASSUME doc \in Docs, NEW n \in Successors(doc)
  PROVE  /\ FirstLayerComplete(doc, n) => ~Past(doc) /\ Past(n) /\ ~NewJob(doc, n)
         /\ Past(doc) /\ ~NewJob(doc, n) => Past(n)
<1>1. n \in Docs /\ doc.layer \in Int /\ n.layer \in Int /\ doc.state \in States /\ n.state \in States
  <2>1. n \in Docs
    BY DEF Successors
  <2>2. \A d \in Docs : d.layer \in Layers /\ d.state \in Reported \cup {"none"}
    BY DEF Docs
  <2>3. Layers \subseteq Int /\ Reported \cup {"none"} \subseteq States
    BY PlateAssumption DEF Layers, Unknown, States
  <2> QED BY <2>1, <2>2, <2>3
<1>2. doc.state # "none" =>
         \/ n.state \in {"IDLE", "PAUSE"} /\ n.layer = doc.layer
         \/ n.state \in Preparing /\ doc.state \in Preparing \cup {"IDLE"} /\ n.layer = doc.layer
         \/ n.state = "RUNNING" /\ doc.state \in {"RUNNING", "PAUSE"} /\ n.layer >= doc.layer
         \/ n.state = "RUNNING" /\ doc.state \in Preparing \cup {"IDLE"} /\ n.layer = 0
         \/ n = doc
  BY DEF Successors
<1>3. n.state = "PAUSE" => doc.state \in {"none", "RUNNING", "PAUSE"}
  BY DEF Successors
<1>4. ASSUME FirstLayerComplete(doc, n)
      PROVE  ~Past(doc) /\ Past(n) /\ ~NewJob(doc, n)
  <2>1. n.state \in {"RUNNING", "PAUSE"} /\ doc.layer <= 1 /\ n.layer >= 2
    BY <1>4 DEF FirstLayerComplete
  <2>2. n.state = "RUNNING" => doc.state \in {"RUNNING", "PAUSE"}
    BY <1>1, <1>2, <1>4, <2>1 DEF FirstLayerComplete
  <2> QED BY <1>1, <2>1, <2>2 DEF Past, NewJob, Preparing
<1>5. ASSUME Past(doc), ~NewJob(doc, n)
      PROVE  Past(n)
  <2>1. doc.layer >= 2 /\ doc.state \in {"RUNNING", "PAUSE", "IDLE"}
    BY <1>5 DEF Past
  <2>2. doc.state = "IDLE" => n.state # "RUNNING" /\ n.state \notin Preparing
    BY <1>5 DEF NewJob, Preparing
  <2>3. n.layer >= 2 /\ n.state \in {"RUNNING", "PAUSE", "IDLE"}
    BY <1>1, <1>2, <2>1, <2>2 DEF Preparing
  <2> QED BY <2>3 DEF Past
<1> QED BY <1>4, <1>5

LEMMA ReportHistory ==
  ASSUME IInv, HInv, Report
  PROVE  HInv' /\ ~(live'.stops > live.stops)
<1> PICK n \in Successors(doc) :
      /\ doc' = n /\ Observe(EventOf(doc, n)) /\ UNCHANGED <<w, pc, event, pass, cancelled>>
      /\ live' = IF NewJob(doc, n)
                   THEN NoneSent(Len(queue) + (IF pc = "receive" THEN 0 ELSE 1), Len(queue) < QueueCap)
                 ELSE live
  BY DEF Report
<1> DEFINE e == EventOf(doc, n)
<1>1. doc \in Docs /\ n \in Docs /\ ~cancelled
  BY DEF Successors, IInv, TypeOK, Report, Settled
<1>2. /\ e \in Events /\ e.new = NewJob(doc, n) /\ "link" \notin e.kinds /\ (e.prepare <=> doc.state = "PREPARE")
      /\ Completes(e) <=> FirstLayerComplete(doc, n)
  BY <1>1, EventTyped
<1>3. /\ Completes(e) => ~Past(doc) /\ Past(n) /\ ~e.new
      /\ Past(doc) /\ ~e.new => Past(n)
  BY <1>1, <1>2, StaysPast
<1>4. Observe(e)
  OBVIOUS
<1> HIDE DEF e
<1>5. CASE ~NewJob(doc, n)
  <2>1. live' = live
    BY <1>5
  <2>2. live.stops \in Int
    BY LiveTyped
  <2> QED BY <1>1, <1>2, <1>3, <1>4, <1>5, <2>1, <2>2, AddedHistory
<1>6. CASE NewJob(doc, n)
  <2>1. /\ Len(queue) \in Nat /\ queue \in Seq(Events) /\ live.stops \in 0 .. 3
        /\ Len(queue) <= QueueCap /\ QueueCap \in Nat \ {0}
    BY LiveTyped, PlateAssumption DEF IInv, TypeOK
  <2> DEFINE late == Len(queue) + (IF pc = "receive" THEN 0 ELSE 1)
             queued == Len(queue) < QueueCap
  <2>2. live'.stops = 0 /\ live'.checks = 0 /\ (live'.queued => Len(queue) < QueueCap)
          /\ live'.late = IF pc = "receive" THEN Len(queue) ELSE Len(queue) + 1
    <3>1. live' = NoneSent(late, queued)
      BY <1>6
    <3> HIDE DEF late, queued
    <3>2. live'.stops = 0 /\ live'.checks = 0 /\ live'.late = late /\ live'.queued = queued
      BY <3>1 DEF NoneSent
    <3>3. queued => Len(queue) < QueueCap
      BY DEF queued
    <3>4. late = IF pc = "receive" THEN Len(queue) ELSE Len(queue) + 1
      BY <2>1 DEF late
    <3> QED BY <3>2, <3>3, <3>4
  <2>3. (InHand' <=> pc # "receive") /\ pc # "ended" /\ Ahead' = Len(queue)
    BY <1>1, <2>1, <2>2 DEF HInv, Order, InHand, Ahead
  <2>4. e.new /\ ~e.prepare /\ "link" \notin e.kinds /\ ~Completes(e)
    BY <1>2, <1>3, <1>6 DEF NewJob, Preparing
  <2>5. /\ Len(queue') \in Nat /\ Len(queue) <= Len(queue')
        /\ \A i \in 1 .. Len(queue') :
              (i \in 1 .. Len(queue) /\ queue'[i] = queue[i]) \/ (i = Len(queue) + 1 /\ queue'[i] = e)
        /\ Len(queue) < QueueCap => Len(queue) + 1 \in 1 .. Len(queue') /\ queue'[Len(queue) + 1] = e
        /\ queue = <<>> => queue' # <<>> /\ queue'[1] = e
    <3>1. CASE Len(queue) < QueueCap
      BY <1>2, <1>4, <2>1, <3>1 DEF Observe
    <3>2. CASE ~(Len(queue) < QueueCap)
      BY <1>4, <2>1, <3>2 DEF Observe
    <3> QED BY <3>1, <3>2
  <2>6. Order'
    <3>1. ASSUME NEW i \in 1 .. Len(queue'), queue'[i].new
          PROVE  i <= Len(queue) + 1 /\ ~queue'[i].prepare /\ "link" \notin queue'[i].kinds
      BY <2>1, <2>4, <2>5, <3>1 DEF HInv, Order
    <3> QED BY <1>1, <2>2, <2>3, <2>4, <2>5, <3>1 DEF Order
  <2>7. Stops'
    BY <2>2 DEF Stops
  <2>8. ASSUME live'.queued
        PROVE  Checks'
    <3>1. ~DueInHand'
      BY <2>1, <2>2, <2>3 DEF DueInHand
    <3>2. \A i \in 1 .. Len(queue') : ~Due(i)'
      BY <2>1, <2>3, <2>4, <2>5 DEF Due
    <3>3. ~Handled'
      <4>1. live'.late = 0 => queue = <<>>
        BY <2>1, <2>2
      <4> QED BY <2>4, <2>5, <4>1 DEF Handled
    <3> QED BY <2>2, <3>1, <3>2, <3>3 DEF Checks
  <2> QED BY <2>1, <2>2, <2>6, <2>7, <2>8 DEF HInv
<1> QED BY <1>5, <1>6

LEMMA LinkHistory ==
  ASSUME IInv, HInv, LinkChanges
  PROVE  HInv' /\ live' = live
BY AddedHistory, LinkTyped DEF LinkChanges, Settled

(* The clock and the shutdown.                                             *)
LEMMA ElapseHistory ==
  ASSUME IInv, HInv, Elapse
  PROVE  HInv' /\ live' = live
<1>1. UNCHANGED <<doc, live, queue, pc, event, pass, cancelled>> /\ w.retryAt = "later"
  BY DEF Elapse, env
<1>2. w'.stopSent = w.stopSent /\ w'.pending = w.pending
  BY ElapseStep
<1>3. InHand' = InHand /\ Ahead' = Ahead
  BY <1>1 DEF InHand, Ahead
<1>4. Order'
  BY <1>1, <1>3 DEF HInv, Order
<1>5. Stops'
  BY <1>1, <1>2 DEF HInv, Stops, Sending
<1>6. live.queued => Checks'
  <2>1. (DueInHand' <=> DueInHand) /\ (Handled' <=> Handled) /\ \A i : Due(i)' <=> Due(i)
    BY <1>1, <1>3 DEF DueInHand, Handled, Due
  <2> QED BY <1>1, <2>1 DEF HInv, Checks
<1> QED BY <1>1, <1>4, <1>5, <1>6 DEF HInv

LEMMA CancelHistory ==
  ASSUME IInv, HInv, Cancel
  PROVE  HInv' /\ live' = live
<1>1. /\ UNCHANGED <<doc, live, w, pc, event, pass>> /\ cancelled' /\ ~cancelled
      /\ queue' = <<>> /\ Len(queue') = 0
  BY DEF Cancel, env
<1>2. InHand' = InHand /\ Ahead' = Ahead
  BY <1>1 DEF InHand, Ahead
<1>3. Order'
  BY <1>1, <1>2 DEF HInv, Order
<1>4. Stops'
  BY <1>1 DEF HInv, Stops, Sending
<1>5. live.queued => Checks'
  <2> SUFFICES ASSUME live.queued PROVE Checks'
    OBVIOUS
  <2>1. DueInHand' <=> DueInHand
    BY <1>1, <1>2 DEF DueInHand
  <2>2. Handled' => Handled
    <3> SUFFICES ASSUME Handled' PROVE Handled
      OBVIOUS
    <3>1. live.late = 0 /\ InHand
      BY <1>1, <1>2 DEF Handled
    <3>2. ~(queue # <<>> /\ queue[1].new)
      <4>1. queue # <<>> => 1 \in 1 .. Len(queue)
        BY LiveTyped
      <4>2. Ahead = -1
        BY <3>1, LiveTyped
      <4> QED BY <4>1, <4>2 DEF HInv, Order
    <3> QED BY <3>1, <3>2 DEF Handled
  <2> QED BY <1>1, <2>1, <2>2 DEF HInv, Checks
<1> QED BY <1>1, <1>3, <1>4, <1>5 DEF HInv

LEMMA EndHistory ==
  ASSUME IInv, HInv, End
  PROVE  HInv' /\ live' = live
<1>1. /\ UNCHANGED <<doc, live, w, queue, event, pass, cancelled>> /\ cancelled
      /\ pc = "receive" /\ pc' = "ended"
  BY DEF End, env
<1>2. ~InHand /\ ~InHand' /\ Ahead' = Ahead
  BY <1>1 DEF InHand, Ahead
<1>3. Order' /\ Stops'
  BY <1>1, <1>2 DEF HInv, Order, Stops, Sending
<1>4. live.queued => Checks'
  <2>1. ~DueInHand' /\ ~Handled' /\ \A i : Due(i)' <=> Due(i)
    BY <1>1, <1>2 DEF DueInHand, Handled, Due
  <2>2. ~DueInHand
    BY <1>2 DEF DueInHand
  <2> QED BY <1>1, <2>1, <2>2 DEF HInv, Checks
<1> QED BY <1>1, <1>3, <1>4 DEF HInv
-----------------------------------------------------------------------------
(* The invariant, and every way a step may send or decide a command.       *)
Inv == IInv /\ HInv

Steps ==
  /\ live'.stops > live.stops =>
       /\ ~attached
       /\ live.stops = 0 \/ (live.stops = 1 /\ w.pending.prepare /\ ~w'.pending.prepare)
  /\ ~w.stopSent /\ w'.stopSent => AtStart /\ ~cancelled
  /\ w.first # "pause" /\ w'.first = "pause" => online /\ doc.state = "RUNNING" /\ ~cancelled

(* A step that sends and decides nothing.                                  *)
LEMMA QuietSteps ==
  ASSUME live'.stops > live.stops => FALSE, Quiet \/ w' = w
  PROVE  Steps
BY DEF Quiet, Steps

LEMMA NextInv == Inv /\ [Next]_vars => Inv' /\ [Steps]_vars
<1> SUFFICES ASSUME IInv, HInv, [Next]_vars PROVE IInv' /\ HInv' /\ [Steps]_vars
  BY DEF Inv
<1>1. live.stops \in 0 .. 3
  BY LiveTyped
<1>2. live' = live => ~(live'.stops > live.stops)
  BY <1>1
<1>3. CASE Report
  BY <1>3, ReportStep, ReportHistory, QuietSteps
<1>4. CASE LinkChanges
  BY <1>2, <1>4, LinkStep, LinkHistory, QuietSteps
<1>5. CASE Elapse
  BY <1>2, <1>5, ElapseStep, ElapseHistory, QuietSteps
<1>6. CASE Cancel
  BY <1>2, <1>6, CancelStep, CancelHistory, QuietSteps
<1>7. CASE Receive
  <2>1. /\ IInv' /\ HInv' /\ Quiet
        /\ live'.stops > live.stops =>
             ~attached /\ live.stops <= 1 /\ w.pending.prepare /\ ~w'.pending.prepare
    BY <1>7, ReceiveStep, ReceiveHistory
  <2> QED BY <1>1, <2>1 DEF Steps, Quiet
<1>8. ASSUME IInv', Quiet, RunsOn(FALSE) \/ GoesOn, ~Sending
      PROVE  HInv' /\ Steps
  <2>1. CASE RunsOn(FALSE)
    BY <1>8, <2>1, RunsOnHistory, QuietSteps
  <2>2. CASE GoesOn
    BY <1>2, <1>8, <2>2, GoesOnHistory, QuietSteps
  <2> QED BY <1>8, <2>1, <2>2
<1>9. CASE Fail
  BY <1>8, <1>9, FailStep
<1>10. CASE Judge
  BY <1>8, <1>10, JudgeStep
<1>11. CASE JudgeLayer
  BY <1>8, <1>11, JudgeLayerStep
<1>12. CASE Recheck
  <2>1. IInv' /\ (RunsOn(FALSE) \/ GoesOn) /\ ~Sending
    BY <1>12, RecheckStep
  <2>2. HInv' /\ ~(live'.stops > live.stops)
    BY <1>2, <2>1, RunsOnHistory, GoesOnHistory
  <2> QED BY <1>12, <2>1, <2>2, RecheckStep DEF Steps
<1>13. CASE SendStop
  <2>1. IInv' /\ Quiet /\ RunsOn(TRUE) /\ Sending /\ ~attached /\ w.stopSent
    BY <1>13, SendStopStep
  <2>2. HInv' /\ (live'.stops > live.stops => live.stops = 0)
    BY <2>1, RunsOnHistory
  <2> QED BY <2>1, <2>2 DEF Steps, Quiet
<1>14. CASE SendPause
  BY <1>8, <1>14, SendPauseStep
<1>15. CASE End
  BY <1>2, <1>15, EndStep, EndHistory, QuietSteps
<1>16. CASE UNCHANGED vars
  <2>1. UNCHANGED <<env, live, queue, w, pc, event, pass, at, cancelled>>
    BY <1>16 DEF vars, env
  <2>2. IInv'
    BY <2>1 DEF IInv, TypeOK, InPass, FirstIsFirst, NoneBegun, env
  <2>3. HInv'
    BY <2>1 DEF HInv, Order, Stops, Sending, Checks, DueInHand, Due, Handled, InHand, Ahead, env
  <2> QED BY <1>16, <2>2, <2>3
<1> QED BY <1>3, <1>4, <1>5, <1>6, <1>7, <1>9, <1>10, <1>11, <1>12, <1>13, <1>14, <1>15, <1>16
        DEF Next, Work

LEMMA Invariant == Spec => []Inv /\ [][Steps]_vars
<1>1. Init => Inv
  BY InitInv, InitHistory DEF Inv
<1>2. Inv /\ [Next]_vars => Inv' /\ [Steps]_vars
  BY NextInv
<1> QED BY <1>1, <1>2, PTL DEF Spec

(* The variables keep their types, and the queue its bound.                *)
THEOREM TypeCorrect == Spec => []TypeOK
<1>1. Inv => TypeOK
  BY DEF Inv, IInv
<1> QED BY <1>1, Invariant, PTL

(* The page says that a stop awaits its confirmation exactly as long as    *)
(* the worker awaits it (worker.status and worker.pending).                *)
THEOREM StopAlwaysShown == Spec => []StopShown
<1>1. Inv => StopShown
  BY DEF Inv, IInv, TypeOK, InPass, Good, Shown, StopShown, Passes, StartPasses, LayerPasses
<1> QED BY <1>1, Invariant, PTL

(* The reports of a print whose first one the queue took lead to one check *)
(* of its first layer and one retry, whatever the queue dropped of the     *)
(* rest and whatever the print before left (worker.handle, layerRetryAt).  *)
THEOREM RetriesOnce == Spec => []OneRetry
<1>1. Inv => OneRetry
  BY DEF Inv, HInv, Checks, OneRetry
<1> QED BY <1>1, Invariant, PTL

(* The reports of a print lead to one stop, and to a second only as the    *)
(* repeat of one sent during PREPARE (worker.check and worker.resolve).    *)
THEOREM StopsAtMostOnce == Spec => StopsOnce
<1>1. [Steps]_vars =>
        [live'.stops > live.stops =>
           \/ live.stops = 0
           \/ live.stops = 1 /\ w.pending.prepare /\ ~w'.pending.prepare]_vars
  BY DEF Steps
<1> QED BY <1>1, Invariant, PTL DEF StopsOnce

(* A print under way when the proxy starts is never stopped                *)
(* (worker.handle, state_initial).                                         *)
THEOREM AttachedNeverStopped == Spec => AttachedNotStopped
<1>1. [Steps]_vars => [live'.stops > live.stops => ~attached]_vars
  BY DEF Steps
<1> QED BY <1>1, Invariant, PTL DEF AttachedNotStopped

(* A command is decided only while the live printer is where it makes      *)
(* sense (worker.check and worker.checkLayer).                             *)
THEOREM CommandsAlwaysFit == Spec => CommandsFit
<1>1. [Steps]_vars =>
        [/\ ~w.stopSent /\ w'.stopSent => AtStart /\ ~cancelled
         /\ w.first # "pause" /\ w'.first = "pause" => online /\ doc.state = "RUNNING" /\ ~cancelled]_vars
  BY DEF Steps
<1> QED BY <1>1, Invariant, PTL DEF CommandsFit
=============================================================================
