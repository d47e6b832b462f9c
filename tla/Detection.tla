------------------------------- MODULE Detection -------------------------------
(***************************************************************************)
(* AI failure detection for one camera-capable printer                     *)
(* (internal/detection/worker.go, engine.go): reports and the user change  *)
(* the session while the worker waits for a frame or for Gadget, so the    *)
(* worker compares its print counter before it acts, and commandMu keeps   *)
(* the user's switch out of a decision and the command that follows it.    *)
(* SLICING counts as PREPARE, and every document reports a layer.  The     *)
(* length of waits, the backup server and a status's text are left out.    *)
(***************************************************************************)
EXTENDS Naturals, PrintEvents

CONSTANTS
  MaxPrints, \* bound: sessions
  MaxLayer   \* bound: layers

ASSUME DetectionAssumption ==
  MaxPrints \in Nat \ {0} /\ MaxLayer \in Nat

VARIABLES
  doc, online,  \* worker.doc: its gcode_state and layer; worker.online
  counter,      \* worker.counter: the current print, 0 before the first
  disabled,     \* the user's off for this print
  held,         \* the user's off until turned on
  latched,      \* the print's one pause was decided
  lightDone,    \* the print's one light command was decided
  pauseLayer,   \* the layer at that pause
  pauseState,   \* st.PauseState
  invalid,      \* st.Reason is request_invalid
  later,        \* due lies ahead
  outcomes,     \* verdicts in worker.outcomes
  wake,         \* worker.wake holds a token
  nudges,       \* whose nudge() is still to come
  suspended,    \* Engine.suspended
  pc,           \* where the worker is
  mine,         \* its copy of counter, and contextCounter
  gadget,       \* it holds a Gadget context
  holding,      \* it holds the camera
  camera,       \* the capture's latest frame: none, of an earlier print, of this one
  fresh,        \* that frame is above lastSeq
  said          \* the prints whose pause was recorded and sent

session == <<counter, disabled, held, latched, lightDone, pauseLayer, pauseState, invalid, later>>
env == <<doc, online, nudges>>
local == <<mine, gadget, holding>>
frame == <<camera, fresh>>
record == <<outcomes, said>>
vars == <<session, env, local, frame, record, wake, suspended, pc>>

Prints == 0 .. MaxPrints
Layers == 0 .. MaxLayer
Docs == [state : States \ {"SLICING"}, layer : Layers]
OutcomeCap == 64 \* cap(outcomes)

(* Where the worker holds commandMu.                                       *)
Commanding == {"lightSend", "say", "send", "unsent"}

(* The types; at most two verdicts ever wait for the worker, so its queue  *)
(* drops none.                                                             *)
TypeOK ==
  /\ doc \in Docs /\ camera \in {"none", "past", "now"} /\ outcomes \in 0 .. 2
  /\ {counter, mine} \subseteq Prints
  /\ pauseLayer \in Layers
  /\ pauseState \in {"none", "pending", "confirmed", "unconfirmed"}
  /\ {online, disabled, held, latched, lightDone, invalid, later, wake, suspended, gadget,
      holding, fresh} \subseteq BOOLEAN
  /\ nudges \subseteq {"store", "user"}
  /\ pc \in {"top", "park", "sleep", "arm", "timer", "light", "context", "frame", "process", "fine", "bad"}
            \cup Commanding
  /\ said \subseteq Prints

Init ==
  /\ doc = [state |-> "none", layer |-> 0] /\ online = FALSE
  /\ counter = 0 /\ disabled = FALSE /\ held = FALSE /\ latched = FALSE /\ lightDone = FALSE
  /\ pauseLayer = 0 /\ pauseState = "none" /\ invalid = FALSE /\ later = FALSE
  /\ outcomes = 0 /\ wake = FALSE /\ nudges = {} /\ suspended = FALSE
  /\ pc = "top" /\ mine = 0 /\ gadget = FALSE
  /\ holding = FALSE /\ camera = "none" /\ fresh = FALSE
  /\ said = {}

-----------------------------------------------------------------------------
(* Reports: Engine.observe under the store's event lock.                   *)

Active(d) == d.state \in {"RUNNING", "PAUSE"}

(* sessionResetReason: a new job, or a print under way at the first report.*)
Resets(d) == NewJob(doc, d) \/ (StateInitial(doc, d) /\ d.state # "IDLE")

(* What a document says of a pause that waits for an answer.               *)
Answer(d) ==
  IF d.state # "RUNNING" THEN "confirmed"
  ELSE IF d.layer > pauseLayer THEN "unconfirmed" ELSE "pending"

\* Mutant: only reports of an active print answer it.
NextPauseActive(d, reset) ==
  IF reset THEN "none" ELSE IF pauseState = "pending" /\ Active(d) THEN Answer(d) ELSE pauseState

NextPause(d, reset) ==
  IF reset THEN "none" ELSE IF pauseState = "pending" THEN Answer(d) ELSE pauseState

Apply(d, on, reset) ==
  LET answer == NextPause(d, reset)
      news == ~reset /\ answer # pauseState
  IN  /\ doc' = d /\ online' = on
      /\ counter' = IF reset THEN counter + 1 ELSE counter
      /\ disabled' = (disabled /\ ~reset /\ Active(d))
      /\ latched' = (latched /\ ~reset)
      /\ lightDone' = (lightDone /\ ~reset)
      /\ pauseLayer' = IF reset THEN 0 ELSE pauseLayer
      /\ pauseState' = answer
      /\ invalid' = (invalid /\ ~reset /\ ~(news /\ answer = "unconfirmed"))
      /\ later' = (later /\ ~reset)
      /\ outcomes' = IF news /\ outcomes < OutcomeCap THEN outcomes + 1 ELSE outcomes
      /\ camera' = IF reset /\ camera = "now" THEN "past" ELSE camera
      /\ UNCHANGED held

Observe(d, on, reset) ==
  /\ "store" \notin nudges
  /\ Apply(d, on, reset)
  /\ nudges' = nudges \cup {"store"}
  /\ UNCHANGED <<local, fresh, said, wake, suspended, pc>>

(* Store.Apply.                                                            *)
Report(d) ==
  /\ d.state # "none"
  /\ Resets(d) => counter < MaxPrints
  /\ Observe(d, online, Resets(d))

(* Store.SetOnline.                                                        *)
SetOnline == Observe(doc, ~online, FALSE)

\* Mutant: the wake channel has no buffer.
NudgeUnbuffered(n) ==
  /\ n \in nudges
  /\ nudges' = nudges \ {n}
  /\ wake' = (wake \/ pc \in {"sleep", "timer"})
  /\ UNCHANGED <<doc, online, session, local, frame, record, suspended, pc>>

Nudge(n) ==
  /\ n \in nudges
  /\ nudges' = nudges \ {n}
  /\ wake' = TRUE
  /\ UNCHANGED <<doc, online, session, local, frame, record, suspended, pc>>

-----------------------------------------------------------------------------
(* SetDetectionEnabled, under commandMu; token is the session the user saw.*)

\* Mutant: the switch takes w.mu only.
SwitchUnlocked ==
  /\ "user" \notin nudges
  /\ nudges' = nudges \cup {"user"}
  /\ UNCHANGED <<doc, online, counter, latched, pauseLayer, pauseState, invalid,
                 later, local, frame, record, wake, suspended, pc>>

Switch ==
  /\ pc \notin Commanding /\ "user" \notin nudges
  /\ nudges' = nudges \cup {"user"}
  /\ UNCHANGED <<doc, online, counter, latched, pauseLayer, pauseState, invalid,
                 later, local, frame, record, wake, suspended, pc>>

Enable ==
  /\ Switch
  /\ disabled' = FALSE /\ held' = FALSE /\ lightDone' = FALSE

DisablePrint(token) ==
  /\ Active(doc) /\ counter # 0 /\ token = counter
  /\ Switch
  /\ disabled' = TRUE
  /\ UNCHANGED <<held, lightDone>>

DisableIdle(token) ==
  /\ ~Active(doc) /\ token = 0
  /\ Switch
  /\ held' = TRUE
  /\ UNCHANGED <<disabled, lightDone>>

(* Another printer's worker meets an account error.                        *)
PeerSuspends ==
  /\ ~suspended
  /\ suspended' = TRUE /\ wake' = TRUE
  /\ UNCHANGED <<session, env, local, frame, record, pc>>

(* The shared capture, watched by others too, publishes a frame and keeps  *)
(* it until the next, idle or not.                                         *)
Publish ==
  /\ camera' = "now" /\ fresh' = TRUE
  /\ UNCHANGED <<session, env, local, record, wake, suspended, pc>>

-----------------------------------------------------------------------------
(* worker.run.                                                             *)

Goto(from, to) ==
  /\ pc = from /\ pc' = to
  /\ UNCHANGED <<session, env, local, frame, record, wake, suspended>>

Drain ==
  /\ pc = "top" /\ outcomes > 0
  /\ outcomes' = outcomes - 1
  /\ UNCHANGED <<session, env, local, frame, said, wake, suspended, pc>>

(* The session lets the worker inspect.                                    *)
Open == ~disabled /\ ~held /\ online /\ doc.state = "RUNNING" /\ counter # 0 /\ ~invalid

(* The head of the loop.  The account is looked at just before the session *)
(* is locked; since it is only ever suspended, one step stands for both.   *)
Look == pc = "top" /\ outcomes = 0

Park == (suspended \/ ~Open) /\ Look /\ Goto("top", "park")
Defer == ~suspended /\ Open /\ later /\ Look /\ Goto("top", "arm")

\* Mutant: the parked worker keeps the camera.
ReleaseNothing == Goto("park", "sleep")

Release ==
  /\ pc = "park" /\ pc' = "sleep"
  /\ holding' = FALSE
  /\ UNCHANGED <<session, env, mine, gadget, frame, record, wake, suspended>>

Arm == Goto("arm", "timer")

Begin ==
  /\ Look /\ ~suspended /\ Open /\ ~later
  /\ pc' = "light" /\ mine' = counter /\ holding' = TRUE
  /\ gadget' = (gadget /\ mine = counter)
  /\ fresh' = (IF mine = counter THEN fresh ELSE camera # "none")
  /\ UNCHANGED <<session, env, camera, record, wake, suspended>>

Woken ==
  /\ pc \in {"sleep", "timer"} /\ wake
  /\ wake' = FALSE /\ pc' = "top"
  /\ UNCHANGED <<session, env, local, frame, record, suspended>>

(* Time passes: due is reached, and with it the worker's timer, at once if *)
(* the worker is still making it.                                          *)
Elapse ==
  /\ later \/ pc \in {"arm", "timer"}
  /\ later' = FALSE
  /\ pc' = IF pc \in {"arm", "timer"} THEN "top" ELSE pc
  /\ UNCHANGED <<counter, disabled, held, latched, lightDone, pauseLayer, pauseState, invalid,
                 env, local, frame, record, wake, suspended>>

(* autoLight: decided at once, sent under commandMu.                       *)
Light ==
  /\ pc = "light"
  /\ LET due == mine = counter /\ ~disabled /\ ~held /\ ~lightDone /\ online /\ doc.state = "RUNNING"
     IN  /\ lightDone' = (lightDone \/ due)
         /\ pc' \in IF due THEN {"lightSend", "context"} ELSE {"context"}
  /\ UNCHANGED <<counter, disabled, held, latched, pauseLayer, pauseState, invalid, later,
                 env, local, frame, record, wake, suspended>>

LightSend == Goto("lightSend", "context")
ContextKept == gadget /\ Goto("context", "frame")

(* Client.CreateContext answers with valid URLs, or RequestFailed.         *)
ContextCreated ==
  /\ pc = "context" /\ ~gadget
  /\ gadget' = TRUE /\ pc' = "frame"
  /\ UNCHANGED <<session, env, mine, holding, frame, record, wake, suspended>>

(* worker.fail: an account error suspends every worker, an error of the    *)
(* request ends the checks of this print, any other is tried again.        *)
Fail(kind) ==
  /\ pc' = "top"
  /\ IF mine # counter \/ disabled \/ held
     THEN UNCHANGED <<invalid, later, suspended, wake>>
     ELSE /\ suspended' = (suspended \/ kind = "account")
          /\ wake' = (wake \/ (kind = "account" /\ ~suspended))
          /\ later' = (later \/ kind # "account")
          /\ invalid' = IF kind = "account" THEN invalid ELSE kind = "request"
  /\ UNCHANGED <<counter, disabled, held, latched, lightDone, pauseLayer, pauseState, env, local, frame, record>>

RequestFailed(kind) ==
  /\ pc = "process" \/ (pc = "context" /\ ~gadget)
  /\ Fail(kind)

FrameLost == pc = "frame" /\ Fail("retry")

(* WaitFrame returns the capture's frame as soon as it is above lastSeq.   *)
FrameTaken ==
  /\ pc = "frame" /\ fresh
  /\ fresh' = FALSE /\ pc' = "process"
  /\ UNCHANGED <<session, env, local, camera, record, wake, suspended>>

(* Client.Process returns a result that passes its validation, one that    *)
(* suggests to pause or not; any other answer is a RequestFailed.          *)
Processed ==
  /\ pc = "process" /\ pc' \in {"fine", "bad"}
  /\ UNCHANGED <<session, env, local, frame, record, wake, suspended>>

\* Mutant: results are not compared with the current print.
CurrentAnyPrint == ~disabled /\ ~held /\ Active(doc)

(* accept, under commandMu: the result still belongs to the print.         *)
Current == mine = counter /\ ~disabled /\ ~held /\ Active(doc)

Discard == ~Current /\ (Goto("fine", "top") \/ Goto("bad", "top"))

Accept ==
  /\ pc \in {"fine", "bad"} /\ Current
  /\ later' = TRUE /\ invalid' = FALSE
  /\ LET sends == pc = "bad" /\ ~latched /\ doc.state = "RUNNING" /\ online
     IN  /\ latched' = (latched \/ sends)
         /\ pauseLayer' = IF sends THEN doc.layer ELSE pauseLayer
         /\ pauseState' = IF sends THEN "pending" ELSE pauseState
         /\ pc' = IF sends THEN "say" ELSE "top"
  /\ UNCHANGED <<counter, disabled, held, lightDone, env, local, frame, record, wake, suspended>>

Say ==
  /\ pc = "say" /\ pc' = "send"
  /\ said' = said \cup {mine}
  /\ UNCHANGED <<session, env, local, frame, outcomes, wake, suspended>>

Send == Goto("send", "top")
SendFailed == Goto("send", "unsent")

Unsent ==
  /\ pc = "unsent" /\ pc' = "top"
  /\ LET waits == mine = counter /\ pauseState = "pending"
     IN  /\ pauseState' = IF waits THEN "unconfirmed" ELSE pauseState
         /\ invalid' = (invalid /\ ~waits)
  /\ UNCHANGED <<counter, disabled, held, latched, lightDone, pauseLayer, later, env, local, frame, record,
                 wake, suspended>>

-----------------------------------------------------------------------------
Inspect ==
  \/ Begin \/ Light \/ LightSend \/ ContextKept \/ ContextCreated \/ FrameLost \/ FrameTaken
  \/ Processed \/ Discard \/ Accept \/ Say \/ Send \/ SendFailed \/ Unsent
  \/ \E kind \in {"account", "request", "retry"} : RequestFailed(kind)

Worker == Drain \/ Park \/ Release \/ Defer \/ Arm \/ Woken \/ Inspect

User == Enable \/ \E token \in Prints : DisablePrint(token) \/ DisableIdle(token)

Next ==
  \/ Worker \/ Elapse \/ User \/ PeerSuspends \/ Publish \/ SetOnline
  \/ \E d \in Docs : Report(d)
  \/ \E n \in nudges : Nudge(n)

Spec == Init /\ [][Next]_vars

(* The worker runs, its waits and requests end by their timeouts, time     *)
(* passes, and a thread that is to nudge the worker does.                  *)
FairSpec ==
  /\ Spec /\ WF_vars(Worker) /\ WF_vars(Elapse)
  /\ \A n \in {"store", "user"} : WF_vars(Nudge(n))

-----------------------------------------------------------------------------
(* Once the user has turned inspections off, no pause and no light command *)
(* is on its way: SetDetectionEnabled waits for commandMu.                 *)
QuietWhenOff == pc \in Commanding => ~disabled /\ ~held

(* At most one pause is sent for a print, whichever inspections overlap    *)
(* with its end and whatever the user switches.                            *)
OnePause == [][Say => mine \notin said]_vars

(* A pause shown as pending is one the printer has not answered yet.       *)
PendingExplained ==
  pauseState = "pending" => latched /\ doc.state = "RUNNING" /\ doc.layer <= pauseLayer

(* A worker that waits with no wake-up on its way waits for the right      *)
(* thing: it sleeps only while inspection is not allowed, and its timer is *)
(* that of the current print.                                              *)
NoLostWake ==
  ~wake /\ nudges = {} =>
    /\ pc \in {"park", "sleep"} => suspended \/ ~Open
    /\ pc \in {"arm", "timer"} => ~suspended /\ Open /\ later

(* The camera is let go when the user turns inspections off.               *)
CameraFreed == [](disabled \/ held => <>(~holding \/ ~(disabled \/ held)))

(* While a print may be inspected, inspections keep beginning.             *)
InspectsAgain == <>[](Open /\ ~suspended) => []<>(pc = "light")

(* Once checks are announced as stopped for a print, they stay stopped     *)
(* until the next one.                                                     *)
StoppedForPrint == [][invalid /\ counter' = counter => invalid']_vars
=============================================================================
