---------------------------- MODULE Services_proofs ----------------------------
(***************************************************************************)
(* Theorems about the components that MC_Services runs, but for the users  *)
(* of the cameras and the activity log, which have modules of their own.   *)
(* Each is proved from its own specification; they share a module as they  *)
(* share a run, and no variables.                                          *)
(***************************************************************************)
EXTENDS MC_Services, CameraUse_proofs, ActivityLog_proofs, SequenceTheorems, WellFoundedInduction, TLAPS
-----------------------------------------------------------------------------
(***************************************************************************)
(* Every over-limit episode is answered once and its alarm tells the truth *)
(* about the fleet, for any fleet, any probes and any number of episodes.  *)
(*                                                                         *)
(* That an episode is answered once is not inductive: Check must not find  *)
(* tripped cleared while the episode that was answered goes on.  Resting   *)
(* says why it cannot: tripped is cleared on a report of every probe under *)
(* its limit, so the printer was in no episode then, and the next one has  *)
(* a number of its own before a report can show it.                        *)
(***************************************************************************)
(* The monitored episode that has been answered.                           *)
AnsweredNow == \E r \in DOMAIN answers : answers[r].episode = episode

NoneAhead == \A r \in DOMAIN answers : answers[r].episode <= episode

Resting ==
  /\ ~tripped /\ AnsweredNow => hot = {} /\ ~Over
  /\ Recovered /\ AnsweredNow => hot = {}

(* The stops of a response split the fleet.                                *)
Split(a) ==
  /\ Fleet \ a.stopped = a.left \cup a.missed
  /\ a.left \cap a.missed = {}
  /\ a.step # "stop" => a.left = {}

Splits == \A r \in DOMAIN answers : Split(answers[r])

SafetyInv ==
  SafetyTypes /\ NoneAhead /\ Resting /\ OneAlarm /\ Splits /\ ResponsesJoined
-----------------------------------------------------------------------------
(* A response is added after the others, which stay what they are.         *)
LEMMA Added ==
  ASSUME NEW a \in Response, answers \in Seq(Response), answers' = Append(answers, a)
  PROVE  /\ answers' \in Seq(Response)
         /\ Len(answers) + 1 \in DOMAIN answers' /\ answers'[Len(answers) + 1] = a
         /\ \A r \in DOMAIN answers' : r # Len(answers) + 1 =>
              r \in DOMAIN answers /\ answers'[r] = answers[r]
  OBVIOUS

(* Continue replaces one response by one of its type.                      *)
LEMMA Continued ==
  ASSUME answers \in Seq(Response), NEW r \in DOMAIN answers, NEW a \in Response,
         answers' = [answers EXCEPT ![r] = a]
  PROVE  /\ answers' \in Seq(Response) /\ DOMAIN answers' = DOMAIN answers
         /\ answers'[r] = a
         /\ \A s \in DOMAIN answers : s # r => answers'[s] = answers[s]
  OBVIOUS

(* A response that keeps its episode and splits the fleet disturbs nothing.*)
LEMMA StepOfResponse ==
  ASSUME SafetyInv, NEW r \in DOMAIN answers, NEW a \in Response, Continue(r, a),
         a.episode = answers[r].episode, Split(a), answers[r].step # "done"
  PROVE  SafetyInv'
<1>1. /\ answers \in Seq(Response) /\ answers[r] \in Response
  BY DEF SafetyInv, SafetyTypes
<1>2. /\ answers' \in Seq(Response) /\ DOMAIN answers' = DOMAIN answers
      /\ answers'[r] = a
      /\ \A s \in DOMAIN answers : s # r => answers'[s] = answers[s]
  BY <1>1, Continued DEF Continue
<1>3. \A s \in DOMAIN answers : answers'[s].episode = answers[s].episode
  BY <1>2
<1>4. /\ hot' = hot /\ episode' = episode /\ temps' = temps /\ shown' = shown
      /\ tripped' = tripped /\ monitor' = monitor
  BY DEF Continue
<1>5. SafetyTypes'
  BY <1>2, <1>4 DEF SafetyInv, SafetyTypes
<1>6. NoneAhead' /\ OneAlarm'
  BY <1>2, <1>3, <1>4 DEF SafetyInv, NoneAhead, OneAlarm
<1>7. Resting'
  <2>1. AnsweredNow' <=> AnsweredNow
    BY <1>2, <1>3, <1>4 DEF AnsweredNow
  <2> QED
    BY <2>1, <1>4 DEF SafetyInv, Resting, Over, Recovered
<1>8. Splits'
  BY <1>2 DEF SafetyInv, Splits
<1>9. ResponsesJoined'
  BY <1>2, <1>4 DEF SafetyInv, ResponsesJoined
<1> QED
  BY <1>5, <1>6, <1>7, <1>8, <1>9 DEF SafetyInv
-----------------------------------------------------------------------------
LEMMA SafetyInvInit == SafetyInit => SafetyInv
<1> SUFFICES ASSUME SafetyInit
             PROVE  SafetyInv
  OBVIOUS
<1>1. DOMAIN answers = {} /\ answers \in Seq(Response)
  BY DEF SafetyInit
<1>2. SafetyTypes
  <2>1. tripped \in BOOLEAN /\ shown \in BOOLEAN
    BY Zenon DEF SafetyInit
  <2>2. episode \in 0 .. MaxEpisodes
    BY SafetyAssumption DEF SafetyInit
  <2> QED
    BY <1>1, <2>1, <2>2 DEF SafetyInit, SafetyTypes
<1> QED
  BY <1>1, <1>2 DEF SafetyInv, NoneAhead, Resting, AnsweredNow, OneAlarm, Splits, ResponsesJoined

LEMMA RespondKeeps ==
  ASSUME SafetyInv, NEW r \in DOMAIN answers, Respond(r)
  PROVE  SafetyInv'
<1> DEFINE a == answers[r]
<1>1. a \in Response /\ Split(a)
  BY DEF SafetyInv, SafetyTypes, Splits
<1>2. CASE StopOne(r)
  <2>1. PICK q \in a.left, ok \in BOOLEAN :
          Continue(r, IF ok THEN [a EXCEPT !.left = @ \ {q}, !.stopped = @ \cup {q}]
                      ELSE [a EXCEPT !.left = @ \ {q}, !.missed = @ \cup {q}])
    BY <1>2 DEF StopOne
  <2>2. a.step = "stop"
    BY <1>2 DEF StopOne
  <2>3. CASE ok
    <3> DEFINE b == [a EXCEPT !.left = @ \ {q}, !.stopped = @ \cup {q}]
    <3>1. b \in Response /\ b.episode = a.episode /\ Split(b)
      BY <1>1, <2>1, <2>2 DEF Response, Split
    <3> QED
      BY <3>1, <2>1, <2>2, <2>3, StepOfResponse
  <2>4. CASE ~ok
    <3> DEFINE b == [a EXCEPT !.left = @ \ {q}, !.missed = @ \cup {q}]
    <3>1. b \in Response /\ b.episode = a.episode /\ Split(b)
      BY <1>1, <2>1, <2>2 DEF Response, Split
    <3> QED
      BY <3>1, <2>1, <2>2, <2>4, StepOfResponse
  <2> QED
    BY <2>3, <2>4
<1>3. CASE PowerNext(r)
  <2> DEFINE b == [a EXCEPT !.step = IF Powered THEN "power" ELSE "alarm"]
  <2>1. Continue(r, b) /\ a.step = "stop" /\ a.left = {}
    BY <1>3 DEF PowerNext
  <2>2. b \in Response /\ b.episode = a.episode /\ Split(b)
    BY <1>1, <2>1 DEF Response, Split
  <2> QED
    BY <2>1, <2>2, StepOfResponse
<1>4. CASE PowerOff(r)
  <2>1. PICK p \in {"sent", "failed"} : Continue(r, [a EXCEPT !.step = "alarm", !.power = p])
    BY <1>4 DEF PowerOff
  <2>2. a.step = "power"
    BY <1>4 DEF PowerOff
  <2> DEFINE b == [a EXCEPT !.step = "alarm", !.power = p]
  <2>3. b \in Response /\ b.episode = a.episode /\ Split(b)
    BY <1>1, <2>2 DEF Response, Split
  <2> QED
    BY <2>1, <2>2, <2>3, StepOfResponse
<1>5. CASE Alarm(r)
  <2>1. PICK p \in {"sent", "failed"} : Continue(r, [a EXCEPT !.step = "done", !.alarm = p])
    BY <1>5 DEF Alarm
  <2>2. a.step = "alarm"
    BY <1>5 DEF Alarm
  <2> DEFINE b == [a EXCEPT !.step = "done", !.alarm = p]
  <2>3. b \in Response /\ b.episode = a.episode /\ Split(b)
    BY <1>1, <2>2 DEF Response, Split
  <2> QED
    BY <2>1, <2>2, <2>3, StepOfResponse
<1> QED
  BY <1>2, <1>3, <1>4, <1>5 DEF Respond

LEMMA CheckKeeps ==
  ASSUME SafetyInv, Check
  PROVE  SafetyInv'
<1>1. /\ hot' = hot /\ episode' = episode /\ temps' = temps /\ shown' = shown /\ monitor' = monitor
      /\ monitor.run = "checking"
  BY DEF Check
<1>2. CASE Recovered /\ tripped' = FALSE /\ UNCHANGED answers
  <2>1. tripped' \in BOOLEAN
    BY <1>2 DEF SafetyInv
  <2>2. SafetyTypes'
    BY <1>1, <1>2, <2>1, Zenon DEF SafetyInv, SafetyTypes
  <2>3. AnsweredNow' => hot' = {} /\ ~Over'
    BY <1>1, <1>2 DEF SafetyInv, Resting, AnsweredNow, Recovered, Over
  <2>4. Resting'
    BY <2>3 DEF Resting
  <2> QED
    BY <1>1, <1>2, <2>2, <2>4 DEF SafetyInv, NoneAhead, OneAlarm, Splits, ResponsesJoined
<1>3. CASE /\ Over /\ ~tripped /\ tripped' = TRUE
           /\ answers' = Append(answers,
                [step |-> "stop", left |-> Fleet, stopped |-> {}, missed |-> {},
                 power |-> "none", alarm |-> "none", episode |-> episode])
  <2> DEFINE a == [step |-> "stop", left |-> Fleet, stopped |-> {}, missed |-> {},
                   power |-> "none", alarm |-> "none", episode |-> episode]
  <2>1. a \in Response /\ a.episode = episode /\ Split(a)
    BY DEF SafetyInv, SafetyTypes, Response, Split
  <2>2. /\ answers' \in Seq(Response)
        /\ Len(answers) + 1 \in DOMAIN answers' /\ answers'[Len(answers) + 1] = a
        /\ \A r \in DOMAIN answers' : r # Len(answers) + 1 =>
             r \in DOMAIN answers /\ answers'[r] = answers[r]
    BY <1>3, <2>1, Added DEF SafetyInv, SafetyTypes
  <2>3. ~AnsweredNow
    BY <1>3 DEF SafetyInv, Resting
  <2>4. tripped' \in BOOLEAN
    BY <1>3
  <2>5. SafetyTypes'
    BY <1>1, <2>2, <2>4, Zenon DEF SafetyInv, SafetyTypes
  <2>6. NoneAhead'
    BY <1>1, <2>1, <2>2 DEF SafetyInv, SafetyTypes, NoneAhead
  <2>7. OneAlarm'
    BY <1>1, <2>1, <2>2, <2>3 DEF SafetyInv, OneAlarm, AnsweredNow
  <2>8. Resting'
    BY <1>1, <1>3 DEF Resting, Over, Recovered
  <2>9. Splits'
    BY <2>1, <2>2 DEF SafetyInv, Splits
  <2> QED
    BY <1>1, <2>5, <2>6, <2>7, <2>8, <2>9 DEF SafetyInv, ResponsesJoined
<1> QED
  BY <1>2, <1>3 DEF Check

LEMMA HeatKeeps ==
  ASSUME SafetyInv, NEW b \in Probes, Heat(b)
  PROVE  SafetyInv'
<1>1. /\ answers' = answers /\ temps' = temps /\ shown' = shown /\ tripped' = tripped
      /\ monitor' = monitor /\ hot' = hot \cup {b}
  BY DEF Heat
<1>2. episode' = (IF hot = {} THEN episode + 1 ELSE episode) /\ (hot = {} => episode < MaxEpisodes)
  BY DEF Heat
<1>3. SafetyTypes'
  BY <1>1, <1>2, SafetyAssumption DEF SafetyInv, SafetyTypes
<1>4. NoneAhead'
  <2>1. episode \in Nat /\ episode' \in Nat /\ episode <= episode'
    BY <1>2, SafetyAssumption DEF SafetyInv, SafetyTypes
  <2>2. \A r \in DOMAIN answers : answers[r].episode \in Nat /\ answers[r].episode <= episode
    <3> SUFFICES ASSUME NEW r \in DOMAIN answers
                 PROVE  answers[r].episode \in Nat /\ answers[r].episode <= episode
      OBVIOUS
    <3>1. answers[r] \in Response
      BY DEF SafetyInv, SafetyTypes
    <3> QED
      BY <3>1, SafetyAssumption DEF SafetyInv, NoneAhead, Response
  <2> QED
    <3> SUFFICES ASSUME NEW r \in DOMAIN answers
                 PROVE  answers[r].episode <= episode'
      BY <1>1 DEF NoneAhead
    <3> QED
      BY <2>1, <2>2
<1>5. Resting'
  <2>1. CASE hot = {}
    <3>1. ~AnsweredNow'
      BY <1>1, <1>2, <2>1 DEF SafetyInv, SafetyTypes, NoneAhead, AnsweredNow, Response
    <3> QED
      BY <3>1 DEF Resting
  <2>2. CASE hot # {}
    BY <1>1, <1>2, <2>2 DEF SafetyInv, Resting, AnsweredNow, Over, Recovered
  <2> QED
    BY <2>1, <2>2
<1> QED
  BY <1>1, <1>3, <1>4, <1>5 DEF SafetyInv, OneAlarm, Splits, ResponsesJoined

LEMMA ReportKeeps ==
  ASSUME SafetyInv, Report
  PROVE  SafetyInv'
<1>1. PICK seen \in SUBSET Probes :
        temps' = [b \in Probes |-> IF b \notin seen THEN "none"
                                   ELSE IF b \in hot THEN "over" ELSE "under"]
  BY DEF Report
<1>2. /\ hot' = hot /\ episode' = episode /\ tripped' = tripped /\ answers' = answers
      /\ monitor' = monitor /\ shown' = TRUE
  BY DEF Report
<1>3. shown' \in BOOLEAN
  BY <1>2
<1>4. temps' \in [Probes -> {"none", "under", "over"}]
  BY <1>1
<1>5. SafetyTypes'
  BY <1>2, <1>3, <1>4, Zenon DEF SafetyInv, SafetyTypes
<1>6. Over' => hot # {}
  BY <1>1 DEF Over
<1>7. Recovered' => hot = {}
  BY <1>1 DEF SafetyInv, SafetyTypes, Recovered
<1>8. Resting'
  BY <1>2, <1>6, <1>7 DEF SafetyInv, Resting, AnsweredNow
<1> QED
  BY <1>2, <1>5, <1>8 DEF SafetyInv, NoneAhead, OneAlarm, Splits, ResponsesJoined

LEMMA SafetyInvNext == SafetyInv /\ [SafetyNext]_safetyVars => SafetyInv'
<1> SUFFICES ASSUME SafetyInv, [SafetyNext]_safetyVars
             PROVE  SafetyInv'
  OBVIOUS
<1> USE DEF SafetyInv, NoneAhead, Resting, AnsweredNow, Over, Recovered, OneAlarm, Splits, ResponsesJoined
<1>1. CASE \E b \in Probes : Heat(b)
  BY <1>1, HeatKeeps
<1>2. CASE \E b \in Probes : Cool(b)
  <2>1. PICK b \in Probes : Cool(b)
    BY <1>2
  <2>2. SafetyTypes'
    BY <2>1 DEF SafetyTypes, Cool
  <2> QED
    BY <2>1, <2>2 DEF Cool
<1>3. CASE Report
  BY <1>3, ReportKeeps
<1>4. CASE Lose
  <2>1. shown' \in BOOLEAN
    BY <1>4 DEF Lose
  <2>2. SafetyTypes'
    BY <1>4, <2>1, Zenon DEF SafetyTypes, Lose
  <2> QED
    BY <1>4, <2>2 DEF Lose
<1>5. CASE Check
  BY <1>5, CheckKeeps
<1>6. CASE Cancel
  <2>1. monitor' \in [run : {"checking", "joining", "returned"}, cancelled : BOOLEAN]
        /\ monitor'.run = monitor.run
    BY <1>6 DEF SafetyTypes, Cancel
  <2>2. SafetyTypes'
    BY <1>6, <2>1 DEF SafetyTypes, Cancel
  <2> QED
    BY <1>6, <2>1, <2>2 DEF Cancel
<1>7. CASE Finish \/ Join
  <2>1. /\ monitor' \in [run : {"checking", "joining", "returned"}, cancelled : BOOLEAN]
        /\ monitor'.run = "returned" => \A r \in DOMAIN answers : answers[r].step = "done"
        /\ UNCHANGED <<hot, episode, temps, shown, tripped, answers>>
    BY <1>7 DEF SafetyTypes, Finish, Join
  <2>2. SafetyTypes'
    BY <2>1 DEF SafetyTypes
  <2> QED
    BY <2>1, <2>2
<1>8. CASE \E r \in DOMAIN answers : Respond(r)
  BY <1>8, RespondKeeps
<1>9. CASE UNCHANGED safetyVars
  BY <1>9 DEF safetyVars, SafetyTypes
<1> QED
  BY <1>1, <1>2, <1>3, <1>4, <1>5, <1>6, <1>7, <1>8, <1>9 DEF SafetyNext

(* For any fleet, probes and number of episodes: an episode is answered    *)
(* once, its alarm names every printer the stops did not reach, and Run    *)
(* returns after the last response (Service.check, Service.respond).       *)
THEOREM AnsweredAlways == SafetySpec => []Answered
<1>1. SafetyInv => Answered
  BY DEF SafetyInv, Splits, Split, Answered, AlarmTells
<1> QED
  BY <1>1, SafetyInvInit, SafetyInvNext, PTL DEF SafetySpec
-----------------------------------------------------------------------------
(***************************************************************************)
(* What the queue accepted is considered by a delivery, for any number of  *)
(* printers and any queue.                                                 *)
(*                                                                         *)
(* A queued entry that is gathered must find a deadline, and gathering     *)
(* sets one only for an empty batch; so the invariant ties the two:        *)
(* exactly the printers with a batch have a deadline (Timed).              *)
(***************************************************************************)
Timed == \A p \in Machines : batch[p] # {} <=> p \in deadlines

NotifyInv == NotifyTypes /\ Timed /\ NothingForgotten /\ PauseIsQualified

Queued(q, p, s) == \E i \in DOMAIN q : q[i] = [printer |-> p, summary |-> s]
-----------------------------------------------------------------------------
(* What waits at both ends of a queue.                                     *)
LEMMA Joined ==
  ASSUME NEW q \in Seq(Entry), NEW e \in Entry
  PROVE  /\ Append(q, e) \in Seq(Entry) /\ Len(Append(q, e)) = Len(q) + 1
         /\ \A p, s : Queued(q, p, s) => Queued(Append(q, e), p, s)
         /\ Queued(Append(q, e), e.printer, e.summary)
<1>1. /\ Append(q, e) \in Seq(Entry) /\ Len(Append(q, e)) = Len(q) + 1 /\ Len(q) \in Nat
      /\ DOMAIN q = 1 .. Len(q) /\ DOMAIN Append(q, e) = 1 .. Len(q) + 1
      /\ \A i \in 1 .. Len(q) : Append(q, e)[i] = q[i]
      /\ Append(q, e)[Len(q) + 1] = e
  OBVIOUS
<1>2. e = [printer |-> e.printer, summary |-> e.summary]
  BY DEF Entry
<1>3. Len(q) + 1 \in 1 .. Len(q) + 1 /\ \A i \in 1 .. Len(q) : i \in 1 .. Len(q) + 1
  BY <1>1
<1>4. \A p, s : Queued(q, p, s) => Queued(Append(q, e), p, s)
  BY <1>1, <1>3 DEF Queued
<1>5. Queued(Append(q, e), e.printer, e.summary)
  BY <1>1, <1>2, <1>3 DEF Queued
<1> QED
  BY <1>1, <1>4, <1>5

LEMMA Taken ==
  ASSUME NEW q \in Seq(Entry), q # <<>>
  PROVE  /\ Head(q) \in Entry /\ Tail(q) \in Seq(Entry) /\ Len(Tail(q)) = Len(q) - 1 /\ Len(q) \in Nat
         /\ \A p, s : Queued(q, p, s) =>
              Queued(Tail(q), p, s) \/ Head(q) = [printer |-> p, summary |-> s]
<1>1. /\ Head(q) = q[1] /\ Head(q) \in Entry /\ Tail(q) \in Seq(Entry) /\ Len(Tail(q)) = Len(q) - 1
      /\ Len(q) \in Nat /\ DOMAIN q = 1 .. Len(q) /\ DOMAIN Tail(q) = 1 .. Len(q) - 1
      /\ \A i \in 1 .. Len(q) - 1 : Tail(q)[i] = q[i + 1]
  OBVIOUS
<1>2. ASSUME NEW p, NEW s, NEW i \in DOMAIN q, q[i] = [printer |-> p, summary |-> s], i # 1
      PROVE  Queued(Tail(q), p, s)
  <2>1. i - 1 \in DOMAIN Tail(q) /\ Tail(q)[i - 1] = q[i]
    BY <1>1, <1>2
  <2> QED
    BY <2>1, <1>2 DEF Queued
<1> QED
  BY <1>1, <1>2 DEF Queued

LEMMA NotifyInvInit == NotifyInit => NotifyInv
<1> SUFFICES ASSUME NotifyInit
             PROVE  NotifyInv
  OBVIOUS
<1>1. Len(waiting) <= Waiting /\ waiting \in Seq(Entry)
  BY NotificationAssumption DEF NotifyInit
<1>2. stopping \in BOOLEAN /\ message \in Messages
  BY Zenon DEF NotifyInit, NoMessage, Messages
<1> QED
  BY <1>1, <1>2 DEF NotifyInit, NotifyInv, NotifyTypes, Timed, NothingForgotten, PauseIsQualified
-----------------------------------------------------------------------------
LEMMA ObserveKeeps ==
  ASSUME NotifyInv, NEW p \in Machines, NEW s \in Summaries, Observe(p, s)
  PROVE  NotifyInv'
<1>1. /\ troubled' = troubled /\ batch' = batch /\ deadlines' = deadlines /\ past' = past
      /\ courier' = courier /\ due' = due /\ message' = message /\ stopping' = stopping
  BY DEF Observe
<1>2. waiting \in Seq(Entry) /\ accepted \in [Machines -> SUBSET Summaries]
  BY DEF NotifyInv, NotifyTypes
<1>3. CASE Len(waiting) < Waiting
  <2> DEFINE e == [printer |-> p, summary |-> s]
  <2>1. e \in Entry /\ e.printer = p /\ e.summary = s
    BY DEF Entry
  <2>2. waiting' = Append(waiting, e) /\ accepted' = [accepted EXCEPT ![p] = @ \cup {s}]
    BY <1>3 DEF Observe, Offer, Enqueue
  <2>3. /\ waiting' \in Seq(Entry) /\ Len(waiting') = Len(waiting) + 1
        /\ \A q, t : Queued(waiting, q, t) => Queued(waiting', q, t)
        /\ Queued(waiting', p, s)
    BY <1>2, <2>1, <2>2, Joined
  <2>4. Len(waiting') <= Waiting
    BY <1>2, <1>3, <2>3, NotificationAssumption
  <2>5. accepted' \in [Machines -> SUBSET Summaries]
    BY <1>2, <2>2
  <2>6. NotifyTypes'
    BY <1>1, <2>3, <2>4, <2>5 DEF NotifyInv, NotifyTypes
  <2>7. NothingForgotten'
    <3> SUFFICES ASSUME NEW q \in Machines, NEW t \in accepted'[q]
                 PROVE  Queued(waiting', q, t) \/ (t \in batch'[q] /\ q \in deadlines')
      BY DEF NothingForgotten, Queued
    <3>1. CASE q = p /\ t = s
      BY <3>1, <2>3
    <3>2. CASE ~(q = p /\ t = s)
      <4>1. t \in accepted[q]
        BY <3>2, <1>2, <2>2
      <4>2. Queued(waiting, q, t) \/ (t \in batch[q] /\ q \in deadlines)
        BY <4>1 DEF NotifyInv, NothingForgotten, Queued
      <4> QED
        BY <4>2, <2>3, <1>1
    <3> QED
      BY <3>1, <3>2
  <2> QED
    BY <1>1, <2>6, <2>7 DEF NotifyInv, Timed, PauseIsQualified
<1>4. CASE ~(Len(waiting) < Waiting)
  BY <1>1, <1>4 DEF Observe, Offer, NotifyInv, NotifyTypes, Timed, NothingForgotten, PauseIsQualified
<1> QED
  BY <1>3, <1>4

LEMMA GatherKeeps ==
  ASSUME NotifyInv, Gather
  PROVE  NotifyInv'
<1> DEFINE e == Head(waiting)
<1>1. /\ courier = "select" /\ waiting # <<>>
      /\ deadlines' = (IF batch[e.printer] = {} THEN deadlines \cup {e.printer} ELSE deadlines)
      /\ batch' = [batch EXCEPT ![e.printer] = @ \cup {e.summary}]
      /\ waiting' = Tail(waiting)
      /\ troubled' = troubled /\ past' = past /\ courier' = courier /\ due' = due
      /\ message' = message /\ accepted' = accepted /\ stopping' = stopping
  BY DEF Gather
<1>2. /\ waiting \in Seq(Entry) /\ batch \in [Machines -> SUBSET Summaries]
      /\ deadlines \subseteq Machines /\ past \subseteq deadlines /\ Len(waiting) <= Waiting
  BY DEF NotifyInv, NotifyTypes
<1>3. /\ e \in Entry /\ waiting' \in Seq(Entry) /\ Len(waiting') = Len(waiting) - 1 /\ Len(waiting) \in Nat
      /\ \A p, s : Queued(waiting, p, s) => Queued(waiting', p, s) \/ e = [printer |-> p, summary |-> s]
  BY <1>1, <1>2, Taken
<1>4. e.printer \in Machines /\ e.summary \in Summaries
  BY <1>3 DEF Entry
<1>5. /\ batch' \in [Machines -> SUBSET Summaries]
      /\ batch'[e.printer] = batch[e.printer] \cup {e.summary}
      /\ \A p \in Machines \ {e.printer} : batch'[p] = batch[p]
  BY <1>1, <1>2, <1>4
<1>6. e.printer \in deadlines' /\ deadlines \subseteq deadlines' /\ deadlines' \subseteq deadlines \cup {e.printer}
  BY <1>1, <1>4 DEF NotifyInv, Timed
<1>7. Timed'
  BY <1>4, <1>5, <1>6 DEF NotifyInv, Timed
<1>8. Len(waiting') <= Waiting
  BY <1>2, <1>3, NotificationAssumption
<1>9. NotifyTypes'
  BY <1>1, <1>3, <1>4, <1>5, <1>6, <1>8 DEF NotifyInv, NotifyTypes
<1>10. NothingForgotten'
  <2> SUFFICES ASSUME NEW p \in Machines, NEW s \in accepted[p]
               PROVE  Queued(waiting', p, s) \/ (s \in batch'[p] /\ p \in deadlines')
    BY <1>1 DEF NothingForgotten, Queued
  <2>1. Queued(waiting, p, s) \/ (s \in batch[p] /\ p \in deadlines)
    BY DEF NotifyInv, NothingForgotten, Queued
  <2>2. CASE s \in batch[p] /\ p \in deadlines
    BY <2>2, <1>5, <1>6
  <2>3. CASE e = [printer |-> p, summary |-> s]
    BY <2>3, <1>5, <1>6
  <2> QED
    BY <2>1, <2>2, <2>3, <1>3
<1>11. PauseIsQualified'
  BY <1>1, <1>5 DEF NotifyInv, NotifyTypes, PauseIsQualified
<1> QED
  BY <1>7, <1>9, <1>10, <1>11 DEF NotifyInv

LEMMA DeliverKeeps ==
  ASSUME NotifyInv, NEW p \in Machines, Deliver(p)
  PROVE  NotifyInv'
<1>1. /\ courier = "deliver" /\ p \in due /\ due' = due \ {p}
      /\ batch' = [batch EXCEPT ![p] = {}]
      /\ deadlines' = deadlines \ {p} /\ past' = past \ {p}
      /\ troubled' = troubled /\ waiting' = waiting /\ stopping' = stopping
      /\ accepted' = [accepted EXCEPT ![p] =
           @ \cap {waiting[i].summary : i \in {j \in DOMAIN waiting : waiting[j].printer = p}}]
  BY DEF Deliver, Forget
<1>2. /\ waiting \in Seq(Entry) /\ {batch, accepted} \subseteq [Machines -> SUBSET Summaries]
      /\ {troubled, deadlines, past, due} \subseteq SUBSET Machines /\ past \subseteq deadlines
  BY DEF NotifyInv, NotifyTypes
<1>3. Told(p) \subseteq Summaries /\ (Told(p) = {"paused"} => p \in troubled)
  BY <1>2 DEF Told
<1>4. \/ courier' = "deliver" /\ message' = NoMessage
      \/ /\ courier' = "send" /\ Told(p) # {}
         /\ message' = [lines |-> p \in troubled, summaries |-> Told(p)]
  BY DEF Deliver
<1>5. /\ courier' \in {"deliver", "send"} /\ message' \in Messages
      /\ courier' = "send" =>
           message'.summaries # {} /\ (message'.summaries = {"paused"} => message'.lines)
  <2>1. NoMessage \in Messages
    BY DEF NoMessage, Messages
  <2>2. (p \in troubled) \in BOOLEAN
    OBVIOUS
  <2>3. ASSUME NEW b \in BOOLEAN, b <=> p \in troubled, Told(p) # {},
               message' = [lines |-> b, summaries |-> Told(p)]
        PROVE  /\ message' \in Messages /\ message'.summaries # {}
               /\ message'.summaries = {"paused"} => message'.lines
    BY <2>3, <1>3 DEF Messages
  <2> QED
    BY <1>4, <2>1, <2>2, <2>3
<1>6. /\ batch' \in [Machines -> SUBSET Summaries] /\ batch'[p] = {}
      /\ \A q \in Machines \ {p} : batch'[q] = batch[q]
      /\ accepted' \in [Machines -> SUBSET Summaries]
      /\ \A q \in Machines \ {p} : accepted'[q] = accepted[q]
      /\ accepted'[p] = accepted[p] \cap
           {waiting[i].summary : i \in {j \in DOMAIN waiting : waiting[j].printer = p}}
  BY <1>1, <1>2
<1>7. NotifyTypes'
  BY <1>1, <1>2, <1>5, <1>6 DEF NotifyInv, NotifyTypes
<1>8. Timed'
  BY <1>1, <1>6 DEF NotifyInv, Timed
<1>9. NothingForgotten'
  <2> SUFFICES ASSUME NEW q \in Machines, NEW s \in accepted'[q]
               PROVE  Queued(waiting, q, s) \/ (s \in batch'[q] /\ q \in deadlines')
    BY <1>1 DEF NothingForgotten, Queued
  <2>1. CASE q = p
    <3>1. PICK i \in DOMAIN waiting : waiting[i].printer = p /\ waiting[i].summary = s
      BY <2>1, <1>6
    <3>2. waiting[i] \in Entry
      BY <3>1, <1>2
    <3>3. waiting[i] = [printer |-> p, summary |-> s]
      BY <3>1, <3>2 DEF Entry
    <3> QED
      BY <2>1, <3>3 DEF Queued
  <2>2. CASE q # p
    BY <2>2, <1>1, <1>6 DEF NotifyInv, NothingForgotten, Queued
  <2> QED
    BY <2>1, <2>2
<1>10. \A q \in due' : batch'[q] # {}
  BY <1>1, <1>2, <1>6 DEF NotifyInv, PauseIsQualified
<1>11. PauseIsQualified'
  BY <1>5, <1>10 DEF PauseIsQualified
<1> QED
  BY <1>7, <1>8, <1>9, <1>11 DEF NotifyInv

LEMMA NotifyInvNext == NotifyInv /\ [NotifyNext]_notifyVars => NotifyInv'
<1> SUFFICES ASSUME NotifyInv, [NotifyNext]_notifyVars
             PROVE  NotifyInv'
  OBVIOUS
<1> USE DEF NotifyInv, NotifyTypes, Timed, NothingForgotten, PauseIsQualified
<1>1. ASSUME NEW p \in Machines, NEW s \in Summaries, Observe(p, s)
      PROVE  NotifyInv'
  BY <1>1, ObserveKeeps
<1>2. ASSUME NEW p \in Machines, Trouble(p)
      PROVE  NotifyInv'
  BY <1>2 DEF Trouble
<1>3. ASSUME NEW p \in Machines, Pass(p)
      PROVE  NotifyInv'
  BY <1>3 DEF Pass
<1>4. ASSUME NEW p \in Machines, Deliver(p)
      PROVE  NotifyInv'
  BY <1>4, DeliverKeeps
<1>5. CASE Shutdown
  <2>1. stopping' \in BOOLEAN
    BY <1>5 DEF Shutdown
  <2> QED
    BY <1>5, <2>1, Zenon DEF Shutdown
<1>6. CASE Gather
  BY <1>6, GatherKeeps
<1>7. CASE Wake
  BY <1>7 DEF Wake
<1>8. CASE Send
  <2>1. NoMessage \in Messages
    BY DEF NoMessage, Messages
  <2> QED
    BY <1>8, <2>1 DEF Send
<1>9. CASE Delivered \/ End
  BY <1>9 DEF Delivered, End
<1>10. CASE UNCHANGED notifyVars
  BY <1>10 DEF notifyVars
<1> QED
  BY <1>1, <1>2, <1>3, <1>4, <1>5, <1>6, <1>7, <1>8, <1>9, <1>10 DEF NotifyNext

(* For any printers and queue: an accepted entry waits or belongs to a     *)
(* batch with a deadline until a delivery considers it, no message is      *)
(* about a pause alone without the problem it is sent for, and no batch is *)
(* delivered twice (Service.Run, deliverBatch).                            *)
THEOREM NotifiedAlways == NotifySpec => []Notified
<1>1. NotifyInv => Notified
  BY DEF NotifyInv, Notified
<1> QED
  BY <1>1, NotifyInvInit, NotifyInvNext, PTL DEF NotifySpec
-----------------------------------------------------------------------------
(***************************************************************************)
(* The order of start and shutdown, with and without cameras and for any   *)
(* modules.  Orderly rests on what is open at each step of either; a       *)
(* failed start enters the shutdown with less open than a full one.        *)
(***************************************************************************)
Cams == IF CameraOn THEN {"raw", "cameras"} ELSE {}

Starting ==
  opening # "none" =>
    /\ closing = "none" /\ requests = "none"
    /\ opening # "http" => running = {}
    /\ opening = "raw" => CameraOn
    /\ open = CASE opening = "broker" -> {}
              [] opening = "raw" -> {"broker"}
              [] opening = "links" -> {"broker"} \cup Cams
              [] opening = "http" -> {"broker", "links"} \cup Cams

(* What the shutdown still finds open, and whom it has waited for.         *)
Stopping ==
  /\ "links" \in open => "broker" \in open
  /\ running # {} \/ "http" \in open => Used \subseteq open
  /\ requests = "some" => "http" \in open
  /\ ~CameraOn => open \cap {"raw", "cameras"} = {}
  /\ opening = "none" /\ closing \notin {"none", "http"} => "http" \notin open
  /\ closing \in {"raw", "cameras", "links", "broker", "returned"} => running = {}
  /\ closing \in {"cameras", "links", "broker", "returned"} => "raw" \notin open
  /\ closing \in {"links", "broker", "returned"} => "cameras" \notin open
  /\ closing \in {"broker", "returned"} => "links" \notin open
  /\ closing = "returned" => "broker" \notin open

LifeInv == LifeTypes /\ Starting /\ Stopping

LEMMA LifeInvInit == LifeInit => LifeInv
BY DEF LifeInit, LifeInv, LifeTypes, Starting, Stopping, Used, Parts, Openings, Closings

LEMMA OpeningKeeps ==
  ASSUME LifeInv, OpenBroker \/ OpenRaw \/ StartModules \/ OpenHTTP
  PROVE  LifeInv'
<1>1. CASE OpenBroker
  BY <1>1, LifecycleAssumption DEF OpenBroker, Fails, LifeInv, LifeTypes, Starting, Stopping, Used, Cams, Parts, Openings, Closings
<1>2. CASE OpenRaw
  BY <1>2, LifecycleAssumption DEF OpenRaw, Fails, LifeInv, LifeTypes, Starting, Stopping, Used, Cams, Parts, Openings, Closings
<1>3. CASE StartModules
  BY <1>3, LifecycleAssumption DEF StartModules, LifeInv, LifeTypes, Starting, Stopping, Used, Cams, Parts, Openings, Closings
<1>4. CASE OpenHTTP
  BY <1>4, LifecycleAssumption DEF OpenHTTP, Fails, LifeInv, LifeTypes, Starting, Stopping, Used, Cams, Parts, Openings, Closings
<1> QED BY <1>1, <1>2, <1>3, <1>4

LEMMA ServingKeeps ==
  ASSUME LifeInv, Serve \/ Answer \/ StopServing \/ \E m \in Modules : Return(m)
  PROVE  LifeInv'
<1>1. CASE Serve
  BY <1>1 DEF Serve, LifeInv, LifeTypes, Starting, Stopping, Cams, Openings
<1>2. CASE Answer
  BY <1>2 DEF Answer, LifeInv, LifeTypes, Starting, Stopping
<1>3. CASE StopServing
  BY <1>3 DEF StopServing, LifeInv, LifeTypes, Starting, Stopping, Closings, Openings, Cams
<1>4. ASSUME NEW m \in Modules, Return(m)
      PROVE  LifeInv'
  BY <1>4 DEF Return, LifeInv, LifeTypes, Starting, Stopping
<1> QED BY <1>1, <1>2, <1>3, <1>4

LEMMA ClosingKeeps ==
  ASSUME LifeInv, StopHTTP \/ CancelModules \/ JoinModules \/ CloseParts
  PROVE  LifeInv'
<1>1. closing # "none" /\ opening = "none"
  BY DEF LifeInv, LifeTypes, Starting, StopHTTP, CancelModules, JoinModules, CloseParts, Closes
<1>2. CASE StopHTTP
  BY <1>1, <1>2, LifecycleAssumption DEF StopHTTP, Closes, LifeInv, LifeTypes, Starting, Stopping, Used, Closings
<1>3. CASE CancelModules
  BY <1>1, <1>3 DEF CancelModules, LifeInv, LifeTypes, Starting, Stopping, Closings
<1>4. CASE JoinModules
  BY <1>1, <1>4, LifecycleAssumption DEF JoinModules, ModulesJoined, LifeInv, LifeTypes, Starting, Stopping, Closings
<1>5. CASE CloseParts
  BY <1>1, <1>5, LifecycleAssumption DEF CloseParts, Closes, LifeInv, LifeTypes, Starting, Stopping, Used, Closings
<1> QED BY <1>2, <1>3, <1>4, <1>5

LEMMA LifeInvNext == LifeInv /\ [LifeNext]_lifeVars => LifeInv'
<1> SUFFICES ASSUME LifeInv, [LifeNext]_lifeVars PROVE LifeInv'
  OBVIOUS
<1>1. CASE LifeNext
  BY <1>1, OpeningKeeps, ServingKeeps, ClosingKeeps DEF LifeNext
<1>2. CASE UNCHANGED lifeVars
  BY <1>2 DEF lifeVars, LifeInv, LifeTypes, Starting, Stopping
<1> QED BY <1>1, <1>2

(* Nothing is closed under a user of it, and a serving that has returned   *)
(* left nothing open (main.go serve).                                      *)
THEOREM OrderlyAlways == LifeSpec => []Orderly
<1>1. LifeInv => Orderly
  BY DEF LifeInv, LifeTypes, Starting, Stopping, Orderly, UsersGoFirst, NothingLeft, Parts
<1> QED BY <1>1, LifeInvInit, LifeInvNext, PTL DEF LifeSpec
-----------------------------------------------------------------------------
(***************************************************************************)
(* The connection test: a socket that is open after the flag was set is    *)
(* either in the hands of the dial, which will see the flag, or in those   *)
(* of the cleanup, which captured it.                                      *)
(***************************************************************************)
ProbeInv ==
  /\ ProbeTypes
  /\ stopped <=> prober # "wait"
  /\ dialer \in {"dial", "refused"} => ~live
  /\ dialer = "done" /\ live => sock
  /\ dialer # "done" => ~sock /\ token = "none"
  /\ prober = "close" /\ dialer = "done" /\ live => closer
  /\ prober \in {"disconnect", "returned"} /\ dialer = "done" => ~live

LEMMA ProbeInvInit == ProbeInit => ProbeInv
BY DEF ProbeInit, ProbeInv, ProbeTypes

LEMMA ProbeInvNext == ProbeInv /\ [ProbeNext]_probeVars => ProbeInv'
<1> SUFFICES ASSUME ProbeInv, [ProbeNext]_probeVars PROVE ProbeInv'
  OBVIOUS
<1> USE DEF ProbeInv, ProbeTypes
<1>1. CASE Expire
  BY <1>1 DEF Expire
<1>2. CASE Dial
  <2>1. CASE dialer' = "register" /\ live' = TRUE
    <3>1. live' \in BOOLEAN
      BY <2>1, Zenon
    <3> QED
      BY <1>2, <2>1, <3>1 DEF Dial
  <2>2. CASE dialer' = "refused" /\ UNCHANGED live
    BY <1>2, <2>2 DEF Dial
  <2> QED
    BY <1>2, <2>1, <2>2 DEF Dial
<1>3. CASE RegisterSocket
  BY <1>3 DEF RegisterSocket, KeepSocket
<1>4. CASE Refused
  BY <1>4 DEF Refused
<1>5. CASE Handshake
  <2>1. CASE live' = live
    BY <1>5, <2>1 DEF Handshake
  <2>2. CASE live' = FALSE
    <3>1. live' \in BOOLEAN
      BY <2>2, Zenon
    <3> QED
      BY <1>5, <2>2, <3>1 DEF Handshake
  <2> QED
    BY <1>5, <2>1, <2>2 DEF Handshake
<1>6. CASE Cleanup
  BY <1>6 DEF Cleanup
<1>7. CASE CloseSocket
  BY <1>7 DEF CloseSocket
<1>8. CASE Disconnect0
  BY <1>8 DEF Disconnect0
<1>9. CASE UNCHANGED probeVars
  BY <1>9 DEF probeVars
<1> QED BY <1>1, <1>2, <1>3, <1>4, <1>5, <1>6, <1>7, <1>8, <1>9 DEF ProbeNext

(* No socket outlives a connection test (probePrinterConn).                *)
THEOREM NoSocketLeftAlways == ProbeSpec => []NoSocketLeft
<1>1. ProbeInv => NoSocketLeft
  BY DEF ProbeInv, NoSocketLeft
<1> QED BY <1>1, ProbeInvInit, ProbeInvNext, PTL DEF ProbeSpec
-----------------------------------------------------------------------------
(***************************************************************************)
(* Problems, for any codes and catalogs.  The problems of a document are   *)
(* its visible codes, each in one problem, whatever table they are shown   *)
(* under; a report compares two documents under one table.                 *)
(***************************************************************************)
Seen(d, t) == {c \in Reported(d) : Visible(t, c)}
Gathered(d, t) == IF d.screen \in Seen(d, t) THEN {d.screen} \cup (Seen(d, t) \cap Joins) ELSE {}

LEMMA ProblemsAre ==
  ASSUME NEW d, NEW t
  PROVE  Problems(d, t) = ({Gathered(d, t)} \ {{}}) \cup {{c} : c \in Seen(d, t) \ Gathered(d, t)}
BY DEF Problems, Seen, Gathered

LEMMA ProblemsCover ==
  ASSUME NEW d, NEW t
  PROVE  /\ UNION Problems(d, t) = Seen(d, t)
         /\ \A g, h \in Problems(d, t) : \A c \in g : c \in h => g = h
<1> DEFINE seen == Seen(d, t)
           joined == Gathered(d, t)
<1>1. joined \subseteq seen
  BY DEF Gathered
<1>2. Problems(d, t) = ({joined} \ {{}}) \cup {{c} : c \in seen \ joined}
  BY ProblemsAre
<1> HIDE DEF seen, joined
<1>3. UNION Problems(d, t) = seen
  <2>1. ASSUME NEW g \in Problems(d, t) PROVE g \subseteq seen
    BY <1>1, <1>2, <2>1
  <2>2. ASSUME NEW c \in seen PROVE \E g \in Problems(d, t) : c \in g
    <3>1. CASE c \in joined
      BY <1>2, <3>1
    <3>2. CASE c \notin joined
      <4>1. {c} \in Problems(d, t)
        BY <1>2, <3>2
      <4> QED BY <4>1
    <3> QED BY <3>1, <3>2
  <2> QED BY <2>1, <2>2
<1>4. ASSUME NEW g \in Problems(d, t), NEW h \in Problems(d, t), NEW c \in g, c \in h
      PROVE  g = h
  <2>1. CASE c \in joined
    <3>1. g = joined /\ h = joined
      BY <1>2, <1>4, <2>1
    <3> QED BY <3>1
  <2>2. CASE c \notin joined
    <3>1. g = {c} /\ h = {c}
      BY <1>2, <1>4, <2>2
    <3> QED BY <3>1
  <2> QED BY <2>1, <2>2
<1> QED BY <1>3, <1>4 DEF seen

(* A published table is what a save will write, and without one there is   *)
(* no file that a start did not load.                                      *)
TableOfFile ==
  /\ cached \in Versions \cup {NoCache}
  /\ table.state = "ready" => table.version \in Int /\ cached <= table.version
  /\ table.state # "ready" => cached = NoCache
  /\ asked = "save" => table.state = "ready" /\ table.version \in Versions

ProblemInv == TableOfFile /\ NoEcho

LEMMA ApplySaysNoEcho == ASSUME NEW d \in Reports, Apply(d) PROVE NoEcho'
<1> DEFINE olds == Problems(doc, table)
           news == Problems(d, table)
<1>1. /\ said' = [announced |-> New(olds, news), resolved |-> New(news, olds),
                  fresh |-> Reported(d) \ Reported(doc), gone |-> Reported(doc) \ Reported(d)]
  BY DEF Apply, OldProblems
<1>2. UNION olds = Seen(doc, table) /\ UNION news = Seen(d, table)
  BY ProblemsCover
<1> HIDE DEF olds, news
<1>3. ASSUME NEW as, NEW bs, NEW g \in New(as, bs), NEW c \in g
      PROVE  c \in UNION bs /\ c \notin UNION as
  BY <1>3 DEF New
<1>4. UNION New(olds, news) \subseteq Reported(d) \ Reported(doc)
  <2> SUFFICES ASSUME NEW g \in New(olds, news), NEW c \in g
               PROVE  c \in Reported(d) \ Reported(doc)
    OBVIOUS
  <2>1. c \in Seen(d, table) /\ c \notin Seen(doc, table)
    BY <1>2, <1>3
  <2> QED BY <2>1 DEF Seen
<1>5. UNION New(news, olds) \subseteq Reported(doc) \ Reported(d)
  <2> SUFFICES ASSUME NEW g \in New(news, olds), NEW c \in g
               PROVE  c \in Reported(doc) \ Reported(d)
    OBVIOUS
  <2>1. c \in Seen(doc, table) /\ c \notin Seen(d, table)
    BY <1>2, <1>3
  <2> QED BY <2>1 DEF Seen
<1> QED
  BY <1>1, <1>4, <1>5 DEF NoEcho

LEMMA ProblemInvInit == ProblemInit => ProblemInv
BY DEF ProblemInit, ProblemInv, TableOfFile, NoEcho, Silence, Loading

LEMMA ProblemInvNext == ProblemInv /\ [ProblemNext]_problemVars => ProblemInv'
<1> SUFFICES ASSUME ProblemInv, [ProblemNext]_problemVars PROVE ProblemInv'
  OBVIOUS
<1> USE DEF ProblemInv
<1>1. ASSUME NEW d \in Reports, Apply(d) PROVE ProblemInv'
  BY <1>1, ApplySaysNoEcho DEF Apply, TableOfFile
<1>2. CASE UNCHANGED problemVars
  BY <1>2 DEF problemVars, TableOfFile, NoEcho
<1>3. CASE Ask \/ Update
  BY <1>3 DEF Ask, Update, TableOfFile, NoEcho
<1>4. CASE AskFails \/ Unchanged
  BY <1>4 DEF AskFails, Unchanged, TableOfFile, NoEcho, Failed, Loading, EmptyReady, NoCache
<1>5. CASE Save
  BY <1>5, ProblemAssumption DEF Save, TableOfFile, NoEcho, Versions
<1>6. ASSUME NEW v \in Versions, FullAnswer(v) PROVE ProblemInv'
  BY <1>6, ProblemAssumption DEF FullAnswer, Replaces, Full, TableOfFile, NoEcho, NoCache, Versions
<1>7. CASE Restart
  <2>1. said' = Silence /\ cached' = cached /\ asked' = "idle"
        /\ table' = IF cached = NoCache THEN Loading ELSE Full(cached)
    BY <1>7 DEF Restart
  <2>2. NoEcho'
    BY <2>1 DEF NoEcho, Silence
  <2> QED
    BY <2>1, <2>2, ProblemAssumption DEF TableOfFile, Full, Loading, NoCache, Versions
<1> QED
  BY <1>1, <1>2, <1>3, <1>4, <1>5, <1>6, <1>7 DEF ProblemNext

(* For any codes and any catalogs, a report announces and resolves nothing *)
(* that it did not bring or take away, every visible code is in one        *)
(* problem, and the table is never behind its file (Store.Apply, Problems, *)
(* Catalog.refresh).                                                       *)
THEOREM ProblemsAlwaysRight == ProblemSpec => []ProblemsRight
<1>1. OneProblemEach
  BY ProblemsCover DEF OneProblemEach, Seen
<1>2. ProblemInv => NoEcho /\ NeverBehindFile
  BY DEF ProblemInv, TableOfFile, NeverBehindFile
<1> QED
  BY <1>1, <1>2, ProblemInvInit, ProblemInvNext, PTL DEF ProblemSpec, ProblemsRight
-----------------------------------------------------------------------------
(***************************************************************************)
(* The names of the broker, for any configurations and clients.            *)
(***************************************************************************)
LEMMA NamesDiffer ==
  ASSUME NEW ps, Validate(ps), NEW i \in DOMAIN ps, NEW j \in DOMAIN ps,
         DownstreamID(ps[i]) = DownstreamID(ps[j])
  PROVE  i = j
BY DEF Validate, SerialsDiffer, AliasesDiffer, DownstreamID

(* The printer that a name means, from both sides.                         *)
LEMMA NameIsOnePrinters ==
  ASSUME NEW ps, Validate(ps), DOMAIN ps = 1 .. Len(ps), Len(ps) \in Nat, NEW i \in DOMAIN ps
  PROVE  Downstream(ps, ps[i].serial) = DownstreamID(ps[i]) /\ Owner(ps, DownstreamID(ps[i])) = ps[i].serial
<1>1. {k \in DOMAIN ps : ps[k].serial = ps[i].serial} = {i}
  BY DEF Validate, SerialsDiffer
<1>2. {k \in DOMAIN ps : DownstreamID(ps[k]) = DownstreamID(ps[i])} = {i}
  BY NamesDiffer
<1>3. (CHOOSE k \in {i} : \A j \in {i} : j <= k) = i
  <2>1. i <= i
    OBVIOUS
  <2> QED BY <2>1, Zenon
<1> QED
  BY <1>1, <1>2, <1>3 DEF Downstream, Owner

BridgeInv ==
  /\ Validate(config) /\ config \in Configured /\ links \subseteq Served(config)
  /\ OnePrinterPerName

(* Two served printers of one name are one.                                *)
LEMMA NamedAlike ==
  ASSUME Validate(config), config \in Configured, NEW p \in Served(config), NEW q \in Served(config),
         Downstream(config, p) = Downstream(config, q)
  PROVE  p = q
<1>1. PICK i \in DOMAIN config : p = config[i].serial
  BY DEF Served
<1>2. PICK j \in DOMAIN config : q = config[j].serial
  BY DEF Served
<1>3. DownstreamID(config[i]) = DownstreamID(config[j])
  BY <1>1, <1>2, NameIsOnePrinters, BridgeAssumption
<1> QED
  BY <1>1, <1>2, <1>3, NamesDiffer

LEMMA BridgeInvNext == BridgeInv /\ [BridgeNext]_bridgeVars => BridgeInv'
<1> SUFFICES ASSUME BridgeInv, [BridgeNext]_bridgeVars PROVE BridgeInv'
  OBVIOUS
<1> USE DEF BridgeInv
<1>1. ASSUME NEW p \in Served(config), Link(p) PROVE BridgeInv'
  BY <1>1 DEF Link, Quiet, OnePrinterPerName
<1>2. ASSUME NEW p \in Served(config), Inject(p) PROVE BridgeInv'
  BY <1>2, NamedAlike DEF Inject, OnePrinterPerName
<1>3. ASSUME NEW a \in Apps, NEW id \in Names \cup {"+"}, Subscribe(a, id) PROVE BridgeInv'
  BY <1>3 DEF Subscribe, Quiet, OnePrinterPerName
<1>4. ASSUME NEW a \in Apps, Disconnect(a) PROVE BridgeInv'
  BY <1>4 DEF Disconnect, Quiet, OnePrinterPerName
<1>5. ASSUME NEW a \in Apps, NEW user, NEW code, Connect(a, user, code) PROVE BridgeInv'
  BY <1>5 DEF Connect, Quiet, OnePrinterPerName
<1>6. ASSUME NEW a \in Apps, NEW id \in Names, NEW kind \in {"request", "report"}, Request(a, id, kind)
      PROVE  BridgeInv'
  <2>1. UNCHANGED <<config, links>>
    BY <1>6 DEF Request
  <2>2. CASE wire' = Quiet
    BY <2>1, <2>2 DEF Quiet, OnePrinterPerName
  <2>3. CASE wire' # Quiet
    <3>1. id \in IDs(config) /\ wire' = [kind |-> "request", id |-> id, printer |-> Owner(config, id), apps |-> {}]
      BY <1>6, <2>3 DEF Request, RequestSerial
    <3>2. PICK i \in DOMAIN config : id = DownstreamID(config[i])
      BY <3>1 DEF IDs
    <3>3. Downstream(config, config[i].serial) = id /\ Owner(config, id) = config[i].serial
      BY <3>2, NameIsOnePrinters, BridgeAssumption
    <3>4. config[i].serial \in Served(config)
      BY DEF Served
    <3> QED
      BY <2>1, <3>1, <3>3, <3>4, NamedAlike DEF OnePrinterPerName
  <2> QED BY <2>2, <2>3
<1>7. CASE UNCHANGED bridgeVars
  BY <1>7 DEF bridgeVars, OnePrinterPerName
<1> QED
  BY <1>1, <1>2, <1>3, <1>4, <1>5, <1>6, <1>7 DEF BridgeNext

(* For any valid configuration a name is one printer's, in both directions *)
(* (Config.Validate, NewTable, RequestSerial, Downstream).                 *)
THEOREM NamesAreOnePrinters == BridgeSpec => []OnePrinterPerName
<1>1. BridgeInit => BridgeInv
  BY DEF BridgeInit, BridgeInv, OnePrinterPerName, Quiet
<1>2. BridgeInv => OnePrinterPerName
  BY DEF BridgeInv
<1> QED
  BY <1>1, <1>2, BridgeInvNext, PTL DEF BridgeSpec
-----------------------------------------------------------------------------
(***************************************************************************)
(* The configuration page, for any submissions and files.  A row takes the *)
(* code of the last stored printer of its serial, so the file's printers   *)
(* have to be finitely many for there to be one.                           *)
(***************************************************************************)
Listed(ps) == DOMAIN ps = 1 .. Len(ps) /\ Len(ps) \in Nat

LEMMA LastExists ==
  ASSUME NEW n \in Nat, NEW I, I \subseteq 1 .. n, I # {}
  PROVE  \E i \in I : \A j \in I : j <= i
<1> DEFINE T == {n - i : i \in I}
<1>1. T \subseteq Nat /\ T # {}
  <2>1. ASSUME NEW i \in I PROVE n - i \in Nat
    <3>1. i \in 1 .. n
      OBVIOUS
    <3> QED BY <3>1
  <2>2. T \subseteq Nat
    BY <2>1
  <2>3. PICK i \in I : TRUE
    OBVIOUS
  <2>4. n - i \in T
    OBVIOUS
  <2> QED BY <2>2, <2>4
<1>2. PICK x \in T : \A y \in T : ~ (<<y, x>> \in OpToRel(<, Nat))
  BY <1>1, NatLessThanWellFounded, WFMin
<1>3. \A y \in T : ~ (y < x)
  BY <1>1, <1>2 DEF OpToRel
<1>4. PICK i \in I : x = n - i
  OBVIOUS
<1>5. ASSUME NEW j \in I PROVE j <= i
  <2>1. n - j \in T
    OBVIOUS
  <2>2. ~ (n - j < n - i)
    BY <1>3, <1>4, <2>1
  <2> QED BY <2>2
<1> QED BY <1>5

(* A stored code was stored for its address.                               *)
LEMMA StoredIsHeld ==
  ASSUME Listed(file.printers), NEW serial, Stored(serial).code # Blank
  PROVE  Secret(Stored(serial).code, WithDefaultPrinterPort(Stored(serial).address)) \in Held(file)
<1> DEFINE own == {i \in DOMAIN file.printers : file.printers[i].serial = serial}
           last == CHOOSE i \in own : \A j \in own : j <= i
<1>1. own # {}
  BY DEF Stored
<1>2. last \in own
  <2>1. \E i \in own : \A j \in own : j <= i
    BY <1>1, LastExists DEF Listed
  <2> QED BY <2>1
<1>3. Stored(serial) = file.printers[last]
  BY <1>1 DEF Stored
<1> QED
  BY <1>2, <1>3 DEF Held, Secrets, Secret

LEMMA PutKeepsSecrets ==
  ASSUME Listed(file.printers), Held(file) \subseteq typed,
         NEW rows \in PrinterForms, NEW form \in PlateForms
  PROVE  Held(File(ToPrinters(rows), ToPlate(form))) \subseteq typed \cup Typed(rows, form)
<1> DEFINE new == File(ToPrinters(rows), ToPlate(form))
<1>1. /\ new.printers = ToPrinters(rows) /\ new.plate = ToPlate(form)
  BY DEF File
<1>2. /\ ToPlate(form).to = form.to
      /\ ToPlate(form).key = IF form.key = Blank /\ form.to = file.plate.to THEN file.plate.key ELSE form.key
  BY PageAssumption DEF ToPlate
<1>3. ASSUME NEW i \in DOMAIN rows, ToPrinter(rows[i]).code # Blank
      PROVE  Secret(ToPrinter(rows[i]).code, WithDefaultPrinterPort(ToPrinter(rows[i]).address))
               \in typed \cup Typed(rows, form)
  <2>1. CASE KeepsCode(rows[i])
    <3>1. /\ ToPrinter(rows[i]).code = Stored(rows[i].previous).code
          /\ WithDefaultPrinterPort(ToPrinter(rows[i]).address) =
               WithDefaultPrinterPort(Stored(rows[i].previous).address)
      BY <2>1 DEF ToPrinter, KeepsCode
    <3> QED
      BY <1>3, <3>1, StoredIsHeld
  <2>2. CASE ~KeepsCode(rows[i])
    <3>1. ToPrinter(rows[i]).code = rows[i].code /\ ToPrinter(rows[i]).address = rows[i].address
      BY <2>2 DEF ToPrinter
    <3> QED
      BY <1>3, <3>1 DEF Typed, Secret
  <2> QED BY <2>1, <2>2
<1>4. ASSUME ToPlate(form).key # Blank
      PROVE  Secret(ToPlate(form).key, ToPlate(form).to) \in typed \cup Typed(rows, form)
  BY <1>2, <1>4 DEF Held, Secrets, Typed, Secret
<1>5. ASSUME NEW s \in Held(new) PROVE s \in typed \cup Typed(rows, form)
  <2>1. s.secret # Blank /\ s \in Secrets(new)
    BY <1>5 DEF Held
  <2>2. CASE s = Secret(new.plate.key, new.plate.to)
    BY <1>1, <1>4, <2>1, <2>2 DEF Secret
  <2>3. ASSUME NEW i \in DOMAIN new.printers,
               s = Secret(new.printers[i].code, WithDefaultPrinterPort(new.printers[i].address))
        PROVE  s \in typed \cup Typed(rows, form)
    <3>1. i \in DOMAIN rows /\ new.printers[i] = ToPrinter(rows[i])
      BY <1>1 DEF ToPrinters
    <3> QED
      BY <1>3, <2>1, <2>3, <3>1 DEF Secret
  <2> QED BY <2>1, <2>2, <2>3 DEF Secrets
<1> QED BY <1>5

(* A start finds no test under way, which the process before it took along.*)
PageInv ==
  /\ Listed(file.printers) /\ PageKeeps
  /\ proc = "starting" => tested = NoTest

LEMMA PageInvInit == PageInit => PageInv
<1> SUFFICES ASSUME PageInit PROVE PageInv
  OBVIOUS
<1>1. file = NoFile /\ proc = "starting" /\ probed = NoSecret /\ tested = NoTest
  BY DEF PageInit
<1>2. Held(file) = {} /\ Listed(file.printers) /\ file.kind = "absent"
  BY <1>1 DEF NoFile, Held, Secrets, Secret, Listed
<1> QED
  BY <1>1, <1>2 DEF PageInv, PageKeeps, SecretsStayPut, SavedIsValid, SavedIsServed, TestsKeepOff

LEMMA PagePutKeeps ==
  ASSUME PageInv, NEW rows \in PrinterForms, NEW form \in PlateForms, Put(rows, form)
  PROVE  PageInv'
<1> DEFINE new == File(ToPrinters(rows), ToPlate(form))
<1>1. /\ Valid(new) /\ file' = new /\ fresh' = FALSE /\ put' = TRUE /\ proc # "starting"
      /\ typed' = typed \cup Typed(rows, form) /\ UNCHANGED <<saved, proc, probed, tested>>
  BY DEF Put, Answering
<1>2. Listed(file'.printers)
  <2>1. new.printers = ToPrinters(rows)
    BY DEF File
  <2>2. DOMAIN rows = 1 .. Len(rows) /\ Len(rows) \in Nat
    BY PageAssumption
  <2>3. ToPrinters(rows) \in [1 .. Len(rows) -> {ToPrinter(rows[i]) : i \in DOMAIN rows}]
    BY <2>2 DEF ToPrinters
  <2>4. Len(ToPrinters(rows)) = Len(rows)
    <3> HIDE DEF ToPrinters
    <3>1. ToPrinters(rows) \in Seq({ToPrinter(rows[i]) : i \in DOMAIN rows})
      BY <2>2, <2>3, SeqDef
    <3> QED BY <2>2, <2>3, <3>1, LenProperties
  <2> QED BY <1>1, <2>1, <2>2, <2>3, <2>4 DEF Listed
<1>3. Held(file') \subseteq typed'
  BY <1>1, PutKeepsSecrets DEF PageInv, PageKeeps, SecretsStayPut
<1>4. SecretsStayPut'
  BY <1>1, <1>3 DEF SecretsStayPut, PageInv, PageKeeps
<1>5. SavedIsValid' /\ SavedIsServed' /\ TestsKeepOff'
  BY <1>1 DEF SavedIsValid, SavedIsServed, TestsKeepOff
<1> QED
  BY <1>1, <1>2, <1>4, <1>5 DEF PageInv, PageKeeps

LEMMA PageInvNext == PageInv /\ [PageNext]_pageVars => PageInv'
<1> SUFFICES ASSUME PageInv, [PageNext]_pageVars PROVE PageInv'
  OBVIOUS
<1> USE DEF PageInv, PageKeeps, SecretsStayPut, SavedIsValid, SavedIsServed, TestsKeepOff
<1>1. ASSUME NEW rows \in PrinterForms, NEW form \in PlateForms, Put(rows, form)
      PROVE  PageInv'
  BY <1>1, PagePutKeeps
<1>2. CASE UNCHANGED pageVars
  BY <1>2 DEF pageVars
<1>3. CASE Start
  BY <1>3 DEF Start
<1>4. CASE SignalSaved \/ TakeSignal
  BY <1>4 DEF SignalSaved, TakeSignal
<1>5. CASE Exec \/ Killed
  BY <1>5 DEF Exec, Killed
<1>6. ASSUME NEW form \in PlateForms, Test(form)
      PROVE  PageInv'
  <2>1. TestKey(form) # Blank /\ probed' = Secret(TestKey(form), form.to)
        /\ typed' = typed \cup Typed(<<>>, form)
        /\ UNCHANGED <<file, byHand, put, saved, proc, fresh, tested>>
    BY <1>6 DEF Test
  <2>2. probed' \in typed'
    BY <2>1 DEF TestKey, Typed, Held, Secrets, Secret
  <2> QED BY <2>1, <2>2
<1>7. ASSUME NEW rows \in PrinterForms, TestPrinter(rows[1])
      PROVE  PageInv'
  BY <1>7 DEF TestPrinter, Owned, Answering, NoTest
<1>8. CASE PrinterTested
  BY <1>8 DEF PrinterTested
<1>9. ASSUME NEW f \in HandFiles, Edit(f)
      PROVE  PageInv'
  <2>1. Listed(f.printers)
    BY PageAssumption DEF Listed
  <2> QED BY <1>9, <2>1 DEF Edit
<1> QED
  BY <1>1, <1>2, <1>3, <1>4, <1>5, <1>6, <1>7, <1>8, <1>9 DEF PageNext

(* For any submissions, files written by hand, restarts and crashes: no    *)
(* secret is stored or sent for another destination than it was entered    *)
(* for, a saved file is valid and is served or about to be, and a test     *)
(* keeps off the printers served (View.toConfig, handlePut, waitStop).     *)
THEOREM PageAlwaysKeeps == PageSpec => []PageKeeps
<1>1. PageInv => PageKeeps
  BY DEF PageInv
<1> QED BY <1>1, PageInvInit, PageInvNext, PTL DEF PageSpec
-----------------------------------------------------------------------------
(***************************************************************************)
(* The trend of a Panda Breath, for any limits that leave the slack of     *)
(* BreathAssumption.  What is shown reaches no further back than the       *)
(* window (Behind).  That it reaches far enough takes two more facts about *)
(* readings that keep coming: the oldest sample is from before they began  *)
(* or old enough (Reaches), and no two samples taken since are so far      *)
(* apart that dropping one leaves too short a span (Dense).                *)
(***************************************************************************)
Behind ==
  latest # NoReading => history # <<>> /\ history[1] <= latest + TrendWindow

Reaches ==
  IsFresh => history[1] >= steady \/ history[1] - latest >= TrendMinSpan

Dense ==
  IsFresh =>
    /\ history[Len(history)] - latest < SampleEvery
    /\ \A i \in 1 .. Len(history) - 1 :
         history[i + 1] >= steady \/ history[i] - history[i + 1] < SampleEvery + FreshFor

BreathInv == BreathTypes /\ Behind /\ Reaches /\ Dense
-----------------------------------------------------------------------------
(* Ages are the numbers up to one past all limits.                         *)
LEMMA Limits ==
  /\ FreshFor \in Nat \ {0} /\ SampleEvery \in Nat \ {0} /\ TrendMinSpan \in Nat \ {0}
  /\ TrendWindow \in Nat /\ TrendWindow >= TrendMinSpan + SampleEvery + FreshFor
  /\ Oldest \in Nat /\ Oldest = TrendWindow + FreshFor + 1
  /\ 0 \in Ages /\ NoReading \notin Ages
  /\ \A a \in Ages : a \in Nat /\ a <= Oldest
BY BreathAssumption DEF Ages, Oldest, NoReading

(* Getting older, ages keep their order and lose none of their distance up *)
(* to the cap.                                                             *)
LEMMA Aging ==
  ASSUME NEW a \in Ages
  PROVE  /\ AgeOn(a) \in Ages /\ AgeOn(a) >= a
         /\ \A b \in Ages : a >= b => AgeOn(a) >= AgeOn(b)
         /\ \A b \in Ages, d \in Nat : a <= b + d => AgeOn(a) <= AgeOn(b) + d
BY BreathAssumption DEF AgeOn, Ages, Oldest

(* The first sample that is kept exists.                                   *)
LEMMA FirstIsKept ==
  ASSUME NEW h \in Seq(Ages)
  PROVE  /\ FirstKept(h) \in 1 .. Len(h) + 1
         /\ \A j \in 1 .. FirstKept(h) - 1 : h[j] > TrendWindow
         /\ FirstKept(h) <= Len(h) => h[FirstKept(h)] <= TrendWindow
<1> DEFINE T == {i \in 1 .. Len(h) + 1 : i <= Len(h) => h[i] <= TrendWindow}
<1>1. Len(h) \in Nat /\ \A i \in 1 .. Len(h) : h[i] \in Ages
  OBVIOUS
<1>2. T \subseteq Nat /\ Len(h) + 1 \in T
  BY <1>1
<1>3. PICK x \in T : \A y \in T : ~ (<<y, x>> \in OpToRel(<, Nat))
  BY <1>2, NatLessThanWellFounded, WFMin
<1>4. \A y \in T : ~ (y < x)
  BY <1>2, <1>3 DEF OpToRel
<1>5. ASSUME NEW j \in 1 .. x - 1 PROVE h[j] > TrendWindow
  <2>1. j \in 1 .. Len(h) /\ j < x
    <3>1. x \in 1 .. Len(h) + 1
      BY <1>3
    <3> QED BY <1>1, <3>1
  <2>2. j \notin T /\ j \in 1 .. Len(h) + 1
    BY <1>1, <1>4, <2>1
  <2>3. ~ (h[j] <= TrendWindow)
    BY <2>2
  <2> QED BY <1>1, <2>1, <2>3, Limits
<1> QED BY <1>3, <1>5 DEF FirstKept

(* What is left of the samples, from the first one that is kept.           *)
LEMMA Kept ==
  ASSUME NEW h \in Seq(Ages), NEW s, s = SubSeq(h, FirstKept(h), Len(h))
  PROVE  /\ s \in Seq(Ages) /\ Len(s) = Len(h) + 1 - FirstKept(h)
         /\ \A i \in 1 .. Len(s) : s[i] = h[i + FirstKept(h) - 1]
BY FirstIsKept, SubSeqProperties

(* A reading becomes a sample of its own, or the newest one is recent.     *)
LEMMA SpacedIs ==
  ASSUME NEW s \in Seq(Ages), NEW r, r = Spaced(s)
  PROVE  /\ r \in Seq(Ages) /\ r # <<>> /\ r[Len(r)] < SampleEvery
         /\ \/ r = s /\ s # <<>>
            \/ /\ Len(r) = Len(s) + 1 /\ r[Len(r)] = 0
               /\ \A i \in 1 .. Len(s) : r[i] = s[i]
               /\ s # <<>> => s[Len(s)] >= SampleEvery
<1>1. 0 \in Ages /\ SampleEvery \in Nat \ {0}
  BY BreathAssumption DEF Ages, Oldest
<1>2. CASE s # <<>> /\ s[Len(s)] < SampleEvery
  BY <1>2 DEF Spaced
<1>3. CASE ~ (s # <<>> /\ s[Len(s)] < SampleEvery)
  <2>1. r = Append(s, 0)
    BY <1>3 DEF Spaced
  <2>2. s # <<>> => s[Len(s)] \in Nat
    BY BreathAssumption DEF Ages, Oldest
  <2> QED BY <1>1, <1>3, <2>1, <2>2, AppendProperties
<1> QED BY <1>2, <1>3

LEMMA BreathInvInit == BreathInit => BreathInv
<1> SUFFICES ASSUME BreathInit PROVE BreathInv
  OBVIOUS
<1>1. <<>> \in Seq(Ages) /\ 0 \in Ages
  BY BreathAssumption DEF Ages, Oldest
<1> QED BY <1>1 DEF BreathInit, BreathInv, BreathTypes, Behind, Reaches, Dense, IsFresh

(* Time ages the samples alike, until they are too old to matter.          *)
LEMMA TimeKeeps == BreathInv /\ TimePasses => BreathInv'
<1> SUFFICES ASSUME BreathInv, TimePasses PROVE BreathInv'
  OBVIOUS
<1>1. /\ latest \in Ages /\ latest' = AgeOn(latest) /\ steady \in Ages /\ steady' = AgeOn(steady)
      /\ history # <<>> /\ Len(history) \in Nat \ {0}
      /\ \A i \in 1 .. Len(history) : history[i] \in Ages
  BY DEF TimePasses, BreathInv, BreathTypes, Behind
<1>2. /\ history' \in Seq(Ages) /\ Len(history') = Len(history)
      /\ \A i \in 1 .. Len(history) : history'[i] = AgeOn(history[i])
  <2>1. \A i \in 1 .. Len(history) : AgeOn(history[i]) \in Ages
    BY <1>1, Aging
  <2>2. history' = [i \in 1 .. Len(history) |-> AgeOn(history[i])]
    BY DEF TimePasses, BreathInv, BreathTypes
  <2> QED BY <1>1, <2>1, <2>2
<1>3. latest' \in Ages /\ steady' \in Ages /\ history' # <<>>
  BY <1>1, <1>2, Aging
<1>4. BreathTypes'
  BY <1>2, <1>3 DEF TimePasses, BreathInv, BreathTypes
<1>5. 1 \in 1 .. Len(history) /\ Len(history) \in 1 .. Len(history)
  BY <1>1
<1>6. Behind'
  <2>1. history[1] <= latest + TrendWindow
    BY <1>1, Limits DEF BreathInv, Behind
  <2>2. AgeOn(history[1]) <= AgeOn(latest) + TrendWindow
    BY <1>1, <1>5, <2>1, Aging, Limits
  <2> QED BY <1>1, <1>2, <1>3, <1>5, <2>2 DEF Behind
<1>7. SUFFICES ASSUME IsFresh' PROVE Reaches' /\ Dense'
  BY <1>4, <1>6 DEF BreathInv, Reaches, Dense
<1>8. latest + 1 <= FreshFor /\ latest' = latest + 1 /\ IsFresh
  BY <1>1, <1>3, <1>7, Limits DEF IsFresh, AgeOn
<1>9. Reaches'
  <2>1. CASE history[1] >= steady
    <3>1. history'[1] >= steady'
      BY <1>1, <1>2, <1>5, <2>1, Aging
    <3> QED BY <3>1 DEF Reaches
  <2>2. CASE history[1] - latest >= TrendMinSpan
    <3>1. history'[1] - latest' >= TrendMinSpan
      BY <1>1, <1>2, <1>5, <1>8, <2>2, Limits DEF AgeOn
    <3> QED BY <3>1 DEF Reaches
  <2> QED BY <1>8, <2>1, <2>2 DEF BreathInv, Reaches
<1>10. history'[Len(history')] - latest' < SampleEvery
  <2>1. history[Len(history)] - latest < SampleEvery
    BY <1>8 DEF BreathInv, Dense
  <2>2. history[Len(history)] <= latest + (SampleEvery - 1) /\ SampleEvery - 1 \in Nat
    BY <1>1, <1>5, <2>1, Limits
  <2>3. AgeOn(history[Len(history)]) <= AgeOn(latest) + (SampleEvery - 1)
    BY <1>1, <1>5, <2>2, Aging
  <2>4. history'[Len(history')] = AgeOn(history[Len(history)]) /\ AgeOn(history[Len(history)]) \in Ages
    BY <1>1, <1>2, <1>5, Aging
  <2> QED BY <1>1, <1>3, <2>3, <2>4, Limits
<1>11. ASSUME NEW i \in 1 .. Len(history') - 1
       PROVE  \/ history'[i + 1] >= steady'
              \/ history'[i] - history'[i + 1] < SampleEvery + FreshFor
  <2>1. i \in 1 .. Len(history) - 1 /\ i \in 1 .. Len(history) /\ i + 1 \in 1 .. Len(history)
    BY <1>1, <1>2
  <2> DEFINE a == history[i]
             b == history[i + 1]
  <2>2. a \in Ages /\ b \in Ages /\ history'[i] = AgeOn(a) /\ history'[i + 1] = AgeOn(b)
    BY <1>1, <1>2, <2>1
  <2>3. b >= steady \/ a - b < SampleEvery + FreshFor
    BY <1>8, <2>1 DEF BreathInv, Dense
  <2> HIDE DEF a, b
  <2>4. CASE b >= steady
    BY <1>1, <2>2, <2>4, Aging
  <2>5. CASE a - b < SampleEvery + FreshFor
    BY <2>2, <2>5, Limits DEF AgeOn
  <2> QED BY <2>3, <2>4, <2>5
<1> QED BY <1>9, <1>10, <1>11 DEF Dense

(* A reading drops samples only where those that are kept still reach back *)
(* far enough.                                                             *)
LEMMA ReadingKeeps == BreathInv /\ TakeReading => BreathInv'
<1> SUFFICES ASSUME BreathInv, TakeReading PROVE BreathInv'
  OBVIOUS
<1> DEFINE first == FirstKept(history)
           kept == SubSeq(history, first, Len(history))
<1>1. history \in Seq(Ages) /\ latest \in Ages \cup {NoReading} /\ steady \in Ages
  BY DEF BreathInv, BreathTypes
<1>2. /\ first \in 1 .. Len(history) + 1
      /\ \A j \in 1 .. first - 1 : history[j] > TrendWindow
      /\ first <= Len(history) => history[first] <= TrendWindow
  BY <1>1, FirstIsKept
<1>3. /\ kept \in Seq(Ages) /\ Len(kept) = Len(history) + 1 - first
      /\ \A i \in 1 .. Len(kept) : kept[i] = history[i + first - 1]
  BY <1>1, Kept
<1>4. history' = Spaced(kept) /\ latest' = 0
  BY DEF TakeReading, KeepSample
<1> HIDE DEF first, kept
<1>5. /\ history' \in Seq(Ages) /\ history' # <<>> /\ history'[Len(history')] < SampleEvery
      /\ \/ history' = kept /\ kept # <<>>
         \/ /\ Len(history') = Len(kept) + 1 /\ history'[Len(history')] = 0
            /\ \A i \in 1 .. Len(kept) : history'[i] = kept[i]
            /\ kept # <<>> => kept[Len(kept)] >= SampleEvery
  BY <1>3, <1>4, SpacedIs
<1>6. /\ Len(history) \in Nat /\ Len(kept) \in Nat /\ Len(history') \in Nat \ {0}
      /\ \A i \in 1 .. Len(history) : history[i] \in Ages
      /\ \A i \in 1 .. Len(kept) : kept[i] \in Ages
      /\ \A i \in 1 .. Len(history') : history'[i] \in Ages
      /\ kept # <<>> <=> Len(kept) > 0
  BY <1>1, <1>3, <1>5
<1>7. steady' = (IF IsFresh THEN steady ELSE 0) /\ steady' \in Ages
  <2>1. IsFresh <=> ~ (latest = NoReading \/ latest > FreshFor)
    BY <1>1, Limits DEF IsFresh
  <2> QED BY <1>1, <2>1, Limits DEF TakeReading
<1>8. BreathTypes'
  <2>1. 0 \in Ages /\ device' \in {"dial", "read", "wait", "ended"}
    BY Limits DEF TakeReading, BreathInv, BreathTypes
  <2> QED BY <1>4, <1>5, <1>7, <2>1 DEF BreathTypes
<1>9. history'[1] <= TrendWindow
  <2>1. CASE Len(kept) = 0
    <3>1. ~ (kept # <<>>)
      BY <1>6, <2>1
    <3>2. Len(history') = 1 /\ history'[Len(history')] = 0
      BY <1>5, <2>1, <3>1
    <3>3. history'[1] = 0
      BY <3>2
    <3> QED BY <3>3, Limits
  <2>2. CASE Len(kept) > 0
    <3>1. kept[1] = history[first] /\ first <= Len(history)
      BY <1>2, <1>3, <1>6, <2>2
    <3>2. history'[1] = kept[1]
      BY <1>5, <1>6, <2>2
    <3> QED BY <1>2, <3>1, <3>2
  <2> QED BY <1>6, <2>1, <2>2
<1>10. Behind'
  BY <1>4, <1>5, <1>9, Limits DEF Behind
<1>11. ASSUME ~ IsFresh PROVE Reaches' /\ Dense'
  <2>1. steady' = 0
    BY <1>7, <1>11
  <2>2. \A i \in 1 .. Len(history') : history'[i] >= steady'
    BY <1>6, <2>1, Limits
  <2>3. Reaches'
    BY <1>6, <2>2 DEF Reaches
  <2>4. history'[Len(history')] - latest' < SampleEvery
    BY <1>4, <1>5, <1>6, Limits
  <2>5. \A i \in 1 .. Len(history') - 1 : history'[i + 1] >= steady'
    BY <1>6, <2>2
  <2> QED BY <2>3, <2>4, <2>5 DEF Dense
<1>12. ASSUME IsFresh PROVE Reaches' /\ Dense'
  <2>1. /\ latest \in Ages /\ latest <= FreshFor /\ steady' = steady
        /\ history # <<>> /\ Len(history) > 0
    BY <1>1, <1>6, <1>7, <1>12 DEF IsFresh, BreathInv, Behind
  <2>2. /\ history[1] >= steady \/ history[1] - latest >= TrendMinSpan
        /\ history[Len(history)] - latest < SampleEvery
        /\ \A i \in 1 .. Len(history) - 1 :
             history[i + 1] >= steady \/ history[i] - history[i + 1] < SampleEvery + FreshFor
    BY <1>12 DEF BreathInv, Reaches, Dense
  <2> USE Limits
  <2>3. Len(kept) > 0 /\ first <= Len(history)
    <3>1. Len(history) \in 1 .. Len(history) /\ history[Len(history)] < SampleEvery + FreshFor
      <4>1. Len(history) \in 1 .. Len(history)
        BY <1>6, <2>1
      <4>2. history[Len(history)] \in Nat /\ latest \in Nat
        BY <1>6, <2>1, <4>1
      <4> QED BY <2>1, <2>2, <4>1, <4>2
    <3>2. first # Len(history) + 1
      BY <1>2, <1>6, <2>1, <3>1
    <3> QED BY <1>2, <1>3, <1>6, <3>2
  <2>4. history'[1] = history[first] /\ kept[1] = history[first]
    <3>1. 1 \in 1 .. Len(kept) /\ 1 + first - 1 = first
      BY <1>2, <1>6, <2>3
    <3>2. kept[1] = history[first]
      BY <1>3, <3>1
    <3>3. history'[1] = kept[1]
      <4>1. CASE history' = kept
        BY <4>1
      <4>2. CASE \A i \in 1 .. Len(kept) : history'[i] = kept[i]
        BY <3>1, <4>2
      <4> QED BY <1>5, <4>1, <4>2
    <3> QED BY <3>2, <3>3
  <2>5. history[first] >= steady \/ history[first] >= TrendMinSpan
    <3>1. CASE first = 1
      BY <1>6, <2>1, <2>2, <3>1
    <3>2. CASE first # 1
      <4>1. /\ first - 1 \in 1 .. Len(history) - 1 /\ first - 1 \in 1 .. first - 1
            /\ first \in 1 .. Len(history) /\ (first - 1) + 1 = first
        BY <1>2, <1>6, <2>3, <3>2
      <4>2. /\ history[first - 1] > TrendWindow
            /\ history[first] >= steady \/ history[first - 1] - history[first] < SampleEvery + FreshFor
        BY <1>2, <2>2, <4>1
      <4> QED BY <1>6, <4>1, <4>2
    <3> QED BY <3>1, <3>2
  <2>6. Reaches'
    <3>1. first \in 1 .. Len(history)
      BY <1>2, <1>6, <2>3
    <3> QED BY <1>4, <1>6, <2>1, <2>4, <2>5, <3>1 DEF Reaches
  <2>7. ASSUME NEW i \in 1 .. Len(kept) - 1
        PROVE  kept[i + 1] >= steady \/ kept[i] - kept[i + 1] < SampleEvery + FreshFor
    <3>1. /\ i + first - 1 \in 1 .. Len(history) - 1
          /\ i + 1 + first - 1 = (i + first - 1) + 1
          /\ i \in 1 .. Len(kept) /\ i + 1 \in 1 .. Len(kept)
      BY <1>2, <1>3, <1>6
    <3>2. kept[i] = history[i + first - 1] /\ kept[i + 1] = history[(i + first - 1) + 1]
      BY <1>3, <3>1
    <3> QED BY <2>2, <3>1, <3>2
  <2>8. \A i \in 1 .. Len(history') - 1 :
          history'[i + 1] >= steady \/ history'[i] - history'[i + 1] < SampleEvery + FreshFor
    <3>1. CASE history' = kept
      BY <2>7, <3>1
    <3>2. CASE /\ Len(history') = Len(kept) + 1 /\ history'[Len(history')] = 0
               /\ \A i \in 1 .. Len(kept) : history'[i] = kept[i]
      <4> SUFFICES ASSUME NEW i \in 1 .. Len(kept)
                   PROVE  \/ history'[i + 1] >= steady
                          \/ history'[i] - history'[i + 1] < SampleEvery + FreshFor
        BY <1>6, <3>2
      <4>1. CASE i < Len(kept)
        <5>1. i \in 1 .. Len(kept) - 1 /\ i + 1 \in 1 .. Len(kept)
          BY <1>6, <4>1
        <5> QED BY <2>7, <3>2, <5>1
      <4>2. CASE i = Len(kept)
        <5>1. kept[i] = history[Len(history)]
          BY <1>2, <1>3, <1>6, <4>2
        <5>2. history'[i] = history[Len(history)] /\ history'[i + 1] = 0
          BY <3>2, <4>2, <5>1
        <5>3. history[Len(history)] < SampleEvery + FreshFor /\ history[Len(history)] \in Nat
          <6>1. Len(history) \in 1 .. Len(history)
            BY <1>6, <2>1
          <6>2. history[Len(history)] \in Nat /\ latest \in Nat
            BY <1>6, <2>1, <6>1
          <6> QED BY <2>1, <2>2, <6>2
        <5> QED BY <5>2, <5>3
      <4> QED BY <1>6, <4>1, <4>2
    <3> QED BY <1>5, <3>1, <3>2
  <2>9. Dense'
    BY <1>4, <1>5, <1>6, <2>1, <2>8 DEF Dense
  <2> QED BY <2>6, <2>9
<1> QED BY <1>8, <1>10, <1>11, <1>12 DEF BreathInv

LEMMA BreathInvNext == BreathInv /\ [BreathNext]_breathVars => BreathInv'
<1> SUFFICES ASSUME BreathInv, [BreathNext]_breathVars PROVE BreathInv'
  OBVIOUS
<1>1. CASE /\ UNCHANGED <<latest, history, steady>>
           /\ device' \in {"dial", "read", "wait", "ended"}
  BY <1>1 DEF BreathInv, BreathTypes, Behind, Reaches, Dense, IsFresh
<1>2. CASE DialDevice \/ LinkLost \/ RedialDevice \/ BreathEnds
  BY <1>1, <1>2 DEF DialDevice, LinkLost, RedialDevice, BreathEnds
<1>3. CASE UNCHANGED breathVars
  BY <1>1, <1>3 DEF breathVars, BreathInv, BreathTypes
<1> QED BY <1>2, <1>3, TimeKeeps, ReadingKeeps DEF BreathNext

(* A trend is shown over two to three minutes of samples, across outages,  *)
(* and while readings keep coming it is not lost (keepSample, trend).      *)
THEOREM TrendAlwaysHolds == BreathSpec => []TrendHolds
<1>1. BreathInv => TrendHolds
  <2> SUFFICES ASSUME BreathInv, IsFresh PROVE TrendHolds
    BY DEF TrendHolds, TrendShown
  <2>1. /\ latest \in Ages /\ steady \in Ages /\ history # <<>> /\ history[1] \in Ages
        /\ history[1] <= latest + TrendWindow
        /\ history[1] >= steady \/ history[1] - latest >= TrendMinSpan
    BY DEF BreathInv, BreathTypes, IsFresh, Behind, Reaches
  <2> QED
    BY <2>1, BreathAssumption DEF TrendHolds, TrendShown, TrendSpan, Ages, Oldest
<1> QED BY <1>1, BreathInvInit, BreathInvNext, PTL DEF BreathSpec
-----------------------------------------------------------------------------
(***************************************************************************)
(* The types of every component.  Those whose invariant does not begin     *)
(* with its types get them here, from what the invariant knows of each     *)
(* value that is read.                                                     *)
(***************************************************************************)
LEMMA ProblemTypesNext ==
  ASSUME ProblemTypes, ProblemInv, [ProblemNext]_problemVars
  PROVE  ProblemTypes'
<1> USE DEF ProblemTypes
<1>1. /\ Loading \in Tables /\ Failed \in Tables /\ EmptyReady \in Tables
      /\ \A v \in Versions : Full(v) \in Tables
  BY DEF Loading, Failed, EmptyReady, Full, Tables
<1>2. ASSUME NEW d \in Reports, Apply(d) PROVE ProblemTypes'
  <2>1. \A e \in Reports : Reported(e) \subseteq Codes
    BY DEF Reports, Reported, Codes
  <2>2. \A e \in Reports : Problems(e, table) \subseteq SUBSET Codes
    <3> SUFFICES ASSUME NEW e \in Reports, NEW g \in Problems(e, table), NEW c \in g
                 PROVE  c \in Codes
      OBVIOUS
    <3>1. c \in Seen(e, table)
      BY ProblemsCover
    <3> QED BY <2>1, <3>1 DEF Seen
  <2>3. \A olds, news : New(olds, news) \subseteq news
    BY DEF New
  <2>4. /\ New(Problems(doc, table), Problems(d, table)) \subseteq SUBSET Codes
        /\ New(Problems(d, table), Problems(doc, table)) \subseteq SUBSET Codes
        /\ Reported(d) \ Reported(doc) \subseteq Codes /\ Reported(doc) \ Reported(d) \subseteq Codes
    BY <2>1, <2>2, <2>3
  <2> QED BY <1>2, <2>4 DEF Apply, OldProblems
<1>3. CASE UNCHANGED problemVars
  BY <1>3 DEF problemVars
<1>4. CASE Ask \/ Update
  BY <1>4 DEF Ask, Update
<1>5. CASE AskFails \/ Unchanged
  BY <1>1, <1>5 DEF AskFails, Unchanged
<1>6. CASE Save
  BY <1>6 DEF Save, ProblemInv, TableOfFile
<1>7. ASSUME NEW v \in Versions, FullAnswer(v) PROVE ProblemTypes'
  BY <1>1, <1>7 DEF FullAnswer
<1>8. CASE Restart
  <2>1. table' \in Tables
    BY <1>1, <1>8 DEF Restart
  <2> QED BY <1>8, <2>1 DEF Restart, Silence, Reports
<1> QED
  BY <1>2, <1>3, <1>4, <1>5, <1>6, <1>7, <1>8 DEF ProblemNext

(* The problems of a printer are sets of codes and the table in use is of  *)
(* a version of the provider, for any catalogs (hmscodes.go, problems.go). *)
THEOREM ProblemsTyped == ProblemSpec => []ProblemTypes
<1>1. ProblemInit => ProblemTypes
  BY DEF ProblemInit, ProblemTypes, Silence, Loading, Reports, Tables
<1> QED
  BY <1>1, ProblemTypesNext, ProblemInvInit, ProblemInvNext, PTL DEF ProblemSpec

(* The names of a served configuration are names of it.                    *)
LEMMA NamesServed ==
  ASSUME Validate(config), config \in Configured, NEW i \in DOMAIN config
  PROVE  /\ config[i].serial \in Served(config) /\ config[i].serial \in Names
         /\ DownstreamID(config[i]) \in Names
<1>1. config[i].serial # Blank /\ config[i].serial \in Served(config)
  BY DEF Validate, Served
<1>2. DownstreamID(config[i]) # Blank
  BY <1>1 DEF DownstreamID
<1>3. DownstreamID(config[i]) \in Served(config) \cup {config[j].alias : j \in DOMAIN config}
  BY <1>1 DEF DownstreamID
<1> QED BY <1>1, <1>2, <1>3 DEF Names

LEMMA BridgeTypesNext ==
  ASSUME BridgeTypes, BridgeInv, [BridgeNext]_bridgeVars
  PROVE  BridgeTypes'
<1> USE DEF BridgeTypes
<1>1. Quiet \in Wires
  BY DEF Quiet, Wires
<1>2. Validate(config) /\ config \in Configured
  BY DEF BridgeInv
<1>3. ASSUME NEW p \in Served(config), Link(p) PROVE BridgeTypes'
  BY <1>1, <1>3 DEF Link
<1>4. ASSUME NEW p \in Served(config), Inject(p) PROVE BridgeTypes'
  <2>1. PICK i \in DOMAIN config : p = config[i].serial
    BY DEF Served
  <2>2. Downstream(config, p) \in Names /\ p \in Names
    BY <1>2, <2>1, NamesServed, NameIsOnePrinters, BridgeAssumption
  <2> QED BY <1>4, <2>2 DEF Inject, Wires
<1>5. ASSUME NEW a \in Apps, NEW id \in Names \cup {"+"}, Subscribe(a, id) PROVE BridgeTypes'
  BY <1>1, <1>5 DEF Subscribe
<1>6. ASSUME NEW a \in Apps, Disconnect(a) PROVE BridgeTypes'
  BY <1>1, <1>6 DEF Disconnect
<1>7. ASSUME NEW a \in Apps, NEW user, NEW code, Connect(a, user, code) PROVE BridgeTypes'
  BY <1>1, <1>7 DEF Connect
<1>8. ASSUME NEW a \in Apps, NEW id \in Names, NEW kind \in {"request", "report"}, Request(a, id, kind)
      PROVE  BridgeTypes'
  <2>1. UNCHANGED <<config, links, apps>>
    BY <1>8 DEF Request
  <2>2. CASE wire' = Quiet
    BY <1>1, <2>1, <2>2
  <2>3. CASE wire' # Quiet
    <3>1. id \in IDs(config) /\ wire' = [kind |-> "request", id |-> id, printer |-> Owner(config, id), apps |-> {}]
      BY <1>8, <2>3 DEF Request, RequestSerial
    <3>2. PICK i \in DOMAIN config : id = DownstreamID(config[i])
      BY <3>1 DEF IDs
    <3>3. Owner(config, id) \in Names
      BY <1>2, <3>2, NamesServed, NameIsOnePrinters, BridgeAssumption
    <3> QED BY <2>1, <3>1, <3>3 DEF Wires
  <2> QED BY <2>2, <2>3
<1>9. CASE UNCHANGED bridgeVars
  BY <1>9 DEF bridgeVars
<1> QED
  BY <1>3, <1>4, <1>5, <1>6, <1>7, <1>8, <1>9 DEF BridgeNext

(* What goes over the broker is under a name of the configuration, between *)
(* its printers and the clients that are connected (bridge.go, topic.go).  *)
THEOREM BridgeTyped == BridgeSpec => []BridgeTypes
<1>1. BridgeInit => BridgeInv
  BY DEF BridgeInit, BridgeInv, OnePrinterPerName, Quiet
<1>2. BridgeInit => BridgeTypes
  BY DEF BridgeInit, BridgeTypes, Quiet, Wires
<1> QED
  BY <1>1, <1>2, BridgeTypesNext, BridgeInvNext, PTL DEF BridgeSpec

LEMMA PageTypesNext ==
  ASSUME PageTypes, [PageNext]_pageVars
  PROVE  PageTypes'
<1> USE DEF PageTypes
<1>1. ASSUME NEW code, NEW to PROVE DOMAIN Secret(code, to) = {"secret", "to"}
  BY DEF Secret
<1>2. ASSUME NEW f, NEW s \in Held(f) PROVE DOMAIN s = {"secret", "to"}
  BY <1>1 DEF Held, Secrets
<1>3. ASSUME NEW rows, NEW form, NEW s \in Typed(rows, form) PROVE DOMAIN s = {"secret", "to"}
  BY <1>1 DEF Typed
<1>4. DOMAIN NoSecret = {"secret", "to"} /\ DOMAIN NoTest = {"serial", "to"}
  BY DEF NoSecret, NoTest
<1>5. ASSUME NEW rows \in PrinterForms, NEW form \in PlateForms, Put(rows, form)
      PROVE  PageTypes'
  <2>1. file'.kind = "file" /\ {byHand', put', saved', fresh'} \subseteq BOOLEAN
    BY <1>5 DEF Put, File
  <2> QED BY <1>3, <1>5, <2>1 DEF Put
<1>6. CASE UNCHANGED pageVars
  BY <1>6 DEF pageVars
<1>7. CASE Start
  BY <1>7 DEF Start
<1>8. CASE SignalSaved \/ TakeSignal
  BY <1>8 DEF SignalSaved, TakeSignal
<1>9. CASE Exec \/ Killed
  BY <1>4, <1>9 DEF Exec, Killed
<1>10. ASSUME NEW form \in PlateForms, Test(form) PROVE PageTypes'
  BY <1>1, <1>3, <1>10 DEF Test
<1>11. ASSUME NEW rows \in PrinterForms, TestPrinter(rows[1]) PROVE PageTypes'
  BY <1>11 DEF TestPrinter
<1>12. CASE PrinterTested
  BY <1>4, <1>12 DEF PrinterTested
<1>13. ASSUME NEW f \in HandFiles, Edit(f) PROVE PageTypes'
  BY <1>2, <1>13, PageAssumption DEF Edit
<1> QED
  BY <1>5, <1>6, <1>7, <1>8, <1>9, <1>10, <1>11, <1>12, <1>13 DEF PageNext

(* The file, the process and the tests of the page keep their shape.       *)
THEOREM PageTyped == PageSpec => []PageTypes
<1>1. ASSUME PageInit PROVE PageTypes
  <2>1. file.kind = "absent" /\ DOMAIN tested = {"serial", "to"} /\ DOMAIN probed = {"secret", "to"}
    BY <1>1 DEF PageInit, NoFile, NoSecret, NoTest
  <2> QED BY <1>1, <2>1 DEF PageInit, PageTypes
<1> QED
  BY <1>1, PageTypesNext, PTL DEF PageSpec
-----------------------------------------------------------------------------
(***************************************************************************)
(* The components together.  A step of the composition is a step of one    *)
(* component or of none to each of them, so what was proved of a component *)
(* by itself holds of it here.                                             *)
(***************************************************************************)
LEMMA EachAlone ==
  [ServicesNext]_servicesVars =>
    /\ [SafetyNext]_safetyVars /\ [NotifyNext]_notifyVars /\ [ProblemNext]_problemVars
    /\ [BridgeNext]_bridgeVars /\ [PageNext]_pageVars /\ [LifeNext]_lifeVars
    /\ [UseNext]_useVars /\ [ProbeNext]_probeVars /\ [BreathNext]_breathVars /\ [LogNext]_logVars
<1>1. CASE UNCHANGED servicesVars
  BY <1>1, Zenon DEF servicesVars
<1>2. CASE ServicesNext
  BY <1>2, Zenon DEF ServicesNext
<1> QED BY <1>1, <1>2

(* Every component of the composition behaves as its own specification     *)
(* says: the services share no state.                                      *)
THEOREM EachKeepsItsSpec ==
  ServicesSpec =>
    /\ SafetySpec /\ NotifySpec /\ ProblemSpec /\ BridgeSpec /\ PageSpec
    /\ LifeSpec /\ UseSpec /\ ProbeSpec /\ BreathSpec /\ LogSpec
<1>1. ServicesInit =>
        /\ SafetyInit /\ NotifyInit /\ ProblemInit /\ BridgeInit /\ PageInit
        /\ LifeInit /\ UseInit /\ ProbeInit /\ BreathInit /\ LogInit
  BY DEF ServicesInit
<1> QED
  BY <1>1, EachAlone, PTL DEF ServicesSpec, SafetySpec, NotifySpec, ProblemSpec, BridgeSpec, PageSpec,
     LifeSpec, UseSpec, ProbeSpec, BreathSpec, LogSpec

(* For every value of the constants the variables of all components keep   *)
(* their types: the queue of the notifications stays within its bound, the *)
(* slots of a camera within theirs (Service.Observe, captureFrame).        *)
THEOREM ServicesTyped == ServicesSpec => []ServicesTypes
<1>1. ServicesInit => service \in Services
  BY DEF ServicesInit
<1>2. service \in Services /\ [ServicesNext]_servicesVars => (service \in Services)'
  <2>1. [ServicesNext]_servicesVars => service' = service
    BY DEF ServicesNext, servicesVars, Alone
  <2> QED BY <2>1
<1>3. SafetyInv => SafetyTypes
  BY DEF SafetyInv
<1>4. NotifyInv => NotifyTypes
  BY DEF NotifyInv
<1>5. LifeInv => LifeTypes
  BY DEF LifeInv
<1>6. UseInv => UseTypes
  BY DEF UseInv
<1>7. ProbeInv => ProbeTypes
  BY DEF ProbeInv
<1>8. BreathInv => BreathTypes
  BY DEF BreathInv
<1>9. SafetySpec => []SafetyInv
  BY SafetyInvInit, SafetyInvNext, PTL DEF SafetySpec
<1>10. NotifySpec => []NotifyInv
  BY NotifyInvInit, NotifyInvNext, PTL DEF NotifySpec
<1>11. LifeSpec => []LifeInv
  BY LifeInvInit, LifeInvNext, PTL DEF LifeSpec
<1>12. UseSpec => []UseInv
  BY UseInvInit, UseInvNext, PTL DEF UseSpec
<1>13. ProbeSpec => []ProbeInv
  BY ProbeInvInit, ProbeInvNext, PTL DEF ProbeSpec
<1>14. BreathSpec => []BreathInv
  BY BreathInvInit, BreathInvNext, PTL DEF BreathSpec
<1>15. ServicesSpec => [](service \in Services)
  BY <1>1, <1>2, PTL DEF ServicesSpec
<1>16. ServicesTypes <=>
         /\ service \in Services
         /\ SafetyTypes /\ NotifyTypes /\ ProblemTypes /\ BridgeTypes /\ PageTypes /\ LifeTypes /\ UseTypes
         /\ ProbeTypes /\ BreathTypes /\ LogTypes
  BY DEF ServicesTypes
<1> QED
  BY <1>3, <1>4, <1>5, <1>6, <1>7, <1>8, <1>9, <1>10, <1>11, <1>12, <1>13, <1>14, <1>15, <1>16,
     EachKeepsItsSpec, ProblemsTyped, BridgeTyped, PageTyped, TypeCorrect, PTL
=============================================================================
