--------------------------- MODULE Detection_proofs ---------------------------
(***************************************************************************)
(* Proofs about Detection for every number of prints and of layers.  The   *)
(* bound on the verdicts that wait, and the one pause of a print, need an  *)
(* invariant stronger than themselves; the other properties are inductive  *)
(* once the types are known.                                               *)
(***************************************************************************)
EXTENDS Detection, TLAPS

(* The stations of an inspection between Begin and Accept.                 *)
Inspecting == {"light", "lightSend", "context", "frame", "process", "fine", "bad"}

(* The verdicts that wait or may still be reported: Begin meets an empty   *)
(* queue, and only Accept makes a new verdict possible.                    *)
OutcomesFit ==
  /\ pc \in Inspecting \/ pauseState = "pending" => outcomes <= 1
  /\ pc \in Inspecting /\ pauseState = "pending" => outcomes = 0

(* TypeOK with one conjunct for each variable.                             *)
Kinds ==
  /\ doc \in Docs /\ camera \in {"none", "past", "now"} /\ outcomes \in 0 .. 2
  /\ counter \in Prints /\ mine \in Prints /\ pauseLayer \in Layers
  /\ pauseState \in {"none", "pending", "confirmed", "unconfirmed"}
  /\ online \in BOOLEAN /\ disabled \in BOOLEAN /\ held \in BOOLEAN /\ latched \in BOOLEAN
  /\ lightDone \in BOOLEAN /\ invalid \in BOOLEAN /\ later \in BOOLEAN /\ wake \in BOOLEAN
  /\ suspended \in BOOLEAN /\ gadget \in BOOLEAN /\ holding \in BOOLEAN /\ fresh \in BOOLEAN
  /\ nudges \subseteq {"store", "user"}
  /\ pc \in {"top", "park", "sleep", "arm", "timer"} \cup Inspecting \cup Commanding
  /\ said \subseteq Prints

TypeInv == Kinds /\ OutcomesFit

(* The two say the same.                                                   *)
LEMMA KindsAreTypes == TypeOK <=> Kinds
BY DEF TypeOK, Kinds, Inspecting, Commanding

(* A print whose pause was sent stays latched, and the one about to be     *)
(* sent was sent by nobody before.                                         *)
SaidOnce ==
  /\ mine <= counter
  /\ \A p \in said : p <= counter
  /\ counter \in said => latched
  /\ pc = "say" => mine \notin said /\ (mine = counter => latched)

(* What changes when a document is observed.                               *)
LEMMA ApplyTypes ==
  ASSUME TypeInv, NEW d \in Docs, NEW on \in BOOLEAN, NEW reset \in BOOLEAN,
         reset => counter < MaxPrints, Observe(d, on, reset)
  PROVE  TypeInv'
<1> USE DetectionAssumption DEF TypeInv, Prints, Layers
<1>1. pauseState' = NextPause(d, reset) /\ pc' = pc
  BY DEF Observe, Apply
<1>2. outcomes' \in 0 .. 2 /\ OutcomesFit'
  <2>1. CASE reset
    BY <1>1, <2>1 DEF Kinds, OutcomesFit, Observe, Apply, NextPause, Inspecting
  <2>2. CASE ~reset /\ pauseState # "pending"
    BY <1>1, <2>2 DEF Kinds, OutcomesFit, Observe, Apply, NextPause, Inspecting
  <2>3. CASE ~reset /\ pauseState = "pending"
    BY <1>1, <2>3 DEF Kinds, OutcomesFit, Observe, Apply, NextPause, Answer, Inspecting, OutcomeCap
  <2> QED BY <2>1, <2>2, <2>3
<1>3. pauseState' \in {"none", "pending", "confirmed", "unconfirmed"}
  BY <1>1 DEF Kinds, NextPause, Answer
<1>4. counter' \in Prints /\ mine' \in Prints /\ pauseLayer' \in Layers
  BY DEF Kinds, Observe, Apply, local
<1> QED
  BY <1>2, <1>3, <1>4 DEF Kinds, Observe, Apply, local

(* Initially the types hold.                                               *)
LEMMA TypesInit == Init => TypeInv
<1> SUFFICES ASSUME Init PROVE TypeInv
  OBVIOUS
<1>1. doc \in Docs
  BY DetectionAssumption DEF Init, Docs, Layers, States
<1>2. counter \in Prints /\ mine \in Prints /\ pauseLayer \in Layers /\ outcomes \in 0 .. 2
  BY DetectionAssumption DEF Init, Prints, Layers
<1>3. Kinds
  BY <1>1, <1>2 DEF Init, Kinds
<1> QED BY <1>3 DEF Init, TypeInv, OutcomesFit, Inspecting

(* A step of the worker's control alone.                                   *)
LEMMA GotoKinds ==
  ASSUME TypeInv, NEW from, NEW to \in {"top", "park", "sleep", "arm", "timer"} \cup Inspecting \cup Commanding,
         Goto(from, to)
  PROVE  Kinds'
BY DEF TypeInv, Goto, Kinds, session, env, local, frame, record

(* Every other step keeps the types.                                       *)
LEMMA KindsStep ==
  ASSUME TypeInv, Next, ~SetOnline, ~\E d \in Docs : Report(d)
  PROVE  Kinds'
<1> USE DEF TypeInv, Commanding, Inspecting, session, env, local, frame, record
<1>1. CASE Worker
  <2>1. CASE Drain
    BY <2>1 DEF Drain, Kinds
  <2>2. CASE Park \/ Defer \/ Arm \/ LightSend \/ ContextKept \/ Discard \/ Send \/ SendFailed
    BY <2>2, GotoKinds DEF Park, Defer, Arm, LightSend, ContextKept, Discard, Send, SendFailed
  <2>3. CASE Release
    <3>1. holding' \in BOOLEAN
      BY <2>3, Zenon DEF Release
    <3> QED BY <2>3, <3>1 DEF Release, Kinds
  <2>4. CASE Woken
    <3>1. wake' \in BOOLEAN
      BY <2>4, Zenon DEF Woken
    <3> QED BY <2>4, <3>1 DEF Woken, Kinds
  <2>5. CASE Begin
    BY <2>5 DEF Begin, Kinds
  <2>6. CASE Light
    BY <2>6 DEF Light, Kinds
  <2>7. CASE ContextCreated
    BY <2>7 DEF ContextCreated, Kinds
  <2>8. CASE FrameTaken
    <3>1. fresh' \in BOOLEAN
      BY <2>8, Zenon DEF FrameTaken
    <3> QED BY <2>8, <3>1 DEF FrameTaken, Kinds
  <2>9. CASE Processed
    BY <2>9 DEF Processed, Kinds
  <2>10. ASSUME NEW kind \in {"account", "request", "retry"}, Fail(kind)
        PROVE  Kinds'
    <3>1. CASE mine # counter \/ disabled \/ held
      BY <2>10, <3>1 DEF Fail, Kinds
    <3>2. CASE ~(mine # counter \/ disabled \/ held)
      <4>1. suspended' \in BOOLEAN /\ wake' \in BOOLEAN /\ later' \in BOOLEAN /\ invalid' \in BOOLEAN
        BY <2>10, <3>2, Zenon DEF Fail, Kinds
      <4> QED BY <2>10, <4>1 DEF Fail, Kinds
    <3> QED BY <3>1, <3>2
  <2>11. CASE FrameLost \/ \E kind \in {"account", "request", "retry"} : RequestFailed(kind)
    BY <2>10, <2>11 DEF FrameLost, RequestFailed
  <2>12. CASE Accept
    <3>1. doc.layer \in Layers
      BY DEF Kinds, Docs
    <3> QED BY <2>12, <3>1 DEF Accept, Kinds
  <2>13. CASE Say
    BY <2>13 DEF Say, Kinds
  <2>14. CASE Unsent
    BY <2>14 DEF Unsent, Kinds
  <2> QED
    BY <1>1, <2>1, <2>2, <2>3, <2>4, <2>5, <2>6, <2>7, <2>8, <2>9, <2>11, <2>12, <2>13, <2>14
       DEF Worker, Inspect
<1>2. CASE Elapse
  <2>1. pc' \in {"top", "park", "sleep", "arm", "timer"} \cup Inspecting \cup Commanding
    BY <1>2 DEF Elapse, Kinds
  <2>2. later' \in BOOLEAN
    BY <1>2, Zenon DEF Elapse
  <2> QED BY <1>2, <2>1, <2>2 DEF Elapse, Kinds
<1>3. CASE Enable
  <2>1. disabled' \in BOOLEAN /\ held' \in BOOLEAN /\ lightDone' \in BOOLEAN
    BY <1>3, Zenon DEF Enable
  <2> QED BY <1>3, <2>1 DEF Enable, Switch, Kinds
<1>4. CASE \E token \in Prints : DisablePrint(token)
  BY <1>4 DEF DisablePrint, Switch, Kinds
<1>5. CASE \E token \in Prints : DisableIdle(token)
  BY <1>5 DEF DisableIdle, Switch, Kinds
<1>6. CASE PeerSuspends
  BY <1>6 DEF PeerSuspends, Kinds
<1>7. CASE Publish
  BY <1>7 DEF Publish, Kinds
<1>8. CASE \E n \in nudges : Nudge(n)
  BY <1>8 DEF Nudge, Kinds
<1> QED BY <1>1, <1>2, <1>3, <1>4, <1>5, <1>6, <1>7, <1>8 DEF Next, User

(* Every other step keeps the bound on verdicts.                           *)
LEMMA FitStep ==
  ASSUME TypeInv, Next, ~SetOnline, ~\E d \in Docs : Report(d)
  PROVE  OutcomesFit'
<1> USE DEF TypeInv, OutcomesFit, Inspecting, session, env, local, frame, record
<1>1. CASE Worker
  <2>1. CASE Drain
    BY <2>1 DEF Drain, Kinds
  <2>2. CASE Park \/ Release \/ Defer \/ Arm \/ Woken
    BY <2>2 DEF Park, Release, Defer, Arm, Woken, Goto
  <2>3. CASE Begin
    BY <2>3 DEF Begin, Look
  <2>4. CASE Light
    BY <2>4 DEF Light
  <2>5. CASE LightSend \/ ContextKept \/ ContextCreated \/ FrameTaken \/ Processed \/ Discard
    BY <2>5 DEF LightSend, ContextKept, ContextCreated, FrameTaken, Processed, Discard, Goto
  <2>6. CASE FrameLost \/ \E kind \in {"account", "request", "retry"} : RequestFailed(kind)
    BY <2>6 DEF FrameLost, RequestFailed, Fail
  <2>7. CASE Accept
    BY <2>7 DEF Accept
  <2>8. CASE Say \/ Send \/ SendFailed
    BY <2>8 DEF Say, Send, SendFailed, Goto
  <2>9. CASE Unsent
    BY <2>9 DEF Unsent
  <2> QED BY <1>1, <2>1, <2>2, <2>3, <2>4, <2>5, <2>6, <2>7, <2>8, <2>9 DEF Worker, Inspect
<1>2. CASE User
  BY <1>2 DEF User, Enable, DisablePrint, DisableIdle, Switch
<1>3. CASE Elapse \/ PeerSuspends \/ Publish \/ \E n \in nudges : Nudge(n)
  BY <1>3 DEF Elapse, PeerSuspends, Publish, Nudge
<1> QED BY <1>1, <1>2, <1>3 DEF Next

(* Every step keeps both.                                                  *)
LEMMA TypesStep == TypeInv /\ [Next]_vars => TypeInv'
<1> SUFFICES ASSUME TypeInv, [Next]_vars PROVE TypeInv'
  OBVIOUS
<1>1. CASE UNCHANGED vars
  BY <1>1 DEF TypeInv, Kinds, OutcomesFit, Inspecting, vars, session, env, local, frame, record
<1>2. CASE SetOnline
  BY <1>2, ApplyTypes DEF SetOnline, TypeInv, Kinds
<1>3. CASE \E d \in Docs : Report(d)
  <2>1. PICK d \in Docs : Report(d)
    BY <1>3
  <2>2. Resets(d) \in BOOLEAN /\ online \in BOOLEAN
    BY DEF Resets, NewJob, StateInitial, TypeInv, Kinds
  <2> QED BY <2>1, <2>2, ApplyTypes DEF Report
<1>4. CASE Next /\ ~SetOnline /\ ~\E d \in Docs : Report(d)
  BY <1>4, KindsStep, FitStep DEF TypeInv
<1> QED BY <1>1, <1>2, <1>3, <1>4

(* Type correctness; the worker's queue of verdicts never drops one        *)
(* (worker.go, outcomes).                                                  *)
THEOREM TypeCorrect == Spec => []TypeOK
<1>1. TypeInv => TypeOK
  BY KindsAreTypes DEF TypeInv
<1> QED BY <1>1, TypesInit, TypesStep, PTL DEF Spec

(* The invariant the other theorems build on.                              *)
LEMMA TypesHold == Spec => []TypeInv
BY TypesInit, TypesStep, PTL DEF Spec

(* The switch waits for commandMu, and a step that takes it looks first.   *)
LEMMA QuietStep == TypeOK /\ QuietWhenOff /\ [Next]_vars => QuietWhenOff'
<1> SUFFICES ASSUME TypeOK, QuietWhenOff, [Next]_vars PROVE QuietWhenOff'
  OBVIOUS
<1> USE DEF QuietWhenOff, Commanding, session, env, local, frame, record
<1>1. CASE UNCHANGED vars
  BY <1>1 DEF vars
<1>2. CASE Worker
  <2>1. CASE Drain \/ Park \/ Release \/ Defer \/ Arm \/ Woken \/ Begin
    BY <2>1 DEF Drain, Park, Release, Defer, Arm, Woken, Begin, Goto
  <2>2. CASE Light
    BY <2>2 DEF Light
  <2>3. CASE LightSend \/ ContextKept \/ ContextCreated \/ FrameTaken \/ Processed \/ Discard
    BY <2>3 DEF LightSend, ContextKept, ContextCreated, FrameTaken, Processed, Discard, Goto
  <2>4. CASE FrameLost \/ \E kind \in {"account", "request", "retry"} : RequestFailed(kind)
    BY <2>4 DEF FrameLost, RequestFailed, Fail
  <2>5. CASE Accept
    BY <2>5 DEF Accept, Current
  <2>6. CASE Say \/ Send \/ SendFailed \/ Unsent
    BY <2>6 DEF Say, Send, SendFailed, Unsent, Goto
  <2> QED BY <1>2, <2>1, <2>2, <2>3, <2>4, <2>5, <2>6 DEF Worker, Inspect
<1>3. CASE User
  BY <1>3 DEF User, Enable, DisablePrint, DisableIdle, Switch
<1>4. CASE Elapse \/ PeerSuspends \/ Publish \/ \E n \in nudges : Nudge(n)
  BY <1>4 DEF Elapse, PeerSuspends, Publish, Nudge
<1>5. CASE SetOnline \/ \E d \in Docs : Report(d)
  BY <1>5 DEF SetOnline, Report, Observe, Apply
<1> QED BY <1>1, <1>2, <1>3, <1>4, <1>5 DEF Next

(* Turning inspections off waits for the decision and the command that     *)
(* follows it (worker.go, commandMu).                                      *)
THEOREM OffIsQuiet == Spec => []QuietWhenOff
<1>1. Init => QuietWhenOff
  BY DEF Init, QuietWhenOff
<1>2. TypeInv /\ QuietWhenOff /\ [Next]_vars => QuietWhenOff'
  BY QuietStep, KindsAreTypes DEF TypeInv
<1> QED BY <1>1, <1>2, TypesHold, PTL DEF Spec

(* Only Accept makes a pause pending, and a report that answers it does not*)
(* leave it so.                                                            *)
LEMMA PendingStep == TypeOK /\ PendingExplained /\ [Next]_vars => PendingExplained'
<1> SUFFICES ASSUME TypeOK, PendingExplained, [Next]_vars PROVE PendingExplained'
  OBVIOUS
<1> USE DEF PendingExplained, session, env, local, frame, record
<1>1. CASE UNCHANGED vars
  BY <1>1 DEF vars
<1>2. CASE Worker
  <2>1. CASE Accept
    BY <2>1 DEF Accept, TypeOK, Docs, Layers
  <2>2. CASE Unsent
    BY <2>2 DEF Unsent
  <2>3. CASE FrameLost \/ \E kind \in {"account", "request", "retry"} : RequestFailed(kind)
    BY <2>3 DEF FrameLost, RequestFailed, Fail
  <2>4. CASE Drain \/ Park \/ Release \/ Defer \/ Arm \/ Woken \/ Begin \/ Light
    BY <2>4 DEF Drain, Park, Release, Defer, Arm, Woken, Begin, Light, Goto
  <2>5. CASE LightSend \/ ContextKept \/ ContextCreated \/ FrameTaken \/ Processed \/ Discard
    BY <2>5 DEF LightSend, ContextKept, ContextCreated, FrameTaken, Processed, Discard, Goto
  <2>6. CASE Say \/ Send \/ SendFailed
    BY <2>6 DEF Say, Send, SendFailed, Goto
  <2> QED BY <1>2, <2>1, <2>2, <2>3, <2>4, <2>5, <2>6 DEF Worker, Inspect
<1>3. CASE User
  BY <1>3 DEF User, Enable, DisablePrint, DisableIdle, Switch
<1>4. CASE Elapse \/ PeerSuspends \/ Publish \/ \E n \in nudges : Nudge(n)
  BY <1>4 DEF Elapse, PeerSuspends, Publish, Nudge
<1>5. ASSUME NEW d \in Docs, NEW on, NEW reset \in BOOLEAN, Observe(d, on, reset)
      PROVE  PendingExplained'
  BY <1>5 DEF Observe, Apply, NextPause, Answer, TypeOK, Docs, Layers
<1>6. CASE SetOnline
  BY <1>5, <1>6 DEF SetOnline, TypeOK
<1>7. CASE \E d \in Docs : Report(d)
  <2>1. \A d \in Docs : Resets(d) \in BOOLEAN
    BY DEF Resets, NewJob, StateInitial
  <2> QED BY <1>5, <1>7, <2>1 DEF Report
<1> QED BY <1>1, <1>2, <1>3, <1>4, <1>6, <1>7 DEF Next

(* No report that answers a pause leaves it pending, whoever else writes   *)
(* the status (engine.go, observePause).                                   *)
THEOREM PendingIsExplained == Spec => []PendingExplained
<1>1. Init => PendingExplained
  BY DEF Init, PendingExplained
<1>2. TypeInv /\ PendingExplained /\ [Next]_vars => PendingExplained'
  BY PendingStep, KindsAreTypes DEF TypeInv
<1> QED BY <1>1, <1>2, TypesHold, PTL DEF Spec

(* Accept latches the print it decides for; a new print is above all said. *)
LEMMA SaidStep == TypeInv /\ SaidOnce /\ [Next]_vars => SaidOnce'
<1> SUFFICES ASSUME TypeInv, SaidOnce, [Next]_vars PROVE SaidOnce'
  OBVIOUS
<1>1. mine \in Nat /\ counter \in Nat /\ \A p \in said : p \in Nat
  BY DetectionAssumption DEF TypeInv, Kinds, Prints
<1> USE DEF SaidOnce, session, env, local, frame, record
<1>2. CASE UNCHANGED vars
  BY <1>2 DEF vars
<1>3. CASE Worker
  <2>1. CASE Begin
    BY <1>1, <2>1 DEF Begin, Look
  <2>2. CASE Accept
    BY <2>2 DEF Accept, Current
  <2>3. CASE Say
    BY <2>3 DEF Say
  <2>4. CASE FrameLost \/ \E kind \in {"account", "request", "retry"} : RequestFailed(kind)
    BY <2>4 DEF FrameLost, RequestFailed, Fail
  <2>5. CASE Drain \/ Park \/ Release \/ Defer \/ Arm \/ Woken \/ Light
    BY <2>5 DEF Drain, Park, Release, Defer, Arm, Woken, Light, Goto
  <2>6. CASE LightSend \/ ContextKept \/ ContextCreated \/ FrameTaken \/ Processed \/ Discard
    BY <2>6 DEF LightSend, ContextKept, ContextCreated, FrameTaken, Processed, Discard, Goto
  <2>7. CASE Send \/ SendFailed \/ Unsent
    BY <2>7 DEF Send, SendFailed, Unsent, Goto
  <2> QED BY <1>3, <2>1, <2>2, <2>3, <2>4, <2>5, <2>6, <2>7 DEF Worker, Inspect
<1>4. CASE User
  BY <1>4 DEF User, Enable, DisablePrint, DisableIdle, Switch
<1>5. CASE Elapse \/ PeerSuspends \/ Publish \/ \E n \in nudges : Nudge(n)
  BY <1>5 DEF Elapse, PeerSuspends, Publish, Nudge
<1>6. ASSUME NEW d, NEW on, NEW reset \in BOOLEAN, Observe(d, on, reset)
      PROVE  SaidOnce'
  <2>1. mine' = mine /\ said' = said /\ pc' = pc
    BY <1>6 DEF Observe
  <2>2. CASE reset
    <3>1. counter' = counter + 1
      BY <1>6, <2>2 DEF Observe, Apply
    <3> QED BY <1>1, <2>1, <3>1
  <2>3. CASE ~reset
    <3>1. counter' = counter /\ (latched => latched')
      BY <1>6, <2>3 DEF Observe, Apply
    <3> QED BY <2>1, <3>1
  <2> QED BY <2>2, <2>3
<1>7. CASE SetOnline
  BY <1>6, <1>7 DEF SetOnline
<1>8. CASE \E d \in Docs : Report(d)
  <2>1. \A d \in Docs : Resets(d) \in BOOLEAN
    BY DEF Resets, NewJob, StateInitial
  <2> QED BY <1>6, <1>8, <2>1 DEF Report
<1> QED BY <1>2, <1>3, <1>4, <1>5, <1>7, <1>8 DEF Next

(* However inspections overlap with the end of a print, and whatever the   *)
(* user switches, a print is paused once at most (worker.go, accept).      *)
THEOREM PausesOnce == Spec => OnePause
<1>1. Init => SaidOnce
  BY DEF Init, SaidOnce
<1>2. TypeInv /\ SaidOnce /\ [Next]_vars => SaidOnce'
  BY SaidStep
<1>3. SaidOnce => (Say => mine \notin said)
  BY DEF SaidOnce, Say
<1>4. SaidOnce /\ [Next]_vars => [Say => mine \notin said]_vars
  BY <1>3
<1> QED BY <1>1, <1>2, <1>4, TypesHold, PTL DEF Spec, OnePause

(* Whoever changes what the worker looked at leaves a token or a nudge.    *)
LEMMA WakeStep == NoLostWake /\ [Next]_vars => NoLostWake'
<1> SUFFICES ASSUME NoLostWake, [Next]_vars PROVE NoLostWake'
  OBVIOUS
<1> USE DEF NoLostWake, session, env, local, frame, record
<1>1. CASE UNCHANGED vars
  BY <1>1 DEF vars, Open
<1>2. CASE Worker
  <2>1. CASE Drain \/ Release \/ Arm
    BY <2>1 DEF Drain, Release, Arm, Goto, Open
  <2>2. CASE Park \/ Defer
    BY <2>2 DEF Park, Defer, Goto, Open
  <2>3. CASE Woken \/ Begin
    BY <2>3 DEF Woken, Begin
  <2>4. CASE Light \/ LightSend \/ ContextKept \/ ContextCreated
    BY <2>4 DEF Light, LightSend, ContextKept, ContextCreated, Goto
  <2>5. CASE FrameTaken \/ Processed \/ Discard \/ Accept
    BY <2>5 DEF FrameTaken, Processed, Discard, Accept, Goto
  <2>6. CASE FrameLost \/ \E kind \in {"account", "request", "retry"} : RequestFailed(kind)
    BY <2>6 DEF FrameLost, RequestFailed, Fail
  <2>7. CASE Say \/ Send \/ SendFailed \/ Unsent
    BY <2>7 DEF Say, Send, SendFailed, Unsent, Goto
  <2> QED BY <1>2, <2>1, <2>2, <2>3, <2>4, <2>5, <2>6, <2>7 DEF Worker, Inspect
<1>3. CASE Elapse
  BY <1>3 DEF Elapse, Open
<1>4. CASE User
  BY <1>4 DEF User, Enable, DisablePrint, DisableIdle, Switch
<1>5. CASE PeerSuspends \/ \E n \in nudges : Nudge(n)
  BY <1>5 DEF PeerSuspends, Nudge
<1>6. CASE Publish
  BY <1>6 DEF Publish, Open
<1>7. CASE SetOnline \/ \E d \in Docs : Report(d)
  BY <1>7 DEF SetOnline, Report, Observe
<1> QED BY <1>1, <1>2, <1>3, <1>4, <1>5, <1>6, <1>7 DEF Next

(* The token of worker.wake outlives a nudge that comes while nobody       *)
(* waits, so a worker never sleeps through what it waits for (worker.go,   *)
(* nudge and run).                                                         *)
THEOREM NoWakeLost == Spec => []NoLostWake
<1>1. Init => NoLostWake
  BY DEF Init, NoLostWake
<1> QED BY <1>1, WakeStep, PTL DEF Spec
=============================================================================
