-------------------------- MODULE CameraCapture_proofs --------------------------
(***************************************************************************)
(* Proofs about CameraCapture for every number of clients, loops, timers   *)
(* and frames: one camera connection at a time, consumers are on a loop    *)
(* that nobody stops, and Close leaves none running.                       *)
(***************************************************************************)
EXTENDS CameraCapture, FiniteSetTheorems, TLAPS

(* The conjuncts of TypeOK, by who changes them.                           *)
FlagsOK ==
  /\ consumers \in Nat /\ closed \in BOOLEAN /\ manager \in {"open", "closed", "cancel", "wait", "returned"}
  /\ seq \in Nat /\ fresh \in BOOLEAN
TimersOK == idle \in Nat /\ idleGen \in Nat /\ pending \subseteq Nat /\ fired \subseteq Nat
LoopsOK ==
  /\ cancel \in 0 .. MaxLoops /\ done \in 0 .. MaxLoops
  /\ loop \in [Loops -> Live \cup {"none", "failed", "exited"}]
  /\ cancelled \subseteq Loops
RetirementOK ==
  /\ stopping \in BOOLEAN /\ retired \in 0 .. MaxLoops
  /\ retiring \in [Loops -> {"none", "cancel", "wait", "over"}]
  /\ toClose \subseteq 0 .. MaxLoops /\ gone \subseteq 0 .. MaxLoops
ClientsOK ==
  /\ client \in [Clients -> {"out", "acquire", "retired", "look", "select", "leave"}]
  /\ kind \in [Clients -> {"wait", "snapshot"}]
  /\ channel \in [Clients -> Nat]
  /\ after \in [Clients -> Nat]

LEMMA TypeParts == TypeOK <=> FlagsOK /\ TimersOK /\ LoopsOK /\ RetirementOK /\ ClientsOK
BY DEF TypeOK, FlagsOK, TimersOK, LoopsOK, RetirementOK, ClientsOK

(* Loops are started in order, and only the latest may still run.          *)
LatestOnly ==
  /\ cancel \in {0, done}
  /\ \A l \in Loops : (loop[l] = "none") <=> (l > done)
  /\ \A l \in Loops : Running(l) => l = done

(* A retirement under way is the latest loop's, and shuts acquire out.     *)
OneRetirement ==
  /\ stopping => cancel = 0 /\ done # 0
  /\ \A l \in Loops : retiring[l] \in {"cancel", "wait"} => l = done /\ stopping

(* Neither cancelled nor retiring nor running: no loop at all.             *)
StoppedLoop ==
  /\ cancel = 0 /\ ~stopping /\ ~closed => \A l \in Loops : ~Running(l)
  /\ cancel # 0 => /\ cancel \notin cancelled /\ loop[cancel] # "exited"
                   /\ retiring[cancel] = "none"
  /\ consumers > 0 /\ ~closed => cancel # 0

(* What Close has done so far.                                             *)
Closing ==
  /\ closed <=> manager \in {"cancel", "wait", "returned"}
  /\ closed => cancel = 0
  /\ manager \in {"cancel", "wait"} => done # 0
  /\ ClosedIsQuiet

Retirements == \A l \in Loops : l > done => retiring[l] = "none" /\ l \notin cancelled

Core == LatestOnly /\ OneRetirement /\ StoppedLoop /\ Closing /\ Retirements

CaptureInv == TypeOK /\ Core

LEMMA InitCapture == Init => CaptureInv
<1> SUFFICES ASSUME Init PROVE CaptureInv
  OBVIOUS
<1>1. TypeOK
  <2>1. FlagsOK /\ TimersOK /\ ClientsOK
    BY DEF Init, FlagsOK, TimersOK, ClientsOK
  <2>2. 0 \in 0 .. MaxLoops
    BY CaptureAssumption
  <2>3. LoopsOK /\ RetirementOK
    BY <2>2 DEF Init, LoopsOK, RetirementOK
  <2> QED BY <2>1, <2>3, TypeParts
<1>2. ASSUME NEW l \in Loops
      PROVE  loop[l] = "none" /\ ~Running(l) /\ retiring[l] = "none" /\ l > done
  <2>1. loop[l] = "none" /\ retiring[l] = "none" /\ done = 0
    BY DEF Init
  <2> QED BY <2>1, CaptureAssumption DEF Running, Live, Loops
<1>3. LatestOnly /\ OneRetirement /\ Retirements
  BY <1>2 DEF Init, LatestOnly, OneRetirement, Retirements
<1>4. StoppedLoop /\ Closing
  BY <1>2 DEF Init, StoppedLoop, Closing, ClosedIsQuiet
<1> QED BY <1>1, <1>3, <1>4 DEF CaptureInv, Core

(* Steps that touch no loop, no flag and no one who closes or retires.     *)
LEMMA QuietKeeps ==
  ASSUME Core, UNCHANGED <<closed, stopping, loops, retiring, manager>>,
         consumers' > 0 => consumers > 0
  PROVE  Core'
BY DEF Core, LatestOnly, OneRetirement, StoppedLoop, Closing, Retirements, ClosedIsQuiet,
       Running, Loops, Live, loops

-----------------------------------------------------------------------------
(* Acquiring.                                                              *)
LEMMA JoinKeeps ==
  ASSUME CaptureInv, NEW c \in Clients, Join(c), ~(cancel = 0 /\ stopping) \/ closed,
         UNCHANGED <<closed, retirement, manager>>
  PROVE  Core' /\ consumers' \in Nat /\ cancel' \in 0 .. MaxLoops /\ done' \in 0 .. MaxLoops
         /\ loop' \in [Loops -> Live \cup {"none", "failed", "exited"}]
         /\ cancelled' = cancelled
         /\ client' = [client EXCEPT ![c] = "look"] /\ channel' = channel
<1>1. TypeOK /\ Core
  BY DEF CaptureInv
<1>2. CASE UNCHANGED loops /\ (consumers' = consumers \/ (~closed /\ consumers' = consumers + 1 /\ cancel # 0))
  <2>1. Core'
    BY <1>1, <1>2 DEF Core, LatestOnly, OneRetirement, StoppedLoop, Closing, Retirements,
         ClosedIsQuiet, Running, Loops, Live, loops, retirement
  <2> QED BY <1>1, <1>2, <2>1 DEF TypeOK, Join, loops
<1>3. CASE /\ ~closed /\ consumers' = consumers + 1 /\ cancel = 0 /\ done < MaxLoops
           /\ done' = done + 1 /\ cancel' = done' /\ loop' = [loop EXCEPT ![done'] = "start"]
           /\ UNCHANGED cancelled
  <2>1. /\ done \in Nat /\ MaxLoops \in Nat /\ done' \in 1 .. MaxLoops /\ done' \in Loops
        /\ loop \in [Loops -> Live \cup {"none", "failed", "exited"}]
    BY <1>1, <1>3, CaptureAssumption DEF TypeOK, Loops
  <2>2. loop' \in [Loops -> Live \cup {"none", "failed", "exited"}]
    BY <1>3, <2>1 DEF Live
  <2>3. /\ loop'[done'] = "start"
        /\ \A l \in Loops : l # done' => loop'[l] = loop[l]
    BY <1>3, <2>1
  <2>4. ~stopping /\ \A l \in Loops : ~Running(l)
    BY <1>1, <1>3 DEF Core, StoppedLoop
  <2>5. LatestOnly'
    <3>1. \A l \in Loops : l # done' => ~Running(l)'
      BY <2>3, <2>4 DEF Running
    <3>2. ASSUME NEW l \in Loops PROVE (loop'[l] = "none") <=> (l > done')
      <4>1. CASE l = done'
        BY <4>1, <2>3, <2>1
      <4>2. CASE l # done'
        <5>1. (loop[l] = "none") <=> (l > done)
          BY <1>1 DEF Core, LatestOnly
        <5>2. (l > done) <=> (l > done')
          BY <4>2, <2>1, <1>3 DEF Loops
        <5> QED BY <5>1, <5>2, <4>2, <2>3
      <4> QED BY <4>1, <4>2
    <3> QED BY <1>3, <3>1, <3>2 DEF LatestOnly
  <2>6. retiring[done'] = "none" /\ done' \notin cancelled
    BY <1>1, <1>3, <2>1 DEF Core, Retirements
  <2>7. OneRetirement'
    BY <1>1, <1>3, <2>4 DEF Core, OneRetirement, retirement
  <2>8. StoppedLoop'
    BY <1>1, <1>3, <2>1, <2>3, <2>6 DEF StoppedLoop, retirement
  <2>9. Closing'
    BY <1>1, <1>3 DEF Core, Closing, ClosedIsQuiet
  <2>10. Retirements'
    BY <1>1, <1>3, <2>1 DEF Core, Retirements, retirement, Loops
  <2>11. consumers' \in Nat
    BY <1>1, <1>3 DEF TypeOK
  <2> QED BY <1>3, <2>1, <2>2, <2>5, <2>7, <2>8, <2>9, <2>10, <2>11 DEF Core, Join
<1>4. \/ UNCHANGED loops /\ (consumers' = consumers \/ (~closed /\ consumers' = consumers + 1 /\ cancel # 0))
      \/ /\ ~closed /\ consumers' = consumers + 1 /\ cancel = 0 /\ done < MaxLoops
         /\ done' = done + 1 /\ cancel' = done' /\ loop' = [loop EXCEPT ![done'] = "start"]
         /\ UNCHANGED cancelled
  BY DEF Join
<1> QED BY <1>2, <1>3, <1>4

(* Both ends of acquire.                                                   *)
LEMMA AcquireKeeps ==
  ASSUME CaptureInv, NEW c \in Clients, Acquire(c) \/ AcquireResume(c)
  PROVE  CaptureInv'
<1>1. TypeOK /\ Core /\ FlagsOK /\ TimersOK /\ LoopsOK /\ RetirementOK /\ ClientsOK
  BY TypeParts DEF CaptureInv
<1>2. UNCHANGED <<closed, retirement, frames, kind, after, manager>>
  BY DEF Acquire, AcquireResume
<1>3. TimersOK'
  <2>1. \/ UNCHANGED timers
        \/ pending' = pending \ {idle} /\ idle' = 0 /\ UNCHANGED <<idleGen, fired>>
    BY DEF Acquire, AcquireResume
  <2>2. CASE UNCHANGED timers
    BY <1>1, <2>2 DEF TimersOK, timers
  <2>3. CASE pending' = pending \ {idle} /\ idle' = 0 /\ UNCHANGED <<idleGen, fired>>
    <3>1. pending' \subseteq Nat
      BY <1>1, <2>3 DEF TimersOK
    <3> QED BY <1>1, <2>3, <3>1 DEF TimersOK
  <2> QED BY <2>1, <2>2, <2>3
<1>4. CASE Join(c) /\ (~(cancel = 0 /\ stopping) \/ closed)
  <2>1. /\ Core' /\ consumers' \in Nat /\ cancel' \in 0 .. MaxLoops /\ done' \in 0 .. MaxLoops
        /\ loop' \in [Loops -> Live \cup {"none", "failed", "exited"}]
        /\ cancelled' = cancelled
        /\ client' = [client EXCEPT ![c] = "look"] /\ channel' = channel
    BY <1>2, <1>4, JoinKeeps
  <2>2. FlagsOK' /\ LoopsOK' /\ RetirementOK' /\ ClientsOK'
    BY <1>1, <1>2, <2>1 DEF FlagsOK, LoopsOK, RetirementOK, ClientsOK, retirement, frames
  <2>3. TypeOK'
    BY <2>2, <1>3, TypeParts DEF TypeOK, FlagsOK, TimersOK, LoopsOK, RetirementOK, ClientsOK
  <2> QED BY <2>1, <2>3 DEF CaptureInv
<1>5. CASE AwaitRetired(c)
  <2>1. UNCHANGED <<consumers, loops>>
    BY <1>5 DEF AwaitRetired
  <2>2. Core'
    BY <1>1, <1>2, <2>1, QuietKeeps DEF retirement
  <2>3. FlagsOK' /\ LoopsOK' /\ RetirementOK'
    BY <1>1, <1>2, <2>1 DEF FlagsOK, LoopsOK, RetirementOK, retirement, frames, loops
  <2>4. ClientsOK'
    <3>1. retired \in Nat
      BY <1>1, CaptureAssumption DEF RetirementOK
    <3> QED BY <1>1, <1>2, <1>5, <3>1 DEF AwaitRetired, ClientsOK
  <2>5. TypeOK'
    BY <2>3, <2>4, <1>3, TypeParts DEF TypeOK, FlagsOK, TimersOK, LoopsOK, RetirementOK, ClientsOK
  <2> QED BY <2>2, <2>5 DEF CaptureInv
<1>6. AwaitRetired(c) \/ (Join(c) /\ (~(cancel = 0 /\ stopping) \/ closed))
  BY DEF Acquire, AcquireResume
<1> QED BY <1>4, <1>5, <1>6

TypePartsNext == FlagsOK' /\ TimersOK' /\ LoopsOK' /\ RetirementOK' /\ ClientsOK'

LEMMA TypeJoin == TypePartsNext => TypeOK'
BY DEF TypePartsNext, TypeOK, FlagsOK, TimersOK, LoopsOK, RetirementOK, ClientsOK

(* The other steps of a caller, and those of timers and frames, that start *)
(* and stop nothing.                                                       *)
LEMMA OthersKeep ==
  ASSUME CaptureInv,
         \/ \E c \in Clients : Look(c) \/ Notified(c) \/ GiveUp(c) \/ Release(c)
         \/ \E c \in Clients, k \in Kinds : Call(c, k)
         \/ \E g \in 1 .. MaxGen : Fire(g) \/ StopIdleRejected(g)
         \/ \E l \in Loops : Publish(l)
         \/ \E ch \in 0 .. MaxLoops : StopIdleClose(ch)
         \/ Age
  PROVE  CaptureInv'
<1>1. TypeOK /\ Core /\ FlagsOK /\ TimersOK /\ LoopsOK /\ RetirementOK /\ ClientsOK
  BY TypeParts DEF CaptureInv
<1>2. ASSUME NEW c \in Clients, Look(c) PROVE CaptureInv'
  <2>1. UNCHANGED <<consumers, closed, retirement, timers, frames, loops, kind, manager>>
    BY <1>2 DEF Look
  <2>2. ClientsOK'
    <3>1. seq \in Nat
      BY <1>1 DEF FlagsOK
    <3>2. client' \in [Clients -> {"out", "acquire", "retired", "look", "select", "leave"}]
      BY <1>1, <1>2 DEF Look, ClientsOK
    <3>3. channel' \in [Clients -> Nat] /\ after' \in [Clients -> Nat]
      <4>1. CASE UNCHANGED channel /\ after' = [after EXCEPT ![c] = IF closed THEN @ ELSE seq]
        BY <1>1, <3>1, <4>1 DEF ClientsOK
      <4>2. CASE UNCHANGED after /\ channel' = [channel EXCEPT ![c] = seq]
        BY <1>1, <3>1, <4>2 DEF ClientsOK
      <4> QED BY <1>2, <4>1, <4>2 DEF Look
    <3> QED BY <1>1, <2>1, <3>2, <3>3 DEF ClientsOK
  <2>3. Core'
    BY <1>1, <2>1, QuietKeeps DEF retirement, FlagsOK
  <2>4. TypePartsNext
    BY <1>1, <2>1, <2>2 DEF TypePartsNext, FlagsOK, TimersOK, LoopsOK, RetirementOK, retirement, timers, frames, loops
  <2> QED BY <2>3, <2>4, TypeJoin DEF CaptureInv
<1>3. ASSUME NEW c \in Clients, Notified(c) \/ GiveUp(c) PROVE CaptureInv'
  <2>1. UNCHANGED <<consumers, closed, retirement, timers, frames, loops, kind, channel, after, manager>>
    BY <1>3 DEF Notified, GiveUp
  <2>2. ClientsOK'
    BY <1>1, <1>3, <2>1 DEF Notified, GiveUp, ClientsOK
  <2>3. Core'
    BY <1>1, <2>1, QuietKeeps DEF retirement, FlagsOK
  <2>4. TypePartsNext
    BY <1>1, <2>1, <2>2 DEF TypePartsNext, FlagsOK, TimersOK, LoopsOK, RetirementOK, retirement, timers, frames, loops
  <2> QED BY <2>3, <2>4, TypeJoin DEF CaptureInv
<1>4. ASSUME NEW c \in Clients, Release(c) PROVE CaptureInv'
  <2>1. /\ UNCHANGED <<closed, retirement, frames, loops, after, manager>>
        /\ consumers' = IF consumers > 0 THEN consumers - 1 ELSE 0
    BY <1>4 DEF Release
  <2>2. ClientsOK'
    BY <1>1, <1>4 DEF Release, ClientsOK
  <2>3. consumers' \in Nat /\ (consumers' > 0 => consumers > 0)
    BY <1>1, <2>1 DEF FlagsOK
  <2>4. Core'
    BY <1>1, <2>1, <2>3, QuietKeeps DEF retirement
  <2>5. TimersOK'
    <3>1. \/ UNCHANGED timers
          \/ idleGen' = idleGen + 1 /\ idle' = idleGen' /\ pending' = pending \cup {idleGen'} /\ UNCHANGED fired
      BY <1>4 DEF Release
    <3>2. CASE UNCHANGED timers
      BY <1>1, <3>2 DEF TimersOK, timers
    <3>3. CASE idleGen' = idleGen + 1 /\ idle' = idleGen' /\ pending' = pending \cup {idleGen'} /\ UNCHANGED fired
      <4>1. idleGen' \in Nat
        BY <1>1, <3>3 DEF TimersOK
      <4>2. pending' \subseteq Nat
        BY <1>1, <3>3, <4>1 DEF TimersOK
      <4> QED BY <1>1, <3>3, <4>1, <4>2 DEF TimersOK
    <3> QED BY <3>1, <3>2, <3>3
  <2>6. TypePartsNext
    BY <1>1, <2>1, <2>2, <2>3, <2>5 DEF TypePartsNext, FlagsOK, LoopsOK, RetirementOK, retirement, frames, loops
  <2> QED BY <2>4, <2>6, TypeJoin DEF CaptureInv
<1>5. ASSUME NEW c \in Clients, NEW k \in Kinds, Call(c, k) PROVE CaptureInv'
  <2>1. UNCHANGED <<consumers, closed, retirement, timers, frames, loops, channel, after, manager>>
    BY <1>5 DEF Call
  <2>2. ClientsOK'
    BY <1>1, <1>5, CaptureAssumption DEF Call, ClientsOK
  <2>3. Core'
    BY <1>1, <2>1, QuietKeeps DEF retirement, FlagsOK
  <2>4. TypePartsNext
    BY <1>1, <2>1, <2>2 DEF TypePartsNext, FlagsOK, TimersOK, LoopsOK, RetirementOK, retirement, timers, frames, loops
  <2> QED BY <2>3, <2>4, TypeJoin DEF CaptureInv
<1>6. ASSUME NEW g \in 1 .. MaxGen, Fire(g) \/ StopIdleRejected(g) PROVE CaptureInv'
  <2>1. UNCHANGED <<consumers, closed, retirement, frames, loops, callers, manager, idle, idleGen>>
    BY <1>6 DEF Fire, StopIdleRejected
  <2>2. TimersOK'
    <3>1. g \in Nat
      OBVIOUS
    <3>2. pending' \subseteq Nat /\ fired' \subseteq Nat
      BY <1>1, <1>6, <3>1 DEF Fire, StopIdleRejected, TimersOK
    <3> QED BY <1>1, <2>1, <3>2 DEF TimersOK
  <2>3. Core'
    BY <1>1, <2>1, QuietKeeps DEF retirement, FlagsOK
  <2>4. TypePartsNext
    BY <1>1, <2>1, <2>2 DEF TypePartsNext, FlagsOK, ClientsOK, LoopsOK, RetirementOK, retirement, callers, frames, loops
  <2> QED BY <2>3, <2>4, TypeJoin DEF CaptureInv
<1>7. ASSUME Age \/ \E l \in Loops : Publish(l) PROVE CaptureInv'
  <2>1. UNCHANGED <<consumers, closed, retirement, timers, loops, callers, manager>>
    BY <1>7 DEF Age, Publish
  <2>2. Core'
    BY <1>1, <2>1, QuietKeeps DEF retirement, FlagsOK
  <2>3. seq' \in Nat /\ fresh' \in BOOLEAN
    <3>1. CASE Age
      BY <1>1, <3>1 DEF Age, FlagsOK
    <3>2. CASE \E l \in Loops : Publish(l)
      BY <1>1, <3>2 DEF Publish, FlagsOK
    <3> QED BY <1>7, <3>1, <3>2
  <2>4. TypePartsNext
    BY <1>1, <2>1, <2>3 DEF TypePartsNext, FlagsOK, ClientsOK, TimersOK, LoopsOK, RetirementOK, retirement, callers, timers, loops
  <2> QED BY <2>2, <2>4, TypeJoin DEF CaptureInv
<1>8. ASSUME NEW ch \in 0 .. MaxLoops, StopIdleClose(ch) PROVE CaptureInv'
  <2>1. UNCHANGED <<stopping, retired, retiring, timers, consumers, closed, frames, loops, callers, manager>>
    BY <1>8 DEF StopIdleClose
  <2>2. Core'
    BY <1>1, <2>1, QuietKeeps DEF FlagsOK
  <2>3. toClose' \subseteq 0 .. MaxLoops /\ gone' \subseteq 0 .. MaxLoops
    BY <1>1, <1>8 DEF StopIdleClose, RetirementOK
  <2>4. TypePartsNext
    BY <1>1, <2>1, <2>3 DEF TypePartsNext, FlagsOK, ClientsOK, TimersOK, LoopsOK, RetirementOK, callers, timers, frames, loops
  <2> QED BY <2>2, <2>4, TypeJoin DEF CaptureInv
<1> QED BY <1>2, <1>3, <1>4, <1>5, <1>6, <1>7, <1>8

-----------------------------------------------------------------------------
(* The steps of a capture loop: each ends where it stands or moves on, and *)
(* only a loop without an address exits while c.cancel still points at it. *)
LEMMA MoveKeeps ==
  ASSUME CaptureInv, NEW l \in Loops,
         NEW from \in Live, NEW to \in (Live \cup {"failed", "exited"}), Step(l, from, to),
         to = "exited" => l # cancel
  PROVE  CaptureInv'
<1>1. TypeOK /\ Core /\ FlagsOK /\ TimersOK /\ LoopsOK /\ RetirementOK /\ ClientsOK
  BY TypeParts DEF CaptureInv
<1>2. /\ loop[l] = from /\ loop' = [loop EXCEPT ![l] = to]
      /\ UNCHANGED <<consumers, closed, retirement, timers, frames, cancel, done, cancelled, callers, manager>>
  BY DEF Step
<1>3. LoopsOK'
  BY <1>1, <1>2 DEF LoopsOK
<1>4. TypePartsNext
  BY <1>1, <1>2, <1>3 DEF TypePartsNext, FlagsOK, ClientsOK, TimersOK, RetirementOK, retirement, callers, timers, frames
<1>5. /\ loop'[l] = to /\ to # "none" /\ from # "none" /\ Running(l)
      /\ \A m \in Loops : m # l => loop'[m] = loop[m]
  BY <1>1, <1>2 DEF LoopsOK, Live, Running
<1>6. \A m \in Loops : Running(m)' => Running(m)
  BY <1>5 DEF Running
<1>7. LatestOnly'
  BY <1>1, <1>2, <1>5, <1>6 DEF Core, LatestOnly
<1>8. OneRetirement' /\ Retirements'
  BY <1>1, <1>2 DEF Core, OneRetirement, Retirements, retirement
<1>9. StoppedLoop'
  <2>1. cancel # 0 => cancel \in Loops
    BY <1>1, CaptureAssumption DEF LoopsOK, Loops
  <2>2. cancel # 0 => loop'[cancel] # "exited"
    BY <1>1, <1>5, <2>1 DEF Core, StoppedLoop
  <2> QED BY <1>1, <1>2, <1>6, <2>2 DEF Core, StoppedLoop, retirement
<1>10. Closing'
  BY <1>1, <1>2, <1>6 DEF Core, Closing, ClosedIsQuiet
<1> QED BY <1>4, <1>7, <1>8, <1>9, <1>10, TypeJoin DEF CaptureInv, Core

LEMMA LoopKeeps ==
  ASSUME CaptureInv, NEW l \in Loops, LoopStep(l)
  PROVE  CaptureInv'
<1>1. l \in cancelled \/ cancel = 0 => l # cancel
  BY CaptureAssumption DEF CaptureInv, Core, StoppedLoop, Loops
<1>2. PICK from \in Live, to \in (Live \cup {"failed", "exited"}) :
        Step(l, from, to) /\ (to = "exited" => l \in cancelled \/ cancel = 0)
  <2>1. CASE NoEndpoint(l) \/ Endpoint(l) \/ Connected(l) \/ ConnectFailed(l)
    BY <2>1 DEF NoEndpoint, Endpoint, Connected, ConnectFailed, Live
  <2>2. CASE Attempt(l) \/ AttemptCancelled(l) \/ StreamCancelled(l)
    BY <2>2 DEF Attempt, AttemptCancelled, StreamCancelled, Live
  <2>3. CASE StreamLost(l) \/ Backoff(l)
    BY <2>3 DEF StreamLost, Backoff, Live
  <2> QED BY <2>1, <2>2, <2>3 DEF LoopStep
<1> QED BY <1>1, <1>2, MoveKeeps

-----------------------------------------------------------------------------
(* The idle stop: the loop leaves c.cancel for the retirement.             *)
LEMMA StopIdleKeeps ==
  ASSUME CaptureInv, NEW g \in 1 .. MaxGen, StopIdle(g)
  PROVE  CaptureInv'
<1>1. TypeOK /\ Core /\ FlagsOK /\ TimersOK /\ LoopsOK /\ RetirementOK /\ ClientsOK
  BY TypeParts DEF CaptureInv
<1>2. /\ ~closed /\ consumers = 0 /\ cancel # 0 /\ cancel' = 0 /\ stopping' = TRUE
      /\ retired' = cancel /\ idle' = 0 /\ fired' = fired \ {g}
      /\ retiring' = [retiring EXCEPT ![cancel] = "cancel"]
      /\ UNCHANGED <<idleGen, pending, consumers, closed, toClose, gone, frames, done, loop, cancelled, callers, manager>>
  BY DEF StopIdle
<1>3. cancel \in Loops /\ cancel = done
  BY <1>1, <1>2, CaptureAssumption DEF LoopsOK, Loops, Core, LatestOnly
<1>4. TypePartsNext
  <2>1. TimersOK'
    BY <1>1, <1>2 DEF TimersOK
  <2>2. LoopsOK' /\ RetirementOK'
    BY <1>1, <1>2, <1>3, CaptureAssumption DEF LoopsOK, RetirementOK
  <2> QED BY <1>1, <1>2, <2>1, <2>2 DEF TypePartsNext, FlagsOK, ClientsOK, frames, callers
<1>5. \A l \in Loops : l # cancel => retiring'[l] = retiring[l]
  BY <1>1, <1>2 DEF RetirementOK
<1>6. LatestOnly' /\ Closing'
  BY <1>1, <1>2 DEF Core, LatestOnly, Closing, ClosedIsQuiet, Running
<1>7. OneRetirement' /\ Retirements'
  BY <1>1, <1>2, <1>3, <1>5 DEF Core, OneRetirement, Retirements, Loops, LoopsOK
<1>8. StoppedLoop'
  BY <1>1, <1>2 DEF Core, StoppedLoop
<1> QED BY <1>4, <1>6, <1>7, <1>8, TypeJoin DEF CaptureInv, Core

LEMMA RetireKeeps ==
  ASSUME CaptureInv, NEW l \in Loops, RetireStep(l)
  PROVE  CaptureInv'
<1>1. TypeOK /\ Core /\ FlagsOK /\ TimersOK /\ LoopsOK /\ RetirementOK /\ ClientsOK
  BY TypeParts DEF CaptureInv
<1>2. l = done /\ stopping /\ cancel = 0
  BY <1>1 DEF RetireStep, StopIdleCancel, StopIdleDone, Core, OneRetirement
<1>3. CASE StopIdleCancel(l)
  <2>1. /\ retiring[l] = "cancel" /\ retiring' = [retiring EXCEPT ![l] = "wait"]
        /\ cancelled' = cancelled \cup {l}
        /\ UNCHANGED <<stopping, retired, toClose, gone, timers, consumers, closed, frames, cancel, done, loop, callers, manager>>
    BY <1>3 DEF StopIdleCancel
  <2>2. LoopsOK' /\ RetirementOK'
    BY <1>1, <2>1 DEF LoopsOK, RetirementOK
  <2>3. TypePartsNext
    BY <1>1, <2>1, <2>2 DEF TypePartsNext, FlagsOK, TimersOK, ClientsOK, timers, frames, callers
  <2>4. LatestOnly' /\ Closing' /\ StoppedLoop'
    BY <1>1, <1>2, <2>1 DEF Core, LatestOnly, Closing, ClosedIsQuiet, StoppedLoop, Running
  <2>5. OneRetirement' /\ Retirements'
    BY <1>1, <1>2, <2>1 DEF Core, OneRetirement, Retirements, Loops, RetirementOK, LoopsOK
  <2> QED BY <2>3, <2>4, <2>5, TypeJoin DEF CaptureInv, Core
<1>4. CASE StopIdleDone(l)
  <2>1. /\ loop[l] \in {"failed", "exited"}
        /\ retiring[l] = "wait" /\ retiring' = [retiring EXCEPT ![l] = "over"]
        /\ stopping' = FALSE /\ toClose' = toClose \cup {retired}
        /\ UNCHANGED <<retired, gone, timers, consumers, closed, frames, loops, callers, manager>>
    BY <1>4 DEF StopIdleDone
  <2>2. RetirementOK'
    BY <1>1, <2>1 DEF RetirementOK
  <2>3. TypePartsNext
    BY <1>1, <2>1, <2>2 DEF TypePartsNext, FlagsOK, TimersOK, ClientsOK, LoopsOK, timers, frames, callers, loops
  <2>4. \A m \in Loops : ~Running(m)
    BY <1>1, <1>2, <2>1 DEF Core, LatestOnly, Running, Live
  <2>5. LatestOnly' /\ Closing' /\ StoppedLoop'
    BY <1>1, <1>2, <2>1, <2>4 DEF Core, LatestOnly, Closing, ClosedIsQuiet, StoppedLoop, Running, loops
  <2>6. \A m \in Loops : m # l => retiring'[m] = retiring[m] /\ retiring'[l] = "over"
    BY <1>1, <2>1 DEF RetirementOK
  <2>7. OneRetirement' /\ Retirements'
    BY <1>1, <1>2, <2>1, <2>6 DEF Core, OneRetirement, Retirements, Loops, loops, LoopsOK, RetirementOK
  <2> QED BY <2>3, <2>5, <2>7, TypeJoin DEF CaptureInv, Core
<1> QED BY <1>3, <1>4 DEF RetireStep

LEMMA CloseKeeps ==
  ASSUME CaptureInv, ManagerClose \/ CloseStep
  PROVE  CaptureInv'
<1>1. TypeOK /\ Core /\ FlagsOK /\ TimersOK /\ LoopsOK /\ RetirementOK /\ ClientsOK
  BY TypeParts DEF CaptureInv
<1>2. CASE ManagerClose
  <2>1. /\ manager = "open" /\ manager' = "closed"
        /\ UNCHANGED <<consumers, closed, retirement, timers, frames, loops, callers>>
    BY <1>2 DEF ManagerClose
  <2>2. TypePartsNext
    BY <1>1, <2>1 DEF TypePartsNext, FlagsOK, TimersOK, ClientsOK, LoopsOK, RetirementOK, timers, frames, callers, loops, retirement
  <2>3. LatestOnly' /\ OneRetirement' /\ StoppedLoop' /\ Retirements'
    BY <1>1, <2>1 DEF Core, LatestOnly, OneRetirement, StoppedLoop, Retirements, Running, loops, retirement
  <2>4. Closing'
    BY <1>1, <2>1 DEF Core, Closing, ClosedIsQuiet, loops
  <2> QED BY <2>2, <2>3, <2>4, TypeJoin DEF CaptureInv, Core
<1>3. CASE CloseMark
  <2>1. /\ manager = "closed" /\ closed' = TRUE /\ pending' = pending \ {idle} /\ idle' = 0 /\ cancel' = 0
        /\ manager' = IF cancel # 0 THEN "cancel" ELSE IF stopping THEN "wait" ELSE "returned"
        /\ UNCHANGED <<idleGen, fired, consumers, retirement, frames, done, loop, cancelled, callers>>
    BY <1>3 DEF CloseMark
  <2>2. ~closed
    BY <1>1, <2>1 DEF Core, Closing
  <2>3. cancel # 0 => done # 0
    BY <1>1 DEF Core, LatestOnly
  <2>4. TypePartsNext
    <3>1. TimersOK'
      BY <1>1, <2>1 DEF TimersOK
    <3>2. LoopsOK'
      BY <1>1, <2>1, CaptureAssumption DEF LoopsOK
    <3>3. manager' \in {"open", "closed", "cancel", "wait", "returned"}
      BY <2>1
    <3> QED BY <1>1, <2>1, <3>1, <3>2, <3>3 DEF TypePartsNext, FlagsOK, ClientsOK, RetirementOK, frames, callers, retirement
  <2>5. LatestOnly' /\ OneRetirement' /\ StoppedLoop' /\ Retirements'
    BY <1>1, <2>1 DEF Core, LatestOnly, OneRetirement, StoppedLoop, Retirements, Running, retirement
  <2>6. manager' = "returned" => \A l \in Loops : ~Running(l)
    BY <1>1, <2>1, <2>2 DEF Core, StoppedLoop
  <2>7. manager' \in {"cancel", "wait", "returned"} /\ (manager' \in {"cancel", "wait"} => done # 0)
    BY <1>1, <2>1, <2>3 DEF Core, OneRetirement
  <2>8. Closing'
    BY <2>1, <2>6, <2>7 DEF Closing, ClosedIsQuiet, Running
  <2> QED BY <2>4, <2>5, <2>8, TypeJoin DEF CaptureInv, Core
<1>4. CASE CloseCancel
  <2>1. /\ manager = "cancel" /\ manager' = "wait" /\ cancelled' = cancelled \cup {done}
        /\ UNCHANGED <<consumers, closed, retirement, timers, frames, cancel, done, loop, callers>>
    BY <1>4 DEF CloseCancel
  <2>2. closed /\ cancel = 0 /\ done # 0 /\ done \in Loops
    BY <1>1, <2>1, CaptureAssumption DEF Core, Closing, LoopsOK, Loops
  <2>3. LoopsOK'
    BY <1>1, <2>1, <2>2 DEF LoopsOK
  <2>4. TypePartsNext
    BY <1>1, <2>1, <2>3 DEF TypePartsNext, FlagsOK, TimersOK, ClientsOK, RetirementOK, timers, frames, callers, retirement
  <2>5. LatestOnly' /\ OneRetirement' /\ StoppedLoop' /\ Closing'
    BY <1>1, <2>1, <2>2 DEF Core, LatestOnly, OneRetirement, StoppedLoop, Closing, ClosedIsQuiet, Running, retirement
  <2>6. Retirements'
    BY <1>1, <2>1, <2>2 DEF Core, Retirements, retirement, Loops
  <2> QED BY <2>4, <2>5, <2>6, TypeJoin DEF CaptureInv, Core
<1>5. CASE CloseDone
  <2>1. /\ manager = "wait" /\ loop[done] \in {"failed", "exited"} /\ manager' = "returned"
        /\ UNCHANGED <<consumers, closed, retirement, timers, frames, loops, callers>>
    BY <1>5 DEF CloseDone
  <2>2. \A l \in Loops : ~Running(l)
    BY <1>1, <2>1 DEF Core, LatestOnly, Running, Live
  <2>3. TypePartsNext
    BY <1>1, <2>1 DEF TypePartsNext, FlagsOK, TimersOK, ClientsOK, LoopsOK, RetirementOK, timers, frames, callers, loops, retirement
  <2>4. LatestOnly' /\ OneRetirement' /\ StoppedLoop' /\ Retirements'
    BY <1>1, <2>1 DEF Core, LatestOnly, OneRetirement, StoppedLoop, Retirements, Running, loops, retirement
  <2>5. Closing'
    BY <1>1, <2>1, <2>2 DEF Core, Closing, ClosedIsQuiet, Running, loops
  <2> QED BY <2>3, <2>4, <2>5, TypeJoin DEF CaptureInv, Core
<1> QED BY <1>2, <1>3, <1>4, <1>5 DEF CloseStep

-----------------------------------------------------------------------------
THEOREM CaptureInvariant == Spec => []CaptureInv
<1>1. CaptureInv /\ [Next]_vars => CaptureInv'
  <2> SUFFICES ASSUME CaptureInv, [Next]_vars PROVE CaptureInv'
    OBVIOUS
  <2>1. CASE UNCHANGED vars
    BY <2>1 DEF vars, CaptureInv, TypeOK, Core, LatestOnly, OneRetirement, StoppedLoop, Closing,
         Retirements, ClosedIsQuiet, Running
  <2>2. ASSUME NEW c \in Clients, ClientStep(c) \/ GiveUp(c) PROVE CaptureInv'
    <3>1. CASE Acquire(c) \/ AcquireResume(c)
      BY <3>1, AcquireKeeps
    <3>2. CASE Look(c) \/ Notified(c) \/ GiveUp(c) \/ Release(c)
      BY <3>2, OthersKeep
    <3> QED BY <2>2, <3>1, <3>2 DEF ClientStep
  <2>3. ASSUME NEW c \in Clients, NEW k \in Kinds, Call(c, k) PROVE CaptureInv'
    BY <2>3, OthersKeep
  <2>4. ASSUME NEW g \in 1 .. MaxGen, IdleStep(g) PROVE CaptureInv'
    BY <2>4, OthersKeep, StopIdleKeeps DEF IdleStep
  <2>5. ASSUME NEW l \in Loops, RetireStep(l) \/ LoopStep(l) \/ Publish(l) PROVE CaptureInv'
    BY <2>5, RetireKeeps, LoopKeeps, OthersKeep
  <2>6. ASSUME NEW ch \in 0 .. MaxLoops, StopIdleClose(ch) PROVE CaptureInv'
    BY <2>6, OthersKeep
  <2>7. CASE Age
    BY <2>7, OthersKeep
  <2>8. CASE ManagerClose \/ CloseStep
    BY <2>8, CloseKeeps
  <2> QED BY <2>1, <2>2, <2>3, <2>4, <2>5, <2>6, <2>7, <2>8 DEF Next
<1> QED BY <1>1, InitCapture, PTL DEF Spec

(* Every variable keeps its type: the bounds of a run are not what holds   *)
(* the counters and channels together.                                     *)
THEOREM TypeCorrect == Spec => []TypeOK
<1>1. CaptureInv => TypeOK
  BY DEF CaptureInv
<1> QED BY <1>1, CaptureInvariant, PTL

(* The printer sees one camera connection at most, for any number of       *)
(* callers, idle stops and restarts of the loop.                           *)
THEOREM OneConnectionOnly == Spec => []OneConnection
<1>1. CaptureInv => OneConnection
  BY DEF CaptureInv, Core, LatestOnly, OneConnection
<1> QED BY <1>1, CaptureInvariant, PTL

(* No counted consumer is left on a loop that is being stopped.            *)
THEOREM ConsumersAreServed == Spec => []ConsumersServed
<1>1. CaptureInv => ConsumersServed
  BY DEF CaptureInv, Core, StoppedLoop, ConsumersServed
<1> QED BY <1>1, CaptureInvariant, PTL

(* Close leaves no loop running, and none starts after it.                 *)
THEOREM ClosedStaysQuiet == Spec => []ClosedIsQuiet
<1>1. CaptureInv => ClosedIsQuiet
  BY DEF CaptureInv, Core, Closing
<1> QED BY <1>1, CaptureInvariant, PTL
-----------------------------------------------------------------------------
(***************************************************************************)
(* The count of the callers, the timer of an idle capture and the frame a  *)
(* caller waits for.  A timer is new when it is armed, and a caller never  *)
(* has the channel of a frame still to come after the next.                *)
(***************************************************************************)
Using == {c \in Clients : client[c] \in {"look", "select", "leave"}}

Counted == ~closed => consumers = Cardinality(Using)
Watched == ~closed /\ Using = {} /\ cancel # 0 => idleGen \in pending \cup fired
TimersBehind ==
  /\ \A g \in pending \cup fired : g <= idleGen
  /\ pending \cap fired = {}
ChannelsBehind == \A c \in Clients : client[c] = "select" => channel[c] <= seq

UseInv == CaptureInv /\ Counted /\ Watched /\ TimersBehind /\ ChannelsBehind /\ NoMissedFrame

LEMMA UsingIsFinite == IsFiniteSet(Using)
BY CaptureAssumption, FS_Subset DEF Using

LEMMA UseInvInit == Init => UseInv
<1> SUFFICES ASSUME Init PROVE UseInv
  OBVIOUS
<1>1. Using = {}
  BY DEF Init, Using
<1> QED
  BY <1>1, InitCapture, FS_EmptySet
     DEF Init, UseInv, Counted, Watched, TimersBehind, ChannelsBehind, NoMissedFrame

(* Steps of other goroutines than the callers and the timers.              *)
LEMMA AsideKeeps ==
  ASSUME UseInv, CaptureInv', UNCHANGED <<consumers, timers, callers>>,
         closed' \/ (UNCHANGED closed /\ cancel' \in {cancel, 0}),
         seq' \in {seq, seq + 1}
  PROVE  UseInv'
<1> USE DEF UseInv, timers, callers
<1>1. Using' = Using
  BY DEF Using
<1>2. seq \in Nat /\ \A c \in Clients : channel[c] \in Nat
  BY DEF CaptureInv, TypeOK
<1>3. Counted' /\ Watched'
  BY <1>1 DEF Counted, Watched
<1>4. TimersBehind'
  BY DEF TimersBehind
<1>5. ChannelsBehind'
  BY <1>2 DEF ChannelsBehind
<1>6. NoMissedFrame'
  BY <1>2 DEF NoMissedFrame, ChannelsBehind
<1> QED
  BY <1>3, <1>4, <1>5, <1>6

(* A caller joins, or waits for a retirement.                              *)
LEMMA JoinerKeeps ==
  ASSUME UseInv, CaptureInv', NEW c \in Clients, Acquire(c) \/ AcquireResume(c)
  PROVE  UseInv'
<1> USE DEF UseInv
<1>1. /\ c \notin Using /\ client' = [client EXCEPT ![c] = client'[c]]
      /\ client'[c] \in {"look", "retired"} /\ UNCHANGED <<closed, frames, kind, after, idleGen, fired>>
      /\ \A d \in Clients \ {c} : channel'[d] = channel[d]
      /\ pending' \subseteq pending
  BY DEF Acquire, AcquireResume, Join, AwaitRetired, Using, CaptureInv, TypeOK, timers
<1>2. \A d \in Clients \ {c} : client'[d] = client[d]
  BY <1>1 DEF CaptureInv, TypeOK
<1>3. TimersBehind'
  BY <1>1 DEF TimersBehind
<1>4. ChannelsBehind' /\ NoMissedFrame'
  BY <1>1, <1>2 DEF ChannelsBehind, NoMissedFrame, frames
<1>5. CASE closed
  BY <1>1, <1>3, <1>4, <1>5 DEF Counted, Watched
<1>6. CASE ~closed /\ cancel = 0 /\ stopping
  <2>1. UNCHANGED <<consumers, cancel>> /\ client'[c] = "retired"
    BY <1>6 DEF Acquire, AcquireResume, AwaitRetired, loops, CaptureInv, TypeOK
  <2>2. Using' = Using
    BY <1>1, <1>2, <2>1 DEF Using
  <2> QED
    BY <1>1, <1>3, <1>4, <1>6, <2>1, <2>2 DEF Counted, Watched
<1>7. CASE ~closed /\ ~(cancel = 0 /\ stopping)
  <2>1. consumers' = consumers + 1 /\ client'[c] = "look"
    BY <1>7 DEF Acquire, AcquireResume, Join, CaptureInv, TypeOK
  <2>2. Using' = Using \cup {c}
    BY <1>1, <1>2, <2>1 DEF Using
  <2>3. Cardinality(Using') = Cardinality(Using) + 1
    BY <1>1, <2>2, UsingIsFinite, FS_AddElement
  <2> QED
    BY <1>1, <1>3, <1>4, <1>7, <2>1, <2>2, <2>3 DEF Counted, Watched
<1> QED
  BY <1>5, <1>6, <1>7

(* A caller calls, looks, is woken or gives up.                            *)
LEMMA LookerKeeps ==
  ASSUME UseInv, CaptureInv', NEW c \in Clients,
         Look(c) \/ Notified(c) \/ GiveUp(c) \/ \E k \in Kinds : Call(c, k)
  PROVE  UseInv'
<1> USE DEF UseInv
<1>1. /\ UNCHANGED <<consumers, closed, timers, frames, loops>>
      /\ c \in Using <=> client'[c] \in {"look", "select", "leave"}
      /\ \A d \in Clients \ {c} :
           client'[d] = client[d] /\ channel'[d] = channel[d] /\ kind'[d] = kind[d] /\ after'[d] = after[d]
  BY DEF Look, Notified, GiveUp, Call, Using, CaptureInv, TypeOK
<1>2. Using' = Using
  BY <1>1 DEF Using
<1>3. /\ client'[c] = "select" => channel'[c] = seq
      /\ client'[c] = "select" /\ kind'[c] = "wait" => seq <= after'[c]
  BY DEF Look, Notified, GiveUp, Call, Satisfied, CaptureInv, TypeOK
<1>4. Counted' /\ Watched' /\ TimersBehind'
  BY <1>1, <1>2 DEF Counted, Watched, TimersBehind, timers, loops
<1>5. ChannelsBehind' /\ NoMissedFrame'
  <2>1. seq' = seq /\ seq \in Nat /\ closed' = closed
    BY <1>1 DEF frames, CaptureInv, TypeOK
  <2> QED
    BY <1>1, <1>3, <2>1 DEF ChannelsBehind, NoMissedFrame
<1> QED
  BY <1>4, <1>5

LEMMA ReleaseKeepsUse ==
  ASSUME UseInv, CaptureInv', NEW c \in Clients, Release(c)
  PROVE  UseInv'
<1> USE DEF UseInv
<1>1. /\ c \in Using /\ client'[c] = "out" /\ UNCHANGED <<closed, seq, cancel, after>>
      /\ \A d \in Clients \ {c} :
           client'[d] = client[d] /\ channel'[d] = channel[d] /\ kind'[d] = kind[d]
  BY DEF Release, Using, CaptureInv, TypeOK, frames, loops
<1>2. Using' = Using \ {c}
  BY <1>1 DEF Using
<1>3. /\ Cardinality(Using') = Cardinality(Using) - 1
      /\ Cardinality(Using) \in Nat /\ Cardinality(Using') \in Nat
  BY <1>1, <1>2, UsingIsFinite, FS_RemoveElement, FS_CardinalityType
<1>4. ~closed => consumers' = consumers - 1 /\ consumers' = Cardinality(Using')
  BY <1>1, <1>3 DEF Release, Counted
<1>5. Counted'
  BY <1>1, <1>4 DEF Counted
<1>6. CASE /\ idleGen' = idleGen + 1 /\ pending' = pending \cup {idleGen'} /\ UNCHANGED fired
  <2>1. idleGen \in Nat /\ pending \subseteq Nat /\ fired \subseteq Nat
    BY DEF CaptureInv, TypeOK
  <2>2. TimersBehind'
    BY <1>6, <2>1 DEF TimersBehind
  <2>3. Watched'
    BY <1>6 DEF Watched
  <2> QED
    BY <1>1, <1>5, <2>2, <2>3 DEF ChannelsBehind, NoMissedFrame
<1>7. CASE ~(consumers' = 0 /\ cancel # 0 /\ ~closed) /\ UNCHANGED timers
  <2>1. Using' = {} => Cardinality(Using') = 0
    BY FS_EmptySet
  <2>2. Watched' /\ TimersBehind'
    BY <1>1, <1>4, <1>7, <2>1 DEF Watched, TimersBehind, timers
  <2> QED
    BY <1>1, <1>5, <2>2 DEF ChannelsBehind, NoMissedFrame
<1> QED
  BY <1>6, <1>7 DEF Release

LEMMA TimerKeeps ==
  ASSUME UseInv, CaptureInv', NEW g \in 1 .. MaxGen, IdleStep(g)
  PROVE  UseInv'
<1> USE DEF UseInv
<1>1. UNCHANGED <<consumers, closed, frames, callers, idleGen>>
  BY DEF IdleStep, Fire, StopIdleRejected, StopIdle
<1>2. Using' = Using /\ Counted' /\ ChannelsBehind' /\ NoMissedFrame'
  BY <1>1 DEF Using, Counted, ChannelsBehind, NoMissedFrame, frames, callers
<1>3. TimersBehind'
  BY <1>1 DEF TimersBehind, IdleStep, Fire, StopIdleRejected, StopIdle
<1>4. Watched'
  <2>1. CASE Fire(g)
    BY <1>1, <1>2, <2>1 DEF Watched, Fire, loops
  <2>2. CASE StopIdleRejected(g)
    <3>1. Using = {} => Cardinality(Using) = 0
      BY FS_EmptySet
    <3>2. ~closed /\ Using = {} /\ cancel # 0 => g # idleGen
      BY <2>2, <3>1 DEF StopIdleRejected, Counted
    <3> QED
      BY <1>1, <1>2, <2>2, <3>2 DEF Watched, StopIdleRejected, loops
  <2>3. CASE StopIdle(g)
    BY <2>3 DEF Watched, StopIdle
  <2> QED
    BY <2>1, <2>2, <2>3 DEF IdleStep
<1> QED
  BY <1>2, <1>3, <1>4

THEOREM UseInvariant == Spec => []UseInv
<1>1. UseInv /\ CaptureInv' /\ [Next]_vars => UseInv'
  <2> SUFFICES ASSUME UseInv, CaptureInv', [Next]_vars PROVE UseInv'
    OBVIOUS
  <2>1. CASE UNCHANGED vars
    BY <2>1, AsideKeeps DEF vars, timers, callers
  <2>2. ASSUME NEW c \in Clients, ClientStep(c) \/ GiveUp(c) \/ \E k \in Kinds : Call(c, k)
        PROVE  UseInv'
    BY <2>2, JoinerKeeps, LookerKeeps, ReleaseKeepsUse DEF ClientStep
  <2>3. ASSUME NEW g \in 1 .. MaxGen, IdleStep(g) PROVE UseInv'
    BY <2>3, TimerKeeps
  <2>4. ASSUME NEW l \in Loops, RetireStep(l) PROVE UseInv'
    BY <2>4, AsideKeeps DEF RetireStep, StopIdleCancel, StopIdleDone, frames, loops
  <2>5. ASSUME NEW l \in Loops, LoopStep(l) PROVE UseInv'
    <3>1. UNCHANGED <<consumers, closed, timers, frames, cancel, callers>>
      BY <2>5 DEF LoopStep, NoEndpoint, Endpoint, Attempt, AttemptCancelled, Connected,
                  ConnectFailed, StreamCancelled, StreamLost, Backoff, Step
    <3> QED
      BY <3>1, AsideKeeps DEF frames
  <2>6. ASSUME NEW l \in Loops, Publish(l) PROVE UseInv'
    BY <2>6, AsideKeeps DEF Publish, loops
  <2>7. ASSUME NEW ch \in 0 .. MaxLoops, StopIdleClose(ch) PROVE UseInv'
    BY <2>7, AsideKeeps DEF StopIdleClose, frames, loops
  <2>8. CASE Age \/ ManagerClose
    BY <2>8, AsideKeeps DEF Age, ManagerClose, frames, loops
  <2>9. CASE CloseStep
    <3>1. CASE CloseMark
      <4>1. /\ closed' /\ UNCHANGED <<consumers, frames, callers, idleGen, fired>>
            /\ pending' \subseteq pending
        BY <3>1 DEF CloseMark
      <4> QED
        BY <4>1 DEF UseInv, Counted, Watched, TimersBehind, ChannelsBehind, NoMissedFrame, frames, callers
    <3>2. CASE CloseCancel \/ CloseDone
      BY <3>2, AsideKeeps DEF CloseCancel, CloseDone, frames, loops
    <3> QED
      BY <2>9, <3>1, <3>2 DEF CloseStep
  <2> QED
    BY <2>1, <2>2, <2>3, <2>4, <2>5, <2>6, <2>7, <2>8, <2>9 DEF Next
<1> QED
  BY <1>1, UseInvInit, CaptureInvariant, PTL DEF Spec

(* For any callers and timers, the count is that of the calls that hold    *)
(* the capture, and where nobody does a timer is under way to retire it.   *)
THEOREM IdleAlwaysTimed == Spec => []IdleIsTimed
<1>1. UseInv => IdleIsTimed
  BY DEF UseInv, Counted, Watched, IdleIsTimed, Using
<1> QED BY <1>1, UseInvariant, PTL

(* No caller sleeps through a frame it has not been given.                 *)
THEOREM FramesAreNotMissed == Spec => []NoMissedFrame
<1>1. UseInv => NoMissedFrame
  BY DEF UseInv
<1> QED BY <1>1, UseInvariant, PTL

(* A loop is retired only by the latest timer, with none armed after it.   *)
THEOREM GraceIsAlwaysTheLast == Spec => GraceIsTheLast
<1>1. UseInv /\ [Next]_vars =>
        [\A g \in fired : (g \notin fired' /\ cancel' # cancel) => \A h \in pending : h < g]_vars
  <2> SUFFICES ASSUME UseInv, Next, NEW g \in fired, g \notin fired', cancel' # cancel,
                      NEW h \in pending
               PROVE  h < g
    OBVIOUS
  <2>1. PICK i \in 1 .. MaxGen : StopIdle(i)
    BY DEF Next, ClientStep, Acquire, AcquireResume, Join, AwaitRetired, Look, Notified, Release, GiveUp,
           Call, IdleStep, Fire, StopIdleRejected, RetireStep, StopIdleCancel, StopIdleDone,
           LoopStep, NoEndpoint, Endpoint, Attempt, AttemptCancelled, Connected, ConnectFailed,
           StreamCancelled, StreamLost, Backoff, Step, Publish, StopIdleClose, Age, ManagerClose,
           CloseStep, CloseMark, CloseCancel, CloseDone, timers, loops
  <2>2. g = i /\ i = idleGen
    BY <2>1 DEF StopIdle
  <2>3. h \in Nat /\ g \in Nat /\ h <= idleGen /\ h # g
    BY <2>2 DEF UseInv, TimersBehind, CaptureInv, TypeOK
  <2> QED
    BY <2>2, <2>3
<1> QED BY <1>1, UseInvariant, PTL DEF Spec, GraceIsTheLast
-----------------------------------------------------------------------------
(***************************************************************************)
(* The capture implements CameraLease.  Every step lends, serves, takes    *)
(* back, publishes, gives up or closes as CameraLease does, or leaves what *)
(* its callers see as it was.                                              *)
(***************************************************************************)
FrameIsThere == fresh => seq > 0

THEOREM FrameInvariant == Spec => []FrameIsThere
<1>1. Init => FrameIsThere
  BY DEF Init, FrameIsThere
<1>2. CaptureInv /\ FrameIsThere /\ [Next]_vars => FrameIsThere'
  <2> SUFFICES ASSUME CaptureInv, FrameIsThere, [Next]_vars PROVE FrameIsThere'
    OBVIOUS
  <2>1. seq \in Nat /\ fresh \in BOOLEAN
    BY DEF CaptureInv, TypeOK
  <2>2. CASE UNCHANGED frames
    BY <2>2 DEF FrameIsThere, frames
  <2>3. CASE \E l \in Loops : Publish(l)
    BY <2>1, <2>3 DEF FrameIsThere, Publish
  <2>4. CASE Age
    BY <2>4 DEF FrameIsThere, Age
  <2>5. UNCHANGED frames \/ (\E l \in Loops : Publish(l)) \/ Age
    BY DEF Next, ClientStep, Acquire, AcquireResume, Look, Notified, Release, GiveUp,
           Call, IdleStep, Fire, StopIdleRejected, StopIdle, RetireStep, StopIdleCancel, StopIdleDone,
           LoopStep, NoEndpoint, Endpoint, Attempt, AttemptCancelled, Connected, ConnectFailed,
           StreamCancelled, StreamLost, Backoff, Step, StopIdleClose, ManagerClose,
           CloseStep, CloseMark, CloseCancel, CloseDone, frames, vars
  <2> QED
    BY <2>2, <2>3, <2>4, <2>5
<1> QED
  BY <1>1, <1>2, CaptureInvariant, PTL DEF Spec

LeaseInv == UseInv /\ FrameIsThere

(* What the callers see, in the terms of the capture.                      *)
LEMMA Seen ==
  ASSUME LeaseInv
  PROVE  /\ Holders = IF closed THEN {} ELSE Using
         /\ Connection = "on" <=> cancel # 0
         /\ Connection = "off" <=> cancel = 0 /\ \A l \in Loops : ~Running(l)
         /\ Connection \in {"on", "off", "draining"}
         /\ Closedness = "no" <=> ~closed
         /\ Closedness = "closed" <=> closed /\ manager = "returned"
         /\ Closedness \in {"no", "closing", "closed"}
BY DEF Holders, Using, Connection, Closedness

LEMMA LeaseStarts == Init => Lease!Init
<1> SUFFICES ASSUME Init PROVE Lease!Init
  OBVIOUS
<1>1. \A l \in Loops : ~Running(l)
  BY DEF Init, Running, Live
<1>2. Holders = {} /\ Connection = "off" /\ Closedness = "no"
  BY <1>1 DEF Init, Holders, Connection, Closedness
<1> QED
  BY <1>2 DEF Init, Lease!Init

(* A step that the callers cannot see.                                     *)
LEMMA Unseen ==
  ASSUME UNCHANGED <<cancel, seq, after, closed>>,
         closed => (manager # "returned" /\ manager' # "returned") \/ UNCHANGED manager,
         closed \/ Using' = Using,
         cancel # 0 \/ UNCHANGED loop
  PROVE  UNCHANGED Lease!leaseVars
<1>1. Holders' = Holders
  BY DEF Holders, Using
<1>2. Connection' = Connection
  BY DEF Connection, Running
<1>3. Closedness' = Closedness
  BY DEF Closedness
<1> QED
  BY <1>1, <1>2, <1>3 DEF Lease!leaseVars

LEMMA JoinTakes ==
  ASSUME LeaseInv, NEW c \in Clients, Acquire(c) \/ AcquireResume(c)
  PROVE  [Lease!Next]_Lease!leaseVars
<1>1. /\ c \notin Using /\ UNCHANGED <<closed, frames, after, manager>>
      /\ client' = [client EXCEPT ![c] = client'[c]] /\ client'[c] \in {"look", "retired"}
  BY DEF Acquire, AcquireResume, Join, AwaitRetired, Using, LeaseInv, UseInv, CaptureInv, TypeOK
<1>2. \A d \in Clients \ {c} : client'[d] = client[d]
  BY <1>1 DEF LeaseInv, UseInv, CaptureInv, TypeOK
<1>3. CASE closed
  <2>1. UNCHANGED loops
    BY <1>3 DEF Acquire, AcquireResume, Join, AwaitRetired
  <2> QED
    BY <1>1, <1>3, <2>1, Unseen DEF frames, loops
<1>4. CASE ~closed /\ cancel = 0 /\ stopping
  <2>1. UNCHANGED loops /\ client'[c] = "retired"
    BY <1>4 DEF Acquire, AcquireResume, AwaitRetired, LeaseInv, UseInv, CaptureInv, TypeOK
  <2>2. Using' = Using
    BY <1>1, <1>2, <2>1 DEF Using
  <2> QED
    BY <1>1, <1>4, <2>1, <2>2, Unseen DEF frames, loops
<1>5. CASE ~closed /\ ~(cancel = 0 /\ stopping)
  <2>1. Join(c) /\ client'[c] = "look"
    BY <1>5 DEF Acquire, AcquireResume, Join, LeaseInv, UseInv, CaptureInv, TypeOK
  <2>2. Using' = Using \cup {c}
    BY <1>1, <1>2, <2>1 DEF Using
  <2>3. Connection # "draining"
    BY <1>5 DEF Connection, LeaseInv, UseInv, CaptureInv, Core, StoppedLoop
  <2>4. cancel' # 0
    <3>1. CASE cancel # 0
      BY <1>5, <2>1, <3>1 DEF Join, loops
    <3>2. CASE cancel = 0
      <4>1. cancel' = done + 1
        BY <1>5, <2>1, <3>2 DEF Join
      <4>2. done \in Nat
        BY CaptureAssumption DEF LeaseInv, UseInv, CaptureInv, TypeOK
      <4> QED
        BY <4>1, <4>2
    <3> QED
      BY <3>1, <3>2
  <2>5. /\ Holders = Using /\ Holders' = Using' /\ Closedness = "no" /\ Closedness' = "no"
        /\ Connection' = "on"
    BY <1>1, <1>5, <2>4 DEF Holders, Using, Closedness, Connection
  <2>6. Lease!Take(c)
    BY <1>1, <2>2, <2>3, <2>5 DEF Lease!Take, frames
  <2> QED
    BY <2>6 DEF Lease!Next
<1> QED
  BY <1>3, <1>4, <1>5

LEMMA LookServes ==
  ASSUME LeaseInv, NEW c \in Clients, Look(c)
  PROVE  [Lease!Next]_Lease!leaseVars
<1>1. UNCHANGED <<closed, manager, frames, loops>> /\ c \in Using
  BY DEF Look, Using
<1>2. Using' = Using
  <2>1. client'[c] \in {"leave", "select"} /\ \A d \in Clients \ {c} : client'[d] = client[d]
    BY DEF Look, LeaseInv, UseInv, CaptureInv, TypeOK
  <2> QED
    BY <1>1, <2>1 DEF Using
<1>3. CASE closed \/ ~Satisfied(c)
  <2>1. after' = after
    <3>1. CASE closed
      BY <3>1 DEF Look, LeaseInv, UseInv, CaptureInv, TypeOK
    <3>2. CASE ~closed /\ ~Satisfied(c)
      BY <3>2 DEF Look
    <3> QED
      BY <1>3, <3>1, <3>2
  <2> QED
    BY <1>1, <1>2, <2>1, Unseen DEF frames, loops
<1>4. CASE ~closed /\ Satisfied(c)
  <2>1. after' = [after EXCEPT ![c] = seq]
    BY <1>4 DEF Look
  <2>2. seq > 0
    <3>1. seq \in Nat /\ after[c] \in Nat
      BY DEF LeaseInv, UseInv, CaptureInv, TypeOK
    <3> QED
      BY <1>4, <3>1 DEF Satisfied, LeaseInv, FrameIsThere
  <2>3. Holders = Using /\ Holders' = Holders /\ Connection' = Connection /\ Closedness' = Closedness
    BY <1>1, <1>2, <1>4 DEF Holders, Using, Connection, Running, Closedness, loops
  <2>4. Lease!Serve(c)
    BY <1>1, <2>1, <2>2, <2>3 DEF Lease!Serve, frames
  <2> QED
    BY <2>4 DEF Lease!Next
<1> QED
  BY <1>3, <1>4

LEMMA ReleaseReturns ==
  ASSUME LeaseInv, NEW c \in Clients, Release(c)
  PROVE  [Lease!Next]_Lease!leaseVars
<1>1. /\ c \in Using /\ client'[c] = "out" /\ UNCHANGED <<closed, manager, frames, loops, after>>
      /\ \A d \in Clients \ {c} : client'[d] = client[d]
  BY DEF Release, Using, LeaseInv, UseInv, CaptureInv, TypeOK
<1>2. Using' = Using \ {c}
  BY <1>1 DEF Using
<1>3. CASE closed
  BY <1>1, <1>3, Unseen DEF frames, loops
<1>4. CASE ~closed
  <2>1. /\ Holders = Using /\ Holders' = Using' /\ Connection' = Connection /\ Closedness' = Closedness
    BY <1>1, <1>4 DEF Holders, Using, Connection, Running, Closedness, loops
  <2>2. Lease!Return(c)
    BY <1>1, <1>2, <2>1 DEF Lease!Return, frames
  <2> QED
    BY <2>2 DEF Lease!Next
<1> QED
  BY <1>3, <1>4

(* The callback of an idle timer gives the camera up with nobody on it.    *)
LEMMA StopIdleRetires ==
  ASSUME LeaseInv, NEW g \in 1 .. MaxGen, StopIdle(g)
  PROVE  [Lease!Next]_Lease!leaseVars
<1>1. /\ ~closed /\ consumers = 0 /\ cancel # 0 /\ cancel' = 0
      /\ UNCHANGED <<closed, manager, frames, loop, after, client>>
  BY DEF StopIdle, callers
<1>2. Using = {}
  <2>1. Cardinality(Using) = 0
    BY <1>1 DEF LeaseInv, UseInv, Counted
  <2> QED
    BY <2>1, UsingIsFinite, FS_EmptySet
<1>3. /\ Holders = {} /\ Holders' = {} /\ Closedness = "no" /\ Closedness' = "no"
      /\ Connection = "on" /\ Connection' \in {"draining", "off"}
  BY <1>1, <1>2 DEF Holders, Using, Closedness, Connection
<1>4. Lease!Retire
  BY <1>1, <1>3 DEF Lease!Retire, frames
<1> QED
  BY <1>4 DEF Lease!Next

(* A loop that goes on is not seen, nor is the end of one that is not      *)
(* being stopped; the end of one that is lets the camera be lent again.    *)
LEMMA LoopDrains ==
  ASSUME LeaseInv, NEW l \in Loops, LoopStep(l)
  PROVE  [Lease!Next]_Lease!leaseVars
<1>1. /\ UNCHANGED <<closed, manager, frames, cancel, after, client>>
      /\ Running(l)
  BY DEF LoopStep, NoEndpoint, Endpoint, Attempt, AttemptCancelled, Connected, ConnectFailed,
         StreamCancelled, StreamLost, Backoff, Step, Running, Live, callers
<1>2. Holders' = Holders /\ Closedness' = Closedness
  BY <1>1 DEF Holders, Closedness
<1>3. CASE Connection' = Connection
  BY <1>1, <1>2, <1>3 DEF Lease!leaseVars, frames
<1>4. CASE Connection' # Connection
  <2>1. Connection = "draining" /\ Connection' = "off"
    BY <1>1, <1>4 DEF Connection
  <2>2. Lease!Drained
    BY <1>1, <1>2, <2>1 DEF Lease!Drained, frames
  <2> QED
    BY <2>2 DEF Lease!Next
<1> QED
  BY <1>3, <1>4

LEMMA PublishPublishes ==
  ASSUME LeaseInv, NEW l \in Loops, Publish(l)
  PROVE  [Lease!Next]_Lease!leaseVars
<1>1. /\ UNCHANGED <<closed, manager, cancel, loop, after, client>>
      /\ ~closed /\ Running(l) /\ seq' = seq + 1
  BY DEF Publish, Running, Live, loops, callers
<1>2. /\ Holders' = Holders /\ Closedness' = Closedness /\ Connection' = Connection
      /\ Closedness = "no" /\ Connection # "off"
  BY <1>1 DEF Holders, Closedness, Connection, Running
<1>3. Lease!Publish
  BY <1>1, <1>2 DEF Lease!Publish
<1> QED
  BY <1>3 DEF Lease!Next

(* Close takes the camera from everyone and ends when no loop holds it.    *)
LEMMA CloseShuts ==
  ASSUME LeaseInv, CloseStep
  PROVE  [Lease!Next]_Lease!leaseVars
<1>1. CASE CloseMark
  <2>1. /\ manager = "closed" /\ closed' /\ cancel' = 0 /\ ~closed
        /\ UNCHANGED <<frames, loop, after>>
    BY <1>1 DEF CloseMark, LeaseInv, UseInv, CaptureInv, Core, Closing, callers
  <2>2. Holders' = {} /\ Closedness = "no" /\ Closedness' \in {"closing", "closed"}
    BY <2>1 DEF Holders, Closedness
  <2>3. Connection' \in {"draining", "off"} /\ (cancel = 0 => Connection' = Connection)
    BY <2>1 DEF Connection, Running
  <2>4. Connection = "on" <=> cancel # 0
    BY DEF Connection
  <2>5. ASSUME Closedness' = "closed" PROVE Connection' = "off"
    <3>1. manager' = "returned"
      BY <2>1, <2>5 DEF Closedness
    <3>2. cancel = 0 /\ ~stopping
      BY <1>1, <3>1 DEF CloseMark
    <3>3. \A l \in Loops : ~Running(l)
      BY <2>1, <3>2 DEF LeaseInv, UseInv, CaptureInv, Core, StoppedLoop
    <3> QED
      BY <2>3, <3>2, <3>3 DEF Connection
  <2>6. Lease!Shut
    BY <2>1, <2>2, <2>3, <2>4, <2>5 DEF Lease!Shut, frames
  <2> QED
    BY <2>6 DEF Lease!Next
<1>2. CASE CloseCancel
  <2>1. UNCHANGED <<closed, cancel, frames, loop, after, client>> /\ manager = "cancel" /\ manager' = "wait"
    BY <1>2 DEF CloseCancel, callers
  <2> QED
    BY <2>1, Unseen DEF frames, Using
<1>3. CASE CloseDone
  <2>1. /\ manager = "wait" /\ loop[done] \in {"failed", "exited"} /\ manager' = "returned"
        /\ UNCHANGED <<closed, cancel, frames, loop, after, client>>
    BY <1>3 DEF CloseDone, loops, callers
  <2>2. closed /\ cancel = 0 /\ \A l \in Loops : ~Running(l)
    BY <2>1 DEF LeaseInv, UseInv, CaptureInv, Core, Closing, LatestOnly, Running, Live
  <2>3. /\ Holders = {} /\ Holders' = {} /\ Connection = "off" /\ Connection' = "off"
        /\ Closedness = "closing" /\ Closedness' = "closed"
    BY <2>1, <2>2 DEF Holders, Connection, Closedness, Running
  <2>4. Lease!Closed
    BY <2>1, <2>3 DEF Lease!Closed, frames
  <2> QED
    BY <2>4 DEF Lease!Next
<1> QED
  BY <1>1, <1>2, <1>3 DEF CloseStep

LEMMA LeaseSteps == LeaseInv /\ [Next]_vars => [Lease!Next]_Lease!leaseVars
<1> SUFFICES ASSUME LeaseInv, [Next]_vars PROVE [Lease!Next]_Lease!leaseVars
  OBVIOUS
<1>1. CASE UNCHANGED vars
  BY <1>1, Unseen DEF vars, Using
<1>2. ASSUME NEW c \in Clients, ClientStep(c) PROVE [Lease!Next]_Lease!leaseVars
  <2>1. CASE Notified(c)
    <3>1. Using' = Using
      BY <2>1 DEF Notified, Using, LeaseInv, UseInv, CaptureInv, TypeOK
    <3> QED
      BY <2>1, <3>1, Unseen DEF Notified, frames, loops
  <2> QED
    BY <1>2, <2>1, JoinTakes, LookServes, ReleaseReturns DEF ClientStep
<1>3. ASSUME NEW c \in Clients, GiveUp(c) \/ \E k \in Kinds : Call(c, k)
      PROVE  [Lease!Next]_Lease!leaseVars
  <2>1. Using' = Using
    BY <1>3 DEF GiveUp, Call, Using, LeaseInv, UseInv, CaptureInv, TypeOK
  <2>2. UNCHANGED <<closed, manager, frames, loops, after>>
    BY <1>3 DEF GiveUp, Call
  <2> QED
    BY <2>1, <2>2, Unseen DEF frames, loops
<1>4. ASSUME NEW g \in 1 .. MaxGen, IdleStep(g) PROVE [Lease!Next]_Lease!leaseVars
  <2>1. CASE Fire(g) \/ StopIdleRejected(g)
    <3>1. UNCHANGED <<closed, manager, frames, loops, callers>>
      BY <2>1 DEF Fire, StopIdleRejected
    <3> QED
      BY <3>1, Unseen DEF frames, loops, callers, Using
  <2> QED
    BY <1>4, <2>1, StopIdleRetires DEF IdleStep
<1>5. ASSUME NEW l \in Loops, RetireStep(l) PROVE [Lease!Next]_Lease!leaseVars
  <2>1. UNCHANGED <<closed, manager, frames, cancel, loop, callers>>
    BY <1>5 DEF RetireStep, StopIdleCancel, StopIdleDone, loops
  <2> QED
    BY <2>1, Unseen DEF frames, callers, Using
<1>6. ASSUME NEW ch \in 0 .. MaxLoops, StopIdleClose(ch) PROVE [Lease!Next]_Lease!leaseVars
  <2>1. UNCHANGED <<closed, manager, frames, loops, callers>>
    BY <1>6 DEF StopIdleClose
  <2> QED
    BY <2>1, Unseen DEF frames, loops, callers, Using
<1>7. CASE Age
  <2>1. UNCHANGED <<closed, manager, seq, loops, callers>>
    BY <1>7 DEF Age
  <2> QED
    BY <2>1, Unseen DEF loops, callers, Using
<1>8. CASE ManagerClose
  <2>1. UNCHANGED <<closed, frames, loops, callers>> /\ ~closed
    BY <1>8 DEF ManagerClose, LeaseInv, UseInv, CaptureInv, Core, Closing
  <2> QED
    BY <2>1, Unseen DEF frames, loops, callers, Using
<1> QED
  BY <1>1, <1>2, <1>3, <1>4, <1>5, <1>6, <1>7, <1>8, LoopDrains, PublishPublishes, CloseShuts DEF Next

(* Whatever the order of calls, timers, retirements, lost connections and  *)
(* Close, the callers of a capture see the camera lent as CameraLease      *)
(* promises, for any number of callers.                                    *)
THEOREM CaptureImplementsLease == Spec => LeaseKept
<1>1. Spec => []LeaseInv
  BY UseInvariant, FrameInvariant, PTL DEF LeaseInv
<1> QED
  BY <1>1, LeaseStarts, LeaseSteps, PTL DEF Spec, LeaseKept, Lease!Spec

(* What a caller may rely on follows from the promise alone: who holds the *)
(* camera has a connection that nobody gives up, a closed capture stays    *)
(* off, and nobody was given a frame that is not there.                    *)
THEOREM AlwaysLent == Spec => []Lease!Lent
<1>1. Lease!Init => Lease!Lent
  BY DEF Lease!Init, Lease!Lent
<1>2. TypeOK /\ Lease!Lent /\ [Lease!Next]_Lease!leaseVars => (Lease!Lent)'
  <2> SUFFICES ASSUME TypeOK, Lease!Lent, [Lease!Next]_Lease!leaseVars PROVE (Lease!Lent)'
    OBVIOUS
  <2> HIDE DEF Lease!Lent
  <2>1. seq \in Nat /\ after \in [Clients -> Nat]
    BY DEF TypeOK
  <2>2. CASE UNCHANGED Lease!leaseVars
    BY <2>2 DEF Lease!leaseVars, Lease!Lent
  <2>3. ASSUME NEW c \in Clients, Lease!Take(c) \/ Lease!Serve(c) \/ Lease!Return(c) PROVE (Lease!Lent)'
    <3>1. CASE Lease!Take(c)
      BY <3>1 DEF Lease!Take, Lease!Lent
    <3>2. CASE Lease!Serve(c)
      BY <2>1, <3>2 DEF Lease!Serve, Lease!Lent
    <3>3. CASE Lease!Return(c)
      BY <3>3 DEF Lease!Return, Lease!Lent
    <3> QED
      BY <2>3, <3>1, <3>2, <3>3
  <2>4. CASE Lease!Publish
    BY <2>1, <2>4 DEF Lease!Publish, Lease!Lent
  <2>5. CASE Lease!Retire \/ Lease!Drained
    BY <2>5 DEF Lease!Retire, Lease!Drained, Lease!Lent
  <2>6. CASE Lease!Shut
    BY <2>6 DEF Lease!Shut, Lease!Lent
  <2>7. CASE Lease!Closed
    BY <2>7 DEF Lease!Closed, Lease!Lent
  <2> QED
    BY <2>2, <2>3, <2>4, <2>5, <2>6, <2>7 DEF Lease!Next
<1> QED
  BY <1>1, <1>2, TypeCorrect, CaptureImplementsLease, PTL DEF LeaseKept, Lease!Spec

-----------------------------------------------------------------------------
(* Who is blocked waits for a step that somebody still owes: a caller held *)
(* up by a retirement for its channel, which is closed or is the one the   *)
(* retirement under way will close;                                        *)
WaitersHeard ==
  \A c \in Clients :
    client[c] = "retired" => channel[c] \in gone \cup toClose \/ (stopping /\ channel[c] = retired)

(* the flag for the callback that set it, which waits only for a loop it   *)
(* has cancelled;                                                          *)
RetirementGoesOn ==
  /\ stopping => done \in Loops /\ retiring[done] \in {"cancel", "wait"}
  /\ \A l \in Loops : retiring[l] = "wait" => l \in cancelled

(* and Close for a loop that has ended, is cancelled or is about to be.    *)
CloseGoesOn ==
  manager = "wait" => \/ loop[done] \in {"failed", "exited"}
                      \/ done \in cancelled
                      \/ retiring[done] = "cancel"

NobodyInVain == WaitersHeard /\ RetirementGoesOn /\ CloseGoesOn

LEMMA UnheldKeeps ==
  ASSUME NobodyInVain,
         UNCHANGED <<retirement, loops, manager>>,
         \A c \in Clients : client'[c] = "retired" =>
           \/ client[c] = "retired" /\ channel'[c] = channel[c]
           \/ stopping /\ channel'[c] = retired
  PROVE  NobodyInVain'
BY DEF NobodyInVain, WaitersHeard, RetirementGoesOn, CloseGoesOn, retirement, loops

(* A caller joins, and starts a loop only when none retires; or it is held *)
(* up by the retirement under way.                                         *)
LEMMA AcquireHeard ==
  ASSUME CaptureInv, NobodyInVain, NEW c \in Clients, Acquire(c) \/ AcquireResume(c)
  PROVE  NobodyInVain'
<1>1. TypeOK /\ Core /\ UNCHANGED <<retirement, manager>>
  BY DEF CaptureInv, Acquire, AcquireResume
<1>2. CASE AwaitRetired(c) /\ stopping
  <2>1. /\ UNCHANGED loops /\ channel'[c] = retired
        /\ \A d \in Clients \ {c} : client'[d] = client[d] /\ channel'[d] = channel[d]
    BY <1>1, <1>2 DEF AwaitRetired, TypeOK
  <2> QED
    BY <1>1, <1>2, <2>1, UnheldKeeps
<1>3. CASE Join(c)
  <2>1. client'[c] = "look" /\ channel' = channel /\ \A d \in Clients \ {c} : client'[d] = client[d]
    BY <1>1, <1>3 DEF Join, TypeOK
  <2>2. CASE UNCHANGED loops
    BY <1>1, <2>1, <2>2, UnheldKeeps
  <2>3. CASE ~UNCHANGED loops
    <3>1. /\ ~closed /\ cancel = 0 /\ UNCHANGED cancelled
      BY <1>3, <2>3 DEF Join
    <3>2. ~stopping
      BY <2>3, <3>1 DEF Acquire, AcquireResume, AwaitRetired
    <3>3. manager # "wait"
      BY <1>1, <3>1 DEF Core, Closing
    <3> QED
      BY <1>1, <2>1, <3>1, <3>2, <3>3
      DEF NobodyInVain, WaitersHeard, RetirementGoesOn, CloseGoesOn, retirement
  <2> QED
    BY <2>2, <2>3
<1>4. Join(c) \/ (AwaitRetired(c) /\ stopping)
  BY DEF Acquire, AcquireResume
<1> QED
  BY <1>2, <1>3, <1>4

(* The callback takes over a loop while no other retirement is under way.  *)
LEMMA StopIdleHeard ==
  ASSUME CaptureInv, NobodyInVain, NEW g \in 1 .. MaxGen, StopIdle(g)
  PROVE  NobodyInVain'
<1>1. TypeOK /\ Core /\ cancel \in Loops /\ cancel = done /\ ~stopping /\ ~closed
  BY CaptureAssumption DEF CaptureInv, StopIdle, TypeOK, Loops, Core, LatestOnly, OneRetirement
<1>2. /\ stopping' = TRUE /\ retiring'[done] = "cancel" /\ done' = done /\ manager' = manager
      /\ UNCHANGED <<cancelled, toClose, gone, callers>>
      /\ \A l \in Loops \ {done} : retiring'[l] = retiring[l]
  BY <1>1 DEF StopIdle, TypeOK
<1>3. WaitersHeard'
  BY <1>1, <1>2 DEF NobodyInVain, WaitersHeard, callers
<1>4. RetirementGoesOn' /\ CloseGoesOn'
  BY <1>1, <1>2 DEF NobodyInVain, RetirementGoesOn, CloseGoesOn
<1> QED
  BY <1>3, <1>4 DEF NobodyInVain

(* It cancels the loop, waits for its end, and closes the channel.         *)
LEMMA RetireHeard ==
  ASSUME CaptureInv, NobodyInVain,
         (\E l \in Loops : RetireStep(l)) \/ (\E ch \in 0 .. MaxLoops : StopIdleClose(ch))
  PROVE  NobodyInVain'
<1>1. TypeOK /\ Core
  BY DEF CaptureInv
<1>2. ASSUME NEW l \in Loops, StopIdleCancel(l) PROVE NobodyInVain'
  <2>1. /\ l = done /\ stopping /\ retiring'[l] = "wait" /\ l \in cancelled' /\ cancelled \subseteq cancelled'
        /\ \A m \in Loops \ {l} : retiring'[m] = retiring[m]
        /\ UNCHANGED <<stopping, retired, toClose, gone, callers, done, loop, manager>>
    BY <1>1, <1>2 DEF StopIdleCancel, Core, OneRetirement, TypeOK
  <2> QED
    BY <2>1 DEF NobodyInVain, WaitersHeard, RetirementGoesOn, CloseGoesOn, callers
<1>3. ASSUME NEW l \in Loops, StopIdleDone(l) PROVE NobodyInVain'
  <2>1. /\ l = done /\ loop[done] \in {"failed", "exited"} /\ stopping' = FALSE
        /\ retired \in toClose' /\ toClose \subseteq toClose' /\ retiring'[l] = "over"
        /\ \A m \in Loops \ {l} : retiring'[m] = retiring[m]
        /\ UNCHANGED <<retired, gone, callers, loops, manager>>
    BY <1>1, <1>3 DEF StopIdleDone, Core, OneRetirement, TypeOK
  <2> QED
    BY <2>1 DEF NobodyInVain, WaitersHeard, RetirementGoesOn, CloseGoesOn, callers, loops
<1>4. ASSUME NEW ch \in 0 .. MaxLoops, StopIdleClose(ch) PROVE NobodyInVain'
  <2>1. /\ gone' \cup toClose' = gone \cup toClose
        /\ UNCHANGED <<stopping, retired, retiring, callers, loops, manager>>
    BY <1>4 DEF StopIdleClose
  <2> QED
    BY <2>1 DEF NobodyInVain, WaitersHeard, RetirementGoesOn, CloseGoesOn, callers, loops
<1> QED
  BY <1>2, <1>3, <1>4 DEF RetireStep

(* A loop that has ended stays ended.                                      *)
LEMMA LoopHeard ==
  ASSUME CaptureInv, NobodyInVain, NEW l \in Loops, LoopStep(l)
  PROVE  NobodyInVain'
<1>1. /\ UNCHANGED <<retirement, cancel, done, cancelled, callers, manager>>
      /\ loop[l] \notin {"failed", "exited"}
      /\ \A m \in Loops \ {l} : loop'[m] = loop[m]
  BY DEF CaptureInv, TypeOK, LoopStep, NoEndpoint, Endpoint, Attempt, AttemptCancelled, Connected,
    ConnectFailed, StreamCancelled, StreamLost, Backoff, Step
<1>2. manager = "wait" => done \in Loops
  BY CaptureAssumption DEF CaptureInv, TypeOK, Core, Closing, Loops
<1> QED
  BY <1>1, <1>2 DEF NobodyInVain, WaitersHeard, RetirementGoesOn, CloseGoesOn, retirement, callers

LEMMA CloseHeard ==
  ASSUME CaptureInv, NobodyInVain, ManagerClose \/ CloseStep
  PROVE  NobodyInVain'
<1>1. UNCHANGED <<retirement, done, loop, callers>> /\ cancelled \subseteq cancelled'
  BY DEF ManagerClose, CloseStep, CloseMark, CloseCancel, CloseDone, loops
<1>2. WaitersHeard' /\ RetirementGoesOn'
  BY <1>1 DEF NobodyInVain, WaitersHeard, RetirementGoesOn, retirement, callers
<1>3. CloseGoesOn'
  <2>1. CASE CloseMark
    BY <1>1, <2>1 DEF CloseMark, NobodyInVain, RetirementGoesOn, CloseGoesOn, retirement
  <2>2. CASE CloseCancel
    BY <1>1, <2>2 DEF CloseCancel, CloseGoesOn
  <2>3. CASE ManagerClose \/ CloseDone
    BY <2>3 DEF ManagerClose, CloseDone, CloseGoesOn
  <2> QED
    BY <2>1, <2>2, <2>3 DEF CloseStep
<1> QED
  BY <1>2, <1>3 DEF NobodyInVain

(* No caller, no retirement and no Close waits for something nobody will   *)
(* do, however the idle stop, a new caller and Close meet (acquire,        *)
(* stopIdle, close): what CloseEnds and IdleStops need besides fairness.   *)
THEOREM NobodyWaitsInVain == Spec => []NobodyInVain
<1>1. Init => NobodyInVain
  <2> SUFFICES ASSUME Init PROVE NobodyInVain
    OBVIOUS
  <2> QED
    BY DEF Init, NobodyInVain, WaitersHeard, RetirementGoesOn, CloseGoesOn
<1>2. CaptureInv /\ NobodyInVain /\ [Next]_vars => NobodyInVain'
  <2> SUFFICES ASSUME CaptureInv, NobodyInVain, [Next]_vars PROVE NobodyInVain'
    OBVIOUS
  <2>1. ASSUME NEW c \in Clients, ClientStep(c) \/ GiveUp(c) \/ \E k \in Kinds : Call(c, k)
        PROVE  NobodyInVain'
    <3>1. CASE Acquire(c) \/ AcquireResume(c)
      BY <3>1, AcquireHeard
    <3>2. CASE Look(c) \/ Notified(c) \/ GiveUp(c) \/ Release(c) \/ \E k \in Kinds : Call(c, k)
      <4>1. /\ UNCHANGED <<retirement, loops, manager>> /\ client'[c] # "retired"
            /\ \A d \in Clients \ {c} : client'[d] = client[d] /\ channel'[d] = channel[d]
        BY <3>2 DEF Look, Notified, GiveUp, Release, Call, CaptureInv, TypeOK
      <4> QED
        BY <4>1, UnheldKeeps
    <3> QED
      BY <2>1, <3>1, <3>2 DEF ClientStep
  <2>2. CASE \E g \in 1 .. MaxGen : Fire(g) \/ StopIdleRejected(g)
    BY <2>2, UnheldKeeps DEF Fire, StopIdleRejected, callers
  <2>3. CASE Age \/ \E l \in Loops : Publish(l)
    BY <2>3, UnheldKeeps DEF Age, Publish, callers
  <2>4. CASE UNCHANGED vars
    BY <2>4, UnheldKeeps DEF vars, retirement, loops
  <2> QED
    BY <2>1, <2>2, <2>3, <2>4, StopIdleHeard, RetireHeard, LoopHeard, CloseHeard DEF Next, IdleStep
<1> QED
  BY <1>1, <1>2, CaptureInvariant, PTL DEF Spec
=============================================================================
