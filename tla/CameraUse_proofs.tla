--------------------------- MODULE CameraUse_proofs ---------------------------
(***************************************************************************)
(* Slots, camera references and sockets are returned, for any number of    *)
(* calls, raw clients and slots and any frame budget.                      *)
(*                                                                         *)
(* CamerasReturned is not inductive: that Close has closed the socket of   *)
(* every running session rests on where each session is registered.        *)
(* SessionFits says it of one session: before Close began it is in the     *)
(* registry, after it in the set Close took, unless it has none yet.       *)
(***************************************************************************)
EXTENDS CameraUse, FiniteSetTheorems, TLAPS

SessionRecords ==
  [step : Steps, watched : BOOLEAN, socket : BOOLEAN, cancelled : BOOLEAN, left : 0 .. Budget, unserved : Nat]

Fresh == {"none", "accepted"}

SessionFits(s, v, reg, e) ==
  /\ v \in SessionRecords
  /\ v.step = "none" => v = [NoSession EXCEPT !.watched = v.watched]
  /\ v.step = "accepted" => ~v.watched /\ e.loop /\ s \notin e.taken
  /\ v.step \in Fresh => s \notin reg
  /\ v.step \notin Fresh => IF e.closed THEN s \in e.taken ELSE s \in reg
  /\ e.close \in {"join", "returned"} /\ s \in e.taken => ~v.socket
  /\ e.close = "returned" => v = NoSession
  /\ v.step = "stream" => v.left + v.unserved = Budget
  /\ v.step \in {"none", "accepted", "auth", "acquire"} => v.unserved = 0
  /\ v.unserved <= Budget

SessionsFit == \A s \in Sockets : SessionFits(s, session[s], registry, endpoint)

EndpointFits ==
  /\ endpoint.closed <=> endpoint.close # "none"
  /\ endpoint.close \in {"sockets", "join", "returned"} => ~endpoint.listening
  /\ endpoint.close = "returned" => ~endpoint.loop

UseInv == UseTypes /\ Balanced /\ SessionsFit /\ EndpointFits
-----------------------------------------------------------------------------
(* A member moves into a set that is counted, out of it, or in it.         *)
LEMMA Counted ==
  ASSUME NEW S, IsFiniteSet(S), NEW A \in SUBSET S, NEW x \in S
  PROVE  /\ IsFiniteSet(A) /\ Cardinality(A) \in Nat
         /\ x \notin A => Cardinality(A \cup {x}) = Cardinality(A) + 1
         /\ x \in A => Cardinality(A \ {x}) = Cardinality(A) - 1 /\ Cardinality(A) > 0
<1>1. IsFiniteSet(A)
  BY FS_Subset
<1>2. Cardinality(A) \in Nat
  BY <1>1, FS_CardinalityType
<1>3. x \notin A => Cardinality(A \cup {x}) = Cardinality(A) + 1
  BY <1>1, FS_AddElement
<1>4. x \in A => Cardinality(A \ {x}) = Cardinality(A) - 1
  BY <1>1, FS_RemoveElement
<1>5. x \in A => Cardinality(A) > 0
  BY <1>1, <1>2, FS_EmptySet
<1> QED
  BY <1>1, <1>2, <1>3, <1>4, <1>5

LEMMA UseInvInit == UseInit => UseInv
<1> SUFFICES ASSUME UseInit
             PROVE  UseInv
  OBVIOUS
<1>1. CallsSlotted = {} /\ CallsHolding = {} /\ SessionsHolding = {}
  BY DEF UseInit, CallsSlotted, CallsHolding, SessionsHolding, NoSession
<1>2. Balanced
  BY <1>1, FS_EmptySet DEF UseInit, Balanced
<1>3. NoSession \in SessionRecords
  BY UseAssumption DEF NoSession, SessionRecords, Steps
<1>4. endpoint = [closed |-> FALSE, listening |-> TRUE, loop |-> TRUE, close |-> "none", taken |-> {}]
  BY DEF UseInit
<1>5. SessionsFit
  BY <1>3, <1>4, UseAssumption DEF UseInit, SessionsFit, SessionFits, NoSession, Fresh
<1>6. UseTypes
  BY <1>3, <1>4, UseAssumption DEF UseInit, UseTypes, SessionRecords
<1>7. EndpointFits
  BY <1>4 DEF EndpointFits
<1> QED
  BY <1>2, <1>5, <1>6, <1>7 DEF UseInv
-----------------------------------------------------------------------------
(* A snapshot call: both counts follow it.                                 *)
LEMMA CallKeeps ==
  ASSUME UseInv, NEW c \in Calls, Call(c)
  PROVE  UseInv'
<1> DEFINE Where == {"none", "waiting", "slotted", "holding", "release", "leave"}
           Slotted == {"slotted", "holding", "release", "leave"}
           Holding == {"holding", "release"}
<1>1. /\ call \in [Calls -> Where] /\ slots \in 0 .. Slots /\ refs \in Nat
      /\ session' = session /\ registry' = registry /\ endpoint' = endpoint
  BY DEF UseInv, UseTypes, Call, AskSnapshot, TakeSlot, NoSlot, AcquireForCall, FrameOrNot,
         ReleaseFromCall, FreeSlot
<1>2. PICK to \in Where : call' = [call EXCEPT ![c] = to]
  BY DEF Call, AskSnapshot, TakeSlot, NoSlot, AcquireForCall, FrameOrNot, ReleaseFromCall, FreeSlot, Go
<1>3. call' \in [Calls -> Where] /\ call'[c] = to /\ \A d \in Calls \ {c} : call'[d] = call[d]
  BY <1>1, <1>2
<1>4. CallsSlotted' = (IF to \in Slotted THEN CallsSlotted \cup {c} ELSE CallsSlotted \ {c})
  BY <1>3 DEF CallsSlotted
<1>5. CallsHolding' = (IF to \in Holding THEN CallsHolding \cup {c} ELSE CallsHolding \ {c})
  BY <1>3 DEF CallsHolding
<1>6. SessionsHolding' = SessionsHolding
  BY <1>1 DEF SessionsHolding
<1>7. /\ Cardinality(CallsSlotted) \in Nat /\ Cardinality(CallsHolding) \in Nat
      /\ c \notin CallsSlotted => Cardinality(CallsSlotted \cup {c}) = Cardinality(CallsSlotted) + 1
      /\ c \in CallsSlotted => Cardinality(CallsSlotted \ {c}) = Cardinality(CallsSlotted) - 1
                               /\ Cardinality(CallsSlotted) > 0
      /\ c \notin CallsHolding => Cardinality(CallsHolding \cup {c}) = Cardinality(CallsHolding) + 1
      /\ c \in CallsHolding => Cardinality(CallsHolding \ {c}) = Cardinality(CallsHolding) - 1
                               /\ Cardinality(CallsHolding) > 0
  <2>1. CallsSlotted \in SUBSET Calls /\ CallsHolding \in SUBSET Calls
    BY DEF CallsSlotted, CallsHolding
  <2> QED
    BY <2>1, UseAssumption, Counted
<1>8. Cardinality(SessionsHolding) \in Nat
  <2>1. SessionsHolding \in SUBSET Sockets
    BY DEF SessionsHolding
  <2> QED
    BY <2>1, UseAssumption, FS_Subset, FS_CardinalityType
<1>9. /\ refs = Cardinality(CallsHolding) + Cardinality(SessionsHolding)
      /\ slots = Cardinality(CallsSlotted)
  BY DEF UseInv, Balanced
<1>10. (c \in CallsSlotted <=> call[c] \in Slotted) /\ (c \in CallsHolding <=> call[c] \in Holding)
  BY DEF CallsSlotted, CallsHolding
<1>11. slots' \in 0 .. Slots /\ slots' = Cardinality(CallsSlotted')
  <2>1. CASE TakeSlot(c)
    <3>1. /\ slots' = slots + 1 /\ slots < Slots /\ call[c] = "waiting"
          /\ call'[c] = "slotted"
      BY <2>1, <1>1 DEF TakeSlot, Go
    <3> QED
      BY <3>1, <1>1, <1>3, <1>4, <1>7, <1>9, <1>10, UseAssumption
  <2>2. CASE FreeSlot(c)
    <3>1. slots' = slots - 1 /\ call[c] = "leave" /\ call'[c] = "none"
      BY <2>2, <1>1 DEF FreeSlot, Go
    <3> QED
      BY <3>1, <1>1, <1>3, <1>4, <1>7, <1>9, <1>10, UseAssumption
  <2>3. CASE AskSnapshot(c) \/ NoSlot(c) \/ AcquireForCall(c) \/ FrameOrNot(c) \/ ReleaseFromCall(c)
    <3>1. slots' = slots /\ (call[c] \in Slotted <=> call'[c] \in Slotted)
      BY <2>3, <1>1 DEF AskSnapshot, NoSlot, AcquireForCall, FrameOrNot, ReleaseFromCall, Go
    <3>2. CallsSlotted' = CallsSlotted
      BY <3>1, <1>3, <1>4, <1>10
    <3> QED
      BY <3>1, <3>2, <1>1, <1>9
  <2> QED
    BY <2>1, <2>2, <2>3 DEF Call
<1>12. refs' \in Nat /\ refs' = Cardinality(CallsHolding') + Cardinality(SessionsHolding')
  <2>1. CASE AcquireForCall(c) /\ refs' = refs + 1 /\ call'[c] = "holding"
    <3>1. call[c] = "slotted"
      BY <2>1 DEF AcquireForCall, Go
    <3> QED
      BY <3>1, <2>1, <1>1, <1>3, <1>5, <1>6, <1>7, <1>8, <1>9, <1>10
  <2>2. CASE ReleaseFromCall(c)
    <3>1. refs' = refs - 1 /\ call[c] = "release" /\ call'[c] = "leave"
      BY <2>2, <1>1 DEF ReleaseFromCall, Go
    <3> QED
      BY <3>1, <1>1, <1>3, <1>5, <1>6, <1>7, <1>8, <1>9, <1>10
  <2>3. CASE refs' = refs /\ (call[c] \in Holding <=> call'[c] \in Holding)
    <3>1. CallsHolding' = CallsHolding
      BY <2>3, <1>3, <1>5, <1>10
    <3> QED
      BY <3>1, <2>3, <1>1, <1>6, <1>9
  <2> QED
    BY <2>1, <2>2, <2>3, <1>1
       DEF Call, AskSnapshot, TakeSlot, NoSlot, AcquireForCall, FrameOrNot, FreeSlot, Go
<1>13. UseTypes'
  BY <1>1, <1>3, <1>11, <1>12 DEF UseInv, UseTypes
<1>14. Balanced'
  BY <1>11, <1>12 DEF Balanced
<1> QED
  BY <1>1, <1>13, <1>14 DEF UseInv, SessionsFit, EndpointFits
-----------------------------------------------------------------------------
(* One session takes a step to v: it fits, and the references follow it.   *)
LEMMA SessionStep ==
  ASSUME UseInv, NEW s \in Sockets, NEW v,
         session' = [session EXCEPT ![s] = v],
         call' = call /\ slots' = slots /\ endpoint' = endpoint,
         registry' \subseteq Sockets,
         \A q \in Sockets \ {s} : q \in registry' <=> q \in registry,
         SessionFits(s, v, registry', endpoint),
         \/ refs' = refs /\ (v.step \in {"stream", "release"} <=> session[s].step \in {"stream", "release"})
         \/ refs' = refs + 1 /\ v.step \in {"stream", "release"}
            /\ session[s].step \notin {"stream", "release"}
         \/ refs' = refs - 1 /\ v.step \notin {"stream", "release"}
            /\ session[s].step \in {"stream", "release"}
  PROVE  UseInv'
<1> DEFINE Held == {"stream", "release"}
<1>1. session \in [Sockets -> SessionRecords] /\ v \in SessionRecords /\ refs \in Nat
  BY DEF UseInv, UseTypes, SessionRecords, SessionFits
<1>2. /\ session' \in [Sockets -> SessionRecords] /\ session'[s] = v
      /\ \A q \in Sockets \ {s} : session'[q] = session[q]
  BY <1>1
<1>3. SessionsFit'
  <2>1. SUFFICES ASSUME NEW q \in Sockets, q # s
                 PROVE  SessionFits(q, session[q], registry', endpoint)
    BY <1>2 DEF SessionsFit
  <2>2. SessionFits(q, session[q], registry, endpoint) /\ (q \in registry' <=> q \in registry)
    BY <2>1 DEF UseInv, SessionsFit
  <2> QED
    BY <2>2 DEF SessionFits
<1>4. SessionsHolding' = (IF v.step \in Held THEN SessionsHolding \cup {s} ELSE SessionsHolding \ {s})
  BY <1>2 DEF SessionsHolding
<1>5. s \in SessionsHolding <=> session[s].step \in Held
  BY DEF SessionsHolding
<1>6. /\ Cardinality(SessionsHolding) \in Nat
      /\ s \notin SessionsHolding => Cardinality(SessionsHolding \cup {s}) = Cardinality(SessionsHolding) + 1
      /\ s \in SessionsHolding => Cardinality(SessionsHolding \ {s}) = Cardinality(SessionsHolding) - 1
                                  /\ Cardinality(SessionsHolding) > 0
  <2>1. SessionsHolding \in SUBSET Sockets
    BY DEF SessionsHolding
  <2> QED
    BY <2>1, UseAssumption, Counted
<1>7. CallsHolding' = CallsHolding /\ CallsSlotted' = CallsSlotted
  BY DEF CallsHolding, CallsSlotted
<1>8. Cardinality(CallsHolding) \in Nat
  <2>1. CallsHolding \in SUBSET Calls
    BY DEF CallsHolding
  <2> QED
    BY <2>1, UseAssumption, FS_Subset, FS_CardinalityType
<1>9. /\ refs = Cardinality(CallsHolding) + Cardinality(SessionsHolding)
      /\ slots = Cardinality(CallsSlotted)
  BY DEF UseInv, Balanced
<1>10. refs' \in Nat /\ refs' = Cardinality(CallsHolding') + Cardinality(SessionsHolding')
  <2>1. CASE refs' = refs /\ (v.step \in Held <=> session[s].step \in Held)
    <3>1. SessionsHolding' = SessionsHolding
      BY <2>1, <1>4, <1>5
    <3> QED
      BY <2>1, <3>1, <1>1, <1>7, <1>9
  <2>2. CASE refs' = refs + 1 /\ v.step \in Held /\ session[s].step \notin Held
    BY <2>2, <1>1, <1>4, <1>5, <1>6, <1>7, <1>8, <1>9
  <2>3. CASE refs' = refs - 1 /\ v.step \notin Held /\ session[s].step \in Held
    BY <2>3, <1>1, <1>4, <1>5, <1>6, <1>7, <1>8, <1>9
  <2> QED
    BY <2>1, <2>2, <2>3
<1>11. Balanced'
  BY <1>7, <1>9, <1>10 DEF Balanced
<1>12. UseTypes'
  BY <1>2, <1>10 DEF UseInv, UseTypes, SessionRecords
<1> QED
  BY <1>3, <1>11, <1>12 DEF UseInv, EndpointFits

LEMMA HandleKeeps ==
  ASSUME UseInv, NEW s \in Sockets, Handle(s)
  PROVE  UseInv'
<1> DEFINE v == session[s]
           Goes(w) == session' = [session EXCEPT ![s] = w]
<1>1. /\ SessionFits(s, v, registry, endpoint) /\ v \in SessionRecords
      /\ session \in [Sockets -> SessionRecords] /\ registry \subseteq Sockets
      /\ refs \in Nat /\ Budget \in Nat \ {0}
  BY UseAssumption DEF UseInv, UseTypes, SessionsFit, SessionRecords, SessionFits
<1>2. NoSession \in SessionRecords /\ NoSession.step = "none"
  BY UseAssumption DEF NoSession, SessionRecords, Steps
<1>3. /\ endpoint.closed <=> endpoint.close # "none"
      /\ endpoint.close \in {"sockets", "join", "returned"} => ~endpoint.listening
      /\ endpoint.close = "returned" => ~endpoint.loop
  BY DEF UseInv, EndpointFits
<1>4. call' = call /\ slots' = slots /\ endpoint' = endpoint
  BY DEF Handle, Accept, Register, Authenticate, AcquireForSession, Watch, Frame, NoFrame,
         ReleaseFromSession, CloseOwnSocket, ForgetSession
<1>5. CASE Accept(s)
  <2> DEFINE w == [NoSession EXCEPT !.step = "accepted", !.socket = TRUE]
  <2>1. /\ Goes(w) /\ refs' = refs /\ registry' = registry /\ v = NoSession
        /\ endpoint.loop /\ endpoint.listening /\ s \notin endpoint.taken
    BY <1>5 DEF Accept
  <2>2. SessionFits(s, w, registry', endpoint)
    BY <2>1, <1>1, <1>2, <1>3 DEF SessionFits, Fresh, NoSession, SessionRecords, Steps
  <2>3. w.step = "accepted"
    BY DEF NoSession
  <2> QED
    BY <2>1, <2>2, <2>3, <1>1, <1>2, <1>4, SessionStep
<1>6. CASE Register(s)
  <2>1. v.step = "accepted" /\ refs' = refs
    BY <1>6 DEF Register
  <2>2. CASE endpoint.closed
    <3>1. Goes(NoSession) /\ registry' = registry
      BY <2>2, <1>6 DEF Register
    <3>2. SessionFits(s, NoSession, registry', endpoint)
      BY <2>1, <3>1, <1>1, <1>2, <1>3 DEF SessionFits, Fresh, NoSession
    <3> QED
      BY <2>1, <3>1, <3>2, <1>1, <1>2, <1>4, SessionStep
  <2>3. CASE ~endpoint.closed
    <3> DEFINE w == [v EXCEPT !.step = "auth"]
    <3>1. Goes(w) /\ registry' = registry \cup {s}
      BY <2>3, <1>6 DEF Register
    <3>2. w \in SessionRecords /\ w.step = "auth"
      BY <1>1 DEF SessionRecords, Steps
    <3>3. SessionFits(s, w, registry', endpoint)
      BY <2>1, <2>3, <3>1, <3>2, <1>1, <1>3 DEF SessionFits, Fresh, SessionRecords
    <3> QED
      BY <2>1, <3>1, <3>2, <3>3, <1>1, <1>4, SessionStep
  <2> QED
    BY <2>2, <2>3
<1>7. CASE Authenticate(s)
  <2>1. PICK to \in {"acquire", "close"} : Goes([v EXCEPT !.step = to])
    BY <1>7 DEF Authenticate
  <2>2. v.step = "auth" /\ refs' = refs /\ registry' = registry
    BY <1>7 DEF Authenticate
  <2> DEFINE w == [v EXCEPT !.step = to]
  <2>3. w \in SessionRecords /\ w.step = to
    BY <1>1 DEF SessionRecords, Steps
  <2>4. SessionFits(s, w, registry', endpoint)
    BY <2>2, <2>3, <1>1, <1>2 DEF SessionFits, Fresh, SessionRecords, NoSession
  <2> QED
    BY <2>1, <2>2, <2>3, <2>4, <1>1, <1>4, SessionStep
<1>8. CASE AcquireForSession(s)
  <2>1. v.step = "acquire" /\ registry' = registry
    BY <1>8 DEF AcquireForSession
  <2>2. CASE refs' = refs + 1 /\ Goes([v EXCEPT !.step = "stream", !.watched = TRUE, !.left = Budget])
    <3> DEFINE w == [v EXCEPT !.step = "stream", !.watched = TRUE, !.left = Budget]
    <3>1. w \in SessionRecords /\ w.step = "stream" /\ w.left = Budget /\ w.unserved = v.unserved
      <4>1. Budget \in 0 .. Budget
        BY <1>1
      <4> QED
        BY <4>1, <1>1 DEF SessionRecords, Steps
    <3>2. SessionFits(s, w, registry', endpoint)
      BY <2>1, <3>1, <1>1, <1>2 DEF SessionFits, Fresh, SessionRecords, NoSession
    <3> QED
      BY <2>1, <2>2, <3>1, <3>2, <1>1, <1>4, SessionStep
  <2>3. CASE refs' = refs /\ Goes([v EXCEPT !.step = "close"])
    <3> DEFINE w == [v EXCEPT !.step = "close"]
    <3>1. w \in SessionRecords /\ w.step = "close"
      BY <1>1 DEF SessionRecords, Steps
    <3>2. SessionFits(s, w, registry', endpoint)
      BY <2>1, <3>1, <1>1, <1>2 DEF SessionFits, Fresh, SessionRecords, NoSession
    <3> QED
      BY <2>1, <2>3, <3>1, <3>2, <1>1, <1>4, SessionStep
  <2> QED
    BY <2>2, <2>3, <1>8 DEF AcquireForSession
<1>9. CASE Watch(s)
  <2>1. v.watched /\ refs' = refs /\ registry' = registry
    BY <1>9 DEF Watch
  <2>2. CASE v.step = "none"
    <3>1. Goes(NoSession)
      BY <2>2, <1>9, <1>1 DEF Watch
    <3>2. SessionFits(s, NoSession, registry', endpoint)
      BY <2>1, <2>2, <1>1, <1>2 DEF SessionFits, Fresh, NoSession
    <3> QED
      BY <2>1, <2>2, <3>1, <3>2, <1>1, <1>2, <1>4, SessionStep
  <2>3. CASE v.step # "none"
    <3> DEFINE w == [v EXCEPT !.watched = FALSE, !.cancelled = TRUE, !.socket = FALSE]
    <3>1. Goes(w)
      BY <2>3, <1>9, <1>1 DEF Watch
    <3>2. w \in SessionRecords /\ w.step = v.step /\ w.left = v.left /\ w.unserved = v.unserved
          /\ ~w.socket /\ ~w.watched
      BY <1>1 DEF SessionRecords
    <3>3. SessionFits(s, w, registry', endpoint)
      BY <2>1, <2>3, <3>2, <1>1, <1>2 DEF SessionFits, Fresh, NoSession
    <3> QED
      BY <2>1, <3>1, <3>2, <3>3, <1>1, <1>4, SessionStep
  <2> QED
    BY <2>2, <2>3
<1>10. CASE Frame(s)
  <2>1. v.step = "stream" /\ refs' = refs /\ registry' = registry
    BY <1>10 DEF Frame
  <2>2. CASE Goes([v EXCEPT !.left = Budget, !.unserved = 0])
    <3> DEFINE w == [v EXCEPT !.left = Budget, !.unserved = 0]
    <3>1. /\ w \in SessionRecords /\ w.step = v.step /\ w.left = Budget /\ w.unserved = 0
          /\ w.socket = v.socket /\ w.watched = v.watched
      <4>1. Budget \in 0 .. Budget
        BY <1>1
      <4> QED
        BY <4>1, <1>1 DEF SessionRecords
    <3>2. SessionFits(s, w, registry', endpoint)
      BY <2>1, <3>1, <1>1, <1>2 DEF SessionFits, Fresh, NoSession
    <3> QED
      BY <2>1, <2>2, <3>1, <3>2, <1>1, <1>4, SessionStep
  <2>3. CASE Goes([v EXCEPT !.step = "release"])
    <3> DEFINE w == [v EXCEPT !.step = "release"]
    <3>1. w \in SessionRecords /\ w.step = "release"
      BY <1>1 DEF SessionRecords, Steps
    <3>2. SessionFits(s, w, registry', endpoint)
      BY <2>1, <3>1, <1>1, <1>2 DEF SessionFits, Fresh, SessionRecords, NoSession
    <3> QED
      BY <2>1, <2>3, <3>1, <3>2, <1>1, <1>4, SessionStep
  <2>4. CASE Goes([v EXCEPT !.left = LeftAfterStale(s)])
    <3>1. [v EXCEPT !.left = LeftAfterStale(s)] = v
      BY <1>1 DEF LeftAfterStale, SessionRecords
    <3> QED
      BY <2>1, <2>4, <3>1, <1>1, <1>4, SessionStep
  <2> QED
    BY <1>10, <2>2, <2>3, <2>4 DEF Frame
<1>11. CASE NoFrame(s)
  <2> DEFINE w == [v EXCEPT !.step = "release"]
  <2>1. v.step = "stream" /\ refs' = refs /\ registry' = registry /\ Goes(w)
    BY <1>11 DEF NoFrame
  <2>2. w \in SessionRecords /\ w.step = "release"
    BY <1>1 DEF SessionRecords, Steps
  <2>3. SessionFits(s, w, registry', endpoint)
    BY <2>1, <2>2, <1>1, <1>2 DEF SessionFits, Fresh, SessionRecords, NoSession
  <2> QED
    BY <2>1, <2>2, <2>3, <1>1, <1>4, SessionStep
<1>12. CASE ReleaseFromSession(s)
  <2> DEFINE w == [v EXCEPT !.step = "close", !.cancelled = TRUE]
  <2>1. v.step = "release" /\ refs' = refs - 1 /\ registry' = registry /\ Goes(w)
    BY <1>12 DEF ReleaseFromSession
  <2>2. w \in SessionRecords /\ w.step = "close"
    BY <1>1 DEF SessionRecords, Steps
  <2>3. SessionFits(s, w, registry', endpoint)
    BY <2>1, <2>2, <1>1, <1>2 DEF SessionFits, Fresh, SessionRecords, NoSession
  <2> QED
    BY <2>1, <2>2, <2>3, <1>1, <1>4, SessionStep
<1>13. CASE CloseOwnSocket(s)
  <2> DEFINE w == [v EXCEPT !.step = "forget", !.socket = FALSE]
  <2>1. v.step = "close" /\ refs' = refs /\ registry' = registry /\ Goes(w)
    BY <1>13 DEF CloseOwnSocket
  <2>2. w \in SessionRecords /\ w.step = "forget"
    BY <1>1 DEF SessionRecords, Steps
  <2>3. SessionFits(s, w, registry', endpoint)
    BY <2>1, <2>2, <1>1, <1>2 DEF SessionFits, Fresh, SessionRecords, NoSession
  <2> QED
    BY <2>1, <2>2, <2>3, <1>1, <1>4, SessionStep
<1>14. CASE ForgetSession(s)
  <2> DEFINE w == [NoSession EXCEPT !.watched = v.watched]
  <2>1. v.step = "forget" /\ refs' = refs /\ registry' = registry \ {s} /\ Goes(w)
    BY <1>14 DEF ForgetSession
  <2>2. w \in SessionRecords /\ w.step = "none" /\ w.watched = v.watched
    BY <1>1, <1>2 DEF SessionRecords, NoSession
  <2>3. SessionFits(s, w, registry', endpoint)
    BY <2>1, <2>2, <1>1, <1>2 DEF SessionFits, Fresh, NoSession
  <2> QED
    BY <2>1, <2>2, <2>3, <1>1, <1>4, SessionStep
<1> QED
  BY <1>5, <1>6, <1>7, <1>8, <1>9, <1>10, <1>11, <1>12, <1>13, <1>14 DEF Handle
-----------------------------------------------------------------------------
(* The steps of Close, of the accept loop and of time move every session.  *)
LEMMA OthersKeep ==
  ASSUME UseInv, AcceptEnds \/ Pace \/ BeginClose \/ CloseListener \/ CloseTaken \/ JoinSessions
  PROVE  UseInv'
<1>1. /\ session \in [Sockets -> SessionRecords] /\ registry \subseteq Sockets
      /\ \A s \in Sockets : SessionFits(s, session[s], registry, endpoint)
      /\ Budget \in Nat \ {0}
  BY UseAssumption DEF UseInv, UseTypes, SessionsFit, SessionRecords
<1>2. call' = call /\ slots' = slots /\ refs' = refs
  BY DEF AcceptEnds, Pace, BeginClose, CloseListener, CloseTaken, JoinSessions
<1> DEFINE Closings == {"none", "listener", "sockets", "join", "returned"}
           Endpoints == [closed : BOOLEAN, listening : BOOLEAN, loop : BOOLEAN, close : Closings,
                         taken : SUBSET Sockets]
<1>3. endpoint \in Endpoints /\ EndpointFits
  BY DEF UseInv, UseTypes
<1>4. SUFFICES /\ session' \in [Sockets -> SessionRecords] /\ registry' \subseteq Sockets
               /\ endpoint' \in Endpoints /\ EndpointFits'
               /\ \A s \in Sockets : session'[s].step = session[s].step
               /\ \A s \in Sockets : SessionFits(s, session'[s], registry', endpoint')
  <2>1. ASSUME session' \in [Sockets -> SessionRecords], registry' \subseteq Sockets,
               endpoint' \in Endpoints, EndpointFits',
               \A s \in Sockets : session'[s].step = session[s].step,
               \A s \in Sockets : SessionFits(s, session'[s], registry', endpoint')
        PROVE  UseInv'
    <3>1. /\ SessionsHolding' = SessionsHolding /\ CallsHolding' = CallsHolding
          /\ CallsSlotted' = CallsSlotted
      BY <2>1, <1>2 DEF SessionsHolding, CallsHolding, CallsSlotted
    <3>2. Balanced'
      BY <3>1, <1>2 DEF UseInv, Balanced
    <3>3. UseTypes'
      BY <2>1, <1>2 DEF UseInv, UseTypes, SessionRecords
    <3> QED
      BY <2>1, <3>2, <3>3 DEF UseInv, SessionsFit
  <2> QED
    BY <2>1
<1>5. CASE AcceptEnds
  <2>1. /\ endpoint' = [endpoint EXCEPT !.loop = FALSE] /\ session' = session /\ registry' = registry
        /\ \A s \in Sockets : session[s].step # "accepted"
    BY <1>5 DEF AcceptEnds
  <2>2. endpoint' \in Endpoints /\ EndpointFits'
    BY <2>1, <1>3 DEF EndpointFits
  <2>3. \A s \in Sockets : SessionFits(s, session[s], registry, endpoint')
    BY <2>1, <1>1, <1>3 DEF SessionFits
  <2> QED
    BY <2>1, <2>2, <2>3, <1>1
<1>6. CASE Pace
  <2>1. /\ endpoint' = endpoint /\ registry' = registry
        /\ \A s \in Sockets : session[s].step = "stream" => session[s].left > 0
        /\ session' = [s \in Sockets |->
             IF session[s].step = "stream"
             THEN [session[s] EXCEPT !.left = @ - 1, !.unserved = @ + 1] ELSE session[s]]
    BY <1>6 DEF Pace
  <2>2. \A s \in Sockets : /\ session'[s].step = session[s].step
                           /\ SessionFits(s, session'[s], registry, endpoint)
    <3> SUFFICES ASSUME NEW s \in Sockets, session[s].step = "stream"
                 PROVE  /\ session'[s].step = session[s].step
                        /\ SessionFits(s, session'[s], registry, endpoint)
      BY <2>1, <1>1
    <3> DEFINE v == session[s]
               w == [v EXCEPT !.left = @ - 1, !.unserved = @ + 1]
    <3>1. session'[s] = w /\ v \in SessionRecords /\ v.left > 0 /\ SessionFits(s, v, registry, endpoint)
      BY <2>1, <1>1
    <3>2. /\ w \in SessionRecords /\ w.step = v.step /\ w.left = v.left - 1 /\ w.unserved = v.unserved + 1
          /\ w.socket = v.socket
      <4>1. v.left \in 0 .. Budget /\ v.unserved \in Nat
        BY <3>1 DEF SessionRecords
      <4>2. v.left - 1 \in 0 .. Budget /\ v.unserved + 1 \in Nat
        BY <4>1, <3>1, <1>1
      <4> QED
        BY <3>1, <4>2 DEF SessionRecords
    <3>3. v.left \in Nat /\ v.unserved \in Nat /\ v.left + v.unserved = Budget
      BY <3>1, <1>1 DEF SessionRecords, SessionFits
    <3>4. v # NoSession
      BY DEF NoSession
    <3>5. SessionFits(s, w, registry, endpoint)
      BY <3>1, <3>2, <3>3, <3>4, <1>1 DEF SessionFits, Fresh
    <3> QED
      BY <3>1, <3>2, <3>5
  <2>3. session' \in [Sockets -> SessionRecords]
    BY <2>1, <2>2 DEF SessionFits
  <2> QED
    BY <2>1, <2>2, <2>3, <1>1, <1>3 DEF EndpointFits
<1>7. CASE BeginClose
  <2>1. /\ endpoint' = [endpoint EXCEPT !.closed = TRUE, !.close = "listener", !.taken = registry]
        /\ registry' = {} /\ session' = session /\ ~endpoint.closed
    BY <1>7 DEF BeginClose
  <2>2. endpoint' \in Endpoints /\ EndpointFits'
    BY <2>1, <1>1, <1>3 DEF EndpointFits
  <2>3. \A s \in Sockets : SessionFits(s, session[s], registry', endpoint')
    BY <2>1, <1>1, <1>3 DEF SessionFits, Fresh
  <2> QED
    BY <2>1, <2>2, <2>3, <1>1
<1>8. CASE CloseListener
  <2>1. /\ endpoint' = [endpoint EXCEPT !.listening = FALSE, !.close = "sockets"]
        /\ registry' = registry /\ session' = session /\ endpoint.close = "listener"
    BY <1>8 DEF CloseListener
  <2>2. endpoint' \in Endpoints /\ EndpointFits'
    BY <2>1, <1>3 DEF EndpointFits
  <2>3. \A s \in Sockets : SessionFits(s, session[s], registry', endpoint')
    BY <2>1, <1>1, <1>3 DEF SessionFits
  <2> QED
    BY <2>1, <2>2, <2>3, <1>1
<1>9. CASE CloseTaken
  <2>1. /\ endpoint' = [endpoint EXCEPT !.close = "join"] /\ endpoint.close = "sockets"
        /\ registry' = registry
        /\ session' = [s \in Sockets |->
             IF s \in endpoint.taken THEN [session[s] EXCEPT !.socket = FALSE] ELSE session[s]]
    BY <1>9 DEF CloseTaken
  <2>2. endpoint' \in Endpoints /\ EndpointFits'
    BY <2>1, <1>3 DEF EndpointFits
  <2>3. \A s \in Sockets : /\ session'[s].step = session[s].step
                           /\ SessionFits(s, session'[s], registry', endpoint')
    <3> SUFFICES ASSUME NEW s \in Sockets
                 PROVE  /\ session'[s].step = session[s].step
                        /\ SessionFits(s, session'[s], registry', endpoint')
      OBVIOUS
    <3> DEFINE v == session[s]
    <3>1. SessionFits(s, v, registry, endpoint) /\ v \in SessionRecords
      BY <1>1
    <3>2. /\ endpoint'.close = "join" /\ endpoint'.taken = endpoint.taken /\ endpoint'.loop = endpoint.loop
          /\ endpoint'.closed = endpoint.closed
      BY <2>1, <1>3
    <3>3. CASE s \in endpoint.taken
      <4> DEFINE w == [v EXCEPT !.socket = FALSE]
      <4>1. session'[s] = w
        BY <2>1, <3>3
      <4>2. /\ w \in SessionRecords /\ w.step = v.step /\ w.left = v.left /\ w.unserved = v.unserved
            /\ w.watched = v.watched /\ ~w.socket
        BY <3>1 DEF SessionRecords
      <4>3. v.step = "none" => w = v
        BY <3>1 DEF SessionFits, NoSession
      <4> QED
        BY <2>1, <3>1, <3>2, <3>3, <4>1, <4>2, <4>3 DEF SessionFits
    <3>4. CASE s \notin endpoint.taken
      BY <2>1, <3>1, <3>2, <3>4 DEF SessionFits
    <3> QED
      BY <3>3, <3>4
  <2>4. session' \in [Sockets -> SessionRecords]
    BY <2>1, <2>3 DEF SessionFits
  <2> QED
    BY <2>1, <2>2, <2>3, <2>4, <1>1
<1>10. CASE JoinSessions
  <2>1. /\ endpoint' = [endpoint EXCEPT !.close = "returned"] /\ endpoint.close = "join"
        /\ registry' = registry /\ session' = session /\ ~endpoint.loop
        /\ \A s \in Sockets : ~Running(s)
    BY <1>10 DEF JoinSessions
  <2>2. endpoint' \in Endpoints /\ EndpointFits'
    BY <2>1, <1>3 DEF EndpointFits
  <2>3. \A s \in Sockets : session[s] = NoSession
    <3> SUFFICES ASSUME NEW s \in Sockets
                 PROVE  session[s] = NoSession
      OBVIOUS
    <3>1. SessionFits(s, session[s], registry, endpoint) /\ session[s].step \in Fresh /\ ~session[s].watched
      BY <1>1, <2>1 DEF Running, Fresh
    <3>2. session[s].step = "none" /\ session[s].watched = FALSE
      BY <3>1, <2>1, <1>1 DEF SessionFits, Fresh, SessionRecords
    <3> QED
      BY <3>1, <3>2 DEF SessionFits, NoSession
  <2>4. \A s \in Sockets : SessionFits(s, session[s], registry', endpoint')
    BY <2>1, <2>3, <1>1, <1>3 DEF SessionFits
  <2> QED
    BY <2>1, <2>2, <2>4, <1>1
<1> QED
  BY <1>5, <1>6, <1>7, <1>8, <1>9, <1>10

LEMMA UseInvNext == UseInv /\ [UseNext]_useVars => UseInv'
<1> SUFFICES ASSUME UseInv, [UseNext]_useVars
             PROVE  UseInv'
  OBVIOUS
<1>1. CASE \E c \in Calls : Call(c)
  BY <1>1, CallKeeps
<1>2. CASE \E s \in Sockets : Handle(s)
  BY <1>2, HandleKeeps
<1>3. CASE AcceptEnds \/ Pace \/ BeginClose \/ CloseListener \/ CloseTaken \/ JoinSessions
  BY <1>3, OthersKeep
<1>4. CASE UNCHANGED useVars
  BY <1>4 DEF useVars, UseInv, UseTypes, Balanced, CallsHolding, SessionsHolding, CallsSlotted,
              SessionsFit, EndpointFits
<1> QED
  BY <1>1, <1>2, <1>3, <1>4 DEF UseNext

(* For any number of calls, clients and slots: slots and references are    *)
(* those of the calls and sessions that hold them, Close ends with no      *)
(* session left and waits for none whose socket is open, and no session    *)
(* outstays its frame budget (captureFrame, RawServer).                    *)
THEOREM CamerasReturnedAlways == UseSpec => []CamerasReturned
<1>1. ASSUME UseInv
      PROVE  CamerasReturned
  <2>1. Balanced
    BY <1>1 DEF UseInv
  <2>2. ASSUME NEW s \in Sockets
        PROVE  SessionFits(s, session[s], registry, endpoint) /\ session[s] \in SessionRecords
    BY <1>1 DEF UseInv, SessionsFit, SessionFits
  <2>3. ASSUME NEW s \in Sockets, endpoint.close \in {"join", "returned"}, Running(s)
        PROVE  ~session[s].socket
    <3>1. CASE session[s].step \notin Fresh
      BY <1>1, <2>2, <2>3, <3>1 DEF SessionFits, UseInv, EndpointFits
    <3>2. CASE session[s].step \in Fresh
      BY <2>2, <2>3, <3>2 DEF SessionFits, Running, Fresh, NoSession
    <3> QED
      BY <3>1, <3>2
  <2>4. ClosedForGood
    BY <1>1, <2>2, <2>3 DEF ClosedForGood, UseInv, EndpointFits, SessionFits
  <2>5. OneBudget
    BY <2>2 DEF OneBudget, SessionFits
  <2> QED
    BY <2>1, <2>4, <2>5 DEF CamerasReturned
<1> QED
  BY <1>1, UseInvInit, UseInvNext, PTL DEF UseSpec
=============================================================================
