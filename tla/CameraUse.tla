------------------------------- MODULE CameraUse -------------------------------
(***************************************************************************)
(* The users of one printer's camera capture: snapshot calls of the MCP    *)
(* server (internal/mcpserver/tools.go captureFrame) and sessions of the   *)
(* raw camera endpoint (internal/camera/rawserver.go).                     *)
(*                                                                         *)
(* The capture is the reference count that Acquire and Release move        *)
(* (module CameraCapture).  A frame is fresh or stale when a session gets  *)
(* it; time passes in steps of which Budget make the frame budget.  The    *)
(* reads of a session's client, its credentials and its TLS fail or not.   *)
(***************************************************************************)
EXTENDS Naturals, FiniteSets

CONSTANTS
  Calls,    \* bound: snapshot calls at one time
  Slots,    \* cap of the printer's slot channel; 8 in the code
  Sockets,  \* bound: raw clients at one time
  Budget    \* rawFrameBudget, in steps of time

ASSUME UseAssumption ==
  /\ Slots \in Nat \ {0} /\ Budget \in Nat \ {0}
  /\ IsFiniteSet(Calls) /\ IsFiniteSet(Sockets)

VARIABLES
  call,      \* where each snapshot call is
  slots,     \* the length of the slot channel
  refs,      \* the references to the capture
  session,   \* each raw session: its worker, its watcher, its socket, its clock
  registry,  \* RawServer.sockets
  endpoint   \* RawServer: closed, the accept loop, and where Close is

useVars == <<call, slots, refs, session, registry, endpoint>>

Steps == {"none", "accepted", "auth", "acquire", "stream", "release", "close", "forget"}
NoSession ==
  [step |-> "none", watched |-> FALSE, socket |-> FALSE, cancelled |-> FALSE, left |-> 0, unserved |-> 0]

UseTypes ==
  /\ call \in [Calls -> {"none", "waiting", "slotted", "holding", "release", "leave"}]
  /\ slots \in 0 .. Slots /\ refs \in Nat
  /\ session \in [Sockets -> [step : Steps, watched : BOOLEAN, socket : BOOLEAN,
       cancelled : BOOLEAN, left : 0 .. Budget, unserved : Nat]]
  /\ registry \subseteq Sockets
  /\ endpoint \in [closed : BOOLEAN, listening : BOOLEAN, loop : BOOLEAN,
       close : {"none", "listener", "sockets", "join", "returned"}, taken : SUBSET Sockets]

UseInit ==
  /\ call = [c \in Calls |-> "none"] /\ slots = 0 /\ refs = 0
  /\ session = [s \in Sockets |-> NoSession] /\ registry = {}
  /\ endpoint = [closed |-> FALSE, listening |-> TRUE, loop |-> TRUE, close |-> "none", taken |-> {}]
-----------------------------------------------------------------------------
(* captureFrame: a slot, or none within the wait; then the camera.         *)
Go(c, from, to) == call[c] = from /\ call' = [call EXCEPT ![c] = to]

AskSnapshot(c) ==
  /\ Go(c, "none", "waiting")
  /\ UNCHANGED <<slots, refs, session, registry, endpoint>>

TakeSlot(c) ==
  /\ slots < Slots /\ slots' = slots + 1
  /\ Go(c, "waiting", "slotted")
  /\ UNCHANGED <<refs, session, registry, endpoint>>

NoSlot(c) ==
  /\ Go(c, "waiting", "none")
  /\ UNCHANGED <<slots, refs, session, registry, endpoint>>

AcquireForCall(c) ==
  /\ \/ Go(c, "slotted", "holding") /\ refs' = refs + 1
     \/ Go(c, "slotted", "leave") /\ UNCHANGED refs
  /\ UNCHANGED <<slots, session, registry, endpoint>>

(* A frame within the age, none within the budget, or a cancelled request. *)
FrameOrNot(c) ==
  /\ Go(c, "holding", "release")
  /\ UNCHANGED <<slots, refs, session, registry, endpoint>>

ReleaseFromCall(c) ==
  /\ Go(c, "release", "leave") /\ refs' = refs - 1
  /\ UNCHANGED <<slots, session, registry, endpoint>>

FreeSlot(c) ==
  /\ Go(c, "leave", "none") /\ slots' = slots - 1
  /\ UNCHANGED <<refs, session, registry, endpoint>>

Call(c) ==
  \/ AskSnapshot(c) \/ TakeSlot(c) \/ NoSlot(c) \/ AcquireForCall(c)
  \/ FrameOrNot(c) \/ ReleaseFromCall(c) \/ FreeSlot(c)
-----------------------------------------------------------------------------
(* acceptLoop: one goroutine, so it holds one socket at most.              *)
Accept(s) ==
  /\ endpoint.loop /\ endpoint.listening
  /\ \A q \in Sockets : session[q].step # "accepted"
  /\ session[s] = NoSession /\ s \notin endpoint.taken
  /\ session' = [session EXCEPT ![s] = [NoSession EXCEPT !.step = "accepted", !.socket = TRUE]]
  /\ UNCHANGED <<call, slots, refs, registry, endpoint>>

\* Mutant: a socket is registered after Close has begun.
RegisterUnchecked(s) ==
  /\ session[s].step = "accepted"
  /\ registry' = registry \cup {s}
  /\ session' = [session EXCEPT ![s].step = "auth"]
  /\ UNCHANGED <<call, slots, refs, endpoint>>

Register(s) ==
  /\ session[s].step = "accepted"
  /\ IF endpoint.closed
     THEN session' = [session EXCEPT ![s] = NoSession] /\ UNCHANGED registry
     ELSE registry' = registry \cup {s} /\ session' = [session EXCEPT ![s].step = "auth"]
  /\ UNCHANGED <<call, slots, refs, endpoint>>

AcceptEnds ==
  /\ endpoint.loop /\ ~endpoint.listening
  /\ \A q \in Sockets : session[q].step # "accepted"
  /\ endpoint' = [endpoint EXCEPT !.loop = FALSE]
  /\ UNCHANGED <<call, slots, refs, session, registry>>

(* handle: the handshake, the payload and the credentials, before the      *)
(* deadline.                                                               *)
Authenticate(s) ==
  /\ session[s].step = "auth"
  /\ \/ session[s].socket /\ session' = [session EXCEPT ![s].step = "acquire"]
     \/ session' = [session EXCEPT ![s].step = "close"]
  /\ UNCHANGED <<call, slots, refs, registry, endpoint>>

AcquireForSession(s) ==
  /\ session[s].step = "acquire"
  /\ \/ /\ refs' = refs + 1
        /\ session' = [session EXCEPT ![s] =
             [@ EXCEPT !.step = "stream", !.watched = TRUE, !.left = Budget]]
     \/ session' = [session EXCEPT ![s].step = "close"] /\ UNCHANGED refs
  /\ UNCHANGED <<call, slots, registry, endpoint>>

(* The reader: the client sent something, went away, or the socket closed. *)
Watch(s) ==
  /\ session[s].watched
  /\ session' = [session EXCEPT ![s] =
       IF @.step = "none" THEN NoSession
       ELSE [@ EXCEPT !.watched = FALSE, !.cancelled = TRUE, !.socket = FALSE]]
  /\ UNCHANGED <<call, slots, refs, registry, endpoint>>

(* A frame is sent, which fails at any time; a stale one is skipped.       *)
LeftAfterStale(s) == session[s].left

Frame(s) ==
  /\ session[s].step = "stream"
  /\ \/ /\ session[s].socket
        /\ session' = [session EXCEPT ![s] = [@ EXCEPT !.left = Budget, !.unserved = 0]]
     \/ session' = [session EXCEPT ![s].step = "release"]
     \/ session' = [session EXCEPT ![s].left = LeftAfterStale(s)]
  /\ UNCHANGED <<call, slots, refs, registry, endpoint>>

NoFrame(s) ==
  /\ session[s].step = "stream" /\ (session[s].cancelled \/ session[s].left = 0)
  /\ session' = [session EXCEPT ![s].step = "release"]
  /\ UNCHANGED <<call, slots, refs, registry, endpoint>>

(* A wait is over when its time is.                                        *)
Pace ==
  /\ \E s \in Sockets : session[s].step = "stream"
  /\ \A s \in Sockets : session[s].step = "stream" => session[s].left > 0
  /\ session' = [s \in Sockets |->
       IF session[s].step = "stream"
       THEN [session[s] EXCEPT !.left = @ - 1, !.unserved = @ + 1] ELSE session[s]]
  /\ UNCHANGED <<call, slots, refs, registry, endpoint>>

(* The deferred calls, the last one first.                                 *)
ReleaseFromSession(s) ==
  /\ session[s].step = "release" /\ refs' = refs - 1
  /\ session' = [session EXCEPT ![s] = [@ EXCEPT !.step = "close", !.cancelled = TRUE]]
  /\ UNCHANGED <<call, slots, registry, endpoint>>

CloseOwnSocket(s) ==
  /\ session[s].step = "close"
  /\ session' = [session EXCEPT ![s] = [@ EXCEPT !.step = "forget", !.socket = FALSE]]
  /\ UNCHANGED <<call, slots, refs, registry, endpoint>>

ForgetSession(s) ==
  /\ session[s].step = "forget"
  /\ registry' = registry \ {s}
  /\ session' = [session EXCEPT ![s] = [NoSession EXCEPT !.watched = session[s].watched]]
  /\ UNCHANGED <<call, slots, refs, endpoint>>

Handle(s) ==
  \/ Accept(s) \/ Register(s) \/ Authenticate(s) \/ AcquireForSession(s)
  \/ Watch(s) \/ Frame(s) \/ NoFrame(s)
  \/ ReleaseFromSession(s) \/ CloseOwnSocket(s) \/ ForgetSession(s)
-----------------------------------------------------------------------------
(* Close.                                                                  *)
BeginClose ==
  /\ ~endpoint.closed
  /\ endpoint' = [endpoint EXCEPT !.closed = TRUE, !.close = "listener", !.taken = registry]
  /\ registry' = {}
  /\ UNCHANGED <<call, slots, refs, session>>

CloseListener ==
  /\ endpoint.close = "listener"
  /\ endpoint' = [endpoint EXCEPT !.listening = FALSE, !.close = "sockets"]
  /\ UNCHANGED <<call, slots, refs, session, registry>>

CloseTaken ==
  /\ endpoint.close = "sockets"
  /\ session' = [s \in Sockets |->
       IF s \in endpoint.taken THEN [session[s] EXCEPT !.socket = FALSE] ELSE session[s]]
  /\ endpoint' = [endpoint EXCEPT !.close = "join"]
  /\ UNCHANGED <<call, slots, refs, registry>>

Running(s) == session[s].step \notin {"none", "accepted"} \/ session[s].watched
JoinSessions ==
  /\ endpoint.close = "join" /\ ~endpoint.loop /\ \A s \in Sockets : ~Running(s)
  /\ endpoint' = [endpoint EXCEPT !.close = "returned"]
  /\ UNCHANGED <<call, slots, refs, session, registry>>

UseNext ==
  \/ \E c \in Calls : Call(c)
  \/ \E s \in Sockets : Handle(s)
  \/ AcceptEnds \/ Pace
  \/ BeginClose \/ CloseListener \/ CloseTaken \/ JoinSessions

UseSpec == UseInit /\ [][UseNext]_useVars
-----------------------------------------------------------------------------
CallsSlotted == {c \in Calls : call[c] \in {"slotted", "holding", "release", "leave"}}
CallsHolding == {c \in Calls : call[c] \in {"holding", "release"}}
SessionsHolding == {s \in Sockets : session[s].step \in {"stream", "release"}}

(* Wherever a call gives up or a session ends, the slot and the camera     *)
(* they had are free again, and never one they did not have                *)
(* (captureFrame, RawServer.handle).                                       *)
Balanced ==
  /\ refs = Cardinality(CallsHolding) + Cardinality(SessionsHolding)
  /\ slots = Cardinality(CallsSlotted)

(* Close waits only for sessions whose socket it has closed, those of      *)
(* clients accepted while it began included, so no client holds it up; and *)
(* when it returns no worker, reader or reference of one is left.          *)
ClosedForGood ==
  /\ endpoint.close \in {"join", "returned"} =>
       \A s \in Sockets : Running(s) => ~session[s].socket
  /\ endpoint.close = "returned" =>
       ~endpoint.loop /\ \A s \in Sockets : session[s] = NoSession

(* No session goes on longer than one budget without a usable frame,       *)
(* whatever stale ones it skips.                                           *)
OneBudget == \A s \in Sockets : session[s].unserved <= Budget

CamerasReturned == Balanced /\ ClosedForGood /\ OneBudget
=============================================================================
