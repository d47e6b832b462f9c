------------------------------ MODULE CameraCapture ------------------------------
(***************************************************************************)
(* One printer's shared camera capture (internal/camera/capture.go) under  *)
(* the manager that hands it out (manager.go).  Clients acquire it, wait   *)
(* for frames and release it; the first starts a capture loop, an idle     *)
(* timer armed by the last release retires the loop, and Close ends it for *)
(* good.  capture.mu makes each action below atomic; every place where the *)
(* code unlocks, blocks or starts a goroutine is a step boundary.          *)
(*                                                                         *)
(* Loops, and with each its context and its done channel, are numbered in  *)
(* the order they are started; so is the retirement of a loop, and its     *)
(* retired channel, by the loop.  The notify channel that publication n    *)
(* closes is number n - 1.  Loop 0, timer 0 and channel 0 are nil.         *)
(***************************************************************************)
EXTENDS Naturals, FiniteSets

CONSTANTS
  Clients,
  Kinds,     \* the calls clients make: "snapshot", "wait" or both
  MaxLoops,  \* bound: capture loops started in a behaviour
  MaxGen,    \* bound: idle timers armed
  MaxSeq     \* bound: frames published

ASSUME CaptureAssumption ==
  /\ IsFiniteSet(Clients) /\ Kinds \subseteq {"snapshot", "wait"}
  /\ MaxLoops \in Nat /\ MaxGen \in Nat /\ MaxSeq \in Nat

VARIABLES
  consumers, closed, stopping,
  retired,   \* the loop whose retirement closes the channel c.retired
  idle,      \* the generation of the timer c.idle refers to
  idleGen,
  seq,       \* c.frame.Seq, 0 before the first frame; also numbers c.notify
  fresh,     \* c.frame is no older than snapshotMaxAge
  cancel,    \* the loop that c.cancel cancels
  done,      \* the loop that c.done belongs to: the latest
  loop,      \* loop[l]: where the goroutine of loop l is
  cancelled, \* loops whose context is cancelled
  pending,   \* generations whose timer is running
  fired,     \* generations whose callback runs but has not yet the lock
  retiring,  \* retiring[l]: where the callback that retires loop l is
  toClose,   \* retired channels read but not yet closed
  gone,      \* retired channels that are closed
  client,    \* client[c]: where c is in snapshot() or wait()
  kind,      \* kind[c]: which of the two
  channel,   \* channel[c]: the retired or notify channel c blocks on
  after,     \* after[c]: the last sequence number c has been given
  manager    \* where Manager.Close is; "open" before it is called

vars == <<consumers, closed, stopping, retired, idle, idleGen, seq, fresh, cancel, done, loop,
          cancelled, pending, fired, retiring, toClose, gone, client, kind, channel, after, manager>>
timers == <<idle, idleGen, pending, fired>>
frames == <<seq, fresh>>
retirement == <<stopping, retired, retiring, toClose, gone>>
loops == <<cancel, done, loop, cancelled>>
callers == <<client, kind, channel, after>>

Loops == 1 .. MaxLoops
Live == {"start", "top", "dial", "open", "backoff"}

TypeOK ==
  /\ consumers \in Nat /\ closed \in BOOLEAN /\ stopping \in BOOLEAN
  /\ retired \in 0 .. MaxLoops /\ cancel \in 0 .. MaxLoops /\ done \in 0 .. MaxLoops
  /\ idle \in Nat /\ idleGen \in Nat /\ pending \subseteq Nat /\ fired \subseteq Nat
  /\ seq \in Nat /\ fresh \in BOOLEAN
  /\ loop \in [Loops -> Live \cup {"none", "failed", "exited"}]
  /\ cancelled \subseteq Loops
  /\ retiring \in [Loops -> {"none", "cancel", "wait", "over"}]
  /\ toClose \subseteq 0 .. MaxLoops /\ gone \subseteq 0 .. MaxLoops
  /\ client \in [Clients -> {"out", "acquire", "retired", "look", "select", "leave"}]
  /\ kind \in [Clients -> {"wait", "snapshot"}]
  /\ channel \in [Clients -> Nat]
  /\ after \in [Clients -> Nat]
  /\ manager \in {"open", "closed", "cancel", "wait", "returned"}

Init ==
  /\ consumers = 0 /\ closed = FALSE /\ stopping = FALSE
  /\ retired = 0 /\ idle = 0 /\ idleGen = 0 /\ cancel = 0 /\ done = 0
  /\ seq = 0 /\ fresh = FALSE
  /\ loop = [l \in Loops |-> "none"]
  /\ cancelled = {} /\ pending = {} /\ fired = {} /\ toClose = {} /\ gone = {}
  /\ retiring = [l \in Loops |-> "none"]
  /\ client = [c \in Clients |-> "out"]
  /\ kind = [c \in Clients |-> "wait"]
  /\ channel = [c \in Clients |-> 0]
  /\ after = [c \in Clients |-> 0]
  /\ manager = "open"

-----------------------------------------------------------------------------
(* acquire's end: count the consumer, start a loop if none is live.        *)
Join(c) ==
  /\ client' = [client EXCEPT ![c] = "look"]
  /\ \/ /\ closed
        /\ UNCHANGED <<consumers, loops>>
     \/ /\ ~closed
        /\ consumers' = consumers + 1
        /\ \/ cancel # 0 /\ UNCHANGED loops
           \/ /\ cancel = 0 /\ done < MaxLoops
              /\ done' = done + 1
              /\ cancel' = done'
              /\ loop' = [loop EXCEPT ![done'] = "start"]
              /\ UNCHANGED cancelled
  /\ UNCHANGED channel

\* Mutant: a retirement under way does not hold up the caller.
JoinAnyway(c) == Join(c)

(* A loop is still retiring: block until its retired channel is closed.    *)
AwaitRetired(c) ==
  /\ client' = [client EXCEPT ![c] = "retired"]
  /\ channel' = [channel EXCEPT ![c] = retired]
  /\ UNCHANGED <<consumers, loops>>

(* Manager.get hands out the capture until Close; snapshot or wait starts. *)
Call(c, k) ==
  /\ client[c] = "out" /\ manager = "open"
  /\ client' = [client EXCEPT ![c] = "acquire"]
  /\ kind' = [kind EXCEPT ![c] = k]
  /\ UNCHANGED <<consumers, closed, retirement, timers, frames, loops, channel, after, manager>>

\* Mutant: a caller that was held up joins with the capture it left.
ResumeOnce(c) ==
  /\ client[c] = "retired" /\ channel[c] \in gone
  /\ client' = [client EXCEPT ![c] = "look"]
  /\ consumers' = consumers + 1
  /\ UNCHANGED <<channel, loops, closed, retirement, timers, frames, kind, after, manager>>

(* acquire: the pending idle timer is stopped first.  Stop comes too late  *)
(* for a timer whose callback has begun.                                   *)
Acquire(c) ==
  /\ client[c] = "acquire"
  /\ \/ /\ closed
        /\ Join(c)
        /\ UNCHANGED timers
     \/ /\ ~closed
        /\ pending' = pending \ {idle}
        /\ idle' = 0
        /\ UNCHANGED <<idleGen, fired>>
        /\ IF cancel = 0 /\ stopping THEN AwaitRetired(c) ELSE Join(c)
  /\ UNCHANGED <<closed, retirement, frames, kind, after, manager>>

AcquireResume(c) ==
  /\ client[c] = "retired" /\ channel[c] \in gone
  /\ IF cancel = 0 /\ stopping THEN AwaitRetired(c) ELSE Join(c)
  /\ UNCHANGED <<closed, retirement, timers, frames, kind, after, manager>>

(* What the call is for: a frame after the last, or one that is fresh.     *)
Satisfied(c) == IF kind[c] = "wait" THEN seq > after[c] ELSE fresh

\* Mutant: the channel is taken after a frame may have been published.
LookLate(c) ==
  /\ client[c] = "look"
  /\ \/ /\ closed \/ Satisfied(c)
        /\ client' = [client EXCEPT ![c] = "leave"]
        /\ after' = [after EXCEPT ![c] = IF closed THEN @ ELSE seq]
        /\ UNCHANGED channel
     \/ /\ ~closed /\ ~Satisfied(c)
        /\ client' = [client EXCEPT ![c] = "select"]
        /\ channel' = [channel EXCEPT ![c] = seq + 1]
        /\ UNCHANGED after
  /\ UNCHANGED <<consumers, closed, retirement, timers, frames, loops, kind, manager>>

(* The frame and the notify channel are read under one lock.               *)
Look(c) ==
  /\ client[c] = "look"
  /\ \/ /\ closed \/ Satisfied(c)
        /\ client' = [client EXCEPT ![c] = "leave"]
        /\ after' = [after EXCEPT ![c] = IF closed THEN @ ELSE seq]
        /\ UNCHANGED channel
     \/ /\ ~closed /\ ~Satisfied(c)
        /\ client' = [client EXCEPT ![c] = "select"]
        /\ channel' = [channel EXCEPT ![c] = seq]
        /\ UNCHANGED after
  /\ UNCHANGED <<consumers, closed, retirement, timers, frames, loops, kind, manager>>

\* Mutant: close() leaves the notify channel open.
NotifiedByFrames(c) ==
  /\ client[c] = "select" /\ channel[c] < seq
  /\ client' = [client EXCEPT ![c] = "look"]
  /\ UNCHANGED <<consumers, closed, retirement, timers, frames, loops, kind, channel, after, manager>>

(* The channel was closed by a publication or by close().                  *)
Notified(c) ==
  /\ client[c] = "select" /\ (channel[c] < seq \/ closed)
  /\ client' = [client EXCEPT ![c] = "look"]
  /\ UNCHANGED <<consumers, closed, retirement, timers, frames, loops, kind, channel, after, manager>>

(* The caller's context ends or the wait's timer runs out.                 *)
GiveUp(c) ==
  /\ client[c] = "select"
  /\ client' = [client EXCEPT ![c] = "leave"]
  /\ UNCHANGED <<consumers, closed, retirement, timers, frames, loops, kind, channel, after, manager>>

\* Mutant: a timer is armed only if none is remembered.
ReleaseOnce(c) ==
  /\ client[c] = "leave"
  /\ client' = [client EXCEPT ![c] = "out"]
  /\ kind' = [kind EXCEPT ![c] = "wait"] /\ channel' = [channel EXCEPT ![c] = 0]
  /\ consumers' = IF consumers > 0 THEN consumers - 1 ELSE 0
  /\ \/ /\ consumers' = 0 /\ cancel # 0 /\ ~closed /\ idle = 0 /\ idleGen < MaxGen
        /\ idleGen' = idleGen + 1
        /\ idle' = idleGen'
        /\ pending' = pending \cup {idleGen'}
        /\ UNCHANGED fired
     \/ ~(consumers' = 0 /\ cancel # 0 /\ ~closed /\ idle = 0) /\ UNCHANGED timers
  /\ UNCHANGED <<closed, retirement, frames, loops, after, manager>>

(* release: the last consumer arms an idle timer of a new generation.  The *)
(* locals of the call (kind, channel) end with it.                         *)
Release(c) ==
  /\ client[c] = "leave"
  /\ client' = [client EXCEPT ![c] = "out"]
  /\ kind' = [kind EXCEPT ![c] = "wait"] /\ channel' = [channel EXCEPT ![c] = 0]
  /\ consumers' = IF consumers > 0 THEN consumers - 1 ELSE 0
  /\ \/ /\ consumers' = 0 /\ cancel # 0 /\ ~closed /\ idleGen < MaxGen
        /\ idleGen' = idleGen + 1
        /\ idle' = idleGen'
        /\ pending' = pending \cup {idleGen'}
        /\ UNCHANGED fired
     \/ ~(consumers' = 0 /\ cancel # 0 /\ ~closed) /\ UNCHANGED timers
  /\ UNCHANGED <<closed, retirement, frames, loops, after, manager>>

-----------------------------------------------------------------------------
Fire(g) ==
  /\ g \in pending
  /\ pending' = pending \ {g}
  /\ fired' = fired \cup {g}
  /\ UNCHANGED <<idle, idleGen, consumers, closed, retirement, frames, loops, callers, manager>>

StopIdleRejected(g) ==
  /\ g \in fired
  /\ g # idleGen \/ closed \/ consumers > 0 \/ cancel = 0
  /\ fired' = fired \ {g}
  /\ UNCHANGED <<idle, idleGen, pending, consumers, closed, retirement, frames, loops, callers, manager>>

\* Mutant: a callback delayed past its own grace is not told apart.
StopIdleAnyGen(g) ==
  /\ g \in fired
  /\ ~closed /\ consumers = 0 /\ cancel # 0
  /\ fired' = fired \ {g}
  /\ cancel' = 0
  /\ stopping' = TRUE
  /\ retired' = cancel
  /\ idle' = 0
  /\ retiring' = [retiring EXCEPT ![cancel] = "cancel"]
  /\ UNCHANGED <<idleGen, pending, consumers, closed, toClose, gone, frames, done, loop, cancelled, callers, manager>>

\* Mutant: the callback does not look for new consumers.
StopIdleInUse(g) ==
  /\ g \in fired
  /\ g = idleGen /\ ~closed /\ cancel # 0
  /\ fired' = fired \ {g}
  /\ cancel' = 0
  /\ stopping' = TRUE
  /\ retired' = cancel
  /\ idle' = 0
  /\ retiring' = [retiring EXCEPT ![cancel] = "cancel"]
  /\ UNCHANGED <<idleGen, pending, consumers, closed, toClose, gone, frames, done, loop, cancelled, callers, manager>>

(* stopIdle up to its first unlock.                                        *)
StopIdle(g) ==
  /\ g \in fired
  /\ g = idleGen /\ ~closed /\ consumers = 0 /\ cancel # 0
  /\ fired' = fired \ {g}
  /\ cancel' = 0
  /\ stopping' = TRUE
  /\ retired' = cancel
  /\ idle' = 0
  /\ retiring' = [retiring EXCEPT ![cancel] = "cancel"]
  /\ UNCHANGED <<idleGen, pending, consumers, closed, toClose, gone, frames, done, loop, cancelled, callers, manager>>

StopIdleCancel(l) ==
  /\ retiring[l] = "cancel"
  /\ retiring' = [retiring EXCEPT ![l] = "wait"]
  /\ cancelled' = cancelled \cup {l}
  /\ UNCHANGED <<stopping, retired, toClose, gone, timers, consumers, closed, frames, cancel, done, loop, callers, manager>>

(* <-done, then the flag is cleared under the lock.                        *)
StopIdleDone(l) ==
  /\ retiring[l] = "wait" /\ loop[l] \in {"failed", "exited"}
  /\ retiring' = [retiring EXCEPT ![l] = "over"]
  /\ stopping' = FALSE
  /\ toClose' = toClose \cup {retired}
  /\ UNCHANGED <<retired, gone, timers, consumers, closed, frames, loops, callers, manager>>

StopIdleClose(ch) ==
  /\ ch \in toClose
  /\ toClose' = toClose \ {ch}
  /\ gone' = gone \cup {ch}
  /\ UNCHANGED <<stopping, retired, retiring, timers, consumers, closed, frames, loops, callers, manager>>

-----------------------------------------------------------------------------
Step(l, from, to) ==
  /\ loop[l] = from
  /\ loop' = [loop EXCEPT ![l] = to]
  /\ UNCHANGED <<consumers, closed, retirement, timers, frames, cancel, done, cancelled, callers, manager>>

(* run: no address, no capture; the loop exits and c.cancel stays.         *)
NoEndpoint(l) == Step(l, "start", "failed")
Endpoint(l) == Step(l, "start", "top")

(* The head of run's loop.                                                 *)
Attempt(l) == l \notin cancelled /\ Step(l, "top", "dial")
AttemptCancelled(l) == l \in cancelled /\ Step(l, "top", "exited")

(* streamOnce: a dial that is cancelled half way may still succeed.        *)
Connected(l) == Step(l, "dial", "open")
ConnectFailed(l) == Step(l, "dial", "backoff")

(* The connection is closed by the context.                                *)
StreamCancelled(l) == l \in cancelled /\ Step(l, "open", "exited")

(* A read fails: c.cancel tells a retired loop from a lost connection; the *)
(* FFmpeg loop asks its context only.                                      *)
StreamLost(l) ==
  /\ l \notin cancelled
  /\ \/ cancel # 0 /\ Step(l, "open", "backoff")
     \/ cancel = 0 /\ \E to \in {"backoff", "exited"} : Step(l, "open", to)

Backoff(l) ==
  \/ Step(l, "backoff", "top")
  \/ l \in cancelled /\ Step(l, "backoff", "exited")

(* publish: also by a loop that has been cancelled and still holds a frame.*)
Publish(l) ==
  /\ loop[l] = "open" /\ ~closed /\ seq < MaxSeq
  /\ seq' = seq + 1
  /\ fresh' = TRUE
  /\ UNCHANGED <<consumers, closed, retirement, timers, loops, callers, manager>>

(* snapshotMaxAge passes.                                                  *)
Age ==
  /\ fresh
  /\ fresh' = FALSE
  /\ UNCHANGED <<seq, consumers, closed, retirement, timers, loops, callers, manager>>

-----------------------------------------------------------------------------
(* Manager.Close: no more captures are handed out; then the capture's.     *)
ManagerClose ==
  /\ manager = "open"
  /\ manager' = "closed"
  /\ UNCHANGED <<consumers, closed, retirement, timers, frames, loops, callers>>

\* Mutant: a loop that is retiring is not waited for.
CloseMarkLive ==
  /\ manager = "closed"
  /\ closed' = TRUE
  /\ pending' = pending \ {idle}
  /\ idle' = 0
  /\ cancel' = 0
  /\ manager' = IF cancel # 0 THEN "cancel" ELSE "returned"
  /\ UNCHANGED <<idleGen, fired, consumers, retirement, frames, done, loop, cancelled, callers>>

(* close up to its unlock; every waiter's channel is closed with closed.   *)
CloseMark ==
  /\ manager = "closed"
  /\ closed' = TRUE
  /\ pending' = pending \ {idle}
  /\ idle' = 0
  /\ cancel' = 0
  /\ manager' = IF cancel # 0 THEN "cancel" ELSE IF stopping THEN "wait" ELSE "returned"
  /\ UNCHANGED <<idleGen, fired, consumers, retirement, frames, done, loop, cancelled, callers>>

CloseCancel ==
  /\ manager = "cancel"
  /\ manager' = "wait"
  /\ cancelled' = cancelled \cup {done}
  /\ UNCHANGED <<consumers, closed, retirement, timers, frames, cancel, done, loop, callers>>

CloseDone ==
  /\ manager = "wait" /\ loop[done] \in {"failed", "exited"}
  /\ manager' = "returned"
  /\ UNCHANGED <<consumers, closed, retirement, timers, frames, loops, callers>>

-----------------------------------------------------------------------------
ClientStep(c) == Acquire(c) \/ AcquireResume(c) \/ Look(c) \/ Notified(c) \/ Release(c)
IdleStep(g) == Fire(g) \/ StopIdleRejected(g) \/ StopIdle(g)
RetireStep(l) == StopIdleCancel(l) \/ StopIdleDone(l)
LoopStep(l) ==
  \/ NoEndpoint(l) \/ Endpoint(l) \/ Attempt(l) \/ AttemptCancelled(l) \/ Connected(l)
  \/ ConnectFailed(l) \/ StreamCancelled(l) \/ StreamLost(l) \/ Backoff(l)
CloseStep == CloseMark \/ CloseCancel \/ CloseDone

Next ==
  \/ \E c \in Clients : ClientStep(c) \/ GiveUp(c) \/ \E k \in Kinds : Call(c, k)
  \/ \E g \in 1 .. MaxGen : IdleStep(g)
  \/ \E l \in Loops : RetireStep(l) \/ LoopStep(l) \/ Publish(l)
  \/ \E ch \in 0 .. MaxLoops : StopIdleClose(ch)
  \/ Age
  \/ ManagerClose \/ CloseStep

Spec == Init /\ [][Next]_vars

(* Runtime timers fire and goroutines that can go on are scheduled; the    *)
(* network owes nothing, but a cancelled loop is not held by it: its dial  *)
(* has a deadline and its connection is closed.  Nobody has to call Close. *)
FairSpec ==
  /\ Spec
  /\ \A c \in Clients : WF_vars(ClientStep(c))
  /\ \A g \in 1 .. MaxGen : WF_vars(IdleStep(g))
  /\ \A l \in Loops : WF_vars(RetireStep(l)) /\ WF_vars(l \in cancelled /\ LoopStep(l))
  /\ \A ch \in 0 .. MaxLoops : WF_vars(StopIdleClose(ch))
  /\ WF_vars(CloseStep)

-----------------------------------------------------------------------------
Running(l) == loop[l] \in Live

(* The printer allows one camera connection: no two loops are ever live,   *)
(* whatever acquire, the idle stop and a retirement do at the same time.   *)
OneConnection == \A l, m \in Loops : Running(l) /\ Running(m) => l = m

(* A counted consumer is on a loop that nobody is stopping: a consumer is  *)
(* never left waiting for frames of a loop that has been retired.          *)
ConsumersServed ==
  consumers > 0 /\ ~closed => cancel # 0 /\ cancel \notin cancelled /\ loop[cancel] # "exited"

(* Once Close has returned no loop runs, and none starts later.            *)
ClosedIsQuiet == manager = "returned" => \A l \in Loops : ~Running(l)

(* A capture nobody uses, by the calls between their acquire and their     *)
(* release and not by its own count, has a timer of the current generation *)
(* under way to stop it: stopping, replacing and rejecting timers loses    *)
(* none, and the count is of those calls, no more and no fewer.            *)
IdleIsTimed ==
  LET using == {c \in Clients : client[c] \in {"look", "select", "leave"}}
  IN  ~closed =>
        /\ consumers = Cardinality(using)
        /\ using = {} /\ cancel # 0 => idleGen \in pending \cup fired

(* A caller asleep on the channel of the next frame has not missed one.    *)
NoMissedFrame ==
  \A c \in Clients :
    client[c] = "select" /\ kind[c] = "wait" /\ channel[c] = seq /\ ~closed => seq <= after[c]

(* The capture as its callers see it: a camera lent to those between their *)
(* acquire and their release, over a connection that is on while the       *)
(* capture has a loop it can cancel and draining while a loop it gave up   *)
(* has not ended.  Whatever the timers, retirements and Close do, it keeps *)
(* the promise of CameraLease.                                             *)
Holders == {c \in Clients : client[c] \in {"look", "select", "leave"} /\ ~closed}
Connection ==
  IF cancel # 0 THEN "on" ELSE IF \E l \in Loops : Running(l) THEN "draining" ELSE "off"
Closedness == IF ~closed THEN "no" ELSE IF manager = "returned" THEN "closed" ELSE "closing"

Lease == INSTANCE CameraLease WITH
  holders <- Holders, stream <- Connection, shut <- Closedness, frame <- seq, given <- after
LeaseKept == Lease!Spec

(* The loop is retired on the word of the latest timer only: one armed by  *)
(* an earlier release never cuts short the grace of a later one.           *)
GraceIsTheLast ==
  [][\A g \in fired : (g \notin fired' /\ cancel' # cancel) => \A h \in pending : h < g]_vars

(* A capture that stays idle is stopped.                                   *)
IdleStops == consumers = 0 /\ cancel # 0 /\ ~closed ~> consumers > 0 \/ cancel = 0

(* Close returns and every caller with it, retiring loops included.        *)
CloseEnds == manager # "open" ~> manager = "returned" /\ \A c \in Clients : client[c] = "out"
=============================================================================
