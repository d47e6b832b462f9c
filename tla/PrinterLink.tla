------------------------------ MODULE PrinterLink ------------------------------
(***************************************************************************)
(* One printer's MQTT link (internal/printer/link.go) and the client       *)
(* library underneath it.  The library runs the link's callbacks on        *)
(* goroutines of their own: connected(e) for connection number e, lost(e)  *)
(* for its loss, and reconnecting() on the library's own goroutine before  *)
(* every attempt to replace a lost connection.  Any of them may be         *)
(* delayed while the others run.  Link.mu makes each access to online,     *)
(* closed and cancel atomic, so a critical section under mu is one action; *)
(* link.transitions is held across the observer's notification, so it is   *)
(* a lock variable.                                                        *)
(***************************************************************************)
EXTENDS Naturals

CONSTANT MaxConn \* bound: connections the library opens in a behaviour

ASSUME BoundAssumption == MaxConn \in Nat

Conns == 1 .. MaxConn

VARIABLES
  epoch,        \* library: number of the newest connection, 0 before the first
  open,         \* library: IsConnectionOpen()
  dialer,       \* library: where its connect/reconnect goroutine is
  stopped,      \* library: Disconnect was called
  subscribed,   \* printer: connections whose report subscription it granted
  online,       \* link.online
  closed,       \* link.closed
  current,      \* link.cancel: the connected() call whose context it cancels, or 0
  cancelled,    \* connected() calls whose context has been cancelled
  transitions,  \* link.transitions: unlocked, or its holder and what it notifies
  observed,     \* the status the onOnline observer last received
  handler,      \* handler[e]: where connected() for connection e is
  sentOn,       \* sentOn[e]: connection that carried connected(e)'s last SUBSCRIBE
  token,        \* token[e]: that subscription's token
  loss,         \* loss[e]: where lost() for connection e is
  closer        \* where close() is

vars == <<epoch, open, dialer, stopped, subscribed, online, closed, current,
          cancelled, transitions, observed, handler, sentOn, token, loss, closer>>
paho == <<epoch, open, stopped, subscribed>>
link == <<online, closed, current, cancelled>>

Unlocked == [holder |-> <<"none", 0>>, value |-> FALSE]

(* Where each goroutine of the link can be. *)
HandlerPc == {"none", "start", "offline", "notifyOffline", "loop", "subscribe",
              "await", "check", "push", "online", "notifyOnline", "backoff",
              "return", "done"}
DialerPc  == {"new", "idle", "cancel", "offline", "notify", "dial"}
LossPc    == {"none", "start", "notify", "done"}
CloserPc  == {"none", "disconnect", "offline", "notify", "done"}
Callers   == ({"connected", "lost"} \X Conns) \cup {<<"reconnecting", 0>>, <<"close", 0>>}

TypeOK ==
  /\ epoch \in 0 .. MaxConn
  /\ open \in BOOLEAN /\ stopped \in BOOLEAN
  /\ online \in BOOLEAN /\ closed \in BOOLEAN /\ observed \in BOOLEAN
  /\ dialer \in DialerPc /\ closer \in CloserPc
  /\ subscribed \subseteq Conns /\ cancelled \subseteq Conns
  /\ current \in 0 .. MaxConn
  /\ transitions \in [holder : Callers \cup {<<"none", 0>>}, value : BOOLEAN]
  /\ handler \in [Conns -> HandlerPc]
  /\ sentOn \in [Conns -> 0 .. MaxConn]
  /\ token \in [Conns -> {"none", "pending", "granted", "failed"}]
  /\ loss \in [Conns -> LossPc]

Init ==
  /\ epoch = 0 /\ open = FALSE /\ dialer = "new" /\ stopped = FALSE
  /\ subscribed = {}
  /\ online = FALSE /\ closed = FALSE /\ current = 0 /\ cancelled = {}
  /\ transitions = Unlocked /\ observed = FALSE
  /\ handler = [e \in Conns |-> "none"]
  /\ sentOn = [e \in Conns |-> 0]
  /\ token = [e \in Conns |-> "none"]
  /\ loss = [e \in Conns |-> "none"]
  /\ closer = "none"

-----------------------------------------------------------------------------
\* Mutant: the earlier context is left running.
CancelNothing == cancelled

(* Link.cancel(): ends the context of the connected() call it belongs to.  *)
CancelCurrent == cancelled \cup ({current} \cap Conns)

(* The critical section of setOnline: the status becomes value.  When that *)
(* changes it, the caller goes on to notify with transitions held;         *)
(* otherwise transitions is released at once.                              *)
SetStatus(caller, value) ==
  /\ transitions = Unlocked
  /\ online' = value
  /\ transitions' = IF online = value THEN Unlocked
                    ELSE [holder |-> caller, value |-> value]

\* Mutant: transitions stays locked after the notification.
NotifyKeepsLock(caller) ==
  /\ transitions.holder = caller
  /\ observed' = transitions.value
  /\ UNCHANGED transitions

(* The observer receives the computed status and transitions is released.  *)
Notify(caller) ==
  /\ transitions.holder = caller
  /\ observed' = transitions.value
  /\ transitions' = Unlocked

At(e, pc) == handler[e] = pc
Goto(e, pc) == handler' = [handler EXCEPT ![e] = pc]

-----------------------------------------------------------------------------
(* The client library and the printer. *)

(* Links.Start, once and never after Links.Close: Connect() begins to dial. *)
Start ==
  /\ dialer = "new" /\ ~closed
  /\ dialer' = "dial"
  /\ UNCHANGED <<paho, link, transitions, observed, handler, sentOn, token, loss, closer>>

(* A dial succeeds: the connection opens and connected() gets a goroutine. *)
Opened ==
  /\ dialer = "dial" /\ ~stopped /\ epoch < MaxConn
  /\ epoch' = epoch + 1
  /\ open' = TRUE
  /\ dialer' = "idle"
  /\ Goto(epoch + 1, "start")
  /\ UNCHANGED <<stopped, subscribed, link, transitions, observed, sentOn, token, loss, closer>>

(* A dial of a replacement fails: reconnecting() runs before the next one. *)
DialFailed ==
  /\ dialer = "dial" /\ ~stopped /\ epoch > 0
  /\ dialer' = "cancel"
  /\ UNCHANGED <<paho, link, transitions, observed, handler, sentOn, token, loss, closer>>

(* The open connection breaks: lost() gets a goroutine, and the reconnect  *)
(* goroutine begins with the reconnecting() handler.                       *)
Broken ==
  /\ open
  /\ open' = FALSE
  /\ loss' = [loss EXCEPT ![epoch] = "start"]
  /\ dialer' = "cancel"
  /\ UNCHANGED <<epoch, stopped, subscribed, link, transitions, observed, handler, sentOn, token, closer>>

(* The printer answers a subscription on the connection that carried it.   *)
Suback(e) ==
  /\ token[e] = "pending" /\ open /\ sentOn[e] = epoch
  /\ \/ /\ token' = [token EXCEPT ![e] = "granted"]
        /\ subscribed' = subscribed \cup {epoch}
     \/ /\ token' = [token EXCEPT ![e] = "failed"]
        /\ UNCHANGED subscribed
  /\ UNCHANGED <<epoch, open, stopped, dialer, link, transitions, observed, handler, sentOn, loss, closer>>

(* A subscription whose connection is gone ends with an error.             *)
TokenLost(e) ==
  /\ token[e] = "pending" /\ (~open \/ sentOn[e] # epoch)
  /\ token' = [token EXCEPT ![e] = "failed"]
  /\ UNCHANGED <<paho, dialer, link, transitions, observed, handler, sentOn, loss, closer>>

-----------------------------------------------------------------------------
(* connected(): establishes the report subscription on connection e. *)

ConnectedStart(e) ==
  /\ At(e, "start")
  /\ IF closed
     THEN /\ Goto(e, "done")
          /\ UNCHANGED <<cancelled, current>>
     ELSE /\ cancelled' = CancelCurrent
          /\ current' = e
          /\ Goto(e, "offline")
  /\ UNCHANGED <<paho, dialer, online, closed, transitions, observed, sentOn, token, loss, closer>>

ConnectedOffline(e) ==
  /\ At(e, "offline")
  /\ SetStatus(<<"connected", e>>, FALSE)
  /\ Goto(e, IF online THEN "notifyOffline" ELSE "loop")
  /\ UNCHANGED <<paho, dialer, closed, current, cancelled, observed, sentOn, token, loss, closer>>

ConnectedNotify(e) ==
  /\ \/ At(e, "notifyOffline") /\ Goto(e, "loop")
     \/ At(e, "notifyOnline") /\ Goto(e, "return")
  /\ Notify(<<"connected", e>>)
  /\ UNCHANGED <<paho, dialer, link, sentOn, token, loss, closer>>

(* The loop's condition: a live context on an open connection.             *)
Serving(e) == e \notin cancelled /\ open

ConnectedLoop(e) ==
  /\ At(e, "loop")
  /\ Goto(e, IF Serving(e) THEN "subscribe" ELSE "return")
  /\ UNCHANGED <<paho, dialer, link, transitions, observed, sentOn, token, loss, closer>>

(* Subscribe on whatever connection is open by now, if any.                *)
ConnectedSubscribe(e) ==
  /\ At(e, "subscribe")
  /\ sentOn' = [sentOn EXCEPT ![e] = epoch]
  /\ token' = [token EXCEPT ![e] = IF open THEN "pending" ELSE "failed"]
  /\ Goto(e, "await")
  /\ UNCHANGED <<paho, dialer, link, transitions, observed, loss, closer>>

(* The select on the token and the context; either may be taken when both  *)
(* are ready.                                                              *)
ConnectedAwait(e) ==
  /\ At(e, "await")
  /\ \/ e \in cancelled /\ Goto(e, "return")
     \/ token[e] # "pending" /\ Goto(e, "check")
  /\ UNCHANGED <<paho, dialer, link, transitions, observed, sentOn, token, loss, closer>>

ConnectedCheck(e) ==
  /\ At(e, "check")
  /\ Goto(e, CASE ~Serving(e) -> "return"
               [] Serving(e) /\ token[e] = "granted" -> "push"
               [] OTHER -> "backoff")
  /\ UNCHANGED <<paho, dialer, link, transitions, observed, sentOn, token, loss, closer>>

(* The pushall publish: its outcome is only logged, but waiting for it     *)
(* takes up to five seconds.                                               *)
ConnectedPush(e) ==
  /\ At(e, "push")
  /\ Goto(e, "online")
  /\ UNCHANGED <<paho, dialer, link, transitions, observed, sentOn, token, loss, closer>>

(* setOnline(ctx, true): the status it writes is computed under mu.        *)
OnlineValue(e) == ~closed /\ e \notin cancelled /\ open

ConnectedOnline(e) ==
  /\ At(e, "online")
  /\ SetStatus(<<"connected", e>>, OnlineValue(e))
  /\ Goto(e, IF online # OnlineValue(e) THEN "notifyOnline" ELSE "return")
  /\ UNCHANGED <<paho, dialer, closed, current, cancelled, observed, sentOn, token, loss, closer>>

(* Ten seconds after a refusal, unless the context ends first.             *)
ConnectedBackoff(e) ==
  /\ At(e, "backoff")
  /\ \/ e \in cancelled /\ Goto(e, "return")
     \/ Goto(e, "loop")
  /\ UNCHANGED <<paho, dialer, link, transitions, observed, sentOn, token, loss, closer>>

(* The deferred cancel of the call's own context.                          *)
ConnectedReturn(e) ==
  /\ At(e, "return")
  /\ cancelled' = cancelled \cup {e}
  /\ Goto(e, "done")
  /\ UNCHANGED <<paho, dialer, online, closed, current, transitions, observed, sentOn, token, loss, closer>>

Connected(e) ==
  \/ ConnectedStart(e) \/ ConnectedOffline(e) \/ ConnectedNotify(e)
  \/ ConnectedLoop(e) \/ ConnectedSubscribe(e) \/ ConnectedAwait(e)
  \/ ConnectedCheck(e) \/ ConnectedPush(e) \/ ConnectedOnline(e)
  \/ ConnectedBackoff(e) \/ ConnectedReturn(e)

-----------------------------------------------------------------------------
(* reconnecting(): runs on the library's goroutine, which dials only after *)
(* it has returned.                                                        *)

ReconnectingCancel ==
  /\ dialer = "cancel"
  /\ cancelled' = CancelCurrent
  /\ dialer' = "offline"
  /\ UNCHANGED <<paho, online, closed, current, transitions, observed, handler, sentOn, token, loss, closer>>

ReconnectingOffline ==
  /\ dialer = "offline"
  /\ SetStatus(<<"reconnecting", 0>>, FALSE)
  /\ dialer' = IF online THEN "notify" ELSE "dial"
  /\ UNCHANGED <<paho, closed, current, cancelled, observed, handler, sentOn, token, loss, closer>>

ReconnectingNotify ==
  /\ dialer = "notify"
  /\ Notify(<<"reconnecting", 0>>)
  /\ dialer' = "dial"
  /\ UNCHANGED <<paho, link, handler, sentOn, token, loss, closer>>

Reconnecting == ReconnectingCancel \/ ReconnectingOffline \/ ReconnectingNotify

\* Mutant: lost() takes the link offline without telling the observer.
LostSilently(e) ==
  /\ loss[e] = "start"
  /\ transitions = Unlocked
  /\ online' = IF open \/ closed THEN online ELSE FALSE
  /\ cancelled' = IF open \/ closed THEN cancelled ELSE CancelCurrent
  /\ loss' = [loss EXCEPT ![e] = "done"]
  /\ UNCHANGED <<paho, dialer, closed, current, transitions, observed, handler, sentOn, token, closer>>

\* Mutant: lost() does not ask whether another connection is open.
LostAnyway(e) ==
  /\ loss[e] = "start"
  /\ IF closed
     THEN /\ transitions = Unlocked
          /\ loss' = [loss EXCEPT ![e] = "done"]
          /\ UNCHANGED <<online, cancelled, transitions>>
     ELSE /\ SetStatus(<<"lost", e>>, FALSE)
          /\ cancelled' = CancelCurrent
          /\ loss' = [loss EXCEPT ![e] = IF online THEN "notify" ELSE "done"]
  /\ UNCHANGED <<paho, dialer, closed, current, observed, handler, sentOn, token, closer>>

(* lost(): a loss delivered while another connection is open, or after     *)
(* close, changes nothing.                                                 *)
LostOffline(e) ==
  /\ loss[e] = "start"
  /\ IF open \/ closed
     THEN /\ transitions = Unlocked
          /\ loss' = [loss EXCEPT ![e] = "done"]
          /\ UNCHANGED <<online, cancelled, transitions>>
     ELSE /\ SetStatus(<<"lost", e>>, FALSE)
          /\ cancelled' = CancelCurrent
          /\ loss' = [loss EXCEPT ![e] = IF online THEN "notify" ELSE "done"]
  /\ UNCHANGED <<paho, dialer, closed, current, observed, handler, sentOn, token, closer>>

LostNotify(e) ==
  /\ loss[e] = "notify"
  /\ Notify(<<"lost", e>>)
  /\ loss' = [loss EXCEPT ![e] = "done"]
  /\ UNCHANGED <<paho, dialer, link, handler, sentOn, token, closer>>

Lost(e) == LostOffline(e) \/ LostNotify(e)

-----------------------------------------------------------------------------
(* close(): called once, by Links.Close. *)

CloseMark ==
  /\ closer = "none"
  /\ closed' = TRUE
  /\ cancelled' = CancelCurrent
  /\ closer' = "disconnect"
  /\ UNCHANGED <<paho, dialer, online, current, transitions, observed, handler, sentOn, token, loss>>

(* Disconnect ends the socket and every later dial, without a loss.        *)
CloseDisconnect ==
  /\ closer = "disconnect"
  /\ open' = FALSE
  /\ stopped' = TRUE
  /\ closer' = "offline"
  /\ UNCHANGED <<epoch, subscribed, dialer, link, transitions, observed, handler, sentOn, token, loss>>

\* Mutant: close() leaves the status to the callbacks.
CloseWithoutOffline ==
  /\ closer = "offline"
  /\ closer' = "done"
  /\ UNCHANGED <<paho, dialer, link, transitions, observed, handler, sentOn, token, loss>>

CloseOffline ==
  /\ closer = "offline"
  /\ SetStatus(<<"close", 0>>, FALSE)
  /\ closer' = IF online THEN "notify" ELSE "done"
  /\ UNCHANGED <<paho, dialer, closed, current, cancelled, observed, handler, sentOn, token, loss>>

CloseNotify ==
  /\ closer = "notify"
  /\ Notify(<<"close", 0>>)
  /\ closer' = "done"
  /\ UNCHANGED <<paho, dialer, link, handler, sentOn, token, loss>>

Close == CloseMark \/ CloseDisconnect \/ CloseOffline \/ CloseNotify

-----------------------------------------------------------------------------
Environment == Start \/ Opened \/ DialFailed \/ Broken
               \/ \E e \in Conns : Suback(e) \/ TokenLost(e)

Goroutine(e) == Connected(e) \/ Lost(e)

Next ==
  \/ Environment
  \/ \E e \in Conns : Goroutine(e)
  \/ Reconnecting
  \/ Close

Spec == Init /\ [][Next]_vars

(* Goroutines that can run do run; close() finishes once called; a token   *)
(* resolves; a refused subscription is eventually granted; dials are       *)
(* repeated until one succeeds.  Nothing obliges a connection to break or  *)
(* the link to be closed.                                                  *)
Fairness ==
  /\ \A e \in Conns : /\ WF_vars(Connected(e))
                      /\ WF_vars(Lost(e))
                      /\ WF_vars(TokenLost(e))
                      /\ WF_vars(Suback(e))
                      /\ SF_vars(Suback(e) /\ subscribed' # subscribed)
  /\ WF_vars(Start) /\ SF_vars(Opened) /\ WF_vars(Reconnecting)
  /\ WF_vars(CloseDisconnect \/ CloseOffline \/ CloseNotify)

FairSpec == Spec /\ Fairness

-----------------------------------------------------------------------------
(* isOnline(): what Links.Online and the guard of Links.Send report.       *)
IsOnline == ~closed /\ online /\ open

(* No module is told a printer can take commands before the printer has    *)
(* granted the subscription of the connection that is open now: neither a  *)
(* delayed connected() of an earlier connection nor a token answered on    *)
(* one can bring the link online.                                          *)
OnlineIsSubscribed == IsOnline => epoch \in subscribed

(* Whenever no status change is in progress, the observer's last           *)
(* notification is the link's status, however the callbacks interleave.    *)
ObserverAgrees == transitions = Unlocked => observed = online

(* The observer is told every change of the status exactly once and in     *)
(* order, and the status does not change while it is told, whichever       *)
(* callbacks computed the changes: the link implements StatusFeed.         *)
Feed == INSTANCE StatusFeed WITH status <- online, told <- observed, busy <- transitions # Unlocked
FeedKept == Feed!Spec

(* Once close() has returned, the link is offline, its observer knows it,  *)
(* and no callback still running reverses either.                          *)
ClosedIsOffline == closer = "done" => ~online /\ ~observed

(* The callbacks of connection e have returned.                            *)
Returned(e) == handler[e] \in {"none", "done"} /\ loss[e] \in {"none", "done"}

(* connected() of an earlier connection still runs when a newer one is up. *)
Overlapping == \E e \in Conns : e < epoch /\ handler[e] \notin {"none", "done"}

(* The doc of isOnline and of link.online: "connected and subscribed".     *)
(* When every callback has returned and the open connection is subscribed, *)
(* the link of a printer that is not shut down reports online.             *)
SubscribedIsOnline ==
  ((\A e \in Conns : Returned(e)) /\ transitions = Unlocked /\ ~closed /\ open /\ epoch \in subscribed)
    => IsOnline

(* As long as connected() never outlives the opening of the next           *)
(* connection, a connection that stays open ends up reported online, or    *)
(* the link is closed: however late the losses of earlier ones are told.   *)
EventuallyOnline == []~Overlapping /\ <>[]open => <>[](online /\ observed) \/ <>closed

(* close() always returns, whatever callbacks hold or wait for the         *)
(* transitions lock when it is called, and leaves the lock free.           *)
ClosingEnds == closed ~> (closer = "done" /\ transitions = Unlocked)
=============================================================================
