--------------------------- MODULE PrinterLink_proofs ---------------------------
(***************************************************************************)
(* Proofs about PrinterLink for every number of connections, with the      *)
(* callbacks of all of them interleaved in any order.                      *)
(***************************************************************************)
EXTENDS PrinterLink, TLAPS

(* connected(e) has a context of its own.                                  *)
Running == HandlerPc \ {"none", "start", "done"}
(* connected(e) has left its loop's test and may still go online.          *)
Committed == {"subscribe", "await", "check", "push", "online"}
Answered == {"await", "check", "push", "online"}

(* An open connection has a number, and no dial or reconnect is under way. *)
OpenIsIdle == open => dialer = "idle" /\ epoch \in Conns

(* The link is offline by the time the library dials.                      *)
DialOffline == dialer \in {"new", "notify", "dial"} => ~online

NoEarlyHandler == dialer = "new" => \A e \in Conns : handler[e] = "none"

(* Only the newest connected() has a context that is not cancelled.        *)
OneContext ==
  \A e \in Conns : handler[e] \in Running => current = e \/ e \in cancelled

(* The library dials after every committed connected() was cancelled.      *)
DialCancelled ==
  dialer \in {"offline", "notify", "dial"} =>
    \A e \in Conns : handler[e] \in Committed => e \in cancelled

(* A connected() still in charge subscribed on the open connection.        *)
SentHere ==
  \A e \in Conns :
    handler[e] \in Answered /\ e \notin cancelled /\ open => sentOn[e] = epoch

GrantedIsSubscribed ==
  \A e \in Conns : token[e] = "granted" => sentOn[e] \in subscribed

PushIsGranted ==
  \A e \in Conns : handler[e] \in {"push", "online"} => token[e] = "granted"

OpenOnline == online /\ open => epoch \in subscribed

IInv ==
  /\ TypeOK
  /\ OpenIsIdle
  /\ DialOffline
  /\ NoEarlyHandler
  /\ OneContext
  /\ DialCancelled
  /\ SentHere
  /\ GrantedIsSubscribed
  /\ PushIsGranted
  /\ OpenOnline

-----------------------------------------------------------------------------
LEMMA CallerTypes ==
  /\ \A e \in Conns : <<"connected", e>> \in Callers /\ <<"lost", e>> \in Callers
  /\ <<"reconnecting", 0>> \in Callers
  /\ <<"close", 0>> \in Callers
BY DEF Callers

(* A caller of setOnline leaves a well-typed status and lock behind.       *)
LEMMA SetStatusType ==
  ASSUME NEW caller \in Callers, NEW value \in BOOLEAN, SetStatus(caller, value)
  PROVE  /\ online' \in BOOLEAN
         /\ transitions' \in [holder : Callers \cup {<<"none", 0>>}, value : BOOLEAN]
BY DEF SetStatus, Unlocked

LEMMA NotifyType ==
  ASSUME NEW caller, TypeOK, Notify(caller)
  PROVE  /\ observed' \in BOOLEAN
         /\ transitions' \in [holder : Callers \cup {<<"none", 0>>}, value : BOOLEAN]
BY DEF TypeOK, Notify, Unlocked

(* Link.cancel() cancels the newest context and nothing is ever revived.   *)
LEMMA CancelCurrentType ==
  ASSUME TypeOK, cancelled' = CancelCurrent
  PROVE  /\ cancelled \subseteq cancelled'
         /\ cancelled' \subseteq Conns
         /\ \A f \in Conns : current = f => f \in cancelled'
BY DEF TypeOK, CancelCurrent

LEMMA ConnsArePositive == \A e \in Conns : e \in 0 .. MaxConn
BY BoundAssumption DEF Conns

LEMMA InitIInv == Init => IInv
<1> SUFFICES ASSUME Init PROVE IInv
  OBVIOUS
<1>1. transitions \in [holder : Callers \cup {<<"none", 0>>}, value : BOOLEAN]
  BY DEF Init, Unlocked
<1>2. /\ handler \in [Conns -> HandlerPc] /\ sentOn \in [Conns -> 0 .. MaxConn]
      /\ token \in [Conns -> {"none", "pending", "granted", "failed"}]
      /\ loss \in [Conns -> LossPc]
  BY BoundAssumption DEF Init, HandlerPc, LossPc
<1>3. /\ epoch \in 0 .. MaxConn /\ current \in 0 .. MaxConn
      /\ open \in BOOLEAN /\ stopped \in BOOLEAN
      /\ online \in BOOLEAN /\ closed \in BOOLEAN /\ observed \in BOOLEAN
      /\ dialer \in DialerPc /\ closer \in CloserPc
      /\ subscribed \subseteq Conns /\ cancelled \subseteq Conns
  <2>1. 0 \in 0 .. MaxConn
    BY BoundAssumption
  <2>2. epoch = 0 /\ current = 0 /\ subscribed = {} /\ cancelled = {}
    BY DEF Init
  <2>3. epoch \in 0 .. MaxConn /\ current \in 0 .. MaxConn
    BY <2>1, <2>2, Zenon
  <2>4. subscribed \subseteq Conns /\ cancelled \subseteq Conns
    BY <2>2
  <2> QED BY <2>3, <2>4 DEF Init, DialerPc, CloserPc
<1>4. TypeOK
  BY <1>1, <1>2, <1>3 DEF TypeOK
<1> QED
  BY <1>4 DEF Init, IInv, OpenIsIdle, DialOffline, NoEarlyHandler, OneContext, DialCancelled, SentHere, GrantedIsSubscribed,
   PushIsGranted, OpenOnline, Running, Committed, Answered

(* Steps of the library and of the printer.                                *)
LEMMA EnvironmentStep == IInv /\ Environment => IInv'
<1> SUFFICES ASSUME IInv, Environment PROVE IInv'
  OBVIOUS
<1> USE BoundAssumption DEF IInv, TypeOK, Conns, HandlerPc, DialerPc, LossPc, CloserPc,
   OpenIsIdle, DialOffline, NoEarlyHandler, OneContext, DialCancelled, SentHere, GrantedIsSubscribed,
   PushIsGranted, OpenOnline, Running, Committed, Answered, paho, link, At, Goto
<1>1. CASE Start
  BY <1>1 DEF Start
<1>2. CASE Opened
  BY <1>2 DEF Opened
<1>3. CASE DialFailed
  BY <1>3 DEF DialFailed
<1>4. CASE Broken
  BY <1>4 DEF Broken
<1>5. ASSUME NEW e \in Conns, Suback(e) PROVE IInv'
  <2>1. epoch \in Conns /\ handler' = handler /\ cancelled' = cancelled /\ dialer' = dialer
    BY <1>5 DEF Suback
  <2>2. CASE token' = [token EXCEPT ![e] = "granted"] /\ subscribed' = subscribed \cup {epoch}
    BY <1>5, <2>1, <2>2 DEF Suback
  <2>3. CASE token' = [token EXCEPT ![e] = "failed"] /\ subscribed' = subscribed
    BY <1>5, <2>1, <2>3 DEF Suback
  <2> QED BY <1>5, <2>2, <2>3 DEF Suback
<1>6. ASSUME NEW e \in Conns, TokenLost(e) PROVE IInv'
  BY <1>6 DEF TokenLost
<1> QED
  BY <1>1, <1>2, <1>3, <1>4, <1>5, <1>6 DEF Environment

LEMMA ConnectedStep == ASSUME IInv, NEW e \in Conns, Connected(e) PROVE IInv'
<1>a. TypeOK
  BY DEF IInv
<1>b. CASE ConnectedStart(e) /\ closed
  <2>1. /\ handler[e] = "start" /\ handler' = [handler EXCEPT ![e] = "done"]
        /\ UNCHANGED <<paho, dialer, link, transitions, observed, sentOn, token, loss, closer>>
    BY <1>b DEF ConnectedStart, Goto, At, link
  <2>2. TypeOK'
    BY <1>a, <2>1 DEF TypeOK, HandlerPc, paho, link
  <2> QED BY <2>1, <2>2, <1>a DEF IInv, TypeOK, HandlerPc, OpenIsIdle, DialOffline,
       NoEarlyHandler, OneContext, DialCancelled, SentHere, GrantedIsSubscribed, PushIsGranted,
       OpenOnline, Running, Committed, Answered, paho, link
<1>c. CASE ConnectedStart(e) /\ ~closed
  <2>1. cancelled' = CancelCurrent
    BY <1>c DEF ConnectedStart
  <2>2. /\ cancelled \subseteq cancelled' /\ cancelled' \subseteq Conns
        /\ \A f \in Conns : current = f => f \in cancelled'
    BY <1>a, <2>1, CancelCurrentType
  <2>3. /\ handler[e] = "start" /\ handler' = [handler EXCEPT ![e] = "offline"]
        /\ current' = e /\ e \in 0 .. MaxConn
        /\ UNCHANGED <<paho, dialer, online, closed, transitions, observed, sentOn, token, loss, closer>>
    BY <1>c, ConnsArePositive DEF ConnectedStart, Goto, At
  <2>4. TypeOK'
    BY <1>a, <2>2, <2>3 DEF TypeOK, HandlerPc, paho
  <2>5. (/\ OpenIsIdle /\ DialOffline /\ NoEarlyHandler /\ OneContext
         /\ DialCancelled /\ SentHere /\ GrantedIsSubscribed /\ PushIsGranted /\ OpenOnline)'
    BY <1>a, <2>2, <2>3 DEF IInv, TypeOK, OpenIsIdle, DialOffline, NoEarlyHandler, OneContext,
       DialCancelled, SentHere, GrantedIsSubscribed, PushIsGranted, OpenOnline, HandlerPc,
       Running, Committed, Answered, paho
  <2> QED BY <2>4, <2>5 DEF IInv
<1> USE BoundAssumption, CallerTypes DEF IInv, TypeOK, HandlerPc, DialerPc, LossPc, CloserPc,
   OpenIsIdle, DialOffline, NoEarlyHandler, OneContext, DialCancelled, SentHere, GrantedIsSubscribed,
   PushIsGranted, OpenOnline, Running, Committed, Answered, paho, link, At, Goto
<1>1. CASE ConnectedStart(e)
  BY <1>1, <1>b, <1>c
<1>2. CASE ConnectedOffline(e)
  <2>1. /\ online' \in BOOLEAN
        /\ transitions' \in [holder : Callers \cup {<<"none", 0>>}, value : BOOLEAN]
    BY <1>2, SetStatusType DEF ConnectedOffline
  <2> QED BY <2>1, <1>2 DEF ConnectedOffline, SetStatus
<1>3. CASE ConnectedNotify(e)
  <2>1. /\ observed' \in BOOLEAN
        /\ transitions' \in [holder : Callers \cup {<<"none", 0>>}, value : BOOLEAN]
    BY <1>3, NotifyType DEF ConnectedNotify
  <2> QED BY <2>1, <1>3 DEF ConnectedNotify, Notify
<1>4. CASE ConnectedLoop(e)
  BY <1>4 DEF ConnectedLoop, Serving
<1>5. CASE ConnectedSubscribe(e)
  BY <1>5 DEF ConnectedSubscribe, Conns
<1>6. CASE ConnectedAwait(e)
  BY <1>6 DEF ConnectedAwait
<1>7. CASE ConnectedCheck(e)
  BY <1>7 DEF ConnectedCheck, Serving
<1>8. CASE ConnectedPush(e)
  BY <1>8 DEF ConnectedPush
<1>9. CASE ConnectedOnline(e)
  <2>1. /\ online' \in BOOLEAN
        /\ transitions' \in [holder : Callers \cup {<<"none", 0>>}, value : BOOLEAN]
    BY <1>9, SetStatusType DEF ConnectedOnline, OnlineValue
  <2> QED BY <2>1, <1>9 DEF ConnectedOnline, SetStatus, OnlineValue
<1>10. CASE ConnectedBackoff(e)
  BY <1>10 DEF ConnectedBackoff
<1>11. CASE ConnectedReturn(e)
  BY <1>11 DEF ConnectedReturn
<1> QED
  BY <1>1, <1>2, <1>3, <1>4, <1>5, <1>6, <1>7, <1>8, <1>9, <1>10, <1>11 DEF Connected

LEMMA ReconnectingStep == IInv /\ Reconnecting => IInv'
<1> SUFFICES ASSUME IInv, Reconnecting PROVE IInv'
  OBVIOUS
<1>a. TypeOK
  BY DEF IInv
<1> USE BoundAssumption, CallerTypes DEF IInv, TypeOK, HandlerPc, DialerPc, LossPc, CloserPc,
   OpenIsIdle, DialOffline, NoEarlyHandler, OneContext, DialCancelled, SentHere, GrantedIsSubscribed,
   PushIsGranted, OpenOnline, Running, Committed, Answered, paho, link
<1>1. CASE ReconnectingCancel
  <2>1. /\ cancelled \subseteq cancelled' /\ cancelled' \subseteq Conns
        /\ \A f \in Conns : current = f => f \in cancelled'
    BY <1>1, <1>a, CancelCurrentType DEF ReconnectingCancel
  <2> QED BY <2>1, <1>1 DEF ReconnectingCancel
<1>2. CASE ReconnectingOffline
  <2>1. /\ online' \in BOOLEAN
        /\ transitions' \in [holder : Callers \cup {<<"none", 0>>}, value : BOOLEAN]
    BY <1>2, SetStatusType DEF ReconnectingOffline
  <2> QED BY <2>1, <1>2 DEF ReconnectingOffline, SetStatus
<1>3. CASE ReconnectingNotify
  <2>1. /\ observed' \in BOOLEAN
        /\ transitions' \in [holder : Callers \cup {<<"none", 0>>}, value : BOOLEAN]
    BY <1>3, NotifyType DEF ReconnectingNotify
  <2> QED BY <2>1, <1>3 DEF ReconnectingNotify, Notify
<1> QED
  BY <1>1, <1>2, <1>3 DEF Reconnecting

LEMMA LostStep == ASSUME IInv, NEW e \in Conns, Lost(e) PROVE IInv'
<1>a. TypeOK
  BY DEF IInv
<1> USE BoundAssumption, CallerTypes DEF IInv, TypeOK, HandlerPc, DialerPc, LossPc, CloserPc,
   OpenIsIdle, DialOffline, NoEarlyHandler, OneContext, DialCancelled, SentHere, GrantedIsSubscribed,
   PushIsGranted, OpenOnline, Running, Committed, Answered, paho, link
<1>1. CASE LostOffline(e)
  <2>1. CASE open \/ closed
    <3>1. /\ loss' = [loss EXCEPT ![e] = "done"]
          /\ UNCHANGED <<paho, dialer, link, transitions, observed, handler, sentOn, token, closer>>
      BY <2>1, <1>1 DEF LostOffline
    <3> QED BY <3>1
  <2>2. CASE ~(open \/ closed)
    <3>1. cancelled \subseteq cancelled' /\ cancelled' \subseteq Conns
      BY <2>2, <1>1, <1>a, CancelCurrentType DEF LostOffline
    <3>2. /\ online' \in BOOLEAN
          /\ transitions' \in [holder : Callers \cup {<<"none", 0>>}, value : BOOLEAN]
      BY <2>2, <1>1, SetStatusType DEF LostOffline
    <3> QED BY <3>1, <3>2, <2>2, <1>1 DEF LostOffline, SetStatus
  <2> QED BY <2>1, <2>2
<1>2. CASE LostNotify(e)
  <2>1. /\ observed' \in BOOLEAN
        /\ transitions' \in [holder : Callers \cup {<<"none", 0>>}, value : BOOLEAN]
    BY <1>2, NotifyType DEF LostNotify
  <2> QED BY <2>1, <1>2 DEF LostNotify, Notify
<1> QED
  BY <1>1, <1>2 DEF Lost

LEMMA CloseStep == IInv /\ Close => IInv'
<1> SUFFICES ASSUME IInv, Close PROVE IInv'
  OBVIOUS
<1>a. TypeOK
  BY DEF IInv
<1> USE BoundAssumption, CallerTypes DEF IInv, TypeOK, HandlerPc, DialerPc, LossPc, CloserPc,
   OpenIsIdle, DialOffline, NoEarlyHandler, OneContext, DialCancelled, SentHere, GrantedIsSubscribed,
   PushIsGranted, OpenOnline, Running, Committed, Answered, paho, link
<1>1. CASE CloseMark
  <2>1. cancelled \subseteq cancelled' /\ cancelled' \subseteq Conns
    BY <1>1, <1>a, CancelCurrentType DEF CloseMark
  <2> QED BY <2>1, <1>1 DEF CloseMark
<1>2. CASE CloseDisconnect
  BY <1>2 DEF CloseDisconnect
<1>3. CASE CloseOffline
  <2>1. /\ online' \in BOOLEAN
        /\ transitions' \in [holder : Callers \cup {<<"none", 0>>}, value : BOOLEAN]
    BY <1>3, SetStatusType DEF CloseOffline
  <2> QED BY <2>1, <1>3 DEF CloseOffline, SetStatus
<1>4. CASE CloseNotify
  <2>1. /\ observed' \in BOOLEAN
        /\ transitions' \in [holder : Callers \cup {<<"none", 0>>}, value : BOOLEAN]
    BY <1>4, NotifyType DEF CloseNotify
  <2> QED BY <2>1, <1>4 DEF CloseNotify, Notify
<1> QED
  BY <1>1, <1>2, <1>3, <1>4 DEF Close

LEMMA StepIInv == IInv /\ [Next]_vars => IInv'
<1> SUFFICES ASSUME IInv, [Next]_vars PROVE IInv'
  OBVIOUS
<1>1. CASE Environment
  BY <1>1, EnvironmentStep
<1>2. ASSUME NEW e \in Conns, Goroutine(e) PROVE IInv'
  BY <1>2, ConnectedStep, LostStep DEF Goroutine
<1>3. CASE Reconnecting
  BY <1>3, ReconnectingStep
<1>4. CASE Close
  BY <1>4, CloseStep
<1>5. CASE UNCHANGED vars
  BY <1>5 DEF vars, IInv, TypeOK, OpenIsIdle, DialOffline, NoEarlyHandler, OneContext,
     DialCancelled, SentHere, GrantedIsSubscribed, PushIsGranted, OpenOnline
<1> QED
  BY <1>1, <1>2, <1>3, <1>4, <1>5 DEF Next

(* Every variable of the link, the library and the callbacks keeps the     *)
(* values link.go gives it.                                                *)
THEOREM TypeCorrect == Spec => []TypeOK
<1>1. IInv => TypeOK
  BY DEF IInv
<1> QED
  BY <1>1, InitIInv, StepIInv, PTL DEF Spec

(* A link never reports online on a connection whose report subscription   *)
(* the printer has not granted, for any number of connections and delays.  *)
THEOREM OnlineOnlySubscribed == Spec => []OnlineIsSubscribed
<1>1. IInv => OnlineIsSubscribed
  BY DEF IInv, OpenOnline, OnlineIsSubscribed, IsOnline
<1> QED
  BY <1>1, InitIInv, StepIInv, PTL DEF Spec

-----------------------------------------------------------------------------
(* The lock's part: the holder carries a status the observer has not got.  *)
LockCarriesStatus ==
  \/ transitions = Unlocked /\ observed = online
  \/ transitions.holder \in Callers /\ transitions.value = online /\ observed # online

LEMMA NoneIsNoCaller == Unlocked.holder \notin Callers
BY DEF Unlocked, Callers

(* Every step of every goroutine leaves the status and its observer alone, *)
(* computes a status with the lock free, or reports one holding it.        *)
LEMMA StatusSteps ==
  ASSUME TypeOK, [Next]_vars
  PROVE  \/ UNCHANGED <<transitions, observed, online>>
         \/ \E caller \in Callers, value \in BOOLEAN : SetStatus(caller, value) /\ UNCHANGED observed
         \/ \E caller \in Callers : Notify(caller) /\ UNCHANGED online
<1> DEFINE Kinds ==
             \/ UNCHANGED <<transitions, observed, online>>
             \/ \E caller \in Callers, value \in BOOLEAN : SetStatus(caller, value) /\ UNCHANGED observed
             \/ \E caller \in Callers : Notify(caller) /\ UNCHANGED online
<1> SUFFICES Kinds
  OBVIOUS
<1> USE CallerTypes DEF paho, link
<1>1. CASE Environment
  BY <1>1 DEF Environment, Start, Opened, DialFailed, Broken, Suback, TokenLost
<1>2. ASSUME NEW e \in Conns, Connected(e) PROVE Kinds
  <2>1. CASE ConnectedOffline(e)
    BY <2>1 DEF ConnectedOffline
  <2>2. CASE ConnectedOnline(e)
    <3>1. OnlineValue(e) \in BOOLEAN
      BY DEF OnlineValue, TypeOK
    <3> QED
      BY <2>2, <3>1 DEF ConnectedOnline
  <2>3. CASE ConnectedNotify(e)
    BY <2>3 DEF ConnectedNotify
  <2>4. CASE ConnectedStart(e) \/ ConnectedReturn(e)
    BY <2>4 DEF ConnectedStart, ConnectedReturn
  <2>5. CASE \/ ConnectedLoop(e) \/ ConnectedSubscribe(e) \/ ConnectedAwait(e)
             \/ ConnectedCheck(e) \/ ConnectedPush(e) \/ ConnectedBackoff(e)
    BY <2>5 DEF ConnectedLoop, ConnectedSubscribe, ConnectedAwait, ConnectedCheck,
                ConnectedPush, ConnectedBackoff
  <2> QED
    BY <1>2, <2>1, <2>2, <2>3, <2>4, <2>5 DEF Connected
<1>3. ASSUME NEW e \in Conns, Lost(e) PROVE Kinds
  <2>1. CASE LostOffline(e) /\ (open \/ closed)
    BY <2>1 DEF LostOffline
  <2>2. CASE LostOffline(e) /\ ~(open \/ closed)
    BY <2>2 DEF LostOffline
  <2>3. CASE LostNotify(e)
    BY <2>3 DEF LostNotify
  <2> QED
    BY <1>3, <2>1, <2>2, <2>3 DEF Lost
<1>4. CASE Reconnecting
  BY <1>4 DEF Reconnecting, ReconnectingCancel, ReconnectingOffline, ReconnectingNotify
<1>5. CASE Close
  BY <1>5 DEF Close, CloseMark, CloseDisconnect, CloseOffline, CloseNotify
<1>6. CASE UNCHANGED vars
  BY <1>6 DEF vars
<1> QED
  BY <1>1, <1>2, <1>3, <1>4, <1>5, <1>6 DEF Next, Goroutine

(* A status is computed with the observer up to date, and makes a change   *)
(* or none; a report brings the observer up to date.                       *)
LEMMA StepFeeds ==
  ASSUME TypeOK, LockCarriesStatus, [Next]_vars
  PROVE  LockCarriesStatus' /\ [Feed!Next]_Feed!feedVars
<1>1. CASE UNCHANGED <<transitions, observed, online>>
  BY <1>1 DEF LockCarriesStatus, Feed!feedVars
<1>2. ASSUME NEW caller \in Callers, NEW value \in BOOLEAN,
             SetStatus(caller, value), UNCHANGED observed
      PROVE  LockCarriesStatus' /\ [Feed!Next]_Feed!feedVars
  <2>1. transitions = Unlocked /\ observed = online
    BY <1>2, NoneIsNoCaller DEF LockCarriesStatus, SetStatus
  <2>2. CASE online = value
    BY <1>2, <2>1, <2>2 DEF SetStatus, LockCarriesStatus, Feed!feedVars
  <2>3. CASE online # value
    <3>1. transitions' = [holder |-> caller, value |-> value] /\ online' = value
      BY <1>2, <2>3 DEF SetStatus
    <3>2. transitions' # Unlocked
      BY <3>1, NoneIsNoCaller DEF Unlocked
    <3>3. LockCarriesStatus'
      BY <1>2, <2>1, <2>3, <3>1 DEF LockCarriesStatus
    <3>4. online' = ~online
      <4>1. online \in BOOLEAN
        BY DEF TypeOK
      <4>2. CASE online = TRUE
        BY <2>3, <3>1, <4>2
      <4>3. CASE online = FALSE
        BY <2>3, <3>1, <4>3
      <4> QED
        BY <4>1, <4>2, <4>3
    <3>5. Feed!Change
      BY <1>2, <2>1, <3>2, <3>4 DEF Feed!Change
    <3> QED
      BY <3>3, <3>5 DEF Feed!Next
  <2> QED
    BY <2>2, <2>3
<1>3. ASSUME NEW caller \in Callers, Notify(caller), UNCHANGED online
      PROVE  LockCarriesStatus' /\ [Feed!Next]_Feed!feedVars
  <2>1. transitions # Unlocked /\ transitions.value = online /\ observed # online
    BY <1>3, NoneIsNoCaller DEF LockCarriesStatus, Notify
  <2>2. observed' = online /\ transitions' = Unlocked
    BY <1>3, <2>1 DEF Notify
  <2>3. Feed!Tell
    BY <1>3, <2>1, <2>2 DEF Feed!Tell
  <2> QED
    BY <1>3, <2>2, <2>3 DEF LockCarriesStatus, Feed!Next
<1> QED
  BY <1>1, <1>2, <1>3, StatusSteps

(* However the callbacks of any number of connections interleave, the      *)
(* observer is told every change of the status once and in order.          *)
THEOREM LinkFeedsItsObserver == Spec => FeedKept
<1>1. Init => LockCarriesStatus /\ Feed!Init
  BY DEF Init, LockCarriesStatus, Feed!Init
<1>2. TypeOK /\ LockCarriesStatus /\ [Next]_vars => LockCarriesStatus' /\ [Feed!Next]_Feed!feedVars
  BY StepFeeds
<1> QED
  BY <1>1, <1>2, TypeCorrect, PTL DEF Spec, FeedKept, Feed!Spec

LEMMA StepCarries == TypeOK /\ LockCarriesStatus /\ [Next]_vars => LockCarriesStatus'
BY StepFeeds

(* Whatever the interleaving of the callbacks, the observer's last word is *)
(* the link's status whenever no notification is under way.                *)
THEOREM ObserverFollows == Spec => []ObserverAgrees
<1>1. Init => LockCarriesStatus
  BY DEF Init, LockCarriesStatus
<1>2. LockCarriesStatus => ObserverAgrees
  BY NoneIsNoCaller DEF LockCarriesStatus, ObserverAgrees
<1> QED
  BY <1>1, <1>2, StepCarries, TypeCorrect, PTL DEF Spec

-----------------------------------------------------------------------------
(* What close() has done by each point of its run.                         *)
AtRest == ~online /\ transitions = Unlocked /\ ~observed
Reporting == ~online /\ transitions = [holder |-> <<"close", 0>>, value |-> FALSE]

ShutDown ==
  /\ stopped => ~open
  /\ closer \in {"offline", "notify", "done"} => stopped
  /\ closer = "notify" => Reporting
  /\ closer = "done" => AtRest

LEMMA CallersDiffer ==
  /\ \A e \in Conns : <<"connected", e>> # <<"close", 0>> /\ <<"lost", e>> # <<"close", 0>>
  /\ <<"reconnecting", 0>> # <<"close", 0>>
OBVIOUS

(* Another goroutine's status write finds the link at rest or locked.      *)
LEMMA OtherSetStatus ==
  ASSUME ShutDown, NEW caller \in Callers, SetStatus(caller, FALSE), observed' = observed,
         open' = open, stopped' = stopped, closer' = closer
  PROVE  ShutDown'
<1>1. closer # "notify"
  BY NoneIsNoCaller DEF ShutDown, Reporting, SetStatus, Unlocked
<1>2. closer = "done" => AtRest'
  BY DEF ShutDown, AtRest, SetStatus
<1> QED
  BY <1>1, <1>2 DEF ShutDown

LEMMA OtherNotify ==
  ASSUME ShutDown, NEW caller \in Callers, caller # <<"close", 0>>, Notify(caller),
         online' = online, open' = open, stopped' = stopped, closer' = closer
  PROVE  ShutDown'
<1>1. closer # "notify" /\ closer # "done"
  BY NoneIsNoCaller DEF ShutDown, Reporting, AtRest, Notify, Unlocked
<1> QED
  BY <1>1 DEF ShutDown

LEMMA StepShutDown == LockCarriesStatus /\ ShutDown /\ [Next]_vars => ShutDown'
<1> SUFFICES ASSUME LockCarriesStatus, ShutDown, [Next]_vars PROVE ShutDown'
  OBVIOUS
<1> USE CallerTypes, CallersDiffer DEF paho, link
<1>1. CASE UNCHANGED <<transitions, observed, online, open, stopped, closer>>
  BY <1>1 DEF ShutDown, AtRest, Reporting
<1>2. CASE Environment
  <2>1. CASE Opened
    BY <2>1 DEF Opened, ShutDown, AtRest, Reporting
  <2>2. CASE Broken
    BY <2>2 DEF Broken, ShutDown, AtRest, Reporting
  <2> QED
    BY <1>1, <1>2, <2>1, <2>2 DEF Environment, Start, DialFailed, Suback, TokenLost
<1>3. ASSUME NEW e \in Conns, Connected(e) PROVE ShutDown'
  <2>1. CASE ConnectedOffline(e)
    BY <2>1, OtherSetStatus DEF ConnectedOffline
  <2>2. CASE ConnectedOnline(e)
    <3>1. CASE OnlineValue(e)
      BY <2>2, <3>1 DEF ConnectedOnline, OnlineValue, ShutDown
    <3>2. CASE ~OnlineValue(e)
      <4>1. OnlineValue(e) = FALSE
        BY <3>2 DEF OnlineValue
      <4>2. SetStatus(<<"connected", e>>, FALSE)
        BY <2>2, <4>1 DEF ConnectedOnline
      <4> QED
        BY <2>2, <4>2, OtherSetStatus DEF ConnectedOnline
    <3> QED
      BY <3>1, <3>2
  <2>3. CASE ConnectedNotify(e)
    BY <2>3, OtherNotify DEF ConnectedNotify
  <2>4. CASE ConnectedStart(e) \/ ConnectedReturn(e)
    BY <2>4, <1>1 DEF ConnectedStart, ConnectedReturn
  <2>5. CASE \/ ConnectedLoop(e) \/ ConnectedSubscribe(e) \/ ConnectedAwait(e)
             \/ ConnectedCheck(e) \/ ConnectedPush(e) \/ ConnectedBackoff(e)
    BY <2>5, <1>1 DEF ConnectedLoop, ConnectedSubscribe, ConnectedAwait, ConnectedCheck,
                      ConnectedPush, ConnectedBackoff
  <2> QED
    BY <1>3, <2>1, <2>2, <2>3, <2>4, <2>5 DEF Connected
<1>4. ASSUME NEW e \in Conns, Lost(e) PROVE ShutDown'
  <2>1. CASE LostOffline(e) /\ (open \/ closed)
    BY <2>1, <1>1 DEF LostOffline
  <2>2. CASE LostOffline(e) /\ ~(open \/ closed)
    BY <2>2, OtherSetStatus DEF LostOffline
  <2>3. CASE LostNotify(e)
    BY <2>3, OtherNotify DEF LostNotify
  <2> QED
    BY <1>4, <2>1, <2>2, <2>3 DEF Lost
<1>5. CASE Reconnecting
  <2>1. CASE ReconnectingCancel
    BY <2>1, <1>1 DEF ReconnectingCancel
  <2>2. CASE ReconnectingOffline
    BY <2>2, OtherSetStatus DEF ReconnectingOffline
  <2>3. CASE ReconnectingNotify
    BY <2>3, OtherNotify DEF ReconnectingNotify
  <2> QED
    BY <1>5, <2>1, <2>2, <2>3 DEF Reconnecting
<1>6. CASE Close
  <2>1. CASE CloseMark
    BY <2>1 DEF CloseMark, ShutDown
  <2>2. CASE CloseDisconnect
    BY <2>2 DEF CloseDisconnect, ShutDown
  <2>3. CASE CloseOffline
    <3>1. transitions = Unlocked /\ observed = online
      BY <2>3, NoneIsNoCaller DEF CloseOffline, SetStatus, LockCarriesStatus
    <3> QED
      BY <2>3, <3>1 DEF CloseOffline, SetStatus, ShutDown, AtRest, Reporting
  <2>4. CASE CloseNotify
    BY <2>4 DEF CloseNotify, Notify, ShutDown, AtRest, Reporting
  <2> QED
    BY <1>6, <2>1, <2>2, <2>3, <2>4 DEF Close
<1>7. CASE UNCHANGED vars
  BY <1>7, <1>1 DEF vars
<1> QED
  BY <1>2, <1>3, <1>4, <1>5, <1>6, <1>7 DEF Next, Goroutine

(* close() is terminal: once it has returned the link is offline and its   *)
(* observer knows it, whatever callbacks are still running.                *)
THEOREM ClosedStaysOffline == Spec => []ClosedIsOffline
<1>1. Init => LockCarriesStatus /\ ShutDown
  BY DEF Init, LockCarriesStatus, ShutDown
<1>2. ShutDown => ClosedIsOffline
  BY DEF ShutDown, AtRest, ClosedIsOffline
<1> QED
  BY <1>1, <1>2, StepCarries, StepShutDown, TypeCorrect, PTL DEF Spec
-----------------------------------------------------------------------------
(***************************************************************************)
(* The lock of the notifications is never left behind: who holds it is at  *)
(* the notification that releases it, and nobody is there without it.      *)
(***************************************************************************)
HolderReports ==
  /\ \A e \in Conns :
       /\ transitions.holder = <<"connected", e>> <=> handler[e] \in {"notifyOffline", "notifyOnline"}
       /\ transitions.holder = <<"lost", e>> <=> loss[e] = "notify"
  /\ transitions.holder = <<"reconnecting", 0>> <=> dialer = "notify"
  /\ transitions.holder = <<"close", 0>> <=> closer = "notify"

(* A connection has no callbacks before it opens, and none for its loss    *)
(* before it breaks.                                                       *)
Numbered ==
  /\ \A e \in Conns : e > epoch => handler[e] = "none" /\ loss[e] = "none"
  /\ open => loss[epoch] = "none"

LEMMA StepNumbered == IInv /\ Numbered /\ [Next]_vars => Numbered'
<1> SUFFICES ASSUME IInv, Numbered, [Next]_vars PROVE Numbered'
  OBVIOUS
<1> USE BoundAssumption DEF Conns
<1>1. TypeOK /\ epoch \in Nat
  BY DEF IInv, TypeOK
<1>2. CASE Opened
  <2>1. epoch' = epoch + 1 /\ handler' = [handler EXCEPT ![epoch + 1] = "start"] /\ loss' = loss
    BY <1>2 DEF Opened, Goto
  <2>2. epoch + 1 \in Conns
    BY <1>1, <1>2 DEF Opened
  <2> QED
    BY <1>1, <2>1, <2>2 DEF Numbered, TypeOK
<1>3. CASE Broken
  <2>1. open' = FALSE /\ epoch' = epoch /\ handler' = handler /\ loss' = [loss EXCEPT ![epoch] = "start"]
    BY <1>3 DEF Broken
  <2> QED
    BY <1>1, <2>1 DEF Numbered, TypeOK
<1>4. CASE Start \/ DialFailed \/ \E e \in Conns : Suback(e) \/ TokenLost(e)
  BY <1>4 DEF Numbered, Start, DialFailed, Suback, TokenLost, paho
<1>5. ASSUME NEW e \in Conns, Connected(e) PROVE Numbered'
  <2>1. /\ UNCHANGED <<epoch, open, loss>> /\ handler[e] # "none"
        /\ handler' = [handler EXCEPT ![e] = handler'[e]]
    BY <1>1, <1>5 DEF Connected, ConnectedStart, ConnectedOffline, ConnectedNotify, ConnectedLoop,
      ConnectedSubscribe, ConnectedAwait, ConnectedCheck, ConnectedPush, ConnectedOnline,
      ConnectedBackoff, ConnectedReturn, At, Goto, paho, TypeOK
  <2> QED
    BY <1>1, <2>1 DEF Numbered, TypeOK
<1>6. ASSUME NEW e \in Conns, Lost(e) PROVE Numbered'
  <2>1. /\ UNCHANGED <<epoch, open, handler>> /\ loss[e] # "none"
        /\ loss' = [loss EXCEPT ![e] = loss'[e]]
    BY <1>1, <1>6 DEF Lost, LostOffline, LostNotify, paho, TypeOK
  <2> QED
    BY <1>1, <2>1 DEF Numbered, TypeOK
<1>7. CASE Reconnecting
  <2>1. UNCHANGED <<epoch, open, handler, loss>>
    BY <1>7 DEF Reconnecting, ReconnectingCancel, ReconnectingOffline, ReconnectingNotify, paho
  <2> QED
    BY <2>1 DEF Numbered
<1>8. CASE Close
  <2>1. UNCHANGED <<epoch, handler, loss>> /\ (open' = open \/ open' = FALSE)
    BY <1>8 DEF Close, CloseMark, CloseDisconnect, CloseOffline, CloseNotify, paho
  <2> QED
    BY <2>1 DEF Numbered
<1>9. CASE UNCHANGED vars
  BY <1>9 DEF Numbered, vars
<1> QED
  BY <1>2, <1>3, <1>4, <1>5, <1>6, <1>7, <1>8, <1>9 DEF Next, Environment, Goroutine

(* Who computes a status finds the lock free, so nobody is at a            *)
(* notification then.                                                      *)
LEMMA FreeIsQuiet ==
  ASSUME HolderReports, transitions = Unlocked
  PROVE  /\ \A e \in Conns : handler[e] \notin {"notifyOffline", "notifyOnline"} /\ loss[e] # "notify"
         /\ dialer # "notify" /\ closer # "notify"
BY DEF HolderReports, Unlocked

LEMMA StepHolds == IInv /\ Numbered /\ HolderReports /\ [Next]_vars => HolderReports'
<1> SUFFICES ASSUME IInv, Numbered, HolderReports, [Next]_vars PROVE HolderReports'
  OBVIOUS
<1>1. TypeOK /\ OpenIsIdle
  BY DEF IInv
<1>2. CASE Environment
  <2>1. transitions' = transitions /\ closer' = closer
    BY <1>2 DEF Environment, Start, Opened, DialFailed, Broken, Suback, TokenLost
  <2>2. dialer' = "notify" <=> dialer = "notify"
    BY <1>1, <1>2 DEF Environment, Start, Opened, DialFailed, Broken, Suback, TokenLost, OpenIsIdle
  <2>3. ASSUME NEW e \in Conns
        PROVE  /\ handler'[e] \in {"notifyOffline", "notifyOnline"} <=> handler[e] \in {"notifyOffline", "notifyOnline"}
               /\ loss'[e] = "notify" <=> loss[e] = "notify"
    <3>1. CASE Opened
      <4>1. epoch + 1 \in Conns /\ epoch + 1 > epoch /\ loss' = loss
        BY <1>1, <3>1, BoundAssumption DEF Opened, Conns, TypeOK
      <4>2. handler[epoch + 1] = "none" /\ handler' = [handler EXCEPT ![epoch + 1] = "start"]
        BY <3>1, <4>1 DEF Opened, Goto, Numbered
      <4> QED
        BY <1>1, <4>1, <4>2 DEF TypeOK
    <3>2. CASE Broken
      BY <1>1, <3>2 DEF Broken, Numbered, TypeOK
    <3>3. CASE ~Opened /\ ~Broken
      BY <1>2, <3>3 DEF Environment, Start, DialFailed, Suback, TokenLost
    <3> QED
      BY <3>1, <3>2, <3>3
  <2> QED
    BY <2>1, <2>2, <2>3 DEF HolderReports
<1>3. ASSUME NEW e \in Conns, Connected(e) PROVE HolderReports'
  <2>1. UNCHANGED <<dialer, loss, closer>> /\ handler' = [handler EXCEPT ![e] = handler'[e]]
    BY <1>1, <1>3 DEF Connected, ConnectedStart, ConnectedOffline, ConnectedNotify, ConnectedLoop,
      ConnectedSubscribe, ConnectedAwait, ConnectedCheck, ConnectedPush, ConnectedOnline,
      ConnectedBackoff, ConnectedReturn, Goto, TypeOK
  <2>2. CASE ConnectedOffline(e) \/ ConnectedOnline(e)
    <3>1. /\ transitions = Unlocked
          /\ \/ transitions' = Unlocked /\ handler'[e] \notin {"notifyOffline", "notifyOnline"}
             \/ /\ transitions'.holder = <<"connected", e>>
                /\ handler'[e] \in {"notifyOffline", "notifyOnline"}
      BY <1>1, <2>2 DEF ConnectedOffline, ConnectedOnline, SetStatus, OnlineValue, Goto, TypeOK
    <3> QED
      BY <1>1, <2>1, <3>1, FreeIsQuiet DEF HolderReports, Unlocked, TypeOK
  <2>3. CASE ConnectedNotify(e)
    <3>1. /\ transitions.holder = <<"connected", e>> /\ transitions' = Unlocked
          /\ handler'[e] \notin {"notifyOffline", "notifyOnline"}
      BY <1>1, <2>3 DEF ConnectedNotify, Notify, Goto, TypeOK
    <3> QED
      BY <1>1, <2>1, <3>1 DEF HolderReports, Unlocked, TypeOK
  <2>4. CASE ~(ConnectedOffline(e) \/ ConnectedOnline(e)) /\ ~ConnectedNotify(e)
    <3>1. /\ transitions' = transitions /\ handler[e] \notin {"notifyOffline", "notifyOnline"}
          /\ handler'[e] \notin {"notifyOffline", "notifyOnline"}
      BY <1>1, <1>3, <2>4 DEF Connected, ConnectedStart, ConnectedLoop, ConnectedSubscribe,
        ConnectedAwait, ConnectedCheck, ConnectedPush, ConnectedBackoff, ConnectedReturn, At, Goto, TypeOK
    <3> QED
      BY <1>1, <2>1, <3>1 DEF HolderReports, TypeOK
  <2> QED
    BY <2>2, <2>3, <2>4
<1>4. ASSUME NEW e \in Conns, Lost(e) PROVE HolderReports'
  <2>1. UNCHANGED <<dialer, handler, closer>> /\ loss' = [loss EXCEPT ![e] = loss'[e]]
    BY <1>1, <1>4 DEF Lost, LostOffline, LostNotify, TypeOK
  <2>2. CASE LostOffline(e)
    <3>1. /\ transitions = Unlocked
          /\ \/ transitions' = Unlocked /\ loss'[e] # "notify"
             \/ transitions'.holder = <<"lost", e>> /\ loss'[e] = "notify"
      BY <1>1, <2>2 DEF LostOffline, SetStatus, TypeOK
    <3> QED
      BY <1>1, <2>1, <3>1, FreeIsQuiet DEF HolderReports, Unlocked, TypeOK
  <2>3. CASE LostNotify(e)
    <3>1. transitions.holder = <<"lost", e>> /\ transitions' = Unlocked /\ loss'[e] # "notify"
      BY <1>1, <2>3 DEF LostNotify, Notify, TypeOK
    <3> QED
      BY <1>1, <2>1, <3>1 DEF HolderReports, Unlocked, TypeOK
  <2> QED
    BY <1>4, <2>2, <2>3 DEF Lost
<1>5. CASE Reconnecting
  <2>1. UNCHANGED <<handler, loss, closer>>
    BY <1>5 DEF Reconnecting, ReconnectingCancel, ReconnectingOffline, ReconnectingNotify
  <2>2. CASE ReconnectingCancel
    BY <2>1, <2>2 DEF ReconnectingCancel, HolderReports
  <2>3. CASE ReconnectingOffline
    BY <2>1, <2>3, FreeIsQuiet DEF ReconnectingOffline, SetStatus, HolderReports, Unlocked
  <2>4. CASE ReconnectingNotify
    BY <2>1, <2>4 DEF ReconnectingNotify, Notify, HolderReports, Unlocked
  <2> QED
    BY <1>5, <2>2, <2>3, <2>4 DEF Reconnecting
<1>6. CASE Close
  <2>1. UNCHANGED <<handler, loss, dialer>>
    BY <1>6 DEF Close, CloseMark, CloseDisconnect, CloseOffline, CloseNotify
  <2>2. CASE CloseMark \/ CloseDisconnect
    BY <2>1, <2>2 DEF CloseMark, CloseDisconnect, HolderReports
  <2>3. CASE CloseOffline
    BY <2>1, <2>3, FreeIsQuiet DEF CloseOffline, SetStatus, HolderReports, Unlocked
  <2>4. CASE CloseNotify
    BY <2>1, <2>4 DEF CloseNotify, Notify, HolderReports, Unlocked
  <2> QED
    BY <1>6, <2>2, <2>3, <2>4 DEF Close
<1>7. CASE UNCHANGED vars
  BY <1>7 DEF vars, HolderReports
<1> QED
  BY <1>2, <1>3, <1>4, <1>5, <1>6, <1>7 DEF Next, Goroutine

(* The transitions lock is always in the hands of a goroutine about to     *)
(* release it, so close() never waits for one that was left locked,        *)
(* however many callbacks are delayed (setOnline, lost, close).            *)
THEOREM LockIsNeverLeft == Spec => []HolderReports
<1>1. Init => Numbered /\ HolderReports
  BY DEF Init, Numbered, HolderReports, Unlocked
<1>2. Spec => []IInv
  BY InitIInv, StepIInv, PTL DEF Spec
<1> QED
  BY <1>1, <1>2, StepNumbered, StepHolds, PTL DEF Spec
=============================================================================
