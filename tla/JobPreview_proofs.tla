---------------------------- MODULE JobPreview_proofs ----------------------------
(***************************************************************************)
(* Theorems about the archive preview for any selections, queue, attempts  *)
(* and number of workers: its types, among them that no worker tries more  *)
(* often than it may, and that Run returns after its last worker.          *)
(***************************************************************************)
EXTENDS JobPreview, SequenceTheorems, TLAPS

Events == [prev : Docs, cur : Docs]

(* A registered selection has a worker to cancel, and a worker that waits  *)
(* has an attempt left.                                                    *)
Registered == keys # Nil => latest \in Workers
AttemptLeft == \A w \in Workers : worker[w] = "wait" => attempt[w] < MaxAttempts

PreviewInv == TypeOK /\ Registered /\ AttemptLeft /\ JoinedAtReturn

LEMMA PreviewInvInit == Init => PreviewInv
<1> SUFFICES ASSUME Init PROVE PreviewInv
  OBVIOUS
<1>1. NoDoc \in Docs
  BY PreviewAssumption DEF NoDoc, Docs, States
<1>2. TypeOK
  BY <1>1, PreviewAssumption DEF Init, TypeOK, Workers, Busy
<1> QED
  BY <1>2, PreviewAssumption DEF Init, PreviewInv, Registered, AttemptLeft, JoinedAtReturn, Workers, Busy
-----------------------------------------------------------------------------
LEMMA LoopKeeps ==
  ASSUME PreviewInv, (\E d \in Docs : Report(d)) \/ Dispatch \/ Spawn \/ Stop \/ Join
  PROVE  PreviewInv'
<1> USE DEF PreviewInv, TypeOK, Registered, AttemptLeft, JoinedAtReturn
<1>1. ASSUME NEW d \in Docs, Report(d)
      PROVE  PreviewInv'
  <2>1. events' \in Seq(Events) /\ Len(events') <= QueueCap
    <3> DEFINE e == [prev |-> doc, cur |-> d]
    <3>1. e \in Events /\ events \in Seq(Events)
      BY DEF Events
    <3>2. events' = IF Len(events) < QueueCap THEN Append(events, e) ELSE events
      BY <1>1 DEF Report
    <3> HIDE DEF e
    <3>3. Append(events, e) \in Seq(Events) /\ Len(Append(events, e)) = Len(events) + 1
      BY <3>1, AppendProperties
    <3> QED
      BY <3>1, <3>2, <3>3, LenProperties, PreviewAssumption
  <2>2. reports' \in 0 .. MaxReports
    BY <1>1, PreviewAssumption DEF Report
  <2> QED
    BY <1>1, <2>1, <2>2 DEF Report, loop, work, Events
<1>2. CASE Dispatch
  <2>1. /\ Head(events) \in Events /\ Tail(events) \in Seq(Events)
        /\ Len(Tail(events)) <= QueueCap
    <3>1. events \in Seq(Events) /\ events # <<>>
      BY <1>2 DEF Dispatch, Events
    <3>2. Len(Tail(events)) = Len(events) - 1 /\ Len(events) \in Nat
      BY <3>1, HeadTailProperties, LenProperties
    <3> QED
      BY <3>1, <3>2, PreviewAssumption, HeadTailProperties
  <2>2. current' \in Docs
    BY <1>2, <2>1 DEF Dispatch, Events
  <2>3. run' \in {"spawn", "select"}
    BY <1>2 DEF Dispatch
  <2>4. cancelled' \subseteq Workers /\ keys' \in {Nil, keys}
    BY <1>2 DEF Dispatch
  <2> QED
    BY <1>2, <2>1, <2>2, <2>3, <2>4 DEF Dispatch, Events
<1>3. CASE Spawn
  <2>1. started' \in Workers /\ started' \in 0 .. MaxWorkers /\ latest' = started'
    BY <1>3, PreviewAssumption DEF Spawn, Workers
  <2>2. current.key \in Keys
    BY DEF Docs
  <2>3. /\ worker' \in [Workers -> Busy \cup {"none", "done"}]
        /\ fetching' \in [Workers -> Keys] /\ attempt' \in [Workers -> 0 .. MaxAttempts]
    BY <1>3, <2>1, <2>2, PreviewAssumption DEF Spawn, Busy
  <2>4. AttemptLeft'
    BY <1>3, <2>1 DEF Spawn
  <2> QED
    BY <1>3, <2>1, <2>2, <2>3, <2>4 DEF Spawn, store
<1>4. CASE Stop
  BY <1>4 DEF Stop, store
<1>5. CASE Join
  BY <1>5 DEF Join, store, work
<1> QED
  BY <1>1, <1>2, <1>3, <1>4, <1>5
-----------------------------------------------------------------------------
(* A step that moves one busy worker, counts its attempt and leaves the    *)
(* loop alone keeps the invariant.                                         *)
LEMMA MoveKeeps ==
  ASSUME PreviewInv, NEW w \in Workers, NEW from \in Busy, NEW to \in Busy \cup {"done"},
         Move(w, from, to), UNCHANGED <<store, loop, started, fetching, cancelled>>,
         {pending', entry'} \subseteq Keys \cup {Nil},
         failed' \in [Workers -> BOOLEAN],
         attempt' \in [Workers -> 0 .. MaxAttempts],
         \A v \in Workers \ {w} : attempt'[v] = attempt[v],
         to = "wait" => attempt'[w] < MaxAttempts
  PROVE  PreviewInv'
<1> USE DEF PreviewInv, store, loop
<1>1. worker' \in [Workers -> Busy \cup {"none", "done"}]
  BY DEF Move, TypeOK
<1>2. TypeOK'
  BY <1>1 DEF TypeOK
<1>3. AttemptLeft'
  BY DEF Move, AttemptLeft, TypeOK
<1>4. run # "done"
  BY DEF Move, JoinedAtReturn
<1> QED
  BY <1>2, <1>3, <1>4 DEF Registered, JoinedAtReturn

LEMMA RetrieveKeeps ==
  ASSUME PreviewInv, NEW w \in Workers, Retrieve(w)
  PROVE  PreviewInv'
<1> USE DEF store, loop
<1>1. TypeOK
  BY DEF PreviewInv
<1>2. CASE Fetched(w)
  <2>1. failed' \in [Workers -> BOOLEAN]
    BY <1>1, <1>2 DEF Fetched, TypeOK
  <2> QED
    BY <1>1, <1>2, <2>1, MoveKeeps DEF Fetched, TypeOK, Busy
<1>3. CASE CheckContext(w)
  <2> DEFINE to == IF w \in cancelled THEN "done" ELSE "doc"
  <2>1. to \in Busy \cup {"done"} /\ to # "wait"
    BY DEF Busy
  <2> HIDE DEF to
  <2> QED
    BY <1>1, <1>3, <2>1, MoveKeeps DEF CheckContext, TypeOK, Busy, to
<1>4. CASE CheckDoc(w)
  <2>1. PICK to \in Busy \cup {"done"} :
          Move(w, "doc", to) /\ (to = "wait" => attempt[w] < MaxAttempts)
    BY <1>4 DEF CheckDoc, Busy
  <2> QED
    BY <1>1, <1>4, <2>1, MoveKeeps DEF CheckDoc, TypeOK, Busy
<1>5. CASE Accept(w)
  BY <1>1, <1>5, MoveKeeps DEF Accept, TypeOK, Busy
<1>6. CASE Retry(w)
  <2>1. CASE w \in cancelled /\ Move(w, "wait", "done") /\ UNCHANGED attempt
    BY <1>1, <1>6, <2>1, MoveKeeps DEF Retry, TypeOK, Busy
  <2>2. CASE Move(w, "wait", "fetch") /\ attempt' = [attempt EXCEPT ![w] = @ + 1]
    <3>1. attempt[w] < MaxAttempts
      BY <2>2 DEF PreviewInv, AttemptLeft, Move
    <3>2. attempt' \in [Workers -> 0 .. MaxAttempts]
      BY <1>1, <2>2, <3>1, PreviewAssumption DEF TypeOK
    <3> QED
      BY <1>1, <1>6, <2>2, <3>2, MoveKeeps DEF Retry, TypeOK, Busy
  <2> QED
    BY <1>6, <2>1, <2>2 DEF Retry
<1>7. CASE GiveUp(w)
  BY <1>1, <1>7, MoveKeeps DEF GiveUp, TypeOK, Busy
<1> QED
  BY <1>2, <1>3, <1>4, <1>5, <1>6, <1>7 DEF Retrieve

LEMMA PreviewInvNext == PreviewInv /\ [Next]_vars => PreviewInv'
<1> SUFFICES ASSUME PreviewInv, [Next]_vars PROVE PreviewInv'
  OBVIOUS
<1>1. CASE Next
  BY <1>1, LoopKeeps, RetrieveKeeps DEF Next
<1>2. CASE UNCHANGED vars
  BY <1>2 DEF vars, PreviewInv, TypeOK, Registered, AttemptLeft, JoinedAtReturn
<1> QED
  BY <1>1, <1>2

LEMMA PreviewInvAlways == Spec => []PreviewInv
BY PreviewInvInit, PreviewInvNext, PTL DEF Spec
-----------------------------------------------------------------------------
(* The queue never holds more than its capacity, a selection is only ever  *)
(* one of the documents', and no worker starts an attempt beyond its last  *)
(* (Service.Run, retrieve).                                                *)
THEOREM TypeCorrect == Spec => []TypeOK
<1>1. PreviewInv => TypeOK
  BY DEF PreviewInv
<1> QED
  BY <1>1, PreviewInvAlways, PTL

(* Run returns after the last of its workers, so nothing is published by   *)
(* the service once its module has ended (Service.Run).                    *)
THEOREM JoinedAlways == Spec => []JoinedAtReturn
<1>1. PreviewInv => JoinedAtReturn
  BY DEF PreviewInv
<1> QED
  BY <1>1, PreviewInvAlways, PTL
=============================================================================
