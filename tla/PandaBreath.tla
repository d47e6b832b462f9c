------------------------------ MODULE PandaBreath ------------------------------
(***************************************************************************)
(* The Panda Breath accessory of one printer (internal/pandabreath):  a    *)
(* connection that is redialed for ever, the last chamber reading, spaced  *)
(* samples of the readings, and the trend shown from them.                 *)
(*                                                                         *)
(* Times are kept as ages, capped where all larger ones behave alike; the  *)
(* temperatures are left out, the times decide whether a trend is shown,   *)
(* and so is Store.connected, which nothing but the page reads.            *)
(* The delay before a redial is any, the code doubles it up to 30 seconds. *)
(***************************************************************************)
EXTENDS Integers, Sequences

CONSTANTS
  FreshFor,     \* how long a reading is fresh; 15 s in the code
  SampleEvery,  \* sampleEvery; 10 s
  TrendMinSpan, \* trendMinSpan; 2 min
  TrendWindow   \* trendWindow; 3 min

ASSUME BreathAssumption ==
  /\ {FreshFor, SampleEvery, TrendMinSpan} \subseteq Nat \ {0}
  /\ TrendWindow \in Nat /\ TrendWindow >= TrendMinSpan + SampleEvery + FreshFor

VARIABLES
  device,    \* observe: dialing, reading a connection, waiting, ended
  latest,    \* the age of Store.readings, or none
  history,   \* the ages of Store.history, oldest first
  steady     \* history: since when no two readings were further apart than FreshFor

breathVars == <<device, latest, history, steady>>

Oldest == TrendWindow + FreshFor + 1
Ages == 0 .. Oldest
NoReading == -1

BreathTypes ==
  /\ device \in {"dial", "read", "wait", "ended"}
  /\ latest \in Ages \cup {NoReading} /\ history \in Seq(Ages) /\ steady \in Ages

BreathInit ==
  /\ device = "dial"
  /\ latest = NoReading /\ history = <<>> /\ steady = 0
-----------------------------------------------------------------------------
AgeOn(age) == IF age < Oldest THEN age + 1 ELSE Oldest
TimePasses ==
  /\ latest # NoReading
  /\ latest' = AgeOn(latest)
  /\ history' = [i \in DOMAIN history |-> AgeOn(history[i])]
  /\ steady' = AgeOn(steady)
  /\ UNCHANGED device

(* connect: the handshake.                                                 *)
DialDevice ==
  /\ device = "dial" /\ device' \in {"read", "wait"}
  /\ UNCHANGED <<latest, history, steady>>

(* keepSample: the index of the first sample that is not too old; the ones *)
(* before it are dropped.                                                  *)
FirstKept(h) ==
  CHOOSE i \in 1 .. Len(h) + 1 :
    /\ \A j \in 1 .. i - 1 : h[j] > TrendWindow
    /\ i <= Len(h) => h[i] <= TrendWindow

Spaced(h) == IF h # <<>> /\ h[Len(h)] < SampleEvery THEN h ELSE Append(h, 0)

\* Mutant: the spacing is checked before old samples are dropped.
KeepSampleFirst(h) ==
  IF Spaced(h) = h THEN h ELSE Append(SubSeq(h, FirstKept(h), Len(h)), 0)

(* keepSample for a reading that arrives now.                              *)
KeepSample(h) == Spaced(SubSeq(h, FirstKept(h), Len(h)))

(* connect: a frame that carries a reading.                                *)
TakeReading ==
  /\ device = "read"
  /\ latest' = 0 /\ history' = KeepSample(history)
  /\ steady' = IF latest = NoReading \/ latest > FreshFor THEN 0 ELSE steady
  /\ UNCHANGED device

(* connect: an error or 30 silent seconds.  What was read stays.           *)
LinkLost ==
  /\ device = "read" /\ device' = "wait"
  /\ UNCHANGED <<latest, history, steady>>

RedialDevice ==
  /\ device = "wait" /\ device' = "dial"
  /\ UNCHANGED <<latest, history, steady>>

BreathEnds ==
  /\ device \in {"dial", "wait"} /\ device' = "ended"
  /\ UNCHANGED <<latest, history, steady>>

BreathNext ==
  TimePasses \/ DialDevice \/ TakeReading \/ LinkLost \/ RedialDevice \/ BreathEnds

BreathSpec == BreathInit /\ [][BreathNext]_breathVars
-----------------------------------------------------------------------------
(* snapshot and trend.                                                     *)
IsFresh == latest # NoReading /\ latest <= FreshFor
TrendSpan == history[1] - latest
TrendShown == IsFresh /\ history # <<>> /\ TrendSpan >= TrendMinSpan

(* A trend compares the latest reading with one from two to three minutes  *)
(* before it, whatever outages lie between, and is not lost while readings *)
(* keep coming: dropping old samples never leaves too short a span, since  *)
(* samples are spaced and kept by two limits that could work against each  *)
(* other (keepSample, trend, snapshot).                                    *)
TrendHolds ==
  /\ TrendShown => TrendSpan <= TrendWindow
  /\ IsFresh /\ steady - latest >= TrendMinSpan => TrendShown
=============================================================================
