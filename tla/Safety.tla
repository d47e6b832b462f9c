-------------------------------- MODULE Safety --------------------------------
(***************************************************************************)
(* The over-temperature monitor (internal/safety/safety.go) of one         *)
(* printer: a check each second, and a response per over-limit episode     *)
(* that runs beside the checks, stops the whole fleet, switches a power    *)
(* plug off and sends one alarm.  The checks of different printers share   *)
(* nothing but the fleet they stop.                                        *)
(*                                                                         *)
(* A probe is hot or not, and the document shows the probe as it was at    *)
(* the last report, or not at all.  Episodes are counted to tell them      *)
(* apart; the code does not count them.                                    *)
(***************************************************************************)
EXTENDS Naturals, Sequences

CONSTANTS
  Fleet,       \* the configured printers
  Powered,     \* the printer has a Panda Power address
  Probes,      \* nozzle, bed and, where the printer reports it, the chamber
  MaxEpisodes  \* bound: episodes

ASSUME SafetyAssumption == Powered \in BOOLEAN /\ MaxEpisodes \in Nat

VARIABLES
  hot,      \* the probes at or above their limits
  episode,  \* the times the printer went from none to some of them
  temps,    \* the document: per probe "none", "under" or "over"
  shown,    \* store.online
  tripped,  \* Service.tripped holds the printer
  answers,  \* the responses begun
  monitor   \* Run: checking, joining the responses, returned; and the context

safetyVars == <<hot, episode, temps, shown, tripped, answers, monitor>>

Response == [step : {"stop", "power", "alarm", "done"}, left : SUBSET Fleet,
             stopped : SUBSET Fleet, missed : SUBSET Fleet,
             power : {"none", "sent", "failed"}, alarm : {"none", "sent", "failed"},
             episode : 0 .. MaxEpisodes]

SafetyTypes ==
  /\ hot \subseteq Probes /\ episode \in 0 .. MaxEpisodes
  /\ temps \in [Probes -> {"none", "under", "over"}]
  /\ shown \in BOOLEAN /\ tripped \in BOOLEAN
  /\ answers \in Seq(Response)
  /\ monitor \in [run : {"checking", "joining", "returned"}, cancelled : BOOLEAN]

SafetyInit ==
  /\ hot = {} /\ episode = 0 /\ temps = [b \in Probes |-> "none"]
  /\ shown = FALSE /\ tripped = FALSE /\ answers = <<>>
  /\ monitor = [run |-> "checking", cancelled |-> FALSE]
-----------------------------------------------------------------------------
Heat(b) ==
  /\ b \notin hot /\ monitor.run = "checking"
  /\ hot = {} => episode < MaxEpisodes
  /\ hot' = hot \cup {b}
  /\ episode' = IF hot = {} THEN episode + 1 ELSE episode
  /\ UNCHANGED <<temps, shown, tripped, answers, monitor>>

Cool(b) ==
  /\ b \in hot /\ monitor.run = "checking"
  /\ hot' = hot \ {b}
  /\ UNCHANGED <<episode, temps, shown, tripped, answers, monitor>>

(* A delta brings what changed; a full report may leave probes out.        *)
Report ==
  /\ monitor.run = "checking"
  /\ \E seen \in SUBSET Probes :
       temps' = [b \in Probes |-> IF b \notin seen THEN "none"
                                 ELSE IF b \in hot THEN "over" ELSE "under"]
  /\ shown' = TRUE
  /\ UNCHANGED <<hot, episode, tripped, answers, monitor>>

Lose ==
  /\ shown /\ shown' = FALSE /\ monitor.run = "checking"
  /\ UNCHANGED <<hot, episode, temps, tripped, answers, monitor>>

Cancel ==
  /\ ~monitor.cancelled
  /\ monitor' = [monitor EXCEPT !.cancelled = TRUE]
  /\ UNCHANGED <<hot, episode, temps, shown, tripped, answers>>
-----------------------------------------------------------------------------
(* overLimit.                                                              *)
Over == \E b \in Probes : temps[b] = "over"

\* Mutant: a probe without a reading counts as recovered.
RecoveredUnlessOver == ~Over

(* An episode is over when no probe is missing.                            *)
Recovered == \A b \in Probes : temps[b] = "under"

(* Service.check; the ticker may still win the select after the context    *)
(* ended.                                                                  *)
Check ==
  /\ monitor.run = "checking" /\ shown
  /\ \/ Recovered /\ tripped' = FALSE /\ UNCHANGED answers
     \/ /\ Over /\ ~tripped /\ tripped' = TRUE
        /\ answers' = Append(answers,
             [step |-> "stop", left |-> Fleet, stopped |-> {}, missed |-> {},
              power |-> "none", alarm |-> "none", episode |-> episode])
  /\ UNCHANGED <<hot, episode, temps, shown, monitor>>

Continue(r, next) ==
  /\ answers' = [answers EXCEPT ![r] = next]
  /\ UNCHANGED <<hot, episode, temps, shown, tripped, monitor>>

(* Service.respond: the stops, in any order; one that fails holds none up. *)
StopOne(r) ==
  LET a == answers[r] IN
  /\ a.step = "stop" /\ a.left # {}
  /\ \E q \in a.left, ok \in BOOLEAN :
       Continue(r, IF ok THEN [a EXCEPT !.left = @ \ {q}, !.stopped = @ \cup {q}]
                   ELSE [a EXCEPT !.left = @ \ {q}, !.missed = @ \cup {q}])

PowerNext(r) ==
  LET a == answers[r] IN
  /\ a.step = "stop" /\ a.left = {}
  /\ Continue(r, [a EXCEPT !.step = IF Powered THEN "power" ELSE "alarm"])

(* A request under a cancelled context fails, and any may.                 *)
PowerOff(r) ==
  LET a == answers[r] IN
  /\ a.step = "power"
  /\ \/ ~monitor.cancelled /\ Continue(r, [a EXCEPT !.step = "alarm", !.power = "sent"])
     \/ Continue(r, [a EXCEPT !.step = "alarm", !.power = "failed"])

Alarm(r) ==
  LET a == answers[r] IN
  /\ a.step = "alarm"
  /\ \/ ~monitor.cancelled /\ Continue(r, [a EXCEPT !.step = "done", !.alarm = "sent"])
     \/ Continue(r, [a EXCEPT !.step = "done", !.alarm = "failed"])

Respond(r) == StopOne(r) \/ PowerNext(r) \/ PowerOff(r) \/ Alarm(r)

Finish ==
  /\ monitor.run = "checking" /\ monitor.cancelled
  /\ monitor' = [monitor EXCEPT !.run = "joining"]
  /\ UNCHANGED <<hot, episode, temps, shown, tripped, answers>>

(* The deferred responses.Wait.                                            *)
Join ==
  /\ monitor.run = "joining" /\ \A r \in DOMAIN answers : answers[r].step = "done"
  /\ monitor' = [monitor EXCEPT !.run = "returned"]
  /\ UNCHANGED <<hot, episode, temps, shown, tripped, answers>>

SafetyNext ==
  \/ \E b \in Probes : Heat(b) \/ Cool(b)
  \/ Report \/ Lose \/ Check
  \/ Cancel \/ Finish \/ Join
  \/ \E r \in DOMAIN answers : Respond(r)

SafetySpec == SafetyInit /\ [][SafetyNext]_safetyVars
-----------------------------------------------------------------------------
(* An episode is answered once, although readings come and go meanwhile    *)
(* and the printer drops off and returns (Service.check, tripped).         *)
OneAlarm ==
  \A r, s \in DOMAIN answers : answers[r].episode = answers[s].episode => r = s

(* An alarm that claims the fleet stopped is true, and one that does not   *)
(* names every printer the response did not reach, whichever stops failed  *)
(* and whether or not the power went off (Service.respond).                *)
AlarmTells ==
  \A r \in DOMAIN answers :
    answers[r].step \in {"power", "alarm", "done"} =>
      Fleet \ answers[r].stopped = answers[r].missed

(* Run returns after the last response.                                    *)
ResponsesJoined == monitor.run = "returned" => \A r \in DOMAIN answers : answers[r].step = "done"

Answered == OneAlarm /\ AlarmTells /\ ResponsesJoined
=============================================================================
