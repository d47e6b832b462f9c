----------------------------- MODULE MC_Services -----------------------------
(***************************************************************************)
(* The components that share no state with each other, one of which each   *)
(* behaviour runs while the others rest where they began.                  *)
(***************************************************************************)
EXTENDS Safety, Notification, ProblemReports, Bridge, ConfigPage, Lifecycle, CameraUse, PrinterProbe,
        PandaBreath, ActivityLog

VARIABLE service

servicesVars ==
  <<service, safetyVars, notifyVars, problemVars, bridgeVars, pageVars, lifeVars, useVars, probeVars, breathVars,
    logVars>>

(* Two versions of a catalog, in which a code is added, dropped or emptied. *)
MCTexts ==
  <<[s |-> "text", h |-> "unlisted", k |-> "text"],
    [s |-> "empty", h |-> "text", k |-> "unlisted"]>>

MCFullAddress == [h |-> "h:8883"]

(* One or two printers, under the names of each other.                     *)
Named(s, a, c) == [serial |-> s, alias |-> a, address |-> "h", code |-> c]
MCConfigured ==
  {<<Named(s, a, "c")>> : s \in {"S", "T"}, a \in {"", "S", "X"}}
    \cup {<<Named("S", a, "c"), Named("T", b, "d")>> : a, b \in {"", "S", "T", "X"}}

(* Rows that keep, move, rename and swap the printers of the file.         *)
Row(serials, addresses) ==
  [serial : serials, alias : {""}, address : addresses, code : {"", "c"}, previous : {"S", "T"}]
MCPrinterForms ==
  {<<r>> : r \in Row({"S", "T"}, {"h", "h:8883", "k:8883"})}
    \cup {<<r, q>> : r \in Row({"S"}, {"h", "k:8883"}), q \in Row({"T"}, {"h", "k:8883"})}
MCPlateForms ==
  [on : {TRUE}, to : {"cf", "custom"}, key : {""}] \cup {[on |-> TRUE, to |-> "cf", key |-> "key"]}
MCHandFiles ==
  {NoFile, Unreadable,
   File(<<[serial |-> "S", alias |-> "", address |-> "k:8883", code |-> "c"]>>,
        [on |-> TRUE, to |-> "cf", key |-> ""])}
-----------------------------------------------------------------------------
Services ==
  {"safety", "notification", "problems", "bridge", "page", "life", "cameras", "probe", "breath", "log"}

ServicesInit ==
  /\ SafetyInit /\ NotifyInit /\ ProblemInit /\ BridgeInit /\ PageInit /\ LifeInit /\ UseInit /\ ProbeInit
  /\ BreathInit /\ LogInit
  /\ service \in Services
  /\ service # "problems" => published = 1
  /\ service # "bridge" => config = <<Named("S", "", "c")>>
  /\ service # "log" => wanted = [r \in Readers |-> CHOOSE p \in Printers : TRUE]

Alone(s) == service = s /\ UNCHANGED service

ServicesNext ==
  \/ /\ Alone("safety") /\ SafetyNext
     /\ UNCHANGED <<notifyVars, problemVars, bridgeVars, pageVars, lifeVars, useVars, probeVars, breathVars, logVars>>
  \/ /\ Alone("notification") /\ NotifyNext
     /\ UNCHANGED <<safetyVars, problemVars, bridgeVars, pageVars, lifeVars, useVars, probeVars, breathVars, logVars>>
  \/ /\ Alone("problems") /\ ProblemNext
     /\ UNCHANGED <<safetyVars, notifyVars, bridgeVars, pageVars, lifeVars, useVars, probeVars, breathVars, logVars>>
  \/ /\ Alone("bridge") /\ BridgeNext
     /\ UNCHANGED <<safetyVars, notifyVars, problemVars, pageVars, lifeVars, useVars, probeVars, breathVars, logVars>>
  \/ /\ Alone("page") /\ PageNext
     /\ UNCHANGED <<safetyVars, notifyVars, problemVars, bridgeVars, lifeVars, useVars, probeVars, breathVars, logVars>>
  \/ /\ Alone("life") /\ LifeNext
     /\ UNCHANGED <<safetyVars, notifyVars, problemVars, bridgeVars, pageVars, useVars, probeVars, breathVars, logVars>>
  \/ /\ Alone("cameras") /\ UseNext
     /\ UNCHANGED <<safetyVars, notifyVars, problemVars, bridgeVars, pageVars, lifeVars, probeVars, breathVars, logVars>>
  \/ /\ Alone("probe") /\ ProbeNext
     /\ UNCHANGED <<safetyVars, notifyVars, problemVars, bridgeVars, pageVars, lifeVars, useVars, breathVars, logVars>>
  \/ /\ Alone("breath") /\ BreathNext
     /\ UNCHANGED <<safetyVars, notifyVars, problemVars, bridgeVars, pageVars, lifeVars, useVars, probeVars, logVars>>
  \/ /\ Alone("log") /\ LogNext
     /\ UNCHANGED <<safetyVars, notifyVars, problemVars, bridgeVars, pageVars, lifeVars, useVars, probeVars, breathVars>>

ServicesSpec == ServicesInit /\ [][ServicesNext]_servicesVars

(* The readers of the log are scheduled.                                   *)
ServicesFairSpec == ServicesSpec /\ LogFairness

(* Every component keeps the types of its variables.                       *)
ServicesTypes ==
  /\ service \in Services
  /\ SafetyTypes /\ NotifyTypes /\ ProblemTypes /\ BridgeTypes /\ PageTypes /\ LifeTypes /\ UseTypes
  /\ ProbeTypes /\ BreathTypes /\ LogTypes
=============================================================================
