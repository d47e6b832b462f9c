------------------------------- MODULE Lifecycle -------------------------------
(***************************************************************************)
(* One serving of a configuration (main.go serve, httpsrv.go, module.go):  *)
(* what is opened in which order, what a failed start takes down, and the  *)
(* order of the shutdown while the parts still use each other.             *)
(*                                                                         *)
(* A module uses the links and the cameras until its Run returns, which    *)
(* may also be early, with an error; a report of a link is published to    *)
(* the broker; an HTTP request uses the links and the cameras, and may     *)
(* outlive the two seconds that Stop waits for it.  The camera manager     *)
(* holds nothing before the raw camera endpoint opens.                     *)
(***************************************************************************)
EXTENDS Naturals, Sequences

CONSTANTS
  Modules,  \* the optional modules and the refresh of the error code catalog
  CameraOn  \* the camera feature is enabled

ASSUME LifecycleAssumption == CameraOn \in BOOLEAN

VARIABLES
  opening, closing,  \* the next part to open, to close; "none" outside
  open,              \* the open parts
  running,           \* the modules whose goroutine runs
  cancelled,         \* the modules whose context has ended
  requests,          \* HTTP requests: "none", "some", or "left" by Stop
  failed             \* serve returns an error

lifeVars == <<opening, closing, open, running, cancelled, requests, failed>>

Parts == {"broker", "raw", "cameras", "links", "http"}
Openings == {"broker", "raw", "links", "http", "none"}
Closings == {"http", "contexts", "modules", "raw", "cameras", "links", "broker", "returned", "none"}

LifeTypes ==
  /\ opening \in Openings /\ closing \in Closings /\ open \subseteq Parts
  /\ running \subseteq Modules /\ cancelled \subseteq Modules
  /\ requests \in {"none", "some", "left"} /\ failed \in BOOLEAN

LifeInit ==
  /\ opening = "broker" /\ closing = "none" /\ open = {}
  /\ running = {} /\ cancelled = {} /\ requests = "none" /\ failed = FALSE
-----------------------------------------------------------------------------
(* A start that fails; before the broker serves only it is taken down.     *)
Fails ==
  /\ failed' = TRUE /\ opening' = "none"
  /\ closing' = IF opening = "broker" THEN "returned" ELSE "http"

OpenBroker ==
  /\ opening = "broker"
  /\ \/ Fails /\ UNCHANGED open
     \/ /\ open' = open \cup {"broker"} /\ opening' = IF CameraOn THEN "raw" ELSE "links"
        /\ UNCHANGED <<closing, failed>>
  /\ UNCHANGED <<running, cancelled, requests>>

OpenRaw ==
  /\ opening = "raw"
  /\ \/ Fails /\ open' = open \cup {"cameras"}
     \/ /\ open' = open \cup {"raw", "cameras"} /\ opening' = "links"
        /\ UNCHANGED <<closing, failed>>
  /\ UNCHANGED <<running, cancelled, requests>>

(* links.Start, and each module in a goroutine of its own.                 *)
StartModules ==
  /\ opening = "links"
  /\ open' = open \cup {"links"} /\ running' = Modules /\ opening' = "http"
  /\ UNCHANGED <<closing, cancelled, requests, failed>>

OpenHTTP ==
  /\ opening = "http"
  /\ \/ Fails /\ UNCHANGED open
     \/ open' = open \cup {"http"} /\ opening' = "none" /\ UNCHANGED <<closing, failed>>
  /\ UNCHANGED <<running, cancelled, requests>>

Serve ==
  /\ "http" \in open /\ requests' = "some"
  /\ UNCHANGED <<opening, closing, open, running, cancelled, failed>>
Answer ==
  /\ requests # "none" /\ requests' = "none"
  /\ UNCHANGED <<opening, closing, open, running, cancelled, failed>>

(* A module returns early, or after its context ended.                     *)
Return(m) ==
  /\ m \in running /\ running' = running \ {m}
  /\ UNCHANGED <<opening, closing, open, cancelled, requests, failed>>
-----------------------------------------------------------------------------
(* waitStop returns: a signal, or a configuration was saved.               *)
StopServing ==
  /\ "http" \in open /\ closing = "none" /\ closing' = "http"
  /\ UNCHANGED <<opening, open, running, cancelled, requests, failed>>

Closes(part, next) ==
  /\ closing = part /\ closing' = next /\ open' = open \ {part}
  /\ UNCHANGED <<opening, running, cancelled, failed>>

(* Server.Stop: handlers that see the cancelled root context return, those *)
(* that do not are left after two seconds.                                 *)
StopHTTP ==
  /\ Closes("http", "contexts")
  /\ requests' \in IF requests = "none" THEN {"none"} ELSE {"none", "left"}

CancelModules ==
  /\ closing = "contexts" /\ closing' = "modules"
  /\ cancelled' = Modules
  /\ UNCHANGED <<opening, open, running, requests, failed>>

\* Mutant: the parts close once the modules are cancelled.
JoinCancelled == cancelled = Modules

ModulesJoined == running = {}
JoinModules ==
  /\ closing = "modules" /\ ModulesJoined /\ closing' = IF CameraOn THEN "raw" ELSE "links"
  /\ UNCHANGED <<opening, open, running, cancelled, requests, failed>>

CloseParts ==
  /\ \/ Closes("raw", "cameras") \/ Closes("cameras", "links")
     \/ Closes("links", "broker") \/ Closes("broker", "returned")
  /\ UNCHANGED requests

LifeNext ==
  \/ OpenBroker \/ OpenRaw \/ StartModules \/ OpenHTTP
  \/ Serve \/ Answer \/ StopServing
  \/ \E m \in Modules : Return(m)
  \/ StopHTTP \/ CancelModules \/ JoinModules \/ CloseParts

LifeSpec == LifeInit /\ [][LifeNext]_lifeVars
-----------------------------------------------------------------------------
Used == {"links", "broker"} \cup (IF CameraOn THEN {"cameras"} ELSE {})

(* Nothing is closed under a part that uses it, whichever start failed and *)
(* however modules and requests end: a module and a request that is waited *)
(* for have their links and cameras, and a link has its broker.            *)
UsersGoFirst ==
  /\ running # {} \/ requests = "some" => Used \subseteq open
  /\ "links" \in open => "broker" \in open

(* A serving that has returned left nothing open and no module running, so *)
(* the page, or the restarted process, finds every port free.              *)
NothingLeft == closing = "returned" => open = {} /\ running = {}

Orderly == UsersGoFirst /\ NothingLeft
=============================================================================
