-------------------------------- MODULE Bridge --------------------------------
(***************************************************************************)
(* The broker that printer apps connect to (internal/broker bridge.go,     *)
(* server.go) over the printer links: who may connect, which topics a      *)
(* client may use, where its requests go and who sees a printer's reports. *)
(* The broker itself is a library: it matches topics with subscriptions    *)
(* and calls the hooks.                                                    *)
(***************************************************************************)
EXTENDS Configuration

CONSTANTS
  Configured,  \* bound: the configurations submitted
  Apps,        \* the clients of the broker
  Anyone       \* auth.mode is accept_all

ASSUME BridgeAssumption == \A c \in Configured : DOMAIN c = 1 .. Len(c) /\ Len(c) \in Nat

VARIABLES
  config,  \* the configuration served
  links,   \* the printers that are online
  apps,    \* the subscriptions of each connected client
  wire     \* the last message: who was sent what

bridgeVars == <<config, links, apps, wire>>

Served(c) == {c[i].serial : i \in DOMAIN c}
Names == (UNION {Served(c) \cup {c[i].alias : i \in DOMAIN c} : c \in Configured}) \ {Blank}
Quiet == [kind |-> "none", id |-> Blank, printer |-> Blank, apps |-> {}]
Wires == [kind : {"none", "request", "report"}, id : Names \cup {Blank},
          printer : Names \cup {Blank}, apps : SUBSET Apps]

BridgeTypes ==
  /\ config \in Configured /\ links \subseteq Served(config)
  /\ DOMAIN apps \subseteq Apps /\ \A a \in DOMAIN apps : apps[a] \subseteq Names \cup {"+"}
  /\ wire \in Wires

(* Start-up serves what Validate accepts.                                  *)
BridgeInit ==
  /\ config \in {c \in Configured : c # <<>> /\ Validate(c)}
  /\ links = {} /\ apps = <<>> /\ wire = Quiet

Link(p) ==
  /\ links' = IF p \in links THEN links \ {p} ELSE links \cup {p}
  /\ wire' = Quiet /\ UNCHANGED <<config, apps>>

(* OnConnectAuthenticate: in printer mode any configured code will do.     *)
Connect(a, user, code) ==
  /\ a \notin DOMAIN apps
  /\ Anyone \/ \E i \in DOMAIN config : user = "bblp" /\ config[i].code = code
  /\ apps' = [b \in DOMAIN apps \cup {a} |-> IF b = a THEN {} ELSE apps[b]]
  /\ wire' = Quiet /\ UNCHANGED <<config, links>>

(* A session does not outlive its connection, and OnWill drops its will.   *)
Disconnect(a) ==
  /\ a \in DOMAIN apps
  /\ apps' = [b \in DOMAIN apps \ {a} |-> apps[b]]
  /\ wire' = Quiet /\ UNCHANGED <<config, links>>

(* OnACLCheck of a subscription to device/<id>/report.                     *)
Subscribe(a, id) ==
  /\ a \in DOMAIN apps /\ AllowedSubscribe(config, id)
  /\ apps' = [apps EXCEPT ![a] = @ \cup {id}]
  /\ wire' = Quiet /\ UNCHANGED <<config, links>>

(* OnACLCheck and OnPublish of a client's message: it goes to the printer  *)
(* and to no client, or is dropped while the printer is offline.           *)
Request(a, id, kind) ==
  LET serial == RequestSerial(config, id, kind) IN
  /\ a \in DOMAIN apps /\ serial # Blank
  /\ wire' = IF serial \in links
             THEN [kind |-> "request", id |-> id, printer |-> serial, apps |-> {}]
             ELSE Quiet
  /\ UNCHANGED <<config, links, apps>>

(* Injector.PublishDownstream of a report of a printer.                    *)
Inject(p) ==
  /\ p \in links
  /\ LET id == Downstream(config, p) IN
       wire' = [kind |-> "report", id |-> id, printer |-> p,
                apps |-> {a \in DOMAIN apps : {id, "+"} \cap apps[a] # {}}]
  /\ UNCHANGED <<config, links, apps>>

BridgeNext ==
  \/ \E p \in Served(config) : Link(p) \/ Inject(p)
  \/ \E a \in Apps :
       \/ \E user \in {"bblp", "other"}, i \in DOMAIN config : Connect(a, user, config[i].code)
       \/ Disconnect(a)
       \/ \E id \in Names \cup {"+"} : Subscribe(a, id)
       \/ \E id \in Names, kind \in {"request", "report"} : Request(a, id, kind)

BridgeSpec == BridgeInit /\ [][BridgeNext]_bridgeVars
-----------------------------------------------------------------------------
(* The name a client uses is one printer's in both directions: a request   *)
(* reaches the printer whose reports carry that name, and no other printer *)
(* answers to it, whatever aliases a valid configuration gives             *)
(* (Config.Validate, NewTable, RequestSerial, Downstream).                 *)
OnePrinterPerName ==
  wire.kind # "none" =>
    \A p \in Served(config) : Downstream(config, p) = wire.id <=> p = wire.printer
=============================================================================
