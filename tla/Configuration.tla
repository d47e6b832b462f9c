---------------------------- MODULE Configuration ----------------------------
(***************************************************************************)
(* What the configuration accepts (internal/config) and what the router    *)
(* makes of it (internal/routing/topic.go), as far as printers go.  A      *)
(* printer is a record of its serial, alias, address and access code,      *)
(* Blank where nothing was entered.                                        *)
(***************************************************************************)
EXTENDS Naturals, Sequences

CONSTANTS
  Blank,       \* the empty string
  AliasNames,  \* the names of upper-case letters and digits
  BareHosts,   \* the addresses entered without a port
  FullAddress  \* the address a bare host stands for

(* WithDefaultPrinterPort.                                                 *)
WithDefaultPrinterPort(a) == IF a \in BareHosts THEN FullAddress[a] ELSE a

(* Config.Validate: the printers.                                          *)
SerialsDiffer(ps) ==
  \A i, j \in DOMAIN ps : ps[i].serial = ps[j].serial => i = j

\* Mutant: an alias may be the serial of another printer.
AliasesAmongThemselves(ps) ==
  \A i \in DOMAIN ps : ps[i].alias # Blank =>
    /\ ps[i].alias \in AliasNames
    /\ \A j \in DOMAIN ps \ {i} : ps[i].alias # ps[j].alias

AliasesDiffer(ps) ==
  \A i \in DOMAIN ps : ps[i].alias # Blank =>
    /\ ps[i].alias \in AliasNames
    /\ \A j \in DOMAIN ps : ps[i].alias # ps[j].serial
    /\ \A j \in DOMAIN ps \ {i} : ps[i].alias # ps[j].alias

Validate(ps) ==
  /\ \A i \in DOMAIN ps : Blank \notin {ps[i].serial, ps[i].address, ps[i].code}
  /\ SerialsDiffer(ps) /\ AliasesDiffer(ps)

(* NewTable: a printer is addressed by its alias, or else by its serial.   *)
(* Two printers of one ID would share it: the later one takes it over.     *)
DownstreamID(p) == IF p.alias = Blank THEN p.serial ELSE p.alias
IDs(ps) == {DownstreamID(ps[i]) : i \in DOMAIN ps}
Owner(ps, id) ==
  LET named == {i \in DOMAIN ps : DownstreamID(ps[i]) = id}
  IN  ps[CHOOSE i \in named : \A j \in named : j <= i].serial

(* Table.RequestSerial, AllowedSubscribe and Downstream, for the topics of *)
(* device/<id>/request and device/<id>/report; "+" is the wildcard.        *)
RequestSerial(ps, id, kind) == IF kind = "request" /\ id \in IDs(ps) THEN Owner(ps, id) ELSE Blank
AllowedSubscribe(ps, id) == id \in IDs(ps) \/ (id = "+" /\ ps # <<>>)
Downstream(ps, serial) ==
  LET own == {i \in DOMAIN ps : ps[i].serial = serial}
  IN  IF own = {} THEN serial ELSE DownstreamID(ps[CHOOSE i \in own : \A j \in own : j <= i])
=============================================================================
