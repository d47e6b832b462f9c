------------------------------ MODULE PrinterProbe ------------------------------
(***************************************************************************)
(* One connection test of a draft printer (internal/configui/probe.go):    *)
(* the MQTT library dials and shakes hands in goroutines of its own, while *)
(* the request waits for its token or for its ten seconds and then cleans  *)
(* up.  The library is external: it calls the open function once, closes   *)
(* the socket of a handshake that failed, and completes the token.         *)
(***************************************************************************)
VARIABLES
  prober,   \* the request: waiting, closing what it captured, disconnecting, returned
  dialer,   \* the open function: dialing, registering, done
  token,    \* the library: none, shaking hands, completed
  expired,  \* the context ended
  live,     \* the dialed socket is open
  sock,     \* the captured socket is set
  stopped,  \* cleanup began
  closer    \* cleanup has a socket to close

probeVars == <<prober, dialer, token, expired, live, sock, stopped, closer>>

ProbeTypes ==
  /\ prober \in {"wait", "close", "disconnect", "returned"}
  /\ dialer \in {"dial", "register", "refused", "done"}
  /\ token \in {"none", "handshake", "done"}
  /\ {expired, live, sock, stopped, closer} \subseteq BOOLEAN

ProbeInit ==
  /\ prober = "wait" /\ dialer = "dial" /\ token = "none"
  /\ expired = FALSE /\ live = FALSE /\ sock = FALSE /\ stopped = FALSE /\ closer = FALSE
-----------------------------------------------------------------------------
(* testConnectTimeout passes, or the page's request is cancelled.          *)
Expire ==
  /\ ~expired /\ expired' = TRUE
  /\ UNCHANGED <<prober, dialer, token, live, sock, stopped, closer>>

(* dialPrinter: a dial may end well even as its context does.              *)
Dial ==
  /\ dialer = "dial"
  /\ \/ dialer' = "register" /\ live' = TRUE
     \/ dialer' = "refused" /\ UNCHANGED live
  /\ UNCHANGED <<prober, token, expired, sock, stopped, closer>>

\* Mutant: the cleanup is not asked for when a socket is dialed.
KeepAnySocket == live /\ sock' = TRUE /\ token' = "handshake" /\ UNCHANGED live

(* Under sockMu: a socket dialed after the cleanup closes at once.         *)
KeepSocket ==
  IF stopped THEN live' = FALSE /\ token' = "done" /\ UNCHANGED sock
  ELSE live /\ sock' = TRUE /\ token' = "handshake" /\ UNCHANGED live

RegisterSocket ==
  /\ dialer = "register" /\ dialer' = "done" /\ KeepSocket
  /\ UNCHANGED <<prober, expired, stopped, closer>>

Refused ==
  /\ dialer = "refused" /\ dialer' = "done" /\ token' = "done"
  /\ UNCHANGED <<prober, expired, live, sock, stopped, closer>>

(* The answer to the one CONNECT; a refusal or a closed socket ends it.    *)
Handshake ==
  /\ token = "handshake" /\ token' = "done"
  /\ live' \in {live, FALSE}
  /\ UNCHANGED <<prober, dialer, expired, sock, stopped, closer>>
-----------------------------------------------------------------------------
(* The select, then the deferred cleanup: the flag and the captured socket *)
(* under sockMu, the close, the disconnect.                                *)
Cleanup ==
  /\ prober = "wait" /\ (token = "done" \/ expired)
  /\ stopped' = TRUE /\ closer' = sock /\ prober' = "close"
  /\ UNCHANGED <<dialer, token, expired, live, sock>>

CloseSocket ==
  /\ prober = "close" /\ prober' = "disconnect"
  /\ live' = (live /\ ~closer)
  /\ UNCHANGED <<dialer, token, expired, sock, stopped, closer>>

Disconnect0 ==
  /\ prober = "disconnect" /\ prober' = "returned"
  /\ UNCHANGED <<dialer, token, expired, live, sock, stopped, closer>>

ProbeNext ==
  \/ Expire \/ Dial \/ RegisterSocket \/ Refused \/ Handshake
  \/ Cleanup \/ CloseSocket \/ Disconnect0

ProbeSpec == ProbeInit /\ [][ProbeNext]_probeVars
-----------------------------------------------------------------------------
(* No socket outlives the test: once it has returned and its dial is over, *)
(* the printer's connection is free again, also when the dial ended while  *)
(* the cleanup ran or after it (probePrinterConn).                         *)
NoSocketLeft == prober = "returned" /\ dialer = "done" => ~live
=============================================================================
