------------------------------ MODULE CameraLease ------------------------------
(***************************************************************************)
(* What a capture promises its callers (internal/camera/capture.go): a     *)
(* camera that allows one connection, lent to any number of callers, kept  *)
(* while one of them holds it, given up at some time after the last has    *)
(* returned it, and never lent while the connection given up last has not  *)
(* ended.  CameraCapture implements this.                                  *)
(***************************************************************************)
EXTENDS Naturals

CONSTANT Clients

VARIABLES
  holders,  \* the callers that hold the camera
  stream,   \* its connection: "off", "on", or "draining" until it has ended
  shut,     \* whether it was closed: "no", "closing", "closed"
  frame,    \* the number of the newest frame, 0 before the first
  given     \* given[c]: the frame c was given last

leaseVars == <<holders, stream, shut, frame, given>>

Init ==
  /\ holders = {} /\ stream = "off" /\ shut = "no"
  /\ frame = 0 /\ given = [c \in Clients |-> 0]

Take(c) ==
  /\ shut = "no" /\ stream # "draining" /\ c \notin holders
  /\ holders' = holders \cup {c} /\ stream' = "on"
  /\ UNCHANGED <<shut, frame, given>>

Serve(c) ==
  /\ c \in holders /\ frame > 0
  /\ given' = [given EXCEPT ![c] = frame]
  /\ UNCHANGED <<holders, stream, shut, frame>>

Return(c) ==
  /\ c \in holders /\ holders' = holders \ {c}
  /\ UNCHANGED <<stream, shut, frame, given>>

Publish ==
  /\ shut = "no" /\ stream # "off" /\ frame' = frame + 1
  /\ UNCHANGED <<holders, stream, shut, given>>

(* A connection that has already failed needs no draining.                 *)
Retire ==
  /\ shut = "no" /\ stream = "on" /\ holders = {}
  /\ stream' \in {"draining", "off"}
  /\ UNCHANGED <<holders, shut, frame, given>>

Drained ==
  /\ stream = "draining" /\ stream' = "off"
  /\ UNCHANGED <<holders, shut, frame, given>>

(* Closing takes the camera from its holders.                              *)
Shut ==
  /\ shut = "no" /\ shut' \in {"closing", "closed"} /\ holders' = {}
  /\ IF stream = "on" THEN stream' \in {"draining", "off"} ELSE UNCHANGED stream
  /\ shut' = "closed" => stream' = "off"
  /\ UNCHANGED <<frame, given>>

Closed ==
  /\ shut = "closing" /\ stream = "off" /\ shut' = "closed"
  /\ UNCHANGED <<holders, stream, frame, given>>

Next ==
  \/ \E c \in Clients : Take(c) \/ Serve(c) \/ Return(c)
  \/ Publish \/ Retire \/ Drained \/ Shut \/ Closed

Spec == Init /\ [][Next]_leaseVars
-----------------------------------------------------------------------------
(* Who holds the camera has a connection nobody gives up, what is closed   *)
(* stays off, and nobody was given a frame that is not there.              *)
Lent ==
  /\ holders # {} => stream = "on" /\ shut = "no"
  /\ shut # "no" => stream # "on"
  /\ shut = "closed" => stream = "off"
  /\ \A c \in Clients : given[c] <= frame
=============================================================================
