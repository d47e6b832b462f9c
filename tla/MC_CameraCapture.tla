----------------------------- MODULE MC_CameraCapture -----------------------------
(* CameraCapture with interchangeable clients, for safety runs.            *)
EXTENDS CameraCapture, TLC

Symmetry == Permutations(Clients)
=============================================================================
