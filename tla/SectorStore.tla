----------------------------- MODULE SectorStore -----------------------------
(***************************************************************************)
(* What a caller of readDiskSector and writeDiskSector expects: an array   *)
(* of sectors and a buffer, one request at a time, served at once.         *)
(***************************************************************************)
CONSTANTS Sector, Value

VARIABLES store, buf, req

vars == <<store, buf, req>>

None     == [kind |-> "none", sector |-> 0]
Requests == [kind: {"read", "write"}, sector: Sector]

Init == store \in [Sector -> Value] /\ buf \in Value /\ req = None

\* The caller fills the buffer for a write only.
Ask ==
  /\ req = None
  /\ req' \in Requests
  /\ buf' \in IF req'.kind = "write" THEN Value ELSE {buf}
  /\ UNCHANGED store

Read ==
  /\ req.kind = "read" /\ buf' = store[req.sector] /\ req' = None
  /\ UNCHANGED store

Write ==
  /\ req.kind = "write" /\ store' = [store EXCEPT ![req.sector] = buf]
  /\ req' = None
  /\ UNCHANGED buf

Next == Ask \/ Read \/ Write

Spec == Init /\ [][Next]_vars
=============================================================================
