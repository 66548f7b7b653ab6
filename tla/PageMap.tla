------------------------------- MODULE PageMap -------------------------------
(***************************************************************************)
(* What map_page promises: a map from pages to frames and flags, of which  *)
(* each call changes one page.  Module VirtualMemory works on this level.  *)
(***************************************************************************)
CONSTANTS Page, Entry, Absent

VARIABLE map

Init == map = [p \in Page |-> Absent]

Map(p) == map'[p] \in Entry /\ map' = [map EXCEPT ![p] = map'[p]]

Next == \E p \in Page : Map(p)

Spec == Init /\ [][Next]_map
=============================================================================
