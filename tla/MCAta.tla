-------------------------------- MODULE MCAta --------------------------------
(***************************************************************************)
(* Ata for TLC: the machines and the disks.                                *)
(***************************************************************************)
EXTENDS Ata

P(type, start) == [type |-> type, start |-> start]

\* Four entries; sector 9 a boot sector, 3 one without the signature, 5
\* one with other sectors.
MCTables ==
  { <<P(0, 0), P(0, 0), P(0, 0), P(0, 0)>>,
    <<P(\h83, 4), P(\h0C, 9), P(\h0B, 3), P(0, 0)>>,
    <<P(\h83, 9), P(0, 0), P(0, 0), P(\h0B, 9)>>,
    <<P(\h0C, 3), P(\h0B, 9), P(0, 0), P(0, 0)>>,
    <<P(\h0C, 5), P(0, 0), P(0, 0), P(0, 0)>>,
    <<P(\h0B, 0), P(\h0C, 9), P(0, 0), P(0, 0)>> }

Disk(parts) ==
  [s \in Sector |->
     CASE s = 0 -> [Data("x") EXCEPT !.parts = parts, !.signed = TRUE]
       [] s = 9 -> [Data("x") EXCEPT !.signed = TRUE, !.b512 = TRUE]
       [] s = 3 -> [Data("x") EXCEPT !.b512 = TRUE]
       [] s = 5 -> [Data("x") EXCEPT !.signed = TRUE]
       [] OTHER -> Data("x")]

\* The boot disk, with a partition that would do or without one; the other
\* drives each with contents of their own.
MCPlugged(d) ==
  IF d = Boot
  THEN {[kind |-> "ata", disk |-> Disk(parts)] : parts \in {<<P(\h0C, 9)>>, <<>>}}
  ELSE {[kind |-> "ata", disk |-> Disk(parts)] : parts \in MCTables}
         \cup {[kind |-> k, disk |-> Disk(<<>>)] : k \in {"absent", "atapi"}}

\* Every combination of them.
MCHardware ==
  {[kind |-> [d \in Drives |-> m[d].kind], disk |-> [d \in Drives |-> m[d].disk]] :
     m \in {f \in [Drives -> UNION {MCPlugged(d) : d \in Drives}] :
              \A d \in Drives : f[d] \in MCPlugged(d)}}
=============================================================================
