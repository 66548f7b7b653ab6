------------------------------ MODULE MCStartup ------------------------------
(***************************************************************************)
(* Startup for TLC: sectors of four bytes, kernels of at most 22 bytes.    *)
(***************************************************************************)
EXTENDS Startup

\* The kernel alone, as the makefile has it, with another file, with skips
\* that can and cannot be made, a file that is no kernel, and a boot sector
\* that is too large.
MCArgLists ==
  { <<File("boot", 1), File("kernel", 22)>>,
    <<File("boot", 0), File("kernel", 20), File("other", 3)>>,
    <<File("boot", 2), File("kernel", 22), SkipTo(8), File("other", 4)>>,
    <<File("boot", 1), File("kernel", 21), SkipTo(3)>>,
    <<File("boot", 2), File("other", 5), File("kernel", 22)>>,
    <<File("boot", 3), File("kernel", 22)>> }

S(va, off, filesz, memsz) == [va |-> va, off |-> off, filesz |-> filesz, memsz |-> memsz]

\* Addresses and offsets agree modulo the sector; text and data on sectors
\* of their own, sharing one, with and without bss, starting inside a sector.
MCKernels ==
  { <<S(16, 8, 8, 8), S(28, 16, 4, 7)>>,
    <<S(16, 8, 6, 6), S(22, 14, 3, 9)>>,
    <<S(17, 9, 10, 13)>>,
    <<S(18, 10, 2, 2), S(20, 12, 1, 3), S(24, 16, 4, 4)>> }
=============================================================================
