----------------------------- MODULE BootLoader -----------------------------
(***************************************************************************)
(* From the image to the running kernel: mkbootdisk makes the disk, the    *)
(* boot loader reads the ELF header and then every segment, sector by      *)
(* sector, over whatever is in memory, and jumps.                          *)
(*                                                                         *)
(* The kernel's program headers are given (Segments); the loader reads     *)
(* them from the scratch space each time it comes to one.                  *)
(*                                                                         *)
(* A sector is read in one step.  boot_waitdisk (boot.c:84-91), which      *)
(* waits for ready and not busy but not for DRQ, is not modelled: the      *)
(* drive is taken to have its data ready when it is no longer busy.        *)
(***************************************************************************)
EXTENDS BootImage

CONSTANTS
  MEMORY,      \* bytes of memory
  ELFHDR,      \* address of the scratch space
  PAGESIZE,
  PHOFF,       \* place of the program headers in the file, a byte each
  Kernels      \* kernels: sequences of segments [va, off, filesz, memsz]

Segment == [va: Nat, off: Nat, filesz: Nat, memsz: Nat]

\* The page with the headers, read like a segment.
HeaderPage == [va |-> ELFHDR, off |-> 0, filesz |-> PAGESIZE, memsz |-> PAGESIZE]

Low(s) == s.va - (s.va % SECT)
End(s) == s.va + s.memsz

\* t comes behind s: in a sector of its own, or in the one where s ends, when
\* it follows s in the file as in memory.
Behind(t, s) ==
  \/ End(s) <= Low(t)
  \/ End(s) <= t.va /\ s.memsz = s.filesz /\ t.va - s.va = t.off - s.off

\* A kernel as kernel.ld has it linked: the sections ascend from 0x40000,
\* addresses and offsets agree modulo the sector.  The loader takes every
\* program header for a segment (boot.c:47); one of another type, with no
\* bytes in file or memory, loads nothing and is left out.
Linked(k) ==
  /\ k \in Seq(Segment) /\ PHOFF + Len(k) <= PAGESIZE
  /\ \A i \in DOMAIN k :
       /\ k[i].filesz <= k[i].memsz /\ End(k[i]) <= MEMORY
       /\ k[i].va % SECT = k[i].off % SECT
       /\ End(HeaderPage) <= Low(k[i])
       /\ \A j \in 1..(i - 1) : Behind(k[i], k[j])

\* A file of n bytes with the headers and segments of k in it.
Holds(n, k) == PHOFF + Len(k) <= n /\ \A i \in DOMAIN k : k[i].off + k[i].filesz <= n

ASSUME LinkAssumption ==
  /\ MEMORY \in Nat /\ ELFHDR \in Nat /\ PAGESIZE \in Nat \ {0} /\ PHOFF \in Nat
  /\ ELFHDR % SECT = 0 /\ End(HeaderPage) <= MEMORY /\ SECT + PAGESIZE <= FILL * SECT
  /\ \A k \in Kernels :
       /\ Linked(k)
       /\ \A a \in ArgLists : \A i \in DOMAIN a :
            a[i].kind = "file" /\ a[i].name = "kernel" => Holds(a[i].n, k)

VARIABLES
  kernel,      \* the segments of the file that is being loaded
  lpc,         \* "off", "read", "clear", "next", "spin" or "kernel"
  ph,          \* the segment being read, 0 for the header
  ptr, src_sect, end_ptr, mem_end,
  mem

lvars == <<kernel, lpc, ph, ptr, src_sect, end_ptr, mem_end, mem>>

Address == 0..(MEMORY - 1)

LoaderInit ==
  /\ kernel \in Kernels
  /\ lpc = "off" /\ ph = 0 /\ ptr = 0 /\ src_sect = 0 /\ end_ptr = 0 /\ mem_end = 0
  /\ mem = [a \in Address |-> Byte("junk", 0)]

\* Mutant: sectors are counted from the kernel's first, not the disk's.
src_sector_of_file(off) == off \div SECT

\* The kernel's file begins at sector 1.
src_sector(off) == (off \div SECT) + 1

\* The head of boot_readseg; ptr is rounded down to a sector.
boot_readseg(dst, sect, filesz, memsz) ==
  /\ ptr' = dst - (dst % SECT) /\ src_sect' = sect
  /\ end_ptr' = dst + filesz /\ mem_end' = dst + memsz
  /\ lpc' = "read"

\* Mutant: reads the first sector of the page only.
boot_one_sector ==
  /\ pc = "built" /\ lpc = "off"
  /\ boot_readseg(ELFHDR, 1, SECT, SECT)
  /\ UNCHANGED <<ivars, kernel, ph, mem>>

\* The BIOS starts the loader, which reads the page with the headers.
boot ==
  /\ pc = "built" /\ lpc = "off"
  /\ boot_readseg(ELFHDR, 1, PAGESIZE, PAGESIZE)
  /\ UNCHANGED <<ivars, kernel, ph, mem>>

boot_readsect ==
  /\ lpc = "read" /\ ptr < end_ptr
  /\ mem' = [a \in Address |-> IF a \in ptr..(ptr + SECT - 1)
                               THEN out[src_sect * SECT + (a - ptr) + 1] ELSE mem[a]]
  /\ ptr' = ptr + SECT /\ src_sect' = src_sect + 1
  /\ UNCHANGED <<ivars, kernel, lpc, ph, end_ptr, mem_end>>

\* Mutant: clears from the end of the last sector on.
clear_bss_from_sector ==
  /\ lpc = "read" /\ ptr >= end_ptr
  /\ mem' = [a \in Address |-> IF a \in ptr..(mem_end - 1) THEN Byte("zero", 0) ELSE mem[a]]
  /\ lpc' = "next"
  /\ UNCHANGED <<ivars, kernel, ph, ptr, src_sect, end_ptr, mem_end>>

clear_bss ==
  /\ lpc = "read" /\ ptr >= end_ptr
  /\ mem' = [a \in Address |-> IF a \in end_ptr..(mem_end - 1) THEN Byte("zero", 0) ELSE mem[a]]
  /\ lpc' = "next"
  /\ UNCHANGED <<ivars, kernel, ph, ptr, src_sect, end_ptr, mem_end>>

\* The magic number (byte 0) or a program header is in the scratch space.
InPlace(i) == mem[ELFHDR + i] = Byte("kernel", i)

\* No ELF magic number: the loader spins.
bad_magic ==
  /\ lpc = "next" /\ ph = 0 /\ ~InPlace(0) /\ lpc' = "spin"
  /\ UNCHANGED <<ivars, kernel, ph, ptr, src_sect, end_ptr, mem_end, mem>>

load_segment ==
  LET s == kernel[ph + 1]
  IN  /\ lpc = "next" /\ InPlace(0) /\ ph < Len(kernel)
      /\ ph' = ph + 1
      /\ boot_readseg(s.va, src_sector(s.off), s.filesz, s.memsz)
      /\ UNCHANGED <<ivars, kernel, mem>>

kernel_entry ==
  /\ lpc = "next" /\ InPlace(0) /\ ph = Len(kernel) /\ lpc' = "kernel"
  /\ UNCHANGED <<ivars, kernel, ph, ptr, src_sect, end_ptr, mem_end, mem>>

Loader == boot \/ boot_readsect \/ clear_bss \/ bad_magic \/ load_segment \/ kernel_entry

----------------------------------------------------------------------------
\* When the kernel starts, all its segments are in memory as linked: every
\* byte of the file at its address, every byte behind zero, although each
\* segment is read in whole sectors that reach into its neighbours.
KernelLoaded ==
  lpc = "kernel" =>
    \A i \in DOMAIN kernel : LET s == kernel[i] IN
      \A k \in 0..(s.memsz - 1) :
        mem[s.va + k] = IF k < s.filesz THEN Byte("kernel", s.off + k) ELSE Byte("zero", 0)

\* "read 1st page off disk (should include programs as well as header)":
\* the program headers the loader has still to come to are in the scratch
\* space, and no segment is loaded over them.
HeadersKept ==
  (lpc = "next" /\ InPlace(0)) \/ (lpc = "read" /\ ph > 0) =>
     \A i \in ph..(Len(kernel) - 1) : InPlace(PHOFF + i)
=============================================================================
