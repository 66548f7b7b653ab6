------------------------------- MODULE Startup -------------------------------
(***************************************************************************)
(* From the makefile to user code: mkbootdisk makes the image, the boot    *)
(* loader loads the kernel from it, the kernel builds its page tables and  *)
(* maps the pages of its processes.  Each part begins where the one before *)
(* ends; what happens between the tables and the processes is Kernel's.    *)
(***************************************************************************)
EXTENDS BootLoader, PageTables

vars == <<ivars, lvars, tvars>>

Init == ImageInit /\ LoaderInit /\ TablesInit

\* kernel(): init_virtual_memory, then init_processes.
kernel_main == lpc = "kernel" /\ TablesNext

Next ==
  \/ mkbootdisk /\ UNCHANGED <<lvars, tvars>>
  \/ Loader /\ UNCHANGED tvars
  \/ kernel_main /\ UNCHANGED <<ivars, lvars>>

Spec == Init /\ [][Next]_vars
=============================================================================
