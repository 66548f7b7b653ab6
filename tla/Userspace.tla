----------------------------- MODULE Userspace -----------------------------
(***************************************************************************)
(* The four programs linked into the kernel image (ramimages): idle, the   *)
(* shell and the two dummies.  A program is a set of labels; a label       *)
(* either is an `int n` instruction, a trap into the kernel, or stands for *)
(* user instructions whose effect is an action of module System.           *)
(*                                                                         *)
(* What the programs compute for the screen (the line editor, the wording  *)
(* of messages) is left out, and a run of write_char calls, which change   *)
(* nothing but the screen, is one call.  Every other system call is kept,  *)
(* in the order it is made, and so is every place where the value returned *)
(* in %rax decides which call comes next.                                  *)
(***************************************************************************)
EXTENDS Integers

\* Interrupt numbers (kernel/interrupt_handlers.h).
SYS_GETCHAR_INT       == 128
SYS_WRITE_CHAR_INT    == 129
SYS_CURSOR_INT        == 130
SYS_LIST_FILES_INT    == 131
SYS_MKDIR_INT         == 132
SYS_CD_INT            == 133
SYS_RM_INT            == 134
SYS_ENABLE_KB_TIM_INT == 135
SYS_YIELD_INT         == 136
SYS_START_INT         == 137
SYS_STOP_INT          == 138
SYS_READ_INT          == 139
SYS_WRITE_INT         == 140

\* Program numbers: indices of ramimages; program i always runs in procs[i].
P_IDLE   == 0
P_SHELL  == 1
P_DUMMY1 == 2
P_DUMMY2 == 3
Programs == {P_IDLE, P_SHELL, P_DUMMY1, P_DUMMY2}

\* The processes sys_start and sys_stop accept.
Startable == {P_DUMMY1, P_DUMMY2}

----------------------------------------------------------------------------
\* Labels.  The user instructions of the shell are those that depend on
\* %rax across two instructions, where an interrupt can come in between.

IdleLabels == {"idle_loop"}

DummyTraps  == {"dummy_enable", "dummy_print", "dummy_yield"}
DummyLabels == DummyTraps \cup {"dummy_loop"}

FsTraps == {"sh_ls", "sh_find", "sh_mkdir", "sh_cd", "sh_rm", "sh_rm_old",
            "sh_read", "sh_write"}
ShellTraps  == {"sh_enable", "sh_prompt", "sh_cursor", "sh_getchar",
                "sh_echo", "sh_sys_start", "sh_sys_stop"} \cup FsTraps
ShellLabels == ShellTraps \cup
               {"sh_got", "sh_start_load", "sh_start_test", "sh_stop_load",
                "sh_stop_test", "sh_ls_test", "sh_find_test"}

\* Where process_cmd may go for the command on the line: nothing to do or a
\* message, ls, a command that looks a name up, start n, stop n.
ProcessCommands == {"sh_start_load", "sh_stop_load"}
AllCommands     == {"sh_prompt", "sh_ls", "sh_find"} \cup ProcessCommands

Traps  == DummyTraps \cup ShellTraps
Labels == IdleLabels \cup DummyLabels \cup ShellLabels

Code(prog) == CASE prog = P_IDLE  -> IdleLabels
                [] prog = P_SHELL -> ShellLabels
                [] OTHER          -> DummyLabels

\* The address of process_main, where load_process points %rip.
Entry(prog) == CASE prog = P_IDLE  -> "idle_loop"
                 [] prog = P_SHELL -> "sh_enable"
                 [] OTHER          -> "dummy_enable"

\* The interrupt number a trap label raises.
IntNo == [l \in Traps |->
  CASE l \in {"sh_enable", "dummy_enable"}             -> SYS_ENABLE_KB_TIM_INT
    [] l \in {"sh_prompt", "sh_echo", "dummy_print"}   -> SYS_WRITE_CHAR_INT
    [] l = "sh_cursor"                                 -> SYS_CURSOR_INT
    [] l = "sh_getchar"                                -> SYS_GETCHAR_INT
    [] l \in {"sh_ls", "sh_find"}                      -> SYS_LIST_FILES_INT
    [] l = "sh_mkdir"                                  -> SYS_MKDIR_INT
    [] l = "sh_cd"                                     -> SYS_CD_INT
    [] l \in {"sh_rm", "sh_rm_old"}                    -> SYS_RM_INT
    [] l = "sh_read"                                   -> SYS_READ_INT
    [] l = "sh_write"                                  -> SYS_WRITE_INT
    [] l = "sh_sys_start"                              -> SYS_START_INT
    [] l = "sh_sys_stop"                               -> SYS_STOP_INT
    [] l = "dummy_yield"                               -> SYS_YIELD_INT]

\* The label after a trap: the %rip the processor pushes for `int`.
After == [l \in Traps |->
  CASE l = "sh_cursor"                          -> "sh_getchar"
    [] l = "sh_getchar"                         -> "sh_got"
    [] l \in {"sh_prompt", "sh_echo"}           -> "sh_cursor"
    [] l = "sh_ls"                              -> "sh_ls_test"
    [] l = "sh_find"                            -> "sh_find_test"
    [] l = "sh_rm_old"                          -> "sh_write"
    [] l \in {"sh_enable", "sh_sys_start", "sh_sys_stop", "sh_mkdir", "sh_cd",
              "sh_rm", "sh_read", "sh_write"}   -> "sh_prompt"
    [] l \in {"dummy_enable", "dummy_yield"}    -> "dummy_loop"
    [] l = "dummy_print"                        -> "dummy_yield"]
=============================================================================
