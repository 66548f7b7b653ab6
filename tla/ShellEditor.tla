----------------------------- MODULE ShellEditor -----------------------------
(***************************************************************************)
(* The shell's line editor: the command line, its copy on the screen, the  *)
(* cursor and the path in the prompt.  One action per key, as process_main *)
(* handles it.  Which command a line names and what the kernel answers are *)
(* left open; what the shell then prints, clears or does to its path is    *)
(* not.                                                                    *)
(*                                                                         *)
(* A key is handled in one step: the person types the next one when the    *)
(* shell waits for it.  One that comes earlier is written into the shell's *)
(* %rax (shell.c:46), where cursor++ and cmd_ind++ have their values on    *)
(* the way from load to store; run `assert' is about that.                 *)
(*                                                                         *)
(* A line and its prompt "> " fill a row (80 and 78 in the code).          *)
(***************************************************************************)
EXTENDS Integers, Sequences, SequencesExt

CONSTANTS
  COLS, ROWS, TAB,   \* 80, 25, 4
  PATH_SIZE,         \* bytes of path[] (51), which the person does not exceed
  Keys,              \* keys the person uses
  Char,              \* characters of these keys, " " among them
  Messages,          \* what a command may print
  Columns            \* the dummies' columns (76, 78)

BUFF_LEN    == COLS - 2
SCREEN_SIZE == COLS * ROWS
Cells       == 0..(SCREEN_SIZE - 1)
BLANK       == "nul"
SPACE       == " "
PROMPT      == <<">", SPACE>>
SLASH       == "\\"

ASSUME EditorAssumption ==
  /\ COLS \in Nat /\ COLS > 2 /\ ROWS \in Nat \ {0} /\ TAB \in Nat
  /\ PATH_SIZE \in Nat \ {0}
  /\ SPACE \in Char /\ SLASH \notin Char

\* Every message of process_cmd ends its row; none has a tab, so sys_write's
\* branch for one is left out.
ASSUME MessagesAssumption ==
  \A m \in Messages :
    m \in Seq(STRING) /\ m # <<>> /\ m[Len(m)] = "\n" /\ \A i \in DOMAIN m : m[i] # "\t"

VARIABLES
  line,      \* cmd[0 .. cmd_len - 1]
  cmd_ind,
  tty,       \* [screen, cursor]
  path,
  dirs       \* the directories entered, by name

vars == <<line, cmd_ind, tty, path, dirs>>

----------------------------------------------------------------------------
\* The screen.

\* Up by n rows, the last ones cleared.
scroll(screen, n) ==
  [p \in Cells |-> IF p + n * COLS \in Cells THEN screen[p + n * COLS] ELSE BLANK]

\* Mutant: the cursor does not move up with the text.
set_cursor_stays(t, new_pos) ==
  LET n == IF new_pos < SCREEN_SIZE THEN 0 ELSE ((new_pos - SCREEN_SIZE) \div COLS) + 1
  IN  [t EXCEPT !.screen = scroll(@, n), !.cursor = new_pos]

\* while(new_pos >= SCREEN_SIZE) scroll.
set_cursor(t, new_pos) ==
  LET n == IF new_pos < SCREEN_SIZE THEN 0 ELSE ((new_pos - SCREEN_SIZE) \div COLS) + 1
  IN  [t EXCEPT !.screen = scroll(@, n), !.cursor = new_pos - n * COLS]

\* n times c from pos on.  No bound is checked; what a write beside the
\* screen destroys is not modelled.
sys_write_char(t, pos, c, n) ==
  [t EXCEPT !.screen = [p \in Cells |-> IF p \in pos..(pos + n - 1) THEN c ELSE @[p]]]

\* C's remainder.
Rem(a) == IF a >= 0 THEN a % COLS ELSE -((-a) % COLS)

NewLine(t) == set_cursor(t, t.cursor + COLS - Rem(t.cursor))

WriteOne(t, c) ==
  IF c = "\n" THEN NewLine(t)
  ELSE set_cursor(sys_write_char(t, t.cursor, c, 1), t.cursor + 1)

sys_write(t, s) ==
  LET written[n \in 0..Len(s)] == IF n = 0 THEN t ELSE WriteOne(written[n - 1], s[n])
  IN  written[Len(s)]

clear_screen(t) == [t EXCEPT !.screen = [p \in Cells |-> BLANK]]

\* The column in which a process that is stopped drew.
clear_column(t, col) ==
  [t EXCEPT !.screen = [p \in Cells |-> IF p % COLS = col THEN SPACE ELSE @[p]]]

\* The head of process_main's loop.
prompt(t, dir) == sys_write(t, dir \o PROMPT)

Init ==
  /\ line = <<>> /\ cmd_ind = 0 /\ path = <<>> /\ dirs = <<>>
  /\ tty = prompt([screen |-> [p \in Cells |-> BLANK], cursor |-> 0], <<>>)

----------------------------------------------------------------------------
\* The keys.

cursor == tty.cursor

\* c over n places from the cursor on: cursor++, not set_cursor.
Put(c, n) ==
  LET last == cmd_ind + n
  IN  /\ line' = [i \in 1..Max({Len(line), last}) |->
                    IF i \in (cmd_ind + 1)..last THEN c ELSE line[i]]
      /\ cmd_ind' = last
      /\ tty' = [sys_write_char(tty, cursor, c, n) EXCEPT !.cursor = @ + n]

type(c) ==
  /\ Len(line) < BUFF_LEN /\ Put(c, 1)
  /\ UNCHANGED <<path, dirs>>

tab ==
  /\ Put(SPACE, Min({TAB, BUFF_LEN - cmd_ind}))
  /\ UNCHANGED <<path, dirs>>

\* Mutant: only the line is changed.
backspace_unseen ==
  /\ cmd_ind # 0 /\ cmd_ind' = cmd_ind - 1
  /\ line' = IF cmd_ind = Len(line) THEN Front(line)
             ELSE [line EXCEPT ![cmd_ind] = SPACE]
  /\ tty' = [tty EXCEPT !.cursor = @ - 1]
  /\ UNCHANGED <<path, dirs>>

\* At the end the line gets shorter, inside it a blank.
backspace ==
  /\ cmd_ind # 0 /\ cmd_ind' = cmd_ind - 1
  /\ line' = IF cmd_ind = Len(line) THEN Front(line)
             ELSE [line EXCEPT ![cmd_ind] = SPACE]
  /\ tty' = [sys_write_char(tty, cursor - 1, SPACE, 1) EXCEPT !.cursor = @ - 1]
  /\ UNCHANGED <<path, dirs>>

left ==
  /\ cmd_ind # 0 /\ cmd_ind' = cmd_ind - 1
  /\ tty' = set_cursor(tty, cursor - 1)
  /\ UNCHANGED <<line, path, dirs>>

\* Mutant: the right arrow does not look at the line's end.
right_past ==
  /\ cmd_ind < BUFF_LEN /\ cmd_ind' = cmd_ind + 1
  /\ tty' = set_cursor(tty, cursor + 1)
  /\ UNCHANGED <<line, path, dirs>>

right ==
  /\ cmd_ind # Len(line) /\ cmd_ind' = cmd_ind + 1
  /\ tty' = set_cursor(tty, cursor + 1)
  /\ UNCHANGED <<line, path, dirs>>

up ==
  /\ cursor - COLS >= 0
  /\ tty' = set_cursor([tty EXCEPT !.screen = scroll(@, 1)], cursor - COLS)
  /\ UNCHANGED <<line, cmd_ind, path, dirs>>

----------------------------------------------------------------------------
\* The command.

\* From index i (from 0) to the first place with, or without, a blank.
Blanks(i) == Min({j \in i..Len(line) : j = Len(line) \/ line[j + 1] # SPACE})
Word(i)   == Min({j \in i..Len(line) : j = Len(line) \/ line[j + 1] = SPACE})

\* Mutant: the last part ends at a blank, too.
parse_cmd_words ==
  LET a == Blanks(0)   b == Word(a)
      c == Blanks(b)   d == Word(c)
      e == Blanks(d)
  IN  <<SubSeq(line, a + 1, b), SubSeq(line, c + 1, d), SubSeq(line, e + 1, Word(e))>>

\* cmd1, cmd2 and cmd3.
parse_cmd ==
  LET a == Blanks(0)   b == Word(a)
      c == Blanks(b)   d == Word(c)
      e == Blanks(d)
  IN  <<SubSeq(line, a + 1, b), SubSeq(line, c + 1, d), SubSeq(line, e + 1, Len(line))>>

\* Mutant: stops behind the slash.
path_up_keeps == SubSeq(path, 1, SelectLastInSeq(path, LAMBDA c : c = SLASH))

\* `cd ..' cuts the path at its last slash.
path_up ==
  LET last == SelectLastInSeq(path, LAMBDA c : c = SLASH)
  IN  SubSeq(path, 1, IF last = 0 THEN 0 ELSE last - 1)

\* The end of the command: a new prompt, an empty line.
Done(t, newPath) ==
  /\ path' = newPath
  /\ tty' = prompt(t, newPath)
  /\ line' = <<>> /\ cmd_ind' = 0

\* Nothing to do or nothing to say, a message, `clean', `stop', or a
\* successful cd.
process_cmd ==
  LET t == NewLine(tty)
  IN  \/ Done(t, path) /\ UNCHANGED dirs
      \/ /\ parse_cmd[1] # <<>>
         /\ \E m \in Messages : Done(sys_write(t, m), path)
         /\ UNCHANGED dirs
      \/ /\ parse_cmd[1] # <<>> /\ parse_cmd[2] = <<>>
         /\ Done(set_cursor(clear_screen(t), 0), path)
         /\ UNCHANGED dirs
      \/ /\ parse_cmd[2] # <<>> /\ parse_cmd[3] = <<>>
         /\ \E col \in Columns : Done(clear_column(t, col), path)
         /\ UNCHANGED dirs
      \/ /\ parse_cmd[2] # <<>> /\ parse_cmd[3] = <<>>
         /\ Len(path) + 1 + Len(parse_cmd[2]) < PATH_SIZE
         /\ Done(t, path \o <<SLASH>> \o parse_cmd[2])
         /\ dirs' = Append(dirs, parse_cmd[2])
      \/ /\ parse_cmd[2] # <<>> /\ parse_cmd[3] = <<>> /\ dirs # <<>>
         /\ Done(t, path_up)
         /\ dirs' = Front(dirs)

Next ==
  \/ \E c \in Char \cap Keys : type(c)
  \/ "tab" \in Keys /\ tab
  \/ "backspace" \in Keys /\ backspace
  \/ "left" \in Keys /\ left
  \/ "right" \in Keys /\ right
  \/ "up" \in Keys /\ up
  \/ process_cmd

Spec == Init /\ [][Next]_vars

----------------------------------------------------------------------------
\* What may be on the screen.
Drawn == Char \cup {BLANK, ">", SLASH} \cup UNION {{m[i] : i \in DOMAIN m} : m \in Messages}

\* Type correctness: cmd_ind stays within the line and the line within cmd[].
TypeOK ==
  /\ line \in Seq(Char) /\ Len(line) <= BUFF_LEN /\ cmd_ind \in 0..Len(line)
  /\ tty.screen \in [Cells -> Drawn]
  /\ path \in Seq(Char \cup {SLASH})

\* Where the line begins on the screen.
first == cursor - cmd_ind

\* Up can scroll the beginning of a full line off the screen.
LineStarts == first >= Len(PROMPT)

\* `screen[SCREEN_SIZE]': behind a bare prompt, every character typed or
\* deleted lands inside it, whatever was scrolled, because a line of
\* BUFF_LEN ends with its row.  (Behind a path it may not: cursor++ does not
\* scroll.)
OnScreen ==
  path = <<>> /\ LineStarts =>
    /\ \A i \in DOMAIN line : first + i - 1 \in Cells
    /\ cursor \in 0..SCREEN_SIZE

\* The line that Enter will run is on the screen behind its prompt, through
\* scrolling and every edit.  (Behind it there may be more: Enter inside a
\* line that fills two rows leaves the rest of the second where it is.)
ScreenShowsLine ==
  path = <<>> /\ LineStarts =>
    /\ \A i \in DOMAIN line : tty.screen[first + i - 1] = line[i]
    /\ \A i \in DOMAIN PROMPT : tty.screen[first - Len(PROMPT) + i - 1] = PROMPT[i]

\* The words of the line: maximal runs without a blank, by their places.
Runs ==
  {r \in (DOMAIN line) \X (DOMAIN line) :
     /\ r[1] <= r[2] /\ \A i \in r[1]..r[2] : line[i] # SPACE
     /\ r[1] = 1 \/ line[r[1] - 1] = SPACE
     /\ r[2] = Len(line) \/ line[r[2] + 1] = SPACE}

\* The k-th of them.
Ranked(k) ==
  LET R == Runs
  IN  {q \in R : Cardinality({p \in R : p[1] < q[1]}) = k - 1}

Run(k) == {SubSeq(line, r[1], r[2]) : r \in Ranked(k)}
Rest   == {SubSeq(line, r[1], Len(line)) : r \in Ranked(3)}

\* parse_cmd gives the first two words and, untouched, all that follows:
\* the content `write' stores keeps its inner blanks.
ParsedFaithfully ==
  LET OrEmpty(S) == IF S = {} THEN {<<>>} ELSE S
  IN  parse_cmd \in OrEmpty(Run(1)) \X OrEmpty(Run(2)) \X OrEmpty(Rest)

\* A list of directories as a path.
Joined(ds) ==
  LET p[n \in 0..Len(ds)] == IF n = 0 THEN <<>> ELSE p[n - 1] \o <<SLASH>> \o ds[n]
  IN  p[Len(ds)]

\* The prompt names the directories entered and not yet left.
PathShowsDirs == path = Joined(dirs)
=============================================================================
