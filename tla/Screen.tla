------------------------------- MODULE Screen --------------------------------
(***************************************************************************)
(* The text screen of log/printk.c: putchar with the cursor, _scroll,      *)
(* which moves only as much of a line as has been written (lineLength),    *)
(* and clearScreen, which clears down to the cursor's line.  printStr and  *)
(* clearScreen hold a lock with interrupts off: each is undisturbed.       *)
(***************************************************************************)
EXTENDS Integers, Sequences, SequencesExt

CONSTANTS Columns, Rows,  \* XResolution / XCharSize, min(96, YResolution / YCharSize)
          Tab             \* 4

Blank == " "
Lines == 0..(Rows - 1)
BlankLine == [c \in 0..(Columns - 1) |-> Blank]
(* "off": something was drawn above the screen, outside the frame buffer.  *)
(* "up" is a ghost: a backspace has left a line.                           *)
Start0 == [cell |-> [r \in Lines |-> BlankLine], used |-> [r \in Lines |-> 0],
           x |-> 0, y |-> 0, off |-> FALSE, up |-> FALSE]

Larger(a, b) == IF a > b THEN a ELSE b

(* _scroll: a line takes what it and the one below it have used            *)
MovedOwn(s, r) == s.used[r + 1]       \* a faulty variant: only what the one below has
Moved(s, r) == Larger(s.used[r], s.used[r + 1])
Scroll(s) ==
  [s EXCEPT !.cell = [r \in Lines |-> IF r = Rows - 1 THEN BlankLine
                        ELSE [c \in DOMAIN BlankLine |->
                                @[IF c < Moved(s, r) THEN r + 1 ELSE r][c]]],
            !.used = [r \in Lines |-> IF r = Rows - 1 THEN 0 ELSE @[r + 1]]]
(* What it is to do: a line takes the whole of the one below it.           *)
ScrollWhole(s) ==
  [s EXCEPT !.cell = [r \in Lines |-> IF r = Rows - 1 THEN BlankLine ELSE @[r + 1]]]

(* clearScreen, and what it is to do                                        *)
ClearScreen(s) ==
  [s EXCEPT !.cell = [r \in Lines |-> IF r <= s.y THEN BlankLine ELSE @[r]],
            !.used = [r \in Lines |-> 0], !.x = 0, !.y = 0]
ClearWhole(s) == [s EXCEPT !.cell = Start0.cell, !.x = 0, !.y = 0]

(* with the code's moves and clearing, or as a whole                        *)
NewLine(whole, s) ==
  IF s.y + 1 < Rows THEN [s EXCEPT !.x = 0, !.y = @ + 1]
  ELSE [(IF whole THEN ScrollWhole(s) ELSE Scroll(s)) EXCEPT !.x = 0]
(* a visible character; a line that is full ends first                      *)
Draw(whole, s, ch) ==
  LET t == IF s.x = Columns THEN NewLine(whole, s) ELSE s
  IN  IF t.y < 0 THEN [t EXCEPT !.off = TRUE]
      ELSE [t EXCEPT !.cell[t.y][t.x] = ch, !.x = @ + 1, !.used[t.y] = Larger(@, t.x + 1)]
Blanks(whole, s) ==         \* do ... while (XPosition & 3): a line may end in between
  LET step(t, n) == IF n > 1 /\ t.x % Tab = 0 THEN t ELSE Draw(whole, t, Blank)
  IN  FoldLeft(step, s, [n \in 1..(2 * Tab) |-> n])

(* putchar.  Nothing after a character above the screen is modelled.        *)
Putchar(whole, s, ch) ==
  CASE ch = "newline" -> NewLine(whole, s)
    [] ch = "return" -> [s EXCEPT !.x = 0]
    [] ch = "back" -> IF s.x > 0 THEN [s EXCEPT !.x = @ - 1]
                    ELSE [s EXCEPT !.y = @ - 1, !.x = Columns, !.up = TRUE]
    [] ch = "tab" -> Blanks(whole, s)
    [] OTHER -> Draw(whole, s, ch)

(* printStr and clearScreen as callers issue them ("clear" among the text). *)
Show(whole, ops) ==
  LET step(s, op) == CASE s.off -> s
                       [] ~s.off /\ op = "clear" -> IF whole THEN ClearWhole(s) ELSE ClearScreen(s)
                       [] OTHER -> Putchar(whole, s, op)
  IN  FoldLeft(step, Start0, ops)

(* Moving and clearing only what is written shows the text that moving and  *)
(* clearing everything would.  A text whose backspaces leave a line may not *)
(* be followed by clearScreen, which then clears too little and forgets the *)
(* lengths of the lines it left.                                            *)
ShownWhole(ops) ==
  LET s == Show(FALSE, ops)
      w == Show(TRUE, ops)
  IN  \/ s.up /\ \E i \in DOMAIN ops : ops[i] = "clear"
      \/ s.off /\ w.off
      \/ s.cell = w.cell /\ s.x = w.x /\ s.y = w.y
==============================================================================
