------------------------------ MODULE Console ------------------------------
(***************************************************************************)
(* The console: the text screen of vga.c, the keyboard interrupt handler   *)
(* of keyboard.c that edits a command line on it, and what the shell of    *)
(* raxzus_shell.c prints when Enter ends the line.                         *)
(*                                                                         *)
(* A key is one step: handlers never overlap (HandlersSerial of module     *)
(* Interrupts).  kernel_main prints its own prompt after sti, so there     *)
(* print_char is cut up: a key may come after the test of the row, after   *)
(* each row of the scroll, after the cursor is set behind it, after the    *)
(* position is computed, after the cell is written, in the middle of       *)
(* cursor_col++ and after it, and between two characters.  Where the code  *)
(* touches both cursor_row and cursor_col within one of these pieces       *)
(* (main_home, main_position, main_wrap), or several cells of one row, no  *)
(* key comes in between.  A cell of the screen holds a glyph; colours are  *)
(* left out.                                                               *)
(***************************************************************************)
EXTENDS Integers, Sequences, Functions

CONSTANTS
    Rows, Cols,   \* the text screen (25 x 80)
    Prompt,       \* the glyphs of "RaxzusOS > "
    LeftEnd,      \* the column that backspace() takes for the end of the prompt
    BufSize,      \* size of command_buffer (256)
    Outputs,      \* what the commands print, each a sequence of glyphs
    MaxRaced,     \* bound: keys that come during the boot prompt
    MaxLeft       \* bound: columns left of the screen that the cursor may go

Blank   == "blank"
Newline == "newline"
Letters == {"k", "K"}
Glyph   == Letters \cup {Blank, "out"} \cup Range(Prompt)

ASSUME ConsoleAssumption ==
    /\ Rows \in Nat \ {0} /\ Cols \in Nat \ {0} /\ BufSize \in Nat \ {0}
    /\ Prompt \in Seq(Range(Prompt) \ {Newline}) /\ Prompt # <<>>
    /\ LeftEnd = Len(Prompt) /\ LeftEnd < Cols
    /\ Outputs \subseteq Seq({"out", Newline}) /\ MaxRaced \in Nat /\ MaxLeft \in Nat

VARIABLES
    screen,        \* cursor_row, cursor_col, the cells, and whether a write
                   \* ever left the screen
    line,          \* command_buffer[0 .. buffer_pos - 1]
    left_shift,    \* left_shift_pressed
    right_shift,   \* right_shift_pressed
    main,          \* kernel_main's kprintf_cyan: the glyphs left, and the
                   \* place and the local values of the print_char it is in
    raced,         \* ghost: the keys that came before that prompt was complete
    clean,         \* ghost: no such key, and no Backspace at the left edge of
                   \* a wrapped line
    fresh          \* ghost: neither of them since the last Enter

ghosts == <<raced, clean, fresh>>
vars == <<screen, line, left_shift, right_shift, main, raced, clean, fresh>>

buffer_pos == Len(line)

-----------------------------------------------------------------------------
(* vga.c *)

Position(s) == s.row * Cols + s.col

\* A write to video_memory; a write beside the screen hits other memory.
PutCell(s, p, c) ==
    IF p \in DOMAIN s.cells THEN [s EXCEPT !.cells[p] = c]
                            ELSE [s EXCEPT !.stray = TRUE]

\* Mutant: the last row is copied up but not blanked.
ScrollKeepsLastRow(s) ==
    [s EXCEPT !.row = Rows - 1, !.col = 0,
              !.cells = [p \in DOMAIN @ |->
                            IF p + Cols \in DOMAIN @ THEN @[p + Cols] ELSE @[p]]]

\* Every row moves up one; the last one is blanked and gets the cursor.
Scroll(s) ==
    [s EXCEPT !.row = Rows - 1, !.col = 0,
              !.cells = [p \in DOMAIN @ |->
                            IF p + Cols \in DOMAIN @ THEN @[p + Cols] ELSE Blank]]

\* Mutant: the scroll comes one row late.
print_char_late_scroll(s, c) ==
    LET t == IF s.row > Rows THEN Scroll(s) ELSE s
        u == PutCell(t, Position(t), c)
    IN  IF c = Newline        THEN [t EXCEPT !.row = @ + 1, !.col = 0]
        ELSE IF t.col + 1 >= Cols THEN [u EXCEPT !.row = @ + 1, !.col = 0]
                                  ELSE [u EXCEPT !.col = @ + 1]

print_char(s, c) ==
    LET t == IF s.row >= Rows THEN Scroll(s) ELSE s
        u == PutCell(t, Position(t), c)
    IN  IF c = Newline        THEN [t EXCEPT !.row = @ + 1, !.col = 0]
        ELSE IF t.col + 1 >= Cols THEN [u EXCEPT !.row = @ + 1, !.col = 0]
                                  ELSE [u EXCEPT !.col = @ + 1]

\* The characters of text, one after the other.
kprintf(s, text) ==
    LET shown[n \in 0 .. Len(text)] ==
            IF n = 0 THEN s ELSE print_char(shown[n - 1], text[n])
    IN  shown[Len(text)]

clearScreen(s) ==
    [s EXCEPT !.row = 0, !.col = 0, !.cells = [p \in DOMAIN @ |-> Blank]]

\* Mutant: the left end is not looked at.
backspace_anywhere(s, pos) ==
    LET p == Position(s)
        t == PutCell(PutCell(s, p, Blank), p - 1, Blank)
    IN  IF pos > 0 /\ s.col < 1 THEN [s EXCEPT !.row = @ - 1, !.col = Cols]
        ELSE [t EXCEPT !.col = @ - 1]

\* Called with buffer_pos as it was before the key.  At the left edge of a
\* line with text the cursor goes up and nothing is erased.
backspace(s, pos) ==
    LET p == Position(s)
        t == PutCell(PutCell(s, p, Blank), p - 1, Blank)
    IN  IF pos > 0 /\ s.col < 1 THEN [s EXCEPT !.row = @ - 1, !.col = Cols]
        ELSE IF pos > 0 \/ s.col # LeftEnd THEN [t EXCEPT !.col = @ - 1]
        ELSE s

-----------------------------------------------------------------------------
(* raxzus_shell.c *)

\* What a command leaves on the screen: "clear" blanks it, the others print.
\* Two of them end without a newline: "mem", which prints nothing, and a diskR
\* that read its sectors, which prints their characters.
process_input(s) == {clearScreen(s)} \cup {kprintf(s, out) : out \in Outputs}

-----------------------------------------------------------------------------
(* keyboard.c *)

\* Boot text fills the screen and has ended its last line; interrupts are on.
Init ==
    /\ screen = [row |-> Rows, col |-> 0, stray |-> FALSE,
                 cells |-> [p \in 0 .. Rows * Cols - 1 |-> "out"]]
    /\ line = <<>>
    /\ left_shift = FALSE /\ right_shift = FALSE
    /\ main = [at |-> "check", left |-> Prompt, local |-> 0]
    /\ raced = 0 /\ clean = TRUE /\ fresh = TRUE

Booted == main.left = <<>>

\* What a key means for the ghosts.
KeyGhosts(spoils, ends) ==
    /\ ~Booted => raced < MaxRaced
    /\ raced' = IF Booted THEN raced ELSE raced + 1
    /\ clean' = (clean /\ Booted /\ ~spoils)
    /\ fresh' = (Booted /\ (ends \/ (fresh /\ ~spoils)))
    /\ UNCHANGED main

\* A press or a release of either shift key.
shift_key ==
    /\ \/ left_shift' \in BOOLEAN /\ UNCHANGED right_shift
       \/ right_shift' \in BOOLEAN /\ UNCHANGED left_shift
    /\ KeyGhosts(FALSE, FALSE)
    /\ UNCHANGED <<screen, line>>

scancode_to_ascii == IF left_shift \/ right_shift THEN "K" ELSE "k"

enter_key ==
    /\ \E s \in process_input(screen) : screen' = kprintf(s, Prompt)
    /\ line' = <<>>
    /\ KeyGhosts(FALSE, TRUE)
    /\ UNCHANGED <<left_shift, right_shift>>

\* After a race the cursor may be left of the prompt's end, and then every
\* Backspace on an empty line moves it on.
erase_key ==
    /\ screen.col > -MaxLeft
    /\ screen' = backspace(screen, buffer_pos)
    /\ line' = IF buffer_pos > 0 THEN SubSeq(line, 1, buffer_pos - 1) ELSE line
    /\ KeyGhosts(buffer_pos > 0 /\ screen.col < 1, FALSE)
    /\ UNCHANGED <<left_shift, right_shift>>

\* Mutant: a letter that no longer fits is still echoed.
letter_key_echoes ==
    /\ line' = IF buffer_pos < BufSize THEN Append(line, scancode_to_ascii) ELSE line
    /\ screen' = kprintf(screen, <<scancode_to_ascii>>)
    /\ KeyGhosts(FALSE, FALSE)
    /\ UNCHANGED <<left_shift, right_shift>>

\* A full buffer swallows the letter, echo included.
letter_key ==
    /\ IF buffer_pos < BufSize
       THEN /\ line' = Append(line, scancode_to_ascii)
            /\ screen' = kprintf(screen, <<scancode_to_ascii>>)
       ELSE UNCHANGED <<line, screen>>
    /\ KeyGhosts(FALSE, FALSE)
    /\ UNCHANGED <<left_shift, right_shift>>

keyboard_interrupt_handler == shift_key \/ enter_key \/ erase_key \/ letter_key

-----------------------------------------------------------------------------
(* kernel.c: the prompt after sti, print_char in pieces *)

MainAt(place, next, local) ==
    /\ ~Booted /\ main.at = place
    /\ main' = [main EXCEPT !.at = next, !.local = local]
    /\ UNCHANGED <<line, left_shift, right_shift, ghosts>>

\* cursor_row is compared with 25: go and scroll, or go and print.
main_check ==
    /\ MainAt("check", IF screen.row >= Rows THEN "scroll" ELSE "print", 0)
    /\ UNCHANGED screen

\* The scroll, row by row; the last round blanks the bottom row.
main_scroll ==
    LET row == main.local
    IN  /\ MainAt("scroll", IF row < Rows - 1 THEN "scroll" ELSE "home",
                  IF row < Rows - 1 THEN row + 1 ELSE 0)
        /\ screen' = [screen EXCEPT !.cells =
                         [p \in DOMAIN @ |->
                             IF p \div Cols # row THEN @[p]
                             ELSE IF row < Rows - 1 THEN @[p + Cols] ELSE Blank]]

main_home ==
    /\ MainAt("home", "print", 0)
    /\ screen' = [screen EXCEPT !.row = Rows - 1, !.col = 0]

\* position is computed; the cell is written.
main_position ==
    /\ MainAt("print", "put", Position(screen))
    /\ UNCHANGED screen

main_put ==
    /\ MainAt("put", "load", 0)
    /\ screen' = PutCell(screen, main.local, Head(main.left))

\* cursor_col++ reads the column and writes it back.
main_load ==
    /\ MainAt("load", "store", screen.col)
    /\ UNCHANGED screen

main_store ==
    /\ MainAt("store", "wrap", 0)
    /\ screen' = [screen EXCEPT !.col = main.local + 1]

\* The column is compared with 80, and kprintf goes on to the next glyph.
main_wrap ==
    /\ ~Booted /\ main.at = "wrap"
    /\ screen' = IF screen.col >= Cols
                 THEN [screen EXCEPT !.row = @ + 1, !.col = 0] ELSE screen
    /\ main' = [at |-> "check", left |-> Tail(main.left), local |-> 0]
    /\ UNCHANGED <<line, left_shift, right_shift, ghosts>>

kernel_main ==
    \/ main_check \/ main_scroll \/ main_home \/ main_position
    \/ main_put \/ main_load \/ main_store \/ main_wrap

Spec == Init /\ [][kernel_main \/ keyboard_interrupt_handler]_vars

-----------------------------------------------------------------------------
(* Properties *)

\* The cursor is on the screen or at the start of the row below it, where
\* print_char scrolls, and nothing beside the screen was written: until a key
\* comes during the boot prompt or a Backspace at the left edge of a wrapped
\* line puts the cursor behind the last column.
TypeOK ==
    /\ clean => /\ screen.row \in 0 .. Rows /\ screen.col \in 0 .. Cols - 1
                /\ screen.row = Rows => screen.col = 0
                /\ ~screen.stray
    /\ screen.cells \in [0 .. Rows * Cols - 1 -> Glyph]
    /\ line \in Seq(Letters) /\ buffer_pos <= BufSize
    /\ left_shift \in BOOLEAN /\ right_shift \in BOOLEAN

\* What the user sees before the cursor is the prompt and then exactly the
\* line that Enter would hand to process_input, whatever was typed, erased,
\* printed and scrolled before.  Damage done by a key during the boot prompt,
\* or by a Backspace at the left edge of a wrapped line, ends with Enter.
LineShown ==
    (Booted /\ fresh) =>
        LET shown == Prompt \o line
            start == Position(screen) - Len(shown)
        IN  \A i \in 1 .. Len(shown) :
                /\ start + i - 1 \in DOMAIN screen.cells
                /\ screen.cells[start + i - 1] = shown[i]

\* The row of the cursor holds nothing behind it: neither erased letters nor
\* what a scroll moved away.
NothingBehind ==
    (Booted /\ fresh /\ raced = 0) =>
        \A p \in Position(screen) .. screen.row * Cols + Cols - 1 :
            p \in DOMAIN screen.cells => screen.cells[p] = Blank

\* "Checks that the cursos is not touching the left end": a backspace on an
\* empty line leaves the prompt, and the rest of the screen, as it is.
LeftEndKept ==
    [][Booted /\ fresh /\ line = <<>> /\ erase_key => UNCHANGED screen]_vars
=============================================================================
