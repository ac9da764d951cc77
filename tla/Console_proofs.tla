--------------------------- MODULE Console_proofs ---------------------------
(***************************************************************************)
(* Proofs about the console, for every size of the screen, every prompt,   *)
(* every size of the command buffer and every output of the commands.      *)
(***************************************************************************)
EXTENDS Console, NumberFacts, SequenceTheorems, TLAPS

-----------------------------------------------------------------------------
(* The hypotheses. *)

\* The commands end what they print with a newline.  (mem does not.)
OutputsEndLines == \A out \in Outputs : out # <<>> /\ out[Len(out)] = Newline

\* The prompt and a full command line fit on the screen (267 of 2000 cells).
LineFits == Len(Prompt) + BufSize <= (Rows - 1) * Cols + 1

-----------------------------------------------------------------------------
(* print_char, field by field. *)

Places  == 0 .. Rows * Cols - 1
Screens == [row : Int, col : Int, stray : BOOLEAN, cells : [Places -> Glyph]]

\* The constants as numbers.
LEMMA ConsoleNumbers ==
    /\ Rows \in Nat \ {0} /\ Cols \in Nat \ {0} /\ BufSize \in Nat \ {0}
    /\ Rows * Cols \in Nat \ {0} /\ Prompt \in Seq(Glyph \ {Newline})
    /\ Len(Prompt) \in Nat \ {0} /\ Len(Prompt) < Cols /\ LeftEnd = Len(Prompt)
    /\ \A i \in 1 .. Len(Prompt) : Prompt[i] \in Glyph /\ Prompt[i] # Newline
<1>1. /\ Rows \in Nat \ {0} /\ Cols \in Nat \ {0} /\ BufSize \in Nat \ {0}
      /\ Prompt \in Seq(Range(Prompt) \ {Newline}) /\ Prompt # <<>>
      /\ LeftEnd = Len(Prompt) /\ LeftEnd < Cols
  BY ConsoleAssumption
<1>2. Rows * Cols \in Nat \ {0}
  BY <1>1, ProductPositive
<1>3. Range(Prompt) \ {Newline} \subseteq Glyph \ {Newline}
  BY DEF Glyph
<1>4. Prompt \in Seq(Glyph \ {Newline})
  BY <1>1, <1>3
<1>5. Len(Prompt) \in Nat \ {0}
  BY <1>1, <1>4, EmptySeq
<1>. QED
  BY <1>1, <1>2, <1>4, <1>5

\* The glyphs that are not a newline.
LEMMA PlainGlyphs ==
    /\ Letters \subseteq Glyph \ {Newline} /\ "out" \in Glyph \ {Newline}
    /\ Blank \in Glyph
BY DEF Letters, Glyph, Newline, Blank

\* The rows of the screen.
LEMMA RowPlaces ==
    ASSUME NEW r \in Int
    PROVE  /\ r * Cols \in Int /\ (r + 1) * Cols = r * Cols + Cols
           /\ (r - 1) * Cols = r * Cols - Cols
           /\ r >= 0 => r * Cols >= 0
           /\ r <= Rows => r * Cols <= Rows * Cols
           /\ r < Rows => r * Cols + Cols <= Rows * Cols
<1>1. Rows \in Nat /\ Cols \in Nat
  BY ConsoleNumbers
<1>2. r * Cols \in Int /\ (r + 1) * Cols = r * Cols + Cols /\ (r - 1) * Cols = r * Cols - Cols
  BY <1>1
<1>3. ASSUME NEW a \in Int, NEW b \in Int, a <= b PROVE a * Cols <= b * Cols
  <2>1. Cols * a <= Cols * b
    BY <1>1, <1>3, ProductMonotone
  <2>. QED
    BY <1>1, <2>1
<1>4. r >= 0 => 0 * Cols <= r * Cols
  BY <1>3
<1>5. r <= Rows => r * Cols <= Rows * Cols
  BY <1>1, <1>3
<1>6. r < Rows => (r + 1) * Cols <= Rows * Cols
  BY <1>1, <1>3
<1>. QED
  BY <1>1, <1>2, <1>4, <1>5, <1>6

\* A write to one cell.
LEMMA PutFields ==
    ASSUME NEW s \in Screens, NEW p \in Int, NEW c \in Glyph, NEW u, u = PutCell(s, p, c)
    PROVE  /\ u \in Screens /\ u.row = s.row /\ u.col = s.col
           /\ \A q \in Places : u.cells[q] = IF q = p THEN c ELSE s.cells[q]
           /\ p \in Places => u.stray = s.stray
<1>1. DOMAIN s.cells = Places
  BY DEF Screens
<1>2. CASE p \in Places
  <2>1. u = [s EXCEPT !.cells[p] = c]
    BY <1>1, <1>2 DEF PutCell
  <2>. QED
    BY <1>2, <2>1 DEF Screens
<1>3. CASE p \notin Places
  <2>1. u = [s EXCEPT !.stray = TRUE]
    BY <1>1, <1>3 DEF PutCell
  <2>. QED
    BY <1>3, <2>1 DEF Screens
<1>. QED
  BY <1>2, <1>3

\* The scroll.
LEMMA ScrollFields ==
    ASSUME NEW s \in Screens, NEW t, t = Scroll(s)
    PROVE  /\ t \in Screens /\ t.row = Rows - 1 /\ t.col = 0 /\ t.stray = s.stray
           /\ \A q \in Places :
                 t.cells[q] = IF q + Cols \in Places THEN s.cells[q + Cols] ELSE Blank
<1>1. DOMAIN s.cells = Places /\ s.cells \in [Places -> Glyph] /\ Rows - 1 \in Int
  BY ConsoleNumbers DEF Screens
<1>. DEFINE after == [p \in Places |-> IF p + Cols \in Places THEN s.cells[p + Cols] ELSE Blank]
<1>2. t = [s EXCEPT !.row = Rows - 1, !.col = 0, !.cells = after]
  BY <1>1 DEF Scroll
<1>3. after \in [Places -> Glyph]
  BY <1>1, PlainGlyphs
<1>4. \A q \in Places :
          after[q] = IF q + Cols \in Places THEN s.cells[q + Cols] ELSE Blank
  OBVIOUS
<1>. HIDE DEF after
<1>5. t \in Screens /\ t.row = Rows - 1 /\ t.col = 0 /\ t.stray = s.stray /\ t.cells = after
  <2>1. PICK a \in Int, b \in Int : a = Rows - 1 /\ b = 0
    BY <1>1
  <2>2. t = [s EXCEPT !.row = a, !.col = b, !.cells = after]
    BY <1>2, <2>1
  <2>3. t = [row |-> a, col |-> b, stray |-> s.stray, cells |-> after]
    BY <2>2 DEF Screens
  <2>4. s.stray \in BOOLEAN
    BY DEF Screens
  <2>. QED
    BY <1>3, <2>1, <2>3, <2>4 DEF Screens
<1>. QED
  BY <1>4, <1>5

\* The screen that print_char writes on: scrolled when the cursor is below it.
Ready(s) == IF s.row >= Rows THEN Scroll(s) ELSE s

\* It is at most one row higher, and as before when the cursor is on it.
LEMMA ReadyFields ==
    ASSUME NEW s \in Screens, NEW t, t = Ready(s)
    PROVE  /\ t \in Screens /\ t.row <= Rows - 1 /\ t.stray = s.stray
           /\ t = s \/ (s.row >= Rows /\ t.row = Rows - 1 /\ t.col = 0)
           /\ s.row < Rows => t = s
<1>1. Rows \in Int /\ s.row \in Int
  BY ConsoleNumbers DEF Screens
<1>2. CASE s.row >= Rows
  <2>1. t = Scroll(s)
    BY <1>2 DEF Ready
  <2>. QED
    BY <1>1, <1>2, <2>1, ScrollFields
<1>3. CASE ~(s.row >= Rows)
  <2>1. t = s
    BY <1>3 DEF Ready
  <2>. QED
    BY <1>1, <1>3, <2>1
<1>. QED
  BY <1>2, <1>3

\* A newline.
LEMMA NewlineFields ==
    ASSUME NEW s \in Screens, NEW t, t = Ready(s), NEW r, r = print_char(s, Newline)
    PROVE  /\ r \in Screens /\ r.row = t.row + 1 /\ r.col = 0
           /\ r.stray = s.stray /\ r.cells = t.cells
<1>1. t \in Screens /\ t.stray = s.stray
  BY ReadyFields
<1>2. r = [t EXCEPT !.row = t.row + 1, !.col = 0]
  BY DEF print_char, Ready
<1>3. PICK a \in Int, b \in Int : a = t.row + 1 /\ b = 0
  BY <1>1 DEF Screens
<1>4. r = [t EXCEPT !.row = a, !.col = b]
  BY <1>2, <1>3
<1>5. r = [row |-> a, col |-> b, stray |-> t.stray, cells |-> t.cells]
  BY <1>1, <1>4 DEF Screens
<1>. QED
  BY <1>1, <1>3, <1>5 DEF Screens

\* Any other glyph.
LEMMA GlyphFields ==
    ASSUME NEW s \in Screens, NEW c \in Glyph, c # Newline,
           NEW t, t = Ready(s), NEW r, r = print_char(s, c)
    PROVE  /\ r \in Screens
           /\ \A q \in Places : r.cells[q] = IF q = Position(t) THEN c ELSE t.cells[q]
           /\ Position(t) \in Places => r.stray = s.stray
           /\ IF t.col + 1 >= Cols THEN r.row = t.row + 1 /\ r.col = 0
                                   ELSE r.row = t.row /\ r.col = t.col + 1
<1>1. t \in Screens /\ t.stray = s.stray
  BY ReadyFields
<1>2. Position(t) \in Int
  BY <1>1, ConsoleNumbers DEF Position, Screens
<1>3. PICK p, u : p = Position(t) /\ u = PutCell(t, p, c)
  OBVIOUS
<1>4. /\ u \in Screens /\ u.row = t.row /\ u.col = t.col
      /\ \A q \in Places : u.cells[q] = IF q = p THEN c ELSE t.cells[q]
      /\ p \in Places => u.stray = t.stray
  BY <1>1, <1>2, <1>3, PutFields
<1>5. r = IF t.col + 1 >= Cols THEN [u EXCEPT !.row = @ + 1, !.col = 0]
                               ELSE [u EXCEPT !.col = @ + 1]
  BY <1>3 DEF print_char, Ready
<1>6. CASE t.col + 1 >= Cols
  <2>1. PICK a \in Int, b \in Int : a = u.row + 1 /\ b = 0
    BY <1>4 DEF Screens
  <2>2. r = [u EXCEPT !.row = a, !.col = b]
    BY <1>5, <1>6, <2>1
  <2>3. r = [row |-> a, col |-> b, stray |-> u.stray, cells |-> u.cells]
    BY <1>4, <2>2 DEF Screens
  <2>4. r \in Screens /\ r.row = u.row + 1 /\ r.col = 0 /\ r.cells = u.cells /\ r.stray = u.stray
    BY <1>4, <2>1, <2>3 DEF Screens
  <2>. QED
    BY <1>1, <1>3, <1>4, <1>6, <2>4
<1>7. CASE ~(t.col + 1 >= Cols)
  <2>1. r = [u EXCEPT !.col = @ + 1]
    BY <1>5, <1>7
  <2>2. r \in Screens /\ r.row = u.row /\ r.col = u.col + 1 /\ r.cells = u.cells /\ r.stray = u.stray
    BY <1>4, <2>1 DEF Screens
  <2>. QED
    BY <1>1, <1>3, <1>4, <1>7, <2>2
<1>. QED
  BY <1>6, <1>7

-----------------------------------------------------------------------------
(* kprintf: what holds at first, and after each character, holds at the end. *)

\* g are the screens while n characters of text are printed on s.
Printing(g, s, text, n) ==
    g = [k \in 0 .. n |-> IF k = 0 THEN s ELSE print_char(g[k - 1], text[k])]

\* The recursive function in kprintf's definition exists.
LEMMA PrintingExists ==
    ASSUME NEW s, NEW text, NEW N \in Nat
    PROVE  \E g : Printing(g, s, text, N)
<1>. DEFINE I == {n \in Nat : \E g : Printing(g, s, text, n)}
<1>1. 0 \in I
  <2>. DEFINE g == [k \in 0 .. 0 |-> s]
  <2>1. g = [k \in 0 .. 0 |-> IF k = 0 THEN s ELSE print_char(g[k - 1], text[k])]
    OBVIOUS
  <2>2. Printing(g, s, text, 0)
    BY <2>1 DEF Printing
  <2>. QED
    BY <2>2
<1>2. ASSUME NEW n \in 0 .. N - 1, n \in I PROVE n + 1 \in I
  <2>1. PICK g : Printing(g, s, text, n)
    BY <1>2
  <2>2. g = [k \in 0 .. n |-> IF k = 0 THEN s ELSE print_char(g[k - 1], text[k])]
    BY <2>1 DEF Printing
  <2>. DEFINE last == print_char(g[n], text[n + 1])
              h == [k \in 0 .. n + 1 |-> IF k = n + 1 THEN last ELSE g[k]]
  <2>3. n \in Nat
    OBVIOUS
  <2>4. ASSUME NEW k \in 0 .. n + 1
        PROVE  h[k] = IF k = 0 THEN s ELSE print_char(h[k - 1], text[k])
    <3>1. CASE k = n + 1
      <4>1. k # 0 /\ k - 1 = n /\ n \in 0 .. n + 1 /\ n # n + 1
        BY <2>3, <3>1
      <4>2. h[n] = g[n] /\ h[k] = last
        BY <3>1, <4>1
      <4>. QED
        BY <3>1, <4>1, <4>2
    <3>2. CASE k \in 0 .. n
      <4>1. k # n + 1
        BY <2>3, <3>2
      <4>2. h[k] = g[k]
        BY <4>1
      <4>3. g[k] = IF k = 0 THEN s ELSE print_char(g[k - 1], text[k])
        BY <2>2, <3>2
      <4>4. k # 0 => h[k - 1] = g[k - 1]
        BY <2>3, <3>2
      <4>. HIDE DEF h
      <4>. QED
        BY <4>2, <4>3, <4>4
    <3>. QED
      BY <2>3, <3>1, <3>2
  <2>5. h = [k \in 0 .. n + 1 |-> h[k]]
    OBVIOUS
  <2>. HIDE DEF h
  <2>6. h = [k \in 0 .. n + 1 |-> IF k = 0 THEN s ELSE print_char(h[k - 1], text[k])]
    BY <2>4, <2>5
  <2>7. Printing(h, s, text, n + 1)
    BY <2>6 DEF Printing
  <2>. QED
    BY <2>3, <2>7
<1>. HIDE DEF I
<1>3. N \in I
  BY <1>1, <1>2, StepByStep
<1>. QED
  BY <1>3 DEF I

\* kprintf as the end of such a sequence.
LEMMA KprintfSteps ==
    ASSUME NEW s, NEW text, Len(text) \in Nat
    PROVE  \E g : /\ g[0] = s
                  /\ \A n \in 0 .. Len(text) - 1 : g[n + 1] = print_char(g[n], text[n + 1])
                  /\ kprintf(s, text) = g[Len(text)]
<1>1. PICK N \in Nat : N = Len(text)
  OBVIOUS
<1>. DEFINE g == CHOOSE f : Printing(f, s, text, N)
<1>2. kprintf(s, text) = g[N]
  BY <1>1 DEF kprintf, Printing
<1>3. Printing(g, s, text, N)
  BY PrintingExists
<1>. HIDE DEF g
<1>4. g = [k \in 0 .. N |-> IF k = 0 THEN s ELSE print_char(g[k - 1], text[k])]
  BY <1>3 DEF Printing
<1>5. g[0] = s
  BY <1>4
<1>6. ASSUME NEW n \in 0 .. N - 1 PROVE g[n + 1] = print_char(g[n], text[n + 1])
  <2>1. n + 1 \in 0 .. N /\ n + 1 # 0 /\ (n + 1) - 1 = n
    OBVIOUS
  <2>2. PICK k : k = n + 1
    OBVIOUS
  <2>3. g[k] = print_char(g[k - 1], text[k])
    BY <1>4, <2>1, <2>2
  <2>. QED
    BY <2>1, <2>2, <2>3
<1>. QED
  BY <1>1, <1>2, <1>5, <1>6

-----------------------------------------------------------------------------
(* What one character does to the cursor and to the cells around it. *)

\* The cursor is on the screen, or at the start of the row below.
OnScreen(s) ==
    /\ s.row \in 0 .. Rows /\ s.col \in 0 .. Cols - 1
    /\ s.row = Rows => s.col = 0

\* The cells behind the cursor are blank; the one under it too.
ClearAfter(s) == s.col <= Cols /\ \A q \in Places : q > Position(s) => s.cells[q] = Blank
ClearFrom(s)  == \A q \in Places : q >= Position(s) => s.cells[q] = Blank

\* The first n glyphs of text stand right before the cursor.
ShownTo(s, text, n) ==
    \A i \in 1 .. n :
        /\ Position(s) - n + i - 1 \in Places
        /\ s.cells[Position(s) - n + i - 1] = text[i]

\* A place of the screen.
LEMMA OnePlace ==
    ASSUME NEW s \in Screens
    PROVE  /\ Position(s) \in Int
           /\ s.row \in 0 .. Rows - 1 /\ s.col \in 0 .. Cols - 1 => Position(s) \in Places
           /\ s.row = Rows /\ s.col = 0 => Position(s) = Rows * Cols
<1>1. s.row \in Int /\ s.col \in Int /\ Cols \in Nat /\ Rows \in Nat /\ Rows * Cols \in Nat
  BY ConsoleNumbers DEF Screens
<1>2. PICK w \in Int : w = s.row * Cols
  BY <1>1
<1>3. s.row \in 0 .. Rows - 1 => w >= 0 /\ w + Cols <= Rows * Cols
  BY <1>1, <1>2, RowPlaces
<1>4. Position(s) = w + s.col
  BY <1>2 DEF Position
<1>5. s.row = Rows => w = Rows * Cols
  BY <1>2
<1>6. PICK c \in Int, z \in Nat : c = s.col /\ z = Rows * Cols
  BY <1>1
<1>7. s.row \in 0 .. Rows - 1 /\ c \in 0 .. Cols - 1 => w + c \in 0 .. z - 1
  BY <1>1, <1>3, <1>6
<1>8. c = 0 => w + c = w
  OBVIOUS
<1>. QED
  BY <1>4, <1>5, <1>6, <1>7, <1>8 DEF Places

\* Every character leaves the cursor no lower than the start of the row below
\* the screen, and never moves it up from above the screen.
LEMMA PrintRow ==
    ASSUME NEW s \in Screens, NEW c \in Glyph \cup {Newline}, NEW r, r = print_char(s, c)
    PROVE  /\ r \in Screens /\ r.row <= Rows /\ (r.row = Rows => r.col = 0)
           /\ s.row >= -1 => r.row >= -1
           /\ c = Newline => r.col = 0 /\ (s.row >= -1 => r.row >= 0)
<1>1. PICK t : t = Ready(s)
  OBVIOUS
<1>2. /\ t \in Screens /\ t.row <= Rows - 1
      /\ t = s \/ (s.row >= Rows /\ t.row = Rows - 1 /\ t.col = 0)
  BY <1>1, ReadyFields
<1>3. t.row \in Int /\ t.col \in Int /\ Rows \in Nat \ {0} /\ s.row \in Int /\ Cols \in Nat \ {0}
  BY <1>2, ConsoleNumbers DEF Screens
<1>4. s.row >= -1 => t.row >= -1
  BY <1>2, <1>3
<1>5. CASE c = Newline
  <2>1. r \in Screens /\ r.row = t.row + 1 /\ r.col = 0
    BY <1>1, <1>5, NewlineFields
  <2>. QED
    BY <1>2, <1>3, <1>4, <1>5, <2>1
<1>6. CASE c # Newline
  <2>1. /\ r \in Screens
        /\ IF t.col + 1 >= Cols THEN r.row = t.row + 1 /\ r.col = 0
                                ELSE r.row = t.row /\ r.col = t.col + 1
    BY <1>1, <1>6, GlyphFields
  <2>. QED
    BY <1>2, <1>3, <1>4, <1>6, <2>1
<1>. QED
  BY <1>5, <1>6

\* A cursor on the screen stays there, and nothing beside it is written.
LEMMA PrintOnScreen ==
    ASSUME NEW s \in Screens, OnScreen(s), NEW c \in Glyph \cup {Newline},
           NEW r, r = print_char(s, c)
    PROVE  OnScreen(r) /\ r.stray = s.stray
<1>1. PICK t : t = Ready(s)
  OBVIOUS
<1>2. /\ t \in Screens /\ t.row <= Rows - 1 /\ t.stray = s.stray
      /\ t = s \/ (s.row >= Rows /\ t.row = Rows - 1 /\ t.col = 0)
  BY <1>1, ReadyFields
<1>3. Rows \in Nat \ {0} /\ Cols \in Nat \ {0}
  BY ConsoleNumbers
<1>4. t.row \in 0 .. Rows - 1 /\ t.col \in 0 .. Cols - 1
  BY <1>2, <1>3 DEF OnScreen
<1>5. CASE c = Newline
  <2>1. r \in Screens /\ r.row = t.row + 1 /\ r.col = 0 /\ r.stray = s.stray
    BY <1>1, <1>5, NewlineFields
  <2>. QED
    BY <1>3, <1>4, <2>1 DEF OnScreen
<1>6. CASE c # Newline
  <2>1. /\ Position(t) \in Places => r.stray = s.stray
        /\ IF t.col + 1 >= Cols THEN r.row = t.row + 1 /\ r.col = 0
                                ELSE r.row = t.row /\ r.col = t.col + 1
    BY <1>1, <1>6, GlyphFields
  <2>2. Position(t) \in Places
    BY <1>2, <1>4, OnePlace
  <2>. QED
    BY <1>3, <1>4, <2>1, <2>2 DEF OnScreen
<1>. QED
  BY <1>5, <1>6

\* The cursor after one glyph is one place on, or, from behind the last column, at
\* the same place.
LEMMA PrintPlace ==
    ASSUME NEW s \in Screens, NEW c \in Glyph, c # Newline, NEW t, t = Ready(s),
           NEW r, r = print_char(s, c)
    PROVE  /\ t.col < Cols => Position(r) = Position(t) + 1
           /\ t.col = Cols => Position(r) = Position(t)
<1>1. /\ t \in Screens /\ r \in Screens
      /\ IF t.col + 1 >= Cols THEN r.row = t.row + 1 /\ r.col = 0
                              ELSE r.row = t.row /\ r.col = t.col + 1
  BY ReadyFields, GlyphFields
<1>2. t.row \in Int /\ t.col \in Int /\ Cols \in Nat \ {0}
  BY <1>1, ConsoleNumbers DEF Screens
<1>3. PICK w \in Int, v \in Int : w = t.row * Cols /\ v = (t.row + 1) * Cols
  BY <1>2, RowPlaces
<1>. v = w + Cols
  BY <1>2, <1>3, RowPlaces
<1>4. CASE t.col + 1 >= Cols
  <2>1. Position(r) = v + 0 /\ Position(t) = w + t.col
    BY <1>1, <1>3, <1>4 DEF Position
  <2>. QED
    BY <1>2, <1>3, <1>4, <2>1
<1>5. CASE ~(t.col + 1 >= Cols)
  <2>1. Position(r) = w + (t.col + 1) /\ Position(t) = w + t.col
    BY <1>1, <1>3, <1>5 DEF Position
  <2>. QED
    BY <1>2, <1>3, <1>5, <2>1
<1>. QED
  BY <1>4, <1>5

\* A scroll leaves the row of the cursor blank.
LEMMA ReadyClear ==
    ASSUME NEW s \in Screens, ClearAfter(s), NEW t, t = Ready(s)
    PROVE  ClearAfter(t)
<1>1. /\ t \in Screens
      /\ t = s \/ (s.row >= Rows /\ t.row = Rows - 1 /\ t.col = 0)
  BY ReadyFields
<1>2. CASE t = s
  BY <1>2
<1>3. CASE s.row >= Rows
  <2>1. t = Scroll(s)
    BY <1>3 DEF Ready
  <2>2. /\ t.row = Rows - 1 /\ t.col = 0
        /\ \A q \in Places :
              t.cells[q] = IF q + Cols \in Places THEN s.cells[q + Cols] ELSE Blank
    BY <2>1, ScrollFields
  <2>3. Rows \in Nat \ {0} /\ Cols \in Nat \ {0} /\ Rows * Cols \in Nat
    BY ConsoleNumbers
  <2>4. Position(t) = Rows * Cols - Cols
    <3>1. (Rows - 1) * Cols = Rows * Cols - Cols
      BY <2>3, RowPlaces
    <3>. QED
      BY <2>2, <2>3, <3>1 DEF Position
  <2>5. ASSUME NEW q \in Places, q > Position(t) PROVE t.cells[q] = Blank
    <3>1. q + Cols \notin Places
      BY <2>3, <2>4, <2>5 DEF Places
    <3>. QED
      BY <2>2, <3>1
  <2>. QED
    BY <2>2, <2>3, <2>5 DEF ClearAfter
<1>. QED
  BY <1>1, <1>2, <1>3

\* What is behind the cursor stays blank.
LEMMA PrintClear ==
    ASSUME NEW s \in Screens, ClearAfter(s), NEW c \in Glyph \cup {Newline},
           NEW r, r = print_char(s, c)
    PROVE  /\ ClearAfter(r)
           /\ c # Newline /\ s.col < Cols => ClearFrom(r)
<1>1. PICK t : t = Ready(s)
  OBVIOUS
<1>2. /\ t \in Screens /\ ClearAfter(t)
      /\ t = s \/ (s.row >= Rows /\ t.row = Rows - 1 /\ t.col = 0)
  BY <1>1, ReadyFields, ReadyClear
<1>3. /\ t.row \in Int /\ t.col \in Int /\ Rows \in Nat \ {0} /\ Cols \in Nat \ {0}
      /\ t.col <= Cols /\ Position(t) \in Int
  BY <1>2, ConsoleNumbers, OnePlace DEF Screens, ClearAfter
<1>4. CASE c = Newline
  <2>1. r \in Screens /\ r.row = t.row + 1 /\ r.col = 0 /\ r.cells = t.cells
    BY <1>1, <1>4, NewlineFields
  <2>2. (t.row + 1) * Cols = t.row * Cols + Cols /\ t.row * Cols \in Int
    BY <1>3, RowPlaces
  <2>3. Position(r) = (t.row + 1) * Cols + 0 /\ Position(t) = t.row * Cols + t.col
    BY <2>1 DEF Position
  <2>4. Position(r) >= Position(t) /\ Position(r) \in Int
    BY <1>3, <2>2, <2>3
  <2>5. ASSUME NEW q \in Places, q > Position(r) PROVE r.cells[q] = Blank
    <3>1. q > Position(t)
      BY <1>3, <2>4, <2>5 DEF Places
    <3>. QED
      BY <1>2, <2>1, <3>1 DEF ClearAfter
  <2>. QED
    BY <1>3, <1>4, <2>1, <2>5 DEF ClearAfter
<1>5. CASE c # Newline
  <2>1. /\ r \in Screens
        /\ \A q \in Places : r.cells[q] = IF q = Position(t) THEN c ELSE t.cells[q]
        /\ IF t.col + 1 >= Cols THEN r.row = t.row + 1 /\ r.col = 0
                                ELSE r.row = t.row /\ r.col = t.col + 1
    BY <1>1, <1>5, GlyphFields
  <2>2. /\ t.col < Cols => Position(r) = Position(t) + 1
        /\ t.col = Cols => Position(r) = Position(t)
    BY <1>1, <1>5, PrintPlace
  <2>3. \A q \in Places : q > Position(t) => r.cells[q] = Blank
    <3>. SUFFICES ASSUME NEW q \in Places, q > Position(t) PROVE r.cells[q] = Blank
      OBVIOUS
    <3>1. q # Position(t)
      BY <1>3 DEF Places
    <3>. QED
      BY <1>2, <2>1, <3>1 DEF ClearAfter
  <2>4. r.col <= Cols
    BY <1>3, <2>1
  <2>5. Position(r) = Position(t) + 1 \/ Position(r) = Position(t)
    BY <1>3, <2>2
  <2>6. ASSUME NEW q \in Places, q > Position(r) PROVE r.cells[q] = Blank
    <3>1. q > Position(t)
      BY <1>3, <2>5, <2>6 DEF Places
    <3>. QED
      BY <2>3, <3>1
  <2>7. ASSUME s.col < Cols PROVE ClearFrom(r)
    <3>1. t.col < Cols
      BY <1>2, <1>3, <2>7
    <3>2. ASSUME NEW q \in Places, q >= Position(r) PROVE q > Position(t)
      BY <1>3, <2>2, <3>1, <3>2 DEF Places
    <3>. QED
      BY <2>3, <3>2 DEF ClearFrom
  <2>. QED
    BY <1>5, <2>4, <2>6, <2>7 DEF ClearAfter
<1>. QED
  BY <1>4, <1>5

\* A glyph is shown behind those that are.
LEMMA PrintShown ==
    ASSUME NEW s \in Screens, OnScreen(s), NEW text, NEW n \in Nat, ShownTo(s, text, n),
           s.row = Rows => n <= (Rows - 1) * Cols,
           NEW c \in Glyph, c # Newline, text[n + 1] = c, NEW r, r = print_char(s, c)
    PROVE  ShownTo(r, text, n + 1)
<1>1. PICK t : t = Ready(s)
  OBVIOUS
<1>2. /\ t \in Screens /\ t.row <= Rows - 1
      /\ t = s \/ (s.row >= Rows /\ t.row = Rows - 1 /\ t.col = 0)
  BY <1>1, ReadyFields
<1>3. Rows \in Nat \ {0} /\ Cols \in Nat \ {0} /\ Rows * Cols \in Nat
  BY ConsoleNumbers
<1>4. t.row \in 0 .. Rows - 1 /\ t.col \in 0 .. Cols - 1
  BY <1>2, <1>3 DEF OnScreen
<1>5. PICK p : p = Position(t)
  OBVIOUS
<1>6. p \in Places /\ p \in Int
  BY <1>2, <1>4, <1>5, OnePlace
<1>7. Position(r) = p + 1
  <2>1. t.col < Cols
    BY <1>3, <1>4
  <2>. QED
    BY <1>1, <1>5, <2>1, PrintPlace
<1>8. \A q \in Places : r.cells[q] = IF q = p THEN c ELSE t.cells[q]
  BY <1>1, <1>5, GlyphFields
<1>9. ASSUME NEW i \in 1 .. n
      PROVE  p - n + i - 1 \in Places /\ t.cells[p - n + i - 1] = text[i]
  <2>1. CASE t = s
    BY <1>5, <2>1 DEF ShownTo
  <2>2. CASE t # s
    <3>1. s.row = Rows /\ s.col = 0 /\ t.row = Rows - 1 /\ t.col = 0
      BY <1>2, <1>3, <2>2 DEF OnScreen
    <3>2. t = Scroll(s)
      BY <1>1, <1>3, <3>1 DEF Ready
    <3>3. \A q \in Places :
              t.cells[q] = IF q + Cols \in Places THEN s.cells[q + Cols] ELSE Blank
      BY <3>2, ScrollFields
    <3>4. Position(s) = Rows * Cols
      BY <3>1, OnePlace
    <3>5. (Rows - 1) * Cols = Rows * Cols - Cols
      BY <1>3, RowPlaces
    <3>6. p = Rows * Cols - Cols
      BY <1>3, <1>5, <3>1, <3>5 DEF Position
    <3>7. n <= Rows * Cols - Cols
      BY <3>1, <3>5
    <3>8. PICK q : q = p - n + i - 1
      OBVIOUS
    <3>9. q \in Places /\ q + Cols = Position(s) - n + i - 1
      BY <1>3, <3>4, <3>6, <3>7, <3>8 DEF Places
    <3>10. q + Cols \in Places /\ s.cells[q + Cols] = text[i]
      BY <3>9 DEF ShownTo
    <3>. QED
      BY <3>3, <3>8, <3>9, <3>10
  <2>. QED
    BY <2>1, <2>2
<1>10. ASSUME NEW i \in 1 .. n + 1
       PROVE  /\ (p + 1) - (n + 1) + i - 1 \in Places
              /\ r.cells[(p + 1) - (n + 1) + i - 1] = text[i]
  <2>1. (p + 1) - (n + 1) + i - 1 = p - n + i - 1
    BY <1>6
  <2>2. PICK q : q = p - n + i - 1
    OBVIOUS
  <2>3. CASE i = n + 1
    <3>1. q = p
      BY <1>6, <2>2, <2>3
    <3>. QED
      BY <1>6, <1>8, <2>1, <2>2, <2>3, <3>1
  <2>4. CASE i # n + 1
    <3>1. i \in 1 .. n /\ q # p
      BY <1>6, <2>2, <2>4
    <3>2. q \in Places /\ t.cells[q] = text[i]
      BY <1>9, <2>2, <3>1
    <3>. QED
      BY <1>8, <2>1, <2>2, <3>1, <3>2
  <2>. QED
    BY <2>3, <2>4
<1>. QED
  BY <1>7, <1>10 DEF ShownTo

-----------------------------------------------------------------------------
(* The inductive invariant. *)

MainPlaces == {"check", "scroll", "home", "print", "put", "load", "store", "wrap"}

Typed ==
    /\ screen \in Screens
    /\ line \in Seq(Letters) /\ Len(line) <= BufSize
    /\ left_shift \in BOOLEAN /\ right_shift \in BOOLEAN
    /\ raced \in Nat /\ clean \in BOOLEAN /\ fresh \in BOOLEAN
    /\ main \in [at : MainPlaces, left : Seq(Glyph \ {Newline}), local : Int]
    /\ Len(main.left) <= Len(Prompt)
    /\ \A i \in 1 .. Len(main.left) :
          main.left[i] = Prompt[Len(Prompt) - Len(main.left) + i]
    /\ main.at = "scroll" => main.local \in 0 .. Rows - 1

\* What the ghosts tell of each other.
Ghosts ==
    /\ clean => fresh /\ raced = 0
    /\ ~Booted /\ raced = 0 => clean /\ line = <<>>
    /\ ~Booted /\ raced # 0 => ~fresh

\* The boot prompt while no key has come: done glyphs stand at the left of the
\* last row, the rest of the row is blank.
Printed == Len(Prompt) - Len(main.left)
LastRow == (Rows - 1) * Cols
Done(at, k) == IF at \in {"load", "store", "wrap"} THEN k + 1 ELSE k
RowBlankFrom(s, n) == \A q \in Places : q >= LastRow + n => s.cells[q] = Blank

PromptRow(s, at, k) ==
    /\ s.row = Rows - 1 /\ s.col = IF at = "wrap" THEN k + 1 ELSE k
    /\ \A i \in 1 .. Done(at, k) : s.cells[LastRow + i - 1] = Prompt[i]
    /\ RowBlankFrom(s, Done(at, k))

BootAt(s, at, k, local) ==
    /\ ~s.stray
    /\ at \in {"scroll", "home"} => k = 0
    /\ IF k = 0 /\ at \in {"check", "scroll", "home"}
       THEN s.row = Rows /\ s.col = 0 /\ (at = "home" => RowBlankFrom(s, 0))
       ELSE PromptRow(s, at, k)
    /\ at = "put" => local = LastRow + k
    /\ at = "store" => local = k

BootPrompt == BootAt(screen, main.at, Printed, main.local)

\* After the boot prompt.  The column of the cursor follows from the length of the
\* line as long as no Backspace at the left edge has taken it away.
ColumnAt(s, n) ==
    /\ s.row <= Rows /\ (s.row = Rows => s.col = 0)
    /\ s.col \in 0 .. Cols - 1
    /\ \E q \in Nat : LeftEnd + n = q * Cols + s.col

Running ==
    /\ clean => screen.row >= 0 /\ ~screen.stray
    /\ fresh => ColumnAt(screen, Len(line))
    /\ raced = 0 => ClearAfter(screen)
    /\ raced = 0 /\ fresh => ClearFrom(screen)

IInv ==
    /\ Typed /\ Ghosts
    /\ ~Booted /\ raced = 0 => BootPrompt
    /\ Booted => Running

\* The text the user sees.
Visible ==
    Booted /\ fresh =>
        screen.row >= 0 /\ ShownTo(screen, Prompt \o line, Len(Prompt) + Len(line))

\* A cursor that a race or a Backspace at the left edge has misplaced is at most
\* one row above the screen.
NearScreen == clean \/ screen.row >= -1

-----------------------------------------------------------------------------
(* What the commands print, the prompt, and Backspace. *)

\* What printing keeps of a screen.
Keeps(s, u) ==
    /\ u \in Screens
    /\ s.row >= -1 => u.row >= -1
    /\ OnScreen(s) => OnScreen(u) /\ u.stray = s.stray
    /\ ClearAfter(s) => ClearAfter(u)

\* An output that ends with a newline leaves the cursor at the start of a row.
LEMMA KprintfOutput ==
    ASSUME NEW s \in Screens, NEW out \in Seq({"out", Newline}), out # <<>>,
           out[Len(out)] = Newline, NEW r, r = kprintf(s, out)
    PROVE  Keeps(s, r) /\ r.col = 0 /\ r.row <= Rows /\ (s.row >= -1 => r.row >= 0)
<1>1. PICK N \in Nat \ {0} : N = Len(out)
  BY EmptySeq
<1>2. PICK g : /\ g[0] = s
               /\ \A n \in 0 .. N - 1 : g[n + 1] = print_char(g[n], out[n + 1])
               /\ kprintf(s, out) = g[N]
  BY <1>1, KprintfSteps
<1>3. \A n \in 1 .. N : out[n] \in Glyph \cup {Newline}
  BY <1>1, PlainGlyphs
<1>. DEFINE I == {n \in 0 .. N : Keeps(s, g[n])}
<1>4. 0 \in I
  BY <1>2 DEF Keeps
<1>5. ASSUME NEW n \in 0 .. N - 1, n \in I PROVE n + 1 \in I
  <2>1. PICK u, v, c : u = g[n] /\ v = g[n + 1] /\ c = out[n + 1]
    OBVIOUS
  <2>2. n + 1 \in 1 .. N
    BY <1>1
  <2>3. c \in Glyph \cup {Newline} /\ v = print_char(u, c) /\ Keeps(s, u)
    BY <1>2, <1>3, <1>5, <2>1, <2>2
  <2>4. u \in Screens
    BY <2>3 DEF Keeps
  <2>5. v \in Screens /\ (u.row >= -1 => v.row >= -1)
    BY <2>3, <2>4, PrintRow
  <2>6. OnScreen(u) => OnScreen(v) /\ v.stray = u.stray
    BY <2>3, <2>4, PrintOnScreen
  <2>7. ClearAfter(u) => ClearAfter(v)
    BY <2>3, <2>4, PrintClear
  <2>8. Keeps(s, v)
    BY <2>3, <2>5, <2>6, <2>7 DEF Keeps
  <2>. QED
    BY <2>1, <2>2, <2>8
<1>. HIDE DEF I
<1>6. \A n \in 0 .. N : n \in I
  BY <1>4, <1>5, StepByStep
<1>7. N - 1 \in 0 .. N /\ N \in 0 .. N /\ N - 1 \in 0 .. N - 1 /\ (N - 1) + 1 = N
  BY <1>1
<1>8. Keeps(s, g[N - 1]) /\ Keeps(s, g[N])
  BY <1>6, <1>7 DEF I
<1>9. PICK u : u = g[N - 1]
  OBVIOUS
<1>10. r = print_char(u, Newline) /\ u \in Screens /\ (s.row >= -1 => u.row >= -1)
  BY <1>1, <1>2, <1>7, <1>8, <1>9 DEF Keeps
<1>11. r.row <= Rows /\ r.col = 0 /\ (u.row >= -1 => r.row >= 0)
  BY <1>10, PrintRow
<1>. QED
  BY <1>2, <1>8, <1>10, <1>11

\* The first n glyphs of the prompt, printed from the start of a row.
PromptTo(s, u, n) ==
    /\ u \in Screens /\ u.col = n /\ u.row <= Rows /\ (n > 0 => u.row < Rows)
    /\ s.row >= 0 => u.row >= 0 /\ ShownTo(u, Prompt, n)
    /\ s.row >= 0 => u.stray = s.stray
    /\ ClearAfter(s) => ClearAfter(u) /\ (n > 0 => ClearFrom(u))

\* One more glyph of the prompt.
LEMMA PromptStep ==
    ASSUME NEW s, NEW u, NEW n \in 0 .. Len(Prompt) - 1, PromptTo(s, u, n),
           NEW v, v = print_char(u, Prompt[n + 1])
    PROVE  PromptTo(s, v, n + 1)
<1>1. /\ Rows \in Nat \ {0} /\ Cols \in Nat \ {0} /\ Len(Prompt) \in Nat /\ Len(Prompt) < Cols
      /\ Rows * Cols \in Nat
  BY ConsoleNumbers
<1>2. PICK c : c = Prompt[n + 1]
  OBVIOUS
<1>3. c \in Glyph /\ c # Newline
  <2>1. n + 1 \in 1 .. Len(Prompt)
    BY <1>1
  <2>. QED
    BY <1>2, <2>1, ConsoleNumbers
<1>4. u \in Screens /\ u.col = n /\ u.row <= Rows /\ (n > 0 => u.row < Rows) /\ u.row \in Int
  BY DEF PromptTo, Screens
<1>5. PICK t : t = Ready(u)
  OBVIOUS
<1>6. /\ t \in Screens /\ t.row <= Rows - 1
      /\ t = u \/ (u.row >= Rows /\ t.row = Rows - 1 /\ t.col = 0)
  BY <1>4, <1>5, ReadyFields
<1>7. t.col = n /\ (u.row >= 0 => t.row >= 0) /\ t.row \in Int /\ n + 1 < Cols
  BY <1>1, <1>4, <1>6 DEF Screens
<1>8. /\ v \in Screens
      /\ IF t.col + 1 >= Cols THEN v.row = t.row + 1 /\ v.col = 0
                              ELSE v.row = t.row /\ v.col = t.col + 1
  BY <1>2, <1>3, <1>4, <1>5, GlyphFields
<1>9. v.row = t.row /\ v.col = n + 1
  BY <1>1, <1>7, <1>8
<1>10. ASSUME s.row >= 0
       PROVE  v.row >= 0 /\ ShownTo(v, Prompt, n + 1) /\ v.stray = s.stray
  <2>1. u.row >= 0 /\ ShownTo(u, Prompt, n) /\ u.stray = s.stray
    BY <1>10 DEF PromptTo
  <2>2. OnScreen(u)
    BY <1>1, <1>4, <2>1 DEF OnScreen
  <2>3. u.row = Rows => n <= (Rows - 1) * Cols
    <3>1. (Rows - 1) * Cols >= 0
      BY <1>1, RowPlaces
    <3>. QED
      BY <1>1, <1>4, <3>1
  <2>4. ShownTo(v, Prompt, n + 1)
    <3>1. n \in Nat
      OBVIOUS
    <3>. QED
      BY <1>2, <1>3, <1>4, <2>1, <2>2, <2>3, <3>1, PrintShown
  <2>5. v.stray = u.stray
    BY <1>2, <1>3, <1>4, <2>2, PrintOnScreen
  <2>. QED
    BY <1>7, <1>9, <2>1, <2>4, <2>5
<1>11. ASSUME ClearAfter(s) PROVE ClearAfter(v) /\ ClearFrom(v)
  <2>1. ClearAfter(u)
    BY <1>11 DEF PromptTo
  <2>2. u.col < Cols
    BY <1>1, <1>4, <1>7
  <2>. QED
    BY <1>2, <1>3, <1>4, <2>1, <2>2, PrintClear
<1>12. v.row <= Rows /\ v.row < Rows
  BY <1>1, <1>6, <1>7, <1>9
<1>. QED
  BY <1>8, <1>9, <1>10, <1>11, <1>12 DEF PromptTo

\* The whole prompt.
LEMMA KprintfPrompt ==
    ASSUME NEW s \in Screens, s.col = 0, s.row <= Rows, NEW r, r = kprintf(s, Prompt)
    PROVE  PromptTo(s, r, Len(Prompt))
<1>1. PICK N \in Nat \ {0} : N = Len(Prompt)
  BY ConsoleNumbers
<1>2. PICK g : /\ g[0] = s
               /\ \A n \in 0 .. N - 1 : g[n + 1] = print_char(g[n], Prompt[n + 1])
               /\ kprintf(s, Prompt) = g[N]
  BY <1>1, KprintfSteps
<1>. DEFINE I == {n \in 0 .. N : PromptTo(s, g[n], n)}
<1>3. 0 \in I
  BY <1>2 DEF PromptTo, ShownTo
<1>4. ASSUME NEW n \in 0 .. N - 1, n \in I PROVE n + 1 \in I
  <2>1. PICK u, v : u = g[n] /\ v = g[n + 1]
    OBVIOUS
  <2>2. v = print_char(u, Prompt[n + 1]) /\ PromptTo(s, u, n) /\ n \in 0 .. Len(Prompt) - 1
    BY <1>1, <1>2, <1>4, <2>1
  <2>3. PromptTo(s, v, n + 1)
    BY <2>2, PromptStep
  <2>4. n + 1 \in 0 .. N
    BY <1>1
  <2>. QED
    BY <2>1, <2>3, <2>4
<1>. HIDE DEF I
<1>5. N \in I
  BY <1>3, <1>4, StepByStep
<1>. QED
  BY <1>1, <1>2, <1>5 DEF I

\* Backspace that erases: the cell under the cursor and the one before it.
LEMMA EraseCells ==
    ASSUME NEW s \in Screens,
           NEW t, t = PutCell(PutCell(s, Position(s), Blank), Position(s) - 1, Blank)
    PROVE  /\ t \in Screens /\ t.row = s.row /\ t.col = s.col
           /\ \A q \in Places :
                 t.cells[q] = IF q = Position(s) \/ q = Position(s) - 1 THEN Blank ELSE s.cells[q]
           /\ Position(s) \in Places /\ Position(s) - 1 \in Places => t.stray = s.stray
<1>1. PICK p \in Int : p = Position(s)
  BY OnePlace
<1>2. PICK k \in Int : k = p - 1
  OBVIOUS
<1>. DEFINE u == PutCell(s, p, Blank)
<1>. HIDE DEF u
<1>3. /\ u \in Screens /\ u.row = s.row /\ u.col = s.col
      /\ \A q \in Places : u.cells[q] = IF q = p THEN Blank ELSE s.cells[q]
      /\ p \in Places => u.stray = s.stray
  BY PlainGlyphs, PutFields DEF u
<1>4. t = PutCell(u, k, Blank)
  BY <1>1, <1>2 DEF u
<1>5. /\ t \in Screens /\ t.row = u.row /\ t.col = u.col
      /\ \A q \in Places : t.cells[q] = IF q = k THEN Blank ELSE u.cells[q]
      /\ k \in Places => t.stray = u.stray
  BY <1>3, <1>4, PlainGlyphs, PutFields
<1>. QED
  BY <1>1, <1>2, <1>3, <1>5

\* Its cursor moves one place back.
LEMMA EraseFields ==
    ASSUME NEW s \in Screens,
           NEW t, t = PutCell(PutCell(s, Position(s), Blank), Position(s) - 1, Blank),
           NEW r \in Screens, r.row = t.row, r.col = t.col - 1, r.cells = t.cells, r.stray = t.stray
    PROVE  /\ r.row = s.row /\ r.col = s.col - 1
           /\ Position(r) = Position(s) - 1
           /\ \A q \in Places :
                 r.cells[q] = IF q = Position(s) \/ q = Position(s) - 1 THEN Blank ELSE s.cells[q]
           /\ Position(s) \in Places /\ Position(s) - 1 \in Places => r.stray = s.stray
<1>1. /\ t \in Screens /\ t.row = s.row /\ t.col = s.col
      /\ \A q \in Places :
            t.cells[q] = IF q = Position(s) \/ q = Position(s) - 1 THEN Blank ELSE s.cells[q]
      /\ Position(s) \in Places /\ Position(s) - 1 \in Places => t.stray = s.stray
  BY EraseCells
<1>2. PICK w \in Int : w = s.row * Cols
  BY ConsoleNumbers DEF Screens
<1>3. Position(r) = w + (s.col - 1) /\ Position(s) = w + s.col /\ s.col \in Int
  BY <1>1, <1>2 DEF Position, Screens
<1>. QED
  BY <1>1, <1>3

-----------------------------------------------------------------------------
(* The keys. *)

\* What a key does to the ghosts.
LEMMA KeyKeepsGhosts ==
    ASSUME IInv, NEW spoils \in BOOLEAN, NEW ends \in BOOLEAN, KeyGhosts(spoils, ends)
    PROVE  /\ Ghosts'
           /\ raced' \in Nat /\ clean' \in BOOLEAN /\ fresh' \in BOOLEAN /\ main' = main
           /\ ~Booted => raced' # 0 /\ ~clean' /\ ~fresh'
           /\ Booted => raced' = raced /\ clean' = (clean /\ ~spoils)
                        /\ fresh' = (ends \/ (fresh /\ ~spoils))
<1>1. /\ raced \in Nat /\ clean \in BOOLEAN /\ fresh \in BOOLEAN
      /\ clean => fresh /\ raced = 0
  BY DEF IInv, Typed, Ghosts
<1>2. main' = main /\ (Booted' <=> Booted)
  BY DEF KeyGhosts, Booted
<1>3. CASE Booted
  <2>1. /\ raced' = raced /\ clean' = (clean /\ ~spoils)
        /\ fresh' = (ends \/ (fresh /\ ~spoils))
    BY <1>1, <1>3 DEF KeyGhosts
  <2>. QED
    BY <1>1, <1>2, <1>3, <2>1 DEF Ghosts
<1>4. CASE ~Booted
  <2>1. raced' = raced + 1 /\ clean' = FALSE /\ fresh' = FALSE
    BY <1>4 DEF KeyGhosts
  <2>2. raced' \in Nat /\ raced' # 0
    BY <1>1, <2>1
  <2>. QED
    BY <1>2, <1>4, <2>1, <2>2 DEF Ghosts
<1>. QED
  BY <1>3, <1>4

\* A cursor at the column the line says is on the screen, or above it.
LEMMA ColumnOnScreen ==
    ASSUME NEW s \in Screens, NEW n, ColumnAt(s, n), s.row >= 0
    PROVE  OnScreen(s)
BY ConsoleNumbers DEF ColumnAt, OnScreen, Screens

\* A glyph more on the line.
LEMMA ColumnPrint ==
    ASSUME NEW s \in Screens, NEW n \in Nat, ColumnAt(s, n),
           NEW c \in Glyph, c # Newline, NEW r, r = print_char(s, c)
    PROVE  ColumnAt(r, n + 1)
<1>1. Rows \in Nat \ {0} /\ Cols \in Nat \ {0} /\ LeftEnd \in Nat
  BY ConsoleNumbers
<1>2. PICK t : t = Ready(s)
  OBVIOUS
<1>3. /\ t \in Screens /\ t.row <= Rows - 1
      /\ t = s \/ (s.row >= Rows /\ t.row = Rows - 1 /\ t.col = 0)
  BY <1>2, ReadyFields
<1>4. s.row \in Int /\ t.row \in Int /\ t.col \in Int
  BY <1>3 DEF Screens
<1>5. t.col = s.col /\ s.col \in 0 .. Cols - 1
  BY <1>1, <1>3, <1>4 DEF ColumnAt
<1>6. IF t.col + 1 >= Cols THEN r.row = t.row + 1 /\ r.col = 0
                           ELSE r.row = t.row /\ r.col = t.col + 1
  BY <1>2, GlyphFields
<1>7. PICK q \in Nat : LeftEnd + n = q * Cols + s.col
  BY DEF ColumnAt
<1>8. PICK w \in Int, v \in Int : w = q * Cols /\ v = (q + 1) * Cols /\ v = w + Cols
  BY <1>1, RowPlaces
<1>9. r.row <= Rows /\ (r.row = Rows => r.col = 0) /\ r.col \in 0 .. Cols - 1
  BY <1>1, <1>3, <1>4, <1>5, <1>6
<1>10. CASE t.col + 1 >= Cols
  <2>1. s.col = Cols - 1 /\ r.col = 0
    BY <1>1, <1>5, <1>6, <1>10
  <2>2. LeftEnd + (n + 1) = v + r.col
    BY <1>1, <1>7, <1>8, <2>1
  <2>3. LeftEnd + (n + 1) = (q + 1) * Cols + r.col /\ q + 1 \in Nat
    BY <1>8, <2>2
  <2>. QED
    BY <1>9, <2>3 DEF ColumnAt
<1>11. CASE ~(t.col + 1 >= Cols)
  <2>1. LeftEnd + (n + 1) = w + r.col
    BY <1>1, <1>5, <1>6, <1>7, <1>8, <1>11
  <2>2. LeftEnd + (n + 1) = q * Cols + r.col
    BY <1>8, <2>1
  <2>. QED
    BY <1>9, <2>2 DEF ColumnAt
<1>. QED
  BY <1>10, <1>11

\* On an empty line the cursor is at the end of the prompt.
LEMMA ColumnEmpty ==
    ASSUME NEW s, ColumnAt(s, 0)
    PROVE  s.col = LeftEnd
<1>1. Cols \in Nat \ {0} /\ LeftEnd \in Nat /\ LeftEnd < Cols
  BY ConsoleNumbers
<1>2. PICK q \in Nat : LeftEnd + 0 = q * Cols + s.col
  BY DEF ColumnAt
<1>3. s.col \in 0 .. Cols - 1
  BY DEF ColumnAt
<1>4. q # 0 => q * Cols >= Cols
  <2>1. q # 0 => Cols * 1 <= Cols * q
    BY <1>1, ProductMonotone
  <2>. QED
    BY <1>1, <2>1
<1>5. PICK w \in Int : w = q * Cols
  BY <1>1
<1>6. q = 0
  BY <1>1, <1>2, <1>3, <1>4, <1>5
<1>7. w = 0
  BY <1>1, <1>5, <1>6
<1>. QED
  BY <1>1, <1>2, <1>3, <1>5, <1>7

\* Either shift key, pressed or released.
LEMMA ShiftKey ==
    ASSUME IInv, shift_key
    PROVE  IInv' /\ (Visible => Visible')
<1>1. screen' = screen /\ line' = line /\ KeyGhosts(FALSE, FALSE)
  BY DEF shift_key
<1>2. left_shift' \in BOOLEAN /\ right_shift' \in BOOLEAN
  BY DEF shift_key, IInv, Typed
<1>3. /\ Ghosts' /\ raced' \in Nat /\ clean' \in BOOLEAN /\ fresh' \in BOOLEAN /\ main' = main
      /\ ~Booted => raced' # 0 /\ ~clean' /\ ~fresh'
      /\ Booted => raced' = raced /\ clean' = clean /\ fresh' = fresh
  <2>1. /\ Ghosts' /\ raced' \in Nat /\ clean' \in BOOLEAN /\ fresh' \in BOOLEAN /\ main' = main
        /\ ~Booted => raced' # 0 /\ ~clean' /\ ~fresh'
        /\ Booted => raced' = raced /\ clean' = (clean /\ ~FALSE)
                     /\ fresh' = (FALSE \/ (fresh /\ ~FALSE))
    BY <1>1, KeyKeepsGhosts
  <2>2. clean \in BOOLEAN /\ fresh \in BOOLEAN
    BY DEF IInv, Typed
  <2>. QED
    BY <2>1, <2>2
<1>4. Booted' <=> Booted
  BY <1>3 DEF Booted
<1>5. Typed'
  BY <1>1, <1>2, <1>3 DEF IInv, Typed
<1>6. Booted => Running'
  BY <1>1, <1>3 DEF IInv, Running, ClearAfter, ClearFrom, ColumnAt, Position
<1>7. Visible => Visible'
  BY <1>1, <1>3, <1>4 DEF Visible, ShownTo, Position
<1>. QED
  BY <1>3, <1>4, <1>5, <1>6, <1>7 DEF IInv

\* kprintf of one character.
LEMMA KprintfOne ==
    ASSUME NEW s, NEW c
    PROVE  kprintf(s, <<c>>) = print_char(s, c)
<1>1. PICK text : text = <<c>>
  OBVIOUS
<1>2. Len(text) = 1 /\ text[1] = c
  BY <1>1
<1>3. PICK g : /\ g[0] = s
               /\ \A n \in 0 .. Len(text) - 1 : g[n + 1] = print_char(g[n], text[n + 1])
               /\ kprintf(s, text) = g[Len(text)]
  BY <1>2, KprintfSteps
<1>4. g[0 + 1] = print_char(g[0], text[0 + 1])
  BY <1>2, <1>3
<1>. QED
  BY <1>1, <1>2, <1>3, <1>4

\* The elements of two sequences put together.
LEMMA JoinedAt ==
    ASSUME NEW S, NEW T, NEW a \in Seq(S), NEW b \in Seq(T), NEW i \in 1 .. Len(a) + Len(b)
    PROVE  (a \o b)[i] = IF i <= Len(a) THEN a[i] ELSE b[i - Len(a)]
OBVIOUS

\* The line one letter longer.
LEMMA LongerLine ==
    ASSUME NEW l \in Seq(Letters), NEW c \in Letters, NEW k, k = Append(l, c),
           NEW n, n = Len(Prompt) + Len(l)
    PROVE  /\ n \in Nat /\ Len(Prompt) + Len(k) = n + 1 /\ (Prompt \o k)[n + 1] = c
           /\ \A i \in 1 .. n : (Prompt \o k)[i] = (Prompt \o l)[i]
           /\ k \in Seq(Letters) /\ Len(k) = Len(l) + 1
<1>1. Prompt \in Seq(Glyph \ {Newline}) /\ Len(Prompt) \in Nat
  BY ConsoleNumbers
<1>2. k \in Seq(Letters) /\ Len(k) = Len(l) + 1 /\ Len(l) \in Nat
  BY DEF Letters
<1>3. \A i \in 1 .. Len(l) : k[i] = l[i]
  OBVIOUS
<1>4. k[Len(l) + 1] = c
  OBVIOUS
<1>5. n \in Nat /\ Len(Prompt) + Len(k) = n + 1
  BY <1>1, <1>2
<1>6. \A i \in 1 .. Len(Prompt) + Len(k) :
          (Prompt \o k)[i] = IF i <= Len(Prompt) THEN Prompt[i] ELSE k[i - Len(Prompt)]
  BY <1>1, <1>2, JoinedAt
<1>7. \A i \in 1 .. Len(Prompt) + Len(l) :
          (Prompt \o l)[i] = IF i <= Len(Prompt) THEN Prompt[i] ELSE l[i - Len(Prompt)]
  BY <1>1, JoinedAt
<1>8. (Prompt \o k)[n + 1] = c
  <2>1. n + 1 \in 1 .. Len(Prompt) + Len(k) /\ ~(n + 1 <= Len(Prompt))
        /\ (n + 1) - Len(Prompt) = Len(l) + 1
    BY <1>1, <1>2, <1>5
  <2>2. PICK j : j = n + 1
    OBVIOUS
  <2>3. (Prompt \o k)[j] = k[j - Len(Prompt)]
    BY <1>6, <2>1, <2>2
  <2>. QED
    BY <1>4, <2>1, <2>2, <2>3
<1>9. ASSUME NEW i \in 1 .. n PROVE (Prompt \o k)[i] = (Prompt \o l)[i]
  <2>1. i \in 1 .. Len(Prompt) + Len(k)
    BY <1>5
  <2>2. CASE i <= Len(Prompt)
    BY <1>6, <1>7, <2>1, <2>2
  <2>3. CASE ~(i <= Len(Prompt))
    <3>1. PICK j : j = i - Len(Prompt)
      OBVIOUS
    <3>2. j \in 1 .. Len(l)
      BY <1>1, <1>2, <2>3, <3>1
    <3>3. (Prompt \o k)[i] = k[j] /\ (Prompt \o l)[i] = l[j]
      BY <1>6, <1>7, <2>1, <2>3, <3>1
    <3>. QED
      BY <1>3, <3>2, <3>3
  <2>. QED
    BY <2>2, <2>3
<1>. QED
  BY <1>2, <1>5, <1>8, <1>9

\* A letter.
LEMMA LetterKey ==
    ASSUME IInv, letter_key
    PROVE  IInv' /\ (LineFits /\ Visible => Visible')
<1>1. KeyGhosts(FALSE, FALSE) /\ left_shift' = left_shift /\ right_shift' = right_shift
  BY DEF letter_key
<1>2. /\ Typed /\ screen \in Screens /\ line \in Seq(Letters) /\ Len(line) <= BufSize
      /\ clean \in BOOLEAN /\ fresh \in BOOLEAN
  BY DEF IInv, Typed
<1>3. /\ Ghosts' /\ raced' \in Nat /\ clean' \in BOOLEAN /\ fresh' \in BOOLEAN /\ main' = main
      /\ ~Booted => raced' # 0 /\ ~clean' /\ ~fresh'
      /\ Booted => raced' = raced /\ clean' = clean /\ fresh' = fresh
  <2>1. /\ Ghosts' /\ raced' \in Nat /\ clean' \in BOOLEAN /\ fresh' \in BOOLEAN /\ main' = main
        /\ ~Booted => raced' # 0 /\ ~clean' /\ ~fresh'
        /\ Booted => raced' = raced /\ clean' = (clean /\ ~FALSE)
                     /\ fresh' = (FALSE \/ (fresh /\ ~FALSE))
    BY <1>1, KeyKeepsGhosts
  <2>. QED
    BY <1>2, <2>1
<1>4. Booted' <=> Booted
  BY <1>3 DEF Booted
<1>5. CASE ~(Len(line) < BufSize)
  <2>1. screen' = screen /\ line' = line
    BY <1>5 DEF letter_key, buffer_pos
  <2>2. Typed'
    BY <1>1, <1>2, <1>3, <2>1 DEF Typed
  <2>3. Booted => Running'
    BY <1>3, <2>1 DEF IInv, Running, ClearAfter, ClearFrom, ColumnAt, Position
  <2>4. Visible => Visible'
    BY <1>3, <1>4, <2>1 DEF Visible, ShownTo, Position
  <2>. QED
    BY <1>3, <1>4, <2>2, <2>3, <2>4 DEF IInv
<1>6. CASE Len(line) < BufSize
  <2>. DEFINE c == scancode_to_ascii
              s == screen'
              k == line'
              n == Len(Prompt) + Len(line)
  <2>1. c \in Letters
    BY DEF scancode_to_ascii, Letters
  <2>2. c \in Glyph /\ c # Newline
    BY <2>1, PlainGlyphs
  <2>3. s = print_char(screen, c) /\ k = Append(line, c)
    BY <1>6, KprintfOne DEF letter_key, buffer_pos
  <2>. HIDE DEF c, s, k, n
  <2>4. /\ n \in Nat /\ Len(Prompt) + Len(k) = n + 1 /\ (Prompt \o k)[n + 1] = c
        /\ \A i \in 1 .. n : (Prompt \o k)[i] = (Prompt \o line)[i]
        /\ k \in Seq(Letters) /\ Len(k) = Len(line) + 1
    BY <1>2, <2>1, <2>3, LongerLine DEF n
  <2>5. s \in Screens
    BY <1>2, <2>2, <2>3, PrintRow
  <2>6. Typed'
    <3>1. screen' \in Screens /\ line' \in Seq(Letters) /\ Len(line') <= BufSize
      <4>1. BufSize \in Nat /\ Len(line) \in Nat
        BY <1>2, ConsoleNumbers
      <4>. QED
        BY <1>6, <2>4, <2>5, <4>1 DEF s, k
    <3>. QED
      BY <1>1, <1>2, <1>3, <3>1 DEF Typed
  <2>7. ASSUME Booted, fresh PROVE ColumnAt(s, Len(k))
    <3>1. ColumnAt(screen, Len(line)) /\ Len(line) \in Nat
      BY <1>2, <2>7 DEF IInv, Running
    <3>2. ColumnAt(s, Len(line) + 1)
      BY <1>2, <2>2, <2>3, <3>1, ColumnPrint
    <3>. QED
      BY <2>4, <3>2
  <2>8. ASSUME Booted, clean PROVE s.row >= 0 /\ ~s.stray
    <3>1. OnScreen(screen) /\ ~screen.stray
      BY <1>2, <2>8, ColumnOnScreen DEF IInv, Running, Ghosts
    <3>2. OnScreen(s) /\ s.stray = screen.stray
      BY <1>2, <2>2, <2>3, <3>1, PrintOnScreen
    <3>. QED
      BY <3>1, <3>2 DEF OnScreen
  <2>9. ASSUME Booted, raced = 0 PROVE ClearAfter(s) /\ (fresh => ClearFrom(s))
    <3>1. ClearAfter(screen)
      BY <2>9 DEF IInv, Running
    <3>2. ClearAfter(s) /\ (screen.col < Cols => ClearFrom(s))
      BY <1>2, <2>2, <2>3, <3>1, PrintClear
    <3>3. fresh => screen.col < Cols
      BY <2>9, ConsoleNumbers DEF IInv, Running, ColumnAt
    <3>. QED
      BY <3>2, <3>3
  <2>10. Booted => Running'
    <3>1. Running' =
             (/\ clean' => s.row >= 0 /\ ~s.stray
              /\ fresh' => ColumnAt(s, Len(k))
              /\ raced' = 0 => ClearAfter(s)
              /\ raced' = 0 /\ fresh' => ClearFrom(s))
      BY DEF Running, ClearAfter, ClearFrom, ColumnAt, Position, s, k
    <3>. QED
      BY <1>3, <2>7, <2>8, <2>9, <3>1
  <2>11. ASSUME LineFits, Visible, Booted, fresh PROVE Visible'
    <3>1. screen.row >= 0 /\ ShownTo(screen, Prompt \o line, n)
      BY <2>11 DEF Visible, n
    <3>2. OnScreen(screen)
      BY <1>2, <2>11, <3>1, ColumnOnScreen DEF IInv, Running
    <3>3. PICK text : text = Prompt \o k
      OBVIOUS
    <3>4. ShownTo(screen, text, n) /\ text[n + 1] = c
      BY <2>4, <3>1, <3>3 DEF ShownTo
    <3>5. screen.row = Rows => n <= (Rows - 1) * Cols
      <4>1. /\ Len(Prompt) \in Nat /\ BufSize \in Nat /\ Len(line) \in Nat
            /\ (Rows - 1) * Cols \in Int
        BY <1>2, ConsoleNumbers
      <4>2. PICK w \in Int : w = (Rows - 1) * Cols
        BY <4>1
      <4>3. Len(Prompt) + BufSize <= w + 1
        BY <2>11, <4>2 DEF LineFits
      <4>4. n <= w
        BY <1>6, <4>1, <4>3 DEF n
      <4>. QED
        BY <4>2, <4>4
    <3>6. ShownTo(s, text, n + 1)
      BY <1>2, <2>2, <2>3, <2>4, <3>2, <3>4, <3>5, PrintShown
    <3>7. OnScreen(s)
      BY <1>2, <2>2, <2>3, <3>2, PrintOnScreen
    <3>8. screen'.row >= 0 /\ ShownTo(s, Prompt \o k, Len(Prompt) + Len(k))
      BY <2>4, <3>3, <3>6, <3>7 DEF OnScreen, s
    <3>. QED
      BY <3>8 DEF Visible, ShownTo, Position, s, k
  <2>12. LineFits /\ Visible => Visible'
    BY <1>3, <1>4, <2>11 DEF Visible
  <2>. QED
    BY <1>3, <1>4, <2>6, <2>10, <2>12 DEF IInv
<1>. QED
  BY <1>5, <1>6

\* The line one letter shorter.
LEMMA ShorterLine ==
    ASSUME NEW l \in Seq(Letters), Len(l) > 0, NEW k, k = SubSeq(l, 1, Len(l) - 1)
    PROVE  /\ k \in Seq(Letters) /\ Len(k) = Len(l) - 1 /\ Len(k) \in Nat
           /\ \A i \in 1 .. Len(Prompt) + Len(k) : (Prompt \o k)[i] = (Prompt \o l)[i]
<1>1. Prompt \in Seq(Glyph \ {Newline}) /\ Len(Prompt) \in Nat
  BY ConsoleNumbers
<1>2. PICK n \in Nat : n = Len(l) - 1
  OBVIOUS
<1>3. k \in Seq(Letters) /\ Len(k) = n /\ \A i \in 1 .. n : k[i] = l[i]
  <2>1. \A i \in 1 .. n : l[i] \in Letters
    BY <1>2
  <2>2. k = [i \in 1 .. n |-> l[i]]
    BY <1>2
  <2>. QED
    BY <1>2, <2>1, <2>2
<1>4. \A i \in 1 .. Len(Prompt) + n :
          (Prompt \o k)[i] = IF i <= Len(Prompt) THEN Prompt[i] ELSE k[i - Len(Prompt)]
  BY <1>1, <1>3
<1>5. \A i \in 1 .. Len(Prompt) + Len(l) :
          (Prompt \o l)[i] = IF i <= Len(Prompt) THEN Prompt[i] ELSE l[i - Len(Prompt)]
  BY <1>1
<1>6. ASSUME NEW i \in 1 .. Len(Prompt) + n PROVE (Prompt \o k)[i] = (Prompt \o l)[i]
  <2>1. i \in 1 .. Len(Prompt) + Len(l)
    BY <1>1, <1>2
  <2>2. CASE i <= Len(Prompt)
    BY <1>4, <1>5, <2>1, <2>2
  <2>3. CASE ~(i <= Len(Prompt))
    <3>1. PICK j : j = i - Len(Prompt)
      OBVIOUS
    <3>2. j \in 1 .. n
      BY <1>1, <2>3, <3>1
    <3>3. (Prompt \o k)[i] = k[j] /\ (Prompt \o l)[i] = l[j]
      BY <1>4, <1>5, <2>1, <2>3, <3>1
    <3>. QED
      BY <1>3, <3>2, <3>3
  <2>. QED
    BY <2>2, <2>3
<1>. QED
  BY <1>2, <1>3, <1>6

\* Backspace at the left edge of a line with text: up one row, nothing erased.
LEMMA EdgeFields ==
    ASSUME NEW s \in Screens, s.col < 1, NEW r, r = [s EXCEPT !.row = @ - 1, !.col = Cols]
    PROVE  r \in Screens /\ (ClearAfter(s) => ClearAfter(r))
<1>1. s.row \in Int /\ s.col \in Int /\ Cols \in Nat \ {0}
  BY ConsoleNumbers DEF Screens
<1>2. PICK a \in Int, b \in Int : a = s.row - 1 /\ b = Cols
  BY <1>1
<1>3. r = [s EXCEPT !.row = a, !.col = b]
  BY <1>2
<1>4. r = [row |-> a, col |-> b, stray |-> s.stray, cells |-> s.cells]
  BY <1>3 DEF Screens
<1>5. r \in Screens /\ r.row = a /\ r.col = b /\ r.cells = s.cells
  <2>1. s.stray \in BOOLEAN /\ s.cells \in [Places -> Glyph]
    BY DEF Screens
  <2>. QED
    BY <1>2, <1>4, <2>1 DEF Screens
<1>6. PICK w \in Int, v \in Int : w = s.row * Cols /\ v = a * Cols /\ v = w - Cols
  BY <1>1, <1>2, RowPlaces
<1>7. Position(r) = v + Cols /\ Position(s) = w + s.col
  BY <1>2, <1>5, <1>6 DEF Position
<1>8. Position(r) >= Position(s) /\ Position(r) \in Int /\ Position(s) \in Int
  BY <1>1, <1>6, <1>7
<1>9. ASSUME ClearAfter(s), NEW q \in Places, q > Position(r) PROVE r.cells[q] = Blank
  <2>1. q > Position(s)
    BY <1>8, <1>9 DEF Places
  <2>. QED
    BY <1>5, <1>9, <2>1 DEF ClearAfter
<1>. QED
  BY <1>1, <1>2, <1>5, <1>9 DEF ClearAfter

\* Backspace that erases leaves nothing behind the cursor.
LEMMA EraseClear ==
    ASSUME NEW s \in Screens, ClearAfter(s), NEW r \in Screens, r.col = s.col - 1,
           Position(r) = Position(s) - 1,
           \A q \in Places :
              r.cells[q] = IF q = Position(s) \/ q = Position(s) - 1 THEN Blank ELSE s.cells[q]
    PROVE  ClearAfter(r) /\ ClearFrom(r)
<1>1. PICK p \in Int : p = Position(s)
  BY OnePlace
<1>2. ASSUME NEW q \in Places, q >= p - 1 PROVE r.cells[q] = Blank
  <2>1. CASE q = p \/ q = p - 1
    BY <1>1, <2>1
  <2>2. CASE ~(q = p \/ q = p - 1)
    <3>1. q > p
      BY <1>2, <2>2 DEF Places
    <3>. QED
      BY <1>1, <2>2, <3>1 DEF ClearAfter
  <2>. QED
    BY <2>1, <2>2
<1>3. r.col <= Cols
  <2>1. s.col \in Int /\ s.col <= Cols /\ Cols \in Nat
    BY ConsoleNumbers DEF Screens, ClearAfter
  <2>. QED
    BY <2>1
<1>4. ClearFrom(r)
  BY <1>1, <1>2 DEF ClearFrom
<1>5. \A q \in Places : q > p - 1 => q >= p - 1
  BY <1>1 DEF Places
<1>. QED
  BY <1>1, <1>2, <1>3, <1>4, <1>5 DEF ClearAfter

\* Backspace.
LEMMA EraseKey ==
    ASSUME IInv, erase_key
    PROVE  /\ IInv' /\ (Visible => Visible')
           /\ Booted /\ fresh /\ line = <<>> => screen' = screen
<1>. DEFINE spoils == buffer_pos > 0 /\ screen.col < 1
            s == screen'
            k == line'
            n == Len(line)
<1>1. /\ KeyGhosts(spoils, FALSE) /\ left_shift' = left_shift /\ right_shift' = right_shift
      /\ s = backspace(screen, n)
      /\ k = IF n > 0 THEN SubSeq(line, 1, n - 1) ELSE line
      /\ spoils \in BOOLEAN
  BY DEF erase_key, buffer_pos
<1>2. /\ Typed /\ screen \in Screens /\ line \in Seq(Letters) /\ n <= BufSize /\ n \in Nat
      /\ clean \in BOOLEAN /\ fresh \in BOOLEAN
  BY DEF IInv, Typed
<1>3. spoils <=> n > 0 /\ screen.col < 1
  BY DEF buffer_pos
<1>. HIDE DEF spoils, s, k, n
<1>4. /\ Ghosts' /\ raced' \in Nat /\ clean' \in BOOLEAN /\ fresh' \in BOOLEAN /\ main' = main
      /\ ~Booted => raced' # 0 /\ ~clean' /\ ~fresh'
      /\ Booted => raced' = raced /\ clean' = (clean /\ ~spoils) /\ fresh' = (fresh /\ ~spoils)
  <2>1. /\ Ghosts' /\ raced' \in Nat /\ clean' \in BOOLEAN /\ fresh' \in BOOLEAN /\ main' = main
        /\ ~Booted => raced' # 0 /\ ~clean' /\ ~fresh'
        /\ Booted => raced' = raced /\ clean' = (clean /\ ~spoils)
                     /\ fresh' = (FALSE \/ (fresh /\ ~spoils))
    BY <1>1, KeyKeepsGhosts
  <2>. QED
    BY <1>1, <1>2, <2>1
<1>5. Booted' <=> Booted
  BY <1>4 DEF Booted
<1>6. /\ k \in Seq(Letters) /\ Len(k) <= BufSize
      /\ n > 0 => /\ Len(k) = n - 1
                  /\ \A i \in 1 .. Len(Prompt) + (n - 1) : (Prompt \o k)[i] = (Prompt \o line)[i]
      /\ n = 0 => k = line
  <2>1. CASE n > 0
    <3>1. k = SubSeq(line, 1, Len(line) - 1) /\ Len(line) > 0
      BY <1>1, <2>1 DEF n
    <3>2. /\ k \in Seq(Letters) /\ Len(k) = Len(line) - 1
          /\ \A i \in 1 .. Len(Prompt) + Len(k) : (Prompt \o k)[i] = (Prompt \o line)[i]
      BY <1>2, <3>1, ShorterLine
    <3>. QED
      BY <1>2, <2>1, <3>2, ConsoleNumbers DEF n
  <2>2. CASE ~(n > 0)
    <3>1. k = line
      BY <1>1, <2>2
    <3>. QED
      BY <1>2, <2>2, <3>1 DEF n
  <2>. QED
    BY <2>1, <2>2
<1>7. PICK t : t = PutCell(PutCell(screen, Position(screen), Blank), Position(screen) - 1, Blank)
  OBVIOUS
<1>8. s = IF spoils THEN [screen EXCEPT !.row = @ - 1, !.col = Cols]
          ELSE IF n > 0 \/ screen.col # LeftEnd THEN [t EXCEPT !.col = @ - 1] ELSE screen
  BY <1>1, <1>3, <1>7 DEF backspace
<1>. DEFINE Result ==
       /\ s \in Screens
       /\ Booted /\ clean' => s.row >= 0 /\ ~s.stray
       /\ Booted /\ fresh' => ColumnAt(s, Len(k))
       /\ Booted /\ raced = 0 => ClearAfter(s)
       /\ Booted /\ raced = 0 /\ fresh' => ClearFrom(s)
       /\ Visible /\ Booted /\ fresh' =>
             s.row >= 0 /\ ShownTo(s, Prompt \o k, Len(Prompt) + Len(k))
<1>9. ASSUME spoils PROVE Result
  <2>1. s \in Screens /\ (ClearAfter(screen) => ClearAfter(s))
    <3>1. s = [screen EXCEPT !.row = @ - 1, !.col = Cols] /\ screen.col < 1
      BY <1>3, <1>8, <1>9
    <3>. QED
      BY <1>2, <3>1, EdgeFields
  <2>2. Booted => ~clean' /\ ~fresh'
    BY <1>4, <1>9
  <2>3. Booted /\ raced = 0 => ClearAfter(screen)
    BY DEF IInv, Running
  <2>. QED
    BY <2>1, <2>2, <2>3
<1>10. ASSUME ~spoils, n > 0 \/ screen.col # LeftEnd PROVE Result
  <2>1. s = [t EXCEPT !.col = @ - 1]
    BY <1>8, <1>10
  <2>2. /\ s \in Screens /\ s.row = screen.row /\ s.col = screen.col - 1
        /\ Position(s) = Position(screen) - 1
        /\ \A q \in Places : s.cells[q] =
              IF q = Position(screen) \/ q = Position(screen) - 1 THEN Blank ELSE screen.cells[q]
        /\ Position(screen) \in Places /\ Position(screen) - 1 \in Places => s.stray = screen.stray
    <3>1. t \in Screens
      BY <1>2, <1>7, EraseCells
    <3>2. s \in Screens /\ s.row = t.row /\ s.col = t.col - 1 /\ s.cells = t.cells /\ s.stray = t.stray
      BY <2>1, <3>1 DEF Screens
    <3>. QED
      BY <1>2, <1>7, <3>2, EraseFields
  <2>3. ClearAfter(screen) => ClearAfter(s) /\ ClearFrom(s)
    BY <1>2, <2>2, EraseClear
  <2>4. ASSUME Booted, fresh
        PROVE  /\ n > 0 /\ Len(k) = n - 1 /\ screen.col \in 1 .. Cols - 1 /\ screen.row < Rows
               /\ ColumnAt(s, Len(k))
    <3>1. ColumnAt(screen, n)
      BY <2>4 DEF IInv, Running, n
    <3>2. n > 0
      <4>. SUFFICES ASSUME n = 0 PROVE FALSE
        BY <1>2
      <4>1. screen.col = LeftEnd
        BY <3>1, ColumnEmpty
      <4>. QED
        BY <1>10, <4>1
    <3>3. Cols \in Nat /\ Rows \in Nat /\ screen.row \in Int /\ LeftEnd \in Nat
      BY <1>2, ConsoleNumbers DEF Screens
    <3>4. screen.col \in 1 .. Cols - 1 /\ screen.row < Rows
      BY <1>3, <1>10, <3>1, <3>2, <3>3 DEF ColumnAt
    <3>5. PICK q \in Nat : LeftEnd + n = q * Cols + screen.col
      BY <3>1 DEF ColumnAt
    <3>6. PICK w \in Int : w = q * Cols
      BY <3>3
    <3>7. LeftEnd + (n - 1) = w + s.col
      BY <1>2, <2>2, <3>3, <3>4, <3>5, <3>6
    <3>8. LeftEnd + Len(k) = q * Cols + s.col
      BY <1>6, <3>2, <3>6, <3>7
    <3>9. s.row <= Rows /\ (s.row = Rows => s.col = 0) /\ s.col \in 0 .. Cols - 1
      BY <2>2, <3>3, <3>4
    <3>. QED
      BY <1>6, <3>2, <3>4, <3>8, <3>9 DEF ColumnAt
  <2>5. ASSUME Booted, clean PROVE s.row >= 0 /\ ~s.stray
    <3>1. screen.row >= 0 /\ ~screen.stray /\ fresh
      BY <2>5 DEF IInv, Running, Ghosts
    <3>2. /\ screen.row \in 0 .. Rows - 1 /\ screen.col \in 1 .. Cols - 1
          /\ screen.row \in Int /\ Rows \in Nat /\ Cols \in Nat
      BY <1>2, <2>4, <2>5, <3>1, ConsoleNumbers DEF Screens
    <3>3. Position(screen) \in Places
      BY <1>2, <3>2, OnePlace
    <3>4. Position(s) \in Places
      <4>1. s.row \in 0 .. Rows - 1 /\ s.col \in 0 .. Cols - 1
        BY <2>2, <3>2
      <4>. QED
        BY <2>2, <4>1, OnePlace
    <3>. QED
      BY <2>2, <3>1, <3>3, <3>4
  <2>6. ASSUME Visible, Booted, fresh
        PROVE  s.row >= 0 /\ ShownTo(s, Prompt \o k, Len(Prompt) + Len(k))
    <3>1. screen.row >= 0 /\ ShownTo(screen, Prompt \o line, Len(Prompt) + n)
      BY <2>6 DEF Visible, n
    <3>2. PICK l \in Nat, p \in Int : l = Len(Prompt) + Len(k) /\ p = Position(screen)
      BY <1>2, <1>6, ConsoleNumbers, OnePlace
    <3>3. Len(Prompt) + n = l + 1 /\ Len(k) = n - 1 /\ Len(Prompt) + (n - 1) = l
      <4>1. Len(k) = n - 1
        BY <2>4, <2>6
      <4>2. PICK m \in Nat : m = Len(Prompt)
        BY ConsoleNumbers
      <4>3. l = m + (n - 1) /\ n \in Nat
        BY <1>2, <3>2, <4>1, <4>2
      <4>4. m + n = l + 1
        BY <4>2, <4>3
      <4>. QED
        BY <4>1, <4>2, <4>3, <4>4
    <3>4. ASSUME NEW i \in 1 .. l
          PROVE  /\ Position(s) - l + i - 1 \in Places
                 /\ s.cells[Position(s) - l + i - 1] = (Prompt \o k)[i]
      <4>1. i \in 1 .. l + 1
        BY <3>2
      <4>2. /\ p - (l + 1) + i - 1 \in Places
            /\ screen.cells[p - (l + 1) + i - 1] = (Prompt \o line)[i]
        BY <3>1, <3>2, <3>3, <4>1 DEF ShownTo
      <4>3. PICK q : q = p - (l + 1) + i - 1
        OBVIOUS
      <4>4. Position(s) - l + i - 1 = q /\ q # p /\ q # p - 1
        <5>1. Position(s) = p - 1
          BY <2>2, <3>2
        <5>2. p - 1 - l + i - 1 = q /\ q # p /\ q # p - 1
          BY <3>2, <4>3
        <5>. QED
          BY <5>1, <5>2
      <4>5. s.cells[q] = screen.cells[q]
        BY <2>2, <3>2, <4>2, <4>3, <4>4
      <4>6. (Prompt \o k)[i] = (Prompt \o line)[i]
        BY <1>6, <2>4, <2>6, <3>3
      <4>. QED
        BY <4>2, <4>3, <4>4, <4>5, <4>6
    <3>. QED
      BY <2>2, <3>1, <3>2, <3>4 DEF ShownTo
  <2>7. Booted /\ raced = 0 => ClearAfter(screen)
    BY DEF IInv, Running
  <2>. QED
    BY <1>4, <2>2, <2>3, <2>4, <2>5, <2>6, <2>7
<1>11. ASSUME ~spoils, ~(n > 0 \/ screen.col # LeftEnd) PROVE Result
  <2>1. s = screen /\ k = line
    BY <1>2, <1>6, <1>8, <1>11
  <2>. QED
    BY <1>2, <1>4, <2>1 DEF IInv, Running, Visible
<1>12. Result
  BY <1>1, <1>9, <1>10, <1>11
<1>13. Typed'
  <2>1. screen' \in Screens /\ line' \in Seq(Letters) /\ Len(line') <= BufSize
    BY <1>6, <1>12 DEF s, k
  <2>. QED
    BY <1>1, <1>2, <1>4, <2>1 DEF Typed
<1>14. Booted => Running'
  <2>1. Running' =
           (/\ clean' => s.row >= 0 /\ ~s.stray
            /\ fresh' => ColumnAt(s, Len(k))
            /\ raced' = 0 => ClearAfter(s)
            /\ raced' = 0 /\ fresh' => ClearFrom(s))
    BY DEF Running, ClearAfter, ClearFrom, ColumnAt, Position, s, k
  <2>. QED
    BY <1>4, <1>12, <2>1
<1>15. Visible => Visible'
  <2>1. Visible' = (Booted' /\ fresh' =>
           s.row >= 0 /\ ShownTo(s, Prompt \o k, Len(Prompt) + Len(k)))
    BY DEF Visible, ShownTo, Position, s, k
  <2>. QED
    BY <1>5, <1>12, <2>1
<1>16. ASSUME Booted, fresh, line = <<>> PROVE screen' = screen
  <2>1. n = 0
    BY <1>16 DEF n
  <2>2. ColumnAt(screen, 0)
    BY <1>16, <2>1 DEF IInv, Running, n
  <2>3. screen.col = LeftEnd
    BY <2>2, ColumnEmpty
  <2>4. ~spoils /\ ~(n > 0 \/ screen.col # LeftEnd)
    BY <1>3, <2>1, <2>3
  <2>. QED
    BY <1>8, <2>4 DEF s
<1>. QED
  BY <1>4, <1>5, <1>13, <1>14, <1>15, <1>16 DEF IInv

\* What a command leaves: the cursor at the start of a row.
LEMMA InputDone ==
    ASSUME OutputsEndLines, NEW s \in Screens, NEW r \in process_input(s)
    PROVE  Keeps(s, r) /\ r.col = 0 /\ r.row <= Rows /\ (s.row >= -1 => r.row >= 0)
<1>1. CASE r = clearScreen(s)
  <2>1. Rows \in Nat \ {0} /\ Cols \in Nat \ {0}
    BY ConsoleNumbers
  <2>2. DOMAIN s.cells = Places /\ s.stray \in BOOLEAN
    BY DEF Screens
  <2>. DEFINE none == [p \in Places |-> Blank]
  <2>3. none \in [Places -> Glyph] /\ \A q \in Places : none[q] = Blank
    BY PlainGlyphs
  <2>. HIDE DEF none
  <2>4. PICK a \in Int, b \in Int : a = 0 /\ b = 0
    OBVIOUS
  <2>5. r = [s EXCEPT !.row = a, !.col = b, !.cells = none]
    BY <1>1, <2>2, <2>4 DEF clearScreen, none
  <2>6. r = [row |-> a, col |-> b, stray |-> s.stray, cells |-> none]
    BY <2>5 DEF Screens
  <2>7. /\ r \in Screens /\ r.row = 0 /\ r.col = 0 /\ r.stray = s.stray /\ r.cells = none
    BY <2>2, <2>3, <2>4, <2>6 DEF Screens
  <2>8. OnScreen(r)
    BY <2>1, <2>7 DEF OnScreen
  <2>9. ClearAfter(r)
    BY <2>1, <2>3, <2>7 DEF ClearAfter
  <2>. QED
    BY <2>1, <2>7, <2>8, <2>9 DEF Keeps
<1>2. CASE r # clearScreen(s)
  <2>1. PICK out \in Outputs : r = kprintf(s, out)
    BY <1>2 DEF process_input
  <2>2. out \in Seq({"out", Newline}) /\ out # <<>> /\ out[Len(out)] = Newline
    BY ConsoleAssumption DEF OutputsEndLines
  <2>. QED
    BY <2>1, <2>2, KprintfOutput
<1>. QED
  BY <1>1, <1>2

\* Enter.
LEMMA EnterKey ==
    ASSUME OutputsEndLines, IInv, enter_key
    PROVE  IInv' /\ (NearScreen => Visible')
<1>. DEFINE s == screen'
<1>1. /\ KeyGhosts(FALSE, TRUE) /\ left_shift' = left_shift /\ right_shift' = right_shift
      /\ line' = <<>>
  BY DEF enter_key
<1>2. PICK u \in process_input(screen) : s = kprintf(u, Prompt)
  BY DEF enter_key
<1>3. /\ Typed /\ screen \in Screens /\ clean \in BOOLEAN /\ fresh \in BOOLEAN
  BY DEF IInv, Typed
<1>4. /\ Ghosts' /\ raced' \in Nat /\ clean' \in BOOLEAN /\ fresh' \in BOOLEAN /\ main' = main
      /\ ~Booted => raced' # 0 /\ ~clean' /\ ~fresh'
      /\ Booted => raced' = raced /\ clean' = clean
  <2>1. /\ Ghosts' /\ raced' \in Nat /\ clean' \in BOOLEAN /\ fresh' \in BOOLEAN /\ main' = main
        /\ ~Booted => raced' # 0 /\ ~clean' /\ ~fresh'
        /\ Booted => raced' = raced /\ clean' = (clean /\ ~FALSE)
                     /\ fresh' = (TRUE \/ (fresh /\ ~FALSE))
    BY <1>1, KeyKeepsGhosts
  <2>. QED
    BY <1>3, <2>1
<1>5. Booted' <=> Booted
  BY <1>4 DEF Booted
<1>. HIDE DEF s
<1>6. Keeps(screen, u) /\ u.col = 0 /\ u.row <= Rows /\ (screen.row >= -1 => u.row >= 0)
  BY <1>2, <1>3, InputDone
<1>7. u \in Screens
  BY <1>6 DEF Keeps
<1>8. PromptTo(u, s, Len(Prompt))
  BY <1>2, <1>6, <1>7, KprintfPrompt
<1>9. /\ Rows \in Nat \ {0} /\ Cols \in Nat \ {0} /\ LeftEnd = Len(Prompt)
      /\ Len(Prompt) \in Nat \ {0} /\ Len(Prompt) < Cols
  BY ConsoleNumbers
<1>10. /\ s \in Screens /\ s.col = LeftEnd /\ s.row < Rows /\ s.row \in Int
       /\ u.row >= 0 => s.row >= 0 /\ ShownTo(s, Prompt, Len(Prompt)) /\ s.stray = u.stray
       /\ ClearAfter(u) => ClearAfter(s) /\ ClearFrom(s)
  BY <1>8, <1>9 DEF PromptTo, Screens
<1>11. Typed'
  <2>1. screen' \in Screens /\ line' \in Seq(Letters) /\ Len(line') <= BufSize
    <3>1. <<>> \in Seq(Letters) /\ Len(<<>>) = 0
      OBVIOUS
    <3>. QED
      BY <1>1, <1>10, <3>1, ConsoleNumbers DEF s
  <2>. QED
    BY <1>1, <1>3, <1>4, <2>1 DEF Typed
<1>12. ColumnAt(s, 0)
  <2>1. LeftEnd + 0 = 0 * Cols + s.col
    BY <1>9, <1>10
  <2>. QED
    BY <1>9, <1>10, <2>1 DEF ColumnAt
<1>13. ASSUME Booted, clean PROVE s.row >= 0 /\ ~s.stray
  <2>1. OnScreen(screen) /\ ~screen.stray
    BY <1>3, <1>13, ColumnOnScreen DEF IInv, Running, Ghosts
  <2>2. OnScreen(u) /\ u.stray = screen.stray
    BY <1>6, <2>1 DEF Keeps
  <2>3. u.row >= 0
    BY <2>2 DEF OnScreen
  <2>. QED
    BY <1>10, <2>1, <2>2, <2>3
<1>14. ASSUME Booted, raced = 0 PROVE ClearAfter(s) /\ ClearFrom(s)
  <2>1. ClearAfter(screen)
    BY <1>14 DEF IInv, Running
  <2>. QED
    BY <1>6, <1>10, <2>1 DEF Keeps
<1>15. Booted => Running'
  <2>1. Len(line') = 0
    BY <1>1
  <2>2. Running' =
           (/\ clean' => s.row >= 0 /\ ~s.stray
            /\ fresh' => ColumnAt(s, Len(line'))
            /\ raced' = 0 => ClearAfter(s)
            /\ raced' = 0 /\ fresh' => ClearFrom(s))
    BY DEF Running, ClearAfter, ClearFrom, ColumnAt, Position, s
  <2>. QED
    BY <1>4, <1>12, <1>13, <1>14, <2>1, <2>2
<1>16. ASSUME NearScreen, Booted PROVE s.row >= 0 /\ ShownTo(s, Prompt, Len(Prompt))
  <2>1. screen.row >= -1
    <3>1. clean => screen.row >= 0
      BY <1>16 DEF IInv, Running
    <3>2. screen.row \in Int
      BY <1>3 DEF Screens
    <3>. QED
      BY <1>16, <3>1, <3>2 DEF NearScreen
  <2>. QED
    BY <1>6, <1>10, <2>1
<1>17. NearScreen => Visible'
  <2>1. PICK l : l = line'
    OBVIOUS
  <2>2. l = <<>> /\ Len(l) = 0
    BY <1>1, <2>1
  <2>3. Prompt \o l = Prompt /\ Len(Prompt) + Len(l) = Len(Prompt)
    BY <1>9, <2>2, ConsoleNumbers
  <2>4. Visible' = (Booted' /\ fresh' =>
           s.row >= 0 /\ ShownTo(s, Prompt \o line', Len(Prompt) + Len(line')))
    BY DEF Visible, ShownTo, Position, s
  <2>. QED
    BY <1>5, <1>16, <2>1, <2>3, <2>4
<1>. QED
  BY <1>4, <1>5, <1>11, <1>15, <1>17 DEF IInv

-----------------------------------------------------------------------------
(* The boot prompt. *)

\* A step of kernel_main that stays in print_char.
LEMMA MainMoves ==
    ASSUME IInv, NEW place, NEW next \in MainPlaces, NEW local \in Int,
           next = "scroll" => local \in 0 .. Rows - 1,
           MainAt(place, next, local), screen' \in Screens,
           raced = 0 => BootAt(screen', next, Printed, local)
    PROVE  IInv' /\ Visible'
<1>1. /\ ~Booted /\ main.at = place /\ main' = [main EXCEPT !.at = next, !.local = local]
      /\ line' = line /\ left_shift' = left_shift /\ right_shift' = right_shift
      /\ raced' = raced /\ clean' = clean /\ fresh' = fresh
  BY DEF MainAt, ghosts
<1>2. main \in [at : MainPlaces, left : Seq(Glyph \ {Newline}), local : Int]
  BY DEF IInv, Typed
<1>3. main' = [at |-> next, left |-> main.left, local |-> local]
  BY <1>1, <1>2
<1>4. main'.at = next /\ main'.left = main.left /\ main'.local = local
  BY <1>3
<1>5. main' \in [at : MainPlaces, left : Seq(Glyph \ {Newline}), local : Int]
  <2>1. main.left \in Seq(Glyph \ {Newline})
    BY <1>2
  <2>. QED
    BY <1>3, <2>1
<1>6. ~Booted'
  BY <1>1, <1>4 DEF Booted
<1>7. Typed'
  BY <1>1, <1>4, <1>5 DEF IInv, Typed
<1>8. Ghosts'
  BY <1>1, <1>6 DEF IInv, Ghosts
<1>9. raced' = 0 => BootPrompt'
  <2>1. BootPrompt' = BootAt(screen', next, Printed, local)
    BY <1>4 DEF BootPrompt, BootAt, PromptRow, RowBlankFrom, Printed
  <2>. QED
    BY <1>1, <2>1
<1>. QED
  BY <1>6, <1>7, <1>8, <1>9 DEF IInv, Visible

\* The glyph that is printed next.
LEMMA NextGlyph ==
    ASSUME IInv, ~Booted
    PROVE  /\ Printed \in 0 .. Len(Prompt) - 1 /\ Len(main.left) \in Nat \ {0}
           /\ main.left[1] = Prompt[Printed + 1]
           /\ main.left[1] \in Glyph /\ main.left[1] # Newline
           /\ main.left \in Seq(Glyph \ {Newline})
<1>1. /\ main.left \in Seq(Glyph \ {Newline}) /\ main.left # <<>>
      /\ Len(main.left) <= Len(Prompt)
      /\ \A i \in 1 .. Len(main.left) :
            main.left[i] = Prompt[Len(Prompt) - Len(main.left) + i]
  BY DEF IInv, Typed, Booted
<1>2. Len(main.left) \in Nat \ {0} /\ Len(Prompt) \in Nat
  BY <1>1, EmptySeq, ConsoleNumbers
<1>3. main.left[1] = Prompt[Len(Prompt) - Len(main.left) + 1]
  <2>1. PICK n : n = Len(main.left)
    OBVIOUS
  <2>2. 1 \in 1 .. n
    BY <1>2, <2>1
  <2>3. \A i \in 1 .. n : main.left[i] = Prompt[Len(Prompt) - n + i]
    BY <1>1, <2>1
  <2>4. main.left[1] = Prompt[Len(Prompt) - n + 1]
    BY <2>2, <2>3
  <2>. QED
    BY <2>1, <2>4
<1>4. main.left[1] \in Glyph \ {Newline}
  <2>1. PICK l : l = main.left
    OBVIOUS
  <2>2. l \in Seq(Glyph \ {Newline}) /\ 1 \in 1 .. Len(l)
    BY <1>1, <1>2, <2>1
  <2>. QED
    BY <2>1, <2>2, ElementOfSeq
<1>5. Printed \in 0 .. Len(Prompt) - 1
  <2>1. PICK n \in Nat \ {0}, m \in Nat : n = Len(main.left) /\ m = Len(Prompt)
    BY <1>2
  <2>2. n <= m
    BY <1>1, <2>1
  <2>3. Printed = m - n
    BY <2>1 DEF Printed
  <2>. QED
    BY <2>1, <2>2, <2>3
<1>6. main.left[1] = Prompt[Printed + 1]
  BY <1>3 DEF Printed
<1>7. main.left[1] \in Glyph /\ main.left[1] # Newline
  BY <1>4
<1>. QED
  BY <1>1, <1>2, <1>5, <1>6, <1>7

\* The last row of the screen.
LEMMA LastPlaces ==
    /\ LastRow \in Nat /\ LastRow + Cols = Rows * Cols
    /\ \A k \in 0 .. Cols - 1 : LastRow + k \in Places
<1>1. Rows \in Nat \ {0} /\ Cols \in Nat \ {0} /\ Rows * Cols \in Nat
  BY ConsoleNumbers
<1>2. (Rows - 1) * Cols = Rows * Cols - Cols /\ (Rows - 1) * Cols >= 0 /\ (Rows - 1) * Cols \in Int
  BY <1>1, RowPlaces
<1>. QED
  BY <1>1, <1>2 DEF LastRow, Places

\* The comparison of the cursor's row with the height of the screen.
LEMMA MainCheck ==
    ASSUME IInv, main_check
    PROVE  IInv' /\ Visible'
<1>1. screen' = screen /\ screen \in Screens /\ Rows \in Nat \ {0} /\ screen.row \in Int
  BY ConsoleNumbers DEF main_check, IInv, Typed, Screens
<1>2. PICK next : next = IF screen.row >= Rows THEN "scroll" ELSE "print"
  OBVIOUS
<1>3. MainAt("check", next, 0) /\ next \in MainPlaces
  BY <1>2 DEF main_check, MainPlaces
<1>4. ~Booted /\ main.at = "check"
  BY <1>3 DEF MainAt
<1>5. ASSUME raced = 0 PROVE BootAt(screen', next, Printed, 0)
  <2>1. BootAt(screen, "check", Printed, main.local)
    BY <1>4, <1>5 DEF IInv, BootPrompt
  <2>2. CASE Printed = 0
    <3>1. next = "scroll" /\ ~screen.stray /\ screen.row = Rows /\ screen.col = 0
      BY <1>1, <1>2, <2>1, <2>2 DEF BootAt
    <3>. QED
      BY <1>1, <2>2, <3>1 DEF BootAt
  <2>3. CASE Printed # 0
    <3>1. ~screen.stray /\ PromptRow(screen, "check", Printed)
      BY <2>1, <2>3 DEF BootAt
    <3>2. next = "print"
      BY <1>1, <1>2, <3>1 DEF PromptRow
    <3>3. PromptRow(screen, "print", Printed)
      BY <3>1 DEF PromptRow, Done
    <3>. QED
      BY <1>1, <2>3, <3>1, <3>2, <3>3 DEF BootAt
  <2>. QED
    BY <2>2, <2>3
<1>6. 0 \in Int /\ 0 \in 0 .. Rows - 1 /\ screen' \in Screens
  BY <1>1
<1>. QED
  BY <1>3, <1>5, <1>6, MainMoves

\* One row of the scroll; the last round blanks the bottom row.
LEMMA MainScroll ==
    ASSUME IInv, main_scroll
    PROVE  IInv' /\ Visible'
<1>. DEFINE row == main.local
            last == ~(row < Rows - 1)
            s == screen'
<1>1. /\ screen \in Screens /\ Rows \in Nat \ {0} /\ Cols \in Nat \ {0} /\ Rows * Cols \in Nat
  BY ConsoleNumbers DEF IInv, Typed
<1>2. PICK next, local : /\ next = IF row < Rows - 1 THEN "scroll" ELSE "home"
                         /\ local = IF row < Rows - 1 THEN row + 1 ELSE 0
  OBVIOUS
<1>3. MainAt("scroll", next, local) /\ next \in MainPlaces
  BY <1>2 DEF main_scroll, MainPlaces
<1>4. ~Booted /\ main.at = "scroll"
  BY <1>3 DEF MainAt
<1>5. row \in 0 .. Rows - 1
  BY <1>4 DEF IInv, Typed
<1>6. local \in Int /\ (next = "scroll" => local \in 0 .. Rows - 1)
  BY <1>1, <1>2, <1>5
<1>. DEFINE after == [p \in Places |-> IF p \div Cols # row THEN screen.cells[p]
                                       ELSE IF row < Rows - 1 THEN screen.cells[p + Cols] ELSE Blank]
<1>7. s = [screen EXCEPT !.cells = after]
  <2>1. DOMAIN screen.cells = Places
    BY <1>1 DEF Screens
  <2>. QED
    BY <2>1 DEF main_scroll
<1>8. after \in [Places -> Glyph]
  <2>1. screen.cells \in [Places -> Glyph]
    BY <1>1 DEF Screens
  <2>. SUFFICES ASSUME NEW p \in Places
                PROVE  (IF p \div Cols # row THEN screen.cells[p]
                        ELSE IF row < Rows - 1 THEN screen.cells[p + Cols] ELSE Blank) \in Glyph
    OBVIOUS
  <2>2. ASSUME p \div Cols = row, row < Rows - 1 PROVE p + Cols \in Places
    <3>1. p \in Nat
      BY <1>1 DEF Places
    <3>2. PICK q \in Nat, r \in 0 .. Cols - 1 : q = p \div Cols /\ p = r + Cols * q
      BY <1>1, <3>1, Division
    <3>3. q <= Rows - 2
      BY <1>1, <1>5, <2>2, <3>2
    <3>4. Cols * q <= Cols * (Rows - 2)
      BY <1>1, <3>3, ProductMonotone
    <3>5. Cols * (Rows - 2) = Rows * Cols - 2 * Cols
      BY <1>1
    <3>6. PICK w \in Int, z \in Nat : w = Cols * q /\ z = Rows * Cols
      BY <1>1, <3>2
    <3>7. p + Cols = r + w + Cols /\ w <= z - 2 * Cols
      BY <1>1, <3>2, <3>4, <3>5, <3>6
    <3>. QED
      BY <1>1, <3>1, <3>6, <3>7 DEF Places
  <2>. QED
    BY <2>1, <2>2, PlainGlyphs
<1>9. \A q \in Places : ~(row < Rows - 1) /\ q \div Cols = row => after[q] = Blank
  OBVIOUS
<1>. HIDE DEF after, s
<1>10. /\ s \in Screens /\ s.row = screen.row /\ s.col = screen.col /\ s.stray = screen.stray
       /\ s.cells = after
  BY <1>1, <1>7, <1>8 DEF Screens
<1>11. ASSUME raced = 0 PROVE BootAt(s, next, Printed, local)
  <2>1. BootAt(screen, "scroll", Printed, main.local)
    BY <1>4, <1>11 DEF IInv, BootPrompt
  <2>2. Printed = 0 /\ ~s.stray /\ s.row = Rows /\ s.col = 0
    BY <1>10, <2>1 DEF BootAt
  <2>3. ASSUME next = "home" PROVE RowBlankFrom(s, 0)
    <3>1. ~(row < Rows - 1) /\ row = Rows - 1
      BY <1>1, <1>2, <1>5, <2>3
    <3>2. ASSUME NEW q \in Places, q >= LastRow + 0 PROVE s.cells[q] = Blank
      <4>1. q \in Nat /\ LastRow \in Nat /\ LastRow + Cols = Rows * Cols
        BY <1>1, LastPlaces DEF Places
      <4>2. PICK r \in Int : r = q - LastRow
        BY <4>1
      <4>3. r \in 0 .. Cols - 1
        BY <1>1, <3>2, <4>1, <4>2 DEF Places
      <4>4. PICK k \in Nat : k = Rows - 1
        BY <1>1
      <4>5. LastRow = Cols * k
        BY <1>1, <4>4 DEF LastRow
      <4>6. q = r + Cols * k
        BY <4>1, <4>2, <4>5
      <4>7. q \div Cols = k
        BY <1>1, <4>1, <4>3, <4>6, QuotientUnique
      <4>. QED
        BY <1>9, <1>10, <3>1, <4>4, <4>7
    <3>. QED
      BY <3>2 DEF RowBlankFrom
  <2>4. next = "scroll" \/ next = "home"
    BY <1>2
  <2>. QED
    BY <2>2, <2>3, <2>4 DEF BootAt
<1>12. screen' \in Screens /\ (raced = 0 => BootAt(screen', next, Printed, local))
  BY <1>10, <1>11 DEF s
<1>. QED
  BY <1>3, <1>6, <1>12, MainMoves

\* The cursor goes to the start of the last row, which the scroll has blanked.
LEMMA MainHome ==
    ASSUME IInv, main_home
    PROVE  IInv' /\ Visible'
<1>. DEFINE s == screen'
<1>1. MainAt("home", "print", 0) /\ s = [screen EXCEPT !.row = Rows - 1, !.col = 0]
  BY DEF main_home
<1>2. screen \in Screens /\ Rows \in Nat \ {0}
  BY ConsoleNumbers DEF IInv, Typed
<1>3. ~Booted /\ main.at = "home"
  BY <1>1 DEF MainAt
<1>. HIDE DEF s
<1>4. PICK a \in Int, b \in Int : a = Rows - 1 /\ b = 0
  BY <1>2
<1>5. s = [screen EXCEPT !.row = a, !.col = b]
  BY <1>1, <1>4
<1>6. s = [row |-> a, col |-> b, stray |-> screen.stray, cells |-> screen.cells]
  BY <1>2, <1>5 DEF Screens
<1>7. s \in Screens /\ s.row = Rows - 1 /\ s.col = 0 /\ s.stray = screen.stray
      /\ s.cells = screen.cells
  BY <1>2, <1>4, <1>6 DEF Screens
<1>8. ASSUME raced = 0 PROVE BootAt(s, "print", Printed, 0)
  <2>1. BootAt(screen, "home", Printed, main.local)
    BY <1>3, <1>8 DEF IInv, BootPrompt
  <2>2. Printed = 0 /\ ~screen.stray /\ RowBlankFrom(screen, 0)
    BY <2>1 DEF BootAt
  <2>3. RowBlankFrom(s, 0)
    BY <1>7, <2>2 DEF RowBlankFrom
  <2>4. PromptRow(s, "print", 0)
    BY <1>7, <2>3 DEF PromptRow, Done
  <2>. QED
    BY <1>7, <2>2, <2>4 DEF BootAt
<1>9. screen' \in Screens /\ (raced = 0 => BootAt(screen', "print", Printed, 0))
  BY <1>7, <1>8 DEF s
<1>10. "print" \in MainPlaces /\ 0 \in Int /\ "print" # "scroll"
  BY DEF MainPlaces
<1>. QED
  BY <1>1, <1>9, <1>10, MainMoves

\* The position is computed from the cursor.
LEMMA MainPosition ==
    ASSUME IInv, main_position
    PROVE  IInv' /\ Visible'
<1>1. MainAt("print", "put", Position(screen)) /\ screen' = screen
  BY DEF main_position
<1>2. screen \in Screens
  BY DEF IInv, Typed
<1>3. ~Booted /\ main.at = "print"
  BY <1>1 DEF MainAt
<1>4. PICK p \in Int : p = Position(screen)
  BY <1>2, OnePlace
<1>5. ASSUME raced = 0 PROVE BootAt(screen, "put", Printed, p)
  <2>1. BootAt(screen, "print", Printed, main.local)
    BY <1>3, <1>5 DEF IInv, BootPrompt
  <2>2. ~screen.stray /\ PromptRow(screen, "print", Printed)
    BY <2>1 DEF BootAt
  <2>3. screen.row = Rows - 1 /\ screen.col = Printed
    BY <2>2 DEF PromptRow
  <2>4. p = LastRow + Printed
    BY <1>4, <2>3 DEF Position, LastRow
  <2>5. PromptRow(screen, "put", Printed)
    BY <2>2 DEF PromptRow, Done
  <2>. QED
    BY <2>2, <2>4, <2>5 DEF BootAt
<1>6. MainAt("print", "put", p) /\ screen' \in Screens
      /\ (raced = 0 => BootAt(screen', "put", Printed, p))
  BY <1>1, <1>2, <1>4, <1>5
<1>7. "put" \in MainPlaces /\ "put" # "scroll"
  BY DEF MainPlaces
<1>. QED
  BY <1>4, <1>6, <1>7, MainMoves

\* The glyph is written to its place.
LEMMA MainPut ==
    ASSUME IInv, main_put
    PROVE  IInv' /\ Visible'
<1>. DEFINE s == screen'
            c == main.left[1]
            p == main.local
            k == Printed
<1>1. MainAt("put", "load", 0) /\ s = PutCell(screen, p, Head(main.left))
  BY DEF main_put
<1>2. screen \in Screens /\ p \in Int
  BY DEF IInv, Typed
<1>3. ~Booted /\ main.at = "put"
  BY <1>1 DEF MainAt
<1>4. /\ k \in 0 .. Len(Prompt) - 1 /\ c = Prompt[k + 1] /\ c \in Glyph
      /\ main.left \in Seq(Glyph \ {Newline}) /\ Len(main.left) \in Nat \ {0}
  BY <1>3, NextGlyph
<1>5. Head(main.left) = c
  BY <1>4
<1>. HIDE DEF s, c, p, k
<1>6. s = PutCell(screen, p, c)
  BY <1>1, <1>5
<1>7. /\ s \in Screens /\ s.row = screen.row /\ s.col = screen.col
      /\ \A q \in Places : s.cells[q] = IF q = p THEN c ELSE screen.cells[q]
      /\ p \in Places => s.stray = screen.stray
  BY <1>2, <1>4, <1>6, PutFields
<1>8. ASSUME raced = 0 PROVE BootAt(s, "load", k, 0)
  <2>1. BootAt(screen, "put", k, p)
    BY <1>3, <1>8 DEF IInv, BootPrompt, k, p
  <2>2. ~screen.stray /\ PromptRow(screen, "put", k) /\ p = LastRow + k
    BY <2>1 DEF BootAt
  <2>3. /\ screen.row = Rows - 1 /\ screen.col = k
        /\ \A i \in 1 .. k : screen.cells[LastRow + i - 1] = Prompt[i]
        /\ \A q \in Places : q >= LastRow + k => screen.cells[q] = Blank
    BY <2>2 DEF PromptRow, Done, RowBlankFrom
  <2>4. Len(Prompt) \in Nat /\ Len(Prompt) < Cols /\ Cols \in Nat
    BY ConsoleNumbers
  <2>5. k \in 0 .. Cols - 1
    BY <1>4, <2>4
  <2>6. p \in Places
    BY <2>2, <2>5, LastPlaces
  <2>7. ASSUME NEW i \in 1 .. k + 1 PROVE s.cells[LastRow + i - 1] = Prompt[i]
    <3>1. i - 1 \in 0 .. Cols - 1 /\ LastRow + i - 1 = LastRow + (i - 1) /\ LastRow \in Nat
      <4>1. i - 1 \in 0 .. Cols - 1
        BY <2>4, <2>5
      <4>2. LastRow \in Nat
        BY LastPlaces
      <4>. QED
        BY <4>1, <4>2
    <3>2. PICK q \in Int : q = LastRow + i - 1
      BY <3>1
    <3>3. q \in Places
      BY <3>1, <3>2, LastPlaces
    <3>4. CASE i = k + 1
      <4>1. q = p
        BY <2>2, <2>5, <3>1, <3>2, <3>4
      <4>2. s.cells[q] = c
        BY <1>7, <3>3, <4>1
      <4>. QED
        BY <1>4, <3>2, <3>4, <4>2
    <3>5. CASE i # k + 1
      <4>1. i \in 1 .. k /\ q # p
        BY <2>2, <2>5, <3>1, <3>2, <3>5
      <4>2. s.cells[q] = screen.cells[q]
        BY <1>7, <3>3, <4>1
      <4>. QED
        BY <2>3, <3>2, <4>1, <4>2
    <3>. QED
      BY <3>4, <3>5
  <2>8. ASSUME NEW q \in Places, q >= LastRow + (k + 1) PROVE s.cells[q] = Blank
    <3>1. q \in Int /\ LastRow \in Nat
      BY LastPlaces DEF Places
    <3>2. q >= LastRow + k /\ q # p
      BY <2>2, <2>5, <2>8, <3>1
    <3>. QED
      BY <1>7, <2>3, <3>2
  <2>9. Done("load", k) = k + 1
    BY DEF Done
  <2>10. PromptRow(s, "load", k)
    BY <1>7, <2>3, <2>7, <2>8, <2>9 DEF PromptRow, RowBlankFrom
  <2>. QED
    BY <1>7, <2>2, <2>6, <2>10 DEF BootAt
<1>9. screen' \in Screens /\ (raced = 0 => BootAt(screen', "load", Printed, 0))
  BY <1>7, <1>8 DEF s, k
<1>10. "load" \in MainPlaces /\ 0 \in Int /\ "load" # "scroll"
  BY DEF MainPlaces
<1>. QED
  BY <1>1, <1>9, <1>10, MainMoves

\* cursor_col++ reads the column.
LEMMA MainLoad ==
    ASSUME IInv, main_load
    PROVE  IInv' /\ Visible'
<1>1. MainAt("load", "store", screen.col) /\ screen' = screen
  BY DEF main_load
<1>2. screen \in Screens
  BY DEF IInv, Typed
<1>3. ~Booted /\ main.at = "load"
  BY <1>1 DEF MainAt
<1>4. PICK p \in Int : p = screen.col
  BY <1>2 DEF Screens
<1>5. ASSUME raced = 0 PROVE BootAt(screen, "store", Printed, p)
  <2>1. BootAt(screen, "load", Printed, main.local)
    BY <1>3, <1>5 DEF IInv, BootPrompt
  <2>2. ~screen.stray /\ PromptRow(screen, "load", Printed)
    BY <2>1 DEF BootAt
  <2>3. p = Printed
    BY <1>4, <2>2 DEF PromptRow
  <2>4. PromptRow(screen, "store", Printed)
    BY <2>2 DEF PromptRow, Done
  <2>. QED
    BY <2>2, <2>3, <2>4 DEF BootAt
<1>6. MainAt("load", "store", p) /\ screen' \in Screens
      /\ (raced = 0 => BootAt(screen', "store", Printed, p))
  BY <1>1, <1>2, <1>4, <1>5
<1>7. "store" \in MainPlaces /\ "store" # "scroll"
  BY DEF MainPlaces
<1>. QED
  BY <1>4, <1>6, <1>7, MainMoves

\* cursor_col++ writes the column back.
LEMMA MainStore ==
    ASSUME IInv, main_store
    PROVE  IInv' /\ Visible'
<1>. DEFINE s == screen'
<1>1. MainAt("store", "wrap", 0) /\ s = [screen EXCEPT !.col = main.local + 1]
  BY DEF main_store
<1>2. screen \in Screens /\ main.local \in Int
  BY DEF IInv, Typed
<1>3. ~Booted /\ main.at = "store"
  BY <1>1 DEF MainAt
<1>. HIDE DEF s
<1>4. PICK b \in Int : b = main.local + 1
  BY <1>2
<1>5. s = [screen EXCEPT !.col = b]
  BY <1>1, <1>4
<1>6. s \in Screens /\ s.row = screen.row /\ s.col = b /\ s.stray = screen.stray
      /\ s.cells = screen.cells
  BY <1>2, <1>4, <1>5 DEF Screens
<1>7. ASSUME raced = 0 PROVE BootAt(s, "wrap", Printed, 0)
  <2>1. BootAt(screen, "store", Printed, main.local)
    BY <1>3, <1>7 DEF IInv, BootPrompt
  <2>2. ~screen.stray /\ PromptRow(screen, "store", Printed) /\ main.local = Printed
    BY <2>1 DEF BootAt
  <2>3. /\ screen.row = Rows - 1
        /\ \A i \in 1 .. Printed + 1 : screen.cells[LastRow + i - 1] = Prompt[i]
        /\ \A q \in Places : q >= LastRow + (Printed + 1) => screen.cells[q] = Blank
    BY <2>2 DEF PromptRow, Done, RowBlankFrom
  <2>4. PromptRow(s, "wrap", Printed)
    BY <1>4, <1>6, <2>2, <2>3 DEF PromptRow, Done, RowBlankFrom
  <2>. QED
    BY <1>6, <2>2, <2>4 DEF BootAt
<1>8. screen' \in Screens /\ (raced = 0 => BootAt(screen', "wrap", Printed, 0))
  BY <1>6, <1>7 DEF s
<1>9. "wrap" \in MainPlaces /\ 0 \in Int /\ "wrap" # "scroll"
  BY DEF MainPlaces
<1>. QED
  BY <1>1, <1>8, <1>9, MainMoves

\* The boot prompt is complete: what its last step leaves.
LEMMA BootDone ==
    ASSUME NEW s \in Screens, NEW n, n = Len(Prompt), s.row = Rows - 1, s.col = n,
           \A i \in 1 .. n : s.cells[LastRow + i - 1] = Prompt[i], RowBlankFrom(s, n)
    PROVE  ColumnAt(s, 0) /\ ClearAfter(s) /\ ClearFrom(s) /\ ShownTo(s, Prompt, n)
<1>1. /\ Rows \in Nat \ {0} /\ Cols \in Nat \ {0} /\ LeftEnd = n /\ n \in Nat /\ n < Cols
  BY ConsoleNumbers
<1>2. LastRow \in Nat /\ \A k \in 0 .. Cols - 1 : LastRow + k \in Places
  BY LastPlaces
<1>3. Position(s) = LastRow + n
  BY DEF Position, LastRow
<1>4. ColumnAt(s, 0)
  <2>1. LeftEnd + 0 = 0 * Cols + s.col
    BY <1>1
  <2>. QED
    BY <1>1, <2>1 DEF ColumnAt
<1>5. ClearFrom(s)
  BY <1>3 DEF ClearFrom, RowBlankFrom
<1>6. ClearAfter(s)
  <2>1. ASSUME NEW q \in Places, q > LastRow + n PROVE q >= LastRow + n
    BY <1>1, <1>2, <2>1 DEF Places
  <2>. QED
    BY <1>1, <1>3, <2>1 DEF ClearAfter, RowBlankFrom
<1>7. ASSUME NEW i \in 1 .. n
      PROVE  /\ Position(s) - n + i - 1 \in Places
             /\ s.cells[Position(s) - n + i - 1] = Prompt[i]
  <2>1. PICK b \in Nat, p \in Int : b = LastRow /\ p = Position(s) /\ p = b + n
    BY <1>1, <1>2, <1>3
  <2>2. p - n + i - 1 = b + i - 1
    BY <1>1, <2>1
  <2>3. i - 1 \in 0 .. Cols - 1 /\ b + i - 1 = b + (i - 1)
    BY <1>1, <2>1
  <2>4. LastRow + i - 1 \in Places
    BY <1>2, <2>1, <2>3
  <2>5. Position(s) - n + i - 1 = LastRow + i - 1
    BY <2>1, <2>2
  <2>. QED
    BY <2>4, <2>5
<1>. QED
  BY <1>4, <1>5, <1>6, <1>7 DEF ShownTo

\* The glyph is done: the column is compared with the width, and kprintf goes
\* on to the next one.
LEMMA MainWrap ==
    ASSUME IInv, main_wrap
    PROVE  IInv' /\ Visible'
<1>. DEFINE s == screen'
            l == main.left
            k == Printed
            t == Tail(l)
<1>1. /\ ~Booted /\ main.at = "wrap"
      /\ s = IF screen.col >= Cols THEN [screen EXCEPT !.row = @ + 1, !.col = 0] ELSE screen
      /\ main' = [at |-> "check", left |-> t, local |-> 0]
      /\ line' = line /\ left_shift' = left_shift /\ right_shift' = right_shift
      /\ raced' = raced /\ clean' = clean /\ fresh' = fresh
  BY DEF main_wrap, ghosts
<1>2. /\ Typed /\ screen \in Screens /\ line \in Seq(Letters) /\ Len(l) <= Len(Prompt)
      /\ \A i \in 1 .. Len(l) : l[i] = Prompt[Len(Prompt) - Len(l) + i]
  BY DEF IInv, Typed
<1>3. /\ k \in 0 .. Len(Prompt) - 1 /\ Len(l) \in Nat \ {0} /\ l \in Seq(Glyph \ {Newline})
  BY <1>1, NextGlyph
<1>4. /\ Cols \in Nat \ {0} /\ Rows \in Nat \ {0} /\ Len(Prompt) \in Nat \ {0}
      /\ Len(Prompt) < Cols
  BY ConsoleNumbers
<1>5. k = Len(Prompt) - Len(l)
  BY DEF Printed
<1>6. l # <<>>
  BY <1>1 DEF Booted
<1>. HIDE DEF s, k, l
<1>7. t \in Seq(Glyph \ {Newline}) /\ Len(t) = Len(l) - 1
      /\ \A i \in 1 .. Len(t) : t[i] = l[i + 1]
  BY <1>3, <1>6
<1>. HIDE DEF t
<1>8. main'.at = "check" /\ main'.left = t /\ main'.local = 0
  BY <1>1
<1>9. s \in Screens
  <2>1. PICK a \in Int, b \in Int : a = screen.row + 1 /\ b = 0
    BY <1>2 DEF Screens
  <2>2. CASE screen.col >= Cols
    <3>1. s = [screen EXCEPT !.row = a, !.col = b]
      BY <1>1, <2>1, <2>2
    <3>2. s = [row |-> a, col |-> b, stray |-> screen.stray, cells |-> screen.cells]
      BY <1>2, <3>1 DEF Screens
    <3>. QED
      BY <1>2, <2>1, <3>2 DEF Screens
  <2>3. CASE ~(screen.col >= Cols)
    BY <1>1, <1>2, <2>3
  <2>. QED
    BY <2>2, <2>3
<1>10. PICK n \in Nat \ {0}, m \in Nat \ {0} : n = Len(l) /\ m = Len(Prompt)
  BY <1>3, <1>4
<1>11. Len(t) = n - 1 /\ n - 1 \in Nat /\ n - 1 <= m /\ k = m - n /\ m - (n - 1) = k + 1
  BY <1>2, <1>5, <1>7, <1>10
<1>12. ASSUME NEW i \in 1 .. n - 1 PROVE t[i] = Prompt[m - (n - 1) + i]
  <2>1. i + 1 \in 1 .. n
    BY <1>10
  <2>2. m - n + (i + 1) = m - (n - 1) + i
    BY <1>10
  <2>3. l[i + 1] = Prompt[m - n + (i + 1)]
    BY <1>2, <1>10, <2>1
  <2>. QED
    BY <1>7, <1>11, <2>2, <2>3
<1>13. Typed'
  <2>1. main' \in [at : MainPlaces, left : Seq(Glyph \ {Newline}), local : Int]
    <3>1. "check" \in MainPlaces
      BY DEF MainPlaces
    <3>. QED
      BY <1>1, <1>7, <3>1
  <2>2. /\ Len(main'.left) <= Len(Prompt)
        /\ \A i \in 1 .. Len(main'.left) :
              main'.left[i] = Prompt[Len(Prompt) - Len(main'.left) + i]
    BY <1>8, <1>10, <1>11, <1>12
  <2>3. screen' \in Screens /\ main'.at # "scroll"
    BY <1>8, <1>9 DEF s
  <2>. QED
    BY <1>1, <1>2, <2>1, <2>2, <2>3 DEF Typed
<1>14. Ghosts'
  BY <1>1 DEF IInv, Ghosts
<1>15. ASSUME raced = 0
       PROVE  /\ s = screen /\ ~s.stray /\ s.row = Rows - 1 /\ s.col = k + 1
              /\ \A i \in 1 .. k + 1 : s.cells[LastRow + i - 1] = Prompt[i]
              /\ RowBlankFrom(s, k + 1)
  <2>1. BootAt(screen, "wrap", k, main.local)
    BY <1>1, <1>15 DEF IInv, BootPrompt, k
  <2>2. ~screen.stray /\ PromptRow(screen, "wrap", k)
    BY <2>1 DEF BootAt
  <2>3. /\ screen.row = Rows - 1 /\ screen.col = k + 1
        /\ \A i \in 1 .. k + 1 : screen.cells[LastRow + i - 1] = Prompt[i]
        /\ RowBlankFrom(screen, k + 1)
    BY <2>2 DEF PromptRow, Done
  <2>4. ~(screen.col >= Cols)
    BY <1>3, <1>4, <2>3
  <2>. QED
    BY <1>1, <2>2, <2>3, <2>4
<1>16. Booted' <=> n = 1
  <2>1. Booted' <=> t = <<>>
    BY <1>8 DEF Booted
  <2>2. t = <<>> <=> Len(t) = 0
    BY <1>7, EmptySeq
  <2>. QED
    BY <1>10, <1>11, <2>1, <2>2
<1>17. ASSUME raced = 0, ~Booted' PROVE BootPrompt'
  <2>1. Printed' = k + 1
    <3>1. Printed' = Len(Prompt) - Len(main'.left)
      BY DEF Printed
    <3>. QED
      BY <1>8, <1>10, <1>11, <3>1
  <2>2. PromptRow(s, "check", k + 1)
    BY <1>15, <1>17 DEF PromptRow, Done
  <2>3. k + 1 # 0
    BY <1>3, <1>4
  <2>4. BootAt(s, "check", k + 1, 0)
    BY <1>15, <1>17, <2>2, <2>3 DEF BootAt
  <2>5. BootPrompt' = BootAt(s, "check", k + 1, 0)
    BY <1>8, <2>1 DEF BootPrompt, BootAt, PromptRow, RowBlankFrom, s
  <2>. QED
    BY <2>4, <2>5
<1>18. ASSUME Booted' PROVE Running' /\ Visible'
  <2>1. Running' =
           (/\ clean' => s.row >= 0 /\ ~s.stray
            /\ fresh' => ColumnAt(s, Len(line'))
            /\ raced' = 0 => ClearAfter(s)
            /\ raced' = 0 /\ fresh' => ClearFrom(s))
    BY DEF Running, ClearAfter, ClearFrom, ColumnAt, Position, s
  <2>2. Visible' = (Booted' /\ fresh' =>
           s.row >= 0 /\ ShownTo(s, Prompt \o line', Len(Prompt) + Len(line')))
    BY DEF Visible, ShownTo, Position, s
  <2>3. CASE raced # 0
    <3>1. ~fresh /\ ~clean
      BY <1>1, <2>3 DEF IInv, Ghosts
    <3>. QED
      BY <1>1, <2>1, <2>2, <2>3, <3>1
  <2>4. CASE raced = 0
    <3>1. line = <<>>
      BY <1>1, <2>4 DEF IInv, Ghosts
    <3>2. k + 1 = m
      <4>1. n = 1
        BY <1>16, <1>18
      <4>. QED
        BY <1>10, <1>11, <4>1
    <3>3. /\ ~s.stray /\ s.row = Rows - 1 /\ s.col = m
          /\ \A i \in 1 .. m : s.cells[LastRow + i - 1] = Prompt[i]
          /\ RowBlankFrom(s, m)
      BY <1>15, <2>4, <3>2
    <3>4. ColumnAt(s, 0) /\ ClearAfter(s) /\ ClearFrom(s) /\ ShownTo(s, Prompt, m)
      BY <1>9, <1>10, <3>3, BootDone
    <3>5. s.row >= 0
      BY <1>4, <3>3
    <3>6. PICK e : e = line'
      OBVIOUS
    <3>7. e = <<>> /\ Len(e) = 0
      BY <1>1, <3>1, <3>6
    <3>8. Prompt \o e = Prompt /\ Len(Prompt) + Len(e) = m
      BY <1>10, <3>7, ConsoleNumbers
    <3>. QED
      BY <2>1, <2>2, <3>3, <3>4, <3>5, <3>6, <3>7, <3>8
  <2>. QED
    BY <2>3, <2>4
<1>19. ~Booted' => Visible'
  BY DEF Visible
<1>. QED
  BY <1>1, <1>13, <1>14, <1>17, <1>18, <1>19 DEF IInv

\* Any step of kernel_main.
LEMMA MainStep ==
    ASSUME IInv, kernel_main
    PROVE  IInv' /\ Visible'
BY MainCheck, MainScroll, MainHome, MainPosition, MainPut, MainLoad, MainStore, MainWrap
   DEF kernel_main

-----------------------------------------------------------------------------
(* The theorems. *)

\* The boot text fills the screen and nothing of the prompt is printed.
LEMMA InitInv == Init => IInv /\ Visible
<1>. SUFFICES ASSUME Init PROVE IInv /\ Visible
  OBVIOUS
<1>1. /\ Rows \in Nat \ {0} /\ Len(Prompt) \in Nat \ {0} /\ Prompt \in Seq(Glyph \ {Newline})
      /\ BufSize \in Nat
  BY ConsoleNumbers
<1>. DEFINE boot == [p \in Places |-> "out"]
<1>2. boot \in [Places -> Glyph]
  BY PlainGlyphs
<1>3. screen = [row |-> Rows, col |-> 0, stray |-> FALSE, cells |-> boot]
  BY DEF Init, Places
<1>. HIDE DEF boot
<1>4. screen \in Screens /\ screen.row = Rows /\ screen.col = 0 /\ ~screen.stray
  BY <1>1, <1>2, <1>3 DEF Screens
<1>5. main = [at |-> "check", left |-> Prompt, local |-> 0]
  BY DEF Init
<1>6. main.at = "check" /\ main.left = Prompt /\ main.local = 0
  BY <1>5
<1>7. main \in [at : MainPlaces, left : Seq(Glyph \ {Newline}), local : Int]
  BY <1>1, <1>5 DEF MainPlaces
<1>8. ~Booted
  <2>1. Prompt # <<>>
    BY ConsoleAssumption
  <2>. QED
    BY <1>6, <2>1 DEF Booted
<1>9. Printed = 0
  BY <1>1, <1>6 DEF Printed
<1>10. line = <<>> /\ Len(line) = 0 /\ raced = 0 /\ clean = TRUE /\ fresh = TRUE
       /\ left_shift = FALSE /\ right_shift = FALSE
  BY DEF Init
<1>11. \A i \in 1 .. Len(main.left) :
          main.left[i] = Prompt[Len(Prompt) - Len(main.left) + i]
  <2>1. \A i \in 1 .. Len(Prompt) : Len(Prompt) - Len(Prompt) + i = i
    BY <1>1
  <2>. QED
    BY <1>6, <2>1
<1>12. Typed
  <2>1. line \in Seq(Letters) /\ Len(line) <= BufSize
    BY <1>1, <1>10
  <2>2. Len(main.left) <= Len(Prompt)
    BY <1>1, <1>6
  <2>. QED
    BY <1>4, <1>6, <1>7, <1>10, <1>11, <2>1, <2>2 DEF Typed
<1>13. Ghosts
  BY <1>8, <1>10 DEF Ghosts
<1>14. BootPrompt
  BY <1>4, <1>6, <1>9 DEF BootPrompt, BootAt
<1>. QED
  BY <1>8, <1>12, <1>13, <1>14 DEF IInv, Visible

\* A step that changes nothing.
LEMMA Stuttering ==
    ASSUME UNCHANGED vars
    PROVE  (IInv => IInv') /\ (Visible => Visible')
<1>1. /\ screen' = screen /\ line' = line /\ left_shift' = left_shift
      /\ right_shift' = right_shift /\ main' = main /\ raced' = raced
      /\ clean' = clean /\ fresh' = fresh
  BY DEF vars
<1>2. (Typed <=> Typed') /\ (Ghosts <=> Ghosts') /\ (Booted <=> Booted')
  BY <1>1 DEF Typed, Ghosts, Booted
<1>3. BootPrompt <=> BootPrompt'
  BY <1>1 DEF BootPrompt, BootAt, PromptRow, RowBlankFrom, Printed
<1>4. Running <=> Running'
  BY <1>1 DEF Running, ClearAfter, ClearFrom, ColumnAt, Position
<1>5. Visible <=> Visible'
  BY <1>1, <1>2 DEF Visible, ShownTo, Position
<1>. QED
  BY <1>1, <1>2, <1>3, <1>4, <1>5 DEF IInv

\* Every step keeps the invariant.
LEMMA NextInv ==
    ASSUME OutputsEndLines, IInv, [kernel_main \/ keyboard_interrupt_handler]_vars
    PROVE  IInv'
<1>1. CASE kernel_main
  BY <1>1, MainStep
<1>2. CASE keyboard_interrupt_handler
  BY <1>2, ShiftKey, EnterKey, EraseKey, LetterKey DEF keyboard_interrupt_handler
<1>3. CASE UNCHANGED vars
  BY <1>3, Stuttering
<1>. QED
  BY <1>1, <1>2, <1>3

\* Every step keeps the line visible.
LEMMA NextVisible ==
    ASSUME OutputsEndLines, LineFits, NearScreen, IInv, Visible,
           [kernel_main \/ keyboard_interrupt_handler]_vars
    PROVE  Visible'
<1>1. CASE kernel_main
  BY <1>1, MainStep
<1>2. CASE keyboard_interrupt_handler
  BY <1>2, ShiftKey, EnterKey, EraseKey, LetterKey DEF keyboard_interrupt_handler
<1>3. CASE UNCHANGED vars
  BY <1>3, Stuttering
<1>. QED
  BY <1>1, <1>2, <1>3

\* The inductive invariant holds in every reachable state of the console.
THEOREM Invariance ==
    ASSUME OutputsEndLines
    PROVE  Spec => []IInv
<1>1. Init => IInv
  BY InitInv
<1>2. IInv /\ [kernel_main \/ keyboard_interrupt_handler]_vars => IInv'
  BY NextInv
<1>. QED
  BY <1>1, <1>2, PTL DEF Spec

\* TypeOK: until a key comes during the boot prompt or a Backspace hits the left
\* edge of a wrapped line, the cursor of vga.c is on the screen or at the start
\* of the row below it, and no character was written beside the screen.
THEOREM TypeCorrect ==
    ASSUME OutputsEndLines
    PROVE  Spec => []TypeOK
<1>1. ASSUME IInv PROVE TypeOK
  <2>1. /\ screen \in Screens /\ line \in Seq(Letters) /\ Len(line) <= BufSize
        /\ left_shift \in BOOLEAN /\ right_shift \in BOOLEAN
    BY <1>1 DEF IInv, Typed
  <2>2. screen.cells \in [0 .. Rows * Cols - 1 -> Glyph]
    BY <2>1 DEF Screens, Places
  <2>3. clean => fresh /\ raced = 0
    BY <1>1 DEF IInv, Ghosts
  <2>4. ASSUME clean, Booted PROVE OnScreen(screen) /\ ~screen.stray
    <3>1. ColumnAt(screen, Len(line)) /\ screen.row >= 0 /\ ~screen.stray
      BY <1>1, <2>3, <2>4 DEF IInv, Running
    <3>. QED
      BY <2>1, <3>1, ColumnOnScreen
  <2>5. ASSUME clean, ~Booted PROVE OnScreen(screen) /\ ~screen.stray
    <3>1. BootAt(screen, main.at, Printed, main.local)
      BY <1>1, <2>3, <2>5 DEF IInv, BootPrompt
    <3>2. /\ Rows \in Nat \ {0} /\ Cols \in Nat \ {0} /\ Len(Prompt) \in Nat
          /\ Len(Prompt) < Cols /\ Printed \in 0 .. Len(Prompt) - 1
      BY <1>1, <2>5, NextGlyph, ConsoleNumbers
    <3>3. ~screen.stray
      BY <3>1 DEF BootAt
    <3>4. CASE screen.row = Rows /\ screen.col = 0
      BY <3>2, <3>3, <3>4 DEF OnScreen
    <3>5. CASE ~(screen.row = Rows /\ screen.col = 0)
      <4>1. PromptRow(screen, main.at, Printed)
        BY <3>1, <3>5 DEF BootAt
      <4>2. screen.row = Rows - 1 /\ (screen.col = Printed \/ screen.col = Printed + 1)
        BY <4>1 DEF PromptRow
      <4>3. screen.col \in 0 .. Cols - 1
        BY <3>2, <4>2
      <4>. QED
        BY <3>2, <3>3, <4>2, <4>3 DEF OnScreen
    <3>. QED
      BY <3>4, <3>5
  <2>6. clean => OnScreen(screen) /\ ~screen.stray
    BY <2>4, <2>5
  <2>. QED
    BY <2>1, <2>2, <2>6 DEF TypeOK, OnScreen, buffer_pos
<1>2. IInv => TypeOK
  BY <1>1
<1>. QED
  BY <1>2, Invariance, PTL

\* NothingBehind: print_char, scroll and backspace of vga.c leave the row of the
\* cursor blank behind it, as long as no key came during the boot prompt.
THEOREM NothingBehindCursor ==
    ASSUME OutputsEndLines
    PROVE  Spec => []NothingBehind
<1>1. ASSUME IInv, Booted, fresh, raced = 0 PROVE ClearFrom(screen) /\ screen \in Screens
  BY <1>1 DEF IInv, Running, Typed
<1>2. ASSUME IInv, Booted, fresh, raced = 0,
             NEW p \in Position(screen) .. screen.row * Cols + Cols - 1,
             p \in DOMAIN screen.cells
      PROVE  screen.cells[p] = Blank
  <2>1. ClearFrom(screen) /\ screen \in Screens
    BY <1>1, <1>2
  <2>2. Position(screen) \in Int /\ p \in Places
    BY <1>2, <2>1, OnePlace DEF Screens
  <2>3. p >= Position(screen)
    BY <2>2
  <2>. QED
    BY <2>1, <2>2, <2>3 DEF ClearFrom
<1>3. IInv => NothingBehind
  BY <1>2 DEF NothingBehind
<1>. QED
  BY <1>3, Invariance, PTL

\* LeftEndKept: Backspace on an empty line leaves the prompt and the rest of the
\* screen as it is.
THEOREM LeftEndIsKept ==
    ASSUME OutputsEndLines
    PROVE  Spec => LeftEndKept
<1>1. IInv => [Booted /\ fresh /\ line = <<>> /\ erase_key => UNCHANGED screen]_vars
  BY EraseKey
<1>. QED
  BY <1>1, Invariance, PTL DEF LeftEndKept

\* LineShown: before the cursor stand the prompt and exactly the characters of
\* command_buffer that Enter would hand to process_input, when the line fits on
\* the screen and the cursor was never more than one row above it.
THEOREM LineIsShown ==
    ASSUME OutputsEndLines, LineFits
    PROVE  Spec /\ []NearScreen => []LineShown
<1>1. Init => IInv /\ Visible
  BY InitInv
<1>2. IInv /\ Visible /\ NearScreen /\ [kernel_main \/ keyboard_interrupt_handler]_vars
      => IInv' /\ Visible'
  BY NextInv, NextVisible
<1>3. ASSUME IInv, Visible, Booted, fresh
      PROVE  LET shown == Prompt \o line
                 start == Position(screen) - Len(shown)
             IN  \A i \in 1 .. Len(shown) :
                     /\ start + i - 1 \in DOMAIN screen.cells
                     /\ screen.cells[start + i - 1] = shown[i]
  <2>1. screen \in Screens /\ line \in Seq(Letters)
    BY <1>3 DEF IInv, Typed
  <2>2. DOMAIN screen.cells = Places
    BY <2>1 DEF Screens
  <2>3. Len(Prompt \o line) = Len(Prompt) + Len(line)
    BY <2>1, ConsoleNumbers
  <2>4. ShownTo(screen, Prompt \o line, Len(Prompt \o line))
    BY <1>3, <2>3 DEF Visible
  <2>. QED
    BY <2>2, <2>4 DEF ShownTo
<1>4. IInv /\ Visible => LineShown
  BY <1>3 DEF LineShown
<1>. QED
  BY <1>1, <1>2, <1>4, PTL DEF Spec
=============================================================================
