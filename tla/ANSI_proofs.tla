----------------------------- MODULE ANSI_proofs -----------------------------
(***************************************************************************)
(* That the terminal emulator keeps its screen rectangular and its stack   *)
(* in order, for any size of the screen, any stream and any numbers in it, *)
(* as long as no program sets a scrolling region that ends at row 0.       *)
(***************************************************************************)
EXTENDS ANSI, SequenceTheorems, TLAPS

(***************************************************************************)
(* The screen.  A good screen has all its rows and a region that ends on   *)
(* one of them; every method leaves one behind and raises nothing.         *)
(***************************************************************************)
Good(s) ==
  s \in ScreenType /\ Len(s.w) = Rows /\ s.scroll_row_end >= 1 /\ s.raised = FALSE

(* The sizes are positive, as integers and as the provers want them.       *)
LEMMA Sizes == Rows \in Int /\ 1 <= Rows /\ Cols \in Int /\ 1 <= Cols
BY ScreenAssumption

LEMMA Constrained ==
  ASSUME NEW n \in Int, NEW lo \in Int, NEW hi \in Int, lo <= hi
  PROVE  constrain(n, lo, hi) \in lo .. hi
BY DEF constrain

(* Only the cursor moves, and it stays on the screen.                      *)
LEMMA CursorMoves ==
  ASSUME NEW s, Good(s), NEW r \in Int, NEW c \in Int
  PROVE  /\ Good(cursor_home(s, r, c))
         /\ cursor_home(s, r, c).w = s.w
         /\ cursor_home(s, r, c).cur_r = constrain(r, 1, Rows)
         /\ cursor_home(s, r, c).scroll_row_start = s.scroll_row_start
         /\ cursor_home(s, r, c).scroll_row_end = s.scroll_row_end
<1> USE Sizes
<1>1. constrain(r, 1, Rows) \in 1 .. Rows /\ constrain(c, 1, Cols) \in 1 .. Cols
  BY Constrained
<1>2. cursor_home(s, r, c) = [s EXCEPT !.cur_r = constrain(r, 1, Rows),
                                       !.cur_c = constrain(c, 1, Cols)]
  BY DEF cursor_home, cursor_constrain, Good, ScreenType
<1> QED
  BY <1>1, <1>2 DEF Good, ScreenType

LEMMA CursorSteps ==
  ASSUME NEW s, Good(s), NEW n \in Nat
  PROVE  /\ Good(cursor_back(s, n)) /\ cursor_back(s, n) = cursor_home(s, s.cur_r, s.cur_c - n)
         /\ Good(cursor_forward(s, n)) /\ cursor_forward(s, n) = cursor_home(s, s.cur_r, s.cur_c + n)
         /\ Good(cursor_up(s, n)) /\ cursor_up(s, n) = cursor_home(s, s.cur_r - n, s.cur_c)
         /\ Good(cursor_down(s, n)) /\ cursor_down(s, n) = cursor_home(s, s.cur_r + n, s.cur_c)
<1> USE Sizes
<1>0. s.cur_r \in Int /\ s.cur_c \in Int
  BY DEF Good, ScreenType
<1>1. cursor_back(s, n) = cursor_home(s, s.cur_r, s.cur_c - n)
  BY <1>0 DEF cursor_back, cursor_home, cursor_constrain, Good, ScreenType
<1>2. cursor_forward(s, n) = cursor_home(s, s.cur_r, s.cur_c + n)
  BY <1>0 DEF cursor_forward, cursor_home, cursor_constrain, Good, ScreenType
<1>3. cursor_up(s, n) = cursor_home(s, s.cur_r - n, s.cur_c)
  BY <1>0 DEF cursor_up, cursor_home, cursor_constrain, Good, ScreenType
<1>4. cursor_down(s, n) = cursor_home(s, s.cur_r + n, s.cur_c)
  BY <1>0 DEF cursor_down, cursor_home, cursor_constrain, Good, ScreenType
<1> QED
  BY <1>0, <1>1, <1>2, <1>3, <1>4, CursorMoves

LEMMA Saved ==
  ASSUME NEW s, Good(s)
  PROVE  Good(cursor_save_attrs(s)) /\ Good(cursor_restore_attrs(s))
<1>1. Good(cursor_save_attrs(s))
  BY DEF cursor_save_attrs, Good, ScreenType
<1>2. s.cur_saved_r \in Int /\ s.cur_saved_c \in Int
  BY Sizes DEF Good, ScreenType
<1> QED
  BY <1>1, <1>2, CursorMoves DEF cursor_restore_attrs

(* A character is written, on the row it is meant for.                     *)
LEMMA Put ==
  ASSUME NEW s, Good(s), NEW r \in 1 .. Rows, NEW c \in 1 .. Cols, NEW ch \in Chars
  PROVE  /\ Good(put_abs(s, r, c, ch))
         /\ \A k \in 1 .. Rows : k # r => put_abs(s, r, c, ch).w[k] = s.w[k]
         /\ put_abs(s, r, c, ch).cur_r = s.cur_r
         /\ put_abs(s, r, c, ch).cur_c = s.cur_c
         /\ put_abs(s, r, c, ch).scroll_row_start = s.scroll_row_start
         /\ put_abs(s, r, c, ch).scroll_row_end = s.scroll_row_end
<1> DEFINE line == [s.w[r] EXCEPT ![c] = ch]
           w == [s.w EXCEPT ![r] = line]
<1> USE Sizes
<1>1. s.w \in Seq(Line) /\ Len(s.w) = Rows
  BY DEF Good, ScreenType
<1>2. s.w[r] \in Line
  BY <1>1, ElementOfSeq
<1>3. line \in Line
  BY <1>2 DEF Line
<1>4. w \in Seq(Line) /\ Len(w) = Rows /\ \A k \in 1 .. Rows : k # r => w[k] = s.w[k]
  BY <1>1, <1>3, ExceptSeq
<1>5. put_abs(s, r, c, ch) = [s EXCEPT !.w = w]
  BY <1>1 DEF put_abs, Good, ScreenType
<1> HIDE DEF w
<1> QED
  BY <1>4, <1>5 DEF Good, ScreenType

LEMMA RowsAreSeq ==
  ASSUME NEW f \in [1 .. Rows -> Line]
  PROVE  f \in Seq(Line) /\ Len(f) = Rows
BY Sizes

(* Rows outside the region that is filled stay as they are.                *)
LEMMA Filled ==
  ASSUME NEW s, Good(s), NEW rs \in Int, NEW cs \in Int, NEW re \in Int, NEW ce \in Int
  PROVE  /\ Good(fill_region(s, rs, cs, re, ce))
         /\ rs = re /\ rs \in 1 .. Rows =>
              \A k \in 1 .. Rows : k # rs => fill_region(s, rs, cs, re, ce).w[k] = s.w[k]
         /\ fill_region(s, rs, cs, re, ce).cur_r = s.cur_r
         /\ fill_region(s, rs, cs, re, ce).cur_c = s.cur_c
         /\ fill_region(s, rs, cs, re, ce).scroll_row_start = s.scroll_row_start
         /\ fill_region(s, rs, cs, re, ce).scroll_row_end = s.scroll_row_end
<1> DEFINE r1 == constrain(rs, 1, Rows)
           r2 == constrain(re, 1, Rows)
           c1 == constrain(cs, 1, Cols)
           c2 == constrain(ce, 1, Cols)
           Within(i, a, b) == (a <= i /\ i <= b) \/ (b <= i /\ i <= a)
           Blanked(r) == [c \in 1 .. Cols |-> IF Within(c, c1, c2) THEN SPACE ELSE s.w[r][c]]
           w == [r \in DOMAIN s.w |-> IF Within(r, r1, r2) THEN Blanked(r) ELSE s.w[r]]
           lost == r1 > Len(s.w) \/ r2 > Len(s.w)
<1> USE Sizes
<1>1. s.w \in Seq(Line) /\ Len(s.w) = Rows /\ DOMAIN s.w = 1 .. Rows
  BY LenProperties DEF Good, ScreenType
<1>2. r1 \in 1 .. Rows /\ r2 \in 1 .. Rows /\ c1 \in 1 .. Cols /\ c2 \in 1 .. Cols
  BY Constrained
<1>3. \A r \in 1 .. Rows : s.w[r] \in Line
  BY <1>1, ElementOfSeq
<1>4. \A r \in 1 .. Rows : Blanked(r) \in Line
  BY <1>3 DEF Line, Chars
<1>5. w \in [1 .. Rows -> Line]
  BY <1>1, <1>3, <1>4
<1>6. w \in Seq(Line) /\ Len(w) = Rows
  BY <1>5, RowsAreSeq
<1>7. fill_region(s, rs, cs, re, ce) = [s EXCEPT !.w = w, !.raised = lost]
  BY DEF fill_region
<1>8. rs = re /\ rs \in 1 .. Rows => \A k \in 1 .. Rows : k # rs => w[k] = s.w[k]
  BY <1>1 DEF constrain
<1>9. lost = FALSE
  BY <1>1, <1>2
<1> HIDE DEF w, lost
<1> QED
  BY <1>6, <1>7, <1>8, <1>9 DEF Good, ScreenType

LEMMA Erased ==
  ASSUME NEW s, Good(s)
  PROVE  Good(erase_end_of_line(s)) /\ Good(erase_down(s)) /\ Good(erase_up(s))
         /\ Good(erase_screen(s))
<1> USE Sizes
<1> DEFINE d == erase_end_of_line(s)
           u == erase_start_of_line(s)
<1>1. s.cur_r \in Int /\ s.cur_c \in Int
  BY DEF Good, ScreenType
<1>2. Good(d) /\ Good(u)
  BY <1>1, Filled DEF erase_end_of_line, erase_start_of_line
<1>3. Good(erase_screen(s))
  <2>1. 1 \in Int
    OBVIOUS
  <2> QED
    BY <2>1, Sizes, Filled, Zenon DEF erase_screen
<1> HIDE DEF d, u
<1>4. /\ d.raised = FALSE /\ d.cur_r + 1 \in Int
      /\ u.raised = FALSE /\ u.cur_r - 1 \in Int
  <2>1. d.raised = FALSE /\ d.cur_r \in 1 .. Rows
    BY <1>2 DEF Good, ScreenType
  <2>2. u.raised = FALSE /\ u.cur_r \in 1 .. Rows
    BY <1>2 DEF Good, ScreenType
  <2> QED
    BY <2>1, <2>2
<1>5. Good(fill_region(d, d.cur_r + 1, 1, Rows, Cols))
      /\ Good(fill_region(u, u.cur_r - 1, 1, 1, Cols))
  BY <1>2, <1>4, Filled
<1>6. Good(erase_down(s))
  BY <1>4, <1>5 DEF erase_down, d
<1>7. Good(erase_up(s))
  BY <1>4, <1>5 DEF erase_up, u
<1> QED
  BY <1>2, <1>3, <1>6, <1>7 DEF d

(* Only the row of the cursor is erased.                                   *)
LEMMA LineErased ==
  ASSUME NEW s, Good(s)
  PROVE  /\ Good(erase_line(s))
         /\ \A k \in 1 .. Rows : k # s.cur_r => erase_line(s).w[k] = s.w[k]
         /\ erase_line(s).cur_r = s.cur_r
<1>1. s.cur_r \in 1 .. Rows
  BY DEF Good, ScreenType
<1> QED
  BY <1>1, Sizes, Filled DEF erase_line

(***************************************************************************)
(* Scrolling: the slice that is assigned has the length of the one it      *)
(* replaces, whatever the region, and rows outside the region stay.        *)
(***************************************************************************)
LEMMA Scrolled ==
  ASSUME NEW s, Good(s)
  PROVE  /\ Good(scroll_up(s))
         /\ \A k \in 1 .. Rows \ (s.scroll_row_start .. s.scroll_row_end) :
              scroll_up(s).w[k] = s.w[k]
         /\ scroll_up(s).cur_r = s.cur_r
         /\ scroll_up(s).cur_c = s.cur_c
<1> DEFINE a == s.scroll_row_start - 1
           e == s.scroll_row_end - 1
           lo == Bound(s.w, a)
           hi == IF Bound(s.w, e) < lo THEN lo ELSE Bound(s.w, e)
           from == Bound(s.w, a + 1)
           Before == SubSeq(s.w, 1, lo)
           Moved == SubSeq(s.w, from + 1, Bound(s.w, e + 1))
           After == SubSeq(s.w, hi + 1, Len(s.w))
           w == Before \o Moved \o After
<1> USE Sizes
<1>1. s.w \in Seq(Line) /\ Len(s.w) = Rows /\ a \in Nat /\ e \in 0 .. Rows - 1
  BY DEF Good, ScreenType
<1>2. /\ lo = (IF a > Rows THEN Rows ELSE a)
      /\ hi = (IF e < lo THEN lo ELSE e)
      /\ from = (IF a + 1 > Rows THEN Rows ELSE a + 1)
      /\ Bound(s.w, e + 1) = e + 1
  BY <1>1 DEF Bound
<1> HIDE DEF a, e, lo, hi, from
<1>3. \A i \in 1 .. Rows : s.w[i] \in Line
  BY <1>1, ElementOfSeq
<1>4. /\ lo \in 0 .. Rows /\ hi \in lo .. Rows /\ from \in 1 .. Rows
  BY <1>1, <1>2
<1>5. Before \in Seq(Line) /\ Len(Before) = lo /\ \A i \in 1 .. lo : Before[i] = s.w[i]
  <2>1. \A i \in 1 .. lo : s.w[i] \in Line
    BY <1>3, <1>4
  <2> QED
    BY <2>1, <1>4, SubSeqProperties
<1>6. Moved \in Seq(Line) /\ Len(Moved) = hi - lo
  <2>1. \A i \in from + 1 .. e + 1 : s.w[i] \in Line
    BY <1>1, <1>3, <1>4
  <2>2. Moved \in Seq(Line)
        /\ Len(Moved) = IF from + 1 <= e + 1 THEN e + 1 - (from + 1) + 1 ELSE 0
    BY <2>1, <1>1, <1>2, <1>4, SubSeqProperties
  <2>3. CASE a < e
    <3>1. lo = a /\ hi = e /\ from = a + 1
      BY <2>3, <1>1, <1>2
    <3> QED
      BY <2>2, <2>3, <3>1, <1>1
  <2>4. CASE ~(a < e)
    <3>1. hi = lo /\ from > e
      BY <2>4, <1>1, <1>2
    <3> QED
      BY <2>2, <3>1, <1>1, <1>4
  <2> QED
    BY <2>3, <2>4
<1>7. /\ After \in Seq(Line) /\ Len(After) = Rows - hi
      /\ \A i \in 1 .. Rows - hi : After[i] = s.w[hi + i]
  <2>1. \A i \in hi + 1 .. Rows : s.w[i] \in Line
    BY <1>3, <1>4
  <2> QED
    BY <2>1, <1>1, <1>4, SubSeqProperties
<1> HIDE DEF Before, Moved, After
<1>8. /\ Before \o Moved \in Seq(Line) /\ Len(Before \o Moved) = hi
      /\ \A i \in 1 .. lo : (Before \o Moved)[i] = s.w[i]
  BY <1>4, <1>5, <1>6, ConcatProperties
<1>9. /\ w \in Seq(Line) /\ Len(w) = Rows
      /\ \A i \in 1 .. lo : w[i] = s.w[i]
      /\ \A i \in hi + 1 .. Rows : w[i] = s.w[i]
  <2> DEFINE front == Before \o Moved
  <2>1. front \in Seq(Line) /\ Len(front) = hi
    BY <1>8
  <2>2. /\ front \o After \in Seq(Line) /\ Len(front \o After) = hi + (Rows - hi)
        /\ \A i \in 1 .. hi + (Rows - hi) :
             (front \o After)[i] = IF i <= hi THEN front[i] ELSE After[i - hi]
    <3> HIDE DEF front
    <3> QED
      BY <2>1, <1>7, ConcatProperties
  <2> QED
    BY <2>2, <1>4, <1>7, <1>8
<1>10. scroll_up(s) = [s EXCEPT !.w = w]
  BY DEF scroll_up, WithSlice, Slice, a, e, lo, hi, from, Before, Moved, After
<1>11. \A k \in 1 .. Rows \ (s.scroll_row_start .. s.scroll_row_end) :
         k \in 1 .. lo \/ k \in hi + 1 .. Rows
  BY <1>1, <1>2 DEF a, e, Good, ScreenType
<1> HIDE DEF w
<1> QED
  BY <1>9, <1>10, <1>11 DEF Good, ScreenType

(* Rows neither in the region nor the cursor's, before or after.           *)
Elsewhere(s, t) ==
  1 .. Rows \ ((s.scroll_row_start .. s.scroll_row_end) \cup {s.cur_r, t.cur_r})
KeepsElsewhere(s, t) == \A k \in Elsewhere(s, t) : t.w[k] = s.w[k]

LEMMA LineFeed ==
  ASSUME NEW s, Good(s)
  PROVE  Good(lf(s)) /\ KeepsElsewhere(s, lf(s))
<1> DEFINE t == cursor_down(s, 1)
           u == scroll_up(t)
<1>1. Good(t) /\ t.w = s.w /\ t.scroll_row_start = s.scroll_row_start
      /\ t.scroll_row_end = s.scroll_row_end
  <2>1. s.cur_r + 1 \in Int /\ s.cur_c \in Int
    BY DEF Good, ScreenType
  <2>2. 1 \in Nat
    OBVIOUS
  <2> QED
    BY <2>1, <2>2, CursorSteps, CursorMoves
<1> HIDE DEF t
<1>2. /\ Good(u) /\ u.cur_r = t.cur_r
      /\ \A k \in 1 .. Rows \ (t.scroll_row_start .. t.scroll_row_end) : u.w[k] = t.w[k]
  BY <1>1, Scrolled
<1> HIDE DEF u
<1>3. /\ Good(erase_line(u)) /\ erase_line(u).cur_r = u.cur_r
      /\ \A k \in 1 .. Rows : k # u.cur_r => erase_line(u).w[k] = u.w[k]
  BY <1>2, LineErased
<1>4. CASE t.cur_r = s.cur_r
  <2>1. lf(s) = erase_line(u)
    BY <1>4 DEF lf, t, u
  <2> QED
    BY <2>1, <1>1, <1>2, <1>3, <1>4 DEF KeepsElsewhere, Elsewhere
<1>5. CASE t.cur_r # s.cur_r
  <2>1. lf(s) = t
    BY <1>5 DEF lf, t
  <2> QED
    BY <2>1, <1>1 DEF KeepsElsewhere
<1> QED
  BY <1>4, <1>5

LEMMA ReverseLine ==
  ASSUME NEW s, Good(s)
  PROVE  Good(cursor_up_reverse(s))
<1>1. 1 \in Nat
  OBVIOUS
<1>2. Good(cursor_up(s, 1))
  BY <1>1, CursorSteps
<1> QED
  BY <1>2, Scrolled DEF cursor_up_reverse

(* What write_ch does with a character that prints.                        *)
LEMMA Shown ==
  ASSUME NEW s, Good(s), NEW ch \in Chars
  PROVE  Good(print_ch(s, ch)) /\ KeepsElsewhere(s, print_ch(s, ch))
<1> DEFINE p == put_abs(s, s.cur_r, s.cur_c, ch)
           f == cursor_forward(p, 1)
           d == cursor_down(f, 1)
           h == cursor_home(d, d.cur_r, 1)
           u == scroll_up(d)
           g == cursor_home(u, d.cur_r, 1)
           SameRegion(t) == /\ t.scroll_row_start = s.scroll_row_start
                            /\ t.scroll_row_end = s.scroll_row_end
<1>0. 1 \in Nat /\ 1 \in Int
  OBVIOUS
<1>1. s.cur_r \in 1 .. Rows /\ s.cur_c \in 1 .. Cols
  BY DEF Good, ScreenType
<1>2. /\ Good(p) /\ SameRegion(p) /\ p.cur_r = s.cur_r
      /\ \A k \in 1 .. Rows : k # s.cur_r => p.w[k] = s.w[k]
  BY <1>1, Put
<1> HIDE DEF p
<1>3. Good(f) /\ SameRegion(f) /\ f.w = p.w
  <2>1. p.cur_r \in Int /\ p.cur_c + 1 \in Int
    BY <1>2 DEF Good, ScreenType
  <2>2. f = cursor_home(p, p.cur_r, p.cur_c + 1)
    BY <1>0, <1>2, CursorSteps
  <2> HIDE DEF f
  <2> QED
    BY <2>1, <2>2, <1>2, CursorMoves
<1> HIDE DEF f
<1>4. Good(d) /\ SameRegion(d) /\ d.w = p.w
  <2>1. f.cur_r + 1 \in Int /\ f.cur_c \in Int
    BY <1>3 DEF Good, ScreenType
  <2>2. d = cursor_home(f, f.cur_r + 1, f.cur_c)
    BY <1>0, <1>3, CursorSteps
  <2> HIDE DEF d
  <2> QED
    BY <2>1, <2>2, <1>3, CursorMoves
<1> HIDE DEF d
<1>5. d.cur_r \in 1 .. Rows /\ d.cur_r \in Int
  BY <1>4 DEF Good, ScreenType
<1>6. Good(h) /\ h.w = p.w
  BY <1>0, <1>4, <1>5, CursorMoves
<1>7. /\ Good(u)
      /\ \A k \in 1 .. Rows \ (s.scroll_row_start .. s.scroll_row_end) : u.w[k] = p.w[k]
  BY <1>4, Scrolled
<1> HIDE DEF h, u
<1>8. Good(g) /\ g.w = u.w /\ g.cur_r = d.cur_r
  <2>1. constrain(d.cur_r, 1, Rows) = d.cur_r
    BY <1>5, Sizes DEF constrain
  <2> QED
    BY <2>1, <1>0, <1>5, <1>7, CursorMoves
<1> HIDE DEF g
<1>9. /\ Good(erase_line(g)) /\ erase_line(g).cur_r = d.cur_r
      /\ \A k \in 1 .. Rows : k # d.cur_r => erase_line(g).w[k] = u.w[k]
  BY <1>8, LineErased
<1>10. p.raised = FALSE
  BY <1>2 DEF Good
<1>11. CASE f.cur_c # s.cur_c
  <2>1. print_ch(s, ch) = f
    BY <1>10, <1>11 DEF print_ch, p, f
  <2> QED
    BY <2>1, <1>2, <1>3 DEF KeepsElsewhere, Elsewhere
<1>12. CASE f.cur_c = s.cur_c /\ d.cur_r # s.cur_r
  <2>1. print_ch(s, ch) = h
    BY <1>10, <1>12 DEF print_ch, p, f, d, h
  <2> QED
    BY <2>1, <1>2, <1>6 DEF KeepsElsewhere, Elsewhere
<1>13. CASE f.cur_c = s.cur_c /\ d.cur_r = s.cur_r
  <2>1. print_ch(s, ch) = erase_line(g)
    BY <1>10, <1>13 DEF print_ch, p, f, d, u, g
  <2> QED
    BY <2>1, <1>2, <1>7, <1>9, <1>13 DEF KeepsElsewhere, Elsewhere
<1> QED
  BY <1>11, <1>12, <1>13

LEMMA Written ==
  ASSUME NEW s, Good(s), NEW sym \in Printed
  PROVE  Good(write_ch(s, sym)) /\ KeepsElsewhere(s, write_ch(s, sym))
<1>0. /\ s.cur_r \in 1 .. Rows /\ s.cur_c \in 1 .. Cols
      /\ s.cur_r \in Int /\ s.cur_c \in Int
      /\ 1 \in Nat /\ 1 \in Int
  BY DEF Good, ScreenType
<1>1. CASE sym = CR \/ sym \in NonPrinting
  BY <1>1 DEF write_ch, KeepsElsewhere
<1>2. CASE sym = LF
  <2> DEFINE t == cursor_home(s, s.cur_r, 1)
  <2>1. Good(t) /\ t.w = s.w /\ t.scroll_row_start = s.scroll_row_start
        /\ t.scroll_row_end = s.scroll_row_end /\ t.cur_r = constrain(s.cur_r, 1, Rows)
    BY <1>0, CursorMoves
  <2>2. constrain(s.cur_r, 1, Rows) = s.cur_r
    BY <1>0, Sizes DEF constrain
  <2>3. write_ch(s, sym) = lf(t)
    BY <1>2 DEF write_ch, crlf, NonPrinting, LF, CR
  <2> HIDE DEF t
  <2>4. Good(lf(t)) /\ KeepsElsewhere(t, lf(t))
    BY <2>1, LineFeed
  <2> QED
    BY <2>1, <2>2, <2>3, <2>4 DEF KeepsElsewhere, Elsewhere
<1>3. CASE sym = BS
  <2> DEFINE t == cursor_back(s, 1)
  <2>1. s.cur_c - 1 \in Int
    BY <1>0
  <2>2. Good(t) /\ t.w = s.w
    <3>1. t = cursor_home(s, s.cur_r, s.cur_c - 1)
      BY <1>0, CursorSteps
    <3> HIDE DEF t
    <3> QED
      BY <1>0, <2>1, <3>1, CursorMoves
  <2>3. write_ch(s, sym) = put_abs(t, t.cur_r, t.cur_c, SPACE)
    BY <1>3 DEF write_ch, backspace, NonPrinting, LF, CR, BS
  <2> HIDE DEF t
  <2>4. t.cur_r \in 1 .. Rows /\ t.cur_c \in 1 .. Cols /\ SPACE \in Chars
    BY <2>2 DEF Good, ScreenType, Chars
  <2> QED
    BY <2>2, <2>3, <2>4, Put DEF KeepsElsewhere, Elsewhere
<1>4. CASE sym \notin {CR, LF, BS} \cup NonPrinting
  <2>1. sym \in Chars
    BY <1>4 DEF Printed, Chars
  <2>2. write_ch(s, sym) = print_ch(s, sym)
    BY <1>4 DEF write_ch
  <2> QED
    BY <2>1, <2>2, Shown
<1> QED
  BY <1>1, <1>2, <1>3, <1>4

(* The region is set, as long as it does not end at row 0.                 *)
LEMMA RegionSet ==
  ASSUME NEW s, Good(s), NEW rs \in Nat, NEW re \in Nat \ {0}
  PROVE  Good(scroll_screen_rows(s, rs, re))
<1> DEFINE a == IF rs <= 0 THEN 1 ELSE rs
           e == IF re > Rows THEN Rows ELSE re
<1> USE Sizes
<1>1. a \in Nat \ {0} /\ e \in 0 .. Rows /\ e >= 1
  OBVIOUS
<1>2. scroll_screen_rows(s, rs, re) = [s EXCEPT !.scroll_row_start = a, !.scroll_row_end = e]
  BY DEF scroll_screen_rows
<1> HIDE DEF a, e
<1>3. Good(scroll_screen_rows(s, rs, re))
  BY <1>1, <1>2 DEF Good, ScreenType
<1> QED
  BY <1>3

LEMMA RegionReset ==
  ASSUME NEW s, Good(s)
  PROVE  Good(scroll_screen(s))
<1>1. 1 \in Nat \ {0} /\ Rows \in 0 .. Rows
  BY Sizes
<1> QED
  BY <1>1, Sizes DEF Good, ScreenType, scroll_screen

(***************************************************************************)
(* The stack.  Ready(m, k): the screen is at its bottom and only there,    *)
(* with at least k numbers on top of it.                                   *)
(***************************************************************************)
Ready(m, k) ==
  /\ m \in Seq(Nat \cup {Self})
  /\ Len(m) > k
  /\ m[1] = Self
  /\ \A i \in 2 .. Len(m) : m[i] \in Nat

LEMMA Fewer ==
  ASSUME NEW m, NEW k \in Nat, NEW j \in Nat, j <= k, Ready(m, k)
  PROVE  Ready(m, j)
<1>1. Len(m) \in Nat
  BY LenProperties DEF Ready
<1> QED
  BY <1>1 DEF Ready

LEMMA Pops ==
  ASSUME NEW m, NEW k \in Nat, NEW n \in Nat, n <= k, Ready(m, k)
  PROVE  /\ Ready(SubSeq(m, 1, Len(m) - n), k - n)
         /\ \A j \in 1 .. k : m[Len(m) + 1 - j] \in Nat
<1> DEFINE r == SubSeq(m, 1, Len(m) - n)
<1>1. /\ m \in Seq(Nat \cup {Self}) /\ Len(m) \in Nat /\ Len(m) > k /\ m[1] = Self
      /\ \A i \in 2 .. Len(m) : m[i] \in Nat
  BY LenProperties DEF Ready
<1>2. \A i \in 1 .. Len(m) - n : m[i] \in Nat \cup {Self}
  BY <1>1, ElementOfSeq
<1>3. /\ r \in Seq(Nat \cup {Self}) /\ Len(r) = Len(m) - n
      /\ \A i \in 1 .. Len(m) - n : r[i] = m[i]
  BY <1>1, <1>2, SubSeqProperties
<1> HIDE DEF r
<1>4. Ready(r, k - n)
  BY <1>1, <1>3 DEF Ready
<1>5. \A j \in 1 .. k : m[Len(m) + 1 - j] \in Nat
  BY <1>1
<1> QED
  BY <1>4, <1>5 DEF r

LEMMA Pushes ==
  ASSUME NEW m, NEW k \in Nat, NEW v \in Nat, Ready(m, k)
  PROVE  Ready(Append(m, v), k + 1)
<1>1. m \in Seq(Nat \cup {Self}) /\ Len(m) \in Nat
  BY LenProperties DEF Ready
<1>2. /\ Append(m, v) \in Seq(Nat \cup {Self}) /\ Len(Append(m, v)) = Len(m) + 1
      /\ Append(m, v)[Len(m) + 1] = v
      /\ \A i \in 1 .. Len(m) : Append(m, v)[i] = m[i]
  BY <1>1, AppendProperties
<1> QED
  BY <1>1, <1>2 DEF Ready

LEMMA Drops ==
  ASSUME NEW m, NEW k \in Nat, Ready(m, k)
  PROVE  Ready(<<m[1]>>, 0)
BY DEF Ready

LEMMA DigitValue ==
  ASSUME NEW d \in Digits
  PROVE  Value(d) \in Nat
<1>1. \E i \in 1 .. 10 : Numerals[i] = d
  BY ANSIAssumption DEF Numerals
<1> QED
  BY <1>1 DEF Value

(***************************************************************************)
(* The tables.  Need(st): the numbers the actions of state st may pop.  A  *)
(* row is balanced when it pops no more than there are, and leaves as many *)
(* as its next state needs; the rows of INIT print, or do nothing.         *)
(***************************************************************************)
Need(st) ==
  CASE st \in {"NUMBER_1", "SEMICOLON", "MODECRAP_NUM"} -> 1
    [] st = "NUMBER_2" -> 2
    [] OTHER -> 0

PopNone ==
  {"None", "DoBackOne", "DoDownOne", "DoForwardOne", "DoUpOne", "DoUpReverse",
   "DoHomeOrigin", "DoCursorSave", "DoCursorRestore", "DoEraseDown",
   "DoEraseEndOfLine", "DoEnableScroll"}
PopOne == {"DoBack", "DoDown", "DoForward", "DoUp", "DoErase", "DoMode"}
PopTwo == {"DoHome", "DoScrollRegion"}

Balanced(t, st, sym) ==
  /\ t.next \in States
  /\ st = "INIT" => t.action \in {"None", "Emit"}
  /\ \/ t.action \in PopNone /\ Need(t.next) <= Need(st)
     \/ t.action \in PopOne /\ Need(st) >= 1 /\ Need(t.next) = 0
     \/ t.action \in PopTwo /\ Need(st) = 2 /\ Need(t.next) = 0
     \/ t.action = "StartNumber" /\ sym \in Digits /\ Need(t.next) <= Need(st) + 1
     \/ t.action = "BuildNumber" /\ sym \in Digits /\ Need(st) >= 1
          /\ Need(t.next) <= Need(st)
     \/ t.action = "DoEraseLine"
     \/ t.action = "Log" /\ Need(t.next) = 0
     \/ t.action = "Emit" /\ st = "INIT" /\ t.next = "INIT"

LEMMA Needs == \A st : Need(st) \in 0 .. 2
BY DEF Need

LEMMA EscBalanced == \A t \in FromEsc : Balanced(t, t.state, t.symbol)
BY DEF FromEsc, Transition, TransitionList, Balanced, States, Need, PopNone, PopOne, PopTwo

LEMMA BracketBalanced == \A t \in FromBracket : Balanced(t, t.state, t.symbol)
BY DEF FromBracket, Transition, TransitionList, Balanced, States, Need, PopNone, PopOne, PopTwo

LEMMA Number1Balanced == \A t \in FromNumber1 : Balanced(t, t.state, t.symbol)
BY DEF FromNumber1, Transition, TransitionList, Balanced, States, Need, PopNone, PopOne, PopTwo

LEMMA ModecrapBalanced == \A t \in FromModecrap : Balanced(t, t.state, t.symbol)
BY DEF FromModecrap, Transition, TransitionList, Balanced, States, Need, PopNone, PopOne, PopTwo

LEMMA Number2Balanced == \A t \in FromNumber2 : Balanced(t, t.state, t.symbol)
BY DEF FromNumber2, Transition, TransitionList, Balanced, States, Need, PopNone, PopOne, PopTwo

LEMMA AnyBalanced ==
  ASSUME NEW sym
  PROVE  /\ \A t \in state_transitions_any : Balanced(t, t.state, sym)
         /\ \A st : st # "INIT" => Balanced(default_transition, st, sym)
BY DEF state_transitions_any, default_transition, AnySymbol, Otherwise, Balanced, States, Need,
       PopNone, PopOne, PopTwo

LEMMA AllBalanced ==
  ASSUME NEW sym, NEW t \in Transitions(sym)
  PROVE  Balanced(t, current_state, sym)
<1>1. CASE t \in Exact(state_transitions, sym, current_state)
  BY <1>1, EscBalanced, BracketBalanced, Number1Balanced, ModecrapBalanced, Number2Balanced
     DEF Exact, state_transitions
<1>2. CASE t \in ForState(state_transitions_any, current_state)
  BY <1>2, AnyBalanced DEF ForState
<1>3. CASE t = default_transition /\ ForState(state_transitions_any, current_state) = {}
  <2>1. current_state # "INIT"
    <3> DEFINE row == AnySymbol("INIT", "Emit", "INIT")
    <3>1. row \in state_transitions_any
      BY Zenon DEF state_transitions_any
    <3>2. row.state = "INIT"
      BY DEF AnySymbol
    <3> HIDE DEF row
    <3> QED
      BY <3>1, <3>2, <1>3 DEF ForState
  <2> QED
    BY <2>1, <1>3, AnyBalanced
<1> QED
  BY <1>1, <1>2, <1>3 DEF Transitions, get_transition

(***************************************************************************)
(* The actions.  Outcome(k): nothing was raised, the screen is good and    *)
(* the stack is ready for k numbers.                                       *)
(***************************************************************************)
Outcome(k) == Good(screen') /\ raised' = FALSE /\ Ready(memory', k)

(* What the actions that pop no more than parameters do to the screen.     *)
Shows(a) ==
  CASE a = "DoBackOne" -> cursor_back(screen, 1)
    [] a = "DoDownOne" -> cursor_down(screen, 1)
    [] a = "DoForwardOne" -> cursor_forward(screen, 1)
    [] a = "DoUpOne" -> cursor_up(screen, 1)
    [] a = "DoUpReverse" -> cursor_up_reverse(screen)
    [] a = "DoHomeOrigin" -> cursor_home(screen, 1, 1)
    [] a = "DoCursorSave" -> cursor_save_attrs(screen)
    [] a = "DoCursorRestore" -> cursor_restore_attrs(screen)
    [] a = "DoEraseDown" -> erase_down(screen)
    [] a = "DoEraseEndOfLine" -> erase_end_of_line(screen)
    [] a = "DoEnableScroll" -> scroll_screen(screen)
    [] a = "DoBack" -> cursor_back(screen, Arg(1))
    [] a = "DoDown" -> cursor_down(screen, Arg(1))
    [] a = "DoForward" -> cursor_forward(screen, Arg(1))
    [] a = "DoUp" -> cursor_up(screen, Arg(1))
    [] a = "DoErase" -> (CASE Arg(1) = 0 -> erase_down(screen)
                           [] Arg(1) = 1 -> erase_up(screen)
                           [] Arg(1) = 2 -> erase_screen(screen)
                           [] OTHER -> screen)
    [] a = "DoHome" -> cursor_home(screen, Arg(2), Arg(1))
    [] a = "DoScrollRegion" -> scroll_screen_rows(screen, Arg(2), Arg(1))
    [] OTHER -> screen

LEMMA Called ==
  ASSUME NEW s, Good(s), Call(s)
  PROVE  Good(screen') /\ raised' = FALSE /\ screen' = s
BY DEF Call, Good, ScreenType

LEMMA NothingPopped ==
  ASSUME NEW k \in Nat, Good(screen), Ready(memory, k), NEW a \in PopNone, NEW sym, Run(a, sym)
  PROVE  Outcome(k) /\ memory' = memory /\ screen' = Shows(a)
<1>0. 1 \in Nat /\ 1 \in Int
  OBVIOUS
<1>1. CASE a = "None"
  <2>1. NoCall /\ memory' = memory
    BY <1>1 DEF Run, None
  <2>2. Shows(a) = screen
    BY <1>1 DEF Shows
  <2> QED
    BY <2>1, <2>2 DEF NoCall, Outcome, Good
<1>2. CASE a = "DoBackOne"
  <2>1. Call(cursor_back(screen, 1)) /\ memory' = memory
    BY <1>2 DEF Run, DoBackOne
  <2>2. Shows(a) = cursor_back(screen, 1)
    BY <1>2 DEF Shows
  <2> QED
    BY <2>1, <2>2, <1>0, Called, CursorSteps DEF Outcome
<1>3. CASE a = "DoDownOne"
  <2>1. Call(cursor_down(screen, 1)) /\ memory' = memory
    BY <1>3 DEF Run, DoDownOne
  <2>2. Shows(a) = cursor_down(screen, 1)
    BY <1>3 DEF Shows
  <2> QED
    BY <2>1, <2>2, <1>0, Called, CursorSteps DEF Outcome
<1>4. CASE a = "DoForwardOne"
  <2>1. Call(cursor_forward(screen, 1)) /\ memory' = memory
    BY <1>4 DEF Run, DoForwardOne
  <2>2. Shows(a) = cursor_forward(screen, 1)
    BY <1>4 DEF Shows
  <2> QED
    BY <2>1, <2>2, <1>0, Called, CursorSteps DEF Outcome
<1>5. CASE a = "DoUpOne"
  <2>1. Call(cursor_up(screen, 1)) /\ memory' = memory
    BY <1>5 DEF Run, DoUpOne
  <2>2. Shows(a) = cursor_up(screen, 1)
    BY <1>5 DEF Shows
  <2> QED
    BY <2>1, <2>2, <1>0, Called, CursorSteps DEF Outcome
<1>6. CASE a = "DoUpReverse"
  <2>1. Call(cursor_up_reverse(screen)) /\ memory' = memory
    BY <1>6 DEF Run, DoUpReverse
  <2>2. Shows(a) = cursor_up_reverse(screen)
    BY <1>6 DEF Shows
  <2> QED
    BY <2>1, <2>2, <1>0, Called, ReverseLine DEF Outcome
<1>7. CASE a = "DoHomeOrigin"
  <2>1. Call(cursor_home(screen, 1, 1)) /\ memory' = memory
    BY <1>7 DEF Run, DoHomeOrigin
  <2>2. Shows(a) = cursor_home(screen, 1, 1)
    BY <1>7 DEF Shows
  <2> QED
    BY <2>1, <2>2, <1>0, Called, CursorMoves DEF Outcome
<1>8. CASE a = "DoCursorSave"
  <2>1. Call(cursor_save_attrs(screen)) /\ memory' = memory
    BY <1>8 DEF Run, DoCursorSave
  <2>2. Shows(a) = cursor_save_attrs(screen)
    BY <1>8 DEF Shows
  <2> QED
    BY <2>1, <2>2, <1>0, Called, Saved DEF Outcome
<1>9. CASE a = "DoCursorRestore"
  <2>1. Call(cursor_restore_attrs(screen)) /\ memory' = memory
    BY <1>9 DEF Run, DoCursorRestore
  <2>2. Shows(a) = cursor_restore_attrs(screen)
    BY <1>9 DEF Shows
  <2> QED
    BY <2>1, <2>2, <1>0, Called, Saved DEF Outcome
<1>10. CASE a = "DoEraseDown"
  <2>1. Call(erase_down(screen)) /\ memory' = memory
    BY <1>10 DEF Run, DoEraseDown
  <2>2. Shows(a) = erase_down(screen)
    BY <1>10 DEF Shows
  <2> QED
    BY <2>1, <2>2, <1>0, Called, Erased DEF Outcome
<1>11. CASE a = "DoEraseEndOfLine"
  <2>1. Call(erase_end_of_line(screen)) /\ memory' = memory
    BY <1>11 DEF Run, DoEraseEndOfLine
  <2>2. Shows(a) = erase_end_of_line(screen)
    BY <1>11 DEF Shows
  <2> QED
    BY <2>1, <2>2, <1>0, Called, Erased DEF Outcome
<1>12. CASE a = "DoEnableScroll"
  <2>1. Call(scroll_screen(screen)) /\ memory' = memory
    BY <1>12 DEF Run, DoEnableScroll
  <2>2. Shows(a) = scroll_screen(screen)
    BY <1>12 DEF Shows
  <2> QED
    BY <2>1, <2>2, <1>0, Called, RegionReset DEF Outcome
<1> QED
  BY <1>1, <1>2, <1>3, <1>4, <1>5, <1>6, <1>7, <1>8, <1>9, <1>10, <1>11, <1>12 DEF PopNone

LEMMA OnePopped ==
  ASSUME NEW k \in Nat, k >= 1, Good(screen), Ready(memory, k), NEW a \in PopOne, NEW sym,
         Run(a, sym)
  PROVE  Outcome(0) /\ screen' = Shows(a)
<1>1. Arg(1) \in Nat /\ Ready(Popped(1), 0)
  <2>1. 1 \in Nat /\ 1 \in 1 .. k /\ k - 1 \in Nat /\ 0 \in Nat /\ 0 <= k - 1
    OBVIOUS
  <2>2. Arg(1) \in Nat /\ Ready(Popped(1), k - 1)
    BY <2>1, Pops DEF Arg, Popped
  <2> QED
    BY <2>1, <2>2, Fewer
<1> HIDE DEF Arg, Popped
<1>2. CASE a = "DoBack"
  <2>1. Call(cursor_back(screen, Arg(1))) /\ memory' = Popped(1)
    BY <1>2 DEF Run, DoBack
  <2>2. Shows(a) = cursor_back(screen, Arg(1))
    BY <1>2 DEF Shows
  <2> QED
    BY <2>1, <2>2, <1>1, Called, CursorSteps DEF Outcome
<1>3. CASE a = "DoDown"
  <2>1. Call(cursor_down(screen, Arg(1))) /\ memory' = Popped(1)
    BY <1>3 DEF Run, DoDown
  <2>2. Shows(a) = cursor_down(screen, Arg(1))
    BY <1>3 DEF Shows
  <2> QED
    BY <2>1, <2>2, <1>1, Called, CursorSteps DEF Outcome
<1>4. CASE a = "DoForward"
  <2>1. Call(cursor_forward(screen, Arg(1))) /\ memory' = Popped(1)
    BY <1>4 DEF Run, DoForward
  <2>2. Shows(a) = cursor_forward(screen, Arg(1))
    BY <1>4 DEF Shows
  <2> QED
    BY <2>1, <2>2, <1>1, Called, CursorSteps DEF Outcome
<1>5. CASE a = "DoUp"
  <2>1. Call(cursor_up(screen, Arg(1))) /\ memory' = Popped(1)
    BY <1>5 DEF Run, DoUp
  <2>2. Shows(a) = cursor_up(screen, Arg(1))
    BY <1>5 DEF Shows
  <2> QED
    BY <2>1, <2>2, <1>1, Called, CursorSteps DEF Outcome
<1>6. CASE a = "DoErase"
  <2> DEFINE e == CASE Arg(1) = 0 -> erase_down(screen)
                    [] Arg(1) = 1 -> erase_up(screen)
                    [] Arg(1) = 2 -> erase_screen(screen)
                    [] OTHER -> screen
  <2>1. Call(e) /\ memory' = Popped(1)
    BY <1>6 DEF Run, DoErase
  <2>2. Good(e)
    BY Erased
  <2>3. Shows(a) = e
    BY <1>6 DEF Shows
  <2> HIDE DEF e
  <2> QED
    BY <2>1, <2>2, <2>3, <1>1, Called DEF Outcome
<1>7. CASE a = "DoMode"
  <2>1. NoCall /\ memory' = Popped(1)
    BY <1>7 DEF Run, DoMode
  <2>2. Shows(a) = screen
    BY <1>7 DEF Shows
  <2> QED
    BY <2>1, <2>2, <1>1 DEF NoCall, Outcome, Good
<1> QED
  BY <1>2, <1>3, <1>4, <1>5, <1>6, <1>7 DEF PopOne

LEMMA TwoPopped ==
  ASSUME ~EmptyRegions, Good(screen), Ready(memory, 2), NEW a \in PopTwo, NEW sym, Run(a, sym)
  PROVE  Outcome(0) /\ screen' = Shows(a)
<1>1. Arg(1) \in Nat /\ Arg(2) \in Nat /\ Ready(Popped(2), 0)
  <2>1. 2 \in Nat /\ 2 <= 2 /\ 1 \in 1 .. 2 /\ 2 \in 1 .. 2 /\ 2 - 2 = 0
    OBVIOUS
  <2>2. /\ Ready(SubSeq(memory, 1, Len(memory) - 2), 2 - 2)
        /\ \A j \in 1 .. 2 : memory[Len(memory) + 1 - j] \in Nat
    BY <2>1, Pops, Zenon
  <2> QED
    BY <2>1, <2>2, Zenon DEF Arg, Popped
<1>2. CASE a = "DoHome"
  <2>1. Call(cursor_home(screen, Arg(2), Arg(1))) /\ memory' = Popped(2)
    BY <1>2 DEF Run, DoHome
  <2>2. Arg(1) \in Int /\ Arg(2) \in Int
    BY <1>1
  <2>3. Shows(a) = cursor_home(screen, Arg(2), Arg(1))
    BY <1>2 DEF Shows
  <2> QED
    BY <2>1, <2>2, <2>3, <1>1, Called, CursorMoves DEF Outcome
<1>3. CASE a = "DoScrollRegion"
  <2>1. /\ Call(scroll_screen_rows(screen, Arg(2), Arg(1))) /\ memory' = Popped(2)
        /\ EmptyRegions \/ Arg(1) > 0
    BY <1>3 DEF Run, DoScrollRegion
  <2>2. Arg(1) \in Nat \ {0}
    BY <2>1, <1>1
  <2>3. Shows(a) = scroll_screen_rows(screen, Arg(2), Arg(1))
    BY <1>3 DEF Shows
  <2> QED
    BY <2>1, <2>2, <2>3, <1>1, Called, RegionSet DEF Outcome
<1> QED
  BY <1>2, <1>3 DEF PopTwo

LEMMA DigitRead ==
  ASSUME NEW k \in Nat, Good(screen), Ready(memory, k), NEW sym \in Digits
  PROVE  /\ StartNumber(sym) => Outcome(k + 1)
         /\ k >= 1 /\ BuildNumber(sym) => Outcome(k)
<1>1. Value(sym) \in Nat
  BY DigitValue
<1>2. ASSUME StartNumber(sym)
      PROVE  Outcome(k + 1)
  BY <1>1, <1>2, Pushes DEF StartNumber, NoCall, Outcome, Good
<1>3. ASSUME k >= 1, BuildNumber(sym)
      PROVE  Outcome(k)
  <2>1. 1 \in Nat /\ 1 \in 1 .. k /\ k - 1 \in Nat /\ k - 1 + 1 = k
    BY <1>3
  <2>2. Arg(1) \in Nat /\ Ready(Popped(1), k - 1)
    BY <2>1, <1>3, Pops DEF Arg, Popped
  <2> DEFINE n == 10 * Arg(1) + Value(sym)
  <2>3. n \in Nat
    BY <2>2, <1>1
  <2>4. NoCall /\ memory' = Append(Popped(1), n)
    BY <1>3 DEF BuildNumber
  <2> HIDE DEF n
  <2>5. Ready(memory', k)
    BY <2>1, <2>2, <2>3, <2>4, Pushes
  <2> QED
    BY <2>4, <2>5 DEF NoCall, Outcome, Good
<1> QED
  BY <1>2, <1>3

(***************************************************************************)
(* The invariant: a good screen, and in every state the numbers that its   *)
(* actions pop.                                                            *)
(***************************************************************************)
IInv ==
  /\ Good(screen)
  /\ current_state \in States
  /\ Ready(memory, Need(current_state))
  /\ raised \in BOOLEAN

LEMMA InitIInv == Init => IInv
<1> SUFFICES ASSUME Init
             PROVE  IInv
  OBVIOUS
<1> DEFINE blank == [r \in 1 .. Rows |-> BlankLine]
<1>1. blank \in [1 .. Rows -> Line]
  BY DEF BlankLine, Line, Chars
<1>2. blank \in Seq(Line) /\ Len(blank) = Rows
  BY <1>1, RowsAreSeq
<1>3. screen = NewScreen
  BY DEF Init
<1> HIDE DEF blank
<1>4. Good(screen)
  <2>1. NewScreen = [w |-> blank, cur_r |-> 1, cur_c |-> 1, cur_saved_r |-> 1,
                     cur_saved_c |-> 1, scroll_row_start |-> 1,
                     scroll_row_end |-> Rows, raised |-> FALSE]
    BY DEF NewScreen, blank
  <2> QED
    BY <1>2, <1>3, <2>1, Sizes DEF Good, ScreenType
<1>5. memory = <<Self>> /\ Need(current_state) = 0
  BY DEF Init, Need
<1>6. Ready(memory, Need(current_state))
  BY <1>5 DEF Ready
<1>7. current_state \in States /\ raised \in BOOLEAN
  BY DEF Init, States
<1> QED
  BY <1>4, <1>6, <1>7 DEF IInv

(* What is read in text prints, or is written by write_ch.                 *)
LEMMA NextIInv ==
  ASSUME ~EmptyRegions, IInv, Next
  PROVE  IInv'
<1>1. PICK sym \in IF current_state = "INIT" THEN Printed ELSE Symbols :
        \E t \in Transitions(sym) :
          Run(t.action, sym) /\ current_state' = IF raised' THEN current_state ELSE t.next
  BY DEF Next, process
<1>2. PICK t \in Transitions(sym) :
        Run(t.action, sym) /\ current_state' = IF raised' THEN current_state ELSE t.next
  BY <1>1
<1> DEFINE k == Need(current_state)
           n == Need(t.next)
<1>3. Good(screen) /\ current_state \in States /\ Ready(memory, k)
  BY DEF IInv
<1>4. k \in 0 .. 2 /\ n \in 0 .. 2
  BY Needs
<1>5. Balanced(t, current_state, sym)
  BY AllBalanced
<1> HIDE DEF k, n
<1>6. t.next \in States
  BY <1>5 DEF Balanced
<1>7. ASSUME NEW j \in Nat, n <= j, Outcome(j)
      PROVE  IInv'
  <2>1. Good(screen') /\ raised' = FALSE /\ current_state' = t.next /\ Ready(memory', n)
    BY <1>2, <1>4, <1>7, Fewer DEF Outcome
  <2> QED
    BY <2>1, <1>6 DEF IInv, n
<1>8. CASE t.action \in PopNone /\ n <= k
  <2>1. Outcome(k)
    BY <1>2, <1>3, <1>4, <1>8, NothingPopped
  <2> QED
    BY <2>1, <1>4, <1>7, <1>8
<1>9. CASE t.action \in PopOne /\ k >= 1 /\ n = 0
  <2>1. Outcome(0)
    BY <1>2, <1>3, <1>4, <1>9, OnePopped
  <2> QED
    BY <2>1, <1>7, <1>9
<1>10. CASE t.action \in PopTwo /\ k = 2 /\ n = 0
  <2>1. Outcome(0)
    BY <1>2, <1>3, <1>10, TwoPopped
  <2> QED
    BY <2>1, <1>7, <1>10
<1>11. CASE t.action = "StartNumber" /\ sym \in Digits /\ n <= k + 1
  <2>1. StartNumber(sym)
    BY <1>2, <1>11 DEF Run
  <2>2. Outcome(k + 1)
    BY <2>1, <1>3, <1>4, <1>11, DigitRead
  <2> QED
    BY <2>2, <1>4, <1>7, <1>11
<1>12. CASE t.action = "BuildNumber" /\ sym \in Digits /\ k >= 1 /\ n <= k
  <2>1. BuildNumber(sym)
    BY <1>2, <1>12 DEF Run
  <2>2. Outcome(k)
    BY <2>1, <1>3, <1>4, <1>12, DigitRead
  <2> QED
    BY <2>2, <1>4, <1>7, <1>12
<1>13. CASE t.action = "DoEraseLine"
  <2>1. UNCHANGED <<screen, memory>> /\ raised' = TRUE
    BY <1>2, <1>13 DEF Run, DoEraseLine
  <2> QED
    BY <2>1, <1>2, <1>3 DEF IInv, k
<1>14. CASE t.action = "Log" /\ n = 0
  <2>1. NoCall /\ memory' = <<memory[1]>>
    BY <1>2, <1>14 DEF Run, Log
  <2>2. Outcome(0)
    BY <2>1, <1>3, <1>4, Drops DEF NoCall, Outcome, Good
  <2> QED
    BY <2>2, <1>7, <1>14
<1>15. CASE t.action = "Emit" /\ current_state = "INIT" /\ t.next = "INIT"
  <2>1. Call(write_ch(screen, sym)) /\ memory' = memory /\ sym \in Printed
    BY <1>1, <1>2, <1>15 DEF Run, Emit
  <2>2. n = k
    BY <1>15 DEF n, k
  <2>3. Outcome(k)
    BY <2>1, <1>3, Written, Called DEF Outcome
  <2> QED
    BY <2>2, <2>3, <1>4, <1>7
<1> QED
  BY <1>5, <1>8, <1>9, <1>10, <1>11, <1>12, <1>13, <1>14, <1>15 DEF Balanced, k, n

LEMMA Invariant ==
  ASSUME ~EmptyRegions
  PROVE  Spec => []IInv
<1>1. IInv /\ [Next]_vars => IInv'
  <2>1. ASSUME IInv, UNCHANGED vars
        PROVE  IInv'
    BY <2>1 DEF IInv, vars
  <2> QED
    BY <2>1, NextIInv
<1> QED
  BY InitIInv, <1>1, PTL DEF Spec

LEMMA OperandsNeeded == Operands = Need(current_state)
BY DEF Operands, Need

(* Every attribute keeps its type: the methods of screen.py and the actions *)
(* of ANSI.py, whatever the stream, as long as it sets no empty scrolling  *)
(* region.                                                                 *)
THEOREM TypeCorrect ==
  ASSUME ~EmptyRegions
  PROVE  Spec => []TypeOK
<1>1. IInv => TypeOK
  BY DEF IInv, TypeOK, Good, Ready
<1> QED
  BY <1>1, Invariant, PTL

(* The actions of ANSI.py pop no more from fsm.memory than the states      *)
(* before them have pushed, and never the screen: whatever sequences the   *)
(* stream breaks off or the emulator ignores, as long as none of them sets *)
(* an empty scrolling region.                                              *)
THEOREM OperandsAlwaysReady ==
  ASSUME ~EmptyRegions
  PROVE  Spec => []OperandsReady
<1>1. IInv => OperandsReady
  BY OperandsNeeded, Needs, EmptySeq DEF IInv, OperandsReady, Ready
<1> QED
  BY <1>1, Invariant, PTL

(* No method of screen.py loses or gains a row, whatever the size of the   *)
(* screen and the scrolling region, as long as that is not empty.          *)
THEOREM StaysRectangular ==
  ASSUME ~EmptyRegions
  PROVE  Spec => []Rectangular
<1>1. IInv => Rectangular
  BY DEF IInv, Good, Rectangular
<1> QED
  BY <1>1, Invariant, PTL

(* Text changes the cursor's row and the scrolling region only, as long as *)
(* no empty region is set.                                                 *)
THEOREM TextKeepsItsPlace ==
  ASSUME ~EmptyRegions
  PROVE  Spec => OutsideRegionStays
<1> DEFINE Untouched ==
             current_state = "INIT" =>
               \A r \in DOMAIN screen.w \ Region :
                 r \notin {screen.cur_r, screen'.cur_r} => screen'.w[r] = screen.w[r]
<1>1. ASSUME IInv, Next, current_state = "INIT"
      PROVE  screen' = screen \/ KeepsElsewhere(screen, screen')
  <2>1. PICK sym \in Printed : \E t \in Transitions(sym) : Run(t.action, sym)
    BY <1>1 DEF Next, process
  <2>2. PICK t \in Transitions(sym) : Run(t.action, sym)
    BY <2>1
  <2>3. CASE t.action = "Emit"
    <3>1. Call(write_ch(screen, sym))
      BY <2>2, <2>3 DEF Run, Emit
    <3>2. Good(screen)
      BY <1>1 DEF IInv
    <3>3. Good(write_ch(screen, sym)) /\ KeepsElsewhere(screen, write_ch(screen, sym))
      BY <3>2, Written
    <3>4. screen' = write_ch(screen, sym)
      BY <3>1, <3>3, Called
    <3> QED
      BY <3>3, <3>4
  <2>4. CASE t.action = "None"
    BY <2>2, <2>4 DEF Run, None, NoCall
  <2>5. t.action = "Emit" \/ t.action = "None"
    BY <1>1, AllBalanced DEF Balanced
  <2> QED
    BY <2>3, <2>4, <2>5
<1>2. IInv /\ [Next]_vars => [Untouched]_vars
  <2>1. ASSUME IInv, Next
        PROVE  Untouched
    <3>1. DOMAIN screen.w = 1 .. Rows
      BY <2>1, LenProperties DEF IInv, Good, ScreenType
    <3> QED
      BY <2>1, <3>1, <1>1 DEF KeepsElsewhere, Elsewhere, Region
  <2> QED
    BY <2>1
<1> QED
  BY <1>2, Invariant, PTL DEF OutsideRegionStays, Spec
=============================================================================
