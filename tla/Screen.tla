------------------------------- MODULE Screen -------------------------------
(***************************************************************************)
(* The virtual screen of src/pexpect-dpty/screen.py and the character      *)
(* writer of ANSI.py that is built on it.  A screen is a record with the   *)
(* attributes of the Python object; a method is an operator from a screen  *)
(* to the screen it leaves behind.  The attribute raised is not in the     *)
(* code: it says that the method ended in an exception, what it did before *)
(* stays done.                                                             *)
(***************************************************************************)
EXTENDS Integers, Sequences

CONSTANTS
  Rows, Cols,   (* the size of the screen                                  *)
  Text          (* characters that can be printed, apart from the space    *)

SPACE == " "
Chars == Text \cup {SPACE}

(* Symbols write_ch treats specially: line feed, carriage return,          *)
(* backspace, and those that do not print.                                 *)
LF == "LF"
CR == "CR"
BS == "BS"
NonPrinting == {"BEL", "ESC"}

(* A digit and the number it stands for.                                   *)
Numerals == <<"0", "1", "2", "3", "4", "5", "6", "7", "8", "9">>
Value(d) == (CHOOSE i \in 1 .. 10 : Numerals[i] = d) - 1

ASSUME ScreenAssumption ==
  /\ Rows \in Nat \ {0} /\ Cols \in Nat \ {0}
  /\ Text # {} /\ Text \subseteq STRING

Line == [1 .. Cols -> Chars]
BlankLine == [c \in 1 .. Cols |-> SPACE]

(* Rows are numbered from 1; the number of rows in w is not fixed, the     *)
(* code changes it by assigning to slices.                                 *)
ScreenType ==
  [w : Seq(Line),
   cur_r : 1 .. Rows, cur_c : 1 .. Cols,
   cur_saved_r : 1 .. Rows, cur_saved_c : 1 .. Cols,
   scroll_row_start : Nat \ {0}, scroll_row_end : 0 .. Rows,
   raised : BOOLEAN]

NewScreen ==
  [w |-> [r \in 1 .. Rows |-> BlankLine],
   cur_r |-> 1, cur_c |-> 1, cur_saved_r |-> 1, cur_saved_c |-> 1,
   scroll_row_start |-> 1, scroll_row_end |-> Rows, raised |-> FALSE]

constrain(n, min, max) == IF n < min THEN min ELSE IF n > max THEN max ELSE n

-----------------------------------------------------------------------------
(* The cursor                                                              *)

cursor_constrain(s) == [s EXCEPT !.cur_r = constrain(@, 1, Rows),
                                 !.cur_c = constrain(@, 1, Cols)]
cursor_home(s, r, c) == cursor_constrain([s EXCEPT !.cur_r = r, !.cur_c = c])
back_unconstrained(s, count) == [s EXCEPT !.cur_c = @ - count]   (* variant *)
cursor_back(s, count) == cursor_constrain([s EXCEPT !.cur_c = @ - count])
cursor_down(s, count) == cursor_constrain([s EXCEPT !.cur_r = @ + count])
cursor_forward(s, count) == cursor_constrain([s EXCEPT !.cur_c = @ + count])
cursor_up(s, count) == cursor_constrain([s EXCEPT !.cur_r = @ - count])
cursor_save_attrs(s) == [s EXCEPT !.cur_saved_r = s.cur_r, !.cur_saved_c = s.cur_c]
cursor_restore_attrs(s) == cursor_home(s, s.cur_saved_r, s.cur_saved_c)

-----------------------------------------------------------------------------
(* The characters                                                          *)

(* put_abs at a place on the screen: IndexError when w has lost that row.  *)
put_abs(s, r, c, ch) ==
  IF r <= Len(s.w) THEN [s EXCEPT !.w[r][c] = ch] ELSE [s EXCEPT !.raised = TRUE]

(* put_abs for every place of a region, row by row.                        *)
fill_region(s, rs, cs, re, ce) ==
  LET r1 == constrain(rs, 1, Rows)
      r2 == constrain(re, 1, Rows)
      c1 == constrain(cs, 1, Cols)
      c2 == constrain(ce, 1, Cols)
      Within(i, a, b) == (a <= i /\ i <= b) \/ (b <= i /\ i <= a)
  IN [s EXCEPT !.w = [r \in DOMAIN s.w |->
                        IF Within(r, r1, r2)
                        THEN [c \in 1 .. Cols |->
                                IF Within(c, c1, c2) THEN SPACE ELSE s.w[r][c]]
                        ELSE s.w[r]],
               !.raised = r1 > Len(s.w) \/ r2 > Len(s.w)]

erase_end_of_line(s) == fill_region(s, s.cur_r, s.cur_c, s.cur_r, Cols)
erase_start_of_line(s) == fill_region(s, s.cur_r, 1, s.cur_r, s.cur_c)
erase_line(s) == fill_region(s, s.cur_r, 1, s.cur_r, Cols)
erase_screen(s) == fill_region(s, 1, 1, Rows, Cols)

(* On the last row the second region is that row again, all of it.         *)
erase_down(s) ==
  LET t == erase_end_of_line(s)
  IN IF t.raised THEN t ELSE fill_region(t, t.cur_r + 1, 1, Rows, Cols)

erase_up(s) ==
  LET t == erase_start_of_line(s)
  IN IF t.raised THEN t ELSE fill_region(t, t.cur_r - 1, 1, 1, Cols)

-----------------------------------------------------------------------------
(* Scrolling                                                               *)

scroll_screen(s) == [s EXCEPT !.scroll_row_start = 1, !.scroll_row_end = Rows]

(* with scroll_constrain: only the low end of the start and the high end   *)
(* of the end are looked at.                                               *)
scroll_screen_rows(s, rs, re) ==
  [s EXCEPT !.scroll_row_start = IF rs <= 0 THEN 1 ELSE rs,
            !.scroll_row_end = IF re > Rows THEN Rows ELSE re]

(* Python's reading of a slice bound: -1 is the last row.                  *)
Bound(w, b) == IF b < 0 THEN Len(w) + b ELSE IF b > Len(w) THEN Len(w) ELSE b

(* w[s:e] and w[s:e] = rows, for s >= 0; the first row of w has index 0.   *)
Slice(w, s, e) == SubSeq(w, Bound(w, s) + 1, Bound(w, e))
WithSlice(w, s, e, rows) ==
  LET lo == Bound(w, s)
      hi == IF Bound(w, e) < lo THEN lo ELSE Bound(w, e)
  IN SubSeq(w, 1, lo) \o rows \o SubSeq(w, hi + 1, Len(w))

scroll_up_short(sc) ==           (* variant: the last row is not taken along *)
  LET s == sc.scroll_row_start - 1
      e == sc.scroll_row_end - 1
  IN [sc EXCEPT !.w = WithSlice(@, s, e, Slice(@, s + 1, e))]

scroll_up_all(sc) ==             (* variant: the region's start is not used *)
  LET e == sc.scroll_row_end - 1
  IN [sc EXCEPT !.w = WithSlice(@, 0, e, Slice(@, 1, e + 1))]

(* The last row of the region stays where it is, twice.                    *)
scroll_up(sc) ==
  LET s == sc.scroll_row_start - 1
      e == sc.scroll_row_end - 1
  IN [sc EXCEPT !.w = WithSlice(@, s, e, Slice(@, s + 1, e + 1))]

cursor_up_reverse(s) ==
  LET t == cursor_up(s, 1) IN IF t.cur_r = s.cur_r THEN scroll_up(t) ELSE t

lf(s) ==
  LET t == cursor_down(s, 1)
  IN IF t.cur_r = s.cur_r THEN erase_line(scroll_up(t)) ELSE t

crlf(s) == lf(cursor_home(s, s.cur_r, 1))

-----------------------------------------------------------------------------
(* write_ch                                                                *)

backspace(s) ==
  LET t == cursor_back(s, 1) IN put_abs(t, t.cur_r, t.cur_c, SPACE)

(* A printing character: the cursor wraps, on the last row with a scroll.  *)
print_ch(s, ch) ==
  LET p == put_abs(s, s.cur_r, s.cur_c, ch)
      f == cursor_forward(p, 1)
      d == cursor_down(f, 1)
  IN IF p.raised THEN p
     ELSE IF f.cur_c # s.cur_c THEN f
     ELSE IF d.cur_r # s.cur_r THEN cursor_home(d, d.cur_r, 1)
     ELSE erase_line(cursor_home(scroll_up(d), d.cur_r, 1))

write_ch(s, sym) ==
  IF sym = CR \/ sym \in NonPrinting THEN s
  ELSE IF sym = LF THEN crlf(s)
  ELSE IF sym = BS THEN backspace(s)
  ELSE print_ch(s, sym)
=============================================================================
