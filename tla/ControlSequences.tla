-------------------------- MODULE ControlSequences --------------------------
(***************************************************************************)
(* What the terminal emulator of src/pexpect-dpty promises: an abstract    *)
(* specification that ANSI.tla is shown to implement.  The stream consists *)
(* of text and of control sequences                                        *)
(*                                                                         *)
(*     ESC [ final      ESC [ n final      ESC [ n ; m final               *)
(*                                                                         *)
(* whose parameters belong to the sequence they are in, and are forgotten  *)
(* with it.  There is no table and no stack.                               *)
(***************************************************************************)
EXTENDS Screen

CONSTANTS
  Symbols,      (* what the stream consists of                             *)
  Digits        (* the digits in it                                        *)

VARIABLES
  screen,
  phase,        (* "text"; "escape" after ESC; "params" and "separator"    *)
                (* within ESC [; "skip" and "private" in what is ignored   *)
  args          (* the parameters of this control sequence so far          *)

vars == <<screen, phase, args>>

Init == screen = NewScreen /\ phase = "text" /\ args = <<>>

(* A parameter that is missing has a default.                              *)
Param(i, default) == IF Len(args) >= i THEN args[i] ELSE default

(* The numbers of parameters a final symbol is known with.                 *)
Arities(sym) ==
  CASE sym \in {"A", "B", "C", "D", "J"} -> {0, 1}
    [] sym \in {"H", "r"} -> {0, 2}
    [] sym = "K" -> {0}
    [] sym = "f" -> {2}
    [] OTHER -> {}

Erase(s, n) == CASE n = 0 -> erase_down(s) [] n = 1 -> erase_up(s)
                 [] n = 2 -> erase_screen(s) [] OTHER -> s

Effect(s, sym) ==
  CASE sym = "A" -> cursor_up(s, Param(1, 1))
    [] sym = "B" -> cursor_down(s, Param(1, 1))
    [] sym = "C" -> cursor_forward(s, Param(1, 1))
    [] sym = "D" -> cursor_back(s, Param(1, 1))
    [] sym \in {"H", "f"} -> cursor_home(s, Param(1, 1), Param(2, 1))
    [] sym = "J" -> Erase(s, Param(1, 0))
    [] sym = "K" -> erase_end_of_line(s)
    [] sym = "r" -> IF args = <<>> THEN scroll_screen(s)
                    ELSE scroll_screen_rows(s, args[1], args[2])

ToText == phase' = "text" /\ args' = <<>>

Character(sym) ==
  /\ phase = "text" /\ sym # "ESC"
  /\ screen' = write_ch(screen, sym)
  /\ UNCHANGED <<phase, args>>

Escape ==
  /\ phase = "text" /\ phase' = "escape"
  /\ UNCHANGED <<screen, args>>

(* ESC and one symbol.                                                     *)
ShortSequence(sym) ==
  /\ phase = "escape"
  /\ screen' = CASE sym = "7" -> cursor_save_attrs(screen)
                 [] sym = "8" -> cursor_restore_attrs(screen)
                 [] sym \in {"M", ">", "<"} -> cursor_up_reverse(screen)
                 [] OTHER -> screen
  /\ phase' = CASE sym = "[" -> "params" [] sym \in {"(", ")", "#"} -> "skip"
                [] OTHER -> "text"
  /\ UNCHANGED args

Skip == phase = "skip" /\ ToText /\ UNCHANGED screen

Private(sym) ==
  /\ \/ phase = "params" /\ args = <<>> /\ sym = "?" /\ phase' = "private"
     \/ phase = "private" /\ phase' = IF sym \in Digits THEN "private" ELSE "text"
  /\ UNCHANGED <<screen, args>>

Digit(d) ==
  /\ \/ phase = "params" /\ args # <<>>
        /\ args' = [args EXCEPT ![Len(args)] = 10 * @ + Value(d)]
     \/ phase = "params" /\ args = <<>> /\ args' = <<Value(d)>>
     \/ phase = "separator" /\ args' = Append(args, Value(d))
  /\ phase' = "params" /\ UNCHANGED screen

Separator ==
  /\ phase = "params" /\ Len(args) = 1 /\ phase' = "separator"
  /\ UNCHANGED <<screen, args>>

(* The end of a control sequence: it takes effect with its parameters, or  *)
(* is ignored when it is not known.                                        *)
Final(sym) ==
  /\ phase = "params" /\ Len(args) \in Arities(sym)
  /\ screen' = Effect(screen, sym) /\ ToText
Ignore(sym) ==
  /\ \/ phase = "params" /\ Len(args) \notin Arities(sym)
        /\ ~(sym = "semi" /\ Len(args) = 1) /\ ~(sym = "?" /\ args = <<>>)
     \/ phase = "separator"
  /\ sym \notin Digits /\ ToText /\ UNCHANGED screen

Next ==
  \/ Escape \/ Skip \/ Separator
  \/ \E sym \in Symbols :
       Character(sym) \/ ShortSequence(sym) \/ Private(sym) \/ Final(sym) \/ Ignore(sym)
  \/ \E d \in Digits : Digit(d)

Spec == Init /\ [][Next]_vars
=============================================================================
