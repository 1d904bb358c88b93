--------------------------- MODULE ANSI_refinement ---------------------------
(***************************************************************************)
(* That the terminal emulator implements ControlSequences: with its tables *)
(* and its stack it acts on the parameters of the sequence it is in, for   *)
(* any size of the screen and any stream.                                  *)
(***************************************************************************)
EXTENDS ANSI_proofs

(***************************************************************************)
(* Both modules use the methods of Screen; the instance has its own copies *)
(* of them, which are the same operators.                                  *)
(***************************************************************************)
LEMMA SameCursor ==
  /\ \A s, r, c : CS!cursor_home(s, r, c) = cursor_home(s, r, c)
  /\ \A s, n : CS!cursor_back(s, n) = cursor_back(s, n)
  /\ \A s, n : CS!cursor_forward(s, n) = cursor_forward(s, n)
  /\ \A s, n : CS!cursor_up(s, n) = cursor_up(s, n)
  /\ \A s, n : CS!cursor_down(s, n) = cursor_down(s, n)
  /\ \A s : CS!cursor_save_attrs(s) = cursor_save_attrs(s)
  /\ \A s : CS!cursor_restore_attrs(s) = cursor_restore_attrs(s)
<1>1. \A s, r, c : CS!cursor_home(s, r, c) = cursor_home(s, r, c)
  BY DEF CS!cursor_home, cursor_home, CS!cursor_constrain, cursor_constrain, CS!constrain, constrain
<1>2. \A s, n : CS!cursor_back(s, n) = cursor_back(s, n)
  BY DEF CS!cursor_back, cursor_back, CS!cursor_constrain, cursor_constrain, CS!constrain, constrain
<1>3. \A s, n : CS!cursor_forward(s, n) = cursor_forward(s, n)
  BY DEF CS!cursor_forward, cursor_forward, CS!cursor_constrain, cursor_constrain, CS!constrain, constrain
<1>4. \A s, n : CS!cursor_up(s, n) = cursor_up(s, n)
  BY DEF CS!cursor_up, cursor_up, CS!cursor_constrain, cursor_constrain, CS!constrain, constrain
<1>5. \A s, n : CS!cursor_down(s, n) = cursor_down(s, n)
  BY DEF CS!cursor_down, cursor_down, CS!cursor_constrain, cursor_constrain, CS!constrain, constrain
<1>6. \A s : CS!cursor_save_attrs(s) = cursor_save_attrs(s)
  BY DEF CS!cursor_save_attrs, cursor_save_attrs
<1>7. \A s : CS!cursor_restore_attrs(s) = cursor_restore_attrs(s)
  BY <1>1 DEF CS!cursor_restore_attrs, cursor_restore_attrs
<1> QED
  BY <1>1, <1>2, <1>3, <1>4, <1>5, <1>6, <1>7

LEMMA SameFill ==
  /\ \A s, r, c, ch : CS!put_abs(s, r, c, ch) = put_abs(s, r, c, ch)
  /\ \A s, rs, cs, re, ce : CS!fill_region(s, rs, cs, re, ce) = fill_region(s, rs, cs, re, ce)
  /\ \A s : CS!erase_end_of_line(s) = erase_end_of_line(s)
  /\ \A s : CS!erase_start_of_line(s) = erase_start_of_line(s)
  /\ \A s : CS!erase_line(s) = erase_line(s)
  /\ \A s : CS!erase_screen(s) = erase_screen(s)
  /\ \A s : CS!erase_down(s) = erase_down(s)
  /\ \A s : CS!erase_up(s) = erase_up(s)
<1>1. \A s, r, c, ch : CS!put_abs(s, r, c, ch) = put_abs(s, r, c, ch)
  BY DEF CS!put_abs, put_abs
<1>2. \A s, rs, cs, re, ce : CS!fill_region(s, rs, cs, re, ce) = fill_region(s, rs, cs, re, ce)
  BY DEF CS!fill_region, fill_region, CS!constrain, constrain, CS!SPACE, SPACE
<1>3. \A s : CS!erase_end_of_line(s) = erase_end_of_line(s)
  BY <1>2 DEF CS!erase_end_of_line, erase_end_of_line
<1>4. \A s : CS!erase_start_of_line(s) = erase_start_of_line(s)
  BY <1>2 DEF CS!erase_start_of_line, erase_start_of_line
<1>5. \A s : CS!erase_line(s) = erase_line(s)
  BY <1>2 DEF CS!erase_line, erase_line
<1>6. \A s : CS!erase_screen(s) = erase_screen(s)
  BY <1>2 DEF CS!erase_screen, erase_screen
<1>7. \A s : CS!erase_down(s) = erase_down(s)
  BY <1>2, <1>3 DEF CS!erase_down, erase_down
<1>8. \A s : CS!erase_up(s) = erase_up(s)
  BY <1>2, <1>4 DEF CS!erase_up, erase_up
<1> QED
  BY <1>1, <1>2, <1>3, <1>4, <1>5, <1>6, <1>7, <1>8

LEMMA SameScroll ==
  /\ \A s : CS!scroll_screen(s) = scroll_screen(s)
  /\ \A s, rs, re : CS!scroll_screen_rows(s, rs, re) = scroll_screen_rows(s, rs, re)
  /\ \A s : CS!scroll_up(s) = scroll_up(s)
  /\ \A s : CS!cursor_up_reverse(s) = cursor_up_reverse(s)
  /\ \A s : CS!lf(s) = lf(s)
  /\ \A s : CS!crlf(s) = crlf(s)
<1>1. \A s : CS!scroll_screen(s) = scroll_screen(s)
  BY DEF CS!scroll_screen, scroll_screen
<1>2. \A s, rs, re : CS!scroll_screen_rows(s, rs, re) = scroll_screen_rows(s, rs, re)
  BY DEF CS!scroll_screen_rows, scroll_screen_rows
<1>3. \A s : CS!scroll_up(s) = scroll_up(s)
  BY DEF CS!scroll_up, scroll_up, CS!WithSlice, WithSlice, CS!Slice, Slice, CS!Bound, Bound
<1>4. \A s : CS!cursor_up_reverse(s) = cursor_up_reverse(s)
  BY <1>3, SameCursor DEF CS!cursor_up_reverse, cursor_up_reverse
<1>5. \A s : CS!lf(s) = lf(s)
  BY <1>3, SameCursor, SameFill DEF CS!lf, lf
<1>6. \A s : CS!crlf(s) = crlf(s)
  BY <1>5, SameCursor DEF CS!crlf, crlf
<1> QED
  BY <1>1, <1>2, <1>3, <1>4, <1>5, <1>6

LEMMA SameWriter ==
  /\ \A s : CS!backspace(s) = backspace(s)
  /\ \A s, ch : CS!print_ch(s, ch) = print_ch(s, ch)
  /\ \A s, sym : CS!write_ch(s, sym) = write_ch(s, sym)
<1>1. \A s : CS!backspace(s) = backspace(s)
  BY SameCursor, SameFill DEF CS!backspace, backspace, CS!SPACE, SPACE
<1>2. \A s, ch : CS!print_ch(s, ch) = print_ch(s, ch)
  BY SameCursor, SameFill, SameScroll DEF CS!print_ch, print_ch
<1>3. \A s, sym : CS!write_ch(s, sym) = write_ch(s, sym)
  BY <1>1, <1>2, SameScroll DEF CS!write_ch, write_ch, CS!NonPrinting, NonPrinting, CS!LF, LF, CS!CR, CR, CS!BS, BS
<1> QED
  BY <1>1, <1>2, <1>3

(***************************************************************************)
(* The tables, state by state.                                             *)
(***************************************************************************)
LEMMA GroupStates ==
  /\ \A u \in FromEsc : u.state \in {"INIT", "ESC", "G0SCS", "G1SCS"}
  /\ \A u \in FromBracket : u.state = "ELB"
  /\ \A u \in FromNumber1 : u.state = "NUMBER_1"
  /\ \A u \in FromModecrap : u.state \in {"MODECRAP", "MODECRAP_NUM"}
  /\ \A u \in FromNumber2 : u.state \in {"SEMICOLON", "NUMBER_2"}
<1>1. \A u \in FromEsc : u.state \in {"INIT", "ESC", "G0SCS", "G1SCS"}
  BY DEF FromEsc, Transition, TransitionList
<1>2. \A u \in FromBracket : u.state = "ELB"
  BY DEF FromBracket, Transition, TransitionList
<1>3. \A u \in FromNumber1 : u.state = "NUMBER_1"
  BY DEF FromNumber1, Transition, TransitionList
<1>4. \A u \in FromModecrap : u.state \in {"MODECRAP", "MODECRAP_NUM"}
  BY DEF FromModecrap, Transition, TransitionList
<1>5. \A u \in FromNumber2 : u.state \in {"SEMICOLON", "NUMBER_2"}
  BY DEF FromNumber2, Transition, TransitionList
<1> QED
  BY <1>1, <1>2, <1>3, <1>4, <1>5

(* A row of the table, or, when it has none, the row for the state or the  *)
(* default: Log, but for Emit in INIT and None in GRAPHICS_POUND.          *)
LEMMA RowFound ==
  ASSUME NEW sym, NEW t \in Transitions(sym)
  PROVE  \/ t \in state_transitions /\ t.symbol = sym /\ t.state = current_state
         \/ /\ \A u \in state_transitions : ~(u.symbol = sym /\ u.state = current_state)
            /\ t.next = "INIT"
            /\ t.action = CASE current_state = "INIT" -> "Emit"
                            [] current_state = "GRAPHICS_POUND" -> "None"
                            [] OTHER -> "Log"
<1>1. CASE t \in Exact(state_transitions, sym, current_state)
  BY <1>1 DEF Exact
<1>2. CASE /\ Exact(state_transitions, sym, current_state) = {}
           /\ t \in ForState(state_transitions_any, current_state)
  <2>1. \A u \in state_transitions : ~(u.symbol = sym /\ u.state = current_state)
    BY <1>2 DEF Exact
  <2>2. t \in state_transitions_any /\ t.state = current_state
    BY <1>2 DEF ForState
  <2>3. /\ t.next = "INIT"
        /\ t.action = CASE current_state = "INIT" -> "Emit"
                        [] current_state = "GRAPHICS_POUND" -> "None"
                        [] OTHER -> "Log"
    BY <2>2 DEF state_transitions_any, AnySymbol
  <2> QED
    BY <2>1, <2>3
<1>3. CASE /\ Exact(state_transitions, sym, current_state) = {}
           /\ ForState(state_transitions_any, current_state) = {}
           /\ t = default_transition
  <2>1. \A u \in state_transitions : ~(u.symbol = sym /\ u.state = current_state)
    BY <1>3 DEF Exact
  <2>2. ASSUME NEW st \in {"INIT", "GRAPHICS_POUND"}
        PROVE  \E u \in state_transitions_any : u.state = st
    BY DEF state_transitions_any, AnySymbol
  <2>3. current_state \notin {"INIT", "GRAPHICS_POUND"}
    BY <2>2, <1>3 DEF ForState
  <2> QED
    BY <2>1, <2>3, <1>3 DEF default_transition, Otherwise
<1> QED
  BY <1>1, <1>2, <1>3 DEF Transitions, get_transition

LEMMA TextRows ==
  ASSUME current_state = "INIT", NEW sym, NEW t \in Transitions(sym)
  PROVE  \/ sym = "ESC" /\ t.action = "None" /\ t.next = "ESC"
         \/ /\ sym \notin {"ESC"}
            /\ t.action = "Emit" /\ t.next = "INIT"
<1>1. CASE t \in state_transitions /\ t.symbol = sym /\ t.state = "INIT"
  <2>1. t \in FromEsc
    BY <1>1, GroupStates DEF state_transitions
  <2> QED
    BY <2>1, <1>1 DEF FromEsc, Transition, TransitionList
<1>2. CASE \A u \in state_transitions : ~(u.symbol = sym /\ u.state = "INIT")
  <2>1. \A a, n : Transition(sym, "INIT", a, n) \notin FromEsc
    BY <1>2 DEF state_transitions, Transition
  <2>2. sym \notin {"ESC"}
    BY <2>1, Zenon DEF FromEsc, TransitionList
  <2> QED
    BY <2>2, <1>2, RowFound
<1> QED
  BY <1>1, <1>2, RowFound

LEMMA EscapeRows ==
  ASSUME current_state = "ESC", NEW sym, NEW t \in Transitions(sym)
  PROVE  \/ sym = "7" /\ t.action = "DoCursorSave" /\ t.next = "INIT"
         \/ sym = "8" /\ t.action = "DoCursorRestore" /\ t.next = "INIT"
         \/ sym \in {"M", ">", "<"} /\ t.action = "DoUpReverse" /\ t.next = "INIT"
         \/ sym = "=" /\ t.action = "None" /\ t.next = "INIT"
         \/ sym = "(" /\ t.action = "None" /\ t.next = "G0SCS"
         \/ sym = ")" /\ t.action = "None" /\ t.next = "G1SCS"
         \/ sym = "#" /\ t.action = "None" /\ t.next = "GRAPHICS_POUND"
         \/ sym = "[" /\ t.action = "None" /\ t.next = "ELB"
         \/ /\ sym \notin {"7", "8", "M", ">", "<", "=", "(", ")", "#", "["}
            /\ t.action = "Log" /\ t.next = "INIT"
<1>1. CASE t \in state_transitions /\ t.symbol = sym /\ t.state = "ESC"
  <2>1. t \in FromEsc
    BY <1>1, GroupStates DEF state_transitions
  <2> QED
    BY <2>1, <1>1 DEF FromEsc, Transition, TransitionList
<1>2. CASE \A u \in state_transitions : ~(u.symbol = sym /\ u.state = "ESC")
  <2>1. \A a, n : Transition(sym, "ESC", a, n) \notin FromEsc
    BY <1>2 DEF state_transitions, Transition
  <2>2. sym \notin {"7"}
    BY <2>1, Zenon DEF FromEsc, TransitionList
  <2>3. sym \notin {"8"}
    BY <2>1, Zenon DEF FromEsc, TransitionList
  <2>4. sym \notin {"M", ">", "<"}
    BY <2>1, Zenon DEF FromEsc, TransitionList
  <2>5. sym \notin {"="}
    BY <2>1, Zenon DEF FromEsc, TransitionList
  <2>6. sym \notin {"("}
    BY <2>1, Zenon DEF FromEsc, TransitionList
  <2>7. sym \notin {")"}
    BY <2>1, Zenon DEF FromEsc, TransitionList
  <2>8. sym \notin {"#"}
    BY <2>1, Zenon DEF FromEsc, TransitionList
  <2>9. sym \notin {"["}
    BY <2>1, Zenon DEF FromEsc, TransitionList
  <2> QED
    BY <2>2, <2>3, <2>4, <2>5, <2>6, <2>7, <2>8, <2>9, <1>2, RowFound
<1> QED
  BY <1>1, <1>2, RowFound

LEMMA BracketRows ==
  ASSUME current_state = "ELB", NEW sym, NEW t \in Transitions(sym)
  PROVE  \/ sym = "H" /\ t.action = "DoHomeOrigin" /\ t.next = "INIT"
         \/ sym = "D" /\ t.action = "DoBackOne" /\ t.next = "INIT"
         \/ sym = "B" /\ t.action = "DoDownOne" /\ t.next = "INIT"
         \/ sym = "C" /\ t.action = "DoForwardOne" /\ t.next = "INIT"
         \/ sym = "A" /\ t.action = "DoUpOne" /\ t.next = "INIT"
         \/ sym = "J" /\ t.action = "DoEraseDown" /\ t.next = "INIT"
         \/ sym = "K" /\ t.action = "DoEraseEndOfLine" /\ t.next = "INIT"
         \/ sym = "r" /\ t.action = "DoEnableScroll" /\ t.next = "INIT"
         \/ sym = "m" /\ t.action = "None" /\ t.next = "INIT"
         \/ sym = "?" /\ t.action = "None" /\ t.next = "MODECRAP"
         \/ sym \in Digits /\ t.action = "StartNumber" /\ t.next = "NUMBER_1"
         \/ /\ sym \notin {"H", "D", "B", "C", "A", "J", "K", "r", "m", "?"} \cup Digits
            /\ t.action = "Log" /\ t.next = "INIT"
<1>1. CASE t \in state_transitions /\ t.symbol = sym /\ t.state = "ELB"
  <2>1. t \in FromBracket
    BY <1>1, GroupStates DEF state_transitions
  <2> QED
    BY <2>1, <1>1 DEF FromBracket, Transition, TransitionList
<1>2. CASE \A u \in state_transitions : ~(u.symbol = sym /\ u.state = "ELB")
  <2>1. \A a, n : Transition(sym, "ELB", a, n) \notin FromBracket
    BY <1>2 DEF state_transitions, Transition
  <2>2. sym \notin {"H"}
    BY <2>1, Zenon DEF FromBracket, TransitionList
  <2>3. sym \notin {"D"}
    BY <2>1, Zenon DEF FromBracket, TransitionList
  <2>4. sym \notin {"B"}
    BY <2>1, Zenon DEF FromBracket, TransitionList
  <2>5. sym \notin {"C"}
    BY <2>1, Zenon DEF FromBracket, TransitionList
  <2>6. sym \notin {"A"}
    BY <2>1, Zenon DEF FromBracket, TransitionList
  <2>7. sym \notin {"J"}
    BY <2>1, Zenon DEF FromBracket, TransitionList
  <2>8. sym \notin {"K"}
    BY <2>1, Zenon DEF FromBracket, TransitionList
  <2>9. sym \notin {"r"}
    BY <2>1, Zenon DEF FromBracket, TransitionList
  <2>10. sym \notin {"m"}
    BY <2>1, Zenon DEF FromBracket, TransitionList
  <2>11. sym \notin {"?"}
    BY <2>1, Zenon DEF FromBracket, TransitionList
  <2>12. sym \notin Digits
    BY <2>1, Zenon DEF FromBracket, TransitionList
  <2> QED
    BY <2>2, <2>3, <2>4, <2>5, <2>6, <2>7, <2>8, <2>9, <2>10, <2>11, <2>12, <1>2, RowFound
<1> QED
  BY <1>1, <1>2, RowFound

LEMMA Number1Rows ==
  ASSUME current_state = "NUMBER_1", NEW sym, NEW t \in Transitions(sym)
  PROVE  \/ sym = "D" /\ t.action = "DoBack" /\ t.next = "INIT"
         \/ sym = "B" /\ t.action = "DoDown" /\ t.next = "INIT"
         \/ sym = "C" /\ t.action = "DoForward" /\ t.next = "INIT"
         \/ sym = "A" /\ t.action = "DoUp" /\ t.next = "INIT"
         \/ sym = "J" /\ t.action = "DoErase" /\ t.next = "INIT"
         \/ sym = "K" /\ t.action = "DoEraseLine" /\ t.next = "INIT"
         \/ sym = "l" /\ t.action = "DoMode" /\ t.next = "INIT"
         \/ sym \in {"m", "q"} /\ t.action = "None" /\ t.next = "INIT"
         \/ sym = "semi" /\ t.action = "None" /\ t.next = "SEMICOLON"
         \/ sym \in Digits /\ t.action = "BuildNumber" /\ t.next = "NUMBER_1"
         \/ /\ sym \notin {"D", "B", "C", "A", "J", "K", "l", "m", "q", "semi"} \cup Digits
            /\ t.action = "Log" /\ t.next = "INIT"
<1>1. CASE t \in state_transitions /\ t.symbol = sym /\ t.state = "NUMBER_1"
  <2>1. t \in FromNumber1
    BY <1>1, GroupStates DEF state_transitions
  <2> QED
    BY <2>1, <1>1 DEF FromNumber1, Transition, TransitionList
<1>2. CASE \A u \in state_transitions : ~(u.symbol = sym /\ u.state = "NUMBER_1")
  <2>1. \A a, n : Transition(sym, "NUMBER_1", a, n) \notin FromNumber1
    BY <1>2 DEF state_transitions, Transition
  <2>2. sym \notin {"D"}
    BY <2>1, Zenon DEF FromNumber1, TransitionList
  <2>3. sym \notin {"B"}
    BY <2>1, Zenon DEF FromNumber1, TransitionList
  <2>4. sym \notin {"C"}
    BY <2>1, Zenon DEF FromNumber1, TransitionList
  <2>5. sym \notin {"A"}
    BY <2>1, Zenon DEF FromNumber1, TransitionList
  <2>6. sym \notin {"J"}
    BY <2>1, Zenon DEF FromNumber1, TransitionList
  <2>7. sym \notin {"K"}
    BY <2>1, Zenon DEF FromNumber1, TransitionList
  <2>8. sym \notin {"l"}
    BY <2>1, Zenon DEF FromNumber1, TransitionList
  <2>9. sym \notin {"m", "q"}
    BY <2>1, Zenon DEF FromNumber1, TransitionList
  <2>10. sym \notin {"semi"}
    BY <2>1, Zenon DEF FromNumber1, TransitionList
  <2>11. sym \notin Digits
    BY <2>1, Zenon DEF FromNumber1, TransitionList
  <2> QED
    BY <2>2, <2>3, <2>4, <2>5, <2>6, <2>7, <2>8, <2>9, <2>10, <2>11, <1>2, RowFound
<1> QED
  BY <1>1, <1>2, RowFound

LEMMA SemicolonRows ==
  ASSUME current_state = "SEMICOLON", NEW sym, NEW t \in Transitions(sym)
  PROVE  \/ sym \in Digits /\ t.action = "StartNumber" /\ t.next = "NUMBER_2"
         \/ /\ sym \notin Digits
            /\ t.action = "Log" /\ t.next = "INIT"
<1>1. CASE t \in state_transitions /\ t.symbol = sym /\ t.state = "SEMICOLON"
  <2>1. t \in FromNumber2
    BY <1>1, GroupStates DEF state_transitions
  <2> QED
    BY <2>1, <1>1 DEF FromNumber2, Transition, TransitionList
<1>2. CASE \A u \in state_transitions : ~(u.symbol = sym /\ u.state = "SEMICOLON")
  <2>1. \A a, n : Transition(sym, "SEMICOLON", a, n) \notin FromNumber2
    BY <1>2 DEF state_transitions, Transition
  <2>2. sym \notin Digits
    BY <2>1, Zenon DEF FromNumber2, TransitionList
  <2> QED
    BY <2>2, <1>2, RowFound
<1> QED
  BY <1>1, <1>2, RowFound

LEMMA Number2Rows ==
  ASSUME current_state = "NUMBER_2", NEW sym, NEW t \in Transitions(sym)
  PROVE  \/ sym = "r" /\ t.action = "DoScrollRegion" /\ t.next = "INIT"
         \/ sym \in {"H", "f"} /\ t.action = "DoHome" /\ t.next = "INIT"
         \/ sym \in {"m", "q"} /\ t.action = "None" /\ t.next = "INIT"
         \/ sym \in Digits /\ t.action = "BuildNumber" /\ t.next = "NUMBER_2"
         \/ /\ sym \notin {"r", "H", "f", "m", "q"} \cup Digits
            /\ t.action = "Log" /\ t.next = "INIT"
<1>1. CASE t \in state_transitions /\ t.symbol = sym /\ t.state = "NUMBER_2"
  <2>1. t \in FromNumber2
    BY <1>1, GroupStates DEF state_transitions
  <2> QED
    BY <2>1, <1>1 DEF FromNumber2, Transition, TransitionList
<1>2. CASE \A u \in state_transitions : ~(u.symbol = sym /\ u.state = "NUMBER_2")
  <2>1. \A a, n : Transition(sym, "NUMBER_2", a, n) \notin FromNumber2
    BY <1>2 DEF state_transitions, Transition
  <2>2. sym \notin {"r"}
    BY <2>1, Zenon DEF FromNumber2, TransitionList
  <2>3. sym \notin {"H", "f"}
    BY <2>1, Zenon DEF FromNumber2, TransitionList
  <2>4. sym \notin {"m", "q"}
    BY <2>1, Zenon DEF FromNumber2, TransitionList
  <2>5. sym \notin Digits
    BY <2>1, Zenon DEF FromNumber2, TransitionList
  <2> QED
    BY <2>2, <2>3, <2>4, <2>5, <1>2, RowFound
<1> QED
  BY <1>1, <1>2, RowFound

LEMMA ModecrapRows ==
  ASSUME current_state = "MODECRAP", NEW sym, NEW t \in Transitions(sym)
  PROVE  \/ sym \in Digits /\ t.action = "StartNumber" /\ t.next = "MODECRAP_NUM"
         \/ /\ sym \notin Digits
            /\ t.action = "Log" /\ t.next = "INIT"
<1>1. CASE t \in state_transitions /\ t.symbol = sym /\ t.state = "MODECRAP"
  <2>1. t \in FromModecrap
    BY <1>1, GroupStates DEF state_transitions
  <2> QED
    BY <2>1, <1>1 DEF FromModecrap, Transition, TransitionList
<1>2. CASE \A u \in state_transitions : ~(u.symbol = sym /\ u.state = "MODECRAP")
  <2>1. \A a, n : Transition(sym, "MODECRAP", a, n) \notin FromModecrap
    BY <1>2 DEF state_transitions, Transition
  <2>2. sym \notin Digits
    BY <2>1, Zenon DEF FromModecrap, TransitionList
  <2> QED
    BY <2>2, <1>2, RowFound
<1> QED
  BY <1>1, <1>2, RowFound

LEMMA ModecrapNumRows ==
  ASSUME current_state = "MODECRAP_NUM", NEW sym, NEW t \in Transitions(sym)
  PROVE  \/ sym \in Digits /\ t.action = "BuildNumber" /\ t.next = "MODECRAP_NUM"
         \/ sym \in {"l", "h"} /\ t.action = "None" /\ t.next = "INIT"
         \/ /\ sym \notin {"l", "h"} \cup Digits
            /\ t.action = "Log" /\ t.next = "INIT"
<1>1. CASE t \in state_transitions /\ t.symbol = sym /\ t.state = "MODECRAP_NUM"
  <2>1. t \in FromModecrap
    BY <1>1, GroupStates DEF state_transitions
  <2> QED
    BY <2>1, <1>1 DEF FromModecrap, Transition, TransitionList
<1>2. CASE \A u \in state_transitions : ~(u.symbol = sym /\ u.state = "MODECRAP_NUM")
  <2>1. \A a, n : Transition(sym, "MODECRAP_NUM", a, n) \notin FromModecrap
    BY <1>2 DEF state_transitions, Transition
  <2>2. sym \notin Digits
    BY <2>1, Zenon DEF FromModecrap, TransitionList
  <2>3. sym \notin {"l", "h"}
    BY <2>1, Zenon DEF FromModecrap, TransitionList
  <2> QED
    BY <2>2, <2>3, <1>2, RowFound
<1> QED
  BY <1>1, <1>2, RowFound

(* What is ignored after ESC ( and the like.                               *)
LEMMA SkipRows ==
  ASSUME current_state \in {"G0SCS", "G1SCS", "GRAPHICS_POUND"}, NEW sym,
         NEW t \in Transitions(sym)
  PROVE  t.action \in {"None", "Log"} /\ t.next = "INIT"
<1>1. ASSUME NEW u \in state_transitions, u.state = current_state
      PROVE  u.action = "None" /\ u.next = "INIT"
  <2>1. u \in FromEsc
    BY <1>1, GroupStates DEF state_transitions
  <2> QED
    BY <2>1, <1>1 DEF FromEsc, Transition, TransitionList
<1> QED
  BY <1>1, RowFound

(***************************************************************************)
(* The mapping: what the abstract state is in each state of the machine.   *)
(***************************************************************************)
Mapped ==
  /\ current_state = "INIT" => Phase = "text" /\ Args = <<>>
  /\ current_state = "ESC" => Phase = "escape" /\ Args = <<>>
  /\ current_state \in {"G0SCS", "G1SCS", "GRAPHICS_POUND"} => Phase = "skip" /\ Args = <<>>
  /\ current_state = "ELB" => Phase = "params" /\ Args = <<>>
  /\ current_state \in {"MODECRAP", "MODECRAP_NUM"} => Phase = "private" /\ Args = <<>>
  /\ current_state = "NUMBER_1" => Phase = "params" /\ Args = <<Arg(1)>>
  /\ current_state = "SEMICOLON" => Phase = "separator" /\ Args = <<Arg(1)>>
  /\ current_state = "NUMBER_2" => Phase = "params" /\ Args = <<Arg(2), Arg(1)>>

LEMMA OnTop ==
  ASSUME NEW m, NEW k \in 0 .. 2, Ready(m, k)
  PROVE  SubSeq(m, Len(m) - k + 1, Len(m)) =
           CASE k = 0 -> <<>> [] k = 1 -> <<m[Len(m)]>> [] k = 2 -> <<m[Len(m) - 1], m[Len(m)]>>
<1> DEFINE r == SubSeq(m, Len(m) - k + 1, Len(m))
<1>1. m \in Seq(Nat \cup {Self}) /\ Len(m) \in Nat /\ Len(m) > k
  BY LenProperties DEF Ready
<1>2. \A i \in Len(m) - k + 1 .. Len(m) : m[i] \in Nat \cup {Self}
  BY <1>1, ElementOfSeq
<1>3. /\ r \in Seq(Nat \cup {Self}) /\ Len(r) = k
      /\ \A i \in 1 .. k : r[i] = m[Len(m) - k + i]
  BY <1>1, <1>2, SubSeqProperties
<1> HIDE DEF r
<1>4. ASSUME k = 0
      PROVE  r = <<>>
  BY <1>3, <1>4, EmptySeq
<1>5. ASSUME k = 1
      PROVE  r = <<m[Len(m)]>>
  <2>1. r[1] = m[Len(m)]
    BY <1>1, <1>3, <1>5
  <2> QED
    BY <2>1, <1>3, <1>5
<1>6. ASSUME k = 2
      PROVE  r = <<m[Len(m) - 1], m[Len(m)]>>
  <2>1. r[1] = m[Len(m) - 1] /\ r[2] = m[Len(m)]
    BY <1>1, <1>3, <1>6
  <2> QED
    BY <2>1, <1>3, <1>6
<1>7. k = 0 \/ k = 1 \/ k = 2
  OBVIOUS
<1> QED
  BY <1>4, <1>5, <1>6, <1>7 DEF r

LEMMA StateMapped == IInv => Mapped
<1> SUFFICES ASSUME IInv
             PROVE  Mapped
  OBVIOUS
<1>1. Len(memory) \in Nat
  BY LenProperties DEF IInv, Ready
<1>2. Top(Operands) = CASE Need(current_state) = 0 -> <<>>
                        [] Need(current_state) = 1 -> <<Arg(1)>>
                        [] Need(current_state) = 2 -> <<Arg(2), Arg(1)>>
  <2>1. Top(Operands) = SubSeq(memory, Len(memory) - Need(current_state) + 1, Len(memory))
    BY OperandsNeeded DEF Top
  <2>2. Arg(1) = memory[Len(memory)] /\ Arg(2) = memory[Len(memory) - 1]
    BY <1>1 DEF Arg
  <2> QED
    BY <2>1, <2>2, Needs, OnTop DEF IInv
<1>3. Args = IF current_state = "MODECRAP_NUM" THEN <<>> ELSE Top(Operands)
  BY DEF Args
<1> HIDE DEF Args
<1> QED
  BY <1>2, <1>3 DEF Mapped, Phase, Need

(***************************************************************************)
(* What a step does, by the action of its row.                             *)
(***************************************************************************)
Takes(t, sym) ==
  /\ t \in Transitions(sym)
  /\ Run(t.action, sym)
  /\ current_state' = IF raised' THEN current_state ELSE t.next

LEMMA Effects ==
  ASSUME ~EmptyRegions, IInv, NEW sym, NEW t, Takes(t, sym)
  PROVE  /\ t.action \in PopNone =>
              memory' = memory /\ screen' = Shows(t.action) /\ current_state' = t.next
         /\ t.action \in PopOne \cup PopTwo =>
              screen' = Shows(t.action) /\ current_state' = t.next
         /\ t.action \in {"StartNumber", "BuildNumber", "Log"} =>
              screen' = screen /\ current_state' = t.next
<1> DEFINE k == Need(current_state)
<1>1. /\ Good(screen) /\ Ready(memory, k) /\ k \in 0 .. 2
      /\ Run(t.action, sym) /\ current_state' = IF raised' THEN current_state ELSE t.next
      /\ Balanced(t, current_state, sym)
  BY Needs, AllBalanced DEF IInv, Takes
<1> HIDE DEF k
<1>2. CASE t.action \in PopNone
  <2>1. Outcome(k) /\ memory' = memory /\ screen' = Shows(t.action)
    BY <1>1, <1>2, NothingPopped
  <2> QED
    BY <2>1, <1>1, <1>2 DEF Outcome, PopNone, PopOne, PopTwo
<1>3. CASE t.action \in PopOne
  <2>1. k >= 1
    BY <1>1, <1>3 DEF Balanced, PopNone, PopOne, PopTwo, k
  <2>2. Outcome(0) /\ screen' = Shows(t.action)
    BY <2>1, <1>1, <1>3, OnePopped
  <2> QED
    BY <2>2, <1>1, <1>3 DEF Outcome, PopNone, PopOne
<1>4. CASE t.action \in PopTwo
  <2>1. k = 2
    BY <1>1, <1>4 DEF Balanced, PopNone, PopOne, PopTwo, k
  <2>2. Outcome(0) /\ screen' = Shows(t.action)
    BY <2>1, <1>1, <1>4, TwoPopped
  <2> QED
    BY <2>2, <1>1, <1>4 DEF Outcome, PopNone, PopTwo
<1>5. CASE t.action \in {"StartNumber", "BuildNumber", "Log"}
  <2>1. NoCall
    BY <1>1, <1>5 DEF Run, StartNumber, BuildNumber, Log
  <2> QED
    BY <2>1, <1>1, <1>5 DEF NoCall, PopNone, PopOne, PopTwo
<1> QED
  BY <1>2, <1>3, <1>4, <1>5

(* A digit is the first of a number, or one more of the last one.          *)
LEMMA NumberRead ==
  ASSUME IInv, NEW sym \in Digits, NEW k \in Nat, Ready(memory, k)
  PROVE  /\ Run("StartNumber", sym) => Arg(1)' = Value(sym) /\ Arg(2)' = Arg(1)
         /\ k >= 1 /\ Run("BuildNumber", sym) =>
              /\ Arg(1)' = 10 * Arg(1) + Value(sym)
              /\ k >= 2 => Arg(2)' = Arg(2)
<1>1. memory \in Seq(Nat \cup {Self}) /\ Len(memory) \in Nat /\ Len(memory) > k
  BY LenProperties DEF Ready
<1>2. Value(sym) \in Nat
  BY DigitValue
<1>3. ASSUME Run("StartNumber", sym)
      PROVE  Arg(1)' = Value(sym) /\ Arg(2)' = Arg(1)
  <2>1. memory' = Append(memory, Value(sym))
    BY <1>3 DEF Run, StartNumber
  <2>2. Len(memory') = Len(memory) + 1 /\ memory'[Len(memory) + 1] = Value(sym)
        /\ \A i \in 1 .. Len(memory) : memory'[i] = memory[i]
    BY <2>1, <1>1, <1>2, AppendProperties
  <2> QED
    BY <2>2, <1>1 DEF Arg
<1>4. ASSUME k >= 1, Run("BuildNumber", sym)
      PROVE  Arg(1)' = 10 * Arg(1) + Value(sym) /\ (k >= 2 => Arg(2)' = Arg(2))
  <2> DEFINE n == 10 * Arg(1) + Value(sym)
             r == SubSeq(memory, 1, Len(memory) - 1)
  <2>1. memory' = Append(r, n)
    BY <1>4 DEF Run, BuildNumber, Popped
  <2>2. n \in Nat
    <3>1. 1 \in Nat /\ 1 \in 1 .. k
      BY <1>4
    <3>2. Arg(1) \in Nat
      BY <3>1, <1>4, Pops DEF Arg
    <3> QED
      BY <3>2, <1>2
  <2>3. /\ r \in Seq(Nat \cup {Self}) /\ Len(r) = Len(memory) - 1
        /\ \A i \in 1 .. Len(memory) - 1 : r[i] = memory[i]
    <3>1. \A i \in 1 .. Len(memory) - 1 : memory[i] \in Nat \cup {Self}
      BY <1>1, ElementOfSeq
    <3> QED
      BY <3>1, <1>1, <1>4, SubSeqProperties
  <2> HIDE DEF n, r
  <2>4. Len(memory') = Len(memory) /\ memory'[Len(memory)] = n
        /\ \A i \in 1 .. Len(memory) - 1 : memory'[i] = memory[i]
    BY <2>1, <2>2, <2>3, <1>1, <1>4, AppendProperties
  <2>5. Arg(1)' = n
    BY <2>4, <1>1 DEF Arg
  <2>6. k >= 2 => Arg(2)' = Arg(2)
    BY <2>4, <1>1 DEF Arg
  <2> QED
    BY <2>5, <2>6 DEF n
<1> QED
  BY <1>3, <1>4

LEMMA NextMapped == IInv' => Mapped'
BY StateMapped, PTL

(***************************************************************************)
(* The steps of the abstract specification.                                *)
(***************************************************************************)
LEMMA FinalStep ==
  ASSUME NEW sym \in Symbols, Phase = "params", Len(Args) \in CS!Arities(sym),
         screen' = CS!Effect(screen, sym), Phase' = "text", Args' = <<>>
  PROVE  CS!Next
BY DEF CS!Next, CS!Final, CS!ToText

LEMMA IgnoreStep ==
  ASSUME NEW sym \in Symbols, sym \notin Digits, screen' = screen, Phase' = "text", Args' = <<>>,
         \/ Phase = "separator"
         \/ /\ Phase = "params" /\ Len(Args) \notin CS!Arities(sym)
            /\ ~(sym = "semi" /\ Len(Args) = 1) /\ ~(sym = "?" /\ Args = <<>>)
  PROVE  CS!Next
BY DEF CS!Next, CS!Ignore, CS!ToText

LEMMA DigitStep ==
  ASSUME NEW d \in Digits, screen' = screen, Phase' = "params",
         \/ Phase = "params" /\ Args # <<>>
            /\ Args' = [Args EXCEPT ![Len(Args)] = 10 * @ + Value(d)]
         \/ Phase = "params" /\ Args = <<>> /\ Args' = <<Value(d)>>
         \/ Phase = "separator" /\ Args' = Append(Args, Value(d))
  PROVE  CS!Next
<1>1. CS!Value(d) = Value(d)
  BY DEF CS!Value, Value, CS!Numerals, Numerals
<1>2. CS!Digit(d)
  BY <1>1 DEF CS!Digit
<1> QED
  BY <1>2 DEF CS!Next

LEMMA PrivateStep ==
  ASSUME NEW sym \in Symbols, screen' = screen, Args' = Args,
         \/ Phase = "params" /\ Args = <<>> /\ sym = "?" /\ Phase' = "private"
         \/ Phase = "private" /\ Phase' = IF sym \in Digits THEN "private" ELSE "text"
  PROVE  CS!Next
BY DEF CS!Next, CS!Private

LEMMA NotDigits == {"A", "B", "C", "D", "H", "J", "K", "M", "f", "h", "l", "m", "q", "r",
                    "<", ">", "=", "#", "(", ")", "[", "semi", "?"} \cap Digits = {}
BY ANSIAssumption

(***************************************************************************)
(* The steps of the machine, state by state.                               *)
(***************************************************************************)
LEMMA TextRefines ==
  ASSUME ~EmptyRegions, IInv, IInv', NEW sym \in Printed, NEW t, Takes(t, sym),
         current_state = "INIT"
  PROVE  CS!Next
<1>1. Mapped /\ Mapped'
  BY StateMapped, NextMapped
<1>2. sym \in Symbols
  BY DEF Symbols
<1>3. CASE sym = "ESC" /\ t.action = "None" /\ t.next = "ESC"
  <2>1. screen' = screen /\ current_state' = "ESC"
    BY <1>3, Effects DEF Shows, PopNone
  <2> QED
    BY <2>1, <1>1 DEF Mapped, CS!Next, CS!Escape
<1>4. CASE sym # "ESC" /\ t.action = "Emit" /\ t.next = "INIT"
  <2>1. Good(write_ch(screen, sym)) /\ Call(write_ch(screen, sym))
    BY <1>4, Written DEF IInv, Takes, Run, Emit
  <2>2. screen' = write_ch(screen, sym) /\ current_state' = "INIT"
    BY <2>1, <1>4, Called DEF Takes
  <2>3. CS!Character(sym)
    BY <2>2, <1>1, <1>4, SameWriter DEF Mapped, CS!Character
  <2> QED
    BY <2>3, <1>2 DEF CS!Next
<1> QED
  BY <1>3, <1>4, TextRows DEF Takes

LEMMA EscapeRefines ==
  ASSUME ~EmptyRegions, IInv, IInv', NEW sym \in Symbols, NEW t, Takes(t, sym),
         current_state = "ESC"
  PROVE  CS!Next
<1>1. Mapped /\ Mapped'
  BY StateMapped, NextMapped
<1>2. SUFFICES CS!ShortSequence(sym)
  BY DEF CS!Next
<1>3. CASE sym = "7" /\ t.action = "DoCursorSave" /\ t.next = "INIT"
  <2>1. screen' = cursor_save_attrs(screen) /\ current_state' = "INIT"
    BY <1>3, Effects DEF Shows, PopNone
  <2> QED
    BY <2>1, <1>1, <1>3, SameCursor DEF Mapped, CS!ShortSequence
<1>4. CASE sym = "8" /\ t.action = "DoCursorRestore" /\ t.next = "INIT"
  <2>1. screen' = cursor_restore_attrs(screen) /\ current_state' = "INIT"
    BY <1>4, Effects DEF Shows, PopNone
  <2> QED
    BY <2>1, <1>1, <1>4, SameCursor DEF Mapped, CS!ShortSequence
<1>5. CASE sym \in {"M", ">", "<"} /\ t.action = "DoUpReverse" /\ t.next = "INIT"
  <2>1. screen' = cursor_up_reverse(screen) /\ current_state' = "INIT"
    BY <1>5, Effects DEF Shows, PopNone
  <2> QED
    BY <2>1, <1>1, <1>5, SameScroll DEF Mapped, CS!ShortSequence
<1>6. CASE /\ sym \in {"=", "(", ")", "#", "["} /\ t.action = "None"
           /\ t.next = CASE sym = "(" -> "G0SCS" [] sym = ")" -> "G1SCS"
                         [] sym = "#" -> "GRAPHICS_POUND" [] sym = "[" -> "ELB"
                         [] sym = "=" -> "INIT"
  <2>1. screen' = screen /\ current_state' = t.next
    BY <1>6, Effects DEF Shows, PopNone
  <2> QED
    BY <2>1, <1>1, <1>6 DEF Mapped, CS!ShortSequence
<1>7. CASE /\ sym \notin {"7", "8", "M", ">", "<", "=", "(", ")", "#", "["}
           /\ t.action = "Log" /\ t.next = "INIT"
  <2>1. screen' = screen /\ current_state' = "INIT"
    BY <1>7, Effects
  <2> QED
    BY <2>1, <1>1, <1>7 DEF Mapped, CS!ShortSequence
<1> QED
  BY <1>3, <1>4, <1>5, <1>6, <1>7, EscapeRows DEF Takes

LEMMA SkipRefines ==
  ASSUME ~EmptyRegions, IInv, IInv', NEW sym \in Symbols, NEW t, Takes(t, sym),
         current_state \in {"G0SCS", "G1SCS", "GRAPHICS_POUND"}
  PROVE  CS!Next
<1>1. Mapped /\ Mapped'
  BY StateMapped, NextMapped
<1>2. t.action \in {"None", "Log"} /\ t.next = "INIT"
  BY SkipRows DEF Takes
<1>3. screen' = screen /\ current_state' = "INIT"
  BY <1>2, Effects DEF Shows, PopNone
<1> QED
  BY <1>1, <1>3 DEF Mapped, CS!Next, CS!Skip, CS!ToText

LEMMA BracketRefines ==
  ASSUME ~EmptyRegions, IInv, IInv', NEW sym \in Symbols, NEW t, Takes(t, sym),
         current_state = "ELB"
  PROVE  CS!Next
<1>1. Mapped /\ Mapped'
  BY StateMapped, NextMapped
<1>2. Phase = "params" /\ Args = <<>> /\ Len(Args) = 0
  BY <1>1 DEF Mapped
<1>3. ASSUME t.next = "INIT", t.action \in PopNone \cup {"Log"}
      PROVE  Phase' = "text" /\ Args' = <<>>
  BY <1>1, <1>3, Effects DEF Mapped
<1>4. CASE sym = "H" /\ t.action = "DoHomeOrigin" /\ t.next = "INIT"
  <2>1. screen' = cursor_home(screen, 1, 1)
    BY <1>4, Effects DEF Shows, PopNone
  <2>2. CS!Effect(screen, sym) = cursor_home(screen, 1, 1)
    BY <1>2, <1>4, SameCursor DEF CS!Effect, CS!Param
  <2>3. 0 \in CS!Arities(sym)
    BY <1>4 DEF CS!Arities
  <2> QED
    BY <2>1, <2>2, <2>3, <1>2, <1>3, <1>4, FinalStep DEF PopNone
<1>5. CASE sym = "D" /\ t.action = "DoBackOne" /\ t.next = "INIT"
  <2>1. screen' = cursor_back(screen, 1)
    BY <1>5, Effects DEF Shows, PopNone
  <2>2. CS!Effect(screen, sym) = cursor_back(screen, 1)
    BY <1>2, <1>5, SameCursor DEF CS!Effect, CS!Param
  <2>3. 0 \in CS!Arities(sym)
    BY <1>5 DEF CS!Arities
  <2> QED
    BY <2>1, <2>2, <2>3, <1>2, <1>3, <1>5, FinalStep DEF PopNone
<1>6. CASE sym = "B" /\ t.action = "DoDownOne" /\ t.next = "INIT"
  <2>1. screen' = cursor_down(screen, 1)
    BY <1>6, Effects DEF Shows, PopNone
  <2>2. CS!Effect(screen, sym) = cursor_down(screen, 1)
    BY <1>2, <1>6, SameCursor DEF CS!Effect, CS!Param
  <2>3. 0 \in CS!Arities(sym)
    BY <1>6 DEF CS!Arities
  <2> QED
    BY <2>1, <2>2, <2>3, <1>2, <1>3, <1>6, FinalStep DEF PopNone
<1>7. CASE sym = "C" /\ t.action = "DoForwardOne" /\ t.next = "INIT"
  <2>1. screen' = cursor_forward(screen, 1)
    BY <1>7, Effects DEF Shows, PopNone
  <2>2. CS!Effect(screen, sym) = cursor_forward(screen, 1)
    BY <1>2, <1>7, SameCursor DEF CS!Effect, CS!Param
  <2>3. 0 \in CS!Arities(sym)
    BY <1>7 DEF CS!Arities
  <2> QED
    BY <2>1, <2>2, <2>3, <1>2, <1>3, <1>7, FinalStep DEF PopNone
<1>8. CASE sym = "A" /\ t.action = "DoUpOne" /\ t.next = "INIT"
  <2>1. screen' = cursor_up(screen, 1)
    BY <1>8, Effects DEF Shows, PopNone
  <2>2. CS!Effect(screen, sym) = cursor_up(screen, 1)
    BY <1>2, <1>8, SameCursor DEF CS!Effect, CS!Param
  <2>3. 0 \in CS!Arities(sym)
    BY <1>8 DEF CS!Arities
  <2> QED
    BY <2>1, <2>2, <2>3, <1>2, <1>3, <1>8, FinalStep DEF PopNone
<1>9. CASE sym = "J" /\ t.action = "DoEraseDown" /\ t.next = "INIT"
  <2>1. screen' = erase_down(screen)
    BY <1>9, Effects DEF Shows, PopNone
  <2>2. CS!Effect(screen, sym) = erase_down(screen)
    BY <1>2, <1>9, SameFill DEF CS!Effect, CS!Param, CS!Erase
  <2>3. 0 \in CS!Arities(sym)
    BY <1>9 DEF CS!Arities
  <2> QED
    BY <2>1, <2>2, <2>3, <1>2, <1>3, <1>9, FinalStep DEF PopNone
<1>10. CASE sym = "K" /\ t.action = "DoEraseEndOfLine" /\ t.next = "INIT"
  <2>1. screen' = erase_end_of_line(screen)
    BY <1>10, Effects DEF Shows, PopNone
  <2>2. CS!Effect(screen, sym) = erase_end_of_line(screen)
    BY <1>2, <1>10, SameFill DEF CS!Effect, CS!Param
  <2>3. 0 \in CS!Arities(sym)
    BY <1>10 DEF CS!Arities
  <2> QED
    BY <2>1, <2>2, <2>3, <1>2, <1>3, <1>10, FinalStep DEF PopNone
<1>11. CASE sym = "r" /\ t.action = "DoEnableScroll" /\ t.next = "INIT"
  <2>1. screen' = scroll_screen(screen)
    BY <1>11, Effects DEF Shows, PopNone
  <2>2. CS!Effect(screen, sym) = scroll_screen(screen)
    BY <1>2, <1>11, SameScroll DEF CS!Effect, CS!Param
  <2>3. 0 \in CS!Arities(sym)
    BY <1>11 DEF CS!Arities
  <2> QED
    BY <2>1, <2>2, <2>3, <1>2, <1>3, <1>11, FinalStep DEF PopNone
<1>12. CASE sym = "m" /\ t.action = "None" /\ t.next = "INIT"
  <2>1. screen' = screen
    BY <1>12, Effects DEF Shows, PopNone
  <2>2. 0 \notin CS!Arities(sym)
    BY <1>12 DEF CS!Arities
  <2> QED
    BY <2>1, <2>2, <1>2, <1>3, <1>12, IgnoreStep, NotDigits DEF PopNone
<1>13. CASE sym = "?" /\ t.action = "None" /\ t.next = "MODECRAP"
  <2>1. screen' = screen /\ current_state' = "MODECRAP"
    BY <1>13, Effects DEF Shows, PopNone
  <2> QED
    BY <2>1, <1>1, <1>2, <1>13, PrivateStep DEF Mapped
<1>14. CASE sym \in Digits /\ t.action = "StartNumber" /\ t.next = "NUMBER_1"
  <2>1. screen' = screen /\ current_state' = "NUMBER_1"
    BY <1>14, Effects
  <2>2. Ready(memory, 0) /\ 0 \in Nat
    BY DEF IInv, Need
  <2>3. Arg(1)' = Value(sym)
    BY <2>2, <1>14, NumberRead DEF Takes
  <2>4. Phase' = "params" /\ Args' = <<Value(sym)>>
    BY <2>1, <2>3, <1>1 DEF Mapped
  <2> QED
    BY <2>1, <2>4, <1>2, <1>14, DigitStep
<1>15. CASE /\ sym \notin {"H", "D", "B", "C", "A", "J", "K", "r", "m", "?"} \cup Digits
            /\ t.action = "Log" /\ t.next = "INIT"
  <2>1. screen' = screen
    BY <1>15, Effects
  <2>2. 0 \notin CS!Arities(sym)
    BY <1>15 DEF CS!Arities
  <2> QED
    BY <2>1, <2>2, <1>2, <1>3, <1>15, IgnoreStep
<1> QED
  BY <1>4, <1>5, <1>6, <1>7, <1>8, <1>9, <1>10, <1>11, <1>12, <1>13, <1>14, <1>15, BracketRows DEF Takes

LEMMA Number1Refines ==
  ASSUME ~EmptyRegions, IInv, IInv', NEW sym \in Symbols, NEW t, Takes(t, sym),
         current_state = "NUMBER_1"
  PROVE  CS!Next \/ UNCHANGED CS!vars
<1>1. Mapped /\ Mapped'
  BY StateMapped, NextMapped
<1>2. /\ Phase = "params" /\ Args = <<Arg(1)>> /\ Args # <<>> /\ Len(Args) = 1
      /\ Args[1] = Arg(1)
  BY <1>1 DEF Mapped
<1>3. ASSUME t.next = "INIT", t.action \in PopNone \cup PopOne \cup {"Log"}
      PROVE  Phase' = "text" /\ Args' = <<>>
  BY <1>1, <1>3, Effects DEF Mapped
<1>4. CASE sym = "D" /\ t.action = "DoBack" /\ t.next = "INIT"
  <2>1. screen' = cursor_back(screen, Arg(1))
    BY <1>4, Effects DEF Shows, PopOne
  <2>2. CS!Effect(screen, sym) = cursor_back(screen, Arg(1))
    BY <1>2, <1>4, SameCursor DEF CS!Effect, CS!Param
  <2>3. 1 \in CS!Arities(sym)
    BY <1>4 DEF CS!Arities
  <2> QED
    BY <2>1, <2>2, <2>3, <1>2, <1>3, <1>4, FinalStep DEF PopOne
<1>5. CASE sym = "B" /\ t.action = "DoDown" /\ t.next = "INIT"
  <2>1. screen' = cursor_down(screen, Arg(1))
    BY <1>5, Effects DEF Shows, PopOne
  <2>2. CS!Effect(screen, sym) = cursor_down(screen, Arg(1))
    BY <1>2, <1>5, SameCursor DEF CS!Effect, CS!Param
  <2>3. 1 \in CS!Arities(sym)
    BY <1>5 DEF CS!Arities
  <2> QED
    BY <2>1, <2>2, <2>3, <1>2, <1>3, <1>5, FinalStep DEF PopOne
<1>6. CASE sym = "C" /\ t.action = "DoForward" /\ t.next = "INIT"
  <2>1. screen' = cursor_forward(screen, Arg(1))
    BY <1>6, Effects DEF Shows, PopOne
  <2>2. CS!Effect(screen, sym) = cursor_forward(screen, Arg(1))
    BY <1>2, <1>6, SameCursor DEF CS!Effect, CS!Param
  <2>3. 1 \in CS!Arities(sym)
    BY <1>6 DEF CS!Arities
  <2> QED
    BY <2>1, <2>2, <2>3, <1>2, <1>3, <1>6, FinalStep DEF PopOne
<1>7. CASE sym = "A" /\ t.action = "DoUp" /\ t.next = "INIT"
  <2>1. screen' = cursor_up(screen, Arg(1))
    BY <1>7, Effects DEF Shows, PopOne
  <2>2. CS!Effect(screen, sym) = cursor_up(screen, Arg(1))
    BY <1>2, <1>7, SameCursor DEF CS!Effect, CS!Param
  <2>3. 1 \in CS!Arities(sym)
    BY <1>7 DEF CS!Arities
  <2> QED
    BY <2>1, <2>2, <2>3, <1>2, <1>3, <1>7, FinalStep DEF PopOne
<1>8. CASE sym = "J" /\ t.action = "DoErase" /\ t.next = "INIT"
  <2> DEFINE e == CASE Arg(1) = 0 -> erase_down(screen)
                    [] Arg(1) = 1 -> erase_up(screen)
                    [] Arg(1) = 2 -> erase_screen(screen)
                    [] OTHER -> screen
  <2>1. screen' = e
    BY <1>8, Effects DEF Shows, PopOne
  <2>2. CS!Effect(screen, sym) = e
    <3>1. CS!Effect(screen, sym) = CS!Erase(screen, Arg(1))
      BY <1>2, <1>8 DEF CS!Effect, CS!Param
    <3> QED
      BY <3>1, SameFill DEF CS!Erase
  <2>3. 1 \in CS!Arities(sym)
    BY <1>8 DEF CS!Arities
  <2> HIDE DEF e
  <2> QED
    BY <2>1, <2>2, <2>3, <1>2, <1>3, <1>8, FinalStep DEF PopOne
<1>9. CASE sym = "K" /\ t.action = "DoEraseLine"
  <2>1. UNCHANGED <<screen, memory>> /\ raised' = TRUE
    BY <1>9 DEF Takes, Run, DoEraseLine
  <2>2. current_state' = current_state
    BY <2>1 DEF Takes
  <2> QED
    BY <2>1, <2>2 DEF CS!vars, Phase, Args, Top, Operands
<1>10. CASE sym = "l" /\ t.action = "DoMode" /\ t.next = "INIT"
  <2>1. screen' = screen
    BY <1>10, Effects DEF Shows, PopOne
  <2>2. 1 \notin CS!Arities(sym)
    BY <1>10 DEF CS!Arities
  <2> QED
    BY <2>1, <2>2, <1>2, <1>3, <1>10, IgnoreStep, NotDigits DEF PopOne
<1>11. CASE sym \in {"m", "q"} /\ t.action = "None" /\ t.next = "INIT"
  <2>1. screen' = screen
    BY <1>11, Effects DEF Shows, PopNone
  <2>2. 1 \notin CS!Arities(sym)
    BY <1>11 DEF CS!Arities
  <2> QED
    BY <2>1, <2>2, <1>2, <1>3, <1>11, IgnoreStep, NotDigits DEF PopNone
<1>12. CASE sym = "semi" /\ t.action = "None" /\ t.next = "SEMICOLON"
  <2>1. screen' = screen /\ memory' = memory /\ current_state' = "SEMICOLON"
    BY <1>12, Effects DEF Shows, PopNone
  <2>2. Phase' = "separator" /\ Args' = <<Arg(1)>>'
    BY <2>1, <1>1 DEF Mapped
  <2>3. Arg(1)' = Arg(1)
    BY <2>1 DEF Arg
  <2> QED
    BY <2>1, <2>2, <2>3, <1>2 DEF CS!Next, CS!Separator
<1>13. CASE sym \in Digits /\ t.action = "BuildNumber" /\ t.next = "NUMBER_1"
  <2>1. screen' = screen /\ current_state' = "NUMBER_1"
    BY <1>13, Effects
  <2>2. Ready(memory, 1) /\ 1 \in Nat /\ 1 >= 1
    BY DEF IInv, Need
  <2>3. Arg(1)' = 10 * Arg(1) + Value(sym)
    BY <2>2, <1>13, NumberRead DEF Takes
  <2>4. Phase' = "params" /\ Args' = <<10 * Arg(1) + Value(sym)>>
    BY <2>1, <2>3, <1>1 DEF Mapped
  <2>5. Args' = [Args EXCEPT ![Len(Args)] = 10 * @ + Value(sym)]
    BY <2>4, <1>2
  <2> QED
    BY <2>1, <2>4, <2>5, <1>2, <1>13, DigitStep
<1>14. CASE /\ sym \notin {"D", "B", "C", "A", "J", "K", "l", "m", "q", "semi"} \cup Digits
            /\ t.action = "Log" /\ t.next = "INIT"
  <2>1. screen' = screen
    BY <1>14, Effects
  <2>2. 1 \notin CS!Arities(sym)
    BY <1>14 DEF CS!Arities
  <2> QED
    BY <2>1, <2>2, <1>2, <1>3, <1>14, IgnoreStep
<1> QED
  BY <1>4, <1>5, <1>6, <1>7, <1>8, <1>9, <1>10, <1>11, <1>12, <1>13, <1>14, Number1Rows DEF Takes

LEMMA SemicolonRefines ==
  ASSUME ~EmptyRegions, IInv, IInv', NEW sym \in Symbols, NEW t, Takes(t, sym),
         current_state = "SEMICOLON"
  PROVE  CS!Next
<1>1. Mapped /\ Mapped'
  BY StateMapped, NextMapped
<1>2. Phase = "separator" /\ Args = <<Arg(1)>>
  BY <1>1 DEF Mapped
<1>3. CASE sym \in Digits /\ t.action = "StartNumber" /\ t.next = "NUMBER_2"
  <2>1. screen' = screen /\ current_state' = "NUMBER_2"
    BY <1>3, Effects
  <2>2. Ready(memory, 1) /\ 1 \in Nat
    BY DEF IInv, Need
  <2>3. Arg(1)' = Value(sym) /\ Arg(2)' = Arg(1)
    BY <2>2, <1>3, NumberRead DEF Takes
  <2>4. Phase' = "params" /\ Args' = <<Arg(1), Value(sym)>>
    BY <2>1, <2>3, <1>1 DEF Mapped
  <2>5. Args' = Append(Args, Value(sym))
    BY <2>4, <1>2
  <2> QED
    BY <2>1, <2>4, <2>5, <1>2, <1>3, DigitStep
<1>4. CASE sym \notin Digits /\ t.action = "Log" /\ t.next = "INIT"
  <2>1. screen' = screen /\ current_state' = "INIT"
    BY <1>4, Effects
  <2> QED
    BY <2>1, <1>1, <1>2, <1>4, IgnoreStep DEF Mapped
<1> QED
  BY <1>3, <1>4, SemicolonRows DEF Takes

LEMMA Number2Refines ==
  ASSUME ~EmptyRegions, IInv, IInv', NEW sym \in Symbols, NEW t, Takes(t, sym),
         current_state = "NUMBER_2"
  PROVE  CS!Next
<1>1. Mapped /\ Mapped'
  BY StateMapped, NextMapped
<1>2. /\ Phase = "params" /\ Args = <<Arg(2), Arg(1)>> /\ Args # <<>> /\ Len(Args) = 2
      /\ Args[1] = Arg(2) /\ Args[2] = Arg(1)
  BY <1>1 DEF Mapped
<1>3. ASSUME t.next = "INIT", t.action \in PopNone \cup PopTwo \cup {"Log"}
      PROVE  Phase' = "text" /\ Args' = <<>>
  BY <1>1, <1>3, Effects DEF Mapped
<1>4. CASE sym = "r" /\ t.action = "DoScrollRegion" /\ t.next = "INIT"
  <2>1. screen' = scroll_screen_rows(screen, Arg(2), Arg(1))
    BY <1>4, Effects DEF Shows, PopTwo
  <2>2. CS!Effect(screen, sym) = scroll_screen_rows(screen, Arg(2), Arg(1))
    BY <1>2, <1>4, SameScroll DEF CS!Effect
  <2>3. 2 \in CS!Arities(sym)
    BY <1>4 DEF CS!Arities
  <2> QED
    BY <2>1, <2>2, <2>3, <1>2, <1>3, <1>4, FinalStep DEF PopTwo
<1>5. CASE sym \in {"H", "f"} /\ t.action = "DoHome" /\ t.next = "INIT"
  <2>1. screen' = cursor_home(screen, Arg(2), Arg(1))
    BY <1>5, Effects DEF Shows, PopTwo
  <2>2. CS!Effect(screen, sym) = cursor_home(screen, Arg(2), Arg(1))
    BY <1>2, <1>5, SameCursor DEF CS!Effect, CS!Param
  <2>3. 2 \in CS!Arities(sym)
    BY <1>5 DEF CS!Arities
  <2> QED
    BY <2>1, <2>2, <2>3, <1>2, <1>3, <1>5, FinalStep DEF PopTwo
<1>6. CASE sym \in {"m", "q"} /\ t.action = "None" /\ t.next = "INIT"
  <2>1. screen' = screen
    BY <1>6, Effects DEF Shows, PopNone
  <2>2. 2 \notin CS!Arities(sym)
    BY <1>6 DEF CS!Arities
  <2> QED
    BY <2>1, <2>2, <1>2, <1>3, <1>6, IgnoreStep, NotDigits DEF PopNone
<1>7. CASE sym \in Digits /\ t.action = "BuildNumber" /\ t.next = "NUMBER_2"
  <2>1. screen' = screen /\ current_state' = "NUMBER_2"
    BY <1>7, Effects
  <2>2. Ready(memory, 2) /\ 2 \in Nat /\ 2 >= 1 /\ 2 >= 2
    BY DEF IInv, Need
  <2>3. Arg(1)' = 10 * Arg(1) + Value(sym) /\ Arg(2)' = Arg(2)
    BY <2>2, <1>7, NumberRead DEF Takes
  <2>4. Phase' = "params" /\ Args' = <<Arg(2), 10 * Arg(1) + Value(sym)>>
    BY <2>1, <2>3, <1>1 DEF Mapped
  <2>5. Args' = [Args EXCEPT ![Len(Args)] = 10 * @ + Value(sym)]
    BY <2>4, <1>2
  <2> QED
    BY <2>1, <2>4, <2>5, <1>2, <1>7, DigitStep
<1>8. CASE /\ sym \notin {"r", "H", "f", "m", "q"} \cup Digits
           /\ t.action = "Log" /\ t.next = "INIT"
  <2>1. screen' = screen
    BY <1>8, Effects
  <2>2. 2 \notin CS!Arities(sym)
    BY <1>8 DEF CS!Arities
  <2> QED
    BY <2>1, <2>2, <1>2, <1>3, <1>8, IgnoreStep
<1> QED
  BY <1>4, <1>5, <1>6, <1>7, <1>8, Number2Rows DEF Takes

LEMMA ModecrapRefines ==
  ASSUME ~EmptyRegions, IInv, IInv', NEW sym \in Symbols, NEW t, Takes(t, sym),
         current_state = "MODECRAP"
  PROVE  CS!Next
<1>1. Mapped /\ Mapped'
  BY StateMapped, NextMapped
<1>2. Phase = "private" /\ Args = <<>>
  BY <1>1 DEF Mapped
<1>3. CASE sym \in Digits /\ t.action = "StartNumber" /\ t.next = "MODECRAP_NUM"
  <2>1. screen' = screen /\ current_state' = "MODECRAP_NUM"
    BY <1>3, Effects
  <2> QED
    BY <2>1, <1>1, <1>2, <1>3, PrivateStep DEF Mapped
<1>4. CASE sym \notin Digits /\ t.action \in {"None", "Log"} /\ t.next = "INIT"
  <2>1. screen' = screen /\ current_state' = "INIT"
    BY <1>4, Effects DEF Shows, PopNone
  <2> QED
    BY <2>1, <1>1, <1>2, <1>4, PrivateStep DEF Mapped
<1> QED
  BY <1>3, <1>4, ModecrapRows, NotDigits DEF Takes

LEMMA ModecrapNumRefines ==
  ASSUME ~EmptyRegions, IInv, IInv', NEW sym \in Symbols, NEW t, Takes(t, sym),
         current_state = "MODECRAP_NUM"
  PROVE  CS!Next
<1>1. Mapped /\ Mapped'
  BY StateMapped, NextMapped
<1>2. Phase = "private" /\ Args = <<>>
  BY <1>1 DEF Mapped
<1>3. CASE sym \in Digits /\ t.action = "BuildNumber" /\ t.next = "MODECRAP_NUM"
  <2>1. screen' = screen /\ current_state' = "MODECRAP_NUM"
    BY <1>3, Effects
  <2> QED
    BY <2>1, <1>1, <1>2, <1>3, PrivateStep DEF Mapped
<1>4. CASE sym \notin Digits /\ t.action \in {"None", "Log"} /\ t.next = "INIT"
  <2>1. screen' = screen /\ current_state' = "INIT"
    BY <1>4, Effects DEF Shows, PopNone
  <2> QED
    BY <2>1, <1>1, <1>2, <1>4, PrivateStep DEF Mapped
<1> QED
  BY <1>3, <1>4, ModecrapNumRows, NotDigits DEF Takes

(* The emulator implements ControlSequences: whatever was typed, ignored   *)
(* or broken off before, a control sequence acts with its own parameters,  *)
(* as long as no empty scrolling region is set.                            *)
THEOREM ParametersBelong ==
  ASSUME ~EmptyRegions
  PROVE  Spec => ParametersAreOwn
<1>1. Init => CS!Init
  <2>1. CS!NewScreen = NewScreen
    BY DEF CS!NewScreen, NewScreen, CS!BlankLine, BlankLine, CS!SPACE, SPACE
  <2>2. Init => IInv /\ current_state = "INIT" /\ screen = NewScreen
    BY InitIInv DEF Init
  <2> QED
    BY <2>1, <2>2, StateMapped DEF Mapped, CS!Init
<1>2. ASSUME IInv, Next, IInv'
      PROVE  CS!Next \/ UNCHANGED CS!vars
  <2>1. PICK sym \in IF current_state = "INIT" THEN Printed ELSE Symbols :
          \E t \in Transitions(sym) :
            Run(t.action, sym) /\ current_state' = IF raised' THEN current_state ELSE t.next
    BY <1>2 DEF Next, process
  <2>2. PICK t : Takes(t, sym)
    BY <2>1 DEF Takes
  <2>3. sym \in Symbols
    BY <2>1 DEF Symbols
  <2>4. CASE current_state = "INIT"
    BY <2>1, <2>2, <2>4, <1>2, TextRefines
  <2>5. CASE current_state = "ESC"
    BY <2>2, <2>3, <2>5, <1>2, EscapeRefines
  <2>6. CASE current_state \in {"G0SCS", "G1SCS", "GRAPHICS_POUND"}
    BY <2>2, <2>3, <2>6, <1>2, SkipRefines
  <2>7. CASE current_state = "ELB"
    BY <2>2, <2>3, <2>7, <1>2, BracketRefines
  <2>8. CASE current_state = "NUMBER_1"
    BY <2>2, <2>3, <2>8, <1>2, Number1Refines
  <2>9. CASE current_state = "SEMICOLON"
    BY <2>2, <2>3, <2>9, <1>2, SemicolonRefines
  <2>10. CASE current_state = "NUMBER_2"
    BY <2>2, <2>3, <2>10, <1>2, Number2Refines
  <2>11. CASE current_state = "MODECRAP"
    BY <2>2, <2>3, <2>11, <1>2, ModecrapRefines
  <2>12. CASE current_state = "MODECRAP_NUM"
    BY <2>2, <2>3, <2>12, <1>2, ModecrapNumRefines
  <2>13. current_state \in States
    BY <1>2 DEF IInv
  <2> QED
    BY <2>4, <2>5, <2>6, <2>7, <2>8, <2>9, <2>10, <2>11, <2>12, <2>13 DEF States
<1>3. ASSUME UNCHANGED vars
      PROVE  UNCHANGED CS!vars
  BY <1>3 DEF vars, CS!vars, Phase, Args, Top, Operands
<1>4. IInv /\ IInv' /\ [Next]_vars => [CS!Next]_CS!vars
  BY <1>2, <1>3
<1> QED
  BY <1>1, <1>4, Invariant, PTL DEF Spec, ParametersAreOwn, CS!Spec
=============================================================================
