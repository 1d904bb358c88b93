-------------------------------- MODULE ANSI --------------------------------
(***************************************************************************)
(* The terminal emulator of src/pexpect-dpty/ANSI.py: a state machine      *)
(* (FSM.py) whose actions read the parameters of a control sequence from a *)
(* stack, fsm.memory, and call the methods of a screen (screen.py), which  *)
(* is the first element of that same stack.                                *)
(*                                                                         *)
(* An action that raises an exception leaves current_state as it was, and  *)
(* what it popped popped; the program catches the exception and goes on    *)
(* with the stream.                                                        *)
(***************************************************************************)
EXTENDS Screen, FSM

CONSTANTS
  Digits,       (* the digits that occur in the stream                     *)
  Self,         (* memory[0]: the emulator itself, which is the screen     *)
  MaxNumber,    (* bound: the numbers in control sequences                 *)
  MaxMemory,    (* bound: the length of the stack, which is never cleared  *)
                (* by sequences the emulator knows                         *)
  EmptyRegions  (* may a program set a scrolling region that ends at row 0 *)

ASSUME ANSIAssumption ==
  /\ Digits \subseteq {"0", "1", "2", "3", "4", "5", "6", "7", "8", "9"}
  /\ Self \notin Nat
  /\ MaxNumber \in Nat /\ MaxMemory \in Nat
  /\ EmptyRegions \in BOOLEAN

(* The other symbols the tables know; "semi" is the semicolon.             *)
Keys == {"A", "B", "C", "D", "H", "J", "K", "M", "f", "h", "l", "m", "q", "r",
         "7", "8", "<", ">", "=", "#", "(", ")", "[", "semi", "?"}
Printed == Text \cup NonPrinting \cup {LF, CR, BS}
Symbols == Printed \cup Digits \cup Keys

States == {"INIT", "ESC", "G0SCS", "G1SCS", "GRAPHICS_POUND", "ELB", "MODECRAP",
           "MODECRAP_NUM", "NUMBER_1", "SEMICOLON", "NUMBER_2"}

VARIABLES
  screen,       (* the attributes the class inherits from screen           *)
  current_state,
  memory,
  raised        (* the last symbol raised an exception                     *)

vars == <<screen, current_state, memory, raised>>

-----------------------------------------------------------------------------
(* The tables set up by ANSI.__init__                                      *)

FromEsc ==
  {Transition("ESC", "INIT", "None", "ESC"),
   Transition("(", "ESC", "None", "G0SCS"),
   Transition(")", "ESC", "None", "G1SCS"),
   Transition("7", "ESC", "DoCursorSave", "INIT"),
   Transition("8", "ESC", "DoCursorRestore", "INIT"),
   Transition("=", "ESC", "None", "INIT"),
   Transition("#", "ESC", "None", "GRAPHICS_POUND"),
   Transition("[", "ESC", "None", "ELB")}
  \cup TransitionList({"M", ">", "<"}, "ESC", "DoUpReverse", "INIT")
  \cup TransitionList({"A", "B"} \cup (Digits \cap {"0", "1", "2"}), "G0SCS", "None", "INIT")
  \cup TransitionList({"A", "B"} \cup (Digits \cap {"0", "1", "2"}), "G1SCS", "None", "INIT")

FromBracket ==
  {Transition("H", "ELB", "DoHomeOrigin", "INIT"),
   Transition("D", "ELB", "DoBackOne", "INIT"),
   Transition("B", "ELB", "DoDownOne", "INIT"),
   Transition("C", "ELB", "DoForwardOne", "INIT"),
   Transition("A", "ELB", "DoUpOne", "INIT"),
   Transition("J", "ELB", "DoEraseDown", "INIT"),
   Transition("K", "ELB", "DoEraseEndOfLine", "INIT"),
   Transition("r", "ELB", "DoEnableScroll", "INIT"),
   Transition("m", "ELB", "None", "INIT"),
   Transition("?", "ELB", "None", "MODECRAP")}
  \cup TransitionList(Digits, "ELB", "StartNumber", "NUMBER_1")

FromNumberOne ==                 (* variant: the second number is not awaited *)
  {Transition("semi", "NUMBER_1", "None", "NUMBER_2")}
  \cup TransitionList(Digits, "NUMBER_1", "BuildNumber", "NUMBER_1")

FromNumber1 ==
  {Transition("D", "NUMBER_1", "DoBack", "INIT"),
   Transition("B", "NUMBER_1", "DoDown", "INIT"),
   Transition("C", "NUMBER_1", "DoForward", "INIT"),
   Transition("A", "NUMBER_1", "DoUp", "INIT"),
   Transition("J", "NUMBER_1", "DoErase", "INIT"),
   Transition("K", "NUMBER_1", "DoEraseLine", "INIT"),
   Transition("l", "NUMBER_1", "DoMode", "INIT"),
   Transition("m", "NUMBER_1", "None", "INIT"),
   Transition("q", "NUMBER_1", "None", "INIT"),
   Transition("semi", "NUMBER_1", "None", "SEMICOLON")}
  \cup TransitionList(Digits, "NUMBER_1", "BuildNumber", "NUMBER_1")

FromModecrap ==
  TransitionList(Digits, "MODECRAP", "StartNumber", "MODECRAP_NUM")
  \cup TransitionList(Digits, "MODECRAP_NUM", "BuildNumber", "MODECRAP_NUM")
  \cup TransitionList({"l", "h"}, "MODECRAP_NUM", "None", "INIT")

FromNumber2 ==
  {Transition("r", "NUMBER_2", "DoScrollRegion", "INIT")}
  \cup TransitionList(Digits, "SEMICOLON", "StartNumber", "NUMBER_2")
  \cup TransitionList(Digits, "NUMBER_2", "BuildNumber", "NUMBER_2")
  \cup TransitionList({"H", "f"}, "NUMBER_2", "DoHome", "INIT")
  \cup TransitionList({"m", "q"}, "NUMBER_2", "None", "INIT")

state_transitions ==
  FromEsc \cup FromBracket \cup FromNumber1 \cup FromModecrap \cup FromNumber2

state_transitions_any ==
  {AnySymbol("INIT", "Emit", "INIT"), AnySymbol("ESC", "Log", "INIT"),
   AnySymbol("GRAPHICS_POUND", "None", "INIT"),
   AnySymbol("SEMICOLON", "Log", "INIT"), AnySymbol("NUMBER_2", "Log", "INIT")}

default_transition == Otherwise("Log", "INIT")

ASSUME TablesAssumption == IsTable(state_transitions, state_transitions_any)

-----------------------------------------------------------------------------
(* The actions.  Popped(n) is the stack after n pops, Arg(n) what the n-th *)
(* of them returned.                                                       *)

Arg(n) == memory[Len(memory) + 1 - n]
Popped(n) == SubSeq(memory, 1, Len(memory) - n)

(* A call of a method of the screen, and how it ended.                     *)
Call(s) == screen' = [s EXCEPT !.raised = FALSE] /\ raised' = s.raised
NoCall == UNCHANGED screen /\ raised' = FALSE

Emit(sym) == Call(write_ch(screen, sym)) /\ UNCHANGED memory

StartNumber(sym) ==
  /\ Len(memory) < MaxMemory
  /\ memory' = Append(memory, Value(sym)) /\ NoCall

BuildNumber(sym) ==
  /\ 10 * Arg(1) + Value(sym) <= MaxNumber
  /\ memory' = Append(Popped(1), 10 * Arg(1) + Value(sym)) /\ NoCall

(* Cursor movement by one, and by the number on the stack.                 *)
DoBackOne == Call(cursor_back(screen, 1)) /\ UNCHANGED memory
DoBack == Call(cursor_back(screen, Arg(1))) /\ memory' = Popped(1)
DoDownOne == Call(cursor_down(screen, 1)) /\ UNCHANGED memory
DoDown == Call(cursor_down(screen, Arg(1))) /\ memory' = Popped(1)
DoForwardOne == Call(cursor_forward(screen, 1)) /\ UNCHANGED memory
DoForward == Call(cursor_forward(screen, Arg(1))) /\ memory' = Popped(1)
DoUpOne == Call(cursor_up(screen, 1)) /\ UNCHANGED memory
DoUp == Call(cursor_up(screen, Arg(1))) /\ memory' = Popped(1)
DoUpReverse == Call(cursor_up_reverse(screen)) /\ UNCHANGED memory
DoHomeOrigin == Call(cursor_home(screen, 1, 1)) /\ UNCHANGED memory
DoHomeSwapped ==                 (* variant: column first *)
  Call(cursor_home(screen, Arg(1), Arg(2))) /\ memory' = Popped(2)
DoHome == Call(cursor_home(screen, Arg(2), Arg(1))) /\ memory' = Popped(2)
DoCursorSave == Call(cursor_save_attrs(screen)) /\ UNCHANGED memory
DoCursorRestore == Call(cursor_restore_attrs(screen)) /\ UNCHANGED memory

DoEraseDown == Call(erase_down(screen)) /\ UNCHANGED memory
DoEraseEndOfLine == Call(erase_end_of_line(screen)) /\ UNCHANGED memory
DoErase ==
  /\ Call(CASE Arg(1) = 0 -> erase_down(screen)
            [] Arg(1) = 1 -> erase_up(screen)
            [] Arg(1) = 2 -> erase_screen(screen)
            [] OTHER -> screen)
  /\ memory' = Popped(1)

(* The argument is not popped: arg is an undefined name, a NameError.      *)
DoEraseLine == UNCHANGED <<screen, memory>> /\ raised' = TRUE

DoEnableScroll == Call(scroll_screen(screen)) /\ UNCHANGED memory
DoScrollRegion ==
  /\ EmptyRegions \/ Arg(1) > 0
  /\ Call(scroll_screen_rows(screen, Arg(2), Arg(1))) /\ memory' = Popped(2)

DoMode == memory' = Popped(1) /\ NoCall
Log == memory' = <<memory[1]>> /\ NoCall
None == UNCHANGED memory /\ NoCall

Run(action, sym) ==
  \/ action = "None" /\ None
  \/ action = "Emit" /\ Emit(sym)
  \/ action = "Log" /\ Log
  \/ action = "StartNumber" /\ StartNumber(sym)
  \/ action = "BuildNumber" /\ BuildNumber(sym)
  \/ action = "DoBackOne" /\ DoBackOne
  \/ action = "DoBack" /\ DoBack
  \/ action = "DoDownOne" /\ DoDownOne
  \/ action = "DoDown" /\ DoDown
  \/ action = "DoForwardOne" /\ DoForwardOne
  \/ action = "DoForward" /\ DoForward
  \/ action = "DoUpOne" /\ DoUpOne
  \/ action = "DoUp" /\ DoUp
  \/ action = "DoUpReverse" /\ DoUpReverse
  \/ action = "DoHomeOrigin" /\ DoHomeOrigin
  \/ action = "DoHome" /\ DoHome
  \/ action = "DoCursorSave" /\ DoCursorSave
  \/ action = "DoCursorRestore" /\ DoCursorRestore
  \/ action = "DoEraseDown" /\ DoEraseDown
  \/ action = "DoEraseEndOfLine" /\ DoEraseEndOfLine
  \/ action = "DoErase" /\ DoErase
  \/ action = "DoEraseLine" /\ DoEraseLine
  \/ action = "DoEnableScroll" /\ DoEnableScroll
  \/ action = "DoScrollRegion" /\ DoScrollRegion
  \/ action = "DoMode" /\ DoMode

Transitions(sym) ==
  get_transition(state_transitions, state_transitions_any, default_transition,
                 sym, current_state)

(* FSM.process for one symbol of the stream.                               *)
process(sym) ==
  \E t \in Transitions(sym) :
    /\ Run(t.action, sym)
    /\ current_state' = IF raised' THEN current_state ELSE t.next

Init ==
  /\ screen = NewScreen
  /\ current_state = "INIT"
  /\ memory = <<Self>>
  /\ raised = FALSE

(* In text a key or a digit is a character like those of Text.             *)
Next ==
  \E sym \in IF current_state = "INIT" THEN Printed ELSE Symbols : process(sym)
Spec == Init /\ [][Next]_vars

-----------------------------------------------------------------------------
TypeOK ==
  /\ screen \in ScreenType
  /\ current_state \in States
  /\ memory \in Seq(Nat \cup {Self})
  /\ raised \in BOOLEAN

(* The stack serves two purposes, it holds the screen (memory[0] in every  *)
(* action) and the parameters.  Whatever sequences were broken off, were   *)
(* ignored with their parameters left behind, or raised an exception: in   *)
(* every state the numbers its actions pop are on top, and the screen is   *)
(* below them, first on the stack and only there.  A wrong pop would lose  *)
(* the screen for good.                                                    *)
Operands ==
  CASE current_state \in {"NUMBER_1", "SEMICOLON", "MODECRAP_NUM"} -> 1
    [] current_state = "NUMBER_2" -> 2
    [] OTHER -> 0
OperandsReady ==
  /\ memory # <<>> /\ memory[1] = Self
  /\ Len(memory) > Operands
  /\ \A i \in 2 .. Len(memory) : memory[i] \in Nat

(* "This object maintains the state of a virtual text screen as a          *)
(* rectangluar array" (screen.py:42): the scrolling assigns slices to      *)
(* slices of another length, and no method may lose a row.                 *)
Rectangular == Len(screen.w) = Rows

(* Text only changes the row it is written on and, where it scrolls, the   *)
(* scrolling region: what a program keeps outside the region (a status     *)
(* line) stays, whatever the order of regions, cursor moves and line       *)
(* feeds.                                                                  *)
Region == screen.scroll_row_start .. screen.scroll_row_end
OutsideRegionStays ==
  [][current_state = "INIT" =>
       \A r \in DOMAIN screen.w \ Region :
         r \notin {screen.cur_r, screen'.cur_r} => screen'.w[r] = screen.w[r]]_vars

(* The parameters a control sequence acts on are those typed in it: the    *)
(* numbers other sequences leave on the stack are never taken for its own. *)
Top(n) == SubSeq(memory, Len(memory) - n + 1, Len(memory))
Phase ==
  CASE current_state = "INIT" -> "text"
    [] current_state = "ESC" -> "escape"
    [] current_state = "SEMICOLON" -> "separator"
    [] current_state \in {"ELB", "NUMBER_1", "NUMBER_2"} -> "params"
    [] current_state \in {"MODECRAP", "MODECRAP_NUM"} -> "private"
    [] OTHER -> "skip"
Args == IF current_state = "MODECRAP_NUM" THEN <<>> ELSE Top(Operands)
CS == INSTANCE ControlSequences WITH phase <- Phase, args <- Args
ParametersAreOwn == CS!Spec
=============================================================================
