-------------------------------- MODULE FSM ---------------------------------
(***************************************************************************)
(* The table-driven state machine of src/pexpect-dpty/FSM.py.  Its two     *)
(* dictionaries are sets of rows; what process() does with the row it      *)
(* finds is up to the module that has the actions.                         *)
(***************************************************************************)

(* add_transition and add_transition_list: rows of state_transitions, for  *)
(* one symbol or for each of a list.                                       *)
Transition(symbol, state, action, next) ==
  [symbol |-> symbol, state |-> state, action |-> action, next |-> next]
TransitionList(symbols, state, action, next) ==
  {Transition(symbol, state, action, next) : symbol \in symbols}

(* add_transition_any and set_default_transition: a row of                 *)
(* state_transitions_any, and the row for everything else.                 *)
AnySymbol(state, action, next) == [state |-> state, action |-> action, next |-> next]
Otherwise(action, next) == [action |-> action, next |-> next]

(* A dictionary holds one row for a key.                                   *)
IsTable(rows, any) ==
  /\ \A t, u \in rows : t.symbol = u.symbol /\ t.state = u.state => t = u
  /\ \A t, u \in any : t.state = u.state => t = u

(* get_transition: the row for (symbol, state), else the one for the state *)
(* with any symbol, else the default.                                      *)
Exact(rows, symbol, state) == {t \in rows : t.symbol = symbol /\ t.state = state}
ForState(any, state) == {t \in any : t.state = state}
get_transition(rows, any, default, symbol, state) ==
  IF Exact(rows, symbol, state) # {} THEN Exact(rows, symbol, state)
  ELSE IF ForState(any, state) # {} THEN ForState(any, state)
  ELSE {default}
=============================================================================
