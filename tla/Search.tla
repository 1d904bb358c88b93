------------------------------- MODULE Search -------------------------------
(***************************************************************************)
(* The searchers of src/pexpect-dpty/pexpect.py: where a list of patterns  *)
(* first occurs in what has been read from the child.  A string is a       *)
(* sequence of characters; a pattern of a list is a string, EOF or         *)
(* TIMEOUT.  A regular expression is one that matches a single string, as  *)
(* expect() makes of the literals of the test scripts.                     *)
(***************************************************************************)
EXTENDS Integers, Sequences, FiniteSetsExt

EOF == <<"EOF">>
TIMEOUT == <<"TIMEOUT">>
NoWindow == -1                 (* searchwindowsize=None                    *)

(* The constructors take EOF and TIMEOUT out of the list: whether expect   *)
(* returns their index or raises them, it leaves the same state.           *)
Strings(patterns) == {k \in DOMAIN patterns : patterns[k] \notin {EOF, TIMEOUT}}

(* Python's reading of the second argument of find: from the end if it is  *)
(* negative, from the beginning if that is before it; -0 is 0.             *)
Offset(buffer, n) ==
  IF n >= 0 THEN n ELSE IF Len(buffer) + n < 0 THEN 0 ELSE Len(buffer) + n

(* Where s occurs in buffer, from index start on (the first index is 0).   *)
Occurs(buffer, s, start) ==
  {n \in start .. Len(buffer) - Len(s) : SubSeq(buffer, n + 1, n + Len(s)) = s}

NoMatch == [index |-> 0, start |-> 0, end |-> 0]

(* Both searchers: the least index of all, but the end of the buffer is    *)
(* none, and of the patterns found there the first of the list.  Pattern k *)
(* is looked for from start[k] on.                                         *)
Best(patterns, buffer, start) ==
  LET found(k) == Occurs(buffer, patterns[k], start[k]) \ {Len(buffer)}
      all == UNION {found(k) : k \in Strings(patterns)}
  IN IF all = {} THEN NoMatch
     ELSE LET n == Min(all)
              k == Min({i \in Strings(patterns) : n \in found(i)})
          IN [index |-> k, start |-> n, end |-> n + Len(patterns[k])]

FreshOnly(freshlen, s) == -freshlen     (* variant: no overlap *)

(* Where a match that was not there before can start.                      *)
FirstNew(freshlen, s) == -(freshlen + Len(s))

(* searcher_string.search: only what can be new, the last freshlen         *)
(* characters and the length of the pattern before them.                   *)
search_string(patterns, buffer, freshlen, window) ==
  Best(patterns, buffer,
       [k \in Strings(patterns) |->
          Offset(buffer, IF window = NoWindow THEN FirstNew(freshlen, patterns[k])
                         ELSE -window)])

(* searcher_re.search.                                                     *)
search_re(patterns, buffer, window) ==
  Best(patterns, buffer,
       [k \in Strings(patterns) |->
          IF window = NoWindow \/ window > Len(buffer) THEN 0
          ELSE Len(buffer) - window])
=============================================================================
