--------------------------- MODULE CommandStates ---------------------------
(***************************************************************************)
(* The command state machine of the control service: the states a row of   *)
(* the commands table may hold and the transitions the store accepts.      *)
(* A command whose row does not exist yet has state Absent.                *)
(***************************************************************************)

Absent == "Absent"

TerminalStates == {"Succeeded", "Failed", "TimedOut", "Cancelled"}

\* States a row has between its insertion and its terminal state.  (Created
\* lives only in the snapshot submit() builds; it is never stored.)
OpenStates == {"Dispatched", "Acked", "Running", "RetryPending"}

RowStates == {Absent} \cup OpenStates \cup TerminalStates

is_terminal(s) == s \in TerminalStates

is_allowed_non_terminal_transition(from, to) ==
    \/ to = "Dispatched" /\ from = "RetryPending"
    \/ to = "Acked"      /\ from = "Dispatched"
    \/ to = "Running"    /\ from = "Acked"

is_allowed_terminal_transition(from) == from \in OpenStates

-----------------------------------------------------------------------------
(* What the store's two guarded updates do to a row in state cur.  With     *)
(* "not_found" and "invalid" the call returns false, with "ignored" it      *)
(* returns true and applied = false, with "applied" it writes the state.    *)

\* Mutant: the transition table is not consulted.
UpdateAnyOpenState(cur, next) ==
    CASE cur = Absent     -> "not_found"
      [] is_terminal(cur) -> "ignored"
      [] OTHER            -> "applied"

update_state_if_not_terminal(cur, next) ==
    CASE cur = Absent                                        -> "not_found"
      [] is_terminal(cur)                                    -> "ignored"
      [] cur \in OpenStates /\ is_allowed_non_terminal_transition(cur, next)
                                                             -> "applied"
      [] OTHER                                               -> "invalid"

\* Mutant: the last terminal state wins.
LastTerminalWins(cur) == IF cur = Absent THEN "not_found" ELSE "applied"

update_terminal_state_once(cur) ==
    CASE cur = Absent                                        -> "not_found"
      [] is_terminal(cur)                                    -> "ignored"
      [] cur \in OpenStates /\ is_allowed_terminal_transition(cur)
                                                             -> "applied"
      [] OTHER                                               -> "invalid"
=============================================================================
