-------------------------- MODULE CommandLifecycle --------------------------
(***************************************************************************)
(* What the control service promises about the state of its commands: a    *)
(* command is recorded once, moves along the lifecycle, ends in the first  *)
(* terminal state anybody reports and keeps it.  CommandControl implements *)
(* this specification; here nothing is said about who makes a move.        *)
(***************************************************************************)
EXTENDS CommandStates

CONSTANT Cmd        \* the command ids

VARIABLE state      \* state[c]: the state of c's row, Absent before it exists

Init == state = [c \in Cmd |-> Absent]

Record(c) ==
    /\ state[c] = Absent
    /\ \E s \in {"Dispatched", "RetryPending"} :
          state' = [state EXCEPT ![c] = s]

Advance(c) ==
    \E s \in OpenStates :
       /\ is_allowed_non_terminal_transition(state[c], s)
       /\ state' = [state EXCEPT ![c] = s]

Finish(c) ==
    /\ state[c] \in OpenStates
    /\ \E s \in TerminalStates : state' = [state EXCEPT ![c] = s]

\* Restart of the service: every open command is timed out, in one transaction.
Recover ==
    state' = [c \in Cmd |-> IF state[c] \in OpenStates THEN "TimedOut" ELSE state[c]]

Next == \/ \E c \in Cmd : Record(c) \/ Advance(c) \/ Finish(c)
        \/ Recover

Spec == Init /\ [][Next]_state
=============================================================================
