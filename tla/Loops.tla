------------------------------- MODULE Loops -------------------------------
(***************************************************************************)
(* A while loop as the sequence of its states.  The body is a function on  *)
(* loop states that leaves a state alone once the condition of the loop is *)
(* false, so the state after enough rounds is the one the loop ends in.    *)
(***************************************************************************)
EXTENDS Naturals

\* The states of the loop that starts in s, by number of rounds.
Rounds(body, s) ==
    LET after[n \in Nat] == IF n = 0 THEN s ELSE body[after[n - 1]]
    IN  after
=============================================================================
