--------------------------- MODULE PreparedDecision ---------------------------
(***************************************************************************)
(* What two-phase commit promises, whatever happens in between: a          *)
(* transaction is open, may become prepared, and ends committed or         *)
(* aborted; what a client has been told of it is never taken back, by a    *)
(* restart either.                                                         *)
(***************************************************************************)
CONSTANT Txn
VARIABLES
    decision,       \* where each transaction stands
    promised        \* the last of it a client has been told

Decisions == {"open", "prepared", "committed", "aborted"}

Init ==
    /\ decision = [t \in Txn |-> "open"]
    /\ promised = [t \in Txn |-> "open"]

\* The one way forward.
After(d) == CASE d = "open" -> {"prepared", "committed", "aborted"}
              [] d = "prepared" -> {"committed", "aborted"}
              [] OTHER -> {}

Decide(t) ==
    /\ \E d \in After(decision[t]) : decision' = [decision EXCEPT ![t] = d]
    /\ UNCHANGED promised

\* The answer reaches the client; an outcome may be reported at once, and someone
\* else may have ended the transaction before its PREPARE is answered.
Report(t) ==
    /\ \/ UNCHANGED decision
       \/ \E d \in After(decision[t]) : decision' = [decision EXCEPT ![t] = d]
    /\ \/ promised' = [promised EXCEPT ![t] = decision'[t]]
       \/ /\ decision[t] # "open" /\ promised[t] = "open"
          /\ promised' = [promised EXCEPT ![t] = "prepared"]

\* A crash takes back what no one was told: an unreported outcome, and whatever
\* was still open.
Kept(t) ==
    CASE promised[t] \in {"committed", "aborted"} -> {promised[t]}
      [] promised[t] = "prepared" -> {"prepared", decision[t]}
      [] OTHER -> {"aborted", "prepared", decision[t]}

Crash ==
    /\ decision' \in [Txn -> Decisions]
    /\ \A t \in Txn : /\ decision'[t] \in Kept(t)
                      /\ decision'[t] = "prepared" => decision[t] # "open"
    /\ UNCHANGED promised

Next == (\E t \in Txn : Decide(t) \/ Report(t)) \/ Crash

Spec == Init /\ [][Next]_<<decision, promised>>
=============================================================================
