----------------------------- MODULE StanceMatrix -----------------------------
(***************************************************************************)
(* What an inquiry promises, with no job rows, lock, roster, transaction   *)
(* or crash in sight: a row of the stance matrix whose cells are filled    *)
(* one at a time while the inquiry runs, each once and for good, together  *)
(* with the evidence that it rests on.                                     *)
(***************************************************************************)
CONSTANTS
    Columns,    \* the experts a cell may be of
    Executions, \* who may fill a cell
    Unfilled    \* no execution

VARIABLES
    phase,    \* "absent", "pending", "running" or "complete"
    cell,     \* the execution that filled each cell
    evidence  \* the executions whose observations of the expert are stored

matrixVars == <<phase, cell, evidence>>

MatrixInit ==
    /\ phase = "absent"
    /\ cell = [e \in Columns |-> Unfilled] /\ evidence = [e \in Columns |-> {}]

Pose ==
    /\ phase = "absent" /\ phase' = "pending"
    /\ UNCHANGED <<cell, evidence>>

\* Work begins, or begins again on what was complete.
Resume ==
    /\ phase \in {"pending", "complete"} /\ phase' = "running"
    /\ UNCHANGED <<cell, evidence>>

Fill(e, x) ==
    /\ phase = "running" /\ cell[e] = Unfilled
    /\ cell' = [cell EXCEPT ![e] = x] /\ evidence' = [evidence EXCEPT ![e] = {x}]
    /\ UNCHANGED phase

\* With or without empty cells: an expert that failed has none.
Close ==
    /\ phase = "running" /\ phase' = "complete"
    /\ UNCHANGED <<cell, evidence>>

MatrixNext == Pose \/ Resume \/ Close \/ \E e \in Columns, x \in Executions : Fill(e, x)

MatrixSpec == MatrixInit /\ [][MatrixNext]_matrixVars
===============================================================================
