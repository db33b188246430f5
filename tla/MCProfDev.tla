------------------------------ MODULE MCProfDev ------------------------------
(* Instances of ProfDev for TLC. *)
EXTENDS ProfDev

\* -N 1 for device n and so for its clones.
Only(n) == [d \in Devs |-> IF d = n THEN 1 ELSE 0]

Mode(sources, order, exit_n, ptrace, streams, marker) ==
    [sources |-> sources, order |-> order, exit_n |-> exit_n, ptrace |-> ptrace,
     streams |-> streams, marker |-> marker]

\* A traced device alone; a source with -N that is traced, sorted with its target; the same
\* with a stream of the target; the same without a sort, and lines on stdin.
PassModes ==
    {Mode(0, FALSE, Only(1), {1}, {}, FALSE), Mode(0, TRUE, Only(1), {1}, {}, FALSE),
     Mode(1, TRUE, Only(2), {2}, {}, FALSE), Mode(1, TRUE, Only(2), {1}, {1}, FALSE),
     Mode(1, FALSE, Only(2), {2}, {}, TRUE)}
=============================================================================
