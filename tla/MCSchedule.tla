----------------------------- MODULE MCSchedule -----------------------------
(***************************************************************************)
(* Schedule for a short day in a short week, with at most two windows;     *)
(* window ids are interchangeable.                                         *)
(***************************************************************************)
EXTENDS Schedule, TLC

Symmetry == Permutations(WindowIds)

FewWindows == {{}} \cup {{v, w} : v, w \in Window}

MCInit ==
    /\ \E ws \in FewWindows, hs \in {{}, {2}} : schedule = [windows |-> ws, holidays |-> hs]
    /\ dialplan = NotDeployed
    /\ now = [date |-> 1, weekday |-> 1, minute |-> 0]

MCSpec == MCInit /\ [][Next]_vars
=============================================================================
