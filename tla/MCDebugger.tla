----------------------------- MODULE MCDebugger -----------------------------
(* Instances of Debugger for TLC.                                          *)
EXTENDS Debugger

Plain == [cond |-> FALSE, hit |-> 0, log |-> FALSE]
MCLines == {1}
MCTwoLines == {1, 2}

(* no breakpoint; a plain one beside one with a hit condition              *)
MCPointTables == {[l \in MCLines |-> <<>>],
                  [l \in MCLines |-> <<Plain, [Plain EXCEPT !.hit = 2]>>]}
(* a conditional log point before a plain breakpoint                       *)
MCLogTables == {[l \in MCLines |-> <<[Plain EXCEPT !.cond = TRUE, !.log = TRUE], Plain>>],
                [l \in MCLines |-> <<[Plain EXCEPT !.cond = TRUE]>>]}
(* a plain breakpoint on the second line *)
MCOnePoint == {[l \in MCTwoLines |-> IF l = 2 THEN <<Plain>> ELSE <<>>]}
MCFilterSets == {{}, {"failed_keyword"}}
MCAllFilterSets == {{"failed_suite", "failed_test", "failed_keyword"}}
MCNoFilters == {{}}
=============================================================================
