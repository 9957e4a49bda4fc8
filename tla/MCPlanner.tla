----------------------------- MODULE MCPlanner -----------------------------
EXTENDS Planner

MCLines == { [kind |-> "feed", rate |-> 2, room |-> 4, corner |-> 9],
             [kind |-> "feed", rate |-> 1, room |-> 1, corner |-> 9],
             [kind |-> "rapid", rate |-> 2, room |-> 1, corner |-> 3] }
MCParkLine == [kind |-> "fixed", rate |-> 1, room |-> 1, corner |-> 0]
=============================================================================
