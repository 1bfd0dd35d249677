----------------------------- MODULE MCLeadership -----------------------------
EXTENDS Leadership

(* The node with the least id is started as the MASTER.                    *)
FirstIsMaster == [n \in Node |-> IF n = 1 THEN "MASTER" ELSE "FOLLOWER"]
=============================================================================
