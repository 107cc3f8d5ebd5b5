------------------------ MODULE MCProcessLifecycle ------------------------
(* ProcessLifecycle on a small instance: two lines of one day. *)
EXTENDS ProcessLifecycle

CONSTANTS q1, q2, c1, t1, r1

MCKeyOf == [q \in Requests |-> [date |-> 1, client |-> c1, target |-> t1]]
====
