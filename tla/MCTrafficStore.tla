--------------------------- MODULE MCTrafficStore ---------------------------
(* TrafficStore on small instances. *)
EXTENDS TrafficStore

CONSTANTS q1, q2, c1, c2, t1, t2, f1, f2, r1, p1

(* Two lines of the first day; on the third day the sweep deletes them.  They
   come from one client and one host, or differ in both. *)
MCKeyOf == [q \in Requests |->
    CASE q = q1 -> [date |-> 1, client |-> c1, target |-> t1]
      [] q = q2 -> [date |-> 1, client |-> c2, target |-> t2]]
====
