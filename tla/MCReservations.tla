----------------------------- MODULE MCReservations -----------------------------
EXTENDS Reservations, TLC
CONSTANTS A, B

(* A saved server that is probed at the start, and a new installation *)
MCPreferences == {[enabled |-> TRUE, saved |-> A], [enabled |-> FALSE, saved |-> None]}

(* The programme has not started and server A has a manual reservation of it, a
   rule's, or one of a rule that is excluded; or it runs and nobody reserved it. *)
Start(in, rows) == [phase |-> in, rows |-> (A :> rows @@ B :> {})]
MCStarts ==
  {Start("before", {[id |-> 1, rule |-> FALSE, mark |-> "plain"]}),
   Start("before", {[id |-> 1, rule |-> TRUE, mark |-> "plain"]}),
   Start("before", {[id |-> 1, rule |-> TRUE, mark |-> "skipped"]}),
   Start("running", {})}
=============================================================================
