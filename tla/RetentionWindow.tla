-------------------------- MODULE RetentionWindow --------------------------
(***************************************************************************)
(* What playback may assume of the live store (playback/input/store.rs),   *)
(* whatever it is kept in: a window of the received stream, in units of    *)
(* the logical offset, that grows at the end and shrinks at the start.     *)
(* "Logical offsets never refer to reused physical bytes": an offset that  *)
(* left the window never comes back, and what is received is never taken   *)
(* back.  LiveStore implements this, LiveFeed tolerates all of it.          *)
(***************************************************************************)
EXTENDS Integers

VARIABLE window     \* [start, end, status]

Init == window = [start |-> 0, end |-> 0, status |-> "receiving"]

(* Received: the window reaches further, and may give up its oldest part,
   but never all of it. *)
Extend ==
  /\ window.status = "receiving"
  /\ window'.end \in Nat /\ window'.end > window.end
  /\ window'.start \in window.start .. window'.end - 1
  /\ window' = [window EXCEPT !.start = window'.start, !.end = window'.end]

(* A new policy, or replaced storage: the oldest part is given up. *)
Reclaim ==
  /\ window'.start \in window.start .. window.end
  /\ window' = [window EXCEPT !.start = window'.start]

(* Reception failed for good; what was received stays readable. *)
Finish == window' = [window EXCEPT !.status = "failed"]

Next == Extend \/ Reclaim \/ Finish

Spec == Init /\ [][Next]_window

(* What a read at an offset is answered with. *)
Answer(offset) ==
  IF offset < window.start THEN "expired"
  ELSE IF offset < window.end THEN "data"
  ELSE IF window.status = "receiving" THEN "awaiting" ELSE "error"
============================================================================
