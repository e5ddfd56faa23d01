--------------------------- MODULE MCLiveComments ---------------------------
(***************************************************************************)
(* An instance of LiveComments: two services on channels of their own, and *)
(* either the activity of the channels or posting besides the reception.   *)
(***************************************************************************)
EXTENDS LiveComments

CONSTANTS a, b

MCChannelOf == [s \in {a, b} |-> s]
MCUses == {{"activity"}, {"posting"}}
=============================================================================
