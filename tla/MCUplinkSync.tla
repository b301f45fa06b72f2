---------------------------- MODULE MCUplinkSync ----------------------------
(***************************************************************************)
(* Instances of UplinkSync for TLC.                                        *)
(***************************************************************************)
EXTENDS UplinkSync, TLC

CONSTANTS near, far

InOrder == <<near, far>>

TwoAndOne == near :> 2 @@ far :> 1

Reading(v) == [kind |-> "get", v |-> v]
Reads == {Reading(1)}
Everything == Reads \cup [kind : {"publish", "unpublish"}, v : Version]

Alike == Permutations(Request)
=============================================================================
