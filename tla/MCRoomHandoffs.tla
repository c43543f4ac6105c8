--------------------------- MODULE MCRoomHandoffs ---------------------------
(* Instances of RoomHandoffs small enough for TLC.  A bot's only conversation *)
(* is named after the bot, so that bots are interchangeable.                  *)
EXTENDS RoomHandoffs, TLC

CONSTANTS ana, ben, cyd, room

OwnerOf   == [t \in Threads |-> t]
MembersOf == [r \in Rooms |-> Bots]
BenAndCyd == [r \in Rooms |-> {ben, cyd}]
Alike     == Permutations(Bots)
=============================================================================
