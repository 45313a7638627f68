----------------------------- MODULE MCStorage -----------------------------
(***************************************************************************)
(* A session and a fork of it; a message, and an id that is used for a     *)
(* compaction entry or a record; one lane beside main.                     *)
(***************************************************************************)
EXTENDS SessionStorage

CONSTANTS s1, s2, i1, i2, side

MCSession == {s1, s2}
MCId == {i1, i2}
MCMessage == {i1}
MCLane == {side}

MCTried ==
  [op : {"createLane"}, lane : {side}, at : {i1, Null}]
  \cup [op : {"moveLane"}, lane : {"main"}, at : {Null}]
  \cup [op : {"appendEntry"}, id : {i1}, lane : {"main"}]
  \cup [op : {"appendEntry"}, id : {i2}, lane : {"main", side}]
  \cup [op : {"appendRecord"}, id : MCId, lane : {"main"}, type : {"started"}, run : {Null}]
  \cup [op : {"appendRecord"}, id : {i2}, lane : {"main"}, type : {"finished"}, run : {i1}]
  \cup [op : {"setLabel"}, id : {i1}, set : BOOLEAN]
  \cup [op : {"setName"}]
=============================================================================
