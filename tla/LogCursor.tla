------------------------------ MODULE LogCursor ------------------------------
(***************************************************************************)
(* What a Scanner promises its caller: a cursor between two records of a   *)
(* log that only grows.  A forward scan hands out the record behind the    *)
(* cursor and moves it on, a backward scan the one before it and moves it  *)
(* back, in any order of the two.  After a jump the cursor is somewhere,   *)
(* and the next record that is handed out, or a block boundary that is     *)
(* passed, says where.                                                     *)
(***************************************************************************)
EXTENDS Integers, Sequences

CONSTANTS Unknown,  \* no position
          NoLog     \* nothing has just been handed out

VARIABLES logs,  \* the records of the source
          cur,   \* how many records are before the cursor, or Unknown
          out,   \* the record that has just been handed out
          scan   \* the direction of the scan: "forward" or "backward"

vars == <<logs, cur, out, scan>>

Init == /\ cur \in {0, Unknown}
        /\ out = NoLog
        /\ scan = "forward"

Positions == IF cur = Unknown THEN 0 .. Len(logs) ELSE {cur}

Grow == /\ Len(logs') >= Len(logs)
        /\ SubSeq(logs', 1, Len(logs)) = logs

Forward == \E at \in Positions :
             /\ scan = "forward"
             /\ at < Len(logs)
             /\ out' = logs[at + 1]
             /\ cur' = at + 1
             /\ UNCHANGED <<logs, scan>>

Backward == \E at \in Positions :
              /\ scan = "backward"
              /\ at > 0
              /\ out' = logs[at]
              /\ cur' = at - 1
              /\ UNCHANGED <<logs, scan>>

Jump == /\ cur' \in {0, Unknown}
        /\ scan' = "forward"
        /\ out' = NoLog
        /\ UNCHANGED logs

\* Anything that hands out nothing; another scan may begin.
Rest == /\ scan' \in {"forward", "backward"}
        /\ cur' \in Positions \cup {cur}
        /\ out' = NoLog
        /\ Grow

Next == Forward \/ Backward \/ Jump \/ Rest

CursorSpec == Init /\ [][Next]_vars
=============================================================================
