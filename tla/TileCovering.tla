---------------------------- MODULE TileCovering ----------------------------
(***************************************************************************)
(* Which tiles a geometry touches: insertIntermediateTiles() of            *)
(* src/coordinates_geom.cpp and fillCoveredTiles() of src/coordinates.cpp. *)
(* A vertex is the pair of tile coordinates its position falls into: the   *)
(* algorithm keeps no more of it than that.                                *)
(***************************************************************************)
EXTENDS Integers, Sequences, FiniteSets

LOCAL AbsOf(n)  == IF n < 0 THEN -n ELSE n
LOCAL StepOf(n) == IF n < 0 THEN -1 ELSE 1

\* One step of the supercover walk along the longer axis. s holds the position
\* along the long (u) and the short (v) axis, the accumulated error and the cells
\* found so far; ddu and ddv are twice the extents.
SupercoverStep(s, ustep, vstep, ddu, ddv) ==
    LET u     == s.u + ustep
        over  == s.error + ddv > ddu
        v     == IF over THEN s.v + vstep ELSE s.v
        error == IF over THEN s.error + ddv - ddu ELSE s.error + ddv
        side  == error + s.error           \* decides which corner is crossed too
        extra == (IF over /\ side <= ddu THEN {<<u, v - vstep>>} ELSE {})
                 \cup (IF over /\ side >= ddu THEN {<<u - ustep, v>>} ELSE {})
    IN  [u |-> u, v |-> v, error |-> error, cells |-> s.cells \cup extra \cup {<<u, v>>}]

\* The cells of a walk with the given extents along the long and the short axis.
SupercoverWalk(u1, v1, du, dv) ==
    LET walk[i \in Nat] ==
          IF i = 0 THEN [u |-> u1, v |-> v1, error |-> AbsOf(du), cells |-> {<<u1, v1>>}]
          ELSE SupercoverStep(walk[i - 1], StepOf(du), StepOf(dv), 2 * AbsOf(du), 2 * AbsOf(dv))
    IN  walk[AbsOf(du)].cells

\* The tiles of one segment; the walk runs along the axis of the larger extent.
SegmentTiles(p, q) ==
    LET dx == q[1] - p[1]
        dy == q[2] - p[2]
    IN  IF AbsOf(dx) >= AbsOf(dy)
        THEN SupercoverWalk(p[1], p[2], dx, dy)
        ELSE {<<c[2], c[1]>> : c \in SupercoverWalk(p[2], p[1], dy, dx)}

\* insertIntermediateTiles(): all the tiles of a line or a ring.
IntermediateTiles(points) ==
    {points[i] : i \in 1..Len(points)}
    \cup UNION {SegmentTiles(points[i], points[i + 1]) : i \in 1..(Len(points) - 1)}

\* fillCoveredTiles(): between two tiles of a column, every tile is covered.
FillCoveredTiles(tiles) ==
    tiles \cup UNION {{<<p[1][1], y>> : y \in (p[1][2])..(p[2][2])} :
                      p \in {q \in tiles \X tiles : q[1][1] = q[2][1]}}
=============================================================================
