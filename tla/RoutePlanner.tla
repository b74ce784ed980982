---------------------------- MODULE RoutePlanner ----------------------------
(***************************************************************************)
(* The rules of the K230's route planner (k230_route_planner.py): from the *)
(* brightness of nine regions of a picture to the colours of the pillars,  *)
(* and from these to the number of a route.                                *)
(*                                                                         *)
(* A board gives each cell <<row, column>> a colour.  Lane n passes above  *)
(* the pillars of row n, lane 4 below those of row 3.                      *)
(***************************************************************************)
EXTENDS Integers, Sequences, FiniteSets

CONSTANTS Enabled,   \* CELL_ENABLED: the cells that are looked at
          MinKnown,  \* MIN_KNOWN_CELLS_FOR_ROUTE: 4
          MinGap,    \* LUMA_CLUSTER_MIN_GAP: 8
          BlackMax,  \* BLACK_LUMA_MAX: 42
          WhiteMin   \* WHITE_LUMA_MIN: 48

Columns == 1 .. 3
Cells == (1 .. 3) \X Columns
Black == "B"
White == "W"
Unknown == "?"
Colours == {Black, White, Unknown}

ASSUME PlannerAssumption ==
  Enabled \subseteq Cells /\ {MinKnown, MinGap, BlackMax, WhiteMin} \subseteq Nat

\* The lane a route takes through each column.
ROUTE_LIBRARY ==
  <<<<2, 2, 2>>, <<3, 3, 3>>, <<2, 2, 3>>, <<2, 3, 3>>, <<3, 3, 2>>, <<3, 2, 2>>,
    <<2, 1, 2>>, <<3, 4, 3>>, <<1, 1, 1>>, <<4, 4, 4>>, <<2, 1, 1>>, <<1, 1, 2>>,
    <<3, 4, 4>>, <<4, 4, 3>>, <<1, 2, 3>>, <<4, 3, 2>>>>

Routes == 1 .. Len(ROUTE_LIBRARY)

-----------------------------------------------------------------------------
(* From colours to a route *)

\* is_lane_blocked: an inner lane between two pillars that may both be black.
LaneBlocked(board, lane, col) ==
  /\ lane \in {2, 3}
  /\ \/ Unknown \in {board[<<lane - 1, col>>], board[<<lane, col>>]}
     \/ board[<<lane - 1, col>>] = Black /\ board[<<lane, col>>] = Black

\* is_route_valid for every route: the numbers of those that are nowhere blocked.
ValidRoutes(board) ==
  LET blocked == {p \in (1 .. 4) \X Columns : LaneBlocked(board, p[1], p[2])}
  IN  {i \in Routes : \A col \in Columns : <<ROUTE_LIBRARY[i][col], col>> \notin blocked}

\* The distance of lane n from the middle, doubled.
OffMiddle(n) == IF 2 * n > 5 THEN 2 * n - 5 ELSE 5 - 2 * n

\* route_cost of every route, doubled
RouteCost ==
  [i \in Routes |->
     LET route == ROUTE_LIBRARY[i]
     IN  12 * Cardinality({col \in Columns : route[col] \in {1, 4}})
           + 8 * Cardinality({col \in {2, 3} : route[col] # route[col - 1]})
           + OffMiddle(route[1]) + OffMiddle(route[3])]

KnownCells(board) == {c \in Cells : board[c] \in {Black, White}}

\* choose_route_id: the first of the cheapest valid routes, 0 if there is none or too
\* little is known.
ChooseRouteId(board) ==
  LET valid == ValidRoutes(board)
  IN  IF Cardinality(KnownCells(board)) < MinKnown \/ valid = {} THEN 0
      ELSE CHOOSE i \in valid :
             \A j \in valid : \/ RouteCost[i] < RouteCost[j]
                             \/ (RouteCost[i] = RouteCost[j] /\ i <= j)

-----------------------------------------------------------------------------
(* From brightness to colours; a region that cannot be read has brightness -1 *)

\* classify_brightness
Classify(luma) ==
  IF luma <= BlackMax THEN Black ELSE IF luma >= WhiteMin THEN White ELSE Unknown

ValidLumas(scores) == {scores[c] : c \in {d \in Enabled : scores[d] >= 0}}

\* Neighbours among the brightnesses of a picture.
Gaps(scores) ==
  {g \in ValidLumas(scores) \X ValidLumas(scores) :
     g[1] < g[2] /\ \A v \in ValidLumas(scores) : v <= g[1] \/ v >= g[2]}

\* The pair of neighbours that is split, if any: the lowest of the widest gaps.
Splits(scores) ==
  {g \in Gaps(scores) :
     /\ g[2] - g[1] >= MinGap
     /\ \A h \in Gaps(scores) :
          h[2] - h[1] < g[2] - g[1] \/ (h[2] - h[1] = g[2] - g[1] /\ g[1] <= h[1])}

\* classify_board_by_luma
ClassifyBoard(scores) ==
  LET splits == Splits(scores)
  IN  [c \in Cells |->
         IF c \notin Enabled \/ scores[c] < 0 THEN Unknown
         ELSE IF splits = {} THEN Classify(scores[c])
         ELSE IF \E g \in splits : scores[c] <= g[1] THEN Black ELSE White]

-----------------------------------------------------------------------------
(* Votes: how often each cell has been read as each colour *)

NoVotes == [c \in Cells |-> [k \in Colours |-> 0]]

\* update_votes
UpdateVotes(votes, board) ==
  [c \in Cells |-> [votes[c] EXCEPT ![board[c]] = @ + 1]]

Wins(votes, c, k) == \A other \in Colours \ {k} : votes[c][k] > votes[c][other]

\* Faulty variant: what does not win as black counts as white.
BoardFromVotesHopeful(votes) == [c \in Cells |-> IF Wins(votes, c, Black) THEN Black ELSE White]

\* board_from_votes
BoardFromVotes(votes) ==
  [c \in Cells |-> IF Wins(votes, c, Black) THEN Black
                   ELSE IF Wins(votes, c, White) THEN White ELSE Unknown]

=============================================================================
