----------------------------- MODULE RouteProofs -----------------------------
(***************************************************************************)
(* Theorems about the route that the K230 sends, for all arrangements of   *)
(* pillars, all noise, all thresholds, votes and times.                    *)
(***************************************************************************)
EXTENDS RouteSender, FiniteSetTheorems, WellFoundedInduction, TLAPS

-----------------------------------------------------------------------------
(* The choice of a route *)

\* A route goes through one of four lanes in each column.
LEMMA LanesOfRoutes ==
  /\ Routes = 1 .. 16
  /\ \A i \in Routes, col \in Columns : ROUTE_LIBRARY[i][col] \in 1 .. 4
<1>1. Routes = 1 .. 16
  BY DEF Routes, ROUTE_LIBRARY
<1>2. QED BY <1>1 DEF ROUTE_LIBRARY, Columns

\* So a route has a cost, a natural number.
LEMMA CostIsNatural == ASSUME NEW i \in Routes PROVE RouteCost[i] \in Nat
<1> DEFINE route == ROUTE_LIBRARY[i]
           edges == {col \in Columns : route[col] \in {1, 4}}
           changes == {col \in {2, 3} : route[col] # route[col - 1]}
<1>1. ASSUME NEW S, S \subseteq 1 .. 3 PROVE Cardinality(S) \in Nat
  <2>1. IsFiniteSet(1 .. 3)
    <3>1. \A a, b \in Int : IsFiniteSet(a .. b)
      BY FS_Interval
    <3>2. 1 \in Int /\ 3 \in Int
      OBVIOUS
    <3>3. QED BY <3>1, <3>2, Zenon
  <2>2. S \in SUBSET (1 .. 3)
    BY <1>1
  <2>3. IsFiniteSet(S)
    BY <2>1, <2>2, FS_Subset
  <2>4. QED BY <2>3, FS_CardinalityType
<1>2. Cardinality(edges) \in Nat
  <2>1. edges \subseteq 1 .. 3
    BY DEF Columns
  <2>2. QED BY <1>1, <2>1
<1>3. Cardinality(changes) \in Nat
  <2>1. changes \subseteq 1 .. 3
    OBVIOUS
  <2>2. QED BY <1>1, <2>1
<1>4. OffMiddle(route[1]) \in Nat /\ OffMiddle(route[3]) \in Nat
  <2>1. route[1] \in 1 .. 4 /\ route[3] \in 1 .. 4
    BY LanesOfRoutes DEF Columns
  <2>2. QED BY <2>1 DEF OffMiddle
<1>5. RouteCost[i] = 12 * Cardinality(edges) + 8 * Cardinality(changes)
                       + OffMiddle(route[1]) + OffMiddle(route[3])
  BY DEF RouteCost
<1>6. QED
  <2> HIDE DEF route, edges, changes
  <2> QED BY <1>2, <1>3, <1>4, <1>5

\* A set of natural numbers has a least.
LEMMA LeastOf ==
  ASSUME NEW S, S \subseteq Nat, S # {}
  PROVE  \E m \in S : \A k \in S : m <= k
<1>1. PICK m \in S : \A k \in S : ~(<<k, m>> \in OpToRel(<, Nat))
  BY NatLessThanWellFounded, WFMin
<1>2. \A k \in S : ~(k < m)
  BY <1>1 DEF OpToRel
<1>3. QED BY <1>2

\* What is chosen is a valid route: among finitely many there is a first of the cheapest.
LEMMA ChosenIsValid ==
  ASSUME NEW board, ChooseRouteId(board) # 0
  PROVE  ChooseRouteId(board) \in ValidRoutes(board)
<1> DEFINE valid == ValidRoutes(board)
           Best(i) == \A j \in valid : \/ RouteCost[i] < RouteCost[j]
                                       \/ (RouteCost[i] = RouteCost[j] /\ i <= j)
<1>1. valid # {} /\ ChooseRouteId(board) = CHOOSE i \in valid : Best(i)
  BY DEF ChooseRouteId
<1>2. valid \subseteq Routes /\ Routes \subseteq Nat
  BY LanesOfRoutes DEF ValidRoutes
<1> HIDE DEF valid
<1>3. PICK c \in {RouteCost[i] : i \in valid} : \A d \in {RouteCost[i] : i \in valid} : c <= d
  <2>1. {RouteCost[i] : i \in valid} \subseteq Nat
    BY <1>2, CostIsNatural
  <2>2. {RouteCost[i] : i \in valid} # {}
    BY <1>1
  <2>3. QED BY <2>1, <2>2, LeastOf
<1>4. PICK i \in {j \in valid : RouteCost[j] = c} : \A j \in {k \in valid : RouteCost[k] = c} : i <= j
  <2>1. {j \in valid : RouteCost[j] = c} \subseteq Nat
    BY <1>2
  <2>2. {j \in valid : RouteCost[j] = c} # {}
    BY <1>3
  <2>3. QED BY <2>1, <2>2, LeastOf
<1>5. \A j \in valid : RouteCost[j] \in Nat
  BY <1>2, CostIsNatural
<1>6. Best(i)
  BY <1>3, <1>4, <1>5
<1>7. (CHOOSE j \in valid : Best(j)) \in valid
  <2> HIDE DEF Best
  <2> QED BY <1>4, <1>6, Zenon
<1>8. QED BY <1>1, <1>7 DEF valid

-----------------------------------------------------------------------------
(* The votes *)

\* A reading says of every cell a colour, and of one that is not looked at that it is
\* unknown.
LEMMA ReadingIsBoard ==
  ASSUME NEW r \in Readings
  PROVE  /\ r[2] \in [Cells -> Colours]
         /\ \A c \in Cells \ Enabled : r[2][c] = Unknown
<1>1. ASSUME NEW scores
      PROVE  /\ ClassifyBoard(scores) \in [Cells -> Colours]
             /\ \A c \in Cells \ Enabled : ClassifyBoard(scores)[c] = Unknown
  <2>1. \A luma : Classify(luma) \in Colours
    BY DEF Classify, Colours
  <2>2. {Black, White, Unknown} = Colours
    BY DEF Colours
  <2>3. QED BY <2>1, <2>2 DEF ClassifyBoard
<1>2. PICK f \in Fields, n \in Noise :
        r = <<f, ClassifyBoard([c \in Cells |-> IF c \notin Enabled THEN -1
                                ELSE IF c \in DOMAIN n THEN n[c] ELSE Usual[f[c]]])>>
  BY DEF Readings
<1>3. r[2] = ClassifyBoard([c \in Cells |-> IF c \notin Enabled THEN -1
                            ELSE IF c \in DOMAIN n THEN n[c] ELSE Usual[f[c]]])
  BY <1>2
<1>4. QED BY <1>1, <1>3, Zenon

\* A vote counts in exactly one colour of each cell.
LEMMA VoteCounts ==
  ASSUME NEW v \in [Cells -> [Colours -> Nat]], NEW board \in [Cells -> Colours],
         NEW c \in Cells
  PROVE  /\ UpdateVotes(v, board) \in [Cells -> [Colours -> Nat]]
         /\ \A k \in Colours :
              UpdateVotes(v, board)[c][k] = IF k = board[c] THEN v[c][k] + 1 ELSE v[c][k]
<1>1. UpdateVotes(v, board) = [d \in Cells |-> [v[d] EXCEPT ![board[d]] = v[d][board[d]] + 1]]
  BY DEF UpdateVotes
<1>2. \A d \in Cells : /\ v[d] \in [Colours -> Nat] /\ board[d] \in Colours
                       /\ v[d][board[d]] + 1 \in Nat
  OBVIOUS
<1>3. \A d \in Cells : [v[d] EXCEPT ![board[d]] = v[d][board[d]] + 1] \in [Colours -> Nat]
  BY <1>2
<1>4. QED BY <1>1, <1>2, <1>3

-----------------------------------------------------------------------------
(* The invariant *)

\* Every frame votes once on each cell, on those not looked at as unknown; the route is
\* that of the votes so far; and what is sent was found by enough frames or by the time
\* that was up.
SenderInv ==
  /\ field \in Fields
  /\ frame_count \in Nat /\ spent \in Nat
  /\ votes \in [Cells -> [Colours -> Nat]]
  /\ \A c \in Cells : votes[c][Black] + votes[c][White] + votes[c][Unknown] = frame_count
  /\ \A c \in Cells \ Enabled : votes[c][Unknown] = frame_count
  /\ frame_count = 0 => spent = 0 /\ route_id = 0 /\ stage # "send"
  /\ frame_count > 0 => route_id = ChooseRouteId(BoardFromVotes(votes))
  /\ stage = "send" => frame_count >= VoteFrames \/ spent >= Timeout

LEMMA SenderInitInv == SenderInit => SenderInv
<1> SUFFICES ASSUME SenderInit PROVE SenderInv
  OBVIOUS
<1>1. votes \in [Cells -> [Colours -> Nat]] /\ \A c \in Cells, k \in Colours : votes[c][k] = 0
  BY DEF SenderInit, NoVotes
<1>2. field \in Fields /\ frame_count = 0 /\ spent = 0 /\ route_id = 0 /\ stage = "setup"
  BY DEF SenderInit
<1>3. ASSUME NEW c \in Cells
      PROVE  votes[c][Black] = 0 /\ votes[c][White] = 0 /\ votes[c][Unknown] = 0
  BY <1>1 DEF Colours
<1>4. QED BY <1>1, <1>2, <1>3 DEF SenderInv

\* A frame keeps the invariant: it adds its vote and finds the route anew.
LEMMA LookInv == ASSUME SenderInv, Look PROVE SenderInv'
<1>1. PICK r \in Readings : votes' = UpdateVotes(votes, r[2])
                            /\ route_id' = ChooseRouteId(BoardFromVotes(votes'))
  BY DEF Look
<1>2. PICK d \in 1 .. MaxFrame : spent' = spent + d
  BY DEF Look
<1>3. frame_count' = frame_count + 1 /\ field' = field
      /\ (stage' = "send" => frame_count' >= VoteFrames)
  BY DEF Look, EnoughFrames
<1>4. frame_count \in Nat /\ spent \in Nat /\ votes \in [Cells -> [Colours -> Nat]]
  BY DEF SenderInv
<1>5. r[2] \in [Cells -> Colours] /\ \A c \in Cells \ Enabled : r[2][c] = Unknown
  BY ReadingIsBoard
<1>6. votes' \in [Cells -> [Colours -> Nat]]
  <2>1. <<1, 1>> \in Cells
    BY DEF Cells, Columns
  <2>2. QED BY <1>1, <1>4, <1>5, <2>1, VoteCounts
<1>7. ASSUME NEW c \in Cells
      PROVE  /\ votes'[c][Black] + votes'[c][White] + votes'[c][Unknown] = frame_count'
             /\ c \notin Enabled => votes'[c][Unknown] = frame_count'
  <2>1. {Black, White, Unknown} = Colours /\ r[2][c] \in Colours
    BY <1>5 DEF Colours
  <2>2. \A k \in Colours :
          votes'[c][k] = IF k = r[2][c] THEN votes[c][k] + 1 ELSE votes[c][k]
    BY <1>1, <1>4, <1>5, VoteCounts
  <2>3. \A k \in Colours : votes[c][k] \in Nat
    BY <1>4
  <2>4. /\ votes[c][Black] + votes[c][White] + votes[c][Unknown] = frame_count
        /\ c \notin Enabled => votes[c][Unknown] = frame_count /\ r[2][c] = Unknown
    BY <1>5 DEF SenderInv
  <2>5. Black # White /\ Black # Unknown /\ White # Unknown
    BY DEF Black, White, Unknown
  <2>6. QED BY <1>3, <1>4, <2>1, <2>2, <2>3, <2>4, <2>5
<1>8. spent' \in Nat /\ frame_count' \in Nat /\ frame_count' > 0
  BY <1>2, <1>3, <1>4
<1>9. QED BY <1>1, <1>3, <1>6, <1>7, <1>8 DEF SenderInv

\* So does every other step.
LEMMA SenderNextInv == ASSUME SenderInv, [SenderNext]_senderVars PROVE SenderInv'
<1>1. CASE Look
  BY <1>1, LookInv
<1>2. CASE GiveUp
  <2>1. UNCHANGED <<field, counts, route_id>> /\ spent >= Timeout
    BY <1>2, TimeAssumption DEF GiveUp, InTime, SenderInv
  <2>2. frame_count > 0
    BY <2>1, TimeAssumption DEF SenderInv
  <2>3. QED BY <2>1, <2>2 DEF SenderInv, counts
<1>3. CASE SetUp \/ Send \/ Fail \/ UNCHANGED senderVars
  <2>1. UNCHANGED <<field, counts, route_id>> /\ (stage' = "send" => stage = "send")
    BY <1>3 DEF SetUp, Send, Fail, senderVars
  <2>2. QED BY <2>1 DEF SenderInv, counts
<1>4. QED BY <1>1, <1>2, <1>3 DEF SenderNext, Works, Halted

-----------------------------------------------------------------------------
(* The theorems *)

\* A route that the votes lead to passes no two cells of which neither was voted white.
LEMMA RouteOfVotes ==
  ASSUME SenderInv, NEW col \in Columns, NEW lane \in {2, 3},
         route_id > 0, ROUTE_LIBRARY[route_id][col] = lane
  PROVE  \E c \in {<<lane - 1, col>>, <<lane, col>>} : votes[c][White] > votes[c][Black]
<1> DEFINE board == BoardFromVotes(votes)
           top == <<lane - 1, col>>
           bottom == <<lane, col>>
<1>1. route_id = ChooseRouteId(board) /\ route_id # 0
  BY DEF SenderInv
<1>2. route_id \in ValidRoutes(board)
  BY <1>1, ChosenIsValid
<1>3. <<lane, col>> \in (1 .. 4) \X Columns
  OBVIOUS
<1>4. ~LaneBlocked(board, lane, col)
  BY <1>2, <1>3 DEF ValidRoutes
<1>5. top \in Cells /\ bottom \in Cells
  BY DEF Cells
<1>6. ASSUME NEW c \in Cells, board[c] # Unknown, board[c] # Black
      PROVE  votes[c][White] > votes[c][Black]
  <2>1. Wins(votes, c, White)
    BY <1>6 DEF BoardFromVotes
  <2>2. Black \in Colours \ {White}
    BY DEF Colours, Black, White
  <2>3. QED BY <2>1, <2>2 DEF Wins
<1>7. \E c \in {top, bottom} : board[c] # Unknown /\ board[c] # Black
  BY <1>4 DEF LaneBlocked
<1>8. QED BY <1>5, <1>6, <1>7

\* No route leads between two black pillars unless most of the votes on one of them that
\* had a colour were for white.
THEOREM RouteSafe == SenderSpec => []RouteIsSafe
<1>1. SenderInv => RouteIsSafe
  <2> SUFFICES ASSUME SenderInv, route_id > 0, NEW col \in Columns,
                      ROUTE_LIBRARY[route_id][col] \in {2, 3}
               PROVE  LET lane == ROUTE_LIBRARY[route_id][col]
                      IN  \E c \in {<<lane - 1, col>>, <<lane, col>>} :
                            Shown(c, White) > Shown(c, Black)
    BY DEF RouteIsSafe
  <2> QED BY RouteOfVotes DEF Shown
<1>2. QED BY SenderInitInv, SenderNextInv, <1>1, PTL DEF SenderSpec

\* A colour that is right in most frames wins its cell.
LEMMA MajorityWins ==
  ASSUME SenderInv, frame_count > 0, NEW c \in Cells,
         c \in Enabled => 2 * (frame_count - votes[c][field[c]]) < frame_count
  PROVE  BoardFromVotes(votes)[c] = TrueBoard[c]
<1>1. Black # White /\ Black # Unknown /\ White # Unknown /\ Colours = {Black, White, Unknown}
  BY DEF Black, White, Unknown, Colours
<1>2. /\ votes[c][Black] \in Nat /\ votes[c][White] \in Nat /\ votes[c][Unknown] \in Nat
      /\ votes[c][Black] + votes[c][White] + votes[c][Unknown] = frame_count
      /\ frame_count \in Nat
  BY <1>1 DEF SenderInv
<1>3. \A k \in {Black, White} :
        Wins(votes, c, k) <=> \A other \in Colours \ {k} : votes[c][k] > votes[c][other]
  BY DEF Wins
<1>4. BoardFromVotes(votes)[c] = IF Wins(votes, c, Black) THEN Black
                                 ELSE IF Wins(votes, c, White) THEN White ELSE Unknown
  BY DEF BoardFromVotes
<1>5. CASE c \in Enabled
  <2>1. TrueBoard[c] = field[c] /\ field[c] \in {Black, White}
    BY <1>5, FieldAssumption DEF TrueBoard, SenderInv
  <2>2. QED BY <1>1, <1>2, <1>3, <1>4, <1>5, <2>1
<1>6. CASE c \notin Enabled
  <2>1. votes[c][Unknown] = frame_count /\ TrueBoard[c] = Unknown
    BY <1>6 DEF SenderInv, TrueBoard
  <2>2. votes[c][Black] = 0 /\ votes[c][White] = 0
    BY <1>2, <2>1
  <2>3. ~Wins(votes, c, Black) /\ ~Wins(votes, c, White)
    BY <1>1, <1>3, <2>2
  <2>4. QED BY <1>4, <2>1, <2>3
<1>7. QED BY <1>5, <1>6

\* Bad frames of a cell that are fewer than half of those that had to vote, or that did
\* when time was up, do not change the route.
THEOREM NoiseVotedDown == SenderSpec => []NoiseIsVotedDown
<1>1. SenderInv => NoiseIsVotedDown
  <2> DEFINE voters == IF spent < Timeout THEN VoteFrames ELSE frame_count
  <2> SUFFICES ASSUME SenderInv, stage = "send",
                      \A c \in Enabled : 2 * (frame_count - votes[c][field[c]]) < voters
               PROVE  route_id = ChooseRouteId(TrueBoard)
    BY DEF NoiseIsVotedDown, Shown
  <2>1. frame_count \in Nat /\ frame_count > 0 /\ spent \in Nat
    BY DEF SenderInv
  <2>2. voters <= frame_count
    BY <2>1, TimeAssumption DEF SenderInv
  <2>3. ASSUME NEW c \in Cells PROVE BoardFromVotes(votes)[c] = TrueBoard[c]
    <3>1. ASSUME c \in Enabled PROVE 2 * (frame_count - votes[c][field[c]]) < frame_count
      <4>1. field[c] \in Colours
        BY FieldAssumption DEF SenderInv, Colours
      <4>2. votes[c][field[c]] \in Nat /\ voters \in Nat
        BY <4>1, <2>1, TimeAssumption DEF SenderInv
      <4>3. QED BY <2>1, <2>2, <3>1, <4>2
    <3>2. QED BY <2>1, <3>1, MajorityWins
  <2>4. BoardFromVotes(votes) = TrueBoard
    BY <2>3 DEF BoardFromVotes, TrueBoard
  <2>5. QED BY <2>1, <2>4 DEF SenderInv
<1>2. QED BY SenderInitInv, SenderNextInv, <1>1, PTL DEF SenderSpec

=============================================================================
