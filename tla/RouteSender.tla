----------------------------- MODULE RouteSender -----------------------------
(***************************************************************************)
(* The K230's program (k230_route_planner.py): set up, look at the pillars *)
(* until the votes of enough frames give a route or time is up, then send  *)
(* the route's number again and again.                                     *)
(*                                                                         *)
(* The pillars stand still; what the camera makes of them differs from     *)
(* frame to frame in the cells of Noisy.  Camera and display may fail at   *)
(* any frame: while looking that ends the program, while sending the last  *)
(* picture is shown in place of a new one.                                 *)
(***************************************************************************)
EXTENDS RoutePlanner

CONSTANTS Fields,      \* the arrangements of black and white pillars
          Usual,       \* the brightness of a black and of a white pillar
          Noise,       \* what may disturb a frame: the brightness of the cells it touches
          VoteFrames,  \* VOTE_FRAME_COUNT: 18
          Timeout,     \* DETECT_TIMEOUT_MS: 26000
          SendPeriod,  \* SEND_PERIOD_MS: 500
          MaxFrame,    \* the time that looking at a picture may take
          MaxLoop      \* the time that a turn of the sending loop may take

ASSUME FieldAssumption ==
  /\ Fields \subseteq [Cells -> {Black, White}]
  /\ Usual \in [{Black, White} -> Nat]
  /\ \A n \in Noise : \E C \in SUBSET Cells : n \in [C -> Int]

ASSUME TimeAssumption ==
  {VoteFrames, Timeout, SendPeriod, MaxFrame, MaxLoop} \subseteq Nat \ {0}

VARIABLES
  field,        \* the colours of the pillars
  stage,        \* "setup", "detect", "send" or "ended"
  uart,         \* the serial port could be set up
  votes,        \* votes
  frame_count,  \* frame_count
  spent,        \* time since start_ms
  route_id,     \* route_id
  wait,         \* time to next_send_ms
  wrote         \* the last step put a byte on the wire

counts == <<votes, frame_count, spent>>
senderVars == <<field, stage, uart, counts, route_id, wait, wrote>>

\* run_on_k230 up to the first frame: camera and display first, without which it ends, then
\* the serial port, without which it goes on.
SetUp ==
  /\ stage = "setup"
  /\ \/ stage' = "ended" /\ uart' = uart
     \/ stage' = "detect" /\ uart' \in BOOLEAN
  /\ UNCHANGED <<field, counts, route_id, wait, wrote>>

\* detect_board_once: what the camera may make of the pillars f.
Readings ==
  {<<f, ClassifyBoard([c \in Cells |-> IF c \notin Enabled THEN -1
                                      ELSE IF c \in DOMAIN n THEN n[c] ELSE Usual[f[c]]])>> :
     f \in Fields, n \in Noise}

\* Faulty variant: a route is enough, however few frames have voted.
EnoughFramesHasty == TRUE

EnoughFrames == frame_count' >= VoteFrames

InTime == spent < Timeout

\* detect_until_stable, one frame of it.
Look ==
  /\ stage = "detect" /\ InTime
  /\ frame_count' = frame_count + 1
  /\ \E v \in {UpdateVotes(votes, r[2]) : r \in {q \in Readings : q[1] = field}} :
       /\ votes' = v
       /\ route_id' = ChooseRouteId(BoardFromVotes(v))
  /\ stage' = IF EnoughFrames /\ route_id' > 0 THEN "send" ELSE "detect"
  /\ \E d \in 1 .. MaxFrame : spent' = spent + d
  /\ UNCHANGED <<field, uart, wait, wrote>>

\* The timeout: the last answer stands, be it 0.
GiveUp ==
  /\ stage = "detect" /\ ~InTime
  /\ stage' = "send"
  /\ UNCHANGED <<field, uart, counts, route_id, wait, wrote>>

\* Faulty variant: every turn of the loop, not only one that sends, puts off the next byte.
SendPutOff ==
  /\ stage = "send"
  /\ \E d \in 1 .. MaxLoop :
       /\ wrote' = (wait <= 0 /\ uart)
       /\ wait' = SendPeriod - d
  /\ UNCHANGED <<field, stage, uart, counts, route_id>>

\* send_route_forever, a turn of the loop.
Send ==
  /\ stage = "send"
  /\ \E d \in 1 .. MaxLoop :
       /\ wrote' = (wait <= 0 /\ uart)
       /\ wait' = (IF wait <= 0 THEN SendPeriod ELSE wait) - d
  /\ UNCHANGED <<field, stage, uart, counts, route_id>>

\* An exception of the camera, the display or the serial port, or the user's stop.
Fail ==
  /\ stage \in {"detect", "send"}
  /\ stage' = "ended"
  /\ wrote' = FALSE
  /\ UNCHANGED <<field, uart, counts, route_id, wait>>

Halted == stage = "ended" /\ UNCHANGED senderVars

SenderInit ==
  /\ field \in Fields
  /\ stage = "setup" /\ uart = FALSE
  /\ votes = NoVotes /\ frame_count = 0 /\ spent = 0 /\ route_id = 0
  /\ wait = 0 /\ wrote = FALSE

Works == SetUp \/ Look \/ GiveUp \/ Send

SenderNext == Works \/ Fail \/ Halted

\* The program goes on unless something fails.
SenderSpec == SenderInit /\ [][SenderNext]_senderVars /\ WF_senderVars(Works)

-----------------------------------------------------------------------------
(* Properties *)

\* The frames that showed a cell in a colour.
Shown(c, k) == votes[c][k]

\* The byte on the wire is no route between two black pillars, unless one of them was
\* shown white by more frames than showed it black: no single bad frame, no region that
\* cannot be read and no tie of the votes leads the car into a gap it must not take.
RouteIsSafe ==
  stage = "send" /\ route_id > 0 =>
    \A col \in Columns :
      LET lane == ROUTE_LIBRARY[route_id][col]
      IN  lane \in {2, 3} /\ field[<<lane - 1, col>>] = Black /\ field[<<lane, col>>] = Black =>
            \E c \in {<<lane - 1, col>>, <<lane, col>>} : Shown(c, White) > Shown(c, Black)

\* The board as it would be read without noise.
TrueBoard == [c \in Cells |-> IF c \in Enabled THEN field[c] ELSE Unknown]

\* Fewer bad frames of a cell than half of those that were to vote do not matter, nor, when
\* time was up, than half of those that did vote: the route sent is then the one for the
\* pillars as they stand.
NoiseIsVotedDown ==
  LET voters == IF spent < Timeout THEN VoteFrames ELSE frame_count
  IN  stage = "send" /\ (\A c \in Enabled : 2 * (frame_count - Shown(c, field[c])) < voters) =>
        route_id = ChooseRouteId(TrueBoard)

\* Whatever the camera shows, the looking ends, and from then on the number is sent again
\* and again, unless the program has ended or has no serial port.
RouteIsSent == []<>(wrote \/ stage = "ended" \/ (stage = "send" /\ ~uart))

=============================================================================
