------------------------------- MODULE Buzzer -------------------------------
(***************************************************************************)
(* The buzzer (Buzzer.c): a pattern of segments, on and off in turn, that  *)
(* the main loop loads and the SysTick handler steps.  Loading masks the   *)
(* interrupts, so it is one step; it may come at any point of the pattern  *)
(* before.                                                                 *)
(***************************************************************************)
EXTENDS Naturals, Sequences

CONSTANTS Patterns  \* lengths of segments in ms, on first

ASSUME PatternAssumption ==
  \A p \in Patterns : p \in Seq(Nat \ {0}) /\ Len(p) \in 1 .. 6

VARIABLES
  segments, segment_index, remain_ms, active,  \* g_buzzer, the index from 1
  buzzer,   \* the pin
  elapsed   \* history: ticks since the pattern was loaded, saturating at its end

tone == <<segments, segment_index, remain_ms, active, buzzer, elapsed>>

\* When segment k of pattern p begins, and the length of the whole.
StartOf(p, k) ==
  LET start[i \in 1 .. k] == IF i = 1 THEN 0 ELSE start[i - 1] + p[i - 1]
  IN start[k]

Duration(p) == StartOf(p, Len(p)) + p[Len(p)]

\* Faulty variant: the index goes on from where the last pattern was.
LoadMidway(pattern) ==
  /\ segments' = pattern
  /\ segment_index' = IF active THEN segment_index ELSE 1
  /\ remain_ms' = pattern[1]
  /\ active' = TRUE
  /\ buzzer' = TRUE
  /\ elapsed' = 0

\* Buzzer_LoadSequence
LoadSequence(pattern) ==
  /\ segments' = pattern
  /\ segment_index' = 1
  /\ remain_ms' = pattern[1]
  /\ active' = TRUE
  /\ buzzer' = TRUE
  /\ elapsed' = 0

\* Segments are on and off in turn.
NextSegment ==
  /\ segment_index' = segment_index + 1
  /\ IF segment_index = Len(segments)
     THEN active' = FALSE /\ buzzer' = FALSE /\ remain_ms' = 0
     ELSE /\ remain_ms' = segments[segment_index + 1]
          /\ buzzer' = (segment_index % 2 = 0)
          /\ UNCHANGED active

\* Buzzer_Tick1ms
BuzzerTick ==
  \/ ~active /\ UNCHANGED tone
  \/ /\ active
     /\ elapsed' = elapsed + 1
     /\ UNCHANGED segments
     /\ \/ remain_ms > 1 /\ remain_ms' = remain_ms - 1
           /\ UNCHANGED <<segment_index, active, buzzer>>
        \/ remain_ms <= 1 /\ NextSegment

\* Buzzer_Init and the startup pattern.
BuzzerInit(startup) ==
  /\ segments = startup /\ segment_index = 1 /\ remain_ms = startup[1]
  /\ active = TRUE /\ buzzer = TRUE /\ elapsed = 0

-----------------------------------------------------------------------------
\* What is heard is the last pattern from its beginning, each segment to the tick, and
\* silence after it, whatever it was loaded over and whenever.
ToneIsThePattern ==
  /\ buzzer <=> \E k \in 1 .. Len(segments) :
                  /\ k % 2 = 1
                  /\ StartOf(segments, k) <= elapsed
                  /\ elapsed < StartOf(segments, k) + segments[k]
  /\ active <=> elapsed < Duration(segments)

=============================================================================
