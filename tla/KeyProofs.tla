------------------------------- MODULE KeyProofs -------------------------------
(***************************************************************************)
(* Theorems about the keys and the tone that confirms them, for any set of *)
(* keys, any debounce time, any step of the clock and any patterns of the  *)
(* buzzer.                                                                 *)
(***************************************************************************)
EXTENDS KeyPanel, FiniteSetTheorems, TLAPS

\* The timers stay in range.  No key is listened to before its release has been seen;
\* while the release is waited for, the timer of the code is never ahead of the quiet
\* time; afterwards it is never ahead of the time for which one key has been read.
KeyInv ==
  /\ sinceChange \in 0 .. DebounceMs /\ steady \in 0 .. DebounceMs
  /\ quiet \in 0 .. DebounceMs
  /\ wait_release \/ released
  /\ wait_release => quiet >= sinceChange
  /\ ~wait_release /\ last_raw # NoKey => heard = last_raw /\ steady >= sinceChange

\* Nothing has been read.
LEMMA KeyInitInv == PanelInit => KeyInv
  BY TimeAssumption DEF PanelInit, Init, KeyInv

\* The timers of a poll stay in range.
LEMMA ObserveTimers ==
  ASSUME KeyInv, NEW p2, Observe(pins, p2), sinceChange' \in {0, sinceChange}
  PROVE  /\ sinceChange' \in 0 .. DebounceMs /\ steady' \in 0 .. DebounceMs
         /\ quiet' \in 0 .. DebounceMs
  BY TimeAssumption DEF Observe, KeyInv

\* What a poll without an event does to the history of the release.
LEMMA ObserveReleased ==
  ASSUME NEW p2, Observe(pins, p2), event' = NoKey
  PROVE  /\ released => released'
         /\ p2 = {} /\ quiet >= DebounceMs => released'
  BY Zenon DEF Observe

\* The judgement after a release leaves the invariant whatever it finds.
LEMMA ReleaseInv ==
  ASSUME KeyInv, NEW p2, wait_release, ~Waiting(p2),
         Judge(RawKey(pins), NoKey, NoKey, FALSE), Observe(pins, p2)
  PROVE  KeyInv' /\ event' = NoKey
<1> DEFINE raw == RawKey(pins)
<1>1. p2 = {} /\ ~(sinceChange < DebounceMs)
  BY Zenon DEF Waiting
<1>2. quiet >= DebounceMs
  BY <1>1, TimeAssumption DEF KeyInv
<1>3. /\ event' = NoKey /\ ~wait_release' /\ last_raw' = raw
      /\ sinceChange' = IF raw = NoKey THEN sinceChange ELSE 0
  <2>1. CASE raw # NoKey
    BY <2>1, Zenon DEF Judge
  <2>2. CASE raw = NoKey
    BY <1>1, <2>2, Zenon DEF Judge
  <2>3. QED BY <2>1, <2>2
<1>4. released'
  BY <1>1, <1>2, <1>3, ObserveReleased
<1>5. raw # NoKey => heard' = raw /\ steady' >= sinceChange'
  BY <1>3, TimeAssumption DEF Observe, KeyInv
<1>6. QED BY <1>3, <1>4, <1>5, ObserveTimers DEF KeyInv

\* While keys are listened to, an event has a released key behind it and a steady one.
LEMMA ListenInv ==
  ASSUME KeyInv, NEW p2, ~wait_release,
         Judge(RawKey(pins), last_raw, debounced, press_latched), Observe(pins, p2)
  PROVE  /\ KeyInv'
         /\ event' # NoKey => released /\ heard = event' /\ steady >= DebounceMs
<1> DEFINE raw == RawKey(pins)
<1>1. released
  BY Zenon DEF KeyInv
<1>2. heard' = raw /\ last_raw' = raw
  BY DEF Judge, Observe
<1>3. CASE event' = NoKey
  <2>1. released'
    BY <1>1, <1>3, ObserveReleased
  <2>2. ~wait_release'
    BY <1>3, Zenon DEF Judge
  <2>3. sinceChange' = IF raw = last_raw THEN sinceChange ELSE 0
    <3>1. CASE raw # last_raw
      BY <3>1, Zenon DEF Judge
    <3>2. CASE raw = last_raw /\ sinceChange < DebounceMs
      BY <3>2, Zenon DEF Judge
    <3>3. CASE raw = last_raw /\ ~(sinceChange < DebounceMs)
      BY <1>3, <3>3, Zenon DEF Judge
    <3>4. QED BY <3>1, <3>2, <3>3
  <2>4. raw # NoKey => steady' >= sinceChange'
    BY <2>3, TimeAssumption DEF Observe, KeyInv
  <2>5. QED BY <1>2, <1>3, <2>1, <2>2, <2>3, <2>4, ObserveTimers DEF KeyInv
<1>4. CASE event' # NoKey
  <2>1. raw = last_raw /\ ~(sinceChange < DebounceMs)
    BY <1>4, Zenon DEF Judge
  <2>2. event' = raw /\ wait_release' /\ sinceChange' = 0
    BY <1>4, <2>1, Zenon DEF Judge
  <2>3. heard = event' /\ steady >= DebounceMs
    BY <1>4, <2>1, <2>2, TimeAssumption DEF KeyInv
  <2>4. quiet' >= sinceChange'
    BY <2>2, ObserveTimers, TimeAssumption
  <2>5. KeyInv'
    BY <2>2, <2>4, ObserveTimers DEF KeyInv
  <2>6. QED BY <1>1, <2>3, <2>5
<1>5. QED BY <1>3, <1>4

\* One poll.
LEMMA PollInv ==
  ASSUME KeyInv, Polls
  PROVE  /\ KeyInv'
         /\ event' # NoKey => released /\ heard = event' /\ steady >= DebounceMs
<1>1. PICK p2 \in SUBSET Key : GetKey(pins, p2) /\ Observe(pins, p2)
  BY DEF Polls, Poll
<1>2. CASE Waiting(p2) /\ KeepWaiting(p2)
  BY <1>1, <1>2, TimeAssumption DEF Waiting, KeepWaiting, Observe, KeyInv
<1>3. CASE ~Waiting(p2) /\ Cardinality(p2) > 1 /\ Chord /\ wait_release' = FALSE
  <2>1. ~wait_release /\ released
    <3>1. CASE wait_release
      <4>1. p2 = {}
        BY <1>3, <3>1, Zenon DEF Waiting
      <4>2. QED BY <1>3, <4>1, FS_EmptySet
    <3>2. QED BY <3>1 DEF KeyInv
  <2>2. event' = NoKey /\ ~wait_release' /\ last_raw' = NoKey /\ sinceChange' = 0
    BY <1>3 DEF Chord
  <2>3. released'
    BY <1>1, <2>1, <2>2, ObserveReleased
  <2>4. QED BY <1>1, <2>2, <2>3, ObserveTimers DEF KeyInv
<1>4. CASE /\ ~Waiting(p2)
           /\ IF wait_release
              THEN Judge(RawKey(pins), NoKey, NoKey, FALSE)
              ELSE Judge(RawKey(pins), last_raw, debounced, press_latched)
  BY <1>1, <1>4, ReleaseInv, ListenInv
<1>5. QED BY <1>1, <1>2, <1>3, <1>4 DEF GetKey

\* Every step of the panel keeps the invariant.
LEMMA PanelNextInv == KeyInv /\ [PanelNext]_panelVars => KeyInv'
<1> SUFFICES ASSUME KeyInv, [PanelNext]_panelVars PROVE KeyInv'
  OBVIOUS
<1>1. CASE PanelPoll
  BY <1>1, PollInv DEF PanelPoll
<1>2. CASE PageChanges
  BY <1>2, TimeAssumption DEF PageChanges, Suppress, history, KeyInv
<1>3. CASE SensorZero
  BY <1>3 DEF SensorZero, keyState, history, KeyInv
<1>4. CASE Contacts
  BY <1>4 DEF Contacts, Bounce, keyState, history, KeyInv
<1>5. CASE SysTickHandler
  <2>1. CASE Time
    BY <2>1, TimeAssumption DEF Time, Later, KeyInv
  <2>2. CASE UNCHANGED vars
    BY <2>2 DEF vars, keyState, history, KeyInv
  <2>3. QED BY <1>5, <2>1, <2>2 DEF SysTickHandler
<1>6. CASE UNCHANGED panelVars
  BY <1>6 DEF panelVars, vars, keyState, history, KeyInv
<1>7. QED BY <1>1, <1>2, <1>3, <1>4, <1>5, <1>6 DEF PanelNext

\* The invariant holds of every behaviour.
LEMMA KeysSound == PanelSpec => []KeyInv
<1>1. QED BY KeyInitInv, PanelNextInv, PTL DEF PanelSpec

\* Between two events of MenuPort_GetKey a whole debounce time without a key has been
\* seen, for any set of keys and however the contacts bounce.
THEOREM OneEventPerPress == PanelSpec => ReleasedBetweenEvents
<1>1. ASSUME KeyInv PROVE [Polls /\ event' # NoKey => released]_vars
  BY <1>1, PollInv
<1>2. QED BY <1>1, KeysSound, PTL DEF ReleasedBetweenEvents

\* An event of MenuPort_GetKey is for a key that has been read as the only one for a whole
\* debounce time.
THEOREM EventIsSteady == PanelSpec => SteadyBeforeEvent
<1>1. ASSUME KeyInv PROVE [Polls /\ event' # NoKey => heard = event' /\ steady >= DebounceMs]_vars
  BY <1>1, PollInv
<1>2. QED BY <1>1, KeysSound, PTL DEF SteadyBeforeEvent

-----------------------------------------------------------------------------
(* The tone *)

\* When segment k begins, for the patterns g_buzzer has room for.
Offset(p, k) ==
  CASE k = 1 -> 0
    [] k = 2 -> p[1]
    [] k = 3 -> p[1] + p[2]
    [] k = 4 -> p[1] + p[2] + p[3]
    [] k = 5 -> p[1] + p[2] + p[3] + p[4]
    [] k = 6 -> p[1] + p[2] + p[3] + p[4] + p[5]

LEMMA PatternIs ==
  ASSUME NEW p \in Patterns
  PROVE  Len(p) \in 1 .. 6 /\ \A i \in 1 .. Len(p) : p[i] \in Nat \ {0}
<1>1. p \in Seq(Nat \ {0}) /\ Len(p) \in 1 .. 6
  BY PatternAssumption
<1>2. QED BY <1>1

\* Each segment begins where the one before it ends.
LEMMA OffsetNext ==
  ASSUME NEW p \in Patterns, NEW k \in 1 .. Len(p)
  PROVE  /\ Offset(p, k) \in Nat
         /\ k < Len(p) => Offset(p, k + 1) = Offset(p, k) + p[k]
<1>1. k \in {1, 2, 3, 4, 5, 6}
  BY PatternIs
<1>2. \A i \in 1 .. k : p[i] \in Nat
  BY PatternIs
<1>3. CASE k = 1
  BY <1>2, <1>3 DEF Offset
<1>4. CASE k = 2
  BY <1>2, <1>4 DEF Offset
<1>5. CASE k = 3
  BY <1>2, <1>5 DEF Offset
<1>6. CASE k = 4
  BY <1>2, <1>6 DEF Offset
<1>7. CASE k = 5
  BY <1>2, <1>7 DEF Offset
<1>8. CASE k = 6
  <2>1. ~(k < Len(p))
    BY <1>8, PatternIs
  <2>2. Offset(p, 6) = p[1] + p[2] + p[3] + p[4] + p[5]
    BY DEF Offset
  <2>3. p[1] \in Nat /\ p[2] \in Nat /\ p[3] \in Nat /\ p[4] \in Nat /\ p[5] \in Nat
    BY <1>2, <1>8
  <2>4. QED BY <1>8, <2>1, <2>2, <2>3
<1>9. QED BY <1>1, <1>3, <1>4, <1>5, <1>6, <1>7, <1>8

LEMMA OffsetsInOrder ==
  ASSUME NEW p \in Patterns, NEW j \in 1 .. Len(p), NEW k \in 1 .. Len(p), j < k
  PROVE  Offset(p, j) + p[j] <= Offset(p, k)
<1>1. Len(p) \in 1 .. 6 /\ \A i \in 1 .. Len(p) : p[i] \in Nat
  BY PatternIs
<1>2. \A i \in 1 .. Len(p) :
        /\ Offset(p, i) \in Nat
        /\ i < Len(p) => Offset(p, i + 1) = Offset(p, i) + p[i]
  BY OffsetNext
<1> DEFINE S(i) == Offset(p, i)
<1>3. \A i \in 1 .. Len(p) : S(i) \in Nat /\ p[i] \in Nat
  BY <1>1, <1>2
<1>4. ASSUME NEW i \in 1 .. Len(p), i + 1 \in 1 .. Len(p), j <= i,
             i = j \/ S(j) + p[j] <= S(i)
      PROVE  S(j) + p[j] <= S(i + 1)
  <2>1. i < Len(p)
    BY <1>1, <1>4
  <2>2. S(i + 1) = S(i) + p[i]
    BY <1>2, <2>1
  <2> HIDE DEF S
  <2>3. S(i) \in Nat /\ p[i] \in Nat /\ S(j) \in Nat /\ p[j] \in Nat
    BY <1>3
  <2>4. QED BY <1>4, <2>2, <2>3
<1> HIDE DEF S
<1>5. /\ j + 1 <= k => S(j) + p[j] <= S(j + 1)
      /\ j + 2 <= k => S(j) + p[j] <= S((j + 1) + 1)
      /\ j + 3 <= k => S(j) + p[j] <= S((j + 2) + 1)
      /\ j + 4 <= k => S(j) + p[j] <= S((j + 3) + 1)
      /\ j + 5 <= k => S(j) + p[j] <= S((j + 4) + 1)
  <2>1. j + 1 <= k => S(j) + p[j] <= S(j + 1)
    BY <1>1, <1>4
  <2>2. j + 2 <= k => S(j) + p[j] <= S((j + 1) + 1)
    BY <1>1, <1>4, <2>1
  <2>3. j + 3 <= k => S(j) + p[j] <= S((j + 2) + 1)
    <3>1. (j + 1) + 1 = j + 2
      BY <1>1
    <3>2. QED BY <1>1, <1>4, <2>2, <3>1
  <2>4. j + 4 <= k => S(j) + p[j] <= S((j + 3) + 1)
    <3>1. (j + 2) + 1 = j + 3
      BY <1>1
    <3>2. QED BY <1>1, <1>4, <2>3, <3>1
  <2>5. j + 5 <= k => S(j) + p[j] <= S((j + 4) + 1)
    <3>1. (j + 3) + 1 = j + 4
      BY <1>1
    <3>2. QED BY <1>1, <1>4, <2>4, <3>1
  <2>6. QED BY <2>1, <2>2, <2>3, <2>4, <2>5
<1>6. \/ k = j + 1 \/ k = (j + 1) + 1 \/ k = (j + 2) + 1 \/ k = (j + 3) + 1
      \/ k = (j + 4) + 1
  BY <1>1
<1>7. S(j) + p[j] <= S(k)
  BY <1>1, <1>5, <1>6
<1>8. QED BY <1>7 DEF S

\* The sum that StartOf defines is the one written out.
LEMMA StartIsOffset ==
  ASSUME NEW p \in Patterns, NEW k \in 1 .. Len(p)
  PROVE  StartOf(p, k) = Offset(p, k)
<1> DEFINE Fits(f) == f = [i \in 1 .. k |-> IF i = 1 THEN 0 ELSE f[i - 1] + p[i - 1]]
           g == [i \in 1 .. k |-> Offset(p, i)]
<1>1. Len(p) \in 1 .. 6
  BY PatternIs
<1>2. Offset(p, 1) = 0
  BY DEF Offset
<1>3. \A i \in 1 .. k : i # 1 => Offset(p, i) = Offset(p, i - 1) + p[i - 1]
  <2> SUFFICES ASSUME NEW i \in 1 .. k, i # 1 PROVE Offset(p, i) = Offset(p, i - 1) + p[i - 1]
    OBVIOUS
  <2>1. i - 1 \in 1 .. Len(p) /\ i - 1 < Len(p) /\ (i - 1) + 1 = i
    BY <1>1
  <2>2. QED BY <2>1, OffsetNext
<1>4. Fits(g)
  BY <1>1, <1>2, <1>3
<1>5. StartOf(p, k) = (CHOOSE f : Fits(f))[k]
  BY DEF StartOf
<1> DEFINE f == CHOOSE f : Fits(f)
<1>6. Fits(f)
  BY <1>4
<1> HIDE DEF f
<1>7. \A i \in 1 .. k : f[i] = IF i = 1 THEN 0 ELSE f[i - 1] + p[i - 1]
  BY <1>6
<1>8. \A i \in 1 .. k : i = 1 => f[i] = Offset(p, i)
  BY <1>2, <1>7
<1>9. \A i \in 1 .. k : i # 1 /\ f[i - 1] = Offset(p, i - 1) => f[i] = Offset(p, i)
  BY <1>3, <1>7
<1>10. f[k] = Offset(p, k)
  <2>1. \A i \in 1 .. k : i = 2 => f[i] = Offset(p, i)
    BY <1>1, <1>8, <1>9
  <2>2. \A i \in 1 .. k : i = 3 => f[i] = Offset(p, i)
    BY <1>1, <2>1, <1>9
  <2>3. \A i \in 1 .. k : i = 4 => f[i] = Offset(p, i)
    BY <1>1, <2>2, <1>9
  <2>4. \A i \in 1 .. k : i = 5 => f[i] = Offset(p, i)
    BY <1>1, <2>3, <1>9
  <2>5. \A i \in 1 .. k : i = 6 => f[i] = Offset(p, i)
    BY <1>1, <2>4, <1>9
  <2>6. k \in {1, 2, 3, 4, 5, 6} /\ k \in 1 .. k
    BY PatternIs
  <2>7. k = 1 => f[k] = Offset(p, k)
    BY <1>8, <2>6
  <2>8. QED BY <2>1, <2>2, <2>3, <2>4, <2>5, <2>6, <2>7
<1>11. QED BY <1>5, <1>10 DEF f

-----------------------------------------------------------------------------
\* While a pattern plays, the fields of g_buzzer say how far into it the handler is.
ToneInv ==
  /\ segments \in Patterns
  /\ active \in BOOLEAN
  /\ IF active
     THEN /\ segment_index \in 1 .. Len(segments)
          /\ remain_ms \in 1 .. segments[segment_index]
          /\ elapsed + remain_ms = Offset(segments, segment_index) + segments[segment_index]
          /\ elapsed \in Nat
          /\ buzzer = (segment_index % 2 = 1)
     ELSE /\ buzzer = FALSE
          /\ elapsed = Offset(segments, Len(segments)) + segments[Len(segments)]

\* A pattern starts with its first segment on.
LEMMA LoadTone ==
  ASSUME NEW p \in Patterns, LoadSequence(p)
  PROVE  ToneInv'
<1>1. 1 \in 1 .. Len(p) /\ p[1] \in Nat \ {0}
  BY PatternIs
<1>2. Offset(p, 1) = 0
  BY DEF Offset
<1>3. /\ segments' = p /\ segment_index' = 1 /\ remain_ms' = p[1] /\ active' = TRUE
      /\ buzzer' = TRUE /\ elapsed' = 0
  BY DEF LoadSequence
<1>4. Offset(segments, segment_index)' = 0
  BY <1>2, <1>3 DEF Offset
<1>5. buzzer' = (segment_index' % 2 = 1)
  <2>1. (1 % 2 = 1) = TRUE
    OBVIOUS
  <2>2. QED BY <1>3, <2>1, Zenon
<1>6. remain_ms' \in 1 .. p[1] /\ elapsed' + remain_ms' = 0 + p[1] /\ elapsed' \in Nat
  BY <1>1, <1>3
<1>7. QED BY <1>1, <1>3, <1>4, <1>5, <1>6 DEF ToneInv

LEMMA TickTone == ASSUME ToneInv, BuzzerTick PROVE ToneInv'
<1> DEFINE p == segments
           k == segment_index
<1>1. CASE ~active
  <2>1. UNCHANGED <<segments, segment_index, remain_ms, active, buzzer, elapsed>>
    BY <1>1, Zenon DEF BuzzerTick, tone
  <2>2. Offset(segments, Len(segments))' = Offset(p, Len(p))
    BY <2>1 DEF Offset
  <2>3. QED BY <1>1, <2>1, <2>2 DEF ToneInv
<1>2. CASE active
  <2>1. /\ p \in Patterns /\ k \in 1 .. Len(p) /\ remain_ms \in 1 .. p[k] /\ elapsed \in Nat
        /\ elapsed + remain_ms = Offset(p, k) + p[k]
        /\ buzzer = (k % 2 = 1)
    BY <1>2 DEF ToneInv
  <2>2. elapsed' = elapsed + 1 /\ segments' = p
    BY <1>2 DEF BuzzerTick
  <2>3. p[k] \in Nat \ {0} /\ Offset(p, k) \in Nat /\ Len(p) \in 1 .. 6
    BY <2>1, PatternIs, OffsetNext
  <2>4. \A i : Offset(segments, i)' = Offset(p, i')
    BY <2>2 DEF Offset
  <2>5. CASE remain_ms > 1
    <3>1. /\ remain_ms' = remain_ms - 1 /\ segment_index' = k /\ active' = active
          /\ buzzer' = buzzer
      <4>1. ~(remain_ms <= 1)
        BY <2>1, <2>3, <2>5
      <4>2. QED BY <1>2, <4>1, Zenon DEF BuzzerTick
    <3>2. remain_ms' \in 1 .. p[k] /\ elapsed' \in Nat
      BY <2>1, <2>2, <2>3, <2>5, <3>1
    <3>3. elapsed' + remain_ms' = Offset(p, k) + p[k]
      BY <2>1, <2>2, <2>3, <3>1
    <3>4. Offset(segments, segment_index)' = Offset(p, k)
      BY <2>2, <3>1 DEF Offset
    <3>5. QED BY <1>2, <2>1, <2>2, <3>1, <3>2, <3>3, <3>4 DEF ToneInv
  <2>6. CASE remain_ms <= 1
    <3>1. NextSegment
      <4>1. ~(remain_ms > 1)
        BY <2>1, <2>3, <2>6
      <4>2. QED BY <1>2, <4>1, Zenon DEF BuzzerTick
    <3>2. elapsed' = Offset(p, k) + p[k] /\ elapsed' \in Nat
      BY <2>1, <2>2, <2>3, <2>6
    <3>3. CASE k = Len(p)
      <4>1. active' = FALSE /\ buzzer' = FALSE
        BY <3>1, <3>3 DEF NextSegment
      <4>2. Offset(segments, Len(segments))' = Offset(p, k) /\ segments'[Len(segments')] = p[k]
        BY <2>2, <3>3 DEF Offset
      <4>3. QED BY <2>1, <2>2, <3>2, <4>1, <4>2 DEF ToneInv
    <3>4. CASE k # Len(p)
      <4>1. k + 1 \in 1 .. Len(p) /\ k < Len(p)
        BY <2>1, <2>3, <3>4
      <4>2. /\ segment_index' = k + 1 /\ remain_ms' = p[k + 1] /\ active'
            /\ buzzer' = (k % 2 = 0)
        BY <1>2, <3>1, <3>4 DEF NextSegment
      <4>3. p[k + 1] \in Nat \ {0} /\ Offset(p, k + 1) = Offset(p, k) + p[k]
        BY <2>1, <4>1, PatternIs, OffsetNext
      <4>4. (k % 2 = 0) = ((k + 1) % 2 = 1)
        BY <2>1, <2>3
      <4>5. remain_ms' \in 1 .. p[k + 1]
        BY <4>2, <4>3
      <4>6. elapsed' + remain_ms' = Offset(p, k + 1) + p[k + 1]
        BY <3>2, <4>2, <4>3
      <4>7. Offset(segments, segment_index)' = Offset(p, k + 1)
        BY <2>2, <4>2 DEF Offset
      <4>8. QED BY <2>1, <2>2, <3>2, <4>1, <4>2, <4>4, <4>5, <4>6, <4>7 DEF ToneInv
    <3>5. QED BY <3>3, <3>4
  <2>7. QED BY <2>1, <2>3, <2>5, <2>6
<1>3. QED BY <1>1, <1>2 DEF ToneInv

\* The invariant says that what is heard is the pattern.
LEMMA ToneHeard == ASSUME ToneInv PROVE ToneIsThePattern
<1> DEFINE p == segments
           S(k) == Offset(p, k)
<1>1. p \in Patterns /\ Len(p) \in 1 .. 6
  BY PatternIs DEF ToneInv
<1>2. \A k \in 1 .. Len(p) : StartOf(p, k) = S(k) /\ S(k) \in Nat /\ p[k] \in Nat \ {0}
  BY <1>1, StartIsOffset, OffsetNext, PatternIs
<1>3. \A j, k \in 1 .. Len(p) : j < k => S(j) + p[j] <= S(k)
  BY <1>1, OffsetsInOrder
<1>4. Duration(p) = S(Len(p)) + p[Len(p)] /\ Len(p) \in 1 .. Len(p)
  BY <1>1, <1>2 DEF Duration
<1> DEFINE Heard(k) == k % 2 = 1 /\ S(k) <= elapsed /\ elapsed < S(k) + p[k]
<1> SUFFICES /\ buzzer <=> \E k \in 1 .. Len(p) : Heard(k)
             /\ active <=> elapsed < S(Len(p)) + p[Len(p)]
  BY <1>2, <1>4 DEF ToneIsThePattern
<1>5. CASE active
  <2> DEFINE n == segment_index
  <2>1. /\ n \in 1 .. Len(p) /\ remain_ms \in 1 .. p[n] /\ elapsed \in Nat
        /\ elapsed + remain_ms = S(n) + p[n]
        /\ buzzer = (n % 2 = 1)
    BY <1>5 DEF ToneInv
  <2> HIDE DEF S, n
  <2>2. S(n) <= elapsed /\ elapsed < S(n) + p[n]
    BY <1>2, <2>1
  <2>3. \A k \in 1 .. Len(p) : S(k) <= elapsed /\ elapsed < S(k) + p[k] => k = n
    <3> SUFFICES ASSUME NEW k \in 1 .. Len(p), S(k) <= elapsed, elapsed < S(k) + p[k], k # n
                 PROVE  FALSE
      OBVIOUS
    <3>1. k < n \/ n < k
      BY <1>1, <2>1
    <3>2. S(k) + p[k] <= S(n) \/ S(n) + p[n] <= S(k)
      BY <1>3, <2>1, <3>1
    <3>3. S(k) \in Nat /\ S(n) \in Nat /\ p[k] \in Nat /\ p[n] \in Nat
      BY <1>2, <2>1
    <3>4. QED BY <2>1, <2>2, <3>2, <3>3
  <2>4. buzzer <=> \E k \in 1 .. Len(p) : Heard(k)
    BY <2>1, <2>2, <2>3
  <2>5. elapsed < S(Len(p)) + p[Len(p)]
    <3>1. CASE n = Len(p)
      BY <2>2, <3>1
    <3>2. CASE n # Len(p)
      <4>1. S(n) + p[n] <= S(Len(p))
        BY <1>1, <1>3, <1>4, <2>1, <3>2
      <4>2. S(n) \in Nat /\ p[n] \in Nat /\ S(Len(p)) \in Nat /\ p[Len(p)] \in Nat \ {0}
        BY <1>2, <1>4, <2>1
      <4>3. QED BY <2>1, <2>2, <4>1, <4>2
    <3>3. QED BY <3>1, <3>2
  <2>6. QED BY <1>5, <2>4, <2>5
<1>6. CASE ~active
  <2>1. buzzer = FALSE /\ elapsed = S(Len(p)) + p[Len(p)]
    BY <1>6 DEF ToneInv
  <2> HIDE DEF S
  <2>2. \A k \in 1 .. Len(p) : S(k) + p[k] <= elapsed
    <3> SUFFICES ASSUME NEW k \in 1 .. Len(p) PROVE S(k) + p[k] <= elapsed
      OBVIOUS
    <3>1. S(k) \in Nat /\ p[k] \in Nat /\ S(Len(p)) \in Nat /\ p[Len(p)] \in Nat
      BY <1>2, <1>4
    <3>2. CASE k = Len(p)
      BY <2>1, <3>1, <3>2
    <3>3. CASE k # Len(p)
      <4>1. S(k) + p[k] <= S(Len(p))
        BY <1>1, <1>3, <1>4, <3>3
      <4>2. QED BY <2>1, <3>1, <4>1
    <3>4. QED BY <3>2, <3>3
  <2>3. elapsed \in Nat /\ \A k \in 1 .. Len(p) : S(k) + p[k] \in Nat
    BY <1>2, <1>4, <2>1
  <2>4. QED BY <1>4, <1>6, <2>1, <2>2, <2>3
<1>7. QED BY <1>5, <1>6

LEMMA PanelTone == ASSUME ToneInv, [PanelNext]_panelVars PROVE ToneInv'
<1>1. CASE UNCHANGED tone
  BY <1>1 DEF tone, ToneInv, Offset
<1>2. CASE LoadSequence(ConfirmTone)
  BY <1>2, ToneAssumption, LoadTone
<1>3. CASE BuzzerTick
  BY <1>3, TickTone
<1>4. QED BY <1>1, <1>2, <1>3 DEF PanelNext, PanelPoll, PageChanges, SensorZero, Contacts,
                                  SysTickHandler, panelVars

LEMMA InitTone == PanelInit => ToneInv
<1> SUFFICES ASSUME PanelInit PROVE ToneInv
  OBVIOUS
<1>1. StartupTone \in Patterns
  BY ToneAssumption
<1>2. 1 \in 1 .. Len(StartupTone) /\ StartupTone[1] \in Nat \ {0}
  BY <1>1, PatternIs
<1>3. Offset(StartupTone, 1) = 0
  BY DEF Offset
<1>4. /\ segments = StartupTone /\ segment_index = 1 /\ remain_ms = StartupTone[1]
      /\ active = TRUE /\ buzzer = TRUE /\ elapsed = 0
  BY DEF PanelInit, BuzzerInit
<1>5. buzzer = (segment_index % 2 = 1)
  <2>1. (1 % 2 = 1) = TRUE
    OBVIOUS
  <2>2. QED BY <1>4, <2>1, Zenon
<1>6. remain_ms \in 1 .. StartupTone[1] /\ elapsed + remain_ms = 0 + StartupTone[1]
  BY <1>2, <1>4
<1>7. QED BY <1>1, <1>2, <1>3, <1>4, <1>5, <1>6 DEF ToneInv

\* Whatever pattern is loaded over whatever other, and whenever: every segment lasts its
\* ticks, on and off in turn, and silence follows.
THEOREM ToneIsPlayed == PanelSpec => []ToneIsThePattern
<1>1. QED BY InitTone, PanelTone, ToneHeard, PTL DEF PanelSpec

=============================================================================
