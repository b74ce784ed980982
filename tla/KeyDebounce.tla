---------------------------- MODULE KeyDebounce ----------------------------
(***************************************************************************)
(* From four bouncing contacts to key events: MenuPort_GetKey, polled once *)
(* per UI tick (menu_port.c).                                              *)
(*                                                                         *)
(* A poll reads the pins twice, once for the key and once for the number   *)
(* of keys pressed, and the contacts may change between the two readings.  *)
(* The polls are not periodic: a UI tick takes as long as the display bus  *)
(* makes it take, so any time may pass between two of them.                *)
(*                                                                         *)
(* Three histories watch what the polls have really seen: for how long the *)
(* first readings have agreed on one key, for how long the second ones     *)
(* have found no key pressed, and whether that has been for DebounceMs at  *)
(* some poll since the last event.                                         *)
(***************************************************************************)
EXTENDS Naturals, FiniteSets

CONSTANTS Key,         \* the four keys
          NoKey,       \* KEY_NONE
          DebounceMs,  \* 20 in the code
          TickMs       \* the ms by which the model's clock advances

ASSUME KeyAssumption == NoKey \notin Key

ASSUME TimeAssumption == DebounceMs \in Nat \ {0} /\ TickMs \in Nat \ {0}

VARIABLES
  pins,         \* the contacts that are closed
  last_raw, debounced, press_latched, wait_release,  \* g_key_state
  sinceChange,  \* now - change_ms, saturating at DebounceMs
  event,        \* what the last poll returned
  heard,        \* history: the key of the last first reading
  steady,       \* history: since when the first readings have agreed, saturating
  quiet,        \* history: since when no second reading found a key, saturating
  released      \* history: no key for DebounceMs at some poll since the last event

keyState == <<last_raw, debounced, press_latched, wait_release, sinceChange>>
history == <<heard, steady, quiet, released>>
vars == <<pins, keyState, event, history>>

Later(t) == IF t + TickMs > DebounceMs THEN DebounceMs ELSE t + TickMs

\* MenuPort_ReadRawKey: the key if exactly one contact is closed.
RawKey(p) == IF Cardinality(p) = 1 THEN CHOOSE k \in Key : p = {k} ELSE NoKey

-----------------------------------------------------------------------------
(* One poll: p1 are the pins of the first reading, p2 of the second *)

\* Faulty variant: waiting for the release restarts its own timer.
KeepWaitingRestarting(p2) ==
  /\ event' = NoKey
  /\ sinceChange' = 0
  /\ UNCHANGED <<last_raw, debounced, press_latched, wait_release>>

KeepWaiting(p2) ==
  /\ event' = NoKey
  /\ sinceChange' = IF p2 # {} THEN 0 ELSE sinceChange
  /\ UNCHANGED <<last_raw, debounced, press_latched, wait_release>>

\* Faulty variant: two keys at once are only ignored.
ChordIgnored ==
  event' = NoKey /\ UNCHANGED <<last_raw, debounced, press_latched, sinceChange>>

Chord ==
  /\ event' = NoKey
  /\ last_raw' = NoKey
  /\ debounced' = NoKey
  /\ press_latched' = FALSE
  /\ sinceChange' = 0

\* The rest of the poll, from the state left by the release test: raw differs from
\* the last reading, has not been steady for long enough, or is accepted.
Judge(raw, before, accepted, latched) ==
  IF raw # before
  THEN /\ event' = NoKey
       /\ last_raw' = raw
       /\ sinceChange' = 0
       /\ debounced' = accepted
       /\ press_latched' = latched
       /\ wait_release' = FALSE
  ELSE IF sinceChange < DebounceMs
  THEN /\ event' = NoKey
       /\ last_raw' = before
       /\ debounced' = accepted
       /\ press_latched' = latched
       /\ wait_release' = FALSE
       /\ UNCHANGED sinceChange
  ELSE LET latch == latched /\ ~(raw # accepted /\ raw = NoKey)
           press == raw # NoKey /\ ~latch
       IN  /\ event' = IF press THEN raw ELSE NoKey
           /\ last_raw' = before
           /\ debounced' = raw
           /\ press_latched' = (latch \/ press)
           /\ wait_release' = press
           /\ sinceChange' = IF press THEN 0 ELSE sinceChange

\* Faulty variant: one poll without a key is a release.
WaitingOnePoll(p2) == wait_release /\ p2 # {}

Waiting(p2) == wait_release /\ (p2 # {} \/ sinceChange < DebounceMs)

GetKey(p1, p2) ==
  \/ Waiting(p2) /\ KeepWaiting(p2)
  \/ ~Waiting(p2) /\ Cardinality(p2) > 1 /\ Chord /\ wait_release' = FALSE
  \/ /\ ~Waiting(p2)
     /\ Cardinality(p2) <= 1
     /\ IF wait_release
        THEN Judge(RawKey(p1), NoKey, NoKey, FALSE)
        ELSE Judge(RawKey(p1), last_raw, debounced, press_latched)

\* The histories of a poll, but for released also those of an accepted key.
Observe(p1, p2) ==
  /\ heard' = RawKey(p1)
  /\ steady' = IF RawKey(p1) = heard THEN steady ELSE 0
  /\ quiet' = IF p2 = {} /\ event' = NoKey THEN quiet ELSE 0
  /\ released' = (event' = NoKey /\ (released \/ (p2 = {} /\ quiet >= DebounceMs)))

Poll(p2) ==
  /\ GetKey(pins, p2)
  /\ Observe(pins, p2)
  /\ pins' = p2

\* MenuPort_SuppressUntilRelease, before the next poll: the event opened or closed a page.
Suppress ==
  /\ event # NoKey
  /\ event' = NoKey
  /\ last_raw' = NoKey
  /\ debounced' = NoKey
  /\ press_latched' = FALSE
  /\ wait_release' = TRUE
  /\ sinceChange' = 0
  /\ UNCHANGED <<pins, history>>

-----------------------------------------------------------------------------
(* The contacts and time *)

Bounce(k) ==
  /\ pins' = IF k \in pins THEN pins \ {k} ELSE pins \union {k}
  /\ UNCHANGED <<keyState, event, history>>

Time ==
  /\ sinceChange < DebounceMs \/ steady < DebounceMs \/ quiet < DebounceMs
  /\ sinceChange' = Later(sinceChange)
  /\ steady' = Later(steady)
  /\ quiet' = Later(quiet)
  /\ UNCHANGED <<pins, last_raw, debounced, press_latched, wait_release, event, heard,
                 released>>

\* MenuPort_Init; nothing has been read yet.
Init ==
  /\ pins = {}
  /\ last_raw = NoKey
  /\ debounced = NoKey
  /\ press_latched = FALSE
  /\ wait_release = FALSE
  /\ sinceChange = 0
  /\ event = NoKey
  /\ heard = NoKey
  /\ steady = 0
  /\ quiet = 0
  /\ released = TRUE

Polls == \E p2 \in SUBSET Key : Poll(p2)

Next == Polls \/ Suppress \/ (\E k \in Key : Bounce(k)) \/ Time

Fairness == WF_vars(Polls) /\ WF_vars(Time)

Spec == Init /\ [][Next]_vars /\ Fairness

-----------------------------------------------------------------------------
(* Properties *)

\* One press, one event: between two events the polls of a whole debounce time have
\* found no key pressed, however the contacts bounce, whichever key comes next, and
\* whether or not the first one opened or closed a page.
ReleasedBetweenEvents == [][Polls /\ event' # NoKey => released]_vars

\* An event is for the key that every poll of a whole debounce time has read as the
\* only one pressed: neither a bounce nor a chord nor a leftover of the key before.
SteadyBeforeEvent == [][Polls /\ event' # NoKey => heard = event' /\ steady >= DebounceMs]_vars

\* Nothing is lost for good: once released the keys are listened to again, and then a
\* key held alone becomes an event.
PressIsHeard ==
  /\ wait_release ~> (~wait_release \/ pins # {})
  /\ \A k \in Key : (pins = {k} /\ ~wait_release) ~> (event = k \/ pins # {k})

=============================================================================
