--------------------------- MODULE MCKeyDebounce ---------------------------
(***************************************************************************)
(* Three keys, enough for a key, another key and chords, and a debounce    *)
(* time of four ticks of the clock.  The tones have the three segments of  *)
(* the real ones, the startup tone the longer last one, and are longer     *)
(* than the debounce time, so that a key comes while one still plays.      *)
(***************************************************************************)
EXTENDS KeyPanel

MCStartup == <<2, 2, 3>>
MCConfirm == <<2, 1, 2>>
MCPatterns == {MCStartup, MCConfirm}

=============================================================================
