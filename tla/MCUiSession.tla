---------------------------- MODULE MCUiSession ----------------------------
(***************************************************************************)
(* The whole menu tree, pages of every kind (stage, step, raw readings,    *)
(* settings, about) and settings with a handful of values around a limit   *)
(* and around zero.                                                        *)
(***************************************************************************)
EXTENDS UiSession

MCProgram == [a \in {"RUN_MODE_A", "Q3", "MOTOR_TEST_2", "SENSOR_SCAN"} |-> TaskProgram[a]]

MCOpened == {"RUN_MODE_A", "Q3", "MOTOR_TEST_2", "SENSOR_PAGE", "SETTINGS_PAGE",
             "ARC_SETTINGS_PAGE", "ABOUT_PAGE"}

MCQ1Page ==
  <<[Q1Settings[8] EXCEPT !.default = 1, !.greatest = 1],
    [Q1Settings[9] EXCEPT !.default = 20, !.greatest = 20]>>

MCArcPage ==
  <<[ArcSettings[2] EXCEPT !.default = 10, !.least = -10, !.greatest = 10]>>

\* States that differ only in dead slots of the ring, in the action last completed
\* (none of the pages here shows it), in a time nothing waits for or in the lines left
\* behind by a closed page have the same future.
View ==
  <<[i \in 1 .. size |-> Live(i)], current, stage, depth, busy, phase,
    IF busy THEN count ELSE NoCounts,
    IF busy /\ CurrentPhase.until = "timed" THEN elapsed ELSE 0,
    command, reading, nav, active, screen, action, visible, dirty,
    IF visible THEN <<page, sinceRefresh>> ELSE <<>>, settingVars>>

=============================================================================
