---------------------------- MODULE SettingsPages ----------------------------
(***************************************************************************)
(* The two pages of tunable magnitudes (interaction_service.c): the        *)
(* entries of a page in the order K3 steps through them, each with its     *)
(* default (app_config.h), the step of one key press and the limits it is  *)
(* clamped to.  An arc's radius and angle skip zero.                       *)
(***************************************************************************)
EXTENDS Integers, Sequences

Setting(name, default, step, least, greatest) ==
  [name |-> name, default |-> default, step |-> step, least |-> least,
   greatest |-> greatest]

Settings ==
  [name : STRING, default : Int, step : Nat \ {0}, least : Int, greatest : Int]

\* The radius and the angle of an arc.
SkipsZero(setting) == setting.name \in {"ARC RAD", "ARC ANG"}

Q1Settings ==
  <<Setting("Q1 SPD", 320, 10, 100, 600), Setting("Q1 D1", 2400, 10, 100, 5000),
    Setting("Q1 D2", 500, 10, 50, 3000), Setting("Q1 D3", 500, 10, 50, 3000),
    Setting("Q1 ANG", 375, 1, 100, 1800), Setting("Q1 LEAD", 160, 5, 0, 600),
    Setting("Q1 BST", 300, 10, 0, 600), Setting("Q1 BTK", 12, 1, 0, 40),
    Setting("Q1 TYAW", 320, 10, 20, 1200), Setting("Q1 BIAS", 5, 1, -50, 50)>>

ArcSettings ==
  <<Setting("ARC SPD", 180, 10, 80, 500), Setting("ARC RAD", 250, 10, -2000, 2000),
    Setting("ARC ANG", 3600, 50, -20000, 20000)>>

Clamp(value, least, greatest) ==
  IF value < least THEN least ELSE IF value > greatest THEN greatest ELSE value

\* Faulty variant: zero is not skipped.
AdjustedThroughZero(setting, value, delta) ==
  Clamp(value + delta * setting.step, setting.least, setting.greatest)

\* InteractionService_AdjustCurrentSetting, for a press of K1 (1) or K2 (-1).
Adjusted(setting, value, delta) ==
  LET moved == Clamp(value + delta * setting.step, setting.least, setting.greatest)
  IN  IF moved = 0 /\ SkipsZero(setting)
      THEN delta * setting.step
      ELSE moved

\* InteractionService_SettingsNext, indices from 1.
NextIndex(page, index) == IF index >= Len(page) THEN 1 ELSE index + 1

=============================================================================
