----------------------------- MODULE MCTaskQueue -----------------------------
(***************************************************************************)
(* Three actions compete for a ring of two slots, enough for the ring to   *)
(* wrap, to be full while an action runs, and to be refilled over slots of *)
(* an earlier lap.  Between them they have every kind of phase that ends:  *)
(* a timed one (SENSOR_SCAN), straights with and without an entry lead     *)
(* (Q3 and ROUTE_2500), arcs (Q3) and turns (ROUTE_2500).                  *)
(***************************************************************************)
EXTENDS TaskService

MCProgram == [SENSOR_SCAN |-> RunSensorScan, Q3 |-> RunQ3, ROUTE_2500 |-> RunRoute2500]

=============================================================================
