---------------------------- MODULE MCRouteSender ----------------------------
(***************************************************************************)
(* The thresholds, the enabled cells and the library of the program; every *)
(* field whose right column is white; two cells above each other that can  *)
(* look black, white, in between or not at all, and frames in which all    *)
(* but two cells are unreadable; three votes in at most four frames.       *)
(* SelfTest is the _self_test of the program.                              *)
(***************************************************************************)
EXTENDS RouteSender

MCEnabled == Cells \ {<<1, 1>>}
MCFields ==
  {f \in [Cells -> {Black, White}] : f[<<1, 3>>] = White /\ f[<<2, 3>>] = White
                                      /\ f[<<3, 3>>] = White /\ f[<<1, 1>>] = White}
MCUsual == [k \in {Black, White} |-> IF k = Black THEN 30 ELSE 54]
MCNoise ==
  [{<<2, 2>>, <<3, 2>>} -> {-1, 30, 45, 54}] \union [Cells \ {<<2, 1>>, <<2, 2>>} -> {-1}]

AsBoard(rows) == [c \in Cells |-> rows[c[1]][c[2]]]

ASSUME SelfTest ==
  /\ \A test \in
       {<<1, <<"W", "W", "W">>, <<"W", "W", "W">>, <<"W", "W", "W">>>>,
        <<2, <<"B", "W", "W">>, <<"B", "W", "W">>, <<"W", "W", "W">>>>,
        <<6, <<"B", "W", "W">>, <<"B", "B", "W">>, <<"W", "B", "W">>>>,
        <<0, <<"?", "W", "W">>, <<"?", "?", "?">>, <<"?", "?", "?">>>>,
        <<7, <<"W", "?", "W">>, <<"W", "?", "W">>, <<"W", "?", "W">>>>} :
       ChooseRouteId(AsBoard(Tail(test))) = test[1]
  /\ Classify(35) = Black /\ Classify(55) = White /\ Classify(45) = Unknown
  /\ ClassifyBoard(AsBoard(<<<<-1, 32, 53>>, <<22, 34, 56>>, <<50, 29, 52>>>>))
       = AsBoard(<<<<"?", "B", "W">>, <<"B", "B", "W">>, <<"W", "B", "W">>>>)

=============================================================================
