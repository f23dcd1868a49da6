---------------------------- MODULE MCBoardImages ----------------------------
(* A small instance of BoardImages: three places, at most two tiles, tokens *)
(* that live four ticks or one, and a margin of two.                        *)
EXTENDS BoardImages

Asked ==
  {[mode |-> "fit", focus |-> {}], [mode |-> "fit", focus |-> {1}],
   [mode |-> "fit", focus |-> {1, 2}], [mode |-> "tiles", focus |-> {}],
   [mode |-> "tiles", focus |-> {1}], [mode |-> "other", focus |-> {}]}

Roles ==
  {[owner |-> TRUE, member |-> "no row"], [owner |-> FALSE, member |-> "VIEWER"],
   [owner |-> FALSE, member |-> "no row"]}

Limits == [mint |-> 1, devtools |-> 1, loading |-> 3, drawing |-> 3]
=============================================================================
