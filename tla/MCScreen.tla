----------------------------- MODULE MCScreen -----------------------------
(***************************************************************************)
(* A screen of two columns and two rows of text, with a line to spare, and *)
(* graphics modes of one big virtual pixel in a row (2) and of the screen's *)
(* own pixels (3, 5).                                                      *)
(***************************************************************************)
EXTENDS Screen

MCKey == {"g", "\n", "BS", "\r", "ESC"}

MCText == {<<"g", "g">>, <<" ", "\n", "g">>,
           <<"ESC", "[", "2", "J">>, <<"ESC", "[", "2", ";", "5", ";", "2", "H">>,
           <<"ESC", "[", "?", "2", "5", "l">>, <<"ESC", "[", "A", "g">>,
           <<"ESC", "[", "D", "ESC", "[", "K">>}

MCTarget == [mode \in 0..5 |-> CASE mode = 2 -> 1 [] mode = 3 -> 2 [] OTHER -> 0]

MCPoint == {<<0, 0>>, <<1, 4>>, <<-1, 1>>, <<1, -2>>}
=============================================================================
