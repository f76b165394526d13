----------------------------- MODULE MCCommands -----------------------------
(* Two messages, a death, a rebalance every second day; a piece takes      *)
(* six characters, and one line is longer than two pieces.                 *)
EXTENDS Commands

MCReports == {<<2, 1, 1>>, <<5, 1, 14, 3>>}
=============================================================================
