---------------------------- MODULE MCObjective ----------------------------
(* Instances of Objective for TLC.  The missions cover every command, the  *)
(* park command both as the last one and before another (its two ways to   *)
(* end), the empty argument list, and a name that is no command.           *)
EXTENDS Objective

MCMissions ==
    {<<>>, <<"park", "stop">>, <<"stop", "park">>, <<"entr", "cont">>, <<"exit">>,
     <<"ignr", "bad">>, <<"ignr">>}

(* Fewer missions for the runs that look for a single behaviour. *)
MCFewMissions == {<<"park", "stop">>, <<"entr", "cont", "exit">>, <<"stop", "park">>}
=============================================================================
