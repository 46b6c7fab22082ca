------------------------------- MODULE MCRespStream --------------------------------
(* Instances of RespStream for TLC.                                         *)
EXTENDS RespStream

Ternary == <<"0", "1", "2">>

(* Arguments that hold every byte the framing gives a meaning to. *)
Vectors == { << <<"a">> >>,
             << <<"a">>, <<"a">> >>,
             << <<"a">>, <<>> >>,
             << <<"a", CR>>, <<LF, Star>> >>,
             << <<Dollar, "1">>, <<CR, LF>> >> }
==============================================================================
