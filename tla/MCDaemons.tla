----------------------------- MODULE MCDaemons -----------------------------
(* Daemons for TLC.  There is no symmetry: its run checks liveness.        *)
EXTENDS Daemons

(* A plain notification without and with an action; one whose summary does *)
(* not match; one whose application does not, and too few strings follow;  *)
(* one that has member=Notify in its body, and one that has it in a hint,  *)
(* with four more strings after it.                                        *)
SomePrintings ==
  { Told,
    Told \o <<"text">>,
    <<"head", "app", "icon", "body", "text">>,
    <<"head", "icon", "summary", "body">>,
    <<"head", "app", "icon", "summary", "head", "text", "text", "text", "text">>,
    Told \o <<"head", "text", "text", "text", "text">> }
=============================================================================
