------------------------------- MODULE MCHost -------------------------------
(* Host for TLC: the threads are interchangeable; the profiles of          *)
(* power-profiles-daemon, and contents of themes.yml that tell the         *)
(* branches of load() apart.                                               *)
EXTENDS Host, TLC

Symmetry == Permutations(Threads)

MCProfiles == <<"power-saver", "balanced", "performance">>

Theme(id, whole) == [id |-> id, whole |-> whole]
Contents(kind, themes, default) == [kind |-> kind, themes |-> themes, default |-> default]

MCExample ==
  Contents("good", <<Theme("dark", TRUE), Theme("light", TRUE)>>, "light")

\* Missing, broken, as shipped; with one theme that is incomplete and a
\* default beyond the limit; with no theme that is complete; empty.
MCThemeFiles ==
  {Contents("missing", <<>>, "dark"), Contents("broken", <<>>, "dark"), MCExample,
   Contents("good", <<Theme("dark", FALSE), Theme("light", TRUE),
                      Theme("sea", TRUE), Theme("sun", TRUE)>>, "sun"),
   Contents("good", <<Theme("dark", FALSE)>>, "dark"), Truncated}
=============================================================================
