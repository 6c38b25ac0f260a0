--------------------------- MODULE PasskeysAlone ----------------------------
(***************************************************************************)
(* What the passkey handlers promise while they do not overlap: a history  *)
(* variable, alone, tells whether they were handled one at a time so far.  *)
(* Crashes may come at any moment.                                         *)
(***************************************************************************)
EXTENDS Passkeys

VARIABLE alone

AtMostOne == \A t, u \in Threads : h[t] # Idle /\ h[u] # Idle => t = u

AloneInit == Init /\ alone = TRUE
AloneNext == Next /\ alone' = (alone /\ AtMostOne')
AloneSpec == AloneInit /\ [][AloneNext]_<<vars, alone>>

(* As long as requests do not overlap, a device whose passkey was deleted  *)
(* before its sign-in began is not signed in, crashes or not; with two at  *)
(* a time it can be, which the run PasskeysResurrected shows.              *)
DeletedStaysOutAlone == alone => DeletedStaysOut

(* As long as requests do not overlap the file is an atomic store: every   *)
(* save adds, removes or counts a use of exactly one passkey and keeps the *)
(* others, or dies and leaves an empty list.                               *)
AloneImplementsPasskeyStore ==
  Abstract!Init /\ [][alone' => [Abstract!Next]_Stored]_<<vars, alone>>
=============================================================================
