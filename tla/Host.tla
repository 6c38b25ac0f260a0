-------------------------------- MODULE Host --------------------------------
(***************************************************************************)
(* The small components that the request threads of the server share with  *)
(* the desktop: the lock state, the login code, the switches, the themes   *)
(* and the windows of web apps.                                            *)
(*                                                                         *)
(* They have the clock in common and no other variable, and no step of one *)
(* reads a variable of another.  A behaviour of all of them is therefore   *)
(* an interleaving of behaviours of each, and a property of one component  *)
(* depends on the steps of that component alone.  So a behaviour of Host   *)
(* is that of one component, which "part" names; the others stand still.   *)
(***************************************************************************)
EXTENDS LockState, LoginCode, Switches, Themes, WindowStates

VARIABLE part  \* the component that moves

Parts == {"lock", "code", "switches", "themes", "windows"}

vars == <<clock, lockState, codeState, switchVars, themeVars, winState, part>>

\* The state of a component that stands still does not matter.
Still ==
  /\ part # "lock" => ~screen
  /\ part # "switches" => ~until /\ profile = "balanced"
  /\ part # "themes" => themesFile = Example
  /\ part # "windows" => windows = Closed

Init ==
  /\ part \in Parts
  /\ LockInit /\ CodeInit /\ SwitchInit /\ ThemeInit /\ WinInit
  /\ Still

Next ==
  /\ UNCHANGED part
  /\ \/ /\ part = "lock" /\ LockNext
        /\ UNCHANGED <<codeState, switchVars, themeVars, winState>>
     \/ /\ part = "code" /\ CodeNext
        /\ UNCHANGED <<lockState, switchVars, themeVars, winState>>
     \/ /\ part = "switches" /\ SwitchNext
        /\ UNCHANGED <<clock, lockState, codeState, themeVars, winState>>
     \/ /\ part = "themes" /\ ThemeNext
        /\ UNCHANGED <<clock, lockState, codeState, switchVars, winState>>
     \/ /\ part = "windows" /\ WinNext
        /\ UNCHANGED <<lockState, codeState, switchVars, themeVars>>

Spec == Init /\ [][Next]_vars

(* Type correctness of the components.                                     *)
HostTypeOK ==
  /\ part \in Parts
  /\ LockTypeOK /\ CodeTypeOK /\ SwitchTypeOK /\ ThemeTypeOK /\ WinTypeOK
=============================================================================
