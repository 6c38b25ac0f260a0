------------------------------ MODULE Launcher ------------------------------
(***************************************************************************)
(* start.sh with its trap, the signal handlers of server.py and the        *)
(* handler server_kill of routes/system.py.                                *)
(*                                                                         *)
(* The shell runs the trap of INT and TERM between two of its commands, or *)
(* at once while it waits in the last line; the function cleanup does not  *)
(* exit, so the shell then goes on where it was.  At its end it runs       *)
(* cleanup once more, for EXIT.  SIGHUP has the trap of EXIT only: the     *)
(* shell runs that and ends.  A signal during cleanup starts it anew; what *)
(* is left of the outer run then finds no child and does nothing.  Left    *)
(* out: SIGHUP during the cleanup for EXIT, which ends the shell at once,  *)
(* and SIGKILL.                                                            *)
(***************************************************************************)
EXTENDS Naturals

CONSTANT MaxSignals  \* bound of the model: signals that are sent

ASSUME SignalAssumption == MaxSignals \in Nat

VARIABLES
  tunnelMode, \* whether a tunnel is configured and to be started
  stage,      \* the command of start.sh that is next
  server,     \* the process of server.py
  tunnel,     \* the process of cloudflared
  known,      \* the processes whose id the shell has in a variable
  cleaning,   \* the command of cleanup that is next
  signalled,  \* the signals that wait for the shell
  signals,    \* number of signals sent
  leaving     \* the step of the thread that server_kill started

launchVars == <<tunnelMode, stage, server, tunnel, known, cleaning, signalled, signals, leaving>>

Ready == cleaning = "no" /\ signalled = {}

LaunchInit ==
  /\ tunnelMode \in BOOLEAN
  /\ stage = "server"
  /\ server = "none" /\ tunnel = "none"
  /\ known = {}
  /\ cleaning = "no"
  /\ signalled = {} /\ signals = 0
  /\ leaving = "no"

-----------------------------------------------------------------------------
\* The server is started in the background, and then its id is kept.
StartServer ==
  /\ Ready
  /\ \/ stage = "server" /\ stage' = "serverId" /\ server' = "up" /\ UNCHANGED known
     \/ stage = "serverId" /\ stage' = "banner" /\ known' = {"server"} /\ UNCHANGED server
  /\ UNCHANGED <<tunnelMode, tunnel, cleaning, signalled, signals, leaving>>

\* The banner is waited for, for five seconds.
AwaitBanner ==
  /\ Ready /\ stage = "banner"
  /\ stage' = IF tunnelMode THEN "tunnel" ELSE "hold"
  /\ UNCHANGED <<tunnelMode, server, tunnel, known, cleaning, signalled, signals, leaving>>

\* The tunnel likewise, and its connection.
StartTunnel ==
  /\ Ready
  /\ \/ stage = "tunnel" /\ stage' = "tunnelId" /\ tunnel' = "up" /\ UNCHANGED known
     \/ stage = "tunnelId" /\ stage' = "connect" /\ known' = known \cup {"tunnel"}
          /\ UNCHANGED tunnel
     \/ stage = "connect" /\ stage' = "hold" /\ UNCHANGED <<tunnel, known>>
  /\ UNCHANGED <<tunnelMode, server, cleaning, signalled, signals, leaving>>

\* wait returns when all children are gone, and the script is at its end.
WaitReturns ==
  /\ Ready /\ stage = "hold"
  /\ server # "up" /\ tunnel # "up"
  /\ stage' = "exit"
  /\ UNCHANGED <<tunnelMode, server, tunnel, known, cleaning, signalled, signals, leaving>>

-----------------------------------------------------------------------------
Finished == stage = "done" /\ cleaning = "no"

TrapIgnored == \* mutant: the trap is for EXIT only and the wait goes on
  /\ "TERM" \in signalled /\ ~Finished
  /\ signalled' = signalled \ {"TERM"}
  /\ UNCHANGED <<tunnelMode, stage, server, tunnel, known, cleaning, signals, leaving>>

\* The trap of INT and TERM; it ends a wait.
Trap ==
  /\ "TERM" \in signalled /\ ~Finished
  /\ signalled' = signalled \ {"TERM"}
  /\ cleaning' = "term"
  /\ stage' = IF stage = "hold" THEN "exit" ELSE stage
  /\ UNCHANGED <<tunnelMode, server, tunnel, known, signals, leaving>>

\* SIGHUP, wherever the shell is: the trap of EXIT, and the end.
HangUp ==
  /\ "HUP" \in signalled
  /\ signalled' = signalled \ {"HUP"}
  /\ cleaning' = "term"
  /\ stage' = "done"
  /\ UNCHANGED <<tunnelMode, server, tunnel, known, signals, leaving>>

\* The trap of EXIT.
ExitTrap ==
  /\ cleaning = "no" /\ stage = "exit" /\ "HUP" \notin signalled
  /\ stage' = "done"
  /\ cleaning' = "term"
  /\ UNCHANGED <<tunnelMode, server, tunnel, known, signalled, signals, leaving>>

\* cleanup: SIGTERM, on which a process may end, then SIGKILL, on which it
\* does, then a wait for all children.
Cleanup ==
  /\ \/ /\ cleaning = "term"
        /\ server' \in {server, IF server = "up" /\ "server" \in known THEN "down" ELSE server}
        /\ tunnel' \in {tunnel, IF tunnel = "up" /\ "tunnel" \in known THEN "down" ELSE tunnel}
        /\ cleaning' = "kill"
     \/ /\ cleaning = "kill"
        /\ server' = IF server = "up" /\ "server" \in known THEN "down" ELSE server
        /\ tunnel' = IF tunnel = "up" /\ "tunnel" \in known THEN "down" ELSE tunnel
        /\ cleaning' = "wait"
     \/ /\ cleaning = "wait"
        /\ server # "up" /\ tunnel # "up"
        /\ cleaning' = "no"
        /\ UNCHANGED <<server, tunnel>>
  /\ UNCHANGED <<tunnelMode, stage, known, signalled, signals, leaving>>

-----------------------------------------------------------------------------
\* The user breaks out (SIGINT, here with TERM), closes the window or sends
\* a signal to the shell.
SendSignal ==
  /\ signals < MaxSignals /\ ~Finished
  /\ signals' = signals + 1
  /\ \E sig \in {"TERM", "HUP"} :
       /\ sig = "HUP" => stage # "done"
       /\ signalled' = signalled \cup {sig}
  /\ UNCHANGED <<tunnelMode, stage, server, tunnel, known, cleaning, leaving>>

\* server_kill answers at once; its thread signals the parent half a second
\* later and ends the server two seconds after that.  A further call is one
\* more signal.
ServerKill ==
  /\ server = "up" /\ leaving = "no"
  /\ leaving' = "asked"
  /\ UNCHANGED <<tunnelMode, stage, server, tunnel, known, cleaning, signalled, signals>>

\* The parent is the launcher as long as that is not over.
ServerSignals ==
  /\ server = "up" /\ leaving = "asked"
  /\ leaving' = "sent"
  /\ signalled' = IF Finished THEN signalled ELSE signalled \cup {"TERM"}
  /\ UNCHANGED <<tunnelMode, stage, server, tunnel, known, cleaning, signals>>

ServerLeaves ==
  /\ server = "up" /\ leaving = "sent"
  /\ server' = "down"
  /\ UNCHANGED <<tunnelMode, stage, tunnel, known, cleaning, signalled, signals, leaving>>

\* A process ends by itself, the server also on a signal of its own.
ProcessEnds ==
  /\ \/ server = "up" /\ server' = "down" /\ UNCHANGED tunnel
     \/ tunnel = "up" /\ tunnel' = "down" /\ UNCHANGED server
  /\ UNCHANGED <<tunnelMode, stage, known, cleaning, signalled, signals, leaving>>

LaunchNext ==
  \/ StartServer \/ AwaitBanner \/ StartTunnel \/ WaitReturns
  \/ Trap \/ HangUp \/ ExitTrap \/ Cleanup
  \/ SendSignal \/ ServerKill \/ ServerSignals \/ ServerLeaves \/ ProcessEnds

-----------------------------------------------------------------------------
Stopped == Finished /\ server # "up" /\ tunnel # "up"

(* "shuts everything down cleanly" (start.sh:3): a signal that reaches the *)
(* launcher while it holds, from the terminal or from the panel's button,  *)
(* ends it with neither server nor tunnel left, whichever of them ends     *)
(* first and however often the trap runs.                                  *)
HoldStops == (stage = "hold" /\ signalled # {}) ~> Stopped
=============================================================================
