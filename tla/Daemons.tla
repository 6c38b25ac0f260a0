------------------------------ MODULE Daemons ------------------------------
(***************************************************************************)
(* What runs beside the request threads: the listener for notifications    *)
(* and the launcher.  They share nothing, the clock neither; as in Host, a *)
(* behaviour of Daemons is that of the one that "daemon" names.            *)
(***************************************************************************)
EXTENDS Notifications, Launcher

VARIABLE daemon  \* the component that moves

daemonVars == <<notifVars, launchVars, daemon>>

Listener(A) == daemon = "listener" /\ A /\ UNCHANGED <<launchVars, daemon>>
Shell(A)    == daemon = "launcher" /\ A /\ UNCHANGED <<notifVars, daemon>>

DaemonsInit ==
  /\ daemon \in {"listener", "launcher"}
  /\ NotifInit /\ LaunchInit
  /\ daemon = "listener" => ~tunnelMode

DaemonsNext == Listener(NotifNext) \/ Shell(LaunchNext)

\* The listener reads what is in the pipe and starts dbus-monitor again.
\* The shell goes on to its next command, and in the wait of cleanup once
\* the children are gone; the thread of server_kill sends its signal and
\* ends the server.  Nobody has to send a signal or a notification, and no process has
\* to end by itself.
DaemonsFairness ==
  /\ WF_daemonVars(Listener(ReadLine)) /\ WF_daemonVars(Listener(StartMonitor))
  /\ WF_daemonVars(Shell(StartServer \/ AwaitBanner \/ StartTunnel \/ WaitReturns
                     \/ Trap \/ HangUp \/ ExitTrap \/ Cleanup))
  /\ WF_daemonVars(Shell(ServerSignals)) /\ WF_daemonVars(Shell(ServerLeaves))

DaemonsSpec == DaemonsInit /\ [][DaemonsNext]_daemonVars /\ DaemonsFairness
=============================================================================
