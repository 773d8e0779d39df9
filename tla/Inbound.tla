------------------------------ MODULE Inbound -------------------------------
(***************************************************************************)
(* The two ways commands come in, on the chip they share: frames of the       *)
(* cloud on their way to the bus, and lines typed at the terminal.  The tasks *)
(* share no data; a restart ends both wherever they are.  LPTS5 asks for one,  *)
(* the button leads to one, and the power may go at any time.                 *)
(***************************************************************************)
EXTENDS Downlink, Terminal

vars == <<downlinkVars, terminalVars>>

TypeOK == DownlinkTypeOK /\ TerminalTypeOK

Init == DownlinkInit /\ TerminalInit

-----------------------------------------------------------------------------
DownlinkStep == DownlinkNext /\ UNCHANGED terminalVars
TerminalStep == TerminalNext /\ UNCHANGED downlinkVars

Restart == DownlinkRestart /\ TerminalRestart

\* The power goes and comes back, or the button restarts the chip.
PowerCycle == Restart

\* LPTS5 answers, waits and restarts the chip.
Lpts5Restarts == CommandRuns /\ Restart

Next == DownlinkStep \/ TerminalStep \/ PowerCycle \/ Lpts5Restarts

Spec == Init /\ [][Next]_vars

\* The scheduler runs a task that is ready, app_main() among them; neither the
\* cloud nor the user has to send anything.
Fairness ==
    /\ WF_vars((HandleByCallback \/ HandleDirectly) /\ UNCHANGED terminalVars)
    /\ WF_vars(InstallDriver /\ UNCHANGED terminalVars)

FairSpec == Spec /\ Fairness

=============================================================================
