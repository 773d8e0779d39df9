------------------------------ MODULE Terminal ------------------------------
(***************************************************************************)
(* From the serial line to commands: the read loop of                       *)
(* src/src/tasks/uart_rx_task.c and terminal_rx_callback() and              *)
(* terminal_process_command() of src/src/shell/terminal_service.c.          *)
(*                                                                         *)
(* A user types lines.  A character is the first of a line, one that         *)
(* follows, or the end of the line; what matters of the command buffer is    *)
(* how much it holds and whether that begins where a line began, because a   *)
(* command is recognized by the first six bytes.  What the commands do to    *)
(* the parameters is in Settings; here every command answers, and LPTS5 may   *)
(* restart the chip.                                                         *)
(*                                                                         *)
(* The UART has no flow control: a character that finds the driver's ring     *)
(* full, because the task is busy with a command, is lost, and so is what is  *)
(* typed while the chip restarts.  A read returns up to 512 bytes; they are   *)
(* taken here one by one.                                                    *)
(***************************************************************************)
EXTENDS Integers, Sequences

CONSTANTS
    RingSize,     \* bytes the UART driver holds
    MAX_CMD_LEN   \* bytes of the command buffer, the final zero included

ASSUME RingSizeAssumption == RingSize \in Nat \ {0}
ASSUME MaxCmdAssumption == MAX_CMD_LEN \in Nat /\ MAX_CMD_LEN >= 2

VARIABLES
    typing,    \* the user is inside a line
    gap,       \* characters have been lost since the last one that arrived
    ring,      \* external: what the UART driver holds
    cmd_pos,   \* bytes in the command buffer
    start,     \* the first of them is the first of a line
    cut        \* history: since the last end of a line, characters were lost or dropped

terminalVars == <<typing, gap, ring, cmd_pos, start, cut>>

Chars == [kind : {"first", "next", "end"}, gap : BOOLEAN]

TerminalTypeOK ==
    /\ typing \in BOOLEAN
    /\ gap \in BOOLEAN
    /\ ring \in Seq(Chars) /\ Len(ring) <= RingSize
    /\ cmd_pos \in 0 .. MAX_CMD_LEN - 1
    /\ start \in BOOLEAN
    /\ cut \in BOOLEAN

TerminalInit ==
    /\ typing = FALSE
    /\ gap = FALSE
    /\ ring = <<>>
    /\ cmd_pos = 0
    /\ start = FALSE
    /\ cut = FALSE

\* The user goes on typing while the chip restarts.
TerminalRestart ==
    /\ typing' \in BOOLEAN
    /\ gap' = TRUE
    /\ ring' = <<>>
    /\ cmd_pos' = 0
    /\ start' = FALSE
    /\ cut' = FALSE

-----------------------------------------------------------------------------
(* The user and the UART driver *)

Type(kind) ==
    /\ kind = "first" => ~typing
    /\ kind = "next" => typing
    /\ typing' = (kind # "end")
    /\ IF Len(ring) < RingSize
       THEN ring' = Append(ring, [kind |-> kind, gap |-> gap]) /\ gap' = FALSE
       ELSE gap' = TRUE /\ UNCHANGED ring
    /\ UNCHANGED <<cmd_pos, start, cut>>

User == \E kind \in {"first", "next", "end"} : Type(kind)

Char == Head(ring)

ReadChar ==
    /\ ring # <<>>
    /\ ring' = Tail(ring)
    /\ UNCHANGED <<typing, gap>>

-----------------------------------------------------------------------------
(* A variant with a mistake that no specification uses. *)

\* Running the command and leaving it in the buffer.
EndLineKeepsBuffer ==
    /\ ReadChar
    /\ Char.kind = "end"
    /\ cut' = FALSE
    /\ UNCHANGED <<cmd_pos, start>>

-----------------------------------------------------------------------------
(* uart_rx_task() and terminal_rx_callback() *)

Begins == Char.kind = "first" /\ cmd_pos = 0

StoreChar ==
    /\ ReadChar
    /\ Char.kind # "end" /\ cmd_pos < MAX_CMD_LEN - 1
    /\ cmd_pos' = cmd_pos + 1
    /\ start' = IF cmd_pos = 0 THEN Begins ELSE start
    /\ cut' = (~Begins /\ (cut \/ Char.gap))

\* "Command too long": the buffer is emptied, this character with it, and the
\* rest of the line begins a command.
DropLongCommand ==
    /\ ReadChar
    /\ Char.kind # "end" /\ cmd_pos = MAX_CMD_LEN - 1
    /\ cmd_pos' = 0
    /\ cut' = TRUE
    /\ UNCHANGED start

\* The end of a line runs what the buffer holds; between \r and \n it holds
\* nothing.
EndLine ==
    /\ ReadChar
    /\ Char.kind = "end"
    /\ cmd_pos' = 0
    /\ cut' = FALSE
    /\ UNCHANGED start

\* terminal_process_command(): what the buffer begins with names the command.
\* EndLine has those that answer and return.
CommandRuns == ring # <<>> /\ Char.kind = "end" /\ cmd_pos > 0

-----------------------------------------------------------------------------
TerminalNext == User \/ StoreChar \/ DropLongCommand \/ EndLine

-----------------------------------------------------------------------------
(* Properties *)

\* What the buffer holds begins where the user began a line, and a new line finds
\* it empty, unless characters were lost on the way or the line was too long.
LinesAreKeptApart ==
    /\ cmd_pos > 0 => start \/ cut
    /\ (ring # <<>> /\ Char.kind = "first" /\ cmd_pos > 0) => Char.gap

=============================================================================
