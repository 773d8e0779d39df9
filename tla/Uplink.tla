------------------------------- MODULE Uplink -------------------------------
(***************************************************************************)
(* From the RS485 bus and the heartbeat to the cloud:                       *)
(* src/src/tasks/rs485_task.c, src/main/main.c, src/src/utils/heartbeat.c   *)
(* and the sending half of src/src/protocol/data_process.c.                 *)
(*                                                                         *)
(* The RS485 service task turns a valid Modbus frame into a protocol frame  *)
(* of function code 194; the FreeRTOS timer task builds a heartbeat frame   *)
(* every ten seconds.  Both number their frames from one counter, which     *)
(* nothing protects.                                                        *)
(*                                                                         *)
(* A frame is an identity and a length; what it says is never looked at.    *)
(* The connection is a Boolean here: TcpClient has the rest of it.          *)
(***************************************************************************)
EXTENDS Integers, Sequences

CONSTANTS
    Byte,        \* 256 in the code: the counter is sent as two bytes
    BufSize,     \* sizeof(frame_buffer) in data_process_send: 512
    Lengths,     \* lengths uart_read_bytes() may return
    MaxFrames,   \* bound: frames read from the bus
    MaxBeats     \* bound: expiries of the heartbeat timer

ASSUME ByteAssumption == Byte \in Nat \ {0, 1}
ASSUME BufSizeAssumption == BufSize \in Nat
ASSUME LengthsAssumption == Lengths \subseteq Nat
ASSUME BoundsAssumption == MaxFrames \in Nat /\ MaxBeats \in Nat

VARIABLES
    boot,      \* how far app_main() has come
    handle,    \* s_rs485_tcp_data_handle is not NULL
    link,      \* tcp_client_task_is_connected()
    seq,       \* s_frame_sequence
    bpc,       \* where each builder is: the RS485 service task, the timer task
    reg,       \* the counter value each builder has read: low byte, high byte, for ++
    frame,     \* the frame the service task works on: identity and length, 0 for none
    beats,     \* expiries of the heartbeat timer so far
    numbers,   \* history: the numbers of the last two frames built
    wire,      \* history: the bus frames handed to esp_tls_conn_write() or send()
    overlap    \* history: two builders were inside data_process_send() at once

vars == <<boot, handle, link, seq, bpc, reg, frame, beats, numbers, wire, overlap>>

Builders == {"rs485", "heartbeat"}

NumberMod == Byte * Byte  \* uint16_t

HeaderLen == 20           \* 18 bytes of header and the two length bytes of FC 194
CrcLen == 2

\* data_process_send() gives every builder the same path; the place in it is
\* named for the step of build_protocol_header() the task does next.
PcBuild == {"low", "high", "load", "store", "wrap", "reset", "emit"}

TypeOK ==
    /\ boot \in {"start", "client", "rs485", "callback", "done"}
    /\ handle \in BOOLEAN
    /\ link \in BOOLEAN
    /\ seq \in 0 .. NumberMod - 1
    /\ bpc \in [Builders -> {"idle", "gate", "raw"} \cup PcBuild]
    /\ reg \in [Builders -> [low : 0 .. Byte - 1, high : 0 .. Byte - 1,
                             old : 0 .. NumberMod - 1]]
    /\ frame \in [id : 0 .. MaxFrames, len : Lengths \cup {0}]
    /\ beats \in 0 .. MaxBeats
    /\ numbers \in Seq(0 .. NumberMod - 1) /\ Len(numbers) <= 2
    /\ wire \in SUBSET (1 .. MaxFrames)
    /\ overlap \in BOOLEAN

NoReg == [low |-> 0, high |-> 0, old |-> 0]

\* app_main() only logs that data_process_create() has returned NULL.
Init ==
    /\ boot = "start"
    /\ handle \in BOOLEAN
    /\ link = FALSE
    /\ seq = 0
    /\ bpc = [b \in Builders |-> "idle"]
    /\ reg = [b \in Builders |-> NoReg]
    /\ frame = [id |-> 0, len |-> 0]
    /\ beats = 0
    /\ numbers = <<>>
    /\ wire = {}
    /\ overlap = FALSE

BGoto(b, from, to) == bpc[b] = from /\ bpc' = [bpc EXCEPT ![b] = to]

Building(b) == bpc[b] \in PcBuild

\* The Modbus data of a frame, without address, function and CRC.
DataLen(len) == len - 4

\* build_data_transmission_frame() refuses by this test ...
BuilderAccepts(n) == BufSize >= HeaderLen + n

\* ... and writes this many bytes.
FrameLen(n) == HeaderLen + n + CrcLen

\* Where the callback sends data of an acceptable length: through the builder, or
\* as it is if there is no handle; a frame the builder refuses is dropped.
WayOn(n) ==
    IF ~handle THEN "raw" ELSE IF BuilderAccepts(n) THEN "low" ELSE "idle"

-----------------------------------------------------------------------------
(* Variants of single steps, each with one mistake a change to the code      *)
(* could make.  No specification uses them: every property below is checked  *)
(* to fail when its variant takes the place of the step.                     *)

\* A counter wider than the two bytes it is sent in.
StoreUnbounded(b) ==
    /\ BGoto(b, "store", "wrap")
    /\ seq' = reg[b].old + 1
    /\ UNCHANGED <<boot, handle, link, reg, frame, beats, numbers, wire, overlap>>

\* Resetting the counter to 0 instead of leaving 0 out.
ResetToZero(b) ==
    /\ BGoto(b, "reset", "emit")
    /\ seq' = 0
    /\ UNCHANGED <<boot, handle, link, reg, frame, beats, numbers, wire, overlap>>

\* Counting before the number is written into the frame.
PutLowNext(b) ==
    /\ BGoto(b, "low", "high")
    /\ reg' = [reg EXCEPT ![b].low = (seq + 1) % Byte]
    /\ UNCHANGED <<boot, handle, link, seq, frame, beats, numbers, wire, overlap>>

\* Asking for more than one byte of data.
GateTooStrict ==
    /\ bpc["rs485"] = "gate"
    /\ LET n == DataLen(frame.len)
           way == IF link /\ n > 1 /\ n < 500 THEN WayOn(n) ELSE "idle"
       IN  /\ bpc' = [bpc EXCEPT !["rs485"] = way]
           /\ frame' = IF way = "idle" THEN [frame EXCEPT !.len = 0] ELSE frame
           /\ overlap' = (overlap \/ (way = "low" /\ Building("heartbeat")))
    /\ UNCHANGED <<boot, handle, link, seq, reg, beats, numbers, wire>>

-----------------------------------------------------------------------------
(* app_main(): the service task runs before its callback is set, and the     *)
(* heartbeat starts last.                                                    *)

BootStep(from, to) ==
    /\ boot = from
    /\ boot' = to
    /\ UNCHANGED <<handle, link, seq, bpc, reg, frame, beats, numbers, wire, overlap>>

Boot ==
    \/ BootStep("start", "client")       \* tcp_client_task_init()
    \/ BootStep("client", "rs485")       \* rs485_task_init()
    \/ BootStep("rs485", "callback")     \* rs485_task_set_callback()
    \/ BootStep("callback", "done")      \* heartbeat_start()

\* The client task runs as soon as it exists, and comes and goes as TcpClient says.
LinkChanges ==
    /\ boot # "start"
    /\ link' = ~link
    /\ UNCHANGED <<boot, handle, seq, bpc, reg, frame, beats, numbers, wire, overlap>>

-----------------------------------------------------------------------------
\* rs485_service_task: at least address, function and CRC; CRC right; function known.
ValidModbus(len, crcOk, known) == len >= 4 /\ crcOk /\ known

ReadBus ==
    /\ boot \in {"rs485", "callback", "done"}
    /\ bpc["rs485"] = "idle"
    /\ frame.id < MaxFrames
    /\ \E len \in Lengths, crcOk, known \in BOOLEAN :
        LET taken == ValidModbus(len, crcOk, known) /\ boot # "rs485"
        IN  /\ frame' = [id |-> frame.id + 1, len |-> IF taken THEN len ELSE 0]
            /\ bpc' = [bpc EXCEPT !["rs485"] = IF taken THEN "gate" ELSE "idle"]
    /\ UNCHANGED <<boot, handle, link, seq, reg, beats, numbers, wire, overlap>>

\* rs485_frame_to_tcp_callback, up to the numbering in data_process_send() or to
\* the plain send.
Gate ==
    /\ bpc["rs485"] = "gate"
    /\ LET n == DataLen(frame.len)
           way == IF link /\ n > 0 /\ n < 500 THEN WayOn(n) ELSE "idle"
       IN  /\ bpc' = [bpc EXCEPT !["rs485"] = way]
           /\ frame' = IF way = "idle" THEN [frame EXCEPT !.len = 0] ELSE frame
           /\ overlap' = (overlap \/ (way = "low" /\ Building("heartbeat")))
    /\ UNCHANGED <<boot, handle, link, seq, reg, beats, numbers, wire>>

\* Without a handle: tcp_client_task_send(), which drops the data if there is no
\* connection any more.
SendRaw ==
    /\ BGoto("rs485", "raw", "idle")
    /\ wire' = IF link THEN wire \cup {frame.id} ELSE wire
    /\ frame' = [frame EXCEPT !.len = 0]
    /\ UNCHANGED <<boot, handle, link, seq, reg, beats, numbers, overlap>>

\* The timer runs only if there is a handle to send with.  Its task asks
\* nobody whether there is a connection.
Beat ==
    /\ boot = "done" /\ handle
    /\ beats < MaxBeats
    /\ BGoto("heartbeat", "idle", "low")
    /\ beats' = beats + 1
    /\ overlap' = (overlap \/ Building("rs485"))
    /\ UNCHANGED <<boot, handle, link, seq, reg, frame, numbers, wire>>

-----------------------------------------------------------------------------
(* build_protocol_header(): the counter is read for each of its two bytes   *)
(* and for the increment, written, and read for the wrap.  A compiler that   *)
(* merges some of these accesses gives behaviours in which they are adjacent. *)

PutLow(b) ==
    /\ BGoto(b, "low", "high")
    /\ reg' = [reg EXCEPT ![b].low = seq % Byte]
    /\ UNCHANGED <<boot, handle, link, seq, frame, beats, numbers, wire, overlap>>

PutHigh(b) ==
    /\ BGoto(b, "high", "load")
    /\ reg' = [reg EXCEPT ![b].high = seq \div Byte]
    /\ UNCHANGED <<boot, handle, link, seq, frame, beats, numbers, wire, overlap>>

Load(b) ==
    /\ BGoto(b, "load", "store")
    /\ reg' = [reg EXCEPT ![b].old = seq]
    /\ UNCHANGED <<boot, handle, link, seq, frame, beats, numbers, wire, overlap>>

Store(b) ==
    /\ BGoto(b, "store", "wrap")
    /\ seq' = (reg[b].old + 1) % NumberMod
    /\ UNCHANGED <<boot, handle, link, reg, frame, beats, numbers, wire, overlap>>

Wrap(b) ==
    /\ BGoto(b, "wrap", IF seq = 0 THEN "reset" ELSE "emit")
    /\ UNCHANGED <<boot, handle, link, seq, reg, frame, beats, numbers, wire, overlap>>

Reset(b) ==
    /\ BGoto(b, "reset", "emit")
    /\ seq' = 1
    /\ UNCHANGED <<boot, handle, link, reg, frame, beats, numbers, wire, overlap>>

NumberOf(b) == reg[b].low + Byte * reg[b].high

\* The send callback writes the frame, or drops it if there is no connection.
\* What the write returns is logged and nothing else.
Emit(b) ==
    /\ BGoto(b, "emit", "idle")
    /\ numbers' = IF numbers = <<>> THEN <<NumberOf(b)>>
                  ELSE <<numbers[Len(numbers)], NumberOf(b)>>
    /\ reg' = [reg EXCEPT ![b] = NoReg]
    /\ IF b = "rs485"
         THEN /\ wire' = IF link THEN wire \cup {frame.id} ELSE wire
              /\ frame' = [frame EXCEPT !.len = 0]
         ELSE UNCHANGED <<wire, frame>>
    /\ UNCHANGED <<boot, handle, link, seq, beats, overlap>>

Build(b) ==
    \/ PutLow(b) \/ PutHigh(b) \/ Load(b) \/ Store(b) \/ Wrap(b) \/ Reset(b) \/ Emit(b)

-----------------------------------------------------------------------------
Next ==
    \/ Boot \/ LinkChanges
    \/ ReadBus \/ Gate \/ SendRaw \/ Beat
    \/ \E b \in Builders : Build(b)

Spec == Init /\ [][Next]_vars

\* The scheduler runs a task that is ready; the bus does not have to send.
Fairness == WF_vars(Gate) /\ WF_vars(SendRaw) /\ \A b \in Builders : WF_vars(Build(b))

FairSpec == Spec /\ Fairness

-----------------------------------------------------------------------------
(* Properties *)

\* The successor of a frame number: 0 is left out once the counter has wrapped.
Successor(n) == IF n = NumberMod - 1 THEN 1 ELSE n + 1

\* As long as the two builders have not met inside data_process_send(), every
\* frame carries the successor of the number before it, over the wrap too.
NumbersAdvanceUnlessOverlap ==
    ~overlap =>
        /\ Len(numbers) = 2 => numbers[2] = Successor(numbers[1])
        /\ Len(numbers) = 1 => numbers[1] = 0

\* Whatever two builders do to the counter between them: once both are outside
\* data_process_send(), it is never left at 0, the number no frame may repeat.
CounterLeavesZero ==
    (\A b \in Builders : ~Building(b)) /\ numbers # <<>> => seq # 0

\* A valid frame of a length the builder takes, read while there is a
\* connection, is handed to it unless the connection is lost meanwhile.
AcceptedFrameIsForwarded ==
    \A n \in 1 .. MaxFrames :
        (bpc["rs485"] = "gate" /\ frame.id = n /\ link
            /\ DataLen(frame.len) > 0 /\ BuilderAccepts(DataLen(frame.len)))
        ~> (~link \/ n \in wire)

-----------------------------------------------------------------------------
(* Statements of comments the code does not keep *)

\* "Protocol frame sequence number (incremented for each frame)": two frames
\* built one after the other do not carry the same number.
NumberIsIncrementedForEachFrame ==
    Len(numbers) = 2 => numbers[1] # numbers[2]

\* "Frame format: [header(18)][data_len(2)][data][crc(2)]": a frame the builder
\* accepts fits the buffer with all of its parts.
AcceptedFrameFitsBuffer ==
    Building("rs485") => FrameLen(DataLen(frame.len)) <= BufSize

=============================================================================
