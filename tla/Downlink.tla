------------------------------ MODULE Downlink ------------------------------
(***************************************************************************)
(* From the cloud to the RS485 bus: the receive loop and the receive        *)
(* callback of src/src/tasks/tcp_client_task.c, data_process_receive() and  *)
(* parse_data_transmission_frame() of src/src/protocol/data_process.c, and  *)
(* rs485_task_send_frame() of src/src/tasks/rs485_task.c.                   *)
(*                                                                         *)
(* The cloud writes a stream of protocol frames; every read of the client   *)
(* task returns what one TLS record holds, and the task takes what it read  *)
(* for one frame.  A frame is an identity; it is good if it has the header   *)
(* of function code 194 and carries 1 to 508 bytes.                         *)
(***************************************************************************)
EXTENDS Integers, Sequences

CONSTANT MaxCloud    \* bound: frames sent by the cloud

ASSUME MaxCloudAssumption == MaxCloud \in Nat

VARIABLES
    driver,    \* the UART driver of the bus is installed
    link,      \* the connection is READY
    cloud,     \* frames the cloud has sent completely
    half,      \* the first part of the next one has been read
    pc,        \* where the client task is
    record,    \* what it read last: frame identities, and whether they are good
    parsed,    \* parse_data_transmission_frame() took the record for a frame
    whole,     \* history: good frames that came whole in a record of their own
    bus        \* history: the frames written to the RS485 bus

downlinkVars == <<driver, link, cloud, half, pc, record, parsed, whole, bus>>

DownlinkTypeOK ==
    /\ driver \in BOOLEAN
    /\ link \in BOOLEAN
    /\ cloud \in 0 .. MaxCloud
    /\ half \in BOOLEAN
    /\ pc \in {"read", "parse1", "write1", "parse2", "write2"}
    /\ record \in [frames : Seq(1 .. MaxCloud), good : BOOLEAN]
    /\ parsed \in BOOLEAN
    /\ whole \in SUBSET (1 .. MaxCloud)
    /\ bus \in Seq(1 .. MaxCloud)

NoRecord == [frames |-> <<>>, good |-> FALSE]

DownlinkInit ==
    /\ driver = FALSE
    /\ link = FALSE
    /\ cloud = 0
    /\ half = FALSE
    /\ pc = "read"
    /\ record = NoRecord
    /\ parsed = FALSE
    /\ whole = {}
    /\ bus = <<>>

Goto(from, to) == pc = from /\ pc' = to

-----------------------------------------------------------------------------
(* Variants of single steps, each with one mistake a change to the code      *)
(* could make.  No specification uses them: every property below is checked  *)
(* to fail when its variant takes the place of the step.                     *)

\* Taking the header for the frame, without its length field and CRC.
ParsesByHeader(r) == r.frames # <<>>

\* Leaving the two CRC bytes out of the length test: no frame passes any more.
ParsesWithoutCrcLength(r) == r.good /\ r.frames = <<>>

\* Sending the Modbus frame although there was no data to put into it.
WriteEmpty(from, to) ==
    /\ Goto(from, to)
    /\ bus' = IF driver THEN Append(bus, IF parsed THEN record.frames[1] ELSE 0) ELSE bus
    /\ parsed' = FALSE
    /\ record' = IF to = "read" THEN NoRecord ELSE record
    /\ UNCHANGED <<driver, link, cloud, half, whole>>

\* Throwing away what was read when the connection ends.
LinkDownDropsRecord ==
    /\ link
    /\ link' = FALSE
    /\ half' = FALSE
    /\ pc' = "read"
    /\ record' = NoRecord
    /\ parsed' = FALSE
    /\ UNCHANGED <<driver, cloud, whole, bus>>

-----------------------------------------------------------------------------
(* The environment.  app_main() starts the client before it installs the     *)
(* driver; only the client task itself ends the connection.                  *)

InstallDriver ==
    /\ ~driver
    /\ driver' = TRUE
    /\ UNCHANGED <<link, cloud, half, pc, record, parsed, whole, bus>>

LinkUp ==
    /\ ~link
    /\ link' = TRUE
    /\ UNCHANGED <<driver, cloud, half, pc, record, parsed, whole, bus>>

\* A new connection starts a new stream: the rest of a frame is lost.
LinkDown ==
    /\ link
    /\ pc = "read"
    /\ link' = FALSE
    /\ half' = FALSE
    /\ UNCHANGED <<driver, cloud, pc, record, parsed, whole, bus>>

-----------------------------------------------------------------------------
(* esp_tls_conn_read(): one frame, two, or a part of one *)

NextId == cloud + 1

ReadFrame ==
    /\ ~half /\ NextId <= MaxCloud
    /\ \E good \in BOOLEAN :
        /\ record' = [frames |-> <<NextId>>, good |-> good]
        /\ whole' = IF good THEN whole \cup {NextId} ELSE whole
    /\ cloud' = NextId
    /\ UNCHANGED half

ReadTwoFrames ==
    /\ ~half /\ NextId + 1 <= MaxCloud
    /\ record' = [frames |-> <<NextId, NextId + 1>>, good |-> TRUE]
    /\ cloud' = NextId + 1
    /\ UNCHANGED <<whole, half>>

ReadFirstPart ==
    /\ ~half /\ NextId <= MaxCloud
    /\ record' = [frames |-> <<NextId>>, good |-> FALSE]
    /\ half' = TRUE
    /\ UNCHANGED <<cloud, whole>>

ReadSecondPart ==
    /\ half
    /\ record' = [frames |-> <<NextId>>, good |-> FALSE]
    /\ half' = FALSE
    /\ cloud' = NextId
    /\ UNCHANGED whole

Read ==
    /\ link
    /\ Goto("read", "parse1")
    /\ ReadFrame \/ ReadTwoFrames \/ ReadFirstPart \/ ReadSecondPart
    /\ UNCHANGED <<driver, link, parsed, bus>>

-----------------------------------------------------------------------------
(* tcp_client_receive_callback() is called twice for every read: by          *)
(* data_process_receive(), whose handle has it as its receive callback, and  *)
(* by the receive loop itself.                                               *)

\* parse_data_transmission_frame(): the length field and the CRC must fit the
\* bytes of this very read.
Parses(r) == r.good /\ Len(r.frames) = 1

Parse(from, to) ==
    /\ Goto(from, to)
    /\ parsed' = Parses(record)
    /\ UNCHANGED <<driver, link, cloud, half, record, whole, bus>>

\* rs485_task_send_frame(): uart_write_bytes() fails without the driver; the
\* failure is logged and the frame is gone.
Write(from, to) ==
    /\ Goto(from, to)
    /\ bus' = IF parsed /\ driver THEN Append(bus, record.frames[1]) ELSE bus
    /\ parsed' = FALSE
    /\ record' = IF to = "read" THEN NoRecord ELSE record
    /\ UNCHANGED <<driver, link, cloud, half, whole>>

HandleByCallback == Parse("parse1", "write1") \/ Write("write1", "parse2")
HandleDirectly   == Parse("parse2", "write2") \/ Write("write2", "read")

-----------------------------------------------------------------------------
DownlinkNext ==
    \/ InstallDriver \/ LinkUp \/ LinkDown
    \/ Read
    \/ HandleByCallback \/ HandleDirectly

DownlinkSpec == DownlinkInit /\ [][DownlinkNext]_downlinkVars

\* The chip restarts: a frame that was read and not written is gone, and
\* app_main() begins again.
DownlinkRestart ==
    /\ driver' = FALSE
    /\ link' = FALSE
    /\ half' = FALSE
    /\ pc' = "read"
    /\ record' = NoRecord
    /\ parsed' = FALSE
    /\ UNCHANGED <<cloud, whole, bus>>

-----------------------------------------------------------------------------
(* Properties *)

\* No part of a frame and no pair of frames reaches the bus, frames reach it in
\* the order the cloud sent them, and none more often than the receive callback
\* is called for a read.
BusCarriesWholeFramesInOrder ==
    /\ \A i \in DOMAIN bus : bus[i] \in whole
    /\ \A i, j \in DOMAIN bus : i < j => bus[i] <= bus[j]
    /\ \A i, j \in DOMAIN bus : i + 2 <= j => bus[i] < bus[j]

\* A good frame that comes in a record of its own, once the driver is there,
\* reaches the bus, even if the connection is lost meanwhile; only a restart of
\* the chip, after which the driver is gone, prevents it.
WholeFrameReachesBus ==
    \A n \in 1 .. MaxCloud :
        (driver /\ pc = "parse1" /\ n \in whole /\ record.frames = <<n>>)
            ~> ((\E i \in DOMAIN bus : bus[i] = n) \/ ~driver)

\* The good frame the task has in hand, if the record is one, and the calls of the
\* receive callback it has still to go through.
Hand == IF record.frames # <<>> /\ record.frames[1] \in whole THEN record.frames[1] ELSE 0

CallsLeft == IF Hand = 0 THEN 0 ELSE IF pc \in {"parse1", "write1"} THEN 2 ELSE 1

Route == INSTANCE FrameRoute WITH
            Frames <- 1 .. MaxCloud, Nothing <- 0, Calls <- 2,
            accepted <- whole, hand <- Hand, calls <- CallsLeft, open <- driver

\* Between read and bus no good frame is dropped, replaced or overtaken: whatever
\* records the stream comes in, each goes through both calls before the next is
\* read, and through each onto the bus once there is a driver.
ImplementsFrameRoute == Route!Spec

-----------------------------------------------------------------------------
(* Statements of the documentation the code does not keep *)

\* "Protocol frames from TCP client are parsed and converted to Modbus frames":
\* one Modbus frame for one protocol frame.
OneBusFramePerCloudFrame ==
    \A i, j \in DOMAIN bus : bus[i] = bus[j] => i = j

=============================================================================
