--------------------------- MODULE InboundProofs ---------------------------
(***************************************************************************)
(* Proofs about Inbound, for every number of cloud frames, every size of the *)
(* driver's ring and every size of the command buffer: the bus carries whole  *)
(* frames in order, and lines typed at the terminal are kept apart.           *)
(***************************************************************************)
EXTENDS Inbound, SequenceFacts, TLAPS

-----------------------------------------------------------------------------
(* The invariant of the way to the bus *)

\* The record is one good frame: the only case in which the parser accepts it.
Single == record.good /\ Len(record.frames) = 1

\* What was parsed is such a frame, and such a frame came whole in its record.
ParsedIsWhole ==
    /\ parsed => Single /\ pc \in {"write1", "write2"}
    /\ Single => record.frames[1] \in whole

\* Nothing is whole, and nothing on the bus, that the cloud has not sent; a part
\* that was read belongs to a frame it can still send.
BusFollowsCloud ==
    /\ half => cloud < MaxCloud
    /\ whole \subseteq 1 .. cloud
    /\ \A i \in DOMAIN bus : bus[i] \in whole

\* Before the first call of the callback the frame in hand is newer than
\* everything on the bus; before the second it may be on it, at the end.
FrameInHandIsNewest ==
    /\ (pc \in {"parse1", "write1"} /\ Single) =>
            \A i \in DOMAIN bus : bus[i] < record.frames[1]
    /\ (pc \in {"parse2", "write2"} /\ Single) =>
            \A i \in DOMAIN bus :
                /\ bus[i] <= record.frames[1]
                /\ i < Len(bus) => bus[i] < record.frames[1]

DownlinkInv ==
    /\ DownlinkTypeOK
    /\ ParsedIsWhole
    /\ BusFollowsCloud
    /\ FrameInHandIsNewest
    /\ BusCarriesWholeFramesInOrder

-----------------------------------------------------------------------------
(* The invariant of the terminal *)

\* Two characters in the ring with nothing lost between them follow each other
\* as the user typed them.
RingFollowsTyping ==
    \A i \in 2 .. Len(ring) : ~ring[i].gap =>
        /\ ring[i].kind = "first" => ring[i - 1].kind = "end"
        /\ ring[i].kind = "next" => ring[i - 1].kind # "end"

\* So do what the task has taken from the ring and the oldest character in it.
HeadFollowsBuffer ==
    (Len(ring) > 0 /\ ~ring[1].gap) =>
        /\ ring[1].kind = "first" => cmd_pos = 0
        /\ ring[1].kind = "next" => cmd_pos > 0 \/ cut

\* If nothing was lost since, the user is inside a line exactly if the newest
\* character does not end one.
TypingFollowsRing ==
    ~gap =>
        /\ Len(ring) > 0 => (typing <=> ring[Len(ring)].kind # "end")
        /\ Len(ring) = 0 => IF typing THEN cmd_pos > 0 \/ cut ELSE cmd_pos = 0

TerminalInv ==
    /\ TerminalTypeOK
    /\ RingFollowsTyping
    /\ HeadFollowsBuffer
    /\ TypingFollowsRing
    /\ LinesAreKeptApart

IInv == DownlinkInv /\ TerminalInv

-----------------------------------------------------------------------------
(* The way to the bus *)

\* The record the task holds between two reads is no frame.
LEMMA NothingRead ==
    /\ NoRecord \in [frames : Seq(1 .. MaxCloud), good : BOOLEAN]
    /\ NoRecord.good = FALSE
    /\ NoRecord.frames = <<>>
BY EmptyFacts DEF NoRecord

\* The invariant holds when the chip is switched on, and again after a restart.
LEMMA StartedDownlink ==
    /\ DownlinkInit => DownlinkInv
    /\ DownlinkInv /\ DownlinkRestart => DownlinkInv'
<1> USE NothingRead
    DEF DownlinkInv, DownlinkTypeOK, ParsedIsWhole, BusFollowsCloud,
        FrameInHandIsNewest, BusCarriesWholeFramesInOrder, Single
<1>1. ASSUME DownlinkInit PROVE DownlinkInv
  <2>1. bus = <<>> /\ bus \in Seq(1 .. MaxCloud) /\ DOMAIN bus = {}
    BY <1>1, EmptyFacts DEF DownlinkInit
  <2>2. DownlinkTypeOK
    <3>1. cloud \in 0 .. MaxCloud /\ whole \in SUBSET (1 .. MaxCloud)
      BY <1>1, MaxCloudAssumption DEF DownlinkInit
    <3>2. record \in [frames : Seq(1 .. MaxCloud), good : BOOLEAN]
      BY <1>1, NothingRead DEF DownlinkInit
    <3> QED BY <1>1, <2>1, <3>1, <3>2 DEF DownlinkInit
  <2>3. ParsedIsWhole
    BY <1>1 DEF DownlinkInit
  <2> QED BY <1>1, <2>1, <2>2, <2>3 DEF DownlinkInit
<1>2. ASSUME DownlinkInv, DownlinkRestart PROVE DownlinkInv'
  <2>1. DownlinkTypeOK'
    BY <1>2 DEF DownlinkRestart
  <2>2. ParsedIsWhole'
    BY <1>2 DEF DownlinkRestart
  <2>3. BusFollowsCloud' /\ BusCarriesWholeFramesInOrder'
    BY <1>2 DEF DownlinkRestart
  <2>4. FrameInHandIsNewest'
    BY <1>2 DEF DownlinkRestart
  <2> QED BY <2>1, <2>2, <2>3, <2>4
<1> QED BY <1>1, <1>2

\* A read takes frames the cloud had not sent before; a frame that came whole is
\* newer than all of them.
LEMMA ReadInv == DownlinkInv /\ Read => DownlinkInv'
<1> SUFFICES ASSUME DownlinkInv, Read PROVE DownlinkInv'
    OBVIOUS
<1> USE MaxCloudAssumption DEF DownlinkInv, DownlinkTypeOK, BusFollowsCloud, NextId
<1>1. /\ pc = "read" /\ pc' = "parse1"
      /\ UNCHANGED <<driver, link, parsed, bus>>
  BY DEF Read, Goto
<1>2. ~parsed
  BY <1>1 DEF ParsedIsWhole
<1>3. CASE ReadFrame
  <2>1. PICK good \in BOOLEAN :
            /\ record' = [frames |-> <<NextId>>, good |-> good]
            /\ whole' = IF good THEN whole \cup {NextId} ELSE whole
    BY <1>3 DEF ReadFrame
  <2> QED
    BY <1>1, <1>2, <1>3, <2>1
    DEF ReadFrame, ParsedIsWhole, FrameInHandIsNewest, BusCarriesWholeFramesInOrder, Single
<1>4. CASE ReadTwoFrames
  BY <1>1, <1>2, <1>4
  DEF ReadTwoFrames, ParsedIsWhole, FrameInHandIsNewest, BusCarriesWholeFramesInOrder, Single
<1>5. CASE ReadFirstPart
  BY <1>1, <1>2, <1>5
  DEF ReadFirstPart, ParsedIsWhole, FrameInHandIsNewest, BusCarriesWholeFramesInOrder, Single
<1>6. CASE ReadSecondPart
  <2>1. /\ half /\ cloud < MaxCloud
        /\ record' = [frames |-> <<cloud + 1>>, good |-> FALSE]
        /\ ~half' /\ half' \in BOOLEAN
        /\ cloud' = cloud + 1 /\ cloud' \in 0 .. MaxCloud
        /\ whole' = whole
    <3>1. half
      BY <1>6 DEF ReadSecondPart
    <3>2. cloud < MaxCloud
      BY <3>1
    <3>3. ~half' /\ half' \in BOOLEAN
      BY <1>6 DEF ReadSecondPart
    <3> QED BY <1>6, <3>1, <3>2, <3>3 DEF ReadSecondPart
  <2>2. ~Single' /\ record' \in [frames : Seq(1 .. MaxCloud), good : BOOLEAN]
    BY <2>1 DEF Single
  <2>3. DownlinkTypeOK'
    BY <1>1, <2>1, <2>2
  <2> QED
    BY <1>1, <1>2, <2>1, <2>2, <2>3
    DEF ParsedIsWhole, FrameInHandIsNewest, BusCarriesWholeFramesInOrder
<1> QED BY <1>3, <1>4, <1>5, <1>6 DEF Read

\* Parsing decides whether the record is written and touches nothing else.
LEMMA ParseInv ==
    ASSUME NEW from, NEW to, <<from, to>> \in {<<"parse1", "write1">>, <<"parse2", "write2">>}
    PROVE  DownlinkInv /\ Parse(from, to) => DownlinkInv'
BY DEF DownlinkInv, DownlinkTypeOK, ParsedIsWhole, BusFollowsCloud, FrameInHandIsNewest,
       BusCarriesWholeFramesInOrder, Single, Parse, Parses, Goto

\* Writing appends the frame in hand, which is the newest, or nothing.
LEMMA WriteInv ==
    ASSUME NEW from, NEW to, <<from, to>> \in {<<"write1", "parse2">>, <<"write2", "read">>}
    PROVE  DownlinkInv /\ Write(from, to) => DownlinkInv'
<1> SUFFICES ASSUME DownlinkInv, Write(from, to) PROVE DownlinkInv'
    OBVIOUS
<1> USE MaxCloudAssumption DEF DownlinkInv, DownlinkTypeOK
<1>1. /\ pc = from /\ pc' = to
      /\ ~parsed'
      /\ parsed' \in BOOLEAN
      /\ UNCHANGED <<driver, link, cloud, half, whole>>
  BY DEF Write, Goto
<1>2. /\ record' \in [frames : Seq(1 .. MaxCloud), good : BOOLEAN]
      /\ Single' => Single /\ record' = record /\ to = "parse2"
  <2>1. CASE to = "read"
    BY <2>1, NothingRead, EmptyFacts DEF Write, Single
  <2>2. CASE to = "parse2"
    BY <2>2 DEF Write, Single
  <2> QED BY <2>1, <2>2
<1>3. ParsedIsWhole'
  BY <1>1, <1>2 DEF ParsedIsWhole
<1>4. CASE ~(parsed /\ driver)
  <2>1. bus' = bus
    BY <1>4 DEF Write
  <2>2. DownlinkTypeOK'
    BY <1>1, <1>2, <2>1
  <2>3. BusFollowsCloud' /\ BusCarriesWholeFramesInOrder'
    BY <1>1, <2>1 DEF BusFollowsCloud, BusCarriesWholeFramesInOrder
  <2>4. FrameInHandIsNewest'
    <3>1. Single' => \A i \in DOMAIN bus :
              bus[i] <= record.frames[1] /\ bus[i] < record.frames[1]
      <4> SUFFICES ASSUME Single', NEW i \in DOMAIN bus
                   PROVE  bus[i] <= record.frames[1] /\ bus[i] < record.frames[1]
          OBVIOUS
      <4>1. bus[i] < record.frames[1] /\ bus[i] \in Int /\ record.frames[1] \in Int
        BY <1>1, <1>2 DEF FrameInHandIsNewest, Single
      <4> QED BY <4>1
    <3> QED BY <1>1, <1>2, <2>1, <3>1 DEF FrameInHandIsNewest
  <2> QED BY <1>3, <2>2, <2>3, <2>4
<1>5. CASE parsed /\ driver
  <2> DEFINE f == record.frames[1]
  <2>1. bus' = Append(bus, f)
    BY <1>5 DEF Write
  <2>2. Single /\ f \in whole /\ f \in 1 .. MaxCloud /\ f \in Int
    BY <1>5 DEF ParsedIsWhole, Single
  <2>3. /\ bus' \in Seq(1 .. MaxCloud)
        /\ Len(bus) \in Nat
        /\ Len(bus') = Len(bus) + 1
        /\ DOMAIN bus = 1 .. Len(bus)
        /\ DOMAIN bus' = 1 .. Len(bus) + 1
        /\ \A i \in 1 .. Len(bus) : bus'[i] = bus[i]
        /\ bus'[Len(bus) + 1] = f
    BY <2>1, <2>2, AppendFacts
  <2>4. DownlinkTypeOK'
    BY <1>1, <1>2, <2>3
  <2>5. BusFollowsCloud'
    <3>1. \A i \in 1 .. Len(bus) : bus[i] \in whole
      BY <2>3 DEF BusFollowsCloud
    <3>2. \A i \in 1 .. Len(bus) + 1 : i = Len(bus) + 1 \/ i \in 1 .. Len(bus)
      BY <2>3
    <3>3. \A i \in 1 .. Len(bus) + 1 : bus'[i] \in whole
      BY <2>2, <2>3, <3>1, <3>2, Zenon
    <3> QED BY <1>1, <2>3, <3>3 DEF BusFollowsCloud
  <2>6. \A i \in 1 .. Len(bus) : /\ bus[i] \in Int
                                 /\ bus[i] <= f
                                 /\ i < Len(bus) => bus[i] < f
    <3>1. \A i \in 1 .. Len(bus) : bus[i] \in Int
      BY <2>3
    <3>2. CASE from = "write1"
      <4>1. \A i \in 1 .. Len(bus) : bus[i] < f
        BY <1>1, <2>2, <2>3, <3>2 DEF FrameInHandIsNewest
      <4> QED BY <2>2, <3>1, <4>1
    <3>3. CASE from = "write2"
      BY <1>1, <2>2, <2>3, <3>1, <3>3 DEF FrameInHandIsNewest
    <3> QED BY <3>2, <3>3
  <2>7. to = "parse2" => \A i \in 1 .. Len(bus) : bus[i] < f
    BY <1>1, <2>2, <2>3 DEF FrameInHandIsNewest
  <2>8. \A i \in DOMAIN bus' : bus'[i] \in whole'
    BY <2>5 DEF BusFollowsCloud
  <2>9. FrameInHandIsNewest'
    <3>1. Single' => \A i \in DOMAIN bus' :
              /\ bus'[i] <= f
              /\ i < Len(bus') => bus'[i] < f
      <4> SUFFICES ASSUME Single', NEW i \in 1 .. Len(bus) + 1
                   PROVE  bus'[i] <= f /\ (i < Len(bus') => bus'[i] < f)
          BY <2>3
      <4>1. CASE i = Len(bus) + 1
        BY <2>2, <2>3, <4>1
      <4>2. CASE i \in 1 .. Len(bus)
        BY <1>2, <2>2, <2>3, <2>6, <2>7, <4>2
      <4> QED BY <2>3, <4>1, <4>2
    <3>2. Single' => record'.frames[1] = f
      BY <1>2
    <3>3. pc' \notin {"parse1", "write1"}
      BY <1>1
    <3> QED BY <3>1, <3>2, <3>3 DEF FrameInHandIsNewest
  <2> HIDE DEF f
  <2>10. BusCarriesWholeFramesInOrder'
    <3> SUFFICES ASSUME NEW i \in 1 .. Len(bus) + 1, NEW j \in 1 .. Len(bus) + 1
                 PROVE  /\ i < j => bus'[i] <= bus'[j]
                        /\ i + 2 <= j => bus'[i] < bus'[j]
        BY <2>3, <2>8 DEF BusCarriesWholeFramesInOrder
    <3>1. CASE j = Len(bus) + 1
      <4>1. i < j => i \in 1 .. Len(bus)
        BY <2>3, <3>1
      <4>2. i + 2 <= j => i < Len(bus)
        BY <2>3, <3>1
      <4> QED BY <2>3, <2>6, <3>1, <4>1, <4>2
    <3>2. CASE j \in 1 .. Len(bus)
      <4>1. i < j => i \in 1 .. Len(bus)
        BY <2>3, <3>2
      <4>2. i + 2 <= j => i < j
        BY <2>3, <3>2
      <4> QED BY <2>3, <3>2, <4>1, <4>2 DEF BusCarriesWholeFramesInOrder
    <3> QED BY <2>3, <3>1, <3>2
  <2> QED BY <1>3, <2>4, <2>5, <2>9, <2>10
<1> QED BY <1>4, <1>5

\* Every step of the way to the bus keeps the invariant.
LEMMA DownlinkStepInv == DownlinkInv /\ DownlinkNext => DownlinkInv'
<1> SUFFICES ASSUME DownlinkInv, DownlinkNext PROVE DownlinkInv'
    OBVIOUS
<1> USE DEF DownlinkInv, DownlinkTypeOK, ParsedIsWhole, BusFollowsCloud,
            FrameInHandIsNewest, BusCarriesWholeFramesInOrder, Single
<1>1. CASE InstallDriver BY <1>1 DEF InstallDriver
<1>2. CASE LinkUp BY <1>2 DEF LinkUp
<1>3. CASE LinkDown BY <1>3 DEF LinkDown
<1>4. CASE Read BY <1>4, ReadInv
<1>5. CASE HandleByCallback BY <1>5, ParseInv, WriteInv DEF HandleByCallback
<1>6. CASE HandleDirectly BY <1>6, ParseInv, WriteInv DEF HandleDirectly
<1> QED BY <1>1, <1>2, <1>3, <1>4, <1>5, <1>6 DEF DownlinkNext

-----------------------------------------------------------------------------
(* The terminal *)

\* After a restart the ring is empty and what was being typed is cut off.
LEMMA StartedTerminal ==
    /\ TerminalInit => TerminalInv
    /\ TerminalRestart => TerminalInv'
<1> USE RingSizeAssumption, MaxCmdAssumption, EmptyFacts
    DEF TerminalInv, TerminalTypeOK, RingFollowsTyping, HeadFollowsBuffer, TypingFollowsRing,
        LinesAreKeptApart
<1>1. ASSUME TerminalInit PROVE TerminalInv
  <2>1. ring = <<>> /\ ring \in Seq(Chars) /\ Len(ring) = 0
    BY <1>1 DEF TerminalInit
  <2>2. ~typing /\ ~gap /\ cmd_pos = 0 /\ ~start /\ ~cut
        /\ {typing, gap, start, cut} \subseteq BOOLEAN
    BY <1>1 DEF TerminalInit
  <2> QED BY <2>1, <2>2
<1>2. ASSUME TerminalRestart PROVE TerminalInv'
  <2>1. ring' = <<>> /\ ring' \in Seq(Chars) /\ Len(ring') = 0
    BY <1>2 DEF TerminalRestart
  <2>2. gap' /\ cmd_pos' = 0 /\ ~start' /\ ~cut'
        /\ {typing', gap', start', cut'} \subseteq BOOLEAN
    BY <1>2 DEF TerminalRestart
  <2> QED BY <2>1, <2>2
<1> QED BY <1>1, <1>2

\* A character that finds room follows what arrived before it; one that does not
\* leaves a gap.
LEMMA UserInv == TerminalInv /\ User => TerminalInv'
<1> SUFFICES ASSUME TerminalInv, NEW kind \in {"first", "next", "end"}, Type(kind)
             PROVE  TerminalInv'
    BY DEF User
<1> USE RingSizeAssumption, MaxCmdAssumption DEF TerminalInv, TerminalTypeOK
<1>1. /\ kind = "first" => ~typing
      /\ kind = "next" => typing
      /\ typing' \in BOOLEAN /\ (typing' <=> kind # "end")
      /\ UNCHANGED <<cmd_pos, start, cut>>
  BY DEF Type
<1>2. CASE Len(ring) >= RingSize
  <2>1. gap' = TRUE /\ ring' = ring
    BY <1>2 DEF Type
  <2> QED
    BY <1>1, <2>1
    DEF RingFollowsTyping, HeadFollowsBuffer, TypingFollowsRing, LinesAreKeptApart, Char
<1>3. CASE Len(ring) < RingSize
  <2> DEFINE c == [kind |-> kind, gap |-> gap]
  <2>1. ring' = Append(ring, c) /\ ~gap' /\ gap' \in BOOLEAN
    BY <1>3 DEF Type
  <2>2. c \in Chars /\ c.kind = kind /\ c.gap = gap
    BY DEF Chars
  <2> HIDE DEF c
  <2>3. /\ ring' \in Seq(Chars)
        /\ Len(ring) \in Nat
        /\ Len(ring') = Len(ring) + 1
        /\ \A i \in 1 .. Len(ring) : ring'[i] = ring[i]
        /\ ring'[Len(ring) + 1] = c
        /\ Head(ring') = ring'[1]
        /\ ring # <<>> => Head(ring) = ring[1]
        /\ ring = <<>> <=> Len(ring) = 0
    BY <2>1, <2>2, AppendFacts
  <2>4. TerminalTypeOK'
    BY <1>1, <1>3, <2>1, <2>3
  <2>5. ~gap => /\ kind = "first" => IF Len(ring) > 0 THEN ring[Len(ring)].kind = "end"
                                                      ELSE cmd_pos = 0
                /\ kind = "next" => IF Len(ring) > 0 THEN ring[Len(ring)].kind # "end"
                                                     ELSE cmd_pos > 0 \/ cut
    BY <1>1, <2>3 DEF TypingFollowsRing
  <2>6. RingFollowsTyping'
    BY <2>2, <2>3, <2>5 DEF RingFollowsTyping
  <2>7. HeadFollowsBuffer'
    BY <1>1, <2>2, <2>3, <2>5 DEF HeadFollowsBuffer
  <2>8. TypingFollowsRing'
    BY <1>1, <2>1, <2>2, <2>3 DEF TypingFollowsRing
  <2>9. LinesAreKeptApart'
    BY <1>1, <2>3, <2>4, <2>7 DEF LinesAreKeptApart, HeadFollowsBuffer, Char
  <2> QED BY <2>4, <2>6, <2>7, <2>8, <2>9
<1> QED BY <1>2, <1>3

\* A character is taken from the ring and kept, dropped or run: what comes next
\* follows it.
LEMMA TakeInv == TerminalInv /\ (StoreChar \/ DropLongCommand \/ EndLine) => TerminalInv'
<1> SUFFICES ASSUME TerminalInv, StoreChar \/ DropLongCommand \/ EndLine
             PROVE  TerminalInv'
    OBVIOUS
<1> USE RingSizeAssumption, MaxCmdAssumption DEF TerminalInv, TerminalTypeOK
<1>1. ring # <<>> /\ ring' = Tail(ring) /\ UNCHANGED <<typing, gap>>
  BY DEF StoreChar, DropLongCommand, EndLine, ReadChar
<1>2. /\ ring' \in Seq(Chars)
      /\ Len(ring) \in Nat \ {0}
      /\ Len(ring') = Len(ring) - 1
      /\ Char = ring[1]
      /\ \A i \in 1 .. Len(ring) - 1 : ring'[i] = ring[i + 1]
      /\ \A i \in 1 .. Len(ring) : ring[i] \in Chars
      /\ ring' # <<>> => Len(ring') > 0 /\ Head(ring') = ring'[1]
  BY <1>1, TailFacts DEF Char
<1>3. /\ Char.kind \in {"first", "next", "end"} /\ Char.gap \in BOOLEAN
      /\ ~Char.gap => /\ Char.kind = "first" => cmd_pos = 0
                      /\ Char.kind = "next" => cmd_pos > 0 \/ cut
  BY <1>2 DEF HeadFollowsBuffer, Chars
<1>4. /\ cmd_pos' \in 0 .. MAX_CMD_LEN - 1 /\ start' \in BOOLEAN /\ cut' \in BOOLEAN
      /\ cmd_pos' > 0 => start' \/ cut'
      /\ Char.kind = "end" => cmd_pos' = 0
      /\ Char.kind # "end" => cmd_pos' > 0 \/ cut'
  <2>1. CASE StoreChar
    <3>1. /\ Char.kind # "end" /\ cmd_pos' = cmd_pos + 1 /\ cmd_pos < MAX_CMD_LEN - 1
          /\ start' \in BOOLEAN /\ cut' \in BOOLEAN
          /\ start' <=> IF cmd_pos = 0 THEN Begins ELSE start
          /\ cut' <=> ~Begins /\ (cut \/ Char.gap)
      BY <2>1, <1>3 DEF StoreChar, Begins
    <3> QED BY <1>3, <3>1 DEF Begins, LinesAreKeptApart
  <2>2. CASE DropLongCommand
    BY <1>3, <2>2 DEF DropLongCommand
  <2>3. CASE EndLine
    <3>1. Char.kind = "end" /\ cmd_pos' = 0 /\ start' = start
      BY <2>3 DEF EndLine
    <3>2. cut' \in BOOLEAN
      BY <2>3 DEF EndLine
    <3> QED BY <3>1, <3>2
  <2> QED BY <2>1, <2>2, <2>3
<1>5. TerminalTypeOK'
  BY <1>1, <1>2, <1>4
<1>6. RingFollowsTyping'
  <2> SUFFICES ASSUME NEW i \in 2 .. Len(ring'), ~ring'[i].gap
               PROVE  /\ ring'[i].kind = "first" => ring'[i - 1].kind = "end"
                      /\ ring'[i].kind = "next" => ring'[i - 1].kind # "end"
      BY DEF RingFollowsTyping
  <2>1. ring'[i] = ring[i + 1] /\ ring'[i - 1] = ring[i] /\ i + 1 \in 2 .. Len(ring)
    <3>1. /\ i \in 1 .. Len(ring) - 1
          /\ i - 1 \in 1 .. Len(ring) - 1
          /\ (i - 1) + 1 = i
          /\ i + 1 \in 2 .. Len(ring)
      BY <1>2
    <3>2. \A k \in 1 .. Len(ring) - 1 : ring'[k] = ring[k + 1]
      BY <1>2
    <3>3. ring'[i] = ring[i + 1] /\ ring'[i - 1] = ring[(i - 1) + 1]
      BY <3>1, <3>2, Zenon
    <3> QED BY <3>1, <3>3
  <2>2. (i + 1) - 1 = i
    BY <1>2
  <2>3. /\ ring[i + 1].kind = "first" => ring[(i + 1) - 1].kind = "end"
        /\ ring[i + 1].kind = "next" => ring[(i + 1) - 1].kind # "end"
    <3>1. \A k \in 2 .. Len(ring) : ~ring[k].gap =>
                /\ ring[k].kind = "first" => ring[k - 1].kind = "end"
                /\ ring[k].kind = "next" => ring[k - 1].kind # "end"
      BY DEF RingFollowsTyping
    <3> QED BY <2>1, <3>1, Zenon
  <2> QED BY <2>1, <2>2, <2>3
<1>7. HeadFollowsBuffer'
  BY <1>2, <1>4 DEF RingFollowsTyping, HeadFollowsBuffer
<1>8. TypingFollowsRing'
  <2>1. CASE Len(ring) = 1
    BY <1>1, <1>2, <1>4, <2>1 DEF TypingFollowsRing
  <2>2. CASE Len(ring) > 1
    <3>1. ring'[Len(ring')] = ring[Len(ring)]
      BY <1>2, <2>2
    <3> QED BY <1>1, <1>2, <2>2, <3>1 DEF TypingFollowsRing
  <2> QED BY <1>2, <2>1, <2>2
<1>9. LinesAreKeptApart'
  BY <1>2, <1>4, <1>5, <1>7 DEF LinesAreKeptApart, HeadFollowsBuffer, Char
<1> QED BY <1>5, <1>6, <1>7, <1>8, <1>9

-----------------------------------------------------------------------------
(* Both on one chip *)

\* The invariant holds in every reachable state: the two ways share the restart
\* only.
THEOREM SpecIInv == Spec => []IInv
<1>1. Init => IInv
  BY StartedDownlink, StartedTerminal DEF Init, IInv
<1>2. IInv /\ [Next]_vars => IInv'
  <2> SUFFICES ASSUME IInv, [Next]_vars PROVE IInv'
      OBVIOUS
  <2>1. CASE DownlinkStep
    <3>1. DownlinkInv'
      BY <2>1, DownlinkStepInv DEF DownlinkStep, IInv
    <3>2. TerminalInv'
      BY <2>1
      DEF DownlinkStep, IInv, TerminalInv, TerminalTypeOK, RingFollowsTyping, HeadFollowsBuffer,
          TypingFollowsRing, LinesAreKeptApart, Char, terminalVars
    <3> QED BY <3>1, <3>2 DEF IInv
  <2>2. CASE TerminalStep
    <3>1. TerminalInv'
      BY <2>2, UserInv, TakeInv DEF TerminalStep, TerminalNext, IInv
    <3>2. DownlinkInv'
      BY <2>2
      DEF TerminalStep, IInv, DownlinkInv, DownlinkTypeOK, ParsedIsWhole, BusFollowsCloud,
          FrameInHandIsNewest, BusCarriesWholeFramesInOrder, Single, downlinkVars
    <3> QED BY <3>1, <3>2 DEF IInv
  <2>3. CASE PowerCycle \/ Lpts5Restarts
    BY <2>3, StartedDownlink, StartedTerminal DEF PowerCycle, Lpts5Restarts, Restart, IInv
  <2>4. CASE UNCHANGED vars
    BY <2>4
    DEF IInv, DownlinkInv, DownlinkTypeOK, ParsedIsWhole, BusFollowsCloud, FrameInHandIsNewest,
        BusCarriesWholeFramesInOrder, Single, downlinkVars, TerminalInv, TerminalTypeOK,
        RingFollowsTyping, HeadFollowsBuffer, TypingFollowsRing, LinesAreKeptApart, Char,
        terminalVars, vars
  <2> QED BY <2>1, <2>2, <2>3, <2>4 DEF Next
<1> QED BY <1>1, <1>2, PTL DEF Spec

\* Every variable keeps its type.
THEOREM InboundTypeCorrect == Spec => []TypeOK
<1>1. IInv => TypeOK
  BY DEF IInv, DownlinkInv, TerminalInv, TypeOK
<1> QED BY <1>1, SpecIInv, PTL

\* Whatever the records the cloud's frames come in and whenever the chip
\* restarts, the bus carries frames that came whole, in their order, and none
\* more than twice.
THEOREM BusKeepsOrder == Spec => []BusCarriesWholeFramesInOrder
<1>1. IInv => BusCarriesWholeFramesInOrder
  BY DEF IInv, DownlinkInv
<1> QED BY <1>1, SpecIInv, PTL

\* No line runs together with another unless characters were lost or the line
\* was too long.
THEOREM LinesStayApart == Spec => []LinesAreKeptApart
<1>1. IInv => LinesAreKeptApart
  BY DEF IInv, TerminalInv
<1> QED BY <1>1, SpecIInv, PTL

-----------------------------------------------------------------------------
(* The way to the bus as a FrameRoute.  HandInv says when the task has a good  *)
(* frame in hand: exactly while its record is one the parser accepts, and at   *)
(* the writes the parser has accepted it.                                    *)

HandInv ==
    /\ pc = "read" => record = NoRecord
    /\ pc \in {"write1", "write2"} => (parsed <=> Single)
    /\ Hand # 0 => Single

\* With HandInv a frame is in hand just if the record is a single good frame.
LEMMA HandIsSingle ==
    ASSUME IInv, HandInv
    PROVE  /\ Single => /\ Hand = record.frames[1] /\ Hand \in 1 .. MaxCloud
                        /\ Hand \in whole /\ pc # "read"
           /\ ~Single => Hand = 0
<1> USE DEF IInv, DownlinkInv, DownlinkTypeOK
<1>1. ASSUME Single
      PROVE  /\ Hand = record.frames[1] /\ Hand \in 1 .. MaxCloud
             /\ Hand \in whole /\ pc # "read"
  <2>1. record.frames # <<>> /\ record.frames[1] \in whole
    BY <1>1 DEF Single, ParsedIsWhole
  <2>2. pc # "read"
    BY <1>1, NothingRead DEF HandInv, Single
  <2> QED BY <2>1, <2>2 DEF Hand
<1>2. ASSUME ~Single PROVE Hand = 0
  BY <1>2 DEF HandInv
<1> QED BY <1>1, <1>2

\* It holds at the start and after a restart, with nothing in hand.
LEMMA NothingInHand == record = NoRecord => Hand = 0 /\ ~Single
BY NothingRead DEF Hand, Single

\* The steps that leave the client task where it is.
LEMMA SameHand ==
    ASSUME HandInv, UNCHANGED <<pc, record, parsed, whole>>
    PROVE  HandInv' /\ Hand' = Hand /\ CallsLeft' = CallsLeft
BY DEF HandInv, Hand, CallsLeft, Single

\* What is read is in hand if it is one good frame; parts and pairs never came whole.
LEMMA ReadHand ==
    ASSUME IInv, HandInv, Read
    PROVE  /\ HandInv'
           /\ Hand = 0 /\ CallsLeft = 0
           /\ \/ Hand' = 0 /\ CallsLeft' = 0 /\ whole' = whole
              \/ \E n \in 1 .. MaxCloud :
                    /\ \A m \in whole : m < n
                    /\ whole' = whole \cup {n} /\ Hand' = n /\ CallsLeft' = 2
<1> USE DEF IInv, DownlinkInv, DownlinkTypeOK, BusFollowsCloud
<1>1. pc = "read" /\ pc' = "parse1"
  BY DEF Read, Goto
<1>2. Hand = 0 /\ CallsLeft = 0
  BY <1>1, NothingInHand DEF HandInv, CallsLeft
<1>3. cloud + 1 \notin whole /\ \A m \in whole : m < cloud + 1
  <2>1. cloud \in Int /\ \A m \in whole : m \in 1 .. cloud
    OBVIOUS
  <2> QED BY <2>1
<1>4. ASSUME record'.frames[1] = cloud + 1, cloud + 1 \notin whole'
      PROVE  HandInv' /\ Hand' = 0 /\ CallsLeft' = 0
  BY <1>1, <1>4 DEF HandInv, Hand, CallsLeft
<1>5. CASE ReadFrame
  <2>1. PICK good \in BOOLEAN :
            /\ record' = [frames |-> <<cloud + 1>>, good |-> good]
            /\ whole' = IF good THEN whole \cup {cloud + 1} ELSE whole
    BY <1>5 DEF ReadFrame, NextId
  <2>2. CASE good
    <3>1. /\ record'.frames # <<>> /\ record'.frames[1] = cloud + 1
          /\ Single' /\ whole' = whole \cup {cloud + 1}
      BY <2>1, <2>2 DEF Single
    <3>2. cloud + 1 \in 1 .. MaxCloud /\ cloud + 1 # 0
      BY <1>5, MaxCloudAssumption DEF ReadFrame, NextId
    <3>3. Hand' = cloud + 1
      BY <3>1 DEF Hand
    <3>4. CallsLeft' = 2
      BY <1>1, <3>2, <3>3 DEF CallsLeft
    <3>5. HandInv'
      BY <1>1, <3>1 DEF HandInv
    <3> QED BY <1>2, <1>3, <3>1, <3>2, <3>3, <3>4, <3>5
  <2>3. CASE ~good
    <3>1. record'.frames[1] = cloud + 1 /\ whole' = whole
      BY <2>1, <2>3
    <3> QED BY <1>2, <1>3, <1>4, <3>1
  <2> QED BY <2>2, <2>3
<1>6. CASE ReadTwoFrames \/ ReadFirstPart \/ ReadSecondPart
  <2>1. record'.frames[1] = cloud + 1 /\ whole' = whole
    BY <1>6 DEF ReadTwoFrames, ReadFirstPart, ReadSecondPart, NextId
  <2> QED BY <1>2, <1>3, <1>4, <2>1
<1> QED BY <1>5, <1>6 DEF Read

\* Parsing takes nothing out of hand, and finds what is in it.
LEMMA ParseHand ==
    ASSUME HandInv, NEW from, NEW to,
           <<from, to>> \in {<<"parse1", "write1">>, <<"parse2", "write2">>},
           Parse(from, to)
    PROVE  HandInv' /\ Hand' = Hand /\ CallsLeft' = CallsLeft /\ UNCHANGED <<driver, whole, bus>>
<1>1. /\ pc = from /\ pc' = to /\ parsed' = Parses(record)
      /\ UNCHANGED <<driver, record, whole, bus>>
  BY DEF Parse, Goto
<1>2. Hand' = Hand /\ (Single' <=> Single) /\ (parsed' <=> Single')
  BY <1>1 DEF Hand, Single, Parses
<1> QED BY <1>1, <1>2 DEF HandInv, CallsLeft

\* A write is a call: with a driver it puts what is in hand on the bus.
LEMMA WriteHand ==
    ASSUME IInv, HandInv, NEW from, NEW to,
           <<from, to>> \in {<<"write1", "parse2">>, <<"write2", "read">>},
           Write(from, to)
    PROVE  /\ HandInv' /\ UNCHANGED <<driver, whole>>
           /\ Hand = 0 => Hand' = 0 /\ CallsLeft' = 0 /\ CallsLeft = 0 /\ bus' = bus
           /\ Hand # 0 => /\ CallsLeft' = CallsLeft - 1
                          /\ Hand' = IF CallsLeft = 1 THEN 0 ELSE Hand
                          /\ bus' = IF driver THEN Append(bus, Hand) ELSE bus
<1>1. /\ pc = from /\ pc' = to /\ UNCHANGED <<driver, whole>>
      /\ record' = IF to = "read" THEN NoRecord ELSE record
      /\ bus' = IF parsed /\ driver THEN Append(bus, record.frames[1]) ELSE bus
  BY DEF Write, Goto
<1>2. parsed <=> Single
  BY <1>1 DEF HandInv
<1>3. /\ Single => Hand = record.frames[1] /\ Hand # 0
      /\ ~Single => Hand = 0
  BY HandIsSingle, MaxCloudAssumption
<1>4. CASE to = "read"
  <2>1. record' = NoRecord /\ pc' = "read" /\ pc = "write2"
    BY <1>1, <1>4
  <2>2. Hand' = 0 /\ ~Single'
    BY <2>1, NothingRead DEF Hand, Single
  <2>3. HandInv' /\ CallsLeft' = 0
    BY <2>1, <2>2 DEF HandInv, CallsLeft
  <2>4. CallsLeft = IF Hand = 0 THEN 0 ELSE 1
    BY <2>1 DEF CallsLeft
  <2> QED BY <1>1, <1>2, <1>3, <2>2, <2>3, <2>4
<1>5. CASE to = "parse2"
  <2>1. record' = record /\ pc' = "parse2" /\ pc = "write1"
    BY <1>1, <1>5
  <2>2. Hand' = Hand /\ (Single' <=> Single)
    BY <1>1, <2>1 DEF Hand, Single
  <2>3. HandInv'
    BY <2>1, <2>2 DEF HandInv
  <2>4. CallsLeft = (IF Hand = 0 THEN 0 ELSE 2) /\ CallsLeft' = IF Hand = 0 THEN 0 ELSE 1
    BY <2>1, <2>2 DEF CallsLeft
  <2> QED BY <1>1, <1>2, <1>3, <2>2, <2>3, <2>4
<1> QED BY <1>4, <1>5

\* Every step of the route is one of FrameRoute or leaves it alone.
LEMMA DownlinkStepRoute ==
    ASSUME IInv, HandInv, DownlinkNext
    PROVE  HandInv' /\ [Route!Next]_(Route!vars)
<1>1. ASSUME UNCHANGED <<driver, whole, bus>>, Hand' = Hand, CallsLeft' = CallsLeft
      PROVE  [Route!Next]_(Route!vars)
  BY <1>1 DEF Route!vars
<1>2. CASE InstallDriver
  <2>1. HandInv' /\ Hand' = Hand /\ CallsLeft' = CallsLeft
    BY <1>2, SameHand DEF InstallDriver
  <2>2. Route!Open
    BY <1>2, <2>1 DEF InstallDriver, Route!Open
  <2> QED BY <2>1, <2>2 DEF Route!Next
<1>3. CASE LinkUp \/ LinkDown
  <2>1. UNCHANGED <<driver, pc, record, parsed, whole, bus>>
    BY <1>3 DEF LinkUp, LinkDown
  <2> QED BY <1>1, <2>1, SameHand
<1>4. CASE Read
  <2>1. driver' = driver /\ bus' = bus
    BY <1>4 DEF Read
  <2>2. CASE Hand' = 0 /\ CallsLeft' = 0 /\ whole' = whole
    BY <1>1, <1>4, <2>1, <2>2, ReadHand
  <2>3. ASSUME NEW n \in 1 .. MaxCloud, \A m \in whole : m < n,
               whole' = whole \cup {n}, Hand' = n, CallsLeft' = 2
        PROVE  [Route!Next]_(Route!vars)
    <3>1. Route!Take(n)
      BY <1>4, <2>1, <2>3, ReadHand DEF Route!Take
    <3> QED BY <3>1 DEF Route!Next
  <2> QED BY <1>4, <2>2, <2>3, ReadHand
<1>5. CASE Parse("parse1", "write1") \/ Parse("parse2", "write2")
  BY <1>1, <1>5, ParseHand
<1>6. ASSUME NEW from, NEW to,
             <<from, to>> \in {<<"write1", "parse2">>, <<"write2", "read">>},
             Write(from, to)
      PROVE  HandInv' /\ [Route!Next]_(Route!vars)
  <2>1. CASE Hand = 0
    BY <1>1, <1>6, <2>1, WriteHand
  <2>2. CASE Hand # 0
    <3>1. Route!Call
      BY <1>6, <2>2, WriteHand DEF Route!Call
    <3> QED BY <1>6, <3>1, WriteHand DEF Route!Next
  <2> QED BY <2>1, <2>2
<1>7. CASE Write("write1", "parse2") \/ Write("write2", "read")
  BY <1>6, <1>7
<1> QED BY <1>2, <1>3, <1>4, <1>5, <1>7 DEF DownlinkNext, HandleByCallback, HandleDirectly

\* The parser, the two calls and the writes make up a route on which every good
\* frame is called out twice, in order, and only a restart takes one from it.
THEOREM InboundIsFrameRoute == Spec => ImplementsFrameRoute
<1>1. Init => HandInv /\ Route!Init
  BY NothingInHand DEF Init, DownlinkInit, HandInv, CallsLeft, Route!Init
<1>2. ASSUME IInv, HandInv, [Next]_vars PROVE HandInv' /\ [Route!Next]_(Route!vars)
  <2>1. CASE DownlinkStep
    BY <1>2, <2>1, DownlinkStepRoute DEF DownlinkStep
  <2>2. CASE TerminalStep \/ UNCHANGED vars
    <3>1. UNCHANGED <<driver, pc, record, parsed, whole, bus>>
      BY <2>2 DEF TerminalStep, vars, downlinkVars
    <3> QED BY <1>2, <3>1, SameHand DEF Route!vars
  <2>3. CASE PowerCycle \/ Lpts5Restarts
    <3>1. DownlinkRestart
      BY <2>3 DEF PowerCycle, Lpts5Restarts, Restart
    <3>2. Hand' = 0 /\ ~Single' /\ record' = NoRecord /\ pc' = "read"
      BY <3>1, NothingRead DEF DownlinkRestart, Hand, Single
    <3>3. HandInv' /\ CallsLeft' = 0
      BY <3>2 DEF HandInv, CallsLeft
    <3>4. Route!Restart
      BY <3>1, <3>2, <3>3 DEF DownlinkRestart, Route!Restart
    <3> QED BY <3>3, <3>4 DEF Route!Next
  <2> QED BY <1>2, <2>1, <2>2, <2>3 DEF Next
<1> QED BY <1>1, <1>2, SpecIInv, PTL DEF Spec, ImplementsFrameRoute, Route!Spec

=============================================================================
