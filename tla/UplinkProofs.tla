---------------------------- MODULE UplinkProofs ----------------------------
(***************************************************************************)
(* Proofs about Uplink, for any size of a byte and of the buffer, any lengths *)
(* read from the bus, and any number of frames and heartbeats.               *)
(***************************************************************************)
EXTENDS Uplink, SequenceFacts, TLAPS

-----------------------------------------------------------------------------
(* The invariant *)

\* The number the next frame carries if the builders take turns.
Expected == IF numbers = <<>> THEN 0 ELSE Successor(numbers[Len(numbers)])

\* What a builder that is alone has read of the counter, and left in it.
AloneInv(b) ==
    /\ bpc[b] \in {"low", "high", "load", "store"} => seq = Expected
    /\ bpc[b] = "high" => reg[b].low = Expected % Byte
    /\ bpc[b] \in {"load", "store", "wrap", "reset", "emit"} => NumberOf(b) = Expected
    /\ bpc[b] = "store" => reg[b].old = Expected
    /\ bpc[b] = "wrap" => seq = (Expected + 1) % NumberMod
    /\ bpc[b] = "reset" => Expected = NumberMod - 1
    /\ bpc[b] = "emit" => seq = Successor(Expected)

TurnsInv ==
    ~overlap =>
        /\ ~(Building("rs485") /\ Building("heartbeat"))
        /\ (\A b \in Builders : ~Building(b)) => seq = Expected
        /\ \A b \in Builders : AloneInv(b)

\* The service task has a frame in hand while it works.
HandInv == bpc["rs485"] # "idle" => frame.id > 0

\* A counter at 0 has not been moved yet, or somebody is about to move it.
ZeroInv ==
    seq = 0 => \/ \E b \in Builders : bpc[b] \in {"wrap", "reset"}
               \/ numbers = <<>> /\ \A b \in Builders : bpc[b] # "emit"

IInv == TypeOK /\ HandInv /\ TurnsInv /\ NumbersAdvanceUnlessOverlap /\ ZeroInv

-----------------------------------------------------------------------------
(* Numbers in two bytes *)

\* There are at least four numbers.
LEMMA NumberModFacts == Byte \in Nat /\ Byte > 1 /\ NumberMod \in Nat /\ NumberMod > 3
BY ByteAssumption DEF NumberMod

\* The two bytes of a number, and the number they are put together to.
LEMMA BytesOfNumber ==
    ASSUME NEW n \in 0 .. NumberMod - 1
    PROVE  /\ n % Byte \in 0 .. Byte - 1 /\ n \div Byte \in 0 .. Byte - 1
           /\ (n % Byte) + Byte * (n \div Byte) = n
<1>1. /\ n % Byte \in 0 .. Byte - 1 /\ n \div Byte \in Nat
      /\ n = (n % Byte) + Byte * (n \div Byte)
  BY ByteAssumption, NumberModFacts
<1> QED BY <1>1, ByteAssumption DEF NumberMod

\* Two bytes make a number.
LEMMA NumberOfBytes ==
    ASSUME NEW low \in 0 .. Byte - 1, NEW high \in 0 .. Byte - 1
    PROVE  low + Byte * high \in 0 .. NumberMod - 1
<1>1. /\ Byte * high \in Nat /\ Byte * high <= Byte * (Byte - 1)
      /\ Byte * (Byte - 1) = Byte * Byte - Byte
  BY ByteAssumption
<1> QED BY <1>1, ByteAssumption DEF NumberMod

\* Counting in sixteen bits, and leaving out the 0 it comes to.
LEMMA SuccessorFacts ==
    ASSUME NEW n \in 0 .. NumberMod - 1
    PROVE  /\ (n + 1) % NumberMod \in 0 .. NumberMod - 1
           /\ Successor(n) \in 1 .. NumberMod - 1
           /\ (n + 1) % NumberMod = 0 <=> n = NumberMod - 1
           /\ (n + 1) % NumberMod # 0 => Successor(n) = (n + 1) % NumberMod
<1>1. (n + 1) % NumberMod = IF n = NumberMod - 1 THEN 0 ELSE n + 1
  BY NumberModFacts
<1>2. CASE n = NumberMod - 1
  BY <1>1, <1>2, NumberModFacts DEF Successor
<1>3. CASE n # NumberMod - 1
  BY <1>1, <1>3, NumberModFacts DEF Successor
<1> QED BY <1>2, <1>3

\* There is always a number to expect.
LEMMA ExpectedType == TypeOK => Expected \in 0 .. NumberMod - 1
<1> SUFFICES ASSUME TypeOK, numbers # <<>> PROVE Successor(numbers[Len(numbers)]) \in 0 .. NumberMod - 1
    BY NumberModFacts DEF Expected
<1>1. numbers[Len(numbers)] \in 0 .. NumberMod - 1
  BY LastFacts DEF TypeOK
<1> QED BY <1>1, SuccessorFacts, NumberModFacts

\* What a builder has read is a number, whatever happened in between.
LEMMA NumberOfType ==
    ASSUME TypeOK, NEW b \in Builders PROVE NumberOf(b) \in 0 .. NumberMod - 1
<1>1. reg[b].low \in 0 .. Byte - 1 /\ reg[b].high \in 0 .. Byte - 1
  BY DEF TypeOK
<1> QED BY <1>1, NumberOfBytes DEF NumberOf

-----------------------------------------------------------------------------
(* One builder moves *)

Places == {"idle", "gate", "raw"} \cup PcBuild

\* The step of one builder leaves the other where it is.
LEMMA MoveFacts ==
    ASSUME TypeOK, NEW b \in Builders, NEW to \in Places, bpc' = [bpc EXCEPT ![b] = to]
    PROVE  /\ bpc' \in [Builders -> Places] /\ bpc'[b] = to
           /\ \A c \in Builders : c # b => bpc'[c] = bpc[c]
BY DEF TypeOK, Places

\* It overwrites one of its own registers at a time.
LEMMA RegFacts ==
    ASSUME TypeOK, NEW b \in Builders, NEW r \in [low : 0 .. Byte - 1, high : 0 .. Byte - 1,
                                                  old : 0 .. NumberMod - 1],
           reg' = [reg EXCEPT ![b] = r]
    PROVE  /\ reg'[b] = r /\ \A c \in Builders : c # b => reg'[c] = reg[c]
           /\ reg' \in [Builders -> [low : 0 .. Byte - 1, high : 0 .. Byte - 1,
                                     old : 0 .. NumberMod - 1]]
BY DEF TypeOK

\* What a step of a builder does to its own place, its registers, the counter and
\* the numbers sent.
BuildStep(b) ==
    \/ /\ bpc[b] = "low" /\ bpc'[b] = "high"
       /\ reg'[b].low = seq % Byte
       /\ seq' = seq /\ numbers' = numbers
    \/ /\ bpc[b] = "high" /\ bpc'[b] = "load"
       /\ reg'[b].low = reg[b].low /\ reg'[b].high = seq \div Byte
       /\ seq' = seq /\ numbers' = numbers
    \/ /\ bpc[b] = "load" /\ bpc'[b] = "store"
       /\ reg'[b].low = reg[b].low /\ reg'[b].high = reg[b].high /\ reg'[b].old = seq
       /\ seq' = seq /\ numbers' = numbers
    \/ /\ bpc[b] = "store" /\ bpc'[b] = "wrap"
       /\ reg'[b] = reg[b] /\ seq' = (reg[b].old + 1) % NumberMod /\ numbers' = numbers
    \/ /\ bpc[b] = "wrap" /\ bpc'[b] = IF seq = 0 THEN "reset" ELSE "emit"
       /\ reg'[b] = reg[b] /\ seq' = seq /\ numbers' = numbers
    \/ /\ bpc[b] = "reset" /\ bpc'[b] = "emit"
       /\ reg'[b] = reg[b] /\ seq' = 1 /\ numbers' = numbers
    \/ /\ bpc[b] = "emit" /\ bpc'[b] = "idle"
       /\ seq' = seq
       /\ numbers' = IF numbers = <<>> THEN <<NumberOf(b)>>
                                       ELSE <<numbers[Len(numbers)], NumberOf(b)>>

\* Every step of data_process_send() is one of these, and keeps the types.
LEMMA BuildFacts ==
    ASSUME TypeOK, HandInv, NEW b \in Builders, Build(b)
    PROVE  /\ TypeOK' /\ BuildStep(b) /\ overlap' = overlap /\ frame'.id = frame.id
           /\ \A c \in Builders : c # b => bpc'[c] = bpc[c] /\ reg'[c] = reg[c]
<1> DEFINE Regs == [low : 0 .. Byte - 1, high : 0 .. Byte - 1, old : 0 .. NumberMod - 1]
<1>1. /\ reg[b] \in Regs /\ seq \in 0 .. NumberMod - 1 /\ NoReg \in Regs
      /\ seq % Byte \in 0 .. Byte - 1 /\ seq \div Byte \in 0 .. Byte - 1
  <2>1. reg[b] \in Regs /\ seq \in 0 .. NumberMod - 1
    BY DEF TypeOK
  <2>2. NoReg \in Regs
    BY NumberModFacts DEF NoReg
  <2> QED BY <2>1, <2>2, BytesOfNumber
<1>2. CASE PutLow(b)
  <2> DEFINE r == [reg[b] EXCEPT !.low = seq % Byte]
  <2>1. r \in Regs /\ r.low = seq % Byte
    BY <1>1
  <2>2. /\ bpc[b] = "low" /\ bpc' = [bpc EXCEPT ![b] = "high"] /\ reg' = [reg EXCEPT ![b] = r]
        /\ UNCHANGED <<boot, handle, link, seq, frame, beats, numbers, wire, overlap>>
    BY <1>2 DEF PutLow, BGoto
  <2> HIDE DEF r
  <2>3. bpc' \in [Builders -> Places] /\ bpc'[b] = "high" /\ \A c \in Builders : c # b => bpc'[c] = bpc[c]
    BY <2>2, MoveFacts DEF Places, PcBuild
  <2>4. reg'[b] = r /\ reg' \in [Builders -> Regs] /\ \A c \in Builders : c # b => reg'[c] = reg[c]
    BY <2>1, <2>2, RegFacts
  <2> QED BY <2>1, <2>2, <2>3, <2>4 DEF TypeOK, Places, BuildStep
<1>3. CASE PutHigh(b)
  <2> DEFINE r == [reg[b] EXCEPT !.high = seq \div Byte]
  <2>1. r \in Regs /\ r.low = reg[b].low /\ r.high = seq \div Byte
    BY <1>1
  <2>2. /\ bpc[b] = "high" /\ bpc' = [bpc EXCEPT ![b] = "load"] /\ reg' = [reg EXCEPT ![b] = r]
        /\ UNCHANGED <<boot, handle, link, seq, frame, beats, numbers, wire, overlap>>
    BY <1>3 DEF PutHigh, BGoto
  <2> HIDE DEF r
  <2>3. bpc' \in [Builders -> Places] /\ bpc'[b] = "load" /\ \A c \in Builders : c # b => bpc'[c] = bpc[c]
    BY <2>2, MoveFacts DEF Places, PcBuild
  <2>4. reg'[b] = r /\ reg' \in [Builders -> Regs] /\ \A c \in Builders : c # b => reg'[c] = reg[c]
    BY <2>1, <2>2, RegFacts
  <2> QED BY <2>1, <2>2, <2>3, <2>4 DEF TypeOK, Places, BuildStep
<1>4. CASE Load(b)
  <2> DEFINE r == [reg[b] EXCEPT !.old = seq]
  <2>1. r \in Regs /\ r.low = reg[b].low /\ r.high = reg[b].high /\ r.old = seq
    BY <1>1
  <2>2. /\ bpc[b] = "load" /\ bpc' = [bpc EXCEPT ![b] = "store"] /\ reg' = [reg EXCEPT ![b] = r]
        /\ UNCHANGED <<boot, handle, link, seq, frame, beats, numbers, wire, overlap>>
    BY <1>4 DEF Load, BGoto
  <2> HIDE DEF r
  <2>3. bpc' \in [Builders -> Places] /\ bpc'[b] = "store" /\ \A c \in Builders : c # b => bpc'[c] = bpc[c]
    BY <2>2, MoveFacts DEF Places, PcBuild
  <2>4. reg'[b] = r /\ reg' \in [Builders -> Regs] /\ \A c \in Builders : c # b => reg'[c] = reg[c]
    BY <2>1, <2>2, RegFacts
  <2> QED BY <2>1, <2>2, <2>3, <2>4 DEF TypeOK, Places, BuildStep
<1>5. CASE Store(b)
  <2>1. /\ bpc[b] = "store" /\ bpc' = [bpc EXCEPT ![b] = "wrap"]
        /\ seq' = (reg[b].old + 1) % NumberMod
        /\ UNCHANGED <<boot, handle, link, reg, frame, beats, numbers, wire, overlap>>
    BY <1>5 DEF Store, BGoto
  <2>2. bpc' \in [Builders -> Places] /\ bpc'[b] = "wrap" /\ \A c \in Builders : c # b => bpc'[c] = bpc[c]
    BY <2>1, MoveFacts DEF Places, PcBuild
  <2>3. seq' \in 0 .. NumberMod - 1
    <3>1. reg[b].old \in 0 .. NumberMod - 1
      BY <1>1
    <3> QED BY <2>1, <3>1, SuccessorFacts
  <2> QED BY <2>1, <2>2, <2>3 DEF TypeOK, Places, BuildStep
<1>6. CASE Wrap(b)
  <2>1. /\ bpc[b] = "wrap" /\ bpc' = [bpc EXCEPT ![b] = IF seq = 0 THEN "reset" ELSE "emit"]
        /\ UNCHANGED <<boot, handle, link, seq, reg, frame, beats, numbers, wire, overlap>>
    BY <1>6 DEF Wrap, BGoto
  <2>2. /\ bpc' \in [Builders -> Places] /\ bpc'[b] = IF seq = 0 THEN "reset" ELSE "emit"
        /\ \A c \in Builders : c # b => bpc'[c] = bpc[c]
    BY <2>1, MoveFacts DEF Places, PcBuild
  <2> QED BY <2>1, <2>2 DEF TypeOK, Places, BuildStep
<1>7. CASE Reset(b)
  <2>1. /\ bpc[b] = "reset" /\ bpc' = [bpc EXCEPT ![b] = "emit"] /\ seq' = 1
        /\ UNCHANGED <<boot, handle, link, reg, frame, beats, numbers, wire, overlap>>
    BY <1>7 DEF Reset, BGoto
  <2>2. bpc' \in [Builders -> Places] /\ bpc'[b] = "emit" /\ \A c \in Builders : c # b => bpc'[c] = bpc[c]
    BY <2>1, MoveFacts DEF Places, PcBuild
  <2> QED BY <2>1, <2>2, NumberModFacts DEF TypeOK, Places, BuildStep
<1>8. CASE Emit(b)
  <2>1. /\ bpc[b] = "emit" /\ bpc' = [bpc EXCEPT ![b] = "idle"]
        /\ numbers' = IF numbers = <<>> THEN <<NumberOf(b)>>
                                        ELSE <<numbers[Len(numbers)], NumberOf(b)>>
        /\ reg' = [reg EXCEPT ![b] = NoReg]
        /\ UNCHANGED <<boot, handle, link, seq, beats, overlap>>
    BY <1>8 DEF Emit, BGoto
  <2>2. bpc' \in [Builders -> Places] /\ bpc'[b] = "idle" /\ \A c \in Builders : c # b => bpc'[c] = bpc[c]
    BY <2>1, MoveFacts DEF Places, PcBuild
  <2>3. reg' \in [Builders -> Regs] /\ \A c \in Builders : c # b => reg'[c] = reg[c]
    BY <1>1, <2>1, RegFacts
  <2>4. numbers' \in Seq(0 .. NumberMod - 1) /\ Len(numbers') <= 2
    <3>1. NumberOf(b) \in 0 .. NumberMod - 1
      BY NumberOfType
    <3>2. CASE numbers = <<>>
      BY <2>1, <3>1, <3>2
    <3>3. CASE numbers # <<>>
      <4>1. numbers[Len(numbers)] \in 0 .. NumberMod - 1
        BY <3>3, LastFacts DEF TypeOK
      <4> QED BY <2>1, <3>1, <3>3, <4>1
    <3> QED BY <3>2, <3>3
  <2>5. /\ wire' \in SUBSET (1 .. MaxFrames)
        /\ frame' \in [id : 0 .. MaxFrames, len : Lengths \cup {0}] /\ frame'.id = frame.id
    <3>1. CASE b = "rs485"
      <4>1. /\ frame' = [frame EXCEPT !.len = 0]
            /\ wire' = IF link THEN wire \cup {frame.id} ELSE wire
        BY <1>8, <3>1 DEF Emit
      <4>2. frame' \in [id : 0 .. MaxFrames, len : Lengths \cup {0}] /\ frame'.id = frame.id
        BY <4>1 DEF TypeOK
      <4>3. frame.id \in 1 .. MaxFrames
        BY <2>1, <3>1 DEF HandInv, TypeOK
      <4> QED BY <4>1, <4>2, <4>3 DEF TypeOK
    <3>2. CASE b # "rs485"
      BY <1>8, <3>2 DEF Emit, TypeOK
    <3> QED BY <3>1, <3>2
  <2> QED BY <2>1, <2>2, <2>3, <2>4, <2>5 DEF TypeOK, Places, BuildStep
<1> QED BY <1>2, <1>3, <1>4, <1>5, <1>6, <1>7, <1>8 DEF Build

-----------------------------------------------------------------------------
(* The steps keep the invariant *)

\* Emitting the expected number makes its successor the expected one.
LEMMA EmitFacts ==
    ASSUME TypeOK, NEW b \in Builders, NumberOf(b) = Expected, NumbersAdvanceUnlessOverlap, ~overlap,
           numbers' = IF numbers = <<>> THEN <<NumberOf(b)>>
                                        ELSE <<numbers[Len(numbers)], NumberOf(b)>>
    PROVE  Expected' = Successor(Expected) /\ NumbersAdvanceUnlessOverlap'
<1>1. Expected \in 0 .. NumberMod - 1
  BY ExpectedType
<1>2. CASE numbers = <<>>
  <2>1. numbers' = <<Expected>> /\ Expected = 0
    BY <1>2 DEF Expected
  <2>2. numbers' # <<>> /\ Len(numbers') = 1 /\ numbers'[1] = Expected
    BY <2>1
  <2> QED BY <2>1, <2>2 DEF Expected, Successor, NumbersAdvanceUnlessOverlap
<1>3. CASE numbers # <<>>
  <2>1. numbers' = <<numbers[Len(numbers)], Expected>> /\ Expected = Successor(numbers[Len(numbers)])
    BY <1>3 DEF Expected
  <2>2. /\ numbers' # <<>> /\ Len(numbers') = 2 /\ numbers'[2] = Expected
        /\ numbers'[1] = numbers[Len(numbers)]
    BY <2>1
  <2> QED BY <2>1, <2>2 DEF Expected, Successor, NumbersAdvanceUnlessOverlap
<1> QED BY <1>2, <1>3

\* A builder that is alone takes the counter from one number to the next.
LEMMA AloneStep ==
    ASSUME TypeOK, NEW b \in Builders, BuildStep(b), AloneInv(b),
           NumbersAdvanceUnlessOverlap, ~overlap
    PROVE  /\ AloneInv(b)' /\ NumbersAdvanceUnlessOverlap'
           /\ bpc'[b] = "idle" => seq' = Expected'
<1>1. Expected \in 0 .. NumberMod - 1 /\ seq \in 0 .. NumberMod - 1
  BY ExpectedType DEF TypeOK
<1>2. CASE bpc[b] = "emit"
  <2>1. NumberOf(b) = Expected /\ seq = Successor(Expected)
    BY <1>2 DEF AloneInv
  <2>2. /\ bpc'[b] = "idle" /\ seq' = seq
        /\ numbers' = IF numbers = <<>> THEN <<NumberOf(b)>>
                                        ELSE <<numbers[Len(numbers)], NumberOf(b)>>
    BY <1>2 DEF BuildStep
  <2> QED BY <2>1, <2>2, EmitFacts DEF AloneInv
<1>3. ASSUME bpc[b] # "emit" PROVE AloneInv(b)' /\ NumbersAdvanceUnlessOverlap' /\ bpc'[b] # "idle"
  <2>1. numbers' = numbers /\ Expected' = Expected /\ bpc'[b] # "idle"
    BY <1>3 DEF BuildStep, Expected
  <2>2. NumbersAdvanceUnlessOverlap'
    BY <2>1 DEF NumbersAdvanceUnlessOverlap
  <2>3. AloneInv(b)'
    <3>1. CASE bpc[b] = "low"
      BY <2>1, <3>1 DEF BuildStep, AloneInv
    <3>2. CASE bpc[b] = "high"
      <4>1. /\ bpc'[b] = "load" /\ seq' = seq /\ seq = Expected
            /\ reg'[b].low = Expected % Byte /\ reg'[b].high = Expected \div Byte
        BY <3>2 DEF BuildStep, AloneInv
      <4>2. NumberOf(b)' = Expected
        BY <1>1, <4>1, BytesOfNumber DEF NumberOf
      <4> QED BY <2>1, <4>1, <4>2 DEF AloneInv
    <3>3. CASE bpc[b] = "load"
      <4>1. /\ bpc'[b] = "store" /\ seq' = seq /\ seq = Expected
            /\ reg'[b].low = reg[b].low /\ reg'[b].high = reg[b].high /\ reg'[b].old = seq
            /\ NumberOf(b) = Expected
        BY <3>3 DEF BuildStep, AloneInv
      <4>2. NumberOf(b)' = Expected
        BY <4>1 DEF NumberOf
      <4> QED BY <2>1, <4>1, <4>2 DEF AloneInv
    <3>4. CASE bpc[b] = "store"
      <4>1. /\ bpc'[b] = "wrap" /\ seq' = (Expected + 1) % NumberMod
            /\ reg'[b] = reg[b] /\ NumberOf(b) = Expected
        BY <3>4 DEF BuildStep, AloneInv
      <4>2. NumberOf(b)' = Expected
        BY <4>1 DEF NumberOf
      <4> QED BY <2>1, <4>1, <4>2 DEF AloneInv
    <3>5. CASE bpc[b] = "wrap"
      <4>1. /\ bpc'[b] = IF seq = 0 THEN "reset" ELSE "emit"
            /\ seq' = seq /\ seq = (Expected + 1) % NumberMod
            /\ reg'[b] = reg[b] /\ NumberOf(b) = Expected
        BY <3>5 DEF BuildStep, AloneInv
      <4>2. NumberOf(b)' = Expected
        BY <4>1 DEF NumberOf
      <4>3. CASE seq = 0
        <5>1. Expected = NumberMod - 1
          BY <1>1, <4>1, <4>3, SuccessorFacts
        <5> QED BY <2>1, <4>1, <4>2, <4>3, <5>1 DEF AloneInv
      <4>4. CASE seq # 0
        <5>1. seq = Successor(Expected)
          BY <1>1, <4>1, <4>4, SuccessorFacts
        <5>2. Successor(Expected)' = Successor(Expected)
          BY <2>1 DEF Successor
        <5> QED BY <2>1, <4>1, <4>2, <4>4, <5>1, <5>2 DEF AloneInv
      <4> QED BY <4>3, <4>4
    <3>6. CASE bpc[b] = "reset"
      <4>1. /\ bpc'[b] = "emit" /\ seq' = 1 /\ reg'[b] = reg[b]
            /\ NumberOf(b) = Expected /\ Expected = NumberMod - 1
        BY <3>6 DEF BuildStep, AloneInv
      <4>2. NumberOf(b)' = Expected
        BY <4>1 DEF NumberOf
      <4>3. Successor(Expected)' = 1
        BY <2>1, <4>1 DEF Successor
      <4> QED BY <2>1, <4>1, <4>2, <4>3 DEF AloneInv
    <3> QED BY <1>3, <3>1, <3>2, <3>3, <3>4, <3>5, <3>6 DEF BuildStep
  <2> QED BY <2>1, <2>2, <2>3
<1> QED BY <1>2, <1>3

\* A step of a builder: if it is alone, the other one is outside and stays there.
LEMMA BuildInv == ASSUME IInv, NEW b \in Builders, Build(b) PROVE IInv'
<1>1. /\ TypeOK' /\ BuildStep(b) /\ overlap' = overlap /\ frame'.id = frame.id
      /\ \A c \in Builders : c # b => bpc'[c] = bpc[c] /\ reg'[c] = reg[c]
  BY BuildFacts DEF IInv
<1>2. Building(b)
  BY <1>1 DEF BuildStep, Building, PcBuild
<1>3. HandInv'
  <2>1. bpc[b] # "idle"
    BY <1>1 DEF BuildStep
  <2> QED BY <1>1, <2>1 DEF IInv, HandInv, Builders
<1>4. ZeroInv'
  BY <1>1 DEF IInv, ZeroInv, BuildStep
<1>5. ASSUME ~overlap PROVE TurnsInv' /\ NumbersAdvanceUnlessOverlap'
  <2>1. \A c \in Builders : c # b => ~Building(c)
    BY <1>2, <1>5 DEF IInv, TurnsInv, Builders
  <2>2. \A c \in Builders : c # b => ~Building(c)' /\ AloneInv(c)'
    BY <1>1, <2>1 DEF Building, PcBuild, AloneInv
  <2>3. /\ AloneInv(b)' /\ NumbersAdvanceUnlessOverlap'
        /\ bpc'[b] = "idle" => seq' = Expected'
    BY <1>1, <1>5, AloneStep DEF IInv, TurnsInv
  <2>4. Building(b)' \/ bpc'[b] = "idle"
    BY <1>1 DEF BuildStep, Building, PcBuild
  <2>5. ~(Building("rs485") /\ Building("heartbeat"))'
    BY <2>2 DEF Builders
  <2>6. (\A c \in Builders : ~Building(c)') => seq' = Expected'
    BY <2>3, <2>4
  <2>7. \A c \in Builders : AloneInv(c)'
    BY <2>2, <2>3
  <2> QED BY <2>3, <2>5, <2>6, <2>7 DEF TurnsInv
<1>6. overlap => TurnsInv' /\ NumbersAdvanceUnlessOverlap'
  BY <1>1 DEF TurnsInv, NumbersAdvanceUnlessOverlap
<1> QED BY <1>1, <1>3, <1>4, <1>5, <1>6 DEF IInv

\* Steps that leave the builders alone, or move one that is not building.
LEMMA QuietInv ==
    ASSUME IInv, TypeOK', HandInv', UNCHANGED <<seq, reg, numbers, overlap>>,
           \A b \in Builders : bpc'[b] = bpc[b] \/ {bpc[b], bpc'[b]} \subseteq {"idle", "gate", "raw"}
    PROVE  IInv'
<1>1. Expected' = Expected /\ NumbersAdvanceUnlessOverlap'
  BY DEF IInv, Expected, NumbersAdvanceUnlessOverlap
<1>2. \A b \in Builders : Building(b)' <=> Building(b)
  BY DEF Building, PcBuild
<1>3. ASSUME NEW b \in Builders, AloneInv(b) PROVE AloneInv(b)'
  <2>1. NumberOf(b)' = NumberOf(b) /\ Successor(Expected)' = Successor(Expected)
    BY <1>1 DEF NumberOf, Successor
  <2>2. CASE bpc'[b] = bpc[b]
    BY <1>1, <1>3, <2>1, <2>2 DEF AloneInv
  <2>3. CASE bpc'[b] \in {"idle", "gate", "raw"}
    BY <2>3 DEF AloneInv
  <2> QED BY <2>2, <2>3
<1>4. TurnsInv'
  <2>1. ~overlap => /\ ~(Building("rs485") /\ Building("heartbeat"))'
                    /\ (\A b \in Builders : ~Building(b)') => seq' = Expected'
                    /\ \A b \in Builders : AloneInv(b)'
    BY <1>1, <1>2, <1>3 DEF IInv, TurnsInv, Builders
  <2> QED BY <2>1 DEF TurnsInv
<1>5. ZeroInv'
  BY DEF IInv, ZeroInv
<1> QED BY <1>1, <1>4, <1>5 DEF IInv

\* A builder that enters data_process_send(): it finds the expected number there,
\* or it meets the other one.
LEMMA EnterInv ==
    ASSUME IInv, TypeOK', HandInv', UNCHANGED <<seq, reg, numbers>>, NEW b \in Builders,
           bpc[b] \in {"idle", "gate"}, bpc'[b] = "low",
           \A c \in Builders : c # b => bpc'[c] = bpc[c],
           overlap \/ (\E c \in Builders : c # b /\ Building(c)) => overlap'
    PROVE  IInv'
<1>1. Expected' = Expected
  BY DEF Expected
<1>2. ~overlap' => ~overlap /\ \A c \in Builders : ~Building(c)
  BY DEF Building, PcBuild
<1>3. NumbersAdvanceUnlessOverlap'
  BY <1>2 DEF IInv, NumbersAdvanceUnlessOverlap
<1>4. ASSUME ~overlap' PROVE TurnsInv'
  <2>1. seq' = Expected' /\ ~overlap /\ \A c \in Builders : ~Building(c)
    BY <1>1, <1>2, <1>4 DEF IInv, TurnsInv
  <2>2. \A c \in Builders : c # b => ~Building(c)'
    BY <2>1 DEF Building
  <2>3. AloneInv(b)'
    BY <2>1 DEF AloneInv
  <2>4. \A c \in Builders : c # b => AloneInv(c)'
    BY <2>2 DEF AloneInv, Building, PcBuild
  <2>5. ~(Building("rs485") /\ Building("heartbeat"))'
    BY <2>2 DEF Builders
  <2> QED BY <2>1, <2>3, <2>4, <2>5 DEF TurnsInv
<1>5. overlap' => TurnsInv'
  BY DEF TurnsInv
<1>6. ZeroInv'
  BY DEF IInv, ZeroInv
<1> QED BY <1>3, <1>4, <1>5, <1>6 DEF IInv

\* A frame of the bus: it is refused, or it waits for the callback.
LEMMA ReadBusInv == IInv /\ ReadBus => IInv'
<1> SUFFICES ASSUME IInv, ReadBus PROVE IInv'
    OBVIOUS
<1>1. PICK len \in Lengths, taken \in BOOLEAN :
        /\ frame' = [id |-> frame.id + 1, len |-> IF taken THEN len ELSE 0]
        /\ bpc' = [bpc EXCEPT !["rs485"] = IF taken THEN "gate" ELSE "idle"]
  BY DEF ReadBus, ValidModbus
<1>2. /\ bpc["rs485"] = "idle" /\ frame.id < MaxFrames /\ "rs485" \in Builders
      /\ UNCHANGED <<boot, handle, link, seq, reg, beats, numbers, wire, overlap>>
  BY DEF ReadBus, Builders
<1>3. /\ bpc' \in [Builders -> Places] /\ bpc'["rs485"] \in {"idle", "gate"}
      /\ \A c \in Builders : c # "rs485" => bpc'[c] = bpc[c]
  BY <1>1, <1>2 DEF IInv, TypeOK, Places
<1>4. frame' \in [id : 0 .. MaxFrames, len : Lengths \cup {0}] /\ frame'.id > 0
  BY <1>1, <1>2, BoundsAssumption DEF IInv, TypeOK
<1>5. TypeOK' /\ HandInv'
  BY <1>2, <1>3, <1>4 DEF IInv, TypeOK, HandInv, Places
<1> QED BY <1>2, <1>3, <1>5, QuietInv

\* The callback lets a frame through, to the builder or past it, or drops it.
LEMMA GateInv == IInv /\ Gate => IInv'
<1> SUFFICES ASSUME IInv, Gate PROVE IInv'
    OBVIOUS
<1> DEFINE n == DataLen(frame.len)
           way == IF link /\ n > 0 /\ n < 500 THEN WayOn(n) ELSE "idle"
<1>0. way \in {"idle", "raw", "low"}
  BY DEF WayOn
<1>1. /\ bpc' = [bpc EXCEPT !["rs485"] = way]
      /\ frame' = IF way = "idle" THEN [frame EXCEPT !.len = 0] ELSE frame
      /\ overlap' = (overlap \/ (way = "low" /\ Building("heartbeat")))
  BY DEF Gate
<1> HIDE DEF way
<1>2. /\ bpc["rs485"] = "gate" /\ "rs485" \in Builders
      /\ UNCHANGED <<boot, handle, link, seq, reg, beats, numbers, wire>>
  BY DEF Gate, Builders
<1>3. /\ bpc' \in [Builders -> Places] /\ bpc'["rs485"] = way
      /\ \A c \in Builders : c # "rs485" => bpc'[c] = bpc[c]
  BY <1>0, <1>1, <1>2 DEF IInv, TypeOK, Places, PcBuild
<1>4. frame' \in [id : 0 .. MaxFrames, len : Lengths \cup {0}] /\ frame'.id = frame.id
  BY <1>1 DEF IInv, TypeOK
<1>5. overlap' \in BOOLEAN
  BY <1>1 DEF IInv, TypeOK
<1>6. TypeOK' /\ HandInv'
  BY <1>2, <1>3, <1>4, <1>5 DEF IInv, TypeOK, HandInv, Places
<1>7. CASE way = "low"
  <2>1. overlap \/ (\E c \in Builders : c # "rs485" /\ Building(c)) => overlap'
    BY <1>1, <1>7 DEF Builders
  <2> QED BY <1>2, <1>3, <1>6, <1>7, <2>1, EnterInv
<1>8. CASE way # "low"
  <2>1. overlap' = overlap
    BY <1>1, <1>8 DEF IInv, TypeOK
  <2> QED BY <1>0, <1>2, <1>3, <1>6, <1>8, <2>1, QuietInv
<1> QED BY <1>7, <1>8

\* A frame sent past the builder leaves the counter alone.
LEMMA SendRawInv == IInv /\ SendRaw => IInv'
<1> SUFFICES ASSUME IInv, SendRaw PROVE IInv'
    OBVIOUS
<1>1. /\ bpc["rs485"] = "raw" /\ bpc' = [bpc EXCEPT !["rs485"] = "idle"]
      /\ wire' = IF link THEN wire \cup {frame.id} ELSE wire
      /\ frame' = [frame EXCEPT !.len = 0] /\ "rs485" \in Builders
      /\ UNCHANGED <<boot, handle, link, seq, reg, beats, numbers, overlap>>
  BY DEF SendRaw, BGoto, Builders
<1>2. /\ bpc' \in [Builders -> Places] /\ bpc'["rs485"] = "idle"
      /\ \A c \in Builders : c # "rs485" => bpc'[c] = bpc[c]
  BY <1>1 DEF IInv, TypeOK, Places
<1>3. frame' \in [id : 0 .. MaxFrames, len : Lengths \cup {0}] /\ frame'.id = frame.id
  BY <1>1 DEF IInv, TypeOK
<1>4. wire' \in SUBSET (1 .. MaxFrames)
  BY <1>1 DEF IInv, TypeOK, HandInv
<1>5. TypeOK' /\ HandInv'
  BY <1>1, <1>2, <1>3, <1>4 DEF IInv, TypeOK, HandInv, Places
<1> QED BY <1>1, <1>2, <1>5, QuietInv

\* The timer expires.
LEMMA BeatInv == IInv /\ Beat => IInv'
<1> SUFFICES ASSUME IInv, Beat PROVE IInv'
    OBVIOUS
<1>1. /\ bpc["heartbeat"] = "idle" /\ bpc' = [bpc EXCEPT !["heartbeat"] = "low"]
      /\ beats < MaxBeats /\ beats' = beats + 1
      /\ overlap' = (overlap \/ Building("rs485"))
      /\ UNCHANGED <<boot, handle, link, seq, reg, frame, numbers, wire>>
      /\ "heartbeat" \in Builders /\ "rs485" \in Builders
  BY DEF Beat, BGoto, Builders
<1>2. /\ bpc' \in [Builders -> Places] /\ bpc'["heartbeat"] = "low"
      /\ \A c \in Builders : c # "heartbeat" => bpc'[c] = bpc[c]
  BY <1>1 DEF IInv, TypeOK, Places, PcBuild
<1>3. overlap' \in BOOLEAN /\ beats' \in 0 .. MaxBeats
  BY <1>1, BoundsAssumption DEF IInv, TypeOK
<1>4. TypeOK' /\ HandInv'
  BY <1>1, <1>2, <1>3 DEF IInv, TypeOK, HandInv, Places
<1>5. overlap \/ (\E c \in Builders : c # "heartbeat" /\ Building(c)) => overlap'
  BY <1>1 DEF Builders
<1> QED BY <1>1, <1>2, <1>4, <1>5, EnterInv

-----------------------------------------------------------------------------
(* The invariant holds *)

\* Every reachable state keeps the invariant.
THEOREM SpecIInv == Spec => []IInv
<1>1. ASSUME Init PROVE IInv
  <2>1. /\ boot = "start" /\ handle \in BOOLEAN /\ link = FALSE /\ seq = 0 /\ beats = 0 /\ numbers = <<>>
        /\ wire = {} /\ overlap = FALSE /\ frame = [id |-> 0, len |-> 0]
        /\ \A b \in Builders : bpc[b] = "idle" /\ reg[b] = NoReg
        /\ "rs485" \in Builders
    BY <1>1 DEF Init, Builders
  <2>2. TypeOK
    <3>1. NoReg \in [low : 0 .. Byte - 1, high : 0 .. Byte - 1, old : 0 .. NumberMod - 1]
      BY NumberModFacts DEF NoReg
    <3>2. /\ bpc \in [Builders -> Places]
          /\ reg \in [Builders -> [low : 0 .. Byte - 1, high : 0 .. Byte - 1,
                                   old : 0 .. NumberMod - 1]]
      BY <1>1, <3>1 DEF Init, Places
    <3>3. numbers \in Seq(0 .. NumberMod - 1) /\ Len(numbers) <= 2
      BY <2>1
    <3>4. /\ seq \in 0 .. NumberMod - 1 /\ beats \in 0 .. MaxBeats
          /\ frame \in [id : 0 .. MaxFrames, len : Lengths \cup {0}]
      BY <2>1, NumberModFacts, BoundsAssumption
    <3> QED BY <2>1, <3>2, <3>3, <3>4 DEF TypeOK, Places
  <2>3. TurnsInv /\ NumbersAdvanceUnlessOverlap
    <3>1. seq = Expected
      BY <2>1 DEF Expected
    <3>2. \A b \in Builders : ~Building(b) /\ AloneInv(b)
      BY <2>1 DEF Building, PcBuild, AloneInv
    <3>3. Len(<<>>) = 0
      OBVIOUS
    <3> QED BY <2>1, <3>1, <3>2, <3>3 DEF TurnsInv, NumbersAdvanceUnlessOverlap, Builders
  <2>4. HandInv /\ ZeroInv
    BY <2>1 DEF HandInv, ZeroInv
  <2> QED BY <2>2, <2>3, <2>4 DEF IInv
<1>2. ASSUME IInv, [Next]_vars PROVE IInv'
  <2>1. CASE Boot \/ LinkChanges \/ UNCHANGED vars
    <3>1. /\ UNCHANGED <<seq, bpc, reg, frame, beats, numbers, wire, overlap>>
          /\ boot' \in {"start", "client", "rs485", "callback", "done"} /\ handle' = handle /\ link' \in BOOLEAN
      BY <1>2, <2>1 DEF Boot, BootStep, LinkChanges, vars, IInv, TypeOK
    <3>2. TypeOK' /\ HandInv'
      BY <1>2, <3>1 DEF IInv, TypeOK, HandInv
    <3> QED BY <1>2, <3>1, <3>2, QuietInv
  <2>2. CASE ReadBus \/ Gate \/ SendRaw \/ Beat
    BY <1>2, <2>2, ReadBusInv, GateInv, SendRawInv, BeatInv
  <2>3. CASE \E b \in Builders : Build(b)
    BY <1>2, <2>3, BuildInv
  <2> QED BY <1>2, <2>1, <2>2, <2>3 DEF Next
<1> QED BY <1>1, <1>2, PTL DEF Spec

-----------------------------------------------------------------------------
(* What follows from it *)

\* The variables keep their types; the counter stays within its two bytes.
THEOREM UplinkTypeCorrect == Spec => []TypeOK
<1>1. IInv => TypeOK
  BY DEF IInv
<1> QED BY <1>1, SpecIInv, PTL

\* As long as the two callers of data_process_send() take turns, the numbers of
\* the frames advance by one, over the wrap too.
THEOREM NumbersAdvance == Spec => []NumbersAdvanceUnlessOverlap
<1>1. IInv => NumbersAdvanceUnlessOverlap
  BY DEF IInv
<1> QED BY <1>1, SpecIInv, PTL

\* Even if they do not, build_protocol_header() never leaves the counter at 0.
THEOREM CounterIsNotZero == Spec => []CounterLeavesZero
<1>1. IInv => CounterLeavesZero
  BY DEF IInv, ZeroInv, CounterLeavesZero, Building, PcBuild
<1> QED BY <1>1, SpecIInv, PTL

=============================================================================
