----------------------------- MODULE FlatBlock -----------------------------
(***************************************************************************)
(* What the device support promises of the blocks of a PSC: a block is one *)
(* plain sequence of bytes, and a record reads or writes the bytes its     *)
(* link names, in network byte order, if they are all there.  Of a string  *)
(* that a message overtakes while it is copied nothing is promised.        *)
(***************************************************************************)
EXTENDS Naturals, Sequences, FiniteSets, SequencesExt, FiniteSetsExt

CONSTANTS
  Registers,   \* records of the register support
  Settings,    \* those that write, the others read
  Block,       \* Block[r]: "rx" or "tx"
  Offset,      \* Offset[r]: of register r, in bytes
  Mask,        \* Mask[r]: the bytes of the value that r uses, {} for all
  RegSize,     \* bytes of a register
  WfSize, WfOffset, WfStep, WfNelm,   \* the waveform: element, offset, step, length
  DblSize,     \* bytes of a double
  BytesOffset, BytesNelm,             \* the waveform of bytes
  SiOffset, MaxString,                \* the string
  TsOffset, TsSize,                   \* TimeFromBlock
  Lengths,     \* of messages and blocks
  Zero         \* a byte of value 0

VARIABLES
  data,        \* data["rx"], data["tx"]: the bytes of the blocks
  connected,
  shown,       \* outcome of the last step, if it processed a record
  reading,     \* "yes": a string is being copied; "overtaken": and the block changed
  steps        \* messages received and values written

vars == <<data, connected, shown, reading, steps>>

\* ntoh(), hton() on a little endian host.
swap(bytes) == Reverse(bytes)
\* A double made of an integer, as the bytes it takes.
double(raw) == [k \in 1..DblSize |-> <<"double", raw, k>>]

\* The n-th thing that comes from outside, as bytes that can be told apart.
Fresh(n, len) == [i \in 1..len |-> <<n, i>>]

Nothing == [rec |-> "", val |-> <<>>, time |-> <<>>, sevr |-> ""]
Outcome(r, val, time, ok) ==
  [rec |-> r, val |-> val, time |-> time, sevr |-> IF ok THEN "none" ELSE "invalid"]

Fits(b, offset, n) == offset + n <= Len(data[b])
Field(b, offset, n) == SubSeq(data[b], offset + 1, offset + n)
Time(b) == IF Fits(b, TsOffset, TsSize) THEN <<"block", Field(b, TsOffset, TsSize)>>
           ELSE <<"rxtime">>
Masked(r, v, other) == [i \in 1..RegSize |-> IF Mask[r] = {} \/ i \in Mask[r] THEN v[i] ELSE other[i]]
Zeroes(n) == [i \in 1..n |-> Zero]

Init ==
  /\ data = [b \in {"rx", "tx"} |-> <<>>]
  /\ connected = FALSE
  /\ shown = Nothing
  /\ reading = "no"
  /\ steps = 0

Link ==
  /\ connected' = ~connected
  /\ shown' = Nothing
  /\ UNCHANGED <<data, reading, steps>>

Receive(len) ==
  /\ steps' = steps + 1
  /\ data' = [data EXCEPT !["rx"] = Fresh(steps', len)]
  /\ reading' = IF reading = "no" THEN "no" ELSE "overtaken"
  /\ shown' = Nothing
  /\ UNCHANGED connected

SetSize(n) ==
  /\ data' = [data EXCEPT !["tx"] = [i \in 1..n |-> IF i <= Len(@) THEN @[i] ELSE Zero]]
  /\ shown' = Nothing
  /\ UNCHANGED <<connected, reading, steps>>

\* A register is read if it is there.
Read(r) ==
  LET v == swap(Field(Block[r], Offset[r], RegSize)) IN
    /\ shown' = IF Fits(Block[r], Offset[r], RegSize)
                THEN Outcome(r, Masked(r, v, Zeroes(RegSize)), Time(Block[r]), connected)
                ELSE Outcome(r, <<>>, <<>>, FALSE)
    /\ UNCHANGED <<data, connected, reading, steps>>

\* A setting is written as far as it fits; one with a mask only if it all fits.
Write(r) ==
  LET b == Block[r]
      fits == Fits(b, Offset[r], RegSize)
      old == swap(Field(b, Offset[r], RegSize))
      new == swap(Masked(r, Fresh(steps', RegSize), old)) IN
    /\ steps' = steps + 1
    /\ data' = [data EXCEPT ![b] = [i \in 1..Len(@) |->
         IF i \in Offset[r] + 1 .. Offset[r] + RegSize /\ (fits \/ Mask[r] = {})
         THEN new[i - Offset[r]] ELSE @[i]]]
    /\ shown' = Outcome(r, <<>>, <<>>, fits /\ connected)
    /\ UNCHANGED <<connected, reading>>

\* The waveform shows every element that is there in full.
ReadWaveform ==
  LET at(n) == WfOffset + (n - 1) * WfStep
      there == {n \in 1..WfNelm : Fits("rx", at(n), WfSize)} IN
    /\ shown' = IF connected
                THEN Outcome("wf", [n \in there |-> double(swap(Field("rx", at(n), WfSize)))],
                             Time("rx"), TRUE)
                ELSE Outcome("wf", <<>>, <<>>, FALSE)
    /\ UNCHANGED <<data, connected, reading, steps>>

\* The waveform of bytes shows bytes from its offset on, some of them if the
\* message fills the waveform; how many is left open.
ReadBytes ==
  /\ \E n \in 0..BytesNelm :
       /\ n > 0 => Fits("rx", BytesOffset, n)
       /\ Fits("rx", BytesOffset, BytesNelm) => n > 0
       /\ shown' = IF connected
                   THEN Outcome("bytes", Field("rx", BytesOffset, n), Time("rx"), TRUE)
                   ELSE Outcome("bytes", <<>>, <<>>, FALSE)
  /\ UNCHANGED <<data, connected, reading, steps>>

\* A string is not read at one moment.
BeginString ==
  /\ reading = "no"
  /\ reading' = IF connected THEN "yes" ELSE "no"
  /\ shown' = IF connected THEN Nothing ELSE Outcome("si", <<>>, <<>>, FALSE)
  /\ UNCHANGED <<data, connected, steps>>

\* It is cut at its greatest length, counted from the block's start.  If the
\* block has changed meanwhile the record shows anything.
EndString ==
  /\ reading # "no"
  /\ reading' = "no"
  /\ shown' = Outcome("si", shown'.val, shown'.time, TRUE)
  /\ reading = "yes" =>
       /\ shown'.val = SubSeq(data["rx"], SiOffset + 1, Min({Len(data["rx"]), MaxString - 1}))
       /\ shown'.time = Time("rx")
  /\ UNCHANGED <<data, connected, steps>>

Send ==
  /\ shown' = Outcome("send", data["tx"], <<>>, TRUE)
  /\ UNCHANGED <<data, connected, reading, steps>>

Next ==
  \/ Link \/ ReadWaveform \/ ReadBytes \/ BeginString \/ EndString \/ Send
  \/ \E n \in Lengths : Receive(n) \/ SetSize(n)
  \/ \E r \in Registers : IF r \in Settings THEN Write(r) ELSE Read(r)

Spec == Init /\ [][Next]_vars
=============================================================================
