------------------------------ MODULE RegBlock ------------------------------
(***************************************************************************)
(* The device support that works on blocks: registers (devPSCReg.cpp),     *)
(* arrays (devPSCWf.cpp) and strings (devPSCString.cpp) over the dbuffer   *)
(* of evbase.cpp, whose bytes lie in pieces ("strides") wherever libevent  *)
(* received them.                                                          *)
(*                                                                         *)
(* A record takes PSCBase::lock, so that its processing is one step here,  *)
(* all but read_si(): "Guard(priv->psc->lock);" makes a temporary that is  *)
(* gone at once, and a message may come while the string is copied.  Bytes *)
(* are told apart by where they came from.  What becomes of a queued body  *)
(* is PSCSend's matter.                                                    *)
(***************************************************************************)
EXTENDS Naturals, Sequences, FiniteSets, SequencesExt, FiniteSetsExt

CONSTANTS
  Registers, Settings, Block, Offset, Mask, RegSize,
  WfSize, WfOffset, WfStep, WfNelm, DblSize,
  BytesOffset, BytesNelm, SiOffset, MaxString, TsOffset, TsSize,
  Lengths, Zero,          \* see FlatBlock
  MaxSteps                \* bound: messages and writes

\* step has a default of sizeof(T) and is taken for at least that.  A string
\* that begins at the last place of its field would divide by zero in
\* copyout_shape(), and the IOC would stop.
\* Settings have send blocks, which other registers may read back.
ASSUME RegBlockAssumption ==
  /\ Settings \subseteq Registers
  /\ Block \in [Registers -> {"rx", "tx"}] /\ \A r \in Settings : Block[r] = "tx"
  /\ Offset \in [Registers -> Nat] /\ Lengths \subseteq Nat
  /\ {WfOffset, BytesOffset, SiOffset, TsOffset, WfStep, DblSize} \subseteq Nat
  /\ {RegSize, TsSize, WfSize, WfNelm, BytesNelm, MaxString} \subseteq Nat \ {0}
  /\ WfSize <= DblSize /\ WfStep >= WfSize
  /\ SiOffset # MaxString - 1

VARIABLES
  strides,      \* strides["rx"], strides["tx"]: the pieces of the two dbuffers
  connected, shown, reading, steps,                    \* see FlatBlock
  stored        \* history: stored[r]: what setting r has in the block, or <<>>

regvars == <<strides, connected, shown, reading, steps, stored>>

\* The blocks without their pieces.
flat == [b \in DOMAIN strides |-> FlattenSeq(strides[b])]
Flat == INSTANCE FlatBlock WITH data <- flat

----------------------------------------------------------------------------
\* dbuffer

size(S) == Len(FlattenSeq(S))

\* stride_ptr: where it stands; copy() also says which bytes it passed.
start == [stride |-> 1, off |-> 0]
passing(k, off, n) == [i \in 1..n |-> <<k, off + i>>]

\* A turn of the loop of copy(), which has n bytes to go.
turn(S, s) ==
  LET avail == Len(S[s.stride]) - s.off IN
    IF s.n = 0 \/ s.stride > Len(S) THEN s
    ELSE IF s.n >= avail
    THEN [stride |-> s.stride + 1, off |-> 0, n |-> s.n - avail,
          passed |-> s.passed \o passing(s.stride, s.off, avail)]
    ELSE [stride |-> s.stride, off |-> s.off + s.n, n |-> 0,
          passed |-> s.passed \o passing(s.stride, s.off, s.n)]

\* copy(): passes over count bytes, or to the end.
copy(S, ptr, count) ==
  LET after[t \in 0..Len(S)] ==
        IF t = 0 THEN [stride |-> ptr.stride, off |-> ptr.off, n |-> count, passed |-> <<>>]
        ELSE turn(S, after[t - 1]) IN
    after[Len(S)]

out(S, passed) == [i \in 1..Len(passed) |-> S[passed[i][1]][passed[i][2]]]

\* copyin(): the bytes that find room are stored even if not all do.
copyin(S, bytes, offset) ==
  LET passed == copy(S, copy(S, start, offset), Len(bytes)).passed
      stores(k, i) == {n \in DOMAIN passed : passed[n] = <<k, i>>} IN
    [ok |-> Len(passed) = Len(bytes),
     strides |-> [k \in DOMAIN S |-> [i \in DOMAIN S[k] |->
       IF stores(k, i) = {} THEN S[k][i] ELSE bytes[CHOOSE n \in stores(k, i) : TRUE]]]]

\* copyout_shape(): the elements that are there, eskip bytes apart.
copyout_shape(S, offset, esize, eskip, ecount) ==
  IF ecount = 0 \/ offset >= size(S) THEN <<>>
  ELSE LET actual == Min({(size(S) - offset + eskip) \div (esize + eskip), ecount})
           ptr[e \in 1..actual] ==
             IF e = 1 THEN copy(S, start, offset)
             ELSE copy(S, copy(S, ptr[e - 1], esize), eskip) IN
         [e \in 1..actual |-> out(S, copy(S, ptr[e], esize).passed)]

\* copyout() of one element, or not.
copyout(S, offset, n) == copyout_shape(S, offset, n, 0, 1)

\* The ways to cut bytes into pieces, as evbuffer_peek() may find them.
Pieces(bytes) ==
  LET upto[n \in 0..Len(bytes)] ==
        IF n = 0 THEN {<<>>}
        ELSE UNION {{Append(S, SubSeq(bytes, m + 1, n)) : S \in upto[m]} : m \in 0..n - 1} IN
    upto[Len(bytes)]

----------------------------------------------------------------------------
RegInit ==
  /\ strides = [b \in {"rx", "tx"} |-> <<>>]
  /\ connected = FALSE
  /\ shown = Flat!Nothing
  /\ reading = "no"
  /\ steps = 0
  /\ stored = [r \in Settings |-> <<>>]

Link ==
  /\ connected' = ~connected
  /\ shown' = Flat!Nothing
  /\ UNCHANGED <<strides, reading, steps, stored>>

\* The buffer is replaced under a read_si() that is copying from it.
overtake == reading' = IF reading = "no" THEN "no" ELSE "overtaken"

\* PSC::recvdata() moves the bytes into the block as they lie ...
consume(len) ==
  /\ steps < MaxSteps /\ len > 0
  /\ steps' = steps + 1
  /\ \E S \in Pieces(Flat!Fresh(steps', len)) : strides' = [strides EXCEPT !["rx"] = S]
  /\ overtake
  /\ shown' = Flat!Nothing
  /\ UNCHANGED <<connected, stored>>

\* ... PSCUDP::recvdata() copies them.
assign(len) ==
  /\ steps < MaxSteps
  /\ steps' = steps + 1
  /\ strides' = [strides EXCEPT !["rx"] = <<Flat!Fresh(steps', len)>>]
  /\ overtake
  /\ shown' = Flat!Nothing
  /\ UNCHANGED <<connected, stored>>

\* setPSCSendBlockSize(): resize() of a send block, which is in one piece.
resize(n) ==
  /\ strides' = [strides EXCEPT !["tx"] =
       <<[i \in 1..n |-> IF i <= size(@) THEN FlattenSeq(@)[i] ELSE Zero]>>]
  /\ stored' = [r \in Settings |-> IF Offset[r] + RegSize <= n THEN stored[r] ELSE <<>>]
  /\ shown' = Flat!Nothing
  /\ UNCHANGED <<connected, reading, steps>>

\* setRecTimestamp()
setRecTimestamp(b) ==
  LET raw == copyout(strides[b], TsOffset, TsSize) IN
    IF Len(raw) = 1 THEN <<"block", raw[1]>> ELSE <<"rxtime">>

\* read_to_field(): a field is copied out whole or not at all.
read_to_field(r) ==
  LET S == strides[Block[r]] IN IF Offset[r] > size(S) THEN <<>> ELSE copyout(S, Offset[r], RegSize)

\* Bytes of v under the record's mask, of w elsewhere.
masked(r, v, w) == [i \in 1..RegSize |-> IF i \in Mask[r] THEN v[i] ELSE w[i]]

\* read_binary(), read_to_val(), read_ai() and read_ai_float().
read(r) ==
  LET raw == read_to_field(r)
      v == Reverse(raw[1]) IN
    /\ shown' = IF Len(raw) = 1
                THEN Flat!Outcome(r, IF Mask[r] = {} THEN v ELSE masked(r, v, [i \in 1..RegSize |-> Zero]),
                                  setRecTimestamp(Block[r]), connected)
                ELSE Flat!Outcome(r, <<>>, <<>>, FALSE)
    /\ UNCHANGED <<strides, connected, reading, steps, stored>>

\* write_from_field() of value v.
write_from_field(r, v) ==
  LET S == strides[Block[r]]
      in == copyin(S, Reverse(v), Offset[r])
      ok == Offset[r] <= size(S) /\ in.ok IN
    /\ strides' = [strides EXCEPT ![Block[r]] = IF Offset[r] <= size(S) THEN in.strides ELSE S]
    /\ shown' = Flat!Outcome(r, <<>>, <<>>, ok /\ connected)
    /\ stored' = [stored EXCEPT ![r] = IF ok THEN v ELSE @]

\* Mutant: the bits of other records are cleared.
write_binary_Clears(r, rval) ==
  IF read_to_field(r) = <<>>
  THEN shown' = Flat!Outcome(r, <<>>, <<>>, FALSE) /\ UNCHANGED <<strides, stored>>
  ELSE write_from_field(r, masked(r, rval, [i \in 1..RegSize |-> Zero]))

\* write_binary() with a mask: reads, changes its bits and writes.
write_binary(r, rval) ==
  IF read_to_field(r) = <<>>
  THEN shown' = Flat!Outcome(r, <<>>, <<>>, FALSE) /\ UNCHANGED <<strides, stored>>
  ELSE write_from_field(r, masked(r, rval, Reverse(read_to_field(r)[1])))

\* The settings: write_binary() or write_from_val(), write_ao(), write_ao_float().
write(r) ==
  /\ steps < MaxSteps
  /\ steps' = steps + 1
  /\ LET rval == Flat!Fresh(steps', RegSize) IN
       IF Mask[r] # {} THEN write_binary(r, rval) ELSE write_from_field(r, rval)
  /\ UNCHANGED <<connected, reading>>

\* read_wf_real(): the elements are copied to the start of the array and then
\* made into doubles where they lie, the last one first.
put(mem, at, bytes) ==
  [i \in DOMAIN mem |-> IF i \in at + 1 .. at + Len(bytes) THEN bytes[i - at] ELSE mem[i]]

\* Mutant: the first element first.
expand_Forward(mem, nelem) ==
  LET raw(b, i) == SubSeq(b, (i - 1) * WfSize + 1, i * WfSize)
      after[i \in 0..nelem] ==
        IF i = 0 THEN mem
        ELSE put(after[i - 1], (i - 1) * DblSize, Flat!double(Reverse(raw(after[i - 1], i)))) IN
    after[nelem]

expand(mem, nelem) ==
  LET raw(b, i) == SubSeq(b, (i - 1) * WfSize + 1, i * WfSize)
      after[i \in 1..nelem + 1] ==   \* the array when elements i and up are done
        IF i > nelem THEN mem
        ELSE put(after[i + 1], (i - 1) * DblSize, Flat!double(Reverse(raw(after[i + 1], i)))) IN
    after[1]

read_wf_real ==
  LET elems == copyout_shape(strides["rx"], WfOffset, WfSize, WfStep - WfSize, WfNelm)
      bptr == expand(put([i \in 1..WfNelm * DblSize |-> Zero], 0, FlattenSeq(elems)), Len(elems)) IN
    /\ shown' = IF connected
                THEN Flat!Outcome("wf", [n \in 1..Len(elems) |->
                                           SubSeq(bptr, (n - 1) * DblSize + 1, n * DblSize)],
                                  setRecTimestamp("rx"), TRUE)
                ELSE Flat!Outcome("wf", <<>>, <<>>, FALSE)
    /\ UNCHANGED <<strides, connected, reading, steps, stored>>

\* read_wf_bytes(): nord is the outcome of copyout(), 0 or 1.
read_wf_bytes ==
  LET bytes == copyout(strides["rx"], BytesOffset, BytesNelm) IN
    /\ shown' = IF connected
                THEN Flat!Outcome("bytes", IF bytes = <<>> THEN <<>> ELSE SubSeq(bytes[1], 1, 1),
                                  setRecTimestamp("rx"), TRUE)
                ELSE Flat!Outcome("bytes", <<>>, <<>>, FALSE)
    /\ UNCHANGED <<strides, connected, reading, steps, stored>>

\* read_si() looks whether there is a connection ...
read_si_begin ==
  /\ reading = "no"
  /\ reading' = IF connected THEN "yes" ELSE "no"
  /\ shown' = IF connected THEN Flat!Nothing ELSE Flat!Outcome("si", <<>>, <<>>, FALSE)
  /\ UNCHANGED <<strides, connected, steps, stored>>

\* ... and has copied the string and the time; bytes that were replaced at the
\* same moment come out whole or as a mixture, bytes of no known origin.
mixture == [val |-> << <<>> >>, time |-> <<"mixture">>]
read_si_end ==
  LET len == Min({size(strides["rx"]), MaxString - 1})
      val == IF SiOffset > len THEN <<>>
             ELSE FlattenSeq(copyout_shape(strides["rx"], SiOffset, len - SiOffset, 0, 1)) IN
    /\ reading # "no"
    /\ reading' = "no"
    /\ \E got \in IF reading = "yes" THEN {val} ELSE {val, mixture.val},
          time \in IF reading = "yes" THEN {setRecTimestamp("rx")}
                   ELSE {setRecTimestamp("rx"), mixture.time} :
         shown' = Flat!Outcome("si", got, time, TRUE)
    /\ UNCHANGED <<strides, connected, steps, stored>>

\* PSCBase::send(): copyout() of all pieces into sendbuf.
send ==
  /\ shown' = Flat!Outcome("send", FlattenSeq(strides["tx"]), <<>>, TRUE)
  /\ UNCHANGED <<strides, connected, reading, steps, stored>>

RegNext ==
  \/ Link \/ read_wf_real \/ read_wf_bytes \/ read_si_begin \/ read_si_end \/ send
  \/ \E n \in Lengths : consume(n) \/ assign(n) \/ resize(n)
  \/ \E r \in Settings : write(r)
  \/ \E r \in Registers \ Settings : read(r)

RegSpec == RegInit /\ [][RegNext]_regvars

----------------------------------------------------------------------------
\* However a message lies in memory, and whatever the sizes and offsets, every
\* record sees and changes bytes that its link names in the message as it was
\* sent: no element comes from the wrong place, is cut, or is overwritten while
\* the array is expanded, and nothing beyond the block is touched.  Two cases
\* are left open, where the code does less than the documentation says: a string
\* that a message overtakes while it is copied (read_si() takes no lock), and how
\* many bytes a waveform of bytes shows (the truth value that copyout() returns).
ImplementsFlat == Flat!Spec

\* The bytes of the block that hold the bits of setting r; no other setting has them.
Own(r) == {Offset[r] + (RegSize + 1 - i) : i \in {j \in 1..RegSize : Mask[r] = {} \/ j \in Mask[r]}}
Alone(r) == \A s \in Settings \ {r} : Own(r) \cap Own(s) = {}

\* A setting keeps its bytes of the block until the record writes again,
\* whatever other records write, those that share its register included.
SettingsKept ==
  \A r \in Settings :
    Alone(r) /\ stored[r] # <<>> =>
      LET v == Reverse(SubSeq(flat[Block[r]], Offset[r] + 1, Offset[r] + RegSize)) IN
        \A i \in 1..RegSize : Mask[r] = {} \/ i \in Mask[r] => v[i] = stored[r][i]
=============================================================================
