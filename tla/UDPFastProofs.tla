--------------------------- MODULE UDPFastProofs ----------------------------
(***************************************************************************)
(* Proofs about the two models of class UDPFast: DataFile for every size,  *)
(* batch and number of packets, and after it UDPFast for every pool, batch *)
(* size and short buffer.                                                  *)
(*                                                                         *)
(* FilesInOrder is not inductive: it says nothing of the packets at hand.  *)
(* InStep does: they are in order, newer than all that is on the disk and  *)
(* no newer than the last arrival.  RecordingHasFile is about the times    *)
(* between turns; RecordingOpens says what holds in the middle of one.     *)
(* NoGaps needs to know which packet is written next (Contiguous): the one *)
(* after the last of the open file or, in an empty file that a rotation    *)
(* has opened, of the file before it.  RotationBounded needs filetotal and *)
(* datatotal to be the size of the open file (CountedInv).                 *)
(*                                                                         *)
(* BuffersConserved needs InprogOnlyWhileStoring: cacheGrab swaps pending  *)
(* with inprog, and only because inprog is empty then does nothing old get *)
(* back into pending.  NoLostWakeup needs to know, besides, that cachefn() *)
(* ends only after running was cleared.                                    *)
(***************************************************************************)
EXTENDS DataFile, UDPFast, TLAPS

\* writev() takes at most what is there.
LEMMA BatchType ==
  Data => /\ batch \in Nat /\ batch <= Len(unwritten) /\ batch <= HeaderCount
          /\ unwritten # <<>> => batch > 0
<1> SUFFICES ASSUME Data PROVE /\ batch \in Nat /\ batch <= Len(unwritten) /\ batch <= HeaderCount
                               /\ unwritten # <<>> => batch > 0
  OBVIOUS
<1>1. Len(unwritten) \in Nat /\ HeaderCount \in Nat
  BY DataFileAssumption DEF Data
<1>2. \E x \in {HeaderCount, Len(unwritten)} : \A y \in {HeaderCount, Len(unwritten)} : x <= y
  BY <1>1
<1>3. batch \in {HeaderCount, Len(unwritten)} /\ \A y \in {HeaderCount, Len(unwritten)} : batch <= y
  BY <1>2 DEF batch, Min
<1>4. unwritten # <<>> => Len(unwritten) > 0 /\ HeaderCount > 0
  BY DataFileAssumption DEF Data
<1> QED
  BY <1>1, <1>3, <1>4

----------------------------------------------------------------------------
\* Types.

LEMMA InitData == FileInit => Data
  BY DataFileAssumption DEF FileInit, Data, Name, NoName, File

\* The files S once file f has got the packets d.
Grown(S, f, d) == [S EXCEPT ![f].data = @ \o d]

\* A file that gets more packets is a file, and the others stay as they are.
LEMMA GrowFile ==
  ASSUME NEW S \in Seq(File), NEW f \in 1..Len(S), NEW d \in Seq(Nat)
  PROVE  /\ Grown(S, f, d) \in Seq(File)
         /\ Len(Grown(S, f, d)) = Len(S)
         /\ \A g \in 1..Len(S) : g # f => Grown(S, f, d)[g] = S[g]
         /\ Grown(S, f, d)[f].data = S[f].data \o d
         /\ Grown(S, f, d)[f].rotated = S[f].rotated
<1> DEFINE G == Grown(S, f, d)
           e == S[f].data \o d
<1>1. S[f] \in File
  OBVIOUS
<1>2. S[f].data \in Seq(Nat)
  BY <1>1 DEF File
<1>3. e \in Seq(Nat)
  BY <1>2
<1>4. [S[f] EXCEPT !.data = e] \in File
  BY <1>1, <1>3 DEF File
<1>5. G = [S EXCEPT ![f] = [S[f] EXCEPT !.data = e]]
  BY Zenon DEF Grown
<1> HIDE DEF G, e
<1>6. G \in Seq(File) /\ Len(G) = Len(S) /\ \A g \in 1..Len(S) : g # f => G[g] = S[g]
  BY <1>4, <1>5
<1>7. G[f] = [S[f] EXCEPT !.data = e]
  BY <1>4, <1>5, SMTT(30)
<1>8. "data" \in DOMAIN S[f] /\ "rotated" \in DOMAIN S[f] /\ "rotated" # "data"
  BY <1>1 DEF File
<1>9. G[f].data = e /\ G[f].rotated = S[f].rotated
  BY <1>7, <1>8, Zenon
<1> QED
  BY <1>6, <1>9, Zenon DEF G, e

\* What writev() does to the files, whether it fails or not.
LEMMA WriteGrows ==
  /\ writev => files' = Grown(files, file, SubSeq(unwritten, 1, batch))
  /\ writev_fails =>
       \E n \in 0..(batch - 1) : files' = Grown(files, file, SubSeq(unwritten, 1, n))
  BY Zenon DEF writev, writev_fails, Grown

LEMMA NextData == Data /\ [FileNext]_filevars => Data'
<1> SUFFICES ASSUME Data, [FileNext]_filevars PROVE Data'
  OBVIOUS
<1> USE DataFileAssumption
<1>1. CASE Tick
  BY <1>1 DEF Tick, Data, steering
<1>2. ASSUME NEW b \in Bases \cup {Unnamed}, set_filebase(b) PROVE Data'
  BY <1>2 DEF set_filebase, Data
<1>3. CASE devudp_reopen
  BY <1>3 DEF devudp_reopen, Data
<1>4. ASSUME NEW val \in BOOLEAN, devudp_set_record(val) PROVE Data'
  BY <1>4 DEF devudp_set_record, Data
<1>5. ASSUME NEW n \in 0..MaxBatch, grab(n) PROVE Data'
  <2>1. unwritten' \in Seq(Nat) /\ arrived' \in Nat
    BY <1>5 DEF grab, Data
  <2> QED
    BY <1>5, <2>1 DEF grab, Data, steering, Name
<1>6. CASE consume
  BY <1>6, SMTT(30) DEF consume, Data, Name, NoName
<1>7. CASE openFile
  <2>1. [name |-> name, data |-> <<>>, rotated |-> file # 0] \in File
    <3>1. name \in Name /\ <<>> \in Seq(Nat) /\ (file # 0) \in BOOLEAN
      BY DEF Data
    <3> QED
      BY <3>1 DEF File
  <2>2. files' \in Seq(File) /\ file' = Len(files')
    BY <1>7, <2>1 DEF openFile, Data
  <2> QED
    BY <1>7, <2>2 DEF openFile, Data, steering, Name, NoName
<1>8. CASE openFile_fails
  BY <1>8 DEF openFile_fails, Data, Name, NoName
<1>9. CASE writev
  <2>1. SubSeq(unwritten, 1, batch) \in Seq(Nat) /\ SubSeq(unwritten, batch + 1, Len(unwritten)) \in Seq(Nat)
    BY BatchType, SMTT(30) DEF Data
  <2>2. file \in 1..Len(files) /\ files \in Seq(File)
    BY <1>9, SMTT(30) DEF writev, Data
  <2>3. files' = Grown(files, file, SubSeq(unwritten, 1, batch))
    BY <1>9, WriteGrows
  <2>4. files' \in Seq(File) /\ Len(files') = Len(files)
    BY <2>1, <2>2, <2>3, GrowFile
  <2>5. datatotal' \in Nat
    BY <1>9, BatchType, SMTT(30) DEF writev, Data
  <2> QED
    BY <1>9, <2>1, <2>4, <2>5 DEF writev, Data, steering
<1>10. CASE writev_fails
  <2>1. PICK n \in 0..(batch - 1) : files' = Grown(files, file, SubSeq(unwritten, 1, n))
    BY <1>10, WriteGrows
  <2>2. SubSeq(unwritten, 1, n) \in Seq(Nat)
    BY BatchType DEF Data
  <2>0. file \in 1..Len(files) /\ files \in Seq(File)
    BY <1>10, SMTT(30) DEF writev_fails, Data
  <2>3. files' \in Seq(File) /\ Len(files') = Len(files)
    BY <2>0, <2>1, <2>2, GrowFile
  <2> QED
    BY <1>10, <2>3, BatchType, SMTT(30) DEF writev_fails, Data
<1>11. CASE written
  BY <1>11 DEF written, Data, steering
<1>12. CASE UNCHANGED filevars
  BY <1>12 DEF filevars, Data, steering
<1> QED
  BY <1>1, <1>2, <1>3, <1>4, <1>5, <1>6, <1>7, <1>8, <1>9, <1>10, <1>11, <1>12 DEF FileNext, cachefn_file

\* The variables of DataFile keep their types.
THEOREM SpecData == FileSpec => []Data
  BY InitData, NextData, PTL DEF FileSpec

----------------------------------------------------------------------------
\* RecordingHasFile

\* Recording that owes no new file has one, or is about to open it.
RecordingOpens == stage # "open" /\ record /\ ~reopen => file # 0

LEMMA NextRecordingOpens == Data /\ RecordingOpens /\ [FileNext]_filevars => RecordingOpens'
<1> SUFFICES ASSUME Data, RecordingOpens, [FileNext]_filevars PROVE RecordingOpens'
  OBVIOUS
<1> USE DEF RecordingOpens
<1>1. CASE Tick
  BY <1>1 DEF Tick, steering
<1>2. ASSUME NEW b \in Bases \cup {Unnamed}, set_filebase(b) PROVE RecordingOpens'
  BY <1>2 DEF set_filebase
<1>3. CASE devudp_reopen
  BY <1>3 DEF devudp_reopen
<1>4. ASSUME NEW val \in BOOLEAN, devudp_set_record(val) PROVE RecordingOpens'
  BY <1>4 DEF devudp_set_record
<1>5. ASSUME NEW n \in 0..MaxBatch, grab(n) PROVE RecordingOpens'
  BY <1>5 DEF grab, steering
<1>6. CASE consume
  BY <1>6 DEF consume
<1>7. CASE openFile
  <2>1. Len(files') = Len(files) + 1 /\ Len(files) \in Nat
    BY <1>7 DEF openFile, Data
  <2> QED
    BY <1>7, <2>1 DEF openFile
<1>8. CASE openFile_fails
  BY <1>8 DEF openFile_fails
<1>9. CASE writev
  BY <1>9 DEF writev, steering
<1>10. CASE writev_fails
  BY <1>10 DEF writev_fails
<1>11. CASE written
  BY <1>11 DEF written, steering
<1>12. CASE UNCHANGED filevars
  BY <1>12 DEF filevars, steering
<1> QED
  BY <1>1, <1>2, <1>3, <1>4, <1>5, <1>6, <1>7, <1>8, <1>9, <1>10, <1>11, <1>12 DEF FileNext, cachefn_file

\* Between turns of cachefn() recording that owes no new file has one open,
\* however opens and writes fail and records interfere.
THEOREM SpecRecordingHasFile == FileSpec => []RecordingHasFile
<1>1. FileInit => RecordingOpens
  BY DEF FileInit, RecordingOpens
<1>2. RecordingOpens => RecordingHasFile
  BY DEF RecordingOpens, RecordingHasFile
<1> QED
  BY <1>1, <1>2, InitData, NextData, NextRecordingOpens, PTL DEF FileSpec

----------------------------------------------------------------------------
\* FilesInOrder

\* The packets on the disk have arrived, and are older than those at hand
\* unless these are to be forgotten, because their file is closed.
DiskArrived ==
  \A f \in 1..Len(files) : \A i \in 1..Len(files[f].data) : files[f].data[i] <= arrived
DiskOlder ==
  file # 0 \/ stage # "write" =>
    \A f \in 1..Len(files) : \A i \in 1..Len(files[f].data) : \A k \in 1..Len(unwritten) :
      files[f].data[i] < unwritten[k]

\* The packets at hand have arrived and are in order.
HandInOrder ==
  /\ \A k \in 1..Len(unwritten) : unwritten[k] <= arrived
  /\ \A k, l \in 1..Len(unwritten) : k < l => unwritten[k] < unwritten[l]

InStep == FilesInOrder /\ DiskArrived /\ DiskOlder /\ HandInOrder

\* A file holds packets.
LEMMA FileData ==
  ASSUME NEW S \in Seq(File), NEW f \in 1..Len(S)
  PROVE  /\ S[f].data \in Seq(Nat)
         /\ \A i \in 1..Len(S[f].data) : S[f].data[i] \in Nat
<1>1. S[f] \in File
  OBVIOUS
<1>2. S[f].data \in Seq(Nat)
  BY <1>1 DEF File
<1> QED
  BY <1>2

\* What a file holds that has grown: what it held, and what was added.
LEMMA GrownData ==
  ASSUME NEW old \in Seq(Nat), NEW d \in Seq(Nat), NEW i \in 1..Len(old \o d)
  PROVE  \/ i \in 1..Len(old) /\ (old \o d)[i] = old[i]
         \/ /\ i > Len(old) /\ i - Len(old) \in 1..Len(d)
            /\ (old \o d)[i] = d[i - Len(old)]
<1>1. i \in 1..(Len(old) + Len(d)) /\ Len(old) \in Nat /\ Len(d) \in Nat
  OBVIOUS
<1>2. CASE i <= Len(old)
  BY <1>1, <1>2
<1>3. CASE i > Len(old)
  BY <1>1, <1>3
<1> QED
  BY <1>1, <1>2, <1>3

\* The first n packets at hand go to the end of the open file.
LEMMA GrowInOrder ==
  ASSUME Data, InStep, stage = "write", file # 0, NEW n \in 0..Len(unwritten),
         files' = Grown(files, file, SubSeq(unwritten, 1, n))
  PROVE  /\ FilesInOrder'
         /\ \A f \in 1..Len(files') : \A i \in 1..Len(files'[f].data) :
              /\ files'[f].data[i] <= arrived
              /\ \A k \in (n + 1)..Len(unwritten) : files'[f].data[i] < unwritten[k]
<1> DEFINE old == files[file].data
           d == SubSeq(unwritten, 1, n)
           Old(f, i) == i \in 1..Len(files[f].data) /\ files'[f].data[i] = files[f].data[i]
           New(f, i) == /\ f = file /\ i > Len(old) /\ i - Len(old) \in 1..n
                        /\ files'[f].data[i] = unwritten[i - Len(old)]
<1>1. files \in Seq(File) /\ file \in 1..Len(files) /\ file = Len(files) /\ unwritten \in Seq(Nat)
  BY DEF Data
<1>2. d \in Seq(Nat) /\ Len(d) = n /\ \A m \in 1..n : d[m] = unwritten[m]
  BY <1>1
<1>3. /\ Len(files') = Len(files)
      /\ \A g \in 1..Len(files) : g # file => files'[g] = files[g]
      /\ files'[file].data = files[file].data \o d
  <2>1. files' = Grown(files, file, d)
    OBVIOUS
  <2>2. files \in Seq(File) /\ file \in 1..Len(files) /\ d \in Seq(Nat)
    BY <1>1, <1>2
  <2> HIDE DEF d
  <2>3. /\ Len(Grown(files, file, d)) = Len(files)
        /\ \A g \in 1..Len(files) : g # file => Grown(files, file, d)[g] = files[g]
        /\ Grown(files, file, d)[file].data = files[file].data \o d
        /\ Grown(files, file, d)[file].rotated = files[file].rotated
    BY <2>2, GrowFile
  <2> QED
    BY <2>1, <2>3, Zenon
<1>4. old \in Seq(Nat) /\ Len(old) \in Nat /\ arrived \in Nat
  BY <1>1, FileData DEF Data
<1> HIDE DEF d
<1>5. ASSUME NEW f \in 1..Len(files'), NEW i \in 1..Len(files'[f].data)
      PROVE  Old(f, i) \/ New(f, i)
  <2>1. CASE f # file
    BY <1>3, <1>5, <2>1
  <2>2. CASE f = file
    <3>1. i \in 1..Len(old \o d) /\ files'[f].data[i] = (old \o d)[i]
      BY <1>3, <1>5, <2>2
    <3>2. \/ i \in 1..Len(old) /\ (old \o d)[i] = old[i]
          \/ /\ i > Len(old) /\ i - Len(old) \in 1..Len(d)
             /\ (old \o d)[i] = d[i - Len(old)]
      <4> HIDE DEF old
      <4> QED
        BY <1>2, <1>4, <3>1, GrownData
    <3> QED
      BY <1>2, <2>2, <3>1, <3>2
  <2> QED
    BY <2>1, <2>2
<1>6. \A k \in 1..Len(unwritten) : unwritten[k] \in Nat
  BY <1>1
<1>7. \A f \in 1..Len(files) : \A i \in 1..Len(files[f].data) : files[f].data[i] \in Nat
  BY <1>1, FileData
<1>8. ASSUME NEW f \in 1..Len(files'), NEW i \in 1..Len(files'[f].data)
      PROVE  /\ files'[f].data[i] <= arrived
             /\ \A k \in (n + 1)..Len(unwritten) : files'[f].data[i] < unwritten[k]
  <2>1. CASE Old(f, i)
    BY <1>3, <1>8, <2>1 DEF InStep, DiskArrived, DiskOlder
  <2>2. CASE New(f, i)
    <3>1. PICK m \in 1..n : files'[f].data[i] = unwritten[m]
      BY <2>2
    <3>2. m \in 1..Len(unwritten) /\ \A k \in (n + 1)..Len(unwritten) : k \in 1..Len(unwritten) /\ m < k
      BY <1>1
    <3> QED
      BY <3>1, <3>2 DEF InStep, HandInOrder
  <2> QED
    BY <1>5, <2>1, <2>2
<1>9. ASSUME NEW f \in 1..Len(files'), NEW g \in 1..Len(files'),
             NEW i \in 1..Len(files'[f].data), NEW j \in 1..Len(files'[g].data),
             f < g \/ (f = g /\ i < j)
      PROVE  files'[f].data[i] < files'[g].data[j]
  <2>1. CASE Old(f, i) /\ Old(g, j)
    BY <1>3, <1>9, <2>1 DEF InStep, FilesInOrder
  <2>2. CASE Old(f, i) /\ New(g, j)
    <3>1. PICK m \in 1..n : files'[g].data[j] = unwritten[m]
      BY <2>2
    <3>2. m \in 1..Len(unwritten)
      BY <1>1
    <3> QED
      BY <1>3, <1>9, <2>2, <3>1, <3>2 DEF InStep, DiskOlder
  <2>3. CASE New(f, i) /\ Old(g, j)
    <3>1. f = g /\ i < j
      BY <1>1, <1>3, <1>9, <2>3
    <3> QED
      BY <1>4, <2>3, <3>1
  <2>4. CASE New(f, i) /\ New(g, j)
    <3>1. i < j
      BY <1>1, <1>9, <2>4
    <3>2. i - Len(old) < j - Len(old)
      BY <1>4, <2>4, <3>1
    <3>3. i - Len(old) \in 1..Len(unwritten) /\ j - Len(old) \in 1..Len(unwritten)
      <4>1. \A m \in 1..n : m \in 1..Len(unwritten)
        BY <1>1
      <4> QED
        BY <2>4, <4>1, Zenon
    <3> QED
      BY <2>4, <3>2, <3>3 DEF InStep, HandInOrder
  <2> QED
    BY <1>5, <2>1, <2>2, <2>3, <2>4
<1> QED
  BY <1>8, <1>9 DEF FilesInOrder

\* Steps that leave the packets where they are.
LEMMA SameInStep ==
  ASSUME InStep, UNCHANGED <<files, unwritten, arrived>>,
         file' # 0 \/ stage' # "write" => file # 0 \/ stage # "write"
  PROVE  InStep'
  BY SMTT(30) DEF InStep, FilesInOrder, DiskArrived, DiskOlder, HandInOrder

LEMMA NextInStep == Data /\ InStep /\ [FileNext]_filevars => InStep'
<1> SUFFICES ASSUME Data, InStep, [FileNext]_filevars PROVE InStep'
  OBVIOUS
<1>1. CASE Tick
  BY <1>1, SameInStep DEF Tick
<1>2. ASSUME NEW b \in Bases \cup {Unnamed}, set_filebase(b) PROVE InStep'
  BY <1>2, SameInStep DEF set_filebase
<1>3. CASE devudp_reopen
  BY <1>3, SameInStep DEF devudp_reopen
<1>4. ASSUME NEW val \in BOOLEAN, devudp_set_record(val) PROVE InStep'
  BY <1>4, SameInStep DEF devudp_set_record
<1>5. ASSUME NEW n \in 0..MaxBatch, grab(n) PROVE InStep'
  <2>1. /\ files' = files /\ arrived \in Nat /\ arrived' = arrived + n /\ n \in Nat
        /\ Len(unwritten') = n /\ \A k \in 1..n : unwritten'[k] = arrived + k
    BY <1>5, DataFileAssumption DEF grab, Data
  <2>2. FilesInOrder'
    BY <2>1, SMTT(30) DEF InStep, FilesInOrder
  <2>3. \A f \in 1..Len(files) : \A i \in 1..Len(files[f].data) :
          files[f].data[i] \in Nat /\ files[f].data[i] <= arrived
    BY FileData DEF Data, InStep, DiskArrived
  <2>4. DiskArrived'
    BY <2>1, <2>3 DEF DiskArrived
  <2>5. DiskOlder'
    BY <2>1, <2>3 DEF DiskOlder
  <2>6. HandInOrder'
    BY <2>1 DEF HandInOrder
  <2> QED
    BY <2>2, <2>4, <2>5, <2>6 DEF InStep
<1>6. CASE consume
  BY <1>6, SameInStep DEF consume
<1>7. CASE openFile
  <2>1. /\ Len(files) \in Nat /\ Len(files') = Len(files) + 1
        /\ \A f \in 1..Len(files) : files'[f] = files[f]
        /\ files'[Len(files) + 1].data = <<>>
    BY <1>7 DEF openFile, Data
  <2>2. ASSUME NEW f \in 1..Len(files'), NEW i \in 1..Len(files'[f].data)
        PROVE  f \in 1..Len(files) /\ files'[f] = files[f] /\ i \in 1..Len(files[f].data)
    <3>1. CASE f \in 1..Len(files)
      BY <2>1, <2>2, <3>1
    <3>2. CASE f = Len(files) + 1
      BY <2>1, <2>2, <3>2
    <3> QED
      BY <2>1, <3>1, <3>2
  <2>3. FilesInOrder'
    BY <2>2 DEF InStep, FilesInOrder
  <2>4. unwritten' = unwritten /\ arrived' = arrived /\ stage = "open"
    BY <1>7 DEF openFile
  <2>5. DiskArrived'
    BY <2>2, <2>4 DEF InStep, DiskArrived
  <2>6. DiskOlder'
    BY <2>2, <2>4 DEF InStep, DiskOlder
  <2>7. HandInOrder'
    BY <2>4 DEF InStep, HandInOrder
  <2> QED
    BY <2>3, <2>5, <2>6, <2>7 DEF InStep
<1>8. CASE openFile_fails
  BY <1>8, SameInStep DEF openFile_fails
<1>9. CASE writev
  <2>1. batch \in 0..Len(unwritten) /\ unwritten \in Seq(Nat) /\ Len(unwritten) \in Nat
    BY BatchType DEF Data
  <2>2. /\ FilesInOrder'
        /\ \A f \in 1..Len(files') : \A i \in 1..Len(files'[f].data) :
             /\ files'[f].data[i] <= arrived
             /\ \A k \in (batch + 1)..Len(unwritten) : files'[f].data[i] < unwritten[k]
    BY <1>9, <2>1, WriteGrows, GrowInOrder DEF writev
  <2>3. unwritten' = SubSeq(unwritten, batch + 1, Len(unwritten)) /\ arrived' = arrived
    BY <1>9 DEF writev
  <2>4. /\ Len(unwritten') = Len(unwritten) - batch
        /\ \A k \in 1..Len(unwritten') : unwritten'[k] = unwritten[batch + k]
    BY <2>1, <2>3
  <2>5. \A k \in 1..Len(unwritten') : batch + k \in (batch + 1)..Len(unwritten) /\ batch + k \in 1..Len(unwritten)
    BY <2>1, <2>4
  <2>6. DiskArrived' /\ DiskOlder'
    BY <2>2, <2>3, <2>4, <2>5 DEF DiskArrived, DiskOlder
  <2>7. HandInOrder'
    <3>1. \A k \in 1..Len(unwritten') : unwritten'[k] <= arrived'
      BY <2>3, <2>4, <2>5 DEF InStep, HandInOrder
    <3>2. ASSUME NEW k \in 1..Len(unwritten'), NEW l \in 1..Len(unwritten'), k < l
          PROVE  unwritten'[k] < unwritten'[l]
      <4>1. batch + k < batch + l
        BY <2>1, <3>2
      <4> QED
        BY <2>4, <2>5, <3>2, <4>1 DEF InStep, HandInOrder
    <3> QED
      BY <3>1, <3>2 DEF HandInOrder
  <2> QED
    BY <2>2, <2>6, <2>7 DEF InStep
<1>10. CASE writev_fails
  <2>1. PICK n \in 0..(batch - 1) : files' = Grown(files, file, SubSeq(unwritten, 1, n))
    BY <1>10, WriteGrows
  <2>2. n \in 0..Len(unwritten)
    BY BatchType DEF Data
  <2>3. /\ FilesInOrder'
        /\ \A f \in 1..Len(files') : \A i \in 1..Len(files'[f].data) : files'[f].data[i] <= arrived
    BY <1>10, <2>1, <2>2, GrowInOrder DEF writev_fails
  <2>4. unwritten' = unwritten /\ arrived' = arrived /\ file' = 0 /\ stage' = "write"
    BY <1>10 DEF writev_fails
  <2> QED
    BY <2>3, <2>4 DEF InStep, DiskArrived, DiskOlder, HandInOrder
<1>11. CASE written
  <2>1. files' = files /\ arrived' = arrived /\ unwritten' = <<>> /\ Len(unwritten') = 0
    BY <1>11 DEF written
  <2> QED
    BY <2>1 DEF InStep, FilesInOrder, DiskArrived, DiskOlder, HandInOrder
<1>12. CASE UNCHANGED filevars
  BY <1>12, SameInStep DEF filevars
<1> QED
  BY <1>1, <1>2, <1>3, <1>4, <1>5, <1>6, <1>7, <1>8, <1>9, <1>10, <1>11, <1>12 DEF FileNext, cachefn_file

\* The data files hold packets in the order of arrival and none twice, across
\* rotations, reopening and failed writes, for any sizes and any number of
\* packets.
THEOREM SpecFilesInOrder == FileSpec => []FilesInOrder
<1>1. FileInit => InStep
  BY DEF FileInit, InStep, FilesInOrder, DiskArrived, DiskOlder, HandInOrder
<1>2. InStep => FilesInOrder
  BY DEF InStep
<1> QED
  BY <1>1, <1>2, InitData, NextData, NextInStep, PTL DEF FileSpec

----------------------------------------------------------------------------
\* NoGaps

\* Each packet is the one after the packet before.
GapFree(s) == \A k \in 1..(Len(s) - 1) : s[k + 1] = s[k] + 1

LEMMA JoinGapFree ==
  ASSUME NEW s \in Seq(Nat), NEW t \in Seq(Nat), GapFree(s), GapFree(t),
         s # <<>> /\ t # <<>> => t[1] = s[Len(s)] + 1
  PROVE  GapFree(s \o t)
<1> DEFINE a == s \o t
<1>1. /\ Len(a) = Len(s) + Len(t) /\ Len(s) \in Nat /\ Len(t) \in Nat
      /\ \A i \in 1..Len(s) : a[i] = s[i]
      /\ \A i \in 1..Len(t) : a[i + Len(s)] = t[i]
  OBVIOUS
<1>2. (Len(s) > 0 => s # <<>>) /\ (Len(t) > 0 => t # <<>>)
  OBVIOUS
<1> HIDE DEF a
<1>3. ASSUME NEW k \in 1..(Len(a) - 1) PROVE a[k + 1] = a[k] + 1
  <2>1. CASE k < Len(s)
    <3>1. k \in 1..(Len(s) - 1) /\ a[k] = s[k] /\ a[k + 1] = s[k + 1]
      BY <1>1, <2>1
    <3> QED
      BY <3>1 DEF GapFree
  <2>2. CASE k = Len(s)
    <3>1. a[k] = s[Len(s)] /\ a[1 + Len(s)] = t[1] /\ Len(s) > 0 /\ Len(t) > 0
      BY <1>1, <2>2
    <3>2. k + 1 = 1 + Len(s)
      BY <1>1, <2>2
    <3> QED
      BY <1>2, <3>1, <3>2
  <2>3. CASE k > Len(s)
    <3>1. k - Len(s) \in 1..(Len(t) - 1) /\ k = (k - Len(s)) + Len(s)
      BY <1>1, <2>3
    <3>2. PICK j \in 1..(Len(t) - 1) : k = j + Len(s)
      BY <3>1
    <3>3. j \in 1..Len(t) /\ j + 1 \in 1..Len(t) /\ k + 1 = (j + 1) + Len(s)
      BY <1>1, <3>2
    <3>4. a[k] = t[j] /\ a[k + 1] = t[j + 1]
      BY <1>1, <3>2, <3>3
    <3> QED
      BY <3>2, <3>4 DEF GapFree
  <2> QED
    BY <1>1, <2>1, <2>2, <2>3
<1> QED
  BY <1>3 DEF GapFree, a

\* The ends of s followed by t.
LEMMA JoinEnds ==
  ASSUME NEW s \in Seq(Nat), NEW t \in Seq(Nat)
  PROVE  /\ s # <<>> => s \o t # <<>> /\ (s \o t)[1] = s[1]
         /\ s = <<>> => s \o t = t
         /\ t # <<>> => s \o t # <<>> /\ (s \o t)[Len(s \o t)] = t[Len(t)]
<1>1. CASE s = <<>>
  BY <1>1
<1>2. CASE t = <<>>
  BY <1>2
<1>3. CASE s # <<>> /\ t # <<>>
  <2>1. Len(s \o t) = Len(s) + Len(t) /\ Len(s) \in Nat \ {0} /\ Len(t) \in Nat \ {0}
    BY <1>3
  <2>2. (s \o t)[1] = s[1] /\ (s \o t)[Len(s) + Len(t)] = t[Len(t)]
    BY <2>1
  <2> QED
    BY <1>3, <2>1, <2>2
<1> QED
  BY <1>1, <1>2, <1>3

\* The first n packets at hand, and the others.
LEMMA CutGapFree ==
  ASSUME NEW s \in Seq(Nat), GapFree(s), NEW n \in 0..Len(s)
  PROVE  GapFree(SubSeq(s, 1, n)) /\ GapFree(SubSeq(s, n + 1, Len(s)))
<1> DEFINE a == SubSeq(s, 1, n)
           b == SubSeq(s, n + 1, Len(s))
<1>1. /\ Len(a) = n /\ Len(b) = Len(s) - n /\ Len(s) \in Nat
      /\ \A k \in 1..n : a[k] = s[k]
      /\ \A k \in 1..(Len(s) - n) : b[k] = s[n + k]
  OBVIOUS
<1> HIDE DEF a, b
<1>2. ASSUME NEW k \in 1..(Len(a) - 1) PROVE a[k + 1] = a[k] + 1
  <2>1. k \in 1..(Len(s) - 1) /\ a[k] = s[k] /\ a[k + 1] = s[k + 1]
    BY <1>1
  <2> QED
    BY <2>1 DEF GapFree
<1>3. ASSUME NEW k \in 1..(Len(b) - 1) PROVE b[k + 1] = b[k] + 1
  <2>1. /\ n + k \in 1..(Len(s) - 1) /\ (n + k) + 1 = n + (k + 1)
        /\ k \in 1..(Len(s) - n) /\ k + 1 \in 1..(Len(s) - n)
    BY <1>1
  <2>2. b[k] = s[n + k] /\ b[k + 1] = s[(n + k) + 1]
    BY <1>1, <2>1
  <2> QED
    BY <2>1, <2>2 DEF GapFree
<1> QED
  BY <1>2, <1>3 DEF GapFree, a, b

\* The packets at hand are the last that have arrived; there is none between
\* turns.
HandGapFree ==
  /\ GapFree(unwritten)
  /\ unwritten # <<>> => unwritten[Len(unwritten)] = arrived
  /\ stage = "wait" => unwritten = <<>>

\* The packet to be written next.
Following == IF unwritten = <<>> THEN arrived + 1 ELSE unwritten[1]

\* The open file will go on without a gap, or the file before it, when it is
\* still empty and was opened by a rotation.
OpenFollows ==
  file # 0 /\ files[file].data # <<>> => Following = Last(files[file].data) + 1
RotationFollows ==
  file # 0 /\ files[file].data = <<>> /\ files[file].rotated /\ files[file - 1].data # <<>> =>
    Following = Last(files[file - 1].data) + 1

\* The first file was not opened by a rotation.
RotatedIsLater == \A i \in 1..Len(files) : files[i].rotated => i > 1

Contiguous == NoGaps /\ HandGapFree /\ OpenFollows /\ RotationFollows /\ RotatedIsLater

\* Steps that leave the packets where they are.
LEMMA SameContiguous ==
  ASSUME Contiguous, UNCHANGED <<files, unwritten, arrived>>, file' \in {0, file},
         stage' = "wait" => unwritten = <<>>
  PROVE  Contiguous'
<1>1. NoGaps' /\ RotatedIsLater'
  BY Zenon DEF Contiguous, NoGaps, RotatedIsLater
<1>2. HandGapFree'
  BY DEF Contiguous, HandGapFree
<1>3. Following' = Following
  BY DEF Following
<1>4. OpenFollows' /\ RotationFollows'
  <2>1. CASE file' = 0
    BY <2>1, Zenon DEF OpenFollows, RotationFollows
  <2>2. CASE file' = file
    BY <1>3, <2>2, Zenon DEF Contiguous, OpenFollows, RotationFollows
  <2> QED
    BY <2>1, <2>2
<1> QED
  BY <1>1, <1>2, <1>4, Zenon DEF Contiguous

\* The first n packets at hand go to the end of the open file.
LEMMA GrowContiguous ==
  ASSUME Data, Contiguous, file # 0, unwritten # <<>>, NEW n \in 0..Len(unwritten),
         files' = Grown(files, file, SubSeq(unwritten, 1, n))
  PROVE  /\ NoGaps' /\ RotatedIsLater'
         /\ n > 0 => /\ files'[file].data # <<>>
                     /\ Last(files'[file].data) = unwritten[n]
<1> DEFINE old == files[file].data
           d == SubSeq(unwritten, 1, n)
<1>1. files \in Seq(File) /\ file \in 1..Len(files) /\ file = Len(files) /\ unwritten \in Seq(Nat)
  BY DEF Data
<1>2. d \in Seq(Nat) /\ Len(d) = n /\ \A m \in 1..n : d[m] = unwritten[m]
  BY <1>1
<1>3. GapFree(d)
  BY <1>1, CutGapFree DEF Contiguous, HandGapFree
<1>4. /\ Len(files') = Len(files)
      /\ \A g \in 1..Len(files) : g # file => files'[g] = files[g]
      /\ files'[file].data = old \o d
      /\ files'[file].rotated = files[file].rotated
  <2>1. files' = Grown(files, file, d)
    OBVIOUS
  <2>2. files \in Seq(File) /\ file \in 1..Len(files) /\ d \in Seq(Nat)
    BY <1>1, <1>2
  <2> HIDE DEF d
  <2>3. /\ Len(Grown(files, file, d)) = Len(files)
        /\ \A g \in 1..Len(files) : g # file => Grown(files, file, d)[g] = files[g]
        /\ Grown(files, file, d)[file].data = files[file].data \o d
        /\ Grown(files, file, d)[file].rotated = files[file].rotated
    BY <2>2, GrowFile
  <2> QED
    BY <2>1, <2>3, Zenon
<1>5. old \in Seq(Nat)
  BY <1>1, FileData
<1>6. Following = unwritten[1]
  BY DEF Following
<1>7. n > 0 => d # <<>> /\ d[1] = unwritten[1] /\ d[Len(d)] = unwritten[n]
  BY <1>1, <1>2
<1>8. n = 0 => d = <<>>
  BY <1>2
<1> HIDE DEF d
<1>9. GapFree(old) /\ (old # <<>> => unwritten[1] = old[Len(old)] + 1)
  <2>1. GapFree(old)
    BY <1>1 DEF Contiguous, NoGaps, GapFree
  <2>2. old # <<>> => unwritten[1] = old[Len(old)] + 1
    BY <1>6 DEF Contiguous, OpenFollows, Last
  <2> QED
    BY <2>1, <2>2
<1> HIDE DEF old
<1>10. GapFree(old \o d)
  <2>1. old # <<>> /\ d # <<>> => d[1] = old[Len(old)] + 1
    BY <1>7, <1>8, <1>9
  <2> QED
    BY <1>2, <1>3, <1>5, <1>9, <2>1, JoinGapFree
<1>11. /\ old # <<>> => old \o d # <<>> /\ (old \o d)[1] = old[1]
       /\ old = <<>> => old \o d = d
       /\ d # <<>> => old \o d # <<>> /\ (old \o d)[Len(old \o d)] = d[Len(d)]
  BY <1>2, <1>5, JoinEnds
<1>12. RotatedIsLater'
  <2>1. ASSUME NEW i \in 1..Len(files), files'[i].rotated PROVE files[i].rotated
    <3>1. files'[i].rotated = files[i].rotated
      BY <1>4, Zenon
    <3> QED
      BY <2>1, <3>1
  <2> QED
    BY <1>4, <2>1 DEF Contiguous, RotatedIsLater
<1>13. ASSUME NEW i \in 1..Len(files') PROVE GapFree(files'[i].data)
  <2>1. CASE i = file
    BY <1>4, <1>10, <2>1
  <2>2. CASE i # file
    BY <1>4, <2>2 DEF Contiguous, NoGaps, GapFree
  <2> QED
    BY <2>1, <2>2
<1>14. ASSUME NEW i \in 1..Len(files'), files'[i].rotated, files'[i].data # <<>>,
              files'[i - 1].data # <<>>
       PROVE  files'[i].data[1] = Last(files'[i - 1].data) + 1
  <2>1. i > 1
    BY <1>12, <1>14 DEF RotatedIsLater
  <2>2. i - 1 \in 1..Len(files) /\ i - 1 # file /\ i \in 1..Len(files)
    BY <1>1, <1>4, <2>1
  <2>3. files'[i - 1] = files[i - 1]
    BY <1>4, <2>2
  <2>4. CASE i # file
    <3>1. files'[i] = files[i]
      BY <1>4, <2>2, <2>4
    <3> QED
      BY <1>14, <2>2, <2>3, <3>1 DEF Contiguous, NoGaps
  <2>5. CASE i = file
    <3>1. files[file].rotated /\ files[file - 1].data # <<>>
      BY <1>4, <1>14, <2>3, <2>5
    <3>2. CASE old = <<>>
      <4>1. d # <<>> /\ files'[i].data = d
        BY <1>4, <1>11, <1>14, <2>5, <3>2
      <4>2. unwritten[1] = Last(files[file - 1].data) + 1
        BY <1>6, <3>1, <3>2 DEF Contiguous, RotationFollows, old
      <4>3. d[1] = unwritten[1]
        BY <1>2, <1>7, <1>8, <4>1
      <4> QED
        BY <2>3, <2>5, <4>1, <4>2, <4>3
    <3>3. CASE old # <<>>
      <4>1. files'[i].data[1] = old[1]
        BY <1>4, <1>11, <2>5, <3>3
      <4>2. old[1] = Last(files[file - 1].data) + 1
        BY <1>1, <3>1, <3>3 DEF Contiguous, NoGaps, old
      <4> QED
        BY <2>3, <2>5, <4>1, <4>2
    <3> QED
      BY <3>2, <3>3
  <2> QED
    BY <2>4, <2>5
<1>15. NoGaps'
  BY <1>13, <1>14 DEF NoGaps, GapFree
<1>16. n > 0 => files'[file].data # <<>> /\ Last(files'[file].data) = unwritten[n]
  BY <1>4, <1>7, <1>11 DEF Last
<1> QED
  BY <1>12, <1>15, <1>16

LEMMA NextContiguous == Data /\ Data' /\ Contiguous /\ [FileNext]_filevars => Contiguous'
<1> SUFFICES ASSUME Data, Data', Contiguous, [FileNext]_filevars PROVE Contiguous'
  OBVIOUS
<1>1. NoGaps /\ HandGapFree /\ OpenFollows /\ RotationFollows /\ RotatedIsLater
  BY DEF Contiguous
<1>2. CASE Tick
  BY <1>1, <1>2, SameContiguous, Zenon DEF Tick, HandGapFree
<1>3. ASSUME NEW b \in Bases \cup {Unnamed}, set_filebase(b) PROVE Contiguous'
  BY <1>1, <1>3, SameContiguous, Zenon DEF set_filebase, HandGapFree
<1>4. CASE devudp_reopen
  BY <1>1, <1>4, SameContiguous, Zenon DEF devudp_reopen, HandGapFree
<1>5. ASSUME NEW val \in BOOLEAN, devudp_set_record(val) PROVE Contiguous'
  BY <1>1, <1>5, SameContiguous, Zenon DEF devudp_set_record, HandGapFree
<1>6. ASSUME NEW n \in 0..MaxBatch, grab(n) PROVE Contiguous'
  <2>1. /\ files' = files /\ file' = file /\ arrived \in Nat /\ arrived' = arrived + n /\ n \in Nat
        /\ unwritten' = [i \in 1..n |-> arrived + i] /\ stage' = "consume" /\ unwritten = <<>>
    BY <1>1, <1>6, DataFileAssumption DEF grab, Data, HandGapFree
  <2>2. Len(unwritten') = n /\ \A k \in 1..n : unwritten'[k] = arrived + k
    BY <2>1
  <2>3. unwritten' \in Seq(Nat)
    BY DEF Data
  <2>4. HandGapFree'
    <3>1. GapFree(unwritten')
      BY <2>1, <2>2 DEF GapFree
    <3>2. unwritten' # <<>> => unwritten'[Len(unwritten')] = arrived'
      BY <2>1, <2>2, <2>3
    <3> QED
      BY <2>1, <3>1, <3>2 DEF HandGapFree
  <2>5. Following' = Following
    <3>1. CASE n = 0
      BY <2>1, <2>2, <2>3, <3>1 DEF Following
    <3>2. CASE n > 0
      <4>1. unwritten' # <<>> /\ unwritten'[1] = arrived + 1
        BY <2>1, <2>2, <2>3, <3>2
      <4> QED
        BY <2>1, <4>1 DEF Following
    <3> QED
      BY <2>1, <3>1, <3>2
  <2>6. NoGaps' /\ RotatedIsLater' /\ OpenFollows' /\ RotationFollows'
    BY <1>1, <2>1, <2>5, Zenon DEF NoGaps, RotatedIsLater, OpenFollows, RotationFollows
  <2> QED
    BY <2>4, <2>6 DEF Contiguous
<1>7. CASE consume
  <2>1. UNCHANGED <<files, unwritten, arrived>> /\ file' \in {0, file}
    BY <1>7 DEF consume
  <2>2. stage' = "wait" => unwritten = <<>>
    BY <1>7 DEF consume
  <2> QED
    BY <2>1, <2>2, SameContiguous
<1>8. CASE openFile
  <2> DEFINE new == [name |-> name, data |-> <<>>, rotated |-> file # 0]
             l == Len(files)
  <2>1. /\ unwritten' = unwritten /\ arrived' = arrived /\ file' = Len(files') /\ stage' = "write"
        /\ files' = Append(files, new) /\ files \in Seq(File) /\ file \in {0, l} /\ l \in Nat
    BY <1>8 DEF openFile, Data
  <2>2. new.data = <<>> /\ (new.rotated <=> file # 0)
    BY Zenon
  <2> HIDE DEF new
  <2>3. Len(files') = l + 1 /\ files'[l + 1] = new /\ \A i \in 1..l : files'[i] = files[i]
    BY <2>1
  <2> HIDE DEF l
  <2>4. HandGapFree'
    BY <1>1, <2>1 DEF HandGapFree
  <2>5. Following' = Following
    BY <2>1 DEF Following
  <2>6. file # 0 => l >= 1 /\ file = l
    BY <2>1
  <2>7. RotatedIsLater'
    <3> SUFFICES ASSUME NEW i \in 1..(l + 1), files'[i].rotated PROVE i > 1
      BY <2>3 DEF RotatedIsLater
    <3>1. CASE i = l + 1
      BY <2>1, <2>2, <2>3, <2>6, <3>1
    <3>2. CASE i \in 1..l
      BY <1>1, <2>3, <3>2 DEF RotatedIsLater, l
    <3> QED
      BY <2>1, <3>1, <3>2
  <2>8. NoGaps'
    <3>1. ASSUME NEW i \in 1..Len(files') PROVE GapFree(files'[i].data)
      <4>1. CASE i = l + 1
        BY <2>2, <2>3, <4>1 DEF GapFree
      <4>2. CASE i \in 1..l
        BY <1>1, <2>3, <4>2 DEF NoGaps, GapFree, l
      <4> QED
        BY <2>1, <2>3, <4>1, <4>2
    <3>2. ASSUME NEW i \in 1..Len(files'), files'[i].rotated, files'[i].data # <<>>,
                 files'[i - 1].data # <<>>
          PROVE  files'[i].data[1] = Last(files'[i - 1].data) + 1
      <4>1. i # l + 1
        BY <2>2, <2>3, <3>2, Zenon
      <4>2. i > 1 /\ i \in 1..(l + 1)
        BY <2>3, <2>7, <3>2 DEF RotatedIsLater
      <4>3. i \in 1..l /\ i - 1 \in 1..l
        BY <2>1, <4>1, <4>2
      <4>4. files'[i] = files[i] /\ files'[i - 1] = files[i - 1]
        BY <2>3, <4>3
      <4> QED
        BY <1>1, <3>2, <4>3, <4>4 DEF NoGaps, l
    <3> QED
      BY <3>1, <3>2 DEF NoGaps, GapFree
  <2>9. file' = l + 1 /\ files'[file'].data = <<>>
    BY <2>1, <2>2, <2>3
  <2>10. OpenFollows'
    BY <2>9, Zenon DEF OpenFollows
  <2>11. RotationFollows'
    <3> SUFFICES ASSUME files'[file'].rotated, files'[file' - 1].data # <<>>
                 PROVE  Following' = Last(files'[file' - 1].data) + 1
      BY Zenon DEF RotationFollows
    <3>1. file # 0
      BY <2>2, <2>3, <2>9, Zenon
    <3>2. file' - 1 = file /\ files'[file] = files[file]
      BY <2>1, <2>3, <2>6, <2>9, <3>1
    <3> QED
      BY <1>1, <2>5, <3>1, <3>2 DEF OpenFollows
  <2> QED
    BY <2>4, <2>7, <2>8, <2>10, <2>11 DEF Contiguous
<1>9. CASE openFile_fails
  <2>1. UNCHANGED <<files, unwritten, arrived>> /\ file' = 0 /\ stage' = "write"
    BY <1>9 DEF openFile_fails
  <2> QED
    BY <2>1, SameContiguous
<1>10. CASE writev
  <2>1. batch \in 1..Len(unwritten) /\ unwritten \in Seq(Nat) /\ Len(unwritten) \in Nat /\ arrived \in Nat
    BY <1>10, BatchType, SMTT(30) DEF writev, Data
  <2>2. /\ unwritten' = SubSeq(unwritten, batch + 1, Len(unwritten)) /\ arrived' = arrived
        /\ file' = file /\ file # 0 /\ unwritten # <<>> /\ stage' = stage /\ stage = "write"
        /\ files' = Grown(files, file, SubSeq(unwritten, 1, batch))
    BY <1>10, WriteGrows DEF writev
  <2>3. /\ NoGaps' /\ RotatedIsLater'
        /\ files'[file].data # <<>> /\ Last(files'[file].data) = unwritten[batch]
    <3>1. batch \in 0..Len(unwritten) /\ batch > 0
      BY <2>1
    <3>2. file # 0 /\ unwritten # <<>>
      BY <2>2
    <3>3. files' = Grown(files, file, SubSeq(unwritten, 1, batch))
      BY <2>2
    <3> QED
      BY <3>1, <3>2, <3>3, GrowContiguous
  <2>4. /\ Len(unwritten') = Len(unwritten) - batch /\ unwritten' \in Seq(Nat)
        /\ \A k \in 1..(Len(unwritten) - batch) : unwritten'[k] = unwritten[batch + k]
    BY <2>1, <2>2
  <2>5. unwritten[Len(unwritten)] = arrived
    BY <1>1, <2>2 DEF HandGapFree
  <2>6. HandGapFree'
    <3>1. GapFree(unwritten')
      BY <1>1, <2>1, <2>2, CutGapFree DEF HandGapFree
    <3>2. ASSUME unwritten' # <<>> PROVE unwritten'[Len(unwritten')] = arrived'
      <4>1. Len(unwritten') \in 1..(Len(unwritten) - batch) /\ batch + Len(unwritten') = Len(unwritten)
        BY <2>1, <2>4, <3>2
      <4> QED
        BY <2>2, <2>4, <2>5, <4>1
    <3> QED
      BY <2>2, <3>1, <3>2 DEF HandGapFree
  <2>7. Following' = unwritten[batch] + 1
    <3>1. CASE unwritten' = <<>>
      <4>1. Len(unwritten') = 0
        BY <3>1
      <4>2. batch = Len(unwritten)
        BY <2>1, <2>4, <4>1
      <4> QED
        BY <2>2, <2>5, <3>1, <4>2 DEF Following
    <3>2. CASE unwritten' # <<>>
      <4>1. 1 \in 1..(Len(unwritten) - batch) /\ batch \in 1..(Len(unwritten) - 1)
        BY <2>1, <2>4, <3>2
      <4>2. unwritten'[1] = unwritten[batch + 1] /\ unwritten[batch + 1] = unwritten[batch] + 1
        BY <1>1, <2>4, <4>1 DEF HandGapFree, GapFree
      <4> QED
        BY <3>2, <4>2 DEF Following
    <3> QED
      BY <3>1, <3>2
  <2>8. OpenFollows' /\ RotationFollows'
    BY <2>2, <2>3, <2>7, Zenon DEF OpenFollows, RotationFollows
  <2> QED
    BY <2>3, <2>6, <2>8 DEF Contiguous
<1>11. CASE writev_fails
  <2>1. PICK n \in 0..(batch - 1) : files' = Grown(files, file, SubSeq(unwritten, 1, n))
    BY <1>11, WriteGrows
  <2>2. n \in 0..Len(unwritten)
    BY BatchType DEF Data
  <2>3. /\ file # 0 /\ unwritten # <<>> /\ unwritten' = unwritten /\ arrived' = arrived
        /\ file' = 0 /\ stage' = "write"
    BY <1>11 DEF writev_fails
  <2>4. NoGaps' /\ RotatedIsLater'
    BY <2>1, <2>2, <2>3, GrowContiguous
  <2>5. HandGapFree' /\ OpenFollows' /\ RotationFollows'
    BY <1>1, <2>3 DEF HandGapFree, OpenFollows, RotationFollows
  <2> QED
    BY <2>4, <2>5 DEF Contiguous
<1>12. CASE written
  <2>1. /\ files' = files /\ file' = file /\ arrived' = arrived /\ unwritten' = <<>>
        /\ file # 0 => unwritten = <<>>
    BY <1>12 DEF written
  <2>2. HandGapFree'
    <3>1. Len(<<>>) = 0
      OBVIOUS
    <3> QED
      BY <2>1, <3>1 DEF HandGapFree, GapFree
  <2>3. file # 0 => Following' = Following
    BY <2>1 DEF Following
  <2>4. NoGaps' /\ RotatedIsLater' /\ OpenFollows' /\ RotationFollows'
    BY <1>1, <2>1, <2>3, Zenon DEF NoGaps, RotatedIsLater, OpenFollows, RotationFollows
  <2> QED
    BY <2>2, <2>4 DEF Contiguous
<1>13. CASE UNCHANGED filevars
  BY <1>1, <1>13, SameContiguous, Zenon DEF filevars, HandGapFree
<1> QED
  BY <1>2, <1>3, <1>4, <1>5, <1>6, <1>7, <1>8, <1>9, <1>10, <1>11, <1>12, <1>13 DEF FileNext, cachefn_file

\* No packet is missing inside a data file, and a rotation loses none, whatever
\* the sizes, however many packets come and however writes fail.
THEOREM SpecNoGaps == FileSpec => []NoGaps
<1>1. FileInit => Contiguous
  BY DEF FileInit, Contiguous, NoGaps, HandGapFree, GapFree, OpenFollows, RotationFollows, RotatedIsLater
<1>2. Contiguous => NoGaps
  BY DEF Contiguous
<1> QED
  BY <1>1, <1>2, InitData, NextData, NextContiguous, PTL DEF FileSpec

----------------------------------------------------------------------------
\* RotationBounded

\* A turn takes a batch at most.
Taken == Len(unwritten) <= MaxBatch

\* With a steady name and no flush, filetotal is the size of the open file, with
\* what the turn has written in datatotal, and writing begins below MaxLen.
Named == file # 0 \/ stage = "open" => filebase # Unnamed
Anew == stage = "open" => filetotal = 0 /\ datatotal = 0
Sized ==
  file # 0 =>
    /\ stage \in {"wait", "consume"} => Len(files[file].data) = filetotal
    /\ stage = "write" => /\ Len(files[file].data) = filetotal + datatotal
                          /\ filetotal < MaxLen
                          /\ datatotal + Len(unwritten) <= MaxBatch
AllBounded == \A i \in 1..Len(files) : Len(files[i].data) < MaxLen + MaxBatch

Counted == Named /\ Anew /\ Sized /\ AllBounded
CountedInv == Taken /\ (steady /\ dsync = 0 => Counted)

\* The size of s followed by t.
LEMMA JoinLen == \A s, t \in Seq(Nat) : Len(s \o t) = Len(s) + Len(t)
  OBVIOUS

\* n packets go to the end of the open file.
LEMMA GrowBounded ==
  ASSUME Data, stage = "write", file # 0, Counted, NEW n \in 0..Len(unwritten),
         files' = Grown(files, file, SubSeq(unwritten, 1, n))
  PROVE  /\ Len(files'[file].data) = Len(files[file].data) + n
         /\ AllBounded'
<1> DEFINE d == SubSeq(unwritten, 1, n)
<1>1. files \in Seq(File) /\ file \in 1..Len(files) /\ unwritten \in Seq(Nat)
      /\ filetotal \in Nat /\ datatotal \in Nat /\ MaxLen \in Nat /\ MaxBatch \in Nat
  BY DataFileAssumption DEF Data
<1>2. d \in Seq(Nat) /\ Len(d) = n
  BY <1>1
<1>3. files' = Grown(files, file, d)
  OBVIOUS
<1> HIDE DEF d
<1>4. /\ Len(files') = Len(files)
      /\ \A g \in 1..Len(files) : g # file => files'[g] = files[g]
      /\ files'[file].data = files[file].data \o d
  <2>1. files \in Seq(File) /\ file \in 1..Len(files) /\ d \in Seq(Nat)
    BY <1>1, <1>2
  <2>2. /\ Len(Grown(files, file, d)) = Len(files)
        /\ \A g \in 1..Len(files) : g # file => Grown(files, file, d)[g] = files[g]
        /\ Grown(files, file, d)[file].data = files[file].data \o d
    BY <2>1, GrowFile
  <2> QED
    BY <1>3, <2>2, Zenon
<1>5. files[file].data \in Seq(Nat)
  BY <1>1, FileData
<1>6. Len(files'[file].data) = Len(files[file].data) + n
  <2>1. Len(files[file].data \o d) = Len(files[file].data) + Len(d)
    BY <1>2, <1>5, JoinLen, Zenon
  <2>2. files'[file].data = files[file].data \o d
    BY <1>4
  <2> QED
    BY <1>2, <2>1, <2>2, Zenon
<1>7. /\ Len(files[file].data) = filetotal + datatotal /\ filetotal < MaxLen
      /\ datatotal + Len(unwritten) <= MaxBatch
  BY DEF Counted, Sized
<1>8. Len(files'[file].data) < MaxLen + MaxBatch
  BY <1>1, <1>6, <1>7
<1>9. ASSUME NEW i \in 1..Len(files) PROVE Len(files'[i].data) < MaxLen + MaxBatch
  <2>1. CASE i = file
    BY <1>8, <2>1
  <2>2. CASE i # file
    <3>1. files'[i] = files[i]
      BY <1>4, <2>2
    <3> QED
      BY <3>1 DEF Counted, AllBounded
  <2> QED
    BY <2>1, <2>2
<1>10. AllBounded'
  BY <1>4, <1>9 DEF AllBounded
<1> QED
  BY <1>6, <1>10

LEMMA NextCounted == Data /\ Data' /\ CountedInv /\ [FileNext]_filevars => CountedInv'
<1> SUFFICES ASSUME Data, Data', CountedInv, [FileNext]_filevars PROVE CountedInv'
  OBVIOUS
<1>1. Taken'
  <2>1. ASSUME NEW n \in 0..MaxBatch, grab(n) PROVE Taken'
    BY <2>1, DataFileAssumption DEF grab, Taken
  <2>2. CASE writev
    <3>1. unwritten' = SubSeq(unwritten, batch + 1, Len(unwritten)) /\ unwritten \in Seq(Nat)
      BY <2>2 DEF writev, Data
    <3>2. Len(unwritten') = Len(unwritten) - batch /\ Len(unwritten) \in Nat
      BY <3>1, BatchType
    <3> QED
      BY <3>2, BatchType, DataFileAssumption DEF CountedInv, Taken
  <2>3. CASE written
    <3>1. unwritten' = <<>>
      BY <2>3 DEF written
    <3> QED
      BY <3>1, DataFileAssumption DEF Taken
  <2>4. CASE unwritten' = unwritten
    BY <2>4 DEF CountedInv, Taken
  <2>5. \/ \E n \in 0..MaxBatch : grab(n)
        \/ writev \/ written \/ unwritten' = unwritten
    BY Zenon DEF FileNext, cachefn_file, filevars, Tick, set_filebase, devudp_reopen, devudp_set_record,
                 consume, openFile, openFile_fails, writev_fails
  <2> QED
    BY <2>1, <2>2, <2>3, <2>4, <2>5
<1>2. steady' = steady /\ dsync' = dsync
  BY Zenon DEF FileNext, cachefn_file, filevars, Tick, set_filebase, devudp_reopen, devudp_set_record, grab,
               consume, openFile, openFile_fails, writev, writev_fails, written
<1> SUFFICES ASSUME steady, dsync = 0, Counted PROVE Counted'
  BY <1>1, <1>2 DEF CountedInv
<1>3. Named /\ Anew /\ Sized /\ AllBounded /\ Taken
  BY DEF Counted, CountedInv
<1> HIDE DEF Counted
<1>4. CASE /\ UNCHANGED <<stage, file, filetotal, datatotal, files, unwritten>>
           /\ filebase' # Unnamed \/ filebase' = filebase
  BY <1>3, <1>4 DEF Counted, Named, Anew, Sized, AllBounded
<1>5. CASE Tick
  BY <1>4, <1>5 DEF Tick, steering
<1>6. ASSUME NEW b \in Bases \cup {Unnamed}, set_filebase(b) PROVE Counted'
  BY <1>4, <1>6 DEF set_filebase
<1>7. CASE devudp_reopen
  BY <1>4, <1>7 DEF devudp_reopen
<1>8. ASSUME NEW val \in BOOLEAN, devudp_set_record(val) PROVE Counted'
  BY <1>4, <1>8 DEF devudp_set_record
<1>9. ASSUME NEW n \in 0..MaxBatch, grab(n) PROVE Counted'
  BY <1>3, <1>9 DEF grab, steering, Counted, Named, Anew, Sized, AllBounded
<1>10. CASE consume
  <2>1. /\ stage = "consume" /\ files' = files /\ unwritten' = unwritten /\ filebase' = filebase
        /\ datatotal' = 0 /\ file' \in {0, file} /\ stage' \in {"wait", "open", "write"}
    BY <1>10 DEF consume
  <2>2. CASE stage' = "wait"
    <3>1. filetotal' = filetotal
      BY <1>10, <2>2 DEF consume
    <3> QED
      BY <1>3, <2>1, <2>2, <3>1 DEF Counted, Named, Anew, Sized, AllBounded
  <2>3. CASE stage' = "open"
    <3>1. filetotal' = 0 /\ filebase # Unnamed
      BY <1>10, <2>3 DEF consume
    <3> QED
      BY <1>3, <2>1, <2>3, <3>1 DEF Counted, Named, Anew, Sized, AllBounded
  <2>4. CASE stage' = "write"
    <3>1. file' # 0 => file' = file /\ filetotal' = filetotal /\ ~Full(file)
      BY <1>3, <1>10, <2>4 DEF consume, Named
    <3>2. filetotal \in Nat /\ MaxLen \in Nat /\ MaxBatch \in Nat /\ Len(unwritten) \in Nat
      BY DataFileAssumption DEF Data
    <3>3. file' # 0 => filetotal < MaxLen
      BY <3>1, <3>2 DEF Full
    <3> QED
      BY <1>3, <2>1, <2>4, <3>1, <3>2, <3>3 DEF Counted, Named, Anew, Sized, AllBounded, Taken
  <2> QED
    BY <2>1, <2>2, <2>3, <2>4
<1>11. CASE openFile
  <2>1. /\ Len(files) \in Nat /\ Len(files') = Len(files) + 1 /\ file' = Len(files) + 1
        /\ \A f \in 1..Len(files) : files'[f] = files[f]
        /\ files'[Len(files) + 1].data = <<>> /\ stage = "open" /\ stage' = "write"
        /\ UNCHANGED <<filetotal, datatotal, unwritten, filebase>>
    BY <1>11 DEF openFile, Data, steering
  <2>2. /\ Len(files'[file'].data) = 0 /\ Len(unwritten) \in Nat
        /\ MaxLen \in Nat \ {0} /\ MaxBatch \in Nat
    BY <2>1, DataFileAssumption DEF Data
  <2>3. filetotal = 0 /\ datatotal = 0 /\ filebase # Unnamed /\ Len(unwritten) <= MaxBatch
    BY <1>3, <2>1 DEF Anew, Named, Taken
  <2>4. AllBounded'
    BY <1>3, <2>1, <2>2, SMTT(30) DEF AllBounded
  <2>5. Named' /\ Anew' /\ Sized'
    BY <2>1, <2>2, <2>3 DEF Named, Anew, Sized
  <2> QED
    BY <2>4, <2>5 DEF Counted
<1>12. CASE openFile_fails
  BY <1>3, <1>12 DEF openFile_fails, Counted, Named, Anew, Sized, AllBounded
<1>13. CASE writev
  <2>1. batch \in 0..Len(unwritten) /\ unwritten \in Seq(Nat) /\ Len(unwritten) \in Nat /\ batch \in Nat
    BY BatchType DEF Data
  <2>2. /\ unwritten' = SubSeq(unwritten, batch + 1, Len(unwritten)) /\ file' = file /\ file # 0
        /\ files' = Grown(files, file, SubSeq(unwritten, 1, batch))
        /\ stage = "write" /\ stage' = "write" /\ datatotal' = datatotal + batch
        /\ filetotal' = filetotal /\ filebase' = filebase
    BY <1>13, WriteGrows DEF writev, steering
  <2>3. Len(files'[file].data) = Len(files[file].data) + batch /\ AllBounded'
    <3>1. files' = Grown(files, file, SubSeq(unwritten, 1, batch))
      BY <2>2
    <3> QED
      BY <2>1, <2>2, <3>1, GrowBounded
  <2>4. Len(unwritten') = Len(unwritten) - batch
    BY <2>1, <2>2
  <2>5. filetotal \in Nat /\ datatotal \in Nat /\ MaxBatch \in Nat
    BY DataFileAssumption DEF Data
  <2>6. Sized'
    <3>1. /\ Len(files[file].data) = filetotal + datatotal /\ filetotal < MaxLen
          /\ datatotal + Len(unwritten) <= MaxBatch
      BY <1>3, <2>2 DEF Sized
    <3>2. file' = file /\ datatotal' = datatotal + batch /\ filetotal' = filetotal /\ stage' = "write"
      BY <2>2
    <3>3. datatotal' + Len(unwritten') = datatotal + Len(unwritten)
      BY <2>1, <2>4, <2>5, <3>2
    <3>4. Len(files'[file].data) = filetotal + (datatotal + batch)
      BY <2>1, <2>3, <2>5, <3>1
    <3> QED
      BY <3>1, <3>2, <3>3, <3>4 DEF Sized
  <2>7. Named' /\ Anew'
    BY <1>3, <2>2 DEF Named, Anew
  <2> QED
    BY <2>3, <2>6, <2>7 DEF Counted
<1>14. CASE writev_fails
  <2>1. PICK n \in 0..(batch - 1) : files' = Grown(files, file, SubSeq(unwritten, 1, n))
    BY <1>14, WriteGrows
  <2>2. n \in 0..Len(unwritten)
    BY BatchType DEF Data
  <2>3. file # 0 /\ stage = "write" /\ file' = 0 /\ stage' = "write"
    BY <1>14 DEF writev_fails
  <2>4. AllBounded'
    BY <2>1, <2>2, <2>3, GrowBounded
  <2> QED
    BY <2>3, <2>4 DEF Counted, Named, Anew, Sized
<1>15. CASE written
  <2>1. /\ stage = "write" /\ stage' = "wait" /\ files' = files /\ file' = file
        /\ filebase' = filebase
    BY <1>15 DEF written, steering
  <2>2. filetotal' = filetotal + datatotal
    BY <1>15 DEF written
  <2> QED
    BY <1>3, <2>1, <2>2 DEF Counted, Named, Anew, Sized, AllBounded
<1>16. CASE UNCHANGED filevars
  BY <1>4, <1>16 DEF filevars, steering
<1> QED
  BY <1>5, <1>6, <1>7, <1>8, <1>9, <1>10, <1>11, <1>12, <1>13, <1>14, <1>15, <1>16
  DEF FileNext, cachefn_file

\* PSCUDPMaxLenMB bounds every data file, to less than a batch, for any sizes,
\* unless the file name is cleared meanwhile or PSCUDPDSyncSizeMB is set.
THEOREM SpecRotationBounded == FileSpec => []RotationBounded
<1>1. FileInit => CountedInv
  BY DataFileAssumption DEF FileInit, CountedInv, Taken, Counted, Named, Anew, Sized, AllBounded
<1>2. CountedInv => RotationBounded
  BY DEF CountedInv, Counted, AllBounded, RotationBounded
<1> QED
  BY <1>1, <1>2, InitData, NextData, NextCounted, PTL DEF FileSpec

----------------------------------------------------------------------------
\* The buffers.

\* The inductive invariant.
IInv ==
  /\ TypeOK
  /\ BuffersConserved
  /\ InprogOnlyWhileStoring
  /\ NoLostWakeup

\* The constructor establishes the invariant.
LEMMA InitIInv == Init => IInv
  BY UDPFastAssumption DEF Init, IInv, TypeOK, BuffersConserved, Disjoint,
     InprogOnlyWhileStoring, NoLostWakeup

\* The top of rxfn()'s loop moves buffers from vpool to msgs and loses none,
\* whatever buffers of msgs are left over.
LEMMA RxTopMoves ==
  ASSUME TypeOK, NEW leftover \in SUBSET msgs, vpool \cap msgs = {}, rxTop(leftover)
  PROVE  /\ vpool' \in SUBSET Buf /\ msgs' \in SUBSET Buf
         /\ vpool' \cup msgs' = vpool \cup leftover
         /\ vpool' \cap msgs' = {}
         /\ rx' \in {"unlocked", "stalled", "done"}
<1>1. CASE msgs' = leftover /\ vpool' = vpool /\ rx' \in {"stalled", "done"}
  BY <1>1 DEF TypeOK
<1>2. ASSUME NEW assigned \in SUBSET vpool,
             msgs' = leftover \cup assigned, vpool' = vpool \ assigned, rx' = "unlocked"
      PROVE  /\ vpool' \in SUBSET Buf /\ msgs' \in SUBSET Buf
             /\ vpool' \cup msgs' = vpool \cup leftover
             /\ vpool' \cap msgs' = {}
             /\ rx' \in {"unlocked", "stalled", "done"}
  BY <1>2 DEF TypeOK
<1> QED
  BY <1>1, <1>2 DEF rxTop

\* rxfn() preserves the invariant.
LEMMA RxIInv == IInv /\ rxfn => IInv'
<1> SUFFICES ASSUME IInv, rxfn PROVE IInv'
  OBVIOUS
<1> USE UDPFastAssumption DEF IInv
<1>0. vpool \cap msgs = {}
  BY DEF BuffersConserved, Disjoint
<1>1. CASE rxEnter
  <2>1. rxTop(msgs) /\ UNCHANGED <<site, running, pending, inprog, shortBuf, temp, shortLimit,
                                   events, notifycache, unstall, cache, stopping>>
    BY <1>1 DEF rxEnter
  <2>2. /\ vpool' \in SUBSET Buf /\ msgs' \in SUBSET Buf
        /\ vpool' \cup msgs' = vpool \cup msgs
        /\ vpool' \cap msgs' = {}
        /\ rx' \in {"unlocked", "stalled", "done"}
    BY <1>0, <2>1, RxTopMoves
  <2>3. TypeOK'
    BY <2>1, <2>2 DEF TypeOK, events
  <2>4. BuffersConserved'
    BY <2>1, <2>2 DEF BuffersConserved, Disjoint
  <2>5. InprogOnlyWhileStoring' /\ NoLostWakeup'
    BY <2>1 DEF InprogOnlyWhileStoring, NoLostWakeup, events
  <2> QED
    BY <2>3, <2>4, <2>5
<1>2. CASE rxBatch
  <2>1. PICK good \in SUBSET msgs :
          /\ pending' = pending \cup good
          /\ notifycache' = (notifycache \/ (pending = {} /\ good # {}))
          /\ rxTop(msgs \ good)
    BY <1>2 DEF rxBatch
  <2>2. UNCHANGED <<site, running, inprog, shortBuf, temp, shortLimit, events, unstall, cache, stopping>>
    BY <1>2 DEF rxBatch
  <2>3. /\ vpool' \in SUBSET Buf /\ msgs' \in SUBSET Buf
        /\ vpool' \cup msgs' = vpool \cup (msgs \ good)
        /\ vpool' \cap msgs' = {}
        /\ rx' \in {"unlocked", "stalled", "done"}
    BY <1>0, <2>1, RxTopMoves
  <2>4. pending' \in SUBSET Buf /\ notifycache' \in BOOLEAN
    BY <2>1 DEF TypeOK
  <2>5. TypeOK'
    BY <2>2, <2>3, <2>4 DEF TypeOK, events
  <2>6. BuffersConserved'
    BY <2>1, <2>2, <2>3 DEF BuffersConserved, Disjoint
  <2>7. InprogOnlyWhileStoring'
    BY <2>2 DEF InprogOnlyWhileStoring
  <2>8. NoLostWakeup'
    BY <2>1, <2>2 DEF NoLostWakeup, events
  <2> QED
    BY <2>5, <2>6, <2>7, <2>8
<1>3. CASE rxNotify
  BY <1>3, ZenonT(30) DEF rxNotify, bufs, TypeOK, BuffersConserved, Disjoint,
     InprogOnlyWhileStoring, NoLostWakeup
<1>4. CASE rxWake
  BY <1>4, ZenonT(30) DEF rxWake, bufs, TypeOK, BuffersConserved, Disjoint,
     InprogOnlyWhileStoring, NoLostWakeup
<1> QED
  BY <1>1, <1>2, <1>3, <1>4 DEF rxfn

\* cachefn() preserves the invariant.
LEMMA CacheIInv == IInv /\ cachefn => IInv'
<1> SUFFICES ASSUME IInv, cachefn PROVE IInv'
  OBVIOUS
<1> USE UDPFastAssumption DEF IInv
<1>1. CASE cacheReturn
  BY <1>1 DEF cacheReturn, events, TypeOK, BuffersConserved, Disjoint,
     InprogOnlyWhileStoring, NoLostWakeup
<1>2. CASE cacheSignal
  BY <1>2, ZenonT(30) DEF cacheSignal, bufs, TypeOK, BuffersConserved, Disjoint,
     InprogOnlyWhileStoring, NoLostWakeup
<1>3. CASE cacheCheck
  BY <1>3 DEF cacheCheck, bufs, events, TypeOK, BuffersConserved, Disjoint,
     InprogOnlyWhileStoring, NoLostWakeup
<1>4. CASE cacheWake
  BY <1>4, ZenonT(30) DEF cacheWake, bufs, TypeOK, BuffersConserved, Disjoint,
     InprogOnlyWhileStoring, NoLostWakeup
<1>5. CASE cacheGrab
  <2>1. inprog = {} /\ pending' = {} /\ inprog' = pending
    BY <1>5 DEF cacheGrab, InprogOnlyWhileStoring
  <2> QED
    BY <1>5, <2>1 DEF cacheGrab, events, TypeOK, BuffersConserved, Disjoint,
       InprogOnlyWhileStoring, NoLostWakeup
<1>6. CASE cacheStore
  <2>1. PICK moved \in SUBSET inprog : shortBuf' = shortBuf \cup moved /\ inprog' = inprog \ moved
    BY <1>6 DEF cacheStore
  <2> QED
    BY <1>6, <2>1 DEF cacheStore, events, TypeOK, BuffersConserved, Disjoint,
       InprogOnlyWhileStoring, NoLostWakeup
<1> QED
  BY <1>1, <1>2, <1>3, <1>4, <1>5, <1>6 DEF cachefn

\* The device support and stop() preserve the invariant.
LEMMA OthersIInv == IInv /\ (Support \/ Stop) => IInv'
<1> SUFFICES ASSUME IInv, Support \/ Stop PROVE IInv'
  OBVIOUS
<1> USE UDPFastAssumption DEF IInv, TypeOK, BuffersConserved, Disjoint,
        InprogOnlyWhileStoring, NoLostWakeup
<1>1. CASE read_shortbuf
  BY <1>1 DEF read_shortbuf, bufs, events
<1>2. CASE clear_shortbuf_take
  BY <1>2 DEF clear_shortbuf_take, events
<1>3. CASE clear_shortbuf_return
  BY <1>3 DEF clear_shortbuf_return, events
<1>4. CASE reopen_signal
  BY <1>4 DEF reopen_signal, bufs
<1>5. CASE stop
  <2>1. /\ running' = FALSE /\ stopping' = "signal1"
        /\ UNCHANGED <<site, bufs, shortLimit, events, notifycache, unstall, rx, cache>>
    BY <1>5 DEF stop
  <2>2. UNCHANGED <<vpool, msgs, pending, inprog, shortBuf, temp, pendingReady, vpoolStall>>
    BY <2>1 DEF bufs, events
  <2>3. TypeOK'
    BY <2>1, <2>2, ZenonT(30)
  <2>4. BuffersConserved' /\ InprogOnlyWhileStoring'
    BY <2>1, <2>2
  <2>5. NoLostWakeup'
    BY <2>1
  <2> QED
    BY <2>3, <2>4, <2>5
<1>6. CASE stopSignalRx
  BY <1>6 DEF stopSignalRx, bufs
<1>7. CASE stopSignalCache
  BY <1>7 DEF stopSignalCache, bufs
<1> QED
  BY <1>1, <1>2, <1>3, <1>4, <1>5, <1>6, <1>7 DEF Support, Stop

\* IInv is an invariant.
LEMMA SpecIInv == Spec => []IInv
<1>1. IInv /\ UNCHANGED vars => IInv'
  BY DEF IInv, vars, bufs, events, TypeOK, BuffersConserved, Disjoint,
     InprogOnlyWhileStoring, NoLostWakeup
<1>2. Init => IInv
  BY InitIInv
<1>3. IInv /\ [Next]_vars => IInv'
  BY <1>1, RxIInv, CacheIInv, OthersIInv DEF Next
<1> QED
  BY <1>2, <1>3, PTL DEF Spec

\* The variables keep their types.
THEOREM SpecTypeOK == Spec => []TypeOK
<1>1. Spec => []IInv
  BY SpecIInv
<1> QED
  BY <1>1, PTL DEF IInv

\* However the workers, the records and stop() interleave, every buffer of the
\* pool is in exactly one place.
THEOREM SpecBuffersConserved == Spec => []BuffersConserved
<1>1. Spec => []IInv
  BY SpecIInv
<1> QED
  BY <1>1, PTL DEF IInv

\* Signalling pendingReady only for the first packet of an empty queue, and
\* after rxLock is released, loses no wakeup.
THEOREM SpecNoLostWakeup == Spec => []NoLostWakeup
<1>1. Spec => []IInv
  BY SpecIInv
<1> QED
  BY <1>1, PTL DEF IInv
=============================================================================
