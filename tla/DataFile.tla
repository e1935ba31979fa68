------------------------------ MODULE DataFile ------------------------------
(***************************************************************************)
(* The data file of class UDPFast: the part of cachefn()                   *)
(* (udpApp/src/udpdrv.cpp) that opens, writes, rotates, flushes and closes *)
(* it, and the records of udpApp/src/devudp.cpp that steer it.  Module     *)
(* UDPFast has the packet buffers and the wake-ups of the same worker.     *)
(*                                                                         *)
(* A packet is the number of its arrival and counts as one unit of size.   *)
(* The worker holds PSCBase::lock in consume only: opening and writing     *)
(* happen with the lock released, and records may be processed between any *)
(* two steps.  File names are made of filebase and the time, in seconds,   *)
(* at which the worker woke up.                                            *)
(***************************************************************************)
EXTENDS Naturals, Sequences, FiniteSets, FiniteSetsExt, SequencesExt

CONSTANTS
  Bases,       \* file names a user may set
  Unnamed,     \* the empty name
  MaxLen,      \* PSCUDPMaxLenMB
  DSyncSize,   \* values of PSCUDPDSyncSizeMB; 0: never flush
  HeaderCount, \* packets of one writev(), half of iovLimit
  MaxBatch,    \* bound: packets taken at a time
  MaxPacket,   \* bound: packets that arrive
  MaxClock     \* bound: seconds

ASSUME DataFileAssumption ==
  /\ Unnamed \notin Bases
  /\ MaxLen \in Nat \ {0} /\ HeaderCount \in Nat \ {0} /\ DSyncSize \subseteq Nat
  /\ MaxBatch \in Nat /\ MaxPacket \in Nat /\ MaxClock \in Nat

VARIABLES
  dsync,     \* PSCUDPDSyncSizeMB
  steady,    \* nobody clears the file name; from the start, like dsync
  record, reopen, filebase,     \* fields of UDPFast, under PSCBase::lock
  stage,     \* the worker: "wait", "consume", "open", "write"
  unwritten, \* packets it has taken (inprog) and not yet written
  name,      \* name of the file to open: filebase and the time
  file,      \* datafile, an index of files; 0: closed
  filetotal, datatotal,
  files,     \* the disk: [name, data, rotated] in the order of creation
  arrived,   \* packets so far
  clock

steering == <<record, reopen, filebase>>
filevars == <<dsync, steady, steering, stage, unwritten, name, file, filetotal, datatotal, files,
              arrived, clock>>

NoName == [base |-> Unnamed, sec |-> 0]

----------------------------------------------------------------------------
FileInit ==
  /\ dsync \in DSyncSize /\ steady \in BOOLEAN
  /\ record = FALSE /\ reopen = TRUE /\ filebase = Unnamed
  /\ stage = "wait" /\ unwritten = <<>> /\ name = NoName
  /\ file = 0 /\ filetotal = 0 /\ datatotal = 0 /\ files = <<>>
  /\ arrived = 0 /\ clock = 0

Tick ==
  /\ clock < MaxClock
  /\ clock' = clock + 1
  /\ UNCHANGED <<dsync, steady, steering, stage, unwritten, name, file, filetotal, datatotal, files,
                 arrived>>

----------------------------------------------------------------------------
\* The records, each with PSCBase::lock held.

\* devudp_set_string<&UDPFast::filebase>.
set_filebase(b) ==
  /\ b # Unnamed \/ ~steady
  /\ filebase' = b
  /\ UNCHANGED <<dsync, steady, record, reopen, stage, unwritten, name, file, filetotal, datatotal,
                 files, arrived, clock>>

\* devudp_reopen; the signal that follows is in UDPFast.
devudp_reopen ==
  /\ reopen' = TRUE
  /\ UNCHANGED <<dsync, steady, record, filebase, stage, unwritten, name, file, filetotal, datatotal,
                 files, arrived, clock>>

\* devudp_set_record.
devudp_set_record(val) ==
  /\ record' = val
  /\ reopen' = val
  /\ UNCHANGED <<dsync, steady, filebase, stage, unwritten, name, file, filetotal, datatotal, files,
                 arrived, clock>>

----------------------------------------------------------------------------
\* The worker wakes up, reads the time and takes what is pending, if anything.
grab(n) ==
  /\ stage = "wait"
  /\ arrived + n <= MaxPacket
  /\ arrived' = arrived + n
  /\ unwritten' = [i \in 1..n |-> arrived + i]
  /\ name' = [base |-> Unnamed, sec |-> clock]
  /\ stage' = "consume"
  /\ UNCHANGED <<dsync, steady, steering, file, filetotal, datatotal, files, clock>>

\* Mutant: the file grows past its size before it is rotated.
Full_Late(f) == f # 0 /\ filetotal > MaxLen

\* The file has its size: it will be rotated.
Full(f) == f # 0 /\ filetotal >= MaxLen

\* With the lock: an unwanted file is closed, the blocks are updated (see
\* BlockScan), and it is decided whether a new file is to be opened.
consume ==
  /\ stage = "consume"
  /\ LET kept == IF record THEN file ELSE 0
         due == reopen \/ Full(kept)
         opens == record /\ due /\ filebase # Unnamed IN
       /\ file' = kept
       /\ IF unwritten = <<>>
          THEN stage' = "wait" /\ name' = NoName /\ UNCHANGED <<reopen, filetotal>>
          ELSE /\ stage' = IF opens THEN "open" ELSE "write"
               /\ reopen' = (due /\ ~opens)
               /\ filetotal' = IF opens THEN 0 ELSE filetotal
               /\ name' = IF opens THEN [name EXCEPT !.base = filebase] ELSE NoName
  /\ datatotal' = 0
  /\ UNCHANGED <<dsync, steady, record, filebase, unwritten, files, arrived, clock>>

Exists(n) == \E i \in 1..Len(files) : files[i].name = n

\* Mutant: an existing file is opened again.
openFile_Reuses ==
  /\ stage = "open"
  /\ IF Exists(name)
     THEN file' = (CHOOSE i \in 1..Len(files) : files[i].name = name) /\ UNCHANGED files
     ELSE /\ files' = Append(files, [name |-> name, data |-> <<>>, rotated |-> file # 0])
          /\ file' = Len(files')
  /\ stage' = "write" /\ name' = NoName
  /\ UNCHANGED <<dsync, steady, steering, unwritten, filetotal, datatotal, arrived, clock>>

\* Mutant: the packets at hand are left out.
openFile_SkipsBatch ==
  /\ stage = "open"
  /\ ~Exists(name)
  /\ files' = Append(files, [name |-> name, data |-> <<>>, rotated |-> file # 0])
  /\ file' = Len(files')
  /\ stage' = "write" /\ name' = NoName /\ unwritten' = <<>>
  /\ UNCHANGED <<dsync, steady, steering, filetotal, datatotal, arrived, clock>>

\* Without the lock: the old file is closed and a new one created, O_EXCL.
openFile ==
  /\ stage = "open"
  /\ ~Exists(name)
  /\ files' = Append(files, [name |-> name, data |-> <<>>, rotated |-> file # 0])
  /\ file' = Len(files')
  /\ stage' = "write" /\ name' = NoName
  /\ UNCHANGED <<dsync, steady, steering, unwritten, filetotal, datatotal, arrived, clock>>

\* open() fails, if only because there is a file of this name: recording ends.
openFile_fails ==
  /\ stage = "open"
  /\ file' = 0
  /\ record' = FALSE
  /\ stage' = "write" /\ name' = NoName
  /\ UNCHANGED <<dsync, steady, reopen, filebase, unwritten, filetotal, datatotal, files, arrived,
                 clock>>

batch == Min({HeaderCount, Len(unwritten)})

\* One writev(), of all the packets that it can take.
writev ==
  /\ stage = "write" /\ file # 0 /\ unwritten # <<>>
  /\ files' = [files EXCEPT ![file].data = @ \o SubSeq(unwritten, 1, batch)]
  /\ unwritten' = SubSeq(unwritten, batch + 1, Len(unwritten))
  /\ datatotal' = datatotal + batch
  /\ UNCHANGED <<dsync, steady, steering, stage, name, file, filetotal, arrived, clock>>

\* Mutant: recording is left on.
writev_fails_StaysOn ==
  /\ stage = "write" /\ file # 0 /\ unwritten # <<>>
  /\ file' = 0
  /\ datatotal' = datatotal + batch
  /\ UNCHANGED <<dsync, steady, steering, stage, unwritten, name, filetotal, files, arrived, clock>>

\* It fails, or writes a part, of which the model keeps the whole packets: the
\* file is closed and recording ends.  The packets count as written.
writev_fails ==
  /\ stage = "write" /\ file # 0 /\ unwritten # <<>>
  /\ \E n \in 0..(batch - 1) : files' = [files EXCEPT ![file].data = @ \o SubSeq(unwritten, 1, n)]
  /\ file' = 0
  /\ record' = FALSE
  /\ datatotal' = datatotal + batch
  /\ UNCHANGED <<dsync, steady, reopen, filebase, stage, unwritten, name, filetotal, arrived, clock>>

\* The rest of the turn: totals, and a flush, which starts the total again.
written ==
  /\ stage = "write" /\ (file = 0 \/ unwritten = <<>>)
  /\ LET total == filetotal + datatotal IN
       filetotal' = IF dsync > 0 /\ file # 0 /\ total >= dsync THEN 0 ELSE total
  /\ stage' = "wait" /\ unwritten' = <<>> /\ datatotal' = 0
  /\ UNCHANGED <<dsync, steady, steering, name, file, files, arrived, clock>>

----------------------------------------------------------------------------
cachefn_file ==
  \/ \E n \in 0..MaxBatch : grab(n)
  \/ consume
  \/ openFile \/ openFile_fails
  \/ writev \/ writev_fails \/ written

FileNext ==
  \/ Tick
  \/ \E b \in Bases \cup {Unnamed} : set_filebase(b)
  \/ devudp_reopen
  \/ \E val \in BOOLEAN : devudp_set_record(val)
  \/ cachefn_file

FileSpec == FileInit /\ [][FileNext]_filevars

----------------------------------------------------------------------------
\* Types: the flags, and the rest.  Only the newest file is ever open.
Name == [base : Bases \cup {Unnamed}, sec : Nat]
File == [name : Name, data : Seq(Nat), rotated : BOOLEAN]
Flags == steady \in BOOLEAN /\ record \in BOOLEAN /\ reopen \in BOOLEAN
Data ==
  /\ dsync \in DSyncSize /\ filebase \in Bases \cup {Unnamed}
  /\ stage \in {"wait", "consume", "open", "write"}
  /\ unwritten \in Seq(Nat) /\ arrived \in Nat /\ clock \in Nat
  /\ name \in Name
  /\ files \in Seq(File) /\ file \in {0, Len(files)}
  /\ filetotal \in Nat /\ datatotal \in Nat
FileTypeOK == Flags /\ Data

\* The files hold packets in the order of arrival and none twice, across files
\* too, and no file is written again after it was closed: rotation, a second
\* rotation in the same second and failed writes included.
FilesInOrder ==
  \A f, g \in 1..Len(files) : \A i \in 1..Len(files[f].data), j \in 1..Len(files[g].data) :
    f < g \/ (f = g /\ i < j) => files[f].data[i] < files[g].data[j]

\* A file has no gap, and a rotation loses nothing: the new file goes on with
\* the packet after the last of the old one.
NoGaps ==
  \A i \in 1..Len(files) :
    LET data == files[i].data IN
    /\ \A k \in 1..(Len(data) - 1) : data[k + 1] = data[k] + 1
    /\ files[i].rotated /\ data # <<>> /\ files[i - 1].data # <<>> =>
         data[1] = Last(files[i - 1].data) + 1

\* PSCUDPMaxLenMB: no file exceeds the size for rotation by a whole batch or
\* more, unless its name is cleared meanwhile or PSCUDPDSyncSizeMB is set,
\* whose flush starts the count again.
RotationBounded ==
  steady /\ dsync = 0 => \A i \in 1..Len(files) : Len(files[i].data) < MaxLen + MaxBatch

\* Between turns, recording that owes no new file has one open: however opens
\* and writes fail and records interfere, packets are not lost with record on.
RecordingHasFile == stage = "wait" /\ record /\ ~reopen => file # 0
=============================================================================
