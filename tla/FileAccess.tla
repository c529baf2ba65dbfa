---------------------------- MODULE FileAccess ----------------------------
(***************************************************************************)
(* read_file_all and write_file_all of src/olnk/file_io.cpp and the class  *)
(* MemoryMappedFile of src/olnk/memory_map.cpp, used by several clients    *)
(* (threads or processes) on the same files. The helpers are cut where     *)
(* they touch the file system: open, size, each byte read, write, flush.   *)
(* The file system is external; a write goes to the start of a file.       *)
(***************************************************************************)
EXTENDS Naturals, Sequences, SequencesExt

CONSTANTS
  Clients,      \* each uses the helpers one call at a time and owns one map
  FilePaths,
  EmptyPath,
  Missing,      \* a file that does not exist
  Payloads,     \* bound: byte sequences clients write; no byte is 0
  NullData,     \* a null pointer passed with a size that is not 0
  BufferLimit   \* payloads of this length bypass the buffer of std::ofstream

ASSUME FileAssumption ==
  /\ EmptyPath \notin FilePaths
  /\ \A d \in Payloads : d \in Seq(Nat \ {0})
  /\ NullData \notin Payloads
  /\ BufferLimit \in Nat

VARIABLES
  disk,   \* contents of the files
  io,     \* the current or last call of each client with its locals
  map,    \* buffer_ of each client's MemoryMappedFile; opened is history
  quiet,  \* history: nobody else changed the file since the call opened it
  lost    \* history: the flush behind the last check failed

fileVars == <<disk, io, map, quiet, lost>>

Idle == [op |-> "none", path |-> EmptyPath, pc |-> "done", status |-> "kOk",
         at |-> 0, bytes |-> << >>]

FileInit ==
  /\ disk = [p \in FilePaths |-> Missing]
  /\ io = [c \in Clients |-> Idle]
  /\ map = [c \in Clients |-> [buffer |-> << >>, opened |-> "no"]]
  /\ quiet = [c \in Clients |-> FALSE]
  /\ lost = [c \in Clients |-> FALSE]

Zeros(n) == [i \in 1..n |-> 0]

\* Bytes written at the start of a file leave its tail alone.
Overlay(data, content) == data \o SubSeq(content, Len(data) + 1, Len(content))

Store(c, content) ==
  /\ disk' = [disk EXCEPT ![io[c].path] = content]
  /\ quiet' = [d \in Clients |-> quiet[d] /\ (d = c \/ io[d].path # io[c].path)]

Ready(c) == io[c].pc = "done"

\* The call of a client in control of its locals
Entered(op, p, pc, status, bytes) ==
  [op |-> op, path |-> p, pc |-> pc, status |-> status, at |-> 0, bytes |-> bytes]

\* A call that ends: the local vector is what read_file_all returns, and
\* buffer_ for MemoryMappedFile::open.
Return(c, status, bytes) ==
  /\ io' = [io EXCEPT ![c].pc = "done", ![c].status = status, ![c].bytes = bytes]
  /\ map' = IF io[c].op = "map"
              THEN [map EXCEPT ![c] = [buffer |-> bytes, opened |-> status]]
              ELSE map

-----------------------------------------------------------------------------
(* read_file_all and MemoryMappedFile::open *)

OpenForRead(c, op, p) ==
  /\ Ready(c)
  /\ \/ /\ p = EmptyPath
        /\ io' = [io EXCEPT ![c] = Entered(op, p, "done", "kInvalidArgument", << >>)]
        /\ quiet' = [quiet EXCEPT ![c] = FALSE]
     \/ /\ p # EmptyPath
        /\ io' = [io EXCEPT ![c] = Entered(op, p, "done", "kOpenFailed", << >>)]
        /\ quiet' = [quiet EXCEPT ![c] = FALSE]
     \/ /\ p # EmptyPath /\ disk[p] # Missing
        /\ io' = [io EXCEPT ![c] = Entered(op, p, "size", "kOk", << >>)]
        /\ quiet' = [quiet EXCEPT ![c] = TRUE]
  /\ lost' = [lost EXCEPT ![c] = FALSE]
  /\ UNCHANGED disk

read_file_all(c, p) == OpenForRead(c, "read", p) /\ UNCHANGED map

\* Mutant: the buffer is not cleared before the path is looked at.
MapOpen_Keeps(c, p) ==
  /\ OpenForRead(c, "map", p)
  /\ map' = [map EXCEPT ![c].opened = "no"]

\* MemoryMappedFile::open clears buffer_ first.
MapOpen(c, p) ==
  /\ OpenForRead(c, "map", p)
  /\ map' = [map EXCEPT ![c] = [buffer |-> << >>, opened |-> "no"]]

MapClose(c) ==
  /\ Ready(c)
  /\ map' = [map EXCEPT ![c] = [buffer |-> << >>, opened |-> "no"]]
  /\ UNCHANGED <<disk, io, quiet, lost>>

\* Mutant: the last byte is taken for a terminator.
SizedTo_Terminated(content) == Zeros(Len(content) - 1)

SizedTo(content) == Zeros(Len(content))

\* seekg, tellg and resize, which fills the vector with zeros and may throw.
QuerySize(c) ==
  /\ io[c].pc = "size"
  /\ LET n == Len(disk[io[c].path]) IN
     \/ Return(c, "kReadFailed", << >>)
     \/ Return(c, "threw", << >>)
     \/ n = 0 /\ Return(c, "kOk", << >>)
     \/ /\ n > 0
        /\ io' = [io EXCEPT ![c].pc = "fill", ![c].bytes = SizedTo(disk[io[c].path])]
        /\ UNCHANGED map
  /\ UNCHANGED <<disk, quiet, lost>>

\* Mutant: the state of the stream is not looked at after read.
FillByte_Unchecked(c) ==
  /\ io[c].pc = "fill"
  /\ LET at == io[c].at + 1
         b  == io[c].bytes
     IN IF at > Len(b) \/ at > Len(disk[io[c].path]) THEN Return(c, "kOk", b)
        ELSE /\ io' = [io EXCEPT ![c].at = at, ![c].bytes[at] = disk[io[c].path][at]]
             /\ UNCHANGED map
  /\ UNCHANGED <<disk, quiet, lost>>

\* in.read, byte by byte: other clients may write in between. Reading past the
\* end of the file and a read that fails set the failbit or the badbit, and the
\* vector is cleared.
FillByte(c) ==
  /\ io[c].pc = "fill"
  /\ LET at == io[c].at + 1
         b  == io[c].bytes
     IN \/ at > Len(b) /\ Return(c, "kOk", b)
        \/ at <= Len(b) /\ Return(c, "kReadFailed", << >>)
        \/ /\ at <= Len(b) /\ at <= Len(disk[io[c].path])
           /\ io' = [io EXCEPT ![c].at = at, ![c].bytes[at] = disk[io[c].path][at]]
           /\ UNCHANGED map
  /\ UNCHANGED <<disk, quiet, lost>>

-----------------------------------------------------------------------------
(* write_file_all *)

\* Mutant: the file is opened without std::ios::trunc.
OpenedFile_Update(content) == IF content = Missing THEN << >> ELSE content

\* std::ios::trunc: an opened file is empty.
OpenedFile(content) == << >>

write_file_all(c, p, data) ==
  /\ Ready(c)
  /\ \/ /\ p = EmptyPath \/ data = NullData
        /\ io' = [io EXCEPT ![c] = Entered("write", p, "done", "kInvalidArgument", << >>)]
        /\ quiet' = [quiet EXCEPT ![c] = FALSE]
        /\ UNCHANGED disk
     \/ /\ p # EmptyPath /\ data # NullData
        /\ io' = [io EXCEPT ![c] = Entered("write", p, "done", "kOpenFailed", << >>)]
        /\ quiet' = [quiet EXCEPT ![c] = FALSE]
        /\ UNCHANGED disk
     \/ /\ p # EmptyPath /\ data # NullData
        /\ io' = [io EXCEPT ![c] = Entered("write", p, "write", "kOk", data)]
        /\ disk' = [disk EXCEPT ![p] = OpenedFile(@)]
        /\ quiet' = [d \in Clients |-> d = c \/ (quiet[d] /\ io[d].path # p)]
  /\ lost' = [lost EXCEPT ![c] = FALSE]
  /\ UNCHANGED map

\* out.write: what fits stays in the buffer; what does not is written at once,
\* and a failure then shows in out.good().
WriteBytes(c) ==
  /\ io[c].pc = "write"
  /\ LET data == io[c].bytes
         old  == disk[io[c].path]
     IN \/ /\ Len(data) < BufferLimit
           /\ io' = [io EXCEPT ![c].pc = "close"]
           /\ UNCHANGED <<disk, map, quiet>>
        \/ /\ Len(data) >= BufferLimit
           /\ Store(c, Overlay(data, old))
           /\ Return(c, "kOk", data)
        \/ /\ Len(data) >= BufferLimit
           /\ \E part \in Prefixes(data) : Store(c, Overlay(part, old))
           /\ Return(c, "kWriteFailed", data)
  /\ UNCHANGED lost

\* The destructor of the stream flushes after status and bytes_written are
\* set; nobody looks at the outcome.
FlushAtClose(c) ==
  /\ io[c].pc = "close"
  /\ \E part \in Prefixes(io[c].bytes) :
       /\ Store(c, Overlay(part, disk[io[c].path]))
       /\ lost' = [lost EXCEPT ![c] = part # io[c].bytes]
  /\ Return(c, "kOk", io[c].bytes)

FileNext ==
  \E c \in Clients :
    \/ \E p \in FilePaths \cup {EmptyPath} :
         \/ read_file_all(c, p)
         \/ MapOpen(c, p)
         \/ \E data \in Payloads \cup {NullData} : write_file_all(c, p, data)
    \/ MapClose(c)
    \/ QuerySize(c) \/ FillByte(c)
    \/ WriteBytes(c) \/ FlushAtClose(c)

FileSpec == FileInit /\ [][FileNext]_fileVars

-----------------------------------------------------------------------------
Delivered == {io[c].bytes : c \in {d \in Clients : Ready(d) /\ io[d].op = "read"}}
               \cup {map[c].buffer : c \in Clients}

\* Neither read_file_all nor a view ever shows a byte nobody wrote: a file that
\* shrinks between the size query and the read is an error, not zeros behind
\* the bytes that were left.
NoInventedBytes == \A bytes \in Delivered : \A i \in DOMAIN bytes : bytes[i] # 0

\* A read that returned kOk, and during and after which nobody wrote, has the
\* whole file, for read_file_all and for a mapped view alike.
QuietReadExact ==
  \A c \in Clients :
    Ready(c) /\ io[c].op \in {"read", "map"} /\ io[c].status = "kOk" /\ quiet[c] =>
      io[c].bytes = disk[io[c].path]

\* A mapped file whose last open failed, or that was closed, shows no bytes of
\* an earlier file.
FailedOpenShowsNothing ==
  \A c \in Clients : map[c].opened # "kOk" => map[c].buffer = << >>

\* A write that nobody else disturbed leaves the data or a prefix of it, and
\* nothing of a longer file that was there before. kOk stands for less than the
\* data only if the flush in the destructor failed: see OkMeansStored.
QuietWriteKept ==
  \A c \in Clients :
    Ready(c) /\ io[c].op = "write" /\ quiet[c] =>
      /\ io[c].status = "kOk" => lost[c] \/ disk[io[c].path] = io[c].bytes
      /\ io[c].status \in {"kOk", "kWriteFailed"} =>
           disk[io[c].path] \in Prefixes(io[c].bytes)

\* Whatever read_file_all or a view shows are bytes somebody wrote, whichever
\* step failed and whoever wrote meanwhile, and a view shows none once its file
\* was closed or its last open failed.
ReadsHonest == NoInventedBytes /\ FailedOpenShowsNothing

\* Among clients that do not interfere, a read that returns kOk has the whole
\* file, and a write leaves nothing but its own bytes, all of them unless it
\* failed at a check or at the flush behind the last check.
QuietCallsKept == QuietReadExact /\ QuietWriteKept

(* What the source says and the code does not do *)

\* file_io.cpp: "File read/write helpers should report partial-failure safely":
\* a write that nobody else disturbed and that returned kOk is in the file.
OkMeansStored ==
  \A c \in Clients :
    Ready(c) /\ io[c].op = "write" /\ io[c].status = "kOk" /\ quiet[c] =>
      disk[io[c].path] = io[c].bytes
=============================================================================
