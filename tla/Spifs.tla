------------------------------- MODULE Spifs -------------------------------
(***************************************************************************)
(* The flash file system of the weather station (src/app/spifsmini).       *)
(*                                                                         *)
(* NOR flash can only clear bits; a sector erase sets them all.  The file  *)
(* index is an array of 24-byte file blocks (slots) in the FB sectors; the *)
(* contents live in data sectors, each a mark word, a data area and the    *)
(* address of the next sector of the file.  Two RAM bitmaps, the FTL       *)
(* tables, say which data sectors are blank and which may be erased.       *)
(*                                                                         *)
(* Every step below makes at most one write or erase of the flash, with    *)
(* the RAM updates next to it, so that a power loss may fall between any   *)
(* two of them.  A call is an action that starts at pc = "idle"; the       *)
(* remaining steps of the call are the actions of Step.                    *)
(***************************************************************************)
EXTENDS Integers, FiniteSets

CONSTANTS
  Names,        \* file names (name and extension together)
  NoName,       \* a file block whose 12 name bytes are all 0xFF
  Empty,        \* EMPTY_INT_VALUE, the word 0xFFFFFFFF
  Garbled,      \* two different words written over one another: the model
                \* does not follow a call that uses such a word
  Slots,        \* file block positions, in address order
  SlotSector,   \* the FB sector of every slot
  NumSectors,   \* data sectors DATA_SECTOR_START .. DATA_SECTOR_END
  DataArea,     \* DATA_AREA_SIZE, bytes of file data in a sector
  WriteLens,    \* the lengths callers pass to write_file
  Methods,      \* the write methods callers use
  ReadOnly,     \* whether callers create files read-only (rw bit cleared)
  Formats,      \* TRUE when callers may format the file system
  Contract,     \* the clauses of MayUse, MayReuse and MayRename callers keep
  AnyTime,      \* TRUE when power may fail in the middle of a call
  MaxLength,    \* bound: longest file written
  MaxCrashes    \* bound: number of power losses

Sectors   == 1 .. NumSectors
FbSectors == {SlotSector[k] : k \in Slots}
Bytes     == 0 .. DataArea - 1

ASSUME SlotsAssumption ==
  /\ Slots \subseteq Nat /\ IsFiniteSet(Slots)
  /\ SlotSector \in [Slots -> Nat]
  /\ \A j, k \in Slots : j <= k => SlotSector[j] <= SlotSector[k]

ASSUME SizeAssumption ==
  /\ NumSectors \in Nat \ {0}
  /\ DataArea \in Nat \ {0}
  /\ WriteLens \subseteq Nat
  /\ MaxLength \in Nat
  /\ MaxCrashes \in Nat

ASSUME ValueAssumption ==
  /\ NoName \notin Names
  /\ Empty \notin Int
  /\ Garbled \notin Int
  /\ Garbled # Empty
  /\ Methods \subseteq {"OVERRIDE", "APPEND"}
  /\ ReadOnly \subseteq BOOLEAN
  /\ Formats \in BOOLEAN
  /\ AnyTime \in BOOLEAN
  /\ Contract \subseteq {"finish", "attached", "new_name"}

VARIABLES
  fb,         \* flash: the file blocks
  mark,       \* flash: the mark word of every data sector
  next,       \* flash: the link word of every data sector
  data,       \* flash: the bytes of every data area programmed so far
  clobbered,  \* the sectors with a byte programmed twice since its erase
  boot,       \* flash: the words at address 0, outside the file system
  erasable,   \* RAM: FTL_ERASABLE_TABLE
  writable,   \* RAM: FTL_WRITABLE_TABLE
  file,       \* RAM: the caller's File
  gcbuf,      \* RAM: the FB sector image spifs_gc writes back
  pc,         \* where the call in progress is
  job,        \* its arguments and locals
  ret,        \* the Result of the last call
  crashes     \* number of power losses so far

flash == <<fb, mark, next, data, clobbered, boot>>
ftl   == <<erasable, writable>>
vars  == <<fb, mark, next, data, clobbered, boot, erasable, writable,
           file, gcbuf, pc, job, ret, crashes>>

Words == {Empty, Garbled}

\* FileInfo: TRUE means the (active low) state bit is cleared.
FileInfo == [del : BOOLEAN, dep : BOOLEAN, ro : BOOLEAN]

FileBlock ==
  [name : Names \cup {NoName}, cluster : Sectors \cup Words,
   length : Nat \cup Words, info : FileInfo]

File ==
  [name : Names \cup {NoName}, block : Slots \cup {Empty},
   cluster : Sectors \cup Words, length : Nat \cup Words]

DefaultInfo == [del |-> FALSE, dep |-> FALSE, ro |-> FALSE]

BlankBlock ==
  [name |-> NoName, cluster |-> Empty, length |-> Empty, info |-> DefaultInfo]

BlankTable == [k \in Slots |-> BlankBlock]

NoFile == [name |-> NoName, block |-> Empty, cluster |-> Empty, length |-> Empty]

Job ==
  [op     : {"none", "create", "override", "append", "finish", "rename",
             "delete", "format"},
   len    : Nat,                       \* bytes left to write
   info   : FileInfo,                  \* finfo
   tail   : Sectors \cup Words \cup {0}, \* write_addr, 0 when not set
   todo   : SUBSET Sectors,            \* sectors still to write or erase
   head   : Sectors \cup Words,        \* sector_list[0]
   count  : Nat,                       \* sectors spifs_gc reclaimed
   fbs    : SUBSET FbSectors]          \* FB sectors to erase or write back

NoJob ==
  [op |-> "none", len |-> 0, info |-> DefaultInfo, tail |-> 0, todo |-> {},
   head |-> Empty, count |-> 0, fbs |-> {}]

Results ==
  {"NONE", "CREATE_FILE_SUCCESS", "NO_FILEBLOCK_SPACE", "FILE_ALREADY_EXIST",
   "CANNOT_WRITE_FILE", "FILE_NOT_EXIST", "NO_SECTOR_SPACE",
   "WRITE_FILE_SUCCESS", "APPEND_FILE_SUCCESS", "APPEND_FILE_FINISH",
   "FILE_CANNOT_RENAME", "FILE_RENAME_SUCCESS"}

-----------------------------------------------------------------------------
(***************************************************************************)
(* Flash words and the RAM tables.                                         *)
(***************************************************************************)

\* spi_flash_write of a word over a word: 1 bits may only become 0.
Program(old, new) ==
  IF old = Empty THEN new
  ELSE IF new \in {Empty, old} THEN old ELSE Garbled

\* write_fileblock: 24 bytes over what a slot without a name holds.
ProgramBlock(old, new) ==
  [name    |-> new.name,
   cluster |-> Program(old.cluster, new.cluster),
   length  |-> Program(old.length, new.length),
   info    |-> [del |-> old.info.del \/ new.info.del,
                dep |-> old.info.dep \/ new.info.dep,
                ro  |-> old.info.ro \/ new.info.ro]]

\* update_sector_mark: blank 0xFFFFFFFF, inuse 0xFFFFFFFA, discard 0xFFFFFFAA.
ProgramMark(old, new) == IF old = "discard" THEN old ELSE new

\* 32-bit length + n, with EMPTY_INT_VALUE = 2^32 - 1 wrapping around.
AddLength(length, n) ==
  IF length = Garbled THEN Garbled
  ELSE IF length # Empty THEN length + n
  ELSE IF n = 0 THEN Empty ELSE n - 1

HasName(block)  == block.name # NoName
IsOpen(block)   == ~block.info.del /\ ~block.info.dep

\* Seeded bug: the rights of a file are not looked at.
CanWriteMutant(block) == IsOpen(block)

CanWrite(block) == IsOpen(block) /\ ~block.info.ro

\* Slots open_file_impl finds under a name; the first one is opened.
Named(n) == {k \in Slots : IsOpen(fb[k]) /\ fb[k].name = n}

Unnamed == {k \in Slots : ~HasName(fb[k])}

\* Seeded bug: spifs_gc does not reclaim deprecated file blocks.
GarbageMutant ==
  {k \in Slots : HasName(fb[k]) /\ (fb[k].info.del \/ fb[k].cluster = Empty)}

\* File blocks spifs_gc reclaims: deleted, deprecated, or without a sector.
Garbage ==
  {k \in Slots : HasName(fb[k]) /\ (~IsOpen(fb[k]) \/ fb[k].cluster = Empty)}

IsFirst(x, S) == x \in S /\ \A y \in S : x <= y

\* The n lowest members of S, as find_empty_sector collects them.
FirstN(S, n) == {s \in S : Cardinality({t \in S : t < s}) < n}

SectorsFor(len) == (len + DataArea - 1) \div DataArea

Smaller(a, b) == IF a < b THEN a ELSE b

\* The block of the caller's File still is that of a file it can open.
Attached ==
  /\ file.block # Empty
  /\ fb[file.block].name = file.name
  /\ IsOpen(fb[file.block])

\* The caller appended to its file and did not call write_finish yet.
Unfinished == Attached /\ fb[file.block].length # file.length

-----------------------------------------------------------------------------
Init ==
  /\ fb = BlankTable
  /\ mark = [s \in Sectors |-> "blank"]
  /\ next = [s \in Sectors |-> Empty]
  /\ data = [s \in Sectors |-> {}]
  /\ clobbered = {}
  /\ boot = "intact"
  /\ erasable = {}
  /\ writable = Sectors
  /\ file = NoFile
  /\ gcbuf = BlankTable
  /\ pc = "idle"
  /\ job = NoJob
  /\ ret = "NONE"
  /\ crashes = 0

Return(r) ==
  /\ pc' = "idle"
  /\ job' = NoJob
  /\ ret' = r

\* There is no result while a call is in progress.
Goto(label) ==
  /\ pc' = label
  /\ ret' = "NONE"

\* An early return of a call that has touched nothing.
Reject(r) ==
  /\ ret' = r
  /\ UNCHANGED <<flash, ftl, file, gcbuf, pc, job, crashes>>

\* write_fileblock_state: clear one more state bit.
MarkDeprecated(k) == fb' = [fb EXCEPT ![k].info.dep = TRUE]
MarkDeleted(k)    == fb' = [fb EXCEPT ![k].info.del = TRUE]

\* spi_flash_write of the bytes S of the data area of sector s.
ProgramData(s, S) ==
  /\ data' = [data EXCEPT ![s] = @ \cup S]
  /\ clobbered' = IF data[s] \cap S = {} THEN clobbered
                                         ELSE clobbered \cup {s}

\* Seeded bug: the FTL bit of an erased sector is not cleared.
EraseSectorMutant(s) ==
  /\ mark' = [mark EXCEPT ![s] = "blank"]
  /\ next' = [next EXCEPT ![s] = Empty]
  /\ data' = [data EXCEPT ![s] = {}]
  /\ clobbered' = clobbered \ {s}
  /\ writable' = writable \cup {s}
  /\ UNCHANGED erasable

EraseSector(s) ==
  /\ mark' = [mark EXCEPT ![s] = "blank"]
  /\ next' = [next EXCEPT ![s] = Empty]
  /\ data' = [data EXCEPT ![s] = {}]
  /\ clobbered' = clobbered \ {s}
  /\ erasable' = erasable \ {s}
  /\ writable' = writable \cup {s}

EraseIndexSector(g) ==
  fb' = [k \in Slots |-> IF SlotSector[k] = g THEN BlankBlock ELSE fb[k]]

-----------------------------------------------------------------------------
(***************************************************************************)
(* The calls.                                                              *)
(***************************************************************************)

\* A caller keeping "finish" takes its File for another file only when its
\* appends are closed with write_finish.
MayReuse == "finish" \in Contract => ~Unfinished

\* One keeping "attached" gives up a File that lost its file block to an error,
\* a format or the garbage collection.
MayUse == "attached" \in Contract => file.block = Empty \/ Attached

\* One keeping "new_name" does not rename to the name of another file.
MayRename(n) == "new_name" \in Contract => Named(n) \subseteq {file.block}

\* make_file, then create_file with any state word.
CreateWith(n, info) ==
  /\ pc = "idle"
  /\ MayReuse
  /\ file' = [NoFile EXCEPT !.name = n]
  /\ job' = [NoJob EXCEPT !.op = "create", !.info = info]
  /\ Goto("create")
  /\ UNCHANGED <<flash, ftl, gcbuf, crashes>>

\* With that of make_finfo, read-only or not.
CreateCall(n, ro) == CreateWith(n, [DefaultInfo EXCEPT !.ro = ro])

\* Seeded bug: the length of the file block is not loaded.
OpenCallMutant(n) ==
  /\ pc = "idle"
  /\ MayReuse
  /\ \E k \in Named(n) :
       /\ IsFirst(k, Named(n))
       /\ file' = [NoFile EXCEPT !.name = n, !.block = k, !.cluster = fb[k].cluster]
  /\ ret' = "NONE"
  /\ UNCHANGED <<flash, ftl, gcbuf, pc, job, crashes>>

\* open_file and open_file_raw, when the file is there.
OpenCall(n) ==
  /\ pc = "idle"
  /\ MayReuse
  /\ \E k \in Named(n) :
       /\ IsFirst(k, Named(n))
       /\ file' = [name |-> n, block |-> k, cluster |-> fb[k].cluster,
                   length |-> fb[k].length]
  /\ ret' = "NONE"
  /\ UNCHANGED <<flash, ftl, gcbuf, pc, job, crashes>>

\* write_file up to the first access that changes the flash or walks it.
WriteCall(len, method) ==
  /\ pc = "idle"
  /\ MayUse
  /\ file.length \in Nat => file.length + len <= MaxLength
  /\ \/ /\ file.block = Empty
        /\ Reject("FILE_NOT_EXIST")
     \/ /\ file.block # Empty
        /\ ~CanWrite(fb[file.block])
        /\ Reject("CANNOT_WRITE_FILE")
     \/ /\ file.block # Empty
        /\ CanWrite(fb[file.block])
        /\ LET append == file.cluster # Empty /\ file.length # Empty IN
           /\ job' = [NoJob EXCEPT
                        !.op   = IF method = "OVERRIDE" THEN "override" ELSE "append",
                        !.len  = len,
                        !.info = fb[file.block].info,
                        !.tail = IF method = "APPEND" /\ append THEN file.cluster ELSE 0]
           /\ Goto(IF method = "OVERRIDE" /\ file.cluster # Empty THEN "discard"
                   ELSE IF method = "APPEND" /\ append THEN "walk" ELSE "alloc")
        /\ UNCHANGED <<flash, ftl, file, gcbuf, crashes>>

\* write_finish: fill in the length, or replace the file block.
FinishCall ==
  /\ pc = "idle"
  /\ MayUse
  /\ \/ /\ file.block = Empty
        /\ Reject("FILE_NOT_EXIST")
     \/ /\ file.block # Empty
        /\ fb[file.block].length = Empty
        /\ fb' = [fb EXCEPT ![file.block].length = Program(@, file.length)]
        /\ Return("APPEND_FILE_FINISH")
        /\ UNCHANGED <<mark, next, data, clobbered, boot, ftl, file, gcbuf, crashes>>
     \/ /\ file.block # Empty
        /\ fb[file.block].length # Empty
        /\ MarkDeprecated(file.block)
        /\ job' = [NoJob EXCEPT !.op = "finish", !.info = fb[file.block].info]
        /\ Goto("create")
        /\ UNCHANGED <<mark, next, data, clobbered, boot, ftl, file, gcbuf, crashes>>

\* rename_file: replace the file block by one with another name.
RenameCall(n) ==
  /\ pc = "idle"
  /\ MayUse
  /\ MayRename(n)
  /\ \/ /\ file.block = Empty
        /\ Reject("FILE_NOT_EXIST")
     \/ /\ file.block # Empty
        /\ ~CanWrite(fb[file.block])
        /\ Reject("FILE_CANNOT_RENAME")
     \/ /\ file.block # Empty
        /\ CanWrite(fb[file.block])
        /\ Unnamed = {}
        /\ Reject("NO_FILEBLOCK_SPACE")
     \/ /\ file.block # Empty
        /\ CanWrite(fb[file.block])
        /\ Unnamed # {}
        /\ MarkDeprecated(file.block)
        /\ file' = [file EXCEPT !.name = n]
        /\ job' = [NoJob EXCEPT !.op = "rename", !.info = fb[file.block].info]
        /\ Goto("create")
        /\ UNCHANGED <<mark, next, data, clobbered, boot, ftl, gcbuf, crashes>>

\* delete_file: mark the file block first, then discard the chain.
DeleteCall ==
  /\ pc = "idle"
  /\ MayUse
  /\ file.block # Empty
  /\ MarkDeleted(file.block)
  /\ job' = [NoJob EXCEPT !.op = "delete"]
  /\ Goto("discard")
  /\ UNCHANGED <<mark, next, data, clobbered, boot, ftl, file, gcbuf, crashes>>

\* spifs_format, or the same sectors one by one with spifs_erase_sector.
FormatCall ==
  /\ pc = "idle"
  /\ Formats
  /\ job' = [NoJob EXCEPT !.op = "format", !.fbs = FbSectors, !.todo = Sectors]
  /\ Goto("format")
  /\ UNCHANGED <<flash, ftl, file, gcbuf, crashes>>

Call ==
  \/ \E n \in Names, ro \in ReadOnly : CreateCall(n, ro)
  \/ \E n \in Names : OpenCall(n) \/ RenameCall(n)
  \/ \E len \in WriteLens, method \in Methods : WriteCall(len, method)
  \/ FinishCall
  \/ DeleteCall
  \/ FormatCall

-----------------------------------------------------------------------------
(***************************************************************************)
(* create_file, which override, write_finish and rename_file also call.    *)
(***************************************************************************)

\* What the caller of create_file makes of its result.
AfterCreate(r) ==
  LET created == r = "CREATE_FILE_SUCCESS" IN
  \/ /\ job.op = "create"
     /\ Return(r)
  \/ /\ job.op = "finish"
     /\ Return(IF created THEN "APPEND_FILE_FINISH" ELSE r)
  \/ /\ job.op = "rename"
     /\ Return(IF created THEN "FILE_RENAME_SUCCESS" ELSE "NO_FILEBLOCK_SPACE")
  \/ /\ job.op = "override"
     /\ ~created
     /\ Return("NO_FILEBLOCK_SPACE")
  \/ /\ job.op = "override"
     /\ created
     /\ Goto("alloc")
     /\ UNCHANGED job

\* A file of that name can be opened.
CreateExists ==
  /\ pc = "create"
  /\ Named(file.name) # {}
  /\ AfterCreate("FILE_ALREADY_EXIST")
  /\ UNCHANGED <<flash, ftl, file, gcbuf, crashes>>

\* Seeded bug: the check for a file of the same name is missing.
CreateBlockMutant ==
  /\ pc = "create"
  /\ \E k \in Unnamed :
       /\ IsFirst(k, Unnamed)
       /\ fb' = [fb EXCEPT ![k].name = file.name, ![k].cluster = file.cluster,
                           ![k].length = file.length, ![k].info = job.info]
       /\ file' = [file EXCEPT !.block = k]
  /\ AfterCreate("CREATE_FILE_SUCCESS")
  /\ UNCHANGED <<mark, next, data, clobbered, boot, ftl, gcbuf, crashes>>

\* Write the file block in the first slot without a name.
CreateBlock ==
  /\ pc = "create"
  /\ Named(file.name) = {}
  /\ \E k \in Unnamed :
       /\ IsFirst(k, Unnamed)
       /\ fb' = [fb EXCEPT ![k] =
                   ProgramBlock(@, [name    |-> file.name,
                                    cluster |-> file.cluster,
                                    length  |-> file.length,
                                    info    |-> job.info])]
       /\ file' = [file EXCEPT !.block = k]
  /\ AfterCreate("CREATE_FILE_SUCCESS")
  /\ UNCHANGED <<mark, next, data, clobbered, boot, ftl, gcbuf, crashes>>

\* Seeded bug: only the garbage of the erased FB sector was read into RAM.
GcIndexEraseMutant ==
  /\ pc = "create"
  /\ Named(file.name) = {}
  /\ Unnamed = {}
  /\ \E k \in Garbage : IsFirst(k, Garbage) /\ EraseIndexSector(SlotSector[k])
                       /\ job' = [job EXCEPT !.fbs = {SlotSector[k]}]
  /\ gcbuf' = BlankTable
  /\ Goto("gc_rewrite")
  /\ UNCHANGED <<mark, next, data, clobbered, boot, ftl, file, crashes>>

\* spifs_gc(GC_TYPE_FILEBLOCK, 1): erase the first FB sector with garbage; its
\* other file blocks are only in RAM until they are written back.
GcIndexErase ==
  /\ pc = "create"
  /\ Named(file.name) = {}
  /\ Unnamed = {}
  /\ \E k \in Garbage :
       /\ IsFirst(k, Garbage)
       /\ gcbuf' = [j \in Slots |->
                      IF SlotSector[j] = SlotSector[k] /\ j \notin Garbage
                      THEN fb[j] ELSE BlankBlock]
       /\ EraseIndexSector(SlotSector[k])
       /\ job' = [job EXCEPT !.fbs = {SlotSector[k]}]
  /\ Goto("gc_rewrite")
  /\ UNCHANGED <<mark, next, data, clobbered, boot, ftl, file, crashes>>

\* The write-back, then create_file looks for a slot again.
GcIndexRewrite ==
  /\ pc = "gc_rewrite"
  /\ fb' = [k \in Slots |-> IF SlotSector[k] \in job.fbs THEN gcbuf[k] ELSE fb[k]]
  /\ gcbuf' = BlankTable
  /\ job' = [job EXCEPT !.fbs = {}]
  /\ Goto("create")
  /\ UNCHANGED <<mark, next, data, clobbered, boot, ftl, file, crashes>>

CreateNoSpace ==
  /\ pc = "create"
  /\ Named(file.name) = {}
  /\ Unnamed = {}
  /\ Garbage = {}
  /\ AfterCreate("NO_FILEBLOCK_SPACE")
  /\ UNCHANGED <<flash, ftl, file, gcbuf, crashes>>

-----------------------------------------------------------------------------
(***************************************************************************)
(* The chain of an overwritten or deleted file is discarded.               *)
(***************************************************************************)
\* Seeded bug: the loop does not go on to the next sector.
DiscardStuck ==
  /\ pc = "discard"
  /\ file.cluster \in Sectors
  /\ erasable' = erasable \cup {file.cluster}
  /\ mark' = [mark EXCEPT ![file.cluster] = "discard"]
  /\ UNCHANGED <<fb, next, data, clobbered, boot, writable, file, gcbuf, pc, job,
                 ret, crashes>>

\* Seeded bug: the FTL bit of a discarded sector is not set.
DiscardUnlisted ==
  /\ pc = "discard"
  /\ file.cluster \in Sectors
  /\ mark' = [mark EXCEPT ![file.cluster] = "discard"]
  /\ file' = [file EXCEPT !.cluster = next[file.cluster]]
  /\ UNCHANGED <<fb, next, data, clobbered, boot, ftl, gcbuf, pc, job, ret, crashes>>

DiscardSector ==
  /\ pc = "discard"
  /\ file.cluster \in Sectors
  /\ erasable' = erasable \cup {file.cluster}
  /\ mark' = [mark EXCEPT ![file.cluster] = "discard"]
  /\ file' = [file EXCEPT !.cluster = next[file.cluster]]
  /\ UNCHANGED <<fb, next, data, clobbered, boot, writable, gcbuf, pc, job,
                 ret, crashes>>

\* write_file only now invalidates the file block, and makes a new one.
OverrideBlock ==
  /\ pc = "discard"
  /\ job.op = "override"
  /\ file.cluster = Empty
  /\ MarkDeprecated(file.block)
  /\ file' = [file EXCEPT !.length = Empty]
  /\ Goto("create")
  /\ UNCHANGED <<mark, next, data, clobbered, boot, ftl, gcbuf, job, crashes>>

DeleteDone ==
  /\ pc = "discard"
  /\ job.op = "delete"
  /\ file.cluster = Empty
  /\ file' = [NoFile EXCEPT !.name = file.name]
  /\ Return("NONE")
  /\ UNCHANGED <<flash, ftl, gcbuf, crashes>>

-----------------------------------------------------------------------------
(***************************************************************************)
(* write_file: the tail of an appended file, then sectors for the rest.    *)
(***************************************************************************)

\* Follow the links to the last sector.
Walk ==
  /\ pc = "walk"
  /\ job.tail \in Sectors
  /\ \/ /\ next[job.tail] # Empty
        /\ job' = [job EXCEPT !.tail = next[job.tail]]
        /\ UNCHANGED pc
     \/ /\ next[job.tail] = Empty
        /\ file.length \in Nat
        /\ pc' = IF file.length % DataArea = 0 THEN "alloc" ELSE "partial"
        /\ UNCHANGED job
  /\ UNCHANGED <<flash, ftl, file, gcbuf, ret, crashes>>

\* Seeded bug: the write starts on the last byte instead of after it.
AppendEarly ==
  /\ pc = "partial"
  /\ job.tail \in Sectors
  /\ file.length \in Nat
  /\ LET offset == (file.length - 1) % DataArea
         size   == Smaller(job.len, DataArea - offset)
     IN /\ ProgramData(job.tail, offset .. offset + size - 1)
        /\ file' = [file EXCEPT !.length = @ + size]
        /\ IF size = job.len THEN Return("APPEND_FILE_SUCCESS")
           ELSE job' = [job EXCEPT !.len = @ - size] /\ Goto("alloc")
  /\ UNCHANGED <<fb, mark, next, boot, ftl, gcbuf, crashes>>

\* Fill the last sector.
AppendToTail ==
  /\ pc = "partial"
  /\ job.tail \in Sectors
  /\ file.length \in Nat
  /\ LET offset == file.length % DataArea
         size   == Smaller(job.len, DataArea - offset)
     IN /\ ProgramData(job.tail, offset .. offset + size - 1)
        /\ file' = [file EXCEPT !.length = @ + size]
        /\ \/ /\ size = job.len
              /\ Return("APPEND_FILE_SUCCESS")
           \/ /\ size # job.len
              /\ job' = [job EXCEPT !.len = @ - size]
              /\ Goto("alloc")
  /\ UNCHANGED <<fb, mark, next, boot, ftl, gcbuf, crashes>>

\* find_empty_sector takes what it finds out of the table, enough or not.
\* With no sector to find sector_list[0] is a word of the heap nobody wrote.
Take(found) ==
  /\ writable' = writable \ found
  /\ Goto("index")
  /\ \E head \in Sectors \cup {Empty} :
       /\ found # {} => IsFirst(head, found)
       /\ job' = [job EXCEPT !.todo = found, !.head = head]

Allocate ==
  /\ pc = "alloc"
  /\ LET sectors == SectorsFor(job.len)
         found   == FirstN(writable, sectors)
     IN \/ /\ Cardinality(found) = sectors
           /\ Take(found)
        \/ /\ Cardinality(found) # sectors
           /\ writable' = writable \ found
           /\ Goto("gc_data")
           /\ UNCHANGED job
  /\ UNCHANGED <<flash, erasable, file, gcbuf, crashes>>

\* spifs_gc(GC_TYPE_DATAAREA, sectors): erase discarded sectors, lowest first.
GcDataErase ==
  /\ pc = "gc_data"
  /\ job.count < SectorsFor(job.len)
  /\ \E s \in erasable : IsFirst(s, erasable) /\ EraseSector(s)
  /\ job' = [job EXCEPT !.count = @ + 1]
  /\ UNCHANGED <<fb, boot, file, gcbuf, pc, ret, crashes>>

GcDataDone ==
  /\ pc = "gc_data"
  /\ LET sectors == SectorsFor(job.len) IN
     \/ /\ job.count >= sectors
        /\ Take(FirstN(writable, sectors))
     \/ /\ job.count < sectors
        /\ erasable = {}
        /\ Return("NO_SECTOR_SPACE")
        /\ UNCHANGED writable
  /\ UNCHANGED <<flash, erasable, file, gcbuf, crashes>>

-----------------------------------------------------------------------------
(***************************************************************************)
(* write_file: index first, then mark, data and link of each sector.       *)
(***************************************************************************)
Written ==
  IF job.op = "override" THEN "WRITE_FILE_SUCCESS" ELSE "APPEND_FILE_SUCCESS"

\* Go on with the sectors left in the list, or return.
WriteRest(rest) ==
  \/ /\ rest = {}
     /\ Return(Written)
  \/ /\ rest # {}
     /\ job' = [job EXCEPT !.todo = rest]
     /\ Goto("mark")

\* write_fileblock_cluster, for an override and for an empty file.
IndexCluster ==
  /\ pc = "index"
  /\ job.op = "override" \/ file.cluster = Empty
  /\ fb' = [fb EXCEPT ![file.block].cluster = Program(@, job.head)]
  /\ file' = [file EXCEPT !.cluster = job.head, !.length = job.len]
  /\ \/ /\ job.op = "override"
        /\ Goto("index_length")
        /\ UNCHANGED job
     \/ /\ job.op # "override"
        /\ WriteRest(job.todo)
  /\ UNCHANGED <<mark, next, data, clobbered, boot, ftl, gcbuf, crashes>>

\* write_fileblock_length.
IndexLength ==
  /\ pc = "index_length"
  /\ fb' = [fb EXCEPT ![file.block].length = Program(@, job.len)]
  /\ WriteRest(job.todo)
  /\ UNCHANGED <<mark, next, data, clobbered, boot, ftl, file, gcbuf, crashes>>

\* The link of the old tail; write_addr is still 0 when nothing set it.
IndexLink ==
  /\ pc = "index"
  /\ job.op = "append"
  /\ file.cluster # Empty
  /\ \/ /\ job.tail = 0
        /\ boot' = "overwritten"
        /\ UNCHANGED next
     \/ /\ job.tail # 0
        /\ next' = [next EXCEPT ![job.tail] = Program(@, job.head)]
        /\ UNCHANGED boot
  /\ file' = [file EXCEPT !.length = AddLength(@, job.len)]
  /\ WriteRest(job.todo)
  /\ UNCHANGED <<fb, mark, data, clobbered, ftl, gcbuf, crashes>>

\* Seeded bug: only the FTL table is updated.
MarkSectorMutant ==
  /\ pc = "mark"
  /\ \E s \in job.todo : IsFirst(s, job.todo) /\ writable' = writable \ {s}
  /\ Goto("data")
  /\ UNCHANGED <<flash, erasable, file, gcbuf, job, crashes>>

\* update_sector_mark and the FTL table.
MarkSector ==
  /\ pc = "mark"
  /\ \E s \in job.todo :
       /\ IsFirst(s, job.todo)
       /\ mark' = [mark EXCEPT ![s] = ProgramMark(@, "inuse")]
       /\ writable' = writable \ {s}
  /\ Goto("data")
  /\ UNCHANGED <<fb, next, data, clobbered, boot, erasable, file, gcbuf, job,
                 crashes>>

\* The data of the sector; length is not reduced from one sector to the next.
WriteData ==
  /\ pc = "data"
  /\ \E s \in job.todo :
       LET size == Smaller(job.len, DataArea) IN
       /\ IsFirst(s, job.todo)
       /\ ProgramData(s, 0 .. size - 1)
       /\ \/ /\ size = DataArea
             /\ job.todo # {s}
             /\ Goto("link")
             /\ UNCHANGED job
          \/ /\ size # DataArea \/ job.todo = {s}
             /\ WriteRest(job.todo \ {s})
  /\ UNCHANGED <<fb, mark, next, boot, ftl, file, gcbuf, crashes>>

LinkSector ==
  /\ pc = "link"
  /\ \E s, t \in job.todo :
       /\ IsFirst(s, job.todo)
       /\ IsFirst(t, job.todo \ {s})
       /\ next' = [next EXCEPT ![s] = Program(@, t)]
       /\ WriteRest(job.todo \ {s})
  /\ UNCHANGED <<fb, mark, data, clobbered, boot, ftl, file, gcbuf, crashes>>

-----------------------------------------------------------------------------
(***************************************************************************)
(* spifs_format: the index sectors, then the data sectors.                 *)
(***************************************************************************)
FormatIndex ==
  /\ pc = "format"
  /\ \E g \in job.fbs :
       /\ IsFirst(g, job.fbs)
       /\ EraseIndexSector(g)
       /\ job' = [job EXCEPT !.fbs = @ \ {g}]
  /\ UNCHANGED <<mark, next, data, clobbered, boot, ftl, file, gcbuf, pc, ret,
                 crashes>>

FormatData ==
  /\ pc = "format"
  /\ job.fbs = {}
  /\ \E s \in job.todo :
       /\ IsFirst(s, job.todo)
       /\ EraseSector(s)
       /\ \/ /\ job.todo = {s}
             /\ Return("NONE")
          \/ /\ job.todo # {s}
             /\ job' = [job EXCEPT !.todo = @ \ {s}]
             /\ UNCHANGED <<pc, ret>>
  /\ UNCHANGED <<fb, boot, file, gcbuf, crashes>>

-----------------------------------------------------------------------------
\* The chip resets or power is lost, and it boots: RAM is gone, spifs_ftl_init
\* reads the mark words.
Crash ==
  /\ crashes < MaxCrashes
  /\ ~AnyTime => pc = "idle" /\ MayReuse
  /\ crashes' = crashes + 1
  /\ erasable' = {s \in Sectors : mark[s] = "discard"}
  /\ writable' = {s \in Sectors : mark[s] = "blank"}
  /\ file' = NoFile
  /\ gcbuf' = BlankTable
  /\ Return("NONE")
  /\ UNCHANGED flash

Step ==
  \/ CreateExists \/ CreateBlock \/ GcIndexErase \/ GcIndexRewrite \/ CreateNoSpace
  \/ DiscardSector \/ OverrideBlock \/ DeleteDone
  \/ Walk \/ AppendToTail \/ Allocate \/ GcDataErase \/ GcDataDone
  \/ IndexCluster \/ IndexLength \/ IndexLink
  \/ MarkSector \/ WriteData \/ LinkSector
  \/ FormatIndex \/ FormatData

Next == Call \/ Step \/ Crash

\* A call, once made, runs to its return: nothing else uses the CPU.
Spec == Init /\ [][Next]_vars /\ WF_vars(Step)

-----------------------------------------------------------------------------
(***************************************************************************)
(* Properties.                                                             *)
(***************************************************************************)

\* Every variable keeps its type.
TypeOK ==
  /\ fb \in [Slots -> FileBlock]
  /\ mark \in [Sectors -> {"blank", "inuse", "discard"}]
  /\ next \in [Sectors -> Sectors \cup Words]
  /\ data \in [Sectors -> SUBSET Bytes]
  /\ clobbered \subseteq Sectors
  /\ boot \in {"intact", "overwritten"}
  /\ erasable \subseteq Sectors
  /\ writable \subseteq Sectors
  /\ file \in File
  /\ gcbuf \in [Slots -> FileBlock]
  /\ pc \in {"idle", "create", "gc_rewrite", "discard", "walk", "partial",
             "alloc", "gc_data", "index", "index_length", "mark", "data",
             "link", "format"}
  /\ job \in Job
  /\ ret \in Results
  /\ crashes \in 0 .. MaxCrashes

\* The file index as the running code knows it: while spifs_gc has an FB sector
\* erased, that sector's file blocks are those of its RAM image.
Index ==
  [k \in Slots |-> IF pc = "gc_rewrite" /\ SlotSector[k] \in job.fbs
                   THEN gcbuf[k] ELSE fb[k]]

\* Files that can be opened.
Live == {k \in Slots : HasName(Index[k]) /\ IsOpen(Index[k])}

\* No link leads out of S.
Closed(links, S) == \A s \in S : links[s] \in Sectors => links[s] \in S

\* Sectors reached from c: those of every closed set c is in.
Reached(links, c) ==
  {s \in Sectors : \A S \in SUBSET Sectors :
                     (c \in Sectors => c \in S) /\ Closed(links, S) => s \in S}

Reach(c) == Reached(next, c)

Chain(k) == Reach(Index[k].cluster)

\* The name lookup of open_file is never ambiguous: no two live file blocks
\* carry the same name, not even between the two writes that replace one.
UniqueNames == \A j, k \in Live : Index[j].name = Index[k].name => j = k

\* While spifs_gc has an FB sector erased, nothing of it is left in the flash.
GcErased ==
  pc = "gc_rewrite" => \A k \in Slots : SlotSector[k] \in job.fbs => fb[k] = BlankBlock

\* UniqueNames made inductive: a power loss in the middle of spifs_gc brings
\* back what is in the flash instead of what is in RAM.
NamesInv == TypeOK /\ UniqueNames /\ GcErased

\* The FTL tables never offer a sector that is not blank for writing, nor one
\* that is not discarded for erasing (spifs.c:3-7).
FtlSound ==
  /\ \A s \in writable : mark[s] = "blank" /\ next[s] = Empty /\ data[s] = {}
  /\ \A s \in erasable : mark[s] = "discard"

\* No data sector belongs to two live files.
NoCrossLink ==
  \A j, k \in Live : j # k => Chain(j) \cap Chain(k) = {}

\* The sector that follows s in its file.
Follow(s) == IF s \in Sectors THEN next[s] ELSE s

\* The sector the n-th link leads to from c (read_file skipping sectors).
NthSector(c, n) ==
  LET nth[i \in Nat] == IF i = 0 THEN c ELSE Follow(nth[i - 1])
  IN nth[n]

\* The byte read_file returns for position i of a file whose chain starts at c.
ReadByte(c, i) == <<NthSector(c, i \div DataArea), i % DataArea>>

\* Every byte of the file can be read back from a sector in use that was
\* programmed once.
Legible(b) ==
  \A i \in 0 .. b.length - 1 :
    LET s == ReadByte(b.cluster, i)[1] IN
    /\ s \in Sectors \ clobbered
    /\ mark[s] = "inuse"
    /\ ReadByte(b.cluster, i)[2] \in data[s]

\* Besides, its chain ends where the length says.
Whole(b) ==
  /\ Legible(b)
  /\ NthSector(b.cluster, SectorsFor(b.length)) = Empty
  /\ \A s \in Reach(b.cluster) : mark[s] = "inuse"

\* No append left anything behind the length of the file.
Ended(b) ==
  /\ NthSector(b.cluster, SectorsFor(b.length)) = Empty
  /\ \A s \in Reach(b.cluster) :
       next[s] = Empty => data[s] \subseteq 0 .. (b.length - 1) % DataArea

\* Between calls every file with a recorded length is whole; the file whose
\* append is not finished is whole up to the length the caller's File has.
WholeFiles ==
  pc = "idle" =>
    /\ \A k \in Live :
         fb[k].length # Empty /\ ~(k = file.block /\ Unfinished) => Whole(fb[k])
    /\ Unfinished /\ file.cluster # Empty => Whole(file)

\* Flash is programmed once between erases: no byte twice, no word over
\* another.
ProgramOnce ==
  /\ clobbered = {}
  /\ \A k \in Slots : Garbled \notin {fb[k].cluster, fb[k].length}
  /\ \A s \in Sectors : next[s] # Garbled

\* The file system writes inside its own sectors (spifs.h:144-150).
StaysInPartition == boot = "intact"

\* Nothing is lost but to a file: between calls every sector is offered for
\* writing, for erasing, or reachable from a file.
Reachable == UNION {Chain(k) : k \in Live}
NoSectorLost == pc = "idle" => Sectors = writable \cup erasable \cup Reachable

\* write_finish always finds room: the block it replaces can be reclaimed.
FinishSucceeds ==
  [][job.op = "finish" /\ IsOpen([info |-> job.info]) /\ pc' = "idle" =>
       ret' = "APPEND_FILE_FINISH"]_vars

\* Every call returns.
Returns == pc # "idle" ~> pc = "idle"
=============================================================================
