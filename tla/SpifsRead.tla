----------------------------- MODULE SpifsRead -----------------------------
(***************************************************************************)
(* The calls of the flash file system that only read it: read_file, the    *)
(* listing of the file index in pages, and the count of what is left, with *)
(* the requests of the UDP service that answer them (onFsListRequest,      *)
(* onFsStatusRequest).  They change nothing, so they are operators on the  *)
(* state of Spifs, and are asked in every state between two calls.         *)
(***************************************************************************)
EXTENDS Spifs, Sequences

WordSize == 4 \* sizeof(size_t)

\* Bytes at.. of a sector, in their order.
Run(s, at, size) == [i \in 1..size |-> <<s, at + i - 1>>]

\* The reads of align_read_impl into a buffer that is "misaligned" bytes past a word:
\* up to the next word, whole words, and the bytes that are left.
align_read_impl(misaligned, s, at, size) ==
  LET toread == IF misaligned = 0 THEN 0 ELSE Smaller(WordSize - misaligned, size)
      rest   == size - toread
      words  == rest - (rest % WordSize)
  IN  Run(s, at, toread) \o Run(s, at + toread, words) \o Run(s, at + toread + words, rest - words)

\* read_file into a buffer at a word: the rest of the first sector, then whole
\* sectors and the rest of the last.
read_file(f, offset, length) ==
  LET size    == Smaller(f.length - offset, length)
      sectors == offset \div DataArea
      first   == NthSector(f.cluster, sectors)
      at      == offset - sectors * DataArea
      Loop[turn \in (Sectors \cup Words) \X Bytes \X (0..size)] ==
        LET s    == turn[1]
            from == turn[2]
            left == turn[3]
            read_size == DataArea - from
            cursor    == size - left
        IN  IF left > read_size
            THEN align_read_impl(cursor % WordSize, s, from, read_size) \o
                 Loop[<<Follow(s), 0, left - read_size>>]
            ELSE align_read_impl(cursor % WordSize, s, from, left)
  IN  IF f.block = Empty \/ ~IsOpen(fb[f.block]) \/ offset >= f.length THEN <<>>
      ELSE Loop[<<first, at, size>>]

\* What open_file fills in for the file block in slot k.
Opened(k) ==
  [name |-> fb[k].name, block |-> k, cluster |-> fb[k].cluster, length |-> fb[k].length]

FirstSlot == CHOOSE k \in Slots : IsFirst(k, Slots)

\* Seeded bug: the next page begins with the last file of this one.
CursorMutant(k) == k

\* *startAddr behind a full page: the next file block, from the last one back to
\* the first.
Cursor(k) ==
  LET behind == {j \in Slots : j > k}
  IN  IF behind = {} THEN FirstSlot ELSE CHOOSE j \in behind : IsFirst(j, behind)

\* list_file shows files that have a sector, list_file_raw those whose length is
\* recorded too.
Listed    == {k \in Slots : IsOpen(fb[k]) /\ fb[k].cluster # Empty}
ListedRaw == {k \in Listed : fb[k].length # Empty}

\* One call: the files of the page, and where the next one begins.  A page that is
\* not full leaves startAddr alone.
Page(files, startAddr, max) ==
  LET found == FirstN({k \in files : k >= startAddr}, max)
  IN  [found |-> found,
       startAddr |-> IF max > 0 /\ Cardinality(found) = max
                     THEN Cursor(CHOOSE k \in found : \A j \in found : j <= k)
                     ELSE startAddr]

list_file(startAddr, max)     == Page(Listed, startAddr, max)
list_file_raw(startAddr, max) == Page(ListedRaw, startAddr, max)

\* onFsListRequest: the first page, or the one at the address kept in RTC memory.
FsList(isIndex, kept, loadSize) == list_file_raw(IF isIndex THEN FirstSlot ELSE kept, loadSize)

spifs_avail_sector == Cardinality({s \in Sectors : s \in erasable \/ s \in writable})
spifs_avail_files  == Cardinality(Unnamed)

\* onFsStatusRequest.
FsStatus == [files |-> spifs_avail_files, sectors |-> spifs_avail_sector]

-----------------------------------------------------------------------------
(***************************************************************************)
(* Properties.                                                             *)
(***************************************************************************)

\* The n-th of the requests of a client that asks for the list of files.
Answer(max, n) ==
  LET answer[i \in Nat] == IF i = 0 THEN FsList(TRUE, FirstSlot, max)
                           ELSE FsList(FALSE, answer[i - 1].startAddr, max)
  IN  answer[n].found

\* A run of bytes is read whole into a buffer at any address.
ReadsInWords ==
  \A misaligned \in 0..WordSize - 1, size \in 0..2 * WordSize + 1 :
    align_read_impl(misaligned, 1, 5, size) = Run(1, 5, size)

\* Any part of a file is read byte for byte from where its chain has it, across the
\* ends of sectors and past the end of the file (spifs.c:396).
ReadsAreExact ==
  pc = "idle" =>
    /\ ReadsInWords
    /\ \A k \in {j \in Live : fb[j].length # Empty /\ ~(j = file.block /\ Unfinished)} :
         \A offset \in 0..MaxLength, length \in 1..MaxLength :
           LET end == Smaller(fb[k].length, offset + length)
           IN  read_file(Opened(k), offset, length) =
                 [i \in 1..(IF offset < end THEN end - offset ELSE 0) |->
                    ReadByte(fb[k].cluster, offset + i - 1)]

\* Pages of any size show every file with a recorded length, once and in the order
\* of the index, in as many requests as there are files to fill the pages
\* (spifs.c:660); the request after that may begin again.
ListIsComplete ==
  pc = "idle" =>
    \A max \in 1..Cardinality(Slots), n \in 0..Cardinality(Slots) :
      n * max < Cardinality(ListedRaw) =>
        Answer(max, n) = FirstN(ListedRaw \ FirstN(ListedRaw, n * max), max)

\* What is read and listed is what was stored.
FilesAreServed == WholeFiles /\ ReadsAreExact /\ ListIsComplete

\* The FTL tables say what the mark words say, the sectors the service reports as
\* free are those no file has (spifs.c:960), and none is lost between the two.
SpaceIsCounted ==
  /\ FtlSound
  /\ NoSectorLost
  /\ pc = "idle" => FsStatus.sectors = NumSectors - Cardinality(Reachable)
=============================================================================
