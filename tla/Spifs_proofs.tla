---------------------------- MODULE Spifs_proofs ----------------------------
(***************************************************************************)
(* Proofs about the flash file system of module Spifs, for every number of *)
(* slots and sectors, every set of names, and any number of power losses:  *)
(* its types, its file names, its chains of sectors, and what they hold.   *)
(***************************************************************************)
EXTENDS Spifs, TLAPS, FiniteSetTheorems, WellFoundedInduction

USE DEF Sectors, Words

-----------------------------------------------------------------------------
(***************************************************************************)
(* The operators keep their types.                                         *)
(***************************************************************************)
LEMMA ProgramLengthType ==
  ASSUME NEW old \in Nat \cup {Empty, Garbled}, NEW new \in Nat \cup {Empty, Garbled}
  PROVE  Program(old, new) \in Nat \cup {Empty, Garbled}
  BY DEF Program

LEMMA ProgramSectorType ==
  ASSUME NEW old \in Sectors \cup Words, NEW new \in Sectors \cup Words
  PROVE  Program(old, new) \in Sectors \cup Words
  BY DEF Program

LEMMA AddLengthType ==
  ASSUME NEW length \in Nat \cup Words, NEW n \in Nat
  PROVE  AddLength(length, n) \in Nat \cup Words
  BY ValueAssumption DEF AddLength

LEMMA ProgramBlockType ==
  ASSUME NEW old \in FileBlock, NEW new \in FileBlock
  PROVE  ProgramBlock(old, new) \in FileBlock
  <1>1. Program(old.cluster, new.cluster) \in Sectors \cup Words
    BY ProgramSectorType DEF FileBlock
  <1>2. Program(old.length, new.length) \in Nat \cup Words
    BY ProgramLengthType DEF FileBlock
  <1>3. QED BY <1>1, <1>2 DEF ProgramBlock, FileBlock, FileInfo

LEMMA SectorsForType ==
  ASSUME NEW len \in Nat
  PROVE  SectorsFor(len) \in Nat
  BY SizeAssumption DEF SectorsFor

LEMMA BlankTypes ==
  /\ BlankBlock \in FileBlock
  /\ BlankTable \in [Slots -> FileBlock]
  /\ NoFile \in File
  /\ NoJob \in Job
  BY DEF BlankBlock, BlankTable, NoFile, NoJob, FileBlock, File, Job, FileInfo,
         DefaultInfo

LEMMA EmptyNotSlot == Empty \notin Slots
  <1>1. Empty \notin Nat
    BY ValueAssumption
  <1> QED BY <1>1, SlotsAssumption

LEMMA StateBitType ==
  ASSUME NEW t \in [Slots -> FileBlock], NEW k \in Slots
  PROVE  /\ [t EXCEPT ![k].info.dep = TRUE] \in [Slots -> FileBlock]
         /\ [t EXCEPT ![k].info.del = TRUE] \in [Slots -> FileBlock]
  <1>1. t[k] \in FileBlock
    OBVIOUS
  <1>2. /\ [t[k] EXCEPT !.info = [@ EXCEPT !.dep = TRUE]] \in FileBlock
        /\ [t[k] EXCEPT !.info = [@ EXCEPT !.del = TRUE]] \in FileBlock
    BY <1>1 DEF FileBlock, FileInfo
  <1>3. QED BY <1>2

LEMMA FirstNType ==
  ASSUME NEW S, NEW n
  PROVE  FirstN(S, n) \subseteq S
  BY DEF FirstN

LEMMA TypeInit == Init => TypeOK
  <1> SUFFICES ASSUME Init PROVE TypeOK
    OBVIOUS
  <1> QED BY BlankTypes, SizeAssumption DEF Init, TypeOK, Results

-----------------------------------------------------------------------------
(***************************************************************************)
(* Type correctness.                                                       *)
(***************************************************************************)
\* create_file, write_file and rename_file with any arguments a caller may have.
LEMMA CreateWithType ==
  ASSUME TypeOK, NEW n \in Names \cup {NoName}, NEW info \in FileInfo, CreateWith(n, info)
  PROVE  TypeOK'
  <1> USE ValueAssumption, BlankTypes DEF TypeOK, flash, ftl
  <1> USE DEF Goto
  <1>1. file' \in File
    BY DEF CreateWith, File, NoFile
  <1>2. job' \in Job
    BY DEF CreateWith, Job, NoJob
  <1> QED BY <1>1, <1>2 DEF CreateWith, Results

LEMMA CreateCallType ==
  ASSUME TypeOK, NEW n \in Names \cup {NoName}, NEW ro \in BOOLEAN, CreateCall(n, ro)
  PROVE  TypeOK'
  <1>1. [DefaultInfo EXCEPT !.ro = ro] \in FileInfo
    BY DEF FileInfo, DefaultInfo
  <1> QED BY <1>1, CreateWithType DEF CreateCall

LEMMA WriteCallType ==
  ASSUME TypeOK, NEW len \in Nat, NEW method, WriteCall(len, method)
  PROVE  TypeOK'
  <1> USE ValueAssumption, BlankTypes DEF TypeOK, flash, ftl
  <1> USE DEF Goto, Reject
  <1>1. CASE /\ file.block # Empty
             /\ CanWrite(fb[file.block])
             /\ UNCHANGED <<flash, ftl, file, gcbuf, crashes>>
    <2>1. file.cluster \in Sectors \cup Words /\ fb[file.block].info \in FileInfo
      BY <1>1 DEF File, FileBlock
    <2> DEFINE op   == IF method = "OVERRIDE" THEN "override" ELSE "append"
               tail == IF method = "APPEND" /\ file.cluster # Empty /\ file.length # Empty
                       THEN file.cluster ELSE 0
    <2>2. job' \in Job
      <3>1. job' = [NoJob EXCEPT !.op = op, !.len = len,
                                 !.info = fb[file.block].info, !.tail = tail]
        BY <1>1 DEF WriteCall
      <3>2. op \in {"override", "append"} /\ tail \in Sectors \cup Words \cup {0}
        BY <2>1
      <3> HIDE DEF op, tail
      <3> QED BY <2>1, <3>1, <3>2 DEF Job, NoJob
    <2> QED BY <1>1, <2>2 DEF WriteCall, Results
  <1> QED BY <1>1 DEF WriteCall, Results

LEMMA RenameCallType ==
  ASSUME TypeOK, NEW n \in Names \cup {NoName}, RenameCall(n)
  PROVE  TypeOK'
  <1> USE ValueAssumption, BlankTypes DEF TypeOK, flash, ftl
  <1> USE DEF Goto, Reject
  <1>1. CASE UNCHANGED job
    <2>1. file' \in File
      BY DEF RenameCall, File
    <2>2. fb' \in [Slots -> FileBlock]
      <3>1. MarkDeprecated(file.block) \/ UNCHANGED fb
        BY DEF RenameCall
      <3>2. file.block \in Slots \/ UNCHANGED fb
        BY DEF RenameCall, File
      <3>3. CASE UNCHANGED fb
        BY <3>3
      <3>4. CASE MarkDeprecated(file.block) /\ file.block \in Slots
        BY <3>4, StateBitType DEF MarkDeprecated
      <3> QED BY <3>1, <3>2, <3>3, <3>4
    <2> QED BY <1>1, <2>1, <2>2 DEF RenameCall, Results
  <1>2. CASE job' # job
    <2>1. file.block \in Slots /\ fb[file.block].info \in FileInfo
      BY <1>2 DEF RenameCall, File, FileBlock
    <2>2. fb' \in [Slots -> FileBlock]
      <3>1. MarkDeprecated(file.block)
        BY <1>2 DEF RenameCall
      <3> QED BY <2>1, <3>1, StateBitType DEF MarkDeprecated
    <2>3. job' \in Job
      BY ZenonT(60), <1>2, <2>1 DEF RenameCall, Job, NoJob
    <2>4. file' \in File
      BY <1>2 DEF RenameCall, File
    <2> QED BY <1>2, <2>2, <2>3, <2>4 DEF RenameCall, Results
  <1> QED BY <1>1, <1>2

LEMMA TypeNext == TypeOK /\ [Next]_vars => TypeOK'
  <1> SUFFICES ASSUME TypeOK, [Next]_vars PROVE TypeOK'
    OBVIOUS
  <1> USE ValueAssumption, BlankTypes DEF TypeOK, flash, ftl
  <1> USE DEF Goto, Return, Reject
  <1>1. ASSUME NEW n \in Names, NEW ro \in ReadOnly, CreateCall(n, ro) PROVE TypeOK'
    <2>1. ro \in BOOLEAN
      OBVIOUS
    <2> QED BY <1>1, <2>1, CreateCallType
  <1>2. ASSUME NEW n \in Names, OpenCall(n) PROVE TypeOK'
    BY <1>2 DEF OpenCall, Named, FileBlock, File, Results
  <1>3. ASSUME NEW len \in WriteLens, NEW method \in Methods, WriteCall(len, method)
        PROVE  TypeOK'
    <2>1. len \in Nat
      BY SizeAssumption
    <2> QED BY <1>3, <2>1, WriteCallType
  <1>4. CASE FinishCall
    <2>1. CASE fb[file.block].length = Empty /\ file.block # Empty
      <3>1. file.block \in Slots /\ fb[file.block] \in FileBlock
        BY <2>1 DEF File
      <3>2. Program(fb[file.block].length, file.length) \in Nat \cup Words
        BY <3>1, ProgramLengthType DEF File, FileBlock
      <3>3. [fb[file.block] EXCEPT !.length = Program(@, file.length)] \in FileBlock
        BY <3>1, <3>2 DEF FileBlock
      <3>4. fb' \in [Slots -> FileBlock]
        BY <1>4, <2>1, <3>1, <3>3 DEF FinishCall
      <3> QED BY <1>4, <2>1, <3>4 DEF FinishCall, Results
    <2>2. CASE fb[file.block].length # Empty /\ file.block # Empty
      <3>1. file.block \in Slots /\ fb[file.block].info \in FileInfo
        BY <2>2 DEF File, FileBlock
      <3>2. fb' \in [Slots -> FileBlock]
        <4>1. MarkDeprecated(file.block)
          BY <1>4, <2>2 DEF FinishCall
        <4> QED BY <3>1, <4>1, StateBitType DEF MarkDeprecated
      <3>3. job' \in Job
        BY ZenonT(60), <1>4, <2>2, <3>1 DEF FinishCall, Job, NoJob
      <3> QED BY <1>4, <2>2, <3>2, <3>3 DEF FinishCall, Results
    <2> QED BY <1>4, <2>1, <2>2 DEF FinishCall, Results
  <1>5. ASSUME NEW n \in Names, RenameCall(n) PROVE TypeOK'
    BY <1>5, RenameCallType
  <1>6. CASE DeleteCall
    <2>1. fb' \in [Slots -> FileBlock]
      BY <1>6, StateBitType DEF DeleteCall, MarkDeleted, File
    <2>2. job' \in Job
      BY <1>6 DEF DeleteCall, Job, NoJob
    <2> QED BY <1>6, <2>1, <2>2 DEF DeleteCall, Results
  <1>7. CASE FormatCall
    BY <1>7 DEF FormatCall, Job, NoJob, Results
  <1>8. CASE CreateExists
    BY <1>8 DEF CreateExists, AfterCreate, Results
  <1>9. CASE CreateBlock
    <2>1. PICK k \in Slots :
            /\ fb' = [fb EXCEPT ![k] =
                       ProgramBlock(@, [name    |-> file.name,
                                        cluster |-> file.cluster,
                                        length  |-> file.length,
                                        info    |-> job.info])]
            /\ file' = [file EXCEPT !.block = k]
      BY <1>9 DEF CreateBlock, Unnamed
    <2>2. [name |-> file.name, cluster |-> file.cluster, length |-> file.length,
           info |-> job.info] \in FileBlock
      BY DEF File, FileBlock, Job
    <2>3. fb' \in [Slots -> FileBlock]
      BY <2>1, <2>2, ProgramBlockType
    <2>4. file' \in File
      BY <2>1 DEF File
    <2> QED BY <1>9, <2>3, <2>4 DEF CreateBlock, AfterCreate, Results
  <1>10. CASE GcIndexErase
    BY <1>10 DEF GcIndexErase, EraseIndexSector, Garbage, Job, FbSectors, Results
  <1>11. CASE GcIndexRewrite
    BY <1>11 DEF GcIndexRewrite, Job, Results
  <1>12. CASE CreateNoSpace
    BY <1>12 DEF CreateNoSpace, AfterCreate, Results
  <1>13. CASE DiscardSector
    BY <1>13 DEF DiscardSector, File
  <1>14. CASE OverrideBlock
    <2>1. fb' \in [Slots -> FileBlock]
      <3>1. CASE file.block \in Slots
        BY <1>14, <3>1, StateBitType DEF OverrideBlock, MarkDeprecated
      <3>2. CASE file.block = Empty
        <4>1. file.block \notin Slots
          BY <3>2, EmptyNotSlot
        <4> QED BY <1>14, <4>1 DEF OverrideBlock, MarkDeprecated
      <3> QED BY <3>1, <3>2 DEF File
    <2>2. file' \in File
      BY <1>14 DEF OverrideBlock, File
    <2> QED BY <1>14, <2>1, <2>2 DEF OverrideBlock, Results
  <1>15. CASE DeleteDone
    BY <1>15 DEF DeleteDone, File, NoFile, Results
  <1>16. CASE Walk
    <2>1. next[job.tail] \in Sectors \cup Words
      BY <1>16 DEF Walk
    <2>2. job' \in Job
      BY <1>16, <2>1 DEF Walk, Job
    <2> QED BY <1>16, <2>2 DEF Walk
  <1>17. CASE AppendToTail
    <2> DEFINE offset == file.length % DataArea
               size   == Smaller(job.len, DataArea - offset)
    <2>1. file.length \in Nat /\ offset \in 0 .. DataArea - 1
      BY <1>17, SizeAssumption DEF AppendToTail
    <2>2. job.len \in Nat
      BY DEF Job
    <2>3. size \in Nat /\ size <= job.len /\ size <= DataArea - offset
      BY <2>1, <2>2, SizeAssumption DEF Smaller
    <2>4. offset .. offset + size - 1 \subseteq Bytes
      BY <2>1, <2>3, SizeAssumption DEF Bytes
    <2>5. data' \in [Sectors -> SUBSET Bytes]
      <3>1. data' = [data EXCEPT ![job.tail] = @ \cup (offset .. offset + size - 1)]
        BY <1>17 DEF AppendToTail, ProgramData
      <3>2. CASE job.tail \in Sectors
        <4>1. data[job.tail] \cup (offset .. offset + size - 1) \in SUBSET Bytes
          BY <2>4, <3>2
        <4> HIDE DEF offset, size
        <4> QED BY <3>1, <3>2, <4>1
      <3>3. CASE job.tail \notin Sectors
        <4> HIDE DEF offset, size
        <4> QED BY <3>1, <3>3
      <3> QED BY <3>2, <3>3
    <2>6. clobbered' \subseteq Sectors
      <3>1. job.tail \in Sectors
        BY <1>17 DEF AppendToTail
      <3> QED BY <1>17, <3>1 DEF AppendToTail, ProgramData
    <2>7. file' \in File
      <3>1. file.length + size \in Nat /\ file' = [file EXCEPT !.length = @ + size]
        BY <1>17, <2>1, <2>3 DEF AppendToTail
      <3> HIDE DEF size
      <3> QED BY <3>1 DEF File
    <2>8. job' \in Job /\ pc' \in {"idle", "alloc"} /\ ret' \in Results
      BY SMTT(30), <1>17, <2>2, <2>3 DEF AppendToTail, Job, Results
    <2> HIDE DEF offset, size
    <2> QED BY <1>17, <2>5, <2>6, <2>7, <2>8 DEF AppendToTail
  <1>18. CASE Allocate
    <2>1. ASSUME NEW found \in SUBSET Sectors, Take(found)
          PROVE  job' \in Job /\ writable' \subseteq Sectors /\ pc' = "index" /\ ret' = "NONE"
      BY ZenonT(60), <2>1 DEF Take, Job
    <2> DEFINE found == FirstN(writable, SectorsFor(job.len))
    <2>2. found \in SUBSET Sectors
      BY FirstNType
    <2> HIDE DEF found
    <2>3. \/ Take(found)
          \/ writable' = writable \ found /\ Goto("gc_data") /\ UNCHANGED job
      BY <1>18 DEF Allocate, found
    <2>4. job' \in Job /\ writable' \subseteq Sectors /\ pc' \in {"index", "gc_data"} /\ ret' = "NONE"
      BY <2>1, <2>2, <2>3
    <2> QED BY <1>18, <2>4 DEF Allocate, Results
  <1>19. CASE GcDataErase
    BY SMTT(30), <1>19 DEF GcDataErase, EraseSector, IsFirst, Job
  <1>20. CASE GcDataDone
    <2>1. ASSUME NEW found \in SUBSET Sectors, Take(found)
          PROVE  job' \in Job /\ writable' \subseteq Sectors /\ pc' = "index" /\ ret' = "NONE"
      BY ZenonT(60), <2>1 DEF Take, Job
    <2> DEFINE found == FirstN(writable, SectorsFor(job.len))
    <2>2. found \in SUBSET Sectors
      BY FirstNType
    <2> HIDE DEF found
    <2>3. \/ Take(found)
          \/ Return("NO_SECTOR_SPACE") /\ UNCHANGED writable
      BY <1>20 DEF GcDataDone, found
    <2>4. job' \in Job /\ writable' \subseteq Sectors /\ pc' \in {"index", "idle"} /\ ret' \in Results
      BY <2>1, <2>2, <2>3 DEF Results
    <2> QED BY <1>20, <2>4 DEF GcDataDone
  <1>21. CASE IndexCluster
    <2>1. job.head \in Sectors \cup Words /\ job.len \in Nat
      BY DEF Job
    <2>2. fb' \in [Slots -> FileBlock]
      <3>1. CASE file.block \in Slots
        <4>1. Program(fb[file.block].cluster, job.head) \in Sectors \cup Words
          BY <2>1, <3>1, ProgramSectorType DEF FileBlock
        <4>2. [fb[file.block] EXCEPT !.cluster = Program(@, job.head)] \in FileBlock
          BY <3>1, <4>1 DEF FileBlock
        <4> QED BY <1>21, <3>1, <4>2 DEF IndexCluster
      <3>2. CASE file.block = Empty
        <4>1. file.block \notin Slots
          BY <3>2, EmptyNotSlot
        <4> QED BY <1>21, <4>1 DEF IndexCluster
      <3> QED BY <3>1, <3>2 DEF File
    <2>3. file' \in File
      BY <1>21, <2>1 DEF IndexCluster, File
    <2>4. WriteRest(job.todo) => job' \in Job /\ pc' \in {"idle", "mark"} /\ ret' \in Results
      BY DEF WriteRest, Written, Job, Results
    <2> QED BY <1>21, <2>2, <2>3, <2>4 DEF IndexCluster, Results
  <1>22. CASE IndexLength
    <2>1. job.len \in Nat
      BY DEF Job
    <2>2. fb' \in [Slots -> FileBlock]
      <3>1. CASE file.block \in Slots
        <4>1. Program(fb[file.block].length, job.len) \in Nat \cup Words
          BY <2>1, <3>1, ProgramLengthType DEF FileBlock
        <4>2. [fb[file.block] EXCEPT !.length = Program(@, job.len)] \in FileBlock
          BY <3>1, <4>1 DEF FileBlock
        <4> QED BY <1>22, <3>1, <4>2 DEF IndexLength
      <3>2. CASE file.block = Empty
        <4>1. file.block \notin Slots
          BY <3>2, EmptyNotSlot
        <4> QED BY <1>22, <4>1 DEF IndexLength
      <3> QED BY <3>1, <3>2 DEF File
    <2>3. WriteRest(job.todo) => job' \in Job /\ pc' \in {"idle", "mark"} /\ ret' \in Results
      BY DEF WriteRest, Written, Job, Results
    <2> QED BY <1>22, <2>2, <2>3 DEF IndexLength
  <1>23. CASE IndexLink
    <2>1. job.head \in Sectors \cup Words /\ job.len \in Nat
      BY DEF Job
    <2>2. next' \in [Sectors -> Sectors \cup Words]
      BY <1>23, <2>1, ProgramSectorType DEF IndexLink
    <2>3. file' \in File
      <3>1. AddLength(file.length, job.len) \in Nat \cup Words
        BY <2>1, AddLengthType DEF File
      <3> QED BY <1>23, <3>1 DEF IndexLink, File
    <2>4. WriteRest(job.todo) => job' \in Job /\ pc' \in {"idle", "mark"} /\ ret' \in Results
      BY DEF WriteRest, Written, Job, Results
    <2> QED BY <1>23, <2>2, <2>3, <2>4 DEF IndexLink
  <1>24. CASE MarkSector
    BY <1>24 DEF MarkSector, ProgramMark, Job, Results
  <1>25. CASE WriteData
    <2> DEFINE size == Smaller(job.len, DataArea)
    <2>1. job.len \in Nat /\ job.todo \subseteq Sectors
      BY DEF Job
    <2>2. 0 .. size - 1 \subseteq Bytes
      BY <2>1, SizeAssumption DEF Smaller, Bytes
    <2> HIDE DEF size
    <2>3. PICK s \in job.todo :
            /\ ProgramData(s, 0 .. size - 1)
            /\ \/ Goto("link") /\ UNCHANGED job
               \/ WriteRest(job.todo \ {s})
      BY <1>25 DEF WriteData, size
    <2>4. data' \in [Sectors -> SUBSET Bytes] /\ clobbered' \subseteq Sectors
      BY <2>1, <2>2, <2>3 DEF ProgramData
    <2>5. WriteRest(job.todo \ {s}) => job' \in Job /\ pc' \in {"idle", "mark"} /\ ret' \in Results
      BY DEF WriteRest, Written, Job, Results
    <2>6. job' \in Job /\ pc' \in {"idle", "mark", "link"} /\ ret' \in Results
      BY <2>3, <2>5 DEF Results
    <2> QED BY <1>25, <2>4, <2>6 DEF WriteData
  <1>26. CASE LinkSector
    BY SMTT(30), <1>26, ProgramSectorType DEF LinkSector, IsFirst, WriteRest, Written, Job, Results
  <1>27. CASE FormatIndex
    BY <1>27 DEF FormatIndex, EraseIndexSector, Job
  <1>28. CASE FormatData
    BY SMTT(30), <1>28 DEF FormatData, EraseSector, IsFirst, Job, Results
  <1>29. CASE Crash
    BY <1>29, SizeAssumption DEF Crash, Results
  <1>30. CASE UNCHANGED vars
    BY <1>30 DEF vars
  <1> QED
    BY <1>1, <1>2, <1>3, <1>4, <1>5, <1>6, <1>7, <1>8, <1>9, <1>10, <1>11, <1>12,
       <1>13, <1>14, <1>15, <1>16, <1>17, <1>18, <1>19, <1>20, <1>21, <1>22, <1>23,
       <1>24, <1>25, <1>26, <1>27, <1>28, <1>29, <1>30
    DEF Next, Call, Step

\* Every variable of the file system keeps its type.
THEOREM TypeCorrect == Spec => []TypeOK
  BY TypeInit, TypeNext, PTL DEF Spec

-----------------------------------------------------------------------------
(***************************************************************************)
(* File names are unique, whatever the callers do and whenever the power   *)
(* fails.  Every step but CreateBlock only takes files out of the index.   *)
(***************************************************************************)

\* Every slot that can be opened afterwards could be opened before, under the
\* same name.
OnlyTakesOut ==
  \A k \in Slots :
    HasName(Index'[k]) /\ IsOpen(Index'[k]) =>
      HasName(Index[k]) /\ IsOpen(Index[k]) /\ Index'[k].name = Index[k].name

LEMMA TakingOutKeepsNamesUnique ==
  UniqueNames /\ OnlyTakesOut => UniqueNames'
  BY DEF UniqueNames, OnlyTakesOut, Live

\* Outside of the write-back the index is what the flash holds.
LEMMA IndexIsFlash ==
  ASSUME pc # "gc_rewrite", NEW k \in Slots
  PROVE  Index[k] = fb[k]
  BY DEF Index

LEMMA IndexIsFlashNext ==
  ASSUME pc' # "gc_rewrite", NEW k \in Slots
  PROVE  Index'[k] = fb'[k]
  BY DEF Index

\* A step that leaves the index alone.
LEMMA SameFlash ==
  ASSUME UNCHANGED fb, pc # "gc_rewrite", pc' # "gc_rewrite"
  PROVE  OnlyTakesOut
  BY IndexIsFlash, IndexIsFlashNext DEF OnlyTakesOut

\* A step that clears a state bit.
LEMMA StateBitTakesOut ==
  ASSUME TypeOK, pc # "gc_rewrite", pc' # "gc_rewrite",
         NEW b, b \in Slots \/ b = Empty,
         MarkDeprecated(b) \/ MarkDeleted(b)
  PROVE  OnlyTakesOut
  <1> SUFFICES ASSUME NEW k \in Slots, HasName(fb'[k]), IsOpen(fb'[k])
               PROVE  HasName(fb[k]) /\ IsOpen(fb[k]) /\ fb'[k].name = fb[k].name
    BY IndexIsFlash, IndexIsFlashNext DEF OnlyTakesOut
  <1>1. fb \in [Slots -> FileBlock] /\ fb[k] \in FileBlock
    BY DEF TypeOK
  <1>2. CASE b # k
    <2>1. fb'[k] = fb[k]
      BY <1>1, <1>2 DEF MarkDeprecated, MarkDeleted
    <2> QED BY <2>1
  <1>3. CASE b = k
    <2>1. \/ fb'[k] = [fb[k] EXCEPT !.info = [@ EXCEPT !.dep = TRUE]]
          \/ fb'[k] = [fb[k] EXCEPT !.info = [@ EXCEPT !.del = TRUE]]
      BY <1>1, <1>3 DEF MarkDeprecated, MarkDeleted
    <2>2. fb'[k].info.dep \/ fb'[k].info.del
      BY <1>1, <2>1 DEF FileBlock, FileInfo
    <2> QED BY <2>2 DEF IsOpen
  <1> QED BY <1>2, <1>3

\* A step that fills in the cluster or the length of a file block.
LEMMA FillingInTakesOut ==
  ASSUME TypeOK, pc # "gc_rewrite", pc' # "gc_rewrite", NEW b, NEW v,
         \/ fb' = [fb EXCEPT ![b].cluster = v]
         \/ fb' = [fb EXCEPT ![b].length = v]
  PROVE  OnlyTakesOut
  <1> SUFFICES ASSUME NEW k \in Slots
               PROVE  fb'[k].name = fb[k].name /\ fb'[k].info = fb[k].info
    BY IndexIsFlash, IndexIsFlashNext DEF OnlyTakesOut, HasName, IsOpen
  <1>1. fb \in [Slots -> FileBlock] /\ fb[k] \in FileBlock
    BY DEF TypeOK
  <1> QED BY <1>1 DEF FileBlock

LEMMA NamesInit == Init => NamesInv
  <1> SUFFICES ASSUME Init PROVE NamesInv
    OBVIOUS
  <1>1. TypeOK
    BY TypeInit
  <1>2. \A k \in Slots : ~HasName(Index[k])
    BY DEF Init, Index, BlankTable, BlankBlock, HasName
  <1>3. UniqueNames
    BY <1>2 DEF UniqueNames, Live
  <1>4. GcErased
    BY DEF Init, GcErased
  <1> QED BY <1>1, <1>3, <1>4 DEF NamesInv

LEMMA NamesNext == NamesInv /\ [Next]_vars => NamesInv'
  <1> SUFFICES ASSUME NamesInv, [Next]_vars PROVE NamesInv'
    OBVIOUS
  <1> USE DEF flash, ftl, Goto, Return, Reject
  <1>0. TypeOK /\ UniqueNames /\ GcErased /\ TypeOK'
    BY TypeNext DEF NamesInv
  <1>a. ASSUME OnlyTakesOut, pc' # "gc_rewrite" PROVE NamesInv'
    BY <1>0, <1>a, TakingOutKeepsNamesUnique DEF NamesInv, GcErased
  <1>b. ASSUME UNCHANGED fb, pc # "gc_rewrite", pc' # "gc_rewrite" PROVE NamesInv'
    BY <1>a, <1>b, SameFlash
  <1>c. file.block \in Slots \/ file.block = Empty
    BY <1>0 DEF TypeOK, File
  <1>d. ASSUME pc # "gc_rewrite", pc' # "gc_rewrite",
               MarkDeprecated(file.block) \/ MarkDeleted(file.block)
        PROVE  NamesInv'
    BY <1>0, <1>a, <1>c, <1>d, StateBitTakesOut
  <1>e. ASSUME pc # "gc_rewrite", pc' # "gc_rewrite", NEW v,
               \/ fb' = [fb EXCEPT ![file.block].cluster = v]
               \/ fb' = [fb EXCEPT ![file.block].length = v]
        PROVE  NamesInv'
    BY <1>0, <1>a, <1>e, FillingInTakesOut
  <1>1. ASSUME NEW n \in Names, NEW ro \in ReadOnly, CreateCall(n, ro) PROVE NamesInv'
    BY <1>1, <1>b DEF CreateCall, CreateWith
  <1>2. ASSUME NEW n \in Names, OpenCall(n) PROVE NamesInv'
    BY <1>2, <1>b DEF OpenCall
  <1>3. ASSUME NEW len \in WriteLens, NEW method \in Methods, WriteCall(len, method)
        PROVE  NamesInv'
    BY <1>3, <1>b DEF WriteCall
  <1>4. CASE FinishCall
    BY <1>4, <1>b, <1>d, <1>e DEF FinishCall
  <1>5. ASSUME NEW n \in Names, RenameCall(n) PROVE NamesInv'
    BY <1>5, <1>b, <1>d DEF RenameCall
  <1>6. CASE DeleteCall
    BY <1>6, <1>d DEF DeleteCall
  <1>7. CASE FormatCall
    BY <1>7, <1>b DEF FormatCall
  <1>8. CASE CreateExists
    BY <1>8, <1>b DEF CreateExists, AfterCreate
  <1>9. CASE CreateBlock
    <2>1. pc = "create" /\ pc' # "gc_rewrite"
      BY <1>9 DEF CreateBlock, AfterCreate
    <2>2. PICK k \in Slots :
            /\ ~HasName(fb[k])
            /\ fb' = [fb EXCEPT ![k] =
                       ProgramBlock(@, [name    |-> file.name,
                                        cluster |-> file.cluster,
                                        length  |-> file.length,
                                        info    |-> job.info])]
      BY <1>9 DEF CreateBlock, Unnamed
    <2>3. fb'[k].name = file.name /\ \A j \in Slots \ {k} : fb'[j] = fb[j]
      BY <1>0, <2>2 DEF TypeOK, ProgramBlock
    <2>4. \A j \in Slots : IsOpen(fb[j]) => fb[j].name # file.name
      BY <1>9 DEF CreateBlock, Named
    <2>5. ASSUME NEW i \in Slots, NEW j \in Slots, i # j,
                 IsOpen(fb'[i]), IsOpen(fb'[j]), HasName(fb'[i]), HasName(fb'[j])
          PROVE  fb'[i].name # fb'[j].name
      <3>1. CASE i = k
        BY <2>3, <2>4, <2>5, <3>1
      <3>2. CASE j = k
        BY <2>3, <2>4, <2>5, <3>2
      <3>3. CASE i # k /\ j # k
        BY <1>0, <2>1, <2>3, <2>5, <3>3, IndexIsFlash DEF UniqueNames, Live
      <3> QED BY <3>1, <3>2, <3>3
    <2>6. UniqueNames'
      BY <2>1, <2>5, IndexIsFlashNext DEF UniqueNames, Live
    <2> QED BY <1>0, <2>1, <2>6 DEF NamesInv, GcErased
  <1>10. CASE GcIndexErase
    <2>1. PICK k \in Slots :
            /\ gcbuf' = [j \in Slots |->
                           IF SlotSector[j] = SlotSector[k] /\ j \notin Garbage
                           THEN fb[j] ELSE BlankBlock]
            /\ EraseIndexSector(SlotSector[k])
            /\ job' = [job EXCEPT !.fbs = {SlotSector[k]}]
      BY <1>10 DEF GcIndexErase, Garbage
    <2>2. job'.fbs = {SlotSector[k]} /\ pc = "create" /\ pc' = "gc_rewrite"
      BY <1>0, <1>10, <2>1 DEF GcIndexErase, TypeOK, Job
    <2>3. \A j \in Slots : Index'[j] = IF SlotSector[j] = SlotSector[k] THEN gcbuf'[j] ELSE fb'[j]
      BY <2>2 DEF Index
    <2>4. OnlyTakesOut
      BY <2>1, <2>2, <2>3, IndexIsFlash
      DEF OnlyTakesOut, EraseIndexSector, BlankBlock, HasName
    <2>5. GcErased'
      BY <2>1, <2>2 DEF GcErased, EraseIndexSector
    <2> QED BY <1>0, <2>4, <2>5, TakingOutKeepsNamesUnique DEF NamesInv
  <1>11. CASE GcIndexRewrite
    <2>1. pc = "gc_rewrite" /\ pc' = "create"
      BY <1>11 DEF GcIndexRewrite
    <2>2. \A k \in Slots : Index'[k] = Index[k]
      BY <1>11, <2>1, IndexIsFlashNext DEF GcIndexRewrite, Index
    <2>3. OnlyTakesOut
      BY <2>2 DEF OnlyTakesOut
    <2> QED BY <1>a, <2>1, <2>3
  <1>12. CASE CreateNoSpace
    BY <1>12, <1>b DEF CreateNoSpace, AfterCreate
  <1>13. CASE DiscardSector
    BY <1>13, <1>b DEF DiscardSector
  <1>14. CASE OverrideBlock
    BY <1>14, <1>d DEF OverrideBlock
  <1>15. CASE DeleteDone
    BY <1>15, <1>b DEF DeleteDone
  <1>16. CASE Walk
    BY <1>16, <1>b DEF Walk
  <1>17. CASE AppendToTail
    BY <1>17, <1>b DEF AppendToTail
  <1>18. CASE Allocate
    BY <1>18, <1>b DEF Allocate, Take
  <1>19. CASE GcDataErase
    BY <1>19, <1>b DEF GcDataErase
  <1>20. CASE GcDataDone
    BY <1>20, <1>b DEF GcDataDone, Take
  <1>21. CASE IndexCluster
    BY <1>21, <1>e DEF IndexCluster, WriteRest
  <1>22. CASE IndexLength
    BY <1>22, <1>e DEF IndexLength, WriteRest
  <1>23. CASE IndexLink
    BY <1>23, <1>b DEF IndexLink, WriteRest
  <1>24. CASE MarkSector
    BY <1>24, <1>b DEF MarkSector
  <1>25. CASE WriteData
    BY <1>25, <1>b DEF WriteData, WriteRest
  <1>26. CASE LinkSector
    BY <1>26, <1>b DEF LinkSector, WriteRest
  <1>27. CASE FormatIndex
    <2>1. pc = "format" /\ pc' = "format"
      BY <1>27 DEF FormatIndex
    <2>2. \A k \in Slots : fb'[k] = fb[k] \/ ~HasName(fb'[k])
      BY <1>27 DEF FormatIndex, EraseIndexSector, BlankBlock, HasName
    <2>3. OnlyTakesOut
      BY <2>1, <2>2, IndexIsFlash, IndexIsFlashNext DEF OnlyTakesOut
    <2> QED BY <1>a, <2>1, <2>3
  <1>28. CASE FormatData
    BY <1>28, <1>b DEF FormatData
  <1>29. CASE Crash
    <2>1. UNCHANGED fb /\ pc' = "idle"
      BY <1>29 DEF Crash
    <2>2. \A k \in Slots : fb[k] = Index[k] \/ ~HasName(fb[k])
      BY <1>0 DEF Index, GcErased, BlankBlock, HasName
    <2>3. OnlyTakesOut
      BY <2>1, <2>2, IndexIsFlashNext DEF OnlyTakesOut
    <2> QED BY <1>a, <2>1, <2>3
  <1>30. CASE UNCHANGED vars
    BY <1>0, <1>30 DEF vars, NamesInv, UniqueNames, Live, Index, GcErased
  <1> QED
    BY <1>1, <1>2, <1>3, <1>4, <1>5, <1>6, <1>7, <1>8, <1>9, <1>10, <1>11, <1>12,
       <1>13, <1>14, <1>15, <1>16, <1>17, <1>18, <1>19, <1>20, <1>21, <1>22, <1>23,
       <1>24, <1>25, <1>26, <1>27, <1>28, <1>29, <1>30
    DEF Next, Call, Step

\* No two files that can be opened ever have the same name: create_file,
\* write_file, write_finish, rename_file, delete_file, the garbage collection,
\* a format and a power loss between any two flash writes all keep it so.
THEOREM NamesAreUnique == Spec => []UniqueNames
  <1>1. NamesInv => UniqueNames
    BY DEF NamesInv
  <1> QED BY <1>1, NamesInit, NamesNext, PTL DEF Spec

-----------------------------------------------------------------------------
(***************************************************************************)
(* The chains of sectors: for callers that finish their appends and give   *)
(* up a File that lost its file block, and power that fails between calls, *)
(* no data sector ever belongs to two files, the tables never offer a      *)
(* sector in use, and nothing outside the file system is written.          *)
(***************************************************************************)
HIDE DEF Sectors, Words

\* What the theorems ask of callers and of the power supply.
CallersKeepRules ==
  /\ {"finish", "attached"} \subseteq Contract
  /\ ~AnyTime
  /\ 0 \notin WriteLens

LEMMA SectorFacts ==
  /\ Sectors \subseteq Nat /\ 0 \notin Sectors /\ IsFiniteSet(Sectors)
  /\ Empty \notin Sectors /\ Garbled \notin Sectors /\ Empty # Garbled
  /\ Empty \notin Nat /\ Garbled \notin Nat
  BY SizeAssumption, ValueAssumption, FS_Interval DEF Sectors

-----------------------------------------------------------------------------
(***************************************************************************)
(* Least elements, and the sectors find_empty_sector collects.             *)
(***************************************************************************)
LEMMA LeastNatural ==
  ASSUME NEW T \in SUBSET Nat, T # {}
  PROVE  \E x \in T : IsFirst(x, T)
  <1> DEFINE R == OpToRel(<, Nat)
  <1>1. IsWellFoundedOn(R, Nat)
    BY NatLessThanWellFounded
  <1>2. ASSUME NEW x \in T, NEW y \in T, y < x PROVE <<y, x>> \in R
    BY <1>2 DEF OpToRel
  <1> HIDE DEF R
  <1>3. PICK x \in T : \A y \in T : ~ (<<y, x>> \in R)
    BY <1>1, WFMin
  <1>4. ASSUME NEW y \in T PROVE ~(y < x)
    BY <1>2, <1>3
  <1>5. \A y \in T : x <= y
    BY <1>4
  <1> QED BY <1>5 DEF IsFirst

LEMMA FirstSector ==
  ASSUME NEW S \in SUBSET Sectors, S # {}
  PROVE  \E x \in S : IsFirst(x, S)
  <1>1. S \in SUBSET Nat
    BY SectorFacts
  <1> QED BY <1>1, LeastNatural

LEMMA OnlyOneFirst ==
  ASSUME NEW S \in SUBSET Sectors, NEW x, NEW y, IsFirst(x, S), IsFirst(y, S)
  PROVE  x = y
  <1>1. x \in Int /\ y \in Int /\ x <= y /\ y <= x
    BY SectorFacts DEF IsFirst
  <1> QED BY <1>1

\* The lowest free sector is among those collected.
LEMMA FirstNHasFirst ==
  ASSUME NEW S \in SUBSET Sectors, S # {}, NEW n \in Nat, n >= 1
  PROVE  FirstN(S, n) # {}
  <1>1. PICK x \in S : IsFirst(x, S)
    BY FirstSector
  <1>2. {t \in S : t < x} = {}
    <2>1. \A t \in S : t \in Int /\ x \in Int /\ x <= t
      BY <1>1, SectorFacts DEF IsFirst
    <2> QED BY <2>1
  <1>3. Cardinality({t \in S : t < x}) = 0
    BY <1>2, FS_EmptySet
  <1> QED BY <1>3 DEF FirstN

\* Asked for one sector, it finds at most one.
LEMMA FirstNOfOne ==
  ASSUME NEW S \in SUBSET Sectors, NEW s \in FirstN(S, 1), NEW t \in FirstN(S, 1)
  PROVE  s = t
  <1>1. ASSUME NEW x \in FirstN(S, 1), NEW y \in S, y < x PROVE FALSE
    <2>1. {u \in S : u < x} \subseteq Sectors
      OBVIOUS
    <2>2. IsFiniteSet({u \in S : u < x})
      BY <2>1, SectorFacts, FS_Subset
    <2>3. Cardinality({u \in S : u < x}) \in Nat /\ Cardinality({u \in S : u < x}) # 0
      BY <1>1, <2>2, FS_EmptySet, FS_CardinalityType
    <2>4. Cardinality({u \in S : u < x}) < 1
      BY <1>1 DEF FirstN
    <2> QED BY <2>3, <2>4
  <1>2. s \in S /\ t \in S
    BY FirstNType
  <1>3. s \in Int /\ t \in Int
    BY <1>2, SectorFacts
  <1> QED BY <1>1, <1>2, <1>3

LEMMA SectorsForSome ==
  ASSUME NEW len \in Nat, len >= 1
  PROVE  /\ SectorsFor(len) \in Nat
         /\ SectorsFor(len) >= 1
         /\ len <= DataArea => SectorsFor(len) = 1
  BY SizeAssumption DEF SectorsFor

-----------------------------------------------------------------------------
(***************************************************************************)
(* Chains: the least closed set.                                           *)
(***************************************************************************)
LEMMA ReachedIsLeast ==
  ASSUME NEW links, NEW c, NEW S \in SUBSET Sectors,
         c \in Sectors => c \in S, Closed(links, S)
  PROVE  Reached(links, c) \subseteq S
  BY DEF Reached

LEMMA ReachedIsClosed ==
  ASSUME NEW links, NEW c
  PROVE  /\ Reached(links, c) \subseteq Sectors
         /\ c \in Sectors => c \in Reached(links, c)
         /\ Closed(links, Reached(links, c))
  BY DEF Reached, Closed

LEMMA ReachedFromNone ==
  ASSUME NEW links, NEW c, c \notin Sectors
  PROVE  Reached(links, c) = {}
  <1>1. Closed(links, {})
    BY DEF Closed
  <1> QED BY <1>1, ReachedIsLeast

\* The head of a chain that no link leads to is in no other chain.
LEMMA HeadIsFirst ==
  ASSUME NEW links, NEW c, NEW d, c \in Sectors, c # d,
         \A t \in Reached(links, d) : links[t] # c
  PROVE  c \notin Reached(links, d)
  <1> DEFINE S == Reached(links, d) \ {c}
  <1>1. S \in SUBSET Sectors /\ (d \in Sectors => d \in S) /\ Closed(links, S)
    BY ReachedIsClosed DEF Closed
  <1>2. Reached(links, d) \subseteq S
    BY <1>1, ReachedIsLeast
  <1> QED BY <1>2

\* Two chains are disjoint when no sector of theirs is linked to twice and none
\* links to a head.
LEMMA ChainsAreDisjoint ==
  ASSUME NEW links, NEW U \in SUBSET Sectors, NEW c, NEW d,
         Closed(links, U), c # d,
         c \in Sectors => c \in U /\ \A t \in U : links[t] # c,
         d \in Sectors => d \in U /\ \A t \in U : links[t] # d,
         \A s, t \in U : links[s] = links[t] /\ links[s] \in Sectors => s = t
  PROVE  Reached(links, c) \cap Reached(links, d) = {}
  <1> DEFINE C == Reached(links, c)
             D == Reached(links, d)
  <1>1. C \subseteq U /\ D \subseteq U
    BY ReachedIsLeast
  <1>2. CASE c \notin Sectors
    BY <1>2, ReachedFromNone
  <1>3. CASE c \in Sectors
    <2>1. c \notin D
      BY <1>1, <1>3, HeadIsFirst
    <2>2. ASSUME NEW t \in C \ D, links[t] \in Sectors PROVE links[t] \in C \ D
      <3>1. links[t] \in C
        BY <2>2, ReachedIsClosed DEF Closed
      <3>2. CASE links[t] \in D
        <4>1. \A u \in D : links[u] # links[t]
          BY <1>1, <2>2
        <4>2. links[t] # d
          BY <1>1, <2>2
        <4> QED BY <2>2, <3>2, <4>1, <4>2, HeadIsFirst
      <3> QED BY <3>1, <3>2
    <2>3. C \ D \in SUBSET Sectors /\ c \in C \ D /\ Closed(links, C \ D)
      BY <1>3, <2>1, <2>2, ReachedIsClosed DEF Closed
    <2>4. C \subseteq C \ D
      <3> HIDE DEF C, D
      <3>1. Reached(links, c) \subseteq C \ D
        BY <2>3, ReachedIsLeast
      <3> QED BY <3>1 DEF C
    <2> QED BY <2>4
  <1> QED BY <1>2, <1>3

-----------------------------------------------------------------------------
(***************************************************************************)
(* The invariant.  Between two steps of a call a chain may have no file    *)
(* block, and a sector may be linked to and not yet marked.                *)
(***************************************************************************)

\* The call's file has no file block with its chain: it is being replaced, or
\* the chain is being discarded.
Holding == pc \in {"create", "gc_rewrite", "discard"}

\* File blocks whose chain is in use.
Owners == IF pc = "discard" THEN Live \ {file.block} ELSE Live

\* write_file past its checks, and its loop over the new sectors.
Filling == pc \in {"index", "index_length", "mark", "data", "link"}
Busy    == pc \in {"walk", "partial", "alloc", "gc_data"} \/ Filling

\* What a file block or a link may lead to: the next sector to be marked is
\* linked to before it is marked.
Target(s) ==
  \/ mark[s] = "inuse"
  \/ pc \in {"index_length", "mark"} /\ IsFirst(s, job.todo)

Unlinked(s) == \A t \in Sectors : mark[t] = "inuse" => next[t] # s

\* Erased sectors are blank, and the tables say what the mark words say.
TablesInv ==
  /\ \A s \in Sectors : mark[s] = "blank" => next[s] = Empty /\ data[s] = {}
  /\ \A s \in writable : mark[s] = "blank"
  /\ \A s \in erasable : mark[s] = "discard"

\* No word was programmed over another, and a slot without a name is blank.
WordsInv ==
  /\ \A k \in Slots :
       /\ ~HasName(fb[k]) => fb[k] = BlankBlock
       /\ ~HasName(gcbuf[k]) => gcbuf[k] = BlankBlock
       /\ Garbled \notin {fb[k].cluster, fb[k].length, gcbuf[k].cluster, gcbuf[k].length}
  /\ \A s \in Sectors : next[s] # Garbled
  /\ Garbled \notin {file.cluster, file.length}
  /\ boot = "intact"

\* The caller's File has the chain of its file block.
FileInv ==
  /\ file.block # Empty => file.name \in Names
  /\ ~Holding /\ Attached => fb[file.block].cluster = file.cluster
  /\ Busy => Attached
  /\ pc # "discard" => (file.cluster = Empty <=> file.length = Empty)

\* Only the caller's file may have a chain whose length is not recorded.
LengthsInv ==
  \A k \in Live :
    /\ Index[k].cluster = Empty => Index[k].length = Empty
    /\ Index[k].cluster # Empty /\ Index[k].length = Empty =>
         k = file.block /\ Index[k].name = file.name

\* The locals of a call when it replaces a file block, discards a chain, or looks
\* for the tail and for free sectors.
CreateInv ==
  pc \in {"create", "gc_rewrite"} =>
    /\ file.name \in Names
    /\ file.block \notin Live
    /\ job.op \in {"create", "finish", "rename", "override"}
    /\ job.op \in {"create", "override"} => file.cluster = Empty
    /\ ~job.info.del /\ ~job.info.dep

DiscardInv ==
  pc = "discard" =>
    /\ job.op \in {"override", "delete"}
    /\ file.block # Empty
    /\ job.op = "override" => Attached /\ ~job.info.del /\ ~job.info.dep
    /\ job.op = "delete" => file.block \notin Live

TailInv ==
  /\ Busy => job.op \in {"override", "append"}
  /\ job.op \in {"override", "append"} => job.len >= 1
  /\ pc \in {"walk", "partial"} =>
       /\ job.op = "append" /\ file.cluster # Empty
       /\ job.tail \in Sectors /\ mark[job.tail] = "inuse"
       /\ pc = "partial" => next[job.tail] = Empty
  /\ pc \in {"alloc", "gc_data", "index"} =>
       IF job.op = "override" THEN file.cluster = Empty
       ELSE file.cluster # Empty =>
              job.tail \in Sectors /\ mark[job.tail] = "inuse" /\ next[job.tail] = Empty
  /\ pc \in {"create", "gc_rewrite", "discard", "walk", "partial", "alloc"} => job.count = 0
  /\ pc = "gc_data" /\ job.count > 0 => writable # {}
  /\ pc = "index_length" =>
       job.op = "override" /\ file.cluster # Empty /\ fb[file.block].length = Empty

\* The sectors taken for a write: blank, but for the one being written.
WritingInv ==
  /\ Filling =>
       /\ job.todo # {}
       /\ job.todo \cap writable = {}
       /\ job.len < DataArea => \A s, t \in job.todo : s = t
  /\ pc = "index" => IsFirst(job.head, job.todo)
  /\ pc \in {"index", "index_length", "mark"} => \A s \in job.todo : mark[s] = "blank"
  /\ pc \in {"data", "link"} =>
       \A s \in job.todo :
         IF IsFirst(s, job.todo)
         THEN mark[s] = "inuse" /\ next[s] = Empty /\ (pc = "data" => data[s] = {})
         ELSE mark[s] = "blank"

FormatInv ==
  pc = "format" =>
    /\ \A k \in Slots : SlotSector[k] \notin job.fbs => fb[k] = BlankBlock
    /\ \A s \in Sectors \ job.todo : mark[s] = "blank"

\* Every sector in use is linked to once, from a sector in use or from a file.
LinksInv ==
  pc # "format" =>
    /\ \A s \in Sectors : mark[s] = "inuse" /\ next[s] \in Sectors => Target(next[s])
    /\ \A s, t \in Sectors :
         mark[s] = "inuse" /\ mark[t] = "inuse" /\ next[s] = next[t] /\ next[s] \in Sectors => s = t
    /\ \A k \in Owners : Index[k].cluster \in Sectors =>
         /\ Target(Index[k].cluster)
         /\ Unlinked(Index[k].cluster)
         /\ \A j \in Owners : Index[j].cluster = Index[k].cluster => j = k
         /\ Holding => Index[k].cluster # file.cluster
    /\ Holding /\ file.cluster \in Sectors => mark[file.cluster] = "inuse" /\ Unlinked(file.cluster)

ChainsInv ==
  /\ TypeOK /\ GcErased
  /\ TablesInv /\ WordsInv /\ FileInv /\ LengthsInv
  /\ CreateInv /\ DiscardInv /\ TailInv /\ WritingInv /\ FormatInv
  /\ LinksInv /\ NoCrossLink

-----------------------------------------------------------------------------
(***************************************************************************)
(* Callers that do not keep the rules.  A transfer that is given up leaves *)
(* a file without a length, and a File may be out of date while no call    *)
(* uses it.  OrderInv is what remains of ChainsInv then; a step is orderly *)
(* if what is written, renamed or deleted is a File that is up to date.    *)
(***************************************************************************)
HandleInv ==
  /\ file.block # Empty => file.name \in Names
  /\ pc # "discard" /\ file.cluster = Empty => file.length = Empty
  /\ Busy =>
       /\ Attached /\ fb[file.block].cluster = file.cluster
       /\ file.cluster = Empty <=> file.length = Empty

\* A file without a sector has no length.
BlocksInv == \A k \in Live : Index[k].cluster = Empty => Index[k].length = Empty

OrderInv ==
  /\ TypeOK /\ GcErased
  /\ TablesInv /\ WordsInv /\ HandleInv /\ BlocksInv
  /\ CreateInv /\ DiscardInv /\ TailInv /\ WritingInv /\ FormatInv
  /\ LinksInv /\ NoCrossLink

\* The File is that of a file, and has a length if it has a sector.
Known == file.block # Empty => Attached /\ fb[file.block].cluster = file.cluster
Sized == file.block # Empty => (file.cluster = Empty <=> file.length = Empty)

OrderlyWrite(len, method) == WriteCall(len, method) /\ Known /\ Sized
OrderlyFinish    == FinishCall /\ Known /\ Sized
OrderlyRename(n) == RenameCall(n) /\ Known
OrderlyDelete    == DeleteCall /\ Known
OrderlyCrash     == Crash /\ pc = "idle"

\* A File that a caller may have.
Settled(f) ==
  /\ f \in File
  /\ f.block # Empty => f.name \in Names
  /\ Garbled \notin {f.cluster, f.length}
  /\ f.cluster = Empty => f.length = Empty

\* Between calls another caller goes on with its own File.
HandOver ==
  /\ pc = "idle"
  /\ Settled(file')
  /\ UNCHANGED <<flash, ftl, gcbuf, pc, job, ret, crashes>>

OrderlyStep ==
  \/ \E n \in Names, ro \in BOOLEAN : CreateCall(n, ro)
  \/ \E n \in Names : OpenCall(n) \/ OrderlyRename(n)
  \/ \E len \in Nat \ {0}, method \in {"OVERRIDE", "APPEND"} : OrderlyWrite(len, method)
  \/ OrderlyFinish \/ OrderlyDelete \/ FormatCall \/ OrderlyCrash \/ HandOver
  \/ Step
  \/ UNCHANGED vars

LEMMA OrderlyTypes == TypeOK /\ OrderlyStep => TypeOK'
  <1> SUFFICES ASSUME TypeOK, OrderlyStep PROVE TypeOK'
    OBVIOUS
  <1>1. ASSUME NEW n \in Names, NEW ro \in BOOLEAN, CreateCall(n, ro) PROVE TypeOK'
    BY <1>1, CreateCallType
  <1>2. ASSUME NEW n \in Names, OrderlyRename(n) PROVE TypeOK'
    BY <1>2, RenameCallType DEF OrderlyRename
  <1>3. ASSUME NEW len \in Nat \ {0}, NEW method \in {"OVERRIDE", "APPEND"}, OrderlyWrite(len, method)
        PROVE  TypeOK'
    BY <1>3, WriteCallType DEF OrderlyWrite
  <1>4. CASE HandOver
    BY <1>4 DEF HandOver, Settled, TypeOK, flash, ftl
  <1>5. CASE \/ \E n \in Names : OpenCall(n)
             \/ OrderlyFinish \/ OrderlyDelete \/ FormatCall \/ OrderlyCrash
             \/ Step \/ UNCHANGED vars
    <2>1. [Next]_vars
      BY <1>5 DEF OrderlyFinish, OrderlyDelete, OrderlyCrash, Next, Call
    <2> QED BY <2>1, TypeNext
  <1> QED BY <1>1, <1>2, <1>3, <1>4, <1>5 DEF OrderlyStep

LEMMA OrderlyTables ==
  ASSUME OrderInv, OrderlyStep
  PROVE  TablesInv'
  <1> USE DEF flash, ftl, Reject, Goto, Return
  <1>a. TypeOK /\ TypeOK' /\ TablesInv
    BY OrderlyTypes DEF OrderInv
  <1> USE <1>a DEF TypeOK
  <1>1. ASSUME NEW n \in Names, NEW ro \in BOOLEAN, CreateCall(n, ro) PROVE TablesInv'
    BY <1>1 DEF CreateCall, CreateWith, TablesInv
  <1>2. ASSUME NEW n \in Names, OpenCall(n) PROVE TablesInv'
    BY <1>2 DEF OpenCall, TablesInv
  <1>3. ASSUME NEW len \in Nat \ {0}, NEW method \in {"OVERRIDE", "APPEND"}, OrderlyWrite(len, method) PROVE TablesInv'
    BY <1>3 DEF OrderlyWrite, WriteCall, TablesInv
  <1>4. CASE OrderlyFinish
    BY <1>4 DEF OrderlyFinish, FinishCall, TablesInv
  <1>5. ASSUME NEW n \in Names, OrderlyRename(n) PROVE TablesInv'
    BY <1>5 DEF OrderlyRename, RenameCall, TablesInv
  <1>6. CASE OrderlyDelete
    BY <1>6 DEF OrderlyDelete, DeleteCall, TablesInv
  <1>7. CASE FormatCall
    BY <1>7 DEF FormatCall, TablesInv
  <1>8. CASE CreateExists
    BY <1>8 DEF CreateExists, AfterCreate, TablesInv
  <1>9. CASE CreateBlock
    BY <1>9 DEF CreateBlock, TablesInv
  <1>10. CASE GcIndexErase
    BY <1>10 DEF GcIndexErase, TablesInv
  <1>11. CASE GcIndexRewrite
    BY <1>11 DEF GcIndexRewrite, TablesInv
  <1>12. CASE CreateNoSpace
    BY <1>12 DEF CreateNoSpace, AfterCreate, TablesInv
  <1>13. CASE DiscardSector
    <2>1. mark[file.cluster] = "inuse"
      BY <1>13 DEF DiscardSector, OrderInv, LinksInv, Holding
    <2> QED BY <1>13, <2>1 DEF DiscardSector, TablesInv
  <1>14. CASE OverrideBlock
    BY <1>14 DEF OverrideBlock, TablesInv
  <1>15. CASE DeleteDone
    BY <1>15 DEF DeleteDone, TablesInv
  <1>16. CASE Walk
    BY <1>16 DEF Walk, TablesInv
  <1>17. CASE AppendToTail
    <2>1. mark[job.tail] = "inuse" /\ job.tail \in Sectors
      BY <1>17 DEF AppendToTail, OrderInv, TailInv
    <2>2. PICK S : ProgramData(job.tail, S)
      BY <1>17 DEF AppendToTail
    <2>3. UNCHANGED <<mark, next, writable, erasable>>
      BY <1>17 DEF AppendToTail
    <2> QED BY <2>1, <2>2, <2>3 DEF ProgramData, TablesInv
  <1>18. CASE Allocate
    BY <1>18 DEF Allocate, Take, TablesInv
  <1>19. CASE GcDataErase
    BY <1>19, SectorFacts DEF GcDataErase, EraseSector, IsFirst, TablesInv
  <1>20. CASE GcDataDone
    BY <1>20 DEF GcDataDone, Take, TablesInv
  <1>21. CASE IndexCluster
    BY <1>21 DEF IndexCluster, TablesInv
  <1>22. CASE IndexLength
    BY <1>22 DEF IndexLength, TablesInv
  <1>23. CASE IndexLink
    <2>1. job.tail # 0 => mark[job.tail] = "inuse"
      BY <1>23 DEF IndexLink, OrderInv, TailInv, Filling, Busy
    <2> QED BY <1>23, <2>1 DEF IndexLink, TablesInv
  <1>24. CASE MarkSector
    <2>1. \A s \in job.todo : s \in Sectors /\ mark[s] = "blank"
      BY <1>24 DEF MarkSector, OrderInv, WritingInv, Job
    <2> QED BY <1>24, <2>1 DEF MarkSector, ProgramMark, IsFirst, TablesInv
  <1>25. CASE WriteData
    <2>1. PICK s \in job.todo : IsFirst(s, job.todo) /\ \E S : ProgramData(s, S)
      BY <1>25 DEF WriteData
    <2>2. mark[s] = "inuse" /\ s \in Sectors
      BY <1>25, <2>1 DEF WriteData, OrderInv, WritingInv, Job
    <2>3. UNCHANGED <<mark, next, writable, erasable>>
      BY <1>25 DEF WriteData
    <2> QED BY <2>1, <2>2, <2>3 DEF ProgramData, TablesInv
  <1>26. CASE LinkSector
    <2>1. \A s \in job.todo : IsFirst(s, job.todo) => mark[s] = "inuse"
      BY <1>26 DEF LinkSector, OrderInv, WritingInv
    <2> QED BY <1>26, <2>1 DEF LinkSector, TablesInv
  <1>27. CASE FormatIndex
    BY <1>27 DEF FormatIndex, TablesInv
  <1>28. CASE FormatData
    BY <1>28 DEF FormatData, EraseSector, IsFirst, TablesInv
  <1>29. CASE OrderlyCrash
    BY <1>29 DEF OrderlyCrash, Crash, TablesInv
  <1>30. CASE UNCHANGED vars
    BY <1>30 DEF vars, TablesInv
  <1>31. CASE HandOver
    BY <1>31 DEF HandOver, Settled, TablesInv
  <1> QED
    BY <1>1, <1>2, <1>3, <1>4, <1>5, <1>6, <1>7, <1>8, <1>9, <1>10, <1>11, <1>12,
       <1>13, <1>14, <1>15, <1>16, <1>17, <1>18, <1>19, <1>20, <1>21, <1>22, <1>23,
       <1>24, <1>25, <1>26, <1>27, <1>28, <1>29, <1>30, <1>31
    DEF OrderlyStep, Step

\* The step takes file blocks out of the index and leaves the others alone.
KeepsBlocks == \A k \in Live' : k \in Live /\ Index'[k] = Index[k]

LEMMA SameIndex ==
  ASSUME UNCHANGED fb, pc # "gc_rewrite", pc' # "gc_rewrite"
  PROVE  /\ \A k \in Slots : Index'[k] = Index[k]
         /\ Live' = Live
  <1>1. \A k \in Slots : Index'[k] = Index[k]
    BY IndexIsFlash, IndexIsFlashNext
  <1> QED BY <1>1 DEF Live

LEMMA StateBitKeeps ==
  ASSUME TypeOK, pc # "gc_rewrite", pc' # "gc_rewrite", NEW b,
         MarkDeprecated(b) \/ MarkDeleted(b)
  PROVE  /\ KeepsBlocks
         /\ b \notin Live'
         /\ Live \ {b} \subseteq Live'
  <1>1. fb \in [Slots -> FileBlock]
    BY DEF TypeOK
  <1>2. \A k \in Slots : k # b => fb'[k] = fb[k]
    BY <1>1 DEF MarkDeprecated, MarkDeleted
  <1>3. ASSUME b \in Slots PROVE ~IsOpen(fb'[b])
    <2>1. fb[b] \in FileBlock
      BY <1>1, <1>3
    <2>2. \/ fb'[b] = [fb[b] EXCEPT !.info = [@ EXCEPT !.dep = TRUE]]
          \/ fb'[b] = [fb[b] EXCEPT !.info = [@ EXCEPT !.del = TRUE]]
      BY <1>1, <1>3 DEF MarkDeprecated, MarkDeleted
    <2>3. fb'[b].info.dep \/ fb'[b].info.del
      BY <2>1, <2>2 DEF FileBlock, FileInfo
    <2> QED BY <2>3 DEF IsOpen
  <1> QED BY <1>2, <1>3, IndexIsFlash, IndexIsFlashNext DEF KeepsBlocks, Live

LEMMA OrderlyBlocks ==
  ASSUME OrderInv, OrderlyStep,
         ~OrderlyFinish, ~CreateBlock, ~IndexCluster, ~IndexLength
  PROVE  KeepsBlocks
  <1> USE DEF flash, ftl, Goto, Return, Reject
  <1>a. TypeOK
    BY DEF OrderInv
  <1>b. ASSUME UNCHANGED fb, pc # "gc_rewrite", pc' # "gc_rewrite" PROVE KeepsBlocks
    BY <1>b, SameIndex DEF KeepsBlocks, Live
  <1>d. ASSUME pc # "gc_rewrite", pc' # "gc_rewrite",
               MarkDeprecated(file.block) \/ MarkDeleted(file.block)
        PROVE  KeepsBlocks
    BY <1>a, <1>d, StateBitKeeps
  <1>1. ASSUME NEW n \in Names, NEW ro \in BOOLEAN, CreateCall(n, ro) PROVE KeepsBlocks
    BY <1>1, <1>b DEF CreateCall, CreateWith
  <1>2. ASSUME NEW n \in Names, OpenCall(n) PROVE KeepsBlocks
    BY <1>2, <1>b DEF OpenCall
  <1>3. ASSUME NEW len \in Nat \ {0}, NEW method \in {"OVERRIDE", "APPEND"}, OrderlyWrite(len, method) PROVE KeepsBlocks
    BY <1>3, <1>b DEF OrderlyWrite, WriteCall
  <1>4. CASE OrderlyFinish
    BY <1>4
  <1>5. ASSUME NEW n \in Names, OrderlyRename(n) PROVE KeepsBlocks
    BY <1>5, <1>b, <1>d DEF OrderlyRename, RenameCall
  <1>6. CASE OrderlyDelete
    BY <1>6, <1>d DEF OrderlyDelete, DeleteCall
  <1>7. CASE FormatCall
    BY <1>7, <1>b DEF FormatCall
  <1>8. CASE CreateExists
    BY <1>8, <1>b DEF CreateExists, AfterCreate
  <1>9. CASE CreateBlock
    BY <1>9
  <1>10. CASE GcIndexErase
    <2>1. PICK k \in Slots :
            /\ gcbuf' = [j \in Slots |->
                           IF SlotSector[j] = SlotSector[k] /\ j \notin Garbage
                           THEN fb[j] ELSE BlankBlock]
            /\ EraseIndexSector(SlotSector[k])
            /\ job' = [job EXCEPT !.fbs = {SlotSector[k]}]
      BY <1>10 DEF GcIndexErase, Garbage
    <2>2. job'.fbs = {SlotSector[k]} /\ pc = "create" /\ pc' = "gc_rewrite"
      BY <1>a, <1>10, <2>1 DEF GcIndexErase, TypeOK, Job
    <2>3. \A j \in Slots : Index'[j] = IF SlotSector[j] = SlotSector[k] THEN gcbuf'[j] ELSE fb'[j]
      BY <2>2 DEF Index
    <2>4. \A j \in Slots : Index'[j] = fb[j] \/ ~HasName(Index'[j])
      BY <2>1, <2>3 DEF EraseIndexSector, BlankBlock, HasName
    <2> QED BY <2>2, <2>4, IndexIsFlash DEF KeepsBlocks, Live
  <1>11. CASE GcIndexRewrite
    <2>1. \A k \in Slots : Index'[k] = Index[k]
      BY <1>11, IndexIsFlashNext DEF GcIndexRewrite, Index
    <2> QED BY <2>1 DEF KeepsBlocks, Live
  <1>12. CASE CreateNoSpace
    BY <1>12, <1>b DEF CreateNoSpace, AfterCreate
  <1>13. CASE DiscardSector
    BY <1>13, <1>b DEF DiscardSector
  <1>14. CASE OverrideBlock
    BY <1>14, <1>d DEF OverrideBlock
  <1>15. CASE DeleteDone
    BY <1>15, <1>b DEF DeleteDone
  <1>16. CASE Walk
    BY <1>16, <1>b DEF Walk
  <1>17. CASE AppendToTail
    BY <1>17, <1>b DEF AppendToTail
  <1>18. CASE Allocate
    BY <1>18, <1>b DEF Allocate, Take
  <1>19. CASE GcDataErase
    BY <1>19, <1>b DEF GcDataErase
  <1>20. CASE GcDataDone
    BY <1>20, <1>b DEF GcDataDone, Take
  <1>21. CASE IndexCluster
    BY <1>21
  <1>22. CASE IndexLength
    BY <1>22
  <1>23. CASE IndexLink
    BY <1>23, <1>b DEF IndexLink, WriteRest
  <1>24. CASE MarkSector
    BY <1>24, <1>b DEF MarkSector
  <1>25. CASE WriteData
    BY <1>25, <1>b DEF WriteData, WriteRest
  <1>26. CASE LinkSector
    BY <1>26, <1>b DEF LinkSector, WriteRest
  <1>27. CASE FormatIndex
    <2>1. \A k \in Slots : fb'[k] = fb[k] \/ ~HasName(fb'[k])
      BY <1>27 DEF FormatIndex, EraseIndexSector, BlankBlock, HasName
    <2> QED BY <1>27, <2>1, IndexIsFlash, IndexIsFlashNext DEF FormatIndex, KeepsBlocks, Live
  <1>28. CASE FormatData
    BY <1>28, <1>b DEF FormatData
  <1>29. CASE OrderlyCrash
    BY <1>29, <1>b DEF OrderlyCrash, Crash
  <1>30. CASE UNCHANGED vars
    BY <1>30 DEF vars, KeepsBlocks, Live, Index
  <1>31. CASE HandOver
    BY <1>31, <1>b DEF HandOver
  <1> QED
    BY <1>1, <1>2, <1>3, <1>4, <1>5, <1>6, <1>7, <1>8, <1>9, <1>10, <1>11, <1>12,
       <1>13, <1>14, <1>15, <1>16, <1>17, <1>18, <1>19, <1>20, <1>21, <1>22, <1>23,
       <1>24, <1>25, <1>26, <1>27, <1>28, <1>29, <1>30, <1>31
    DEF OrderlyStep, Step

-----------------------------------------------------------------------------
(***************************************************************************)
(* What the steps that write a file block or a link do to it.              *)
(***************************************************************************)
LEMMA KnownIsAttached ==
  ASSUME Known, file.block # Empty
  PROVE  Attached /\ fb[file.block].cluster = file.cluster
  BY DEF Known

LEMMA AttachedIs ==
  ASSUME OrderInv, Attached
  PROVE  /\ file.block \in Slots
         /\ file.name \in Names
         /\ HasName(fb[file.block])
         /\ pc # "gc_rewrite" => file.block \in Live
  <1>1. file.block \in Slots /\ file.name \in Names
    BY DEF Attached, OrderInv, TypeOK, File, HandleInv
  <1>2. HasName(fb[file.block])
    BY <1>1, ValueAssumption DEF Attached, HasName
  <1> QED BY <1>1, <1>2, IndexIsFlash DEF Attached, Live

\* write_finish of a file whose length was never recorded.
LEMMA FinishDoes ==
  ASSUME OrderInv, OrderlyFinish,
         file.block # Empty, fb[file.block].length = Empty
  PROVE  /\ Attached
         /\ file.block \in Slots
         /\ fb' = [fb EXCEPT ![file.block] = [fb[file.block] EXCEPT !.length = file.length]]
         /\ pc = "idle" /\ pc' = "idle" /\ job' = NoJob
         /\ UNCHANGED <<mark, next, data, clobbered, boot, ftl, file, gcbuf, crashes>>
  <1>1. Attached
    BY KnownIsAttached DEF OrderlyFinish, FinishCall
  <1>2. file.block \in Slots
    BY <1>1, AttachedIs
  <1> QED BY <1>1, <1>2 DEF OrderlyFinish, FinishCall, Return, Reject, Program

LEMMA CreateDoes ==
  ASSUME OrderInv, CreateBlock
  PROVE  \E k \in Slots :
           /\ fb[k] = BlankBlock
           /\ fb' = [fb EXCEPT ![k] = [name |-> file.name, cluster |-> file.cluster,
                                       length |-> file.length, info |-> job.info]]
           /\ file' = [file EXCEPT !.block = k]
           /\ IsOpen(fb'[k]) /\ HasName(fb'[k])
  <1> DEFINE block == [name |-> file.name, cluster |-> file.cluster,
                       length |-> file.length, info |-> job.info]
  <1>1. PICK k \in Slots :
          /\ ~HasName(fb[k])
          /\ fb' = [fb EXCEPT ![k] = ProgramBlock(@, block)]
          /\ file' = [file EXCEPT !.block = k]
    BY DEF CreateBlock, Unnamed
  <1>2. fb[k] = BlankBlock
    BY <1>1 DEF OrderInv, WordsInv
  <1>3. /\ file.name \in Names /\ ~job.info.del /\ ~job.info.dep
        /\ job.info \in FileInfo /\ fb \in [Slots -> FileBlock]
    BY DEF CreateBlock, OrderInv, CreateInv, TypeOK, Job
  <1>4. ProgramBlock(fb[k], block) = block
    <2>1. [del |-> FALSE \/ job.info.del, dep |-> FALSE \/ job.info.dep,
           ro |-> FALSE \/ job.info.ro] = job.info
      BY <1>3 DEF FileInfo
    <2> QED BY <1>2, <2>1 DEF ProgramBlock, Program, BlankBlock, DefaultInfo
  <1>5. fb' = [fb EXCEPT ![k] = block] /\ fb'[k] = block
    BY <1>1, <1>3, <1>4
  <1>6. fb'[k].name = file.name /\ fb'[k].info = job.info
    BY <1>5
  <1>7. IsOpen(fb'[k]) /\ HasName(fb'[k])
    BY <1>3, <1>6, ValueAssumption DEF IsOpen, HasName
  <1> HIDE DEF block
  <1>8. fb[k] = BlankBlock /\ fb' = [fb EXCEPT ![k] = block] /\ file' = [file EXCEPT !.block = k]
    BY <1>1, <1>2, <1>5
  <1> QED BY <1>7, <1>8 DEF block

LEMMA IndexClusterDoes ==
  ASSUME OrderInv, IndexCluster
  PROVE  /\ Attached /\ file.block \in Slots
         /\ file.cluster = Empty
         /\ job.head \in Sectors /\ IsFirst(job.head, job.todo) /\ job.len \in Nat
         /\ fb[file.block].cluster = Empty
         /\ fb' = [fb EXCEPT ![file.block] = [fb[file.block] EXCEPT !.cluster = job.head]]
         /\ file' = [file EXCEPT !.cluster = job.head, !.length = job.len]
  <1>1. pc = "index" /\ Attached /\ IsFirst(job.head, job.todo) /\ job.todo \subseteq Sectors
    BY DEF IndexCluster, OrderInv, TypeOK, Job, HandleInv, WritingInv, Busy, Filling
  <1>2. job.head \in Sectors /\ job.len \in Nat
    BY <1>1 DEF IsFirst, OrderInv, TypeOK, Job
  <1>3. file.block \in Slots
    BY <1>1, AttachedIs
  <1>4. file.cluster = Empty
    BY <1>1 DEF IndexCluster, OrderInv, TailInv
  <1>5. fb[file.block].cluster = Empty
    BY <1>1, <1>4 DEF OrderInv, HandleInv, Busy, Filling
  <1> QED BY <1>1, <1>2, <1>3, <1>4, <1>5 DEF IndexCluster, Program

LEMMA IndexLengthDoes ==
  ASSUME OrderInv, IndexLength
  PROVE  /\ Attached /\ file.block \in Slots
         /\ fb[file.block].length = Empty
         /\ job.len \in Nat
         /\ fb' = [fb EXCEPT ![file.block] = [fb[file.block] EXCEPT !.length = job.len]]
  <1>1. pc = "index_length" /\ Attached /\ job.len \in Nat
    BY DEF IndexLength, OrderInv, TypeOK, Job, HandleInv, Busy, Filling
  <1>2. file.block \in Slots
    BY <1>1, AttachedIs
  <1>3. fb[file.block].length = Empty
    BY <1>1 DEF OrderInv, TailInv
  <1> QED BY <1>1, <1>2, <1>3 DEF IndexLength, Program

LEMMA IndexLinkDoes ==
  ASSUME OrderInv, IndexLink
  PROVE  /\ job.tail \in Sectors /\ mark[job.tail] = "inuse" /\ next[job.tail] = Empty
         /\ job.head \in Sectors /\ IsFirst(job.head, job.todo) /\ job.len \in Nat
         /\ next' = [next EXCEPT ![job.tail] = job.head] /\ UNCHANGED boot
         /\ file.length \in Nat /\ file.length + job.len \in Nat
         /\ file' = [file EXCEPT !.length = file.length + job.len]
  <1>1. pc = "index" /\ IsFirst(job.head, job.todo) /\ job.todo \subseteq Sectors
    BY DEF IndexLink, OrderInv, TypeOK, Job, WritingInv, Filling
  <1>2. job.head \in Sectors /\ job.len \in Nat
    BY <1>1 DEF IsFirst, OrderInv, TypeOK, Job
  <1>3. job.tail \in Sectors /\ mark[job.tail] = "inuse" /\ next[job.tail] = Empty
    BY DEF IndexLink, OrderInv, TailInv
  <1>4. next' = [next EXCEPT ![job.tail] = job.head] /\ UNCHANGED boot
    BY <1>3, SectorFacts DEF IndexLink, Program
  <1>5. file.length \in Nat /\ file.length # Empty
    BY SectorFacts DEF IndexLink, OrderInv, HandleInv, Busy, Filling, WordsInv, TypeOK, File, Words
  <1>6. file' = [file EXCEPT !.length = file.length + job.len]
    BY <1>5, SectorFacts DEF IndexLink, AddLength
  <1> QED BY <1>1, <1>2, <1>3, <1>4, <1>5, <1>6

LEMMA AppendDoes ==
  ASSUME OrderInv, AppendToTail
  PROVE  \E size \in Nat :
           /\ file.length \in Nat /\ file.length + size \in Nat
           /\ file' = [file EXCEPT !.length = file.length + size]
           /\ ProgramData(job.tail, (file.length % DataArea) .. (file.length % DataArea) + size - 1)
           /\ size <= job.len /\ (file.length % DataArea) + size <= DataArea
           /\ size # job.len => (file.length % DataArea) + size = DataArea
           /\ \/ size = job.len /\ Return("APPEND_FILE_SUCCESS")
              \/ size # job.len /\ job' = [job EXCEPT !.len = @ - size] /\ Goto("alloc")
  <1> DEFINE offset == file.length % DataArea
             size   == Smaller(job.len, DataArea - offset)
  <1>1. file.length \in Nat /\ offset \in 0 .. DataArea - 1
    BY SizeAssumption DEF AppendToTail
  <1>2. job.len \in Nat
    BY DEF OrderInv, TypeOK, Job
  <1>3. /\ size \in Nat /\ size <= job.len /\ offset + size <= DataArea
        /\ size # job.len => offset + size = DataArea
    BY <1>1, <1>2, SizeAssumption DEF Smaller
  <1>4. /\ ProgramData(job.tail, offset .. offset + size - 1)
        /\ file' = [file EXCEPT !.length = @ + size]
        /\ \/ size = job.len /\ Return("APPEND_FILE_SUCCESS")
           \/ size # job.len /\ job' = [job EXCEPT !.len = @ - size] /\ Goto("alloc")
    BY <1>1, <1>2, <1>3 DEF AppendToTail
  <1> HIDE DEF size
  <1>5. file.length + size \in Nat /\ file' = [file EXCEPT !.length = file.length + size]
    BY <1>1, <1>3, <1>4
  <1> QED BY <1>1, <1>3, <1>4, <1>5

-----------------------------------------------------------------------------
(***************************************************************************)
(* The words of the flash.                                                 *)
(***************************************************************************)
\* A step that writes one file block.
LEMMA BlockKeepsWords ==
  ASSUME TypeOK, WordsInv, UNCHANGED <<gcbuf, next, boot>>,
         NEW b \in Slots, NEW block, fb' = [fb EXCEPT ![b] = block],
         HasName(block), Garbled \notin {block.cluster, block.length},
         Garbled \notin {file'.cluster, file'.length}
  PROVE  WordsInv'
  <1>1. fb'[b] = block /\ \A k \in Slots : k # b => fb'[k] = fb[k]
    BY DEF TypeOK
  <1> QED BY <1>1 DEF WordsInv

LEMMA StateBitKeepsWords ==
  ASSUME TypeOK, WordsInv, UNCHANGED <<gcbuf, next, boot>>,
         NEW b \in Slots, HasName(fb[b]), MarkDeprecated(b) \/ MarkDeleted(b),
         Garbled \notin {file'.cluster, file'.length}
  PROVE  WordsInv'
  <1>1. fb \in [Slots -> FileBlock] /\ fb[b] \in FileBlock
    BY DEF TypeOK
  <1>2. PICK block : /\ fb' = [fb EXCEPT ![b] = block]
                     /\ \/ block = [fb[b] EXCEPT !.info = [@ EXCEPT !.dep = TRUE]]
                        \/ block = [fb[b] EXCEPT !.info = [@ EXCEPT !.del = TRUE]]
    BY <1>1 DEF MarkDeprecated, MarkDeleted
  <1>3. block.name = fb[b].name /\ block.cluster = fb[b].cluster /\ block.length = fb[b].length
    BY <1>1, <1>2 DEF FileBlock
  <1> QED BY <1>2, <1>3, BlockKeepsWords DEF WordsInv, HasName


LEMMA OrderlyWords ==
  ASSUME OrderInv, OrderlyStep
  PROVE  WordsInv'
  <1> USE DEF flash, ftl, Reject, Goto, Return
  <1>a. TypeOK /\ TypeOK' /\ WordsInv
    BY OrderlyTypes DEF OrderInv
  <1> USE <1>a, SectorFacts DEF TypeOK

  <1>1. ASSUME NEW n \in Names, NEW ro \in BOOLEAN, CreateCall(n, ro) PROVE WordsInv'
    BY <1>1 DEF CreateCall, CreateWith, NoFile, WordsInv
  <1>2. ASSUME NEW n \in Names, OpenCall(n) PROVE WordsInv'
    BY <1>2 DEF OpenCall, Named, WordsInv
  <1>3. ASSUME NEW len \in Nat \ {0}, NEW method \in {"OVERRIDE", "APPEND"}, OrderlyWrite(len, method) PROVE WordsInv'
    BY <1>3 DEF OrderlyWrite, WriteCall, WordsInv
  <1>4. CASE OrderlyFinish
    <2>1. CASE file.block = Empty
      BY <1>4, <2>1 DEF OrderlyFinish, FinishCall, WordsInv
    <2>2. CASE file.block # Empty /\ fb[file.block].length # Empty
      <3>1. file.block \in Slots /\ HasName(fb[file.block])
        BY <1>4, <2>2, KnownIsAttached, AttachedIs DEF OrderlyFinish, FinishCall
      <3> QED BY <1>4, <2>2, <3>1, StateBitKeepsWords DEF OrderlyFinish, FinishCall, WordsInv
    <2>3. CASE file.block # Empty /\ fb[file.block].length = Empty
      <3> DEFINE block == [fb[file.block] EXCEPT !.length = file.length]
      <3>1. /\ file.block \in Slots /\ HasName(fb[file.block])
            /\ fb' = [fb EXCEPT ![file.block] = block]
            /\ UNCHANGED <<gcbuf, next, boot, file>>
        BY <1>4, <2>3, FinishDoes, AttachedIs
      <3>2. HasName(block) /\ Garbled \notin {block.cluster, block.length}
        BY <3>1 DEF HasName, WordsInv, FileBlock
      <3> HIDE DEF block
      <3> QED BY <3>1, <3>2, BlockKeepsWords DEF WordsInv
    <2> QED BY <2>1, <2>2, <2>3
  <1>5. ASSUME NEW n \in Names, OrderlyRename(n) PROVE WordsInv'
    <2>1. CASE UNCHANGED <<fb, file>>
      BY <1>5, <2>1 DEF OrderlyRename, RenameCall, WordsInv
    <2>2. CASE /\ file.block # Empty /\ MarkDeprecated(file.block)
               /\ file' = [file EXCEPT !.name = n]
      <3>1. Attached
        BY <1>5, <2>2, KnownIsAttached DEF OrderlyRename, RenameCall
      <3>2. file.block \in Slots /\ HasName(fb[file.block])
        BY <3>1, AttachedIs
      <3> QED BY <1>5, <2>2, <3>2, StateBitKeepsWords DEF OrderlyRename, RenameCall, File, WordsInv
    <2> QED BY <1>5, <2>1, <2>2 DEF OrderlyRename, RenameCall
  <1>6. CASE OrderlyDelete
    <2>1. Attached
      BY <1>6, KnownIsAttached DEF OrderlyDelete, DeleteCall
    <2>2. file.block \in Slots /\ HasName(fb[file.block])
      BY <2>1, AttachedIs
    <2> QED BY <1>6, <2>2, StateBitKeepsWords DEF OrderlyDelete, DeleteCall, WordsInv
  <1>7. CASE FormatCall
    BY <1>7 DEF FormatCall, WordsInv
  <1>8. CASE CreateExists
    BY <1>8 DEF CreateExists, AfterCreate, WordsInv
  <1>9. CASE CreateBlock
    <2> DEFINE block == [name |-> file.name, cluster |-> file.cluster,
                         length |-> file.length, info |-> job.info]
    <2>1. PICK k \in Slots :
            /\ fb' = [fb EXCEPT ![k] = block]
            /\ file' = [file EXCEPT !.block = k]
            /\ HasName(fb'[k])
      BY <1>9, CreateDoes
    <2>2. HasName(block) /\ block.cluster = file.cluster /\ block.length = file.length
      BY <2>1
    <2>3. file'.cluster = file.cluster /\ file'.length = file.length
      BY <2>1 DEF File
    <2> HIDE DEF block
    <2> QED BY <1>9, <2>1, <2>2, <2>3, BlockKeepsWords DEF CreateBlock, WordsInv
  <1>10. CASE GcIndexErase
    BY <1>10 DEF GcIndexErase, EraseIndexSector, BlankBlock, WordsInv
  <1>11. CASE GcIndexRewrite
    BY <1>11 DEF GcIndexRewrite, BlankTable, BlankBlock, WordsInv
  <1>12. CASE CreateNoSpace
    BY <1>12 DEF CreateNoSpace, AfterCreate, WordsInv
  <1>13. CASE DiscardSector
    BY <1>13 DEF DiscardSector, WordsInv
  <1>14. CASE OverrideBlock
    <2>1. Attached
      BY <1>14 DEF OverrideBlock, OrderInv, DiscardInv
    <2>2. file.block \in Slots /\ HasName(fb[file.block])
      BY <2>1, AttachedIs
    <2> QED BY <1>14, <2>2, StateBitKeepsWords DEF OverrideBlock, File, WordsInv
  <1>15. CASE DeleteDone
    BY <1>15 DEF DeleteDone, NoFile, WordsInv
  <1>16. CASE Walk
    BY <1>16 DEF Walk, WordsInv
  <1>17. CASE AppendToTail
    <2>1. PICK size \in Nat :
            /\ file.length + size \in Nat
            /\ file' = [file EXCEPT !.length = file.length + size]
      BY <1>17, AppendDoes
    <2>2. file'.cluster = file.cluster /\ file'.length \in Nat
      BY <2>1 DEF File
    <2> QED BY <1>17, <2>2 DEF AppendToTail, WordsInv
  <1>18. CASE Allocate
    BY <1>18 DEF Allocate, Take, WordsInv
  <1>19. CASE GcDataErase
    BY <1>19 DEF GcDataErase, EraseSector, IsFirst, WordsInv
  <1>20. CASE GcDataDone
    BY <1>20 DEF GcDataDone, Take, WordsInv
  <1>21. CASE IndexCluster
    <2> DEFINE block == [fb[file.block] EXCEPT !.cluster = job.head]
    <2>1. /\ file.block \in Slots /\ HasName(fb[file.block])
          /\ job.head \in Sectors /\ job.len \in Nat
          /\ fb' = [fb EXCEPT ![file.block] = block]
          /\ file' = [file EXCEPT !.cluster = job.head, !.length = job.len]
      BY <1>21, IndexClusterDoes, AttachedIs
    <2>2. HasName(block) /\ Garbled \notin {block.cluster, block.length}
      BY <2>1 DEF HasName, WordsInv, FileBlock
    <2>3. Garbled \notin {file'.cluster, file'.length}
      BY <2>1 DEF File
    <2> HIDE DEF block
    <2> QED BY <1>21, <2>1, <2>2, <2>3, BlockKeepsWords DEF IndexCluster
  <1>22. CASE IndexLength
    <2> DEFINE block == [fb[file.block] EXCEPT !.length = job.len]
    <2>1. /\ file.block \in Slots /\ HasName(fb[file.block]) /\ job.len \in Nat
          /\ fb' = [fb EXCEPT ![file.block] = block]
      BY <1>22, IndexLengthDoes, AttachedIs
    <2>2. HasName(block) /\ Garbled \notin {block.cluster, block.length}
      BY <2>1 DEF HasName, WordsInv, FileBlock
    <2> HIDE DEF block
    <2> QED BY <1>22, <2>1, <2>2, BlockKeepsWords DEF IndexLength, WordsInv
  <1>23. CASE IndexLink
    <2>1. /\ job.tail \in Sectors /\ job.head \in Sectors
          /\ next' = [next EXCEPT ![job.tail] = job.head] /\ UNCHANGED boot
          /\ file' = [file EXCEPT !.length = file.length + job.len]
          /\ file.length + job.len \in Nat
      BY <1>23, IndexLinkDoes
    <2>2. file'.length \in Nat /\ file'.cluster = file.cluster
      BY <2>1 DEF File
    <2> QED BY <1>23, <2>1, <2>2 DEF IndexLink, WordsInv
  <1>24. CASE MarkSector
    BY <1>24 DEF MarkSector, WordsInv
  <1>25. CASE WriteData
    BY <1>25 DEF WriteData, ProgramData, WordsInv
  <1>26. CASE LinkSector
    <2>1. PICK s \in job.todo, t \in job.todo :
            IsFirst(s, job.todo) /\ next' = [next EXCEPT ![s] = Program(@, t)]
      BY <1>26 DEF LinkSector, IsFirst
    <2>2. next[s] = Empty /\ s \in Sectors /\ t \in Sectors
      BY <1>26, <2>1 DEF LinkSector, OrderInv, WritingInv, Job
    <2> QED BY <1>26, <2>1, <2>2 DEF LinkSector, Program, WordsInv
  <1>27. CASE FormatIndex
    BY <1>27 DEF FormatIndex, EraseIndexSector, BlankBlock, WordsInv
  <1>28. CASE FormatData
    BY <1>28 DEF FormatData, EraseSector, IsFirst, WordsInv
  <1>29. CASE OrderlyCrash
    BY <1>29 DEF OrderlyCrash, Crash, NoFile, BlankTable, BlankBlock, WordsInv
  <1>30. CASE UNCHANGED vars
    BY <1>30 DEF vars, WordsInv
  <1>31. CASE HandOver
    BY <1>31 DEF HandOver, Settled, WordsInv
  <1> QED
    BY <1>1, <1>2, <1>3, <1>4, <1>5, <1>6, <1>7, <1>8, <1>9, <1>10, <1>11, <1>12,
       <1>13, <1>14, <1>15, <1>16, <1>17, <1>18, <1>19, <1>20, <1>21, <1>22, <1>23,
       <1>24, <1>25, <1>26, <1>27, <1>28, <1>29, <1>30, <1>31
    DEF OrderlyStep, Step

-----------------------------------------------------------------------------
(***************************************************************************)
(* The caller's File.                                                      *)
(***************************************************************************)
LEMMA OrderlyFile ==
  ASSUME OrderInv, OrderlyStep
  PROVE  HandleInv'
  <1> USE DEF flash, ftl, Reject, Goto, Return
  <1>a. TypeOK /\ TypeOK' /\ HandleInv /\ BlocksInv
    BY OrderlyTypes DEF OrderInv
  <1> USE <1>a, SectorFacts DEF TypeOK

  <1>1. ASSUME NEW n \in Names, NEW ro \in BOOLEAN, CreateCall(n, ro) PROVE HandleInv'
    BY <1>1 DEF CreateCall, CreateWith, NoFile, HandleInv, Holding, Busy, Filling, Attached
  <1>2. ASSUME NEW n \in Names, OpenCall(n) PROVE HandleInv'
    <2>1. PICK k \in Slots :
            /\ IsOpen(fb[k]) /\ fb[k].name = n
            /\ file' = [name |-> n, block |-> k, cluster |-> fb[k].cluster, length |-> fb[k].length]
      BY <1>2 DEF OpenCall, Named
    <2>2. pc = "idle" /\ pc' = "idle" /\ UNCHANGED fb
      BY <1>2 DEF OpenCall
    <2>3. fb[k].cluster = Empty => fb[k].length = Empty
      <3>1. k \in Live /\ Index[k] = fb[k]
        BY <2>1, <2>2, IndexIsFlash, ValueAssumption DEF Live, HasName
      <3> QED BY <3>1 DEF BlocksInv
    <2> QED BY <2>1, <2>2, <2>3 DEF HandleInv, Holding, Busy, Filling, Attached
  <1>3. ASSUME NEW len \in Nat \ {0}, NEW method \in {"OVERRIDE", "APPEND"}, OrderlyWrite(len, method) PROVE HandleInv'
    <2>1. UNCHANGED <<fb, file>> /\ pc = "idle"
      BY <1>3 DEF OrderlyWrite, WriteCall
    <2>2. pc' # pc => /\ Attached /\ fb[file.block].cluster = file.cluster
                      /\ file.cluster = Empty <=> file.length = Empty
      BY <1>3 DEF OrderlyWrite, WriteCall, Known, Sized
    <2> QED BY <2>1, <2>2 DEF HandleInv, Holding, Busy, Filling, Attached
  <1>4. CASE OrderlyFinish
    <2>1. CASE file.block = Empty
      BY <1>4, <2>1 DEF OrderlyFinish, FinishCall, HandleInv, Holding, Busy, Filling, Attached
    <2>2. CASE file.block # Empty /\ fb[file.block].length # Empty
      BY <1>4, <2>2 DEF OrderlyFinish, FinishCall, HandleInv, Holding, Busy, Filling, Attached
    <2>3. CASE file.block # Empty /\ fb[file.block].length = Empty
      <3>1. /\ Attached /\ file.block \in Slots
            /\ fb' = [fb EXCEPT ![file.block] = [fb[file.block] EXCEPT !.length = file.length]]
            /\ UNCHANGED file /\ pc = "idle" /\ pc' = "idle"
        BY <1>4, <2>3, FinishDoes
      <3>2. fb'[file.block].cluster = fb[file.block].cluster
        BY <3>1 DEF FileBlock
      <3> QED BY <3>1, <3>2 DEF HandleInv, Holding, Busy, Filling
    <2> QED BY <2>1, <2>2, <2>3
  <1>5. ASSUME NEW n \in Names, OrderlyRename(n) PROVE HandleInv'
    <2>1. CASE UNCHANGED <<fb, file, pc>>
      BY <2>1 DEF HandleInv, Holding, Busy, Filling, Attached
    <2>2. CASE file' = [file EXCEPT !.name = n] /\ pc = "idle" /\ pc' = "create"
      BY <2>2 DEF HandleInv, Holding, Busy, Filling, File
    <2> QED BY <1>5, <2>1, <2>2 DEF OrderlyRename, RenameCall
  <1>6. CASE OrderlyDelete
    BY <1>6 DEF OrderlyDelete, DeleteCall, HandleInv, Holding, Busy, Filling, Attached
  <1>7. CASE FormatCall
    BY <1>7 DEF FormatCall, HandleInv, Holding, Busy, Filling, Attached
  <1>8. CASE CreateExists
    <2>1. ~Attached
      BY <1>8, AttachedIs DEF CreateExists, OrderInv, CreateInv
    <2>2. pc' = "idle" /\ UNCHANGED <<fb, file>> /\ pc = "create"
      BY <1>8 DEF CreateExists, AfterCreate
    <2> QED BY <2>1, <2>2 DEF HandleInv, Holding, Busy, Filling, Attached
  <1>9. CASE CreateBlock
    <2>1. PICK k \in Slots :
            /\ fb' = [fb EXCEPT ![k] = [name |-> file.name, cluster |-> file.cluster,
                                        length |-> file.length, info |-> job.info]]
            /\ file' = [file EXCEPT !.block = k]
            /\ IsOpen(fb'[k])
      BY <1>9, CreateDoes
    <2>2. /\ file'.block = k /\ file'.name = file.name
          /\ file'.cluster = file.cluster /\ file'.length = file.length
      BY <2>1 DEF File
    <2>3. fb'[k].name = file.name /\ fb'[k].cluster = file.cluster
      BY <2>1
    <2>4. pc = "create" /\ file.name \in Names
      BY <1>9 DEF CreateBlock, OrderInv, CreateInv
    <2>5. Attached'
      BY <2>1, <2>2, <2>3, EmptyNotSlot DEF Attached
    <2>6. Busy' => file.cluster = Empty
      BY <1>9 DEF CreateBlock, AfterCreate, OrderInv, CreateInv, Busy, Filling
    <2> QED BY <2>2, <2>3, <2>4, <2>5, <2>6 DEF HandleInv
  <1>10. CASE GcIndexErase
    BY <1>10 DEF GcIndexErase, EraseIndexSector, HandleInv, Holding, Busy, Filling, Attached
  <1>11. CASE GcIndexRewrite
    BY <1>11 DEF GcIndexRewrite, HandleInv, Holding, Busy, Filling, Attached
  <1>12. CASE CreateNoSpace
    <2>1. ~Attached
      BY <1>12, AttachedIs DEF CreateNoSpace, OrderInv, CreateInv
    <2>2. pc' = "idle" /\ UNCHANGED <<fb, file>> /\ pc = "create"
      BY <1>12 DEF CreateNoSpace, AfterCreate
    <2> QED BY <2>1, <2>2 DEF HandleInv, Holding, Busy, Filling, Attached
  <1>13. CASE DiscardSector
    BY <1>13 DEF DiscardSector, HandleInv, Holding, Busy, Filling, Attached
  <1>14. CASE OverrideBlock
    BY <1>14 DEF OverrideBlock, HandleInv, Holding, Busy, Filling, Attached
  <1>15. CASE DeleteDone
    BY <1>15 DEF DeleteDone, NoFile, HandleInv, Holding, Busy, Filling, Attached
  <1>16. CASE Walk
    BY <1>16 DEF Walk, HandleInv, Holding, Busy, Filling, Attached
  <1>17. CASE AppendToTail
    <2>1. PICK size \in Nat :
            /\ file.length + size \in Nat
            /\ file' = [file EXCEPT !.length = file.length + size]
      BY <1>17, AppendDoes
    <2>2. UNCHANGED <<file.cluster, file.block, file.name, fb>> /\ file'.length \in Nat
      BY <1>17, <2>1 DEF AppendToTail, File
    <2>3. file.cluster # Empty /\ pc = "partial"
      BY <1>17 DEF AppendToTail, OrderInv, TailInv
    <2> QED BY <2>2, <2>3 DEF HandleInv, Holding, Busy, Filling, Attached
  <1>18. CASE Allocate
    BY <1>18 DEF Allocate, Take, HandleInv, Holding, Busy, Filling, Attached
  <1>19. CASE GcDataErase
    BY <1>19 DEF GcDataErase, EraseSector, IsFirst, HandleInv, Holding, Busy, Filling, Attached
  <1>20. CASE GcDataDone
    BY <1>20 DEF GcDataDone, Take, HandleInv, Holding, Busy, Filling, Attached
  <1>21. CASE IndexCluster
    <2>1. /\ Attached /\ file.block \in Slots
          /\ job.head \in Sectors /\ job.len \in Nat
          /\ fb' = [fb EXCEPT ![file.block] = [fb[file.block] EXCEPT !.cluster = job.head]]
          /\ file' = [file EXCEPT !.cluster = job.head, !.length = job.len]
      BY <1>21, IndexClusterDoes
    <2>2. /\ fb'[file.block].cluster = job.head /\ fb'[file.block].name = fb[file.block].name
          /\ fb'[file.block].info = fb[file.block].info
      BY <2>1 DEF FileBlock
    <2>3. /\ UNCHANGED <<file.block, file.name>>
          /\ file'.cluster = job.head /\ file'.length = job.len
      BY <2>1 DEF File
    <2>4. Attached'
      BY <2>1, <2>2, <2>3 DEF Attached, IsOpen
    <2> QED BY <2>1, <2>2, <2>3, <2>4 DEF HandleInv, Attached
  <1>22. CASE IndexLength
    <2>1. /\ Attached /\ file.block \in Slots
          /\ fb' = [fb EXCEPT ![file.block] = [fb[file.block] EXCEPT !.length = job.len]]
      BY <1>22, IndexLengthDoes
    <2>2. /\ fb'[file.block].cluster = fb[file.block].cluster
          /\ fb'[file.block].name = fb[file.block].name
          /\ fb'[file.block].info = fb[file.block].info
      BY <2>1 DEF FileBlock
    <2>3. UNCHANGED file /\ pc = "index_length" /\ pc' # "discard"
      BY <1>22 DEF IndexLength, WriteRest
    <2>4. Attached'
      BY <2>1, <2>2, <2>3 DEF Attached, IsOpen
    <2> QED BY <2>2, <2>3, <2>4, <2>1 DEF HandleInv, Busy, Filling
  <1>23. CASE IndexLink
    <2>1. /\ file.length + job.len \in Nat
          /\ file' = [file EXCEPT !.length = file.length + job.len]
      BY <1>23, IndexLinkDoes
    <2>2. UNCHANGED <<file.cluster, file.block, file.name, fb>> /\ file'.length \in Nat
      BY <1>23, <2>1 DEF IndexLink, File
    <2>3. file.cluster # Empty /\ pc = "index"
      BY <1>23 DEF IndexLink
    <2> QED BY <2>2, <2>3 DEF HandleInv, Holding, Busy, Filling, Attached
  <1>24. CASE MarkSector
    BY <1>24 DEF MarkSector, HandleInv, Holding, Busy, Filling, Attached
  <1>25. CASE WriteData
    BY <1>25 DEF WriteData, WriteRest, HandleInv, Holding, Busy, Filling, Attached
  <1>26. CASE LinkSector
    BY <1>26 DEF LinkSector, WriteRest, HandleInv, Holding, Busy, Filling, Attached
  <1>27. CASE FormatIndex
    <2>1. \A k \in Slots : fb'[k] = fb[k] \/ fb'[k].name = NoName
      BY <1>27 DEF FormatIndex, EraseIndexSector, BlankBlock
    <2>2. UNCHANGED file /\ pc = "format" /\ pc' = "format" /\ (file.block = Empty \/ file.block \in Slots)
      BY <1>27 DEF FormatIndex, File
    <2>3. Attached' => Attached /\ fb'[file.block] = fb[file.block]
      BY <2>1, <2>2, ValueAssumption DEF Attached, HandleInv
    <2> QED BY <2>2, <2>3 DEF HandleInv, Holding, Busy, Filling
  <1>28. CASE FormatData
    BY <1>28 DEF FormatData, EraseSector, IsFirst, HandleInv, Holding, Busy, Filling, Attached
  <1>29. CASE OrderlyCrash
    BY <1>29 DEF OrderlyCrash, Crash, NoFile, HandleInv, Holding, Busy, Filling, Attached
  <1>30. CASE UNCHANGED vars
    BY <1>30 DEF vars, HandleInv, Holding, Busy, Filling, Attached
  <1>31. CASE HandOver
    BY <1>31 DEF HandOver, Settled, HandleInv, Busy, Filling
  <1> QED
    BY <1>1, <1>2, <1>3, <1>4, <1>5, <1>6, <1>7, <1>8, <1>9, <1>10, <1>11, <1>12,
       <1>13, <1>14, <1>15, <1>16, <1>17, <1>18, <1>19, <1>20, <1>21, <1>22, <1>23,
       <1>24, <1>25, <1>26, <1>27, <1>28, <1>29, <1>30, <1>31
    DEF OrderlyStep, Step

LEMMA OrderlyLengths ==
  ASSUME OrderInv, OrderlyStep
  PROVE  BlocksInv'
  <1> USE DEF flash, ftl, Reject, Goto, Return
  <1>a. TypeOK /\ TypeOK' /\ HandleInv /\ BlocksInv
    BY OrderlyTypes DEF OrderInv
  <1> USE <1>a, SectorFacts DEF TypeOK
  <1>k. ASSUME KeepsBlocks PROVE BlocksInv'
    BY <1>k DEF BlocksInv, KeepsBlocks
  <1>f. ASSUME UNCHANGED fb, pc # "gc_rewrite", pc' # "gc_rewrite" PROVE BlocksInv'
    BY <1>f, <1>k, SameIndex DEF KeepsBlocks, Live

  <1>1. CASE OrderlyFinish
    <2>1. CASE file.block = Empty
      BY <1>1, <2>1, <1>f DEF OrderlyFinish, FinishCall
    <2>2. CASE file.block # Empty /\ fb[file.block].length # Empty
      <3>1. KeepsBlocks
        BY <1>1, <2>2, StateBitKeeps DEF OrderlyFinish, FinishCall
      <3> QED BY <1>1, <2>2, <3>1, <1>k DEF OrderlyFinish, FinishCall
    <2>3. CASE file.block # Empty /\ fb[file.block].length = Empty
      <3>1. /\ Attached /\ file.block \in Slots
            /\ fb' = [fb EXCEPT ![file.block] = [fb[file.block] EXCEPT !.length = file.length]]
            /\ UNCHANGED file /\ pc = "idle" /\ pc' = "idle"
        BY <1>1, <2>3, FinishDoes
      <3>2. \A k \in Slots :
              /\ fb'[k].name = fb[k].name /\ fb'[k].info = fb[k].info /\ fb'[k].cluster = fb[k].cluster
              /\ fb'[k].length = IF k = file.block THEN file.length ELSE fb[k].length
        <4>1. ASSUME NEW k \in Slots, k = file.block
              PROVE  /\ fb'[k].name = fb[k].name /\ fb'[k].info = fb[k].info
                     /\ fb'[k].cluster = fb[k].cluster /\ fb'[k].length = file.length
          <5>1. fb[k] \in FileBlock /\ fb'[k] = [fb[k] EXCEPT !.length = file.length]
            BY <3>1, <4>1
          <5> QED BY ONLY <5>1 DEF FileBlock
        <4>2. ASSUME NEW k \in Slots, k # file.block PROVE fb'[k] = fb[k]
          BY <3>1, <4>2
        <4> QED BY ONLY <4>1, <4>2
      <3>3. \A k \in Live' : k \in Live
        <4>1. \A k \in Slots : Index[k] = fb[k] /\ Index'[k] = fb'[k]
          BY <3>1, IndexIsFlash, IndexIsFlashNext
        <4>2. Live = {k \in Slots : HasName(fb[k]) /\ IsOpen(fb[k])}
          BY <4>1 DEF Live
        <4>3. Live' = {k \in Slots : HasName(fb'[k]) /\ IsOpen(fb'[k])}
          BY <4>1 DEF Live
        <4> QED BY ONLY <3>2, <4>2, <4>3 DEF HasName, IsOpen
      <3>4. fb[file.block].cluster = Empty <=> file.length = Empty
        BY <1>1, <2>3 DEF OrderlyFinish, Known, Sized
      <3>5. \A k \in Slots : Index[k] = fb[k] /\ Index'[k] = fb'[k]
        BY <3>1, IndexIsFlash, IndexIsFlashNext
      <3>6. ASSUME NEW k \in Live'
            PROVE  fb'[k].cluster = Empty => fb'[k].length = Empty
        <4>1. k \in Slots /\ k \in Live
          BY <3>3 DEF Live
        <4>2. fb[k].cluster = Empty => fb[k].length = Empty
          BY <3>5, <4>1 DEF BlocksInv
        <4> QED BY <3>2, <3>4, <4>1, <4>2
      <3>7. \A k \in Live' : k \in Slots
        BY DEF Live
      <3> QED BY <3>1, <3>5, <3>6, <3>7 DEF BlocksInv
    <2> QED BY <2>1, <2>2, <2>3
  <1>2. CASE CreateBlock
    <2>1. PICK k \in Slots :
            /\ fb' = [fb EXCEPT ![k] = [name |-> file.name, cluster |-> file.cluster,
                                        length |-> file.length, info |-> job.info]]
      BY <1>2, CreateDoes
    <2>2. pc = "create" /\ pc' # "gc_rewrite" /\ file.block \notin Live
      BY <1>2 DEF CreateBlock, AfterCreate, OrderInv, CreateInv
    <2>3. \A j \in Slots : Index[j] = fb[j] /\ Index'[j] = fb'[j]
      BY <2>2, IndexIsFlash, IndexIsFlashNext
    <2>4. fb'[k].cluster = Empty => fb'[k].length = Empty
      BY <2>1, <2>2 DEF HandleInv
    <2>5. ASSUME NEW j \in Live', j # k
          PROVE  fb'[j].cluster = Empty => fb'[j].length = Empty
      <3>1. j \in Slots /\ fb'[j] = fb[j] /\ j \in Live
        BY <2>1, <2>3, <2>5 DEF Live
      <3> QED BY <2>2, <2>3, <3>1 DEF BlocksInv
    <2>6. \A j \in Live' : j \in Slots
      BY DEF Live
    <2> QED BY <2>3, <2>4, <2>5, <2>6 DEF BlocksInv
  <1>3. CASE IndexCluster
    <2>1. /\ Attached /\ file.block \in Slots /\ job.head \in Sectors
          /\ fb' = [fb EXCEPT ![file.block] = [fb[file.block] EXCEPT !.cluster = job.head]]
          /\ file' = [file EXCEPT !.cluster = job.head, !.length = job.len]
      BY <1>3, IndexClusterDoes
    <2>2. \A k \in Slots :
            /\ fb'[k].name = fb[k].name /\ fb'[k].info = fb[k].info /\ fb'[k].length = fb[k].length
            /\ fb'[k].cluster = IF k = file.block THEN job.head ELSE fb[k].cluster
      BY <2>1 DEF FileBlock
    <2>3. pc = "index" /\ pc' # "gc_rewrite"
      BY <1>3 DEF IndexCluster, WriteRest
    <2>4. \A k \in Slots : Index[k] = fb[k] /\ Index'[k] = fb'[k]
      BY <2>3, IndexIsFlash, IndexIsFlashNext
    <2>5. \A k \in Live' : k \in Live /\ k \in Slots
      BY <2>2, <2>4 DEF Live, HasName, IsOpen
    <2>6. file'.block = file.block /\ file'.name = file.name /\ fb[file.block].name = file.name
      BY <2>1 DEF File, Attached
    <2>7. ASSUME NEW k \in Live'
          PROVE  fb'[k].cluster = Empty => fb'[k].length = Empty
      <3>1. fb[k].cluster = Empty => fb[k].length = Empty
        BY <2>4, <2>5 DEF BlocksInv
      <3>2. job.head # Empty
        BY <2>1
      <3>3. CASE k = file.block
        <4>1. fb[file.block].cluster = Empty
          BY <1>3, IndexClusterDoes
        <4> QED BY <2>2, <2>5, <2>6, <3>1, <3>2, <3>3, <4>1
      <3>4. CASE k # file.block
        BY <2>2, <2>5, <3>1, <3>4
      <3> QED BY <3>3, <3>4
    <2> QED BY <2>4, <2>5, <2>6, <2>7 DEF BlocksInv
  <1>4. CASE IndexLength
    <2>1. /\ Attached /\ file.block \in Slots /\ job.len \in Nat
          /\ fb' = [fb EXCEPT ![file.block] = [fb[file.block] EXCEPT !.length = job.len]]
      BY <1>4, IndexLengthDoes
    <2>2. \A k \in Slots :
            /\ fb'[k].name = fb[k].name /\ fb'[k].info = fb[k].info /\ fb'[k].cluster = fb[k].cluster
            /\ fb'[k].length = IF k = file.block THEN job.len ELSE fb[k].length
      BY <2>1 DEF FileBlock
    <2>3. pc = "index_length" /\ pc' # "gc_rewrite" /\ UNCHANGED file
      BY <1>4 DEF IndexLength, WriteRest
    <2>4. \A k \in Slots : Index[k] = fb[k] /\ Index'[k] = fb'[k]
      BY <2>3, IndexIsFlash, IndexIsFlashNext
    <2>5. \A k \in Live' : k \in Live /\ k \in Slots
      BY <2>2, <2>4 DEF Live, HasName, IsOpen
    <2>6. fb[file.block].cluster # Empty
      BY <2>1, <2>3 DEF HandleInv, Busy, Filling, OrderInv, TailInv
    <2>7. ASSUME NEW k \in Live'
          PROVE  fb'[k].cluster = Empty => fb'[k].length = Empty
      <3>1. fb[k].cluster = Empty => fb[k].length = Empty
        BY <2>4, <2>5 DEF BlocksInv
      <3>2. job.len # Empty
        BY <2>1
      <3> QED BY <2>2, <2>5, <2>6, <3>1, <3>2
    <2> QED BY <2>3, <2>4, <2>5, <2>7 DEF BlocksInv
  <1>5. ASSUME KeepsBlocks, ~OrderlyFinish, ~CreateBlock, ~IndexCluster, ~IndexLength
        PROVE  BlocksInv'
    BY <1>5, <1>k
  <1> QED BY <1>1, <1>2, <1>3, <1>4, <1>5, OrderlyBlocks

-----------------------------------------------------------------------------
(***************************************************************************)
(* The locals of a call that replaces a file block or discards a chain.    *)
(***************************************************************************)
LEMMA OrderlyCreate ==
  ASSUME OrderInv, OrderlyStep
  PROVE  CreateInv'
  <1> USE DEF flash, ftl, Reject, Goto, Return
  <1>a. TypeOK /\ TypeOK' /\ CreateInv
    BY OrderlyTypes DEF OrderInv
  <1> USE <1>a, SectorFacts DEF TypeOK

  <1>1. ASSUME NEW n \in Names, NEW ro \in BOOLEAN, CreateCall(n, ro) PROVE CreateInv'
    BY <1>1, EmptyNotSlot DEF CreateCall, CreateWith, NoFile, NoJob, DefaultInfo, CreateInv, Live
  <1>2. ASSUME NEW n \in Names, OpenCall(n) PROVE CreateInv'
    BY <1>2 DEF OpenCall, CreateInv
  <1>3. ASSUME NEW len \in Nat \ {0}, NEW method \in {"OVERRIDE", "APPEND"}, OrderlyWrite(len, method) PROVE CreateInv'
    BY <1>3 DEF OrderlyWrite, WriteCall, CreateInv
  <1>4. CASE OrderlyFinish
    <2>1. CASE pc' # "create"
      BY <1>4, <2>1 DEF OrderlyFinish, FinishCall, CreateInv
    <2>2. CASE pc' = "create"
      <3>1. /\ Known /\ file.block # Empty /\ MarkDeprecated(file.block)
            /\ job' = [NoJob EXCEPT !.op = "finish", !.info = fb[file.block].info]
            /\ pc = "idle" /\ UNCHANGED file
        BY <1>4, <2>2 DEF OrderlyFinish, FinishCall
      <3>2. Attached
        BY <3>1, KnownIsAttached
      <3>3. file.name \in Names /\ IsOpen(fb[file.block])
        BY <3>2, AttachedIs DEF Attached
      <3>4. file.block \notin Live'
        BY <2>2, <3>1, StateBitKeeps
      <3> QED BY <2>2, <3>1, <3>3, <3>4 DEF CreateInv, NoJob, IsOpen
    <2> QED BY <2>1, <2>2
  <1>5. ASSUME NEW n \in Names, OrderlyRename(n) PROVE CreateInv'
    <2>1. CASE pc' # "create"
      BY <1>5, <2>1 DEF OrderlyRename, RenameCall, CreateInv
    <2>2. CASE pc' = "create"
      <3>1. /\ Known /\ file.block # Empty /\ MarkDeprecated(file.block)
            /\ CanWrite(fb[file.block])
            /\ job' = [NoJob EXCEPT !.op = "rename", !.info = fb[file.block].info]
            /\ pc = "idle" /\ file' = [file EXCEPT !.name = n]
        BY <1>5, <2>2 DEF OrderlyRename, RenameCall
      <3>2. file'.name = n /\ file'.block = file.block
        BY <3>1 DEF File
      <3>3. file.block \notin Live'
        BY <2>2, <3>1, StateBitKeeps
      <3> QED BY <2>2, <3>1, <3>2, <3>3 DEF CreateInv, NoJob, CanWrite, IsOpen
    <2> QED BY <2>1, <2>2
  <1>6. CASE OrderlyDelete
    BY <1>6 DEF OrderlyDelete, DeleteCall, CreateInv
  <1>7. CASE FormatCall
    BY <1>7 DEF FormatCall, CreateInv
  <1>8. CASE CreateExists
    BY <1>8 DEF CreateExists, AfterCreate, CreateInv
  <1>9. CASE CreateBlock
    BY <1>9 DEF CreateBlock, AfterCreate, CreateInv
  <1>10. CASE GcIndexErase
    <2>1. pc = "create" /\ pc' = "gc_rewrite" /\ UNCHANGED file /\ KeepsBlocks
      BY <1>10, OrderlyBlocks DEF GcIndexErase, OrderlyFinish, FinishCall, CreateBlock, IndexCluster, IndexLength
    <2>2. job'.op = job.op /\ job'.info = job.info
      BY <1>10 DEF GcIndexErase, Job
    <2> QED BY <2>1, <2>2 DEF CreateInv, KeepsBlocks
  <1>11. CASE GcIndexRewrite
    <2>1. pc = "gc_rewrite" /\ pc' = "create" /\ UNCHANGED file /\ KeepsBlocks
      BY <1>11, OrderlyBlocks DEF GcIndexRewrite, OrderlyFinish, FinishCall, CreateBlock, IndexCluster, IndexLength
    <2>2. job'.op = job.op /\ job'.info = job.info
      BY <1>11 DEF GcIndexRewrite, Job
    <2> QED BY <2>1, <2>2 DEF CreateInv, KeepsBlocks
  <1>12. CASE CreateNoSpace
    BY <1>12 DEF CreateNoSpace, AfterCreate, CreateInv
  <1>13. CASE DiscardSector
    BY <1>13 DEF DiscardSector, CreateInv
  <1>14. CASE OverrideBlock
    <2>1. /\ pc = "discard" /\ pc' = "create" /\ UNCHANGED job /\ MarkDeprecated(file.block)
          /\ job.op = "override" /\ file.cluster = Empty
          /\ file' = [file EXCEPT !.length = Empty]
      BY <1>14 DEF OverrideBlock
    <2>2. file'.name = file.name /\ file'.block = file.block /\ file'.cluster = file.cluster
      BY <2>1 DEF File
    <2>3. file.block \notin Live'
      BY <2>1, StateBitKeeps
    <2>4. file.name \in Names /\ ~job.info.del /\ ~job.info.dep
      BY <2>1, AttachedIs DEF OrderInv, DiscardInv
    <2> QED BY <2>1, <2>2, <2>3, <2>4 DEF CreateInv
  <1>15. CASE DeleteDone
    BY <1>15 DEF DeleteDone, CreateInv
  <1>16. CASE Walk
    BY <1>16 DEF Walk, CreateInv
  <1>17. CASE AppendToTail
    BY <1>17 DEF AppendToTail, CreateInv
  <1>18. CASE Allocate
    BY <1>18 DEF Allocate, Take, CreateInv
  <1>19. CASE GcDataErase
    BY <1>19 DEF GcDataErase, CreateInv
  <1>20. CASE GcDataDone
    BY <1>20 DEF GcDataDone, Take, CreateInv
  <1>21. CASE IndexCluster
    BY <1>21 DEF IndexCluster, WriteRest, CreateInv
  <1>22. CASE IndexLength
    BY <1>22 DEF IndexLength, WriteRest, CreateInv
  <1>23. CASE IndexLink
    BY <1>23 DEF IndexLink, WriteRest, CreateInv
  <1>24. CASE MarkSector
    BY <1>24 DEF MarkSector, CreateInv
  <1>25. CASE WriteData
    BY <1>25 DEF WriteData, WriteRest, CreateInv
  <1>26. CASE LinkSector
    BY <1>26 DEF LinkSector, WriteRest, CreateInv
  <1>27. CASE FormatIndex
    BY <1>27 DEF FormatIndex, CreateInv
  <1>28. CASE FormatData
    BY <1>28 DEF FormatData, CreateInv
  <1>29. CASE OrderlyCrash
    BY <1>29 DEF OrderlyCrash, Crash, CreateInv
  <1>30. CASE UNCHANGED vars
    BY <1>30 DEF vars, CreateInv, Live, Index
  <1>31. CASE HandOver
    BY <1>31 DEF HandOver, Settled, CreateInv
  <1> QED
    BY <1>1, <1>2, <1>3, <1>4, <1>5, <1>6, <1>7, <1>8, <1>9, <1>10, <1>11, <1>12,
       <1>13, <1>14, <1>15, <1>16, <1>17, <1>18, <1>19, <1>20, <1>21, <1>22, <1>23,
       <1>24, <1>25, <1>26, <1>27, <1>28, <1>29, <1>30, <1>31
    DEF OrderlyStep, Step

LEMMA OrderlyDiscard ==
  ASSUME OrderInv, OrderlyStep
  PROVE  DiscardInv'
  <1> USE DEF flash, ftl, Reject, Goto, Return
  <1>a. TypeOK /\ TypeOK' /\ DiscardInv
    BY OrderlyTypes DEF OrderInv
  <1> USE <1>a, SectorFacts DEF TypeOK

  <1>1. ASSUME NEW n \in Names, NEW ro \in BOOLEAN, CreateCall(n, ro) PROVE DiscardInv'
    BY <1>1 DEF CreateCall, CreateWith, DiscardInv
  <1>2. ASSUME NEW n \in Names, OpenCall(n) PROVE DiscardInv'
    BY <1>2 DEF OpenCall, DiscardInv
  <1>3. ASSUME NEW len \in Nat \ {0}, NEW method \in {"OVERRIDE", "APPEND"}, OrderlyWrite(len, method) PROVE DiscardInv'
    <2>1. CASE pc' # "discard"
      BY <2>1 DEF DiscardInv
    <2>2. CASE pc' = "discard"
      <3>1. /\ file.block # Empty /\ CanWrite(fb[file.block]) /\ pc = "idle"
            /\ job'.op = "override" /\ job'.info = fb[file.block].info
            /\ UNCHANGED <<fb, file>>
        BY <1>3, <2>2 DEF OrderlyWrite, WriteCall, NoJob
      <3>2. Attached
        BY <1>3, <3>1, KnownIsAttached DEF OrderlyWrite, WriteCall
      <3> QED BY <3>1, <3>2 DEF DiscardInv, CanWrite, IsOpen, Attached
    <2> QED BY <2>1, <2>2
  <1>4. CASE OrderlyFinish
    BY <1>4 DEF OrderlyFinish, FinishCall, DiscardInv
  <1>5. ASSUME NEW n \in Names, OrderlyRename(n) PROVE DiscardInv'
    BY <1>5 DEF OrderlyRename, RenameCall, DiscardInv
  <1>6. CASE OrderlyDelete
    <2>1. pc = "idle" /\ pc' = "discard" /\ MarkDeleted(file.block) /\ file.block # Empty /\ UNCHANGED file
      BY <1>6 DEF OrderlyDelete, DeleteCall
    <2>2. file.block \notin Live'
      BY <2>1, StateBitKeeps
    <2> QED BY <1>6, <2>1, <2>2 DEF OrderlyDelete, DeleteCall, NoJob, DiscardInv
  <1>7. CASE FormatCall
    BY <1>7 DEF FormatCall, DiscardInv
  <1>8. CASE CreateExists
    BY <1>8 DEF CreateExists, AfterCreate, DiscardInv
  <1>9. CASE CreateBlock
    BY <1>9 DEF CreateBlock, AfterCreate, DiscardInv
  <1>10. CASE GcIndexErase
    BY <1>10 DEF GcIndexErase, DiscardInv
  <1>11. CASE GcIndexRewrite
    BY <1>11 DEF GcIndexRewrite, DiscardInv
  <1>12. CASE CreateNoSpace
    BY <1>12 DEF CreateNoSpace, AfterCreate, DiscardInv
  <1>13. CASE DiscardSector
    <2>1. /\ pc = "discard" /\ pc' = "discard" /\ UNCHANGED <<fb, job>>
          /\ file'.block = file.block /\ file'.name = file.name
      BY <1>13 DEF DiscardSector, File
    <2>2. Live' = Live
      BY <2>1, SameIndex
    <2> QED BY <2>1, <2>2 DEF DiscardInv, Attached
  <1>14. CASE OverrideBlock
    BY <1>14 DEF OverrideBlock, DiscardInv
  <1>15. CASE DeleteDone
    BY <1>15 DEF DeleteDone, DiscardInv
  <1>16. CASE Walk
    BY <1>16 DEF Walk, DiscardInv
  <1>17. CASE AppendToTail
    BY <1>17 DEF AppendToTail, DiscardInv
  <1>18. CASE Allocate
    BY <1>18 DEF Allocate, Take, DiscardInv
  <1>19. CASE GcDataErase
    BY <1>19 DEF GcDataErase, DiscardInv
  <1>20. CASE GcDataDone
    BY <1>20 DEF GcDataDone, Take, DiscardInv
  <1>21. CASE IndexCluster
    BY <1>21 DEF IndexCluster, WriteRest, DiscardInv
  <1>22. CASE IndexLength
    BY <1>22 DEF IndexLength, WriteRest, DiscardInv
  <1>23. CASE IndexLink
    BY <1>23 DEF IndexLink, WriteRest, DiscardInv
  <1>24. CASE MarkSector
    BY <1>24 DEF MarkSector, DiscardInv
  <1>25. CASE WriteData
    BY <1>25 DEF WriteData, WriteRest, DiscardInv
  <1>26. CASE LinkSector
    BY <1>26 DEF LinkSector, WriteRest, DiscardInv
  <1>27. CASE FormatIndex
    BY <1>27 DEF FormatIndex, DiscardInv
  <1>28. CASE FormatData
    BY <1>28 DEF FormatData, DiscardInv
  <1>29. CASE OrderlyCrash
    BY <1>29 DEF OrderlyCrash, Crash, DiscardInv
  <1>30. CASE UNCHANGED vars
    BY <1>30 DEF vars, DiscardInv, Live, Index, Attached
  <1>31. CASE HandOver
    BY <1>31 DEF HandOver, Settled, DiscardInv
  <1> QED
    BY <1>1, <1>2, <1>3, <1>4, <1>5, <1>6, <1>7, <1>8, <1>9, <1>10, <1>11, <1>12,
       <1>13, <1>14, <1>15, <1>16, <1>17, <1>18, <1>19, <1>20, <1>21, <1>22, <1>23,
       <1>24, <1>25, <1>26, <1>27, <1>28, <1>29, <1>30, <1>31
    DEF OrderlyStep, Step

-----------------------------------------------------------------------------
(***************************************************************************)
(* The tail of the chain that is written, and the sectors taken for it.    *)
(***************************************************************************)
LEMMA OrderlyTail ==
  ASSUME OrderInv, OrderlyStep
  PROVE  TailInv'
  <1> USE DEF flash, ftl, Reject, Goto, Return
  <1>a. TypeOK /\ TypeOK' /\ HandleInv /\ WordsInv /\ TablesInv /\ LinksInv /\ TailInv
    BY OrderlyTypes DEF OrderInv
  <1> USE <1>a, SectorFacts DEF TypeOK

  <1>1. ASSUME NEW n \in Names, NEW ro \in BOOLEAN, CreateCall(n, ro) PROVE TailInv'
    BY <1>1 DEF CreateCall, CreateWith, NoJob, Holding, TailInv, Busy, Filling
  <1>2. ASSUME NEW n \in Names, OpenCall(n) PROVE TailInv'
    BY <1>2 DEF OpenCall, TailInv, Busy, Filling
  <1>3. ASSUME NEW len \in Nat \ {0}, NEW method \in {"OVERRIDE", "APPEND"}, OrderlyWrite(len, method) PROVE TailInv'
    <2>1. CASE UNCHANGED <<pc, job>>
      BY <1>3, <2>1 DEF OrderlyWrite, WriteCall, TailInv, Busy, Filling
    <2>2. CASE pc' # "idle"
      <3> DEFINE append == file.cluster # Empty /\ file.length # Empty
      <3>1. /\ file.block # Empty /\ pc = "idle"
            /\ job'.op = IF method = "OVERRIDE" THEN "override" ELSE "append"
            /\ job'.len = len /\ job'.count = 0
            /\ job'.tail = IF method = "APPEND" /\ append THEN file.cluster ELSE 0
            /\ pc' = IF method = "OVERRIDE" /\ file.cluster # Empty THEN "discard"
                     ELSE IF method = "APPEND" /\ append THEN "walk" ELSE "alloc"
            /\ UNCHANGED <<fb, file, mark, next, writable>>
        BY <1>3, <2>2 DEF OrderlyWrite, WriteCall, NoJob
      <3>2. len \in Nat /\ len >= 1
        OBVIOUS
      <3>3. Attached
        BY <1>3, <3>1, KnownIsAttached DEF OrderlyWrite, WriteCall
      <3>4. file.cluster # Empty => file.cluster \in Sectors /\ mark[file.cluster] = "inuse"
        <4>1. file.cluster \in Sectors \cup {Empty}
          BY DEF File, WordsInv, Words
        <4>2. file.block \in Owners /\ Index[file.block].cluster = file.cluster
          BY <1>3, <3>1, <3>3, AttachedIs, IndexIsFlash DEF Owners, OrderlyWrite, Known, Attached
        <4> QED BY <3>1, <4>1, <4>2 DEF LinksInv, Target
      <3>5. method \in {"OVERRIDE", "APPEND"}
        OBVIOUS
      <3>6. file.cluster = Empty <=> file.length = Empty
        BY <1>3, <3>3 DEF OrderlyWrite, Sized, Attached
      <3> HIDE DEF append
      <3>7. append <=> file.cluster # Empty
        BY <3>6 DEF append
      <3> QED BY <3>1, <3>2, <3>4, <3>5, <3>7 DEF TailInv, Busy, Filling
    <2> QED BY <1>3, <2>1, <2>2 DEF OrderlyWrite, WriteCall
  <1>4. CASE OrderlyFinish
    <2>1. CASE UNCHANGED <<pc, job>>
      BY <1>4, <2>1 DEF OrderlyFinish, FinishCall, TailInv, Busy, Filling
    <2>2. CASE pc' = "idle" /\ job' = NoJob
      BY <2>2 DEF NoJob, TailInv, Busy, Filling
    <2>3. CASE pc' = "create" /\ job' = [NoJob EXCEPT !.op = "finish", !.info = fb[file.block].info]
      BY <2>3 DEF NoJob, TailInv, Busy, Filling
    <2> QED BY <1>4, <2>1, <2>2, <2>3 DEF OrderlyFinish, FinishCall
  <1>5. ASSUME NEW n \in Names, OrderlyRename(n) PROVE TailInv'
    BY <1>5 DEF OrderlyRename, RenameCall, NoJob, Holding, TailInv, Busy, Filling
  <1>6. CASE OrderlyDelete
    BY <1>6 DEF OrderlyDelete, DeleteCall, NoJob, Holding, TailInv, Busy, Filling
  <1>7. CASE FormatCall
    BY <1>7 DEF FormatCall, NoJob, Holding, TailInv, Busy, Filling
  <1>8. CASE CreateExists
    BY <1>8 DEF CreateExists, AfterCreate, NoJob, TailInv, Busy, Filling
  <1>9. CASE CreateBlock
    <2>1. file'.cluster = file.cluster
      BY <1>9 DEF CreateBlock, File
    <2>2. job.op = "override" => file.cluster = Empty
      BY <1>9 DEF CreateBlock, OrderInv, CreateInv
    <2> QED BY <1>9, <2>1, <2>2 DEF CreateBlock, AfterCreate, NoJob, TailInv, Busy, Filling
  <1>10. CASE GcIndexErase
    <2>1. job'.op = job.op /\ job'.len = job.len /\ job'.count = job.count
      BY <1>10 DEF GcIndexErase, Job
    <2> QED BY <1>10, <2>1 DEF GcIndexErase, TailInv, Busy, Filling
  <1>11. CASE GcIndexRewrite
    <2>1. job'.op = job.op /\ job'.len = job.len /\ job'.count = job.count
      BY <1>11 DEF GcIndexRewrite, Job
    <2> QED BY <1>11, <2>1 DEF GcIndexRewrite, TailInv, Busy, Filling
  <1>12. CASE CreateNoSpace
    BY <1>12 DEF CreateNoSpace, AfterCreate, NoJob, TailInv, Busy, Filling
  <1>13. CASE DiscardSector
    BY <1>13 DEF DiscardSector, TailInv, Busy, Filling
  <1>14. CASE OverrideBlock
    BY <1>14 DEF OverrideBlock, TailInv, Busy, Filling
  <1>15. CASE DeleteDone
    BY <1>15 DEF DeleteDone, NoJob, TailInv, Busy, Filling
  <1>16. CASE Walk
    <2>1. CASE next[job.tail] # Empty
      <3>1. next[job.tail] \in Sectors /\ mark[job.tail] = "inuse" /\ pc = "walk"
        BY <1>16, <2>1 DEF Walk, WordsInv, Words, TailInv
      <3>2. mark[next[job.tail]] = "inuse"
        BY <1>16, <3>1 DEF Walk, LinksInv, Target
      <3>3. /\ job'.op = job.op /\ job'.len = job.len /\ job'.count = job.count
            /\ job'.tail = next[job.tail] /\ pc' = "walk" /\ UNCHANGED <<mark, next, file>>
        BY <1>16, <2>1 DEF Walk, Job
      <3> QED BY <3>1, <3>2, <3>3 DEF TailInv, Busy, Filling
    <2>2. CASE next[job.tail] = Empty
      BY <1>16, <2>2 DEF Walk, TailInv, Busy, Filling
    <2> QED BY <2>1, <2>2
  <1>17. CASE AppendToTail
    <2>1. PICK size \in Nat :
            /\ file' = [file EXCEPT !.length = file.length + size]
            /\ size <= job.len
            /\ \/ size = job.len /\ Return("APPEND_FILE_SUCCESS")
               \/ size # job.len /\ job' = [job EXCEPT !.len = @ - size] /\ Goto("alloc")
      BY <1>17, AppendDoes
    <2>2. CASE Return("APPEND_FILE_SUCCESS")
      BY <1>17, <2>2 DEF NoJob, TailInv, Busy, Filling
    <2>3. CASE size # job.len /\ job' = [job EXCEPT !.len = @ - size] /\ Goto("alloc")
      <3>1. /\ job'.op = job.op /\ job'.len = job.len - size /\ job'.count = job.count
            /\ job'.tail = job.tail /\ job.len \in Nat
        BY <2>3 DEF Job
      <3>2. job'.len >= 1
        BY <2>1, <2>3, <3>1
      <3>3. file'.cluster = file.cluster
        BY <2>1 DEF File
      <3> QED BY <1>17, <2>3, <3>1, <3>2, <3>3 DEF AppendToTail, TailInv, Busy, Filling
    <2> QED BY <2>1, <2>2, <2>3
  <1>18. CASE Allocate
    <2>1. /\ job'.op = job.op /\ job'.len = job.len /\ job'.count = job.count
          /\ job'.tail = job.tail
      BY <1>18 DEF Allocate, Take, Job
    <2>2. UNCHANGED <<mark, next, file>> /\ pc = "alloc" /\ pc' \in {"index", "gc_data"}
      BY <1>18 DEF Allocate, Take
    <2> QED BY <2>1, <2>2 DEF TailInv, Busy, Filling
  <1>19. CASE GcDataErase
    <2>1. PICK s \in erasable : EraseSector(s)
      BY <1>19 DEF GcDataErase
    <2>2. /\ job'.op = job.op /\ job'.len = job.len /\ job'.tail = job.tail
          /\ pc = "gc_data" /\ pc' = "gc_data" /\ UNCHANGED file
      BY <1>19 DEF GcDataErase, Job
    <2>3. \A t \in Sectors : mark[t] = "inuse" => mark'[t] = "inuse" /\ next'[t] = next[t]
      BY <2>1 DEF EraseSector, TablesInv
    <2>4. writable' # {}
      BY <2>1 DEF EraseSector
    <2> QED BY <2>2, <2>3, <2>4 DEF TailInv, Busy, Filling
  <1>20. CASE GcDataDone
    <2>1. CASE pc' = "idle"
      BY <1>20, <2>1 DEF GcDataDone, Take, NoJob, TailInv, Busy, Filling
    <2>2. CASE pc' = "index"
      <3>1. /\ job'.op = job.op /\ job'.len = job.len /\ job'.tail = job.tail
            /\ pc = "gc_data" /\ UNCHANGED <<mark, next, file>>
        BY <1>20, <2>2 DEF GcDataDone, Take, Job
      <3> QED BY <2>2, <3>1 DEF TailInv, Busy, Filling
    <2> QED BY <1>20, <2>1, <2>2 DEF GcDataDone, Take
  <1>21. CASE IndexCluster
    <2>1. /\ Attached /\ file.block \in Slots /\ job.head \in Sectors
          /\ fb[file.block].cluster = Empty
          /\ fb' = [fb EXCEPT ![file.block] = [fb[file.block] EXCEPT !.cluster = job.head]]
          /\ file' = [file EXCEPT !.cluster = job.head, !.length = job.len]
      BY <1>21, IndexClusterDoes
    <2>2. CASE pc' = "index_length"
      <3>1. pc = "index" /\ job.op = "override" /\ UNCHANGED job
        BY <1>21, <2>2 DEF IndexCluster, WriteRest
      <3>2. file'.cluster # Empty /\ file'.block = file.block
        BY <2>1 DEF File
      <3>3. file.block \in Live /\ Index[file.block] = fb[file.block]
        BY <2>1, <3>1, AttachedIs, IndexIsFlash
      <3>4. fb'[file.block].length = fb[file.block].length
        BY <2>1 DEF FileBlock
      <3>5. fb[file.block].length = Empty
        BY <2>1, <3>3 DEF OrderInv, BlocksInv
      <3> QED BY <2>2, <3>1, <3>2, <3>4, <3>5 DEF TailInv, Busy, Filling
    <2>3. CASE pc' = "mark"
      <3>1. job'.op = job.op /\ job'.len = job.len /\ pc = "index"
        BY <1>21, <2>3 DEF IndexCluster, WriteRest, Job
      <3> QED BY <2>3, <3>1 DEF TailInv, Busy, Filling
    <2>4. CASE pc' = "idle"
      BY <1>21, <2>4 DEF IndexCluster, WriteRest, NoJob, TailInv, Busy, Filling
    <2> QED BY <1>21, <2>2, <2>3, <2>4 DEF IndexCluster, WriteRest
  <1>22. CASE IndexLength
    <2>1. CASE pc' \in {"mark", "link"}
      <3>1. job'.op = job.op /\ job'.len = job.len /\ pc \in {"index_length", "index", "data", "link"}
        BY <1>22, <2>1 DEF IndexLength, WriteRest, Job
      <3> QED BY <2>1, <3>1 DEF TailInv, Busy, Filling
    <2>2. CASE pc' = "idle"
      BY <1>22, <2>2 DEF IndexLength, WriteRest, NoJob, TailInv, Busy, Filling
    <2> QED BY <1>22, <2>1, <2>2 DEF IndexLength, WriteRest
  <1>23. CASE IndexLink
    <2>1. CASE pc' \in {"mark", "link"}
      <3>1. job'.op = job.op /\ job'.len = job.len /\ pc \in {"index_length", "index", "data", "link"}
        BY <1>23, <2>1 DEF IndexLink, WriteRest, Job
      <3> QED BY <2>1, <3>1 DEF TailInv, Busy, Filling
    <2>2. CASE pc' = "idle"
      BY <1>23, <2>2 DEF IndexLink, WriteRest, NoJob, TailInv, Busy, Filling
    <2> QED BY <1>23, <2>1, <2>2 DEF IndexLink, WriteRest
  <1>24. CASE MarkSector
    BY <1>24 DEF MarkSector, TailInv, Busy, Filling
  <1>25. CASE WriteData
    <2>1. CASE pc' \in {"mark", "link"}
      <3>1. job'.op = job.op /\ job'.len = job.len /\ pc \in {"index_length", "index", "data", "link"}
        BY <1>25, <2>1 DEF WriteData, WriteRest, Job
      <3> QED BY <2>1, <3>1 DEF TailInv, Busy, Filling
    <2>2. CASE pc' = "idle"
      BY <1>25, <2>2 DEF WriteData, WriteRest, NoJob, TailInv, Busy, Filling
    <2> QED BY <1>25, <2>1, <2>2 DEF WriteData, WriteRest
  <1>26. CASE LinkSector
    <2>1. CASE pc' \in {"mark", "link"}
      <3>1. job'.op = job.op /\ job'.len = job.len /\ pc \in {"index_length", "index", "data", "link"}
        BY <1>26, <2>1 DEF LinkSector, WriteRest, Job
      <3> QED BY <2>1, <3>1 DEF TailInv, Busy, Filling
    <2>2. CASE pc' = "idle"
      BY <1>26, <2>2 DEF LinkSector, WriteRest, NoJob, TailInv, Busy, Filling
    <2> QED BY <1>26, <2>1, <2>2 DEF LinkSector, WriteRest
  <1>27. CASE FormatIndex
    BY <1>27 DEF FormatIndex, TailInv, Busy, Filling
  <1>28. CASE FormatData
    <2>1. pc = "format" /\ pc' \in {"format", "idle"} /\ ((job'.op = job.op /\ job'.len = job.len) \/ job' = NoJob)
      BY <1>28 DEF FormatData, Job
    <2> QED BY <2>1 DEF NoJob, TailInv, Busy, Filling
  <1>29. CASE OrderlyCrash
    BY <1>29 DEF OrderlyCrash, Crash, NoJob, Holding, TailInv, Busy, Filling
  <1>30. CASE UNCHANGED vars
    BY <1>30 DEF vars, TailInv, Busy, Filling
  <1>31. CASE HandOver
    BY <1>31 DEF HandOver, Settled, TailInv, Busy, Filling
  <1> QED
    BY <1>1, <1>2, <1>3, <1>4, <1>5, <1>6, <1>7, <1>8, <1>9, <1>10, <1>11, <1>12,
       <1>13, <1>14, <1>15, <1>16, <1>17, <1>18, <1>19, <1>20, <1>21, <1>22, <1>23,
       <1>24, <1>25, <1>26, <1>27, <1>28, <1>29, <1>30, <1>31
    DEF OrderlyStep, Step

LEMMA TakenSectors ==
  ASSUME TypeOK, TablesInv, job.len \in Nat, job.len >= 1, UNCHANGED mark,
         FirstN(writable, SectorsFor(job.len)) # {},
         Take(FirstN(writable, SectorsFor(job.len)))
  PROVE  /\ job'.todo = FirstN(writable, SectorsFor(job.len))
         /\ job'.todo # {} /\ job'.todo \cap writable' = {}
         /\ job'.len < DataArea => \A s, t \in job'.todo : s = t
         /\ IsFirst(job'.head, job'.todo)
         /\ \A s \in job'.todo : mark'[s] = "blank"
  <1> DEFINE found == FirstN(writable, SectorsFor(job.len))
  <1>1. /\ writable' = writable \ found
        /\ job'.todo = found /\ job'.len = job.len /\ IsFirst(job'.head, found)
    BY DEF Take, TypeOK, Job
  <1>2. found \subseteq writable
    BY FirstNType
  <1>3. job.len < DataArea => \A s, t \in found : s = t
    <2> SUFFICES ASSUME job.len < DataArea, NEW s \in found, NEW t \in found PROVE s = t
      OBVIOUS
    <2>1. SectorsFor(job.len) = 1
      BY SectorsForSome, SizeAssumption
    <2> QED BY <2>1, FirstNOfOne DEF TypeOK
  <1> HIDE DEF found
  <1>4. /\ found # {} /\ \A s \in found : mark'[s] = "blank"
    BY <1>2 DEF TablesInv, found
  <1>5. job'.todo = FirstN(writable, SectorsFor(job.len))
    BY <1>1 DEF found
  <1> QED BY <1>1, <1>2, <1>3, <1>4, <1>5

\* The next turn of the loop.
LEMMA RestIsBlank ==
  ASSUME TypeOK, WritingInv, Filling, UNCHANGED <<mark, writable>>,
         NEW rest \in SUBSET job.todo, WriteRest(rest),
         \A s \in rest : mark[s] = "blank"
  PROVE  WritingInv'
  <1>1. CASE rest = {}
    BY <1>1 DEF WriteRest, Return, WritingInv, Filling
  <1>2. CASE rest # {}
    <2>1. pc' = "mark" /\ job'.todo = rest /\ job'.len = job.len
      BY <1>2 DEF WriteRest, Goto, TypeOK, Job
    <2> QED BY <1>2, <2>1 DEF WritingInv, Filling
  <1> QED BY <1>1, <1>2

LEMMA OrderlyWriting ==
  ASSUME OrderInv, OrderlyStep
  PROVE  WritingInv'
  <1> USE DEF flash, ftl, Reject, Goto, Return
  <1>a. TypeOK /\ TypeOK' /\ TablesInv /\ TailInv /\ WritingInv
    BY OrderlyTypes DEF OrderInv
  <1> USE <1>a, SectorFacts DEF TypeOK

  <1>1. ASSUME NEW n \in Names, NEW ro \in BOOLEAN, CreateCall(n, ro) PROVE WritingInv'
    BY <1>1 DEF CreateCall, CreateWith, WritingInv, Filling
  <1>2. ASSUME NEW n \in Names, OpenCall(n) PROVE WritingInv'
    BY <1>2 DEF OpenCall, WritingInv, Filling
  <1>3. ASSUME NEW len \in Nat \ {0}, NEW method \in {"OVERRIDE", "APPEND"}, OrderlyWrite(len, method) PROVE WritingInv'
    <2>1. pc' \in {"idle", "discard", "walk", "alloc"}
      BY <1>3 DEF OrderlyWrite, WriteCall
    <2> QED BY <2>1 DEF WritingInv, Filling
  <1>4. CASE OrderlyFinish
    BY <1>4 DEF OrderlyFinish, FinishCall, WritingInv, Filling
  <1>5. ASSUME NEW n \in Names, OrderlyRename(n) PROVE WritingInv'
    BY <1>5 DEF OrderlyRename, RenameCall, WritingInv, Filling
  <1>6. CASE OrderlyDelete
    BY <1>6 DEF OrderlyDelete, DeleteCall, WritingInv, Filling
  <1>7. CASE FormatCall
    BY <1>7 DEF FormatCall, WritingInv, Filling
  <1>8. CASE CreateExists
    BY <1>8 DEF CreateExists, AfterCreate, WritingInv, Filling
  <1>9. CASE CreateBlock
    <2>1. pc' \in {"idle", "alloc"}
      BY <1>9 DEF CreateBlock, AfterCreate
    <2> QED BY <2>1 DEF WritingInv, Filling
  <1>10. CASE GcIndexErase
    BY <1>10 DEF GcIndexErase, WritingInv, Filling
  <1>11. CASE GcIndexRewrite
    BY <1>11 DEF GcIndexRewrite, WritingInv, Filling
  <1>12. CASE CreateNoSpace
    BY <1>12 DEF CreateNoSpace, AfterCreate, WritingInv, Filling
  <1>13. CASE DiscardSector
    BY <1>13 DEF DiscardSector, WritingInv, Filling
  <1>14. CASE OverrideBlock
    BY <1>14 DEF OverrideBlock, WritingInv, Filling
  <1>15. CASE DeleteDone
    BY <1>15 DEF DeleteDone, WritingInv, Filling
  <1>16. CASE Walk
    <2>1. pc' \in {"walk", "alloc", "partial"}
      BY <1>16 DEF Walk
    <2> QED BY <2>1 DEF WritingInv, Filling
  <1>17. CASE AppendToTail
    <2>1. pc' \in {"idle", "alloc"}
      BY <1>17 DEF AppendToTail
    <2> QED BY <2>1 DEF WritingInv, Filling
  <1>18. CASE Allocate
    <2>1. CASE pc' # "index"
      BY <1>18, <2>1 DEF Allocate, Take, WritingInv, Filling
    <2>2. CASE pc' = "index"
      <3> DEFINE found == FirstN(writable, SectorsFor(job.len))
      <3>1. job.op \in {"override", "append"} /\ job.len \in Nat /\ job.len >= 1
        BY <1>18 DEF Allocate, TailInv, Busy, Job
      <3>2. /\ Cardinality(found) = SectorsFor(job.len)
            /\ Take(found) /\ UNCHANGED mark
        BY <1>18, <2>2 DEF Allocate
      <3>3. found # {}
        <4> HIDE DEF found
        <4>1. Cardinality({}) = 0
          BY FS_EmptySet
        <4>2. SectorsFor(job.len) \in Nat /\ SectorsFor(job.len) >= 1
          BY <3>1, SectorsForSome
        <4> QED BY ONLY <3>2, <4>1, <4>2
      <3> QED BY <2>2, <3>1, <3>2, <3>3, TakenSectors DEF WritingInv, Filling
    <2> QED BY <2>1, <2>2
  <1>19. CASE GcDataErase
    BY <1>19 DEF GcDataErase, WritingInv, Filling
  <1>20. CASE GcDataDone
    <2>1. CASE pc' # "index"
      BY <1>20, <2>1 DEF GcDataDone, Take, WritingInv, Filling
    <2>2. CASE pc' = "index"
      <3> DEFINE found == FirstN(writable, SectorsFor(job.len))
      <3>1. job.op \in {"override", "append"} /\ job.len \in Nat /\ job.len >= 1
        BY <1>20 DEF GcDataDone, TailInv, Busy, Job
      <3>2. /\ job.count >= SectorsFor(job.len) /\ job.count \in Nat
            /\ Take(found) /\ UNCHANGED mark
        BY <1>20, <2>2 DEF GcDataDone, Job
      <3>3. writable # {}
        BY <1>20, <3>1, <3>2, SectorsForSome DEF GcDataDone, TailInv
      <3>4. found # {}
        BY <3>1, <3>3, SectorsForSome, FirstNHasFirst
      <3> QED BY <2>2, <3>1, <3>2, <3>4, TakenSectors DEF WritingInv, Filling
    <2> QED BY <2>1, <2>2
  <1>21. CASE IndexCluster
    <2>1. pc = "index" /\ UNCHANGED <<mark, writable>> /\ \A s \in job.todo : mark[s] = "blank"
      BY <1>21 DEF IndexCluster, WritingInv
    <2>2. CASE pc' = "index_length" /\ UNCHANGED job
      BY <2>1, <2>2 DEF WritingInv, Filling
    <2>3. CASE WriteRest(job.todo)
      BY <2>1, <2>3, RestIsBlank DEF Filling
    <2> QED BY <1>21, <2>2, <2>3 DEF IndexCluster
  <1>22. CASE IndexLength
    <2>1. /\ pc = "index_length" /\ UNCHANGED <<mark, writable>> /\ WriteRest(job.todo)
          /\ \A s \in job.todo : mark[s] = "blank"
      BY <1>22 DEF IndexLength, WritingInv
    <2> QED BY <2>1, RestIsBlank DEF Filling
  <1>23. CASE IndexLink
    <2>1. /\ pc = "index" /\ UNCHANGED <<mark, writable>> /\ WriteRest(job.todo)
          /\ \A s \in job.todo : mark[s] = "blank"
      BY <1>23 DEF IndexLink, WritingInv
    <2> QED BY <2>1, RestIsBlank DEF Filling
  <1>24. CASE MarkSector
    <2>1. PICK s \in job.todo :
            /\ IsFirst(s, job.todo)
            /\ mark' = [mark EXCEPT ![s] = ProgramMark(@, "inuse")]
            /\ writable' = writable \ {s}
      BY <1>24 DEF MarkSector
    <2>2. /\ pc = "mark" /\ pc' = "data" /\ UNCHANGED <<job, next, data>>
          /\ job.todo \subseteq Sectors /\ \A t \in job.todo : mark[t] = "blank"
      BY <1>24 DEF MarkSector, WritingInv, Job
    <2>3. mark'[s] = "inuse" /\ \A t \in job.todo \ {s} : mark'[t] = "blank"
      BY <2>1, <2>2 DEF ProgramMark
    <2>4. next[s] = Empty /\ data[s] = {}
      BY <2>1, <2>2 DEF TablesInv
    <2>5. \A t \in job.todo : IsFirst(t, job.todo) => t = s
      BY <2>1, <2>2, OnlyOneFirst
    <2>6. job.todo # {} /\ job.todo \cap writable' = {} /\ (job.len < DataArea => \A t, u \in job.todo : t = u)
      BY <2>1, <2>2 DEF WritingInv, Filling
    <2>7. \A t \in job.todo :
            IF IsFirst(t, job.todo)
            THEN mark'[t] = "inuse" /\ next'[t] = Empty /\ data'[t] = {}
            ELSE mark'[t] = "blank"
      BY <2>1, <2>2, <2>3, <2>4, <2>5
    <2> QED BY <2>2, <2>6, <2>7 DEF WritingInv
  <1>25. CASE WriteData
    <2>1. PICK s \in job.todo :
            /\ IsFirst(s, job.todo)
            /\ \/ pc' = "link" /\ UNCHANGED job
               \/ WriteRest(job.todo \ {s})
      BY <1>25 DEF WriteData
    <2>2. /\ pc = "data" /\ UNCHANGED <<mark, next, writable>>
          /\ job.todo \subseteq Sectors
      BY <1>25 DEF WriteData, Job
    <2>3. CASE pc' = "link" /\ UNCHANGED job
      BY <2>2, <2>3 DEF WritingInv, Filling
    <2>4. CASE WriteRest(job.todo \ {s})
      <3>1. \A t \in job.todo \ {s} : mark[t] = "blank"
        BY <2>1, <2>2, OnlyOneFirst DEF WritingInv
      <3> QED BY <2>1, <2>2, <2>4, <3>1, RestIsBlank DEF Filling
    <2> QED BY <2>1, <2>3, <2>4
  <1>26. CASE LinkSector
    <2>1. PICK s \in job.todo : IsFirst(s, job.todo) /\ WriteRest(job.todo \ {s})
      BY <1>26 DEF LinkSector
    <2>2. /\ pc = "link" /\ UNCHANGED <<mark, writable>> /\ job.todo \subseteq Sectors
      BY <1>26 DEF LinkSector, Job
    <2>3. \A t \in job.todo \ {s} : mark[t] = "blank"
      BY <2>1, <2>2, OnlyOneFirst DEF WritingInv
    <2> QED BY <2>1, <2>2, <2>3, RestIsBlank DEF Filling
  <1>27. CASE FormatIndex
    BY <1>27 DEF FormatIndex, WritingInv, Filling
  <1>28. CASE FormatData
    BY <1>28 DEF FormatData, WritingInv, Filling
  <1>29. CASE OrderlyCrash
    BY <1>29 DEF OrderlyCrash, Crash, WritingInv, Filling
  <1>30. CASE UNCHANGED vars
    BY <1>30 DEF vars, WritingInv, Filling
  <1>31. CASE HandOver
    BY <1>31 DEF HandOver, Settled, WritingInv, Filling
  <1> QED
    BY <1>1, <1>2, <1>3, <1>4, <1>5, <1>6, <1>7, <1>8, <1>9, <1>10, <1>11, <1>12,
       <1>13, <1>14, <1>15, <1>16, <1>17, <1>18, <1>19, <1>20, <1>21, <1>22, <1>23,
       <1>24, <1>25, <1>26, <1>27, <1>28, <1>29, <1>30, <1>31
    DEF OrderlyStep, Step

LEMMA OrderlyFormat ==
  ASSUME OrderInv, OrderlyStep
  PROVE  FormatInv'
  <1> USE DEF flash, ftl, Reject, Goto, Return
  <1>a. TypeOK /\ TypeOK' /\ FormatInv
    BY OrderlyTypes DEF OrderInv
  <1> USE <1>a, SectorFacts DEF TypeOK

  <1>1. ASSUME NEW n \in Names, NEW ro \in BOOLEAN, CreateCall(n, ro) PROVE FormatInv'
    BY <1>1 DEF CreateCall, CreateWith, FormatInv
  <1>2. ASSUME NEW n \in Names, OpenCall(n) PROVE FormatInv'
    BY <1>2 DEF OpenCall, FormatInv
  <1>3. ASSUME NEW len \in Nat \ {0}, NEW method \in {"OVERRIDE", "APPEND"}, OrderlyWrite(len, method) PROVE FormatInv'
    <2>1. pc' # "format"
      BY <1>3 DEF OrderlyWrite, WriteCall
    <2> QED BY <2>1 DEF FormatInv
  <1>4. CASE OrderlyFinish
    BY <1>4 DEF OrderlyFinish, FinishCall, FormatInv
  <1>5. ASSUME NEW n \in Names, OrderlyRename(n) PROVE FormatInv'
    BY <1>5 DEF OrderlyRename, RenameCall, FormatInv
  <1>6. CASE OrderlyDelete
    BY <1>6 DEF OrderlyDelete, DeleteCall, FormatInv
  <1>7. CASE FormatCall
    BY <1>7 DEF FormatCall, FbSectors, NoJob, FormatInv
  <1>8. CASE CreateExists
    BY <1>8 DEF CreateExists, AfterCreate, FormatInv
  <1>9. CASE CreateBlock
    BY <1>9 DEF CreateBlock, AfterCreate, FormatInv
  <1>10. CASE GcIndexErase
    BY <1>10 DEF GcIndexErase, FormatInv
  <1>11. CASE GcIndexRewrite
    BY <1>11 DEF GcIndexRewrite, FormatInv
  <1>12. CASE CreateNoSpace
    BY <1>12 DEF CreateNoSpace, AfterCreate, FormatInv
  <1>13. CASE DiscardSector
    BY <1>13 DEF DiscardSector, FormatInv
  <1>14. CASE OverrideBlock
    BY <1>14 DEF OverrideBlock, FormatInv
  <1>15. CASE DeleteDone
    BY <1>15 DEF DeleteDone, FormatInv
  <1>16. CASE Walk
    BY <1>16 DEF Walk, FormatInv
  <1>17. CASE AppendToTail
    BY <1>17 DEF AppendToTail, FormatInv
  <1>18. CASE Allocate
    BY <1>18 DEF Allocate, Take, FormatInv
  <1>19. CASE GcDataErase
    BY <1>19 DEF GcDataErase, FormatInv
  <1>20. CASE GcDataDone
    BY <1>20 DEF GcDataDone, Take, FormatInv
  <1>21. CASE IndexCluster
    BY <1>21 DEF IndexCluster, WriteRest, FormatInv
  <1>22. CASE IndexLength
    BY <1>22 DEF IndexLength, WriteRest, FormatInv
  <1>23. CASE IndexLink
    BY <1>23 DEF IndexLink, WriteRest, FormatInv
  <1>24. CASE MarkSector
    BY <1>24 DEF MarkSector, FormatInv
  <1>25. CASE WriteData
    BY <1>25 DEF WriteData, WriteRest, FormatInv
  <1>26. CASE LinkSector
    BY <1>26 DEF LinkSector, WriteRest, FormatInv
  <1>27. CASE FormatIndex
    <2>1. PICK g \in job.fbs :
            EraseIndexSector(g) /\ job' = [job EXCEPT !.fbs = @ \ {g}]
      BY <1>27 DEF FormatIndex
    <2>2. job'.fbs = job.fbs \ {g} /\ job'.todo = job.todo /\ UNCHANGED <<mark, pc>> /\ pc = "format"
      BY <1>27, <2>1 DEF FormatIndex, Job
    <2>3. \A k \in Slots : fb'[k] = IF SlotSector[k] = g THEN BlankBlock ELSE fb[k]
      BY <2>1 DEF EraseIndexSector
    <2> QED BY <2>2, <2>3 DEF FormatInv
  <1>28. CASE FormatData
    <2>1. CASE pc' # "format"
      BY <2>1 DEF FormatInv
    <2>2. CASE pc' = "format"
      <3>1. PICK s \in job.todo : EraseSector(s) /\ job' = [job EXCEPT !.todo = @ \ {s}]
        BY <1>28, <2>2 DEF FormatData
      <3>2. job'.fbs = job.fbs /\ job'.todo = job.todo \ {s} /\ UNCHANGED fb /\ pc = "format"
        BY <1>28, <3>1 DEF FormatData, Job
      <3>3. \A t \in Sectors : mark'[t] = IF t = s THEN "blank" ELSE mark[t]
        BY <3>1 DEF EraseSector
      <3> QED BY <3>2, <3>3 DEF FormatInv
    <2> QED BY <2>1, <2>2
  <1>29. CASE OrderlyCrash
    BY <1>29 DEF OrderlyCrash, Crash, FormatInv
  <1>30. CASE UNCHANGED vars
    BY <1>30 DEF vars, FormatInv
  <1>31. CASE HandOver
    BY <1>31 DEF HandOver, Settled, FormatInv
  <1> QED
    BY <1>1, <1>2, <1>3, <1>4, <1>5, <1>6, <1>7, <1>8, <1>9, <1>10, <1>11, <1>12,
       <1>13, <1>14, <1>15, <1>16, <1>17, <1>18, <1>19, <1>20, <1>21, <1>22, <1>23,
       <1>24, <1>25, <1>26, <1>27, <1>28, <1>29, <1>30, <1>31
    DEF OrderlyStep, Step

-----------------------------------------------------------------------------
(***************************************************************************)
(* Every sector in use is linked to once.                                  *)
(***************************************************************************)
TargetNext(s) ==
  \/ mark'[s] = "inuse"
  \/ pc' \in {"index_length", "mark"} /\ IsFirst(s, job'.todo)

UnlinkedNext(s) == \A t \in Sectors : mark'[t] = "inuse" => next'[t] # s

LinksNextInv ==
  pc' # "format" =>
    /\ \A s \in Sectors : mark'[s] = "inuse" /\ next'[s] \in Sectors => TargetNext(next'[s])
    /\ \A s, t \in Sectors :
         mark'[s] = "inuse" /\ mark'[t] = "inuse" /\ next'[s] = next'[t] /\ next'[s] \in Sectors => s = t
    /\ \A k \in Owners' : Index'[k].cluster \in Sectors =>
         /\ TargetNext(Index'[k].cluster)
         /\ UnlinkedNext(Index'[k].cluster)
         /\ \A j \in Owners' : Index'[j].cluster = Index'[k].cluster => j = k
         /\ Holding' => Index'[k].cluster # file'.cluster
    /\ Holding' /\ file'.cluster \in Sectors => mark'[file'.cluster] = "inuse" /\ UnlinkedNext(file'.cluster)

LEMMA LinksIntro ==
  ASSUME LinksNextInv
  PROVE  LinksInv'
  BY DEF LinksNextInv, LinksInv, TargetNext, UnlinkedNext, Target, Unlinked

\* A step that writes neither marks nor links and adds no file block.  The
\* chain a call takes was that of a file block that is gone.
LEMMA LinksStay ==
  ASSUME LinksInv, UNCHANGED <<mark, next>>, pc # "format", pc' # "format",
         \/ pc \notin {"index_length", "mark"}
         \/ \A s : Target(s) => TargetNext(s),
         \A k \in Owners' : k \in Owners /\ Index'[k].cluster = Index[k].cluster,
         Holding' =>
           \/ file'.cluster = Empty
           \/ Holding /\ file'.cluster = file.cluster
           \/ /\ pc = "idle"
              /\ \E b \in Owners : b \notin Owners' /\ Index[b].cluster = file'.cluster
  PROVE  LinksInv'
  <1>1. \A s : Target(s) => TargetNext(s)
    BY DEF Target, TargetNext
  <1>2. \A s : Unlinked(s) => UnlinkedNext(s)
    BY DEF Unlinked, UnlinkedNext
  <1>3. ASSUME NEW k \in Owners', Index'[k].cluster \in Sectors
        PROVE  /\ Target(Index'[k].cluster) /\ Unlinked(Index'[k].cluster)
               /\ \A j \in Owners' : Index'[j].cluster = Index'[k].cluster => j = k
               /\ Holding' => Index'[k].cluster # file'.cluster
    <2>1. k \in Owners /\ Index[k].cluster = Index'[k].cluster
      OBVIOUS
    <2>2. Holding' => Index'[k].cluster # file'.cluster
      BY <1>3, <2>1, SectorFacts DEF LinksInv
    <2> QED BY <1>3, <2>1, <2>2 DEF LinksInv
  <1>4. ASSUME Holding', file'.cluster \in Sectors
        PROVE  mark[file'.cluster] = "inuse" /\ Unlinked(file'.cluster)
    BY <1>4, SectorFacts DEF LinksInv, Target, TargetNext
  <1> QED BY <1>1, <1>2, <1>3, <1>4, LinksIntro DEF LinksNextInv, LinksInv

\* A link to the next sector to be marked, from a sector in use.
LEMMA LinkBlank ==
  ASSUME TypeOK, LinksInv, UNCHANGED mark,
         pc \notin {"index_length", "mark", "format"}, ~Holding', pc' # "format",
         NEW s \in Sectors, NEW t \in Sectors, mark[s] = "inuse", mark[t] = "blank",
         next' = [next EXCEPT ![s] = t], TargetNext(t),
         \A k \in Owners' : k \in Owners /\ Index'[k].cluster = Index[k].cluster
  PROVE  LinksInv'
  <1>1. \A u \in Sectors : next'[u] = IF u = s THEN t ELSE next[u]
    BY DEF TypeOK
  <1>2. \A u : Target(u) => mark[u] = "inuse" /\ TargetNext(u)
    BY DEF Target, TargetNext
  <1>3. \A u \in Sectors : mark[u] = "inuse" => next[u] # t
    BY <1>2 DEF LinksInv
  <1>4. ASSUME NEW k \in Owners', Index'[k].cluster \in Sectors
        PROVE  /\ TargetNext(Index'[k].cluster) /\ UnlinkedNext(Index'[k].cluster)
               /\ \A j \in Owners' : Index'[j].cluster = Index'[k].cluster => j = k
    <2>1. k \in Owners /\ Index[k].cluster = Index'[k].cluster
      OBVIOUS
    <2>2. /\ Target(Index'[k].cluster) /\ Unlinked(Index'[k].cluster)
          /\ \A j \in Owners' : Index'[j].cluster = Index'[k].cluster => j = k
      BY <1>4, <2>1 DEF LinksInv
    <2>3. Index'[k].cluster # t
      BY <1>2, <2>2
    <2> QED BY <1>1, <1>2, <2>2, <2>3 DEF Unlinked, UnlinkedNext
  <1>5. ASSUME NEW u \in Sectors, mark[u] = "inuse", next'[u] \in Sectors
        PROVE  TargetNext(next'[u])
    BY <1>1, <1>2, <1>5 DEF LinksInv
  <1>6. ASSUME NEW u \in Sectors, NEW v \in Sectors, mark[u] = "inuse", mark[v] = "inuse",
               next'[u] = next'[v], next'[u] \in Sectors
        PROVE  u = v
    BY <1>1, <1>3, <1>6 DEF LinksInv
  <1> QED BY <1>4, <1>5, <1>6, LinksIntro DEF LinksNextInv, LinksInv

LEMMA OrderlyLinks ==
  ASSUME OrderInv, OrderlyStep
  PROVE  LinksInv'
  <1> USE DEF flash, ftl, Reject, Goto, Return
  <1>a. TypeOK /\ TypeOK' /\ HandleInv /\ TablesInv /\ LinksInv
    BY OrderlyTypes DEF OrderInv
  <1> USE <1>a, SectorFacts DEF TypeOK
  <1>f. ASSUME KeepsBlocks, OrderlyFinish, file.block = Empty \/ fb[file.block].length # Empty
        PROVE  LinksInv'
    <2>1. CASE ~Holding'
      <3>1. /\ UNCHANGED <<mark, next>> /\ pc = "idle" /\ pc' # "format" /\ pc' # "discard"
        BY <1>f, <2>1 DEF OrderlyFinish, FinishCall, Holding
      <3> QED BY <1>f, <2>1, <3>1, LinksStay DEF KeepsBlocks, Owners
    <2>2. CASE Holding'
      <3>1. /\ UNCHANGED <<mark, next>> /\ pc = "idle" /\ pc' \in {"create", "discard"}
            /\ file.block # Empty /\ Known
            /\ file'.cluster = file.cluster /\ file'.block = file.block
            /\ MarkDeprecated(file.block)
        BY <1>f, <2>2 DEF OrderlyFinish, FinishCall, Holding, File
      <3>2. Attached /\ file.block \in Live
        BY <3>1, KnownIsAttached, AttachedIs
      <3>3. Index[file.block].cluster = file.cluster
        BY <3>1, <3>2, AttachedIs, IndexIsFlash DEF Known
      <3>4. file.block \notin Owners'
        BY <3>1, StateBitKeeps DEF Owners
      <3> QED BY <1>f, <3>1, <3>2, <3>3, <3>4, LinksStay DEF KeepsBlocks, Owners
    <2> QED BY <2>1, <2>2
  <1>1. CASE OrderlyFinish
    <2>1. CASE file.block = Empty \/ fb[file.block].length # Empty
      <3>1. KeepsBlocks
        <4>1. CASE UNCHANGED fb
          BY <1>1, <4>1, SameIndex DEF OrderlyFinish, FinishCall, KeepsBlocks, Live
        <4>2. CASE MarkDeprecated(file.block)
          BY <1>1, <4>2, StateBitKeeps DEF OrderlyFinish, FinishCall
        <4> QED BY <1>1, <2>1, <4>1, <4>2 DEF OrderlyFinish, FinishCall
      <3> QED BY <1>1, <2>1, <3>1, <1>f
    <2>2. CASE file.block # Empty /\ fb[file.block].length = Empty
      <3>1. /\ file.block \in Slots
            /\ fb' = [fb EXCEPT ![file.block] = [fb[file.block] EXCEPT !.length = file.length]]
            /\ pc = "idle" /\ pc' = "idle" /\ UNCHANGED <<mark, next>>
        BY <1>1, <2>2, FinishDoes
      <3>2. \A k \in Slots : fb'[k].cluster = fb[k].cluster /\ fb'[k].name = fb[k].name /\ fb'[k].info = fb[k].info
        BY <3>1 DEF FileBlock
      <3>3. \A k \in Slots : Index[k] = fb[k] /\ Index'[k] = fb'[k]
        BY <3>1, IndexIsFlash, IndexIsFlashNext
      <3>4. \A k \in Owners' : k \in Owners /\ Index'[k].cluster = Index[k].cluster
        BY <3>1, <3>2, <3>3 DEF Owners, Live, HasName, IsOpen
      <3> QED BY <3>1, <3>4, LinksStay DEF Holding
    <2> QED BY <2>1, <2>2
  <1>2. CASE CreateBlock
    <2>1. PICK b \in Slots :
            /\ fb' = [fb EXCEPT ![b] = [name |-> file.name, cluster |-> file.cluster,
                                        length |-> file.length, info |-> job.info]]
            /\ file' = [file EXCEPT !.block = b]
      BY <1>2, CreateDoes
    <2>2. pc = "create" /\ pc' \in {"idle", "alloc"} /\ UNCHANGED <<mark, next>>
      BY <1>2 DEF CreateBlock, AfterCreate
    <2>3. fb'[b].cluster = file.cluster /\ \A k \in Slots \ {b} : fb'[k] = fb[k]
      BY <2>1
    <2>4. \A k \in Slots : Index[k] = fb[k] /\ Index'[k] = fb'[k]
      BY <2>2, IndexIsFlash, IndexIsFlashNext
    <2>5. /\ \A k \in Owners' : k \in Slots
          /\ \A k \in Owners' \ {b} : k \in Owners /\ Index'[k].cluster = Index[k].cluster
          /\ Index'[b].cluster = file.cluster
      BY <2>2, <2>3, <2>4 DEF Owners, Live
    <2>6. \A s : Target(s) => TargetNext(s)
      BY <2>2 DEF Target, TargetNext
    <2>7. \A s : Unlinked(s) => UnlinkedNext(s)
      BY <2>2 DEF Unlinked, UnlinkedNext
    <2>8. ASSUME NEW k \in Owners', Index'[k].cluster \in Sectors
          PROVE  /\ Target(Index'[k].cluster) /\ Unlinked(Index'[k].cluster)
                 /\ \A j \in Owners' : Index'[j].cluster = Index'[k].cluster => j = k
      <3>1. CASE k = b
        BY <2>2, <2>5, <2>8, <3>1 DEF LinksInv, Holding, Target, TargetNext
      <3>2. CASE k # b
        BY <2>2, <2>5, <2>8, <3>2 DEF LinksInv, Holding, Target, TargetNext
      <3> QED BY <3>1, <3>2
    <2>9. ~Holding'
      BY <2>2 DEF Holding
    <2> QED BY <2>2, <2>6, <2>7, <2>8, <2>9, LinksIntro DEF LinksNextInv, LinksInv
  <1>3. CASE IndexCluster
    <2>1. /\ file.block \in Slots /\ job.head \in Sectors /\ IsFirst(job.head, job.todo)
          /\ fb' = [fb EXCEPT ![file.block] = [fb[file.block] EXCEPT !.cluster = job.head]]
      BY <1>3, IndexClusterDoes
    <2>2. /\ pc = "index" /\ pc' \in {"index_length", "mark"} /\ job'.todo = job.todo
          /\ UNCHANGED <<mark, next>> /\ \A t \in job.todo : mark[t] = "blank"
      BY <1>3 DEF IndexCluster, WriteRest, OrderInv, WritingInv, Filling, Job
    <2>3. \A k \in Slots : /\ fb'[k].name = fb[k].name /\ fb'[k].info = fb[k].info
                           /\ fb'[k].cluster = IF k = file.block THEN job.head ELSE fb[k].cluster
      BY <2>1 DEF FileBlock
    <2>4. \A k \in Slots : Index[k] = fb[k] /\ Index'[k] = fb'[k]
      BY <2>2, IndexIsFlash, IndexIsFlashNext
    <2>5. \A k \in Owners' :
            /\ k \in Owners
            /\ Index'[k].cluster = IF k = file.block THEN job.head ELSE Index[k].cluster
      BY <2>2, <2>3, <2>4 DEF Owners, Live, HasName, IsOpen
    <2>6. mark[job.head] = "blank" /\ ~Target(job.head)
      BY <2>1, <2>2 DEF Target, TargetNext, IsFirst
    <2>7. TargetNext(job.head) /\ \A s : Target(s) => TargetNext(s)
      BY <2>1, <2>2 DEF Target, TargetNext
    <2>8. \A s : Unlinked(s) => UnlinkedNext(s)
      BY <2>2 DEF Unlinked, UnlinkedNext
    <2>9. Unlinked(job.head)
      BY <2>1, <2>2, <2>6 DEF LinksInv, Unlinked, UnlinkedNext
    <2>10. ASSUME NEW k \in Owners', Index'[k].cluster \in Sectors
           PROVE  /\ TargetNext(Index'[k].cluster) /\ UnlinkedNext(Index'[k].cluster)
                  /\ \A j \in Owners' : Index'[j].cluster = Index'[k].cluster => j = k
      <3>1. \A j \in Owners : Index[j].cluster \in Sectors => Target(Index[j].cluster) /\ Unlinked(Index[j].cluster)
        BY <2>2 DEF LinksInv
      <3>2. CASE k = file.block
        BY <2>1, <2>5, <2>6, <2>7, <2>8, <2>9, <3>1, <3>2
      <3>3. CASE k # file.block
        BY <2>1, <2>2, <2>5, <2>6, <2>7, <2>8, <2>10, <3>1, <3>3 DEF LinksInv
      <3> QED BY <3>2, <3>3
    <2>11. ~Holding'
      BY <2>2 DEF Holding
    <2> QED BY <2>2, <2>7, <2>10, <2>11, LinksIntro DEF LinksNextInv, LinksInv
  <1>4. CASE IndexLength
    <2>1. /\ file.block \in Slots
          /\ fb' = [fb EXCEPT ![file.block] = [fb[file.block] EXCEPT !.length = job.len]]
      BY <1>4, IndexLengthDoes
    <2>2. /\ pc = "index_length" /\ pc' = "mark" /\ job'.todo = job.todo
          /\ UNCHANGED <<mark, next>>
      BY <1>4 DEF IndexLength, WriteRest, OrderInv, WritingInv, Filling, Job
    <2>3. \A k \in Slots : fb'[k].cluster = fb[k].cluster /\ fb'[k].name = fb[k].name /\ fb'[k].info = fb[k].info
      BY <2>1 DEF FileBlock
    <2>4. \A k \in Slots : Index[k] = fb[k] /\ Index'[k] = fb'[k]
      BY <2>2, IndexIsFlash, IndexIsFlashNext
    <2>5. \A k \in Owners' : k \in Owners /\ Index'[k].cluster = Index[k].cluster
      BY <2>2, <2>3, <2>4 DEF Owners, Live, HasName, IsOpen
    <2>6. \A s : Target(s) => TargetNext(s)
      BY <2>2 DEF Target, TargetNext
    <2> QED BY <2>2, <2>5, <2>6, LinksStay DEF Holding
  <1>5. ASSUME KeepsBlocks, ~OrderlyFinish, ~CreateBlock, ~IndexCluster, ~IndexLength
        PROVE  LinksInv'
    <2>1. ASSUME NEW n \in Names, NEW ro \in BOOLEAN, CreateCall(n, ro) PROVE LinksInv'
      <3>1. /\ UNCHANGED <<mark, next>> /\ pc \notin {"index_length", "mark", "format"} /\ pc' # "format"
            /\ Holding' => (Holding /\ UNCHANGED file.cluster) \/ file'.cluster = Empty
            /\ pc = "discard" => pc' = "discard" /\ UNCHANGED file.block
        BY <2>1 DEF CreateCall, CreateWith, NoFile, Holding, File
      <3> QED BY <1>5, <3>1, LinksStay DEF KeepsBlocks, Owners
    <2>2. ASSUME NEW n \in Names, OpenCall(n) PROVE LinksInv'
      <3>1. /\ UNCHANGED <<mark, next>> /\ pc \notin {"index_length", "mark", "format"} /\ pc' # "format"
            /\ Holding' => (Holding /\ UNCHANGED file.cluster) \/ file'.cluster = Empty
            /\ pc = "discard" => pc' = "discard" /\ UNCHANGED file.block
        BY <2>2 DEF OpenCall, Holding, File
      <3> QED BY <1>5, <3>1, LinksStay DEF KeepsBlocks, Owners
    <2>3. ASSUME NEW len \in Nat \ {0}, NEW method \in {"OVERRIDE", "APPEND"}, OrderlyWrite(len, method) PROVE LinksInv'
      <3>1. CASE ~Holding'
        <4>1. /\ UNCHANGED <<mark, next>> /\ pc = "idle" /\ pc' # "format" /\ pc' # "discard"
          BY <2>3, <3>1 DEF OrderlyWrite, WriteCall, Holding
        <4> QED BY <1>5, <3>1, <4>1, LinksStay DEF KeepsBlocks, Owners
      <3>2. CASE Holding'
        <4>1. /\ UNCHANGED <<mark, next>> /\ pc = "idle" /\ pc' \in {"create", "discard"}
              /\ file.block # Empty /\ Known
              /\ file'.cluster = file.cluster /\ file'.block = file.block
              /\ pc' = "discard"
          BY <2>3, <3>2 DEF OrderlyWrite, WriteCall, Holding, File
        <4>2. Attached /\ file.block \in Live
          BY <4>1, KnownIsAttached, AttachedIs
        <4>3. Index[file.block].cluster = file.cluster
          BY <4>1, <4>2, AttachedIs, IndexIsFlash DEF Known
        <4>4. file.block \notin Owners'
          BY <4>1, StateBitKeeps DEF Owners
        <4> QED BY <1>5, <4>1, <4>2, <4>3, <4>4, LinksStay DEF KeepsBlocks, Owners
      <3> QED BY <3>1, <3>2
    <2>4. ASSUME NEW n \in Names, OrderlyRename(n) PROVE LinksInv'
      <3>1. CASE ~Holding'
        <4>1. /\ UNCHANGED <<mark, next>> /\ pc = "idle" /\ pc' # "format" /\ pc' # "discard"
          BY <2>4, <3>1 DEF OrderlyRename, RenameCall, Holding
        <4> QED BY <1>5, <3>1, <4>1, LinksStay DEF KeepsBlocks, Owners
      <3>2. CASE Holding'
        <4>1. /\ UNCHANGED <<mark, next>> /\ pc = "idle" /\ pc' \in {"create", "discard"}
              /\ file.block # Empty /\ Known
              /\ file'.cluster = file.cluster /\ file'.block = file.block
              /\ MarkDeprecated(file.block)
          BY <2>4, <3>2 DEF OrderlyRename, RenameCall, Holding, File
        <4>2. Attached /\ file.block \in Live
          BY <4>1, KnownIsAttached, AttachedIs
        <4>3. Index[file.block].cluster = file.cluster
          BY <4>1, <4>2, AttachedIs, IndexIsFlash DEF Known
        <4>4. file.block \notin Owners'
          BY <4>1, StateBitKeeps DEF Owners
        <4> QED BY <1>5, <4>1, <4>2, <4>3, <4>4, LinksStay DEF KeepsBlocks, Owners
      <3> QED BY <3>1, <3>2
    <2>5. CASE OrderlyDelete
      <3>1. CASE ~Holding'
        <4>1. /\ UNCHANGED <<mark, next>> /\ pc = "idle" /\ pc' # "format" /\ pc' # "discard"
          BY <2>5, <3>1 DEF OrderlyDelete, DeleteCall, Holding
        <4> QED BY <1>5, <3>1, <4>1, LinksStay DEF KeepsBlocks, Owners
      <3>2. CASE Holding'
        <4>1. /\ UNCHANGED <<mark, next>> /\ pc = "idle" /\ pc' \in {"create", "discard"}
              /\ file.block # Empty /\ Known
              /\ file'.cluster = file.cluster /\ file'.block = file.block
              /\ MarkDeleted(file.block)
          BY <2>5, <3>2 DEF OrderlyDelete, DeleteCall, Holding, File
        <4>2. Attached /\ file.block \in Live
          BY <4>1, KnownIsAttached, AttachedIs
        <4>3. Index[file.block].cluster = file.cluster
          BY <4>1, <4>2, AttachedIs, IndexIsFlash DEF Known
        <4>4. file.block \notin Owners'
          BY <4>1, StateBitKeeps DEF Owners
        <4> QED BY <1>5, <4>1, <4>2, <4>3, <4>4, LinksStay DEF KeepsBlocks, Owners
      <3> QED BY <3>1, <3>2
    <2>6. CASE FormatCall
      BY <2>6, LinksIntro DEF FormatCall, LinksNextInv
    <2>7. CASE CreateExists
      <3>1. /\ UNCHANGED <<mark, next>> /\ pc \notin {"index_length", "mark", "format"} /\ pc' # "format"
            /\ Holding' => (Holding /\ UNCHANGED file.cluster) \/ file'.cluster = Empty
            /\ pc = "discard" => pc' = "discard" /\ UNCHANGED file.block
        BY <2>7 DEF CreateExists, AfterCreate, Holding, File
      <3> QED BY <1>5, <3>1, LinksStay DEF KeepsBlocks, Owners
    <2>8. CASE GcIndexErase
      <3>1. /\ UNCHANGED <<mark, next>> /\ pc \notin {"index_length", "mark", "format"} /\ pc' # "format"
            /\ Holding' => (Holding /\ UNCHANGED file.cluster) \/ file'.cluster = Empty
            /\ pc = "discard" => pc' = "discard" /\ UNCHANGED file.block
        BY <2>8 DEF GcIndexErase, Holding, File
      <3> QED BY <1>5, <3>1, LinksStay DEF KeepsBlocks, Owners
    <2>9. CASE GcIndexRewrite
      <3>1. /\ UNCHANGED <<mark, next>> /\ pc \notin {"index_length", "mark", "format"} /\ pc' # "format"
            /\ Holding' => (Holding /\ UNCHANGED file.cluster) \/ file'.cluster = Empty
            /\ pc = "discard" => pc' = "discard" /\ UNCHANGED file.block
        BY <2>9 DEF GcIndexRewrite, Holding, File
      <3> QED BY <1>5, <3>1, LinksStay DEF KeepsBlocks, Owners
    <2>10. CASE CreateNoSpace
      <3>1. /\ UNCHANGED <<mark, next>> /\ pc \notin {"index_length", "mark", "format"} /\ pc' # "format"
            /\ Holding' => (Holding /\ UNCHANGED file.cluster) \/ file'.cluster = Empty
            /\ pc = "discard" => pc' = "discard" /\ UNCHANGED file.block
        BY <2>10 DEF CreateNoSpace, AfterCreate, Holding, File
      <3> QED BY <1>5, <3>1, LinksStay DEF KeepsBlocks, Owners
    <2>11. CASE DiscardSector
      <3> DEFINE c == file.cluster
      <3>1. /\ pc = "discard" /\ pc' = "discard" /\ c \in Sectors /\ UNCHANGED <<fb, next>>
            /\ mark' = [mark EXCEPT ![c] = "discard"]
            /\ file'.cluster = next[c] /\ file'.block = file.block
        BY <2>11 DEF DiscardSector, File
      <3>2. mark[c] = "inuse" /\ Unlinked(c)
        BY <3>1 DEF LinksInv, Holding
      <3>3. \A s \in Sectors : mark'[s] = "inuse" <=> mark[s] = "inuse" /\ s # c
        BY <3>1
      <3>4. \A s \in Sectors : Target(s) /\ s # c => TargetNext(s)
        BY <3>1, <3>3 DEF Target, TargetNext
      <3>5. \A k \in Owners' : k \in Owners /\ Index'[k].cluster = Index[k].cluster
        BY <1>5, <3>1 DEF Owners, KeepsBlocks
      <3> HIDE DEF c
      <3>6. ASSUME NEW s \in Sectors, mark'[s] = "inuse", next[s] \in Sectors PROVE TargetNext(next[s])
        BY <3>1, <3>2, <3>3, <3>4, <3>6 DEF LinksInv, Unlinked, UnlinkedNext
      <3>7. ASSUME NEW k \in Owners', Index'[k].cluster \in Sectors
            PROVE  /\ TargetNext(Index[k].cluster) /\ UnlinkedNext(Index[k].cluster)
                   /\ \A j \in Owners' : Index'[j].cluster = Index'[k].cluster => j = k
                   /\ Index'[k].cluster # next[c]
        <4> DEFINE d == Index[k].cluster
        <4>1. /\ d \in Sectors /\ Target(d) /\ Unlinked(d) /\ d # c
              /\ \A j \in Owners : Index[j].cluster = d => j = k
          BY <3>1, <3>5, <3>7 DEF LinksInv, Holding, c
        <4>2. next[c] # d
          BY <3>1, <3>2, <4>1 DEF Unlinked, UnlinkedNext
        <4> HIDE DEF d
        <4>3. UnlinkedNext(d)
          BY <3>1, <3>3, <4>1 DEF Unlinked, UnlinkedNext
        <4>4. TargetNext(d)
          BY <3>4, <4>1
        <4> QED BY <3>5, <4>1, <4>2, <4>3, <4>4 DEF d
      <3>8. ASSUME next[c] \in Sectors
            PROVE  mark'[next[c]] = "inuse" /\ \A t \in Sectors : mark'[t] = "inuse" => next[t] # next[c]
        <4>1. next[c] # c /\ mark[next[c]] = "inuse"
          BY <3>1, <3>2, <3>8 DEF LinksInv, Unlinked, UnlinkedNext, Target, TargetNext
        <4> QED BY <3>1, <3>2, <3>3, <3>8, <4>1 DEF LinksInv
      <3> QED BY <3>1, <3>3, <3>5, <3>6, <3>7, <3>8, LinksIntro DEF LinksNextInv, LinksInv, Holding, Unlinked, UnlinkedNext
    <2>12. CASE OverrideBlock
      <3>1. /\ UNCHANGED <<mark, next>> /\ pc = "discard" /\ pc' = "create" /\ file.cluster = Empty
            /\ MarkDeprecated(file.block)
            /\ file'.cluster = Empty
        BY <2>12 DEF OverrideBlock, File
      <3>2. file.block \notin Live'
        BY <3>1, StateBitKeeps
      <3> QED BY <1>5, <3>1, <3>2, LinksStay DEF KeepsBlocks, Owners
    <2>13. CASE DeleteDone
      <3>1. /\ UNCHANGED <<mark, next, fb>> /\ pc = "discard" /\ pc' = "idle" /\ job.op = "delete"
        BY <2>13 DEF DeleteDone
      <3>2. file.block \notin Live
        BY <3>1 DEF OrderInv, DiscardInv
      <3> QED BY <1>5, <3>1, <3>2, LinksStay DEF KeepsBlocks, Owners, Holding
    <2>14. CASE Walk
      <3>1. /\ UNCHANGED <<mark, next>> /\ pc \notin {"index_length", "mark", "format"} /\ pc' # "format"
            /\ Holding' => (Holding /\ UNCHANGED file.cluster) \/ file'.cluster = Empty
            /\ pc = "discard" => pc' = "discard" /\ UNCHANGED file.block
        BY <2>14 DEF Walk, Holding, File
      <3> QED BY <1>5, <3>1, LinksStay DEF KeepsBlocks, Owners
    <2>15. CASE AppendToTail
      <3>1. /\ UNCHANGED <<mark, next>> /\ pc \notin {"index_length", "mark", "format"} /\ pc' # "format"
            /\ Holding' => (Holding /\ UNCHANGED file.cluster) \/ file'.cluster = Empty
            /\ pc = "discard" => pc' = "discard" /\ UNCHANGED file.block
        BY <2>15 DEF AppendToTail, Holding, File
      <3> QED BY <1>5, <3>1, LinksStay DEF KeepsBlocks, Owners
    <2>16. CASE Allocate
      <3>1. /\ UNCHANGED <<mark, next>> /\ pc \notin {"index_length", "mark", "format"} /\ pc' # "format"
            /\ Holding' => (Holding /\ UNCHANGED file.cluster) \/ file'.cluster = Empty
            /\ pc = "discard" => pc' = "discard" /\ UNCHANGED file.block
        BY <2>16 DEF Allocate, Take, Holding, File
      <3> QED BY <1>5, <3>1, LinksStay DEF KeepsBlocks, Owners
    <2>17. CASE GcDataErase
      <3>1. PICK s \in erasable : EraseSector(s)
        BY <2>17 DEF GcDataErase
      <3>2. pc = "gc_data" /\ pc' = "gc_data" /\ UNCHANGED <<fb, file>>
        BY <2>17 DEF GcDataErase
      <3>3. \A t \in Sectors : /\ mark'[t] = "inuse" <=> mark[t] = "inuse"
                               /\ mark[t] = "inuse" => next'[t] = next[t]
        BY <3>1 DEF EraseSector, TablesInv
      <3>4. \A t \in Sectors : TargetNext(t) <=> Target(t)
        BY <3>2, <3>3 DEF Target, TargetNext
      <3>5. \A t : UnlinkedNext(t) <=> Unlinked(t)
        BY <3>3 DEF Unlinked, UnlinkedNext
      <3>6. \A k \in Owners' : k \in Owners /\ Index'[k].cluster = Index[k].cluster
        BY <1>5, <3>2 DEF Owners, KeepsBlocks
      <3>7. ~Holding'
        BY <3>2 DEF Holding
      <3>8. ASSUME NEW k \in Owners', Index'[k].cluster \in Sectors
            PROVE  /\ TargetNext(Index'[k].cluster) /\ UnlinkedNext(Index'[k].cluster)
                   /\ \A j \in Owners' : Index'[j].cluster = Index'[k].cluster => j = k
        BY <3>2, <3>4, <3>5, <3>6, <3>8 DEF LinksInv
      <3> QED BY <3>2, <3>3, <3>4, <3>7, <3>8, LinksIntro DEF LinksNextInv, LinksInv
    <2>18. CASE GcDataDone
      <3>1. /\ UNCHANGED <<mark, next>> /\ pc \notin {"index_length", "mark", "format"} /\ pc' # "format"
            /\ Holding' => (Holding /\ UNCHANGED file.cluster) \/ file'.cluster = Empty
            /\ pc = "discard" => pc' = "discard" /\ UNCHANGED file.block
        BY <2>18 DEF GcDataDone, Take, Holding, File
      <3> QED BY <1>5, <3>1, LinksStay DEF KeepsBlocks, Owners
    <2>19. CASE IndexLink
      <3>1. /\ job.tail \in Sectors /\ mark[job.tail] = "inuse"
            /\ job.head \in Sectors /\ IsFirst(job.head, job.todo)
            /\ next' = [next EXCEPT ![job.tail] = job.head]
        BY <2>19, IndexLinkDoes
      <3>2. /\ pc = "index" /\ UNCHANGED <<fb, mark>> /\ job.todo # {}
            /\ WriteRest(job.todo) /\ \A t \in job.todo : mark[t] = "blank"
        BY <2>19 DEF IndexLink, OrderInv, WritingInv, Filling
      <3>3. pc' = "mark" /\ job'.todo = job.todo
        BY <3>2 DEF WriteRest, Job
      <3>4. TargetNext(job.head) /\ mark[job.head] = "blank"
        BY <3>1, <3>2, <3>3 DEF Target, TargetNext, IsFirst
      <3>5. ~Holding' /\ pc' # "format"
        BY <3>2, <3>3 DEF Holding
      <3>6. \A k \in Owners' : k \in Owners /\ Index'[k].cluster = Index[k].cluster
        BY <1>5, <3>2, <3>3 DEF KeepsBlocks, Owners
      <3> QED BY <3>1, <3>2, <3>3, <3>4, <3>5, <3>6, LinkBlank
    <2>20. CASE MarkSector
      <3>1. PICK s \in job.todo :
              IsFirst(s, job.todo) /\ mark' = [mark EXCEPT ![s] = ProgramMark(@, "inuse")]
        BY <2>20 DEF MarkSector
      <3>2. pc = "mark" /\ pc' = "data" /\ UNCHANGED <<fb, next, file>>
        BY <2>20 DEF MarkSector
      <3>3. mark[s] = "blank" /\ s \in Sectors /\ next[s] = Empty
        BY <3>1, <3>2 DEF OrderInv, WritingInv, TablesInv, Job
      <3>4. \A t \in Sectors : mark'[t] = "inuse" <=> mark[t] = "inuse" \/ t = s
        BY <3>1, <3>3 DEF ProgramMark
      <3>5. \A t \in Sectors : Target(t) => mark'[t] = "inuse"
        BY <3>1, <3>4, OnlyOneFirst DEF Target, TargetNext, Job
      <3>6. \A t \in Sectors : Unlinked(t) => UnlinkedNext(t)
        BY <3>2, <3>3, <3>4 DEF Unlinked, UnlinkedNext
      <3>7. \A k \in Owners' : k \in Owners /\ Index'[k].cluster = Index[k].cluster
        BY <1>5, <3>2 DEF Owners, KeepsBlocks
      <3>8. ASSUME NEW k \in Owners', Index'[k].cluster \in Sectors
            PROVE  /\ TargetNext(Index'[k].cluster) /\ UnlinkedNext(Index'[k].cluster)
                   /\ \A j \in Owners' : Index'[j].cluster = Index'[k].cluster => j = k
        BY <3>2, <3>5, <3>6, <3>7, <3>8 DEF LinksInv, Target, TargetNext
      <3>9. ~Holding'
        BY <3>2 DEF Holding
      <3> QED BY <3>2, <3>3, <3>4, <3>5, <3>8, <3>9, LinksIntro DEF LinksNextInv, LinksInv, Target, TargetNext
    <2>21. CASE WriteData
      <3>1. /\ UNCHANGED <<mark, next>> /\ pc \notin {"index_length", "mark", "format"} /\ pc' # "format"
            /\ Holding' => (Holding /\ UNCHANGED file.cluster) \/ file'.cluster = Empty
            /\ pc = "discard" => pc' = "discard" /\ UNCHANGED file.block
        BY <2>21 DEF WriteData, WriteRest, Holding, File
      <3> QED BY <1>5, <3>1, LinksStay DEF KeepsBlocks, Owners
    <2>22. CASE LinkSector
      <3>1. PICK s \in job.todo, t \in job.todo :
              /\ IsFirst(s, job.todo) /\ IsFirst(t, job.todo \ {s})
              /\ next' = [next EXCEPT ![s] = Program(@, t)]
              /\ WriteRest(job.todo \ {s})
        BY <2>22 DEF LinkSector
      <3>2. /\ pc = "link" /\ UNCHANGED <<fb, mark>> /\ job.todo \subseteq Sectors /\ t # s
        BY <2>22, <3>1 DEF LinkSector, IsFirst, Job
      <3>3. /\ mark[s] = "inuse" /\ next[s] = Empty
            /\ mark[t] = "blank"
        BY <3>1, <3>2, OnlyOneFirst DEF OrderInv, WritingInv
      <3>4. pc' = "mark" /\ job'.todo = job.todo \ {s} /\ next' = [next EXCEPT ![s] = t]
        BY <3>1, <3>2, <3>3 DEF WriteRest, Job, Program
      <3>5. TargetNext(t)
        BY <3>1, <3>4 DEF Target, TargetNext
      <3>6. ~Holding' /\ pc' # "format"
        BY <3>2, <3>4 DEF Holding
      <3>7. \A k \in Owners' : k \in Owners /\ Index'[k].cluster = Index[k].cluster
        BY <1>5, <3>2, <3>4 DEF KeepsBlocks, Owners
      <3> QED BY <3>1, <3>2, <3>3, <3>4, <3>5, <3>6, <3>7, LinkBlank
    <2>23. CASE FormatIndex
      BY <2>23, LinksIntro DEF FormatIndex, LinksNextInv
    <2>24. CASE FormatData
      <3>1. CASE pc' = "format"
        BY <3>1 DEF LinksInv
      <3>2. CASE pc' # "format"
        <4>1. PICK s \in job.todo : EraseSector(s) /\ job.todo = {s}
          BY <2>24, <3>2 DEF FormatData
        <4>2. pc = "format" /\ pc' = "idle" /\ job.fbs = {}
          BY <2>24, <3>2 DEF FormatData
        <4>3. \A t \in Sectors : mark'[t] = "blank"
          BY <4>1, <4>2 DEF EraseSector, OrderInv, FormatInv
        <4>4. \A k \in Live : Index[k] = BlankBlock /\ HasName(Index[k])
          BY <4>2, IndexIsFlash DEF Live, OrderInv, FormatInv
        <4>5. Live' = {}
          BY <1>5, <4>4 DEF KeepsBlocks, BlankBlock, HasName
        <4>6. Owners' = {} /\ ~Holding'
          BY <4>2, <4>5 DEF Owners, Holding
        <4> QED BY <4>3, <4>6, LinksIntro DEF LinksNextInv, LinksInv
      <3> QED BY <3>1, <3>2
    <2>25. CASE OrderlyCrash
      <3>1. /\ UNCHANGED <<mark, next>> /\ pc = "idle" /\ pc' = "idle"
        BY <2>25 DEF OrderlyCrash, Crash
      <3> QED BY <1>5, <3>1, LinksStay DEF KeepsBlocks, Owners, Holding
    <2>26. CASE UNCHANGED vars
      BY <2>26, LinksIntro DEF vars, LinksNextInv, LinksInv, Owners, Holding, Target, TargetNext, Unlinked, UnlinkedNext, Live, Index
    <2>27. CASE HandOver
      <3>1. /\ UNCHANGED <<mark, next>> /\ pc \notin {"index_length", "mark", "format"} /\ pc' # "format"
            /\ ~Holding' /\ pc' # "discard" /\ pc # "discard"
        BY <2>27 DEF HandOver, Holding
      <3> QED BY <1>5, <3>1, LinksStay DEF KeepsBlocks, Owners
    <2> QED
      BY <1>5, <2>1, <2>2, <2>3, <2>4, <2>5, <2>6, <2>7, <2>8, <2>9, <2>10, <2>11,
         <2>12, <2>13, <2>14, <2>15, <2>16, <2>17, <2>18, <2>19, <2>20, <2>21,
         <2>22, <2>23, <2>24, <2>25, <2>26, <2>27
      DEF OrderlyStep, Step

  <1> QED BY <1>1, <1>2, <1>3, <1>4, <1>5, OrderlyBlocks

-----------------------------------------------------------------------------
(***************************************************************************)
(* The invariant, and what follows from it.                                *)
(***************************************************************************)
\* Outside of a discard and a format, chains are disjoint because every sector
\* is linked to once.
LEMMA LinkedOnce ==
  TypeOK /\ TablesInv /\ WritingInv /\ LinksInv /\ pc \notin {"discard", "format"}
    => NoCrossLink
  <1> SUFFICES ASSUME TypeOK, TablesInv, WritingInv, LinksInv, pc \notin {"discard", "format"},
                      NEW j \in Live, NEW k \in Live, j # k
               PROVE  Chain(j) \cap Chain(k) = {}
    BY DEF NoCrossLink
  <1> DEFINE U == {s \in Sectors : Target(s)}
             c == Index[j].cluster
             d == Index[k].cluster
  <1>1. ASSUME NEW s \in U, next[s] \in Sectors PROVE mark[s] = "inuse"
    <2>1. \A t : IsFirst(t, job.todo) => t \in job.todo
      BY DEF IsFirst
    <2>2. mark[s] = "inuse" \/ mark[s] = "blank"
      BY <2>1 DEF Target, WritingInv
    <2> QED BY <1>1, <2>2, SectorFacts DEF TablesInv
  <1>2. Closed(next, U)
    BY <1>1 DEF Closed, LinksInv
  <1>3. \A s, t \in U : next[s] = next[t] /\ next[s] \in Sectors => s = t
    BY <1>1 DEF LinksInv
  <1>4. j \in Owners /\ k \in Owners
    BY DEF Owners
  <1>5. c \in Sectors => c \in U /\ \A t \in U : next[t] # c
    BY <1>1, <1>4 DEF LinksInv, Unlinked
  <1>6. d \in Sectors => d \in U /\ \A t \in U : next[t] # d
    BY <1>1, <1>4 DEF LinksInv, Unlinked
  <1>7. CASE c \notin Sectors
    BY <1>7, ReachedFromNone DEF Chain, Reach
  <1>8. CASE c \in Sectors
    <2>1. c # d
      BY <1>4, <1>8 DEF LinksInv
    <2> HIDE DEF U, c, d
    <2>2. U \in SUBSET Sectors
      BY DEF U
    <2>3. Reached(next, c) \cap Reached(next, d) = {}
      BY <1>2, <1>3, <1>5, <1>6, <2>1, <2>2, ChainsAreDisjoint
    <2> QED BY <2>3 DEF Chain, Reach, c, d
  <1> QED BY <1>7, <1>8

\* A call that discards or formats leaves the chains of the files alone.
LEMMA OrderlyDiscards ==
  ASSUME OrderInv, OrderlyStep, pc' \in {"discard", "format"}
  PROVE  NoCrossLink'
  <1> USE DEF flash, ftl, Reject, Goto, Return
  <1>1. ~OrderlyFinish /\ ~CreateBlock /\ ~IndexCluster /\ ~IndexLength
    BY DEF OrderlyFinish, FinishCall, CreateBlock, AfterCreate, IndexCluster, IndexLength, WriteRest
  <1>2. KeepsBlocks
    BY <1>1, OrderlyBlocks
  <1>3. UNCHANGED next \/ Live = {}
    <2>1. ASSUME NEW n \in Names, OrderlyRename(n) PROVE UNCHANGED next
      BY <2>1 DEF OrderlyRename, RenameCall
    <2>2. ASSUME NEW n \in Names, OpenCall(n) PROVE UNCHANGED next
      BY <2>2 DEF OpenCall
    <2>3. ASSUME NEW n \in Names, NEW ro \in BOOLEAN, CreateCall(n, ro) PROVE UNCHANGED next
      BY <2>3 DEF CreateCall, CreateWith
    <2>4. ASSUME NEW len \in Nat \ {0}, NEW method \in {"OVERRIDE", "APPEND"}, OrderlyWrite(len, method)
          PROVE UNCHANGED next
      BY <2>4 DEF OrderlyWrite, WriteCall
    <2>5. CASE OrderlyDelete \/ FormatCall \/ DiscardSector \/ FormatIndex \/ UNCHANGED vars
      BY <2>5 DEF OrderlyDelete, DeleteCall, FormatCall, DiscardSector, FormatIndex, vars
    <2>6. CASE FormatData
      <3>1. pc = "format" /\ job.fbs = {}
        BY <2>6 DEF FormatData
      <3>2. \A k \in Slots : ~HasName(Index[k])
        BY <3>1, IndexIsFlash DEF OrderInv, FormatInv, BlankBlock, HasName
      <3> QED BY <3>2 DEF Live
    <2>7. ~(\/ CreateExists \/ GcIndexErase \/ GcIndexRewrite \/ CreateNoSpace
            \/ OverrideBlock \/ DeleteDone \/ Walk \/ AppendToTail \/ Allocate \/ GcDataErase)
      BY DEF CreateExists, AfterCreate, GcIndexErase, GcIndexRewrite, CreateNoSpace,
             OverrideBlock, DeleteDone, Walk, AppendToTail, Allocate, Take, GcDataErase
    <2>8. ~(\/ GcDataDone \/ IndexLink \/ MarkSector \/ WriteData \/ LinkSector \/ OrderlyCrash \/ HandOver)
      BY DEF GcDataDone, Take, IndexLink, WriteRest, MarkSector, WriteData, LinkSector, OrderlyCrash, Crash, HandOver
    <2> QED BY <1>1, <2>1, <2>2, <2>3, <2>4, <2>5, <2>6, <2>7, <2>8 DEF OrderlyStep, Step
  <1>4. CASE Live = {}
    BY <1>2, <1>4 DEF KeepsBlocks, NoCrossLink
  <1>5. CASE UNCHANGED next
    <2>1. \A k \in Live' : k \in Live /\ Chain(k)' = Chain(k)
      BY <1>2, <1>5 DEF KeepsBlocks, Chain, Reach
    <2> QED BY <2>1 DEF OrderInv, NoCrossLink
  <1> QED BY <1>3, <1>4, <1>5

LEMMA ChainsInit == Init => ChainsInv
  <1> SUFFICES ASSUME Init PROVE ChainsInv
    OBVIOUS
  <1>1. TypeOK /\ NamesInv
    BY TypeInit, NamesInit
  <1>2. \A k \in Slots : fb[k] = BlankBlock /\ gcbuf[k] = BlankBlock /\ Index[k] = fb[k]
    BY IndexIsFlash DEF Init, BlankTable
  <1>3. Live = {}
    BY <1>2 DEF Live, HasName, BlankBlock
  <1>4. \A s \in Sectors : mark[s] = "blank" /\ next[s] = Empty /\ data[s] = {}
    BY DEF Init
  <1>5. pc = "idle" /\ job = NoJob /\ file = NoFile /\ boot = "intact" /\ erasable = {}
    BY DEF Init
  <1>6. TablesInv
    BY <1>1, <1>4, <1>5 DEF TablesInv, TypeOK
  <1>7. WordsInv
    BY <1>2, <1>4, <1>5, ValueAssumption DEF WordsInv, BlankBlock, NoFile, HasName
  <1>8. FileInv /\ LengthsInv
    BY <1>3, <1>5 DEF FileInv, LengthsInv, NoFile, Holding, Busy, Filling, Attached
  <1>9. CreateInv /\ DiscardInv /\ TailInv /\ WritingInv /\ FormatInv
    BY <1>5 DEF CreateInv, DiscardInv, TailInv, WritingInv, FormatInv, Busy, Filling, NoJob
  <1>10. LinksInv /\ NoCrossLink
    BY <1>3, <1>4, <1>5 DEF LinksInv, NoCrossLink, Owners, Holding
  <1> QED BY <1>1, <1>6, <1>7, <1>8, <1>9, <1>10 DEF ChainsInv, NamesInv

LEMMA GcErasedNext ==
  ASSUME GcErased, TypeOK, [Next]_vars
  PROVE  GcErased'
  <1> USE DEF flash, ftl, Reject, Goto, Return
  <1>1. CASE pc' # "gc_rewrite"
    BY <1>1 DEF GcErased
  <1>2. CASE pc' = "gc_rewrite"
    <2>1. CASE GcIndexErase
      <3>1. PICK k \in Slots :
              EraseIndexSector(SlotSector[k]) /\ job' = [job EXCEPT !.fbs = {SlotSector[k]}]
        BY <2>1 DEF GcIndexErase, Garbage
      <3>2. job'.fbs = {SlotSector[k]}
        BY <3>1 DEF TypeOK, Job
      <3> QED BY <3>1, <3>2 DEF EraseIndexSector, GcErased
    <2>2. CASE UNCHANGED vars
      BY <2>2 DEF vars, GcErased
    <2>3. ~(\E n \in Names, ro \in ReadOnly : CreateCall(n, ro)) /\ ~(\E n \in Names : OpenCall(n) \/ RenameCall(n))
      BY <1>2 DEF CreateCall, CreateWith, OpenCall, RenameCall
    <2>4. ~(\E len \in WriteLens, method \in Methods : WriteCall(len, method))
      BY <1>2 DEF WriteCall
    <2>5. ~(\/ FinishCall \/ DeleteCall \/ FormatCall \/ CreateExists \/ CreateBlock
            \/ GcIndexRewrite \/ CreateNoSpace \/ DiscardSector \/ OverrideBlock \/ DeleteDone
            \/ Walk \/ AppendToTail \/ Allocate \/ GcDataErase)
      BY <1>2 DEF FinishCall, DeleteCall, FormatCall, CreateExists, CreateBlock, AfterCreate,
                  GcIndexRewrite, CreateNoSpace, DiscardSector, OverrideBlock, DeleteDone,
                  Walk, AppendToTail, Allocate, Take, GcDataErase
    <2>6. ~(\/ GcDataDone \/ IndexCluster \/ IndexLength \/ IndexLink \/ MarkSector
            \/ WriteData \/ LinkSector \/ FormatIndex \/ FormatData \/ Crash)
      BY <1>2 DEF GcDataDone, Take, IndexCluster, IndexLength, IndexLink, WriteRest,
                  MarkSector, WriteData, LinkSector, FormatIndex, FormatData, Crash
    <2> QED BY <2>1, <2>2, <2>3, <2>4, <2>5, <2>6 DEF Next, Call, Step
  <1> QED BY <1>1, <1>2

LEMMA OrderlyGc ==
  ASSUME GcErased, TypeOK, OrderlyStep
  PROVE  GcErased'
  <1>1. [Next]_vars => GcErased'
    BY GcErasedNext
  <1>2. ASSUME pc = "idle", pc' # "gc_rewrite" PROVE GcErased'
    BY <1>2 DEF GcErased
  <1>3. ASSUME NEW n \in Names, NEW ro \in BOOLEAN, CreateCall(n, ro) PROVE GcErased'
    BY <1>2, <1>3 DEF CreateCall, CreateWith, Goto
  <1>4. ASSUME NEW n \in Names, OrderlyRename(n) PROVE GcErased'
    BY <1>2, <1>4 DEF OrderlyRename, RenameCall, Goto, Reject
  <1>5. ASSUME NEW len \in Nat \ {0}, NEW method \in {"OVERRIDE", "APPEND"}, OrderlyWrite(len, method)
        PROVE  GcErased'
    BY <1>2, <1>5 DEF OrderlyWrite, WriteCall, Goto, Reject
  <1>6. CASE HandOver
    BY <1>2, <1>6 DEF HandOver
  <1>7. CASE \/ \E n \in Names : OpenCall(n)
             \/ OrderlyFinish \/ OrderlyDelete \/ FormatCall \/ OrderlyCrash
             \/ Step \/ UNCHANGED vars
    <2>1. [Next]_vars
      BY <1>7 DEF OrderlyFinish, OrderlyDelete, OrderlyCrash, Next, Call
    <2> QED BY <1>1, <2>1
  <1> QED BY <1>3, <1>4, <1>5, <1>6, <1>7 DEF OrderlyStep

LEMMA OrderNext == OrderInv /\ OrderlyStep => OrderInv'
  <1> SUFFICES ASSUME OrderInv, OrderlyStep PROVE OrderInv'
    OBVIOUS
  <1>1. TypeOK' /\ GcErased'
    BY OrderlyTypes, OrderlyGc DEF OrderInv
  <1>2. TablesInv' /\ WordsInv' /\ HandleInv' /\ BlocksInv'
    BY OrderlyTables, OrderlyWords, OrderlyFile, OrderlyLengths
  <1>3. CreateInv' /\ DiscardInv' /\ TailInv' /\ WritingInv' /\ FormatInv' /\ LinksInv'
    BY OrderlyCreate, OrderlyDiscard, OrderlyTail, OrderlyWriting, OrderlyFormat, OrderlyLinks
  <1>4. CASE pc' \in {"discard", "format"}
    BY <1>1, <1>2, <1>3, <1>4, OrderlyDiscards DEF OrderInv
  <1>5. CASE pc' \notin {"discard", "format"}
    <2>1. (TypeOK /\ TablesInv /\ WritingInv /\ LinksInv /\ pc \notin {"discard", "format"})'
      BY <1>1, <1>2, <1>3, <1>5
    <2>2. NoCrossLink'
      BY <2>1, LinkedOnce, PTL
    <2> QED BY <1>1, <1>2, <1>3, <2>2 DEF OrderInv
  <1> QED BY <1>4, <1>5

-----------------------------------------------------------------------------
(***************************************************************************)
(* Callers that keep the rules: their steps are orderly, and every file    *)
(* but the one of an unfinished append has the length of its chain.        *)
(***************************************************************************)
LEMMA ChainsAreOrdered == ChainsInv => OrderInv
  <1> SUFFICES ASSUME ChainsInv PROVE OrderInv
    OBVIOUS
  <1>1. HandleInv
    BY DEF ChainsInv, FileInv, HandleInv, Busy, Filling, Holding
  <1> QED BY <1>1 DEF ChainsInv, OrderInv, LengthsInv, BlocksInv

LEMMA CallersAreUpToDate ==
  ASSUME CallersKeepRules, ChainsInv, pc = "idle"
  PROVE  Sized /\ (MayUse => Known)
  BY DEF CallersKeepRules, ChainsInv, FileInv, Holding, MayUse, Sized, Known

LEMMA CallersAreOrderly ==
  ASSUME CallersKeepRules, ChainsInv, [Next]_vars
  PROVE  OrderlyStep
  <1>1. ASSUME NEW n \in Names, NEW ro \in ReadOnly, CreateCall(n, ro) PROVE OrderlyStep
    BY <1>1, ValueAssumption DEF OrderlyStep
  <1>2. ASSUME NEW n \in Names, RenameCall(n) PROVE OrderlyStep
    <2>1. Known
      BY <1>2, CallersAreUpToDate DEF RenameCall
    <2> QED BY <1>2, <2>1 DEF OrderlyRename, OrderlyStep
  <1>3. ASSUME NEW len \in WriteLens, NEW method \in Methods, WriteCall(len, method) PROVE OrderlyStep
    <2>1. Known /\ Sized
      BY <1>3, CallersAreUpToDate DEF WriteCall
    <2>2. len \in Nat \ {0} /\ method \in {"OVERRIDE", "APPEND"}
      BY SizeAssumption, ValueAssumption DEF CallersKeepRules
    <2> QED BY <1>3, <2>1, <2>2 DEF OrderlyWrite, OrderlyStep
  <1>4. CASE FinishCall
    <2>1. Known /\ Sized
      BY <1>4, CallersAreUpToDate DEF FinishCall
    <2> QED BY <1>4, <2>1 DEF OrderlyFinish, OrderlyStep
  <1>5. CASE DeleteCall
    <2>1. Known
      BY <1>5, CallersAreUpToDate DEF DeleteCall
    <2> QED BY <1>5, <2>1 DEF OrderlyDelete, OrderlyStep
  <1>6. CASE Crash
    BY <1>6 DEF Crash, CallersKeepRules, OrderlyCrash, OrderlyStep
  <1>7. CASE (\E n \in Names : OpenCall(n)) \/ FormatCall \/ Step \/ UNCHANGED vars
    BY <1>7 DEF OrderlyStep
  <1> QED BY <1>1, <1>2, <1>3, <1>4, <1>5, <1>6, <1>7 DEF Next, Call

LEMMA CallersFinish ==
  ASSUME CallersKeepRules, ChainsInv, FinishCall
  PROVE  OrderlyFinish
  BY CallersAreUpToDate DEF FinishCall, OrderlyFinish

LEMMA BlocksStay ==
  ASSUME CallersKeepRules, ChainsInv, [Next]_vars,
         ~FinishCall, ~CreateBlock, ~IndexCluster, ~IndexLength
  PROVE  KeepsBlocks
  <1>1. OrderInv /\ OrderlyStep /\ ~OrderlyFinish
    BY ChainsAreOrdered, CallersAreOrderly DEF OrderlyFinish
  <1> QED BY <1>1, OrderlyBlocks

LEMMA CallerIsAttached ==
  ASSUME CallersKeepRules, MayUse, file.block # Empty
  PROVE  Attached
  BY DEF CallersKeepRules, MayUse

LEMMA AttachedFacts ==
  ASSUME ChainsInv, Attached
  PROVE  /\ file.block \in Slots
         /\ file.name \in Names
         /\ HasName(fb[file.block])
         /\ pc # "gc_rewrite" => file.block \in Live
  BY ChainsAreOrdered, AttachedIs

LEMMA FinishFills ==
  ASSUME CallersKeepRules, ChainsInv, FinishCall,
         file.block # Empty, fb[file.block].length = Empty
  PROVE  /\ Attached
         /\ file.block \in Slots
         /\ fb' = [fb EXCEPT ![file.block] = [fb[file.block] EXCEPT !.length = file.length]]
         /\ pc = "idle" /\ pc' = "idle" /\ job' = NoJob
         /\ UNCHANGED <<mark, next, data, clobbered, boot, ftl, file, gcbuf, crashes>>
  BY ChainsAreOrdered, CallersFinish, FinishDoes

LEMMA CreateWrites ==
  ASSUME ChainsInv, CreateBlock
  PROVE  \E k \in Slots :
           /\ fb[k] = BlankBlock
           /\ fb' = [fb EXCEPT ![k] = [name |-> file.name, cluster |-> file.cluster,
                                       length |-> file.length, info |-> job.info]]
           /\ file' = [file EXCEPT !.block = k]
           /\ IsOpen(fb'[k]) /\ HasName(fb'[k])
  BY ChainsAreOrdered, CreateDoes

LEMMA IndexClusterWrites ==
  ASSUME ChainsInv, IndexCluster
  PROVE  /\ Attached /\ file.block \in Slots
         /\ file.cluster = Empty
         /\ job.head \in Sectors /\ IsFirst(job.head, job.todo) /\ job.len \in Nat
         /\ fb[file.block].cluster = Empty
         /\ fb' = [fb EXCEPT ![file.block] = [fb[file.block] EXCEPT !.cluster = job.head]]
         /\ file' = [file EXCEPT !.cluster = job.head, !.length = job.len]
  BY ChainsAreOrdered, IndexClusterDoes

LEMMA IndexLengthWrites ==
  ASSUME ChainsInv, IndexLength
  PROVE  /\ Attached /\ file.block \in Slots
         /\ fb[file.block].length = Empty
         /\ job.len \in Nat
         /\ fb' = [fb EXCEPT ![file.block] = [fb[file.block] EXCEPT !.length = job.len]]
  BY ChainsAreOrdered, IndexLengthDoes

LEMMA IndexLinkWrites ==
  ASSUME ChainsInv, IndexLink
  PROVE  /\ job.tail \in Sectors /\ mark[job.tail] = "inuse" /\ next[job.tail] = Empty
         /\ job.head \in Sectors /\ IsFirst(job.head, job.todo) /\ job.len \in Nat
         /\ next' = [next EXCEPT ![job.tail] = job.head] /\ UNCHANGED boot
         /\ file.length \in Nat /\ file.length + job.len \in Nat
         /\ file' = [file EXCEPT !.length = file.length + job.len]
  BY ChainsAreOrdered, IndexLinkDoes

LEMMA AppendWrites ==
  ASSUME ChainsInv, AppendToTail
  PROVE  \E size \in Nat :
           /\ file.length \in Nat /\ file.length + size \in Nat
           /\ file' = [file EXCEPT !.length = file.length + size]
           /\ ProgramData(job.tail, (file.length % DataArea) .. (file.length % DataArea) + size - 1)
           /\ size <= job.len /\ (file.length % DataArea) + size <= DataArea
           /\ size # job.len => (file.length % DataArea) + size = DataArea
           /\ \/ size = job.len /\ Return("APPEND_FILE_SUCCESS")
              \/ size # job.len /\ job' = [job EXCEPT !.len = @ - size] /\ Goto("alloc")
  BY ChainsAreOrdered, AppendDoes

LEMMA FileNext ==
  ASSUME CallersKeepRules, ChainsInv, [Next]_vars
  PROVE  FileInv'
  <1> USE DEF flash, ftl, Reject, Goto, Return
  <1>a. TypeOK /\ TypeOK' /\ FileInv /\ LengthsInv
    BY TypeNext DEF ChainsInv
  <1> USE <1>a, SectorFacts DEF TypeOK

  <1>1. ASSUME NEW n \in Names, NEW ro \in ReadOnly, CreateCall(n, ro) PROVE FileInv'
    BY <1>1 DEF CreateCall, CreateWith, NoFile, FileInv, Holding, Busy, Filling, Attached
  <1>2. ASSUME NEW n \in Names, OpenCall(n) PROVE FileInv'
    <2>1. PICK k \in Slots :
            /\ IsOpen(fb[k]) /\ fb[k].name = n
            /\ file' = [name |-> n, block |-> k, cluster |-> fb[k].cluster, length |-> fb[k].length]
      BY <1>2 DEF OpenCall, Named
    <2>2. pc = "idle" /\ pc' = "idle" /\ MayReuse /\ UNCHANGED fb
      BY <1>2 DEF OpenCall
    <2>3. fb[k].cluster = Empty <=> fb[k].length = Empty
      <3>1. k \in Live /\ Index[k] = fb[k]
        BY <2>1, <2>2, IndexIsFlash, ValueAssumption DEF Live, HasName
      <3>2. ASSUME fb[k].cluster # Empty, fb[k].length = Empty PROVE FALSE
        <4>1. k = file.block /\ fb[k].name = file.name
          BY <3>1, <3>2 DEF LengthsInv
        <4>2. Attached
          BY <2>1, <4>1, EmptyNotSlot DEF Attached
        <4>3. file.length # Empty
          BY <2>2, <3>2, <4>1, <4>2 DEF FileInv, Holding
        <4> QED BY <2>2, <3>2, <4>1, <4>2, <4>3 DEF MayReuse, Unfinished, CallersKeepRules
      <3> QED BY <3>1, <3>2 DEF LengthsInv
    <2> QED BY <2>1, <2>2, <2>3 DEF FileInv, Holding, Busy, Filling, Attached
  <1>3. ASSUME NEW len \in WriteLens, NEW method \in Methods, WriteCall(len, method) PROVE FileInv'
    <2>1. UNCHANGED <<fb, file>> /\ pc = "idle"
      BY <1>3 DEF WriteCall
    <2>2. pc' # pc => Attached
      BY <1>3, CallerIsAttached DEF WriteCall
    <2> QED BY <2>1, <2>2 DEF FileInv, Holding, Busy, Filling, Attached
  <1>4. CASE FinishCall
    <2>1. CASE file.block = Empty
      BY <1>4, <2>1 DEF FinishCall, FileInv, Holding, Busy, Filling, Attached
    <2>2. CASE file.block # Empty /\ fb[file.block].length # Empty
      BY <1>4, <2>2 DEF FinishCall, FileInv, Holding, Busy, Filling, Attached
    <2>3. CASE file.block # Empty /\ fb[file.block].length = Empty
      <3>1. /\ Attached /\ file.block \in Slots
            /\ fb' = [fb EXCEPT ![file.block] = [fb[file.block] EXCEPT !.length = file.length]]
            /\ UNCHANGED file /\ pc = "idle" /\ pc' = "idle"
        BY <1>4, <2>3, FinishFills
      <3>2. fb'[file.block].cluster = fb[file.block].cluster
        BY <3>1 DEF FileBlock
      <3> QED BY <3>1, <3>2 DEF FileInv, Holding, Busy, Filling
    <2> QED BY <2>1, <2>2, <2>3
  <1>5. ASSUME NEW n \in Names, RenameCall(n) PROVE FileInv'
    <2>1. CASE UNCHANGED <<fb, file, pc>>
      BY <2>1 DEF FileInv, Holding, Busy, Filling, Attached
    <2>2. CASE file' = [file EXCEPT !.name = n] /\ pc = "idle" /\ pc' = "create"
      BY <2>2 DEF FileInv, Holding, Busy, Filling, File
    <2> QED BY <1>5, <2>1, <2>2 DEF RenameCall
  <1>6. CASE DeleteCall
    BY <1>6 DEF DeleteCall, FileInv, Holding, Busy, Filling, Attached
  <1>7. CASE FormatCall
    BY <1>7 DEF FormatCall, FileInv, Holding, Busy, Filling, Attached
  <1>8. CASE CreateExists
    <2>1. ~Attached
      BY <1>8, AttachedFacts DEF CreateExists, ChainsInv, CreateInv
    <2>2. pc' = "idle" /\ UNCHANGED <<fb, file>> /\ pc = "create"
      BY <1>8 DEF CreateExists, AfterCreate
    <2> QED BY <2>1, <2>2 DEF FileInv, Holding, Busy, Filling, Attached
  <1>9. CASE CreateBlock
    <2>1. PICK k \in Slots :
            /\ fb' = [fb EXCEPT ![k] = [name |-> file.name, cluster |-> file.cluster,
                                        length |-> file.length, info |-> job.info]]
            /\ file' = [file EXCEPT !.block = k]
            /\ IsOpen(fb'[k])
      BY <1>9, CreateWrites
    <2>2. /\ file'.block = k /\ file'.name = file.name
          /\ file'.cluster = file.cluster /\ file'.length = file.length
      BY <2>1 DEF File
    <2>3. fb'[k].name = file.name /\ fb'[k].cluster = file.cluster
      BY <2>1
    <2>4. pc = "create" /\ file.name \in Names
      BY <1>9 DEF CreateBlock, ChainsInv, CreateInv
    <2>5. Attached'
      BY <2>1, <2>2, <2>3, EmptyNotSlot DEF Attached
    <2> QED BY <2>2, <2>3, <2>4, <2>5 DEF FileInv, Holding, Busy, Filling
  <1>10. CASE GcIndexErase
    BY <1>10 DEF GcIndexErase, EraseIndexSector, FileInv, Holding, Busy, Filling, Attached
  <1>11. CASE GcIndexRewrite
    BY <1>11 DEF GcIndexRewrite, FileInv, Holding, Busy, Filling, Attached
  <1>12. CASE CreateNoSpace
    <2>1. ~Attached
      BY <1>12, AttachedFacts DEF CreateNoSpace, ChainsInv, CreateInv
    <2>2. pc' = "idle" /\ UNCHANGED <<fb, file>> /\ pc = "create"
      BY <1>12 DEF CreateNoSpace, AfterCreate
    <2> QED BY <2>1, <2>2 DEF FileInv, Holding, Busy, Filling, Attached
  <1>13. CASE DiscardSector
    BY <1>13 DEF DiscardSector, FileInv, Holding, Busy, Filling, Attached
  <1>14. CASE OverrideBlock
    BY <1>14 DEF OverrideBlock, FileInv, Holding, Busy, Filling, Attached
  <1>15. CASE DeleteDone
    BY <1>15 DEF DeleteDone, NoFile, FileInv, Holding, Busy, Filling, Attached
  <1>16. CASE Walk
    BY <1>16 DEF Walk, FileInv, Holding, Busy, Filling, Attached
  <1>17. CASE AppendToTail
    <2>1. PICK size \in Nat :
            /\ file.length + size \in Nat
            /\ file' = [file EXCEPT !.length = file.length + size]
      BY <1>17, AppendWrites
    <2>2. UNCHANGED <<file.cluster, file.block, file.name, fb>> /\ file'.length \in Nat
      BY <1>17, <2>1 DEF AppendToTail, File
    <2>3. file.cluster # Empty /\ pc = "partial"
      BY <1>17 DEF AppendToTail, ChainsInv, TailInv
    <2> QED BY <2>2, <2>3 DEF FileInv, Holding, Busy, Filling, Attached
  <1>18. CASE Allocate
    BY <1>18 DEF Allocate, Take, FileInv, Holding, Busy, Filling, Attached
  <1>19. CASE GcDataErase
    BY <1>19 DEF GcDataErase, EraseSector, IsFirst, FileInv, Holding, Busy, Filling, Attached
  <1>20. CASE GcDataDone
    BY <1>20 DEF GcDataDone, Take, FileInv, Holding, Busy, Filling, Attached
  <1>21. CASE IndexCluster
    <2>1. /\ Attached /\ file.block \in Slots
          /\ job.head \in Sectors /\ job.len \in Nat
          /\ fb' = [fb EXCEPT ![file.block] = [fb[file.block] EXCEPT !.cluster = job.head]]
          /\ file' = [file EXCEPT !.cluster = job.head, !.length = job.len]
      BY <1>21, IndexClusterWrites
    <2>2. /\ fb'[file.block].cluster = job.head /\ fb'[file.block].name = fb[file.block].name
          /\ fb'[file.block].info = fb[file.block].info
      BY <2>1 DEF FileBlock
    <2>3. /\ UNCHANGED <<file.block, file.name>>
          /\ file'.cluster = job.head /\ file'.length = job.len
      BY <2>1 DEF File
    <2>4. Attached'
      BY <2>1, <2>2, <2>3 DEF Attached, IsOpen
    <2> QED BY <2>1, <2>2, <2>3, <2>4 DEF FileInv, Attached
  <1>22. CASE IndexLength
    <2>1. /\ Attached /\ file.block \in Slots
          /\ fb' = [fb EXCEPT ![file.block] = [fb[file.block] EXCEPT !.length = job.len]]
      BY <1>22, IndexLengthWrites
    <2>2. /\ fb'[file.block].cluster = fb[file.block].cluster
          /\ fb'[file.block].name = fb[file.block].name
          /\ fb'[file.block].info = fb[file.block].info
      BY <2>1 DEF FileBlock
    <2>3. UNCHANGED file /\ pc = "index_length" /\ pc' # "discard"
      BY <1>22 DEF IndexLength, WriteRest
    <2>4. Attached'
      BY <2>1, <2>2, <2>3 DEF Attached, IsOpen
    <2> QED BY <2>2, <2>3, <2>4, <2>1 DEF FileInv, Holding, Busy
  <1>23. CASE IndexLink
    <2>1. /\ file.length + job.len \in Nat
          /\ file' = [file EXCEPT !.length = file.length + job.len]
      BY <1>23, IndexLinkWrites
    <2>2. UNCHANGED <<file.cluster, file.block, file.name, fb>> /\ file'.length \in Nat
      BY <1>23, <2>1 DEF IndexLink, File
    <2>3. file.cluster # Empty /\ pc = "index"
      BY <1>23 DEF IndexLink
    <2> QED BY <2>2, <2>3 DEF FileInv, Holding, Busy, Filling, Attached
  <1>24. CASE MarkSector
    BY <1>24 DEF MarkSector, FileInv, Holding, Busy, Filling, Attached
  <1>25. CASE WriteData
    BY <1>25 DEF WriteData, WriteRest, FileInv, Holding, Busy, Filling, Attached
  <1>26. CASE LinkSector
    BY <1>26 DEF LinkSector, WriteRest, FileInv, Holding, Busy, Filling, Attached
  <1>27. CASE FormatIndex
    <2>1. \A k \in Slots : fb'[k] = fb[k] \/ fb'[k].name = NoName
      BY <1>27 DEF FormatIndex, EraseIndexSector, BlankBlock
    <2>2. UNCHANGED file /\ pc = "format" /\ pc' = "format" /\ (file.block = Empty \/ file.block \in Slots)
      BY <1>27 DEF FormatIndex, File
    <2>3. Attached' => Attached /\ fb'[file.block] = fb[file.block]
      BY <2>1, <2>2, ValueAssumption DEF Attached, FileInv
    <2> QED BY <2>2, <2>3 DEF FileInv, Holding, Busy, Filling
  <1>28. CASE FormatData
    BY <1>28 DEF FormatData, EraseSector, IsFirst, FileInv, Holding, Busy, Filling, Attached
  <1>29. CASE Crash
    BY <1>29 DEF Crash, NoFile, FileInv, Holding, Busy, Filling, Attached
  <1>30. CASE UNCHANGED vars
    BY <1>30 DEF vars, FileInv, Holding, Busy, Filling, Attached
  <1> QED
    BY <1>1, <1>2, <1>3, <1>4, <1>5, <1>6, <1>7, <1>8, <1>9, <1>10, <1>11, <1>12,
       <1>13, <1>14, <1>15, <1>16, <1>17, <1>18, <1>19, <1>20, <1>21, <1>22, <1>23,
       <1>24, <1>25, <1>26, <1>27, <1>28, <1>29, <1>30
    DEF Next, Call, Step

LEMMA NoneUnfinished ==
  ASSUME CallersKeepRules, ChainsInv, pc = "idle", MayReuse, NEW k \in Live
  PROVE  Index[k].cluster = Empty <=> Index[k].length = Empty
  <1> SUFFICES ASSUME Index[k].cluster # Empty, Index[k].length = Empty PROVE FALSE
    BY DEF ChainsInv, LengthsInv
  <1>1. k \in Slots /\ Index[k] = fb[k] /\ HasName(fb[k]) /\ IsOpen(fb[k])
    BY IndexIsFlash DEF Live
  <1>2. k = file.block /\ fb[k].name = file.name
    BY <1>1 DEF ChainsInv, LengthsInv
  <1>3. Attached
    BY <1>1, <1>2, EmptyNotSlot DEF Attached
  <1>4. file.length # Empty
    BY <1>1, <1>2, <1>3 DEF ChainsInv, FileInv, Holding
  <1> QED BY <1>1, <1>2, <1>3, <1>4 DEF MayReuse, Unfinished, CallersKeepRules

LEMMA LengthsNext ==
  ASSUME CallersKeepRules, ChainsInv, [Next]_vars
  PROVE  LengthsInv'
  <1> USE DEF flash, ftl, Reject, Goto, Return
  <1>a. TypeOK /\ TypeOK' /\ FileInv /\ LengthsInv
    BY TypeNext DEF ChainsInv
  <1> USE <1>a, SectorFacts DEF TypeOK
  <1>k. ASSUME KeepsBlocks, UNCHANGED <<file.block, file.name>> PROVE LengthsInv'
    BY <1>k DEF LengthsInv, KeepsBlocks
  <1>u. ASSUME KeepsBlocks, pc = "idle", MayReuse PROVE LengthsInv'
    BY <1>u, NoneUnfinished DEF LengthsInv, KeepsBlocks
  <1>f. ASSUME UNCHANGED <<fb, file>>, pc # "gc_rewrite", pc' # "gc_rewrite" PROVE LengthsInv'
    BY <1>f, <1>k, SameIndex DEF KeepsBlocks, Live

  <1>1. CASE FinishCall
    <2>1. CASE file.block = Empty
      BY <1>1, <2>1, <1>f DEF FinishCall
    <2>2. CASE file.block # Empty /\ fb[file.block].length # Empty
      <3>1. KeepsBlocks
        BY <1>1, <2>2, StateBitKeeps DEF FinishCall
      <3> QED BY <1>1, <2>2, <3>1, <1>k DEF FinishCall
    <2>3. CASE file.block # Empty /\ fb[file.block].length = Empty
      <3>1. /\ Attached /\ file.block \in Slots
            /\ fb' = [fb EXCEPT ![file.block] = [fb[file.block] EXCEPT !.length = file.length]]
            /\ UNCHANGED file /\ pc = "idle" /\ pc' = "idle"
        BY <1>1, <2>3, FinishFills
      <3>2. \A k \in Slots :
              /\ fb'[k].name = fb[k].name /\ fb'[k].info = fb[k].info /\ fb'[k].cluster = fb[k].cluster
              /\ fb'[k].length = IF k = file.block THEN file.length ELSE fb[k].length
        <4>1. ASSUME NEW k \in Slots, k = file.block
              PROVE  /\ fb'[k].name = fb[k].name /\ fb'[k].info = fb[k].info
                     /\ fb'[k].cluster = fb[k].cluster /\ fb'[k].length = file.length
          <5>1. fb[k] \in FileBlock /\ fb'[k] = [fb[k] EXCEPT !.length = file.length]
            BY <3>1, <4>1
          <5> QED BY ONLY <5>1 DEF FileBlock
        <4>2. ASSUME NEW k \in Slots, k # file.block PROVE fb'[k] = fb[k]
          BY <3>1, <4>2
        <4> QED BY ONLY <4>1, <4>2
      <3>3. \A k \in Live' : k \in Live
        <4>1. \A k \in Slots : Index[k] = fb[k] /\ Index'[k] = fb'[k]
          BY <3>1, IndexIsFlash, IndexIsFlashNext
        <4>2. Live = {k \in Slots : HasName(fb[k]) /\ IsOpen(fb[k])}
          BY <4>1 DEF Live
        <4>3. Live' = {k \in Slots : HasName(fb'[k]) /\ IsOpen(fb'[k])}
          BY <4>1 DEF Live
        <4> QED BY ONLY <3>2, <4>2, <4>3 DEF HasName, IsOpen
      <3>4. fb[file.block].cluster = Empty <=> file.length = Empty
        BY <3>1 DEF FileInv, Holding
      <3>5. \A k \in Slots : Index[k] = fb[k] /\ Index'[k] = fb'[k]
        BY <3>1, IndexIsFlash, IndexIsFlashNext
      <3>6. ASSUME NEW k \in Live'
            PROVE  /\ fb'[k].cluster = Empty => fb'[k].length = Empty
                   /\ fb'[k].cluster # Empty /\ fb'[k].length = Empty =>
                        k = file.block /\ fb'[k].name = file.name
        <4>1. k \in Slots /\ k \in Live
          BY <3>3 DEF Live
        <4>2. /\ fb[k].cluster = Empty => fb[k].length = Empty
              /\ fb[k].cluster # Empty /\ fb[k].length = Empty =>
                   k = file.block /\ fb[k].name = file.name
          BY <3>5, <4>1 DEF LengthsInv
        <4> QED BY <3>2, <3>4, <4>1, <4>2
      <3>7. \A k \in Live' : k \in Slots
        BY DEF Live
      <3> QED BY <3>1, <3>5, <3>6, <3>7 DEF LengthsInv
    <2> QED BY <2>1, <2>2, <2>3
  <1>2. CASE CreateBlock
    <2>1. PICK k \in Slots :
            /\ fb' = [fb EXCEPT ![k] = [name |-> file.name, cluster |-> file.cluster,
                                        length |-> file.length, info |-> job.info]]
      BY <1>2, CreateWrites
    <2>2. pc = "create" /\ pc' # "gc_rewrite" /\ file.block \notin Live
      BY <1>2 DEF CreateBlock, AfterCreate, ChainsInv, CreateInv
    <2>3. \A j \in Slots : Index[j] = fb[j] /\ Index'[j] = fb'[j]
      BY <2>2, IndexIsFlash, IndexIsFlashNext
    <2>4. fb'[k].cluster = Empty <=> fb'[k].length = Empty
      BY <2>1, <2>2 DEF FileInv
    <2>5. ASSUME NEW j \in Live', j # k
          PROVE  fb'[j].cluster = Empty <=> fb'[j].length = Empty
      <3>1. j \in Slots /\ fb'[j] = fb[j] /\ j \in Live
        BY <2>1, <2>3, <2>5 DEF Live
      <3> QED BY <2>2, <2>3, <3>1 DEF LengthsInv
    <2>6. \A j \in Live' : j \in Slots
      BY DEF Live
    <2> QED BY <2>3, <2>4, <2>5, <2>6 DEF LengthsInv
  <1>3. CASE IndexCluster
    <2>1. /\ Attached /\ file.block \in Slots /\ job.head \in Sectors
          /\ fb' = [fb EXCEPT ![file.block] = [fb[file.block] EXCEPT !.cluster = job.head]]
          /\ file' = [file EXCEPT !.cluster = job.head, !.length = job.len]
      BY <1>3, IndexClusterWrites
    <2>2. \A k \in Slots :
            /\ fb'[k].name = fb[k].name /\ fb'[k].info = fb[k].info /\ fb'[k].length = fb[k].length
            /\ fb'[k].cluster = IF k = file.block THEN job.head ELSE fb[k].cluster
      BY <2>1 DEF FileBlock
    <2>3. pc = "index" /\ pc' # "gc_rewrite"
      BY <1>3 DEF IndexCluster, WriteRest
    <2>4. \A k \in Slots : Index[k] = fb[k] /\ Index'[k] = fb'[k]
      BY <2>3, IndexIsFlash, IndexIsFlashNext
    <2>5. \A k \in Live' : k \in Live /\ k \in Slots
      BY <2>2, <2>4 DEF Live, HasName, IsOpen
    <2>6. file'.block = file.block /\ file'.name = file.name /\ fb[file.block].name = file.name
      BY <2>1 DEF File, Attached
    <2>7. ASSUME NEW k \in Live'
          PROVE  /\ fb'[k].cluster = Empty => fb'[k].length = Empty
                 /\ fb'[k].cluster # Empty /\ fb'[k].length = Empty =>
                      k = file.block /\ fb'[k].name = file.name
      <3>1. /\ fb[k].cluster = Empty => fb[k].length = Empty
            /\ fb[k].cluster # Empty /\ fb[k].length = Empty =>
                 k = file.block /\ fb[k].name = file.name
        BY <2>4, <2>5 DEF LengthsInv
      <3>2. job.head # Empty
        BY <2>1
      <3>3. CASE k = file.block
        <4>1. fb[file.block].cluster = Empty
          BY <1>3, IndexClusterWrites
        <4> QED BY <2>2, <2>5, <2>6, <3>1, <3>2, <3>3, <4>1
      <3>4. CASE k # file.block
        BY <2>2, <2>5, <3>1, <3>4
      <3> QED BY <3>3, <3>4
    <2> QED BY <2>4, <2>5, <2>6, <2>7 DEF LengthsInv
  <1>4. CASE IndexLength
    <2>1. /\ Attached /\ file.block \in Slots /\ job.len \in Nat
          /\ fb' = [fb EXCEPT ![file.block] = [fb[file.block] EXCEPT !.length = job.len]]
      BY <1>4, IndexLengthWrites
    <2>2. \A k \in Slots :
            /\ fb'[k].name = fb[k].name /\ fb'[k].info = fb[k].info /\ fb'[k].cluster = fb[k].cluster
            /\ fb'[k].length = IF k = file.block THEN job.len ELSE fb[k].length
      BY <2>1 DEF FileBlock
    <2>3. pc = "index_length" /\ pc' # "gc_rewrite" /\ UNCHANGED file
      BY <1>4 DEF IndexLength, WriteRest
    <2>4. \A k \in Slots : Index[k] = fb[k] /\ Index'[k] = fb'[k]
      BY <2>3, IndexIsFlash, IndexIsFlashNext
    <2>5. \A k \in Live' : k \in Live /\ k \in Slots
      BY <2>2, <2>4 DEF Live, HasName, IsOpen
    <2>6. fb[file.block].cluster # Empty
      BY <2>1, <2>3 DEF FileInv, Holding, ChainsInv, TailInv
    <2>7. ASSUME NEW k \in Live'
          PROVE  /\ fb'[k].cluster = Empty => fb'[k].length = Empty
                 /\ fb'[k].cluster # Empty /\ fb'[k].length = Empty =>
                      k = file.block /\ fb'[k].name = file.name
      <3>1. /\ fb[k].cluster = Empty => fb[k].length = Empty
            /\ fb[k].cluster # Empty /\ fb[k].length = Empty =>
                 k = file.block /\ fb[k].name = file.name
        BY <2>4, <2>5 DEF LengthsInv
      <3>2. job.len # Empty
        BY <2>1
      <3> QED BY <2>2, <2>5, <2>6, <3>1, <3>2
    <2> QED BY <2>3, <2>4, <2>5, <2>7 DEF LengthsInv
  <1>5. ASSUME KeepsBlocks, ~FinishCall, ~CreateBlock, ~IndexCluster, ~IndexLength
        PROVE  LengthsInv'
    <2>1. ASSUME NEW n \in Names, NEW ro \in ReadOnly, CreateCall(n, ro) PROVE LengthsInv'
      BY <1>5, <2>1, <1>u DEF CreateCall, CreateWith, CallersKeepRules
    <2>2. ASSUME NEW n \in Names, OpenCall(n) PROVE LengthsInv'
      BY <1>5, <2>2, <1>u DEF OpenCall, CallersKeepRules
    <2>3. ASSUME NEW len \in WriteLens, NEW method \in Methods, WriteCall(len, method) PROVE LengthsInv'
      BY <1>5, <2>3, <1>k DEF WriteCall, File
    <2>4. ASSUME NEW n \in Names, RenameCall(n) PROVE LengthsInv'
      <3>1. CASE UNCHANGED file
        BY <1>5, <1>k, <3>1
      <3>2. CASE MarkDeprecated(file.block) /\ pc = "idle" /\ pc' = "create"
        <4>1. file.block \notin Live'
          BY <3>2, StateBitKeeps
        <4> QED BY <1>5, <4>1 DEF LengthsInv, KeepsBlocks
      <3> QED BY <2>4, <3>1, <3>2 DEF RenameCall
    <2>5. CASE DeleteCall
      BY <1>5, <2>5, <1>k DEF DeleteCall, File
    <2>6. CASE FormatCall
      BY <1>5, <2>6, <1>k DEF FormatCall, File
    <2>7. CASE CreateExists
      BY <1>5, <2>7, <1>k DEF CreateExists, File
    <2>8. CASE GcIndexErase
      BY <1>5, <2>8, <1>k DEF GcIndexErase, File
    <2>9. CASE GcIndexRewrite
      BY <1>5, <2>9, <1>k DEF GcIndexRewrite, File
    <2>10. CASE CreateNoSpace
      BY <1>5, <2>10, <1>k DEF CreateNoSpace, File
    <2>11. CASE DiscardSector
      BY <1>5, <2>11, <1>k DEF DiscardSector, File
    <2>12. CASE OverrideBlock
      BY <1>5, <2>12, <1>k DEF OverrideBlock, File
    <2>13. CASE DeleteDone
      <3>1. file.block \notin Live
        BY <2>13 DEF DeleteDone, ChainsInv, DiscardInv
      <3> QED BY <1>5, <3>1 DEF LengthsInv, KeepsBlocks
    <2>14. CASE Walk
      BY <1>5, <2>14, <1>k DEF Walk, File
    <2>15. CASE AppendToTail
      BY <1>5, <2>15, <1>k DEF AppendToTail, File
    <2>16. CASE Allocate
      BY <1>5, <2>16, <1>k DEF Allocate, File
    <2>17. CASE GcDataErase
      BY <1>5, <2>17, <1>k DEF GcDataErase, File
    <2>18. CASE GcDataDone
      BY <1>5, <2>18, <1>k DEF GcDataDone, File
    <2>19. CASE IndexLink
      BY <1>5, <2>19, <1>k DEF IndexLink, File
    <2>20. CASE MarkSector
      BY <1>5, <2>20, <1>k DEF MarkSector, File
    <2>21. CASE WriteData
      BY <1>5, <2>21, <1>k DEF WriteData, File
    <2>22. CASE LinkSector
      BY <1>5, <2>22, <1>k DEF LinkSector, File
    <2>23. CASE FormatIndex
      BY <1>5, <2>23, <1>k DEF FormatIndex, File
    <2>24. CASE FormatData
      BY <1>5, <2>24, <1>k DEF FormatData, File
    <2>25. CASE Crash
      BY <1>5, <2>25, <1>u DEF Crash, CallersKeepRules
    <2>26. CASE UNCHANGED vars
      BY <1>5, <2>26, <1>k DEF vars
    <2> QED
      BY <1>5, <2>1, <2>2, <2>3, <2>4, <2>5, <2>6, <2>7, <2>8, <2>9, <2>10, <2>11,
         <2>12, <2>13, <2>14, <2>15, <2>16, <2>17, <2>18, <2>19, <2>20, <2>21,
         <2>22, <2>23, <2>24, <2>25, <2>26
      DEF Next, Call, Step

  <1> QED BY <1>1, <1>2, <1>3, <1>4, <1>5, BlocksStay

LEMMA ChainsNext == CallersKeepRules /\ ChainsInv /\ [Next]_vars => ChainsInv'
  <1> SUFFICES ASSUME CallersKeepRules, ChainsInv, [Next]_vars PROVE ChainsInv'
    OBVIOUS
  <1>1. OrderInv'
    BY ChainsAreOrdered, CallersAreOrderly, OrderNext
  <1>2. FileInv' /\ LengthsInv'
    BY FileNext, LengthsNext
  <1> QED BY <1>1, <1>2 DEF OrderInv, ChainsInv

\* When callers keep the rules of CallersKeepRules, no data sector belongs to two
\* files (the chains that write_file links and discards, spifs.c:198-335).
THEOREM ChainsAreSeparate ==
  ASSUME CallersKeepRules
  PROVE  Spec => []NoCrossLink
  <1>1. Init => ChainsInv
    BY ChainsInit
  <1>2. ChainsInv /\ [Next]_vars => ChainsInv'
    BY ChainsNext
  <1>3. ChainsInv => NoCrossLink
    BY DEF ChainsInv
  <1> QED BY <1>1, <1>2, <1>3, PTL DEF Spec

\* Under the same rules the file system never writes outside of its sectors: the
\* link of an append is always that of a sector it found (spifs.c:257-268).
THEOREM PartitionIsKept ==
  ASSUME CallersKeepRules
  PROVE  Spec => []StaysInPartition
  <1>1. ChainsInv => StaysInPartition
    BY DEF ChainsInv, WordsInv, StaysInPartition
  <1>2. ChainsInv /\ [Next]_vars => ChainsInv'
    BY ChainsNext
  <1> QED BY <1>1, <1>2, ChainsInit, PTL DEF Spec

\* Under the same rules the tables in RAM never offer a sector in use for writing
\* or for erasing (spifs.c:3-7).
THEOREM TablesAreSound ==
  ASSUME CallersKeepRules
  PROVE  Spec => []FtlSound
  <1>1. ChainsInv => FtlSound
    BY DEF ChainsInv, TypeOK, TablesInv, FtlSound
  <1>2. ChainsInv /\ [Next]_vars => ChainsInv'
    BY ChainsNext
  <1> QED BY <1>1, <1>2, ChainsInit, PTL DEF Spec

-----------------------------------------------------------------------------
(***************************************************************************)
(* How chains change.                                                      *)
(***************************************************************************)
\* Setting a link that led nowhere keeps what a chain reaches.
LEMMA ReachedGrows ==
  ASSUME NEW links, NEW new, NEW c, NEW s \in Sectors,
         links[s] \notin Sectors, \A t \in Sectors : t # s => new[t] = links[t]
  PROVE  Reached(links, c) \subseteq Reached(new, c)
  <1> DEFINE R == Reached(new, c)
  <1>1. R \in SUBSET Sectors /\ (c \in Sectors => c \in R) /\ Closed(new, R)
    BY ReachedIsClosed
  <1>2. Closed(links, R)
    <2> SUFFICES ASSUME NEW t \in R, links[t] \in Sectors PROVE links[t] \in R
      BY DEF Closed
    <2> QED BY <1>1 DEF Closed
  <1> QED BY <1>1, <1>2, ReachedIsLeast

\* Links outside of a chain do not matter to it.
LEMMA ReachedSame ==
  ASSUME NEW links, NEW new, NEW c, \A t \in Reached(links, c) : new[t] = links[t]
  PROVE  Reached(new, c) = Reached(links, c)
  <1> DEFINE R == Reached(links, c)
             N == Reached(new, c)
  <1>1. R \in SUBSET Sectors /\ (c \in Sectors => c \in R) /\ Closed(links, R)
    BY ReachedIsClosed
  <1>2. N \in SUBSET Sectors /\ (c \in Sectors => c \in N) /\ Closed(new, N)
    BY ReachedIsClosed
  <1>3. Closed(new, R)
    BY <1>1 DEF Closed
  <1>4. N \subseteq R
    BY <1>1, <1>3, ReachedIsLeast
  <1>5. Closed(links, N)
    BY <1>2, <1>4 DEF Closed
  <1>6. R \subseteq N
    BY <1>2, <1>5, ReachedIsLeast
  <1> QED BY <1>4, <1>6

\* What is reached from a sector is that sector or reached from the next one.
LEMMA ReachedNext ==
  ASSUME NEW links, NEW c \in Sectors
  PROVE  Reached(links, c) \subseteq {c} \cup Reached(links, links[c])
  <1> DEFINE S == {c} \cup Reached(links, links[c])
  <1>1. S \in SUBSET Sectors /\ c \in S /\ Closed(links, S)
    BY ReachedIsClosed DEF Closed
  <1> HIDE DEF S
  <1>2. Reached(links, c) \subseteq S
    BY <1>1, ReachedIsLeast
  <1> QED BY <1>2 DEF S

\* A chain that gets a new end.
LEMMA ReachedEnd ==
  ASSUME NEW links, NEW new, NEW c, NEW s \in Sectors, NEW h \in Sectors,
         links[s] \notin Sectors, new[s] = h, new[h] \notin Sectors,
         \A t \in Sectors : t # s => new[t] = links[t]
  PROVE  Reached(new, c) \subseteq Reached(links, c) \cup {h}
  <1> DEFINE S == Reached(links, c) \cup {h}
  <1>1. S \in SUBSET Sectors /\ (c \in Sectors => c \in S) /\ Closed(new, S)
    BY ReachedIsClosed DEF Closed
  <1> HIDE DEF S
  <1>2. Reached(new, c) \subseteq S
    BY <1>1, ReachedIsLeast
  <1> QED BY <1>2 DEF S

\* A chain of one sector.
LEMMA ReachedOne ==
  ASSUME NEW links, NEW c \in Sectors, links[c] \notin Sectors
  PROVE  Reached(links, c) = {c}
  <1>1. Reached(links, c) \subseteq {c} \cup Reached(links, links[c])
    BY ReachedNext
  <1>2. Reached(links, links[c]) = {}
    BY ReachedFromNone
  <1>3. c \in Reached(links, c)
    BY ReachedIsClosed
  <1> QED BY <1>1, <1>2, <1>3

\* A chain has one end at most.
LEMMA OneEnd ==
  ASSUME NEW links, NEW c, NEW d \in Reached(links, c), NEW e \in Reached(links, c),
         links[d] \notin Sectors, links[e] \notin Sectors
  PROVE  d = e
  <1> DEFINE C == Reached(links, c)
             D == {x \in C : e \in Reached(links, x)}
  <1>1. C \in SUBSET Sectors /\ (c \in Sectors => c \in C) /\ Closed(links, C)
    BY ReachedIsClosed
  <1>2. c \in Sectors
    BY ReachedFromNone
  <1>3. D \in SUBSET Sectors /\ c \in D
    BY <1>1, <1>2
  <1>4. ASSUME NEW x \in D, links[x] \in Sectors PROVE links[x] \in D
    <2>1. x \in Sectors /\ e \in Reached(links, x) /\ x # e /\ links[x] \in C
      BY <1>1, <1>4 DEF Closed
    <2>2. Reached(links, x) \subseteq {x} \cup Reached(links, links[x])
      BY <2>1, ReachedNext
    <2> QED BY <2>1, <2>2
  <1>5. Closed(links, D)
    BY <1>4 DEF Closed
  <1> HIDE DEF D
  <1>6. C \subseteq D
    BY <1>3, <1>5, ReachedIsLeast
  <1>7. e \in Reached(links, d) /\ d \in Sectors
    BY <1>1, <1>6 DEF D
  <1> QED BY <1>7, ReachedOne

\* Chains of files, and the one a call holds, are in use.
LEMMA OrderlyChains ==
  ASSUME OrderInv, pc # "format"
  PROVE  /\ \A k \in Owners : Chain(k) \subseteq {s \in Sectors : Target(s)}
         /\ Holding => Reach(file.cluster) \subseteq {s \in Sectors : Target(s)}
  <1> DEFINE U == {s \in Sectors : Target(s)}
  <1>a. TypeOK /\ TablesInv /\ WritingInv /\ LinksInv
    BY DEF OrderInv
  <1>1. ASSUME NEW s \in U, next[s] \in Sectors PROVE mark[s] = "inuse"
    <2>1. \A t : IsFirst(t, job.todo) => t \in job.todo
      BY DEF IsFirst
    <2>2. mark[s] = "inuse" \/ mark[s] = "blank"
      BY <1>a, <2>1 DEF Target, WritingInv
    <2> QED BY <1>1, <1>a, <2>2, SectorFacts DEF TablesInv
  <1>2. Closed(next, U)
    BY <1>a, <1>1 DEF Closed, LinksInv
  <1>3. \A k \in Owners : Index[k].cluster \in Sectors => Index[k].cluster \in U
    BY <1>a DEF LinksInv
  <1>4. Holding /\ file.cluster \in Sectors => file.cluster \in U
    BY <1>a DEF LinksInv, Target
  <1>5. U \in SUBSET Sectors
    OBVIOUS
  <1> HIDE DEF U
  <1>6. \A k \in Owners : Chain(k) \subseteq U
    BY <1>2, <1>3, <1>5, ReachedIsLeast DEF Chain, Reach
  <1>7. Holding => Reach(file.cluster) \subseteq U
    BY <1>2, <1>4, <1>5, ReachedIsLeast DEF Reach
  <1> QED BY <1>6, <1>7 DEF U

-----------------------------------------------------------------------------
(***************************************************************************)
(* A write takes one sector, which is in the chain of the file.            *)
(***************************************************************************)
\* A write takes one sector.
ShortInv ==
  /\ job.op \in {"override", "append"} => job.len <= DataArea
  /\ Filling => \A s, t \in job.todo : s = t
  /\ pc # "link"

\* The sector to be written and the tail are in the chain of the caller's file.
InChainInv ==
  /\ Filling /\ pc # "index" => job.todo \subseteq Reach(file.cluster)
  /\ pc \in {"walk", "partial", "alloc", "gc_data", "index"} /\ job.op = "append"
       /\ file.cluster # Empty => job.tail \in Reach(file.cluster)

\* No call is made with more than a sector to write.
BriefCall == pc = "idle" /\ pc' # "idle" => job'.len <= DataArea

LEMMA TakenIsOne ==
  ASSUME TypeOK, ShortInv, job.op \in {"override", "append"}, job.len \in Nat, job.len >= 1,
         Take(FirstN(writable, SectorsFor(job.len)))
  PROVE  ShortInv'
  <1>1. SectorsFor(job.len) = 1
    BY SectorsForSome DEF ShortInv
  <1>2. /\ job'.todo = FirstN(writable, 1) /\ job'.len = job.len /\ job'.op = job.op
        /\ pc' = "index"
    BY <1>1 DEF Take, Goto, TypeOK, Job
  <1>3. \A s, t \in job'.todo : s = t
    BY <1>2, FirstNOfOne DEF TypeOK
  <1> QED BY <1>2, <1>3 DEF ShortInv

LEMMA RestIsShort ==
  ASSUME TypeOK, ShortInv, Filling, NEW rest \in SUBSET job.todo, WriteRest(rest)
  PROVE  ShortInv'
  <1>1. CASE rest = {}
    BY <1>1 DEF WriteRest, Return, ShortInv, NoJob, Filling
  <1>2. CASE rest # {}
    <2>1. pc' = "mark" /\ job'.todo = rest /\ job'.len = job.len /\ job'.op = job.op
      BY <1>2 DEF WriteRest, Goto, TypeOK, Job
    <2> QED BY <2>1 DEF ShortInv, Filling
  <1> QED BY <1>1, <1>2

LEMMA OrderlyShort ==
  ASSUME OrderInv, ShortInv, OrderlyStep, BriefCall
  PROVE  ShortInv'
  <1> USE DEF flash, ftl, Reject, Goto, Return
  <1>a. TypeOK /\ TypeOK'
    BY OrderlyTypes DEF OrderInv
  <1> USE <1>a, SectorFacts DEF TypeOK
  <1>1. ASSUME NEW len \in Nat \ {0}, NEW method \in {"OVERRIDE", "APPEND"}, OrderlyWrite(len, method) PROVE ShortInv'
    <2>1. ~Filling' /\ (UNCHANGED job \/ job'.len <= DataArea) /\ pc' # "link"
      BY <1>1 DEF OrderlyWrite, WriteCall, Filling, BriefCall
    <2> QED BY <2>1 DEF ShortInv, Filling
  <1>2. CASE OrderlyFinish
    <2>1. CASE UNCHANGED <<pc, job>>
      BY <1>2, <2>1 DEF OrderlyFinish, FinishCall, ShortInv, Filling
    <2>2. CASE pc' = "idle" /\ job' = NoJob
      BY <2>2 DEF ShortInv, Filling, NoJob
    <2>3. CASE pc' = "create" /\ job' = [NoJob EXCEPT !.op = "finish", !.info = fb[file.block].info]
      <3>1. job'.op = "finish"
        BY <2>3 DEF NoJob
      <3> QED BY <2>3, <3>1 DEF ShortInv, Filling
    <2> QED BY <1>2, <2>1, <2>2, <2>3 DEF OrderlyFinish, FinishCall
  <1>3. ASSUME NEW n \in Names, NEW ro \in BOOLEAN, CreateCall(n, ro) PROVE ShortInv'
    <2>1. ~Filling' /\ (UNCHANGED job \/ job' = NoJob \/ (job'.op = job.op /\ job'.len = job.len) \/ job'.op \notin {"override", "append"})
      BY <1>3 DEF CreateCall, CreateWith, Filling, NoJob, Job
    <2> QED BY <2>1 DEF ShortInv, NoJob, Filling
  <1>4. ASSUME NEW n \in Names, OpenCall(n) PROVE ShortInv'
    <2>1. ~Filling' /\ (UNCHANGED job \/ job' = NoJob \/ (job'.op = job.op /\ job'.len = job.len) \/ job'.op \notin {"override", "append"})
      BY <1>4 DEF OpenCall, Filling, NoJob, Job
    <2> QED BY <2>1 DEF ShortInv, NoJob, Filling
  <1>5. ASSUME NEW n \in Names, OrderlyRename(n) PROVE ShortInv'
    <2>1. ~Filling' /\ (UNCHANGED job \/ job' = NoJob \/ (job'.op = job.op /\ job'.len = job.len) \/ job'.op \notin {"override", "append"})
      BY <1>5 DEF OrderlyRename, RenameCall, Filling, NoJob, Job
    <2> QED BY <2>1 DEF ShortInv, NoJob, Filling
  <1>6. CASE OrderlyDelete
    <2>1. ~Filling' /\ (UNCHANGED job \/ job' = NoJob \/ (job'.op = job.op /\ job'.len = job.len) \/ job'.op \notin {"override", "append"})
      BY <1>6 DEF OrderlyDelete, DeleteCall, Filling, NoJob, Job
    <2> QED BY <2>1 DEF ShortInv, NoJob, Filling
  <1>7. CASE FormatCall
    <2>1. ~Filling' /\ (UNCHANGED job \/ job' = NoJob \/ (job'.op = job.op /\ job'.len = job.len) \/ job'.op \notin {"override", "append"})
      BY <1>7 DEF FormatCall, Filling, NoJob, Job
    <2> QED BY <2>1 DEF ShortInv, NoJob, Filling
  <1>8. CASE CreateExists
    <2>1. ~Filling' /\ (UNCHANGED job \/ job' = NoJob \/ (job'.op = job.op /\ job'.len = job.len) \/ job'.op \notin {"override", "append"})
      BY <1>8 DEF CreateExists, AfterCreate, Filling, NoJob, Job
    <2> QED BY <2>1 DEF ShortInv, NoJob, Filling
  <1>9. CASE CreateBlock
    <2>1. ~Filling' /\ (UNCHANGED job \/ job' = NoJob \/ (job'.op = job.op /\ job'.len = job.len) \/ job'.op \notin {"override", "append"})
      BY <1>9 DEF CreateBlock, AfterCreate, Filling, NoJob, Job
    <2> QED BY <2>1 DEF ShortInv, NoJob, Filling
  <1>10. CASE GcIndexErase
    <2>1. ~Filling' /\ (UNCHANGED job \/ job' = NoJob \/ (job'.op = job.op /\ job'.len = job.len) \/ job'.op \notin {"override", "append"})
      BY <1>10 DEF GcIndexErase, Filling, NoJob, Job
    <2> QED BY <2>1 DEF ShortInv, NoJob, Filling
  <1>11. CASE GcIndexRewrite
    <2>1. ~Filling' /\ (UNCHANGED job \/ job' = NoJob \/ (job'.op = job.op /\ job'.len = job.len) \/ job'.op \notin {"override", "append"})
      BY <1>11 DEF GcIndexRewrite, Filling, NoJob, Job
    <2> QED BY <2>1 DEF ShortInv, NoJob, Filling
  <1>12. CASE CreateNoSpace
    <2>1. ~Filling' /\ (UNCHANGED job \/ job' = NoJob \/ (job'.op = job.op /\ job'.len = job.len) \/ job'.op \notin {"override", "append"})
      BY <1>12 DEF CreateNoSpace, AfterCreate, Filling, NoJob, Job
    <2> QED BY <2>1 DEF ShortInv, NoJob, Filling
  <1>13. CASE DiscardSector
    <2>1. ~Filling' /\ (UNCHANGED job \/ job' = NoJob \/ (job'.op = job.op /\ job'.len = job.len) \/ job'.op \notin {"override", "append"})
      BY <1>13 DEF DiscardSector, Filling, NoJob, Job
    <2> QED BY <2>1 DEF ShortInv, NoJob, Filling
  <1>14. CASE OverrideBlock
    <2>1. ~Filling' /\ (UNCHANGED job \/ job' = NoJob \/ (job'.op = job.op /\ job'.len = job.len) \/ job'.op \notin {"override", "append"})
      BY <1>14 DEF OverrideBlock, Filling, NoJob, Job
    <2> QED BY <2>1 DEF ShortInv, NoJob, Filling
  <1>15. CASE DeleteDone
    <2>1. ~Filling' /\ (UNCHANGED job \/ job' = NoJob \/ (job'.op = job.op /\ job'.len = job.len) \/ job'.op \notin {"override", "append"})
      BY <1>15 DEF DeleteDone, Filling, NoJob, Job
    <2> QED BY <2>1 DEF ShortInv, NoJob, Filling
  <1>16. CASE Walk
    <2>1. ~Filling' /\ (UNCHANGED job \/ job' = NoJob \/ (job'.op = job.op /\ job'.len = job.len) \/ job'.op \notin {"override", "append"})
      BY <1>16 DEF Walk, Filling, NoJob, Job
    <2> QED BY <2>1 DEF ShortInv, NoJob, Filling
  <1>17. CASE GcDataErase
    <2>1. ~Filling' /\ (UNCHANGED job \/ job' = NoJob \/ (job'.op = job.op /\ job'.len = job.len) \/ job'.op \notin {"override", "append"})
      BY <1>17 DEF GcDataErase, Filling, NoJob, Job
    <2> QED BY <2>1 DEF ShortInv, NoJob, Filling
  <1>18. CASE FormatIndex
    <2>1. ~Filling' /\ (UNCHANGED job \/ job' = NoJob \/ (job'.op = job.op /\ job'.len = job.len) \/ job'.op \notin {"override", "append"})
      BY <1>18 DEF FormatIndex, Filling, NoJob, Job
    <2> QED BY <2>1 DEF ShortInv, NoJob, Filling
  <1>19. CASE FormatData
    <2>1. ~Filling' /\ (UNCHANGED job \/ job' = NoJob \/ (job'.op = job.op /\ job'.len = job.len) \/ job'.op \notin {"override", "append"})
      BY <1>19 DEF FormatData, Filling, NoJob, Job
    <2> QED BY <2>1 DEF ShortInv, NoJob, Filling
  <1>20. CASE OrderlyCrash
    <2>1. ~Filling' /\ (UNCHANGED job \/ job' = NoJob \/ (job'.op = job.op /\ job'.len = job.len) \/ job'.op \notin {"override", "append"})
      BY <1>20 DEF OrderlyCrash, Crash, Filling, NoJob, Job
    <2> QED BY <2>1 DEF ShortInv, NoJob, Filling
  <1>21. CASE HandOver
    <2>1. ~Filling' /\ (UNCHANGED job \/ job' = NoJob \/ (job'.op = job.op /\ job'.len = job.len) \/ job'.op \notin {"override", "append"})
      BY <1>21 DEF HandOver, Filling, NoJob, Job
    <2> QED BY <2>1 DEF ShortInv, NoJob, Filling
  <1>22. CASE AppendToTail
    <2>1. PICK size \in Nat :
            /\ size <= job.len
            /\ \/ size = job.len /\ Return("APPEND_FILE_SUCCESS")
               \/ size # job.len /\ job' = [job EXCEPT !.len = @ - size] /\ Goto("alloc")
      BY <1>22, AppendDoes
    <2>2. ~Filling' /\ (job' = NoJob \/ (job'.op = job.op /\ job'.len = job.len - size))
      BY <2>1 DEF Filling, Job
    <2>3. job.len \in Nat /\ job.len - size <= job.len
      BY <2>1 DEF Job
    <2> QED BY <2>2, <2>3, SizeAssumption DEF ShortInv, Filling, NoJob
  <1>23. CASE Allocate
    <2>1. job.op \in {"override", "append"} /\ job.len \in Nat /\ job.len >= 1
      BY <1>23 DEF Allocate, TailInv, Busy, Job, OrderInv
    <2>2. CASE Take(FirstN(writable, SectorsFor(job.len)))
      BY <2>1, <2>2, TakenIsOne
    <2>3. CASE pc' = "gc_data" /\ UNCHANGED job
      BY <2>3 DEF ShortInv, Filling
    <2> QED BY <1>23, <2>2, <2>3 DEF Allocate
  <1>24. CASE GcDataDone
    <2>1. job.op \in {"override", "append"} /\ job.len \in Nat /\ job.len >= 1
      BY <1>24 DEF GcDataDone, TailInv, Busy, Job, OrderInv
    <2>2. CASE Take(FirstN(writable, SectorsFor(job.len)))
      BY <2>1, <2>2, TakenIsOne
    <2>3. CASE pc' = "idle" /\ job' = NoJob
      BY <2>3 DEF ShortInv, Filling, NoJob
    <2> QED BY <1>24, <2>2, <2>3 DEF GcDataDone
  <1>25. CASE IndexCluster
    <2>1. CASE pc' = "index_length" /\ UNCHANGED job
      BY <1>25, <2>1 DEF IndexCluster, ShortInv, Filling
    <2>2. CASE WriteRest(job.todo)
      BY <1>25, <2>2, RestIsShort DEF IndexCluster, Filling
    <2> QED BY <1>25, <2>1, <2>2 DEF IndexCluster
  <1>26. CASE IndexLength
    BY <1>26, RestIsShort DEF IndexLength, Filling
  <1>27. CASE IndexLink
    BY <1>27, RestIsShort DEF IndexLink, Filling
  <1>28. CASE MarkSector
    BY <1>28 DEF MarkSector, ShortInv, Filling
  <1>29. CASE WriteData
    <2>1. PICK s \in job.todo : WriteRest(job.todo \ {s}) \/ job.todo # {s}
      BY <1>29 DEF WriteData
    <2>2. WriteRest(job.todo \ {s})
      BY <1>29, <2>1 DEF WriteData, ShortInv, Filling
    <2> QED BY <1>29, <2>2, RestIsShort DEF WriteData, Filling
  <1>30. CASE LinkSector
    BY <1>30 DEF LinkSector, ShortInv
  <1>31. CASE UNCHANGED vars
    BY <1>31 DEF vars, ShortInv, Filling
  <1> QED
    BY <1>1, <1>2, <1>3, <1>4, <1>5, <1>6, <1>7, <1>8, <1>9, <1>10, <1>11, <1>12, <1>13, <1>14, <1>15, <1>16, <1>17, <1>18, <1>19, <1>20, <1>21, <1>22, <1>23, <1>24, <1>25, <1>26, <1>27, <1>28, <1>29, <1>30, <1>31
    DEF OrderlyStep, Step

\* A write that looks for sectors looks for one.
LEMMA OrderlyTakesOne ==
  ASSUME OrderInv, ShortInv, Busy
  PROVE  SectorsFor(job.len) = 1
  <1>1. job.op \in {"override", "append"} /\ job.len \in Nat /\ job.len >= 1
    BY DEF OrderInv, TailInv, TypeOK, Job
  <1> QED BY <1>1, SectorsForSome DEF ShortInv

\* While a file is written its file block has its chain.
LEMMA OrderlyChain ==
  ASSUME OrderInv, Busy
  PROVE  /\ file.block \in Owners
         /\ Index[file.block] = fb[file.block]
         /\ fb[file.block].cluster = file.cluster
         /\ Chain(file.block) = Reach(file.cluster)
  <1>1. Attached /\ ~Holding /\ pc # "discard" /\ pc # "gc_rewrite"
    BY DEF OrderInv, HandleInv, Busy, Filling, Holding
  <1>2. file.block \in Slots /\ file.block \in Owners
    BY <1>1, AttachedIs DEF Owners
  <1>3. Index[file.block] = fb[file.block]
    BY <1>1, <1>2, IndexIsFlash
  <1> QED BY <1>1, <1>2, <1>3 DEF OrderInv, HandleInv, Chain

\* No write is going on, or one that has found an empty file.
Outside ==
  pc \in {"idle", "create", "gc_rewrite", "discard", "format"} \/ (pc = "alloc" /\ job.op = "override")

LEMMA WriteSteps ==
  ASSUME OrderlyStep
  PROVE  \/ Outside' \/ UNCHANGED vars
         \/ \E len \in Nat \ {0}, method \in {"OVERRIDE", "APPEND"} : OrderlyWrite(len, method)
         \/ Walk \/ AppendToTail \/ Allocate \/ GcDataErase \/ GcDataDone
         \/ IndexCluster \/ IndexLength \/ IndexLink \/ MarkSector \/ WriteData \/ LinkSector
  <1> USE DEF Outside, Reject, Goto, Return
  <1>1. ASSUME NEW n \in Names, NEW ro \in BOOLEAN, CreateCall(n, ro) PROVE Outside'
    BY <1>1 DEF CreateCall, CreateWith
  <1>2. ASSUME NEW n \in Names, OpenCall(n) \/ OrderlyRename(n) PROVE Outside'
    BY <1>2 DEF OpenCall, OrderlyRename, RenameCall
  <1>3. CASE OrderlyFinish \/ OrderlyDelete \/ FormatCall \/ OrderlyCrash \/ HandOver
    BY <1>3 DEF OrderlyFinish, FinishCall, OrderlyDelete, DeleteCall, FormatCall, OrderlyCrash, Crash, HandOver
  <1>4. CASE \/ CreateExists \/ CreateBlock \/ GcIndexErase \/ GcIndexRewrite \/ CreateNoSpace
             \/ DiscardSector \/ OverrideBlock \/ DeleteDone \/ FormatIndex \/ FormatData
    BY <1>4 DEF CreateExists, CreateBlock, AfterCreate, GcIndexErase, GcIndexRewrite, CreateNoSpace,
                DiscardSector, OverrideBlock, DeleteDone, FormatIndex, FormatData
  <1> QED BY <1>1, <1>2, <1>3, <1>4 DEF OrderlyStep, Step

LEMMA OrderlyInChain ==
  ASSUME OrderInv, ShortInv, InChainInv, OrderlyStep
  PROVE  InChainInv'
  <1> USE DEF flash, ftl, Reject, Goto, Return
  <1>a. OrderInv /\ TypeOK /\ TypeOK'
    BY OrderlyTypes DEF OrderInv
  <1> USE <1>a, SectorFacts DEF TypeOK
  <1>1. CASE Outside'
    BY <1>1 DEF Outside, InChainInv, Filling
  <1>2. ASSUME NEW len \in Nat \ {0}, NEW method \in {"OVERRIDE", "APPEND"}, OrderlyWrite(len, method) PROVE InChainInv'
    <2>1. CASE UNCHANGED pc
      BY <1>2, <2>1 DEF OrderlyWrite, WriteCall, InChainInv, Filling
    <2>2. CASE /\ file.block # Empty /\ CanWrite(fb[file.block])
               /\ job' = [NoJob EXCEPT
                            !.op   = IF method = "OVERRIDE" THEN "override" ELSE "append",
                            !.len  = len,
                            !.info = fb[file.block].info,
                            !.tail = IF method = "APPEND" /\ file.cluster # Empty /\ file.length # Empty
                                     THEN file.cluster ELSE 0]
               /\ pc' = (IF method = "OVERRIDE" /\ file.cluster # Empty THEN "discard"
                         ELSE IF method = "APPEND" /\ file.cluster # Empty /\ file.length # Empty
                         THEN "walk" ELSE "alloc")
               /\ UNCHANGED <<next, file>>
      <3>1. file.cluster = Empty <=> file.length = Empty
        BY <1>2, <2>2 DEF OrderlyWrite, Sized
      <3>2. file.cluster # Empty => file.cluster \in Sectors
        BY DEF OrderInv, WordsInv, File, Words
      <3>3. CASE pc' \in {"discard", "alloc"}
        <4>1. job'.op = "append" /\ pc' = "alloc" => file'.cluster = Empty
          BY <2>2, <3>1, <3>3, ValueAssumption DEF NoJob
        <4> QED BY <3>3, <4>1 DEF InChainInv, Filling
      <3>4. CASE pc' = "walk"
        <4>1. job'.tail = file'.cluster /\ file'.cluster \in Sectors
          BY <2>2, <3>2, <3>4 DEF NoJob
        <4>2. file'.cluster \in Reached(next', file'.cluster)
          BY <4>1, ReachedIsClosed
        <4> QED BY <3>4, <4>1, <4>2 DEF InChainInv, Filling, Reach
      <3> QED BY <2>2, <3>3, <3>4
    <2> QED BY <1>2, <2>1, <2>2 DEF OrderlyWrite, WriteCall
  <1>3. CASE Walk
    <2>1. pc = "walk" /\ UNCHANGED <<next, file>> /\ pc' \in {"walk", "alloc", "partial"}
      BY <1>3 DEF Walk
    <2>2. job.tail \in Reach(file.cluster) /\ job.op = "append"
      BY <2>1 DEF OrderInv, TailInv, InChainInv
    <2>3. job'.tail \in Reach(file.cluster) /\ job'.op = "append"
      <3>1. CASE UNCHANGED job
        BY <2>2, <3>1
      <3>2. CASE next[job.tail] # Empty /\ job' = [job EXCEPT !.tail = next[job.tail]]
        <4>1. job.tail \in Sectors /\ next[job.tail] \in Sectors
          BY <1>3, <3>2 DEF Walk, OrderInv, WordsInv, Words
        <4>2. next[job.tail] \in Reach(file.cluster)
          BY <2>2, <4>1, ReachedIsClosed DEF Reach, Closed
        <4> QED BY <2>2, <3>2, <4>2 DEF Job
      <3> QED BY <1>3, <3>1, <3>2 DEF Walk
    <2> QED BY <2>1, <2>3 DEF InChainInv, Filling, Reach
  <1>4. CASE AppendToTail
    <2>1. PICK size \in Nat :
            /\ file' = [file EXCEPT !.length = file.length + size]
            /\ \/ size = job.len /\ Return("APPEND_FILE_SUCCESS")
               \/ size # job.len /\ job' = [job EXCEPT !.len = @ - size] /\ Goto("alloc")
      BY <1>4, AppendDoes
    <2>2. pc = "partial" /\ UNCHANGED next /\ file'.cluster = file.cluster
      BY <1>4, <2>1 DEF AppendToTail, File
    <2>3. job.tail \in Reach(file.cluster)
      BY <2>2 DEF OrderInv, TailInv, InChainInv
    <2>4. pc' = "idle" \/ (pc' = "alloc" /\ job'.tail = job.tail)
      BY <2>1 DEF Job
    <2> QED BY <2>2, <2>3, <2>4 DEF InChainInv, Filling, Reach
  <1>5. CASE Allocate
    <2>1. pc = "alloc" /\ UNCHANGED <<next, file>>
      BY <1>5 DEF Allocate
    <2>2. pc' \in {"index", "gc_data"} /\ job'.tail = job.tail /\ job'.op = job.op
      BY <1>5 DEF Allocate, Take, Job
    <2> QED BY <2>1, <2>2 DEF InChainInv, Filling, Reach
  <1>6. CASE GcDataErase
    <2>1. PICK s \in erasable : EraseSector(s)
      BY <1>6 DEF GcDataErase
    <2>2. pc = "gc_data" /\ pc' = "gc_data" /\ UNCHANGED file /\ job'.tail = job.tail /\ job'.op = job.op
      BY <1>6 DEF GcDataErase, Job
    <2>3. Reached(next', file.cluster) = Reached(next, file.cluster)
      <3>1. \A t \in Reach(file.cluster) : mark[t] = "inuse" /\ t \in Sectors
        BY <2>2, OrderlyChain, OrderlyChains DEF Busy, Target
      <3>2. mark[s] = "discard"
        BY DEF OrderInv, TablesInv
      <3>3. \A t \in Reached(next, file.cluster) : next'[t] = next[t]
        BY <2>1, <3>1, <3>2 DEF EraseSector, Reach
      <3> QED BY <3>3, ReachedSame
    <2> QED BY <2>2, <2>3 DEF InChainInv, Filling, Reach
  <1>7. CASE GcDataDone
    <2>1. CASE Take(FirstN(writable, SectorsFor(job.len)))
      <3>1. pc = "gc_data" /\ UNCHANGED <<next, file>>
        BY <1>7 DEF GcDataDone
      <3>2. pc' = "index" /\ job'.tail = job.tail /\ job'.op = job.op
        BY <2>1 DEF Take, Job
      <3> QED BY <3>1, <3>2 DEF InChainInv, Filling, Reach
    <2>2. CASE pc' = "idle"
      BY <2>2 DEF InChainInv, Filling
    <2> QED BY <1>7, <2>1, <2>2 DEF GcDataDone
  <1>8. CASE IndexCluster
    <2>0. /\ job.head \in Sectors /\ IsFirst(job.head, job.todo)
          /\ file' = [file EXCEPT !.cluster = job.head, !.length = job.len]
      BY <1>8, IndexClusterDoes
    <2>1. file'.cluster = job.head
      BY <2>0 DEF File
    <2>2. job.todo = {job.head}
      BY <1>8, <2>0 DEF IndexCluster, ShortInv, Filling, IsFirst
    <2>3. job.todo \subseteq Reached(next', file'.cluster)
      BY <2>0, <2>1, <2>2, ReachedIsClosed
    <2>4. pc' = "idle" \/ (pc' \in {"index_length", "mark"} /\ job'.todo = job.todo)
      BY <1>8 DEF IndexCluster, WriteRest, Job
    <2> QED BY <2>3, <2>4 DEF InChainInv, Filling, Reach
  <1>9. CASE IndexLength
    <2>1. pc = "index_length" /\ UNCHANGED <<next, file>>
      BY <1>9 DEF IndexLength
    <2>2. pc' = "idle" \/ (pc' = "mark" /\ job'.todo = job.todo)
      BY <1>9 DEF IndexLength, WriteRest, Job
    <2> QED BY <2>1, <2>2 DEF InChainInv, Filling, Reach
  <1>10. CASE IndexLink
    <2>1. /\ job.tail \in Sectors /\ next[job.tail] = Empty
          /\ job.head \in Sectors /\ IsFirst(job.head, job.todo)
          /\ next' = [next EXCEPT ![job.tail] = job.head]
          /\ file'.cluster = file.cluster
      BY <1>10, IndexLinkDoes DEF File
    <2>2. job.tail \in Reached(next, file.cluster)
      BY <1>10 DEF IndexLink, InChainInv, Reach
    <2>a. next'[job.tail] = job.head /\ \A t \in Sectors : t # job.tail => next'[t] = next[t]
      BY <2>1
    <2>b. next[job.tail] \notin Sectors
      BY <2>1
    <2>3. Reached(next, file.cluster) \subseteq Reached(next', file.cluster)
      <3>1. \A s \in Sectors : next[s] \notin Sectors /\ (\A t \in Sectors : t # s => next'[t] = next[t])
              => Reached(next, file.cluster) \subseteq Reached(next', file.cluster)
        BY ReachedGrows
      <3> QED BY <2>1, <2>a, <2>b, <3>1
    <2>4. job.head \in Reached(next', file.cluster)
      <3>1. Closed(next', Reached(next', file.cluster))
        BY ReachedIsClosed
      <3> QED BY <2>1, <2>2, <2>3, <2>a, <3>1 DEF Closed
    <2>5. job.todo = {job.head}
      BY <1>10, <2>1 DEF IndexLink, ShortInv, Filling, IsFirst
    <2>6. pc' = "idle" \/ (pc' = "mark" /\ job'.todo = job.todo)
      BY <1>10 DEF IndexLink, WriteRest, Job
    <2> QED BY <2>1, <2>4, <2>5, <2>6 DEF InChainInv, Filling, Reach
  <1>11. CASE MarkSector
    BY <1>11 DEF MarkSector, InChainInv, Filling, Reach
  <1>12. CASE WriteData
    <2>1. pc = "data" /\ UNCHANGED <<next, file>> /\ pc' # "index"
      BY <1>12 DEF WriteData, WriteRest
    <2>2. pc' = "idle" \/ (pc' \in {"mark", "link"} /\ job'.todo \subseteq job.todo)
      BY <1>12 DEF WriteData, WriteRest, Job
    <2> QED BY <2>1, <2>2 DEF InChainInv, Filling, Reach
  <1>13. CASE LinkSector
    BY <1>13 DEF LinkSector, ShortInv
  <1>14. CASE UNCHANGED vars
    BY <1>14 DEF vars, InChainInv, Filling, Reach
  <1> QED BY <1>1, <1>2, <1>3, <1>4, <1>5, <1>6, <1>7, <1>8, <1>9, <1>10, <1>11, <1>12, <1>13, <1>14, WriteSteps

-----------------------------------------------------------------------------
(***************************************************************************)
(* Lengths and sectors.                                                    *)
(***************************************************************************)
\* Division is unique.
LEMMA ModUnique ==
  ASSUME NEW D \in Nat \ {0}, NEW q \in Int, NEW r \in 0 .. D - 1
  PROVE  (D * q + r) % D = r
  <1> DEFINE n == D * q + r
             p == n \div D
             m == n % D
  <1>1. n = D * p + m /\ m \in 0 .. D - 1 /\ p \in Int
    <2>1. n \in Int
      OBVIOUS
    <2> QED BY <2>1, SMT
  <1>2. D * (q - p) = m - r
    BY <1>1, SMT
  <1> HIDE DEF m, p
  <1>3. CASE q - p >= 1
    <2>1. D * (q - p) >= D
      BY <1>1, <1>3, SMT
    <2> QED BY <1>1, <1>2, <2>1, SMT
  <1>4. CASE q - p <= -1
    <2>1. D * (q - p) <= -D
      BY <1>1, <1>4, SMT
    <2> QED BY <1>1, <1>2, <2>1, SMT
  <1>5. CASE q = p
    BY <1>1, <1>5 DEF m
  <1> QED BY <1>1, <1>3, <1>4, <1>5, SMT

LEMMA ModWithin ==
  ASSUME NEW n \in Nat, NEW m \in Nat, 1 <= (n % DataArea) + m, (n % DataArea) + m <= DataArea
  PROVE  (n + m - 1) % DataArea = (n % DataArea) + m - 1
  <1> DEFINE q == n \div DataArea
             r == n % DataArea
  <1>1. n = DataArea * q + r /\ r \in 0 .. DataArea - 1 /\ q \in Int
    BY SizeAssumption, SMT
  <1> HIDE DEF q
  <1>2. r + m - 1 \in 0 .. DataArea - 1 /\ n + m - 1 = DataArea * q + (r + m - 1)
    BY <1>1, SizeAssumption, SMT
  <1>3. (DataArea * q + (r + m - 1)) % DataArea = r + m - 1
    BY <1>1, <1>2, SizeAssumption, ModUnique
  <1> QED BY <1>2, <1>3

LEMMA ModOneLess ==
  ASSUME NEW n \in Nat, n % DataArea # 0
  PROVE  (n - 1) % DataArea = (n % DataArea) - 1
  <1> DEFINE q == n \div DataArea
             r == n % DataArea
  <1>1. n = DataArea * q + r /\ r \in 0 .. DataArea - 1 /\ q \in Int
    BY SizeAssumption, SMT
  <1> HIDE DEF q
  <1>2. r - 1 \in 0 .. DataArea - 1 /\ n - 1 = DataArea * q + (r - 1)
    BY <1>1, SizeAssumption, SMT
  <1>3. (DataArea * q + (r - 1)) % DataArea = r - 1
    BY <1>1, <1>2, SizeAssumption, ModUnique
  <1> QED BY <1>2, <1>3

LEMMA ModFull ==
  ASSUME NEW n \in Nat, NEW m \in Nat, (n % DataArea) + m = DataArea
  PROVE  (n + m) % DataArea = 0
  BY SizeAssumption, SMT

LEMMA DivUnique ==
  ASSUME NEW q \in Int, NEW r \in 0 .. DataArea - 1
  PROVE  (DataArea * q + r) \div DataArea = q /\ (DataArea * q + r) % DataArea = r
  <1> DEFINE n == DataArea * q + r
             p == n \div DataArea
  <1>1. n % DataArea = r
    BY SizeAssumption, ModUnique
  <1>2. n = DataArea * p + (n % DataArea) /\ p \in Int /\ DataArea \in Nat \ {0}
    <2>1. n \in Int
      BY SizeAssumption
    <2> HIDE DEF n
    <2> QED BY <2>1, SizeAssumption, SMT
  <1> HIDE DEF p
  <1>3. DataArea * (q - p) = 0
    BY <1>1, <1>2, SMT
  <1>4. CASE q - p >= 1
    <2>1. DataArea * (q - p) >= DataArea
      BY <1>2, <1>4, SMT
    <2> QED BY <1>2, <1>3, <2>1, SMT
  <1>5. CASE q - p <= -1
    <2>1. DataArea * (q - p) <= -DataArea
      BY <1>2, <1>5, SMT
    <2> QED BY <1>2, <1>3, <2>1, SMT
  <1>6. CASE q = p
    BY <1>1, <1>6 DEF p
  <1> QED BY <1>2, <1>4, <1>5, <1>6, SMT

LEMMA DivMod ==
  ASSUME NEW n \in Nat
  PROVE  n = DataArea * (n \div DataArea) + (n % DataArea) /\ n \div DataArea \in Nat
         /\ n % DataArea \in 0 .. DataArea - 1
  BY SizeAssumption, SMT

\* Positions of one sector are in the order of its bytes.
LEMMA DivInOrder ==
  ASSUME NEW i \in Nat, NEW j \in Nat, i <= j
  PROVE  /\ i \div DataArea <= j \div DataArea
         /\ i \div DataArea = j \div DataArea => i % DataArea <= j % DataArea
  <1> DEFINE p == i \div DataArea
             q == j \div DataArea
  <1>1. i = DataArea * p + (i % DataArea) /\ p \in Nat /\ i % DataArea \in 0 .. DataArea - 1
    BY DivMod
  <1>2. j = DataArea * q + (j % DataArea) /\ q \in Nat /\ j % DataArea \in 0 .. DataArea - 1
    BY DivMod
  <1> HIDE DEF p, q
  <1>3. CASE p - q >= 1
    <2>1. DataArea * (p - q) >= DataArea
      BY <1>1, <1>2, <1>3, SizeAssumption, SMT
    <2>2. DataArea * (p - q) = DataArea * p - DataArea * q
      BY <1>1, <1>2, SizeAssumption, SMT
    <2> QED BY <1>1, <1>2, <2>1, <2>2, SizeAssumption, SMT
  <1>4. CASE p <= q
    BY <1>1, <1>2, <1>4, SizeAssumption DEF p, q
  <1>5. p - q >= 1 \/ p <= q
    BY <1>1, <1>2
  <1> QED BY <1>3, <1>4, <1>5

\* The sector of the last byte is the last one.
LEMMA SectorsForLast ==
  ASSUME NEW len \in Nat, len >= 1
  PROVE  SectorsFor(len) = (len - 1) \div DataArea + 1
  <1> DEFINE q == (len - 1) \div DataArea
             r == (len - 1) % DataArea
  <1>1. len - 1 = DataArea * q + r /\ q \in Nat /\ r \in 0 .. DataArea - 1
    BY DivMod
  <1> HIDE DEF q, r
  <1>2. len + DataArea - 1 = DataArea * (q + 1) + r
    BY <1>1, SizeAssumption, SMT
  <1>3. q + 1 \in Int
    BY <1>1
  <1>4. (DataArea * (q + 1) + r) \div DataArea = q + 1
    BY <1>1, <1>3, DivUnique
  <1> QED BY <1>2, <1>4 DEF SectorsFor, q

\* A byte of a file is in one of its sectors.
LEMMA SectorOfByte ==
  ASSUME NEW len \in Nat, NEW i \in 0 .. len - 1
  PROVE  i \div DataArea \in 0 .. SectorsFor(len) - 1 /\ SectorsFor(len) \in Nat
  <1>1. len >= 1 /\ i \in Nat /\ len - 1 \in Nat /\ i <= len - 1
    OBVIOUS
  <1>2. i \div DataArea <= (len - 1) \div DataArea
    BY <1>1, DivInOrder
  <1>3. i \div DataArea \in Nat /\ (len - 1) \div DataArea \in Nat
    BY <1>1, DivMod
  <1> QED BY <1>1, <1>2, <1>3, SectorsForLast

\* m bytes more in the sector position n is in.
LEMMA DivWithin ==
  ASSUME NEW n \in Nat, NEW i \in Nat, n <= i, (n % DataArea) + (i - n) < DataArea
  PROVE  i \div DataArea = n \div DataArea /\ i % DataArea = (n % DataArea) + (i - n)
  <1> DEFINE q == n \div DataArea
             r == n % DataArea
  <1>1. n = DataArea * q + r /\ q \in Nat /\ r \in 0 .. DataArea - 1
    BY DivMod
  <1> HIDE DEF q
  <1>2. r + (i - n) \in 0 .. DataArea - 1 /\ i = DataArea * q + (r + (i - n))
    BY <1>1, SizeAssumption, SMT
  <1> QED BY <1>1, <1>2, DivUnique DEF q

LEMMA SectorsForWithin ==
  ASSUME NEW n \in Nat, NEW m \in Nat, m >= 1, (n % DataArea) + m <= DataArea
  PROVE  /\ SectorsFor(n + m) = n \div DataArea + 1
         /\ SectorsFor(n) = IF n % DataArea = 0 THEN n \div DataArea ELSE n \div DataArea + 1
  <1> DEFINE q == n \div DataArea
             r == n % DataArea
  <1>1. n = DataArea * q + r /\ q \in Nat /\ r \in 0 .. DataArea - 1
    BY DivMod
  <1>2. (n + m - 1) \div DataArea = q
    <2>1. n + m - 1 \in Nat /\ n <= n + m - 1 /\ r + ((n + m - 1) - n) < DataArea
      BY <1>1, SizeAssumption, SMT
    <2> HIDE DEF q, r
    <2> QED BY <2>1, DivWithin DEF q, r
  <1>3. SectorsFor(n + m) = q + 1
    <2>1. n + m \in Nat /\ n + m >= 1
      OBVIOUS
    <2> QED BY <1>2, <2>1, SectorsForLast
  <1> HIDE DEF q
  <1>4. CASE r = 0
    <2>1. n + DataArea - 1 = DataArea * q + (DataArea - 1) /\ DataArea - 1 \in 0 .. DataArea - 1
      BY <1>1, <1>4, SizeAssumption, SMT
    <2>2. (DataArea * q + (DataArea - 1)) \div DataArea = q
      BY <1>1, <2>1, DivUnique
    <2> QED BY <1>3, <1>4, <2>1, <2>2 DEF SectorsFor, q
  <1>5. CASE r # 0
    <2>1. n + DataArea - 1 = DataArea * (q + 1) + (r - 1) /\ r - 1 \in 0 .. DataArea - 1 /\ q + 1 \in Int
      BY <1>1, <1>5, SizeAssumption, SMT
    <2>2. (DataArea * (q + 1) + (r - 1)) \div DataArea = q + 1
      BY <2>1, DivUnique
    <2> QED BY <1>3, <1>5, <2>1, <2>2 DEF SectorsFor, q
  <1> QED BY <1>4, <1>5

-----------------------------------------------------------------------------
(***************************************************************************)
(* What a chain holds.                                                     *)
(***************************************************************************)
\* p[0] .. p[n - 1] are the sectors of a chain in their order.
IsPath(links, c, p, n) ==
  /\ n \in Nat /\ p[0] = c /\ p[n] = Empty
  /\ \A i \in 0 .. n - 1 : p[i] \in Sectors /\ links[p[i]] = p[i + 1]

\* A chain is as long as its file, and every byte of the file was programmed, but
\* for those of the sectors "but".
Holds(links, bytes, c, length, but) ==
  /\ length \in Nat
  /\ \E p :
       /\ IsPath(links, c, p, SectorsFor(length))
       /\ \A i \in 0 .. length - 1 :
            p[i \div DataArea] \in but \/ i % DataArea \in bytes[p[i \div DataArea]]

\* A chain holds its file, and nothing behind the last byte of it.
Filled(links, bytes, c, length) ==
  /\ length # Empty => Holds(links, bytes, c, length, {})
  /\ \A s \in Reached(links, c) : links[s] = Empty => bytes[s] \subseteq 0 .. ((length - 1) % DataArea)

\* A chain has the sectors of its path.
LEMMA PathIsReached ==
  ASSUME NEW links, NEW c, NEW p, NEW n, IsPath(links, c, p, n)
  PROVE  /\ \A i \in 0 .. n - 1 : p[i] \in Reached(links, c)
         /\ \A s \in Reached(links, c) : \E i \in 0 .. n - 1 : s = p[i]
  <1> DEFINE S == {p[i] : i \in 0 .. n - 1}
             T == {i \in 0 .. n - 1 : p[i] \notin Reached(links, c)}
  <1>1. n \in Nat /\ p[0] = c /\ p[n] = Empty /\ \A i \in 0 .. n - 1 : p[i] \in Sectors /\ links[p[i]] = p[i + 1]
    BY DEF IsPath
  <1>2. Reached(links, c) \subseteq S
    <2>1. S \in SUBSET Sectors
      BY <1>1
    <2>2. c \in Sectors => c \in S
      <3>1. c \in Sectors => n # 0
        BY <1>1, SectorFacts
      <3> QED BY <1>1, <3>1
    <2>3. Closed(links, S)
      <3> SUFFICES ASSUME NEW i \in 0 .. n - 1, links[p[i]] \in Sectors PROVE links[p[i]] \in S
        BY DEF Closed
      <3>1. links[p[i]] = p[i + 1] /\ i + 1 # n
        BY <1>1, SectorFacts
      <3>2. i + 1 \in 0 .. n - 1
        BY <1>1, <3>1
      <3> QED BY <3>1, <3>2
    <2> HIDE DEF S
    <2> QED BY <2>1, <2>2, <2>3, ReachedIsLeast
  <1>3. T = {}
    <2> SUFFICES ASSUME T # {} PROVE FALSE
      OBVIOUS
    <2>1. T \in SUBSET Nat
      BY <1>1
    <2>2. PICK i \in T : IsFirst(i, T)
      BY <2>1, LeastNatural
    <2>3. i # 0
      <3>1. n # 0
        BY <1>1, <2>2
      <3>2. c \in Sectors
        BY <1>1, <3>1
      <3> QED BY <1>1, <2>2, <3>2, ReachedIsClosed
    <2>4. i - 1 \in 0 .. n - 1 /\ i - 1 \notin T
      BY <1>1, <2>2, <2>3 DEF IsFirst
    <2>5. p[i - 1] \in Reached(links, c) /\ links[p[i - 1]] = p[(i - 1) + 1] /\ (i - 1) + 1 = i
      BY <1>1, <2>2, <2>4
    <2>6. p[i] \in Reached(links, c)
      BY <1>1, <2>2, <2>5, ReachedIsClosed DEF Closed
    <2> QED BY <2>2, <2>6
  <1> QED BY <1>2, <1>3

LEMMA HoldsSame ==
  ASSUME NEW links, NEW new, NEW bytes, NEW now, NEW c, NEW length, NEW but,
         Holds(links, bytes, c, length, but),
         \A t \in Reached(links, c) : new[t] = links[t] /\ now[t] = bytes[t]
  PROVE  Holds(new, now, c, length, but)
  <1> DEFINE n == SectorsFor(length)
  <1>a. length \in Nat
    BY DEF Holds
  <1> USE <1>a
  <1>1. PICK p : /\ IsPath(links, c, p, n)
                 /\ \A i \in 0 .. length - 1 : p[i \div DataArea] \in but \/ i % DataArea \in bytes[p[i \div DataArea]]
    BY DEF Holds
  <1>2. \A i \in 0 .. n - 1 : p[i] \in Reached(links, c)
    BY <1>1, PathIsReached
  <1>3. IsPath(new, c, p, n)
    BY <1>1, <1>2 DEF IsPath
  <1>4. \A i \in 0 .. length - 1 : i \div DataArea \in 0 .. n - 1
    BY SectorOfByte
  <1>5. \A i \in 0 .. length - 1 : p[i \div DataArea] \in but \/ i % DataArea \in now[p[i \div DataArea]]
    BY <1>1, <1>2, <1>4
  <1> QED BY <1>3, <1>5 DEF Holds

\* Bytes put behind the last one, in the sector it is in.
LEMMA HoldsMore ==
  ASSUME NEW links, NEW bytes, NEW now, NEW c, NEW n \in Nat, NEW m \in Nat,
         Holds(links, bytes, c, n, {}), NEW s \in Reached(links, c), links[s] = Empty,
         n % DataArea # 0, (n % DataArea) + m <= DataArea,
         now[s] = bytes[s] \cup (n % DataArea .. (n % DataArea) + m - 1),
         \A t \in Sectors : t # s => now[t] = bytes[t]
  PROVE  Holds(links, now, c, n + m, {})
  <1> DEFINE q == n \div DataArea
             r == n % DataArea
  <1>1. n = DataArea * q + r /\ q \in Nat /\ r \in 0 .. DataArea - 1
    BY DivMod
  <1>2. SectorsFor(n) = q + 1 /\ SectorsFor(n + m) = q + 1
    <2>1. 1 \in Nat /\ 1 >= 1 /\ r + 1 <= DataArea
      BY <1>1, SizeAssumption
    <2>2. SectorsFor(n) = q + 1
      BY <2>1, SectorsForWithin
    <2>3. CASE m = 0
      BY <2>2, <2>3
    <2>4. CASE m # 0
      <3>1. m >= 1
        BY <2>4
      <3> QED BY <2>2, <3>1, SectorsForWithin
    <2> QED BY <2>3, <2>4
  <1>3. PICK p : /\ IsPath(links, c, p, q + 1)
                 /\ \A i \in 0 .. n - 1 : p[i \div DataArea] \in {} \/ i % DataArea \in bytes[p[i \div DataArea]]
    BY <1>2 DEF Holds
  <1>4. p[q] = s
    <2>1. PICK i \in 0 .. q : s = p[i]
      BY <1>1, <1>3, PathIsReached
    <2>2. p[i + 1] = Empty
      BY <1>1, <1>3, <2>1 DEF IsPath
    <2>3. i = q
      BY <1>1, <1>3, <2>1, <2>2, SectorFacts DEF IsPath
    <2> QED BY <2>1, <2>3
  <1>5. ASSUME NEW i \in 0 .. n + m - 1
        PROVE  i % DataArea \in now[p[i \div DataArea]]
    <2>1. CASE i <= n - 1
      <3>1. i \in 0 .. n - 1
        BY <2>1
      <3>2. i \div DataArea \in 0 .. q
        BY <1>1, <1>2, <3>1, SectorOfByte
      <3>3. p[i \div DataArea] \in Sectors
        BY <1>1, <1>3, <3>2 DEF IsPath
      <3>4. bytes[p[i \div DataArea]] \subseteq now[p[i \div DataArea]]
        BY <3>3
      <3> QED BY <1>3, <3>1, <3>4
    <2>2. CASE n <= i
      <3>1. i \div DataArea = q /\ i % DataArea = r + (i - n)
        <4>1. i \in Nat /\ n <= i /\ r + (i - n) < DataArea
          BY <1>1, <2>2, SizeAssumption
        <4> HIDE DEF q, r
        <4> QED BY <4>1, DivWithin DEF q, r
      <3>2. r + (i - n) \in r .. r + m - 1
        BY <1>1, <2>2
      <3> QED BY <1>4, <3>1, <3>2
    <2> QED BY <2>1, <2>2
  <1> QED BY <1>2, <1>3, <1>5 DEF Holds

\* A sector linked to a full one.
LEMMA HoldsLinked ==
  ASSUME NEW links, NEW new, NEW bytes, NEW c \in Sectors, NEW n \in Nat, NEW m \in 1 .. DataArea, NEW but,
         Holds(links, bytes, c, n, {}), NEW s \in Reached(links, c), links[s] = Empty,
         n % DataArea = 0, NEW h \in Sectors, new[s] = h, new[h] = Empty, h \in but,
         \A t \in Sectors : t # s => new[t] = links[t]
  PROVE  Holds(new, bytes, c, n + m, but)
  <1> DEFINE q == n \div DataArea
  <1>1. n = DataArea * q /\ q \in Nat
    BY DivMod, SizeAssumption, SMT
  <1>2. SectorsFor(n) = q /\ SectorsFor(n + m) = q + 1
    <2>1. m \in Nat /\ m >= 1 /\ (n % DataArea) + m <= DataArea
      BY SizeAssumption
    <2> HIDE DEF q
    <2> QED BY <2>1, SectorsForWithin DEF q
  <1>3. PICK p : /\ IsPath(links, c, p, q)
                 /\ \A i \in 0 .. n - 1 : p[i \div DataArea] \in {} \/ i % DataArea \in bytes[p[i \div DataArea]]
    BY <1>2 DEF Holds
  <1> HIDE DEF q
  <1>4. q # 0
    BY <1>3, SectorFacts DEF IsPath
  <1>5. p[q - 1] = s
    <2>1. PICK i \in 0 .. q - 1 : s = p[i]
      BY <1>3, PathIsReached
    <2>2. p[i + 1] = Empty
      BY <1>3, <2>1 DEF IsPath
    <2>3. i = q - 1
      BY <1>1, <1>3, <2>1, <2>2, SectorFacts DEF IsPath
    <2> QED BY <2>1, <2>3
  <1>6. \A i \in 0 .. q - 1 : p[i] = s => i = q - 1
    <2> SUFFICES ASSUME NEW i \in 0 .. q - 1, p[i] = s PROVE i = q - 1
      OBVIOUS
    <2>1. p[i + 1] = Empty
      BY <1>3 DEF IsPath
    <2> QED BY <1>1, <1>3, <2>1, SectorFacts DEF IsPath
  <1> DEFINE w == [i \in 0 .. q + 1 |-> IF i < q THEN p[i] ELSE IF i = q THEN h ELSE Empty]
  <1>7. IsPath(new, c, w, q + 1)
    <2>1. q + 1 \in Nat /\ w[0] = c /\ w[q + 1] = Empty
      BY <1>1, <1>3, <1>4 DEF IsPath
    <2>2. ASSUME NEW i \in 0 .. (q + 1) - 1 PROVE w[i] \in Sectors /\ new[w[i]] = w[i + 1]
      <3>1. CASE i = q
        BY <1>1, <3>1
      <3>2. CASE i = q - 1
        <4>1. w[i] = s /\ w[i + 1] = h
          BY <1>1, <1>4, <1>5, <3>2
        <4> QED BY <1>1, <1>3, <1>4, <1>5, <4>1 DEF IsPath
      <3>3. CASE i # q /\ i # q - 1
        <4>1. i \in 0 .. q - 1 /\ i + 1 < q
          BY <1>1, <3>3
        <4>2. w[i] = p[i] /\ w[i + 1] = p[i + 1]
          BY <1>1, <4>1
        <4>3. p[i] # s /\ p[i] \in Sectors /\ links[p[i]] = p[i + 1]
          BY <1>3, <1>6, <3>3, <4>1 DEF IsPath
        <4> QED BY <4>2, <4>3
      <3> QED BY <3>1, <3>2, <3>3
    <2> HIDE DEF w
    <2> QED BY <2>1, <2>2 DEF IsPath
  <1>8. ASSUME NEW i \in 0 .. n + m - 1
        PROVE  w[i \div DataArea] \in but \/ i % DataArea \in bytes[w[i \div DataArea]]
    <2>1. CASE i <= n - 1
      <3>1. i \in 0 .. n - 1
        BY <2>1
      <3>2. i \div DataArea \in 0 .. q - 1
        BY <1>1, <1>2, <3>1, SectorOfByte
      <3>3. w[i \div DataArea] = p[i \div DataArea]
        BY <1>1, <3>2
      <3> QED BY <1>3, <3>1, <3>3
    <2>2. CASE n <= i
      <3>1. i \div DataArea = q
        <4>1. i \in Nat /\ n <= i /\ (n % DataArea) + (i - n) < DataArea
          BY <2>2, SizeAssumption
        <4> QED BY <4>1, DivWithin DEF q
      <3>2. w[i \div DataArea] = h
        BY <1>1, <3>1
      <3> QED BY <3>2
    <2> QED BY <2>1, <2>2
  <1> HIDE DEF w
  <1> QED BY <1>2, <1>7, <1>8 DEF Holds

\* A chain of one sector that is still to be written.
LEMMA HoldsFirst ==
  ASSUME NEW links, NEW bytes, NEW m \in 1 .. DataArea, NEW h \in Sectors, links[h] = Empty, NEW but, h \in but
  PROVE  Holds(links, bytes, h, m, but)
  <1>1. SectorsFor(m) = 1
    BY SectorsForSome, SizeAssumption
  <1> DEFINE w == [i \in 0 .. 1 |-> IF i = 0 THEN h ELSE Empty]
  <1>2. IsPath(links, h, w, 1)
    BY DEF IsPath
  <1>3. ASSUME NEW i \in 0 .. m - 1 PROVE w[i \div DataArea] \in but
    <2>1. i \div DataArea \in 0 .. 0
      BY <1>1, SectorOfByte
    <2> QED BY <2>1
  <1> HIDE DEF w
  <1> QED BY <1>1, <1>2, <1>3 DEF Holds

\* The last sector is written as far as the length says.
LEMMA HoldsWritten ==
  ASSUME NEW links, NEW bytes, NEW now, NEW c, NEW length \in Nat, NEW but, NEW s \in Sectors,
         Holds(links, bytes, c, length, but), \A t \in but : t = s, links[s] = Empty,
         now[s] = 0 .. ((length - 1) % DataArea),
         \A t \in Sectors : t # s => now[t] = bytes[t]
  PROVE  Holds(links, now, c, length, {})
  <1> DEFINE n == SectorsFor(length)
  <1>1. PICK p : /\ IsPath(links, c, p, n)
                 /\ \A i \in 0 .. length - 1 : p[i \div DataArea] \in but \/ i % DataArea \in bytes[p[i \div DataArea]]
    BY DEF Holds
  <1>2. ASSUME NEW i \in 0 .. length - 1 PROVE i % DataArea \in now[p[i \div DataArea]]
    <2>1. i \div DataArea \in 0 .. n - 1 /\ n \in Nat
      BY SectorOfByte
    <2>2. p[i \div DataArea] \in Sectors /\ links[p[i \div DataArea]] = p[(i \div DataArea) + 1]
      BY <1>1, <2>1 DEF IsPath
    <2>3. CASE p[i \div DataArea] = s
      <3>1. p[(i \div DataArea) + 1] = Empty
        BY <2>2, <2>3
      <3>2. i \div DataArea = n - 1
        BY <1>1, <2>1, <3>1, SectorFacts DEF IsPath
      <3>3. length >= 1 /\ length - 1 \in Nat /\ i \in Nat /\ i <= length - 1
        OBVIOUS
      <3>4. n = ((length - 1) \div DataArea) + 1 /\ (length - 1) \div DataArea \in Nat
        BY <3>3, SectorsForLast, DivMod
      <3>5. i % DataArea <= (length - 1) % DataArea
        BY <3>2, <3>3, <3>4, DivInOrder
      <3>6. i % DataArea \in Nat /\ (length - 1) % DataArea \in Nat
        BY <3>3, DivMod, SizeAssumption
      <3> QED BY <2>3, <3>5, <3>6
    <2>4. CASE p[i \div DataArea] # s
      BY <1>1, <2>2, <2>4
    <2> QED BY <2>3, <2>4
  <1> QED BY <1>1, <1>2 DEF Holds

LEMMA FilledSame ==
  ASSUME NEW links, NEW new, NEW bytes, NEW now, NEW c, NEW length,
         Filled(links, bytes, c, length),
         \A t \in Reached(links, c) : new[t] = links[t] /\ now[t] = bytes[t]
  PROVE  Filled(new, now, c, length)
  <1>1. Reached(new, c) = Reached(links, c)
    BY ReachedSame
  <1>2. length # Empty => Holds(new, now, c, length, {})
    BY HoldsSame DEF Filled
  <1> QED BY <1>1, <1>2 DEF Filled

LEMMA FilledNone ==
  ASSUME NEW links, NEW bytes, NEW c, c \notin Sectors
  PROVE  Filled(links, bytes, c, Empty)
  BY ReachedFromNone DEF Filled

-----------------------------------------------------------------------------
(***************************************************************************)
(* Chains are followed as they are held.                                   *)
(***************************************************************************)
\* What holds of 0 and goes from n to n + 1.
LEMMA FromZeroOn ==
  ASSUME NEW T \in SUBSET Nat, 0 \in T, \A n \in T : n + 1 \in T
  PROVE  T = Nat
  <1> DEFINE U == Nat \ T
  <1> SUFFICES ASSUME U # {} PROVE FALSE
    OBVIOUS
  <1>1. PICK n \in U : IsFirst(n, U)
    BY LeastNatural
  <1>2. n - 1 \in Nat /\ n - 1 \notin U
    BY <1>1 DEF IsFirst
  <1> QED BY <1>1, <1>2

\* A step can be taken any number of times from where it starts.
LEMMA Iterates ==
  ASSUME NEW S, NEW a \in S, NEW F \in [S -> S]
  PROVE  \E f \in [Nat -> S] : f = [i \in Nat |-> IF i = 0 THEN a ELSE F[f[i - 1]]]
  <1> DEFINE UpTo(n, g) == g \in [0 .. n -> S] /\ g[0] = a /\ \A i \in 1 .. n : g[i] = F[g[i - 1]]
             T == {n \in Nat : \E g : UpTo(n, g)}
             up == [n \in Nat |-> CHOOSE g : UpTo(n, g)]
             f == [n \in Nat |-> up[n][n]]
  <1>1. 0 \in T
    <2>1. UpTo(0, [i \in 0 .. 0 |-> a])
      OBVIOUS
    <2> HIDE DEF UpTo
    <2> QED BY <2>1
  <1>2. ASSUME NEW n \in T PROVE n + 1 \in T
    <2>1. PICK g : UpTo(n, g)
      OBVIOUS
    <2> DEFINE h == [i \in 0 .. n + 1 |-> IF i = n + 1 THEN F[g[n]] ELSE g[i]]
    <2>2. h \in [0 .. n + 1 -> S] /\ h[0] = a
      BY <2>1
    <2>3. ASSUME NEW i \in 1 .. n + 1 PROVE h[i] = F[h[i - 1]]
      BY <2>1
    <2> HIDE DEF h
    <2>4. UpTo(n + 1, h)
      BY <2>2, <2>3
    <2> HIDE DEF UpTo
    <2> QED BY <2>4
  <1>3. T = Nat
    <2> HIDE DEF T
    <2>1. T \in SUBSET Nat
      BY DEF T
    <2> QED BY <1>1, <1>2, <2>1, FromZeroOn
  <1>4. \A n \in Nat : UpTo(n, up[n])
    <2> HIDE DEF UpTo
    <2> QED BY <1>3
  <1> HIDE DEF T, up
  <1>5. ASSUME NEW n \in Nat PROVE f[n + 1] = F[f[n]]
    <2> DEFINE A == {i \in Nat : i <= n => up[n][i] = up[n + 1][i]}
    <2>1. 0 \in A
      BY <1>4
    <2>2. ASSUME NEW i \in A PROVE i + 1 \in A
      <3> SUFFICES ASSUME i + 1 <= n PROVE up[n][i + 1] = up[n + 1][i + 1]
        OBVIOUS
      <3>1. i + 1 \in 1 .. n /\ i + 1 \in 1 .. n + 1 /\ (i + 1) - 1 = i /\ up[n][i] = up[n + 1][i]
        OBVIOUS
      <3>2. up[n][i + 1] = F[up[n][i]] /\ up[n + 1][i + 1] = F[up[n + 1][i]]
        BY <1>4, <3>1
      <3> QED BY <3>1, <3>2
    <2>3. A = Nat
      <3> HIDE DEF A
      <3>1. A \in SUBSET Nat
        BY DEF A
      <3> QED BY <2>1, <2>2, <3>1, FromZeroOn
    <2>4. up[n][n] = up[n + 1][n]
      BY <2>3
    <2>5. up[n + 1][n + 1] = F[up[n + 1][n]]
      <3>1. n + 1 \in 1 .. n + 1 /\ (n + 1) - 1 = n /\ n + 1 \in Nat
        OBVIOUS
      <3> QED BY <1>4, <3>1
    <2> QED BY <2>4, <2>5
  <1>6. f \in [Nat -> S] /\ f[0] = a
    BY <1>4
  <1> HIDE DEF f
  <1>7. ASSUME NEW i \in Nat PROVE f[i] = IF i = 0 THEN a ELSE F[f[i - 1]]
    <2>1. CASE i = 0
      BY <1>6, <2>1
    <2>2. CASE i # 0
      <3>1. i - 1 \in Nat /\ (i - 1) + 1 = i
        BY <2>2
      <3> QED BY <1>5, <2>2, <3>1
    <2> QED BY <2>1, <2>2
  <1> QED BY <1>6, <1>7

\* Links lead to sectors or end.
LEMMA FollowStays ==
  ASSUME TypeOK, NEW c
  PROVE  \A s \in Sectors \cup Words \cup {c} : Follow(s) \in Sectors \cup Words \cup {c}
  BY DEF TypeOK, Follow

\* The n-th link.
LEMMA NthSteps ==
  ASSUME TypeOK, NEW c
  PROVE  /\ NthSector(c, 0) = c
         /\ \A n \in Nat : /\ NthSector(c, n) \in Sectors \cup Words \cup {c}
                           /\ NthSector(c, n + 1) = Follow(NthSector(c, n))
  <1> DEFINE S == Sectors \cup Words \cup {c}
             F == [s \in S |-> Follow(s)]
             Is(f) == f = [i \in Nat |-> IF i = 0 THEN c ELSE Follow(f[i - 1])]
             nth == CHOOSE f : Is(f)
  <1>1. PICK f \in [Nat -> S] : f = [i \in Nat |-> IF i = 0 THEN c ELSE F[f[i - 1]]]
    <2>1. c \in S /\ F \in [S -> S]
      BY FollowStays
    <2> HIDE DEF S, F
    <2> QED BY <2>1, Iterates
  <1>2. Is(f)
    <2>1. ASSUME NEW i \in Nat PROVE f[i] = IF i = 0 THEN c ELSE Follow(f[i - 1])
      <3>1. CASE i = 0
        BY <1>1, <3>1
      <3>2. CASE i # 0
        <4>1. i - 1 \in Nat
          BY <3>2
        <4>2. f[i - 1] \in S
          BY <1>1, <4>1
        <4>3. f[i] = F[f[i - 1]]
          <5> HIDE DEF F, S
          <5> QED BY <1>1, <3>2
        <4> QED BY <3>2, <4>2, <4>3
      <3> QED BY <3>1, <3>2
    <2> QED BY <1>1, <2>1
  <1>3. Is(nth)
    <2> HIDE DEF Is
    <2> QED BY <1>2
  <1>4. \A n \in Nat : NthSector(c, n) = nth[n]
    BY DEF NthSector
  <1> HIDE DEF nth
  <1>5. nth[0] = c /\ \A n \in Nat : nth[n + 1] = Follow(nth[n])
    BY <1>3
  <1> DEFINE T == {n \in Nat : nth[n] \in S}
  <1>6. 0 \in T /\ \A n \in T : n + 1 \in T
    <2>1. 0 \in T
      BY <1>5
    <2>2. ASSUME NEW n \in T PROVE n + 1 \in T
      <3>1. nth[n] \in S /\ nth[n + 1] = Follow(nth[n]) /\ n + 1 \in Nat
        BY <1>5
      <3>2. Follow(nth[n]) \in S
        BY <3>1, FollowStays
      <3> QED BY <3>1, <3>2
    <2> QED BY <2>1, <2>2
  <1>7. T = Nat
    <2> HIDE DEF T
    <2>1. T \in SUBSET Nat
      BY DEF T
    <2> QED BY <1>6, <2>1, FromZeroOn
  <1> QED BY <1>4, <1>5, <1>7

\* The links of a path are those its sectors have, and behind it there is nothing.
LEMMA PathIsFollowed ==
  ASSUME TypeOK, NEW c, NEW p, NEW n, IsPath(next, c, p, n)
  PROVE  /\ \A i \in 0 .. n : NthSector(c, i) = p[i]
         /\ \A i \in Nat : i >= n => NthSector(c, i) = Empty
  <1>a. n \in Nat /\ p[0] = c /\ p[n] = Empty /\ \A i \in 0 .. n - 1 : p[i] \in Sectors /\ next[p[i]] = p[i + 1]
    BY DEF IsPath
  <1> DEFINE T == {i \in Nat : NthSector(c, i) = IF i <= n THEN p[i] ELSE Empty}
  <1>1. 0 \in T
    BY <1>a, NthSteps
  <1>2. ASSUME NEW i \in T PROVE i + 1 \in T
    <2>1. NthSector(c, i + 1) = Follow(NthSector(c, i))
      BY NthSteps
    <2>2. CASE i < n
      <3>1. i \in 0 .. n - 1 /\ NthSector(c, i) = p[i]
        BY <1>a, <2>2
      <3> QED BY <1>a, <2>1, <2>2, <3>1 DEF Follow
    <2>3. CASE ~(i < n)
      <3>1. NthSector(c, i) = Empty
        BY <1>a, <2>3
      <3> QED BY <1>a, <2>1, <2>3, <3>1, SectorFacts DEF Follow
    <2> QED BY <2>2, <2>3
  <1>3. T = Nat
    <2> HIDE DEF T
    <2>1. T \in SUBSET Nat
      BY DEF T
    <2> QED BY <1>1, <1>2, <2>1, FromZeroOn
  <1>4. \A i \in Nat : NthSector(c, i) = IF i <= n THEN p[i] ELSE Empty
    BY <1>3
  <1> QED BY <1>a, <1>4

\* A chain that holds its file, of sectors in use, is that of a whole file.
LEMMA HoldingIsWhole ==
  ASSUME TypeOK, clobbered = {}, NEW b, Holds(next, data, b.cluster, b.length, {}),
         \A s \in Reach(b.cluster) : mark[s] = "inuse"
  PROVE  Whole(b)
  <1> DEFINE n == SectorsFor(b.length)
  <1>a. b.length \in Nat
    BY DEF Holds
  <1>1. PICK p : /\ IsPath(next, b.cluster, p, n)
                 /\ \A i \in 0 .. b.length - 1 : p[i \div DataArea] \in {} \/ i % DataArea \in data[p[i \div DataArea]]
    BY DEF Holds
  <1>2. \A i \in 0 .. n : NthSector(b.cluster, i) = p[i]
    BY <1>1, PathIsFollowed
  <1>3. n \in Nat /\ NthSector(b.cluster, n) = Empty
    BY <1>1, <1>2 DEF IsPath
  <1>4. ASSUME NEW i \in 0 .. b.length - 1
        PROVE  /\ ReadByte(b.cluster, i)[1] \in Sectors \ clobbered
               /\ mark[ReadByte(b.cluster, i)[1]] = "inuse"
               /\ ReadByte(b.cluster, i)[2] \in data[ReadByte(b.cluster, i)[1]]
    <2>1. i \div DataArea \in 0 .. n - 1
      BY <1>a, SectorOfByte
    <2>2. NthSector(b.cluster, i \div DataArea) = p[i \div DataArea]
      BY <1>2, <1>3, <2>1
    <2>3. p[i \div DataArea] \in Sectors /\ p[i \div DataArea] \in Reach(b.cluster)
      BY <1>1, <2>1, PathIsReached DEF IsPath, Reach
    <2> QED BY <1>1, <2>2, <2>3 DEF ReadByte
  <1> QED BY <1>3, <1>4 DEF Whole, Legible

-----------------------------------------------------------------------------
(***************************************************************************)
(* Callers that append to what is filled.                                  *)
(***************************************************************************)
\* write_file has linked the sector it is going to write.
Writing == Filling /\ pc # "index"

\* The last sector of the caller's file is partly filled, is full, or is the one
\* about to be written.
LastInv ==
  /\ pc = "partial" => file.length % DataArea # 0
  /\ pc \in {"alloc", "gc_data", "index"} /\ job.op = "append" /\ file.cluster # Empty =>
       file.length % DataArea = 0
  /\ Writing =>
       /\ file.length \in Nat /\ (file.length - 1) % DataArea = job.len - 1
       /\ \A s \in Reach(file.cluster) : next[s] = Empty => s \in job.todo

\* All of the caller's file is there but for the sector about to be written.
PartInv == Writing => Holds(next, data, file.cluster, file.length, job.todo)

\* Until a sector is linked to it, a file that is written is filled.
BusyFilled == Busy /\ ~Writing => Filled(next, data, file.cluster, file.length)

BytesInv ==
  /\ OrderInv /\ ShortInv /\ InChainInv
  /\ clobbered = {}
  /\ BusyFilled /\ LastInv /\ PartInv

CarefulStep ==
  /\ OrderlyStep
  /\ BriefCall
  /\ pc = "idle" /\ Busy' => Filled(next, data, file.cluster, file.length)

\* The bytes AppendToTail writes come right behind the last one of the file.
LEMMA CarefulAppend ==
  ASSUME BytesInv, AppendToTail
  PROVE  \E size \in Nat :
           /\ file.length \in Nat /\ file' = [file EXCEPT !.length = file.length + size]
           /\ ProgramData(job.tail, (file.length % DataArea) .. (file.length % DataArea) + size - 1)
           /\ data[job.tail] \cap ((file.length % DataArea) .. (file.length % DataArea) + size - 1) = {}
           /\ data'[job.tail] \subseteq 0 .. ((file.length + size - 1) % DataArea)
           /\ Holds(next, data', file.cluster, file.length + size, {})
           /\ \/ pc' = "idle"
              \/ pc' = "alloc" /\ job'.op = job.op /\ (file.length + size) % DataArea = 0
  <1>1. PICK size \in Nat :
          /\ file.length \in Nat /\ file' = [file EXCEPT !.length = file.length + size]
          /\ ProgramData(job.tail, (file.length % DataArea) .. (file.length % DataArea) + size - 1)
          /\ (file.length % DataArea) + size <= DataArea
          /\ size # job.len => (file.length % DataArea) + size = DataArea
          /\ \/ size = job.len /\ Return("APPEND_FILE_SUCCESS")
             \/ size # job.len /\ job' = [job EXCEPT !.len = @ - size] /\ Goto("alloc")
    BY AppendDoes DEF BytesInv
  <1>2. pc = "partial"
    BY DEF AppendToTail
  <1>3. /\ job.tail \in Sectors /\ next[job.tail] = Empty /\ job.tail \in Reached(next, file.cluster)
        /\ file.length % DataArea # 0
    BY <1>2 DEF BytesInv, OrderInv, TailInv, InChainInv, LastInv, Reach
  <1>4. Filled(next, data, file.cluster, file.length)
    BY <1>2 DEF BytesInv, BusyFilled, Busy, Writing, Filling
  <1>5. data[job.tail] \subseteq 0 .. ((file.length - 1) % DataArea)
    BY <1>3, <1>4 DEF Filled
  <1>6. file.length % DataArea \in 1 .. DataArea - 1
    BY <1>1, <1>3, SizeAssumption
  <1>7. data[job.tail] \subseteq 0 .. ((file.length % DataArea) - 1)
    BY <1>1, <1>3, <1>5, ModOneLess
  <1>8. (file.length + size - 1) % DataArea = (file.length % DataArea) + size - 1
    BY <1>1, <1>6, ModWithin
  <1>9. data[job.tail] \cap ((file.length % DataArea) .. (file.length % DataArea) + size - 1) = {}
    BY <1>6, <1>7
  <1>10. data'[job.tail] \subseteq 0 .. ((file.length % DataArea) + size - 1)
    <2>1. data'[job.tail] = data[job.tail] \cup ((file.length % DataArea) .. (file.length % DataArea) + size - 1)
      BY <1>1, <1>3 DEF ProgramData, BytesInv, OrderInv, TypeOK
    <2> QED BY <1>6, <1>7, <2>1
  <1>11. \/ pc' = "idle"
         \/ pc' = "alloc" /\ job'.op = job.op /\ (file.length + size) % DataArea = 0
    <2>1. CASE Return("APPEND_FILE_SUCCESS")
      BY <2>1 DEF Return
    <2>2. CASE size # job.len /\ job' = [job EXCEPT !.len = @ - size] /\ Goto("alloc")
      BY <1>1, <2>2, ModFull DEF Goto, BytesInv, OrderInv, TypeOK, Job
    <2> QED BY <1>1, <2>1, <2>2
  <1>12. Holds(next, data', file.cluster, file.length + size, {})
    <2>1. Holds(next, data, file.cluster, file.length, {})
      BY <1>1, <1>4, SectorFacts DEF Filled
    <2>2. /\ data'[job.tail] = data[job.tail] \cup
                ((file.length % DataArea) .. (file.length % DataArea) + size - 1)
          /\ \A t \in Sectors : t # job.tail => data'[t] = data[t]
      BY <1>1, <1>3 DEF ProgramData, BytesInv, OrderInv, TypeOK
    <2> QED BY <1>1, <1>3, <2>1, <2>2, HoldsMore
  <1> QED BY <1>1, <1>8, <1>9, <1>10, <1>11, <1>12

\* WriteData fills the last sector of the file as far as its length says.
LEMMA CarefulData ==
  ASSUME BytesInv, WriteData
  PROVE  \E s \in job.todo :
           /\ s \in Sectors /\ data[s] = {}
           /\ \E S : ProgramData(s, S)
           /\ data'[s] \subseteq 0 .. ((file.length - 1) % DataArea)
           /\ \A t \in Reach(file.cluster) : next[t] = Empty => t = s
           /\ Holds(next, data', file.cluster, file.length, {})
           /\ pc' = "idle"
  <1>1. PICK s \in job.todo :
          /\ IsFirst(s, job.todo)
          /\ ProgramData(s, 0 .. Smaller(job.len, DataArea) - 1)
          /\ job.todo # {s} \/ WriteRest(job.todo \ {s})
    BY DEF WriteData
  <1>2. pc = "data" /\ job.op \in {"override", "append"} /\ job.len \in Nat /\ job.todo \subseteq Sectors
    BY DEF WriteData, BytesInv, OrderInv, TailInv, Busy, Filling, TypeOK, Job
  <1>3. data[s] = {} /\ s \in Sectors
    BY <1>1, <1>2 DEF BytesInv, OrderInv, WritingInv
  <1>4. Smaller(job.len, DataArea) = job.len
    BY <1>2, SizeAssumption DEF BytesInv, ShortInv, Smaller
  <1>5. \A t \in job.todo : t = s
    BY <1>2 DEF BytesInv, ShortInv, Filling
  <1>6. /\ (file.length - 1) % DataArea = job.len - 1
        /\ \A t \in Reach(file.cluster) : next[t] = Empty => t \in job.todo
    BY <1>2 DEF BytesInv, LastInv, Writing, Filling
  <1>7. data'[s] = 0 .. job.len - 1
    BY <1>1, <1>3, <1>4 DEF ProgramData, BytesInv, OrderInv, TypeOK
  <1>8. pc' = "idle"
    <2>1. job.todo = {s}
      BY <1>5
    <2> QED BY <1>1, <2>1 DEF WriteRest, Return
  <1>9. Holds(next, data', file.cluster, file.length, {})
    <2>1. Holds(next, data, file.cluster, file.length, job.todo) /\ file.length \in Nat
      BY <1>2 DEF BytesInv, PartInv, LastInv, Writing, Filling
    <2>2. next[s] = Empty
      BY <1>1, <1>2 DEF BytesInv, OrderInv, WritingInv
    <2>3. \A t \in Sectors : t # s => data'[t] = data[t]
      BY <1>1 DEF ProgramData, BytesInv, OrderInv, TypeOK
    <2>4. data'[s] = 0 .. ((file.length - 1) % DataArea)
      BY <1>6, <1>7
    <2> QED BY <1>3, <1>5, <2>1, <2>2, <2>3, <2>4, HoldsWritten
  <1> QED BY <1>1, <1>3, <1>5, <1>6, <1>7, <1>8, <1>9

LEMMA CarefulLast ==
  ASSUME BytesInv, CarefulStep
  PROVE  LastInv'
  <1> USE DEF flash, ftl, Reject, Goto, Return
  <1>a. OrderInv /\ TypeOK /\ TypeOK' /\ ShortInv /\ InChainInv /\ LastInv /\ PartInv /\ BusyFilled /\ OrderlyStep
    BY OrderlyTypes DEF BytesInv, OrderInv, CarefulStep
  <1> USE <1>a, SectorFacts DEF TypeOK
  <1>1. CASE Outside'
    BY <1>1 DEF Outside, LastInv, Writing, Filling
  <1>2. ASSUME NEW len \in Nat \ {0}, NEW method \in {"OVERRIDE", "APPEND"}, OrderlyWrite(len, method) PROVE LastInv'
    <2>1. CASE pc' # "alloc"
      <3>1. pc' \in {"idle", "discard", "walk"}
        BY <1>2, <2>1 DEF OrderlyWrite, WriteCall
      <3> QED BY <3>1 DEF LastInv, Writing, Filling
    <2>2. CASE pc' = "alloc"
      <3>1. /\ job' = [NoJob EXCEPT
                         !.op   = IF method = "OVERRIDE" THEN "override" ELSE "append",
                         !.len  = len,
                         !.info = fb[file.block].info,
                         !.tail = IF method = "APPEND" /\ file.cluster # Empty /\ file.length # Empty
                                  THEN file.cluster ELSE 0]
            /\ UNCHANGED file /\ pc = "idle"
            /\ method = "APPEND" => file.cluster = Empty \/ file.length = Empty
        BY <1>2, <2>2 DEF OrderlyWrite, WriteCall
      <3>2. file.cluster = Empty <=> file.length = Empty
        BY <1>2, <2>2 DEF OrderlyWrite, WriteCall, Sized
      <3>3. job'.op = "append" => method # "OVERRIDE"
        BY <3>1 DEF NoJob
      <3>4. job'.op = "append" => file'.cluster = Empty
        BY <3>1, <3>2, <3>3, ValueAssumption
      <3> QED BY <2>2, <3>4 DEF LastInv, Writing, Filling
    <2> QED BY <2>1, <2>2
  <1>3. CASE Walk
    <2>1. /\ pc' \in {"walk", "alloc", "partial"}
          /\ pc' = "alloc" => file'.length % DataArea = 0
          /\ pc' = "partial" => file'.length % DataArea # 0
      BY <1>3 DEF Walk
    <2> QED BY <2>1 DEF LastInv, Writing, Filling
  <1>4. CASE AppendToTail
    <2>1. PICK size \in Nat :
            /\ file' = [file EXCEPT !.length = file.length + size]
            /\ \/ pc' = "idle"
               \/ pc' = "alloc" /\ (file.length + size) % DataArea = 0
      BY <1>4, CarefulAppend
    <2>2. file'.length = file.length + size
      BY <2>1 DEF File
    <2>3. pc' = "alloc" => file'.length % DataArea = 0
      BY <2>1, <2>2
    <2> QED BY <2>1, <2>3 DEF LastInv, Writing, Filling
  <1>5. CASE Allocate
    <2>1. pc = "alloc" /\ UNCHANGED file /\ pc' \in {"index", "gc_data"} /\ job'.op = job.op
      BY <1>5 DEF Allocate, Take, Job
    <2> QED BY <2>1 DEF LastInv, Writing, Filling
  <1>6. CASE GcDataErase
    <2>1. pc = "gc_data" /\ UNCHANGED file /\ pc' = "gc_data" /\ job'.op = job.op
      BY <1>6 DEF GcDataErase, Job
    <2> QED BY <2>1 DEF LastInv, Writing, Filling
  <1>7. CASE GcDataDone
    <2>1. CASE Take(FirstN(writable, SectorsFor(job.len)))
      <3>1. pc = "gc_data" /\ UNCHANGED file /\ pc' = "index" /\ job'.op = job.op
        BY <1>7, <2>1 DEF GcDataDone, Take, Job
      <3> QED BY <3>1 DEF LastInv, Writing, Filling
    <2>2. CASE pc' = "idle"
      BY <2>2 DEF LastInv, Writing, Filling
    <2> QED BY <1>7, <2>1, <2>2 DEF GcDataDone
  <1>8. CASE IndexCluster
    <2>1. /\ job.head \in Sectors /\ IsFirst(job.head, job.todo) /\ job.len \in Nat
          /\ file' = [file EXCEPT !.cluster = job.head, !.length = job.len]
      BY <1>8, IndexClusterDoes
    <2>2. file'.cluster = job.head /\ file'.length = job.len
      BY <2>1 DEF File
    <2>3. pc = "index" /\ UNCHANGED next /\ mark[job.head] = "blank" /\ job.todo # {}
          /\ job.op \in {"override", "append"}
      BY <1>8, <2>1 DEF IndexCluster, IsFirst, OrderInv, WritingInv, TailInv, Busy, Filling
    <2>4. next[job.head] = Empty
      BY <2>1, <2>3 DEF OrderInv, TablesInv
    <2>5. pc' \in {"index_length", "mark"} /\ job'.todo = job.todo /\ job'.len = job.len
      BY <1>8, <2>3 DEF IndexCluster, WriteRest, Job
    <2>6. Reached(next', file'.cluster) = {job.head}
      BY <2>1, <2>2, <2>3, <2>4, ReachedOne
    <2>7. job.len \in 1 .. DataArea
      BY <2>1, <2>3, SizeAssumption DEF ShortInv, OrderInv, TailInv
    <2>8. (job.len - 1) % DataArea = job.len - 1
      BY <2>7, SizeAssumption
    <2>9. job.head \in job.todo
      BY <2>1 DEF IsFirst
    <2> QED BY <2>1, <2>2, <2>5, <2>6, <2>8, <2>9 DEF LastInv, Reach
  <1>9. CASE IndexLength
    <2>1. pc = "index_length" /\ UNCHANGED <<file, next>> /\ job.todo # {}
      BY <1>9 DEF IndexLength, OrderInv, WritingInv, Filling
    <2>2. pc' = "mark" /\ job'.todo = job.todo /\ job'.len = job.len
      BY <1>9, <2>1 DEF IndexLength, WriteRest, Job
    <2> QED BY <2>1, <2>2 DEF LastInv, Writing, Filling, Reach
  <1>10. CASE IndexLink
    <2>1. /\ job.tail \in Sectors /\ next[job.tail] = Empty /\ job.len \in Nat
          /\ job.head \in Sectors /\ IsFirst(job.head, job.todo)
          /\ next' = [next EXCEPT ![job.tail] = job.head]
          /\ file.length \in Nat /\ file.length + job.len \in Nat
          /\ file' = [file EXCEPT !.length = file.length + job.len]
      BY <1>10, IndexLinkDoes
    <2>2. file'.cluster = file.cluster /\ file'.length = file.length + job.len
      BY <2>1 DEF File
    <2>3. /\ pc = "index" /\ mark[job.head] = "blank" /\ job.todo # {} /\ mark[job.tail] = "inuse"
          /\ job.op = "append" /\ file.cluster # Empty
      BY <1>10, <2>1, IndexLinkDoes DEF IndexLink, IsFirst, OrderInv, WritingInv, Filling
    <2>4. next[job.head] = Empty /\ job.head # job.tail
      BY <2>1, <2>3 DEF OrderInv, TablesInv
    <2>5. pc' = "mark" /\ job'.todo = job.todo /\ job'.len = job.len
      BY <1>10, <2>3 DEF IndexLink, WriteRest, Job
    <2>6. /\ next[job.tail] \notin Sectors /\ next'[job.tail] = job.head /\ next'[job.head] \notin Sectors
          /\ \A t \in Sectors : t # job.tail => next'[t] = next[t]
      BY <2>1, <2>4
    <2>7. Reached(next', file.cluster) \subseteq Reached(next, file.cluster) \cup {job.head}
      <3>1. \A s \in Sectors, h \in Sectors :
              (/\ next[s] \notin Sectors /\ next'[s] = h /\ next'[h] \notin Sectors
               /\ \A t \in Sectors : t # s => next'[t] = next[t])
              => Reached(next', file.cluster) \subseteq Reached(next, file.cluster) \cup {h}
        BY ReachedEnd
      <3> QED BY <2>1, <2>6, <3>1
    <2>8. job.tail \in Reached(next, file.cluster)
      BY <2>3 DEF InChainInv, Reach
    <2>9. ASSUME NEW s \in Reached(next', file'.cluster), next'[s] = Empty PROVE s \in job'.todo
      <3>1. s = job.head \/ s \in Reached(next, file.cluster)
        BY <2>2, <2>7
      <3>2. CASE s = job.head
        BY <2>1, <2>5, <3>2 DEF IsFirst
      <3>3. CASE s # job.head /\ s \in Reached(next, file.cluster)
        <4>1. s \in Sectors /\ s # job.tail
          BY <2>1, <2>6, <2>9, <3>3, ReachedIsClosed
        <4>2. next[s] \notin Sectors
          BY <2>6, <2>9, <4>1
        <4>3. s = job.tail
          BY <2>6, <2>8, <3>3, <4>2, OneEnd
        <4> QED BY <4>1, <4>3
      <3> QED BY <3>1, <3>2, <3>3
    <2>10. (file'.length - 1) % DataArea = job.len - 1
      <3>1. file.length % DataArea = 0
        BY <2>3 DEF LastInv
      <3>2. job.len \in 1 .. DataArea
        BY <2>1, <2>3, SizeAssumption DEF ShortInv, OrderInv, TailInv
      <3>3. (file.length + job.len - 1) % DataArea = 0 + job.len - 1
        BY <2>1, <3>1, <3>2, ModWithin
      <3>4. file'.length - 1 = file.length + job.len - 1
        BY <2>1, <2>2
      <3> QED BY <2>1, <3>3, <3>4
    <2> QED BY <2>1, <2>2, <2>5, <2>9, <2>10 DEF LastInv, Reach
  <1>11. CASE MarkSector
    BY <1>11 DEF MarkSector, LastInv, Writing, Filling, Reach
  <1>12. CASE WriteData
    <2>1. pc' = "idle"
      BY <1>12, CarefulData
    <2> QED BY <2>1 DEF LastInv, Writing, Filling
  <1>13. CASE LinkSector
    BY <1>13 DEF LinkSector, ShortInv
  <1>14. CASE UNCHANGED vars
    BY <1>14 DEF vars, LastInv, Writing, Filling, Reach
  <1> QED BY <1>1, <1>2, <1>3, <1>4, <1>5, <1>6, <1>7, <1>8, <1>9, <1>10, <1>11, <1>12, <1>13, <1>14, WriteSteps

LEMMA CarefulPart ==
  ASSUME BytesInv, CarefulStep
  PROVE  PartInv'
  <1> USE DEF flash, ftl, Reject, Goto, Return
  <1>a. OrderInv /\ TypeOK /\ TypeOK' /\ ShortInv /\ InChainInv /\ LastInv /\ PartInv /\ BusyFilled /\ OrderlyStep
    BY OrderlyTypes DEF BytesInv, OrderInv, CarefulStep
  <1> USE <1>a, SectorFacts DEF TypeOK
  <1>1. CASE IndexCluster
    <2>1. /\ job.head \in Sectors /\ IsFirst(job.head, job.todo) /\ job.len \in Nat
          /\ file' = [file EXCEPT !.cluster = job.head, !.length = job.len]
      BY <1>1, IndexClusterDoes
    <2>2. file'.cluster = job.head /\ file'.length = job.len
      BY <2>1 DEF File
    <2>3. pc = "index" /\ UNCHANGED <<next, data>> /\ mark[job.head] = "blank" /\ job.todo # {}
          /\ job.op \in {"override", "append"}
      BY <1>1, <2>1 DEF IndexCluster, IsFirst, OrderInv, WritingInv, TailInv, Busy, Filling
    <2>4. next[job.head] = Empty /\ job.head \in job.todo
      BY <2>1, <2>3 DEF OrderInv, TablesInv, IsFirst
    <2>5. job'.todo = job.todo
      BY <1>1, <2>3 DEF IndexCluster, WriteRest, Job
    <2>6. job.len \in 1 .. DataArea
      BY <2>1, <2>3, SizeAssumption DEF ShortInv, OrderInv, TailInv
    <2>7. Holds(next, data, job.head, job.len, job.todo)
      BY <2>1, <2>4, <2>6, HoldsFirst
    <2> QED BY <2>2, <2>3, <2>5, <2>7 DEF PartInv
  <1>2. CASE IndexLength
    <2>1. pc = "index_length" /\ UNCHANGED <<file, next, data>> /\ job.todo # {}
      BY <1>2 DEF IndexLength, OrderInv, WritingInv, Filling
    <2>2. job'.todo = job.todo
      BY <1>2, <2>1 DEF IndexLength, WriteRest, Job
    <2> QED BY <2>1, <2>2 DEF PartInv, Writing, Filling
  <1>3. CASE IndexLink
    <2>1. /\ job.tail \in Sectors /\ next[job.tail] = Empty /\ job.len \in Nat
          /\ job.head \in Sectors /\ IsFirst(job.head, job.todo)
          /\ next' = [next EXCEPT ![job.tail] = job.head]
          /\ file.length \in Nat /\ file.length + job.len \in Nat
          /\ file' = [file EXCEPT !.length = file.length + job.len]
      BY <1>3, IndexLinkDoes
    <2>2. file'.cluster = file.cluster /\ file'.length = file.length + job.len
      BY <2>1 DEF File
    <2>3. /\ pc = "index" /\ mark[job.head] = "blank" /\ job.todo # {} /\ mark[job.tail] = "inuse"
          /\ job.op = "append" /\ file.cluster # Empty /\ UNCHANGED data
      BY <1>3, <2>1, IndexLinkDoes DEF IndexLink, IsFirst, OrderInv, WritingInv, Filling
    <2>4. next[job.head] = Empty /\ job.head # job.tail /\ job.head \in job.todo
      BY <2>1, <2>3 DEF OrderInv, TablesInv, IsFirst
    <2>5. job'.todo = job.todo
      BY <1>3, <2>3 DEF IndexLink, WriteRest, Job
    <2>6. /\ next'[job.tail] = job.head /\ next'[job.head] = Empty
          /\ \A t \in Sectors : t # job.tail => next'[t] = next[t]
      BY <2>1, <2>4
    <2>7. job.tail \in Reached(next, file.cluster)
      BY <2>3 DEF InChainInv, Reach
    <2>8. file.length % DataArea = 0
      BY <2>3 DEF LastInv
    <2>9. job.len \in 1 .. DataArea
      BY <2>1, <2>3, SizeAssumption DEF ShortInv, OrderInv, TailInv
    <2>10. Attached
      BY <2>3 DEF OrderInv, HandleInv, Busy, Filling
    <2>11. Holds(next, data, file.cluster, file.length, {})
      BY <2>1, <2>3, <2>10 DEF BusyFilled, Busy, Writing, Filling, Filled
    <2>12. file.cluster \in Sectors
      BY <2>7, ReachedFromNone
    <2>13. \A s \in Reached(next, file.cluster), h \in Sectors, m \in 1 .. DataArea :
             /\ next[s] = Empty /\ next'[s] = h /\ next'[h] = Empty /\ h \in job.todo
             /\ \A t \in Sectors : t # s => next'[t] = next[t]
             => Holds(next', data, file.cluster, file.length + m, job.todo)
      <3> HIDE <1>a DEF TypeOK
      <3> DEFINE n == file.length
                 c == file.cluster
                 new == next'
                 but == job.todo
      <3>1. n \in Nat /\ n % DataArea = 0 /\ Holds(next, data, c, n, {}) /\ c \in Sectors
        BY <2>1, <2>8, <2>11, <2>12
      <3> HIDE DEF n, c, new, but
      <3> SUFFICES ASSUME NEW s \in Reached(next, c), NEW h \in Sectors, NEW m \in 1 .. DataArea,
                          next[s] = Empty, new[s] = h, new[h] = Empty, h \in but,
                          \A t \in Sectors : t # s => new[t] = next[t]
                   PROVE  Holds(new, data, c, n + m, but)
        BY DEF n, c, new, but
      <3> QED BY <3>1, HoldsLinked
    <2>14. Holds(next', data, file.cluster, file.length + job.len, job.todo)
      BY <2>1, <2>4, <2>6, <2>7, <2>9, <2>13
    <2> QED BY <2>2, <2>3, <2>5, <2>14 DEF PartInv
  <1>4. CASE MarkSector
    <2>1. pc = "mark" /\ UNCHANGED <<file, next, data, job>>
      BY <1>4 DEF MarkSector
    <2> QED BY <2>1 DEF PartInv, Writing, Filling
  <1>5. CASE WriteData
    <2>1. pc' = "idle"
      BY <1>5, CarefulData
    <2> QED BY <2>1 DEF PartInv, Writing, Filling
  <1>6. CASE LinkSector
    BY <1>6 DEF LinkSector, ShortInv
  <1>7. CASE Outside'
    BY <1>7 DEF Outside, PartInv, Writing, Filling
  <1>8. ASSUME NEW len \in Nat \ {0}, NEW method \in {"OVERRIDE", "APPEND"}, OrderlyWrite(len, method) PROVE PartInv'
    <2>1. pc' \notin {"index_length", "mark", "data", "link"}
      BY <1>8 DEF OrderlyWrite, WriteCall
    <2> QED BY <2>1 DEF PartInv, Writing, Filling
  <1>9. CASE Walk \/ AppendToTail \/ Allocate \/ GcDataErase \/ GcDataDone
    <2>1. pc' \notin {"index_length", "mark", "data", "link"}
      BY <1>9 DEF Walk, AppendToTail, Allocate, GcDataErase, GcDataDone, Take
    <2> QED BY <2>1 DEF PartInv, Writing, Filling
  <1>10. CASE UNCHANGED vars
    BY <1>10 DEF vars, PartInv, Writing, Filling
  <1> QED BY <1>1, <1>2, <1>3, <1>4, <1>5, <1>6, <1>7, <1>8, <1>9, <1>10, WriteSteps

LEMMA CarefulClobbers ==
  ASSUME BytesInv, CarefulStep
  PROVE  clobbered' = {}
  <1> USE DEF flash, ftl, Reject, Goto, Return
  <1>a. clobbered = {} /\ OrderlyStep
    BY DEF BytesInv, CarefulStep
  <1>1. CASE AppendToTail
    BY <1>a, <1>1, CarefulAppend DEF ProgramData
  <1>2. CASE WriteData
    <2>1. PICK s \in job.todo : data[s] = {} /\ \E S : ProgramData(s, S)
      BY <1>2, CarefulData
    <2> QED BY <1>a, <2>1 DEF ProgramData
  <1>3. CASE GcDataErase \/ FormatData
    BY <1>a, <1>3 DEF GcDataErase, FormatData, EraseSector
  <1>4. ASSUME NEW n \in Names, \/ \E ro \in BOOLEAN : CreateCall(n, ro)
                                \/ OpenCall(n) \/ OrderlyRename(n)
        PROVE  clobbered' = {}
    BY <1>a, <1>4 DEF CreateCall, CreateWith, OpenCall, OrderlyRename, RenameCall
  <1>5. ASSUME NEW len \in Nat \ {0}, NEW method \in {"OVERRIDE", "APPEND"}, OrderlyWrite(len, method)
        PROVE  clobbered' = {}
    BY <1>a, <1>5 DEF OrderlyWrite, WriteCall
  <1>6. CASE OrderlyFinish \/ OrderlyDelete \/ FormatCall \/ OrderlyCrash \/ HandOver \/ UNCHANGED vars
    BY <1>a, <1>6 DEF OrderlyFinish, FinishCall, OrderlyDelete, DeleteCall, FormatCall, OrderlyCrash, Crash,
                      HandOver, vars
  <1>7. CASE \/ CreateExists \/ CreateBlock \/ GcIndexErase \/ GcIndexRewrite \/ CreateNoSpace
             \/ DiscardSector \/ OverrideBlock \/ DeleteDone \/ Walk
    BY <1>a, <1>7 DEF CreateExists, CreateBlock, GcIndexErase, GcIndexRewrite, CreateNoSpace,
                      DiscardSector, OverrideBlock, DeleteDone, Walk
  <1>8. CASE \/ Allocate \/ GcDataDone \/ IndexCluster \/ IndexLength \/ IndexLink
             \/ MarkSector \/ LinkSector \/ FormatIndex
    BY <1>a, <1>8 DEF Allocate, GcDataDone, IndexCluster, IndexLength, IndexLink,
                      MarkSector, LinkSector, FormatIndex
  <1> QED BY <1>a, <1>1, <1>2, <1>3, <1>4, <1>5, <1>6, <1>7, <1>8 DEF OrderlyStep, Step

-----------------------------------------------------------------------------
(***************************************************************************)
(* What a file that is appended to keeps.                                  *)
(***************************************************************************)
\* Every byte of the file was programmed, whatever came behind them.
Has(links, bytes, c, length) ==
  /\ length \in Nat
  /\ \E p :
       /\ p[0] = c
       /\ \A i \in 0 .. SectorsFor(length) - 1 :
            p[i] \in Sectors /\ (i > 0 => p[i] = links[p[i - 1]])
       /\ \A i \in 0 .. length - 1 : i % DataArea \in bytes[p[i \div DataArea]]

LEMMA HoldsHas ==
  ASSUME NEW links, NEW bytes, NEW c, NEW length, Holds(links, bytes, c, length, {})
  PROVE  Has(links, bytes, c, length)
  <1> DEFINE n == SectorsFor(length)
  <1>1. length \in Nat
    BY DEF Holds
  <1>2. PICK p : /\ IsPath(links, c, p, n)
                 /\ \A i \in 0 .. length - 1 : p[i \div DataArea] \in {} \/ i % DataArea \in bytes[p[i \div DataArea]]
    BY DEF Holds
  <1>3. n \in Nat /\ p[0] = c /\ \A i \in 0 .. n - 1 : p[i] \in Sectors /\ links[p[i]] = p[i + 1]
    BY <1>2 DEF IsPath
  <1>4. ASSUME NEW i \in 0 .. n - 1, i > 0 PROVE p[i] = links[p[i - 1]]
    <2>1. i - 1 \in 0 .. n - 1 /\ (i - 1) + 1 = i
      BY <1>3, <1>4
    <2> QED BY <1>3, <2>1
  <1>5. \A i \in 0 .. length - 1 : i % DataArea \in bytes[p[i \div DataArea]]
    BY <1>2
  <1> HIDE DEF n
  <1> QED BY <1>1, <1>3, <1>4, <1>5 DEF Has, n

\* Its sectors are some of the chain.
LEMMA HasReached ==
  ASSUME NEW links, NEW c, NEW p, NEW n \in Nat, p[0] = c,
         \A i \in 0 .. n - 1 : p[i] \in Sectors /\ (i > 0 => p[i] = links[p[i - 1]])
  PROVE  \A i \in 0 .. n - 1 : p[i] \in Reached(links, c)
  <1> DEFINE T == {i \in 0 .. n - 1 : p[i] \notin Reached(links, c)}
  <1> SUFFICES ASSUME T # {} PROVE FALSE
    OBVIOUS
  <1>1. T \in SUBSET Nat
    OBVIOUS
  <1>2. PICK i \in T : IsFirst(i, T)
    BY <1>1, LeastNatural
  <1>3. i # 0
    BY <1>2, ReachedIsClosed
  <1>4. i - 1 \in 0 .. n - 1 /\ i - 1 \notin T /\ i \in 0 .. n - 1 /\ i > 0
    BY <1>2, <1>3 DEF IsFirst
  <1>5. p[i - 1] \in Reached(links, c) /\ p[i] = links[p[i - 1]] /\ p[i] \in Sectors
    BY <1>4
  <1>6. p[i] \in Reached(links, c)
    BY <1>5, ReachedIsClosed DEF Closed
  <1> QED BY <1>2, <1>6

\* A link once made stays, and a byte once programmed.
LEMMA HasMore ==
  ASSUME NEW links, NEW new, NEW bytes, NEW now, NEW c, NEW length,
         Has(links, bytes, c, length),
         \A t \in Reached(links, c) : (links[t] \in Sectors => new[t] = links[t]) /\ bytes[t] \subseteq now[t]
  PROVE  Has(new, now, c, length)
  <1> DEFINE n == SectorsFor(length)
  <1>1. length \in Nat /\ n \in Nat
    BY SectorsForType DEF Has
  <1>2. PICK p : /\ p[0] = c
                 /\ \A i \in 0 .. n - 1 : p[i] \in Sectors /\ (i > 0 => p[i] = links[p[i - 1]])
                 /\ \A i \in 0 .. length - 1 : i % DataArea \in bytes[p[i \div DataArea]]
    BY DEF Has
  <1>3. \A i \in 0 .. n - 1 : p[i] \in Reached(links, c)
    BY <1>1, <1>2, HasReached
  <1>4. ASSUME NEW i \in 0 .. n - 1, i > 0 PROVE p[i] = new[p[i - 1]]
    <2>1. i - 1 \in 0 .. n - 1
      BY <1>1, <1>4
    <2> QED BY <1>2, <1>3, <1>4, <2>1
  <1>5. ASSUME NEW i \in 0 .. length - 1 PROVE i % DataArea \in now[p[i \div DataArea]]
    <2>1. i \div DataArea \in 0 .. n - 1
      BY <1>1, SectorOfByte
    <2> QED BY <1>2, <1>3, <2>1
  <1> HIDE DEF n
  <1> QED BY <1>1, <1>2, <1>4, <1>5 DEF Has, n

\* The links from c lead to the sectors of the file.
LEMMA HasFollowed ==
  ASSUME TypeOK, NEW c, NEW p, NEW n \in Nat, n > 0, p[0] = c,
         \A i \in 0 .. n - 1 : p[i] \in Sectors /\ (i > 0 => p[i] = next[p[i - 1]])
  PROVE  \A i \in 0 .. n - 1 : NthSector(c, i) = p[i]
  <1> DEFINE T == {i \in Nat : i < n => NthSector(c, i) = p[i]}
  <1>1. 0 \in T
    BY NthSteps
  <1>2. ASSUME NEW i \in T PROVE i + 1 \in T
    <2> SUFFICES ASSUME i + 1 < n PROVE NthSector(c, i + 1) = p[i + 1]
      OBVIOUS
    <2>1. i \in 0 .. n - 1 /\ i + 1 \in 0 .. n - 1 /\ NthSector(c, i) = p[i] /\ i + 1 > 0 /\ (i + 1) - 1 = i
      OBVIOUS
    <2>2. p[i] \in Sectors /\ p[i + 1] = next[p[i]]
      BY <2>1
    <2> QED BY <2>1, <2>2, NthSteps DEF Follow
  <1>3. T = Nat
    <2> HIDE DEF T
    <2>1. T \in SUBSET Nat
      BY DEF T
    <2> QED BY <1>1, <1>2, <2>1, FromZeroOn
  <1> QED BY <1>3

\* A file that is there, in sectors in use, can be read back.
LEMMA HasIsLegible ==
  ASSUME TypeOK, clobbered = {}, NEW b, Has(next, data, b.cluster, b.length),
         \A s \in Reach(b.cluster) : mark[s] = "inuse"
  PROVE  Legible(b)
  <1> DEFINE n == SectorsFor(b.length)
  <1>1. b.length \in Nat /\ n \in Nat
    BY SectorsForType DEF Has
  <1>2. PICK p : /\ p[0] = b.cluster
                 /\ \A i \in 0 .. n - 1 : p[i] \in Sectors /\ (i > 0 => p[i] = next[p[i - 1]])
                 /\ \A i \in 0 .. b.length - 1 : i % DataArea \in data[p[i \div DataArea]]
    BY DEF Has
  <1>3. \A i \in 0 .. n - 1 : p[i] \in Reached(next, b.cluster)
    BY <1>1, <1>2, HasReached
  <1>f. ASSUME n > 0
        PROVE  \A i \in 0 .. n - 1 : NthSector(b.cluster, i) = p[i]
    <2> HIDE DEF n
    <2> QED BY <1>1, <1>2, <1>f, HasFollowed
  <1>4. ASSUME NEW i \in 0 .. b.length - 1
        PROVE  /\ ReadByte(b.cluster, i)[1] \in Sectors \ clobbered
               /\ mark[ReadByte(b.cluster, i)[1]] = "inuse"
               /\ ReadByte(b.cluster, i)[2] \in data[ReadByte(b.cluster, i)[1]]
    <2>1. i \div DataArea \in 0 .. n - 1
      BY <1>1, SectorOfByte
    <2>2. NthSector(b.cluster, i \div DataArea) = p[i \div DataArea]
      BY <1>1, <1>f, <2>1
    <2>3. p[i \div DataArea] \in Sectors /\ p[i \div DataArea] \in Reach(b.cluster)
      BY <1>2, <1>3, <2>1 DEF Reach
    <2> QED BY <1>2, <2>2, <2>3 DEF ReadByte
  <1> QED BY <1>4 DEF Legible

\* One that is there and that nothing was left behind is filled.
LEMMA HasEnded ==
  ASSUME TypeOK, NEW b, b.length # Empty, Has(next, data, b.cluster, b.length), Ended(b)
  PROVE  Filled(next, data, b.cluster, b.length)
  <1> DEFINE n == SectorsFor(b.length)
             q == [i \in Nat |-> NthSector(b.cluster, i)]
  <1>1. b.length \in Nat /\ n \in Nat
    BY SectorsForType DEF Has
  <1>2. PICK p : /\ p[0] = b.cluster
                 /\ \A i \in 0 .. n - 1 : p[i] \in Sectors /\ (i > 0 => p[i] = next[p[i - 1]])
                 /\ \A i \in 0 .. b.length - 1 : i % DataArea \in data[p[i \div DataArea]]
    BY DEF Has
  <1>3. \A i \in 0 .. n - 1 : q[i] = p[i]
    BY <1>1, <1>2, HasFollowed
  <1>4. q[n] = Empty /\ q[0] = b.cluster
    BY <1>1, NthSteps DEF Ended
  <1>5. \A i \in 0 .. n - 1 : q[i] \in Sectors /\ next[q[i]] = q[i + 1]
    <2> SUFFICES ASSUME NEW i \in 0 .. n - 1 PROVE q[i] \in Sectors /\ next[q[i]] = q[i + 1]
      OBVIOUS
    <2>1. q[i] \in Sectors
      BY <1>2, <1>3
    <2>2. i \in Nat /\ NthSector(b.cluster, i + 1) = Follow(NthSector(b.cluster, i))
      BY <1>1, NthSteps
    <2> QED BY <2>1, <2>2 DEF Follow
  <1>6. \A i \in 0 .. b.length - 1 : i % DataArea \in data[q[i \div DataArea]]
    <2> SUFFICES ASSUME NEW i \in 0 .. b.length - 1 PROVE i % DataArea \in data[q[i \div DataArea]]
      OBVIOUS
    <2>1. i \div DataArea \in 0 .. n - 1
      BY <1>1, SectorOfByte
    <2> QED BY <1>2, <1>3, <2>1
  <1> HIDE DEF q
  <1>7. IsPath(next, b.cluster, q, n)
    BY <1>1, <1>4, <1>5 DEF IsPath
  <1>8. Holds(next, data, b.cluster, b.length, {})
    BY <1>1, <1>6, <1>7 DEF Holds
  <1> QED BY <1>8 DEF Filled, Ended, Reach

-----------------------------------------------------------------------------
(***************************************************************************)
(* What a write leaves.                                                    *)
(***************************************************************************)
\* The steps that change a link or a byte.
LEMMA FlashSteps ==
  ASSUME OrderlyStep
  PROVE  \/ UNCHANGED <<next, data>> \/ pc = "format"
         \/ AppendToTail \/ GcDataErase \/ IndexLink \/ WriteData \/ LinkSector
  <1> USE DEF flash, ftl, Reject, Goto, Return
  <1>1. ASSUME NEW n \in Names, NEW ro \in BOOLEAN, CreateCall(n, ro) PROVE UNCHANGED <<next, data>>
    BY <1>1 DEF CreateCall, CreateWith
  <1>2. ASSUME NEW n \in Names, OpenCall(n) \/ OrderlyRename(n) PROVE UNCHANGED <<next, data>>
    BY <1>2 DEF OpenCall, OrderlyRename, RenameCall
  <1>3. ASSUME NEW len \in Nat \ {0}, NEW method \in {"OVERRIDE", "APPEND"}, OrderlyWrite(len, method)
        PROVE  UNCHANGED <<next, data>>
    BY <1>3 DEF OrderlyWrite, WriteCall
  <1>4. CASE OrderlyFinish \/ OrderlyDelete \/ FormatCall \/ OrderlyCrash \/ HandOver \/ UNCHANGED vars
    BY <1>4 DEF OrderlyFinish, FinishCall, OrderlyDelete, DeleteCall, FormatCall, OrderlyCrash, Crash,
                HandOver, vars
  <1>5. CASE \/ CreateExists \/ CreateBlock \/ GcIndexErase \/ GcIndexRewrite \/ CreateNoSpace
             \/ DiscardSector \/ OverrideBlock \/ DeleteDone \/ Walk
    BY <1>5 DEF CreateExists, CreateBlock, GcIndexErase, GcIndexRewrite, CreateNoSpace,
                DiscardSector, OverrideBlock, DeleteDone, Walk
  <1>6. CASE Allocate \/ GcDataDone \/ IndexCluster \/ IndexLength \/ MarkSector
    BY <1>6 DEF Allocate, GcDataDone, IndexCluster, IndexLength, MarkSector
  <1>7. CASE FormatIndex \/ FormatData
    BY <1>7 DEF FormatIndex, FormatData
  <1> QED BY <1>1, <1>2, <1>3, <1>4, <1>5, <1>6, <1>7 DEF OrderlyStep, Step

\* The links and the bytes of a sector in use stay.
LEMMA FlashGrows ==
  ASSUME OrderInv, ShortInv, OrderlyStep, pc # "format", NEW s \in Sectors, Target(s)
  PROVE  (next[s] \in Sectors => next'[s] = next[s]) /\ data[s] \subseteq data'[s]
  <1>a. TypeOK /\ TablesInv
    BY DEF OrderInv
  <1> USE <1>a, SectorFacts DEF TypeOK
  <1>1. CASE AppendToTail
    <2>1. UNCHANGED next /\ \E S : ProgramData(job.tail, S)
      BY <1>1 DEF AppendToTail
    <2> QED BY <2>1 DEF ProgramData
  <1>2. CASE GcDataErase
    <2>1. PICK t \in erasable : EraseSector(t)
      BY <1>2 DEF GcDataErase
    <2>2. mark[t] = "discard" /\ mark[s] = "inuse"
      BY <1>2, <2>1 DEF GcDataErase, TablesInv, Target
    <2>3. s # t
      BY <2>2
    <2> QED BY <2>1, <2>3 DEF EraseSector
  <1>3. CASE IndexLink
    <2>1. next[job.tail] = Empty /\ next' = [next EXCEPT ![job.tail] = job.head] /\ UNCHANGED data
      BY <1>3, IndexLinkDoes DEF IndexLink
    <2> QED BY <2>1
  <1>4. CASE WriteData
    <2>1. UNCHANGED next /\ \E t, S : ProgramData(t, S)
      BY <1>4 DEF WriteData
    <2> QED BY <2>1 DEF ProgramData
  <1>5. CASE LinkSector
    BY <1>5 DEF LinkSector, ShortInv
  <1>6. CASE UNCHANGED <<next, data>>
    BY <1>6
  <1> QED BY <1>1, <1>2, <1>3, <1>4, <1>5, <1>6, FlashSteps

\* The steps of a write in progress.
LEMMA BusySteps ==
  ASSUME OrderlyStep, Busy
  PROVE  \/ UNCHANGED vars
         \/ Walk \/ AppendToTail \/ Allocate \/ GcDataErase \/ GcDataDone
         \/ IndexCluster \/ IndexLength \/ IndexLink \/ MarkSector \/ WriteData \/ LinkSector
  <1> USE DEF Busy, Filling
  <1>1. ASSUME NEW n \in Names, NEW ro \in BOOLEAN, CreateCall(n, ro) PROVE FALSE
    BY <1>1 DEF CreateCall, CreateWith
  <1>2. ASSUME NEW n \in Names, OpenCall(n) \/ OrderlyRename(n) PROVE FALSE
    BY <1>2 DEF OpenCall, OrderlyRename, RenameCall
  <1>3. ASSUME NEW len \in Nat \ {0}, NEW method \in {"OVERRIDE", "APPEND"}, OrderlyWrite(len, method)
        PROVE  FALSE
    BY <1>3 DEF OrderlyWrite, WriteCall
  <1>4. ~(OrderlyFinish \/ OrderlyDelete \/ FormatCall \/ OrderlyCrash \/ HandOver)
    BY DEF OrderlyFinish, FinishCall, OrderlyDelete, DeleteCall, FormatCall, OrderlyCrash, HandOver
  <1>5. ~(\/ CreateExists \/ CreateBlock \/ GcIndexErase \/ GcIndexRewrite \/ CreateNoSpace
          \/ DiscardSector \/ OverrideBlock \/ DeleteDone \/ FormatIndex \/ FormatData)
    BY DEF CreateExists, CreateBlock, GcIndexErase, GcIndexRewrite, CreateNoSpace,
           DiscardSector, OverrideBlock, DeleteDone, FormatIndex, FormatData
  <1> QED BY <1>1, <1>2, <1>3, <1>4, <1>5 DEF OrderlyStep, Step

\* A write leaves a filled file, as long as it has not linked a sector or when it
\* returns.
LEMMA BusyFills ==
  ASSUME BytesInv, CarefulStep, Busy, (Busy' /\ ~Writing') \/ pc' = "idle"
  PROVE  Filled(next', data', file'.cluster, file'.length)
  <1> USE DEF flash, ftl, Reject, Goto, Return
  <1>a. OrderInv /\ ShortInv /\ InChainInv /\ TypeOK /\ OrderlyStep /\ BusyFilled /\ TablesInv /\ WritingInv
    BY DEF BytesInv, OrderInv, CarefulStep
  <1>b. TypeOK'
    BY <1>a, OrderlyTypes
  <1> USE <1>a, <1>b, SectorFacts DEF TypeOK
  <1>1. CASE ~Writing /\ UNCHANGED <<next, data, file>>
    BY <1>1 DEF BusyFilled
  <1>2. CASE UNCHANGED vars
    BY <1>1, <1>2 DEF vars, Busy, Writing, Filling
  <1>3. CASE Walk \/ Allocate \/ GcDataDone
    BY <1>1, <1>3 DEF Walk, Allocate, Take, GcDataDone, Writing, Filling
  <1>4. CASE AppendToTail
    <2>1. PICK size \in Nat :
            /\ file.length \in Nat
            /\ file' = [file EXCEPT !.length = file.length + size]
            /\ data'[job.tail] \subseteq 0 .. ((file.length + size - 1) % DataArea)
            /\ Holds(next, data', file.cluster, file.length + size, {})
      BY <1>4, CarefulAppend
    <2>2. UNCHANGED next /\ pc = "partial" /\ file'.cluster = file.cluster /\ file'.length = file.length + size
      BY <1>4, <2>1 DEF AppendToTail, File
    <2>3. next[job.tail] = Empty /\ job.tail \in Reached(next, file.cluster) /\ job.tail \in Sectors
      BY <2>2 DEF OrderInv, TailInv, InChainInv, Reach
    <2>4. \A s \in Reached(next, file.cluster) : next[s] = Empty => s = job.tail
      BY <2>3, OneEnd
    <2>5. \A s \in Reached(next', file'.cluster) : next'[s] = Empty => s = job.tail
      BY <2>2, <2>4
    <2>6. data'[job.tail] \subseteq 0 .. ((file'.length - 1) % DataArea)
      <3>1. file'.length - 1 = file.length + size - 1
        BY <2>1, <2>2
      <3> QED BY <2>1, <3>1
    <2> QED BY <2>1, <2>2, <2>5, <2>6 DEF Filled
  <1>5. CASE GcDataErase
    <2>1. PICK s \in erasable : EraseSector(s)
      BY <1>5 DEF GcDataErase
    <2>2. pc = "gc_data" /\ UNCHANGED file
      BY <1>5 DEF GcDataErase
    <2>3. mark[s] = "discard" /\ s \in Sectors
      BY DEF TablesInv
    <2>4. \A t \in Reached(next, file.cluster) : t \in Sectors /\ mark[t] = "inuse"
      BY <2>2, OrderlyChain, OrderlyChains DEF Reach, Target
    <2>5. \A t \in Reached(next, file.cluster) : next'[t] = next[t] /\ data'[t] = data[t]
      BY <2>1, <2>3, <2>4 DEF EraseSector
    <2>6. Filled(next, data, file.cluster, file.length)
      BY <2>2 DEF BusyFilled, Writing, Filling
    <2> QED BY <2>2, <2>5, <2>6, FilledSame
  <1>6. CASE IndexCluster \/ IndexLength \/ IndexLink
    <2>1. job.todo # {}
      BY <1>6 DEF IndexCluster, IndexLength, IndexLink, WritingInv, Filling
    <2> QED BY <1>6, <2>1 DEF IndexCluster, IndexLength, IndexLink, WriteRest, Writing, Filling
  <1>7. CASE MarkSector
    BY <1>7 DEF MarkSector, Writing, Filling
  <1>8. CASE WriteData
    <2>1. PICK s \in job.todo :
            /\ s \in Sectors /\ data'[s] \subseteq 0 .. ((file.length - 1) % DataArea)
            /\ \A t \in Reach(file.cluster) : next[t] = Empty => t = s
            /\ Holds(next, data', file.cluster, file.length, {})
      BY <1>8, CarefulData
    <2>2. UNCHANGED <<file, next>>
      BY <1>8 DEF WriteData
    <2> QED BY <2>1, <2>2 DEF Filled, Reach
  <1>9. CASE LinkSector
    BY <1>9 DEF LinkSector, ShortInv
  <1> QED BY <1>2, <1>3, <1>4, <1>5, <1>6, <1>7, <1>8, <1>9, BusySteps

LEMMA CarefulFilled ==
  ASSUME BytesInv, CarefulStep
  PROVE  BusyFilled'
  <1> SUFFICES ASSUME Busy', ~Writing' PROVE Filled(next', data', file'.cluster, file'.length)
    BY DEF BusyFilled
  <1>a. OrderlyStep /\ OrderInv
    BY DEF CarefulStep, BytesInv
  <1>b. OrderInv'
    BY <1>a, OrderNext
  <1>1. CASE Busy
    BY <1>1, BusyFills
  <1>2. CASE Outside'
    <2>1. pc' = "alloc" /\ job'.op = "override"
      BY <1>2 DEF Outside, Busy, Filling
    <2>2. file'.cluster = Empty
      BY <1>b, <2>1 DEF OrderInv, TailInv
    <2>3. file'.length = Empty
      BY <1>b, <2>1, <2>2 DEF OrderInv, HandleInv
    <2> QED BY <2>2, <2>3, FilledNone, SectorFacts
  <1>3. CASE \E len \in Nat \ {0}, method \in {"OVERRIDE", "APPEND"} : OrderlyWrite(len, method)
    <2>1. UNCHANGED <<next, data, file>> /\ pc = "idle"
      BY <1>3 DEF OrderlyWrite, WriteCall, Reject, flash
    <2> QED BY <2>1 DEF CarefulStep
  <1>4. CASE UNCHANGED vars
    BY <1>1, <1>4 DEF vars, Busy, Filling
  <1>5. CASE ~Busy /\ \/ Walk \/ AppendToTail \/ Allocate \/ GcDataErase \/ GcDataDone
                      \/ IndexCluster \/ IndexLength \/ IndexLink \/ MarkSector \/ WriteData \/ LinkSector
    BY <1>5 DEF Walk, AppendToTail, Allocate, GcDataErase, GcDataDone, Busy, Filling,
              IndexCluster, IndexLength, IndexLink, MarkSector, WriteData, LinkSector
  <1> QED BY <1>a, <1>1, <1>2, <1>3, <1>4, <1>5, WriteSteps

LEMMA BytesNext == BytesInv /\ CarefulStep => BytesInv'
  <1> SUFFICES ASSUME BytesInv, CarefulStep PROVE BytesInv'
    OBVIOUS
  <1>1. OrderInv /\ ShortInv /\ InChainInv /\ OrderlyStep /\ BriefCall
    BY DEF BytesInv, CarefulStep
  <1> QED BY <1>1, OrderNext, OrderlyShort, OrderlyInChain, CarefulFilled, CarefulLast, CarefulPart, CarefulClobbers
          DEF BytesInv

\* The caller's File is the one its file block was opened as, and nothing is behind
\* the end of the file.
Ready ==
  /\ Known /\ Sized
  /\ file.block # Empty => Filled(next, data, file.cluster, file.length)

\* What write_file returns with.
LEMMA BusyReturns ==
  ASSUME BytesInv, CarefulStep, Busy, pc' = "idle"
  PROVE  /\ Ready'
         /\ file.block # Empty /\ file'.block = file.block /\ file'.name = file.name
         /\ ret' = "NO_SECTOR_SPACE" \/ file'.length \in Nat
  <1> USE DEF flash, ftl, Reject, Goto, Return
  <1>a. OrderInv /\ ShortInv /\ TypeOK /\ OrderlyStep /\ WritingInv /\ HandleInv
    BY DEF BytesInv, OrderInv, CarefulStep
  <1>b. TypeOK' /\ OrderInv'
    BY <1>a, OrderlyTypes, OrderNext
  <1>c. Filled(next', data', file'.cluster, file'.length)
    BY BusyFills
  <1>d. /\ Attached /\ file.block # Empty /\ fb[file.block].cluster = file.cluster
        /\ file.cluster = Empty <=> file.length = Empty
    BY <1>a DEF HandleInv, Attached
  <1>1. CASE AppendToTail
    <2>1. PICK size \in Nat : file.length \in Nat /\ file' = [file EXCEPT !.length = file.length + size]
      BY <1>1, CarefulAppend
    <2>2. UNCHANGED fb /\ file'.cluster = file.cluster /\ file'.length = file.length + size
          /\ file'.block = file.block /\ file'.name = file.name
      BY <1>a, <1>1, <2>1 DEF AppendToTail, File, TypeOK
    <2>3. Known'
      BY <1>d, <2>2 DEF Known, Attached
    <2>4. file'.length \in Nat /\ file'.length # Empty /\ file.length # Empty
      BY <2>1, <2>2, SectorFacts
    <2>5. Sized'
      BY <1>d, <2>2, <2>4 DEF Sized
    <2> QED BY <1>c, <1>d, <2>2, <2>3, <2>4, <2>5 DEF Ready
  <1>2. CASE UNCHANGED <<fb, file>>
    <2>1. Known' /\ Sized'
      BY <1>d, <1>2 DEF Known, Sized, Attached
    <2>2. Ready'
      BY <1>c, <2>1 DEF Ready
    <2>3. ret' = "NO_SECTOR_SPACE" \/ file'.length \in Nat
      <3>1. CASE WriteData
        BY <1>2, <3>1 DEF WriteData, BytesInv, LastInv, Writing, Filling
      <3>2. CASE GcDataDone
        BY <3>2 DEF GcDataDone, Take
      <3>3. CASE UNCHANGED vars \/ Walk \/ Allocate \/ GcDataErase \/ MarkSector
        BY <3>3 DEF vars, Busy, Filling, Walk, Allocate, Take, GcDataErase, MarkSector
      <3>4. CASE LinkSector
        BY <1>a, <3>4 DEF LinkSector, ShortInv
      <3>5. CASE IndexCluster \/ IndexLength \/ IndexLink
        <4>1. job.todo # {}
          BY <1>a, <3>5 DEF IndexCluster, IndexLength, IndexLink, WritingInv, Filling
        <4> QED BY <3>5, <4>1 DEF IndexCluster, IndexLength, IndexLink, WriteRest
      <3>6. CASE AppendToTail
        <4>1. PICK size \in Nat : file.length \in Nat
          BY <3>6, CarefulAppend
        <4> QED BY <1>2, <4>1
      <3> QED BY <1>a, <3>1, <3>2, <3>3, <3>4, <3>5, <3>6, BusySteps
    <2> QED BY <1>d, <1>2, <2>2, <2>3
  <1>3. CASE IndexCluster \/ IndexLength \/ IndexLink
    <2>1. job.todo # {}
      BY <1>a, <1>3 DEF IndexCluster, IndexLength, IndexLink, WritingInv, Filling
    <2> QED BY <1>3, <2>1 DEF IndexCluster, IndexLength, IndexLink, WriteRest
  <1>4. CASE UNCHANGED vars \/ Walk \/ Allocate \/ GcDataErase \/ GcDataDone \/ MarkSector \/ WriteData \/ LinkSector
    BY <1>2, <1>4 DEF vars, Walk, Allocate, GcDataErase, GcDataDone, MarkSector, WriteData, LinkSector
  <1> QED BY <1>a, <1>1, <1>3, <1>4, BusySteps

-----------------------------------------------------------------------------
(***************************************************************************)
(* Callers that give away only what is there.                              *)
(***************************************************************************)
ReadyWrite(len, method) == WriteCall(len, method) /\ Ready
ReadyFinish == FinishCall /\ Ready
WholeRename(n) ==
  /\ RenameCall(n) /\ Known
  /\ file.block # Empty /\ file.length # Empty => Has(next, data, file.cluster, file.length)

ContentStep ==
  \/ \E n \in Names, ro \in BOOLEAN : CreateCall(n, ro)
  \/ \E n \in Names : OpenCall(n) \/ WholeRename(n)
  \/ \E len \in 1 .. DataArea, method \in {"OVERRIDE", "APPEND"} : ReadyWrite(len, method)
  \/ ReadyFinish \/ OrderlyDelete \/ FormatCall \/ OrderlyCrash \/ HandOver
  \/ Step
  \/ UNCHANGED vars

LEMMA ContentIsCareful ==
  ASSUME TypeOK, ContentStep
  PROVE  CarefulStep
  <1> USE DEF flash, ftl, Reject, Goto, Return
  <1>a. DataArea \in Nat /\ DataArea >= 1
    BY SizeAssumption
  <1>1. ASSUME NEW n \in Names, NEW ro \in BOOLEAN, CreateCall(n, ro) PROVE CarefulStep
    <2>1. pc' = "create" /\ job'.len = 0
      BY <1>1 DEF CreateCall, CreateWith, NoJob
    <2>2. OrderlyStep
      BY <1>1 DEF OrderlyStep
    <2> QED BY <1>a, <2>1, <2>2 DEF CarefulStep, BriefCall, Busy, Filling
  <1>2. ASSUME NEW n \in Names, OpenCall(n) PROVE CarefulStep
    <2>1. pc' = "idle"
      BY <1>2 DEF OpenCall
    <2>2. OrderlyStep
      BY <1>2 DEF OrderlyStep
    <2> QED BY <1>a, <2>1, <2>2 DEF CarefulStep, BriefCall, Busy, Filling
  <1>3. ASSUME NEW n \in Names, WholeRename(n) PROVE CarefulStep
    <2>1. pc' = "idle" \/ (pc' = "create" /\ job'.len = 0)
      BY <1>3 DEF WholeRename, RenameCall, NoJob
    <2>2. OrderlyStep
      BY <1>3 DEF OrderlyStep, OrderlyRename, WholeRename
    <2> QED BY <1>a, <2>1, <2>2 DEF CarefulStep, BriefCall, Busy, Filling
  <1>4. ASSUME NEW len \in 1 .. DataArea, NEW method \in {"OVERRIDE", "APPEND"}, ReadyWrite(len, method)
        PROVE  CarefulStep
    <2>1. len \in Nat \ {0} /\ len <= DataArea
      BY <1>a
    <2>2. OrderlyStep
      BY <1>4, <2>1 DEF OrderlyStep, OrderlyWrite, ReadyWrite, Ready
    <2>3. pc = "idle"
      BY <1>4 DEF ReadyWrite, WriteCall
    <2>4. CASE pc' = "idle"
      BY <2>2, <2>4 DEF CarefulStep, BriefCall, Busy, Filling
    <2>5. CASE pc' # "idle"
      <3>1. file.block # Empty /\ job'.len = len
        BY <1>4, <2>3, <2>5 DEF ReadyWrite, WriteCall, NoJob
      <3>2. Filled(next, data, file.cluster, file.length)
        BY <1>4, <3>1 DEF ReadyWrite, Ready
      <3> QED BY <2>1, <2>2, <3>1, <3>2 DEF CarefulStep, BriefCall
    <2> QED BY <2>4, <2>5
  <1>5. CASE ReadyFinish
    <2>1. pc' = "idle" \/ (pc' = "create" /\ job'.len = 0)
      BY <1>5 DEF ReadyFinish, FinishCall, NoJob
    <2>2. OrderlyStep
      BY <1>5 DEF OrderlyStep, OrderlyFinish, ReadyFinish, Ready
    <2> QED BY <1>a, <2>1, <2>2 DEF CarefulStep, BriefCall, Busy, Filling
  <1>6. CASE OrderlyDelete \/ FormatCall
    <2>1. (pc' = "discard" \/ pc' = "format") /\ job'.len = 0
      BY <1>6 DEF OrderlyDelete, DeleteCall, FormatCall, NoJob
    <2>2. OrderlyStep
      BY <1>6 DEF OrderlyStep
    <2> QED BY <1>a, <2>1, <2>2 DEF CarefulStep, BriefCall, Busy, Filling
  <1>7. CASE OrderlyCrash \/ HandOver
    <2>1. pc' = "idle"
      BY <1>7 DEF OrderlyCrash, Crash, HandOver
    <2>2. OrderlyStep
      BY <1>7 DEF OrderlyStep
    <2> QED BY <1>a, <2>1, <2>2 DEF CarefulStep, BriefCall, Busy, Filling
  <1>8. CASE Step
    <2>1. pc # "idle"
      BY <1>8 DEF Step, CreateExists, CreateBlock, GcIndexErase, GcIndexRewrite, CreateNoSpace,
                  DiscardSector, OverrideBlock, DeleteDone, Walk, AppendToTail, Allocate, GcDataErase,
                  GcDataDone, IndexCluster, IndexLength, IndexLink, MarkSector, WriteData, LinkSector,
                  FormatIndex, FormatData
    <2>2. OrderlyStep
      BY <1>8 DEF OrderlyStep
    <2> QED BY <2>1, <2>2 DEF CarefulStep, BriefCall
  <1>9. CASE UNCHANGED vars
    <2>1. pc' = pc
      BY <1>9 DEF vars
    <2>2. OrderlyStep
      BY <1>9 DEF OrderlyStep
    <2> QED BY <2>1, <2>2 DEF CarefulStep, BriefCall, Busy, Filling
  <1> QED BY <1>1, <1>2, <1>3, <1>4, <1>5, <1>6, <1>7, <1>8, <1>9 DEF ContentStep

\* An override records the length before the data are there.
OverInv ==
  Writing /\ job.op = "override" =>
    /\ file.length = job.len
    /\ pc # "index_length" => fb[file.block].length = file.length

\* What create_file puts into a file block is there.
HandedInv ==
  pc \in {"create", "gc_rewrite"} =>
    /\ file.length # Empty => Has(next, data, file.cluster, file.length)
    /\ job.op = "finish" => Filled(next, data, file.cluster, file.length)
    /\ job.op = "create" => file.block = Empty

\* The file whose override is not done.
Overriding(k) == Writing /\ job.op = "override" /\ k = file.block

\* Every recorded byte is there.
KeptInv ==
  pc # "format" =>
    \A k \in Owners :
      Index[k].length # Empty /\ ~Overriding(k) => Has(next, data, Index[k].cluster, Index[k].length)

ContentInv == BytesInv /\ OverInv /\ HandedInv /\ KeptInv

LEMMA OverNext ==
  ASSUME ContentInv, ContentStep
  PROVE  OverInv'
  <1> USE DEF flash, ftl, Reject, Goto, Return
  <1>a. BytesInv /\ OrderInv /\ ShortInv /\ TypeOK /\ TailInv /\ WritingInv /\ OverInv
    BY DEF ContentInv, BytesInv, OrderInv
  <1>b. CarefulStep /\ OrderlyStep
    BY <1>a, ContentIsCareful DEF CarefulStep
  <1>c. TypeOK'
    BY <1>a, <1>b, OrderlyTypes
  <1> SUFFICES ASSUME Writing', job'.op = "override"
               PROVE  file'.length = job'.len /\ (pc' # "index_length" => fb'[file'.block].length = file'.length)
    BY DEF OverInv
  <1>1. CASE UNCHANGED vars
    BY <1>a, <1>1 DEF vars, OverInv, Writing, Filling
  <1>2. CASE Outside'
    BY <1>2 DEF Outside, Writing, Filling
  <1>3. CASE \E len \in Nat \ {0}, method \in {"OVERRIDE", "APPEND"} : OrderlyWrite(len, method)
    BY <1>3 DEF OrderlyWrite, WriteCall, Writing, Filling
  <1>4. CASE Walk \/ AppendToTail \/ Allocate \/ GcDataErase \/ GcDataDone
    BY <1>4 DEF Walk, AppendToTail, Allocate, GcDataErase, GcDataDone, Take, Writing, Filling
  <1>5. CASE IndexCluster
    <2>1. file' = [file EXCEPT !.cluster = job.head, !.length = job.len]
      BY <1>a, <1>5, IndexClusterDoes
    <2>2. job.todo # {} /\ job.todo \in SUBSET Sectors
      BY <1>a, <1>5 DEF IndexCluster, WritingInv, Filling, TypeOK, Job
    <2>3. job'.op = job.op /\ job'.len = job.len /\ (job.op = "override" => pc' = "index_length")
      BY <1>a, <1>5, <2>2 DEF IndexCluster, WriteRest, TypeOK, Job
    <2> QED BY <1>a, <2>1, <2>3 DEF TypeOK, File
  <1>6. CASE IndexLength
    <2>1. /\ file.block \in Slots
          /\ fb' = [fb EXCEPT ![file.block] = [fb[file.block] EXCEPT !.length = job.len]]
      BY <1>a, <1>6, IndexLengthDoes
    <2>2. job.todo # {}
      BY <1>a, <1>6 DEF IndexLength, WritingInv, Filling
    <2>3. job'.op = job.op /\ job'.len = job.len /\ UNCHANGED file /\ pc = "index_length"
      BY <1>a, <1>6, <2>2 DEF IndexLength, WriteRest, TypeOK, Job
    <2>4. file.length = job.len
      BY <1>a, <2>3 DEF OverInv, Writing, Filling
    <2>5. fb'[file.block].length = job.len
      BY <1>a, <2>1 DEF TypeOK, FileBlock
    <2> QED BY <2>3, <2>4, <2>5
  <1>7. CASE IndexLink
    <2>1. job.op = "append" /\ job.todo # {}
      BY <1>a, <1>7 DEF IndexLink, WritingInv, Filling
    <2>2. job'.op = job.op
      BY <1>a, <1>7, <2>1 DEF IndexLink, WriteRest, TypeOK, Job
    <2> QED BY <2>1, <2>2
  <1>8. CASE MarkSector
    <2>1. UNCHANGED <<fb, file, job>> /\ pc = "mark" /\ pc' = "data"
      BY <1>8 DEF MarkSector
    <2> QED BY <1>a, <2>1 DEF OverInv, Writing, Filling
  <1>9. CASE WriteData
    <2>1. pc' = "idle"
      BY <1>a, <1>9, CarefulData
    <2> QED BY <2>1 DEF Writing, Filling
  <1>10. CASE LinkSector
    BY <1>a, <1>10 DEF LinkSector, ShortInv
  <1> QED BY <1>b, <1>1, <1>2, <1>3, <1>4, <1>5, <1>6, <1>7, <1>8, <1>9, <1>10, WriteSteps

LEMMA FilledHas ==
  ASSUME NEW links, NEW bytes, NEW c, NEW length, length # Empty, Filled(links, bytes, c, length)
  PROVE  Has(links, bytes, c, length)
  BY HoldsHas DEF Filled

LEMMA HandedNext ==
  ASSUME ContentInv, ContentStep
  PROVE  HandedInv'
  <1> USE DEF flash, ftl, Reject, Goto, Return
  <1>a. BytesInv /\ OrderInv /\ TypeOK /\ HandedInv
    BY DEF ContentInv, BytesInv, OrderInv
  <1>b. TypeOK'
    BY <1>a, ContentIsCareful, OrderlyTypes DEF CarefulStep
  <1> USE <1>a, <1>b DEF TypeOK
  <1> SUFFICES ASSUME pc' \in {"create", "gc_rewrite"} PROVE HandedInv'
    BY DEF HandedInv
  <1>1. ASSUME NEW n \in Names, NEW ro \in BOOLEAN, CreateCall(n, ro) PROVE HandedInv'
    BY <1>1 DEF CreateCall, CreateWith, NoFile, NoJob, HandedInv
  <1>2. ASSUME NEW n \in Names, WholeRename(n) PROVE HandedInv'
    <2>1. /\ file.block # Empty /\ UNCHANGED <<next, data>> /\ file' = [file EXCEPT !.name = n]
          /\ job'.op = "rename"
      BY <1>2 DEF WholeRename, RenameCall, NoJob
    <2>2. file'.cluster = file.cluster /\ file'.length = file.length
      BY <2>1 DEF File
    <2> QED BY <1>2, <2>1, <2>2 DEF WholeRename, HandedInv
  <1>3. CASE ReadyFinish
    <2>1. UNCHANGED <<next, data, file>> /\ file.block # Empty /\ job'.op = "finish"
      BY <1>3 DEF ReadyFinish, FinishCall, NoJob
    <2>2. Filled(next, data, file.cluster, file.length)
      BY <1>3, <2>1 DEF ReadyFinish, Ready
    <2> QED BY <2>1, <2>2, FilledHas DEF HandedInv
  <1>4. CASE OverrideBlock
    <2>1. file'.length = Empty /\ job'.op = "override"
      BY <1>4 DEF OverrideBlock, File
    <2> QED BY <2>1 DEF HandedInv
  <1>5. CASE GcIndexErase \/ GcIndexRewrite
    <2>1. UNCHANGED <<next, data, file>> /\ pc \in {"create", "gc_rewrite"} /\ job'.op = job.op
      BY <1>5 DEF GcIndexErase, GcIndexRewrite, Job
    <2> QED BY <2>1 DEF HandedInv
  <1>6. CASE UNCHANGED vars
    BY <1>6 DEF vars, HandedInv
  <1>7. ASSUME NEW n \in Names, OpenCall(n) PROVE HandedInv'
    BY <1>7 DEF OpenCall
  <1>8. ASSUME NEW len \in 1 .. DataArea, NEW method \in {"OVERRIDE", "APPEND"}, ReadyWrite(len, method)
        PROVE  HandedInv'
    BY <1>8 DEF ReadyWrite, WriteCall
  <1>9. CASE OrderlyDelete \/ FormatCall \/ OrderlyCrash \/ HandOver
    BY <1>9 DEF OrderlyDelete, DeleteCall, FormatCall, OrderlyCrash, Crash, HandOver
  <1>10. CASE CreateExists \/ CreateBlock \/ CreateNoSpace \/ DiscardSector \/ DeleteDone
    BY <1>10 DEF CreateExists, CreateBlock, AfterCreate, CreateNoSpace, DiscardSector, DeleteDone
  <1>11. CASE Walk \/ AppendToTail \/ Allocate \/ GcDataErase \/ GcDataDone
    BY <1>11 DEF Walk, AppendToTail, Allocate, GcDataErase, GcDataDone, Take
  <1>12. CASE \/ IndexCluster \/ IndexLength \/ IndexLink \/ MarkSector \/ WriteData \/ LinkSector
              \/ FormatIndex \/ FormatData
    BY <1>12 DEF IndexCluster, IndexLength, IndexLink, MarkSector, WriteData, LinkSector, WriteRest,
                 FormatIndex, FormatData
  <1> QED BY <1>1, <1>2, <1>3, <1>4, <1>5, <1>6, <1>7, <1>8, <1>9, <1>10, <1>11, <1>12
          DEF ContentStep, Step

\* What is recorded stays there.
LEMMA HasStays ==
  ASSUME ContentInv, ContentStep, pc # "format", NEW k \in Owners, Index[k].length # Empty, ~Overriding(k)
  PROVE  Has(next', data', Index[k].cluster, Index[k].length)
  <1>1. OrderInv /\ ShortInv /\ OrderlyStep
    BY ContentIsCareful DEF ContentInv, BytesInv, OrderInv, CarefulStep
  <1>2. Has(next, data, Index[k].cluster, Index[k].length)
    BY DEF ContentInv, KeptInv
  <1>3. \A t \in Reached(next, Index[k].cluster) : t \in Sectors /\ Target(t)
    BY <1>1, OrderlyChains DEF Chain, Reach
  <1>4. \A t \in Reached(next, Index[k].cluster) :
          (next[t] \in Sectors => next'[t] = next[t]) /\ data[t] \subseteq data'[t]
    BY <1>1, <1>3, FlashGrows
  <1> QED BY <1>2, <1>4, HasMore

\* A file block that stays has an owner before the step.
LEMMA KeptIsOwned ==
  ASSUME OrderInv, OrderlyStep, NEW k \in Owners', k \in Live
  PROVE  k \in Owners
  <1> USE DEF flash, ftl, Reject, Goto, Return
  <1> SUFFICES ASSUME pc = "discard", k = file.block PROVE FALSE
    BY DEF Owners
  <1>a. TypeOK /\ k \in Live' /\ ~(pc' = "discard" /\ k = file'.block)
    BY DEF OrderInv, Owners
  <1>1. CASE DiscardSector
    BY <1>a, <1>1 DEF DiscardSector, TypeOK, File
  <1>2. CASE OverrideBlock
    <2>1. pc # "gc_rewrite" /\ pc' # "gc_rewrite" /\ MarkDeprecated(file.block)
      BY <1>2 DEF OverrideBlock
    <2> QED BY <1>a, <2>1, StateBitKeeps
  <1>3. CASE DeleteDone
    BY <1>3 DEF DeleteDone, OrderInv, DiscardInv
  <1>4. CASE UNCHANGED vars
    BY <1>a, <1>4 DEF vars
  <1>5. CASE \E n \in Names, ro \in BOOLEAN : CreateCall(n, ro)
    BY <1>5 DEF CreateCall, CreateWith
  <1>6. CASE \E n \in Names : OpenCall(n) \/ OrderlyRename(n)
    BY <1>6 DEF OpenCall, OrderlyRename, RenameCall
  <1>7. CASE \E len \in Nat \ {0}, method \in {"OVERRIDE", "APPEND"} : OrderlyWrite(len, method)
    BY <1>7 DEF OrderlyWrite, WriteCall
  <1>8. CASE OrderlyFinish \/ OrderlyDelete \/ FormatCall \/ OrderlyCrash \/ HandOver
    BY <1>8 DEF OrderlyFinish, FinishCall, OrderlyDelete, DeleteCall, FormatCall, OrderlyCrash, HandOver
  <1>9. CASE \/ CreateExists \/ CreateBlock \/ GcIndexErase \/ GcIndexRewrite \/ CreateNoSpace
             \/ Walk \/ AppendToTail \/ Allocate \/ GcDataErase \/ GcDataDone
    BY <1>9 DEF CreateExists, CreateBlock, GcIndexErase, GcIndexRewrite, CreateNoSpace,
                Walk, AppendToTail, Allocate, GcDataErase, GcDataDone
  <1>10. CASE \/ IndexCluster \/ IndexLength \/ IndexLink \/ MarkSector \/ WriteData \/ LinkSector
              \/ FormatIndex \/ FormatData
    BY <1>10 DEF IndexCluster, IndexLength, IndexLink, MarkSector, WriteData, LinkSector,
                 FormatIndex, FormatData
  <1> QED BY <1>1, <1>2, <1>3, <1>4, <1>5, <1>6, <1>7, <1>8, <1>9, <1>10 DEF OrderlyStep, Step

\* An override that is done has put all bytes in place.
LEMMA OverrideDone ==
  ASSUME ContentInv, ContentStep, NEW k, Overriding(k), ~Overriding(k)'
  PROVE  /\ k = file.block
         /\ Has(next', data', fb[k].cluster, fb[k].length)
  <1> USE DEF flash, ftl, Reject, Goto, Return
  <1>a. BytesInv /\ OrderInv /\ TypeOK /\ OverInv /\ OrderlyStep /\ WritingInv /\ ShortInv /\ TailInv /\ HandleInv
    BY ContentIsCareful DEF ContentInv, BytesInv, OrderInv, CarefulStep
  <1>b. Busy /\ Writing /\ job.op = "override" /\ k = file.block
    BY DEF Overriding, Writing, Busy
  <1>1. CASE WriteData
    <2>1. PICK s \in job.todo : Holds(next, data', file.cluster, file.length, {})
      BY <1>1, <1>a, CarefulData
    <2>2. UNCHANGED next /\ pc = "data"
      BY <1>1 DEF WriteData
    <2>3. fb[k].cluster = file.cluster /\ fb[k].length = file.length
      BY <1>a, <1>b, <2>2 DEF OverInv, HandleInv
    <2> QED BY <1>b, <2>1, <2>2, <2>3, HoldsHas
  <1>2. CASE UNCHANGED vars
    BY <1>b, <1>2 DEF vars, Overriding, Writing, Filling
  <1>3. CASE MarkSector
    BY <1>b, <1>3 DEF MarkSector, Overriding, Writing, Filling
  <1>4. CASE IndexLength
    <2>1. job.todo # {}
      BY <1>a, <1>4 DEF IndexLength, WritingInv, Filling
    <2> QED BY <1>a, <1>b, <1>4, <2>1 DEF IndexLength, WriteRest, Overriding, Writing, Filling, TypeOK, Job
  <1>5. CASE LinkSector
    BY <1>a, <1>5 DEF LinkSector, ShortInv
  <1>6. CASE Walk \/ AppendToTail \/ Allocate \/ GcDataErase \/ GcDataDone \/ IndexCluster \/ IndexLink
    BY <1>b, <1>6 DEF Walk, AppendToTail, Allocate, GcDataErase, GcDataDone, IndexCluster, IndexLink,
                      Writing, Filling
  <1> QED BY <1>a, <1>b, <1>1, <1>2, <1>3, <1>4, <1>5, <1>6, BusySteps

LEMMA KeptNext ==
  ASSUME ContentInv, ContentStep
  PROVE  KeptInv'
  <1> USE DEF flash, ftl, Reject, Goto, Return
  <1>a. BytesInv /\ OrderInv /\ TypeOK /\ OrderlyStep /\ HandleInv /\ BlocksInv
    BY ContentIsCareful DEF ContentInv, BytesInv, OrderInv, CarefulStep
  <1>b. TypeOK' /\ OrderInv'
    BY <1>a, OrderlyTypes, OrderNext
  <1> SUFFICES ASSUME pc' # "format", NEW k \in Owners', Index'[k].length # Empty, ~Overriding(k)'
               PROVE  Has(next', data', Index'[k].cluster, Index'[k].length)
    BY DEF KeptInv
  <1>c. k \in Live' /\ k \in Slots
    BY DEF Owners, Live
  \* The block was there before.
  <1>1. CASE pc # "format" /\ k \in Live /\ Index'[k] = Index[k]
    <2>1. k \in Owners
      BY <1>a, <1>1, KeptIsOwned
    <2>2. CASE ~Overriding(k)
      BY <1>1, <2>1, <2>2, HasStays
    <2>3. CASE Overriding(k)
      <3>1. Has(next', data', fb[k].cluster, fb[k].length)
        BY <2>3, OverrideDone
      <3>2. Index[k] = fb[k]
        BY <1>c, <2>3, IndexIsFlash DEF Overriding, Writing, Filling
      <3> QED BY <1>1, <3>1, <3>2
    <2> QED BY <2>2, <2>3
  <1>2. CASE pc = "format"
    <2>1. CASE FormatData
      <3>1. \A j \in Slots : fb'[j] = BlankBlock
        BY <1>a, <2>1 DEF FormatData, OrderInv, FormatInv
      <3>2. Index'[k] = fb'[k]
        BY <1>c, <2>1, IndexIsFlashNext DEF FormatData
      <3> QED BY <1>c, <3>1, <3>2 DEF BlankBlock
    <2>2. pc' = "format" \/ FormatData
      <3>1. CASE Step
        BY <1>2, <3>1 DEF Step, CreateExists, CreateBlock, GcIndexErase, GcIndexRewrite, CreateNoSpace,
                  DiscardSector, OverrideBlock, DeleteDone, Walk, AppendToTail, Allocate, GcDataErase,
                  GcDataDone, IndexCluster, IndexLength, IndexLink, MarkSector, WriteData, LinkSector, FormatIndex
      <3>2. CASE UNCHANGED vars
        BY <1>2, <3>2 DEF vars
      <3>3. CASE \E n \in Names, ro \in BOOLEAN : CreateCall(n, ro)
        BY <1>2, <3>3 DEF CreateCall, CreateWith
      <3>4. CASE \E n \in Names : OpenCall(n) \/ OrderlyRename(n)
        BY <1>2, <3>4 DEF OpenCall, OrderlyRename, RenameCall
      <3>5. CASE \E len \in Nat \ {0}, method \in {"OVERRIDE", "APPEND"} : OrderlyWrite(len, method)
        BY <1>2, <3>5 DEF OrderlyWrite, WriteCall
      <3>6. CASE OrderlyFinish \/ OrderlyDelete \/ FormatCall \/ OrderlyCrash \/ HandOver
        BY <1>2, <3>6 DEF OrderlyFinish, FinishCall, OrderlyDelete, DeleteCall, FormatCall, OrderlyCrash, HandOver
      <3> QED BY <1>a, <3>1, <3>2, <3>3, <3>4, <3>5, <3>6 DEF OrderlyStep
    <2> QED BY <2>1, <2>2
  <1>3. CASE ReadyFinish
    <2>1. CASE file.block = Empty
      <3>1. UNCHANGED fb /\ pc = "idle" /\ pc' = "idle"
        BY <1>3, <2>1 DEF ReadyFinish, FinishCall
      <3> QED BY <1>1, <1>c, <3>1, SameIndex
    <2>2. CASE file.block # Empty /\ fb[file.block].length = Empty
      <3>1. /\ Attached /\ file.block \in Slots
            /\ fb' = [fb EXCEPT ![file.block] = [fb[file.block] EXCEPT !.length = file.length]]
            /\ pc = "idle" /\ pc' = "idle" /\ UNCHANGED <<next, data>>
        BY <1>3, <1>a, <2>2, FinishDoes DEF ReadyFinish, Ready, OrderlyFinish
      <3>2. Index'[k] = fb'[k] /\ Index[k] = fb[k]
        BY <1>c, <3>1, IndexIsFlash, IndexIsFlashNext
      <3>3. CASE k = file.block
        <4>1. fb'[k].length = file.length /\ fb'[k].cluster = fb[k].cluster
          BY <1>a, <3>1, <3>3 DEF TypeOK, FileBlock
        <4>2. fb[k].cluster = file.cluster /\ Filled(next, data, file.cluster, file.length)
          BY <1>3, <2>2, <3>3 DEF ReadyFinish, Ready, Known
        <4> QED BY <3>1, <3>2, <4>1, <4>2, FilledHas
      <3>4. CASE k # file.block
        <4>1. fb'[k] = fb[k]
          BY <1>a, <1>c, <3>1, <3>4 DEF TypeOK
        <4>2. k \in Live
          BY <1>c, <3>2, <4>1 DEF Live
        <4> QED BY <1>1, <3>1, <3>2, <4>1, <4>2
      <3> QED BY <3>3, <3>4
    <2>3. CASE file.block # Empty /\ fb[file.block].length # Empty
      <3>1. MarkDeprecated(file.block) /\ pc = "idle" /\ pc' = "create"
        BY <1>3, <2>3 DEF ReadyFinish, FinishCall
      <3>2. KeepsBlocks
        BY <1>a, <3>1, StateBitKeeps
      <3> QED BY <1>1, <1>c, <3>1, <3>2 DEF KeepsBlocks
    <2> QED BY <2>1, <2>2, <2>3
  <1>4. CASE CreateBlock
    <2>1. PICK b \in Slots :
            /\ fb' = [fb EXCEPT ![b] = [name |-> file.name, cluster |-> file.cluster,
                                        length |-> file.length, info |-> job.info]]
            /\ file' = [file EXCEPT !.block = b]
      BY <1>a, <1>4, CreateDoes
    <2>2. pc = "create" /\ pc' # "gc_rewrite" /\ UNCHANGED <<next, data>>
      BY <1>4 DEF CreateBlock, AfterCreate
    <2>3. Index'[k] = fb'[k] /\ Index[k] = fb[k]
      BY <1>c, <2>2, IndexIsFlash, IndexIsFlashNext
    <2>4. CASE k = b
      <3>1. fb'[k].cluster = file.cluster /\ fb'[k].length = file.length
        BY <1>a, <2>1, <2>4 DEF TypeOK
      <3> QED BY <2>2, <2>3, <3>1 DEF ContentInv, HandedInv
    <2>5. CASE k # b
      <3>1. fb'[k] = fb[k]
        BY <1>a, <1>c, <2>1, <2>5 DEF TypeOK
      <3>2. k \in Live
        BY <1>c, <2>3, <3>1 DEF Live
      <3> QED BY <1>1, <2>2, <2>3, <3>1, <3>2
    <2> QED BY <2>4, <2>5
  <1>5. CASE IndexCluster
    <2>1. /\ Attached /\ file.block \in Slots /\ fb[file.block].cluster = Empty
          /\ fb' = [fb EXCEPT ![file.block] = [fb[file.block] EXCEPT !.cluster = job.head]]
      BY <1>a, <1>5, IndexClusterDoes
    <2>2. pc = "index" /\ pc' # "gc_rewrite"
      BY <1>5 DEF IndexCluster, WriteRest
    <2>3. Index'[k] = fb'[k] /\ Index[k] = fb[k]
      BY <1>c, <2>2, IndexIsFlash, IndexIsFlashNext
    <2>4. CASE k = file.block
      <3>1. k \in Live
        BY <1>a, <2>1, <2>2, <2>4, AttachedIs
      <3>2. fb[k].length = Empty
        BY <1>a, <2>1, <2>3, <2>4, <3>1 DEF BlocksInv
      <3>3. fb'[k].length = fb[k].length
        BY <1>a, <2>1, <2>4 DEF TypeOK, FileBlock
      <3> QED BY <2>3, <3>2, <3>3
    <2>5. CASE k # file.block
      <3>1. fb'[k] = fb[k]
        BY <1>a, <1>c, <2>1, <2>5 DEF TypeOK
      <3>2. k \in Live
        BY <1>c, <2>3, <3>1 DEF Live
      <3> QED BY <1>1, <2>2, <2>3, <3>1, <3>2
    <2> QED BY <2>4, <2>5
  <1>6. CASE IndexLength
    <2>1. /\ file.block \in Slots
          /\ fb' = [fb EXCEPT ![file.block] = [fb[file.block] EXCEPT !.length = job.len]]
      BY <1>a, <1>6, IndexLengthDoes
    <2>2. pc = "index_length" /\ job.todo # {}
      BY <1>a, <1>6 DEF IndexLength, OrderInv, WritingInv, Filling
    <2>3. pc' = "mark" /\ job'.op = "override" /\ UNCHANGED file
      BY <1>a, <1>6, <2>2 DEF IndexLength, WriteRest, OrderInv, TailInv, TypeOK, Job
    <2>4. k # file.block
      BY <2>3 DEF Overriding, Writing, Filling
    <2>5. Index'[k] = fb'[k] /\ Index[k] = fb[k]
      BY <1>c, <2>2, <2>3, IndexIsFlash, IndexIsFlashNext
    <2>6. fb'[k] = fb[k]
      BY <1>a, <1>c, <2>1, <2>4 DEF TypeOK
    <2>7. k \in Live
      BY <1>c, <2>5, <2>6 DEF Live
    <2> QED BY <1>1, <2>2, <2>5, <2>6, <2>7
  <1>7. CASE pc \notin {"idle", "format"} /\ ~CreateBlock /\ ~IndexCluster /\ ~IndexLength
    <2>1. ~OrderlyFinish
      BY <1>7 DEF OrderlyFinish, FinishCall
    <2>2. KeepsBlocks
      BY <1>a, <1>7, <2>1, OrderlyBlocks
    <2> QED BY <1>1, <1>7, <1>c, <2>2 DEF KeepsBlocks
  <1>8. CASE pc = "idle" /\ ~ReadyFinish
    <2>1. CASE UNCHANGED fb /\ pc' # "gc_rewrite"
      BY <1>1, <1>8, <1>c, <2>1, SameIndex
    <2>2. CASE (MarkDeprecated(file.block) \/ MarkDeleted(file.block)) /\ pc' # "gc_rewrite"
      <3>1. KeepsBlocks
        BY <1>a, <1>8, <2>2, StateBitKeeps
      <3> QED BY <1>1, <1>8, <1>c, <3>1 DEF KeepsBlocks
    <2>3. CASE \E n \in Names, ro \in BOOLEAN : CreateCall(n, ro)
      BY <2>1, <2>3 DEF CreateCall, CreateWith
    <2>4. CASE \E n \in Names : OpenCall(n)
      BY <1>8, <2>1, <2>4 DEF OpenCall
    <2>5. CASE \E n \in Names : WholeRename(n)
      BY <1>8, <2>1, <2>2, <2>5 DEF WholeRename, RenameCall
    <2>6. CASE \E len \in 1 .. DataArea, method \in {"OVERRIDE", "APPEND"} : ReadyWrite(len, method)
      BY <1>8, <2>1, <2>6 DEF ReadyWrite, WriteCall
    <2>7. CASE OrderlyDelete
      BY <2>2, <2>7 DEF OrderlyDelete, DeleteCall
    <2>8. CASE FormatCall \/ OrderlyCrash \/ HandOver \/ UNCHANGED vars
      BY <1>8, <2>1, <2>8 DEF FormatCall, OrderlyCrash, Crash, HandOver, vars
    <2>9. ~Step
      BY <1>8 DEF Step, CreateExists, CreateBlock, GcIndexErase, GcIndexRewrite, CreateNoSpace,
                  DiscardSector, OverrideBlock, DeleteDone, Walk, AppendToTail, Allocate, GcDataErase,
                  GcDataDone, IndexCluster, IndexLength, IndexLink, MarkSector, WriteData, LinkSector,
                  FormatIndex, FormatData
    <2> QED BY <1>8, <2>3, <2>4, <2>5, <2>6, <2>7, <2>8, <2>9 DEF ContentStep
  <1> QED BY <1>2, <1>3, <1>4, <1>5, <1>6, <1>7, <1>8

LEMMA ContentNext == ContentInv /\ ContentStep => ContentInv'
  <1> SUFFICES ASSUME ContentInv, ContentStep PROVE ContentInv'
    OBVIOUS
  <1>1. BytesInv /\ CarefulStep
    BY ContentIsCareful DEF ContentInv, BytesInv, OrderInv
  <1> QED BY <1>1, BytesNext, OverNext, HandedNext, KeptNext DEF ContentInv

\* A file block that has the length and the sectors of a file that is there.
LEMMA KeptIsLegible ==
  ASSUME ContentInv, pc = "idle", NEW k \in Live, fb[k].length # Empty
  PROVE  Legible(fb[k])
  <1>1. TypeOK /\ OrderInv /\ clobbered = {} /\ KeptInv
    BY DEF ContentInv, BytesInv, OrderInv
  <1>2. Index[k] = fb[k] /\ k \in Owners /\ ~Overriding(k)
    BY IndexIsFlash DEF Owners, Live, Overriding, Writing, Filling
  <1>3. Has(next, data, fb[k].cluster, fb[k].length)
    BY <1>1, <1>2 DEF KeptInv
  <1>4. \A s \in Reach(fb[k].cluster) : mark[s] = "inuse"
    BY <1>1, <1>2, OrderlyChains DEF Chain, Target
  <1> QED BY <1>1, <1>3, <1>4, HasIsLegible

\* A file that is filled and recorded is whole.
LEMMA FilledIsWhole ==
  ASSUME ContentInv, pc = "idle", NEW k \in Live, fb[k].length # Empty,
         Filled(next, data, fb[k].cluster, fb[k].length)
  PROVE  Whole(fb[k])
  <1>1. TypeOK /\ OrderInv /\ clobbered = {}
    BY DEF ContentInv, BytesInv, OrderInv
  <1>2. Index[k] = fb[k] /\ k \in Owners
    BY IndexIsFlash DEF Owners, Live
  <1>3. \A s \in Reach(fb[k].cluster) : mark[s] = "inuse"
    BY <1>1, <1>2, OrderlyChains DEF Chain, Target
  <1>4. Holds(next, data, fb[k].cluster, fb[k].length, {})
    BY DEF Filled
  <1> QED BY <1>1, <1>3, <1>4, HoldingIsWhole

\* What is appended to a file nothing was left behind of comes right after its end.
LEMMA EndedIsFilled ==
  ASSUME ContentInv, pc = "idle", NEW k \in Live, fb[k].length # Empty => Ended(fb[k]),
         fb[k].length = Empty => fb[k].cluster = Empty
  PROVE  Filled(next, data, fb[k].cluster, fb[k].length)
  <1>1. TypeOK /\ KeptInv
    BY DEF ContentInv, BytesInv, OrderInv
  <1>2. Index[k] = fb[k] /\ k \in Owners /\ ~Overriding(k)
    BY IndexIsFlash DEF Owners, Live, Overriding, Writing, Filling
  <1>3. CASE fb[k].length = Empty
    BY <1>3, FilledNone, SectorFacts
  <1>4. CASE fb[k].length # Empty
    <2>1. Has(next, data, fb[k].cluster, fb[k].length)
      BY <1>1, <1>2, <1>4 DEF KeptInv
    <2> QED BY <1>1, <1>4, <2>1, HasEnded
  <1> QED BY <1>3, <1>4

LEMMA ContentInit == Init => ContentInv
  <1> SUFFICES ASSUME Init PROVE ContentInv
    OBVIOUS
  <1>1. ChainsInv
    BY ChainsInit
  <1>2. /\ pc = "idle" /\ job.op = "none" /\ clobbered = {} /\ file.block = Empty /\ file.cluster = Empty
        /\ \A k \in Slots : fb[k] = BlankBlock
    BY DEF Init, NoJob, NoFile, BlankTable
  <1>3. Live = {}
    BY <1>2, IndexIsFlash DEF Live, HasName, BlankBlock
  <1>4. HandleInv /\ BlocksInv
    BY <1>1, <1>2, <1>3 DEF ChainsInv, FileInv, HandleInv, BlocksInv, Busy, Filling
  <1>5. OrderInv
    BY <1>1, <1>4 DEF ChainsInv, OrderInv
  <1>6. ShortInv /\ InChainInv /\ LastInv /\ PartInv /\ BusyFilled /\ OverInv /\ HandedInv
    BY <1>2 DEF ShortInv, InChainInv, LastInv, PartInv, BusyFilled, OverInv, HandedInv, Busy, Writing, Filling
  <1>7. KeptInv
    BY <1>3 DEF KeptInv, Owners
  <1> QED BY <1>2, <1>5, <1>6, <1>7 DEF ContentInv, BytesInv

\* The file block of the caller's File is that of the file, as it is recorded.
Copy ==
  /\ Attached
  /\ fb[file.block].cluster = file.cluster
  /\ fb[file.block].length = file.length

LEMMA OpenCopies ==
  ASSUME OrderInv, NEW n \in Names, OpenCall(n)
  PROVE  /\ Copy' /\ file'.name = n /\ pc = "idle" /\ UNCHANGED <<pc, fb, next, data>>
         /\ file'.block \in Named(n) /\ file'.block \in Live
         /\ fb[file'.block].cluster = file'.cluster /\ fb[file'.block].length = file'.length
  <1>1. PICK k \in Named(n) : file' = [name |-> n, block |-> k, cluster |-> fb[k].cluster,
                                          length |-> fb[k].length]
    BY DEF OpenCall
  <1>2. pc = "idle" /\ UNCHANGED <<pc, fb, next, data>>
    BY DEF OpenCall, flash
  <1>3. k \in Slots /\ IsOpen(fb[k]) /\ fb[k].name = n /\ Index[k] = fb[k]
    BY <1>2, IndexIsFlash DEF Named
  <1>4. k # Empty /\ n # NoName
    BY <1>3, EmptyNotSlot, ValueAssumption
  <1>5. k \in Live
    BY <1>3, <1>4 DEF Live, HasName
  <1>6. Copy'
    BY <1>1, <1>2, <1>3, <1>4 DEF Copy, Attached
  <1> QED BY <1>1, <1>2, <1>5, <1>6

\* A file opened to be appended to is ready for it.
LEMMA OpenReady ==
  ASSUME ContentInv, NEW n \in Names, OpenCall(n),
         \A k \in Named(n) : fb[k].length # Empty \/ fb[k].cluster = Empty,
         \A k \in Named(n) : fb[k].length # Empty => Ended(fb[k])
  PROVE  Ready'
  <1>1. OrderInv /\ BlocksInv
    BY DEF ContentInv, BytesInv, OrderInv
  <1> DEFINE k == file'.block
  <1>2. /\ Copy' /\ pc = "idle" /\ UNCHANGED <<fb, next, data>> /\ k \in Named(n) /\ k \in Live
        /\ fb[k].cluster = file'.cluster /\ fb[k].length = file'.length
    BY <1>1, OpenCopies
  <1>3. Index[k] = fb[k]
    BY <1>2, IndexIsFlash DEF Live
  <1>4. fb[k].cluster = Empty <=> fb[k].length = Empty
    BY <1>1, <1>2, <1>3 DEF BlocksInv
  <1>5. Filled(next, data, fb[k].cluster, fb[k].length)
    BY <1>2, <1>4, EndedIsFilled
  <1>6. Known'
    BY <1>2 DEF Copy, Known
  <1>7. Sized'
    BY <1>2, <1>4 DEF Sized
  <1>8. Filled(next', data', file'.cluster, file'.length)
    BY <1>2, <1>5
  <1> QED BY <1>6, <1>7, <1>8 DEF Ready

\* What create_file returns with.
LEMMA CreateReturns ==
  ASSUME ContentInv, ContentStep, pc = "create", pc' = "idle"
  PROVE  /\ file'.name = file.name /\ file'.cluster = file.cluster /\ file'.length = file.length
         /\ job.op = "create" =>
              /\ Ready' /\ file.cluster = Empty
              /\ ret' # "CREATE_FILE_SUCCESS" => file'.block = Empty
         /\ job.op = "finish" /\ ret' = "APPEND_FILE_FINISH" =>
              Copy' /\ Filled(next', data', file'.cluster, file'.length)
  <1> USE DEF flash, ftl, Reject, Goto, Return
  <1>a. OrderInv /\ TypeOK /\ HandedInv /\ CreateInv /\ HandleInv /\ OrderlyStep
    BY ContentIsCareful DEF ContentInv, BytesInv, OrderInv, CarefulStep
  <1>b. file.name \in Names /\ (job.op = "create" => file.cluster = Empty /\ file.length = Empty /\ file.block = Empty)
    BY <1>a DEF CreateInv, HandleInv, HandedInv
  <1>1. CASE CreateBlock
    <2>1. PICK k \in Slots :
            /\ fb' = [fb EXCEPT ![k] = [name |-> file.name, cluster |-> file.cluster,
                                        length |-> file.length, info |-> job.info]]
            /\ file' = [file EXCEPT !.block = k]
            /\ IsOpen(fb'[k])
      BY <1>a, <1>1, CreateDoes
    <2>2. /\ file'.name = file.name /\ file'.cluster = file.cluster /\ file'.length = file.length
          /\ file'.block = k /\ k # Empty /\ UNCHANGED <<next, data>>
      BY <1>a, <1>1, <2>1, EmptyNotSlot DEF TypeOK, File, CreateBlock
    <2>3. fb'[k].name = file.name /\ fb'[k].cluster = file.cluster /\ fb'[k].length = file.length
      BY <1>a, <2>1 DEF TypeOK
    <2>4. Copy'
      BY <2>1, <2>2, <2>3 DEF Copy, Attached
    <2>5. Known'
      BY <2>4 DEF Copy, Known
    <2>6. job.op = "create" => Ready'
      BY <1>b, <2>2, <2>5, FilledNone, SectorFacts DEF Ready, Sized
    <2>7. job.op = "finish" => Filled(next', data', file'.cluster, file'.length)
      BY <1>a, <2>2 DEF HandedInv
    <2>8. job.op = "create" => ret' = "CREATE_FILE_SUCCESS"
      BY <1>1 DEF CreateBlock, AfterCreate
    <2> QED BY <1>b, <2>2, <2>4, <2>6, <2>7, <2>8
  <1>2. CASE CreateExists \/ CreateNoSpace
    <2>1. UNCHANGED <<fb, file, next, data>>
      BY <1>2 DEF CreateExists, CreateNoSpace
    <2>2. job.op = "create" => Ready'
      BY <1>b, <2>1 DEF Ready, Known, Sized
    <2>3. ~(job.op = "finish" /\ ret' = "APPEND_FILE_FINISH")
      BY <1>2 DEF CreateExists, CreateNoSpace, AfterCreate
    <2> QED BY <1>b, <2>1, <2>2, <2>3
  <1>3. CreateBlock \/ CreateExists \/ CreateNoSpace
    <2>1. CASE Step
      BY <2>1 DEF Step, GcIndexErase, GcIndexRewrite,
                  DiscardSector, OverrideBlock, DeleteDone, Walk, AppendToTail, Allocate, GcDataErase,
                  GcDataDone, IndexCluster, IndexLength, IndexLink, MarkSector, WriteData, LinkSector,
                  FormatIndex, FormatData
    <2>2. CASE UNCHANGED vars
      BY <2>2 DEF vars
    <2>3. CASE \E n \in Names, ro \in BOOLEAN : CreateCall(n, ro)
      BY <2>3 DEF CreateCall, CreateWith
    <2>4. CASE \E n \in Names : OpenCall(n) \/ WholeRename(n)
      BY <2>4 DEF OpenCall, WholeRename, RenameCall
    <2>5. CASE \E len \in 1 .. DataArea, method \in {"OVERRIDE", "APPEND"} : ReadyWrite(len, method)
      BY <2>5 DEF ReadyWrite, WriteCall
    <2>6. CASE ReadyFinish \/ OrderlyDelete \/ FormatCall \/ OrderlyCrash \/ HandOver
      BY <2>6 DEF ReadyFinish, FinishCall, OrderlyDelete, DeleteCall, FormatCall, OrderlyCrash, HandOver
    <2> QED BY <2>1, <2>2, <2>3, <2>4, <2>5, <2>6 DEF ContentStep
  <1> QED BY <1>1, <1>2, <1>3

\* write_finish that fills in the length.
LEMMA FinishCopies ==
  ASSUME ContentInv, ReadyFinish, pc' = "idle"
  PROVE  /\ UNCHANGED file
         /\ ret' = "APPEND_FILE_FINISH" => Copy' /\ Filled(next', data', file'.cluster, file'.length)
  <1> USE DEF flash, ftl, Reject, Goto, Return
  <1>a. OrderInv /\ TypeOK
    BY DEF ContentInv, BytesInv, OrderInv
  <1>1. UNCHANGED file
    BY DEF ReadyFinish, FinishCall
  <1>2. ASSUME ret' = "APPEND_FILE_FINISH" PROVE Copy' /\ Filled(next', data', file'.cluster, file'.length)
    <2>1. file.block # Empty /\ fb[file.block].length = Empty
      BY <1>2 DEF ReadyFinish, FinishCall
    <2>2. Ready /\ OrderlyFinish
      BY DEF ReadyFinish, OrderlyFinish, Ready
    <2>3. /\ Attached /\ file.block \in Slots
          /\ fb' = [fb EXCEPT ![file.block] = [fb[file.block] EXCEPT !.length = file.length]]
          /\ UNCHANGED <<next, data>>
      BY <1>a, <2>1, <2>2, FinishDoes
    <2>4. /\ fb'[file.block].name = fb[file.block].name /\ fb'[file.block].info = fb[file.block].info
          /\ fb'[file.block].cluster = fb[file.block].cluster /\ fb'[file.block].length = file.length
      BY <1>a, <2>3 DEF TypeOK, FileBlock
    <2>5. fb[file.block].cluster = file.cluster /\ Filled(next, data, file.cluster, file.length)
      BY <2>1, <2>2 DEF Ready, Known
    <2> QED BY <1>1, <2>1, <2>3, <2>4, <2>5 DEF Copy, Attached, IsOpen
  <1> QED BY <1>1, <1>2

\* The steps of create_file keep the name of the File.
LEMMA CreateKeeps ==
  ASSUME TypeOK, Step, pc \in {"create", "gc_rewrite"}
  PROVE  file'.name = file.name /\ (pc' = "idle" => pc = "create")
  <1>1. CASE CreateExists \/ GcIndexErase \/ GcIndexRewrite \/ CreateNoSpace
    BY <1>1 DEF CreateExists, GcIndexErase, GcIndexRewrite, CreateNoSpace, Goto
  <1>2. CASE CreateBlock
    BY <1>2 DEF CreateBlock, TypeOK, File
  <1>3. ~(\/ DiscardSector \/ OverrideBlock \/ DeleteDone \/ Walk \/ AppendToTail \/ Allocate \/ GcDataErase
          \/ GcDataDone \/ IndexCluster \/ IndexLength \/ IndexLink \/ MarkSector \/ WriteData \/ LinkSector
          \/ FormatIndex \/ FormatData)
    BY DEF DiscardSector, OverrideBlock, DeleteDone, Walk, AppendToTail, Allocate, GcDataErase,
           GcDataDone, IndexCluster, IndexLength, IndexLink, MarkSector, WriteData, LinkSector,
           FormatIndex, FormatData
  <1> QED BY <1>1, <1>2, <1>3 DEF Step

\* So do those of a write.
LEMMA BusyKeeps ==
  ASSUME TypeOK, Step, Busy
  PROVE  /\ file'.name = file.name /\ file'.block = file.block
         /\ pc' = "idle" \/ Busy'
  <1> USE DEF Goto, Return, Busy, Filling, TypeOK, File
  <1>1. CASE Walk \/ Allocate \/ GcDataErase \/ GcDataDone
    BY <1>1 DEF Walk, Allocate, GcDataErase, GcDataDone, Take
  <1>2. CASE AppendToTail
    BY <1>2 DEF AppendToTail
  <1>3. CASE IndexCluster
    BY <1>3 DEF IndexCluster, WriteRest
  <1>4. CASE IndexLink
    BY <1>4 DEF IndexLink, WriteRest
  <1>5. CASE IndexLength \/ MarkSector \/ WriteData \/ LinkSector
    BY <1>5 DEF IndexLength, MarkSector, WriteData, LinkSector, WriteRest
  <1>6. ~(\/ CreateExists \/ CreateBlock \/ GcIndexErase \/ GcIndexRewrite \/ CreateNoSpace
          \/ DiscardSector \/ OverrideBlock \/ DeleteDone \/ FormatIndex \/ FormatData)
    BY DEF CreateExists, CreateBlock, GcIndexErase, GcIndexRewrite, CreateNoSpace,
           DiscardSector, OverrideBlock, DeleteDone, FormatIndex, FormatData
  <1> QED BY <1>1, <1>2, <1>3, <1>4, <1>5, <1>6 DEF Step

LEMMA FileIsSettled ==
  ASSUME OrderInv, pc = "idle"
  PROVE  /\ Settled(file)
         /\ \A n \in Names : Settled([file EXCEPT !.name = n]) /\ Settled([NoFile EXCEPT !.name = n])
         /\ Settled(NoFile)
  <1>1. /\ file \in File /\ (file.block # Empty => file.name \in Names)
        /\ Garbled \notin {file.cluster, file.length} /\ (file.cluster = Empty => file.length = Empty)
    BY DEF OrderInv, TypeOK, HandleInv, WordsInv
  <1>2. Settled(file) /\ \A n \in Names : Settled([file EXCEPT !.name = n])
    BY <1>1 DEF Settled, File
  <1>3. Garbled # Empty
    BY SectorFacts
  <1>4. NoFile \in File
    BY BlankTypes
  <1>5. Settled(NoFile) /\ \A n \in Names : Settled([NoFile EXCEPT !.name = n])
    BY <1>3, <1>4 DEF Settled, NoFile, File
  <1> QED BY <1>2, <1>5

\* A file that is open can be renamed.
LEMMA CopyIsWhole ==
  ASSUME ContentInv, Copy, pc = "idle"
  PROVE  Known /\ (file.length # Empty => Has(next, data, file.cluster, file.length))
  <1>1. OrderInv /\ KeptInv
    BY DEF ContentInv, BytesInv
  <1>2. file.block \in Live
    BY <1>1, AttachedIs DEF Copy
  <1>3. Index[file.block] = fb[file.block] /\ file.block \in Owners /\ ~Overriding(file.block)
    BY <1>2, IndexIsFlash DEF Owners, Live, Overriding, Writing, Filling
  <1> QED BY <1>1, <1>3 DEF Copy, Known, KeptInv
=============================================================================
