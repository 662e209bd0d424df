------------------------- MODULE SpifsStore_proofs -------------------------
(***************************************************************************)
(* Proofs about what the flash file system holds and promises: write_finish*)
(* finds a slot for the file block it replaces, no sector is lost and the  *)
(* free ones are counted right, no byte is programmed twice, every finished*)
(* file is read and listed whole, and the file system implements FileStore.*)
(* Beside the rules of Spifs_proofs all but the first ask callers not to   *)
(* write more than a sector at a time (network/udp_handler.c writes a      *)
(* packet, fixed_file.c a record); the count of sectors and the refinement *)
(* also ask them not to rename to the name of another file.                *)
(***************************************************************************)
EXTENDS Spifs_proofs, SpifsStore, SequenceTheorems

ShortWrites == \A len \in WriteLens : len <= DataArea

-----------------------------------------------------------------------------
(***************************************************************************)
(* A slot for write_finish.                                                *)
(***************************************************************************)
\* write_finish, or rename_file to a name no other file has, has marked its file
\* block and makes a new one.
Replacing == job.op = "finish" \/ (job.op = "rename" /\ "new_name" \in Contract)

\* The name is free, and so is a slot or one that spifs_gc can reclaim.
RoomInv ==
  /\ Replacing => pc \in {"create", "gc_rewrite"}
  /\ Replacing => \A k \in Live : Index[k].name # file.name
  /\ Replacing /\ pc = "create" => Unnamed # {} \/ Garbage # {}
  /\ pc = "gc_rewrite" => \E k \in Slots : SlotSector[k] \in job.fbs /\ gcbuf[k] = BlankBlock

FinishInv == ChainsInv /\ UniqueNames /\ RoomInv

LEMMA RoomNext ==
  ASSUME CallersKeepRules, FinishInv, [Next]_vars
  PROVE  RoomInv'
  <1> USE DEF flash, ftl, Reject, Goto, Return
  <1>a. ChainsInv /\ UniqueNames /\ RoomInv /\ TypeOK /\ TypeOK'
    BY TypeNext DEF FinishInv, ChainsInv
  <1> USE <1>a, SectorFacts DEF TypeOK

  <1>1. ASSUME NEW n \in Names, NEW ro \in ReadOnly, CreateCall(n, ro) PROVE RoomInv'
    <2>1. pc' # "gc_rewrite" /\ (UNCHANGED job \/ job'.op \notin {"finish", "rename"} \/ job'.op = job.op)
      BY <1>1 DEF CreateCall, CreateWith, NoJob, Job
    <2>2. pc \notin {"create", "gc_rewrite"} \/ job'.op \notin {"finish", "rename"}
      BY <1>1 DEF CreateCall, CreateWith, NoJob, Job
    <2> QED BY <2>1, <2>2 DEF RoomInv, Replacing
  <1>2. ASSUME NEW n \in Names, OpenCall(n) PROVE RoomInv'
    <2>1. pc' # "gc_rewrite" /\ (UNCHANGED job \/ job'.op \notin {"finish", "rename"} \/ job'.op = job.op)
      BY <1>2 DEF OpenCall, NoJob, Job
    <2>2. pc \notin {"create", "gc_rewrite"} \/ job'.op \notin {"finish", "rename"}
      BY <1>2 DEF OpenCall, NoJob, Job
    <2> QED BY <2>1, <2>2 DEF RoomInv, Replacing
  <1>3. ASSUME NEW len \in WriteLens, NEW method \in Methods, WriteCall(len, method) PROVE RoomInv'
    <2>1. pc = "idle" /\ (UNCHANGED <<pc, job>> \/ job'.op \in {"override", "append"}) /\ pc' # "gc_rewrite"
      BY <1>3, ValueAssumption DEF WriteCall, NoJob
    <2> QED BY <2>1 DEF RoomInv, Replacing
  <1>4. CASE FinishCall
    <2>1. CASE UNCHANGED <<pc, job>>
      BY <1>4, <2>1 DEF FinishCall, RoomInv, Replacing
    <2>2. CASE pc' = "idle" /\ job' = NoJob
      BY <2>2 DEF NoJob, RoomInv, Replacing
    <2>3. CASE pc' = "create"
      <3>1. /\ MayUse /\ file.block # Empty /\ MarkDeprecated(file.block)
            /\ pc = "idle" /\ UNCHANGED file
        BY <1>4, <2>3 DEF FinishCall
      <3>2. Attached
        BY <3>1, CallerIsAttached
      <3>3. file.block \in Slots /\ HasName(fb[file.block]) /\ file.block \in Live
        BY <3>1, <3>2, AttachedFacts
      <3>4. KeepsBlocks /\ file.block \notin Live'
        BY <2>3, <3>1, StateBitKeeps
      <3>5. Index[file.block].name = file.name
        BY <3>1, <3>2, <3>3, IndexIsFlash DEF Attached
      <3>6. \A k \in Live' : Index'[k].name # file'.name
        BY <3>1, <3>3, <3>4, <3>5 DEF KeepsBlocks, UniqueNames
      <3>7. file.block \in Garbage'
        <4>1. fb[file.block] \in FileBlock
          BY <3>3
        <4>2. fb'[file.block] = [fb[file.block] EXCEPT !.info = [@ EXCEPT !.dep = TRUE]]
          BY <3>1, <3>3 DEF MarkDeprecated
        <4>3. fb'[file.block].name = fb[file.block].name /\ fb'[file.block].info.dep
          BY <4>1, <4>2 DEF FileBlock, FileInfo
        <4> QED BY <3>3, <4>3 DEF Garbage, HasName, IsOpen
      <3> QED BY <2>3, <3>6, <3>7 DEF RoomInv, Replacing
    <2> QED BY <1>4, <2>1, <2>2, <2>3 DEF FinishCall
  <1>5. ASSUME NEW n \in Names, RenameCall(n) PROVE RoomInv'
    <2>1. CASE UNCHANGED <<pc, job>>
      BY <1>5, <2>1 DEF RenameCall, RoomInv, Replacing
    <2>2. CASE pc' = "create" /\ "new_name" \in Contract
      <3>1. /\ MayUse /\ Named(n) \subseteq {file.block} /\ file.block # Empty
            /\ MarkDeprecated(file.block) /\ Unnamed # {}
            /\ pc = "idle" /\ file' = [file EXCEPT !.name = n]
        BY <1>5, <2>2 DEF RenameCall, MayRename
      <3>2. file.block \in Slots
        BY <3>1, CallerIsAttached, AttachedFacts
      <3>3. KeepsBlocks /\ file.block \notin Live'
        BY <2>2, <3>1, StateBitKeeps
      <3>4. \A k \in Live : Index[k].name = n => k = file.block
        BY <3>1, IndexIsFlash DEF Live, Named
      <3>5. file'.name = n
        BY <3>1 DEF File
      <3>6. \A k \in Live' : Index'[k].name # file'.name
        BY <3>3, <3>4, <3>5 DEF KeepsBlocks
      <3>7. Unnamed' # {}
        <4>1. \A k \in Slots : fb'[k].name = fb[k].name
          BY <3>1, <3>2 DEF MarkDeprecated, FileBlock
        <4> QED BY <3>1, <4>1 DEF Unnamed, HasName
      <3> QED BY <2>2, <3>6, <3>7 DEF RoomInv, Replacing
    <2>3. CASE pc' = "create" /\ "new_name" \notin Contract
      <3>1. job'.op = "rename"
        BY <1>5, <2>3 DEF RenameCall, NoJob
      <3> QED BY <2>3, <3>1 DEF RoomInv, Replacing
    <2> QED BY <1>5, <2>1, <2>2, <2>3 DEF RenameCall
  <1>6. CASE DeleteCall
    <2>1. pc' # "gc_rewrite" /\ (UNCHANGED job \/ job'.op \notin {"finish", "rename"} \/ job'.op = job.op)
      BY <1>6 DEF DeleteCall, NoJob, Job
    <2>2. pc \notin {"create", "gc_rewrite"} \/ job'.op \notin {"finish", "rename"}
      BY <1>6 DEF DeleteCall, NoJob, Job
    <2> QED BY <2>1, <2>2 DEF RoomInv, Replacing
  <1>7. CASE FormatCall
    <2>1. pc' # "gc_rewrite" /\ (UNCHANGED job \/ job'.op \notin {"finish", "rename"} \/ job'.op = job.op)
      BY <1>7 DEF FormatCall, NoJob, Job
    <2>2. pc \notin {"create", "gc_rewrite"} \/ job'.op \notin {"finish", "rename"}
      BY <1>7 DEF FormatCall, NoJob, Job
    <2> QED BY <2>1, <2>2 DEF RoomInv, Replacing
  <1>8. CASE CreateExists
    <2>1. pc' # "gc_rewrite" /\ (UNCHANGED job \/ job'.op \notin {"finish", "rename"} \/ job'.op = job.op)
      BY <1>8 DEF CreateExists, AfterCreate, NoJob, Job
    <2>2. pc \notin {"create", "gc_rewrite"} \/ job'.op \notin {"finish", "rename"}
      BY <1>8 DEF CreateExists, AfterCreate, NoJob, Job
    <2> QED BY <2>1, <2>2 DEF RoomInv, Replacing
  <1>9. CASE CreateBlock
    <2>1. pc' # "gc_rewrite" /\ job'.op \notin {"finish", "rename"}
      BY <1>9 DEF CreateBlock, AfterCreate, NoJob
    <2> QED BY <2>1 DEF RoomInv, Replacing
  <1>10. CASE GcIndexErase
    <2>1. PICK k \in Slots :
            /\ k \in Garbage
            /\ gcbuf' = [j \in Slots |->
                           IF SlotSector[j] = SlotSector[k] /\ j \notin Garbage
                           THEN fb[j] ELSE BlankBlock]
            /\ job' = [job EXCEPT !.fbs = {SlotSector[k]}]
      BY <1>10 DEF GcIndexErase, Garbage
    <2>2. /\ job'.fbs = {SlotSector[k]} /\ job'.op = job.op /\ UNCHANGED file
          /\ pc = "create" /\ pc' = "gc_rewrite"
      BY <1>10, <2>1 DEF GcIndexErase, Job
    <2>3. gcbuf'[k] = BlankBlock
      BY <2>1
    <2>4. KeepsBlocks
      BY <1>10, <2>2, BlocksStay DEF FinishCall, CreateBlock, AfterCreate, IndexCluster, IndexLength
    <2> QED BY <2>2, <2>3, <2>4 DEF RoomInv, Replacing, KeepsBlocks
  <1>11. CASE GcIndexRewrite
    <2>1. /\ pc = "gc_rewrite" /\ pc' = "create" /\ UNCHANGED file
          /\ fb' = [k \in Slots |-> IF SlotSector[k] \in job.fbs THEN gcbuf[k] ELSE fb[k]]
          /\ job'.op = job.op
      BY <1>11 DEF GcIndexRewrite, Job
    <2>2. PICK k \in Slots : fb'[k] = BlankBlock
      BY <2>1 DEF RoomInv
    <2>3. k \in Unnamed'
      BY <2>2 DEF Unnamed, HasName, BlankBlock
    <2>4. KeepsBlocks
      BY <1>11, <2>1, BlocksStay DEF FinishCall, CreateBlock, AfterCreate, IndexCluster, IndexLength
    <2> QED BY <2>1, <2>3, <2>4 DEF RoomInv, Replacing, KeepsBlocks
  <1>12. CASE CreateNoSpace
    <2>1. pc' # "gc_rewrite" /\ (UNCHANGED job \/ job'.op \notin {"finish", "rename"} \/ job'.op = job.op)
      BY <1>12 DEF CreateNoSpace, AfterCreate, NoJob, Job
    <2>2. pc \notin {"create", "gc_rewrite"} \/ job'.op \notin {"finish", "rename"}
      BY <1>12 DEF CreateNoSpace, AfterCreate, NoJob, Job
    <2> QED BY <2>1, <2>2 DEF RoomInv, Replacing
  <1>13. CASE DiscardSector
    <2>1. pc' # "gc_rewrite" /\ (UNCHANGED job \/ job'.op \notin {"finish", "rename"} \/ job'.op = job.op)
      BY <1>13 DEF DiscardSector, NoJob, Job
    <2>2. pc \notin {"create", "gc_rewrite"} \/ job'.op \notin {"finish", "rename"}
      BY <1>13 DEF DiscardSector, NoJob, Job
    <2> QED BY <2>1, <2>2 DEF RoomInv, Replacing
  <1>14. CASE OverrideBlock
    <2>1. pc' = "create" /\ UNCHANGED job /\ job.op = "override"
      BY <1>14 DEF OverrideBlock
    <2> QED BY <2>1 DEF RoomInv, Replacing
  <1>15. CASE DeleteDone
    <2>1. pc' # "gc_rewrite" /\ (UNCHANGED job \/ job'.op \notin {"finish", "rename"} \/ job'.op = job.op)
      BY <1>15 DEF DeleteDone, NoJob, Job
    <2>2. pc \notin {"create", "gc_rewrite"} \/ job'.op \notin {"finish", "rename"}
      BY <1>15 DEF DeleteDone, NoJob, Job
    <2> QED BY <2>1, <2>2 DEF RoomInv, Replacing
  <1>16. CASE Walk
    <2>1. pc' # "gc_rewrite" /\ (UNCHANGED job \/ job'.op \notin {"finish", "rename"} \/ job'.op = job.op)
      BY <1>16 DEF Walk, NoJob, Job
    <2>2. pc \notin {"create", "gc_rewrite"} \/ job'.op \notin {"finish", "rename"}
      BY <1>16 DEF Walk, NoJob, Job
    <2> QED BY <2>1, <2>2 DEF RoomInv, Replacing
  <1>17. CASE AppendToTail
    <2>1. pc' # "gc_rewrite" /\ (UNCHANGED job \/ job'.op \notin {"finish", "rename"} \/ job'.op = job.op)
      BY <1>17 DEF AppendToTail, NoJob, Job
    <2>2. pc \notin {"create", "gc_rewrite"} \/ job'.op \notin {"finish", "rename"}
      BY <1>17 DEF AppendToTail, NoJob, Job
    <2> QED BY <2>1, <2>2 DEF RoomInv, Replacing
  <1>18. CASE Allocate
    <2>1. pc' # "gc_rewrite" /\ (UNCHANGED job \/ job'.op \notin {"finish", "rename"} \/ job'.op = job.op)
      BY <1>18 DEF Allocate, Take, NoJob, Job
    <2>2. pc \notin {"create", "gc_rewrite"} \/ job'.op \notin {"finish", "rename"}
      BY <1>18 DEF Allocate, Take, NoJob, Job
    <2> QED BY <2>1, <2>2 DEF RoomInv, Replacing
  <1>19. CASE GcDataErase
    <2>1. pc' # "gc_rewrite" /\ (UNCHANGED job \/ job'.op \notin {"finish", "rename"} \/ job'.op = job.op)
      BY <1>19 DEF GcDataErase, NoJob, Job
    <2>2. pc \notin {"create", "gc_rewrite"} \/ job'.op \notin {"finish", "rename"}
      BY <1>19 DEF GcDataErase, NoJob, Job
    <2> QED BY <2>1, <2>2 DEF RoomInv, Replacing
  <1>20. CASE GcDataDone
    <2>1. pc = "gc_data" /\ pc' # "gc_rewrite" /\ pc' # "create"
      BY <1>20 DEF GcDataDone, Take
    <2>2. job'.op = job.op \/ job'.op = "none"
      <3>1. CASE job' = NoJob
        BY <3>1 DEF NoJob
      <3>2. CASE Take(FirstN(writable, SectorsFor(job.len)))
        BY <3>2 DEF Take, Job
      <3> QED BY <1>20, <3>1, <3>2 DEF GcDataDone
    <2> QED BY <2>1, <2>2 DEF RoomInv, Replacing
  <1>21. CASE IndexCluster
    <2>1. pc' # "gc_rewrite" /\ (UNCHANGED job \/ job'.op \notin {"finish", "rename"} \/ job'.op = job.op)
      BY <1>21 DEF IndexCluster, WriteRest, NoJob, Job
    <2>2. pc \notin {"create", "gc_rewrite"} \/ job'.op \notin {"finish", "rename"}
      BY <1>21 DEF IndexCluster, WriteRest, NoJob, Job
    <2> QED BY <2>1, <2>2 DEF RoomInv, Replacing
  <1>22. CASE IndexLength
    <2>1. pc' # "gc_rewrite" /\ (UNCHANGED job \/ job'.op \notin {"finish", "rename"} \/ job'.op = job.op)
      BY <1>22 DEF IndexLength, WriteRest, NoJob, Job
    <2>2. pc \notin {"create", "gc_rewrite"} \/ job'.op \notin {"finish", "rename"}
      BY <1>22 DEF IndexLength, WriteRest, NoJob, Job
    <2> QED BY <2>1, <2>2 DEF RoomInv, Replacing
  <1>23. CASE IndexLink
    <2>1. pc' # "gc_rewrite" /\ (UNCHANGED job \/ job'.op \notin {"finish", "rename"} \/ job'.op = job.op)
      BY <1>23 DEF IndexLink, WriteRest, NoJob, Job
    <2>2. pc \notin {"create", "gc_rewrite"} \/ job'.op \notin {"finish", "rename"}
      BY <1>23 DEF IndexLink, WriteRest, NoJob, Job
    <2> QED BY <2>1, <2>2 DEF RoomInv, Replacing
  <1>24. CASE MarkSector
    <2>1. pc' # "gc_rewrite" /\ (UNCHANGED job \/ job'.op \notin {"finish", "rename"} \/ job'.op = job.op)
      BY <1>24 DEF MarkSector, NoJob, Job
    <2>2. pc \notin {"create", "gc_rewrite"} \/ job'.op \notin {"finish", "rename"}
      BY <1>24 DEF MarkSector, NoJob, Job
    <2> QED BY <2>1, <2>2 DEF RoomInv, Replacing
  <1>25. CASE WriteData
    <2>1. pc' # "gc_rewrite" /\ (UNCHANGED job \/ job'.op \notin {"finish", "rename"} \/ job'.op = job.op)
      BY <1>25 DEF WriteData, WriteRest, NoJob, Job
    <2>2. pc \notin {"create", "gc_rewrite"} \/ job'.op \notin {"finish", "rename"}
      BY <1>25 DEF WriteData, WriteRest, NoJob, Job
    <2> QED BY <2>1, <2>2 DEF RoomInv, Replacing
  <1>26. CASE LinkSector
    <2>1. pc' # "gc_rewrite" /\ (UNCHANGED job \/ job'.op \notin {"finish", "rename"} \/ job'.op = job.op)
      BY <1>26 DEF LinkSector, WriteRest, NoJob, Job
    <2>2. pc \notin {"create", "gc_rewrite"} \/ job'.op \notin {"finish", "rename"}
      BY <1>26 DEF LinkSector, WriteRest, NoJob, Job
    <2> QED BY <2>1, <2>2 DEF RoomInv, Replacing
  <1>27. CASE FormatIndex
    <2>1. pc' # "gc_rewrite" /\ (UNCHANGED job \/ job'.op \notin {"finish", "rename"} \/ job'.op = job.op)
      BY <1>27 DEF FormatIndex, NoJob, Job
    <2>2. pc \notin {"create", "gc_rewrite"} \/ job'.op \notin {"finish", "rename"}
      BY <1>27 DEF FormatIndex, NoJob, Job
    <2> QED BY <2>1, <2>2 DEF RoomInv, Replacing
  <1>28. CASE FormatData
    <2>1. pc' # "gc_rewrite" /\ (UNCHANGED job \/ job'.op \notin {"finish", "rename"} \/ job'.op = job.op)
      BY <1>28 DEF FormatData, NoJob, Job
    <2>2. pc \notin {"create", "gc_rewrite"} \/ job'.op \notin {"finish", "rename"}
      BY <1>28 DEF FormatData, NoJob, Job
    <2> QED BY <2>1, <2>2 DEF RoomInv, Replacing
  <1>29. CASE Crash
    <2>1. pc' # "gc_rewrite" /\ (UNCHANGED job \/ job'.op \notin {"finish", "rename"} \/ job'.op = job.op)
      BY <1>29 DEF Crash, NoJob, Job
    <2>2. pc \notin {"create", "gc_rewrite"} \/ job'.op \notin {"finish", "rename"}
      BY <1>29 DEF Crash, NoJob, Job
    <2> QED BY <2>1, <2>2 DEF RoomInv, Replacing
  <1>30. CASE UNCHANGED vars
    BY <1>30 DEF vars, RoomInv, Replacing, Live, Index, Unnamed, Garbage
  <1> QED
    BY <1>1, <1>2, <1>3, <1>4, <1>5, <1>6, <1>7, <1>8, <1>9, <1>10, <1>11, <1>12,
       <1>13, <1>14, <1>15, <1>16, <1>17, <1>18, <1>19, <1>20, <1>21, <1>22, <1>23,
       <1>24, <1>25, <1>26, <1>27, <1>28, <1>29, <1>30
    DEF Next, Call, Step


LEMMA FinishInit == Init => FinishInv
  <1> SUFFICES ASSUME Init PROVE FinishInv
    OBVIOUS
  <1>1. job.op = "none" /\ pc = "idle"
    BY DEF Init, NoJob
  <1> QED BY <1>1, ChainsInit, NamesInit DEF FinishInv, NamesInv, RoomInv, Replacing

LEMMA FinishNext == CallersKeepRules /\ FinishInv /\ [Next]_vars => FinishInv'
  BY ChainsNext, NamesNext, RoomNext DEF FinishInv, NamesInv, ChainsInv

\* A call that replaces a file block makes the new one.
LEMMA ReplacingSucceeds ==
  ASSUME FinishInv, Replacing
  PROVE  ~CreateExists /\ ~CreateNoSpace
  <1>1. /\ \A k \in Live : Index[k].name # file.name
        /\ pc = "create" => Unnamed # {} \/ Garbage # {}
    BY DEF FinishInv, RoomInv
  <1>2. ASSUME pc = "create", NEW k \in Named(file.name) PROVE FALSE
    <2>1. file.name \in Names
      BY <1>2 DEF FinishInv, ChainsInv, CreateInv
    <2>2. k \in Live /\ Index[k].name = file.name
      BY <1>2, <2>1, IndexIsFlash, ValueAssumption DEF Named, Live, HasName
    <2> QED BY <1>1, <2>2
  <1> QED BY <1>1, <1>2 DEF CreateExists, CreateNoSpace

\* The only step that returns from write_finish once its file block is marked.
LEMMA FinishReturns ==
  ASSUME CallersKeepRules, FinishInv, [Next]_vars, job.op = "finish", pc' = "idle"
  PROVE  ret' = "APPEND_FILE_FINISH"
  <1> USE DEF flash, ftl, Reject, Goto, Return
  <1>1. pc = "create" \/ pc = "gc_rewrite"
    BY DEF FinishInv, RoomInv, Replacing
  <1>3. CASE CreateBlock
    BY <1>3 DEF CreateBlock, AfterCreate
  <1>2. ~CreateExists /\ ~CreateNoSpace
    BY ReplacingSucceeds DEF Replacing
  <1>4. ~GcIndexErase /\ ~GcIndexRewrite /\ ~UNCHANGED vars
    BY <1>1 DEF GcIndexErase, GcIndexRewrite, vars
  <1>5. ~Call
    BY <1>1 DEF Call, CreateCall, CreateWith, OpenCall, RenameCall, WriteCall, FinishCall, DeleteCall, FormatCall
  <1>6. ~(\/ DiscardSector \/ OverrideBlock \/ DeleteDone \/ Walk \/ AppendToTail
          \/ Allocate \/ GcDataErase \/ GcDataDone \/ IndexCluster \/ IndexLength)
    BY <1>1 DEF DiscardSector, OverrideBlock, DeleteDone, Walk, AppendToTail,
                Allocate, GcDataErase, GcDataDone, IndexCluster, IndexLength
  <1>7. ~(\/ IndexLink \/ MarkSector \/ WriteData \/ LinkSector \/ FormatIndex
          \/ FormatData \/ Crash)
    BY <1>1 DEF IndexLink, MarkSector, WriteData, LinkSector, FormatIndex, FormatData, Crash,
                CallersKeepRules
  <1> QED BY <1>2, <1>3, <1>4, <1>5, <1>6, <1>7 DEF Next, Step

\* When callers keep the rules of CallersKeepRules, write_finish never fails for want
\* of a file block: the one it has marked can be reclaimed (spifs.c:346).
THEOREM FinishFindsRoom ==
  ASSUME CallersKeepRules
  PROVE  Spec => FinishSucceeds
  <1>1. FinishInv /\ [Next]_vars => FinishInv'
    BY FinishNext
  <1>2. FinishInv /\ [Next]_vars =>
          [job.op = "finish" /\ IsOpen([info |-> job.info]) /\ pc' = "idle" =>
             ret' = "APPEND_FILE_FINISH"]_vars
    BY FinishReturns
  <1> QED BY <1>1, <1>2, FinishInit, PTL DEF Spec, FinishSucceeds

-----------------------------------------------------------------------------
(***************************************************************************)
(* No sector is lost.                                                      *)
(***************************************************************************)
\* The tables have every sector that may be written or erased, but the one that is
\* about to be written.
TablesFull ==
  /\ \A s \in Sectors : mark[s] = "blank" => s \in writable \/ (Filling /\ s \in job.todo)
  /\ \A s \in Sectors : mark[s] = "discard" => s \in erasable

\* Where chains begin: the file blocks, and the chain the call holds.
Heads == {Index[k].cluster : k \in Owners} \cup (IF Holding THEN {file.cluster} ELSE {})

\* A sector in use is in a chain.
InUseInv ==
  pc # "format" => \A s \in Sectors : mark[s] = "inuse" => \E h \in Heads : s \in Reach(h)

SpaceInv == FinishInv /\ ShortInv /\ TablesFull /\ InUseInv /\ InChainInv

-----------------------------------------------------------------------------
(***************************************************************************)
(* How chains change.                                                      *)
(***************************************************************************)
LEMMA ChainsInUse ==
  ASSUME ChainsInv, pc # "format"
  PROVE  /\ \A k \in Owners : Chain(k) \subseteq {s \in Sectors : Target(s)}
         /\ Holding => Reach(file.cluster) \subseteq {s \in Sectors : Target(s)}
  BY ChainsAreOrdered, OrderlyChains

-----------------------------------------------------------------------------
(***************************************************************************)
(* A write takes one sector, and the tables are full.                      *)
(***************************************************************************)
\* Callers that write a sector at most make no other call.
LEMMA CallersAreBrief ==
  ASSUME CallersKeepRules, ShortWrites, ChainsInv, [Next]_vars
  PROVE  BriefCall
  <1> SUFFICES ASSUME pc = "idle", pc' # "idle" PROVE job'.len <= DataArea
    BY DEF BriefCall
  <1>1. 0 <= DataArea
    BY SizeAssumption
  <1>2. CASE \E len \in WriteLens, method \in Methods : WriteCall(len, method)
    <2>1. PICK len \in WriteLens : \E method \in Methods : WriteCall(len, method)
      BY <1>2
    <2>2. job'.len = len
      BY <2>1 DEF WriteCall, Reject, NoJob
    <2> QED BY <2>1, <2>2 DEF ShortWrites
  <1>3. CASE ~\E len \in WriteLens, method \in Methods : WriteCall(len, method)
    <2>1. CASE Call
      <3>1. job'.len = 0
        BY <1>3, <2>1 DEF Call, CreateCall, CreateWith, OpenCall, RenameCall, FinishCall, DeleteCall, FormatCall,
                          Reject, Return, NoJob
      <3> QED BY <1>1, <3>1
    <2>2. CASE Step
      BY <2>2 DEF Step, CreateExists, CreateBlock, GcIndexErase, GcIndexRewrite, CreateNoSpace,
                  DiscardSector, OverrideBlock, DeleteDone, Walk, AppendToTail, Allocate, GcDataErase, GcDataDone,
                  IndexCluster, IndexLength, IndexLink, MarkSector, WriteData, LinkSector, FormatIndex, FormatData
    <2>3. CASE Crash \/ UNCHANGED vars
      BY <2>3 DEF Crash, Return, vars
    <2> QED BY <2>1, <2>2, <2>3 DEF Next
  <1> QED BY <1>2, <1>3

LEMMA ShortNext ==
  ASSUME CallersKeepRules, ShortWrites, FinishInv, ShortInv, [Next]_vars
  PROVE  ShortInv'
  BY ChainsAreOrdered, CallersAreOrderly, CallersAreBrief, OrderlyShort DEF FinishInv

\* A write that looks for sectors looks for one.
LEMMA TakesOne ==
  ASSUME ChainsInv, ShortInv, Busy
  PROVE  SectorsFor(job.len) = 1
  BY ChainsAreOrdered, OrderlyTakesOne

LEMMA TakenStay ==
  ASSUME TypeOK, TablesFull, ~Filling, UNCHANGED <<mark, erasable>>,
         Take(FirstN(writable, SectorsFor(job.len)))
  PROVE  TablesFull'
  <1>1. /\ job'.todo = FirstN(writable, SectorsFor(job.len)) /\ pc' = "index"
        /\ writable' = writable \ job'.todo
    BY DEF Take, Goto, TypeOK, Job
  <1> QED BY <1>1 DEF TablesFull, Filling

LEMMA AllStays ==
  ASSUME ChainsInv, TablesFull, Filling, UNCHANGED <<mark, ftl>>, WriteRest(job.todo)
  PROVE  TablesFull'
  <1>1. job.todo # {} /\ TypeOK
    BY DEF ChainsInv, WritingInv
  <1>2. job'.todo = job.todo /\ pc' = "mark"
    BY <1>1 DEF WriteRest, Goto, TypeOK, Job
  <1> QED BY <1>2 DEF TablesFull, Filling, ftl

LEMMA TablesFullNext ==
  ASSUME CallersKeepRules, FinishInv, ShortInv, TablesFull, [Next]_vars
  PROVE  TablesFull'
  <1> USE DEF flash, ftl, Reject, Goto, Return
  <1>a. ChainsInv /\ TypeOK /\ TypeOK'
    BY TypeNext DEF FinishInv, ChainsInv
  <1> USE <1>a, SectorFacts DEF TypeOK

  <1>1. ASSUME NEW n \in Names, NEW ro \in ReadOnly, CreateCall(n, ro) PROVE TablesFull'
    BY <1>1 DEF CreateCall, CreateWith, TablesFull, Filling
  <1>2. ASSUME NEW n \in Names, OpenCall(n) PROVE TablesFull'
    BY <1>2 DEF OpenCall, TablesFull, Filling
  <1>3. ASSUME NEW len \in WriteLens, NEW method \in Methods, WriteCall(len, method) PROVE TablesFull'
    BY <1>3 DEF WriteCall, TablesFull, Filling
  <1>4. CASE FinishCall
    BY <1>4 DEF FinishCall, TablesFull, Filling
  <1>5. ASSUME NEW n \in Names, RenameCall(n) PROVE TablesFull'
    BY <1>5 DEF RenameCall, TablesFull, Filling
  <1>6. CASE DeleteCall
    BY <1>6 DEF DeleteCall, TablesFull, Filling
  <1>7. CASE FormatCall
    BY <1>7 DEF FormatCall, TablesFull, Filling
  <1>8. CASE CreateExists
    BY <1>8 DEF CreateExists, AfterCreate, TablesFull, Filling
  <1>9. CASE CreateBlock
    BY <1>9 DEF CreateBlock, AfterCreate, TablesFull, Filling
  <1>10. CASE GcIndexErase
    BY <1>10 DEF GcIndexErase, TablesFull, Filling
  <1>11. CASE GcIndexRewrite
    BY <1>11 DEF GcIndexRewrite, TablesFull, Filling
  <1>12. CASE CreateNoSpace
    BY <1>12 DEF CreateNoSpace, AfterCreate, TablesFull, Filling
  <1>13. CASE DiscardSector
    BY <1>13 DEF DiscardSector, TablesFull, Filling
  <1>14. CASE OverrideBlock
    BY <1>14 DEF OverrideBlock, TablesFull, Filling
  <1>15. CASE DeleteDone
    BY <1>15 DEF DeleteDone, TablesFull, Filling
  <1>16. CASE Walk
    BY <1>16 DEF Walk, TablesFull, Filling
  <1>17. CASE AppendToTail
    BY <1>17 DEF AppendToTail, TablesFull, Filling
  <1>18. CASE Allocate
    <2>1. SectorsFor(job.len) = 1
      BY <1>18, TakesOne DEF Allocate, Busy
    <2>2. CASE Take(FirstN(writable, SectorsFor(job.len)))
      BY <1>18, <2>2, TakenStay DEF Allocate, Filling
    <2>3. CASE /\ Cardinality(FirstN(writable, 1)) # 1
               /\ writable' = writable \ FirstN(writable, 1)
               /\ pc' = "gc_data"
      <3>1. FirstN(writable, 1) = {}
        <4>1. ASSUME NEW x \in FirstN(writable, 1) PROVE FALSE
          <5>1. FirstN(writable, 1) = {x}
            BY FirstNOfOne
          <5> QED BY <2>3, <5>1, FS_Singleton
        <4> QED BY <4>1
      <3> QED BY <1>18, <2>3, <3>1 DEF Allocate, TablesFull, Filling
    <2> QED BY <1>18, <2>1, <2>2, <2>3 DEF Allocate
  <1>19. CASE GcDataErase
    <2>1. PICK s \in erasable : EraseSector(s)
      BY <1>19 DEF GcDataErase
    <2> QED BY <1>19, <2>1 DEF GcDataErase, EraseSector, TablesFull, Filling
  <1>20. CASE GcDataDone
    <2>1. CASE Take(FirstN(writable, SectorsFor(job.len)))
      BY <1>20, <2>1, TakenStay DEF GcDataDone, Filling
    <2>2. CASE pc' = "idle" /\ UNCHANGED writable
      BY <1>20, <2>2 DEF GcDataDone, TablesFull, Filling
    <2> QED BY <1>20, <2>1, <2>2 DEF GcDataDone
  <1>21. CASE IndexCluster
    <2>1. CASE pc' = "index_length" /\ UNCHANGED job
      BY <1>21, <2>1 DEF IndexCluster, TablesFull, Filling
    <2>2. CASE WriteRest(job.todo)
      BY <1>21, <2>2, AllStays DEF IndexCluster, Filling
    <2> QED BY <1>21, <2>1, <2>2 DEF IndexCluster
  <1>22. CASE IndexLength
    BY <1>22, AllStays DEF IndexLength, Filling
  <1>23. CASE IndexLink
    BY <1>23, AllStays DEF IndexLink, Filling
  <1>24. CASE MarkSector
    BY <1>24 DEF MarkSector, ProgramMark, TablesFull, Filling
  <1>25. CASE WriteData
    <2>1. PICK s \in job.todo : IsFirst(s, job.todo)
      BY <1>25 DEF WriteData
    <2>2. \A t \in job.todo : mark[t] = "inuse"
      BY <1>25, <2>1 DEF WriteData, ChainsInv, WritingInv, ShortInv, Filling
    <2> QED BY <1>25, <2>2 DEF WriteData, TablesFull, Filling
  <1>26. CASE LinkSector
    BY <1>26 DEF LinkSector, ShortInv
  <1>27. CASE FormatIndex
    BY <1>27 DEF FormatIndex, TablesFull, Filling
  <1>28. CASE FormatData
    <2>1. PICK s \in job.todo : EraseSector(s)
      BY <1>28 DEF FormatData
    <2>2. pc = "format" /\ pc' \in {"format", "idle"}
      BY <1>28 DEF FormatData
    <2> QED BY <2>1, <2>2 DEF EraseSector, TablesFull, Filling
  <1>29. CASE Crash
    BY <1>29 DEF Crash, TablesFull, Filling
  <1>30. CASE UNCHANGED vars
    BY <1>30 DEF vars, TablesFull, Filling
  <1> QED
    BY <1>1, <1>2, <1>3, <1>4, <1>5, <1>6, <1>7, <1>8, <1>9, <1>10, <1>11, <1>12,
       <1>13, <1>14, <1>15, <1>16, <1>17, <1>18, <1>19, <1>20, <1>21, <1>22, <1>23,
       <1>24, <1>25, <1>26, <1>27, <1>28, <1>29, <1>30
    DEF Next, Call, Step

\* While a file is written its file block has its chain.
LEMMA BusyChain ==
  ASSUME ChainsInv, Busy
  PROVE  /\ file.block \in Owners
         /\ Index[file.block] = fb[file.block]
         /\ fb[file.block].cluster = file.cluster
         /\ Chain(file.block) = Reach(file.cluster)
  BY ChainsAreOrdered, OrderlyChain

LEMMA InChainNext ==
  ASSUME CallersKeepRules, FinishInv, ShortInv, InChainInv, [Next]_vars
  PROVE  InChainInv'
  BY ChainsAreOrdered, CallersAreOrderly, OrderlyInChain DEF FinishInv

LEMMA HeadsStay ==
  ASSUME InUseInv, UNCHANGED <<mark, next>>, pc # "format",
         \A h \in Heads : h \in Sectors => h \in Heads'
  PROVE  InUseInv'
  <1>1. ASSUME NEW s \in Sectors, mark'[s] = "inuse" PROVE \E h \in Heads' : s \in Reached(next', h)
    <2>1. PICK h \in Heads : s \in Reached(next, h)
      BY <1>1 DEF InUseInv, Reach
    <2>2. h \in Sectors
      BY <2>1, ReachedFromNone
    <2> QED BY <2>1, <2>2
  <1> QED BY <1>1 DEF InUseInv, Reach

\* The step leaves the index alone and holds no chain that ends.
LEMMA SameHeads ==
  ASSUME UNCHANGED fb, pc \notin {"gc_rewrite", "discard"}, pc' \notin {"gc_rewrite", "discard"},
         Holding => file.cluster \notin Sectors
  PROVE  \A h \in Heads : h \in Sectors => h \in Heads'
  <1>1. Live' = Live /\ \A k \in Slots : Index'[k] = Index[k]
    BY SameIndex
  <1>2. Owners = Live /\ Owners' = Live /\ Live \subseteq Slots
    BY <1>1 DEF Owners, Live
  <1> QED BY <1>1, <1>2 DEF Heads

\* The step changes file blocks and keeps the chains they have.
LEMMA BlocksStayHeads ==
  ASSUME pc \notin {"gc_rewrite", "discard"}, pc' \notin {"gc_rewrite", "discard"}, ~Holding,
         \A k \in Slots : fb[k].cluster \in Sectors => fb'[k].cluster = fb[k].cluster,
         \A k \in Slots : HasName(fb[k]) /\ IsOpen(fb[k]) => HasName(fb'[k]) /\ IsOpen(fb'[k])
  PROVE  \A h \in Heads : h \in Sectors => h \in Heads'
  <1>1. \A k \in Slots : Index[k] = fb[k] /\ Index'[k] = fb'[k]
    BY IndexIsFlash, IndexIsFlashNext
  <1>2. Owners = Live /\ Owners' = Live' /\ \A k \in Live : k \in Slots /\ k \in Live'
    BY <1>1 DEF Owners, Live
  <1> QED BY <1>1, <1>2 DEF Heads

\* A call marks the block of the caller's file and keeps its chain in the File.
LEMMA HeldHeads ==
  ASSUME CallersKeepRules, ChainsInv, MayUse, pc = "idle", pc' \in {"create", "discard"},
         file.block # Empty, MarkDeprecated(file.block) \/ MarkDeleted(file.block),
         file'.cluster = file.cluster, file'.block = file.block
  PROVE  \A h \in Heads : h \in Sectors => h \in Heads'
  <1>1. Attached
    BY CallerIsAttached
  <1>2. Index[file.block].cluster = file.cluster /\ file.block \in Slots
    BY <1>1, AttachedFacts, IndexIsFlash DEF ChainsInv, FileInv, Holding
  <1>3. KeepsBlocks /\ Live \ {file.block} \subseteq Live'
    BY StateBitKeeps DEF ChainsInv
  <1>4. \A k \in Owners : k = file.block \/ (k \in Owners' /\ Index'[k] = Index[k])
    BY <1>3 DEF Owners, KeepsBlocks
  <1>5. ~Holding /\ Holding'
    BY DEF Holding
  <1>6. \A k \in Owners : Index[k].cluster \in Heads'
    BY <1>2, <1>4, <1>5 DEF Heads
  <1> QED BY <1>5, <1>6 DEF Heads

LEMMA InUseNext ==
  ASSUME CallersKeepRules, "new_name" \in Contract, FinishInv, ShortInv, InUseInv, InChainInv,
         [Next]_vars
  PROVE  InUseInv'
  <1> USE DEF flash, ftl, Reject, Goto, Return
  <1>a. ChainsInv /\ TypeOK /\ TypeOK'
    BY TypeNext DEF FinishInv, ChainsInv
  <1> USE <1>a, SectorFacts DEF TypeOK

  <1>1. ASSUME NEW n \in Names, NEW ro \in ReadOnly, CreateCall(n, ro) PROVE InUseInv'
    <2>1. UNCHANGED <<fb, mark, next>> /\ pc = "idle" /\ pc' = "create"
      BY <1>1 DEF CreateCall, CreateWith
    <2> QED BY <2>1, SameHeads, HeadsStay DEF Holding
  <1>2. ASSUME NEW n \in Names, OpenCall(n) PROVE InUseInv'
    <2>1. UNCHANGED <<fb, mark, next>> /\ pc = "idle" /\ pc' = "idle"
      BY <1>2 DEF OpenCall
    <2> QED BY <2>1, SameHeads, HeadsStay DEF Holding
  <1>3. ASSUME NEW len \in WriteLens, NEW method \in Methods, WriteCall(len, method) PROVE InUseInv'
    <2>1. UNCHANGED <<fb, mark, next>> /\ pc = "idle" /\ ~Holding
      BY <1>3 DEF WriteCall, Holding
    <2>2. CASE pc' = "discard"
      <3>1. MayUse /\ file.block # Empty /\ UNCHANGED file
        BY <1>3, <2>1, <2>2 DEF WriteCall
      <3>2. Attached
        BY <3>1, CallerIsAttached
      <3>3. Index[file.block].cluster = file.cluster /\ file.block \in Slots
        BY <2>1, <3>2, AttachedFacts, IndexIsFlash DEF ChainsInv, FileInv
      <3>4. Live' = Live /\ \A k \in Slots : Index'[k] = Index[k]
        BY <2>1, <2>2, SameIndex
      <3>5. \A k \in Owners : k \in Live /\ (k \in Owners' \/ k = file.block)
        BY <2>1, <2>2, <3>1, <3>4 DEF Owners
      <3>6. Live \subseteq Slots
        BY DEF Live
      <3>7. \A k \in Owners : Index[k].cluster \in Heads'
        BY <2>2, <3>1, <3>3, <3>4, <3>5, <3>6 DEF Heads, Holding
      <3> QED BY <2>1, <3>7, HeadsStay DEF Heads
    <2>3. CASE pc' # "discard"
      <3>1. pc' \notin {"gc_rewrite", "format"}
        BY <1>3 DEF WriteCall
      <3> QED BY <2>1, <2>3, <3>1, SameHeads, HeadsStay
    <2> QED BY <2>2, <2>3
  <1>4. CASE FinishCall
    <2>1. CASE file.block = Empty
      BY <1>4, <2>1, SameHeads, HeadsStay DEF FinishCall, Holding
    <2>2. CASE file.block # Empty /\ fb[file.block].length = Empty
      <3>1. /\ Attached /\ file.block \in Slots
            /\ fb' = [fb EXCEPT ![file.block] = [fb[file.block] EXCEPT !.length = file.length]]
            /\ pc = "idle" /\ pc' = "idle" /\ UNCHANGED <<mark, next>>
        BY <1>4, <2>2, FinishFills
      <3>2. /\ \A k \in Slots : fb'[k].cluster = fb[k].cluster
            /\ \A k \in Slots : HasName(fb[k]) /\ IsOpen(fb[k]) => HasName(fb'[k]) /\ IsOpen(fb'[k])
        BY <3>1 DEF FileBlock, HasName, IsOpen
      <3> QED BY <3>1, <3>2, BlocksStayHeads, HeadsStay DEF Holding
    <2>3. CASE file.block # Empty /\ fb[file.block].length # Empty
      <3>1. /\ MayUse /\ MarkDeprecated(file.block) /\ pc = "idle" /\ pc' = "create"
            /\ UNCHANGED <<file, mark, next>>
        BY <1>4, <2>3 DEF FinishCall
      <3> QED BY <2>3, <3>1, HeldHeads, HeadsStay
    <2> QED BY <1>4, <2>1, <2>2, <2>3 DEF FinishCall
  <1>5. ASSUME NEW n \in Names, RenameCall(n) PROVE InUseInv'
    <2>1. CASE UNCHANGED <<pc, fb, mark, next>>
      BY <1>5, <2>1, SameHeads, HeadsStay DEF RenameCall, Holding
    <2>2. CASE file.block # Empty /\ MarkDeprecated(file.block) /\ file' = [file EXCEPT !.name = n] /\ pc' = "create"
      <3>1. /\ MayUse /\ MarkDeprecated(file.block) /\ pc = "idle" /\ pc' = "create"
            /\ UNCHANGED <<mark, next>>
        BY <1>5, <2>2 DEF RenameCall
      <3>2. file'.cluster = file.cluster /\ file'.block = file.block
        BY <2>2 DEF File
      <3> QED BY <2>2, <3>1, <3>2, HeldHeads, HeadsStay
    <2> QED BY <1>5, <2>1, <2>2 DEF RenameCall
  <1>6. CASE DeleteCall
    <2>1. /\ MayUse /\ MarkDeleted(file.block) /\ pc = "idle" /\ pc' = "discard"
          /\ file.block # Empty /\ UNCHANGED <<file, mark, next>>
      BY <1>6 DEF DeleteCall
    <2> QED BY <2>1, HeldHeads, HeadsStay
  <1>7. CASE FormatCall
    BY <1>7 DEF FormatCall, InUseInv
  <1>8. CASE CreateExists
    <2>1. UNCHANGED <<fb, mark, next>> /\ pc = "create" /\ pc' = "idle"
      BY <1>8 DEF CreateExists, AfterCreate
    <2>2. job.op \in {"create", "override"}
      BY <1>8, ReplacingSucceeds, <2>1 DEF Replacing, ChainsInv, CreateInv
    <2>3. file.cluster = Empty
      BY <2>1, <2>2 DEF ChainsInv, CreateInv
    <2> QED BY <2>1, <2>3, SameHeads, HeadsStay
  <1>9. CASE CreateBlock
    <2>1. PICK k \in Slots :
            /\ fb[k] = BlankBlock
            /\ fb' = [fb EXCEPT ![k] = [name |-> file.name, cluster |-> file.cluster,
                                        length |-> file.length, info |-> job.info]]
            /\ IsOpen(fb'[k]) /\ HasName(fb'[k])
      BY <1>9, CreateWrites
    <2>2. pc = "create" /\ pc' \in {"idle", "alloc"} /\ UNCHANGED <<mark, next>>
      BY <1>9 DEF CreateBlock, AfterCreate
    <2>3. \A j \in Live : j # k
      <3>1. ~HasName(fb[k])
        BY <2>1 DEF HasName, BlankBlock
      <3> QED BY <2>2, <3>1, IndexIsFlash DEF Live
    <2>4. \A j \in Live : j \in Slots /\ j \in Live' /\ Index'[j] = Index[j]
      BY <2>1, <2>2, <2>3, IndexIsFlash, IndexIsFlashNext DEF Live
    <2>5. k \in Live' /\ Index'[k].cluster = file.cluster
      BY <2>1, <2>2, IndexIsFlashNext DEF Live
    <2>6. Owners' = Live' /\ Owners = Live
      BY <2>2 DEF Owners
    <2>7. \A h \in Heads : h \in Heads'
      BY <2>4, <2>5, <2>6 DEF Heads
    <2> QED BY <2>2, <2>7, HeadsStay
  <1>10. CASE GcIndexErase
    <2>1. PICK k \in Slots :
            /\ k \in Garbage
            /\ gcbuf' = [j \in Slots |->
                           IF SlotSector[j] = SlotSector[k] /\ j \notin Garbage
                           THEN fb[j] ELSE BlankBlock]
            /\ EraseIndexSector(SlotSector[k])
            /\ job' = [job EXCEPT !.fbs = {SlotSector[k]}]
      BY <1>10 DEF GcIndexErase, Garbage
    <2>2. /\ job'.fbs = {SlotSector[k]} /\ pc = "create" /\ pc' = "gc_rewrite"
          /\ UNCHANGED <<file, mark, next>>
      BY <1>10, <2>1 DEF GcIndexErase, Job
    <2>3. \A j \in Slots : j \notin Garbage => Index'[j] = fb[j]
      BY <2>1, <2>2 DEF Index, EraseIndexSector
    <2>4. \A j \in Live : j \in Slots /\ Index[j] = fb[j] /\ (j \in Garbage => fb[j].cluster = Empty)
      BY <2>2, IndexIsFlash DEF Live, Garbage
    <2>5. \A j \in Live : Index[j].cluster \in Sectors => j \in Live' /\ Index'[j] = Index[j]
      BY <2>3, <2>4 DEF Live
    <2>6. \A h \in Heads : h \in Sectors => h \in Heads'
      BY <2>2, <2>5 DEF Heads, Owners, Holding
    <2> QED BY <2>2, <2>6, HeadsStay
  <1>11. CASE GcIndexRewrite
    <2>1. /\ fb' = [k \in Slots |-> IF SlotSector[k] \in job.fbs THEN gcbuf[k] ELSE fb[k]]
          /\ pc = "gc_rewrite" /\ pc' = "create" /\ UNCHANGED <<file, mark, next>>
      BY <1>11 DEF GcIndexRewrite
    <2>2. \A k \in Slots : Index'[k] = Index[k]
      BY <2>1 DEF Index
    <2>3. Live' = Live
      BY <2>2 DEF Live
    <2>4. \A h \in Heads : h \in Heads'
      BY <2>1, <2>2, <2>3 DEF Heads, Owners, Holding, Live
    <2> QED BY <2>1, <2>4, HeadsStay
  <1>12. CASE CreateNoSpace
    <2>1. UNCHANGED <<fb, mark, next>> /\ pc = "create" /\ pc' = "idle"
      BY <1>12 DEF CreateNoSpace, AfterCreate
    <2>2. job.op \in {"create", "override"}
      BY <1>12, ReplacingSucceeds, <2>1 DEF Replacing, ChainsInv, CreateInv
    <2>3. file.cluster = Empty
      BY <2>1, <2>2 DEF ChainsInv, CreateInv
    <2> QED BY <2>1, <2>3, SameHeads, HeadsStay
  <1>13. CASE DiscardSector
    <2>1. /\ file.cluster \in Sectors /\ pc = "discard" /\ pc' = "discard" /\ UNCHANGED <<fb, next>>
          /\ mark' = [mark EXCEPT ![file.cluster] = "discard"]
          /\ file' = [file EXCEPT !.cluster = next[file.cluster]]
      BY <1>13 DEF DiscardSector
    <2>2. file'.cluster = next[file.cluster] /\ file'.block = file.block
      BY <2>1 DEF File
    <2>3. Live' = Live /\ \A k \in Slots : Index'[k] = Index[k]
      BY <2>1, SameIndex
    <2>4. \A h \in Heads : h \in Heads' \/ h = file.cluster
      BY <2>1, <2>2, <2>3 DEF Heads, Owners, Live
    <2>5. file'.cluster \in Heads'
      BY <2>1 DEF Heads, Holding
    <2>6. Reached(next, file.cluster) \subseteq {file.cluster} \cup Reached(next, next[file.cluster])
      BY <2>1, ReachedNext
    <2>7. ASSUME NEW s \in Sectors, mark'[s] = "inuse" PROVE \E h \in Heads' : s \in Reached(next', h)
      <3>1. mark[s] = "inuse" /\ s # file.cluster
        BY <2>1, <2>7
      <3>2. PICK h \in Heads : s \in Reached(next, h)
        BY <2>1, <3>1 DEF InUseInv, Reach
      <3>3. CASE h \in Heads'
        BY <2>1, <3>2, <3>3
      <3>4. CASE h = file.cluster
        <4>1. s \in Reached(next', file'.cluster)
          BY <2>1, <2>2, <2>6, <3>1, <3>2, <3>4
        <4> QED BY <2>5, <4>1
      <3> QED BY <2>4, <3>3, <3>4
    <2> QED BY <2>7 DEF InUseInv, Reach
  <1>14. CASE OverrideBlock
    <2>1. /\ pc = "discard" /\ pc' = "create" /\ file.cluster = Empty
          /\ MarkDeprecated(file.block) /\ UNCHANGED <<mark, next>>
      BY <1>14 DEF OverrideBlock
    <2>2. KeepsBlocks /\ Live \ {file.block} \subseteq Live'
      BY <2>1, StateBitKeeps
    <2>3. \A k \in Owners : k \in Live' /\ Index'[k] = Index[k]
      BY <2>1, <2>2 DEF Owners, KeepsBlocks
    <2>4. \A h \in Heads : h \in Sectors => h \in Heads'
      BY <2>1, <2>3 DEF Heads, Owners
    <2> QED BY <2>1, <2>4, HeadsStay
  <1>15. CASE DeleteDone
    <2>1. /\ pc = "discard" /\ pc' = "idle" /\ file.cluster = Empty /\ UNCHANGED <<fb, mark, next>>
      BY <1>15 DEF DeleteDone
    <2>2. Live' = Live /\ \A k \in Slots : Index'[k] = Index[k]
      BY <2>1, SameIndex
    <2>3. \A h \in Heads : h \in Sectors => h \in Heads'
      BY <2>1, <2>2 DEF Heads, Owners, Live
    <2> QED BY <2>1, <2>3, HeadsStay
  <1>16. CASE Walk
    <2>1. UNCHANGED <<fb, mark, next>> /\ pc = "walk" /\ pc' \in {"walk", "alloc", "partial"}
      BY <1>16 DEF Walk
    <2> QED BY <2>1, SameHeads, HeadsStay DEF Holding
  <1>17. CASE AppendToTail
    <2>1. UNCHANGED <<fb, mark, next>> /\ pc = "partial" /\ pc' \in {"idle", "alloc"}
      BY <1>17 DEF AppendToTail
    <2> QED BY <2>1, SameHeads, HeadsStay DEF Holding
  <1>18. CASE Allocate
    <2>1. UNCHANGED <<fb, mark, next>> /\ pc = "alloc" /\ pc' \in {"index", "gc_data"}
      BY <1>18 DEF Allocate, Take
    <2> QED BY <2>1, SameHeads, HeadsStay DEF Holding
  <1>19. CASE GcDataErase
    <2>1. PICK s \in erasable : EraseSector(s)
      BY <1>19 DEF GcDataErase
    <2>2. pc = "gc_data" /\ pc' = "gc_data" /\ UNCHANGED <<fb, file>> /\ ~Holding
      BY <1>19 DEF GcDataErase, Holding
    <2>3. \A h \in Heads : h \in Sectors => h \in Heads'
      BY <2>2, SameHeads
    <2>4. mark[s] = "discard" /\ s \in Sectors
      BY DEF ChainsInv, TablesInv
    <2>5. ASSUME NEW h \in Heads PROVE Reached(next', h) = Reached(next, h)
      <3>1. PICK k \in Owners : h = Index[k].cluster
        BY <2>2 DEF Heads
      <3>2. \A t \in Reached(next, h) : t \in Sectors /\ mark[t] = "inuse"
        BY <2>2, <3>1, ChainsInUse DEF Chain, Reach, Target
      <3>3. \A t \in Reached(next, h) : next'[t] = next[t]
        BY <2>1, <2>4, <3>2 DEF EraseSector
      <3> QED BY <3>3, ReachedSame
    <2>6. \A t \in Sectors : mark'[t] = "inuse" => mark[t] = "inuse"
      BY <2>1, <2>4 DEF EraseSector
    <2>7. ASSUME NEW t \in Sectors, mark'[t] = "inuse" PROVE \E h \in Heads' : t \in Reached(next', h)
      <3>1. PICK h \in Heads : t \in Reached(next, h)
        BY <2>2, <2>6, <2>7 DEF InUseInv, Reach
      <3>2. h \in Sectors
        BY <3>1, ReachedFromNone
      <3> QED BY <2>3, <2>5, <3>1, <3>2
    <2> QED BY <2>7 DEF InUseInv, Reach
  <1>20. CASE GcDataDone
    <2>1. UNCHANGED <<fb, mark, next>> /\ pc = "gc_data" /\ pc' \in {"index", "idle"}
      BY <1>20 DEF GcDataDone, Take
    <2> QED BY <2>1, SameHeads, HeadsStay DEF Holding
  <1>21. CASE IndexCluster
    <2>1. /\ Attached /\ file.block \in Slots
          /\ fb[file.block].cluster = Empty
          /\ fb' = [fb EXCEPT ![file.block] = [fb[file.block] EXCEPT !.cluster = job.head]]
      BY <1>21, IndexClusterWrites
    <2>2. pc = "index" /\ pc' \in {"index_length", "idle", "mark"} /\ UNCHANGED <<mark, next>>
      BY <1>21 DEF IndexCluster, WriteRest
    <2>3. /\ \A k \in Slots : fb[k].cluster \in Sectors => fb'[k].cluster = fb[k].cluster
          /\ \A k \in Slots : HasName(fb[k]) /\ IsOpen(fb[k]) => HasName(fb'[k]) /\ IsOpen(fb'[k])
      BY <2>1 DEF FileBlock, HasName, IsOpen
    <2> QED BY <2>2, <2>3, BlocksStayHeads, HeadsStay DEF Holding
  <1>22. CASE IndexLength
    <2>1. /\ file.block \in Slots /\ Attached
          /\ fb' = [fb EXCEPT ![file.block] = [fb[file.block] EXCEPT !.length = job.len]]
      BY <1>22, IndexLengthWrites
    <2>2. pc = "index_length" /\ pc' \in {"idle", "mark"} /\ UNCHANGED <<mark, next>>
      BY <1>22 DEF IndexLength, WriteRest
    <2>3. /\ \A k \in Slots : fb[k].cluster \in Sectors => fb'[k].cluster = fb[k].cluster
          /\ \A k \in Slots : HasName(fb[k]) /\ IsOpen(fb[k]) => HasName(fb'[k]) /\ IsOpen(fb'[k])
      BY <2>1 DEF FileBlock, HasName, IsOpen
    <2> QED BY <2>2, <2>3, BlocksStayHeads, HeadsStay DEF Holding
  <1>23. CASE IndexLink
    <2>1. /\ job.tail \in Sectors /\ next[job.tail] = Empty
          /\ next' = [next EXCEPT ![job.tail] = job.head]
      BY <1>23, IndexLinkWrites
    <2>2. pc = "index" /\ pc' \in {"idle", "mark"} /\ UNCHANGED <<fb, mark>>
      BY <1>23 DEF IndexLink, WriteRest
    <2>3. next[job.tail] \notin Sectors /\ \A t \in Sectors : t # job.tail => next'[t] = next[t]
      BY <2>1
    <2>4. ASSUME NEW h PROVE Reached(next, h) \subseteq Reached(next', h)
      <3>1. \A s \in Sectors : next[s] \notin Sectors /\ (\A t \in Sectors : t # s => next'[t] = next[t])
              => Reached(next, h) \subseteq Reached(next', h)
        BY ReachedGrows
      <3> QED BY <2>1, <2>3, <3>1
    <2>5. \A h \in Heads : h \in Sectors => h \in Heads'
      BY <2>2, SameHeads DEF Holding
    <2>6. ASSUME NEW s \in Sectors, mark'[s] = "inuse" PROVE \E h \in Heads' : s \in Reached(next', h)
      <3>1. PICK h \in Heads : s \in Reached(next, h)
        BY <2>2, <2>6 DEF InUseInv, Reach
      <3>2. h \in Sectors
        BY <3>1, ReachedFromNone
      <3> QED BY <2>4, <2>5, <3>1, <3>2
    <2> QED BY <2>6 DEF InUseInv, Reach
  <1>24. CASE MarkSector
    <2>1. PICK s \in job.todo : mark' = [mark EXCEPT ![s] = ProgramMark(@, "inuse")]
      BY <1>24 DEF MarkSector
    <2>2. pc = "mark" /\ pc' = "data" /\ UNCHANGED <<fb, next, file>>
      BY <1>24 DEF MarkSector
    <2>3. s \in Reached(next, file.cluster) /\ s \in Sectors
      BY <2>2 DEF InChainInv, Filling, Reach, Job
    <2>4. file.cluster \in Heads
      BY <2>2, BusyChain DEF Busy, Filling, Heads
    <2>5. \A h \in Heads : h \in Sectors => h \in Heads'
      BY <2>2, SameHeads DEF Holding
    <2>6. ASSUME NEW t \in Sectors, mark'[t] = "inuse" PROVE \E h \in Heads' : t \in Reached(next', h)
      <3>1. mark[t] = "inuse" \/ t = s
        BY <2>1, <2>3, <2>6
      <3>2. PICK h \in Heads : t \in Reached(next, h)
        BY <2>2, <2>3, <2>4, <3>1 DEF InUseInv, Reach
      <3>3. h \in Sectors
        BY <3>2, ReachedFromNone
      <3> QED BY <2>2, <2>5, <3>2, <3>3
    <2> QED BY <2>6 DEF InUseInv, Reach
  <1>25. CASE WriteData
    <2>1. UNCHANGED <<fb, mark, next>> /\ pc = "data" /\ pc' \in {"idle", "link", "mark"}
      BY <1>25 DEF WriteData, WriteRest
    <2> QED BY <2>1, SameHeads, HeadsStay DEF Holding
  <1>26. CASE LinkSector
    BY <1>26 DEF LinkSector, ShortInv
  <1>27. CASE FormatIndex
    BY <1>27 DEF FormatIndex, InUseInv
  <1>28. CASE FormatData
    <2>1. PICK s \in job.todo : EraseSector(s) /\ (job.todo = {s} \/ pc' = "format")
      BY <1>28 DEF FormatData
    <2>2. CASE job.todo = {s}
      <3>1. \A t \in Sectors : t # s => mark[t] = "blank"
        BY <1>28, <2>2 DEF FormatData, ChainsInv, FormatInv
      <3>2. \A t \in Sectors : mark'[t] = "blank"
        BY <2>1, <3>1 DEF EraseSector
      <3> QED BY <3>2 DEF InUseInv
    <2> QED BY <2>1, <2>2 DEF InUseInv
  <1>29. CASE Crash
    <2>1. UNCHANGED <<fb, mark, next>> /\ pc = "idle" /\ pc' = "idle"
      BY <1>29 DEF Crash, CallersKeepRules
    <2> QED BY <2>1, SameHeads, HeadsStay DEF Holding
  <1>30. CASE UNCHANGED vars
    BY <1>30 DEF vars, InUseInv, Heads, Owners, Live, Index, Holding, Reach
  <1> QED
    BY <1>1, <1>2, <1>3, <1>4, <1>5, <1>6, <1>7, <1>8, <1>9, <1>10, <1>11, <1>12,
       <1>13, <1>14, <1>15, <1>16, <1>17, <1>18, <1>19, <1>20, <1>21, <1>22, <1>23,
       <1>24, <1>25, <1>26, <1>27, <1>28, <1>29, <1>30
    DEF Next, Call, Step

LEMMA SpaceInit == Init => SpaceInv
  <1> SUFFICES ASSUME Init PROVE SpaceInv
    OBVIOUS
  <1>1. /\ FinishInv /\ job.op = "none" /\ pc = "idle"
        /\ mark = [s \in Sectors |-> "blank"] /\ writable = Sectors
    BY FinishInit DEF Init, NoJob
  <1> QED BY <1>1 DEF SpaceInv, ShortInv, TablesFull, InUseInv, InChainInv, Filling

LEMMA SpaceNext ==
  CallersKeepRules /\ "new_name" \in Contract /\ ShortWrites /\ SpaceInv /\ [Next]_vars => SpaceInv'
  BY FinishNext, ShortNext, TablesFullNext, InUseNext, InChainNext DEF SpaceInv

LEMMA NoneIsLost == SpaceInv => NoSectorLost
  <1> SUFFICES ASSUME SpaceInv, pc = "idle"
               PROVE  Sectors = writable \cup erasable \cup Reachable
    BY DEF NoSectorLost
  <1>1. TypeOK /\ Reachable \subseteq Sectors
    BY ReachedIsClosed DEF SpaceInv, FinishInv, ChainsInv, Reachable, Chain, Reach
  <1>2. ASSUME NEW s \in Sectors PROVE s \in writable \cup erasable \cup Reachable
    <2>1. mark[s] \in {"blank", "inuse", "discard"}
      BY <1>1 DEF TypeOK
    <2>2. CASE mark[s] = "inuse"
      <3>1. PICK h \in Heads : s \in Reach(h)
        BY <2>2 DEF SpaceInv, InUseInv
      <3>2. PICK k \in Live : h = Index[k].cluster
        BY DEF Heads, Owners, Holding
      <3> QED BY <3>1, <3>2 DEF Reachable, Chain
    <2> QED BY <2>1, <2>2 DEF SpaceInv, TablesFull, Filling
  <1> QED BY <1>1, <1>2 DEF TypeOK

LEMMA FreeIsCounted ==
  ASSUME SpaceInv, pc = "idle"
  PROVE  spifs_avail_sector = NumSectors - Cardinality(Reachable)
  <1> DEFINE A == {s \in Sectors : s \in erasable \/ s \in writable}
  <1>1. ChainsInv /\ TypeOK /\ TablesInv
    BY DEF SpaceInv, FinishInv, ChainsInv
  <1>2. Reachable \subseteq {s \in Sectors : mark[s] = "inuse"}
    BY <1>1, ChainsInUse DEF Reachable, Owners, Target
  <1>3. A = Sectors \ Reachable
    BY <1>1, <1>2, NoneIsLost DEF NoSectorLost, TablesInv
  <1>4. IsFiniteSet(Sectors) /\ Cardinality(Sectors) = NumSectors
    BY SizeAssumption, FS_Interval DEF Sectors
  <1>5. IsFiniteSet(Reachable) /\ Sectors \cap Reachable = Reachable
    BY <1>2, <1>4, FS_Subset
  <1>6. Cardinality(Sectors \ Reachable) = Cardinality(Sectors) - Cardinality(Sectors \cap Reachable)
    BY <1>4, FS_Difference
  <1> HIDE DEF A
  <1>7. Cardinality(A) = NumSectors - Cardinality(Reachable)
    BY <1>3, <1>4, <1>5, <1>6
  <1> QED BY <1>7 DEF A, spifs_avail_sector

\* When callers keep the rules of CallersKeepRules, do not rename to the name of
\* another file and write at most a sector at a time, the tables say what the mark
\* words say, every sector between two calls is free or in the chain of a file, and
\* spifs_avail_sector counts those no file has (spifs.c:960).
THEOREM SpaceIsKept ==
  ASSUME CallersKeepRules, "new_name" \in Contract, ShortWrites
  PROVE  Spec => []SpaceIsCounted
  <1>1. SpaceInv /\ [Next]_vars => SpaceInv'
    BY SpaceNext
  <1>2. SpaceInv => SpaceIsCounted
    <2>1. SpaceInv => FtlSound
      BY DEF SpaceInv, FinishInv, ChainsInv, TypeOK, TablesInv, FtlSound
    <2>2. SpaceInv => (pc = "idle" => FsStatus.sectors = NumSectors - Cardinality(Reachable))
      BY FreeIsCounted DEF FsStatus
    <2> QED BY <2>1, <2>2, NoneIsLost DEF SpaceIsCounted
  <1> QED BY <1>1, <1>2, SpaceInit, PTL DEF Spec

-----------------------------------------------------------------------------
(***************************************************************************)
(* No byte is programmed twice.                                            *)
(***************************************************************************)
\* The caller's File is that of file block k.
Mine(k) == k = file.block /\ Index[k].name = file.name

OthersFilled ==
  pc # "format" => \A k \in Owners : ~Mine(k) =>
    Filled(next, data, Index[k].cluster, Index[k].length)

MineFilled ==
  pc \in {"create", "gc_rewrite"} \/ (pc \notin {"discard", "format"} /\ Attached /\ ~Writing)
    => Filled(next, data, file.cluster, file.length)

FilledInv == clobbered = {} /\ OthersFilled /\ MineFilled /\ LastInv /\ PartInv

OnceInv == FinishInv /\ ShortInv /\ InChainInv /\ FilledInv

LEMMA OnceIsCareful == OnceInv => BytesInv
  <1> SUFFICES ASSUME OnceInv PROVE BytesInv
    OBVIOUS
  <1>1. ChainsInv /\ OrderInv /\ FilledInv
    BY ChainsAreOrdered DEF OnceInv, FinishInv
  <1>2. BusyFilled
    BY <1>1 DEF ChainsInv, FileInv, FilledInv, MineFilled, BusyFilled, Busy, Filling, Writing
  <1> QED BY <1>1, <1>2 DEF OnceInv, FilledInv, BytesInv

LEMMA CallersAreCareful ==
  ASSUME CallersKeepRules, ShortWrites, OnceInv, [Next]_vars
  PROVE  CarefulStep
  <1>1. ChainsInv /\ FilledInv
    BY DEF OnceInv, FinishInv
  <1>2. OrderlyStep /\ BriefCall
    BY <1>1, CallersAreOrderly, CallersAreBrief
  <1>3. ASSUME pc = "idle", Busy' PROVE Filled(next, data, file.cluster, file.length)
    <2>1. PICK len \in WriteLens, method \in Methods : WriteCall(len, method)
      <3>1. CASE Call
        BY <1>3, <3>1 DEF Call, CreateCall, CreateWith, OpenCall, RenameCall, FinishCall, DeleteCall, FormatCall,
                          Reject, Return, Goto, Busy, Filling
      <3>2. CASE Step
        BY <1>3, <3>2 DEF Step, CreateExists, CreateBlock, GcIndexErase, GcIndexRewrite, CreateNoSpace,
                  DiscardSector, OverrideBlock, DeleteDone, Walk, AppendToTail, Allocate, GcDataErase, GcDataDone,
                  IndexCluster, IndexLength, IndexLink, MarkSector, WriteData, LinkSector, FormatIndex, FormatData
      <3>3. CASE Crash \/ UNCHANGED vars
        BY <1>3, <3>3 DEF Crash, Return, vars, Busy, Filling
      <3> QED BY <3>1, <3>2, <3>3 DEF Next
    <2>2. MayUse /\ file.block # Empty
      BY <1>3, <2>1 DEF WriteCall, Reject, Busy, Filling
    <2>3. Attached
      BY <2>2, CallerIsAttached
    <2> QED BY <1>1, <1>3, <2>3 DEF FilledInv, MineFilled, Writing, Filling
  <1> QED BY <1>2, <1>3 DEF CarefulStep

\* When the caller may take its File for another file, file blocks say how far
\* their files are filled.
LEMMA AllFilled ==
  ASSUME CallersKeepRules, ChainsInv, FilledInv, pc = "idle", MayReuse, NEW k \in Live
  PROVE  Filled(next, data, Index[k].cluster, Index[k].length)
  <1>1. k \in Slots /\ Index[k] = fb[k] /\ IsOpen(fb[k]) /\ k \in Owners
    BY IndexIsFlash DEF Live, Owners
  <1>2. CASE ~Mine(k)
    BY <1>1, <1>2 DEF FilledInv, OthersFilled
  <1>3. CASE Mine(k)
    <2>1. Attached
      <3>1. k # Empty
        BY <1>1, SlotsAssumption, ValueAssumption
      <3> QED BY <1>1, <1>3, <3>1 DEF Mine, Attached
    <2>2. fb[k].length = file.length
      BY <1>3, <2>1 DEF Mine, MayReuse, Unfinished, CallersKeepRules
    <2>3. fb[k].cluster = file.cluster
      BY <1>3, <2>1 DEF Mine, ChainsInv, FileInv, Holding
    <2> QED BY <1>1, <2>1, <2>2, <2>3 DEF FilledInv, MineFilled, Writing, Filling
  <1> QED BY <1>2, <1>3

LEMMA OthersStay ==
  ASSUME FilledInv, UNCHANGED <<next, data>>, pc # "format",
         \A k \in Owners' : ~Mine(k)' => k \in Owners /\ ~Mine(k) /\ Index'[k] = Index[k]
  PROVE  OthersFilled'
  <1>1. ASSUME NEW k \in Owners', ~Mine(k)'
        PROVE  Filled(next', data', Index'[k].cluster, Index'[k].length)
    <2>1. Filled(next, data, Index[k].cluster, Index[k].length)
      BY <1>1 DEF FilledInv, OthersFilled
    <2> QED BY <1>1, <2>1
  <1> QED BY <1>1 DEF OthersFilled

\* The step leaves the index and the block of the caller's File alone.
LEMMA OthersQuiet ==
  ASSUME FilledInv, UNCHANGED <<fb, next, data>>, file'.block = file.block, file'.name = file.name,
         pc \notin {"gc_rewrite", "discard", "format"}, pc' \notin {"gc_rewrite", "format"}
  PROVE  OthersFilled'
  <1>1. Live' = Live /\ \A k \in Slots : Index'[k] = Index[k]
    BY SameIndex
  <1>2. ASSUME NEW k \in Owners', ~Mine(k)' PROVE k \in Owners /\ ~Mine(k) /\ Index'[k] = Index[k]
    <2>1. k \in Live /\ k \in Slots
      BY <1>1 DEF Owners, Live
    <2> QED BY <1>1, <1>2, <2>1 DEF Owners, Mine
  <1> QED BY <1>2, OthersStay

\* The caller takes its File for another file.
LEMMA OthersFree ==
  ASSUME CallersKeepRules, ChainsInv, FilledInv, UNCHANGED <<fb, next, data>>,
         pc = "idle", MayReuse, pc' \in {"idle", "create"}
  PROVE  OthersFilled'
  <1>1. Live' = Live /\ \A k \in Slots : Index'[k] = Index[k]
    BY SameIndex
  <1>2. ASSUME NEW k \in Owners' PROVE Filled(next', data', Index'[k].cluster, Index'[k].length)
    <2>1. k \in Live /\ k \in Slots
      BY <1>1 DEF Owners, Live
    <2>2. Filled(next, data, Index[k].cluster, Index[k].length)
      BY <2>1, AllFilled
    <2> QED BY <1>1, <2>1, <2>2
  <1> QED BY <1>2 DEF OthersFilled

\* A call marks the block of the caller's file.
LEMMA OthersMarked ==
  ASSUME FilledInv, TypeOK, pc = "idle", pc' \in {"create", "discard"}, UNCHANGED <<next, data>>,
         MarkDeprecated(file.block) \/ MarkDeleted(file.block)
  PROVE  OthersFilled'
  <1>1. KeepsBlocks /\ file.block \notin Live'
    BY StateBitKeeps
  <1>2. \A k \in Owners' : k \in Owners /\ ~Mine(k) /\ Index'[k] = Index[k]
    BY <1>1 DEF Owners, Mine, KeepsBlocks
  <1> QED BY <1>2, OthersStay

\* The step fills in the block of the caller's file.
LEMMA OthersBlock ==
  ASSUME FilledInv, TypeOK, pc \notin {"gc_rewrite", "discard", "format"},
         pc' \notin {"gc_rewrite", "discard", "format"}, UNCHANGED <<next, data>>,
         file.block \in Slots, NEW b, fb' = [fb EXCEPT ![file.block] = b],
         fb'[file.block].name = file.name,
         file'.block = file.block, file'.name = file.name
  PROVE  OthersFilled'
  <1>1. \A k \in Slots : Index[k] = fb[k] /\ Index'[k] = fb'[k]
    BY IndexIsFlash, IndexIsFlashNext
  <1>2. \A k \in Slots : k # file.block => fb'[k] = fb[k]
    BY DEF TypeOK
  <1>3. ASSUME NEW k \in Owners', ~Mine(k)' PROVE k \in Owners /\ ~Mine(k) /\ Index'[k] = Index[k]
    <2>1. k \in Slots /\ HasName(Index'[k]) /\ IsOpen(Index'[k])
      BY <1>3 DEF Owners, Live
    <2>2. k # file.block
      BY <1>1, <1>3, <2>1 DEF Mine
    <2> QED BY <1>1, <1>2, <2>1, <2>2 DEF Owners, Live, Mine
  <1> QED BY <1>3, OthersStay

\* The step writes in a sector of the caller's file.
LEMMA OthersWrite ==
  ASSUME ChainsInv, FilledInv, Busy, UNCHANGED fb, file'.block = file.block, file'.name = file.name,
         pc' \notin {"gc_rewrite", "discard", "format"},
         NEW s \in Reach(file.cluster),
         \A t \in Sectors : t # s => next'[t] = next[t] /\ data'[t] = data[t]
  PROVE  OthersFilled'
  <1>1. pc \notin {"gc_rewrite", "discard", "format"}
    BY DEF Busy, Filling
  <1>2. Live' = Live /\ \A k \in Slots : Index'[k] = Index[k]
    BY <1>1, SameIndex
  <1>3. file.block \in Live /\ s \in Chain(file.block)
    BY <1>1, BusyChain DEF Owners
  <1>4. Mine(file.block)
    BY <1>1, <1>3, IndexIsFlash DEF Mine, ChainsInv, FileInv, Attached, Live
  <1>5. ASSUME NEW k \in Owners', ~Mine(k)'
        PROVE  Filled(next', data', Index'[k].cluster, Index'[k].length)
    <2>1. k \in Live /\ k \in Slots /\ k \in Owners /\ Index'[k] = Index[k]
      BY <1>1, <1>2 DEF Owners, Live
    <2>2. ~Mine(k)
      BY <1>5, <2>1 DEF Mine
    <2>3. Chain(k) \cap Chain(file.block) = {}
      BY <1>3, <1>4, <2>1, <2>2 DEF ChainsInv, NoCrossLink
    <2>4. \A t \in Reached(next, Index[k].cluster) : t \in Sectors /\ t # s
      BY <1>3, <2>3, ReachedIsClosed DEF Chain, Reach
    <2>5. Filled(next, data, Index[k].cluster, Index[k].length)
      BY <1>1, <2>1, <2>2 DEF FilledInv, OthersFilled
    <2> QED BY <2>1, <2>4, <2>5, FilledSame
  <1> QED BY <1>5 DEF OthersFilled

LEMMA OthersNext ==
  ASSUME CallersKeepRules, OnceInv, [Next]_vars
  PROVE  OthersFilled'
  <1> USE DEF flash, ftl, Reject, Goto, Return
  <1>a. ChainsInv /\ TypeOK /\ TypeOK' /\ ShortInv /\ InChainInv /\ FilledInv /\ FinishInv
    BY TypeNext DEF OnceInv, FinishInv, ChainsInv
  <1> USE <1>a, SectorFacts DEF TypeOK

  <1>1. ASSUME NEW n \in Names, NEW ro \in ReadOnly, CreateCall(n, ro) PROVE OthersFilled'
    <2>1. UNCHANGED <<fb, next, data>> /\ pc = "idle" /\ pc' \in {"idle", "create"} /\ MayReuse
      BY <1>1 DEF CreateCall, CreateWith
    <2> QED BY <2>1, OthersFree
  <1>2. ASSUME NEW n \in Names, OpenCall(n) PROVE OthersFilled'
    <2>1. UNCHANGED <<fb, next, data>> /\ pc = "idle" /\ pc' \in {"idle", "create"} /\ MayReuse
      BY <1>2 DEF OpenCall
    <2> QED BY <2>1, OthersFree
  <1>3. ASSUME NEW len \in WriteLens, NEW method \in Methods, WriteCall(len, method) PROVE OthersFilled'
    <2>1. UNCHANGED <<fb, next, data, file>> /\ pc = "idle"
          /\ pc' \notin {"gc_rewrite", "format"}
      BY <1>3 DEF WriteCall
    <2> QED BY <2>1, OthersQuiet
  <1>4. CASE FinishCall
    <2>1. CASE file.block = Empty
      <3>1. UNCHANGED <<fb, next, data, file, pc>> /\ pc = "idle"
        BY <1>4, <2>1 DEF FinishCall
      <3> QED BY <3>1, OthersQuiet
    <2>2. CASE file.block # Empty /\ fb[file.block].length = Empty
      <3>1. /\ Attached /\ file.block \in Slots
            /\ fb' = [fb EXCEPT ![file.block] = [fb[file.block] EXCEPT !.length = file.length]]
            /\ pc = "idle" /\ pc' = "idle" /\ UNCHANGED <<file, next, data>>
        BY <1>4, <2>2, FinishFills
      <3>2. fb'[file.block].name = file.name
        BY <3>1 DEF FileBlock, Attached
      <3> QED BY <3>1, <3>2, OthersBlock
    <2>3. CASE file.block # Empty /\ fb[file.block].length # Empty
      <3>1. /\ file.block # Empty /\ MarkDeprecated(file.block) /\ UNCHANGED <<next, data>>
            /\ pc = "idle" /\ pc' = "create"
        BY <1>4, <2>3 DEF FinishCall
      <3> QED BY <3>1, OthersMarked
    <2> QED BY <2>1, <2>2, <2>3
  <1>5. ASSUME NEW n \in Names, RenameCall(n) PROVE OthersFilled'
    <2>1. CASE UNCHANGED <<fb, next, data, file, pc>>
      <3>1. pc = "idle"
        BY <1>5 DEF RenameCall
      <3> QED BY <2>1, <3>1, OthersQuiet
    <2>2. CASE pc' = "create"
      <3>1. /\ file.block # Empty /\ MarkDeprecated(file.block) /\ UNCHANGED <<next, data>>
            /\ pc = "idle" /\ pc' = "create"
        BY <1>5, <2>2 DEF RenameCall
      <3> QED BY <3>1, OthersMarked
    <2> QED BY <1>5, <2>1, <2>2 DEF RenameCall
  <1>6. CASE DeleteCall
    <2>1. /\ file.block # Empty /\ MarkDeleted(file.block) /\ UNCHANGED <<next, data>>
          /\ pc = "idle" /\ pc' = "discard"
      BY <1>6 DEF DeleteCall
    <2> QED BY <2>1, OthersMarked
  <1>7. CASE FormatCall
    BY <1>7 DEF FormatCall, OthersFilled
  <1>8. CASE CreateExists
    <2>1. UNCHANGED <<fb, next, data>> /\ file'.block = file.block /\ file'.name = file.name
          /\ pc \notin {"gc_rewrite", "discard", "format"} /\ pc' \notin {"gc_rewrite", "discard", "format"}
      BY <1>8 DEF CreateExists, AfterCreate, File
    <2> QED BY <2>1, OthersQuiet
  <1>9. CASE CreateBlock
    <2>1. PICK k \in Slots :
            /\ fb[k] = BlankBlock
            /\ fb' = [fb EXCEPT ![k] = [name |-> file.name, cluster |-> file.cluster,
                                        length |-> file.length, info |-> job.info]]
            /\ file' = [file EXCEPT !.block = k]
      BY <1>9, CreateWrites
    <2>2. pc = "create" /\ pc' \in {"idle", "alloc"} /\ UNCHANGED <<next, data>>
      BY <1>9 DEF CreateBlock, AfterCreate
    <2>3. file'.block = k /\ file'.name = file.name
      BY <2>1 DEF File
    <2>4. \A j \in Slots : Index[j] = fb[j] /\ Index'[j] = fb'[j]
      BY <2>2, IndexIsFlash, IndexIsFlashNext
    <2>5. fb'[k].name = file.name /\ \A j \in Slots : j # k => fb'[j] = fb[j]
      BY <2>1
    <2>6. file.block \notin Live
      BY <2>2 DEF ChainsInv, CreateInv
    <2>7. ASSUME NEW j \in Owners', ~Mine(j)' PROVE j \in Owners /\ ~Mine(j) /\ Index'[j] = Index[j]
      <3>1. j \in Slots /\ HasName(Index'[j]) /\ IsOpen(Index'[j])
        BY <2>2, <2>7 DEF Owners, Live
      <3>2. j # k
        BY <2>3, <2>4, <2>5, <2>7, <3>1 DEF Mine
      <3>3. Index'[j] = Index[j] /\ j \in Live
        BY <2>4, <2>5, <3>1, <3>2 DEF Live
      <3> QED BY <2>2, <2>6, <3>3 DEF Owners, Mine
    <2> QED BY <2>2, <2>7, OthersStay
  <1>10. CASE GcIndexErase
    <2>1. UNCHANGED <<file, next, data>> /\ pc = "create" /\ pc' = "gc_rewrite"
      BY <1>10 DEF GcIndexErase
    <2>2. KeepsBlocks
      BY <1>10, <2>1, BlocksStay DEF FinishCall, CreateBlock, AfterCreate, IndexCluster, IndexLength
    <2> QED BY <2>1, <2>2, OthersStay DEF KeepsBlocks, Owners, Mine
  <1>11. CASE GcIndexRewrite
    <2>1. UNCHANGED <<file, next, data>> /\ pc = "gc_rewrite" /\ pc' = "create"
      BY <1>11 DEF GcIndexRewrite
    <2>2. KeepsBlocks
      BY <1>11, <2>1, BlocksStay DEF FinishCall, CreateBlock, AfterCreate, IndexCluster, IndexLength
    <2> QED BY <2>1, <2>2, OthersStay DEF KeepsBlocks, Owners, Mine
  <1>12. CASE CreateNoSpace
    <2>1. UNCHANGED <<fb, next, data>> /\ file'.block = file.block /\ file'.name = file.name
          /\ pc \notin {"gc_rewrite", "discard", "format"} /\ pc' \notin {"gc_rewrite", "discard", "format"}
      BY <1>12 DEF CreateNoSpace, AfterCreate, File
    <2> QED BY <2>1, OthersQuiet
  <1>13. CASE DiscardSector
    <2>1. UNCHANGED <<fb, next, data, pc>> /\ pc = "discard" /\ file' = [file EXCEPT !.cluster = next[file.cluster]]
      BY <1>13 DEF DiscardSector
    <2>2. file'.block = file.block
      BY <2>1 DEF File
    <2>3. Live' = Live /\ \A k \in Slots : Index'[k] = Index[k]
      BY <2>1, SameIndex
    <2>4. \A k \in Owners' : k \in Owners /\ ~Mine(k) /\ Index'[k] = Index[k]
      BY <2>1, <2>2, <2>3 DEF Owners, Mine, Live
    <2> QED BY <2>1, <2>4, OthersStay
  <1>14. CASE OverrideBlock
    <2>1. /\ pc = "discard" /\ pc' = "create" /\ MarkDeprecated(file.block) /\ UNCHANGED <<next, data>>
      BY <1>14 DEF OverrideBlock
    <2>2. KeepsBlocks /\ file.block \notin Live'
      BY <2>1, StateBitKeeps
    <2>3. \A k \in Owners' : k \in Owners /\ ~Mine(k) /\ Index'[k] = Index[k]
      BY <2>1, <2>2 DEF Owners, Mine, KeepsBlocks
    <2> QED BY <2>1, <2>3, OthersStay
  <1>15. CASE DeleteDone
    <2>1. pc = "discard" /\ pc' = "idle" /\ UNCHANGED <<fb, next, data>> /\ file.block \notin Live
      BY <1>15 DEF DeleteDone, ChainsInv, DiscardInv
    <2>2. Live' = Live /\ \A k \in Slots : Index'[k] = Index[k]
      BY <2>1, SameIndex
    <2>3. \A k \in Owners' : k \in Owners /\ ~Mine(k) /\ Index'[k] = Index[k]
      BY <2>1, <2>2 DEF Owners, Mine, Live
    <2> QED BY <2>1, <2>3, OthersStay
  <1>16. CASE Walk
    <2>1. UNCHANGED <<fb, next, data>> /\ file'.block = file.block /\ file'.name = file.name
          /\ pc \notin {"gc_rewrite", "discard", "format"} /\ pc' \notin {"gc_rewrite", "discard", "format"}
      BY <1>16 DEF Walk, File
    <2> QED BY <2>1, OthersQuiet
  <1>17. CASE AppendToTail
    <2>1. PICK size \in Nat :
            /\ \E S : ProgramData(job.tail, S)
            /\ file' = [file EXCEPT !.length = file.length + size]
      BY <1>17, AppendWrites
    <2>2. UNCHANGED <<fb, next>> /\ pc = "partial" /\ pc' \in {"idle", "alloc"}
      BY <1>17 DEF AppendToTail
    <2>3. job.tail \in Reach(file.cluster)
      BY <2>2 DEF ChainsInv, TailInv, InChainInv
    <2>4. file'.block = file.block /\ file'.name = file.name
      BY <2>1 DEF File
    <2>5. \A t \in Sectors : t # job.tail => data'[t] = data[t]
      BY <2>1 DEF ProgramData
    <2> QED BY <2>2, <2>3, <2>4, <2>5, OthersWrite DEF Busy, Filling
  <1>18. CASE Allocate
    <2>1. UNCHANGED <<fb, next, data>> /\ file'.block = file.block /\ file'.name = file.name
          /\ pc \notin {"gc_rewrite", "discard", "format"} /\ pc' \notin {"gc_rewrite", "discard", "format"}
      BY <1>18 DEF Allocate, Take, File
    <2> QED BY <2>1, OthersQuiet
  <1>19. CASE GcDataErase
    <2>1. PICK s \in erasable : EraseSector(s)
      BY <1>19 DEF GcDataErase
    <2>2. pc = "gc_data" /\ pc' = "gc_data" /\ UNCHANGED <<fb, file>>
      BY <1>19 DEF GcDataErase
    <2>3. mark[s] = "discard" /\ s \in Sectors
      BY DEF ChainsInv, TablesInv
    <2>4. Live' = Live /\ \A k \in Slots : Index'[k] = Index[k]
      BY <2>2, SameIndex
    <2>5. ASSUME NEW k \in Owners', ~Mine(k)'
          PROVE  Filled(next', data', Index'[k].cluster, Index'[k].length)
      <3>1. k \in Owners /\ k \in Slots /\ Index'[k] = Index[k]
        BY <2>2, <2>4 DEF Owners, Live
      <3>2. ~Mine(k)
        BY <2>2, <2>5, <3>1 DEF Mine
      <3>3. \A t \in Reached(next, Index[k].cluster) : t \in Sectors /\ mark[t] = "inuse"
        BY <2>2, <3>1, ChainsInUse DEF Chain, Reach, Target
      <3>4. \A t \in Reached(next, Index[k].cluster) : next'[t] = next[t] /\ data'[t] = data[t]
        BY <2>1, <2>3, <3>3 DEF EraseSector
      <3>5. Filled(next, data, Index[k].cluster, Index[k].length)
        BY <2>2, <3>1, <3>2 DEF FilledInv, OthersFilled
      <3> QED BY <3>1, <3>4, <3>5, FilledSame
    <2> QED BY <2>5 DEF OthersFilled
  <1>20. CASE GcDataDone
    <2>1. UNCHANGED <<fb, next, data>> /\ file'.block = file.block /\ file'.name = file.name
          /\ pc \notin {"gc_rewrite", "discard", "format"} /\ pc' \notin {"gc_rewrite", "discard", "format"}
      BY <1>20 DEF GcDataDone, Take, File
    <2> QED BY <2>1, OthersQuiet
  <1>21. CASE IndexCluster
    <2>1. /\ Attached /\ file.block \in Slots
          /\ fb' = [fb EXCEPT ![file.block] = [fb[file.block] EXCEPT !.cluster = job.head]]
          /\ file' = [file EXCEPT !.cluster = job.head, !.length = job.len]
      BY <1>21, IndexClusterWrites
    <2>2. pc = "index" /\ pc' \in {"index_length", "idle", "mark"} /\ UNCHANGED <<next, data>>
      BY <1>21 DEF IndexCluster, WriteRest
    <2>3. fb'[file.block].name = file.name
      BY <2>1 DEF FileBlock, Attached
    <2>4. file'.block = file.block /\ file'.name = file.name
      BY <2>1 DEF File
    <2> QED BY <2>1, <2>2, <2>3, <2>4, OthersBlock
  <1>22. CASE IndexLength
    <2>1. /\ file.block \in Slots /\ Attached
          /\ fb' = [fb EXCEPT ![file.block] = [fb[file.block] EXCEPT !.length = job.len]]
      BY <1>22, IndexLengthWrites
    <2>2. pc = "index_length" /\ pc' \in {"idle", "mark"} /\ UNCHANGED <<file, next, data>>
      BY <1>22 DEF IndexLength, WriteRest
    <2>3. fb'[file.block].name = file.name
      BY <2>1 DEF FileBlock, Attached
    <2> QED BY <2>1, <2>2, <2>3, OthersBlock
  <1>23. CASE IndexLink
    <2>1. /\ job.tail \in Sectors
          /\ next' = [next EXCEPT ![job.tail] = job.head]
          /\ file' = [file EXCEPT !.length = file.length + job.len]
      BY <1>23, IndexLinkWrites
    <2>2. UNCHANGED <<fb, data>> /\ pc = "index" /\ pc' \in {"idle", "mark"}
      BY <1>23 DEF IndexLink, WriteRest
    <2>3. job.tail \in Reach(file.cluster)
      BY <1>23 DEF IndexLink, InChainInv
    <2>4. file'.block = file.block /\ file'.name = file.name
      BY <2>1 DEF File
    <2>5. \A t \in Sectors : t # job.tail => next'[t] = next[t]
      BY <2>1
    <2> QED BY <2>2, <2>3, <2>4, <2>5, OthersWrite DEF Busy, Filling
  <1>24. CASE MarkSector
    <2>1. UNCHANGED <<fb, next, data>> /\ file'.block = file.block /\ file'.name = file.name
          /\ pc \notin {"gc_rewrite", "discard", "format"} /\ pc' \notin {"gc_rewrite", "discard", "format"}
      BY <1>24 DEF MarkSector, File
    <2> QED BY <2>1, OthersQuiet
  <1>25. CASE WriteData
    <2>1. PICK s \in job.todo : \E S : ProgramData(s, S)
      BY <1>25 DEF WriteData
    <2>2. UNCHANGED <<fb, file, next>> /\ pc = "data" /\ pc' \in {"idle", "link", "mark"}
      BY <1>25 DEF WriteData, WriteRest
    <2>3. s \in Reach(file.cluster)
      BY <2>2 DEF InChainInv, Filling
    <2>5. \A t \in Sectors : t # s => data'[t] = data[t]
      BY <2>1 DEF ProgramData
    <2> QED BY <2>2, <2>3, <2>5, OthersWrite DEF Busy, Filling
  <1>26. CASE LinkSector
    BY <1>26 DEF LinkSector, ShortInv
  <1>27. CASE FormatIndex
    BY <1>27 DEF FormatIndex, OthersFilled
  <1>28. CASE FormatData
    <2>1. CASE pc' = "format"
      BY <2>1 DEF OthersFilled
    <2>2. CASE pc' = "idle"
      <3>1. \A k \in Slots : fb'[k] = BlankBlock
        BY <1>28 DEF FormatData, ChainsInv, FormatInv
      <3>2. \A k \in Slots : ~HasName(Index'[k])
        BY <2>2, <3>1, IndexIsFlashNext DEF HasName, BlankBlock
      <3> QED BY <2>2, <3>2 DEF OthersFilled, Owners, Live
    <2> QED BY <1>28, <2>1, <2>2 DEF FormatData
  <1>29. CASE Crash
    <2>1. UNCHANGED <<fb, next, data>> /\ pc = "idle" /\ pc' = "idle" /\ MayReuse
      BY <1>29 DEF Crash, CallersKeepRules
    <2> QED BY <2>1, OthersFree
  <1>30. CASE UNCHANGED vars
    BY <1>30 DEF vars, FilledInv, OthersFilled, Owners, Live, Index, Mine
  <1> QED
    BY <1>1, <1>2, <1>3, <1>4, <1>5, <1>6, <1>7, <1>8, <1>9, <1>10, <1>11, <1>12,
       <1>13, <1>14, <1>15, <1>16, <1>17, <1>18, <1>19, <1>20, <1>21, <1>22, <1>23,
       <1>24, <1>25, <1>26, <1>27, <1>28, <1>29, <1>30
    DEF Next, Call, Step

\* The bytes AppendToTail writes come right behind the last one of the file.
LEMMA AppendFills ==
  ASSUME OnceInv, AppendToTail
  PROVE  \E size \in Nat :
           /\ file.length \in Nat /\ file' = [file EXCEPT !.length = file.length + size]
           /\ ProgramData(job.tail, (file.length % DataArea) .. (file.length % DataArea) + size - 1)
           /\ data[job.tail] \cap ((file.length % DataArea) .. (file.length % DataArea) + size - 1) = {}
           /\ data'[job.tail] \subseteq 0 .. ((file.length + size - 1) % DataArea)
           /\ Holds(next, data', file.cluster, file.length + size, {})
           /\ \/ pc' = "idle"
              \/ pc' = "alloc" /\ job'.op = job.op /\ (file.length + size) % DataArea = 0
  BY OnceIsCareful, CarefulAppend

\* WriteData fills the last sector of the file as far as its length says.
LEMMA DataFills ==
  ASSUME OnceInv, WriteData
  PROVE  \E s \in job.todo :
           /\ s \in Sectors /\ data[s] = {}
           /\ \E S : ProgramData(s, S)
           /\ data'[s] \subseteq 0 .. ((file.length - 1) % DataArea)
           /\ \A t \in Reach(file.cluster) : next[t] = Empty => t = s
           /\ Holds(next, data', file.cluster, file.length, {})
           /\ pc' = "idle"
  BY OnceIsCareful, CarefulData

LEMMA MineQuiet ==
  ASSUME FilledInv, UNCHANGED <<fb, next, data, file>>, ~Writing,
         pc \notin {"gc_rewrite", "discard", "format"},
         pc' \notin {"create", "gc_rewrite", "format"}
  PROVE  MineFilled'
  BY DEF FilledInv, MineFilled, Attached

LEMMA MineNext ==
  ASSUME CallersKeepRules, OnceInv, [Next]_vars
  PROVE  MineFilled'
  <1> USE DEF flash, ftl, Reject, Goto, Return
  <1>a. ChainsInv /\ TypeOK /\ TypeOK' /\ ShortInv /\ InChainInv /\ FilledInv /\ FinishInv
    BY TypeNext DEF OnceInv, FinishInv, ChainsInv
  <1> USE <1>a, SectorFacts DEF TypeOK

  <1>1. ASSUME NEW n \in Names, NEW ro \in ReadOnly, CreateCall(n, ro) PROVE MineFilled'
    <2>1. pc' = "create" /\ file'.cluster = Empty /\ file'.length = Empty
      BY <1>1 DEF CreateCall, CreateWith, NoFile
    <2> QED BY <2>1, FilledNone DEF MineFilled
  <1>2. ASSUME NEW n \in Names, OpenCall(n) PROVE MineFilled'
    <2>1. PICK k \in Named(n) : file' = [name |-> n, block |-> k, cluster |-> fb[k].cluster,
                                            length |-> fb[k].length]
      BY <1>2 DEF OpenCall
    <2>2. UNCHANGED <<pc, fb, next, data>> /\ pc = "idle" /\ MayReuse
      BY <1>2 DEF OpenCall
    <2>3. k \in Live /\ Index[k] = fb[k]
      BY <2>2, IndexIsFlash, ValueAssumption DEF Named, Live, HasName
    <2>4. Filled(next, data, fb[k].cluster, fb[k].length)
      BY <2>2, <2>3, AllFilled
    <2> QED BY <2>1, <2>2, <2>4 DEF MineFilled
  <1>3. ASSUME NEW len \in WriteLens, NEW method \in Methods, WriteCall(len, method) PROVE MineFilled'
    <2>1. UNCHANGED <<fb, next, data, file>> /\ pc = "idle" /\ ~Writing
          /\ pc' \notin {"create", "gc_rewrite", "format"}
      BY <1>3 DEF WriteCall, Writing, Filling
    <2> QED BY <2>1, MineQuiet DEF MineFilled
  <1>4. CASE FinishCall
    <2>1. CASE file.block = Empty
      <3>1. UNCHANGED <<fb, next, data, file, pc>> /\ pc = "idle"
        BY <1>4, <2>1 DEF FinishCall
      <3> QED BY <3>1, MineQuiet DEF Writing, Filling
    <2>2. CASE file.block # Empty /\ fb[file.block].length = Empty
      <3>1. Attached /\ pc = "idle" /\ UNCHANGED <<file, next, data>>
        BY <1>4, <2>2, FinishFills
      <3> QED BY <3>1 DEF FilledInv, MineFilled, Writing, Filling
    <2>3. CASE file.block # Empty /\ fb[file.block].length # Empty
      <3>1. pc = "idle" /\ UNCHANGED <<file, next, data>> /\ MayUse
        BY <1>4, <2>3 DEF FinishCall
      <3>2. Attached
        BY <2>3, <3>1, CallerIsAttached
      <3> QED BY <3>1, <3>2 DEF FilledInv, MineFilled, Writing, Filling
    <2> QED BY <2>1, <2>2, <2>3
  <1>5. ASSUME NEW n \in Names, RenameCall(n) PROVE MineFilled'
    <2>1. CASE UNCHANGED <<fb, next, data, file, pc>>
      <3>1. pc = "idle"
        BY <1>5 DEF RenameCall
      <3> QED BY <2>1, <3>1, MineQuiet DEF Writing, Filling
    <2>2. CASE file.block # Empty /\ file' = [file EXCEPT !.name = n] /\ UNCHANGED <<next, data>>
      <3>1. pc = "idle" /\ MayUse /\ file'.cluster = file.cluster /\ file'.length = file.length
        BY <1>5, <2>2 DEF RenameCall, File
      <3>2. Attached
        BY <2>2, <3>1, CallerIsAttached
      <3> QED BY <2>2, <3>1, <3>2 DEF FilledInv, MineFilled, Writing, Filling
    <2> QED BY <1>5, <2>1, <2>2 DEF RenameCall
  <1>6. CASE DeleteCall
    BY <1>6 DEF DeleteCall, MineFilled
  <1>7. CASE FormatCall
    BY <1>7 DEF FormatCall, MineFilled
  <1>8. CASE CreateExists
    <2>1. UNCHANGED <<file, next, data>> /\ pc = "create"
      BY <1>8 DEF CreateExists
    <2> QED BY <2>1 DEF FilledInv, MineFilled
  <1>9. CASE CreateBlock
    <2>1. UNCHANGED <<next, data>> /\ pc = "create" /\ \E k : file' = [file EXCEPT !.block = k]
      BY <1>9 DEF CreateBlock
    <2>2. file'.cluster = file.cluster /\ file'.length = file.length
      BY <2>1 DEF File
    <2> QED BY <2>1, <2>2 DEF FilledInv, MineFilled
  <1>10. CASE GcIndexErase
    <2>1. UNCHANGED <<file, next, data>> /\ pc = "create"
      BY <1>10 DEF GcIndexErase
    <2> QED BY <2>1 DEF FilledInv, MineFilled
  <1>11. CASE GcIndexRewrite
    <2>1. UNCHANGED <<file, next, data>> /\ pc = "gc_rewrite"
      BY <1>11 DEF GcIndexRewrite
    <2> QED BY <2>1 DEF FilledInv, MineFilled
  <1>12. CASE CreateNoSpace
    <2>1. UNCHANGED <<file, next, data>> /\ pc = "create"
      BY <1>12 DEF CreateNoSpace
    <2> QED BY <2>1 DEF FilledInv, MineFilled
  <1>13. CASE DiscardSector
    BY <1>13 DEF DiscardSector, MineFilled
  <1>14. CASE OverrideBlock
    <2>1. file.cluster = Empty /\ file' = [file EXCEPT !.length = Empty]
      BY <1>14 DEF OverrideBlock
    <2>2. file'.cluster = Empty /\ file'.length = Empty
      BY <2>1 DEF File
    <2> QED BY <2>2, FilledNone DEF MineFilled
  <1>15. CASE DeleteDone
    <2>1. pc' = "idle" /\ file'.block = Empty
      BY <1>15 DEF DeleteDone, NoFile
    <2> QED BY <2>1 DEF MineFilled, Attached
  <1>16. CASE Walk
    <2>1. UNCHANGED <<fb, next, data, file>> /\ ~Writing
          /\ pc \notin {"gc_rewrite", "discard", "format"} /\ pc' \notin {"create", "gc_rewrite", "discard", "format"}
      BY <1>16 DEF Walk, Writing, Filling
    <2> QED BY <2>1, MineQuiet
  <1>17. CASE AppendToTail
    <2>1. PICK size \in Nat :
            /\ file.length \in Nat
            /\ file' = [file EXCEPT !.length = file.length + size]
            /\ data' = [data EXCEPT ![job.tail] =
                          @ \cup (file.length % DataArea) .. (file.length % DataArea) + size - 1]
            /\ data'[job.tail] \subseteq 0 .. ((file.length + size - 1) % DataArea)
            /\ Holds(next, data', file.cluster, file.length + size, {})
      BY <1>17, AppendFills DEF ProgramData
    <2>2. UNCHANGED next /\ pc = "partial" /\ file'.cluster = file.cluster /\ file'.length = file.length + size
      BY <1>17, <2>1 DEF AppendToTail, File
    <2>3. next[job.tail] = Empty /\ job.tail \in Reached(next, file.cluster) /\ job.tail \in Sectors
      BY <2>2 DEF ChainsInv, TailInv, InChainInv, Reach
    <2>4. \A s \in Reached(next, file.cluster) : next[s] = Empty => s = job.tail
      BY <2>3, OneEnd
    <2>5. \A s \in Reached(next', file'.cluster) : next'[s] = Empty => s = job.tail
      BY <2>2, <2>4
    <2>6. data'[job.tail] \subseteq 0 .. ((file'.length - 1) % DataArea)
      <3>1. file'.length - 1 = file.length + size - 1
        BY <2>1, <2>2
      <3> QED BY <2>1, <3>1
    <2>7. Filled(next', data', file'.cluster, file'.length)
      BY <2>1, <2>2, <2>5, <2>6 DEF Filled
    <2> QED BY <2>7 DEF MineFilled
  <1>18. CASE Allocate
    <2>1. UNCHANGED <<fb, next, data, file>> /\ ~Writing
          /\ pc \notin {"gc_rewrite", "discard", "format"} /\ pc' \notin {"create", "gc_rewrite", "discard", "format"}
      BY <1>18 DEF Allocate, Take, Writing, Filling
    <2> QED BY <2>1, MineQuiet
  <1>19. CASE GcDataErase
    <2>1. PICK s \in erasable : EraseSector(s)
      BY <1>19 DEF GcDataErase
    <2>2. pc = "gc_data" /\ pc' = "gc_data" /\ UNCHANGED file
      BY <1>19 DEF GcDataErase
    <2>3. mark[s] = "discard" /\ s \in Sectors
      BY DEF ChainsInv, TablesInv
    <2>4. \A t \in Reached(next, file.cluster) : t \in Sectors /\ mark[t] = "inuse"
      BY <2>2, BusyChain, ChainsInUse DEF Busy, Reach, Target
    <2>5. \A t \in Reached(next, file.cluster) : next'[t] = next[t] /\ data'[t] = data[t]
      BY <2>1, <2>3, <2>4 DEF EraseSector
    <2>6. Attached
      BY <2>2 DEF ChainsInv, FileInv, Busy
    <2>7. Filled(next, data, file.cluster, file.length)
      BY <2>2, <2>6 DEF FilledInv, MineFilled, Writing, Filling
    <2>8. Filled(next', data', file.cluster, file.length)
      BY <2>5, <2>7, FilledSame
    <2> QED BY <2>2, <2>8 DEF MineFilled
  <1>20. CASE GcDataDone
    <2>1. UNCHANGED <<fb, next, data, file>> /\ ~Writing
          /\ pc \notin {"gc_rewrite", "discard", "format"} /\ pc' \notin {"create", "gc_rewrite", "discard", "format"}
      BY <1>20 DEF GcDataDone, Take, Writing, Filling
    <2> QED BY <2>1, MineQuiet
  <1>21. CASE IndexCluster
    <2>1. Writing'
      <3>1. job.todo # {}
        BY <1>21 DEF IndexCluster, ChainsInv, WritingInv, Filling
      <3> QED BY <1>21, <3>1 DEF IndexCluster, WriteRest, Writing, Filling
    <2> QED BY <2>1 DEF MineFilled, Writing, Filling
  <1>22. CASE IndexLength
    <2>1. Writing'
      <3>1. job.todo # {}
        BY <1>22 DEF IndexLength, ChainsInv, WritingInv, Filling
      <3> QED BY <1>22, <3>1 DEF IndexLength, WriteRest, Writing, Filling
    <2> QED BY <2>1 DEF MineFilled, Writing, Filling
  <1>23. CASE IndexLink
    <2>1. Writing'
      <3>1. job.todo # {}
        BY <1>23 DEF IndexLink, ChainsInv, WritingInv, Filling
      <3> QED BY <1>23, <3>1 DEF IndexLink, WriteRest, Writing, Filling
    <2> QED BY <2>1 DEF MineFilled, Writing, Filling
  <1>24. CASE MarkSector
    BY <1>24 DEF MarkSector, MineFilled, Writing, Filling
  <1>25. CASE WriteData
    <2>1. PICK s \in job.todo :
            /\ s \in Sectors /\ data'[s] \subseteq 0 .. ((file.length - 1) % DataArea)
            /\ \A t \in Reach(file.cluster) : next[t] = Empty => t = s
            /\ Holds(next, data', file.cluster, file.length, {})
      BY <1>25, DataFills
    <2>2. UNCHANGED <<file, next>>
      BY <1>25 DEF WriteData
    <2>3. Filled(next', data', file'.cluster, file'.length)
      BY <2>1, <2>2 DEF Filled, Reach
    <2> QED BY <2>3 DEF MineFilled
  <1>26. CASE LinkSector
    BY <1>26 DEF LinkSector, ShortInv
  <1>27. CASE FormatIndex
    BY <1>27 DEF FormatIndex, MineFilled
  <1>28. CASE FormatData
    <2>1. CASE pc' = "format"
      BY <2>1 DEF MineFilled
    <2>2. CASE pc' = "idle"
      <3>1. UNCHANGED file /\ \A k \in Slots : fb'[k] = BlankBlock
        BY <1>28 DEF FormatData, ChainsInv, FormatInv
      <3>2. ~Attached'
        <4>1. file.block # Empty => file.block \in Slots /\ file.name \in Names
          BY DEF ChainsInv, FileInv, File
        <4> QED BY <3>1, <4>1, ValueAssumption DEF Attached, BlankBlock
      <3> QED BY <2>2, <3>2 DEF MineFilled
    <2> QED BY <1>28, <2>1, <2>2 DEF FormatData
  <1>29. CASE Crash
    <2>1. pc' = "idle" /\ file'.block = Empty
      BY <1>29 DEF Crash, NoFile
    <2> QED BY <2>1 DEF MineFilled, Attached
  <1>30. CASE UNCHANGED vars
    BY <1>30 DEF vars, FilledInv, MineFilled, Attached, Writing, Filling
  <1> QED
    BY <1>1, <1>2, <1>3, <1>4, <1>5, <1>6, <1>7, <1>8, <1>9, <1>10, <1>11, <1>12,
       <1>13, <1>14, <1>15, <1>16, <1>17, <1>18, <1>19, <1>20, <1>21, <1>22, <1>23,
       <1>24, <1>25, <1>26, <1>27, <1>28, <1>29, <1>30
    DEF Next, Call, Step

LEMMA LastNext ==
  ASSUME CallersKeepRules, ShortWrites, OnceInv, [Next]_vars
  PROVE  LastInv'
  BY OnceIsCareful, CallersAreCareful, CarefulLast

LEMMA PartNext ==
  ASSUME CallersKeepRules, ShortWrites, OnceInv, [Next]_vars
  PROVE  PartInv'
  BY OnceIsCareful, CallersAreCareful, CarefulPart

LEMMA ClobberedNext ==
  ASSUME CallersKeepRules, ShortWrites, OnceInv, [Next]_vars
  PROVE  clobbered' = {}
  BY OnceIsCareful, CallersAreCareful, CarefulClobbers

LEMMA OnceInit == Init => OnceInv
  <1> SUFFICES ASSUME Init PROVE OnceInv
    OBVIOUS
  <1>1. /\ FinishInv /\ job.op = "none" /\ pc = "idle" /\ clobbered = {}
        /\ file.block = Empty /\ \A k \in Slots : fb[k] = BlankBlock
    BY FinishInit DEF Init, NoJob, NoFile, BlankTable
  <1>2. ShortInv /\ InChainInv /\ LastInv /\ PartInv
    BY <1>1 DEF ShortInv, InChainInv, LastInv, PartInv, Writing, Filling
  <1>3. Live = {} /\ ~Attached
    BY <1>1, IndexIsFlash DEF Live, HasName, BlankBlock, Attached
  <1> QED BY <1>1, <1>2, <1>3 DEF OnceInv, FilledInv, OthersFilled, MineFilled, Owners

LEMMA OnceNext == CallersKeepRules /\ ShortWrites /\ OnceInv /\ [Next]_vars => OnceInv'
  BY FinishNext, ShortNext, InChainNext, OthersNext, MineNext, LastNext, PartNext, ClobberedNext
  DEF OnceInv, FilledInv

\* When callers keep the rules of CallersKeepRules and write at most a sector at a
\* time, no byte of the flash is programmed twice between two erases, and no word
\* over another.
THEOREM FlashIsProgrammedOnce ==
  ASSUME CallersKeepRules, ShortWrites
  PROVE  Spec => []ProgramOnce
  <1>1. OnceInv /\ [Next]_vars => OnceInv'
    BY OnceNext
  <1>2. OnceInv => ProgramOnce
    BY DEF OnceInv, FinishInv, ChainsInv, WordsInv, FilledInv, ProgramOnce
  <1> QED BY <1>1, <1>2, OnceInit, PTL DEF Spec

-----------------------------------------------------------------------------
(***************************************************************************)
(* Iteration.                                                              *)
(***************************************************************************)
-----------------------------------------------------------------------------
(***************************************************************************)
(* Files are whole.                                                        *)
(***************************************************************************)
\* Between calls a file whose length is recorded is filled as far as that says, and
\* the one the caller appends to as far as its File says.
LEMMA FilesAreFilled ==
  ASSUME OnceInv, pc = "idle"
  PROVE  /\ \A k \in Live : fb[k].length # Empty /\ ~(k = file.block /\ Unfinished) =>
              Holds(next, data, fb[k].cluster, fb[k].length, {})
         /\ Unfinished /\ file.cluster # Empty => Holds(next, data, file.cluster, file.length, {})
  <1>a. ChainsInv /\ FileInv /\ FilledInv
    BY DEF OnceInv, FinishInv, ChainsInv
  <1>1. ASSUME NEW k \in Live, fb[k].length # Empty, ~(k = file.block /\ Unfinished)
        PROVE  Holds(next, data, fb[k].cluster, fb[k].length, {})
    <2>1. k \in Slots /\ Index[k] = fb[k] /\ IsOpen(fb[k]) /\ k \in Owners
      BY IndexIsFlash DEF Live, Owners
    <2>2. CASE ~Mine(k)
      BY <1>1, <1>a, <2>1, <2>2 DEF FilledInv, OthersFilled, Filled
    <2>3. CASE Mine(k)
      <3>1. Attached
        <4>1. k # Empty
          BY <2>1, SlotsAssumption, ValueAssumption
        <4> QED BY <2>1, <2>3, <4>1 DEF Mine, Attached
      <3>2. fb[k].length = file.length /\ fb[k].cluster = file.cluster
        BY <1>1, <1>a, <2>3, <3>1 DEF Mine, Unfinished, FileInv, Holding
      <3> QED BY <1>1, <1>a, <3>1, <3>2 DEF FilledInv, MineFilled, Writing, Filling, Filled
    <2> QED BY <2>2, <2>3
  <1>2. ASSUME Unfinished, file.cluster # Empty
        PROVE  Holds(next, data, file.cluster, file.length, {})
    BY <1>2, <1>a DEF Unfinished, FileInv, FilledInv, MineFilled, Writing, Filling, Filled
  <1> QED BY <1>1, <1>2

LEMMA FilesAreWhole ==
  ASSUME OnceInv
  PROVE  WholeFiles
  <1> SUFFICES ASSUME pc = "idle"
               PROVE  /\ \A k \in Live : fb[k].length # Empty /\ ~(k = file.block /\ Unfinished) => Whole(fb[k])
                      /\ Unfinished /\ file.cluster # Empty => Whole(file)
    BY DEF WholeFiles
  <1>a. ChainsInv /\ TypeOK /\ FileInv /\ clobbered = {}
    BY DEF OnceInv, FinishInv, ChainsInv, FilledInv
  <1>1. ASSUME NEW k \in Live PROVE \A s \in Reach(fb[k].cluster) : mark[s] = "inuse"
    <2>1. Index[k] = fb[k] /\ k \in Owners
      BY IndexIsFlash DEF Live, Owners
    <2> QED BY <1>a, <2>1, ChainsInUse DEF Chain, Target
  <1>2. ASSUME Unfinished PROVE \A s \in Reach(file.cluster) : mark[s] = "inuse"
    <2>1. file.block \in Live
      BY <1>a, <1>2, AttachedFacts DEF Unfinished
    <2>2. fb[file.block].cluster = file.cluster
      BY <1>a, <1>2 DEF Unfinished, FileInv, Holding
    <2> QED BY <1>1, <2>1, <2>2
  <1> QED BY <1>a, <1>1, <1>2, FilesAreFilled, HoldingIsWhole

-----------------------------------------------------------------------------
(***************************************************************************)
(* Files are read byte for byte.                                           *)
(***************************************************************************)
\* n links further.
LEMMA NthAfter ==
  ASSUME TypeOK, NEW c, NEW m \in Nat
  PROVE  \A n \in Nat : NthSector(NthSector(c, m), n) = NthSector(c, m + n)
  <1> DEFINE d == NthSector(c, m)
             T == {n \in Nat : NthSector(d, n) = NthSector(c, m + n)}
  <1>1. 0 \in T
    BY NthSteps
  <1>2. ASSUME NEW n \in T PROVE n + 1 \in T
    <2>1. n \in Nat /\ NthSector(d, n) = NthSector(c, m + n)
      OBVIOUS
    <2> HIDE DEF d
    <2>2. NthSector(d, n + 1) = Follow(NthSector(d, n))
      BY <2>1, NthSteps
    <2>3. m + n \in Nat /\ m + (n + 1) = (m + n) + 1
      BY <2>1
    <2>4. NthSector(c, (m + n) + 1) = Follow(NthSector(c, m + n))
      BY <2>3, NthSteps
    <2> QED BY <2>1, <2>2, <2>3, <2>4
  <1>3. T = Nat
    <2> HIDE DEF T
    <2>1. T \in SUBSET Nat
      BY DEF T
    <2> QED BY <1>1, <1>2, <2>1, FromZeroOn
  <1> QED BY <1>3

\* Two runs that meet are one.
LEMMA RunsMeet ==
  ASSUME NEW s, NEW at \in Nat, NEW m \in Nat, NEW n \in Nat
  PROVE  Run(s, at, m) \o Run(s, at + m, n) = Run(s, at, m + n)
  <1> DEFINE B == {s} \X Nat
             u == Run(s, at, m)
             v == Run(s, at + m, n)
             w == Run(s, at, m + n)
  <1>1. u \in Seq(B) /\ Len(u) = m /\ \A i \in 1 .. m : u[i] = <<s, at + i - 1>>
    BY DEF Run
  <1>2. v \in Seq(B) /\ Len(v) = n /\ \A i \in 1 .. n : v[i] = <<s, at + m + i - 1>>
    BY DEF Run
  <1>3. w \in Seq(B) /\ Len(w) = m + n /\ \A i \in 1 .. m + n : w[i] = <<s, at + i - 1>>
    BY DEF Run
  <1> HIDE DEF B, u, v, w
  <1>4. /\ u \o v \in Seq(B) /\ Len(u \o v) = m + n
        /\ \A i \in 1 .. m + n : (u \o v)[i] = IF i <= m THEN u[i] ELSE v[i - m]
    BY <1>1, <1>2, ConcatProperties
  <1>5. ASSUME NEW i \in 1 .. m + n PROVE (u \o v)[i] = w[i]
    <2>1. CASE i <= m
      <3>1. (u \o v)[i] = u[i]
        BY <1>4, <2>1
      <3>2. u[i] = <<s, at + i - 1>> /\ w[i] = <<s, at + i - 1>>
        BY <1>1, <1>3, <2>1
      <3> QED BY <3>1, <3>2
    <2>2. CASE ~(i <= m)
      <3>1. i - m \in 1 .. n /\ at + m + (i - m) - 1 = at + i - 1
        BY <2>2
      <3>2. v[i - m] = <<s, at + m + (i - m) - 1>>
        BY <1>2, <3>1
      <3>3. v[i - m] = <<s, at + i - 1>>
        BY <3>1, <3>2
      <3>4. (u \o v)[i] = v[i - m]
        BY <1>4, <2>2
      <3>5. w[i] = <<s, at + i - 1>>
        BY <1>3
      <3> QED BY <3>3, <3>4, <3>5
    <2> QED BY <2>1, <2>2
  <1>6. u \o v = w
    BY <1>3, <1>4, <1>5, SeqEqual
  <1> QED BY <1>6 DEF u, v, w

\* Words and what is before and behind them are one run.
LEMMA ReadInWords ==
  ASSUME NEW misaligned \in 0 .. WordSize - 1, NEW s, NEW at \in Nat, NEW size \in Nat
  PROVE  align_read_impl(misaligned, s, at, size) = Run(s, at, size)
  <1> DEFINE toread == IF misaligned = 0 THEN 0 ELSE Smaller(WordSize - misaligned, size)
             rest   == size - toread
             words  == rest - (rest % WordSize)
  <1>1. toread \in Nat /\ rest \in Nat /\ toread + rest = size
    BY DEF Smaller, WordSize
  <1> HIDE DEF toread, rest
  <1> DEFINE more == rest - words
  <1>2. words \in Nat /\ more \in Nat /\ toread + words + more = size
    <2>1. rest % 4 \in 0 .. 3 /\ rest % 4 <= rest
      BY <1>1, SMT
    <2> QED BY <1>1, <2>1 DEF WordSize
  <1>3. align_read_impl(misaligned, s, at, size) =
          Run(s, at, toread) \o Run(s, at + toread, words) \o Run(s, at + toread + words, more)
    BY DEF align_read_impl, toread, rest
  <1> DEFINE l == toread + words
  <1>4. l \in Nat /\ l + more = size /\ at + toread + words = at + l
    BY <1>1, <1>2
  <1> HIDE DEF words, more
  <1>5. Run(s, at, toread) \o Run(s, at + toread, words) = Run(s, at, l)
    <2>1. toread \in Nat /\ words \in Nat
      BY <1>1, <1>2
    <2> QED BY <2>1, RunsMeet
  <1> HIDE DEF l
  <1>6. Run(s, at, l) \o Run(s, at + l, more) = Run(s, at, l + more)
    <2>1. l \in Nat /\ more \in Nat
      BY <1>2, <1>4
    <2> QED BY <2>1, RunsMeet
  <1> QED BY <1>3, <1>4, <1>5, <1>6

\* What is read from byte "from" of a chain on.
Stretch(s, from, left) == [i \in 1 .. left |-> ReadByte(s, from + i - 1)]

\* It begins with a run of the first sector.
LEMMA StretchInSector ==
  ASSUME TypeOK, NEW s \in Sectors \cup Words, NEW from \in Bytes, NEW left \in Nat, left <= DataArea - from
  PROVE  Stretch(s, from, left) = Run(s, from, left)
  <1> SUFFICES ASSUME NEW i \in 1 .. left PROVE ReadByte(s, from + i - 1) = <<s, from + i - 1>>
    BY DEF Stretch, Run
  <1>1. from + i - 1 \in 0 .. DataArea - 1 /\ from + i - 1 = DataArea * 0 + (from + i - 1)
    BY SizeAssumption DEF Bytes
  <1>2. (from + i - 1) \div DataArea = 0 /\ (from + i - 1) % DataArea = from + i - 1
    BY <1>1, DivUnique
  <1> QED BY <1>2, NthSteps DEF ReadByte

\* It goes on in the next one.
LEMMA StretchGoesOn ==
  ASSUME TypeOK, NEW s \in Sectors \cup Words, NEW from \in Bytes, NEW left \in Nat, left > DataArea - from
  PROVE  Stretch(s, from, left) = Run(s, from, DataArea - from) \o Stretch(Follow(s), 0, left - (DataArea - from))
  <1> DEFINE m == DataArea - from
             n == left - m
             d == Follow(s)
             B == (Sectors \cup Words) \X Nat
             u == Run(s, from, m)
             v == Stretch(d, 0, n)
             w == Stretch(s, from, left)
  <1>1. m \in Nat /\ n \in Nat /\ m + n = left /\ m >= 1 /\ from \in Nat /\ from + m = DataArea
    BY SizeAssumption DEF Bytes
  <1>2. d \in Sectors \cup Words
    BY FollowStays
  <1>3. ASSUME NEW c \in Sectors \cup Words, NEW i \in Nat PROVE ReadByte(c, i) \in B
    <2>1. i \div DataArea \in Nat /\ i % DataArea \in Nat
      BY DivMod, SizeAssumption
    <2>2. NthSector(c, i \div DataArea) \in Sectors \cup Words
      BY <2>1, NthSteps
    <2> QED BY <2>1, <2>2 DEF ReadByte
  <1> HIDE DEF m, n, d, B
  <1>4. u \in Seq(B) /\ Len(u) = m /\ u = Stretch(s, from, m)
    <2>1. u = Stretch(s, from, m)
      BY <1>1, StretchInSector DEF m
    <2>2. Stretch(s, from, m) \in [1 .. m -> B]
      BY <1>1, <1>3 DEF Stretch
    <2> HIDE DEF u
    <2> QED BY <1>1, <2>1, <2>2
  <1>5. v \in Seq(B) /\ Len(v) = n /\ \A i \in 1 .. n : v[i] = ReadByte(d, i - 1)
    <2>1. v \in [1 .. n -> B]
      BY <1>1, <1>2, <1>3 DEF Stretch
    <2>2. \A i \in 1 .. n : v[i] = ReadByte(d, i - 1)
      BY <1>1 DEF Stretch
    <2> HIDE DEF v
    <2> QED BY <1>1, <2>1, <2>2
  <1>6. w \in Seq(B) /\ Len(w) = m + n /\ \A i \in 1 .. m + n : w[i] = ReadByte(s, from + i - 1)
    <2>1. w \in [1 .. left -> B]
      BY <1>1, <1>3 DEF Stretch
    <2>2. \A i \in 1 .. left : w[i] = ReadByte(s, from + i - 1)
      BY DEF Stretch
    <2> HIDE DEF w
    <2> QED BY <1>1, <2>1, <2>2
  <1>7. \A i \in 1 .. m : u[i] = ReadByte(s, from + i - 1)
    BY <1>4 DEF Stretch
  <1> HIDE DEF u, v, w
  <1>8. /\ u \o v \in Seq(B) /\ Len(u \o v) = m + n
        /\ \A i \in 1 .. m + n : (u \o v)[i] = IF i <= m THEN u[i] ELSE v[i - m]
    BY <1>4, <1>5, ConcatProperties
  <1>9. ASSUME NEW j \in Nat PROVE ReadByte(s, DataArea + j) = ReadByte(d, j)
    <2>1. j = DataArea * (j \div DataArea) + (j % DataArea) /\ j \div DataArea \in Nat /\ j % DataArea \in 0 .. DataArea - 1
      BY DivMod
    <2> DEFINE q == j \div DataArea
               r == j % DataArea
    <2> HIDE DEF q, r
    <2>2. DataArea + j = DataArea * (q + 1) + r /\ q + 1 \in Nat /\ q \in Nat /\ r \in 0 .. DataArea - 1
      BY <2>1, SizeAssumption, SMT DEF q, r
    <2>3. (DataArea + j) \div DataArea = q + 1 /\ (DataArea + j) % DataArea = r
      BY <2>2, DivUnique
    <2>4. NthSector(s, 1) = d
      <3>1. 0 \in Nat /\ 0 + 1 = 1
        OBVIOUS
      <3>2. NthSector(s, 0 + 1) = Follow(NthSector(s, 0)) /\ NthSector(s, 0) = s
        BY <3>1, NthSteps
      <3> QED BY <3>1, <3>2 DEF d
    <2>5. NthSector(s, 1 + q) = NthSector(d, q)
      BY <2>2, <2>4, NthAfter
    <2>6. 1 + q = q + 1
      BY <2>2
    <2> QED BY <2>3, <2>5, <2>6 DEF ReadByte, q, r
  <1>10. ASSUME NEW i \in 1 .. m + n PROVE (u \o v)[i] = w[i]
    <2>1. CASE i <= m
      BY <1>1, <1>6, <1>7, <1>8, <2>1
    <2>2. CASE ~(i <= m)
      <3>1. i - m \in 1 .. n /\ (i - m) - 1 \in Nat /\ from + i - 1 = DataArea + ((i - m) - 1)
        BY <1>1, <2>2, SizeAssumption
      <3>2. v[i - m] = ReadByte(d, (i - m) - 1)
        BY <1>5, <3>1
      <3>3. ReadByte(s, DataArea + ((i - m) - 1)) = ReadByte(d, (i - m) - 1)
        BY <1>9, <3>1
      <3> QED BY <1>6, <1>8, <2>2, <3>1, <3>2, <3>3
    <2> QED BY <2>1, <2>2
  <1>11. u \o v = w
    BY <1>6, <1>8, <1>10, SeqEqual
  <1> QED BY <1>11 DEF u, v, w, m, n, d


\* read_file returns the bytes of the chain from the offset to the end of the file.
LEMMA ReadIsExact ==
  ASSUME TypeOK, NEW f, f.length \in Nat, f.cluster \in Sectors \cup Words, f.block # Empty,
         IsOpen(fb[f.block]), NEW offset \in Nat, NEW length \in Nat, NEW end,
         end = Smaller(f.length, offset + length)
  PROVE  read_file(f, offset, length) =
           [i \in 1 .. (IF offset < end THEN end - offset ELSE 0) |-> ReadByte(f.cluster, offset + i - 1)]
  <1> DEFINE size    == Smaller(f.length - offset, length)
             sectors == offset \div DataArea
             first   == NthSector(f.cluster, sectors)
             at      == offset - sectors * DataArea
             Turns   == (Sectors \cup Words) \X Bytes \X (0 .. size)
             \* A turn of the loop, and the bytes it and the later ones read.
             Turn(L, s, from, left) ==
               LET read_size == DataArea - from
                   cursor    == size - left
               IN  IF left > read_size
                   THEN align_read_impl(cursor % WordSize, s, from, read_size) \o
                        L[<<Follow(s), 0, left - read_size>>]
                   ELSE align_read_impl(cursor % WordSize, s, from, left)
             Is(L) == L = [turn \in Turns |-> Turn(L, turn[1], turn[2], turn[3])]
             Loop == CHOOSE L : Is(L)
             whole == [turn \in Turns |-> Stretch(turn[1], turn[2], turn[3])]
  <1>1. read_file(f, offset, length) = IF offset >= f.length THEN <<>> ELSE Loop[<<first, at, size>>]
    BY DEF read_file
  <1>2. CASE offset >= f.length
    <2>1. ~(offset < end)
      BY <1>2 DEF Smaller
    <2> HIDE DEF Loop
    <2> QED BY <1>1, <1>2, <2>1
  <1>3. CASE ~(offset >= f.length)
    <2>1. size \in Nat /\ (IF offset < end THEN end - offset ELSE 0) = size
      BY <1>3 DEF Smaller
    <2>2. offset = DataArea * sectors + (offset % DataArea) /\ sectors \in Nat /\ offset % DataArea \in 0 .. DataArea - 1
      BY DivMod
    <2>3. at \in Bytes /\ offset = DataArea * sectors + at
      <3> HIDE DEF sectors
      <3> QED BY <2>2, SizeAssumption, SMT DEF Bytes
    <2>4. first \in Sectors \cup Words
      BY <2>2, NthSteps
    <2> HIDE DEF size, sectors, first, at
    <2>5. ASSUME NEW s \in Sectors \cup Words, NEW from \in Bytes, NEW left \in 0 .. size
          PROVE  LET read_size == DataArea - from
                     cursor    == size - left
                 IN  /\ left > read_size =>
                          /\ Follow(s) \in Sectors \cup Words /\ 0 \in Bytes
                          /\ left - read_size \in 0 .. size /\ left - read_size < left
                          /\ Stretch(s, from, left) =
                               align_read_impl(cursor % WordSize, s, from, read_size) \o
                               Stretch(Follow(s), 0, left - read_size)
                     /\ ~(left > read_size) =>
                          Stretch(s, from, left) = align_read_impl(cursor % WordSize, s, from, left)
      <3> DEFINE read_size == DataArea - from
                 cursor    == size - left
                 misaligned == cursor % WordSize
      <3>1. read_size \in Nat /\ read_size >= 1 /\ cursor \in Nat /\ left \in Nat /\ from \in Nat /\ 0 \in Bytes
        BY <2>1, SizeAssumption DEF Bytes
      <3>2. misaligned \in 0 .. WordSize - 1
        <4> HIDE DEF cursor
        <4> QED BY <3>1 DEF WordSize
      <3> HIDE DEF cursor, misaligned
      <3>3. align_read_impl(misaligned, s, from, read_size) = Run(s, from, read_size)
        BY <3>1, <3>2, ReadInWords
      <3>4. align_read_impl(misaligned, s, from, left) = Run(s, from, left)
        BY <3>1, <3>2, ReadInWords
      <3>5. left > read_size =>
              /\ left - read_size \in 0 .. size /\ left - read_size < left
              /\ Stretch(s, from, left) = Run(s, from, read_size) \o Stretch(Follow(s), 0, left - read_size)
        BY <2>1, <3>1, StretchGoesOn
      <3>6. ~(left > read_size) => Stretch(s, from, left) = Run(s, from, left)
        BY <3>1, StretchInSector
      <3>7. Follow(s) \in Sectors \cup Words
        BY FollowStays
      <3> QED BY <3>1, <3>3, <3>4, <3>5, <3>6, <3>7 DEF misaligned, cursor
    <2>6. \A turn \in Turns :
            /\ turn[1] \in Sectors \cup Words /\ turn[2] \in Bytes /\ turn[3] \in 0 .. size
            /\ turn = <<turn[1], turn[2], turn[3]>>
      OBVIOUS
    <2>7. ASSUME NEW s \in Sectors \cup Words, NEW from \in Bytes, NEW left \in 0 .. size
          PROVE  <<s, from, left>> \in Turns
      OBVIOUS
    <2> HIDE DEF Turns
    <2>8. ASSUME NEW turn \in Turns
          PROVE  whole[turn] = Turn(whole, turn[1], turn[2], turn[3])
      <3> DEFINE s == turn[1]
                 from == turn[2]
                 left == turn[3]
                 read_size == DataArea - from
      <3>1. s \in Sectors \cup Words /\ from \in Bytes /\ left \in 0 .. size
        BY <2>6
      <3>2. whole[turn] = Stretch(s, from, left)
        OBVIOUS
      <3> HIDE DEF s, from, left
      <3>3. CASE left > read_size
        <4> DEFINE rest == <<Follow(s), 0, left - read_size>>
        <4>1. Follow(s) \in Sectors \cup Words /\ 0 \in Bytes /\ left - read_size \in 0 .. size
          BY <2>5, <3>1, <3>3
        <4>2. rest \in Turns /\ rest[1] = Follow(s) /\ rest[2] = 0 /\ rest[3] = left - read_size
          BY <2>7, <4>1
        <4> HIDE DEF rest
        <4>3. whole[rest] = Stretch(Follow(s), 0, left - read_size)
          BY <4>2
        <4> HIDE DEF whole
        <4>4. whole[<<Follow(s), 0, left - read_size>>] = Stretch(Follow(s), 0, left - read_size)
          BY <4>3 DEF rest
        <4>5. Turn(whole, s, from, left) = Stretch(s, from, left)
          BY <2>5, <3>1, <3>3, <4>4
        <4> QED BY <3>2, <4>5 DEF s, from, left
      <3>4. CASE ~(left > read_size)
        <4> HIDE DEF whole
        <4>1. Turn(whole, s, from, left) = Stretch(s, from, left)
          BY <2>5, <3>1, <3>4
        <4> QED BY <3>2, <4>1 DEF s, from, left
      <3> QED BY <3>3, <3>4
    <2>9. Is(Loop)
      <3>1. Is(whole)
        <4> DEFINE new == [turn \in Turns |-> Turn(whole, turn[1], turn[2], turn[3])]
        <4> HIDE DEF Turn
        <4>1. \A turn \in Turns : whole[turn] = new[turn]
          BY <2>8
        <4>2. whole = new
          BY <4>1
        <4> QED BY <4>2
      <3> HIDE DEF Is, whole
      <3> QED BY <3>1
    <2> HIDE DEF Loop, whole
    <2>10. ASSUME NEW s \in Sectors \cup Words, NEW from \in Bytes, NEW left \in 0 .. size
           PROVE  Loop[<<s, from, left>>] = Turn(Loop, s, from, left)
      <3> DEFINE turn == <<s, from, left>>
      <3>1. turn \in Turns /\ turn[1] = s /\ turn[2] = from /\ turn[3] = left
        BY <2>7
      <3> HIDE DEF turn, Turn
      <3>2. Loop[turn] = Turn(Loop, turn[1], turn[2], turn[3])
        BY <2>9, <3>1
      <3> QED BY <3>1, <3>2 DEF turn
    <2> DEFINE Read(n) == n \in 0 .. size => \A s \in Sectors \cup Words, from \in Bytes :
                            Loop[<<s, from, n>>] = Stretch(s, from, n)
               T == {n \in Nat : ~Read(n)}
    <2>11. T = {}
      <3> SUFFICES ASSUME T # {} PROVE FALSE
        OBVIOUS
      <3>1. PICK left \in T : IsFirst(left, T)
        <4>1. T \in SUBSET Nat
          OBVIOUS
        <4> HIDE DEF T
        <4> QED BY <4>1, LeastNatural
      <3>2. PICK s \in Sectors \cup Words, from \in Bytes :
              left \in 0 .. size /\ Loop[<<s, from, left>>] # Stretch(s, from, left)
        BY <3>1
      <3> DEFINE read_size == DataArea - from
      <3>3. Loop[<<s, from, left>>] = Turn(Loop, s, from, left)
        BY <2>10, <3>2
      <3>4. CASE left > read_size
        <4>1. Follow(s) \in Sectors \cup Words /\ 0 \in Bytes /\ left - read_size \in 0 .. size /\ left - read_size < left
          BY <2>5, <3>2, <3>4
        <4>2. left - read_size \in Nat /\ left - read_size \notin T
          <5>1. left - read_size \in T => left <= left - read_size
            BY <3>1 DEF IsFirst
          <5> HIDE DEF T, read_size
          <5> QED BY <2>1, <3>2, <4>1, <5>1
        <4>3. Loop[<<Follow(s), 0, left - read_size>>] = Stretch(Follow(s), 0, left - read_size)
          BY <4>1, <4>2
        <4> HIDE DEF T
        <4> QED BY <2>5, <3>2, <3>3, <3>4, <4>3
      <3>5. CASE ~(left > read_size)
        <4> HIDE DEF T
        <4> QED BY <2>5, <3>2, <3>3, <3>5
      <3> QED BY <3>4, <3>5
    <2>12. Loop[<<first, at, size>>] = Stretch(first, at, size)
      <3>1. size \in 0 .. size /\ size \notin T
        <4> HIDE DEF Read
        <4> QED BY <2>1, <2>11
      <3> QED BY <2>1, <2>3, <2>4, <3>1
    <2>13. ASSUME NEW i \in 1 .. size
           PROVE  ReadByte(first, at + i - 1) = ReadByte(f.cluster, offset + i - 1)
      <3> DEFINE j == at + i - 1
                 q == j \div DataArea
                 r == j % DataArea
      <3>1. j \in Nat /\ offset + i - 1 = DataArea * sectors + j
        BY <2>2, <2>3, SizeAssumption, SMT DEF Bytes
      <3> HIDE DEF j
      <3>2. j = DataArea * q + r /\ q \in Nat /\ r \in 0 .. DataArea - 1
        BY <3>1, DivMod
      <3> HIDE DEF q, r
      <3>3. DataArea * sectors + j = DataArea * (sectors + q) + r /\ sectors + q \in Int
        BY <2>2, <3>2, SizeAssumption, SMT
      <3>4. (DataArea * (sectors + q) + r) \div DataArea = sectors + q /\ (DataArea * (sectors + q) + r) % DataArea = r
        BY <3>2, <3>3, DivUnique
      <3>5. NthSector(first, q) = NthSector(f.cluster, sectors + q)
        BY <2>2, <3>2, NthAfter DEF first
      <3>6. ReadByte(first, j) = <<NthSector(first, q), r>>
        BY DEF ReadByte, q, r
      <3>7. ReadByte(f.cluster, offset + i - 1) = <<NthSector(f.cluster, sectors + q), r>>
        BY <3>1, <3>3, <3>4 DEF ReadByte
      <3> QED BY <3>5, <3>6, <3>7 DEF j
    <2>14. Stretch(first, at, size) = [i \in 1 .. size |-> ReadByte(f.cluster, offset + i - 1)]
      BY <2>13 DEF Stretch
    <2> QED BY <1>1, <1>3, <2>1, <2>12, <2>14 DEF first, at, size
  <1> QED BY <1>2, <1>3

LEMMA ReadsAreRight ==
  ASSUME OnceInv
  PROVE  ReadsAreExact
  <1> SUFFICES ASSUME pc = "idle"
               PROVE  /\ ReadsInWords
                      /\ \A k \in {j \in Live : fb[j].length # Empty /\ ~(j = file.block /\ Unfinished)} :
                           \A offset \in 0..MaxLength, length \in 1..MaxLength :
                             LET end == Smaller(fb[k].length, offset + length)
                             IN  read_file(Opened(k), offset, length) =
                                   [i \in 1..(IF offset < end THEN end - offset ELSE 0) |->
                                      ReadByte(fb[k].cluster, offset + i - 1)]
    BY DEF ReadsAreExact
  <1>1. ReadsInWords
    BY ReadInWords DEF ReadsInWords, WordSize
  <1>2. ASSUME NEW k \in Live, fb[k].length # Empty, ~(k = file.block /\ Unfinished),
               NEW offset \in 0 .. MaxLength, NEW length \in 1 .. MaxLength
        PROVE  LET end == Smaller(fb[k].length, offset + length)
               IN  read_file(Opened(k), offset, length) =
                     [i \in 1..(IF offset < end THEN end - offset ELSE 0) |->
                        ReadByte(fb[k].cluster, offset + i - 1)]
    <2> DEFINE f == Opened(k)
    <2>1. k \in Slots /\ Index[k] = fb[k] /\ IsOpen(fb[k])
      BY IndexIsFlash DEF Live
    <2>2. k # Empty /\ offset \in Nat /\ length \in Nat
      BY <2>1, SlotsAssumption, ValueAssumption, SizeAssumption
    <2>3. f.length = fb[k].length /\ f.cluster = fb[k].cluster /\ f.block = k
      BY DEF Opened
    <2>4. fb[k].length \in Nat
      BY <1>2, FilesAreFilled DEF Holds
    <2>5. TypeOK /\ fb[k].cluster \in Sectors \cup Words
      BY <2>1 DEF OnceInv, FinishInv, ChainsInv, TypeOK, FileBlock
    <2> HIDE DEF f
    <2>6. read_file(f, offset, length) =
            [i \in 1..(IF offset < Smaller(f.length, offset + length) THEN Smaller(f.length, offset + length) - offset ELSE 0) |->
               ReadByte(f.cluster, offset + i - 1)]
      BY <2>1, <2>2, <2>3, <2>4, <2>5, ReadIsExact
    <2> QED BY <2>3, <2>6 DEF f
  <1> QED BY <1>1, <1>2

-----------------------------------------------------------------------------
(***************************************************************************)
(* The file index is listed page by page.                                  *)
(***************************************************************************)
\* A finite set of numbers has a greatest.
LEMMA GreatestOfSome ==
  ASSUME NEW S \in SUBSET Nat, IsFiniteSet(S), S # {}
  PROVE  \E x \in S : \A y \in S : y <= x
  <1> DEFINE T == {n \in Nat : \A A \in SUBSET S :
                     Cardinality(A) = n /\ A # {} => \E x \in A : \A y \in A : y <= x}
  <1>a. ASSUME NEW A \in SUBSET S PROVE IsFiniteSet(A) /\ Cardinality(A) \in Nat
    BY FS_Subset, FS_CardinalityType
  <1>1. 0 \in T
    BY <1>a, FS_EmptySet
  <1>2. ASSUME NEW n \in T PROVE n + 1 \in T
    <2> SUFFICES ASSUME NEW A \in SUBSET S, Cardinality(A) = n + 1, A # {}
                 PROVE  \E x \in A : \A y \in A : y <= x
      OBVIOUS
    <2>1. PICK least \in A : \A y \in A : least <= y
      <3>1. A \in SUBSET Nat
        OBVIOUS
      <3> QED BY <3>1, LeastNatural DEF IsFirst
    <2> DEFINE B == A \ {least}
    <2>2. IsFiniteSet(A) /\ B \in SUBSET S
      BY <1>a
    <2>3. Cardinality(B) = n
      <3>1. Cardinality(A \ {least}) = Cardinality(A) - 1
        BY <2>1, <2>2, FS_RemoveElement
      <3>2. n \in Nat /\ Cardinality(A) = n + 1
        OBVIOUS
      <3> QED BY <3>1, <3>2
    <2>4. CASE B = {}
      <3>1. \A y \in A : y <= least
        BY <2>4
      <3> QED BY <2>1, <3>1
    <2>5. CASE B # {}
      <3> HIDE DEF B
      <3>1. PICK x \in B : \A y \in B : y <= x
        BY <2>2, <2>3, <2>5
      <3> QED BY <2>1, <3>1 DEF B
    <2> QED BY <2>4, <2>5
  <1>3. T = Nat
    <2> HIDE DEF T
    <2>1. T \in SUBSET Nat
      BY DEF T
    <2> QED BY <1>1, <1>2, <2>1, FromZeroOn
  <1>4. Cardinality(S) \in Nat /\ S \in SUBSET S
    BY FS_CardinalityType
  <1> QED BY <1>3, <1>4

\* The first n are those before the others.
LEMMA FirstNBefore ==
  ASSUME NEW S \in SUBSET Nat, IsFiniteSet(S), NEW n \in Nat,
         NEW x \in FirstN(S, n), NEW y \in S \ FirstN(S, n)
  PROVE  x < y
  <1> SUFFICES ASSUME y < x PROVE FALSE
    <2>1. x \in Nat /\ y \in Nat /\ x # y
      BY DEF FirstN
    <2> QED BY <2>1
  <1> DEFINE A == {t \in S : t < x}
             B == {t \in S : t < y}
  <1>1. x \in S /\ Cardinality(A) < n /\ ~(Cardinality(B) < n)
    BY DEF FirstN
  <1>2. A \in SUBSET S /\ B \in SUBSET A
    <2>1. ASSUME NEW t \in S, t < y PROVE t < x
      <3>1. t \in Nat /\ x \in Nat /\ y \in Nat
        BY <1>1
      <3> QED BY <2>1, <3>1
    <2> QED BY <2>1
  <1> HIDE DEF A, B
  <1>3. IsFiniteSet(A) /\ IsFiniteSet(B) /\ Cardinality(B) <= Cardinality(A)
    BY <1>2, FS_Subset
  <1>4. Cardinality(A) \in Nat /\ Cardinality(B) \in Nat
    BY <1>3, FS_CardinalityType
  <1> QED BY <1>1, <1>3, <1>4

\* There are n of them when there are as many.
LEMMA FirstNCounts ==
  ASSUME NEW S \in SUBSET Nat, IsFiniteSet(S), NEW n \in Nat
  PROVE  /\ FirstN(S, n) \subseteq S /\ IsFiniteSet(FirstN(S, n))
         /\ Cardinality(FirstN(S, n)) = IF Cardinality(S) < n THEN Cardinality(S) ELSE n
         /\ Cardinality(S) <= n => FirstN(S, n) = S
  <1> DEFINE A == FirstN(S, n)
  <1>1. A \in SUBSET S
    BY DEF FirstN
  <1>2. IsFiniteSet(A) /\ Cardinality(A) <= Cardinality(S) /\ (Cardinality(S) = Cardinality(A) => S = A)
    BY <1>1, FS_Subset
  <1>3. Cardinality(S) \in Nat /\ Cardinality(A) \in Nat
    BY <1>2, FS_CardinalityType
  <1>4. Cardinality(A) <= n
    <2>1. CASE A = {}
      BY <2>1, FS_EmptySet
    <2>2. CASE A # {}
      <3>1. PICK x \in A : \A y \in A : y <= x
        <4> HIDE DEF A
        <4>1. A \in SUBSET Nat
          BY <1>1
        <4> QED BY <1>2, <2>2, <4>1, GreatestOfSome
      <3> DEFINE B == {t \in S : t < x}
      <3>2. Cardinality(B) < n /\ x \in S /\ B \in SUBSET S
        BY <3>1 DEF FirstN
      <3>3. IsFiniteSet(B) /\ Cardinality(B) \in Nat
        BY <3>2, FS_Subset, FS_CardinalityType
      <3>4. A \in SUBSET (B \cup {x})
        <4>1. ASSUME NEW t \in A, t # x PROVE t < x
          <5>1. t \in Nat /\ x \in Nat /\ t <= x
            BY <1>1, <3>1
          <5> QED BY <4>1, <5>1
        <4> QED BY <1>1, <4>1
      <3> HIDE DEF A, B
      <3>5. IsFiniteSet(B \cup {x}) /\ Cardinality(B \cup {x}) <= Cardinality(B) + 1
        BY <3>3, FS_AddElement
      <3>6. Cardinality(A) <= Cardinality(B \cup {x}) /\ Cardinality(B \cup {x}) \in Nat
        BY <3>4, <3>5, FS_Subset, FS_CardinalityType
      <3> QED BY <1>3, <3>2, <3>3, <3>5, <3>6
    <2> QED BY <2>1, <2>2
  <1>5. CASE A = S
    BY <1>2, <1>3, <1>4, <1>5
  <1>6. CASE A # S
    <2>1. S \ A # {} /\ S \ A \in SUBSET Nat
      BY <1>1, <1>6
    <2>2. PICK y \in S \ A : \A t \in S \ A : y <= t
      <3> HIDE DEF A
      <3> QED BY <2>1, LeastNatural DEF IsFirst
    <2>3. {t \in S : t < y} = A
      <3>1. ASSUME NEW t \in S, t < y PROVE t \in A
        <4> SUFFICES ASSUME t \notin A PROVE FALSE
          OBVIOUS
        <4>1. t \in Nat /\ y \in Nat /\ y <= t
          BY <2>2
        <4> QED BY <3>1, <4>1
      <3>2. ASSUME NEW t \in A PROVE t < y
        BY <2>2, FirstNBefore
      <3> QED BY <1>1, <3>1, <3>2
    <2>4. ~(Cardinality(A) < n)
      BY <2>2, <2>3 DEF FirstN
    <2>5. Cardinality(A) = n /\ ~(Cardinality(S) <= n)
      <3> HIDE DEF A
      <3> QED BY <1>2, <1>3, <1>4, <1>6, <2>4
    <2>6. ~(Cardinality(S) < n)
      BY <1>3, <2>5
    <2> QED BY <1>1, <1>2, <2>5, <2>6
  <1> QED BY <1>1, <1>2, <1>5, <1>6

\* The first of those that are left come next.
LEMMA FirstNThenMore ==
  ASSUME NEW S \in SUBSET Nat, IsFiniteSet(S), NEW n \in Nat, NEW m \in Nat, n <= Cardinality(S)
  PROVE  FirstN(S, n + m) = FirstN(S, n) \cup FirstN(S \ FirstN(S, n), m)
  <1> DEFINE A == FirstN(S, n)
             R == S \ A
  <1>1. A \subseteq S /\ IsFiniteSet(A) /\ Cardinality(A) = n
    <2>1. Cardinality(S) \in Nat
      BY FS_CardinalityType
    <2> QED BY <2>1, FirstNCounts
  <1>2. ASSUME NEW x \in R
        PROVE  Cardinality({t \in S : t < x}) = n + Cardinality({t \in R : t < x}) /\ Cardinality({t \in R : t < x}) \in Nat
    <2> DEFINE B == {t \in S : t < x}
               C == {t \in R : t < x}
    <2>1. B = A \cup C /\ A \cap C = {} /\ C \in SUBSET S
      BY <1>1, FirstNBefore
    <2>2. IsFiniteSet(C) /\ Cardinality(C) \in Nat
      BY <2>1, FS_Subset, FS_CardinalityType
    <2> HIDE DEF A, B, C
    <2>3. Cardinality(A \cup C) = Cardinality(A) + Cardinality(C)
      <3>1. Cardinality(A \cup C) = Cardinality(A) + Cardinality(C) - Cardinality(A \cap C)
        BY <1>1, <2>2, FS_Union
      <3>2. Cardinality(A \cap C) = 0
        BY <2>1, FS_EmptySet
      <3> QED BY <1>1, <2>2, <3>1, <3>2
    <2>4. Cardinality(B) = n + Cardinality(C)
      BY <1>1, <2>1, <2>3
    <2> QED BY <2>2, <2>4 DEF B, C
  <1>3. ASSUME NEW x \in R PROVE x \in FirstN(S, n + m) <=> x \in FirstN(R, m)
    <2>1. x \in S /\ x \in R
      OBVIOUS
    <2> HIDE DEF R
    <2>2. Cardinality({t \in S : t < x}) < n + m <=> Cardinality({t \in R : t < x}) < m
      BY <1>2, <2>1
    <2> QED BY <2>1, <2>2 DEF FirstN
  <1>4. ASSUME NEW x \in A PROVE x \in FirstN(S, n + m)
    <2>1. x \in S /\ Cardinality({t \in S : t < x}) < n
      BY DEF FirstN
    <2>2. Cardinality({t \in S : t < x}) \in Nat
      BY FS_Subset, FS_CardinalityType
    <2> QED BY <2>1, <2>2 DEF FirstN
  <1>5. FirstN(S, n + m) \subseteq S /\ FirstN(R, m) \subseteq R
    BY DEF FirstN
  <1> QED BY <1>1, <1>3, <1>4, <1>5


\* A page shows the first files from where it begins, and the next one begins
\* behind them when there are more.
LEMMA PageShows ==
  ASSUME NEW L \in SUBSET Slots, NEW startAddr \in Slots, NEW max \in Nat, max >= 1,
         NEW R, \A k : k \in R <=> k \in L /\ k >= startAddr
  PROVE  /\ Page(L, startAddr, max).found = FirstN(R, max)
         /\ Page(L, startAddr, max) \in [found : SUBSET Slots, startAddr : Slots]
         /\ Cardinality(R) > max =>
              \A k : k \in L /\ k >= Page(L, startAddr, max).startAddr <=> k \in R \ FirstN(R, max)
  <1> DEFINE page  == Page(L, startAddr, max)
             found == FirstN(R, max)
             last  == CHOOSE k \in found : \A j \in found : j <= k
  <1>0. R = {k \in L : k >= startAddr}
    OBVIOUS
  <1>1. page = [found |-> found,
                startAddr |-> IF max > 0 /\ Cardinality(found) = max THEN Cursor(last) ELSE startAddr]
    BY <1>0 DEF Page
  <1>2. R \in SUBSET Slots /\ Slots \in SUBSET Nat /\ R \in SUBSET Nat /\ IsFiniteSet(R) /\ Cardinality(R) \in Nat
    <2>1. R \in SUBSET Slots /\ Slots \in SUBSET Nat /\ R \in SUBSET Nat
      BY SlotsAssumption
    <2> QED BY <2>1, SlotsAssumption, FS_Subset, FS_CardinalityType
  <1>3. found \subseteq R /\ IsFiniteSet(found) /\ Cardinality(found) = IF Cardinality(R) < max THEN Cardinality(R) ELSE max
    BY <1>2, FirstNCounts
  <1>4. ASSUME NEW k PROVE Cursor(k) \in Slots
    <2>1. FirstSlot \in Slots
      <3>1. \E j \in Slots : IsFirst(j, Slots)
        BY <1>2, LeastNatural
      <3> QED BY <3>1 DEF FirstSlot
    <2> DEFINE behind == {j \in Slots : j > k}
    <2>2. CASE behind = {}
      BY <2>1, <2>2 DEF Cursor
    <2>3. CASE behind # {}
      <3>1. behind \in SUBSET Nat /\ behind \subseteq Slots
        BY <1>2
      <3>2. Cursor(k) = CHOOSE j \in behind : IsFirst(j, behind)
        BY <2>3 DEF Cursor
      <3> HIDE DEF behind
      <3>3. \E j \in behind : IsFirst(j, behind)
        BY <2>3, <3>1, LeastNatural
      <3> QED BY <3>1, <3>2, <3>3
    <2> QED BY <2>2, <2>3
  <1>5. ASSUME Cardinality(R) > max
        PROVE  \A k : k \in L /\ k >= page.startAddr <=> k \in R \ found
    <2>1. Cardinality(found) = max /\ found # {} /\ found # R
      <3>1. Cardinality(found) = max /\ Cardinality(found) # 0 /\ Cardinality(found) # Cardinality(R)
        BY <1>2, <1>3, <1>5
      <3> HIDE DEF found
      <3> QED BY <3>1, FS_EmptySet
    <2>2. last \in found /\ \A j \in found : j <= last
      <3> HIDE DEF found
      <3>1. found \in SUBSET Nat
        BY <1>2, <1>3
      <3>2. \E k \in found : \A j \in found : j <= k
        BY <1>3, <2>1, <3>1, GreatestOfSome
      <3> QED BY <3>2
    <2> DEFINE behind == {j \in Slots : j > last}
    <2>3. ASSUME NEW k \in R \ found PROVE k \in behind
      <3>1. last < k
        BY <1>2, <2>2, FirstNBefore
      <3> QED BY <1>2, <1>3, <2>2, <3>1
    <2>4. PICK y : y \in R \ found
      BY <1>3, <2>1
    <2>5. page.startAddr = Cursor(last)
      BY <1>1, <2>1
    <2>6. Cursor(last) = CHOOSE j \in behind : IsFirst(j, behind)
      BY <2>3, <2>4 DEF Cursor
    <2>7. Cursor(last) \in behind /\ \A j \in behind : Cursor(last) <= j
      <3>1. behind \in SUBSET Nat /\ behind # {}
        BY <1>2, <2>3, <2>4
      <3> HIDE DEF behind, last
      <3>2. \E j \in behind : IsFirst(j, behind)
        BY <3>1, LeastNatural
      <3> QED BY <2>6, <3>2 DEF IsFirst
    <2>8. ASSUME NEW k \in L, k >= Cursor(last) PROVE k \in R \ found
      <3>1. k \in Nat /\ last \in Nat /\ startAddr \in Nat /\ last >= startAddr /\ Cursor(last) \in Nat /\ Cursor(last) > last
        BY <1>2, <1>3, <2>2, <2>7
      <3> HIDE DEF last, found
      <3>2. k > last /\ k >= startAddr
        BY <2>8, <3>1
      <3>3. k \notin found
        <4>1. k \in found => k <= last
          BY <2>2
        <4> QED BY <3>1, <3>2, <4>1
      <3> QED BY <3>2, <3>3
    <2>9. ASSUME NEW k \in R \ found PROVE k \in L /\ k >= Cursor(last)
      <3>1. Cursor(last) <= k /\ k \in Nat /\ Cursor(last) \in Nat
        BY <1>2, <2>3, <2>7
      <3> QED BY <3>1
    <2> HIDE DEF last, found, behind
    <2> QED BY <2>5, <2>8, <2>9
  <1>6. page \in [found : SUBSET Slots, startAddr : Slots] /\ page.found = found
    <2>1. Cursor(last) \in Slots
      BY <1>4
    <2> HIDE DEF last, found
    <2> QED BY <1>1, <1>2, <1>3, <2>1
  <1> QED BY <1>5, <1>6

LEMMA PageType ==
  ASSUME NEW L \in SUBSET Slots, NEW k \in Slots, NEW max \in Nat, max >= 1
  PROVE  Page(L, k, max) \in [found : SUBSET Slots, startAddr : Slots]
  <1> DEFINE R == {j \in L : j >= k}
             page == Page(L, k, max)
  <1>1. \A j : j \in R <=> j \in L /\ j >= k
    OBVIOUS
  <1> HIDE DEF R
  <1>2. /\ page.found = FirstN(R, max)
        /\ page \in [found : SUBSET Slots, startAddr : Slots]
        /\ Cardinality(R) > max => \A j : j \in L /\ j >= page.startAddr <=> j \in R \ FirstN(R, max)
    BY <1>1, PageShows
  <1> QED BY <1>2

\* A page that begins behind the first m files, and the next one.
LEMMA PageIsNext ==
  ASSUME NEW L \in SUBSET Slots, NEW k \in Slots, NEW max \in Nat, max >= 1, NEW m \in Nat,
         m < Cardinality(L), \A j : j \in L /\ j >= k <=> j \in L \ FirstN(L, m)
  PROVE  /\ Page(L, k, max).found = FirstN(L \ FirstN(L, m), max)
         /\ m + max < Cardinality(L) =>
              /\ Page(L, k, max).startAddr \in Slots
              /\ \A j : j \in L /\ j >= Page(L, k, max).startAddr <=> j \in L \ FirstN(L, m + max)
  <1> DEFINE page == Page(L, k, max)
             A == FirstN(L, m)
             R == L \ A
  <1>1. L \in SUBSET Nat /\ IsFiniteSet(L) /\ Cardinality(L) \in Nat
    BY SlotsAssumption, FS_Subset, FS_CardinalityType
  <1>2. m <= Cardinality(L)
    BY <1>1
  <1>3. A \subseteq L /\ Cardinality(A) = m
    BY <1>1, <1>2, FirstNCounts
  <1>4. FirstN(L, m + max) = A \cup FirstN(R, max)
    BY <1>1, <1>2, FirstNThenMore
  <1>5. \A j : j \in R <=> j \in L /\ j >= k
    OBVIOUS
  <1>6. Cardinality(R) = Cardinality(L) - m
    <2>1. L \cap A = A
      BY <1>3
    <2>2. Cardinality(L \ A) = Cardinality(L) - Cardinality(L \cap A)
      BY <1>1, FS_Difference
    <2> QED BY <1>3, <2>1, <2>2
  <1> HIDE DEF R, A
  <1>7. /\ page.found = FirstN(R, max)
        /\ page \in [found : SUBSET Slots, startAddr : Slots]
        /\ Cardinality(R) > max => \A j : j \in L /\ j >= page.startAddr <=> j \in R \ FirstN(R, max)
    BY <1>5, PageShows
  <1> HIDE DEF page
  <1>8. m + max < Cardinality(L) => \A j : j \in L /\ j >= page.startAddr <=> j \in L \ FirstN(L, m + max)
    <2> SUFFICES ASSUME m + max < Cardinality(L) PROVE \A j : j \in L /\ j >= page.startAddr <=> j \in L \ FirstN(L, m + max)
      OBVIOUS
    <2>1. Cardinality(R) > max
      BY <1>1, <1>6
    <2>2. L \ FirstN(L, m + max) = R \ FirstN(R, max)
      BY <1>4 DEF R
    <2> QED BY <1>7, <2>1, <2>2
  <1>9. page.startAddr \in Slots
    BY <1>7
  <1> QED BY <1>7, <1>8, <1>9 DEF page, R, A

\* The requests that follow one another show the files in the order of the index.
LEMMA PagesAreComplete ==
  ASSUME NEW max \in 1 .. Cardinality(Slots)
  PROVE  \A n \in Nat : n * max < Cardinality(ListedRaw) =>
           Answer(max, n) = FirstN(ListedRaw \ FirstN(ListedRaw, n * max), max)
  <1> DEFINE L == ListedRaw
             S == [found : SUBSET Slots, startAddr : Slots]
             first == FsList(TRUE, FirstSlot, max)
             Is(f) == f = [i \in Nat |-> IF i = 0 THEN first ELSE FsList(FALSE, f[i - 1].startAddr, max)]
             F == [page \in S |-> FsList(FALSE, page.startAddr, max)]
             answer == CHOOSE f : Is(f)
  <1>1. max \in Nat /\ max >= 1 /\ Slots # {} /\ Slots \in SUBSET Nat
    <2>1. Cardinality(Slots) \in Nat /\ Cardinality(Slots) # 0
      BY SlotsAssumption, FS_CardinalityType
    <2> QED BY <2>1, SlotsAssumption, FS_EmptySet
  <1>2. L \in SUBSET Slots /\ L \in SUBSET Nat /\ IsFiniteSet(L) /\ Cardinality(L) \in Nat
    <2>1. L \in SUBSET Slots
      BY DEF ListedRaw, Listed
    <2> QED BY <1>1, <2>1, SlotsAssumption, FS_Subset, FS_CardinalityType
  <1>3. FirstSlot \in Slots /\ \A k \in Slots : FirstSlot <= k
    <2>1. \E j \in Slots : IsFirst(j, Slots)
      BY <1>1, LeastNatural
    <2> QED BY <2>1 DEF FirstSlot, IsFirst
  <1>4. first = Page(L, FirstSlot, max) /\ \A k : FsList(FALSE, k, max) = Page(L, k, max)
    BY DEF FsList, list_file_raw
  <1>5. ASSUME NEW k \in Slots PROVE Page(L, k, max) \in S
    BY <1>1, <1>2, PageType
  <1> HIDE DEF first, S, L
  <1>6. first \in S /\ F \in [S -> S]
    <2>1. ASSUME NEW page \in S PROVE FsList(FALSE, page.startAddr, max) \in S
      BY <1>4, <1>5 DEF S
    <2> QED BY <1>3, <1>4, <1>5, <2>1
  <1>7. PICK f \in [Nat -> S] : f = [i \in Nat |-> IF i = 0 THEN first ELSE F[f[i - 1]]]
    <2> HIDE DEF F
    <2> QED BY <1>6, Iterates
  <1>8. Is(f)
    <2>1. ASSUME NEW i \in Nat PROVE f[i] = IF i = 0 THEN first ELSE FsList(FALSE, f[i - 1].startAddr, max)
      <3>1. CASE i = 0
        BY <1>7, <3>1
      <3>2. CASE i # 0
        <4>1. f[i - 1] \in S
          <5>1. i - 1 \in Nat
            BY <3>2
          <5> HIDE DEF F
          <5> QED BY <1>7, <5>1
        <4>2. f[i] = F[f[i - 1]]
          <5> HIDE DEF F
          <5> QED BY <1>7, <3>2
        <4> QED BY <3>2, <4>1, <4>2
      <3> QED BY <3>1, <3>2
    <2> QED BY <1>7, <2>1
  <1>9. Is(answer)
    <2> HIDE DEF Is
    <2> QED BY <1>8
  <1>10. \A n \in Nat : Answer(max, n) = answer[n].found
    BY DEF Answer, first
  <1> HIDE DEF answer
  <1>11. answer[0] = first /\ \A n \in Nat : answer[n + 1] = Page(L, answer[n].startAddr, max)
    <2>1. answer = [i \in Nat |-> IF i = 0 THEN first ELSE FsList(FALSE, answer[i - 1].startAddr, max)]
      BY <1>9
    <2>2. answer[0] = first
      BY <2>1
    <2>3. ASSUME NEW n \in Nat PROVE answer[n + 1] = FsList(FALSE, answer[n].startAddr, max)
      <3>1. n + 1 \in Nat /\ n + 1 # 0 /\ (n + 1) - 1 = n
        OBVIOUS
      <3>2. answer[n + 1] = FsList(FALSE, answer[(n + 1) - 1].startAddr, max)
        BY <2>1, <3>1
      <3> QED BY <3>1, <3>2
    <2> QED BY <1>4, <2>2, <2>3
  <1> DEFINE Begins(n, k) == k \in Slots /\ answer[n] = Page(L, k, max) /\ \A j : j \in L /\ j >= k <=> j \in L \ FirstN(L, n * max)
             T == {n \in Nat : n * max < Cardinality(L) => \E k : Begins(n, k)}
  <1>12. 0 \in T
    <2>1. FirstN(L, 0) = {}
      <3>1. ASSUME NEW x \in L PROVE Cardinality({t \in L : t < x}) \in Nat
        BY <1>2, FS_Subset, FS_CardinalityType
      <3> QED BY <3>1 DEF FirstN
    <2>2. 0 * max = 0
      BY <1>1
    <2>3. {j \in L : j >= FirstSlot} = L
      <3>1. ASSUME NEW j \in L PROVE j >= FirstSlot
        BY <1>1, <1>2, <1>3
      <3> QED BY <3>1
    <2>4. Begins(0, FirstSlot)
      BY <1>3, <1>4, <1>11, <2>1, <2>2, <2>3
    <2> HIDE DEF Begins
    <2> QED BY <2>4
  <1>13. ASSUME NEW n \in T PROVE n + 1 \in T
    <2> SUFFICES ASSUME (n + 1) * max < Cardinality(L) PROVE \E k : Begins(n + 1, k)
      OBVIOUS
    <2> DEFINE m == n * max
    <2>1. n \in Nat /\ m \in Nat /\ (n + 1) * max = m + max
      BY <1>1
    <2>2. m < Cardinality(L) /\ m <= Cardinality(L) /\ m + max < Cardinality(L)
      BY <1>1, <1>2, <2>1
    <2>3. PICK k : Begins(n, k)
      BY <2>2
    <2> DEFINE d == answer[n].startAddr
    <2>4. k \in Slots /\ answer[n] = Page(L, k, max)
          /\ \A j : j \in L /\ j >= k <=> j \in L \ FirstN(L, m)
      BY <2>3
    <2>5. answer[n + 1] = Page(L, d, max)
      BY <1>11, <2>1
    <2> HIDE DEF m, T, Begins, Is, F
    <2>6. Page(L, k, max).startAddr \in Slots
          /\ \A j : j \in L /\ j >= Page(L, k, max).startAddr <=> j \in L \ FirstN(L, m + max)
      BY <1>1, <1>2, <2>1, <2>2, <2>4, PageIsNext
    <2>7. d \in Slots /\ \A j : j \in L /\ j >= d <=> j \in L \ FirstN(L, m + max)
      BY <2>4, <2>6
    <2>8. Begins(n + 1, d)
      BY <2>1, <2>5, <2>7 DEF Begins
    <2> QED BY <2>8
  <1>14. T = Nat
    <2> HIDE DEF T
    <2>1. T \in SUBSET Nat
      BY DEF T
    <2> QED BY <1>12, <1>13, <2>1, FromZeroOn
  <1>15. ASSUME NEW n \in Nat, n * max < Cardinality(ListedRaw)
         PROVE  Answer(max, n) = FirstN(ListedRaw \ FirstN(ListedRaw, n * max), max)
    <2>1. PICK k : Begins(n, k)
      BY <1>14, <1>15 DEF L
    <2> DEFINE m == n * max
    <2>2. m \in Nat /\ m < Cardinality(L)
      BY <1>1, <1>15 DEF L
    <2>3. k \in Slots /\ answer[n] = Page(L, k, max)
          /\ \A j : j \in L /\ j >= k <=> j \in L \ FirstN(L, m)
      BY <2>1
    <2> HIDE DEF m, T, Begins, Is, F
    <2>4. Page(L, k, max).found = FirstN(L \ FirstN(L, m), max)
      BY <1>1, <1>2, <2>2, <2>3, PageIsNext
    <2> QED BY <1>10, <2>3, <2>4 DEF L, m
  <1> QED BY <1>15

\* When callers keep the rules of CallersKeepRules and write at most a sector at a
\* time, every finished file can be read whole, any part of it byte for byte, and
\* the pages of the list show every file.
THEOREM WhatIsStoredIsServed ==
  ASSUME CallersKeepRules, ShortWrites
  PROVE  Spec => []FilesAreServed
  <1>1. OnceInv /\ [Next]_vars => OnceInv'
    BY OnceNext
  <1>2. OnceInv => FilesAreServed
    <2>1. ListIsComplete
      BY PagesAreComplete DEF ListIsComplete
    <2> QED BY <2>1, FilesAreWhole, ReadsAreRight DEF FilesAreServed
  <1> QED BY <1>1, <1>2, OnceInit, PTL DEF Spec

-----------------------------------------------------------------------------
(***************************************************************************)
(* The refinement.  Every step of a call is an action of the promise or    *)
(* none; which one follows from the call, the file it works on and what    *)
(* the other files keep.  First: what a call knows of the file it works on.*)
(***************************************************************************)
\* A call has checked the rights of its file.
CallInv ==
  /\ job.op \in {"override", "append", "finish", "rename", "delete"} => file.block # Empty
  /\ job.op \in {"override", "append", "rename"} => ~job.info.ro
  /\ Busy => ~fb[file.block].info.ro
  /\ pc = "format" => job.op = "format"

\* The name of a file that is overridden or deleted is free once it is marked, and an
\* override finds a slot for its new file block.
GoneInv ==
  /\ \/ pc \in {"create", "gc_rewrite"} /\ job.op = "override"
     \/ pc = "discard" /\ job.op = "delete"
     => \A k \in Live : Index[k].name # file.name
  /\ pc = "create" /\ job.op = "override" => Unnamed # {} \/ Garbage # {}

\* The recorded length is never past the end the caller's File has, and is that of an
\* override when it is written.
GrowsInv ==
  /\ pc \notin {"create", "gc_rewrite", "discard", "format"} /\ Attached /\ fb[file.block].length # Empty =>
       /\ fb[file.block].length \in Nat /\ file.length \in Nat
       /\ fb[file.block].length <= file.length
  /\ Writing /\ job.op = "override" => file.length = job.len
  /\ Writing /\ job.op = "override" /\ pc # "index_length" => fb[file.block].length = file.length
  /\ Writing /\ job.op = "append" =>
       /\ job.len <= file.length
       /\ fb[file.block].length # Empty => fb[file.block].length <= file.length - job.len

\* OnceInv with what the calls know: the invariant of the refinement.
StoreInv == OnceInv /\ CallInv /\ GoneInv /\ GrowsInv

\* Every step keeps the four parts.
LEMMA CallNext ==
  ASSUME CallersKeepRules, StoreInv, [Next]_vars
  PROVE  CallInv'
  <1> USE DEF flash, ftl, Reject, Goto, Return
  <1>a. ChainsInv /\ UniqueNames /\ RoomInv /\ TypeOK /\ TypeOK' /\ FileInv /\ TailInv /\ CreateInv /\ CallInv
    BY TypeNext DEF StoreInv, OnceInv, FinishInv, ChainsInv
  <1> USE <1>a, SectorFacts DEF TypeOK
  <1>1. ASSUME NEW n \in Names, NEW ro \in ReadOnly, CreateCall(n, ro) PROVE CallInv'
    BY <1>1 DEF CreateCall, CreateWith, NoJob, Job, CallInv, Busy, Filling
  <1>2. ASSUME NEW n \in Names, OpenCall(n) PROVE CallInv'
    BY <1>2, EmptyNotSlot DEF OpenCall, NoJob, Job, CallInv, Busy, Filling, Named
  <1>3. ASSUME NEW len \in WriteLens, NEW method \in Methods, WriteCall(len, method) PROVE CallInv'
    <2>1. CASE UNCHANGED <<fb, file, pc, job>>
      BY <2>1 DEF CallInv, Busy, Filling
    <2>2. CASE /\ file.block # Empty /\ CanWrite(fb[file.block]) /\ pc' \in {"discard", "walk", "alloc"}
               /\ UNCHANGED <<fb, file>> /\ job'.info = fb[file.block].info
      BY <2>2 DEF CallInv, Busy, Filling, CanWrite
    <2>3. Reject("FILE_NOT_EXIST") \/ Reject("CANNOT_WRITE_FILE") => UNCHANGED <<fb, file, pc, job>>
      OBVIOUS
    <2> QED BY <1>3, <2>1, <2>2, <2>3 DEF WriteCall, NoJob
  <1>4. CASE FinishCall
    <2>1. /\ pc' \in {"idle", "create"} /\ UNCHANGED file
          /\ UNCHANGED job \/ (job'.op = "finish" /\ file.block # Empty) \/ job' = NoJob
      BY <1>4 DEF FinishCall, NoJob
    <2> QED BY <2>1 DEF CallInv, Busy, Filling, NoJob
  <1>5. ASSUME NEW n \in Names, RenameCall(n) PROVE CallInv'
    <2>1. /\ pc' \in {"idle", "create"} /\ file'.block = file.block
          /\ UNCHANGED job \/ (job'.op = "rename" /\ job'.info = fb[file.block].info /\ CanWrite(fb[file.block]) /\ file.block # Empty)
      BY <1>5 DEF RenameCall, NoJob, File
    <2> QED BY <2>1 DEF CallInv, Busy, Filling, CanWrite
  <1>6. CASE DeleteCall
    BY <1>6 DEF DeleteCall, NoJob, Job, CallInv, Busy, Filling
  <1>7. CASE FormatCall
    BY <1>7 DEF FormatCall, NoJob, Job, CallInv, Busy, Filling
  <1>8. CASE CreateExists
    BY <1>8 DEF CreateExists, AfterCreate, NoJob, Job, CallInv, Busy, Filling
  <1>9. CASE CreateBlock
    <2>1. PICK k \in Slots :
            /\ fb' = [fb EXCEPT ![k] = [name |-> file.name, cluster |-> file.cluster,
                                         length |-> file.length, info |-> job.info]]
            /\ file' = [file EXCEPT !.block = k]
      BY <1>9, CreateWrites
    <2>2. file'.block = k /\ fb'[k].info = job.info /\ k # Empty
      BY <2>1, EmptyNotSlot DEF File
    <2>3. (job' = NoJob /\ pc' = "idle") \/ (UNCHANGED job /\ pc' = "alloc" /\ job.op = "override")
      BY <1>9 DEF CreateBlock, AfterCreate
    <2> QED BY <2>2, <2>3 DEF CallInv, Busy, Filling, NoJob
  <1>10. CASE GcIndexErase
    BY <1>10 DEF GcIndexErase, NoJob, Job, CallInv, Busy, Filling
  <1>11. CASE GcIndexRewrite
    BY <1>11 DEF GcIndexRewrite, NoJob, Job, CallInv, Busy, Filling
  <1>12. CASE CreateNoSpace
    BY <1>12 DEF CreateNoSpace, AfterCreate, NoJob, Job, CallInv, Busy, Filling
  <1>13. CASE DiscardSector
    BY <1>13 DEF DiscardSector, NoJob, Job, CallInv, Busy, Filling
  <1>14. CASE OverrideBlock
    BY <1>14 DEF OverrideBlock, NoJob, Job, CallInv, Busy, Filling
  <1>15. CASE DeleteDone
    BY <1>15 DEF DeleteDone, NoJob, Job, CallInv, Busy, Filling
  <1>16. CASE Walk
    BY <1>16 DEF Walk, NoJob, Job, CallInv, Busy, Filling
  <1>17. CASE AppendToTail
    <2>1. /\ pc' \in {"idle", "alloc"} /\ UNCHANGED fb /\ file'.block = file.block
          /\ (job' = NoJob /\ pc' = "idle") \/ (job'.op = job.op /\ job'.info = job.info)
      BY <1>17 DEF AppendToTail, Job, File
    <2>2. pc = "partial"
      BY <1>17 DEF AppendToTail
    <2> QED BY <2>1, <2>2 DEF CallInv, Busy, Filling, NoJob
  <1>18. CASE Allocate
    BY <1>18 DEF Allocate, Take, NoJob, Job, CallInv, Busy, Filling
  <1>19. CASE GcDataErase
    BY <1>19 DEF GcDataErase, NoJob, Job, CallInv, Busy, Filling
  <1>20. CASE GcDataDone
    <2>1. pc = "gc_data" /\ UNCHANGED <<fb, file>>
      BY <1>20 DEF GcDataDone, Take
    <2>2. CASE pc' = "idle" /\ job' = NoJob
      BY <2>2 DEF NoJob, CallInv, Busy, Filling
    <2>3. CASE Take(FirstN(writable, SectorsFor(job.len)))
      <3>1. job'.op = job.op /\ job'.info = job.info /\ pc' = "index"
        BY <2>3 DEF Take, Job
      <3> QED BY <2>1, <3>1 DEF CallInv, Busy, Filling
    <2> QED BY <1>20, <2>2, <2>3 DEF GcDataDone
  <1>21. CASE IndexCluster
    BY <1>21 DEF IndexCluster, WriteRest, NoJob, Job, CallInv, Busy, Filling
  <1>22. CASE IndexLength
    BY <1>22 DEF IndexLength, WriteRest, NoJob, Job, CallInv, Busy, Filling
  <1>23. CASE IndexLink
    BY <1>23 DEF IndexLink, WriteRest, NoJob, Job, CallInv, Busy, Filling
  <1>24. CASE MarkSector
    BY <1>24 DEF MarkSector, NoJob, Job, CallInv, Busy, Filling
  <1>25. CASE WriteData
    BY <1>25 DEF WriteData, WriteRest, NoJob, Job, CallInv, Busy, Filling
  <1>26. CASE LinkSector
    BY <1>26 DEF LinkSector, WriteRest, NoJob, Job, CallInv, Busy, Filling
  <1>27. CASE FormatIndex
    BY <1>27 DEF FormatIndex, NoJob, Job, CallInv, Busy, Filling
  <1>28. CASE FormatData
    BY <1>28 DEF FormatData, NoJob, Job, CallInv, Busy, Filling
  <1>29. CASE Crash
    BY <1>29 DEF Crash, NoJob, Job, CallInv, Busy, Filling
  <1>30. CASE UNCHANGED vars
    BY <1>30 DEF vars, NoJob, Job, CallInv, Busy, Filling
  <1> QED
    BY <1>1, <1>2, <1>3, <1>4, <1>5, <1>6, <1>7, <1>8, <1>9, <1>10, <1>11, <1>12,
       <1>13, <1>14, <1>15, <1>16, <1>17, <1>18, <1>19, <1>20, <1>21, <1>22, <1>23,
       <1>24, <1>25, <1>26, <1>27, <1>28, <1>29, <1>30
    DEF Next, Call, Step

LEMMA GoneNext ==
  ASSUME CallersKeepRules, StoreInv, [Next]_vars
  PROVE  GoneInv'
  <1> USE DEF flash, ftl, Reject, Goto, Return
  <1>a. ChainsInv /\ UniqueNames /\ TypeOK /\ TypeOK' /\ FileInv /\ TailInv /\ CreateInv /\ DiscardInv /\ GoneInv
    BY TypeNext DEF StoreInv, OnceInv, FinishInv, ChainsInv
  <1> USE <1>a DEF TypeOK
  <1>b. ASSUME pc' \notin {"create", "gc_rewrite", "discard"} \/ job'.op \notin {"override", "delete"}
               \/ (pc' = "discard" /\ job'.op = "override")
        PROVE  GoneInv'
    BY <1>b DEF GoneInv
  <1>c. ASSUME MarkDeprecated(file.block) \/ MarkDeleted(file.block), pc' # "gc_rewrite",
               pc # "gc_rewrite", Attached, file'.name = file.name
        PROVE  \A k \in Live' : Index'[k].name # file'.name
    <2>1. file.block \in Slots /\ file.block \in Live /\ Index[file.block].name = file.name
      BY <1>c, AttachedFacts, IndexIsFlash DEF Attached
    <2>2. KeepsBlocks /\ file.block \notin Live'
      BY <1>c, StateBitKeeps
    <2> QED BY <1>c, <2>1, <2>2 DEF KeepsBlocks, UniqueNames
  <1> HIDE DEF TypeOK
  <1>1. ASSUME NEW n \in Names, NEW ro \in ReadOnly, CreateCall(n, ro) PROVE GoneInv'
    <2>1. pc' \notin {"create", "gc_rewrite", "discard"} \/ job'.op \notin {"override", "delete"}
          \/ (pc' = "discard" /\ job'.op = "override")
      BY <1>1, SectorFacts DEF CreateCall, CreateWith, NoJob, Job, TypeOK, TailInv, Busy, Filling
    <2> QED BY <2>1, <1>b
  <1>2. ASSUME NEW n \in Names, OpenCall(n) PROVE GoneInv'
    BY <1>2 DEF OpenCall, GoneInv
  <1>3. ASSUME NEW len \in WriteLens, NEW method \in Methods, WriteCall(len, method) PROVE GoneInv'
    <2>1. CASE UNCHANGED <<pc, job>>
      BY <1>3, <2>1, <1>b DEF WriteCall
    <2>2. CASE job'.op = "append" \/ (job'.op = "override" /\ pc' # "create")
      BY <1>3, <2>2, <1>b DEF WriteCall
    <2> QED BY <1>3, <2>1, <2>2 DEF WriteCall, NoJob
  <1>4. CASE FinishCall
    <2>1. pc' = "idle" \/ job'.op = "finish"
      BY <1>4 DEF FinishCall, NoJob
    <2> QED BY <2>1, <1>b
  <1>5. ASSUME NEW n \in Names, RenameCall(n) PROVE GoneInv'
    <2>1. pc' = "idle" \/ job'.op = "rename"
      BY <1>5 DEF RenameCall, NoJob
    <2> QED BY <2>1, <1>b
  <1>6. CASE DeleteCall
    <2>1. /\ MarkDeleted(file.block) /\ UNCHANGED file /\ pc = "idle" /\ pc' = "discard" /\ job'.op = "delete"
          /\ Attached
      BY <1>6, CallerIsAttached DEF DeleteCall, NoJob
    <2> QED BY <1>c, <2>1 DEF GoneInv
  <1>7. CASE FormatCall
    <2>1. pc' \notin {"create", "gc_rewrite", "discard"} \/ job'.op \notin {"override", "delete"}
          \/ (pc' = "discard" /\ job'.op = "override")
      BY <1>7, SectorFacts DEF FormatCall, NoJob, Job, TypeOK, TailInv, Busy, Filling
    <2> QED BY <2>1, <1>b
  <1>8. CASE CreateExists
    <2>1. pc' \notin {"create", "gc_rewrite", "discard"} \/ job'.op \notin {"override", "delete"}
          \/ (pc' = "discard" /\ job'.op = "override")
      BY <1>8, SectorFacts DEF CreateExists, AfterCreate, NoJob, Job, TypeOK, TailInv, Busy, Filling
    <2> QED BY <2>1, <1>b
  <1>9. CASE CreateBlock
    <2>1. pc' \notin {"create", "gc_rewrite", "discard"} \/ job'.op \notin {"override", "delete"}
          \/ (pc' = "discard" /\ job'.op = "override")
      BY <1>9, SectorFacts DEF CreateBlock, AfterCreate, NoJob, Job, TypeOK, TailInv, Busy, Filling
    <2> QED BY <2>1, <1>b
  <1>10. CASE GcIndexErase
    <2>1. pc = "create" /\ pc' = "gc_rewrite" /\ job'.op = job.op /\ UNCHANGED file
      BY <1>10 DEF GcIndexErase, TypeOK, Job
    <2>2. KeepsBlocks
      BY <1>10, <2>1, BlocksStay DEF FinishCall, CreateBlock, AfterCreate, IndexCluster, IndexLength
    <2> QED BY <2>1, <2>2 DEF GoneInv, KeepsBlocks
  <1>11. CASE GcIndexRewrite
    <2>1. /\ pc = "gc_rewrite" /\ pc' = "create" /\ UNCHANGED file /\ job'.op = job.op
          /\ fb' = [k \in Slots |-> IF SlotSector[k] \in job.fbs THEN gcbuf[k] ELSE fb[k]]
      BY <1>11 DEF GcIndexRewrite, TypeOK, Job
    <2>2. PICK k \in Slots : fb'[k] = BlankBlock
      BY <2>1 DEF RoomInv, StoreInv, OnceInv, FinishInv
    <2>3. k \in Unnamed'
      BY <2>2 DEF Unnamed, HasName, BlankBlock
    <2>4. KeepsBlocks
      BY <1>11, <2>1, BlocksStay DEF FinishCall, CreateBlock, AfterCreate, IndexCluster, IndexLength
    <2> QED BY <2>1, <2>3, <2>4 DEF GoneInv, KeepsBlocks
  <1>12. CASE CreateNoSpace
    <2>1. pc' \notin {"create", "gc_rewrite", "discard"} \/ job'.op \notin {"override", "delete"}
          \/ (pc' = "discard" /\ job'.op = "override")
      BY <1>12, SectorFacts DEF CreateNoSpace, AfterCreate, NoJob, Job, TypeOK, TailInv, Busy, Filling
    <2> QED BY <2>1, <1>b
  <1>13. CASE DiscardSector
    <2>1. pc = "discard" /\ pc' = "discard" /\ UNCHANGED <<fb, job>> /\ file'.name = file.name
      BY <1>13 DEF DiscardSector, TypeOK, File
    <2> QED BY <2>1, SameIndex DEF GoneInv, Live
  <1>14. CASE OverrideBlock
    <2>1. /\ MarkDeprecated(file.block) /\ pc = "discard" /\ pc' = "create" /\ UNCHANGED job
          /\ job.op = "override" /\ file'.name = file.name /\ Attached
      BY <1>14 DEF OverrideBlock, DiscardInv, TypeOK, File
    <2>2. \A k \in Live' : Index'[k].name # file'.name
      BY <1>c, <2>1
    <2>3. file.block \in Garbage'
      <3>1. file.block \in Slots /\ HasName(fb[file.block]) /\ fb[file.block] \in FileBlock
        BY <2>1, AttachedFacts DEF TypeOK
      <3>2. fb'[file.block] = [fb[file.block] EXCEPT !.info = [@ EXCEPT !.dep = TRUE]]
        BY <2>1, <3>1 DEF MarkDeprecated, TypeOK
      <3>3. fb'[file.block].name = fb[file.block].name /\ fb'[file.block].info.dep
        BY <3>1, <3>2 DEF FileBlock, FileInfo
      <3> QED BY <3>1, <3>3 DEF Garbage, HasName, IsOpen
    <2> QED BY <2>1, <2>2, <2>3 DEF GoneInv
  <1>15. CASE DeleteDone
    <2>1. pc' \notin {"create", "gc_rewrite", "discard"} \/ job'.op \notin {"override", "delete"}
          \/ (pc' = "discard" /\ job'.op = "override")
      BY <1>15, SectorFacts DEF DeleteDone, NoJob, Job, TypeOK, TailInv, Busy, Filling
    <2> QED BY <2>1, <1>b
  <1>16. CASE Walk
    <2>1. pc' \notin {"create", "gc_rewrite", "discard"} \/ job'.op \notin {"override", "delete"}
          \/ (pc' = "discard" /\ job'.op = "override")
      BY <1>16, SectorFacts DEF Walk, NoJob, Job, TypeOK, TailInv, Busy, Filling
    <2> QED BY <2>1, <1>b
  <1>17. CASE AppendToTail
    <2>1. pc' \notin {"create", "gc_rewrite", "discard"} \/ job'.op \notin {"override", "delete"}
          \/ (pc' = "discard" /\ job'.op = "override")
      BY <1>17, SectorFacts DEF AppendToTail, NoJob, Job, TypeOK, TailInv, Busy, Filling
    <2> QED BY <2>1, <1>b
  <1>18. CASE Allocate
    <2>1. pc' \notin {"create", "gc_rewrite", "discard"} \/ job'.op \notin {"override", "delete"}
          \/ (pc' = "discard" /\ job'.op = "override")
      BY <1>18, SectorFacts DEF Allocate, Take, NoJob, Job, TypeOK, TailInv, Busy, Filling
    <2> QED BY <2>1, <1>b
  <1>19. CASE GcDataErase
    <2>1. pc' \notin {"create", "gc_rewrite", "discard"} \/ job'.op \notin {"override", "delete"}
          \/ (pc' = "discard" /\ job'.op = "override")
      BY <1>19, SectorFacts DEF GcDataErase, NoJob, Job, TypeOK, TailInv, Busy, Filling
    <2> QED BY <2>1, <1>b
  <1>20. CASE GcDataDone
    <2>1. pc' = "idle" \/ pc' = "index"
      BY <1>20 DEF GcDataDone, Take
    <2> QED BY <2>1, <1>b
  <1>21. CASE IndexCluster
    <2>1. pc' \notin {"create", "gc_rewrite", "discard"} \/ job'.op \notin {"override", "delete"}
          \/ (pc' = "discard" /\ job'.op = "override")
      BY <1>21, SectorFacts DEF IndexCluster, WriteRest, NoJob, Job, TypeOK, TailInv, Busy, Filling
    <2> QED BY <2>1, <1>b
  <1>22. CASE IndexLength
    <2>1. pc' \notin {"create", "gc_rewrite", "discard"} \/ job'.op \notin {"override", "delete"}
          \/ (pc' = "discard" /\ job'.op = "override")
      BY <1>22, SectorFacts DEF IndexLength, WriteRest, NoJob, Job, TypeOK, TailInv, Busy, Filling
    <2> QED BY <2>1, <1>b
  <1>23. CASE IndexLink
    <2>1. pc' \notin {"create", "gc_rewrite", "discard"} \/ job'.op \notin {"override", "delete"}
          \/ (pc' = "discard" /\ job'.op = "override")
      BY <1>23, SectorFacts DEF IndexLink, WriteRest, NoJob, Job, TypeOK, TailInv, Busy, Filling
    <2> QED BY <2>1, <1>b
  <1>24. CASE MarkSector
    <2>1. pc' \notin {"create", "gc_rewrite", "discard"} \/ job'.op \notin {"override", "delete"}
          \/ (pc' = "discard" /\ job'.op = "override")
      BY <1>24, SectorFacts DEF MarkSector, NoJob, Job, TypeOK, TailInv, Busy, Filling
    <2> QED BY <2>1, <1>b
  <1>25. CASE WriteData
    <2>1. pc' \notin {"create", "gc_rewrite", "discard"} \/ job'.op \notin {"override", "delete"}
          \/ (pc' = "discard" /\ job'.op = "override")
      BY <1>25, SectorFacts DEF WriteData, WriteRest, NoJob, Job, TypeOK, TailInv, Busy, Filling
    <2> QED BY <2>1, <1>b
  <1>26. CASE LinkSector
    <2>1. pc' \notin {"create", "gc_rewrite", "discard"} \/ job'.op \notin {"override", "delete"}
          \/ (pc' = "discard" /\ job'.op = "override")
      BY <1>26, SectorFacts DEF LinkSector, WriteRest, NoJob, Job, TypeOK, TailInv, Busy, Filling
    <2> QED BY <2>1, <1>b
  <1>27. CASE FormatIndex
    <2>1. pc' \notin {"create", "gc_rewrite", "discard"} \/ job'.op \notin {"override", "delete"}
          \/ (pc' = "discard" /\ job'.op = "override")
      BY <1>27, SectorFacts DEF FormatIndex, NoJob, Job, TypeOK, TailInv, Busy, Filling
    <2> QED BY <2>1, <1>b
  <1>28. CASE FormatData
    <2>1. pc' \notin {"create", "gc_rewrite", "discard"} \/ job'.op \notin {"override", "delete"}
          \/ (pc' = "discard" /\ job'.op = "override")
      BY <1>28, SectorFacts DEF FormatData, NoJob, Job, TypeOK, TailInv, Busy, Filling
    <2> QED BY <2>1, <1>b
  <1>29. CASE Crash
    <2>1. pc' \notin {"create", "gc_rewrite", "discard"} \/ job'.op \notin {"override", "delete"}
          \/ (pc' = "discard" /\ job'.op = "override")
      BY <1>29, SectorFacts DEF Crash, NoJob, Job, TypeOK, TailInv, Busy, Filling
    <2> QED BY <2>1, <1>b
  <1>30. CASE UNCHANGED vars
    BY <1>30 DEF vars, GoneInv, Live, Index, Unnamed, Garbage
  <1> QED
    BY <1>1, <1>2, <1>3, <1>4, <1>5, <1>6, <1>7, <1>8, <1>9, <1>10, <1>11, <1>12,
       <1>13, <1>14, <1>15, <1>16, <1>17, <1>18, <1>19, <1>20, <1>21, <1>22, <1>23,
       <1>24, <1>25, <1>26, <1>27, <1>28, <1>29, <1>30
    DEF Next, Call, Step

LEMMA GrowsNext ==
  ASSUME CallersKeepRules, StoreInv, [Next]_vars
  PROVE  GrowsInv'
  <1> USE DEF flash, ftl, Reject, Goto, Return
  <1>a. ChainsInv /\ TypeOK /\ TypeOK' /\ FileInv /\ TailInv /\ CreateInv /\ WordsInv /\ GrowsInv /\ ShortInv /\ LengthsInv
    BY TypeNext DEF StoreInv, OnceInv, FinishInv, ChainsInv
  <1> USE <1>a
  <1>b. ASSUME UNCHANGED fb, file'.block = file.block, file'.name = file.name,
               pc \notin {"create", "gc_rewrite", "discard", "format"}, ~Writing', ~Writing,
               file'.length = file.length \/ (file'.length \in Nat /\ file.length \in Nat /\ file'.length >= file.length)
        PROVE  GrowsInv'
    BY <1>b, SectorFacts DEF GrowsInv, Attached
  <1>c. ASSUME pc' \in {"create", "gc_rewrite", "discard", "format"} \/ file'.block = Empty, ~Writing' PROVE GrowsInv'
    BY <1>c DEF GrowsInv, Attached
  <1>d. ASSUME UNCHANGED <<fb, file>>, pc = "create", pc' = "idle" PROVE GrowsInv'
    <2>1. ~Attached
      BY <1>d, AttachedFacts DEF CreateInv
    <2> QED BY <1>d, <2>1 DEF GrowsInv, Attached, Writing, Filling
  <1>1. ASSUME NEW n \in Names, NEW ro \in ReadOnly, CreateCall(n, ro) PROVE GrowsInv'
    <2>1. (pc' \in {"create", "gc_rewrite", "discard", "format"} \/ file'.block = Empty) /\ ~Writing'
      BY <1>1 DEF CreateCall, CreateWith, Writing, Filling, NoFile
    <2> QED BY <2>1, <1>c
  <1>2. ASSUME NEW n \in Names, OpenCall(n) PROVE GrowsInv'
    <2>1. PICK k \in Slots : /\ UNCHANGED <<fb, pc>> /\ file'.block = k /\ file'.length = fb[k].length /\ pc = "idle"
      BY <1>2 DEF OpenCall, Named
    <2>2. fb[k].length \in Nat \cup {Empty}
      BY <2>1 DEF TypeOK, FileBlock, WordsInv, Words
    <2> QED BY <2>1, <2>2, SectorFacts DEF GrowsInv, Writing, Filling
  <1>3. ASSUME NEW len \in WriteLens, NEW method \in Methods, WriteCall(len, method) PROVE GrowsInv'
    <2>1. /\ UNCHANGED <<fb, file>> /\ pc = "idle" /\ pc' \in {"idle", "discard", "walk", "alloc"}
      BY <1>3 DEF WriteCall
    <2> QED BY <2>1, <1>b DEF Writing, Filling
  <1>4. CASE FinishCall
    <2>1. CASE pc' = "create"
      BY <2>1, <1>c DEF Writing, Filling
    <2>2. CASE UNCHANGED <<fb, file, pc>> /\ pc = "idle"
      BY <2>2, <1>b DEF Writing, Filling
    <2>3. CASE file.block # Empty /\ fb[file.block].length = Empty
      <3>1. /\ file.block \in Slots /\ pc' = "idle" /\ UNCHANGED file
            /\ fb' = [fb EXCEPT ![file.block] = [fb[file.block] EXCEPT !.length = file.length]]
        BY <1>4, <2>3, FinishFills
      <3>2. fb'[file.block].length = file.length
        BY <3>1 DEF TypeOK, FileBlock
      <3>3. file.length \in Nat \cup {Empty}
        BY DEF TypeOK, File, WordsInv, Words
      <3> QED BY <3>1, <3>2, <3>3 DEF GrowsInv, Writing, Filling
    <2> QED BY <1>4, <2>1, <2>2, <2>3 DEF FinishCall
  <1>5. ASSUME NEW n \in Names, RenameCall(n) PROVE GrowsInv'
    <2>1. CASE pc' = "create"
      BY <2>1, <1>c DEF Writing, Filling
    <2>2. CASE UNCHANGED <<fb, file, pc>> /\ pc = "idle"
      BY <2>2, <1>b DEF Writing, Filling
    <2> QED BY <1>5, <2>1, <2>2 DEF RenameCall
  <1>6. CASE DeleteCall
    <2>1. (pc' \in {"create", "gc_rewrite", "discard", "format"} \/ file'.block = Empty) /\ ~Writing'
      BY <1>6 DEF DeleteCall, Writing, Filling, NoFile
    <2> QED BY <2>1, <1>c
  <1>7. CASE FormatCall
    <2>1. (pc' \in {"create", "gc_rewrite", "discard", "format"} \/ file'.block = Empty) /\ ~Writing'
      BY <1>7 DEF FormatCall, Writing, Filling, NoFile
    <2> QED BY <2>1, <1>c
  <1>8. CASE CreateExists
    <2>1. pc = "create" /\ pc' = "idle" /\ UNCHANGED <<fb, file>>
      BY <1>8 DEF CreateExists, AfterCreate
    <2> QED BY <2>1, <1>d
  <1>9. CASE CreateBlock
    <2>1. PICK k \in Slots :
            /\ fb' = [fb EXCEPT ![k] = [name |-> file.name, cluster |-> file.cluster,
                                         length |-> file.length, info |-> job.info]]
            /\ file' = [file EXCEPT !.block = k]
      BY <1>9, CreateWrites
    <2>2. file'.block = k /\ fb'[k].length = file.length /\ file'.length = file.length
      BY <2>1 DEF TypeOK, File
    <2>3. file.length \in Nat \cup {Empty}
      BY DEF TypeOK, File, WordsInv, Words
    <2>4. pc' \in {"idle", "alloc"}
      BY <1>9 DEF CreateBlock, AfterCreate
    <2> QED BY <2>2, <2>3, <2>4 DEF GrowsInv, Writing, Filling
  <1>10. CASE GcIndexErase
    <2>1. (pc' \in {"create", "gc_rewrite", "discard", "format"} \/ file'.block = Empty) /\ ~Writing'
      BY <1>10 DEF GcIndexErase, Writing, Filling, NoFile
    <2> QED BY <2>1, <1>c
  <1>11. CASE GcIndexRewrite
    <2>1. (pc' \in {"create", "gc_rewrite", "discard", "format"} \/ file'.block = Empty) /\ ~Writing'
      BY <1>11 DEF GcIndexRewrite, Writing, Filling, NoFile
    <2> QED BY <2>1, <1>c
  <1>12. CASE CreateNoSpace
    <2>1. pc = "create" /\ pc' = "idle" /\ UNCHANGED <<fb, file>>
      BY <1>12 DEF CreateNoSpace, AfterCreate
    <2> QED BY <2>1, <1>d
  <1>13. CASE DiscardSector
    <2>1. (pc' \in {"create", "gc_rewrite", "discard", "format"} \/ file'.block = Empty) /\ ~Writing'
      BY <1>13 DEF DiscardSector, Writing, Filling, NoFile
    <2> QED BY <2>1, <1>c
  <1>14. CASE OverrideBlock
    <2>1. (pc' \in {"create", "gc_rewrite", "discard", "format"} \/ file'.block = Empty) /\ ~Writing'
      BY <1>14 DEF OverrideBlock, Writing, Filling, NoFile
    <2> QED BY <2>1, <1>c
  <1>15. CASE DeleteDone
    <2>1. (pc' \in {"create", "gc_rewrite", "discard", "format"} \/ file'.block = Empty) /\ ~Writing'
      BY <1>15 DEF DeleteDone, Writing, Filling, NoFile
    <2> QED BY <2>1, <1>c
  <1>16. CASE Walk
    BY <1>16, <1>b DEF Walk, Writing, Filling, TypeOK, File
  <1>17. CASE AppendToTail
    <2>1. PICK size \in Nat : /\ file.length \in Nat /\ file.length + size \in Nat
                              /\ file' = [file EXCEPT !.length = file.length + size]
                              /\ pc' \in {"idle", "alloc"}
      BY <1>17, AppendWrites
    <2>2. file'.block = file.block /\ file'.name = file.name /\ file'.length = file.length + size
      BY <2>1 DEF TypeOK, File
    <2>3. UNCHANGED fb /\ pc = "partial"
      BY <1>17 DEF AppendToTail
    <2> QED BY <2>1, <2>2, <2>3, <1>b DEF Writing, Filling
  <1>18. CASE Allocate
    <2>1. UNCHANGED <<fb, file>> /\ pc = "alloc" /\ pc' \in {"index", "gc_data"}
      BY <1>18 DEF Allocate, Take
    <2> QED BY <2>1, <1>b DEF Writing, Filling
  <1>19. CASE GcDataErase
    BY <1>19, <1>b DEF GcDataErase, Writing, Filling, TypeOK, File
  <1>20. CASE GcDataDone
    <2>1. UNCHANGED <<fb, file>> /\ pc = "gc_data" /\ pc' \in {"index", "idle"}
      BY <1>20 DEF GcDataDone, Take
    <2> QED BY <2>1, <1>b DEF Writing, Filling
  <1>21. CASE IndexCluster
    <2>1. /\ file.block \in Slots /\ file.cluster = Empty /\ fb[file.block].cluster = Empty
          /\ fb' = [fb EXCEPT ![file.block] = [fb[file.block] EXCEPT !.cluster = job.head]]
          /\ file' = [file EXCEPT !.cluster = job.head, !.length = job.len]
      BY <1>21, IndexClusterWrites
    <2>2. fb[file.block].length = Empty
      <3>1. Busy /\ pc = "index"
        BY <1>21 DEF IndexCluster, Busy, Filling
      <3>2. file.block \in Live /\ Index[file.block] = fb[file.block]
        BY <3>1, BusyChain DEF Owners
      <3> QED BY <2>1, <3>2 DEF LengthsInv
    <2>3. fb'[file.block].length = Empty /\ file'.block = file.block /\ file'.length = job.len
      BY <2>1, <2>2 DEF TypeOK, FileBlock, File
    <2>4. /\ job.op = "override" => pc' = "index_length" /\ job' = job
          /\ job.op # "override" => job'.op \in {"none", job.op}
      BY <1>21 DEF IndexCluster, WriteRest, TypeOK, Job, NoJob
    <2>5. job'.op = "override" => job.op = "override"
      BY <2>4
    <2>6. Writing' /\ job'.op = "append" => job'.len = job.len
      BY <1>21 DEF IndexCluster, WriteRest, NoJob, TypeOK, Job
    <2>7. job.len \in Nat
      BY DEF TypeOK, Job
    <2> QED BY <2>3, <2>4, <2>5, <2>6, <2>7 DEF GrowsInv
  <1>22. CASE IndexLength
    <2>1. /\ file.block \in Slots /\ job.len \in Nat /\ UNCHANGED file
          /\ fb' = [fb EXCEPT ![file.block] = [fb[file.block] EXCEPT !.length = job.len]]
      BY <1>22, IndexLengthWrites DEF IndexLength
    <2>2. pc = "index_length" /\ job.op = "override"
      BY <1>22 DEF IndexLength, TailInv
    <2>3. file.length = job.len
      BY <2>2 DEF GrowsInv, Writing, Filling
    <2>4. fb'[file.block].length = job.len
      BY <2>1 DEF TypeOK, FileBlock
    <2>5. (pc' = "idle" /\ job'.op = "none") \/ (job'.len = job.len /\ job'.op = job.op)
      BY <1>22 DEF IndexLength, WriteRest, TypeOK, Job, NoJob
    <2> QED BY <2>1, <2>2, <2>3, <2>4, <2>5 DEF GrowsInv
  <1>23. CASE IndexLink
    <2>1. file.length \in Nat /\ file.length + job.len \in Nat /\ job.len \in Nat
          /\ file' = [file EXCEPT !.length = file.length + job.len]
      BY <1>23, IndexLinkWrites
    <2>2. file'.block = file.block /\ file'.name = file.name /\ file'.length = file.length + job.len
      BY <2>1 DEF TypeOK, File
    <2>3. UNCHANGED fb /\ pc = "index" /\ job.op = "append"
      BY <1>23 DEF IndexLink
    <2>4. job'.op # "override"
      BY <1>23, <2>3 DEF IndexLink, WriteRest, TypeOK, Job, NoJob
    <2>5. Attached
      BY <2>3 DEF FileInv, Busy, Filling
    <2>6. Writing' => job'.len = job.len
      BY <1>23, <2>3 DEF IndexLink, WriteRest, TypeOK, Job, NoJob, Writing, Filling
    <2>7. fb[file.block].length # Empty => fb[file.block].length \in Nat /\ fb[file.block].length <= file.length
      BY <2>3, <2>5 DEF GrowsInv
    <2>8. fb'[file'.block].length = fb[file.block].length
      BY <2>2, <2>3
    <2>9. Writing' => /\ job'.len <= file'.length
                      /\ fb'[file'.block].length # Empty => fb'[file'.block].length <= file'.length - job'.len
      BY <2>1, <2>2, <2>6, <2>7, <2>8
    <2>10. fb'[file'.block].length # Empty =>
             /\ fb'[file'.block].length \in Nat /\ file'.length \in Nat
             /\ fb'[file'.block].length <= file'.length
      BY <2>1, <2>2, <2>7, <2>8
    <2> HIDE <1>a
    <2> QED BY <2>4, <2>9, <2>10 DEF GrowsInv
  <1>24. CASE MarkSector
    <2>1. pc = "mark" /\ pc' = "data" /\ UNCHANGED <<fb, file, job>>
      BY <1>24 DEF MarkSector
    <2> QED BY <2>1 DEF GrowsInv, Attached, Writing, Filling
  <1>25. CASE WriteData
    <2>1. pc = "data" /\ UNCHANGED <<fb, file>>
      BY <1>25 DEF WriteData
    <2>2. (pc' = "idle" /\ job'.op = "none") \/ (pc' \in {"mark", "link"} /\ job'.op = job.op /\ job'.len = job.len)
      BY <1>25 DEF WriteData, WriteRest, TypeOK, Job, NoJob
    <2> QED BY <2>1, <2>2 DEF GrowsInv, Attached, Writing, Filling
  <1>26. CASE LinkSector
    BY <1>26 DEF LinkSector, ShortInv
  <1>27. CASE FormatIndex
    <2>1. (pc' \in {"create", "gc_rewrite", "discard", "format"} \/ file'.block = Empty) /\ ~Writing'
      BY <1>27 DEF FormatIndex, Writing, Filling, NoFile
    <2> QED BY <2>1, <1>c
  <1>28. CASE FormatData
    <2>1. UNCHANGED <<fb, file>> /\ pc = "format" /\ pc' \in {"idle", "format"} /\ job.fbs = {}
      BY <1>28 DEF FormatData
    <2>2. ~Attached
      <3>1. Attached => file.block \in Slots /\ HasName(fb[file.block])
        BY AttachedFacts
      <3>2. \A k \in Slots : fb[k] = BlankBlock
        BY <2>1 DEF ChainsInv, FormatInv
      <3> QED BY <3>1, <3>2 DEF HasName, BlankBlock
    <2> QED BY <2>1, <2>2 DEF GrowsInv, Attached, Writing, Filling
  <1>29. CASE Crash
    <2>1. (pc' \in {"create", "gc_rewrite", "discard", "format"} \/ file'.block = Empty) /\ ~Writing'
      BY <1>29 DEF Crash, Writing, Filling, NoFile
    <2> QED BY <2>1, <1>c
  <1>30. CASE UNCHANGED vars
    BY <1>30 DEF vars, GrowsInv, Attached, Writing, Filling
  <1> QED
    BY <1>1, <1>2, <1>3, <1>4, <1>5, <1>6, <1>7, <1>8, <1>9, <1>10, <1>11, <1>12,
       <1>13, <1>14, <1>15, <1>16, <1>17, <1>18, <1>19, <1>20, <1>21, <1>22, <1>23,
       <1>24, <1>25, <1>26, <1>27, <1>28, <1>29, <1>30
    DEF Next, Call, Step

LEMMA StoreInit == Init => StoreInv
  <1> SUFFICES ASSUME Init PROVE StoreInv
    OBVIOUS
  <1>1. OnceInv
    BY OnceInit
  <1>2. CallInv /\ GoneInv /\ GrowsInv
    BY DEF Init, NoJob, NoFile, CallInv, Busy, Filling, GoneInv, GrowsInv, Attached, Writing
  <1> QED BY <1>1, <1>2 DEF StoreInv

LEMMA StoreNext == CallersKeepRules /\ ShortWrites /\ StoreInv /\ [Next]_vars => StoreInv'
  <1> SUFFICES ASSUME CallersKeepRules, ShortWrites, StoreInv, [Next]_vars PROVE StoreInv'
    OBVIOUS
  <1>1. OnceInv'
    BY OnceNext DEF StoreInv
  <1> QED BY <1>1, CallNext, GoneNext, GrowsNext DEF StoreInv

-----------------------------------------------------------------------------
(***************************************************************************)
(* The files as the promise has them.                                      *)
(***************************************************************************)
\* The sector n links behind c.
Nth(links, c, n) ==
  LET nth[i \in Nat] == IF i = 0 THEN c
                        ELSE IF nth[i - 1] \in Sectors THEN links[nth[i - 1]] ELSE nth[i - 1]
  IN  nth[n]

\* Byte i of the chain of c, and whether it can be read.
At(links, c, i) == <<Nth(links, c, i \div DataArea), i % DataArea>>
Shows(marks, bytes, b) == b[1] \in Sectors /\ marks[b[1]] = "inuse" /\ b[2] \in bytes[b[1]]

Content(links, marks, bytes, c, length) ==
  LET size  == IF length = Empty THEN 0 ELSE length
      whole == {i \in 1..size : \A j \in 1..i : Shows(marks, bytes, At(links, c, j - 1))}
  IN  [i \in whole |-> At(links, c, i - 1)]

\* What the promise has of a file.
EntryOf(links, marks, bytes, c, length, ro) ==
  [state |-> IF length = Empty THEN "created" ELSE "stored",
   ro    |-> ro,
   bytes |-> Content(links, marks, bytes, c, length)]

\* What the index has of a name.
FoundIn(idx, n) == {k \in Slots : idx[k].name = n /\ IsOpen(idx[k])}

Kept(idx, links, marks, bytes, n) ==
  IF FoundIn(idx, n) = {} THEN NoEntry
  ELSE LET k == CHOOSE j \in FoundIn(idx, n) : IsFirst(j, FoundIn(idx, n))
       IN  EntryOf(links, marks, bytes, idx[k].cluster, idx[k].length, idx[k].info.ro)

\* A name whose file is read from the call, not from the index.
InHand(n) ==
  pc # "idle" /\ (job.op = "format" \/ (job.op \in {"delete", "override", "finish", "rename"} /\ n = file.name))

\* The caller has no file.
HandsFree ==
  \/ file.block = Empty
  \/ pc = "idle" /\ ~Attached
  \/ pc # "idle" /\ job.op \in {"create", "delete", "format"}

\* The files of the promise.
Files == [n \in Names |-> StoredAs(n)]

LEMMA ContentIs ==
  ASSUME clobbered = {}
  PROVE  \A c, length : ReadableBytes(c, length) = Content(next, mark, data, c, length)
  BY DEF ReadableBytes, Readable, ReadByte, NthSector, Follow, Nth, At, Shows, Content

\* Where the promise reads a file from.
LEMMA FilesAre ==
  clobbered = {} =>
    \A n \in Names :
      /\ ~InHand(n) => Files[n] = Kept(Index, next, mark, data, n)
      /\ pc # "idle" /\ job.op = "format" => Files[n] = NoEntry
      /\ pc # "idle" /\ n = file.name =>
           /\ job.op = "delete" => Files[n] = NoEntry
           /\ job.op = "override" => Files[n] = EntryOf(next, mark, data, Empty, Empty, FALSE)
           /\ job.op \in {"finish", "rename"} =>
                Files[n] = EntryOf(next, mark, data, file.cluster, file.length, job.info.ro)
  <1> SUFFICES ASSUME clobbered = {}, NEW n \in Names
               PROVE  /\ ~InHand(n) => StoredAs(n) = Kept(Index, next, mark, data, n)
                      /\ pc # "idle" /\ job.op = "format" => StoredAs(n) = NoEntry
                      /\ pc # "idle" /\ n = file.name =>
                           /\ job.op = "delete" => StoredAs(n) = NoEntry
                           /\ job.op = "override" => StoredAs(n) = EntryOf(next, mark, data, Empty, Empty, FALSE)
                           /\ job.op \in {"finish", "rename"} =>
                                StoredAs(n) = EntryOf(next, mark, data, file.cluster, file.length, job.info.ro)
    BY DEF Files
  <1>1. \A c, length, ro : Entry(c, length, ro) = EntryOf(next, mark, data, c, length, ro)
    BY ContentIs DEF Entry, EntryOf
  <1>2. ASSUME ~InHand(n) PROVE StoredAs(n) = Kept(Index, next, mark, data, n)
    <2> DEFINE found == {k \in Slots : Index[k].name = n /\ IsOpen(Index[k])}
               first == CHOOSE j \in found : IsFirst(j, found)
               kept  == IF found = {} THEN NoEntry
                        ELSE Entry(Index[first].cluster, Index[first].length, Index[first].info.ro)
    <2>1. StoredAs(n) = kept
      <3>1. /\ ~(pc # "idle" /\ job.op = "format") /\ ~InCall(n, {"delete"}) /\ ~InCall(n, {"override"})
            /\ ~InCall(n, {"finish", "rename"})
        BY <1>2 DEF InHand, InCall
      <3> QED BY <3>1, Zenon DEF StoredAs
    <2>2. FoundIn(Index, n) = found
      BY DEF FoundIn
    <2> HIDE DEF found
    <2>3. Kept(Index, next, mark, data, n) = kept
      BY <1>1, <2>2 DEF Kept
    <2> QED BY <2>1, <2>3
  <1>3. pc # "idle" /\ job.op = "format" => StoredAs(n) = NoEntry
    BY DEF StoredAs, InCall
  <1>4. pc # "idle" /\ n = file.name =>
          /\ job.op = "delete" => StoredAs(n) = NoEntry
          /\ job.op = "override" => StoredAs(n) = Entry(Empty, Empty, FALSE)
          /\ job.op \in {"finish", "rename"} => StoredAs(n) = Entry(file.cluster, file.length, job.info.ro)
    BY DEF StoredAs, InCall
  <1> QED BY <1>1, <1>2, <1>3, <1>4

LEMMA FilesAreNext ==
  (clobbered = {} =>
    \A n \in Names :
      /\ ~InHand(n) => Files[n] = Kept(Index, next, mark, data, n)
      /\ pc # "idle" /\ job.op = "format" => Files[n] = NoEntry
      /\ pc # "idle" /\ n = file.name =>
           /\ job.op = "delete" => Files[n] = NoEntry
           /\ job.op = "override" => Files[n] = EntryOf(next, mark, data, Empty, Empty, FALSE)
           /\ job.op \in {"finish", "rename"} =>
                Files[n] = EntryOf(next, mark, data, file.cluster, file.length, job.info.ro))'
  BY FilesAre, PTL

\* Where it reads the draft from.
LEMMA DraftIs ==
  clobbered = {} =>
    Held = IF HandsFree THEN [name |-> NoName, bytes |-> <<>>]
           ELSE [name |-> file.name,
                 bytes |-> IF pc # "idle" /\ job.op = "override" THEN <<>>
                           ELSE Content(next, mark, data, file.cluster, file.length)]
  BY ContentIs DEF Held, HandsFree, InCall

LEMMA DraftIsNext ==
  (clobbered = {} =>
    Held = IF HandsFree THEN [name |-> NoName, bytes |-> <<>>]
           ELSE [name |-> file.name,
                 bytes |-> IF pc # "idle" /\ job.op = "override" THEN <<>>
                           ELSE Content(next, mark, data, file.cluster, file.length)])'
  BY DraftIs, PTL

-----------------------------------------------------------------------------
(***************************************************************************)
(* How the contents of files change.                                       *)
(***************************************************************************)
Links == [Sectors -> Sectors \cup Words]

LEMMA NthLinks ==
  ASSUME NEW links \in Links, NEW c
  PROVE  /\ Nth(links, c, 0) = c
         /\ \A n \in Nat : /\ Nth(links, c, n) \in Sectors \cup Words \cup {c}
                           /\ Nth(links, c, n + 1) =
                                IF Nth(links, c, n) \in Sectors THEN links[Nth(links, c, n)] ELSE Nth(links, c, n)
  <1> DEFINE S == Sectors \cup Words \cup {c}
             G(s) == IF s \in Sectors THEN links[s] ELSE s
             F == [s \in S |-> G(s)]
             Is(f) == f = [i \in Nat |-> IF i = 0 THEN c ELSE IF f[i - 1] \in Sectors THEN links[f[i - 1]] ELSE f[i - 1]]
             nth == CHOOSE f : Is(f)
  <1>0. \A s \in S : G(s) \in S
    BY DEF Links
  <1>1. PICK f \in [Nat -> S] : f = [i \in Nat |-> IF i = 0 THEN c ELSE F[f[i - 1]]]
    <2>1. c \in S /\ F \in [S -> S]
      BY <1>0
    <2> HIDE DEF S, F
    <2> QED BY <2>1, Iterates
  <1>2. Is(f)
    <2>1. ASSUME NEW i \in Nat PROVE f[i] = IF i = 0 THEN c ELSE G(f[i - 1])
      <3>1. CASE i = 0
        BY <1>1, <3>1
      <3>2. CASE i # 0
        <4>1. i - 1 \in Nat
          BY <3>2
        <4>2. f[i - 1] \in S
          BY <1>1, <4>1
        <4>3. f[i] = F[f[i - 1]]
          <5> HIDE DEF F, S
          <5> QED BY <1>1, <3>2
        <4> HIDE DEF G
        <4> QED BY <3>2, <4>2, <4>3
      <3> QED BY <3>1, <3>2
    <2> QED BY <1>1, <2>1
  <1>3. Is(nth)
    <2> HIDE DEF Is
    <2> QED BY <1>2
  <1>4. \A n \in Nat : Nth(links, c, n) = nth[n]
    BY DEF Nth
  <1> HIDE DEF nth
  <1>5. nth[0] = c /\ \A n \in Nat : nth[n + 1] = G(nth[n])
    BY <1>3
  <1> DEFINE T == {n \in Nat : nth[n] \in S}
  <1>6. 0 \in T /\ \A n \in T : n + 1 \in T
    <2>1. 0 \in T
      BY <1>5
    <2>2. ASSUME NEW n \in T PROVE n + 1 \in T
      <3>1. nth[n] \in S /\ nth[n + 1] = G(nth[n]) /\ n + 1 \in Nat
        BY <1>5
      <3>2. G(nth[n]) \in S
        BY <1>0, <3>1
      <3> QED BY <3>1, <3>2
    <2> QED BY <2>1, <2>2
  <1>7. T = Nat
    <2> HIDE DEF T
    <2>1. T \in SUBSET Nat
      BY DEF T
    <2> QED BY <1>6, <2>1, FromZeroOn
  <1> QED BY <1>4, <1>5, <1>7

\* Two links agree as far as they are followed.
LEMMA NthAgree ==
  ASSUME NEW links \in Links, NEW new \in Links, NEW c, NEW n \in Nat,
         \A i \in 0 .. n - 1 : Nth(links, c, i) \in Sectors => new[Nth(links, c, i)] = links[Nth(links, c, i)]
  PROVE  \A i \in 0 .. n : Nth(new, c, i) = Nth(links, c, i)
  <1> DEFINE T == {i \in Nat : i <= n => Nth(new, c, i) = Nth(links, c, i)}
  <1>1. 0 \in T
    BY NthLinks
  <1>2. ASSUME NEW i \in T PROVE i + 1 \in T
    <2> SUFFICES ASSUME i + 1 <= n PROVE Nth(new, c, i + 1) = Nth(links, c, i + 1)
      OBVIOUS
    <2>1. i \in Nat /\ i \in 0 .. n - 1 /\ Nth(new, c, i) = Nth(links, c, i)
      OBVIOUS
    <2> HIDE DEF T
    <2>2. Nth(links, c, i + 1) = IF Nth(links, c, i) \in Sectors THEN links[Nth(links, c, i)] ELSE Nth(links, c, i)
      BY <2>1, NthLinks
    <2>3. Nth(new, c, i + 1) = IF Nth(new, c, i) \in Sectors THEN new[Nth(new, c, i)] ELSE Nth(new, c, i)
      BY <2>1, NthLinks
    <2> QED BY <2>1, <2>2, <2>3
  <1>3. T = Nat
    <2> HIDE DEF T
    <2>1. T \in SUBSET Nat
      BY DEF T
    <2> QED BY <1>1, <1>2, <2>1, FromZeroOn
  <1> QED BY <1>3

LEMMA NthReached ==
  ASSUME NEW links \in Links, NEW c
  PROVE  \A n \in Nat : Nth(links, c, n) \in Sectors => Nth(links, c, n) \in Reached(links, c)
  <1> DEFINE R == Reached(links, c)
             T == {n \in Nat : Nth(links, c, n) \in Sectors => Nth(links, c, n) \in R}
  <1>a. R \in SUBSET Sectors /\ (c \in Sectors => c \in R) /\ Closed(links, R)
    BY ReachedIsClosed
  <1> HIDE DEF R
  <1>1. 0 \in T
    BY <1>a, NthLinks
  <1>2. ASSUME NEW n \in T PROVE n + 1 \in T
    <2> SUFFICES ASSUME Nth(links, c, n + 1) \in Sectors PROVE Nth(links, c, n + 1) \in R
      OBVIOUS
    <2>1. Nth(links, c, n + 1) = IF Nth(links, c, n) \in Sectors THEN links[Nth(links, c, n)] ELSE Nth(links, c, n)
      BY NthLinks
    <2> QED BY <1>a, <2>1 DEF Closed
  <1>3. T = Nat
    <2> HIDE DEF T
    <2>1. T \in SUBSET Nat
      BY DEF T
    <2> QED BY <1>1, <1>2, <2>1, FromZeroOn
  <1> QED BY <1>3 DEF R

\* What is done outside of a chain does not change its content.
LEMMA ContentSame ==
  ASSUME NEW links \in Links, NEW new \in Links, NEW marks, NEW bytes, NEW marked, NEW now, NEW c,
         NEW length \in Nat \cup {Empty},
         \A t \in Reached(links, c) : new[t] = links[t] /\ marked[t] = marks[t] /\ now[t] = bytes[t]
  PROVE  Content(new, marked, now, c, length) = Content(links, marks, bytes, c, length)
  <1>1. \A i \in Nat : Nth(new, c, i) = Nth(links, c, i)
    <2>1. ASSUME NEW i \in Nat PROVE Nth(new, c, i) = Nth(links, c, i)
      <3>1. \A j \in 0 .. i - 1 : Nth(links, c, j) \in Sectors => new[Nth(links, c, j)] = links[Nth(links, c, j)]
        BY NthReached
      <3>2. \A j \in 0 .. i : Nth(new, c, j) = Nth(links, c, j)
        BY <3>1, NthAgree
      <3> QED BY <3>2
    <2> QED BY <2>1
  <1> DEFINE size == IF length = Empty THEN 0 ELSE length
  <1>2. size \in Nat
    BY SectorFacts
  <1>3. \A i \in 1 .. size : i - 1 \in Nat /\ (i - 1) \div DataArea \in Nat
    BY <1>2, DivMod, SizeAssumption
  <1>4. \A i \in 1 .. size : At(new, c, i - 1) = At(links, c, i - 1)
    BY <1>1, <1>3 DEF At
  <1>5. \A i \in 1 .. size : Shows(marked, now, At(new, c, i - 1)) <=> Shows(marks, bytes, At(links, c, i - 1))
    <2> SUFFICES ASSUME NEW i \in 1 .. size
                 PROVE  Shows(marked, now, At(links, c, i - 1)) <=> Shows(marks, bytes, At(links, c, i - 1))
      BY <1>4
    <2>1. At(links, c, i - 1)[1] = Nth(links, c, (i - 1) \div DataArea)
      BY DEF At
    <2>2. At(links, c, i - 1)[1] \in Sectors => At(links, c, i - 1)[1] \in Reached(links, c)
      BY <1>3, <2>1, NthReached
    <2> QED BY <2>2 DEF Shows
  <1> HIDE DEF size
  <1>6. {i \in 1 .. size : \A j \in 1 .. i : Shows(marked, now, At(new, c, j - 1))} =
        {i \in 1 .. size : \A j \in 1 .. i : Shows(marks, bytes, At(links, c, j - 1))}
    <2>1. \A i \in 1 .. size : \A j \in 1 .. i : j \in 1 .. size
      BY <1>2
    <2> QED BY <1>5, <2>1
  <1> DEFINE W == {i \in 1 .. size : \A j \in 1 .. i : Shows(marks, bytes, At(links, c, j - 1))}
  <1>7. W \subseteq 1 .. size
    OBVIOUS
  <1>8. Content(links, marks, bytes, c, length) = [i \in W |-> At(links, c, i - 1)]
    BY DEF Content, size
  <1>9. Content(new, marked, now, c, length) = [i \in W |-> At(new, c, i - 1)]
    BY <1>6 DEF Content, size
  <1> HIDE DEF W
  <1> QED BY <1>4, <1>7, <1>8, <1>9

\* The content is as long as bytes show.
LEMMA ContentUpTo ==
  ASSUME NEW links, NEW marks, NEW bytes, NEW c, NEW length \in Nat, NEW m \in Nat, m <= length,
         \A i \in 0 .. m - 1 : Shows(marks, bytes, At(links, c, i)),
         m < length => ~Shows(marks, bytes, At(links, c, m))
  PROVE  Content(links, marks, bytes, c, length) = [i \in 1 .. m |-> At(links, c, i - 1)]
  <1> DEFINE W == {i \in 1 .. length : \A j \in 1 .. i : Shows(marks, bytes, At(links, c, j - 1))}
  <1>1. W = 1 .. m
    <2>1. ASSUME NEW i \in 1 .. m PROVE i \in W
      <3>1. \A j \in 1 .. i : j - 1 \in 0 .. m - 1
        OBVIOUS
      <3> QED BY <3>1
    <2>2. ASSUME NEW i \in W PROVE i \in 1 .. m
      <3> SUFFICES ASSUME m < i PROVE FALSE
        OBVIOUS
      <3>1. m + 1 \in 1 .. i /\ (m + 1) - 1 = m /\ m < length
        OBVIOUS
      <3>2. Shows(marks, bytes, At(links, c, (m + 1) - 1))
        BY <3>1
      <3> QED BY <3>1, <3>2
    <2> HIDE DEF W
    <2> QED BY <2>1, <2>2
  <1>2. length # Empty
    BY SectorFacts
  <1>3. Content(links, marks, bytes, c, length) = [i \in W |-> At(links, c, i - 1)]
    BY <1>2 DEF Content
  <1> QED BY <1>1, <1>3

LEMMA ContentNone ==
  ASSUME NEW links, NEW marks, NEW bytes, NEW c
  PROVE  Content(links, marks, bytes, c, Empty) = <<>>
  <1>1. {i \in 1 .. 0 : \A j \in 1 .. i : Shows(marks, bytes, At(links, c, j - 1))} = {}
    OBVIOUS
  <1> QED BY <1>1 DEF Content

\* What a content has can be read.
LEMMA ContentShows ==
  ASSUME NEW links, NEW marks, NEW bytes, NEW c, NEW length \in Nat \cup {Empty},
         NEW i \in DOMAIN Content(links, marks, bytes, c, length)
  PROVE  Shows(marks, bytes, Content(links, marks, bytes, c, length)[i])
  <1> DEFINE size == IF length = Empty THEN 0 ELSE length
             W == {j \in 1 .. size : \A h \in 1 .. j : Shows(marks, bytes, At(links, c, h - 1))}
  <1>1. Content(links, marks, bytes, c, length) = [j \in W |-> At(links, c, j - 1)]
    BY DEF Content
  <1>2. i \in W
    <2> HIDE DEF W
    <2> QED BY <1>1
  <1>3. size \in Nat
    BY SectorFacts
  <1> HIDE DEF size
  <1>4. i \in 1 .. i
    BY <1>2, <1>3
  <1>5. Shows(marks, bytes, At(links, c, i - 1))
    BY <1>2, <1>4
  <1> HIDE DEF W
  <1> QED BY <1>1, <1>2, <1>5

-----------------------------------------------------------------------------
(***************************************************************************)
(* How the files of the index change.                                      *)
(***************************************************************************)
\* A file whose file blocks and chain stay.
LEMMA KeptSame ==
  ASSUME NEW n, NEW idx, NEW index, NEW links \in Links, NEW new \in Links,
         NEW marks, NEW bytes, NEW marked, NEW now,
         \A k \in Slots : k \in FoundIn(index, n) <=> k \in FoundIn(idx, n),
         \A k \in FoundIn(idx, n) :
           /\ index[k] = idx[k] /\ idx[k].length \in Nat \cup {Empty}
           /\ \A t \in Reached(links, idx[k].cluster) :
                new[t] = links[t] /\ marked[t] = marks[t] /\ now[t] = bytes[t]
  PROVE  Kept(index, new, marked, now, n) = Kept(idx, links, marks, bytes, n)
  <1>1. FoundIn(index, n) = FoundIn(idx, n)
    BY DEF FoundIn
  <1>2. ASSUME NEW k \in FoundIn(idx, n)
        PROVE  EntryOf(new, marked, now, index[k].cluster, index[k].length, index[k].info.ro) =
               EntryOf(links, marks, bytes, idx[k].cluster, idx[k].length, idx[k].info.ro)
    <2>1. Content(new, marked, now, idx[k].cluster, idx[k].length) =
          Content(links, marks, bytes, idx[k].cluster, idx[k].length)
      <3>1. idx[k].length \in Nat \cup {Empty}
        OBVIOUS
      <3>2. \A t \in Reached(links, idx[k].cluster) :
              new[t] = links[t] /\ marked[t] = marks[t] /\ now[t] = bytes[t]
        OBVIOUS
      <3>3. ASSUME NEW c, NEW length \in Nat \cup {Empty},
                   \A t \in Reached(links, c) : new[t] = links[t] /\ marked[t] = marks[t] /\ now[t] = bytes[t]
            PROVE  Content(new, marked, now, c, length) = Content(links, marks, bytes, c, length)
        BY <3>3, ContentSame
      <3> QED BY <3>1, <3>2, <3>3
    <2> QED BY <2>1 DEF EntryOf
  <1>3. CASE FoundIn(idx, n) # {}
    <2> DEFINE F == FoundIn(idx, n)
               k == CHOOSE j \in F : IsFirst(j, F)
    <2>1. k \in F
      <3>1. F \in SUBSET Nat /\ F # {}
        BY <1>3, SlotsAssumption DEF FoundIn
      <3> HIDE DEF F
      <3>2. \E j \in F : IsFirst(j, F)
        BY <3>1, LeastNatural
      <3> QED BY <3>2
    <2> HIDE DEF k
    <2>2. EntryOf(new, marked, now, index[k].cluster, index[k].length, index[k].info.ro) =
          EntryOf(links, marks, bytes, idx[k].cluster, idx[k].length, idx[k].info.ro)
      BY <1>2, <2>1
    <2> QED BY <1>1, <1>3, <2>2 DEF Kept, k
  <1> QED BY <1>1, <1>3 DEF Kept

LEMMA KeptOne ==
  ASSUME NEW n, NEW idx, NEW links, NEW marks, NEW bytes, NEW k \in Slots, FoundIn(idx, n) = {k}
  PROVE  Kept(idx, links, marks, bytes, n) =
           EntryOf(links, marks, bytes, idx[k].cluster, idx[k].length, idx[k].info.ro)
  <1>1. IsFirst(k, {k})
    BY SlotsAssumption DEF IsFirst
  <1>2. (CHOOSE j \in {k} : IsFirst(j, {k})) = k
    BY <1>1
  <1> QED BY <1>2 DEF Kept

LEMMA KeptNone ==
  ASSUME NEW n, NEW idx, NEW links, NEW marks, NEW bytes, FoundIn(idx, n) = {}
  PROVE  Kept(idx, links, marks, bytes, n) = NoEntry
  BY DEF Kept

\* The index of a reachable state has one file block at most for a name.
LEMMA FoundIsLive == \A n \in Names : \A k : k \in FoundIn(Index, n) <=> k \in Live /\ Index[k].name = n
  BY ValueAssumption DEF FoundIn, Live, HasName

LEMMA FoundOne ==
  ASSUME UniqueNames, NEW n \in Names, NEW k \in Live, Index[k].name = n
  PROVE  k \in Slots /\ FoundIn(Index, n) = {k}
  BY FoundIsLive DEF UniqueNames, Live

LEMMA FoundIsLiveNext == (\A n \in Names : \A k : k \in FoundIn(Index, n) <=> k \in Live /\ Index[k].name = n)'
  BY FoundIsLive, PTL

-----------------------------------------------------------------------------
(***************************************************************************)
(* The actions of the promise, file by file.                               *)
(***************************************************************************)
FilesStay(S) == \A n \in Names \ S : Files'[n] = Files[n]

NoDraft == [name |-> NoName, bytes |-> <<>>]

\* A step of the promise, or none.
KeepsPromise == Promise!StoreNext \/ UNCHANGED Promise!storeVars

\* Each action of the promise, from what it does to one file and to the draft.
LEMMA ByStutter ==
  ASSUME FilesStay({}), Held' = Held
  PROVE  KeepsPromise
  <1>1. Files' = Files
    BY DEF FilesStay, Files
  <1> QED BY <1>1 DEF KeepsPromise, Promise!storeVars, Files

LEMMA ByClose ==
  ASSUME FilesStay({}), Held' = NoDraft, Held.name # NoName => Held.bytes = Files[Held.name].bytes
  PROVE  KeepsPromise
  <1>1. Files' = Files
    BY DEF FilesStay, Files
  <1>2. Promise!Close
    BY <1>1 DEF Promise!Close, Promise!IsOpen, Promise!Closed, Files, NoDraft
  <1> QED BY <1>2 DEF KeepsPromise, Promise!StoreNext

LEMMA ByOpen ==
  ASSUME FilesStay({}), NEW n \in Names, Files[n] # NoEntry, Held' = [name |-> n, bytes |-> Files[n].bytes]
  PROVE  KeepsPromise
  <1>1. Files' = Files
    BY DEF FilesStay, Files
  <1>2. Promise!Open(n)
    BY <1>1 DEF Promise!Open, Promise!Absent, NoEntry, Files
  <1> QED BY <1>2 DEF KeepsPromise, Promise!StoreNext

LEMMA ByCreate ==
  ASSUME NEW n \in Names, NEW ro \in BOOLEAN, FilesStay({n}), Files[n] = NoEntry,
         Files'[n] = [state |-> "created", ro |-> ro, bytes |-> <<>>],
         Held' = [name |-> n, bytes |-> <<>>]
  PROVE  KeepsPromise
  <1>1. Files' = [Files EXCEPT ![n] = Promise!Created(ro)]
    BY DEF FilesStay, Files, Promise!Created
  <1>2. Promise!Create(n, ro)
    BY <1>1 DEF Promise!Create, Promise!Absent, NoEntry, Files
  <1> QED BY <1>2 DEF KeepsPromise, Promise!StoreNext

LEMMA ByAppend ==
  ASSUME FilesStay({}), Held.name # NoName, ~Files[Held.name].ro,
         NEW m \in Nat, NEW n \in Nat, m <= n, NEW B,
         Held.bytes = [i \in 1 .. m |-> B[i]], Held'.bytes = [i \in 1 .. n |-> B[i]],
         Held'.name = Held.name, \A i \in m + 1 .. n : B[i] \notin Promise!Written
  PROVE  KeepsPromise
  <1>1. Files' = Files
    BY DEF FilesStay, Files
  <1>2. Len(Held.bytes) = m /\ Len(Held'.bytes) = n
    BY LenProperties
  <1>3. SubSeq(Held'.bytes, 1, Len(Held.bytes)) = Held.bytes
    BY <1>2
  <1>4. \A i \in Len(Held.bytes) + 1 .. Len(Held'.bytes) : Held'.bytes[i] \notin Promise!Written
    BY <1>2
  <1>5. Promise!AppendBytes
    BY <1>1, <1>2, <1>3, <1>4 DEF Promise!AppendBytes, Promise!IsOpen, Files
  <1> QED BY <1>5 DEF KeepsPromise, Promise!StoreNext

\* The entry of n once its bytes are there.
WithBytes(entries, n, now) == [entries EXCEPT ![n].state = "stored", ![n].bytes = now]

LEMMA FilledIn ==
  ASSUME NEW n \in Names, FilesStay({n}), NEW state, NEW ro, NEW bytes, NEW now,
         Files[n] = [state |-> state, ro |-> ro, bytes |-> bytes],
         Files'[n] = [state |-> "stored", ro |-> ro, bytes |-> now]
  PROVE  Files' = WithBytes(Files, n, now)
  <1> DEFINE F == [Files EXCEPT ![n].state = "stored"]
             G == [F EXCEPT ![n].bytes = now]
  <1>1. Files = [m \in Names |-> Files[m]] /\ Files' = [m \in Names |-> Files'[m]]
    BY DEF Files
  <1>2. F = [m \in Names |-> F[m]] /\ \A m \in Names \ {n} : F[m] = Files[m]
    BY <1>1
  <1>3. F[n] = [Files[n] EXCEPT !.state = "stored"]
    BY <1>1
  <1> HIDE DEF F
  <1>4. G = [m \in Names |-> G[m]] /\ \A m \in Names \ {n} : G[m] = F[m]
    BY <1>2
  <1>5. G[n] = [F[n] EXCEPT !.bytes = now]
    BY <1>2
  <1> HIDE DEF G
  <1>6. G[n] = Files'[n]
    <2>1. F[n] = [state |-> "stored", ro |-> ro, bytes |-> bytes]
      BY <1>3
    <2>2. G[n] = [state |-> "stored", ro |-> ro, bytes |-> now]
      BY <1>5, <2>1
    <2> QED BY <2>2
  <1>7. \A m \in Names : G[m] = Files'[m]
    BY <1>2, <1>4, <1>6 DEF FilesStay
  <1>8. G = Files'
    BY <1>1, <1>4, <1>7
  <1> QED BY <1>8 DEF G, F, WithBytes

LEMMA ByFinish ==
  ASSUME NEW n \in Names, Held.name = n, FilesStay({n}), Held' = Held, NEW state, NEW ro, NEW bytes,
         Files[n] = [state |-> state, ro |-> ro, bytes |-> bytes],
         Files'[n] = [state |-> "stored", ro |-> ro, bytes |-> Held.bytes]
  PROVE  KeepsPromise
  <1>0. Files' = WithBytes(Files, n, Held.bytes)
    BY FilledIn
  <1>1. Files' = [Files EXCEPT ![n].state = "stored", ![n].bytes = Held.bytes]
    BY <1>0 DEF WithBytes
  <1>2. Promise!Finish
    BY <1>1, ValueAssumption DEF Promise!Finish, Promise!IsOpen, Files
  <1> QED BY <1>2 DEF KeepsPromise, Promise!StoreNext

LEMMA ByOverride ==
  ASSUME NEW n \in Names, Held.name = n, NEW bytes, Held = [name |-> n, bytes |-> bytes], ~Files[n].ro, FilesStay({n}),
         Files'[n] = [state |-> "created", ro |-> FALSE, bytes |-> <<>>],
         Held' = [name |-> n, bytes |-> <<>>]
  PROVE  KeepsPromise
  <1>1. Files' = [Files EXCEPT ![n] = Promise!Created(FALSE)]
    BY DEF FilesStay, Files, Promise!Created
  <1>2. Held' = [Held EXCEPT !.bytes = <<>>]
    OBVIOUS
  <1>3. Promise!Override
    BY <1>1, <1>2, ValueAssumption DEF Promise!Override, Promise!IsOpen, Files
  <1> QED BY <1>3 DEF KeepsPromise, Promise!StoreNext

LEMMA ByOverridden ==
  ASSUME NEW n \in Names, Held.name = n, Held'.name = n, FilesStay({n}),
         Files[n] = [state |-> "created", ro |-> FALSE, bytes |-> <<>>],
         Files'[n] = [state |-> "stored", ro |-> FALSE, bytes |-> Held'.bytes],
         \A i \in DOMAIN Held'.bytes : Held'.bytes[i] \notin Promise!Written
  PROVE  KeepsPromise
  <1>0. Files' = WithBytes(Files, n, Held'.bytes)
    BY FilledIn
  <1>1. Files' = [Files EXCEPT ![n].state = "stored", ![n].bytes = Held'.bytes]
    BY <1>0 DEF WithBytes
  <1>2. Promise!Overridden
    BY <1>1, ValueAssumption DEF Promise!Overridden, Promise!IsOpen, Promise!Created, Files
  <1> QED BY <1>2 DEF KeepsPromise, Promise!StoreNext

LEMMA ByRename ==
  ASSUME NEW m \in Names, NEW n \in Names, NEW bytes, Held = [name |-> m, bytes |-> bytes], ~Files[m].ro,
         Files[n] = NoEntry \/ n = m, NEW state \in {"created", "stored"},
         state = "created" => bytes = <<>> /\ Files[m].state = "created",
         FilesStay({m, n}), m # n => Files'[m] = NoEntry,
         Files'[n] = [state |-> state, ro |-> FALSE, bytes |-> bytes],
         Held' = [name |-> n, bytes |-> bytes]
  PROVE  KeepsPromise
  <1>1. Files' = [Files EXCEPT ![m] = Promise!Absent,
                               ![n] = [state |-> state, ro |-> FALSE, bytes |-> bytes]]
    BY DEF FilesStay, Files, Promise!Absent, NoEntry
  <1>2. Held' = [Held EXCEPT !.name = n]
    OBVIOUS
  <1>3. Promise!Rename(n)
    BY <1>1, <1>2, ValueAssumption DEF Promise!Rename, Promise!IsOpen, Promise!Absent, NoEntry, Files
  <1> QED BY <1>3 DEF KeepsPromise, Promise!StoreNext

LEMMA ByDelete ==
  ASSUME NEW n \in Names, Held.name = n, FilesStay({n}), Files'[n] = NoEntry, Held' = NoDraft
  PROVE  KeepsPromise
  <1>1. Files' = [Files EXCEPT ![n] = Promise!Absent]
    BY DEF FilesStay, Files, Promise!Absent, NoEntry
  <1>2. Promise!Delete
    BY <1>1, ValueAssumption DEF Promise!Delete, Promise!IsOpen, Promise!Closed, NoDraft, Files
  <1> QED BY <1>2 DEF KeepsPromise, Promise!StoreNext

LEMMA ByFormat ==
  ASSUME \A n \in Names : Files'[n] = NoEntry, Held' = NoDraft
  PROVE  KeepsPromise
  <1>1. Promise!Format
    BY DEF Promise!Format, Promise!Closed, NoDraft, Promise!Absent, NoEntry, Files
  <1> QED BY <1>1 DEF KeepsPromise, Promise!StoreNext

LEMMA ByCollect ==
  ASSUME Held' = Held,
         \A n \in Names : \/ Files'[n] = Files[n]
                          \/ Files'[n] = NoEntry /\ Files[n].state = "created" /\ n # Held.name
  PROVE  KeepsPromise
  <1> DEFINE lost == {n \in Names : Files'[n] # Files[n]}
  <1>1. lost \in SUBSET {n \in Names : Files[n].state = "created" /\ n # Held.name}
    OBVIOUS
  <1>2. Files' = [n \in Names |-> IF n \in lost THEN NoEntry ELSE Files[n]]
    BY DEF Files
  <1> HIDE DEF lost
  <1>3. Promise!Collect
    BY <1>1, <1>2 DEF Promise!Collect, Promise!Absent, NoEntry, Files
  <1> QED BY <1>3 DEF KeepsPromise, Promise!StoreNext

-----------------------------------------------------------------------------
(***************************************************************************)
(* Which files a step leaves alone.                                        *)
(***************************************************************************)
LEMMA LengthsAre ==
  StoreInv =>
    /\ next \in Links /\ clobbered = {}
    /\ file.length \in Nat \cup {Empty}
    /\ \A k \in Slots : Index[k].length \in Nat \cup {Empty}
  <1> SUFFICES ASSUME StoreInv
               PROVE  /\ next \in Links /\ clobbered = {}
                      /\ file.length \in Nat \cup {Empty}
                      /\ \A k \in Slots : Index[k].length \in Nat \cup {Empty}
    OBVIOUS
  <1>1. TypeOK /\ WordsInv /\ clobbered = {}
    BY DEF StoreInv, OnceInv, FinishInv, ChainsInv, FilledInv
  <1>2. next \in Links /\ file.length \in Nat \cup {Empty}
    BY <1>1 DEF TypeOK, Links, File, WordsInv, Words
  <1>3. ASSUME NEW k \in Slots PROVE Index[k].length \in Nat \cup {Empty}
    <2>1. Index[k] \in {fb[k], gcbuf[k]}
      BY DEF Index
    <2>2. fb[k].length \in Nat \cup {Empty} /\ gcbuf[k].length \in Nat \cup {Empty}
      BY <1>1 DEF TypeOK, FileBlock, WordsInv, Words
    <2> QED BY <2>1, <2>2
  <1> QED BY <1>1, <1>2, <1>3

LEMMA LengthsAreNext ==
  (StoreInv =>
    /\ next \in Links /\ clobbered = {}
    /\ file.length \in Nat \cup {Empty}
    /\ \A k \in Slots : Index[k].length \in Nat \cup {Empty})'
  BY LengthsAre, PTL

LEMMA EntryStays ==
  ASSUME StoreInv, StoreInv', NEW n \in Names, ~InHand(n), ~InHand(n)',
         \A k \in Slots : k \in FoundIn(Index', n) <=> k \in FoundIn(Index, n),
         \A k \in FoundIn(Index, n) :
           /\ Index'[k] = Index[k]
           /\ \A t \in Chain(k) : next'[t] = next[t] /\ mark'[t] = mark[t] /\ data'[t] = data[t]
  PROVE  Files'[n] = Files[n]
  <1>1. Files[n] = Kept(Index, next, mark, data, n) /\ Files'[n] = Kept(Index', next', mark', data', n)
    BY LengthsAre, LengthsAreNext, FilesAre, FilesAreNext
  <1>2. next \in Links /\ next' \in Links
    BY LengthsAre, LengthsAreNext
  <1>3. \A k \in FoundIn(Index, n) :
           /\ Index'[k] = Index[k] /\ Index[k].length \in Nat \cup {Empty}
           /\ \A t \in Reached(next, Index[k].cluster) :
                next'[t] = next[t] /\ mark'[t] = mark[t] /\ data'[t] = data[t]
    BY LengthsAre DEF Chain, Reach, FoundIn
  <1> DEFINE old == Index
             new == Index'
  <1>4. Kept(new, next', mark', data', n) = Kept(old, next, mark, data, n)
    <2>1. \A k \in Slots : k \in FoundIn(new, n) <=> k \in FoundIn(old, n)
      OBVIOUS
    <2>2. \A k \in FoundIn(old, n) :
           /\ new[k] = old[k] /\ old[k].length \in Nat \cup {Empty}
           /\ \A t \in Reached(next, old[k].cluster) :
                next'[t] = next[t] /\ mark'[t] = mark[t] /\ data'[t] = data[t]
      BY <1>3
    <2> HIDE DEF old, new
    <2> QED BY <1>2, <2>1, <2>2, KeptSame
  <1> QED BY <1>1, <1>4

\* Other file blocks than those of the names in S stay.
LEMMA FilesElsewhere ==
  ASSUME StoreInv, StoreInv', NEW S, UNCHANGED <<next, mark, data>>,
         \A n \in Names \ S :
           /\ ~InHand(n) /\ ~InHand(n)'
           /\ \A k \in Slots : Index'[k] # Index[k] => k \notin FoundIn(Index, n) /\ k \notin FoundIn(Index', n)
  PROVE  FilesStay(S)
  <1>1. ASSUME NEW n \in Names \ S PROVE Files'[n] = Files[n]
    <2>1. \A k \in Slots : k \in FoundIn(Index', n) <=> k \in FoundIn(Index, n)
      BY DEF FoundIn
    <2>2. \A k \in FoundIn(Index, n) : k \in Slots /\ Index'[k] = Index[k]
      BY DEF FoundIn
    <2>3. ~InHand(n) /\ ~InHand(n)' /\ n \in Names
      OBVIOUS
    <2>4. \A k \in FoundIn(Index, n) :
            /\ Index'[k] = Index[k]
            /\ \A t \in Chain(k) : next'[t] = next[t] /\ mark'[t] = mark[t] /\ data'[t] = data[t]
      BY <2>2
    <2> QED BY <2>1, <2>3, <2>4, EntryStays
  <1> QED BY <1>1 DEF FilesStay

\* Sector s is in no chain but those of the names in S.
LEMMA FilesSector ==
  ASSUME StoreInv, StoreInv', NEW S, NEW s, UNCHANGED fb, pc # "gc_rewrite", pc' # "gc_rewrite",
         \A t \in Sectors : t # s => next'[t] = next[t] /\ mark'[t] = mark[t] /\ data'[t] = data[t],
         \A n \in Names \ S : /\ ~InHand(n) /\ ~InHand(n)'
                              /\ \A k \in FoundIn(Index, n) : s \notin Chain(k)
  PROVE  FilesStay(S)
  <1>1. \A k \in Slots : Index'[k] = Index[k]
    BY SameIndex
  <1>2. ASSUME NEW n \in Names \ S PROVE Files'[n] = Files[n]
    <2>1. \A k \in Slots : k \in FoundIn(Index', n) <=> k \in FoundIn(Index, n)
      BY <1>1 DEF FoundIn
    <2>2. \A k \in FoundIn(Index, n) : k \in Slots
      BY DEF FoundIn
    <2>3. ~InHand(n) /\ ~InHand(n)' /\ n \in Names
      OBVIOUS
    <2>4. \A k \in FoundIn(Index, n) :
            /\ Index'[k] = Index[k]
            /\ \A t \in Chain(k) : next'[t] = next[t] /\ mark'[t] = mark[t] /\ data'[t] = data[t]
      <3> SUFFICES ASSUME NEW k \in FoundIn(Index, n)
                   PROVE  /\ Index'[k] = Index[k]
                          /\ \A t \in Chain(k) : next'[t] = next[t] /\ mark'[t] = mark[t] /\ data'[t] = data[t]
        OBVIOUS
      <3>1. s \notin Chain(k) /\ Chain(k) \subseteq Sectors
        BY ReachedIsClosed DEF Chain, Reach
      <3> QED BY <1>1, <2>2, <3>1
    <2> QED BY <2>1, <2>3, <2>4, EntryStays
  <1> QED BY <1>2 DEF FilesStay

-----------------------------------------------------------------------------
(***************************************************************************)
(* The file of the caller.                                                 *)
(***************************************************************************)
LEMMA AttachedEntry ==
  StoreInv /\ Attached /\ pc # "gc_rewrite" =>
    /\ file.block \in Slots /\ file.name \in Names
    /\ Index[file.block] = fb[file.block]
    /\ FoundIn(Index, file.name) = {file.block}
    /\ \A n \in Names : file.block \in FoundIn(Index, n) => n = file.name
    /\ ~InHand(file.name) =>
         Files[file.name] = EntryOf(next, mark, data, fb[file.block].cluster, fb[file.block].length,
                                    fb[file.block].info.ro)
  <1> SUFFICES ASSUME StoreInv, Attached, pc # "gc_rewrite"
               PROVE  /\ file.block \in Slots /\ file.name \in Names
                      /\ Index[file.block] = fb[file.block]
                      /\ FoundIn(Index, file.name) = {file.block}
                      /\ \A n \in Names : file.block \in FoundIn(Index, n) => n = file.name
                      /\ ~InHand(file.name) =>
                           Files[file.name] = EntryOf(next, mark, data, fb[file.block].cluster,
                                                      fb[file.block].length, fb[file.block].info.ro)
    OBVIOUS
  <1>1. ChainsInv /\ UniqueNames
    BY DEF StoreInv, OnceInv, FinishInv
  <1>2. file.block \in Slots /\ file.name \in Names /\ file.block \in Live
    BY <1>1, AttachedFacts
  <1>3. Index[file.block] = fb[file.block]
    BY <1>2, IndexIsFlash
  <1>4. FoundIn(Index, file.name) = {file.block}
    BY <1>1, <1>2, <1>3, FoundOne DEF Attached
  <1>5. \A n \in Names : file.block \in FoundIn(Index, n) => n = file.name
    BY <1>3 DEF FoundIn, Attached
  <1>6. ASSUME ~InHand(file.name)
        PROVE  Files[file.name] = EntryOf(next, mark, data, fb[file.block].cluster, fb[file.block].length,
                                          fb[file.block].info.ro)
    <2>1. Files[file.name] = Kept(Index, next, mark, data, file.name)
      BY <1>2, <1>6, LengthsAre, FilesAre
    <2> DEFINE old == Index
    <2>2. FoundIn(old, file.name) = {file.block} /\ old[file.block] = fb[file.block]
      BY <1>3, <1>4
    <2>3. Files[file.name] = Kept(old, next, mark, data, file.name)
      BY <2>1
    <2> HIDE DEF old
    <2> QED BY <1>2, <2>2, <2>3, KeptOne
  <1> QED BY <1>2, <1>3, <1>4, <1>5, <1>6

LEMMA AttachedEntryNext ==
  (StoreInv /\ Attached /\ pc # "gc_rewrite" =>
    /\ file.block \in Slots /\ file.name \in Names
    /\ Index[file.block] = fb[file.block]
    /\ FoundIn(Index, file.name) = {file.block}
    /\ \A n \in Names : file.block \in FoundIn(Index, n) => n = file.name
    /\ ~InHand(file.name) =>
         Files[file.name] = EntryOf(next, mark, data, fb[file.block].cluster, fb[file.block].length,
                                    fb[file.block].info.ro))'
  BY AttachedEntry, PTL

\* A call on an attached file.
LEMMA HeldIs ==
  StoreInv /\ Attached /\ (pc = "idle" \/ job.op \notin {"create", "delete", "format"}) =>
    Held = [name |-> file.name,
            bytes |-> IF pc # "idle" /\ job.op = "override" THEN <<>>
                      ELSE Content(next, mark, data, file.cluster, file.length)]
  BY LengthsAre, DraftIs DEF HandsFree, Attached

LEMMA HeldIsNext ==
  (StoreInv /\ Attached /\ (pc = "idle" \/ job.op \notin {"create", "delete", "format"}) =>
    Held = [name |-> file.name,
            bytes |-> IF pc # "idle" /\ job.op = "override" THEN <<>>
                      ELSE Content(next, mark, data, file.cluster, file.length)])'
  BY HeldIs, PTL

LEMMA HeldIsFree == StoreInv /\ HandsFree => Held = NoDraft
  BY LengthsAre, DraftIs DEF NoDraft

LEMMA HeldIsFreeNext == (StoreInv /\ HandsFree => Held = NoDraft)'
  BY HeldIsFree, PTL

-----------------------------------------------------------------------------
(***************************************************************************)
(* The calls, step by step.                                                *)
(***************************************************************************)
\* The file the caller has is what the index says, unless something was appended.
LEMMA HeldIsKept ==
  ASSUME CallersKeepRules, StoreInv, pc = "idle", MayReuse, Held.name # NoName
  PROVE  Held.bytes = Files[Held.name].bytes
  <1>1. Attached
    BY HeldIsFree DEF HandsFree, NoDraft
  <1>2. Held = [name |-> file.name, bytes |-> Content(next, mark, data, file.cluster, file.length)]
    BY <1>1, HeldIs
  <1>3. fb[file.block].length = file.length
    BY <1>1 DEF MayReuse, CallersKeepRules, Unfinished
  <1>4. fb[file.block].cluster = file.cluster
    BY <1>1 DEF StoreInv, OnceInv, FinishInv, ChainsInv, FileInv, Holding
  <1>5. ~InHand(file.name)
    BY DEF InHand
  <1>6. Files[file.name] = EntryOf(next, mark, data, file.cluster, file.length, fb[file.block].info.ro)
    BY <1>1, <1>3, <1>4, <1>5, AttachedEntry
  <1> QED BY <1>2, <1>6 DEF EntryOf

LEMMA CreateCallKeeps ==
  ASSUME CallersKeepRules, StoreInv, StoreInv', NEW n \in Names, NEW ro, CreateCall(n, ro)
  PROVE  KeepsPromise
  <1>1. /\ pc = "idle" /\ MayReuse /\ pc' = "create" /\ job'.op = "create"
        /\ UNCHANGED <<fb, mark, next, data>>
    BY DEF CreateCall, CreateWith, Goto, flash, NoJob
  <1>2. FilesStay({})
    <2>1. \A k \in Slots : Index'[k] = Index[k]
      BY <1>1, SameIndex
    <2> QED BY <1>1, <2>1, FilesElsewhere DEF InHand
  <1>3. Held' = NoDraft
    BY <1>1, HeldIsFreeNext DEF HandsFree
  <1> QED BY <1>1, <1>2, <1>3, HeldIsKept, ByClose

LEMMA CrashKeeps ==
  ASSUME CallersKeepRules, StoreInv, StoreInv', Crash
  PROVE  KeepsPromise
  <1>1. /\ pc = "idle" /\ MayReuse /\ pc' = "idle" /\ file'.block = Empty
        /\ UNCHANGED <<fb, mark, next, data>>
    BY DEF Crash, CallersKeepRules, Return, flash, NoFile
  <1>2. FilesStay({})
    <2>1. \A k \in Slots : Index'[k] = Index[k]
      BY <1>1, SameIndex
    <2> QED BY <1>1, <2>1, FilesElsewhere DEF InHand
  <1>3. Held' = NoDraft
    BY <1>1, HeldIsFreeNext DEF HandsFree
  <1> QED BY <1>1, <1>2, <1>3, HeldIsKept, ByClose

LEMMA OpenCallKeeps ==
  ASSUME CallersKeepRules, StoreInv, StoreInv', NEW n \in Names, OpenCall(n)
  PROVE  KeepsPromise
  <1>1. PICK k \in Slots :
          /\ IsOpen(fb[k]) /\ fb[k].name = n
          /\ file' = [name |-> n, block |-> k, cluster |-> fb[k].cluster, length |-> fb[k].length]
          /\ pc = "idle" /\ pc' = "idle" /\ UNCHANGED <<fb, mark, next, data>>
    BY DEF OpenCall, Named, flash
  <1>2. FilesStay({})
    <2>1. \A j \in Slots : Index'[j] = Index[j]
      BY <1>1, SameIndex
    <2> QED BY <1>1, <2>1, FilesElsewhere DEF InHand
  <1>3. Attached' /\ ~InHand(n)'
    BY <1>1, EmptyNotSlot DEF Attached, InHand
  <1>4. Files'[n] = EntryOf(next, mark, data, fb[k].cluster, fb[k].length, fb[k].info.ro)
    BY <1>1, <1>3, AttachedEntryNext
  <1>5. Held' = [name |-> n, bytes |-> Content(next, mark, data, fb[k].cluster, fb[k].length)]
    BY <1>1, <1>3, HeldIsNext
  <1>6. Files[n] = Files'[n]
    BY <1>2 DEF FilesStay
  <1>7. Files[n] # NoEntry
    BY <1>4, <1>6 DEF EntryOf, NoEntry
  <1>8. Held' = [name |-> n, bytes |-> Files[n].bytes]
    BY <1>4, <1>5, <1>6 DEF EntryOf
  <1> QED BY <1>2, <1>7, <1>8, ByOpen

\* A step that changes nothing of the files.
LEMMA NothingKeeps ==
  ASSUME StoreInv, StoreInv', UNCHANGED <<fb, mark, next, data, file, gcbuf, pc, job>>
  PROVE  KeepsPromise
  <1>1. Index' = Index
    BY DEF Index
  <1>2. FilesStay({})
    <2>1. ASSUME NEW n \in Names PROVE Files'[n] = Files[n]
      <3>1. InHand(n)' <=> InHand(n)
        BY DEF InHand
      <3>2. CASE ~InHand(n)
        BY <1>1, <3>1, <3>2, LengthsAre, LengthsAreNext, FilesAre, FilesAreNext
      <3>3. CASE InHand(n)
        BY <3>3, LengthsAre, LengthsAreNext, FilesAre, FilesAreNext DEF InHand
      <3> QED BY <3>2, <3>3
    <2> QED BY <2>1 DEF FilesStay
  <1>3. Held' = Held
    <2>1. HandsFree' <=> HandsFree
      BY DEF HandsFree, Attached
    <2> QED BY <2>1, LengthsAre, LengthsAreNext, DraftIs, DraftIsNext
  <1> QED BY <1>2, <1>3, ByStutter

LEMMA WriteCallKeeps ==
  ASSUME CallersKeepRules, StoreInv, StoreInv', NEW len, NEW method, WriteCall(len, method)
  PROVE  KeepsPromise
  <1> DEFINE refused == UNCHANGED <<fb, mark, next, data, file, gcbuf, pc, job>>
  <1>1. CASE refused
    BY <1>1, NothingKeeps
  <1>2. CASE ~refused
    <2>1. /\ pc = "idle" /\ MayUse /\ file.block # Empty /\ CanWrite(fb[file.block])
          /\ pc' \in {"discard", "alloc", "walk"} /\ job'.op \in {"override", "append"}
          /\ UNCHANGED <<fb, mark, next, data, file>>
      BY <1>2 DEF WriteCall, Reject, flash, Goto, NoJob
    <2>2. Attached /\ Attached'
      BY <2>1, CallerIsAttached DEF Attached
    <2>3. file.name \in Names /\ ~InHand(file.name)
      BY <2>1, <2>2, AttachedEntry DEF InHand
    <2>4. \A k \in Slots : Index'[k] = Index[k]
      BY <2>1, SameIndex
    <2>5. Held = [name |-> file.name, bytes |-> Content(next, mark, data, file.cluster, file.length)]
      BY <2>1, <2>2, HeldIs
    <2>6. CASE job'.op = "append"
      <3>1. FilesStay({})
        BY <2>1, <2>4, <2>6, FilesElsewhere DEF InHand
      <3>2. Held' = Held
        BY <2>1, <2>2, <2>5, <2>6, HeldIsNext
      <3> QED BY <3>1, <3>2, ByStutter
    <2>7. CASE job'.op = "override"
      <3>1. FilesStay({file.name})
        BY <2>1, <2>4, <2>7, FilesElsewhere DEF InHand
      <3>2. Held' = [name |-> file.name, bytes |-> <<>>]
        BY <2>1, <2>2, <2>7, HeldIsNext
      <3>3. Files'[file.name] = [state |-> "created", ro |-> FALSE, bytes |-> <<>>]
        <4>1. Files'[file.name] = EntryOf(next', mark', data', Empty, Empty, FALSE)
          BY <2>1, <2>3, <2>7, LengthsAreNext, FilesAreNext
        <4> QED BY <4>1, ContentNone DEF EntryOf
      <3>4. ~Files[file.name].ro
        <4>1. Files[file.name] = EntryOf(next, mark, data, fb[file.block].cluster, fb[file.block].length,
                                         fb[file.block].info.ro)
          BY <2>1, <2>2, <2>3, AttachedEntry
        <4> QED BY <2>1, <4>1 DEF EntryOf, CanWrite
      <3>5. ASSUME NEW bytes, Held = [name |-> file.name, bytes |-> bytes] PROVE KeepsPromise
        <4>1. Held.name = file.name
          BY <3>5
        <4> QED BY <2>3, <3>1, <3>2, <3>3, <3>4, <3>5, <4>1, ByOverride
      <3> QED BY <2>5, <3>5
    <2> QED BY <2>1, <2>6, <2>7
  <1> QED BY <1>1, <1>2

LEMMA DeleteCallKeeps ==
  ASSUME CallersKeepRules, StoreInv, StoreInv', DeleteCall
  PROVE  KeepsPromise
  <1>1. /\ pc = "idle" /\ MayUse /\ file.block # Empty /\ MarkDeleted(file.block)
        /\ pc' = "discard" /\ job'.op = "delete" /\ UNCHANGED <<mark, next, data, file>>
    BY DEF DeleteCall, Goto, NoJob
  <1>2. Attached
    BY <1>1, CallerIsAttached
  <1>3. /\ file.block \in Slots /\ file.name \in Names
        /\ \A n \in Names : file.block \in FoundIn(Index, n) => n = file.name
    BY <1>1, <1>2, AttachedEntry
  <1>4. FilesStay({file.name})
    <2>1. \A k \in Slots \ {file.block} : Index'[k] = Index[k]
      BY <1>1, <1>3 DEF Index, MarkDeleted
    <2>2. \A n \in Names : file.block \notin FoundIn(Index', n)
      <3>1. TypeOK
        BY DEF StoreInv, OnceInv, FinishInv, ChainsInv
      <3>2. fb'[file.block].info.del
        BY <1>1, <1>3, <3>1 DEF MarkDeleted, TypeOK, FileBlock, FileInfo
      <3>3. Index'[file.block] = fb'[file.block]
        BY <1>1, <1>3 DEF Index
      <3> QED BY <3>2, <3>3 DEF FoundIn, IsOpen
    <2> QED BY <1>1, <1>3, <2>1, <2>2, FilesElsewhere DEF InHand
  <1>5. Files'[file.name] = NoEntry
    BY <1>1, <1>3, LengthsAreNext, FilesAreNext
  <1>6. Held.name = file.name
    BY <1>1, <1>2, HeldIs
  <1>7. Held' = NoDraft
    BY <1>1, HeldIsFreeNext DEF HandsFree
  <1> QED BY <1>3, <1>4, <1>5, <1>6, <1>7, ByDelete

LEMMA FormatCallKeeps ==
  ASSUME StoreInv, StoreInv', FormatCall
  PROVE  KeepsPromise
  <1>1. pc' = "format" /\ job'.op = "format"
    BY DEF FormatCall, Goto, NoJob
  <1>2. \A n \in Names : Files'[n] = NoEntry
    BY <1>1, LengthsAreNext, FilesAreNext
  <1>3. Held' = NoDraft
    BY <1>1, HeldIsFreeNext DEF HandsFree
  <1> QED BY <1>2, <1>3, ByFormat

\* A file block is marked as deprecated: its name is not found any more.
LEMMA MarkedElsewhere ==
  ASSUME StoreInv, StoreInv', Attached, pc # "gc_rewrite", pc' # "gc_rewrite", MarkDeprecated(file.block),
         UNCHANGED <<mark, next, data>>, NEW S, file.name \in S,
         \A n \in Names \ S : ~InHand(n) /\ ~InHand(n)'
  PROVE  /\ FilesStay(S)
         /\ \A n \in Names : file.block \notin FoundIn(Index', n)
         /\ \A k \in Slots : k # file.block => Index'[k] = Index[k]
  <1>1. /\ file.block \in Slots /\ file.name \in Names
        /\ \A n \in Names : file.block \in FoundIn(Index, n) => n = file.name
    BY AttachedEntry
  <1>2. \A k \in Slots : k # file.block => Index'[k] = Index[k]
    BY <1>1 DEF Index, MarkDeprecated
  <1>3. \A n \in Names : file.block \notin FoundIn(Index', n)
    <2>1. TypeOK
      BY DEF StoreInv, OnceInv, FinishInv, ChainsInv
    <2>2. fb'[file.block].info.dep
      BY <1>1, <2>1 DEF MarkDeprecated, TypeOK, FileBlock, FileInfo
    <2>3. Index'[file.block] = fb'[file.block]
      BY <1>1 DEF Index
    <2> QED BY <2>2, <2>3 DEF FoundIn, IsOpen
  <1>4. FilesStay(S)
    BY <1>1, <1>2, <1>3, FilesElsewhere
  <1> QED BY <1>2, <1>3, <1>4

LEMMA FinishCallKeeps ==
  ASSUME CallersKeepRules, StoreInv, StoreInv', FinishCall
  PROVE  KeepsPromise
  <1>1. CASE file.block = Empty
    BY <1>1, NothingKeeps DEF FinishCall, Reject, flash
  <1>2. CASE file.block # Empty
    <2>1. pc = "idle" /\ Attached /\ UNCHANGED <<mark, next, data, file>>
      BY <1>2, CallerIsAttached DEF FinishCall
    <2>2. /\ file.block \in Slots /\ file.name \in Names /\ ~InHand(file.name)
          /\ Index[file.block] = fb[file.block]
          /\ \A n \in Names : file.block \in FoundIn(Index, n) => n = file.name
      BY <2>1, AttachedEntry DEF InHand
    <2> DEFINE b == fb[file.block]
    <2>3. Files[file.name] = EntryOf(next, mark, data, b.cluster, b.length, b.info.ro)
      BY <2>1, <2>2, AttachedEntry
    <2>4. Held = [name |-> file.name, bytes |-> Content(next, mark, data, file.cluster, file.length)]
      BY <2>1, HeldIs
    <2>5. ASSUME FilesStay({file.name}), Held' = Held,
                 Files'[file.name] = [state |-> "stored", ro |-> b.info.ro,
                                      bytes |-> Content(next, mark, data, file.cluster, file.length)]
          PROVE  KeepsPromise
      <3>1. Held.name = file.name
        BY <2>4
      <3>2. ASSUME NEW state, NEW ro, NEW bytes, Files[file.name] = [state |-> state, ro |-> ro, bytes |-> bytes],
                   ro = b.info.ro
            PROVE  KeepsPromise
        <4>1. Files'[file.name] = [state |-> "stored", ro |-> ro, bytes |-> Held.bytes]
          BY <2>4, <2>5, <3>2
        <4> HIDE DEF b
        <4> QED BY <2>2, <2>5, <3>1, <3>2, <4>1, ByFinish
      <3> QED BY <2>3, <3>2 DEF EntryOf
    <2>6. ChainsInv /\ TypeOK
      BY DEF StoreInv, OnceInv, FinishInv, ChainsInv
    <2>7. b.cluster = file.cluster
      BY <2>1, <2>6 DEF ChainsInv, FileInv, Holding
    <2>8. CASE b.length = Empty
      <3>1. /\ fb' = [fb EXCEPT ![file.block] = [b EXCEPT !.length = file.length]]
            /\ pc' = "idle"
        BY <1>2, <2>6, <2>8, FinishFills
      <3>2. fb'[file.block] = [b EXCEPT !.length = file.length]
        BY <2>2, <2>6, <3>1 DEF TypeOK
      <3>3. /\ fb'[file.block].name = b.name /\ fb'[file.block].info = b.info
            /\ fb'[file.block].cluster = b.cluster /\ fb'[file.block].length = file.length
        BY <2>2, <2>6, <3>2 DEF TypeOK, FileBlock
      <3>4. Attached'
        BY <2>1, <3>3 DEF Attached, IsOpen
      <3>5. Held' = Held
        BY <2>1, <2>4, <3>1, <3>4, HeldIsNext
      <3>6. Files'[file.name] = EntryOf(next, mark, data, file.cluster, file.length, b.info.ro)
        BY <2>1, <2>7, <3>1, <3>3, <3>4, AttachedEntryNext DEF InHand
      <3>7. FilesStay({file.name})
        <4>1. \A k \in Slots : k # file.block => Index'[k] = Index[k]
          BY <2>1, <3>1 DEF Index
        <4>2. \A n \in Names : file.block \in FoundIn(Index', n) => n = file.name
          BY <2>1, <3>1, <3>4, AttachedEntryNext
        <4> QED BY <2>1, <2>2, <3>1, <4>1, <4>2, FilesElsewhere DEF InHand
      <3>8. CASE file.length = Empty
        <4>1. Files'[file.name] = Files[file.name]
          BY <2>3, <2>7, <2>8, <3>6, <3>8
        <4>2. FilesStay({})
          BY <3>7, <4>1 DEF FilesStay
        <4> QED BY <3>5, <4>2, ByStutter
      <3>9. CASE file.length # Empty
        BY <2>5, <3>5, <3>6, <3>7, <3>9 DEF EntryOf
      <3> QED BY <3>8, <3>9
    <2>9. CASE b.length # Empty
      <3>1. MarkDeprecated(file.block) /\ job'.op = "finish" /\ job'.info = b.info /\ pc' = "create"
        BY <1>2, <2>9 DEF FinishCall, Goto, NoJob
      <3>2. FilesStay({file.name})
        <4>1. \A n \in Names \ {file.name} : ~InHand(n) /\ ~InHand(n)'
          BY <2>1, <3>1 DEF InHand
        <4>2. file.name \in {file.name}
          OBVIOUS
        <4> QED BY <2>1, <3>1, <4>1, <4>2, MarkedElsewhere
      <3>3. Held' = Held
        <4>1. ~HandsFree'
          BY <1>2, <2>1, <3>1 DEF HandsFree
        <4> QED BY <2>1, <2>4, <3>1, <4>1, LengthsAreNext, DraftIsNext
      <3>4. Files'[file.name] = EntryOf(next, mark, data, file.cluster, file.length, b.info.ro)
        BY <2>1, <2>2, <3>1, LengthsAreNext, FilesAreNext
      <3>5. file.length # Empty
        BY <2>1, <2>9, SectorFacts DEF StoreInv, GrowsInv
      <3> QED BY <2>5, <3>2, <3>3, <3>4, <3>5 DEF EntryOf
    <2> QED BY <2>8, <2>9
  <1> QED BY <1>1, <1>2

LEMMA RenameCallKeeps ==
  ASSUME CallersKeepRules, "new_name" \in Contract, StoreInv, StoreInv', NEW n \in Names, RenameCall(n)
  PROVE  KeepsPromise
  <1> DEFINE refused == UNCHANGED <<fb, mark, next, data, file, gcbuf, pc, job>>
  <1>1. CASE refused
    BY <1>1, NothingKeeps
  <1>2. CASE ~refused
    <2> DEFINE b == fb[file.block]
               m == file.name
    <2>1. /\ pc = "idle" /\ MayUse /\ MayRename(n) /\ file.block # Empty /\ CanWrite(b)
          /\ MarkDeprecated(file.block) /\ file' = [file EXCEPT !.name = n]
          /\ pc' = "create" /\ job'.op = "rename" /\ job'.info = b.info
          /\ UNCHANGED <<mark, next, data>>
      BY <1>2 DEF RenameCall, Reject, flash, Goto, NoJob
    <2>2. TypeOK
      BY DEF StoreInv, OnceInv, FinishInv, ChainsInv
    <2>3. file'.name = n /\ file'.block = file.block /\ file'.cluster = file.cluster /\ file'.length = file.length
      BY <2>1, <2>2 DEF TypeOK, File
    <2>4. Attached
      BY <2>1, CallerIsAttached
    <2>5. /\ file.block \in Slots /\ m \in Names /\ ~InHand(m)
          /\ Index[file.block] = b /\ FoundIn(Index, m) = {file.block}
          /\ \A i \in Names : file.block \in FoundIn(Index, i) => i = m
      BY <2>1, <2>4, AttachedEntry DEF InHand
    <2>6. Files[m] = EntryOf(next, mark, data, b.cluster, b.length, b.info.ro)
      BY <2>1, <2>4, <2>5, AttachedEntry
    <2>7. Held = [name |-> m, bytes |-> Content(next, mark, data, file.cluster, file.length)]
      BY <2>1, <2>4, HeldIs
    <2>8. ~Files[m].ro
      BY <2>1, <2>6 DEF EntryOf, CanWrite
    <2>9. /\ FilesStay({m, n})
          /\ \A i \in Names : file.block \notin FoundIn(Index', i)
          /\ \A k \in Slots : k # file.block => Index'[k] = Index[k]
      <3>1. \A i \in Names \ {m, n} : ~InHand(i) /\ ~InHand(i)'
        BY <2>1, <2>3 DEF InHand
      <3>2. m \in {m, n}
        OBVIOUS
      <3> QED BY <2>1, <2>4, <3>1, <3>2, MarkedElsewhere
    <2>10. Files[n] = NoEntry \/ n = m
      <3> SUFFICES ASSUME n # m PROVE Files[n] = NoEntry
        OBVIOUS
      <3>1. Named(n) \subseteq {file.block}
        BY <2>1 DEF MayRename
      <3>2. file.block \notin Named(n)
        BY <2>4 DEF Named, Attached
      <3>3. FoundIn(Index, n) = {}
        BY <2>1, <3>1, <3>2 DEF FoundIn, Index, Named
      <3>4. Files[n] = Kept(Index, next, mark, data, n)
        BY <2>1, LengthsAre, FilesAre DEF InHand
      <3> QED BY <3>3, <3>4 DEF Kept
    <2>11. m # n => Files'[m] = NoEntry
      <3> SUFFICES ASSUME m # n PROVE Files'[m] = NoEntry
        OBVIOUS
      <3>1. PICK o \in Names : o = m
        BY <2>5
      <3>2. FoundIn(Index', o) = {}
        BY <2>5, <2>9, <3>1 DEF FoundIn
      <3>3. ~InHand(o)'
        BY <2>1, <2>3, <3>1 DEF InHand
      <3>4. Files'[o] = Kept(Index', next', mark', data', o)
        BY <3>3, LengthsAreNext, FilesAreNext
      <3> QED BY <3>1, <3>2, <3>4 DEF Kept
    <2>12. Files'[n] = EntryOf(next, mark, data, file.cluster, file.length, FALSE)
      <3>1. b.info.ro = FALSE
        BY <2>1, <2>2, <2>5 DEF CanWrite, TypeOK, FileBlock, FileInfo
      <3>2. pc' # "idle" /\ n = file'.name /\ job'.op \in {"finish", "rename"}
        BY <2>1, <2>3
      <3>3. Files'[n] = EntryOf(next', mark', data', file'.cluster, file'.length, job'.info.ro)
        BY <3>2, LengthsAreNext, FilesAreNext
      <3> QED BY <2>1, <2>3, <3>1, <3>3
    <2>13. Held' = [name |-> n, bytes |-> Content(next, mark, data, file.cluster, file.length)]
      <3>1. ~HandsFree'
        BY <2>1, <2>3 DEF HandsFree
      <3> QED BY <2>1, <2>3, <3>1, LengthsAreNext, DraftIsNext
    <2>14. file.length = Empty =>
             Content(next, mark, data, file.cluster, file.length) = <<>> /\ Files[m].state = "created"
      <3> SUFFICES ASSUME file.length = Empty
                   PROVE  Content(next, mark, data, file.cluster, file.length) = <<>> /\ Files[m].state = "created"
        OBVIOUS
      <3>1. b.length = Empty
        BY <2>1, <2>4, SectorFacts DEF StoreInv, GrowsInv
      <3> QED BY <2>6, <3>1, ContentNone DEF EntryOf
    <2> HIDE DEF b, m
    <2>15. ASSUME NEW bytes, bytes = Content(next, mark, data, file.cluster, file.length) PROVE KeepsPromise
      <3>1. PICK state \in {"created", "stored"} : state = IF file.length = Empty THEN "created" ELSE "stored"
        OBVIOUS
      <3>2. state = "created" => bytes = <<>> /\ Files[m].state = "created"
        BY <2>14, <2>15, <3>1
      <3>3. Files'[n] = [state |-> state, ro |-> FALSE, bytes |-> bytes]
        BY <2>12, <2>15, <3>1 DEF EntryOf
      <3>4. Held = [name |-> m, bytes |-> bytes] /\ Held' = [name |-> n, bytes |-> bytes]
        BY <2>7, <2>13, <2>15
      <3> QED BY <2>5, <2>8, <2>9, <2>10, <2>11, <3>2, <3>3, <3>4, ByRename
    <2> QED BY <2>15
  <1> QED BY <1>1, <1>2

\* A call that replaces, overrides or deletes a file and goes on with it.
LEMMA CallGoesOn ==
  ASSUME StoreInv, StoreInv', pc # "idle", pc' # "idle", job'.op = job.op,
         job.op \in {"override", "delete", "finish", "rename"},
         file'.name = file.name,
         job.op \in {"finish", "rename"} =>
           /\ UNCHANGED <<next, mark, data>> /\ job'.info = job.info
           /\ file'.cluster = file.cluster /\ file'.length = file.length,
         FilesStay({file.name})
  PROVE  KeepsPromise
  <1>1. file.block # Empty /\ file'.block # Empty
    BY DEF StoreInv, CallInv
  <1>2. ASSUME NEW n \in Names, n = file.name PROVE Files'[n] = Files[n]
    <2>1. n = file'.name /\ clobbered = {} /\ clobbered' = {}
      BY <1>2, LengthsAre, LengthsAreNext
    <2>2. CASE job.op = "override"
      <3>1. Files[n] = EntryOf(next, mark, data, Empty, Empty, FALSE)
        BY <1>2, <2>1, <2>2, FilesAre
      <3>2. Files'[n] = EntryOf(next', mark', data', Empty, Empty, FALSE)
        BY <2>1, <2>2, FilesAreNext
      <3> QED BY <3>1, <3>2, ContentNone DEF EntryOf
    <2>3. CASE job.op = "delete"
      BY <1>2, <2>1, <2>3, FilesAre, FilesAreNext
    <2>4. CASE job.op \in {"finish", "rename"}
      <3>1. Files[n] = EntryOf(next, mark, data, file.cluster, file.length, job.info.ro)
        BY <1>2, <2>1, <2>4, FilesAre
      <3>2. Files'[n] = EntryOf(next', mark', data', file'.cluster, file'.length, job'.info.ro)
        BY <2>1, <2>4, FilesAreNext
      <3> QED BY <2>4, <3>1, <3>2
    <2> QED BY <2>2, <2>3, <2>4
  <1>3. FilesStay({})
    BY <1>2 DEF FilesStay
  <1>4. Held' = Held
    <2>1. CASE job.op = "delete"
      BY <2>1, HeldIsFree, HeldIsFreeNext DEF HandsFree
    <2>2. CASE job.op # "delete"
      <3>1. ~HandsFree /\ ~HandsFree'
        BY <1>1, <2>2 DEF HandsFree
      <3> QED BY <2>2, <3>1, LengthsAre, LengthsAreNext, DraftIs, DraftIsNext
    <2> QED BY <2>1, <2>2
  <1> QED BY <1>3, <1>4, ByStutter

\* make_file and create_file, until there is a file block.
LEMMA CreatingGoesOn ==
  ASSUME StoreInv, StoreInv', pc \in {"create", "gc_rewrite"}, job.op = "create",
         UNCHANGED <<next, mark, data, file>>, \A k \in Slots : Index'[k] = Index[k],
         \/ pc' = "create" /\ job'.op = "create"
         \/ pc = "create" /\ pc' = "idle" /\ UNCHANGED fb
  PROVE  KeepsPromise
  <1>1. FilesStay({})
    BY FilesElsewhere DEF InHand
  <1>2. HandsFree
    BY DEF HandsFree
  <1>3. HandsFree'
    <2>1. CASE pc' = "create"
      BY <2>1 DEF HandsFree
    <2>2. CASE pc' = "idle"
      <3>1. ChainsInv /\ file.block \notin Live
        BY DEF StoreInv, OnceInv, FinishInv, ChainsInv, CreateInv
      <3>2. pc = "create" /\ UNCHANGED fb
        BY <2>2
      <3>3. ~Attached
        BY <3>1, <3>2, AttachedFacts
      <3> QED BY <2>2, <3>2, <3>3 DEF HandsFree, Attached
    <2> QED BY <2>1, <2>2
  <1> QED BY <1>1, <1>2, <1>3, HeldIsFree, HeldIsFreeNext, ByStutter

\* Only create_file for a new file can fail.
LEMMA CreateFails ==
  ASSUME "new_name" \in Contract, StoreInv, StoreInv', CreateExists \/ CreateNoSpace
  PROVE  KeepsPromise
  <1>1. FinishInv /\ ChainsInv
    BY DEF StoreInv, OnceInv, FinishInv
  <1>2. /\ pc = "create" /\ UNCHANGED <<fb, next, mark, data, file>>
        /\ file.name \in Names /\ job.op \in {"create", "finish", "rename", "override"}
    BY <1>1 DEF CreateExists, CreateNoSpace, flash, ChainsInv, CreateInv
  <1>3. job.op \notin {"finish", "rename"}
    BY <1>1, ReplacingSucceeds DEF Replacing
  <1>4. job.op # "override"
    <2> SUFFICES ASSUME job.op = "override" PROVE FALSE
      OBVIOUS
    <2>1. \A k \in Live : Index[k].name # file.name
      BY <1>2 DEF StoreInv, GoneInv
    <2>2. Unnamed # {} \/ Garbage # {}
      BY <1>2 DEF StoreInv, GoneInv
    <2>3. PICK k \in Slots : IsOpen(fb[k]) /\ fb[k].name = file.name
      BY <2>2 DEF CreateExists, CreateNoSpace, Named
    <2>4. Index[k] = fb[k] /\ k \in Live
      BY <1>2, <2>3, ValueAssumption DEF Index, Live, HasName
    <2> QED BY <2>1, <2>3, <2>4
  <1>5. job.op = "create"
    BY <1>2, <1>3, <1>4
  <1>6. pc' = "idle"
    BY <1>5 DEF CreateExists, CreateNoSpace, AfterCreate, Return
  <1>7. \A k \in Slots : Index'[k] = Index[k]
    BY <1>2, <1>6, SameIndex
  <1> QED BY <1>2, <1>5, <1>6, <1>7, CreatingGoesOn

LEMMA CreateBlockKeeps ==
  ASSUME StoreInv, StoreInv', CreateBlock
  PROVE  KeepsPromise
  <1>1. ChainsInv /\ TypeOK /\ CreateInv /\ FileInv
    BY DEF StoreInv, OnceInv, FinishInv, ChainsInv
  <1>2. PICK k \in Slots :
          /\ fb[k] = BlankBlock
          /\ fb' = [fb EXCEPT ![k] = [name |-> file.name, cluster |-> file.cluster,
                                      length |-> file.length, info |-> job.info]]
          /\ file' = [file EXCEPT !.block = k]
          /\ IsOpen(fb'[k])
    BY <1>1, CreateWrites
  <1>3. /\ pc = "create" /\ Named(file.name) = {} /\ UNCHANGED <<next, mark, data>>
        /\ \/ pc' = "idle" /\ job.op \in {"create", "finish", "rename"}
           \/ pc' = "alloc" /\ job' = job /\ job.op = "override"
    BY DEF CreateBlock, AfterCreate, Return, Goto
  <1>4. /\ fb'[k] = [name |-> file.name, cluster |-> file.cluster, length |-> file.length, info |-> job.info]
        /\ file'.name = file.name /\ file'.block = k /\ file'.cluster = file.cluster /\ file'.length = file.length
    BY <1>1, <1>2 DEF TypeOK, File
  <1>5. file.name \in Names /\ job.info.ro \in BOOLEAN
    BY <1>1, <1>3 DEF CreateInv, TypeOK, Job, FileInfo
  <1>6. Attached'
    BY <1>2, <1>4, EmptyNotSlot DEF Attached
  <1>7. FilesStay({file.name})
    <2>1. \A j \in Slots : j # k => Index'[j] = Index[j]
      BY <1>2, <1>3 DEF Index
    <2>2. Index[k] = BlankBlock /\ Index'[k] = fb'[k]
      BY <1>2, <1>3 DEF Index
    <2>3. \A n \in Names \ {file.name} : k \notin FoundIn(Index, n) /\ k \notin FoundIn(Index', n)
      BY <1>4, <2>2, ValueAssumption DEF FoundIn, BlankBlock
    <2>4. \A n \in Names \ {file.name} : ~InHand(n) /\ ~InHand(n)'
      BY <1>3, <1>4 DEF InHand
    <2> QED BY <1>3, <2>1, <2>3, <2>4, FilesElsewhere
  <1>8. CASE pc' = "idle"
    <2>1. Files'[file.name] = EntryOf(next, mark, data, file.cluster, file.length, job.info.ro)
      <3>1. /\ fb'[file'.block].cluster = file.cluster /\ fb'[file'.block].length = file.length
            /\ fb'[file'.block].info = job.info
        BY <1>4
      <3> QED BY <1>3, <1>4, <1>6, <1>8, <3>1, AttachedEntryNext DEF InHand
    <2>2. Held' = [name |-> file.name, bytes |-> Content(next, mark, data, file.cluster, file.length)]
      BY <1>3, <1>4, <1>6, <1>8, HeldIsNext
    <2>3. CASE job.op = "create"
      <3>1. file.cluster = Empty /\ file.length = Empty
        BY <1>1, <1>3, <2>3 DEF CreateInv, FileInv
      <3>2. Files'[file.name] = [state |-> "created", ro |-> job.info.ro, bytes |-> <<>>]
        BY <2>1, <3>1, ContentNone DEF EntryOf
      <3>3. Held' = [name |-> file.name, bytes |-> <<>>]
        BY <2>2, <3>1, ContentNone
      <3>4. Files[file.name] = NoEntry
        <4>1. Files[file.name] = Kept(Index, next, mark, data, file.name)
          BY <1>5, <2>3, LengthsAre, FilesAre DEF InHand
        <4>2. FoundIn(Index, file.name) = {}
          BY <1>3 DEF FoundIn, Named, Index
        <4> QED BY <4>1, <4>2 DEF Kept
      <3> QED BY <1>5, <1>7, <3>2, <3>3, <3>4, ByCreate
    <2>4. CASE job.op \in {"finish", "rename"}
      <3>1. Files'[file.name] = Files[file.name]
        BY <1>3, <1>5, <2>1, <2>4, LengthsAre, FilesAre
      <3>2. FilesStay({})
        BY <1>7, <3>1 DEF FilesStay
      <3>3. file.block # Empty
        BY <2>4 DEF StoreInv, CallInv
      <3>4. ~HandsFree
        BY <1>3, <2>4, <3>3 DEF HandsFree
      <3>5. Held' = Held
        BY <1>3, <2>2, <2>4, <3>4, LengthsAre, DraftIs
      <3> QED BY <3>2, <3>5, ByStutter
    <2> QED BY <1>3, <1>8, <2>3, <2>4
  <1>9. CASE pc' = "alloc"
    BY <1>3, <1>4, <1>7, <1>9, CallGoesOn
  <1> QED BY <1>3, <1>8, <1>9

LEMMA GcIndexEraseKeeps ==
  ASSUME StoreInv, StoreInv', GcIndexErase
  PROVE  KeepsPromise
  <1>1. /\ ChainsInv /\ TypeOK /\ CreateInv /\ LengthsInv /\ UniqueNames
    BY DEF StoreInv, OnceInv, FinishInv, ChainsInv
  <1>2. PICK g \in Slots :
          /\ gcbuf' = [j \in Slots |-> IF SlotSector[j] = SlotSector[g] /\ j \notin Garbage THEN fb[j] ELSE BlankBlock]
          /\ fb' = [j \in Slots |-> IF SlotSector[j] = SlotSector[g] THEN BlankBlock ELSE fb[j]]
          /\ job' = [job EXCEPT !.fbs = {SlotSector[g]}]
    BY DEF GcIndexErase, EraseIndexSector, Garbage
  <1>3. /\ pc = "create" /\ pc' = "gc_rewrite" /\ UNCHANGED <<next, mark, data, file>>
    BY DEF GcIndexErase, Goto
  <1>4. job'.op = job.op /\ job'.info = job.info /\ job'.fbs = {SlotSector[g]}
    BY <1>1, <1>2 DEF TypeOK, Job
  <1>5. \A j \in Slots : Index[j] = fb[j]
    BY <1>3, IndexIsFlash
  <1>6. \A j \in Slots : Index'[j] = Index[j] \/ (j \in Garbage /\ Index'[j] = BlankBlock)
    BY <1>2, <1>3, <1>4, <1>5 DEF Index
  <1>7. Held' = Held
    <2>1. HandsFree' <=> HandsFree
      BY <1>3, <1>4 DEF HandsFree
    <2> QED BY <1>3, <1>4, <2>1, LengthsAre, LengthsAreNext, DraftIs, DraftIsNext
  <1>8. ASSUME NEW n \in Names
        PROVE  \/ Files'[n] = Files[n]
               \/ Files'[n] = NoEntry /\ Files[n].state = "created" /\ n # Held.name
    <2>1. InHand(n)' <=> InHand(n)
      BY <1>3, <1>4 DEF InHand
    <2>2. CASE InHand(n)
      <3>1. clobbered = {} /\ clobbered' = {}
        BY LengthsAre, LengthsAreNext
      <3>2. n = file.name /\ n = file'.name /\ job.op \in {"finish", "rename", "override"}
        BY <1>1, <1>3, <2>2 DEF InHand, CreateInv
      <3>3. CASE job.op = "override"
        BY <1>3, <1>4, <3>1, <3>2, <3>3, FilesAre, FilesAreNext
      <3>4. CASE job.op \in {"finish", "rename"}
        <4>1. Files[n] = EntryOf(next, mark, data, file.cluster, file.length, job.info.ro)
          BY <1>3, <3>1, <3>2, <3>4, FilesAre
        <4>2. Files'[n] = EntryOf(next', mark', data', file'.cluster, file'.length, job'.info.ro)
          BY <1>3, <1>4, <3>1, <3>2, <3>4, FilesAreNext
        <4> QED BY <1>3, <1>4, <4>1, <4>2
      <3> QED BY <3>2, <3>3, <3>4
    <2>3. CASE ~InHand(n) /\ \E j \in FoundIn(Index, n) : Index'[j] # Index[j]
      <3>1. PICK j \in Slots : j \in FoundIn(Index, n) /\ j \in Garbage /\ Index'[j] = BlankBlock
        BY <1>6, <2>3 DEF FoundIn
      <3>2. j \in Live /\ Index[j].name = n
        BY <3>1, FoundIsLive
      <3>3. Index[j].length = Empty
        BY <1>1, <1>5, <3>1, <3>2 DEF LengthsInv, Garbage, FoundIn
      <3>4. FoundIn(Index, n) = {j}
        BY <1>1, <3>2, FoundOne
      <3>5. FoundIn(Index', n) = {}
        BY <1>6, <3>1, <3>4, ValueAssumption DEF FoundIn, BlankBlock
      <3>6. Files'[n] = NoEntry
        <4>1. Files'[n] = Kept(Index', next', mark', data', n)
          BY <2>1, <2>3, LengthsAreNext, FilesAreNext
        <4> QED BY <3>5, <4>1 DEF Kept
      <3>7. Files[n].state = "created"
        <4>1. Files[n] = Kept(Index, next, mark, data, n)
          BY <2>3, LengthsAre, FilesAre
        <4> DEFINE old == Index
        <4>2. FoundIn(old, n) = {j} /\ old[j].length = Empty /\ Files[n] = Kept(old, next, mark, data, n)
          BY <3>3, <3>4, <4>1
        <4> HIDE DEF old
        <4>3. Files[n] = EntryOf(next, mark, data, old[j].cluster, old[j].length, old[j].info.ro)
          BY <4>2, KeptOne
        <4> QED BY <4>2, <4>3 DEF EntryOf
      <3>8. n # Held.name
        <4>1. CASE HandsFree
          BY <4>1, HeldIsFree, ValueAssumption DEF NoDraft
        <4>2. CASE ~HandsFree
          <5>1. Held.name = file.name
            BY <4>2, LengthsAre, DraftIs
          <5>2. job.op \in {"finish", "rename", "override"}
            BY <1>1, <1>3, <4>2 DEF CreateInv, HandsFree
          <5> QED BY <1>3, <2>3, <5>1, <5>2 DEF InHand
        <4> QED BY <4>1, <4>2
      <3> QED BY <3>6, <3>7, <3>8
    <2>4. CASE ~InHand(n) /\ ~\E j \in FoundIn(Index, n) : Index'[j] # Index[j]
      <3>1. \A k \in Slots : k \in FoundIn(Index', n) <=> k \in FoundIn(Index, n)
        BY <1>6, <2>4, ValueAssumption DEF FoundIn, BlankBlock
      <3>2. \A k \in FoundIn(Index, n) :
              /\ Index'[k] = Index[k]
              /\ \A t \in Chain(k) : next'[t] = next[t] /\ mark'[t] = mark[t] /\ data'[t] = data[t]
        BY <1>3, <2>4
      <3> QED BY <2>1, <2>4, <3>1, <3>2, EntryStays
    <2> QED BY <2>2, <2>3, <2>4
  <1> QED BY <1>7, <1>8, ByCollect

LEMMA GcIndexRewriteKeeps ==
  ASSUME StoreInv, StoreInv', GcIndexRewrite
  PROVE  KeepsPromise
  <1>1. TypeOK /\ TypeOK' /\ CreateInv
    BY DEF StoreInv, OnceInv, FinishInv, ChainsInv
  <1>2. /\ pc = "gc_rewrite" /\ pc' = "create" /\ UNCHANGED <<next, mark, data, file>>
        /\ job'.op = job.op /\ job'.info = job.info
        /\ fb' = [k \in Slots |-> IF SlotSector[k] \in job.fbs THEN gcbuf[k] ELSE fb[k]]
    BY <1>1 DEF GcIndexRewrite, Goto, TypeOK, Job
  <1>3. \A k \in Slots : Index'[k] = Index[k]
    BY <1>2 DEF Index
  <1>4. job.op \in {"create", "finish", "rename", "override"}
    BY <1>1, <1>2 DEF CreateInv
  <1>5. CASE job.op = "create"
    BY <1>2, <1>3, <1>5, CreatingGoesOn
  <1>6. CASE job.op # "create"
    <2>1. FilesStay({file.name})
      BY <1>2, <1>3, <1>4, <1>6, FilesElsewhere DEF InHand
    <2> QED BY <1>2, <1>4, <1>6, <2>1, CallGoesOn
  <1> QED BY <1>5, <1>6

LEMMA ChainsAreInUse ==
  ChainsInv /\ pc # "format" => \A k \in Owners : \A s \in Chain(k) : s \in Sectors /\ Target(s)
  BY ChainsInUse

LEMMA ChainsAreInUseNext ==
  (ChainsInv /\ pc # "format" => \A k \in Owners : \A s \in Chain(k) : s \in Sectors /\ Target(s))'
  BY ChainsAreInUse, PTL

\* What a write works on.
LEMMA BusyFile ==
  ASSUME StoreInv, Busy
  PROVE  /\ Attached /\ file.block \in Live /\ file.block \in Slots /\ file.name \in Names
         /\ pc \notin {"idle", "gc_rewrite", "discard", "format", "create"}
         /\ job.op \in {"override", "append"} /\ job.len \in Nat /\ job.len >= 1
         /\ Index[file.block] = fb[file.block] /\ fb[file.block].cluster = file.cluster
         /\ Chain(file.block) = Reach(file.cluster)
  <1>1. ChainsInv /\ TailInv /\ FileInv /\ TypeOK
    BY DEF StoreInv, OnceInv, FinishInv, ChainsInv
  <1>2. Attached /\ job.op \in {"override", "append"} /\ job.len \in Nat /\ job.len >= 1
    BY <1>1 DEF FileInv, TailInv, TypeOK, Job
  <1>3. pc \notin {"idle", "gc_rewrite", "discard", "format", "create"}
    BY DEF Busy, Filling
  <1>4. file.block \in Live /\ file.block \in Slots /\ file.name \in Names
    BY <1>1, <1>2, <1>3, AttachedFacts
  <1> QED BY <1>1, <1>2, <1>3, <1>4, BusyChain

\* An append that changes nothing its file has.
LEMMA AppendGoesOn ==
  ASSUME StoreInv, StoreInv', Busy, job.op = "append", job'.op = "append" \/ pc' = "idle",
         UNCHANGED <<fb, file>>, FilesStay({}),
         Content(next', mark', data', file.cluster, file.length) =
           Content(next, mark, data, file.cluster, file.length)
  PROVE  KeepsPromise
  <1>1. Attached /\ Attached'
    BY BusyFile DEF Attached
  <1>2. Held = [name |-> file.name, bytes |-> Content(next, mark, data, file.cluster, file.length)]
    BY <1>1, HeldIs
  <1>3. Held' = [name |-> file.name, bytes |-> Content(next', mark', data', file.cluster, file.length)]
    BY <1>1, HeldIsNext
  <1>4. Held' = Held
    BY <1>2, <1>3
  <1> QED BY <1>4, ByStutter

\* A write that looks for the end of its file, or for sectors.
LEMMA LookingKeeps ==
  ASSUME StoreInv, StoreInv', Busy, ~Filling, UNCHANGED <<fb, mark, next, data, file>>,
         \/ job'.op = job.op /\ pc' \notin {"idle", "gc_rewrite"}
         \/ pc = "gc_data" /\ pc' = "idle"
  PROVE  KeepsPromise
  <1>1. /\ Attached /\ file.name \in Names /\ pc \notin {"idle", "gc_rewrite"} /\ job.op \in {"override", "append"}
        /\ file.block \in Live /\ file.block \in Slots
        /\ Index[file.block] = fb[file.block] /\ fb[file.block].cluster = file.cluster
    BY BusyFile
  <1>2. Attached' /\ pc' # "gc_rewrite"
    BY <1>1 DEF Attached
  <1>3. \A k \in Slots : Index'[k] = Index[k]
    BY <1>1, <1>2, SameIndex
  <1>4. CASE job.op = "append"
    <2>1. FilesStay({})
      BY <1>1, <1>2, <1>3, <1>4, FilesElsewhere DEF InHand
    <2> QED BY <1>4, <2>1, AppendGoesOn
  <1>5. CASE job.op = "override"
    <2>1. FilesStay({file.name})
      <3>1. \A n \in Names \ {file.name} : ~InHand(n) /\ ~InHand(n)'
        BY <1>1, <1>5 DEF InHand
      <3> QED BY <1>3, <3>1, FilesElsewhere
    <2>2. CASE pc' # "idle"
      BY <1>1, <1>5, <2>1, <2>2, CallGoesOn
    <2>3. CASE pc' = "idle"
      <3>1. file.cluster = Empty /\ file.length = Empty
        BY <1>5, <2>3 DEF StoreInv, OnceInv, FinishInv, ChainsInv, TailInv, FileInv
      <3>2. fb[file.block].length = Empty
        BY <1>1, <3>1 DEF StoreInv, OnceInv, FinishInv, ChainsInv, LengthsInv
      <3>3. fb[file.block].info.ro = FALSE
        <4>1. ~fb[file.block].info.ro
          BY DEF StoreInv, CallInv
        <4>2. TypeOK
          BY DEF StoreInv, OnceInv, FinishInv, ChainsInv
        <4> QED BY <1>1, <4>1, <4>2 DEF TypeOK, FileBlock, FileInfo
      <3>4. Files'[file.name] = EntryOf(next, mark, data, Empty, Empty, FALSE)
        BY <1>1, <1>2, <2>3, <3>1, <3>2, <3>3, AttachedEntryNext DEF InHand
      <3>5. Files[file.name] = EntryOf(next, mark, data, Empty, Empty, FALSE)
        BY <1>1, <1>5, LengthsAre, FilesAre
      <3>6. FilesStay({})
        BY <2>1, <3>4, <3>5 DEF FilesStay
      <3>7. Held = [name |-> file.name, bytes |-> <<>>]
        BY <1>1, <1>5, HeldIs
      <3>8. Held' = [name |-> file.name, bytes |-> Content(next, mark, data, Empty, Empty)]
        BY <1>2, <2>3, <3>1, HeldIsNext
      <3>9. Held' = Held
        BY <3>7, <3>8, ContentNone
      <3> QED BY <3>6, <3>9, ByStutter
    <2> QED BY <2>2, <2>3
  <1> QED BY <1>1, <1>4, <1>5

LEMMA SearchKeeps ==
  ASSUME StoreInv, StoreInv', Walk \/ Allocate \/ GcDataDone
  PROVE  KeepsPromise
  <1>1. TypeOK
    BY DEF StoreInv, OnceInv, FinishInv, ChainsInv
  <1>2. UNCHANGED <<fb, mark, next, data, file>> /\ Busy /\ ~Filling
    BY DEF Walk, Allocate, GcDataDone, flash, Busy, Filling
  <1>3. \/ job'.op = job.op /\ pc' \notin {"idle", "gc_rewrite"}
        \/ pc = "gc_data" /\ pc' = "idle"
    <2>1. CASE Walk
      BY <1>1, <2>1 DEF Walk, TypeOK, Job
    <2>2. CASE Allocate
      BY <1>1, <2>2 DEF Allocate, Take, Goto, TypeOK, Job
    <2>3. CASE GcDataDone
      BY <1>1, <2>3 DEF GcDataDone, Take, Goto, Return, TypeOK, Job
    <2> QED BY <2>1, <2>2, <2>3
  <1> QED BY <1>2, <1>3, LookingKeeps

LEMMA GcDataEraseKeeps ==
  ASSUME StoreInv, StoreInv', GcDataErase
  PROVE  KeepsPromise
  <1>1. PICK s \in erasable : EraseSector(s)
    BY DEF GcDataErase
  <1>2. TypeOK /\ ChainsInv /\ TablesInv
    BY DEF StoreInv, OnceInv, FinishInv, ChainsInv
  <1>3. pc = "gc_data" /\ pc' = "gc_data" /\ UNCHANGED <<fb, file>> /\ job'.op = job.op /\ job'.info = job.info
    BY <1>2 DEF GcDataErase, TypeOK, Job
  <1>4. s \in Sectors /\ mark[s] = "discard"
    BY <1>1, <1>2 DEF TypeOK, TablesInv
  <1>5. \A t \in Sectors : t # s => next'[t] = next[t] /\ mark'[t] = mark[t] /\ data'[t] = data[t]
    BY <1>1, <1>2 DEF EraseSector, TypeOK
  <1>6. \A k \in Live : s \notin Chain(k)
    BY <1>2, <1>3, <1>4, ChainsAreInUse DEF Owners, Target
  <1>7. Busy
    BY <1>3 DEF Busy
  <1>8. /\ file.block \in Live /\ file.name \in Names /\ job.op \in {"override", "append"}
        /\ Chain(file.block) = Reach(file.cluster)
    BY <1>7, BusyFile
  <1>9. \A n \in Names : \A k \in FoundIn(Index, n) : s \notin Chain(k)
    BY <1>6, FoundIsLive
  <1>10. CASE job.op = "append"
    <2>1. FilesStay({})
      <3>1. \A n \in Names \ {} : ~InHand(n) /\ ~InHand(n)' /\ \A k \in FoundIn(Index, n) : s \notin Chain(k)
        BY <1>3, <1>9, <1>10 DEF InHand
      <3> QED BY <1>3, <1>5, <3>1, FilesSector
    <2>2. Content(next', mark', data', file.cluster, file.length) =
          Content(next, mark, data, file.cluster, file.length)
      <3>1. \A t \in Reached(next, file.cluster) : next'[t] = next[t] /\ mark'[t] = mark[t] /\ data'[t] = data[t]
        BY <1>5, <1>6, <1>8, ReachedIsClosed DEF Reach
      <3>2. next \in Links /\ next' \in Links /\ file.length \in Nat \cup {Empty}
        BY LengthsAre, LengthsAreNext
      <3>3. ASSUME NEW c, NEW length \in Nat \cup {Empty},
                   \A t \in Reached(next, c) : next'[t] = next[t] /\ mark'[t] = mark[t] /\ data'[t] = data[t]
            PROVE  Content(next', mark', data', c, length) = Content(next, mark, data, c, length)
        BY <3>2, <3>3, ContentSame
      <3> QED BY <3>1, <3>2, <3>3
    <2> QED BY <1>3, <1>7, <1>10, <2>1, <2>2, AppendGoesOn
  <1>11. CASE job.op = "override"
    <2>1. FilesStay({file.name})
      <3>1. \A n \in Names \ {file.name} :
              ~InHand(n) /\ ~InHand(n)' /\ \A k \in FoundIn(Index, n) : s \notin Chain(k)
        BY <1>3, <1>9, <1>11 DEF InHand
      <3> QED BY <1>3, <1>5, <3>1, FilesSector
    <2> QED BY <1>3, <1>11, <2>1, CallGoesOn
  <1> QED BY <1>8, <1>10, <1>11

LEMMA DiscardSectorKeeps ==
  ASSUME StoreInv, StoreInv', DiscardSector
  PROVE  KeepsPromise
  <1>1. TypeOK /\ ChainsInv /\ ChainsInv' /\ DiscardInv
    BY DEF StoreInv, OnceInv, FinishInv, ChainsInv
  <1> DEFINE s == file.cluster
  <1>2. /\ pc = "discard" /\ pc' = "discard" /\ UNCHANGED <<fb, next, data, job>> /\ s \in Sectors
        /\ mark' = [mark EXCEPT ![s] = "discard"]
        /\ file'.name = file.name /\ file'.block = file.block
    BY <1>1 DEF DiscardSector, TypeOK, File
  <1>3. job.op \in {"override", "delete"}
    BY <1>1, <1>2 DEF DiscardInv
  <1>4. \A t \in Sectors : t # s => next'[t] = next[t] /\ mark'[t] = mark[t] /\ data'[t] = data[t]
    BY <1>1, <1>2 DEF TypeOK
  <1>5. mark'[s] = "discard"
    BY <1>1, <1>2 DEF TypeOK
  <1>6. (\A k \in Slots : Index'[k] = Index[k]) /\ Live' = Live
    BY <1>2, SameIndex
  <1>7. \A k \in Live \ {file.block} : s \notin Chain(k)
    <2> SUFFICES ASSUME NEW k \in Live \ {file.block}, s \in Chain(k) PROVE FALSE
      OBVIOUS
    <2>1. k \in Owners'
      BY <1>2, <1>6 DEF Owners
    <2>2. k \in Slots
      BY DEF Live
    <2>3. Chain(k)' = Chain(k)
      BY <1>2, <1>6, <2>2 DEF Chain, Reach
    <2>4. PICK t : t = s
      OBVIOUS
    <2>5. Target(t)'
      BY <1>1, <1>2, <2>1, <2>3, <2>4, ChainsAreInUseNext
    <2> QED BY <1>2, <1>5, <2>4, <2>5 DEF Target
  <1>8. \A n \in Names \ {file.name} :
          ~InHand(n) /\ ~InHand(n)' /\ \A k \in FoundIn(Index, n) : s \notin Chain(k)
    <2> SUFFICES ASSUME NEW n \in Names \ {file.name}
                 PROVE  ~InHand(n) /\ ~InHand(n)' /\ \A k \in FoundIn(Index, n) : s \notin Chain(k)
      OBVIOUS
    <2>1. ~InHand(n) /\ ~InHand(n)'
      BY <1>2, <1>3 DEF InHand
    <2>2. ASSUME NEW k \in FoundIn(Index, n) PROVE s \notin Chain(k)
      <3>1. k \in Live /\ Index[k].name = n
        BY FoundIsLive
      <3>2. k # file.block
        <4>1. CASE job.op = "override"
          BY <1>1, <1>2, <3>1, <4>1, AttachedEntry DEF DiscardInv, Attached, Index
        <4>2. CASE job.op = "delete"
          BY <1>1, <1>2, <3>1, <4>2 DEF DiscardInv
        <4> QED BY <1>3, <4>1, <4>2
      <3> QED BY <1>7, <3>1, <3>2
    <2> QED BY <2>1, <2>2
  <1>9. FilesStay({file.name})
    <2> HIDE DEF s
    <2> QED BY <1>2, <1>4, <1>8, FilesSector
  <1> QED BY <1>2, <1>3, <1>9, CallGoesOn

LEMMA OverrideBlockKeeps ==
  ASSUME StoreInv, StoreInv', OverrideBlock
  PROVE  KeepsPromise
  <1>1. TypeOK /\ DiscardInv
    BY DEF StoreInv, OnceInv, FinishInv, ChainsInv
  <1>2. /\ pc = "discard" /\ pc' = "create" /\ UNCHANGED <<mark, next, data, job>>
        /\ job.op = "override" /\ MarkDeprecated(file.block) /\ file'.name = file.name
    BY <1>1 DEF OverrideBlock, Goto, TypeOK, File
  <1>3. Attached
    BY <1>1, <1>2 DEF DiscardInv
  <1>4. FilesStay({file.name})
    <2>1. \A n \in Names \ {file.name} : ~InHand(n) /\ ~InHand(n)'
      BY <1>2 DEF InHand
    <2>2. file.name \in {file.name}
      OBVIOUS
    <2> QED BY <1>2, <1>3, <2>1, <2>2, MarkedElsewhere
  <1> QED BY <1>2, <1>4, CallGoesOn

LEMMA DeleteDoneKeeps ==
  ASSUME StoreInv, StoreInv', DeleteDone
  PROVE  KeepsPromise
  <1>1. /\ pc = "discard" /\ job.op = "delete" /\ pc' = "idle" /\ file'.block = Empty
        /\ UNCHANGED <<fb, mark, next, data>>
    BY DEF DeleteDone, Return, NoFile, flash
  <1>2. \A k \in Slots : Index'[k] = Index[k]
    BY <1>1, SameIndex
  <1>3. \A n \in Names \ {file.name} : Files'[n] = Files[n]
    <2>1. FilesStay({file.name})
      BY <1>1, <1>2, FilesElsewhere DEF InHand
    <2> QED BY <2>1 DEF FilesStay
  <1>4. ASSUME NEW n \in Names, n = file.name PROVE Files'[n] = Files[n]
    <2>1. Files[n] = NoEntry
      BY <1>1, <1>4, LengthsAre, FilesAre
    <2>2. FoundIn(Index, n) = {}
      <3>1. \A k \in Live : Index[k].name # n
        BY <1>1, <1>4 DEF StoreInv, GoneInv
      <3> QED BY <3>1, FoundIsLive
    <2>3. FoundIn(Index', n) = {}
      BY <1>2, <2>2 DEF FoundIn
    <2>4. Files'[n] = Kept(Index', next', mark', data', n)
      BY <1>1, LengthsAreNext, FilesAreNext DEF InHand
    <2> QED BY <2>1, <2>3, <2>4 DEF Kept
  <1>5. FilesStay({})
    BY <1>3, <1>4 DEF FilesStay
  <1>6. Held = NoDraft /\ Held' = NoDraft
    BY <1>1, HeldIsFree, HeldIsFreeNext DEF HandsFree
  <1> QED BY <1>5, <1>6, ByStutter

LEMMA FormatKeeps ==
  ASSUME StoreInv, StoreInv', FormatIndex \/ FormatData
  PROVE  KeepsPromise
  <1>1. TypeOK /\ FormatInv /\ ChainsInv
    BY DEF StoreInv, OnceInv, FinishInv, ChainsInv
  <1>2. pc = "format" /\ job.op = "format" /\ UNCHANGED file
    BY DEF FormatIndex, FormatData, StoreInv, CallInv
  <1>3. Held = NoDraft
    BY <1>2, HeldIsFree DEF HandsFree
  <1>4. \A n \in Names : Files[n] = NoEntry
    BY <1>2, LengthsAre, FilesAre
  <1>5. \/ pc' = "format" /\ job'.op = "format"
        \/ pc' = "idle" /\ job.fbs = {} /\ UNCHANGED fb
    BY <1>1, <1>2 DEF FormatIndex, FormatData, Return, TypeOK, Job
  <1>6. CASE pc' = "format" /\ job'.op = "format"
    <2>1. Held' = NoDraft
      BY <1>6, HeldIsFreeNext DEF HandsFree
    <2>2. \A n \in Names : Files'[n] = NoEntry
      BY <1>6, LengthsAreNext, FilesAreNext
    <2> QED BY <1>3, <1>4, <2>1, <2>2, ByStutter DEF FilesStay
  <1>7. CASE pc' = "idle" /\ job.fbs = {} /\ UNCHANGED fb
    <2>1. \A k \in Slots : fb'[k] = BlankBlock /\ Index'[k] = BlankBlock
      BY <1>1, <1>2, <1>7 DEF FormatInv, Index
    <2>2. Held' = NoDraft
      <3>1. ~Attached'
        BY <1>1, <1>2, <2>1, ValueAssumption, SectorFacts DEF Attached, BlankBlock, ChainsInv, FileInv, TypeOK, File
      <3> QED BY <1>7, <3>1, HeldIsFreeNext DEF HandsFree
    <2>3. ASSUME NEW n \in Names PROVE Files'[n] = NoEntry
      <3>1. FoundIn(Index', n) = {}
        BY <2>1, ValueAssumption DEF FoundIn, BlankBlock
      <3>2. Files'[n] = Kept(Index', next', mark', data', n)
        BY <1>7, LengthsAreNext, FilesAreNext DEF InHand
      <3> QED BY <3>1, <3>2 DEF Kept
    <2> QED BY <1>3, <1>4, <2>2, <2>3, ByStutter DEF FilesStay
  <1> QED BY <1>5, <1>6, <1>7

-----------------------------------------------------------------------------
(***************************************************************************)
(* What of a file can be read while it is written.                         *)
(***************************************************************************)
LEMMA NthIsFollowed ==
  ASSUME NEW c, NEW n
  PROVE  Nth(next, c, n) = NthSector(c, n)
  BY DEF Nth, NthSector, Follow

\* A file nothing is being written to is there as far as its length goes.
LEMMA HeldWhole ==
  StoreInv /\ Attached /\ pc \notin {"create", "gc_rewrite", "discard", "format"} /\ ~Writing /\ file.length \in Nat =>
    /\ \E p : /\ IsPath(next, file.cluster, p, SectorsFor(file.length))
              /\ \A i \in 0 .. SectorsFor(file.length) : Nth(next, file.cluster, i) = p[i]
    /\ \A i \in 0 .. file.length - 1 : Shows(mark, data, At(next, file.cluster, i))
    /\ Content(next, mark, data, file.cluster, file.length) =
         [i \in 1 .. file.length |-> At(next, file.cluster, i - 1)]
  <1> SUFFICES ASSUME StoreInv, Attached, pc \notin {"create", "gc_rewrite", "discard", "format"}, ~Writing,
                      file.length \in Nat
               PROVE  /\ \E p : /\ IsPath(next, file.cluster, p, SectorsFor(file.length))
                                /\ \A i \in 0 .. SectorsFor(file.length) : Nth(next, file.cluster, i) = p[i]
                      /\ \A i \in 0 .. file.length - 1 : Shows(mark, data, At(next, file.cluster, i))
                      /\ Content(next, mark, data, file.cluster, file.length) =
                           [i \in 1 .. file.length |-> At(next, file.cluster, i - 1)]
    OBVIOUS
  <1>1. TypeOK /\ ChainsInv /\ FileInv /\ MineFilled
    BY DEF StoreInv, OnceInv, FinishInv, ChainsInv, FilledInv
  <1>2. Holds(next, data, file.cluster, file.length, {})
    BY <1>1, SectorFacts DEF MineFilled, Filled
  <1>3. PICK p : /\ IsPath(next, file.cluster, p, SectorsFor(file.length))
                 /\ \A i \in 0 .. file.length - 1 : i % DataArea \in data[p[i \div DataArea]]
    BY <1>2 DEF Holds
  <1>4. \A i \in 0 .. SectorsFor(file.length) : Nth(next, file.cluster, i) = p[i]
    BY <1>1, <1>3, PathIsFollowed, NthIsFollowed
  <1>5. \A t \in Reach(file.cluster) : t \in Sectors /\ mark[t] = "inuse"
    <2>1. file.block \in Owners /\ Index[file.block] = fb[file.block]
      BY <1>1, AttachedFacts, IndexIsFlash DEF Owners
    <2>2. Chain(file.block) = Reach(file.cluster)
      BY <1>1, <2>1 DEF Chain, FileInv, Holding
    <2> QED BY <1>1, <2>1, <2>2, ChainsAreInUse DEF Target, Writing, Filling
  <1>6. ASSUME NEW i \in 0 .. file.length - 1 PROVE Shows(mark, data, At(next, file.cluster, i))
    <2>1. i \div DataArea \in 0 .. SectorsFor(file.length) - 1 /\ SectorsFor(file.length) \in Nat
      BY SectorOfByte
    <2>2. p[i \div DataArea] \in Reach(file.cluster)
      BY <1>3, <2>1, PathIsReached DEF Reach
    <2>3. Nth(next, file.cluster, i \div DataArea) = p[i \div DataArea]
      BY <1>4, <2>1
    <2> QED BY <1>3, <1>5, <2>2, <2>3 DEF Shows, At
  <1>7. Content(next, mark, data, file.cluster, file.length) =
          [i \in 1 .. file.length |-> At(next, file.cluster, i - 1)]
    <2>1. ASSUME NEW c, NEW length \in Nat, \A i \in 0 .. length - 1 : Shows(mark, data, At(next, c, i))
          PROVE  Content(next, mark, data, c, length) = [i \in 1 .. length |-> At(next, c, i - 1)]
      BY <2>1, ContentUpTo
    <2> QED BY <1>6, <2>1
  <1> QED BY <1>3, <1>4, <1>6, <1>7

LEMMA HeldWholeNext ==
  (StoreInv /\ Attached /\ pc \notin {"create", "gc_rewrite", "discard", "format"} /\ ~Writing /\ file.length \in Nat =>
    /\ \E p : /\ IsPath(next, file.cluster, p, SectorsFor(file.length))
              /\ \A i \in 0 .. SectorsFor(file.length) : Nth(next, file.cluster, i) = p[i]
    /\ \A i \in 0 .. file.length - 1 : Shows(mark, data, At(next, file.cluster, i))
    /\ Content(next, mark, data, file.cluster, file.length) =
         [i \in 1 .. file.length |-> At(next, file.cluster, i - 1)])'
  BY HeldWhole, PTL

\* While the last sector is being written, the bytes before it can be read.
LEMMA HeldPart ==
  StoreInv /\ Writing =>
    \E h \in Sectors :
      /\ job.todo = {h} /\ h \in Reach(file.cluster)
      /\ file.length \in Nat /\ file.length - job.len \in Nat
      /\ \A i \in 0 .. file.length - job.len - 1 : Shows(mark, data, At(next, file.cluster, i))
      /\ \A i \in file.length - job.len .. file.length - 1 : At(next, file.cluster, i)[1] = h
  <1> SUFFICES ASSUME StoreInv, Writing
               PROVE  \E h \in Sectors :
                        /\ job.todo = {h} /\ h \in Reach(file.cluster)
                        /\ file.length \in Nat /\ file.length - job.len \in Nat
                        /\ \A i \in 0 .. file.length - job.len - 1 : Shows(mark, data, At(next, file.cluster, i))
                        /\ \A i \in file.length - job.len .. file.length - 1 : At(next, file.cluster, i)[1] = h
    OBVIOUS
  <1>1. TypeOK /\ ChainsInv /\ WritingInv /\ TablesInv /\ ShortInv /\ LastInv /\ PartInv /\ InChainInv
    BY DEF StoreInv, OnceInv, FinishInv, ChainsInv, FilledInv
  <1>2. Filling /\ Busy /\ pc \in {"index_length", "mark", "data"}
    BY <1>1 DEF Writing, Filling, Busy, ShortInv
  <1>3. /\ Chain(file.block) = Reach(file.cluster) /\ file.block \in Live
        /\ job.len \in Nat /\ job.len >= 1 /\ job.op \in {"override", "append"}
    BY <1>2, BusyFile
  <1>4. PICK h \in job.todo : job.todo = {h}
    BY <1>1, <1>2 DEF WritingInv, ShortInv
  <1>5. h \in Sectors /\ h \in Reach(file.cluster) /\ IsFirst(h, job.todo)
    BY <1>1, <1>2, <1>4, SectorFacts DEF TypeOK, Job, InChainInv, Writing, IsFirst
  <1>6. next[h] = Empty
    BY <1>1, <1>2, <1>4, <1>5 DEF WritingInv, TablesInv
  <1>7. file.length \in Nat /\ job.len <= file.length /\ (file.length - 1) % DataArea = job.len - 1
    BY <1>1, <1>2, <1>3 DEF LastInv, StoreInv, GrowsInv
  <1> DEFINE n == SectorsFor(file.length)
             q == (file.length - 1) \div DataArea
  <1>8. /\ n = q + 1 /\ q \in Nat /\ file.length - job.len = DataArea * q
    <2>1. file.length - 1 \in Nat
      BY <1>3, <1>7
    <2>2. file.length - 1 = DataArea * q + (job.len - 1) /\ q \in Nat
      BY <1>7, <2>1, DivMod
    <2>3. n = q + 1
      BY <1>3, <1>7, SectorsForLast
    <2>4. DataArea * q \in Nat
      BY <2>2, SizeAssumption
    <2> HIDE DEF n, q
    <2> QED BY <1>3, <1>7, <2>2, <2>3, <2>4
  <1>9. PICK p : /\ IsPath(next, file.cluster, p, n)
                 /\ \A i \in 0 .. file.length - 1 :
                      p[i \div DataArea] \in job.todo \/ i % DataArea \in data[p[i \div DataArea]]
    BY <1>1 DEF PartInv, Holds
  <1>10. \A i \in 0 .. n : Nth(next, file.cluster, i) = p[i]
    BY <1>1, <1>9, PathIsFollowed, NthIsFollowed
  <1> HIDE DEF n, q
  <1>11. \A i \in 0 .. n - 1 : p[i] \in Reach(file.cluster) /\ p[i] \in Sectors /\ next[p[i]] = p[i + 1]
    <2>1. \A i \in 0 .. n - 1 : p[i] \in Reach(file.cluster)
      BY <1>9, PathIsReached DEF Reach
    <2> QED BY <1>9, <2>1 DEF IsPath
  <1>12. p[q] = h
    <2>1. q \in 0 .. n - 1 /\ q + 1 = n
      BY <1>8
    <2>2. next[p[q]] = p[n]
      BY <1>11, <2>1
    <2>3. p[n] = Empty
      BY <1>9 DEF IsPath
    <2> QED BY <1>1, <1>4, <1>11, <2>1, <2>2, <2>3 DEF LastInv
  <1>13. \A i \in 0 .. q - 1 : p[i] # h
    <2> SUFFICES ASSUME NEW i \in 0 .. q - 1 PROVE p[i] # h
      OBVIOUS
    <2>1. i \in 0 .. n - 1 /\ i + 1 \in 0 .. n - 1
      BY <1>8
    <2>2. next[p[i]] = p[i + 1] /\ p[i + 1] \in Sectors
      BY <1>11, <2>1
    <2> QED BY <1>6, <2>2, SectorFacts
  <1>14. \A t \in Reach(file.cluster) : t # h => t \in Sectors /\ mark[t] = "inuse"
    <2>1. file.block \in Owners
      BY <1>2, <1>3 DEF Owners
    <2>2. \A t \in Reach(file.cluster) : t \in Sectors /\ Target(t)
      BY <1>1, <1>2, <1>3, <2>1, ChainsAreInUse
    <2> QED BY <1>4, <2>2 DEF Target, IsFirst
  <1>15. ASSUME NEW i \in 0 .. file.length - job.len - 1 PROVE Shows(mark, data, At(next, file.cluster, i))
    <2>1. i \in Nat /\ i < DataArea * q /\ i \in 0 .. file.length - 1
      BY <1>3, <1>7, <1>8
    <2>2. i \div DataArea \in 0 .. q - 1
      <3>1. i = DataArea * (i \div DataArea) + (i % DataArea) /\ i \div DataArea \in Nat /\ i % DataArea \in 0 .. DataArea - 1
        BY <2>1, DivMod
      <3>2. ASSUME NEW e \in Nat, NEW r \in Nat, DataArea * e + r < DataArea * q PROVE e < q
        <4> SUFFICES ASSUME q <= e PROVE FALSE
          BY <1>8
        <4>0. e - q \in Nat /\ e = q + (e - q)
          BY <1>8
        <4>1. PICK x \in Nat : e = q + x
          BY <4>0
        <4>2. DataArea * e = DataArea * q + DataArea * x /\ DataArea * x >= 0 /\ DataArea * q \in Nat /\ DataArea * x \in Nat
          BY <1>8, <4>1, SizeAssumption
        <4> QED BY <3>2, <4>2
      <3>3. i \div DataArea < q
        <4>1. DataArea * (i \div DataArea) + (i % DataArea) < DataArea * q
          BY <2>1, <3>1
        <4>2. i % DataArea \in Nat
          BY <3>1
        <4> QED BY <3>1, <3>2, <4>1, <4>2
      <3> QED BY <1>8, <3>1, <3>3
    <2> DEFINE e == i \div DataArea
    <2>3. e \in 0 .. n - 1 /\ e \in 0 .. n /\ e \in 0 .. q - 1
      BY <1>8, <2>2
    <2> HIDE DEF e
    <2>4. p[e] \in Reach(file.cluster) /\ p[e] # h /\ Nth(next, file.cluster, e) = p[e]
      BY <1>10, <1>11, <1>13, <2>3
    <2>5. i % DataArea \in data[p[e]]
      BY <1>4, <1>9, <2>1, <2>4 DEF e
    <2>6. At(next, file.cluster, i) = <<p[e], i % DataArea>>
      BY <2>4 DEF At, e
    <2> QED BY <1>14, <2>4, <2>5, <2>6 DEF Shows
  <1>16. ASSUME NEW i \in file.length - job.len .. file.length - 1 PROVE At(next, file.cluster, i)[1] = h
    <2>1. i - DataArea * q \in 0 .. DataArea - 1
      <3>1. job.len - 1 \in 0 .. DataArea - 1
        <4>1. file.length - 1 \in Nat
          BY <1>3, <1>7
        <4> QED BY <1>7, <4>1, DivMod
      <3>2. DataArea * q \in Nat
        BY <1>8, SizeAssumption
      <3> QED BY <1>3, <1>7, <1>8, <3>1, <3>2, SizeAssumption
    <2>2. PICK r \in 0 .. DataArea - 1 : i = DataArea * q + r
      <3>1. i \in Int /\ DataArea * q \in Nat
        BY <1>3, <1>7, <1>8, SizeAssumption
      <3> QED BY <2>1, <3>1
    <2>3. i \div DataArea = q
      BY <1>8, <2>2, DivUnique
    <2>4. Nth(next, file.cluster, q) = h
      BY <1>8, <1>10, <1>12
    <2> QED BY <2>3, <2>4 DEF At
  <1>17. file.length - job.len \in Nat
    BY <1>3, <1>7
  <1> QED BY <1>4, <1>5, <1>7, <1>15, <1>16, <1>17

LEMMA HeldPartNext ==
  (StoreInv /\ Writing =>
    \E h \in Sectors :
      /\ job.todo = {h} /\ h \in Reach(file.cluster)
      /\ file.length \in Nat /\ file.length - job.len \in Nat
      /\ \A i \in 0 .. file.length - job.len - 1 : Shows(mark, data, At(next, file.cluster, i))
      /\ \A i \in file.length - job.len .. file.length - 1 : At(next, file.cluster, i)[1] = h)'
  BY HeldPart, PTL

LEMMA ContentPrefix ==
  ASSUME NEW links, NEW new, NEW marks, NEW bytes, NEW marked, NEW now, NEW c, NEW length \in Nat \cup {Empty},
         NEW m \in Nat, length # Empty => length <= m,
         \A i \in 0 .. m - 1 : /\ At(new, c, i) = At(links, c, i)
                               /\ Shows(marks, bytes, At(links, c, i)) /\ Shows(marked, now, At(links, c, i))
  PROVE  Content(new, marked, now, c, length) = Content(links, marks, bytes, c, length)
  <1>1. CASE length = Empty
    BY <1>1, ContentNone
  <1>2. CASE length # Empty
    <2>1. length \in Nat /\ length <= m
      BY <1>2
    <2>2. \A i \in 0 .. length - 1 : i \in 0 .. m - 1
      BY <2>1
    <2>3. Content(links, marks, bytes, c, length) = [i \in 1 .. length |-> At(links, c, i - 1)]
      BY <2>1, <2>2, ContentUpTo
    <2>4. Content(new, marked, now, c, length) = [i \in 1 .. length |-> At(new, c, i - 1)]
      <3>1. \A i \in 0 .. length - 1 : Shows(marked, now, At(new, c, i))
        BY <2>2
      <3> QED BY <2>1, <3>1, ContentUpTo
    <2>5. \A i \in 1 .. length : At(new, c, i - 1) = At(links, c, i - 1)
      <3>1. \A i \in 1 .. length : i - 1 \in 0 .. m - 1
        BY <2>1
      <3> QED BY <3>1
    <2> QED BY <2>3, <2>4, <2>5
  <1> QED BY <1>1, <1>2

\* A write to a sector of its file leaves the other files alone.
LEMMA OthersKept ==
  ASSUME StoreInv, StoreInv', Busy, UNCHANGED fb, file'.name = file.name, pc' # "gc_rewrite",
         job'.op = job.op \/ pc' = "idle", NEW s \in Reach(file.cluster),
         \A t \in Sectors : t # s => next'[t] = next[t] /\ mark'[t] = mark[t] /\ data'[t] = data[t]
  PROVE  FilesStay({file.name})
  <1>1. /\ Attached /\ file.block \in Live /\ file.block \in Slots /\ job.op \in {"override", "append"}
        /\ pc # "gc_rewrite" /\ Chain(file.block) = Reach(file.cluster) /\ Index[file.block] = fb[file.block]
    BY BusyFile
  <1>2. NoCrossLink
    BY DEF StoreInv, OnceInv, FinishInv, ChainsInv
  <1>3. \A n \in Names \ {file.name} :
          ~InHand(n) /\ ~InHand(n)' /\ \A k \in FoundIn(Index, n) : s \notin Chain(k)
    <2> SUFFICES ASSUME NEW n \in Names \ {file.name}
                 PROVE  ~InHand(n) /\ ~InHand(n)' /\ \A k \in FoundIn(Index, n) : s \notin Chain(k)
      OBVIOUS
    <2>1. ~InHand(n) /\ ~InHand(n)'
      BY <1>1 DEF InHand
    <2>2. ASSUME NEW k \in FoundIn(Index, n) PROVE s \notin Chain(k)
      <3>1. k \in Live /\ Index[k].name = n
        BY FoundIsLive
      <3>2. k # file.block
        BY <1>1, <3>1 DEF Attached
      <3> QED BY <1>1, <1>2, <3>1, <3>2 DEF NoCrossLink
    <2> QED BY <2>1, <2>2
  <1> QED BY <1>1, <1>3, FilesSector

\* An append leaves its own file as it is until it is finished.
LEMMA AppendedStays ==
  ASSUME StoreInv, StoreInv', Busy, job.op = "append", job'.op = "append" \/ pc' = "idle", pc' # "gc_rewrite",
         UNCHANGED fb, file'.block = file.block, file'.name = file.name, file'.cluster = file.cluster,
         FilesStay({file.name}),
         NEW m \in Nat, fb[file.block].length # Empty => fb[file.block].length <= m,
         \A i \in 0 .. m - 1 : /\ At(next', file.cluster, i) = At(next, file.cluster, i)
                               /\ Shows(mark, data, At(next, file.cluster, i))
                               /\ Shows(mark', data', At(next, file.cluster, i))
  PROVE  /\ FilesStay({}) /\ ~Files[file.name].ro /\ file.name \in Names
         /\ Held = [name |-> file.name, bytes |-> Content(next, mark, data, file.cluster, file.length)]
         /\ Held' = [name |-> file.name, bytes |-> Content(next', mark', data', file.cluster, file'.length)]
  <1>1. /\ Attached /\ file.block \in Slots /\ pc # "gc_rewrite" /\ file.name \in Names
        /\ fb[file.block].cluster = file.cluster /\ Index[file.block] = fb[file.block]
    BY BusyFile
  <1>2. Attached'
    BY <1>1 DEF Attached
  <1> DEFINE b == fb[file.block]
  <1>3. Files[file.name] = EntryOf(next, mark, data, file.cluster, b.length, b.info.ro)
    BY <1>1, AttachedEntry DEF InHand
  <1>4. Files'[file.name] = EntryOf(next', mark', data', file.cluster, b.length, b.info.ro)
    <2>1. ~InHand(file.name)'
      BY DEF InHand
    <2> QED BY <1>1, <1>2, <2>1, AttachedEntryNext
  <1>5. b.length \in Nat \cup {Empty}
    BY <1>1, LengthsAre
  <1>6. ASSUME NEW c, NEW length \in Nat \cup {Empty}, c = file.cluster, length = b.length
        PROVE  Content(next', mark', data', c, length) = Content(next, mark, data, c, length)
    <2>1. length # Empty => length <= m
      BY <1>6
    <2>2. \A i \in 0 .. m - 1 : /\ At(next', c, i) = At(next, c, i)
                                /\ Shows(mark, data, At(next, c, i)) /\ Shows(mark', data', At(next, c, i))
      BY <1>6
    <2> QED BY <2>1, <2>2, ContentPrefix
  <1>7. Files'[file.name] = Files[file.name]
    BY <1>3, <1>4, <1>5, <1>6 DEF EntryOf
  <1>8. FilesStay({})
    BY <1>7 DEF FilesStay
  <1>9. ~b.info.ro
    BY DEF StoreInv, CallInv
  <1>10. ~Files[file.name].ro
    BY <1>3, <1>9 DEF EntryOf
  <1>11. Held = [name |-> file.name, bytes |-> Content(next, mark, data, file.cluster, file.length)]
    BY <1>1, HeldIs
  <1>12. Held' = [name |-> file.name, bytes |-> Content(next', mark', data', file.cluster, file'.length)]
    BY <1>2, HeldIsNext
  <1> QED BY <1>1, <1>8, <1>10, <1>11, <1>12

\* What a file has, or will have, can be read.
LEMMA WrittenShows ==
  ASSUME StoreInv, Busy
  PROVE  \A b \in Promise!Written : Shows(mark, data, b)
  <1>1. /\ Attached /\ pc \notin {"idle", "gc_rewrite"} /\ job.op \in {"override", "append"}
    BY BusyFile
  <1>2. ASSUME NEW c, NEW length \in Nat \cup {Empty}, NEW b \in Promise!Of(Content(next, mark, data, c, length))
        PROVE  Shows(mark, data, b)
    BY ContentShows DEF Promise!Of
  <1>3. Promise!Of(<<>>) = {}
    BY DEF Promise!Of
  <1>4. ASSUME NEW b \in Promise!Of(Held.bytes) PROVE Shows(mark, data, b)
    <2>1. Held = [name |-> file.name,
                  bytes |-> IF pc # "idle" /\ job.op = "override" THEN <<>>
                            ELSE Content(next, mark, data, file.cluster, file.length)]
      BY <1>1, HeldIs
    <2>2. file.length \in Nat \cup {Empty}
      BY LengthsAre
    <2> QED BY <1>2, <1>3, <1>4, <2>1, <2>2
  <1>5. ASSUME NEW n \in Names, NEW b \in Promise!Of(Files[n].bytes) PROVE Shows(mark, data, b)
    <2>1. CASE InHand(n)
      <3>1. Files[n] = EntryOf(next, mark, data, Empty, Empty, FALSE)
        BY <1>1, <2>1, LengthsAre, FilesAre DEF InHand
      <3>2. Files[n].bytes = <<>>
        BY <3>1, ContentNone DEF EntryOf
      <3> QED BY <1>3, <1>5, <3>2
    <2>2. CASE ~InHand(n)
      <3>1. Files[n] = Kept(Index, next, mark, data, n)
        BY <2>2, LengthsAre, FilesAre
      <3>2. CASE FoundIn(Index, n) = {}
        BY <1>3, <1>5, <3>1, <3>2 DEF Kept, NoEntry
      <3>3. CASE FoundIn(Index, n) # {}
        <4>1. UniqueNames
          BY DEF StoreInv, OnceInv, FinishInv
        <4>2. PICK k \in Live : Index[k].name = n
          BY <3>3, FoundIsLive
        <4> DEFINE old == Index
        <4>3. k \in Slots /\ FoundIn(old, n) = {k} /\ Files[n] = Kept(old, next, mark, data, n)
          BY <3>1, <4>1, <4>2, FoundOne
        <4>4. old[k].length \in Nat \cup {Empty}
          BY <4>3, LengthsAre
        <4> HIDE DEF old
        <4>5. Files[n] = EntryOf(next, mark, data, old[k].cluster, old[k].length, old[k].info.ro)
          BY <4>3, KeptOne
        <4>6. Files[n].bytes = Content(next, mark, data, old[k].cluster, old[k].length)
          BY <4>5 DEF EntryOf
        <4> QED BY <1>2, <1>5, <4>4, <4>6
      <3> QED BY <3>2, <3>3
    <2> QED BY <2>1, <2>2
  <1>6. Promise!Written = Promise!Of(Held.bytes) \cup UNION {Promise!Of(Files[n].bytes) : n \in Names}
    BY DEF Promise!Written, Files
  <1> QED BY <1>4, <1>5, <1>6

\* A write fills in the file block of its own file only.
LEMMA BlockElsewhere ==
  ASSUME StoreInv, StoreInv', Busy, UNCHANGED <<mark, next, data>>, pc' # "gc_rewrite",
         file'.block = file.block, file'.name = file.name, job'.op = job.op \/ pc' = "idle",
         NEW b, fb' = [fb EXCEPT ![file.block] = b], Attached'
  PROVE  FilesStay({file.name})
  <1>1. /\ Attached /\ file.block \in Slots /\ pc # "gc_rewrite" /\ job.op \in {"override", "append"}
        /\ TypeOK
    BY BusyFile DEF StoreInv, OnceInv, FinishInv, ChainsInv
  <1>2. \A k \in Slots : Index[k] = fb[k] /\ Index'[k] = fb'[k]
    BY <1>1, IndexIsFlash, IndexIsFlashNext
  <1>3. \A k \in Slots : k # file.block => fb'[k] = fb[k]
    BY <1>1 DEF TypeOK
  <1>4. \A n \in Names : file.block \in FoundIn(Index, n) => n = file.name
    BY <1>1, AttachedEntry
  <1>5. \A n \in Names : file.block \in FoundIn(Index', n) => n = file.name
    BY AttachedEntryNext
  <1>6. ASSUME NEW n \in Names \ {file.name}
        PROVE  /\ ~InHand(n) /\ ~InHand(n)'
               /\ \A k \in Slots : Index'[k] # Index[k] => k \notin FoundIn(Index, n) /\ k \notin FoundIn(Index', n)
    <2>1. ~InHand(n) /\ ~InHand(n)'
      BY <1>1, <1>6 DEF InHand
    <2>2. \A k \in Slots : Index'[k] # Index[k] => k = file.block
      BY <1>2, <1>3
    <2> QED BY <1>4, <1>5, <1>6, <2>1, <2>2
  <1> QED BY <1>6, FilesElsewhere

LEMMA IndexLengthKeeps ==
  ASSUME StoreInv, StoreInv', IndexLength
  PROVE  KeepsPromise
  <1>1. TypeOK /\ ChainsInv
    BY DEF StoreInv, OnceInv, FinishInv, ChainsInv
  <1>2. /\ pc = "index_length" /\ UNCHANGED <<mark, next, data, file>>
        /\ job.op = "override" /\ job.todo # {} /\ Busy
    BY <1>1 DEF IndexLength, ChainsInv, TailInv, WritingInv, Busy, Filling
  <1>3. pc' = "mark" /\ job'.op = job.op
    BY <1>1, <1>2 DEF IndexLength, WriteRest, Goto, TypeOK, Job
  <1>4. \E b : fb' = [fb EXCEPT ![file.block] = b]
    BY <1>1, IndexLengthWrites
  <1>5. Attached'
    <2>1. Busy'
      BY <1>3 DEF Busy, Filling
    <2> QED BY <2>1 DEF StoreInv, OnceInv, FinishInv, ChainsInv, FileInv
  <1>6. FilesStay({file.name})
    BY <1>2, <1>3, <1>4, <1>5, BlockElsewhere
  <1> QED BY <1>2, <1>3, <1>6, CallGoesOn

\* The first sector of a file has no byte yet.
LEMMA ContentBlank ==
  ASSUME NEW links \in Links, NEW marks, NEW bytes, NEW c, NEW length \in Nat, marks[c] # "inuse"
  PROVE  Content(links, marks, bytes, c, length) = <<>>
  <1>1. Nth(links, c, 0 \div DataArea) = c
    <2>1. 0 \div DataArea = 0
      BY SizeAssumption
    <2> QED BY <2>1, NthLinks
  <1>2. ~Shows(marks, bytes, At(links, c, 0))
    BY <1>1 DEF Shows, At
  <1>3. \A i \in 0 .. 0 - 1 : Shows(marks, bytes, At(links, c, i))
    OBVIOUS
  <1>4. Content(links, marks, bytes, c, length) = [i \in 1 .. 0 |-> At(links, c, i - 1)]
    BY <1>2, <1>3, ContentUpTo
  <1> QED BY <1>4

LEMMA IndexClusterKeeps ==
  ASSUME StoreInv, StoreInv', IndexCluster
  PROVE  KeepsPromise
  <1>1. TypeOK /\ ChainsInv
    BY DEF StoreInv, OnceInv, FinishInv, ChainsInv
  <1>2. /\ pc = "index" /\ UNCHANGED <<mark, next, data>> /\ job.op \in {"override", "append"}
        /\ job.todo # {} /\ Busy /\ \A s \in job.todo : mark[s] = "blank"
    BY <1>1 DEF IndexCluster, ChainsInv, TailInv, WritingInv, Busy, Filling
  <1>3. /\ Attached /\ file.block \in Slots /\ file.cluster = Empty /\ fb[file.block].cluster = Empty
        /\ job.head \in Sectors /\ job.head \in job.todo /\ job.len \in Nat
        /\ fb' = [fb EXCEPT ![file.block] = [fb[file.block] EXCEPT !.cluster = job.head]]
        /\ file' = [file EXCEPT !.cluster = job.head, !.length = job.len]
    BY <1>1, IndexClusterWrites DEF IsFirst
  <1>4. /\ file'.cluster = job.head /\ file'.length = job.len
        /\ file'.block = file.block /\ file'.name = file.name
    BY <1>1, <1>3 DEF TypeOK, File
  <1>5. pc' = (IF job.op = "override" THEN "index_length" ELSE "mark") /\ job'.op = job.op
    BY <1>1, <1>2 DEF IndexCluster, WriteRest, Goto, TypeOK, Job
  <1>6. Attached'
    <2>1. Busy'
      BY <1>5 DEF Busy, Filling
    <2> QED BY <2>1 DEF StoreInv, OnceInv, FinishInv, ChainsInv, FileInv
  <1>7. FilesStay({file.name})
    BY <1>2, <1>3, <1>4, <1>5, <1>6, BlockElsewhere
  <1>8. CASE job.op = "override"
    BY <1>2, <1>4, <1>5, <1>7, <1>8, CallGoesOn
  <1>9. CASE job.op = "append"
    <2>1. /\ file.name \in Names /\ fb[file.block].length = Empty /\ file.length = Empty
          /\ Index[file.block] = fb[file.block] /\ file.block \in Live /\ next \in Links
      BY <1>1, <1>2, <1>3, BusyFile, LengthsAre DEF ChainsInv, LengthsInv, FileInv
    <2>2. fb'[file.block].length = Empty /\ fb'[file.block].info = fb[file.block].info
      BY <1>1, <1>3, <2>1 DEF TypeOK, FileBlock
    <2>3. Files[file.name] = EntryOf(next, mark, data, Empty, Empty, fb[file.block].info.ro)
      BY <1>2, <1>3, <1>9, <2>1, AttachedEntry DEF InHand
    <2>4. Files'[file.name] = EntryOf(next', mark', data', fb'[file.block].cluster, Empty, fb'[file.block].info.ro)
      <3>1. ~InHand(file.name)'
        BY <1>5, <1>9 DEF InHand
      <3>2. pc' # "gc_rewrite"
        BY <1>5, <1>9
      <3>3. Files'[file'.name] = EntryOf(next', mark', data', fb'[file'.block].cluster, fb'[file'.block].length,
                                         fb'[file'.block].info.ro)
        BY <1>6, <3>1, <3>2, AttachedEntryNext
      <3> QED BY <1>4, <2>2, <3>3
    <2>5. Files'[file.name] = Files[file.name]
      BY <2>2, <2>3, <2>4, ContentNone DEF EntryOf
    <2>6. FilesStay({})
      BY <1>7, <2>5 DEF FilesStay
    <2>7. Held = [name |-> file.name, bytes |-> <<>>]
      <3>1. Held = [name |-> file.name, bytes |-> Content(next, mark, data, file.cluster, Empty)]
        BY <1>2, <1>3, <1>9, <2>1, HeldIs
      <3> QED BY <3>1, ContentNone
    <2>8. Held' = [name |-> file.name, bytes |-> <<>>]
      <3>1. Held' = [name |-> file.name, bytes |-> Content(next', mark', data', job.head, job.len)]
        BY <1>4, <1>5, <1>6, <1>9, HeldIsNext
      <3>2. Content(next, mark, data, job.head, job.len) = <<>>
        BY <1>2, <1>3, <2>1, ContentBlank
      <3> QED BY <1>2, <3>1, <3>2
    <2> QED BY <2>6, <2>7, <2>8, ByStutter
  <1> QED BY <1>2, <1>8, <1>9

\* A linked sector that is not marked yet shows no byte.
LEMMA IndexLinkKeeps ==
  ASSUME StoreInv, StoreInv', IndexLink
  PROVE  KeepsPromise
  <1>1. TypeOK /\ ChainsInv /\ InChainInv /\ GrowsInv
    BY DEF StoreInv, OnceInv, FinishInv, ChainsInv
  <1>2. /\ pc = "index" /\ UNCHANGED <<fb, mark, data>> /\ job.op = "append" /\ file.cluster # Empty
        /\ job.todo # {} /\ Busy /\ \A s \in job.todo : mark[s] = "blank"
    BY <1>1 DEF IndexLink, ChainsInv, WritingInv, Busy, Filling
  <1>3. Attached /\ ~Writing /\ job.len \in Nat /\ job.len >= 1 /\ next \in Links /\ next' \in Links
    BY <1>2, BusyFile, LengthsAre, LengthsAreNext DEF Writing
  <1> DEFINE L == file.length
             c == file.cluster
  <1>4. /\ job.tail \in Sectors /\ next[job.tail] = Empty
        /\ next' = [next EXCEPT ![job.tail] = job.head]
        /\ L \in Nat /\ file' = [file EXCEPT !.length = L + job.len]
    BY <1>1, IndexLinkWrites
  <1>5. /\ file'.cluster = c /\ file'.length = L + job.len
        /\ file'.block = file.block /\ file'.name = file.name
    BY <1>1, <1>4 DEF TypeOK, File
  <1>6. pc' = "mark" /\ job'.op = job.op /\ job'.todo = job.todo /\ job'.len = job.len
    BY <1>1, <1>2 DEF IndexLink, WriteRest, Goto, TypeOK, Job
  <1>7. Writing' /\ Attached'
    <2>1. Busy' /\ Writing'
      BY <1>6 DEF Busy, Filling, Writing
    <2> QED BY <2>1 DEF StoreInv, OnceInv, FinishInv, ChainsInv, FileInv
  <1>8. job.tail \in Reach(c)
    BY <1>1, <1>2 DEF InChainInv
  <1>9. FilesStay({file.name})
    <2>1. \A t \in Sectors : t # job.tail => next'[t] = next[t] /\ mark'[t] = mark[t] /\ data'[t] = data[t]
      BY <1>2, <1>4
    <2> QED BY <1>2, <1>5, <1>6, <1>8, <2>1, OthersKept
  <1>10. PICK p : /\ IsPath(next, c, p, SectorsFor(L))
                  /\ \A i \in 0 .. SectorsFor(L) : Nth(next, c, i) = p[i]
    BY <1>2, <1>3, <1>4, HeldWhole
  <1>11. /\ \A i \in 0 .. L - 1 : Shows(mark, data, At(next, c, i))
         /\ Content(next, mark, data, c, L) = [i \in 1 .. L |-> At(next, c, i - 1)]
    BY <1>2, <1>3, <1>4, HeldWhole
  <1>12. ASSUME NEW i \in 0 .. L - 1 PROVE At(next', c, i) = At(next, c, i)
    <2> DEFINE e == i \div DataArea
    <2>1. e \in 0 .. SectorsFor(L) - 1 /\ SectorsFor(L) \in Nat
      BY <1>4, SectorOfByte
    <2> HIDE DEF e
    <2>2. ASSUME NEW j \in 0 .. e - 1 PROVE next'[Nth(next, c, j)] = next[Nth(next, c, j)]
      <3>1. j \in 0 .. SectorsFor(L) /\ j \in 0 .. SectorsFor(L) - 1 /\ j + 1 \in 0 .. SectorsFor(L) - 1
        BY <2>1
      <3>2. Nth(next, c, j) = p[j] /\ p[j] \in Sectors /\ next[p[j]] = p[j + 1] /\ p[j + 1] \in Sectors
        BY <1>10, <3>1 DEF IsPath
      <3>3. p[j] # job.tail
        BY <1>4, <3>2, SectorFacts
      <3> QED BY <1>4, <3>2, <3>3
    <2>3. e \in Nat /\ e \in 0 .. e
      BY <2>1
    <2>4. Nth(next', c, e) = Nth(next, c, e)
      BY <1>3, <2>2, <2>3, NthAgree
    <2> QED BY <2>4 DEF At, e
  <1>13. PICK h \in Sectors :
           /\ job.todo = {h}
           /\ \A i \in L + job.len - job.len .. L + job.len - 1 : At(next', c, i)[1] = h
    <2>1. PICK h \in Sectors :
            /\ job'.todo = {h}
            /\ \A i \in file'.length - job'.len .. file'.length - 1 : At(next', file'.cluster, i)[1] = h
      BY <1>7, HeldPartNext
    <2>2. file'.length - job'.len = L + job.len - job.len /\ file'.length - 1 = L + job.len - 1
      BY <1>3, <1>4, <1>5, <1>6
    <2>3. \A i \in L + job.len - job.len .. L + job.len - 1 : At(next', c, i)[1] = h
      BY <1>5, <2>1, <2>2
    <2> QED BY <1>6, <2>1, <2>3
  <1>14. Content(next', mark', data', c, L + job.len) = [i \in 1 .. L |-> At(next, c, i - 1)]
    <2>1. ~Shows(mark', data', At(next', c, L))
      <3>1. L \in L + job.len - job.len .. L + job.len - 1
        BY <1>3, <1>4
      <3>2. At(next', c, L)[1] = h
        BY <1>13, <3>1
      <3> QED BY <1>2, <1>13, <3>2 DEF Shows
    <2>2. \A i \in 0 .. L - 1 : Shows(mark', data', At(next', c, i))
      BY <1>2, <1>11, <1>12
    <2>4. Content(next', mark', data', c, L + job.len) = [i \in 1 .. L |-> At(next', c, i - 1)]
      <3>1. ASSUME NEW d, NEW length \in Nat, NEW m \in Nat, m <= length,
                   \A i \in 0 .. m - 1 : Shows(mark', data', At(next', d, i)), ~Shows(mark', data', At(next', d, m))
            PROVE  Content(next', mark', data', d, length) = [i \in 1 .. m |-> At(next', d, i - 1)]
        BY <3>1, ContentUpTo
      <3>2. L + job.len \in Nat /\ L <= L + job.len
        BY <1>3, <1>4
      <3> HIDE DEF L, c
      <3> QED BY <1>4, <2>1, <2>2, <3>1, <3>2
    <2>5. \A i \in 1 .. L : At(next', c, i - 1) = At(next, c, i - 1)
      <3>1. \A i \in 1 .. L : i - 1 \in 0 .. L - 1
        BY <1>4
      <3> QED BY <1>12, <3>1
    <2> QED BY <2>4, <2>5
  <1>15. fb[file.block].length # Empty => fb[file.block].length <= L
    BY <1>1, <1>2, <1>3 DEF GrowsInv
  <1>16. \A i \in 0 .. L - 1 : /\ At(next', c, i) = At(next, c, i)
                               /\ Shows(mark, data, At(next, c, i)) /\ Shows(mark', data', At(next, c, i))
    BY <1>2, <1>11, <1>12
  <1>17. /\ FilesStay({})
         /\ Held = [name |-> file.name, bytes |-> Content(next, mark, data, file.cluster, file.length)]
         /\ Held' = [name |-> file.name, bytes |-> Content(next', mark', data', file.cluster, file'.length)]
    BY <1>2, <1>4, <1>5, <1>6, <1>9, <1>15, <1>16, AppendedStays
  <1>18. Held' = Held
    BY <1>5, <1>11, <1>14, <1>17
  <1> QED BY <1>17, <1>18, ByStutter

\* Nor does one that is marked and blank.
LEMMA MarkSectorKeeps ==
  ASSUME StoreInv, StoreInv', MarkSector
  PROVE  KeepsPromise
  <1>1. TypeOK /\ ChainsInv /\ GrowsInv
    BY DEF StoreInv, OnceInv, FinishInv, ChainsInv
  <1>2. pc = "mark" /\ pc' = "data" /\ UNCHANGED <<fb, next, data, file, job>> /\ Busy /\ Writing /\ Writing'
    BY DEF MarkSector, Goto, Busy, Writing, Filling
  <1> DEFINE L == file.length
             M == file.length - job.len
             c == file.cluster
  <1>3. PICK h \in Sectors :
          /\ job.todo = {h} /\ h \in Reach(c) /\ L \in Nat /\ M \in Nat
          /\ \A i \in 0 .. M - 1 : Shows(mark, data, At(next, c, i))
          /\ \A i \in M .. L - 1 : At(next, c, i)[1] = h
    BY <1>2, HeldPart
  <1>4. mark[h] = "blank" /\ data[h] = {}
    BY <1>1, <1>2, <1>3 DEF ChainsInv, WritingInv, TablesInv
  <1>5. \A t \in Sectors : t # h => mark'[t] = mark[t]
    BY <1>1, <1>3 DEF MarkSector, TypeOK
  <1>6. FilesStay({file.name})
    <2>1. \A t \in Sectors : t # h => next'[t] = next[t] /\ mark'[t] = mark[t] /\ data'[t] = data[t]
      BY <1>2, <1>5
    <2> QED BY <1>2, <1>3, <2>1, OthersKept
  <1>7. job.op \in {"override", "append"} /\ Attached /\ job.len \in Nat /\ job.len >= 1
    BY <1>2, BusyFile
  <1>8. CASE job.op = "override"
    BY <1>2, <1>6, <1>8, CallGoesOn
  <1>9. CASE job.op = "append"
    <2>1. \A i \in 0 .. M - 1 : Shows(mark', data', At(next, c, i))
      BY <1>2, HeldPartNext
    <2>2. fb[file.block].length # Empty => fb[file.block].length <= M
      BY <1>1, <1>2, <1>9 DEF GrowsInv
    <2>3. \A i \in 0 .. M - 1 : /\ At(next', c, i) = At(next, c, i)
                                /\ Shows(mark, data, At(next, c, i)) /\ Shows(mark', data', At(next, c, i))
      BY <1>2, <1>3, <2>1
    <2>4. /\ FilesStay({})
          /\ Held = [name |-> file.name, bytes |-> Content(next, mark, data, file.cluster, file.length)]
          /\ Held' = [name |-> file.name, bytes |-> Content(next', mark', data', file.cluster, file'.length)]
      <3> HIDE DEF M
      <3> QED BY <1>2, <1>3, <1>6, <1>9, <2>2, <2>3, AppendedStays
    <2>5. M \in M .. L - 1 /\ M <= L
      BY <1>3, <1>7
    <2>6. ~Shows(mark, data, At(next, c, M)) /\ ~Shows(mark', data', At(next, c, M))
      <3>1. At(next, c, M)[1] = h
        BY <1>3, <2>5
      <3> QED BY <1>2, <1>4, <3>1 DEF Shows
    <2>7. ASSUME NEW marks, NEW bytes, NEW d, NEW length \in Nat, NEW m \in Nat, m <= length,
                 \A i \in 0 .. m - 1 : Shows(marks, bytes, At(next, d, i)), ~Shows(marks, bytes, At(next, d, m))
          PROVE  Content(next, marks, bytes, d, length) = [i \in 1 .. m |-> At(next, d, i - 1)]
      BY <2>7, ContentUpTo
    <2>8. Content(next, mark, data, c, L) = [i \in 1 .. M |-> At(next, c, i - 1)]
      <3> HIDE DEF M, L, c
      <3> QED BY <1>3, <2>5, <2>6, <2>7
    <2>9. Content(next, mark', data', c, L) = [i \in 1 .. M |-> At(next, c, i - 1)]
      <3> HIDE DEF M, L, c
      <3> QED BY <1>3, <2>1, <2>5, <2>6, <2>7
    <2>10. Held' = Held
      BY <1>2, <2>4, <2>8, <2>9
    <2> QED BY <2>4, <2>10, ByStutter
  <1> QED BY <1>7, <1>8, <1>9

\* The bytes that fill the last sector are new.
LEMMA TailIsNew ==
  ASSUME StoreInv, pc = "partial", file.length \in Nat, NEW size \in Nat, (file.length % DataArea) + size <= DataArea,
         data[job.tail] \cap ((file.length % DataArea) .. (file.length % DataArea) + size - 1) = {},
         NEW i \in file.length .. file.length + size - 1
  PROVE  ~Shows(mark, data, At(next, file.cluster, i))
  <1>1. TypeOK /\ ChainsInv /\ LastInv /\ InChainInv
    BY DEF StoreInv, OnceInv, FinishInv, ChainsInv, FilledInv
  <1>2. Busy /\ ~Writing
    BY DEF Busy, Writing, Filling
  <1> DEFINE L == file.length
             c == file.cluster
             q == L \div DataArea
             r == L % DataArea
  <1>3. r # 0 /\ job.tail \in Reached(next, c) /\ job.tail \in Sectors /\ next[job.tail] = Empty
    BY <1>1 DEF LastInv, InChainInv, ChainsInv, TailInv, Reach
  <1>4. q \in Nat /\ r \in 0 .. DataArea - 1
    BY DivMod
  <1>5. SectorsFor(L) = q + 1
    <2>1. r + 1 <= DataArea
      BY <1>4, SizeAssumption
    <2> QED BY <1>3, <2>1, SectorsForWithin
  <1>6. PICK p : /\ IsPath(next, c, p, SectorsFor(L))
                 /\ \A j \in 0 .. SectorsFor(L) : Nth(next, c, j) = p[j]
    BY <1>2, BusyFile, HeldWhole
  <1>7. Nth(next, c, q) = job.tail
    <2>1. q \in 0 .. SectorsFor(L) - 1 /\ q \in 0 .. SectorsFor(L) /\ q + 1 = SectorsFor(L)
      BY <1>4, <1>5
    <2> HIDE DEF q
    <2>2. p[q] \in Reached(next, c)
      BY <1>6, <2>1, PathIsReached
    <2>3. next[p[q]] = Empty
      BY <1>6, <2>1 DEF IsPath
    <2>4. p[q] = job.tail
      BY <1>3, <2>2, <2>3, SectorFacts, OneEnd
    <2> QED BY <1>6, <2>1, <2>4
  <1>8. i \in Nat /\ L <= i /\ r + (i - L) < DataArea /\ i - L \in Nat /\ i - L < size
    BY <1>4, SizeAssumption
  <1>9. i \div DataArea = q /\ i % DataArea = r + (i - L)
    BY <1>8, DivWithin
  <1>10. At(next, c, i) = <<job.tail, r + (i - L)>>
    <2> HIDE DEF L
    <2> QED BY <1>7, <1>9 DEF At
  <1>11. r + (i - L) \in r .. r + size - 1
    BY <1>4, <1>8
  <1>12. r + (i - L) \notin data[job.tail]
    BY <1>11
  <1> HIDE DEF L, c, r
  <1>13. ~Shows(mark, data, At(next, c, i))
    BY <1>10, <1>12 DEF Shows
  <1> QED BY <1>13 DEF c

\* Bytes appear behind the others, where none was: AppendBytes.
LEMMA AppendToTailKeeps ==
  ASSUME StoreInv, StoreInv', AppendToTail
  PROVE  KeepsPromise
  <1>1. TypeOK /\ ChainsInv /\ InChainInv /\ FilledInv /\ GrowsInv
    BY DEF StoreInv, OnceInv, FinishInv, ChainsInv
  <1>2. /\ pc = "partial" /\ UNCHANGED <<fb, mark, next>> /\ job.op = "append" /\ Busy /\ ~Writing
        /\ job.tail \in Sectors
    BY <1>1 DEF AppendToTail, ChainsInv, TailInv, Busy, Filling, Writing
  <1>3. Attached /\ file.name \in Names
    BY <1>2, BusyFile
  <1> DEFINE L == file.length
             c == file.cluster
             r == L % DataArea
  <1>4. PICK size \in Nat :
          /\ L \in Nat /\ file' = [file EXCEPT !.length = L + size]
          /\ ProgramData(job.tail, r .. r + size - 1)
          /\ data[job.tail] \cap (r .. r + size - 1) = {}
          /\ \/ pc' = "idle"
             \/ pc' = "alloc" /\ job'.op = job.op
    BY <1>1, AppendFills DEF StoreInv
  <1>5. /\ file'.cluster = c /\ file'.length = L + size
        /\ file'.block = file.block /\ file'.name = file.name
    BY <1>1, <1>4 DEF TypeOK, File
  <1>6. r + size <= DataArea
    <2>1. PICK m \in Nat : file' = [file EXCEPT !.length = L + m] /\ r + m <= DataArea
      BY <1>1, AppendWrites
    <2>2. file'.length = L + m
      BY <1>1, <2>1 DEF TypeOK, File
    <2>3. m = size
      BY <1>4, <1>5, <2>2
    <2> QED BY <2>1, <2>3
  <1>7. Attached' /\ ~Writing' /\ pc' \notin {"create", "gc_rewrite", "discard", "format"}
    BY <1>2, <1>3, <1>4, <1>5 DEF Attached, Writing, Filling
  <1>8. \A t \in Sectors : t # job.tail => data'[t] = data[t]
    BY <1>1, <1>4 DEF ProgramData, TypeOK
  <1>9. job.tail \in Reach(c)
    BY <1>1, <1>2 DEF InChainInv, ChainsInv, TailInv
  <1>10. FilesStay({file.name})
    <2>1. \A t \in Sectors : t # job.tail => next'[t] = next[t] /\ mark'[t] = mark[t] /\ data'[t] = data[t]
      BY <1>2, <1>8
    <2> QED BY <1>2, <1>4, <1>5, <1>7, <1>9, <2>1, OthersKept
  <1>11. /\ \A i \in 0 .. L - 1 : Shows(mark, data, At(next, c, i))
         /\ Content(next, mark, data, c, L) = [i \in 1 .. L |-> At(next, c, i - 1)]
    BY <1>2, <1>3, <1>4, HeldWhole
  <1>12. /\ \A i \in 0 .. L + size - 1 : Shows(mark', data', At(next, c, i))
         /\ Content(next, mark', data', c, L + size) = [i \in 1 .. L + size |-> At(next, c, i - 1)]
    <2>1. L + size \in Nat
      BY <1>4
    <2>2. /\ \A i \in 0 .. file'.length - 1 : Shows(mark', data', At(next', file'.cluster, i))
          /\ Content(next', mark', data', file'.cluster, file'.length) =
               [i \in 1 .. file'.length |-> At(next', file'.cluster, i - 1)]
      <3>1. file'.length \in Nat
        BY <1>5, <2>1
      <3> QED BY <1>7, <3>1, HeldWholeNext
    <2>3. next' = next /\ file'.cluster = c
      BY <1>2, <1>5
    <2>4. file'.length = L + size
      BY <1>5
    <2> HIDE DEF L, c
    <2>5. \A i \in 0 .. L + size - 1 : Shows(mark', data', At(next, c, i))
      <3>1. file'.length - 1 = L + size - 1
        BY <1>4, <2>4
      <3>2. \A i \in 0 .. L + size - 1 : Shows(mark', data', At(next', file'.cluster, i))
        BY <2>2, <3>1
      <3> QED BY <2>3, <3>2
    <2>6. Content(next, mark', data', c, L + size) = [i \in 1 .. L + size |-> At(next, c, i - 1)]
      BY <2>2, <2>3, <2>4, Zenon
    <2> QED BY <2>5, <2>6
  <1>13. fb[file.block].length # Empty => fb[file.block].length <= L
    BY <1>1, <1>2, <1>3 DEF GrowsInv
  <1>14. \A i \in 0 .. L - 1 : /\ At(next', c, i) = At(next, c, i)
                               /\ Shows(mark, data, At(next, c, i)) /\ Shows(mark', data', At(next, c, i))
    <2>1. \A i \in 0 .. L - 1 : i \in 0 .. L + size - 1
      BY <1>4
    <2> QED BY <1>2, <1>11, <1>12, <2>1
  <1>15. /\ FilesStay({}) /\ ~Files[file.name].ro
         /\ Held = [name |-> file.name, bytes |-> Content(next, mark, data, file.cluster, file.length)]
         /\ Held' = [name |-> file.name, bytes |-> Content(next', mark', data', file.cluster, file'.length)]
    <2>1. job'.op = "append" \/ pc' = "idle"
      BY <1>2, <1>4
    <2> QED BY <1>2, <1>4, <1>5, <1>7, <1>10, <1>13, <1>14, <2>1, AppendedStays
  <1>16. \A i \in L .. L + size - 1 : At(next, c, i) \notin Promise!Written
    <2>1. \A i \in L .. L + size - 1 : ~Shows(mark, data, At(next, c, i))
      BY <1>2, <1>4, <1>6, TailIsNew
    <2> QED BY <1>2, <2>1, WrittenShows
  <1> DEFINE B == [i \in 1 .. L + size |-> At(next, c, i - 1)]
             n == L + size
  <1>17. n \in Nat /\ L <= n
    BY <1>4
  <1>18. /\ Held.bytes = [i \in 1 .. L |-> B[i]] /\ Held'.bytes = [i \in 1 .. n |-> B[i]]
         /\ Held.name = file.name /\ Held'.name = file.name
    <2>1. \A i \in 1 .. L : i \in 1 .. L + size
      BY <1>4
    <2>2. [i \in 1 .. L |-> B[i]] = [i \in 1 .. L |-> At(next, c, i - 1)]
      BY <2>1
    <2> QED BY <1>2, <1>5, <1>11, <1>12, <1>15, <2>2
  <1>19. \A i \in L + 1 .. n : B[i] \notin Promise!Written
    <2>1. \A i \in L + 1 .. n : i \in 1 .. L + size /\ i - 1 \in L .. L + size - 1
      BY <1>4
    <2> QED BY <1>16, <2>1
  <1> HIDE DEF B, n
  <1> QED BY <1>3, <1>4, <1>15, <1>17, <1>18, <1>19, ValueAssumption, ByAppend

\* The last step of an append (AppendBytes) or of an override (Overridden).
LEMMA WriteDataKeeps ==
  ASSUME StoreInv, StoreInv', WriteData
  PROVE  KeepsPromise
  <1>1. TypeOK /\ ChainsInv /\ ShortInv /\ FilledInv /\ GrowsInv /\ CallInv
    BY DEF StoreInv, OnceInv, FinishInv, ChainsInv
  <1>2. pc = "data" /\ UNCHANGED <<fb, mark, next, file>> /\ Busy /\ Writing
    BY DEF WriteData, Busy, Filling, Writing
  <1>3. /\ Attached /\ file.name \in Names /\ file.block \in Slots /\ job.op \in {"override", "append"}
        /\ job.len \in Nat /\ job.len >= 1 /\ Index[file.block] = fb[file.block]
        /\ fb[file.block].cluster = file.cluster /\ ~fb[file.block].info.ro /\ fb[file.block].info.ro \in BOOLEAN
    BY <1>1, <1>2, BusyFile DEF CallInv, TypeOK, FileBlock, FileInfo
  <1> DEFINE L == file.length
             M == file.length - job.len
             c == file.cluster
             d == Content(next, mark', data', c, L)
  <1>4. PICK h \in Sectors :
          /\ job.todo = {h} /\ h \in Reach(c) /\ L \in Nat /\ M \in Nat
          /\ \A i \in 0 .. M - 1 : Shows(mark, data, At(next, c, i))
          /\ \A i \in M .. L - 1 : At(next, c, i)[1] = h
    BY <1>2, HeldPart
  <1>5. /\ data[h] = {} /\ pc' = "idle"
        /\ \A t \in Sectors : t # h => data'[t] = data[t]
    <2>1. PICK s \in job.todo : s \in Sectors /\ data[s] = {} /\ pc' = "idle" /\ \E S : ProgramData(s, S)
      BY <1>1, DataFills DEF StoreInv
    <2>2. s = h
      BY <1>4
    <2> QED BY <1>1, <2>1, <2>2 DEF ProgramData, TypeOK
  <1>6. Attached' /\ ~Writing'
    BY <1>2, <1>3, <1>5 DEF Attached, Writing, Filling
  <1>7. FilesStay({file.name})
    <2>1. \A t \in Sectors : t # h => next'[t] = next[t] /\ mark'[t] = mark[t] /\ data'[t] = data[t]
      BY <1>2, <1>5
    <2>2. file'.name = file.name /\ pc' # "gc_rewrite"
      BY <1>2, <1>5
    <2> QED BY <1>2, <1>4, <1>5, <2>1, <2>2, OthersKept
  <1>8. /\ \A i \in 0 .. L - 1 : Shows(mark', data', At(next, c, i))
        /\ d = [i \in 1 .. L |-> At(next, c, i - 1)]
    BY <1>2, <1>4, <1>5, <1>6, HeldWholeNext
  <1>9. \A i \in M .. L - 1 : At(next, c, i) \notin Promise!Written
    <2>1. \A i \in M .. L - 1 : ~Shows(mark, data, At(next, c, i))
      BY <1>4, <1>5 DEF Shows
    <2> QED BY <1>2, <2>1, WrittenShows
  <1>10. CASE job.op = "append"
    <2>1. fb[file.block].length # Empty => fb[file.block].length <= M
      BY <1>1, <1>2, <1>10 DEF GrowsInv
    <2>2. \A i \in 0 .. M - 1 : /\ At(next', c, i) = At(next, c, i)
                                /\ Shows(mark, data, At(next, c, i)) /\ Shows(mark', data', At(next, c, i))
      <3>1. \A i \in 0 .. M - 1 : i \in 0 .. L - 1
        BY <1>3, <1>4
      <3> QED BY <1>2, <1>4, <1>8, <3>1
    <2>3. /\ FilesStay({}) /\ ~Files[file.name].ro
          /\ Held = [name |-> file.name, bytes |-> Content(next, mark, data, file.cluster, file.length)]
          /\ Held' = [name |-> file.name, bytes |-> Content(next', mark', data', file.cluster, file'.length)]
      <3>1. /\ file'.block = file.block /\ file'.name = file.name /\ file'.cluster = file.cluster
            /\ UNCHANGED fb /\ pc' # "gc_rewrite"
        BY <1>2, <1>5
      <3> HIDE DEF M
      <3> QED BY <1>2, <1>4, <1>5, <1>7, <1>10, <2>1, <2>2, <3>1, AppendedStays
    <2>4. Content(next, mark, data, c, L) = [i \in 1 .. M |-> At(next, c, i - 1)]
      <3>1. M \in M .. L - 1 /\ M <= L
        BY <1>3, <1>4
      <3>2. ~Shows(mark, data, At(next, c, M))
        BY <1>4, <1>5, <3>1 DEF Shows
      <3>3. ASSUME NEW e, NEW length \in Nat, NEW m \in Nat, m <= length,
                   \A i \in 0 .. m - 1 : Shows(mark, data, At(next, e, i)), ~Shows(mark, data, At(next, e, m))
            PROVE  Content(next, mark, data, e, length) = [i \in 1 .. m |-> At(next, e, i - 1)]
        BY <3>3, ContentUpTo
      <3> HIDE DEF M, L, c
      <3> QED BY <1>4, <3>1, <3>2, <3>3
    <2> DEFINE B == [i \in 1 .. L |-> At(next, c, i - 1)]
    <2>5. M <= L
      BY <1>3, <1>4
    <2>6. /\ Held.bytes = [i \in 1 .. M |-> B[i]] /\ Held'.bytes = [i \in 1 .. L |-> B[i]]
          /\ Held.name = file.name /\ Held'.name = file.name
      <3>1. \A i \in 1 .. M : i \in 1 .. L
        BY <1>4, <2>5
      <3>2. [i \in 1 .. M |-> B[i]] = [i \in 1 .. M |-> At(next, c, i - 1)]
        BY <3>1
      <3> QED BY <1>2, <1>8, <2>3, <2>4, <3>2
    <2>7. \A i \in M + 1 .. L : B[i] \notin Promise!Written
      <3>1. \A i \in M + 1 .. L : i \in 1 .. L /\ i - 1 \in M .. L - 1
        BY <1>4
      <3> QED BY <1>9, <3>1
    <2> HIDE DEF B, M, L
    <2> QED BY <1>3, <1>4, <2>3, <2>5, <2>6, <2>7, ValueAssumption, ByAppend
  <1>11. CASE job.op = "override"
    <2>1. L = job.len /\ M = 0 /\ fb[file.block].length = L
      BY <1>1, <1>2, <1>3, <1>11 DEF GrowsInv
    <2>2. Held.name = file.name
      BY <1>2, <1>3, <1>11, HeldIs
    <2>3. Held' = [name |-> file.name, bytes |-> d]
      BY <1>2, <1>5, <1>6, HeldIsNext
    <2>4. Files[file.name] = [state |-> "created", ro |-> FALSE, bytes |-> <<>>]
      <3>1. Files[file.name] = EntryOf(next, mark, data, Empty, Empty, FALSE)
        BY <1>2, <1>3, <1>11, LengthsAre, FilesAre
      <3> QED BY <3>1, ContentNone DEF EntryOf
    <2>5. Files'[file.name] = [state |-> "stored", ro |-> FALSE, bytes |-> d]
      <3>1. ~InHand(file.name)'
        BY <1>5 DEF InHand
      <3>2. Files'[file.name] = EntryOf(next', mark', data', fb[file.block].cluster, fb[file.block].length,
                                        fb[file.block].info.ro)
        BY <1>2, <1>5, <1>6, <3>1, AttachedEntryNext
      <3>3. Files'[file.name] = EntryOf(next, mark', data', c, L, FALSE)
        BY <1>2, <1>3, <2>1, <3>2
      <3>4. L # Empty
        BY <1>4, SectorFacts
      <3> HIDE DEF L, c
      <3> QED BY <3>3, <3>4 DEF EntryOf
    <2>6. \A i \in DOMAIN d : d[i] \notin Promise!Written
      <3>1. \A i \in 1 .. L : i - 1 \in M .. L - 1
        BY <1>4, <2>1
      <3> HIDE DEF d, L, M, c
      <3> QED BY <1>8, <1>9, <3>1
    <2> HIDE DEF d
    <2> QED BY <1>3, <1>7, <2>2, <2>3, <2>4, <2>5, <2>6, ByOverridden
  <1> QED BY <1>3, <1>10, <1>11

\* The initial states are initial states of the promise.
LEMMA InitIsEmpty == Init => Promise!StoreInit
  <1> SUFFICES ASSUME Init PROVE Promise!StoreInit
    OBVIOUS
  <1>1. StoreInv
    BY StoreInit
  <1>2. pc = "idle" /\ clobbered = {} /\ file.block = Empty /\ fb = BlankTable
    BY DEF Init, NoFile
  <1>3. Held = NoDraft
    BY <1>1, <1>2, HeldIsFree DEF HandsFree
  <1>4. ASSUME NEW n \in Names PROVE StoredAs(n) = NoEntry
    <2>1. FoundIn(Index, n) = {}
      BY <1>2, ValueAssumption DEF FoundIn, Index, BlankTable, BlankBlock
    <2>2. Kept(Index, next, mark, data, n) = NoEntry
      BY <2>1, KeptNone
    <2>3. Files[n] = NoEntry
      BY <1>2, <2>2, FilesAre DEF InHand
    <2> QED BY <2>3 DEF Files
  <1> QED BY <1>3, <1>4 DEF Promise!StoreInit, Promise!Absent, Promise!Closed, NoEntry, NoDraft

\* Every step is a step of the promise, or none.
LEMMA StepKeeps ==
  ASSUME CallersKeepRules, "new_name" \in Contract, StoreInv, StoreInv', [Next]_vars
  PROVE  KeepsPromise
  <1>1. CASE Call
    BY <1>1, CreateCallKeeps, OpenCallKeeps, RenameCallKeeps, WriteCallKeeps, FinishCallKeeps,
       DeleteCallKeeps, FormatCallKeeps DEF Call
  <1>2. CASE Step
    <2>1. ~LinkSector
      BY DEF LinkSector, StoreInv, OnceInv, ShortInv
    <2>2. CASE CreateExists \/ CreateBlock \/ GcIndexErase \/ GcIndexRewrite \/ CreateNoSpace
      BY <2>2, CreateFails, CreateBlockKeeps, GcIndexEraseKeeps, GcIndexRewriteKeeps
    <2>3. CASE DiscardSector \/ OverrideBlock \/ DeleteDone
      BY <2>3, DiscardSectorKeeps, OverrideBlockKeeps, DeleteDoneKeeps
    <2>4. CASE Walk \/ AppendToTail \/ Allocate \/ GcDataErase \/ GcDataDone
      BY <2>4, SearchKeeps, AppendToTailKeeps, GcDataEraseKeeps
    <2>5. CASE IndexCluster \/ IndexLength \/ IndexLink \/ MarkSector \/ WriteData
      BY <2>5, IndexClusterKeeps, IndexLengthKeeps, IndexLinkKeeps, MarkSectorKeeps, WriteDataKeeps
    <2>6. CASE FormatIndex \/ FormatData
      BY <2>6, FormatKeeps
    <2> QED BY <1>2, <2>1, <2>2, <2>3, <2>4, <2>5, <2>6 DEF Step
  <1>3. CASE Crash
    BY <1>3, CrashKeeps
  <1>4. CASE UNCHANGED vars
    BY <1>4, NothingKeeps DEF vars
  <1> QED BY <1>1, <1>2, <1>3, <1>4 DEF Next

\* The flash file system implements FileStore (create_file, open_file, write_file,
\* write_finish, rename_file, delete_file, spifs_format, and spifs_gc below them):
\* for any number of files, sectors and file blocks, while a call runs as well as
\* between calls, no step changes a file but as its call promises.
THEOREM StoreIsImplemented ==
  ASSUME CallersKeepRules, "new_name" \in Contract, ShortWrites
  PROVE  Spec => ImplementsStore
  <1>1. Init => StoreInv /\ Promise!StoreInit
    BY StoreInit, InitIsEmpty
  <1>2. StoreInv /\ [Next]_vars => StoreInv'
    BY StoreNext
  <1>3. StoreInv /\ StoreInv' /\ [Next]_vars => [Promise!StoreNext]_(Promise!storeVars)
    BY StepKeeps DEF KeepsPromise
  <1> QED BY <1>1, <1>2, <1>3, PTL DEF Spec, ImplementsStore, Promise!Store
=============================================================================
