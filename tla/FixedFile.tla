----------------------------- MODULE FixedFile -----------------------------
(***************************************************************************)
(* Files of fixed-size records (src/app/utils/fixed_file.c) as the         *)
(* configuration request of the UDP service writes them: the newest record *)
(* is the last one, and a file that would outgrow its limit is deleted and *)
(* started again with the new record alone.                                *)
(*                                                                         *)
(* The module adds to Spifs a second File, the one inside fixed_file_t.    *)
(* While a record is being written Spifs's file is that one, and the File  *)
(* of the uploads and downloads waits in parked.                           *)
(***************************************************************************)
EXTENDS Spifs

CONSTANTS
  Section,    \* section_size, the bytes of a record
  MaxSize     \* max_size, the limit of a file of records

ASSUME RecordAssumption ==
  /\ Section \in Nat \ {0}
  /\ MaxSize \in Nat
  /\ Section <= MaxSize
  /\ MaxSize <= MaxLength

VARIABLES
  parked,     \* the File of the other caller
  fx          \* the record being written

fixedVars == <<parked, fx>>

\* had: the file had a record before; a property compares it with the outcome.
Record ==
  [stage : {"none", "opened", "rotate", "override", "overridden", "append",
            "finish"},
   had : BOOLEAN]

NoRecord == [stage |-> "none", had |-> FALSE]

FixedInit ==
  /\ parked = NoFile
  /\ fx = NoRecord

Stage(s) == fx' = [fx EXCEPT !.stage = s]

\* fixed_file_read finds a record in a file of this length.
HasRecord(length) == length \in Nat /\ length >= Section

\* The call made at the last stage has returned.
At(s) == fx.stage = s /\ pc = "idle"

\* fixed_file_open, and fixed_file_create when there is no such file.
FixedOpen(n) ==
  /\ At("none")
  /\ parked' = file
  /\ \/ /\ Named(n) # {}
        /\ OpenCall(n)
        /\ \E k \in Named(n) :
             /\ IsFirst(k, Named(n))
             /\ fx' = [stage |-> "opened", had |-> HasRecord(fb[k].length)]
     \/ /\ Named(n) = {}
        /\ CreateCall(n, FALSE)
        /\ fx' = [stage |-> "opened", had |-> FALSE]

Opened ==
  /\ At("opened")
  /\ ret \in {"NONE", "CREATE_FILE_SUCCESS"}
  /\ file.length # Garbled

\* file->length + length > max_size, where an empty file's length wraps around.
Outgrown == AddLength(file.length, Section) > MaxSize

\* fixed_file_append: start the file again.
FixedDelete ==
  /\ Opened
  /\ Outgrown
  /\ DeleteCall
  /\ Stage("rotate")
  /\ UNCHANGED parked

\* Seeded bug: the deleted file is not created again.
FixedCreateMutant ==
  /\ At("rotate")
  /\ Stage("override")
  /\ UNCHANGED <<parked, vars>>

FixedCreate ==
  /\ At("rotate")
  /\ CreateCall(file.name, FALSE)
  /\ Stage("override")
  /\ UNCHANGED parked

FixedOverride ==
  /\ At("override")
  /\ WriteCall(Section, "OVERRIDE")
  /\ Stage("overridden")
  /\ UNCHANGED parked

\* fixed_file_append: add the record to the end.
FixedAppend ==
  /\ Opened
  /\ ~Outgrown
  /\ WriteCall(Section, "APPEND")
  /\ Stage("append")
  /\ UNCHANGED parked

FixedFinish ==
  /\ At("append")
  /\ ret = "APPEND_FILE_SUCCESS"
  /\ FinishCall
  /\ Stage("finish")
  /\ UNCHANGED parked

\* fixed_file_create or fixed_file_append returns to the request.
FixedReturn(success) ==
  /\ \/ At("opened") /\ ret \notin {"NONE", "CREATE_FILE_SUCCESS"} /\ ~success
     \/ At("append") /\ ret # "APPEND_FILE_SUCCESS" /\ ~success
     \/ At("finish") /\ success = (ret = "APPEND_FILE_FINISH")
     \/ At("overridden") /\ success = (ret = "WRITE_FILE_SUCCESS")
  /\ file' = parked
  /\ parked' = NoFile
  /\ fx' = NoRecord
  /\ UNCHANGED <<flash, ftl, gcbuf, pc, job, ret, crashes>>

FixedStep ==
  FixedDelete \/ FixedCreate \/ FixedOverride \/ FixedAppend \/ FixedFinish
=============================================================================
