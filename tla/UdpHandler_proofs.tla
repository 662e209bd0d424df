------------------------- MODULE UdpHandler_proofs -------------------------
(***************************************************************************)
(* Proofs about the UDP service of module UdpHandler, for any file system  *)
(* below it, any requests in any order, and power that fails at any time:  *)
(* the service keeps its types and the file names unique; with clients     *)
(* that keep the rules an upload needs, nothing outside the file system is *)
(* written, an upload that was accepted never runs out of sectors and is   *)
(* acknowledged only when it is stored, what is read is the whole file     *)
(* that was asked for, and a file of records always keeps one.             *)
(***************************************************************************)
EXTENDS UdpHandler, Spifs_proofs

-----------------------------------------------------------------------------
(***************************************************************************)
(* What the service does to the file system.                               *)
(***************************************************************************)

\* The variables of Spifs but the caller's File and the words outside.
others == <<fb, mark, next, data, clobbered, ftl, gcbuf, pc, job, ret, crashes>>

\* The service puts another File, or the name it was asked for, in currentFile.
TakesFile == file' \in File /\ UNCHANGED <<others, boot>>

\* fixed_file_update programs a byte.
UpdatesRecord == boot' \in {"intact", "overwritten"} /\ UNCHANGED <<others, file>>

\* spifs_erase_sector, of some of the sectors.
ErasesStretch ==
  \E fbs \in SUBSET FbSectors, secs \in SUBSET Sectors : pc = "idle" /\ EraseStretch(fbs, secs)

\* A step of Spifs, a call of it whose arguments the constants of Spifs need not
\* list, or neither.
FsStep ==
  \/ [Next]_vars
  \/ \E n \in Names \cup {NoName}, info \in FileInfo : CreateWith(n, info)
  \/ \E n \in Names \cup {NoName} : RenameCall(n)
  \/ \E len \in Nat, method \in {"OVERRIDE", "APPEND"} : WriteCall(len, method)
  \/ TakesFile
  \/ UpdatesRecord
  \/ ErasesStretch

LEMMA FsTypes == TypeOK /\ FsStep => TypeOK'
  <1> SUFFICES ASSUME TypeOK, FsStep PROVE TypeOK'
    OBVIOUS
  <1>1. CASE [Next]_vars
    BY <1>1, TypeNext
  <1>2. CASE \E n \in Names \cup {NoName}, info \in FileInfo : CreateWith(n, info)
    BY <1>2, CreateWithType
  <1>3. CASE \E n \in Names \cup {NoName} : RenameCall(n)
    BY <1>3, RenameCallType
  <1>4. CASE \E len \in Nat, method \in {"OVERRIDE", "APPEND"} : WriteCall(len, method)
    BY <1>4, WriteCallType
  <1>5. CASE TakesFile
    BY <1>5 DEF TakesFile, others, ftl, TypeOK
  <1>6. CASE UpdatesRecord
    BY <1>6 DEF UpdatesRecord, others, ftl, TypeOK
  <1>7. CASE ErasesStretch
    <2>1. PICK fbs \in SUBSET FbSectors, secs \in SUBSET Sectors : EraseStretch(fbs, secs)
      BY <1>7 DEF ErasesStretch
    <2>2. BlankBlock \in FileBlock
      BY DEF BlankBlock, FileBlock, DefaultInfo, FileInfo, Words
    <2>3. fb' \in [Slots -> FileBlock] /\ mark' \in [Sectors -> {"blank", "inuse", "discard"}]
      BY <2>1, <2>2 DEF EraseStretch, TypeOK
    <2>4. next' \in [Sectors -> Sectors \cup Words] /\ data' \in [Sectors -> SUBSET Bytes]
      BY <2>1 DEF EraseStretch, TypeOK, Words
    <2> QED BY <2>1, <2>3, <2>4 DEF EraseStretch, TypeOK
  <1> QED BY <1>1, <1>2, <1>3, <1>4, <1>5, <1>6, <1>7 DEF FsStep

LEMMA FsNames == NamesInv /\ FsStep => NamesInv'
  <1> SUFFICES ASSUME NamesInv, FsStep PROVE NamesInv'
    OBVIOUS
  <1>a. TypeOK /\ UniqueNames /\ GcErased /\ TypeOK'
    BY FsTypes DEF NamesInv
  <1>b. ASSUME OnlyTakesOut, pc' # "gc_rewrite" PROVE NamesInv'
    BY <1>a, <1>b, TakingOutKeepsNamesUnique DEF NamesInv, GcErased
  <1>c. ASSUME UNCHANGED fb, pc = "idle", pc' # "gc_rewrite" PROVE NamesInv'
    BY <1>b, <1>c, SameFlash
  <1>1. CASE [Next]_vars
    BY <1>1, NamesNext
  <1>2. CASE \E n \in Names \cup {NoName}, info \in FileInfo : CreateWith(n, info)
    BY <1>2, <1>c DEF CreateWith, Goto, flash
  <1>3. CASE \E n \in Names \cup {NoName} : RenameCall(n)
    <2>1. file.block \in Slots \cup {Empty} /\ pc = "idle" /\ pc' # "gc_rewrite"
      BY <1>3, <1>a DEF RenameCall, Goto, Reject, TypeOK, File
    <2>2. CASE UNCHANGED fb
      BY <1>c, <2>1, <2>2
    <2>3. CASE MarkDeprecated(file.block)
      BY <1>a, <1>b, <2>1, <2>3, StateBitTakesOut
    <2> QED BY <1>3, <2>2, <2>3 DEF RenameCall, Reject, flash
  <1>4. CASE \E len \in Nat, method \in {"OVERRIDE", "APPEND"} : WriteCall(len, method)
    BY <1>4, <1>c DEF WriteCall, Goto, Reject, flash
  <1>5. CASE UNCHANGED others
    BY <1>a, <1>5 DEF others, NamesInv, UniqueNames, Live, Index, GcErased
  <1>6. CASE ErasesStretch
    <2>1. PICK fbs \in SUBSET FbSectors, secs \in SUBSET Sectors : pc = "idle" /\ EraseStretch(fbs, secs)
      BY <1>6 DEF ErasesStretch
    <2>2. pc # "gc_rewrite" /\ pc' # "gc_rewrite"
      BY <2>1 DEF EraseStretch
    <2>3. \A k \in Slots : HasName(fb'[k]) => fb'[k] = fb[k]
      BY <2>1 DEF EraseStretch, HasName, BlankBlock
    <2>4. \A k \in Slots : Index[k] = fb[k] /\ Index'[k] = fb'[k]
      BY <2>2, IndexIsFlash, IndexIsFlashNext
    <2> QED BY <1>b, <2>2, <2>3, <2>4 DEF OnlyTakesOut
  <1> QED BY <1>1, <1>2, <1>3, <1>4, <1>5, <1>6 DEF FsStep, TakesFile, UpdatesRecord

-----------------------------------------------------------------------------
(***************************************************************************)
(* Types.                                                                  *)
(***************************************************************************)
\* The state words of make_finfo.
LEMMA LiveWords ==
  /\ DefaultInfo \in StateWords
  /\ \A ro \in BOOLEAN : [DefaultInfo EXCEPT !.ro = ro] \in FileInfo
  BY DEF StateWords, FileInfo, DefaultInfo

LEMMA RequestTypes ==
  /\ NoRequest \in Request
  /\ \A r : Answer(r) => req' \in Request /\ reply' \in Replies
  /\ timeout \in 0 .. TokenLife => \A alive : Refresh(alive) => timeout' \in 0 .. TokenLife
  /\ NoFile \in File /\ NoRecord \in Record
  <1>1. NoRequest \in Request
    BY LiveWords DEF NoRequest, Request
  <1>2. NoRecord \in Record
    BY DEF NoRecord, Record
  <1>3. TokenLife \in Nat
    BY ClientAssumption
  <1> QED BY <1>1, <1>2, <1>3, BlankTypes DEF Answer, Replies, Refresh

LEMMA AwaitType ==
  ASSUME req \in Request,
         NEW s \in {"none", "delete", "create", "created", "written", "finished",
                    "rename", "renamed", "deleted", "formatted", "fixed"}, Await(s)
  PROVE  req' \in Request
  BY DEF Await, Request

\* The types of the variables of the service and of the record files.
ServiceTypes ==
  /\ parked \in File
  /\ fx \in Record
  /\ timeout \in 0 .. TokenLife
  /\ op \in {"INIT", "APPEND", "READ"}
  /\ totalSize \in Nat
  /\ req \in Request
  /\ reply \in Replies
  /\ event \in {"none", "FREEZE", "NETUPDATE", "SHUTDOWN", "REBOOT"}
  /\ asked \in Names \cup {NoName}

\* The first file of a name is opened with what its file block says.
LEMMA OpenCallOpens ==
  ASSUME TypeOK, NEW n, OpenCall(n)
  PROVE  \E k \in Named(n) :
           /\ IsFirst(k, Named(n))
           /\ file' = [name |-> n, block |-> k, cluster |-> fb[k].cluster,
                       length |-> fb[k].length]
  BY DEF OpenCall

LEMMA SetNameType ==
  ASSUME file \in File, NEW n \in Names
  PROVE  [file EXCEPT !.name = n] \in File /\ [NoFile EXCEPT !.name = n] \in File
  BY BlankTypes DEF File

\* Any step of Ask.
LEMMA AskTypes == UdpTypeOK /\ Ask => FsStep /\ ServiceTypes'
  <1> SUFFICES ASSUME UdpTypeOK, Ask PROVE FsStep /\ ServiceTypes'
    OBVIOUS
  <1>a. TypeOK /\ ServiceTypes
    BY DEF UdpTypeOK, ServiceTypes
  <1>b. ASSUME UNCHANGED vars PROVE FsStep
    BY <1>b DEF FsStep
  <1>c. file \in File
    BY <1>a DEF TypeOK
  <1> USE <1>a, RequestTypes DEF ServiceTypes, fixedVars, Untouched
  <1>1. CASE Connect
    BY <1>1, <1>b, ClientAssumption DEF Connect
  <1>2. ASSUME NEW right, Disconnect(right) PROVE FsStep /\ ServiceTypes'
    BY <1>2, <1>b, ClientAssumption DEF Disconnect
  <1>3. ASSUME NEW right, NEW ok, Inquire(right, ok) PROVE FsStep /\ ServiceTypes'
    BY <1>3, <1>b DEF Inquire
  <1>4. ASSUME NEW right, NEW size \in Totals, NEW crcOk, UpInfoRefused(right, size, crcOk)
        PROVE  FsStep /\ ServiceTypes'
    BY <1>4, <1>b, ClientAssumption DEF UpInfoRefused
  <1>5. ASSUME NEW right, NEW inRange, NEW crcOk, UpDataRefused(right, inRange, crcOk) PROVE FsStep /\ ServiceTypes'
    BY <1>5, <1>b DEF UpDataRefused
  <1>6. ASSUME NEW right, NEW crcOk, NEW n \in Names, DownInfo(n, right, crcOk)
        PROVE  FsStep /\ ServiceTypes'
    <2>1. CASE OpenCall(n)
      <3>1. FsStep
        BY <2>1 DEF FsStep, Next, Call
      <3> QED BY <1>6, <3>1 DEF DownInfo
    <2>2. CASE file' = [file EXCEPT !.name = n] /\ UNCHANGED <<flash, ftl, gcbuf, pc, job, ret, crashes>>
      <3>1. FsStep
        BY <1>c, <2>2, SetNameType DEF FsStep, TakesFile, others, flash
      <3> QED BY <1>6, <3>1 DEF DownInfo
    <2> QED BY <1>6, <2>1, <2>2 DEF DownInfo
  <1>7. ASSUME NEW right, NEW crcOk, NEW n \in Names, Delete(n, right, crcOk)
        PROVE  FsStep /\ ServiceTypes'
    <2>1. FsStep
      BY <1>7, <1>b DEF Delete, FsStep, Next, Call
    <2>2. req' \in Request /\ reply' \in Replies
      <3>1. [NoRequest EXCEPT !.kind = "delete", !.stage = "delete"] \in Request
        BY DEF NoRequest, Request
      <3> QED BY <1>7, <3>1 DEF Delete
    <2> QED BY <1>7, <2>1, <2>2 DEF Delete
  <1>8. ASSUME NEW right, NEW crcOk, NEW n \in Names, NEW m \in Names, Rename(n, m, right, crcOk)
        PROVE  FsStep /\ ServiceTypes'
    <2>1. [NoRequest EXCEPT !.kind = "rename", !.stage = "rename", !.to = m] \in Request
      BY DEF NoRequest, Request
    <2>2. CASE OpenCall(n) /\ req' = [NoRequest EXCEPT !.kind = "rename", !.stage = "rename", !.to = m]
               /\ UNCHANGED reply
      <3>1. FsStep
        BY <2>2 DEF FsStep, Next, Call
      <3> QED BY <1>8, <2>1, <2>2, <3>1 DEF Rename
    <2>3. CASE file' = [file EXCEPT !.name = n] /\ UNCHANGED <<flash, ftl, gcbuf, pc, job, ret, crashes>>
               /\ Answer("REFUSED")
      <3>1. FsStep
        BY <1>c, <2>3, SetNameType DEF FsStep, TakesFile, others, flash
      <3> QED BY <1>8, <2>3, <3>1 DEF Rename
    <2> QED BY <1>8, <2>2, <2>3 DEF Rename
  <1>9. ASSUME NEW right, NEW crcOk, NEW n \in Names, NEW offset, ConfigUpdate(n, offset, right, crcOk)
        PROVE  FsStep /\ ServiceTypes'
    <2>1. boot' \in {"intact", "overwritten"}
      BY <1>9 DEF ConfigUpdate, TypeOK
    <2>2. FsStep
      BY <1>9, <2>1 DEF ConfigUpdate, FsStep, UpdatesRecord, others
    <2> QED BY <1>9, <2>2 DEF ConfigUpdate
  <1>10. ASSUME NEW n \in Names, NEW size \in Totals, NEW method, NEW info \in StateWords,
                UpInfo(n, size, method, info)
         PROVE  FsStep /\ ServiceTypes'
    <2> DEFINE call == [NoRequest EXCEPT !.kind = "upinfo", !.name = n, !.info = info]
    <2>1. /\ [call EXCEPT !.stage = "delete"] \in Request
          /\ [call EXCEPT !.stage = "created"] \in Request
      BY ValueAssumption DEF NoRequest, Request
    <2>2. FsStep /\ req' \in Request /\ reply' \in Replies
      <3>1. CASE OpenCall(n) /\ req' = [call EXCEPT !.stage = "delete"] /\ UNCHANGED reply
        <4>1. FsStep
          BY <3>1 DEF FsStep, Next, Call
        <4> QED BY <2>1, <3>1, <4>1
      <3>2. CASE OpenCall(n) /\ Answer("SUCCESS")
        <4>1. FsStep
          BY <3>2 DEF FsStep, Next, Call
        <4> QED BY <3>2, <4>1
      <3>3. CASE /\ file' = [NoFile EXCEPT !.name = n] /\ Answer("FILE_NOT_EXIST")
                 /\ UNCHANGED <<flash, ftl, gcbuf, pc, job, ret, crashes>>
        <4>1. FsStep
          BY <1>c, <3>3, SetNameType DEF FsStep, TakesFile, others, flash
        <4> QED BY <3>3, <4>1
      <3>4. CASE CreateWith(n, info) /\ req' = [call EXCEPT !.stage = "created"] /\ UNCHANGED reply
        <4>1. FsStep
          BY <3>4 DEF FsStep, StateWords
        <4> QED BY <2>1, <3>4, <4>1
      <3> HIDE DEF call
      <3> QED BY <1>10, <3>1, <3>2, <3>3, <3>4 DEF UpInfo, call
    <2>3. size \in Nat
      BY ClientAssumption
    <2> QED BY <1>10, <2>2, <2>3 DEF UpInfo
  <1>11. ASSUME NEW len \in WriteLens, UpData(len) PROVE FsStep /\ ServiceTypes'
    <2>1. [NoRequest EXCEPT !.kind = "updata", !.stage = "written"] \in Request
      BY DEF NoRequest, Request
    <2>2. FsStep
      BY <1>11, SizeAssumption DEF UpData, FsStep
    <2> QED BY <1>11, <2>1, <2>2 DEF UpData
  <1>12. ASSUME NEW last, DownData(last) PROVE FsStep /\ ServiceTypes'
    BY <1>12, <1>b DEF DownData
  <1>13. ASSUME NEW n \in Names, NEW ok, Freeze(n, ok) PROVE FsStep /\ ServiceTypes'
    <2>1. FsStep
      BY <1>13, <1>b DEF Freeze, FsStep, Next, Call
    <2> QED BY <1>13, <2>1 DEF Freeze
  <1>14. ASSUME NEW n \in Names, ConfigWrite(n) PROVE FsStep /\ ServiceTypes'
    <2>1. [NoRequest EXCEPT !.kind = "config", !.stage = "fixed", !.name = n] \in Request
      BY LiveWords DEF NoRequest, Request
    <2>2. FsStep /\ fx' \in Record
      <3>1. FsStep
        BY <1>14, LiveWords DEF ConfigWrite, FixedOpen, CreateCall, FsStep, Next, Call
      <3>2. fx' \in Record
        <4>1. \A length : HasRecord(length) \in BOOLEAN
          BY DEF HasRecord
        <4>2. \E had \in BOOLEAN : fx' = [stage |-> "opened", had |-> had]
          BY <1>14, <4>1 DEF ConfigWrite, FixedOpen
        <4> QED BY <4>2 DEF Record
      <3> QED BY <3>1, <3>2
    <2>3. parked' \in File
      BY <1>14, <1>c DEF ConfigWrite, FixedOpen
    <2> QED BY <1>14, <2>1, <2>2, <2>3 DEF ConfigWrite
  <1>15. CASE Format
    <2>1. [NoRequest EXCEPT !.kind = "format", !.stage = "formatted"] \in Request
      BY DEF NoRequest, Request
    <2>2. FsStep
      BY <1>15 DEF Format, FsStep, Next, Call
    <2> QED BY <1>15, <2>1, <2>2 DEF Format
  <1>16. ASSUME NEW e \in {"REBOOT", "NETUPDATE", "SHUTDOWN"}, Defer(e) PROVE FsStep /\ ServiceTypes'
    BY <1>16, <1>b DEF Defer
  <1>17. ASSUME NEW fbs \in SUBSET FbSectors, NEW secs \in SUBSET Sectors, FormatPart(fbs, secs)
         PROVE  FsStep /\ ServiceTypes'
    <2>1. FsStep
      BY <1>17 DEF FormatPart, MaySend, FsStep, ErasesStretch
    <2> QED BY <1>17, <2>1 DEF FormatPart
  <1>18. ASSUME NEW right, NEW charged, FormatRefused(right, charged) PROVE FsStep /\ ServiceTypes'
    BY <1>18, <1>b DEF FormatRefused
  <1> QED
    BY <1>1, <1>2, <1>3, <1>4, <1>5, <1>6, <1>7, <1>8, <1>9, <1>10, <1>11, <1>12,
       <1>13, <1>14, <1>15, <1>16, <1>17, <1>18
    DEF Ask, onRebootRequest, onNetUpdateRequest, onPowerModeRequest, sensorRead, deviceInfoRead, displayBufferRead, onFsStatusRequest,
        onFsListRequest, onConfigReadRequest

LEMMA FixedTypes == UdpTypeOK /\ ConfigStep => FsStep /\ ServiceTypes'
  <1> SUFFICES ASSUME UdpTypeOK, ConfigStep PROVE FsStep /\ ServiceTypes'
    OBVIOUS
  <1>a. TypeOK /\ ServiceTypes
    BY DEF UdpTypeOK, ServiceTypes
  <1>b. file.name \in Names \cup {NoName}
    BY <1>a DEF TypeOK, File
  <1>c. Section \in Nat
    BY RecordAssumption
  <1>1. FsStep
    <2>1. CASE FixedDelete
      BY <2>1 DEF FixedDelete, FsStep, Next, Call
    <2>2. CASE FixedCreate
      BY <1>b, <2>2, LiveWords DEF FixedCreate, CreateCall, FsStep
    <2>3. CASE FixedOverride
      BY <1>c, <2>3 DEF FixedOverride, FsStep
    <2>4. CASE FixedAppend
      BY <1>c, <2>4 DEF FixedAppend, FsStep
    <2>5. CASE FixedFinish
      BY <2>5 DEF FixedFinish, FsStep, Next, Call
    <2> QED BY <2>1, <2>2, <2>3, <2>4, <2>5 DEF ConfigStep, FixedStep
  <1>2. UNCHANGED parked /\ fx' \in Record
    BY <1>a DEF ServiceTypes, ConfigStep, FixedStep, FixedDelete, FixedCreate, FixedOverride,
                FixedAppend, FixedFinish, Stage, Record
  <1> QED BY <1>a, <1>1, <1>2 DEF ServiceTypes, ConfigStep, udpVars

LEMMA ServeTypes == UdpTypeOK /\ Serve => FsStep /\ ServiceTypes'
  <1> SUFFICES ASSUME UdpTypeOK, Serve PROVE FsStep /\ ServiceTypes'
    OBVIOUS
  <1>a. TypeOK /\ ServiceTypes
    BY DEF UdpTypeOK, ServiceTypes
  <1>b. ASSUME UNCHANGED vars PROVE FsStep
    BY <1>b DEF FsStep
  <1>c. req.name \in Names \cup {NoName} /\ req.to \in Names \cup {NoName} /\ req.info \in FileInfo
    BY <1>a DEF ServiceTypes, Request, StateWords
  <1>d. \A s \in {"create", "created", "finished", "renamed", "deleted"} : Await(s) => req' \in Request
    BY <1>a, AwaitType DEF ServiceTypes
  <1> USE <1>a, RequestTypes DEF ServiceTypes, fixedVars, Untouched
  <1>1. CASE UpInfoDelete
    <2>1. FsStep
      BY <1>1 DEF UpInfoDelete, FsStep, Next, Call
    <2> QED BY <1>1, <1>d, <2>1 DEF UpInfoDelete
  <1>2. CASE UpInfoCreate
    <2>1. FsStep
      BY <1>2, <1>c DEF UpInfoCreate, FsStep
    <2> QED BY <1>2, <1>d, <2>1 DEF UpInfoCreate
  <1>3. CASE UpDataWritten
    <2>1. FsStep
      BY <1>3, <1>b DEF UpDataWritten, FsStep, Next, Call
    <2>2. req' \in Request /\ reply' \in Replies
      BY <1>3, <1>d DEF UpDataWritten
    <2> QED BY <1>3, <2>1, <2>2 DEF UpDataWritten
  <1>4. CASE UpDataFinished
    BY <1>4, <1>b DEF UpDataFinished
  <1>5. CASE RenameFile
    <2>1. FsStep
      BY <1>5, <1>c DEF RenameFile, FsStep
    <2> QED BY <1>5, <1>d, <2>1 DEF RenameFile
  <1>6. CASE DeleteFile
    <2>1. FsStep
      BY <1>6 DEF DeleteFile, FsStep, Next, Call
    <2> QED BY <1>6, <1>d, <2>1 DEF DeleteFile
  <1>7. CASE CallAnswered
    BY <1>7, <1>b DEF CallAnswered
  <1>8. CASE ConfigStep
    BY <1>8, FixedTypes
  <1>9. CASE ConfigAnswered
    <2>1. file' = parked /\ UNCHANGED <<flash, ftl, gcbuf, pc, job, ret, crashes>>
      BY <1>9 DEF ConfigAnswered, FixedReturn
    <2>2. FsStep
      BY <2>1 DEF FsStep, TakesFile, others, flash
    <2>3. parked' = NoFile /\ fx' = NoRecord
      BY <1>9 DEF ConfigAnswered, FixedReturn
    <2>4. req' \in Request /\ reply' \in Replies
      BY <1>9 DEF ConfigAnswered
    <2> QED BY <1>9, <2>2, <2>3, <2>4 DEF ConfigAnswered
  <1> QED BY <1>1, <1>2, <1>3, <1>4, <1>5, <1>6, <1>7, <1>8, <1>9 DEF Serve

LEMMA UdpSteps == UdpTypeOK /\ [UdpNext]_allVars => FsStep /\ ServiceTypes'
  <1> SUFFICES ASSUME UdpTypeOK, [UdpNext]_allVars PROVE FsStep /\ ServiceTypes'
    OBVIOUS
  <1>a. TypeOK /\ ServiceTypes
    BY DEF UdpTypeOK, ServiceTypes
  <1>b. ASSUME UNCHANGED vars PROVE FsStep
    BY <1>b DEF FsStep
  <1> USE <1>a, RequestTypes DEF ServiceTypes, fixedVars, udpVars, Untouched
  <1>1. CASE Ask
    BY <1>1, AskTypes
  <1>2. CASE Serve
    BY <1>2, ServeTypes
  <1>3. CASE CallStep
    <2>1. FsStep
      BY <1>3 DEF CallStep, FsStep, Next
    <2> QED BY <1>3, <2>1 DEF CallStep
  <1>4. CASE Tick
    <2>1. timeout' \in 0 .. TokenLife
      BY <1>4, ClientAssumption DEF Tick
    <2> QED BY <1>4, <1>b, <2>1 DEF Tick
  <1>5. CASE Relink
    <2>1. 0 \in 0 .. TokenLife
      BY ClientAssumption
    <2> QED BY <1>5, <1>b, <2>1 DEF Relink
  <1>6. CASE TimerFires
    BY <1>6, <1>b DEF TimerFires
  <1>7. CASE Restart
    <2>1. FsStep
      BY <1>7 DEF Restart, FsStep, Next
    <2>2. 0 \in 0 .. TokenLife /\ 0 \in Nat
      BY ClientAssumption
    <2> QED BY <1>7, <2>1, <2>2 DEF Restart, Replies
  <1>8. CASE UNCHANGED allVars
    BY <1>8, <1>b DEF allVars
  <1> QED BY <1>1, <1>2, <1>3, <1>4, <1>5, <1>6, <1>7, <1>8 DEF UdpNext

LEMMA UdpTypeInit == UdpInit => UdpTypeOK
  <1> SUFFICES ASSUME UdpInit PROVE UdpTypeOK
    OBVIOUS
  <1>1. TypeOK
    BY TypeInit DEF UdpInit
  <1>2. 0 \in 0 .. TokenLife /\ 0 \in Nat
    BY ClientAssumption
  <1> QED BY <1>1, <1>2, RequestTypes DEF UdpInit, FixedInit, UdpTypeOK, Replies

LEMMA UdpTypeNext == UdpTypeOK /\ [UdpNext]_allVars => UdpTypeOK'
  <1> SUFFICES ASSUME UdpTypeOK, [UdpNext]_allVars PROVE UdpTypeOK'
    OBVIOUS
  <1>1. FsStep /\ ServiceTypes'
    BY UdpSteps
  <1>2. TypeOK'
    BY <1>1, FsTypes DEF UdpTypeOK
  <1> QED BY <1>1, <1>2 DEF UdpTypeOK, ServiceTypes

LEMMA ServiceNamesNext ==
  UdpTypeOK /\ NamesInv /\ [UdpNext]_allVars => (UdpTypeOK /\ NamesInv)'
  BY UdpTypeNext, UdpSteps, FsNames

\* No two files that can be opened ever have the same name, whatever requests come
\* in whatever order, currentFile being overwritten or not, records being added or
\* not, and whenever the power fails.
THEOREM ServiceKeepsNamesUnique == UdpSpec => [](UdpTypeOK /\ UniqueNames)
  <1>1. UdpInit => UdpTypeOK /\ NamesInv
    BY UdpTypeInit, NamesInit DEF UdpInit
  <1>2. UdpTypeOK /\ NamesInv => UdpTypeOK /\ UniqueNames
    BY DEF NamesInv
  <1> QED BY <1>1, <1>2, ServiceNamesNext, PTL DEF UdpSpec

-----------------------------------------------------------------------------
(***************************************************************************)
(* The invariant of an upload.  It is about the request being served, the  *)
(* state of the transfer, and where the call of the file system is.        *)
(***************************************************************************)

\* What the theorems below ask of clients.
TransfersAreAlone == {"one_transfer", "no_resume"} \subseteq Client

\* A file with sectors has a length: its last append was finished.
HasLength(f) == f.cluster # Empty => f.length # Empty

\* create_file for this job, and write_file appending before it has linked the
\* sectors it found, or filling them.
Creating(o) == pc \in {"create", "gc_rewrite"} /\ job.op = o
Appending   == pc \in {"walk", "partial", "alloc", "gc_data", "index"} /\ job.op = "append"
Storing     == pc \in {"index", "mark", "data", "link"} /\ job.op = "append"

\* While a transfer runs only its own requests use currentFile.
RequestInv ==
  /\ req.kind = "none" => pc = "idle"
  /\ fx.stage # "none" => req.kind = "config"
  /\ req.kind = "config" => op = "INIT"
  /\ op = "APPEND" => req.kind \in {"none", "upinfo", "updata"}
  /\ req.kind \in {"upinfo", "updata"} => op = "APPEND"

\* The calls its requests make.
UploadInv ==
  /\ req.kind = "upinfo" =>
       \/ req.stage = "delete" /\ pc = "idle"
       \/ req.stage = "create" /\ (pc = "idle" \/ (pc = "discard" /\ job.op = "delete"))
       \/ req.stage = "created" /\ file.cluster = Empty /\ (pc = "idle" \/ Creating("create"))
  /\ req.kind = "updata" => pc = "idle" \/ Appending \/ Storing \/ Creating("finish")

\* A file that is appended to has a length as soon as it has a sector.
LengthInv ==
  /\ op = "APPEND" /\ req.kind # "upinfo" => HasLength(file)
  /\ fx.stage = "opened" => HasLength(file)

\* write_addr is unset only for a file without sectors, which needs no link.
LinkInv == Appending /\ job.tail = 0 => file.cluster = Empty

TransferInv == UdpTypeOK /\ RequestInv /\ UploadInv /\ LengthInv /\ LinkInv

-----------------------------------------------------------------------------
(***************************************************************************)
(* The steps of a call.                                                    *)
(***************************************************************************)
LEMMA StepAt ==
  ASSUME Step
  PROVE  \/ pc = "create" /\ (CreateExists \/ CreateBlock \/ GcIndexErase \/ CreateNoSpace)
         \/ pc = "gc_rewrite" /\ GcIndexRewrite
         \/ pc = "discard" /\ (DiscardSector \/ OverrideBlock \/ DeleteDone)
         \/ pc = "walk" /\ Walk
         \/ pc = "partial" /\ AppendToTail
         \/ pc = "alloc" /\ Allocate
         \/ pc = "gc_data" /\ (GcDataErase \/ GcDataDone)
         \/ pc = "index" /\ (IndexCluster \/ IndexLink)
         \/ pc = "index_length" /\ IndexLength
         \/ pc = "mark" /\ MarkSector
         \/ pc = "data" /\ WriteData
         \/ pc = "link" /\ LinkSector
         \/ pc = "format" /\ (FormatIndex \/ FormatData)
  <1>1. CreateExists \/ CreateBlock \/ GcIndexErase \/ CreateNoSpace => pc = "create"
    BY DEF CreateExists, CreateBlock, GcIndexErase, CreateNoSpace
  <1>2. GcIndexRewrite => pc = "gc_rewrite"
    BY DEF GcIndexRewrite
  <1>3. DiscardSector \/ OverrideBlock \/ DeleteDone => pc = "discard"
    BY DEF DiscardSector, OverrideBlock, DeleteDone
  <1>4. Walk => pc = "walk"
    BY DEF Walk
  <1>5. AppendToTail => pc = "partial"
    BY DEF AppendToTail
  <1>6. Allocate => pc = "alloc"
    BY DEF Allocate
  <1>7. GcDataErase \/ GcDataDone => pc = "gc_data"
    BY DEF GcDataErase, GcDataDone
  <1>8. IndexCluster \/ IndexLink => pc = "index"
    BY DEF IndexCluster, IndexLink
  <1>9. IndexLength => pc = "index_length"
    BY DEF IndexLength
  <1>10. MarkSector => pc = "mark"
    BY DEF MarkSector
  <1>11. WriteData => pc = "data"
    BY DEF WriteData
  <1>12. LinkSector => pc = "link"
    BY DEF LinkSector
  <1>13. FormatIndex \/ FormatData => pc = "format"
    BY DEF FormatIndex, FormatData
  <1> QED BY <1>1, <1>2, <1>3, <1>4, <1>5, <1>6, <1>7, <1>8, <1>9, <1>10,
             <1>11, <1>12, <1>13 DEF Step

LEMMA StepsAreOfCalls ==
  ASSUME Step
  PROVE  pc # "idle"
  BY StepAt

\* Creating a file changes neither its sectors nor its length.
LEMMA CreatingSteps ==
  ASSUME TypeOK, Step, NEW o \in {"create", "finish"}, Creating(o)
  PROVE  /\ pc' = "idle" \/ Creating(o)'
         /\ file'.cluster = file.cluster /\ file'.length = file.length
         /\ UNCHANGED <<ftl, boot>>
         /\ ret' # "NO_SECTOR_SPACE"
  <1> USE DEF flash, ftl, Goto, Return, Creating
  <1>a. file \in File /\ job \in Job
    BY DEF TypeOK
  <1>1. CASE CreateExists
    BY <1>1 DEF CreateExists, AfterCreate
  <1>2. CASE CreateBlock
    <2>1. file'.cluster = file.cluster /\ file'.length = file.length
      BY <1>2, <1>a DEF CreateBlock, File
    <2> QED BY <1>2, <2>1 DEF CreateBlock, AfterCreate
  <1>3. CASE GcIndexErase
    BY <1>3, <1>a DEF GcIndexErase, Job
  <1>4. CASE CreateNoSpace
    BY <1>4 DEF CreateNoSpace, AfterCreate
  <1>5. CASE GcIndexRewrite
    BY <1>5, <1>a DEF GcIndexRewrite, Job
  <1> QED BY <1>1, <1>2, <1>3, <1>4, <1>5, StepAt

\* Deleting a file only offers sectors for erasing.
LEMMA DeletingSteps ==
  ASSUME TypeOK, Step, pc = "discard", job.op = "delete"
  PROVE  /\ pc' = "idle" \/ (pc' = "discard" /\ job'.op = "delete")
         /\ UNCHANGED <<writable, boot>>
         /\ erasable \subseteq erasable'
  <1> USE DEF flash, ftl, Goto, Return
  <1>1. CASE DiscardSector
    BY <1>1 DEF DiscardSector
  <1>2. CASE OverrideBlock
    BY <1>2 DEF OverrideBlock
  <1>3. CASE DeleteDone
    BY <1>3 DEF DeleteDone
  <1> QED BY <1>1, <1>2, <1>3, StepAt

\* An append stays an append until it returns.
LEMMA AppendingSteps ==
  ASSUME TypeOK, Step, Appending \/ Storing
  PROVE  pc' = "idle" \/ Appending' \/ Storing'
  <1> USE DEF flash, ftl, Goto, Return, Appending, Storing
  <1>a. job \in Job /\ job.op = "append"
    BY DEF TypeOK
  <1>1. CASE Walk
    BY <1>1, <1>a DEF Walk, Job
  <1>2. CASE AppendToTail
    BY <1>2, <1>a DEF AppendToTail, Job
  <1>3. CASE Allocate
    BY <1>3, <1>a DEF Allocate, Take, Job
  <1>4. CASE GcDataErase
    BY <1>4, <1>a DEF GcDataErase, Job
  <1>5. CASE GcDataDone
    BY <1>5, <1>a DEF GcDataDone, Take, Job
  <1>6. CASE IndexCluster
    BY <1>6, <1>a DEF IndexCluster, WriteRest, Job
  <1>7. CASE IndexLink
    BY <1>7, <1>a DEF IndexLink, WriteRest, Job
  <1>8. CASE MarkSector
    BY <1>8, <1>a DEF MarkSector
  <1>9. CASE WriteData
    BY <1>9, <1>a DEF WriteData, WriteRest, Job
  <1>10. CASE LinkSector
    BY <1>10, <1>a DEF LinkSector, WriteRest, Job
  <1> QED BY <1>1, <1>2, <1>3, <1>4, <1>5, <1>6, <1>7, <1>8, <1>9, <1>10, StepAt

\* No step gives a file sectors and takes its length.
LEMMA HasLengthSteps ==
  ASSUME TypeOK, Step, HasLength(file)
  PROVE  HasLength(file')
  <1> USE DEF flash, ftl, HasLength
  <1>a. /\ file \in File /\ job.len \in Nat
        /\ Empty \notin Nat /\ Garbled \notin Nat /\ Empty # Garbled /\ Empty \notin Sectors
    BY SectorFacts DEF TypeOK, Job
  <1>1. CASE UNCHANGED file
    BY <1>1
  <1>2. CASE CreateBlock
    <2>1. file'.cluster = file.cluster /\ file'.length = file.length
      BY <1>2, <1>a DEF CreateBlock, File
    <2> QED BY <2>1
  <1>3. CASE DiscardSector
    <2>1. file.cluster # Empty /\ file'.length = file.length
      BY <1>3, <1>a DEF DiscardSector, File
    <2> QED BY <2>1
  <1>4. CASE OverrideBlock
    <2>1. file'.cluster = Empty
      BY <1>4, <1>a DEF OverrideBlock, File
    <2> QED BY <2>1
  <1>5. CASE DeleteDone
    <2>1. file'.cluster = Empty
      BY <1>5 DEF DeleteDone, NoFile
    <2> QED BY <2>1
  <1>6. CASE AppendToTail
    <2> DEFINE offset == file.length % DataArea
               size   == Smaller(job.len, DataArea - offset)
    <2>1. file.length \in Nat /\ size \in Int
      BY <1>6, <1>a, SizeAssumption DEF AppendToTail, Smaller
    <2>2. file' = [file EXCEPT !.length = @ + size]
      BY <1>6 DEF AppendToTail
    <2> HIDE DEF size
    <2>3. file'.length = file.length + size
      BY <1>a, <2>2 DEF File
    <2>4. file'.length \in Int
      BY <2>1, <2>3
    <2> QED BY <2>4, ValueAssumption
  <1>7. CASE IndexCluster
    <2>1. file'.length = job.len
      BY <1>7, <1>a DEF IndexCluster, File
    <2> QED BY <1>a, <2>1
  <1>8. CASE IndexLink
    <2>1. file.length # Empty /\ file'.length = AddLength(file.length, job.len)
      BY <1>8, <1>a DEF IndexLink, File
    <2>2. AddLength(file.length, job.len) # Empty
      BY <1>a, <2>1 DEF AddLength, File, Words
    <2> QED BY <2>1, <2>2
  <1>9. \/ UNCHANGED file \/ CreateBlock \/ DiscardSector \/ OverrideBlock \/ DeleteDone
        \/ AppendToTail \/ IndexCluster \/ IndexLink
    <2>1. CreateExists \/ GcIndexErase \/ GcIndexRewrite \/ CreateNoSpace => UNCHANGED file
      BY DEF CreateExists, GcIndexErase, GcIndexRewrite, CreateNoSpace
    <2>2. Walk \/ Allocate \/ GcDataErase \/ GcDataDone => UNCHANGED file
      BY DEF Walk, Allocate, GcDataErase, GcDataDone
    <2>3. IndexLength \/ MarkSector \/ WriteData \/ LinkSector => UNCHANGED file
      BY DEF IndexLength, MarkSector, WriteData, LinkSector
    <2>4. FormatIndex \/ FormatData => UNCHANGED file
      BY DEF FormatIndex, FormatData
    <2> QED BY <2>1, <2>2, <2>3, <2>4 DEF Step
  <1> QED BY <1>1, <1>2, <1>3, <1>4, <1>5, <1>6, <1>7, <1>8, <1>9

\* The address an append writes its link to is that of a sector, and no other step
\* writes outside of the file system.
LEMMA LinkSteps ==
  ASSUME TypeOK, Step, LinkInv
  PROVE  LinkInv' /\ UNCHANGED boot
  <1> USE DEF flash, ftl, Goto, Return, Appending, LinkInv
  <1>a. file \in File /\ job \in Job /\ 0 \notin Sectors \cup Words
    BY SectorFacts, ValueAssumption DEF TypeOK, Words
  <1>1. CASE Walk
    <2>1. job.tail \in Sectors /\ next[job.tail] \in Sectors \cup Words
      BY <1>1 DEF Walk, TypeOK
    <2>2. job'.tail # 0
      BY <1>1, <1>a, <2>1 DEF Walk, Job
    <2> QED BY <1>1, <2>2 DEF Walk
  <1>2. CASE AppendToTail
    <2>1. job.tail # 0 /\ (job'.tail = job.tail \/ pc' = "idle")
      BY <1>2, <1>a DEF AppendToTail, Job
    <2> QED BY <1>2, <2>1 DEF AppendToTail
  <1>3. CASE Allocate
    BY <1>3, <1>a DEF Allocate, Take, Job
  <1>4. CASE GcDataErase
    BY <1>4, <1>a DEF GcDataErase, Job
  <1>5. CASE GcDataDone
    BY <1>5, <1>a DEF GcDataDone, Take, Job
  <1>6. CASE IndexCluster
    BY <1>6, <1>a DEF IndexCluster, WriteRest
  <1>7. CASE IndexLink
    BY <1>7 DEF IndexLink, WriteRest
  <1>8. CASE pc \in {"create", "gc_rewrite"}
    BY <1>8, StepAt, <1>a
    DEF CreateExists, CreateBlock, GcIndexErase, CreateNoSpace, GcIndexRewrite, AfterCreate
  <1>9. CASE pc = "discard"
    BY <1>9, StepAt DEF DiscardSector, OverrideBlock, DeleteDone
  <1>10. CASE pc \in {"index_length", "mark", "data", "link"}
    BY <1>10, StepAt DEF IndexLength, MarkSector, WriteData, LinkSector, WriteRest
  <1>11. CASE pc = "format"
    BY <1>11, StepAt DEF FormatIndex, FormatData
  <1> QED BY <1>1, <1>2, <1>3, <1>4, <1>5, <1>6, <1>7, <1>8, <1>9, <1>10, <1>11, StepAt

\* The File of an upload after a step of its call.
LEMMA UploadSteps ==
  ASSUME TransferInv, Step, UNCHANGED <<fixedVars, udpVars>>
  PROVE  RequestInv' /\ UploadInv' /\ LengthInv' /\ LinkInv' /\ UNCHANGED boot
  <1> USE DEF fixedVars, udpVars
  <1>a. TypeOK /\ RequestInv /\ UploadInv /\ LengthInv /\ LinkInv
    BY DEF TransferInv, UdpTypeOK
  <1>b. pc # "idle"
    BY StepsAreOfCalls
  <1>1. RequestInv'
    BY <1>a, <1>b DEF RequestInv
  <1>2. UploadInv'
    <2>1. CASE req.kind = "upinfo" /\ req.stage = "create"
      <3>1. pc' = "idle" \/ (pc' = "discard" /\ job'.op = "delete")
        BY <1>a, <1>b, <2>1, DeletingSteps DEF UploadInv
      <3> QED BY <2>1, <3>1 DEF UploadInv
    <2>2. CASE req.kind = "upinfo" /\ req.stage = "created"
      <3>1. Creating("create") /\ file.cluster = Empty
        BY <1>a, <1>b, <2>2 DEF UploadInv
      <3>2. (pc' = "idle" \/ Creating("create")') /\ file'.cluster = Empty
        BY <1>a, <3>1, CreatingSteps
      <3> QED BY <2>2, <3>2 DEF UploadInv
    <2>3. CASE req.kind = "updata"
      <3>1. CASE Appending \/ Storing
        BY <1>a, <2>3, <3>1, AppendingSteps DEF UploadInv
      <3>2. CASE Creating("finish")
        BY <1>a, <2>3, <3>2, CreatingSteps DEF UploadInv
      <3> QED BY <1>a, <1>b, <2>3, <3>1, <3>2 DEF UploadInv
    <2> QED BY <1>a, <1>b, <2>1, <2>2, <2>3 DEF UploadInv
  <1>3. LengthInv'
    BY <1>a, HasLengthSteps DEF LengthInv
  <1> QED BY <1>a, <1>1, <1>2, <1>3, LinkSteps

-----------------------------------------------------------------------------
(***************************************************************************)
(* The requests, by what they do to an upload.                             *)
(***************************************************************************)

\* Nothing: no call is made, and no upload begins.
Aside ==
  /\ req = NoRequest /\ req' = NoRequest
  /\ op' = "APPEND" => op = "APPEND" /\ UNCHANGED totalSize
  /\ UNCHANGED <<others, file, fx>>
  /\ \/ UNCHANGED boot
     \/ \E n \in Names, offset \in 0..Section : \E right, crcOk :
          ConfigUpdate(n, offset, right, crcOk)

\* It is over, or there was none.
Elsewhere ==
  /\ req.kind \in {"none", "rename", "delete", "format"}
  /\ req'.kind \in {"none", "rename", "delete", "format"}
  /\ op' # "APPEND"
  /\ pc' = "idle" \/ (req'.kind # "none" /\ pc' \in {"create", "discard", "format"})
  /\ UNCHANGED <<fx, boot>>

\* The requests that may begin an upload, go on with it, or write a record.
Begins  == \E n \in Names, size \in Totals, method \in {"NORMAL", "OVERRIDE", "APPEND"},
             info \in StateWords : UpInfo(n, size, method, info)
GoesOn  == \E len \in WriteLens : UpData(len)
Records == \E n \in Names : ConfigWrite(n)

LEMMA AskCases ==
  ASSUME UdpTypeOK, RequestInv, "one_transfer" \in Client, Ask
  PROVE  Aside \/ Elsewhere \/ Begins \/ GoesOn \/ Records
  <1> USE DEF Untouched, fixedVars, vars, others, flash, ftl, Answer, MaySend
  <1>a. NoRequest.kind = "none"
    BY DEF NoRequest
  <1>1. CASE Connect
    BY <1>1 DEF Connect, Aside
  <1>2. ASSUME NEW right, Disconnect(right) PROVE Aside
    BY <1>2 DEF Disconnect, Aside
  <1>3. ASSUME NEW right, NEW ok, Inquire(right, ok) PROVE Aside
    BY <1>3 DEF Inquire, Aside
  <1>4. ASSUME NEW right, NEW size, NEW crcOk, UpInfoRefused(right, size, crcOk) PROVE Aside
    BY <1>4 DEF UpInfoRefused, Aside
  <1>5. ASSUME NEW right, NEW inRange, NEW crcOk, UpDataRefused(right, inRange, crcOk) PROVE Aside
    BY <1>5 DEF UpDataRefused, Aside
  <1>6. ASSUME NEW n, NEW right, NEW crcOk, DownInfo(n, right, crcOk) PROVE Elsewhere
    BY <1>6, <1>a DEF DownInfo, OpenCall, Elsewhere
  <1>7. ASSUME NEW n, NEW right, NEW crcOk, Delete(n, right, crcOk) PROVE Elsewhere
    <2>1. op = "INIT" /\ op' = op /\ pc = "idle" /\ pc' = pc /\ UNCHANGED <<fx, boot>>
      BY <1>7 DEF Delete, OpenCall
    <2>2. req'.kind \in {"none", "delete"} /\ req.kind = "none"
      BY <1>7, <1>a DEF Delete, NoRequest
    <2> QED BY <2>1, <2>2 DEF Elsewhere
  <1>8. ASSUME NEW n, NEW m, NEW right, NEW crcOk, Rename(n, m, right, crcOk) PROVE Elsewhere
    <2>1. op = "INIT" /\ op' = op /\ pc = "idle" /\ pc' = pc /\ UNCHANGED <<fx, boot>>
      BY <1>8 DEF Rename, OpenCall
    <2>2. req'.kind \in {"none", "rename"} /\ req.kind = "none"
      BY <1>8, <1>a DEF Rename, NoRequest
    <2> QED BY <2>1, <2>2 DEF Elsewhere
  <1>9. ASSUME NEW n \in Names, NEW offset \in 0..Section, NEW right, NEW crcOk,
               ConfigUpdate(n, offset, right, crcOk)
        PROVE  Aside
    <2>1. /\ req = NoRequest /\ req' = NoRequest /\ UNCHANGED <<others, file, fx>>
          /\ UNCHANGED <<op, totalSize>>
      BY <1>9 DEF ConfigUpdate
    <2> QED BY <1>9, <2>1 DEF Aside
  <1>10. ASSUME NEW last, DownData(last) PROVE Aside
    BY <1>10 DEF DownData, Aside
  <1>11. ASSUME NEW n, NEW ok, Freeze(n, ok) PROVE Elsewhere
    <2>1. op = "INIT" /\ op' \in {op, "READ"} /\ pc = "idle" /\ pc' = pc /\ UNCHANGED <<fx, boot>>
      BY <1>11 DEF Freeze, OpenCall
    <2>2. req'.kind = "none" /\ req.kind = "none"
      BY <1>11, <1>a DEF Freeze
    <2> QED BY <2>1, <2>2 DEF Elsewhere
  <1>12. CASE Format
    <2>1. op = "INIT" /\ op' = op /\ pc' = "format" /\ UNCHANGED <<fx, boot>>
      BY <1>12 DEF Format, FormatCall, Goto
    <2>2. req'.kind = "format" /\ req.kind = "none"
      BY <1>12, <1>a DEF Format, NoRequest
    <2> QED BY <2>1, <2>2 DEF Elsewhere
  <1>13. ASSUME NEW e, Defer(e) PROVE Aside
    BY <1>13 DEF Defer, Aside
  <1>14. ASSUME NEW fbs, NEW secs, FormatPart(fbs, secs) PROVE Elsewhere
    <2>1. op = "INIT" /\ op' = op /\ pc = "idle" /\ pc' = pc /\ UNCHANGED <<fx, boot>>
      BY <1>14 DEF FormatPart, EraseStretch
    <2>2. req'.kind = "none" /\ req.kind = "none"
      BY <1>14, <1>a DEF FormatPart
    <2> QED BY <2>1, <2>2 DEF Elsewhere
  <1>15. ASSUME NEW right, NEW charged, FormatRefused(right, charged) PROVE Aside
    BY <1>15 DEF FormatRefused, Aside
  <1> QED
    BY <1>1, <1>2, <1>3, <1>4, <1>5, <1>6, <1>7, <1>8, <1>9, <1>10, <1>11, <1>12, <1>13, <1>14, <1>15
    DEF Ask, onRebootRequest, onNetUpdateRequest, onPowerModeRequest, sensorRead, deviceInfoRead, displayBufferRead, onFsStatusRequest,
        onFsListRequest, onConfigReadRequest, Begins, GoesOn, Records

LEMMA ServeCases ==
  ASSUME UdpTypeOK, RequestInv, Serve
  PROVE  \/ Elsewhere
         \/ UpInfoDelete \/ UpInfoCreate \/ UpDataWritten \/ UpDataFinished
         \/ Returned("upinfo", "created") /\ CallAnswered
         \/ ConfigStep \/ ConfigAnswered
  <1> USE DEF Untouched, fixedVars, vars, flash, ftl, Returned
  <1>a. NoRequest.kind = "none" /\ req \in Request
    BY DEF NoRequest, UdpTypeOK
  <1>1. CASE RenameFile
    <2>1. req.kind = "rename" /\ req'.kind = "rename"
      BY <1>1, <1>a DEF RenameFile, Await, Request
    <2>2. op' # "APPEND"
      BY <1>1, <2>1 DEF RenameFile, RequestInv
    <2>3. pc' \in {"idle", "create"} /\ UNCHANGED <<fx, boot>>
      BY <1>1 DEF RenameFile, RenameCall, Goto, Reject
    <2> QED BY <2>1, <2>2, <2>3 DEF Elsewhere
  <1>2. CASE DeleteFile
    <2>1. req.kind = "delete" /\ req'.kind = "delete"
      BY <1>2, <1>a DEF DeleteFile, Await, Request
    <2>2. op' # "APPEND"
      BY <1>2, <2>1 DEF DeleteFile, RequestInv
    <2>3. pc' = "discard" /\ UNCHANGED <<fx, boot>>
      BY <1>2 DEF DeleteFile, DeleteCall, Goto
    <2> QED BY <2>1, <2>2, <2>3 DEF Elsewhere
  <1>3. CASE CallAnswered /\ req.kind # "upinfo"
    <2>1. req.kind \in {"rename", "delete", "format"} /\ pc = "idle"
      BY <1>3 DEF CallAnswered
    <2>2. op' # "APPEND"
      BY <1>3, <2>1 DEF CallAnswered, RequestInv
    <2>3. req'.kind = "none" /\ UNCHANGED <<fx, boot, pc>>
      BY <1>3, <1>a DEF CallAnswered, Answer
    <2> QED BY <2>1, <2>2, <2>3 DEF Elsewhere
  <1>4. CASE CallAnswered /\ req.kind = "upinfo"
    BY <1>4 DEF CallAnswered
  <1> QED BY <1>1, <1>2, <1>3, <1>4 DEF Serve

LEMMA UdpCases ==
  ASSUME UdpTypeOK, RequestInv, "one_transfer" \in Client, [UdpNext]_allVars
  PROVE  \/ Aside \/ Elsewhere \/ Begins \/ GoesOn \/ Records
         \/ UpInfoDelete \/ UpInfoCreate \/ UpDataWritten \/ UpDataFinished
         \/ Returned("upinfo", "created") /\ CallAnswered
         \/ ConfigStep \/ ConfigAnswered \/ CallStep \/ Restart
         \/ UNCHANGED allVars
  <1> USE DEF Untouched, fixedVars, vars, others, flash, ftl
  <1>1. Tick => Aside
    BY DEF Tick, Aside
  <1>2. Relink => Aside
    BY DEF Relink, Aside
  <1>3. TimerFires => Aside
    BY DEF TimerFires, Aside
  <1> QED BY <1>1, <1>2, <1>3, AskCases, ServeCases DEF UdpNext

-----------------------------------------------------------------------------
(***************************************************************************)
(* The invariant holds.                                                    *)
(***************************************************************************)

\* A file opened under a name that may be appended to.
LEMMA OpenedHasLength ==
  ASSUME TypeOK, "no_resume" \in Client, NEW n, MayResume(n), OpenCall(n)
  PROVE  HasLength(file') /\ UNCHANGED <<boot, pc>> /\ pc = "idle"
  <1>1. PICK k \in Named(n) :
          file' = [name |-> n, block |-> k, cluster |-> fb[k].cluster, length |-> fb[k].length]
    BY DEF OpenCall, IsFirst
  <1>2. fb[k].length # Empty \/ fb[k].cluster = Empty
    BY DEF MayResume
  <1> QED BY <1>1, <1>2 DEF HasLength, OpenCall, flash

LEMMA CreatedHasNothing ==
  ASSUME NEW n, NEW info, CreateWith(n, info)
  PROVE  /\ file'.cluster = Empty /\ UNCHANGED boot
         /\ pc' = "create" /\ job'.op = "create"
  BY DEF CreateWith, NoFile, NoJob, Goto, flash

\* write_file for a file with a length looks for the tail of a file with sectors.
LEMMA WriteCallLinks ==
  ASSUME TypeOK, NEW len, NEW method \in {"OVERRIDE", "APPEND"}, WriteCall(len, method),
         LinkInv, method = "APPEND" => HasLength(file)
  PROVE  /\ LinkInv' /\ UNCHANGED <<boot, file>>
         /\ method = "APPEND" => pc' = "idle" \/ Appending'
  <1> USE DEF LinkInv, Appending, WriteCall, Reject, Goto, flash
  <1>a. file.cluster \in Sectors \cup Words /\ 0 \notin Sectors \cup Words
    BY SectorFacts, ValueAssumption DEF TypeOK, File, Words
  <1>1. CASE pc' = "idle"
    BY <1>1
  <1>2. CASE pc' # "idle"
    <2> DEFINE append == file.cluster # Empty /\ file.length # Empty
    <2>1. /\ job' = [NoJob EXCEPT
                        !.op   = IF method = "OVERRIDE" THEN "override" ELSE "append",
                        !.len  = len,
                        !.info = fb[file.block].info,
                        !.tail = IF method = "APPEND" /\ append THEN file.cluster ELSE 0]
          /\ pc' = IF method = "OVERRIDE" /\ file.cluster # Empty THEN "discard"
                   ELSE IF method = "APPEND" /\ append THEN "walk" ELSE "alloc"
          /\ UNCHANGED <<boot, file>>
      BY <1>2
    <2>2. /\ job'.op = IF method = "OVERRIDE" THEN "override" ELSE "append"
          /\ job'.tail = IF method = "APPEND" /\ append THEN file.cluster ELSE 0
      BY <2>1 DEF NoJob
    <2>3. method = "APPEND" /\ ~append => file.cluster = Empty
      BY DEF HasLength
    <2> HIDE DEF append, WriteCall
    <2> QED BY <1>a, <2>1, <2>2, <2>3
  <1> QED BY <1>1, <1>2

LEMMA FinishCallKeeps ==
  ASSUME FinishCall
  PROVE  /\ pc' = "idle" \/ Creating("finish")'
         /\ UNCHANGED <<boot, file, ftl>>
         /\ ret' # "NO_SECTOR_SPACE"
  BY DEF FinishCall, Reject, Return, Goto, Creating, NoJob, flash

LEMMA TransferInit == UdpInit => TransferInv /\ StaysInPartition
  <1> SUFFICES ASSUME UdpInit PROVE TransferInv /\ StaysInPartition
    OBVIOUS
  <1>1. UdpTypeOK
    BY UdpTypeInit
  <1>2. /\ pc = "idle" /\ op = "INIT" /\ fx.stage = "none" /\ req.kind = "none"
        /\ boot = "intact"
    BY DEF UdpInit, FixedInit, Init, NoRecord, NoRequest
  <1> QED
    BY <1>1, <1>2
    DEF TransferInv, RequestInv, UploadInv, LengthInv, LinkInv, Appending, StaysInPartition

\* Only fixed_file_update writes where no link is, and it is no part of a transfer.
BootKept == UNCHANGED boot \/ Aside

LEMMA TransferNext ==
  ASSUME TransfersAreAlone, TransferInv, [UdpNext]_allVars
  PROVE  TransferInv' /\ BootKept
  <1> USE DEF TransfersAreAlone, fixedVars, udpVars, Untouched, vars, flash
  <1>a. /\ TypeOK /\ UdpTypeOK /\ RequestInv /\ UploadInv /\ LengthInv /\ LinkInv
        /\ UdpTypeOK'
    BY UdpTypeNext DEF TransferInv, UdpTypeOK
  <1>b. NoRequest.kind = "none" /\ req \in Request
    BY <1>a DEF NoRequest, UdpTypeOK
  <1> SUFFICES RequestInv' /\ UploadInv' /\ LengthInv' /\ LinkInv' /\ BootKept
    BY <1>a DEF TransferInv
  <1>c. ASSUME pc' \notin {"walk", "partial", "alloc", "gc_data", "index"} PROVE LinkInv'
    BY <1>c DEF LinkInv, Appending
  <1>d. UNCHANGED boot => BootKept
    BY DEF BootKept
  <1>1. CASE Aside
    <2>1. /\ req = NoRequest /\ req' = NoRequest /\ UNCHANGED <<pc, file, fx>>
          /\ op' = "APPEND" => op = "APPEND"
      BY <1>1 DEF Aside, others
    <2>2. pc = "idle" /\ fx.stage = "none"
      BY <1>a, <1>b, <2>1 DEF RequestInv
    <2> QED BY <1>1, <1>a, <1>b, <1>c, <2>1, <2>2 DEF RequestInv, UploadInv, LengthInv, BootKept
  <1>2. CASE Elsewhere
    <2>1. fx.stage = "none" /\ fx' = fx /\ op' # "APPEND"
      BY <1>2, <1>a DEF Elsewhere, RequestInv
    <2> QED BY <1>2, <1>c, <1>d, <2>1 DEF Elsewhere, RequestInv, UploadInv, LengthInv
  <1>3. CASE Begins
    <2>1. PICK n \in Names, size \in Totals, method \in {"NORMAL", "OVERRIDE", "APPEND"},
               info \in StateWords : UpInfo(n, size, method, info)
      BY <1>3 DEF Begins
    <2>2. op' = "APPEND" /\ fx' = fx /\ fx.stage = "none"
      BY <1>a, <1>b, <2>1 DEF UpInfo, MaySend, RequestInv
    <2>3. CASE OpenCall(n) /\ req'.kind = "upinfo" /\ req'.stage = "delete"
      <3>1. pc' = "idle" /\ UNCHANGED boot
        BY <2>3 DEF OpenCall
      <3> QED BY <1>c, <1>d, <2>2, <2>3, <3>1 DEF RequestInv, UploadInv, LengthInv
    <2>4. CASE OpenCall(n) /\ MayResume(n) /\ Answer("SUCCESS")
      <3>1. HasLength(file') /\ pc' = "idle" /\ UNCHANGED boot
        BY <1>a, <2>4, OpenedHasLength
      <3> QED BY <1>b, <1>c, <1>d, <2>2, <2>4, <3>1 DEF RequestInv, UploadInv, LengthInv, Answer
    <2>5. CASE /\ file' = [NoFile EXCEPT !.name = n] /\ Answer("FILE_NOT_EXIST")
               /\ UNCHANGED <<flash, pc>>
      <3>1. HasLength(file') /\ pc' = "idle"
        BY <2>1, <2>5 DEF HasLength, NoFile, UpInfo, MaySend
      <3> QED BY <1>b, <1>c, <1>d, <2>2, <2>5, <3>1 DEF RequestInv, UploadInv, LengthInv, Answer
    <2>6. CASE CreateWith(n, info) /\ req'.kind = "upinfo" /\ req'.stage = "created"
      <3>1. file'.cluster = Empty /\ UNCHANGED boot /\ Creating("create")' /\ pc' = "create"
        BY <2>6, CreatedHasNothing DEF Creating
      <3> QED BY <1>c, <1>d, <2>2, <2>6, <3>1 DEF RequestInv, UploadInv, LengthInv
    <2>7. \A st : req' = [[NoRequest EXCEPT !.kind = "upinfo", !.name = n, !.info = info] EXCEPT !.stage = st]
                    => req'.kind = "upinfo" /\ req'.stage = st
      BY DEF NoRequest
    <2> QED BY <2>1, <2>3, <2>4, <2>5, <2>6, <2>7 DEF UpInfo
  <1>4. CASE GoesOn
    <2>1. PICK len \in WriteLens : UpData(len)
      BY <1>4 DEF GoesOn
    <2>2. /\ op = "APPEND" /\ op' = op /\ fx' = fx /\ fx.stage = "none"
          /\ WriteCall(len, "APPEND")
      BY <1>a, <1>b, <2>1 DEF UpData, MaySend, RequestInv, UpDataRefusal
    <2>3. HasLength(file)
      BY <1>a, <1>b, <2>1, <2>2 DEF LengthInv, UpData, MaySend
    <2>4. LinkInv' /\ UNCHANGED <<boot, file>> /\ (pc' = "idle" \/ Appending')
      BY <1>a, <2>2, <2>3, WriteCallLinks
    <2>5. req'.kind = "updata"
      BY <2>1 DEF UpData, NoRequest
    <2> QED BY <1>d, <2>2, <2>3, <2>4, <2>5 DEF RequestInv, UploadInv, LengthInv
  <1>5. CASE Records
    <2>1. PICK n \in Names : ConfigWrite(n)
      BY <1>5 DEF Records
    <2>2. op = "INIT" /\ op' = op /\ req'.kind = "config" /\ MayResume(n) /\ FixedOpen(n)
      BY <2>1 DEF ConfigWrite, MaySend, NoRequest
    <2>3. CASE OpenCall(n)
      <3>1. HasLength(file') /\ pc' = "idle" /\ UNCHANGED boot
        BY <1>a, <2>2, <2>3, OpenedHasLength
      <3> QED BY <1>c, <1>d, <2>2, <3>1 DEF RequestInv, UploadInv, LengthInv
    <2>4. CASE CreateCall(n, FALSE)
      <3>1. file'.cluster = Empty /\ UNCHANGED boot /\ pc' = "create"
        BY <2>4, CreatedHasNothing DEF CreateCall
      <3> QED BY <1>c, <1>d, <2>2, <3>1 DEF RequestInv, UploadInv, LengthInv, HasLength
    <2> QED BY <2>2, <2>3, <2>4 DEF FixedOpen
  <1>6. CASE UpInfoDelete
    <2>1. /\ op' = op /\ fx' = fx /\ req.kind = "upinfo" /\ req'.kind = "upinfo"
          /\ req'.stage = "create"
      BY <1>6, <1>b DEF UpInfoDelete, Returned, Await, Request
    <2>2. pc' = "discard" /\ job'.op = "delete" /\ UNCHANGED boot
      BY <1>6 DEF UpInfoDelete, DeleteCall, Goto, NoJob
    <2> QED BY <1>a, <1>c, <1>d, <2>1, <2>2 DEF RequestInv, UploadInv, LengthInv
  <1>7. CASE UpInfoCreate
    <2>1. /\ op' = op /\ fx' = fx /\ req.kind = "upinfo" /\ req'.kind = "upinfo"
          /\ req'.stage = "created"
      BY <1>7, <1>b DEF UpInfoCreate, Returned, Await, Request
    <2>2. file'.cluster = Empty /\ UNCHANGED boot /\ Creating("create")' /\ pc' = "create"
      BY <1>7, CreatedHasNothing DEF UpInfoCreate, Creating
    <2> QED BY <1>a, <1>c, <1>d, <2>1, <2>2 DEF RequestInv, UploadInv, LengthInv
  <1>8. CASE UpDataWritten
    <2>1. op' = op /\ fx' = fx /\ req.kind = "updata" /\ pc = "idle" /\ fx.stage = "none"
      BY <1>8, <1>a DEF UpDataWritten, Returned, RequestInv
    <2>2. op = "APPEND" /\ HasLength(file)
      BY <1>a, <2>1 DEF RequestInv, LengthInv
    <2>3. CASE FinishCall /\ Await("finished")
      <3>1. (pc' = "idle" \/ Creating("finish")') /\ UNCHANGED <<boot, file>>
        BY <2>3, FinishCallKeeps
      <3>2. req'.kind = "updata"
        BY <1>b, <2>1, <2>3 DEF Await, Request
      <3> QED BY <1>c, <1>d, <2>1, <2>2, <3>1, <3>2 DEF RequestInv, UploadInv, LengthInv, Creating
    <2>4. CASE req' = NoRequest /\ UNCHANGED vars
      BY <1>b, <1>c, <1>d, <2>1, <2>2, <2>4 DEF RequestInv, UploadInv, LengthInv
    <2> QED BY <1>8, <2>3, <2>4 DEF UpDataWritten, Answer
  <1>9. CASE UpDataFinished
    <2>1. op' = "INIT" /\ req' = NoRequest /\ fx.stage = "none" /\ UNCHANGED <<vars, fx>> /\ pc = "idle"
      BY <1>9, <1>a DEF UpDataFinished, Returned, Answer, RequestInv
    <2> QED BY <1>b, <1>c, <1>d, <2>1 DEF RequestInv, UploadInv, LengthInv
  <1>10. CASE Returned("upinfo", "created") /\ CallAnswered
    <2>1. /\ op' = op /\ op = "APPEND" /\ req' = NoRequest /\ fx.stage = "none"
          /\ UNCHANGED <<vars, fx>> /\ pc = "idle" /\ file.cluster = Empty
      BY <1>10, <1>a DEF CallAnswered, Returned, Answer, RequestInv, UploadInv
    <2> QED BY <1>b, <1>c, <1>d, <2>1 DEF RequestInv, UploadInv, LengthInv, HasLength
  <1>11. CASE ConfigStep
    <2>1. fx.stage # "none" /\ req.kind = "config" /\ req' = req /\ op' = op /\ op = "INIT"
      BY <1>11, <1>a
      DEF ConfigStep, FixedStep, FixedDelete, FixedCreate, FixedOverride, FixedAppend,
          FixedFinish, Opened, At, RequestInv
    <2>2. fx'.stage \notin {"none", "opened"}
      BY <1>11, <1>a
      DEF ConfigStep, FixedStep, FixedDelete, FixedCreate, FixedOverride, FixedAppend,
          FixedFinish, Stage, UdpTypeOK, Record
    <2>3. LinkInv' /\ UNCHANGED boot
      <3>1. CASE FixedDelete
        BY <1>c, <3>1 DEF FixedDelete, DeleteCall, Goto
      <3>2. CASE FixedCreate
        BY <1>c, <3>2, CreatedHasNothing DEF FixedCreate, CreateCall
      <3>3. CASE FixedOverride
        BY <1>a, <3>3, WriteCallLinks DEF FixedOverride
      <3>4. CASE FixedAppend
        BY <1>a, <3>4, WriteCallLinks DEF FixedAppend, Opened, At, LengthInv
      <3>5. CASE FixedFinish
        BY <1>c, <3>5, FinishCallKeeps DEF FixedFinish, Creating
      <3> QED BY <1>11, <3>1, <3>2, <3>3, <3>4, <3>5 DEF ConfigStep, FixedStep
    <2> QED BY <1>d, <2>1, <2>2, <2>3 DEF RequestInv, UploadInv, LengthInv
  <1>12. CASE ConfigAnswered
    <2>1. /\ fx.stage # "none" /\ pc = "idle" /\ fx' = NoRecord /\ req' = NoRequest
          /\ UNCHANGED <<boot, pc, op>>
      BY <1>12 DEF ConfigAnswered, FixedReturn, At, Answer
    <2>2. op = "INIT" /\ fx'.stage = "none"
      BY <1>a, <2>1 DEF RequestInv, NoRecord
    <2> QED BY <1>b, <1>c, <1>d, <2>1, <2>2 DEF RequestInv, UploadInv, LengthInv
  <1>13. CASE CallStep
    BY <1>13, <1>d, UploadSteps DEF CallStep
  <1>14. CASE Restart
    <2>1. /\ pc' = "idle" /\ UNCHANGED boot /\ fx' = NoRecord /\ op' = "INIT" /\ req' = NoRequest
          /\ fx'.stage = "none"
      BY <1>14 DEF Restart, Crash, Return, NoRecord
    <2> QED BY <1>b, <1>c, <1>d, <2>1 DEF RequestInv, UploadInv, LengthInv
  <1>15. CASE UNCHANGED allVars
    BY <1>a, <1>15
    DEF allVars, RequestInv, UploadInv, LengthInv, LinkInv, Appending, Storing, Creating,
        BootKept
  <1> QED
    BY <1>a, <1>1, <1>2, <1>3, <1>4, <1>5, <1>6, <1>7, <1>8, <1>9, <1>10, <1>11, <1>12,
       <1>13, <1>14, <1>15, UdpCases

-----------------------------------------------------------------------------
(***************************************************************************)
(* Nothing is written outside of the file system.                          *)
(***************************************************************************)

\* fixed_file_update stays in the last record of a file that has one, in its first
\* sector.
LEMMA UpdateStaysInRecord ==
  ASSUME TypeOK, "with_record" \in Client,
         NEW n \in Names, NEW offset \in 0..Section, NEW right, NEW crcOk,
         ConfigUpdate(n, offset, right, crcOk)
  PROVE  UNCHANGED boot
  <1>1. ASSUME NEW k \in Named(n), offset < Section PROVE ~Astray(fb[k], offset)
    <2>1. HasRecord(fb[k].length) /\ fb[k].length <= DataArea
      BY <1>1 DEF ConfigUpdate, MayUpdate
    <2>2. fb[k].length \in Nat /\ fb[k].length >= Section
      BY <2>1 DEF HasRecord
    <2>3. fb[k].length - Section + offset < DataArea
      BY <1>1, <2>1, <2>2, RecordAssumption, SizeAssumption
    <2> QED BY <2>1, <2>3 DEF Astray
  <1> QED BY <1>1 DEF ConfigUpdate, IsFirst

\* When a transfer is left alone until it is over, only files that were finished are
\* appended to, and a record is updated only where there is one, the service never
\* writes outside of the file system: not in an upload, abandoned or not, not when
\* it adds a record, and wherever the power fails (spifs.c:257-268).
THEOREM ServiceStaysInPartition ==
  ASSUME TransfersAreAlone, "with_record" \in Client
  PROVE  UdpSpec => []StaysInPartition
  <1>1. TransferInv /\ StaysInPartition /\ [UdpNext]_allVars => TransferInv' /\ StaysInPartition'
    <2> SUFFICES ASSUME TransferInv, StaysInPartition, [UdpNext]_allVars
                 PROVE  TransferInv' /\ StaysInPartition'
      OBVIOUS
    <2>1. TransferInv' /\ (UNCHANGED boot \/ Aside)
      BY TransferNext DEF BootKept
    <2>2. Aside => UNCHANGED boot
      BY UpdateStaysInRecord DEF Aside, TransferInv, UdpTypeOK
    <2> QED BY <2>1, <2>2 DEF StaysInPartition
  <1> QED BY <1>1, TransferInit, PTL DEF UdpSpec

-----------------------------------------------------------------------------
(***************************************************************************)
(* Counting sectors.                                                       *)
(***************************************************************************)
LEMMA QuotientUnique ==
  ASSUME NEW D \in Nat \ {0}, NEW q \in Int, NEW r \in 0 .. D - 1
  PROVE  (D * q + r) \div D = q
  <1> DEFINE n == D * q + r
             p == n \div D
             m == n % D
  <1>1. n = D * p + m /\ m \in 0 .. D - 1 /\ p \in Int
    <2>1. n \in Int
      OBVIOUS
    <2> QED BY <2>1, SMT
  <1>2. D * (q - p) = m - r
    BY <1>1, SMT
  <1> HIDE DEF m, p
  <1>3. CASE q - p >= 1
    <2>1. D * (q - p) >= D
      BY <1>1, <1>3, SMT
    <2> QED BY <1>1, <1>2, <2>1, SMT
  <1>4. CASE q - p <= -1
    <2>1. D * (q - p) <= -D
      BY <1>1, <1>4, SMT
    <2> QED BY <1>1, <1>2, <2>1, SMT
  <1>5. CASE q = p
    BY <1>1, <1>5 DEF p
  <1> QED BY <1>1, <1>3, <1>4, <1>5, SMT

\* So many sectors hold so many bytes.
LEMMA SectorsForFit ==
  ASSUME NEW c \in Nat, NEW size \in Nat, c * DataArea >= size
  PROVE  c >= SectorsFor(size)
  <1> DEFINE D == DataArea
             p == (size + D - 1) \div D
             m == (size + D - 1) % D
  <1>1. D \in Nat \ {0}
    BY SizeAssumption
  <1>2. size + D - 1 = D * p + m /\ m \in 0 .. D - 1 /\ p \in Int
    <2>1. size + D - 1 \in Int
      BY <1>1
    <2> QED BY <1>1, <2>1, SMT
  <1> HIDE DEF p, m
  <1>3. D * (p - c) <= D - 1
    BY <1>1, <1>2, SMT
  <1>4. ASSUME p - c >= 1 PROVE FALSE
    <2>1. D * (p - c) >= D
      BY <1>1, <1>2, <1>4, SMT
    <2> QED BY <1>1, <1>2, <1>3, <2>1, SMT
  <1>5. c >= p
    BY <1>2, <1>4
  <1> QED BY <1>5 DEF SectorsFor, p

LEMMA SectorsForMore ==
  ASSUME NEW a \in Nat, NEW b \in Nat, a <= b
  PROVE  SectorsFor(a) <= SectorsFor(b)
  <1> DEFINE c == SectorsFor(b)
             D == DataArea
  <1>1. D \in Nat \ {0} /\ c \in Nat
    BY SizeAssumption, SectorsForType
  <1>2. c * D >= b
    <2> DEFINE m == (b + D - 1) % D
    <2>1. b + D - 1 \in Int
      BY <1>1
    <2>2. b + D - 1 = D * c + m /\ m \in 0 .. D - 1
      BY <1>1, <2>1, SMT DEF SectorsFor
    <2> HIDE DEF c, m
    <2> QED BY <1>1, <2>2, SMT
  <1> HIDE DEF c
  <1>3. c * D >= a
    <2>1. c * D \in Int
      BY <1>1
    <2> QED BY <1>2, <2>1
  <1>4. c >= SectorsFor(a)
    BY <1>1, <1>3, SectorsForFit
  <1> QED BY <1>4 DEF c

LEMMA SectorsForNone == SectorsFor(0) = 0
  BY SizeAssumption, SMT DEF SectorsFor

\* Behind full sectors some more bytes take one sector.
LEMMA SectorsForAnother ==
  ASSUME NEW n \in Nat, n % DataArea = 0, NEW len \in 1 .. DataArea
  PROVE  SectorsFor(n + len) = SectorsFor(n) + 1
  <1> DEFINE D == DataArea
             q == n \div D
  <1>1. D \in Nat \ {0}
    BY SizeAssumption
  <1>2. n = D * q /\ q \in Int
    BY <1>1, SMT
  <1> HIDE DEF q
  <1>3. SectorsFor(n) = q
    <2>1. n + D - 1 = D * q + (D - 1) /\ D - 1 \in 0 .. D - 1
      BY <1>1, <1>2, SMT
    <2> QED BY <1>1, <1>2, <2>1, QuotientUnique DEF SectorsFor
  <1>4. SectorsFor(n + len) = q + 1
    <2>1. (n + len) + D - 1 = D * (q + 1) + (len - 1) /\ len - 1 \in 0 .. D - 1 /\ q + 1 \in Int
      BY <1>1, <1>2, SMT
    <2>2. (D * (q + 1) + (len - 1)) \div D = q + 1
      BY <1>1, <2>1, QuotientUnique
    <2>3. SectorsFor(n + len) = ((n + len) + D - 1) \div D
      BY DEF SectorsFor
    <2> QED BY <2>1, <2>2, <2>3
  <1> QED BY <1>3, <1>4

LEMMA FirstNOfNone ==
  ASSUME NEW S \in SUBSET Sectors
  PROVE  FirstN(S, 0) = {}
  <1> SUFFICES ASSUME NEW s \in FirstN(S, 0) PROVE FALSE
    OBVIOUS
  <1>1. {t \in S : t < s} \subseteq Sectors
    OBVIOUS
  <1>2. IsFiniteSet({t \in S : t < s})
    BY <1>1, SectorFacts, FS_Subset
  <1>3. Cardinality({t \in S : t < s}) \in Nat
    BY <1>2, FS_CardinalityType
  <1> QED BY <1>3 DEF FirstN

\* What one of them takes.
LEMMA OneLess ==
  ASSUME NEW S \in SUBSET Sectors, NEW F \in SUBSET Sectors, \A s, t \in F : s = t
  PROVE  /\ Cardinality(S) \in Nat /\ Cardinality(S \ F) \in Nat
         /\ Cardinality(S \ F) + 1 >= Cardinality(S)
  <1> DEFINE X == S \ F
             c == Cardinality(S)
             d == Cardinality(X)
  <1>1. IsFiniteSet(S) /\ IsFiniteSet(X)
    BY SectorFacts, FS_Subset
  <1>2. c \in Nat /\ d \in Nat
    BY <1>1, FS_CardinalityType
  <1>3. d = c \/ d = c - 1
    <2>1. CASE S \cap F = {}
      <3>1. X = S
        BY <2>1
      <3> QED BY <3>1
    <2>2. CASE S \cap F # {}
      <3>1. PICK s \in S \cap F : TRUE
        BY <2>2
      <3>2. X = S \ {s}
        BY <3>1
      <3>3. Cardinality(S \ {s}) = c - 1
        BY <1>1, <3>1, FS_RemoveElement
      <3> HIDE DEF X
      <3> QED BY <3>2, <3>3
    <2> QED BY <2>1, <2>2
  <1>4. c \in Nat /\ d \in Nat /\ d + 1 >= c
    <2> HIDE DEF c, d
    <2> QED BY <1>2, <1>3
  <1> QED BY <1>4

LEMMA NotLess ==
  ASSUME NEW S \in SUBSET Sectors, NEW T \in SUBSET Sectors, S \subseteq T
  PROVE  /\ Cardinality(S) \in Nat /\ Cardinality(T) \in Nat
         /\ Cardinality(S) <= Cardinality(T)
  <1>1. IsFiniteSet(S) /\ IsFiniteSet(T)
    BY SectorFacts, FS_Subset
  <1> QED BY <1>1, FS_Subset, FS_CardinalityType

-----------------------------------------------------------------------------
(***************************************************************************)
(* The invariant of the sectors an upload needs.  One that was accepted    *)
(* finds them in the FTL tables or in its file already.                    *)
(***************************************************************************)

\* No packet holds more than a sector does.
ShortPackets == \A len \in WriteLens : len <= DataArea

Free == writable \cup erasable

\* The bytes in the sectors of the file, and the sectors that are no longer free:
\* between taking a sector and indexing it, it is the job's.
Length == IF file.cluster # Empty /\ file.length \in Nat THEN file.length ELSE 0
Held   == SectorsFor(IF pc = "index" THEN Length + job.len ELSE Length)

FreeInv ==
  /\ req.kind = "upinfo" => Cardinality(Free) >= SectorsFor(totalSize)
  /\ op = "APPEND" /\ req.kind # "upinfo" =>
       Cardinality(Free) + Held >= SectorsFor(totalSize)

\* spifs_gc is called for one sector when there is none, and erases one.
Reclaims == IF job.count = 0 THEN writable = {} ELSE writable # {}

\* What is left of a packet fits in the next sector and in the size announced, and
\* new sectors are looked for behind full ones.
AppendInv ==
  req.kind = "updata" /\ Appending =>
    /\ job.len <= DataArea
    /\ (IF file.length \in Nat THEN file.length + job.len ELSE job.len) <= totalSize
    /\ pc \in {"alloc", "gc_data", "index"} =>
         Length % DataArea = 0 /\ (file.cluster # Empty => file.length \in Nat)
    /\ pc \in {"walk", "partial", "alloc"} => job.count = 0
    /\ pc = "gc_data" => job.len >= 1 /\ Reclaims
    /\ pc = "index" /\ job.len >= 1 => job.head \in Sectors

TodoInv == req.kind = "updata" /\ Storing => job.todo \cap writable = {}

FitInv == FreeInv /\ AppendInv /\ TodoInv /\ FitsOnceAccepted

LEMMA FitTypes ==
  ASSUME TypeOK
  PROVE  /\ Free \in SUBSET Sectors /\ Cardinality(Free) \in Nat
         /\ Length \in Nat /\ job.len \in Nat /\ Held \in Nat
         /\ SectorsFor(Length) \in Nat
  <1>1. Free \in SUBSET Sectors
    BY DEF Free, TypeOK
  <1>2. Cardinality(Free) \in Nat
    BY <1>1, NotLess
  <1>3. Length \in Nat /\ job.len \in Nat
    BY DEF Length, TypeOK, Job
  <1>4. Length + job.len \in Nat
    BY <1>3
  <1> HIDE DEF Length
  <1>5. Held \in Nat /\ SectorsFor(Length) \in Nat
    BY <1>3, <1>4, SectorsForType DEF Held
  <1> QED BY <1>1, <1>2, <1>3, <1>5

\* What find_empty_sector finds for a packet: one sector, if there is one.
LEMMA FoundForShort ==
  ASSUME TypeOK, NEW len \in 0 .. DataArea
  PROVE  LET found == FirstN(writable, SectorsFor(len)) IN
         /\ found \subseteq writable
         /\ len = 0 => found = {} /\ SectorsFor(len) = 0 /\ Cardinality(found) = 0
         /\ len >= 1 => SectorsFor(len) = 1 /\ (\A s, t \in found : s = t)
         /\ len >= 1 /\ writable # {} => found # {} /\ Cardinality(found) = 1
         /\ len >= 1 /\ Cardinality(found) = 1 => found # {}
  <1> DEFINE found == FirstN(writable, SectorsFor(len))
  <1>1. found \subseteq writable /\ writable \in SUBSET Sectors
    BY FirstNType DEF TypeOK
  <1>2. len = 0 => found = {} /\ SectorsFor(len) = 0 /\ Cardinality(found) = 0
    BY <1>1, SectorsForNone, FirstNOfNone, FS_EmptySet
  <1>3. len >= 1 => SectorsFor(len) = 1
    <2>1. len \in Nat /\ len <= DataArea
      BY SizeAssumption
    <2> QED BY <2>1, SectorsForSome
  <1>4. ASSUME len >= 1, NEW s \in found, NEW t \in found PROVE s = t
    BY <1>1, <1>3, <1>4, FirstNOfOne
  <1>5. ASSUME len >= 1, writable # {} PROVE found # {} /\ Cardinality(found) = 1
    <2>1. found # {}
      BY <1>1, <1>3, <1>5, FirstNHasFirst
    <2>2. PICK s \in found : TRUE
      BY <2>1
    <2>3. found = {s}
      BY <1>4, <1>5, <2>2
    <2> HIDE DEF found
    <2>4. Cardinality(found) = 1
      BY <2>3, FS_Singleton
    <2> QED BY <2>1, <2>4
  <1>6. found = {} => Cardinality(found) = 0
    BY FS_EmptySet
  <1> QED BY <1>1, <1>2, <1>3, <1>4, <1>5, <1>6

\* Taking a sector: what was free is the job's.
LEMMA TakeFits ==
  ASSUME TypeOK, TypeOK', NEW found, found \subseteq writable, Take(found),
         UNCHANGED <<erasable, file, req, op, totalSize>>,
         req.kind = "updata", job.op = "append",
         job.len <= DataArea, Length % DataArea = 0,
         file.cluster # Empty => file.length \in Nat,
         (IF file.length \in Nat THEN file.length + job.len ELSE job.len) <= totalSize,
         job.len = 0 => found = {},
         job.len >= 1 => found # {} /\ (\A s, t \in found : s = t),
         Cardinality(Free) + SectorsFor(Length) >= SectorsFor(totalSize),
         totalSize \in Nat
  PROVE  FitInv'
  <1>a. /\ pc' = "index" /\ ret' = "NONE" /\ writable' = writable \ found
        /\ job'.len = job.len /\ job'.todo = found /\ job'.op = job.op
        /\ found # {} => job'.head \in found
    <2>1. PICK head \in Sectors \cup {Empty} :
            /\ found # {} => IsFirst(head, found)
            /\ job' = [job EXCEPT !.todo = found, !.head = head]
      BY DEF Take
    <2>2. job \in Job
      BY DEF TypeOK
    <2>3. job'.len = job.len /\ job'.todo = found /\ job'.op = job.op /\ job'.head = head
      BY <2>1, <2>2 DEF Job
    <2> QED BY <2>1, <2>3 DEF Take, Goto, IsFirst
  <1>b. Free \in SUBSET Sectors /\ Cardinality(Free) \in Nat /\ Length \in Nat /\ job.len \in Nat
    BY FitTypes
  <1>c. Free' \in SUBSET Sectors /\ Cardinality(Free') \in Nat
    <2>1. Free' \in SUBSET Sectors
      BY DEF Free, TypeOK
    <2> QED BY <2>1, NotLess
  <1>d. Length' = Length
    BY DEF Length
  <1>e. Held' = SectorsFor(Length + job.len)
    BY <1>a, <1>d DEF Held
  <1>1. Cardinality(Free') + Held' >= SectorsFor(totalSize)
    <2>1. CASE job.len = 0
      <3>1. Free' = Free
        BY <1>a, <2>1 DEF Free
      <3>2. Length + job.len = Length
        BY <1>b, <2>1
      <3> QED BY <1>e, <3>1, <3>2
    <2>2. CASE job.len >= 1
      <3>1. SectorsFor(Length + job.len) = SectorsFor(Length) + 1
        <4>1. job.len \in 1 .. DataArea
          BY <1>b, <2>2, SizeAssumption
        <4> QED BY <1>b, <4>1, SectorsForAnother
      <3>2. Free \ found \in SUBSET Sectors /\ Free \ found \subseteq Free' /\ found \in SUBSET Sectors
        BY <1>a, <1>b DEF Free
      <3>3. /\ Cardinality(Free \ found) \in Nat
            /\ Cardinality(Free \ found) + 1 >= Cardinality(Free)
        BY <1>b, <2>2, <3>2, OneLess
      <3>4. Cardinality(Free \ found) <= Cardinality(Free')
        BY <1>c, <3>2, NotLess
      <3>5. SectorsFor(Length) \in Nat /\ SectorsFor(totalSize) \in Nat
        BY <1>b, SectorsForType
      <3> QED BY <1>b, <1>c, <1>e, <3>1, <3>3, <3>4, <3>5
    <2> QED BY <1>b, <2>1, <2>2
  <1>2. FreeInv'
    BY <1>1 DEF FreeInv
  <1>3. AppendInv'
    <2>1. job'.len >= 1 => job'.head \in Sectors
      BY <1>a, <1>b DEF Free
    <2> QED BY <1>a, <1>d, <2>1 DEF AppendInv
  <1>4. TodoInv'
    BY <1>a DEF TodoInv
  <1>5. FitsOnceAccepted'
    BY <1>a DEF FitsOnceAccepted
  <1> QED BY <1>2, <1>3, <1>4, <1>5 DEF FitInv

LEMMA FilledUp ==
  ASSUME NEW D \in Nat \ {0}, NEW n \in Nat
  PROVE  (n + (D - (n % D))) % D = 0
  <1> DEFINE q == n \div D
             m == n % D
             x == n + (D - m)
             p == x \div D
             r == x % D
  <1>1. n = D * q + m /\ m \in 0 .. D - 1 /\ q \in Int
    BY SMT
  <1>2. x = D * (q + 1) /\ x \in Int
    BY <1>1, SMT
  <1>3. x = D * p + r /\ r \in 0 .. D - 1 /\ p \in Int
    BY <1>2, SMT
  <1>4. p = q + 1
    <2>1. x = D * (q + 1) + 0 /\ 0 \in 0 .. D - 1 /\ q + 1 \in Int
      BY <1>1, <1>2
    <2> HIDE DEF q, m, x
    <2>2. (D * (q + 1) + 0) \div D = q + 1
      BY <2>1, QuotientUnique
    <2> QED BY <2>1, <2>2
  <1> HIDE DEF q, p, x
  <1>5. r = 0
    <2> HIDE DEF r
    <2>1. D * p = D * (q + 1)
      BY <1>4
    <2>2. D * (q + 1) + r = D * (q + 1)
      BY <1>2, <1>3, <2>1
    <2>3. D * (q + 1) \in Int /\ r \in Int
      BY <1>2, <1>3
    <2> QED BY <2>2, <2>3
  <1> QED BY <1>5 DEF x

\* A packet after a step of its call, up to the index.
LEMMA AppendFits ==
  ASSUME TransferInv, TypeOK', FitInv, Step, UNCHANGED <<fixedVars, udpVars>>,
         req.kind = "updata", Appending
  PROVE  FitInv'
  <1> USE DEF fixedVars, udpVars, flash, ftl
  <1>a. /\ TypeOK /\ op = "APPEND" /\ totalSize \in Nat /\ job \in Job /\ file \in File
        /\ job.op = "append"
    BY DEF TransferInv, UdpTypeOK, RequestInv, TypeOK, Appending
  <1>b. /\ job.len <= DataArea
        /\ (IF file.length \in Nat THEN file.length + job.len ELSE job.len) <= totalSize
        /\ pc \in {"alloc", "gc_data", "index"} =>
             Length % DataArea = 0 /\ (file.cluster # Empty => file.length \in Nat)
        /\ pc \in {"walk", "partial", "alloc"} => job.count = 0
        /\ pc = "gc_data" => job.len >= 1 /\ Reclaims
        /\ pc = "index" /\ job.len >= 1 => job.head \in Sectors
        /\ Cardinality(Free) + Held >= SectorsFor(totalSize)
    BY <1>a DEF FitInv, AppendInv, FreeInv
  <1>c. /\ Free \in SUBSET Sectors /\ Cardinality(Free) \in Nat /\ Length \in Nat
        /\ job.len \in 0 .. DataArea /\ SectorsFor(Length) \in Nat
        /\ SectorsFor(totalSize) \in Nat /\ DataArea \in Nat \ {0}
    BY <1>a, <1>b, FitTypes, SectorsForType, SizeAssumption
  <1>d. /\ req'.kind = "updata" /\ op' = "APPEND" /\ totalSize' = totalSize
    BY <1>a
  <1>e. ASSUME Cardinality(Free') + Held' >= SectorsFor(totalSize) PROVE FreeInv'
    BY <1>d, <1>e DEF FreeInv
  <1>f. ASSUME pc # "index" PROVE Held = SectorsFor(Length)
    BY <1>f DEF Held
  <1>g. ret' # "NO_SECTOR_SPACE" => FitsOnceAccepted'
    BY DEF FitsOnceAccepted
  <1>h. pc' = "idle" => AppendInv' /\ TodoInv'
    BY DEF AppendInv, TodoInv, Appending, Storing
  <1>1. CASE pc = "walk" /\ Walk
    <2>1. /\ UNCHANGED <<writable, erasable, file, ret>> /\ pc' \in {"walk", "alloc", "partial"}
          /\ pc' # "walk" => file.length \in Nat /\ job' = job
          /\ pc' = "alloc" => file.length % DataArea = 0
          /\ job'.len = job.len /\ job'.op = job.op /\ job'.count = job.count
      BY <1>1, <1>a DEF Walk, Job
    <2>2. Free' = Free /\ Length' = Length /\ Held' = Held
      <3>1. Free' = Free /\ Length' = Length
        BY <2>1 DEF Free, Length
      <3> QED BY <1>1, <2>1, <3>1 DEF Held
    <2>3. pc' = "alloc" => Length % DataArea = 0
      <3>1. 0 % DataArea = 0
        BY <1>c
      <3> QED BY <2>1, <3>1 DEF Length
    <2>4. AppendInv'
      BY <1>1, <1>b, <2>1, <2>2, <2>3 DEF AppendInv
    <2>5. TodoInv' /\ FitsOnceAccepted'
      BY <2>1, <1>d DEF TodoInv, Storing, FitInv, FitsOnceAccepted
    <2> QED BY <1>b, <1>d, <1>e, <2>2, <2>4, <2>5 DEF FitInv
  <1>2. CASE pc = "partial" /\ AppendToTail
    <2> DEFINE n == file.length
               offset == n % DataArea
               size == Smaller(job.len, DataArea - offset)
    <2>1. /\ n \in Nat /\ UNCHANGED <<writable, erasable>>
          /\ file' = [file EXCEPT !.length = @ + size]
          /\ \/ size = job.len /\ pc' = "idle" /\ ret' = "APPEND_FILE_SUCCESS"
             \/ /\ size # job.len /\ pc' = "alloc" /\ ret' = "NONE"
                /\ job' = [job EXCEPT !.len = @ - size]
      BY <1>2 DEF AppendToTail, Return, Goto
    <2>2. offset \in 0 .. DataArea - 1
      BY <1>c, <2>1
    <2>3. /\ size \in 0 .. job.len /\ (size # job.len => size = DataArea - offset)
      BY <1>c, <2>2 DEF Smaller
    <2>4. (n + (DataArea - offset)) % DataArea = 0
      BY <2>1, SizeAssumption, FilledUp
    <2> HIDE DEF size, offset
    <2>5. file'.length = n + size /\ file'.cluster = file.cluster
      BY <1>a, <2>1 DEF File
    <2>6. n + size \in Nat /\ n <= n + size
      BY <1>c, <2>1, <2>3
    <2>7. Free' = Free
      BY <2>1 DEF Free
    <2>8. Length' \in Nat /\ Length <= Length' /\ (pc' = "alloc" => Length' % DataArea = 0)
      <3>1. 0 % DataArea = 0
        BY <1>c
      <3>2. pc' = "alloc" => (n + size) % DataArea = 0
        BY <2>1, <2>3, <2>4
      <3> QED BY <1>c, <2>1, <2>5, <2>6, <3>1, <3>2 DEF Length
    <2>9. FreeInv'
      <3>1. Held = SectorsFor(Length) /\ Held' = SectorsFor(Length')
        BY <1>2, <2>1 DEF Held
      <3>2. SectorsFor(Length') \in Nat
        BY <2>8, SectorsForType
      <3>3. SectorsFor(Length) <= SectorsFor(Length')
        BY <1>c, <2>8, SectorsForMore
      <3> QED BY <1>b, <1>c, <1>e, <2>7, <3>1, <3>2, <3>3
    <2>10. AppendInv' /\ TodoInv'
      <3>1. CASE pc' = "alloc"
        <4>1. job'.len = job.len - size /\ job'.count = job.count
          BY <1>a, <2>1, <3>1 DEF Job
        <4>2. job'.len <= DataArea /\ n + size + job'.len <= totalSize
          <5>1. n + job.len <= totalSize
            BY <1>b, <2>1
          <5> QED BY <1>a, <1>c, <2>1, <2>3, <4>1, <5>1
        <4> QED BY <1>2, <1>b, <2>5, <2>6, <2>8, <3>1, <4>1, <4>2
                DEF AppendInv, TodoInv, Storing
      <3> QED BY <1>h, <2>1, <3>1
    <2>11. FitsOnceAccepted'
      BY <1>g, <2>1
    <2> QED BY <2>9, <2>10, <2>11 DEF FitInv
  <1>3. CASE pc = "alloc" /\ Allocate
    <2> DEFINE found == FirstN(writable, SectorsFor(job.len))
    <2>1. /\ UNCHANGED <<erasable, file>>
          /\ \/ Cardinality(found) = SectorsFor(job.len) /\ Take(found)
             \/ /\ Cardinality(found) # SectorsFor(job.len) /\ writable' = writable \ found
                /\ pc' = "gc_data" /\ ret' = "NONE" /\ job' = job
      BY <1>3 DEF Allocate, Goto
    <2>2. /\ found \subseteq writable
          /\ job.len = 0 => found = {} /\ SectorsFor(job.len) = 0 /\ Cardinality(found) = 0
          /\ job.len >= 1 => SectorsFor(job.len) = 1 /\ (\A s, t \in found : s = t)
          /\ job.len >= 1 /\ writable # {} => found # {} /\ Cardinality(found) = 1
          /\ job.len >= 1 /\ Cardinality(found) = 1 => found # {}
      BY <1>a, <1>c, FoundForShort
    <2> HIDE DEF found
    <2>3. CASE Cardinality(found) = SectorsFor(job.len) /\ Take(found)
      <3>1. job.len >= 1 => found # {}
        BY <2>2, <2>3
      <3> QED BY <1>3, <1>a, <1>b, <1>d, <1>f, <2>1, <2>2, <2>3, <3>1, TakeFits
    <2>4. CASE /\ Cardinality(found) # SectorsFor(job.len) /\ writable' = writable \ found
               /\ pc' = "gc_data" /\ ret' = "NONE" /\ job' = job
      <3>1. job.len >= 1 /\ writable = {}
        BY <1>c, <2>2, <2>4
      <3>2. Free' = Free /\ Length' = Length /\ writable' = {}
        BY <2>1, <2>4, <3>1 DEF Free, Length
      <3>3. Held' = Held
        BY <1>3, <2>4, <3>2 DEF Held
      <3>4. AppendInv' /\ TodoInv'
        BY <1>3, <1>b, <2>1, <2>4, <3>1, <3>2 DEF AppendInv, TodoInv, Storing, Reclaims
      <3> QED BY <1>b, <1>d, <1>e, <1>g, <2>4, <3>2, <3>3, <3>4 DEF FitInv
    <2> QED BY <2>1, <2>3, <2>4
  <1>4. CASE pc = "gc_data" /\ GcDataErase
    <2>0. job.len >= 1 /\ SectorsFor(job.len) = 1
      BY <1>4, <1>a, <1>b, <1>c, FoundForShort
    <2>1. PICK s \in erasable :
            /\ erasable' = erasable \ {s} /\ writable' = writable \cup {s}
            /\ UNCHANGED <<file, pc, ret>> /\ job' = [job EXCEPT !.count = @ + 1]
            /\ job.count < 1
      BY <1>4, <2>0 DEF GcDataErase, EraseSector
    <2>2. job.count = 0 /\ job'.count = 1 /\ job'.len = job.len /\ job'.op = job.op
      BY <1>a, <2>1 DEF Job
    <2>3. Free' = Free /\ Length' = Length /\ writable' # {}
      BY <2>1 DEF Free, Length
    <2>4. Held' = Held
      BY <1>4, <2>1, <2>3 DEF Held
    <2>5. AppendInv' /\ TodoInv'
      BY <1>4, <1>b, <2>1, <2>2, <2>3 DEF AppendInv, TodoInv, Storing, Reclaims
    <2>6. FitsOnceAccepted'
      BY <1>d, <2>1 DEF FitInv, FitsOnceAccepted
    <2> QED BY <1>b, <1>d, <1>e, <2>3, <2>4, <2>5, <2>6 DEF FitInv
  <1>5. CASE pc = "gc_data" /\ GcDataDone
    <2> DEFINE found == FirstN(writable, SectorsFor(job.len))
    <2>0. job.len >= 1 /\ SectorsFor(job.len) = 1
      BY <1>5, <1>a, <1>b, <1>c, FoundForShort
    <2>1. /\ UNCHANGED <<erasable, file>>
          /\ \/ job.count >= 1 /\ Take(found)
             \/ job.count < 1 /\ erasable = {}
      BY <1>5, <2>0 DEF GcDataDone
    <2>2. /\ found \subseteq writable /\ (\A s, t \in found : s = t)
          /\ writable # {} => found # {}
      BY <1>a, <1>c, <2>0, FoundForShort
    <2> HIDE DEF found
    <2>3. CASE job.count >= 1 /\ Take(found)
      <3>1. writable # {}
        <4>1. job.count # 0
          BY <2>3
        <4> QED BY <1>5, <1>b, <4>1 DEF Reclaims
      <3>2. job.len # 0
        BY <2>0
      <3> QED BY <1>5, <1>a, <1>b, <1>d, <1>f, <2>0, <2>1, <2>2, <2>3, <3>1, <3>2, TakeFits
    <2>4. CASE job.count < 1 /\ erasable = {}
      <3>1. job.count = 0
        BY <1>a, <2>4 DEF Job
      <3>2. Free = {}
        BY <1>5, <1>b, <2>4, <3>1 DEF Reclaims, Free
      <3>3. Cardinality(Free) = 0
        BY <3>2, FS_EmptySet
      <3>4. SectorsFor(Length + job.len) = SectorsFor(Length) + 1
        <4>1. job.len \in 1 .. DataArea /\ Length % DataArea = 0
          BY <1>5, <1>b, <1>c, <2>0
        <4> QED BY <1>c, <4>1, SectorsForAnother
      <3>5. Length + job.len \in Nat /\ Length + job.len <= totalSize
        <4>1. CASE file.length \in Nat
          <5>1. file.length + job.len <= totalSize
            BY <1>b, <4>1
          <5>2. job.len \in Nat
            BY <1>c
          <5> QED BY <1>a, <4>1, <5>1, <5>2 DEF Length
        <4>2. CASE file.length \notin Nat
          BY <1>b, <1>c, <4>2 DEF Length
        <4> QED BY <4>1, <4>2
      <3>6. SectorsFor(Length + job.len) <= SectorsFor(totalSize)
        BY <1>a, <3>5, SectorsForMore
      <3>7. Held = SectorsFor(Length)
        BY <1>5, <1>f
      <3>8. FALSE
        BY <1>b, <1>c, <3>3, <3>4, <3>6, <3>7
      <3> QED BY <3>8
    <2> QED BY <2>1, <2>3, <2>4
  <1>6. CASE pc = "index" /\ IndexCluster
    <2>1. /\ UNCHANGED <<writable, erasable>> /\ file.cluster = Empty
          /\ file' = [file EXCEPT !.cluster = job.head, !.length = job.len]
          /\ WriteRest(job.todo)
      BY <1>6, <1>a DEF IndexCluster
    <2>2. file'.cluster = job.head /\ file'.length = job.len
      BY <1>a, <2>1 DEF File
    <2>3. Free' = Free /\ Length' = job.len
      <3>1. job.len = 0 \/ job.head # Empty
        BY <1>6, <1>b, <1>c, SectorFacts
      <3> QED BY <1>c, <2>1, <2>2, <3>1 DEF Free, Length
    <2>4. /\ pc' \in {"idle", "mark"} /\ ret' # "NO_SECTOR_SPACE"
          /\ pc' = "mark" => job'.todo = job.todo /\ job'.op = job.op
      BY <1>a, <2>1 DEF WriteRest, Written, Return, Goto, Job
    <2>5. Held' = Held
      <3>1. Length = 0
        BY <2>1 DEF Length
      <3>2. Length + job.len = job.len
        BY <1>c, <3>1
      <3>3. Held = SectorsFor(job.len)
        BY <1>6, <3>2 DEF Held
      <3> QED BY <2>3, <2>4, <3>3 DEF Held
    <2>6. AppendInv' /\ TodoInv'
      BY <1>6, <1>a, <2>1, <2>4 DEF AppendInv, Appending, TodoInv, Storing, FitInv
    <2> QED BY <1>b, <1>d, <1>e, <1>g, <2>3, <2>4, <2>5, <2>6 DEF FitInv
  <1>7. CASE pc = "index" /\ IndexLink
    <2>1. /\ UNCHANGED <<writable, erasable>> /\ file.cluster # Empty
          /\ file' = [file EXCEPT !.length = AddLength(@, job.len)]
          /\ WriteRest(job.todo)
      BY <1>7, <1>a DEF IndexLink
    <2>2. file.length \in Nat
      BY <1>7, <1>b, <2>1
    <2>3. file'.cluster = file.cluster /\ file'.length = file.length + job.len
      BY <1>a, <2>1, <2>2, SectorFacts DEF File, AddLength
    <2>4. Free' = Free /\ Length' = Length + job.len
      <3>1. file.length + job.len \in Nat
        BY <1>c, <2>2
      <3> QED BY <2>1, <2>2, <2>3, <3>1 DEF Free, Length
    <2>5. /\ pc' \in {"idle", "mark"} /\ ret' # "NO_SECTOR_SPACE"
          /\ pc' = "mark" => job'.todo = job.todo /\ job'.op = job.op
      BY <1>a, <2>1 DEF WriteRest, Written, Return, Goto, Job
    <2>6. Held' = Held
      BY <1>7, <2>4, <2>5 DEF Held
    <2>7. AppendInv' /\ TodoInv'
      BY <1>7, <1>a, <2>1, <2>5 DEF AppendInv, Appending, TodoInv, Storing, FitInv
    <2> QED BY <1>b, <1>d, <1>e, <1>g, <2>4, <2>5, <2>6, <2>7 DEF FitInv
  <1> QED BY <1>1, <1>2, <1>3, <1>4, <1>5, <1>6, <1>7, StepAt DEF Appending

\* Where neither what is free nor what the file holds changes.
LEMMA SameRoom ==
  ASSUME FreeInv, UNCHANGED <<writable, erasable, req, op, totalSize>>,
         file'.cluster = file.cluster, file'.length = file.length,
         pc # "index", pc' # "index"
  PROVE  FreeInv'
  <1>1. Free' = Free /\ Length' = Length
    BY DEF Free, Length
  <1>2. Held' = Held
    BY <1>1 DEF Held
  <1> QED BY <1>1, <1>2 DEF FreeInv

\* The sectors a packet took are written.
LEMMA WritingFits ==
  ASSUME TransferInv, FitInv, Step, UNCHANGED <<fixedVars, udpVars>>,
         req.kind = "updata", pc \in {"mark", "data", "link"}
  PROVE  FitInv'
  <1> USE DEF fixedVars, udpVars, flash, ftl
  <1>a. TypeOK /\ FreeInv /\ job \in Job /\ job.op = "append" /\ job.todo \cap writable = {}
    BY DEF TransferInv, UdpTypeOK, UploadInv, TypeOK, FitInv, TodoInv, Appending, Storing,
           Creating
  <1>b. ASSUME NEW s, WriteRest(job.todo \ {s})
        PROVE  /\ pc' \in {"idle", "mark"} /\ ret' # "NO_SECTOR_SPACE"
               /\ pc' = "mark" => job'.todo = job.todo \ {s} /\ job'.op = "append"
    BY <1>a, <1>b DEF WriteRest, Written, Return, Goto, Job
  <1>1. /\ UNCHANGED <<erasable, file, req, op, totalSize>>
        /\ pc' \in {"idle", "mark", "data", "link"} /\ ret' # "NO_SECTOR_SPACE"
        /\ writable' \subseteq writable /\ writable \ writable' \subseteq job.todo
        /\ pc' # "idle" => job'.todo \subseteq job.todo
    <2>1. CASE MarkSector
      BY <2>1 DEF MarkSector, Goto
    <2>2. CASE WriteData
      BY <1>a, <1>b, <2>2 DEF WriteData, Goto
    <2>3. CASE LinkSector
      BY <1>b, <2>3 DEF LinkSector
    <2> QED BY <2>1, <2>2, <2>3, StepAt
  <1>2. writable' = writable
    BY <1>1, <1>a
  <1>3. FreeInv'
    BY <1>1, <1>2, <1>a, SameRoom
  <1>4. AppendInv' /\ TodoInv' /\ FitsOnceAccepted'
    BY <1>1, <1>2, <1>a DEF AppendInv, Appending, TodoInv, Storing, FitsOnceAccepted
  <1> QED BY <1>3, <1>4 DEF FitInv

LEMMA FitSteps ==
  ASSUME TransferInv, TypeOK', FitInv, CallStep
  PROVE  FitInv'
  <1>a. Step /\ UNCHANGED <<fixedVars, udpVars>> /\ pc # "idle"
    BY StepsAreOfCalls DEF CallStep
  <1> USE DEF fixedVars, udpVars
  <1>b. TypeOK /\ RequestInv /\ UploadInv /\ FitInv
    BY DEF TransferInv, UdpTypeOK
  <1>c. /\ UNCHANGED <<req, op, totalSize>> /\ totalSize \in Nat
    BY <1>a DEF TransferInv, UdpTypeOK
  <1>1. CASE req.kind = "updata"
    <2>1. CASE Appending
      BY <1>a, <1>1, <2>1, AppendFits
    <2>2. CASE pc \in {"mark", "data", "link"}
      BY <1>a, <1>1, <2>2, WritingFits
    <2>3. CASE Creating("finish")
      <3>1. /\ pc' = "idle" \/ Creating("finish")'
            /\ file'.cluster = file.cluster /\ file'.length = file.length
            /\ UNCHANGED ftl /\ ret' # "NO_SECTOR_SPACE"
        BY <1>a, <1>b, <2>3, CreatingSteps
      <3>2. FreeInv'
        BY <1>b, <1>c, <2>3, <3>1, SameRoom DEF FitInv, ftl, Creating
      <3>3. AppendInv' /\ TodoInv' /\ FitsOnceAccepted'
        BY <3>1 DEF AppendInv, Appending, TodoInv, Storing, FitsOnceAccepted, Creating
      <3> QED BY <3>2, <3>3 DEF FitInv
    <2> QED BY <1>a, <1>b, <1>1, <2>1, <2>2, <2>3 DEF UploadInv, Storing, Appending
  <1>2. CASE req.kind = "upinfo"
    <2>1. writable' = writable /\ erasable \subseteq erasable'
      <3>1. CASE pc = "discard" /\ job.op = "delete"
        BY <1>a, <1>b, <3>1, DeletingSteps
      <3>2. CASE Creating("create")
        BY <1>a, <1>b, <3>2, CreatingSteps DEF ftl
      <3> QED BY <1>a, <1>b, <1>2, <3>1, <3>2 DEF UploadInv
    <2>2. Cardinality(Free') >= SectorsFor(totalSize)
      <3>1. Free \in SUBSET Sectors /\ Free' \in SUBSET Sectors /\ Free \subseteq Free'
        BY <1>b, <2>1 DEF Free, TypeOK
      <3>2. Cardinality(Free) <= Cardinality(Free') /\ Cardinality(Free) \in Nat /\ Cardinality(Free') \in Nat
        BY <3>1, NotLess
      <3>3. Cardinality(Free) >= SectorsFor(totalSize) /\ SectorsFor(totalSize) \in Nat
        BY <1>b, <1>c, <1>2, SectorsForType DEF FitInv, FreeInv
      <3> QED BY <3>2, <3>3
    <2> QED BY <1>c, <1>2, <2>2
            DEF FitInv, FreeInv, AppendInv, TodoInv, FitsOnceAccepted
  <1>3. CASE req.kind \notin {"updata", "upinfo"}
    <2>1. op # "APPEND"
      BY <1>a, <1>b, <1>3 DEF RequestInv
    <2> QED BY <1>c, <1>3, <2>1 DEF FitInv, FreeInv, AppendInv, TodoInv, FitsOnceAccepted
  <1> QED BY <1>1, <1>2, <1>3

\* The space check of an upload request that is accepted.
LEMMA AcceptedFits ==
  ASSUME TypeOK, NEW size \in Nat, UpInfoRefusal(TRUE, size, TRUE) = "none"
  PROVE  Cardinality(Free) >= SectorsFor(size)
  <1>1. Cardinality(Free) \in Nat
    BY FitTypes
  <1>2. ~(Cardinality(Free) * DataArea < size)
    BY DEF UpInfoRefusal, Free
  <1>3. Cardinality(Free) * DataArea \in Int
    BY <1>1, SizeAssumption
  <1>4. Cardinality(Free) * DataArea >= size
    BY <1>2, <1>3
  <1> QED BY <1>1, <1>4, SectorsForFit

LEMMA FitNext ==
  ASSUME TransfersAreAlone, "exact" \in Client, ShortPackets,
         TransferInv, FitInv, [UdpNext]_allVars
  PROVE  FitInv'
  <1> USE DEF TransfersAreAlone, fixedVars, udpVars, Untouched, vars, flash, ftl
  <1>a. /\ TypeOK /\ UdpTypeOK /\ RequestInv /\ UploadInv /\ LengthInv
        /\ UdpTypeOK' /\ TypeOK' /\ totalSize \in Nat /\ totalSize' \in Nat
    BY UdpTypeNext DEF TransferInv, UdpTypeOK
  <1>b. NoRequest.kind = "none" /\ req \in Request
    BY <1>a DEF NoRequest, UdpTypeOK
  <1>c. FreeInv /\ AppendInv /\ TodoInv
    BY DEF FitInv
  <1>d. ASSUME req'.kind \notin {"upinfo", "updata"}, op' = "APPEND" => FreeInv'
        PROVE  FitInv'
    BY <1>d DEF FitInv, FreeInv, AppendInv, TodoInv, FitsOnceAccepted
  <1>e. ASSUME req'.kind = "upinfo", Cardinality(Free') >= SectorsFor(totalSize')
        PROVE  FitInv'
    BY <1>e DEF FitInv, FreeInv, AppendInv, TodoInv, FitsOnceAccepted
  \* No request is served: an upload needs what its file does not hold.
  <1>f. ASSUME req' = NoRequest, Cardinality(Free') >= SectorsFor(totalSize')
        PROVE  FitInv'
    <2>1. Held' \in Nat /\ Cardinality(Free') \in Nat /\ SectorsFor(totalSize') \in Nat
      <3>1. Free' \in SUBSET Sectors
        BY <1>a DEF Free, TypeOK
      <3>2. Length' \in Nat /\ job'.len \in Nat
        BY <1>a DEF Length, TypeOK, Job
      <3> HIDE DEF Length
      <3>3. Length' + job'.len \in Nat
        BY <3>2
      <3> QED BY <1>a, <3>1, <3>2, <3>3, NotLess, SectorsForType DEF Held
    <2>2. Cardinality(Free') + Held' >= SectorsFor(totalSize')
      BY <1>f, <2>1
    <2> QED BY <1>b, <1>d, <1>f, <2>2 DEF FreeInv
  <1>1. CASE Aside
    <2>1. /\ req = NoRequest /\ req' = NoRequest /\ UNCHANGED <<writable, erasable, pc, job, file>>
          /\ op' = "APPEND" => op = "APPEND" /\ totalSize' = totalSize
      BY <1>1 DEF Aside, others
    <2>2. Free' = Free /\ Held' = Held
      BY <2>1 DEF Free, Held, Length
    <2> QED BY <1>b, <1>c, <1>d, <2>1, <2>2 DEF FreeInv
  <1>2. CASE Elsewhere
    BY <1>2, <1>d DEF Elsewhere
  <1>3. CASE Begins
    <2>1. PICK n \in Names, size \in Totals, method \in {"NORMAL", "OVERRIDE", "APPEND"},
               info \in StateWords : UpInfo(n, size, method, info)
      BY <1>3 DEF Begins
    <2>2. /\ totalSize' = size /\ UpInfoRefusal(TRUE, size, TRUE) = "none"
          /\ UNCHANGED ftl
          /\ req' = NoRequest \/ req'.kind = "upinfo"
      BY <2>1 DEF UpInfo, OpenCall, CreateWith, Answer, NoRequest
    <2>3. Cardinality(Free') >= SectorsFor(totalSize')
      <3>1. Free' = Free
        BY <2>2 DEF Free
      <3> QED BY <1>a, <2>2, <3>1, AcceptedFits
    <2> QED BY <1>e, <1>f, <2>2, <2>3
  <1>4. CASE GoesOn
    <2>1. PICK len \in WriteLens : UpData(len)
      BY <1>4 DEF GoesOn
    <2>2. /\ op = "APPEND" /\ op' = op /\ totalSize' = totalSize /\ req = NoRequest
          /\ req'.kind = "updata" /\ pc = "idle"
          /\ WriteCall(len, "APPEND") /\ MayAdd(len)
      BY <2>1 DEF UpData, MaySend, UpDataRefusal, NoRequest
    <2>3. /\ UNCHANGED <<writable, erasable, file>> /\ ret' # "NO_SECTOR_SPACE"
          /\ \/ pc' = "idle"
             \/ /\ pc' = IF file.cluster # Empty /\ file.length # Empty THEN "walk" ELSE "alloc"
                /\ job'.len = len /\ job'.count = 0
      BY <2>2 DEF WriteCall, Reject, Goto, NoJob
    <2>4. FreeInv'
      <3>1. Free' = Free /\ Length' = Length
        BY <2>3 DEF Free, Length
      <3>2. Held' = Held
        BY <2>2, <2>3, <3>1 DEF Held
      <3> QED BY <1>b, <1>c, <2>2, <3>1, <3>2 DEF FreeInv
    <2>5. AppendInv'
      <3>1. len <= DataArea /\ len \in Nat
        BY SizeAssumption DEF ShortPackets
      <3>2. (IF file.length \in Nat THEN file.length + len ELSE len) <= totalSize
        BY <2>2 DEF MayAdd
      <3>3. HasLength(file)
        BY <1>a, <1>b, <2>2 DEF LengthInv
      <3>4. pc' = "alloc" => file.cluster = Empty /\ Length' = 0 /\ 0 % DataArea = 0
        BY <2>3, <3>3, SizeAssumption DEF HasLength, Length
      <3> QED BY <2>2, <2>3, <3>1, <3>2, <3>4 DEF AppendInv, Appending
    <2>6. TodoInv' /\ FitsOnceAccepted'
      BY <2>3 DEF TodoInv, Storing, FitsOnceAccepted
    <2> QED BY <2>4, <2>5, <2>6 DEF FitInv
  <1>5. CASE Records
    <2>1. op' = "INIT" /\ req'.kind = "config"
      BY <1>5 DEF Records, ConfigWrite, MaySend, NoRequest
    <2> QED BY <1>d, <2>1
  <1>6. CASE UpInfoDelete \/ UpInfoCreate
    <2>1. /\ UNCHANGED <<writable, erasable, totalSize>> /\ req.kind = "upinfo" /\ req'.kind = "upinfo"
      BY <1>6, <1>b
      DEF UpInfoDelete, UpInfoCreate, Returned, Await, Request, DeleteCall, CreateWith
    <2>2. Free' = Free
      BY <2>1 DEF Free
    <2> QED BY <1>c, <1>e, <2>1, <2>2 DEF FreeInv
  <1>7. CASE UpDataWritten
    <2>1. req.kind = "updata" /\ pc = "idle" /\ op' = op /\ totalSize' = totalSize
      BY <1>7 DEF UpDataWritten, Returned
    <2>2. CASE FinishCall /\ Await("finished")
      <3>1. /\ pc' = "idle" \/ Creating("finish")'
            /\ UNCHANGED <<file, ftl>> /\ ret' # "NO_SECTOR_SPACE"
        BY <2>2, FinishCallKeeps
      <3>2. Free' = Free /\ Length' = Length
        BY <3>1 DEF Free, Length
      <3>3. Held' = Held
        BY <2>1, <3>1, <3>2 DEF Held, Creating
      <3>4. req'.kind = "updata"
        BY <1>b, <2>1, <2>2 DEF Await, Request
      <3>5. FreeInv'
        BY <1>c, <2>1, <3>2, <3>3, <3>4 DEF FreeInv
      <3> QED BY <3>1, <3>5 DEF FitInv, AppendInv, Appending, TodoInv, Storing, Creating,
                                FitsOnceAccepted
    <2>3. CASE req' = NoRequest /\ UNCHANGED vars
      <3>1. Free' = Free /\ Held' = Held
        BY <2>3 DEF Free, Held, Length
      <3> QED BY <1>b, <1>c, <1>d, <2>1, <2>3, <3>1 DEF FreeInv
    <2> QED BY <1>7, <2>2, <2>3 DEF UpDataWritten, Answer
  <1>8. CASE UpDataFinished
    <2>1. op' = "INIT" /\ req' = NoRequest
      BY <1>8 DEF UpDataFinished, Answer
    <2> QED BY <1>b, <1>d, <2>1
  <1>9. CASE Returned("upinfo", "created") /\ CallAnswered
    <2>1. req.kind = "upinfo" /\ req' = NoRequest /\ UNCHANGED <<writable, erasable, totalSize>>
      BY <1>9 DEF CallAnswered, Returned, Answer
    <2>2. Free' = Free
      BY <2>1 DEF Free
    <2> QED BY <1>c, <1>f, <2>1, <2>2 DEF FreeInv
  <1>10. CASE ConfigStep
    <2>1. fx.stage # "none" /\ req' = req /\ op' = op
      BY <1>10
      DEF ConfigStep, FixedStep, FixedDelete, FixedCreate, FixedOverride, FixedAppend,
          FixedFinish, Opened, At
    <2> QED BY <1>a, <1>d, <2>1 DEF RequestInv
  <1>11. CASE ConfigAnswered
    <2>1. fx.stage # "none" /\ req' = NoRequest /\ op' = op
      BY <1>11 DEF ConfigAnswered, FixedReturn, At, Answer
    <2> QED BY <1>a, <1>b, <1>d, <2>1 DEF RequestInv
  <1>12. CASE CallStep
    BY <1>a, <1>12, FitSteps
  <1>13. CASE Restart
    <2>1. op' = "INIT" /\ req' = NoRequest
      BY <1>13 DEF Restart
    <2> QED BY <1>b, <1>d, <2>1
  <1>14. CASE UNCHANGED allVars
    BY <1>14
    DEF allVars, FitInv, FreeInv, AppendInv, TodoInv, FitsOnceAccepted, Free, Held, Length,
        Reclaims, Appending, Storing
  <1> QED
    BY <1>a, <1>1, <1>2, <1>3, <1>4, <1>5, <1>6, <1>7, <1>8, <1>9, <1>10, <1>11, <1>12,
       <1>13, <1>14, UdpCases

\* When a transfer is left alone until it is over and no client sends more than it
\* announced, an upload the space check of onFileUpInfoRequest let in is never told
\* that there are no sectors: spifs_gc finds what the check counted
\* (udp_handler.c:620).
THEOREM ServiceKeepsItsWord ==
  ASSUME TransfersAreAlone, "exact" \in Client, ShortPackets
  PROVE  UdpSpec => []ServiceIsSound
  <1>1. UdpInit => TransferInv /\ FitInv
    <2>1. UdpInit => req.kind = "none" /\ op = "INIT"
      BY DEF UdpInit, NoRequest
    <2> QED BY <2>1, TransferInit
            DEF FitInv, FreeInv, AppendInv, TodoInv, FitsOnceAccepted
  <1>2. TransferInv /\ FitInv /\ [UdpNext]_allVars => (TransferInv /\ FitInv)'
    BY TransferNext, FitNext
  <1>3. TransferInv /\ FitInv => ServiceIsSound
    BY DEF TransferInv, FitInv, ServiceIsSound
  <1> QED BY <1>1, <1>2, <1>3, PTL DEF UdpSpec

-----------------------------------------------------------------------------
(***************************************************************************)
(* The service reads and stores what it was asked for.                     *)
(***************************************************************************)
\* What the clients and the users of the file system have to keep to.
TransfersAreCareful ==
  /\ TransfersAreAlone
  /\ {"no_redo", "with_record", "format_all", "plain_info"} \subseteq Client
  /\ ShortPackets /\ 0 \notin WriteLens
  /\ Section <= DataArea
  /\ ~AnyTime

\* The file that is read is the one asked for.
ReadingInv ==
  op = "READ" =>
    /\ req.kind = "none"
    /\ asked # NoName => Copy /\ file.name = asked

RenamingInv ==
  req.kind \in {"rename", "delete", "format"} =>
    /\ op = "INIT"
    /\ req.stage \in {"rename", "delete"} => pc = "idle" /\ Copy
    /\ req.stage = "rename" => req.to \in Names

\* The file that is appended to is the one asked for.
SendingInv ==
  /\ op = "APPEND" /\ req.kind = "none" => Ready /\ (file.block # Empty => file.name = asked)
  /\ req.kind = "upinfo" =>
       /\ req.name = asked /\ asked \in Names
       /\ req.stage = "delete" => Copy
       /\ req.stage = "created" =>
            /\ file.name = asked
            /\ pc = "idle" => Ready /\ (ret # "CREATE_FILE_SUCCESS" => file.block = Empty)
  /\ req.kind = "updata" =>
       /\ req.stage \in {"written", "finished"}
       /\ req.stage = "written" =>
            IF pc = "idle" THEN Ready /\ (file.block # Empty => file.name = asked)
            ELSE Busy /\ file.name = asked
       /\ req.stage = "finished" => pc = "idle" \/ Creating("finish")

\* The file of records is in order where the code uses it.
RecordingInv ==
  /\ fx.stage = "opened" => IF pc = "idle" THEN Ready ELSE Creating("create")
  /\ fx.stage = "rotate" =>
       /\ file.name \in Names
       /\ pc = "idle" \/ (pc = "discard" /\ job.op = "delete")
  /\ fx.stage = "override" => IF pc = "idle" THEN Ready ELSE Creating("create")
  /\ fx.stage = "append" => IF pc = "idle" THEN Ready ELSE Busy

UseInv == Settled(parked) /\ ReadingInv /\ RenamingInv /\ SendingInv /\ RecordingInv

ServedInv == TransferInv /\ ContentInv /\ UseInv

\* No request is at work on the files, before or after.
Leaves ==
  /\ req = NoRequest /\ req' = NoRequest
  /\ UNCHANGED <<vars, fixedVars>>
  /\ (UNCHANGED <<op, asked>>) \/ op' = "INIT"

LEMMA NoRequestAtWork ==
  ASSUME ServedInv, req = NoRequest
  PROVE  req.kind = "none" /\ pc = "idle" /\ fx.stage = "none" /\ fx = [fx EXCEPT !.stage = "none"]
  BY DEF ServedInv, TransferInv, RequestInv, NoRequest, UdpTypeOK, Record

LEMMA LeavesUse ==
  ASSUME ServedInv, Leaves
  PROVE  UseInv' /\ ContentStep
  <1>1. req.kind = "none" /\ pc = "idle" /\ fx.stage = "none" /\ req'.kind = "none"
    BY NoRequestAtWork DEF Leaves, NoRequest
  <1>2. Copy' = Copy /\ Ready' = Ready /\ fx' = fx /\ parked' = parked /\ file' = file /\ UNCHANGED vars
    BY DEF Leaves, fixedVars, vars, Copy, Ready, Known, Sized, Attached
  <1>3. ContentStep
    BY <1>2 DEF ContentStep
  <1> QED BY <1>1, <1>2, <1>3 DEF Leaves, ServedInv, UseInv, ReadingInv, RenamingInv, SendingInv, RecordingInv,
                              Settled

\* A format of nothing touches nothing.
LEMMA NothingErased ==
  ASSUME TypeOK, EraseStretch({}, {})
  PROVE  UNCHANGED vars
  <1>1. fb' = fb
    BY DEF EraseStretch, TypeOK
  <1>2. mark' = mark /\ next' = next /\ data' = data
    BY DEF EraseStretch, TypeOK
  <1>3. clobbered' = clobbered /\ erasable' = erasable /\ writable' = writable
    BY DEF EraseStretch, TypeOK
  <1> QED BY <1>1, <1>2, <1>3 DEF EraseStretch, vars

LEMMA AskLeaves ==
  ASSUME ServedInv, TransfersAreCareful, Ask
  PROVE  \/ Leaves
         \/ \E n \in Names :
              \/ \E size \in Totals, method \in {"NORMAL", "OVERRIDE", "APPEND"}, info \in StateWords :
                   UpInfo(n, size, method, info)
              \/ \E right, crcOk : DownInfo(n, right, crcOk) \/ Delete(n, right, crcOk)
              \/ \E m \in Names : \E right, crcOk : Rename(n, m, right, crcOk)
              \/ \E ok : Freeze(n, ok)
              \/ ConfigWrite(n)
         \/ \E len \in WriteLens : UpData(len)
         \/ Format
  <1> USE DEF Untouched, MaySend, Answer
  <1>a. ASSUME NEW n \in Names, NEW offset \in 0..Section, NEW right, NEW crcOk,
               ConfigUpdate(n, offset, right, crcOk)
        PROVE  Leaves
    <2>1. UNCHANGED boot
      BY <1>a, UpdateStaysInRecord DEF ServedInv, TransferInv, UdpTypeOK, TransfersAreCareful
    <2> QED BY <1>a, <2>1 DEF ConfigUpdate, Leaves, vars, ftl
  <1>1. ASSUME NEW right, NEW ok, Inquire(right, ok) PROVE Leaves
    BY <1>1 DEF Inquire, Leaves
  <1>2. CASE Connect
    BY <1>2 DEF Connect, Leaves
  <1>3. ASSUME NEW right, Disconnect(right) PROVE Leaves
    BY <1>3 DEF Disconnect, Leaves
  <1>4. ASSUME NEW size, NEW right, NEW crcOk, UpInfoRefused(right, size, crcOk) PROVE Leaves
    BY <1>4 DEF UpInfoRefused, Leaves
  <1>5. ASSUME NEW right, NEW inRange, NEW crcOk, UpDataRefused(right, inRange, crcOk) PROVE Leaves
    BY <1>5 DEF UpDataRefused, Leaves
  <1>6. ASSUME NEW last, DownData(last) PROVE Leaves
    BY <1>6 DEF DownData, Leaves
  <1>7. ASSUME NEW e, Defer(e) PROVE Leaves
    BY <1>7 DEF Defer, Leaves
  <1>b. ASSUME NEW fbs, NEW secs, FormatPart(fbs, secs) PROVE Leaves
    <2>1. fbs = {} /\ secs = {} /\ EraseStretch(fbs, secs) /\ TypeOK
      BY <1>b DEF FormatPart, MayErase, TransfersAreCareful, ServedInv, TransferInv, UdpTypeOK
    <2>2. UNCHANGED vars
      BY <2>1, NothingErased
    <2> QED BY <1>b, <2>2 DEF FormatPart, Leaves
  <1>c. ASSUME NEW right, NEW charged, FormatRefused(right, charged) PROVE Leaves
    BY <1>c DEF FormatRefused, Leaves
  <1>8. ASSUME NEW right,
               \/ Disconnect(right) \/ sensorRead(right) \/ deviceInfoRead(right) \/ onFsStatusRequest(right)
               \/ \E n \in Names : onConfigReadRequest(n, right)
               \/ \E inRange \in BOOLEAN : displayBufferRead(right, inRange)
        PROVE  Leaves
    BY <1>1, <1>3, <1>8 DEF sensorRead, deviceInfoRead, onFsStatusRequest, onConfigReadRequest, displayBufferRead
  <1>9. ASSUME NEW right, NEW crcOk,
               \/ \E size \in Totals : UpInfoRefused(right, size, crcOk)
               \/ \E inRange \in BOOLEAN : UpDataRefused(right, inRange, crcOk)
               \/ \E n \in Names, offset \in 0..Section : ConfigUpdate(n, offset, right, crcOk)
               \/ \E inRange \in BOOLEAN : onFsListRequest(right, inRange, crcOk)
        PROVE  Leaves
    BY <1>a, <1>1, <1>4, <1>5, <1>9 DEF onFsListRequest
  <1> HIDE DEF Untouched, MaySend, Answer
  <1> QED BY <1>2, <1>6, <1>7, <1>8, <1>9, <1>b, <1>c DEF Ask, onRebootRequest, onNetUpdateRequest, onPowerModeRequest

\* Outside a configuration request the file of records is not there.
LEMMA NoRecordAtWork ==
  ASSUME ServedInv, fx.stage = "none", UNCHANGED fixedVars
  PROVE  RecordingInv' /\ Settled(parked)'
  BY DEF ServedInv, UseInv, RecordingInv, fixedVars, Settled

\* A file that is created with the state word of a live one.
LEMMA PlainCreate ==
  ASSUME "plain_info" \in Client, NEW n, NEW info \in StateWords, CreateWith(n, info)
  PROVE  CreateCall(n, info.ro) /\ info.ro \in BOOLEAN
  <1>1. info \in FileInfo /\ info.del = FALSE /\ info.dep = FALSE
    BY DEF StateWords, FileInfo
  <1> DEFINE live == [DefaultInfo EXCEPT !.ro = info.ro]
  <1>2. live \in FileInfo
    BY <1>1, LiveWords DEF FileInfo
  <1>3. live.del = FALSE /\ live.dep = FALSE /\ live.ro = info.ro
    BY DEF DefaultInfo
  <1>4. info = live
    <2> HIDE DEF live
    <2> QED BY <1>1, <1>2, <1>3 DEF FileInfo
  <1>5. info.ro \in BOOLEAN
    BY <1>1 DEF FileInfo
  <1> QED BY <1>4, <1>5 DEF CreateCall

LEMMA UpInfoUse ==
  ASSUME ServedInv, TransfersAreCareful, NEW n \in Names, NEW size,
         NEW method \in {"NORMAL", "OVERRIDE", "APPEND"}, NEW info \in StateWords,
         UpInfo(n, size, method, info)
  PROVE  UseInv' /\ ContentStep
  <1>a. req = NoRequest /\ UNCHANGED fixedVars /\ op' = "APPEND"
    BY DEF UpInfo, MaySend
  <1>b. req.kind = "none" /\ pc = "idle" /\ fx.stage = "none" /\ RecordingInv' /\ Settled(parked)'
    BY <1>a, NoRequestAtWork, NoRecordAtWork
  <1>c. ContentInv /\ OrderInv /\ UdpTypeOK
    BY DEF ServedInv, TransferInv, ContentInv, BytesInv
  <1>d. n # NoName
    BY ValueAssumption
  <1> SUFFICES RenamingInv' /\ SendingInv' /\ ContentStep
    BY <1>a, <1>b DEF UseInv, ReadingInv
  <1>1. CASE OpenCall(n) /\ req' = [NoRequest EXCEPT !.kind = "upinfo", !.name = n, !.info = info, !.stage = "delete"]
             /\ asked' = n
    <2>1. Copy' /\ file'.name = n
      BY <1>1, <1>c, OpenCopies
    <2>2. req'.kind = "upinfo" /\ req'.stage = "delete" /\ req'.name = n
      BY <1>1 DEF NoRequest
    <2>3. ContentStep
      BY <1>1 DEF ContentStep
    <2> QED BY <1>1, <2>1, <2>2, <2>3 DEF RenamingInv, SendingInv
  <1>2. CASE OpenCall(n) /\ MayResume(n) /\ req' = NoRequest /\ asked' = n
    <2>1. /\ \A k \in Named(n) : fb[k].length # Empty \/ fb[k].cluster = Empty
          /\ \A k \in Named(n) : fb[k].length # Empty => Ended(fb[k])
      BY <1>2 DEF MayResume, TransfersAreCareful, TransfersAreAlone
    <2>2. Ready'
      BY <1>2, <1>c, <2>1, OpenReady
    <2>3. file'.name = n
      BY <1>2, <1>c, OpenCopies
    <2>4. req'.kind = "none"
      BY <1>2 DEF NoRequest
    <2>5. ContentStep
      BY <1>2 DEF ContentStep
    <2> QED BY <1>2, <2>2, <2>3, <2>4, <2>5 DEF RenamingInv, SendingInv
  <1>3. CASE /\ file' = [NoFile EXCEPT !.name = n] /\ req' = NoRequest
             /\ UNCHANGED <<flash, ftl, gcbuf, pc, job, ret, crashes>>
    <2>1. Settled(file')
      BY <1>3, <1>b, <1>c, FileIsSettled
    <2>2. HandOver
      BY <1>3, <1>b, <2>1 DEF HandOver
    <2>3. file'.block = Empty /\ req'.kind = "none"
      BY <1>3 DEF NoFile, NoRequest
    <2>4. Ready'
      BY <2>3 DEF Ready, Known, Sized
    <2>5. ContentStep
      BY <2>2 DEF ContentStep
    <2> QED BY <2>3, <2>4, <2>5 DEF RenamingInv, SendingInv
  <1>4. CASE CreateWith(n, info) /\ req' = [NoRequest EXCEPT !.kind = "upinfo", !.name = n, !.info = info, !.stage = "created"]
             /\ asked' = n
    <2>1. file'.name = n /\ pc' = "create"
      BY <1>4 DEF CreateWith, Goto, NoFile
    <2>2. req'.kind = "upinfo" /\ req'.stage = "created" /\ req'.name = n
      BY <1>4 DEF NoRequest
    <2>3. ContentStep
      BY <1>4, PlainCreate, ValueAssumption DEF ContentStep, TransfersAreCareful
    <2> QED BY <1>4, <2>1, <2>2, <2>3 DEF RenamingInv, SendingInv
  <1>5. \/ OpenCall(n) /\ req' = [NoRequest EXCEPT !.kind = "upinfo", !.name = n, !.info = info, !.stage = "delete"]
           /\ asked' = n
        \/ OpenCall(n) /\ MayResume(n) /\ req' = NoRequest /\ asked' = n
        \/ /\ file' = [NoFile EXCEPT !.name = n] /\ req' = NoRequest
           /\ UNCHANGED <<flash, ftl, gcbuf, pc, job, ret, crashes>>
        \/ CreateWith(n, info) /\ req' = [NoRequest EXCEPT !.kind = "upinfo", !.name = n, !.info = info, !.stage = "created"]
           /\ asked' = n
    <2>1. asked' = IF method = "APPEND" /\ Named(n) = {} THEN NoName ELSE n
      BY DEF UpInfo
    <2>2. method = "APPEND" => MayResume(n)
      BY DEF UpInfo
    <2> DEFINE call == [NoRequest EXCEPT !.kind = "upinfo", !.name = n, !.info = info]
    <2>3. \/ method = "OVERRIDE" /\ OpenCall(n) /\ req' = [call EXCEPT !.stage = "delete"]
          \/ method = "APPEND" /\ Named(n) # {} /\ OpenCall(n) /\ req' = NoRequest
          \/ method = "APPEND" /\ file' = [NoFile EXCEPT !.name = n] /\ req' = NoRequest
             /\ UNCHANGED <<flash, ftl, gcbuf, pc, job, ret, crashes>>
          \/ (method # "APPEND") /\ CreateWith(n, info) /\ req' = [call EXCEPT !.stage = "created"]
      BY DEF UpInfo, Answer
    <2>4. /\ [call EXCEPT !.stage = "delete"] =
               [NoRequest EXCEPT !.kind = "upinfo", !.name = n, !.info = info, !.stage = "delete"]
          /\ [call EXCEPT !.stage = "created"] =
               [NoRequest EXCEPT !.kind = "upinfo", !.name = n, !.info = info, !.stage = "created"]
      BY DEF NoRequest
    <2> HIDE DEF call
    <2> QED BY <2>1, <2>2, <2>3, <2>4
  <1> QED BY <1>1, <1>2, <1>3, <1>4, <1>5

LEMMA DownInfoUse ==
  ASSUME ServedInv, NEW n \in Names, NEW right, NEW crcOk, DownInfo(n, right, crcOk)
  PROVE  UseInv' /\ ContentStep
  <1>a. req = NoRequest /\ req' = NoRequest /\ UNCHANGED fixedVars /\ op' = "READ"
    BY DEF DownInfo, MaySend, Answer
  <1>b. req.kind = "none" /\ pc = "idle" /\ fx.stage = "none" /\ RecordingInv' /\ Settled(parked)' /\ req'.kind = "none"
    BY <1>a, NoRequestAtWork, NoRecordAtWork
  <1>c. OrderInv
    BY DEF ServedInv, ContentInv, BytesInv
  <1> SUFFICES (asked' # NoName => Copy' /\ file'.name = asked') /\ ContentStep
    BY <1>a, <1>b DEF UseInv, ReadingInv, RenamingInv, SendingInv
  <1>1. CASE OpenCall(n) /\ asked' = n
    BY <1>1, <1>c, OpenCopies DEF ContentStep
  <1>2. CASE /\ file' = [file EXCEPT !.name = n] /\ asked' = NoName
             /\ UNCHANGED <<flash, ftl, gcbuf, pc, job, ret, crashes>>
    <2>1. HandOver
      BY <1>2, <1>b, <1>c, FileIsSettled DEF HandOver
    <2> QED BY <1>2, <2>1 DEF ContentStep
  <1> QED BY <1>1, <1>2 DEF DownInfo

LEMMA FreezeUse ==
  ASSUME ServedInv, TransfersAreCareful, NEW n \in Names, NEW ok, Freeze(n, ok)
  PROVE  UseInv' /\ ContentStep
  <1>a. req = NoRequest /\ req' = NoRequest /\ UNCHANGED fixedVars /\ op = "INIT"
    BY DEF Freeze, MaySend, Answer, TransfersAreCareful, TransfersAreAlone
  <1>b. req.kind = "none" /\ pc = "idle" /\ fx.stage = "none" /\ RecordingInv' /\ Settled(parked)' /\ req'.kind = "none"
    BY <1>a, NoRequestAtWork, NoRecordAtWork
  <1>c. OrderInv
    BY DEF ServedInv, ContentInv, BytesInv
  <1>1. CASE OpenCall(n) /\ op' = "READ" /\ asked' = n
    <2>1. Copy' /\ file'.name = n /\ ContentStep
      BY <1>1, <1>c, OpenCopies DEF ContentStep
    <2> QED BY <1>1, <1>b, <2>1 DEF UseInv, ReadingInv, RenamingInv, SendingInv
  <1>2. CASE OpenCall(n) /\ UNCHANGED op
    BY <1>2, <1>a, <1>b DEF UseInv, ReadingInv, RenamingInv, SendingInv, ContentStep
  <1>3. CASE UNCHANGED <<vars, op>>
    BY <1>3, <1>a, <1>b DEF UseInv, ReadingInv, RenamingInv, SendingInv, ContentStep
  <1> QED BY <1>1, <1>2, <1>3 DEF Freeze

LEMMA RenameUse ==
  ASSUME ServedInv, TransfersAreCareful, NEW n \in Names, NEW m \in Names, NEW right, NEW crcOk,
         Rename(n, m, right, crcOk)
  PROVE  UseInv' /\ ContentStep
  <1>a. req = NoRequest /\ UNCHANGED <<fixedVars, op>> /\ op = "INIT"
    BY DEF Rename, MaySend, TransfersAreCareful, TransfersAreAlone
  <1>b. req.kind = "none" /\ pc = "idle" /\ fx.stage = "none" /\ RecordingInv' /\ Settled(parked)'
    BY <1>a, NoRequestAtWork, NoRecordAtWork
  <1>c. OrderInv
    BY DEF ServedInv, ContentInv, BytesInv
  <1>1. CASE OpenCall(n) /\ req' = [NoRequest EXCEPT !.kind = "rename", !.stage = "rename", !.to = m]
    <2>1. Copy' /\ pc' = "idle" /\ ContentStep
      BY <1>1, <1>c, OpenCopies DEF ContentStep
    <2>2. req'.kind = "rename" /\ req'.to = m
      BY <1>1 DEF NoRequest
    <2> QED BY <1>a, <1>b, <2>1, <2>2 DEF UseInv, ReadingInv, RenamingInv, SendingInv
  <1>2. CASE /\ file' = [file EXCEPT !.name = n] /\ req' = NoRequest
             /\ UNCHANGED <<flash, ftl, gcbuf, pc, job, ret, crashes>>
    <2>1. HandOver
      BY <1>2, <1>b, <1>c, FileIsSettled DEF HandOver
    <2>2. req'.kind = "none"
      BY <1>2, <1>a, <1>b
    <2> QED BY <1>a, <1>b, <2>1, <2>2 DEF UseInv, ReadingInv, RenamingInv, SendingInv, ContentStep
  <1> QED BY <1>1, <1>2 DEF Rename, Answer

LEMMA DeleteUse ==
  ASSUME ServedInv, TransfersAreCareful, NEW n \in Names, NEW right, NEW crcOk,
         Delete(n, right, crcOk)
  PROVE  UseInv' /\ ContentStep
  <1>a. req = NoRequest /\ UNCHANGED <<fixedVars, op>> /\ op = "INIT"
    BY DEF Delete, MaySend, TransfersAreCareful, TransfersAreAlone
  <1>b. req.kind = "none" /\ pc = "idle" /\ fx.stage = "none" /\ RecordingInv' /\ Settled(parked)'
    BY <1>a, NoRequestAtWork, NoRecordAtWork
  <1>c. OrderInv
    BY DEF ServedInv, ContentInv, BytesInv
  <1>1. CASE OpenCall(n) /\ req' = [NoRequest EXCEPT !.kind = "delete", !.stage = "delete"]
    <2>1. Copy' /\ pc' = "idle" /\ ContentStep
      BY <1>1, <1>c, OpenCopies DEF ContentStep
    <2>2. req'.kind = "delete" /\ req'.stage = "delete"
      BY <1>1 DEF NoRequest
    <2> QED BY <1>a, <1>b, <2>1, <2>2 DEF UseInv, ReadingInv, RenamingInv, SendingInv
  <1>2. CASE (OpenCall(n) \/ UNCHANGED vars) /\ req' = NoRequest
    <2>1. req'.kind = "none" /\ ContentStep
      BY <1>2, <1>a, <1>b DEF ContentStep
    <2> QED BY <1>a, <1>b, <2>1 DEF UseInv, ReadingInv, RenamingInv, SendingInv
  <1> QED BY <1>1, <1>2 DEF Delete, Answer

\* write_file from a File in order.
LEMMA WriteIsReady ==
  ASSUME ServedInv, TransfersAreCareful, NEW len \in 1 .. DataArea, NEW method \in {"OVERRIDE", "APPEND"},
         WriteCall(len, method), Ready
  PROVE  /\ ContentStep /\ file' = file
         /\ pc' = "idle" => Ready'
         /\ pc' # "idle" /\ method = "APPEND" => Busy' /\ file.block # Empty
  <1>1. ContentStep
    BY DEF ContentStep, ReadyWrite
  <1>2. CASE pc' = "idle"
    <2>1. UNCHANGED <<flash, file>>
      BY <1>2 DEF WriteCall, Reject, Goto, flash
    <2> QED BY <1>1, <1>2, <2>1 DEF Ready, Known, Sized, Attached, flash
  <1>3. CASE pc' # "idle"
    <2>1. UNCHANGED file /\ file.block # Empty /\ (method = "APPEND" => pc' \in {"walk", "alloc"})
      BY <1>3 DEF WriteCall, Reject, Goto
    <2> QED BY <1>1, <1>3, <2>1 DEF Busy
  <1> QED BY <1>2, <1>3

LEMMA UpDataUse ==
  ASSUME ServedInv, TransfersAreCareful, NEW len \in WriteLens, UpData(len)
  PROVE  UseInv' /\ ContentStep
  <1>a. /\ req = NoRequest /\ UNCHANGED <<fixedVars, op, asked>> /\ op = "APPEND"
        /\ WriteCall(len, "APPEND") /\ req' = [NoRequest EXCEPT !.kind = "updata", !.stage = "written"]
    BY DEF UpData, MaySend, UpDataRefusal
  <1>b. req.kind = "none" /\ pc = "idle" /\ fx.stage = "none" /\ RecordingInv' /\ Settled(parked)'
    BY <1>a, NoRequestAtWork, NoRecordAtWork
  <1>c. len \in 1 .. DataArea
    BY SizeAssumption DEF TransfersAreCareful, ShortPackets
  <1>d. Ready /\ (file.block # Empty => file.name = asked)
    BY <1>a, <1>b DEF ServedInv, UseInv, SendingInv
  <1>1. /\ ContentStep /\ file' = file
        /\ pc' = "idle" => Ready'
        /\ pc' # "idle" => Busy' /\ file.block # Empty
    BY <1>a, <1>c, <1>d, WriteIsReady
  <1>2. req'.kind = "updata" /\ req'.stage = "written"
    BY <1>a DEF NoRequest
  <1> QED BY <1>a, <1>b, <1>d, <1>1, <1>2 DEF UseInv, ReadingInv, RenamingInv, SendingInv

LEMMA FormatUse ==
  ASSUME ServedInv, TransfersAreCareful, Format
  PROVE  UseInv' /\ ContentStep
  <1>a. /\ req = NoRequest /\ UNCHANGED <<fixedVars, op>> /\ op = "INIT" /\ FormatCall
        /\ req' = [NoRequest EXCEPT !.kind = "format", !.stage = "formatted"]
    BY DEF Format, MaySend, TransfersAreCareful, TransfersAreAlone
  <1>b. req.kind = "none" /\ pc = "idle" /\ fx.stage = "none" /\ RecordingInv' /\ Settled(parked)'
    BY <1>a, NoRequestAtWork, NoRecordAtWork
  <1>1. req'.kind = "format" /\ req'.stage = "formatted"
    BY <1>a DEF NoRequest
  <1> QED BY <1>a, <1>b, <1>1 DEF UseInv, ReadingInv, RenamingInv, SendingInv, ContentStep

LEMMA ConfigWriteUse ==
  ASSUME ServedInv, TransfersAreCareful, NEW n \in Names, ConfigWrite(n)
  PROVE  UseInv' /\ ContentStep
  <1>a. /\ req = NoRequest /\ UNCHANGED op /\ op = "INIT" /\ MayResume(n) /\ FixedOpen(n)
        /\ req' = [NoRequest EXCEPT !.kind = "config", !.stage = "fixed", !.name = n]
    BY DEF ConfigWrite, MaySend, TransfersAreCareful, TransfersAreAlone
  <1>b. pc = "idle" /\ req'.kind = "config"
    BY <1>a, NoRequestAtWork DEF NoRequest
  <1>c. ContentInv /\ OrderInv
    BY DEF ServedInv, ContentInv, BytesInv
  <1>d. Settled(parked)' /\ fx'.stage = "opened"
    <2>1. FixedOpen(n)
      BY <1>a
    <2>2. parked' = file /\ \E had : fx' = [stage |-> "opened", had |-> had]
      BY <2>1 DEF FixedOpen
    <2>3. Settled(file)
      BY <1>b, <1>c, FileIsSettled
    <2> QED BY ONLY <2>2, <2>3 DEF Settled
  <1> SUFFICES (IF pc' = "idle" THEN Ready' ELSE Creating("create")') /\ ContentStep
    BY <1>a, <1>b, <1>d DEF UseInv, ReadingInv, RenamingInv, SendingInv, RecordingInv
  <1>1. CASE OpenCall(n)
    <2>1. /\ \A k \in Named(n) : fb[k].length # Empty \/ fb[k].cluster = Empty
          /\ \A k \in Named(n) : fb[k].length # Empty => Ended(fb[k])
      BY <1>a DEF MayResume, TransfersAreCareful, TransfersAreAlone
    <2>2. Ready'
      BY <1>1, <1>c, <2>1, OpenReady
    <2>3. pc' = "idle"
      BY <1>1 DEF OpenCall
    <2> QED BY <1>1, <2>2, <2>3 DEF ContentStep
  <1>2. CASE CreateCall(n, FALSE)
    <2>1. pc' = "create" /\ Creating("create")'
      BY <1>2, CreatedHasNothing DEF CreateCall, Creating
    <2> QED BY <1>2, <2>1 DEF ContentStep
  <1> QED BY <1>a, <1>1, <1>2 DEF FixedOpen

LEMMA AskUse ==
  ASSUME ServedInv, TransfersAreCareful, Ask
  PROVE  UseInv' /\ ContentStep
  BY AskLeaves, LeavesUse, UpInfoUse, DownInfoUse, DeleteUse, RenameUse, FreezeUse, ConfigWriteUse,
     UpDataUse, FormatUse

\* A request that waits has no file of records, unless it is the one that writes it.
LEMMA ServedRecord ==
  ASSUME ServedInv, req.kind \in {"upinfo", "updata", "rename", "delete", "format"}, UNCHANGED fixedVars
  PROVE  RecordingInv' /\ Settled(parked)' /\ op \in {"INIT", "APPEND"}
  <1>1. fx.stage = "none"
    BY DEF ServedInv, TransferInv, RequestInv
  <1>2. op \in {"INIT", "APPEND"}
    BY DEF ServedInv, TransferInv, UdpTypeOK, UseInv, ReadingInv
  <1> QED BY <1>1, <1>2, NoRecordAtWork

LEMMA UpInfoDeleteUse ==
  ASSUME ServedInv, UpInfoDelete
  PROVE  UseInv' /\ ContentStep
  <1>a. /\ req.kind = "upinfo" /\ req.stage = "delete" /\ pc = "idle" /\ req \in Request
        /\ req' = [req EXCEPT !.stage = "create"] /\ DeleteCall /\ UNCHANGED <<fixedVars, op, asked>>
    BY DEF UpInfoDelete, Returned, Await, ServedInv, TransferInv, UdpTypeOK
  <1>b. RecordingInv' /\ Settled(parked)' /\ op' \in {"INIT", "APPEND"}
    BY <1>a, ServedRecord
  <1>c. req'.kind = "upinfo" /\ req'.stage = "create" /\ req'.name = req.name
    BY <1>a DEF Request
  <1>d. Copy /\ req.name = asked /\ asked \in Names
    BY <1>a DEF ServedInv, UseInv, SendingInv
  <1>1. Known
    BY <1>a, <1>d, CopyIsWhole DEF ServedInv
  <1>2. ContentStep
    BY <1>a, <1>1 DEF ContentStep, OrderlyDelete
  <1> QED BY <1>a, <1>b, <1>c, <1>d, <1>2 DEF UseInv, ReadingInv, RenamingInv, SendingInv

LEMMA UpInfoCreateUse ==
  ASSUME ServedInv, TransfersAreCareful, UpInfoCreate
  PROVE  UseInv' /\ ContentStep
  <1>a. /\ req.kind = "upinfo" /\ pc = "idle" /\ req \in Request
        /\ req' = [req EXCEPT !.stage = "created"] /\ CreateWith(req.name, req.info)
        /\ UNCHANGED <<fixedVars, op, asked>>
    BY DEF UpInfoCreate, Returned, Await, ServedInv, TransferInv, UdpTypeOK
  <1>b. RecordingInv' /\ Settled(parked)' /\ op' \in {"INIT", "APPEND"}
    BY <1>a, ServedRecord
  <1>c. req'.kind = "upinfo" /\ req'.stage = "created" /\ req'.name = req.name /\ req.info \in StateWords
    BY <1>a DEF Request
  <1>d. req.name = asked /\ asked \in Names
    BY <1>a DEF ServedInv, UseInv, SendingInv
  <1>1. file'.name = asked /\ pc' = "create"
    BY <1>a, <1>d DEF CreateWith, Goto, NoFile
  <1>2. ContentStep
    BY <1>a, <1>c, <1>d, PlainCreate DEF ContentStep, TransfersAreCareful
  <1> QED BY <1>a, <1>b, <1>c, <1>d, <1>1, <1>2 DEF UseInv, ReadingInv, RenamingInv, SendingInv

LEMMA UpDataWrittenUse ==
  ASSUME ServedInv, UpDataWritten
  PROVE  UseInv' /\ ContentStep
  <1>a. /\ req.kind = "updata" /\ req.stage = "written" /\ pc = "idle" /\ req \in Request
        /\ UNCHANGED <<fixedVars, op, asked>>
    BY DEF UpDataWritten, Returned, ServedInv, TransferInv, UdpTypeOK
  <1>b. RecordingInv' /\ Settled(parked)' /\ op' \in {"INIT", "APPEND"}
    BY <1>a, ServedRecord
  <1>c. Ready /\ (file.block # Empty => file.name = asked)
    BY <1>a DEF ServedInv, UseInv, SendingInv
  <1>1. CASE FinishCall /\ Await("finished")
    <2>1. req'.kind = "updata" /\ req'.stage = "finished"
      BY <1>a, <1>1 DEF Await, Request
    <2>2. pc' = "idle" \/ Creating("finish")'
      BY <1>1, FinishCallKeeps
    <2>3. ContentStep
      BY <1>1, <1>c DEF ContentStep, ReadyFinish
    <2> QED BY <1>a, <1>b, <2>1, <2>2, <2>3 DEF UseInv, ReadingInv, RenamingInv, SendingInv
  <1>2. CASE req' = NoRequest /\ UNCHANGED vars
    <2>1. req'.kind = "none" /\ ContentStep
      BY <1>2 DEF NoRequest, ContentStep
    <2>2. Ready' /\ (file'.block # Empty => file'.name = asked')
      BY <1>2, <1>a, <1>c DEF Ready, Known, Sized, Attached, vars
    <2> QED BY <1>a, <1>b, <2>1, <2>2 DEF UseInv, ReadingInv, RenamingInv, SendingInv
  <1> QED BY <1>1, <1>2 DEF UpDataWritten, Answer

LEMMA UpDataFinishedUse ==
  ASSUME ServedInv, UpDataFinished
  PROVE  UseInv' /\ ContentStep
  <1>a. /\ req.kind = "updata" /\ req' = NoRequest /\ op' = "INIT" /\ UNCHANGED <<vars, fixedVars>>
    BY DEF UpDataFinished, Returned, Answer, Untouched
  <1>b. RecordingInv' /\ Settled(parked)'
    BY <1>a, ServedRecord
  <1>1. req'.kind = "none" /\ ContentStep
    BY <1>a DEF NoRequest, ContentStep
  <1> QED BY <1>a, <1>b, <1>1 DEF UseInv, ReadingInv, RenamingInv, SendingInv

LEMMA RenameFileUse ==
  ASSUME ServedInv, RenameFile
  PROVE  UseInv' /\ ContentStep
  <1>a. /\ req.kind = "rename" /\ req.stage = "rename" /\ pc = "idle" /\ req \in Request
        /\ req' = [req EXCEPT !.stage = "renamed"] /\ RenameCall(req.to) /\ UNCHANGED <<fixedVars, op>>
    BY DEF RenameFile, Returned, Await, ServedInv, TransferInv, UdpTypeOK
  <1>b. RecordingInv' /\ Settled(parked)'
    BY <1>a, ServedRecord
  <1>c. req'.kind = "rename" /\ req'.stage = "renamed"
    BY <1>a DEF Request
  <1>d. op = "INIT" /\ Copy /\ req.to \in Names
    BY <1>a DEF ServedInv, UseInv, RenamingInv
  <1>1. Known /\ (file.length # Empty => Has(next, data, file.cluster, file.length))
    BY <1>a, <1>d, CopyIsWhole DEF ServedInv
  <1>2. ContentStep
    BY <1>a, <1>d, <1>1 DEF ContentStep, WholeRename
  <1> QED BY <1>a, <1>b, <1>c, <1>d, <1>2 DEF UseInv, ReadingInv, RenamingInv, SendingInv

LEMMA DeleteFileUse ==
  ASSUME ServedInv, DeleteFile
  PROVE  UseInv' /\ ContentStep
  <1>a. /\ req.kind = "delete" /\ req.stage = "delete" /\ pc = "idle" /\ req \in Request
        /\ req' = [req EXCEPT !.stage = "deleted"] /\ DeleteCall /\ UNCHANGED <<fixedVars, op>>
    BY DEF DeleteFile, Returned, Await, ServedInv, TransferInv, UdpTypeOK
  <1>b. RecordingInv' /\ Settled(parked)'
    BY <1>a, ServedRecord
  <1>c. req'.kind = "delete" /\ req'.stage = "deleted"
    BY <1>a DEF Request
  <1>d. op = "INIT" /\ Copy
    BY <1>a DEF ServedInv, UseInv, RenamingInv
  <1>1. Known
    BY <1>a, <1>d, CopyIsWhole DEF ServedInv
  <1>2. ContentStep
    BY <1>a, <1>1 DEF ContentStep, OrderlyDelete
  <1> QED BY <1>a, <1>b, <1>c, <1>d, <1>2 DEF UseInv, ReadingInv, RenamingInv, SendingInv

LEMMA CallAnsweredUse ==
  ASSUME ServedInv, CallAnswered
  PROVE  UseInv' /\ ContentStep
  <1>a. /\ req.kind \in {"upinfo", "rename", "delete", "format"} /\ pc = "idle"
        /\ req.kind = "upinfo" => req.stage = "created"
        /\ req' = NoRequest /\ UNCHANGED <<vars, fixedVars, op>>
        /\ asked' = IF ret = "FILE_ALREADY_EXIST" THEN NoName ELSE asked
    BY DEF CallAnswered, Returned, Answer, Untouched
  <1>b. RecordingInv' /\ Settled(parked)' /\ op' \in {"INIT", "APPEND"}
    BY <1>a, ServedRecord
  <1>1. req'.kind = "none" /\ ContentStep
    BY <1>a DEF NoRequest, ContentStep
  <1>2. CASE req.kind = "upinfo"
    <2>1. file.name = asked /\ Ready /\ (ret # "CREATE_FILE_SUCCESS" => file.block = Empty)
      BY <1>a, <1>2 DEF ServedInv, UseInv, SendingInv
    <2>2. Ready' /\ (file'.block # Empty => file'.name = asked')
      BY <1>a, <2>1 DEF Ready, Known, Sized, Attached, vars
    <2> QED BY <1>a, <1>b, <1>1, <2>2 DEF UseInv, ReadingInv, RenamingInv, SendingInv
  <1>3. CASE req.kind # "upinfo"
    <2>1. op' = "INIT"
      BY <1>a, <1>3 DEF ServedInv, UseInv, RenamingInv
    <2> QED BY <1>a, <1>b, <1>1, <2>1 DEF UseInv, ReadingInv, RenamingInv, SendingInv
  <1> QED BY <1>2, <1>3

LEMMA ConfigStepUse ==
  ASSUME ServedInv, TransfersAreCareful, ConfigStep
  PROVE  UseInv' /\ ContentStep
  <1>a. FixedStep /\ UNCHANGED <<op, req, asked, parked>> /\ pc = "idle" /\ fx.stage # "none" /\ fx \in Record
    BY DEF ConfigStep, udpVars, FixedStep, FixedDelete, FixedCreate, FixedOverride, FixedAppend, FixedFinish,
           Opened, At, ServedInv, TransferInv, UdpTypeOK
  <1>b. req.kind = "config" /\ op = "INIT"
    BY <1>a DEF ServedInv, TransferInv, RequestInv
  <1>c. ContentInv /\ OrderInv
    BY DEF ServedInv, ContentInv, BytesInv
  <1>d. Settled(parked)'
    BY <1>a DEF ServedInv, UseInv, Settled
  <1> SUFFICES RecordingInv' /\ ContentStep
    BY <1>a, <1>b, <1>d DEF UseInv, ReadingInv, RenamingInv, SendingInv
  <1>e. \A s : Stage(s) => fx'.stage = s
    BY <1>a DEF Stage, Record
  <1>1. CASE FixedDelete
    <2>1. fx.stage = "opened" /\ DeleteCall /\ fx'.stage = "rotate" /\ file.block # Empty
      BY <1>1, <1>e DEF FixedDelete, Opened, At, DeleteCall
    <2>2. Known
      BY <1>a, <2>1 DEF ServedInv, UseInv, RecordingInv, Ready
    <2>3. file.name \in Names
      BY <1>a, <1>c, <2>1, FileIsSettled DEF Settled
    <2>4. file'.name \in Names /\ pc' = "discard" /\ job'.op = "delete"
      BY <2>1, <2>3 DEF DeleteCall, Goto, NoJob
    <2> QED BY <2>1, <2>2, <2>4 DEF RecordingInv, ContentStep, OrderlyDelete
  <1>2. CASE FixedCreate
    <2>1. fx.stage = "rotate" /\ CreateCall(file.name, FALSE) /\ fx'.stage = "override"
      BY <1>2, <1>e DEF FixedCreate, At
    <2>2. file.name \in Names
      BY <2>1 DEF ServedInv, UseInv, RecordingInv
    <2>3. pc' = "create" /\ Creating("create")'
      BY <2>1, CreatedHasNothing DEF CreateCall, Creating
    <2> QED BY <2>1, <2>2, <2>3 DEF RecordingInv, ContentStep
  <1>f. Section \in 1 .. DataArea
    BY RecordAssumption, SizeAssumption DEF TransfersAreCareful
  <1>3. CASE FixedOverride
    <2>1. fx.stage = "override" /\ WriteCall(Section, "OVERRIDE") /\ fx'.stage = "overridden"
      BY <1>3, <1>e DEF FixedOverride, At
    <2>2. Ready
      BY <1>a, <2>1 DEF ServedInv, UseInv, RecordingInv
    <2>3. ContentStep
      BY <1>f, <2>1, <2>2, WriteIsReady
    <2> QED BY <2>1, <2>3 DEF RecordingInv
  <1>4. CASE FixedAppend
    <2>1. fx.stage = "opened" /\ WriteCall(Section, "APPEND") /\ fx'.stage = "append"
      BY <1>4, <1>e DEF FixedAppend, Opened, At
    <2>2. Ready
      BY <1>a, <2>1 DEF ServedInv, UseInv, RecordingInv
    <2>3. ContentStep /\ (IF pc' = "idle" THEN Ready' ELSE Busy')
      BY <1>f, <2>1, <2>2, WriteIsReady
    <2> QED BY <2>1, <2>3 DEF RecordingInv
  <1>5. CASE FixedFinish
    <2>1. fx.stage = "append" /\ FinishCall /\ fx'.stage = "finish"
      BY <1>5, <1>e DEF FixedFinish, At
    <2>2. Ready
      BY <1>a, <2>1 DEF ServedInv, UseInv, RecordingInv
    <2> QED BY <2>1, <2>2 DEF RecordingInv, ContentStep, ReadyFinish
  <1> QED BY <1>a, <1>1, <1>2, <1>3, <1>4, <1>5 DEF FixedStep

LEMMA ConfigAnsweredUse ==
  ASSUME ServedInv, ConfigAnswered
  PROVE  UseInv' /\ ContentStep
  <1>a. /\ fx.stage # "none" /\ pc = "idle" /\ fx' = NoRecord /\ req' = NoRequest
        /\ file' = parked /\ parked' = NoFile /\ UNCHANGED op
        /\ UNCHANGED <<flash, ftl, gcbuf, pc, job, ret, crashes>>
    BY DEF ConfigAnswered, FixedReturn, At, Answer
  <1>b. op = "INIT" /\ req'.kind = "none" /\ fx'.stage = "none"
    BY <1>a DEF ServedInv, TransferInv, RequestInv, NoRequest, NoRecord
  <1>c. Settled(parked) /\ Settled(NoFile)
    BY <1>a, FileIsSettled DEF ServedInv, UseInv, ContentInv, BytesInv
  <1>d. Settled(file') /\ Settled(parked)'
    BY ONLY <1>a, <1>c DEF Settled
  <1>1. ContentStep
    BY <1>a, <1>d DEF ContentStep, HandOver
  <1> QED BY <1>a, <1>b, <1>d, <1>1 DEF UseInv, ReadingInv, RenamingInv, SendingInv, RecordingInv

LEMMA RestartUse ==
  ASSUME ServedInv, TransfersAreCareful, Restart
  PROVE  UseInv' /\ ContentStep
  <1>a. /\ Crash /\ pc = "idle" /\ fx' = NoRecord /\ req' = NoRequest /\ op' = "INIT" /\ parked' = NoFile
    BY DEF Restart, Crash, TransfersAreCareful
  <1>b. req'.kind = "none" /\ fx'.stage = "none"
    BY <1>a DEF NoRequest, NoRecord
  <1>c. Settled(NoFile)
    BY <1>a, FileIsSettled DEF ServedInv, ContentInv, BytesInv
  <1>d. Settled(parked)'
    BY ONLY <1>a, <1>c DEF Settled
  <1>1. ContentStep
    BY <1>a DEF ContentStep, OrderlyCrash
  <1> QED BY <1>a, <1>b, <1>d, <1>1 DEF UseInv, ReadingInv, RenamingInv, SendingInv, RecordingInv

LEMMA CallStepUse ==
  ASSUME ServedInv, CallStep
  PROVE  UseInv' /\ ContentStep
  <1>a. /\ Step /\ pc # "idle" /\ UNCHANGED <<parked, fx, op, req, asked>>
    BY StepsAreOfCalls DEF CallStep, fixedVars, udpVars
  <1>b. /\ TypeOK /\ ContentInv /\ BytesInv /\ RequestInv /\ UploadInv /\ UseInv
    BY DEF ServedInv, TransferInv, UdpTypeOK, ContentInv
  <1>c. ContentStep /\ CarefulStep
    BY <1>a, <1>b, ContentIsCareful DEF ContentStep
  <1>d. req.kind # "none"
    BY <1>a, <1>b DEF RequestInv
  <1>1. ReadingInv' /\ Settled(parked)'
    BY <1>a, <1>b, <1>d DEF UseInv, ReadingInv, Settled
  <1>2. RenamingInv'
    BY <1>a, <1>b DEF UseInv, RenamingInv
  <1>e. ASSUME Creating("create")
        PROVE  /\ file'.name = file.name
               /\ IF pc' = "idle" THEN Ready' /\ (ret' # "CREATE_FILE_SUCCESS" => file'.block = Empty)
                                  ELSE Creating("create")'
    <2>1. file'.name = file.name /\ (pc' = "idle" => pc = "create")
      BY <1>a, <1>b, <1>e, CreateKeeps DEF Creating
    <2>2. pc' = "idle" \/ Creating("create")'
      BY <1>a, <1>b, <1>e, CreatingSteps
    <2>3. pc' = "idle" => Ready' /\ (ret' # "CREATE_FILE_SUCCESS" => file'.block = Empty)
      BY <1>b, <1>c, <1>e, <2>1, CreateReturns DEF Creating
    <2> QED BY <2>1, <2>2, <2>3
  <1>f. ASSUME Busy
        PROVE  /\ file'.name = file.name
               /\ IF pc' = "idle" THEN Ready' ELSE Busy'
    BY <1>a, <1>b, <1>c, <1>f, BusyKeeps, BusyReturns
  <1>3. SendingInv'
    <2>1. CASE req.kind = "upinfo"
      <3>1. req.name = asked /\ asked \in Names /\ (req.stage = "created" => file.name = asked)
        BY <1>b, <2>1 DEF UseInv, SendingInv
      <3>2. req.stage # "delete" /\ (req.stage = "created" => Creating("create"))
        BY <1>a, <1>b, <2>1 DEF UploadInv
      <3> QED BY <1>a, <1>e, <2>1, <3>1, <3>2 DEF SendingInv
    <2>2. CASE req.kind = "updata"
      <3>1. /\ req.stage \in {"written", "finished"}
            /\ req.stage = "written" => Busy /\ file.name = asked
            /\ req.stage = "finished" => Creating("finish")
        BY <1>a, <1>b, <2>2 DEF UseInv, SendingInv
      <3>2. req.stage = "finished" => pc' = "idle" \/ Creating("finish")'
        BY <1>a, <1>b, <3>1, CreatingSteps
      <3> QED BY <1>a, <1>f, <2>2, <3>1, <3>2 DEF SendingInv
    <2> QED BY <1>a, <1>d, <2>1, <2>2 DEF SendingInv
  <1>4. RecordingInv'
    <2>1. /\ fx.stage \in {"opened", "override"} => Creating("create")
          /\ fx.stage = "rotate" => file.name \in Names /\ pc = "discard" /\ job.op = "delete"
          /\ fx.stage = "append" => Busy
      BY <1>a, <1>b DEF UseInv, RecordingInv
    <2>2. ASSUME fx.stage = "rotate"
          PROVE  file'.name \in Names /\ (pc' = "idle" \/ (pc' = "discard" /\ job'.op = "delete"))
      <3>1. pc' = "idle" \/ (pc' = "discard" /\ job'.op = "delete")
        BY <1>a, <1>b, <2>1, <2>2, DeletingSteps
      <3>2. file'.name = file.name
        <4>1. DiscardSector \/ OverrideBlock \/ DeleteDone
          BY <1>a, <2>1, <2>2, StepAt
        <4>2. file \in File
          BY <1>b DEF TypeOK
        <4> QED BY <4>1, <4>2, <2>1, <2>2 DEF DiscardSector, OverrideBlock, DeleteDone, NoFile, File
      <3> QED BY <2>1, <2>2, <3>1, <3>2
    <2> QED BY <1>a, <1>e, <1>f, <2>1, <2>2 DEF RecordingInv
  <1> QED BY <1>b, <1>c, <1>1, <1>2, <1>3, <1>4 DEF UseInv

LEMMA ServedNext ==
  ASSUME TransfersAreCareful, ServedInv, [UdpNext]_allVars
  PROVE  ServedInv'
  <1>1. TransferInv'
    BY TransferNext DEF TransfersAreCareful, ServedInv
  <1>2. ASSUME Tick \/ Relink \/ TimerFires
        PROVE  Leaves
    BY <1>2 DEF Tick, Relink, TimerFires, Leaves, Untouched
  <1>3. CASE UNCHANGED allVars
    <2>1. ContentStep
      BY <1>3 DEF ContentStep, allVars, vars
    <2>2. UseInv'
      BY <1>3 DEF allVars, vars, fixedVars, udpVars, ServedInv, UseInv, ReadingInv, RenamingInv, SendingInv,
                  RecordingInv, Settled, Copy, Ready, Known, Sized, Attached, Busy, Filling, Creating
    <2> QED BY <2>1, <2>2, <1>1, ContentNext DEF ServedInv
  <1>4. CASE UdpNext
    <2>1. UseInv' /\ ContentStep
      BY <1>2, <1>4, AskUse, LeavesUse, UpInfoDeleteUse, UpInfoCreateUse, UpDataWrittenUse, UpDataFinishedUse,
         RenameFileUse, DeleteFileUse, CallAnsweredUse, ConfigStepUse, ConfigAnsweredUse, CallStepUse, RestartUse
      DEF UdpNext, Serve
    <2> QED BY <1>1, <2>1, ContentNext DEF ServedInv
  <1> QED BY <1>3, <1>4

LEMMA ServedInit == UdpInit => ServedInv
  <1> SUFFICES ASSUME UdpInit PROVE ServedInv
    OBVIOUS
  <1>1. TransferInv
    BY TransferInit
  <1>2. ContentInv
    BY ContentInit DEF UdpInit
  <1>3. Settled(parked)
    <2>1. pc = "idle" /\ OrderInv /\ parked = NoFile
      BY <1>2 DEF UdpInit, FixedInit, Init, ContentInv, BytesInv
    <2> QED BY <2>1, FileIsSettled
  <1>4. op = "INIT" /\ req.kind = "none" /\ fx.stage = "none"
    BY DEF UdpInit, FixedInit, NoRequest, NoRecord
  <1> QED BY <1>1, <1>2, <1>3, <1>4 DEF ServedInv, UseInv, ReadingInv, RenamingInv, SendingInv, RecordingInv

LEMMA AskedIsLegible ==
  ASSUME ServedInv
  PROVE  ReadsTheAsked
  <1> SUFFICES ASSUME op = "READ", asked # NoName
               PROVE  Attached /\ file.name = asked /\ (file.length # Empty => Legible(file))
    BY DEF ReadsTheAsked
  <1>1. req.kind = "none" /\ Copy /\ file.name = asked
    BY DEF ServedInv, UseInv, ReadingInv
  <1>2. pc = "idle" /\ ContentInv /\ TypeOK /\ asked \in Names
    BY <1>1 DEF ServedInv, TransferInv, RequestInv, UdpTypeOK
  <1>3. file.block \in Live
    BY <1>1, <1>2, AttachedIs DEF Copy, ContentInv, BytesInv
  <1>4. file.length # Empty => Legible(fb[file.block])
    BY <1>1, <1>2, <1>3, KeptIsLegible DEF Copy
  <1>5. Legible(fb[file.block]) => Legible(file)
    BY <1>1 DEF Legible, Copy
  <1> QED BY <1>1, <1>4, <1>5 DEF Copy

\* A download or a freeze request that is accepted is served with every byte of the file
\* it named (udp_handler.c:734).
THEOREM ServiceReadsTheAsked ==
  ASSUME TransfersAreCareful
  PROVE  UdpSpec => []ReadsTheAsked
  <1>1. UdpInit => ServedInv
    BY ServedInit
  <1>2. ServedInv /\ [UdpNext]_allVars => ServedInv'
    BY ServedNext
  <1>3. ServedInv => ReadsTheAsked
    BY AskedIsLegible
  <1> QED BY <1>1, <1>2, <1>3, PTL DEF UdpSpec

-----------------------------------------------------------------------------
(***************************************************************************)
(* The acknowledgement of an upload.                                       *)
(***************************************************************************)

\* No file is read-only, nor is one on the way to the flash.
WritableInv ==
  /\ ~job.info.ro
  /\ \A k \in Slots : ~fb[k].info.ro /\ ~gcbuf[k].info.ro

LEMMA WritableSteps ==
  ASSUME TypeOK, WritableInv, Step
  PROVE  WritableInv'
  <1> USE DEF flash, ftl, Goto, Return
  <1>a. /\ fb \in [Slots -> FileBlock] /\ gcbuf \in [Slots -> FileBlock] /\ job \in Job
        /\ file.block \in Slots \cup {Empty}
    BY DEF TypeOK, File
  <1>b. ~NoJob.info.ro /\ ~BlankBlock.info.ro /\ \A k \in Slots : BlankTable[k] = BlankBlock
    BY DEF NoJob, BlankBlock, BlankTable, DefaultInfo
  <1>c. ASSUME UNCHANGED <<fb, gcbuf>>, job' = NoJob \/ job'.info = job.info
        PROVE  WritableInv'
    BY <1>b, <1>c DEF WritableInv
  <1>r. ASSUME NEW r, AfterCreate(r)
        PROVE  job' = NoJob \/ job' = job
    BY <1>r DEF AfterCreate
  <1>w. ASSUME NEW S, WriteRest(S)
        PROVE  job' = NoJob \/ job'.info = job.info
    BY <1>a, <1>w DEF WriteRest, Job
  <1>t. ASSUME NEW S, Take(S)
        PROVE  job'.info = job.info
    BY <1>a, <1>t DEF Take, Job
  <1>1. CASE CreateExists
    BY <1>1, <1>c, <1>r DEF CreateExists
  <1>2. CASE CreateBlock
    <2>1. PICK k \in Unnamed :
            fb' = [fb EXCEPT ![k] =
                     ProgramBlock(fb[k], [name |-> file.name, cluster |-> file.cluster,
                                          length |-> file.length, info |-> job.info])]
      BY <1>2 DEF CreateBlock
    <2>2. \A j \in Slots : ~fb'[j].info.ro
      BY <1>a, <2>1 DEF WritableInv, ProgramBlock
    <2>3. job' = NoJob \/ job' = job
      BY <1>2, <1>r DEF CreateBlock
    <2> QED BY <1>2, <1>b, <2>2, <2>3 DEF WritableInv, CreateBlock
  <1>3. CASE GcIndexErase
    <2>1. PICK k \in Garbage :
            /\ gcbuf' = [j \in Slots |->
                           IF SlotSector[j] = SlotSector[k] /\ j \notin Garbage THEN fb[j] ELSE BlankBlock]
            /\ EraseIndexSector(SlotSector[k])
            /\ job' = [job EXCEPT !.fbs = {SlotSector[k]}]
      BY <1>3 DEF GcIndexErase
    <2>2. \A j \in Slots : gcbuf'[j] \in {fb[j], BlankBlock} /\ fb'[j] \in {fb[j], BlankBlock}
      BY <1>a, <2>1 DEF EraseIndexSector
    <2>3. job'.info = job.info
      BY <1>a, <2>1 DEF Job
    <2> QED BY <1>b, <2>2, <2>3 DEF WritableInv
  <1>4. CASE GcIndexRewrite
    <2>1. \A j \in Slots : gcbuf'[j] = BlankBlock /\ fb'[j] \in {fb[j], gcbuf[j]}
      BY <1>4, <1>b DEF GcIndexRewrite
    <2>2. job'.info = job.info
      BY <1>a, <1>4 DEF GcIndexRewrite, Job
    <2> QED BY <1>b, <2>1, <2>2 DEF WritableInv
  <1>5. CASE CreateNoSpace
    BY <1>5, <1>c, <1>r DEF CreateNoSpace
  <1>6. CASE DiscardSector
    BY <1>6, <1>c DEF DiscardSector
  <1>7. CASE OverrideBlock
    <2>1. fb' = [fb EXCEPT ![file.block].info.dep = TRUE] /\ UNCHANGED <<gcbuf, job>>
      BY <1>7 DEF OverrideBlock, MarkDeprecated
    <2>2. \A j \in Slots : ~fb'[j].info.ro
      BY <1>a, <2>1 DEF WritableInv, FileBlock, FileInfo
    <2> QED BY <2>1, <2>2 DEF WritableInv
  <1>8. CASE DeleteDone
    BY <1>8, <1>c DEF DeleteDone
  <1>9. CASE Walk
    BY <1>a, <1>9, <1>c DEF Walk, Job
  <1>10. CASE AppendToTail
    <2>1. job' = NoJob \/ job'.info = job.info
      <3>1. job' = NoJob \/ \E len : job' = [job EXCEPT !.len = len]
        BY <1>10 DEF AppendToTail
      <3> QED BY <1>a, <3>1 DEF Job
    <2> QED BY <1>10, <1>c, <2>1 DEF AppendToTail
  <1>11. CASE Allocate
    BY <1>11, <1>c, <1>t DEF Allocate
  <1>12. CASE GcDataErase
    BY <1>a, <1>12, <1>c DEF GcDataErase, Job
  <1>13. CASE GcDataDone
    BY <1>13, <1>c, <1>t DEF GcDataDone
  <1>14. CASE IndexCluster
    <2>1. fb' = [fb EXCEPT ![file.block].cluster = Program(@, job.head)] /\ UNCHANGED gcbuf
      BY <1>14 DEF IndexCluster
    <2>2. job' = NoJob \/ job'.info = job.info
      BY <1>14, <1>w DEF IndexCluster
    <2>3. \A j \in Slots : fb'[j].info = fb[j].info
      BY <1>a, <2>1 DEF FileBlock
    <2> QED BY <1>b, <2>1, <2>2, <2>3 DEF WritableInv
  <1>15. CASE IndexLength
    <2>1. fb' = [fb EXCEPT ![file.block].length = Program(@, job.len)] /\ UNCHANGED gcbuf
      BY <1>15 DEF IndexLength
    <2>2. job' = NoJob \/ job'.info = job.info
      BY <1>15, <1>w DEF IndexLength
    <2>3. \A j \in Slots : fb'[j].info = fb[j].info
      BY <1>a, <2>1 DEF FileBlock
    <2> QED BY <1>b, <2>1, <2>2, <2>3 DEF WritableInv
  <1>16. CASE IndexLink
    BY <1>16, <1>c, <1>w DEF IndexLink
  <1>17. CASE MarkSector
    BY <1>17, <1>c DEF MarkSector
  <1>18. CASE WriteData
    BY <1>18, <1>c, <1>w DEF WriteData
  <1>19. CASE LinkSector
    BY <1>19, <1>c, <1>w DEF LinkSector
  <1>20. CASE FormatIndex
    <2>1. PICK g \in job.fbs : EraseIndexSector(g) /\ job' = [job EXCEPT !.fbs = job.fbs \ {g}]
      BY <1>20 DEF FormatIndex
    <2>2. \A j \in Slots : fb'[j] \in {fb[j], BlankBlock}
      BY <1>a, <2>1 DEF EraseIndexSector
    <2>3. job'.info = job.info /\ UNCHANGED gcbuf
      BY <1>a, <1>20, <2>1 DEF Job, FormatIndex
    <2> QED BY <1>b, <2>2, <2>3 DEF WritableInv
  <1>21. CASE FormatData
    <2>1. job' = NoJob \/ job'.info = job.info
      BY <1>a, <1>21 DEF FormatData, Job
    <2> QED BY <1>21, <1>c, <2>1 DEF FormatData
  <1> QED
    BY <1>1, <1>2, <1>3, <1>4, <1>5, <1>6, <1>7, <1>8, <1>9, <1>10, <1>11, <1>12, <1>13, <1>14, <1>15,
       <1>16, <1>17, <1>18, <1>19, <1>20, <1>21 DEF Step

LEMMA WritableCalls ==
  ASSUME TypeOK, WritableInv, ContentStep, pc = "idle",
         pc' = "create" /\ job'.op = "create" => ~job'.info.ro
  PROVE  WritableInv'
  <1> USE DEF flash, ftl, Goto, Return, Reject
  <1>a. /\ fb \in [Slots -> FileBlock] /\ gcbuf \in [Slots -> FileBlock]
        /\ file.block \in Slots \cup {Empty}
    BY DEF TypeOK, File
  <1>b. ~NoJob.info.ro /\ ~BlankBlock.info.ro /\ \A k \in Slots : BlankTable[k] = BlankBlock
    BY DEF NoJob, BlankBlock, BlankTable, DefaultInfo
  <1>c. ASSUME UNCHANGED <<fb, gcbuf>>, ~job'.info.ro
        PROVE  WritableInv'
    BY <1>c DEF WritableInv
  <1>d. ASSUME NEW k \in Slots, MarkDeprecated(k) \/ MarkDeleted(k)
        PROVE  \A j \in Slots : ~fb'[j].info.ro
    <2>1. CASE MarkDeprecated(k)
      BY <1>a, <2>1 DEF WritableInv, MarkDeprecated, FileBlock, FileInfo
    <2>2. CASE MarkDeleted(k)
      BY <1>a, <2>2 DEF WritableInv, MarkDeleted, FileBlock, FileInfo
    <2> QED BY <1>d, <2>1, <2>2
  <1>1. ASSUME NEW n, NEW ro, CreateCall(n, ro) PROVE WritableInv'
    BY <1>1, <1>c DEF CreateCall, CreateWith, NoJob
  <1>2. ASSUME NEW n, OpenCall(n) PROVE WritableInv'
    BY <1>2 DEF OpenCall, WritableInv
  <1>3. ASSUME NEW n, RenameCall(n) PROVE WritableInv'
    <2>1. CASE UNCHANGED <<fb, job, gcbuf>>
      BY <2>1 DEF WritableInv
    <2>2. CASE /\ MarkDeprecated(file.block) /\ UNCHANGED gcbuf /\ file.block # Empty
               /\ job' = [NoJob EXCEPT !.op = "rename", !.info = fb[file.block].info]
      BY <1>a, <1>d, <2>2 DEF WritableInv, NoJob
    <2> QED BY <1>3, <2>1, <2>2 DEF RenameCall
  <1>4. ASSUME NEW len, NEW method, WriteCall(len, method) PROVE WritableInv'
    <2>1. CASE UNCHANGED <<fb, job, gcbuf>>
      BY <2>1 DEF WritableInv
    <2>2. CASE file.block # Empty /\ UNCHANGED <<fb, gcbuf>> /\ job'.info = fb[file.block].info
      BY <1>a, <2>2 DEF WritableInv
    <2> QED BY <1>4, <2>1, <2>2 DEF WriteCall, NoJob
  <1>5. CASE FinishCall
    <2>1. CASE UNCHANGED <<fb, job, gcbuf>>
      BY <2>1 DEF WritableInv
    <2>2. CASE /\ fb' = [fb EXCEPT ![file.block].length = Program(fb[file.block].length, file.length)]
               /\ UNCHANGED gcbuf /\ job' = NoJob
      <3>1. \A j \in Slots : fb'[j].info = fb[j].info
        BY <1>a, <2>2 DEF FileBlock
      <3> QED BY <1>b, <2>2, <3>1 DEF WritableInv
    <2>3. CASE /\ MarkDeprecated(file.block) /\ UNCHANGED gcbuf /\ file.block # Empty
               /\ job' = [NoJob EXCEPT !.op = "finish", !.info = fb[file.block].info]
      BY <1>a, <1>d, <2>3 DEF WritableInv, NoJob
    <2> QED BY <1>5, <2>1, <2>2, <2>3 DEF FinishCall
  <1>6. CASE DeleteCall
    <2>1. MarkDeleted(file.block) /\ UNCHANGED gcbuf /\ file.block # Empty /\ job' = [NoJob EXCEPT !.op = "delete"]
      BY <1>6 DEF DeleteCall
    <2> QED BY <1>a, <1>d, <2>1 DEF WritableInv, NoJob, DefaultInfo
  <1>7. CASE FormatCall
    BY <1>7, <1>c DEF FormatCall, NoJob, DefaultInfo
  <1>8. CASE Crash
    BY <1>8, <1>b DEF Crash, WritableInv
  <1>9. CASE HandOver
    BY <1>9 DEF HandOver, WritableInv
  <1>10. CASE Step
    BY <1>10, StepsAreOfCalls
  <1>11. CASE UNCHANGED vars
    BY <1>11 DEF WritableInv, vars
  <1> QED
    BY <1>1, <1>2, <1>3, <1>4, <1>5, <1>6, <1>7, <1>8, <1>9, <1>10, <1>11
    DEF ContentStep, WholeRename, ReadyWrite, ReadyFinish, OrderlyDelete, OrderlyCrash

\* No client sends more than it announced, and none asks for a read-only file.
UploadsAreExact == TransfersAreCareful /\ "exact" \in Client /\ TRUE \notin ReadOnly

FreeToWrite == WritableInv /\ ~req.info.ro

LEMMA WritableNext ==
  ASSUME UploadsAreExact, ServedInv, FreeToWrite, [UdpNext]_allVars
  PROVE  FreeToWrite'
  <1>a. /\ TransfersAreCareful /\ TypeOK /\ WritableInv /\ ~req.info.ro /\ req \in Request
        /\ \A info \in StateWords : ~info.ro
    BY ValueAssumption DEF StateWords, UploadsAreExact, FreeToWrite, ServedInv, TransferInv, UdpTypeOK
  <1>b. ~NoRequest.info.ro /\ ~DefaultInfo.ro
    BY DEF NoRequest, DefaultInfo
  <1>c. ASSUME pc = "idle", ContentStep, pc' = "create" /\ job'.op = "create" => ~job'.info.ro
        PROVE  WritableInv'
    BY <1>a, <1>c, WritableCalls
  <1>d. ASSUME NEW n, CreateCall(n, FALSE)
        PROVE  ~job'.info.ro
    BY <1>d DEF CreateCall, CreateWith, NoJob, DefaultInfo
  <1>e. ASSUME NEW st, Await(st)
        PROVE  ~req'.info.ro
    BY <1>a, <1>e DEF Await, Request
  <1>f. ASSUME NEW r, Answer(r)
        PROVE  ~req'.info.ro
    BY <1>b, <1>f DEF Answer
  <1>o. ASSUME NEW n, OpenCall(n)
        PROVE  pc = "idle" /\ pc' = "idle"
    BY <1>o DEF OpenCall
  <1>w. ASSUME NEW len, NEW method, WriteCall(len, method)
        PROVE  pc = "idle" /\ pc' # "create"
    BY <1>w DEF WriteCall, Reject, Goto
  <1>n. FinishCall => ~(pc' = "create" /\ job'.op = "create")
    BY DEF FinishCall, Reject, Return, NoJob
  <1>1. CASE Leaves
    BY <1>1, <1>a, <1>b DEF Leaves, FreeToWrite, WritableInv, vars
  <1>2. ASSUME NEW n \in Names, NEW size, NEW method \in {"NORMAL", "OVERRIDE", "APPEND"}, NEW info \in StateWords,
               UpInfo(n, size, method, info)
        PROVE  FreeToWrite'
    <2>1. ContentStep
      BY <1>2, <1>a, UpInfoUse
    <2>2. ~info.ro
      BY <1>a
    <2>3. ~req'.info.ro
      BY <1>2, <1>f, <2>2 DEF UpInfo, NoRequest
    <2>4. pc = "idle" /\ (pc' = "create" => CreateWith(n, info))
      BY <1>2, <1>o DEF UpInfo, MaySend
    <2>5. CreateWith(n, info) => ~job'.info.ro
      BY <2>2 DEF CreateWith, NoJob
    <2> QED BY <1>c, <2>1, <2>3, <2>4, <2>5 DEF FreeToWrite
  <1>3. ASSUME NEW n \in Names, NEW right, NEW crcOk, DownInfo(n, right, crcOk)
        PROVE  FreeToWrite'
    <2>1. ContentStep /\ ~req'.info.ro /\ pc = "idle" /\ pc' = "idle"
      BY <1>3, <1>a, <1>f, <1>o, DownInfoUse DEF DownInfo, MaySend
    <2> QED BY <1>c, <2>1 DEF FreeToWrite
  <1>4. ASSUME NEW n \in Names, NEW right, NEW crcOk, Delete(n, right, crcOk)
        PROVE  FreeToWrite'
    <2>1. ContentStep /\ pc = "idle" /\ pc' = "idle"
      BY <1>4, <1>a, <1>o, DeleteUse DEF Delete, MaySend, vars
    <2>2. ~req'.info.ro
      BY <1>4, <1>b, <1>f DEF Delete, NoRequest
    <2> QED BY <1>c, <2>1, <2>2 DEF FreeToWrite
  <1>5. ASSUME NEW n \in Names, NEW m \in Names, NEW right, NEW crcOk, Rename(n, m, right, crcOk)
        PROVE  FreeToWrite'
    <2>1. ContentStep /\ pc = "idle" /\ pc' = "idle"
      BY <1>5, <1>a, <1>o, RenameUse DEF Rename, MaySend
    <2>2. ~req'.info.ro
      BY <1>5, <1>b, <1>f DEF Rename, NoRequest
    <2> QED BY <1>c, <2>1, <2>2 DEF FreeToWrite
  <1>6. ASSUME NEW n \in Names, NEW ok, Freeze(n, ok)
        PROVE  FreeToWrite'
    <2>1. ContentStep /\ pc = "idle" /\ pc' = "idle" /\ ~req'.info.ro
      BY <1>6, <1>a, <1>f, <1>o, FreezeUse DEF Freeze, MaySend, vars
    <2> QED BY <1>c, <2>1 DEF FreeToWrite
  <1>7. ASSUME NEW n \in Names, ConfigWrite(n)
        PROVE  FreeToWrite'
    <2>1. ContentStep
      BY <1>7, <1>a, ConfigWriteUse
    <2>2. pc = "idle" /\ (pc' = "create" => CreateCall(n, FALSE))
      BY <1>7, <1>o DEF ConfigWrite, MaySend, FixedOpen
    <2>3. ~req'.info.ro
      BY <1>7, <1>b DEF ConfigWrite, NoRequest
    <2> QED BY <1>c, <1>d, <2>1, <2>2, <2>3 DEF FreeToWrite
  <1>8. ASSUME NEW len \in WriteLens, UpData(len)
        PROVE  FreeToWrite'
    <2>1. ContentStep
      BY <1>8, <1>a, UpDataUse
    <2>2. pc = "idle" /\ pc' # "create"
      BY <1>8, <1>w DEF UpData
    <2>3. ~req'.info.ro
      BY <1>8, <1>b DEF UpData, NoRequest
    <2> QED BY <1>c, <2>1, <2>2, <2>3 DEF FreeToWrite
  <1>9. CASE Format
    <2>1. ContentStep
      BY <1>9, <1>a, FormatUse
    <2>2. pc = "idle" /\ pc' # "create" /\ ~req'.info.ro
      BY <1>9, <1>b DEF Format, FormatCall, Goto, NoRequest
    <2> QED BY <1>c, <2>1, <2>2 DEF FreeToWrite
  <1>10. CASE UpInfoDelete
    <2>1. pc = "idle" /\ pc' # "create" /\ ~req'.info.ro
      BY <1>10, <1>e DEF UpInfoDelete, DeleteCall, Goto
    <2> QED BY <1>c, <1>10, <2>1, UpInfoDeleteUse DEF FreeToWrite
  <1>11. CASE UpInfoCreate
    <2>1. CreateWith(req.name, req.info) /\ ~job'.info.ro
      BY <1>11, <1>a DEF UpInfoCreate, CreateWith, NoJob
    <2>2. pc = "idle" /\ ~req'.info.ro
      BY <1>11, <1>e DEF UpInfoCreate, Returned
    <2> QED BY <1>a, <1>c, <1>11, <2>1, <2>2, UpInfoCreateUse DEF FreeToWrite
  <1>12. CASE UpDataWritten
    <2>1. pc = "idle" /\ ~(pc' = "create" /\ job'.op = "create")
      BY <1>12, <1>n DEF UpDataWritten, Returned, vars
    <2>2. ~req'.info.ro
      BY <1>12, <1>e, <1>f DEF UpDataWritten
    <2> QED BY <1>c, <1>12, <2>1, <2>2, UpDataWrittenUse DEF FreeToWrite
  <1>13. CASE UpDataFinished
    <2>1. pc = "idle" /\ pc' = "idle" /\ ~req'.info.ro
      BY <1>13, <1>f DEF UpDataFinished, Returned, Untouched, vars
    <2> QED BY <1>c, <1>13, <2>1, UpDataFinishedUse DEF FreeToWrite
  <1>14. CASE RenameFile
    <2>1. pc = "idle" /\ ~(pc' = "create" /\ job'.op = "create") /\ ~req'.info.ro
      BY <1>14, <1>e DEF RenameFile, Returned, RenameCall, Reject, Goto, NoJob
    <2> QED BY <1>c, <1>14, <2>1, RenameFileUse DEF FreeToWrite
  <1>15. CASE DeleteFile
    <2>1. pc = "idle" /\ pc' # "create" /\ ~req'.info.ro
      BY <1>15, <1>e DEF DeleteFile, DeleteCall, Goto
    <2> QED BY <1>c, <1>15, <2>1, DeleteFileUse DEF FreeToWrite
  <1>16. CASE CallAnswered
    <2>1. pc = "idle" /\ pc' = "idle" /\ ~req'.info.ro
      BY <1>16, <1>f DEF CallAnswered, Returned, Untouched, vars
    <2> QED BY <1>c, <1>16, <2>1, CallAnsweredUse DEF FreeToWrite
  <1>17. CASE ConfigStep
    <2>1. pc = "idle" /\ ~req'.info.ro
      BY <1>17, <1>a DEF ConfigStep, udpVars, FixedStep, FixedDelete, FixedCreate, FixedOverride, FixedAppend,
                         FixedFinish, Opened, At
    <2>2. pc' = "create" /\ job'.op = "create" => ~job'.info.ro
      <3>1. CASE FixedDelete
        BY <3>1 DEF FixedDelete, DeleteCall, Goto
      <3>2. CASE FixedCreate
        BY <3>2, <1>d DEF FixedCreate
      <3>3. CASE FixedOverride \/ FixedAppend
        BY <3>3, <1>w DEF FixedOverride, FixedAppend
      <3>4. CASE FixedFinish
        BY <3>4, <1>n DEF FixedFinish
      <3> QED BY <1>17, <3>1, <3>2, <3>3, <3>4 DEF ConfigStep, FixedStep
    <2> QED BY <1>a, <1>c, <1>17, <2>1, <2>2, ConfigStepUse DEF FreeToWrite
  <1>18. CASE ConfigAnswered
    <2>1. pc = "idle" /\ pc' = "idle" /\ ~req'.info.ro
      BY <1>18, <1>f DEF ConfigAnswered, FixedReturn, At
    <2> QED BY <1>c, <1>18, <2>1, ConfigAnsweredUse DEF FreeToWrite
  <1>19. CASE CallStep
    <2>1. WritableInv'
      BY <1>a, <1>19, WritableSteps DEF CallStep
    <2> QED BY <1>a, <1>19, <2>1 DEF CallStep, udpVars, FreeToWrite
  <1>20. CASE Tick \/ Relink \/ TimerFires
    BY <1>1, <1>20 DEF Tick, Relink, TimerFires, Leaves, Untouched
  <1>21. CASE Restart
    <2>1. pc = "idle" /\ pc' = "idle" /\ ~req'.info.ro
      BY <1>21, <1>a, <1>b DEF Restart, Crash, Return, TransfersAreCareful
    <2> QED BY <1>a, <1>c, <1>21, <2>1, RestartUse DEF FreeToWrite
  <1>22. CASE UNCHANGED allVars
    BY <1>22, <1>a DEF allVars, vars, udpVars, FreeToWrite, WritableInv
  <1>23. CASE Ask
    BY <1>23, <1>a, <1>1, <1>2, <1>3, <1>4, <1>5, <1>6, <1>7, <1>8, <1>9, AskLeaves
  <1> QED
    BY <1>10, <1>11, <1>12, <1>13, <1>14, <1>15, <1>16, <1>17, <1>18, <1>19, <1>20, <1>21, <1>22, <1>23
    DEF UdpNext, Serve

\* All that was announced has come to the file asked for.
Arrived == file.name = asked /\ file.length \in Nat /\ file.length >= totalSize

\* What is acknowledged is in the file block.
AckInv ==
  req.kind = "updata" =>
    /\ req.stage = "written" /\ pc = "idle" /\ file.block # Empty => file.length \in Nat
    /\ req.stage = "finished" /\ pc # "idle" => Arrived
    /\ req.stage = "finished" /\ pc = "idle" /\ ret = "APPEND_FILE_FINISH" =>
         Arrived /\ Copy /\ Filled(next, data, file.cluster, file.length)

LEMMA AckNext ==
  ASSUME UploadsAreExact, ServedInv, FreeToWrite, FitInv', AckInv, [UdpNext]_allVars
  PROVE  AckInv'
  <1>a. /\ TransfersAreCareful /\ TypeOK /\ UdpTypeOK /\ ContentInv /\ BytesInv /\ OrderInv
        /\ RequestInv /\ UploadInv /\ UseInv /\ req \in Request
    BY DEF UploadsAreExact, ServedInv, TransferInv, UdpTypeOK, ContentInv, BytesInv
  <1>b. NoRequest.kind = "none"
    BY DEF NoRequest
  <1>1. ASSUME NEW len \in WriteLens, UpData(len)
        PROVE  AckInv'
    <2>1. /\ req = NoRequest /\ WriteCall(len, "APPEND") /\ op = "APPEND"
          /\ req' = [NoRequest EXCEPT !.kind = "updata", !.stage = "written"]
      BY <1>1 DEF UpData, MaySend, UpDataRefusal
    <2>2. req'.stage = "written"
      BY <2>1 DEF NoRequest
    <2>3. ASSUME file'.block # Empty, pc' = "idle"
          PROVE  FALSE
      <3>1. file.block # Empty /\ ~CanWrite(fb[file.block])
        BY <2>1, <2>3 DEF WriteCall, Reject, Goto
      <3>2. Attached
        BY <1>a, <1>b, <2>1, <3>1 DEF UseInv, SendingInv, Ready, Known
      <3>3. ~fb[file.block].info.ro
        BY <1>a, <3>1 DEF FreeToWrite, WritableInv, TypeOK, File
      <3> QED BY <3>1, <3>2, <3>3 DEF Attached, CanWrite
    <2> QED BY <2>2, <2>3 DEF AckInv
  <1>2. CASE UpDataWritten
    <2>1. req.kind = "updata" /\ req.stage = "written" /\ pc = "idle" /\ UNCHANGED <<asked, totalSize>>
      BY <1>2 DEF UpDataWritten, Returned
    <2>2. CASE req' = NoRequest
      BY <1>b, <2>2 DEF AckInv
    <2>3. CASE Complete /\ FinishCall /\ Await("finished")
      <3>1. Ready /\ (file.block # Empty => file.name = asked)
        BY <1>a, <2>1 DEF UseInv, SendingInv
      <3>2. req'.stage = "finished"
        BY <1>a, <2>3 DEF Await, Request
      <3>3. UNCHANGED file
        BY <2>3, FinishCallKeeps
      <3>4. file.block # Empty => Arrived'
        BY <2>1, <2>3, <3>1, <3>3, ValueAssumption DEF AckInv, Complete, Arrived
      <3>5. file.block = Empty => pc' = "idle" /\ ret' = "FILE_NOT_EXIST"
        BY <2>1, <2>3 DEF FinishCall, Reject
      <3>6. pc' = "idle" /\ ret' = "APPEND_FILE_FINISH" =>
              Copy' /\ Filled(next', data', file'.cluster, file'.length)
        BY <1>a, <2>3, <3>1, FinishCopies DEF ReadyFinish
      <3> QED BY <3>2, <3>4, <3>5, <3>6 DEF AckInv
    <2> QED BY <1>2, <2>2, <2>3 DEF UpDataWritten, Answer
  <1>3. CASE CallStep /\ req.kind = "updata"
    <2>1. Step /\ pc # "idle" /\ UNCHANGED <<req, asked, totalSize>>
      BY <1>3, StepsAreOfCalls DEF CallStep, udpVars
    <2>2. ContentStep /\ CarefulStep
      BY <1>a, <2>1, ContentIsCareful DEF ContentStep
    <2>3. CASE req.stage = "written"
      <3>1. Busy
        BY <1>a, <1>3, <2>1, <2>3 DEF UseInv, SendingInv
      <3>2. ret' # "NO_SECTOR_SPACE"
        BY <1>3, <2>1 DEF FitInv, FitsOnceAccepted
      <3>3. pc' = "idle" => file'.length \in Nat
        BY <1>a, <2>2, <3>1, <3>2, BusyReturns
      <3> QED BY <2>1, <2>3, <3>3 DEF AckInv
    <2>4. CASE req.stage = "finished"
      <3>1. Creating("finish") /\ Arrived
        BY <1>a, <1>3, <2>1, <2>4 DEF UseInv, SendingInv, AckInv
      <3>2. file'.length = file.length
        BY <1>a, <2>1, <3>1, CreatingSteps
      <3>3. file'.name = file.name /\ (pc' = "idle" => pc = "create")
        BY <1>a, <2>1, <3>1, CreateKeeps DEF Creating
      <3>4. Arrived'
        BY <2>1, <3>1, <3>2, <3>3 DEF Arrived
      <3>5. pc' = "idle" /\ ret' = "APPEND_FILE_FINISH" =>
              Copy' /\ Filled(next', data', file'.cluster, file'.length)
        BY <1>a, <2>2, <3>1, <3>3, CreateReturns DEF Creating
      <3> QED BY <2>1, <2>4, <3>4, <3>5 DEF AckInv
    <2> QED BY <1>a, <1>3, <2>3, <2>4 DEF UseInv, SendingInv
  <1>4. ASSUME req'.kind # "updata"
        PROVE  AckInv'
    BY <1>4 DEF AckInv
  <1>5. CASE UNCHANGED allVars
    BY <1>5 DEF allVars, vars, udpVars, AckInv, Arrived, Copy, Attached
  <1>6. req'.kind = req.kind \/ req'.kind # "updata" \/ GoesOn
    <2>1. ASSUME NEW n, NEW size, NEW method, NEW info, UpInfo(n, size, method, info)
          PROVE  req'.kind # "updata"
      BY <2>1, <1>b DEF UpInfo, Answer, NoRequest
    <2>2. CASE Begins
      BY <2>2, <2>1 DEF Begins
    <2>3. CASE Records
      BY <2>3 DEF Records, ConfigWrite, NoRequest
    <2>4. CASE UpInfoDelete \/ UpInfoCreate \/ UpDataWritten
      BY <2>4, <1>a, <1>b DEF UpInfoDelete, UpInfoCreate, UpDataWritten, Await, Answer, Request
    <2>5. CASE UpDataFinished \/ (Returned("upinfo", "created") /\ CallAnswered) \/ ConfigAnswered \/ Restart
      BY <2>5, <1>b DEF UpDataFinished, CallAnswered, ConfigAnswered, Restart, Answer
    <2>6. CASE ConfigStep \/ CallStep \/ UNCHANGED allVars
      BY <2>6 DEF ConfigStep, CallStep, udpVars, allVars
    <2>7. CASE Aside \/ Elsewhere
      BY <2>7, <1>b DEF Aside, Elsewhere
    <2> QED BY <1>a, <2>2, <2>3, <2>4, <2>5, <2>6, <2>7, UdpCases DEF TransfersAreCareful, TransfersAreAlone
  <1>7. CASE req.kind = "updata" /\ req'.kind = "updata" /\ UdpNext
    <2>1. ASSUME NEW k, NEW s, Returned(k, s), k # "updata"
          PROVE  FALSE
      BY <1>7, <2>1 DEF Returned
    <2>2. UpDataWritten \/ CallStep
      <3>1. ~Ask
        BY <1>7, <1>b DEF Ask, MaySend, Connect, Disconnect, sensorRead, deviceInfoRead, onFsStatusRequest,
             onConfigReadRequest, displayBufferRead, onFsListRequest, Inquire, UpInfoRefused, UpDataRefused,
             DownInfo, Delete, Rename, ConfigUpdate, UpInfo, UpData, DownData, Freeze, ConfigWrite, Format,
             FormatPart, FormatRefused, onRebootRequest, onNetUpdateRequest, onPowerModeRequest, Defer
      <3>2. ~(Tick \/ Relink \/ TimerFires)
        BY <1>7, <1>b DEF Tick, Relink, TimerFires
      <3>3. ~(UpInfoDelete \/ UpInfoCreate \/ RenameFile \/ DeleteFile \/ CallAnswered)
        BY <2>1 DEF UpInfoDelete, UpInfoCreate, RenameFile, DeleteFile, CallAnswered
      <3>4. ~(UpDataFinished \/ ConfigAnswered \/ Restart)
        BY <1>7, <1>b DEF UpDataFinished, ConfigAnswered, Restart, Answer
      <3>5. ~ConfigStep
        BY <1>7, <1>a DEF RequestInv, ConfigStep, FixedStep, FixedDelete, FixedCreate, FixedOverride, FixedAppend,
                          FixedFinish, Opened, At
      <3> QED BY <1>7, <3>1, <3>2, <3>3, <3>4, <3>5 DEF UdpNext, Serve
    <2> QED BY <1>2, <1>3, <1>7, <2>2
  <1> QED BY <1>1, <1>4, <1>5, <1>6, <1>7 DEF GoesOn

Acknowledges == req.kind = "updata" /\ req' = NoRequest /\ reply' = "FILE_WRITTEN_ACK"

LEMMA AcknowledgedIsStored ==
  ASSUME ServedInv, AckInv, [UdpNext]_allVars, Acknowledges
  PROVE  Stored(asked, totalSize)
  <1>a. ContentInv /\ OrderInv /\ TypeOK /\ RequestInv /\ ret \in Results /\ "FILE_WRITTEN_ACK" \notin Results
    BY DEF ServedInv, TransferInv, UdpTypeOK, ContentInv, BytesInv, TypeOK, Results
  <1>b. NoRequest.kind = "none"
    BY DEF NoRequest
  <1>1. UpDataFinished /\ ret = "APPEND_FILE_FINISH"
    <2>1. req.kind = "updata" /\ req' # req /\ req # NoRequest
      BY <1>b DEF Acknowledges
    <2>2. ~Ask
      BY <2>1 DEF Ask, MaySend, Connect, Disconnect, sensorRead, deviceInfoRead, onFsStatusRequest,
           onConfigReadRequest, displayBufferRead, onFsListRequest, Inquire, UpInfoRefused, UpDataRefused,
           DownInfo, Delete, Rename, ConfigUpdate, UpInfo, UpData, DownData, Freeze, ConfigWrite, Format,
           FormatPart, FormatRefused, onRebootRequest, onNetUpdateRequest, onPowerModeRequest, Defer
    <2>3. ~(Tick \/ Relink \/ TimerFires \/ CallStep \/ ConfigStep \/ UNCHANGED allVars)
      BY <2>1 DEF Tick, Relink, TimerFires, CallStep, ConfigStep, udpVars, allVars
    <2>4. ~(UpInfoDelete \/ UpInfoCreate \/ RenameFile \/ DeleteFile \/ CallAnswered)
      BY <2>1 DEF UpInfoDelete, UpInfoCreate, RenameFile, DeleteFile, CallAnswered, Returned
    <2>5. ~ConfigAnswered
      BY <1>a, <2>1 DEF ConfigAnswered, FixedReturn, At, RequestInv
    <2>6. ~Restart
      BY DEF Acknowledges, Restart
    <2>7. ~UpDataWritten
      <3>1. UpDataWritten => \E r \in Results \cup {"SUCCESS"} : Answer(r)
        BY <1>a, <2>1, <1>b DEF UpDataWritten, Await, ServedInv, TransferInv, UdpTypeOK, Request, Acknowledges
      <3>2. \A r \in Results \cup {"SUCCESS"} : Answer(r) => reply' # "FILE_WRITTEN_ACK"
        BY <1>a DEF Answer, Replies
      <3> QED BY <3>1, <3>2 DEF Acknowledges
    <2>8. UpDataFinished
      BY <2>2, <2>3, <2>4, <2>5, <2>6, <2>7 DEF UdpNext, Serve
    <2>9. Answer(ret) => reply' # "FILE_WRITTEN_ACK"
      BY <1>a DEF Answer, Replies
    <2> QED BY <2>8, <2>9 DEF UpDataFinished, Acknowledges
  <1>2. req.stage = "finished" /\ pc = "idle"
    BY <1>1 DEF UpDataFinished, Returned
  <1>3. Arrived /\ Copy /\ Filled(next, data, file.cluster, file.length)
    BY <1>1, <1>2 DEF AckInv, Acknowledges
  <1> DEFINE k == file.block
  <1>4. k \in Live /\ k \in Named(asked)
    BY <1>a, <1>2, <1>3, AttachedIs DEF Copy, Attached, Arrived, Named, TypeOK, File
  <1>5. fb[k].length = file.length /\ fb[k].cluster = file.cluster /\ file.length # Empty
    BY <1>3, ValueAssumption DEF Copy, Arrived
  <1>6. Whole(fb[k])
    BY <1>a, <1>2, <1>3, <1>4, <1>5, FilledIsWhole
  <1> QED BY <1>3, <1>4, <1>5, <1>6 DEF Stored, Arrived

\* When transfers are left alone until they are over, no client sends more than it announced
\* and none asks for a read-only file, FILE_WRITTEN_ACK means that every byte of the file
\* is there and can be read back (udp_handler.c:711).
THEOREM ServiceStoresWhatItAcknowledges ==
  ASSUME UploadsAreExact
  PROVE  UdpSpec => AckMeansStored
  <1> DEFINE Inv == ServedInv /\ FreeToWrite /\ FitInv /\ AckInv
  <1>1. UdpInit => Inv
    <2> SUFFICES ASSUME UdpInit PROVE Inv
      OBVIOUS
    <2>1. ServedInv /\ TransferInv /\ req.kind = "none" /\ ~req.info.ro /\ op = "INIT"
      BY ServedInit, TransferInit DEF UdpInit, NoRequest, DefaultInfo
    <2>2. WritableInv
      BY DEF UdpInit, Init, WritableInv, NoJob, BlankTable, BlankBlock, DefaultInfo
    <2> QED BY <2>1, <2>2
            DEF FreeToWrite, AckInv, FitInv, FreeInv, AppendInv, TodoInv, FitsOnceAccepted
  <1>2. Inv /\ [UdpNext]_allVars => Inv'
    <2> SUFFICES ASSUME Inv, [UdpNext]_allVars PROVE Inv'
      OBVIOUS
    <2>1. ServedInv'
      BY ServedNext DEF UploadsAreExact
    <2>2. FreeToWrite'
      BY WritableNext
    <2>3. FitInv'
      BY FitNext DEF UploadsAreExact, TransfersAreCareful, ServedInv
    <2>4. AckInv'
      BY <2>3, AckNext
    <2> QED BY <2>1, <2>2, <2>3, <2>4
  <1>3. Inv /\ [UdpNext]_allVars => (Acknowledges => Stored(asked, totalSize))
    BY AcknowledgedIsStored
  <1>4. Inv /\ [UdpNext]_allVars =>
          [req.kind = "updata" /\ req' = NoRequest /\ reply' = "FILE_WRITTEN_ACK" => Stored(asked, totalSize)]_allVars
    BY <1>3 DEF Acknowledges
  <1> HIDE DEF Inv
  <1> QED BY <1>1, <1>2, <1>4, PTL DEF UdpSpec, AckMeansStored

-----------------------------------------------------------------------------
(***************************************************************************)
(* A file of records keeps a record, whatever becomes of the next one.     *)
(***************************************************************************)

\* create_file will make the block of currentFile's name: no file that can be opened has it,
\* and there is a slot for it or garbage to collect.
Vacant ==
  /\ \A k \in Live : Index[k].name # file.name
  /\ IF pc = "gc_rewrite"
     THEN \E k \in Slots : SlotSector[k] \in job.fbs /\ gcbuf[k] = BlankBlock
     ELSE Unnamed \cup Garbage # {}

\* The file that is closed has a record.
Recorded ==
  /\ Copy /\ HasRecord(file.length)
  /\ Filled(next, data, file.cluster, file.length)

\* The record that is appended leaves the old ones where they are: what its file has, its
\* block says until new sectors are linked.
AppendingInv ==
  fx.stage = "append" =>
    /\ Attached /\ HasRecord(fb[file.block].length) /\ HasRecord(file.length)
    /\ pc # "idle" => job.op = "append"
    /\ pc \in {"walk", "partial", "alloc", "gc_data", "index"}
       \/ (pc = "idle" /\ ret # "APPEND_FILE_SUCCESS") =>
         SectorsFor(file.length) = SectorsFor(fb[file.block].length)

FinishingInv ==
  fx.stage = "finish" =>
    IF pc = "idle" THEN ret = "APPEND_FILE_FINISH" /\ Recorded
    ELSE Creating("finish") /\ Vacant /\ HasRecord(file.length)

\* The file that is started again finds the block and the sectors it has given up.
RotatingInv ==
  /\ fx.stage = "rotate" =>
       /\ Vacant
       /\ Free # {} \/ (pc = "discard" /\ file.cluster \in Sectors)
  /\ fx.stage = "override" =>
       /\ Free # {}
       /\ IF pc = "idle"
          THEN ret = "CREATE_FILE_SUCCESS" /\ Attached /\ ~fb[file.block].info.ro /\ file.cluster = Empty
          ELSE Vacant /\ ~job.info.ro

\* Its first record finds a sector.
RestartingInv ==
  fx.stage = "overridden" =>
    IF pc = "idle" THEN ret = "WRITE_FILE_SUCCESS" /\ Recorded
    ELSE /\ Busy /\ job.op = "override" /\ job.len = Section
         /\ pc \in {"alloc", "gc_data"} => Free # {}
         /\ pc = "gc_data" => Reclaims

RecordInv ==
  fx.had =>
    /\ fx.stage = "opened" => pc = "idle" /\ ret = "NONE" /\ Copy /\ HasRecord(file.length)
    /\ AppendingInv /\ FinishingInv /\ RotatingInv /\ RestartingInv

LEMMA VacantCreates ==
  ASSUME ContentInv, Step, pc \in {"create", "gc_rewrite"}, Vacant
  PROVE  IF pc' = "idle" THEN CreateBlock
         ELSE (pc' \in {"create", "gc_rewrite"} => Vacant') /\ UNCHANGED ftl /\ job'.info = job.info
  <1> USE DEF flash, ftl, Goto, Return
  <1>a. /\ OrderInv /\ OrderlyStep /\ TypeOK /\ file.name \in Names
    BY DEF ContentInv, BytesInv, OrderInv, CreateInv, OrderlyStep
  <1>b. job \in Job
    BY <1>a DEF TypeOK
  <1>1. ~CreateExists
    <2> SUFFICES ASSUME CreateExists PROVE FALSE
      OBVIOUS
    <2>1. pc = "create" /\ \E k \in Slots : k \in Named(file.name)
      BY DEF CreateExists, Named
    <2>2. PICK k \in Slots : k \in Named(file.name)
      BY <2>1
    <2>3. k \in Live /\ Index[k].name = file.name
      BY <1>a, <2>1, <2>2, IndexIsFlash, ValueAssumption DEF Named, Live, HasName
    <2> QED BY <2>3 DEF Vacant
  <1>2. ~CreateNoSpace
    BY DEF CreateNoSpace, Vacant
  <1>3. ASSUME ~CreateBlock PROVE KeepsBlocks
    <2>1. ~OrderlyFinish /\ ~IndexCluster /\ ~IndexLength
      BY DEF OrderlyFinish, FinishCall, IndexCluster, IndexLength
    <2> QED BY <1>a, <1>3, <2>1, OrderlyBlocks
  <1>4. CASE CreateBlock
    <2>1. pc' = "idle" \/ pc' = "alloc"
      BY <1>4 DEF CreateBlock, AfterCreate
    <2> QED BY <1>b, <1>4, <2>1 DEF CreateBlock, AfterCreate
  <1>5. CASE GcIndexErase
    <2>1. PICK k \in Slots :
            /\ k \in Garbage
            /\ gcbuf' = [j \in Slots |->
                           IF SlotSector[j] = SlotSector[k] /\ j \notin Garbage
                           THEN fb[j] ELSE BlankBlock]
            /\ job' = [job EXCEPT !.fbs = {SlotSector[k]}]
      BY <1>5 DEF GcIndexErase, Garbage
    <2>2. /\ job'.fbs = {SlotSector[k]} /\ job'.info = job.info /\ UNCHANGED <<file, ftl>>
          /\ pc = "create" /\ pc' = "gc_rewrite"
      BY <1>b, <1>5, <2>1 DEF GcIndexErase, Job
    <2>3. gcbuf'[k] = BlankBlock
      BY <2>1
    <2>4. KeepsBlocks
      BY <1>3, <2>2 DEF CreateBlock, AfterCreate
    <2>5. \A j \in Live' : Index'[j].name # file'.name
      BY <2>2, <2>4 DEF Vacant, KeepsBlocks
    <2>6. Vacant'
      BY <2>2, <2>3, <2>5 DEF Vacant
    <2> QED BY <2>2, <2>6
  <1>6. CASE GcIndexRewrite
    <2>1. /\ pc = "gc_rewrite" /\ pc' = "create" /\ UNCHANGED <<file, ftl>>
          /\ fb' = [k \in Slots |-> IF SlotSector[k] \in job.fbs THEN gcbuf[k] ELSE fb[k]]
          /\ job'.info = job.info
      BY <1>b, <1>6 DEF GcIndexRewrite, Job
    <2>2. PICK k \in Slots : fb'[k] = BlankBlock
      BY <2>1 DEF Vacant
    <2>3. k \in Unnamed'
      BY <2>2 DEF Unnamed, HasName, BlankBlock
    <2>4. KeepsBlocks
      BY <1>3, <2>1 DEF CreateBlock
    <2>5. \A j \in Live' : Index'[j].name # file'.name
      BY <2>1, <2>4 DEF Vacant, KeepsBlocks
    <2>6. Vacant'
      BY <2>1, <2>3, <2>5 DEF Vacant
    <2> QED BY <2>1, <2>6
  <1> QED BY <1>1, <1>2, <1>4, <1>5, <1>6, StepAt

\* A file whose block is given up leaves its name and a slot.
LEMMA GivenUpIsVacant ==
  ASSUME OrderInv, NamesInv, Attached, pc = "idle", pc' # "gc_rewrite", file'.name = file.name,
         MarkDeprecated(file.block) \/ MarkDeleted(file.block)
  PROVE  Vacant'
  <1>a. TypeOK /\ file.block \in Slots /\ HasName(fb[file.block]) /\ file.block \in Live
    BY AttachedIs DEF OrderInv
  <1>1. KeepsBlocks /\ file.block \notin Live'
    BY <1>a, StateBitKeeps
  <1>2. Index[file.block].name = file.name
    BY <1>a, IndexIsFlash DEF Attached
  <1>3. \A k \in Live' : Index'[k].name # file'.name
    BY <1>a, <1>1, <1>2 DEF KeepsBlocks, UniqueNames, NamesInv
  <1>4. file.block \in Garbage'
    <2>1. fb[file.block] \in FileBlock /\ fb \in [Slots -> FileBlock]
      BY <1>a DEF TypeOK
    <2>2. CASE MarkDeprecated(file.block)
      <3>1. fb'[file.block] = [fb[file.block] EXCEPT !.info = [@ EXCEPT !.dep = TRUE]]
        BY <1>a, <2>1, <2>2 DEF MarkDeprecated
      <3>2. fb'[file.block].name = fb[file.block].name /\ fb'[file.block].info.dep
        BY <2>1, <3>1 DEF FileBlock, FileInfo
      <3> QED BY <1>a, <3>2 DEF Garbage, HasName, IsOpen
    <2>3. CASE MarkDeleted(file.block)
      <3>1. fb'[file.block] = [fb[file.block] EXCEPT !.info = [@ EXCEPT !.del = TRUE]]
        BY <1>a, <2>1, <2>3 DEF MarkDeleted
      <3>2. fb'[file.block].name = fb[file.block].name /\ fb'[file.block].info.del
        BY <2>1, <3>1 DEF FileBlock, FileInfo
      <3> QED BY <1>a, <3>2 DEF Garbage, HasName, IsOpen
    <2> QED BY <2>2, <2>3
  <1> QED BY <1>3, <1>4 DEF Vacant

\* The parts of the invariant a step of a call uses.
LEMMA RecordFacts ==
  ASSUME ServedInv
  PROVE  /\ TypeOK /\ ContentInv /\ BytesInv /\ OrderInv /\ HandleInv /\ TailInv /\ WritingInv /\ LastInv
         /\ ShortInv /\ OverInv /\ WordsInv /\ RecordingInv /\ RequestInv /\ fx \in Record
         /\ file \in File /\ job \in Job /\ fb \in [Slots -> FileBlock]
  BY DEF ServedInv, TransferInv, UdpTypeOK, ContentInv, BytesInv, OrderInv, UseInv, TypeOK

LEMMA AppendingStarts ==
  ASSUME ServedInv, RecordInv, fx.had, FixedAppend
  PROVE  AppendingInv'
  <1> USE DEF flash, ftl, Goto, Reject
  <1>1. /\ pc = "idle" /\ Copy /\ HasRecord(file.length) /\ WriteCall(Section, "APPEND")
    BY DEF FixedAppend, Opened, At, RecordInv
  <1>2. file.block # Empty /\ UNCHANGED <<fb, file>>
    BY <1>1 DEF Copy, Attached, WriteCall
  <1>3. /\ Attached /\ HasRecord(fb[file.block].length)
        /\ SectorsFor(file.length) = SectorsFor(fb[file.block].length)
    BY <1>1 DEF Copy
  <1>4. pc' # "idle" => job'.op = "append"
    BY <1>1 DEF WriteCall, NoJob
  <1> QED BY <1>1, <1>2, <1>3, <1>4 DEF AppendingInv, Attached

LEMMA AppendingGoesOn ==
  ASSUME ServedInv, AppendingInv, fx.stage = "append", Step, UNCHANGED fx
  PROVE  AppendingInv'
  <1> USE DEF flash, ftl, Goto, Return
  <1>a. /\ TypeOK /\ OrderInv /\ HandleInv /\ TailInv /\ LastInv /\ file \in File /\ job \in Job
    BY RecordFacts
  <1>b. pc # "idle" /\ Busy
    BY RecordFacts, StepsAreOfCalls DEF RecordingInv
  <1>c. /\ Attached /\ HasRecord(fb[file.block].length) /\ HasRecord(file.length) /\ job.op = "append"
        /\ pc \in {"walk", "partial", "alloc", "gc_data", "index"} =>
             SectorsFor(file.length) = SectorsFor(fb[file.block].length)
    BY <1>b DEF AppendingInv
  <1>d. file.cluster # Empty /\ file.length \in Nat /\ file.length >= Section
    BY <1>a, <1>b, <1>c, ValueAssumption DEF HandleInv, HasRecord
  <1>e. ASSUME UNCHANGED <<fb, file>>, pc' # "idle" => job'.op = "append",
               pc' \in {"walk", "partial", "alloc", "gc_data", "index"}
               \/ (pc' = "idle" /\ ret' # "APPEND_FILE_SUCCESS") =>
                  pc \in {"walk", "partial", "alloc", "gc_data", "index"}
        PROVE  AppendingInv'
    BY <1>c, <1>e DEF AppendingInv, Attached
  <1>f. ASSUME NEW rest, WriteRest(rest)
        PROVE  /\ pc' = "idle" => ret' = "APPEND_FILE_SUCCESS"
               /\ pc' # "idle" => job'.op = "append" /\ pc' = "mark"
    BY <1>a, <1>c, <1>f DEF WriteRest, Written, Job
  <1>1. CASE Walk
    <2>1. job'.op = "append" /\ UNCHANGED <<fb, file>> /\ pc = "walk" /\ pc' # "idle"
      BY <1>1, <1>a, <1>c DEF Walk, Job
    <2> QED BY <1>e, <2>1
  <1>2. CASE AppendToTail
    <2>1. PICK size \in Nat :
            /\ file' = [file EXCEPT !.length = file.length + size]
            /\ (file.length % DataArea) + size <= DataArea
            /\ \/ size = job.len /\ Return("APPEND_FILE_SUCCESS")
               \/ size # job.len /\ job' = [job EXCEPT !.len = @ - size] /\ Goto("alloc")
      BY <1>2, <1>a, AppendDoes
    <2>2. /\ file'.length = file.length + size /\ file'.block = file.block /\ file'.name = file.name
          /\ pc = "partial" /\ UNCHANGED fb
      BY <1>2, <1>a, <2>1 DEF AppendToTail, File
    <2>3. SectorsFor(file.length + size) = SectorsFor(file.length)
      <3>1. file.length % DataArea # 0
        BY <1>a, <2>2 DEF LastInv
      <3> QED BY <1>d, <2>1, <3>1, SectorsForWithin
    <2>4. HasRecord(file'.length)
      BY <1>d, <2>2, RecordAssumption DEF HasRecord
    <2>5. pc' = "idle" => ret' = "APPEND_FILE_SUCCESS"
      BY <2>1
    <2>6. pc' # "idle" => job'.op = "append"
      BY <1>a, <1>c, <2>1 DEF Job
    <2>7. SectorsFor(file'.length) = SectorsFor(fb'[file'.block].length)
      BY <1>c, <2>2, <2>3
    <2> QED BY <1>c, <2>2, <2>4, <2>5, <2>6, <2>7 DEF AppendingInv, Attached
  <1>3. CASE Allocate
    <2>1. job'.op = "append" /\ UNCHANGED <<fb, file>> /\ pc = "alloc" /\ pc' # "idle"
      BY <1>3, <1>a, <1>c DEF Allocate, Take, Job
    <2> QED BY <1>e, <2>1
  <1>4. CASE GcDataErase
    <2>1. job'.op = "append" /\ UNCHANGED <<fb, file, pc>>
      BY <1>4, <1>a, <1>c DEF GcDataErase, Job
    <2> QED BY <1>e, <1>b, <2>1
  <1>5. CASE GcDataDone
    <2>1. UNCHANGED <<fb, file>> /\ pc = "gc_data" /\ (pc' # "idle" => job'.op = "append")
      BY <1>5, <1>a, <1>c DEF GcDataDone, Take, Job
    <2> QED BY <1>e, <2>1
  <1>6. CASE IndexLink
    <2>1. /\ file' = [file EXCEPT !.length = file.length + job.len] /\ job.len \in Nat
      BY <1>6, <1>a, IndexLinkDoes
    <2>2. WriteRest(job.todo) /\ UNCHANGED fb
      BY <1>6 DEF IndexLink
    <2>3. /\ file'.length = file.length + job.len /\ file'.block = file.block /\ file'.name = file.name
      BY <1>a, <2>1 DEF File
    <2>4. HasRecord(file'.length)
      BY <1>d, <2>1, <2>3, RecordAssumption DEF HasRecord
    <2> QED BY <1>c, <1>f, <2>2, <2>3, <2>4 DEF AppendingInv, Attached
  <1>7. CASE MarkSector
    BY <1>7, <1>c, <1>e DEF MarkSector
  <1>8. CASE WriteData
    <2>1. UNCHANGED <<fb, file>> /\ ((pc' = "link" /\ UNCHANGED job) \/ \E rest : WriteRest(rest))
      BY <1>8 DEF WriteData
    <2> QED BY <1>c, <1>e, <1>f, <2>1
  <1>9. CASE LinkSector
    <2>1. UNCHANGED <<fb, file>> /\ (\E rest : WriteRest(rest))
      BY <1>9 DEF LinkSector
    <2> QED BY <1>c, <1>e, <1>f, <2>1
  <1>10. ~IndexCluster /\ ~IndexLength
    BY <1>a, <1>c, <1>d DEF IndexCluster, IndexLength, TailInv
  <1> QED BY <1>b, <1>1, <1>2, <1>3, <1>4, <1>5, <1>6, <1>7, <1>8, <1>9, <1>10, StepAt DEF Busy, Filling

LEMMA FinishingStarts ==
  ASSUME ServedInv, NamesInv, AppendingInv, FixedFinish
  PROVE  FinishingInv'
  <1> USE DEF flash, ftl, Goto, Return
  <1>1. /\ fx.stage = "append" /\ pc = "idle" /\ ret = "APPEND_FILE_SUCCESS" /\ FinishCall
    BY DEF FixedFinish, At
  <1>2. Attached /\ HasRecord(fb[file.block].length) /\ HasRecord(file.length) /\ OrderInv
    BY <1>1, RecordFacts DEF AppendingInv
  <1>3. file.block # Empty /\ fb[file.block].length # Empty
    BY <1>2, ValueAssumption DEF Attached, HasRecord
  <1>4. /\ MarkDeprecated(file.block) /\ pc' = "create" /\ job'.op = "finish" /\ UNCHANGED file
    BY <1>1, <1>3 DEF FinishCall, NoJob
  <1>5. Vacant'
    BY <1>1, <1>2, <1>4, GivenUpIsVacant
  <1> QED BY <1>2, <1>4, <1>5 DEF FinishingInv, Creating

LEMMA FinishingGoesOn ==
  ASSUME ServedInv, FinishingInv, fx.stage = "finish", Step, UNCHANGED fx
  PROVE  FinishingInv'
  <1>a. TypeOK /\ ContentInv /\ ContentStep
    BY RecordFacts DEF ContentStep
  <1>b. Creating("finish") /\ Vacant /\ HasRecord(file.length)
    BY StepsAreOfCalls DEF FinishingInv
  <1>1. /\ pc' = "idle" \/ Creating("finish")'
        /\ file'.length = file.length
    BY <1>a, <1>b, CreatingSteps
  <1>2. CASE pc' = "idle"
    <2>1. CreateBlock
      BY <1>a, <1>b, <1>2, VacantCreates DEF Creating
    <2>2. pc = "create" /\ ret' = "APPEND_FILE_FINISH"
      BY <1>b, <2>1 DEF CreateBlock, AfterCreate, Return, Creating
    <2>3. Copy' /\ Filled(next', data', file'.cluster, file'.length)
      BY <1>a, <1>b, <1>2, <2>2, CreateReturns DEF Creating
    <2> QED BY <1>b, <1>1, <1>2, <2>2, <2>3 DEF FinishingInv, Recorded
  <1>3. CASE pc' # "idle"
    <2>1. Vacant'
      BY <1>a, <1>b, <1>1, <1>3, VacantCreates DEF Creating
    <2> QED BY <1>b, <1>1, <1>3, <2>1 DEF FinishingInv
  <1> QED BY <1>2, <1>3

LEMMA RotatingStarts ==
  ASSUME ServedInv, NamesInv, RecordInv, fx.had, FixedDelete
  PROVE  RotatingInv'
  <1> USE DEF flash, ftl, Goto, Return
  <1>1. /\ pc = "idle" /\ Copy /\ HasRecord(file.length) /\ DeleteCall /\ Ready
        /\ fx.stage = "opened" /\ fx' = [fx EXCEPT !.stage = "rotate"]
    BY RecordFacts DEF FixedDelete, Opened, At, Stage, RecordInv, RecordingInv
  <1>2. MarkDeleted(file.block) /\ UNCHANGED file /\ pc' = "discard" /\ fx'.stage = "rotate"
    BY <1>1, RecordFacts DEF DeleteCall, Record
  <1>3. Vacant'
    BY <1>1, <1>2, RecordFacts, GivenUpIsVacant DEF Copy
  <1>4. file.cluster \in Sectors
    <2>1. file.block # Empty /\ file.length # Empty
      BY <1>1, ValueAssumption DEF Copy, Attached, HasRecord
    <2>2. file.cluster # Empty
      BY <1>1, <2>1 DEF Ready, Sized
    <2> QED BY <2>2, RecordFacts DEF File, Words, WordsInv
  <1> QED BY <1>2, <1>3, <1>4 DEF RotatingInv

LEMMA RotatingGoesOn ==
  ASSUME ServedInv, RotatingInv, fx.stage = "rotate", Step, UNCHANGED fx
  PROVE  RotatingInv'
  <1> USE DEF flash, ftl, Goto, Return
  <1>1. /\ pc = "discard" /\ job.op = "delete" /\ file \in File /\ TypeOK
    BY RecordFacts, StepsAreOfCalls DEF RecordingInv
  <1>2. Vacant /\ (Free # {} \/ file.cluster \in Sectors)
    BY DEF RotatingInv
  <1>3. DiscardSector \/ DeleteDone
    BY <1>1, StepAt DEF OverrideBlock
  <1>4. UNCHANGED fb /\ file'.name = file.name /\ pc' # "gc_rewrite" /\ pc # "gc_rewrite"
    BY <1>1, <1>3 DEF DiscardSector, DeleteDone, NoFile, File
  <1>5. Live' = Live /\ \A k \in Slots : Index'[k] = Index[k]
    BY <1>4, SameIndex
  <1>6. \A k \in Live' : Index'[k].name # file'.name
    BY <1>2, <1>4, <1>5 DEF Vacant, Live
  <1>7. Vacant'
    BY <1>2, <1>4, <1>6 DEF Vacant, Unnamed, Garbage
  <1>8. Free' # {}
    <2>1. CASE DiscardSector
      BY <1>1, <2>1 DEF DiscardSector, Free
    <2>2. CASE DeleteDone
      <3>1. file.cluster \notin Sectors
        BY <2>2, SectorFacts DEF DeleteDone
      <3> QED BY <1>2, <2>2, <3>1 DEF DeleteDone, Free
    <2> QED BY <1>3, <2>1, <2>2
  <1> QED BY <1>7, <1>8 DEF RotatingInv

LEMMA RenewingStarts ==
  ASSUME ServedInv, RotatingInv, FixedCreate
  PROVE  RotatingInv'
  <1> USE DEF flash, ftl, Goto, Return
  <1>1. /\ fx.stage = "rotate" /\ pc = "idle" /\ CreateCall(file.name, FALSE)
        /\ fx' = [fx EXCEPT !.stage = "override"]
    BY DEF FixedCreate, At, Stage
  <1>2. Vacant /\ Free # {} /\ fx'.stage = "override"
    BY <1>1, RecordFacts DEF RotatingInv, Record
  <1>3. /\ file' = [NoFile EXCEPT !.name = file.name] /\ pc' = "create" /\ ~job'.info.ro
        /\ UNCHANGED <<fb, writable, erasable>>
    BY <1>1 DEF CreateCall, CreateWith, NoJob, DefaultInfo
  <1>4. file'.name = file.name
    BY <1>3 DEF NoFile
  <1>5. Live' = Live /\ \A k \in Slots : Index'[k] = Index[k]
    BY <1>1, <1>3, SameIndex
  <1>6. \A k \in Live' : Index'[k].name # file'.name
    BY <1>2, <1>4, <1>5 DEF Vacant, Live
  <1>7. Vacant'
    BY <1>1, <1>2, <1>3, <1>6 DEF Vacant, Unnamed, Garbage
  <1> QED BY <1>2, <1>3, <1>7 DEF RotatingInv, Free

LEMMA RenewingGoesOn ==
  ASSUME ServedInv, RotatingInv, fx.stage = "override", Step, UNCHANGED fx
  PROVE  RotatingInv'
  <1>a. TypeOK /\ ContentInv /\ OrderInv /\ ContentStep /\ file \in File
    BY RecordFacts DEF ContentStep
  <1>b. Creating("create") /\ Vacant /\ Free # {} /\ ~job.info.ro
    BY RecordFacts, StepsAreOfCalls DEF RotatingInv, RecordingInv
  <1>1. (pc' = "idle" \/ Creating("create")') /\ UNCHANGED ftl /\ file'.cluster = file.cluster
    BY <1>a, <1>b, CreatingSteps
  <1>2. Free' # {}
    BY <1>b, <1>1 DEF Free, ftl
  <1>3. CASE pc' = "idle"
    <2>1. CreateBlock
      BY <1>a, <1>b, <1>3, VacantCreates DEF Creating
    <2>2. pc = "create" /\ ret' = "CREATE_FILE_SUCCESS"
      BY <1>b, <2>1 DEF CreateBlock, AfterCreate, Return, Creating
    <2>3. file.cluster = Empty /\ file.name \in Names
      BY <1>a, <1>b, <2>2 DEF Creating, OrderInv, CreateInv
    <2>4. PICK k \in Slots :
            /\ fb' = [fb EXCEPT ![k] = [name |-> file.name, cluster |-> file.cluster,
                                        length |-> file.length, info |-> job.info]]
            /\ file' = [file EXCEPT !.block = k]
            /\ IsOpen(fb'[k])
      BY <1>a, <2>1, CreateDoes
    <2>5. fb'[k].name = file.name /\ fb'[k].info = job.info
      BY <1>a, <2>4 DEF TypeOK
    <2>6. file'.block = k /\ file'.name = file.name /\ k # Empty
      BY <1>a, <2>4, EmptyNotSlot DEF File
    <2>7. Attached' /\ ~fb'[file'.block].info.ro
      BY <1>b, <2>4, <2>5, <2>6 DEF Attached
    <2> QED BY <1>1, <1>2, <1>3, <2>2, <2>3, <2>7 DEF RotatingInv
  <1>4. CASE pc' # "idle"
    <2>1. Vacant' /\ job'.info = job.info
      BY <1>a, <1>b, <1>1, <1>4, VacantCreates DEF Creating
    <2> QED BY <1>b, <1>2, <1>4, <2>1 DEF RotatingInv
  <1> QED BY <1>3, <1>4

LEMMA RestartingStarts ==
  ASSUME ServedInv, RotatingInv, FixedOverride
  PROVE  RestartingInv'
  <1> USE DEF flash, ftl, Goto, Reject
  <1>1. /\ fx.stage = "override" /\ pc = "idle" /\ WriteCall(Section, "OVERRIDE")
    BY DEF FixedOverride, At
  <1>2. Free # {} /\ Attached /\ ~fb[file.block].info.ro /\ file.cluster = Empty
    BY <1>1 DEF RotatingInv
  <1>3. file.block # Empty /\ CanWrite(fb[file.block])
    BY <1>2 DEF Attached, CanWrite
  <1>4. pc' = "alloc" /\ job'.op = "override" /\ job'.len = Section /\ UNCHANGED <<writable, erasable>>
    BY <1>1, <1>2, <1>3 DEF WriteCall, NoJob
  <1> QED BY <1>2, <1>4 DEF RestartingInv, Busy, Free

LEMMA RestartingGoesOn ==
  ASSUME ServedInv, TransfersAreCareful, RestartingInv, fx.stage = "overridden", Step, UNCHANGED fx
  PROVE  RestartingInv'
  <1> USE DEF flash, ftl, Goto, Return
  <1>a. /\ TypeOK /\ ContentInv /\ BytesInv /\ OrderInv /\ HandleInv /\ TailInv /\ WritingInv /\ ShortInv /\ OverInv
        /\ file \in File /\ job \in Job
    BY RecordFacts
  <1>b. ContentStep /\ CarefulStep
    BY <1>a, ContentIsCareful DEF ContentStep
  <1>c. pc # "idle" /\ Busy /\ job.op = "override" /\ job.len = Section
    BY StepsAreOfCalls DEF RestartingInv
  <1>d. Section \in 1 .. DataArea
    BY RecordAssumption, SizeAssumption DEF TransfersAreCareful
  <1>e. ASSUME pc' \in {"index", "index_length", "mark", "data", "link"},
               job'.op = "override", job'.len = Section
        PROVE  RestartingInv'
    BY <1>e DEF RestartingInv, Busy, Filling
  <1>f. LET found == FirstN(writable, SectorsFor(job.len)) IN
        /\ found \subseteq writable /\ SectorsFor(job.len) = 1
        /\ writable # {} => Cardinality(found) = 1
    BY <1>a, <1>c, <1>d, FoundForShort
  <1>g. ASSUME NEW found, Take(found)
        PROVE  RestartingInv'
    <2>1. pc' = "index" /\ job'.op = "override" /\ job'.len = Section
      BY <1>a, <1>c, <1>g DEF Take, Job
    <2> QED BY <1>e, <2>1
  <1>1. CASE Allocate
    <2>1. CASE Take(FirstN(writable, SectorsFor(job.len)))
      BY <1>g, <2>1
    <2>2. CASE /\ Cardinality(FirstN(writable, SectorsFor(job.len))) # SectorsFor(job.len)
               /\ writable' = writable \ FirstN(writable, SectorsFor(job.len))
               /\ pc' = "gc_data" /\ UNCHANGED job
      <3>1. writable = {} /\ writable' = {} /\ UNCHANGED erasable /\ pc = "alloc"
        BY <1>1, <1>f, <2>2 DEF Allocate
      <3>2. Free # {} /\ job.count = 0
        BY <1>a, <1>c, <3>1 DEF RestartingInv, TailInv
      <3> QED BY <1>c, <2>2, <3>1, <3>2 DEF RestartingInv, Busy, Free, Reclaims
    <2> QED BY <1>1, <2>1, <2>2 DEF Allocate
  <1>2. CASE GcDataErase
    <2>1. PICK s \in erasable : EraseSector(s)
      BY <1>2 DEF GcDataErase, IsFirst
    <2>2. writable' = writable \cup {s} /\ job' = [job EXCEPT !.count = @ + 1] /\ UNCHANGED pc /\ pc = "gc_data"
      BY <1>2, <2>1 DEF GcDataErase, EraseSector
    <2>3. job'.count = job.count + 1 /\ job.count \in Nat /\ job'.op = "override" /\ job'.len = Section
      BY <1>a, <1>c, <2>2 DEF Job
    <2>4. job'.count # 0 /\ writable' # {}
      BY <2>2, <2>3
    <2> QED BY <2>2, <2>3, <2>4 DEF RestartingInv, Busy, Free, Reclaims
  <1>3. CASE GcDataDone
    <2>1. ~(job.count < SectorsFor(job.len) /\ erasable = {})
      <3>1. pc = "gc_data" /\ Free # {} /\ Reclaims /\ job.count \in Nat
        BY <1>a, <1>3, <1>c DEF RestartingInv, GcDataDone, Job
      <3> QED BY <1>f, <3>1 DEF Reclaims, Free
    <2> QED BY <1>3, <1>g, <2>1 DEF GcDataDone
  <1>4. CASE IndexCluster
    BY <1>4, <1>c, <1>e DEF IndexCluster
  <1>5. CASE IndexLength
    <2>1. WriteRest(job.todo) /\ job.todo # {}
      BY <1>5, <1>a DEF IndexLength, WritingInv, Filling
    <2>2. pc' = "mark" /\ job'.op = "override" /\ job'.len = Section
      BY <1>a, <1>c, <2>1 DEF WriteRest, Job
    <2> QED BY <1>e, <2>2
  <1>6. CASE MarkSector
    BY <1>6, <1>c, <1>e DEF MarkSector
  <1>7. CASE WriteData
    <2>1. pc = "data" /\ UNCHANGED <<fb, file>> /\ pc' = "idle"
      BY <1>7, <1>a, CarefulData DEF WriteData
    <2>2. ret' = "WRITE_FILE_SUCCESS"
      BY <1>7, <1>c, <2>1 DEF WriteData, WriteRest, Written
    <2>3. Ready'
      BY <1>a, <1>b, <1>c, <2>1, BusyReturns
    <2>4. Attached /\ fb[file.block].cluster = file.cluster
      BY <1>a, <1>c DEF HandleInv
    <2>5. file.length = Section /\ fb[file.block].length = file.length
      BY <1>a, <1>c, <2>1 DEF OverInv, Writing, Filling
    <2>6. Copy'
      BY <2>1, <2>4, <2>5 DEF Copy, Attached
    <2>7. HasRecord(file'.length)
      BY <2>1, <2>5, RecordAssumption DEF HasRecord
    <2>8. Filled(next', data', file'.cluster, file'.length)
      BY <2>3, <2>6 DEF Ready, Copy, Attached
    <2> QED BY <2>1, <2>2, <2>6, <2>7, <2>8 DEF RestartingInv, Recorded
  <1>8. ~Walk /\ ~AppendToTail /\ ~IndexLink /\ ~LinkSector
    BY <1>a, <1>c DEF Walk, AppendToTail, IndexLink, LinkSector, TailInv, ShortInv
  <1> QED BY <1>c, <1>1, <1>2, <1>3, <1>4, <1>5, <1>6, <1>7, <1>8, StepAt DEF Busy, Filling

LEMMA RecordOpens ==
  ASSUME ServedInv, NEW n \in Names, ConfigWrite(n)
  PROVE  RecordInv'
  <1> SUFFICES ASSUME fx'.had PROVE RecordInv'
    BY DEF RecordInv
  <1>a. OrderInv /\ TypeOK /\ FixedOpen(n)
    BY RecordFacts DEF ConfigWrite
  <1>1. /\ OpenCall(n) /\ fx'.stage = "opened"
        /\ \E k \in Named(n) : IsFirst(k, Named(n)) /\ fx'.had = HasRecord(fb[k].length)
    <2>1. CASE CreateCall(n, FALSE) /\ fx' = [stage |-> "opened", had |-> FALSE]
      BY <2>1
    <2>2. CASE /\ OpenCall(n)
               /\ \E k \in Named(n) :
                    IsFirst(k, Named(n)) /\ fx' = [stage |-> "opened", had |-> HasRecord(fb[k].length)]
      <3>1. PICK k \in Named(n) :
              IsFirst(k, Named(n)) /\ fx' = [stage |-> "opened", had |-> HasRecord(fb[k].length)]
        BY <2>2
      <3>2. fx'.stage = "opened" /\ fx'.had = HasRecord(fb[k].length)
        BY <3>1
      <3> QED BY <2>2, <3>1, <3>2
    <2> QED BY <1>a, <2>1, <2>2 DEF FixedOpen
  <1>2. PICK k \in Named(n) : IsFirst(k, Named(n)) /\ HasRecord(fb[k].length)
    BY <1>1
  <1>3. PICK j \in Named(n) :
          /\ IsFirst(j, Named(n))
          /\ file' = [name |-> n, block |-> j, cluster |-> fb[j].cluster, length |-> fb[j].length]
    BY <1>a, <1>1, OpenCallOpens
  <1>4. j = k
    BY <1>2, <1>3, SlotsAssumption DEF IsFirst, Named
  <1>5. Copy' /\ HasRecord(file'.length)
    BY <1>a, <1>1, <1>2, <1>3, <1>4, OpenCopies
  <1>6. pc' = "idle" /\ ret' = "NONE"
    BY <1>1 DEF OpenCall
  <1> QED BY <1>1, <1>5, <1>6 DEF RecordInv, AppendingInv, FinishingInv, RotatingInv, RestartingInv

\* While a record is being written, nothing else happens.
LEMMA RecordSteps ==
  ASSUME ServedInv, fx.stage # "none", UdpNext
  PROVE  ConfigStep \/ ConfigAnswered \/ CallStep \/ Restart
  <1>a. req.kind = "config" /\ req # NoRequest
    BY RecordFacts DEF RequestInv, NoRequest
  <1>1. ~Ask
    BY <1>a DEF Ask, MaySend, Connect, Disconnect, sensorRead, deviceInfoRead, onFsStatusRequest,
         onConfigReadRequest, displayBufferRead, onFsListRequest, Inquire, UpInfoRefused, UpDataRefused,
         DownInfo, Delete, Rename, ConfigUpdate, UpInfo, UpData, DownData, Freeze, ConfigWrite, Format,
         FormatPart, FormatRefused, onRebootRequest, onNetUpdateRequest, onPowerModeRequest, Defer
  <1>2. ~(Tick \/ Relink \/ TimerFires)
    BY <1>a DEF Tick, Relink, TimerFires
  <1>3. ~(UpInfoDelete \/ UpInfoCreate \/ UpDataWritten \/ UpDataFinished
          \/ RenameFile \/ DeleteFile \/ CallAnswered)
    BY <1>a DEF UpInfoDelete, UpInfoCreate, UpDataWritten, UpDataFinished, RenameFile, DeleteFile, CallAnswered,
                Returned
  <1> QED BY <1>1, <1>2, <1>3 DEF UdpNext, Serve

LEMMA RecordNext ==
  ASSUME TransfersAreCareful, ServedInv, NamesInv, RecordInv, [UdpNext]_allVars
  PROVE  RecordInv'
  <1>a. fx \in Record
    BY RecordFacts
  <1>b. NoRecord.had = FALSE
    BY DEF NoRecord
  <1>1. CASE UNCHANGED allVars
    BY <1>1 DEF allVars, vars, fixedVars, RecordInv, AppendingInv, FinishingInv, RotatingInv, RestartingInv,
                Recorded, Vacant, Copy, Attached, Free, Reclaims, Busy, Filling, Creating, Live, Index, Unnamed, Garbage
  <1>2. CASE fx.stage = "none" /\ UdpNext
    <2>1. CASE \E n \in Names : ConfigWrite(n)
      BY <2>1, RecordOpens
    <2>2. CASE UNCHANGED fx
      BY <1>2, <2>2 DEF RecordInv, AppendingInv, FinishingInv, RotatingInv, RestartingInv
    <2>3. CASE fx' = NoRecord
      BY <1>b, <2>3 DEF RecordInv
    <2>4. ASSUME Ask PROVE UNCHANGED fx \/ \E n \in Names : ConfigWrite(n)
      BY <2>4 DEF Ask, fixedVars, Untouched, Connect, Disconnect, sensorRead, deviceInfoRead, onFsStatusRequest,
           onConfigReadRequest, displayBufferRead, onFsListRequest, Inquire, UpInfoRefused, UpDataRefused,
           DownInfo, Delete, Rename, ConfigUpdate, UpInfo, UpData, DownData, Freeze, Format,
           FormatPart, FormatRefused, onRebootRequest, onNetUpdateRequest, onPowerModeRequest, Defer
    <2>5. ASSUME Serve PROVE UNCHANGED fx
      <3>1. ~ConfigStep /\ ~ConfigAnswered
        BY <1>2 DEF ConfigStep, FixedStep, FixedDelete, FixedCreate, FixedOverride, FixedAppend, FixedFinish,
                    Opened, At, ConfigAnswered, FixedReturn
      <3> QED BY <2>5, <3>1 DEF Serve, fixedVars, Untouched, UpInfoDelete, UpInfoCreate, UpDataWritten,
                    UpDataFinished, RenameFile, DeleteFile, CallAnswered
    <2>6. ASSUME Tick \/ Relink \/ TimerFires \/ CallStep PROVE UNCHANGED fx
      BY <2>6 DEF Tick, Relink, TimerFires, CallStep, Untouched, fixedVars
    <2>7. ASSUME Restart PROVE fx' = NoRecord
      BY <2>7 DEF Restart
    <2> QED BY <1>2, <2>1, <2>2, <2>3, <2>4, <2>5, <2>6, <2>7 DEF UdpNext
  <1>3. CASE fx.stage # "none" /\ UdpNext
    <2>1. CASE ConfigAnswered \/ Restart
      BY <1>b, <2>1 DEF ConfigAnswered, FixedReturn, Restart, RecordInv
    <2>2. CASE ConfigStep
      <3> SUFFICES ASSUME fx'.had PROVE RecordInv'
        BY DEF RecordInv
      <3>1. fx.had
        BY <1>a, <2>2 DEF ConfigStep, FixedStep, FixedDelete, FixedCreate, FixedOverride, FixedAppend, FixedFinish,
                          Stage, Record
      <3>a. \A s : Stage(s) => fx'.stage = s
        BY <1>a DEF Stage, Record
      <3>b. AppendingInv /\ FinishingInv /\ RotatingInv /\ RestartingInv
        BY <3>1 DEF RecordInv
      <3>2. CASE FixedDelete
        <4>1. fx'.stage = "rotate" /\ RotatingInv'
          BY <3>1, <3>2, <3>a, RotatingStarts DEF FixedDelete
        <4> QED BY <4>1 DEF RecordInv, AppendingInv, FinishingInv, RestartingInv
      <3>3. CASE FixedCreate
        <4>1. fx'.stage = "override" /\ RotatingInv'
          BY <3>3, <3>a, <3>b, RenewingStarts DEF FixedCreate
        <4> QED BY <4>1 DEF RecordInv, AppendingInv, FinishingInv, RestartingInv
      <3>4. CASE FixedOverride
        <4>1. fx'.stage = "overridden" /\ RestartingInv'
          BY <3>4, <3>a, <3>b, RestartingStarts DEF FixedOverride
        <4> QED BY <4>1 DEF RecordInv, AppendingInv, FinishingInv, RotatingInv
      <3>5. CASE FixedAppend
        <4>1. fx'.stage = "append" /\ AppendingInv'
          BY <3>1, <3>5, <3>a, AppendingStarts DEF FixedAppend
        <4> QED BY <4>1 DEF RecordInv, FinishingInv, RotatingInv, RestartingInv
      <3>6. CASE FixedFinish
        <4>1. fx'.stage = "finish" /\ FinishingInv'
          BY <3>6, <3>a, <3>b, FinishingStarts DEF FixedFinish
        <4> QED BY <4>1 DEF RecordInv, AppendingInv, RotatingInv, RestartingInv
      <3> QED BY <2>2, <3>2, <3>3, <3>4, <3>5, <3>6 DEF ConfigStep, FixedStep
    <2>3. CASE CallStep
      <3> SUFFICES ASSUME fx.had PROVE RecordInv'
        BY <2>3 DEF RecordInv, CallStep, fixedVars
      <3>1. Step /\ UNCHANGED fx /\ pc # "idle"
        BY <2>3, StepsAreOfCalls DEF CallStep, fixedVars
      <3>b. AppendingInv /\ FinishingInv /\ RotatingInv /\ RestartingInv /\ fx.stage # "opened"
        BY <3>1 DEF RecordInv
      <3>2. AppendingInv'
        BY <3>1, <3>b, AppendingGoesOn DEF AppendingInv
      <3>3. FinishingInv'
        BY <3>1, <3>b, FinishingGoesOn DEF FinishingInv
      <3>4. RotatingInv'
        BY <3>1, <3>b, RotatingGoesOn, RenewingGoesOn DEF RotatingInv
      <3>5. RestartingInv'
        BY <3>1, <3>b, RestartingGoesOn DEF RestartingInv
      <3> QED BY <3>1, <3>b, <3>2, <3>3, <3>4, <3>5 DEF RecordInv
    <2> QED BY <1>3, <2>1, <2>2, <2>3, RecordSteps
  <1> QED BY <1>1, <1>2, <1>3

\* An append that found no sector linked none: its file is whole as before.
LEMMA AppendFailedIsWhole ==
  ASSUME ServedInv, AppendingInv, fx.stage = "append", pc = "idle", ret # "APPEND_FILE_SUCCESS"
  PROVE  Whole(fb[file.block])
  <1> DEFINE b == fb[file.block]
  <1>a. TypeOK /\ ContentInv /\ OrderInv /\ LinksInv /\ Ready
    BY RecordFacts DEF RecordingInv, OrderInv
  <1>1. Attached /\ HasRecord(b.length) /\ HasRecord(file.length) /\ SectorsFor(file.length) = SectorsFor(b.length)
    BY DEF AppendingInv
  <1>2. file.block \in Live /\ file.block # Empty /\ b.length # Empty /\ file.length # Empty /\ b.cluster = file.cluster
    BY <1>a, <1>1, AttachedIs, ValueAssumption DEF Attached, HasRecord, Ready, Known
  <1>3. Legible(b)
    BY <1>a, <1>2, KeptIsLegible
  <1>4. Filled(next, data, file.cluster, file.length)
    BY <1>a, <1>2 DEF Ready
  <1>5. PICK p : IsPath(next, b.cluster, p, SectorsFor(b.length))
    BY <1>1, <1>2, <1>4 DEF Filled, Holds
  <1>6. NthSector(b.cluster, SectorsFor(b.length)) = Empty
    <2>1. SectorsFor(b.length) \in Nat
      BY <1>5 DEF IsPath
    <2> QED BY <1>a, <1>5, <2>1, PathIsFollowed
  <1>7. \A s \in Reach(b.cluster) : mark[s] = "inuse"
    <2>1. file.block \in Owners /\ Chain(file.block) = Reach(b.cluster)
      BY <1>2, IndexIsFlash DEF Owners, Chain, Live
    <2> QED BY <1>a, <2>1, OrderlyChains DEF Target, Reach, Reached
  <1> QED BY <1>3, <1>6, <1>7 DEF Whole

LEMMA RecordIsThere ==
  ASSUME ServedInv, RecordInv, fx.had, ConfigAnswered
  PROVE  \E k \in Named(file.name) : HasRecord(fb[k].length) /\ Whole(fb[k])
  <1> DEFINE k == file.block
  <1>a. TypeOK /\ ContentInv /\ OrderInv /\ pc = "idle"
    BY RecordFacts DEF ConfigAnswered, FixedReturn, At
  <1>1. ASSUME Attached, HasRecord(fb[k].length), Whole(fb[k])
        PROVE  \E j \in Named(file.name) : HasRecord(fb[j].length) /\ Whole(fb[j])
    <2>1. k \in Named(file.name)
      BY <1>a, <1>1, AttachedIs DEF Attached, Named
    <2> QED BY <1>1, <2>1
  <1>2. CASE Recorded
    <2>1. /\ Attached /\ HasRecord(fb[k].length) /\ fb[k].length # Empty
          /\ Filled(next, data, fb[k].cluster, fb[k].length)
      BY <1>2, ValueAssumption DEF Recorded, Copy, HasRecord
    <2>2. k \in Live
      BY <1>a, <2>1, AttachedIs
    <2>3. Whole(fb[k])
      BY <1>a, <2>1, <2>2, FilledIsWhole
    <2> QED BY <1>1, <2>1, <2>3
  <1>3. CASE fx.stage = "append" /\ ret # "APPEND_FILE_SUCCESS"
    <2>1. AppendingInv
      BY DEF RecordInv
    <2> QED BY <1>1, <1>3, <1>a, <2>1, AppendFailedIsWhole DEF AppendingInv
  <1>4. fx.stage \in {"finish", "overridden"} => Recorded
    BY <1>a DEF RecordInv, FinishingInv, RestartingInv
  <1>5. ~(fx.stage = "opened" /\ ret \notin {"NONE", "CREATE_FILE_SUCCESS"})
    BY DEF RecordInv
  <1> QED BY <1>2, <1>3, <1>4, <1>5 DEF ConfigAnswered, FixedReturn, At

\* The request that writes a record is over.
Reports == fx'.stage = "none" /\ fx.stage # "none" /\ crashes' = crashes

LEMMA OnlyAnswersReport ==
  ASSUME ServedInv, [UdpNext]_allVars, Reports
  PROVE  ConfigAnswered
  <1>a. fx \in Record /\ crashes \in Nat
    BY RecordFacts DEF TypeOK
  <1>1. ~UNCHANGED allVars
    BY DEF Reports, allVars, fixedVars
  <1>2. ~CallStep
    BY DEF Reports, CallStep, fixedVars
  <1>3. ~Restart
    BY <1>a DEF Reports, Restart, Crash
  <1>4. ~ConfigStep
    <2>1. \A s : Stage(s) => fx'.stage = s
      BY <1>a DEF Stage, Record
    <2> QED BY <2>1 DEF Reports, ConfigStep, FixedStep, FixedDelete, FixedCreate, FixedOverride, FixedAppend,
                        FixedFinish
  <1> QED BY <1>1, <1>2, <1>3, <1>4, RecordSteps DEF Reports

\* Writing a record, also to a file that has to be started again, and also when it fails,
\* leaves a file that had a record with one (fixed_file.c:39).
THEOREM ServiceKeepsRecords ==
  ASSUME TransfersAreCareful
  PROVE  UdpSpec => RecordKept
  <1> DEFINE Inv == ServedInv /\ NamesInv /\ RecordInv
  <1>1. UdpInit => Inv
    <2> SUFFICES ASSUME UdpInit PROVE Inv
      OBVIOUS
    <2>1. ServedInv /\ NamesInv
      BY ServedInit, NamesInit DEF UdpInit
    <2>2. RecordInv
      BY DEF UdpInit, FixedInit, NoRecord, RecordInv
    <2> QED BY <2>1, <2>2
  <1>2. Inv /\ [UdpNext]_allVars => Inv'
    <2> SUFFICES ASSUME Inv, [UdpNext]_allVars PROVE Inv'
      OBVIOUS
    <2>1. ServedInv' /\ NamesInv'
      BY ServedNext, ServiceNamesNext DEF ServedInv, TransferInv
    <2>2. RecordInv'
      BY RecordNext
    <2> QED BY <2>1, <2>2
  <1>3. Inv /\ [UdpNext]_allVars =>
          [fx.had /\ fx'.stage = "none" /\ fx.stage # "none" /\ crashes' = crashes =>
             \E k \in Named(file.name) : HasRecord(fb[k].length) /\ Whole(fb[k])]_allVars
    BY OnlyAnswersReport, RecordIsThere DEF Reports
  <1> HIDE DEF Inv
  <1> QED BY <1>1, <1>2, <1>3, PTL DEF UdpSpec, RecordKept
=============================================================================
