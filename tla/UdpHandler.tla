----------------------------- MODULE UdpHandler -----------------------------
(***************************************************************************)
(* The UDP service (src/app/network/udp_handler.c): one session with a     *)
(* token, one file transfer with the File currentFile and a state, and     *)
(* one timer that carries out an acknowledged request later.               *)
(*                                                                         *)
(* A request is an action that starts when no other runs; the calls of the *)
(* file system it makes are those of Spifs, one after the other, and the   *)
(* stages between them are the actions of Serve.                           *)
(***************************************************************************)
EXTENDS FixedFile

CONSTANTS
  TokenLife,   \* TOKEN_TIMEOUT_MAX, minutes a session lives without a request
  Totals,      \* the file sizes upload requests announce
  Requests,    \* the requests clients send
  Client       \* the rules of MaySend, MayResume, MayAdd, MayUpdate, MayErase and
               \* StateWords clients keep

ASSUME ClientAssumption ==
  /\ TokenLife \in Nat \ {0}
  /\ Totals \subseteq Nat
  /\ Client \subseteq {"one_transfer", "no_resume", "no_redo", "exact", "with_record", "format_all",
                 "plain_info"}

VARIABLES
  timeout,     \* connInfo.timeout, 0 when there is no session
  op,          \* fileOpState
  totalSize,
  req,         \* the request being served
  reply,       \* the last answer
  event,       \* udpEventId while udpTimer is armed, or "none"
  asked        \* the file the last upload, download or freeze request named,
               \* or NoName when the service refused it

udpVars == <<timeout, op, totalSize, req, reply, event, asked>>
allVars == <<vars, fixedVars, udpVars>>

\* The state words (finfo) of uploads.  "plain_info": those of a live file.
StateWords ==
  {info \in FileInfo : /\ info.ro \in {FALSE} \cup ReadOnly
                       /\ "plain_info" \in Client => ~info.del /\ ~info.dep}

\* to: the new name of a rename.
Request ==
  [kind : {"none", "upinfo", "updata", "rename", "delete", "format", "config"},
   stage : {"none", "delete", "create", "created", "written", "finished",
            "rename", "renamed", "deleted", "formatted", "fixed"},
   name : Names \cup {NoName},
   to : Names \cup {NoName},
   info : StateWords]

NoRequest ==
  [kind |-> "none", stage |-> "none", name |-> NoName, to |-> NoName, info |-> DefaultInfo]

UdpInit ==
  /\ Init
  /\ FixedInit
  /\ timeout = 0
  /\ op = "INIT"
  /\ totalSize = 0
  /\ req = NoRequest
  /\ reply = "OTHER"
  /\ event = "none"
  /\ asked = NoName

-----------------------------------------------------------------------------
(***************************************************************************)
(* Clients.  The service accepts any request at any time; these rules are  *)
(* those a client has to keep for its transfers to work.                   *)
(***************************************************************************)

\* "one_transfer": no other request uses currentFile while a transfer runs, and
\* an acknowledged request is carried out before the next one.
MaySend(kind) ==
  /\ kind \in Requests
  /\ req = NoRequest
  /\ pc = "idle"
  /\ "one_transfer" \in Client /\ kind \notin {"connect", "disconnect"} =>
       /\ event = "none"
       /\ kind \in {"rename", "delete", "format", "config", "freeze"} => op = "INIT"

\* "no_resume": no appending to a file that was never finished.  "no_redo": nor to
\* one whose last append was cut off or failed, and left bytes behind its end.
MayResume(n) ==
  \A k \in Named(n) :
    /\ "no_resume" \in Client => fb[k].length # Empty \/ fb[k].cluster = Empty
    /\ "no_redo" \in Client /\ fb[k].length # Empty => Ended(fb[k])

\* "exact": no more data than announced.
MayAdd(len) ==
  "exact" \in Client =>
    IF file.length \in Nat THEN file.length + len <= totalSize ELSE len <= totalSize

\* "with_record": an update is for a file that has a record, in its first sector.
MayUpdate(n) ==
  "with_record" \in Client =>
    \A k \in Named(n) : HasRecord(fb[k].length) /\ fb[k].length <= DataArea

\* "format_all": a format of the whole file system or of nothing in it.
MayErase(fbs, secs) == "format_all" \in Client => fbs = {} /\ secs = {}

\* checkTokenAlive: right is FALSE for a token of an earlier session.
TokenAlive(right) == right /\ timeout > 0

Refresh(alive) == timeout' = IF alive THEN TokenLife ELSE timeout

\* The answer a client relies on, and all the other result bytes.
Replies == {"FILE_WRITTEN_ACK", "OTHER"}

Answer(r) ==
  /\ reply' = IF r \in Replies THEN r ELSE "OTHER"
  /\ req' = NoRequest

\* The request goes on when the call it makes now has returned.
Await(stage) == req' = [req EXCEPT !.stage = stage]

\* The request waits for the call made at this stage, which has returned.
Returned(kind, stage) == req.kind = kind /\ req.stage = stage /\ pc = "idle"

\* An answer without a call of the file system.
Untouched == UNCHANGED <<vars, fixedVars>>

-----------------------------------------------------------------------------
(***************************************************************************)
(* The session.                                                            *)
(***************************************************************************)

\* onConnectRequest, with the right password.
Connect ==
  /\ MaySend("connect")
  /\ timeout' = TokenLife
  /\ Answer("SUCCESS")
  /\ Untouched
  /\ UNCHANGED <<op, totalSize, event, asked>>

\* onDisConnectRequest.
Disconnect(right) ==
  /\ MaySend("disconnect")
  /\ timeout' = IF TokenAlive(right) THEN 0 ELSE timeout
  /\ Answer(IF TokenAlive(right) THEN "SUCCESS" ELSE "TOKEN_NOT_EXIST")
  /\ Untouched
  /\ UNCHANGED <<op, totalSize, event, asked>>

\* updateTokenTimeout, once a minute while the clock timer runs.
Tick ==
  /\ req = NoRequest
  /\ timeout > 0
  /\ timeout' = timeout - 1
  /\ Untouched
  /\ UNCHANGED <<op, totalSize, req, reply, event, asked>>

\* The link is lost (handlerDelete) and back (handlerInit): the session and the
\* timer are gone, the transfer is not.
Relink ==
  /\ req = NoRequest
  /\ timeout > 0 \/ event # "none"
  /\ timeout' = 0
  /\ event' = "none"
  /\ Untouched
  /\ UNCHANGED <<op, totalSize, req, reply, asked>>

-----------------------------------------------------------------------------
(***************************************************************************)
(* Uploads.                                                                *)
(***************************************************************************)

\* Seeded bug: the data sectors are not counted.
UpInfoRefusalMutant(right, size, crcOk) ==
  CASE ~TokenAlive(right) -> "TOKEN_NOT_EXIST"
    [] Unnamed = {} -> "FILE_NO_FILEBLOCK_SPACE"
    [] ~crcOk -> "FILE_INIT_CRC_ERROR"
    [] OTHER -> "none"

\* The checks of onFileUpInfoRequest, in its order.
UpInfoRefusal(right, size, crcOk) ==
  CASE ~TokenAlive(right) -> "TOKEN_NOT_EXIST"
    [] Unnamed = {} -> "FILE_NO_FILEBLOCK_SPACE"
    [] Cardinality(writable \cup erasable) * DataArea < size -> "FILE_NO_DATAAREA_SPACE"
    [] ~crcOk -> "FILE_INIT_CRC_ERROR"
    [] OTHER -> "none"

\* The transfer state is reset, and the size taken, before the checks.
UpInfoRefused(right, size, crcOk) ==
  /\ MaySend("upinfo")
  /\ UpInfoRefusal(right, size, crcOk) # "none"
  /\ Refresh(TokenAlive(right))
  /\ op' = "INIT"
  /\ totalSize' = size
  /\ asked' = NoName
  /\ Answer(UpInfoRefusal(right, size, crcOk))
  /\ Untouched
  /\ UNCHANGED event

\* Appending is allowed whatever opening or creating the file comes to.
UpInfo(n, size, method, info) ==
  /\ MaySend("upinfo")
  /\ UpInfoRefusal(TRUE, size, TRUE) = "none"
  /\ method = "APPEND" => MayResume(n)
  /\ Refresh(TRUE)
  /\ op' = "APPEND"
  /\ totalSize' = size
  /\ asked' = IF method = "APPEND" /\ Named(n) = {} THEN NoName ELSE n
  /\ LET call == [NoRequest EXCEPT !.kind = "upinfo", !.name = n, !.info = info] IN
     \/ /\ method = "OVERRIDE" /\ Named(n) # {}
        /\ OpenCall(n)
        /\ req' = [call EXCEPT !.stage = "delete"]
        /\ UNCHANGED reply
     \/ /\ method = "APPEND" /\ Named(n) # {}
        /\ OpenCall(n)
        /\ Answer("SUCCESS")
     \/ /\ method = "APPEND" /\ Named(n) = {}
        /\ file' = [NoFile EXCEPT !.name = n]
        /\ Answer("FILE_NOT_EXIST")
        /\ UNCHANGED <<flash, ftl, gcbuf, pc, job, ret, crashes>>
     \/ /\ method = "NORMAL" \/ (method = "OVERRIDE" /\ Named(n) = {})
        /\ CreateWith(n, info)
        /\ req' = [call EXCEPT !.stage = "created"]
        /\ UNCHANGED reply
  /\ UNCHANGED <<fixedVars, event>>

UpInfoDelete ==
  /\ Returned("upinfo", "delete")
  /\ DeleteCall
  /\ Await("create")
  /\ UNCHANGED <<fixedVars, timeout, op, totalSize, reply, event, asked>>

UpInfoCreate ==
  /\ Returned("upinfo", "create")
  /\ CreateWith(req.name, req.info)
  /\ Await("created")
  /\ UNCHANGED <<fixedVars, timeout, op, totalSize, reply, event, asked>>

\* The checks of onFileUpDataRequest, in its order; inRange: no more than
\* FILE_PAYLOAD_MAX bytes.
UpDataRefusal(right, inRange, crcOk) ==
  CASE ~TokenAlive(right) -> "TOKEN_NOT_EXIST"
    [] op # "APPEND" -> "FILE_OP_STATE_ERROR"
    [] ~inRange -> "FILE_PAYLOAD_OUTOF_RANGE"
    [] ~crcOk -> "FILE_CONTENT_CRC_ERROR"
    [] OTHER -> "none"

UpDataRefused(right, inRange, crcOk) ==
  /\ MaySend("updata")
  /\ UpDataRefusal(right, inRange, crcOk) # "none"
  /\ Refresh(TokenAlive(right))
  /\ Answer(UpDataRefusal(right, inRange, crcOk))
  /\ Untouched
  /\ UNCHANGED <<op, totalSize, event, asked>>

UpData(len) ==
  /\ MaySend("updata")
  /\ UpDataRefusal(TRUE, TRUE, TRUE) = "none"
  /\ MayAdd(len)
  /\ WriteCall(len, "APPEND")
  /\ Refresh(TRUE)
  /\ req' = [NoRequest EXCEPT !.kind = "updata", !.stage = "written"]
  /\ UNCHANGED <<fixedVars, op, totalSize, reply, event, asked>>

\* Seeded bug: the upload ends one byte early.
CompleteMutant == file.length = Empty \/ (file.length \in Nat /\ file.length + 1 >= totalSize)

\* currentFile.length >= totalSize, where an unset length is 2^32 - 1.
Complete == file.length = Empty \/ (file.length \in Nat /\ file.length >= totalSize)

\* write_file has returned: finish the file when all of it has come.
UpDataWritten ==
  /\ Returned("updata", "written")
  /\ \/ /\ Complete
        /\ FinishCall
        /\ Await("finished")
        /\ UNCHANGED reply
     \/ /\ ~Complete
        /\ Answer(IF ret = "APPEND_FILE_SUCCESS" THEN "SUCCESS" ELSE ret)
        /\ UNCHANGED vars
  /\ UNCHANGED <<fixedVars, timeout, op, totalSize, event, asked>>

UpDataFinished ==
  /\ Returned("updata", "finished")
  /\ op' = "INIT"
  /\ Answer(IF ret = "APPEND_FILE_FINISH" THEN "FILE_WRITTEN_ACK" ELSE ret)
  /\ Untouched
  /\ UNCHANGED <<timeout, totalSize, event, asked>>

-----------------------------------------------------------------------------
(***************************************************************************)
(* Downloads.                                                              *)
(***************************************************************************)

\* Seeded bug: a file already open is not opened again.
DownInfoMutant(n, right, crcOk) ==
  /\ MaySend("downinfo")
  /\ Refresh(TokenAlive(right))
  /\ op' = "READ"
  /\ file' = [file EXCEPT !.name = n]
  /\ asked' = IF file.block # Empty THEN n ELSE NoName
  /\ Answer("SUCCESS")
  /\ UNCHANGED <<flash, ftl, gcbuf, pc, job, ret, crashes, fixedVars, totalSize, event>>

\* onFileDownInfoRequest: currentFile gets the name before the checks, and the
\* state is "READ" whatever they come to.
DownInfo(n, right, crcOk) ==
  /\ MaySend("downinfo")
  /\ Refresh(TokenAlive(right))
  /\ op' = "READ"
  /\ LET accepted == TokenAlive(right) /\ crcOk IN
     \/ /\ accepted /\ Named(n) # {}
        /\ OpenCall(n)
        /\ asked' = n
        /\ Answer("SUCCESS")
     \/ /\ ~accepted \/ Named(n) = {}
        /\ file' = [file EXCEPT !.name = n]
        /\ asked' = NoName
        /\ Answer("REFUSED")
        /\ UNCHANGED <<flash, ftl, gcbuf, pc, job, ret, crashes>>
  /\ UNCHANGED <<fixedVars, totalSize, event>>

\* read_file finds something at offset 0 of currentFile.
Readable ==
  /\ file.block # Empty
  /\ IsOpen(fb[file.block])
  /\ file.length # 0

\* onFileDownDataRequest, without a token; the last one ends the transfer.
DownData(last) ==
  /\ MaySend("downdata")
  /\ LET sent == op = "READ" /\ Readable IN
     /\ op' = IF sent /\ last THEN "INIT" ELSE op
     /\ Answer(IF sent THEN "SUCCESS" ELSE "REFUSED")
  /\ Untouched
  /\ UNCHANGED <<timeout, totalSize, event, asked>>

-----------------------------------------------------------------------------
(***************************************************************************)
(* Renaming, deleting, formatting.                                         *)
(***************************************************************************)

\* onFileRenameRequest: currentFile gets the old name before the checks.
Rename(n, m, right, crcOk) ==
  /\ MaySend("rename")
  /\ Refresh(TokenAlive(right))
  /\ LET accepted == TokenAlive(right) /\ crcOk IN
     \/ /\ accepted /\ Named(n) # {}
        /\ OpenCall(n)
        /\ req' = [NoRequest EXCEPT !.kind = "rename", !.stage = "rename", !.to = m]
        /\ UNCHANGED reply
     \/ /\ ~accepted \/ Named(n) = {}
        /\ file' = [file EXCEPT !.name = n]
        /\ Answer("REFUSED")
        /\ UNCHANGED <<flash, ftl, gcbuf, pc, job, ret, crashes>>
  /\ UNCHANGED <<fixedVars, op, totalSize, event, asked>>

RenameFile ==
  /\ Returned("rename", "rename")
  /\ RenameCall(req.to)
  /\ Await("renamed")
  /\ UNCHANGED <<fixedVars, timeout, op, totalSize, reply, event, asked>>

\* onFileDeleteRequest.
Delete(n, right, crcOk) ==
  /\ MaySend("delete")
  /\ Refresh(TokenAlive(right))
  /\ LET accepted == TokenAlive(right) /\ crcOk IN
     \/ /\ accepted /\ Named(n) # {}
        /\ OpenCall(n)
        /\ \/ /\ CanWrite(fb[file'.block])
              /\ req' = [NoRequest EXCEPT !.kind = "delete", !.stage = "delete"]
              /\ UNCHANGED reply
           \/ /\ ~CanWrite(fb[file'.block])
              /\ Answer("DELETE_NO_PERMISSION")
     \/ /\ ~accepted \/ Named(n) = {}
        /\ Answer("REFUSED")
        /\ UNCHANGED vars
  /\ UNCHANGED <<fixedVars, op, totalSize, event, asked>>

DeleteFile ==
  /\ Returned("delete", "delete")
  /\ DeleteCall
  /\ Await("deleted")
  /\ UNCHANGED <<fixedVars, timeout, op, totalSize, reply, event, asked>>

\* onFsFormatRequest for all sectors of the file system.
Format ==
  /\ MaySend("format")
  /\ TokenAlive(TRUE)
  /\ Refresh(TRUE)
  /\ FormatCall
  /\ req' = [NoRequest EXCEPT !.kind = "format", !.stage = "formatted"]
  /\ UNCHANGED <<fixedVars, op, totalSize, reply, event, asked>>

\* The sectors of the file system that lie in a range: the index comes before the data.
Stretch(fbs, secs) ==
  /\ \A g, h \in fbs : \A between \in FbSectors : g <= between /\ between <= h => between \in fbs
  /\ \A s, t \in secs : s..t \subseteq secs
  /\ secs # {} => \A g \in fbs : \A behind \in FbSectors : g <= behind => behind \in fbs
  /\ fbs # {} => \A s \in secs : 1..s \subseteq secs

\* spifs_erase_sector of each.  Power that fails between two of them leaves a shorter
\* stretch erased, so that they can be erased in one step.
EraseStretch(fbs, secs) ==
  /\ fb' = [k \in Slots |-> IF SlotSector[k] \in fbs THEN BlankBlock ELSE fb[k]]
  /\ mark' = [s \in Sectors |-> IF s \in secs THEN "blank" ELSE mark[s]]
  /\ next' = [s \in Sectors |-> IF s \in secs THEN Empty ELSE next[s]]
  /\ data' = [s \in Sectors |-> IF s \in secs THEN {} ELSE data[s]]
  /\ clobbered' = clobbered \ secs
  /\ erasable' = erasable \ secs
  /\ writable' = writable \cup secs
  /\ UNCHANGED <<boot, file, gcbuf, pc, job, ret, crashes>>

\* onFsFormatRequest for a part of them.  The range may be empty, or begin before the
\* file system: then nothing is erased; or end behind it: then the answer is
\* FS_FORMAT_OUTOF_RANGE, which is one of the others here.
FormatPart(fbs, secs) ==
  /\ MaySend("format")
  /\ TokenAlive(TRUE)
  /\ Stretch(fbs, secs) /\ MayErase(fbs, secs)
  /\ Refresh(TRUE)
  /\ EraseStretch(fbs, secs)
  /\ Answer("SUCCESS")
  /\ UNCHANGED <<fixedVars, op, totalSize, event, asked>>

\* onFsFormatRequest without a session, or with a battery below 0x200.
FormatRefused(right, charged) ==
  /\ MaySend("format")
  /\ ~(TokenAlive(right) /\ charged)
  /\ Refresh(TokenAlive(right))
  /\ Answer("REFUSED")
  /\ Untouched
  /\ UNCHANGED <<op, totalSize, event, asked>>

\* The call was the last one of the request.
CallAnswered ==
  /\ \/ Returned("upinfo", "created") \/ Returned("rename", "renamed")
     \/ Returned("delete", "deleted") \/ Returned("format", "formatted")
  /\ Answer(IF ret \in {"NONE", "CREATE_FILE_SUCCESS", "FILE_RENAME_SUCCESS"}
            THEN "SUCCESS" ELSE ret)
  /\ asked' = IF ret = "FILE_ALREADY_EXIST" THEN NoName ELSE asked
  /\ Untouched
  /\ UNCHANGED <<timeout, op, totalSize, event>>

-----------------------------------------------------------------------------
(***************************************************************************)
(* Requests carried out later, by udpTimer.                                *)
(***************************************************************************)

\* freezeFrame: show a picture.  ok: the file opened is a picture that fits.
Freeze(n, ok) ==
  /\ MaySend("freeze")
  /\ TokenAlive(TRUE)
  /\ Refresh(TRUE)
  /\ \/ /\ Named(n) # {}
        /\ OpenCall(n)
        /\ ok => file'.cluster \in Sectors
        /\ \/ /\ ok
              /\ op' = "READ"
              /\ event' = "FREEZE"
              /\ asked' = n
              /\ Answer("SUCCESS")
           \/ /\ ~ok
              /\ Answer("FREEZE_PACKAGE_FILE_FORMAT_ERROR")
              /\ UNCHANGED <<op, event, asked>>
     \/ /\ Named(n) = {}
        /\ Answer("FREEZE_PACKAGE_FILE_NOT_EXIST")
        /\ UNCHANGED <<vars, op, event, asked>>
  /\ UNCHANGED <<fixedVars, totalSize>>

\* What the three requests below do when none of their checks fails.  Otherwise, and
\* for another power mode, all they do here is what Inquire does.
Defer(e) ==
  /\ MaySend(e)
  /\ TokenAlive(TRUE)
  /\ Refresh(TRUE)
  /\ event' = e
  /\ Answer("SUCCESS")
  /\ Untouched
  /\ UNCHANGED <<op, totalSize, asked>>

onRebootRequest == Defer("REBOOT")
onNetUpdateRequest == Defer("NETUPDATE")
onPowerModeRequest == Defer("SHUTDOWN")

\* udpTimerCallback.  A picture is shown when the state still is "READ"; the
\* other events leave the service (a reboot first starts a system update, if
\* there is one; else it is a Restart).
TimerFires ==
  /\ req = NoRequest
  /\ event # "none"
  /\ event' = "none"
  /\ op' = IF event = "FREEZE" /\ op = "READ" THEN "INIT" ELSE op
  /\ Untouched
  /\ UNCHANGED <<timeout, totalSize, req, reply, asked>>

\* Power is lost, or the reboot event fires: the RAM starts again.
Restart ==
  /\ Crash
  /\ ~AnyTime => req = NoRequest
  /\ parked' = NoFile
  /\ fx' = NoRecord
  /\ timeout' = 0
  /\ op' = "INIT"
  /\ totalSize' = 0
  /\ req' = NoRequest
  /\ event' = "none"
  /\ asked' = NoName
  /\ reply' = "OTHER"

-----------------------------------------------------------------------------
(***************************************************************************)
(* onConfigWriteRequest: a record is added to a fixed-size record file.    *)
(***************************************************************************)
ConfigWrite(n) ==
  /\ MaySend("config")
  /\ TokenAlive(TRUE)
  /\ MayResume(n)
  /\ Refresh(TRUE)
  /\ FixedOpen(n)
  /\ req' = [NoRequest EXCEPT !.kind = "config", !.stage = "fixed", !.name = n]
  /\ UNCHANGED <<op, totalSize, reply, event, asked>>

ConfigStep ==
  /\ FixedStep
  /\ UNCHANGED udpVars

ConfigAnswered ==
  /\ \E success \in BOOLEAN :
       /\ FixedReturn(success)
       /\ Answer(IF success THEN "SUCCESS" ELSE "CONFIG_WRITE_ERROR")
  /\ UNCHANGED <<timeout, op, totalSize, event, asked>>

\* fixed_file_update programs a byte that is not one of the last record: the address
\* is that of the first sector plus a length that may be unset or too small.
Astray(block, offset) ==
  /\ block.length \in Nat => offset < block.length
  /\ ~(HasRecord(block.length) /\ block.length - Section + offset < DataArea)

\* onConfigUpdateRequest: some bits of the last record are cleared, which changes
\* nothing that is told apart here unless the byte is another one.
ConfigUpdate(n, offset, right, crcOk) ==
  /\ MaySend("update")
  /\ MayUpdate(n)
  /\ Refresh(TokenAlive(right))
  /\ LET accepted == TokenAlive(right) /\ offset < Section /\ crcOk /\ Named(n) # {}
         astray == \E k \in Named(n) : IsFirst(k, Named(n)) /\ Astray(fb[k], offset)
     IN  /\ boot' = IF accepted /\ astray THEN "overwritten" ELSE boot
         /\ Answer(IF accepted THEN "SUCCESS" ELSE "REFUSED")
  /\ UNCHANGED <<fb, mark, next, data, clobbered, ftl, file, gcbuf, pc, job, ret, crashes>>
  /\ UNCHANGED <<fixedVars, op, totalSize, event, asked>>

-----------------------------------------------------------------------------
(***************************************************************************)
(* Requests that only read.  They too keep the session alive.              *)
(***************************************************************************)
Inquire(right, ok) ==
  /\ MaySend("inquire")
  /\ Refresh(TokenAlive(right))
  /\ Answer(IF TokenAlive(right) /\ ok THEN "SUCCESS" ELSE "REFUSED")
  /\ Untouched
  /\ UNCHANGED <<op, totalSize, event, asked>>

sensorRead(right) == Inquire(right, TRUE)
deviceInfoRead(right) == Inquire(right, TRUE)
displayBufferRead(right, inRange) == Inquire(right, inRange)
onFsStatusRequest(right) == Inquire(right, TRUE)

\* At most FS_LIST_LOAD_MAX files.
onFsListRequest(right, inRange, crcOk) == Inquire(right, inRange /\ crcOk)

\* The last record of a file is read.
onConfigReadRequest(n, right) ==
  Inquire(right, \E k \in Named(n) : IsFirst(k, Named(n)) /\ HasRecord(fb[k].length))

-----------------------------------------------------------------------------
\* What the checks of a request find: nothing, a wrong token or a wrong CRC.
Checked == {<<TRUE, TRUE>>, <<FALSE, TRUE>>, <<TRUE, FALSE>>}

Ask ==
  \/ Connect
  \/ \E right \in BOOLEAN :
       \/ Disconnect(right) \/ sensorRead(right) \/ deviceInfoRead(right) \/ onFsStatusRequest(right)
       \/ \E n \in Names : onConfigReadRequest(n, right)
       \/ \E inRange \in BOOLEAN : displayBufferRead(right, inRange)
  \/ \E checked \in Checked :
       LET right == checked[1]
           crcOk == checked[2]
       IN
       \/ \E size \in Totals : UpInfoRefused(right, size, crcOk)
       \/ \E inRange \in BOOLEAN : UpDataRefused(right, inRange, crcOk)
       \/ \E n \in Names : DownInfo(n, right, crcOk) \/ Delete(n, right, crcOk)
       \/ \E n, m \in Names : Rename(n, m, right, crcOk)
       \/ \E n \in Names, offset \in 0..Section : ConfigUpdate(n, offset, right, crcOk)
       \/ \E inRange \in BOOLEAN : onFsListRequest(right, inRange, crcOk)
  \/ \E n \in Names, size \in Totals, method \in {"NORMAL", "OVERRIDE", "APPEND"},
       info \in StateWords : UpInfo(n, size, method, info)
  \/ \E len \in WriteLens : UpData(len)
  \/ \E last \in BOOLEAN : DownData(last)
  \/ \E n \in Names, ok \in BOOLEAN : Freeze(n, ok)
  \/ \E n \in Names : ConfigWrite(n)
  \/ Format
  \/ \E fbs \in SUBSET FbSectors, secs \in SUBSET Sectors : FormatPart(fbs, secs)
  \/ \E right, charged \in BOOLEAN : FormatRefused(right, charged)
  \/ onRebootRequest \/ onNetUpdateRequest \/ onPowerModeRequest

Serve ==
  \/ UpInfoDelete \/ UpInfoCreate \/ UpDataWritten \/ UpDataFinished
  \/ RenameFile \/ DeleteFile \/ CallAnswered \/ ConfigStep \/ ConfigAnswered

\* A call of the file system runs on.
CallStep ==
  /\ Step
  /\ UNCHANGED <<fixedVars, udpVars>>

UdpNext == Ask \/ Serve \/ CallStep \/ Tick \/ Relink \/ TimerFires \/ Restart

UdpSpec == UdpInit /\ [][UdpNext]_allVars

-----------------------------------------------------------------------------
(***************************************************************************)
(* Properties.                                                             *)
(***************************************************************************)

UdpTypeOK ==
  /\ TypeOK
  /\ parked \in File
  /\ fx \in Record
  /\ timeout \in 0 .. TokenLife
  /\ op \in {"INIT", "APPEND", "READ"}
  /\ totalSize \in Nat
  /\ req \in Request
  /\ reply \in Replies
  /\ event \in {"none", "FREEZE", "NETUPDATE", "SHUTDOWN", "REBOOT"}
  /\ asked \in Names \cup {NoName}

\* The named file is there with all the bytes announced, and can be read back.
Stored(n, size) ==
  \E k \in Named(n) : fb[k].length \in Nat /\ fb[k].length >= size /\ Whole(fb[k])

\* The client is told that its file is written only when it is
\* (udp_handler.c:711).
AckMeansStored ==
  [][req.kind = "updata" /\ req' = NoRequest /\ reply' = "FILE_WRITTEN_ACK" =>
       Stored(asked, totalSize)]_allVars

\* An upload the space check let in never runs out of sectors.
FitsOnceAccepted == ~(req.kind = "updata" /\ ret = "NO_SECTOR_SPACE")

\* The service and the file system under it keep their types, and an accepted
\* upload fits (udp_handler.c:620).
ServiceIsSound == UdpTypeOK /\ FitsOnceAccepted

\* From an accepted download or freeze request on, the service reads the file
\* that was asked for, and every byte of it is there.
ReadsTheAsked ==
  op = "READ" /\ asked # NoName /\ req = NoRequest =>
    /\ Attached
    /\ file.name = asked
    /\ file.length # Empty => Legible(file)

\* Writing a record, successfully or not, never leaves a file that had a record
\* without one.
RecordKept ==
  [][fx.had /\ fx'.stage = "none" /\ fx.stage # "none" /\ crashes' = crashes =>
       \E k \in Named(file.name) : HasRecord(fb[k].length) /\ Whole(fb[k])]_allVars
=============================================================================
