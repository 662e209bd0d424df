----------------------------- MODULE SpifsStore -----------------------------
(***************************************************************************)
(* spifsmini implements FileStore for callers that keep its contract and   *)
(* power that fails between calls only.                                    *)
(*                                                                         *)
(* What a call gives up it gives up at its first step, and what it brings  *)
(* is there when it returns: in between, a file block that is written anew *)
(* is read from the arguments of the call.                                 *)
(***************************************************************************)
EXTENDS SpifsRead

\* The file is being worked on by one of these calls.
InCall(n, ops) == pc # "idle" /\ job.op \in ops /\ n = file.name

\* A byte that reads back as it was written.
Readable(byte) ==
  /\ byte[1] \in Sectors \ clobbered
  /\ mark[byte[1]] = "inuse"
  /\ byte[2] \in data[byte[1]]

\* The bytes of a file up to its length or to the first that cannot be read.
ReadableBytes(c, length) ==
  LET size  == IF length = Empty THEN 0 ELSE length
      whole == {i \in 1..size : \A j \in 1..i : Readable(ReadByte(c, j - 1))}
  IN  [i \in whole |-> ReadByte(c, i - 1)]

Entry(c, length, ro) ==
  [state |-> IF length = Empty THEN "created" ELSE "stored",
   ro    |-> ro,
   bytes |-> ReadableBytes(c, length)]

NoEntry == [state |-> "absent", ro |-> FALSE, bytes |-> <<>>]

StoredAs(n) ==
  CASE pc # "idle" /\ job.op = "format"   -> NoEntry
    [] InCall(n, {"delete"})              -> NoEntry
    [] InCall(n, {"override"})            -> Entry(Empty, Empty, FALSE)
    [] InCall(n, {"finish", "rename"})    -> Entry(file.cluster, file.length, job.info.ro)
    [] OTHER ->
         LET found == {k \in Slots : Index[k].name = n /\ IsOpen(Index[k])}
         IN  IF found = {} THEN NoEntry
             ELSE LET k == CHOOSE j \in found : IsFirst(j, found)
                  IN  Entry(Index[k].cluster, Index[k].length, Index[k].info.ro)

\* The caller's File, while there is a file behind it.
Held ==
  IF \/ file.block = Empty
     \/ pc = "idle" /\ ~Attached
     \/ pc # "idle" /\ job.op \in {"create", "delete", "format"}
  THEN [name |-> NoName, bytes |-> <<>>]
  ELSE [name  |-> file.name,
        bytes |-> IF InCall(file.name, {"override"}) THEN <<>>
                  ELSE ReadableBytes(file.cluster, file.length)]

Promise ==
  INSTANCE FileStore WITH files <- [n \in Names |-> StoredAs(n)],
                          draft <- Held,
                          Byte  <- Sectors \X Bytes

\* Through all calls and restarts the files are what the promise says: a call on
\* one leaves the bytes of the others, an append keeps what was there, a finished
\* file has what was appended, a read-only one never changes, and what fails for
\* want of space leaves what it is said to leave (spifs.h:198).
ImplementsStore == Promise!Store

=============================================================================
