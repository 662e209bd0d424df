----------------------------- MODULE FileStore -----------------------------
(***************************************************************************)
(* What the flash file system promises a caller that keeps its contract:   *)
(* named files of bytes, and the one file the caller has open.  There are  *)
(* no sectors, no index and no garbage here.  A byte is known by where it  *)
(* is: no two bytes of the store at one time are the same one.             *)
(*                                                                         *)
(* Bytes that are appended belong to the file once it is finished, and     *)
(* until then to the caller alone.  A call may fail for want of space:     *)
(* what it may then leave behind is said at each action.                   *)
(***************************************************************************)
EXTENDS Naturals, Sequences

CONSTANTS Names, NoName, Byte

VARIABLES
  files,   \* by name
  draft    \* the caller's file: its name, and its bytes with those not finished

storeVars == <<files, draft>>

\* A file that was only created has no bytes and no length.
File == [state : {"absent", "created", "stored"}, ro : BOOLEAN, bytes : Seq(Byte)]

Absent      == [state |-> "absent", ro |-> FALSE, bytes |-> <<>>]
Created(ro) == [state |-> "created", ro |-> ro, bytes |-> <<>>]
Closed      == [name |-> NoName, bytes |-> <<>>]

Of(bytes) == {bytes[i] : i \in DOMAIN bytes}

\* The bytes some file has, or will have when the caller finishes its own.
Written == Of(draft.bytes) \cup UNION {Of(files[n].bytes) : n \in Names}

IsOpen == draft.name # NoName

StoreInit ==
  /\ files = [n \in Names |-> Absent]
  /\ draft = Closed

Create(n, ro) ==
  /\ files[n] = Absent
  /\ files' = [files EXCEPT ![n] = Created(ro)]
  /\ draft' = [name |-> n, bytes |-> <<>>]

Open(n) ==
  /\ files[n] # Absent
  /\ draft' = [name |-> n, bytes |-> files[n].bytes]
  /\ UNCHANGED files

\* The caller takes up another file, or the station restarts: nothing is left
\* unfinished.
Close ==
  /\ IsOpen => draft.bytes = files[draft.name].bytes
  /\ draft' = Closed
  /\ UNCHANGED files

\* As many bytes as there is space for are put behind what there is.
AppendBytes ==
  LET old == draft.bytes
      new == draft'.bytes
  IN  /\ UNCHANGED files
      /\ IsOpen
      /\ ~files[draft.name].ro
      /\ draft'.name = draft.name
      /\ Len(old) <= Len(new)
      /\ SubSeq(new, 1, Len(old)) = old
      /\ \A i \in Len(old) + 1..Len(new) : new[i] \notin Written

Finish ==
  /\ IsOpen
  /\ files' = [files EXCEPT ![draft.name].state = "stored", ![draft.name].bytes = draft.bytes]
  /\ UNCHANGED draft

\* An override gives up the old bytes first, and ends without any when there is
\* no space for the new ones.
Override ==
  /\ IsOpen
  /\ ~files[draft.name].ro
  /\ files' = [files EXCEPT ![draft.name] = Created(FALSE)]
  /\ draft' = [draft EXCEPT !.bytes = <<>>]

Overridden ==
  /\ IsOpen
  /\ files[draft.name] = Created(FALSE)
  /\ draft'.name = draft.name
  /\ \A i \in DOMAIN draft'.bytes : draft'.bytes[i] \notin Written
  /\ files' = [files EXCEPT ![draft.name].state = "stored", ![draft.name].bytes = draft'.bytes]

\* A rename finishes the file, too.
Rename(n) ==
  /\ IsOpen
  /\ ~files[draft.name].ro
  /\ files[n] = Absent \/ n = draft.name
  /\ \E state \in {"created", "stored"} :
       /\ state = "created" => draft.bytes = <<>> /\ files[draft.name].state = "created"
       /\ files' = [files EXCEPT ![draft.name] = Absent,
                                 ![n] = [state |-> state, ro |-> FALSE, bytes |-> draft.bytes]]
  /\ draft' = [draft EXCEPT !.name = n]

Delete ==
  /\ IsOpen
  /\ files' = [files EXCEPT ![draft.name] = Absent]
  /\ draft' = Closed

Format ==
  /\ files' = [n \in Names |-> Absent]
  /\ draft' = Closed

\* Files that were only created make room for others, but for the one in use.
Collect ==
  \E lost \in SUBSET {n \in Names : files[n].state = "created" /\ n # draft.name} :
    /\ files' = [n \in Names |-> IF n \in lost THEN Absent ELSE files[n]]
    /\ UNCHANGED draft

StoreNext ==
  \/ Close \/ AppendBytes
  \/ \E n \in Names : Open(n) \/ (\E ro \in BOOLEAN : Create(n, ro)) \/ Rename(n)
  \/ Finish \/ Override \/ Overridden \/ Delete \/ Format \/ Collect

Store == StoreInit /\ [][StoreNext]_storeVars

=============================================================================
