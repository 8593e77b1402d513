-------------------------- MODULE EncryptedImage --------------------------
(***************************************************************************)
(* What hdutil and dmg make of an image with and without a key: DmgFile on *)
(* a plain file, DmgFile on a FileVault, whose chunk and whose position it *)
(* moves under way, and a program that uses the FileVault itself.          *)
(***************************************************************************)
EXTENDS DmgFile, FileVault, FiniteSets

VARIABLES
  client,  \* "plain", "keyed" or "direct"
  asked    \* "nothing", "place" or "bytes": what DmgFile waits for

vars == <<dmg, cache, offset, call, status,
          store, dataSize, vault, vcall, vstatus, client, asked>>

(* The bytes of files.  What tells a chunk that was decrypted with the     *)
(* wrong number is not among them, and the runs of an image are in it.     *)
Bytes == {Zero} \cup UNION {{d.bytes[i] : i \in DOMAIN d.bytes} : d \in Images}

ASSUME FileAssumption ==
  /\ Garbage \notin Bytes
  /\ \A d \in Images :
       /\ d.bytes \in Seq(Bytes)
       /\ \A t \in DOMAIN d.tables : \A j \in DOMAIN d.tables[t].runs :
            LET r == d.tables[t].runs[j]
            IN  r.type \in {"raw", Compressed} => r.off + r.len <= Len(d.bytes)

(* The file an image is encrypted to.                                      *)
Encrypted(bytes) ==
  [n \in 0 .. ((Len(bytes) + ChunkSize - 1) \div ChunkSize) - 1 |->
     [iv |-> n,
      text |-> [i \in 1 .. ChunkSize |->
                  IF n * ChunkSize + i <= Len(bytes)
                  THEN bytes[n * ChunkSize + i] ELSE Zero]]]

(* Images that 32 bits do not reach are only read directly.                *)
ImageInit ==
  /\ Init
  /\ client \in {"plain", "keyed", "direct"}
  /\ Len(dmg.bytes) > WordBytes => client = "direct"
  /\ store = Encrypted(dmg.bytes)
  /\ dataSize = Len(dmg.bytes)
  /\ vault = [offset |-> 0, curChunk |-> 0, chunk |-> <<>>,
              dirty |-> FALSE, headerDirty |-> FALSE]
  /\ vcall = Idle
  /\ vstatus = "closed"
  /\ asked = "nothing"

Reader(A) == client # "direct" /\ A /\ UNCHANGED <<vaultVars, client, asked>>

OpenImage == Reader(client = "keyed" => vstatus = "open") /\ Open

-----------------------------------------------------------------------------
(* cacheRun on a FileVault: seek, read, and the answer.                    *)
Waiting(what) == client = "keyed" /\ call.pc = "fetch" /\ asked = what

AskPlace == /\ Waiting("nothing")
            /\ VaultSeek(Run(call.run).off)
            /\ asked' = "place"
            /\ UNCHANGED <<readerVars, client>>

AskBytes == /\ Waiting("place")
            /\ Run(call.run).type \in {"raw", Compressed}
            /\ VaultRead(Run(call.run).len)
            /\ asked' = "bytes"
            /\ UNCHANGED <<readerVars, client>>

(* Nothing is read for an empty run, nor for one that is not known.        *)
NeedNot == /\ Waiting("place")
           /\ Run(call.run).type \notin {"raw", Compressed}
           /\ Arrive(<<>>)
           /\ asked' = "nothing"
           /\ UNCHANGED <<vaultVars, client>>

Deliver == /\ Waiting("bytes") /\ vcall.op = "done"
           /\ Arrive(vcall.got)
           /\ asked' = "nothing"
           /\ UNCHANGED <<vaultVars, client>>

PlainFetch == Reader(client = "plain") /\ Fetch

FetchKeyed == AskPlace \/ AskBytes \/ NeedNot \/ Deliver

(* closeDmgFile closes the file that is behind it.                         *)
CloseImage == \/ Reader(client = "plain") /\ Close
              \/ /\ client = "keyed"
                 /\ Close
                 /\ VaultClose
                 /\ UNCHANGED <<client, asked>>

-----------------------------------------------------------------------------
(* A program that uses the vault itself asks for nothing behind what       *)
(* getLength answers.                                                      *)
Direct(A) == client = "direct" /\ A /\ UNCHANGED <<readerVars, client, asked>>

Present(n) == [i \in 1 .. n |->
                 IF vault.offset + i <= Len(dmg.bytes)
                 THEN dmg.bytes[vault.offset + i] ELSE Zero]

DirectUse ==
  \/ \E o \in 0 .. dataSize : Direct(VaultSeek(o))
  \/ \E n \in 0 .. dataSize - vault.offset : Direct(VaultRead(n))
  \/ \E n \in 1 .. (dataSize + 1) - vault.offset :
       \E s \in {Present(n), [Present(n) EXCEPT ![n] = Zero]} :
         Direct(VaultWrite(s))
  \/ Direct(VaultClose)

Unlock == /\ client # "plain" /\ OpenVault
          /\ UNCHANGED <<readerVars, client, asked>>

VaultStep == VaultTurn /\ UNCHANGED <<readerVars, client, asked>>

Work == \/ Reader(TRUE) /\ (Turn \/ ReadFirstEntry \/ ReadMap \/ Select)
        \/ PlainFetch
        \/ FetchKeyed
        \/ VaultStep

ImageNext == \/ OpenImage
             \/ Work
             \/ Reader(TRUE) /\ Reads
             \/ CloseImage
             \/ Unlock
             \/ DirectUse

(* A single thread: what has begun goes on.                                *)
ImageSpec == ImageInit /\ [][ImageNext]_vars /\ WF_vars(Work)

-----------------------------------------------------------------------------
(* A dirty chunk is one that the file has, and the chunk in memory is the  *)
(* one that the position is in, except while the vault is closed.          *)
VaultTypeOK ==
  /\ TypeOK
  /\ vstatus \in {"closed", "open", "exited", "undefined"}
  /\ vstatus = "open" => /\ vault.curChunk = vault.offset \div ChunkSize
                         /\ vault.chunk = Text(vault.curChunk)
                         /\ vault.dirty => vault.curChunk \in Chunks
  /\ vault.headerDirty => client = "direct"
  /\ asked # "nothing" => client = "keyed" /\ call.pc = "fetch"

(* What the file holds, seen through the chunk in memory.                  *)
PlainText ==
  [i \in 1 .. Cardinality(Chunks) * ChunkSize |->
     LET n == (i - 1) \div ChunkSize
     IN  (IF vstatus = "open" /\ n = vault.curChunk THEN vault.chunk
          ELSE Text(n))[((i - 1) % ChunkSize) + 1]]

Underway == vcall.op \in {"read", "write"}

Vault == INSTANCE ByteFile WITH
           content <- PlainText,
           pos     <- IF Underway THEN vcall.from ELSE vault.offset,
           answer  <- IF vcall.op = "done"
                      THEN [at |-> vcall.from, want |-> vcall.size,
                            bytes |-> vcall.got]
                      ELSE [at |-> 0, want |-> 0, bytes |-> <<>>],
           status  <- IF vstatus \in {"open", "closed"} THEN "open" ELSE "failed"

(* filevault.c:94-158: with or without another program's reads in between, *)
(* an encrypted file reads, writes and seeks like any other, and what it   *)
(* holds is never changed.                                                 *)
VaultIsByteFile == Vault!FileSpec
=============================================================================
