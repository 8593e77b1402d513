--------------------------- MODULE AbstractFiles ---------------------------
(***************************************************************************)
(* The kinds of AbstractFile of common/abstractfile.c, one at a time, and  *)
(* the io_func wrapper around any of them.                                 *)
(*                                                                         *)
(*   "rb", "wb"  a FILE, opened for reading or for writing                 *)
(*   "mem"       a buffer of a given size, which grows                     *)
(*   "memFile"   a buffer with a size of its own and room for more         *)
(*   "pipe"      standard input, whose first bytes are kept                *)
(*                                                                         *)
(* `bytes` is what is behind the file: its contents, or the whole buffer.  *)
(* Programs read a memFile only as far as it was written, as               *)
(* copyAcrossVolumes does; nothing creates a dummy file.                   *)
(***************************************************************************)
EXTENDS Integers, Sequences

CONSTANTS
  Byte,         \* the bytes
  Junk,         \* what realloc'ed memory holds
  Zero,         \* a byte of zero, one of Byte
  MaxLen,       \* bound: length of a file, or of a buffer
  PipeBuffer,   \* PIPE_BUFFER_SIZE
  FirstRoom     \* the 1024 of createAbstractFileFromMemoryFile

ASSUME BytesAssumption == Zero \in Byte /\ Junk \notin Byte
ASSUME RoomAssumption == /\ MaxLen \in Nat /\ PipeBuffer \in Nat \ {0}
                         /\ FirstRoom \in Nat \ {0}

VARIABLES
  file,    \* [kind, bytes, size, pos, eof, filePos, head]
  answer,  \* what the last read answered, or the last write wrote
  asked,   \* [at, want]: where the last operation began, or an exit was to
           \* go, and what a read asked for
  status   \* "open", or why the program cannot go on

vars == <<file, answer, asked, status>>

Strings(n) == UNION {[1 .. k -> Byte] : k \in 0 .. n}

MinOf(a, b) == IF a <= b THEN a ELSE b
MaxOf(a, b) == IF a >= b THEN a ELSE b

Room == Len(file.bytes)

Junks(n) == [i \in 1 .. n |-> Junk]

(* eof: the end-of-file indicator of the FILE.  A pipe reads its head when *)
(* it is created.                                                          *)
Created(kind, bytes) ==
  [kind |-> kind,
   bytes |-> IF kind = "memFile"
             THEN bytes \o Junks(MaxOf(FirstRoom, Len(bytes)) - Len(bytes))
             ELSE bytes,
   size |-> Len(bytes),
   pos |-> 0,
   eof |-> kind = "pipe" /\ Len(bytes) < PipeBuffer,
   filePos |-> IF kind = "pipe" THEN MinOf(PipeBuffer, Len(bytes)) ELSE 0,
   head |-> IF kind = "pipe" THEN MinOf(PipeBuffer, Len(bytes)) ELSE 0]

Asking(at, n) == [at |-> at, want |-> n]
Nothing       == Asking(0, 0)

Init ==
  /\ \E bytes \in Strings(MaxLen) :
       \E kind \in {"rb", "wb", "mem", "memFile", "pipe"} :
         /\ kind = "wb" => bytes = <<>>
         /\ kind = "mem" => bytes # <<>>
         /\ file = Created(kind, bytes)
  /\ answer = <<>> /\ asked = Nothing /\ status = "open"

-----------------------------------------------------------------------------
(* Reading: [file, answer, status] after the call.                         *)

BytesAt(f, n) == SubSeq(f.bytes, f.pos + 1, MinOf(f.pos + n, Len(f.bytes)))

Reading(f, got, st) == [file |-> f, answer |-> got, status |-> st]

ReadFILE(f, n) ==
  LET got == BytesAt(f, n)
  IN  Reading([f EXCEPT !.pos = @ + Len(got), !.eof = @ \/ Len(got) < n],
              got, "open")

(* The length that is left is unsigned.                                    *)
MemRead(f, n) ==
  IF f.pos > Len(f.bytes) THEN Reading(f, <<>>, "wild")
  ELSE Reading([f EXCEPT !.pos = @ + Len(BytesAt(f, n))], BytesAt(f, n), "open")

(* No length is looked at: the program asks for what there is.             *)
MemFileRead(f, n) ==
  Reading([f EXCEPT !.pos = @ + n], BytesAt(f, n), "open")

(* Variant: the pipe's own position stays behind.                          *)
FromPipeBehind(f, at, n, before) ==
  LET more == SubSeq(f.bytes, at + 1, MinOf(at + n, Len(f.bytes)))
  IN  Reading([f EXCEPT !.pos = at + Len(more), !.eof = @ \/ Len(more) < n],
              before \o more, "open")

(* Variant: the bytes from the head are forgotten when more were wanted.   *)
FromPipeOnly(f, at, n, before) ==
  LET more == SubSeq(f.bytes, at + 1, MinOf(at + n, Len(f.bytes)))
  IN  Reading([f EXCEPT !.pos = at + Len(more), !.filePos = at + Len(more),
                        !.eof = @ \/ Len(more) < n], more, "open")

(* n bytes out of the pipe, after those from the head.                     *)
FromPipe(f, at, n, before) ==
  LET more == SubSeq(f.bytes, at + 1, MinOf(at + n, Len(f.bytes)))
  IN  Reading([f EXCEPT !.pos = at + Len(more), !.filePos = at + Len(more),
                        !.eof = @ \/ Len(more) < n], before \o more, "open")

(* From the head as long as the position is in it, then from the pipe,     *)
(* which must be there.                                                    *)
PipeRead(f, n) ==
  LET fromHead == MinOf(n, MaxOf(f.head - f.pos, 0))
      at       == f.pos + fromHead
  IN  IF fromHead = n
      THEN Reading([f EXCEPT !.pos = at], BytesAt(f, n), "open")
      ELSE IF at # f.filePos
      THEN Reading([f EXCEPT !.pos = at], <<>>, "stuck")
      ELSE FromPipe(f, at, n - fromHead, SubSeq(f.bytes, f.pos + 1, at))

ReadFile(f, n) == CASE f.kind = "rb"      -> ReadFILE(f, n)
                    [] f.kind = "mem"     -> MemRead(f, n)
                    [] f.kind = "memFile" -> MemFileRead(f, n)
                    [] f.kind = "pipe"    -> PipeRead(f, n)

Readable(f, n) == /\ f.kind # "wb"
                  /\ f.kind = "memFile" => f.pos + n <= f.size

Reads(r, at, n) == /\ file' = r.file
                   /\ answer' = r.answer
                   /\ asked' = Asking(at, n)
                   /\ status' = r.status

Read(n) == /\ status = "open"
           /\ Readable(file, n)
           /\ Reads(ReadFile(file, n), file.pos, n)

-----------------------------------------------------------------------------
(* Seeking.  A pipe that is to go forward reads until nothing comes any    *)
(* more, because `remain` never gets less (line 394), and exits.           *)

(* Variant: the last byte of the head counts as outside of it.             *)
PipeSeekShort(f, o) ==
  CASE o + 1 < f.head                   -> [file |-> [f EXCEPT !.pos = o],
                                            result |-> "open"]
    [] o + 1 >= f.head /\ o = f.filePos -> [file |-> [f EXCEPT !.pos = o],
                                            result |-> "open"]
    [] o + 1 >= f.head /\ o > f.filePos -> [file |-> f, result |-> "exited"]
    [] o + 1 >= f.head /\ o < f.filePos -> [file |-> f, result |-> "refused"]

PipeSeek(f, o) ==
  CASE o < f.head                   -> [file |-> [f EXCEPT !.pos = o],
                                        result |-> "open"]
    [] o >= f.head /\ o = f.filePos -> [file |-> [f EXCEPT !.pos = o],
                                        result |-> "open"]
    [] o >= f.head /\ o > f.filePos -> [file |-> f, result |-> "exited"]
    [] o >= f.head /\ o < f.filePos -> [file |-> f, result |-> "refused"]

SeekFile(f, o) ==
  IF f.kind = "pipe" THEN PipeSeek(f, o)
  ELSE [file |-> [f EXCEPT !.pos = o,
                           !.eof = @ /\ f.kind \notin {"rb", "wb"}],
        result |-> "open"]

Seek(o) ==
  /\ status = "open"
  /\ file' = SeekFile(file, o).file
  /\ status' = SeekFile(file, o).result
  /\ answer' = <<>>
  /\ asked' = IF status' = "exited" THEN Asking(o, 0) ELSE Nothing

(* absFileRead does not look at what seek answers.                         *)
IoRead(l, n) ==
  LET there == SeekFile(file, l)
  IN  /\ status = "open"
      /\ Readable(there.file, n)
      /\ CASE there.result = "open"    -> Reads(ReadFile(there.file, n), l, n)
           [] there.result = "exited"  -> Reads(Reading(file, <<>>, "exited"), l, 0)
           [] there.result = "refused" ->
                Reads([ReadFile(file, n) EXCEPT !.status = "astray"], l, n)

-----------------------------------------------------------------------------
(* Writing.  A FILE has zeros where nothing was written; the buffers are   *)
(* doubled until the data fits.                                            *)

Overwrite(bytes, at, s) ==
  [i \in 1 .. MaxOf(Len(bytes), at + Len(s)) |->
     IF i > at /\ i <= at + Len(s) THEN s[i - at]
     ELSE IF i <= Len(bytes) THEN bytes[i] ELSE Zero]

(* A power of two: nothing odd but one divides it.                         *)
Power(p) == \A d \in 2 .. p : p % d = 0 => d % 2 = 0

Doubled(f, end) ==
  LET n == CHOOSE n \in Len(f.bytes) .. MaxOf(Len(f.bytes), 2 * end) :
             /\ n >= end
             /\ \E p \in 1 .. n : Power(p) /\ n = Len(f.bytes) * p
             /\ n > Len(f.bytes) => n \div 2 < end
  IN  f.bytes \o Junks(n - Len(f.bytes))

MemFileWrite(f, s) ==
  LET end    == f.pos + Len(s)
      grown  == Doubled(f, end)
      filled == [i \in DOMAIN grown |->
                   IF i > f.size /\ i <= end THEN Zero ELSE grown[i]]
  IN  [f EXCEPT !.bytes = Overwrite(filled, f.pos, s),
                !.size = MaxOf(end, f.size),
                !.pos = end]

MemWrite(f, s) ==
  [f EXCEPT !.bytes = Overwrite(Doubled(f, f.pos + Len(s)), f.pos, s),
            !.pos = @ + Len(s)]

WriteFILE(f, s) == [f EXCEPT !.bytes = Overwrite(@, f.pos, s),
                             !.pos = @ + Len(s)]

WriteFile(f, s) == CASE f.kind = "wb"      -> WriteFILE(f, s)
                     [] f.kind = "mem"     -> MemWrite(f, s)
                     [] f.kind = "memFile" -> MemFileWrite(f, s)

(* A pipe, and a FILE opened for reading, write nothing and say so.        *)
Write(s) ==
  /\ status = "open"
  /\ file.pos + Len(s) <= MaxLen
  /\ IF file.kind \in {"rb", "pipe"}
     THEN status' = "refused" /\ UNCHANGED <<file, answer>>
     ELSE file' = WriteFile(file, s) /\ answer' = s /\ UNCHANGED status
  /\ asked' = Asking(file.pos, 0)

IoWrite(l, s) ==
  LET there == SeekFile(file, l).file
  IN  /\ status = "open"
      /\ file.kind \in {"wb", "mem", "memFile"}
      /\ l + Len(s) <= MaxLen
      /\ file' = WriteFile(there, s) /\ answer' = s
      /\ asked' = Asking(l, 0) /\ UNCHANGED status

-----------------------------------------------------------------------------
(* Variant: off by one at the end of the head.                             *)
PipeEOFStrict(f) == f.pos > f.head /\ f.eof

PipeEOF(f) == f.pos >= f.head /\ f.eof

(* memFile compares with its room, not with its size.                      *)
EOF(f) == CASE f.kind \in {"rb", "wb"}       -> f.eof
            [] f.kind \in {"mem", "memFile"} -> f.pos >= Len(f.bytes)
            [] f.kind = "pipe"               -> PipeEOF(f)

(* fileGetLength goes to the end and back, which clears the indicator.     *)
GetLength ==
  /\ status = "open"
  /\ file' = IF file.kind \in {"rb", "wb"} THEN [file EXCEPT !.eof = FALSE]
             ELSE file
  /\ answer' = <<>> /\ asked' = Nothing
  /\ UNCHANGED status

Next == \/ \E n \in 1 .. MaxLen : Read(n)
        \/ \E o \in 0 .. MaxLen : Seek(o)
        \/ \E l \in 0 .. MaxLen : \E n \in 1 .. MaxLen : IoRead(l, n)
        \/ \E s \in Strings(2) \ {<<>>} : Write(s)
        \/ \E l \in 0 .. MaxLen : \E s \in Strings(2) \ {<<>>} : IoWrite(l, s)
        \/ GetLength

Spec == Init /\ [][Next]_vars

-----------------------------------------------------------------------------
(* The file is one of its kinds, its buffer no larger than twice what was  *)
(* ever written, its position that of a legal call; what lies past the     *)
(* head of a pipe is read at the pipe's own position.                      *)
TypeOK ==
  /\ file.kind \in {"rb", "wb", "mem", "memFile", "pipe"}
  /\ \A i \in DOMAIN file.bytes : file.bytes[i] \in Byte \cup {Junk}
  /\ Room <= 2 * MaxLen + FirstRoom
  /\ file.kind \notin {"mem", "memFile"} =>
       \A i \in DOMAIN file.bytes : file.bytes[i] # Junk
  /\ file.size \in 0 .. Room
  /\ file.pos \in 0 .. 2 * MaxLen
  /\ file.head <= file.filePos /\ file.filePos <= Room
  /\ file.kind = "pipe" /\ file.pos > file.head => file.pos = file.filePos
  /\ asked.at \in Nat /\ asked.want \in 0 .. MaxLen
  /\ status \in {"open", "wild", "stuck", "exited", "astray", "refused"}

(* insertBLKX takes a read that came short for the end of its input only   *)
(* if the file says so, and exits otherwise (blockRead): every file says   *)
(* so as long as it answers at all.                                        *)
ShortReadMeansEOF ==
  status = "open" /\ Len(answer) < asked.want => EOF(file)

(* A program that does not read a pipe beyond its head can position and    *)
(* read it freely within the head: a pipe that cannot go back, or that is  *)
(* read from the wrong place because nobody looks at what seek answers,    *)
(* has been read further.                                                  *)
TroubleOnlyPastHead ==
  /\ status \in {"stuck", "astray"} => file.filePos > file.head
  /\ status = "wild" => file.kind = "mem" /\ file.pos > Room

(* abstractfile.c:391 "seek forward can be done by reading": the program   *)
(* gives up only if what it is to seek is past the end.                    *)
SeekForwardReads == status = "exited" => asked.at > Room

(* Whatever is behind it, the file is a file.                              *)
Content == IF file.kind = "memFile" THEN SubSeq(file.bytes, 1, file.size)
           ELSE file.bytes

Bytes == INSTANCE ByteFile WITH
           content <- Content, pos <- file.pos,
           answer  <- [at |-> asked.at, want |-> asked.want, bytes |-> answer],
           status  <- IF status = "open" THEN "open" ELSE "failed"

ImplementsByteFile == Bytes!FileSpec
=============================================================================
