------------------------------ MODULE ByteFile ------------------------------
(***************************************************************************)
(* What a file of the program promises whoever reads and writes it,        *)
(* whatever is behind it: bytes and a position.  A read answers with the   *)
(* bytes at the position, and with fewer than it was asked for only at the *)
(* end.  A write changes what it writes; it may make the file longer, and  *)
(* what is behind the written bytes is then unspecified.                   *)
(***************************************************************************)
EXTENDS Integers, Sequences

VARIABLES
  content,  \* the bytes of the file
  pos,      \* the position
  answer,   \* [at, want, bytes]: where the last read or write began, what
            \* it asked for, and the bytes that it read or wrote
  status    \* "open", or "failed": an operation was refused

byteVars == <<content, pos, answer, status>>

Nearer(a, b) == IF a <= b THEN a ELSE b

(* The bytes a read is to answer with.                                     *)
Due(c, at, want) == SubSeq(c, at + 1, Nearer(at + want, Len(c)))

None == [at |-> 0, want |-> 0, bytes |-> <<>>]

End(a) == a.at + Len(a.bytes)

FileInit == pos = 0 /\ answer = None /\ status = "open"

Stays == status = "open" /\ status' = "open"

Answers == /\ Stays
           /\ answer'.bytes = Due(content, answer'.at, answer'.want)
           /\ UNCHANGED content

Read == Answers /\ answer'.at = pos /\ pos' = End(answer')

(* By the io_func interface, which says where; some files then leave their *)
(* position alone.                                                         *)
ReadAt == Answers /\ pos' \in {pos, End(answer')}

Seek == Stays /\ pos' \in Nat /\ answer' = None /\ UNCHANGED content

Write ==
  /\ Stays
  /\ Len(content') >= Len(content) /\ End(answer') <= Len(content')
  /\ \A i \in DOMAIN answer'.bytes :
       content'[answer'.at + i] = answer'.bytes[i]
  /\ \A i \in DOMAIN content : i <= answer'.at \/ i > End(answer') =>
                                 content'[i] = content[i]
  /\ pos' \in {pos, End(answer')}

Fail == status = "open" /\ status' = "failed"

FileNext == Read \/ ReadAt \/ Seek \/ Write \/ Fail

FileSpec == FileInit /\ [][FileNext]_byteVars
=============================================================================
