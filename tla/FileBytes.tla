------------------------------ MODULE FileBytes ------------------------------
(***************************************************************************)
(* What Disk promises of a file's content: a sequence of bytes of which    *)
(* write_file replaces a part, filling a gap before it with zeros, and     *)
(* which truncate cuts or extends with zeros.  A call that fails when the  *)
(* disk is full may have replaced bytes, and what it left behind the end   *)
(* may come up when the file grows (torn).                                 *)
(***************************************************************************)
EXTENDS Sequences, Integers

CONSTANTS
  Byte,     \* the values of a byte, 0 among them
  Data,     \* the byte strings that are written
  Offsets   \* where they are written, and the sizes that truncate is given

VARIABLES content, torn

bytesVars == <<content, torn>>

Init == content = <<>> /\ torn = FALSE

(* The bytes that a call leaves alone, up to some size; new ones are 0.    *)
KeptOutside(places, size) ==
  /\ Len(content') = size
  /\ \A i \in 1 .. size \ places :
       IF i <= Len(content) THEN content'[i] = content[i]
       ELSE content'[i] = 0 \/ torn

Replaced(offset, data, size) ==
  LET places == offset + 1 .. offset + Len(data)
  IN  /\ KeptOutside(places, size)
      /\ \A i \in places \cap 1 .. size : content'[i] = data[i - offset]

Larger(m, n) == IF m < n THEN n ELSE m

Write(offset, data) ==
  /\ Replaced(offset, data, Larger(Len(content), offset + Len(data)))
  /\ UNCHANGED torn

(* The part inside the file is replaced, or nothing is.                    *)
WriteFails(offset, data) ==
  /\ \E size \in {Len(content), Larger(Len(content), offset)} :
       Replaced(offset, data, size)
  /\ torn' = TRUE

Truncate(size) ==
  /\ KeptOutside({}, size)
  /\ UNCHANGED torn

Next ==
  \/ \E offset \in Offsets, data \in Data :
       Write(offset, data) \/ WriteFails(offset, data)
  \/ \E size \in Offsets : Truncate(size)

Spec == Init /\ [][Next]_bytesVars
=============================================================================
