------------------------------ MODULE FileBlocks -----------------------------
(***************************************************************************)
(* What an Inode (inode.py) promises Disk: a file is a list of data blocks *)
(* that grows and shrinks at its end.  An operation works on a copy of the *)
(* inode; it is saved when the operation succeeds, and the file is as      *)
(* before when growing it fails.                                           *)
(***************************************************************************)
EXTENDS Sequences, Integers

CONSTANTS Files, Blocks, None

VARIABLES
  opened,  \* the file an operation works on, or None
  list,    \* its blocks, as the operation has them so far
  saved    \* the blocks of every other file

fileVars == <<opened, list, saved>>

Init ==
  /\ opened = None
  /\ list = <<>>
  /\ saved = [f \in Files |-> <<>>]

Open(f) ==
  /\ opened = None
  /\ opened' = f
  /\ list' = saved[f]
  /\ UNCHANGED saved

Grow(b) ==
  /\ opened # None
  /\ \A f \in Files : \A i \in DOMAIN saved[f] : f # opened => saved[f][i] # b
  /\ \A i \in DOMAIN list : list[i] # b
  /\ list' = Append(list, b)
  /\ UNCHANGED <<opened, saved>>

Shrink ==
  /\ opened # None
  /\ list # <<>>
  /\ list' = SubSeq(list, 1, Len(list) - 1)
  /\ UNCHANGED <<opened, saved>>

Save ==
  /\ opened # None
  /\ saved' = [saved EXCEPT ![opened] = list]
  /\ opened' = None
  /\ list' = <<>>

Fail ==
  /\ opened # None
  /\ opened' = None
  /\ list' = <<>>
  /\ UNCHANGED saved

Next ==
  \/ \E f \in Files : Open(f)
  \/ \E b \in Blocks : Grow(b)
  \/ Shrink
  \/ Save
  \/ Fail

Spec == Init /\ [][Next]_fileVars
=============================================================================
