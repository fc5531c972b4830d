------------------------------ MODULE BlockStore -----------------------------
(***************************************************************************)
(* What CachedBlockDevice (block_device.py) promises the layers above it:  *)
(* a read returns what was written last, whatever the cache holds.  When   *)
(* the process dies, every block is found as it was at some moment since   *)
(* the last flush that reached the image, each block at a moment of its    *)
(* own: the cache gives no order between the writes of two blocks.         *)
(***************************************************************************)
CONSTANTS
  Blocks,
  Parts,     \* the parts of a block a write may address
  Bytes      \* the values of a part

VARIABLES
  content,      \* every block as a reader sees it
  recoverable,  \* what a crash may leave of every block
  result        \* what the last read returned

storeVars == <<content, recoverable, result>>

Datum == [Parts -> Bytes]

(* A write of some parts of a block.                                       *)
Chunk == UNION {[S -> Bytes] : S \in SUBSET Parts}

Overlay(old, chunk) ==
  [p \in Parts |-> IF p \in DOMAIN chunk THEN chunk[p] ELSE old[p]]

Init ==
  /\ content \in [Blocks -> Datum]
  /\ recoverable = [b \in Blocks |-> {content[b]}]
  /\ result \in Datum

Read(b) ==
  /\ result' = content[b]
  /\ UNCHANGED <<content, recoverable>>

Write(b, chunk) ==
  /\ content' = [content EXCEPT ![b] = Overlay(content[b], chunk)]
  /\ recoverable' = [recoverable EXCEPT ![b] = @ \cup {Overlay(content[b], chunk)}]
  /\ UNCHANGED result

(* A flush hands everything to the file object, which may keep the blocks  *)
(* it was given last in its own buffer.                                    *)
Flush(late) ==
  /\ recoverable' = [b \in Blocks |->
                       IF b \in late THEN recoverable[b] ELSE {content[b]}]
  /\ UNCHANGED <<content, result>>

Close == Flush({})

Crash ==
  /\ content' \in [Blocks -> Datum]
  /\ \A b \in Blocks : content'[b] \in recoverable[b]
  /\ recoverable' = [b \in Blocks |-> {content'[b]}]
  /\ UNCHANGED result

Next ==
  \/ \E b \in Blocks : Read(b)
  \/ \E b \in Blocks, chunk \in Chunk : Write(b, chunk)
  \/ \E late \in SUBSET Blocks : Flush(late)
  \/ Close
  \/ Crash

Spec == Init /\ [][Next]_storeVars
=============================================================================
