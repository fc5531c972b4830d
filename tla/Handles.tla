-------------------------------- MODULE Handles -------------------------------
(***************************************************************************)
(* Open files (disk_with_handle.py, file.py): DiskWithHandle keeps a table *)
(* of handles, each for a path, over the tree of Disk (Namespace).         *)
(*                                                                         *)
(* The class overrides methods that Disk calls on itself.  unlink of Disk  *)
(* lists a directory by path, through the dir_list that now wants a        *)
(* handle, so a directory is never removed and a rename of one stops when  *)
(* its new name has been added.                                            *)
(*                                                                         *)
(* What is read and written at which offset is not part of this module     *)
(* (FileData has the calls that are made).  Callers keep to the paths that *)
(* Namespace allows, each written in one way.                              *)
(***************************************************************************)
EXTENDS Namespace, Functions

CONSTANT MAX_HANDLES   \* bound: handles given out between two formats

ASSUME HandlesAssumption == MAX_HANDLES \in Nat

VARIABLES
  files,       \* OpenedFiles: the path of every open handle
  new_handle   \* OpenedFiles: the next number

handleVars == <<files, new_handle>>
allVars == <<inode, ialloc, entry, free, pending, leaked, damaged, files, new_handle>>

Opened == DOMAIN files
HandlesOf(path) == {h \in Opened : files[h] = path}

HandlesInit ==
  /\ Init
  /\ files = <<>>
  /\ new_handle = 1
-----------------------------------------------------------------------------
(* Fault: whether the path is open already is not looked at. *)
FaultyOpen(path) ==
  /\ pending = <<>>
  /\ new_handle <= MAX_HANDLES
  /\ files' = [h \in Opened \cup {new_handle} |-> IF h = new_handle THEN path ELSE files[h]]
  /\ new_handle' = new_handle + 1
  /\ UNCHANGED vars

(* open: the handle that the path has, or a new one.  Whether there is a   *)
(* file at the path is not looked at.                                      *)
Open(path) ==
  /\ pending = <<>>
  /\ HandlesOf(path) = {}
  /\ new_handle <= MAX_HANDLES
  /\ files' = [h \in Opened \cup {new_handle} |-> IF h = new_handle THEN path ELSE files[h]]
  /\ new_handle' = new_handle + 1
  /\ UNCHANGED vars

Close(h) ==
  /\ pending = <<>>
  /\ files' = Restrict(files, Opened \ {h})
  /\ UNCHANGED <<vars, new_handle>>

(* OpenedFiles.pop of a path: the first handle that find comes to.         *)
Pop(path) ==
  /\ files' = Restrict(files, Opened \ {h \in HandlesOf(path) :
                                          \A k \in HandlesOf(path) : h <= k})
  /\ UNCHANGED new_handle

(* Disk.unlink as DiskWithHandle inherits it: of a directory it raises     *)
(* before anything is written, as it does where there is nothing.          *)
UnlinkHere(path) ==
  \/ /\ Exists(path) /\ inode[GetInode(path)].type = "FILE"
     /\ UnlinkEntry(path)
  \/ /\ Exists(path) => inode[GetInode(path)].type = "DIR"
     /\ UNCHANGED <<inode, ialloc, entry, free, damaged>>

CloseAndUnlink(path) ==
  /\ pending = <<>>
  /\ path # <<>>
  /\ Pop(path)
  /\ UnlinkHere(path)
  /\ UNCHANGED <<pending, leaked>>

(* Fault: the unlink of Disk is called, which knows of no handles. *)
FaultyEndMove ==
  /\ pending # <<>>
  /\ UnlinkHere(pending)
  /\ pending' = <<>>
  /\ UNCHANGED <<leaked, files, new_handle>>

(* Disk.rename: link, and then the unlink of this class.                   *)
EndMove ==
  /\ pending # <<>>
  /\ Pop(pending)
  /\ UnlinkHere(pending)
  /\ pending' = <<>>
  /\ UNCHANGED leaked

(* format forgets the handles and makes a new tree.                        *)
Format ==
  /\ pending = <<>>
  /\ files' = <<>>
  /\ new_handle' = 1
  /\ inode' = [i \in Inodes |-> [Fresh("DIR") EXCEPT !.d_nlink = IF i = 0 THEN 0 ELSE 1]]
  /\ ialloc' = {0}
  /\ entry' = [i \in Inodes |-> <<>>]
  /\ free' = Blocks
  /\ leaked' = {}
  /\ damaged' = FALSE
  /\ UNCHANGED pending

(* What is inherited and does not look at the handles.                     *)
Inherited ==
  /\ pending = <<>>
  /\ \/ \E path \in Vacant, type \in {"FILE", "DIR"} :
          Create(path, type) \/ CreateFails(path, type)
     \/ \E src \in Taken, dst \in Vacant : Link(src, dst) \/ Rename(src, dst)
  /\ UNCHANGED handleVars

HandlesNext ==
  \/ \E path \in Paths : Open(path) \/ CloseAndUnlink(path)
  \/ \E h \in Opened : Close(h)
  \/ EndMove
  \/ Inherited
  \/ Format

HandlesSpec == HandlesInit /\ [][HandlesNext]_allVars
-----------------------------------------------------------------------------
(* Numbers below the next one are or were handles, and a path has at most  *)
(* one, so that unlink, which pops one handle, leaves none.                *)
HandlesTypeOK ==
  /\ new_handle \in 1 .. MAX_HANDLES + 1
  /\ Opened \subseteq 1 .. new_handle - 1
  /\ \A h \in Opened : files[h] \in Paths
  /\ \A h, k \in Opened : files[h] = files[k] => h = k

(* A directory with two names: a rename of one has failed half-way.  (The  *)
(* root has none; a hole has its number.)                                  *)
Aliased == \E d \in Directories \ {0} : Cardinality(EntriesOf(d)) > 1

(* Until the next format a number stands for one path and is not given out *)
(* again, and whatever takes a path away, unlink or either half of a       *)
(* rename, also takes its handle away.  The last fails when a directory    *)
(* has two names, for the handle may be of the other one, and after the    *)
(* deletion of an inode that had another entry: its number may come to     *)
(* stand for a new directory with two names.                               *)
HandleFollowsPath ==
  [][~damaged /\ new_handle <= new_handle' =>
       \A h \in 1 .. new_handle - 1 :
         /\ h \in Opened' => h \in Opened /\ files'[h] = files[h]
         /\ h \in Opened /\ h \in Opened' /\ ~Aliased =>
              \A path \in {files[h]} : Exists(path) => Exists(path)']_allVars
=============================================================================
