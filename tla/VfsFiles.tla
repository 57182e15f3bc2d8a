------------------------------ MODULE VfsFiles ------------------------------
(***************************************************************************)
(* The open files of kernel/vfs.c: the global table files[], the rows of   *)
(* descriptors fds[task][fd], and the calls the tasks make on them.  Any   *)
(* task may be preempted between two steps; only file_alloc is a critical  *)
(* section, and is one step because of it (module Scheduler).  A call that *)
(* takes a struct file * holds it across the call into the filesystem.     *)
(* Names are module VfsNames' subject: here resolving gives some inode.    *)
(***************************************************************************)
EXTENDS Integers, FiniteSets

CONSTANTS Tasks,           (* 0 .. MAX_TASKS - 1                           *)
          MAX_OPEN_FILES, TASK_FDS,
          Inodes, Dirs,    (* what a path may resolve to; the directories  *)
          Regular,         (* the files a write extends                    *)
          NoRead, NoWrite, (* inodes whose ops lack read, lack write       *)
          NoInode,         (* the null pointer                             *)
          OpenFlags,       (* flags of vfs_open the callers pass           *)
          Amounts,         (* the n of read and write                      *)
          Seeks,           (* the <<off, whence>> of lseek                 *)
          Size,            (* inode->size at the start                     *)
          MaxSize,         (* bound: how far a write may extend a file     *)
          OffWidth         (* positions wrap at this (2^32 in the code)    *)

O_RDONLY == 0
O_WRONLY == 1
O_RDWR   == 2
O_CREAT  == 64
SEEK_SET == 0
SEEK_CUR == 1
SEEK_END == 2

ASSUME TablesAssumption ==
  /\ MAX_OPEN_FILES \in Nat /\ MAX_OPEN_FILES > 0
  /\ TASK_FDS \in Nat /\ TASK_FDS > 0
ASSUME InodesAssumption ==
  /\ NoInode \notin Inodes
  /\ Dirs \cup Regular \cup NoRead \cup NoWrite \subseteq Inodes
  /\ Size \in [Inodes -> 0 .. MaxSize]
ASSUME NumbersAssumption ==
  /\ OffWidth \in Nat /\ OffWidth > 2 * MaxSize /\ OffWidth % 2 = 0
  /\ MaxSize \in Nat
  /\ Amounts \subseteq Nat
  /\ OpenFlags \subseteq Nat
  /\ Seeks \subseteq Int \X {SEEK_SET, SEEK_CUR, SEEK_END}

Slots  == 0 .. MAX_OPEN_FILES - 1
Fds    == 0 .. TASK_FDS - 1
Unused == -1

VARIABLES files,           (* the global table; inode = NoInode is free    *)
          fds,             (* [Tasks -> [Fds -> slot or Unused]]           *)
          size,            (* inode->size                                  *)
          call,            (* the call each task is inside                 *)
          closes           (* history: calls of vfs_close that succeeded   *)

vars == <<files, fds, size, call, closes>>

File(i, o, fl) == [inode |-> i, off |-> o, flags |-> fl]

(* where a task is, and the locals it carries: ino, slot or f, flags, n or *)
(* off, whence                                                             *)
Call(at, i, s, fl, n) == [at |-> at, ino |-> i, slot |-> s, arg |-> fl, n |-> n]
Idle == Call("idle", NoInode, Unused, 0, 0)

Enter(t, c) == call[t] = Idle /\ call' = [call EXCEPT ![t] = c]
Return(t)   == call' = [call EXCEPT ![t] = Idle]

(* get_file_from_fd, for a descriptor of the calling task that is in use *)
FileOf(t, d) == fds[t][d]
InUse(t, d)  == fds[t][d] # Unused

(* vfs_init *)
Init ==
  /\ files = [s \in Slots |-> File(NoInode, 0, 0)]
  /\ fds = [t \in Tasks |-> [d \in Fds |-> Unused]]
  /\ size = Size
  /\ call = [t \in Tasks |-> Idle]
  /\ closes = 0

-----------------------------------------------------------------------------
(* vfs_open: the path gave an inode, found or just created; a path that    *)
(* gives none returns -1 and changes nothing here                          *)

OpenResolved(t, i, fl) ==
  /\ Enter(t, Call("file", i, Unused, fl, 0))
  /\ UNCHANGED <<files, fds, size, closes>>

(* mistake: a slot is free until a descriptor names it *)
FreeSlotsByDescriptor == {s \in Slots : \A t \in Tasks, d \in Fds : FileOf(t, d) # s}

FreeSlots == {s \in Slots : files[s].inode = NoInode}

(* file_alloc: the first free slot is taken in the same critical section *)
FileAlloc(t) ==
  /\ call[t].at = "file"
  /\ \E s \in FreeSlots :
       /\ \A r \in FreeSlots : s <= r
       /\ files' = [files EXCEPT ![s] = File(call[t].ino, 0, call[t].arg)]
       /\ call' = [call EXCEPT ![t] = Call("fd", NoInode, s, 0, 0)]
  /\ UNCHANGED <<fds, size, closes>>

(* mistakes: the -1 of file_alloc not looked at; the slot not given back;  *)
(* the descriptor handed out not the lowest                                *)
FileTableFullUnchecked(t) ==
  /\ call[t].at = "file"
  /\ FreeSlots = {}
  /\ call' = [call EXCEPT ![t] = Call("fd", NoInode, Unused, 0, 0)]
  /\ UNCHANGED <<files, fds, size, closes>>

FdTableFullLeaking(t) ==
  /\ call[t].at = "fd"
  /\ \A d \in Fds : InUse(t, d)
  /\ Return(t)
  /\ UNCHANGED <<files, fds, size, closes>>

FdAllocHighest(t) ==
  /\ call[t].at = "fd"
  /\ \E d \in Fds :
       /\ ~InUse(t, d)
       /\ \A e \in Fds : e > d => InUse(t, e)
       /\ fds' = [fds EXCEPT ![t][d] = call[t].slot]
  /\ Return(t)
  /\ UNCHANGED <<files, size, closes>>

FileTableFull(t) ==
  /\ call[t].at = "file"
  /\ FreeSlots = {}
  /\ Return(t)
  /\ UNCHANGED <<files, fds, size, closes>>

(* fd_alloc: the lowest descriptor of the row *)
FdAlloc(t) ==
  /\ call[t].at = "fd"
  /\ \E d \in Fds :
       /\ ~InUse(t, d)
       /\ \A e \in Fds : e < d => InUse(t, e)
       /\ fds' = [fds EXCEPT ![t][d] = call[t].slot]
  /\ Return(t)
  /\ UNCHANGED <<files, size, closes>>

(* no descriptor left: the slot just taken is given back *)
FdTableFull(t) ==
  /\ call[t].at = "fd"
  /\ \A d \in Fds : InUse(t, d)
  /\ files' = [files EXCEPT ![call[t].slot].inode = NoInode]
  /\ Return(t)
  /\ UNCHANGED <<fds, size, closes>>

Open(t) ==
  \/ \E i \in Inodes, fl \in OpenFlags : OpenResolved(t, i, fl)
  \/ FileAlloc(t) \/ FileTableFull(t)
  \/ FdAlloc(t) \/ FdTableFull(t)

-----------------------------------------------------------------------------
(* vfs_read and vfs_write: check, call the filesystem, move the position.  *)
(* A call refused by a check returns -1 and changes nothing.               *)

MayRead(f)  == f.flags # O_WRONLY /\ f.inode \notin NoRead \cup Dirs
MayWrite(f) == f.flags # O_RDONLY /\ f.inode \notin NoWrite \cup Dirs

ReadCheck(t, d, n) ==
  /\ InUse(t, d) /\ MayRead(files[FileOf(t, d)])
  /\ Enter(t, Call("read", NoInode, FileOf(t, d), 0, n))
  /\ UNCHANGED <<files, fds, size, closes>>

WriteCheck(t, d, n) ==
  /\ InUse(t, d) /\ MayWrite(files[FileOf(t, d)])
  /\ Enter(t, Call("write", NoInode, FileOf(t, d), 0, n))
  /\ UNCHANGED <<files, fds, size, closes>>

Advanced(s, r) == [files EXCEPT ![s].off = (@ + r) % OffWidth]

(* the filesystem moved r of the n bytes *)
ReadDone(t, r) ==
  /\ call[t].at = "read" /\ r <= call[t].n
  /\ files' = Advanced(call[t].slot, r)
  /\ Return(t)
  /\ UNCHANGED <<fds, size, closes>>

WriteDone(t, r) ==
  /\ call[t].at = "write" /\ r <= call[t].n
  /\ LET f == files[call[t].slot]
         end == f.off + r
         grows == f.inode \in Regular /\ r > 0 /\ end > size[f.inode]
     IN  /\ grows => end <= MaxSize
         /\ size' = IF grows THEN [size EXCEPT ![f.inode] = end] ELSE size
  /\ files' = Advanced(call[t].slot, r)
  /\ Return(t)
  /\ UNCHANGED <<fds, closes>>

(* a negative answer leaves the position alone *)
TransferFailed(t) ==
  /\ call[t].at \in {"read", "write"}
  /\ Return(t)
  /\ UNCHANGED <<files, fds, size, closes>>

Transfer(t) ==
  \/ \E d \in Fds, n \in Amounts : ReadCheck(t, d, n) \/ WriteCheck(t, d, n)
  \/ call[t].at \in {"read", "write"}
       /\ \E r \in 0 .. call[t].n : ReadDone(t, r) \/ WriteDone(t, r)
  \/ TransferFailed(t)

-----------------------------------------------------------------------------
(* vfs_lseek: get_file_from_fd, then the position moves or stays *)

SeekEnter(t, d, off, whence) ==
  /\ InUse(t, d)
  /\ Enter(t, Call("seek", NoInode, FileOf(t, d), whence, off))
  /\ UNCHANGED <<files, fds, size, closes>>

(* the position as the code's int32_t sees it *)
Negative(o) == o % OffWidth >= OffWidth \div 2

SeekTo(t, o) == files' = [files EXCEPT ![call[t].slot].off = o % OffWidth]

SeekSet(t) ==
  /\ call[t].arg = SEEK_SET
  /\ IF call[t].n >= 0 THEN SeekTo(t, call[t].n) ELSE UNCHANGED files

SeekCur(t) ==
  /\ call[t].arg = SEEK_CUR
  /\ LET o == files[call[t].slot].off + call[t].n
     IN  IF Negative(o) THEN UNCHANGED files ELSE SeekTo(t, o)

SeekEnd(t) ==
  /\ call[t].arg = SEEK_END
  /\ SeekTo(t, size[files[call[t].slot].inode] + call[t].n)

SeekDone(t) ==
  /\ call[t].at = "seek"
  /\ SeekSet(t) \/ SeekCur(t) \/ SeekEnd(t)
  /\ Return(t)
  /\ UNCHANGED <<fds, size, closes>>

Seek(t) ==
  \/ \E d \in Fds, sk \in Seeks : SeekEnter(t, d, sk[1], sk[2])
  \/ SeekDone(t)

-----------------------------------------------------------------------------
(* vfs_close gives the descriptor back, and leaves files[] as it is *)

Close(t, d) ==
  /\ call[t] = Idle
  /\ InUse(t, d)
  /\ fds' = [fds EXCEPT ![t][d] = Unused]
  /\ closes' = closes + 1
  /\ UNCHANGED <<files, size, call>>

Next ==
  \E t \in Tasks :
    Open(t) \/ Transfer(t) \/ Seek(t) \/ (\E d \in Fds : Close(t, d))

Spec == Init /\ [][Next]_vars

-----------------------------------------------------------------------------

Files == [inode : Inodes \cup {NoInode}, off : 0 .. OffWidth - 1,
          flags : OpenFlags \cup {0}]
Calls == [at : {"idle", "file", "fd", "read", "write", "seek"},
          ino : Inodes \cup {NoInode}, slot : Slots \cup {Unused},
          arg : Int, n : Int]

TypeOK ==
  /\ files \in [Slots -> Files]
  /\ fds \in [Tasks -> [Fds -> Slots \cup {Unused}]]
  /\ size \in [Inodes -> 0 .. MaxSize]
  /\ closes \in Nat
  /\ call \in [Tasks -> Calls]
  /\ \A t \in Tasks : call[t].at \notin {"idle", "file"} => call[t].slot \in Slots

Occupied == Slots \ FreeSlots

(* the descriptors, and the opens on their way to one, that name slot s *)
Owners(s) ==
  {p \in Tasks \X Fds : fds[p[1]][p[2]] = s}
    \cup {<<t, TASK_FDS>> : t \in {u \in Tasks : call[u].at = "fd" /\ call[u].slot = s}}

(* A slot in use has at most one owner, and a descriptor never points to a *)
(* free slot: whatever the interleaving of opens that succeed or fail, two *)
(* tasks never share a position.                                           *)
OneOwner ==
  \A s \in Slots : /\ Cardinality(Owners(s)) <= 1
                   /\ s \in FreeSlots => Owners(s) = {}

(* The struct file * a task holds across the call into the filesystem is   *)
(* still the file of one of its own descriptors when it comes back.        *)
HeldFileIsOwn ==
  \A t \in Tasks :
    call[t].at \in {"read", "write", "seek"} =>
      /\ files[call[t].slot].inode # NoInode
      /\ \E d \in Fds : fds[t][d] = call[t].slot

(* The same with no counting: a slot is named once, by a descriptor or by  *)
(* an open on its way to one ...                                           *)
Pending(t) == call[t].at = "fd"

NamedOnce ==
  /\ \A t, u \in Tasks, d, e \in Fds :
       InUse(t, d) /\ fds[t][d] = fds[u][e] => t = u /\ d = e
  /\ \A t, u \in Tasks, d \in Fds : Pending(t) => fds[u][d] # call[t].slot
  /\ \A t, u \in Tasks :
       Pending(t) /\ Pending(u) /\ call[t].slot = call[u].slot => t = u

(* ... and is in use as long as it is named; one not handed out yet is as  *)
(* file_alloc left it.                                                     *)
NamedInUse ==
  /\ \A t \in Tasks, d \in Fds : InUse(t, d) => files[fds[t][d]].inode # NoInode
  /\ \A t \in Tasks :
       /\ call[t].at = "file" => call[t].ino \in Inodes /\ call[t].arg \in OpenFlags
       /\ Pending(t) => \E i \in Inodes, fl \in OpenFlags :
                         files[call[t].slot] = File(i, 0, fl)
       /\ call[t].at = "write" \/ call[t].at = "read" => call[t].n \in Nat

(* The inductive invariant: while tasks open, fail, move and close between *)
(* one step and the next of a call, the slot it carries stays its own.     *)
IInv == TypeOK /\ NamedOnce /\ NamedInUse /\ HeldFileIsOwn

(* No open that fails leaves a slot occupied: those nobody owns are        *)
(* exactly as many as the closes.                                          *)
FailedOpenLeavesNothing ==
  Cardinality({s \in Occupied : Owners(s) = {}}) = closes

(* include/vfs.h of vfs_close: it frees the descriptor and the global slot *)
CloseFreesBoth ==
  [][\A t \in Tasks, d \in Fds :
       InUse(t, d) /\ ~InUse(t, d)' => files'[fds[t][d]].inode = NoInode]_vars

(* The read table of m9a and the comment on O_CREAT in vfs.h: what is open *)
(* for writing only is never read, for reading only never written.         *)
AccessModeHonoured ==
  \A t \in Tasks :
    LET mode == files[call[t].slot].flags % 4
    IN  /\ call[t].at = "read"  => mode # O_WRONLY
        /\ call[t].at = "write" => mode # O_RDONLY

(* include/vfs.h of vfs_lseek: a negative position does not exist and is   *)
(* refused without moving anything.                                        *)
PositionNeverNegative ==
  \A s \in Occupied : ~Negative(files[s].off)

-----------------------------------------------------------------------------
(* What the tasks see: their rows, each descriptor with a file of its own. *)

Closed == [inode |-> NoInode]

Rows ==
  [t \in Tasks |-> [d \in Fds |->
     IF InUse(t, d) THEN files[FileOf(t, d)] ELSE Closed]]

Abstract == INSTANCE Descriptors
              WITH open <- Rows, Flags <- OpenFlags, Offsets <- 0 .. OffWidth - 1

(* A task cannot tell that the table is global: its descriptors behave as  *)
(* if each held a file nobody else can touch.                              *)
ImplementsDescriptors == Abstract!DSpec

=============================================================================
