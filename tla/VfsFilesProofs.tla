--------------------------- MODULE VfsFilesProofs ---------------------------
EXTENDS VfsFiles, FiniteSetTheorems, TLAPS

(* The constants of the module, as the provers want them. *)
LEMMA ConstantFacts ==
  /\ MAX_OPEN_FILES \in Nat /\ MAX_OPEN_FILES > 0
  /\ TASK_FDS \in Nat /\ TASK_FDS > 0
  /\ NoInode \notin Inodes
  /\ OffWidth \in Nat /\ OffWidth > 0
  /\ MaxSize \in Nat /\ MaxSize < OffWidth
  /\ Unused \notin Slots
  /\ 0 \in 0 .. OffWidth - 1
  /\ TASK_FDS \notin Fds
BY TablesAssumption, InodesAssumption, NumbersAssumption
   DEF Slots, Fds, Unused

(* A position is stored modulo its width. *)
LEMMA Wraps ==
  ASSUME NEW o \in Int
  PROVE  o % OffWidth \in 0 .. OffWidth - 1
BY ConstantFacts, SMTT(30)

(* vfs_init establishes the inductive invariant. *)
LEMMA InitIInv == Init => IInv
<1> SUFFICES ASSUME Init PROVE IInv
  OBVIOUS
<1>1. TypeOK
  BY ConstantFacts, InodesAssumption
     DEF Init, TypeOK, Files, Calls, File, Idle, Call
<1>2. \A t \in Tasks : call[t].at = "idle"
  BY DEF Init, Idle, Call
<1>3. \A t \in Tasks, d \in Fds : ~InUse(t, d)
  BY DEF Init, InUse
<1>4. QED
  BY <1>1, <1>2, <1>3
     DEF IInv, NamedOnce, NamedInUse, HeldFileIsOwn, Pending

(* What TypeOK says of a record survives a change of one of its fields. *)
LEMMA FilePart ==
  ASSUME NEW f \in Files
  PROVE  /\ [f EXCEPT !.inode = NoInode] \in Files
         /\ \A o \in 0 .. OffWidth - 1 :
              /\ [f EXCEPT !.off = o] \in Files
              /\ [f EXCEPT !.off = o].inode = f.inode
BY DEF Files

(* A task that is in no call. *)
LEMMA IdleIsCall == Idle \in Calls
BY DEF Idle, Call, Calls

(* The slot on its way to a descriptor is not free. *)
LEMMA PendingInUse ==
  ASSUME NamedInUse, NEW t \in Tasks, Pending(t)
  PROVE  files[call[t].slot].inode # NoInode
<1>1. PICK i \in Inodes, fl \in OpenFlags : files[call[t].slot] = File(i, 0, fl)
  BY DEF NamedInUse
<1>2. files[call[t].slot].inode = i
  BY <1>1 DEF File
<1>3. QED
  BY <1>2, ConstantFacts

(* vfs_open up to the inode *)
LEMMA OpenResolvedIInv ==
  ASSUME IInv, NEW t \in Tasks, NEW i \in Inodes, NEW fl \in OpenFlags,
         OpenResolved(t, i, fl)
  PROVE  IInv'
<1> USE DEF OpenResolved, Enter, Call, Idle, IInv, InUse, Pending
<1>1. TypeOK'
  BY NumbersAssumption DEF TypeOK, Files, Calls
<1>2. \A u \in Tasks : u # t => call'[u] = call[u]
  OBVIOUS
<1>3. call'[t].at = "file" /\ call'[t].ino = i /\ call'[t].arg = fl
  BY DEF TypeOK
<1>4. NamedOnce'
  BY <1>2, <1>3 DEF NamedOnce
<1>5. NamedInUse'
  BY <1>2, <1>3 DEF NamedInUse
<1>6. HeldFileIsOwn'
  BY <1>2, <1>3 DEF HeldFileIsOwn
<1>7. QED
  BY <1>1, <1>4, <1>5, <1>6

(* file_alloc occupies a slot nothing names yet. *)
LEMMA FileAllocIInv ==
  ASSUME IInv, NEW t \in Tasks, FileAlloc(t)
  PROVE  IInv'
<1> USE DEF IInv, InUse, Pending
<1>1. PICK s \in Slots :
        /\ files[s].inode = NoInode
        /\ files' = [files EXCEPT ![s] = File(call[t].ino, 0, call[t].arg)]
        /\ call' = [call EXCEPT ![t] = Call("fd", NoInode, s, 0, 0)]
  BY DEF FileAlloc, FreeSlots
<1>2. call[t].at = "file" /\ UNCHANGED <<fds, size, closes>>
  BY DEF FileAlloc
<1>3. call[t].ino \in Inodes /\ call[t].arg \in OpenFlags
  BY <1>2 DEF NamedInUse
<1>4. /\ \A u \in Tasks : u # t => call'[u] = call[u]
      /\ call'[t].at = "fd" /\ call'[t].slot = s
  BY <1>1 DEF Call, TypeOK
<1>5. /\ \A r \in Slots : r # s => files'[r] = files[r]
      /\ files'[s] = File(call[t].ino, 0, call[t].arg)
  BY <1>1 DEF TypeOK
<1>6. TypeOK'
  BY <1>1, <1>2, <1>3, <1>4, ConstantFacts, NumbersAssumption DEF File, Call, TypeOK, Files, Calls
<1>7. \A u \in Tasks, d \in Fds : fds[u][d] # s
  BY <1>1, ConstantFacts DEF NamedInUse
<1>8. \A u \in Tasks : Pending(u) => call[u].slot # s
  BY <1>1, PendingInUse
<1>9. NamedOnce'
  BY <1>2, <1>4, <1>7, <1>8 DEF NamedOnce
<1>10. NamedInUse'
  <2>1. \A u \in Tasks, d \in Fds : InUse(u, d)' => files'[fds'[u][d]].inode # NoInode
    BY <1>2, <1>5, <1>7 DEF NamedInUse, TypeOK
  <2>2. ASSUME NEW u \in Tasks, Pending(u)'
        PROVE  \E i \in Inodes, fl \in OpenFlags : files'[call'[u].slot] = File(i, 0, fl)
    <3>1. CASE u = t
      BY <3>1, <1>3, <1>4, <1>5
    <3>2. CASE u # t
      <4>1. call'[u] = call[u] /\ Pending(u)
        BY <2>2, <3>2, <1>4
      <4>2. call[u].slot \in Slots /\ call[u].slot # s
        BY <4>1, <1>8 DEF TypeOK
      <4>3. QED
        BY <4>1, <4>2, <1>5 DEF NamedInUse
    <3>3. QED
      BY <3>1, <3>2
  <2>3. ASSUME NEW u \in Tasks
        PROVE  /\ call'[u].at = "file" => call'[u].ino \in Inodes /\ call'[u].arg \in OpenFlags
               /\ call'[u].at = "write" \/ call'[u].at = "read" => call'[u].n \in Nat
    BY <1>4 DEF NamedInUse
  <2>4. QED
    BY <2>1, <2>2, <2>3 DEF NamedInUse
<1>11. HeldFileIsOwn'
  <2>1. ASSUME NEW u \in Tasks, call'[u].at \in {"read", "write", "seek"}
        PROVE  /\ files'[call'[u].slot].inode # NoInode
               /\ \E d \in Fds : fds'[u][d] = call'[u].slot
    <3>1. u # t /\ call'[u] = call[u]
      BY <1>4, <2>1
    <3>2. call[u].slot # s /\ call[u].slot \in Slots
      BY <2>1, <3>1, <1>7 DEF HeldFileIsOwn, TypeOK
    <3>3. QED
      BY <1>2, <1>5, <2>1, <3>1, <3>2 DEF HeldFileIsOwn
  <2>2. QED
    BY <2>1 DEF HeldFileIsOwn
<1>12. QED
  BY <1>6, <1>9, <1>10, <1>11

(* fd_alloc hands the pending slot to one descriptor. *)
LEMMA FdAllocIInv ==
  ASSUME IInv, NEW t \in Tasks, FdAlloc(t)
  PROVE  IInv'
<1> USE DEF IInv, InUse, Pending
<1>1. PICK d \in Fds :
        /\ fds[t][d] = Unused
        /\ fds' = [fds EXCEPT ![t][d] = call[t].slot]
  BY DEF FdAlloc
<1>2. /\ call[t].at = "fd" /\ call[t].slot \in Slots
      /\ call' = [call EXCEPT ![t] = Idle]
      /\ UNCHANGED <<files, size, closes>>
  BY DEF FdAlloc, Return, TypeOK
<1>3. /\ \A u \in Tasks : u # t => call'[u] = call[u]
      /\ call'[t].at = "idle"
  BY <1>2 DEF Call, Idle, TypeOK
<1>4. \A u \in Tasks, e \in Fds :
        fds'[u][e] = IF u = t /\ e = d THEN call[t].slot ELSE fds[u][e]
  BY <1>1 DEF TypeOK
<1>5. TypeOK'
  BY <1>1, <1>2, <1>3, ConstantFacts DEF Call, Idle, TypeOK, Files, Calls
<1>6. files[call[t].slot].inode # NoInode
  BY <1>2, PendingInUse
<1>7. NamedOnce'
  BY <1>2, <1>3, <1>4, ConstantFacts DEF NamedOnce
<1>8. NamedInUse'
  BY <1>2, <1>3, <1>4, <1>6 DEF NamedInUse
<1>9. HeldFileIsOwn'
  BY <1>1, <1>2, <1>3, <1>4, ConstantFacts DEF HeldFileIsOwn
<1>10. QED
  BY <1>5, <1>7, <1>8, <1>9

(* With no descriptor left the pending slot is freed: nothing else names it. *)
LEMMA FdTableFullIInv ==
  ASSUME IInv, NEW t \in Tasks, FdTableFull(t)
  PROVE  IInv'
<1> USE DEF IInv, InUse, Pending
<1>1. /\ call[t].at = "fd" /\ call[t].slot \in Slots
      /\ files' = [files EXCEPT ![call[t].slot].inode = NoInode]
      /\ call' = [call EXCEPT ![t] = Idle]
      /\ UNCHANGED <<fds, size, closes>>
  BY DEF FdTableFull, Return, TypeOK
<1>2. /\ \A u \in Tasks : u # t => call'[u] = call[u]
      /\ call'[t].at = "idle"
  BY <1>1 DEF Call, Idle, TypeOK
<1>3. \A s \in Slots : s # call[t].slot => files'[s] = files[s]
  BY <1>1
<1>4. TypeOK'
  <2>1. files' \in [Slots -> Files]
    BY <1>1, FilePart DEF TypeOK
  <2>2. call' \in [Tasks -> Calls]
    BY <1>1, IdleIsCall DEF TypeOK
  <2>3. QED
    BY <1>1, <1>2, <2>1, <2>2 DEF TypeOK, Calls
<1>5. \A u \in Tasks, d \in Fds : fds[u][d] # call[t].slot
  BY <1>1 DEF NamedOnce
<1>6. \A u \in Tasks : u # t /\ Pending(u) => call[u].slot # call[t].slot
  BY <1>1 DEF NamedOnce
<1>7. NamedOnce'
  BY <1>1, <1>2 DEF NamedOnce
<1>8. NamedInUse'
  BY <1>1, <1>2, <1>3, <1>5, <1>6 DEF NamedInUse
<1>9. HeldFileIsOwn'
  BY <1>1, <1>2, <1>3, <1>5 DEF HeldFileIsOwn
<1>10. QED
  BY <1>4, <1>7, <1>8, <1>9

(* A call that only ends, or never got past file_alloc. *)
LEMMA ReturnIInv ==
  ASSUME IInv, NEW t \in Tasks, Return(t), ~Pending(t),
         UNCHANGED <<files, fds, size, closes>>
  PROVE  IInv'
<1> USE DEF IInv, InUse, Pending
<1>1. /\ \A u \in Tasks : u # t => call'[u] = call[u]
      /\ call'[t] = Idle /\ call'[t].at = "idle"
  BY DEF Return, Call, Idle, TypeOK
<1>2. TypeOK'
  BY <1>1 DEF Return, Call, Idle, TypeOK, Files, Calls
<1>3. QED
  BY <1>1, <1>2 DEF NamedOnce, NamedInUse, HeldFileIsOwn

(* read, write and lseek enter with the slot of a descriptor of their own. *)
LEMMA EnterIInv ==
  ASSUME IInv, NEW t \in Tasks, NEW d \in Fds, NEW at \in {"read", "write", "seek"},
         NEW arg \in Int, NEW n \in Int, at # "seek" => n \in Nat,
         InUse(t, d), Enter(t, Call(at, NoInode, FileOf(t, d), arg, n)),
         UNCHANGED <<files, fds, size, closes>>
  PROVE  IInv'
<1> USE DEF IInv, InUse, Pending
<1>1. /\ \A u \in Tasks : u # t => call'[u] = call[u]
      /\ call'[t] = Call(at, NoInode, fds[t][d], arg, n)
  BY DEF Enter, FileOf, TypeOK
<1>2. call'[t].at = at /\ call'[t].slot = fds[t][d] /\ call'[t].n = n
  BY <1>1 DEF Call
<1>3. fds[t][d] \in Slots
  BY DEF TypeOK
<1>4. TypeOK'
  BY <1>1, <1>2, <1>3 DEF Enter, Call, FileOf, TypeOK, Files, Calls
<1>5. NamedOnce'
  BY <1>1, <1>2 DEF NamedOnce
<1>6. NamedInUse'
  BY <1>1, <1>2 DEF NamedInUse
<1>7. HeldFileIsOwn'
  BY <1>1, <1>2, <1>3 DEF HeldFileIsOwn, NamedInUse
<1>8. QED
  BY <1>4, <1>5, <1>6, <1>7

(* They end by moving the position of that slot, and nothing else of it. *)
LEMMA MoveIInv ==
  ASSUME IInv, NEW t \in Tasks, call[t].at \in {"read", "write", "seek"},
         NEW o \in 0 .. OffWidth - 1,
         files' = [files EXCEPT ![call[t].slot].off = o],
         size' \in [Inodes -> 0 .. MaxSize],
         Return(t), UNCHANGED <<fds, closes>>
  PROVE  IInv'
<1> USE DEF IInv, InUse, Pending
<1>1. /\ \A u \in Tasks : u # t => call'[u] = call[u]
      /\ call'[t] = Idle /\ call'[t].at = "idle"
  BY DEF Return, Call, Idle, TypeOK
<1>2. call[t].slot \in Slots
  BY DEF TypeOK
<1>3. /\ \A s \in Slots : files'[s].inode = files[s].inode
      /\ \A s \in Slots : s # call[t].slot => files'[s] = files[s]
  BY <1>2
<1>4. TypeOK'
  <2>1. files' \in [Slots -> Files]
    BY <1>2, FilePart DEF TypeOK
  <2>2. call' \in [Tasks -> Calls]
    BY <1>1, IdleIsCall DEF Return, TypeOK
  <2>3. QED
    BY <1>1, <2>1, <2>2 DEF TypeOK, Calls
<1>5. \A u \in Tasks : Pending(u) => call[u].slot # call[t].slot
  BY DEF HeldFileIsOwn, NamedOnce
<1>6. NamedOnce'
  BY <1>1 DEF NamedOnce
<1>7. NamedInUse'
  BY <1>1, <1>3, <1>5 DEF NamedInUse
<1>8. HeldFileIsOwn'
  BY <1>1, <1>3 DEF HeldFileIsOwn
<1>9. QED
  BY <1>4, <1>6, <1>7, <1>8

(* vfs_close takes the name away; the task is in no other call meanwhile. *)
LEMMA CloseIInv ==
  ASSUME IInv, NEW t \in Tasks, NEW d \in Fds, Close(t, d)
  PROVE  IInv'
<1> USE DEF IInv, InUse, Pending
<1>1. /\ call[t].at = "idle"
      /\ fds' = [fds EXCEPT ![t][d] = Unused]
      /\ closes' = closes + 1
      /\ UNCHANGED <<files, size, call>>
  BY DEF Close, Idle, Call
<1>2. \A u \in Tasks, e \in Fds :
        fds'[u][e] = IF u = t /\ e = d THEN Unused ELSE fds[u][e]
  BY <1>1 DEF TypeOK
<1>3. TypeOK'
  BY <1>1 DEF TypeOK, Files, Calls
<1>4. NamedOnce'
  <2>1. ASSUME NEW u \in Tasks, NEW v \in Tasks, NEW e \in Fds, NEW f \in Fds,
               InUse(u, e)', fds'[u][e] = fds'[v][f]
        PROVE  u = v /\ e = f
    <3>1. fds[u][e] # Unused /\ fds[u][e] = fds[v][f]
      BY <1>2, <2>1
    <3>2. NamedOnce
      OBVIOUS
    <3>3. QED
      BY ONLY <3>1, <3>2 DEF NamedOnce, InUse
  <2>2. ASSUME NEW u \in Tasks, NEW v \in Tasks, NEW e \in Fds, Pending(u)'
        PROVE  fds'[v][e] # call'[u].slot
    <3>1. call'[u].slot \in Slots /\ fds[v][e] # call'[u].slot
      BY <1>1, <2>2 DEF NamedOnce, TypeOK
    <3>2. QED
      BY <1>2, <3>1, ConstantFacts
  <2>3. QED
    BY <1>1, <2>1, <2>2 DEF NamedOnce
<1>5. NamedInUse'
  BY <1>1, <1>2 DEF NamedInUse
<1>6. HeldFileIsOwn'
  BY <1>1, <1>2 DEF HeldFileIsOwn
<1>7. QED
  BY <1>3, <1>4, <1>5, <1>6

-----------------------------------------------------------------------------
(* What a step of a task comes to, whichever function it is in. *)

Enters(t) ==
  /\ \E d \in Fds, at \in {"read", "write", "seek"}, arg \in Int, n \in Int :
       /\ InUse(t, d) /\ (at # "seek" => n \in Nat)
       /\ Enter(t, Call(at, NoInode, FileOf(t, d), arg, n))
  /\ UNCHANGED <<files, fds, size, closes>>

Moves(t) ==
  /\ call[t].at \in {"read", "write", "seek"}
  /\ \E o \in 0 .. OffWidth - 1 : files' = [files EXCEPT ![call[t].slot].off = o]
  /\ size' \in [Inodes -> 0 .. MaxSize]
  /\ Return(t)
  /\ UNCHANGED <<fds, closes>>

Returns(t) == Return(t) /\ ~Pending(t) /\ UNCHANGED <<files, fds, size, closes>>

(* A read or a write that got an answer moves the position within its width. *)
LEMMA TransferMoves ==
  ASSUME IInv, NEW t \in Tasks, NEW r \in 0 .. call[t].n,
         ReadDone(t, r) \/ WriteDone(t, r)
  PROVE  Moves(t)
<1> USE DEF IInv
<1>1. call[t].at \in {"read", "write"}
  BY DEF ReadDone, WriteDone
<1>2. call[t].n \in Nat /\ r \in Nat
  BY <1>1 DEF NamedInUse
<1>3. call[t].slot \in Slots /\ files[call[t].slot].off \in 0 .. OffWidth - 1
  BY <1>1 DEF TypeOK, Files
<1>4. (files[call[t].slot].off + r) % OffWidth \in 0 .. OffWidth - 1
  BY <1>2, <1>3, ConstantFacts, Wraps
<1>5. files' = [files EXCEPT ![call[t].slot].off = (files[call[t].slot].off + r) % OffWidth]
  BY DEF ReadDone, WriteDone, Advanced
<1>6. size' \in [Inodes -> 0 .. MaxSize]
  <2>1. CASE ReadDone(t, r)
    BY <2>1 DEF ReadDone, TypeOK
  <2>2. CASE WriteDone(t, r)
    <3>1. files[call[t].slot].off + r \in Nat
      BY <1>2, <1>3, ConstantFacts
    <3> DEFINE f == files[call[t].slot]
               end == f.off + r
               grows == f.inode \in Regular /\ r > 0 /\ end > size[f.inode]
    <3>2. /\ grows => end <= MaxSize
          /\ size' = IF grows THEN [size EXCEPT ![f.inode] = end] ELSE size
      BY <2>2 DEF WriteDone
    <3>3. size \in [Inodes -> 0 .. MaxSize]
      BY DEF TypeOK
    <3>4. grows => end \in 0 .. MaxSize
      BY <3>1, <3>2, ConstantFacts
    <3> HIDE DEF grows, end, f
    <3>5. QED
      BY <3>2, <3>3, <3>4
  <2>3. QED
    BY <2>1, <2>2
<1>7. QED
  BY <1>1, <1>4, <1>5, <1>6 DEF Moves, ReadDone, WriteDone

(* lseek moves it or leaves it. *)
LEMMA SeekMoves ==
  ASSUME IInv, NEW t \in Tasks, SeekDone(t)
  PROVE  Moves(t) \/ Returns(t)
<1> USE DEF IInv
<1>1. call[t].at = "seek" /\ Return(t) /\ UNCHANGED <<fds, size, closes>>
  BY DEF SeekDone
<1>2. call[t].slot \in Slots /\ call[t].n \in Int
  BY <1>1 DEF TypeOK, Calls
<1>3. /\ files[call[t].slot].off \in Int
      /\ files[call[t].slot].inode \in Inodes
  BY <1>1, <1>2, ConstantFacts DEF TypeOK, Files, HeldFileIsOwn
<1>4. size[files[call[t].slot].inode] \in Int
  BY <1>3, ConstantFacts DEF TypeOK
<1>5. ASSUME NEW o \in Int, SeekTo(t, o) PROVE Moves(t)
  BY <1>1, <1>5, Wraps DEF Moves, SeekTo, TypeOK
<1>6. CASE UNCHANGED files
  BY <1>1, <1>6 DEF Returns, Pending
<1>7. QED
  BY <1>2, <1>3, <1>4, <1>5, <1>6 DEF SeekDone, SeekSet, SeekCur, SeekEnd

(* Every step allocates, enters a call, moves a position, returns or closes. *)
LEMMA StepCases ==
  ASSUME IInv, NEW t \in Tasks,
         Open(t) \/ Transfer(t) \/ Seek(t) \/ (\E d \in Fds : Close(t, d))
  PROVE  \/ \E i \in Inodes, fl \in OpenFlags : OpenResolved(t, i, fl)
         \/ FileAlloc(t) \/ FdAlloc(t) \/ FdTableFull(t)
         \/ Enters(t) \/ Moves(t) \/ Returns(t)
         \/ \E d \in Fds : Close(t, d)
<1>1. CASE Open(t)
  BY <1>1 DEF Open, FileTableFull, Returns, Pending
<1>2. CASE Transfer(t)
  <2>1. ASSUME NEW d \in Fds, NEW n \in Amounts, ReadCheck(t, d, n)
        PROVE  Enters(t)
    <3>1. n \in Nat /\ n \in Int /\ 0 \in Int
      BY NumbersAssumption
    <3>2. /\ InUse(t, d)
          /\ Enter(t, Call("read", NoInode, FileOf(t, d), 0, n))
          /\ UNCHANGED <<files, fds, size, closes>>
      BY <2>1 DEF ReadCheck
    <3>3. QED
      BY <3>1, <3>2 DEF Enters
  <2>2. ASSUME NEW d \in Fds, NEW n \in Amounts, WriteCheck(t, d, n)
        PROVE  Enters(t)
    <3>1. n \in Nat /\ n \in Int /\ 0 \in Int
      BY NumbersAssumption
    <3>2. /\ InUse(t, d)
          /\ Enter(t, Call("write", NoInode, FileOf(t, d), 0, n))
          /\ UNCHANGED <<files, fds, size, closes>>
      BY <2>2 DEF WriteCheck
    <3>3. QED
      BY <3>1, <3>2 DEF Enters
  <2>3. ASSUME TransferFailed(t) PROVE Returns(t)
    BY <2>3 DEF TransferFailed, Returns, Pending
  <2>4. QED
    BY <1>2, <2>1, <2>2, <2>3, TransferMoves DEF Transfer
<1>3. CASE Seek(t)
  <2>1. ASSUME NEW d \in Fds, NEW sk \in Seeks, SeekEnter(t, d, sk[1], sk[2])
        PROVE  Enters(t)
    <3>1. sk[1] \in Int /\ sk[2] \in Int
      BY NumbersAssumption DEF SEEK_SET, SEEK_CUR, SEEK_END
    <3>2. QED
      BY <2>1, <3>1 DEF SeekEnter, Enters
  <2>2. QED
    BY <1>3, <2>1, SeekMoves DEF Seek
<1>4. QED
  BY <1>1, <1>2, <1>3

(* Every step of every task preserves the inductive invariant. *)
LEMMA NextIInv == IInv /\ [Next]_vars => IInv'
<1>1. ASSUME IInv, UNCHANGED vars PROVE IInv'
  BY <1>1 DEF vars, IInv, TypeOK, NamedOnce, NamedInUse, HeldFileIsOwn, InUse,
              Pending
<1>2. ASSUME IInv, NEW t \in Tasks,
             Open(t) \/ Transfer(t) \/ Seek(t) \/ (\E d \in Fds : Close(t, d))
      PROVE  IInv'
  <2>1. CASE Enters(t)
    BY <1>2, <2>1, EnterIInv DEF Enters
  <2>2. CASE Moves(t)
    BY <1>2, <2>2, MoveIInv DEF Moves
  <2>3. CASE Returns(t)
    BY <1>2, <2>3, ReturnIInv DEF Returns
  <2>4. QED
    BY <1>2, <2>1, <2>2, <2>3, StepCases, OpenResolvedIInv, FileAllocIInv,
       FdAllocIInv, FdTableFullIInv, CloseIInv
<1>3. QED
  BY <1>1, <1>2 DEF Next

(* However many tasks open, fail, move and close at once, a call that comes *)
(* back from the filesystem finds the slot it left, still its own.         *)
THEOREM VfsFilesInvariant == Spec => []IInv
BY InitIInv, NextIInv, PTL DEF Spec

(* A set in which any two elements are equal has at most one. *)
LEMMA AtMostOne ==
  ASSUME NEW S, \A x, y \in S : x = y
  PROVE  Cardinality(S) <= 1
<1>1. CASE S = {}
  BY <1>1, FS_EmptySet
<1>2. CASE S # {}
  <2>1. PICK x : x \in S
    BY <1>2
  <2>2. S = {x}
    BY <2>1
  <2>3. QED
    BY <2>2, FS_Singleton
<1>3. QED
  BY <1>1, <1>2

(* No two descriptors, of one task or of two, share a slot of files[], and *)
(* none names a free one.                                                  *)
THEOREM VfsFilesOneOwner == Spec => []OneOwner
<1>1. ASSUME IInv PROVE OneOwner
  <2> USE <1>1 DEF IInv
  <2> SUFFICES ASSUME NEW s \in Slots
               PROVE  /\ Cardinality(Owners(s)) <= 1
                      /\ s \in FreeSlots => Owners(s) = {}
    BY DEF OneOwner
  <2>1. ASSUME NEW p \in Owners(s)
        PROVE  \/ \E t \in Tasks, d \in Fds : p = <<t, d>> /\ fds[t][d] = s
               \/ \E t \in Tasks : p = <<t, TASK_FDS>> /\ Pending(t) /\ call[t].slot = s
    BY DEF Owners, Pending
  <2>2. ASSUME NEW p \in Owners(s), NEW q \in Owners(s) PROVE p = q
    BY <2>1, ConstantFacts DEF NamedOnce, InUse
  <2>3. Cardinality(Owners(s)) <= 1
    BY <2>2, AtMostOne
  <2>4. ASSUME s \in FreeSlots, NEW p \in Owners(s) PROVE FALSE
    BY <2>1, <2>4, ConstantFacts, PendingInUse DEF FreeSlots, NamedInUse, InUse
  <2>5. QED
    BY <2>3, <2>4
<1>2. QED
  BY <1>1, VfsFilesInvariant, PTL

-----------------------------------------------------------------------------
(* The slots nobody names, one at a time. *)

Orphans == {s \in Occupied : Owners(s) = {}}

Orphan(s) ==
  /\ files[s].inode # NoInode
  /\ \A t \in Tasks, d \in Fds : fds[t][d] # s
  /\ \A t \in Tasks : Pending(t) => call[t].slot # s

(* An orphan is a slot in use that nothing names. *)
LEMMA OrphanIffUnnamed == Orphans = {r \in Slots : Orphan(r)}
<1>1. ASSUME NEW s \in Slots, Owners(s) = {} PROVE
        /\ \A t \in Tasks, d \in Fds : fds[t][d] # s
        /\ \A t \in Tasks : Pending(t) => call[t].slot # s
  <2>1. ASSUME NEW t \in Tasks, NEW d \in Fds, fds[t][d] = s PROVE FALSE
    <3>1. <<t, d>> \in {p \in Tasks \X Fds : fds[p[1]][p[2]] = s}
      BY <2>1
    <3>2. QED
      BY <1>1, <3>1 DEF Owners
  <2>2. ASSUME NEW t \in Tasks, Pending(t), call[t].slot = s PROVE FALSE
    <3>1. <<t, TASK_FDS>> \in Owners(s)
      BY <2>2 DEF Owners, Pending
    <3>2. QED
      BY <1>1, <3>1
  <2>3. QED
    BY <2>1, <2>2
<1>2. ASSUME NEW s \in Slots,
             \A t \in Tasks, d \in Fds : fds[t][d] # s,
             \A t \in Tasks : Pending(t) => call[t].slot # s
      PROVE  Owners(s) = {}
  BY <1>2 DEF Owners, Pending
<1>3. QED
  BY <1>1, <1>2 DEF Orphans, Occupied, FreeSlots, Orphan

(* The same of the next state. *)
LEMMA OrphansNext == (Orphans = {r \in Slots : Orphan(r)})'
BY OrphanIffUnnamed, PTL

(* They can be counted, before a step and after it. *)
LEMMA OrphansFinite == IsFiniteSet(Orphans) /\ IsFiniteSet(Orphans')
<1>1. IsFiniteSet(Slots)
  BY ConstantFacts, FS_Interval DEF Slots
<1>2. Orphans \in SUBSET Slots /\ Orphans' \in SUBSET Slots
  BY DEF Orphans, Occupied
<1>3. QED
  BY <1>1, <1>2, FS_Subset

(* Only vfs_close makes an orphan; no open does, failed or not, and nothing *)
(* adopts one.                                                             *)
LEMMA OrphanStep ==
  ASSUME IInv, [Next]_vars
  PROVE  \/ Orphans' = Orphans /\ closes' = closes
         \/ \E s : s \notin Orphans /\ Orphans' = Orphans \cup {s}
                  /\ closes' = closes + 1
<1> USE DEF IInv
<1>1. ASSUME \A s \in Slots : Orphan(s)' <=> Orphan(s)
      PROVE  Orphans' = Orphans
  <2>1. Orphans' = {r \in Slots : Orphan(r)'}
    BY OrphansNext
  <2>2. QED
    BY <1>1, <2>1, OrphanIffUnnamed
<1>2. CASE UNCHANGED vars
  <2>1. Orphans' = Orphans
    BY <1>1, <1>2 DEF vars, Orphan, Pending
  <2>2. QED
    BY <1>2, <2>1 DEF vars
<1>3. ASSUME NEW t \in Tasks,
             Open(t) \/ Transfer(t) \/ Seek(t) \/ (\E d \in Fds : Close(t, d))
      PROVE  \/ Orphans' = Orphans /\ closes' = closes
             \/ \E s : s \notin Orphans /\ Orphans' = Orphans \cup {s}
                      /\ closes' = closes + 1
  <2>1. ASSUME NEW i \in Inodes, NEW fl \in OpenFlags, OpenResolved(t, i, fl)
        PROVE  Orphans' = Orphans /\ closes' = closes
    <3>1. /\ \A u \in Tasks : Pending(u)' <=> Pending(u)
          /\ \A u \in Tasks : Pending(u) => call'[u] = call[u]
      BY <2>1 DEF OpenResolved, Enter, Call, Idle, Pending, TypeOK
    <3>2. UNCHANGED <<files, fds, closes>>
      BY <2>1 DEF OpenResolved
    <3>3. QED
      BY <1>1, <3>1, <3>2 DEF Orphan
  <2>2. CASE FileAlloc(t)
    <3>1. PICK s \in Slots :
            /\ files[s].inode = NoInode
            /\ files' = [files EXCEPT ![s] = File(call[t].ino, 0, call[t].arg)]
            /\ call' = [call EXCEPT ![t] = Call("fd", NoInode, s, 0, 0)]
      BY <2>2 DEF FileAlloc, FreeSlots
    <3>2. call[t].at = "file" /\ UNCHANGED <<fds, closes>>
      BY <2>2 DEF FileAlloc
    <3>3. /\ \A u \in Tasks : u # t => call'[u] = call[u]
          /\ Pending(t)' /\ ~Pending(t) /\ call'[t].slot = s
      BY <3>1, <3>2 DEF Call, Pending, TypeOK
    <3>4. \A r \in Slots : r # s => files'[r] = files[r]
      BY <3>1 DEF TypeOK
    <3>5. \A r \in Slots : Orphan(r)' <=> Orphan(r)
      BY <3>1, <3>2, <3>3, <3>4 DEF Orphan, Pending
    <3>6. QED
      BY <1>1, <3>2, <3>5
  <2>3. CASE FdAlloc(t)
    <3>1. PICK d \in Fds : /\ fds[t][d] = Unused
                           /\ fds' = [fds EXCEPT ![t][d] = call[t].slot]
      BY <2>3 DEF FdAlloc, InUse
    <3>2. /\ Pending(t) /\ UNCHANGED <<files, closes>>
          /\ call' = [call EXCEPT ![t] = Idle]
      BY <2>3 DEF FdAlloc, Return, Pending
    <3>3. /\ \A u \in Tasks : u # t => call'[u] = call[u]
          /\ ~Pending(t)'
      BY <3>2 DEF Call, Idle, Pending, TypeOK
    <3>4. \A u \in Tasks, e \in Fds :
            fds'[u][e] = IF u = t /\ e = d THEN call[t].slot ELSE fds[u][e]
      BY <3>1 DEF TypeOK
    <3>5. \A r \in Slots : Orphan(r)' <=> Orphan(r)
      BY <3>1, <3>2, <3>3, <3>4, ConstantFacts DEF Orphan, Pending
    <3>6. QED
      BY <1>1, <3>2, <3>5
  <2>4. CASE FdTableFull(t)
    <3>1. /\ Pending(t) /\ call[t].slot \in Slots /\ UNCHANGED <<fds, closes>>
          /\ files' = [files EXCEPT ![call[t].slot].inode = NoInode]
          /\ call' = [call EXCEPT ![t] = Idle]
      BY <2>4 DEF FdTableFull, Return, Pending, TypeOK
    <3>2. /\ \A u \in Tasks : u # t => call'[u] = call[u]
          /\ ~Pending(t)'
      BY <3>1 DEF Call, Idle, Pending, TypeOK
    <3>3. /\ \A r \in Slots : r # call[t].slot => files'[r] = files[r]
          /\ files'[call[t].slot].inode = NoInode
      BY <3>1 DEF TypeOK, Files
    <3>4. \A r \in Slots : Orphan(r)' <=> Orphan(r)
      BY <3>1, <3>2, <3>3 DEF Orphan, Pending
    <3>5. QED
      BY <1>1, <3>1, <3>4
  <2>5. CASE Enters(t)
    <3>1. /\ \A u \in Tasks : Pending(u)' <=> Pending(u)
          /\ \A u \in Tasks : Pending(u) => call'[u] = call[u]
      BY <2>5 DEF Enters, Enter, Call, Idle, Pending, TypeOK
    <3>2. UNCHANGED <<files, fds, closes>>
      BY <2>5 DEF Enters
    <3>3. QED
      BY <1>1, <3>1, <3>2 DEF Orphan
  <2>6. CASE Moves(t) \/ Returns(t)
    <3>1. /\ call' = [call EXCEPT ![t] = Idle] /\ ~Pending(t)
          /\ UNCHANGED <<fds, closes>>
      BY <2>6 DEF Moves, Returns, Return, Pending
    <3>2. /\ \A u \in Tasks : u # t => call'[u] = call[u]
          /\ ~Pending(t)'
      BY <3>1 DEF Call, Idle, Pending, TypeOK
    <3>3. \A s \in Slots : files'[s].inode = files[s].inode
      <4>1. CASE Returns(t)
        BY <4>1 DEF Returns
      <4>2. CASE Moves(t)
        <5>1. PICK o \in 0 .. OffWidth - 1 :
                files' = [files EXCEPT ![call[t].slot].off = o]
          BY <4>2 DEF Moves
        <5>2. QED
          BY <5>1, FilePart DEF TypeOK
      <4>3. QED
        BY <2>6, <4>1, <4>2
    <3>4. \A r \in Slots : Orphan(r)' <=> Orphan(r)
      BY <3>1, <3>2, <3>3 DEF Orphan, Pending
    <3>5. QED
      BY <1>1, <3>1, <3>4
  <2>7. ASSUME NEW d \in Fds, Close(t, d)
        PROVE  \E s : s \notin Orphans /\ Orphans' = Orphans \cup {s}
                      /\ closes' = closes + 1
    <3>0. PICK s : s = fds[t][d]
      OBVIOUS
    <3>1. /\ s \in Slots /\ fds' = [fds EXCEPT ![t][d] = Unused]
          /\ InUse(t, d) /\ UNCHANGED <<files, call>> /\ closes' = closes + 1
      BY <3>0, <2>7 DEF Close, InUse, TypeOK
    <3>2. \A u \in Tasks, e \in Fds :
            fds'[u][e] = IF u = t /\ e = d THEN Unused ELSE fds[u][e]
      BY <3>1 DEF TypeOK
    <3>3. Orphan(s)' /\ ~Orphan(s)
      <4>1. ~Orphan(s)
        BY <3>0 DEF Orphan
      <4>2. files'[s].inode # NoInode
        BY <3>0, <3>1 DEF NamedInUse
      <4>3. \A u \in Tasks, e \in Fds : fds'[u][e] # s
        BY <3>0, <3>1, <3>2, ConstantFacts DEF NamedOnce
      <4>4. \A u \in Tasks : Pending(u)' => call'[u].slot # s
        BY <3>0, <3>1 DEF NamedOnce, Pending
      <4>5. QED
        BY <4>1, <4>2, <4>3, <4>4 DEF Orphan
    <3>4. \A r \in Slots : r # s => (Orphan(r)' <=> Orphan(r))
      BY <3>0, <3>1, <3>2, ConstantFacts DEF Orphan, Pending
    <3>5. Orphans' = {r \in Slots : Orphan(r)'}
      BY OrphansNext
    <3>6. s \notin Orphans /\ Orphans' = Orphans \cup {s}
      BY <3>1, <3>3, <3>4, <3>5, OrphanIffUnnamed
    <3>7. QED
      BY <3>1, <3>6
  <2>8. QED
    BY <1>3, <2>1, <2>2, <2>3, <2>4, <2>5, <2>6, <2>7, StepCases
<1>4. QED
  BY <1>2, <1>3 DEF Next

(* An open that fails half way gives its slot back, in every interleaving: *)
(* the occupied slots without an owner are as many as the closes.          *)
THEOREM VfsFilesNoLeakOnFailure == Spec => []FailedOpenLeavesNothing
<1>1. FailedOpenLeavesNothing <=> Cardinality(Orphans) = closes
  BY DEF FailedOpenLeavesNothing, Orphans
<1>2. Init => Cardinality(Orphans) = closes
  <2>1. ASSUME Init PROVE Orphans = {}
    BY <2>1 DEF Init, Orphans, Occupied, FreeSlots, File
  <2>2. QED
    BY <2>1, FS_EmptySet DEF Init
<1>3. ASSUME IInv, [Next]_vars, Cardinality(Orphans) = closes
      PROVE  Cardinality(Orphans') = closes'
  <2>1. CASE Orphans' = Orphans /\ closes' = closes
    BY <1>3, <2>1
  <2>2. ASSUME NEW s, s \notin Orphans, Orphans' = Orphans \cup {s},
               closes' = closes + 1
        PROVE  Cardinality(Orphans') = closes'
    BY <1>3, <2>2, OrphansFinite, FS_AddElement
  <2>3. QED
    BY <1>3, <2>1, <2>2, OrphanStep
<1>4. QED
  <2>1. Init => FailedOpenLeavesNothing
    BY <1>1, <1>2
  <2>2. IInv /\ FailedOpenLeavesNothing /\ [Next]_vars => FailedOpenLeavesNothing'
    BY <1>1, <1>3 DEF FailedOpenLeavesNothing, Orphans
  <2>3. QED
    BY <2>1, <2>2, VfsFilesInvariant, PTL DEF Spec

-----------------------------------------------------------------------------
(* Refinement: only the step that hands a descriptor out, the one that     *)
(* moves its position and the close are seen by the tasks.                 *)

Seen(t, d) == IF InUse(t, d) THEN files[FileOf(t, d)] ELSE Closed

(* The rows of the abstract state, one descriptor at a time. *)
LEMMA RowsAreSeen == Rows = [t \in Tasks |-> [d \in Fds |-> Seen(t, d)]]
BY DEF Rows, Seen

(* A file is never mistaken for a closed descriptor: its inode is not null. *)
LEMMA SeenOpen ==
  ASSUME IInv, NEW t \in Tasks, NEW d \in Fds
  PROVE  /\ Rows[t][d] = Seen(t, d)
         /\ Rows[t][d] # Closed <=> InUse(t, d)
<1>1. Rows[t][d] = Seen(t, d)
  BY RowsAreSeen
<1>2. InUse(t, d) => files[fds[t][d]].inode # Closed.inode
  BY DEF IInv, NamedInUse, Closed
<1>3. QED
  BY <1>1, <1>2 DEF Seen, FileOf

(* What no descriptor shows does not change the rows. *)
LEMMA Invisible ==
  ASSUME \A t \in Tasks, d \in Fds : Seen(t, d)' = Seen(t, d)
  PROVE  Rows' = Rows
BY RowsAreSeen DEF Rows, Seen

(* What one descriptor shows changes the rows there only. *)
LEMMA Visible ==
  ASSUME NEW t \in Tasks, NEW d \in Fds, NEW v, Seen(t, d)' = v,
         \A u \in Tasks, e \in Fds : u # t \/ e # d => Seen(u, e)' = Seen(u, e)
  PROVE  Rows' = [Rows EXCEPT ![t][d] = v]
<1>1. Rows' = [u \in Tasks |-> [e \in Fds |-> Seen(u, e)']]
  BY DEF Rows, Seen
<1>2. \A u \in Tasks, e \in Fds :
        Seen(u, e)' = IF u = t /\ e = d THEN v ELSE Seen(u, e)
  OBVIOUS
<1>3. [Rows EXCEPT ![t][d] = v] =
        [u \in Tasks |-> [e \in Fds |-> IF u = t /\ e = d THEN v ELSE Seen(u, e)]]
  <2> DEFINE R == [u \in Tasks |-> [e \in Fds |-> Seen(u, e)]]
  <2>1. [R EXCEPT ![t][d] = v] =
          [u \in Tasks |-> [e \in Fds |-> IF u = t /\ e = d THEN v ELSE Seen(u, e)]]
    OBVIOUS
  <2>2. QED
    BY <2>1, RowsAreSeen
<1>4. QED
  BY <1>1, <1>2, <1>3

(* vfs_init hands every task a row of closed descriptors. *)
LEMMA InitRefines == Init => Abstract!DInit
<1>1. ASSUME Init PROVE Rows = [t \in Tasks |-> [d \in Fds |-> Closed]]
  BY <1>1 DEF Init, Rows, InUse
<1>2. QED
  BY <1>1 DEF Abstract!DInit

(* Every step of the calls is a step on one row, or invisible. *)
LEMMA StepRefines == IInv /\ [Next]_vars => [Abstract!DNext]_Rows
<1> SUFFICES ASSUME IInv, [Next]_vars, Rows' # Rows PROVE Abstract!DNext
  OBVIOUS
<1> USE DEF IInv
<1>1. ASSUME UNCHANGED <<files, fds>> PROVE FALSE
  BY <1>1, Invisible DEF Seen, InUse, FileOf
<1>2. PICK t \in Tasks :
        Open(t) \/ Transfer(t) \/ Seek(t) \/ (\E d \in Fds : Close(t, d))
  BY <1>1 DEF Next, vars
<1>3. CASE FileAlloc(t)
  <2>1. PICK s \in Slots :
          /\ files[s].inode = NoInode
          /\ files' = [files EXCEPT ![s] = File(call[t].ino, 0, call[t].arg)]
    BY <1>3 DEF FileAlloc, FreeSlots
  <2>2. fds' = fds
    BY <1>3 DEF FileAlloc
  <2>3. \A u \in Tasks, d \in Fds : InUse(u, d) => fds[u][d] \in Slots /\ fds[u][d] # s
    BY <2>1 DEF NamedInUse, InUse, TypeOK
  <2>4. \A u \in Tasks, d \in Fds : Seen(u, d)' = Seen(u, d)
    BY <2>1, <2>2, <2>3 DEF Seen, InUse, FileOf, TypeOK
  <2>5. QED
    BY <2>4, Invisible
<1>4. CASE FdTableFull(t)
  <2>1. /\ Pending(t) /\ fds' = fds
        /\ files' = [files EXCEPT ![call[t].slot].inode = NoInode]
    BY <1>4 DEF FdTableFull, Pending
  <2>2. \A u \in Tasks, d \in Fds :
          InUse(u, d) => fds[u][d] \in Slots /\ fds[u][d] # call[t].slot
    BY <2>1 DEF NamedOnce, InUse, TypeOK
  <2>3. \A u \in Tasks, d \in Fds : Seen(u, d)' = Seen(u, d)
    BY <2>1, <2>2 DEF Seen, InUse, FileOf, TypeOK
  <2>4. QED
    BY <2>3, Invisible
<1>5. CASE FdAlloc(t)
  <2>1. PICK d \in Fds : /\ ~InUse(t, d)
                         /\ \A e \in Fds : e < d => InUse(t, e)
                         /\ fds' = [fds EXCEPT ![t][d] = call[t].slot]
    BY <1>5 DEF FdAlloc
  <2>2. Pending(t) /\ files' = files /\ call[t].slot \in Slots
    BY <1>5 DEF FdAlloc, Pending, TypeOK
  <2>3. PICK i \in Inodes, fl \in OpenFlags : files[call[t].slot] = File(i, 0, fl)
    BY <2>2 DEF NamedInUse
  <2>4. \A u \in Tasks, e \in Fds :
          fds'[u][e] = IF u = t /\ e = d THEN call[t].slot ELSE fds[u][e]
    BY <2>1 DEF TypeOK
  <2>5. Seen(t, d)' = File(i, 0, fl)
    BY <2>2, <2>3, <2>4, ConstantFacts DEF Seen, InUse, FileOf
  <2>6. \A u \in Tasks, e \in Fds : u # t \/ e # d => Seen(u, e)' = Seen(u, e)
    BY <2>2, <2>4 DEF Seen, InUse, FileOf
  <2>7. Rows' = [Rows EXCEPT ![t][d] = File(i, 0, fl)]
    BY <2>5, <2>6, Visible
  <2>8. Rows[t][d] = Closed /\ \A e \in Fds : e < d => Rows[t][e] # Closed
    BY <2>1, SeenOpen
  <2>9. Abstract!DOpen(t, d, i, fl)
    BY <2>7, <2>8 DEF Abstract!DOpen, File
  <2>10. QED
    BY <2>9 DEF Abstract!DNext
<1>6. CASE Moves(t)
  <2>1. PICK o \in 0 .. OffWidth - 1 : files' = [files EXCEPT ![call[t].slot].off = o]
    BY <1>6 DEF Moves
  <2>2. PICK d \in Fds : fds[t][d] = call[t].slot
    BY <1>6 DEF Moves, HeldFileIsOwn
  <2>3. call[t].slot \in Slots /\ fds' = fds
    BY <1>6 DEF Moves, TypeOK
  <2>4. InUse(t, d)
    BY <2>2, <2>3, ConstantFacts DEF InUse
  <2>5. Seen(t, d)' = [Rows[t][d] EXCEPT !.off = o]
    BY <2>1, <2>2, <2>3, <2>4, SeenOpen DEF Seen, InUse, FileOf, TypeOK
  <2>6. \A u \in Tasks, e \in Fds :
          InUse(u, e) /\ (u # t \/ e # d) =>
            fds[u][e] \in Slots /\ fds[u][e] # call[t].slot
    BY <2>2, <2>4 DEF NamedOnce, InUse, TypeOK
  <2>7. \A u \in Tasks, e \in Fds : u # t \/ e # d => Seen(u, e)' = Seen(u, e)
    BY <2>1, <2>3, <2>6 DEF Seen, InUse, FileOf, TypeOK
  <2>8. Rows' = [Rows EXCEPT ![t][d] = [Rows[t][d] EXCEPT !.off = o]]
    BY <2>5, <2>7, Visible
  <2>9. Abstract!DMove(t, d, o)
    BY <2>4, <2>8, SeenOpen DEF Abstract!DMove
  <2>10. QED
    BY <2>9 DEF Abstract!DNext
<1>7. ASSUME NEW d \in Fds, Close(t, d) PROVE Abstract!DNext
  <2>1. /\ InUse(t, d) /\ files' = files
        /\ fds' = [fds EXCEPT ![t][d] = Unused]
    BY <1>7 DEF Close
  <2>2. \A u \in Tasks, e \in Fds :
          fds'[u][e] = IF u = t /\ e = d THEN Unused ELSE fds[u][e]
    BY <2>1 DEF TypeOK
  <2>3. Seen(t, d)' = Closed
    BY <2>2 DEF Seen, InUse, Closed
  <2>4. \A u \in Tasks, e \in Fds : u # t \/ e # d => Seen(u, e)' = Seen(u, e)
    BY <2>1, <2>2 DEF Seen, InUse, FileOf
  <2>5. Rows' = [Rows EXCEPT ![t][d] = Closed]
    BY <2>3, <2>4, Visible
  <2>6. Abstract!DClose(t, d)
    BY <2>1, <2>5, SeenOpen DEF Abstract!DClose
  <2>7. QED
    BY <2>6 DEF Abstract!DNext
<1>8. CASE Enters(t) \/ Returns(t) \/ \E i \in Inodes, fl \in OpenFlags : OpenResolved(t, i, fl)
  BY <1>1, <1>8 DEF Enters, Returns, OpenResolved
<1>9. QED
  BY <1>2, <1>3, <1>4, <1>5, <1>6, <1>7, <1>8, StepCases

(* For every number of tasks, slots and descriptors, the global table      *)
(* behaves to each task as a row of files of its own.                      *)
THEOREM VfsFilesImplementDescriptors == Spec => ImplementsDescriptors
BY InitRefines, StepRefines, VfsFilesInvariant, PTL
   DEF Spec, ImplementsDescriptors, Abstract!DSpec

=============================================================================
