------------------------------- MODULE Shell -------------------------------
(***************************************************************************)
(* The commands ls and cat (kernel/shell.c), run by several tasks at once  *)
(* over /dev and /proc, down to what each call of the VFS makes those two  *)
(* filesystems do, while a driver registers, a task is created and the     *)
(* scheduler saves stack pointers.  What is printed is a sequence: entries *)
(* for ls, items for cat.                                                  *)
(***************************************************************************)
EXTENDS Devfs, Procfs

CONSTANTS
  Commands,          \* what each task may run: records [cmd, fs, name, n], where
                     \* fs is "dev", "proc" or "status", and n = 0 is no limit
  TASK_FDS,          \* descriptors of a task
  BUF,               \* what cat asks of a read; no status is longer
  DIRENT_NAME,       \* VFS_NAME_MAX: what the name of a dirent can hold
  Keys,              \* what may be typed at the keyboard, "nl" among it
  TypedAhead,        \* what may have been typed before: a set of sequences of keys
  MaxEvents          \* bound: new tasks, and registrations, saved esps and keys twice each

(* The boot creates tasks one after the other, none has ended; no name of a  *)
(* device is longer than a dirent holds (devfs.c:170).                       *)
ASSUME ShellAssumption ==
  /\ TASK_FDS \in Nat \ {0} /\ BUF \in Nat \ {0} /\ DIRENT_NAME \in Nat \ {0}
  /\ \E n \in 1 .. MAX_TASKS : Task = 0 .. n - 1
  /\ \A d \in Drivers : d.name \in Seq({d.name[k] : k \in DOMAIN d.name}) /\ Len(d.name) <= DIRENT_NAME
  /\ \A i \in DOMAIN Boot : Boot[i].kind \in {"char", "block"} /\ Boot[i].name # <<>>
  /\ \A i, r \in Slot, e \in Esps :
       Len(StatusText(i, r, e)) < PROC_STATUS_MAX /\ Len(StatusText(i, r, e)) <= BUF
  /\ TypedAhead \subseteq Seq(Keys)
  /\ \A t \in Task : \A c \in Commands[t] :
       /\ c = [cmd |-> c.cmd, fs |-> c.fs, name |-> c.name, n |-> c.n]
       /\ c.cmd \in {"ls", "cat"} /\ c.fs \in {"dev", "proc", "status"} /\ c.n \in Nat

VARIABLES
  call,              \* the command each task is running
  fds,               \* the descriptors each task has open
  keys,              \* typed and not read yet
  events             \* how many things happened around the tasks

shellVars == <<devVars, slots, call, fds, keys, events>>

Nothing == [is |-> "nothing", i |-> 0]

Idle == [pc |-> "idle", c |-> [cmd |-> "none"], node |-> Nothing, idx |-> 0, i |-> 0, pos |-> 0,
         off |-> 0, out |-> <<>>, end |-> "none", due |-> {}, refused |-> 0]

SInit ==
  /\ DInit
  /\ slots = [i \in Slot |-> IF i \in Task THEN CHOOSE e \in Esps : TRUE ELSE NoTask]
  /\ call = [t \in Task |-> Idle]
  /\ fds = [t \in Task |-> 0]
  /\ keys \in TypedAhead /\ events = 0

-----------------------------------------------------------------------------
(* dev_lookup: the device of a name, once its inode is prepared.             *)
DevLookup(name) ==
  LET i == DevLookupIndex(name)
  IN  IF i # DEV_MAX /\ (Ready(i) \/ Servable(i)) THEN [is |-> "device", i |-> i] ELSE Nothing

(* What a path leads to: a directory, a device, a status, or nothing.        *)
NodeOf(c) ==
  CASE c.fs = "dev" /\ c.name = <<>> -> [is |-> "devdir", i |-> 0]
    [] c.fs = "dev" /\ c.name # <<>> -> DevLookup(c.name)
    [] c.fs = "proc" /\ c.name = <<>> -> [is |-> "procdir", i |-> 0]
    [] OTHER ->
         LET i == RootLookup(c.name)
         IN  IF i = MAX_TASKS THEN Nothing
             ELSE [is |-> IF c.fs = "proc" THEN "taskdir" ELSE "status", i |-> i]

IsDir(node) == node.is \in {"devdir", "procdir", "taskdir"}
TypeOf(node) ==
  IF IsDir(node) THEN "dir" ELSE IF node.is = "status" THEN "file" ELSE pool[node.i]["type"]
InoOf(node) ==
  CASE node.is = "device" -> pool[node.i]["ino"]
    [] node.is = "taskdir" -> PROC_INO_TASK(node.i)
    [] node.is = "status" -> PROC_INO_STATUS(node.i)
    [] OTHER -> 1

(* The place of the registry that a step must find prepared, and the filling *)
(* of it: prepara, called by dev_lookup and by dev_readdir.                  *)
Wanted(t) ==
  LET d == call[t]
      i == IF d.pc = "list" THEN d.i ELSE DevLookupIndex(d.c.name)
  IN  IF /\ \/ d.pc \in {"resolve", "open"} /\ d.c.fs = "dev" /\ d.c.name # <<>>
            \/ d.pc = "list" /\ d.node.is = "devdir"
         /\ i < DevCount /\ ~Ready(i) /\ Servable(i)
        THEN {i} ELSE {}

Prepare(t) ==
  \/ /\ \E i \in Wanted(t) : PreparaBegin(t, i)
     /\ UNCHANGED <<slots, call, fds, keys, events>>
  \/ /\ PreparaStore(t)
     /\ UNCHANGED <<slots, call, fds, keys, events>>

(* The task is at this point of its command, with no inode left to fill.     *)
At(t, pc) == call[t].pc = pc /\ Free(t) /\ Wanted(t) = {}

Goes(t, new) == call' = [call EXCEPT ![t] = new]
Ends(t, how) == Goes(t, [call[t] EXCEPT !.pc = "done", !.end = how])
Rest == UNCHANGED <<devVars, slots>>

-----------------------------------------------------------------------------
(* What an ls begun now must show.                                           *)
DueOf(c) ==
  LET node == NodeOf(c)
  IN  CASE c.cmd # "ls" -> {}
        [] c.cmd = "ls" /\ node.is = "devdir" -> {3 + i : i \in {j \in Places : Servable(j)}}
        [] c.cmd = "ls" /\ node.is = "procdir" -> {PROC_INO_TASK(i) : i \in {j \in Slot : TaskAttivo(j)}}
        [] c.cmd = "ls" /\ node.is = "taskdir" -> {PROC_INO_STATUS(node.i)}
        [] OTHER -> {}

Ask(t, c) ==
  /\ call[t].pc = "idle"
  /\ Goes(t, [Idle EXCEPT !.pc = "resolve", !.c = c, !.due = DueOf(c)])
  /\ Rest /\ UNCHANGED <<fds, keys, events>>

(* vfs_resolve, and what is said without opening: nothing is there, or the   *)
(* one line of a thing that is no directory, or that cat wants no directory. *)
ResolvePath(t) ==
  /\ At(t, "resolve")
  /\ \E node \in {NodeOf(call[t].c)} : LET c == call[t].c
     IN  CASE node = Nothing -> Ends(t, "missing")
           [] node # Nothing /\ c.cmd = "ls" /\ ~IsDir(node) ->
                Goes(t, [call[t] EXCEPT !.pc = "done", !.end = "ok",
                                        !.node = node,
                                        !.out = <<[name |-> c.name, ino |-> InoOf(node)]>>])
           [] node # Nothing /\ c.cmd = "cat" /\ IsDir(node) -> Ends(t, "directory")
           [] OTHER -> Goes(t, [call[t] EXCEPT !.pc = "open"])
  /\ Rest /\ UNCHANGED <<fds, keys, events>>

(* vfs_open, which resolves again.  The table of the open files of all the   *)
(* tasks may be full too, whatever this task has open: module VfsFiles says  *)
(* when, and here any open may find it so.                                   *)
Open(t) ==
  /\ At(t, "open")
  /\ \E node \in {NodeOf(call[t].c)} :
       \/ Ends(t, "noopen") /\ UNCHANGED fds
       \/ /\ node # Nothing /\ fds[t] < TASK_FDS
          /\ Goes(t, [call[t] EXCEPT !.node = node, !.pc = IF IsDir(node) THEN "list" ELSE "read"])
          /\ fds' = [fds EXCEPT ![t] = @ + 1]
  /\ Rest /\ UNCHANGED <<keys, events>>

Close(t) == fds' = [fds EXCEPT ![t] = @ - 1]

Return(t) ==
  /\ call[t].pc = "done"
  /\ Goes(t, Idle)
  /\ Rest /\ UNCHANGED <<fds, keys, events>>

-----------------------------------------------------------------------------
(* readdir of the directory listed: the places it goes through, those it     *)
(* shows, and the line of each.                                              *)
Limit(node) ==
  CASE node.is = "devdir" -> DevCount [] node.is = "procdir" -> MAX_TASKS [] OTHER -> 1

Shows(node, i) ==
  CASE node.is = "devdir" -> Ready(i) [] node.is = "procdir" -> TaskAttivo(i) [] OTHER -> TRUE

Truncated(name) == SubSeq(name, 1, IF Len(name) < DIRENT_NAME THEN Len(name) ELSE DIRENT_NAME)

Line(node, i) ==
  CASE node.is = "devdir" -> [name |-> Truncated(Entry(i).name), ino |-> pool[i]["ino"]]
    [] node.is = "procdir" -> [name |-> NameOfTask(i), ino |-> PROC_INO_TASK(i)]
    [] OTHER -> [name |-> <<"status">>, ino |-> PROC_INO_STATUS(node.i)]

(* mistake: idx taken for the place in the table. *)
IsEntryByPlace(d) == d.i = d.idx

(* idx counts the entries shown, not the places.                             *)
IsEntry(d) == d.pos = d.idx

(* One place looked at: the entry asked for, and readdir is asked for the    *)
(* next one from the start; or one before it; or one not to be shown.        *)
ListStep(t) ==
  /\ At(t, "list")
  /\ LET d == call[t] node == d.node
     IN  /\ d.i < Limit(node)
         /\ Goes(t, IF ~Shows(node, d.i) THEN [d EXCEPT !.i = @ + 1]
                    ELSE IF IsEntry(d)
                      THEN [d EXCEPT !.out = Append(@, Line(node, d.i)), !.idx = @ + 1, !.i = 0, !.pos = 0]
                      ELSE [d EXCEPT !.i = @ + 1, !.pos = @ + 1])
  /\ Rest /\ UNCHANGED <<fds, keys, events>>

ListEnd(t) ==
  /\ At(t, "list") /\ call[t].i >= Limit(call[t].node)
  /\ Ends(t, "ok") /\ Close(t)
  /\ Rest /\ UNCHANGED <<keys, events>>

-----------------------------------------------------------------------------
(* The reads of the three kinds of thing cat opens; a disk holds <<impl, k>>. *)
Content(i) == [k \in 1 .. pool[i]["size"] |-> <<pool[i]["priv"], k>>]

(* mistake: what cannot be read has nothing to read now. *)
ChrReadIdle(i, n) ==
  [ok |-> TRUE, got |-> IF "read" \in Entry(i).caps THEN SubSeq(keys, 1, IF n < Len(keys) THEN n ELSE Len(keys))
                        ELSE <<>>]

ChrRead(i, n) ==
  IF "read" \notin Entry(i).caps THEN [ok |-> FALSE, got |-> <<>>]
  ELSE [ok |-> TRUE, got |-> SubSeq(keys, 1, IF n < Len(keys) THEN n ELSE Len(keys))]

(* How far a read from off to end goes, sector by sector, when the drive      *)
(* refuses one sector: to the start of it, or nowhere if it starts inside it. *)
Reaches(off, end, refused) ==
  LET bad == refused * SECTOR_SIZE
  IN  IF end <= bad \/ bad + SECTOR_SIZE <= off THEN end ELSE IF bad < off THEN off ELSE bad

(* mistakes: 0, the end, where no byte could be read; -1 for a sector refused *)
(* after others were read.                                                   *)
BlkReadNoError(i, off, n, refused) ==
  LET size == pool[i]["size"]
      end  == IF n > size - off THEN size ELSE off + n
  IN  IF "read" \notin Entry(i).caps THEN [ok |-> FALSE, got |-> <<>>]
      ELSE [ok |-> TRUE,
            got |-> IF off >= size THEN <<>> ELSE SubSeq(Content(i), off + 1, Reaches(off, end, refused))]

BlkReadAllOrNothing(i, off, n, refused) ==
  LET size == pool[i]["size"]
      end  == IF n > size - off THEN size ELSE off + n
  IN  IF "read" \notin Entry(i).caps THEN [ok |-> FALSE, got |-> <<>>]
      ELSE IF off >= size THEN [ok |-> TRUE, got |-> <<>>]
      ELSE [ok |-> Reaches(off, end, refused) = end,
            got |-> SubSeq(Content(i), off + 1, Reaches(off, end, refused))]

(* What was read before a sector refused is a short read; nothing, an error. *)
BlkRead(i, off, n, refused) ==
  LET size == pool[i]["size"]
      end  == IF n > size - off THEN size ELSE off + n
      to   == Reaches(off, end, refused)
  IN  IF "read" \notin Entry(i).caps THEN [ok |-> FALSE, got |-> <<>>]
      ELSE IF off >= size THEN [ok |-> TRUE, got |-> <<>>]
      ELSE [ok |-> to > off \/ to = end, got |-> SubSeq(Content(i), off + 1, to)]

(* The sector a drive may refuse to a read, the one past its end for none.   *)
Refusals(node) == IF node.is = "device" THEN 0 .. Entry(node.i).sectors ELSE {0}

VfsRead(t, node, off, refused) ==
  CASE node.is = "status" -> StatusRead(node.i, t, off, BUF)
    [] node.is = "device" /\ pool[node.i]["ops"] = "chr" -> ChrRead(node.i, BUF)
    [] OTHER -> BlkRead(node.i, off, BUF, refused)

(* The items of a read that end cat: the one that makes the limit, and on a  *)
(* device the first newline.                                                 *)
Ending(d, dispositivo, got) ==
  {k \in DOMAIN got : \/ d.c.n # 0 /\ Len(d.out) + k >= d.c.n
                      \/ dispositivo /\ got[k] = "nl"}

(* mistake: an error returns at once, as those before the open do. *)
Fails(t, refused) == Goes(t, [call[t] EXCEPT !.pc = "done", !.end = "error", !.refused = refused])

CatFailsOpen(t, refused) == Fails(t, refused) /\ UNCHANGED fds

(* "errore di lettura"; which sector was refused is kept for CatExact.       *)
CatFails(t, refused) == Fails(t, refused) /\ Close(t)

(* One turn of the loop: a read, and the printing of what it returned.  What *)
(* follows the last item printed was read and is lost.                       *)
CatPrints(t, got, dispositivo, last) ==
  LET d == call[t]
      more == [d EXCEPT !.off = @ + Len(got), !.out = @ \o got]
  IN  \/ /\ got = <<>> /\ dispositivo
         /\ UNCHANGED <<call, fds>>
      \/ /\ got = <<>> /\ ~dispositivo
         /\ Ends(t, "ok") /\ Close(t)
      \/ /\ got # <<>> /\ last = {}
         /\ Goes(t, more) /\ UNCHANGED fds
      \/ \E k \in last :
           /\ \A j \in last : k <= j
           /\ Goes(t, [more EXCEPT !.out = d.out \o SubSeq(got, 1, k), !.pc = "done", !.end = "ok"])
           /\ Close(t)

CatRead(t) ==
  /\ At(t, "read")
  /\ \E refused \in Refusals(call[t].node) :
     \E r \in {VfsRead(t, call[t].node, call[t].off, refused)} :
       LET dispositivo == TypeOf(call[t].node) = "char"
       IN  /\ \/ ~r.ok /\ CatFails(t, refused)
              \/ r.ok /\ CatPrints(t, r.got, dispositivo, Ending(call[t], dispositivo, r.got))
           /\ keys' = IF dispositivo THEN SubSeq(keys, Len(r.got) + 1, Len(keys)) ELSE keys
  /\ Rest /\ UNCHANGED events

-----------------------------------------------------------------------------
Type(k) ==
  /\ keys' = Append(keys, k)
  /\ Rest /\ UNCHANGED <<call, fds>>

Around ==
  \/ /\ events + 1 <= MaxEvents /\ events' = events + 1
     /\ \E i \in Slot : TaskCreated(i)
     /\ UNCHANGED <<devVars, call, fds, keys>>
  \/ /\ events + 2 <= MaxEvents /\ events' = events + 2
     /\ \/ /\ \E d \in Drivers : DevRegister(d)
           /\ UNCHANGED <<slots, call, fds, keys>>
        \/ /\ \E i \in Slot : EspSaved(i)
           /\ UNCHANGED <<devVars, call, fds, keys>>
        \/ \E k \in Keys : Type(k)

ShellStep(t) ==
  \/ Prepare(t) \/ ResolvePath(t) \/ Open(t) \/ ListStep(t) \/ ListEnd(t) \/ CatRead(t) \/ Return(t)

SNext == Around \/ \E t \in Task : ShellStep(t) \/ \E c \in Commands[t] : Ask(t, c)

SSpec == SInit /\ [][SNext]_shellVars /\ \A t \in Task : WF_shellVars(ShellStep(t))

-----------------------------------------------------------------------------
(* The tasks created since an ls began.                                      *)
NewTasks(d) == {i \in Slot : TaskAttivo(i) /\ PROC_INO_TASK(i) \notin d.due}

(* An ls that ends showed each thing once, under a name that leads back to   *)
(* it, and everything that was there when it began, whoever registered or    *)
(* was created meanwhile, whatever places are not shown (shell.c:476-549,    *)
(* devfs.c:139-187, procfs.c:198-231).  Only when two tasks were created     *)
(* meanwhile may a new one be shown twice, and another not.                  *)
ListComplete ==
  \A t \in Task : LET d == call[t] IN
    d.pc = "done" /\ d.c.cmd = "ls" /\ d.end = "ok" =>
      /\ \A j, k \in DOMAIN d.out : j # k /\ d.out[j] = d.out[k] =>
           /\ d.node.is = "procdir" /\ d.out[k].ino \notin d.due
           /\ \E p, q \in NewTasks(d) : p # q
      /\ d.due \subseteq {d.out[k].ino : k \in DOMAIN d.out}
      /\ d.c.name = <<>> => \A k \in DOMAIN d.out :
           InoOf(NodeOf([d.c EXCEPT !.name = d.out[k].name])) = d.out[k].ino

(* The directory lists each task once (tests/host/test_procfs.c:219), even    *)
(* with the demo tasks created while the shell already runs                  *)
(* (kernel/main.c:188-191): no, readdir is asked for an entry by its number. *)
ListedOnce ==
  \A t \in Task : LET d == call[t] IN
    d.pc = "done" /\ d.c.cmd = "ls" /\ d.end = "ok" =>
      \A j, k \in DOMAIN d.out : d.out[j] = d.out[k] => j = k

(* What cat prints is at every moment the beginning, and at the end the whole *)
(* up to the limit, of one thing: a status as it was at one moment, the bytes *)
(* of a disk; of a device it is a line (shell.c:551-644, procfs.c:306-351).   *)
(* An error it reports only of what devio_caps says cannot be read, or of a   *)
(* disk that refuses the sector of the very next byte: of what was readable   *)
(* before it nothing is thrown away, and a read cut short by it is never      *)
(* taken for the end (devio.c:131-137).                                       *)
Prefix(s, whole, ended) ==
  Len(s) <= Len(whole) /\ s = SubSeq(whole, 1, Len(s)) /\ (ended => Len(s) = Len(whole))

CatExact ==
  \A t \in Task :
    LET d == call[t]
        Cut(s) == SubSeq(s, 1, IF d.c.n = 0 \/ Len(s) < d.c.n THEN Len(s) ELSE d.c.n)
        SectorRefused == d.refused * SECTOR_SIZE .. d.refused * SECTOR_SIZE + SECTOR_SIZE - 1
    IN  /\ d.end = "error" =>
             /\ d.node.is = "device"
             /\ \/ "read" \notin DevioCaps(d.node.i)
                \/ /\ TypeOf(d.node) = "block" /\ Prefix(d.out, Cut(Content(d.node.i)), FALSE)
                   /\ Len(d.out) < Len(Cut(Content(d.node.i))) /\ Len(d.out) \in SectorRefused
        /\ d.c.cmd = "cat" /\ (d.pc = "read" \/ d.end = "ok") =>
             CASE d.node.is = "status" ->
                    \E e \in Esps : Prefix(d.out, Cut(StatusText(d.node.i, t, e)), d.pc = "done")
               [] TypeOf(d.node) = "block" -> Prefix(d.out, Cut(Content(d.node.i)), d.pc = "done")
               [] OTHER -> /\ \A k \in DOMAIN d.out : d.out[k] = "nl" => k = Len(d.out) /\ d.pc = "done"
                           /\ d.pc = "done" => d.out # <<>> /\ (d.out[Len(d.out)] = "nl" \/ Len(d.out) = d.c.n)

(* A command ends, and leaves no descriptor open for the next ones to miss    *)
(* (shell.c:546-548), unless it waits for a line of the keyboard: a device    *)
(* that cannot be read is refused, not waited for (devio.c:33-40).            *)
Waits(t) ==
  /\ call[t].pc = "read" /\ TypeOf(call[t].node) = "char"
  /\ "read" \in Entry(call[t].node.i).caps

CommandReturns ==
  \A t \in Task : call[t].pc # "idle" ~>
    \/ call[t].pc = "idle" /\ fds[t] = 0
    \/ Waits(t)

(* One name leads to the status of a task (procfs.c:82-86).                  *)
OneNamePerTask ==
  \A t, u \in Task :
    /\ call[t].pc = "read" /\ call[u].pc = "read"
    /\ call[t].c.fs = "status" /\ call[u].c.fs = "status"
    /\ call[t].node = call[u].node
    => call[t].c.name = call[u].c.name

=============================================================================
