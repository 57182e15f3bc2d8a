------------------------------ MODULE MinixFs ------------------------------
(***************************************************************************)
(* The writing half of kernel/minixfs.c: creating a name, writing a file,  *)
(* and everything under them down to one block written on the disk.  A     *)
(* call is a series of such writes; between two of them the machine may be *)
(* switched off, and each may fail, after having reached the disk or not.  *)
(* Calls do not overlap: the buffers are static and the shell is the only  *)
(* caller.                                                                 *)
(*                                                                         *)
(* A block holds PerBlock places of DIRENT_SIZE bytes, and files are       *)
(* written by whole places: a directory entry, or 16 bytes of a file.  A   *)
(* write of the code that changes some bytes of a block rewrites the       *)
(* others as it read them.                                                 *)
(***************************************************************************)
EXTENDS Integers, FiniteSets, FiniteSetsExt

CONSTANTS NInodes,        \* s_ninodes
          NZones,         \* s_nzones - s_firstdatazone
          MAX_INODES,     \* slots of the cache
          ZONE_DIRETTE, PTR_PER_BLOCCO, PerBlock,
          Names,          \* names given to new files and directories
          Offsets, Lengths,  \* of the writes of a file, in places
          MaxFaults,      \* bound on the reads and writes of a block that fail
          MaxCrashes      \* bound on the times the machine is switched off

Inodes == 1 .. NInodes
Zones  == 1 .. NZones
Slots  == 1 .. MAX_INODES
Root   == 1

ASSUME MinixAssumption ==
  /\ NInodes \in Nat \ {0} /\ NZones \in Nat \ {0} /\ MAX_INODES \in Nat \ {0}
  /\ ZONE_DIRETTE \in Nat \ {0} /\ PTR_PER_BLOCCO \in Nat \ {0}
  /\ PerBlock \in Nat \ {0, 1}
  /\ Offsets \subseteq Nat /\ Lengths \subseteq Nat \ {0}
  /\ MaxFaults \in Nat /\ MaxCrashes \in Nat

(* What 16 bytes may hold, with inode 0 when they are not an entry in use. *)
Entry(i, name) == [ino |-> i, name |-> name]
Empty == Entry(0, "none")
Bytes == Entry(0, "bytes")
Entries == [ino: 0 .. NInodes, name: Names \union {".", "..", "none", "bytes"}]

(* An inode, on the disk and in the cache: zone[0..6] and zone[7] of the   *)
(* code.  zone[8] is written by nobody and zero on the disks of the runs.  *)
NoZones == [n \in 0 .. ZONE_DIRETTE - 1 |-> 0]
Node(type, size, zone, ind, nlinks) ==
  [type |-> type, size |-> size, zone |-> zone, ind |-> ind, nlinks |-> nlinks]
Blank == Node("none", 0, NoZones, 0, 0)
MaxSize == (ZONE_DIRETTE + PTR_PER_BLOCCO) * PerBlock
Nodes == [type: {"none", "file", "dir"}, size: 0 .. MaxSize,
          zone: [0 .. ZONE_DIRETTE - 1 -> 0 .. NZones], ind: 0 .. NZones,
          nlinks: 0 .. NInodes + 1]

FreeSlot == [ino |-> 0, node |-> Blank]
Zeroes   == [p \in 0 .. PerBlock - 1 |-> Empty]
NoPtrs   == [p \in 0 .. PTR_PER_BLOCCO - 1 |-> 0]

VARIABLES
  disk,     \* the two bitmaps, the table of inodes, the zones; a zone is seen
            \* as places (data) and as pointers (ptr)
  cache,    \* MAX_INODES slots, free when ino is 0
  call,     \* where the call under way is, and its locals
  faults, crashes,
  made,     \* history: what calls of create that answered 0 have put on the disk
  lost,     \* history: zones taken and then not assigned to the file
  half      \* history: directories whose "." or ".." could not be written

vars  == <<disk, cache, call, faults, crashes, made, lost, half>>

-----------------------------------------------------------------------------
(* reading *)

(* zona_di: the zone of the n-th block of a file, 0 for a hole. *)
ZonaDi(d, m, n) ==
  IF n < ZONE_DIRETTE
    THEN m.zone[n]
    ELSE IF n - ZONE_DIRETTE < PTR_PER_BLOCCO /\ m.ind # 0
           THEN d.ptr[m.ind][n - ZONE_DIRETTE]
           ELSE 0

(* minix_read of one place: a hole is made of zeros. *)
ReadAt(d, m, off) ==
  LET z == ZonaDi(d, m, off \div PerBlock)
  IN IF z = 0 THEN Empty ELSE d.data[z][off % PerBlock]

(* The places of a directory that hold an entry in use. *)
InUse(d, m) == {off \in 0 .. m.size - 1 : ReadAt(d, m, off).ino # 0}
Named(d, m, name) == {off \in InUse(d, m) : ReadAt(d, m, off).name = name}

Cached(i)  == \E s \in Slots : cache[s].ino = i
FreeSlots  == {s \in Slots : cache[s].ino = 0}
FreeInodes == Inodes \ disk.imap
(* mistake: the bit after the last zone is taken for one of a zone. *)
FreeZonesPastEnd == (1 .. NZones + 1) \ disk.zmap
FreeZones == Zones \ disk.zmap

-----------------------------------------------------------------------------
(* the call under way *)

Idle == [at |-> "idle", what |-> "none", ok |-> TRUE, dir |-> 0, name |-> "none",
         type |-> "none", new |-> 0, bit |-> 0, slot |-> 0, off |-> 0, n |-> 0,
         done |-> 0, z |-> 0, ind |-> 0, indirect |-> FALSE]

Answer(ok) == [Idle EXCEPT !.ok = ok]

Target == cache[call.slot]
Logical == call.off \div PerBlock

(* dirent_inserisci, or minix_write for a file, answers. *)
Returned(ok) ==
  CASE call.what = "file"   -> Answer(ok)
    [] call.what = "entry"  -> IF ~ok THEN [call EXCEPT !.at = "undo"]
                               ELSE IF call.type = "file" THEN Answer(TRUE)
                               ELSE [call EXCEPT !.at = "insert", !.what = "dot"]
    [] call.what = "dot"    -> IF ~ok THEN Answer(FALSE)
                               ELSE [call EXCEPT !.at = "insert", !.what = "dotdot"]
    [] call.what = "dotdot" -> IF ~ok THEN Answer(FALSE)
                               ELSE [call EXCEPT !.at = "links"]

(* The end of minix_write, at the end of the loop or at a break. *)
Finished(off, done) ==
  IF done = 0 THEN Returned(FALSE)
  ELSE IF off > Target.node.size THEN [call EXCEPT !.at = "size", !.off = off]
  ELSE Returned(TRUE)
Break == Finished(call.off, call.done)

(* What a step of a call adds to the histories. *)
Assigning == call.z # 0 /\ (call.indirect \/ call.at = "assign")
Remember ==
  /\ UNCHANGED crashes
  /\ made' = IF call.at \in {"block", "data", "size", "links"} /\ call.what # "file"
                /\ call'.at = "idle" /\ call'.ok
               THEN made \union {<<cache[call.dir].ino,
                                   Entry(cache[call.new].ino, call.name)>>}
               ELSE made
  /\ lost' = IF Assigning /\ call'.at \notin {"zmap", "zero", "assign", "data"}
               THEN lost \union {call.z} ELSE lost
  /\ half' = IF call.what \in {"dot", "dotdot"} /\ call'.at = "idle" /\ ~call'.ok
               THEN half \union {cache[call.new].ino} ELSE half

(* A read of a block, or a write, fails. *)
Fault == faults < MaxFaults /\ faults' = faults + 1

(* blocco_leggi, a change of some of its bytes, blocco_scrivi.  The bytes  *)
(* changed lie in one sector wherever the old ones matter, so a write that *)
(* fails, or that the machine does not survive, has happened or has not.   *)
Rewrite(new, ok, failed) ==
  \/ disk' = new /\ ok /\ UNCHANGED faults
  \/ Fault /\ disk' \in {disk, new} /\ failed

Goes(c) == call' = c

(* inode_scrivi *)
WithNode(m) == [disk EXCEPT !.inode[Target.ino] = m]
Save(m, ok, failed) ==
  /\ cache' = [cache EXCEPT ![call.slot].node = m]
  /\ Rewrite(WithNode(m), Goes(ok), Goes(failed))
-----------------------------------------------------------------------------
(* minix_lookup and inode_carica *)

(* Finding a name puts its inode in the cache, if there is a slot and it   *)
(* is not there yet.  minix_create of a name that exists does this and     *)
(* answers -1.                                                             *)
Lookup(s, name) ==
  /\ call.at = "idle" /\ cache[s].node.type = "dir"
  /\ Named(disk, cache[s].node, name) # {}
  /\ LET i == ReadAt(disk, cache[s].node, Min(Named(disk, cache[s].node, name))).ino
     IN /\ ~Cached(i) /\ FreeSlots # {} /\ disk.inode[i].type # "none"
        /\ cache' = [cache EXCEPT ![Min(FreeSlots)] =
                                    [ino |-> i, node |-> disk.inode[i]]]
  /\ UNCHANGED <<disk, call, faults>> /\ Remember

(* minix_create, up to the allocation: the name must not be found.  It is  *)
(* not found either when a read fails, or the inode it names finds no slot.*)
(* mistake: the name is not looked up. *)
LookupFailsBlind(s, name) == UNCHANGED faults
LookupFails(s, name) ==
  LET found == Named(disk, cache[s].node, name)
  IN \/ found = {} /\ UNCHANGED faults
     \/ /\ found # {} /\ UNCHANGED faults
        /\ ~Cached(ReadAt(disk, cache[s].node, Min(found)).ino)
        /\ \/ FreeSlots = {}
           \/ disk.inode[ReadAt(disk, cache[s].node, Min(found)).ino].type = "none"
     \/ found # {} /\ Fault

Create(s, name, type) ==
  /\ call.at = "idle" /\ cache[s].node.type = "dir"
  /\ LookupFails(s, name)
  /\ Goes([Idle EXCEPT !.at = "imap", !.dir = s, !.name = name, !.type = type])
  /\ UNCHANGED <<disk, cache>> /\ Remember

-----------------------------------------------------------------------------
(* inode_alloca *)

(* The slot first, then the first free bit. *)
InodeFull ==
  /\ call.at = "imap" /\ (FreeSlots = {} \/ FreeInodes = {})
  /\ Goes(Answer(FALSE))
  /\ UNCHANGED <<disk, cache, faults>> /\ Remember

AccendiInode ==
  /\ call.at = "imap" /\ FreeSlots # {} /\ FreeInodes # {}
  /\ LET bit == Min(FreeInodes)
     IN Rewrite([disk EXCEPT !.imap = @ \union {bit}],
                Goes([call EXCEPT !.at = "erase", !.bit = bit]),
                Goes(Answer(FALSE)))
  /\ UNCHANGED cache /\ Remember

AzzeraInode ==
  /\ call.at = "erase"
  /\ Rewrite([disk EXCEPT !.inode[call.bit] = Blank],
             Goes([call EXCEPT !.at = "inode"]), Goes(Answer(FALSE)))
  /\ UNCHANGED cache /\ Remember

(* The slot is taken, and free again if the inode cannot be written. *)
(* mistake: a directory is born with the links of a file. *)
NewNodeOneLink(type) == Node(type, 0, NoZones, 0, 1)

NewNode(type) == Node(type, 0, NoZones, 0, IF type = "dir" THEN 2 ELSE 1)

ScriviNuovo ==
  /\ call.at = "inode"
  /\ LET s == Min(FreeSlots)
     IN Rewrite([disk EXCEPT !.inode[call.bit] = NewNode(call.type)],
                /\ cache' = [cache EXCEPT ![s] = [ino  |-> call.bit,
                                                  node |-> NewNode(call.type)]]
                /\ Goes([call EXCEPT !.at = "insert", !.what = "entry", !.new = s]),
                UNCHANGED cache /\ Goes(Answer(FALSE)))
  /\ Remember

-----------------------------------------------------------------------------
(* dirent_inserisci, and the end of minix_create *)

(* The entry being written, and the directory it goes in. *)
NewEntry ==
  CASE call.what = "entry"  -> Entry(cache[call.new].ino, call.name)
    [] call.what = "dot"    -> Entry(cache[call.new].ino, ".")
    [] call.what = "dotdot" -> Entry(cache[call.dir].ino, "..")
    [] call.what = "file"   -> Bytes
Where == IF call.what = "entry" THEN call.dir ELSE call.new

(* The first place not in use, or the end.                                 *)
Place(m) == Min(((0 .. m.size - 1) \ InUse(disk, m)) \union {m.size})

Writes(off) == [call EXCEPT !.at = "block", !.slot = Where, !.off = off,
                            !.n = 1, !.done = 0, !.z = 0]

(* A read of the indirect block that fails inside the search looks like a  *)
(* hole, and a hole like a place that is not in use; any other failure     *)
(* ends the call.                                                          *)
DirentInserisci ==
  /\ call.at = "insert"
  /\ LET m == cache[Where].node
     IN \/ Goes(Writes(Place(m))) /\ UNCHANGED faults
        \/ Goes(Returned(FALSE)) /\ Fault
        \/ /\ m.ind # 0 /\ Fault
           /\ \E off \in ZONE_DIRETTE * PerBlock .. Place(m) - 1 : Goes(Writes(off))
  /\ UNCHANGED <<disk, cache>> /\ Remember

(* The entry could not be written: the inode is given back. *)
Undo ==
  /\ call.at = "undo"
  /\ Rewrite([disk EXCEPT !.imap = @ \ {cache[call.new].ino}], TRUE, TRUE)
  /\ cache' = [cache EXCEPT ![call.new] = FreeSlot]
  /\ Goes(Answer(FALSE))
  /\ Remember

(* The ".." of a new directory is one link more for the one it is in. *)
(* mistake: the new count stays in the cache. *)
ParentLinksInCache ==
  /\ call.at = "links"
  /\ cache' = [cache EXCEPT ![call.dir].node.nlinks = @ + 1]
  /\ Goes(Answer(TRUE))
  /\ UNCHANGED <<disk, faults>> /\ Remember

ParentLinks ==
  /\ call.at = "links"
  /\ LET m == [cache[call.dir].node EXCEPT !.nlinks = @ + 1]
     IN /\ cache' = [cache EXCEPT ![call.dir].node = m]
        /\ Rewrite([disk EXCEPT !.inode[cache[call.dir].ino] = m],
                   Goes(Answer(TRUE)), Goes(Answer(FALSE)))
  /\ Remember

-----------------------------------------------------------------------------
(* minix_write; the VFS lets it be called on files only *)

WriteFile(s, off, n) ==
  /\ call.at = "idle" /\ cache[s].node.type = "file"
  /\ Goes([Idle EXCEPT !.at = "block", !.what = "file", !.slot = s, !.off = off,
                       !.n = n])
  /\ UNCHANGED <<disk, cache, faults>> /\ Remember

(* The zone of the next block.  The indirect block may be unreadable, and  *)
(* then it looks like a hole too.                                          *)
FindZone ==
  /\ call.at = "block"
  /\ LET z == ZonaDi(disk, Target.node, Logical)
         Alloca == [call EXCEPT !.at = "zmap", !.indirect = FALSE]
     IN \/ /\ UNCHANGED faults
           /\ Goes(IF z = 0 THEN Alloca ELSE [call EXCEPT !.at = "data", !.z = z])
        \/ /\ Fault /\ Logical >= ZONE_DIRETTE /\ Target.node.ind # 0
           /\ Logical < ZONE_DIRETTE + PTR_PER_BLOCCO
           /\ Goes(Alloca)
  /\ UNCHANGED <<disk, cache>> /\ Remember

(* zona_alloca, for a block of data or for the indirect block: no bit, ... *)
ZonesFull ==
  /\ call.at = "zmap" /\ FreeZones = {}
  /\ Goes(Break)
  /\ UNCHANGED <<disk, cache, faults>> /\ Remember

(* ... the bit, ... *)
(* mistake: the byte of the bitmap is assigned instead of or-ed. *)
AccendiZonaAlone ==
  /\ call.at = "zmap" /\ FreeZones # {}
  /\ LET z == Min(FreeZones)
         c == [call EXCEPT !.at = "zero"]
     IN Rewrite([disk EXCEPT !.zmap = {z}],
                Goes(IF call.indirect THEN [c EXCEPT !.ind = z] ELSE [c EXCEPT !.z = z]),
                Goes(Break))
  /\ UNCHANGED cache /\ Remember

AccendiZona ==
  /\ call.at = "zmap" /\ FreeZones # {}
  /\ LET z == Min(FreeZones)
         c == [call EXCEPT !.at = "zero"]
     IN Rewrite([disk EXCEPT !.zmap = @ \union {z}],
                Goes(IF call.indirect THEN [c EXCEPT !.ind = z] ELSE [c EXCEPT !.z = z]),
                Goes(Break))
  /\ UNCHANGED cache /\ Remember

(* ... and the zeros. *)
Allocated == IF call.indirect THEN call.ind ELSE call.z

(* mistake: the zone keeps what it held. *)
AzzeraZonaDirty ==
  /\ call.at = "zero" /\ Goes([call EXCEPT !.at = "assign"])
  /\ UNCHANGED <<disk, cache, faults>> /\ Remember

AzzeraZona ==
  /\ call.at = "zero"
  /\ Rewrite([disk EXCEPT !.data[Allocated] = Zeroes, !.ptr[Allocated] = NoPtrs],
             Goes([call EXCEPT !.at = "assign"]), Goes(Break))
  /\ UNCHANGED cache /\ Remember

(* zona_assegna: in the inode, ... *)
AssignDirect ==
  /\ call.at = "assign" /\ Logical < ZONE_DIRETTE
  /\ Save([Target.node EXCEPT !.zone[Logical] = call.z],
          [call EXCEPT !.at = "data"], Break)
  /\ Remember

(* ... in the indirect block, which the first time has to be allocated ... *)
InIndirect == Logical \in ZONE_DIRETTE .. ZONE_DIRETTE + PTR_PER_BLOCCO - 1

NeedIndirect ==
  /\ call.at = "assign" /\ InIndirect /\ Target.node.ind = 0 /\ ~call.indirect
  /\ Goes([call EXCEPT !.at = "zmap", !.indirect = TRUE])
  /\ UNCHANGED <<disk, cache, faults>> /\ Remember

AssignIndirectBlock ==
  /\ call.at = "assign" /\ call.indirect
  /\ Save([Target.node EXCEPT !.ind = call.ind],
          [call EXCEPT !.indirect = FALSE], Break)
  /\ Remember

AssignIndirect ==
  /\ call.at = "assign" /\ InIndirect /\ Target.node.ind # 0
  /\ Rewrite([disk EXCEPT !.ptr[Target.node.ind][Logical - ZONE_DIRETTE] = call.z],
             Goes([call EXCEPT !.at = "data"]), Goes(Break))
  /\ UNCHANGED cache /\ Remember

(* ... or nowhere. *)
TooFar ==
  /\ call.at = "assign" /\ Logical >= ZONE_DIRETTE + PTR_PER_BLOCCO
  /\ Goes(Break)
  /\ UNCHANGED <<disk, cache, faults>> /\ Remember

(* The part of the block that is asked for; then the next one. *)
Span == LET room == PerBlock - (call.off % PerBlock)
            left == call.n - call.done
        IN IF room < left THEN room ELSE left
(* mistake: the block is not read before it is written. *)
WrittenUnread(b) ==
  LET from == call.off % PerBlock
  IN [p \in DOMAIN b |-> IF p \in from .. from + Span - 1 THEN NewEntry ELSE Empty]

Written(b) ==
  LET from == call.off % PerBlock
  IN [p \in DOMAIN b |->
        IF p \in from .. from + Span - 1
         THEN NewEntry ELSE b[p]]

WriteBlock ==
  /\ call.at = "data"
  /\ LET off  == call.off + Span
         done == call.done + Span
     IN Rewrite([disk EXCEPT !.data[call.z] = Written(@)],
                Goes(IF done < call.n
                       THEN [call EXCEPT !.at = "block", !.off = off, !.done = done,
                                         !.z = 0]
                       ELSE Finished(off, done)),
                Goes(Break))
  /\ UNCHANGED cache /\ Remember

(* The size, only if it has grown. *)
(* mistake: the new size stays in the cache. *)
GrowInCache ==
  /\ call.at = "size"
  /\ cache' = [cache EXCEPT ![call.slot].node.size = call.off]
  /\ Goes(Returned(TRUE))
  /\ UNCHANGED <<disk, faults>> /\ Remember

Grow ==
  /\ call.at = "size"
  /\ Save([Target.node EXCEPT !.size = call.off], Returned(TRUE), Returned(FALSE))
  /\ Remember

-----------------------------------------------------------------------------
(* The machine is switched off between two writes.  What is mounted next   *)
(* is what was on the disk, with the root in the cache.                    *)
Mounted(d) == [s \in Slots |-> IF s = 1 THEN [ino |-> Root, node |-> d.inode[Root]]
                                        ELSE FreeSlot]
Crash ==
  /\ crashes < MaxCrashes /\ crashes' = crashes + 1
  /\ cache' = Mounted(disk) /\ Goes(Idle)
  /\ UNCHANGED <<disk, faults, made, lost, half>>

(* A disk fresh from mkfs, or one on which files were made and removed     *)
(* before: the root's third place, the inodes and the zones keep remains.  *)
Init ==
  /\ \E used \in BOOLEAN :
       LET root == Node("dir", IF used THEN 3 ELSE 2, [NoZones EXCEPT ![0] = 1], 0, 2)
           old  == Node("file", 1, [NoZones EXCEPT ![0] = 1], 1, 1)
       IN disk = [imap  |-> {Root}, zmap |-> {1},
                  inode |-> [i \in Inodes |-> IF i = Root THEN root
                                              ELSE IF used THEN old ELSE Blank],
                  data  |-> [z \in Zones |->
                               IF z = 1 THEN [Zeroes EXCEPT ![0] = Entry(Root, "."),
                                                            ![1] = Entry(Root, "..")]
                               ELSE IF used THEN [p \in DOMAIN Zeroes |-> Entry(Root, "..")]
                               ELSE Zeroes],
                  ptr   |-> [z \in Zones |-> IF used /\ z # 1
                                               THEN [p \in DOMAIN NoPtrs |-> 1]
                                               ELSE NoPtrs]]
  /\ cache = Mounted(disk) /\ call = Idle
  /\ faults = 0 /\ crashes = 0
  /\ made = {} /\ lost = {} /\ half = {}

CreateStep ==
  \/ InodeFull \/ AccendiInode \/ AzzeraInode \/ ScriviNuovo
  \/ DirentInserisci \/ Undo \/ ParentLinks
WriteStep ==
  \/ FindZone \/ ZonesFull \/ AccendiZona \/ AzzeraZona
  \/ AssignDirect \/ NeedIndirect \/ AssignIndirectBlock \/ AssignIndirect \/ TooFar
  \/ WriteBlock \/ Grow
Begin ==
  \/ \E s \in Slots, n \in Names :
       Lookup(s, n) \/ \E t \in {"file", "dir"} : Create(s, n, t)
  \/ \E s \in Slots, off \in Offsets, n \in Lengths : WriteFile(s, off, n)

Next == Begin \/ CreateStep \/ WriteStep \/ Crash

Spec == Init /\ [][Next]_vars

-----------------------------------------------------------------------------
(* properties *)

CallPlaces == {"idle", "imap", "erase", "inode", "insert", "undo", "links", "block",
               "zmap", "zero", "assign", "data", "size"}
CallKinds  == {"none", "file", "entry", "dot", "dotdot"}
OrNone(S)  == S \union {0}
Calls == [at: CallPlaces, what: CallKinds, ok: BOOLEAN,
          dir: OrNone(Slots), name: Names \union {"none"}, type: {"none", "file", "dir"},
          new: OrNone(Slots), bit: OrNone(Inodes), slot: OrNone(Slots),
          off: Nat, n: Nat, done: Nat, z: OrNone(Zones), ind: OrNone(Zones),
          indirect: BOOLEAN]

TypeOK ==
  /\ disk.imap \subseteq Inodes /\ disk.zmap \subseteq Zones
  /\ disk.inode \in [Inodes -> Nodes]
  /\ disk.data \in [Zones -> [0 .. PerBlock - 1 -> Entries]]
  /\ disk.ptr \in [Zones -> [0 .. PTR_PER_BLOCCO - 1 -> 0 .. NZones]]
  /\ cache \in [Slots -> [ino: 0 .. NInodes, node: Nodes]]
  /\ call \in Calls
  /\ faults \in 0 .. MaxFaults /\ crashes \in 0 .. MaxCrashes

Directories == {i \in disk.imap : disk.inode[i].type = "dir"}
EntriesOf(i) == InUse(disk, disk.inode[i])
EntryAt(i, off) == ReadAt(disk, disk.inode[i], off)

(* The inodes a directory of the disk names, and the root. *)
Live == {Root} \union UNION {{EntryAt(i, off).ino : off \in EntriesOf(i)} : i \in Directories}

(* The zones an inode holds, each with its place: its own pointers and the *)
(* indirect block (-1), then what that points to.                          *)
Holds(i, m) ==
  {r \in {<<i, n, m.zone[n]>> : n \in 0 .. ZONE_DIRETTE - 1}
         \union {<<i, -1, m.ind>>}
         \union (IF m.ind = 0 THEN {}
                 ELSE {<<i, ZONE_DIRETTE + k, disk.ptr[m.ind][k]>> :
                         k \in 0 .. PTR_PER_BLOCCO - 1}) : r[3] # 0}
References ==
  (UNION {Holds(i, disk.inode[i]) : i \in Live})
  \union (UNION {Holds(cache[s].ino, cache[s].node) : s \in {t \in Slots : cache[t].ino # 0}})

(* A zone belongs to one place of one inode, on the disk and in the cache, *)
(* whatever fails and whenever the machine is switched off: never do two   *)
(* files share a block, nor does one use another's data as pointers.       *)
NoZoneShared ==
  \A r, q \in References : r[3] = q[3] => r[1] = q[1] /\ r[2] = q[2]

(* And the bitmap knows: no zone in use can be handed out again. *)
ReferencedIsMarked == \A r \in References : r[3] \in disk.zmap

(* Switching the machine off at any moment leaves, of a call under way,    *)
(* nothing worse than bits without an owner: every entry on the disk names *)
(* an inode that is there, marked, and named by no other; and no directory *)
(* has a name twice, though minix_create takes a lookup that found no slot *)
(* in the cache for a name that is not there.                              *)
EntriesSound ==
  faults = 0 =>
    \A i \in Directories : \A off \in EntriesOf(i) :
      LET e == EntryAt(i, off)
      IN /\ e.ino \in disk.imap /\ disk.inode[e.ino].type # "none"
         /\ \A j \in Directories : \A o \in EntriesOf(j) :
              <<i, off>> # <<j, o>> =>
                /\ i = j => EntryAt(j, o).name # e.name
                /\ e.name \notin {".", ".."} /\ EntryAt(j, o).name \notin {".", ".."}
                     => EntryAt(j, o).ino # e.ino

(* What a create that answered 0 has put on the disk is there for good. *)
CreatedSurvives ==
  faults = 0 =>
    \A m \in made : \E off \in EntriesOf(m[1]) : EntryAt(m[1], off) = m[2]

(* Between two calls the disk says what the cache says, so that nothing is *)
(* missing after the next mount; and no inode is in the cache twice.       *)
CachedIsSaved ==
  faults = 0 /\ call.at = "idle" =>
    /\ \A s \in Slots : cache[s].ino # 0 => cache[s].node = disk.inode[cache[s].ino]
    /\ \A s, t \in Slots : cache[s].ino = cache[t].ino /\ cache[s].ino # 0 => s = t

(* Between two calls fsck would find nothing to say but of the zones and   *)
(* directories of calls that ran out of space half way: every bit has an   *)
(* owner, and every inode as many links as names.                          *)
Accounted ==
  faults = 0 /\ crashes = 0 /\ call.at = "idle" =>
    /\ disk.imap = Live
    /\ disk.zmap = {r[3] : r \in References} \union lost
    /\ \A i \in Live :
         disk.inode[i].nlinks =
           Cardinality({x \in Directories \X (0 .. MaxSize - 1) :
                          x[2] \in EntriesOf(x[1]) /\ EntryAt(x[1], x[2]).ino = i})
           + (IF i \in half THEN 1 ELSE 0)

(* The zones are safe whatever fails and whenever the machine stops: each is *)
(* one place's, and taken while it is in use (minixfs.c:599-708, 959-1055).  *)
ZonesSound == TypeOK /\ NoZoneShared /\ ReferencedIsMarked

(* The tree of names is whole: each entry leads to a live inode of its own,  *)
(* and fsck finds an owner for every bit (minixfs.c:863-941).                *)
TreeSound == EntriesSound /\ Accounted

(* What create has answered for is on the disk and not in the cache alone    *)
(* (minixfs.c:452-473, 909-940).                                             *)
CreatedIsSaved == CreatedSurvives /\ CachedIsSaved

(* Seen through the cache, a file changes only where it is being written:  *)
(* a zone newly assigned reads as the hole it fills, a write in the middle *)
(* of a block leaves the rest of it alone, and no other file notices.      *)
BeingWritten(s, p) ==
  /\ call.at = "data" /\ s = call.slot /\ p \div PerBlock = Logical
  /\ p \in call.off .. call.off + call.n - call.done - 1
OnlyTargetChanges ==
  [][faults' = 0 /\ crashes' = crashes =>
       \A s \in Slots : cache[s].ino # 0 /\ cache'[s].ino # 0 =>
         \A p \in 0 .. MaxSize - 1 :
           ReadAt(disk', cache'[s].node, p) =
             IF BeingWritten(s, p) THEN NewEntry
                                   ELSE ReadAt(disk, cache[s].node, p)]_vars

(* The comment at minixfs.c:906: when something fails after the inode has  *)
(* been allocated, a full disk above all, the inode is given back.         *)
FailedCreateGivesBack ==
  faults = 0 /\ crashes = 0 /\ call.at = "idle" =>
    \A i \in Directories : Named(disk, disk.inode[i], ".") # {}
=============================================================================
