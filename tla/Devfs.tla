------------------------------- MODULE Devfs -------------------------------
(***************************************************************************)
(* The registry of devices (kernel/dev.c), the two wrappers that drivers   *)
(* call and the filling of an inode (devio.c), and the pool of inodes that *)
(* devfs fills on demand (devfs.c), by several tasks at once.  A driver    *)
(* may register while tasks look: the pool is lazy for its sake.           *)
(***************************************************************************)
EXTENDS Naturals, Sequences

CONSTANTS
  Task,
  Drivers,           \* the registrations that may be asked for
  Boot,              \* those of the boot, accepted, in order
  DEV_MAX,           \* places of the registry
  DEV_NAME_MAX,      \* bytes of a name, its NUL included
  SECTOR_SIZE

(* A driver says by which call it registers, its name, its kind, its numbers, *)
(* what it stands on ("none" for a null impl), what it can do, how big it is. *)
Caps == SUBSET {"read", "write"}

ASSUME DevfsAssumption ==
  /\ DEV_MAX \in Nat /\ DEV_NAME_MAX \in Nat /\ SECTOR_SIZE \in Nat
  /\ Boot \in Seq(Drivers) /\ Len(Boot) <= DEV_MAX
  /\ \A i, j \in DOMAIN Boot : i # j =>
       Boot[i].name # Boot[j].name /\ <<Boot[i].major, Boot[i].minor>> # <<Boot[j].major, Boot[j].minor>>
  /\ \A d \in Drivers :
       /\ d.via \in {"chardev", "blockdev", "dev"} /\ d.kind \in {"char", "block", "other"}
       /\ d.major \in Nat /\ d.minor \in Nat /\ d.sectors \in Nat /\ d.caps \in Caps

VARIABLES
  entries,           \* the registry, in order of registration
  pool,              \* ino_devices: the inode of each place
  prep               \* the inode each task is filling, and its next store

devVars == <<entries, pool, prep>>

Places == 0 .. DEV_MAX - 1
Entry(i) == entries[i + 1]
DevCount == Len(entries)

DevById(major, minor) == \E i \in DOMAIN entries : entries[i].major = major /\ entries[i].minor = minor

(* The index of a name, or DEV_MAX for none. *)
DevLookupIndex(name) ==
  IF \E i \in DOMAIN entries : entries[i].name = name
    THEN (CHOOSE i \in DOMAIN entries : entries[i].name = name) - 1 ELSE DEV_MAX

(* chardev_register wants something it can do, blockdev_register a read;     *)
(* dev_register knows neither, and may be called directly.                   *)
WrapperAccepts(d) ==
  CASE d.via = "chardev" -> d.impl # "none" /\ d.caps # {}
    [] d.via = "blockdev" -> d.impl # "none" /\ "read" \in d.caps
    [] d.via = "dev" -> TRUE

DevAccepts(d) ==
  /\ ~DevById(d.major, d.minor) /\ DevCount < DEV_MAX /\ d.kind \in {"char", "block"}
  /\ Len(d.name) < DEV_NAME_MAX /\ d.name # <<>>
  /\ \A i \in DOMAIN entries : entries[i].name # d.name

(* devio_caps, which devs prints.                                            *)
DevioCaps(i) == IF Entry(i).impl = "none" THEN {} ELSE Entry(i).caps

DevRegister(d) ==
  /\ WrapperAccepts(d) /\ DevAccepts(d)
  /\ entries' = Append(entries, d)
  /\ UNCHANGED <<pool, prep>>

-----------------------------------------------------------------------------
(* devio_fill_inode fills all but the number, which prepara stores last. *)
Servable(i) == i < DevCount /\ Entry(i).impl # "none"

Fields == {"type", "ops", "size", "priv", "major", "minor", "ino"}
Unfilled == [f \in Fields |-> IF f \in {"type", "ops", "priv"} THEN "none" ELSE 0]

(* mistake: the number goes first. *)
InoFirst == <<"ino", "type", "ops", "size", "priv", "major", "minor">>

StoreOrder == <<"type", "ops", "size", "priv", "major", "minor", "ino">>

Filled(i) ==
  LET e == Entry(i)
  IN  [f \in Fields |->
         CASE f = "type" -> e.kind
           [] f = "ops" -> IF e.kind = "char" THEN "chr" ELSE "blk"
           [] f = "size" -> IF e.kind = "char" THEN 0 ELSE e.sectors * SECTOR_SIZE
           [] f = "priv" -> e.impl
           [] f = "major" -> e.major
           [] f = "minor" -> e.minor
           [] f = "ino" -> 3 + i]

Free(t) == prep[t].k = 0
Ready(i) == pool[i]["ino"] # 0

(* prepara, from its test to each of the stores. *)
PreparaBegin(t, i) ==
  /\ Free(t) /\ i \in Places /\ ~Ready(i) /\ Servable(i)
  /\ prep' = [prep EXCEPT ![t] = [i |-> i, k |-> 1]]
  /\ UNCHANGED <<entries, pool>>

PreparaStore(t) ==
  /\ ~Free(t)
  /\ LET i == prep[t].i f == StoreOrder[prep[t].k]
     IN  /\ pool' = [pool EXCEPT ![i] = [@ EXCEPT ![f] = Filled(i)[f]]]
         /\ prep' = [prep EXCEPT ![t] = [i |-> i, k |-> (prep[t].k + 1) % (Len(StoreOrder) + 1)]]
  /\ UNCHANGED entries

(* Booted: dev_init, the drivers of the boot, devfs_init. *)
DInit ==
  /\ entries = Boot
  /\ pool = [i \in Places |-> Unfilled]
  /\ prep = [t \in Task |-> [i |-> 0, k |-> 0]]

DNext ==
  \/ \E d \in Drivers : DevRegister(d)
  \/ \E t \in Task : (\E i \in Places : PreparaBegin(t, i)) \/ PreparaStore(t)

DSpec == DInit /\ [][DNext]_devVars

-----------------------------------------------------------------------------
(* An inode that lookup or readdir may hand out is whole, and says what the   *)
(* registry says: two tasks filling it together, with no lock, never show it  *)
(* half done (devfs.c:85-97).                                                 *)
InodeWhole == \A i \in Places : Ready(i) => i < DevCount /\ pool[i] = Filled(i)

(* One device under a name, one under a pair of numbers: of any kind.         *)
OneNamespace ==
  \A i, j \in DOMAIN entries : i # j =>
    /\ entries[i].name # entries[j].name
    /\ <<entries[i].major, entries[i].minor>> # <<entries[j].major, entries[j].minor>>

(* What is registered stays where it is, and an inode handed out never        *)
(* changes: pointers to both are kept (dev.c:46, devfs.c:113-137).            *)
PlacesAreStable ==
  [][/\ Len(entries') >= Len(entries) /\ \A i \in DOMAIN entries : entries'[i] = entries[i]
     /\ \A i \in Places : Ready(i) => pool'[i] = pool[i]]_devVars

=============================================================================
