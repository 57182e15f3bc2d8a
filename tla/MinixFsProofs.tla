--------------------------- MODULE MinixFsProofs ----------------------------
(***************************************************************************)
(* For disks, caches and calls of any size, and any number of failed reads *)
(* and writes and of crashes: the zones of the minix filesystem are each   *)
(* one place's, and marked while in use.  And while no read or write       *)
(* fails, however often the machine is switched off, the tree of names is  *)
(* whole, what a create has answered for is on the disk, and a file reads  *)
(* otherwise only where it is written.  If the machine stays on as well,   *)
(* every bit has an owner and every inode as many links as names.          *)
(***************************************************************************)
EXTENDS MinixFs, FiniteSetTheorems, WellFoundedInduction, TLAPS

(* The places of an inode that hold a zone: -1 is the indirect block.        *)
PlaceNos == -1 .. ZONE_DIRETTE + PTR_PER_BLOCCO - 1

PlaceHolds(ptr, m, n, z) ==
  /\ z # 0
  /\ \/ n \in 0 .. ZONE_DIRETTE - 1 /\ m.zone[n] = z
     \/ n = -1 /\ m.ind = z
     \/ /\ n \in ZONE_DIRETTE .. ZONE_DIRETTE + PTR_PER_BLOCCO - 1
        /\ m.ind # 0 /\ ptr[m.ind][n - ZONE_DIRETTE] = z

(* The inodes a call can still come to: more than Live, and what is written  *)
(* anywhere on the disk counts, whether it is part of a directory or not.    *)
Known ==
  ({Root} \union {disk.data[z][p].ino : z \in Zones, p \in 0 .. PerBlock - 1}
          \union {cache[s].ino : s \in Slots} \union {m[1] : m \in made}) \cap Inodes

(* What is said of them, on the disk and in the cache.                       *)
Copies ==
  {<<i, disk.inode[i]>> : i \in Known}
  \union {<<cache[s].ino, cache[s].node>> : s \in {t \in Slots : cache[t].ino # 0}}

Refs ==
  {r \in Inodes \X PlaceNos \X Zones :
     \E c \in Copies : c[1] = r[1] /\ PlaceHolds(disk.ptr, c[2], r[2], r[3])}

Owned  == \A r, q \in Refs : r[3] = q[3] => r[1] = q[1] /\ r[2] = q[2]
Marked == \A r \in Refs : r[3] \in disk.zmap

(* Taken, and nobody's yet.                                                  *)
Fresh(z) == z \in disk.zmap /\ \A r \in Refs : r[3] # z

InFlight ==
  /\ call.at \in {"zero", "assign"} \/ (call.at = "zmap" /\ call.indirect) => Fresh(call.z)
     \* of an indirect block being allocated, z is the zone that waits for it
  /\ call.at \in {"zero", "assign"} /\ call.indirect =>
       /\ Fresh(call.ind) /\ call.ind # call.z
       /\ call.at = "assign" => disk.ptr[call.ind] = NoPtrs

-----------------------------------------------------------------------------
(* The shape of the state: types, and what each phase of a call has set.     *)

Entering == {"entry", "dot", "dotdot"}
Writing  == {"block", "zmap", "zero", "assign", "data", "size"}

Disks == [imap : SUBSET Inodes, zmap : SUBSET Zones, inode : [Inodes -> Nodes],
          data : [Zones -> [0 .. PerBlock - 1 -> Entries]],
          ptr : [Zones -> [0 .. PTR_PER_BLOCCO - 1 -> 0 .. NZones]]]

(* What each phase of a call has set, and how far a write has come.           *)
CallOK(c) ==
  /\ c \in Calls
  /\ c.at = "idle" => c.what = "none"
  /\ c.at \in {"imap", "erase", "inode"} => c.what = "none" /\ c.dir \in Slots
  /\ c.at \in {"erase", "inode"} => c.bit \in Inodes
  /\ c.at \in {"insert", "undo", "links"} => c.what \in Entering
  /\ c.at \in Writing => c.what \in Entering \union {"file"} /\ c.slot \in Slots
  /\ c.what \in Entering => c.dir \in Slots /\ c.new \in Slots
  /\ c.at \in {"zero", "assign", "data"} => c.z \in Zones
  /\ c.at = "zmap" /\ c.indirect => c.z \in Zones
  /\ c.at \in {"zero", "assign"} /\ c.indirect => c.ind \in Zones
  /\ c.done <= c.n
  /\ c.at \in Writing /\ c.done > 0 => c.off <= MaxSize
  /\ c.at = "size" => c.off <= MaxSize
  /\ c.at = "data" => c.off \div PerBlock < ZONE_DIRETTE + PTR_PER_BLOCCO

(* A slot in use by a call is taken, and a free one holds no file.           *)
SlotsOK ==
  /\ \A s \in Slots : cache[s].ino = 0 => cache[s].node.type = "none"
  /\ call.at \in Writing => Target.ino # 0
  /\ call.at \in {"imap", "erase", "inode"} \/ call.what \in Entering => cache[call.dir].ino # 0
  /\ call.what \in Entering => cache[call.new].ino # 0

MTypes ==
  /\ disk \in Disks
  /\ cache \in [Slots -> [ino : 0 .. NInodes, node : Nodes]]
  /\ CallOK(call)
  /\ call.at \in {"erase", "inode"} => FreeSlots # {}
  /\ faults \in 0 .. MaxFaults /\ crashes \in 0 .. MaxCrashes

(* A directory is linked once by each of the inodes taken, the one of the    *)
(* call under way excepted, and twice at birth.                              *)
Creating == call.at \in {"erase", "inode"} \/ call.what \in Entering
LinksMax == Cardinality(disk.imap) + (IF Creating THEN 0 ELSE 1)
LinksBound ==
  /\ LinksMax >= 2
  /\ \A i \in Inodes : disk.inode[i].nlinks <= LinksMax
  /\ \A s \in Slots : cache[s].node.nlinks <= LinksMax

ZInv ==
  /\ MTypes /\ SlotsOK /\ LinksBound
  /\ Owned /\ Marked /\ InFlight
-----------------------------------------------------------------------------
(* A non-empty set of numbers has a least one. *)
LEMMA MinExists ==
  ASSUME NEW S \in SUBSET Nat, S # {}
  PROVE  Min(S) \in S /\ \A k \in S : Min(S) <= k
<1> DEFINE Below(k) == {j \in S : j < k}
           T == {Below(k) : k \in S}
<1>1. T \subseteq FiniteSubsetsOf(Nat) /\ T # {}
  <2>1. ASSUME NEW k \in S PROVE IsFiniteSet(Below(k))
    <3>1. k \in Nat /\ \A j \in S : j \in Nat
      OBVIOUS
    <3>2. Below(k) \in SUBSET (0 .. k)
      <4>1. ASSUME NEW j \in Below(k) PROVE j \in 0 .. k
        <5>1. j \in Nat /\ j < k
          BY <3>1, <4>1
        <5>2. QED
          BY <3>1, <5>1
      <4> HIDE DEF Below
      <4>2. QED
        BY <4>1
    <3>3. IsFiniteSet(0 .. k)
      BY <3>1, FS_Interval
    <3> HIDE DEF Below
    <3>4. QED
      BY <3>2, <3>3, FS_Subset
  <2>2. QED
    BY <2>1 DEF FiniteSubsetsOf
<1>2. PICK B \in T : \A C \in T : ~(<<C, B>> \in StrictSubsetOrdering(Nat))
  <2> HIDE DEF T
  <2>1. QED
    BY <1>1, FS_StrictSubsetOrderingWellFounded, WFMin
<1>3. PICK m \in S : B = Below(m)
  OBVIOUS
<1>4. ASSUME NEW k \in S, k < m PROVE FALSE
  <2>0. k \in Nat /\ m \in Nat /\ \A j \in S : j \in Nat
    OBVIOUS
  <2>1. Below(k) \subseteq Below(m) /\ k \in Below(m) /\ k \notin Below(k)
    <3>1. ASSUME NEW j \in Below(k) PROVE j \in Below(m)
      <4>1. j \in S /\ j \in Nat /\ j < k
        BY <2>0, <3>1
      <4>2. QED
        BY <1>4, <2>0, <4>1
    <3>2. k \in Below(m) /\ k \notin Below(k)
      BY <1>4, <2>0
    <3> HIDE DEF Below
    <3>3. QED
      BY <3>1, <3>2
  <2>2. <<Below(k), B>> \in StrictSubsetOrdering(Nat)
    BY <1>3, <2>1 DEF StrictSubsetOrdering
  <2>3. QED
    BY <1>2, <2>2
<1>5. m \in S /\ \A k \in S : m <= k
  BY <1>4
<1>6. QED
  BY <1>5 DEF Min

(* The constants as the arithmetic needs them.                               *)
LEMMA Numbers ==
  /\ NInodes \in Nat /\ NInodes > 0 /\ NZones \in Nat /\ NZones > 0
  /\ ZONE_DIRETTE \in Nat /\ ZONE_DIRETTE > 0 /\ PTR_PER_BLOCCO \in Nat /\ PTR_PER_BLOCCO > 0
  /\ PerBlock \in Nat /\ PerBlock > 1 /\ MAX_INODES \in Nat /\ MAX_INODES > 0
  /\ Root \in Inodes /\ Offsets \subseteq Nat /\ Lengths \subseteq Nat \ {0}
  /\ MaxFaults \in Nat /\ MaxCrashes \in Nat
  /\ MaxSize \in Nat
  BY MinixAssumption DEF Root, Inodes, MaxSize

(* A place of a file and the block it is in.                                 *)
LEMMA DivMod ==
  ASSUME NEW a \in Nat
  PROVE  /\ a \div PerBlock \in Nat /\ a % PerBlock \in 0 .. PerBlock - 1
         /\ a = PerBlock * (a \div PerBlock) + (a % PerBlock)
  BY Numbers, SMTT(30)

(* The end of a block that is not past the last one.                         *)
LEMMA BlockEnd ==
  ASSUME NEW a \in Nat, a \div PerBlock < ZONE_DIRETTE + PTR_PER_BLOCCO
  PROVE  a + (PerBlock - (a % PerBlock)) <= MaxSize
  <1> DEFINE q == a \div PerBlock
             r == a % PerBlock
             n == ZONE_DIRETTE + PTR_PER_BLOCCO
  <1>1. q \in Nat /\ r \in 0 .. PerBlock - 1 /\ a = PerBlock * q + r /\ q < n /\ n \in Nat
    BY DivMod, Numbers
  <1> HIDE DEF q, r, n
  <1>2. PerBlock * q + PerBlock = (q + 1) * PerBlock
    BY <1>1, Numbers, SMTT(30)
  <1>3. (q + 1) * PerBlock <= n * PerBlock
    BY <1>1, Numbers, SMTT(30)
  <1>4. a + (PerBlock - r) = (q + 1) * PerBlock
    BY <1>1, <1>2, Numbers
  <1>5. MaxSize = n * PerBlock
    BY DEF MaxSize, n
  <1> QED
    BY <1>3, <1>4, <1>5 DEF r

-----------------------------------------------------------------------------
(* What the model's operators return. *)

LEMMA ZonaDiType ==
  ASSUME disk \in Disks, NEW m \in Nodes, NEW n \in Nat
  PROVE  ZonaDi(disk, m, n) \in 0 .. NZones
  <1>1. CASE n < ZONE_DIRETTE
    BY <1>1, Numbers DEF ZonaDi, Nodes
  <1>2. CASE ~(n < ZONE_DIRETTE) /\ n - ZONE_DIRETTE < PTR_PER_BLOCCO /\ m.ind # 0
    <2>1. n - ZONE_DIRETTE \in 0 .. PTR_PER_BLOCCO - 1 /\ m.ind \in Zones
      BY <1>2, Numbers DEF Nodes, Zones
    <2> QED
      BY <1>2, <2>1, Numbers DEF ZonaDi, Disks
  <1>3. CASE ~(n < ZONE_DIRETTE) /\ ~(n - ZONE_DIRETTE < PTR_PER_BLOCCO /\ m.ind # 0)
    BY <1>3, Numbers DEF ZonaDi
  <1> QED
    BY <1>1, <1>2, <1>3

LEMMA EntryTypes ==
  /\ \A e \in Entries : e.ino \in 0 .. NInodes
  /\ \A i \in 0 .. NInodes, n \in Names \union {".", "..", "none", "bytes"} :
       Entry(i, n) \in Entries /\ Entry(i, n).ino = i /\ Entry(i, n).name = n
  /\ Empty \in Entries /\ Empty.ino = 0 /\ Bytes \in Entries /\ Bytes.ino = 0
  <1>1. \A i, n : Entry(i, n).ino = i /\ Entry(i, n).name = n
    BY DEF Entry
  <1>2. \A i \in 0 .. NInodes, n \in Names \union {".", "..", "none", "bytes"} : Entry(i, n) \in Entries
    BY DEF Entries, Entry
  <1>3. \A e \in Entries : e.ino \in 0 .. NInodes
    BY DEF Entries
  <1>4. 0 \in 0 .. NInodes
    BY Numbers
  <1> QED
    BY <1>1, <1>2, <1>3, <1>4 DEF Empty, Bytes

(* A place read is empty or one of the disk's.                               *)
LEMMA ReadAtType ==
  ASSUME disk \in Disks, NEW m \in Nodes, NEW off \in Nat
  PROVE  /\ off \div PerBlock \in Nat /\ off % PerBlock \in 0 .. PerBlock - 1
         /\ \/ ReadAt(disk, m, off) = Empty
            \/ \E z \in Zones : ReadAt(disk, m, off) = disk.data[z][off % PerBlock]
         /\ ReadAt(disk, m, off).ino \in 0 .. NInodes
  <1>1. off \div PerBlock \in Nat /\ off % PerBlock \in 0 .. PerBlock - 1
    BY DivMod
  <1> DEFINE z == ZonaDi(disk, m, off \div PerBlock)
  <1>2. z \in 0 .. NZones
    BY <1>1, ZonaDiType
  <1>3. ReadAt(disk, m, off) = IF z = 0 THEN Empty ELSE disk.data[z][off % PerBlock]
    BY DEF ReadAt
  <1> HIDE DEF z
  <1>4. CASE z = 0
    <2> QED
      BY <1>1, <1>3, <1>4, EntryTypes, Numbers
  <1>5. CASE z \in Zones
    <2>1. disk.data[z][off % PerBlock] \in Entries
      BY <1>1, <1>5 DEF Disks
    <2>2. disk.data[z][off % PerBlock].ino \in 0 .. NInodes
      BY <2>1, EntryTypes
    <2>3. z # 0
      BY <1>5, Numbers DEF Zones
    <2> QED
      BY <1>1, <1>3, <1>5, <2>2, <2>3
  <1> QED
    BY <1>2, <1>4, <1>5, Numbers DEF Zones

(* dirent_inserisci looks no further than the end of the directory, and finds *)
(* a place that is not in use.                                               *)
LEMMA PlaceType ==
  ASSUME NEW m \in Nodes
  PROVE  Place(m) \in 0 .. m.size /\ Place(m) \notin InUse(disk, m)
  <1> DEFINE S == ((0 .. m.size - 1) \ InUse(disk, m)) \union {m.size}
  <1>1. m.size \in Nat
    BY Numbers DEF Nodes
  <1>2. S \in SUBSET Nat /\ S # {} /\ m.size \in S
    BY <1>1
  <1>3. Min(S) \in S /\ Min(S) <= m.size
    BY <1>2, MinExists
  <1>4. \A k \in InUse(disk, m) : k < m.size
    BY <1>1 DEF InUse
  <1>5. \A k \in S : k \in 0 .. m.size /\ k \notin InUse(disk, m)
    BY <1>1, <1>4
  <1> HIDE DEF S
  <1>6. Min(S) \in 0 .. m.size /\ Min(S) \notin InUse(disk, m)
    BY <1>3, <1>5
  <1> QED
    BY <1>6 DEF Place, S

LEMMA SpanType ==
  ASSUME CallOK(call)
  PROVE  /\ Span \in Nat /\ call.done + Span \in Nat /\ call.done + Span <= call.n
         /\ call.off + Span \in Nat
         /\ call.at = "data" => call.off + Span <= MaxSize
         /\ call.done < call.n => Span > 0
  <1>1. call.off \in Nat /\ call.n \in Nat /\ call.done \in Nat /\ call.done <= call.n
    BY DEF CallOK, Calls
  <1> DEFINE r == call.off % PerBlock
             room == PerBlock - r
             left == call.n - call.done
  <1>2. r \in 0 .. PerBlock - 1
    BY <1>1, DivMod
  <1>3. room \in Nat /\ room > 0 /\ left \in Nat
    BY <1>1, <1>2, Numbers
  <1>4. Span = IF room < left THEN room ELSE left
    BY DEF Span
  <1>5. call.at = "data" => call.off + room <= MaxSize
    BY <1>1, BlockEnd DEF CallOK
  <1> HIDE DEF room, r
  <1> QED
    BY <1>1, <1>3, <1>4, <1>5, Numbers

(* The values a call takes.  Their sets stay folded in the proofs: with them   *)
(* open the prover loses its way in a record of fifteen fields.              *)
LEMMA CallValues ==
  /\ \A S : 0 \in OrNone(S) /\ \A x \in S : x \in OrNone(S)
  /\ Entering \subseteq CallKinds /\ Writing \subseteq CallPlaces
  /\ CallKinds = {"none", "file", "entry", "dot", "dotdot"}
  /\ {"idle", "imap", "erase", "inode", "insert", "undo", "links"} \subseteq CallPlaces
  /\ Entering = {"entry", "dot", "dotdot"}
  /\ Writing = {"block", "zmap", "zero", "assign", "data", "size"}
  BY DEF OrNone, CallKinds, CallPlaces, Entering, Writing

LEMMA IdleOK ==
  ASSUME NEW c \in Calls, c.at = "idle", c.what = "none", c.done = 0, c.n = 0
  PROVE  CallOK(c)
  <1>1. c.at \notin Writing /\ c.what \notin Entering /\ c.n \in Nat /\ c.done \in Nat
    BY DEF Writing, Entering, Calls
  <1>2. c.done <= c.n
    OBVIOUS
  <1> QED
    BY <1>1, <1>2 DEF CallOK

LEMMA AnswerOK ==
  ASSUME NEW ok \in BOOLEAN
  PROVE  CallOK(Answer(ok)) /\ Answer(ok).at = "idle" /\ Answer(ok).what = "none" /\ Answer(ok).ok = ok
  <1>1. Idle \in Calls
    BY CallValues DEF Idle, Calls
  <1>2. Idle.at = "idle" /\ Idle.what = "none" /\ Idle.n = 0 /\ Idle.done = 0
    BY DEF Idle
  <1>3. /\ Answer(ok) \in Calls /\ Answer(ok).at = "idle" /\ Answer(ok).what = "none"
        /\ Answer(ok).n = 0 /\ Answer(ok).done = 0 /\ Answer(ok).ok = ok
    BY <1>1, <1>2 DEF Answer, Calls
  <1> QED
    BY <1>3, IdleOK

(* What the next state of a call keeps of the one it is in.                  *)
Continues(c) ==
  /\ CallOK(c)
  /\ c.what \in Entering => call.what \in Entering /\ c.dir = call.dir /\ c.new = call.new
  /\ c.at \in Writing => \/ call.at \in Writing /\ c.slot = call.slot
                         \/ c.what \in Entering /\ c.slot \in {c.dir, c.new}

(* A call answers, or goes on with the next entry, or gives the inode back.  *)
LEMMA ReturnedOK ==
  ASSUME CallOK(call), call.at \in Writing \union {"insert"}, NEW ok \in BOOLEAN
  PROVE  /\ Continues(Returned(ok))
         /\ Returned(ok).at \in {"idle", "undo", "insert", "links"}
  <1>1. call \in Calls /\ call.what \in Entering \union {"file"}
    BY DEF CallOK, Entering
  <1>2. ASSUME NEW a \in {"undo", "insert", "links"}, NEW w \in Entering, call.what \in Entering
        PROVE  LET c == [call EXCEPT !.at = a, !.what = w]
               IN  Continues(c) /\ c.at = a
    <2> DEFINE c == [call EXCEPT !.at = a, !.what = w]
    <2>1. a \in CallPlaces /\ w \in CallKinds
      BY CallValues
    <2>2. /\ c \in Calls /\ c.at = a /\ c.what = w /\ c.dir = call.dir /\ c.new = call.new
          /\ c.n = call.n /\ c.done = call.done
      BY <1>1, <2>1 DEF Calls
    <2> HIDE DEF c
    <2>3. Continues(c) /\ c.at = a
      BY <1>2, <2>2 DEF CallOK, Continues, Writing
    <2> QED
      BY <2>3 DEF c
  <1>3. ASSUME NEW a \in {"undo", "insert", "links"}, call.what \in Entering
        PROVE  LET c == [call EXCEPT !.at = a]
               IN  Continues(c) /\ c.at = a
    <2> DEFINE c == [call EXCEPT !.at = a]
    <2>1. a \in CallPlaces
      BY CallValues
    <2>2. /\ c \in Calls /\ c.at = a /\ c.what = call.what /\ c.dir = call.dir
          /\ c.new = call.new /\ c.n = call.n /\ c.done = call.done
      BY <1>1, <2>1 DEF Calls
    <2> HIDE DEF c
    <2>3. Continues(c) /\ c.at = a
      BY <1>3, <2>2 DEF CallOK, Continues, Writing
    <2> QED
      BY <2>3 DEF c
  <1>0. \A b \in BOOLEAN : Continues(Answer(b)) /\ Answer(b).at = "idle"
    BY AnswerOK DEF Continues, Writing, Entering
  <1>4. CASE call.what = "file"
    BY <1>0, <1>4 DEF Returned
  <1>5. CASE call.what = "entry"
    BY <1>0, <1>2, <1>3, <1>5 DEF Returned, Entering
  <1>6. CASE call.what = "dot"
    BY <1>0, <1>2, <1>3, <1>6 DEF Returned, Entering
  <1>7. CASE call.what = "dotdot"
    BY <1>0, <1>2, <1>3, <1>7 DEF Returned, Entering
  <1> QED
    BY <1>1, <1>4, <1>5, <1>6, <1>7 DEF Entering

(* The end of minix_write: with the size still to be grown, or an answer.    *)
LEMMA FinishedOK ==
  ASSUME CallOK(call), call.at \in Writing, NEW off \in Nat, NEW done \in Nat,
         done > 0 => off <= MaxSize
  PROVE  /\ Continues(Finished(off, done))
         /\ Finished(off, done).at \in {"idle", "undo", "insert", "links", "size"}
  <1>1. CASE done = 0 \/ ~(off > Target.node.size)
    BY <1>1, ReturnedOK DEF Finished
  <1>2. CASE done # 0 /\ off > Target.node.size
    <2> DEFINE c == [call EXCEPT !.at = "size", !.off = off]
    <2>1. call \in Calls /\ "size" \in CallPlaces
      BY CallValues DEF CallOK
    <2>2. /\ c \in Calls /\ c.at = "size" /\ c.what = call.what /\ c.dir = call.dir
          /\ c.new = call.new /\ c.n = call.n /\ c.done = call.done /\ c.off = off
          /\ c.slot = call.slot
      BY <2>1 DEF Calls
    <2> HIDE DEF c
    <2>a. off <= MaxSize
      BY <1>2, Numbers
    <2>0. /\ off <= MaxSize /\ call.slot \in Slots /\ call.what \in Entering \union {"file"}
          /\ call.what \in Entering => call.dir \in Slots /\ call.new \in Slots
          /\ call.done <= call.n
      BY <2>a DEF CallOK
    <2>3. Continues(c) /\ c.at = "size"
      BY <2>0, <2>2 DEF CallOK, Continues
    <2>4. Finished(off, done) = c
      BY <1>2 DEF Finished, c
    <2> QED
      BY <2>3, <2>4
  <1> QED
    BY <1>1, <1>2

LEMMA BreakOK ==
  ASSUME CallOK(call), call.at \in Writing
  PROVE  /\ Continues(Break)
         /\ Break.at \in {"idle", "undo", "insert", "links", "size"}
  <1>1. /\ call.off \in Nat /\ call.done \in Nat
        /\ call.done > 0 => call.off <= MaxSize
    BY DEF CallOK, Calls
  <1> QED
    BY <1>1, FinishedOK DEF Break

-----------------------------------------------------------------------------
(* Who holds which zone, from one state to the next. *)

(* No zone changes hands: what was owned, marked or nobody's still is.       *)
LEMMA RefsShrink ==
  ASSUME Owned, Marked, Refs' \subseteq Refs, disk.zmap \subseteq disk'.zmap
  PROVE  Owned' /\ Marked' /\ \A z \in Zones : Fresh(z) => Fresh(z)'
  <1>1. Owned' /\ Marked'
    BY DEF Owned, Marked
  <1>2. ASSUME NEW z \in Zones, Fresh(z) PROVE Fresh(z)'
    BY <1>2 DEF Fresh
  <1> QED
    BY <1>1, <1>2

(* A zone that was nobody's becomes one place's.                             *)
LEMMA RefsGrow ==
  ASSUME Owned, Marked, NEW i, NEW n, NEW a \in Zones, Fresh(a),
         Refs' \subseteq Refs \union {<<i, n, a>>}, disk.zmap \subseteq disk'.zmap
  PROVE  Owned' /\ Marked' /\ \A z \in Zones : z # a /\ Fresh(z) => Fresh(z)'
  <1>1. \A r \in Refs' : r \in Refs \/ r = <<i, n, a>>
    OBVIOUS
  <1>2. \A r \in Refs : r[3] # a
    BY DEF Fresh
  <1>3. ASSUME NEW r \in Refs', NEW q \in Refs', r[3] = q[3]
        PROVE  r[1] = q[1] /\ r[2] = q[2]
    BY <1>1, <1>2, <1>3 DEF Owned
  <1>4. \A r \in Refs' : r[3] \in disk'.zmap
    BY <1>1 DEF Marked, Fresh
  <1>5. ASSUME NEW z \in Zones, z # a, Fresh(z) PROVE Fresh(z)'
    BY <1>1, <1>5 DEF Fresh
  <1> QED
    BY <1>3, <1>4, <1>5 DEF Owned, Marked

LEMMA CopiesType ==
  ASSUME MTypes
  PROVE  /\ \A c \in Copies : c[1] \in Inodes /\ c[2] \in Nodes
         /\ \A i \in Known : <<i, disk.inode[i]>> \in Copies
         /\ \A s \in Slots : cache[s].ino # 0 =>
              cache[s].ino \in Known /\ <<cache[s].ino, cache[s].node>> \in Copies
  <1>1. \A s \in Slots : cache[s].ino # 0 => cache[s].ino \in Inodes /\ cache[s].node \in Nodes
    BY Numbers DEF MTypes, Inodes
  <1>2. \A i \in Inodes : disk.inode[i] \in Nodes
    BY DEF MTypes, Disks
  <1> QED
    BY <1>1, <1>2 DEF Copies, Known

(* Which copies there are after a step.  N is the inode it makes known.      *)
LEMMA KnownStep ==
  ASSUME MTypes, NEW N,
         \A z \in Zones, p \in 0 .. PerBlock - 1 : disk'.data[z][p].ino \in Known \union {0},
         \A s \in Slots : cache'[s].ino \in Known \union {0} \union N,
         \A m \in made' : m \in made \/ m[1] \in Known \union {0}
  PROVE  Known' \subseteq Known \union N
  <1>1. 0 \notin Inodes
    BY Numbers DEF Inodes
  <1>2. \A i \in Known' :
          /\ i \in Inodes
          /\ \/ i = Root
             \/ \E z \in Zones, p \in 0 .. PerBlock - 1 : i = disk'.data[z][p].ino
             \/ \E s \in Slots : i = cache'[s].ino
             \/ \E m \in made' : i = m[1]
    BY DEF Known
  <1>3. Root \in Known /\ \A m \in made : m[1] \in Inodes => m[1] \in Known
    BY Numbers DEF Known
  <1> QED
    BY <1>1, <1>2, <1>3

(* What the history of create adds is said of a directory in the cache.      *)
LEMMA MadeStep ==
  ASSUME MTypes, Remember
  PROVE  \A m \in made' : m \in made \/ m[1] \in Known \union {0}
  <1>1. \A s \in Slots : cache[s].ino \in Known \union {0}
    BY CopiesType
  <1>2. call.at \in {"block", "data", "size", "links"} /\ call.what # "file" => call.dir \in Slots
    BY DEF MTypes, CallOK, Writing
  <1>3. ASSUME NEW m \in made', m \notin made
        PROVE  m[1] \in Known \union {0}
    <2>1. /\ call.at \in {"block", "data", "size", "links"} /\ call.what # "file"
          /\ m = <<cache[call.dir].ino, Entry(cache[call.new].ino, call.name)>>
      BY <1>3 DEF Remember
    <2> QED
      BY <1>1, <1>2, <2>1
  <1> QED
    BY <1>3

Bare(m) == m.ind = 0 /\ \A n \in 0 .. ZONE_DIRETTE - 1 : m.zone[n] = 0

LEMMA BareHolds ==
  ASSUME NEW m, Bare(m), NEW ptr, NEW n, NEW z
  PROVE  ~PlaceHolds(ptr, m, n, z)
  BY DEF Bare, PlaceHolds

(* Nothing but the zones of copies there were, or none; and pointers changed  *)
(* only in zones that are nobody's.                                          *)
SameZones(c, b) == c[1] = b[1] /\ c[2].zone = b[2].zone /\ c[2].ind = b[2].ind

LEMMA RefsKept ==
  ASSUME MTypes,
         \A z \in Zones : disk'.ptr[z] = disk.ptr[z] \/ Fresh(z),
         \A c \in Copies' : Bare(c[2]) \/ \E b \in Copies : SameZones(c, b)
  PROVE  Refs' \subseteq Refs
  <1> SUFFICES ASSUME NEW r \in Refs' PROVE r \in Refs
    OBVIOUS
  <1>1. PICK c \in Copies' : c[1] = r[1] /\ PlaceHolds(disk'.ptr, c[2], r[2], r[3])
    BY DEF Refs
  <1>2. r \in Inodes \X PlaceNos \X Zones
    BY DEF Refs
  <1>3. PICK b \in Copies : SameZones(c, b)
    BY <1>1, BareHolds
  <1>b. b[2] \in Nodes /\ b[1] \in Inodes
    BY <1>3, CopiesType
  <1>4. ASSUME b[2].ind # 0 PROVE disk'.ptr[b[2].ind] = disk.ptr[b[2].ind]
    <2>1. b[2].ind \in Zones
      BY <1>b, <1>4, Numbers DEF Nodes, Zones
    <2>2. <<b[1], -1, b[2].ind>> \in Refs
      <3>1. -1 \in PlaceNos
        BY Numbers DEF PlaceNos
      <3>2. PlaceHolds(disk.ptr, b[2], -1, b[2].ind)
        BY <1>4 DEF PlaceHolds
      <3> QED
        BY <1>3, <1>b, <2>1, <3>1, <3>2 DEF Refs
    <2> QED
      BY <2>1, <2>2 DEF Fresh
  <1>5. PlaceHolds(disk.ptr, b[2], r[2], r[3])
    BY <1>1, <1>3, <1>4 DEF PlaceHolds, SameZones
  <1> QED
    BY <1>2, <1>3, <1>5, <1>1 DEF Refs, SameZones

LEMMA EntryKnown ==
  ASSUME MTypes
  PROVE  \A z \in Zones, p \in 0 .. PerBlock - 1 : disk.data[z][p].ino \in Known \union {0}
  <1> SUFFICES ASSUME NEW z \in Zones, NEW p \in 0 .. PerBlock - 1
               PROVE  disk.data[z][p].ino \in Known \union {0}
    OBVIOUS
  <1>1. disk.data[z][p].ino \in 0 .. NInodes
    <2>1. disk.data \in [Zones -> [0 .. PerBlock - 1 -> Entries]]
      BY DEF MTypes, Disks
    <2>2. disk.data[z][p] \in Entries
      BY <2>1
    <2> QED
      BY <2>2, EntryTypes
  <1> QED
    BY <1>1, Numbers DEF Known, Inodes

LEMMA TakenFinite ==
  ASSUME MTypes
  PROVE  /\ IsFiniteSet(disk.imap) /\ Cardinality(disk.imap) \in Nat
         /\ Cardinality(disk.imap) <= NInodes
  <1>1. IsFiniteSet(Inodes) /\ Cardinality(Inodes) = NInodes
    BY FS_Interval, Numbers DEF Inodes
  <1>2. disk.imap \subseteq Inodes
    BY DEF MTypes, Disks
  <1> QED
    BY <1>1, <1>2, FS_Subset, FS_CardinalityType

(* Nothing on the disk or in the cache moves.                                *)
LEMMA RefsStill ==
  ASSUME MTypes, Owned, Marked, Remember, UNCHANGED <<disk, cache>>
  PROVE  Refs' \subseteq Refs /\ Owned' /\ Marked' /\ \A z \in Zones : Fresh(z) => Fresh(z)'
  <1>1. Known' \subseteq Known \union {}
    <2>1. \A z \in Zones, p \in 0 .. PerBlock - 1 : disk'.data[z][p].ino \in Known \union {0}
      BY EntryKnown
    <2>2. \A s \in Slots : cache'[s].ino \in Known \union {0} \union {}
      BY CopiesType
    <2> QED
      BY <2>1, <2>2, MadeStep, KnownStep
  <1>2. \A c \in Copies' : c \in Copies
    BY <1>1 DEF Copies
  <1>3. Refs' \subseteq Refs
    BY <1>2, RefsKept DEF SameZones
  <1> QED
    BY <1>3, RefsShrink

(* A step that keeps the inodes where they are in the cache.                 *)
LEMMA CallStep ==
  ASSUME MTypes, SlotsOK, LinksBound, Continues(call'),
         call'.at \notin {"imap", "erase", "inode"},
         disk' \in Disks, disk'.imap = disk.imap,
         cache' \in [Slots -> [ino : 0 .. NInodes, node : Nodes]],
         \A s \in Slots : cache'[s].ino = cache[s].ino,
         \A s \in Slots : cache[s].ino = 0 => cache'[s].node.type = "none",
         faults' \in 0 .. MaxFaults, crashes' = crashes,
         \A i \in Inodes : disk'.inode[i].nlinks <= LinksMax,
         \A s \in Slots : cache'[s].node.nlinks <= LinksMax
  PROVE  MTypes' /\ SlotsOK' /\ LinksBound'
  <1>1. MTypes'
    BY DEF MTypes, Continues
  <1>2. /\ call'.what \in Entering => call'.dir \in Slots /\ call'.new \in Slots
        /\ call'.at \in Writing => call'.slot \in Slots
    BY DEF Continues, CallOK
  <1>3. call'.what \in Entering =>
          cache[call'.dir].ino # 0 /\ cache[call'.new].ino # 0
    BY DEF Continues, SlotsOK
  <1>4. call'.at \in Writing => cache[call'.slot].ino # 0
    BY <1>3 DEF Continues, SlotsOK, Target
  <1>5. SlotsOK'
    BY <1>2, <1>3, <1>4 DEF SlotsOK, Target
  <1>6. Creating' => Creating
    BY DEF Creating, Continues
  <1>7. LinksMax' >= LinksMax /\ LinksMax \in Nat /\ LinksMax' \in Nat
    <2>1. Cardinality(disk.imap) \in Nat
      BY TakenFinite
    <2> QED
      BY <1>6, <2>1 DEF LinksMax
  <1>8. /\ \A i \in Inodes : disk'.inode[i].nlinks \in Nat
        /\ \A s \in Slots : cache'[s].node.nlinks \in Nat
    BY Numbers DEF Disks, Nodes
  <1> HIDE DEF LinksMax
  <1>9. LinksBound'
    BY <1>7, <1>8 DEF LinksBound
  <1> QED
    BY <1>1, <1>5, <1>9

(* One field of the disk at a time. *)
LEMMA InodeUpdate ==
  ASSUME disk \in Disks, NEW i, NEW m \in Nodes
  PROVE  LET d == [disk EXCEPT !.inode[i] = m]
         IN  /\ d \in Disks /\ d.imap = disk.imap /\ d.zmap = disk.zmap
             /\ d.data = disk.data /\ d.ptr = disk.ptr
             /\ \A j \in Inodes : d.inode[j] = IF j = i THEN m ELSE disk.inode[j]
  BY DEF Disks

LEMMA MapUpdates ==
  ASSUME disk \in Disks, NEW S
  PROVE  /\ LET d == [disk EXCEPT !.imap = S]
            IN  /\ S \subseteq Inodes => d \in Disks
                /\ d.imap = S /\ d.zmap = disk.zmap /\ d.inode = disk.inode
                /\ d.data = disk.data /\ d.ptr = disk.ptr
         /\ LET d == [disk EXCEPT !.zmap = S]
            IN  /\ S \subseteq Zones => d \in Disks
                /\ d.zmap = S /\ d.imap = disk.imap /\ d.inode = disk.inode
                /\ d.data = disk.data /\ d.ptr = disk.ptr
  BY DEF Disks

LEMMA DataUpdate ==
  ASSUME disk \in Disks, NEW z \in Zones, NEW b \in [0 .. PerBlock - 1 -> Entries]
  PROVE  LET d == [disk EXCEPT !.data[z] = b]
         IN  /\ d \in Disks /\ d.imap = disk.imap /\ d.zmap = disk.zmap
             /\ d.inode = disk.inode /\ d.ptr = disk.ptr
             /\ \A y \in Zones : d.data[y] = IF y = z THEN b ELSE disk.data[y]
  BY DEF Disks

LEMMA PtrUpdate ==
  ASSUME disk \in Disks, NEW z \in Zones, NEW k \in 0 .. PTR_PER_BLOCCO - 1, NEW v \in 0 .. NZones
  PROVE  LET d == [disk EXCEPT !.ptr[z][k] = v]
         IN  /\ d \in Disks /\ d.imap = disk.imap /\ d.zmap = disk.zmap
             /\ d.inode = disk.inode /\ d.data = disk.data
             /\ \A y \in Zones : y # z => d.ptr[y] = disk.ptr[y]
             /\ \A l \in 0 .. PTR_PER_BLOCCO - 1 :
                  d.ptr[z][l] = IF l = k THEN v ELSE disk.ptr[z][l]
  <1> DEFINE row == [disk.ptr[z] EXCEPT ![k] = v]
             d == [disk EXCEPT !.ptr[z] = row]
  <1>1. row \in [0 .. PTR_PER_BLOCCO - 1 -> 0 .. NZones]
    BY DEF Disks
  <1>2. \A l \in 0 .. PTR_PER_BLOCCO - 1 : row[l] = IF l = k THEN v ELSE disk.ptr[z][l]
    BY DEF Disks
  <1> HIDE DEF row
  <1>3. /\ d \in Disks /\ d.imap = disk.imap /\ d.zmap = disk.zmap
        /\ d.inode = disk.inode /\ d.data = disk.data
        /\ \A y \in Zones : d.ptr[y] = IF y = z THEN row ELSE disk.ptr[y]
    BY <1>1 DEF Disks
  <1>4. [disk EXCEPT !.ptr[z][k] = v] = d
    BY DEF row
  <1> HIDE DEF d
  <1> QED
    BY <1>2, <1>3, <1>4

LEMMA ZeroUpdate ==
  ASSUME disk \in Disks, NEW z
  PROVE  LET d == [disk EXCEPT !.data[z] = Zeroes, !.ptr[z] = NoPtrs]
         IN  /\ d \in Disks /\ d.imap = disk.imap /\ d.zmap = disk.zmap /\ d.inode = disk.inode
             /\ \A y \in Zones : d.data[y] = IF y = z THEN Zeroes ELSE disk.data[y]
             /\ \A y \in Zones : d.ptr[y] = IF y = z THEN NoPtrs ELSE disk.ptr[y]
  <1>1. /\ Zeroes \in [0 .. PerBlock - 1 -> Entries]
        /\ NoPtrs \in [0 .. PTR_PER_BLOCCO - 1 -> 0 .. NZones]
    BY EntryTypes, Numbers DEF Zeroes, NoPtrs
  <1> QED
    BY <1>1 DEF Disks

LEMMA NodeUpdates ==
  ASSUME NEW m \in Nodes
  PROVE  /\ \A k \in 0 .. ZONE_DIRETTE - 1, z \in 0 .. NZones :
              LET n == [m EXCEPT !.zone[k] = z]
              IN  /\ n \in Nodes /\ n.type = m.type /\ n.size = m.size /\ n.ind = m.ind
                  /\ n.nlinks = m.nlinks
                  /\ \A l \in 0 .. ZONE_DIRETTE - 1 : n.zone[l] = IF l = k THEN z ELSE m.zone[l]
         /\ \A z \in 0 .. NZones :
              LET n == [m EXCEPT !.ind = z]
              IN  /\ n \in Nodes /\ n.type = m.type /\ n.size = m.size /\ n.ind = z
                  /\ n.nlinks = m.nlinks /\ n.zone = m.zone
         /\ \A x \in 0 .. MaxSize :
              LET n == [m EXCEPT !.size = x]
              IN  /\ n \in Nodes /\ n.type = m.type /\ n.size = x /\ n.ind = m.ind
                  /\ n.nlinks = m.nlinks /\ n.zone = m.zone
         /\ \A x \in 0 .. NInodes + 1 :
              LET n == [m EXCEPT !.nlinks = x]
              IN  /\ n \in Nodes /\ n.type = m.type /\ n.size = m.size /\ n.ind = m.ind
                  /\ n.nlinks = x /\ n.zone = m.zone
  BY DEF Nodes

LEMMA LinksMaxType ==
  ASSUME MTypes
  PROVE  LinksMax \in Nat /\ LinksMax <= NInodes + 1
  <1>1. Cardinality(disk.imap) \in Nat /\ Cardinality(disk.imap) <= NInodes
    BY TakenFinite
  <1> QED
    BY <1>1, Numbers DEF LinksMax

(* inode_scrivi, with the answer of the call as the write goes well or not.  *)
LEMMA SaveStep ==
  ASSUME MTypes, SlotsOK, LinksBound, call.at \in Writing, Remember,
         NEW m \in Nodes, m.nlinks <= LinksMax, NEW ok, NEW failed, Save(m, ok, failed)
  PROVE  /\ disk' \in Disks /\ disk'.imap = disk.imap /\ disk'.zmap = disk.zmap
         /\ disk'.data = disk.data /\ disk'.ptr = disk.ptr
         /\ cache' \in [Slots -> [ino : 0 .. NInodes, node : Nodes]]
         /\ \A s \in Slots : cache'[s].ino = cache[s].ino
         /\ \A s \in Slots : cache[s].ino = 0 => cache'[s].node.type = "none"
         /\ call' \in {ok, failed} /\ faults' \in 0 .. MaxFaults /\ crashes' = crashes
         /\ \A i \in Inodes : disk'.inode[i].nlinks <= LinksMax
         /\ \A s \in Slots : cache'[s].node.nlinks <= LinksMax
         /\ Target.ino \in Known /\ <<Target.ino, Target.node>> \in Copies
         /\ \A c \in Copies' : c \in Copies \/ c = <<Target.ino, m>>
  <1>1. /\ disk \in Disks /\ cache \in [Slots -> [ino : 0 .. NInodes, node : Nodes]]
        /\ call.slot \in Slots /\ faults \in 0 .. MaxFaults
    BY DEF MTypes, CallOK
  <1>2. /\ Target.ino # 0 /\ Target.ino \in Known
        /\ <<Target.ino, Target.node>> \in Copies
    BY <1>1, CopiesType DEF SlotsOK, Target
  <1>3. /\ cache' = [cache EXCEPT ![call.slot].node = m]
        /\ disk' \in {disk, WithNode(m)} /\ call' \in {ok, failed}
        /\ faults' = faults \/ (faults < MaxFaults /\ faults' = faults + 1)
    BY DEF Save, Rewrite, Goes, Fault
  <1>4. /\ WithNode(m) \in Disks /\ WithNode(m).imap = disk.imap /\ WithNode(m).zmap = disk.zmap
        /\ WithNode(m).data = disk.data /\ WithNode(m).ptr = disk.ptr
        /\ \A i \in Inodes : WithNode(m).inode[i] = IF i = Target.ino THEN m ELSE disk.inode[i]
    BY <1>1, InodeUpdate DEF WithNode
  <1>5. /\ disk' \in Disks /\ disk'.imap = disk.imap /\ disk'.zmap = disk.zmap
        /\ disk'.data = disk.data /\ disk'.ptr = disk.ptr
        /\ \A i \in Inodes : \/ disk'.inode[i] = disk.inode[i]
                             \/ i = Target.ino /\ disk'.inode[i] = m
    BY <1>1, <1>3, <1>4
  <1>6. /\ cache' \in [Slots -> [ino : 0 .. NInodes, node : Nodes]]
        /\ \A s \in Slots : /\ cache'[s].ino = cache[s].ino
                            /\ cache'[s].node = IF s = call.slot THEN m ELSE cache[s].node
    BY <1>1, <1>3
  <1>7. \A s \in Slots : cache[s].ino = 0 => s # call.slot
    BY <1>2 DEF Target
  <1>8. faults' \in 0 .. MaxFaults
    BY <1>1, <1>3, Numbers
  <1>9. Known' \subseteq Known \union {}
    <2>1. \A z \in Zones, p \in 0 .. PerBlock - 1 : disk'.data[z][p].ino \in Known \union {0}
      BY <1>5, EntryKnown
    <2>2. \A s \in Slots : cache'[s].ino \in Known \union {0} \union {}
      BY <1>6, CopiesType
    <2> QED
      BY <2>1, <2>2, MadeStep, KnownStep
  <1>10. ASSUME NEW c \in Copies' PROVE c \in Copies \/ c = <<Target.ino, m>>
    <2>1. CASE \E i \in Known' : c = <<i, disk'.inode[i]>>
      BY <1>5, <1>9, <2>1, CopiesType DEF Known
    <2>2. CASE \E s \in Slots : cache'[s].ino # 0 /\ c = <<cache'[s].ino, cache'[s].node>>
      BY <1>6, <2>2, CopiesType DEF Target
    <2> QED
      BY <2>1, <2>2 DEF Copies
  <1>11. crashes' = crashes
    BY DEF Remember
  <1> QED
    BY <1>2, <1>3, <1>5, <1>6, <1>7, <1>8, <1>10, <1>11 DEF SlotsOK, LinksBound

-----------------------------------------------------------------------------
(* The steps that write nothing. *)

LEMMA FaultCount ==
  ASSUME MTypes, faults' = faults \/ Fault
  PROVE  faults' \in 0 .. MaxFaults
  BY Numbers DEF MTypes, Fault

(* They may only ask for a zone, and for an indirect block with a zone in    *)
(* hand.                                                                     *)
LEMMA QuietStep ==
  ASSUME ZInv, Remember, UNCHANGED <<disk, cache>>, faults' = faults \/ Fault,
         Continues(call'), call'.at \notin {"imap", "erase", "inode", "zero", "assign"},
         call'.at = "zmap" /\ call'.indirect => Fresh(call'.z)
  PROVE  ZInv'
  <1>1. MTypes /\ SlotsOK /\ LinksBound /\ Owned /\ Marked
    BY DEF ZInv
  <1>2. MTypes' /\ SlotsOK' /\ LinksBound'
    <2>1. /\ disk' \in Disks /\ cache' \in [Slots -> [ino : 0 .. NInodes, node : Nodes]]
          /\ crashes' = crashes
      BY <1>1 DEF MTypes, Remember
    <2> QED
      BY <1>1, <2>1, FaultCount, CallStep DEF LinksBound, SlotsOK
  <1>3. Owned' /\ Marked' /\ \A z \in Zones : Fresh(z) => Fresh(z)'
    BY <1>1, RefsStill
  <1>4. call'.at = "zmap" /\ call'.indirect => call'.z \in Zones
    BY DEF Continues, CallOK
  <1>5. InFlight'
    BY <1>3, <1>4 DEF InFlight
  <1> QED
    BY <1>2, <1>3, <1>5 DEF ZInv

LEMMA AnswerContinues ==
  ASSUME NEW ok \in BOOLEAN
  PROVE  Continues(Answer(ok)) /\ Answer(ok).at = "idle"
  BY AnswerOK DEF Continues, Entering, Writing

LEMMA InodeFullStep ==
  ASSUME ZInv, InodeFull PROVE ZInv'
  <1>1. call' = Answer(FALSE) /\ UNCHANGED <<disk, cache, faults>> /\ Remember
    BY DEF InodeFull, Goes
  <1>2. Continues(call') /\ call'.at = "idle"
    BY <1>1, AnswerContinues
  <1> QED
    BY <1>1, <1>2, QuietStep

(* A step inside a write changes some of these fields and no other.          *)
LEMMA WriteCall ==
  ASSUME CallOK(call), call.at \in Writing, NEW c \in Calls,
         c.at \in Writing, c.what = call.what, c.dir = call.dir, c.new = call.new,
         c.slot = call.slot, c.done <= c.n,
         c.at \in {"zero", "assign", "data"} => c.z \in Zones,
         c.at = "zmap" /\ c.indirect => c.z \in Zones,
         c.at \in {"zero", "assign"} /\ c.indirect => c.ind \in Zones,
         c.done > 0 \/ c.at = "size" => c.off <= MaxSize,
         c.at = "data" => c.off \div PerBlock < ZONE_DIRETTE + PTR_PER_BLOCCO
  PROVE  Continues(c)
  <1>1. /\ call.what \in Entering \union {"file"} /\ call.slot \in Slots
        /\ call.what \in Entering => call.dir \in Slots /\ call.new \in Slots
    BY DEF CallOK
  <1>2. c.at \notin {"idle", "imap", "erase", "inode", "insert", "undo", "links"}
    BY DEF Writing
  <1> QED
    BY <1>1, <1>2 DEF Continues, CallOK

LEMMA FindZoneStep ==
  ASSUME ZInv, FindZone PROVE ZInv'
  <1> DEFINE z == ZonaDi(disk, Target.node, Logical)
             a == [call EXCEPT !.at = "zmap", !.indirect = FALSE]
             b == [call EXCEPT !.at = "data", !.z = z]
  <1>1. /\ UNCHANGED <<disk, cache>> /\ Remember /\ (faults' = faults \/ Fault)
        /\ call.at = "block"
        /\ call' = a \/ (z # 0 /\ call' = b)
    BY DEF FindZone, Goes
  <1>2. /\ CallOK(call) /\ call \in Calls /\ disk \in Disks /\ call.at \in Writing
        /\ call.off \in Nat /\ call.done <= call.n /\ call.done \in Nat
        /\ call.done > 0 => call.off <= MaxSize
        /\ Target.node \in Nodes
    BY <1>1 DEF ZInv, MTypes, CallOK, Calls, Writing, Target
  <1>3. Logical \in Nat
    BY <1>2, DivMod DEF Logical
  <1>4. z \in 0 .. NZones
    BY <1>2, <1>3, ZonaDiType
  <1>5. z # 0 => Logical < ZONE_DIRETTE + PTR_PER_BLOCCO
    BY <1>3, Numbers DEF ZonaDi
  <1> HIDE DEF z
  <1>6. {"zmap", "data"} \subseteq CallPlaces /\ {"zmap", "data"} \subseteq Writing
    BY CallValues
  <1>7. CASE call' = a
    <2>1. /\ a \in Calls /\ a.at = "zmap" /\ a.indirect = FALSE /\ a.what = call.what
          /\ a.dir = call.dir /\ a.new = call.new /\ a.slot = call.slot /\ a.n = call.n
          /\ a.done = call.done /\ a.off = call.off
      BY <1>2, <1>6 DEF Calls
    <2> HIDE DEF a
    <2>2. Continues(a)
      BY <1>2, <1>6, <2>1, WriteCall
    <2> QED
      BY <1>1, <1>7, <2>1, <2>2, QuietStep
  <1>8. CASE z # 0 /\ call' = b
    <2>0. z \in Zones /\ z \in OrNone(Zones)
      BY <1>4, <1>8, CallValues, Numbers DEF Zones
    <2>1. /\ b \in Calls /\ b.at = "data" /\ b.z = z /\ b.what = call.what
          /\ b.dir = call.dir /\ b.new = call.new /\ b.slot = call.slot /\ b.n = call.n
          /\ b.done = call.done /\ b.off = call.off
      BY <1>2, <1>6, <2>0 DEF Calls
    <2>2. call.off \div PerBlock < ZONE_DIRETTE + PTR_PER_BLOCCO
      BY <1>5, <1>8 DEF Logical
    <2> HIDE DEF b
    <2>3. Continues(b)
      BY <1>2, <1>6, <2>0, <2>1, <2>2, WriteCall
    <2> QED
      BY <1>1, <1>8, <2>1, <2>3, QuietStep
  <1> QED
    BY <1>1, <1>7, <1>8

LEMMA BreakStep ==
  ASSUME ZInv, Remember, UNCHANGED <<disk, cache>>, faults' = faults \/ Fault,
         call.at \in Writing, call' = Break
  PROVE  ZInv'
  <1>1. CallOK(call)
    BY DEF ZInv, MTypes
  <1> QED
    BY <1>1, BreakOK, QuietStep

LEMMA NeedIndirectStep ==
  ASSUME ZInv, NeedIndirect PROVE ZInv'
  <1> DEFINE a == [call EXCEPT !.at = "zmap", !.indirect = TRUE]
  <1>1. /\ UNCHANGED <<disk, cache, faults>> /\ Remember /\ call.at = "assign" /\ call' = a
    BY DEF NeedIndirect, Goes
  <1>2. /\ CallOK(call) /\ call \in Calls /\ call.at \in Writing
        /\ call.done <= call.n /\ call.done \in Nat
        /\ call.done > 0 => call.off <= MaxSize
        /\ call.z \in Zones /\ Fresh(call.z)
    BY <1>1 DEF ZInv, MTypes, CallOK, Calls, Writing, InFlight
  <1>3. "zmap" \in CallPlaces /\ "zmap" \in Writing
    BY CallValues
  <1>4. /\ a \in Calls /\ a.at = "zmap" /\ a.indirect = TRUE /\ a.what = call.what
        /\ a.dir = call.dir /\ a.new = call.new /\ a.slot = call.slot /\ a.n = call.n
        /\ a.done = call.done /\ a.off = call.off /\ a.z = call.z
    BY <1>2, <1>3 DEF Calls
  <1> HIDE DEF a
  <1>5. Continues(a)
    BY <1>2, <1>3, <1>4, WriteCall
  <1> QED
    BY <1>1, <1>2, <1>4, <1>5, QuietStep

(* The write of one entry begins, at the place found or at a wrong one.      *)
LEMMA WritesOK ==
  ASSUME CallOK(call), call.at = "insert", NEW off \in Nat
  PROVE  /\ Continues(Writes(off)) /\ Writes(off).at = "block"
  <1> DEFINE c == Writes(off)
  <1>1. /\ call \in Calls /\ call.what \in Entering /\ call.dir \in Slots /\ call.new \in Slots
        /\ "block" \in CallPlaces /\ "block" \in Writing /\ Where \in {call.dir, call.new}
    BY CallValues DEF CallOK, Where
  <1>2. Where \in Slots /\ Where \in OrNone(Slots) /\ 0 \in OrNone(Zones)
    BY <1>1, CallValues
  <1>3. /\ c \in Calls /\ c.at = "block" /\ c.what = call.what /\ c.dir = call.dir
        /\ c.new = call.new /\ c.slot = Where /\ c.n = 1 /\ c.done = 0 /\ c.off = off
    BY <1>1, <1>2 DEF Calls, Writes
  <1> HIDE DEF c
  <1>4. Continues(c)
    BY <1>1, <1>2, <1>3 DEF CallOK, Continues
  <1> QED
    BY <1>3, <1>4 DEF c

LEMMA DirentInserisciStep ==
  ASSUME ZInv, DirentInserisci PROVE ZInv'
  <1> DEFINE m == cache[Where].node
  <1>1. /\ UNCHANGED <<disk, cache>> /\ Remember /\ (faults' = faults \/ Fault)
        /\ call.at = "insert"
        /\ \/ call' = Writes(Place(m))
           \/ call' = Returned(FALSE)
           \/ \E off \in ZONE_DIRETTE * PerBlock .. Place(m) - 1 : call' = Writes(off)
    BY DEF DirentInserisci, Goes
  <1>2. CallOK(call) /\ Where \in Slots /\ m \in Nodes
    <2>1. CallOK(call) /\ call.what \in Entering /\ call.dir \in Slots /\ call.new \in Slots
      BY <1>1 DEF ZInv, MTypes, CallOK
    <2>2. Where \in Slots
      BY <2>1 DEF Where
    <2> QED
      BY <2>1, <2>2 DEF ZInv, MTypes
  <1> HIDE DEF m
  <1>3. m.size \in Nat /\ Place(m) \in 0 .. m.size
    <2>1. m.size \in Nat
      BY <1>2, Numbers DEF Nodes
    <2> QED
      BY <1>2, <2>1, PlaceType
  <1>4. ASSUME NEW off \in ZONE_DIRETTE * PerBlock .. Place(m) - 1 PROVE off \in Nat
    <2>1. ZONE_DIRETTE * PerBlock \in Nat
      BY Numbers
    <2> QED
      BY <1>3, <2>1
  <1>5. Place(m) \in Nat
    BY <1>3
  <1>6. Continues(call') /\ call'.at \in {"idle", "undo", "insert", "links", "block"}
    <2>1. CASE call' = Returned(FALSE)
      BY <1>1, <1>2, <2>1, ReturnedOK
    <2>2. CASE call' # Returned(FALSE)
      BY <1>1, <1>2, <1>4, <1>5, <2>2, WritesOK
    <2> QED
      BY <2>1, <2>2
  <1> QED
    BY <1>1, <1>6, QuietStep

-----------------------------------------------------------------------------
(* The beginning of a call. *)

(* A call that is still far from its writes.                                 *)
LEMMA BeginStep ==
  ASSUME ZInv, call.at = "idle", Remember, UNCHANGED <<disk, cache>>,
         faults' = faults \/ Fault, CallOK(call'),
         \/ call'.at = "imap" /\ call'.what = "none" /\ cache[call'.dir].ino # 0
         \/ call'.at = "block" /\ call'.what = "file" /\ cache[call'.slot].ino # 0
  PROVE  ZInv'
  <1>1. MTypes /\ SlotsOK /\ LinksBound /\ Owned /\ Marked
    BY DEF ZInv
  <1>2. MTypes'
    BY <1>1, FaultCount DEF MTypes, Remember
  <1>3. SlotsOK'
    BY <1>1 DEF SlotsOK, Target, Entering, Writing
  <1>4. call.what = "none"
    BY <1>1 DEF MTypes, CallOK
  <1>5. LinksMax' = LinksMax
    BY <1>4 DEF LinksMax, Creating, Entering
  <1>6. LinksBound'
    BY <1>1, <1>5 DEF LinksBound
  <1>7. Owned' /\ Marked'
    BY <1>1, RefsStill
  <1>8. InFlight'
    BY DEF InFlight
  <1> QED
    BY <1>2, <1>3, <1>6, <1>7, <1>8 DEF ZInv

(* A slot that holds a file or a directory is not free.                      *)
LEMMA SlotTaken ==
  ASSUME ZInv, NEW s \in Slots, cache[s].node.type \in {"file", "dir"}
  PROVE  cache[s].ino # 0
  BY DEF ZInv, SlotsOK

LEMMA CreateBegins ==
  ASSUME ZInv, NEW s \in Slots, NEW n \in Names, NEW t \in {"file", "dir"}, Create(s, n, t)
  PROVE  ZInv'
  <1> DEFINE c == [Idle EXCEPT !.at = "imap", !.dir = s, !.name = n, !.type = t]
  <1>1. /\ call.at = "idle" /\ call' = c /\ UNCHANGED <<disk, cache>> /\ Remember
        /\ cache[s].node.type = "dir"
        /\ (faults' = faults \/ Fault)
    BY DEF Create, LookupFails, Goes
  <1>2. Idle \in Calls /\ Idle.what = "none" /\ Idle.n = 0 /\ Idle.done = 0
    BY CallValues DEF Idle, Calls
  <1>3. s \in OrNone(Slots) /\ "imap" \in CallPlaces
    BY CallValues
  <1>4. /\ c \in Calls /\ c.at = "imap" /\ c.what = "none" /\ c.dir = s /\ c.n = 0 /\ c.done = 0
    BY <1>2, <1>3 DEF Calls
  <1> HIDE DEF c
  <1>5. CallOK(c)
    BY <1>4 DEF CallOK, Entering, Writing
  <1>6. cache[s].ino # 0
    BY <1>1, SlotTaken
  <1> QED
    BY <1>1, <1>4, <1>5, <1>6, BeginStep

LEMMA WriteBegins ==
  ASSUME ZInv, NEW s \in Slots, NEW off \in Offsets, NEW n \in Lengths, WriteFile(s, off, n)
  PROVE  ZInv'
  <1> DEFINE c == [Idle EXCEPT !.at = "block", !.what = "file", !.slot = s, !.off = off,
                               !.n = n]
  <1>1. /\ call.at = "idle" /\ call' = c /\ UNCHANGED <<disk, cache, faults>> /\ Remember
        /\ cache[s].node.type = "file"
    BY DEF WriteFile, Goes
  <1>2. Idle \in Calls /\ Idle.done = 0
    BY CallValues DEF Idle, Calls
  <1>3. s \in OrNone(Slots) /\ "block" \in CallPlaces /\ "file" \in CallKinds
    BY CallValues
  <1>a. off \in Nat /\ n \in Nat
    BY Numbers
  <1>4. /\ c \in Calls /\ c.at = "block" /\ c.what = "file" /\ c.slot = s /\ c.n = n
        /\ c.done = 0
    BY <1>2, <1>3, <1>a DEF Calls
  <1> HIDE DEF c
  <1>5. CallOK(c)
    BY <1>4, <1>a DEF CallOK, Entering, Writing
  <1>6. cache[s].ino # 0
    BY <1>1, SlotTaken
  <1> QED
    BY <1>1, <1>4, <1>5, <1>6, BeginStep

(* minix_lookup puts in a free slot an inode that a directory names.         *)
LEMMA LookupStep ==
  ASSUME ZInv, NEW s \in Slots, NEW name \in Names, Lookup(s, name)
  PROVE  ZInv'
  <1> DEFINE N == Named(disk, cache[s].node, name)
             i == ReadAt(disk, cache[s].node, Min(N)).ino
             t == Min(FreeSlots)
  <1>1. /\ call.at = "idle" /\ N # {} /\ ~Cached(i) /\ FreeSlots # {}
        /\ cache' = [cache EXCEPT ![t] = [ino |-> i, node |-> disk.inode[i]]]
        /\ UNCHANGED <<disk, call, faults>> /\ Remember
    BY DEF Lookup
  <1>2. /\ MTypes /\ SlotsOK /\ LinksBound /\ Owned /\ Marked /\ CallOK(call)
        /\ disk \in Disks /\ cache \in [Slots -> [ino : 0 .. NInodes, node : Nodes]]
        /\ cache[s].node \in Nodes
    BY DEF ZInv, MTypes
  <1>3. i \in Known
    <2>1. cache[s].node.size \in Nat
      BY <1>2, Numbers DEF Nodes
    <2>2. \A off \in N : off \in Nat /\ ReadAt(disk, cache[s].node, off).ino # 0
      BY <2>1 DEF Named, InUse
    <2>3. Min(N) \in N
      BY <1>1, <2>2, MinExists
    <2> DEFINE off == Min(N)
    <2>4. off \in Nat /\ ReadAt(disk, cache[s].node, off).ino # 0
      BY <2>2, <2>3
    <2> HIDE DEF off, N
    <2>5. \E z \in Zones, p \in 0 .. PerBlock - 1 :
             ReadAt(disk, cache[s].node, off).ino = disk.data[z][p].ino
      <3> DEFINE m == cache[s].node
      <3>1. m \in Nodes /\ disk \in Disks /\ ReadAt(disk, m, off).ino # 0
        BY <1>2, <2>4
      <3> HIDE DEF m
      <3>2. /\ off % PerBlock \in 0 .. PerBlock - 1
            /\ \/ ReadAt(disk, m, off) = Empty
               \/ \E z \in Zones : ReadAt(disk, m, off) = disk.data[z][off % PerBlock]
        BY <2>4, <3>1, ReadAtType
      <3>3. ReadAt(disk, m, off) # Empty
        BY <3>1, EntryTypes
      <3> QED
        BY <3>2, <3>3 DEF m
    <2> QED
      BY <1>2, <2>4, <2>5, EntryKnown DEF off
  <1> HIDE DEF N, i
  <1>4. t \in FreeSlots
    <2>1. FreeSlots \in SUBSET Nat
      BY Numbers DEF FreeSlots, Slots
    <2> QED
      BY <1>1, <2>1, MinExists
  <1> HIDE DEF t
  <1>5. t \in Slots /\ cache[t].ino = 0
    BY <1>4 DEF FreeSlots
  <1>6. i \in Inodes /\ i # 0 /\ i \in 0 .. NInodes /\ disk.inode[i] \in Nodes
    BY <1>2, <1>3, Numbers DEF Known, Inodes, Disks
  <1>7. /\ cache' \in [Slots -> [ino : 0 .. NInodes, node : Nodes]]
        /\ \A x \in Slots : cache'[x] = IF x = t THEN [ino |-> i, node |-> disk.inode[i]]
                                        ELSE cache[x]
    BY <1>1, <1>2, <1>6
  <1>8. MTypes'
    BY <1>1, <1>2, <1>7 DEF MTypes, Remember
  <1>9. SlotsOK'
    <2>1. call'.at = "idle" /\ call'.what = "none"
      BY <1>1, <1>2 DEF CallOK
    <2> QED
      BY <1>2, <1>6, <1>7, <2>1 DEF SlotsOK, Entering, Writing
  <1>10. LinksBound'
    <2>1. LinksMax' = LinksMax
      BY <1>1 DEF LinksMax, Creating
    <2>2. \A x \in Slots : cache'[x].node.nlinks <= LinksMax
      BY <1>2, <1>6, <1>7 DEF LinksBound
    <2> QED
      BY <1>1, <1>2, <2>1, <2>2 DEF LinksBound
  <1>11. Refs' \subseteq Refs
    <2>1. Known' \subseteq Known \union {}
      <3>1. \A z \in Zones, p \in 0 .. PerBlock - 1 : disk'.data[z][p].ino \in Known \union {0}
        BY <1>1, <1>2, EntryKnown
      <3>2. \A x \in Slots : cache'[x].ino \in Known \union {0} \union {}
        <4>1. \A x \in Slots : cache'[x].ino = i \/ cache'[x].ino = cache[x].ino
          BY <1>7
        <4> QED
          BY <1>2, <1>3, <4>1, CopiesType
      <3> QED
        BY <1>1, <1>2, <3>1, <3>2, MadeStep, KnownStep
    <2>2. \A c \in Copies' : c \in Copies
      <3>1. <<i, disk.inode[i]>> \in Copies
        BY <1>2, <1>3, CopiesType
      <3>2. ASSUME NEW c \in Copies' PROVE c \in Copies
        <4>1. CASE \E j \in Known' : c = <<j, disk'.inode[j]>>
          BY <1>1, <1>2, <2>1, <4>1, CopiesType
        <4>2. CASE \E x \in Slots : cache'[x].ino # 0 /\ c = <<cache'[x].ino, cache'[x].node>>
          BY <1>2, <1>7, <3>1, <4>2, CopiesType
        <4> QED
          BY <4>1, <4>2 DEF Copies
      <3> QED
        BY <3>2
    <2> QED
      BY <1>1, <1>2, <2>2, RefsKept DEF SameZones
  <1>12. Owned' /\ Marked'
    BY <1>1, <1>2, <1>11, RefsShrink
  <1>13. InFlight'
    BY <1>1 DEF InFlight
  <1> QED
    BY <1>8, <1>9, <1>10, <1>12, <1>13 DEF ZInv

-----------------------------------------------------------------------------
(* The steps of a creation. *)

(* The links that the inodes taken allow, when no more are taken or one is    *)
(* and the call goes on with it.                                             *)
LEMMA LinksGrow ==
  ASSUME MTypes, LinksBound, disk' \in Disks,
         cache' \in [Slots -> [ino : 0 .. NInodes, node : Nodes]],
         LinksMax' \in Nat, LinksMax <= LinksMax',
         \A i \in Inodes : disk'.inode[i].nlinks <= LinksMax',
         \A s \in Slots : cache'[s].node.nlinks <= LinksMax'
  PROVE  LinksBound'
  <1>1. LinksMax \in Nat
    BY LinksMaxType
  <1> QED
    BY <1>1 DEF LinksBound

(* What is written names nobody new, and moves no zone.                      *)
LEMMA ZonesStay ==
  ASSUME MTypes, Owned, Marked, Remember, NEW N,
         disk'.zmap = disk.zmap, disk'.ptr = disk.ptr, disk'.data = disk.data,
         \A s \in Slots : cache'[s].ino \in Known \union {0} \union N,
         \A i \in Inodes : \/ disk'.inode[i] = disk.inode[i] /\ i \notin N
                           \/ Bare(disk'.inode[i]),
         \A s \in Slots : \/ cache'[s] = cache[s] \/ cache'[s].ino = 0
                          \/ Bare(cache'[s].node)
  PROVE  Owned' /\ Marked' /\ \A z \in Zones : Fresh(z) => Fresh(z)'
  <1>1. Known' \subseteq Known \union N
    <2>1. \A z \in Zones, p \in 0 .. PerBlock - 1 : disk'.data[z][p].ino \in Known \union {0}
      BY EntryKnown
    <2> QED
      BY <2>1, MadeStep, KnownStep
  <1>2. ASSUME NEW c \in Copies' PROVE Bare(c[2]) \/ c \in Copies
    <2>1. CASE \E i \in Known' : c = <<i, disk'.inode[i]>>
      <3>1. PICK i \in Known' : c = <<i, disk'.inode[i]>>
        BY <2>1
      <3>2. i \in Inodes
        BY DEF Known
      <3>3. CASE Bare(disk'.inode[i])
        BY <3>1, <3>3
      <3>4. CASE disk'.inode[i] = disk.inode[i] /\ i \notin N
        BY <1>1, <3>1, <3>4, CopiesType
      <3> QED
        BY <3>2, <3>3, <3>4
    <2>2. CASE \E s \in Slots : cache'[s].ino # 0 /\ c = <<cache'[s].ino, cache'[s].node>>
      BY <2>2, CopiesType
    <2> QED
      BY <2>1, <2>2 DEF Copies
  <1>3. Refs' \subseteq Refs
    BY <1>2, RefsKept DEF SameZones
  <1> QED
    BY <1>3, RefsShrink

LEMMA BlankBare ==
  /\ Blank \in Nodes /\ Blank.nlinks = 0 /\ Blank.type = "none" /\ Bare(Blank)
  /\ \A t \in {"file", "dir", "none"} :
       NewNode(t) \in Nodes /\ NewNode(t).nlinks \in 1 .. 2 /\ Bare(NewNode(t))
       /\ NewNode(t).type = t
  <1>1. NoZones \in [0 .. ZONE_DIRETTE - 1 -> 0 .. NZones]
        /\ \A n \in 0 .. ZONE_DIRETTE - 1 : NoZones[n] = 0
    BY Numbers DEF NoZones
  <1>2. 0 \in 0 .. NZones /\ 0 \in 0 .. MaxSize /\ {0, 1, 2} \subseteq 0 .. NInodes + 1
    BY Numbers
  <1>3. ASSUME NEW t \in {"file", "dir", "none"}, NEW k \in {0, 1, 2}
        PROVE  LET m == Node(t, 0, NoZones, 0, k)
               IN  m \in Nodes /\ Bare(m) /\ m.nlinks = k /\ m.type = t
    BY <1>1, <1>2 DEF Node, Nodes, Bare
  <1> HIDE DEF NoZones
  <1> QED
    BY <1>3 DEF Blank, NewNode

(* A creation goes on towards its inode, or ends.                            *)
LEMMA CreateCallOK ==
  ASSUME CallOK(call), call.at \in {"imap", "erase", "inode"},
         NEW a \in {"erase", "inode"}, NEW bit \in Inodes
  PROVE  LET c == [call EXCEPT !.at = a, !.bit = bit]
         IN  /\ CallOK(c) /\ c.at = a /\ c.bit = bit /\ c.what = "none" /\ c.dir = call.dir
             /\ c.type = call.type /\ c.name = call.name
  <1> DEFINE c == [call EXCEPT !.at = a, !.bit = bit]
  <1>1. /\ call \in Calls /\ call.what = "none" /\ call.dir \in Slots /\ call.done <= call.n
        /\ a \in CallPlaces /\ bit \in OrNone(Inodes)
    BY CallValues DEF CallOK
  <1>2. /\ c \in Calls /\ c.at = a /\ c.what = "none" /\ c.dir = call.dir /\ c.n = call.n
        /\ c.done = call.done /\ c.bit = bit /\ c.type = call.type /\ c.name = call.name
    BY <1>1 DEF Calls
  <1> HIDE DEF c
  <1>3. CallOK(c)
    BY <1>1, <1>2 DEF CallOK, Entering, Writing
  <1> QED
    BY <1>2, <1>3 DEF c

LEMMA AccendiInodeStep ==
  ASSUME ZInv, AccendiInode PROVE ZInv'
  <1> DEFINE bit == Min(FreeInodes)
             c == [call EXCEPT !.at = "erase", !.bit = bit]
             d == [disk EXCEPT !.imap = @ \union {bit}]
  <1>1. /\ call.at = "imap" /\ FreeSlots # {} /\ FreeInodes # {} /\ Remember /\ cache' = cache
        /\ (faults' = faults \/ Fault)
        /\ \/ disk' = d /\ call' = c
           \/ disk' \in {disk, d} /\ call' = Answer(FALSE)
    BY DEF AccendiInode, Rewrite, Goes
  <1>2. /\ MTypes /\ SlotsOK /\ LinksBound /\ Owned /\ Marked /\ CallOK(call)
        /\ disk \in Disks /\ cache \in [Slots -> [ino : 0 .. NInodes, node : Nodes]]
    BY DEF ZInv, MTypes
  <1>3. bit \in Inodes /\ bit \notin disk.imap
    <2>1. FreeInodes \in SUBSET Nat
      BY Numbers DEF FreeInodes, Inodes
    <2>2. bit \in FreeInodes
      BY <1>1, <2>1, MinExists
    <2> QED
      BY <2>2 DEF FreeInodes
  <1> HIDE DEF bit
  <1>4. /\ CallOK(c) /\ c.at = "erase" /\ c.bit = bit /\ c.what = "none" /\ c.dir = call.dir
    BY <1>1, <1>2, <1>3, CreateCallOK
  <1>5. /\ d \in Disks /\ d.imap = disk.imap \union {bit} /\ d.zmap = disk.zmap
        /\ d.inode = disk.inode /\ d.data = disk.data /\ d.ptr = disk.ptr
    <2>1. disk.imap \union {bit} \subseteq Inodes
      BY <1>2, <1>3 DEF Disks
    <2> QED
      BY <1>2, <2>1, MapUpdates
  <1> HIDE DEF c, d
  <1>6. /\ disk' \in Disks /\ disk'.zmap = disk.zmap /\ disk'.inode = disk.inode
        /\ disk'.data = disk.data /\ disk'.ptr = disk.ptr
    BY <1>1, <1>2, <1>5
  <1>7. /\ CallOK(call') /\ call'.what = "none" /\ call'.at \in {"erase", "idle"}
        /\ call'.at = "erase" => call'.dir = call.dir
    BY <1>1, <1>4, AnswerOK
  <1>8. MTypes'
    BY <1>1, <1>2, <1>6, <1>7, FaultCount DEF MTypes, Remember, FreeSlots
  <1>9. SlotsOK'
    BY <1>1, <1>2, <1>7 DEF SlotsOK, Entering, Writing
  <1>10. LinksMax' \in Nat /\ LinksMax <= LinksMax'
    <2>1. IsFiniteSet(disk.imap) /\ Cardinality(disk.imap) \in Nat
      BY <1>2, TakenFinite
    <2>2. Cardinality(d.imap) = Cardinality(disk.imap) + 1
      BY <1>3, <1>5, <2>1, FS_AddElement
    <2>3. LinksMax = Cardinality(disk.imap) + 1
      BY <1>1, <1>2 DEF LinksMax, Creating, Entering, CallOK
    <2>4. CASE disk' = d
      <3>1. \/ LinksMax' = Cardinality(d.imap) + 0
            \/ LinksMax' = Cardinality(d.imap) + 1
        BY <2>4 DEF LinksMax
      <3> QED
        BY <2>1, <2>2, <2>3, <3>1
    <2>5. CASE disk' = disk /\ call' = Answer(FALSE)
      <3>1. LinksMax' = Cardinality(disk.imap) + 1
        BY <1>7, <2>5, AnswerOK DEF LinksMax, Creating, Entering
      <3> QED
        BY <2>1, <2>3, <3>1
    <2> QED
      BY <1>1, <2>4, <2>5
  <1>11. LinksBound'
    <2>1. /\ \A i \in Inodes : disk'.inode[i].nlinks <= LinksMax'
          /\ \A s \in Slots : cache'[s].node.nlinks <= LinksMax'
      <3>1. LinksMax \in Nat
        BY <1>2, LinksMaxType
      <3>2. /\ \A i \in Inodes : disk.inode[i].nlinks \in Nat
            /\ \A s \in Slots : cache[s].node.nlinks \in Nat
        BY <1>2, Numbers DEF Disks, Nodes
      <3> HIDE DEF LinksMax
      <3> QED
        BY <1>1, <1>2, <1>6, <1>10, <3>1, <3>2 DEF LinksBound
    <2> QED
      BY <1>1, <1>2, <1>6, <1>10, <2>1, LinksGrow
  <1>12. Owned' /\ Marked'
    <2> DEFINE N == {}
    <2>1. \A s \in Slots : cache'[s].ino \in Known \union {0} \union N
      BY <1>1, <1>2, CopiesType
    <2>2. \A i \in Inodes : disk'.inode[i] = disk.inode[i] /\ i \notin N
      BY <1>6
    <2>3. \A s \in Slots : cache'[s] = cache[s]
      BY <1>1
    <2>4. MTypes /\ Owned /\ Marked /\ Remember
      BY <1>1, <1>2
    <2> HIDE DEF N
    <2> QED
      BY <1>6, <2>1, <2>2, <2>3, <2>4, ZonesStay
  <1>13. InFlight'
    BY <1>7 DEF InFlight
  <1> QED
    BY <1>8, <1>9, <1>11, <1>12, <1>13 DEF ZInv

(* Fewer links are counted than before, or as many, while one inode is written *)
(* that holds no zones, in the table and perhaps in a free slot.             *)
LEMMA AzzeraInodeStep ==
  ASSUME ZInv, AzzeraInode PROVE ZInv'
  <1> DEFINE c == [call EXCEPT !.at = "inode"]
             d == [disk EXCEPT !.inode[call.bit] = Blank]
  <1>1. /\ call.at = "erase" /\ Remember /\ cache' = cache /\ (faults' = faults \/ Fault)
        /\ disk' \in {disk, d} /\ call' \in {c, Answer(FALSE)}
    BY DEF AzzeraInode, Rewrite, Goes
  <1>2. /\ MTypes /\ SlotsOK /\ LinksBound /\ Owned /\ Marked /\ CallOK(call)
        /\ disk \in Disks /\ cache \in [Slots -> [ino : 0 .. NInodes, node : Nodes]]
        /\ call.bit \in Inodes /\ FreeSlots # {}
    BY <1>1 DEF ZInv, MTypes, CallOK
  <1>3. /\ CallOK(c) /\ c.at = "inode" /\ c.bit = call.bit /\ c.what = "none"
        /\ c.dir = call.dir
    <2>1. /\ call \in Calls /\ call.what = "none" /\ call.dir \in Slots /\ call.done <= call.n
          /\ "inode" \in CallPlaces
      BY <1>1, <1>2, CallValues DEF CallOK
    <2>2. /\ c \in Calls /\ c.at = "inode" /\ c.what = "none" /\ c.dir = call.dir
          /\ c.n = call.n /\ c.done = call.done /\ c.bit = call.bit
      BY <2>1 DEF Calls
    <2> HIDE DEF c
    <2> QED
      BY <1>2, <2>1, <2>2 DEF CallOK, Entering, Writing
  <1>4. /\ d \in Disks /\ d.imap = disk.imap /\ d.zmap = disk.zmap /\ d.data = disk.data
        /\ d.ptr = disk.ptr
        /\ \A j \in Inodes : d.inode[j] = IF j = call.bit THEN Blank ELSE disk.inode[j]
    <2> DEFINE b == call.bit
    <2>1. disk \in Disks /\ Blank \in Nodes
      BY <1>2, BlankBare
    <2> HIDE DEF b
    <2>2. LET e == [disk EXCEPT !.inode[b] = Blank]
          IN  /\ e \in Disks /\ e.imap = disk.imap /\ e.zmap = disk.zmap /\ e.data = disk.data
              /\ e.ptr = disk.ptr
              /\ \A j \in Inodes : e.inode[j] = IF j = b THEN Blank ELSE disk.inode[j]
      BY <2>1, InodeUpdate
    <2> QED
      BY <2>2 DEF b
  <1> HIDE DEF c, d
  <1>5. /\ disk' \in Disks /\ disk'.imap = disk.imap /\ disk'.zmap = disk.zmap
        /\ disk'.data = disk.data /\ disk'.ptr = disk.ptr
        /\ \A j \in Inodes : disk'.inode[j] = disk.inode[j] \/ disk'.inode[j] = Blank
    BY <1>1, <1>2, <1>4
  <1>6. /\ CallOK(call') /\ call'.what = "none" /\ call'.at \in {"inode", "idle"}
        /\ call'.at = "inode" => call'.dir = call.dir
    BY <1>1, <1>3, AnswerOK
  <1>7. MTypes'
    BY <1>1, <1>2, <1>5, <1>6, FaultCount DEF MTypes, Remember, FreeSlots
  <1>8. SlotsOK'
    BY <1>1, <1>2, <1>6 DEF SlotsOK, Entering, Writing
  <1>9. LinksMax \in Nat /\ LinksMax' \in Nat /\ LinksMax <= LinksMax'
    <2>1. Cardinality(disk.imap) \in Nat /\ Creating
      BY <1>1, <1>2, TakenFinite DEF Creating
    <2> QED
      BY <1>5, <2>1 DEF LinksMax
  <1>10. LinksBound'
    <2>1. /\ \A i \in Inodes : disk.inode[i].nlinks \in Nat
          /\ \A s \in Slots : cache[s].node.nlinks \in Nat
      BY <1>2, Numbers DEF Disks, Nodes
    <2> HIDE DEF LinksMax
    <2> QED
      BY <1>1, <1>2, <1>5, <1>9, <2>1, BlankBare DEF LinksBound
  <1>11. Owned' /\ Marked'
    <2> DEFINE N == {}
    <2>1. \A s \in Slots : cache'[s].ino \in Known \union {0} \union N
      BY <1>1, <1>2, CopiesType
    <2>2. \A i \in Inodes : (disk'.inode[i] = disk.inode[i] /\ i \notin N) \/ Bare(disk'.inode[i])
      BY <1>5, BlankBare
    <2>3. \A s \in Slots : cache'[s] = cache[s]
      BY <1>1
    <2>4. MTypes /\ Owned /\ Marked /\ Remember
      BY <1>1, <1>2
    <2> HIDE DEF N
    <2> QED
      BY <1>5, <2>1, <2>2, <2>3, <2>4, ZonesStay
  <1>12. InFlight'
    BY <1>6 DEF InFlight
  <1> QED
    BY <1>7, <1>8, <1>10, <1>11, <1>12 DEF ZInv

LEMMA ScriviNuovoStep ==
  ASSUME ZInv, ScriviNuovo PROVE ZInv'
  <1> DEFINE s == Min(FreeSlots)
             m == NewNode(call.type)
             c == [call EXCEPT !.at = "insert", !.what = "entry", !.new = s]
             d == [disk EXCEPT !.inode[call.bit] = m]
             full == [cache EXCEPT ![s] = [ino |-> call.bit, node |-> m]]
  <1>1. /\ call.at = "inode" /\ Remember /\ (faults' = faults \/ Fault)
        /\ \/ disk' = d /\ call' = c /\ cache' = full
           \/ disk' \in {disk, d} /\ call' = Answer(FALSE) /\ cache' = cache
    BY DEF ScriviNuovo, Rewrite, Goes
  <1>2. /\ MTypes /\ SlotsOK /\ LinksBound /\ Owned /\ Marked /\ CallOK(call)
        /\ disk \in Disks /\ cache \in [Slots -> [ino : 0 .. NInodes, node : Nodes]]
        /\ call.bit \in Inodes /\ FreeSlots # {} /\ call.type \in {"none", "file", "dir"}
        /\ cache[call.dir].ino # 0 /\ call.dir \in Slots
    BY <1>1 DEF ZInv, MTypes, CallOK, Calls, SlotsOK
  <1>3. s \in Slots /\ cache[s].ino = 0
    <2>1. FreeSlots \in SUBSET Nat
      BY Numbers DEF FreeSlots, Slots
    <2>2. s \in FreeSlots
      BY <1>2, <2>1, MinExists
    <2> QED
      BY <2>2 DEF FreeSlots
  <1> HIDE DEF s
  <1>4. m \in Nodes /\ m.nlinks \in 1 .. 2 /\ Bare(m)
    BY <1>2, BlankBare
  <1> HIDE DEF m
  <1>5. /\ CallOK(c) /\ c.at = "insert" /\ c.what = "entry" /\ c.new = s /\ c.dir = call.dir
    <2>1. /\ call \in Calls /\ call.what = "none" /\ call.dir \in Slots /\ call.done <= call.n
          /\ "insert" \in CallPlaces /\ "entry" \in CallKinds /\ s \in OrNone(Slots)
      BY <1>1, <1>2, <1>3, CallValues DEF CallOK
    <2>2. /\ c \in Calls /\ c.at = "insert" /\ c.what = "entry" /\ c.dir = call.dir
          /\ c.new = s /\ c.n = call.n /\ c.done = call.done
      BY <2>1 DEF Calls
    <2> HIDE DEF c
    <2> QED
      BY <1>3, <2>1, <2>2 DEF CallOK, Entering, Writing
  <1>6. /\ d \in Disks /\ d.imap = disk.imap /\ d.zmap = disk.zmap /\ d.data = disk.data
        /\ d.ptr = disk.ptr
        /\ \A j \in Inodes : d.inode[j] = IF j = call.bit THEN m ELSE disk.inode[j]
    <2> DEFINE b == call.bit
    <2>1. disk \in Disks /\ m \in Nodes
      BY <1>2, <1>4
    <2> HIDE DEF b
    <2>2. LET e == [disk EXCEPT !.inode[b] = m]
          IN  /\ e \in Disks /\ e.imap = disk.imap /\ e.zmap = disk.zmap /\ e.data = disk.data
              /\ e.ptr = disk.ptr
              /\ \A j \in Inodes : e.inode[j] = IF j = b THEN m ELSE disk.inode[j]
      BY <2>1, InodeUpdate
    <2> QED
      BY <2>2 DEF b
  <1>7. call.bit \in 0 .. NInodes /\ call.bit # 0
    BY <1>2, Numbers DEF Inodes
  <1>8. /\ full \in [Slots -> [ino : 0 .. NInodes, node : Nodes]]
        /\ \A t \in Slots : full[t] = IF t = s THEN [ino |-> call.bit, node |-> m] ELSE cache[t]
    BY <1>2, <1>3, <1>4, <1>7
  <1> HIDE DEF c, d, full
  <1>9. /\ disk' \in Disks /\ disk'.imap = disk.imap /\ disk'.zmap = disk.zmap
        /\ disk'.data = disk.data /\ disk'.ptr = disk.ptr
        /\ \A j \in Inodes : disk'.inode[j] = disk.inode[j] \/ disk'.inode[j] = m
    BY <1>1, <1>2, <1>6
  <1>10. /\ cache' \in [Slots -> [ino : 0 .. NInodes, node : Nodes]]
         /\ \A t \in Slots : \/ cache'[t] = cache[t]
                             \/ cache'[t].ino = call.bit /\ cache'[t].node = m
    <2>1. CASE cache' = full
      BY <1>8, <2>1
    <2>2. CASE cache' = cache
      BY <1>2, <2>2
    <2> QED
      BY <1>1, <2>1, <2>2
  <1>11. /\ CallOK(call') /\ call'.at \in {"insert", "idle"}
         /\ call'.at = "insert" => /\ call' = c /\ cache' = full /\ disk' = d
         /\ call'.at = "idle" => call'.what = "none"
    BY <1>1, <1>5, AnswerOK
  <1>12. MTypes'
    BY <1>1, <1>2, <1>9, <1>10, <1>11, FaultCount DEF MTypes, Remember
  <1>13. SlotsOK'
    <2>1. \A t \in Slots : cache'[t].ino = 0 => cache'[t].node.type = "none"
      BY <1>2, <1>7, <1>10 DEF SlotsOK
    <2>2. call'.what \in Entering => cache'[call'.dir].ino # 0 /\ cache'[call'.new].ino # 0
      <3>1. CASE call' = c /\ cache' = full
        BY <1>2, <1>3, <1>5, <1>7, <1>8, <3>1
      <3>2. CASE call'.at = "idle"
        BY <1>11, <3>2 DEF Entering
      <3> QED
        BY <1>11, <3>1, <3>2
    <2> QED
      BY <1>11, <2>1, <2>2 DEF SlotsOK, Writing
  <1>14. LinksMax \in Nat /\ LinksMax' \in Nat /\ LinksMax <= LinksMax'
    <2>1. Cardinality(disk.imap) \in Nat /\ Creating
      BY <1>1, <1>2, TakenFinite DEF Creating
    <2> QED
      BY <1>9, <2>1 DEF LinksMax
  <1>15. LinksBound'
    <2>1. /\ \A i \in Inodes : disk.inode[i].nlinks \in Nat
          /\ \A t \in Slots : cache[t].node.nlinks \in Nat
      <3>1. /\ \A i \in Inodes : disk.inode[i] \in Nodes
            /\ \A t \in Slots : cache[t].node \in Nodes
        BY <1>2 DEF Disks
      <3>2. \A n \in Nodes : n.nlinks \in Nat
        BY Numbers DEF Nodes
      <3> QED
        BY <3>1, <3>2
    <2>2. /\ \A i \in Inodes : disk'.inode[i].nlinks = disk.inode[i].nlinks
                               \/ disk'.inode[i].nlinks = m.nlinks
          /\ \A t \in Slots : cache'[t].node.nlinks = cache[t].node.nlinks
                               \/ cache'[t].node.nlinks = m.nlinks
      BY <1>9, <1>10
    <2>3. LinksMax >= 2 /\ m.nlinks <= LinksMax
      BY <1>2, <1>4, <1>14 DEF LinksBound
    <2> HIDE DEF LinksMax
    <2> QED
      BY <1>2, <1>4, <1>14, <2>1, <2>2, <2>3 DEF LinksBound
  <1>16. Owned' /\ Marked'
    <2> DEFINE N == IF call'.at = "insert" THEN {call.bit} ELSE {}
    <2>1. \A t \in Slots : cache'[t].ino \in Known \union {0} \union N
      <3>1. CASE call'.at = "insert"
        BY <1>2, <1>10, <3>1, CopiesType
      <3>2. CASE call'.at # "insert"
        <4>1. cache' = cache
          BY <1>1, <1>5, <3>2
        <4> QED
          BY <1>2, <4>1, CopiesType
      <3> QED
        BY <3>1, <3>2
    <2>2. \A i \in Inodes : (disk'.inode[i] = disk.inode[i] /\ i \notin N) \/ Bare(disk'.inode[i])
      <3>1. CASE call'.at = "insert"
        BY <1>4, <1>6, <1>11, <3>1
      <3>2. CASE call'.at # "insert"
        BY <1>4, <1>9, <3>2
      <3> QED
        BY <3>1, <3>2
    <2>3. \A t \in Slots : cache'[t] = cache[t] \/ cache'[t].ino = 0 \/ Bare(cache'[t].node)
      BY <1>4, <1>10
    <2>4. MTypes /\ Owned /\ Marked /\ Remember
      BY <1>1, <1>2
    <2> HIDE DEF N
    <2> QED
      BY <1>9, <2>1, <2>2, <2>3, <2>4, ZonesStay
  <1>17. InFlight'
    BY <1>11 DEF InFlight
  <1> QED
    BY <1>12, <1>13, <1>15, <1>16, <1>17 DEF ZInv

LEMMA UndoStep ==
  ASSUME ZInv, Undo PROVE ZInv'
  <1> DEFINE i == cache[call.new].ino
             S == disk.imap \ {i}
             d == [disk EXCEPT !.imap = S]
  <1>1. /\ call.at = "undo" /\ Remember /\ (faults' = faults \/ Fault)
        /\ disk' \in {disk, d} /\ call' = Answer(FALSE)
        /\ cache' = [cache EXCEPT ![call.new] = FreeSlot]
    BY DEF Undo, Rewrite, Goes
  <1>2. /\ MTypes /\ SlotsOK /\ LinksBound /\ Owned /\ Marked /\ CallOK(call)
        /\ disk \in Disks /\ cache \in [Slots -> [ino : 0 .. NInodes, node : Nodes]]
        /\ call.what \in Entering /\ call.new \in Slots
    BY <1>1 DEF ZInv, MTypes, CallOK
  <1> HIDE DEF i
  <1>3. /\ d \in Disks /\ d.imap = disk.imap \ {i} /\ d.zmap = disk.zmap
        /\ d.inode = disk.inode /\ d.data = disk.data /\ d.ptr = disk.ptr
    <2>1. S \subseteq Inodes
      BY <1>2 DEF Disks
    <2> HIDE DEF S
    <2>2. /\ d \in Disks /\ d.imap = S /\ d.zmap = disk.zmap
          /\ d.inode = disk.inode /\ d.data = disk.data /\ d.ptr = disk.ptr
      BY <1>2, <2>1, MapUpdates
    <2> QED
      BY <2>2 DEF S
  <1> HIDE DEF d
  <1>4. /\ disk' \in Disks /\ disk'.zmap = disk.zmap /\ disk'.inode = disk.inode
        /\ disk'.data = disk.data /\ disk'.ptr = disk.ptr
        /\ disk'.imap = disk.imap \/ disk'.imap = disk.imap \ {i}
    BY <1>1, <1>2, <1>3
  <1>5. FreeSlot \in [ino : 0 .. NInodes, node : Nodes] /\ FreeSlot.ino = 0 /\ FreeSlot.node = Blank
    BY BlankBare, Numbers DEF FreeSlot
  <1>6. /\ cache' \in [Slots -> [ino : 0 .. NInodes, node : Nodes]]
        /\ \A s \in Slots : cache'[s] = IF s = call.new THEN FreeSlot ELSE cache[s]
    BY <1>1, <1>2, <1>5
  <1>7. CallOK(call') /\ call'.what = "none" /\ call'.at = "idle"
    BY <1>1, AnswerOK
  <1>8. MTypes'
    BY <1>1, <1>2, <1>4, <1>6, <1>7, FaultCount DEF MTypes, Remember
  <1>9. SlotsOK'
    BY <1>2, <1>5, <1>6, <1>7, BlankBare DEF SlotsOK, Entering, Writing
  <1>10. LinksMax \in Nat /\ LinksMax' \in Nat /\ LinksMax <= LinksMax'
    <2>1. IsFiniteSet(disk.imap) /\ Cardinality(disk.imap) \in Nat
      BY <1>2, TakenFinite
    <2>2. LinksMax = Cardinality(disk.imap) /\ LinksMax' = Cardinality(disk'.imap) + 1
      BY <1>2, <1>7, <2>1 DEF LinksMax, Creating, Entering
    <2>3. Cardinality(disk.imap \ {i}) \in {Cardinality(disk.imap), Cardinality(disk.imap) - 1}
      <3>1. CASE i \in disk.imap
        BY <2>1, <3>1, FS_RemoveElement
      <3>2. CASE i \notin disk.imap
        <4>1. disk.imap \ {i} = disk.imap
          BY <3>2
        <4> QED
          BY <4>1
      <3> QED
        BY <3>1, <3>2
    <2>4. Cardinality(disk.imap \ {i}) \in Nat
      BY <2>1, FS_Subset, FS_CardinalityType
    <2>5. \/ Cardinality(disk'.imap) = Cardinality(disk.imap)
          \/ Cardinality(disk'.imap) = Cardinality(disk.imap \ {i})
      BY <1>4
    <2> QED
      BY <2>1, <2>2, <2>3, <2>4, <2>5
  <1>11. LinksBound'
    <2>1. /\ \A j \in Inodes : disk.inode[j].nlinks \in Nat
          /\ \A s \in Slots : cache[s].node.nlinks \in Nat
      BY <1>2, Numbers DEF Disks, Nodes
    <2> HIDE DEF LinksMax
    <2> QED
      BY <1>2, <1>4, <1>5, <1>6, <1>10, <2>1, BlankBare DEF LinksBound
  <1>12. Owned' /\ Marked'
    <2> DEFINE N == {}
    <2>1. \A s \in Slots : cache'[s].ino \in Known \union {0} \union N
      BY <1>2, <1>5, <1>6, CopiesType
    <2>2. \A j \in Inodes : disk'.inode[j] = disk.inode[j] /\ j \notin N
      BY <1>4
    <2>3. \A s \in Slots : cache'[s] = cache[s] \/ cache'[s].ino = 0
      BY <1>5, <1>6
    <2>4. MTypes /\ Owned /\ Marked /\ Remember
      BY <1>1, <1>2
    <2> HIDE DEF N
    <2> QED
      BY <1>4, <2>1, <2>2, <2>3, <2>4, ZonesStay
  <1>13. InFlight'
    BY <1>7 DEF InFlight
  <1> QED
    BY <1>8, <1>9, <1>11, <1>12, <1>13 DEF ZInv

(* What is mounted is on the disk.                                           *)
LEMMA CrashStep ==
  ASSUME ZInv, Crash PROVE ZInv'
  <1>1. /\ crashes < MaxCrashes /\ crashes' = crashes + 1 /\ cache' = Mounted(disk)
        /\ call' = Idle /\ UNCHANGED <<disk, faults, made, lost, half>>
    BY DEF Crash, Goes
  <1>2. /\ MTypes /\ SlotsOK /\ LinksBound /\ Owned /\ Marked
        /\ disk \in Disks /\ crashes \in 0 .. MaxCrashes
    BY DEF ZInv, MTypes
  <1>3. FreeSlot \in [ino : 0 .. NInodes, node : Nodes] /\ FreeSlot.ino = 0 /\ FreeSlot.node = Blank
    BY BlankBare, Numbers DEF FreeSlot
  <1>4. Root \in Inodes /\ Root # 0 /\ Root \in 0 .. NInodes /\ disk.inode[Root] \in Nodes
    BY <1>2, Numbers DEF Inodes, Disks
  <1>5. /\ cache' \in [Slots -> [ino : 0 .. NInodes, node : Nodes]]
        /\ \A s \in Slots : \/ cache'[s].ino = Root /\ cache'[s].node = disk.inode[Root]
                            \/ cache'[s] = FreeSlot
    BY <1>1, <1>3, <1>4 DEF Mounted
  <1>6. CallOK(call') /\ call'.what = "none" /\ call'.at = "idle"
    <2>1. Idle \in Calls
      BY CallValues DEF Idle, Calls
    <2>2. Idle.at = "idle" /\ Idle.what = "none" /\ Idle.n = 0 /\ Idle.done = 0
      BY DEF Idle
    <2> QED
      BY <1>1, <2>1, <2>2, IdleOK
  <1>7. MTypes'
    BY <1>1, <1>2, <1>5, <1>6, Numbers DEF MTypes
  <1>8. SlotsOK'
    BY <1>3, <1>4, <1>5, <1>6, BlankBare DEF SlotsOK, Entering, Writing
  <1>9. LinksMax \in Nat /\ LinksMax' \in Nat /\ LinksMax <= LinksMax'
    <2>1. Cardinality(disk.imap) \in Nat
      BY <1>2, TakenFinite
    <2> QED
      BY <1>1, <1>6, <2>1 DEF LinksMax, Creating, Entering
  <1>10. LinksBound'
    <2>1. \A i \in Inodes : disk.inode[i].nlinks \in Nat
      BY <1>2, Numbers DEF Disks, Nodes
    <2>2. \A s \in Slots : cache'[s].node = disk.inode[Root] \/ cache'[s].node = Blank
      BY <1>3, <1>5
    <2> HIDE DEF LinksMax
    <2> QED
      BY <1>1, <1>2, <1>4, <1>9, <2>1, <2>2, BlankBare DEF LinksBound
  <1>11. Owned' /\ Marked'
    <2>1. Known' \subseteq Known \union {}
      <3>1. \A z \in Zones, p \in 0 .. PerBlock - 1 : disk'.data[z][p].ino \in Known \union {0}
        BY <1>1, <1>2, EntryKnown
      <3>2. \A s \in Slots : cache'[s].ino \in Known \union {0} \union {}
        BY <1>3, <1>4, <1>5 DEF Known
      <3>3. \A m \in made' : m \in made \/ m[1] \in Known \union {0}
        BY <1>1
      <3> QED
        BY <1>2, <3>1, <3>2, <3>3, KnownStep
    <2>2. ASSUME NEW c \in Copies' PROVE c \in Copies
      <3>1. <<Root, disk.inode[Root]>> \in Copies
        BY <1>2, <1>4, CopiesType DEF Known
      <3>2. CASE \E i \in Known' : c = <<i, disk'.inode[i]>>
        BY <1>1, <1>2, <2>1, <3>2, CopiesType
      <3>3. CASE \E s \in Slots : cache'[s].ino # 0 /\ c = <<cache'[s].ino, cache'[s].node>>
        BY <1>3, <1>5, <3>1, <3>3
      <3> QED
        BY <3>2, <3>3 DEF Copies
    <2>3. Refs' \subseteq Refs
      BY <1>1, <1>2, <2>2, RefsKept DEF SameZones
    <2> QED
      BY <1>1, <1>2, <2>3, RefsShrink
  <1>12. InFlight'
    BY <1>6 DEF InFlight
  <1> QED
    BY <1>7, <1>8, <1>10, <1>11, <1>12 DEF ZInv

(* The creation is over, and what it took can be counted.                    *)
LEMMA ParentLinksStep ==
  ASSUME ZInv, ParentLinks PROVE ZInv'
  <1> DEFINE old == cache[call.dir].node
             i == cache[call.dir].ino
             m == [old EXCEPT !.nlinks = @ + 1]
             d == [disk EXCEPT !.inode[i] = m]
  <1>1. /\ call.at = "links" /\ Remember /\ (faults' = faults \/ Fault)
        /\ disk' \in {disk, d} /\ \E ok \in BOOLEAN : call' = Answer(ok)
        /\ cache' = [cache EXCEPT ![call.dir].node = m]
    BY DEF ParentLinks, Rewrite, Goes
  <1>2. /\ MTypes /\ SlotsOK /\ LinksBound /\ Owned /\ Marked /\ CallOK(call)
        /\ disk \in Disks /\ cache \in [Slots -> [ino : 0 .. NInodes, node : Nodes]]
        /\ call.what \in Entering /\ call.dir \in Slots /\ i # 0 /\ old \in Nodes
    BY <1>1 DEF ZInv, MTypes, CallOK, SlotsOK
  <1>3. LinksMax = Cardinality(disk.imap) /\ LinksMax \in Nat /\ LinksMax <= NInodes
    <2>1. Cardinality(disk.imap) \in Nat /\ Cardinality(disk.imap) <= NInodes
      BY <1>2, TakenFinite
    <2> QED
      BY <1>2, <2>1 DEF LinksMax, Creating
  <1>4. i \in Known /\ <<i, old>> \in Copies
    BY <1>2, CopiesType
  <1>5. old.nlinks \in Nat /\ old.nlinks <= LinksMax
    BY <1>2, Numbers DEF LinksBound, Nodes
  <1> HIDE DEF i, old
  <1>6. /\ m \in Nodes /\ m.type = old.type /\ m.zone = old.zone /\ m.ind = old.ind
        /\ m.nlinks = old.nlinks + 1
    <2>1. old.nlinks + 1 \in 0 .. NInodes + 1
      BY <1>3, <1>5, Numbers
    <2> QED
      BY <1>2, <2>1 DEF Nodes
  <1> HIDE DEF m
  <1>7. /\ d \in Disks /\ d.imap = disk.imap /\ d.zmap = disk.zmap /\ d.data = disk.data
        /\ d.ptr = disk.ptr
        /\ \A j \in Inodes : d.inode[j] = IF j = i THEN m ELSE disk.inode[j]
    BY <1>2, <1>6, InodeUpdate
  <1> HIDE DEF d
  <1>8. /\ disk' \in Disks /\ disk'.imap = disk.imap /\ disk'.zmap = disk.zmap
        /\ disk'.data = disk.data /\ disk'.ptr = disk.ptr
        /\ \A j \in Inodes : disk'.inode[j] = disk.inode[j] \/ (j = i /\ disk'.inode[j] = m)
    BY <1>1, <1>2, <1>7
  <1>9. /\ cache' \in [Slots -> [ino : 0 .. NInodes, node : Nodes]]
        /\ \A s \in Slots : /\ cache'[s].ino = cache[s].ino
                            /\ cache'[s].node = IF s = call.dir THEN m ELSE cache[s].node
    BY <1>1, <1>2, <1>6
  <1>10. CallOK(call') /\ call'.what = "none" /\ call'.at = "idle"
    BY <1>1, AnswerOK
  <1>11. MTypes'
    BY <1>1, <1>2, <1>8, <1>9, <1>10, FaultCount DEF MTypes, Remember
  <1>12. SlotsOK'
    <2>1. \A s \in Slots : cache[s].ino = 0 => s # call.dir
      BY <1>2 DEF i
    <2> QED
      BY <1>2, <1>9, <1>10, <2>1 DEF SlotsOK, Entering, Writing
  <1>13. LinksMax' = LinksMax + 1
    BY <1>3, <1>8, <1>10 DEF LinksMax, Creating, Entering
  <1>14. LinksBound'
    <2>1. /\ \A j \in Inodes : disk.inode[j].nlinks \in Nat
          /\ \A s \in Slots : cache[s].node.nlinks \in Nat
      <3>1. /\ \A j \in Inodes : disk.inode[j] \in Nodes
            /\ \A s \in Slots : cache[s].node \in Nodes
        BY <1>2 DEF Disks
      <3>2. \A n \in Nodes : n.nlinks \in Nat
        BY Numbers DEF Nodes
      <3> QED
        BY <3>1, <3>2
    <2> HIDE DEF LinksMax
    <2>2. /\ \A j \in Inodes : disk'.inode[j].nlinks <= LinksMax + 1
          /\ \A s \in Slots : cache'[s].node.nlinks <= LinksMax + 1
      BY <1>2, <1>3, <1>5, <1>6, <1>8, <1>9, <2>1 DEF LinksBound
    <2> QED
      BY <1>2, <1>3, <1>13, <2>2 DEF LinksBound
  <1>15. Owned' /\ Marked'
    <2>1. Known' \subseteq Known \union {}
      <3>1. \A z \in Zones, p \in 0 .. PerBlock - 1 : disk'.data[z][p].ino \in Known \union {0}
        BY <1>2, <1>8, EntryKnown
      <3>2. \A s \in Slots : cache'[s].ino \in Known \union {0} \union {}
        BY <1>2, <1>9, CopiesType
      <3> QED
        BY <1>1, <1>2, <3>1, <3>2, MadeStep, KnownStep
    <2>2. ASSUME NEW c \in Copies' PROVE \E b \in Copies : SameZones(c, b)
      <3>1. CASE c = <<i, m>>
        BY <1>4, <1>6, <3>1 DEF SameZones
      <3>2. CASE c \in Copies
        BY <3>2 DEF SameZones
      <3>3. CASE \E j \in Known' : c = <<j, disk'.inode[j]>>
        <4>1. PICK j \in Known' : c = <<j, disk'.inode[j]>>
          BY <3>3
        <4>2. j \in Inodes /\ <<j, disk.inode[j]>> \in Copies
          BY <1>2, <2>1, CopiesType DEF Known
        <4> QED
          BY <1>8, <3>1, <3>2, <4>1, <4>2
      <3>4. CASE \E s \in Slots : cache'[s].ino # 0 /\ c = <<cache'[s].ino, cache'[s].node>>
        <4>1. PICK s \in Slots : cache'[s].ino # 0 /\ c = <<cache'[s].ino, cache'[s].node>>
          BY <3>4
        <4>2. CASE s = call.dir
          BY <1>9, <3>1, <4>1, <4>2 DEF i
        <4>3. CASE s # call.dir
          BY <1>2, <1>9, <3>2, <4>1, <4>3, CopiesType
        <4> QED
          BY <4>2, <4>3
      <3> QED
        BY <3>3, <3>4 DEF Copies
    <2>3. Refs' \subseteq Refs
      BY <1>2, <1>8, <2>2, RefsKept
    <2> QED
      BY <1>2, <1>8, <2>3, RefsShrink
  <1>16. InFlight'
    BY <1>10 DEF InFlight
  <1> QED
    BY <1>11, <1>12, <1>14, <1>15, <1>16 DEF ZInv

-----------------------------------------------------------------------------
(* The steps of a write. *)

(* zona_alloca marks a zone that was free, and so nobody's.                  *)
LEMMA AccendiZonaStep ==
  ASSUME ZInv, AccendiZona PROVE ZInv'
  <1>0. PICK z : z = Min(FreeZones)
    OBVIOUS
  <1> DEFINE a == [call EXCEPT !.at = "zero", !.ind = z]
             b == [call EXCEPT !.at = "zero", !.z = z]
             S == disk.zmap \union {z}
             d == [disk EXCEPT !.zmap = S]
  <1>1. /\ call.at = "zmap" /\ FreeZones # {} /\ Remember /\ cache' = cache
        /\ (faults' = faults \/ Fault)
        /\ disk' \in {disk, d}
        /\ \/ disk' = d /\ call' = IF call.indirect THEN a ELSE b
           \/ call' = Break
    BY <1>0 DEF AccendiZona, Rewrite, Goes
  <1>2. /\ MTypes /\ SlotsOK /\ LinksBound /\ Owned /\ Marked /\ CallOK(call) /\ call \in Calls
        /\ disk \in Disks /\ cache \in [Slots -> [ino : 0 .. NInodes, node : Nodes]]
        /\ call.done <= call.n /\ call.done \in Nat
        /\ call.done > 0 => call.off <= MaxSize
        /\ call.indirect => call.z \in Zones /\ Fresh(call.z)
    BY <1>1 DEF ZInv, MTypes, CallOK, Calls, Writing, InFlight
  <1>3. z \in Zones /\ z \notin disk.zmap /\ z \in OrNone(Zones)
    <2>1. FreeZones \in SUBSET Nat
      BY Numbers DEF FreeZones, Zones
    <2>2. z \in FreeZones
      BY <1>0, <1>1, <2>1, MinExists
    <2> QED
      BY <2>2, CallValues DEF FreeZones
  <1>4. {"zero", "zmap"} \subseteq CallPlaces /\ {"zero", "zmap"} \subseteq Writing
    BY CallValues
  <1>5. call.indirect => /\ Continues(a) /\ a.at = "zero" /\ a.indirect = call.indirect
                         /\ a.z = call.z /\ a.ind = z
    <2>1. /\ a \in Calls /\ a.at = "zero" /\ a.ind = z /\ a.what = call.what
          /\ a.dir = call.dir /\ a.new = call.new /\ a.slot = call.slot /\ a.n = call.n
          /\ a.done = call.done /\ a.off = call.off /\ a.z = call.z
          /\ a.indirect = call.indirect
      BY <1>2, <1>3, <1>4 DEF Calls
    <2> HIDE DEF a
    <2> QED
      BY <1>1, <1>2, <1>3, <1>4, <2>1, WriteCall
  <1>6. ~call.indirect => /\ Continues(b) /\ b.at = "zero" /\ b.indirect = call.indirect
                          /\ b.z = z
    <2>1. /\ b \in Calls /\ b.at = "zero" /\ b.z = z /\ b.what = call.what
          /\ b.dir = call.dir /\ b.new = call.new /\ b.slot = call.slot /\ b.n = call.n
          /\ b.done = call.done /\ b.off = call.off /\ b.indirect = call.indirect
      BY <1>2, <1>3, <1>4 DEF Calls
    <2> HIDE DEF b
    <2> QED
      BY <1>1, <1>2, <1>3, <1>4, <2>1, WriteCall
  <1> HIDE DEF a, b
  <1>7. /\ d \in Disks /\ d.zmap = disk.zmap \union {z} /\ d.imap = disk.imap
        /\ d.inode = disk.inode /\ d.data = disk.data /\ d.ptr = disk.ptr
    <2>1. S \subseteq Zones
      BY <1>2, <1>3 DEF Disks
    <2> HIDE DEF S
    <2>2. /\ d \in Disks /\ d.zmap = S /\ d.imap = disk.imap
          /\ d.inode = disk.inode /\ d.data = disk.data /\ d.ptr = disk.ptr
      BY <1>2, <2>1, MapUpdates
    <2> QED
      BY <2>2 DEF S
  <1> HIDE DEF d
  <1>8. /\ disk' \in Disks /\ disk.zmap \subseteq disk'.zmap /\ disk'.imap = disk.imap
        /\ disk'.inode = disk.inode /\ disk'.data = disk.data /\ disk'.ptr = disk.ptr
    BY <1>1, <1>2, <1>7
  <1>9. Break.at \in {"idle", "undo", "insert", "links", "size"} /\ Continues(Break)
    BY <1>1, <1>2, <1>4, BreakOK
  <1>10. MTypes' /\ SlotsOK' /\ LinksBound'
    <2>1. Continues(call') /\ call'.at \notin {"imap", "erase", "inode"}
      BY <1>1, <1>5, <1>6, <1>9
    <2> QED
      BY <1>1, <1>2, <1>8, <2>1, FaultCount, CallStep DEF LinksBound, SlotsOK, Remember
  <1>11. Refs' \subseteq Refs
    <2>1. Known' \subseteq Known \union {}
      <3>1. \A y \in Zones, p \in 0 .. PerBlock - 1 : disk'.data[y][p].ino \in Known \union {0}
        BY <1>2, <1>8, EntryKnown
      <3>2. \A s \in Slots : cache'[s].ino \in Known \union {0} \union {}
        BY <1>1, <1>2, CopiesType
      <3> QED
        BY <1>1, <1>2, <3>1, <3>2, MadeStep, KnownStep
    <2>2. \A c \in Copies' : c \in Copies
      BY <1>1, <1>8, <2>1 DEF Copies
    <2> QED
      BY <1>2, <1>8, <2>2, RefsKept DEF SameZones
  <1>12. Owned' /\ Marked' /\ \A y \in Zones : Fresh(y) => Fresh(y)'
    BY <1>2, <1>8, <1>11, RefsShrink
  <1>13. disk' = d => Fresh(z)'
    <2>1. \A r \in Refs' : r[3] # z
      BY <1>2, <1>3, <1>11 DEF Marked
    <2> QED
      BY <1>7, <2>1 DEF Fresh
  <1>14. InFlight'
    <2>1. CASE disk' = d /\ call' = a /\ call.indirect
      <3>1. /\ z # call.z /\ Fresh(z)'
            /\ call.z \in disk'.zmap /\ \A r \in Refs' : r[3] # call.z
        BY <1>2, <1>3, <1>8, <1>11, <1>13, <2>1 DEF Fresh
      <3> QED
        BY <1>5, <2>1, <3>1 DEF InFlight, Fresh
    <2>2. CASE disk' = d /\ call' = b /\ ~call.indirect
      BY <1>6, <1>13, <2>2 DEF InFlight, Fresh
    <2>3. CASE call' = Break
      BY <1>9, <2>3 DEF InFlight
    <2> QED
      BY <1>1, <2>1, <2>2, <2>3
  <1> QED
    BY <1>10, <1>12, <1>14 DEF ZInv

(* zona_azzera writes a zone that is nobody's.                               *)
LEMMA AzzeraZonaStep ==
  ASSUME ZInv, AzzeraZona PROVE ZInv'
  <1>0. PICK a : a = Allocated
    OBVIOUS
  <1> DEFINE c == [call EXCEPT !.at = "assign"]
             d == [disk EXCEPT !.data[a] = Zeroes, !.ptr[a] = NoPtrs]
  <1>1. /\ call.at = "zero" /\ Remember /\ cache' = cache
        /\ (faults' = faults \/ Fault)
        /\ disk' \in {disk, d}
        /\ \/ disk' = d /\ call' = c
           \/ call' = Break
    BY <1>0 DEF AzzeraZona, Rewrite, Goes
  <1>2. /\ MTypes /\ SlotsOK /\ LinksBound /\ Owned /\ Marked /\ CallOK(call) /\ call \in Calls
        /\ disk \in Disks /\ cache \in [Slots -> [ino : 0 .. NInodes, node : Nodes]]
        /\ call.done <= call.n /\ call.done \in Nat
        /\ call.done > 0 => call.off <= MaxSize
        /\ call.z \in Zones /\ Fresh(call.z)
        /\ call.indirect => call.ind \in Zones /\ Fresh(call.ind) /\ call.ind # call.z
    BY <1>1 DEF ZInv, MTypes, CallOK, Calls, Writing, InFlight
  <1>3. a \in Zones /\ Fresh(a) /\ a = IF call.indirect THEN call.ind ELSE call.z
    BY <1>0, <1>2 DEF Allocated
  <1>4. {"assign", "zero"} \subseteq CallPlaces /\ {"assign", "zero"} \subseteq Writing
    BY CallValues
  <1>5. /\ Continues(c) /\ c.at = "assign" /\ c.z = call.z /\ c.ind = call.ind
        /\ c.indirect = call.indirect
    <2>1. /\ c \in Calls /\ c.at = "assign" /\ c.ind = call.ind /\ c.what = call.what
          /\ c.dir = call.dir /\ c.new = call.new /\ c.slot = call.slot /\ c.n = call.n
          /\ c.done = call.done /\ c.off = call.off /\ c.z = call.z
          /\ c.indirect = call.indirect
      BY <1>2, <1>4 DEF Calls
    <2> HIDE DEF c
    <2> QED
      BY <1>1, <1>2, <1>4, <2>1, WriteCall
  <1> HIDE DEF c
  <1>6. /\ d \in Disks /\ d.imap = disk.imap /\ d.zmap = disk.zmap /\ d.inode = disk.inode
        /\ \A y \in Zones : d.data[y] = IF y = a THEN Zeroes ELSE disk.data[y]
        /\ \A y \in Zones : d.ptr[y] = IF y = a THEN NoPtrs ELSE disk.ptr[y]
    BY <1>2, ZeroUpdate
  <1> HIDE DEF d
  <1>7. /\ disk' \in Disks /\ disk'.zmap = disk.zmap /\ disk'.imap = disk.imap
        /\ disk'.inode = disk.inode
        /\ \A y \in Zones : disk'.data[y] = disk.data[y] \/ disk'.data[y] = Zeroes
        /\ \A y \in Zones : disk'.ptr[y] = disk.ptr[y] \/ y = a
    BY <1>1, <1>2, <1>6
  <1>8. Break.at \in {"idle", "undo", "insert", "links", "size"} /\ Continues(Break)
    BY <1>1, <1>2, <1>4, BreakOK
  <1>9. MTypes' /\ SlotsOK' /\ LinksBound'
    <2>1. Continues(call') /\ call'.at \notin {"imap", "erase", "inode"}
      BY <1>1, <1>5, <1>8
    <2> QED
      BY <1>1, <1>2, <1>7, <2>1, FaultCount, CallStep DEF LinksBound, SlotsOK, Remember
  <1>10. Refs' \subseteq Refs
    <2>1. Known' \subseteq Known \union {}
      <3>1. \A y \in Zones, p \in 0 .. PerBlock - 1 : disk'.data[y][p].ino \in Known \union {0}
        <4>1. \A p \in 0 .. PerBlock - 1 : Zeroes[p].ino = 0
          BY EntryTypes DEF Zeroes
        <4> QED
          BY <1>2, <1>7, <4>1, EntryKnown
      <3>2. \A s \in Slots : cache'[s].ino \in Known \union {0} \union {}
        BY <1>1, <1>2, CopiesType
      <3> QED
        BY <1>1, <1>2, <3>1, <3>2, MadeStep, KnownStep
    <2>2. \A c1 \in Copies' : c1 \in Copies
      BY <1>1, <1>7, <2>1 DEF Copies
    <2> QED
      BY <1>2, <1>3, <1>7, <2>2, RefsKept DEF SameZones
  <1>11. Owned' /\ Marked'
    BY <1>2, <1>7, <1>10, RefsShrink
  <1>12. InFlight'
    <2>1. CASE disk' = d /\ call' = c
      <3>1. /\ call.z \in disk'.zmap /\ \A r \in Refs' : r[3] # call.z
            /\ call.indirect => /\ call.ind \in disk'.zmap /\ \A r \in Refs' : r[3] # call.ind
                                /\ disk'.ptr[call.ind] = NoPtrs
        BY <1>2, <1>3, <1>6, <1>7, <1>10, <2>1 DEF Fresh
      <3> QED
        BY <1>2, <1>5, <2>1, <3>1 DEF InFlight, Fresh
    <2>2. CASE call' = Break
      BY <1>8, <2>2 DEF InFlight
    <2> QED
      BY <1>1, <2>1, <2>2
  <1> QED
    BY <1>9, <1>11, <1>12 DEF ZInv

(* What a saved inode holds more than before.                                *)
LEMMA SavedRefs ==
  ASSUME MTypes, disk'.ptr = disk.ptr, NEW i, NEW t, NEW m, <<i, t>> \in Copies,
         \A c \in Copies' : c \in Copies \/ c = <<i, m>>,
         NEW n, NEW a,
         \A k, z : PlaceHolds(disk.ptr, m, k, z) =>
                     PlaceHolds(disk.ptr, t, k, z) \/ (k = n /\ z = a)
  PROVE  Refs' \subseteq Refs \union {<<i, n, a>>}
  <1> SUFFICES ASSUME NEW r \in Refs' PROVE r \in Refs \union {<<i, n, a>>}
    OBVIOUS
  <1>1. PICK c \in Copies' : c[1] = r[1] /\ PlaceHolds(disk.ptr, c[2], r[2], r[3])
    BY DEF Refs
  <1>2. r \in Inodes \X PlaceNos \X Zones
    BY DEF Refs
  <1>3. CASE c \in Copies
    BY <1>1, <1>2, <1>3 DEF Refs
  <1>4. CASE c = <<i, m>>
    <2>1. CASE PlaceHolds(disk.ptr, t, r[2], r[3])
      BY <1>1, <1>2, <1>4, <2>1 DEF Refs
    <2>2. CASE r[2] = n /\ r[3] = a
      BY <1>1, <1>2, <1>4, <2>2
    <2> QED
      BY <1>1, <1>4, <2>1, <2>2
  <1> QED
    BY <1>3, <1>4

(* zona_assegna, in the inode.                                               *)
LEMMA AssignDirectStep ==
  ASSUME ZInv, AssignDirect PROVE ZInv'
  <1> DEFINE m == [Target.node EXCEPT !.zone[Logical] = call.z]
             c == [call EXCEPT !.at = "data"]
  <1>1. /\ call.at = "assign" /\ Logical < ZONE_DIRETTE /\ Save(m, c, Break) /\ Remember
    BY DEF AssignDirect
  <1>2. /\ MTypes /\ SlotsOK /\ LinksBound /\ Owned /\ Marked /\ CallOK(call) /\ call \in Calls
        /\ disk \in Disks /\ cache \in [Slots -> [ino : 0 .. NInodes, node : Nodes]]
        /\ call.done <= call.n /\ call.done \in Nat
        /\ call.done > 0 => call.off <= MaxSize
        /\ call.z \in Zones /\ Fresh(call.z) /\ call.off \in Nat
        /\ Target.node \in Nodes /\ Target.node.nlinks <= LinksMax
    BY <1>1 DEF ZInv, MTypes, CallOK, Calls, Writing, InFlight, Target, LinksBound
  <1>3. Logical \in 0 .. ZONE_DIRETTE - 1 /\ call.z \in 0 .. NZones
    BY <1>1, <1>2, DivMod, Numbers DEF Logical, Zones
  <1>4. {"assign", "data"} \subseteq CallPlaces /\ {"assign", "data"} \subseteq Writing
    BY CallValues
  <1>5. Continues(c) /\ c.at = "data"
    <2>1. /\ c \in Calls /\ c.at = "data" /\ c.ind = call.ind /\ c.what = call.what
          /\ c.dir = call.dir /\ c.new = call.new /\ c.slot = call.slot /\ c.n = call.n
          /\ c.done = call.done /\ c.off = call.off /\ c.z = call.z
      BY <1>2, <1>4 DEF Calls
    <2>2. c.off \div PerBlock < ZONE_DIRETTE + PTR_PER_BLOCCO
      BY <1>3, <2>1, Numbers DEF Logical
    <2> HIDE DEF c
    <2> QED
      BY <1>1, <1>2, <1>4, <2>1, <2>2, WriteCall
  <1> HIDE DEF c
  <1>6. /\ m \in Nodes /\ m.type = Target.node.type /\ m.ind = Target.node.ind
        /\ m.nlinks = Target.node.nlinks
        /\ \A l \in 0 .. ZONE_DIRETTE - 1 :
              m.zone[l] = IF l = Logical THEN call.z ELSE Target.node.zone[l]
    <2> DEFINE t == Target.node
    <2>1. t \in Nodes
      BY <1>2
    <2> HIDE DEF t
    <2>2. \A k \in 0 .. ZONE_DIRETTE - 1, z \in 0 .. NZones :
              LET n == [t EXCEPT !.zone[k] = z]
              IN  /\ n \in Nodes /\ n.type = t.type /\ n.ind = t.ind
                  /\ n.nlinks = t.nlinks
                  /\ \A l \in 0 .. ZONE_DIRETTE - 1 : n.zone[l] = IF l = k THEN z ELSE t.zone[l]
      BY <2>1, NodeUpdates
    <2> QED
      BY <1>3, <2>2 DEF t
  <1> HIDE DEF m
  <1>7. Break.at \in {"idle", "undo", "insert", "links", "size"} /\ Continues(Break)
    BY <1>1, <1>2, <1>4, BreakOK
  <1>8. /\ disk' \in Disks /\ disk'.imap = disk.imap /\ disk'.zmap = disk.zmap
        /\ disk'.ptr = disk.ptr
        /\ cache' \in [Slots -> [ino : 0 .. NInodes, node : Nodes]]
        /\ \A s \in Slots : cache'[s].ino = cache[s].ino
        /\ \A s \in Slots : cache[s].ino = 0 => cache'[s].node.type = "none"
        /\ call' \in {c, Break} /\ faults' \in 0 .. MaxFaults /\ crashes' = crashes
        /\ \A i \in Inodes : disk'.inode[i].nlinks <= LinksMax
        /\ \A s \in Slots : cache'[s].node.nlinks <= LinksMax
        /\ Target.ino \in Known /\ <<Target.ino, Target.node>> \in Copies
        /\ \A b \in Copies' : b \in Copies \/ b = <<Target.ino, m>>
    <2>1. call.at \in Writing /\ m.nlinks <= LinksMax
      BY <1>1, <1>2, <1>4, <1>6
    <2> QED
      BY <1>1, <1>2, <1>6, <2>1, SaveStep
  <1>9. MTypes' /\ SlotsOK' /\ LinksBound'
    <2>1. Continues(call') /\ call'.at \notin {"imap", "erase", "inode"}
      BY <1>5, <1>7, <1>8
    <2> QED
      BY <1>2, <1>8, <2>1, CallStep
  <1>10. Owned' /\ Marked'
    <2>1. ASSUME NEW k, NEW z, PlaceHolds(disk.ptr, m, k, z)
          PROVE  PlaceHolds(disk.ptr, Target.node, k, z) \/ (k = Logical /\ z = call.z)
      BY <1>6, <2>1 DEF PlaceHolds
    <2>2. Refs' \subseteq Refs \union {<<Target.ino, Logical, call.z>>}
      BY <1>2, <1>8, <2>1, SavedRefs
    <2> QED
      BY <1>2, <1>8, <2>2, RefsGrow
  <1>11. InFlight'
    BY <1>5, <1>7, <1>8 DEF InFlight
  <1> QED
    BY <1>9, <1>10, <1>11 DEF ZInv

(* The indirect block goes in the inode, with no pointer in it yet.          *)
LEMMA AssignIndirectBlockStep ==
  ASSUME ZInv, AssignIndirectBlock PROVE ZInv'
  <1> DEFINE m == [Target.node EXCEPT !.ind = call.ind]
             c == [call EXCEPT !.indirect = FALSE]
  <1>1. call.at = "assign" /\ call.indirect /\ Save(m, c, Break) /\ Remember
    BY DEF AssignIndirectBlock
  <1>2. /\ MTypes /\ SlotsOK /\ LinksBound /\ Owned /\ Marked /\ CallOK(call) /\ call \in Calls
        /\ disk \in Disks /\ cache \in [Slots -> [ino : 0 .. NInodes, node : Nodes]]
        /\ call.done <= call.n /\ call.done \in Nat
        /\ call.done > 0 => call.off <= MaxSize
        /\ call.z \in Zones /\ Fresh(call.z)
        /\ call.ind \in Zones /\ Fresh(call.ind) /\ call.ind # call.z
        /\ disk.ptr[call.ind] = NoPtrs
        /\ Target.node \in Nodes /\ Target.node.nlinks <= LinksMax
    BY <1>1 DEF ZInv, MTypes, CallOK, Calls, Writing, InFlight, Target, LinksBound
  <1>3. call.ind \in 0 .. NZones
    BY <1>2, Numbers DEF Zones
  <1>4. "assign" \in CallPlaces /\ "assign" \in Writing
    BY CallValues
  <1>5. Continues(c) /\ c.at = "assign" /\ c.indirect = FALSE /\ c.z = call.z
    <2>1. /\ c \in Calls /\ c.at = "assign" /\ c.ind = call.ind /\ c.what = call.what
          /\ c.dir = call.dir /\ c.new = call.new /\ c.slot = call.slot /\ c.n = call.n
          /\ c.done = call.done /\ c.off = call.off /\ c.z = call.z /\ c.indirect = FALSE
      BY <1>1, <1>2, <1>4 DEF Calls
    <2> HIDE DEF c
    <2> QED
      BY <1>1, <1>2, <1>4, <2>1, WriteCall
  <1> HIDE DEF c
  <1>6. /\ m \in Nodes /\ m.type = Target.node.type /\ m.zone = Target.node.zone
        /\ m.nlinks = Target.node.nlinks /\ m.ind = call.ind
    <2> DEFINE t == Target.node
    <2>1. t \in Nodes
      BY <1>2
    <2> HIDE DEF t
    <2>2. \A z \in 0 .. NZones :
              LET n == [t EXCEPT !.ind = z]
              IN  /\ n \in Nodes /\ n.type = t.type /\ n.ind = z
                  /\ n.nlinks = t.nlinks /\ n.zone = t.zone
      BY <2>1, NodeUpdates
    <2> QED
      BY <1>3, <2>2 DEF t
  <1> HIDE DEF m
  <1>7. Break.at \in {"idle", "undo", "insert", "links", "size"} /\ Continues(Break)
    BY <1>1, <1>2, <1>4, BreakOK
  <1>8. /\ disk' \in Disks /\ disk'.imap = disk.imap /\ disk'.zmap = disk.zmap
        /\ disk'.ptr = disk.ptr
        /\ cache' \in [Slots -> [ino : 0 .. NInodes, node : Nodes]]
        /\ \A s \in Slots : cache'[s].ino = cache[s].ino
        /\ \A s \in Slots : cache[s].ino = 0 => cache'[s].node.type = "none"
        /\ call' \in {c, Break} /\ faults' \in 0 .. MaxFaults /\ crashes' = crashes
        /\ \A i \in Inodes : disk'.inode[i].nlinks <= LinksMax
        /\ \A s \in Slots : cache'[s].node.nlinks <= LinksMax
        /\ Target.ino \in Known /\ <<Target.ino, Target.node>> \in Copies
        /\ \A b \in Copies' : b \in Copies \/ b = <<Target.ino, m>>
    <2>1. call.at \in Writing /\ m.nlinks <= LinksMax
      BY <1>1, <1>2, <1>4, <1>6
    <2> QED
      BY <1>1, <1>2, <1>6, <2>1, SaveStep
  <1>9. MTypes' /\ SlotsOK' /\ LinksBound'
    <2>1. Continues(call') /\ call'.at \notin {"imap", "erase", "inode"}
      BY <1>5, <1>7, <1>8
    <2> QED
      BY <1>2, <1>8, <2>1, CallStep
  <1>10. Owned' /\ Marked' /\ \A z \in Zones : z # call.ind /\ Fresh(z) => Fresh(z)'
    <2>1. ASSUME NEW k, NEW z, PlaceHolds(disk.ptr, m, k, z)
          PROVE  PlaceHolds(disk.ptr, Target.node, k, z) \/ (k = -1 /\ z = call.ind)
      <3>1. \A l \in 0 .. PTR_PER_BLOCCO - 1 : NoPtrs[l] = 0
        BY DEF NoPtrs
      <3>2. k \in ZONE_DIRETTE .. ZONE_DIRETTE + PTR_PER_BLOCCO - 1 =>
              k - ZONE_DIRETTE \in 0 .. PTR_PER_BLOCCO - 1
        BY Numbers
      <3> QED
        BY <1>2, <1>6, <2>1, <3>1, <3>2 DEF PlaceHolds
    <2>2. Refs' \subseteq Refs \union {<<Target.ino, -1, call.ind>>}
      BY <1>2, <1>8, <2>1, SavedRefs
    <2> QED
      BY <1>2, <1>8, <2>2, RefsGrow
  <1>11. InFlight'
    <2>1. call.z \in disk'.zmap /\ \A r \in Refs' : r[3] # call.z
      BY <1>2, <1>10 DEF Fresh
    <2> QED
      BY <1>5, <1>7, <1>8, <2>1 DEF InFlight, Fresh
  <1> QED
    BY <1>9, <1>10, <1>11 DEF ZInv

(* zona_assegna, in the indirect block of one file and of no other.          *)
LEMMA AssignIndirectStep ==
  ASSUME ZInv, AssignIndirect PROVE ZInv'
  <1>0. PICK x, k, i : x = Target.node.ind /\ k = Logical - ZONE_DIRETTE /\ i = Target.ino
    OBVIOUS
  <1> DEFINE c == [call EXCEPT !.at = "data"]
             d == [disk EXCEPT !.ptr[x][k] = call.z]
  <1>1. /\ call.at = "assign" /\ InIndirect /\ x # 0 /\ Remember /\ cache' = cache
        /\ (faults' = faults \/ Fault)
        /\ disk' \in {disk, d} /\ call' \in {c, Break}
    BY <1>0 DEF AssignIndirect, Rewrite, Goes
  <1>2. /\ MTypes /\ SlotsOK /\ LinksBound /\ Owned /\ Marked /\ CallOK(call) /\ call \in Calls
        /\ disk \in Disks /\ cache \in [Slots -> [ino : 0 .. NInodes, node : Nodes]]
        /\ call.done <= call.n /\ call.done \in Nat
        /\ call.done > 0 => call.off <= MaxSize
        /\ call.z \in Zones /\ Fresh(call.z)
        /\ Target.node \in Nodes /\ call.slot \in Slots /\ Target.ino # 0
    BY <1>1 DEF ZInv, MTypes, CallOK, Calls, Writing, InFlight, Target, SlotsOK
  <1>3. /\ k \in 0 .. PTR_PER_BLOCCO - 1 /\ Logical = ZONE_DIRETTE + k
        /\ Logical < ZONE_DIRETTE + PTR_PER_BLOCCO
        /\ Logical \in ZONE_DIRETTE .. ZONE_DIRETTE + PTR_PER_BLOCCO - 1
    BY <1>0, <1>1, Numbers DEF InIndirect
  <1>4. x \in Zones /\ call.z \in 0 .. NZones /\ call.z # 0
    <2>1. \A m \in Nodes : m.ind \in 0 .. NZones
      BY DEF Nodes
    <2>2. x \in 0 .. NZones
      BY <1>0, <1>2, <2>1
    <2> QED
      BY <1>1, <1>2, <2>2, Numbers DEF Zones
  <1>5. {"assign", "data"} \subseteq CallPlaces /\ {"assign", "data"} \subseteq Writing
    BY CallValues
  <1>6. Continues(c) /\ c.at = "data"
    <2>1. /\ c \in Calls /\ c.at = "data" /\ c.ind = call.ind /\ c.what = call.what
          /\ c.dir = call.dir /\ c.new = call.new /\ c.slot = call.slot /\ c.n = call.n
          /\ c.done = call.done /\ c.off = call.off /\ c.z = call.z
      BY <1>2, <1>5 DEF Calls
    <2>2. c.off \div PerBlock < ZONE_DIRETTE + PTR_PER_BLOCCO
      BY <1>3, <2>1 DEF Logical
    <2> HIDE DEF c
    <2> QED
      BY <1>1, <1>2, <1>5, <2>1, <2>2, WriteCall
  <1> HIDE DEF c
  <1>7. /\ d \in Disks /\ d.imap = disk.imap /\ d.zmap = disk.zmap
        /\ d.inode = disk.inode /\ d.data = disk.data
        /\ \A y \in Zones : y # x => d.ptr[y] = disk.ptr[y]
        /\ \A l \in 0 .. PTR_PER_BLOCCO - 1 :
              d.ptr[x][l] = IF l = k THEN call.z ELSE disk.ptr[x][l]
    <2> DEFINE v == call.z
    <2>1. v \in 0 .. NZones
      BY <1>4
    <2> HIDE DEF v
    <2>2. LET e == [disk EXCEPT !.ptr[x][k] = v]
          IN  /\ e \in Disks /\ e.imap = disk.imap /\ e.zmap = disk.zmap
              /\ e.inode = disk.inode /\ e.data = disk.data
              /\ \A y \in Zones : y # x => e.ptr[y] = disk.ptr[y]
              /\ \A l \in 0 .. PTR_PER_BLOCCO - 1 :
                   e.ptr[x][l] = IF l = k THEN v ELSE disk.ptr[x][l]
      BY <1>2, <1>3, <1>4, <2>1, PtrUpdate
    <2> QED
      BY <2>2 DEF v
  <1> HIDE DEF d
  <1>8. /\ disk' \in Disks /\ disk'.zmap = disk.zmap /\ disk'.imap = disk.imap
        /\ disk'.inode = disk.inode /\ disk'.data = disk.data
    BY <1>1, <1>2, <1>7
  <1>9. Break.at \in {"idle", "undo", "insert", "links", "size"} /\ Continues(Break)
    BY <1>1, <1>2, <1>5, BreakOK
  <1>10. MTypes' /\ SlotsOK' /\ LinksBound'
    <2>1. Continues(call') /\ call'.at \notin {"imap", "erase", "inode"}
      BY <1>1, <1>6, <1>9
    <2> QED
      BY <1>1, <1>2, <1>8, <2>1, FaultCount, CallStep DEF LinksBound, SlotsOK, Remember
  <1>11. Refs' \subseteq Refs \union {<<i, Logical, call.z>>}
    <2>1. Known' \subseteq Known \union {}
      <3>1. \A y \in Zones, p \in 0 .. PerBlock - 1 : disk'.data[y][p].ino \in Known \union {0}
        BY <1>2, <1>8, EntryKnown
      <3>2. \A s \in Slots : cache'[s].ino \in Known \union {0} \union {}
        BY <1>1, <1>2, CopiesType
      <3> QED
        BY <1>1, <1>2, <3>1, <3>2, MadeStep, KnownStep
    <2>2. \A b \in Copies' : b \in Copies
      BY <1>1, <1>8, <2>1 DEF Copies
    <2>3. <<i, -1, x>> \in Refs
      <3>1. <<i, Target.node>> \in Copies /\ i \in Inodes
        BY <1>0, <1>2, CopiesType DEF Target, Known
      <3>2. -1 \in PlaceNos
        BY Numbers DEF PlaceNos
      <3>3. PlaceHolds(disk.ptr, Target.node, -1, x)
        BY <1>0, <1>1 DEF PlaceHolds
      <3> QED
        BY <1>4, <3>1, <3>2, <3>3 DEF Refs
    <2>4. ASSUME NEW r \in Refs' PROVE r \in Refs \union {<<i, Logical, call.z>>}
      <3>1. PICK b \in Copies' : b[1] = r[1] /\ PlaceHolds(disk'.ptr, b[2], r[2], r[3])
        BY DEF Refs
      <3>2. r \in Inodes \X PlaceNos \X Zones
        BY DEF Refs
      <3>3. b \in Copies /\ b[1] \in Inodes /\ b[2] \in Nodes
        BY <1>2, <2>2, CopiesType
      <3>4. CASE b[2].ind # x \/ disk' = disk
        <4>1. b[2].ind # 0 => disk'.ptr[b[2].ind] = disk.ptr[b[2].ind]
          <5>1. b[2].ind # 0 => b[2].ind \in Zones
            BY <3>3, Numbers DEF Nodes, Zones
          <5> QED
            BY <1>1, <1>7, <3>4, <5>1
        <4>2. PlaceHolds(disk.ptr, b[2], r[2], r[3])
          BY <3>1, <4>1 DEF PlaceHolds
        <4> QED
          BY <3>1, <3>2, <3>3, <4>2 DEF Refs
      <3>5. CASE b[2].ind = x /\ disk' = d
        <4>1. b[1] = i
          <5>1. -1 \in PlaceNos
            BY Numbers DEF PlaceNos
          <5>2. PlaceHolds(disk.ptr, b[2], -1, x)
            BY <1>1, <3>5 DEF PlaceHolds
          <5>3. <<b[1], -1, x>> \in Refs
            BY <1>4, <3>3, <5>1, <5>2 DEF Refs
          <5> QED
            BY <1>2, <2>3, <5>3 DEF Owned
        <4>2. CASE r[2] = Logical /\ r[3] = call.z
          <5>1. r = <<r[1], r[2], r[3]>>
            BY <3>2
          <5>2. r[1] = i
            BY <3>1, <4>1
          <5> QED
            BY <4>2, <5>1, <5>2
        <4>3. CASE PlaceHolds(disk.ptr, b[2], r[2], r[3])
          BY <3>1, <3>2, <3>3, <4>3 DEF Refs
        <4>4. \/ r[2] = Logical /\ r[3] = call.z
              \/ PlaceHolds(disk.ptr, b[2], r[2], r[3])
          <5>1. CASE r[2] \in ZONE_DIRETTE .. ZONE_DIRETTE + PTR_PER_BLOCCO - 1
                     /\ d.ptr[x][r[2] - ZONE_DIRETTE] = r[3]
            <6>1. r[2] - ZONE_DIRETTE \in 0 .. PTR_PER_BLOCCO - 1
              BY <5>1, Numbers
            <6>2. CASE r[2] - ZONE_DIRETTE = k
              <7>1. r[2] = Logical
                BY <1>3, <5>1, <6>2, Numbers
              <7> QED
                BY <1>7, <5>1, <6>1, <6>2, <7>1
            <6>3. CASE r[2] - ZONE_DIRETTE # k
              <7>1. disk.ptr[x][r[2] - ZONE_DIRETTE] = r[3]
                BY <1>7, <5>1, <6>1, <6>3
              <7>2. r[3] # 0
                BY <3>1 DEF PlaceHolds
              <7> QED
                BY <1>1, <3>5, <5>1, <7>1, <7>2 DEF PlaceHolds
            <6> QED
              BY <6>2, <6>3
          <5>2. CASE ~(r[2] \in ZONE_DIRETTE .. ZONE_DIRETTE + PTR_PER_BLOCCO - 1
                       /\ d.ptr[x][r[2] - ZONE_DIRETTE] = r[3])
            BY <3>1, <3>5, <5>2 DEF PlaceHolds
          <5> QED
            BY <5>1, <5>2
        <4> QED
          BY <4>2, <4>3, <4>4
      <3> QED
        BY <1>1, <3>4, <3>5
    <2> QED
      BY <2>4
  <1>12. Owned' /\ Marked'
    BY <1>2, <1>8, <1>11, RefsGrow
  <1>13. InFlight'
    BY <1>1, <1>6, <1>9 DEF InFlight
  <1> QED
    BY <1>10, <1>12, <1>13 DEF ZInv

(* The bytes written are those of a file, or name the inodes of the call.    *)
LEMMA NewEntryType ==
  ASSUME MTypes, call.at \in Writing
  PROVE  NewEntry \in Entries /\ NewEntry.ino \in Known \union {0}
  <1>1. /\ call.what \in Entering \union {"file"} /\ call.name \in Names \union {"none"}
        /\ call.what \in Entering => call.dir \in Slots /\ call.new \in Slots
    BY DEF MTypes, CallOK, Calls
  <1>2. \A s \in Slots : cache[s].ino \in Known \union {0} /\ cache[s].ino \in 0 .. NInodes
    BY CopiesType DEF MTypes
  <1>3. \A i \in 0 .. NInodes, n \in Names \union {".", "..", "none", "bytes"} :
           Entry(i, n) \in Entries /\ Entry(i, n).ino = i
    BY EntryTypes
  <1>4. CASE call.what = "entry"
    BY <1>1, <1>2, <1>3, <1>4 DEF NewEntry, Entering
  <1>5. CASE call.what = "dot"
    BY <1>1, <1>2, <1>3, <1>5 DEF NewEntry, Entering
  <1>6. CASE call.what = "dotdot"
    BY <1>1, <1>2, <1>3, <1>6 DEF NewEntry, Entering
  <1>7. CASE call.what = "file"
    BY <1>7, EntryTypes DEF NewEntry
  <1> QED
    BY <1>1, <1>4, <1>5, <1>6, <1>7 DEF Entering

LEMMA WriteBlockStep ==
  ASSUME ZInv, WriteBlock PROVE ZInv'
  <1>0. PICK z, off, done : z = call.z /\ off = call.off + Span /\ done = call.done + Span
    OBVIOUS
  <1> DEFINE c == [call EXCEPT !.at = "block", !.off = off, !.done = done, !.z = 0]
             d == [disk EXCEPT !.data[z] = Written(@)]
             b == Written(disk.data[z])
  <1>1. /\ call.at = "data" /\ Remember /\ cache' = cache
        /\ (faults' = faults \/ Fault)
        /\ disk' \in {disk, d}
        /\ \/ done < call.n /\ call' = c
           \/ call' = Finished(off, done)
           \/ call' = Break
    BY <1>0 DEF WriteBlock, Rewrite, Goes
  <1>2. /\ MTypes /\ SlotsOK /\ LinksBound /\ Owned /\ Marked /\ CallOK(call) /\ call \in Calls
        /\ disk \in Disks /\ cache \in [Slots -> [ino : 0 .. NInodes, node : Nodes]]
        /\ z \in Zones
    BY <1>0, <1>1 DEF ZInv, MTypes, CallOK
  <1>3. "block" \in CallPlaces /\ {"data", "block"} \subseteq Writing /\ call.at \in Writing
        /\ 0 \in OrNone(Zones)
    BY <1>1, CallValues
  <1>4. /\ off \in Nat /\ done \in Nat /\ done <= call.n /\ off <= MaxSize
    BY <1>0, <1>1, <1>2, SpanType
  <1>5. done < call.n => Continues(c) /\ c.at = "block"
    <2>1. /\ c \in Calls /\ c.at = "block" /\ c.ind = call.ind /\ c.what = call.what
          /\ c.dir = call.dir /\ c.new = call.new /\ c.slot = call.slot /\ c.n = call.n
          /\ c.done = done /\ c.off = off
      BY <1>2, <1>3, <1>4 DEF Calls
    <2> HIDE DEF c
    <2> QED
      BY <1>1, <1>2, <1>3, <1>4, <2>1, WriteCall
  <1> HIDE DEF c
  <1>6. /\ Finished(off, done).at \in {"idle", "undo", "insert", "links", "size"}
        /\ Continues(Finished(off, done))
    BY <1>2, <1>3, <1>4, FinishedOK
  <1>7. Break.at \in {"idle", "undo", "insert", "links", "size"} /\ Continues(Break)
    BY <1>2, <1>3, BreakOK
  <1>8. disk.data[z] \in [0 .. PerBlock - 1 -> Entries]
        /\ \A y \in Zones : disk.data[y] \in [0 .. PerBlock - 1 -> Entries]
    BY <1>2 DEF Disks
  <1>9. /\ b \in [0 .. PerBlock - 1 -> Entries]
        /\ \A p \in 0 .. PerBlock - 1 : b[p] = NewEntry \/ b[p] = disk.data[z][p]
    BY <1>2, <1>3, <1>8, NewEntryType DEF Written
  <1>10. d = [disk EXCEPT !.data[z] = b]
    BY <1>2 DEF Disks
  <1> HIDE DEF b, d
  <1>11. /\ d \in Disks /\ d.imap = disk.imap /\ d.zmap = disk.zmap
         /\ d.inode = disk.inode /\ d.ptr = disk.ptr
         /\ \A y \in Zones : d.data[y] = IF y = z THEN b ELSE disk.data[y]
    <2>1. disk \in Disks /\ z \in Zones /\ b \in [0 .. PerBlock - 1 -> Entries]
      BY <1>2, <1>9
    <2>2. LET e == [disk EXCEPT !.data[z] = b]
          IN  /\ e \in Disks /\ e.imap = disk.imap /\ e.zmap = disk.zmap
              /\ e.inode = disk.inode /\ e.ptr = disk.ptr
              /\ \A y \in Zones : e.data[y] = IF y = z THEN b ELSE disk.data[y]
      BY <2>1, DataUpdate
    <2> QED
      BY <1>10, <2>2
  <1>12. /\ disk' \in Disks /\ disk'.zmap = disk.zmap /\ disk'.imap = disk.imap
         /\ disk'.inode = disk.inode /\ disk'.ptr = disk.ptr
         /\ \A y \in Zones : disk'.data[y] = disk.data[y] \/ (y = z /\ disk'.data[y] = b)
    BY <1>1, <1>2, <1>11
  <1>13. MTypes' /\ SlotsOK' /\ LinksBound'
    <2>1. Continues(call') /\ call'.at \notin {"imap", "erase", "inode"}
      BY <1>1, <1>5, <1>6, <1>7
    <2> QED
      BY <1>1, <1>2, <1>12, <2>1, FaultCount, CallStep DEF LinksBound, SlotsOK, Remember
  <1>14. Refs' \subseteq Refs
    <2>1. Known' \subseteq Known \union {}
      <3>1. ASSUME NEW y \in Zones, NEW p \in 0 .. PerBlock - 1
            PROVE  disk'.data[y][p].ino \in Known \union {0}
        <4>1. disk.data[y][p].ino \in Known \union {0} /\ NewEntry.ino \in Known \union {0}
          BY <1>2, <1>3, EntryKnown, NewEntryType
        <4>2. disk'.data[y][p] = disk.data[y][p] \/ disk'.data[y][p] = NewEntry
          BY <1>9, <1>12
        <4> QED
          BY <4>1, <4>2
      <3>2. \A s \in Slots : cache'[s].ino \in Known \union {0} \union {}
        BY <1>1, <1>2, CopiesType
      <3> QED
        BY <1>1, <1>2, <3>1, <3>2, MadeStep, KnownStep
    <2>2. \A e \in Copies' : e \in Copies
      BY <1>1, <1>12, <2>1 DEF Copies
    <2> QED
      BY <1>2, <1>12, <2>2, RefsKept DEF SameZones
  <1>15. Owned' /\ Marked'
    BY <1>2, <1>12, <1>14, RefsShrink
  <1>16. InFlight'
    BY <1>1, <1>5, <1>6, <1>7 DEF InFlight
  <1> QED
    BY <1>13, <1>15, <1>16 DEF ZInv

LEMMA GrowStep ==
  ASSUME ZInv, Grow PROVE ZInv'
  <1> DEFINE m == [Target.node EXCEPT !.size = call.off]
  <1>1. call.at = "size" /\ Save(m, Returned(TRUE), Returned(FALSE)) /\ Remember
    BY DEF Grow
  <1>2. /\ MTypes /\ SlotsOK /\ LinksBound /\ Owned /\ Marked /\ CallOK(call)
        /\ call.off \in 0 .. MaxSize
        /\ Target.node \in Nodes /\ Target.node.nlinks <= LinksMax
    BY <1>1, Numbers DEF ZInv, MTypes, CallOK, Calls, Writing, Target, LinksBound
  <1>3. call.at \in Writing
    BY <1>1, CallValues
  <1>4. /\ m \in Nodes /\ m.type = Target.node.type /\ m.zone = Target.node.zone
        /\ m.nlinks = Target.node.nlinks /\ m.ind = Target.node.ind
    <2> DEFINE t == Target.node
    <2>1. t \in Nodes
      BY <1>2
    <2> HIDE DEF t
    <2>2. \A x \in 0 .. MaxSize :
              LET n == [t EXCEPT !.size = x]
              IN  /\ n \in Nodes /\ n.type = t.type /\ n.ind = t.ind
                  /\ n.nlinks = t.nlinks /\ n.zone = t.zone
      BY <2>1, NodeUpdates
    <2> QED
      BY <1>2, <2>2 DEF t
  <1> HIDE DEF m
  <1>5. \A ok \in BOOLEAN : /\ Continues(Returned(ok))
                            /\ Returned(ok).at \in {"idle", "undo", "insert", "links"}
    BY <1>2, <1>3, ReturnedOK
  <1>6. /\ disk' \in Disks /\ disk'.imap = disk.imap /\ disk'.zmap = disk.zmap
        /\ disk'.ptr = disk.ptr
        /\ cache' \in [Slots -> [ino : 0 .. NInodes, node : Nodes]]
        /\ \A s \in Slots : cache'[s].ino = cache[s].ino
        /\ \A s \in Slots : cache[s].ino = 0 => cache'[s].node.type = "none"
        /\ call' \in {Returned(TRUE), Returned(FALSE)}
        /\ faults' \in 0 .. MaxFaults /\ crashes' = crashes
        /\ \A i \in Inodes : disk'.inode[i].nlinks <= LinksMax
        /\ \A s \in Slots : cache'[s].node.nlinks <= LinksMax
        /\ <<Target.ino, Target.node>> \in Copies
        /\ \A b \in Copies' : b \in Copies \/ b = <<Target.ino, m>>
    <2>1. m.nlinks <= LinksMax
      BY <1>2, <1>4
    <2> QED
      BY <1>1, <1>2, <1>3, <1>4, <2>1, SaveStep
  <1>7. MTypes' /\ SlotsOK' /\ LinksBound'
    <2>1. Continues(call') /\ call'.at \notin {"imap", "erase", "inode"}
      BY <1>5, <1>6
    <2> QED
      BY <1>2, <1>6, <2>1, CallStep
  <1>8. Owned' /\ Marked'
    <2>1. \A b \in Copies' : Bare(b[2]) \/ \E a \in Copies : SameZones(b, a)
      BY <1>4, <1>6 DEF SameZones
    <2>2. Refs' \subseteq Refs
      BY <1>2, <1>6, <2>1, RefsKept
    <2> QED
      BY <1>2, <1>6, <2>2, RefsShrink
  <1>9. InFlight'
    BY <1>5, <1>6 DEF InFlight
  <1> QED
    BY <1>7, <1>8, <1>9 DEF ZInv

LEMMA NextZones == ZInv /\ [Next]_vars => ZInv'
<1> SUFFICES ASSUME ZInv, [Next]_vars PROVE ZInv'
  OBVIOUS
<1>1. CASE Begin
  BY <1>1, LookupStep, CreateBegins, WriteBegins DEF Begin
<1>2. CASE CreateStep
  BY <1>2, InodeFullStep, AccendiInodeStep, AzzeraInodeStep, ScriviNuovoStep,
     DirentInserisciStep, UndoStep, ParentLinksStep DEF CreateStep
<1>3. CASE WriteStep
  <2>1. CASE ZonesFull \/ TooFar
    <3>1. call.at \in Writing
      BY <2>1, CallValues DEF ZonesFull, TooFar
    <3> QED
      BY <2>1, <3>1, BreakStep DEF ZonesFull, TooFar, Goes
  <2> QED
    BY <1>3, <2>1, FindZoneStep, AccendiZonaStep, AzzeraZonaStep, AssignDirectStep,
       NeedIndirectStep, AssignIndirectBlockStep, AssignIndirectStep, WriteBlockStep,
       GrowStep DEF WriteStep
<1>4. CASE Crash
  BY <1>4, CrashStep
<1>5. CASE UNCHANGED vars
  <2>1. UNCHANGED <<disk, cache, call, faults, crashes, made, lost, half>>
    BY <1>5 DEF vars
  <2>2. MTypes' = MTypes /\ SlotsOK' = SlotsOK /\ LinksBound' = LinksBound
    BY <2>1 DEF MTypes, CallOK, FreeSlots, SlotsOK, Target, LinksBound, LinksMax, Creating
  <2>3. Refs' = Refs
    BY <2>1 DEF Refs, Copies, Known
  <2>4. Owned' /\ Marked' /\ InFlight'
    BY <2>1, <2>3 DEF ZInv, Owned, Marked, InFlight, Fresh
  <2> QED
    BY <2>2, <2>4 DEF ZInv
<1> QED
  BY <1>1, <1>2, <1>3, <1>4, <1>5 DEF Next

-----------------------------------------------------------------------------
(* On a fresh disk, or a used one, the zone of the root is the only one taken. *)
LEMMA InitZones == Init => ZInv
<1> SUFFICES ASSUME Init PROVE ZInv
  OBVIOUS
<1>0. PICK used \in BOOLEAN :
       LET root == Node("dir", IF used THEN 3 ELSE 2, [NoZones EXCEPT ![0] = 1], 0, 2)
           old  == Node("file", 1, [NoZones EXCEPT ![0] = 1], 1, 1)
       IN disk = [imap  |-> {Root}, zmap |-> {1},
                  inode |-> [i \in Inodes |-> IF i = Root THEN root
                                              ELSE IF used THEN old ELSE Blank],
                  data  |-> [z \in Zones |->
                               IF z = 1 THEN [Zeroes EXCEPT ![0] = Entry(Root, "."),
                                                            ![1] = Entry(Root, "..")]
                               ELSE IF used THEN [p \in DOMAIN Zeroes |-> Entry(Root, "..")]
                               ELSE Zeroes],
                  ptr   |-> [z \in Zones |-> IF used /\ z # 1
                                               THEN [p \in DOMAIN NoPtrs |-> 1]
                                               ELSE NoPtrs]]
  BY DEF Init
<1> DEFINE root == Node("dir", IF used THEN 3 ELSE 2, [NoZones EXCEPT ![0] = 1], 0, 2)
           old  == Node("file", 1, [NoZones EXCEPT ![0] = 1], 1, 1)
           dots == [Zeroes EXCEPT ![0] = Entry(Root, "."), ![1] = Entry(Root, "..")]
           was  == [p \in DOMAIN Zeroes |-> Entry(Root, "..")]
           ones == [p \in DOMAIN NoPtrs |-> 1]
<1>1. /\ disk.imap = {Root} /\ disk.zmap = {1}
      /\ disk.inode = [i \in Inodes |-> IF i = Root THEN root ELSE IF used THEN old ELSE Blank]
      /\ disk.data = [z \in Zones |-> IF z = 1 THEN dots ELSE IF used THEN was ELSE Zeroes]
      /\ disk.ptr = [z \in Zones |-> IF used /\ z # 1 THEN ones ELSE NoPtrs]
      /\ disk = [imap |-> disk.imap, zmap |-> disk.zmap, inode |-> disk.inode,
                 data |-> disk.data, ptr |-> disk.ptr]
  BY <1>0
<1>2. cache = Mounted(disk) /\ call = Idle /\ faults = 0 /\ crashes = 0 /\ made = {}
  BY DEF Init
<1>3. /\ root \in Nodes /\ root.nlinks = 2 /\ root.ind = 0 /\ root.zone[0] = 1
      /\ \A n \in 0 .. ZONE_DIRETTE - 1 : n # 0 => root.zone[n] = 0
      /\ old \in Nodes /\ old.nlinks = 1
  <2> DEFINE zone == [NoZones EXCEPT ![0] = 1]
  <2>1. /\ zone \in [0 .. ZONE_DIRETTE - 1 -> 0 .. NZones] /\ zone[0] = 1
        /\ \A n \in 0 .. ZONE_DIRETTE - 1 : n # 0 => zone[n] = 0
    BY Numbers DEF NoZones
  <2>2. MaxSize >= 3
    <3>1. (ZONE_DIRETTE + PTR_PER_BLOCCO) * PerBlock >= 2 * 2
      <4> DEFINE n == ZONE_DIRETTE + PTR_PER_BLOCCO
      <4>1. n \in Nat /\ n >= 2 /\ PerBlock \in Nat /\ PerBlock >= 2
        BY Numbers
      <4> HIDE DEF n
      <4>2. n * PerBlock >= 2 * PerBlock
        BY <4>1, SMTT(30)
      <4> QED
        BY <4>1, <4>2 DEF n
    <3> QED
      BY <3>1, Numbers DEF MaxSize
  <2>3. {1, 2, 3} \subseteq 0 .. MaxSize /\ {1, 2} \subseteq 0 .. NInodes + 1
        /\ {0, 1} \subseteq 0 .. NZones
    BY <2>2, Numbers
  <2> HIDE DEF zone
  <2>4. ASSUME NEW t \in {"file", "dir"}, NEW x \in {1, 2, 3}, NEW y \in {0, 1}, NEW k \in {1, 2}
        PROVE  LET m == Node(t, x, zone, y, k)
               IN  m \in Nodes /\ m.nlinks = k /\ m.ind = y /\ m.zone = zone
    BY <2>1, <2>3, <2>4 DEF Node, Nodes
  <2>5. root = Node("dir", IF used THEN 3 ELSE 2, zone, 0, 2) /\ old = Node("file", 1, zone, 1, 1)
    BY DEF zone
  <2> HIDE DEF root, old
  <2> QED
    BY <2>1, <2>4, <2>5
<1>4. /\ Zeroes \in [0 .. PerBlock - 1 -> Entries] /\ dots \in [0 .. PerBlock - 1 -> Entries]
      /\ was \in [0 .. PerBlock - 1 -> Entries]
      /\ \A p \in 0 .. PerBlock - 1 :
            Zeroes[p].ino = 0 /\ dots[p].ino \in {0, Root} /\ was[p].ino = Root
  <2>1. /\ Entry(Root, ".") \in Entries /\ Entry(Root, "..") \in Entries
        /\ Entry(Root, ".").ino = Root /\ Entry(Root, "..").ino = Root
        /\ Empty \in Entries /\ Empty.ino = 0
    <3>1. Root \in 0 .. NInodes
      BY Numbers DEF Inodes
    <3> QED
      BY <3>1, EntryTypes
  <2>2. 0 \in 0 .. PerBlock - 1 /\ 1 \in 0 .. PerBlock - 1
    BY Numbers
  <2> QED
    BY <2>1, <2>2 DEF Zeroes
<1>5. /\ NoPtrs \in [0 .. PTR_PER_BLOCCO - 1 -> 0 .. NZones]
      /\ ones \in [0 .. PTR_PER_BLOCCO - 1 -> 0 .. NZones]
  BY Numbers DEF NoPtrs
<1> HIDE DEF root, old, dots, was, ones
<1>6. disk \in Disks
  <2>1. {Root} \subseteq Inodes /\ {1} \subseteq Zones
    BY Numbers DEF Zones
  <2>2. disk.inode \in [Inodes -> Nodes]
    BY <1>1, <1>3, BlankBare
  <2>3. disk.data \in [Zones -> [0 .. PerBlock - 1 -> Entries]]
    BY <1>1, <1>4
  <2>4. disk.ptr \in [Zones -> [0 .. PTR_PER_BLOCCO - 1 -> 0 .. NZones]]
    BY <1>1, <1>5
  <2> QED
    BY <1>1, <2>1, <2>2, <2>3, <2>4 DEF Disks
<1>7. disk.inode[Root] = root /\ \A i \in Inodes : disk.inode[i].nlinks <= 2
  BY <1>1, <1>3, BlankBare, Numbers
<1>8. /\ FreeSlot \in [ino : 0 .. NInodes, node : Nodes] /\ FreeSlot.ino = 0
      /\ FreeSlot.node = Blank /\ Root \in 0 .. NInodes /\ Root # 0 /\ Root \in Inodes
  BY BlankBare, Numbers DEF FreeSlot, Inodes
<1>9. /\ cache \in [Slots -> [ino : 0 .. NInodes, node : Nodes]]
      /\ \A s \in Slots : \/ cache[s].ino = Root /\ cache[s].node = root
                          \/ cache[s].ino = 0 /\ cache[s].node = Blank
  BY <1>2, <1>3, <1>7, <1>8 DEF Mounted
<1>10. CallOK(call) /\ call.at = "idle" /\ call.what = "none"
  <2>1. Idle \in Calls
    BY CallValues DEF Idle, Calls
  <2>2. Idle.at = "idle" /\ Idle.what = "none" /\ Idle.n = 0 /\ Idle.done = 0
    BY DEF Idle
  <2> QED
    BY <1>2, <2>1, <2>2, IdleOK
<1>11. MTypes
  BY <1>2, <1>6, <1>9, <1>10, Numbers DEF MTypes
<1>12. SlotsOK
  BY <1>8, <1>9, <1>10, BlankBare DEF SlotsOK, Entering, Writing
<1>13. LinksBound
  <2>1. LinksMax = 2
    <3>1. Cardinality({Root}) = 1
      BY FS_Singleton
    <3> QED
      BY <1>1, <1>10, <3>1 DEF LinksMax, Creating, Entering
  <2> QED
    BY <1>3, <1>7, <1>9, <2>1, BlankBare DEF LinksBound
<1>14. \A r \in Refs : r[2] = 0 /\ r[3] = 1 /\ r[1] = Root
  <2>1. \A i \in Known : i = Root
    <3>1. \A z \in Zones, p \in 0 .. PerBlock - 1 : disk.data[z][p].ino \in {0, Root}
      BY <1>1, <1>4
    <3>2. 0 \notin Inodes
      BY Numbers DEF Inodes
    <3> QED
      BY <1>2, <1>9, <3>1, <3>2 DEF Known
  <2>2. \A c \in Copies : c[1] = Root /\ c[2] = root
    BY <1>7, <1>9, <2>1 DEF Copies
  <2>3. \A n, z : PlaceHolds(disk.ptr, root, n, z) => n = 0 /\ z = 1
    BY <1>3 DEF PlaceHolds
  <2> QED
    BY <2>2, <2>3 DEF Refs
<1>15. Owned /\ Marked
  BY <1>1, <1>14 DEF Owned, Marked
<1>16. InFlight
  BY <1>10 DEF InFlight
<1> QED
  BY <1>11, <1>12, <1>13, <1>15, <1>16 DEF ZInv

-----------------------------------------------------------------------------
(* The zones that an inode holds, and their places.                          *)
LEMMA HoldsPlaces ==
  ASSUME MTypes, NEW i, NEW m \in Nodes, NEW r \in Holds(i, m)
  PROVE  r[1] = i /\ r[2] \in PlaceNos /\ r[3] \in Zones /\ r = <<i, r[2], r[3]>>
         /\ PlaceHolds(disk.ptr, m, r[2], r[3])
  <1>1. r[3] # 0 /\ disk \in Disks
    BY DEF Holds, MTypes
  <1>2. ASSUME NEW n \in PlaceNos, NEW z \in 0 .. NZones, r = <<i, n, z>>,
               PlaceHolds(disk.ptr, m, n, z)
        PROVE  r[1] = i /\ r[2] \in PlaceNos /\ r[3] \in Zones /\ r = <<i, r[2], r[3]>>
               /\ PlaceHolds(disk.ptr, m, r[2], r[3])
    <2>1. r[1] = i /\ r[2] = n /\ r[3] = z
      BY <1>2
    <2>2. z \in Zones
      BY <1>1, <2>1, Numbers DEF Zones
    <2> QED
      BY <1>2, <2>1, <2>2
  <1>3. CASE \E n \in 0 .. ZONE_DIRETTE - 1 : r = <<i, n, m.zone[n]>>
    <2>1. PICK n \in 0 .. ZONE_DIRETTE - 1 : r = <<i, n, m.zone[n]>>
      BY <1>3
    <2>2. n \in PlaceNos /\ m.zone[n] \in 0 .. NZones
      BY Numbers DEF PlaceNos, Nodes
    <2>3. PlaceHolds(disk.ptr, m, n, m.zone[n])
      BY <1>1, <2>1 DEF PlaceHolds
    <2> QED
      BY <1>2, <2>1, <2>2, <2>3
  <1>4. CASE r = <<i, -1, m.ind>>
    <2>1. -1 \in PlaceNos /\ m.ind \in 0 .. NZones
      BY Numbers DEF PlaceNos, Nodes
    <2>2. PlaceHolds(disk.ptr, m, -1, m.ind)
      BY <1>1, <1>4 DEF PlaceHolds
    <2> QED
      BY <1>2, <1>4, <2>1, <2>2
  <1>5. CASE m.ind # 0 /\ \E k \in 0 .. PTR_PER_BLOCCO - 1 :
                             r = <<i, ZONE_DIRETTE + k, disk.ptr[m.ind][k]>>
    <2>1. PICK k \in 0 .. PTR_PER_BLOCCO - 1 : r = <<i, ZONE_DIRETTE + k, disk.ptr[m.ind][k]>>
      BY <1>5
    <2>2. m.ind \in Zones
      BY <1>5, Numbers DEF Nodes, Zones
    <2>3. disk.ptr[m.ind][k] \in 0 .. NZones
      BY <1>1, <2>2 DEF Disks
    <2>4. /\ ZONE_DIRETTE + k \in PlaceNos /\ (ZONE_DIRETTE + k) - ZONE_DIRETTE = k
          /\ ZONE_DIRETTE + k \in ZONE_DIRETTE .. ZONE_DIRETTE + PTR_PER_BLOCCO - 1
      BY Numbers DEF PlaceNos
    <2>5. PlaceHolds(disk.ptr, m, ZONE_DIRETTE + k, disk.ptr[m.ind][k])
      BY <1>1, <1>5, <2>1, <2>4 DEF PlaceHolds
    <2> QED
      BY <1>2, <2>1, <2>3, <2>4, <2>5
  <1> QED
    BY <1>3, <1>4, <1>5 DEF Holds

-----------------------------------------------------------------------------
(* Every inode that the tree or the cache names is one a call can come to,   *)
(* and what it holds is there: the zones of the files are among those the    *)
(* invariant is about.                                                       *)
LEMMA ZonesImplied == ZInv => ZonesSound
<1> SUFFICES ASSUME ZInv PROVE ZonesSound
  OBVIOUS
<1>1. /\ MTypes /\ Owned /\ Marked /\ disk \in Disks /\ CallOK(call)
      /\ cache \in [Slots -> [ino : 0 .. NInodes, node : Nodes]]
  BY DEF ZInv, MTypes
<1>2. TypeOK
  <2>1. disk.imap \subseteq Inodes /\ disk.zmap \subseteq Zones
    BY <1>1 DEF Disks
  <2> QED
    BY <1>1, <2>1 DEF TypeOK, MTypes, CallOK, Disks
<1>3. Live \subseteq Known
  <2>1. Root \in Known
    BY Numbers DEF Known
  <2>2. ASSUME NEW i \in Directories, NEW off \in EntriesOf(i)
        PROVE  EntryAt(i, off).ino \in Known
    <3>1. PICK m : m = disk.inode[i]
      OBVIOUS
    <3>2. i \in Inodes /\ m \in Nodes
      BY <1>1, <3>1 DEF Directories, Disks
    <3>3. off \in InUse(disk, m)
      BY <3>1 DEF EntriesOf
    <3>4. off \in Nat /\ ReadAt(disk, m, off).ino # 0
      BY <3>2, <3>3, Numbers DEF InUse, Nodes
    <3>5. ReadAt(disk, m, off) # Empty
      BY <3>4, EntryTypes
    <3>6. \E z \in Zones, p \in 0 .. PerBlock - 1 : ReadAt(disk, m, off) = disk.data[z][p]
      BY <1>1, <3>2, <3>4, <3>5, ReadAtType
    <3>7. ReadAt(disk, m, off).ino \in Known
      BY <1>1, <3>4, <3>6, EntryKnown
    <3> QED
      BY <3>1, <3>7 DEF EntryAt
  <2>3. ASSUME NEW j \in Live PROVE j \in Known
    <3>1. CASE j = Root
      BY <2>1, <3>1
    <3>2. CASE j \in UNION {{EntryAt(i, off).ino : off \in EntriesOf(i)} : i \in Directories}
      <4>1. PICK i \in Directories : j \in {EntryAt(i, off).ino : off \in EntriesOf(i)}
        BY <3>2
      <4> QED
        BY <2>2, <4>1
    <3> QED
      BY <3>1, <3>2 DEF Live
  <2> QED
    BY <2>3
<1>4. ASSUME NEW i, NEW m, <<i, m>> \in Copies, NEW r \in Holds(i, m)
      PROVE  r \in Refs
  <2>1. i \in Inodes /\ m \in Nodes
    BY <1>1, <1>4, CopiesType
  <2>2. r \in Inodes \X PlaceNos \X Zones /\ r[1] = i /\ PlaceHolds(disk.ptr, m, r[2], r[3])
    BY <1>1, <2>1, HoldsPlaces
  <2> QED
    BY <1>4, <2>2 DEF Refs
<1>5. ASSUME NEW r \in References PROVE r \in Refs
  <2>1. CASE \E i \in Live : r \in Holds(i, disk.inode[i])
    BY <1>1, <1>3, <1>4, <2>1, CopiesType
  <2>2. CASE \E s \in Slots : cache[s].ino # 0 /\ r \in Holds(cache[s].ino, cache[s].node)
    BY <1>1, <1>4, <2>2, CopiesType
  <2> QED
    BY <2>1, <2>2 DEF References
<1>6. NoZoneShared /\ ReferencedIsMarked
  BY <1>1, <1>5 DEF NoZoneShared, ReferencedIsMarked, Owned, Marked
<1> QED
  BY <1>2, <1>6 DEF ZonesSound

(* Whatever fails, and whenever the machine stops, no two files share a zone, *)
(* none uses another's data as pointers, and no zone in use can be handed out *)
(* again (minixfs.c:599-708, 959-1055).                                      *)
THEOREM MinixFsZonesSound == Spec => []ZonesSound
<1>1. Spec => []ZInv
  BY InitZones, NextZones, PTL DEF Spec
<1> QED
  BY <1>1, ZonesImplied, PTL

-----------------------------------------------------------------------------
(* The tree of names, while no read or write fails.                          *)

(* What the directories say: which inode, at which place, which entry.       *)
Tells == UNION {{<<i, off, EntryAt(i, off)>> : off \in EntriesOf(i)} : i \in Directories}
Unsaid(i, name) == \A t \in Tells : t[1] = i => t[3].name # name

Dots == {".", ".."}
Whole ==
  /\ Root \in Directories
  /\ \A i \in Inodes : disk.inode[i].type = "dir" /\ disk.inode[i].size > 0 => i \in Live
  /\ \A t \in Tells : t[3].ino \in disk.imap /\ disk.inode[t[3].ino].type # "none"
  /\ \A t, u \in Tells : t # u =>
       /\ t[1] = u[1] => t[3].name # u[3].name
       /\ t[3].name \notin Dots /\ u[3].name \notin Dots => t[3].ino # u[3].ino

(* The histories are on the disk, and so is what is in the cache.            *)
Told == \A m \in made : \E t \in Tells : t[1] = m[1] /\ t[3] = m[2]
Saved ==
  /\ \A s \in Slots : cache[s].ino # 0 =>
       cache[s].node = disk.inode[cache[s].ino] /\ cache[s].ino \in disk.imap
  /\ \A s, t \in Slots : cache[s].ino = cache[t].ino /\ cache[s].ino # 0 => s = t

(* Whatever is in the cache has a name, but for the inode a call has just    *)
(* allocated.                                                                *)
Reached ==
  \A s \in Slots : cache[s].ino # 0 =>
     cache[s].ino \in Live \/ (call.what = "entry" /\ s = call.new)

(* What a create has found so far, and what it has already said.             *)
Parent == cache[call.dir].ino
Child  == cache[call.new].ino
Asked ==
  /\ call.at \in {"imap", "erase", "inode"} \/ call.what \in Entering =>
       disk.inode[Parent].type = "dir" /\ call.type \in {"file", "dir"}
  /\ call.at = "imap" => FreeSlots = {} \/ Unsaid(Parent, call.name)
  /\ call.at \in {"erase", "inode"} =>
       /\ Unsaid(Parent, call.name)
       /\ call.bit \in disk.imap \ Live /\ ~Cached(call.bit)
  /\ call.what = "entry" =>
       /\ Unsaid(Parent, call.name) /\ Child \notin Live /\ Child # Parent
       /\ disk.inode[Child].size = 0 /\ disk.inode[Child].type = call.type
  /\ call.what \in {"dot", "dotdot"} =>
       /\ disk.inode[Child].type = "dir"
       /\ \E t \in Tells : t[1] = Parent /\ t[3] = Entry(Child, call.name)
  /\ call.what = "dot" => disk.inode[Child].size = 0
  /\ call.what = "dotdot" /\ call.at # "links" =>
       \A t \in Tells : t[1] = Child => t[3].name = "."
  /\ call.at = "undo" => call.what = "entry"
  /\ call.at = "links" => call.what = "dotdot"

(* Where a write goes: an entry to a place that is not in use, ...           *)
Held == disk.inode[Target.ino]
Placed ==
  /\ call.at \in Writing /\ call.what \in Entering =>
       /\ call.slot = Where /\ call.n = 1 /\ call.done = 0
       /\ call.at # "size" =>
            call.off <= Held.size /\ (call.off < Held.size => EntryAt(Target.ino, call.off).ino = 0)
       /\ call.at = "size" =>
            call.off = Held.size + 1 /\ EntryAt(Target.ino, Held.size) = NewEntry
  /\ call.at \in Writing /\ call.what = "file" => Held.type = "file"

(* ... in the zone that is there, or in a hole until a zone of zeros fills it. *)
Zoned ==
  /\ call.at \in {"zmap", "zero", "assign"} => ZonaDi(disk, Held, Logical) = 0
  /\ call.at = "data" => ZonaDi(disk, Held, Logical) = call.z
  /\ call.at = "assign" \/ (call.at \in {"zmap", "zero"} /\ call.indirect) =>
       disk.data[call.z] = Zeroes
  /\ call.at \in {"zmap", "zero", "assign"} /\ call.indirect => InIndirect /\ Held.ind = 0

Sound == Whole /\ Told /\ Saved /\ Reached /\ Asked /\ Placed /\ Zoned
SInv == faults = 0 => Sound

-----------------------------------------------------------------------------
(* What a file reads as.                                                     *)

LEMMA HeldZones ==
  ASSUME MTypes, NEW i \in Known
  PROVE  /\ i \in Inodes /\ disk.inode[i] \in Nodes
         /\ \A n \in Nat : LET z == ZonaDi(disk, disk.inode[i], n)
                           IN  z \in 0 .. NZones /\ (z # 0 => z \in Zones /\ <<i, n, z>> \in Refs)
         /\ disk.inode[i].ind # 0 =>
              disk.inode[i].ind \in Zones /\ <<i, -1, disk.inode[i].ind>> \in Refs
  <1>1. i \in Inodes /\ disk \in Disks
    BY DEF Known, MTypes
  <1>2. PICK m : m = disk.inode[i]
    OBVIOUS
  <1>3. m \in Nodes /\ <<i, m>> \in Copies
    BY <1>1, <1>2, CopiesType
  <1>4. ASSUME NEW z \in 0 .. NZones, z # 0, NEW n \in PlaceNos, PlaceHolds(disk.ptr, m, n, z)
        PROVE  z \in Zones /\ <<i, n, z>> \in Refs
    <2>1. z \in Zones
      BY <1>4, Numbers DEF Zones
    <2> QED
      BY <1>1, <1>3, <1>4, <2>1 DEF Refs
  <1>5. m.ind # 0 => m.ind \in Zones /\ <<i, -1, m.ind>> \in Refs
    <2>1. m.ind \in 0 .. NZones /\ -1 \in PlaceNos
      BY <1>3, Numbers DEF Nodes, PlaceNos
    <2> QED
      BY <1>4, <2>1 DEF PlaceHolds
  <1>6. ASSUME NEW n \in Nat
        PROVE  LET z == ZonaDi(disk, m, n)
               IN  z \in 0 .. NZones /\ (z # 0 => z \in Zones /\ <<i, n, z>> \in Refs)
    <2>1. PICK z : z = ZonaDi(disk, m, n)
      OBVIOUS
    <2>2. z \in 0 .. NZones
      BY <1>1, <1>3, <2>1, ZonaDiType
    <2>3. z # 0 => n \in PlaceNos /\ PlaceHolds(disk.ptr, m, n, z)
      BY <2>1, Numbers DEF ZonaDi, PlaceNos, PlaceHolds
    <2> QED
      BY <1>4, <2>1, <2>2, <2>3
  <1> QED
    BY <1>1, <1>2, <1>3, <1>5, <1>6

LEMMA SameZone ==
  ASSUME NEW m, NEW k, m.zone = k.zone, m.ind = k.ind,
         m.ind # 0 => disk'.ptr[m.ind] = disk.ptr[m.ind], NEW n
  PROVE  ZonaDi(disk', k, n) = ZonaDi(disk, m, n)
  BY DEF ZonaDi

LEMMA SameRead ==
  ASSUME NEW m, NEW k, NEW p,
         LET z == ZonaDi(disk, m, p \div PerBlock)
         IN  /\ ZonaDi(disk', k, p \div PerBlock) = z
             /\ z # 0 => disk'.data[z] = disk.data[z]
  PROVE  ReadAt(disk', k, p) = ReadAt(disk, m, p)
  BY DEF ReadAt

Untouched(i) ==
  \A z \in Zones : \/ disk'.data[z] = disk.data[z] /\ disk'.ptr[z] = disk.ptr[z]
                   \/ \A n \in PlaceNos : <<i, n, z>> \notin Refs

Steady(i) ==
  /\ \A p \in Nat : EntryAt(i, p)' = EntryAt(i, p)
  /\ \A n \in Nat : ZonaDi(disk', disk'.inode[i], n) = ZonaDi(disk, disk.inode[i], n)

LEMMA Undisturbed ==
  ASSUME MTypes, NEW i \in Known, Untouched(i),
         disk'.inode[i].zone = disk.inode[i].zone, disk'.inode[i].ind = disk.inode[i].ind
  PROVE  Steady(i)
  <1> DEFINE m == disk.inode[i]
             k == disk'.inode[i]
  <1>1. /\ \A n \in Nat : LET z == ZonaDi(disk, m, n)
                          IN  z \in 0 .. NZones /\ (z # 0 => z \in Zones /\ <<i, n, z>> \in Refs)
        /\ m.ind # 0 => m.ind \in Zones /\ <<i, -1, m.ind>> \in Refs
    BY HeldZones
  <1>2. k.zone = m.zone /\ k.ind = m.ind
    OBVIOUS
  <1>3. \A p \in Nat : EntryAt(i, p) = ReadAt(disk, m, p) /\ EntryAt(i, p)' = ReadAt(disk', k, p)
    BY DEF EntryAt
  <1>4. \A r \in Refs : r[2] \in PlaceNos
    BY DEF Refs
  <1> HIDE DEF m, k
  <1>5. m.ind # 0 => disk'.ptr[m.ind] = disk.ptr[m.ind]
    BY <1>1, <1>4 DEF Untouched
  <1>6. \A n \in Nat : ZonaDi(disk', k, n) = ZonaDi(disk, m, n)
    BY <1>2, <1>5, SameZone
  <1>7. ASSUME NEW p \in Nat PROVE EntryAt(i, p)' = EntryAt(i, p)
    <2>1. p \div PerBlock \in Nat
      BY DivMod
    <2>2. PICK z : z = ZonaDi(disk, m, p \div PerBlock)
      OBVIOUS
    <2>3. z # 0 => z \in Zones /\ <<i, p \div PerBlock, z>> \in Refs
      BY <1>1, <2>1, <2>2
    <2>4. z # 0 => disk'.data[z] = disk.data[z]
      BY <1>4, <2>3 DEF Untouched
    <2>5. ReadAt(disk', k, p) = ReadAt(disk, m, p)
      BY <1>6, <2>1, <2>2, <2>4, SameRead
    <2> QED
      BY <1>3, <2>5
  <1>8. \A n \in Nat : ZonaDi(disk', disk'.inode[i], n) = ZonaDi(disk, disk.inode[i], n)
    BY <1>6 DEF m, k
  <1> QED
    BY <1>7, <1>8 DEF Steady

(* A zone of zeros in the place of a hole.                                   *)
LEMMA HoleFilled ==
  ASSUME MTypes, NEW i \in Known, NEW l \in Nat, NEW a,
         disk'.data = disk.data, disk.data[a] = Zeroes,
         \A n \in Nat : ZonaDi(disk', disk'.inode[i], n) =
                          IF n = l THEN a ELSE ZonaDi(disk, disk.inode[i], n),
         ZonaDi(disk, disk.inode[i], l) = 0
  PROVE  \A p \in Nat : EntryAt(i, p)' = EntryAt(i, p)
  <1> SUFFICES ASSUME NEW p \in Nat PROVE EntryAt(i, p)' = EntryAt(i, p)
    OBVIOUS
  <1> DEFINE m == disk.inode[i]
             k == disk'.inode[i]
  <1>1. p \div PerBlock \in Nat /\ p % PerBlock \in 0 .. PerBlock - 1
    BY DivMod
  <1>2. EntryAt(i, p) = ReadAt(disk, m, p) /\ EntryAt(i, p)' = ReadAt(disk', k, p)
    BY DEF EntryAt
  <1>3. \A n \in Nat : ZonaDi(disk', k, n) = IF n = l THEN a ELSE ZonaDi(disk, m, n)
    OBVIOUS
  <1>4. ZonaDi(disk, m, l) = 0
    OBVIOUS
  <1> HIDE DEF m, k
  <1>5. CASE p \div PerBlock = l
    <2>1. ReadAt(disk, m, p) = Empty
      BY <1>4, <1>5 DEF ReadAt
    <2>2. Zeroes[p % PerBlock] = Empty
      BY <1>1 DEF Zeroes
    <2>3. ReadAt(disk', k, p) = Empty
      BY <1>1, <1>3, <1>5, <2>2 DEF ReadAt
    <2> QED
      BY <1>2, <2>1, <2>3
  <1>6. CASE p \div PerBlock # l
    BY <1>1, <1>2, <1>3, <1>6, SameRead
  <1> QED
    BY <1>5, <1>6

-----------------------------------------------------------------------------
(* What the directories say, before and after a step.                        *)

LEMMA TellsAre ==
  /\ \A i \in Directories : \A off \in EntriesOf(i) : <<i, off, EntryAt(i, off)>> \in Tells
  /\ \A t \in Tells : /\ t[1] \in Directories /\ t[2] \in EntriesOf(t[1])
                      /\ t = <<t[1], t[2], EntryAt(t[1], t[2])>>
                      /\ t[3] = EntryAt(t[1], t[2])
  BY DEF Tells

LEMMA EntriesAre ==
  ASSUME MTypes, NEW i \in Inodes
  PROVE  /\ disk.inode[i] \in Nodes /\ disk.inode[i].size \in Nat
         /\ \A off : off \in EntriesOf(i) <=>
              off \in Nat /\ off < disk.inode[i].size /\ EntryAt(i, off).ino # 0
  <1>1. disk.inode[i] \in Nodes /\ disk.inode[i].size \in Nat
    BY Numbers DEF MTypes, Disks, Nodes
  <1>2. EntriesOf(i) = {off \in 0 .. disk.inode[i].size - 1 : EntryAt(i, off).ino # 0}
    BY DEF EntriesOf, InUse, EntryAt
  <1> HIDE DEF EntriesOf
  <1> QED
    BY <1>1, <1>2

LEMMA LiveIs == Live = {Root} \union {t[3].ino : t \in Tells}
<1>1. ASSUME NEW i \in Live PROVE i \in {Root} \union {t[3].ino : t \in Tells}
  <2>1. CASE i \in UNION {{EntryAt(j, off).ino : off \in EntriesOf(j)} : j \in Directories}
    <3>1. PICK j \in Directories : i \in {EntryAt(j, off).ino : off \in EntriesOf(j)}
      BY <2>1
    <3>2. PICK off \in EntriesOf(j) : i = EntryAt(j, off).ino
      BY <3>1
    <3>3. <<j, off, EntryAt(j, off)>> \in Tells
      BY TellsAre
    <3> QED
      BY <3>2, <3>3
  <2> QED
    BY <2>1 DEF Live
<1>2. ASSUME NEW t \in Tells PROVE t[3].ino \in Live
  BY TellsAre DEF Live
<1> QED
  BY <1>1, <1>2 DEF Live

LEMMA TellsType ==
  ASSUME MTypes, NEW t \in Tells
  PROVE  /\ t[1] \in Directories /\ t[1] \in Inodes
         /\ t[2] \in Nat /\ t[2] < disk.inode[t[1]].size
         /\ t[3] = EntryAt(t[1], t[2]) /\ t[3].ino # 0 /\ t[3].ino \in Known /\ t[3].ino \in Inodes
  <1>1. /\ t[1] \in Directories /\ t[2] \in EntriesOf(t[1]) /\ t[3] = EntryAt(t[1], t[2])
    BY TellsAre
  <1>2. t[1] \in Inodes /\ disk \in Disks
    BY <1>1 DEF Directories, MTypes, Disks
  <1>3. /\ t[2] \in Nat /\ t[2] < disk.inode[t[1]].size /\ EntryAt(t[1], t[2]).ino # 0
        /\ disk.inode[t[1]] \in Nodes
    BY <1>1, <1>2, EntriesAre
  <1>4. PICK m, off : m = disk.inode[t[1]] /\ off = t[2]
    OBVIOUS
  <1>5. /\ m \in Nodes /\ off \in Nat /\ EntryAt(t[1], t[2]) = ReadAt(disk, m, off)
    BY <1>3, <1>4 DEF EntryAt
  <1>6. ReadAt(disk, m, off) # Empty
    BY <1>3, <1>5, EntryTypes
  <1>7. \E z \in Zones, p \in 0 .. PerBlock - 1 : ReadAt(disk, m, off) = disk.data[z][p]
    BY <1>2, <1>5, <1>6, ReadAtType
  <1>8. ReadAt(disk, m, off).ino \in Known
    BY <1>3, <1>5, <1>7, EntryKnown
  <1> QED
    BY <1>1, <1>2, <1>3, <1>5, <1>8 DEF Known

LEMMA LiveKnown == MTypes => Live \subseteq Known
  <1>1. Root \in Known
    BY Numbers DEF Known
  <1> QED
    BY <1>1, LiveIs, TellsType

TellsOK ==
  /\ \A i \in Inodes :
       /\ disk.inode[i] \in Nodes /\ disk.inode[i].size \in Nat
       /\ \A off : off \in EntriesOf(i) <=>
            off \in Nat /\ off < disk.inode[i].size /\ EntryAt(i, off).ino # 0
  /\ \A i \in Directories :
       i \in Inodes /\ \A off \in EntriesOf(i) : <<i, off, EntryAt(i, off)>> \in Tells
  /\ \A t \in Tells :
       /\ t[1] \in Directories /\ t[2] \in Nat /\ t[2] < disk.inode[t[1]].size
       /\ t = <<t[1], t[2], EntryAt(t[1], t[2])>> /\ t[3] = EntryAt(t[1], t[2])
       /\ t[3].ino # 0 /\ t[3].ino \in Known
  /\ Live = {Root} \union {t[3].ino : t \in Tells}
  /\ Live \subseteq Known /\ Known \subseteq Inodes

LEMMA TellsFacts == MTypes => TellsOK
<1> SUFFICES ASSUME MTypes PROVE TellsOK
  OBVIOUS
<1>1. \A i \in Directories : i \in Inodes
  BY DEF Directories, MTypes, Disks
<1>2. \A i \in Directories : \A off \in EntriesOf(i) : <<i, off, EntryAt(i, off)>> \in Tells
  BY TellsAre
<1>3. \A t \in Tells :
       /\ t[1] \in Directories /\ t[2] \in Nat /\ t[2] < disk.inode[t[1]].size
       /\ t = <<t[1], t[2], EntryAt(t[1], t[2])>> /\ t[3] = EntryAt(t[1], t[2])
       /\ t[3].ino # 0 /\ t[3].ino \in Known
  BY TellsType, TellsAre
<1>4. Live \subseteq Known /\ Known \subseteq Inodes
  BY LiveKnown DEF Known
<1> QED
  BY <1>1, <1>2, <1>3, <1>4, EntriesAre, LiveIs DEF TellsOK

LEMMA TellsFactsNext == MTypes' => TellsOK'
  BY TellsFacts, PTL

Filled(i) == i \in Directories /\ disk.inode[i].size > 0

(* Whoever says something is known.                                          *)
LEMMA TellerKnown ==
  ASSUME MTypes, Whole, NEW t \in Tells
  PROVE  Filled(t[1]) /\ t[1] \in Live /\ t[1] \in Known
  <1>1. Filled(t[1]) /\ t[1] \in Inodes
    BY TellsFacts DEF TellsOK, Filled
  <1> QED
    BY <1>1, LiveKnown DEF Filled, Whole, Directories

LEMMA TellsSame ==
  ASSUME MTypes, MTypes', Whole,
         \A i \in Inodes : Filled(i)' <=> Filled(i),
         \A i \in Inodes : Filled(i) => disk'.inode[i].size = disk.inode[i].size,
         \A i \in Known : Filled(i) => \A p \in Nat :
           p < disk.inode[i].size => EntryAt(i, p)' = EntryAt(i, p)
  PROVE  Tells' = Tells /\ Live' = Live
  <1>1. ASSUME NEW t \in Tells PROVE t \in Tells'
    <2>1. /\ Filled(t[1]) /\ t[1] \in Known /\ t[1] \in Inodes
          /\ t[2] \in Nat /\ t[2] < disk.inode[t[1]].size
          /\ t = <<t[1], t[2], EntryAt(t[1], t[2])>> /\ t[3].ino # 0 /\ t[3] = EntryAt(t[1], t[2])
      BY TellerKnown, TellsFacts DEF TellsOK
    <2>2. /\ Filled(t[1])' /\ t[2] < disk'.inode[t[1]].size
          /\ EntryAt(t[1], t[2])' = EntryAt(t[1], t[2])
      BY <2>1
    <2>3. t[2] \in EntriesOf(t[1])'
      BY <2>1, <2>2, TellsFactsNext DEF TellsOK
    <2>4. <<t[1], t[2], EntryAt(t[1], t[2])'>> \in Tells'
      BY <2>2, <2>3, TellsFactsNext DEF TellsOK, Filled
    <2> QED
      BY <2>1, <2>2, <2>4
  <1>2. ASSUME NEW t \in Tells' PROVE t \in Tells
    <2>1. /\ t[1] \in Inodes /\ t[1] \in Directories'
          /\ t[2] \in Nat /\ t[2] < disk'.inode[t[1]].size /\ disk'.inode[t[1]].size \in Nat
          /\ t = <<t[1], t[2], EntryAt(t[1], t[2])'>> /\ t[3].ino # 0 /\ t[3] = EntryAt(t[1], t[2])'
      BY TellsFactsNext DEF TellsOK
    <2>3. Filled(t[1])' /\ Filled(t[1])
      BY <2>1 DEF Filled
    <2>4. t[1] \in Known
      BY <2>1, <2>3, LiveKnown DEF Filled, Whole, Directories
    <2>5. t[2] < disk.inode[t[1]].size /\ EntryAt(t[1], t[2])' = EntryAt(t[1], t[2])
      BY <2>1, <2>3, <2>4
    <2>6. t[2] \in EntriesOf(t[1])
      BY <2>1, <2>5, TellsFacts DEF TellsOK
    <2>7. <<t[1], t[2], EntryAt(t[1], t[2])>> \in Tells
      BY <2>3, <2>6, TellsFacts DEF TellsOK, Filled
    <2> QED
      BY <2>1, <2>5, <2>7
  <1>3. Tells' = Tells
    BY <1>1, <1>2
  <1> QED
    BY <1>3, TellsFacts, TellsFactsNext DEF TellsOK

(* One entry more, at a place that was not in use or at the end.             *)
LEMMA TellsMore ==
  ASSUME MTypes, MTypes', Whole, NEW d \in Known, d \in Directories,
         NEW off \in Nat, NEW e, e.ino # 0,
         off <= disk.inode[d].size,
         off < disk.inode[d].size => EntryAt(d, off).ino = 0,
         Directories' = Directories,
         \A i \in Inodes : disk'.inode[i].size =
           IF i = d /\ off = disk.inode[d].size THEN off + 1 ELSE disk.inode[i].size,
         \A i \in Known : \A p \in Nat :
           EntryAt(i, p)' = IF i = d /\ p = off THEN e ELSE EntryAt(i, p)
  PROVE  /\ Tells' = Tells \union {<<d, off, e>>}
         /\ \A t \in Tells : ~(t[1] = d /\ t[2] = off)
         /\ Live' = Live \union {e.ino}
  <1>0. /\ \A i \in Inodes : disk.inode[i].size \in Nat
        /\ \A i \in Directories : i \in Inodes
        /\ d \in Inodes /\ Known \subseteq Inodes
    BY TellsFacts DEF TellsOK
  <1>1. ASSUME NEW t \in Tells PROVE t \in Tells' /\ ~(t[1] = d /\ t[2] = off)
    <2>1. /\ t[1] \in Directories /\ t[1] \in Known /\ t[1] \in Inodes
          /\ t[2] \in Nat /\ t[2] < disk.inode[t[1]].size
          /\ t = <<t[1], t[2], EntryAt(t[1], t[2])>> /\ t[3].ino # 0 /\ t[3] = EntryAt(t[1], t[2])
      BY TellerKnown, TellsFacts DEF TellsOK
    <2>2. ~(t[1] = d /\ t[2] = off)
      BY <2>1
    <2>3. EntryAt(t[1], t[2])' = EntryAt(t[1], t[2])
      BY <2>1, <2>2
    <2>4. t[2] < disk'.inode[t[1]].size
      BY <1>0, <2>1
    <2>5. t[2] \in EntriesOf(t[1])'
      BY <2>1, <2>3, <2>4, TellsFactsNext DEF TellsOK
    <2>6. <<t[1], t[2], EntryAt(t[1], t[2])'>> \in Tells'
      BY <2>1, <2>5, TellsFactsNext DEF TellsOK
    <2> QED
      BY <2>1, <2>2, <2>3, <2>6
  <1>2. <<d, off, e>> \in Tells'
    <2>1. off < disk'.inode[d].size
      BY <1>0
    <2>2. EntryAt(d, off)' = e
      OBVIOUS
    <2>3. off \in EntriesOf(d)'
      BY <1>0, <2>1, <2>2, TellsFactsNext DEF TellsOK
    <2> QED
      BY <2>2, <2>3, TellsFactsNext DEF TellsOK
  <1>3. ASSUME NEW t \in Tells', ~(t[1] = d /\ t[2] = off) PROVE t \in Tells
    <2>1. /\ t[1] \in Inodes /\ t[1] \in Directories
          /\ t[2] \in Nat /\ t[2] < disk'.inode[t[1]].size
          /\ t = <<t[1], t[2], EntryAt(t[1], t[2])'>> /\ t[3].ino # 0 /\ t[3] = EntryAt(t[1], t[2])'
      BY TellsFactsNext DEF TellsOK
    <2>2. t[2] < disk.inode[t[1]].size
      BY <1>0, <1>3, <2>1
    <2>3. t[1] \in Known
      <3>1. disk.inode[t[1]].size > 0 /\ disk.inode[t[1]].type = "dir"
        BY <1>0, <2>1, <2>2 DEF Directories
      <3> QED
        BY <2>1, <3>1, LiveKnown DEF Whole
    <2>4. EntryAt(t[1], t[2])' = EntryAt(t[1], t[2])
      BY <1>3, <2>1, <2>3
    <2>5. t[2] \in EntriesOf(t[1])
      BY <2>1, <2>2, <2>4, TellsFacts DEF TellsOK
    <2>6. <<t[1], t[2], EntryAt(t[1], t[2])>> \in Tells
      BY <2>1, <2>5, TellsFacts DEF TellsOK
    <2> QED
      BY <2>1, <2>4, <2>6
  <1>4. ASSUME NEW t \in Tells', t[1] = d, t[2] = off PROVE t = <<d, off, e>>
    <2>1. t = <<t[1], t[2], EntryAt(t[1], t[2])'>>
      BY TellsFactsNext DEF TellsOK
    <2> QED
      BY <1>4, <2>1
  <1>5. Tells' = Tells \union {<<d, off, e>>}
    <2>1. <<d, off, e>>[1] = d /\ <<d, off, e>>[2] = off
      OBVIOUS
    <2> QED
      BY <1>1, <1>2, <1>3, <1>4, <2>1
  <1>6. Live' = Live \union {e.ino}
    <2>1. <<d, off, e>>[3] = e
      OBVIOUS
    <2>2. Live = {Root} \union {t[3].ino : t \in Tells} /\ Live' = {Root} \union {t[3].ino : t \in Tells'}
      BY TellsFacts, TellsFactsNext DEF TellsOK
    <2> QED
      BY <1>5, <2>1, <2>2
  <1> QED
    BY <1>1, <1>5, <1>6

LEMMA WholeMore ==
  ASSUME MTypes, MTypes', Whole, NEW d, NEW off, NEW e,
         Tells' = Tells \union {<<d, off, e>>}, Live' = Live \union {e.ino},
         Directories' = Directories, disk'.imap = disk.imap,
         \A i \in Inodes : disk'.inode[i].type = disk.inode[i].type,
         \A i \in Inodes : i # d => disk'.inode[i].size = disk.inode[i].size,
         d \in Live', Unsaid(d, e.name),
         e.ino \in disk.imap, disk.inode[e.ino].type # "none",
         e.name \in Dots \/ e.ino \notin Live
  PROVE  Whole'
  <1>1. /\ \A t \in Tells : t[3].ino \in Live /\ t[3].ino \in Inodes
        /\ <<d, off, e>>[1] = d /\ <<d, off, e>>[3] = e
        /\ disk.imap \subseteq Inodes
    BY TellsFacts DEF TellsOK, MTypes, Disks
  <1>2. Root \in Directories'
    BY DEF Whole
  <1>3. \A i \in Inodes : disk'.inode[i].type = "dir" /\ disk'.inode[i].size > 0 => i \in Live'
    BY DEF Whole
  <1>4. ASSUME NEW t \in Tells' PROVE t[3].ino \in disk'.imap /\ disk'.inode[t[3].ino].type # "none"
    BY <1>1 DEF Whole
  <1>5. ASSUME NEW t \in Tells', NEW u \in Tells', t # u
        PROVE  /\ t[1] = u[1] => t[3].name # u[3].name
               /\ t[3].name \notin Dots /\ u[3].name \notin Dots => t[3].ino # u[3].ino
    <2>1. CASE t \in Tells /\ u \in Tells
      BY <1>5, <2>1 DEF Whole
    <2>2. CASE t \in Tells /\ u = <<d, off, e>>
      BY <1>1, <2>2 DEF Unsaid
    <2>3. CASE u \in Tells /\ t = <<d, off, e>>
      BY <1>1, <2>3 DEF Unsaid
    <2> QED
      BY <1>5, <2>1, <2>2, <2>3
  <1> QED
    BY <1>2, <1>3, <1>4, <1>5 DEF Whole

LEMMA WholeSame ==
  ASSUME MTypes, MTypes', Whole, Tells' = Tells, Live' = Live,
         \A i \in Live : i \in disk'.imap /\ disk'.inode[i].type = disk.inode[i].type,
         \A i \in Inodes : disk'.inode[i].type = "dir" /\ disk'.inode[i].size > 0 => i \in Live
  PROVE  Whole'
  <1>1. /\ \A t \in Tells : t[3].ino \in Live /\ t[3].ino \in Inodes
        /\ Root \in Live /\ Root \in Inodes /\ Live \subseteq Inodes
    BY Numbers, TellsFacts DEF TellsOK
  <1>2. Root \in Directories'
    BY <1>1 DEF Whole, Directories
  <1>3. \A t \in Tells : t[3].ino \in disk'.imap /\ disk'.inode[t[3].ino].type # "none"
    BY <1>1 DEF Whole
  <1> QED
    BY <1>2, <1>3 DEF Whole

-----------------------------------------------------------------------------
(* The call under way.                                                       *)

LEMMA LiveTaken ==
  ASSUME MTypes, Whole, NEW i \in Live
  PROVE  i \in disk.imap /\ disk.inode[i].type # "none" /\ i \in Inodes /\ i \in Known
  <1>1. i \in Known /\ i \in Inodes
    BY TellsFacts DEF TellsOK
  <1>2. i = Root \/ \E t \in Tells : i = t[3].ino
    BY TellsFacts DEF TellsOK
  <1> QED
    BY <1>1, <1>2 DEF Whole, Directories

LEMMA Aim ==
  ASSUME ZInv, Saved, call.at \in Writing
  PROVE  /\ call.slot \in Slots /\ Target.ino \in Known /\ Target.ino \in Inodes /\ Target.ino # 0
         /\ Target.ino = cache[call.slot].ino
         /\ Target.node = Held /\ Held \in Nodes /\ Logical \in Nat /\ call.off \in Nat
         /\ Target.ino \in disk.imap
  <1>1. /\ MTypes /\ CallOK(call) /\ Target.ino # 0 /\ call.slot \in Slots /\ call \in Calls
    BY DEF ZInv, MTypes, SlotsOK, CallOK
  <1>2. call.off \in Nat
    BY <1>1 DEF Calls
  <1>3. Logical \in Nat
    BY <1>2, DivMod DEF Logical
  <1>4. Target.ino \in Known /\ Target.ino \in Inodes
    <2>1. Target.ino \in Known
      BY <1>1, CopiesType DEF Target
    <2> QED
      BY <2>1 DEF Known
  <1>5. Target.node = Held /\ Target.ino \in disk.imap
    BY <1>1 DEF Saved, Target, Held
  <1>6. Held \in Nodes
    BY <1>1, <1>4 DEF Held, MTypes, Disks
  <1> QED
    BY <1>1, <1>2, <1>3, <1>4, <1>5, <1>6 DEF Target

(* No place of a directory reads other than before.                          *)
Calm ==
  /\ disk'.imap = disk.imap
  /\ \A i \in Inodes : /\ disk'.inode[i].type = disk.inode[i].type
                       /\ disk'.inode[i].size = disk.inode[i].size
  /\ \A i \in Known : \A p \in Nat : EntryAt(i, p)' = EntryAt(i, p)

LEMMA CalmTells ==
  ASSUME MTypes, MTypes', Whole, Calm
  PROVE  Tells' = Tells /\ Live' = Live /\ Whole'
  <1>1. \A i \in Inodes : Filled(i)' <=> Filled(i)
    BY DEF Calm, Filled, Directories
  <1>2. Tells' = Tells /\ Live' = Live
    BY <1>1, TellsSame DEF Calm
  <1>3. \A i \in Live : i \in disk'.imap /\ disk'.inode[i].type = disk.inode[i].type
    BY LiveTaken DEF Calm
  <1>4. \A i \in Inodes : disk'.inode[i].type = "dir" /\ disk'.inode[i].size > 0 => i \in Live
    BY DEF Calm, Whole
  <1> QED
    BY <1>2, <1>3, <1>4, WholeSame

LEMMA SavedSame ==
  ASSUME Saved, \A s \in Slots : cache'[s] = cache[s], MTypes,
         disk'.imap = disk.imap, \A i \in Inodes : disk'.inode[i] = disk.inode[i]
  PROVE  Saved'
  <1>1. \A s \in Slots : cache[s].ino # 0 => cache[s].ino \in Inodes
    BY Numbers DEF MTypes, Inodes
  <1> QED
    BY <1>1 DEF Saved

LEMMA SavedNode ==
  ASSUME Saved, MTypes, NEW s \in Slots, cache[s].ino # 0, NEW m,
         cache' = [cache EXCEPT ![s].node = m], disk'.imap = disk.imap,
         \A i \in Inodes : disk'.inode[i] = IF i = cache[s].ino THEN m ELSE disk.inode[i]
  PROVE  Saved' /\ \A t \in Slots : cache'[t].ino = cache[t].ino
  <1>1. /\ \A t \in Slots : cache[t].ino # 0 => cache[t].ino \in Inodes
        /\ cache \in [Slots -> [ino : 0 .. NInodes, node : Nodes]]
    BY Numbers DEF MTypes, Inodes
  <1>2. \A t \in Slots : /\ cache'[t].ino = cache[t].ino
                         /\ cache'[t].node = IF t = s THEN m ELSE cache[t].node
    BY <1>1
  <1> QED
    BY <1>1, <1>2 DEF Saved

LEMMA Rests ==
  ASSUME NEW ok \in BOOLEAN, call' = Answer(ok)
  PROVE  Asked' /\ Placed' /\ Zoned'
  <1>1. call'.at = "idle" /\ call'.what = "none"
    BY AnswerOK
  <1>2. "idle" \notin Writing /\ "none" \notin Entering
    BY CallValues
  <1> QED
    BY <1>1, <1>2 DEF Asked, Placed, Zoned

SamePlace ==
  /\ call'.what = call.what /\ call'.dir = call.dir /\ call'.new = call.new
  /\ call'.name = call.name /\ call'.type = call.type /\ call'.slot = call.slot
  /\ call'.n = call.n /\ call'.done = call.done /\ call'.off = call.off

LEMMA AskedStays ==
  ASSUME ZInv, Sound, call.at \in Writing \union {"insert"},
         call'.at \in Writing \union {"insert"}, 
         call'.what = call.what, call'.dir = call.dir, call'.new = call.new,
         call'.name = call.name, call'.type = call.type,
         \A s \in Slots : cache'[s].ino = cache[s].ino,
         \A i \in Inodes : /\ disk'.inode[i].type = disk.inode[i].type
                           /\ disk'.inode[i].size = disk.inode[i].size,
         Tells' = Tells, Live' = Live
  PROVE  Asked' /\ Reached'
  <1>1. CallOK(call) /\ MTypes
    BY DEF ZInv, MTypes
  <1>2. /\ call.what \in Entering => call.dir \in Slots /\ call.new \in Slots
        /\ \A s \in Slots : cache[s].ino # 0 => cache[s].ino \in Inodes
    BY <1>1, Numbers DEF CallOK, MTypes, Inodes
  <1>3. /\ call.what \in Entering => /\ Parent' = Parent /\ Child' = Child
                                     /\ Parent \in Inodes /\ Child \in Inodes
    <2>1. call.what \in Entering => cache[call.dir].ino # 0 /\ cache[call.new].ino # 0
      BY DEF ZInv, SlotsOK
    <2> QED
      BY <1>2, <2>1 DEF Parent, Child
  <1>4. /\ call'.at \notin {"imap", "erase", "inode", "undo", "links"}
        /\ call.at \notin {"imap", "erase", "inode", "undo", "links"}
        /\ Entering = {"entry", "dot", "dotdot"}
    BY CallValues
  <1>5. Asked'
    BY <1>3, <1>4 DEF Sound, Asked, Unsaid
  <1>6. Reached'
    BY DEF Sound, Reached
  <1> QED
    BY <1>5, <1>6

LEMMA Onward ==
  ASSUME ZInv, ZInv', Sound, SamePlace, Calm, made' = made, Saved', Zoned',
         call.at \in Writing \ {"size"}, call'.at \in Writing \ {"size"},
         \A s \in Slots : cache'[s].ino = cache[s].ino
  PROVE  Sound'
  <1>1. MTypes /\ MTypes'
    BY DEF ZInv
  <1>2. Tells' = Tells /\ Live' = Live /\ Whole'
    BY <1>1, CalmTells DEF Sound
  <1>3. Asked' /\ Reached'
    BY <1>2, AskedStays DEF Calm, SamePlace
  <1>4. Told'
    BY <1>2 DEF Sound, Told
  <1>5. Placed'
    <2>1. /\ Target.ino \in Known /\ Target.ino \in Inodes /\ call.slot \in Slots
          /\ call.off \in Nat /\ Held \in Nodes
      BY Aim DEF Sound
    <2>2. PICK i, p : i = Target.ino /\ p = call.off
      OBVIOUS
    <2>3. i \in Known /\ i \in Inodes /\ p \in Nat /\ Target'.ino = i /\ call'.off = p
      BY <2>1, <2>2 DEF Target, SamePlace
    <2>4. /\ Held'.size = Held.size /\ Held'.type = Held.type
          /\ EntryAt(i, p)' = EntryAt(i, p)
      BY <2>2, <2>3 DEF Held, Calm
    <2>5. Where' = Where
      BY DEF Where, SamePlace
    <2>6. call.what \in Entering =>
            /\ call.slot = Where /\ call.n = 1 /\ call.done = 0
            /\ p <= Held.size /\ (p < Held.size => EntryAt(i, p).ino = 0)
      BY <2>2 DEF Sound, Placed
    <2>7. call.what = "file" => Held.type = "file"
      BY DEF Sound, Placed
    <2>8. call'.what \in Entering =>
            /\ call'.slot = Where' /\ call'.n = 1 /\ call'.done = 0
            /\ p <= Held'.size /\ (p < Held'.size => EntryAt(i, p)'.ino = 0)
      BY <2>4, <2>5, <2>6 DEF SamePlace
    <2>9. call'.what = "file" => Held'.type = "file"
      BY <2>4, <2>7 DEF SamePlace
    <2>10. EntryAt(i, p)' = ReadAt(disk', disk'.inode[i], p)
      BY DEF EntryAt
    <2>11. (EntryAt(Target.ino, call.off))' = ReadAt(disk', disk'.inode[Target'.ino], call'.off)
      BY DEF EntryAt
    <2>12. (EntryAt(Target.ino, call.off))' = EntryAt(i, p)'
      BY <2>3, <2>10, <2>11
    <2> HIDE DEF EntryAt
    <2> QED
      BY <2>3, <2>8, <2>9, <2>12 DEF Placed
  <1> QED
    BY <1>2, <1>3, <1>4, <1>5 DEF Sound

-----------------------------------------------------------------------------
(* The steps of a write that look for a zone.                                *)

LEMMA SameAim ==
  ASSUME SamePlace, call.slot \in Slots, \A s \in Slots : cache'[s].ino = cache[s].ino
  PROVE  /\ Logical' = Logical /\ InIndirect' = InIndirect
         /\ \A i : i = Target.ino => Target'.ino = i /\ Held' = disk'.inode[i]
  <1>1. Target'.ino = cache[call.slot].ino /\ Target.ino = cache[call.slot].ino
    BY DEF Target, SamePlace
  <1>2. Logical' = Logical
    BY DEF Logical, SamePlace
  <1>3. InIndirect' = InIndirect
    BY <1>2 DEF InIndirect
  <1> QED
    BY <1>1, <1>2, <1>3 DEF Held

LEMMA CalmStill ==
  ASSUME disk' = disk PROVE Calm
  BY DEF Calm, EntryAt

LEMMA WritingIs ==
  /\ Writing = {"block", "zmap", "zero", "assign", "data", "size"}
  /\ Entering = {"entry", "dot", "dotdot"}
  BY DEF Writing, Entering

LEMMA FindZoneSound ==
  ASSUME ZInv, ZInv', Sound, faults = 0, faults' = 0, FindZone
  PROVE  Sound' /\ Calm
  <1>1. PICK z : z = ZonaDi(disk, Target.node, Logical)
    OBVIOUS
  <1>2. /\ call.at = "block" /\ disk' = disk /\ cache' = cache /\ Remember
        /\ call' = IF z = 0 THEN [call EXCEPT !.at = "zmap", !.indirect = FALSE]
                            ELSE [call EXCEPT !.at = "data", !.z = z]
    BY <1>1 DEF FindZone, Fault, Goes
  <1>3. call \in Calls /\ MTypes
    BY DEF ZInv, MTypes, CallOK
  <1>4. SamePlace
    BY <1>2, <1>3 DEF SamePlace, Calls
  <1>5. \/ z = 0 /\ call'.at = "zmap" /\ call'.indirect = FALSE
        \/ z # 0 /\ call'.at = "data" /\ call'.z = z
    BY <1>2, <1>3 DEF Calls
  <1>6. call.at \in Writing \ {"size"} /\ call'.at \in Writing \ {"size"}
    BY <1>2, <1>5, WritingIs
  <1>7. call.slot \in Slots /\ Target.node = Held
    BY <1>6, Aim DEF Sound
  <1>8. Held' = Held /\ Logical' = Logical
    BY <1>2, <1>4, <1>7, SameAim DEF Held
  <1>9. ZonaDi(disk', Held', Logical') = z
    BY <1>1, <1>2, <1>7, <1>8
  <1>10. Zoned'
    BY <1>5, <1>9 DEF Zoned
  <1>11. Saved' /\ Calm
    BY <1>2, <1>3, SavedSame, CalmStill DEF Sound
  <1>12. made' = made
    BY <1>2, <1>5 DEF Remember
  <1> QED
    BY <1>2, <1>4, <1>6, <1>10, <1>11, <1>12, Onward

LEMMA NeedIndirectSound ==
  ASSUME ZInv, ZInv', Sound, faults = 0, faults' = 0, NeedIndirect
  PROVE  Sound' /\ Calm
  <1>1. /\ call.at = "assign" /\ disk' = disk /\ cache' = cache /\ Remember
        /\ InIndirect /\ Target.node.ind = 0
        /\ call' = [call EXCEPT !.at = "zmap", !.indirect = TRUE]
    BY DEF NeedIndirect, Goes
  <1>2. call \in Calls /\ MTypes
    BY DEF ZInv, MTypes, CallOK
  <1>3. SamePlace /\ call'.at = "zmap" /\ call'.indirect = TRUE /\ call'.z = call.z
    BY <1>1, <1>2 DEF SamePlace, Calls
  <1>4. call.at \in Writing \ {"size"} /\ call'.at \in Writing \ {"size"}
    BY <1>1, <1>3, WritingIs
  <1>5. call.slot \in Slots /\ Target.node = Held
    BY <1>4, Aim DEF Sound
  <1>6. Held' = Held /\ Logical' = Logical /\ InIndirect' = InIndirect
    BY <1>1, <1>3, <1>5, SameAim DEF Held
  <1>7. ZonaDi(disk', Held', Logical') = ZonaDi(disk, Held, Logical)
    BY <1>1, <1>6
  <1>8. Zoned'
    BY <1>1, <1>3, <1>5, <1>6, <1>7 DEF Sound, Zoned
  <1>9. Saved' /\ Calm
    BY <1>1, <1>2, SavedSame, CalmStill DEF Sound
  <1>10. made' = made
    BY <1>1, <1>3 DEF Remember
  <1> QED
    BY <1>1, <1>3, <1>4, <1>8, <1>9, <1>10, Onward

LEMMA AccendiZonaSound ==
  ASSUME ZInv, ZInv', Sound, faults = 0, faults' = 0, AccendiZona
  PROVE  Sound' /\ Calm
  <1>1. PICK z : z = Min(FreeZones)
    OBVIOUS
  <1>2. /\ call.at = "zmap" /\ disk' = [disk EXCEPT !.zmap = @ \union {z}] /\ cache' = cache
        /\ Remember
        /\ \/ call.indirect /\ call' = [call EXCEPT !.at = "zero", !.ind = z]
           \/ ~call.indirect /\ call' = [call EXCEPT !.at = "zero", !.z = z]
    BY <1>1 DEF AccendiZona, Rewrite, Fault, Goes
  <1>3. call \in Calls /\ MTypes /\ disk \in Disks /\ call.indirect \in BOOLEAN
    BY DEF ZInv, MTypes, CallOK, Calls
  <1>4. /\ disk'.imap = disk.imap /\ disk'.inode = disk.inode
        /\ disk'.data = disk.data /\ disk'.ptr = disk.ptr
    BY <1>2, <1>3 DEF Disks
  <1>5. /\ SamePlace /\ call'.at = "zero" /\ call'.indirect = call.indirect
        /\ call.indirect => call'.z = call.z
    BY <1>2, <1>3 DEF SamePlace, Calls
  <1>6. call.at \in Writing \ {"size"} /\ call'.at \in Writing \ {"size"}
    BY <1>2, <1>5, WritingIs
  <1>7. call.slot \in Slots
    BY <1>6, Aim DEF Sound
  <1>8. Held' = Held /\ Logical' = Logical /\ InIndirect' = InIndirect
    BY <1>2, <1>4, <1>5, <1>7, SameAim DEF Held
  <1>9. ZonaDi(disk', Held', Logical') = ZonaDi(disk, Held, Logical)
    BY <1>4, <1>8 DEF ZonaDi
  <1>10. Zoned'
    BY <1>2, <1>4, <1>5, <1>8, <1>9 DEF Sound, Zoned
  <1>11. Saved'
    BY <1>2, <1>3, <1>4, SavedSame DEF Sound
  <1>12. Calm
    <2>1. \A i \in Known : Steady(i)
      BY <1>3, <1>4, Undisturbed DEF Untouched
    <2> QED
      BY <1>4, <2>1 DEF Calm, Steady
  <1>13. made' = made
    BY <1>2, <1>5 DEF Remember
  <1> QED
    BY <1>2, <1>5, <1>6, <1>10, <1>11, <1>12, <1>13, Onward

LEMMA AzzeraZonaSound ==
  ASSUME ZInv, ZInv', Sound, faults = 0, faults' = 0, AzzeraZona
  PROVE  Sound' /\ Calm
  <1>1. PICK a : a = Allocated
    OBVIOUS
  <1>2. /\ call.at = "zero" /\ disk' = [disk EXCEPT !.data[a] = Zeroes, !.ptr[a] = NoPtrs]
        /\ cache' = cache /\ Remember /\ call' = [call EXCEPT !.at = "assign"]
    BY <1>1 DEF AzzeraZona, Rewrite, Fault, Goes
  <1>3. call \in Calls /\ MTypes /\ disk \in Disks /\ CallOK(call)
    BY DEF ZInv, MTypes, CallOK
  <1>4. a \in Zones /\ Fresh(a) /\ (call.indirect => call.z # a) /\ (~call.indirect => call.z = a)
        /\ call.z \in Zones
    BY <1>1, <1>2, <1>3 DEF ZInv, InFlight, CallOK, Allocated
  <1>5. /\ disk'.imap = disk.imap /\ disk'.inode = disk.inode
        /\ \A y \in Zones : disk'.data[y] = IF y = a THEN Zeroes ELSE disk.data[y]
        /\ \A y \in Zones : disk'.ptr[y] = IF y = a THEN NoPtrs ELSE disk.ptr[y]
    BY <1>2, <1>3, ZeroUpdate
  <1>6. SamePlace /\ call'.at = "assign" /\ call'.indirect = call.indirect /\ call'.z = call.z
    BY <1>2, <1>3 DEF SamePlace, Calls
  <1>7. call.at \in Writing \ {"size"} /\ call'.at \in Writing \ {"size"}
    BY <1>2, <1>6, WritingIs
  <1>8. /\ call.slot \in Slots /\ Target.ino \in Known /\ Logical \in Nat
    BY <1>7, Aim DEF Sound
  <1>9. Held' = Held /\ Logical' = Logical /\ InIndirect' = InIndirect
    BY <1>2, <1>5, <1>6, <1>8, SameAim DEF Held
  <1>10. \A i \in Known : Steady(i)
    BY <1>3, <1>4, <1>5, Undisturbed DEF Untouched, Fresh
  <1>11. ZonaDi(disk', Held', Logical') = ZonaDi(disk, Held, Logical)
    <2>1. PICK i : i = Target.ino
      OBVIOUS
    <2>2. Held = disk.inode[i] /\ Held' = disk'.inode[i]
      BY <1>2, <1>6, <1>8, <2>1, SameAim DEF Held
    <2> QED
      BY <1>8, <1>9, <1>10, <2>1, <2>2 DEF Steady
  <1>12. Zoned'
    BY <1>2, <1>4, <1>5, <1>6, <1>9, <1>11 DEF Sound, Zoned
  <1>13. Saved'
    BY <1>2, <1>3, <1>5, SavedSame DEF Sound
  <1>14. Calm
    BY <1>5, <1>10 DEF Calm, Steady
  <1>15. made' = made
    BY <1>2, <1>6 DEF Remember
  <1> QED
    BY <1>2, <1>6, <1>7, <1>12, <1>13, <1>14, <1>15, Onward

LEMMA SaveQuiet ==
  ASSUME ZInv, Saved, call.at \in Writing, faults = 0, faults' = 0,
         NEW m \in Nodes, NEW ok, NEW failed, Save(m, ok, failed)
  PROVE  /\ disk'.imap = disk.imap /\ disk'.zmap = disk.zmap
         /\ disk'.data = disk.data /\ disk'.ptr = disk.ptr
         /\ \A i \in Inodes : disk'.inode[i] = IF i = Target.ino THEN m ELSE disk.inode[i]
         /\ call' = ok /\ Saved' /\ \A s \in Slots : cache'[s].ino = cache[s].ino
  <1>1. /\ cache' = [cache EXCEPT ![call.slot].node = m]
        /\ disk' = WithNode(m) /\ call' = ok
    BY DEF Save, Rewrite, Goes, Fault
  <1>2. MTypes /\ disk \in Disks
    BY DEF ZInv, MTypes
  <1>3. call.slot \in Slots /\ Target.ino # 0 /\ Target.ino = cache[call.slot].ino
    BY Aim
  <1>4. /\ disk'.imap = disk.imap /\ disk'.zmap = disk.zmap
        /\ disk'.data = disk.data /\ disk'.ptr = disk.ptr
        /\ \A i \in Inodes : disk'.inode[i] = IF i = Target.ino THEN m ELSE disk.inode[i]
    BY <1>1, <1>2, InodeUpdate DEF WithNode
  <1>5. Saved' /\ \A s \in Slots : cache'[s].ino = cache[s].ino
    BY <1>1, <1>2, <1>3, <1>4, SavedNode
  <1> QED
    BY <1>1, <1>4, <1>5

LEMMA AssignDirectSound ==
  ASSUME ZInv, ZInv', Sound, faults = 0, faults' = 0, AssignDirect
  PROVE  Sound' /\ Calm
  <1>0. PICK i, t, l, z : i = Target.ino /\ t = Held /\ l = Logical /\ z = call.z
    OBVIOUS
  <1> DEFINE m == [t EXCEPT !.zone[l] = z]
             c == [call EXCEPT !.at = "data"]
  <1>1. call \in Calls /\ MTypes /\ disk \in Disks /\ CallOK(call) /\ Zoned /\ Saved /\ Whole
    BY DEF ZInv, MTypes, CallOK, Sound
  <1>2. call.at = "assign" /\ l < ZONE_DIRETTE /\ Remember
    BY <1>0 DEF AssignDirect
  <1>3. call.at \in Writing \ {"size"}
    BY <1>2, WritingIs
  <1>4. /\ call.slot \in Slots /\ i \in Known /\ i \in Inodes /\ l \in Nat /\ t \in Nodes
        /\ t = disk.inode[i] /\ Target.node = t
    BY <1>0, <1>1, <1>3, Aim DEF Held
  <1>5. Save(m, c, Break)
    BY <1>0, <1>4 DEF AssignDirect
  <1>6. z \in Zones /\ z \in 0 .. NZones /\ l \in 0 .. ZONE_DIRETTE - 1 /\ z # 0
    BY <1>0, <1>1, <1>2, <1>4, Numbers DEF CallOK, Zones
  <1>7. /\ m \in Nodes /\ m.type = t.type /\ m.size = t.size /\ m.ind = t.ind
        /\ \A k \in 0 .. ZONE_DIRETTE - 1 : m.zone[k] = IF k = l THEN z ELSE t.zone[k]
    BY <1>4, <1>6, NodeUpdates
  <1>8. (SamePlace /\ c.at = "data" /\ c.z = z) \/ call' # c
    BY <1>0, <1>1 DEF Calls, SamePlace
  <1> HIDE DEF m, c
  <1>9. /\ disk'.imap = disk.imap /\ disk'.data = disk.data /\ disk'.ptr = disk.ptr
        /\ \A j \in Inodes : disk'.inode[j] = IF j = i THEN m ELSE disk.inode[j]
        /\ call' = c /\ Saved' /\ \A s \in Slots : cache'[s].ino = cache[s].ino
    BY <1>0, <1>1, <1>3, <1>5, <1>7, SaveQuiet
  <1>10. SamePlace /\ call'.at = "data" /\ call'.z = z /\ call'.at \in Writing \ {"size"}
    BY <1>8, <1>9, WritingIs
  <1>11. Held' = m /\ Logical' = l
    BY <1>0, <1>4, <1>9, <1>10, SameAim
  <1>12. ZonaDi(disk, t, l) = 0 /\ disk.data[z] = Zeroes
    BY <1>0, <1>1, <1>2 DEF Zoned
  <1>13. \A n \in Nat : ZonaDi(disk', m, n) = IF n = l THEN z ELSE ZonaDi(disk, t, n)
    BY <1>6, <1>7, <1>9, Numbers DEF ZonaDi
  <1>14. Zoned'
    <2>1. ZonaDi(disk', Held', Logical') = z
      BY <1>4, <1>11, <1>13
    <2> QED
      BY <1>10, <2>1 DEF Zoned
  <1>15. Calm
    <2>1. \A p \in Nat : EntryAt(i, p)' = EntryAt(i, p)
      BY <1>1, <1>4, <1>9, <1>12, <1>13, HoleFilled
    <2>2. ASSUME NEW j \in Known, j # i PROVE \A p \in Nat : EntryAt(j, p)' = EntryAt(j, p)
      <3>1. j \in Inodes
        BY DEF Known
      <3>2. disk'.inode[j] = disk.inode[j]
        BY <1>9, <2>2, <3>1
      <3> QED
        BY <1>1, <1>9, <3>2, Undisturbed DEF Untouched, Steady
    <2> QED
      BY <1>4, <1>7, <1>9, <2>1, <2>2 DEF Calm
  <1>16. made' = made
    BY <1>2, <1>10 DEF Remember
  <1> QED
    BY <1>3, <1>9, <1>10, <1>14, <1>15, <1>16, Onward

LEMMA AssignIndirectBlockSound ==
  ASSUME ZInv, ZInv', Sound, faults = 0, faults' = 0, AssignIndirectBlock
  PROVE  Sound' /\ Calm
  <1>0. PICK i, t, l, x : i = Target.ino /\ t = Held /\ l = Logical /\ x = call.ind
    OBVIOUS
  <1> DEFINE m == [t EXCEPT !.ind = x]
             c == [call EXCEPT !.indirect = FALSE]
  <1>1. call \in Calls /\ MTypes /\ disk \in Disks /\ CallOK(call) /\ Zoned /\ Saved /\ Whole
    BY DEF ZInv, MTypes, CallOK, Sound
  <1>2. call.at = "assign" /\ call.indirect /\ Remember
    BY DEF AssignIndirectBlock
  <1>3. call.at \in Writing \ {"size"}
    BY <1>2, WritingIs
  <1>4. /\ call.slot \in Slots /\ i \in Known /\ i \in Inodes /\ l \in Nat /\ t \in Nodes
        /\ t = disk.inode[i] /\ Target.node = t
    BY <1>0, <1>1, <1>3, Aim DEF Held
  <1>5. Save(m, c, Break)
    BY <1>0, <1>4 DEF AssignIndirectBlock
  <1>6. x \in Zones /\ x \in 0 .. NZones /\ x # 0 /\ disk.ptr[x] = NoPtrs
    BY <1>0, <1>1, <1>2, Numbers DEF CallOK, Zones, ZInv, InFlight
  <1>7. /\ m \in Nodes /\ m.type = t.type /\ m.size = t.size /\ m.zone = t.zone /\ m.ind = x
    BY <1>4, <1>6, NodeUpdates
  <1>8. (SamePlace /\ c.at = "assign" /\ c.z = call.z /\ c.indirect = FALSE) \/ call' # c
    BY <1>1, <1>2 DEF Calls, SamePlace
  <1> HIDE DEF m, c
  <1>9. /\ disk'.imap = disk.imap /\ disk'.data = disk.data /\ disk'.ptr = disk.ptr
        /\ \A j \in Inodes : disk'.inode[j] = IF j = i THEN m ELSE disk.inode[j]
        /\ call' = c /\ Saved' /\ \A s \in Slots : cache'[s].ino = cache[s].ino
    BY <1>0, <1>1, <1>3, <1>5, <1>7, SaveQuiet
  <1>10. /\ SamePlace /\ call'.at = "assign" /\ call'.z = call.z /\ call'.indirect = FALSE
         /\ call'.at \in Writing \ {"size"}
    BY <1>8, <1>9, WritingIs
  <1>11. Held' = m /\ Logical' = l
    BY <1>0, <1>4, <1>9, <1>10, SameAim
  <1>12. ZonaDi(disk, t, l) = 0 /\ disk.data[call.z] = Zeroes /\ t.ind = 0
    BY <1>0, <1>1, <1>2 DEF Zoned
  <1>13. \A n \in Nat : ZonaDi(disk', m, n) = ZonaDi(disk, t, n)
    <2>1. \A k \in 0 .. PTR_PER_BLOCCO - 1 : disk'.ptr[x][k] = 0
      BY <1>6, <1>9 DEF NoPtrs
    <2> QED
      BY <1>7, <1>12, <2>1, Numbers DEF ZonaDi
  <1>14. Zoned'
    <2>1. ZonaDi(disk', Held', Logical') = 0
      BY <1>4, <1>11, <1>12, <1>13
    <2> QED
      BY <1>9, <1>10, <1>12, <2>1 DEF Zoned
  <1>15. Calm
    <2>1. \A p \in Nat : EntryAt(i, p)' = EntryAt(i, p)
      <3> SUFFICES ASSUME NEW p \in Nat PROVE EntryAt(i, p)' = EntryAt(i, p)
        OBVIOUS
      <3>1. EntryAt(i, p)' = ReadAt(disk', m, p) /\ EntryAt(i, p) = ReadAt(disk, t, p)
        BY <1>4, <1>9 DEF EntryAt
      <3>2. p \div PerBlock \in Nat
        BY DivMod
      <3> QED
        BY <1>9, <1>13, <3>1, <3>2, SameRead
    <2>2. ASSUME NEW j \in Known, j # i PROVE \A p \in Nat : EntryAt(j, p)' = EntryAt(j, p)
      <3>1. j \in Inodes
        BY DEF Known
      <3>2. disk'.inode[j] = disk.inode[j]
        BY <1>9, <2>2, <3>1
      <3> QED
        BY <1>1, <1>9, <3>2, Undisturbed DEF Untouched, Steady
    <2> QED
      BY <1>4, <1>7, <1>9, <2>1, <2>2 DEF Calm
  <1>16. made' = made
    BY <1>2, <1>10 DEF Remember
  <1> QED
    BY <1>3, <1>9, <1>10, <1>14, <1>15, <1>16, Onward

LEMMA AssignIndirectSound ==
  ASSUME ZInv, ZInv', Sound, faults = 0, faults' = 0, AssignIndirect
  PROVE  Sound' /\ Calm
  <1>0. PICK i, t, l, z, x, k :
          i = Target.ino /\ t = Held /\ l = Logical /\ z = call.z /\ x = Held.ind
          /\ k = Logical - ZONE_DIRETTE
    OBVIOUS
  <1> DEFINE c == [call EXCEPT !.at = "data"]
  <1>1. call \in Calls /\ MTypes /\ disk \in Disks /\ CallOK(call) /\ Zoned /\ Saved /\ Whole /\ Owned
    BY DEF ZInv, MTypes, CallOK, Sound
  <1>2. call.at = "assign" /\ InIndirect /\ Remember
    BY DEF AssignIndirect
  <1>3. call.at \in Writing \ {"size"}
    BY <1>2, WritingIs
  <1>4. /\ call.slot \in Slots /\ i \in Known /\ i \in Inodes /\ l \in Nat /\ t \in Nodes
        /\ t = disk.inode[i] /\ Target.node = t
    BY <1>0, <1>1, <1>3, Aim DEF Held
  <1>5. x # 0 /\ cache' = cache /\ disk' = [disk EXCEPT !.ptr[x][k] = z] /\ call' = c
    BY <1>0, <1>4 DEF AssignIndirect, Rewrite, Fault, Goes
  <1>6. z \in Zones /\ z \in 0 .. NZones /\ z # 0
        /\ k \in 0 .. PTR_PER_BLOCCO - 1 /\ l = ZONE_DIRETTE + k
    BY <1>0, <1>1, <1>2, Numbers DEF CallOK, Zones, InIndirect
  <1>7. x \in Zones /\ <<i, -1, x>> \in Refs
    BY <1>0, <1>1, <1>4, <1>5, HeldZones
  <1>8. /\ disk'.imap = disk.imap /\ disk'.inode = disk.inode /\ disk'.data = disk.data
        /\ \A y \in Zones : y # x => disk'.ptr[y] = disk.ptr[y]
        /\ \A n \in 0 .. PTR_PER_BLOCCO - 1 : disk'.ptr[x][n] = IF n = k THEN z ELSE disk.ptr[x][n]
    BY <1>1, <1>5, <1>6, <1>7, PtrUpdate
  <1>9. SamePlace /\ call'.at = "data" /\ call'.z = z /\ call'.at \in Writing \ {"size"}
    BY <1>0, <1>1, <1>5, WritingIs DEF Calls, SamePlace
  <1>10. Held' = t /\ Logical' = l
    BY <1>0, <1>4, <1>5, <1>8, <1>9, SameAim
  <1>11. ZonaDi(disk, t, l) = 0 /\ disk.data[z] = Zeroes
    BY <1>0, <1>1, <1>2 DEF Zoned
  <1>12. \A n \in Nat : ZonaDi(disk', t, n) = IF n = l THEN z ELSE ZonaDi(disk, t, n)
    <2> SUFFICES ASSUME NEW n \in Nat
                 PROVE  ZonaDi(disk', t, n) = IF n = l THEN z ELSE ZonaDi(disk, t, n)
      OBVIOUS
    <2>1. CASE n < ZONE_DIRETTE
      BY <1>6, <2>1, Numbers DEF ZonaDi
    <2>2. CASE ~(n < ZONE_DIRETTE) /\ n - ZONE_DIRETTE < PTR_PER_BLOCCO
      <3>1. n - ZONE_DIRETTE \in 0 .. PTR_PER_BLOCCO - 1 /\ (n - ZONE_DIRETTE = k <=> n = l)
        BY <1>6, <2>2, Numbers
      <3>2. t.ind = x
        BY <1>0
      <3> QED
        BY <1>5, <1>8, <2>2, <3>1, <3>2 DEF ZonaDi
    <2>3. CASE ~(n < ZONE_DIRETTE) /\ ~(n - ZONE_DIRETTE < PTR_PER_BLOCCO)
      <3>1. n # l
        BY <1>6, <2>3, Numbers
      <3> QED
        BY <2>3, <3>1 DEF ZonaDi
    <2> QED
      BY <2>1, <2>2, <2>3
  <1>13. Zoned'
    <2>1. ZonaDi(disk', Held', Logical') = z
      BY <1>4, <1>10, <1>12
    <2> QED
      BY <1>9, <2>1 DEF Zoned
  <1>14. Calm
    <2>1. \A p \in Nat : EntryAt(i, p)' = EntryAt(i, p)
      BY <1>1, <1>4, <1>8, <1>11, <1>12, HoleFilled
    <2>2. ASSUME NEW j \in Known, j # i PROVE \A p \in Nat : EntryAt(j, p)' = EntryAt(j, p)
      <3>1. \A n \in PlaceNos : <<j, n, x>> \notin Refs
        BY <1>1, <1>7, <2>2 DEF Owned
      <3> QED
        BY <1>1, <1>8, <3>1, Undisturbed DEF Untouched, Steady
    <2> QED
      BY <1>8, <2>1, <2>2 DEF Calm
  <1>15. made' = made
    BY <1>2, <1>9 DEF Remember
  <1>16. Saved'
    BY <1>1, <1>5, <1>8, SavedSame
  <1> QED
    BY <1>3, <1>5, <1>9, <1>13, <1>14, <1>15, <1>16, Onward

-----------------------------------------------------------------------------
(* The ends of a write.                                                      *)

LEMMA FileGoesOn ==
  ASSUME ZInv, Sound, call.at \in Writing, call.what = "file", Remember,
         Tells' = Tells, Live' = Live, Whole', Saved', Zoned',
         \A i \in Inodes : disk'.inode[i].type = disk.inode[i].type,
         \A s \in Slots : cache'[s].ino = cache[s].ino,
         \/ \E ok \in BOOLEAN : call' = Answer(ok)
         \/ call'.at \in Writing /\ call'.what = "file" /\ call'.slot = call.slot
  PROVE  Sound'
  <1>1. Told'
    BY DEF Remember, Sound, Told
  <1>2. Reached'
    BY AnswerOK DEF Sound, Reached
  <1>3. CASE \E ok \in BOOLEAN : call' = Answer(ok)
    BY <1>1, <1>2, <1>3, Rests DEF Sound
  <1>4. CASE call'.at \in Writing /\ call'.what = "file" /\ call'.slot = call.slot
    <2>1. Asked'
      BY <1>4, WritingIs DEF Asked
    <2>2. Held'.type = "file"
      <3>1. PICK i : i = Target.ino
        OBVIOUS
      <3>2. i \in Inodes /\ call.slot \in Slots /\ Held = disk.inode[i]
        BY <3>1, Aim DEF Sound, Held
      <3>3. Held' = disk'.inode[i]
        BY <1>4, <3>1, <3>2 DEF Held, Target
      <3> QED
        BY <3>2, <3>3 DEF Sound, Placed
    <2>3. Placed'
      BY <1>4, <2>2, WritingIs DEF Placed
    <2> QED
      BY <1>1, <1>2, <2>1, <2>3 DEF Sound
  <1> QED
    BY <1>3, <1>4

LEMMA ZonedRests ==
  ASSUME call'.at \notin {"zmap", "zero", "assign", "data"} PROVE Zoned'
  BY DEF Zoned

LEMMA Breaks ==
  ASSUME ZInv, ZInv', Sound, disk' = disk, cache' = cache, Remember, call' = Break,
         call.at \in Writing \ {"size"}
  PROVE  Sound' /\ Calm
  <1>1. call \in Calls /\ MTypes /\ CallOK(call)
    BY DEF ZInv, MTypes, CallOK
  <1>2. Calm /\ Saved' /\ Tells' = Tells /\ Live' = Live /\ Whole'
    <2>1. Calm /\ Saved'
      BY <1>1, CalmStill, SavedSame DEF Sound
    <2> QED
      BY <2>1, CalmTells DEF ZInv, Sound
  <1>3. call.what \in Entering \union {"file"}
    BY <1>1 DEF CallOK
  <1>4. CASE call.what = "file"
    <2>1. \/ \E ok \in BOOLEAN : call' = Answer(ok)
          \/ call' = [call EXCEPT !.at = "size", !.off = call.off]
      BY <1>4 DEF Break, Finished, Returned
    <2>2. \/ \E ok \in BOOLEAN : call' = Answer(ok)
          \/ call'.at = "size" /\ call'.what = "file" /\ call'.slot = call.slot
      BY <1>1, <1>4, <2>1 DEF Calls
    <2>3. Zoned'
      BY <2>2, AnswerOK, ZonedRests
    <2> QED
      BY <1>2, <1>4, <2>2, <2>3, FileGoesOn, WritingIs
  <1>5. CASE call.what = "entry"
    <2>1. call' = [call EXCEPT !.at = "undo"]
      BY <1>5, WritingIs DEF Break, Finished, Returned, Sound, Placed
    <2>2. /\ call'.at = "undo" /\ call'.what = "entry" /\ call'.dir = call.dir
          /\ call'.new = call.new /\ call'.name = call.name /\ call'.type = call.type
      BY <1>1, <1>5, <2>1 DEF Calls
    <2>3. Parent' = Parent /\ Child' = Child
      BY <2>2 DEF Parent, Child
    <2>4. Asked'
      BY <1>2, <1>5, <2>2, <2>3, WritingIs DEF Sound, Asked, Unsaid
    <2>5. Reached'
      BY <1>2, <1>5, <2>2 DEF Sound, Reached
    <2>6. Placed' /\ Zoned'
      BY <2>2, WritingIs DEF Placed, Zoned
    <2>7. Told'
      BY <1>2, <2>2 DEF Sound, Told, Remember
    <2> QED
      BY <1>2, <2>4, <2>5, <2>6, <2>7 DEF Sound
  <1>6. CASE call.what \in {"dot", "dotdot"}
    <2>1. call' = Answer(FALSE)
      BY <1>6, WritingIs DEF Break, Finished, Returned, Sound, Placed
    <2>2. Told'
      BY <1>2, <2>1, AnswerOK DEF Sound, Told, Remember
    <2>3. Reached'
      BY <1>2, <1>6 DEF Sound, Reached
    <2> QED
      BY <1>2, <2>1, <2>2, <2>3, Rests DEF Sound
  <1> QED
    BY <1>2, <1>3, <1>4, <1>5, <1>6, WritingIs

LEMMA EntryIs == \A i, n : Entry(i, n).ino = i /\ Entry(i, n).name = n
  BY DEF Entry

(* An entry is there: the call answers, or goes on to the next one.          *)
LEMMA Said ==
  ASSUME ZInv, ZInv', Sound, Remember, call.at \in {"data", "size"}, call.what \in Entering,
         NEW d, d = Target.ino, NEW off, NEW e, e = NewEntry,
         Tells' = Tells \union {<<d, off, e>>}, Live' = Live \union {e.ino},
         disk'.imap = disk.imap, Saved',
         \A i \in Inodes : disk'.inode[i].type = disk.inode[i].type,
         \A i \in Inodes : i # d => disk'.inode[i].size = disk.inode[i].size,
         \A s \in Slots : cache'[s].ino = cache[s].ino,
         call' = Returned(TRUE)
  PROVE  Sound'
  <1>1. /\ call \in Calls /\ MTypes /\ MTypes' /\ CallOK(call) /\ Whole /\ Asked /\ Saved /\ Reached
        /\ call.at \in Writing
    BY WritingIs DEF ZInv, MTypes, CallOK, Sound
  <1>2. /\ call.dir \in Slots /\ call.new \in Slots /\ Parent # 0 /\ Child # 0
        /\ Parent \in Inodes /\ Child \in Inodes /\ Parent \in disk.imap /\ Child \in disk.imap
    <2>1. call.dir \in Slots /\ call.new \in Slots
      BY <1>1 DEF CallOK
    <2>2. Parent # 0 /\ Child # 0
      BY <1>1 DEF ZInv, SlotsOK, Parent, Child
    <2>3. Parent \in disk.imap /\ Child \in disk.imap
      BY <1>1, <2>1, <2>2 DEF Saved, Parent, Child
    <2> QED
      BY <1>1, <2>1, <2>2, <2>3 DEF MTypes, Disks
  <1>3. call.slot = Where
    BY <1>1 DEF Sound, Placed
  <1>4. Directories' = Directories
    BY <1>1 DEF Directories, MTypes, Disks
  <1>5. <<d, off, e>>[1] = d /\ <<d, off, e>>[3] = e /\ <<d, off, e>> \in Tells'
    OBVIOUS
  <1>6. /\ disk.inode[Parent].type = "dir" /\ call.type \in {"file", "dir"}
    BY <1>1 DEF Asked
  <1>7. CASE call.what = "entry"
    <2>1. d = Parent /\ e = Entry(Child, call.name) /\ e.ino = Child /\ e.name = call.name
      BY <1>3, <1>7, EntryIs DEF Where, Target, NewEntry, Parent, Child
    <2>2. /\ Unsaid(Parent, call.name) /\ Child \notin Live /\ Child # Parent
          /\ disk.inode[Child].size = 0 /\ disk.inode[Child].type = call.type
      BY <1>1, <1>7 DEF Asked
    <2>3. Parent \in Live'
      BY <1>1, <1>2, <2>2 DEF Reached, Parent, Child
    <2>4. Whole'
      BY <1>1, <1>2, <1>4, <1>6, <2>1, <2>2, <2>3, WholeMore
    <2>5. \A s \in Slots : cache'[s].ino # 0 => cache'[s].ino \in Live'
      BY <1>1, <2>1 DEF Reached, Child
    <2>6. Reached'
      BY <2>5 DEF Reached
    <2>7. CASE call.type = "file"
      <3>1. call' = Answer(TRUE)
        BY <1>7, <2>7 DEF Returned
      <3>2. Told'
        <4>1. made' \subseteq made \union {<<Parent, e>>}
          BY <2>1 DEF Remember, Parent, Child
        <4>2. ASSUME NEW m \in made' PROVE \E t \in Tells' : t[1] = m[1] /\ t[3] = m[2]
          <5>1. CASE m \in made
            BY <5>1 DEF Sound, Told
          <5>2. CASE m = <<Parent, e>>
            <6>1. m[1] = Parent /\ m[2] = e
              BY <5>2
            <6> QED
              BY <1>5, <2>1, <6>1
          <5> QED
            BY <4>1, <5>1, <5>2
        <4> QED
          BY <4>2 DEF Told
      <3> QED
        BY <2>4, <2>6, <3>1, <3>2, Rests DEF Sound
    <2>8. CASE call.type = "dir"
      <3>1. call' = [call EXCEPT !.at = "insert", !.what = "dot"]
        BY <1>7, <2>8 DEF Returned
      <3>2. /\ call'.at = "insert" /\ call'.what = "dot" /\ call'.dir = call.dir
            /\ call'.new = call.new /\ call'.name = call.name /\ call'.type = call.type
        BY <1>1, <3>1 DEF Calls
      <3>3. Told'
        BY <3>2 DEF Remember, Sound, Told
      <3>4. Parent' = Parent /\ Child' = Child
        BY <1>2, <3>2 DEF Parent, Child
      <3>5. disk'.inode[Child].size = 0 /\ disk'.inode[Child].type = "dir"
        BY <1>2, <2>1, <2>2, <2>8
      <3>6. disk'.inode[Parent].type = "dir"
        BY <1>2, <1>6
      <3>7. Asked'
        BY <1>5, <2>1, <2>8, <3>2, <3>4, <3>5, <3>6 DEF Asked
      <3>8. Placed' /\ Zoned'
        BY <3>2, WritingIs DEF Placed, Zoned
      <3> QED
        BY <2>4, <2>6, <3>3, <3>7, <3>8 DEF Sound
    <2> QED
      BY <1>6, <2>7, <2>8
  <1>8. CASE call.what = "dot"
    <2>1. d = Child /\ e = Entry(Child, ".") /\ e.ino = Child /\ e.name = "." /\ "." \in Dots
      BY <1>3, <1>8, EntryIs DEF Where, Target, NewEntry, Child, Dots
    <2>2. disk.inode[Child].size = 0 /\ disk.inode[Child].type = "dir"
      BY <1>1, <1>8 DEF Asked
    <2>3. PICK t \in Tells : t[1] = Parent /\ t[3] = Entry(Child, call.name)
      BY <1>1, <1>8 DEF Asked
    <2>4. \A u \in Tells : u[1] # Child
      BY <1>1, <2>2, TellsFacts DEF TellsOK
    <2>5. Whole'
      BY <1>1, <1>2, <1>4, <2>1, <2>2, <2>4, WholeMore DEF Unsaid
    <2>6. Reached'
      BY <1>1, <1>8 DEF Reached
    <2>7. call' = [call EXCEPT !.at = "insert", !.what = "dotdot"]
      BY <1>8 DEF Returned
    <2>8. /\ call'.at = "insert" /\ call'.what = "dotdot" /\ call'.dir = call.dir
          /\ call'.new = call.new /\ call'.name = call.name /\ call'.type = call.type
      BY <1>1, <2>7 DEF Calls
    <2>9. Told'
      BY <2>8 DEF Remember, Sound, Told
    <2>10. Parent' = Parent /\ Child' = Child
      BY <1>2, <2>8 DEF Parent, Child
    <2>11. disk'.inode[Child].type = "dir" /\ disk'.inode[Parent].type = "dir"
      BY <1>2, <1>6, <2>2
    <2>12. \A u \in Tells' : u[1] = Child => u[3].name = "."
      BY <1>5, <2>1, <2>4
    <2>13. Asked'
      BY <1>6, <2>3, <2>8, <2>10, <2>11, <2>12 DEF Asked
    <2>14. Placed' /\ Zoned'
      BY <2>8, WritingIs DEF Placed, Zoned
    <2> QED
      BY <2>5, <2>6, <2>9, <2>13, <2>14 DEF Sound
  <1>9. CASE call.what = "dotdot"
    <2>1. d = Child /\ e = Entry(Parent, "..") /\ e.ino = Parent /\ e.name = ".." /\ ".." \in Dots
      BY <1>3, <1>9, EntryIs DEF Where, Target, NewEntry, Child, Parent, Dots
    <2>2. disk.inode[Child].type = "dir" /\ \A u \in Tells : u[1] = Child => u[3].name = "."
      BY <1>1, <1>9 DEF Asked
    <2>3. PICK t \in Tells : t[1] = Parent /\ t[3] = Entry(Child, call.name)
      BY <1>1, <1>9 DEF Asked
    <2>4. Child \in Live
      BY <1>1, <2>3, EntryIs, TellsFacts DEF TellsOK
    <2>5. Unsaid(Child, "..")
      BY <2>2 DEF Unsaid
    <2>6. Whole'
      BY <1>1, <1>2, <1>4, <1>6, <2>1, <2>4, <2>5, WholeMore
    <2>7. Reached'
      BY <1>1, <1>9 DEF Reached
    <2>8. call' = [call EXCEPT !.at = "links"]
      BY <1>9 DEF Returned
    <2>9. /\ call'.at = "links" /\ call'.what = "dotdot" /\ call'.dir = call.dir
          /\ call'.new = call.new /\ call'.name = call.name /\ call'.type = call.type
      BY <1>1, <1>9, <2>8 DEF Calls
    <2>10. Told'
      BY <2>9 DEF Remember, Sound, Told
    <2>11. Parent' = Parent /\ Child' = Child
      BY <1>2, <2>9 DEF Parent, Child
    <2>12. disk'.inode[Child].type = "dir" /\ disk'.inode[Parent].type = "dir"
      BY <1>2, <1>6, <2>2
    <2>13. Asked'
      BY <1>6, <2>3, <2>9, <2>11, <2>12 DEF Asked
    <2>14. Placed' /\ Zoned'
      BY <2>9, WritingIs DEF Placed, Zoned
    <2> QED
      BY <2>6, <2>7, <2>10, <2>13, <2>14 DEF Sound
  <1> QED
    BY <1>7, <1>8, <1>9, WritingIs

-----------------------------------------------------------------------------
(* One block written, and the size.                                          *)

LEMMA DivIs ==
  ASSUME NEW q \in Nat, NEW r \in 0 .. PerBlock - 1, NEW a \in Nat, a = PerBlock * q + r
  PROVE  a \div PerBlock = q /\ a % PerBlock = r
  <1>1. PICK b, x, y : b = PerBlock /\ x = a \div PerBlock /\ y = a % PerBlock
    OBVIOUS
  <1>2. b \in Nat /\ b > 0 /\ x \in Nat /\ y \in 0 .. b - 1 /\ a = b * x + y
        /\ r \in 0 .. b - 1 /\ a = b * q + r
    BY <1>1, DivMod, Numbers
  <1>3. ~(x < q)
    <2> SUFFICES ASSUME x < q PROVE FALSE
      OBVIOUS
    <2>1. q = x + (q - x) /\ q - x >= 1 /\ q - x \in Nat
      BY <1>2
    <2>2. PICK k \in Nat : k = q - x
      BY <2>1
    <2>3. b * q = b * x + b * k
      BY <1>2, <2>1, <2>2, SMTT(30)
    <2>4. b * k >= b
      BY <1>2, <2>1, <2>2, SMTT(30)
    <2>5. PICK u, v, w \in Nat : u = b * q /\ v = b * x /\ w = b * k
      BY <1>2
    <2> QED
      BY <1>2, <2>3, <2>4, <2>5
  <1>4. ~(q < x)
    <2> SUFFICES ASSUME q < x PROVE FALSE
      OBVIOUS
    <2>1. x = q + (x - q) /\ x - q >= 1 /\ x - q \in Nat
      BY <1>2
    <2>2. PICK k \in Nat : k = x - q
      BY <2>1
    <2>3. b * x = b * q + b * k
      BY <1>2, <2>1, <2>2, SMTT(30)
    <2>4. b * k >= b
      BY <1>2, <2>1, <2>2, SMTT(30)
    <2>5. PICK u, v, w \in Nat : u = b * q /\ v = b * x /\ w = b * k
      BY <1>2
    <2> QED
      BY <1>2, <2>3, <2>4, <2>5
  <1>5. x = q
    BY <1>2, <1>3, <1>4
  <1>6. PICK u \in Nat : u = b * q
    BY <1>2
  <1>7. y = r
    BY <1>2, <1>5, <1>6
  <1> QED
    BY <1>1, <1>5, <1>7

(* The places of a span are those of its block it covers.                    *)
LEMMA SpanPlaces ==
  ASSUME NEW o \in Nat, NEW n \in Nat, n <= PerBlock - (o % PerBlock), NEW p \in Nat
  PROVE  p \in o .. o + n - 1 <=>
           /\ p \div PerBlock = o \div PerBlock
           /\ p % PerBlock \in (o % PerBlock) .. (o % PerBlock) + n - 1
  <1>1. PICK b, q, f, x, y : /\ b = PerBlock /\ q = o \div PerBlock /\ f = o % PerBlock
                             /\ x = p \div PerBlock /\ y = p % PerBlock
    OBVIOUS
  <1>2. /\ b \in Nat /\ q \in Nat /\ f \in 0 .. b - 1 /\ x \in Nat /\ y \in 0 .. b - 1
        /\ o = b * q + f /\ p = b * x + y
    BY <1>1, DivMod, Numbers
  <1>3. PICK u, v \in Nat : u = b * q /\ v = b * x
    BY <1>2
  <1>4. ASSUME p \in o .. o + n - 1 PROVE x = q /\ y \in f .. f + n - 1
    <2>1. p - u \in 0 .. b - 1 /\ p = u + (p - u)
      BY <1>1, <1>2, <1>3, <1>4
    <2>2. PICK r \in 0 .. b - 1 : r = p - u
      BY <2>1
    <2>3. p = b * q + r
      BY <1>3, <2>1, <2>2
    <2>4. x = q /\ y = r
      BY <1>1, <1>2, <2>3, DivIs
    <2> QED
      BY <1>2, <1>3, <1>4, <2>2, <2>4
  <1>5. ASSUME x = q, y \in f .. f + n - 1 PROVE p \in o .. o + n - 1
    BY <1>2, <1>3, <1>5
  <1> QED
    BY <1>1, <1>4, <1>5

LEMMA WriteReads ==
  ASSUME ZInv, Sound, call.at = "data", NEW t, t = Target.ino,
         disk' = [disk EXCEPT !.data[call.z] = Written(@)]
  PROVE  /\ disk'.imap = disk.imap /\ disk'.inode = disk.inode
         /\ \A i \in Known : \A p \in Nat :
              EntryAt(i, p)' = IF i = t /\ p \in call.off .. call.off + Span - 1
                                 THEN NewEntry ELSE EntryAt(i, p)
  <1>0. PICK z, e, f, n : z = call.z /\ e = NewEntry /\ f = call.off % PerBlock /\ n = Span
    OBVIOUS
  <1>1. /\ MTypes /\ CallOK(call) /\ disk \in Disks /\ Owned /\ Zoned /\ call.at \in Writing
        /\ z \in Zones /\ z # 0
    BY <1>0, WritingIs, Numbers DEF ZInv, MTypes, CallOK, Sound, Zones
  <1>2. e \in Entries
    BY <1>0, <1>1, NewEntryType
  <1>3. \A p \in 0 .. PerBlock - 1 :
          Written(disk.data[z])[p] = IF p \in f .. f + n - 1 THEN e ELSE disk.data[z][p]
    BY <1>0, <1>1 DEF Written, Disks
  <1>4. Written(disk.data[z]) \in [0 .. PerBlock - 1 -> Entries]
    <2>1. PICK b : b = disk.data[z]
      OBVIOUS
    <2>2. b \in [0 .. PerBlock - 1 -> Entries]
      BY <1>1, <2>1 DEF Disks
    <2>3. Written(b) = [p \in 0 .. PerBlock - 1 |-> IF p \in f .. f + n - 1 THEN e ELSE b[p]]
      BY <1>0, <2>2 DEF Written
    <2> QED
      BY <1>2, <2>1, <2>2, <2>3
  <1>5. /\ disk'.imap = disk.imap /\ disk'.inode = disk.inode /\ disk'.ptr = disk.ptr
        /\ \A y \in Zones : y # z => disk'.data[y] = disk.data[y]
        /\ disk'.data[z] = Written(disk.data[z])
    <2>1. PICK w \in [0 .. PerBlock - 1 -> Entries] : w = Written(disk.data[z])
      BY <1>4
    <2>2. disk' = [disk EXCEPT !.data[z] = w]
      BY <1>0, <2>1
    <2>3. LET d == [disk EXCEPT !.data[z] = w]
          IN  /\ d.imap = disk.imap /\ d.inode = disk.inode /\ d.ptr = disk.ptr
              /\ \A y \in Zones : d.data[y] = IF y = z THEN w ELSE disk.data[y]
      BY <1>1, DataUpdate
    <2> QED
      BY <1>1, <2>1, <2>2, <2>3
  <1>6. /\ t \in Known /\ t \in Inodes /\ Logical \in Nat /\ Held = disk.inode[t]
        /\ call.off \in Nat
    BY <1>1, Aim DEF Held, Sound
  <1>7. ZonaDi(disk, disk.inode[t], Logical) = z
    BY <1>0, <1>1, <1>6 DEF Zoned
  <1>8. <<t, Logical, z>> \in Refs
    BY <1>1, <1>6, <1>7, HeldZones
  <1>9. n \in Nat /\ n <= PerBlock - f
    <2>1. n \in Nat
      BY <1>0, <1>1, SpanType
    <2>2. f \in 0 .. PerBlock - 1 /\ call.n - call.done \in Int
      BY <1>0, <1>1, <1>6, DivMod DEF CallOK, Calls
    <2> QED
      BY <1>0, <2>1, <2>2, Numbers DEF Span
  <1>10. ASSUME NEW i \in Known, i # t, NEW p \in Nat PROVE EntryAt(i, p)' = EntryAt(i, p)
    <2>1. \A k \in PlaceNos : <<i, k, z>> \notin Refs
      BY <1>1, <1>8, <1>10 DEF Owned
    <2> QED
      BY <1>1, <1>5, <2>1, Undisturbed DEF Untouched, Steady
  <1>11. ASSUME NEW p \in Nat
         PROVE  EntryAt(t, p)' = IF p \in call.off .. call.off + n - 1
                                   THEN e ELSE EntryAt(t, p)
    <2>1. PICK m, q, r : m = disk.inode[t] /\ q = p \div PerBlock /\ r = p % PerBlock
      OBVIOUS
    <2>2. EntryAt(t, p) = ReadAt(disk, m, p) /\ EntryAt(t, p)' = ReadAt(disk', m, p)
      BY <1>5, <2>1 DEF EntryAt
    <2>3. q \in Nat /\ r \in 0 .. PerBlock - 1
      BY <2>1, DivMod
    <2>4. \A k \in Nat : ZonaDi(disk', m, k) = ZonaDi(disk, m, k)
      BY <1>5, SameZone
    <2>5. p \in call.off .. call.off + n - 1 <=> q = Logical /\ r \in f .. f + n - 1
      BY <1>0, <1>6, <1>9, <2>1, SpanPlaces DEF Logical
    <2>6. CASE q = Logical
      <3>1. ReadAt(disk, m, p) = disk.data[z][r]
        BY <1>1, <1>7, <2>1, <2>6 DEF ReadAt
      <3>2. ReadAt(disk', m, p) = Written(disk.data[z])[r]
        BY <1>1, <1>5, <1>6, <1>7, <2>1, <2>4, <2>6 DEF ReadAt
      <3> QED
        BY <1>3, <2>2, <2>3, <2>5, <2>6, <3>1, <3>2
    <2>7. CASE q # Logical
      <3>1. PICK x : x = ZonaDi(disk, m, q)
        OBVIOUS
      <3>2. x # 0 => x \in Zones /\ <<t, q, x>> \in Refs
        BY <1>1, <1>6, <2>1, <2>3, <3>1, HeldZones
      <3>3. x # 0 => x # z
        BY <1>1, <1>8, <2>7, <3>2 DEF Owned
      <3>4. ReadAt(disk', m, p) = ReadAt(disk, m, p)
        BY <1>5, <2>1, <2>3, <2>4, <3>1, <3>2, <3>3, SameRead
      <3> QED
        BY <2>2, <2>5, <2>7, <3>4
    <2> QED
      BY <2>6, <2>7
  <1> QED
    BY <1>0, <1>5, <1>10, <1>11

LEMMA EntryTarget ==
  ASSUME ZInv, Sound, call.at \in Writing, call.what \in Entering
  PROVE  /\ Target.ino \in Directories /\ NewEntry.ino # 0 /\ call.n = 1 /\ call.done = 0
         /\ call.dir \in Slots /\ call.new \in Slots
  <1>1. /\ MTypes /\ CallOK(call) /\ Asked /\ Placed /\ Saved
    BY DEF ZInv, MTypes, Sound
  <1>2. call.dir \in Slots /\ call.new \in Slots /\ Parent # 0 /\ Child # 0
    <2>1. call.dir \in Slots /\ call.new \in Slots
      BY <1>1 DEF CallOK
    <2>2. Parent # 0 /\ Child # 0
      BY <1>1 DEF ZInv, SlotsOK, Parent, Child
    <2> QED
      BY <2>1, <2>2
  <1>3. call.slot = Where /\ call.n = 1 /\ call.done = 0
    BY <1>1 DEF Placed
  <1>4. Target.ino \in disk.imap
    BY <1>1, Aim
  <1>5. CASE call.what = "entry"
    <2>1. Target.ino = Parent /\ NewEntry.ino = Child
      BY <1>3, <1>5, EntryIs DEF Target, Where, Parent, Child, NewEntry
    <2> QED
      BY <1>1, <1>2, <1>3, <1>4, <1>5, <2>1 DEF Asked, Directories
  <1>6. CASE call.what \in {"dot", "dotdot"}
    <2>1. Target.ino = Child /\ NewEntry.ino \in {Parent, Child}
      BY <1>3, <1>6, EntryIs DEF Target, Where, Parent, Child, NewEntry
    <2> QED
      BY <1>1, <1>2, <1>3, <1>4, <1>6, <2>1 DEF Asked, Directories
  <1> QED
    BY <1>5, <1>6, WritingIs

(* A write of an entry goes on to the size of the directory, or ends with one *)
(* entry more in it.                                                         *)
EntryTold(off) ==
  /\ call.what \in Entering /\ call' = Returned(TRUE)
  /\ Tells' = Tells \union {<<Target.ino, off, NewEntry>>}
  /\ \A t \in Tells : ~(t[1] = Target.ino /\ t[2] = off)
  /\ Live' = Live \union {NewEntry.ino}
FileWritten ==
  /\ call.what = "file" /\ Tells' = Tells /\ Live' = Live
  /\ \/ \E ok \in BOOLEAN : call' = Answer(ok)
     \/ call'.at \in {"block", "size"} /\ call'.what = "file" /\ call'.slot = call.slot
SizeNext ==
  /\ call.what \in Entering /\ call.at = "data" /\ call'.at = "size"
  /\ call'.what = call.what /\ call'.dir = call.dir /\ call'.new = call.new
  /\ call'.name = call.name /\ call'.type = call.type /\ call'.slot = call.slot
  /\ call'.off = Held.size + 1 /\ Tells' = Tells /\ Live' = Live
Grows == FileWritten \/ SizeNext \/ \E off : EntryTold(off)

LEMMA WriteBlockSound ==
  ASSUME ZInv, ZInv', Sound, faults = 0, faults' = 0, WriteBlock
  PROVE  Sound' /\ Grows
  <1>0. PICK t, e, p, n : t = Target.ino /\ e = NewEntry /\ p = call.off /\ n = Span
    OBVIOUS
  <1> DEFINE c == [call EXCEPT !.at = "block", !.off = p + n, !.done = @ + n, !.z = 0]
  <1>1. /\ call \in Calls /\ MTypes /\ MTypes' /\ CallOK(call) /\ disk \in Disks
        /\ Whole /\ Saved /\ Placed /\ Told /\ call.at = "data" /\ call.at \in Writing /\ Remember
    BY WritingIs DEF ZInv, MTypes, CallOK, Sound, WriteBlock
  <1>2. /\ disk' = [disk EXCEPT !.data[call.z] = Written(@)] /\ cache' = cache
        /\ call' = IF call.done + n < call.n THEN c ELSE Finished(p + n, call.done + n)
    BY <1>0 DEF WriteBlock, Rewrite, Fault, Goes
  <1>3. /\ disk'.imap = disk.imap /\ disk'.inode = disk.inode
        /\ \A i \in Known : \A x \in Nat :
             EntryAt(i, x)' = IF i = t /\ x \in p .. p + n - 1 THEN e ELSE EntryAt(i, x)
    BY <1>0, <1>1, <1>2, WriteReads
  <1>4. /\ t \in Known /\ t \in Inodes /\ Held = disk.inode[t] /\ Target.node = Held /\ p \in Nat
        /\ n \in Nat /\ call.slot \in Slots /\ Held.size \in Nat
    <2>1. t \in Known /\ t \in Inodes /\ Target.node = Held /\ p \in Nat /\ call.slot \in Slots
          /\ Held \in Nodes
      BY <1>0, <1>1, Aim
    <2> QED
      BY <1>0, <1>1, <2>1, SpanType, Numbers DEF Held, Nodes
  <1>5. Saved'
    BY <1>1, <1>2, <1>3, SavedSame
  <1>6. \A i \in Inodes : Filled(i)' <=> Filled(i)
    BY <1>3 DEF Filled, Directories
  <1>7. ASSUME Tells' = Tells, Live' = Live PROVE Whole'
    <2>1. \A i \in Live : i \in disk'.imap
      BY <1>1, <1>3, LiveTaken
    <2> QED
      BY <1>1, <1>3, <1>7, <2>1, WholeSame DEF Whole
  <1>8. call.what \in Entering \union {"file"}
    BY <1>1 DEF CallOK
  <1>9. CASE call.what = "file"
    <2>1. disk.inode[t].type = "file"
      BY <1>1, <1>4, <1>9 DEF Placed
    <2>2. Tells' = Tells /\ Live' = Live
      <3>1. \A i \in Known : Filled(i) => i # t
        BY <2>1 DEF Filled, Directories
      <3> QED
        BY <1>1, <1>3, <1>6, <3>1, TellsSame
    <2>3. \/ \E ok \in BOOLEAN : call' = Answer(ok)
          \/ call' = c
          \/ call' = [call EXCEPT !.at = "size", !.off = p + n]
      BY <1>2, <1>9 DEF Finished, Returned
    <2>4. \/ \E ok \in BOOLEAN : call' = Answer(ok)
          \/ call'.at \in {"block", "size"} /\ call'.what = "file" /\ call'.slot = call.slot
      BY <1>1, <1>9, <2>3 DEF Calls
    <2>5. Zoned'
      BY <2>4, AnswerOK, ZonedRests
    <2>6. FileWritten
      BY <1>9, <2>2, <2>4 DEF FileWritten
    <2> QED
      BY <1>1, <1>2, <1>3, <1>5, <1>7, <1>9, <2>2, <2>4, <2>5, <2>6, FileGoesOn, WritingIs DEF Grows
  <1>10. CASE call.what \in Entering
    <2>1. t \in Directories /\ e.ino # 0 /\ call.n = 1 /\ call.done = 0
          /\ call.dir \in Slots /\ call.new \in Slots
      BY <1>0, <1>1, <1>10, EntryTarget
    <2>2. n = 1
      <3>1. call.off % PerBlock \in 0 .. PerBlock - 1
        BY <1>0, <1>4, DivMod
      <3> QED
        BY <1>0, <2>1, <3>1, Numbers DEF Span
    <2>3. p <= Held.size /\ (p < Held.size => EntryAt(t, p).ino = 0)
      BY <1>0, <1>1, <1>10 DEF Placed
    <2>4. /\ call' = IF p + 1 > Held.size THEN [call EXCEPT !.at = "size", !.off = p + 1]
                                          ELSE Returned(TRUE)
      BY <1>2, <1>4, <2>1, <2>2 DEF Finished
    <2>5. \A i \in Known : \A x \in Nat :
             EntryAt(i, x)' = IF i = t /\ x = p THEN e ELSE EntryAt(i, x)
      BY <1>3, <1>4, <2>2
    <2>6. CASE p < Held.size
      <3>0. ~(p + 1 > Held.size)
        BY <1>4, <2>6
      <3>1. call' = Returned(TRUE)
        BY <2>4, <3>0
      <3>2. /\ Tells' = Tells \union {<<t, p, e>>} /\ Live' = Live \union {e.ino}
            /\ \A u \in Tells : ~(u[1] = t /\ u[2] = p)
        BY <1>1, <1>3, <1>4, <2>1, <2>3, <2>5, <2>6, TellsMore DEF Directories
      <3>3. EntryTold(p)
        BY <1>0, <1>10, <3>1, <3>2 DEF EntryTold
      <3> QED
        BY <1>0, <1>1, <1>2, <1>3, <1>5, <1>10, <3>1, <3>2, <3>3, Said DEF Grows
    <2>7. CASE p = Held.size
      <3>0. p + 1 > Held.size
        BY <1>4, <2>7
      <3>1. call' = [call EXCEPT !.at = "size", !.off = p + 1]
        BY <2>4, <3>0
      <3>2. /\ call'.at = "size" /\ call'.off = p + 1 /\ call'.what = call.what
            /\ call'.dir = call.dir /\ call'.new = call.new /\ call'.name = call.name
            /\ call'.type = call.type /\ call'.slot = call.slot /\ call'.n = call.n
            /\ call'.done = call.done
        BY <1>1, <3>1 DEF Calls
      <3>3. Tells' = Tells /\ Live' = Live
        <4>1. \A i \in Known : Filled(i) => \A x \in Nat :
                x < disk.inode[i].size => EntryAt(i, x)' = EntryAt(i, x)
          BY <1>4, <2>5, <2>7
        <4> QED
          BY <1>1, <1>3, <1>6, <4>1, TellsSame
      <3>4. Asked' /\ Reached'
        BY <1>1, <1>2, <1>3, <3>2, <3>3, AskedStays, WritingIs
      <3>5. Told'
        BY <1>1, <3>2, <3>3 DEF Told, Remember
      <3>6. Placed'
        <4>1. Held' = disk.inode[t] /\ Target'.ino = t
          BY <1>0, <1>2, <1>3, <3>2 DEF Held, Target
        <4>2. Where' = Where /\ call.slot = Where
          BY <1>1, <1>10, <3>2 DEF Where, Placed
        <4>3. NewEntry' = e
          BY <1>0, <1>2, <3>2 DEF NewEntry
        <4>4. EntryAt(t, p)' = e
          BY <1>4, <2>5
        <4>5. (EntryAt(Target.ino, Held.size))' = e
          <5>1. (EntryAt(Target.ino, Held.size))' = ReadAt(disk', disk'.inode[t], p)
            BY <1>4, <2>7, <4>1 DEF EntryAt
          <5>2. EntryAt(t, p)' = ReadAt(disk', disk'.inode[t], p)
            BY DEF EntryAt
          <5> QED
            BY <4>4, <5>1, <5>2
        <4>6. call'.off = Held'.size + 1 /\ call'.what # "file" /\ call'.n = 1 /\ call'.done = 0
              /\ call'.slot = Where'
          BY <1>4, <1>10, <2>1, <2>7, <3>2, <4>1, <4>2, WritingIs
        <4> QED
          BY <3>2, <4>3, <4>5, <4>6 DEF Placed
      <3>7. Zoned'
        BY <3>2, ZonedRests
      <3>8. SizeNext
        BY <1>1, <1>10, <2>7, <3>2, <3>3 DEF SizeNext
      <3> QED
        BY <1>5, <1>7, <3>3, <3>4, <3>5, <3>6, <3>7, <3>8 DEF Sound, Grows
    <2> QED
      BY <1>4, <2>3, <2>6, <2>7
  <1> QED
    BY <1>8, <1>9, <1>10

LEMMA GrowSound ==
  ASSUME ZInv, ZInv', Sound, faults = 0, faults' = 0, Grow
  PROVE  /\ Sound' /\ Grows
         /\ \A i \in Known : \A x \in Nat : EntryAt(i, x)' = EntryAt(i, x)
  <1>0. PICK t, e, p, m : t = Target.ino /\ e = NewEntry /\ p = call.off
                          /\ m = [Target.node EXCEPT !.size = call.off]
    OBVIOUS
  <1>1. /\ call \in Calls /\ MTypes /\ MTypes' /\ CallOK(call) /\ disk \in Disks
        /\ Whole /\ Saved /\ Placed /\ Told /\ call.at = "size" /\ call.at \in Writing /\ Remember
    BY WritingIs DEF ZInv, MTypes, CallOK, Sound, Grow
  <1>2. /\ t \in Known /\ t \in Inodes /\ Held = disk.inode[t] /\ Target.node = Held /\ p \in Nat
        /\ call.slot \in Slots /\ Held.size \in Nat /\ Held \in Nodes
    <2>1. t \in Known /\ t \in Inodes /\ Target.node = Held /\ p \in Nat /\ call.slot \in Slots
          /\ Held \in Nodes
      BY <1>0, <1>1, Aim
    <2> QED
      BY <1>0, <2>1, Numbers DEF Held, Nodes
  <1>3. /\ m \in Nodes /\ m.size = p /\ m.type = Held.type /\ m.zone = Held.zone /\ m.ind = Held.ind
    <2>1. p \in 0 .. MaxSize
      BY <1>0, <1>1, <1>2, Numbers DEF CallOK
    <2>2. PICK h : h = Target.node
      OBVIOUS
    <2>3. h \in Nodes /\ m = [h EXCEPT !.size = p] /\ h = Held
      BY <1>0, <1>2, <2>2
    <2> QED
      BY <2>1, <2>3, NodeUpdates
  <1>4. /\ disk'.imap = disk.imap /\ disk'.data = disk.data /\ disk'.ptr = disk.ptr
        /\ \A i \in Inodes : disk'.inode[i] = IF i = t THEN m ELSE disk.inode[i]
        /\ call' = Returned(TRUE) /\ Saved' /\ \A s \in Slots : cache'[s].ino = cache[s].ino
    <2>1. Save(m, Returned(TRUE), Returned(FALSE))
      BY <1>0 DEF Grow
    <2> HIDE DEF Returned
    <2> QED
      BY <1>0, <1>1, <1>3, <2>1, SaveQuiet
  <1>5. /\ \A i \in Inodes : disk'.inode[i].type = disk.inode[i].type
        /\ \A i \in Inodes : i # t => disk'.inode[i].size = disk.inode[i].size
        /\ disk'.inode[t].size = p
    BY <1>2, <1>3, <1>4
  <1>6. \A i \in Known : \A x \in Nat : EntryAt(i, x)' = EntryAt(i, x)
    <2>1. ASSUME NEW i \in Known PROVE Steady(i)
      <3>1. i \in Inodes
        BY DEF Known
      <3>2. disk'.inode[i].zone = disk.inode[i].zone /\ disk'.inode[i].ind = disk.inode[i].ind
        BY <1>2, <1>3, <1>4, <3>1
      <3> QED
        BY <1>1, <1>4, <3>2, Undisturbed DEF Untouched
    <2> QED
      BY <2>1 DEF Steady
  <1>7. call.what \in Entering \union {"file"}
    BY <1>1 DEF CallOK
  <1>8. CASE call.what = "file"
    <2>1. disk.inode[t].type = "file"
      BY <1>1, <1>2, <1>8 DEF Placed
    <2>2. Tells' = Tells /\ Live' = Live
      <3>1. \A i \in Inodes : Filled(i)' <=> Filled(i)
        BY <1>4, <1>5, <2>1 DEF Filled, Directories
      <3>2. \A i \in Inodes : Filled(i) => disk'.inode[i].size = disk.inode[i].size
        BY <1>5, <2>1 DEF Filled, Directories
      <3> QED
        BY <1>1, <1>6, <3>1, <3>2, TellsSame
    <2>3. Whole'
      <3>1. \A i \in Live : i \in disk'.imap /\ i \in Inodes
        BY <1>1, <1>4, LiveTaken
      <3>2. \A i \in Inodes : disk'.inode[i].type = "dir" /\ disk'.inode[i].size > 0 => i \in Live
        BY <1>1, <1>5, <2>1 DEF Whole
      <3> QED
        BY <1>1, <1>5, <2>2, <3>1, <3>2, WholeSame
    <2>4. call' = Answer(TRUE)
      BY <1>4, <1>8 DEF Returned
    <2>5. Zoned'
      BY <2>4, AnswerOK, ZonedRests
    <2>6. FileWritten
      BY <1>8, <2>2, <2>4 DEF FileWritten
    <2> QED
      BY <1>1, <1>4, <1>5, <1>6, <1>8, <2>2, <2>3, <2>4, <2>5, <2>6, FileGoesOn DEF Grows
  <1>9. CASE call.what \in Entering
    <2>1. t \in Directories /\ e.ino # 0
      BY <1>0, <1>1, <1>9, EntryTarget
    <2>2. p = Held.size + 1 /\ EntryAt(t, Held.size) = e
      BY <1>0, <1>1, <1>9 DEF Placed
    <2>3. PICK off \in Nat : off = Held.size
      BY <1>2
    <2>4. Directories' = Directories
      BY <1>1, <1>4, <1>5 DEF Directories, MTypes, Disks
    <2>5. \A i \in Inodes : disk'.inode[i].size =
             IF i = t /\ off = disk.inode[t].size THEN off + 1 ELSE disk.inode[i].size
      BY <1>2, <1>5, <2>2, <2>3
    <2>6. \A i \in Known : \A x \in Nat :
             EntryAt(i, x)' = IF i = t /\ x = off THEN e ELSE EntryAt(i, x)
      <3>1. EntryAt(t, off) = e
        BY <2>2, <2>3
      <3>2. ASSUME NEW i \in Known, NEW x \in Nat, i = t /\ x = off
            PROVE  EntryAt(i, x)' = e
        BY <1>6, <3>1, <3>2
      <3>3. ASSUME NEW i \in Known, NEW x \in Nat, ~(i = t /\ x = off)
            PROVE  EntryAt(i, x)' = EntryAt(i, x)
        BY <1>6
      <3> QED
        BY <3>2, <3>3
    <2>7. off <= disk.inode[t].size /\ (off < disk.inode[t].size => EntryAt(t, off).ino = 0)
      BY <1>2, <2>3
    <2>8. t \in Known /\ Whole /\ MTypes /\ MTypes'
      BY <1>1, <1>2
    <2>9. /\ Tells' = Tells \union {<<t, off, e>>} /\ Live' = Live \union {e.ino}
          /\ \A u \in Tells : ~(u[1] = t /\ u[2] = off)
      BY <2>1, <2>3, <2>4, <2>5, <2>6, <2>7, <2>8, TellsMore
    <2>10. EntryTold(off)
      BY <1>0, <1>4, <1>9, <2>9 DEF EntryTold
    <2> QED
      BY <1>0, <1>1, <1>4, <1>5, <1>6, <1>9, <2>9, <2>10, Said DEF Grows
  <1> QED
    BY <1>7, <1>8, <1>9

-----------------------------------------------------------------------------
(* The rest of a call.                                                       *)

(* What is in the cache reads as before.                                     *)
Seen == \A i \in Known : Cached(i) => \A p \in Nat : EntryAt(i, p)' = EntryAt(i, p)

LEMMA CalmSeen == Calm => Seen
  BY DEF Calm, Seen

LEMMA StillTells ==
  ASSUME ZInv, ZInv', Sound, disk' = disk
  PROVE  Seen /\ Tells' = Tells /\ Live' = Live /\ Whole'
  <1>1. Calm
    BY CalmStill
  <1> QED
    BY <1>1, CalmSeen, CalmTells DEF ZInv, Sound

(* A call that is idle, or ends.                                             *)
LEMMA IdleSound ==
  ASSUME Whole', Told', Saved', Live' = Live, call'.at = "idle", call'.what = "none",
         \A s \in Slots : cache'[s].ino # 0 => cache'[s].ino \in Live
  PROVE  Sound'
  <1>1. Asked' /\ Placed' /\ Zoned'
    BY WritingIs DEF Asked, Placed, Zoned
  <1>2. Reached'
    BY DEF Reached
  <1> QED
    BY <1>1, <1>2 DEF Sound

LEMMA IdleReached ==
  ASSUME Sound, call.what # "entry" PROVE \A s \in Slots : cache[s].ino # 0 => cache[s].ino \in Live
  BY DEF Sound, Reached

LEMMA DirSlot ==
  ASSUME ZInv, Sound, NEW s \in Slots, cache[s].node.type \in {"dir", "file"}
  PROVE  /\ cache[s].ino # 0 /\ cache[s].ino \in disk.imap /\ cache[s].ino \in Inodes
         /\ cache[s].node = disk.inode[cache[s].ino] /\ cache[s].ino \in Known
  <1>1. cache[s].ino # 0
    BY DEF ZInv, SlotsOK
  <1>2. MTypes
    BY DEF ZInv
  <1>3. cache[s].ino \in Known
    BY <1>1, <1>2, CopiesType
  <1>4. cache[s].ino \in Inodes
    BY <1>3 DEF Known
  <1> QED
    BY <1>1, <1>3, <1>4 DEF Sound, Saved

(* What a directory of the cache names is among what is said.                *)
LEMMA NamedTells ==
  ASSUME ZInv, Sound, NEW s \in Slots, cache[s].node.type = "dir", NEW name
  PROVE  /\ Named(disk, cache[s].node, name) \in SUBSET Nat
         /\ \A off \in Named(disk, cache[s].node, name) :
              \E t \in Tells : /\ t[1] = cache[s].ino /\ t[3].name = name
                               /\ t[3] = ReadAt(disk, cache[s].node, off)
         /\ Named(disk, cache[s].node, name) = {} => Unsaid(cache[s].ino, name)
  <1>0. PICK i, m : i = cache[s].ino /\ m = cache[s].node
    OBVIOUS
  <1>1. i \in Directories /\ m = disk.inode[i]
    BY <1>0, DirSlot DEF Directories
  <1>2. Named(disk, m, name) = {off \in EntriesOf(i) : EntryAt(i, off).name = name}
    BY <1>1 DEF Named, EntriesOf, EntryAt
  <1>3. \A off \in Named(disk, m, name) : off \in EntriesOf(i) /\ EntryAt(i, off).name = name
                                          /\ EntryAt(i, off) = ReadAt(disk, m, off)
    BY <1>1, <1>2 DEF EntryAt
  <1>4. MTypes /\ i \in Inodes
    BY <1>0, DirSlot DEF ZInv
  <1>5. Named(disk, m, name) \in SUBSET Nat
    BY <1>3, <1>4, EntriesAre
  <1>6. ASSUME NEW off \in Named(disk, m, name)
        PROVE  \E t \in Tells : t[1] = i /\ t[3].name = name /\ t[3] = ReadAt(disk, m, off)
    <2>1. <<i, off, EntryAt(i, off)>> \in Tells
      BY <1>1, <1>3, TellsAre
    <2> QED
      BY <1>3, <2>1
  <1>7. ASSUME Named(disk, m, name) = {} PROVE Unsaid(i, name)
    <2>1. ASSUME NEW t \in Tells, t[1] = i PROVE t[3].name # name
      BY <1>2, <1>7, <2>1, TellsAre
    <2> QED
      BY <2>1 DEF Unsaid
  <1> QED
    BY <1>0, <1>5, <1>6, <1>7

LEMMA LookupSound ==
  ASSUME ZInv, ZInv', Sound, NEW s \in Slots, NEW name, Lookup(s, name)
  PROVE  Sound' /\ Seen
  <1>1. PICK i, f, k : /\ k = Min(Named(disk, cache[s].node, name)) /\ f = Min(FreeSlots)
                       /\ i = ReadAt(disk, cache[s].node, k).ino
    OBVIOUS
  <1>2. /\ call.at = "idle" /\ cache[s].node.type = "dir" /\ Named(disk, cache[s].node, name) # {}
        /\ ~Cached(i) /\ FreeSlots # {} /\ disk' = disk /\ call' = call /\ Remember
        /\ cache' = [cache EXCEPT ![f] = [ino |-> i, node |-> disk.inode[i]]]
    BY <1>1 DEF Lookup
  <1>3. MTypes /\ CallOK(call) /\ call.what = "none"
    BY <1>2 DEF ZInv, MTypes, CallOK
  <1>4. f \in Slots /\ cache[f].ino = 0
    <2>1. FreeSlots \in SUBSET Nat
      BY DEF FreeSlots, Slots
    <2>2. f \in FreeSlots
      BY <1>1, <1>2, <2>1, MinExists
    <2> QED
      BY <2>2 DEF FreeSlots
  <1>5. PICK t \in Tells : t[3] = ReadAt(disk, cache[s].node, k)
    <2>1. PICK F : F = Named(disk, cache[s].node, name)
      OBVIOUS
    <2>2. F \in SUBSET Nat /\ F # {}
      BY <1>2, <2>1, NamedTells
    <2>3. k \in F
      BY <1>1, <2>1, <2>2, MinExists
    <2> QED
      <3>1. cache[s].node.type = "dir" /\ k \in Named(disk, cache[s].node, name)
        BY <1>2, <2>1, <2>3
      <3> QED
        BY <3>1, NamedTells
  <1>6. i \in disk.imap /\ i \in Live /\ i # 0
    <2>1. i = t[3].ino
      BY <1>1, <1>5
    <2> QED
      BY <1>3, <2>1, TellsFacts DEF TellsOK, Sound, Whole
  <1>7. Seen /\ Tells' = Tells /\ Live' = Live /\ Whole'
    BY <1>2, StillTells
  <1>8. made' = made
    BY <1>2 DEF Remember
  <1>9. Told'
    BY <1>7, <1>8 DEF Sound, Told
  <1>10. cache'[f].ino = i /\ cache'[f].node = disk.inode[i]
         /\ \A x \in Slots : x # f => cache'[x] = cache[x]
    BY <1>2, <1>3, <1>4 DEF MTypes
  <1>11. Saved'
    BY <1>2, <1>6, <1>10 DEF Sound, Saved, Cached
  <1>12. \A x \in Slots : cache'[x].ino # 0 => cache'[x].ino \in Live
    BY <1>3, <1>6, <1>10, IdleReached
  <1> QED
    BY <1>2, <1>3, <1>7, <1>9, <1>11, <1>12, IdleSound

LEMMA CreateSound ==
  ASSUME ZInv, ZInv', Sound, faults = 0, faults' = 0,
         NEW s \in Slots, NEW name \in Names, NEW type \in {"file", "dir"}, Create(s, name, type)
  PROVE  Sound' /\ Seen
  <1> DEFINE c == [Idle EXCEPT !.at = "imap", !.dir = s, !.name = name, !.type = type]
  <1>1. /\ call.at = "idle" /\ cache[s].node.type = "dir" /\ LookupFails(s, name)
        /\ call' = c /\ disk' = disk /\ cache' = cache /\ Remember
    BY DEF Create, Goes
  <1>2. MTypes /\ CallOK(call) /\ call.what = "none"
    BY <1>1 DEF ZInv, MTypes, CallOK
  <1>3. /\ c.at = "imap" /\ c.dir = s /\ c.name = name /\ c.type = type /\ c.what = "none"
    BY DEF Idle
  <1> HIDE DEF c
  <1>4. Seen /\ Tells' = Tells /\ Live' = Live /\ Whole'
    BY <1>1, StillTells
  <1>5. made' = made
    BY <1>1 DEF Remember
  <1>6. Told'
    BY <1>4, <1>5 DEF Sound, Told
  <1>7. Saved' /\ Reached'
    BY <1>1, <1>2, <1>4 DEF Sound, Saved, Reached
  <1>8. FreeSlots = {} \/ Unsaid(cache[s].ino, name)
    <2>1. PICK F : F = Named(disk, cache[s].node, name)
      OBVIOUS
    <2>2. CASE F = {}
      BY <1>1, <2>1, <2>2, NamedTells
    <2>3. CASE F # {}
      <3>1. PICK k : k = Min(F)
        OBVIOUS
      <3>2. PICK i : i = ReadAt(disk, cache[s].node, k).ino
        OBVIOUS
      <3>3. FreeSlots = {} \/ disk.inode[i].type = "none"
        BY <1>1, <2>1, <2>3, <3>1, <3>2 DEF LookupFails, Fault
      <3>4. k \in F
        BY <1>1, <2>1, <2>3, <3>1, NamedTells, MinExists
      <3>5. PICK t \in Tells : t[3] = ReadAt(disk, cache[s].node, k)
        BY <1>1, <2>1, <3>4, NamedTells
      <3>6. disk.inode[i].type # "none"
        BY <3>2, <3>5 DEF Sound, Whole
      <3> QED
        BY <3>3, <3>6
    <2> QED
      BY <2>2, <2>3
  <1>9. disk.inode[cache[s].ino].type = "dir"
    BY <1>1, DirSlot
  <1>10. Parent' = cache[s].ino /\ FreeSlots' = FreeSlots
    BY <1>1, <1>3 DEF Parent, FreeSlots
  <1>11. Asked'
    BY <1>1, <1>3, <1>4, <1>8, <1>9, <1>10, WritingIs DEF Asked, Unsaid
  <1>12. Placed' /\ Zoned'
    BY <1>1, <1>3, WritingIs DEF Placed, Zoned
  <1> QED
    BY <1>4, <1>6, <1>7, <1>11, <1>12 DEF Sound

LEMMA WriteFileSound ==
  ASSUME ZInv, ZInv', Sound, NEW s \in Slots, NEW off, NEW n, WriteFile(s, off, n)
  PROVE  Sound' /\ Seen
  <1> DEFINE c == [Idle EXCEPT !.at = "block", !.what = "file", !.slot = s, !.off = off, !.n = n]
  <1>1. /\ call.at = "idle" /\ cache[s].node.type = "file"
        /\ call' = c /\ disk' = disk /\ cache' = cache /\ Remember
    BY DEF WriteFile, Goes
  <1>2. MTypes /\ CallOK(call) /\ call.what = "none"
    BY <1>1 DEF ZInv, MTypes, CallOK
  <1>3. c.at = "block" /\ c.what = "file" /\ c.slot = s
    BY DEF Idle
  <1> HIDE DEF c
  <1>4. Seen /\ Tells' = Tells /\ Live' = Live /\ Whole'
    BY <1>1, StillTells
  <1>5. made' = made
    BY <1>1 DEF Remember
  <1>6. Told'
    BY <1>4, <1>5 DEF Sound, Told
  <1>7. Saved' /\ Reached'
    BY <1>1, <1>2, <1>4 DEF Sound, Saved, Reached
  <1>8. Asked' /\ Zoned'
    BY <1>1, <1>3, WritingIs DEF Asked, Zoned
  <1>9. Held'.type = "file"
    BY <1>1, <1>3, DirSlot DEF Held, Target
  <1>10. Placed'
    BY <1>1, <1>3, <1>9, WritingIs DEF Placed
  <1> QED
    BY <1>4, <1>6, <1>7, <1>8, <1>10 DEF Sound

LEMMA InodeFullSound ==
  ASSUME ZInv, ZInv', Sound, InodeFull
  PROVE  Sound' /\ Seen
  <1>1. /\ call.at = "imap" /\ call' = Answer(FALSE) /\ disk' = disk /\ cache' = cache /\ Remember
    BY DEF InodeFull, Goes
  <1>2. MTypes /\ CallOK(call) /\ call.what = "none"
    BY <1>1 DEF ZInv, MTypes, CallOK
  <1>3. Seen /\ Tells' = Tells /\ Live' = Live /\ Whole'
    BY <1>1, StillTells
  <1>4. made' = made
    BY <1>1 DEF Remember
  <1>5. Told' /\ Saved'
    BY <1>1, <1>3, <1>4 DEF Sound, Told, Saved
  <1> QED
    BY <1>1, <1>2, <1>3, <1>5, IdleSound, IdleReached, AnswerOK

LEMMA CrashSound ==
  ASSUME ZInv, ZInv', Sound, Crash
  PROVE  Sound'
  <1>1. cache' = Mounted(disk) /\ call' = Idle /\ disk' = disk /\ made' = made
    BY DEF Crash, Goes
  <1>2. Tells' = Tells /\ Live' = Live /\ Whole'
    BY <1>1, StillTells
  <1>3. Told'
    BY <1>1, <1>2 DEF Sound, Told
  <1>4. \A s \in Slots : cache'[s].ino # 0 =>
          s = 1 /\ cache'[s].ino = Root /\ cache'[s].node = disk.inode[Root]
    BY <1>1 DEF Mounted, FreeSlot
  <1>5. Root \in disk.imap /\ Root \in Live
    BY DEF Sound, Whole, Directories, Live
  <1>6. Saved'
    BY <1>1, <1>4, <1>5 DEF Saved
  <1>7. call'.at = "idle" /\ call'.what = "none"
    BY <1>1 DEF Idle
  <1> QED
    BY <1>2, <1>3, <1>4, <1>5, <1>6, <1>7, IdleSound

LEMMA DirentInserisciSound ==
  ASSUME ZInv, ZInv', Sound, faults = 0, faults' = 0, DirentInserisci
  PROVE  Sound' /\ Seen
  <1>1. PICK s, i, m, p : s = Where /\ i = cache[s].ino /\ m = cache[s].node /\ p = Place(m)
    OBVIOUS
  <1>2. /\ call.at = "insert" /\ call' = Writes(p) /\ disk' = disk /\ cache' = cache /\ Remember
    BY <1>1 DEF DirentInserisci, Fault, Goes
  <1>3. /\ MTypes /\ CallOK(call) /\ call \in Calls /\ call.what \in Entering
        /\ call.dir \in Slots /\ call.new \in Slots /\ cache[call.dir].ino # 0 /\ cache[call.new].ino # 0
    BY <1>2 DEF ZInv, MTypes, CallOK, SlotsOK
  <1>4. s \in Slots /\ s \in {call.dir, call.new} /\ i # 0
    BY <1>1, <1>3 DEF Where
  <1>5. m = disk.inode[i] /\ m \in Nodes /\ m.size \in Nat
    <2>1. m = disk.inode[i]
      BY <1>1, <1>4 DEF Sound, Saved
    <2>2. m \in Nodes
      BY <1>1, <1>3, <1>4 DEF MTypes
    <2> QED
      BY <2>1, <2>2, Numbers DEF Nodes
  <1>6. p \in 0 .. m.size /\ p \notin InUse(disk, m)
    BY <1>1, <1>5, PlaceType
  <1>7. p <= m.size /\ (p < m.size => ReadAt(disk, m, p).ino = 0)
    <2>1. p \in Nat /\ p <= m.size
      BY <1>5, <1>6
    <2>2. p < m.size => p \in 0 .. m.size - 1
      BY <1>5, <2>1
    <2> QED
      BY <1>6, <2>1, <2>2 DEF InUse
  <1>8. /\ call'.at = "block" /\ call'.what = call.what /\ call'.dir = call.dir
        /\ call'.new = call.new /\ call'.name = call.name /\ call'.type = call.type
        /\ call'.slot = s /\ call'.off = p /\ call'.n = 1 /\ call'.done = 0
    BY <1>1, <1>2, <1>3 DEF Writes, Calls
  <1>9. Seen /\ Tells' = Tells /\ Live' = Live /\ Whole'
    BY <1>2, StillTells
  <1>10. Asked' /\ Reached'
    BY <1>2, <1>8, <1>9, AskedStays, WritingIs
  <1>11. Told' /\ Saved' /\ Zoned'
    BY <1>2, <1>8, <1>9, ZonedRests DEF Sound, Told, Saved, Remember
  <1>12. Placed'
    <2>a. Where' = s
      BY <1>1, <1>2, <1>8 DEF Where
    <2>b. Target'.ino = i
      BY <1>1, <1>2, <1>8 DEF Target
    <2>1. Where' = s /\ Target'.ino = i /\ Held' = m
      BY <1>2, <1>5, <2>a, <2>b DEF Held
    <2>2. (EntryAt(Target.ino, call.off))' = ReadAt(disk, m, p)
      BY <1>2, <1>5, <1>8, <2>1 DEF EntryAt
    <2>3. call'.what # "file"
      BY <1>3, <1>8, WritingIs
    <2>4. call'.off <= Held'.size /\ (call'.off < Held'.size => (EntryAt(Target.ino, call.off))'.ino = 0)
      BY <1>7, <1>8, <2>1, <2>2
    <2> HIDE DEF EntryAt
    <2> QED
      BY <1>8, <2>1, <2>3, <2>4 DEF Placed
  <1> QED
    BY <1>9, <1>10, <1>11, <1>12 DEF Sound

LEMMA ZonesFullSound ==
  ASSUME ZInv, ZInv', Sound, ZonesFull \/ TooFar
  PROVE  Sound' /\ Seen
  <1>1. /\ call.at \in {"zmap", "assign"} /\ call' = Break /\ disk' = disk /\ cache' = cache
        /\ Remember
    BY DEF ZonesFull, TooFar, Goes
  <1> QED
    BY <1>1, Breaks, CalmSeen, WritingIs

(* A new bit does not change what the directories say: an inode that was     *)
(* free is an empty directory at most.                                       *)
LEMMA AccendiInodeSound ==
  ASSUME ZInv, ZInv', Sound, faults = 0, faults' = 0, AccendiInode
  PROVE  Sound' /\ Seen /\ Tells' = Tells /\ Live' = Live
  <1>0. PICK b : b = Min(FreeInodes)
    OBVIOUS
  <1>1. /\ call.at = "imap" /\ FreeSlots # {} /\ FreeInodes # {} /\ Remember /\ cache' = cache
        /\ disk' = [disk EXCEPT !.imap = @ \union {b}]
        /\ call' = [call EXCEPT !.at = "erase", !.bit = b]
    BY <1>0 DEF AccendiInode, Rewrite, Fault, Goes
  <1>2. MTypes /\ MTypes' /\ disk \in Disks /\ CallOK(call) /\ call \in Calls /\ call.what = "none"
    BY <1>1 DEF ZInv, MTypes, CallOK
  <1>3. b \in Inodes /\ b \notin disk.imap
    <2>1. FreeInodes \in SUBSET Nat
      BY DEF FreeInodes, Inodes
    <2>2. b \in FreeInodes
      BY <1>0, <1>1, <2>1, MinExists
    <2> QED
      BY <2>2 DEF FreeInodes
  <1>4. /\ disk'.imap = disk.imap \union {b} /\ disk'.inode = disk.inode
        /\ disk'.data = disk.data /\ disk'.ptr = disk.ptr
    BY <1>1, <1>2, MapUpdates
  <1>5. /\ call'.at = "erase" /\ call'.bit = b /\ call'.what = "none" /\ call'.dir = call.dir
        /\ call'.name = call.name /\ call'.type = call.type
    BY <1>1, <1>2, <1>3 DEF Calls
  <1>6. b \notin Live /\ ~Cached(b)
    <2>1. b \notin Live
      BY <1>2, <1>3, LiveTaken DEF Sound
    <2>2. b # 0
      BY <1>3 DEF Inodes
    <2> QED
      BY <1>3, <2>1, <2>2 DEF Sound, Saved, Cached
  <1>7. \A i \in Known : \A p \in Nat : EntryAt(i, p)' = EntryAt(i, p)
    <2>1. ASSUME NEW i \in Known PROVE Steady(i)
      BY <1>2, <1>4, Undisturbed DEF Untouched
    <2> QED
      BY <2>1 DEF Steady
  <1>8. \A i \in Inodes : Filled(i)' <=> Filled(i)
    <2>1. ~(disk.inode[b].type = "dir" /\ disk.inode[b].size > 0)
      BY <1>3, <1>6 DEF Sound, Whole
    <2> QED
      BY <1>3, <1>4, <2>1 DEF Filled, Directories
  <1>9. Tells' = Tells /\ Live' = Live
    BY <1>2, <1>4, <1>7, <1>8, TellsSame DEF Sound
  <1>10. Whole'
    <2>1. \A i \in Live : i \in disk'.imap
      BY <1>2, <1>4, LiveTaken DEF Sound
    <2>2. \A i \in Inodes : disk'.inode[i].type = "dir" /\ disk'.inode[i].size > 0 => i \in Live
      BY <1>4 DEF Sound, Whole
    <2> QED
      BY <1>2, <1>4, <1>9, <2>1, <2>2, WholeSame DEF Sound
  <1>11. made' = made
    BY <1>1 DEF Remember
  <1>12. Told'
    BY <1>9, <1>11 DEF Sound, Told
  <1>13. Saved'
    BY <1>1, <1>4 DEF Sound, Saved
  <1>14. Reached'
    BY <1>1, <1>2, <1>5, <1>9 DEF Sound, Reached
  <1>15. Asked'
    <2>1. Parent' = Parent
      BY <1>1, <1>5 DEF Parent
    <2>2. disk.inode[Parent].type = "dir" /\ call.type \in {"file", "dir"} /\ Unsaid(Parent, call.name)
      BY <1>1 DEF Sound, Asked
    <2>3. Unsaid(Parent, call.name)'
      BY <1>5, <1>9, <2>1, <2>2 DEF Unsaid
    <2>4. b \in disk'.imap \ Live' /\ ~Cached(b)'
      BY <1>1, <1>4, <1>6, <1>9 DEF Cached
    <2>5. ~Cached(call.bit)'
      BY <1>5, <2>4 DEF Cached
    <2> QED
      BY <1>4, <1>5, <2>1, <2>2, <2>3, <2>4, <2>5, WritingIs DEF Asked
  <1>16. Placed' /\ Zoned'
    BY <1>5, WritingIs DEF Placed, Zoned
  <1> QED
    BY <1>7, <1>9, <1>10, <1>12, <1>13, <1>14, <1>15, <1>16 DEF Sound, Seen

(* The inode allocated, which nobody names, is written.                      *)
LEMMA BitWritten ==
  ASSUME ZInv, ZInv', Sound, call.at \in {"erase", "inode"}, Remember, NEW m \in Nodes,
         NEW b, b = call.bit, m.size = 0, disk' = [disk EXCEPT !.inode[b] = m]
  PROVE  /\ Seen /\ Tells' = Tells /\ Live' = Live /\ Whole' /\ Told'
         /\ disk'.imap = disk.imap
         /\ \A i \in Inodes : disk'.inode[i] = IF i = b THEN m ELSE disk.inode[i]
         /\ b \in Inodes /\ b \in disk.imap /\ b \notin Live /\ ~Cached(b)
  <1>2. MTypes /\ MTypes' /\ disk \in Disks /\ CallOK(call) /\ b \in Inodes
    BY DEF ZInv, MTypes, CallOK
  <1>4. /\ disk'.imap = disk.imap /\ disk'.data = disk.data /\ disk'.ptr = disk.ptr
        /\ \A i \in Inodes : disk'.inode[i] = IF i = b THEN m ELSE disk.inode[i]
    BY <1>2, InodeUpdate
  <1>6. b \notin Live /\ ~Cached(b) /\ b \in disk.imap
    BY DEF Sound, Asked, Cached
  <1>7. ASSUME NEW i \in Known, i # b PROVE \A p \in Nat : EntryAt(i, p)' = EntryAt(i, p)
    <2>1. i \in Inodes
      BY DEF Known
    <2>2. disk'.inode[i] = disk.inode[i]
      BY <1>4, <1>7, <2>1
    <2> QED
      BY <1>2, <1>4, <2>2, Undisturbed DEF Untouched, Steady
  <1>8. /\ \A i \in Inodes : Filled(i)' <=> Filled(i)
        /\ \A i \in Inodes : Filled(i) => i # b
    <2>1. ~(disk.inode[b].type = "dir" /\ disk.inode[b].size > 0)
      BY <1>2, <1>6 DEF Sound, Whole
    <2>2. ~(disk'.inode[b].type = "dir" /\ disk'.inode[b].size > 0)
      BY <1>2, <1>4
    <2> QED
      BY <1>4, <2>1, <2>2 DEF Filled, Directories
  <1>9. Tells' = Tells /\ Live' = Live
    <2>1. \A i \in Inodes : Filled(i) => disk'.inode[i].size = disk.inode[i].size
      BY <1>4, <1>8
    <2>2. \A i \in Known : Filled(i) => \A p \in Nat : EntryAt(i, p)' = EntryAt(i, p)
      BY <1>7, <1>8 DEF Known
    <2> QED
      BY <1>2, <1>8, <2>1, <2>2, TellsSame DEF Sound
  <1>10. Whole'
    <2>1. \A i \in Live : i \in disk'.imap /\ disk'.inode[i] = disk.inode[i]
      BY <1>2, <1>4, <1>6, LiveTaken DEF Sound
    <2>2. \A i \in Inodes : disk'.inode[i].type = "dir" /\ disk'.inode[i].size > 0 => i \in Live
      BY <1>4 DEF Sound, Whole
    <2> QED
      BY <1>2, <1>9, <2>1, <2>2, WholeSame DEF Sound
  <1>11. Told'
    BY <1>9 DEF Remember, Sound, Told
  <1>12. Seen
    BY <1>6, <1>7 DEF Seen
  <1> QED
    BY <1>2, <1>4, <1>6, <1>9, <1>10, <1>11, <1>12

LEMMA AzzeraInodeSound ==
  ASSUME ZInv, ZInv', Sound, faults = 0, faults' = 0, AzzeraInode
  PROVE  Sound' /\ Seen /\ Tells' = Tells /\ Live' = Live
  <1>0. PICK b : b = call.bit
    OBVIOUS
  <1>1. /\ call.at = "erase" /\ Remember /\ cache' = cache
        /\ disk' = [disk EXCEPT !.inode[b] = Blank]
        /\ call' = [call EXCEPT !.at = "inode"]
    BY <1>0 DEF AzzeraInode, Rewrite, Fault, Goes
  <1>2. MTypes /\ CallOK(call) /\ call \in Calls /\ call.what = "none" /\ call.dir \in Slots
        /\ cache[call.dir].ino # 0
    BY <1>1 DEF ZInv, MTypes, CallOK, SlotsOK
  <1>3. Blank \in Nodes /\ Blank.size = 0
    BY BlankBare DEF Blank, Node
  <1>4. /\ Seen /\ Tells' = Tells /\ Live' = Live /\ Whole' /\ Told'
        /\ disk'.imap = disk.imap
        /\ \A i \in Inodes : disk'.inode[i] = IF i = b THEN Blank ELSE disk.inode[i]
        /\ b \in Inodes /\ b \in disk.imap /\ b \notin Live /\ ~Cached(b)
    <2> HIDE DEF Blank
    <2> QED
      BY <1>0, <1>1, <1>3, BitWritten
  <1>5. /\ call'.at = "inode" /\ call'.bit = b /\ call'.what = "none" /\ call'.dir = call.dir
        /\ call'.name = call.name /\ call'.type = call.type
    BY <1>0, <1>1, <1>2 DEF Calls
  <1>6. \A s \in Slots : cache[s].ino # 0 => cache[s].ino \in Inodes /\ cache[s].ino # b
    BY <1>2, <1>4, Numbers DEF Cached, Inodes, MTypes
  <1>7. Saved'
    BY <1>1, <1>4, <1>6 DEF Sound, Saved
  <1>8. Reached'
    BY <1>1, <1>2, <1>4, <1>5 DEF Sound, Reached
  <1>9. Asked'
    <2>1. Parent' = Parent /\ Parent \in Inodes /\ Parent # b
      BY <1>1, <1>2, <1>5, <1>6 DEF Parent
    <2>2. disk.inode[Parent].type = "dir" /\ call.type \in {"file", "dir"} /\ Unsaid(Parent, call.name)
      BY <1>1 DEF Sound, Asked
    <2>3. Unsaid(Parent, call.name)'
      BY <1>4, <1>5, <2>1, <2>2 DEF Unsaid
    <2>4. b \in disk'.imap \ Live' /\ ~Cached(call.bit)'
      BY <1>1, <1>4, <1>5 DEF Cached
    <2>5. disk'.inode[Parent].type = "dir"
      BY <1>4, <2>1, <2>2
    <2> QED
      BY <1>4, <1>5, <2>1, <2>2, <2>3, <2>4, <2>5, WritingIs DEF Asked
  <1>10. Placed' /\ Zoned'
    BY <1>5, WritingIs DEF Placed, Zoned
  <1> QED
    BY <1>4, <1>7, <1>8, <1>9, <1>10 DEF Sound

LEMMA ScriviNuovoSound ==
  ASSUME ZInv, ZInv', Sound, faults = 0, faults' = 0, ScriviNuovo
  PROVE  Sound' /\ Seen /\ Tells' = Tells /\ Live' = Live
  <1>0. PICK b, f, m : b = call.bit /\ f = Min(FreeSlots) /\ m = NewNode(call.type)
    OBVIOUS
  <1>1. /\ call.at = "inode" /\ Remember /\ disk' = [disk EXCEPT !.inode[b] = m]
        /\ cache' = [cache EXCEPT ![f] = [ino |-> b, node |-> m]]
        /\ call' = [call EXCEPT !.at = "insert", !.what = "entry", !.new = f]
    BY <1>0 DEF ScriviNuovo, Rewrite, Fault, Goes
  <1>2. /\ MTypes /\ CallOK(call) /\ call \in Calls /\ call.what = "none" /\ call.dir \in Slots
        /\ cache[call.dir].ino # 0 /\ cache \in [Slots -> [ino : 0 .. NInodes, node : Nodes]]
        /\ FreeSlots # {}
    BY <1>1 DEF ZInv, MTypes, CallOK, SlotsOK
  <1>3. f \in Slots /\ cache[f].ino = 0 /\ f # call.dir
    <2>1. FreeSlots \in SUBSET Nat
      BY DEF FreeSlots, Slots
    <2>2. f \in FreeSlots
      BY <1>0, <1>2, <2>1, MinExists
    <2> QED
      BY <1>2, <2>2 DEF FreeSlots
  <1>4. /\ disk.inode[Parent].type = "dir" /\ call.type \in {"file", "dir"}
        /\ Unsaid(Parent, call.name)
    BY <1>1 DEF Sound, Asked
  <1>5. m \in Nodes /\ m.size = 0 /\ m.type = call.type
    <2>1. 2 \in 0 .. NInodes + 1 /\ 1 \in 0 .. NInodes + 1 /\ 0 \in 0 .. MaxSize /\ 0 \in 0 .. NZones
      BY Numbers
    <2>2. NoZones \in [0 .. ZONE_DIRETTE - 1 -> 0 .. NZones]
      BY Numbers DEF NoZones
    <2> QED
      BY <1>0, <1>4, <2>1, <2>2 DEF NewNode, Node, Nodes
  <1>6. /\ Seen /\ Tells' = Tells /\ Live' = Live /\ Whole' /\ Told'
        /\ disk'.imap = disk.imap
        /\ \A i \in Inodes : disk'.inode[i] = IF i = b THEN m ELSE disk.inode[i]
        /\ b \in Inodes /\ b \in disk.imap /\ b \notin Live /\ ~Cached(b)
    BY <1>0, <1>1, <1>5, BitWritten
  <1>7. /\ call'.at = "insert" /\ call'.what = "entry" /\ call'.dir = call.dir
        /\ call'.name = call.name /\ call'.type = call.type /\ call'.new = f
    BY <1>1, <1>2, <1>3 DEF Calls
  <1>8. \A s \in Slots : cache[s].ino # 0 => cache[s].ino \in Inodes /\ cache[s].ino # b
    BY <1>2, <1>6, Numbers DEF Cached, Inodes, MTypes
  <1>9. /\ cache'[f].ino = b /\ cache'[f].node = m
        /\ \A s \in Slots : s # f => cache'[s] = cache[s]
    BY <1>1, <1>2, <1>3
  <1>10. Saved'
    BY <1>6, <1>8, <1>9 DEF Sound, Saved
  <1>11. Reached'
    BY <1>2, <1>6, <1>7, <1>9 DEF Sound, Reached
  <1>12. Asked'
    <2>1. Parent' = Parent /\ Parent \in Inodes /\ Parent # b /\ Child' = b
      BY <1>2, <1>3, <1>7, <1>8, <1>9 DEF Parent, Child
    <2>2. Unsaid(Parent, call.name)'
      BY <1>4, <1>6, <1>7, <2>1 DEF Unsaid
    <2>3. disk'.inode[Parent].type = "dir" /\ disk'.inode[b] = m
      BY <1>4, <1>6, <2>1
    <2> QED
      BY <1>4, <1>5, <1>6, <1>7, <2>1, <2>2, <2>3, WritingIs DEF Asked
  <1>13. Placed' /\ Zoned'
    BY <1>7, WritingIs DEF Placed, Zoned
  <1> QED
    BY <1>6, <1>10, <1>11, <1>12, <1>13 DEF Sound

LEMMA UndoSound ==
  ASSUME ZInv, ZInv', Sound, faults = 0, faults' = 0, Undo
  PROVE  Sound' /\ Seen /\ Tells' = Tells /\ Live' = Live
  <1>0. PICK b, f : b = cache[call.new].ino /\ f = call.new
    OBVIOUS
  <1>1. /\ call.at = "undo" /\ Remember /\ disk' = [disk EXCEPT !.imap = @ \ {b}]
        /\ cache' = [cache EXCEPT ![f] = FreeSlot] /\ call' = Answer(FALSE)
    BY <1>0 DEF Undo, Rewrite, Fault, Goes
  <1>2. /\ MTypes /\ MTypes' /\ disk \in Disks /\ call.what = "entry"
        /\ f \in Slots /\ b # 0 /\ cache \in [Slots -> [ino : 0 .. NInodes, node : Nodes]]
    BY <1>0, <1>1, WritingIs DEF ZInv, MTypes, CallOK, SlotsOK, Sound, Asked
  <1>3. b \notin Live /\ disk.inode[b].size = 0
    BY <1>0, <1>2 DEF Sound, Asked, Child
  <1>4. /\ disk'.imap = disk.imap \ {b} /\ disk'.inode = disk.inode
        /\ disk'.data = disk.data /\ disk'.ptr = disk.ptr
    BY <1>1, <1>2, MapUpdates
  <1>5. \A i \in Known : \A p \in Nat : EntryAt(i, p)' = EntryAt(i, p)
    <2>1. ASSUME NEW i \in Known PROVE Steady(i)
      BY <1>2, <1>4, Undisturbed DEF Untouched
    <2> QED
      BY <2>1 DEF Steady
  <1>6. \A i \in Inodes : Filled(i)' <=> Filled(i)
    BY <1>3, <1>4 DEF Filled, Directories
  <1>7. Tells' = Tells /\ Live' = Live
    BY <1>2, <1>4, <1>5, <1>6, TellsSame DEF Sound
  <1>8. Whole'
    <2>1. \A i \in Live : i \in disk'.imap
      BY <1>2, <1>3, <1>4, LiveTaken DEF Sound
    <2>2. \A i \in Inodes : disk'.inode[i].type = "dir" /\ disk'.inode[i].size > 0 => i \in Live
      BY <1>4 DEF Sound, Whole
    <2> QED
      BY <1>2, <1>4, <1>7, <2>1, <2>2, WholeSame DEF Sound
  <1>9. made' = made
    BY <1>1 DEF Remember
  <1>10. Told'
    BY <1>7, <1>9 DEF Sound, Told
  <1>11. \A s \in Slots : /\ s # f => cache'[s] = cache[s] /\ (cache[s].ino # 0 => cache[s].ino # b)
                          /\ s = f => cache'[s].ino = 0
    <2>1. \A s \in Slots : s # f => cache'[s] = cache[s]
      BY <1>1, <1>2
    <2>2. cache'[f].ino = 0
      BY <1>1, <1>2 DEF FreeSlot
    <2>3. \A s \in Slots : s # f => (cache[s].ino # 0 => cache[s].ino # b)
      BY <1>0, <1>2 DEF Sound, Saved
    <2> QED
      BY <2>1, <2>2, <2>3
  <1>12. Saved'
    BY <1>4, <1>11 DEF Sound, Saved
  <1>13. \A s \in Slots : cache'[s].ino # 0 => cache'[s].ino \in Live
    BY <1>0, <1>11 DEF Sound, Reached
  <1>14. Seen
    BY <1>5 DEF Seen
  <1> QED
    BY <1>1, <1>7, <1>8, <1>10, <1>12, <1>13, <1>14, IdleSound, AnswerOK

LEMMA ParentLinksSound ==
  ASSUME ZInv, ZInv', Sound, faults = 0, faults' = 0, ParentLinks
  PROVE  Sound' /\ Seen /\ Calm
  <1>0. PICK d, i, old, m : d = call.dir /\ i = cache[d].ino /\ old = cache[d].node
                            /\ m = [old EXCEPT !.nlinks = @ + 1]
    OBVIOUS
  <1>1. /\ call.at = "links" /\ Remember /\ disk' = [disk EXCEPT !.inode[i] = m]
        /\ cache' = [cache EXCEPT ![d].node = m] /\ call' = Answer(TRUE)
    BY <1>0 DEF ParentLinks, Rewrite, Fault, Goes
  <1>2. /\ MTypes /\ MTypes' /\ disk \in Disks /\ disk' \in Disks /\ call.what = "dotdot"
        /\ d \in Slots /\ i # 0 /\ i = Parent
    BY <1>0, <1>1, WritingIs DEF ZInv, MTypes, CallOK, SlotsOK, Sound, Asked, Parent
  <1>3. i \in Inodes /\ i \in Known /\ old = disk.inode[i] /\ old \in Nodes
    <2>1. i \in Known
      BY <1>0, <1>2, CopiesType
    <2>2. old = disk.inode[i]
      BY <1>0, <1>2 DEF Sound, Saved
    <2> QED
      BY <1>2, <2>1, <2>2 DEF Known, Disks
  <1>4. m.type = old.type /\ m.zone = old.zone /\ m.ind = old.ind /\ m.size = old.size
    BY <1>0, <1>3 DEF Nodes
  <1>5. /\ disk'.imap = disk.imap /\ disk'.data = disk.data /\ disk'.ptr = disk.ptr
        /\ \A j \in Inodes : disk'.inode[j] = IF j = i THEN m ELSE disk.inode[j]
    <2> HIDE DEF Node
    <2> QED
      BY <1>1, <1>2 DEF Disks
  <1>6. Calm
    <2>1. ASSUME NEW j \in Known PROVE Steady(j)
      <3>1. j \in Inodes
        BY DEF Known
      <3>2. disk'.inode[j].zone = disk.inode[j].zone /\ disk'.inode[j].ind = disk.inode[j].ind
        BY <1>3, <1>4, <1>5, <3>1
      <3> QED
        BY <1>2, <1>5, <3>2, Undisturbed DEF Untouched
    <2>2. \A j \in Inodes : /\ disk'.inode[j].type = disk.inode[j].type
                            /\ disk'.inode[j].size = disk.inode[j].size
      BY <1>3, <1>4, <1>5
    <2> QED
      BY <1>5, <2>1, <2>2 DEF Calm, Steady
  <1>7. Tells' = Tells /\ Live' = Live /\ Whole'
    BY <1>2, <1>6, CalmTells DEF Sound
  <1>8. Saved' /\ \A s \in Slots : cache'[s].ino = cache[s].ino
    <2>1. \A j \in Inodes : disk'.inode[j] = IF j = cache[d].ino THEN m ELSE disk.inode[j]
      BY <1>0, <1>5
    <2>2. Saved /\ cache[d].ino # 0
      BY <1>0, <1>2 DEF Sound
    <2> QED
      BY <1>1, <1>2, <1>5, <2>1, <2>2, SavedNode
  <1>9. Told'
    <2>1. PICK e : e = Entry(Child, call.name)
      OBVIOUS
    <2>2. \E t \in Tells : t[1] = i /\ t[3] = e
      BY <1>2, <2>1 DEF Sound, Asked
    <2>3. made' \subseteq made \union {<<i, e>>}
      <3>1. made' \subseteq made \union {<<cache[call.dir].ino, Entry(cache[call.new].ino, call.name)>>}
        <4>1. Remember
          BY <1>1
        <4>2. \/ made' = made
              \/ made' = made \union {<<cache[call.dir].ino, Entry(cache[call.new].ino, call.name)>>}
          BY <4>1, Zenon DEF Remember
        <4> QED
          BY <4>2
      <3> QED
        BY <1>0, <2>1, <3>1 DEF Child
    <2> QED
      BY <1>7, <2>2, <2>3 DEF Sound, Told
  <1>10. \A s \in Slots : cache'[s].ino # 0 => cache'[s].ino \in Live
    BY <1>2, <1>8, IdleReached
  <1> QED
    BY <1>1, <1>6, <1>7, <1>8, <1>9, <1>10, IdleSound, CalmSeen, AnswerOK

-----------------------------------------------------------------------------
(* The tree of names, always.                                                *)

(* What failed stays counted.                                                *)
LEMMA FaultsGrow == MTypes /\ [Next]_vars => faults' = faults \/ faults' = faults + 1
  <1> SUFFICES ASSUME MTypes, [Next]_vars PROVE faults' = faults \/ faults' = faults + 1
    OBVIOUS
  <1>1. CASE Begin
    <2>1. ASSUME NEW s, NEW n, LookupFails(s, n) PROVE faults' = faults \/ faults' = faults + 1
      BY <2>1 DEF LookupFails, Fault
    <2>2. ASSUME NEW s, NEW n, Lookup(s, n) PROVE faults' = faults
      BY <2>2 DEF Lookup
    <2>3. ASSUME NEW s, NEW n, NEW t, Create(s, n, t) PROVE LookupFails(s, n)
      BY <2>3 DEF Create
    <2>4. ASSUME NEW s, NEW n, NEW t, WriteFile(s, n, t) PROVE faults' = faults
      BY <2>4 DEF WriteFile
    <2> QED
      BY <1>1, <2>1, <2>2, <2>3, <2>4, Zenon DEF Begin
  <1>2. CASE CreateStep
    BY <1>2 DEF CreateStep, InodeFull, AccendiInode, AzzeraInode, ScriviNuovo,
                DirentInserisci, Undo, ParentLinks, Rewrite, Fault
  <1>3. CASE WriteStep
    BY <1>3 DEF WriteStep, FindZone, ZonesFull, AccendiZona, AzzeraZona, AssignDirect,
                NeedIndirect, AssignIndirectBlock, AssignIndirect, TooFar, WriteBlock, Grow,
                Save, Rewrite, Fault
  <1>4. CASE Crash \/ UNCHANGED vars
    BY <1>4 DEF Crash, vars
  <1> QED
    BY <1>1, <1>2, <1>3, <1>4 DEF Next

LEMMA UnchangedSound ==
  ASSUME ZInv, ZInv', Sound, UNCHANGED vars
  PROVE  Sound'
  <1>1. disk' = disk /\ cache' = cache /\ call' = call /\ made' = made
    BY DEF vars
  <1>2. Tells' = Tells /\ Live' = Live /\ Whole'
    BY <1>1, StillTells
  <1>3. Told' /\ Saved' /\ Reached'
    BY <1>1, <1>2 DEF Sound, Told, Saved, Reached
  <1>4. Asked'
    BY <1>1, <1>2 DEF Sound, Asked, Unsaid, Parent, Child, FreeSlots, Cached, Entry
  <1>a. Target' = Target /\ Held' = Held /\ Where' = Where /\ NewEntry' = NewEntry
        /\ Logical' = Logical /\ InIndirect' = InIndirect
    BY <1>1 DEF Target, Held, Where, NewEntry, Logical, InIndirect
  <1>b. /\ (EntryAt(Target.ino, call.off))' = EntryAt(Target.ino, call.off)
        /\ (EntryAt(Target.ino, Held.size))' = EntryAt(Target.ino, Held.size)
    BY <1>1, <1>a DEF EntryAt
  <1>c. (ZonaDi(disk, Held, Logical))' = ZonaDi(disk, Held, Logical)
    BY <1>1, <1>a
  <1>5. Placed'
    <2> HIDE DEF EntryAt
    <2> QED
      BY <1>1, <1>a, <1>b DEF Sound, Placed
  <1>6. Zoned'
    BY <1>1, <1>a, <1>c DEF Sound, Zoned
  <1> QED
    BY <1>2, <1>3, <1>4, <1>5, <1>6 DEF Sound

LEMMA NextSound == ZInv /\ SInv /\ [Next]_vars => SInv'
  <1> SUFFICES ASSUME ZInv, SInv, [Next]_vars, faults' = 0 PROVE Sound'
    BY DEF SInv
  <1>1. ZInv'
    BY NextZones
  <1>2. faults = 0
    <2>1. MTypes /\ faults \in Nat
      BY Numbers DEF ZInv, MTypes
    <2> QED
      BY <2>1, FaultsGrow
  <1>3. Sound
    BY <1>2 DEF SInv
  <1>4. CASE Begin
    BY <1>1, <1>2, <1>3, <1>4, LookupSound, CreateSound, WriteFileSound DEF Begin
  <1>5. CASE CreateStep
    BY <1>1, <1>2, <1>3, <1>5, InodeFullSound, AccendiInodeSound, AzzeraInodeSound,
       ScriviNuovoSound, DirentInserisciSound, UndoSound, ParentLinksSound DEF CreateStep
  <1>6. CASE WriteStep
    BY <1>1, <1>2, <1>3, <1>6, FindZoneSound, ZonesFullSound, AccendiZonaSound, AzzeraZonaSound,
       AssignDirectSound, NeedIndirectSound, AssignIndirectBlockSound, AssignIndirectSound,
       WriteBlockSound, GrowSound DEF WriteStep
  <1>7. CASE Crash
    BY <1>1, <1>3, <1>7, CrashSound
  <1>8. CASE UNCHANGED vars
    BY <1>1, <1>3, <1>8, UnchangedSound
  <1> QED
    BY <1>4, <1>5, <1>6, <1>7, <1>8 DEF Next

(* A disk of mkfs: the root, with its "." and its "..".                      *)
LEMMA InitDisk ==
  ASSUME Init
  PROVE  /\ disk.imap = {Root} /\ disk.zmap = {1} /\ cache = Mounted(disk) /\ call = Idle /\ made = {}
         /\ \E m : /\ disk.inode[Root] = m /\ m.type = "dir" /\ m.size \in {2, 3} /\ m.ind = 0
                   /\ m.nlinks = 2 /\ m.zone[0] = 1
                   /\ \A n \in 0 .. ZONE_DIRETTE - 1 : n # 0 => m.zone[n] = 0
         /\ \A i \in Inodes : i # Root => disk.inode[i].type # "dir"
         /\ disk.data[1][0] = Entry(Root, ".") /\ disk.data[1][1] = Entry(Root, "..")
         /\ \A p \in 0 .. PerBlock - 1 : p \notin {0, 1} => disk.data[1][p] = Empty
<1>0. PICK used \in BOOLEAN :
       LET root == Node("dir", IF used THEN 3 ELSE 2, [NoZones EXCEPT ![0] = 1], 0, 2)
           old  == Node("file", 1, [NoZones EXCEPT ![0] = 1], 1, 1)
       IN disk = [imap  |-> {Root}, zmap |-> {1},
                  inode |-> [i \in Inodes |-> IF i = Root THEN root
                                              ELSE IF used THEN old ELSE Blank],
                  data  |-> [z \in Zones |->
                               IF z = 1 THEN [Zeroes EXCEPT ![0] = Entry(Root, "."),
                                                            ![1] = Entry(Root, "..")]
                               ELSE IF used THEN [p \in DOMAIN Zeroes |-> Entry(Root, "..")]
                               ELSE Zeroes],
                  ptr   |-> [z \in Zones |-> IF used /\ z # 1
                                               THEN [p \in DOMAIN NoPtrs |-> 1]
                                               ELSE NoPtrs]]
  BY DEF Init
<1> DEFINE zone == [NoZones EXCEPT ![0] = 1]
           root == Node("dir", IF used THEN 3 ELSE 2, zone, 0, 2)
           old  == Node("file", 1, zone, 1, 1)
           dots == [Zeroes EXCEPT ![0] = Entry(Root, "."), ![1] = Entry(Root, "..")]
<1>1. /\ disk.imap = {Root} /\ disk.zmap = {1}
      /\ disk.inode = [i \in Inodes |-> IF i = Root THEN root ELSE IF used THEN old ELSE Blank]
      /\ 1 \in Zones => disk.data[1] = dots
  BY <1>0
<1>2. Root \in Inodes /\ 1 \in Zones /\ 0 \in 0 .. ZONE_DIRETTE - 1
      /\ 0 \in 0 .. PerBlock - 1 /\ 1 \in 0 .. PerBlock - 1
  BY Numbers DEF Zones
<1>3. zone[0] = 1 /\ \A n \in 0 .. ZONE_DIRETTE - 1 : n # 0 => zone[n] = 0
  BY <1>2 DEF NoZones
<1>4. dots[0] = Entry(Root, ".") /\ dots[1] = Entry(Root, "..")
      /\ \A p \in 0 .. PerBlock - 1 : p \notin {0, 1} => dots[p] = Empty
  BY <1>2 DEF Zeroes
<1> HIDE DEF zone, dots
<1>5. root.type = "dir" /\ root.size \in {2, 3} /\ root.ind = 0 /\ root.zone = zone
      /\ root.nlinks = 2
      /\ old.type = "file" /\ Blank.type = "none"
  BY DEF Node, Blank
<1> HIDE DEF root, old
<1>6. disk.inode[Root] = root /\ \A i \in Inodes : i # Root => disk.inode[i].type # "dir"
  BY <1>1, <1>2, <1>5
<1>7. cache = Mounted(disk) /\ call = Idle /\ made = {}
  BY DEF Init
<1> QED
  BY <1>1, <1>2, <1>3, <1>4, <1>5, <1>6, <1>7

LEMMA InitTells ==
  ASSUME Init
  PROVE  /\ Live = {Root} /\ Directories = {Root}
         /\ \A t \in Tells : /\ t[1] = Root /\ t[3].ino = Root
                             /\ \/ t[2] = 0 /\ t[3].name = "."
                                \/ t[2] = 1 /\ t[3].name = ".."
         /\ <<Root, 0, Entry(Root, ".")>> \in Tells /\ <<Root, 1, Entry(Root, "..")>> \in Tells
<1>1. /\ disk.imap = {Root} /\ cache = Mounted(disk) /\ call = Idle /\ made = {}
      /\ \A i \in Inodes : i # Root => disk.inode[i].type # "dir"
      /\ disk.data[1][0] = Entry(Root, ".") /\ disk.data[1][1] = Entry(Root, "..")
      /\ \A p \in 0 .. PerBlock - 1 : p \notin {0, 1} => disk.data[1][p] = Empty
  BY InitDisk
<1>2. PICK m : /\ disk.inode[Root] = m /\ m.type = "dir" /\ m.size \in {2, 3} /\ m.ind = 0
               /\ m.zone[0] = 1
               /\ \A n \in 0 .. ZONE_DIRETTE - 1 : n # 0 => m.zone[n] = 0
  BY InitDisk
<1>3. MTypes
  BY InitZones DEF ZInv
<1>4. Directories = {Root}
  BY <1>1, <1>2 DEF Directories
<1>5. \A n \in Nat : n # 0 => ZonaDi(disk, m, n) = 0
  BY <1>2, Numbers DEF ZonaDi
<1>6. ASSUME NEW p \in Nat
      PROVE  /\ p = 0 => EntryAt(Root, p) = Entry(Root, ".")
             /\ p = 1 => EntryAt(Root, p) = Entry(Root, "..")
             /\ p \notin {0, 1} => EntryAt(Root, p) = Empty
  <2>1. PICK q, r : q = p \div PerBlock /\ r = p % PerBlock
    OBVIOUS
  <2>2. q \in Nat /\ r \in 0 .. PerBlock - 1 /\ p = PerBlock * q + r
    BY <2>1, DivMod
  <2>3. EntryAt(Root, p) = LET z == ZonaDi(disk, m, q)
                           IN  IF z = 0 THEN Empty ELSE disk.data[z][r]
    BY <1>2, <2>1 DEF EntryAt, ReadAt
  <2>4. ASSUME p \in {0, 1} PROVE q = 0 /\ r = p
    <3>1. p \in 0 .. PerBlock - 1 /\ p = PerBlock * 0 + p
      BY <2>4, Numbers
    <3> QED
      BY <2>1, <3>1, DivIs
  <2>5. q = 0 => r = p
    BY <2>2, Numbers
  <2>6. CASE q = 0
    <3>1. ZonaDi(disk, m, q) = 1
      BY <1>2, <2>6, Numbers DEF ZonaDi
    <3> QED
      BY <1>1, <2>2, <2>3, <2>5, <2>6, <3>1
  <2>7. CASE q # 0
    <3>1. EntryAt(Root, p) = Empty
      BY <1>5, <2>2, <2>3, <2>7
    <3> QED
      BY <2>4, <2>7, <3>1
  <2> QED
    BY <2>6, <2>7
<1>7. ASSUME NEW t \in Tells
      PROVE  /\ t[1] = Root /\ t = <<t[1], t[2], t[3]>> /\ t[3].ino = Root
             /\ \/ t[2] = 0 /\ t[3].name = "."
                \/ t[2] = 1 /\ t[3].name = ".."
  <2>1. /\ t[1] = Root /\ t[2] \in Nat /\ t[3] = EntryAt(t[1], t[2]) /\ t[3].ino # 0
        /\ t = <<t[1], t[2], EntryAt(t[1], t[2])>>
    BY <1>3, <1>4, TellsFacts DEF TellsOK
  <2>2. Empty.ino = 0
    BY EntryTypes
  <2>3. t[2] \in {0, 1}
    BY <1>6, <2>1, <2>2
  <2> QED
    BY <1>6, <2>1, <2>3, EntryIs
<1>8. Live = {Root}
  BY <1>7, LiveIs
<1>9. ASSUME NEW p \in {0, 1}, NEW e, e = EntryAt(Root, p), e.ino = Root
      PROVE  <<Root, p, e>> \in Tells
  <2>1. p \in Nat /\ p < disk.inode[Root].size /\ Root # 0
    BY <1>2, Numbers DEF Inodes
  <2>2. p \in EntriesOf(Root)
    BY <1>3, <1>9, <2>1, Numbers, TellsFacts DEF TellsOK
  <2> QED
    BY <1>4, <1>9, <2>2, TellsAre
<1>10. \A n : Entry(Root, n).ino = Root
  BY EntryIs
<1> QED
  BY <1>4, <1>6, <1>7, <1>8, <1>9, <1>10

LEMMA InitSound == Init => SInv
<1> SUFFICES ASSUME Init PROVE Sound
  BY DEF SInv
<1>1. /\ disk.imap = {Root} /\ cache = Mounted(disk) /\ call = Idle /\ made = {}
      /\ \A i \in Inodes : i # Root => disk.inode[i].type # "dir"
  BY InitDisk
<1>2. PICK m : disk.inode[Root] = m /\ m.type = "dir"
  BY InitDisk
<1>3. MTypes
  BY InitZones DEF ZInv
<1>4. Directories = {Root}
  BY InitTells
<1>5. ASSUME NEW t \in Tells
      PROVE  /\ t[1] = Root /\ t = <<t[1], t[2], t[3]>> /\ t[3].ino = Root
             /\ \/ t[2] = 0 /\ t[3].name = "."
                \/ t[2] = 1 /\ t[3].name = ".."
  BY <1>3, InitTells, TellsFacts DEF TellsOK
<1>6. Live = {Root}
  BY InitTells
<1>7. Whole
  <2>1. ASSUME NEW t \in Tells, NEW u \in Tells, t # u PROVE t[3].name # u[3].name
    <3>1. /\ \/ t[2] = 0 /\ t[3].name = "."
             \/ t[2] = 1 /\ t[3].name = ".."
          /\ \/ u[2] = 0 /\ u[3].name = "."
             \/ u[2] = 1 /\ u[3].name = ".."
          /\ t = <<Root, t[2], EntryAt(Root, t[2])>> /\ u = <<Root, u[2], EntryAt(Root, u[2])>>
      BY <1>3, <1>5, TellsFacts DEF TellsOK
    <3> QED
      BY <2>1, <3>1
  <2>2. ASSUME NEW t \in Tells PROVE t[3].name \in Dots
    BY <1>5 DEF Dots
  <2>3. Root \in Directories /\ \A t \in Tells : t[3].ino \in disk.imap
                                                 /\ disk.inode[t[3].ino].type # "none"
    BY <1>1, <1>2, <1>4, <1>5
  <2>4. \A i \in Inodes : disk.inode[i].type = "dir" /\ disk.inode[i].size > 0 => i \in Live
    BY <1>1, <1>6
  <2> QED
    BY <2>1, <2>2, <2>3, <2>4 DEF Whole
<1>8. Told
  BY <1>1 DEF Told
<1>9. \A s \in Slots : cache[s].ino # 0 =>
          s = 1 /\ cache[s].ino = Root /\ cache[s].node = disk.inode[Root]
  BY <1>1 DEF Mounted, FreeSlot
<1>10. Saved
  BY <1>1, <1>9 DEF Saved
<1>11. call.at = "idle" /\ call.what = "none"
  BY <1>1 DEF Idle
<1>12. Reached
  BY <1>6, <1>9 DEF Reached
<1>13. Asked /\ Placed /\ Zoned
  BY <1>11, WritingIs DEF Asked, Placed, Zoned
<1> QED
  BY <1>7, <1>8, <1>10, <1>12, <1>13 DEF Sound

LEMMA SavedImplied == ZInv /\ SInv => CreatedIsSaved
  <1> SUFFICES ASSUME ZInv, Sound, faults = 0 PROVE CreatedIsSaved
    BY DEF SInv, CreatedIsSaved, CreatedSurvives, CachedIsSaved
  <1>1. MTypes
    BY DEF ZInv
  <1>2. ASSUME NEW x \in made PROVE \E off \in EntriesOf(x[1]) : EntryAt(x[1], off) = x[2]
    <2>1. PICK t \in Tells : t[1] = x[1] /\ t[3] = x[2]
      BY DEF Sound, Told
    <2> QED
      BY <2>1, TellsAre
  <1>3. CachedIsSaved
    BY DEF CachedIsSaved, Sound, Saved
  <1> QED
    BY <1>2, <1>3 DEF CreatedIsSaved, CreatedSurvives

LEMMA EntriesImplied == ZInv /\ SInv => EntriesSound
  <1> SUFFICES ASSUME Sound, faults = 0,
                      NEW i \in Directories, NEW off \in EntriesOf(i),
                      NEW e, e = EntryAt(i, off)
               PROVE  /\ e.ino \in disk.imap /\ disk.inode[e.ino].type # "none"
                      /\ \A j \in Directories : \A o \in EntriesOf(j) :
                           <<i, off>> # <<j, o>> =>
                             /\ i = j => EntryAt(j, o).name # e.name
                             /\ e.name \notin Dots /\ EntryAt(j, o).name \notin Dots
                                  => EntryAt(j, o).ino # e.ino
    BY DEF SInv, EntriesSound, Dots
  <1>1. <<i, off, e>> \in Tells
    BY TellsAre
  <1>2. e.ino \in disk.imap /\ disk.inode[e.ino].type # "none"
    <2>1. <<i, off, e>>[3] = e
      OBVIOUS
    <2> QED
      BY <1>1, <2>1 DEF Sound, Whole
  <1>3. ASSUME NEW j \in Directories, NEW o \in EntriesOf(j), <<i, off>> # <<j, o>>,
               NEW g, g = EntryAt(j, o)
        PROVE  /\ i = j => g.name # e.name
               /\ e.name \notin Dots /\ g.name \notin Dots => g.ino # e.ino
    <2>1. <<j, o, g>> \in Tells
      BY <1>3, TellsAre
    <2>2. PICK t \in Tells, u \in Tells : t = <<i, off, e>> /\ u = <<j, o, g>>
      BY <1>1, <2>1
    <2>3. t # u /\ t[1] = i /\ u[1] = j /\ t[3] = e /\ u[3] = g
      BY <1>3, <2>2
    <2> QED
      BY <2>2, <2>3 DEF Sound, Whole
  <1> QED
    BY <1>2, <1>3

-----------------------------------------------------------------------------
(* What is read through the cache, from one state to the next.               *)

(* A slot keeps its inode until it is free.                                  *)
Keeps == \A s \in Slots : cache[s].ino # 0 /\ cache'[s].ino # 0 => cache'[s].ino = cache[s].ino

LEMMA KeepsMost ==
  ASSUME MTypes
  PROVE  /\ cache' = cache => Keeps
         /\ \A s, m : cache' = [cache EXCEPT ![s].node = m] => Keeps
         /\ \A s, e : s \in FreeSlots /\ cache' = [cache EXCEPT ![s] = e] => Keeps
         /\ \A s : cache' = [cache EXCEPT ![s] = FreeSlot] => Keeps
  <1>1. cache \in [Slots -> [ino : 0 .. NInodes, node : Nodes]]
    BY DEF MTypes
  <1>2. ASSUME NEW s, NEW m, cache' = [cache EXCEPT ![s].node = m] PROVE Keeps
    BY <1>1, <1>2 DEF Keeps
  <1>3. ASSUME NEW s, NEW e, s \in FreeSlots, cache' = [cache EXCEPT ![s] = e] PROVE Keeps
    BY <1>1, <1>3 DEF Keeps, FreeSlots
  <1>4. ASSUME NEW s, cache' = [cache EXCEPT ![s] = FreeSlot] PROVE Keeps
    BY <1>1, <1>4 DEF Keeps, FreeSlot
  <1> QED
    BY <1>2, <1>3, <1>4 DEF Keeps

LEMMA SlotsKeep ==
  ASSUME ZInv, Next, crashes' = crashes
  PROVE  Keeps
  <1>1. MTypes
    BY DEF ZInv
  <1>2. FreeSlots # {} => Min(FreeSlots) \in FreeSlots
    <2>1. FreeSlots \in SUBSET Nat
      BY DEF FreeSlots, Slots
    <2> QED
      BY <2>1, MinExists
  <1>3. CASE Begin
    <2>1. ASSUME NEW s, NEW n, Lookup(s, n) PROVE Keeps
      <3>1. PICK f, e : f = Min(FreeSlots) /\ cache' = [cache EXCEPT ![f] = e] /\ FreeSlots # {}
        BY <2>1 DEF Lookup
      <3> QED
        BY <1>1, <1>2, <3>1, KeepsMost
    <2>2. ASSUME NEW s, NEW n, NEW t, Create(s, n, t) \/ WriteFile(s, n, t) PROVE Keeps
      <3>1. cache' = cache
        BY <2>2 DEF Create, WriteFile
      <3> QED
        BY <1>1, <3>1, KeepsMost
    <2> QED
      BY <1>3, <2>1, <2>2, Zenon DEF Begin
  <1>4. CASE CreateStep
    <2>1. CASE ScriviNuovo
      <3>1. FreeSlots # {}
        BY <1>1, <2>1 DEF MTypes, ScriviNuovo
      <3>2. PICK f : f = Min(FreeSlots)
        OBVIOUS
      <3>3. cache' = cache \/ \E e : cache' = [cache EXCEPT ![f] = e]
        BY <2>1, <3>2 DEF ScriviNuovo, Rewrite
      <3> QED
        BY <1>1, <1>2, <3>1, <3>2, <3>3, KeepsMost
    <2>2. CASE Undo
      <3>1. \E s : cache' = [cache EXCEPT ![s] = FreeSlot]
        BY <2>2 DEF Undo
      <3> QED
        BY <1>1, <3>1, KeepsMost
    <2>3. CASE ParentLinks
      <3>1. \E s, m : cache' = [cache EXCEPT ![s].node = m]
        BY <2>3 DEF ParentLinks
      <3> QED
        BY <1>1, <3>1, KeepsMost
    <2>4. CASE InodeFull \/ AccendiInode \/ AzzeraInode \/ DirentInserisci
      <3>1. cache' = cache
        BY <2>4 DEF InodeFull, AccendiInode, AzzeraInode, DirentInserisci
      <3> QED
        BY <1>1, <3>1, KeepsMost
    <2> QED
      BY <1>4, <2>1, <2>2, <2>3, <2>4 DEF CreateStep
  <1>5. CASE WriteStep
    <2>1. CASE AssignDirect \/ AssignIndirectBlock \/ Grow
      <3>1. \E s, m : cache' = [cache EXCEPT ![s].node = m]
        BY <2>1 DEF AssignDirect, AssignIndirectBlock, Grow, Save
      <3> QED
        BY <1>1, <3>1, KeepsMost
    <2>2. CASE \/ FindZone \/ ZonesFull \/ AccendiZona \/ AzzeraZona \/ NeedIndirect
               \/ AssignIndirect \/ TooFar \/ WriteBlock
      <3>1. cache' = cache
        BY <2>2 DEF FindZone, ZonesFull, AccendiZona, AzzeraZona, NeedIndirect, AssignIndirect,
                    TooFar, WriteBlock
      <3> QED
        BY <1>1, <3>1, KeepsMost
    <2> QED
      BY <1>5, <2>1, <2>2 DEF WriteStep
  <1>6. ~Crash
    <2>1. crashes \in Nat
      BY <1>1, Numbers DEF MTypes
    <2> QED
      BY <2>1 DEF Crash
  <1> QED
    BY <1>3, <1>4, <1>5, <1>6 DEF Next

(* Only a block written changes what is read.                                *)
LEMMA NextSeen ==
  ASSUME ZInv, ZInv', Sound, faults = 0, faults' = 0, crashes' = crashes, Next, ~WriteBlock
  PROVE  Seen /\ call.at # "data"
  <1>1. CASE Begin
    <2>1. call.at = "idle"
      <3>1. ASSUME NEW s, NEW n, Lookup(s, n) PROVE call.at = "idle"
        BY <3>1 DEF Lookup
      <3>2. ASSUME NEW s, NEW n, NEW t, Create(s, n, t) \/ WriteFile(s, n, t)
            PROVE  call.at = "idle"
        BY <3>2 DEF Create, WriteFile
      <3> QED
        BY <1>1, <3>1, <3>2, Zenon DEF Begin
    <2> QED
      BY <1>1, <2>1, LookupSound, CreateSound, WriteFileSound DEF Begin
  <1>2. CASE CreateStep
    <2>1. call.at # "data"
      BY <1>2 DEF CreateStep, InodeFull, AccendiInode, AzzeraInode, ScriviNuovo,
                  DirentInserisci, Undo, ParentLinks
    <2> QED
      BY <1>2, <2>1, InodeFullSound, AccendiInodeSound, AzzeraInodeSound,
         ScriviNuovoSound, DirentInserisciSound, UndoSound, ParentLinksSound DEF CreateStep
  <1>3. CASE WriteStep
    <2>1. call.at # "data"
      BY <1>3 DEF WriteStep, FindZone, ZonesFull, AccendiZona, AzzeraZona, AssignDirect,
                  NeedIndirect, AssignIndirectBlock, AssignIndirect, TooFar, Grow
    <2>2. CASE Grow
      BY <2>1, <2>2, GrowSound DEF Seen
    <2>3. CASE ~Grow
      <3>1. Calm \/ Seen
        BY <1>3, <2>3, FindZoneSound, ZonesFullSound, AccendiZonaSound, AzzeraZonaSound,
           AssignDirectSound, NeedIndirectSound, AssignIndirectBlockSound,
           AssignIndirectSound DEF WriteStep
      <3> QED
        BY <2>1, <3>1, CalmSeen
    <2> QED
      BY <2>2, <2>3
  <1>4. ~Crash
    <2>1. crashes \in Nat
      BY Numbers DEF ZInv, MTypes
    <2> QED
      BY <2>1 DEF Crash
  <1> QED
    BY <1>1, <1>2, <1>3, <1>4 DEF Next

(* The places a write of one block is for.                                   *)
LEMMA SpanIs ==
  ASSUME CallOK(call), call.at = "data", NEW p \in Nat
  PROVE  p \in call.off .. call.off + Span - 1 <=>
           /\ p \div PerBlock = Logical
           /\ p \in call.off .. call.off + call.n - call.done - 1
  <1>1. PICK o, f, room, left : /\ o = call.off /\ f = o % PerBlock
                                /\ room = PerBlock - f /\ left = call.n - call.done
    OBVIOUS
  <1>2. /\ o \in Nat /\ f \in 0 .. PerBlock - 1 /\ room \in Nat /\ left \in Nat
    <2>1. o \in Nat /\ left \in Nat
      BY <1>1 DEF CallOK, Calls
    <2>2. f \in 0 .. PerBlock - 1
      BY <1>1, <2>1, DivMod
    <2> QED
      BY <1>1, <2>1, <2>2, Numbers
  <1>3. Span = IF room < left THEN room ELSE left
    BY <1>1 DEF Span
  <1>4. p \in o .. o + room - 1 <=>
           p \div PerBlock = o \div PerBlock /\ p % PerBlock \in f .. f + room - 1
    BY <1>1, <1>2, SpanPlaces
  <1>5. p \div PerBlock = o \div PerBlock /\ p >= o => p % PerBlock \in f .. f + room - 1
    <2>1. PICK q, b, x, y : q = o \div PerBlock /\ b = PerBlock * q
                            /\ x = p \div PerBlock /\ y = p % PerBlock
      OBVIOUS
    <2>2. /\ y \in 0 .. PerBlock - 1 /\ p = PerBlock * x + y /\ o = b + f /\ x \in Nat /\ q \in Nat
      BY <1>1, <1>2, <2>1, DivMod
    <2>3. b \in Nat
      BY <2>1, <2>2, Numbers
    <2>4. ASSUME x = q, p >= o PROVE y \in f .. f + room - 1
      <3>1. p = b + y /\ o = b + f
        BY <2>1, <2>2, <2>4
      <3>2. PICK k \in Nat : k = PerBlock
        BY Numbers
      <3> QED
        BY <1>1, <1>2, <2>2, <2>3, <2>4, <3>1, <3>2
    <2> QED
      BY <2>1, <2>4
  <1>6. Logical = o \div PerBlock
    BY <1>1 DEF Logical
  <1>7. call.off + call.n - call.done - 1 = o + left - 1
    BY <1>1, <1>2 DEF CallOK, Calls
  <1> QED
    BY <1>1, <1>2, <1>3, <1>4, <1>5, <1>6, <1>7

LEMMA WriteBlockSeen ==
  ASSUME ZInv, ZInv', Sound, faults = 0, faults' = 0, WriteBlock,
         NEW s \in Slots, cache[s].ino # 0, NEW i, i = cache[s].ino, NEW p \in Nat
  PROVE  EntryAt(i, p)' = IF BeingWritten(s, p) THEN NewEntry ELSE EntryAt(i, p)
  <1>0. PICK t, e : t = Target.ino /\ e = NewEntry
    OBVIOUS
  <1>1. /\ call.at = "data" /\ call.at \in Writing /\ CallOK(call) /\ MTypes /\ Saved
        /\ disk' = [disk EXCEPT !.data[call.z] = Written(@)]
    BY WritingIs DEF WriteBlock, Rewrite, Fault, ZInv, MTypes, Sound
  <1>2. i \in Known
    BY <1>1, CopiesType
  <1>3. EntryAt(i, p)' = IF i = t /\ p \in call.off .. call.off + Span - 1 THEN e ELSE EntryAt(i, p)
    BY <1>0, <1>1, <1>2, WriteReads
  <1>4. i = t <=> s = call.slot
    <2>1. call.slot \in Slots /\ t = cache[call.slot].ino
      BY <1>0, <1>1, Aim
    <2> QED
      BY <1>1, <2>1 DEF Saved
  <1>5. BeingWritten(s, p) <=> s = call.slot /\ p \in call.off .. call.off + Span - 1
    BY <1>1, SpanIs DEF BeingWritten
  <1> QED
    BY <1>0, <1>3, <1>4, <1>5

LEMMA OnlyTarget ==
  ASSUME ZInv, SInv, Next, faults' = 0, crashes' = crashes,
         NEW s \in Slots, cache[s].ino # 0, cache'[s].ino # 0, NEW p \in 0 .. MaxSize - 1
  PROVE  ReadAt(disk', cache'[s].node, p) =
           IF BeingWritten(s, p) THEN NewEntry ELSE ReadAt(disk, cache[s].node, p)
  <1>1. ZInv' /\ SInv'
    BY NextZones, NextSound
  <1>2. faults = 0 /\ Sound /\ Sound' /\ MTypes
    <2>1. MTypes /\ faults \in Nat
      BY Numbers DEF ZInv, MTypes
    <2> QED
      BY <1>1, <2>1, FaultsGrow DEF SInv
  <1>3. PICK i : i = cache[s].ino
    OBVIOUS
  <1>4. cache'[s].ino = i
    BY <1>3, SlotsKeep DEF Keeps
  <1>5. cache[s].node = disk.inode[i] /\ cache'[s].node = disk'.inode[i]
    BY <1>2, <1>3, <1>4 DEF Sound, Saved
  <1>6. EntryAt(i, p) = ReadAt(disk, cache[s].node, p)
        /\ EntryAt(i, p)' = ReadAt(disk', cache'[s].node, p)
    BY <1>5 DEF EntryAt
  <1>7. p \in Nat
    BY Numbers
  <1>8. CASE WriteBlock
    <2>1. EntryAt(i, p)' = IF BeingWritten(s, p) THEN NewEntry ELSE EntryAt(i, p)
      BY <1>1, <1>2, <1>3, <1>7, <1>8, WriteBlockSeen
    <2> QED
      BY <1>6, <2>1
  <1>9. CASE ~WriteBlock
    <2>1. Seen /\ call.at # "data"
      BY <1>1, <1>2, <1>9, NextSeen
    <2>2. i \in Known /\ Cached(i)
      BY <1>2, <1>3, CopiesType DEF Cached
    <2>3. EntryAt(i, p)' = EntryAt(i, p)
      BY <1>7, <2>1, <2>2 DEF Seen
    <2> QED
      BY <1>6, <2>1, <2>3 DEF BeingWritten
  <1> QED
    BY <1>8, <1>9

(* While no read or write fails, what create has answered for is on the disk, *)
(* and between two calls the cache holds nothing the disk does not           *)
(* (minixfs.c:452-473, 909-940).                                             *)
THEOREM MinixFsCreatedIsSaved == Spec => []CreatedIsSaved
<1>1. Spec => [](ZInv /\ SInv)
  BY InitZones, NextZones, InitSound, NextSound, PTL DEF Spec
<1> QED
  BY <1>1, SavedImplied, PTL

(* Through the cache a file reads otherwise only where it is being written,  *)
(* and no other file notices (minixfs.c:710-861, 959-1055).                  *)
THEOREM MinixFsOnlyTargetChanges == Spec => OnlyTargetChanges
<1>1. Spec => [](ZInv /\ SInv)
  BY InitZones, NextZones, InitSound, NextSound, PTL DEF Spec
<1>2. ZInv /\ SInv /\ Next =>
        (faults' = 0 /\ crashes' = crashes =>
           \A s \in Slots : cache[s].ino # 0 /\ cache'[s].ino # 0 =>
             \A p \in 0 .. MaxSize - 1 :
               ReadAt(disk', cache'[s].node, p) =
                 IF BeingWritten(s, p) THEN NewEntry ELSE ReadAt(disk, cache[s].node, p))
  BY OnlyTarget
<1> QED
  BY <1>1, <1>2, PTL DEF Spec, OnlyTargetChanges

-----------------------------------------------------------------------------
(* What fsck would count, while no read or write fails and the machine stays *)
(* on.                                                                       *)

(* A bit of an inode belongs to an entry, or to the inode a call has         *)
(* allocated and not entered yet.                                            *)
Allotted == (IF call.at \in {"erase", "inode"} THEN {call.bit} ELSE {})
            \union (IF call.what = "entry" THEN {Child} ELSE {})
Bits == disk.imap = Live \union Allotted

(* A bit of a zone belongs to a place of a file, was lost, or is of a zone   *)
(* on its way to one.                                                        *)
Used == {z \in Zones : \E i \in Live, n \in PlaceNos : PlaceHolds(disk.ptr, disk.inode[i], n, z)}
Pending ==
  (IF call.at \in {"zero", "assign"} \/ (call.at = "zmap" /\ call.indirect)
     THEN {call.z} ELSE {})
  \union (IF call.at \in {"zero", "assign"} /\ call.indirect THEN {call.ind} ELSE {})
Spaces ==
  /\ disk.zmap = Used \union lost \union Pending
  /\ call.z # 0 => call.z \in disk.zmap

(* The links of an inode are its names, but for those a create has still to  *)
(* write or to count.                                                        *)
NamesOf(i) == {<<t[1], t[2]>> : t \in {u \in Tells : u[3].ino = i}}
One(b) == IF b THEN 1 ELSE 0
Links ==
  /\ half \subseteq Live
  /\ call.what = "dot" => Child \notin half
  /\ \A i \in Live :
       disk.inode[i].nlinks + One(call.at = "links" /\ i = Parent) =
         Cardinality(NamesOf(i)) + One(i \in half) + One(call.what = "dot" /\ i = Child)

(* The inode being entered is as it was born, and its ".." finds the block   *)
(* that its "." was given.                                                   *)
Newborn ==
  /\ call.what = "entry" => disk.inode[Child] = NewNode(call.type)
  /\ call.what = "dot" /\ call.at = "size" => disk.inode[Child].zone[0] # 0
  /\ call.what = "dotdot" /\ call.at # "links" =>
       /\ call.at \in {"insert", "block", "data", "size"}
       /\ disk.inode[Child].size = 1 /\ disk.inode[Child].zone[0] # 0

Books == Bits /\ Spaces /\ Links /\ Newborn
AInv == faults = 0 /\ crashes = 0 => Books

-----------------------------------------------------------------------------
(* Counting.                                                                 *)

LEMMA OneIs == \A b : One(b) = IF b THEN 1 ELSE 0
  BY DEF One

LEMMA NamesFinite == MTypes => \A i : IsFiniteSet(NamesOf(i)) /\ Cardinality(NamesOf(i)) \in Nat
<1> SUFFICES ASSUME MTypes, NEW i
             PROVE  IsFiniteSet(NamesOf(i)) /\ Cardinality(NamesOf(i)) \in Nat
  OBVIOUS
<1>1. /\ MaxSize \in Nat /\ NInodes \in Nat /\ \A j \in Inodes : disk.inode[j].size <= MaxSize
      /\ \A j \in Inodes : disk.inode[j].size \in Nat
  BY Numbers DEF MTypes, Disks, Nodes
<1>2. NamesOf(i) \subseteq Inodes \X (0 .. MaxSize)
  <2>1. \A t \in Tells : t[1] \in Inodes /\ t[2] \in 0 .. MaxSize
    BY <1>1, TellsFacts DEF TellsOK
  <2> QED
    BY <2>1 DEF NamesOf
<1>3. IsFiniteSet(Inodes \X (0 .. MaxSize))
  <2>1. IsFiniteSet(1 .. NInodes) /\ IsFiniteSet(0 .. MaxSize)
    <3>1. NInodes \in Int /\ MaxSize \in Int
      BY <1>1
    <3> HIDE DEF MaxSize
    <3> QED
      BY <3>1, FS_Interval
  <2> HIDE DEF MaxSize
  <2> QED
    BY <2>1, FS_Product DEF Inodes
<1>4. IsFiniteSet(NamesOf(i))
  BY <1>2, <1>3, FS_Subset
<1> QED
  BY <1>4, FS_CardinalityType

(* A name more.                                                              *)
LEMMA NamesMore ==
  ASSUME MTypes, NEW d, NEW off, NEW e, Tells' = Tells \union {<<d, off, e>>},
         \A t \in Tells : ~(t[1] = d /\ t[2] = off), NEW i
  PROVE  /\ Cardinality(NamesOf(i)) \in Nat
         /\ Cardinality(NamesOf(i)') = Cardinality(NamesOf(i)) + One(i = e.ino)
  <1>1. <<d, off, e>>[1] = d /\ <<d, off, e>>[2] = off /\ <<d, off, e>>[3] = e
    OBVIOUS
  <1>2. IsFiniteSet(NamesOf(i)) /\ Cardinality(NamesOf(i)) \in Nat
    BY NamesFinite
  <1>3. CASE i = e.ino
    <2>1. NamesOf(i)' = NamesOf(i) \union {<<d, off>>}
      <3>1. {u \in Tells' : u[3].ino = i} = {u \in Tells : u[3].ino = i} \union {<<d, off, e>>}
        BY <1>1, <1>3
      <3> QED
        BY <1>1, <3>1 DEF NamesOf
    <2>2. <<d, off>> \notin NamesOf(i)
      BY DEF NamesOf
    <2> QED
      BY <1>2, <1>3, <2>1, <2>2, FS_AddElement DEF One
  <1>4. CASE i # e.ino
    <2>1. {u \in Tells' : u[3].ino = i} = {u \in Tells : u[3].ino = i}
      BY <1>1, <1>4
    <2>2. NamesOf(i)' = NamesOf(i)
      BY <2>1 DEF NamesOf
    <2> QED
      BY <1>2, <1>4, <2>2 DEF One
  <1> QED
    BY <1>3, <1>4

LEMMA NamesNone ==
  ASSUME MTypes, NEW i, i \notin Live
  PROVE  Cardinality(NamesOf(i)) = 0
  <1>1. \A t \in Tells : t[3].ino # i
    BY TellsFacts DEF TellsOK
  <1>2. NamesOf(i) = {}
    BY <1>1 DEF NamesOf
  <1> QED
    BY <1>2, FS_EmptySet

LEMMA LinksNat ==
  ASSUME MTypes, NEW i \in Live
  PROVE  disk.inode[i].nlinks \in Nat
  <1>1. disk.inode[i] \in Nodes
    BY TellsFacts DEF TellsOK
  <1> QED
    BY <1>1, Numbers DEF Nodes

LEMMA LinksKept ==
  ASSUME Links, Tells' = Tells, Live' = Live, half' = half,
         \A i \in Live : disk'.inode[i].nlinks = disk.inode[i].nlinks,
         call.at # "links", call'.at # "links",
         \/ call.what # "dot" /\ call'.what # "dot"
         \/ call.what = call'.what /\ Child' = Child
  PROVE  Links'
  <1>1. \A i : NamesOf(i)' = NamesOf(i)
    BY DEF NamesOf
  <1> QED
    BY <1>1 DEF Links, One

-----------------------------------------------------------------------------
(* Zones.                                                                    *)

ZonesCounted == Used \subseteq disk.zmap /\ Pending \subseteq disk.zmap
LEMMA UsedMarked == ZInv => ZonesCounted
<1> SUFFICES ASSUME ZInv PROVE ZonesCounted
  OBVIOUS
<1>1. ASSUME NEW z \in Used PROVE z \in disk.zmap
  <2>1. PICK i \in Live, n \in PlaceNos : PlaceHolds(disk.ptr, disk.inode[i], n, z)
    BY <1>1 DEF Used
  <2>2. i \in Known /\ i \in Inodes /\ z \in Zones
    BY <1>1, TellsFacts DEF TellsOK, ZInv, Used
  <2>3. <<i, disk.inode[i]>> \in Copies
    BY <2>2 DEF Copies
  <2>4. <<i, n, z>> \in Refs
    BY <2>1, <2>2, <2>3 DEF Refs
  <2> QED
    BY <2>4 DEF ZInv, Marked
<1>2. Pending \subseteq disk.zmap
  BY DEF ZInv, InFlight, Fresh, Pending
<1> QED
  BY <1>1, <1>2 DEF ZonesCounted

LEMMA UsedMarkedNext == ZInv' => ZonesCounted'
  BY UsedMarked, PTL

LEMMA SpacesStep ==
  ASSUME ZInv', Spaces, Remember, disk.zmap \subseteq disk'.zmap,
         disk'.zmap \subseteq disk.zmap \union Pending', Used \subseteq Used',
         Pending \subseteq Pending' \union lost' \union Used',
         call'.z # 0 => call'.z \in disk'.zmap
  PROVE  Spaces'
  <1>1. lost \subseteq lost' /\ lost' \subseteq lost \union {z \in {call.z} : z # 0}
    BY DEF Remember, Assigning
  <1>2. Used' \subseteq disk'.zmap /\ Pending' \subseteq disk'.zmap
    BY UsedMarkedNext DEF ZonesCounted
  <1> QED
    BY <1>1, <1>2 DEF Spaces

LEMMA UsedStays ==
  ASSUME Live \subseteq Live',
         \A i \in Live : \A n \in PlaceNos, z \in Zones :
           PlaceHolds(disk.ptr, disk.inode[i], n, z) => PlaceHolds(disk'.ptr, disk'.inode[i], n, z)
  PROVE  Used \subseteq Used'
  BY DEF Used

LEMMA UsedSame ==
  ASSUME Live \subseteq Live', disk'.ptr = disk.ptr,
         \A i \in Live : /\ disk'.inode[i].zone = disk.inode[i].zone
                         /\ disk'.inode[i].ind = disk.inode[i].ind
  PROVE  Used \subseteq Used'
  <1>1. \A i \in Live : \A n \in PlaceNos, z \in Zones :
          PlaceHolds(disk.ptr, disk.inode[i], n, z) => PlaceHolds(disk'.ptr, disk'.inode[i], n, z)
    BY DEF PlaceHolds
  <1> QED
    BY <1>1, UsedStays

(* A call that takes no zone leaves the books of them as they are.           *)
LEMMA SpacesRest ==
  ASSUME ZInv', Spaces, Remember, disk'.zmap = disk.zmap, Used \subseteq Used',
         call.at \notin {"zmap", "zero", "assign"}, call'.z \in {0, call.z}
  PROVE  Spaces'
  <1>1. Pending = {}
    BY DEF Pending
  <1>2. call'.z # 0 => call'.z \in disk'.zmap
    BY DEF Spaces
  <1> QED
    BY <1>1, <1>2, SpacesStep

-----------------------------------------------------------------------------
(* The steps of a write on the way to a block.                               *)

LEMMA TargetLive ==
  ASSUME ZInv, Sound, call.at \in Writing
  PROVE  Target.ino \in Live /\ Target.ino \in Inodes /\ Held \in Nodes
  <1>1. /\ call.slot \in Slots /\ Target.ino = cache[call.slot].ino /\ Target.ino # 0
        /\ Target.ino \in Inodes /\ Held \in Nodes
    BY Aim DEF Sound
  <1>2. call.what = "entry" => call.slot # call.new
    BY <1>1, WritingIs DEF Sound, Asked, Placed, Where, Parent, Child
  <1> QED
    BY <1>1, <1>2 DEF Sound, Reached

LEMMA ChildSlot ==
  ASSUME ZInv, Sound, call.what \in Entering
  PROVE  /\ call.dir \in Slots /\ call.new \in Slots /\ Child \in Inodes /\ Parent \in Inodes
         /\ Child # 0 /\ Parent # 0 /\ disk.inode[Child] \in Nodes /\ Parent \in Live
         /\ Child \in Known /\ Parent \in Known
  <1>1. MTypes /\ CallOK(call) /\ call.dir \in Slots /\ call.new \in Slots
    BY DEF ZInv, MTypes, CallOK
  <1>2. Child # 0 /\ Parent # 0
    BY DEF ZInv, SlotsOK, Child, Parent
  <1>3. \A s \in Slots : cache[s].ino # 0 => cache[s].ino \in Inodes /\ cache[s].ino \in Known
    <2>1. \A s \in Slots : cache[s].ino # 0 => cache[s].ino \in Known
      BY <1>1, CopiesType
    <2> QED
      BY <2>1 DEF Known
  <1>4. Child \in Inodes /\ Parent \in Inodes /\ Child \in Known /\ Parent \in Known
    BY <1>1, <1>2, <1>3 DEF Child, Parent
  <1>5. disk.inode[Child] \in Nodes
    BY <1>1, <1>4 DEF MTypes, Disks
  <1>6. Parent \in Live
    <2>1. CASE call.what = "entry"
      <3>1. call.dir # call.new
        BY <2>1 DEF Sound, Asked, Parent, Child
      <3> QED
        BY <1>1, <1>2, <3>1 DEF Sound, Reached, Parent
    <2>2. CASE call.what # "entry"
      BY <1>1, <1>2, <2>2 DEF Sound, Reached, Parent
    <2> QED
      BY <2>1, <2>2
  <1> QED
    BY <1>1, <1>2, <1>4, <1>5, <1>6

LEMMA ParentKept ==
  ASSUME ZInv, Sound, call.what \in Entering, call'.dir = call.dir, call'.new = call.new,
         \A s \in Slots : cache'[s].ino = cache[s].ino
  PROVE  Parent' = Parent /\ Child' = Child
  BY ChildSlot DEF Parent, Child

LEMMA BooksOnward ==
  ASSUME ZInv, ZInv', Sound, Books, SamePlace, Calm, Remember,
         call.at \in Writing \ {"size"}, call'.at \in Writing \ {"size"},
         \A s \in Slots : cache'[s].ino = cache[s].ino,
         \A i \in Inodes : disk'.inode[i].nlinks = disk.inode[i].nlinks,
         \A i \in Inodes : i # Target.ino => disk'.inode[i] = disk.inode[i],
         call.what = "dotdot" => call'.at \in {"block", "data"} /\ disk'.inode = disk.inode
  PROVE  Bits' /\ Links' /\ Newborn'
  <1>1. Tells' = Tells /\ Live' = Live /\ MTypes /\ Live \subseteq Inodes
    BY CalmTells, TellsFacts DEF ZInv, Sound, TellsOK
  <1>2. /\ call.at \notin {"idle", "erase", "inode", "insert", "undo", "links", "size"}
        /\ call'.at \notin {"idle", "erase", "inode", "insert", "undo", "links", "size"}
    BY WritingIs
  <1>3. call.what \in Entering => Child' = Child /\ Child \in Inodes
    BY ChildSlot, ParentKept DEF SamePlace
  <1>4. Bits'
    <2>1. Allotted' = Allotted
      BY <1>2, <1>3, WritingIs DEF Allotted, SamePlace
    <2> QED
      BY <1>1, <2>1 DEF Books, Bits, Calm
  <1>5. half' = half
    BY <1>2 DEF Remember
  <1>6. Links'
    BY <1>1, <1>2, <1>3, <1>5, WritingIs, LinksKept DEF Books, SamePlace
  <1>7. call.what = "entry" => Child # Target.ino
    BY TargetLive, WritingIs DEF Sound, Asked
  <1>8. Newborn'
    BY <1>2, <1>3, <1>7, WritingIs DEF Books, Newborn, SamePlace
  <1> QED
    BY <1>4, <1>6, <1>8

(* The "." and the ".." of a directory are in its first block.               *)
LEMMA FirstBlock ==
  ASSUME ZInv, Sound, call.at \in Writing \ {"size"}, call.what \in {"dot", "dotdot"},
         disk.inode[Child].size \in {0, 1}
  PROVE  Target.ino = Child /\ ZonaDi(disk, Held, Logical) = disk.inode[Child].zone[0]
  <1>1. call.slot = call.new /\ call.off <= Held.size /\ call.at \in Writing
    BY WritingIs DEF Sound, Placed, Where
  <1>2. Target.ino = Child /\ Held = disk.inode[Child]
    BY <1>1 DEF Target, Child, Held
  <1>3. call.off \in Nat
    BY <1>1, Aim DEF Sound
  <1>4. call.off \in 0 .. PerBlock - 1 /\ PerBlock \in Nat /\ PerBlock > 0
    BY <1>1, <1>2, <1>3, Numbers
  <1>5. Logical = 0
    <2>1. PICK o : o = call.off
      OBVIOUS
    <2>2. o \in Nat /\ o = PerBlock * 0 + o
      BY <1>3, <1>4, <2>1
    <2>3. o \div PerBlock = 0
      BY <1>4, <2>1, <2>2, DivIs
    <2> QED
      BY <2>1, <2>3 DEF Logical
  <1> QED
    BY <1>2, <1>5, Numbers DEF ZonaDi

LEMMA FindZoneBooks ==
  ASSUME ZInv, ZInv', Sound, Books, faults = 0, faults' = 0, FindZone
  PROVE  Books'
  <1>1. PICK z : z = ZonaDi(disk, Target.node, Logical)
    OBVIOUS
  <1>2. /\ call.at = "block" /\ disk' = disk /\ cache' = cache /\ Remember
        /\ call' = IF z = 0 THEN [call EXCEPT !.at = "zmap", !.indirect = FALSE]
                            ELSE [call EXCEPT !.at = "data", !.z = z]
    BY <1>1 DEF FindZone, Fault, Goes
  <1>3. call \in Calls /\ MTypes
    BY DEF ZInv, MTypes, CallOK
  <1>4. SamePlace
    BY <1>2, <1>3 DEF SamePlace, Calls
  <1>5. \/ z = 0 /\ call'.at = "zmap" /\ call'.indirect = FALSE /\ call'.z = call.z
        \/ z # 0 /\ call'.at = "data" /\ call'.z = z
    BY <1>2, <1>3 DEF Calls
  <1>6. call.at \in Writing /\ call.at \in Writing \ {"size"} /\ call'.at \in Writing \ {"size"}
    BY <1>2, <1>5, WritingIs
  <1>7. /\ Target.node = Held /\ Held = disk.inode[Target.ino] /\ Target.ino \in Known
        /\ Logical \in Nat
    BY <1>6, Aim DEF Sound, Held
  <1>8. call.what = "dotdot" => call'.at \in {"block", "data"} /\ disk'.inode = disk.inode
    BY <1>1, <1>2, <1>5, <1>6, <1>7, FirstBlock DEF Books, Newborn
  <1>9. Bits' /\ Links' /\ Newborn'
    BY <1>2, <1>4, <1>6, <1>8, BooksOnward, CalmStill
  <1>10. z # 0 => z \in disk.zmap
    <2>1. z # 0 => <<Target.ino, Logical, z>> \in Refs
      BY <1>1, <1>3, <1>7, HeldZones
    <2>2. \A i, n : <<i, n, z>>[3] = z
      OBVIOUS
    <2> QED
      BY <2>1, <2>2 DEF ZInv, Marked
  <1>11. Spaces'
    <2>1. Used' = Used
      BY <1>2 DEF Used, Live, Directories, EntriesOf, EntryAt
    <2>2. Pending = {}
      BY <1>2 DEF Pending
    <2>3. call'.z # 0 => call'.z \in disk'.zmap
      BY <1>2, <1>5, <1>10 DEF Books, Spaces
    <2> QED
      BY <1>2, <2>1, <2>2, <2>3, SpacesStep DEF Books
  <1> QED
    BY <1>9, <1>11 DEF Books

LEMMA NeedIndirectBooks ==
  ASSUME ZInv, ZInv', Sound, Books, NeedIndirect
  PROVE  Books'
  <1>1. /\ call.at = "assign" /\ disk' = disk /\ cache' = cache /\ Remember
        /\ Target.node.ind = 0 /\ ~call.indirect
        /\ call' = [call EXCEPT !.at = "zmap", !.indirect = TRUE]
    BY DEF NeedIndirect, Goes
  <1>2. call \in Calls /\ MTypes
    BY DEF ZInv, MTypes, CallOK
  <1>3. SamePlace /\ call'.at = "zmap" /\ call'.indirect = TRUE /\ call'.z = call.z
    BY <1>1, <1>2 DEF SamePlace, Calls
  <1>4. call.at \in Writing \ {"size"} /\ call'.at \in Writing \ {"size"}
    BY <1>1, <1>3, WritingIs
  <1>5. call.what # "dotdot"
    BY <1>1 DEF Books, Newborn
  <1>6. Bits' /\ Links' /\ Newborn'
    BY <1>1, <1>3, <1>4, <1>5, BooksOnward, CalmStill
  <1>7. Spaces'
    <2>1. Used' = Used
      BY <1>1 DEF Used, Live, Directories, EntriesOf, EntryAt
    <2>2. Pending = {call.z} /\ Pending' = {call.z}
      BY <1>1, <1>3 DEF Pending
    <2> QED
      BY <1>1, <1>3, <2>1, <2>2, SpacesStep DEF Books, Spaces
  <1> QED
    BY <1>6, <1>7 DEF Books

LEMMA AccendiZonaBooks ==
  ASSUME ZInv, ZInv', Sound, Books, Calm, faults = 0, faults' = 0, AccendiZona
  PROVE  Books'
  <1>1. PICK z : z = Min(FreeZones)
    OBVIOUS
  <1>2. /\ call.at = "zmap" /\ disk' = [disk EXCEPT !.zmap = @ \union {z}] /\ cache' = cache
        /\ Remember
        /\ \/ call.indirect /\ call' = [call EXCEPT !.at = "zero", !.ind = z]
           \/ ~call.indirect /\ call' = [call EXCEPT !.at = "zero", !.z = z]
    BY <1>1 DEF AccendiZona, Rewrite, Fault, Goes
  <1>3. call \in Calls /\ MTypes /\ disk \in Disks /\ call.indirect \in BOOLEAN
    BY DEF ZInv, MTypes, CallOK, Calls
  <1>4. /\ disk'.imap = disk.imap /\ disk'.inode = disk.inode
        /\ disk'.data = disk.data /\ disk'.ptr = disk.ptr /\ disk'.zmap = disk.zmap \union {z}
    BY <1>2, <1>3 DEF Disks
  <1>5. /\ SamePlace /\ call'.at = "zero" /\ call'.indirect = call.indirect
        /\ call.indirect => call'.z = call.z /\ call'.ind = z
        /\ ~call.indirect => call'.z = z
    BY <1>2, <1>3 DEF SamePlace, Calls
  <1>6. call.at \in Writing \ {"size"} /\ call'.at \in Writing \ {"size"}
    BY <1>2, <1>5, WritingIs
  <1>7. call.what # "dotdot"
    BY <1>2 DEF Books, Newborn
  <1>8. Bits' /\ Links' /\ Newborn'
    BY <1>2, <1>4, <1>5, <1>6, <1>7, BooksOnward
  <1>9. Spaces'
    <2>1. Used \subseteq Used'
      <3>1. Live' = Live
        BY CalmTells DEF ZInv, Sound
      <3> QED
        BY <1>4, <3>1, UsedSame
    <2>2. Pending \subseteq Pending' /\ z \in Pending'
      BY <1>2, <1>5 DEF Pending
    <2>3. call'.z # 0 => call'.z \in disk'.zmap
      BY <1>3, <1>4, <1>5 DEF Books, Spaces
    <2> QED
      BY <1>2, <1>4, <2>1, <2>2, <2>3, SpacesStep DEF Books
  <1> QED
    BY <1>8, <1>9 DEF Books

LEMMA AzzeraZonaBooks ==
  ASSUME ZInv, ZInv', Sound, Books, Calm, faults = 0, faults' = 0, AzzeraZona
  PROVE  Books'
  <1>1. PICK a : a = Allocated
    OBVIOUS
  <1>2. /\ call.at = "zero" /\ disk' = [disk EXCEPT !.data[a] = Zeroes, !.ptr[a] = NoPtrs]
        /\ cache' = cache /\ Remember /\ call' = [call EXCEPT !.at = "assign"]
    BY <1>1 DEF AzzeraZona, Rewrite, Fault, Goes
  <1>3. call \in Calls /\ MTypes /\ disk \in Disks /\ CallOK(call)
    BY DEF ZInv, MTypes, CallOK
  <1>4. a \in Zones /\ Fresh(a)
    BY <1>1, <1>2, <1>3 DEF ZInv, InFlight, CallOK, Allocated
  <1>5. /\ disk'.imap = disk.imap /\ disk'.inode = disk.inode /\ disk'.zmap = disk.zmap
        /\ \A y \in Zones : disk'.ptr[y] = IF y = a THEN NoPtrs ELSE disk.ptr[y]
    <2>1. disk'.zmap = disk.zmap
      BY <1>2, <1>3 DEF Disks
    <2> QED
      BY <1>2, <1>3, <2>1, ZeroUpdate
  <1>6. /\ SamePlace /\ call'.at = "assign" /\ call'.indirect = call.indirect
        /\ call'.z = call.z /\ call'.ind = call.ind
    BY <1>2, <1>3 DEF SamePlace, Calls
  <1>7. call.at \in Writing \ {"size"} /\ call'.at \in Writing \ {"size"}
    BY <1>2, <1>6, WritingIs
  <1>8. call.what # "dotdot"
    BY <1>2 DEF Books, Newborn
  <1>9. Bits' /\ Links' /\ Newborn'
    BY <1>2, <1>5, <1>6, <1>7, <1>8, BooksOnward
  <1>10. Used \subseteq Used'
    <2>1. Live' = Live
      BY CalmTells DEF ZInv, Sound
    <2>2. ASSUME NEW i \in Live
          PROVE  disk.inode[i].ind # 0 => disk'.ptr[disk.inode[i].ind] = disk.ptr[disk.inode[i].ind]
      <3>1. i \in Known
        BY <1>3, TellsFacts DEF TellsOK
      <3>2. disk.inode[i].ind # 0 =>
              disk.inode[i].ind \in Zones /\ <<i, -1, disk.inode[i].ind>> \in Refs
        BY <1>3, <3>1, HeldZones
      <3>3. PICK x : x = disk.inode[i].ind
        OBVIOUS
      <3>4. <<i, -1, x>>[3] = x
        OBVIOUS
      <3>5. x # 0 => x \in Zones /\ x # a
        BY <1>4, <3>2, <3>3, <3>4 DEF Fresh
      <3> QED
        BY <1>5, <3>3, <3>5
    <2>3. \A i \in Live : \A n \in PlaceNos, z \in Zones :
            PlaceHolds(disk.ptr, disk.inode[i], n, z) => PlaceHolds(disk'.ptr, disk'.inode[i], n, z)
      BY <1>5, <2>2 DEF PlaceHolds
    <2> QED
      BY <2>1, <2>3, UsedStays
  <1>11. Spaces'
    <2>1. Pending' = Pending
      BY <1>2, <1>6 DEF Pending
    <2> QED
      BY <1>2, <1>5, <1>6, <1>10, <2>1, SpacesStep DEF Books, Spaces
  <1> QED
    BY <1>9, <1>11 DEF Books

LEMMA AssignDirectBooks ==
  ASSUME ZInv, ZInv', Sound, Books, Calm, faults = 0, faults' = 0, AssignDirect
  PROVE  Books'
  <1>0. PICK i, t, l, z : i = Target.ino /\ t = Held /\ l = Logical /\ z = call.z
    OBVIOUS
  <1> DEFINE m == [t EXCEPT !.zone[l] = z]
             c == [call EXCEPT !.at = "data"]
  <1>1. call \in Calls /\ MTypes /\ disk \in Disks /\ CallOK(call) /\ Zoned /\ Saved
    BY DEF ZInv, MTypes, CallOK, Sound
  <1>2. call.at = "assign" /\ l < ZONE_DIRETTE /\ Remember
    BY <1>0 DEF AssignDirect
  <1>3. call.at \in Writing \ {"size"}
    BY <1>2, WritingIs
  <1>4. /\ call.slot \in Slots /\ i \in Known /\ i \in Inodes /\ l \in Nat /\ t \in Nodes
        /\ t = disk.inode[i] /\ Target.node = t /\ i \in Live
    BY <1>0, <1>1, <1>3, Aim, TargetLive DEF Held
  <1>5. Save(m, c, Break)
    BY <1>0, <1>4 DEF AssignDirect
  <1>6. z \in Zones /\ z \in 0 .. NZones /\ l \in 0 .. ZONE_DIRETTE - 1 /\ z # 0
    BY <1>0, <1>1, <1>2, <1>4, Numbers DEF CallOK, Zones
  <1>7. /\ m \in Nodes /\ m.ind = t.ind /\ m.nlinks = t.nlinks
        /\ \A k \in 0 .. ZONE_DIRETTE - 1 : m.zone[k] = IF k = l THEN z ELSE t.zone[k]
    <2>1. m.nlinks = t.nlinks
      BY <1>4 DEF Nodes
    <2> QED
      BY <1>4, <1>6, <2>1, NodeUpdates
  <1>8. (SamePlace /\ c.at = "data" /\ c.z = z) \/ call' # c
    BY <1>0, <1>1 DEF Calls, SamePlace
  <1> HIDE DEF m, c
  <1>9. /\ disk'.imap = disk.imap /\ disk'.zmap = disk.zmap /\ disk'.ptr = disk.ptr
        /\ \A j \in Inodes : disk'.inode[j] = IF j = i THEN m ELSE disk.inode[j]
        /\ call' = c /\ \A s \in Slots : cache'[s].ino = cache[s].ino
    BY <1>0, <1>1, <1>3, <1>5, <1>7, SaveQuiet
  <1>10. SamePlace /\ call'.at = "data" /\ call'.z = z /\ call'.at \in Writing \ {"size"}
    BY <1>8, <1>9, WritingIs
  <1>11. t.zone[l] = 0
    BY <1>0, <1>1, <1>2 DEF Zoned, ZonaDi
  <1>12. Bits' /\ Links' /\ Newborn'
    <2>1. call.what # "dotdot"
      BY <1>2 DEF Books, Newborn
    <2>2. \A j \in Inodes : j # Target.ino => disk'.inode[j] = disk.inode[j]
      BY <1>0, <1>9
    <2>3. \A j \in Inodes : disk'.inode[j].nlinks = disk.inode[j].nlinks
      BY <1>4, <1>7, <1>9
    <2> QED
      BY <1>2, <1>3, <1>9, <1>10, <2>1, <2>2, <2>3, BooksOnward
  <1>13. Live' = Live /\ Live \subseteq Inodes
    BY <1>1, CalmTells, TellsFacts DEF ZInv, Sound, TellsOK
  <1>14. Used \subseteq Used'
    <2>1. ASSUME NEW j \in Live, NEW n \in PlaceNos, NEW y \in Zones,
                 PlaceHolds(disk.ptr, disk.inode[j], n, y)
          PROVE  PlaceHolds(disk'.ptr, disk'.inode[j], n, y)
      <3>1. CASE j # i
        BY <1>9, <1>13, <2>1, <3>1
      <3>2. CASE j = i
        BY <1>4, <1>7, <1>9, <1>11, <2>1, <3>2 DEF PlaceHolds
      <3> QED
        BY <3>1, <3>2
    <2> QED
      BY <1>13, <2>1, UsedStays
  <1>15. z \in Used'
    <2>1. PlaceHolds(disk'.ptr, disk'.inode[i], l, z) /\ l \in PlaceNos
      BY <1>4, <1>6, <1>7, <1>9, Numbers DEF PlaceHolds, PlaceNos
    <2> QED
      BY <1>4, <1>6, <1>13, <2>1 DEF Used
  <1>16. Pending = {z}
    <2>1. ~call.indirect
      BY <1>0, <1>2, <1>4, Numbers DEF Sound, Zoned, InIndirect
    <2> QED
      BY <1>0, <1>2, <2>1 DEF Pending
  <1>17. Spaces'
    BY <1>0, <1>2, <1>9, <1>10, <1>14, <1>15, <1>16, SpacesStep DEF Books, Spaces
  <1> QED
    BY <1>12, <1>17 DEF Books

LEMMA AssignIndirectBlockBooks ==
  ASSUME ZInv, ZInv', Sound, Books, Calm, faults = 0, faults' = 0, AssignIndirectBlock
  PROVE  Books'
  <1>0. PICK i, t, x : i = Target.ino /\ t = Held /\ x = call.ind
    OBVIOUS
  <1> DEFINE m == [t EXCEPT !.ind = x]
             c == [call EXCEPT !.indirect = FALSE]
  <1>1. call \in Calls /\ MTypes /\ disk \in Disks /\ CallOK(call) /\ Zoned /\ Saved
    BY DEF ZInv, MTypes, CallOK, Sound
  <1>2. call.at = "assign" /\ call.indirect /\ Remember
    BY DEF AssignIndirectBlock
  <1>3. call.at \in Writing \ {"size"}
    BY <1>2, WritingIs
  <1>4. /\ call.slot \in Slots /\ i \in Known /\ i \in Inodes /\ t \in Nodes
        /\ t = disk.inode[i] /\ Target.node = t /\ i \in Live
    BY <1>0, <1>1, <1>3, Aim, TargetLive DEF Held
  <1>5. Save(m, c, Break)
    BY <1>0, <1>4 DEF AssignIndirectBlock
  <1>6. x \in Zones /\ x \in 0 .. NZones /\ x # 0
    BY <1>0, <1>1, <1>2, Numbers DEF CallOK, Zones
  <1>7. m \in Nodes /\ m.zone = t.zone /\ m.ind = x /\ m.nlinks = t.nlinks
    <2>1. m.nlinks = t.nlinks
      BY <1>4 DEF Nodes
    <2> QED
      BY <1>4, <1>6, <2>1, NodeUpdates
  <1>8. (SamePlace /\ c.at = "assign" /\ c.z = call.z /\ c.indirect = FALSE) \/ call' # c
    BY <1>1, <1>2 DEF Calls, SamePlace
  <1> HIDE DEF m, c
  <1>9. /\ disk'.imap = disk.imap /\ disk'.zmap = disk.zmap /\ disk'.ptr = disk.ptr
        /\ \A j \in Inodes : disk'.inode[j] = IF j = i THEN m ELSE disk.inode[j]
        /\ call' = c /\ \A s \in Slots : cache'[s].ino = cache[s].ino
    BY <1>0, <1>1, <1>3, <1>5, <1>7, SaveQuiet
  <1>10. /\ SamePlace /\ call'.at = "assign" /\ call'.z = call.z /\ call'.indirect = FALSE
         /\ call'.at \in Writing \ {"size"}
    BY <1>8, <1>9, WritingIs
  <1>11. t.ind = 0
    BY <1>0, <1>1, <1>2 DEF Zoned
  <1>12. Bits' /\ Links' /\ Newborn'
    <2>1. call.what # "dotdot"
      BY <1>2 DEF Books, Newborn
    <2>2. \A j \in Inodes : j # Target.ino => disk'.inode[j] = disk.inode[j]
      BY <1>0, <1>9
    <2>3. \A j \in Inodes : disk'.inode[j].nlinks = disk.inode[j].nlinks
      BY <1>4, <1>7, <1>9
    <2> QED
      BY <1>2, <1>3, <1>9, <1>10, <2>1, <2>2, <2>3, BooksOnward
  <1>13. Live' = Live /\ Live \subseteq Inodes
    BY <1>1, CalmTells, TellsFacts DEF ZInv, Sound, TellsOK
  <1>14. Used \subseteq Used'
    <2>1. ASSUME NEW j \in Live, NEW n \in PlaceNos, NEW y \in Zones,
                 PlaceHolds(disk.ptr, disk.inode[j], n, y)
          PROVE  PlaceHolds(disk'.ptr, disk'.inode[j], n, y)
      <3>1. CASE j # i
        BY <1>9, <1>13, <2>1, <3>1
      <3>2. CASE j = i
        BY <1>4, <1>7, <1>9, <1>11, <2>1, <3>2 DEF PlaceHolds
      <3> QED
        BY <3>1, <3>2
    <2> QED
      BY <1>13, <2>1, UsedStays
  <1>15. x \in Used'
    <2>1. PlaceHolds(disk'.ptr, disk'.inode[i], -1, x) /\ -1 \in PlaceNos
      BY <1>4, <1>6, <1>7, <1>9, Numbers DEF PlaceHolds, PlaceNos
    <2> QED
      BY <1>4, <1>6, <1>13, <2>1 DEF Used
  <1>16. Pending = {call.z, x} /\ Pending' = {call.z}
    BY <1>0, <1>2, <1>10 DEF Pending
  <1>17. Spaces'
    BY <1>2, <1>9, <1>10, <1>14, <1>15, <1>16, SpacesStep DEF Books, Spaces
  <1> QED
    BY <1>12, <1>17 DEF Books

LEMMA AssignIndirectBooks ==
  ASSUME ZInv, ZInv', Sound, Books, Calm, faults = 0, faults' = 0, AssignIndirect
  PROVE  Books'
  <1>0. PICK i, t, l, z, x, k :
          i = Target.ino /\ t = Held /\ l = Logical /\ z = call.z /\ x = Held.ind
          /\ k = Logical - ZONE_DIRETTE
    OBVIOUS
  <1> DEFINE c == [call EXCEPT !.at = "data"]
  <1>1. call \in Calls /\ MTypes /\ disk \in Disks /\ CallOK(call) /\ Zoned /\ Saved
    BY DEF ZInv, MTypes, CallOK, Sound
  <1>2. call.at = "assign" /\ InIndirect /\ Remember
    BY DEF AssignIndirect
  <1>3. call.at \in Writing \ {"size"}
    BY <1>2, WritingIs
  <1>4. /\ call.slot \in Slots /\ i \in Known /\ i \in Inodes /\ l \in Nat /\ t \in Nodes
        /\ t = disk.inode[i] /\ Target.node = t /\ i \in Live
    BY <1>0, <1>1, <1>3, Aim, TargetLive DEF Held
  <1>5. x # 0 /\ cache' = cache /\ disk' = [disk EXCEPT !.ptr[x][k] = z] /\ call' = c
    BY <1>0, <1>4 DEF AssignIndirect, Rewrite, Fault, Goes
  <1>6. z \in Zones /\ z \in 0 .. NZones /\ z # 0
        /\ k \in 0 .. PTR_PER_BLOCCO - 1 /\ l = ZONE_DIRETTE + k
    BY <1>0, <1>1, <1>2, Numbers DEF CallOK, Zones, InIndirect
  <1>7. x \in Zones
    BY <1>0, <1>1, <1>4, <1>5, HeldZones
  <1>8. /\ disk'.imap = disk.imap /\ disk'.inode = disk.inode /\ disk'.zmap = disk.zmap
        /\ \A y \in Zones : y # x => disk'.ptr[y] = disk.ptr[y]
        /\ \A n \in 0 .. PTR_PER_BLOCCO - 1 : disk'.ptr[x][n] = IF n = k THEN z ELSE disk.ptr[x][n]
    <2>1. disk'.zmap = disk.zmap
      BY <1>1, <1>5 DEF Disks
    <2> QED
      BY <1>1, <1>5, <1>6, <1>7, <2>1, PtrUpdate
  <1>9. SamePlace /\ call'.at = "data" /\ call'.z = z /\ call'.at \in Writing \ {"size"}
    BY <1>0, <1>1, <1>5, WritingIs DEF Calls, SamePlace
  <1>10. disk.ptr[x][k] = 0
    <2>1. ZonaDi(disk, t, l) = 0
      BY <1>0, <1>1, <1>2 DEF Zoned
    <2>2. ~(l < ZONE_DIRETTE) /\ l - ZONE_DIRETTE = k /\ k < PTR_PER_BLOCCO
      BY <1>6, Numbers
    <2>3. t.ind = x
      BY <1>0
    <2> QED
      BY <1>5, <2>1, <2>2, <2>3 DEF ZonaDi
  <1>11. Bits' /\ Links' /\ Newborn'
    <2>1. call.what # "dotdot"
      BY <1>2 DEF Books, Newborn
    <2> QED
      BY <1>2, <1>3, <1>5, <1>8, <1>9, <2>1, BooksOnward
  <1>12. Live' = Live /\ Live \subseteq Inodes /\ Live \subseteq Known
    BY <1>1, CalmTells, TellsFacts DEF ZInv, Sound, TellsOK
  <1>13. Used \subseteq Used'
    <2>1. ASSUME NEW j \in Live, NEW n \in PlaceNos, NEW y \in Zones,
                 PlaceHolds(disk.ptr, disk.inode[j], n, y)
          PROVE  PlaceHolds(disk'.ptr, disk'.inode[j], n, y)
      <3>1. PICK u : u = disk.inode[j]
        OBVIOUS
      <3>2. u.ind # 0 => u.ind \in Zones
        BY <1>1, <1>12, <3>1, HeldZones
      <3>3. y # 0 /\ disk'.inode[j] = u
        BY <1>8, <2>1, <3>1 DEF PlaceHolds
      <3>4. CASE n \in ZONE_DIRETTE .. ZONE_DIRETTE + PTR_PER_BLOCCO - 1 /\ u.ind = x
                 /\ disk.ptr[x][n - ZONE_DIRETTE] = y
        <4>1. n - ZONE_DIRETTE \in 0 .. PTR_PER_BLOCCO - 1
          BY <3>4, Numbers
        <4>2. disk'.ptr[x][n - ZONE_DIRETTE] = y
          BY <1>8, <1>10, <3>3, <3>4, <4>1
        <4> QED
          BY <1>5, <3>3, <3>4, <4>2 DEF PlaceHolds
      <3>5. CASE ~(n \in ZONE_DIRETTE .. ZONE_DIRETTE + PTR_PER_BLOCCO - 1 /\ u.ind = x
                   /\ disk.ptr[x][n - ZONE_DIRETTE] = y)
        BY <1>8, <2>1, <3>1, <3>2, <3>3, <3>5 DEF PlaceHolds
      <3> QED
        BY <3>4, <3>5
    <2> QED
      BY <1>12, <2>1, UsedStays
  <1>14. z \in Used'
    <2>1. l \in ZONE_DIRETTE .. ZONE_DIRETTE + PTR_PER_BLOCCO - 1 /\ l - ZONE_DIRETTE = k
          /\ l \in PlaceNos
      BY <1>6, Numbers DEF PlaceNos
    <2>2. disk'.ptr[x][k] = z /\ disk'.inode[i].ind = x
      BY <1>0, <1>4, <1>6, <1>8
    <2>3. PlaceHolds(disk'.ptr, disk'.inode[i], l, z)
      BY <1>5, <1>6, <2>1, <2>2 DEF PlaceHolds
    <2> QED
      BY <1>4, <1>6, <1>12, <2>1, <2>3 DEF Used
  <1>15. Pending = {z}
    <2>1. ~call.indirect
      BY <1>0, <1>1, <1>2, <1>5 DEF Zoned
    <2> QED
      BY <1>0, <1>2, <2>1 DEF Pending
  <1>16. Spaces'
    BY <1>0, <1>2, <1>8, <1>9, <1>13, <1>14, <1>15, SpacesStep DEF Books, Spaces
  <1> QED
    BY <1>11, <1>16 DEF Books

-----------------------------------------------------------------------------
(* The ends of a write.                                                      *)

(* What holds of a call that is over, for the inodes.                        *)
LEMMA BitsRest ==
  ASSUME disk'.imap = Live', call'.at \notin {"erase", "inode"}, call'.what # "entry"
  PROVE  Bits'
  BY DEF Bits, Allotted

LEMMA NewbornRest ==
  ASSUME call'.what \notin {"entry", "dot", "dotdot"}
  PROVE  Newborn'
  BY DEF Newborn

LEMMA BreaksBooks ==
  ASSUME ZInv, ZInv', Sound, Books, ZonesFull \/ TooFar
  PROVE  Books'
  <1>1. /\ call.at \in {"zmap", "assign"} /\ disk' = disk /\ cache' = cache /\ Remember
        /\ call' = Break
    BY DEF ZonesFull, TooFar, Goes
  <1>2. /\ call \in Calls /\ MTypes /\ CallOK(call) /\ Placed /\ Zoned /\ Links /\ Newborn /\ Bits
        /\ Spaces
    BY DEF ZInv, MTypes, CallOK, Sound, Books
  <1>3. call.at \in Writing \ {"size"} /\ call.at \in Writing
    BY <1>1, WritingIs
  <1>4. call.what \in {"file", "entry", "dot"}
    BY <1>1, <1>2, <1>3, WritingIs DEF CallOK, Newborn
  <1>5. Tells' = Tells /\ Live' = Live
    BY <1>1, StillTells
  <1>6. call.what \in Entering => /\ Child' = cache[call'.new].ino
                                  /\ call.done = 0 /\ Child \in Inodes
    BY <1>1, <1>2, <1>3, ChildSlot DEF Child, Placed
  <1>7. \/ /\ call.what = "file" /\ call'.at \in {"idle", "size"}
           /\ call'.what \in {"none", "file"} /\ call'.z \in {0, call.z}
        \/ /\ call.what = "entry" /\ call'.at = "undo" /\ call'.what = "entry"
           /\ call'.new = call.new /\ call'.type = call.type /\ call'.z = call.z
        \/ /\ call.what = "dot" /\ call'.at = "idle" /\ call'.what = "none"
           /\ call'.z = 0 /\ ~call'.ok
    <2>1. CASE call.what = "file"
      <3>1. \/ \E ok \in BOOLEAN : call' = Answer(ok)
            \/ call' = [call EXCEPT !.at = "size", !.off = call.off]
        BY <1>1, <2>1 DEF Break, Finished, Returned
      <3>2. ASSUME NEW ok \in BOOLEAN, call' = Answer(ok)
            PROVE  call'.at = "idle" /\ call'.what = "none" /\ call'.z = 0
        BY <3>2 DEF Answer, Idle
      <3>3. CASE call' = [call EXCEPT !.at = "size", !.off = call.off]
        BY <1>2, <2>1, <3>3 DEF Calls
      <3> QED
        BY <2>1, <3>1, <3>2, <3>3
    <2>2. CASE call.what = "entry"
      <3>1. call' = [call EXCEPT !.at = "undo"]
        BY <1>1, <1>6, <2>2, WritingIs DEF Break, Finished, Returned
      <3> QED
        BY <1>2, <2>2, <3>1 DEF Calls
    <2>3. CASE call.what = "dot"
      <3>1. call' = Answer(FALSE)
        BY <1>1, <1>6, <2>3, WritingIs DEF Break, Finished, Returned
      <3> QED
        BY <2>3, <3>1 DEF Answer, Idle
    <2> QED
      BY <1>4, <2>1, <2>2, <2>3
  <1>8. Spaces'
    <2>1. Used' = Used
      BY <1>1 DEF Used, Live, Directories, EntriesOf, EntryAt
    <2>2. call.at = "assign" => ~call.indirect
      <3>1. call.at = "assign" => TooFar
        BY DEF ZonesFull
      <3>2. Logical \in Nat /\ (call.at = "assign" => Logical >= ZONE_DIRETTE + PTR_PER_BLOCCO)
        BY <1>3, <3>1, Aim DEF Sound, TooFar
      <3> QED
        BY <1>2, <3>2, Numbers DEF Zoned, InIndirect
    <2>3. call'.at \notin {"zmap", "zero", "assign", "data"}
      BY <1>7
    <2>4. Pending \subseteq lost'
      <3>1. \A y \in Pending : y = call.z /\ y # 0 /\ (call.indirect \/ call.at = "assign")
        BY <1>1, <1>2, <2>2, Numbers DEF Pending, CallOK, Zones
      <3> QED
        BY <1>1, <2>3, <3>1 DEF Remember, Assigning
    <2>5. call'.z # 0 => call'.z \in disk'.zmap
      BY <1>1, <1>2, <1>7 DEF Spaces
    <2> QED
      BY <1>1, <1>2, <2>1, <2>4, <2>5, SpacesStep
  <1>9. CASE call.what = "file"
    <2>1. half' = half
      BY <1>1, <1>9 DEF Remember
    <2>2. Links'
      BY <1>1, <1>2, <1>5, <1>7, <1>9, <2>1, LinksKept
    <2>3. disk'.imap = Live'
      BY <1>1, <1>2, <1>5, <1>9 DEF Bits, Allotted
    <2> QED
      BY <1>7, <1>8, <1>9, <2>2, <2>3, BitsRest, NewbornRest DEF Books
  <1>10. CASE call.what = "entry"
    <2>1. Child' = Child
      BY <1>6, <1>7, <1>10, WritingIs DEF Child
    <2>2. half' = half
      BY <1>1, <1>10 DEF Remember
    <2>3. Links'
      BY <1>1, <1>2, <1>5, <1>7, <1>10, <2>1, <2>2, LinksKept
    <2>4. Bits'
      BY <1>1, <1>2, <1>5, <1>7, <1>10, <2>1 DEF Bits, Allotted
    <2>5. Newborn'
      BY <1>1, <1>2, <1>7, <1>10, <2>1 DEF Newborn
    <2> QED
      BY <1>8, <2>3, <2>4, <2>5 DEF Books
  <1>11. CASE call.what = "dot"
    <2>1. Child \in Live /\ Child \notin half
      <3>1. call.what \in Entering
        BY <1>11, WritingIs
      <3>2. Child = cache[call.new].ino /\ Child # 0 /\ call.new \in Slots
        BY <3>1, ChildSlot DEF Child
      <3> QED
        BY <1>2, <1>11, <3>2 DEF Sound, Reached, Links
    <2>2. half' = half \union {Child}
      BY <1>1, <1>7, <1>11 DEF Remember, Child
    <2>3. \A i : NamesOf(i)' = NamesOf(i)
      BY <1>5 DEF NamesOf
    <2>4. Links'
      <3>1. half' \subseteq Live'
        BY <1>2, <1>5, <2>1, <2>2 DEF Links
      <3>2. ASSUME NEW i \in Live'
            PROVE  disk'.inode[i].nlinks + One(call'.at = "links" /\ i = Parent') =
                     Cardinality(NamesOf(i)') + One(i \in half')
                       + One(call'.what = "dot" /\ i = Child')
        <4>1. /\ One(call'.at = "links" /\ i = Parent') = 0
              /\ One(call.at = "links" /\ i = Parent) = 0
              /\ One(call'.what = "dot" /\ i = Child') = 0
          BY <1>1, <1>7, <1>11 DEF One
        <4>2. One(i \in half') = One(i \in half) + One(call.what = "dot" /\ i = Child)
          BY <1>11, <2>1, <2>2 DEF One
        <4>3. disk.inode[i].nlinks + 0 =
                Cardinality(NamesOf(i)) + One(i \in half) + One(call.what = "dot" /\ i = Child)
          BY <1>2, <1>5, <4>1 DEF Links
        <4>4. /\ Cardinality(NamesOf(i)) \in Nat /\ One(i \in half) \in Nat
              /\ One(call.what = "dot" /\ i = Child) \in Nat /\ disk'.inode[i] = disk.inode[i]
          BY <1>1, <1>2, NamesFinite DEF One
        <4>5. disk.inode[i].nlinks \in Nat
          BY <1>2, <1>5, LinksNat
        <4>6. PICK a, b, c, e : /\ a = disk.inode[i].nlinks /\ b = Cardinality(NamesOf(i))
                                /\ c = One(i \in half)
                                /\ e = One(call.what = "dot" /\ i = Child)
          OBVIOUS
        <4>7. a \in Nat /\ b \in Nat /\ c \in Nat /\ e \in Nat /\ a + 0 = b + c + e
          BY <4>3, <4>4, <4>5, <4>6
        <4>8. a + 0 = b + (c + e) + 0
          BY <4>7
        <4>9. Cardinality(NamesOf(i)') = b /\ One(i \in half') = c + e
          BY <2>3, <4>2, <4>6
        <4> QED
          BY <4>1, <4>4, <4>6, <4>8, <4>9
      <3> QED
        BY <1>7, <1>11, <3>1, <3>2 DEF Links
    <2>5. disk'.imap = Live'
      BY <1>1, <1>2, <1>5, <1>11 DEF Bits, Allotted
    <2> QED
      BY <1>7, <1>8, <1>11, <2>4, <2>5, BitsRest, NewbornRest DEF Books
  <1> QED
    BY <1>4, <1>9, <1>10, <1>11

-----------------------------------------------------------------------------
(* The steps between two writes.                                             *)

LEMMA BooksRest ==
  ASSUME ZInv, ZInv', Sound, Books, Remember, disk' = disk,
         call.at \in {"idle", "imap"}, call'.at \in {"idle", "imap", "block"},
         call'.what \in {"none", "file"}, call'.z \in {0, call.z}
  PROVE  Books'
  <1>1. /\ Tells' = Tells /\ Live' = Live /\ MTypes /\ CallOK(call)
        /\ Bits /\ Spaces /\ Links /\ Newborn
    BY StillTells DEF ZInv, MTypes, Books
  <1>2. call.what = "none"
    BY <1>1 DEF CallOK
  <1>3. half' = half
    BY <1>2 DEF Remember
  <1>4. Links'
    BY <1>1, <1>2, <1>3, LinksKept
  <1>5. disk'.imap = Live'
    BY <1>1, <1>2 DEF Bits, Allotted
  <1>6. Used' = Used
    BY DEF Used, Live, Directories, EntriesOf, EntryAt
  <1>7. Spaces'
    BY <1>1, <1>6, SpacesRest
  <1> QED
    BY <1>4, <1>5, <1>7, BitsRest, NewbornRest DEF Books

LEMMA BeginBooks ==
  ASSUME ZInv, ZInv', Sound, Books, Begin
  PROVE  Books'
  <1>1. CASE \E s \in Slots, n \in Names : Lookup(s, n)
    <2>1. call.at = "idle" /\ disk' = disk /\ call' = call /\ Remember
      BY <1>1 DEF Lookup
    <2>2. call.what = "none"
      BY <2>1 DEF ZInv, MTypes, CallOK
    <2> QED
      BY <2>1, <2>2, BooksRest
  <1>2. CASE \E s \in Slots, n \in Names : \E t \in {"file", "dir"} : Create(s, n, t)
    <2>1. PICK s, n, t : Create(s, n, t)
      BY <1>2
    <2>2. /\ call.at = "idle" /\ disk' = disk /\ Remember
          /\ call' = [Idle EXCEPT !.at = "imap", !.dir = s, !.name = n, !.type = t]
      BY <2>1 DEF Create, Goes
    <2>3. call'.at = "imap" /\ call'.what = "none" /\ call'.z = 0
      BY <2>2 DEF Idle
    <2> QED
      BY <2>2, <2>3, BooksRest
  <1>3. CASE \E s \in Slots, off \in Offsets, n \in Lengths : WriteFile(s, off, n)
    <2>1. PICK s, off, n : WriteFile(s, off, n)
      BY <1>3
    <2>2. /\ call.at = "idle" /\ disk' = disk /\ Remember
          /\ call' = [Idle EXCEPT !.at = "block", !.what = "file", !.slot = s, !.off = off,
                                  !.n = n]
      BY <2>1 DEF WriteFile, Goes
    <2>3. call'.at = "block" /\ call'.what = "file" /\ call'.z = 0
      BY <2>2 DEF Idle
    <2> QED
      BY <2>2, <2>3, BooksRest
  <1> QED
    BY <1>1, <1>2, <1>3, Zenon DEF Begin

LEMMA InodeFullBooks ==
  ASSUME ZInv, ZInv', Sound, Books, InodeFull
  PROVE  Books'
  <1>1. call.at = "imap" /\ disk' = disk /\ Remember /\ call' = Answer(FALSE)
    BY DEF InodeFull, Goes
  <1>2. call'.at = "idle" /\ call'.what = "none" /\ call'.z = 0
    BY <1>1 DEF Answer, Idle
  <1> QED
    BY <1>1, <1>2, BooksRest

LEMMA DirentInserisciBooks ==
  ASSUME ZInv, ZInv', Sound, Books, faults = 0, faults' = 0, DirentInserisci
  PROVE  Books'
  <1>1. /\ call.at = "insert" /\ disk' = disk /\ cache' = cache /\ Remember
        /\ call' = Writes(Place(cache[Where].node))
    BY DEF DirentInserisci, Goes, Fault
  <1>2. /\ Tells' = Tells /\ Live' = Live /\ MTypes /\ call \in Calls /\ CallOK(call)
        /\ Bits /\ Spaces /\ Links /\ Newborn
    BY <1>1, StillTells DEF ZInv, MTypes, CallOK, Books
  <1>3. /\ call'.at = "block" /\ call'.what = call.what /\ call'.dir = call.dir
        /\ call'.new = call.new /\ call'.type = call.type /\ call'.z = 0
    BY <1>1, <1>2 DEF Writes, Calls
  <1>4. call.what \in Entering
    BY <1>1, <1>2 DEF CallOK
  <1>5. Child' = Child
    BY <1>1, <1>3 DEF Child
  <1>6. half' = half
    BY <1>1, <1>3 DEF Remember
  <1>7. Links'
    BY <1>1, <1>2, <1>3, <1>5, <1>6, LinksKept
  <1>8. Bits'
    BY <1>1, <1>2, <1>3, <1>5 DEF Bits, Allotted
  <1>9. Newborn'
    BY <1>1, <1>2, <1>3, <1>5 DEF Newborn
  <1>10. Used' = Used
    BY <1>1 DEF Used, Live, Directories, EntriesOf, EntryAt
  <1>11. Spaces'
    BY <1>1, <1>2, <1>3, <1>10, SpacesRest
  <1> QED
    BY <1>7, <1>8, <1>9, <1>11 DEF Books

-----------------------------------------------------------------------------
(* The steps that write an inode.                                            *)

LEMMA AccendiInodeBooks ==
  ASSUME ZInv, ZInv', Sound, Books, faults = 0, faults' = 0, AccendiInode,
         Tells' = Tells, Live' = Live
  PROVE  Books'
  <1>0. PICK b : b = Min(FreeInodes)
    OBVIOUS
  <1>1. /\ call.at = "imap" /\ Remember /\ disk' = [disk EXCEPT !.imap = @ \union {b}]
        /\ call' = [call EXCEPT !.at = "erase", !.bit = b]
    BY <1>0 DEF AccendiInode, Rewrite, Fault, Goes
  <1>2. /\ MTypes /\ disk \in Disks /\ CallOK(call) /\ call \in Calls /\ call.what = "none"
        /\ Bits /\ Spaces /\ Links
    BY <1>1 DEF ZInv, MTypes, CallOK, Books
  <1>3. /\ disk'.imap = disk.imap \union {b} /\ disk'.inode = disk.inode
        /\ disk'.zmap = disk.zmap /\ disk'.ptr = disk.ptr
    BY <1>1, <1>2 DEF Disks
  <1>4. /\ call'.at = "erase" /\ call'.bit = b /\ call'.what = "none" /\ call'.z = call.z
    BY <1>1, <1>2 DEF Calls
  <1>5. Bits'
    BY <1>1, <1>2, <1>3, <1>4 DEF Bits, Allotted
  <1>6. half' = half
    BY <1>1, <1>2 DEF Remember
  <1>7. Links'
    BY <1>1, <1>2, <1>3, <1>4, <1>6, LinksKept
  <1>8. Used \subseteq Used'
    BY <1>3, UsedSame
  <1>9. Spaces'
    BY <1>1, <1>2, <1>3, <1>4, <1>8, SpacesRest
  <1> QED
    BY <1>4, <1>5, <1>7, <1>9, NewbornRest DEF Books

(* An inode that nobody names.                                               *)
LEMMA NobodyHere ==
  ASSUME MTypes, Live' = Live, NEW b, b \notin Live, disk'.ptr = disk.ptr,
         \A i \in Inodes : i # b => disk'.inode[i] = disk.inode[i]
  PROVE  Used \subseteq Used' /\ \A i \in Live : disk'.inode[i] = disk.inode[i]
  <1>1. Live \subseteq Inodes
    BY TellsFacts DEF TellsOK
  <1>2. \A i \in Live : disk'.inode[i] = disk.inode[i]
    BY <1>1
  <1> QED
    BY <1>2, UsedSame

LEMMA AzzeraInodeBooks ==
  ASSUME ZInv, ZInv', Sound, Books, faults = 0, faults' = 0, AzzeraInode,
         Tells' = Tells, Live' = Live
  PROVE  Books'
  <1>0. PICK b : b = call.bit
    OBVIOUS
  <1>1. /\ call.at = "erase" /\ Remember /\ disk' = [disk EXCEPT !.inode[b] = Blank]
        /\ call' = [call EXCEPT !.at = "inode"]
    BY <1>0 DEF AzzeraInode, Rewrite, Fault, Goes
  <1>2. /\ MTypes /\ disk \in Disks /\ CallOK(call) /\ call \in Calls /\ call.what = "none"
        /\ Bits /\ Spaces /\ Links
    BY <1>1 DEF ZInv, MTypes, CallOK, Books
  <1>3. /\ disk'.imap = disk.imap /\ disk'.zmap = disk.zmap /\ disk'.ptr = disk.ptr
        /\ \A i \in Inodes : i # b => disk'.inode[i] = disk.inode[i]
    <2> HIDE DEF Blank
    <2> QED
      BY <1>1, <1>2 DEF Disks
  <1>4. /\ call'.at = "inode" /\ call'.bit = b /\ call'.what = "none" /\ call'.z = call.z
    BY <1>0, <1>1, <1>2 DEF Calls
  <1>5. Bits'
    BY <1>0, <1>1, <1>2, <1>3, <1>4 DEF Bits, Allotted
  <1>6. half' = half
    BY <1>1, <1>2 DEF Remember
  <1>7. b \notin Live
    BY <1>0, <1>1 DEF Sound, Asked
  <1>8. Used \subseteq Used' /\ \A i \in Live : disk'.inode[i] = disk.inode[i]
    BY <1>2, <1>3, <1>7, NobodyHere
  <1>9. Links'
    BY <1>1, <1>2, <1>4, <1>6, <1>8, LinksKept
  <1>10. Spaces'
    BY <1>1, <1>2, <1>3, <1>4, <1>8, SpacesRest
  <1> QED
    BY <1>4, <1>5, <1>9, <1>10, NewbornRest DEF Books

LEMMA ScriviNuovoBooks ==
  ASSUME ZInv, ZInv', Sound, Books, faults = 0, faults' = 0, ScriviNuovo,
         Tells' = Tells, Live' = Live
  PROVE  Books'
  <1>0. PICK b, f, m : b = call.bit /\ f = Min(FreeSlots) /\ m = NewNode(call.type)
    OBVIOUS
  <1>1. /\ call.at = "inode" /\ Remember /\ disk' = [disk EXCEPT !.inode[b] = m]
        /\ cache' = [cache EXCEPT ![f] = [ino |-> b, node |-> m]]
        /\ call' = [call EXCEPT !.at = "insert", !.what = "entry", !.new = f]
    BY <1>0 DEF ScriviNuovo, Rewrite, Fault, Goes
  <1>2. /\ MTypes /\ disk \in Disks /\ CallOK(call) /\ call \in Calls /\ call.what = "none"
        /\ cache \in [Slots -> [ino : 0 .. NInodes, node : Nodes]] /\ b \in Inodes
        /\ FreeSlots # {} /\ Bits /\ Spaces /\ Links
    BY <1>0, <1>1 DEF ZInv, MTypes, CallOK, Books
  <1>3. /\ disk'.imap = disk.imap /\ disk'.zmap = disk.zmap /\ disk'.ptr = disk.ptr
        /\ \A i \in Inodes : disk'.inode[i] = IF i = b THEN m ELSE disk.inode[i]
    BY <1>1, <1>2 DEF Disks
  <1>4. f \in Slots
    <2>1. FreeSlots \in SUBSET Nat
      BY DEF FreeSlots, Slots
    <2>2. f \in FreeSlots
      BY <1>0, <1>2, <2>1, MinExists
    <2> QED
      BY <2>2 DEF FreeSlots
  <1>5. /\ call'.at = "insert" /\ call'.what = "entry" /\ call'.new = f
        /\ call'.type = call.type /\ call'.z = call.z
    BY <1>1, <1>2 DEF Calls
  <1>6. Child' = b
    BY <1>1, <1>2, <1>4, <1>5 DEF Child
  <1>7. Bits'
    BY <1>0, <1>1, <1>2, <1>3, <1>5, <1>6 DEF Bits, Allotted
  <1>8. half' = half
    BY <1>1, <1>2 DEF Remember
  <1>9. b \notin Live
    BY <1>0, <1>1 DEF Sound, Asked
  <1>10. Used \subseteq Used' /\ \A i \in Live : disk'.inode[i] = disk.inode[i]
    BY <1>2, <1>3, <1>9, NobodyHere
  <1>11. Links'
    BY <1>1, <1>2, <1>5, <1>8, <1>10, LinksKept
  <1>12. Spaces'
    BY <1>1, <1>2, <1>3, <1>5, <1>10, SpacesRest
  <1>13. Newborn'
    <2>1. disk'.inode[b] = NewNode(call.type)
      BY <1>0, <1>2, <1>3
    <2> QED
      BY <1>5, <1>6, <2>1 DEF Newborn
  <1> QED
    BY <1>7, <1>11, <1>12, <1>13 DEF Books

LEMMA UndoBooks ==
  ASSUME ZInv, ZInv', Sound, Books, faults = 0, faults' = 0, Undo,
         Tells' = Tells, Live' = Live
  PROVE  Books'
  <1>1. /\ call.at = "undo" /\ Remember /\ disk' = [disk EXCEPT !.imap = @ \ {Child}]
        /\ call' = Answer(FALSE)
    BY DEF Undo, Rewrite, Fault, Goes, Child
  <1>2. /\ MTypes /\ disk \in Disks /\ call.what = "entry" /\ Child \notin Live
        /\ Bits /\ Spaces /\ Links
    BY <1>1 DEF ZInv, MTypes, Sound, Asked, Books
  <1>3. /\ disk'.imap = disk.imap \ {Child} /\ disk'.inode = disk.inode
        /\ disk'.zmap = disk.zmap /\ disk'.ptr = disk.ptr
    BY <1>1, <1>2 DEF Disks
  <1>4. call'.at = "idle" /\ call'.what = "none" /\ call'.z = 0
    BY <1>1 DEF Answer, Idle
  <1>5. disk'.imap = Live'
    BY <1>1, <1>2, <1>3 DEF Bits, Allotted
  <1>6. half' = half
    BY <1>1, <1>2 DEF Remember
  <1>7. Links'
    BY <1>1, <1>2, <1>3, <1>4, <1>6, LinksKept
  <1>8. Used \subseteq Used'
    BY <1>3, UsedSame
  <1>9. Spaces'
    BY <1>1, <1>2, <1>3, <1>4, <1>8, SpacesRest
  <1> QED
    BY <1>4, <1>5, <1>7, <1>9, BitsRest, NewbornRest DEF Books

(* The links after a step of which the others see nothing.                   *)
LEMMA ParentLinksBooks ==
  ASSUME ZInv, ZInv', Sound, Books, Calm, faults = 0, faults' = 0, ParentLinks
  PROVE  Books'
  <1>0. PICK d, i, old, m : d = call.dir /\ i = cache[d].ino /\ old = cache[d].node
                            /\ m = [old EXCEPT !.nlinks = @ + 1]
    OBVIOUS
  <1>1. /\ call.at = "links" /\ Remember /\ disk' = [disk EXCEPT !.inode[i] = m]
        /\ call' = Answer(TRUE)
    BY <1>0 DEF ParentLinks, Rewrite, Fault, Goes
  <1>2. /\ MTypes /\ disk \in Disks /\ call.what = "dotdot" /\ d \in Slots /\ i = Parent
        /\ i \in Inodes /\ i \in Live /\ i # 0 /\ Bits /\ Spaces /\ Links
    <2>1. call.what = "dotdot"
      BY <1>1 DEF Sound, Asked
    <2> QED
      BY <1>0, <2>1, ChildSlot, WritingIs DEF ZInv, MTypes, Books, Parent
  <1>3. old = disk.inode[i] /\ old \in Nodes
    <2>1. old = disk.inode[i]
      BY <1>0, <1>2 DEF Sound, Saved
    <2> QED
      BY <1>2, <2>1 DEF Disks
  <1>4. m.zone = old.zone /\ m.ind = old.ind /\ m.nlinks = old.nlinks + 1
    BY <1>0, <1>3 DEF Nodes
  <1>5. /\ disk'.imap = disk.imap /\ disk'.zmap = disk.zmap /\ disk'.ptr = disk.ptr
        /\ \A j \in Inodes : disk'.inode[j] = IF j = i THEN m ELSE disk.inode[j]
    <2> HIDE DEF Node
    <2> QED
      BY <1>1, <1>2 DEF Disks
  <1>6. Tells' = Tells /\ Live' = Live /\ Live \subseteq Inodes
    BY <1>2, CalmTells, TellsFacts DEF ZInv, Sound, TellsOK
  <1>7. call'.at = "idle" /\ call'.what = "none" /\ call'.z = 0 /\ call'.ok
    BY <1>1 DEF Answer, Idle
  <1>8. disk'.imap = Live'
    BY <1>1, <1>2, <1>5, <1>6 DEF Bits, Allotted
  <1>9. half' = half
    BY <1>1, <1>7 DEF Remember
  <1>10. Used \subseteq Used'
    <2>1. \A j \in Live : /\ disk'.inode[j].zone = disk.inode[j].zone
                          /\ disk'.inode[j].ind = disk.inode[j].ind
      BY <1>3, <1>4, <1>5, <1>6
    <2> QED
      BY <1>5, <1>6, <2>1, UsedSame
  <1>11. Spaces'
    BY <1>1, <1>2, <1>5, <1>7, <1>10, SpacesRest
  <1>12. Links'
    <2>1. \A j : NamesOf(j)' = NamesOf(j)
      BY <1>6 DEF NamesOf
    <2>2. ASSUME NEW j \in Live
          PROVE  disk'.inode[j].nlinks = Cardinality(NamesOf(j)) + One(j \in half)
      <3>1. /\ disk.inode[j].nlinks \in Nat /\ Cardinality(NamesOf(j)) \in Nat
            /\ One(j \in half) \in Nat
        BY <1>2, LinksNat, NamesFinite DEF One
      <3>2. disk.inode[j].nlinks + One(j = i) =
              Cardinality(NamesOf(j)) + One(j \in half)
        <4>1. One(call.at = "links" /\ j = Parent) = One(j = i) /\ One(call.what = "dot" /\ j = Child) = 0
          BY <1>1, <1>2 DEF One
        <4>2. disk.inode[j].nlinks + One(call.at = "links" /\ j = Parent) =
                Cardinality(NamesOf(j)) + One(j \in half) + One(call.what = "dot" /\ j = Child)
          BY <1>2 DEF Links
        <4>3. PICK a, b : a = Cardinality(NamesOf(j)) /\ b = One(j \in half)
          OBVIOUS
        <4>4. a + b + 0 = a + b
          BY <3>1, <4>3
        <4> QED
          BY <4>1, <4>2, <4>3, <4>4
      <3>3. disk'.inode[j].nlinks = disk.inode[j].nlinks + One(j = i)
        <4>1. CASE j = i
          BY <1>2, <1>3, <1>4, <1>5, <4>1 DEF One
        <4>2. CASE j # i
          <5>1. One(j = i) = 0 /\ disk'.inode[j] = disk.inode[j]
            BY <1>5, <1>6, <4>2 DEF One
          <5> QED
            BY <3>1, <5>1
        <4> QED
          BY <4>1, <4>2
      <3> QED
        BY <3>2, <3>3
    <2>3. ASSUME NEW j \in Live'
          PROVE  disk'.inode[j].nlinks + One(call'.at = "links" /\ j = Parent') =
                   Cardinality(NamesOf(j)') + One(j \in half')
                     + One(call'.what = "dot" /\ j = Child')
      <3>1. /\ One(call'.at = "links" /\ j = Parent') = 0
            /\ One(call'.what = "dot" /\ j = Child') = 0
        BY <1>7 DEF One
      <3>2. PICK n, a, b : /\ n = disk'.inode[j].nlinks /\ a = Cardinality(NamesOf(j))
                           /\ b = One(j \in half)
        OBVIOUS
      <3>3. a \in Nat /\ b \in Nat /\ n = a + b
        BY <1>2, <1>6, <2>2, <3>2, NamesFinite DEF One
      <3>4. n + 0 = a + b + 0
        BY <3>3
      <3> QED
        BY <1>9, <2>1, <3>1, <3>2, <3>4
    <2> QED
      BY <1>2, <1>6, <1>7, <1>9, <2>3 DEF Links
  <1> QED
    BY <1>7, <1>8, <1>11, <1>12, BitsRest, NewbornRest DEF Books

-----------------------------------------------------------------------------
(* The steps that write an entry.                                            *)

LEMMA ToldNames ==
  ASSUME ZInv, Sound, call.at \in Writing, call.what \in Entering
  PROVE  /\ NewEntry.ino = IF call.what = "dotdot" THEN Parent ELSE Child
         /\ call.what # "entry" => Child \in Live
  <1>1. NewEntry.ino = IF call.what = "dotdot" THEN Parent ELSE Child
    BY EntryIs, WritingIs DEF NewEntry, Parent, Child
  <1>2. call.what # "entry" => Child \in Live
    BY ChildSlot DEF Sound, Reached, Child
  <1> QED
    BY <1>1, <1>2

LEMMA ToldLinks ==
  ASSUME ZInv, Sound, Books, call.at \in {"data", "size"}, call.what \in Entering, NEW off,
         EntryTold(off), half' = half, call'.at = "links" => Parent' = Parent,
         call'.what \in {"dot", "dotdot"} => Child' = Child,
         call.what = "entry" => /\ call'.what = IF call.type = "dir" THEN "dot" ELSE "none"
                                /\ call'.at # "links",
         call.what = "dot" => call'.what = "dotdot" /\ call'.at # "links",
         call.what = "dotdot" => call'.what = "dotdot" /\ call'.at = "links",
         \A i \in Live' : disk'.inode[i].nlinks = disk.inode[i].nlinks
  PROVE  Links'
  <1>1. /\ call.at \in Writing /\ MTypes /\ Links /\ Newborn /\ call.at # "links"
        /\ Entering = {"entry", "dot", "dotdot"}
    BY WritingIs DEF ZInv, Books
  <1>2. PICK e : e = NewEntry.ino
    OBVIOUS
  <1>3. Live' = Live \union {e} /\ Child \in Inodes
    BY <1>2, ChildSlot DEF EntryTold
  <1>4. ASSUME NEW j
        PROVE  /\ Cardinality(NamesOf(j)) \in Nat
               /\ Cardinality(NamesOf(j)') = Cardinality(NamesOf(j)) + One(j = e)
    <2>1. PICK d, x : d = Target.ino /\ x = NewEntry
      OBVIOUS
    <2>2. Tells' = Tells \union {<<d, off, x>>} /\ \A t \in Tells : ~(t[1] = d /\ t[2] = off)
      BY <2>1 DEF EntryTold
    <2>3. /\ Cardinality(NamesOf(j)) \in Nat
          /\ Cardinality(NamesOf(j)') = Cardinality(NamesOf(j)) + One(j = x.ino)
      BY <1>1, <2>2, NamesMore
    <2>4. One(j = x.ino) = One(j = e)
      BY <1>2, <2>1 DEF One
    <2> QED
      BY <2>3, <2>4
  <1>5. /\ e = IF call.what = "dotdot" THEN Parent ELSE Child
        /\ call.what # "entry" => Child \in Live
    BY <1>1, <1>2, ToldNames
  <1>6. ASSUME NEW j \in Live'
        PROVE  disk'.inode[j].nlinks + One(call'.at = "links" /\ j = Parent) =
                 Cardinality(NamesOf(j)') + One(j \in half) + One(call'.what = "dot" /\ j = Child')
    <2>1. PICK n, c, h : /\ n = disk.inode[j].nlinks /\ c = Cardinality(NamesOf(j))
                         /\ h = One(j \in half)
      OBVIOUS
    <2>2. c \in Nat /\ Cardinality(NamesOf(j)') = c + One(j = e) /\ disk'.inode[j].nlinks = n
          /\ h \in Nat
      BY <1>4, <2>1 DEF One
    <2>3. CASE call.what = "entry" /\ j = Child
      <3>1. Child \notin Live /\ j \notin half
        BY <1>1, <2>3 DEF Sound, Asked, Links
      <3>2. c = 0 /\ h = 0
        BY <1>1, <2>1, <2>3, <3>1, NamesNone DEF One
      <3>3. n = IF call.type = "dir" THEN 2 ELSE 1
        BY <1>1, <2>1, <2>3 DEF Newborn, NewNode, Node
      <3>4. One(j = e) = 1 /\ One(call'.at = "links" /\ j = Parent) = 0
            /\ One(call'.what = "dot" /\ j = Child') = IF call.type = "dir" THEN 1 ELSE 0
        BY <1>5, <2>3 DEF One
      <3> QED
        BY <2>1, <2>2, <3>2, <3>3, <3>4
    <2>4. CASE ~(call.what = "entry" /\ j = Child)
      <3>1. j \in Live
        BY <1>3, <1>5, <2>4, ChildSlot
      <3>2. n \in Nat
        BY <1>1, <2>1, <3>1, LinksNat
      <3>3. n + One(call.at = "links" /\ j = Parent) = c + h + One(call.what = "dot" /\ j = Child)
        BY <1>1, <2>1, <3>1 DEF Links
      <3>4. CASE call.what = "entry"
        <4>1. /\ One(j = e) = 0 /\ One(call'.at = "links" /\ j = Parent) = 0
              /\ One(call'.what = "dot" /\ j = Child') = 0
              /\ One(call.at = "links" /\ j = Parent) = 0
              /\ One(call.what = "dot" /\ j = Child) = 0
          BY <1>1, <1>5, <2>4, <3>4 DEF One
        <4> QED
          BY <2>1, <2>2, <3>2, <3>3, <4>1
      <3>5. CASE call.what = "dot"
        <4>1. /\ One(call'.at = "links" /\ j = Parent) = 0
              /\ One(call'.what = "dot" /\ j = Child') = 0
              /\ One(call.at = "links" /\ j = Parent) = 0
              /\ One(call.what = "dot" /\ j = Child) = One(j = e) /\ One(j = e) \in Nat
          BY <1>1, <1>5, <3>5 DEF One
        <4>2. PICK o : o = One(j = e)
          OBVIOUS
        <4>3. o \in Nat /\ n + 0 = c + h + o
          BY <3>3, <4>1, <4>2
        <4>4. n + 0 = c + o + h + 0
          BY <2>2, <3>2, <4>3
        <4> QED
          BY <2>1, <2>2, <4>1, <4>2, <4>4
      <3>6. CASE call.what = "dotdot"
        <4>1. /\ One(call'.at = "links" /\ j = Parent) = One(j = e) /\ One(j = e) \in Nat
              /\ One(call'.what = "dot" /\ j = Child') = 0
              /\ One(call.at = "links" /\ j = Parent) = 0
              /\ One(call.what = "dot" /\ j = Child) = 0
          BY <1>1, <1>5, <3>6 DEF One
        <4>2. PICK o : o = One(j = e)
          OBVIOUS
        <4>3. o \in Nat /\ n + 0 = c + h + 0
          BY <3>3, <4>1, <4>2
        <4>4. n + o = c + o + h + 0
          BY <2>2, <3>2, <4>3
        <4> QED
          BY <2>1, <2>2, <4>1, <4>2, <4>4
      <3> QED
        BY <1>1, <3>4, <3>5, <3>6
    <2> QED
      BY <2>3, <2>4
  <1>7. half' \subseteq Live'
    BY <1>1, <1>3 DEF Links
  <1>8. call'.what = "dot" => Child' \notin half'
    <2>1. call'.what = "dot" => call.what = "entry"
      BY <1>1
    <2>2. call.what = "entry" => Child \notin half
      BY <1>1 DEF Sound, Asked, Links
    <2> QED
      BY <2>1, <2>2
  <1>9. ASSUME NEW j \in Live'
        PROVE  disk'.inode[j].nlinks + One(call'.at = "links" /\ j = Parent') =
                 Cardinality(NamesOf(j)') + One(j \in half) + One(call'.what = "dot" /\ j = Child')
    <2>1. One(call'.at = "links" /\ j = Parent') = One(call'.at = "links" /\ j = Parent)
      BY DEF One
    <2> QED
      BY <1>6, <2>1
  <1> QED
    BY <1>7, <1>8, <1>9 DEF Links

LEMMA GrowsBooks ==
  ASSUME ZInv, ZInv', Sound, Books, Remember, Grows, call.at \in {"data", "size"},
         disk'.imap = disk.imap, disk'.zmap = disk.zmap, disk'.ptr = disk.ptr,
         \A i \in Inodes : /\ disk'.inode[i].zone = disk.inode[i].zone
                           /\ disk'.inode[i].ind = disk.inode[i].ind
                           /\ disk'.inode[i].nlinks = disk.inode[i].nlinks,
         \A i \in Inodes : i # Target.ino => disk'.inode[i] = disk.inode[i],
         \A s \in Slots : cache'[s].ino = cache[s].ino,
         call'.z \in {0, call.z},
         SizeNext => disk'.inode = disk.inode,
         call.what = "dot" => disk.inode[Child].zone[0] # 0,
         call.what = "dot" /\ call'.what = "dotdot" => disk'.inode[Child].size = 1
  PROVE  Books'
  <1>1. /\ call \in Calls /\ MTypes /\ MTypes' /\ CallOK(call) /\ Bits /\ Spaces /\ Links /\ Newborn
        /\ call.at \in Writing /\ Entering = {"entry", "dot", "dotdot"}
    BY WritingIs DEF ZInv, MTypes, CallOK, Books
  <1>2. Live' \subseteq Inodes /\ Live \subseteq Inodes
    BY <1>1, TellsFacts, TellsFactsNext DEF TellsOK
  <1>3. CASE FileWritten
    <2>1. /\ call.what = "file" /\ Tells' = Tells /\ Live' = Live
          /\ call'.at \in {"idle", "block", "size"} /\ call'.what \in {"none", "file"}
      BY <1>3 DEF FileWritten, Answer, Idle
    <2>2. half' = half
      BY <2>1 DEF Remember
    <2>3. Links'
      BY <1>1, <1>2, <2>1, <2>2, LinksKept
    <2>4. disk'.imap = Live'
      BY <1>1, <2>1 DEF Bits, Allotted
    <2>5. Used \subseteq Used'
      BY <1>2, <2>1, UsedSame
    <2>6. Spaces'
      BY <1>1, <2>5, SpacesRest
    <2> QED
      BY <2>1, <2>3, <2>4, <2>6, BitsRest, NewbornRest DEF Books
  <1>4. CASE SizeNext
    <2>1. /\ call.what \in Entering /\ Tells' = Tells /\ Live' = Live
          /\ call'.at = "size" /\ call'.what = call.what /\ call'.dir = call.dir
          /\ call'.new = call.new /\ call'.type = call.type /\ disk'.inode = disk.inode
      BY <1>4 DEF SizeNext
    <2>2. half' = half
      BY <2>1 DEF Remember
    <2>3. Child' = Child /\ Child \in Inodes
      BY <2>1, ChildSlot, ParentKept
    <2>4. Links'
      BY <1>1, <2>1, <2>2, <2>3, LinksKept
    <2>5. Bits'
      BY <1>1, <2>1, <2>3 DEF Bits, Allotted
    <2>6. Used \subseteq Used'
      BY <2>1, UsedSame
    <2>7. Spaces'
      BY <1>1, <2>6, SpacesRest
    <2>8. Newborn'
      BY <1>1, <2>1, <2>3 DEF Newborn
    <2> QED
      BY <2>4, <2>5, <2>7, <2>8 DEF Books
  <1>5. CASE \E off : EntryTold(off)
    <2>1. PICK off : EntryTold(off)
      BY <1>5
    <2>2. call.what \in Entering /\ call' = Returned(TRUE) /\ Live' = Live \union {NewEntry.ino}
      BY <2>1 DEF EntryTold
    <2>3. /\ Child \in Inodes /\ Parent \in Live /\ Parent \in Inodes
          /\ NewEntry.ino = IF call.what = "dotdot" THEN Parent ELSE Child
          /\ call.what # "entry" => Child \in Live
      BY <1>1, <2>2, ChildSlot, ToldNames
    <2>4. call.type \in {"file", "dir"}
      BY <2>2 DEF Sound, Asked
    <2>5. \/ /\ call.what = "entry" /\ call.type = "file" /\ call'.at = "idle"
             /\ call'.what = "none" /\ call'.ok
          \/ /\ call.what = "entry" /\ call.type = "dir" /\ call'.at = "insert"
             /\ call'.what = "dot" /\ call'.new = call.new /\ call'.dir = call.dir
          \/ /\ call.what = "dot" /\ call'.at = "insert" /\ call'.what = "dotdot"
             /\ call'.new = call.new /\ call'.dir = call.dir
          \/ /\ call.what = "dotdot" /\ call'.at = "links" /\ call'.what = "dotdot"
             /\ call'.new = call.new /\ call'.dir = call.dir
      <3>1. CASE call.what = "entry" /\ call.type = "file"
        <4>1. call' = Answer(TRUE)
          BY <2>2, <3>1 DEF Returned
        <4> QED
          BY <3>1, <4>1 DEF Answer, Idle
      <3>2. CASE call.what = "entry" /\ call.type = "dir"
        <4>1. call' = [call EXCEPT !.at = "insert", !.what = "dot"]
          BY <2>2, <3>2 DEF Returned
        <4> QED
          BY <1>1, <3>2, <4>1 DEF Calls
      <3>3. CASE call.what = "dot"
        <4>1. call' = [call EXCEPT !.at = "insert", !.what = "dotdot"]
          BY <2>2, <3>3 DEF Returned
        <4> QED
          BY <1>1, <3>3, <4>1 DEF Calls
      <3>4. CASE call.what = "dotdot"
        <4>1. call' = [call EXCEPT !.at = "links"]
          BY <2>2, <3>4 DEF Returned
        <4> QED
          BY <1>1, <3>4, <4>1 DEF Calls
      <3> QED
        BY <1>1, <2>2, <2>4, <3>1, <3>2, <3>3, <3>4
    <2>6. call'.what \in {"dot", "dotdot"} => Child' = Child
      BY <2>2, <2>5, ParentKept
    <2>7. half' = half
      <3>1. ~(call.what \in {"dot", "dotdot"} /\ call'.at = "idle")
        BY <2>5
      <3> QED
        BY <3>1 DEF Remember
    <2>8. Links'
      <3>1. call'.at = "links" => Parent' = Parent
        BY <2>2, <2>5, ParentKept
      <3>2. \A i \in Live' : disk'.inode[i].nlinks = disk.inode[i].nlinks
        BY <1>2
      <3> QED
        BY <1>1, <2>1, <2>2, <2>4, <2>5, <2>6, <2>7, <3>1, <3>2, ToldLinks
    <2>9. disk'.imap = Live'
      <3>1. call.at \notin {"erase", "inode"}
        BY <1>1, WritingIs
      <3> QED
        BY <1>1, <2>2, <2>3, <3>1 DEF Bits, Allotted
    <2>10. Bits'
      BY <2>5, <2>9, BitsRest
    <2>11. Used \subseteq Used'
      BY <1>2, <2>2, UsedSame
    <2>12. Spaces'
      BY <1>1, <2>11, SpacesRest
    <2>13. Newborn'
      BY <1>1, <2>3, <2>5, <2>6 DEF Newborn
    <2> QED
      BY <2>8, <2>10, <2>12, <2>13 DEF Books
  <1> QED
    BY <1>3, <1>4, <1>5 DEF Grows

LEMMA ReturnedZone ==
  ASSUME call \in Calls, call.what \in Entering \union {"file"}, NEW ok \in BOOLEAN
  PROVE  Returned(ok).z \in {0, call.z}
  <1>1. Answer(ok).z = 0 /\ Answer(TRUE).z = 0 /\ Answer(FALSE).z = 0
    BY DEF Answer, Idle
  <1>2. \A a, w : [call EXCEPT !.at = a].z = call.z /\ [call EXCEPT !.at = a, !.what = w].z = call.z
    BY DEF Calls
  <1>3. call.what \in {"file", "entry", "dot", "dotdot"}
    BY WritingIs
  <1>4. CASE call.what = "file"
    BY <1>1, <1>4 DEF Returned
  <1>5. CASE call.what = "entry"
    BY <1>1, <1>2, <1>5 DEF Returned
  <1>6. CASE call.what = "dot"
    BY <1>1, <1>2, <1>6 DEF Returned
  <1>7. CASE call.what = "dotdot"
    BY <1>1, <1>2, <1>7 DEF Returned
  <1> QED
    BY <1>3, <1>4, <1>5, <1>6, <1>7

LEMMA WriteBlockBooks ==
  ASSUME ZInv, ZInv', Sound, Books, Grows, faults = 0, faults' = 0, WriteBlock
  PROVE  Books'
  <1>1. /\ call.at = "data" /\ cache' = cache /\ Remember
        /\ disk' = [disk EXCEPT !.data[call.z] = Written(@)]
        /\ call' = IF call.done + Span < call.n
                     THEN [call EXCEPT !.at = "block", !.off = @ + Span, !.done = @ + Span, !.z = 0]
                     ELSE Finished(call.off + Span, call.done + Span)
    BY DEF WriteBlock, Rewrite, Fault, Goes
  <1>2. /\ call \in Calls /\ MTypes /\ disk \in Disks /\ CallOK(call) /\ Newborn /\ Bits
        /\ Zoned /\ Placed
    BY DEF ZInv, MTypes, CallOK, Books, Sound
  <1>3. /\ disk'.imap = disk.imap /\ disk'.inode = disk.inode /\ disk'.zmap = disk.zmap
        /\ disk'.ptr = disk.ptr
    BY <1>1, <1>2 DEF Disks
  <1>4. call'.z \in {0, call.z}
    <2>1. \A off, done : Finished(off, done).z \in {0, call.z}
      <3> TAKE off, done
      <3>1. Returned(FALSE).z \in {0, call.z} /\ Returned(TRUE).z \in {0, call.z}
        BY <1>1, <1>2, ReturnedZone, WritingIs DEF CallOK
      <3>2. [call EXCEPT !.at = "size", !.off = off].z = call.z
        BY <1>2 DEF Calls
      <3> QED
        BY <3>1, <3>2 DEF Finished
    <2>2. CASE call.done + Span < call.n
      BY <1>1, <1>2, <2>2 DEF Calls
    <2>3. CASE ~(call.done + Span < call.n)
      BY <1>1, <2>1, <2>3
    <2> QED
      BY <2>2, <2>3
  <1>5. call.what = "dot" => disk.inode[Child].zone[0] # 0
    <2>1. call.at \in Writing \ {"size"}
      BY <1>1, WritingIs
    <2>2. call.what = "dot" => disk.inode[Child].size = 0
      BY DEF Sound, Asked
    <2>3. ZonaDi(disk, Held, Logical) # 0
      BY <1>1, <1>2, Numbers DEF Zoned, CallOK, Zones
    <2> QED
      BY <2>1, <2>2, <2>3, FirstBlock
  <1>6. ~(call.what = "dot" /\ call'.what = "dotdot")
    <2> SUFFICES ASSUME call.what = "dot" PROVE call'.what # "dotdot"
      OBVIOUS
    <2>1. /\ call.n = 1 /\ call.done = 0 /\ call.off <= Held.size /\ Held = disk.inode[Child]
          /\ Held.size = 0 /\ call.off \in Nat /\ Span \in Nat /\ call.slot = call.new
          /\ Target.node = Held
      <3>1. call.at \in Writing
        BY <1>1, WritingIs
      <3>2. /\ call.n = 1 /\ call.done = 0 /\ call.off <= Held.size /\ call.slot = call.new
        BY <1>1, <1>2, <3>1, WritingIs DEF Placed, Where
      <3>3. Held = disk.inode[Child]
        BY <3>2 DEF Held, Target, Child
      <3>4. Held.size = 0
        BY <3>3 DEF Sound, Asked
      <3>5. call.off \in Nat /\ Target.node = Held
        BY <3>1, Aim DEF Sound
      <3> QED
        BY <1>1, <1>2, <3>2, <3>3, <3>4, <3>5, SpanType
    <2>2. Span = 1
      <3>1. call.off % PerBlock \in 0 .. PerBlock - 1
        BY <2>1, DivMod
      <3> QED
        BY <2>1, <3>1, Numbers DEF Span
    <2>3. call' = [call EXCEPT !.at = "size", !.off = call.off + 1]
      <3>1. /\ call.off = 0 /\ ~(call.done + Span < call.n) /\ call.done + Span # 0
            /\ call.off + Span = call.off + 1 /\ call.off + Span > Target.node.size
        BY <2>1, <2>2
      <3> QED
        BY <1>1, <3>1 DEF Finished
    <2> QED
      BY <1>2, <2>3 DEF Calls
  <1> QED
    BY <1>1, <1>3, <1>4, <1>5, <1>6, GrowsBooks

LEMMA GrowBooks ==
  ASSUME ZInv, ZInv', Sound, Books, Grows, faults = 0, faults' = 0, Grow
  PROVE  Books'
  <1>0. PICK i, t, m : i = Target.ino /\ t = Held /\ m = [Target.node EXCEPT !.size = call.off]
    OBVIOUS
  <1>1. call.at = "size" /\ Remember /\ Save(m, Returned(TRUE), Returned(FALSE))
    BY <1>0 DEF Grow
  <1>2. /\ call \in Calls /\ MTypes /\ CallOK(call) /\ Saved /\ Newborn /\ call.at \in Writing
        /\ Placed
    BY <1>1, WritingIs DEF ZInv, MTypes, CallOK, Books, Sound
  <1>3. i \in Inodes /\ t \in Nodes /\ t = disk.inode[i] /\ Target.node = t /\ call.off \in Nat
    BY <1>0, <1>2, Aim DEF Held
  <1>4. /\ m \in Nodes /\ m.zone = t.zone /\ m.ind = t.ind /\ m.nlinks = t.nlinks
        /\ m.size = call.off
    <2>1. call.off \in 0 .. MaxSize
      BY <1>1, <1>2, <1>3, Numbers DEF CallOK
    <2> QED
      BY <1>0, <1>3, <2>1 DEF Nodes
  <1>5. /\ disk'.imap = disk.imap /\ disk'.zmap = disk.zmap /\ disk'.ptr = disk.ptr
        /\ \A j \in Inodes : disk'.inode[j] = IF j = i THEN m ELSE disk.inode[j]
        /\ call' = Returned(TRUE) /\ \A s \in Slots : cache'[s].ino = cache[s].ino
    BY <1>0, <1>1, <1>2, <1>4, SaveQuiet
  <1>6. call'.z \in {0, call.z}
    BY <1>1, <1>2, <1>5, ReturnedZone, WritingIs DEF CallOK
  <1>7. ~SizeNext
    BY <1>1 DEF SizeNext
  <1>8. call.what = "dot" => disk.inode[Child].zone[0] # 0
    BY <1>1, <1>2 DEF Newborn
  <1>9. call.what = "dot" => disk'.inode[Child].size = 1
    <2> SUFFICES ASSUME call.what = "dot" PROVE disk'.inode[Child].size = 1
      OBVIOUS
    <2>1. call.slot = call.new /\ call.off = Held.size + 1
      BY <1>1, <1>2, WritingIs DEF Placed, Where
    <2>2. i = Child
      BY <1>0, <2>1 DEF Target, Child
    <2>3. Held.size = 0
      BY <1>0, <1>3, <2>2 DEF Sound, Asked
    <2> QED
      BY <1>3, <1>4, <1>5, <2>1, <2>2, <2>3
  <1>10. \A j \in Inodes : /\ disk'.inode[j].zone = disk.inode[j].zone
                           /\ disk'.inode[j].ind = disk.inode[j].ind
                           /\ disk'.inode[j].nlinks = disk.inode[j].nlinks
    BY <1>3, <1>4, <1>5
  <1>11. \A j \in Inodes : j # Target.ino => disk'.inode[j] = disk.inode[j]
    BY <1>0, <1>5
  <1> QED
    BY <1>1, <1>5, <1>6, <1>7, <1>8, <1>9, <1>10, <1>11, GrowsBooks

LEMMA CrashesGrow ==
  MTypes /\ [Next]_vars => crashes' = crashes \/ (crashes' = crashes + 1 /\ crashes \in Nat)
  <1> SUFFICES ASSUME MTypes, [Next]_vars
               PROVE  crashes' = crashes \/ (crashes' = crashes + 1 /\ crashes \in Nat)
    OBVIOUS
  <1>1. Remember => crashes' = crashes
    BY DEF Remember
  <1>2. CASE Begin
    <2>1. ASSUME NEW s, NEW n, Lookup(s, n) PROVE Remember
      BY <2>1 DEF Lookup
    <2>2. ASSUME NEW s, NEW n, NEW t, Create(s, n, t) PROVE Remember
      BY <2>2 DEF Create
    <2>3. ASSUME NEW s, NEW n, NEW t, WriteFile(s, n, t) PROVE Remember
      BY <2>3 DEF WriteFile
    <2> QED
      BY <1>1, <1>2, <2>1, <2>2, <2>3, Zenon DEF Begin
  <1>3. CASE CreateStep
    BY <1>1, <1>3 DEF CreateStep, InodeFull, AccendiInode, AzzeraInode, ScriviNuovo,
                      DirentInserisci, Undo, ParentLinks
  <1>4. CASE WriteStep
    BY <1>1, <1>4 DEF WriteStep, FindZone, ZonesFull, AccendiZona, AzzeraZona, AssignDirect,
                      NeedIndirect, AssignIndirectBlock, AssignIndirect, TooFar, WriteBlock, Grow
  <1>5. CASE Crash
    BY <1>5, Numbers DEF Crash, MTypes
  <1>6. CASE UNCHANGED vars
    BY <1>6 DEF vars
  <1> QED
    BY <1>2, <1>3, <1>4, <1>5, <1>6 DEF Next

LEMMA UnchangedBooks ==
  ASSUME ZInv, ZInv', Sound, Books, UNCHANGED vars
  PROVE  Books'
  <1>1. disk' = disk /\ cache' = cache /\ call' = call /\ lost' = lost /\ half' = half
    BY DEF vars
  <1>2. Tells' = Tells /\ Live' = Live /\ Child' = Child /\ Parent' = Parent
    BY <1>1, StillTells DEF Child, Parent
  <1>3. Bits'
    BY <1>1, <1>2 DEF Books, Bits, Allotted
  <1>4. Spaces'
    <2>1. Used' = Used /\ Pending' = Pending
      BY <1>1, <1>2 DEF Used, Pending
    <2> QED
      BY <1>1, <2>1 DEF Books, Spaces
  <1>5. Links'
    <2>1. \A i : NamesOf(i)' = NamesOf(i)
      BY <1>2 DEF NamesOf
    <2> QED
      BY <1>1, <1>2, <2>1 DEF Books, Links, One
  <1>6. Newborn'
    BY <1>1, <1>2 DEF Books, Newborn
  <1> QED
    BY <1>3, <1>4, <1>5, <1>6 DEF Books

LEMMA NextBooks == ZInv /\ SInv /\ AInv /\ [Next]_vars => AInv'
  <1> SUFFICES ASSUME ZInv, SInv, AInv, [Next]_vars, faults' = 0, crashes' = 0 PROVE Books'
    BY DEF AInv
  <1>1. ZInv'
    BY NextZones
  <1>2. faults = 0 /\ crashes = 0 /\ ~Crash
    <2>1. MTypes /\ faults \in Nat /\ crashes \in Nat
      BY Numbers DEF ZInv, MTypes
    <2>2. Crash => crashes' = crashes + 1
      BY DEF Crash
    <2> QED
      BY <2>1, <2>2, FaultsGrow, CrashesGrow
  <1>3. Sound /\ Books
    BY <1>2 DEF SInv, AInv
  <1>4. CASE Begin
    BY <1>1, <1>3, <1>4, BeginBooks
  <1>5. CASE CreateStep
    <2>1. CASE InodeFull
      BY <1>1, <1>3, <2>1, InodeFullBooks
    <2>2. CASE AccendiInode
      BY <1>1, <1>2, <1>3, <2>2, AccendiInodeSound, AccendiInodeBooks
    <2>3. CASE AzzeraInode
      BY <1>1, <1>2, <1>3, <2>3, AzzeraInodeSound, AzzeraInodeBooks
    <2>4. CASE ScriviNuovo
      BY <1>1, <1>2, <1>3, <2>4, ScriviNuovoSound, ScriviNuovoBooks
    <2>5. CASE DirentInserisci
      BY <1>1, <1>2, <1>3, <2>5, DirentInserisciBooks
    <2>6. CASE Undo
      BY <1>1, <1>2, <1>3, <2>6, UndoSound, UndoBooks
    <2>7. CASE ParentLinks
      BY <1>1, <1>2, <1>3, <2>7, ParentLinksSound, ParentLinksBooks
    <2> QED
      BY <1>5, <2>1, <2>2, <2>3, <2>4, <2>5, <2>6, <2>7 DEF CreateStep
  <1>6. CASE WriteStep
    <2>1. CASE FindZone
      BY <1>1, <1>2, <1>3, <2>1, FindZoneBooks
    <2>2. CASE ZonesFull \/ TooFar
      BY <1>1, <1>3, <2>2, BreaksBooks
    <2>3. CASE AccendiZona
      BY <1>1, <1>2, <1>3, <2>3, AccendiZonaSound, AccendiZonaBooks
    <2>4. CASE AzzeraZona
      BY <1>1, <1>2, <1>3, <2>4, AzzeraZonaSound, AzzeraZonaBooks
    <2>5. CASE AssignDirect
      BY <1>1, <1>2, <1>3, <2>5, AssignDirectSound, AssignDirectBooks
    <2>6. CASE NeedIndirect
      BY <1>1, <1>3, <2>6, NeedIndirectBooks
    <2>7. CASE AssignIndirectBlock
      BY <1>1, <1>2, <1>3, <2>7, AssignIndirectBlockSound, AssignIndirectBlockBooks
    <2>8. CASE AssignIndirect
      BY <1>1, <1>2, <1>3, <2>8, AssignIndirectSound, AssignIndirectBooks
    <2>9. CASE WriteBlock
      BY <1>1, <1>2, <1>3, <2>9, WriteBlockSound, WriteBlockBooks
    <2>10. CASE Grow
      BY <1>1, <1>2, <1>3, <2>10, GrowSound, GrowBooks
    <2> QED
      BY <1>6, <2>1, <2>2, <2>3, <2>4, <2>5, <2>6, <2>7, <2>8, <2>9, <2>10 DEF WriteStep
  <1>7. CASE UNCHANGED vars
    BY <1>1, <1>3, <1>7, UnchangedBooks
  <1> QED
    BY <1>2, <1>4, <1>5, <1>6, <1>7 DEF Next

-----------------------------------------------------------------------------
(* A disk of mkfs has its books in order.                                    *)
LEMMA InitBooks == Init => AInv
<1> SUFFICES ASSUME Init PROVE Books
  BY DEF AInv
<1>1. disk.imap = {Root} /\ disk.zmap = {1} /\ call = Idle
  BY InitDisk
<1>2. PICK m : /\ disk.inode[Root] = m /\ m.ind = 0 /\ m.nlinks = 2 /\ m.zone[0] = 1
               /\ \A n \in 0 .. ZONE_DIRETTE - 1 : n # 0 => m.zone[n] = 0
  BY InitDisk
<1>3. Live = {Root} /\ Root \in Inodes /\ 1 \in Zones /\ 0 \in 0 .. ZONE_DIRETTE - 1
  BY InitTells, Numbers DEF Zones
<1>4. lost = {} /\ half = {}
  BY DEF Init
<1>5. /\ call.at = "idle" /\ call.what = "none" /\ call.z = 0
  BY <1>1 DEF Idle
<1>6. Bits
  BY <1>1, <1>3, <1>5 DEF Bits, Allotted
<1>7. Spaces
  <2>1. 0 \in PlaceNos
    BY Numbers DEF PlaceNos
  <2>2. PlaceHolds(disk.ptr, m, 0, 1)
    BY <1>2, <1>3 DEF PlaceHolds
  <2>3. \A n, z : PlaceHolds(disk.ptr, m, n, z) => z = 1
    BY <1>2 DEF PlaceHolds
  <2>4. Used = {1}
    BY <1>2, <1>3, <2>1, <2>2, <2>3 DEF Used
  <2>5. Pending = {}
    BY <1>5 DEF Pending
  <2> QED
    BY <1>1, <1>4, <1>5, <2>4, <2>5 DEF Spaces
<1>8. Links
  <2>1. NamesOf(Root) = {<<Root, 0>>, <<Root, 1>>}
    <3>1. ASSUME NEW x \in NamesOf(Root) PROVE x \in {<<Root, 0>>, <<Root, 1>>}
      <4>1. PICK t \in Tells : x = <<t[1], t[2]>>
        BY <3>1 DEF NamesOf
      <4> QED
        BY <4>1, InitTells
    <3>2. ASSUME NEW t \in Tells PROVE <<t[1], t[2]>> \in NamesOf(Root)
      BY InitTells DEF NamesOf
    <3>3. PICK t \in Tells, u \in Tells : t = <<Root, 0, Entry(Root, ".")>>
                                          /\ u = <<Root, 1, Entry(Root, "..")>>
      BY InitTells
    <3>4. t[1] = Root /\ t[2] = 0 /\ u[1] = Root /\ u[2] = 1
      BY <3>3
    <3>5. <<Root, 0>> \in NamesOf(Root) /\ <<Root, 1>> \in NamesOf(Root)
      BY <3>2, <3>4
    <3> QED
      BY <3>1, <3>5
  <2>2. Cardinality(NamesOf(Root)) = 2
    <3>1. PICK a, b : a = <<Root, 0>> /\ b = <<Root, 1>>
      OBVIOUS
    <3>2. IsFiniteSet({a}) /\ Cardinality({a}) = 1
      BY FS_Singleton
    <3>3. b \notin {a} /\ NamesOf(Root) = {a} \union {b}
      BY <2>1, <3>1
    <3>4. Cardinality({a} \union {b}) = 1 + 1
      BY <3>2, <3>3, FS_AddElement
    <3> QED
      BY <3>3, <3>4
  <2>3. ASSUME NEW i \in Live
        PROVE  disk.inode[i].nlinks + One(call.at = "links" /\ i = Parent) =
                 Cardinality(NamesOf(i)) + One(i \in half) + One(call.what = "dot" /\ i = Child)
    <3>1. One(call.at = "links" /\ i = Parent) = 0
      BY <1>5 DEF One
    <3>2. One(i \in half) = 0
      BY <1>4 DEF One
    <3>3. One(call.what = "dot" /\ i = Child) = 0
      BY <1>5 DEF One
    <3>4. disk.inode[i].nlinks = 2 /\ Cardinality(NamesOf(i)) = 2
      BY <1>2, <1>3, <2>2, <2>3
    <3> QED
      BY <3>1, <3>2, <3>3, <3>4
  <2> QED
    BY <1>3, <1>4, <1>5, <2>3 DEF Links
<1>9. Newborn
  BY <1>5 DEF Newborn
<1> QED
  BY <1>6, <1>7, <1>8, <1>9 DEF Books

-----------------------------------------------------------------------------
(* Between two calls, what the disk says of itself is what fsck would count. *)

LEMMA Given ==
  ASSUME MTypes, Saved, Reached, call.what # "entry"
  PROVE  {r[3] : r \in References} = Used
<1>1. /\ \A i \in Live : i \in Inodes /\ disk.inode[i] \in Nodes
      /\ \A s \in Slots : cache[s].ino # 0 =>
           cache[s].ino \in Live /\ cache[s].node = disk.inode[cache[s].ino]
  BY TellsFacts DEF TellsOK, Saved, Reached
<1>2. ASSUME NEW i \in Live, NEW r \in Holds(i, disk.inode[i]) PROVE r[3] \in Used
  <2>1. /\ r[2] \in PlaceNos /\ r[3] \in Zones
        /\ PlaceHolds(disk.ptr, disk.inode[i], r[2], r[3])
    BY <1>1, HoldsPlaces
  <2> QED
    BY <2>1 DEF Used
<1>3. ASSUME NEW r \in References PROVE r[3] \in Used
  <2>1. CASE \E i \in Live : r \in Holds(i, disk.inode[i])
    BY <1>2, <2>1
  <2>2. CASE \E s \in Slots : cache[s].ino # 0 /\ r \in Holds(cache[s].ino, cache[s].node)
    BY <1>1, <1>2, <2>2
  <2> QED
    BY <2>1, <2>2 DEF References
<1>4. ASSUME NEW z \in Used PROVE \E r \in References : r[3] = z
  <2>1. PICK i \in Live, n \in PlaceNos : PlaceHolds(disk.ptr, disk.inode[i], n, z)
    BY DEF Used
  <2>2. PICK m : m = disk.inode[i]
    OBVIOUS
  <2>3. <<i, n, z>> \in Holds(i, m)
    <3>1. z # 0 /\ <<i, n, z>>[3] = z
      BY <2>1, <2>2 DEF PlaceHolds
    <3>2. CASE n \in 0 .. ZONE_DIRETTE - 1 /\ m.zone[n] = z
      BY <3>1, <3>2 DEF Holds
    <3>3. CASE n = -1 /\ m.ind = z
      BY <3>1, <3>3 DEF Holds
    <3>4. CASE /\ n \in ZONE_DIRETTE .. ZONE_DIRETTE + PTR_PER_BLOCCO - 1
               /\ m.ind # 0 /\ disk.ptr[m.ind][n - ZONE_DIRETTE] = z
      <4>1. PICK k : k = n - ZONE_DIRETTE
        OBVIOUS
      <4>2. k \in 0 .. PTR_PER_BLOCCO - 1 /\ n = ZONE_DIRETTE + k
        BY <3>4, <4>1, Numbers
      <4>3. <<i, n, z>> = <<i, ZONE_DIRETTE + k, disk.ptr[m.ind][k]>>
        BY <3>4, <4>1, <4>2
      <4> QED
        BY <3>1, <3>4, <4>2, <4>3 DEF Holds
    <3> QED
      BY <2>1, <2>2, <3>2, <3>3, <3>4 DEF PlaceHolds
  <2>4. PICK r : r = <<i, n, z>>
    OBVIOUS
  <2>5. r \in Holds(i, disk.inode[i]) /\ r[3] = z
    BY <2>2, <2>3, <2>4
  <2> QED
    BY <2>5 DEF References
<1> QED
  BY <1>3, <1>4

LEMMA NamesCounted ==
  ASSUME MTypes, NEW i
  PROVE  {x \in Directories \X (0 .. MaxSize - 1) :
            x[2] \in EntriesOf(x[1]) /\ EntryAt(x[1], x[2]).ino = i} = NamesOf(i)
<1>1. MaxSize \in Nat /\ \A j \in Inodes : disk.inode[j].size <= MaxSize
  BY Numbers DEF MTypes, Disks, Nodes
<1> HIDE DEF MaxSize
<1>2. ASSUME NEW x \in Directories \X (0 .. MaxSize - 1),
             x[2] \in EntriesOf(x[1]), EntryAt(x[1], x[2]).ino = i
      PROVE  x \in NamesOf(i)
  <2>1. PICK t : t = <<x[1], x[2], EntryAt(x[1], x[2])>>
    OBVIOUS
  <2>2. t \in Tells /\ t[1] = x[1] /\ t[2] = x[2] /\ t[3] = EntryAt(x[1], x[2])
    BY <1>2, <2>1, TellsAre
  <2>3. x = <<t[1], t[2]>> /\ t[3].ino = i
    BY <1>2, <2>2
  <2> QED
    BY <2>2, <2>3 DEF NamesOf
<1>3. ASSUME NEW x \in NamesOf(i)
      PROVE  /\ x \in Directories \X (0 .. MaxSize - 1)
             /\ x[2] \in EntriesOf(x[1]) /\ EntryAt(x[1], x[2]).ino = i
  <2>1. PICK t \in Tells : x = <<t[1], t[2]>> /\ t[3].ino = i
    BY DEF NamesOf
  <2>2. /\ t[1] \in Directories /\ t[2] \in EntriesOf(t[1]) /\ t[3] = EntryAt(t[1], t[2])
        /\ t[1] \in Inodes /\ t[2] \in Nat /\ t[2] < disk.inode[t[1]].size
    BY TellsAre, TellsFacts DEF TellsOK
  <2>3. t[2] \in 0 .. MaxSize - 1
    <3>1. disk.inode[t[1]].size <= MaxSize /\ disk.inode[t[1]].size \in Nat
      BY <1>1, <2>2, TellsFacts DEF TellsOK
    <3> QED
      BY <1>1, <2>2, <3>1
  <2>4. x[1] = t[1] /\ x[2] = t[2]
    BY <2>1
  <2> QED
    BY <2>1, <2>2, <2>3, <2>4
<1> QED
  BY <1>2, <1>3

LEMMA BooksImplied == ZInv /\ SInv /\ AInv => Accounted
<1> SUFFICES ASSUME ZInv, Sound, Books, call.at = "idle" PROVE
      /\ disk.imap = Live
      /\ disk.zmap = {r[3] : r \in References} \union lost
      /\ \A i \in Live :
           disk.inode[i].nlinks =
             Cardinality({x \in Directories \X (0 .. MaxSize - 1) :
                            x[2] \in EntriesOf(x[1]) /\ EntryAt(x[1], x[2]).ino = i})
             + (IF i \in half THEN 1 ELSE 0)
  BY DEF SInv, AInv, Accounted
<1>1. MTypes /\ call.what = "none"
  BY WritingIs DEF ZInv, MTypes, CallOK
<1>2. disk.imap = Live
  BY <1>1 DEF Books, Bits, Allotted
<1>3. disk.zmap = {r[3] : r \in References} \union lost
  <2>1. Pending = {}
    BY DEF Pending
  <2>2. {r[3] : r \in References} = Used
    BY <1>1, Given DEF Sound
  <2> QED
    BY <2>1, <2>2 DEF Books, Spaces
<1>4. ASSUME NEW i \in Live
      PROVE  disk.inode[i].nlinks = Cardinality(NamesOf(i)) + (IF i \in half THEN 1 ELSE 0)
  <2>1. /\ One(call.at = "links" /\ i = Parent) = 0
        /\ One(call.what = "dot" /\ i = Child) = 0
    BY <1>1 DEF One
  <2>2. One(i \in half) = IF i \in half THEN 1 ELSE 0
    BY DEF One
  <2>3. PICK n, c, h : n = disk.inode[i].nlinks /\ c = Cardinality(NamesOf(i)) /\ h = One(i \in half)
    OBVIOUS
  <2>4. n \in Nat /\ c \in Nat /\ h \in Nat
    BY <1>1, <2>2, <2>3, LinksNat, NamesFinite
  <2>5. n + 0 = c + h + 0
    BY <2>1, <2>3 DEF Books, Links
  <2> QED
    BY <2>2, <2>3, <2>4, <2>5
<1> QED
  BY <1>1, <1>2, <1>3, <1>4, NamesCounted

(* While nothing fails and the machine stays on, every bit of the two bitmaps *)
(* has an owner between two calls and every inode as many links as names, but *)
(* for what a call that ran out of space left half way; and while nothing     *)
(* fails, each entry leads to an inode of its own (minixfs.c:863-941).        *)
THEOREM MinixFsTreeSound == Spec => []TreeSound
<1>1. Spec => [](ZInv /\ SInv /\ AInv)
  BY InitZones, NextZones, InitSound, NextSound, InitBooks, NextBooks, PTL DEF Spec
<1>2. ZInv /\ SInv /\ AInv => TreeSound
  BY EntriesImplied, BooksImplied DEF TreeSound
<1> QED
  BY <1>1, <1>2, PTL
=============================================================================
