---------------------------- MODULE DevIoProofs ----------------------------
(***************************************************************************)
(* For disks, transfers and calls of any size, any number of refusals and  *)
(* any drives on the channel: the table of drives is right; without a wait *)
(* given up the sectors moved are those asked for; and the bytes read or   *)
(* written are those of the place that was named.                          *)
(***************************************************************************)
EXTENDS DevIo, FiniteSetTheorems, SequenceTheorems, TLAPS

(* The shape of the state. *)
Kinds == {"disk", "cdrom", "none"}
Disks == [Positions -> [LBAs -> Sectors]]
Commands == {"none", "read", "write", "flush", "identify"}
Drives == [busy : BOOLEAN, drq : BOOLEAN, err : BOOLEAN, cmd : Commands,
           lba : Nat, left : 0 .. MaxTransfer, data : Sectors]
Entries == [drive : Positions, minor : {0, 64}, nsectors : {NSectors}]

Probing  == {"status", "signature", "capacity"}
InCall   == {"prepare", "transfer", "flush", "flushed"}
Ops      == {"none", "read", "write", "identify"}
Ats      == {"idle"} \union Probing \union InCall
AtaCalls == [at : Ats, op : Ops, b : Nat, lba : Nat,
             n : Nat, i : Nat, got : Seq(Sectors), src : Seq(Sectors), ok : BOOLEAN]

Byte    == Int \X Int \X Int
InLoop  == {"copy", "modify", "written"}
IoCalls == [at : {"idle", "loop"} \union InLoop, op : {"none", "read", "write"}, b : Nat,
            off : Nat, asked : Nat, n : Nat, done : Nat, bounce : Sectors,
            dst : Seq(Byte), ans : Int]

(* A drive that has something to do has sectors left to do it on, and one    *)
(* that offers a sector has it.                                              *)
DriveOK(s) ==
  /\ s \in Drives /\ ~(s.busy /\ s.drq)
  /\ s.busy \/ s.drq => s.left >= 1
  /\ s.drq /\ s.cmd = "read" => s.lba \in LBAs

(* A call of the driver, and what a read of it has got.                      *)
AtaCallOK(c) ==
  /\ c \in AtaCalls /\ c.i <= c.n /\ Len(c.got) <= c.i
  /\ c.at \in {"prepare", "transfer"} => c.i < c.n /\ c.op \in {"read", "write"}
  /\ c.at = "prepare" => c.i = 0
  /\ c.at \in {"flush", "flushed"} => c.i = c.n /\ c.op = "write"
  /\ c.at \in InCall => c.n <= MaxTransfer /\ c.lba + c.n <= NSectors
  /\ c.op = "read" /\ (c.at # "idle" \/ c.ok) => Len(c.got) = c.i
  /\ c.op = "read" /\ c.at = "idle" /\ c.ok => c.i = c.n
  /\ c.op = "write" => Len(c.src) = c.n

(* A call of the byte view, between its steps.                               *)
IoCallOK(o) ==
  /\ o \in IoCalls /\ o.done <= o.n /\ o.n <= o.asked /\ Len(o.dst) <= o.done
  /\ o.ans \in -1 .. o.n
  /\ o.at # "idle" => o.op \in {"read", "write"}
  /\ o.at \in InLoop => o.done < o.n
  /\ o.at = "copy" => o.op = "read"
  /\ o.at \in {"modify", "written"} => o.op = "write"

DTypes ==
  /\ kind \in [Positions -> Kinds]
  /\ disk \in Disks /\ was \in Disks /\ before \in Disks
  /\ drv \in [Positions -> Drives] /\ \A d \in Positions : DriveOK(drv[d])
  /\ sel \in Positions /\ probe \in 0 .. ATA_MAX_DRIVES
  /\ drives \in Seq(Entries)
  /\ AtaCallOK(call) /\ IoCallOK(io)
  /\ late \in BOOLEAN /\ faults \in 0 .. MaxFaults /\ calls \in 0 .. MaxCalls

(* Who calls whom. *)
Phases ==
  /\ probe < ATA_MAX_DRIVES => call.op \in {"none", "identify"}
  /\ call.at \in Probing => probe < ATA_MAX_DRIVES /\ sel = probe
  /\ call.at \in InCall => probe = ATA_MAX_DRIVES /\ call.b \in DOMAIN drives
  /\ io.at # "idle" => probe = ATA_MAX_DRIVES /\ io.b \in DOMAIN drives
  /\ io.op # "none" => probe = ATA_MAX_DRIVES
  /\ io.at = "loop" \/ (io.at = "idle" /\ io.op # "none") => call.at = "idle"
  /\ io.at \in {"copy", "modify"} => call.op = "read" /\ call.n = 1
  /\ io.at = "written" => call.op = "write" /\ call.n = 1

(* The table so far. *)
Found ==
  /\ \A b \in DOMAIN drives :
       /\ kind[drives[b].drive] = "disk" /\ drives[b].minor = 64 * drives[b].drive
       /\ drives[b].drive < probe
  /\ \A b, c \in DOMAIN drives : b < c => drives[b].drive < drives[c].drive
  /\ ~late /\ faults = 0 =>
       Len(drives) = Cardinality({d \in 0 .. probe - 1 : kind[d] = "disk"})

(* The drive being looked for has never been asked anything else.            *)
Probed ==
  /\ \A d \in Positions : d > probe \/ (d = probe /\ call.at = "idle") => drv[d] = Quiet
  /\ call.at \in Probing /\ kind[probe] = "disk" =>
       /\ drv[probe].cmd \in {"none", "identify"} /\ drv[probe].lba = 0
       /\ faults = 0 => ~drv[probe].err
  /\ call.at \in {"signature", "capacity"} => kind[probe] # "none"
  /\ call.at = "capacity" => kind[probe] = "disk"

DInv == DTypes /\ Phases /\ Found /\ Probed

-----------------------------------------------------------------------------
(* No wait has been given up: what the drives are on is what the call is on. *)

AtRest(s) == ~s.busy /\ ~s.drq

Rest ==
  /\ \A d \in Positions : /\ drv[d].err => AtRest(drv[d])
                          /\ d # sel \/ call.at \in {"idle", "prepare"} => AtRest(drv[d])
  /\ call.at \in Probing =>
       /\ drv[sel].data = Junk /\ drv[sel].cmd \in {"none", "identify"}
       /\ kind[sel] = "cdrom" => ~drv[sel].drq
       /\ kind[sel] = "none" => AtRest(drv[sel])
       /\ AtRest(drv[sel]) \/ drv[sel].left = 1
  /\ call.at \in {"transfer", "flush", "flushed"} => sel = Target

Reading ==
  LET s == drv[sel]
  IN /\ disk = was
     /\ call.got = [k \in 1 .. call.i |-> was[Target][call.lba + k - 1]]
     /\ s.err \/ /\ s.cmd = "read" /\ (s.busy \/ s.drq) /\ s.data = Junk
                 /\ s.lba = call.lba + call.i /\ s.left = call.n - call.i

(* The drive has been given i sectors, and may not have stored the last one. *)
Pending(s) ==
  /\ s.busy /\ s.cmd = "write" /\ call.i > 0 /\ s.data = call.src[call.i]
  /\ s.lba = call.lba + call.i - 1 /\ s.left = call.n - call.i + 1
OnWrite(s) ==
  \/ s.err /\ faults > 0
  \/ s.busy /\ s.cmd = "write" /\ s.data = Junk /\ call.i = 0 /\ s.lba = call.lba /\ s.left = call.n
  \/ s.drq /\ s.cmd = "write" /\ s.data = Junk /\ call.i < call.n
       /\ s.lba = call.lba + call.i /\ s.left = call.n - call.i
  \/ Pending(s)
  \/ call.i = call.n /\ AtRest(s)
  \/ call.at = "flushed" /\ s.busy /\ s.cmd = "flush" /\ s.data = Junk /\ s.lba = 0
Writing ==
  /\ OnWrite(drv[sel])
  /\ \A k \in 1 .. call.n : call.src[k] # Junk
  /\ \A d \in Positions, l \in LBAs :
       \/ d = Target /\ l \in call.lba .. call.lba + call.i - 1 /\ Written(l)
       \/ disk[d][l] = was[d][l] /\
            \/ d # Target \/ l \notin call.lba .. call.lba + call.i - 1
            \/ l = call.lba + call.i - 1 /\ (Pending(drv[sel]) \/ (faults > 0 /\ ~drv[sel].drq))

TInv ==
  ~late =>
    /\ Rest /\ TransferExact
    /\ call.at \in Probing \union {"prepare"} => disk = was
    /\ call.at = "prepare" =>
         call.got = <<>> /\ (call.op = "write" => \A k \in 1 .. call.n : call.src[k] # Junk)
    /\ call.at = "transfer" /\ call.op = "read" => Reading
    /\ call.at \in {"transfer", "flush", "flushed"} /\ call.op = "write" => Writing

(* Of a disk and of the bytes done so far.                                   *)
Place(d, p) == d[p \div SECTOR_SIZE][p % SECTOR_SIZE]
NewByte(p) == <<ATA_MAX_DRIVES, p - io.off, 0>>
Drive == drives[io.b].drive
SoFar(D) ==
  \A e \in Positions, p \in 0 .. Capacity - 1 :
    \/ Place(D[e], p) = ByteBefore(e, p) /\
         \/ io.op = "read" \/ e # Drive \/ faults > 0
         \/ p \notin io.off .. io.off + io.done - 1
    \/ /\ io.op = "write" /\ e = Drive /\ p \in io.off .. io.off + io.done - 1
       /\ Place(D[e], p) = NewByte(p)

Unrefused == ~late /\ faults = 0 /\ \A d \in Positions : kind[d] # "cdrom"
BInv ==
  ~late =>
    /\ BytesExact
    /\ Unrefused => \A d \in Positions : ~drv[d].err
    /\ io.at # "idle" =>
         /\ io.off < Capacity
         /\ io.n = Min({io.asked, Capacity - io.off})
         /\ io.op = "read" =>
              io.dst = [j \in 1 .. io.done |-> ByteBefore(Drive, io.off + j - 1)]
    /\ io.at = "loop" => SoFar(disk)
    /\ io.at \in InLoop =>
         /\ SoFar(was) /\ call.b = io.b /\ call.lba = Lba
         /\ Unrefused \/ call.at # "idle" => call.ok
    /\ io.at = "written" => call.src = <<io.bounce>> /\ io.bounce = Merged(was[Drive][Lba])

-----------------------------------------------------------------------------
(* Values. *)

LEMMA Constants ==
  /\ SECTOR_SIZE \in Nat /\ SECTOR_SIZE > 0 /\ NSectors \in Nat /\ NSectors > 0
  /\ MaxTransfer \in Nat /\ MaxTransfer > 0 /\ MaxFaults \in Nat /\ MaxCalls \in Nat
  /\ ATA_MAX_DRIVES = 2 /\ Positions = {0, 1} /\ 0 \in LBAs /\ 0 \in Offsets
  /\ LBAs \subseteq Nat
<1>1. ATA_MAX_DRIVES = 2
  BY DEF ATA_MAX_DRIVES
<1>2. Positions = {0, 1}
  BY <1>1 DEF Positions
<1> QED
  BY <1>1, <1>2, AtaAssumption DEF LBAs, Offsets

(* The sectors that are made up. *)
LEMMA SectorsMade ==
  /\ Junk \in Sectors
  /\ \A d \in Positions, l \in LBAs : Original(d, l) \in Sectors
  /\ \A at \in Nat : FromBuffer(at) \in Sectors /\ FromBuffer(at) # Junk
<1>1. Offsets \subseteq Int /\ 0 \in Offsets
  BY AtaAssumption DEF Offsets
<1>2. Junk \in Sectors
  BY <1>1 DEF Junk, Sectors
<1>3. ASSUME NEW d \in Positions, NEW l \in LBAs
      PROVE  Original(d, l) \in Sectors
  BY <1>1, Constants DEF Original, Sectors
<1>4. ASSUME NEW at \in Nat
      PROVE  FromBuffer(at) \in Sectors /\ FromBuffer(at) # Junk
  <2>1. FromBuffer(at) \in Sectors
    BY <1>1, Constants DEF FromBuffer, Sectors
  <2>2. FromBuffer(at)[0] = <<2, at + 0, 0>> /\ Junk[0] = <<-1, 0, 0>>
    BY <1>1, Constants DEF FromBuffer, Junk
  <2> QED
    BY <2>1, <2>2
<1> QED
  BY <1>2, <1>3, <1>4

LEMMA MinOfTwo ==
  ASSUME NEW a \in Nat, NEW b \in Nat
  PROVE  Min({a, b}) = IF a <= b THEN a ELSE b
<1> DEFINE m == IF a <= b THEN a ELSE b
<1>1. m \in {a, b} /\ \A y \in {a, b} : m <= y
  OBVIOUS
<1>2. \A x \in {a, b} : (\A y \in {a, b} : x <= y) => x = m
  OBVIOUS
<1> QED
  BY <1>1, <1>2 DEF Min

LEMMA DivMod ==
  ASSUME NEW p \in Nat, NEW s \in Nat, s > 0
  PROVE  p \div s \in Int /\ p \div s >= 0 /\ p % s \in 0 .. s - 1 /\ p % s = p - s * (p \div s)
<1>1. p \div s \in Int
  OBVIOUS
<1>2. p \div s >= 0
  OBVIOUS
<1>3. p % s \in 0 .. s - 1
  OBVIOUS
<1>4. p % s = p - s * (p \div s)
  OBVIOUS
<1> QED
  BY <1>1, <1>2, <1>3, <1>4

(* Conversely, a quotient and a remainder are the ones.                      *)
LEMMA DivModIs ==
  ASSUME NEW p \in Nat, NEW s \in Nat, s > 0, NEW q \in Nat, NEW r \in 0 .. s - 1,
         p = s * q + r
  PROVE  q = p \div s /\ r = p % s
  OBVIOUS

LEMMA Divided ==
  ASSUME NEW p \in Nat
  PROVE  /\ p \div SECTOR_SIZE \in Nat /\ p % SECTOR_SIZE \in Offsets
         /\ p % SECTOR_SIZE \in Nat /\ p % SECTOR_SIZE < SECTOR_SIZE
         /\ p = SECTOR_SIZE * (p \div SECTOR_SIZE) + (p % SECTOR_SIZE)
<1> DEFINE q == p \div SECTOR_SIZE
           r == p % SECTOR_SIZE
<1>2. SECTOR_SIZE \in Nat /\ SECTOR_SIZE > 0
  BY Constants
<1>3. q \in Int /\ q >= 0 /\ r \in 0 .. SECTOR_SIZE - 1 /\ r = p - SECTOR_SIZE * q
  BY <1>2, DivMod
<1> HIDE DEF q, r
<1>4. q \in Nat /\ r \in Nat /\ r < SECTOR_SIZE /\ SECTOR_SIZE * q \in Int
  BY <1>2, <1>3
<1>5. p = SECTOR_SIZE * q + r
  BY <1>3, <1>4
<1>6. r \in Offsets
  BY <1>3 DEF Offsets
<1> QED
  BY <1>4, <1>5, <1>6, Zenon DEF q, r

(* The next chunk is not empty, and does not leave its sector.               *)
LEMMA ChunkBounds ==
  ASSUME io.off \in Nat, io.done \in Nat, io.n \in Nat, io.done < io.n
  PROVE  /\ Lba \in Nat /\ Skip \in Offsets /\ Skip \in Nat
         /\ Chunk \in Nat /\ Chunk > 0 /\ io.done + Chunk <= io.n
         /\ Skip + Chunk <= SECTOR_SIZE
         /\ io.off + io.done = SECTOR_SIZE * Lba + Skip
<1>1. io.off + io.done \in Nat
  OBVIOUS
<1> DEFINE p == io.off + io.done
<1>p. p \in Nat
  BY <1>1
<1> HIDE DEF p
<1>d. /\ p \div SECTOR_SIZE \in Nat /\ p % SECTOR_SIZE \in Offsets
      /\ p % SECTOR_SIZE \in Nat /\ p % SECTOR_SIZE < SECTOR_SIZE
      /\ p = SECTOR_SIZE * (p \div SECTOR_SIZE) + (p % SECTOR_SIZE)
  BY <1>p, Divided
<1>l. Lba = p \div SECTOR_SIZE /\ Skip = p % SECTOR_SIZE
  BY DEF Lba, Skip, p
<1>2. /\ Lba \in Nat /\ Skip \in Offsets /\ Skip \in Nat /\ Skip < SECTOR_SIZE
      /\ p = SECTOR_SIZE * Lba + Skip
  BY <1>d, <1>l, Zenon
<1>3. SECTOR_SIZE - Skip \in Nat /\ io.n - io.done \in Nat
  BY <1>2, Constants
<1>4. Chunk = IF SECTOR_SIZE - Skip <= io.n - io.done THEN SECTOR_SIZE - Skip ELSE io.n - io.done
  BY <1>3, MinOfTwo DEF Chunk
<1> QED
  BY <1>2, <1>3, <1>4, Constants DEF p

LEMMA MergedSector ==
  ASSUME IoCallOK(io), io.done < io.n, NEW s \in Sectors
  PROVE  Merged(s) \in Sectors /\ Merged(s) # Junk
<1>1. /\ io.off \in Nat /\ io.done \in Nat /\ io.n \in Nat
  BY DEF IoCallOK, IoCalls
<1>2. /\ Skip \in Offsets /\ Skip \in Nat /\ Chunk \in Nat /\ Chunk > 0
      /\ Skip + Chunk <= SECTOR_SIZE
  BY <1>1, ChunkBounds
<1>3. \A k \in Offsets : s[k] \in Int \X Int \X Int /\ k \in Nat
  BY Constants DEF Sectors, Offsets
<1>4. ASSUME NEW k \in Offsets
      PROVE  Merged(s)[k] \in Int \X Int \X Int
  <2>1. Merged(s)[k] = IF k \in Skip .. Skip + Chunk - 1
                         THEN <<2, io.done + k - Skip, 0>> ELSE s[k]
    BY Constants DEF Merged
  <2>2. k \in Nat /\ s[k] \in Int \X Int \X Int
    BY <1>3
  <2>3. io.done + k - Skip \in Int
    BY <1>1, <1>2, <2>2
  <2>4. <<2, io.done + k - Skip, 0>> \in Int \X Int \X Int
    BY <2>3
  <2> QED
    BY <2>1, <2>2, <2>4
<1>5. Merged(s) = [k \in Offsets |-> Merged(s)[k]]
  BY DEF Merged
<1>6. Merged(s)[Skip] = <<2, io.done + Skip - Skip, 0>>
  BY <1>1, <1>2, Constants DEF Merged
<1>7. Junk[Skip] = <<-1, 0, 0>>
  BY <1>2 DEF Junk
<1> QED
  BY <1>4, <1>5, <1>6, <1>7 DEF Sectors

(* The drives. *)
LEMMA DriveValues ==
  ASSUME NEW s, DriveOK(s)
  PROVE  /\ DriveOK(Quiet) /\ DriveOK(Refused)
         /\ s.busy /\ (s.cmd = "read" => s.lba \in LBAs) => DriveOK(Waiting(s))
         /\ s.busy /\ s.left # 1 /\ s.cmd # "read" => DriveOK(Waiting(Further(s)))
         /\ s.drq /\ s.left # 1 => DriveOK([Further(s) EXCEPT !.busy = TRUE, !.drq = FALSE])
         /\ s.drq => \A c \in Sectors :
                       DriveOK([s EXCEPT !.busy = TRUE, !.drq = FALSE, !.data = c])
         /\ \A cmd \in Commands, l \in Nat, n \in 1 .. MaxTransfer :
              DriveOK([Quiet EXCEPT !.busy = TRUE, !.cmd = cmd, !.lba = l, !.left = n])
<1>1. /\ s \in Drives /\ (s.busy \/ s.drq => s.left >= 1) /\ ~(s.busy /\ s.drq)
      /\ s.left \in 0 .. MaxTransfer /\ s.lba \in Nat
  BY DEF DriveOK, Drives
<1>2. Junk \in Sectors /\ MaxTransfer \in Nat /\ MaxTransfer > 0 /\ "none" \in Commands
  BY SectorsMade, Constants DEF Commands
<1>3. /\ Quiet \in Drives /\ Quiet.busy = FALSE /\ Quiet.drq = FALSE
      /\ DOMAIN Quiet = {"busy", "drq", "err", "cmd", "lba", "left", "data"}
  BY <1>2 DEF Quiet, Drives
<1>4. DriveOK(Quiet)
  BY <1>3 DEF DriveOK
<1>5. DriveOK(Refused)
  BY <1>3 DEF DriveOK, Refused, Drives
<1>6. ASSUME s.busy, s.cmd = "read" => s.lba \in LBAs
      PROVE  DriveOK(Waiting(s))
  BY <1>1, <1>2, <1>6 DEF DriveOK, Waiting, Drives
<1>7. ASSUME s.busy \/ s.drq, s.left # 1
      PROVE  Further(s) \in Drives /\ Further(s).left >= 1 /\ Further(s).cmd = s.cmd
  <2>1. s.left - 1 \in 1 .. MaxTransfer /\ s.left - 1 \in 0 .. MaxTransfer /\ s.lba + 1 \in Nat
    BY <1>1, <1>2, <1>7
  <2>2. /\ Further(s) = [s EXCEPT !.lba = s.lba + 1, !.left = s.left - 1]
        /\ Further(s).left = s.left - 1 /\ Further(s).cmd = s.cmd
    BY <1>1 DEF Further, Drives
  <2>3. Further(s) \in Drives
    BY <2>1, <2>2, <1>1 DEF Drives
  <2> QED
    BY <2>1, <2>2, <2>3
<1>8. ASSUME s.busy, s.left # 1, s.cmd # "read"
      PROVE  DriveOK(Waiting(Further(s)))
  BY <1>2, <1>7, <1>8 DEF DriveOK, Waiting, Drives
<1>9. ASSUME s.drq, s.left # 1
      PROVE  DriveOK([Further(s) EXCEPT !.busy = TRUE, !.drq = FALSE])
  BY <1>7, <1>9 DEF DriveOK, Drives
<1>10. ASSUME s.drq, NEW c \in Sectors
       PROVE  DriveOK([s EXCEPT !.busy = TRUE, !.drq = FALSE, !.data = c])
  BY <1>1, <1>10 DEF DriveOK, Drives
<1>11. ASSUME NEW cmd \in Commands, NEW l \in Nat, NEW n \in 1 .. MaxTransfer
       PROVE  DriveOK([Quiet EXCEPT !.busy = TRUE, !.cmd = cmd, !.lba = l, !.left = n])
  <2>1. n \in 0 .. MaxTransfer /\ n >= 1
    BY <1>2
  <2> QED
    BY <2>1, <1>3 DEF DriveOK, Drives
<1> QED
  BY <1>4, <1>5, <1>6, <1>8, <1>9, <1>10, <1>11

(* A command reaches one drive, if it obeys. *)
LEMMA CommandDrives ==
  ASSUME DTypes, NEW d \in Positions, NEW cmd \in Commands, NEW l \in Nat,
         NEW n \in 0 .. MaxTransfer
  PROVE  /\ Command(d, cmd, l, n) \in [Positions -> Drives]
         /\ \A e \in Positions : DriveOK(Command(d, cmd, l, n)[e])
         /\ \A e \in Positions \ {d} : Command(d, cmd, l, n)[e] = drv[e]
         /\ Command(d, cmd, l, n)[d] =
              IF Obeys(d)
                THEN [Quiet EXCEPT !.busy = TRUE, !.cmd = cmd, !.lba = l,
                                   !.left = IF n = 0 THEN MaxTransfer ELSE n]
                ELSE drv[d]
<1> DEFINE m == IF n = 0 THEN MaxTransfer ELSE n
           s == [Quiet EXCEPT !.busy = TRUE, !.cmd = cmd, !.lba = l, !.left = m]
<1>1. m \in 1 .. MaxTransfer
  BY Constants
<1>2. drv \in [Positions -> Drives] /\ \A e \in Positions : DriveOK(drv[e])
  BY DEF DTypes
<1> HIDE DEF m
<1>3. DriveOK(s)
  BY <1>1, <1>2, DriveValues
<1> HIDE DEF s
<1>4. s \in Drives
  BY <1>3 DEF DriveOK
<1>5. Command(d, cmd, l, n) = IF Obeys(d) THEN [drv EXCEPT ![d] = s] ELSE drv
  BY DEF Command, s, m
<1>6. Command(d, cmd, l, n) \in [Positions -> Drives]
  BY <1>2, <1>4, <1>5
<1>7. \A e \in Positions : Command(d, cmd, l, n)[e] = IF e = d /\ Obeys(d) THEN s ELSE drv[e]
  BY <1>2, <1>4, <1>5
<1>8. \A e \in Positions : DriveOK(Command(d, cmd, l, n)[e])
  BY <1>2, <1>3, <1>7
<1>9. Command(d, cmd, l, n)[d] = IF Obeys(d) THEN s ELSE drv[d]
  BY <1>7
<1> QED
  BY <1>6, <1>7, <1>8, <1>9 DEF s, m

(* The data register.  What is read is a sector, as is Junk.                 *)
LEMMA DataRegister ==
  ASSUME DTypes
  PROVE  /\ DriveOK(AfterIn) /\ AfterIn \in Drives
         /\ \A c \in Sectors : DriveOK(AfterOut(c)) /\ AfterOut(c) \in Drives
         /\ SectorIn \in Sectors
<1>1. DriveOK(Selected) /\ Selected \in Drives /\ disk[sel] \in [LBAs -> Sectors]
  BY DEF DTypes, Selected, Disks, DriveOK
<1>2. DriveOK(AfterIn)
  BY <1>1, DriveValues DEF AfterIn, Drives
<1>3. \A c \in Sectors : DriveOK(AfterOut(c))
  BY <1>1, DriveValues DEF AfterOut, Drives
<1>4. SectorIn \in Sectors
  BY <1>1, SectorsMade DEF SectorIn, DriveOK
<1> QED
  BY <1>2, <1>3, <1>4 DEF DriveOK

-----------------------------------------------------------------------------
(* The call of the driver, step by step. *)

LEMMA CallValues ==
  ASSUME NEW c, AtaCallOK(c)
  PROVE  /\ AtaCallOK(Idle) /\ AtaCallOK([Idle EXCEPT !.at = "status", !.op = "identify"])
         /\ \A at \in Probing : c.at \in Probing => AtaCallOK([c EXCEPT !.at = at])
         /\ AtaCallOK([c EXCEPT !.at = "idle", !.ok = FALSE])
         /\ c.at = "prepare" => AtaCallOK([c EXCEPT !.at = "transfer"])
         /\ c.at = "flush" => AtaCallOK([c EXCEPT !.at = "flushed"])
         /\ c.at = "flushed" => AtaCallOK([c EXCEPT !.at = "idle", !.ok = TRUE])
<1>1. c \in AtaCalls
  BY DEF AtaCallOK
<1>2. AtaCallOK(Idle)
  BY EmptySeq DEF AtaCallOK, Idle, AtaCalls, Ats, Ops, Probing, InCall
<1>3. AtaCallOK([Idle EXCEPT !.at = "status", !.op = "identify"])
  <2>0. SUFFICES ASSUME NEW t, t = [Idle EXCEPT !.at = "status", !.op = "identify"]
               PROVE  AtaCallOK(t)
    OBVIOUS
  <2>1. t = [at |-> "status", op |-> "identify", b |-> 0, lba |-> 0, n |-> 0, i |-> 0,
             got |-> <<>>, src |-> <<>>, ok |-> TRUE]
    BY <2>0 DEF Idle
  <2>2. <<>> \in Seq(Sectors) /\ Len(<<>>) = 0 /\ "status" \in Ats /\ "identify" \in Ops
    BY EmptySeq DEF Ats, Ops, Probing
  <2>3. t \in AtaCalls
    BY <2>1, <2>2 DEF AtaCalls
  <2>4. t.at = "status" /\ t.op = "identify" /\ t.i = 0 /\ t.n = 0 /\ Len(t.got) = 0
    BY <2>1, <2>2
  <2> QED
    BY <2>3, <2>4 DEF AtaCallOK, InCall
<1>4. ASSUME NEW at \in Probing, c.at \in Probing
      PROVE  AtaCallOK([c EXCEPT !.at = at])
  BY <1>1, <1>4 DEF AtaCallOK, AtaCalls, Ats, Probing, InCall
<1>5. AtaCallOK([c EXCEPT !.at = "idle", !.ok = FALSE])
  BY <1>1 DEF AtaCallOK, AtaCalls, Ats, InCall
<1>6. c.at = "prepare" => AtaCallOK([c EXCEPT !.at = "transfer"])
  BY <1>1 DEF AtaCallOK, AtaCalls, Ats, InCall
<1>7. c.at = "flush" => AtaCallOK([c EXCEPT !.at = "flushed"])
  BY <1>1 DEF AtaCallOK, AtaCalls, Ats, InCall
<1>8. c.at = "flushed" => AtaCallOK([c EXCEPT !.at = "idle", !.ok = TRUE])
  BY <1>1 DEF AtaCallOK, AtaCalls, Ats, InCall
<1> QED
  BY <1>2, <1>3, <1>4, <1>5, <1>6, <1>7, <1>8

LEMMA CallFields ==
  ASSUME NEW c \in AtaCalls, NEW at \in Ats, NEW i \in Nat, NEW g \in Seq(Sectors)
  PROVE  /\ [c EXCEPT !.got = g, !.i = i, !.at = at] \in AtaCalls
         /\ [c EXCEPT !.i = i, !.at = at] \in AtaCalls
  BY DEF AtaCalls

LEMMA SectorMoved ==
  ASSUME NEW c, AtaCallOK(c), c.at = "transfer", NEW s \in Sectors
  PROVE  /\ c.op = "read" =>
              AtaCallOK([c EXCEPT !.got = Append(c.got, s), !.i = c.i + 1,
                                  !.at = IF c.i + 1 = c.n THEN "idle" ELSE "transfer"])
         /\ c.op # "read" =>
              /\ c.src[c.i + 1] \in Sectors
              /\ AtaCallOK([c EXCEPT !.i = c.i + 1,
                                     !.at = IF c.i + 1 = c.n THEN "flush" ELSE "transfer"])
<1>1. /\ c \in AtaCalls /\ c.i \in Nat /\ c.n \in Nat /\ c.i < c.n
      /\ c.op \in {"read", "write"} /\ c.got \in Seq(Sectors) /\ c.src \in Seq(Sectors)
  BY DEF AtaCallOK, AtaCalls
<1>2. Len(c.got) \in Nat /\ Append(c.got, s) \in Seq(Sectors) /\ Len(Append(c.got, s)) = Len(c.got) + 1
  BY <1>1
<1> DEFINE last == c.i + 1 = c.n
<1>3. ASSUME c.op = "read"
      PROVE  AtaCallOK([c EXCEPT !.got = Append(c.got, s), !.i = c.i + 1,
                                 !.at = IF c.i + 1 = c.n THEN "idle" ELSE "transfer"])
  <2> DEFINE g == Append(c.got, s)
             at == IF last THEN "idle" ELSE "transfer"
             t == [c EXCEPT !.got = g, !.i = c.i + 1, !.at = at]
  <2>1. g \in Seq(Sectors) /\ Len(g) = c.i + 1
    BY <1>1, <1>2, <1>3 DEF AtaCallOK
  <2>2. at \in {"idle", "transfer"} /\ (at = "idle" <=> last)
    OBVIOUS
  <2> HIDE DEF g, at
  <2>a. at \in Ats /\ c.i + 1 \in Nat
    BY <1>1, <2>2 DEF Ats, InCall
  <2>3. t \in AtaCalls
    BY <1>1, <2>1, <2>a, CallFields
  <2>4. /\ t.at = at /\ t.op = "read" /\ t.i = c.i + 1 /\ t.n = c.n /\ t.got = g
        /\ t.lba = c.lba
    BY <1>1, <1>3 DEF AtaCalls
  <2>5. c.n <= MaxTransfer /\ c.lba + c.n <= NSectors
    BY DEF AtaCallOK, InCall
  <2> HIDE DEF t
  <2>6. AtaCallOK(t)
    BY <1>1, <2>1, <2>2, <2>3, <2>4, <2>5 DEF AtaCallOK
  <2> QED
    BY <2>6 DEF t, g, at
<1>4. ASSUME c.op # "read"
      PROVE  /\ c.src[c.i + 1] \in Sectors
             /\ AtaCallOK([c EXCEPT !.i = c.i + 1,
                                    !.at = IF c.i + 1 = c.n THEN "flush" ELSE "transfer"])
  <2>1. c.i + 1 \in 1 .. Len(c.src)
    BY <1>1, <1>4 DEF AtaCallOK
  <2>2. c.src[c.i + 1] \in Sectors
    BY <1>1, <2>1, ElementOfSeq
  <2> DEFINE at == IF last THEN "flush" ELSE "transfer"
             t == [c EXCEPT !.i = c.i + 1, !.at = at]
  <2>3. at \in {"flush", "transfer"} /\ (at = "flush" <=> last)
    OBVIOUS
  <2> HIDE DEF at
  <2>a. at \in Ats /\ c.i + 1 \in Nat
    BY <1>1, <2>3 DEF Ats, InCall
  <2>4. t \in AtaCalls
    BY <1>1, <2>a, CallFields
  <2>5. /\ t.at = at /\ t.op = "write" /\ t.i = c.i + 1 /\ t.n = c.n /\ t.got = c.got
        /\ t.lba = c.lba /\ t.src = c.src
    BY <1>1, <1>4 DEF AtaCalls
  <2>6. /\ c.n <= MaxTransfer /\ c.lba + c.n <= NSectors /\ Len(c.got) <= c.i
        /\ Len(c.src) = c.n
    BY <1>1, <1>4 DEF AtaCallOK, InCall
  <2> HIDE DEF t
  <2>7. AtaCallOK(t)
    BY <1>1, <1>2, <2>3, <2>4, <2>5, <2>6 DEF AtaCallOK
  <2> QED
    BY <2>2, <2>7 DEF t, at
<1> QED
  BY <1>3, <1>4

(* A call from outside, in or out of range. *)
LEMMA Entered ==
  ASSUME DTypes, NEW b \in DOMAIN drives, NEW op \in {"read", "write"}, NEW l \in Nat,
         NEW n \in Nat, NEW src \in Seq(Sectors), op = "write" => Len(src) = n,
         Enter(op, b, l, n, src)
  PROVE  /\ AtaCallOK(call') /\ call'.at \in {"idle", "prepare"} /\ was' = disk
         /\ call'.op = op /\ call'.b = b /\ call'.lba = l /\ call'.n = n /\ call'.i = 0
         /\ call'.got = <<>> /\ call'.src = src
         /\ call'.at = "prepare" <=> n # 0 /\ n <= MaxTransfer /\ l + n <= NSectors
         /\ call'.ok <=> n = 0 \/ (n <= MaxTransfer /\ l + n <= NSectors)
<1>1. drives \in Seq(Entries) /\ DOMAIN drives = 1 .. Len(drives) /\ Len(drives) \in Nat
  BY LenProperties DEF DTypes
<1>2. b \in Nat /\ drives[b] \in Entries
  BY <1>1, ElementOfSeq
<1>3. RangeOk(b, l, n) <=> n <= MaxTransfer /\ l < NSectors /\ l + n <= NSectors
  BY <1>2, Constants DEF RangeOk, Entries
<1> DEFINE fit == n # 0 /\ n <= MaxTransfer /\ l + n <= NSectors
           at == IF fit THEN "prepare" ELSE "idle"
           ok == n = 0 \/ (n <= MaxTransfer /\ l + n <= NSectors)
<1>4. n # 0 /\ RangeOk(b, l, n) <=> fit
  BY <1>3, Constants
<1>5. (n = 0 \/ RangeOk(b, l, n)) <=> ok
  BY <1>3, Constants
<1>6. at \in {"prepare", "idle"} /\ (at = "prepare" <=> fit) /\ ok \in BOOLEAN
  OBVIOUS
<1>7. call' = [at |-> IF n # 0 /\ RangeOk(b, l, n) THEN "prepare" ELSE "idle",
               op |-> op, b |-> b, lba |-> l, n |-> n, i |-> 0, got |-> <<>>, src |-> src,
               ok |-> n = 0 \/ RangeOk(b, l, n)]
  BY DEF Enter, Idle
<1>8. call' = [at |-> at, op |-> op, b |-> b, lba |-> l, n |-> n, i |-> 0, got |-> <<>>,
               src |-> src, ok |-> ok]
  BY <1>4, <1>5, <1>7
<1>9. <<>> \in Seq(Sectors) /\ Len(<<>>) = 0
  BY EmptySeq
<1> HIDE DEF at, ok
<1>a. at \in Ats /\ op \in Ops
  BY <1>6 DEF Ats, Ops, InCall
<1>10. call' \in AtaCalls
  BY <1>2, <1>6, <1>8, <1>9, <1>a DEF AtaCalls
<1>11. /\ call'.at = at /\ call'.op = op /\ call'.b = b /\ call'.lba = l /\ call'.n = n
       /\ call'.i = 0 /\ call'.got = <<>> /\ call'.src = src /\ call'.ok = ok
  BY <1>8
<1>12. at = "idle" /\ ok => n = 0
  BY <1>6 DEF at, ok
<1>13. AtaCallOK(call')
  BY <1>6, <1>9, <1>10, <1>11, <1>12 DEF AtaCallOK, InCall
<1> QED
  BY <1>6, <1>11, <1>13 DEF Enter, ok

-----------------------------------------------------------------------------
(* The table of drives. *)

LEMMA FunctionIsSeq ==
  ASSUME NEW S, NEW n \in Nat, NEW f \in [1 .. n -> S]
  PROVE  f \in Seq(S) /\ Len(f) = n
<1>1. f \in Seq(S)
  BY SeqDef
<1>2. DOMAIN f = 1 .. n
  OBVIOUS
<1> QED
  BY <1>1, <1>2, LenProperties

LEMMA EntriesOfTable ==
  ASSUME DTypes
  PROVE  /\ DOMAIN drives = 1 .. Len(drives) /\ Len(drives) \in Nat
         /\ \A b \in DOMAIN drives :
              /\ b \in Nat /\ drives[b] \in Entries /\ drives[b].drive \in Positions
              /\ drives[b].nsectors = NSectors
<1>1. drives \in Seq(Entries)
  BY DEF DTypes
<1>2. DOMAIN drives = 1 .. Len(drives) /\ Len(drives) \in Nat
  BY <1>1, LenProperties
<1>3. ASSUME NEW b \in DOMAIN drives
      PROVE  b \in Nat /\ drives[b] \in Entries
  BY <1>1, <1>2, <1>3, ElementOfSeq
<1> QED
  BY <1>2, <1>3 DEF Entries

LEMMA FoundKept ==
  ASSUME DTypes, Found, UNCHANGED <<kind, drives, probe>>, late => late',
         faults' \in Nat, faults' >= faults
  PROVE  Found'
<1>1. faults \in Nat
  BY Constants DEF DTypes
<1>2. ~late' /\ faults' = 0 => ~late /\ faults = 0
  BY <1>1
<1> QED
  BY <1>2 DEF Found

(* The set counted when the next position has been looked at.                *)
LEMMA Count ==
  ASSUME DTypes, probe < ATA_MAX_DRIVES
  PROVE  Cardinality({d \in 0 .. probe : kind[d] = "disk"}) =
           Cardinality({d \in 0 .. probe - 1 : kind[d] = "disk"})
             + (IF kind[probe] = "disk" THEN 1 ELSE 0)
<1> DEFINE A == {d \in 0 .. probe - 1 : kind[d] = "disk"}
           B == {d \in 0 .. probe : kind[d] = "disk"}
<1>1. probe \in Nat
  BY DEF DTypes, ATA_MAX_DRIVES
<1>2. IsFiniteSet(0 .. probe - 1)
  BY <1>1, FS_Interval
<1>3. IsFiniteSet(A)
  BY <1>2, FS_Subset
<1>4. probe \notin A
  BY <1>1
<1>5. B = IF kind[probe] = "disk" THEN A \union {probe} ELSE A
  BY <1>1
<1>6. Cardinality(A) \in Nat
  BY <1>3, FS_CardinalityType
<1>7. Cardinality(A \union {probe}) = Cardinality(A) + 1
  BY <1>3, <1>4, FS_AddElement
<1> HIDE DEF A, B
<1>8. Cardinality(B) = Cardinality(A) + (IF kind[probe] = "disk" THEN 1 ELSE 0)
  BY <1>5, <1>6, <1>7
<1> QED
  BY <1>8 DEF A, B

LEMMA FoundNext ==
  ASSUME DTypes, Found, probe < ATA_MAX_DRIVES, probe' = probe + 1,
         UNCHANGED <<kind, drives, faults>>, late => late',
         kind[probe] = "disk" => late' \/ faults > 0
  PROVE  Found'
<1>1. probe \in Nat
  BY DEF DTypes, ATA_MAX_DRIVES
<1>2. \A b \in DOMAIN drives : drives[b].drive \in Nat
  BY EntriesOfTable, Constants
<1>3. ASSUME ~late', faults' = 0
      PROVE  Len(drives') = Cardinality({d \in 0 .. probe' - 1 : kind'[d] = "disk"})
  <2> DEFINE A == {d \in 0 .. probe - 1 : kind[d] = "disk"}
             B == {d \in 0 .. probe : kind[d] = "disk"}
  <2>1. ~late /\ faults = 0 /\ kind[probe] # "disk"
    BY <1>3
  <2>2. Len(drives) = Cardinality(A)
    BY <2>1 DEF Found
  <2>3. Cardinality(B) = Cardinality(A) + 0
    BY <2>1, Count
  <2>4. Len(drives) \in Nat
    BY EntriesOfTable
  <2>5. probe' - 1 = probe
    BY <1>1
  <2> HIDE DEF A, B
  <2>6. Len(drives') = Cardinality(B)
    BY <2>2, <2>3, <2>4
  <2> QED
    BY <2>5, <2>6 DEF B
<1> QED
  BY <1>1, <1>2, <1>3 DEF Found

LEMMA FoundRegister ==
  ASSUME DTypes, Found, probe < ATA_MAX_DRIVES, probe' = probe + 1, kind[probe] = "disk",
         drives' = Register(NSectors), UNCHANGED <<kind, faults>>, late => late'
  PROVE  Found' /\ drives' \in Seq(Entries)
<1> DEFINE e == [drive |-> probe, minor |-> probe * 64, nsectors |-> NSectors]
<1>1. probe \in {0, 1} /\ probe \in Positions
  BY Constants DEF DTypes
<1>2. e \in Entries /\ e.drive = probe /\ e.minor = 64 * probe
  BY <1>1 DEF Entries
<1>3. drives \in Seq(Entries) /\ Len(drives) \in Nat /\ DOMAIN drives = 1 .. Len(drives)
  BY EntriesOfTable DEF DTypes
<1>4. drives' = Append(drives, e)
  BY DEF Register
<1> HIDE DEF e
<1>5. /\ drives' \in Seq(Entries) /\ Len(drives') = Len(drives) + 1
      /\ DOMAIN drives' = 1 .. Len(drives) + 1
      /\ \A b \in DOMAIN drives : drives'[b] = drives[b]
      /\ drives'[Len(drives) + 1] = e
  BY <1>2, <1>3, <1>4
<1>6. \A b \in DOMAIN drives' :
        \/ b \in DOMAIN drives /\ drives'[b] = drives[b]
        \/ b = Len(drives) + 1 /\ drives'[b] = e
  BY <1>3, <1>5
<1>7. \A b \in DOMAIN drives : drives[b].drive \in Nat /\ drives[b].drive < probe /\ b < Len(drives) + 1
  BY <1>3, EntriesOfTable, Constants DEF Found
<1>8. \A b \in DOMAIN drives' :
        /\ kind'[drives'[b].drive] = "disk" /\ drives'[b].minor = 64 * drives'[b].drive
        /\ drives'[b].drive < probe'
  BY <1>1, <1>2, <1>6, <1>7 DEF Found
<1>9. \A b, c \in DOMAIN drives' : b < c => drives'[b].drive < drives'[c].drive
  <2> TAKE b, c \in DOMAIN drives'
  <2> HAVE b < c
  <2>1. b \in DOMAIN drives /\ drives'[b] = drives[b]
    BY <1>3, <1>5, <1>6
  <2>2. CASE c \in DOMAIN drives /\ drives'[c] = drives[c]
    BY <2>1, <2>2 DEF Found
  <2>3. CASE c = Len(drives) + 1 /\ drives'[c] = e
    BY <1>2, <1>7, <2>1, <2>3
  <2> QED
    BY <1>6, <2>2, <2>3
<1>10. ASSUME ~late', faults' = 0
       PROVE  Len(drives') = Cardinality({d \in 0 .. probe' - 1 : kind'[d] = "disk"})
  <2> DEFINE A == {d \in 0 .. probe - 1 : kind[d] = "disk"}
             B == {d \in 0 .. probe : kind[d] = "disk"}
  <2>1. ~late /\ faults = 0
    BY <1>10
  <2>2. Len(drives) = Cardinality(A)
    BY <2>1 DEF Found
  <2>3. Cardinality(B) = Cardinality(A) + 1
    BY Count
  <2>4. probe' - 1 = probe
    BY <1>1
  <2> HIDE DEF A, B
  <2>5. Len(drives') = Cardinality(B)
    BY <1>5, <2>2, <2>3
  <2> QED
    BY <2>4, <2>5 DEF B
<1> QED
  BY <1>5, <1>8, <1>9, <1>10 DEF Found

(* Once every position has been looked at nothing is asked of Probed.        *)
LEMMA ProbedOver ==
  ASSUME probe' = ATA_MAX_DRIVES, call'.at \notin Probing
  PROVE  Probed'
<1>1. \A d \in Positions : ~(d > probe') /\ d # probe'
  BY Constants
<1>2. Positions' = Positions
  BY Constants DEF Positions, ATA_MAX_DRIVES
<1> QED
  BY <1>1, <1>2 DEF Probed, Probing

-----------------------------------------------------------------------------
(* Init, and the steps of the drives. *)

LEMMA InitDrives ==
  ASSUME Init
  PROVE  DInv
<1>1. Junk \in Sectors /\ \A d \in Positions, l \in LBAs : Original(d, l) \in Sectors
  BY SectorsMade
<1>2. DriveOK(Quiet) /\ AtaCallOK(Idle) /\ Quiet \in Drives
  <2>1. Quiet \in Drives /\ Quiet.busy = FALSE /\ Quiet.drq = FALSE
    BY <1>1, Constants DEF Quiet, Drives, Commands
  <2>2. DriveOK(Quiet)
    BY <2>1 DEF DriveOK
  <2>3. AtaCallOK(Idle)
    BY EmptySeq DEF AtaCallOK, Idle, AtaCalls, Ats, Ops, Probing, InCall
  <2> QED
    BY <2>1, <2>2, <2>3
<1>3. IoCallOK(None)
  BY <1>1, EmptySeq DEF IoCallOK, None, IoCalls, InLoop
<1>4. disk \in Disks
  BY <1>1 DEF Init, AtaInit, Disks
<1>5. drives = <<>> /\ drives \in Seq(Entries) /\ Len(drives) = 0 /\ DOMAIN drives = {}
  BY EmptySeq DEF Init, AtaInit
<1>6. DTypes
  BY <1>2, <1>3, <1>4, <1>5, Constants DEF DTypes, Init, AtaInit, Kinds
<1>7. Phases
  BY DEF Phases, Init, AtaInit, Idle, None, Probing, InCall, InLoop
<1>8. Found
  <2>1. {d \in 0 .. probe - 1 : kind[d] = "disk"} = {}
    BY DEF Init, AtaInit
  <2> QED
    BY <1>5, <2>1, FS_EmptySet DEF Found
<1>9. Probed
  BY DEF Probed, Init, AtaInit, Idle, Probing
<1> QED
  BY <1>6, <1>7, <1>8, <1>9 DEF DInv

LEMMA Became ==
  ASSUME DTypes, NEW d \in Positions, NEW s, DriveOK(s), Becomes(d, s)
  PROVE  /\ drv' \in [Positions -> Drives] /\ \A e \in Positions : DriveOK(drv'[e])
         /\ drv'[d] = s /\ \A e \in Positions \ {d} : drv'[e] = drv[e]
<1>1. /\ drv \in [Positions -> Drives] /\ \A e \in Positions : DriveOK(drv[e])
      /\ s \in Drives /\ drv' = [drv EXCEPT ![d] = s]
  BY DEF DTypes, DriveOK, Becomes
<1>2. drv' \in [Positions -> Drives] /\ \A e \in Positions : drv'[e] = IF e = d THEN s ELSE drv[e]
  BY <1>1
<1> QED
  BY <1>1, <1>2

(* What a busy drive may become, and what it leaves alone.                   *)
LEMMA Worked ==
  ASSUME DTypes, NEW d \in Positions, Work(d)
  PROVE  /\ drv' \in [Positions -> Drives] /\ \A e \in Positions : DriveOK(drv'[e])
         /\ \A e \in Positions \ {d} : drv'[e] = drv[e]
         /\ disk' \in Disks /\ faults' \in 0 .. MaxFaults /\ faults' >= faults
         /\ drv'[d].cmd \in {drv[d].cmd, "none"}
         /\ drv'[d].lba = drv[d].lba \/ drv'[d].lba = 0 \/ drv[d].cmd = "write"
         /\ drv'[d].err => drv[d].err \/ faults' > 0 \/ drv[d].lba \notin LBAs \/ kind[d] = "cdrom"
<1>1. /\ drv[d] \in Drives /\ DriveOK(drv[d]) /\ disk \in Disks /\ drv[d].busy
      /\ faults \in 0 .. MaxFaults /\ faults \in Nat
  BY Constants DEF DTypes, Work
<1>2. Stored(d) \in Disks
  BY <1>1 DEF Stored, Disks, Drives
<1>3. /\ Quiet.cmd = "none" /\ Refused.cmd = "none" /\ Quiet.lba = 0 /\ Refused.lba = 0
      /\ ~Quiet.err
  BY DEF Quiet, Refused
<1>4. DriveOK(Quiet) /\ DriveOK(Refused) /\ Quiet \in Drives /\ Refused \in Drives
  BY <1>1, DriveValues DEF DriveOK
<1> DEFINE Good(s) ==
             /\ DriveOK(s) /\ Becomes(d, s) /\ s.cmd \in {drv[d].cmd, "none"}
             /\ s.lba = drv[d].lba \/ s.lba = 0 \/ drv[d].cmd = "write"
             /\ s.err => drv[d].err \/ faults' > 0 \/ drv[d].lba \notin LBAs \/ kind[d] = "cdrom"
           Else == disk' \in Disks /\ faults' \in 0 .. MaxFaults /\ faults' >= faults
<1>5. CASE Becomes(d, Waiting(drv[d])) /\ UNCHANGED <<disk, faults>>
           /\ (drv[d].cmd = "read" => drv[d].lba \in LBAs)
  <2>1. DriveOK(Waiting(drv[d]))
    BY <1>1, <1>5, DriveValues
  <2>2. /\ Waiting(drv[d]).cmd = drv[d].cmd /\ Waiting(drv[d]).lba = drv[d].lba
        /\ Waiting(drv[d]).err = drv[d].err
    BY <1>1 DEF Waiting, Drives
  <2>3. Good(Waiting(drv[d])) /\ Else
    BY <1>1, <1>5, <2>1, <2>2
  <2> QED
    BY <2>3, Became
<1>6. CASE /\ drv[d].cmd = "write" /\ disk' = Stored(d) /\ UNCHANGED faults
           /\ Becomes(d, IF drv[d].left = 1 THEN Quiet ELSE Waiting(Further(drv[d])))
  <2>1. CASE drv[d].left = 1
    <3>1. Good(Quiet) /\ Else
      BY <1>1, <1>2, <1>3, <1>4, <1>6, <2>1
    <3> QED
      BY <3>1, Became
  <2>2. CASE drv[d].left # 1
    <3>1. DriveOK(Waiting(Further(drv[d])))
      BY <1>1, <1>6, <2>2, DriveValues
    <3>2. Waiting(Further(drv[d])).cmd = drv[d].cmd /\ Waiting(Further(drv[d])).err = drv[d].err
      BY <1>1 DEF Waiting, Further, Drives
    <3>3. Good(Waiting(Further(drv[d]))) /\ Else
      BY <1>1, <1>2, <1>6, <2>2, <3>1, <3>2
    <3> QED
      BY <3>3, Became
  <2> QED
    BY <2>1, <2>2
<1>7. CASE drv[d].cmd = "flush" /\ Becomes(d, Quiet) /\ UNCHANGED <<disk, faults>>
  <2>1. Good(Quiet) /\ Else
    BY <1>1, <1>3, <1>4, <1>7
  <2> QED
    BY <2>1, Became
<1>8. CASE /\ drv[d].lba \notin LBAs \/ (drv[d].cmd = "identify" /\ kind[d] = "cdrom")
           /\ Becomes(d, Refused) /\ UNCHANGED <<disk, faults>>
  <2>1. Good(Refused) /\ Else
    BY <1>1, <1>3, <1>4, <1>8
  <2> QED
    BY <2>1, Became
<1>9. CASE /\ faults < MaxFaults /\ faults' = faults + 1 /\ Becomes(d, Refused)
           /\ disk' \in {disk} \union (IF drv[d].data # Junk THEN {Stored(d)} ELSE {})
  <2>1. faults' \in 0 .. MaxFaults /\ faults' >= faults /\ faults' > 0
    BY <1>1, <1>9, Constants
  <2>2. Good(Refused) /\ Else
    BY <1>1, <1>2, <1>3, <1>4, <1>9, <2>1
  <2> QED
    BY <2>2, Became
<1> QED
  BY <1>1, <1>5, <1>6, <1>7, <1>8, <1>9 DEF Work

LEMMA WorkDrives ==
  ASSUME DInv, NEW d \in Positions, Work(d), UNCHANGED <<io, before>>
  PROVE  DInv'
<1>1. DTypes /\ Phases /\ Found /\ Probed
  BY DEF DInv
<1>2. UNCHANGED <<kind, sel, drives, probe, call, was, late, calls, io, before>> /\ drv[d].busy
  BY DEF Work
<1>3. /\ drv' \in [Positions -> Drives] /\ \A e \in Positions : DriveOK(drv'[e])
      /\ \A e \in Positions \ {d} : drv'[e] = drv[e]
      /\ disk' \in Disks /\ faults' \in 0 .. MaxFaults /\ faults' >= faults
      /\ drv'[d].cmd \in {drv[d].cmd, "none"}
      /\ drv'[d].lba = drv[d].lba \/ drv'[d].lba = 0 \/ drv[d].cmd = "write"
      /\ drv'[d].err => drv[d].err \/ faults' > 0 \/ drv[d].lba \notin LBAs \/ kind[d] = "cdrom"
  BY <1>1, Worked
<1>4. DTypes'
  BY <1>1, <1>2, <1>3 DEF DTypes
<1>5. Phases'
  BY <1>1, <1>2 DEF Phases
<1>6. Found'
  BY <1>1, <1>2, <1>3, FoundKept, Constants
<1>7. ASSUME NEW e \in Positions, e > probe \/ (e = probe /\ call.at = "idle")
      PROVE  drv'[e] = Quiet
  <2>1. drv[e] = Quiet
    BY <1>1, <1>7 DEF Probed
  <2>2. e # d
    BY <1>2, <2>1 DEF Quiet
  <2> QED
    BY <1>3, <2>1, <2>2
<1>8. ASSUME call.at \in Probing, kind[probe] = "disk"
      PROVE  /\ drv'[probe].cmd \in {"none", "identify"} /\ drv'[probe].lba = 0
             /\ faults' = 0 => ~drv'[probe].err
  <2>1. /\ drv[probe].cmd \in {"none", "identify"} /\ drv[probe].lba = 0
        /\ faults = 0 => ~drv[probe].err
    BY <1>1, <1>8 DEF Probed
  <2>2. probe \in Positions /\ faults \in Nat
    BY <1>1, <1>8, Constants DEF Phases, DTypes
  <2>3. CASE probe # d
    BY <1>3, <2>1, <2>2, <2>3, Constants
  <2>4. CASE probe = d
    BY <1>3, <1>8, <2>1, <2>2, <2>4, Constants
  <2> QED
    BY <2>3, <2>4
<1>9. Probed'
  BY <1>1, <1>2, <1>7, <1>8 DEF Probed
<1> QED
  BY <1>4, <1>5, <1>6, <1>9 DEF DInv

-----------------------------------------------------------------------------
(* The steps of the driver. *)

(* A step of a call from outside. *)
LEMMA CallStep ==
  ASSUME DInv, call.at \in InCall, AtaCallOK(call'), call'.at \in InCall \union {"idle"},
         call'.b = call.b, call'.op = call.op, call'.n = call.n,
         drv' \in [Positions -> Drives], \A d \in Positions : DriveOK(drv'[d]),
         sel' \in Positions, late' \in BOOLEAN, late => late',
         UNCHANGED <<kind, disk, drives, probe, was, faults, calls, io, before>>
  PROVE  DInv'
<1>1. DTypes /\ Phases /\ Found
  BY DEF DInv
<1>2. DTypes'
  BY <1>1 DEF DTypes
<1>3. probe = ATA_MAX_DRIVES /\ call.at # "idle" /\ call'.at \notin Probing
  BY <1>1 DEF Phases, InCall, Probing
<1>4. Phases'
  BY <1>1, <1>3 DEF Phases
<1>5. faults \in Nat
  BY <1>1, Constants DEF DTypes
<1>6. Found'
  BY <1>1, <1>5, FoundKept
<1>7. Probed'
  BY <1>3, ProbedOver
<1> QED
  BY <1>2, <1>4, <1>6, <1>7 DEF DInv

LEMMA PrepareDrives ==
  ASSUME DInv, Prepare, UNCHANGED <<io, before>>
  PROVE  DInv'
<1>1. DTypes /\ Phases /\ AtaCallOK(call) /\ call.at = "prepare" /\ call.at \in InCall
  BY DEF DInv, DTypes, Prepare, InCall
<1>2. UNCHANGED <<kind, disk, drives, probe, was, faults, calls, io, before>>
  BY DEF Prepare
<1> DEFINE d == drives[call.b].drive
<1>3. d \in Positions
  BY <1>1, EntriesOfTable DEF Phases
<1>4. call \in AtaCalls /\ call.n <= MaxTransfer /\ call.op \in {"read", "write"}
  BY <1>1 DEF AtaCallOK
<1>5. call.n % MaxTransfer \in 0 .. MaxTransfer /\ call.lba \in Nat /\ call.op \in Commands
  BY <1>4, Constants DEF AtaCalls, Commands
<1>6. /\ drv \in [Positions -> Drives] /\ \A e \in Positions : DriveOK(drv[e])
      /\ sel \in Positions /\ late \in BOOLEAN
  BY <1>1 DEF DTypes
<1>7. late' \in BOOLEAN /\ (late => late')
  BY <1>6 DEF Prepare, AtaWait
<1>8. CASE Answer(FALSE) /\ UNCHANGED <<sel, drv>>
  <2>1. call' = [call EXCEPT !.at = "idle", !.ok = FALSE]
    BY <1>8 DEF Answer
  <2>2. AtaCallOK(call')
    BY <1>1, <2>1, CallValues
  <2>3. call'.at = "idle" /\ call'.b = call.b /\ call'.op = call.op /\ call'.n = call.n
    BY <1>4, <2>1 DEF AtaCalls
  <2> QED
    BY <1>1, <1>2, <1>6, <1>7, <1>8, <2>2, <2>3, CallStep
<1>9. CASE /\ sel' = d /\ drv' = Command(d, call.op, call.lba, call.n % MaxTransfer)
           /\ call' = [call EXCEPT !.at = "transfer"]
  <2>1. AtaCallOK(call')
    BY <1>1, <1>9, CallValues
  <2>2. call'.at = "transfer" /\ call'.b = call.b /\ call'.op = call.op /\ call'.n = call.n
    BY <1>4, <1>9 DEF AtaCalls
  <2>3. drv' \in [Positions -> Drives] /\ \A e \in Positions : DriveOK(drv'[e])
    BY <1>1, <1>3, <1>5, <1>9, CommandDrives
  <2> QED
    BY <1>1, <1>2, <1>3, <1>7, <1>9, <2>1, <2>2, <2>3, CallStep DEF InCall
<1> QED
  BY <1>8, <1>9 DEF Prepare, AtaWait

LEMMA TransferDrives ==
  ASSUME DInv, Transfer, UNCHANGED <<io, before>>
  PROVE  DInv'
<1>1. DTypes /\ Phases /\ AtaCallOK(call) /\ call.at = "transfer" /\ call.at \in InCall
  BY DEF DInv, DTypes, Transfer, InCall
<1>2. UNCHANGED <<kind, disk, sel, drives, probe, was, faults, calls, io, before>>
  BY DEF Transfer
<1>3. call \in AtaCalls /\ call.op \in {"read", "write"}
  BY <1>1 DEF AtaCallOK
<1>4. /\ drv \in [Positions -> Drives] /\ \A e \in Positions : DriveOK(drv[e])
      /\ sel \in Positions /\ late \in BOOLEAN
  BY <1>1 DEF DTypes
<1>5. late' \in BOOLEAN /\ (late => late')
  BY <1>4 DEF Transfer, AtaWait
<1>6. CASE Answer(FALSE) /\ UNCHANGED drv
  <2>1. call' = [call EXCEPT !.at = "idle", !.ok = FALSE]
    BY <1>6 DEF Answer
  <2>2. AtaCallOK(call')
    BY <1>1, <2>1, CallValues
  <2>3. call'.at = "idle" /\ call'.b = call.b /\ call'.op = call.op /\ call'.n = call.n
    BY <1>3, <2>1 DEF AtaCalls
  <2> QED
    BY <1>1, <1>2, <1>4, <1>5, <1>6, <2>2, <2>3, CallStep
<1>7. CASE call.op = "read" /\ TakeSector
  <2>1. SectorIn \in Sectors /\ DriveOK(AfterIn)
    BY <1>1, DataRegister
  <2> DEFINE at == IF call.i + 1 = call.n THEN "idle" ELSE "transfer"
  <2>2. call' = [call EXCEPT !.got = Append(call.got, SectorIn), !.i = call.i + 1, !.at = at]
    BY <1>3, <1>7 DEF TakeSector, Last
  <2>3. AtaCallOK(call')
    BY <1>1, <1>7, <2>1, <2>2, SectorMoved
  <2>4. call'.at = at /\ call'.b = call.b /\ call'.op = call.op /\ call'.n = call.n
    BY <1>3, <2>2 DEF AtaCalls
  <2>5. drv' \in [Positions -> Drives] /\ \A e \in Positions : DriveOK(drv'[e])
    BY <1>1, <1>4, <1>7, <2>1, Became DEF TakeSector
  <2> QED
    BY <1>1, <1>2, <1>4, <1>5, <2>3, <2>4, <2>5, CallStep DEF InCall
<1>8. CASE call.op # "read" /\ GiveSector
  <2> DEFINE at == IF call.i + 1 = call.n THEN "flush" ELSE "transfer"
  <2>1. call' = [call EXCEPT !.i = call.i + 1, !.at = at]
    BY <1>3, <1>8 DEF GiveSector, Last
  <2>2. Junk \in Sectors
    BY SectorsMade
  <2>3. call.src[call.i + 1] \in Sectors /\ AtaCallOK(call')
    BY <1>1, <1>8, <2>1, <2>2, SectorMoved
  <2>4. call'.at = at /\ call'.b = call.b /\ call'.op = call.op /\ call'.n = call.n
    BY <1>3, <2>1 DEF AtaCalls
  <2>5. DriveOK(AfterOut(call.src[call.i + 1]))
    BY <1>1, <2>3, DataRegister
  <2>6. drv' \in [Positions -> Drives] /\ \A e \in Positions : DriveOK(drv'[e])
    BY <1>1, <1>4, <1>8, <2>5, Became DEF GiveSector
  <2> QED
    BY <1>1, <1>2, <1>4, <1>5, <2>3, <2>4, <2>6, CallStep DEF InCall
<1> QED
  BY <1>6, <1>7, <1>8 DEF Transfer, AtaWait

LEMMA FlushDrives ==
  ASSUME DInv, Flush \/ Flushed, UNCHANGED <<io, before>>
  PROVE  DInv'
<1>1. DTypes /\ AtaCallOK(call) /\ call \in AtaCalls
  BY DEF DInv, DTypes, AtaCallOK
<1>2. /\ drv \in [Positions -> Drives] /\ \A e \in Positions : DriveOK(drv[e])
      /\ sel \in Positions /\ late \in BOOLEAN
  BY <1>1 DEF DTypes
<1>3. CASE Flush
  <2>1. call' = [call EXCEPT !.at = "flushed"] /\ call.at = "flush"
    BY <1>3 DEF Flush
  <2>2. AtaCallOK(call')
    BY <1>1, <2>1, CallValues
  <2>3. call'.at = "flushed" /\ call'.b = call.b /\ call'.op = call.op /\ call'.n = call.n
    BY <1>1, <2>1 DEF AtaCalls
  <2>4. "flush" \in Commands /\ 1 \in 0 .. MaxTransfer /\ 0 \in Nat
    BY Constants DEF Commands
  <2>5. drv' \in [Positions -> Drives] /\ \A e \in Positions : DriveOK(drv'[e])
    BY <1>1, <1>2, <1>3, <2>4, CommandDrives DEF Flush
  <2> QED
    BY <1>2, <1>3, <2>1, <2>2, <2>3, <2>5, CallStep DEF InCall, Flush
<1>4. CASE Flushed
  <2>1. call.at = "flushed" /\ UNCHANGED drv /\ late' \in BOOLEAN /\ (late => late')
    BY <1>2, <1>4 DEF Flushed, AtaWait
  <2>2. \/ call' = [call EXCEPT !.at = "idle", !.ok = TRUE]
        \/ call' = [call EXCEPT !.at = "idle", !.ok = FALSE]
    BY <1>4 DEF Flushed, AtaWait, Answer
  <2>3. AtaCallOK(call')
    BY <1>1, <2>1, <2>2, CallValues
  <2>4. call'.at = "idle" /\ call'.b = call.b /\ call'.op = call.op /\ call'.n = call.n
    BY <1>1, <2>2 DEF AtaCalls
  <2> QED
    BY <1>2, <1>4, <2>1, <2>3, <2>4, CallStep DEF InCall, Flushed
<1> QED
  BY <1>3, <1>4

(* A step of the probe that goes on to the next position. *)
LEMMA ProbeEnds ==
  ASSUME DInv, call.at \in Probing, ProbeNext,
         drv' \in [Positions -> Drives], \A d \in Positions : DriveOK(drv'[d]),
         \A d \in Positions \ {sel} : drv'[d] = drv[d],
         drives' \in Seq(Entries), Found', late' \in BOOLEAN,
         UNCHANGED <<kind, disk, sel, was, faults, calls, io, before>>
  PROVE  DInv'
<1>1. DTypes /\ Phases /\ Probed /\ probe \in 0 .. ATA_MAX_DRIVES
  BY DEF DInv, DTypes
<1>2. probe < ATA_MAX_DRIVES /\ sel = probe /\ probe' = probe + 1 /\ call' = Idle
  BY <1>1 DEF Phases, ProbeNext
<1>3. AtaCallOK(Idle) /\ Idle.at = "idle" /\ probe' \in 0 .. ATA_MAX_DRIVES
  <2>1. AtaCallOK(Idle)
    BY <1>1, CallValues DEF DTypes
  <2>2. probe' \in 0 .. ATA_MAX_DRIVES
    BY <1>1, <1>2, Constants
  <2> QED
    BY <2>1, <2>2 DEF Idle
<1>4. DTypes'
  BY <1>1, <1>2, <1>3 DEF DTypes
<1>5. io.at = "idle" /\ io.op = "none"
  BY <1>1, <1>2, Constants DEF Phases
<1>6. Phases'
  BY <1>2, <1>3, <1>5 DEF Phases, Probing, InCall, InLoop, Idle
<1>7. ASSUME NEW d \in Positions, d > probe' \/ d = probe'
      PROVE  drv'[d] = Quiet
  <2>1. d > probe /\ d # sel
    BY <1>1, <1>2, <1>7, Constants
  <2> QED
    BY <1>1, <2>1 DEF Probed
<1>8. Probed'
  BY <1>2, <1>3, <1>7 DEF Probed, Probing
<1> QED
  BY <1>4, <1>6, <1>8 DEF DInv

LEMMA ProbeCommandDrives ==
  ASSUME DInv, ProbeCommand, UNCHANGED <<io, before>>
  PROVE  DInv'
<1>1. DTypes /\ Phases /\ Found /\ Probed
  BY DEF DInv
<1>2. /\ probe < ATA_MAX_DRIVES /\ call.at = "idle" /\ sel' = probe
      /\ drv' = Command(probe, "identify", 0, 1)
      /\ call' = [Idle EXCEPT !.at = "status", !.op = "identify"]
      /\ UNCHANGED <<kind, disk, drives, probe, was, late, faults, calls>>
  BY DEF ProbeCommand
<1>3. probe \in Positions /\ "identify" \in Commands /\ 0 \in Nat /\ 1 \in 0 .. MaxTransfer
  BY <1>1, <1>2, Constants DEF DTypes, Commands
<1>4. /\ drv' \in [Positions -> Drives] /\ \A d \in Positions : DriveOK(drv'[d])
      /\ \A d \in Positions \ {probe} : drv'[d] = drv[d]
  <2>1. drv' \in [Positions -> Drives] /\ \A d \in Positions : DriveOK(drv'[d])
    BY <1>1, <1>2, <1>3, CommandDrives
  <2>2. \A d \in Positions \ {probe} : drv'[d] = drv[d]
    BY <1>1, <1>2, <1>3 DEF Command, DTypes
  <2> QED
    BY <2>1, <2>2
<1>5. AtaCallOK(call) /\ AtaCallOK(call') /\ call'.at = "status" /\ call'.b = 0
  BY <1>1, <1>2, CallValues DEF DTypes, Idle
<1>6. DTypes'
  BY <1>1, <1>2, <1>3, <1>4, <1>5 DEF DTypes
<1>7. io.at = "idle" /\ io.op = "none"
  BY <1>1, <1>2, Constants DEF Phases
<1>8. Phases'
  BY <1>2, <1>5, <1>7 DEF Phases, Probing, InCall, InLoop
<1>9. Found'
  BY <1>1, <1>2, FoundKept, Constants DEF DTypes
<1>10. ASSUME NEW d \in Positions, d > probe
       PROVE  drv'[d] = Quiet
  BY <1>1, <1>3, <1>4, <1>10, Constants DEF Probed
<1>11. drv[probe] = Quiet
  BY <1>1, <1>2, <1>3 DEF Probed
<1>12. drv'[probe].cmd \in {"none", "identify"} /\ drv'[probe].lba = 0 /\ ~drv'[probe].err
  BY <1>1, <1>2, <1>3, <1>11 DEF Command, Quiet, DTypes
<1>13. Probed'
  BY <1>2, <1>5, <1>10, <1>12 DEF Probed, Probing
<1> QED
  BY <1>6, <1>8, <1>9, <1>13 DEF DInv

(* A step of the probe that stays at its position. *)
LEMMA ProbeGoesOn ==
  ASSUME DInv, call.at \in Probing, NEW at \in {"signature", "capacity"},
         call' = [call EXCEPT !.at = at],
         kind[sel] # "none", at = "capacity" => kind[sel] = "disk",
         late' \in BOOLEAN, late => late',
         UNCHANGED <<kind, disk, drv, sel, drives, probe, was, faults, calls, io, before>>
  PROVE  DInv'
<1>1. DTypes /\ Phases /\ Found /\ Probed /\ AtaCallOK(call) /\ call \in AtaCalls
  BY DEF DInv, DTypes, AtaCallOK
<1>2. AtaCallOK(call') /\ call'.at = at /\ call'.b = call.b /\ call'.op = call.op
  BY <1>1, CallValues DEF Probing, AtaCalls
<1>3. DTypes'
  BY <1>1, <1>2 DEF DTypes
<1>4. probe < ATA_MAX_DRIVES /\ sel = probe /\ io.at = "idle"
  BY <1>1, Constants DEF Phases
<1>5. Phases'
  BY <1>1, <1>2, <1>4 DEF Phases, Probing, InCall, InLoop
<1>6. Found'
  BY <1>1, FoundKept, Constants DEF DTypes
<1>7. Probed'
  BY <1>1, <1>2, <1>4 DEF Probed, Probing
<1> QED
  BY <1>3, <1>5, <1>6, <1>7 DEF DInv

LEMMA ProbeDrives ==
  ASSUME DInv, ProbeStatus \/ ProbeSignature \/ ProbeCapacity, UNCHANGED <<io, before>>
  PROVE  DInv'
<1>1. DTypes /\ Phases /\ Found /\ Probed
  BY DEF DInv
<1>2. call.at \in Probing /\ probe < ATA_MAX_DRIVES /\ sel = probe /\ kind[sel] \in Kinds
  BY <1>1, Constants
     DEF Phases, ProbeStatus, ProbeSignature, ProbeCapacity, Probing, DTypes
<1>3. /\ drv \in [Positions -> Drives] /\ \A d \in Positions : DriveOK(drv[d])
      /\ sel \in Positions /\ late \in BOOLEAN /\ drives \in Seq(Entries) /\ faults \in Nat
  BY <1>1, Constants DEF DTypes
<1>4. CASE ProbeStatus
  <2>1. CASE kind[sel] = "none" /\ ProbeNext
    <3>1. Found'
      BY <1>1, <1>2, <1>4, <2>1, FoundNext DEF ProbeStatus, ProbeNext
    <3> QED
      BY <1>2, <1>3, <1>4, <2>1, <3>1, ProbeEnds DEF ProbeStatus
  <2>2. CASE kind[sel] # "none" /\ call' = [call EXCEPT !.at = "signature"] /\ UNCHANGED probe
    BY <1>2, <1>3, <1>4, <2>2, ProbeGoesOn DEF ProbeStatus
  <2> QED
    BY <1>4, <2>1, <2>2 DEF ProbeStatus
<1>5. CASE ProbeSignature
  <2>1. /\ UNCHANGED <<kind, disk, drv, sel, drives, was, faults, calls>>
        /\ kind[sel] # "none" /\ late' \in BOOLEAN /\ (late => late')
    BY <1>1, <1>2, <1>3, <1>5 DEF ProbeSignature, Probed, AtaWait
  <2>2. CASE ProbeNext /\ (kind[sel] = "cdrom" \/ Selected.err \/ late')
    <3>1. kind[probe] = "disk" => late' \/ faults > 0
      BY <1>1, <1>2, <1>3, <2>2 DEF Probed, Selected
    <3>2. Found'
      BY <1>1, <1>2, <2>1, <2>2, <3>1, FoundNext DEF ProbeNext
    <3> QED
      BY <1>2, <1>3, <2>1, <2>2, <3>2, ProbeEnds
  <2>3. CASE kind[sel] # "cdrom" /\ call' = [call EXCEPT !.at = "capacity"] /\ UNCHANGED probe
    BY <1>2, <1>3, <2>1, <2>3, ProbeGoesOn DEF Kinds
  <2> QED
    BY <1>5, <2>2, <2>3 DEF ProbeSignature, AtaWait
<1>6. CASE ProbeCapacity
  <2>1. /\ UNCHANGED <<kind, disk, sel, was, faults, calls>>
        /\ kind[sel] = "disk" /\ late' \in BOOLEAN /\ (late => late')
    BY <1>1, <1>2, <1>3, <1>6 DEF ProbeCapacity, Probed, AtaWait
  <2>2. CASE UNCHANGED <<drv, drives>> /\ ProbeNext /\ (Selected.err \/ late')
    <3>1. kind[probe] = "disk" => late' \/ faults > 0
      BY <1>1, <1>2, <1>3, <2>2 DEF Probed, Selected
    <3>2. Found'
      BY <1>1, <1>2, <2>1, <2>2, <3>1, FoundNext DEF ProbeNext
    <3> QED
      BY <1>2, <1>3, <2>1, <2>2, <3>2, ProbeEnds
  <2>3. CASE Becomes(sel, AfterIn) /\ drives' = Register(NSectors) /\ ProbeNext
    <3>1. Found' /\ drives' \in Seq(Entries)
      BY <1>1, <1>2, <2>1, <2>3, FoundRegister DEF ProbeNext
    <3>2. DriveOK(AfterIn)
      BY <1>1, DataRegister
    <3>3. /\ drv' \in [Positions -> Drives] /\ \A d \in Positions : DriveOK(drv'[d])
          /\ \A d \in Positions \ {sel} : drv'[d] = drv[d]
      BY <1>1, <1>3, <2>3, <3>2, Became
    <3> QED
      BY <1>2, <1>3, <2>1, <2>3, <3>1, <3>3, ProbeEnds
  <2> QED
    BY <1>6, <2>2, <2>3 DEF ProbeCapacity, AtaWait
<1> QED
  BY <1>4, <1>5, <1>6

-----------------------------------------------------------------------------
(* The calls of the byte view. *)

LEMMA IoValues ==
  ASSUME NEW o, IoCallOK(o)
  PROVE  /\ IoCallOK(None)
         /\ \A a \in -1 .. o.n : IoCallOK([o EXCEPT !.at = "idle", !.ans = a])
         /\ o.done < o.n /\ o.op = "read" => IoCallOK([o EXCEPT !.at = "copy"])
         /\ o.done < o.n /\ o.op = "write" => IoCallOK([o EXCEPT !.at = "modify"])
         /\ o.done < o.n /\ o.op = "write" =>
              \A s \in Sectors : IoCallOK([o EXCEPT !.at = "written", !.bounce = s])
         /\ o.at \in InLoop => \A k \in 1 .. o.n - o.done :
              /\ IoCallOK([o EXCEPT !.at = "loop", !.done = o.done + k])
              /\ \A s \in Sectors, t \in Seq(Byte) : Len(t) <= o.done + k =>
                   IoCallOK([o EXCEPT !.at = "loop", !.done = o.done + k,
                                      !.bounce = s, !.dst = t])
<1>1. /\ o \in IoCalls /\ o.done <= o.n /\ o.n <= o.asked /\ Len(o.dst) <= o.done
      /\ o.n \in Nat /\ o.done \in Nat /\ o.ans \in -1 .. o.n
  BY DEF IoCallOK, IoCalls
<1>2. IoCallOK(None)
  BY SectorsMade, EmptySeq DEF IoCallOK, None, IoCalls, InLoop
<1>3. ASSUME NEW a \in -1 .. o.n
      PROVE  IoCallOK([o EXCEPT !.at = "idle", !.ans = a])
  <2>1. a \in Int
    BY <1>1
  <2>2. [o EXCEPT !.at = "idle", !.ans = a] \in IoCalls
    BY <1>1, <2>1 DEF IoCalls
  <2> QED
    BY <1>1, <2>1, <2>2 DEF IoCallOK, IoCalls, InLoop
<1>4. ASSUME o.done < o.n, o.op = "read"
      PROVE  IoCallOK([o EXCEPT !.at = "copy"])
  BY <1>1, <1>4 DEF IoCallOK, IoCalls, InLoop
<1>5. ASSUME o.done < o.n, o.op = "write"
      PROVE  IoCallOK([o EXCEPT !.at = "modify"])
  BY <1>1, <1>5 DEF IoCallOK, IoCalls, InLoop
<1>6. ASSUME o.done < o.n, o.op = "write", NEW s \in Sectors
      PROVE  IoCallOK([o EXCEPT !.at = "written", !.bounce = s])
  BY <1>1, <1>6 DEF IoCallOK, IoCalls, InLoop
<1>7. ASSUME o.at \in InLoop, NEW k \in 1 .. o.n - o.done
      PROVE  /\ IoCallOK([o EXCEPT !.at = "loop", !.done = o.done + k])
             /\ \A s \in Sectors, t \in Seq(Byte) : Len(t) <= o.done + k =>
                  IoCallOK([o EXCEPT !.at = "loop", !.done = o.done + k,
                                     !.bounce = s, !.dst = t])
  <2>1. o.op \in {"read", "write"}
    BY <1>7 DEF IoCallOK, InLoop
  <2>2. PICK m \in Nat : m = o.done + k
    BY <1>1
  <2>3. m <= o.n /\ Len(o.dst) <= m
    BY <1>1, <2>2, LenProperties DEF IoCalls
  <2>4. IoCallOK([o EXCEPT !.at = "loop", !.done = m])
    BY <1>1, <2>1, <2>2, <2>3 DEF IoCallOK, IoCalls, InLoop
  <2>5. ASSUME NEW s \in Sectors, NEW t \in Seq(Byte), Len(t) <= m
        PROVE  IoCallOK([o EXCEPT !.at = "loop", !.done = m, !.bounce = s, !.dst = t])
    BY <1>1, <2>1, <2>2, <2>3, <2>5 DEF IoCallOK, IoCalls, InLoop
  <2> QED
    BY <2>2, <2>4, <2>5
<1> QED
  BY <1>2, <1>3, <1>4, <1>5, <1>6, <1>7

LEMMA IoStep ==
  ASSUME DInv, probe = ATA_MAX_DRIVES, call.at = "idle",
         AtaCallOK(call'), call'.at \in {"idle", "prepare"},
         call'.at = "prepare" => call'.b \in DOMAIN drives,
         was' \in Disks, before' \in Disks, IoCallOK(io'), calls' \in 0 .. MaxCalls,
         io'.at # "idle" => io'.b \in DOMAIN drives,
         io'.at = "loop" \/ (io'.at = "idle" /\ io'.op # "none") => call'.at = "idle",
         io'.at \in {"copy", "modify"} => call'.op = "read" /\ call'.n = 1,
         io'.at = "written" => call'.op = "write" /\ call'.n = 1,
         UNCHANGED <<kind, disk, drv, sel, drives, probe, late, faults>>
  PROVE  DInv'
<1>1. DTypes /\ Phases /\ Found
  BY DEF DInv
<1>2. DTypes'
  BY <1>1 DEF DTypes
<1>3. call'.at \notin Probing
  BY DEF Probing
<1>4. Phases'
  BY <1>3, Constants DEF Phases, InCall
<1>5. Found'
  BY <1>1, FoundKept, Constants DEF DTypes
<1>6. Probed'
  BY <1>3, ProbedOver
<1> QED
  BY <1>2, <1>4, <1>5, <1>6 DEF DInv

LEMMA BeginDrives ==
  ASSUME DInv, NEW b \in DOMAIN drives, NEW op \in {"read", "write"},
         NEW off \in Starts, NEW n \in Counts, Begin(op, b, off, n)
  PROVE  /\ DInv' /\ io'.op = op /\ io'.b = b /\ io'.off = off /\ io'.asked = n
         /\ io'.done = 0 /\ io'.dst = <<>> /\ io'.ans = 0
         /\ io'.at = IF off >= Capacity THEN "idle" ELSE "loop"
         /\ io'.n = IF off >= Capacity THEN 0 ELSE Min({n, Capacity - off})
<1>1. DTypes /\ Phases
  BY DEF DInv
<1>2. /\ Free /\ io.at = "idle" /\ calls < MaxCalls /\ calls' = calls + 1 /\ before' = disk
      /\ UNCHANGED <<kind, disk, drv, sel, drives, probe, late, faults, call, was>>
  BY DEF Begin, AtaElse, NoCall
<1>3. Size(b) = Capacity /\ b \in Nat
  BY <1>1, EntriesOfTable DEF Size, Capacity
<1>4. Capacity \in Nat
  BY Constants DEF Capacity
<1>5. off \in Nat /\ n \in Nat
  BY DevIoAssumption
<1> DEFINE past == off >= Capacity
           m == IF past THEN 0 ELSE Min({n, Capacity - off})
           at == IF past THEN "idle" ELSE "loop"
<1>6. m \in Nat /\ m <= n
  <2>1. ~past => Capacity - off \in Nat
    BY <1>4, <1>5
  <2>2. ~past => Min({n, Capacity - off}) = IF n <= Capacity - off THEN n ELSE Capacity - off
    BY <1>5, <2>1, MinOfTwo
  <2> QED
    BY <1>4, <1>5, <2>1, <2>2
<1>7. io' = [None EXCEPT !.op = op, !.b = b, !.off = off, !.asked = n, !.at = at, !.n = m]
  BY <1>3 DEF Begin
<1>8. io' = [at |-> at, op |-> op, b |-> b, off |-> off, asked |-> n, n |-> m, done |-> 0,
             bounce |-> Junk, dst |-> <<>>, ans |-> 0]
  BY <1>7 DEF None
<1>9. at \in {"idle", "loop"} /\ (at = "idle" <=> past)
  OBVIOUS
<1> HIDE DEF m, at
<1>10. Junk \in Sectors /\ <<>> \in Seq(Byte) /\ Len(<<>>) = 0
  BY SectorsMade, EmptySeq
<1>11. io' \in IoCalls
  BY <1>3, <1>5, <1>6, <1>8, <1>9, <1>10 DEF IoCalls
<1>12. /\ io'.at = at /\ io'.op = op /\ io'.b = b /\ io'.off = off /\ io'.asked = n
       /\ io'.n = m /\ io'.done = 0 /\ io'.dst = <<>> /\ io'.ans = 0
  BY <1>8
<1>13. IoCallOK(io')
  BY <1>5, <1>6, <1>9, <1>10, <1>11, <1>12 DEF IoCallOK, InLoop
<1>14. AtaCallOK(call) /\ was \in Disks /\ disk \in Disks /\ calls + 1 \in 0 .. MaxCalls
  BY <1>1, <1>2, Constants DEF DTypes
<1>15. probe = ATA_MAX_DRIVES /\ call.at = "idle"
  BY <1>2 DEF Free
<1>16. DInv'
  BY <1>2, <1>9, <1>12, <1>13, <1>14, <1>15, IoStep
<1> QED
  BY <1>12, <1>16 DEF m, at

LEMMA DirectDrives ==
  ASSUME DInv, NEW b \in DOMAIN drives, NEW op \in {"read", "write"},
         NEW l \in Nat, NEW n \in Nat, Direct(op, b, l, n)
  PROVE  /\ DInv' /\ io' = None /\ was' = disk
         /\ call'.op = op /\ call'.b = b /\ call'.lba = l /\ call'.n = n /\ call'.i = 0
         /\ call'.got = <<>> /\ call'.at \in {"idle", "prepare"}
         /\ op = "write" => \A k \in 1 .. n : call'.src[k] # Junk
         /\ call'.at = "prepare" <=> n # 0 /\ n <= MaxTransfer /\ l + n <= NSectors
         /\ call'.ok <=> n = 0 \/ (n <= MaxTransfer /\ l + n <= NSectors)
<1>1. DTypes /\ Phases
  BY DEF DInv
<1>2. /\ Free /\ io.at = "idle" /\ calls < MaxCalls /\ calls' = calls + 1 /\ before' = disk
      /\ UNCHANGED <<kind, disk, drv, sel, drives, probe, late, faults>> /\ io' = None
  BY DEF Direct, AtaElse
<1> DEFINE w == [i \in 1 .. n |-> FromBuffer((i - 1) * SECTOR_SIZE)]
           src == IF op = "write" THEN w ELSE <<>>
<1>3. \A i \in 1 .. n : (i - 1) * SECTOR_SIZE \in Nat
  BY Constants
<1>4. \A i \in 1 .. n : w[i] \in Sectors /\ w[i] # Junk
  BY <1>3, SectorsMade
<1>5. w \in [1 .. n -> Sectors]
  BY <1>4
<1> HIDE DEF w
<1>6. w \in Seq(Sectors) /\ Len(w) = n
  BY <1>5, FunctionIsSeq
<1>7. src \in Seq(Sectors) /\ (op = "write" => Len(src) = n)
  BY <1>6, EmptySeq
<1>8. Enter(op, b, l, n, src)
  BY DEF Direct, w
<1> HIDE DEF src
<1>9. /\ AtaCallOK(call') /\ call'.at \in {"idle", "prepare"} /\ was' = disk
      /\ call'.op = op /\ call'.b = b /\ call'.lba = l /\ call'.n = n /\ call'.i = 0
      /\ call'.got = <<>> /\ call'.src = src
      /\ call'.at = "prepare" <=> n # 0 /\ n <= MaxTransfer /\ l + n <= NSectors
      /\ call'.ok <=> n = 0 \/ (n <= MaxTransfer /\ l + n <= NSectors)
  BY <1>1, <1>7, <1>8, Entered
<1>10. IoCallOK(None) /\ None.at = "idle" /\ None.op = "none"
  BY <1>1, IoValues DEF DTypes, None
<1>11. was \in Disks /\ disk \in Disks /\ calls + 1 \in 0 .. MaxCalls
  BY <1>1, <1>2, Constants DEF DTypes
<1>12. probe = ATA_MAX_DRIVES /\ call.at = "idle"
  BY <1>2 DEF Free
<1>13. DInv'
  BY <1>2, <1>9, <1>10, <1>11, <1>12, IoStep
<1>14. op = "write" => \A k \in 1 .. n : call'.src[k] # Junk
  BY <1>4, <1>9 DEF src
<1> QED
  BY <1>2, <1>9, <1>13, <1>14

(* The chunk under way, when there is one. *)
LEMMA InTheLoop ==
  ASSUME DInv, io.at # "idle"
  PROVE  /\ probe = ATA_MAX_DRIVES /\ io.b \in DOMAIN drives /\ IoCallOK(io) /\ io \in IoCalls
         /\ io.op \in {"read", "write"} /\ drives[io.b].drive \in Positions
         /\ io.off \in Nat /\ io.n \in Nat /\ io.done \in Nat /\ io.done <= io.n
         /\ io.dst \in Seq(Byte) /\ io.bounce \in Sectors
         /\ io.done < io.n =>
              /\ Lba \in Nat /\ Skip \in Nat /\ Skip \in Offsets
              /\ Chunk \in Nat /\ Chunk > 0 /\ io.done + Chunk <= io.n
              /\ Skip + Chunk <= SECTOR_SIZE
              /\ io.off + io.done = SECTOR_SIZE * Lba + Skip
<1>1. DTypes /\ Phases /\ IoCallOK(io) /\ io \in IoCalls
  BY DEF DInv, DTypes, IoCallOK
<1>2. /\ io.off \in Nat /\ io.n \in Nat /\ io.done \in Nat /\ io.done <= io.n
      /\ io.dst \in Seq(Byte) /\ io.bounce \in Sectors /\ io.op \in {"read", "write"}
  BY <1>1 DEF IoCallOK, IoCalls
<1>3. io.b \in DOMAIN drives /\ probe = ATA_MAX_DRIVES
  BY <1>1 DEF Phases
<1>4. drives[io.b].drive \in Positions
  BY <1>1, <1>3, EntriesOfTable
<1> QED
  BY <1>1, <1>2, <1>3, <1>4, ChunkBounds

LEMMA LoopEndsDrives ==
  ASSUME DInv, LoopEnds
  PROVE  DInv'
<1>1. DTypes /\ Phases /\ AtaCallOK(call) /\ was \in Disks /\ before \in Disks /\ calls \in 0 .. MaxCalls
  BY DEF DInv, DTypes
<1>2. /\ io.at = "loop" /\ io' = [io EXCEPT !.at = "idle", !.ans = io.done]
      /\ UNCHANGED <<kind, disk, drv, sel, drives, probe, late, faults, call, was, calls, before>>
  BY DEF LoopEnds, Answered, AtaElse, NoCall
<1>3. IoCallOK(io) /\ io.done \in -1 .. io.n /\ probe = ATA_MAX_DRIVES /\ call.at = "idle"
  BY <1>1, <1>2, InTheLoop DEF Phases
<1>4. IoCallOK(io') /\ io'.at = "idle"
  <2>1. PICK a \in -1 .. io.n : a = io.done
    BY <1>3
  <2>2. io' = [io EXCEPT !.at = "idle", !.ans = a]
    BY <1>2, <2>1
  <2>3. IoCallOK(io')
    BY <1>3, <2>2, IoValues
  <2>4. io'.at = "idle"
    BY <1>3, <2>2 DEF IoCallOK, IoCalls
  <2> QED
    BY <2>3, <2>4
<1> QED
  BY <1>1, <1>2, <1>3, <1>4, IoStep

(* A call over one sector, for the chunk. *)
LEMMA SectorCall ==
  ASSUME DInv, io.at # "idle", io.done < io.n, NEW op \in {"read", "write"},
         NEW src \in Seq(Sectors), op = "write" => Len(src) = 1,
         Enter(op, io.b, Lba, 1, src)
  PROVE  /\ AtaCallOK(call') /\ call'.at \in {"idle", "prepare"} /\ was' = disk
         /\ was' \in Disks /\ call'.op = op /\ call'.b = io.b /\ call'.lba = Lba /\ call'.n = 1
         /\ call'.i = 0 /\ call'.got = <<>> /\ call'.src = src
         /\ call'.at = "prepare" <=> Lba + 1 <= NSectors
         /\ call'.ok <=> Lba + 1 <= NSectors
<1>1. PICK n \in Nat : n = 1
  OBVIOUS
<1>2. DTypes /\ io.b \in DOMAIN drives /\ Lba \in Nat /\ disk \in Disks
  BY InTheLoop DEF DInv, DTypes
<1>3. op = "write" => Len(src) = n
  BY <1>1
<1>4. Enter(op, io.b, Lba, n, src)
  BY <1>1
<1> DEFINE l == Lba
           b == io.b
<1>5. l \in Nat /\ b \in DOMAIN drives /\ Enter(op, b, l, n, src)
  BY <1>2, <1>4
<1> HIDE DEF l, b
<1>6. /\ AtaCallOK(call') /\ call'.at \in {"idle", "prepare"} /\ was' = disk
      /\ call'.op = op /\ call'.b = b /\ call'.lba = l /\ call'.n = n
      /\ call'.i = 0 /\ call'.got = <<>> /\ call'.src = src
      /\ call'.at = "prepare" <=> n # 0 /\ n <= MaxTransfer /\ l + n <= NSectors
      /\ call'.ok <=> n = 0 \/ (n <= MaxTransfer /\ l + n <= NSectors)
  BY <1>2, <1>3, <1>5, Entered
<1>7. n # 0 /\ n <= MaxTransfer
  BY <1>1, Constants
<1> QED
  BY <1>1, <1>2, <1>6, <1>7 DEF l, b

LEMMA ReadSectorDrives ==
  ASSUME DInv, ReadSector
  PROVE  DInv'
<1>1. DTypes /\ Phases /\ before \in Disks /\ calls \in 0 .. MaxCalls /\ call.at = "idle"
  BY DEF DInv, DTypes, Phases, ReadSector
<1>2. /\ io.at = "loop" /\ io.done < io.n /\ Enter("read", io.b, Lba, 1, <<>>)
      /\ io' = [io EXCEPT !.at = IF io.op = "read" THEN "copy" ELSE "modify"]
      /\ UNCHANGED <<kind, disk, drv, sel, drives, probe, late, faults, calls, before>>
  BY DEF ReadSector, Reads, AtaElse
<1>3. <<>> \in Seq(Sectors)
  BY EmptySeq
<1>4. /\ AtaCallOK(call') /\ call'.at \in {"idle", "prepare"} /\ was' \in Disks
      /\ call'.op = "read" /\ call'.b = io.b /\ call'.n = 1
  BY <1>2, <1>3, SectorCall
<1>5. /\ IoCallOK(io) /\ io \in IoCalls /\ io.op \in {"read", "write"}
      /\ io.b \in DOMAIN drives /\ probe = ATA_MAX_DRIVES
  BY <1>2, InTheLoop
<1>6. IoCallOK(io') /\ io'.at \in {"copy", "modify"} /\ io'.b = io.b
  BY <1>2, <1>5, IoValues DEF IoCalls
<1> QED
  BY <1>1, <1>2, <1>4, <1>5, <1>6, IoStep

(* A sector is given to the driver, the chunk laid over s. *)
LEMMA WriteStarts ==
  ASSUME DInv, io.at \in {"loop", "modify"}, io.op = "write", io.done < io.n, call.at = "idle",
         NEW s \in Sectors, Writes(io.b, Merged(s)),
         io' = [io EXCEPT !.at = "written", !.bounce = Merged(s)],
         AtaElse, UNCHANGED <<calls, before>>
  PROVE  DInv'
<1>1. DTypes /\ Phases /\ before \in Disks /\ calls \in 0 .. MaxCalls
  BY DEF DInv, DTypes
<1>2. /\ IoCallOK(io) /\ io \in IoCalls /\ io.b \in DOMAIN drives /\ probe = ATA_MAX_DRIVES
  BY InTheLoop
<1>3. Merged(s) \in Sectors
  BY <1>2, MergedSector
<1> DEFINE m == Merged(s)
<1> HIDE DEF m
<1>4. m \in Sectors
  BY <1>3 DEF m
<1>5. <<m>> \in Seq(Sectors) /\ Len(<<m>>) = 1
  BY <1>4
<1>6. Enter("write", io.b, Lba, 1, <<m>>)
  BY DEF Writes, m
<1>7. /\ AtaCallOK(call') /\ call'.at \in {"idle", "prepare"} /\ was' \in Disks
      /\ call'.op = "write" /\ call'.b = io.b /\ call'.n = 1
  BY <1>5, <1>6, SectorCall
<1>8. io' = [io EXCEPT !.at = "written", !.bounce = m]
  BY DEF m
<1>9. IoCallOK(io') /\ io'.at = "written" /\ io'.b = io.b
  <2>0. \A x \in Sectors : IoCallOK([io EXCEPT !.at = "written", !.bounce = x])
    BY <1>2, IoValues
  <2>1. IoCallOK(io')
    BY <1>4, <1>8, <2>0
  <2>2. io'.at = "written" /\ io'.b = io.b
    BY <1>2, <1>8 DEF IoCalls
  <2> QED
    BY <2>1, <2>2
<1>10. UNCHANGED <<kind, disk, drv, sel, drives, probe, late, faults, calls, before>>
  BY DEF AtaElse
<1> QED
  BY <1>1, <1>2, <1>7, <1>9, <1>10, IoStep

(* The sector a read of one sector has got. *)
LEMMA GotOne ==
  ASSUME DInv, io.at \in {"copy", "modify"}, call.at = "idle", call.ok
  PROVE  /\ Len(call.got) = 1 /\ call.got[1] \in Sectors
         /\ call.i = 1 /\ call.n = 1 /\ call.op = "read"
<1>1. AtaCallOK(call) /\ call \in AtaCalls /\ call.op = "read" /\ call.n = 1
  BY DEF DInv, DTypes, Phases, AtaCallOK
<1>2. call.i = 1 /\ Len(call.got) = 1 /\ call.got \in Seq(Sectors)
  BY <1>1 DEF AtaCallOK, AtaCalls
<1>3. 1 \in 1 .. Len(call.got)
  BY <1>2
<1> QED
  BY <1>1, <1>2, <1>3, ElementOfSeq

(* A chunk is done with, or the call fails. *)
LEMMA ChunkEnds ==
  ASSUME DInv, io.at \in InLoop, call.at = "idle", IoCallOK(io'), io'.b = io.b,
         io'.at \in {"idle", "loop"}, AtaElse, NoCall, UNCHANGED <<calls, before>>
  PROVE  DInv'
<1>1. /\ DTypes /\ Phases /\ AtaCallOK(call) /\ was \in Disks /\ before \in Disks
      /\ calls \in 0 .. MaxCalls
  BY DEF DInv, DTypes
<1>2. io.b \in DOMAIN drives /\ probe = ATA_MAX_DRIVES
  BY InTheLoop DEF InLoop
<1>3. UNCHANGED <<kind, disk, drv, sel, drives, probe, late, faults, calls, before, call, was>>
  BY DEF AtaElse, NoCall
<1> QED
  BY <1>1, <1>2, <1>3, IoStep

LEMMA FailedCall ==
  ASSUME DInv, io.at # "idle"
  PROVE  IoCallOK(Failed) /\ Failed.at = "idle" /\ Failed.b = io.b
<1>1. IoCallOK(io) /\ io \in IoCalls /\ io.done \in Nat /\ io.n \in Nat /\ io.done <= io.n
  BY InTheLoop
<1> DEFINE a == IF io.done > 0 THEN io.done ELSE -1
<1>2. a \in -1 .. io.n
  BY <1>1
<1>3. Failed = [io EXCEPT !.at = "idle", !.ans = a]
  BY DEF Failed, Answered
<1> HIDE DEF a
<1> QED
  BY <1>1, <1>2, <1>3, IoValues DEF IoCalls

(* The bytes of the chunk, in the sector read. *)
LEMMA ChunkRead ==
  ASSUME DInv, io.at # "idle", io.done < io.n, NEW s \in Sectors
  PROVE  LET c == [k \in 1 .. Chunk |-> s[Skip + k - 1]]
         IN c \in Seq(Byte) /\ Len(c) = Chunk
<1>1. /\ Chunk \in Nat /\ Skip \in Nat /\ Skip + Chunk <= SECTOR_SIZE
  BY InTheLoop
<1> DEFINE c == [k \in 1 .. Chunk |-> s[Skip + k - 1]]
<1>2. \A k \in 1 .. Chunk : Skip + k - 1 \in Offsets
  BY <1>1, Constants DEF Offsets
<1>3. \A k \in 1 .. Chunk : s[Skip + k - 1] \in Byte
  BY <1>2 DEF Sectors, Byte
<1>4. c \in [1 .. Chunk -> Byte]
  BY <1>3
<1> HIDE DEF c
<1>5. c \in Seq(Byte) /\ Len(c) = Chunk
  BY <1>1, <1>4, FunctionIsSeq
<1> QED
  BY <1>5 DEF c

LEMMA CopyDrives ==
  ASSUME DInv, Copy
  PROVE  DInv'
<1>1. /\ io.at = "copy" /\ call.at = "idle" /\ AtaElse /\ NoCall /\ UNCHANGED <<calls, before>>
  BY DEF Copy, CallOver
<1>2. /\ IoCallOK(io) /\ io \in IoCalls /\ io.done \in Nat /\ io.n \in Nat /\ io.done < io.n
      /\ io.dst \in Seq(Byte) /\ Len(io.dst) <= io.done
      /\ Chunk \in Nat /\ Chunk > 0 /\ io.done + Chunk <= io.n
  BY <1>1, InTheLoop DEF IoCallOK, InLoop
<1>3. CASE call.ok
  <2> DEFINE s == call.got[1]
             c == [k \in 1 .. Chunk |-> s[Skip + k - 1]]
             t == io.dst \o c
  <2>1. s \in Sectors
    BY <1>1, <1>3, GotOne
  <2>2. io' = [io EXCEPT !.at = "loop", !.done = io.done + Chunk, !.bounce = s, !.dst = t]
    BY <1>2, <1>3 DEF Copy, Onward, IoCalls
  <2> HIDE DEF s
  <2>3. c \in Seq(Byte) /\ Len(c) = Chunk
    BY <1>1, <1>2, <2>1, ChunkRead
  <2> HIDE DEF c
  <2>4. t \in Seq(Byte) /\ Len(t) = Len(io.dst) + Chunk
    BY <1>2, <2>3, ConcatProperties
  <2>5. Len(t) <= io.done + Chunk /\ Chunk \in 1 .. io.n - io.done
    BY <1>2, <2>4, LenProperties
  <2> HIDE DEF t
  <2>6. IoCallOK(io')
    BY <1>1, <1>2, <2>1, <2>2, <2>4, <2>5, IoValues DEF InLoop
  <2>7. io'.at = "loop" /\ io'.b = io.b
    BY <1>2, <2>2 DEF IoCalls
  <2> QED
    BY <1>1, <2>6, <2>7, ChunkEnds DEF InLoop
<1>4. CASE ~call.ok
  <2>1. io' = Failed
    BY <1>4 DEF Copy
  <2> QED
    BY <1>1, <2>1, FailedCall, ChunkEnds DEF InLoop
<1> QED
  BY <1>3, <1>4

LEMMA WriteEndsDrives ==
  ASSUME DInv, WriteEnds
  PROVE  DInv'
<1>1. /\ io.at = "written" /\ call.at = "idle" /\ AtaElse /\ NoCall /\ UNCHANGED <<calls, before>>
  BY DEF WriteEnds, CallOver
<1>2. /\ IoCallOK(io) /\ io \in IoCalls /\ io.done \in Nat /\ io.n \in Nat /\ io.done < io.n
      /\ Chunk \in Nat /\ Chunk > 0 /\ io.done + Chunk <= io.n
  BY <1>1, InTheLoop DEF IoCallOK, InLoop
<1>3. CASE call.ok
  <2>1. io' = [io EXCEPT !.at = "loop", !.done = io.done + Chunk]
    BY <1>2, <1>3 DEF WriteEnds, Onward, IoCalls
  <2>2. Chunk \in 1 .. io.n - io.done
    BY <1>2
  <2>3. IoCallOK(io')
    BY <1>1, <1>2, <2>1, <2>2, IoValues DEF InLoop
  <2>4. io'.at = "loop" /\ io'.b = io.b
    BY <1>2, <2>1 DEF IoCalls
  <2> QED
    BY <1>1, <2>3, <2>4, ChunkEnds DEF InLoop
<1>4. CASE ~call.ok
  <2>1. io' = Failed
    BY <1>4 DEF WriteEnds
  <2> QED
    BY <1>1, <2>1, FailedCall, ChunkEnds DEF InLoop
<1> QED
  BY <1>3, <1>4

LEMMA WriteDrives ==
  ASSUME DInv, WriteWhole \/ Modify
  PROVE  DInv'
<1>1. CASE WriteWhole
  <2>1. DTypes /\ Phases /\ io.bounce \in Sectors /\ call.at = "idle" /\ io \in IoCalls
    BY <1>1 DEF DInv, DTypes, Phases, WriteWhole, IoCallOK, IoCalls
  <2> QED
    BY <1>1, <2>1, WriteStarts DEF WriteWhole, IoCalls
<1>2. CASE Modify
  <2>1. io.at = "modify" /\ call.at = "idle" /\ AtaElse /\ UNCHANGED <<calls, before>>
    BY <1>2 DEF Modify, CallOver
  <2>2. io.op = "write" /\ io.done < io.n
    BY <2>1 DEF DInv, DTypes, IoCallOK, InLoop
  <2>3. CASE call.ok
    BY <1>2, <2>1, <2>2, <2>3, GotOne, WriteStarts DEF Modify
  <2>4. CASE ~call.ok
    BY <1>2, <2>1, <2>4, FailedCall, ChunkEnds DEF Modify, InLoop
  <2> QED
    BY <2>3, <2>4
<1> QED
  BY <1>1, <1>2

-----------------------------------------------------------------------------
(* The table is right. *)

LEMMA DrivesStep ==
  ASSUME DInv, [Next]_vars
  PROVE  DInv'
<1>1. CASE Prepare /\ UNCHANGED <<io, before>>
  BY <1>1, PrepareDrives
<1>2. CASE Transfer /\ UNCHANGED <<io, before>>
  BY <1>2, TransferDrives
<1>3. CASE (Flush \/ Flushed) /\ UNCHANGED <<io, before>>
  BY <1>3, FlushDrives
<1>4. CASE ProbeCommand /\ UNCHANGED <<io, before>>
  BY <1>4, ProbeCommandDrives
<1>5. CASE (ProbeStatus \/ ProbeSignature \/ ProbeCapacity) /\ UNCHANGED <<io, before>>
  BY <1>5, ProbeDrives
<1>6. CASE LoopEnds
  BY <1>6, LoopEndsDrives
<1>7. CASE ReadSector
  BY <1>7, ReadSectorDrives
<1>8. CASE WriteWhole \/ Modify
  BY <1>8, WriteDrives
<1>9. CASE Copy
  BY <1>9, CopyDrives
<1>10. CASE WriteEnds
  BY <1>10, WriteEndsDrives
<1>11. CASE \E d \in Positions : Work(d) /\ UNCHANGED <<io, before>>
  BY <1>11, WorkDrives
<1>12. ASSUME NEW b \in DOMAIN drives, NEW op \in {"read", "write"},
              NEW off \in Starts, NEW n \in Counts, Begin(op, b, off, n)
       PROVE  DInv'
  BY <1>12, BeginDrives
<1>13. ASSUME NEW b \in DOMAIN drives, NEW op \in {"read", "write"},
              NEW l \in 0 .. NSectors, NEW n \in 0 .. MaxTransfer + 1, Direct(op, b, l, n)
       PROVE  DInv'
  <2>1. l \in Nat /\ n \in Nat
    BY Constants
  <2> QED
    BY <1>13, <2>1, DirectDrives
<1>14. CASE UNCHANGED vars
  BY <1>14 DEF vars, ataVars, DInv, DTypes, Phases, Found, Probed
<1> QED
  BY <1>1, <1>2, <1>3, <1>4, <1>5, <1>6, <1>7, <1>8, <1>9, <1>10, <1>11, <1>12, <1>13, <1>14
     DEF Next, Driver, AtaStep

LEMMA DrivesImplied ==
  ASSUME DInv
  PROVE  DrivesSound
<1>1. DTypes /\ Found /\ AtaCallOK(call) /\ IoCallOK(io) /\ call \in AtaCalls /\ io \in IoCalls
  BY DEF DInv, DTypes, AtaCallOK, IoCallOK
<1>2. AtaTypeOK
  BY <1>1, EntriesOfTable
     DEF AtaTypeOK, DTypes, Kinds, Disks, Drives, Commands, Entries, AtaCallOK, AtaCalls, Ats,
         Probing, InCall
<1>3. TypeOK
  BY <1>1, <1>2 DEF TypeOK, IoCallOK, IoCalls, InLoop
<1>4. probe = ATA_MAX_DRIVES => 0 .. probe - 1 = Positions
  BY DEF Positions
<1>5. probe = ATA_MAX_DRIVES /\ ~late /\ faults = 0 =>
        Len(drives) = Cardinality({d \in Positions : kind[d] = "disk"})
  BY <1>1, <1>4, Zenon DEF Found
<1>6. DrivesFound
  BY <1>1, <1>5 DEF DrivesFound, Found
<1> QED
  BY <1>3, <1>6 DEF DrivesSound

(* The table of drives, whatever is on the channel and however calls end     *)
(* (ata.c: ata_init, ata_prepare): every entry is a disk at the position     *)
(* its minor number names, in order, and without a refusal or a slow drive   *)
(* every disk has one.                                                       *)
THEOREM DevIoDrivesSound == Spec => []DrivesSound
<1>1. Init => DInv
  BY InitDrives
<1>2. DInv /\ [Next]_vars => DInv'
  BY DrivesStep
<1>3. DInv => DrivesSound
  BY DrivesImplied
<1> QED
  BY <1>1, <1>2, <1>3, PTL DEF Spec

-----------------------------------------------------------------------------
(* What is moved.  The fields of a drive that has gone on. *)

LEMMA Fields ==
  /\ ~Quiet.busy /\ ~Quiet.drq /\ ~Quiet.err /\ Quiet.cmd = "none" /\ Quiet.data = Junk
  /\ ~Refused.busy /\ ~Refused.drq /\ Refused.err /\ Refused.cmd = "none" /\ Refused.data = Junk
  /\ Quiet.left = 0 /\ Refused.left = 0
  /\ \A s \in Drives :
       /\ ~Waiting(s).busy /\ Waiting(s).drq /\ Waiting(s).data = Junk
       /\ Waiting(s).cmd = s.cmd /\ Waiting(s).err = s.err
       /\ Waiting(s).lba = s.lba /\ Waiting(s).left = s.left
       /\ ~Waiting(Further(s)).busy /\ Waiting(Further(s)).drq /\ Waiting(Further(s)).data = Junk
       /\ Waiting(Further(s)).cmd = s.cmd /\ Waiting(Further(s)).err = s.err
       /\ Waiting(Further(s)).lba = s.lba + 1 /\ Waiting(Further(s)).left = s.left - 1
<1>1. /\ ~Quiet.busy /\ ~Quiet.drq /\ ~Quiet.err /\ Quiet.cmd = "none" /\ Quiet.data = Junk
      /\ Quiet.left = 0
  BY DEF Quiet
<1>2. /\ ~Refused.busy /\ ~Refused.drq /\ Refused.err /\ Refused.cmd = "none"
      /\ Refused.data = Junk /\ Refused.left = 0
  BY DEF Refused, Quiet
<1>3. ASSUME NEW s \in Drives
      PROVE  /\ ~Waiting(s).busy /\ Waiting(s).drq /\ Waiting(s).data = Junk
             /\ Waiting(s).cmd = s.cmd /\ Waiting(s).err = s.err
             /\ Waiting(s).lba = s.lba /\ Waiting(s).left = s.left
  BY DEF Waiting, Drives
<1>4. ASSUME NEW s \in Drives
      PROVE  /\ ~Waiting(Further(s)).busy /\ Waiting(Further(s)).drq
             /\ Waiting(Further(s)).data = Junk
             /\ Waiting(Further(s)).cmd = s.cmd /\ Waiting(Further(s)).err = s.err
             /\ Waiting(Further(s)).lba = s.lba + 1 /\ Waiting(Further(s)).left = s.left - 1
  BY DEF Waiting, Further, Drives
<1> QED
  BY <1>1, <1>2, <1>3, <1>4

(* The call under way, and where it is. *)
LEMMA UnderWay ==
  ASSUME DInv, call.at \in InCall
  PROVE  /\ call \in AtaCalls /\ call.at \in Ats /\ call.op \in {"read", "write"}
         /\ call.b \in DOMAIN drives /\ Target \in Positions /\ kind[Target] = "disk"
         /\ probe = ATA_MAX_DRIVES
         /\ call.lba \in Nat /\ call.n \in Nat /\ call.i \in Nat /\ call.i <= call.n
         /\ call.n <= MaxTransfer /\ call.lba + call.n <= NSectors
         /\ call.at \in {"prepare", "transfer"} => call.i < call.n
         /\ call.at \in {"flush", "flushed"} => call.i = call.n /\ call.op = "write"
         /\ call.op = "write" => Len(call.src) = call.n
         /\ call.op = "read" => Len(call.got) = call.i
         /\ call.got \in Seq(Sectors) /\ call.src \in Seq(Sectors)
         /\ disk \in [Positions -> [LBAs -> Sectors]] /\ was \in [Positions -> [LBAs -> Sectors]]
         /\ \A k \in Nat : k < call.n => call.lba + k \in LBAs
<1>1. DTypes /\ Phases /\ Found /\ AtaCallOK(call) /\ call \in AtaCalls
  BY DEF DInv, DTypes, AtaCallOK
<1>2. /\ call.lba \in Nat /\ call.n \in Nat /\ call.i \in Nat /\ call.i <= call.n
      /\ call.n <= MaxTransfer /\ call.lba + call.n <= NSectors
      /\ call.got \in Seq(Sectors) /\ call.src \in Seq(Sectors) /\ call.at \in Ats
  BY <1>1 DEF AtaCallOK, AtaCalls
<1>3. /\ call.op \in {"read", "write"}
      /\ call.at \in {"prepare", "transfer"} => call.i < call.n
      /\ call.at \in {"flush", "flushed"} => call.i = call.n /\ call.op = "write"
      /\ call.op = "write" => Len(call.src) = call.n
      /\ call.op = "read" => Len(call.got) = call.i
  BY <1>1 DEF AtaCallOK, InCall
<1>4. call.b \in DOMAIN drives /\ Target \in Positions /\ kind[Target] = "disk" /\ probe = ATA_MAX_DRIVES
  BY <1>1, EntriesOfTable DEF Phases, Target, Found
<1>5. \A k \in Nat : k < call.n => call.lba + k \in LBAs
  BY <1>2, Constants DEF LBAs
<1>6. disk \in [Positions -> [LBAs -> Sectors]] /\ was \in [Positions -> [LBAs -> Sectors]]
  BY <1>1 DEF DTypes, Disks
<1> QED
  BY <1>1, <1>2, <1>3, <1>4, <1>5, <1>6

(* A busy drive is the one selected, during a call. *)
LEMMA BusyOne ==
  ASSUME DInv, TInv, ~late, NEW d \in Positions, Work(d)
  PROVE  /\ d = sel /\ call.at \in Probing \union {"transfer", "flush", "flushed"}
         /\ drv[sel].busy /\ ~drv[sel].err /\ ~drv[sel].drq /\ drv[sel] \in Drives
         /\ UNCHANGED <<kind, sel, drives, probe, call, was, late, calls>>
<1>1. Rest /\ DTypes /\ AtaCallOK(call) /\ call.at \in Ats
  BY DEF TInv, DInv, DTypes, AtaCallOK, AtaCalls
<1>2. drv[d].busy /\ drv[d] \in Drives /\ ~(drv[d].busy /\ drv[d].drq)
  BY <1>1 DEF Work, DTypes, DriveOK
<1>3. d = sel /\ call.at \notin {"idle", "prepare"} /\ ~drv[sel].err
  BY <1>1, <1>2 DEF Rest, AtRest
<1>4. call.at \in Probing \union {"transfer", "flush", "flushed"}
  BY <1>1, <1>3 DEF Ats, InCall
<1> QED
  BY <1>2, <1>3, <1>4 DEF Work

LEMMA WorkProbing ==
  ASSUME DInv, TInv, ~late, call.at \in Probing, Work(sel), UNCHANGED <<io, before>>
  PROVE  TInv'
<1>1. sel \in Positions /\ DTypes
  BY DEF DInv, DTypes
<1>2. /\ drv[sel].busy /\ ~drv[sel].err /\ ~drv[sel].drq /\ drv[sel] \in Drives
      /\ UNCHANGED <<kind, sel, drives, probe, call, was, late, calls>>
  BY <1>1, BusyOne
<1>3. Rest /\ disk = was
  BY DEF TInv
<1>4. /\ drv[sel].data = Junk /\ drv[sel].cmd \in {"none", "identify"}
      /\ drv[sel].left = 1 /\ kind[sel] # "none"
  BY <1>2, <1>3 DEF Rest, AtRest
<1>5. /\ drv' \in [Positions -> Drives] /\ \A e \in Positions \ {sel} : drv'[e] = drv[e]
  BY <1>1, Worked
<1>6. /\ disk' = disk
      /\ \/ Becomes(sel, Waiting(drv[sel])) /\ kind[sel] = "disk"
         \/ Becomes(sel, Quiet)
         \/ Becomes(sel, Refused)
  BY <1>4 DEF Work
<1>7. /\ drv'[sel] = Waiting(drv[sel]) /\ kind[sel] = "disk"
      \/ drv'[sel] = Quiet
      \/ drv'[sel] = Refused
  BY <1>1, <1>6 DEF Becomes, DTypes
<1>8. /\ drv'[sel].data = Junk /\ drv'[sel].cmd \in {"none", "identify"}
      /\ kind[sel] = "cdrom" => ~drv'[sel].drq
      /\ AtRest(drv'[sel]) \/ drv'[sel].left = 1
      /\ drv'[sel].err => AtRest(drv'[sel])
  BY <1>2, <1>4, <1>7, Fields DEF AtRest
<1>9. Rest'
  BY <1>2, <1>3, <1>4, <1>5, <1>8 DEF Rest, Probing, AtRest
<1>10. TransferExact'
  BY <1>2 DEF TransferExact, Probing
<1> QED
  BY <1>2, <1>3, <1>6, <1>9, <1>10 DEF TInv, Probing

LEMMA WorkReading ==
  ASSUME DInv, TInv, ~late, call.at = "transfer", call.op = "read", Work(sel),
         UNCHANGED <<io, before>>
  PROVE  TInv'
<1>1. sel \in Positions /\ DTypes /\ call.at \in InCall
  BY DEF DInv, DTypes, InCall
<1>2. /\ drv[sel].busy /\ ~drv[sel].err /\ ~drv[sel].drq /\ drv[sel] \in Drives
      /\ UNCHANGED <<kind, sel, drives, probe, call, was, late, calls>>
  BY <1>1, BusyOne
<1>3. Rest /\ Reading
  BY DEF TInv
<1>4. /\ drv[sel].cmd = "read" /\ drv[sel].data = Junk
      /\ drv[sel].lba = call.lba + call.i /\ drv[sel].left = call.n - call.i
  BY <1>2, <1>3 DEF Reading
<1>5. drv[sel].lba \in LBAs
  BY <1>1, <1>4, UnderWay
<1>6. /\ drv' \in [Positions -> Drives] /\ \A e \in Positions \ {sel} : drv'[e] = drv[e]
  BY <1>1, Worked
<1>7. /\ disk' = disk
      /\ Becomes(sel, Waiting(drv[sel])) \/ Becomes(sel, Refused)
  BY <1>4, <1>5 DEF Work
<1>8. drv'[sel] = Waiting(drv[sel]) \/ drv'[sel] = Refused
  BY <1>1, <1>7 DEF Becomes, DTypes
<1>9. /\ drv'[sel].err => AtRest(drv'[sel])
      /\ drv'[sel].err \/ /\ drv'[sel].cmd = "read" /\ drv'[sel].drq /\ drv'[sel].data = Junk
                          /\ drv'[sel].lba = call.lba + call.i
                          /\ drv'[sel].left = call.n - call.i
  BY <1>2, <1>4, <1>8, Fields DEF AtRest
<1>10. Rest'
  BY <1>2, <1>3, <1>6, <1>9 DEF Rest, Probing, AtRest, Target
<1>11. Reading'
  BY <1>2, <1>3, <1>7, <1>9 DEF Reading, Target
<1>12. TransferExact'
  BY <1>2 DEF TransferExact
<1> QED
  BY <1>2, <1>10, <1>11, <1>12 DEF TInv, Probing

(* The selected drive of a write, when it is busy, is given a sector to      *)
(* store, is about to ask for the first one, or flushes.                     *)
LEMMA WorkWriting ==
  ASSUME DInv, TInv, ~late, call.at \in {"transfer", "flush", "flushed"}, call.op = "write",
         Work(sel), UNCHANGED <<io, before>>
  PROVE  TInv'
<1>1. sel \in Positions /\ DTypes /\ call.at \in InCall /\ faults \in Nat
  BY Constants DEF DInv, DTypes, InCall
<1>2. /\ drv[sel].busy /\ ~drv[sel].err /\ ~drv[sel].drq /\ drv[sel] \in Drives
      /\ UNCHANGED <<kind, sel, drives, probe, call, was, late, calls>>
  BY <1>1, BusyOne
<1>3. Rest /\ Writing
  BY DEF TInv
<1>4. sel = Target /\ OnWrite(drv[sel])
  BY <1>3 DEF Rest, Writing
<1>5. /\ call.lba \in Nat /\ call.n \in Nat /\ call.i \in Nat /\ call.i <= call.n
      /\ Target \in Positions /\ Len(call.src) = call.n
      /\ call.at = "transfer" => call.i < call.n
      /\ call.at # "transfer" => call.i = call.n
      /\ \A k \in Nat : k < call.n => call.lba + k \in LBAs
      /\ disk \in [Positions -> [LBAs -> Sectors]] /\ was \in [Positions -> [LBAs -> Sectors]]
  BY <1>1, UnderWay
<1>6. /\ drv' \in [Positions -> Drives] /\ \A e \in Positions \ {sel} : drv'[e] = drv[e]
      /\ faults' \in 0 .. MaxFaults /\ faults' >= faults
  BY <1>1, Worked
<1>7. \A k \in 1 .. call.n : call.src[k] # Junk
  BY <1>3 DEF Writing
<1> DEFINE l == call.lba + call.i - 1
           InRange(x) == x \in call.lba .. call.lba + call.i - 1
<1>8. CASE /\ drv[sel].cmd = "write" /\ drv[sel].data = Junk /\ call.i = 0
           /\ drv[sel].lba = call.lba /\ drv[sel].left = call.n
  <2>1. call.lba + 0 \in LBAs /\ call.at = "transfer" /\ call.i < call.n
    <3>1. call.at = "transfer" /\ call.i < call.n
      <4>1. drv[sel].left >= 1
        BY <1>1, <1>2 DEF DTypes, DriveOK
      <4> QED
        BY <1>5, <1>8, <4>1
    <3> QED
      BY <1>5, <1>8, <3>1
  <2>2. drv[sel].lba \in LBAs
    BY <1>5, <1>8, <2>1
  <2>3. /\ disk' = disk
        /\ Becomes(sel, Waiting(drv[sel])) \/ (Becomes(sel, Refused) /\ faults' = faults + 1)
    BY <1>8, <2>2 DEF Work
  <2>4. \/ drv'[sel] = Waiting(drv[sel])
        \/ drv'[sel] = Refused /\ faults' > 0
    BY <1>1, <2>3 DEF Becomes, DTypes
  <2>5. drv'[sel].err => AtRest(drv'[sel])
    BY <1>2, <2>4, Fields DEF AtRest
  <2>6. OnWrite(drv[sel])'
    BY <1>2, <1>5, <1>8, <2>1, <2>4, Fields DEF OnWrite
  <2>7. \A d \in Positions, x \in LBAs : disk'[d][x] = was'[d][x] /\ ~InRange(x)
    BY <1>1, <1>2, <1>3, <1>5, <1>8, <2>3 DEF Writing
  <2>8. Writing'
    BY <1>2, <1>7, <2>6, <2>7 DEF Writing, Target
  <2>9. Rest'
    BY <1>2, <1>3, <1>6, <2>5 DEF Rest, Probing, AtRest, Target
  <2>10. TransferExact'
    BY <1>2, <2>1 DEF TransferExact
  <2> QED
    BY <1>2, <2>1, <2>8, <2>9, <2>10 DEF TInv, Probing
<1>9. CASE Pending(drv[sel])
  <2>1. /\ drv[sel].cmd = "write" /\ call.i > 0 /\ drv[sel].data = call.src[call.i]
        /\ drv[sel].lba = l /\ drv[sel].left = call.n - call.i + 1
    BY <1>9 DEF Pending
  <2>2. call.i - 1 \in Nat /\ call.i - 1 < call.n /\ call.i \in 1 .. call.n /\ l \in Nat /\ InRange(l)
    BY <1>5, <2>1
  <2>3. l \in LBAs
    BY <1>5, <2>2
  <2>4. drv[sel].data # Junk /\ drv[sel].lba \in LBAs
    BY <1>7, <2>1, <2>2, <2>3
  <2>5. \/ /\ disk' = Stored(sel) /\ faults' = faults
           /\ Becomes(sel, IF drv[sel].left = 1 THEN Quiet ELSE Waiting(Further(drv[sel])))
        \/ /\ disk' \in {disk, Stored(sel)} /\ faults' = faults + 1 /\ Becomes(sel, Refused)
    BY <2>1, <2>4 DEF Work
  <2>6. \/ /\ disk' = Stored(sel) /\ faults' = faults
           /\ drv'[sel] = IF drv[sel].left = 1 THEN Quiet ELSE Waiting(Further(drv[sel]))
        \/ disk' \in {disk, Stored(sel)} /\ faults' > 0 /\ drv'[sel] = Refused
    BY <1>1, <2>5 DEF Becomes, DTypes
  <2>7. drv'[sel].err => AtRest(drv'[sel])
    BY <1>2, <2>6, Fields DEF AtRest
  <2>8. OnWrite(drv[sel])'
    <3>1. CASE drv'[sel] = Refused /\ faults' > 0
      BY <1>2, <3>1, Fields DEF OnWrite
    <3>2. CASE drv[sel].left = 1 /\ drv'[sel] = Quiet
      BY <1>2, <1>5, <2>1, <3>2, Fields DEF OnWrite, AtRest
    <3>3. CASE drv[sel].left # 1 /\ drv'[sel] = Waiting(Further(drv[sel]))
      <4>1. /\ drv'[sel].drq /\ drv'[sel].cmd = "write" /\ drv'[sel].data = Junk
            /\ drv'[sel].lba = drv[sel].lba + 1 /\ drv'[sel].left = drv[sel].left - 1
        BY <1>2, <2>1, <3>3, Fields
      <4>2. /\ drv'[sel].lba = call.lba + call.i /\ drv'[sel].left = call.n - call.i
            /\ call.i < call.n
        <5>1. call.lba \in Nat /\ call.n \in Nat /\ call.i \in Nat /\ call.i <= call.n
          BY <1>5
        <5>2. call.n - call.i + 1 # 1
          BY <2>1, <3>3
        <5>3. call.i < call.n
          BY <5>1, <5>2
        <5>4. drv'[sel].lba = call.lba + call.i - 1 + 1
          BY <2>1, <4>1
        <5>5. drv'[sel].left = (call.n - call.i + 1) - 1
          BY <2>1, <4>1
        <5> QED
          BY <5>1, <5>3, <5>4, <5>5
      <4> QED
        BY <1>2, <4>1, <4>2 DEF OnWrite
    <3> QED
      BY <2>6, <3>1, <3>2, <3>3
  <2>9. \A d \in Positions, x \in LBAs :
          Stored(sel)[d][x] = IF d = Target /\ x = l THEN call.src[call.i] ELSE disk[d][x]
    BY <1>1, <1>4, <1>5, <2>1, <2>3 DEF Stored
  <2>10. ASSUME NEW d \in Positions, NEW x \in LBAs
         PROVE  \/ d = Target /\ InRange(x) /\ disk'[d][x] = call.src[x - call.lba + 1]
                \/ disk'[d][x] = was[d][x] /\
                     \/ d # Target \/ ~InRange(x)
                     \/ x = l /\ faults' > 0 /\ ~drv'[sel].drq
    <3>1. \/ d = Target /\ InRange(x) /\ disk[d][x] = call.src[x - call.lba + 1]
          \/ disk[d][x] = was[d][x] /\ (d # Target \/ ~InRange(x) \/ x = l)
      BY <1>3 DEF Writing, Written
    <3>2. l - call.lba + 1 = call.i
      BY <1>5
    <3>3. CASE disk' = Stored(sel)
      <4>1. CASE d = Target /\ x = l
        BY <2>2, <2>9, <3>2, <3>3, <4>1
      <4>2. CASE ~(d = Target /\ x = l)
        BY <2>9, <3>1, <3>3, <4>2
      <4> QED
        BY <4>1, <4>2
    <3>4. CASE disk' = disk /\ faults' > 0 /\ drv'[sel] = Refused
      BY <3>1, <3>4, Fields
    <3> QED
      BY <2>6, <3>3, <3>4
  <2>11. Writing'
    <3>1. Target' = Target /\ \A x : Written(x)' <=> disk'[Target][x] = call.src[x - call.lba + 1]
      BY <1>2 DEF Target, Written
    <3> QED
      BY <1>2, <1>7, <2>8, <2>10, <3>1 DEF Writing
  <2>12. Rest'
    BY <1>2, <1>3, <1>6, <2>7 DEF Rest, Probing, AtRest, Target
  <2>13. TransferExact'
    BY <1>2 DEF TransferExact
  <2> QED
    BY <1>2, <2>11, <2>12, <2>13 DEF TInv, Probing
<1>10. CASE call.at = "flushed" /\ drv[sel].cmd = "flush" /\ drv[sel].data = Junk
  <2>1. disk' = disk
    BY <1>10 DEF Work
  <2>2. call.i = call.n
    BY <1>5, <1>10
  <2>3. Becomes(sel, Quiet) \/ Becomes(sel, Refused)
    BY <1>10 DEF Work
  <2>4. drv'[sel] = Quiet \/ drv'[sel] = Refused
    BY <1>1, <2>3 DEF Becomes, DTypes
  <2>5. AtRest(drv'[sel]) /\ ~drv'[sel].drq /\ ~drv'[sel].busy
    BY <2>4, Fields DEF AtRest
  <2>6. OnWrite(drv[sel])'
    BY <1>2, <2>2, <2>5 DEF OnWrite, AtRest
  <2>7. ~Pending(drv[sel])
    BY <1>10 DEF Pending
  <2>8. \A d \in Positions, x \in LBAs :
          \/ d = Target /\ InRange(x) /\ disk'[d][x] = call.src[x - call.lba + 1]
          \/ disk'[d][x] = was[d][x] /\ (d # Target \/ ~InRange(x) \/ (x = l /\ faults' > 0))
    BY <1>1, <1>3, <1>6, <2>1, <2>7, Constants DEF Writing, Written
  <2>9. Writing'
    <3>1. Target' = Target /\ \A x : Written(x)' <=> disk'[Target][x] = call.src[x - call.lba + 1]
      BY <1>2 DEF Target, Written
    <3> QED
      BY <1>2, <1>7, <2>5, <2>6, <2>8, <3>1 DEF Writing
  <2>10. Rest'
    BY <1>2, <1>3, <1>6, <2>5 DEF Rest, Probing, AtRest, Target
  <2>11. TransferExact'
    BY <1>2, <1>10 DEF TransferExact
  <2> QED
    BY <1>2, <1>10, <2>9, <2>10, <2>11 DEF TInv, Probing
<1> QED
  BY <1>2, <1>4, <1>8, <1>9, <1>10 DEF OnWrite, AtRest

(* A call fails: what it has moved is what it had moved. *)
LEMMA CallFails ==
  ASSUME DInv, TInv, ~late, call.at \in InCall, drv[sel].err \/ call.at = "prepare",
         Answer(FALSE), UNCHANGED <<kind, disk, drv, sel, drives, probe, was, late, faults, io, before>>
  PROVE  TInv'
<1>1. call' = [call EXCEPT !.at = "idle", !.ok = FALSE] /\ Rest /\ sel \in Positions
  BY DEF Answer, TInv, DInv, DTypes
<1>2. /\ call \in AtaCalls /\ call.op \in {"read", "write"} /\ Target \in Positions
      /\ call.lba \in Nat /\ call.n \in Nat /\ call.i \in Nat /\ call.i <= call.n
      /\ call.at \in {"prepare", "transfer", "flush", "flushed"}
      /\ call.at # "transfer" /\ call.at # "prepare" => call.op = "write"
      /\ call.b \in DOMAIN drives
  BY UnderWay DEF InCall
<1>3. /\ call'.at = "idle" /\ ~call'.ok /\ call'.op = call.op /\ call'.b = call.b
      /\ call'.lba = call.lba /\ call'.n = call.n /\ call'.src = call.src
  BY <1>1, <1>2 DEF AtaCalls
<1>4. \A d \in Positions : AtRest(drv[d])
  BY <1>1, <1>2 DEF Rest
<1>5. Rest'
  BY <1>1, <1>3, <1>4 DEF Rest, AtRest, Probing
<1>6. Target' = Target /\ \A x : Written(x)' <=> Written(x)
  BY <1>3 DEF Target, Written
<1>7. ASSUME NEW d \in Positions, NEW x \in LBAs
      PROVE  (<<d, x>> \in Touched /\ Written(x)) \/ disk[d][x] = was[d][x]
  <2>1. CASE call.at = "prepare" \/ call.op = "read"
    <3>1. disk = was
      BY <1>2, <2>1 DEF TInv, Reading, Probing
    <3> QED
      BY <3>1
  <2>2. CASE call.at # "prepare" /\ call.op = "write"
    <3>1. Writing
      BY <1>2, <2>2 DEF TInv
    <3>2. CASE disk[d][x] = was[d][x]
      BY <3>2
    <3>3. CASE d = Target /\ x \in call.lba .. call.lba + call.i - 1 /\ Written(x)
      <4>1. x - call.lba \in 0 .. call.n - 1 /\ x = call.lba + (x - call.lba)
        BY <1>2, <3>3
      <4>2. <<Target, x>> \in {<<Target, call.lba + k>> : k \in 0 .. call.n - 1}
        BY <4>1
      <4> QED
        BY <1>2, <2>2, <3>3, <4>2 DEF Touched
    <3> QED
      BY <3>1, <3>2, <3>3 DEF Writing
  <2> QED
    BY <1>2, <2>1, <2>2
<1>8. Touched' = Touched
  BY <1>3, <1>6 DEF Touched
<1>9. TransferExact'
  BY <1>3, <1>6, <1>7, <1>8 DEF TransferExact
<1> QED
  BY <1>3, <1>5, <1>9 DEF TInv, Probing

LEMMA PrepareExact ==
  ASSUME DInv, TInv, Prepare, UNCHANGED <<io, before>>
  PROVE  TInv'
<1> SUFFICES ASSUME ~late'
             PROVE  TInv'
  BY DEF TInv
<1>1. /\ call.at = "prepare" /\ call.at \in InCall /\ sel \in Positions /\ AtaCallOK(call) /\ ~late
      /\ DTypes /\ late' = late
      /\ UNCHANGED <<kind, disk, drives, probe, was, faults, calls, io, before>>
  BY DEF Prepare, InCall, DInv, DTypes, AtaWait
<1>2. CASE Answer(FALSE) /\ UNCHANGED <<sel, drv>>
  BY <1>1, <1>2, CallFails
<1>3. CASE /\ sel' = drives[call.b].drive
           /\ drv' = Command(drives[call.b].drive, call.op, call.lba, call.n % MaxTransfer)
           /\ call' = [call EXCEPT !.at = "transfer"]
  <2>1. /\ call \in AtaCalls /\ call.op \in {"read", "write"} /\ Target \in Positions
        /\ call.lba \in Nat /\ call.n \in Nat /\ call.i = 0 /\ call.n > 0
        /\ call.n <= MaxTransfer /\ kind[Target] = "disk"
    BY <1>1, UnderWay DEF AtaCallOK
  <2>2. /\ call'.at = "transfer" /\ call'.op = call.op /\ call'.b = call.b
        /\ call'.lba = call.lba /\ call'.n = call.n /\ call'.i = 0 /\ call'.src = call.src
        /\ call'.got = call.got
    BY <1>3, <2>1 DEF AtaCalls
  <2>3. Rest /\ disk = was /\ call.got = <<>>
        /\ (call.op = "write" => \A k \in 1 .. call.n : call.src[k] # Junk)
    BY <1>1 DEF TInv
  <2>4. \A d \in Positions : AtRest(drv[d])
    BY <1>1, <2>3 DEF Rest
  <2>5. Obeys(Target)
    BY <2>1, <2>4 DEF Obeys, AtRest
  <2> DEFINE m == IF call.n % MaxTransfer = 0 THEN MaxTransfer ELSE call.n % MaxTransfer
  <2>6. m = call.n
    <3>1. CASE call.n = MaxTransfer
      <4>1. 0 = call.n % MaxTransfer
        BY <3>1, Constants
      <4> QED
        BY <3>1, <4>1
    <3>2. CASE call.n < MaxTransfer
      <4>1. call.n = call.n % MaxTransfer
        BY <2>1, <3>2, Constants
      <4> QED
        BY <2>1, <4>1
    <3> QED
      BY <2>1, <3>1, <3>2, Constants
  <2>7. drv' = [drv EXCEPT ![Target] = [Quiet EXCEPT !.busy = TRUE, !.cmd = call.op,
                                                     !.lba = call.lba, !.left = m]]
    BY <1>3, <2>5 DEF Command, Target
  <2> HIDE DEF m
  <2>8. /\ drv'[Target] = [Quiet EXCEPT !.busy = TRUE, !.cmd = call.op, !.lba = call.lba, !.left = m]
        /\ \A d \in Positions \ {Target} : drv'[d] = drv[d]
    BY <1>1, <2>1, <2>7 DEF DTypes
  <2>9. /\ drv'[Target].busy /\ ~drv'[Target].drq /\ ~drv'[Target].err
        /\ drv'[Target].cmd = call.op /\ drv'[Target].lba = call.lba
        /\ drv'[Target].left = call.n /\ drv'[Target].data = Junk
    BY <2>6, <2>8 DEF Quiet
  <2>10. Target' = Target /\ sel' = Target
    BY <1>1, <1>3, <2>2 DEF Target
  <2>11. Rest'
    BY <2>2, <2>3, <2>4, <2>8, <2>9, <2>10 DEF Rest, AtRest, Probing
  <2>12. ASSUME call.op = "read"
         PROVE  Reading'
    <3>1. call'.got = [k \in 1 .. call'.i |-> was'[Target'][call'.lba + k - 1]]
      BY <2>2, <2>3
    <3>2. call'.lba + call'.i = call.lba /\ call'.n - call'.i = call.n
      BY <2>1, <2>2
    <3> QED
      BY <1>1, <2>2, <2>3, <2>9, <2>10, <2>12, <3>1, <3>2 DEF Reading
  <2>13. ASSUME call.op = "write"
         PROVE  Writing'
    <3>1. OnWrite(drv[sel])'
      BY <2>2, <2>9, <2>10, <2>13 DEF OnWrite
    <3>2. \A l \in LBAs : l \notin call'.lba .. call'.lba + call'.i - 1
      BY <2>1, <2>2
    <3> QED
      BY <1>1, <2>2, <2>3, <2>13, <3>1, <3>2 DEF Writing
  <2>14. TransferExact'
    BY <2>2 DEF TransferExact
  <2> QED
    BY <2>1, <2>2, <2>11, <2>12, <2>13, <2>14 DEF TInv, Probing
<1> QED
  BY <1>1, <1>2, <1>3 DEF Prepare, AtaWait

(* The next sector of a read. *)
LEMMA TakeExact ==
  ASSUME DInv, TInv, ~late, call.at = "transfer", call.op = "read", ~drv[sel].err,
         DataReady, TakeSector,
         UNCHANGED <<kind, disk, sel, drives, probe, was, late, faults, io, before>>
  PROVE  TInv'
<1>1. /\ call.at \in InCall /\ sel \in Positions /\ DTypes /\ Rest /\ Reading
      /\ drv[sel] \in Drives /\ ~drv[sel].busy /\ drv[sel].drq
  BY DEF InCall, DInv, DTypes, TInv, DataReady, Selected
<1>2. /\ call \in AtaCalls /\ Target \in Positions /\ call.lba \in Nat /\ call.n \in Nat
      /\ call.i \in Nat /\ call.i < call.n /\ Len(call.got) = call.i /\ call.got \in Seq(Sectors)
      /\ was \in [Positions -> [LBAs -> Sectors]]
      /\ \A k \in Nat : k < call.n => call.lba + k \in LBAs
  BY <1>1, UnderWay
<1>3. /\ drv[sel].cmd = "read" /\ drv[sel].lba = call.lba + call.i
      /\ drv[sel].left = call.n - call.i /\ disk = was /\ drv[sel].data = Junk
      /\ call.got = [k \in 1 .. call.i |-> was[Target][call.lba + k - 1]]
  BY <1>1 DEF Reading
<1>4. sel = Target
  BY <1>1 DEF Rest
<1> DEFINE new == was[Target][call.lba + call.i]
           last == call.i + 1 = call.n
<1>5. SectorIn = new /\ new \in Sectors
  BY <1>1, <1>2, <1>3, <1>4 DEF SectorIn, Selected
<1>6. drv' = [drv EXCEPT ![sel] = AfterIn] /\ drv'[sel] = AfterIn
  BY <1>1 DEF TakeSector, Becomes, DTypes
<1>7. \A e \in Positions \ {sel} : drv'[e] = drv[e]
  BY <1>1, <1>6 DEF DTypes
<1>8. AfterIn = IF drv[sel].left = 1 THEN Quiet
                ELSE [Further(drv[sel]) EXCEPT !.busy = TRUE, !.drq = FALSE]
  BY <1>1, <1>3 DEF AfterIn, Selected
<1>9. call' = [call EXCEPT !.got = Append(call.got, new), !.i = call.i + 1,
                           !.at = IF last THEN "idle" ELSE "transfer"]
  BY <1>2, <1>5 DEF TakeSector, Last
<1>10. /\ call'.at = IF last THEN "idle" ELSE "transfer"
       /\ call'.op = "read" /\ call'.b = call.b /\ call'.lba = call.lba /\ call'.n = call.n
       /\ call'.i = call.i + 1 /\ call'.got = Append(call.got, new) /\ call'.ok = call.ok
  BY <1>2, <1>9 DEF AtaCalls
<1>11. Target' = Target /\ sel' = sel
  BY <1>10 DEF Target
<1>12. Append(call.got, new) = [k \in 1 .. call.i + 1 |-> was[Target][call.lba + k - 1]]
  <2> DEFINE f == [k \in 1 .. call.i + 1 |-> was[Target][call.lba + k - 1]]
             g == Append(call.got, new)
  <2>1. ASSUME NEW k \in 1 .. call.i + 1
        PROVE  f[k] \in Sectors
    <3>1. k - 1 \in Nat /\ k - 1 < call.n /\ call.lba + (k - 1) = call.lba + k - 1
      BY <1>2
    <3> QED
      BY <1>2, <3>1
  <2>2. f \in Seq(Sectors) /\ Len(f) = call.i + 1
    <3>1. f \in [1 .. call.i + 1 -> Sectors]
      BY <2>1
    <3>2. call.i + 1 \in Nat
      BY <1>2
    <3> HIDE DEF f
    <3> QED
      BY <3>1, <3>2, FunctionIsSeq
  <2>3. g \in Seq(Sectors) /\ Len(g) = call.i + 1
    BY <1>2, <1>5
  <2>4. ASSUME NEW k \in 1 .. call.i + 1
        PROVE  g[k] = f[k]
    <3>1. CASE k = call.i + 1
      <4>1. g[k] = new
        BY <1>2, <1>5, <3>1
      <4>2. f[k] = was[Target][call.lba + k - 1] /\ call.lba + k - 1 = call.lba + call.i
        BY <1>2, <3>1
      <4> QED
        BY <4>1, <4>2
    <3>2. CASE k # call.i + 1
      <4>1. k \in 1 .. call.i
        BY <1>2, <3>2
      <4>2. g[k] = call.got[k]
        BY <1>2, <1>5, <4>1
      <4> QED
        BY <1>3, <4>1, <4>2
    <3> QED
      BY <3>1, <3>2
  <2> HIDE DEF f, g
  <2>5. f = g
    BY <2>2, <2>3, <2>4, SeqEqual
  <2> QED
    BY <2>5 DEF f, g
<1>13. CASE last
  <2>1. drv'[sel] = Quiet /\ call'.at = "idle"
    BY <1>2, <1>3, <1>6, <1>8, <1>10, <1>13
  <2>2. AtRest(drv'[sel])
    BY <2>1, Fields DEF AtRest
  <2>3. Rest'
    BY <1>1, <1>7, <1>11, <2>1, <2>2 DEF Rest, AtRest, Probing
  <2>4. call'.got = [k \in 1 .. call'.n |-> was'[Target'][call'.lba + k - 1]]
    BY <1>10, <1>11, <1>12, <1>13
  <2>5. TransferExact'
    BY <1>3, <1>10, <2>4 DEF TransferExact, Touched
  <2> QED
    BY <2>1, <2>3, <2>5 DEF TInv, Probing
<1>14. CASE ~last
  <2>1. drv[sel].left # 1 /\ call'.at = "transfer"
    BY <1>2, <1>3, <1>10, <1>14
  <2>2. drv'[sel] = [Further(drv[sel]) EXCEPT !.busy = TRUE, !.drq = FALSE]
    BY <1>6, <1>8, <2>1
  <2>3. /\ drv'[sel].busy /\ ~drv'[sel].err /\ drv'[sel].cmd = "read" /\ drv'[sel].data = Junk
        /\ drv'[sel].lba = drv[sel].lba + 1 /\ drv'[sel].left = drv[sel].left - 1
    BY <1>1, <1>3, <2>2 DEF Further, Drives
  <2>4. drv'[sel].lba = call.lba + (call.i + 1) /\ drv'[sel].left = call.n - (call.i + 1)
    BY <1>2, <1>3, <2>3
  <2>5. Reading'
    BY <1>3, <1>10, <1>11, <1>12, <2>3, <2>4 DEF Reading
  <2>6. Rest'
    BY <1>1, <1>4, <1>7, <1>11, <2>1, <2>3 DEF Rest, AtRest, Probing
  <2>7. TransferExact'
    BY <2>1 DEF TransferExact
  <2> QED
    BY <1>10, <2>1, <2>5, <2>6, <2>7 DEF TInv, Probing
<1> QED
  BY <1>13, <1>14

(* The next sector of a write. *)
LEMMA GiveExact ==
  ASSUME DInv, TInv, ~late, call.at = "transfer", call.op = "write", ~drv[sel].err,
         DataReady, GiveSector,
         UNCHANGED <<kind, disk, sel, drives, probe, was, late, faults, io, before>>
  PROVE  TInv'
<1>1. /\ call.at \in InCall /\ sel \in Positions /\ DTypes /\ Rest /\ Writing
      /\ drv[sel] \in Drives /\ ~drv[sel].busy /\ drv[sel].drq
  BY DEF InCall, DInv, DTypes, TInv, DataReady, Selected
<1>2. /\ call \in AtaCalls /\ Target \in Positions /\ call.lba \in Nat /\ call.n \in Nat
      /\ call.i \in Nat /\ call.i < call.n /\ Len(call.src) = call.n
  BY <1>1, UnderWay
<1>3. sel = Target /\ \A k \in 1 .. call.n : call.src[k] # Junk
  BY <1>1 DEF Rest, Writing
<1>4. /\ drv[sel].cmd = "write" /\ drv[sel].lba = call.lba + call.i
      /\ drv[sel].left = call.n - call.i
  BY <1>1 DEF Writing, OnWrite, Pending, AtRest
<1> DEFINE new == call.src[call.i + 1]
           last == call.i + 1 = call.n
<1>5. drv' = [drv EXCEPT ![sel] = [drv[sel] EXCEPT !.busy = TRUE, !.drq = FALSE, !.data = new]]
  BY <1>1, <1>4 DEF GiveSector, Becomes, AfterOut, Selected
<1>6. /\ drv'[sel].busy /\ ~drv'[sel].drq /\ ~drv'[sel].err /\ drv'[sel].cmd = "write"
      /\ drv'[sel].data = new /\ drv'[sel].lba = drv[sel].lba /\ drv'[sel].left = drv[sel].left
      /\ \A e \in Positions \ {sel} : drv'[e] = drv[e]
  BY <1>1, <1>4, <1>5 DEF DTypes, Drives
<1>7. call' = [call EXCEPT !.i = call.i + 1, !.at = IF last THEN "flush" ELSE "transfer"]
  BY <1>2 DEF GiveSector, Last
<1>8. /\ call'.at \in {"flush", "transfer"}
      /\ call'.op = "write" /\ call'.b = call.b /\ call'.lba = call.lba /\ call'.n = call.n
      /\ call'.i = call.i + 1 /\ call'.src = call.src
  BY <1>2, <1>7 DEF AtaCalls
<1>9. Target' = Target /\ sel' = sel /\ \A x : Written(x)' <=> Written(x)
  BY <1>8 DEF Target, Written
<1>10. Pending(drv[sel])'
  <2>1. drv'[sel].lba = call.lba + (call.i + 1) - 1 /\ drv'[sel].left = call.n - (call.i + 1) + 1
    BY <1>2, <1>4, <1>6
  <2>2. call'.i > 0
    BY <1>2, <1>8
  <2> QED
    BY <1>6, <1>8, <1>9, <2>1, <2>2 DEF Pending
<1>11. OnWrite(drv[sel])'
  BY <1>10 DEF OnWrite
<1>12. ASSUME NEW d \in Positions, NEW x \in LBAs
       PROVE  \/ d = Target /\ x \in call.lba .. call.lba + (call.i + 1) - 1 /\ Written(x)
              \/ disk[d][x] = was[d][x] /\
                   \/ d # Target \/ x \notin call.lba .. call.lba + (call.i + 1) - 1
                   \/ x = call.lba + (call.i + 1) - 1
  <2>1. \/ d = Target /\ x \in call.lba .. call.lba + call.i - 1 /\ Written(x)
        \/ disk[d][x] = was[d][x] /\ (d # Target \/ x \notin call.lba .. call.lba + call.i - 1)
    BY <1>1 DEF Writing, Pending
  <2>2. x \in Nat
    BY Constants
  <2>3. x \in call.lba .. call.lba + call.i - 1 => x \in call.lba .. call.lba + (call.i + 1) - 1
    BY <1>2
  <2>4. \/ x \in call.lba .. call.lba + call.i - 1
        \/ x \notin call.lba .. call.lba + (call.i + 1) - 1
        \/ x = call.lba + (call.i + 1) - 1
    BY <1>2, <2>2
  <2> QED
    BY <2>1, <2>3, <2>4
<1>13. Writing'
  BY <1>3, <1>8, <1>9, <1>10, <1>11, <1>12 DEF Writing
<1>14. Rest'
  BY <1>1, <1>3, <1>6, <1>8, <1>9 DEF Rest, AtRest, Probing
<1>15. TransferExact'
  BY <1>8 DEF TransferExact
<1> QED
  BY <1>8, <1>13, <1>14, <1>15 DEF TInv, Probing

LEMMA TransferStepExact ==
  ASSUME DInv, TInv, Transfer, UNCHANGED <<io, before>>
  PROVE  TInv'
<1> SUFFICES ASSUME ~late'
             PROVE  TInv'
  BY DEF TInv
<1>1. /\ call.at = "transfer" /\ call.at \in InCall /\ ~late /\ late' = late
      /\ UNCHANGED <<kind, disk, sel, drives, probe, was, faults, calls, io, before>>
  BY DEF Transfer, InCall, DInv, DTypes, AtaWait
<1>2. call.op \in {"read", "write"}
  BY <1>1, UnderWay
<1>3. CASE drv[sel].err /\ Answer(FALSE) /\ UNCHANGED drv
  BY <1>1, <1>3, CallFails
<1>4. CASE ~drv[sel].err /\ DataReady /\ call.op = "read" /\ TakeSector
  BY <1>1, <1>4, TakeExact
<1>5. CASE ~drv[sel].err /\ DataReady /\ call.op = "write" /\ GiveSector
  BY <1>1, <1>5, GiveExact
<1> QED
  BY <1>1, <1>2, <1>3, <1>4, <1>5 DEF Transfer, AtaWait, Selected

LEMMA FlushExact ==
  ASSUME DInv, TInv, ~late, Flush, UNCHANGED <<io, before>>
  PROVE  TInv'
<1>1. /\ call.at = "flush" /\ call.at \in InCall /\ sel \in Positions /\ DTypes /\ Rest
      /\ call' = [call EXCEPT !.at = "flushed"] /\ drv' = Command(sel, "flush", 0, 1)
      /\ UNCHANGED <<kind, disk, sel, drives, probe, was, late, faults, calls>>
  BY DEF Flush, InCall, DInv, DTypes, TInv
<1>2. /\ call \in AtaCalls /\ Target \in Positions /\ call.lba \in Nat /\ call.n \in Nat
      /\ call.i \in Nat /\ call.i = call.n /\ call.op = "write" /\ kind[Target] = "disk"
  BY <1>1, UnderWay
<1>3. Writing /\ sel = Target
  BY <1>1, <1>2 DEF TInv, Rest
<1>4. /\ call'.at = "flushed" /\ call'.op = "write" /\ call'.b = call.b /\ call'.lba = call.lba
      /\ call'.n = call.n /\ call'.i = call.i /\ call'.src = call.src
  BY <1>1, <1>2 DEF AtaCalls
<1>5. Target' = Target /\ sel' = sel /\ \A x : Written(x)' <=> Written(x)
  BY <1>1, <1>4 DEF Target, Written
<1>6. CASE AtRest(drv[sel])
  <2>1. Obeys(sel)
    BY <1>2, <1>3, <1>6 DEF Obeys, AtRest
  <2>2. /\ drv'[sel].busy /\ ~drv'[sel].drq /\ ~drv'[sel].err /\ drv'[sel].cmd = "flush"
        /\ drv'[sel].data = Junk /\ drv'[sel].lba = 0
        /\ \A e \in Positions \ {sel} : drv'[e] = drv[e]
    BY <1>1, <2>1 DEF Command, Quiet, DTypes
  <2>3. OnWrite(drv[sel])' /\ ~Pending(drv[sel])
    BY <1>4, <1>5, <1>6, <2>2 DEF OnWrite, AtRest, Pending
  <2>4. Writing'
    BY <1>1, <1>3, <1>4, <1>5, <2>2, <2>3 DEF Writing
  <2>5. Rest'
    BY <1>1, <1>3, <1>4, <1>5, <2>2 DEF Rest, AtRest, Probing
  <2>6. TransferExact'
    BY <1>4 DEF TransferExact
  <2> QED
    BY <1>4, <2>4, <2>5, <2>6 DEF TInv, Probing
<1>7. CASE ~AtRest(drv[sel])
  <2>1. drv' = drv
    BY <1>1, <1>7 DEF Command, Obeys, AtRest
  <2>2. OnWrite(drv[sel])' /\ (Pending(drv[sel])' <=> Pending(drv[sel]))
    BY <1>1, <1>3, <1>4, <1>5, <1>7, <2>1 DEF Writing, OnWrite, Pending
  <2>3. Writing'
    BY <1>1, <1>3, <1>4, <1>5, <2>1, <2>2 DEF Writing
  <2>4. Rest'
    BY <1>1, <1>3, <1>4, <1>5, <2>1 DEF Rest, AtRest, Probing
  <2>5. TransferExact'
    BY <1>4 DEF TransferExact
  <2> QED
    BY <1>4, <2>3, <2>4, <2>5 DEF TInv, Probing
<1> QED
  BY <1>6, <1>7

LEMMA FlushedExact ==
  ASSUME DInv, TInv, Flushed, UNCHANGED <<io, before>>
  PROVE  TInv'
<1> SUFFICES ASSUME ~late'
             PROVE  TInv'
  BY DEF TInv
<1>1. /\ call.at = "flushed" /\ call.at \in InCall /\ sel \in Positions /\ DTypes /\ ~late
      /\ UNCHANGED <<kind, disk, drv, sel, drives, probe, was, late, faults, calls>>
  BY DEF Flushed, InCall, DInv, DTypes, AtaWait
<1>2. CASE drv[sel].err /\ Answer(FALSE)
  BY <1>1, <1>2, CallFails
<1>3. CASE ~drv[sel].err /\ ~drv[sel].busy /\ Answer(TRUE)
  <2>1. /\ call \in AtaCalls /\ Target \in Positions /\ call.lba \in Nat /\ call.n \in Nat
        /\ call.i \in Nat /\ call.i = call.n /\ call.op = "write"
    BY <1>1, UnderWay
  <2>2. Rest /\ Writing /\ sel = Target
    BY <1>1, <2>1 DEF TInv, Rest
  <2>3. /\ call'.at = "idle" /\ call'.op = "write" /\ call'.b = call.b /\ call'.lba = call.lba
        /\ call'.n = call.n /\ call'.src = call.src
    BY <1>3, <2>1 DEF AtaCalls, Answer
  <2>4. Target' = Target /\ \A x : Written(x)' <=> Written(x)
    BY <1>1, <2>3 DEF Target, Written
  <2>5. AtRest(drv[sel])
    BY <1>3, <2>1, <2>2 DEF Writing, OnWrite, Pending, AtRest
  <2>6. Rest'
    BY <1>1, <2>2, <2>3, <2>5 DEF Rest, AtRest, Probing
  <2>7. ~Pending(drv[sel]) /\ call.b \in DOMAIN drives
    BY <1>1, <1>3, UnderWay DEF Pending
  <2>8. Touched' = {<<Target, call.lba + k>> : k \in 0 .. call.n - 1}
    BY <1>1, <2>3, <2>4, <2>7 DEF Touched
  <2>9. ASSUME NEW d \in Positions, NEW x \in LBAs
        PROVE  \/ <<d, x>> \in Touched' /\ Written(x)
               \/ disk[d][x] = was[d][x] /\
                    \/ <<d, x>> \notin Touched'
                    \/ faults > 0 /\ x = call.lba + call.n - 1
    <3>1. \/ d = Target /\ x \in call.lba .. call.lba + call.n - 1 /\ Written(x)
          \/ disk[d][x] = was[d][x] /\
               \/ d # Target \/ x \notin call.lba .. call.lba + call.n - 1
               \/ x = call.lba + call.n - 1 /\ faults > 0
      BY <2>1, <2>2, <2>7 DEF Writing
    <3>2. <<d, x>> \in Touched' <=> d = Target /\ x \in call.lba .. call.lba + call.n - 1
      <4>1. ASSUME d = Target, x \in call.lba .. call.lba + call.n - 1
            PROVE  <<d, x>> \in Touched'
        <5>1. x - call.lba \in 0 .. call.n - 1 /\ x = call.lba + (x - call.lba)
          BY <2>1, <4>1
        <5> QED
          BY <2>8, <4>1, <5>1
      <4>2. ASSUME <<d, x>> \in Touched'
            PROVE  d = Target /\ x \in call.lba .. call.lba + call.n - 1
        <5>1. PICK k \in 0 .. call.n - 1 : <<d, x>> = <<Target, call.lba + k>>
          BY <2>8, <4>2
        <5> QED
          BY <2>1, <5>1
      <4> QED
        BY <4>1, <4>2
    <3> QED
      BY <3>1, <3>2
  <2>10. TransferExact'
    BY <1>1, <2>3, <2>4, <2>9 DEF TransferExact
  <2> QED
    BY <2>3, <2>6, <2>10 DEF TInv, Probing
<1> QED
  BY <1>1, <1>2, <1>3 DEF Flushed, AtaWait, Selected, NotBusy

LEMMA NothingWritten ==
  ASSUME DInv, TransferExact, ~late, call.at = "idle", call.op # "write"
  PROVE  disk = was
<1>1. disk \in [Positions -> [LBAs -> Sectors]] /\ was \in [Positions -> [LBAs -> Sectors]]
  BY DEF DInv, DTypes, Disks
<1>2. \A d \in Positions, l \in LBAs : disk[d][l] = was[d][l]
  BY DEF TransferExact, Touched
<1>3. \A d \in Positions : disk[d] = was[d]
  BY <1>1, <1>2
<1> QED
  BY <1>1, <1>3

(* The probe starts on a disk that has not been written, and ends on it.     *)
LEMMA ProbeCommandExact ==
  ASSUME DInv, TInv, ~late, ProbeCommand, UNCHANGED <<io, before>>
  PROVE  TInv'
<1>1. /\ probe < ATA_MAX_DRIVES /\ call.at = "idle" /\ sel' = probe
      /\ drv' = Command(probe, "identify", 0, 1)
      /\ call' = [Idle EXCEPT !.at = "status", !.op = "identify"]
      /\ UNCHANGED <<kind, disk, drives, probe, was, late, faults, calls>>
      /\ DTypes /\ Phases /\ Probed /\ Rest /\ TransferExact
  BY DEF ProbeCommand, DInv, TInv
<1>2. call'.at = "status" /\ probe \in Positions /\ call.op # "write"
  BY <1>1, Constants DEF Idle, DTypes, Phases
<1>3. drv[probe] = Quiet /\ \A d \in Positions : AtRest(drv[d])
  BY <1>1, <1>2 DEF Probed, Rest
<1>4. CASE kind[probe] = "none"
  <2>1. drv' = drv
    BY <1>1, <1>4 DEF Command, Obeys
  <2>2. Rest'
    BY <1>1, <1>2, <1>3, <2>1, Fields DEF Rest, AtRest, Probing
  <2> QED
    BY <1>1, <1>2, <2>2, NothingWritten DEF TInv, TransferExact, Probing
<1>5. CASE kind[probe] # "none"
  <2>1. /\ drv'[probe].busy /\ ~drv'[probe].drq /\ ~drv'[probe].err
        /\ drv'[probe].cmd = "identify" /\ drv'[probe].data = Junk /\ drv'[probe].left = 1
        /\ \A e \in Positions \ {probe} : drv'[e] = drv[e]
    BY <1>1, <1>2, <1>3, <1>5 DEF Command, Obeys, Quiet, DTypes, AtRest
  <2>2. Rest'
    BY <1>1, <1>2, <1>3, <1>5, <2>1 DEF Rest, AtRest, Probing
  <2> QED
    BY <1>1, <1>2, <2>2, NothingWritten DEF TInv, TransferExact, Probing
<1> QED
  BY <1>4, <1>5

LEMMA ProbeExact ==
  ASSUME DInv, TInv, ProbeStatus \/ ProbeSignature \/ ProbeCapacity, UNCHANGED <<io, before>>
  PROVE  TInv'
<1> SUFFICES ASSUME ~late'
             PROVE  TInv'
  BY DEF TInv
<1>1. /\ call.at \in Probing /\ ~late /\ late' = late /\ sel \in Positions /\ DTypes /\ Phases /\ Probed
      /\ UNCHANGED <<kind, disk, sel, was, faults, calls>> /\ call \in AtaCalls
  BY DEF ProbeStatus, ProbeSignature, ProbeCapacity, AtaWait, DInv, DTypes, Probing, AtaCallOK
<1>2. Rest /\ disk = was
  BY <1>1 DEF TInv
<1>3. sel = probe /\ drv[sel] \in Drives
  BY <1>1 DEF Phases, DTypes
<1>4. /\ drv[sel].data = Junk /\ drv[sel].cmd \in {"none", "identify"}
      /\ kind[sel] = "cdrom" => ~drv[sel].drq
      /\ kind[sel] = "none" => AtRest(drv[sel])
      /\ AtRest(drv[sel]) \/ drv[sel].left = 1
      /\ \A d \in Positions : drv[d].err => AtRest(drv[d])
      /\ \A d \in Positions \ {sel} : AtRest(drv[d])
  BY <1>1, <1>2 DEF Rest
<1>5. ASSUME ProbeNext, AtRest(drv'[sel]), \A d \in Positions \ {sel} : drv'[d] = drv[d]
      PROVE  TInv'
  <2>1. call'.at = "idle" /\ call'.op = "none"
    BY <1>5 DEF ProbeNext, Idle
  <2>2. \A d \in Positions : AtRest(drv'[d])
    BY <1>4, <1>5
  <2>3. Rest'
    BY <2>1, <2>2 DEF Rest, AtRest, Probing
  <2>4. TransferExact'
    BY <1>1, <1>2, <2>1 DEF TransferExact, Touched
  <2> QED
    BY <2>1, <2>3, <2>4 DEF TInv, Probing
<1>6. ASSUME NEW at \in {"signature", "capacity"}, call' = [call EXCEPT !.at = at],
             UNCHANGED <<drv, drives>>
      PROVE  TInv'
  <2>1. call'.at = at /\ call'.at \in Probing
    BY <1>1, <1>6 DEF AtaCalls, Probing
  <2>2. Rest'
    BY <1>1, <1>2, <1>6, <2>1 DEF Rest, AtRest, Probing
  <2>3. TransferExact'
    BY <2>1 DEF TransferExact, Probing
  <2> QED
    BY <1>1, <1>2, <1>6, <2>1, <2>2, <2>3 DEF TInv, Probing
<1>7. CASE ProbeStatus
  BY <1>4, <1>5, <1>6, <1>7 DEF ProbeStatus
<1>8. CASE ProbeSignature
  <2>1. CASE ProbeNext /\ (drv[sel].err \/ (~drv[sel].busy /\ kind[sel] = "cdrom"))
    <3>1. AtRest(drv[sel]) /\ drv' = drv
      BY <1>1, <1>4, <1>8, <2>1 DEF AtRest, ProbeSignature
    <3> QED
      BY <1>5, <2>1, <3>1
  <2>2. CASE call' = [call EXCEPT !.at = "capacity"]
    BY <1>6, <1>8, <2>2 DEF ProbeSignature
  <2> QED
    BY <1>1, <1>8, <2>1, <2>2 DEF ProbeSignature, AtaWait, Selected, NotBusy
<1>9. CASE ProbeCapacity
  <2>1. CASE drv[sel].err /\ UNCHANGED drv /\ ProbeNext
    BY <1>1, <1>4, <1>5, <2>1
  <2>2. CASE ~drv[sel].err /\ DataReady /\ Becomes(sel, AfterIn) /\ ProbeNext
    <3>1. drv[sel].drq /\ drv[sel].left = 1 /\ drv[sel].cmd # "write"
      BY <1>4, <2>2 DEF DataReady, Selected, AtRest
    <3>2. AfterIn = Quiet
      BY <3>1 DEF AfterIn, Selected
    <3>3. AtRest(drv'[sel]) /\ \A d \in Positions \ {sel} : drv'[d] = drv[d]
      BY <1>1, <2>2, <3>2, Fields DEF Becomes, AtRest, DTypes
    <3> QED
      BY <1>5, <2>2, <3>3
  <2> QED
    BY <1>1, <1>9, <2>1, <2>2 DEF ProbeCapacity, AtaWait, Selected
<1> QED
  BY <1>7, <1>8, <1>9

(* The byte view and the callers leave a call alone, or start one.           *)
LEMMA CallKeptExact ==
  ASSUME TInv, UNCHANGED <<kind, disk, drv, sel, drives, probe, call, was, late, faults>>
  PROVE  TInv'
<1>1. Rest' <=> Rest
  BY DEF Rest, AtRest, Target
<1>2. TransferExact' <=> TransferExact
  BY DEF TransferExact, Touched, Written, Target
<1>3. Reading' <=> Reading
  BY DEF Reading, Target
<1>4. Writing' <=> Writing
  BY DEF Writing, OnWrite, Pending, AtRest, Written, Target
<1> QED
  BY <1>1, <1>2, <1>3, <1>4 DEF TInv

LEMMA CallStartsExact ==
  ASSUME DInv, TInv, call.at = "idle", was' = disk, call'.at \in {"idle", "prepare"},
         call'.got = <<>>, call'.n \in Nat, call'.at = "idle" /\ call'.ok => call'.n = 0,
         call'.op = "write" => \A k \in 1 .. call'.n : call'.src[k] # Junk,
         UNCHANGED <<kind, disk, drv, sel, drives, probe, late, faults>>
  PROVE  TInv'
<1> SUFFICES ASSUME ~late'
             PROVE  TInv'
  BY DEF TInv
<1>1. Rest /\ \A d \in Positions : AtRest(drv[d])
  BY DEF TInv, Rest
<1>2. Rest'
  BY <1>1 DEF Rest, AtRest, Probing
<1>3. call'.n = 0 => call'.got = [i \in 1 .. call'.n |-> was'[Target'][call'.lba + i - 1]]
  OBVIOUS
<1>4. call'.n = 0 => Touched' = {}
  BY DEF Touched
<1>5. TransferExact'
  BY <1>3, <1>4 DEF TransferExact
<1> QED
  BY <1>2, <1>5 DEF TInv, Probing

(* A chunk is read or written. *)
LEMMA SectorExact ==
  ASSUME DInv, TInv, io.at # "idle", io.done < io.n, call.at = "idle",
         NEW op \in {"read", "write"}, NEW src \in Seq(Sectors),
         op = "write" => Len(src) = 1 /\ src[1] # Junk,
         Enter(op, io.b, Lba, 1, src), AtaElse
  PROVE  TInv'
<1>1. /\ call'.at \in {"idle", "prepare"} /\ was' = disk /\ call'.op = op /\ call'.n = 1
      /\ call'.got = <<>> /\ call'.src = src
      /\ call'.at = "prepare" <=> Lba + 1 <= NSectors
      /\ call'.ok <=> Lba + 1 <= NSectors
  BY SectorCall
<1>2. ~(call'.at = "idle" /\ call'.ok)
  BY <1>1
<1>3. call'.op = "write" => \A k \in 1 .. call'.n : call'.src[k] # Junk
  BY <1>1
<1>4. call'.n \in Nat
  BY <1>1
<1>5. UNCHANGED <<kind, disk, drv, sel, drives, probe, late, faults>>
  BY DEF AtaElse
<1> QED
  BY <1>1, <1>2, <1>3, <1>4, <1>5, CallStartsExact

LEMMA MergedExact ==
  ASSUME DInv, TInv, io.at # "idle", io.done < io.n, call.at = "idle",
         NEW s \in Sectors, Writes(io.b, Merged(s)), AtaElse
  PROVE  TInv'
<1>1. IoCallOK(io)
  BY DEF DInv, DTypes
<1> DEFINE m == Merged(s)
<1>2. m \in Sectors /\ m # Junk
  BY <1>1, MergedSector
<1>3. Enter("write", io.b, Lba, 1, <<m>>)
  BY DEF Writes
<1> HIDE DEF m
<1>4. <<m>> \in Seq(Sectors) /\ Len(<<m>>) = 1 /\ <<m>>[1] # Junk
  BY <1>2
<1> QED
  BY <1>3, <1>4, SectorExact

LEMMA TransferStep ==
  ASSUME DInv, TInv, [Next]_vars
  PROVE  TInv'
<1> SUFFICES ASSUME ~late'
             PROVE  TInv'
  BY DEF TInv
<1>1. DTypes /\ Phases
  BY DEF DInv
<1>2. CASE Prepare /\ UNCHANGED <<io, before>>
  BY <1>2, PrepareExact
<1>3. CASE Transfer /\ UNCHANGED <<io, before>>
  BY <1>3, TransferStepExact
<1>4. CASE Flush /\ UNCHANGED <<io, before>>
  BY <1>4, FlushExact DEF Flush
<1>5. CASE Flushed /\ UNCHANGED <<io, before>>
  BY <1>5, FlushedExact
<1>6. CASE ProbeCommand /\ UNCHANGED <<io, before>>
  BY <1>6, ProbeCommandExact DEF ProbeCommand
<1>7. CASE (ProbeStatus \/ ProbeSignature \/ ProbeCapacity) /\ UNCHANGED <<io, before>>
  BY <1>7, ProbeExact
<1>8. CASE LoopEnds
  BY <1>8, CallKeptExact DEF LoopEnds, AtaElse, NoCall
<1>9. CASE ReadSector
  <2>1. <<>> \in Seq(Sectors) /\ "read" \in {"read", "write"} /\ "read" # "write"
    BY EmptySeq
  <2>2. io.at = "loop" /\ io.done < io.n /\ call.at = "idle" /\ AtaElse
        /\ Enter("read", io.b, Lba, 1, <<>>)
    BY <1>1, <1>9 DEF ReadSector, Reads, Phases
  <2> QED
    BY <2>1, <2>2, SectorExact
<1>10. CASE WriteWhole
  <2>1. io.at = "loop" /\ io.done < io.n /\ call.at = "idle" /\ AtaElse
        /\ Writes(io.b, Merged(io.bounce)) /\ io.bounce \in Sectors
    BY <1>1, <1>10 DEF WriteWhole, Phases, DTypes, IoCallOK, IoCalls
  <2> QED
    BY <2>1, MergedExact
<1>11. CASE Modify
  <2>1. io.at = "modify" /\ call.at = "idle" /\ AtaElse /\ io.done < io.n
    BY <1>1, <1>11 DEF Modify, CallOver, DTypes, IoCallOK, InLoop
  <2>2. CASE call.ok
    BY <1>11, <2>1, <2>2, GotOne, MergedExact DEF Modify
  <2>3. CASE ~call.ok
    BY <1>11, <2>1, <2>3, CallKeptExact DEF Modify, AtaElse, NoCall
  <2> QED
    BY <2>2, <2>3
<1>12. CASE Copy
  BY <1>12, CallKeptExact DEF Copy, AtaElse, NoCall
<1>13. CASE WriteEnds
  BY <1>13, CallKeptExact DEF WriteEnds, AtaElse, NoCall
<1>14. ASSUME NEW d \in Positions, Work(d), UNCHANGED <<io, before>>
       PROVE  TInv'
  <2>1. ~late
    BY <1>14 DEF Work
  <2>2. d = sel /\ call.at \in Probing \union {"transfer", "flush", "flushed"}
    BY <1>14, <2>1, BusyOne
  <2>3. Work(sel)
    BY <1>14, <2>2
  <2>4. CASE call.at \in Probing
    BY <1>14, <2>1, <2>3, <2>4, WorkProbing
  <2>5. CASE call.at \in {"transfer", "flush", "flushed"}
    <3>1. call.op \in {"read", "write"} /\ (call.at # "transfer" => call.op = "write")
      BY <2>5, UnderWay DEF InCall
    <3> QED
      BY <1>14, <2>1, <2>3, <2>5, <3>1, WorkReading, WorkWriting
  <2> QED
    BY <2>2, <2>4, <2>5
<1>15. ASSUME NEW b \in DOMAIN drives, NEW op \in {"read", "write"},
              NEW off \in Starts, NEW n \in Counts, Begin(op, b, off, n)
       PROVE  TInv'
  BY <1>15, CallKeptExact DEF Begin, AtaElse, NoCall
<1>16. ASSUME NEW b \in DOMAIN drives, NEW op \in {"read", "write"},
              NEW l \in 0 .. NSectors, NEW n \in 0 .. MaxTransfer + 1, Direct(op, b, l, n)
       PROVE  TInv'
  <2>1. l \in Nat /\ n \in Nat
    BY Constants
  <2>2. /\ was' = disk /\ call'.op = op /\ call'.n = n /\ call'.got = <<>>
        /\ call'.at \in {"idle", "prepare"}
        /\ op = "write" => \A k \in 1 .. n : call'.src[k] # Junk
        /\ call'.at = "prepare" <=> n # 0 /\ n <= MaxTransfer /\ l + n <= NSectors
        /\ call'.ok <=> n = 0 \/ (n <= MaxTransfer /\ l + n <= NSectors)
    BY <1>16, <2>1, DirectDrives
  <2>3. call.at = "idle" /\ UNCHANGED <<kind, disk, drv, sel, drives, probe, late, faults>>
    BY <1>16 DEF Direct, Free, AtaElse
  <2>4. call'.at = "idle" /\ call'.ok => call'.n = 0
    BY <2>2
  <2> QED
    BY <2>1, <2>2, <2>3, <2>4, CallStartsExact
<1>17. CASE UNCHANGED vars
  BY <1>17, CallKeptExact DEF vars, ataVars
<1> QED
  BY <1>2, <1>3, <1>4, <1>5, <1>6, <1>7, <1>8, <1>9, <1>10, <1>11, <1>12, <1>13, <1>14, <1>15, <1>16,
     <1>17
     DEF Next, Driver, AtaStep

LEMMA InitExact ==
  ASSUME Init
  PROVE  TInv
<1>1. /\ call.at = "idle" /\ call.op = "none" /\ disk = was
      /\ \A d \in Positions : drv[d] = Quiet
  BY DEF Init, AtaInit, Idle
<1>2. Rest
  BY <1>1, Fields DEF Rest, AtRest, Probing
<1>3. TransferExact
  BY <1>1 DEF TransferExact, Touched
<1> QED
  BY <1>1, <1>2, <1>3 DEF TInv, Probing

(* A call that answers its count has moved the sectors it was asked for,     *)
(* from or to the disk it was asked, and no call moves anything else         *)
(* (ata.c: ata_dev_read, ata_dev_write), for transfers of any size, any      *)
(* drives and any number of refusals, when no wait has been given up.        *)
THEOREM AtaTransferExact == Spec => []TransferExact
<1>1. Init => DInv /\ TInv
  BY InitDrives, InitExact
<1>2. DInv /\ TInv /\ [Next]_vars => DInv' /\ TInv'
  BY DrivesStep, TransferStep
<1>3. TInv => TransferExact
  BY DEF TInv, TransferExact
<1> QED
  BY <1>1, <1>2, <1>3, PTL DEF Spec

-----------------------------------------------------------------------------
(* The bytes.  Where a byte of the disk is. *)

LEMMA Larger ==
  ASSUME NEW s \in Nat, NEW q \in Nat, NEW n \in Nat, q >= n
  PROVE  s * q >= s * n
<1>1. PICK d \in Nat : q = n + d
  <2>1. q - n \in Nat /\ q = n + (q - n)
    OBVIOUS
  <2> QED
    BY <2>1
<1>2. s * d \in Nat /\ s * n \in Nat
  OBVIOUS
<1>3. s * (n + d) = s * n + s * d
  OBVIOUS
<1> QED
  BY <1>1, <1>2, <1>3

LEMMA Geometry ==
  ASSUME NEW p \in 0 .. Capacity - 1
  PROVE  /\ p \in Nat /\ p < Capacity /\ p \div SECTOR_SIZE \in LBAs
         /\ p % SECTOR_SIZE \in Offsets
<1> DEFINE q == p \div SECTOR_SIZE
           r == p % SECTOR_SIZE
<1>1. Capacity = NSectors * SECTOR_SIZE /\ Capacity \in Nat
  BY Constants DEF Capacity
<1>2. p \in Nat /\ p < Capacity
  BY <1>1
<1>3. q \in Nat /\ r \in Offsets /\ r \in Nat /\ p = SECTOR_SIZE * q + r
  BY <1>2, Divided
<1> HIDE DEF q, r
<1>4. q < NSectors
  <2> SUFFICES ASSUME q >= NSectors
               PROVE  FALSE
    BY <1>3, Constants
  <2>1. SECTOR_SIZE * q >= SECTOR_SIZE * NSectors
    BY <1>3, Constants, Larger
  <2>2. SECTOR_SIZE * NSectors = Capacity
    BY <1>1, Constants
  <2>3. SECTOR_SIZE * q \in Nat
    BY <1>3, Constants
  <2> QED
    BY <1>1, <1>2, <1>3, <2>1, <2>2, <2>3
<1>5. q \in LBAs
  BY <1>3, <1>4, Constants DEF LBAs
<1> QED
  BY <1>2, <1>3, <1>5 DEF q, r

(* The chunk is part of one sector. *)
LEMMA ChunkPlaces ==
  ASSUME DInv, io.at # "idle", io.done < io.n, NEW p \in Nat
  PROVE  /\ p \in io.off + io.done .. io.off + io.done + Chunk - 1
              <=> p \div SECTOR_SIZE = Lba /\ p % SECTOR_SIZE \in Skip .. Skip + Chunk - 1
         /\ p \div SECTOR_SIZE = Lba => p - io.off = io.done + (p % SECTOR_SIZE) - Skip
<1> DEFINE q == p \div SECTOR_SIZE
           r == p % SECTOR_SIZE
           a == io.off + io.done
<1>1. /\ io.off \in Nat /\ io.done \in Nat /\ a \in Nat
      /\ Lba \in Nat /\ Skip \in Nat /\ Chunk \in Nat /\ Chunk > 0 /\ Skip + Chunk <= SECTOR_SIZE
      /\ a = SECTOR_SIZE * Lba + Skip
  BY InTheLoop
<1>2. q \in Nat /\ r \in Nat /\ r < SECTOR_SIZE /\ p = SECTOR_SIZE * q + r
  BY Divided
<1> HIDE DEF q, r
<1>3. SECTOR_SIZE * Lba \in Nat /\ SECTOR_SIZE * q \in Nat
  BY <1>1, <1>2, Constants
<1>4. ASSUME q = Lba
      PROVE  /\ p - io.off = io.done + r - Skip
             /\ p \in a .. a + Chunk - 1 <=> r \in Skip .. Skip + Chunk - 1
  <2>1. p = SECTOR_SIZE * Lba + r
    BY <1>2, <1>4
  <2> DEFINE m == SECTOR_SIZE * Lba
  <2>2. m \in Nat /\ p = m + r /\ io.off + io.done = m + Skip
    BY <1>1, <1>3, <2>1
  <2> HIDE DEF m
  <2> QED
    BY <1>1, <1>2, <2>2
<1>5. ASSUME p \in a .. a + Chunk - 1
      PROVE  q = Lba
  <2> DEFINE t == p - SECTOR_SIZE * Lba
             m == SECTOR_SIZE * Lba
  <2>1. m \in Nat /\ a = m + Skip /\ t = p - m
    BY <1>1, <1>3
  <2> HIDE DEF m
  <2>2. t \in Nat /\ t < SECTOR_SIZE
    <3>1. /\ Skip \in Nat /\ Chunk \in Nat /\ Skip + Chunk <= SECTOR_SIZE /\ SECTOR_SIZE \in Nat
          /\ a \in Nat
      BY <1>1, Constants
    <3>2. a = m + Skip /\ m \in Nat /\ t = p - m
      BY <2>1
    <3> HIDE DEF a, t
    <3>3. p >= a /\ p <= a + Chunk - 1
      BY <1>5, <3>1
    <3> QED
      BY <3>1, <3>2, <3>3
  <2>3. p = m + t
    BY <2>1, <2>2
  <2> HIDE DEF t
  <2>4. t \in 0 .. SECTOR_SIZE - 1 /\ p = SECTOR_SIZE * Lba + t /\ SECTOR_SIZE \in Nat /\ SECTOR_SIZE > 0
    BY <2>2, <2>3, Constants DEF m
  <2>5. Lba = p \div SECTOR_SIZE
    BY <1>1, <2>4, DivModIs
  <2> QED
    BY <2>5 DEF q
<1> QED
  BY <1>4, <1>5 DEF q, r

(* The call has bytes left, so its sector is on the disk. *)
LEMMA ChunkOnDisk ==
  ASSUME DInv, BInv, ~late, io.at # "idle", io.done < io.n
  PROVE  /\ Lba \in LBAs /\ Lba + 1 <= NSectors
         /\ io.off + io.n <= Capacity /\ io.off + io.done < Capacity /\ Capacity \in Nat
<1>1. io.off < Capacity /\ io.n = Min({io.asked, Capacity - io.off})
  BY DEF BInv
<1>2. /\ io.off \in Nat /\ io.done \in Nat /\ io.n \in Nat /\ Lba \in Nat /\ io.asked \in Nat
  BY InTheLoop DEF IoCalls
<1>3. Capacity \in Nat
  BY Constants DEF Capacity
<1>4. Capacity - io.off \in Nat
  BY <1>1, <1>2, <1>3
<1>5. io.n <= Capacity - io.off
  BY <1>1, <1>2, <1>4, MinOfTwo
<1>6. io.off + io.done \in 0 .. Capacity - 1 /\ io.off + io.n <= Capacity
  BY <1>2, <1>3, <1>5
<1>7. Lba \in LBAs
  BY <1>6, Geometry DEF Lba
<1> QED
  BY <1>2, <1>3, <1>6, <1>7, Constants DEF LBAs

(* No step of the driver sets ERR, and without a refusal or a CD-ROM no step *)
(* of a drive does.                                                          *)
LEMMA NoNewError ==
  ASSUME DInv, AtaStep, NEW d \in Positions, drv'[d].err
  PROVE  drv[d].err
<1>1. DTypes /\ Phases /\ drv \in [Positions -> Drives] /\ sel \in Positions /\ drv[sel] \in Drives
      /\ AtaCallOK(call)
  BY DEF DInv, DTypes
<1>2. ASSUME NEW e \in Positions, NEW cmd, NEW l, NEW n, drv' = Command(e, cmd, l, n)
      PROVE  drv[d].err
  BY <1>1, <1>2 DEF Command, Quiet
<1>3. CASE Prepare
  <2> DEFINE e == drives[call.b].drive
             k == call.n % MaxTransfer
  <2>1. e \in Positions
    BY <1>1, <1>3, EntriesOfTable DEF Prepare, Phases, InCall
  <2>2. UNCHANGED drv \/ drv' = Command(e, call.op, call.lba, k)
    BY <1>3 DEF Prepare, AtaWait
  <2> HIDE DEF e, k
  <2> QED
    BY <1>2, <2>1, <2>2
<1>4. CASE Transfer
  <2>1. CASE UNCHANGED drv
    BY <2>1
  <2>2. CASE Becomes(sel, AfterIn)
    <3>1. ~AfterIn.err \/ AfterIn.err = drv[sel].err
      BY <1>1 DEF AfterIn, Quiet, Further, Selected, Drives
    <3> QED
      BY <1>1, <2>2, <3>1 DEF Becomes
  <2>3. CASE Becomes(sel, AfterOut(call.src[call.i + 1]))
    <3>1. AfterOut(call.src[call.i + 1]).err = drv[sel].err
      BY <1>1 DEF AfterOut, Selected, Drives
    <3> QED
      BY <1>1, <2>3, <3>1 DEF Becomes
  <2> QED
    BY <1>4, <2>1, <2>2, <2>3 DEF Transfer, AtaWait, TakeSector, GiveSector
<1>5. CASE Flush
  BY <1>1, <1>2, <1>5 DEF Flush
<1>6. CASE ProbeCommand
  <2>1. probe \in Positions
    BY <1>1, <1>6, Constants DEF ProbeCommand, DTypes
  <2> QED
    BY <1>2, <1>6, <2>1 DEF ProbeCommand
<1>7. CASE ProbeCapacity
  <2>1. CASE UNCHANGED drv
    BY <2>1
  <2>2. CASE Becomes(sel, AfterIn)
    <3>1. ~AfterIn.err \/ AfterIn.err = drv[sel].err
      BY <1>1 DEF AfterIn, Quiet, Further, Selected, Drives
    <3> QED
      BY <1>1, <2>2, <3>1 DEF Becomes
  <2> QED
    BY <1>7, <2>1, <2>2 DEF ProbeCapacity, AtaWait
<1>8. CASE Flushed \/ ProbeStatus \/ ProbeSignature
  BY <1>8 DEF Flushed, ProbeStatus, ProbeSignature
<1> QED
  BY <1>3, <1>4, <1>5, <1>6, <1>7, <1>8 DEF AtaStep

LEMMA WorkInRange ==
  ASSUME DInv, TInv, ~late, NEW d \in Positions, Work(d), kind[d] # "cdrom", faults = 0
  PROVE  drv[d].lba \in LBAs
<1>1. /\ d = sel /\ call.at \in Probing \union {"transfer", "flush", "flushed"}
      /\ drv[sel].busy /\ ~drv[sel].err /\ ~drv[sel].drq
  BY BusyOne
<1>2. DTypes /\ Phases /\ Probed /\ Rest /\ kind[d] \in Kinds
  BY DEF DInv, DTypes, TInv
<1>3. CASE call.at \in Probing
  <2>1. sel = probe /\ kind[sel] = "disk"
    BY <1>1, <1>2, <1>3 DEF Phases, Rest, AtRest, Kinds
  <2> QED
    BY <1>1, <1>2, <1>3, <2>1, Constants DEF Probed
<1>4. CASE call.at \in {"transfer", "flush", "flushed"}
  <2>1. /\ call.op \in {"read", "write"} /\ call.lba \in Nat /\ call.n \in Nat /\ call.i \in Nat
        /\ call.i <= call.n /\ (call.at = "transfer" => call.i < call.n)
        /\ call.at # "transfer" => call.op = "write"
        /\ \A k \in Nat : k < call.n => call.lba + k \in LBAs
    BY <1>4, UnderWay DEF InCall
  <2>2. CASE call.op = "read"
    <3>1. call.at = "transfer" /\ call.i < call.n
      BY <1>4, <2>1, <2>2
    <3>2. Reading
      BY <2>2, <3>1 DEF TInv
    <3>3. drv[sel].lba = call.lba + call.i
      BY <1>1, <3>2 DEF Reading
    <3> QED
      BY <1>1, <2>1, <3>1, <3>3
  <2>3. CASE call.op = "write"
    <3>1. OnWrite(drv[sel])
      BY <1>4, <2>3 DEF TInv, Writing
    <3>2. CASE drv[sel].lba = call.lba /\ drv[sel].left = call.n
      <4>1. drv[sel].left >= 1
        BY <1>1, <1>2 DEF DTypes, DriveOK
      <4>2. call.lba + 0 \in LBAs
        BY <2>1, <3>2, <4>1
      <4> QED
        BY <1>1, <2>1, <3>2, <4>2
    <3>3. CASE Pending(drv[sel])
      <4>0. call.i > 0 /\ drv[sel].lba = call.lba + call.i - 1
        BY <3>3 DEF Pending
      <4>2. call.lba \in Nat /\ call.n \in Nat /\ call.i \in Nat /\ call.i <= call.n
        BY <2>1
      <4>1. /\ call.i - 1 \in Nat /\ call.i - 1 < call.n
            /\ drv[sel].lba = call.lba + (call.i - 1)
        BY <4>0, <4>2
      <4> QED
        BY <1>1, <2>1, <4>1
    <3>4. CASE drv[sel].lba = 0
      BY <1>1, <3>4, Constants
    <3> QED
      BY <1>1, <3>1, <3>2, <3>3, <3>4 DEF OnWrite, AtRest
  <2> QED
    BY <2>1, <2>2, <2>3
<1> QED
  BY <1>1, <1>3, <1>4

LEMMA NoErrorUnrefused ==
  ASSUME DInv, TInv, BInv, ~late, NEW d \in Positions, Work(d), Unrefused'
  PROVE  Unrefused /\ \A e \in Positions : ~drv'[e].err
<1>1. DTypes /\ faults' >= faults /\ faults \in Nat
  BY Worked, Constants DEF DInv, DTypes
<1>2. Unrefused /\ faults' = 0 /\ faults = 0
  BY <1>1 DEF Unrefused, Work
<1>3. kind[d] # "cdrom" /\ drv[d].lba \in LBAs
  BY <1>2, WorkInRange DEF Unrefused
<1>4. \A e \in Positions : ~drv[e].err
  BY <1>2 DEF BInv
<1>5. /\ \A e \in Positions \ {d} : drv'[e] = drv[e]
      /\ drv'[d].err => drv[d].err \/ faults' > 0 \/ drv[d].lba \notin LBAs \/ kind[d] = "cdrom"
  BY <1>1, Worked
<1> QED
  BY <1>2, <1>3, <1>4, <1>5

(* While a call of the driver is under way the byte view waits for it.       *)
LEMMA BytesWait ==
  ASSUME BInv, io.at \in InLoop \/ (io.at = "idle" /\ io.op = "none"),
         UNCHANGED <<drives, was, io, before>>, late => late', faults > 0 => faults' > 0,
         ~late' /\ Unrefused' => \A d \in Positions : ~drv'[d].err,
         io.at \in InLoop => UNCHANGED <<call.b, call.lba, call.src>>,
         io.at \in InLoop /\ ~late' /\ (Unrefused' \/ call'.at # "idle") => call'.ok
  PROVE  BInv'
<1> SUFFICES ASSUME ~late'
             PROVE  BInv'
  BY DEF BInv
<1>1. ~late /\ io' = io /\ io.at # "loop"
  BY DEF InLoop
<1>2. BytesExact'
  BY <1>1 DEF BytesExact, InLoop
<1>3. io.at # "idle" => io.at \in InLoop
  BY <1>1
<1>6. /\ io' = io /\ drives' = drives /\ was' = was /\ before' = before
      /\ Drive' = Drive /\ Lba' = Lba /\ Skip' = Skip /\ Chunk' = Chunk
  BY DEF Drive, Lba, Skip, Chunk
<1>7. /\ \A p : NewByte(p)' = NewByte(p)
      /\ \A e, p : ByteBefore(e, p)' = ByteBefore(e, p)
  BY <1>6 DEF NewByte, ByteBefore
<1>4. SoFar(was) => SoFar(was)'
  <2> SUFFICES ASSUME SoFar(was)
               PROVE  SoFar(was)'
    OBVIOUS
  <2>1. \A e \in Positions, p \in 0 .. Capacity - 1 :
          \/ Place(was'[e], p) = ByteBefore(e, p)' /\
               \/ io'.op = "read" \/ e # Drive' \/ faults' > 0
               \/ p \notin io'.off .. io'.off + io'.done - 1
          \/ /\ io'.op = "write" /\ e = Drive' /\ p \in io'.off .. io'.off + io'.done - 1
             /\ Place(was'[e], p) = NewByte(p)'
    BY <1>6, <1>7 DEF SoFar
  <2> QED
    BY <2>1 DEF SoFar
<1>5. ASSUME io.at # "idle"
      PROVE  /\ io'.off < Capacity
             /\ io'.n = Min({io'.asked, Capacity - io'.off})
             /\ (io.op = "read" =>
                   io.dst = [j \in 1 .. io.done |-> ByteBefore(Drive, io.off + j - 1)])'
  <2>1. /\ io.off < Capacity
        /\ io.n = Min({io.asked, Capacity - io.off})
        /\ io.op = "read" =>
             io.dst = [j \in 1 .. io.done |-> ByteBefore(Drive, io.off + j - 1)]
    BY <1>1, <1>5 DEF BInv
  <2> QED
    BY <1>6, <2>1 DEF ByteBefore
<1>9. ASSUME io.at # "idle"
      PROVE  /\ SoFar(was)' /\ call'.b = io'.b /\ call'.lba = Lba'
             /\ (Unrefused' \/ call'.at # "idle" => call'.ok)
  BY <1>1, <1>3, <1>4, <1>6, <1>9 DEF BInv
<1>10. ASSUME io.at = "written"
       PROVE  call'.src = <<io'.bounce>> /\ io'.bounce = Merged(was[Drive][Lba])'
  <2>1. call.src = <<io.bounce>> /\ io.bounce = Merged(was[Drive][Lba]) /\ call'.src = call.src
    BY <1>1, <1>10 DEF BInv, InLoop
  <2>2. was[Drive][Lba]' = was[Drive][Lba]
    BY <1>6
  <2> QED
    BY <1>6, <2>1, <2>2 DEF Merged
<1> QED
  BY <1>1, <1>2, <1>5, <1>9, <1>10 DEF BInv, InLoop

(* A call that the driver works on, when the byte view made it.              *)
LEMMA CallNotDone ==
  ASSUME DInv, call.at # "idle" \/ probe < ATA_MAX_DRIVES
  PROVE  /\ io.at \in InLoop \/ (io.at = "idle" /\ io.op = "none")
         /\ io.at \in InLoop => call.at \in InCall
<1>1. /\ Phases /\ io.at \in {"idle", "loop"} \union InLoop /\ call.at \in Ats
      /\ probe \in {0, 1, 2} /\ ATA_MAX_DRIVES = 2
  BY Constants DEF DInv, DTypes, IoCallOK, IoCalls, AtaCallOK, AtaCalls
<1>2. (io.at # "idle" \/ io.op # "none") => probe = ATA_MAX_DRIVES
  BY <1>1 DEF Phases
<1>3. ~(probe < ATA_MAX_DRIVES /\ probe = ATA_MAX_DRIVES)
  BY <1>1
<1>4. io.at # "loop" /\ ~(io.at = "idle" /\ io.op # "none")
  BY <1>1, <1>2, <1>3 DEF Phases
<1>5. io.at \in InLoop => probe = ATA_MAX_DRIVES /\ call.at # "idle"
  BY <1>2, <1>3 DEF InLoop
<1>6. io.at \in InLoop => call.at \in InCall
  BY <1>1, <1>3, <1>5 DEF Phases, Ats
<1> QED
  BY <1>1, <1>4, <1>6

LEMMA WorkBytes ==
  ASSUME DInv, TInv, BInv, NEW d \in Positions, Work(d), UNCHANGED <<io, before>>
  PROVE  BInv'
<1> SUFFICES ASSUME ~late'
             PROVE  BInv'
  BY DEF BInv
<1>1. ~late /\ UNCHANGED <<kind, drives, call, was, late>>
  BY DEF Work
<1>2. call.at # "idle"
  BY <1>1, BusyOne DEF Probing
<1>3. /\ io.at \in InLoop \/ (io.at = "idle" /\ io.op = "none")
      /\ io.at \in InLoop => call.at \in InCall
  BY <1>2, CallNotDone
<1>4. Unrefused' => Unrefused /\ \A e \in Positions : ~drv'[e].err
  BY <1>1, NoErrorUnrefused
<1>5. io.at \in InLoop => call.ok
  BY <1>1, <1>2 DEF BInv
<1>6. faults > 0 => faults' > 0
  BY Worked, Constants DEF DInv, DTypes
<1> QED
  BY <1>1, <1>3, <1>4, <1>5, <1>6, BytesWait

LEMMA DriverBytes ==
  ASSUME DInv, TInv, BInv, AtaStep, UNCHANGED <<io, before>>
  PROVE  BInv'
<1> SUFFICES ASSUME ~late'
             PROVE  BInv'
  BY DEF BInv
<1>1. Phases
  BY DEF DInv
<1>2. ~late /\ UNCHANGED <<kind, disk, was, faults>>
  <2>1. ASSUME NEW met, NEW done, NEW failed, AtaWait(met, done, failed)
        PROVE  ~late
    BY <2>1 DEF AtaWait
  <2>2. ~late
    BY <2>1 DEF AtaStep, Prepare, Transfer, Flush, Flushed, ProbeCommand, ProbeStatus,
                ProbeSignature, ProbeCapacity
  <2> QED
    BY <2>2 DEF AtaStep, Prepare, Transfer, Flush, Flushed, ProbeCommand, ProbeStatus,
                ProbeSignature, ProbeCapacity
<1>3. Unrefused' => Unrefused /\ \A e \in Positions : ~drv[e].err
  BY <1>2 DEF Unrefused, BInv
<1>4. Unrefused' => \A e \in Positions : ~drv'[e].err
  BY <1>3, NoNewError
<1>5. CASE Prepare \/ Transfer \/ Flush \/ Flushed
  <2>1. call.at \in InCall /\ UNCHANGED drives
    BY <1>5 DEF Prepare, Transfer, Flush, Flushed, InCall
  <2>2. /\ io.at \in InLoop \/ (io.at = "idle" /\ io.op = "none")
        /\ call.at # "idle"
    BY <2>1, CallNotDone DEF InCall
  <2>3. call.b = call'.b /\ call.lba = call'.lba /\ call.src = call'.src
    BY <1>5, UnderWay, <2>1
       DEF Prepare, Transfer, Flush, Flushed, AtaWait, TakeSector, GiveSector, Answer, AtaCalls
  <2>4. io.at \in InLoop => call.ok
    BY <1>2, <2>2 DEF BInv
  <2>5. drv[sel].err \/ call'.ok = call.ok \/ call'.ok
    <3>1. call \in AtaCalls
      BY <2>1, UnderWay
    <3> QED
      BY <1>2, <1>5, <3>1
         DEF Prepare, Transfer, Flush, Flushed, AtaWait, TakeSector, GiveSector, Answer, Selected,
             AtaCalls
  <2>6. call'.at # "idle" => call'.ok = call.ok
    <3>1. call \in AtaCalls
      BY <2>1, UnderWay
    <3> QED
      BY <1>5, <3>1
         DEF Prepare, Transfer, Flush, Flushed, AtaWait, TakeSector, GiveSector, Answer, AtaCalls
  <2>7. sel \in Positions
    BY DEF DInv, DTypes
  <2>8. io.at \in InLoop /\ (Unrefused' \/ call'.at # "idle") => call'.ok
    BY <1>3, <2>4, <2>5, <2>6, <2>7
  <2> QED
    BY <1>2, <1>4, <2>1, <2>2, <2>3, <2>8, BytesWait
<1>6. CASE ProbeCommand \/ ProbeStatus \/ ProbeSignature \/ ProbeCapacity
  <2>1. probe < ATA_MAX_DRIVES
    BY <1>1, <1>6
       DEF Phases, ProbeCommand, ProbeStatus, ProbeSignature, ProbeCapacity, Probing
  <2>2. io.at = "idle" /\ io.op = "none"
    BY <1>1, <2>1, Constants DEF Phases, DInv, DTypes
  <2> QED
    BY <1>2, <1>4, <2>2 DEF BInv, BytesExact, InLoop
<1> QED
  BY <1>5, <1>6 DEF AtaStep

(* A call of the byte view that ends is exact if the disk is: new up to its  *)
(* answer, old or new up to its count, and old elsewhere.                    *)
LEMMA BytesEnd ==
  ASSUME DInv, BInv, ~late, io.at # "idle",
         NEW a \in Int, a = io.done \/ (a = -1 /\ io.done = 0), io' = Answered(a),
         Unrefused => a = io.n,
         UNCHANGED <<kind, disk, drv, drives, before, late, faults>>,
         \A e \in Positions, p \in 0 .. Capacity - 1 :
           \/ Place(disk[e], p) = ByteBefore(e, p) /\
                \/ io.op = "read" \/ e # Drive \/ faults > 0
                \/ p \notin io.off .. io.off + io.done - 1
           \/ /\ io.op = "write" /\ e = Drive /\ p \in io.off .. io.off + io.n - 1
              /\ Place(disk[e], p) = NewByte(p)
  PROVE  BInv'
<1>1. /\ io \in IoCalls /\ io.op \in {"read", "write"} /\ io.off \in Nat /\ io.done \in Nat
      /\ io.n \in Nat /\ io.done <= io.n /\ faults \in Nat /\ Capacity \in Nat
  BY InTheLoop, Constants DEF DInv, DTypes, Capacity
<1>2. /\ io'.at = "idle" /\ io'.ans = a /\ io'.op = io.op /\ io'.b = io.b /\ io'.off = io.off
      /\ io'.asked = io.asked /\ io'.n = io.n /\ io'.dst = io.dst
  BY <1>1 DEF Answered, IoCalls
<1> DEFINE k == IF a < 0 THEN 0 ELSE a
<1>3. k = io.done
  BY <1>1
<1> HIDE DEF k
<1>4. io.op = "read" => io.dst = [j \in 1 .. k |-> ByteBefore(Drive, io.off + j - 1)]
  BY <1>3 DEF BInv
<1>5. ASSUME NEW e \in Positions, NEW p \in 0 .. Capacity - 1
      PROVE  LET new == Place(disk[e], p) = NewByte(p)
                 old == Place(disk[e], p) = ByteBefore(e, p)
             IN IF io.op = "read" \/ e # Drive \/ p \notin io.off .. io.off + io.n - 1 THEN old
                ELSE IF p < io.off + k /\ faults = 0 THEN new ELSE old \/ new
  <2>1. CASE io.op = "read" \/ e # Drive \/ p \notin io.off .. io.off + io.n - 1
    BY <2>1
  <2>2. CASE ~(io.op = "read" \/ e # Drive \/ p \notin io.off .. io.off + io.n - 1)
    <3>1. ASSUME p < io.off + k, faults = 0
          PROVE  p \in io.off .. io.off + io.done - 1 /\ ~(faults > 0)
      BY <1>1, <1>3, <2>2, <3>1
    <3> QED
      BY <2>2, <3>1
  <2> QED
    BY <2>1, <2>2
<1>6. Unrefused => a = IF io.off >= Capacity THEN 0 ELSE Min({io.asked, Capacity - io.off})
  BY <1>1 DEF BInv
<1>9. /\ Drive' = Drive /\ \A p : NewByte(p)' = NewByte(p)
      /\ \A e, p : ByteBefore(e, p)' = ByteBefore(e, p) /\ ByteAt(e, p)' = Place(disk[e], p)
  BY <1>2 DEF Drive, NewByte, ByteBefore, ByteAt, Place
<1>10. io'.op = "read" => io'.dst = [j \in 1 .. k |-> (ByteBefore(Drive, io.off + j - 1))']
  <2>1. \A j : (ByteBefore(Drive, io.off + j - 1))' = ByteBefore(Drive, io.off + j - 1)
    BY <1>2, <1>9 DEF ByteBefore
  <2> QED
    BY <1>2, <1>4, <2>1
<1>11. ASSUME NEW e \in Positions, NEW p \in 0 .. Capacity - 1
       PROVE  LET new == ByteAt(e, p)' = NewByte(p)'
                  old == ByteAt(e, p)' = ByteBefore(e, p)'
              IN IF io'.op = "read" \/ e # Drive' \/ p \notin io'.off .. io'.off + io'.n - 1 THEN old
                 ELSE IF p < io'.off + k /\ faults' = 0 THEN new ELSE old \/ new
  BY <1>2, <1>5, <1>9
<1>12. (faults = 0 /\ (\A e \in Positions : kind[e] # "cdrom"))' =>
         io'.ans = IF io'.off >= Capacity THEN 0 ELSE Min({io'.asked, Capacity - io'.off})
  BY <1>2, <1>6 DEF Unrefused
<1>13. k = IF io'.ans < 0 THEN 0 ELSE io'.ans
  BY <1>2 DEF k
<1>7. BytesExact'
  BY <1>10, <1>11, <1>12, <1>13 DEF BytesExact, Drive, NewByte
<1>8. Unrefused => \A d \in Positions : ~drv[d].err
  BY DEF BInv
<1> QED
  BY <1>2, <1>7, <1>8 DEF BInv, InLoop, Unrefused

LEMMA LoopEndsBytes ==
  ASSUME DInv, BInv, ~late', LoopEnds
  PROVE  BInv'
<1>1. /\ io.at = "loop" /\ io.done = io.n /\ io' = Answered(io.done) /\ ~late
      /\ UNCHANGED <<kind, disk, drv, drives, before, late, faults>>
  BY DEF LoopEnds, AtaElse
<1>2. io.n \in Nat
  BY <1>1, InTheLoop
<1>3. SoFar(disk)
  BY <1>1 DEF BInv
<1> QED
  BY <1>1, <1>2, <1>3, BytesEnd DEF SoFar

LEMMA BeginBytes ==
  ASSUME DInv, BInv, ~late', NEW b \in DOMAIN drives, NEW op \in {"read", "write"},
         NEW off \in Starts, NEW n \in Counts, Begin(op, b, off, n)
  PROVE  BInv'
<1>1. /\ io'.op = op /\ io'.b = b /\ io'.off = off /\ io'.asked = n
      /\ io'.done = 0 /\ io'.dst = <<>> /\ io'.ans = 0
      /\ io'.at = IF off >= Capacity THEN "idle" ELSE "loop"
      /\ io'.n = IF off >= Capacity THEN 0 ELSE Min({n, Capacity - off})
  BY BeginDrives
<1>2. /\ before' = disk /\ ~late /\ UNCHANGED <<kind, disk, drv, drives, late, faults>>
      /\ call' = call
  BY DEF Begin, AtaElse, NoCall
<1>3. off \in Nat /\ Capacity \in Nat
  BY DevIoAssumption, Constants DEF Capacity
<1>4. Unrefused' => \A d \in Positions : ~drv'[d].err
  BY <1>2 DEF BInv, Unrefused
<1>5. \A e, p : Place(disk'[e], p) = ByteBefore(e, p)'
  BY <1>2 DEF Place, ByteBefore
<1>6. io'.dst = [j \in 1 .. 0 |-> ByteBefore(Drive, io.off + j - 1)']
  BY <1>1
<1>7. CASE off >= Capacity
  <2>1. io'.at = "idle" /\ io'.n = 0
    BY <1>1, <1>7
  <2>2. \A p \in 0 .. Capacity - 1 : p \notin io'.off .. io'.off + io'.n - 1
    BY <1>1, <1>3, <2>1
  <2>3. BytesExact'
    BY <1>1, <1>3, <1>5, <1>6, <1>7, <2>1, <2>2
       DEF BytesExact, Drive, ByteAt, ByteBefore, Place
  <2> QED
    BY <1>4, <2>1, <2>3 DEF BInv, InLoop
<1>8. CASE ~(off >= Capacity)
  <2>1. io'.at = "loop" /\ io'.off < Capacity /\ io'.n = Min({io'.asked, Capacity - io'.off})
    BY <1>1, <1>3, <1>8
  <2>2. \A p : p \notin io'.off .. io'.off + io'.done - 1
    BY <1>1, <1>3
  <2>3. SoFar(disk)'
    BY <1>5, <2>2 DEF SoFar
  <2>4. BytesExact'
    BY <2>1 DEF BytesExact
  <2>5. (io.op = "read" =>
           io.dst = [j \in 1 .. io.done |-> ByteBefore(Drive, io.off + j - 1)])'
    BY <1>1
  <2> QED
    BY <1>4, <2>1, <2>3, <2>4, <2>5 DEF BInv, InLoop
<1> QED
  BY <1>7, <1>8

LEMMA IdleBytes ==
  ASSUME BInv, io' = None, UNCHANGED <<kind, drv, late, faults>>
  PROVE  BInv'
<1>1. io'.at = "idle" /\ io'.op = "none"
  BY DEF None
<1> QED
  BY <1>1 DEF BInv, BytesExact, InLoop, Unrefused

LEMMA InitBytes ==
  ASSUME Init
  PROVE  BInv
<1>1. io.at = "idle" /\ io.op = "none" /\ \A d \in Positions : ~drv[d].err
  BY Fields DEF Init, AtaInit, None
<1> QED
  BY <1>1 DEF BInv, BytesExact, InLoop

(* The sector that was read is the one the chunk is in.                      *)
LEMMA GotSector ==
  ASSUME DInv, TInv, BInv, ~late, io.at \in {"copy", "modify"}, call.at = "idle"
  PROVE  /\ disk = was /\ SoFar(was)
         /\ call.ok => call.got[1] = was[Drive][Lba]
<1>1. TransferExact /\ SoFar(was) /\ call.b = io.b /\ call.lba = Lba
  BY DEF TInv, BInv, InLoop
<1>2. call.op = "read" /\ call.n = 1
  BY DEF DInv, Phases
<1>3. disk = was
  BY <1>1, <1>2, NothingWritten
<1>4. ASSUME call.ok
      PROVE  call.got[1] = was[Drive][Lba]
  <2>1. call.got = [i \in 1 .. call.n |-> was[Target][call.lba + i - 1]]
    BY <1>1, <1>2, <1>4 DEF TransferExact
  <2>2. call.got[1] = was[Target][call.lba + 1 - 1]
    BY <1>2, <2>1
  <2>3. Lba \in Int
    <3>1. io.at # "idle" /\ io.done < io.n
      BY DEF DInv, DTypes, IoCallOK, InLoop
    <3> QED
      BY <3>1, InTheLoop
  <2>4. Lba + 1 - 1 = Lba
    BY <2>3
  <2> QED
    BY <1>1, <2>2, <2>4 DEF Target, Drive
<1> QED
  BY <1>1, <1>3, <1>4

(* The call for the sector of the next chunk.                                *)
LEMMA ChunkStarts ==
  ASSUME DInv, BInv, ~late, io.at # "idle", io.done < io.n, call.at = "idle", SoFar(disk),
         NEW op \in {"read", "write"}, NEW src \in Seq(Sectors), op = "write" => Len(src) = 1,
         Enter(op, io.b, Lba, 1, src), AtaElse, UNCHANGED before,
         io'.at \in InLoop,
         UNCHANGED <<io.op, io.b, io.off, io.asked, io.n, io.done, io.dst>>,
         io'.at = "written" => src = <<io'.bounce>> /\ io'.bounce = Merged(disk[Drive][Lba])
  PROVE  BInv'
<1>1. Lba + 1 <= NSectors
  BY ChunkOnDisk
<1>2. /\ was' = disk /\ call'.b = io.b /\ call'.lba = Lba /\ call'.src = src
      /\ call'.at = "prepare" /\ call'.ok
  BY <1>1, SectorCall
<1>3. UNCHANGED <<kind, disk, drv, drives, late, faults>>
  BY DEF AtaElse
<1>4. /\ Drive' = Drive /\ Lba' = Lba /\ Skip' = Skip /\ Chunk' = Chunk
      /\ \A p : NewByte(p)' = NewByte(p)
      /\ \A e, p : ByteBefore(e, p)' = ByteBefore(e, p)
  BY <1>3 DEF Drive, Lba, Skip, Chunk, NewByte, ByteBefore
<1>5. SoFar(was)'
  <2>1. \A e \in Positions, p \in 0 .. Capacity - 1 :
          \/ Place(was'[e], p) = ByteBefore(e, p)' /\
               \/ io'.op = "read" \/ e # Drive' \/ faults' > 0
               \/ p \notin io'.off .. io'.off + io'.done - 1
          \/ /\ io'.op = "write" /\ e = Drive' /\ p \in io'.off .. io'.off + io'.done - 1
             /\ Place(was'[e], p) = NewByte(p)'
    BY <1>2, <1>3, <1>4 DEF SoFar
  <2> QED
    BY <2>1 DEF SoFar
<1>6. (io.op = "read" =>
         io.dst = [j \in 1 .. io.done |-> ByteBefore(Drive, io.off + j - 1)])'
  <2>1. io.op = "read" =>
          io.dst = [j \in 1 .. io.done |-> ByteBefore(Drive, io.off + j - 1)]
    BY DEF BInv
  <2> QED
    BY <1>3, <1>4, <2>1 DEF ByteBefore
<1>7. io'.off < Capacity /\ io'.n = Min({io'.asked, Capacity - io'.off})
  BY DEF BInv
<1>8. io'.at = "written" =>
        call'.src = <<io'.bounce>> /\ io'.bounce = Merged(was[Drive][Lba])'
  <2>1. was[Drive][Lba]' = disk[Drive][Lba]
    BY <1>2, <1>4
  <2> QED
    BY <1>2, <1>4, <2>1 DEF Merged
<1>9. (Unrefused => \A d \in Positions : ~drv[d].err)'
  BY <1>3 DEF BInv, Unrefused
<1>10. io'.at # "idle" /\ io'.at # "loop" /\ BytesExact'
  BY DEF InLoop, BytesExact
<1>11. call'.b = io'.b /\ call'.lba = Lba'
  BY <1>2, <1>4
<1> QED
  BY <1>2, <1>5, <1>6, <1>7, <1>8, <1>9, <1>10, <1>11 DEF BInv

LEMMA ReadSectorBytes ==
  ASSUME DInv, BInv, ~late', ReadSector
  PROVE  BInv'
<1>1. /\ io.at = "loop" /\ io.done < io.n /\ ~late /\ AtaElse /\ UNCHANGED before
      /\ Enter("read", io.b, Lba, 1, <<>>)
      /\ io' = [io EXCEPT !.at = IF io.op = "read" THEN "copy" ELSE "modify"]
  BY DEF ReadSector, Reads, AtaElse
<1>2. call.at = "idle" /\ SoFar(disk) /\ io \in IoCalls
  BY <1>1 DEF DInv, Phases, BInv, DTypes, IoCallOK
<1>3. /\ io'.at \in InLoop /\ io'.at # "written"
      /\ UNCHANGED <<io.op, io.b, io.off, io.asked, io.n, io.done, io.dst>>
  BY <1>1, <1>2 DEF IoCalls, InLoop
<1>4. <<>> \in Seq(Sectors) /\ "read" \in {"read", "write"} /\ "read" # "write"
  BY EmptySeq
<1> QED
  BY <1>1, <1>2, <1>3, <1>4, ChunkStarts

LEMMA WriteBytes ==
  ASSUME DInv, BInv, ~late', io.at \in {"loop", "modify"}, io.done < io.n, call.at = "idle",
         SoFar(disk), NEW s \in Sectors, Merged(s) = Merged(disk[Drive][Lba]),
         Writes(io.b, Merged(s)), AtaElse, UNCHANGED before,
         io'.at = "written", io'.bounce = Merged(s),
         UNCHANGED <<io.op, io.b, io.off, io.asked, io.n, io.done, io.dst>>
  PROVE  BInv'
<1> DEFINE m == Merged(s)
<1>1. m \in Sectors /\ m = Merged(disk[Drive][Lba])
  BY MergedSector DEF DInv, DTypes
<1>2. Enter("write", io.b, Lba, 1, <<m>>) /\ io'.bounce = m
  BY DEF Writes
<1> HIDE DEF m
<1>3. ~late
  BY DEF AtaElse
<1>4. io'.at \in InLoop
  BY DEF InLoop
<1>5. <<m>> \in Seq(Sectors) /\ Len(<<m>>) = 1 /\ "write" \in {"read", "write"}
  BY <1>1
<1> QED
  BY <1>1, <1>2, <1>3, <1>4, <1>5, ChunkStarts

LEMMA WriteWholeBytes ==
  ASSUME DInv, BInv, ~late', WriteWhole
  PROVE  BInv'
<1>1. /\ io.at = "loop" /\ io.done < io.n /\ ~late /\ AtaElse /\ UNCHANGED before
      /\ Writes(io.b, Merged(io.bounce)) /\ Chunk = SECTOR_SIZE
      /\ io' = [io EXCEPT !.at = "written", !.bounce = Merged(io.bounce)]
  BY DEF WriteWhole, AtaElse, Whole
<1>2. call.at = "idle" /\ SoFar(disk)
  BY <1>1 DEF DInv, Phases, BInv
<1>3. io.bounce \in Sectors /\ Skip \in Nat /\ Skip + Chunk <= SECTOR_SIZE
  BY <1>1, InTheLoop
<1>4. \A k \in Offsets : k \in Skip .. Skip + Chunk - 1
  BY <1>1, <1>3, Constants DEF Offsets
<1>5. Merged(io.bounce) = Merged(disk[Drive][Lba])
  BY <1>4 DEF Merged
<1>8. io \in IoCalls
  BY DEF DInv, DTypes, IoCallOK
<1> DEFINE s == io.bounce
<1>6. /\ s \in Sectors /\ Merged(s) = Merged(disk[Drive][Lba]) /\ Writes(io.b, Merged(s))
      /\ io'.at = "written" /\ io'.bounce = Merged(s)
      /\ UNCHANGED <<io.op, io.b, io.off, io.asked, io.n, io.done, io.dst>>
  BY <1>1, <1>3, <1>5, <1>8 DEF IoCalls
<1> HIDE DEF s
<1>7. io.at \in {"loop", "modify"} /\ io.done < io.n /\ AtaElse /\ UNCHANGED before
  BY <1>1
<1> QED
  BY <1>2, <1>6, <1>7, WriteBytes

LEMMA ModifyBytes ==
  ASSUME DInv, TInv, BInv, ~late', Modify, call.ok
  PROVE  BInv'
<1>1. /\ io.at = "modify" /\ call.at = "idle" /\ ~late /\ AtaElse /\ UNCHANGED before
      /\ Writes(io.b, Merged(call.got[1]))
      /\ io' = [io EXCEPT !.at = "written", !.bounce = Merged(call.got[1])]
  BY DEF Modify, AtaElse, CallOver
<1>2. disk = was /\ SoFar(disk) /\ call.got[1] = disk[Drive][Lba]
  BY <1>1, GotSector
<1>3. call.got[1] \in Sectors /\ io.done < io.n
  BY <1>1, GotOne DEF DInv, DTypes, IoCallOK, InLoop
<1>6. io \in IoCalls
  BY DEF DInv, DTypes, IoCallOK
<1> DEFINE s == call.got[1]
<1>4. /\ s \in Sectors /\ Merged(s) = Merged(disk[Drive][Lba]) /\ Writes(io.b, Merged(s))
      /\ io'.at = "written" /\ io'.bounce = Merged(s)
      /\ UNCHANGED <<io.op, io.b, io.off, io.asked, io.n, io.done, io.dst>>
  BY <1>1, <1>2, <1>3, <1>6 DEF IoCalls
<1> HIDE DEF s
<1>5. io.at \in {"loop", "modify"} /\ io.done < io.n /\ AtaElse /\ UNCHANGED before
  BY <1>1, <1>3
<1> QED
  BY <1>1, <1>2, <1>4, <1>5, WriteBytes

(* The chunk is done, and the loop goes on.                                  *)
LEMMA LoopGoesOn ==
  ASSUME DInv, BInv, ~late', io.at # "idle", io'.at = "loop", SoFar(disk)',
         UNCHANGED <<io.op, io.b, io.off, io.asked, io.n>>,
         UNCHANGED <<kind, drv, drives, before, late, faults>>,
         (io.op = "read" =>
            io.dst = [j \in 1 .. io.done |-> ByteBefore(Drive, io.off + j - 1)])'
  PROVE  BInv'
<1>1. /\ io'.off < Capacity /\ io'.n = Min({io'.asked, Capacity - io'.off})
      /\ (Unrefused => \A d \in Positions : ~drv[d].err)'
  BY DEF BInv, Unrefused
<1>2. BytesExact'
  BY DEF BytesExact
<1> QED
  BY <1>1, <1>2 DEF BInv, InLoop

(* The drive would not read the sector. *)
LEMMA ReadFails ==
  ASSUME DInv, TInv, BInv, ~late', io.at \in {"copy", "modify"}, call.at = "idle", ~call.ok,
         io' = Failed, AtaElse, UNCHANGED before
  PROVE  BInv'
<1>1. ~late /\ UNCHANGED <<kind, disk, drv, drives, before, late, faults>>
  BY DEF AtaElse
<1>2. disk = was /\ SoFar(disk) /\ ~Unrefused
  BY <1>1, GotSector DEF BInv, InLoop
<1>3. io.done \in Nat /\ io.n \in Nat /\ io.off \in Nat /\ io.done <= io.n
  BY InTheLoop
<1> DEFINE a == IF io.done > 0 THEN io.done ELSE -1
<1>4. a \in Int /\ (a = io.done \/ (a = -1 /\ io.done = 0)) /\ io' = Answered(a)
  BY <1>3 DEF Failed
<1> HIDE DEF a
<1>5. \A e \in Positions, p \in 0 .. Capacity - 1 :
        \/ Place(disk[e], p) = ByteBefore(e, p) /\
             \/ io.op = "read" \/ e # Drive \/ faults > 0
             \/ p \notin io.off .. io.off + io.done - 1
        \/ /\ io.op = "write" /\ e = Drive /\ p \in io.off .. io.off + io.n - 1
           /\ Place(disk[e], p) = NewByte(p)
  BY <1>2, <1>3 DEF SoFar
<1> QED
  BY <1>1, <1>2, <1>4, <1>5, BytesEnd

LEMMA CopyBytes ==
  ASSUME DInv, TInv, BInv, ~late', Copy, call.ok
  PROVE  BInv'
<1>1. /\ io.at = "copy" /\ call.at = "idle" /\ ~late /\ UNCHANGED before
      /\ UNCHANGED <<kind, disk, drv, drives, late, faults>>
  BY DEF Copy, CallOver, AtaElse
<1>2. /\ IoCallOK(io) /\ io \in IoCalls /\ io.done \in Nat /\ io.n \in Nat /\ io.done < io.n
      /\ io.dst \in Seq(Byte) /\ io.op = "read" /\ io.off \in Nat
      /\ Chunk \in Nat /\ Chunk > 0 /\ io.done + Chunk <= io.n
      /\ Skip \in Nat /\ Drive \in Positions
  BY <1>1, InTheLoop DEF IoCallOK, InLoop, Drive
<1> DEFINE s == call.got[1]
           c == [k \in 1 .. Chunk |-> s[Skip + k - 1]]
           t == io.dst \o c
           m == io.done + Chunk
<1>3. s \in Sectors /\ disk = was /\ SoFar(disk) /\ s = was[Drive][Lba]
  BY <1>1, GotOne, GotSector
<1>4. /\ io'.at = "loop" /\ io'.done = m /\ io'.dst = t
      /\ UNCHANGED <<io.op, io.b, io.off, io.asked, io.n>>
  BY <1>2 DEF Copy, Onward, IoCalls
<1> HIDE DEF s
<1>5. c \in Seq(Byte) /\ Len(c) = Chunk /\ \A k \in 1 .. Chunk : c[k] = s[Skip + k - 1]
  BY <1>1, <1>2, <1>3, ChunkRead
<1>6. /\ io.dst = [j \in 1 .. io.done |-> ByteBefore(Drive, io.off + j - 1)]
  BY <1>1, <1>2 DEF BInv
<1>7. Len(io.dst) = io.done
  <2>1. DOMAIN io.dst = 1 .. io.done /\ DOMAIN io.dst = 1 .. Len(io.dst) /\ Len(io.dst) \in Nat
    BY <1>2, <1>6, LenProperties
  <2> QED
    BY <1>2, <2>1
<1>8. ASSUME NEW k \in 1 .. Chunk
      PROVE  c[k] = ByteBefore(Drive, io.off + (io.done + k) - 1)
  <2> DEFINE p == io.off + (io.done + k) - 1
  <2>0. /\ io.off \in Nat /\ io.done \in Nat /\ Chunk \in Nat /\ Skip \in Nat
        /\ k \in Nat /\ k >= 1 /\ k <= Chunk
    BY <1>2
  <2>1. p \in Nat /\ p \in io.off + io.done .. io.off + io.done + Chunk - 1
    BY <2>0
  <2>2. p \in 0 .. Capacity - 1
    <3>1. io.off + io.n <= Capacity /\ Capacity \in Nat
      BY <1>1, <1>2, ChunkOnDisk
    <3>2. io.done + Chunk <= io.n /\ io.n \in Nat
      BY <1>2
    <3>3. p < io.off + io.n
      BY <2>0, <3>2
    <3> QED
      BY <2>0, <2>1, <3>1, <3>2, <3>3
  <2>3. p - io.off = io.done + k - 1
    BY <2>0
  <2> HIDE DEF p
  <2>4. p \div SECTOR_SIZE = Lba /\ p - io.off = io.done + (p % SECTOR_SIZE) - Skip
    BY <1>1, <1>2, <2>1, ChunkPlaces
  <2>5. p % SECTOR_SIZE \in Nat
    BY <2>1, Divided
  <2>6. p % SECTOR_SIZE = Skip + k - 1
    <3> DEFINE r == p % SECTOR_SIZE
    <3>1. r \in Nat /\ io.done + k - 1 = io.done + r - Skip
      BY <2>3, <2>4, <2>5
    <3> HIDE DEF r
    <3>2. r = Skip + k - 1
      BY <2>0, <3>1
    <3> QED
      BY <3>2 DEF r
  <2>7. Place(was[Drive], p) = s[Skip + k - 1]
    BY <1>3, <2>4, <2>6 DEF Place
  <2>8. Place(was[Drive], p) = ByteBefore(Drive, p)
    BY <1>2, <1>3, <2>2 DEF SoFar
  <2> QED
    BY <1>5, <2>7, <2>8 DEF p
<1> HIDE DEF c
<1>9. /\ t \in Seq(Byte) /\ Len(t) = m
      /\ \A i \in 1 .. m : t[i] = IF i <= io.done THEN io.dst[i] ELSE c[i - io.done]
  <2>1. io.dst \in Seq(Byte) /\ c \in Seq(Byte)
    BY <1>2, <1>5
  <2>2. /\ t \in Seq(Byte) /\ Len(t) = Len(io.dst) + Len(c)
        /\ \A i \in 1 .. Len(io.dst) + Len(c) :
             t[i] = IF i <= Len(io.dst) THEN io.dst[i] ELSE c[i - Len(io.dst)]
    BY <2>1, ConcatProperties
  <2> QED
    BY <1>5, <1>7, <2>2
<1>10. ASSUME NEW i \in 1 .. m
       PROVE  t[i] = ByteBefore(Drive, io.off + i - 1)
  <2>1. CASE i <= io.done
    BY <1>2, <1>6, <1>9, <2>1
  <2>2. CASE ~(i <= io.done)
    <3>1. i - io.done \in 1 .. Chunk /\ io.done + (i - io.done) = i
      BY <1>2, <2>2
    <3>2. c[i - io.done] = ByteBefore(Drive, io.off + (io.done + (i - io.done)) - 1)
      BY <1>8, <3>1
    <3> QED
      BY <1>9, <2>2, <3>1, <3>2
  <2> QED
    BY <2>1, <2>2
<1>11. t = [i \in 1 .. m |-> ByteBefore(Drive, io.off + i - 1)]
  <2>1. DOMAIN t = 1 .. m /\ t = [i \in DOMAIN t |-> t[i]]
    BY <1>9, LenProperties
  <2> QED
    BY <1>10, <2>1
<1> HIDE DEF t
<1>12. (io.dst = [j \in 1 .. io.done |-> ByteBefore(Drive, io.off + j - 1)])'
  <2>1. Drive' = Drive
    BY <1>1, <1>4 DEF Drive
  <2> QED
    BY <1>1, <1>4, <1>11, <2>1 DEF ByteBefore
<1>13. SoFar(disk)'
  <2>1. \A e \in Positions, p \in 0 .. Capacity - 1 : Place(disk[e], p) = ByteBefore(e, p)
    BY <1>2, <1>3 DEF SoFar
  <2>2. \A e \in Positions, p \in 0 .. Capacity - 1 : Place(disk'[e], p) = ByteBefore(e, p)'
    BY <1>1, <2>1 DEF ByteBefore
  <2> QED
    BY <1>2, <1>4, <2>2 DEF SoFar
<1> QED
  BY <1>1, <1>4, <1>12, <1>13, LoopGoesOn

(* A write of one sector, done or failed: the bytes of the chunk are new or  *)
(* what they were, and no other byte has changed.                            *)
LEMMA SectorWritten ==
  ASSUME DInv, TInv, BInv, ~late, io.at = "written", call.at = "idle",
         NEW e \in Positions, NEW p \in 0 .. Capacity - 1
  PROVE  \/ /\ e = Drive /\ p \in io.off + io.done .. io.off + io.done + Chunk - 1
            /\ Place(disk[e], p) = NewByte(p)
         \/ Place(disk[e], p) = Place(was[e], p) /\
              \/ e # Drive \/ ~call.ok \/ faults > 0
              \/ p \notin io.off + io.done .. io.off + io.done + Chunk - 1
<1>1. /\ io.done < io.n /\ io.at # "idle" /\ call.op = "write" /\ call.n = 1
      /\ call \in AtaCalls /\ io.b \in DOMAIN drives
  BY DEF DInv, DTypes, Phases, IoCallOK, AtaCallOK, InLoop
<1>2. /\ TransferExact /\ call.b = io.b /\ call.lba = Lba /\ call.src = <<io.bounce>>
      /\ io.bounce = Merged(was[Drive][Lba])
  BY DEF TInv, BInv, InLoop
<1>3. /\ Lba \in Nat /\ Target = Drive /\ faults \in Nat
  BY <1>1, <1>2, InTheLoop, Constants DEF Target, Drive, DInv, DTypes
<1> DEFINE l == p \div SECTOR_SIZE
           r == p % SECTOR_SIZE
<1>4. p \in Nat /\ l \in LBAs /\ r \in Offsets
  BY Geometry
<1>5. /\ p \in io.off + io.done .. io.off + io.done + Chunk - 1 <=> l = Lba /\ r \in Skip .. Skip + Chunk - 1
      /\ l = Lba => p - io.off = io.done + r - Skip
  BY <1>1, <1>4, ChunkPlaces
<1> HIDE DEF l, r
<1>6. 0 .. call.n - 1 = {0} /\ Lba + 0 = Lba /\ Lba - Lba + 1 = 1 /\ Lba + call.n - 1 = Lba
  BY <1>1, <1>3
<1>7. Touched = {<<Drive, Lba>>}
  BY <1>1, <1>2, <1>3, <1>6 DEF Touched
<1>8. \/ <<e, l>> \in Touched /\ Written(l)
      \/ disk[e][l] = was[e][l] /\
           \/ <<e, l>> \notin Touched
           \/ ~call.ok
           \/ faults > 0 /\ l = call.lba + call.n - 1
  BY <1>2, <1>4 DEF TransferExact
<1>9. CASE <<e, l>> \in Touched /\ Written(l)
  <2>1. e = Drive /\ l = Lba
    BY <1>7, <1>9
  <2>2. disk[e][l] = Merged(was[e][l])
    BY <1>2, <1>3, <1>6, <1>9, <2>1 DEF Written
  <2>3. disk[e][l][r] = IF r \in Skip .. Skip + Chunk - 1
                          THEN <<ATA_MAX_DRIVES, io.done + r - Skip, 0>> ELSE was[e][l][r]
    BY <1>4, <2>2 DEF Merged
  <2>4. CASE r \in Skip .. Skip + Chunk - 1
    BY <1>5, <2>1, <2>3, <2>4 DEF Place, NewByte, l, r
  <2>5. CASE r \notin Skip .. Skip + Chunk - 1
    BY <1>5, <2>1, <2>3, <2>5 DEF Place, l, r
  <2> QED
    BY <2>4, <2>5
<1>10. CASE disk[e][l] = was[e][l] /\ (<<e, l>> \notin Touched \/ ~call.ok \/ faults > 0)
  <2>1. <<e, l>> \notin Touched => e # Drive \/ l # Lba
    BY <1>7
  <2>2. Place(disk[e], p) = Place(was[e], p)
    BY <1>10 DEF Place, l
  <2> QED
    BY <1>5, <1>10, <2>1, <2>2
<1> QED
  BY <1>8, <1>9, <1>10

LEMMA WriteEndsBytes ==
  ASSUME DInv, TInv, BInv, ~late', WriteEnds
  PROVE  BInv'
<1>1. /\ io.at = "written" /\ call.at = "idle" /\ ~late /\ UNCHANGED before
      /\ UNCHANGED <<kind, disk, drv, drives, late, faults>>
  BY DEF WriteEnds, CallOver, AtaElse
<1>2. /\ IoCallOK(io) /\ io \in IoCalls /\ io.done \in Nat /\ io.n \in Nat /\ io.done < io.n
      /\ io.op = "write" /\ io.off \in Nat
      /\ Chunk \in Nat /\ Chunk > 0 /\ io.done + Chunk <= io.n
  BY <1>1, InTheLoop DEF IoCallOK, InLoop
<1>3. SoFar(was) /\ (Unrefused => call.ok)
  BY <1>1 DEF BInv, InLoop
<1> DEFINE a == io.off
           b == io.off + io.done
           c == io.off + io.done + Chunk
           z == io.off + io.n
<1>4. /\ a \in Nat /\ b \in Nat /\ c \in Nat /\ z \in Nat /\ a <= b /\ b < c /\ c <= z
  BY <1>2
<1>8. /\ io.off + io.done .. io.off + io.done + Chunk - 1 = b .. c - 1
      /\ io.off .. io.off + io.done - 1 = a .. b - 1
      /\ io.off .. io.off + io.n - 1 = a .. z - 1
  <2>1. /\ io.off + io.done + Chunk - 1 = c - 1 /\ io.off + io.done - 1 = b - 1
        /\ io.off + io.n - 1 = z - 1
    BY <1>2
  <2> QED
    BY <2>1
<1>5. ASSUME NEW e \in Positions, NEW p \in 0 .. Capacity - 1
      PROVE  \/ e = Drive /\ p \in b .. c - 1 /\ Place(disk[e], p) = NewByte(p)
             \/ e = Drive /\ p \in a .. b - 1 /\ Place(disk[e], p) = NewByte(p)
             \/ Place(disk[e], p) = ByteBefore(e, p) /\
                  \/ e # Drive \/ faults > 0
                  \/ p \notin a .. b - 1 /\ (~call.ok \/ p \notin b .. c - 1)
  <2>1. \/ /\ e = Drive /\ p \in b .. c - 1 /\ Place(disk[e], p) = NewByte(p)
        \/ Place(disk[e], p) = Place(was[e], p) /\
             (e # Drive \/ ~call.ok \/ faults > 0 \/ p \notin b .. c - 1)
    <3>1. \/ /\ e = Drive /\ p \in io.off + io.done .. io.off + io.done + Chunk - 1
             /\ Place(disk[e], p) = NewByte(p)
          \/ Place(disk[e], p) = Place(was[e], p) /\
               \/ e # Drive \/ ~call.ok \/ faults > 0
               \/ p \notin io.off + io.done .. io.off + io.done + Chunk - 1
      BY <1>1, SectorWritten
    <3> HIDE DEF a, b, c, z
    <3> QED
      BY <1>8, <3>1
  <2>2. \/ Place(was[e], p) = ByteBefore(e, p) /\
             (e # Drive \/ faults > 0 \/ p \notin a .. b - 1)
        \/ e = Drive /\ p \in a .. b - 1 /\ Place(was[e], p) = NewByte(p)
    BY <1>2, <1>3 DEF SoFar
  <2> QED
    BY <2>1, <2>2
<1>6. CASE call.ok
  <2>1. /\ io'.at = "loop" /\ io'.done = io.done + Chunk
        /\ UNCHANGED <<io.op, io.b, io.off, io.asked, io.n>>
    BY <1>2, <1>6 DEF WriteEnds, Onward, IoCalls
  <2>2. /\ Drive' = Drive /\ \A p : NewByte(p)' = NewByte(p)
        /\ \A e, p : ByteBefore(e, p)' = ByteBefore(e, p)
    BY <1>1, <2>1 DEF Drive, NewByte, ByteBefore
  <2>3. io'.off .. io'.off + io'.done - 1 = a .. c - 1
    BY <1>2, <2>1
  <2> HIDE DEF a, b, c, z
  <2>4. ASSUME NEW e \in Positions, NEW p \in 0 .. Capacity - 1
        PROVE  \/ Place(disk[e], p) = ByteBefore(e, p) /\
                    (e # Drive \/ faults > 0 \/ p \notin a .. c - 1)
               \/ e = Drive /\ p \in a .. c - 1 /\ Place(disk[e], p) = NewByte(p)
    <3>1. p \in b .. c - 1 \/ p \in a .. b - 1 <=> p \in a .. c - 1
      BY <1>4
    <3> QED
      BY <1>5, <1>6, <3>1
  <2>5. SoFar(disk)'
    BY <1>1, <1>2, <2>1, <2>2, <2>3, <2>4 DEF SoFar
  <2>6. (io.op = "read" =>
           io.dst = [j \in 1 .. io.done |-> ByteBefore(Drive, io.off + j - 1)])'
    BY <1>2, <2>1
  <2> QED
    BY <1>1, <2>1, <2>5, <2>6, LoopGoesOn
<1>7. CASE ~call.ok
  <2> DEFINE k == IF io.done > 0 THEN io.done ELSE -1
  <2>1. k \in Int /\ (k = io.done \/ (k = -1 /\ io.done = 0)) /\ io' = Answered(k)
    BY <1>2, <1>7 DEF WriteEnds, Failed
  <2> HIDE DEF k
  <2>2. ASSUME NEW e \in Positions, NEW p \in 0 .. Capacity - 1
        PROVE  \/ Place(disk[e], p) = ByteBefore(e, p) /\
                    (io.op = "read" \/ e # Drive \/ faults > 0 \/ p \notin a .. b - 1)
               \/ /\ io.op = "write" /\ e = Drive /\ p \in a .. z - 1
                  /\ Place(disk[e], p) = NewByte(p)
    <3> HIDE DEF a, b, c, z
    <3>1. p \in b .. c - 1 \/ p \in a .. b - 1 => p \in a .. z - 1
      BY <1>4
    <3> QED
      BY <1>2, <1>5, <3>1
  <2>3. io.at # "idle" /\ ~Unrefused
    BY <1>1, <1>3, <1>7
  <2>4. ASSUME NEW e \in Positions, NEW p \in 0 .. Capacity - 1
        PROVE  \/ Place(disk[e], p) = ByteBefore(e, p) /\
                    \/ io.op = "read" \/ e # Drive \/ faults > 0
                    \/ p \notin io.off .. io.off + io.done - 1
               \/ /\ io.op = "write" /\ e = Drive /\ p \in io.off .. io.off + io.n - 1
                  /\ Place(disk[e], p) = NewByte(p)
    <3> HIDE DEF a, b, c, z
    <3> QED
      BY <1>8, <2>2
  <2> QED
    BY <1>1, <2>1, <2>3, <2>4, BytesEnd
<1> QED
  BY <1>6, <1>7

LEMMA BytesStep ==
  ASSUME DInv, TInv, BInv, [Next]_vars
  PROVE  BInv'
<1> SUFFICES ASSUME ~late'
             PROVE  BInv'
  BY DEF BInv
<1>1. CASE AtaStep /\ UNCHANGED <<io, before>>
  BY <1>1, DriverBytes
<1>2. CASE LoopEnds
  BY <1>2, LoopEndsBytes
<1>3. CASE ReadSector
  BY <1>3, ReadSectorBytes
<1>4. CASE WriteWhole
  BY <1>4, WriteWholeBytes
<1>5. CASE Copy
  BY <1>5, CopyBytes, ReadFails DEF Copy, CallOver
<1>6. CASE Modify
  BY <1>6, ModifyBytes, ReadFails DEF Modify, CallOver
<1>7. CASE WriteEnds
  BY <1>7, WriteEndsBytes
<1>8. ASSUME NEW d \in Positions, Work(d), UNCHANGED <<io, before>>
      PROVE  BInv'
  BY <1>8, WorkBytes
<1>9. ASSUME NEW b \in DOMAIN drives, NEW op \in {"read", "write"},
             NEW off \in Starts, NEW n \in Counts, Begin(op, b, off, n)
      PROVE  BInv'
  BY <1>9, BeginBytes
<1>10. ASSUME NEW b \in DOMAIN drives, NEW op \in {"read", "write"},
              NEW l \in 0 .. NSectors, NEW n \in 0 .. MaxTransfer + 1, Direct(op, b, l, n)
       PROVE  BInv'
  BY <1>10, IdleBytes DEF Direct, AtaElse
<1>11. CASE UNCHANGED vars
  <2>1. /\ SoFar(disk)' <=> SoFar(disk)
        /\ SoFar(was)' <=> SoFar(was)
    BY <1>11 DEF vars, ataVars, SoFar, Place, NewByte, ByteBefore, Drive
  <2>2. BytesExact' <=> BytesExact
    BY <1>11 DEF vars, ataVars, BytesExact, ByteAt, ByteBefore
  <2>3. Unrefused' <=> Unrefused
    BY <1>11 DEF vars, ataVars, Unrefused
  <2>4. Drive' = Drive /\ Lba' = Lba /\ Skip' = Skip /\ Chunk' = Chunk
    BY <1>11 DEF vars, ataVars, Drive, Lba, Skip, Chunk
  <2> QED
    BY <1>11, <2>1, <2>2, <2>3, <2>4 DEF vars, ataVars, BInv, ByteBefore, Merged
<1> QED
  BY <1>1, <1>2, <1>3, <1>4, <1>5, <1>6, <1>7, <1>8, <1>9, <1>10, <1>11 DEF Next, Driver

(* The byte view of a disk tells the truth (devio.c: blk_read, blk_write): a *)
(* read hands over the bytes at that offset, a write changes those and no    *)
(* other, and without a refusal all of them up to the end of the disk, for   *)
(* sectors, disks, offsets and lengths of any size.                          *)
THEOREM DevIoBytesExact == Spec => []BytesExact
<1>1. Init => DInv /\ TInv /\ BInv
  BY InitDrives, InitExact, InitBytes
<1>2. DInv /\ TInv /\ BInv /\ [Next]_vars => DInv' /\ TInv' /\ BInv'
  BY DrivesStep, TransferStep, BytesStep
<1>3. BInv => BytesExact
  BY DEF BInv, BytesExact
<1> QED
  BY <1>1, <1>2, <1>3, PTL DEF Spec
=============================================================================
