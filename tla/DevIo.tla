------------------------------- MODULE DevIo -------------------------------
(***************************************************************************)
(* kernel/devio.c: a disk seen as a file of bytes, over Ata.  blk_read and *)
(* blk_write go through one sector at a time, and a write of part of a     *)
(* sector reads it first.  Calls do not overlap; minixfs calls Ata         *)
(* directly, for several sectors.                                          *)
(***************************************************************************)
EXTENDS Ata

CONSTANTS Starts, Counts   \* offsets and lengths, in bytes, of the calls

ASSUME DevIoAssumption == Starts \subseteq Nat /\ Counts \subseteq Nat

VARIABLES
  io,       \* the call of blk_read or blk_write, or the last one and its answer
  before    \* history: the disks when it began

vars == <<ataVars, io, before>>

None == [at |-> "idle", op |-> "none", b |-> 0, off |-> 0, asked |-> 0, n |-> 0, done |-> 0,
         bounce |-> Junk, dst |-> <<>>, ans |-> 0]

(* devio_fill_inode: the size of the inode is the capacity of the disk. *)
Size(b) == drives[b].nsectors * SECTOR_SIZE

Lba  == (io.off + io.done) \div SECTOR_SIZE
Skip == (io.off + io.done) % SECTOR_SIZE
Chunk == Min({SECTOR_SIZE - Skip, io.n - io.done})

Reads(b)     == Enter("read", b, Lba, 1, <<>>)
Writes(b, s) == Enter("write", b, Lba, 1, <<s>>)

(* The chunk of the caller's buffer laid over a sector. *)
Merged(s) == [k \in Offsets |->
                IF k \in Skip .. Skip + Chunk - 1
                  THEN <<ATA_MAX_DRIVES, io.done + k - Skip, 0>> ELSE s[k]]

Answered(n) == [io EXCEPT !.at = "idle", !.ans = n]
Failed == Answered(IF io.done > 0 THEN io.done ELSE -1)
Onward == [io EXCEPT !.at = "loop", !.done = @ + Chunk]

CallOver == call.at = "idle"
AtaElse == UNCHANGED <<kind, disk, drv, sel, drives, probe, late, faults>>
NoCall == UNCHANGED <<call, was>>

(* blk_read and blk_write, up to the loop. *)
Begin(op, b, off, n) ==
  /\ Free /\ io.at = "idle" /\ calls < MaxCalls
  /\ io' = [None EXCEPT !.op = op, !.b = b, !.off = off, !.asked = n,
                        !.at = IF off >= Size(b) THEN "idle" ELSE "loop",
                        !.n = IF off >= Size(b) THEN 0 ELSE Min({n, Size(b) - off})]
  /\ before' = disk /\ calls' = calls + 1
  /\ AtaElse /\ NoCall

LoopEnds ==
  /\ io.at = "loop" /\ io.done = io.n
  /\ io' = Answered(io.done)
  /\ AtaElse /\ NoCall /\ UNCHANGED <<calls, before>>

(* mistake: a part of a sector is written over whatever is in the buffer. *)
WholeAlways(chunk) == TRUE
Whole(chunk) == chunk = SECTOR_SIZE

ReadSector ==
  /\ io.at = "loop" /\ io.done < io.n
  /\ io.op = "read" \/ ~Whole(Chunk)
  /\ Reads(io.b)
  /\ io' = [io EXCEPT !.at = IF io.op = "read" THEN "copy" ELSE "modify"]
  /\ AtaElse /\ UNCHANGED <<calls, before>>

WriteWhole ==
  /\ io.at = "loop" /\ io.done < io.n /\ io.op = "write" /\ Whole(Chunk)
  /\ Writes(io.b, Merged(io.bounce))
  /\ io' = [io EXCEPT !.at = "written", !.bounce = Merged(@)]
  /\ AtaElse /\ UNCHANGED <<calls, before>>

Copy ==
  /\ io.at = "copy" /\ CallOver
  /\ io' = IF call.ok
             THEN [Onward EXCEPT !.bounce = call.got[1],
                                 !.dst = @ \o [k \in 1 .. Chunk |-> call.got[1][Skip + k - 1]]]
             ELSE Failed
  /\ AtaElse /\ NoCall /\ UNCHANGED <<calls, before>>

Modify ==
  /\ io.at = "modify" /\ CallOver
  /\ IF call.ok
       THEN /\ Writes(io.b, Merged(call.got[1]))
            /\ io' = [io EXCEPT !.at = "written", !.bounce = Merged(call.got[1])]
       ELSE io' = Failed /\ NoCall
  /\ AtaElse /\ UNCHANGED <<calls, before>>

WriteEnds ==
  /\ io.at = "written" /\ CallOver
  /\ io' = IF call.ok THEN Onward ELSE Failed
  /\ AtaElse /\ NoCall /\ UNCHANGED <<calls, before>>

(* A call of minixfs, or of the shell's commands over sectors. *)
Direct(op, b, lba, n) ==
  /\ Free /\ io.at = "idle" /\ calls < MaxCalls
  /\ Enter(op, b, lba, n, IF op = "write"
                            THEN [i \in 1 .. n |-> FromBuffer((i - 1) * SECTOR_SIZE)] ELSE <<>>)
  /\ calls' = calls + 1 /\ io' = None /\ before' = disk
  /\ AtaElse

-----------------------------------------------------------------------------
Init == AtaInit /\ io = None /\ before = disk

Driver ==
  \/ AtaStep /\ UNCHANGED <<io, before>>
  \/ LoopEnds \/ ReadSector \/ WriteWhole \/ Copy \/ Modify \/ WriteEnds
Next ==
  \/ Driver
  \/ \E d \in Positions : Work(d) /\ UNCHANGED <<io, before>>
  \/ \E b \in DOMAIN drives, op \in {"read", "write"} :
       \/ \E off \in Starts, n \in Counts : Begin(op, b, off, n)
       \/ \E lba \in 0 .. NSectors, n \in 0 .. MaxTransfer + 1 : Direct(op, b, lba, n)

(* The kernel goes on; the drives need not. *)
Spec == Init /\ [][Next]_vars /\ WF_vars(Driver)

-----------------------------------------------------------------------------
(* properties *)

TypeOK ==
  /\ AtaTypeOK
  /\ io.at \in {"idle", "loop", "copy", "modify", "written"}
  /\ io.done <= io.n /\ io.n <= io.asked /\ Len(io.dst) <= io.done
  /\ io.bounce \in Sectors /\ io.ans \in -1 .. io.n

(* The table of drives is right whatever is on the channel, and stays so     *)
(* while calls run, fail and leave drives busy (ata.c:335-395).              *)
DrivesSound == TypeOK /\ DrivesFound

ByteAt(d, p) == disk[d][p \div SECTOR_SIZE][p % SECTOR_SIZE]
ByteBefore(d, p) == before[d][p \div SECTOR_SIZE][p % SECTOR_SIZE]
Capacity == NSectors * SECTOR_SIZE

(* The byte view tells the truth: a read hands over as many bytes as it    *)
(* says, the ones at that offset; a write changes those bytes and no       *)
(* other, neighbours in the same sectors included; what lies past its      *)
(* answer, or was refused by the drive, has its old value or the new one.  *)
(* Without a refusal the answer is what there is up to the end of the      *)
(* disk.  A CD-ROM counts as one: it leaves ERR set.                       *)
BytesExact ==
  io.at = "idle" /\ io.op # "none" /\ ~late =>
    LET d == drives[io.b].drive
        k == IF io.ans < 0 THEN 0 ELSE io.ans
    IN /\ io.op = "read" =>
            io.dst = [j \in 1 .. k |-> ByteBefore(d, io.off + j - 1)]
       /\ \A e \in Positions, p \in 0 .. Capacity - 1 :
            LET new == ByteAt(e, p) = <<ATA_MAX_DRIVES, p - io.off, 0>>
                old == ByteAt(e, p) = ByteBefore(e, p)
            IN IF io.op = "read" \/ e # d \/ p \notin io.off .. io.off + io.n - 1 THEN old
               ELSE IF p < io.off + k /\ faults = 0 THEN new ELSE old \/ new
       /\ faults = 0 /\ (\A e \in Positions : kind[e] # "cdrom") =>
            io.ans = IF io.off >= Capacity THEN 0
                     ELSE Min({io.asked, Capacity - io.off})

(* The header of ata.c: every wait has a limit, so that a channel that     *)
(* never answers, at boot or later, cannot stop the kernel.                *)
CallReturns ==
  [](~(Free /\ io.at = "idle") => <>(Free /\ io.at = "idle"))
=============================================================================
