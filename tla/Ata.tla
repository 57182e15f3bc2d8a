-------------------------------- MODULE Ata --------------------------------
(***************************************************************************)
(* kernel/ata.c: two drives on one channel, driven by polling.  A step of  *)
(* the driver is one wait (ata_wait) with what the code does once it is    *)
(* over; a step of a drive is external.  A drive obeys a command when it   *)
(* is neither busy nor waiting for data, and otherwise ignores it; it      *)
(* keeps ERR until the next command.                                       *)
(*                                                                         *)
(* A sector is a function of SECTOR_SIZE bytes, a byte a triple: which     *)
(* drive, sector and position it was read from, or which place of the      *)
(* buffer of a write it comes from.                                        *)
(***************************************************************************)
EXTENDS Integers, Sequences, FiniteSets, FiniteSetsExt

CONSTANTS SECTOR_SIZE,
          NSectors,      \* of every disk
          MaxTransfer,   \* 256: what a count register of 0 stands for
          MaxFaults,     \* bound on the commands a drive refuses
          MaxCalls       \* bound on the calls made from outside

ASSUME AtaAssumption ==
  /\ SECTOR_SIZE \in Nat \ {0} /\ NSectors \in Nat \ {0}
  /\ MaxTransfer \in Nat \ {0} /\ MaxFaults \in Nat /\ MaxCalls \in Nat

ATA_MAX_DRIVES == 2
Positions == 0 .. ATA_MAX_DRIVES - 1
LBAs == 0 .. NSectors - 1
Offsets == 0 .. SECTOR_SIZE - 1

Original(d, lba) == [k \in Offsets |-> <<d, lba, k>>]
FromBuffer(at) == [k \in Offsets |-> <<ATA_MAX_DRIVES, at + k, 0>>]
Junk == [k \in Offsets |-> <<-1, 0, 0>>]

VARIABLES
  kind,     \* what is attached at each position: "disk", "cdrom" or "none"
  disk,     \* the sectors of each position, as the drive would read them
  drv,      \* the status of each drive, and the command it is on
  sel,      \* the position selected by the last write of 0x1F6
  drives,   \* drives[] and infos[], as far as ndrives
  probe,    \* d of ata_init, ATA_MAX_DRIVES when it is over
  call,     \* the call under way, or the last one and its answer
  was,      \* history: the disks when that call began
  late,     \* history: some wait was given up
  faults, calls

ataVars == <<kind, disk, drv, sel, drives, probe, call, was, late, faults, calls>>

-----------------------------------------------------------------------------
(* the drives *)

Quiet == [busy |-> FALSE, drq |-> FALSE, err |-> FALSE, cmd |-> "none",
          lba |-> 0, left |-> 0, data |-> Junk]
Refused == [Quiet EXCEPT !.err = TRUE]

Obeys(d) == kind[d] # "none" /\ ~drv[d].busy /\ ~drv[d].drq
Command(d, cmd, lba, n) ==
  IF Obeys(d)
    THEN [drv EXCEPT ![d] = [Quiet EXCEPT !.busy = TRUE, !.cmd = cmd, !.lba = lba,
                                          !.left = IF n = 0 THEN MaxTransfer ELSE n]]
    ELSE drv

Becomes(d, s) == drv' = [drv EXCEPT ![d] = s]
Waiting(s) == [s EXCEPT !.busy = FALSE, !.drq = TRUE, !.data = Junk]
Further(s) == [s EXCEPT !.lba = @ + 1, !.left = @ - 1]

(* A busy drive goes on by itself. *)
Stored(d) == [disk EXCEPT ![d][drv[d].lba] = drv[d].data]
Work(d) ==
  /\ drv[d].busy
  /\ LET s == drv[d]
     IN \/ /\ s.cmd = "read" /\ s.lba \in LBAs
           /\ Becomes(d, Waiting(s)) /\ UNCHANGED <<disk, faults>>
        \/ /\ s.cmd = "identify" /\ kind[d] = "disk"
           /\ Becomes(d, Waiting(s)) /\ UNCHANGED <<disk, faults>>
        \/ /\ s.cmd = "write" /\ s.lba \in LBAs /\ s.data = Junk
           /\ Becomes(d, Waiting(s)) /\ UNCHANGED <<disk, faults>>
        \/ /\ s.cmd = "write" /\ s.lba \in LBAs /\ s.data # Junk
           /\ Becomes(d, IF s.left = 1 THEN Quiet ELSE Waiting(Further(s)))
           /\ disk' = Stored(d) /\ UNCHANGED faults
        \/ /\ s.cmd = "flush"
           /\ Becomes(d, Quiet) /\ UNCHANGED <<disk, faults>>
        \/ /\ s.lba \notin LBAs \/ (s.cmd = "identify" /\ kind[d] = "cdrom")
           /\ Becomes(d, Refused) /\ UNCHANGED <<disk, faults>>
        \/ /\ faults < MaxFaults /\ faults' = faults + 1
           /\ Becomes(d, Refused)
           /\ disk' \in {disk} \union (IF s.data # Junk THEN {Stored(d)} ELSE {})
  /\ UNCHANGED <<kind, sel, drives, probe, call, was, late, calls>>

(* The data register, a sector at a time. *)
Selected == drv[sel]
SectorIn == IF Selected.drq /\ Selected.cmd = "read" THEN disk[sel][Selected.lba] ELSE Junk
AfterIn ==
  IF ~Selected.drq \/ Selected.cmd = "write" THEN Selected
  ELSE IF Selected.left = 1 THEN Quiet
  ELSE [Further(Selected) EXCEPT !.busy = TRUE, !.drq = FALSE]
AfterOut(c) ==
  IF Selected.drq /\ Selected.cmd = "write"
    THEN [Selected EXCEPT !.busy = TRUE, !.drq = FALSE, !.data = c]
    ELSE Selected

-----------------------------------------------------------------------------
(* the driver *)

(* ata_wait: ERR ends it, whatever it is waiting for; so does its limit.   *)
(* mistake: the wait has no limit. *)
AtaWaitForever(met, done, failed) ==
  /\ UNCHANGED late
  /\ \/ Selected.err /\ failed
     \/ ~Selected.err /\ met /\ done

AtaWait(met, done, failed) ==
  \/ Selected.err /\ failed /\ UNCHANGED late
  \/ ~Selected.err /\ met /\ done /\ UNCHANGED late
  \/ ~Selected.err /\ ~met /\ failed /\ late' = TRUE

NotBusy == ~Selected.busy
DataReady == ~Selected.busy /\ Selected.drq

Idle == [at |-> "idle", op |-> "none", b |-> 0, lba |-> 0, n |-> 0, i |-> 0,
         got |-> <<>>, src |-> <<>>, ok |-> TRUE]
Answer(ok) == call' = [call EXCEPT !.at = "idle", !.ok = ok]

(* ata_range_ok *)
RangeOk(b, lba, count) ==
  /\ count <= MaxTransfer
  /\ lba < drives[b].nsectors
  /\ count <= drives[b].nsectors - lba

(* ata_dev_read or ata_dev_write is entered, src being what to write. *)
Enter(op, b, lba, count, src) ==
  /\ was' = disk
  /\ call' = [Idle EXCEPT
                !.op = op, !.b = b, !.lba = lba, !.n = count, !.src = src,
                !.ok = count = 0 \/ RangeOk(b, lba, count),
                !.at = IF count # 0 /\ RangeOk(b, lba, count) THEN "prepare" ELSE "idle"]

(* ata_prepare: the wait looks at the drive selected before, then another  *)
(* may be selected.                                                        *)
Prepare ==
  /\ call.at = "prepare"
  /\ LET d == drives[call.b].drive
     IN AtaWait(NotBusy,
                /\ sel' = d
                /\ drv' = Command(d, call.op, call.lba, call.n % MaxTransfer)
                /\ call' = [call EXCEPT !.at = "transfer"],
                Answer(FALSE) /\ UNCHANGED <<sel, drv>>)
  /\ UNCHANGED <<kind, disk, drives, probe, was, faults, calls>>

(* The next sector, each after a wait of its own. *)
Last == call.i + 1 = call.n
TakeSector ==
  /\ Becomes(sel, AfterIn)
  /\ call' = [call EXCEPT !.got = Append(@, SectorIn), !.i = @ + 1,
                          !.at = IF Last THEN "idle" ELSE "transfer"]
GiveSector ==
  /\ Becomes(sel, AfterOut(call.src[call.i + 1]))
  /\ call' = [call EXCEPT !.i = @ + 1, !.at = IF Last THEN "flush" ELSE "transfer"]

(* mistake: one wait for all the sectors. *)
TransferOneWait ==
  /\ call.at = "transfer"
  /\ LET next == IF call.op = "read" THEN TakeSector ELSE GiveSector
     IN IF call.i > 0 THEN next /\ UNCHANGED late
        ELSE AtaWait(DataReady, next, Answer(FALSE) /\ UNCHANGED drv)
  /\ UNCHANGED <<kind, disk, sel, drives, probe, was, faults, calls>>

Transfer ==
  /\ call.at = "transfer"
  /\ AtaWait(DataReady, IF call.op = "read" THEN TakeSector ELSE GiveSector,
             Answer(FALSE) /\ UNCHANGED drv)
  /\ UNCHANGED <<kind, disk, sel, drives, probe, was, faults, calls>>

(* The flush is commanded at once, while the drive is still busy with the  *)
(* last sector unless it is quick.                                         *)
Flush ==
  /\ call.at = "flush"
  /\ drv' = Command(sel, "flush", 0, 1)
  /\ call' = [call EXCEPT !.at = "flushed"]
  /\ UNCHANGED <<kind, disk, sel, drives, probe, was, late, faults, calls>>

Flushed ==
  /\ call.at = "flushed"
  /\ AtaWait(NotBusy, Answer(TRUE), Answer(FALSE))
  /\ UNCHANGED <<kind, disk, drv, sel, drives, probe, was, faults, calls>>

-----------------------------------------------------------------------------
(* ata_init, and ata_identify *)

ProbeNext == probe' = probe + 1 /\ call' = Idle

ProbeCommand ==
  /\ probe < ATA_MAX_DRIVES /\ call.at = "idle"
  /\ sel' = probe
  /\ drv' = Command(probe, "identify", 0, 1)
  /\ call' = [Idle EXCEPT !.at = "status", !.op = "identify"]
  /\ UNCHANGED <<kind, disk, drives, probe, was, late, faults, calls>>

(* A status of 0, or 0xFF of which ERR is a bit: there is nothing.         *)
ProbeStatus ==
  /\ call.at = "status"
  /\ IF kind[sel] = "none" THEN ProbeNext
     ELSE call' = [call EXCEPT !.at = "signature"] /\ UNCHANGED probe
  /\ UNCHANGED <<kind, disk, drv, sel, drives, was, late, faults, calls>>

ProbeSignature ==
  /\ call.at = "signature"
  /\ AtaWait(NotBusy,
             IF kind[sel] = "cdrom" THEN ProbeNext
             ELSE call' = [call EXCEPT !.at = "capacity"] /\ UNCHANGED probe,
             ProbeNext)
  /\ UNCHANGED <<kind, disk, drv, sel, drives, was, faults, calls>>

(* mistake: the slot of the array is taken for the position. *)
RegisterBySlot(n) == Append(drives, [drive |-> Len(drives), minor |-> probe * 64, nsectors |-> n])
(* mistake: the disk is registered and its capacity is not filled in. *)
RegisterEmpty(n) == Append(drives, [drive |-> probe, minor |-> probe * 64, nsectors |-> 0])

Register(n) == Append(drives, [drive |-> probe, minor |-> probe * 64, nsectors |-> n])

ProbeCapacity ==
  /\ call.at = "capacity"
  /\ AtaWait(DataReady,
             Becomes(sel, AfterIn) /\ drives' = Register(NSectors) /\ ProbeNext,
             UNCHANGED <<drv, drives>> /\ ProbeNext)
  /\ UNCHANGED <<kind, disk, sel, was, faults, calls>>

-----------------------------------------------------------------------------
AtaInit ==
  /\ kind \in [Positions -> {"disk", "cdrom", "none"}]
  /\ disk = [d \in Positions |-> [l \in LBAs |-> Original(d, l)]]
  /\ drv = [d \in Positions |-> Quiet]
  /\ sel = 0 /\ drives = <<>> /\ probe = 0
  /\ call = Idle /\ was = disk
  /\ late = FALSE /\ faults = 0 /\ calls = 0

AtaStep ==
  \/ Prepare \/ Transfer \/ Flush \/ Flushed
  \/ ProbeCommand \/ ProbeStatus \/ ProbeSignature \/ ProbeCapacity

(* The channel is free for a call from outside. *)
Free == probe = ATA_MAX_DRIVES /\ call.at = "idle"

-----------------------------------------------------------------------------
(* properties *)

Sectors == [Offsets -> Int \X Int \X Int]
AtaTypeOK ==
  /\ kind \in [Positions -> {"disk", "cdrom", "none"}]
  /\ disk \in [Positions -> [LBAs -> Sectors]]
  /\ drv \in [Positions -> [busy: BOOLEAN, drq: BOOLEAN, err: BOOLEAN,
                            cmd: {"none", "read", "write", "flush", "identify"},
                            lba: Nat, left: 0 .. MaxTransfer, data: Sectors]]
  /\ sel \in Positions /\ probe \in 0 .. ATA_MAX_DRIVES
  /\ \A b \in DOMAIN drives :
       drives[b] \in [drive: Positions, minor: {0, 64}, nsectors: {NSectors}]
  /\ call.at \in {"idle", "status", "signature", "capacity", "prepare", "transfer",
                  "flush", "flushed"}
  /\ call.i <= call.n /\ Len(call.got) <= call.i
  /\ late \in BOOLEAN /\ faults \in 0 .. MaxFaults /\ calls \in 0 .. MaxCalls

(* The registry tells the truth about what is on the channel: an entry     *)
(* reads and writes the disk its minor number names, and when no drive     *)
(* refuses or is slow every disk has one, in order, a slave alone too.     *)
DrivesFound ==
  /\ \A b \in DOMAIN drives :
       kind[drives[b].drive] = "disk" /\ drives[b].minor = 64 * drives[b].drive
  /\ \A b, c \in DOMAIN drives : b < c => drives[b].drive < drives[c].drive
  /\ probe = ATA_MAX_DRIVES /\ ~late /\ faults = 0 =>
       Len(drives) = Cardinality({d \in Positions : kind[d] = "disk"})

Target == drives[call.b].drive
Touched == IF call.op = "write" /\ call.b \in DOMAIN drives
             THEN {<<Target, call.lba + i>> : i \in 0 .. call.n - 1}
             ELSE {}
Written(l) == disk[Target][l] = call.src[l - call.lba + 1]

(* When no wait has been given up, a call that answers its count has moved *)
(* the sectors it was asked for, all of them, from or to the right disk;   *)
(* and a call moves nothing else, also when it fails half way or follows   *)
(* one that did.  The last sector of a write is excepted when a drive has  *)
(* refused a command: if it is refused before the flush is commanded, the  *)
(* flush clears ERR and ata_dev_write answers its count all the same.      *)
TransferExact ==
  call.at = "idle" /\ ~late =>
    /\ call.op = "read" /\ call.ok =>
         call.got = [i \in 1 .. call.n |-> was[Target][call.lba + i - 1]]
    /\ \A d \in Positions, l \in LBAs :
         \/ <<d, l>> \in Touched /\ Written(l)
         \/ disk[d][l] = was[d][l] /\
              \/ <<d, l>> \notin Touched
              \/ ~call.ok
              \/ faults > 0 /\ l = call.lba + call.n - 1
=============================================================================
