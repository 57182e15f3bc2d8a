------------------------------ MODULE VfsNames ------------------------------
(***************************************************************************)
(* The naming half of kernel/vfs.c: resolving a path one component at a    *)
(* time, the mount table and its stacking, and what vfs_open (O_CREAT) and *)
(* vfs_mkdir do with a path that does not resolve.  The table and the tree *)
(* are shared by every caller and have no lock: this module is the VFS as  *)
(* the one task that names files today (the shell, and kmain before it)    *)
(* sees it, so a call is one step.                                         *)
(*                                                                         *)
(* A path is a sequence of tokens, each a slash or a name.                 *)
(***************************************************************************)
EXTENDS Naturals, Sequences, SequencesExt, FiniteSets

CONSTANTS Names, Dot, DotDot,
          NameLen,         (* [Names -> Nat], in characters                *)
          Paths,           (* the paths callers pass                       *)
          VFS_PATH_MAX, VFS_NAME_MAX, MAX_MOUNTS,
          Inodes, NoInode,
          Root,            (* what vfs_init was given                      *)
          Disk,            (* inodes of the filesystem that can create     *)
          Roots,           (* what callers give vfs_mount                  *)
          Kind0, Entry0    (* the trees at the start                       *)

Slash == "/"

ASSUME NamesAssumption ==
  /\ Slash \notin Names /\ {Dot, DotDot} \subseteq Names
  /\ NameLen \in [Names -> Nat \ {0}] /\ VFS_NAME_MAX \in Nat
ASSUME PathsAssumption ==
  \A p \in Paths :
    /\ p \in Seq(Names \cup {Slash})
    /\ \A i \in 1 .. Len(p) - 1 : Slash \in {p[i], p[i + 1]}
ASSUME TreeAssumption ==
  /\ NoInode \notin Inodes
  /\ Root \in Disk /\ Disk \cup Roots \subseteq Inodes /\ Disk \cap Roots = {}
  /\ Kind0 \in [Inodes -> {"none", "file", "dir"}]
  /\ Kind0[Root] = "dir" /\ \A r \in Roots : Kind0[r] = "dir"
  /\ Entry0 \in [Inodes -> [Names -> Inodes \cup {NoInode}]]
  /\ MAX_MOUNTS \in Nat /\ MAX_MOUNTS > 0

VARIABLES kind,            (* inode->type; "none" is not allocated         *)
          entry,           (* what each directory holds                    *)
          mountpoints,     (* the mount table: punto NoInode is free       *)
          last             (* history: the last call that changed names    *)

vars == <<kind, entry, mountpoints, last>>

MountSlots == 0 .. MAX_MOUNTS - 1

Used == {m \in MountSlots : mountpoints[m].punto # NoInode}

Mount(p, r)           == [punto |-> p, root |-> r]
Did(op, path, ino, b) == [op |-> op, path |-> path, ino |-> ino, once |-> b]

(* vfs_init *)
Init ==
  /\ kind = Kind0
  /\ entry = Entry0
  /\ mountpoints = [m \in MountSlots |-> Mount(NoInode, NoInode)]
  /\ last = Did("init", <<>>, NoInode, FALSE)

-----------------------------------------------------------------------------
(* vfs_resolve *)

(* one turn of risolvi_mount: the first slot whose punto is i *)
Hop(i) ==
  LET over == {m \in Used : mountpoints[m].punto = i}
  IN  IF over = {} THEN i
      ELSE mountpoints[CHOOSE m \in over : \A k \in over : m <= k].root

(* mistakes: a single turn, and so no stacking; one turn too few *)
SubstituteOnce(i)  == Hop(i)
SubstituteShort(i) ==
  LET at[n \in 0 .. MAX_MOUNTS - 1] == IF n = 0 THEN i ELSE Hop(at[n - 1])
  IN  at[MAX_MOUNTS - 1]

(* risolvi_mount: MAX_MOUNTS turns; one that finds nothing changes nothing *)
Substitute(i) ==
  LET at[n \in 0 .. MAX_MOUNTS] == IF n = 0 THEN i ELSE Hop(at[n - 1])
  IN  at[MAX_MOUNTS]

Lookup(dir, name) ==
  IF dir = NoInode \/ kind[dir] # "dir" THEN NoInode ELSE entry[dir][name]

(* mistake: the mount applied to where the search starts, a component late *)
StepLate(at, name) ==
  IF at = NoInode \/ NameLen[name] > VFS_NAME_MAX THEN NoInode
  ELSE Lookup(Substitute(at), name)

Step(at, name) ==
  LET next == IF NameLen[name] > VFS_NAME_MAX THEN NoInode ELSE Lookup(at, name)
  IN  IF next = NoInode THEN NoInode ELSE Substitute(next)

PathLen(p) == FoldLeft(LAMBDA n, tok : n + (IF tok = Slash THEN 1 ELSE NameLen[tok]), 0, p)

Absolute(p) == p # <<>> /\ Head(p) = Slash /\ PathLen(p) < VFS_PATH_MAX

(* from start along the tokens of p; slashes in a row count as one, those *)
(* at the end for nothing                                                 *)
Walk(start, p) ==
  LET at[n \in 0 .. Len(p)] ==
        IF n = 0 THEN start ELSE IF p[n] = Slash THEN at[n - 1] ELSE Step(at[n - 1], p[n])
  IN  at[Len(p)]

(* mistake: the root taken as vfs_init got it, though a mount may cover it *)
ResolveBareRoot(p) == IF Absolute(p) THEN Walk(Root, p) ELSE NoInode

(* the inode a path names, or NoInode for -1 *)
Resolve(p) == IF Absolute(p) THEN Walk(Substitute(Root), p) ELSE NoInode

-----------------------------------------------------------------------------
(* spezza_path cuts at the last slash; it refuses a path that ends in one *)

(* mistake: cutting at the first slash, unless the path ends in one *)
FirstSlash(p) ==
  IF p[Len(p)] = Slash THEN Len(p) ELSE SelectInSeq(p, LAMBDA tok : tok = Slash)

LastSlash(p) == Max({0} \cup {n \in DOMAIN p : p[n] = Slash})

Splits(p) ==
  /\ Absolute(p)
  /\ LastSlash(p) < Len(p)
  /\ NameLen[p[Len(p)]] <= VFS_NAME_MAX

Parent(p) == IF LastSlash(p) = 1 THEN <<Slash>> ELSE SubSeq(p, 1, LastSlash(p) - 1)

(* the create of the disk's filesystem, minixfs.c: one outcome of three.   *)
(* It succeeds; it fails and undoes what it did; or the disk fails after   *)
(* the entry of a new directory is in place, before "." or ".." or before  *)
(* the links of the parent are written, and the entry stays.               *)
FsCreate(dir, name, type, i) ==
  /\ i \in Disk /\ kind[i] = "none"
  /\ kind' = [kind EXCEPT ![i] = type]
  /\ \/ /\ type = "file"
        /\ entry' = [entry EXCEPT ![dir][name] = i]
     \/ /\ type = "dir"
        /\ entry' = [entry EXCEPT ![dir][name] = i,
                                  ![i] = [@ EXCEPT ![Dot] = i, ![DotDot] = dir]]

FsCreateHalf(dir, name, type, i) ==
  /\ type = "dir"
  /\ i \in Disk /\ kind[i] = "none"
  /\ kind' = [kind EXCEPT ![i] = type]
  /\ entry' \in {[entry EXCEPT ![dir][name] = i],
                 [entry EXCEPT ![dir][name] = i, ![i][Dot] = i],
                 [entry EXCEPT ![dir][name] = i, ![i][Dot] = i, ![i][DotDot] = dir]}

(* crea_ultimo: the parent must resolve to a directory that can create *)
CreaUltimo(p, type, op) ==
  LET dir == Resolve(Parent(p))
      name == p[Len(p)]
  IN  /\ Splits(p)
      /\ dir \in Disk /\ kind[dir] = "dir"
      /\ entry[dir][name] = NoInode
      /\ \E i \in Inodes :
           \/ /\ FsCreate(dir, name, type, i)
              /\ last' = Did(op, p, i, FALSE)
           \/ /\ FsCreateHalf(dir, name, type, i)
              /\ last' = Did("failed", p, i, FALSE)
      /\ UNCHANGED mountpoints

-----------------------------------------------------------------------------
(* The calls, where they change something; every other outcome is a -1 or  *)
(* the inode that was found, and changes nothing.                          *)

OpenCreating(p) ==
  /\ Resolve(p) = NoInode
  /\ CreaUltimo(p, "file", "open")

Mkdir(p) ==
  /\ Resolve(p) = NoInode
  /\ CreaUltimo(p, "dir", "mkdir")

(* mistake: the slot taken before it is known that the path resolves *)
VfsMountHasty(p, radice) ==
  /\ \E m \in MountSlots \ Used :
       mountpoints' = [mountpoints EXCEPT ![m] = Mount(Resolve(p), radice)]
  /\ last' = Did("mount", p, radice, FALSE)
  /\ UNCHANGED <<kind, entry>>

(* p comes to where it leads with its last component, and no sooner: not   *)
(* through "..", and not through a root mounted inside itself              *)
MetOnce(p) ==
  \A n \in DOMAIN p :
    p[n] # Slash => Walk(Substitute(Root), SubSeq(p, 1, n - 1)) # Resolve(p)

(* vfs_mount: every check before the slot is written *)
VfsMount(p, radice) ==
  LET punto == Resolve(p)
  IN  /\ kind[radice] = "dir"
      /\ punto # NoInode /\ kind[punto] = "dir"
      /\ punto # radice
      /\ \E m \in MountSlots \ Used :
           /\ \A k \in MountSlots \ Used : m <= k
           /\ mountpoints' = [mountpoints EXCEPT ![m] = Mount(punto, radice)]
      /\ last' = Did("mount", p, radice, MetOnce(p))
      /\ UNCHANGED <<kind, entry>>

Next ==
  \E p \in Paths :
    \/ OpenCreating(p)
    \/ Mkdir(p)
    \/ \E r \in Roots : VfsMount(p, r)

Spec == Init /\ [][Next]_vars

-----------------------------------------------------------------------------

TypeOK ==
  /\ kind \in [Inodes -> {"none", "file", "dir"}]
  /\ entry \in [Inodes -> [Names -> Inodes \cup {NoInode}]]
  /\ mountpoints \in [MountSlots -> [punto : Inodes \cup {NoInode},
                                     root : Roots \cup {NoInode}]]
  /\ \A m \in MountSlots : mountpoints[m].punto = NoInode <=> mountpoints[m].root = NoInode

(* some mount of every group leads out of the group *)
Acyclic ==
  \A S \in SUBSET Used :
    S # {} => \E m \in S : \A k \in S : mountpoints[k].punto # mountpoints[m].root

(* What was created is what its path names from then on, through whatever  *)
(* mounts and spellings: the parent was found the way a lookup finds it.   *)
CreatedIsFound ==
  last.op \in {"open", "mkdir"} => Resolve(last.path) = last.ino

(* What is mounted on a path is what the path names from then on, also on  *)
(* top of other mounts (vfs.c:638-641), if the mounts have no cycle and no *)
(* component before the last is covered with it.                           *)
MountIsSeen ==
  last.op = "mount" /\ last.once /\ Acyclic => Resolve(last.path) = Substitute(last.ino)

(* The comment on risolvi_mount: MAX_MOUNTS turns are exactly enough.  No  *)
(* chain without a cycle is left half followed.                            *)
CapIsEnough ==
  Acyclic => \A i \in Inodes : \A m \in Used : mountpoints[m].punto # Substitute(i)

(* Without a cycle no slot is wasted on a mount that another one hides.    *)
NoShadowedMount ==
  Acyclic => \A m, k \in Used : mountpoints[m].punto = mountpoints[k].punto => m = k

(* The table of mounts does what a mount promises, through stacks, chains   *)
(* and spellings: the last one on a place is seen (vfs.c:627-676), the cap   *)
(* on the turns cuts no chain short (vfs.c:213-250), no slot is wasted.      *)
MountTableSound == TypeOK /\ MountIsSeen /\ CapIsEnough /\ NoShadowedMount

(* A mount covers: nothing is created in the directory under it, whatever  *)
(* the path, ".." included.                                                *)
CoveredUntouched ==
  [][\A m \in Used : entry'[mountpoints[m].punto] = entry[mountpoints[m].punto]]_vars

=============================================================================
